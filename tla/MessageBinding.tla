--------------------------- MODULE MessageBinding ---------------------------
(***************************************************************************)
(* What a signature is over (ml_dsa_generic.rs 655-900, pre_hash.rs): a call   *)
(* that signs and one that verifies, each plain or pre-hashed, with a context  *)
(* and a message.  The XOF is a stream, as XofSpec has it, and collides with   *)
(* nothing: a representative is the sequence that was absorbed, a digest a     *)
(* value of its own that may also occur in a message.                          *)
(***************************************************************************)
EXTENDS Integers, Sequences

CONSTANTS
  Contexts, Messages,   \* sets of sequences of bytes
  BYTE_VALUES,          \* the values of a byte
  CONTEXT_MAX_LEN,      \* BYTE_VALUES - 1
  SHAKE128_OID,         \* a sequence of bytes
  Octets                \* what these sequences are made of

(* pre_hash.rs and ml_dsa_generic.rs 860-890: a length fits the byte it is      *)
(* written to, and there is an identifier.                                    *)
ASSUME BindingAssumption ==
  /\ Contexts \subseteq Seq(Octets) /\ Messages \subseteq Seq(Octets)
  /\ SHAKE128_OID \in Seq(Octets) /\ SHAKE128_OID # << >>
  /\ BYTE_VALUES \in Nat /\ BYTE_VALUES > 1 /\ CONTEXT_MAX_LEN = BYTE_VALUES - 1

VARIABLES stage, signed, signature, checked, verdict
binding == <<stage, signed, signature, checked, verdict>>

Byte(n) == <<"byte", n>>
Hash(message) == << <<"SHAKE128", message>> >>

Calls == [preHashed : BOOLEAN, context : Contexts, message : Messages]

TooLong(context) == Len(context) > CONTEXT_MAX_LEN

Bool(b) == IF b THEN 1 ELSE 0

(* DomainSeparationContext::new, and what is handed on as the message *)
Separation(call) ==
  [context |-> call.context, pre_hash_oid |-> IF call.preHashed THEN SHAKE128_OID ELSE << >>]
Message(call) == IF call.preHashed THEN Hash(call.message) ELSE call.message

(* Mutant: the length of the context is left out. *)
derive_message_representative_NoLength(separation, message) ==
  << <<"verification_key_hash">> >>
    \o <<Byte(Bool(separation.pre_hash_oid # << >>))>>
    \o separation.context \o separation.pre_hash_oid \o message

derive_message_representative(separation, message) ==
  << <<"verification_key_hash">> >>
    \o <<Byte(Bool(separation.pre_hash_oid # << >>))>>
    \o <<Byte(Len(separation.context) % BYTE_VALUES)>>
    \o separation.context \o separation.pre_hash_oid \o message

Representative(call) == derive_message_representative(Separation(call), Message(call))

BindingInit ==
  /\ stage = "sign"
  /\ signed \in Calls
  /\ signature = << >> /\ checked = signed /\ verdict = "none"

(* sign_mut and sign_pre_hashed_mut: nothing is signed for a long context. *)
Sign ==
  /\ stage = "sign"
  /\ IF TooLong(signed.context)
       THEN stage' = "refused" /\ UNCHANGED signature
       ELSE stage' = "verify" /\ signature' = Representative(signed)
  /\ UNCHANGED <<signed, checked, verdict>>

(* verify and verify_pre_hashed *)
Verify ==
  /\ stage = "verify"
  /\ checked' \in Calls
  /\ verdict' = IF TooLong(checked'.context) THEN "ContextTooLong"
                ELSE IF Representative(checked') = signature THEN "Ok" ELSE "HashesDontMatch"
  /\ stage' = "done"
  /\ UNCHANGED <<signed, signature>>

BindingNext == Sign \/ Verify

BindingSpec == BindingInit /\ [][BindingNext]_binding

-----------------------------------------------------------------------------
(***************************************************************************)
(* A signature holds for the message, the context and the kind it was made    *)
(* for and for no other: neither part can be taken for the end of the one      *)
(* before, and a plain message that spells an identifier and a digest is not   *)
(* a pre-hashed one.                                                           *)
(***************************************************************************)
VerifiesOnlyWhatWasSigned == stage = "done" => (verdict = "Ok" <=> checked = signed)
=============================================================================
