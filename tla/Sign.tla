-------------------------------- MODULE Sign --------------------------------
(***************************************************************************)
(* ML-DSA signing: the rejection loop of sign_internal, the masks it samples  *)
(* and the hint it writes into the caller's buffer                            *)
(* (libcrux-iot/ml-dsa/src/ml_dsa_generic.rs 139-372 and 654-790, sample.rs   *)
(* 442-505, arithmetic.rs 74-99, encoding/signature.rs 7-53).                 *)
(*                                                                         *)
(* The ring arithmetic is left out: an attempt is rejected by any of its four *)
(* tests or comes to any hint with few enough ones.  A commitment hash or a   *)
(* response is the number of the attempt it is from.                          *)
(***************************************************************************)
EXTENDS HintSpec, Sequences

CONSTANTS
  COLUMNS,      \* COLUMNS_IN_A, the polynomials of a mask (4, 5 or 7)
  BOUND,        \* REJECTION_SAMPLE_BOUND_SIGN (814)
  U16,          \* 2^16, the range of a domain separator
  CONTEXT_MAX_LEN,  \* 255
  ContextLens,  \* the lengths of context a caller passes
  FreshBuffer   \* is the signature buffer zeroed (sign) or the caller's (sign_mut)?

ASSUME SignAssumption ==
  /\ COLUMNS \in Nat /\ COLUMNS >= 4
  /\ BOUND \in Nat \ {0}
  /\ U16 \in Nat /\ BOUND * COLUMNS <= U16
  /\ CONTEXT_MAX_LEN \in Nat /\ ContextLens \subseteq Nat
  /\ FreshBuffer \in BOOLEAN

VARIABLES
  context_len,
  pc,
  attempt,
  domain_separator,  \* domain_separator_for_mask
  column,            \* polynomials of the mask sampled so far
  commitment_hash, signer_response, hint,   \* each an Option
  i, j, true_hints_seen,   \* the loops of serialize
  signature,         \* [hash, response, and the hint section]
  result,
  \* history
  used,     \* the domain separators masks were sampled with, in order
  tries     \* attempts begun

options == <<commitment_hash, signer_response, hint>>
loops == <<i, j, true_hints_seen>>
vars == <<context_len, pc, attempt, domain_separator, column, options, loops,
          signature, result, used, tries>>

None == << >>
Some(x) == << x >>

Buffers == IF FreshBuffer THEN {Zeroed} ELSE HintBytes

Init ==
  /\ context_len \in ContextLens
  /\ pc = "context"
  /\ attempt = 0
  /\ domain_separator = 0
  /\ column = 0
  /\ commitment_hash = None /\ signer_response = None /\ hint = None
  /\ i = 0 /\ j = 0 /\ true_hints_seen = 0
  /\ signature \in [hash : {0}, response : {0}, hint : Buffers]
  /\ result = "none"
  /\ used = << >>
  /\ tries = 0

(* DomainSeparationContext::new *)
CheckContext ==
  /\ pc = "context"
  /\ IF context_len > CONTEXT_MAX_LEN
       THEN result' = "ContextTooLongError" /\ pc' = "done"
       ELSE pc' = "loop" /\ UNCHANGED result
  /\ UNCHANGED <<context_len, attempt, domain_separator, column, options, loops,
                 signature, used, tries>>

-----------------------------------------------------------------------------
(* sample_mask_vector: four polynomials in one go, then the others one by one *)

Separators(n) == [k \in 1 .. n |-> (domain_separator + k - 1) % U16]

SampleFour ==
  /\ pc = "loop"
  /\ attempt < BOUND
  /\ attempt' = attempt + 1
  /\ tries' = tries + 1
  /\ used' = used \o Separators(4)
  /\ domain_separator' = (domain_separator + 4) % U16
  /\ column' = 4
  /\ pc' = "mask"
  /\ UNCHANGED <<context_len, options, loops, signature, result>>

(* Mutant: the separator is counted up after the loop's last pass only. *)
SampleOne_Late ==
  /\ pc = "mask"
  /\ column < COLUMNS
  /\ used' = used \o Separators(1)
  /\ domain_separator' =
       IF column = COLUMNS - 1 THEN (domain_separator + 1) % U16 ELSE domain_separator
  /\ column' = column + 1
  /\ UNCHANGED <<context_len, pc, attempt, options, loops, signature, result, tries>>

SampleOne ==
  /\ pc = "mask"
  /\ column < COLUMNS
  /\ used' = used \o Separators(1)
  /\ domain_separator' = (domain_separator + 1) % U16
  /\ column' = column + 1
  /\ UNCHANGED <<context_len, pc, attempt, options, loops, signature, result, tries>>

-----------------------------------------------------------------------------
(* The tests of an attempt *)

(* What make_hint counts. *)
Ones(h) == Cardinality({p \in Rows \X Coeffs : p[2] \in h[p[1]]})

(* One of the three norms is exceeded. *)
RejectNorm ==
  /\ pc = "mask"
  /\ column = COLUMNS
  /\ pc' = "loop"
  /\ UNCHANGED <<context_len, attempt, domain_separator, column, options, loops,
                 signature, result, used, tries>>

TooManyOnes(h) == Ones(h) > OMEGA

(* Mutant: the loop is not left. *)
Accept_GoesOn(h) ==
  /\ attempt' = attempt
  /\ commitment_hash' = Some(tries)
  /\ signer_response' = Some(tries)
  /\ hint' = Some(h)

Accept(h) ==
  /\ attempt' = BOUND
  /\ commitment_hash' = Some(tries)
  /\ signer_response' = Some(tries)
  /\ hint' = Some(h)

MakeHint(h) ==
  /\ pc = "mask"
  /\ column = COLUMNS
  /\ IF TooManyOnes(h) THEN UNCHANGED <<attempt, options>> ELSE Accept(h)
  /\ pc' = "loop"
  /\ UNCHANGED <<context_len, domain_separator, column, loops, signature, result,
                 used, tries>>

(* Mutant: an acceptance in the last attempt is taken for exhaustion. *)
Exhausted_LastAttempt == None \in {commitment_hash, signer_response, hint} \/ tries = BOUND

Exhausted == None \in {commitment_hash, signer_response, hint}

(* The end of the loop, and the hash and the response into the signature. *)
EndLoop ==
  /\ pc = "loop"
  /\ attempt >= BOUND
  /\ IF Exhausted
       THEN /\ result' = "RejectionSamplingError"
            /\ pc' = "done"
            /\ UNCHANGED signature
       ELSE /\ signature' = [signature EXCEPT !.hash = commitment_hash[1],
                                              !.response = signer_response[1]]
            /\ pc' = "serialize"
            /\ UNCHANGED result
  /\ UNCHANGED <<context_len, attempt, domain_separator, column, options, loops,
                 used, tries>>

-----------------------------------------------------------------------------
(* serialize: the hint, a coefficient at a time *)

WriteHint ==
  /\ pc = "serialize"
  /\ j < COEFFS
  /\ IF j \in hint[1][i]
       THEN /\ signature' = [signature EXCEPT !.hint[true_hints_seen] = j]
            /\ true_hints_seen' = true_hints_seen + 1
       ELSE UNCHANGED <<signature, true_hints_seen>>
  /\ j' = j + 1
  /\ UNCHANGED <<context_len, pc, attempt, domain_separator, column, options, i,
                 result, used, tries>>

(* Mutant: the count of each row is written where the next one's belongs. *)
CountAt_Next == OMEGA + ((i + 1) % ROWS)

CountAt == OMEGA + i

EndHintRow ==
  /\ pc = "serialize"
  /\ j = COEFFS
  /\ signature' = [signature EXCEPT !.hint[CountAt] = true_hints_seen]
  /\ i' = i + 1
  /\ j' = 0
  /\ IF i + 1 < ROWS THEN UNCHANGED <<pc, result>> ELSE pc' = "done" /\ result' = "Ok"
  /\ UNCHANGED <<context_len, attempt, domain_separator, column, options,
                 true_hints_seen, used, tries>>

Next ==
  \/ CheckContext
  \/ SampleFour \/ SampleOne
  \/ RejectNorm
  \/ \E h \in Hints : MakeHint(h)
  \/ EndLoop
  \/ WriteHint \/ EndHintRow

Spec == Init /\ [][Next]_vars

-----------------------------------------------------------------------------
(* Properties *)

(***************************************************************************)
(* No two mask polynomials of a signature, of whichever attempts, are made    *)
(* from the same seed: separators go on counting from attempt to attempt and  *)
(* never come round (sample.rs 458-462, 495-497; ml_dsa_generic.rs 213, 235). *)
(***************************************************************************)
MasksFresh == \A a, b \in DOMAIN used : a # b => used[a] # used[b]

(***************************************************************************)
(* Once an attempt is accepted no other is begun, though the loop has no      *)
(* break (ml_dsa_generic.rs 331): the signature is of the first accepted. *)
(***************************************************************************)
NoMaskAfterAcceptance == [][hint # None => used' = used]_vars

(***************************************************************************)
(* Signing fails only after BOUND attempts, each of them rejected; an attempt *)
(* accepted at the very bound still counts (ml_dsa_generic.rs 228, 341-354).  *)
(***************************************************************************)
FailsOnlyAfterBound ==
  result = "RejectionSamplingError" => tries = BOUND /\ hint = None

(***************************************************************************)
(* A signature is of one attempt throughout, and its hint section is the one  *)
(* encoding of that attempt's hint, which verification asks for.              *)
(***************************************************************************)
SignatureVerifies ==
  result = "Ok" =>
    /\ signature.hash = tries /\ signature.response = tries
    /\ Canonical(signature.hint)
    /\ HintOf(signature.hint) = hint[1]
=============================================================================
