------------------------------- MODULE Verify -------------------------------
(***************************************************************************)
(* ML-DSA verify_internal and the decoding of the hint in it, in both builds  *)
(* of the crate: the whole signature is decoded first, or, with the feature   *)
(* `stack', row by row as the commitment is recomputed                        *)
(* (libcrux-iot/ml-dsa/src/ml_dsa_generic.rs 380-651, encoding/signature.rs   *)
(* 54-224, matrix.rs 145-212, arithmetic.rs 101-139).                          *)
(*                                                                         *)
(* The ring arithmetic is left out: the commitment recomputed with the right  *)
(* hint hashes to the signature's hash or it does not.                        *)
(***************************************************************************)
EXTENDS HintSpec

CONSTANT COLUMNS

ASSUME ColumnsAssumption == COLUMNS \in Nat \ {0}

VARIABLES
  stack,   \* the build: is the feature `stack' on?
  hint_serialized, exceeds, hash_matches,   \* the signature, see VerifySpec
  pc,
  i,       \* row
  j,       \* column, or byte of the hint section
  previous_true_hints_seen,
  malformed_hint,
  hint,    \* deserialized_hint, of the rows use_hint has been given with `stack'
  result

signature == <<stack, hint_serialized, exceeds, hash_matches>>
vars == <<signature, pc, i, j, previous_true_hints_seen, malformed_hint, hint, result>>

Undecided == [verdict |-> "none", hint |-> NoHint]

Init ==
  /\ stack \in BOOLEAN
  /\ hint_serialized \in HintBytes
  /\ exceeds \in SUBSET (0 .. COLUMNS - 1)
  /\ hash_matches \in BOOLEAN
  /\ pc = IF stack THEN "columns" ELSE "rows"
  /\ i = 0
  /\ j = 0
  /\ previous_true_hints_seen = 0
  /\ malformed_hint = FALSE
  /\ hint = NoHint
  /\ result = Undecided

current_true_hints_seen == hint_serialized[OMEGA + i]

(* Mutant: the count has no upper bound. *)
CountWrong_NoMax == current_true_hints_seen < previous_true_hints_seen

CountWrong ==
  \/ current_true_hints_seen < previous_true_hints_seen
  \/ current_true_hints_seen > OMEGA

(* Mutant: <, equal positions are let through. *)
PositionWrong_Equal ==
  j > previous_true_hints_seen /\ hint_serialized[j] < hint_serialized[j - 1]

PositionWrong ==
  j > previous_true_hints_seen /\ hint_serialized[j] <= hint_serialized[j - 1]

PaddingWrong(seen) == \E k \in seen .. OMEGA - 1 : hint_serialized[k] # 0

SetHint == hint' = [hint EXCEPT ![i] = @ \cup {hint_serialized[j]}]

Return(verdict) ==
  /\ result' = [verdict |-> verdict, hint |-> IF verdict = "Ok" THEN hint ELSE NoHint]
  /\ pc' = "done"

-----------------------------------------------------------------------------
(* Without `stack': deserialize, which has no early return. *)

(* while !malformed_hint && i < rows_in_a *)
StartRow ==
  /\ pc = "rows"
  /\ ~malformed_hint /\ i < ROWS
  /\ malformed_hint' = CountWrong
  /\ j' = previous_true_hints_seen
  /\ pc' = "hints"
  /\ UNCHANGED <<signature, i, previous_true_hints_seen, hint, result>>

(* while !malformed_hint && j < current_true_hints_seen *)
DecodeHint ==
  /\ pc = "hints" /\ ~stack
  /\ ~malformed_hint /\ j < current_true_hints_seen
  /\ malformed_hint' = PositionWrong
  /\ IF PositionWrong THEN UNCHANGED <<hint, j>> ELSE SetHint /\ j' = j + 1
  /\ UNCHANGED <<signature, pc, i, previous_true_hints_seen, result>>

EndRow ==
  /\ pc = "hints" /\ ~stack
  /\ malformed_hint \/ j >= current_true_hints_seen
  /\ IF malformed_hint
       THEN UNCHANGED <<i, previous_true_hints_seen>>
       ELSE i' = i + 1 /\ previous_true_hints_seen' = current_true_hints_seen
  /\ pc' = "rows"
  /\ UNCHANGED <<signature, j, malformed_hint, hint, result>>

(* The padding, the verdict of deserialize, and the norms of the response. *)
EndDeserialize ==
  /\ pc = "rows"
  /\ malformed_hint \/ i = ROWS
  /\ malformed_hint' = (malformed_hint \/ PaddingWrong(previous_true_hints_seen))
  /\ IF malformed_hint' THEN Return("MalformedHintError")
     ELSE IF exceeds # {} THEN Return("SignerResponseExceedsBoundError")
     ELSE pc' = "compare" /\ UNCHANGED result
  /\ UNCHANGED <<signature, i, j, previous_true_hints_seen, hint>>

-----------------------------------------------------------------------------
(* With `stack': each row on its own, with early returns. *)

(* compute_w_approx_i: deserialize_signer_response_j for each column *)
DecodeResponse ==
  /\ pc = "columns"
  /\ j < COLUMNS
  /\ IF j \in exceeds
       THEN Return("SignerResponseExceedsBoundError") /\ UNCHANGED j
       ELSE j' = j + 1 /\ UNCHANGED <<pc, result>>
  /\ UNCHANGED <<signature, i, previous_true_hints_seen, malformed_hint, hint>>

(* use_hint_i: deserialize_hint begins *)
StartRowHint ==
  /\ pc = "columns"
  /\ j = COLUMNS
  /\ IF CountWrong
       THEN Return("MalformedHintError") /\ UNCHANGED j
       ELSE pc' = "hints" /\ j' = previous_true_hints_seen /\ UNCHANGED result
  /\ UNCHANGED <<signature, i, previous_true_hints_seen, malformed_hint, hint>>

DecodeRowHint ==
  /\ pc = "hints" /\ stack
  /\ j < current_true_hints_seen
  /\ IF PositionWrong
       THEN Return("MalformedHintError") /\ UNCHANGED <<hint, j>>
       ELSE SetHint /\ j' = j + 1 /\ UNCHANGED <<pc, result>>
  /\ UNCHANGED <<signature, i, previous_true_hints_seen, malformed_hint>>

(* Mutant: the padding is checked after every row but the last. *)
LastRow_OffByOne == i < ROWS - 1

LastRow == i = ROWS - 1

(* hints_check_zero_padding with the last row, and on to the next one *)
EndRowHint ==
  /\ pc = "hints" /\ stack
  /\ j = current_true_hints_seen
  /\ previous_true_hints_seen' = current_true_hints_seen
  /\ IF LastRow /\ PaddingWrong(current_true_hints_seen)
       THEN Return("MalformedHintError") /\ UNCHANGED <<i, j>>
       ELSE /\ i' = i + 1
            /\ j' = 0
            /\ pc' = IF i + 1 < ROWS THEN "columns" ELSE "compare"
            /\ UNCHANGED result
  /\ UNCHANGED <<signature, malformed_hint, hint>>

-----------------------------------------------------------------------------
(* The hash of the recomputed commitment *)
Compare ==
  /\ pc = "compare"
  /\ Return(IF hash_matches THEN "Ok" ELSE "CommitmentHashesDontMatchError")
  /\ UNCHANGED <<signature, i, j, previous_true_hints_seen, malformed_hint, hint>>

Next ==
  \/ StartRow \/ DecodeHint \/ EndRow \/ EndDeserialize
  \/ DecodeResponse \/ StartRowHint \/ DecodeRowHint \/ EndRowHint
  \/ Compare

Spec == Init /\ [][Next]_vars

-----------------------------------------------------------------------------
(* Properties *)

(***************************************************************************)
(* No byte of the counts is ever taken for a position: while a row is         *)
(* decoded j stays in the first OMEGA bytes, although it runs up to a count   *)
(* read from the signature (signature.rs 107-119, 185-194).                   *)
(***************************************************************************)
PositionsInBounds ==
  pc = "hints" /\ ~malformed_hint /\ j < current_true_hints_seen => j < OMEGA

(***************************************************************************)
(* No other encoding of the hint of an accepted signature would be accepted:  *)
(* "we allow only one such encoding, to ensure strong unforgeability"         *)
(* (signature.rs 90-91).                                                      *)
(***************************************************************************)
OneEncoding ==
  result.verdict = "Ok" =>
    \A s \in HintBytes :
      Canonical(s) /\ HintOf(s) = result.hint => s = hint_serialized

(***************************************************************************)
(* Both builds decide alike, and as VerifySpec says: one encoding of a hint   *)
(* is accepted, and the hint used is the one it encodes.                      *)
(***************************************************************************)
Promise == INSTANCE VerifySpec

ImplementsVerifySpec == Promise!Spec
=============================================================================
