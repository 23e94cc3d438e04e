----------------------------- MODULE VerifySpec -----------------------------
(***************************************************************************)
(* What ML-DSA verification promises of a signature (ml_dsa_generic.rs        *)
(* 380-651, and the comment of encoding/signature.rs 90-91): it is accepted   *)
(* when its hint is the one encoding of that hint, every response is within   *)
(* the bound, and the commitment recomputed with that hint hashes to the hash *)
(* it carries; otherwise it is refused for a reason that holds of it.         *)
(***************************************************************************)
EXTENDS HintSpec

CONSTANT COLUMNS  \* COLUMNS_IN_A (4, 5 or 7)

VARIABLES
  hint_serialized,  \* the signature: its hint section,
  exceeds,          \* the columns whose response is beyond the bound,
  hash_matches,     \* and whether its hash is that of the commitment
  result            \* none yet, or the verdict and the hint that was used

Undecided == [verdict |-> "none", hint |-> NoHint]

Reasons ==
  { r \in {"MalformedHintError", "SignerResponseExceedsBoundError",
           "CommitmentHashesDontMatchError"} :
      CASE r = "MalformedHintError" -> ~Canonical(hint_serialized)
        [] r = "SignerResponseExceedsBoundError" -> exceeds # {}
        [] OTHER -> Canonical(hint_serialized) /\ exceeds = {} /\ ~hash_matches }

Valid == Canonical(hint_serialized) /\ exceeds = {} /\ hash_matches

Verdicts ==
  IF Valid THEN {[verdict |-> "Ok", hint |-> HintOf(hint_serialized)]}
           ELSE {[verdict |-> r, hint |-> NoHint] : r \in Reasons}

Init ==
  /\ hint_serialized \in HintBytes
  /\ exceeds \in SUBSET (0 .. COLUMNS - 1)
  /\ hash_matches \in BOOLEAN
  /\ result = Undecided

Decide ==
  /\ result = Undecided
  /\ result' \in Verdicts
  /\ UNCHANGED <<hint_serialized, exceeds, hash_matches>>

vars == <<hint_serialized, exceeds, hash_matches, result>>

Spec == Init /\ [][Decide]_vars
=============================================================================
