------------------------------ MODULE HintSpec ------------------------------
(***************************************************************************)
(* The hint section of an ML-DSA signature, its last OMEGA + ROWS bytes       *)
(* (libcrux-iot/ml-dsa/src/encoding/signature.rs): for each row of the hint   *)
(* the positions of its ones, row after row, zeros up to OMEGA, and then for  *)
(* each row how many ones there are up to its end.                            *)
(***************************************************************************)
EXTENDS Integers, FiniteSets

CONSTANTS
  COEFFS,  \* COEFFICIENTS_IN_RING_ELEMENT (256), which is also the range of a byte
  ROWS,    \* ROWS_IN_A (4, 6 or 8)
  OMEGA    \* MAX_ONES_IN_HINT (80, 55 or 75)

ASSUME HintAssumption ==
  /\ {COEFFS, ROWS} \subseteq Nat \ {0}
  /\ OMEGA \in 0 .. COEFFS - 1

Coeffs == 0 .. COEFFS - 1
Rows == 0 .. ROWS - 1
U8 == 0 .. COEFFS - 1

HintBytes == [0 .. OMEGA + ROWS - 1 -> U8]

(* A hint: for each row, the positions of its ones. *)
Hints == [Rows -> SUBSET Coeffs]
NoHint == [r \in Rows |-> {}]

Zeroed == [k \in 0 .. OMEGA + ROWS - 1 |-> 0]

(* Where the positions of row r begin and end in s. *)
From(s, r) == IF r = 0 THEN 0 ELSE s[OMEGA + r - 1]
To(s, r) == s[OMEGA + r]

RowCanonical(s, r) ==
  /\ From(s, r) <= To(s, r)
  /\ To(s, r) <= OMEGA
  /\ \A k \in From(s, r) + 1 .. To(s, r) - 1 : s[k - 1] < s[k]

(* The one encoding there is of a hint, as FIPS 204's HintBitPack gives it. *)
Canonical(s) ==
  /\ \A r \in Rows : RowCanonical(s, r)
  /\ \A k \in To(s, ROWS - 1) .. OMEGA - 1 : s[k] = 0

HintOf(s) == [r \in Rows |-> {s[k] : k \in From(s, r) .. To(s, r) - 1}]
=============================================================================
