----------------------------- MODULE BitPacking -----------------------------
(***************************************************************************)
(* Words of unknown bits.  A word is a set of pairs <<position, bit>>, where  *)
(* "bit" names a bit of the input, so that shifts, masks and disjunctions      *)
(* are computed once for all inputs: two bits in one position, a bit lost or   *)
(* a bit in the wrong place show in the set.                                   *)
(***************************************************************************)
EXTENDS Integers, Sequences

w | v == w \cup v
w & mask == {b \in w : (mask \div 2^b[1]) % 2 = 1}
Shl(w, n) == {<<b[1] + n, b[2]>> : b \in w}
Shr(w, n) == {<<b[1] - n, b[2]>> : b \in {b \in w : b[1] >= n}}

(* The conversion to uint8_t. *)
U8(w) == w & 255

(* An input of this many bits. *)
Field(name, bits) == {<<k, <<name, k>>>> : k \in 0 .. bits - 1}

(* Arrays count from 0; a function of the code that returns several bytes or   *)
(* coefficients returns a sequence.                                            *)
Slice(array, at, n) == [i \in 0 .. n - 1 |-> array[at + i]]

Written(array, at, chunk) ==
  [i \in DOMAIN array |->
     IF i >= at /\ i < at + Len(chunk) THEN chunk[i - at + 1] ELSE array[i]]
=============================================================================
