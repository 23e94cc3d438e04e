---------------------------- MODULE LaneSampling ----------------------------
(***************************************************************************)
(* What the rejection samplers of both schemes share.  Several lanes, each    *)
(* with the stream of its own seed, read their blocks group by group; a group *)
(* holds Group candidates and those accepted are appended to the lane's       *)
(* array, which is a little longer than the N coefficients of an element.     *)
(* Only how many of a group are accepted matters, for they keep their order:  *)
(* the n-th accepted candidate of a seed's stream is <<seed, n>>, from 0.     *)
(***************************************************************************)
EXTENDS Integers

CONSTANTS N,            \* coefficients of a ring element, 256
          Group,        \* candidates in a group: 8 in ML-DSA, 16 in ML-KEM
          FirstGroups,  \* groups in the first blocks squeezed
          NextGroups,   \* groups in every further block
          Patience      \* from this block on a group has an accepted candidate

ASSUME SamplingAssumption ==
  {N, Group, FirstGroups, NextGroups, Patience} \subseteq Nat \ {0}

VARIABLES flow,     \* the caller, and the dimensions of what it samples
          start,    \* the first element of the batch under way
          block,    \* squeezes in it, up to Patience
          lane,     \* the lane being read
          group,    \* groups read of its block
          full,     \* the sampler's own done, for the block under way
          tmp,      \* the lanes' arrays
          sampled,  \* coefficients in them
          done,     \* the caller's flags
          drawn,    \* candidates accepted so far in the lane's stream, read or not
          matrix,   \* the elements written, by index
          pc
vars == <<flow, start, block, lane, group, full, tmp, sampled, done, drawn, matrix, pc>>

(* How many candidates of a group are accepted. *)
Accepted == {n \in 0 .. Group : block >= Patience => n >= 1}

(* Counting stops where it can no longer tell a right element from a wrong one. *)
Advanced(n, m) == IF n + m < N + Group THEN n + m ELSE N + Group

(* The first n accepted candidates appended to an array with n0 in it. *)
Appended(array, n0, seed, first, n) ==
  [k \in DOMAIN array |-> IF k \in n0 .. n0 + n - 1 THEN <<seed, first + k - n0>> ELSE array[k]]

(* A place nothing was written to. *)
Zero == <<>>
Zeros(length) == [k \in 0 .. length - 1 |-> Zero]
Element(array) == [k \in 0 .. N - 1 |-> array[k]]
=============================================================================
