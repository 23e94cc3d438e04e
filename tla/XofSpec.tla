------------------------------- MODULE XofSpec ------------------------------
(***************************************************************************)
(* What the incremental XOF promises its caller (the doc comments of the    *)
(* Xof trait, libcrux-iot/sha3/src/lib.rs 386-439): however the input is    *)
(* cut into calls, the object behaves as the one-shot sponge on the         *)
(* concatenation, and each squeeze returns the stream from the first block  *)
(* boundary at or after what was returned before.                           *)
(***************************************************************************)
EXTENDS Sponge

CONSTANTS
  Inputs,    \* the byte strings one absorb may be given
  OutLens    \* the lengths one squeeze may be asked for

VARIABLES
  input,     \* everything absorbed so far
  finalized, \* has absorb_final returned?
  used,      \* output blocks used up, wholly or in part
  ret        \* what the latest squeeze returned

vars == <<input, finalized, used, ret>>

Init ==
  /\ input = << >>
  /\ finalized = FALSE
  /\ used = 0
  /\ ret = << >>

Absorb(data) ==
  /\ ~finalized
  /\ input' = input \o data
  /\ UNCHANGED <<finalized, used, ret>>

AbsorbFinal(data) ==
  /\ ~finalized
  /\ input' = input \o data
  /\ finalized' = TRUE
  /\ UNCHANGED <<used, ret>>

(* A squeeze of 0 bytes still uses up a block, though the trait's comment      *)
(* (lib.rs 432-438) has bytes skipped only after lengths RATE does not divide. *)
BlocksFor(n) == IF n = 0 THEN 1 ELSE (n + RATE - 1) \div RATE

Squeeze(n) ==
  /\ finalized
  /\ ret' = [i \in 1 .. n |-> StreamByte(input, used * RATE + i)]
  /\ used' = used + BlocksFor(n)
  /\ UNCHANGED <<input, finalized>>

Next ==
  \/ \E data \in Inputs : Absorb(data) \/ AbsorbFinal(data)
  \/ \E n \in OutLens : Squeeze(n)

Spec == Init /\ [][Next]_vars
=============================================================================
