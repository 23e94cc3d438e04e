----------------------------- MODULE Challenge -----------------------------
(***************************************************************************)
(* sample_challenge_ring_element: eight bytes of signs from the first block,  *)
(* then an inside-out shuffle driven by its other bytes and by the blocks     *)
(* after it.  Length is 256, so that a byte is any index; Ones is tau.        *)
(***************************************************************************)
EXTENDS Integers, Sequences, FiniteSets

CONSTANTS Length,      \* coefficients, 256
          Ones,        \* number_of_ones
          FirstBytes,  \* bytes of the first block after the signs, 128
          BlockBytes   \* bytes of the blocks after it, 136

VARIABLES polynomial,  \* result in the code
          out_index,   \* the next position to fill
          signs,       \* the bits not used yet, lowest first
          bits,        \* all of them; only to state the property
          done,        \* inside_out_shuffle's verdict, for the block under way
          left,        \* bytes of the block not looked at yet
          heard,       \* the bytes used, in order; only to state the property
          stage
challengeVars == <<polynomial, out_index, signs, bits, done, left, heard, stage>>

Index == 0 .. Length - 1

(* The bits are taken as the sign bits the shuffle will use, in this order. *)
Init ==
  /\ polynomial = [n \in Index |-> 0]
  /\ out_index = Length - Ones
  /\ bits \in [1 .. Ones -> {0, 1}]
  /\ signs = bits
  /\ done = FALSE
  /\ left = FirstBytes
  /\ heard = <<>>
  /\ stage = "shuffle"

(* What the byte points at moves to the new position, and a sign takes its     *)
(* place: when the byte is the position itself, the sign comes last.           *)
Swapped_SignFirst(sample_at) ==
  [polynomial EXCEPT ![sample_at] = 1 - 2 * Head(signs), ![out_index] = polynomial[sample_at]]
Swapped(sample_at) ==
  [polynomial EXCEPT ![out_index] = polynomial[sample_at], ![sample_at] = 1 - 2 * Head(signs)]

UseByte(sample_at) ==
  /\ stage = "shuffle" /\ left > 0 /\ ~done /\ sample_at <= out_index
  /\ polynomial' = Swapped(sample_at)
  /\ out_index' = out_index + 1
  /\ signs' = Tail(signs)
  /\ done' = (out_index' = Length)
  /\ heard' = Append(heard, sample_at)
  /\ left' = left - 1
  /\ UNCHANGED <<bits, stage>>

PassByte(sample_at) ==
  /\ stage = "shuffle" /\ left > 0 /\ (done \/ sample_at > out_index)
  /\ left' = left - 1
  /\ UNCHANGED <<polynomial, out_index, signs, bits, done, heard, stage>>

SqueezeBlock ==
  /\ stage = "shuffle" /\ left = 0 /\ ~done
  /\ left' = BlockBytes
  /\ UNCHANGED <<polynomial, out_index, signs, bits, done, heard, stage>>

Finish ==
  /\ stage = "shuffle" /\ left = 0 /\ done
  /\ stage' = "finished"
  /\ UNCHANGED <<polynomial, out_index, signs, bits, done, left, heard>>

Next ==
  \/ \E sample_at \in Index : UseByte(sample_at) \/ PassByte(sample_at)
  \/ SqueezeBlock
  \/ Finish
=============================================================================
