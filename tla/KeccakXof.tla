------------------------------ MODULE KeccakXof -----------------------------
(***************************************************************************)
(* KeccakXofState<RATE>, the input-buffering XOF behind Shake128Xof and      *)
(* Shake256Xof (libcrux-iot/sha3/src/keccak.rs 12-242, lib.rs 386-488).      *)
(*                                                                         *)
(* One object, one caller.  A call is a sequence of steps, one per pass of   *)
(* its loop: absorb and absorb_final enter through absorb_full, which tops   *)
(* up the buffer, and leave by buffering the rest or by the padded block.    *)
(* The calls come in the order the Xof trait documents and every caller      *)
(* (ml-kem and ml-dsa hash_functions.rs) keeps: absorb, ..., absorb_final,   *)
(* squeeze, squeeze, ...                                                     *)
(***************************************************************************)
EXTENDS Sponge

CONSTANTS
  Byte,      \* the byte values inputs are made of
  Inputs,    \* the byte strings one absorb may be given
  OutLens,   \* the lengths one squeeze may be asked for
  MaxInput,  \* bound: bytes absorbed over the life of the object
  MaxUsed    \* bound: a squeeze starts only below this many used blocks

ASSUME ByteAssumption == Byte \subseteq 0 .. 255 /\ 0 \in Byte
ASSUME InputsAssumption == Inputs \subseteq Seq(Byte)
ASSUME OutLensAssumption == OutLens \subseteq Nat
ASSUME BoundsAssumption == MaxInput \in Nat /\ MaxUsed \in Nat

VARIABLES
  \* struct KeccakXofState
  inner,     \* the Keccak state
  buf,       \* [u8; RATE], bytes beyond buf_len are stale
  buf_len,
  sponge,    \* has squeeze been called?
  \* locals of the call in progress
  pc,        \* "idle", or the call in progress
  inputs,    \* its argument
  consumed,  \* input_consumed of absorb_full
  i,         \* passes done of the loop in absorb_full, or blocks out in _squeeze
  out_len,
  out,       \* out[..offset]
  \* history: what the caller has seen
  input, finalized, used, ret

state == <<inner, buf, buf_len, sponge>>
locals == <<pc, inputs, consumed, i, out_len, out>>
history == <<input, finalized, used, ret>>
vars == <<state, locals, history>>

Init ==
  /\ inner = NewState
  /\ buf = [j \in 1 .. RATE |-> 0]
  /\ buf_len = 0
  /\ sponge = FALSE
  /\ pc = "idle"
  /\ inputs = << >>
  /\ consumed = 0
  /\ i = 0
  /\ out_len = 0
  /\ out = << >>
  /\ input = << >>
  /\ finalized = FALSE
  /\ used = 0
  /\ ret = << >>

-----------------------------------------------------------------------------
(* absorb_full: top up a partly filled buffer when the input suffices. *)

(* Mutant: > for >=. *)
CanFill_Strict(data) == buf_len > 0 /\ Len(data) > RATE - buf_len

CanFill(data) == buf_len > 0 /\ Len(data) >= RATE - buf_len

FilledBuf(data) ==
  [j \in 1 .. RATE |-> IF j <= buf_len THEN buf[j] ELSE data[j - buf_len]]

fill_buffer(data) ==
  IF CanFill(data)
    THEN /\ consumed' = RATE - buf_len
         /\ buf' = FilledBuf(data)
         /\ inner' = absorb_block(inner, FilledBuf(data), 0)
         /\ buf_len' = 0
    ELSE /\ consumed' = 0
         /\ UNCHANGED <<buf, inner, buf_len>>

Enter(call, data) ==
  /\ pc = "idle"
  /\ ~finalized
  /\ Len(input) + Len(data) <= MaxInput
  /\ pc' = call
  /\ inputs' = data
  /\ i' = 0
  /\ fill_buffer(data)
  /\ UNCHANGED <<sponge, out_len, out, history>>

Absorb(data) == Enter("absorb", data)
AbsorbFinal(data) == Enter("absorb_final", data)

(* Mutant: the bytes that went to the buffer are counted again. *)
num_blocks_WholeInput == Len(inputs) \div RATE

num_blocks == (Len(inputs) - consumed) \div RATE
remainder == (Len(inputs) - consumed) % RATE
(* Mutant: the rest is read from the front. *)
Rest_Head == SubSeq(inputs, consumed + 1, consumed + remainder)

Rest == SubSeq(inputs, Len(inputs) - remainder + 1, Len(inputs))

(* Mutant: the bytes that went to the buffer are absorbed again. *)
AbsorbBlock_FromStart ==
  /\ pc \in {"absorb", "absorb_final"}
  /\ i < num_blocks
  /\ inner' = absorb_block(inner, inputs, i * RATE)
  /\ i' = i + 1
  /\ UNCHANGED <<buf, buf_len, sponge, pc, inputs, consumed, out_len, out, history>>

(* One pass of the loop over the full blocks of the input. *)
AbsorbBlock ==
  /\ pc \in {"absorb", "absorb_final"}
  /\ i < num_blocks
  /\ inner' = absorb_block(inner, inputs, consumed + i * RATE)
  /\ i' = i + 1
  /\ UNCHANGED <<buf, buf_len, sponge, pc, inputs, consumed, out_len, out, history>>

Return ==
  /\ pc' = "idle"
  /\ inputs' = << >>
  /\ consumed' = 0
  /\ i' = 0
  /\ out_len' = 0
  /\ out' = << >>

(* absorb: keep the rest of the input in the buffer. *)
BufferRest ==
  /\ pc = "absorb"
  /\ i = num_blocks
  /\ buf' = [j \in 1 .. RATE |-> IF j \in buf_len + 1 .. buf_len + remainder
                                   THEN Rest[j - buf_len] ELSE buf[j]]
  /\ buf_len' = buf_len + remainder
  /\ Return
  /\ input' = input \o inputs
  /\ UNCHANGED <<inner, sponge, finalized, used, ret>>

(* absorb_final: buffer and rest of the input make the padded block.  The  *)
(* buffer is not emptied.                                                  *)
FinalBlock ==
  /\ pc = "absorb_final"
  /\ i = num_blocks
  /\ inner' = absorb_final(inner, SubSeq(buf, 1, buf_len) \o Rest,
                           0, buf_len + remainder)
  /\ Return
  /\ input' = input \o inputs
  /\ finalized' = TRUE
  /\ UNCHANGED <<buf, buf_len, sponge, used, ret>>

-----------------------------------------------------------------------------
(* _squeeze *)

SmallerOf(a, b) == IF a <= b THEN a ELSE b

(* Up to and including the first store. *)
Squeeze(n) ==
  /\ pc = "idle"
  /\ finalized
  /\ used < MaxUsed
  /\ inner' = IF sponge THEN Keccakf1600(inner) ELSE inner
  /\ out' = Store(inner', SmallerOf(RATE, n))
  /\ out_len' = n
  /\ i' = 1
  /\ pc' = "squeeze"
  /\ UNCHANGED <<buf, buf_len, sponge, inputs, consumed, history>>

blocks == out_len \div RATE
last == out_len - (out_len % RATE)

(* Mutant: stored before the permutation. *)
SqueezeBlock_StoreFirst ==
  /\ pc = "squeeze"
  /\ i < blocks
  /\ inner' = Keccakf1600(inner)
  /\ out' = out \o Store(inner, RATE)
  /\ i' = i + 1
  /\ UNCHANGED <<buf, buf_len, sponge, pc, inputs, consumed, out_len, history>>

(* One pass of the loop over the further full blocks. *)
SqueezeBlock ==
  /\ pc = "squeeze"
  /\ i < blocks
  /\ inner' = Keccakf1600(inner)
  /\ out' = out \o Store(inner', RATE)
  /\ i' = i + 1
  /\ UNCHANGED <<buf, buf_len, sponge, pc, inputs, consumed, out_len, history>>

(* Mutant: the flag is not set. *)
MarkSqueezed_Not == UNCHANGED sponge

(* keccak_state.sponge = true: the next squeeze starts with a permutation. *)
MarkSqueezed == sponge' = TRUE

(* The last, partial block if there is one, and the return. *)
SqueezeLast ==
  /\ pc = "squeeze"
  /\ i >= blocks
  /\ IF last > 0 /\ last < out_len
       THEN /\ inner' = Keccakf1600(inner)
            /\ ret' = out \o Store(inner', out_len - Len(out))
       ELSE /\ ret' = out
            /\ UNCHANGED inner
  /\ MarkSqueezed
  /\ Return
  /\ used' = Len(inner') - Len(Absorbed(input)) + 1
  /\ UNCHANGED <<buf, buf_len, input, finalized>>

-----------------------------------------------------------------------------
Next ==
  \/ \E data \in Inputs : Absorb(data) \/ AbsorbFinal(data)
  \/ AbsorbBlock
  \/ BufferRest
  \/ FinalBlock
  \/ \E n \in OutLens : Squeeze(n)
  \/ SqueezeBlock
  \/ SqueezeLast

Spec == Init /\ [][Next]_vars

-----------------------------------------------------------------------------
(* Properties *)

KeccakStates == Seq(Seq(Byte \cup {DELIM, 128, 128 + DELIM}))

(***************************************************************************)
(* The fields and locals have their types; in particular buf_len is below   *)
(* RATE whenever absorb_full is entered (its requires clause, keccak.rs     *)
(* 75-86), so that no slice of buf is out of bounds.                        *)
(***************************************************************************)
TypeOK ==
  /\ inner \in KeccakStates
  /\ buf \in [1 .. RATE -> Byte]
  /\ buf_len \in 0 .. RATE - 1
  /\ sponge \in BOOLEAN
  /\ pc \in {"idle", "absorb", "absorb_final", "squeeze"}
  /\ inputs \in Seq(Byte)
  /\ consumed \in 0 .. RATE - 1
  /\ i \in Nat
  /\ out_len \in Nat
  /\ out \in Seq(KeccakStates \X (1 .. RATE))
  /\ input \in Seq(Byte)
  /\ finalized \in BOOLEAN
  /\ used \in Nat
  /\ ret \in Seq(KeccakStates \X (1 .. RATE))

(* The bytes handed to the object so far, by the calls that have returned   *)
(* and by the passes of the call in progress.                               *)
Taken == input \o SubSeq(inputs, 1, consumed + i * RATE)

(***************************************************************************)
(* While absorbing, the blocks permuted in and the live part of the buffer  *)
(* are the bytes taken so far, each once and in order, wherever the calls   *)
(* cut the input (absorb, absorb_full, fill_buffer).                        *)
(***************************************************************************)
NothingLostOrRepeated ==
  ~finalized =>
    /\ Len(Taken) = Len(inner) * RATE + buf_len
    /\ \A b \in 1 .. Len(inner) : inner[b] = Block(Taken, (b - 1) * RATE)
    /\ \A j \in 1 .. buf_len : buf[j] = Taken[Len(inner) * RATE + j]

(***************************************************************************)
(* Every slice is inside its array.  Absorbing: the rest that absorb_full    *)
(* leaves fits the buffer with room for the delimiter (keccak.rs 66-70,      *)
(* 173-178) and the loop reads inside the argument (107-118).  Squeezing:    *)
(* each full block fits out, and what is left after the loop starts at       *)
(* `last' (the debug_assert_eq of 234) and is shorter than a block.          *)
(***************************************************************************)
AbsorbInBounds ==
  pc \in {"absorb", "absorb_final"} =>
    /\ buf_len + remainder < RATE
    /\ buf_len > 0 => num_blocks = 0 /\ consumed = 0
    /\ consumed + num_blocks * RATE + remainder = Len(inputs)
    /\ i <= num_blocks

SqueezeInBounds ==
  pc = "squeeze" =>
    /\ Len(out) <= out_len
    /\ i < blocks => Len(out) + RATE <= out_len
    /\ i >= blocks =>
         /\ out_len - Len(out) < RATE
         /\ last > 0 /\ last < out_len <=> Len(out) < out_len
         /\ Len(out) < out_len => Len(out) = last

SlicesInBounds == AbsorbInBounds /\ SqueezeInBounds

(***************************************************************************)
(* No byte of output is handed out twice: what a squeeze returns was read   *)
(* from states the earlier squeezes had not reached (the sponge flag,       *)
(* keccak.rs 203-208 and 241).                                              *)
(***************************************************************************)
FreshOutput ==
  [][pc = "squeeze" /\ pc' = "idle" =>
       \A k \in DOMAIN ret' : Len(ret'[k][1]) >= Len(Absorbed(input)) + used]_vars

(***************************************************************************)
(* The first squeeze of n bytes returns what the one-shot keccak returns    *)
(* for the concatenated input (cross_spec_proptests.rs checks random        *)
(* splits of this).                                                         *)
(***************************************************************************)
BlocksFor(n) == IF n = 0 THEN 1 ELSE (n + RATE - 1) \div RATE

FirstSqueezeIsOneShot ==
  used > 0 /\ used = BlocksFor(Len(ret)) => ret = keccak(input, Len(ret))

(***************************************************************************)
(* The unbuffered API's multi-block squeezes, continued block by block as   *)
(* the ml-kem and ml-dsa samplers do, give the bytes of the same stream     *)
(* (keccak.rs 2619-2655, lib.rs 490-556).                                   *)
(***************************************************************************)
UnbufferedFollowsStream ==
  finalized /\ ~sponge =>
    LET s == Absorbed(input)
        Continues(sq, n) == sq.bytes = [k \in 1 .. n * RATE |-> StreamByte(input, k)]
    IN /\ Continues(squeeze_next_block(squeeze_first_three_blocks(s)), 4)
       /\ Continues(squeeze_next_block(squeeze_first_five_blocks(s)), 6)

(***************************************************************************)
(* The object implements the sponge stream of XofSpec.                      *)
(***************************************************************************)
Xof == INSTANCE XofSpec

ImplementsXofSpec == Xof!Spec
=============================================================================
