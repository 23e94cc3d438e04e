------------------------------- MODULE Sponge -------------------------------
(***************************************************************************)
(* The Keccak state as the sponge code sees it, and the operations of       *)
(* libcrux-iot/sha3/src/keccak.rs that only move whole blocks in and out    *)
(* of it: absorb_block, absorb_final, the squeeze_* functions and the       *)
(* one-shot keccak built from them.                                         *)
(*                                                                         *)
(* The permutation keccak-f[1600] is a free function here.  A state is the  *)
(* sequence of permutations applied so far; each entry is the block XORed   *)
(* into the rate just before that permutation, or NoBlock when nothing was. *)
(* An output byte is <<state it was read from, position in the rate>>, so   *)
(* two output bytes are equal exactly when they are the same byte of the    *)
(* same output block of the same input.                                     *)
(***************************************************************************)
EXTENDS Integers, Sequences

CONSTANTS
  RATE,    \* bytes of a block
  DELIM    \* the domain-separation byte written after the last input byte

ASSUME RateAssumption == RATE \in Nat \ {0}
ASSUME DelimAssumption == DELIM \in 1 .. 127

NoBlock == << >>

(* KeccakState::new(): nothing absorbed, no permutation applied. *)
NewState == << >>

(* RATE bytes of `data' from the 0-based offset `start', what load_block reads. *)
Block(data, start) == [j \in 1 .. RATE |-> data[start + j]]

Keccakf1600(s) == Append(s, NoBlock)

LoadAndPermute(s, block) == Append(s, block)

absorb_block(s, data, start) == LoadAndPermute(s, Block(data, start))

(* blocks[RATE - 1] |= 0x80.  That byte is 0 or DELIM, never a data byte. *)
SetTopBit(byte) == IF byte < 128 THEN byte + 128 ELSE byte

(* The last block: `len' < RATE bytes of data, the delimiter, zeros, and the *)
(* top bit of the last byte of the rate.                                     *)
PaddedBlock(data, start, len) ==
  LET blocks == [j \in 1 .. RATE |-> CASE j <= len -> data[start + j]
                                       [] j = len + 1 -> DELIM
                                       [] OTHER -> 0]
  IN [blocks EXCEPT ![RATE] = SetTopBit(@)]

absorb_final(s, last, start, len) ==
  LoadAndPermute(s, PaddedBlock(last, start, len))

(* KeccakState::store, store_block: the first n bytes of the rate. *)
Store(s, n) == [i \in 1 .. n |-> <<s, i>>]

-----------------------------------------------------------------------------
(* The one-shot hash: keccak::<RATE, DELIM>(data, out). *)

Absorbed(data) ==
  LET n   == Len(data) \div RATE
      rem == Len(data) % RATE
      full == [i \in 1 .. n |-> Block(data, (i - 1) * RATE)]
  IN absorb_final(full, data, Len(data) - rem, rem)

squeeze_first_block(s) == [state |-> s, bytes |-> Store(s, RATE)]

(* Mutant: stored before the permutation. *)
squeeze_next_block_StoreFirst(sq) ==
  [state |-> Keccakf1600(sq.state), bytes |-> sq.bytes \o Store(sq.state, RATE)]

squeeze_next_block(sq) ==
  LET s == Keccakf1600(sq.state)
  IN [state |-> s, bytes |-> sq.bytes \o Store(s, RATE)]

squeeze_last(sq, len) == sq.bytes \o Store(Keccakf1600(sq.state), len)

(* squeeze_first_block and then k - 1 times squeeze_next_block *)
SqueezeBlocks(s, k) ==
  LET run[i \in 1 .. k] == IF i = 1 THEN squeeze_first_block(s)
                                    ELSE squeeze_next_block(run[i - 1])
  IN run[k]

keccak(data, outlen) ==
  LET s == Absorbed(data)
      blocks == outlen \div RATE
      last == outlen - (outlen % RATE)
  IN CASE blocks = 0 -> Store(s, outlen)
       [] blocks > 0 /\ last < outlen ->
            squeeze_last(SqueezeBlocks(s, blocks), outlen - last)
       [] OTHER -> SqueezeBlocks(s, blocks).bytes

(* The two multi-block squeezes of the unbuffered API. *)
squeeze_first_three_blocks(s) == SqueezeBlocks(s, 3)
squeeze_first_five_blocks(s) == SqueezeBlocks(s, 5)

-----------------------------------------------------------------------------
(* Reference: the output stream of the sponge, as FIPS 202 defines it. *)

(* The state after n output blocks of the stream have been passed over. *)
StreamState(data, n) == Absorbed(data) \o [i \in 1 .. n |-> NoBlock]

(* The bytes of output block n (counted from 0) of the stream. *)
StreamByte(data, k) ==
  <<StreamState(data, (k - 1) \div RATE), ((k - 1) % RATE) + 1>>
=============================================================================
