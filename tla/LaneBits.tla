------------------------------ MODULE LaneBits ------------------------------
(***************************************************************************)
(* How bytes get into the lanes of the sponge's state and out again: a lane   *)
(* is kept as two words, its even bits and its odd bits.  Words of unknown    *)
(* bits, as in BitPacking; two bits in one position stand for their XOR.      *)
(***************************************************************************)
EXTENDS BitPacking, SequencesExt

VARIABLES pc,
          rate, delimiter,   \* of the hash function: what FIPS 202 calls r, and its suffix
          instance,          \* the function that was compiled for them
          start, size,       \* where the block begins in the caller's slice, and its bytes
          lanes,             \* by row and column, as get_lane has them, and half
          out                \* the caller's slice

a ^^ b == (a \ b) \cup (b \ a)

(* The masks 0x5555..., 0x3333..., 0x0f0f... and so on: n bits of every 2n. *)
Every(n, w) == {b \in w : (b[1] \div n) % 2 = 0}
U32(w) == {b \in w : b[1] < 32}

interleave(lane) ==
  LET lane_u64 == lane[1] | Shl(lane[2], 32)
      fold(w, n) == Every(2 * n, w ^^ Shr(w, n))
      gathered(w) == fold(fold(fold(fold(fold(Every(1, w), 1), 2), 4), 8), 16)
  IN <<gathered(lane_u64), gathered(Shr(lane_u64, 1))>>

deinterleave(lane) ==
  LET unfold(w, n) == Every(n, w ^^ U32(Shl(w, n)))
      spaced(w) == unfold(unfold(unfold(unfold(unfold(w, 16), 8), 4), 2), 1)
      lo(w) == spaced(Every(16, w))
      hi(w) == spaced(Shr(w, 16))
  IN <<lo(lane[1]) | Shl(lo(lane[2]), 1), hi(lane[1]) | Shl(hi(lane[2]), 1)>>

from_le_bytes(b) == b[0] | Shl(b[1], 8) | Shl(b[2], 16) | Shl(b[3], 24)
to_le_bytes(w) ==
  LET byte(k) == {<<b[1] - 8 * k, b[2]>> : b \in {b \in w : b[1] \div 8 = k}}
  IN <<byte(0), byte(1), byte(2), byte(3)>>

(* A bug BytesInPlace catches: rows and columns exchanged on one of the two ways. *)
get_lane_Transposed(i, j) == <<lanes[<<j, i, 0>>], lanes[<<j, i, 1>>]>>
get_lane(i, j) == <<lanes[<<i, j, 0>>], lanes[<<i, j, 1>>]>>

(* Lane l as it is stored, and the first n lanes one after the other. *)
keccak_lane(l) == deinterleave(get_lane(l \div 5, l % 5))
LaneBytes(l) == LET lane == keccak_lane(l) IN to_le_bytes(lane[1]) \o to_le_bytes(lane[2])
FirstLanes(n) == FlattenSeq([l \in 1 .. n |-> LaneBytes(l - 1)])

-----------------------------------------------------------------------------
(***************************************************************************)
(* The C bundles have a function for every rate and delimiter, each with its    *)
(* sizes written out: of the blocks of a message (block), of what load_block   *)
(* and store_block move (load, store), the byte the padding ends in (last).    *)
(* The bundles of ML-KEM and ML-DSA gather a block's lanes in a second array   *)
(* before they are XORed (flat), the others XOR each one at once.              *)
(***************************************************************************)
sha3_72_6_absorb == [load |-> 72, flat |-> FALSE, delim |-> 6, last |-> 72 - 1]
sha3_72_6 == [block |-> 72, store |-> 72] @@ sha3_72_6_absorb
sha3_104_6_absorb == [load |-> 104, flat |-> FALSE, delim |-> 6, last |-> 104 - 1]
sha3_104_6 == [block |-> 104, store |-> 104] @@ sha3_104_6_absorb
sha3_136_6_absorb == [load |-> 136, flat |-> FALSE, delim |-> 6, last |-> 136 - 1]
sha3_136_6 == [block |-> 136, store |-> 136] @@ sha3_136_6_absorb
sha3_136_31_absorb == [load |-> 136, flat |-> FALSE, delim |-> 31, last |-> 136 - 1]
sha3_136_31 == [block |-> 136, store |-> 136] @@ sha3_136_31_absorb
sha3_144_6_absorb == [load |-> 144, flat |-> FALSE, delim |-> 6, last |-> 144 - 1]
sha3_144_6 == [block |-> 144, store |-> 144] @@ sha3_144_6_absorb
sha3_168_31_absorb == [load |-> 168, flat |-> FALSE, delim |-> 31, last |-> 168 - 1]
sha3_168_31 == [block |-> 168, store |-> 168] @@ sha3_168_31_absorb
mlkem_72_6_absorb == [load |-> 72, flat |-> TRUE, delim |-> 6, last |-> 72 - 1]
mlkem_72_6 == [block |-> 72, store |-> 72] @@ mlkem_72_6_absorb
mlkem_104_6_absorb == [load |-> 104, flat |-> TRUE, delim |-> 6, last |-> 104 - 1]
mlkem_104_6 == [block |-> 104, store |-> 104] @@ mlkem_104_6_absorb
mlkem_136_6_absorb == [load |-> 136, flat |-> TRUE, delim |-> 6, last |-> 136 - 1]
mlkem_136_6 == [block |-> 136, store |-> 136] @@ mlkem_136_6_absorb
mlkem_136_31_absorb == [load |-> 136, flat |-> TRUE, delim |-> 31, last |-> 136 - 1]
mlkem_136_31 == [block |-> 136, store |-> 136] @@ mlkem_136_31_absorb
mlkem_144_6_absorb == [load |-> 144, flat |-> TRUE, delim |-> 6, last |-> 144 - 1]
mlkem_144_6 == [block |-> 144, store |-> 144] @@ mlkem_144_6_absorb
mlkem_168_31_absorb == [load |-> 168, flat |-> TRUE, delim |-> 31, last |-> 168 - 1]
mlkem_168_31 == [block |-> 168, store |-> 168] @@ mlkem_168_31_absorb
mldsa_72_6_absorb == [load |-> 72, flat |-> TRUE, delim |-> 6, last |-> 72 - 1]
mldsa_72_6 == [block |-> 72, store |-> 72] @@ mldsa_72_6_absorb
mldsa_104_6_absorb == [load |-> 104, flat |-> TRUE, delim |-> 6, last |-> 104 - 1]
mldsa_104_6 == [block |-> 104, store |-> 104] @@ mldsa_104_6_absorb
mldsa_136_6_absorb == [load |-> 136, flat |-> TRUE, delim |-> 6, last |-> 136 - 1]
mldsa_136_6 == [block |-> 136, store |-> 136] @@ mldsa_136_6_absorb
mldsa_136_31_absorb == [load |-> 136, flat |-> TRUE, delim |-> 31, last |-> 136 - 1]
mldsa_136_31 == [block |-> 136, store |-> 136] @@ mldsa_136_31_absorb
mldsa_144_6_absorb == [load |-> 144, flat |-> TRUE, delim |-> 6, last |-> 144 - 1]
mldsa_144_6 == [block |-> 144, store |-> 144] @@ mldsa_144_6_absorb
mldsa_168_31_absorb == [load |-> 168, flat |-> TRUE, delim |-> 31, last |-> 168 - 1]
mldsa_168_31 == [block |-> 168, store |-> 168] @@ mldsa_168_31_absorb
combined_72_6_absorb == [load |-> 72, flat |-> FALSE, delim |-> 6, last |-> 72 - 1]
combined_72_6 == [block |-> 72, store |-> 72] @@ combined_72_6_absorb
combined_104_6_absorb == [load |-> 104, flat |-> FALSE, delim |-> 6, last |-> 104 - 1]
combined_104_6 == [block |-> 104, store |-> 104] @@ combined_104_6_absorb
combined_136_6_absorb == [load |-> 136, flat |-> FALSE, delim |-> 6, last |-> 136 - 1]
combined_136_6 == [block |-> 136, store |-> 136] @@ combined_136_6_absorb
combined_136_31_absorb == [load |-> 136, flat |-> FALSE, delim |-> 31, last |-> 136 - 1]
combined_136_31 == [block |-> 136, store |-> 136] @@ combined_136_31_absorb
combined_144_6_absorb == [load |-> 144, flat |-> FALSE, delim |-> 6, last |-> 144 - 1]
combined_144_6 == [block |-> 144, store |-> 144] @@ combined_144_6_absorb
combined_168_31_absorb == [load |-> 168, flat |-> FALSE, delim |-> 31, last |-> 168 - 1]
combined_168_31 == [block |-> 168, store |-> 168] @@ combined_168_31_absorb

(* By rate and delimiter. *)
sha3 ==
  <<72, 6>> :> sha3_72_6 @@ <<104, 6>> :> sha3_104_6 @@ <<136, 6>> :> sha3_136_6
    @@ <<136, 31>> :> sha3_136_31 @@ <<144, 6>> :> sha3_144_6 @@ <<168, 31>> :> sha3_168_31

mlkem ==
  <<72, 6>> :> mlkem_72_6 @@ <<104, 6>> :> mlkem_104_6 @@ <<136, 6>> :> mlkem_136_6
    @@ <<136, 31>> :> mlkem_136_31 @@ <<144, 6>> :> mlkem_144_6 @@ <<168, 31>> :> mlkem_168_31

mldsa ==
  <<72, 6>> :> mldsa_72_6 @@ <<104, 6>> :> mldsa_104_6 @@ <<136, 6>> :> mldsa_136_6
    @@ <<136, 31>> :> mldsa_136_31 @@ <<144, 6>> :> mldsa_144_6 @@ <<168, 31>> :> mldsa_168_31

combined ==
  <<72, 6>> :> combined_72_6 @@ <<104, 6>> :> combined_104_6 @@ <<136, 6>> :> combined_136_6
    @@ <<136, 31>> :> combined_136_31 @@ <<144, 6>> :> combined_144_6 @@ <<168, 31>> :> combined_168_31

-----------------------------------------------------------------------------
Input(n) == [i \in 0 .. n - 1 |-> Field(<<"block", i>>, 8)]
Untouched(n) == [i \in 1 .. n |-> Field(<<"out", i>>, 8)]
(* A bit that is set, whatever the input. *)
One == << <<"one">>, 0>>
Before == [s \in (0 .. 4) \X (0 .. 4) \X (0 .. 1) |-> Field(<<"lane", s>>, 32)]

(* How much of the last block there is; it may be empty, and lacks a byte at least. *)
FinalLengths == {0, 3, 4, rate - 8, rate - 1}
(* Cuts in the first lanes and in the last one, at each byte of both halves. *)
StoreLengths == (0 .. 12) \cup (rate - 8 .. rate)

Init ==
  /\ \E bundle \in {sha3, mlkem, mldsa, combined} : \E id \in DOMAIN bundle :
       rate = id[1] /\ delimiter = id[2] /\ instance = bundle[id]
  /\ start \in {0, instance.block}
  /\ pc = "load" /\ lanes = Before /\ size = 0 /\ out = <<>>

LaneOf(s) == 5 * s[1] + s[2]
BlockLane(bytes, offset) ==
  interleave(<<from_le_bytes(Slice(bytes, offset, 4)), from_le_bytes(Slice(bytes, offset + 4, 4))>>)

LoadedInPlace(bytes, at, n) ==
  [s \in DOMAIN lanes |-> IF LaneOf(s) < n
                            THEN lanes[s] ^^ BlockLane(bytes, at + 8 * LaneOf(s))[s[3] + 1]
                            ELSE lanes[s]]
LoadedFlat(bytes, at, n) ==
  LET zero == <<{}, {}>>
      state_flat == [l \in 0 .. 24 |-> IF l < n THEN BlockLane(bytes, at + 8 * l) ELSE zero]
  IN [s \in DOMAIN lanes |-> IF LaneOf(s) < n THEN lanes[s] ^^ state_flat[LaneOf(s)][s[3] + 1]
                                               ELSE lanes[s]]
Loaded(bytes, at) ==
  IF instance.flat THEN LoadedFlat(bytes, at, instance.load \div 8)
                   ELSE LoadedInPlace(bytes, at, instance.load \div 8)

(* One block of a longer message. *)
load_block ==
  /\ pc = "load" /\ pc' = "store"
  /\ size' = rate
  /\ lanes' = Loaded(Input(start + rate), start)
  /\ UNCHANGED <<rate, delimiter, instance, start, out>>

(* What is left of it, padded in a buffer of its own that starts with zeros. *)
absorb_final ==
  /\ pc = "load" /\ pc' = "store"
  /\ size' \in FinalLengths
  /\ LET delim == {<<k, One>> : k \in {k \in 0 .. 7 : (instance.delim \div 2^k) % 2 = 1}}
         byte(i) == IF i < size' THEN Input(start + size')[start + i]
                    ELSE IF i = size' THEN delim ELSE {}
         buffer == [i \in 0 .. 199 |-> byte(i)]
     IN lanes' = Loaded([buffer EXCEPT ![instance.last] = @ | {<<7, One>>}], 0)
  /\ UNCHANGED <<rate, delimiter, instance, start, out>>

(* A whole block, into a slice that may be longer. *)
store_block ==
  /\ pc = "store" /\ pc' = "stored"
  /\ out' = FirstLanes(instance.store \div 8) \o Untouched(8)
  /\ UNCHANGED <<rate, delimiter, instance, start, size, lanes>>

(* Less than a block: a whole one is stored beside it and its head copied. *)
squeeze_last ==
  /\ pc = "store" /\ pc' = "stored"
  /\ \E n \in FinalLengths : out' = SubSeq(FirstLanes(instance.store \div 8), 1, n)
  /\ UNCHANGED <<rate, delimiter, instance, start, size, lanes>>

(* The incremental functions: a slice of any length up to the rate; its last   *)
(* lane may be cut in either half.                                             *)
store ==
  /\ pc = "store" /\ pc' = "stored" /\ delimiter = 31
  /\ \E n \in StoreLengths :
       LET num_full_blocks == n \div 8
           last_block_len == n % 8
           lane == keccak_lane(num_full_blocks)
           last == IF last_block_len > 4
                     THEN to_le_bytes(lane[1]) \o SubSeq(to_le_bytes(lane[2]), 1, last_block_len - 4)
                     ELSE SubSeq(to_le_bytes(lane[1]), 1, last_block_len)
       IN out' = FirstLanes(num_full_blocks) \o last
  /\ UNCHANGED <<rate, delimiter, instance, start, size, lanes>>

Next == load_block \/ absorb_final \/ store_block \/ squeeze_last \/ store

-----------------------------------------------------------------------------
(* Bit n of the state as FIPS 202 counts them. *)
StateBit(st, n) ==
  LET l == n \div 64
      z == n % 64
  IN {b[2] : b \in {b \in st[<<l \div 5, l % 5, z % 2>>] : b[1] = z \div 2}}

(* The suffix of the hash function, of SHA-3 or of SHAKE, with the first bit of the   *)
(* padding, and its last bit, as FIPS 202 puts them after a message of this length.   *)
Padding ==
  LET suffix == IF delimiter = 6 THEN <<0, 1, 1>> ELSE <<1, 1, 1, 1, 1>>
      end == 8 * size
  IN {end + k - 1 : k \in {k \in DOMAIN suffix : suffix[k] = 1}} \cup {8 * rate - 1}

Absorbed(n) ==
  IF n < 8 * size THEN {<<<<"block", start + n \div 8>>, n % 8>>}
  ELSE IF size < rate /\ n \in Padding THEN {One}
  ELSE {}

(***************************************************************************)
(* In every instance, byte i of a block goes into bits 8i to 8i+7 of the       *)
(* state, XORed once, a last block is followed by suffix and padding, also     *)
(* when they share its last byte, and no other bit changes; byte i of the      *)
(* output comes from the same bits, and nothing is written past the last one,  *)
(* for slices that end in the first or in the second half of a lane too        *)
(* (state.rs 95-167, lane.rs 23-82, keccak.rs 155-184).                        *)
(***************************************************************************)
BytesInPlace ==
  /\ pc = "store" => \A n \in 0 .. 1599 : StateBit(lanes, n) = StateBit(Before, n) \cup Absorbed(n)
  /\ pc = "stored" =>
       \A i \in DOMAIN out :
         out[i] = IF i <= rate
                    THEN UNION {{<<k, name>> : name \in StateBit(lanes, 8 * (i - 1) + k)} : k \in 0 .. 7}
                    ELSE Untouched(8)[i - rate]
=============================================================================
