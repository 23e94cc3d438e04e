-------------------------- MODULE KeccakXof_proofs --------------------------
(***************************************************************************)
(* Safety of the input-buffering XOF for every block size, every set of      *)
(* inputs and output lengths and every bound.                                *)
(***************************************************************************)
EXTENDS KeccakXof, WellFoundedInduction, TLAPS

(* Euclidean division, the only arithmetic of absorb_full and _squeeze. *)
LEMMA DivMod ==
  ASSUME NEW a \in Int, NEW b \in Nat \ {0}
  PROVE  /\ a \div b \in Int
         /\ a \in Nat => a \div b \in Nat
         /\ a % b \in 0 .. b - 1
         /\ a = (a \div b) * b + (a % b)
BY SMT

LEMMA DivSmall ==
  ASSUME NEW a \in Nat, NEW b \in Nat \ {0}, a < b
  PROVE  a \div b = 0 /\ a % b = a
BY DivMod, SMT

(* The k-th of n blocks starts and ends inside them. *)
LEMMA BlockFits ==
  ASSUME NEW n \in Nat, NEW k \in 1 .. n
  PROVE  (k - 1) * RATE \in Nat /\ (k - 1) * RATE + RATE <= n * RATE
BY RateAssumption, SMT

LEMMA NextBlock ==
  ASSUME NEW n \in Nat
  PROVE  n * RATE \in Nat /\ (n + 1) * RATE = n * RATE + RATE
BY RateAssumption, SMT

(* A span of m bytes cut into blocks and a remainder. *)
LEMMA Cut ==
  ASSUME NEW m \in Nat
  PROVE  /\ m \div RATE \in Nat /\ (m \div RATE) * RATE \in Nat
         /\ m % RATE \in 0 .. RATE - 1
         /\ m = (m \div RATE) * RATE + (m % RATE)
         /\ m < RATE => m \div RATE = 0 /\ m % RATE = m
<1>1. /\ m \div RATE \in Nat /\ m % RATE \in 0 .. RATE - 1
      /\ m = (m \div RATE) * RATE + (m % RATE)
  <2>1. m \in Int
    OBVIOUS
  <2> QED
    BY <2>1, DivMod, RateAssumption, Zenon
<1>2. m < RATE => m \div RATE = 0 /\ m % RATE = m
  BY DivSmall, RateAssumption
<1> QED
  BY <1>1, <1>2, NextBlock

LEMMA ConcatIndex ==
  ASSUME NEW S, NEW s \in Seq(S), NEW t \in Seq(S)
  PROVE  /\ s \o t \in Seq(S)
         /\ Len(s \o t) = Len(s) + Len(t)
         /\ \A k \in 1 .. Len(s) : (s \o t)[k] = s[k]
         /\ \A k \in 1 .. Len(t) : (s \o t)[Len(s) + k] = t[k]
OBVIOUS

(***************************************************************************)
(* The inductive invariant: besides the properties it says which locals are  *)
(* live in which call, and how far a squeeze has come.                       *)
(***************************************************************************)
CallInv ==
  /\ pc \in {"absorb", "absorb_final"} => ~finalized
  /\ pc = "squeeze" => finalized
  /\ pc \in {"idle", "squeeze"} => inputs = << >> /\ consumed = 0
  /\ pc = "idle" => i = 0

SqueezeInv ==
  pc = "squeeze" =>
    /\ i >= 1
    /\ out_len < RATE => Len(out) = out_len /\ i = 1
    /\ out_len >= RATE => Len(out) = i * RATE /\ i <= blocks

(* Where in the output stream the Keccak state is, and that what has been    *)
(* stored so far is that stream.                                             *)
StreamInv ==
  /\ sponge <=> used > 0
  /\ ~finalized => used = 0
  /\ finalized /\ pc = "idle" =>
       inner = StreamState(input, IF used > 0 THEN used - 1 ELSE 0)
  /\ pc = "squeeze" =>
       /\ inner = StreamState(input, used + i - 1)
       /\ \A k \in 1 .. Len(out) : out[k] = StreamByte(input, used * RATE + k)

IInv ==
  TypeOK /\ CallInv /\ SlicesInBounds /\ SqueezeInv /\ NothingLostOrRepeated /\ StreamInv

LEMMA BlockType ==
  ASSUME NEW data \in Seq(Byte), NEW start \in Nat, start + RATE <= Len(data)
  PROVE  /\ Block(data, start) \in [1 .. RATE -> Byte]
         /\ Block(data, start) \in Seq(Byte)
BY RateAssumption DEF Block

LEMMA EmptySeq ==
  ASSUME NEW S
  PROVE  << >> \in Seq(S) /\ Len(<< >>) = 0
OBVIOUS

THEOREM InitIInv == Init => IInv
<1> SUFFICES ASSUME Init PROVE IInv
  OBVIOUS
<1> USE RateAssumption, ByteAssumption DEF Init
<1>1. TypeOK
  <2>1. inner \in KeccakStates /\ out \in Seq(KeccakStates \X (1 .. RATE))
        /\ ret \in Seq(KeccakStates \X (1 .. RATE))
    BY EmptySeq DEF KeccakStates, NewState
  <2>2. buf \in [1 .. RATE -> Byte] /\ buf_len \in 0 .. RATE - 1
    OBVIOUS
  <2>. QED
    BY <2>1, <2>2, EmptySeq DEF TypeOK
<1>2. CallInv /\ SlicesInBounds /\ SqueezeInv
  BY DEF CallInv, SlicesInBounds, AbsorbInBounds, SqueezeInBounds, SqueezeInv
<1>3. NothingLostOrRepeated
  BY DEF NothingLostOrRepeated, Taken, NewState
<1>4. StreamInv
  BY DEF StreamInv
<1> QED
  BY <1>1, <1>2, <1>3, <1>4 DEF IInv

-----------------------------------------------------------------------------
(* Sequences *)

LEMMA SubSeqSplit ==
  ASSUME NEW s \in Seq(Byte), NEW m \in Nat, NEW n \in Nat,
         m <= n, n <= Len(s)
  PROVE  /\ SubSeq(s, 1, n) = SubSeq(s, 1, m) \o SubSeq(s, m + 1, n)
         /\ SubSeq(s, m + 1, n) \in Seq(Byte)
         /\ Len(SubSeq(s, m + 1, n)) = n - m
         /\ \A j \in 1 .. n - m : SubSeq(s, m + 1, n)[j] = s[m + j]
OBVIOUS

LEMMA ConcatAssoc ==
  ASSUME NEW S, NEW a \in Seq(S), NEW b \in Seq(S), NEW c \in Seq(S)
  PROVE  (a \o b) \o c = a \o (b \o c)
OBVIOUS

LEMMA ConcatAppend ==
  ASSUME NEW S, NEW a \in Seq(S), NEW b \in Seq(S), NEW x \in S
  PROVE  /\ a \o Append(b, x) = Append(a \o b, x)
         /\ Len(a \o b) = Len(a) + Len(b)
OBVIOUS

(* A block read from a prefix is the block read from the whole. *)
LEMMA BlockOfPrefix ==
  ASSUME NEW s \in Seq(Byte), NEW t \in Seq(Byte), NEW start \in Nat,
         start + RATE <= Len(s)
  PROVE  Block(s \o t, start) = Block(s, start)
BY RateAssumption DEF Block

(***************************************************************************)
(* `taken' is what the state s holds in blocks and the buffer b holds in its *)
(* first len bytes.                                                          *)
(***************************************************************************)
Holds(s, b, len, taken) ==
  /\ Len(taken) = Len(s) * RATE + len
  /\ \A k \in 1 .. Len(s) : s[k] = Block(taken, (k - 1) * RATE)
  /\ \A j \in 1 .. len : b[j] = taken[Len(s) * RATE + j]

LEMMA NothingLostIsHolds ==
  NothingLostOrRepeated <=> (~finalized => Holds(inner, buf, buf_len, Taken))
BY DEF NothingLostOrRepeated, Holds

(* Permuting in a block made of the buffer and RATE - len further bytes. *)
LEMMA HoldsBlock ==
  ASSUME NEW S, NEW s \in Seq(S), NEW b \in [1 .. RATE -> Byte],
         NEW len \in 0 .. RATE - 1, NEW taken \in Seq(Byte),
         NEW more \in Seq(Byte), len + Len(more) = RATE,
         Holds(s, b, len, taken),
         NEW block, block = [j \in 1 .. RATE |-> IF j <= len THEN b[j] ELSE more[j - len]],
         NEW c
  PROVE  Holds(Append(s, block), c, 0, taken \o more)
<1> DEFINE n == Len(s)
           t == taken \o more
           s2 == Append(s, block)
<1>0. n \in Nat /\ n * RATE \in Nat /\ (n + 1) * RATE = n * RATE + RATE
  BY NextBlock
<1>1. Len(taken) = n * RATE + len
  BY DEF Holds
<1>2. Len(s2) = n + 1 /\ s2[n + 1] = block /\ \A k \in 1 .. n : s2[k] = s[k]
  OBVIOUS
<1>3. /\ t \in Seq(Byte) /\ Len(t) = Len(taken) + Len(more)
      /\ \A k \in 1 .. Len(taken) : t[k] = taken[k]
      /\ \A k \in 1 .. Len(more) : t[Len(taken) + k] = more[k]
  BY ConcatIndex
<1>4. Len(t) = (n + 1) * RATE
  BY <1>0, <1>1, <1>3, RateAssumption
<1>5. ASSUME NEW k \in 1 .. n
      PROVE  s2[k] = Block(t, (k - 1) * RATE)
  <2>1. (k - 1) * RATE \in Nat /\ (k - 1) * RATE + RATE <= n * RATE
    BY BlockFits, <1>0
  <2>2. Block(t, (k - 1) * RATE) = Block(taken, (k - 1) * RATE)
    BY <2>1, <1>0, <1>1, BlockOfPrefix, RateAssumption
  <2> QED
    BY <2>2, <1>2 DEF Holds
<1>6. block = Block(t, n * RATE)
  <2>1. ASSUME NEW j \in 1 .. RATE
        PROVE  block[j] = t[n * RATE + j]
    <3>1. CASE j <= len
      <4>1. b[j] = taken[n * RATE + j]
        BY <3>1 DEF Holds
      <4>2. n * RATE + j \in 1 .. Len(taken)
        BY <3>1, <1>0, <1>1, SMTT(30)
      <4> HIDE DEF n, t
      <4> QED
        BY <3>1, <4>1, <4>2, <1>3
    <3>2. CASE ~(j <= len)
      <4>1. j - len \in 1 .. Len(more) /\ Len(taken) + (j - len) = n * RATE + j
        BY <3>2, <1>0, <1>1, RateAssumption
      <4> HIDE DEF n, t
      <4> QED
        BY <3>2, <4>1, <1>3
    <3> QED
      BY <3>1, <3>2
  <2> QED
    BY <2>1 DEF Block
<1>7. ASSUME NEW k \in 1 .. n + 1
      PROVE  s2[k] = Block(t, (k - 1) * RATE)
  <2> HIDE DEF s2, t, n
  <2>1. CASE k = n + 1
    <3>1. k - 1 = n
      BY <2>1, <1>0
    <3> QED
      BY <2>1, <3>1, <1>2, <1>6
  <2>2. CASE k \in 1 .. n
    BY <2>2, <1>5
  <2> QED
    BY <2>1, <2>2, <1>0
<1> HIDE DEF s2, t, n
<1>8. Holds(s2, c, 0, t)
  BY <1>0, <1>2, <1>4, <1>7 DEF Holds
<1> QED
  BY <1>8 DEF s2, t

(* Keeping bytes in the buffer. *)
LEMMA HoldsBuffered ==
  ASSUME NEW S, NEW s \in Seq(S), NEW b \in [1 .. RATE -> Byte],
         NEW len \in 0 .. RATE - 1, NEW taken \in Seq(Byte),
         NEW more \in Seq(Byte), len + Len(more) < RATE,
         Holds(s, b, len, taken),
         NEW c, \A j \in 1 .. len : c[j] = b[j],
         \A j \in 1 .. Len(more) : c[len + j] = more[j]
  PROVE  Holds(s, c, len + Len(more), taken \o more)
<1> DEFINE n == Len(s)
           t == taken \o more
<1>0. n \in Nat /\ n * RATE \in Nat
  BY NextBlock
<1>1. Len(taken) = n * RATE + len
  BY DEF Holds
<1>2. /\ t \in Seq(Byte) /\ Len(t) = Len(taken) + Len(more)
      /\ \A k \in 1 .. Len(taken) : t[k] = taken[k]
      /\ \A k \in 1 .. Len(more) : t[Len(taken) + k] = more[k]
  BY ConcatIndex
<1>3. Len(t) = n * RATE + (len + Len(more))
  BY <1>0, <1>1, <1>2
<1>4. ASSUME NEW k \in 1 .. n
      PROVE  s[k] = Block(t, (k - 1) * RATE)
  <2>1. (k - 1) * RATE \in Nat /\ (k - 1) * RATE + RATE <= n * RATE
    BY BlockFits, <1>0
  <2>2. Block(t, (k - 1) * RATE) = Block(taken, (k - 1) * RATE)
    BY <2>1, <1>0, <1>1, BlockOfPrefix, RateAssumption
  <2> QED
    BY <2>2 DEF Holds
<1>5. ASSUME NEW j \in 1 .. len + Len(more)
      PROVE  c[j] = t[n * RATE + j]
  <2>1. CASE j <= len
    <3>1. c[j] = b[j] /\ b[j] = taken[n * RATE + j]
      BY <2>1 DEF Holds
    <3>2. n * RATE + j \in 1 .. Len(taken)
      BY <2>1, <1>0, <1>1
    <3> HIDE DEF n, t
    <3> QED
      BY <3>1, <3>2, <1>2
  <2>2. CASE ~(j <= len)
    <3>1. /\ j - len \in 1 .. Len(more) /\ len + (j - len) = j
          /\ Len(taken) + (j - len) = n * RATE + j
      BY <2>2, <1>0, <1>1
    <3>2. c[len + (j - len)] = more[j - len]
      BY <3>1
    <3> HIDE DEF n, t
    <3> QED
      BY <3>1, <3>2, <1>2
  <2> QED
    BY <2>1, <2>2
<1> HIDE DEF t
<1>6. Holds(s, c, len + Len(more), t)
  BY <1>3, <1>4, <1>5 DEF Holds
<1> QED
  BY <1>6 DEF t

-----------------------------------------------------------------------------
(* The steps *)

LEMMA EnterStep ==
  ASSUME IInv, NEW data \in Inputs, NEW call \in {"absorb", "absorb_final"},
         Enter(call, data)
  PROVE  IInv'
<1> USE RateAssumption
<1>0. /\ data \in Seq(Byte) /\ Len(data) \in Nat
      /\ pc = "idle" /\ inputs = << >> /\ consumed = 0 /\ i = 0 /\ ~finalized
      /\ buf_len \in 0 .. RATE - 1
  BY InputsAssumption DEF IInv, TypeOK, CallInv, Enter
<1>1. /\ pc' = call /\ inputs' = data /\ i' = 0 /\ input' = input
      /\ finalized' = finalized /\ out_len' = out_len /\ out' = out
      /\ sponge' = sponge /\ used' = used /\ ret' = ret
  BY DEF Enter, history
<1>2. Taken = input /\ input \in Seq(Byte) /\ Holds(inner, buf, buf_len, input)
  <2>1. Taken = input
    <3>1. input \in Seq(Byte)
      BY DEF IInv, TypeOK
    <3>2. Taken = input \o SubSeq(<< >>, 1, 0)
      BY <1>0 DEF Taken
    <3> QED
      BY <3>1, <3>2
  <2> QED
    BY <2>1, <1>0, NothingLostIsHolds DEF IInv, TypeOK
<1>3. CallInv' /\ SqueezeInv' /\ StreamInv'
  BY <1>0, <1>1 DEF CallInv, SqueezeInv, StreamInv, IInv
<1>4. CASE CanFill(data)
  <2>1. /\ consumed' = RATE - buf_len /\ buf_len' = 0 /\ buf' = FilledBuf(data)
        /\ inner' = Append(inner, Block(FilledBuf(data), 0))
    BY <1>4 DEF Enter, fill_buffer, absorb_block, LoadAndPermute
  <2>2. buf_len > 0 /\ consumed' \in 1 .. RATE - 1 /\ consumed' <= Len(data)
    BY <1>0, <1>4, <2>1 DEF CanFill
  <2>3. FilledBuf(data) \in [1 .. RATE -> Byte]
    BY <1>0, <2>1, <2>2 DEF FilledBuf, IInv, TypeOK
  <2>4. Block(FilledBuf(data), 0) = FilledBuf(data)
    BY <2>3 DEF Block
  <2>5. TypeOK'
    <3>1. inner' \in KeccakStates
      BY <2>1, <2>3, <2>4 DEF IInv, TypeOK, KeccakStates
    <3> QED
      BY <3>1, <1>0, <1>1, <2>1, <2>2, <2>3 DEF IInv, TypeOK
  <2>6. SlicesInBounds'
    <3> DEFINE m == Len(data) - (RATE - buf_len)
    <3>1. m \in Nat /\ m = Len(data) - consumed' /\ consumed' + m = Len(data)
      BY <1>0, <2>1, <2>2
    <3> HIDE DEF m
    <3>2. PICK q \in Nat, r \in 0 .. RATE - 1 :
             /\ q = m \div RATE /\ r = m % RATE
             /\ q * RATE \in Nat /\ m = q * RATE + r
      BY <3>1, Cut
    <3>3. q * RATE \in Nat /\ m = q * RATE + r
      BY <3>2
    <3>4. consumed' + q * RATE + r = Len(data)
      <4>1. consumed' \in Nat /\ consumed' + m = Len(data)
        BY <3>1, <2>2
      <4> HIDE RateAssumption
      <4> QED
        BY <4>1, <3>3
    <3>5. num_blocks' = q /\ remainder' = r
      BY <3>1, <3>2, <1>1 DEF num_blocks, remainder
    <3> QED
      BY <3>4, <3>5, <1>0, <1>1, <2>1
         DEF SlicesInBounds, AbsorbInBounds, SqueezeInBounds
  <2>7. NothingLostOrRepeated'
    <3> DEFINE more == SubSeq(data, 1, RATE - buf_len)
    <3>1. more \in Seq(Byte) /\ Len(more) = RATE - buf_len
          /\ \A j \in 1 .. RATE - buf_len : more[j] = data[j]
      BY <1>0, <2>1, <2>2
    <3>2. Taken' = input \o more
      BY <1>1, <2>1, <1>0 DEF Taken
    <3>3. FilledBuf(data) = [j \in 1 .. RATE |-> IF j <= buf_len THEN buf[j] ELSE more[j - buf_len]]
      BY <3>1, <1>0 DEF FilledBuf
    <3> HIDE DEF more
    <3>4. Holds(Append(inner, FilledBuf(data)), buf', 0, input \o more)
      <4>1. inner \in KeccakStates /\ buf \in [1 .. RATE -> Byte]
        BY DEF IInv, TypeOK
      <4>2. buf_len + Len(more) = RATE
        BY <3>1, <1>0
      <4> QED
        BY <1>0, <1>2, <3>1, <3>3, <4>1, <4>2, HoldsBlock, ZenonT(30) DEF KeccakStates
    <3>5. Holds(inner, buf, buf_len, Taken)'
      BY <3>2, <3>4, <2>1, <2>4 DEF Holds
    <3> QED
      BY <3>5 DEF NothingLostOrRepeated, Holds
  <2> QED
    BY <1>3, <2>5, <2>6, <2>7 DEF IInv
<1>5. CASE ~CanFill(data)
  <2>1. consumed' = 0 /\ buf_len' = buf_len /\ buf' = buf /\ inner' = inner
    BY <1>5 DEF Enter, fill_buffer
  <2>2. TypeOK'
    BY <1>0, <1>1, <2>1 DEF IInv, TypeOK
  <2>3. SlicesInBounds'
    <3> DEFINE m == Len(data)
    <3>1. m \in Nat /\ m = Len(data) - consumed'
      BY <1>0, <2>1
    <3> HIDE DEF m
    <3>2. PICK q \in Nat, r \in 0 .. RATE - 1 :
             /\ q = m \div RATE /\ r = m % RATE
             /\ q * RATE \in Nat /\ m = q * RATE + r
             /\ m < RATE => q = 0 /\ r = m
      BY <3>1, Cut
    <3>3. buf_len > 0 => m < RATE - buf_len
      BY <1>0, <1>5 DEF CanFill, m
    <3>4. m < RATE => q = 0 /\ r = m
      BY <3>2
    <3>5. buf_len + r < RATE /\ (buf_len > 0 => q = 0)
      BY <3>1, <3>3, <3>4, <1>0
    <3>6. q * RATE \in Nat /\ m = q * RATE + r
      BY <3>2
    <3>7. consumed' + q * RATE + r = Len(data)
      BY <3>6, <2>1 DEF m
    <3>8. num_blocks' = q /\ remainder' = r
      BY <3>1, <3>2, <1>1 DEF num_blocks, remainder
    <3> QED
      BY <3>5, <3>7, <3>8, <1>0, <1>1, <2>1
         DEF SlicesInBounds, AbsorbInBounds, SqueezeInBounds
  <2>4. NothingLostOrRepeated'
    <3>1. Taken' = input
      BY <1>0, <1>1, <1>2, <2>1 DEF Taken
    <3>2. Holds(inner, buf, buf_len, Taken)'
      BY <3>1, <2>1, <1>2 DEF Holds
    <3> QED
      BY <3>2 DEF NothingLostOrRepeated, Holds
  <2> QED
    BY <1>3, <2>2, <2>3, <2>4 DEF IInv
<1> QED
  BY <1>4, <1>5

(* What a pass of the loop, or the way out of it, starts from. *)
LEMMA AbsorbFacts ==
  ASSUME IInv, pc \in {"absorb", "absorb_final"}
  PROVE  \E q \in Nat, r \in 0 .. RATE - 1 :
           /\ num_blocks = q /\ remainder = r
           /\ q * RATE \in Nat
           /\ consumed + q * RATE + r = Len(inputs)
           /\ buf_len + r < RATE
           /\ buf_len > 0 => q = 0 /\ consumed = 0
           /\ i \in 0 .. q
<1>1. /\ consumed \in Nat /\ i \in Nat /\ Len(inputs) \in Nat
      /\ consumed + num_blocks * RATE + remainder = Len(inputs)
      /\ i <= num_blocks
      /\ buf_len + remainder < RATE
      /\ buf_len > 0 => num_blocks = 0 /\ consumed = 0
  BY DEF IInv, TypeOK, SlicesInBounds, AbsorbInBounds
<1>2. num_blocks \in Int /\ remainder \in 0 .. RATE - 1
  <2>1. Len(inputs) - consumed \in Int
    BY <1>1
  <2> QED
    BY <2>1, DivMod, RateAssumption DEF num_blocks, remainder
<1>3. num_blocks \in Nat /\ i \in 0 .. num_blocks
  BY <1>1, <1>2
<1>4. num_blocks * RATE \in Nat
  BY <1>3, NextBlock
<1> QED
  BY <1>1, <1>2, <1>3, <1>4

LEMMA AbsorbBlockStep ==
  ASSUME IInv, AbsorbBlock
  PROVE  IInv'
<1> USE RateAssumption
<1>0. /\ pc \in {"absorb", "absorb_final"} /\ i < num_blocks
      /\ inner' = Append(inner, Block(inputs, consumed + i * RATE)) /\ i' = i + 1
      /\ pc' = pc /\ inputs' = inputs /\ consumed' = consumed
      /\ buf' = buf /\ buf_len' = buf_len /\ sponge' = sponge
      /\ out_len' = out_len /\ out' = out
      /\ input' = input /\ finalized' = finalized /\ used' = used /\ ret' = ret
  BY DEF AbsorbBlock, absorb_block, LoadAndPermute, history
<1>t. TypeOK
  BY DEF IInv
<1>1. PICK q \in Nat, r \in 0 .. RATE - 1 :
           /\ num_blocks = q /\ remainder = r
           /\ q * RATE \in Nat
           /\ consumed + q * RATE + r = Len(inputs)
           /\ buf_len + r < RATE
           /\ buf_len > 0 => q = 0 /\ consumed = 0
           /\ i \in 0 .. q
  BY <1>0, AbsorbFacts
<1>2. i \in Nat /\ i < q /\ buf_len = 0 /\ consumed \in Nat /\ ~finalized
  BY <1>0, <1>1, <1>t DEF TypeOK, IInv, CallInv
<1> DEFINE P == i * RATE
           start == consumed + P
<1>3. P \in Nat /\ P + RATE = (i + 1) * RATE /\ P + RATE <= q * RATE
  BY <1>2, NextBlock, BlockFits, i + 1 \in 1 .. q, (i + 1) - 1 = i
<1>4. start \in Nat /\ start + RATE <= Len(inputs)
  BY <1>1, <1>2, <1>3
<1> HIDE DEF P, start
<1>5. Block(inputs, start) \in [1 .. RATE -> Byte] /\ Block(inputs, start) \in Seq(Byte)
  BY <1>4, <1>t, BlockType DEF TypeOK
<1>6. inner' = Append(inner, Block(inputs, start))
  BY <1>0 DEF start, P
<1>7. TypeOK'
  <2>1. inner' \in KeccakStates
    BY <1>5, <1>6, <1>t DEF TypeOK, KeccakStates
  <2> QED
    BY <2>1, <1>0, <1>2, <1>t DEF TypeOK
<1>8. CallInv' /\ SqueezeInv' /\ StreamInv'
  BY <1>0, <1>2, <1>t DEF CallInv, SqueezeInv, StreamInv, IInv
<1>9. SlicesInBounds'
  <2>1. num_blocks' = num_blocks /\ remainder' = remainder
    BY <1>0 DEF num_blocks, remainder
  <2>2. i' <= q
    BY <1>0, <1>2
  <2> QED
    BY <2>1, <2>2, <1>0, <1>1 DEF SlicesInBounds, AbsorbInBounds, SqueezeInBounds
<1>10. NothingLostOrRepeated'
  <2> DEFINE taken == SubSeq(inputs, 1, start)
             more == SubSeq(inputs, start + 1, start + RATE)
  <2>1. /\ SubSeq(inputs, 1, start + RATE) = taken \o more
        /\ more \in Seq(Byte) /\ Len(more) = RATE
        /\ \A j \in 1 .. RATE : more[j] = inputs[start + j]
    <3> DEFINE n == start + RATE
    <3>1. n \in Nat /\ start <= n /\ n <= Len(inputs) /\ n - start = RATE
      BY <1>4
    <3>2. inputs \in Seq(Byte)
      BY <1>t DEF TypeOK
    <3> HIDE DEF n
    <3>3. /\ SubSeq(inputs, 1, n) = SubSeq(inputs, 1, start) \o SubSeq(inputs, start + 1, n)
          /\ SubSeq(inputs, start + 1, n) \in Seq(Byte)
          /\ Len(SubSeq(inputs, start + 1, n)) = n - start
          /\ \A j \in 1 .. n - start : SubSeq(inputs, start + 1, n)[j] = inputs[start + j]
      BY <3>1, <3>2, <1>4, SubSeqSplit, Zenon
    <3> QED
      BY <3>1, <3>3 DEF n
  <2>2. taken \in Seq(Byte)
    BY <1>4, <1>t DEF TypeOK
  <2>3. Taken = input \o taken
    BY DEF Taken, start, P
  <2>4. Taken' = input \o (taken \o more)
    <3>1. consumed' + i' * RATE = start + RATE
      BY <1>0, <1>2, <1>3 DEF start
    <3> QED
      BY <3>1, <2>1, <1>0 DEF Taken
  <2> HIDE DEF taken, more
  <2>5. Taken' = Taken \o more /\ Taken \in Seq(Byte)
    <3>1. input \in Seq(Byte) /\ more \in Seq(Byte)
      BY <2>1, <1>t DEF TypeOK
    <3> QED
      BY <3>1, <2>2, <2>3, <2>4, ConcatAssoc, ConcatIndex, SMTT(30)
  <2>6. Holds(inner, buf, 0, Taken)
    BY <1>2, NothingLostIsHolds DEF IInv
  <2>7. Block(inputs, start) = [j \in 1 .. RATE |-> IF j <= 0 THEN buf[j] ELSE more[j - 0]]
    BY <2>1, <1>4 DEF Block
  <2>8. Holds(Append(inner, Block(inputs, start)), buf, 0, Taken \o more)
    <3>1. inner \in KeccakStates /\ buf \in [1 .. RATE -> Byte] /\ 0 \in 0 .. RATE - 1
          /\ 0 + Len(more) = RATE
      BY <1>t, <2>1 DEF TypeOK
    <3> QED
      BY <3>1, <2>1, <2>5, <2>6, <2>7, HoldsBlock DEF KeccakStates
  <2>9. Holds(inner, buf, buf_len, Taken)'
    BY <2>5, <2>8, <1>0, <1>2, <1>6 DEF Holds
  <2> QED
    BY <2>9 DEF NothingLostOrRepeated, Holds
<1> QED
  BY <1>7, <1>8, <1>9, <1>10 DEF IInv

(* Leaving absorb_full, nothing of the argument is left but its rest. *)
LEMMA RestFacts ==
  ASSUME IInv, pc \in {"absorb", "absorb_final"}, i = num_blocks
  PROVE  /\ Rest \in Seq(Byte) /\ Len(Rest) = remainder
         /\ remainder \in Nat /\ buf_len + remainder < RATE
         /\ input \o inputs = Taken \o Rest
         /\ Taken \in Seq(Byte)
<1>t. TypeOK
  BY DEF IInv
<1>1. PICK q \in Nat, r \in 0 .. RATE - 1 :
           /\ num_blocks = q /\ remainder = r
           /\ q * RATE \in Nat
           /\ consumed + q * RATE + r = Len(inputs)
           /\ buf_len + r < RATE
           /\ buf_len > 0 => q = 0 /\ consumed = 0
           /\ i \in 0 .. q
  BY AbsorbFacts
<1> DEFINE start == consumed + i * RATE
           taken == SubSeq(inputs, 1, start)
<1>2. inputs \in Seq(Byte) /\ input \in Seq(Byte) /\ consumed \in Nat
      /\ Len(inputs) \in Nat
  BY <1>t DEF TypeOK
<1>3. start \in Nat /\ start + r = Len(inputs)
  <2>1. i * RATE = q * RATE
    BY <1>1
  <2> QED
    BY <2>1, <1>1, <1>2
<1>4. Taken = input \o taken
  BY DEF Taken
<1> HIDE DEF start
<1>5. Rest = SubSeq(inputs, start + 1, Len(inputs))
  <2>1. Len(inputs) - r + 1 = start + 1
    BY <1>2, <1>3
  <2> QED
    BY <2>1, <1>1 DEF Rest
<1>6. /\ SubSeq(inputs, 1, Len(inputs)) = taken \o Rest
      /\ Rest \in Seq(Byte) /\ Len(Rest) = Len(inputs) - start
  <2>1. start <= Len(inputs) /\ Len(inputs) <= Len(inputs)
    BY <1>2, <1>3
  <2> QED
    BY <2>1, <1>2, <1>3, <1>5, SubSeqSplit, Zenon
<1>7. inputs = taken \o Rest
  <2>1. inputs = SubSeq(inputs, 1, Len(inputs))
    BY <1>2
  <2> QED
    BY <2>1, <1>6, Zenon
<1>8. taken \in Seq(Byte)
  BY <1>2, <1>3
<1> HIDE DEF taken
<1>9. Taken \in Seq(Byte)
  BY <1>2, <1>4, <1>8, ConcatIndex, Zenon
<1>10. input \o inputs = Taken \o Rest
  <2>0. input \in Seq(Byte) /\ taken \in Seq(Byte) /\ Rest \in Seq(Byte)
    BY <1>2, <1>6, <1>8, Zenon
  <2>1. (input \o taken) \o Rest = input \o (taken \o Rest)
    BY <2>0, ConcatAssoc, SMTT(60)
  <2> QED
    BY <2>1, <1>4, <1>7
<1> QED
  BY <1>1, <1>2, <1>3, <1>6, <1>9, <1>10

LEMMA BufferRestStep ==
  ASSUME IInv, BufferRest
  PROVE  IInv'
<1> USE RateAssumption
<1>t. TypeOK
  BY DEF IInv
<1>0. /\ pc = "absorb" /\ i = num_blocks
      /\ buf' = [j \in 1 .. RATE |-> IF j \in buf_len + 1 .. buf_len + remainder
                                       THEN Rest[j - buf_len] ELSE buf[j]]
      /\ buf_len' = buf_len + remainder
      /\ pc' = "idle" /\ inputs' = << >> /\ consumed' = 0 /\ i' = 0
      /\ out_len' = 0 /\ out' = << >> /\ input' = input \o inputs
      /\ inner' = inner /\ sponge' = sponge /\ finalized' = finalized
      /\ used' = used /\ ret' = ret
  BY DEF BufferRest, Return
<1>1. /\ Rest \in Seq(Byte) /\ Len(Rest) = remainder
      /\ remainder \in Nat /\ buf_len + remainder < RATE
      /\ input \o inputs = Taken \o Rest
      /\ Taken \in Seq(Byte)
  BY <1>0, RestFacts
<1>2. inputs \in Seq(Byte) /\ input \in Seq(Byte) /\ buf_len \in 0 .. RATE - 1
      /\ buf \in [1 .. RATE -> Byte] /\ ~finalized /\ inner \in KeccakStates
  BY <1>t, <1>0 DEF TypeOK, IInv, CallInv
<1> DEFINE m == remainder
<1> HIDE DEF m
<1>3. m \in Nat /\ Len(Rest) = m /\ buf_len + m < RATE /\ buf_len' = buf_len + m
      /\ buf' = [j \in 1 .. RATE |-> IF j \in buf_len + 1 .. buf_len + m
                                       THEN Rest[j - buf_len] ELSE buf[j]]
  BY <1>0, <1>1 DEF m
<1>4. buf' \in [1 .. RATE -> Byte]
  BY <1>1, <1>2, <1>3
<1>5. TypeOK'
  <2>1. input' \in Seq(Byte)
    BY <1>0, <1>2
  <2> QED
    BY <2>1, <1>0, <1>2, <1>3, <1>4, <1>t, EmptySeq DEF TypeOK
<1>6. CallInv' /\ SqueezeInv' /\ SlicesInBounds' /\ StreamInv'
  BY <1>0, <1>2 DEF IInv, StreamInv, CallInv, SqueezeInv,
                    SlicesInBounds, AbsorbInBounds, SqueezeInBounds
<1>7. NothingLostOrRepeated'
  <2>1. Holds(inner, buf, buf_len, Taken)
    BY <1>2, NothingLostIsHolds DEF IInv
  <2>2. /\ \A j \in 1 .. buf_len : buf'[j] = buf[j]
        /\ \A j \in 1 .. Len(Rest) : buf'[buf_len + j] = Rest[j]
    BY <1>2, <1>3
  <2>3. Holds(inner, buf', buf_len + m, Taken \o Rest)
    <3>1. buf_len + Len(Rest) < RATE
      BY <1>3
    <3>2. Holds(inner, buf', buf_len + Len(Rest), Taken \o Rest)
      BY <3>1, <2>1, <2>2, <1>1, <1>2, HoldsBuffered, Zenon DEF KeccakStates
    <3> QED
      BY <3>2, <1>3
  <2>4. Taken' = Taken \o Rest
    <3>1. input' \in Seq(Byte) /\ Taken' = input' \o SubSeq(<< >>, 1, 0)
      BY <1>0, <1>2 DEF Taken
    <3> QED
      BY <3>1, <1>0, <1>1
  <2>5. Holds(inner, buf, buf_len, Taken)'
    BY <2>3, <2>4, <1>0, <1>3 DEF Holds
  <2> QED
    BY <2>5 DEF NothingLostOrRepeated, Holds
<1> QED
  BY <1>5, <1>6, <1>7 DEF IInv

LEMMA PaddedType ==
  ASSUME NEW data \in Seq(Byte), NEW start \in Nat, NEW len \in 0 .. RATE - 1,
         start + len <= Len(data)
  PROVE  PaddedBlock(data, start, len)
           \in [1 .. RATE -> Byte \cup {DELIM, 128, 128 + DELIM}]
<1> USE RateAssumption
<1> DEFINE padded == [j \in 1 .. RATE |-> CASE j <= len -> data[start + j]
                                            [] j = len + 1 -> DELIM
                                            [] OTHER -> 0]
<1>1. \A j \in 1 .. RATE : padded[j] \in Byte \cup {DELIM}
  BY ByteAssumption
<1>2. padded[RATE] \in {0, DELIM}
  OBVIOUS
<1>3. SetTopBit(padded[RATE]) \in {128, 128 + DELIM}
  <2>1. SetTopBit(0) = 128 /\ SetTopBit(DELIM) = 128 + DELIM
    BY DelimAssumption DEF SetTopBit
  <2> QED
    BY <1>2, <2>1, Zenon
<1>4. PaddedBlock(data, start, len) = [padded EXCEPT ![RATE] = SetTopBit(padded[RATE])]
  BY DEF PaddedBlock
<1>5. padded \in [1 .. RATE -> Byte \cup {DELIM}]
  BY <1>1
<1> HIDE DEF padded
<1> QED
  BY <1>3, <1>4, <1>5

(* The quotient and the remainder are the only ones. *)
LEMMA DivUnique ==
  ASSUME NEW q \in Nat, NEW r \in 0 .. RATE - 1, NEW a \in Nat, a = q * RATE + r
  PROVE  a \div RATE = q /\ a % RATE = r
<1>1. PICK q2 \in Nat, r2 \in 0 .. RATE - 1 :
         /\ q2 = a \div RATE /\ r2 = a % RATE
         /\ q2 * RATE \in Nat /\ a = q2 * RATE + r2
  BY Cut
<1>2. q * RATE \in Nat /\ (q + 1) * RATE = q * RATE + RATE
      /\ (q2 + 1) * RATE = q2 * RATE + RATE
  BY NextBlock
<1>3. q + 1 <= q2 => (q + 1) * RATE <= q2 * RATE
  BY RateAssumption, SMT
<1>4. q2 + 1 <= q => (q2 + 1) * RATE <= q * RATE
  BY RateAssumption, SMT
<1>5. q = q2
  BY <1>1, <1>2, <1>3, <1>4, RateAssumption
<1> QED
  BY <1>1, <1>5

LEMMA AbsorbedType ==
  ASSUME NEW data \in Seq(Byte)
  PROVE  Absorbed(data) \in KeccakStates
<1> DEFINE n == Len(data) \div RATE
           rem == Len(data) % RATE
           full == [k \in 1 .. n |-> Block(data, (k - 1) * RATE)]
<1>1. /\ n \in Nat /\ n * RATE \in Nat /\ rem \in 0 .. RATE - 1
      /\ Len(data) = n * RATE + rem
  <2>1. Len(data) \in Nat
    OBVIOUS
  <2> QED
    BY <2>1, Cut, Zenon
<1>2. PaddedBlock(data, Len(data) - rem, rem)
        \in [1 .. RATE -> Byte \cup {DELIM, 128, 128 + DELIM}]
  <2>1. Len(data) - rem \in Nat /\ (Len(data) - rem) + rem <= Len(data)
    BY <1>1
  <2> QED
    BY <2>1, <1>1, PaddedType
<1>3. ASSUME NEW k \in 1 .. n
      PROVE  Block(data, (k - 1) * RATE) \in [1 .. RATE -> Byte]
  <2>1. (k - 1) * RATE \in Nat /\ (k - 1) * RATE + RATE <= n * RATE
    BY <1>1, BlockFits
  <2>2. (k - 1) * RATE + RATE <= Len(data)
    BY <2>1, <1>1, RateAssumption
  <2> QED
    BY <2>1, <2>2, BlockType
<1>4. Absorbed(data) = Append(full, PaddedBlock(data, Len(data) - rem, rem))
  BY DEF Absorbed, absorb_final, LoadAndPermute
<1> HIDE DEF n, rem
<1>5. full \in Seq([1 .. RATE -> Byte])
  BY <1>1, <1>3
<1>6. [1 .. RATE -> Byte] \subseteq Seq(Byte \cup {DELIM, 128, 128 + DELIM})
  BY RateAssumption
<1>7. [1 .. RATE -> Byte \cup {DELIM, 128, 128 + DELIM}]
        \subseteq Seq(Byte \cup {DELIM, 128, 128 + DELIM})
  BY RateAssumption
<1> HIDE DEF full
<1> QED
  BY <1>2, <1>4, <1>5, <1>6, <1>7, SMTT(30) DEF KeccakStates

(***************************************************************************)
(* The buffer and the rest, padded, after the blocks already absorbed: this *)
(* is what the one-shot hash absorbs.                                       *)
(***************************************************************************)
LEMMA FinalIsOneShot ==
  ASSUME NEW S, NEW s \in Seq(S), NEW b \in [1 .. RATE -> Byte],
         NEW len \in 0 .. RATE - 1, NEW taken \in Seq(Byte),
         NEW more \in Seq(Byte), len + Len(more) < RATE,
         Holds(s, b, len, taken)
  PROVE  absorb_final(s, SubSeq(b, 1, len) \o more, 0, len + Len(more))
           = Absorbed(taken \o more)
<1> DEFINE n == Len(s)
           t == taken \o more
           rem == len + Len(more)
           kept == SubSeq(b, 1, len) \o more
<1>0. n \in Nat /\ n * RATE \in Nat /\ rem \in 0 .. RATE - 1
  BY NextBlock, RateAssumption
<1>1. Len(taken) = n * RATE + len
  BY DEF Holds
<1>2. /\ t \in Seq(Byte) /\ Len(t) = Len(taken) + Len(more)
      /\ \A k \in 1 .. Len(taken) : t[k] = taken[k]
      /\ \A k \in 1 .. Len(more) : t[Len(taken) + k] = more[k]
  BY ConcatIndex
<1>3. Len(t) = n * RATE + rem /\ Len(t) - rem = n * RATE
  BY <1>0, <1>1, <1>2
<1>4. Len(t) \div RATE = n /\ Len(t) % RATE = rem
  <2>1. Len(t) \in Nat
    BY <1>2
  <2> HIDE DEF n, t, rem
  <2> QED
    BY <2>1, <1>0, <1>3, DivUnique, Zenon
<1>5. s = [k \in 1 .. n |-> Block(t, (k - 1) * RATE)]
  <2>1. ASSUME NEW k \in 1 .. n
        PROVE  s[k] = Block(t, (k - 1) * RATE)
    <3>1. (k - 1) * RATE \in Nat /\ (k - 1) * RATE + RATE <= n * RATE
      BY BlockFits, <1>0
    <3>2. Block(t, (k - 1) * RATE) = Block(taken, (k - 1) * RATE)
      BY <3>1, <1>0, <1>1, BlockOfPrefix, RateAssumption, SMTT(30)
    <3> QED
      BY <3>2 DEF Holds
  <2> HIDE DEF t
  <2> QED
    BY <2>1, <1>0
<1>6. ASSUME NEW j \in 1 .. rem
      PROVE  kept[0 + j] = t[n * RATE + j]
  <2>1. /\ SubSeq(b, 1, len) \in Seq(Byte) /\ Len(SubSeq(b, 1, len)) = len
        /\ \A k \in 1 .. len : SubSeq(b, 1, len)[k] = b[k]
    BY RateAssumption
  <2>2. CASE j <= len
    <3>1. b[j] = taken[n * RATE + j]
      BY <2>2 DEF Holds
    <3>2. n * RATE + j \in 1 .. Len(taken)
      BY <2>2, <1>0, <1>1
    <3>3. kept[j] = b[j]
      BY <2>1, <2>2
    <3> HIDE DEF n, t, kept
    <3> QED
      BY <3>1, <3>2, <3>3, <1>2
  <2>3. CASE ~(j <= len)
    <3>1. /\ j - len \in 1 .. Len(more) /\ len + (j - len) = j
          /\ Len(taken) + (j - len) = n * RATE + j
      BY <2>3, <1>0, <1>1
    <3>2. kept[len + (j - len)] = more[j - len]
      BY <2>1, <3>1, ConcatIndex
    <3> HIDE DEF n, t, kept
    <3> QED
      BY <3>1, <3>2, <1>2
  <2> QED
    BY <2>2, <2>3
<1> HIDE DEF t, kept
<1>7. PaddedBlock(kept, 0, rem) = PaddedBlock(t, n * RATE, rem)
  <2> DEFINE f(data, start) ==
        [j \in 1 .. RATE |-> CASE j <= rem -> data[start + j]
                               [] j = rem + 1 -> DELIM
                               [] OTHER -> 0]
  <2>1. f(kept, 0) = f(t, n * RATE)
    <3> HIDE DEF n, rem
    <3> QED
      BY <1>6, <1>0
  <2> QED
    BY <2>1 DEF PaddedBlock
<1>8. Absorbed(t) = absorb_final(s, t, n * RATE, rem)
  BY <1>3, <1>4, <1>5 DEF Absorbed
<1>9. absorb_final(s, kept, 0, rem) = Absorbed(t)
  BY <1>7, <1>8 DEF absorb_final
<1> QED
  BY <1>9 DEF kept, t, rem

(* Positions in the output stream. *)
LEMMA StreamStart ==
  ASSUME NEW data \in Seq(Byte)
  PROVE  StreamState(data, 0) = Absorbed(data)
BY AbsorbedType DEF StreamState, KeccakStates

LEMMA StreamNext ==
  ASSUME NEW data \in Seq(Byte), NEW n \in Nat
  PROVE  /\ StreamState(data, n + 1) = Keccakf1600(StreamState(data, n))
         /\ Len(StreamState(data, n)) = Len(Absorbed(data)) + n
<1> DEFINE a == Absorbed(data)
           z(m) == [k \in 1 .. m |-> NoBlock]
<1>1. a \in KeccakStates
  BY AbsorbedType
<1>0. NoBlock \in Seq(Byte \cup {DELIM, 128, 128 + DELIM})
  BY EmptySeq DEF NoBlock
<1>2. /\ z(n) \in KeccakStates /\ Len(z(n)) = n
      /\ z(n + 1) \in KeccakStates /\ Len(z(n + 1)) = n + 1
  BY <1>0 DEF KeccakStates
<1>3. z(n + 1) = Append(z(n), NoBlock)
  BY <1>2 DEF KeccakStates
<1> HIDE DEF a, z
<1>4. /\ a \o z(n + 1) = Append(a \o z(n), NoBlock)
      /\ Len(a \o z(n)) = Len(a) + n
  <2>1. /\ a \o Append(z(n), NoBlock) = Append(a \o z(n), NoBlock)
        /\ Len(a \o z(n)) = Len(a) + Len(z(n))
    BY <1>0, <1>1, <1>2, ConcatAppend, Zenon DEF KeccakStates
  <2> QED
    BY <2>1, <1>2, <1>3
<1> QED
  BY <1>4 DEF StreamState, Keccakf1600, a, z

LEMMA StreamBytes ==
  ASSUME NEW data, NEW q \in Nat, NEW j \in 1 .. RATE
  PROVE  StreamByte(data, q * RATE + j) = <<StreamState(data, q), j>>
<1>1. q * RATE \in Nat
  BY NextBlock
<1>2. (q * RATE + j) - 1 = q * RATE + (j - 1) /\ j - 1 \in 0 .. RATE - 1
      /\ (q * RATE + j) - 1 \in Nat
  BY <1>1, RateAssumption
<1>3. ((q * RATE + j) - 1) \div RATE = q /\ ((q * RATE + j) - 1) % RATE = j - 1
  BY <1>2, DivUnique
<1> QED
  BY <1>3 DEF StreamByte

LEMMA FinalBlockStep ==
  ASSUME IInv, FinalBlock
  PROVE  IInv'
<1> USE RateAssumption
<1>t. TypeOK
  BY DEF IInv
<1> DEFINE m == remainder
           last_input == SubSeq(buf, 1, buf_len) \o Rest
           block == PaddedBlock(last_input, 0, buf_len + m)
<1>0. /\ pc = "absorb_final" /\ i = num_blocks
      /\ inner' = Append(inner, block)
      /\ pc' = "idle" /\ inputs' = << >> /\ consumed' = 0 /\ i' = 0
      /\ out_len' = 0 /\ out' = << >> /\ input' = input \o inputs
      /\ buf' = buf /\ buf_len' = buf_len /\ sponge' = sponge
      /\ finalized' = TRUE /\ used' = used /\ ret' = ret
  BY DEF FinalBlock, Return, absorb_final, LoadAndPermute
<1>1. Rest \in Seq(Byte) /\ Len(Rest) = m /\ m \in Nat /\ buf_len + m < RATE
  BY <1>0, RestFacts
<1>2. inputs \in Seq(Byte) /\ input \in Seq(Byte) /\ buf_len \in 0 .. RATE - 1
      /\ buf \in [1 .. RATE -> Byte] /\ inner \in KeccakStates
  BY <1>t DEF TypeOK
<1> HIDE DEF m
<1>3. last_input \in Seq(Byte) /\ Len(last_input) = buf_len + m
  <2>1. SubSeq(buf, 1, buf_len) \in Seq(Byte) /\ Len(SubSeq(buf, 1, buf_len)) = buf_len
    BY <1>2
  <2> QED
    BY <2>1, <1>1, ConcatIndex
<1> HIDE DEF last_input
<1>4. block \in [1 .. RATE -> Byte \cup {DELIM, 128, 128 + DELIM}]
  <2>1. buf_len + m \in 0 .. RATE - 1 /\ 0 + (buf_len + m) <= Len(last_input)
    BY <1>1, <1>2, <1>3
  <2> QED
    BY <2>1, <1>3, PaddedType
<1>s. inner' = StreamState(input', 0)
  <2>1. Holds(inner, buf, buf_len, Taken) /\ Taken \in Seq(Byte)
        /\ input \o inputs = Taken \o Rest
    BY <1>0, RestFacts, NothingLostIsHolds DEF IInv, CallInv
  <2>2. inner' = absorb_final(inner, SubSeq(buf, 1, buf_len) \o Rest, 0, buf_len + Len(Rest))
    BY <1>0, <1>1 DEF absorb_final, LoadAndPermute, last_input
  <2>3. absorb_final(inner, SubSeq(buf, 1, buf_len) \o Rest, 0, buf_len + Len(Rest))
          = Absorbed(Taken \o Rest)
    <3>1. buf_len + Len(Rest) < RATE
      BY <1>1
    <3> QED
      BY <3>1, <2>1, <1>1, <1>2, FinalIsOneShot, ZenonT(30) DEF KeccakStates
  <2>4. input' \in Seq(Byte)
    BY <1>0, <1>2
  <2> QED
    BY <2>1, <2>2, <2>3, <2>4, <1>0, StreamStart
<1> HIDE DEF block
<1>5. TypeOK'
  <2>1. inner' \in KeccakStates
    BY <1>0, <1>2, <1>4 DEF KeccakStates
  <2>2. input' \in Seq(Byte)
    BY <1>0, <1>2
  <2> QED
    BY <2>1, <2>2, <1>0, <1>t, EmptySeq DEF TypeOK
<1>6. CallInv' /\ SqueezeInv' /\ SlicesInBounds' /\ NothingLostOrRepeated'
  BY <1>0 DEF CallInv, SqueezeInv, SlicesInBounds, AbsorbInBounds, SqueezeInBounds,
              NothingLostOrRepeated
<1>7. StreamInv'
  <2>1. ~finalized /\ used = 0 /\ ~sponge
    BY <1>0 DEF IInv, CallInv, StreamInv
  <2> QED
    BY <2>1, <1>0, <1>s DEF StreamInv
<1> QED
  BY <1>5, <1>6, <1>7 DEF IInv

(* An output run, from a Keccak state. *)
LEMMA StoreType ==
  ASSUME NEW s \in KeccakStates, NEW n \in 0 .. RATE
  PROVE  /\ Store(s, n) \in Seq(KeccakStates \X (1 .. RATE))
         /\ Len(Store(s, n)) = n
<1>1. Store(s, n) \in [1 .. n -> KeccakStates \X (1 .. RATE)]
  BY RateAssumption DEF Store
<1> QED
  BY <1>1, RateAssumption

LEMMA PermutedType ==
  ASSUME NEW s \in KeccakStates
  PROVE  Keccakf1600(s) \in KeccakStates
<1>1. NoBlock \in Seq(Byte \cup {DELIM, 128, 128 + DELIM})
  BY EmptySeq DEF NoBlock
<1> QED
  BY <1>1 DEF Keccakf1600, KeccakStates

(* The first block, or the whole of a short answer. *)
LEMMA SqueezeStep ==
  ASSUME IInv, NEW n \in OutLens, Squeeze(n)
  PROVE  IInv'
<1> USE RateAssumption
<1>t. TypeOK
  BY DEF IInv
<1> DEFINE len == SmallerOf(RATE, n)
<1>0. /\ pc = "idle" /\ finalized
      /\ inner' = IF sponge THEN Keccakf1600(inner) ELSE inner
      /\ out' = Store(inner', len)
      /\ out_len' = n /\ i' = 1 /\ pc' = "squeeze"
      /\ buf' = buf /\ buf_len' = buf_len /\ sponge' = sponge
      /\ inputs' = inputs /\ consumed' = consumed /\ input' = input
      /\ finalized' = finalized /\ used' = used /\ ret' = ret
  BY DEF Squeeze, history
<1>1. n \in Nat
  BY OutLensAssumption
<1>2. /\ len \in 0 .. RATE /\ len <= n
      /\ n < RATE => len = n
      /\ n >= RATE => len = RATE
  BY <1>1 DEF SmallerOf
<1> HIDE DEF len
<1>3. inner' \in KeccakStates
  BY <1>0, <1>t, PermutedType DEF TypeOK
<1>4. out' \in Seq(KeccakStates \X (1 .. RATE)) /\ Len(out') = len
  BY <1>0, <1>2, <1>3, StoreType
<1>5. TypeOK'
  BY <1>0, <1>1, <1>3, <1>4, <1>t DEF TypeOK
<1>6. PICK q \in Nat, r \in 0 .. RATE - 1 :
         /\ q = n \div RATE /\ r = n % RATE
         /\ q * RATE \in Nat /\ n = q * RATE + r
         /\ n < RATE => q = 0 /\ r = n
  BY <1>1, Cut
<1>7. /\ n >= RATE => q >= 1
      /\ q > 1 => RATE + RATE <= n
      /\ q = 1 => n = RATE + r
  <2>1. q = 0 => n < RATE
    BY <1>6
  <2>2. q > 1 => RATE + RATE <= q * RATE
    <3>1. 1 * RATE = RATE /\ (1 + 1) * RATE = RATE + RATE
      OBVIOUS
    <3> QED
      BY <3>1, <1>6, SMT
  <2>3. q = 1 => q * RATE = RATE
    OBVIOUS
  <2>4. n = q * RATE + r /\ q * RATE \in Nat
    BY <1>6
  <2> QED
    BY <2>1, <2>2, <2>3, <2>4, <1>1
<1>8. blocks' = q /\ last' = n - r
  BY <1>0, <1>6 DEF blocks, last
<1>9. SlicesInBounds'
  <2>1. SqueezeInBounds'
    <3>1. 1 < q => len + RATE <= n
      BY <1>1, <1>2, <1>7
    <3>2. 1 >= q => /\ n - len < RATE
                    /\ n - r > 0 /\ n - r < n <=> len < n
                    /\ len < n => len = n - r
      BY <1>1, <1>2, <1>6, <1>7
    <3> QED
      BY <3>1, <3>2, <1>0, <1>2, <1>4, <1>8 DEF SqueezeInBounds
  <2> QED
    BY <2>1, <1>0 DEF SlicesInBounds, AbsorbInBounds
<1>10. SqueezeInv'
  <2>1. n >= RATE => len = 1 * RATE /\ 1 <= q
    BY <1>1, <1>2, <1>7
  <2> QED
    BY <2>1, <1>0, <1>2, <1>4, <1>8 DEF SqueezeInv
<1>11. CallInv' /\ NothingLostOrRepeated'
  BY <1>0 DEF IInv, CallInv, NothingLostOrRepeated
<1>12. StreamInv'
  <2>0. used \in Nat /\ input \in Seq(Byte)
    BY <1>t DEF TypeOK
  <2>1. inner' = StreamState(input, used)
    <3>1. CASE sponge
      <4>1. used > 0 /\ inner = StreamState(input, used - 1)
        BY <3>1, <1>0 DEF IInv, StreamInv
      <4>2. used - 1 \in Nat /\ (used - 1) + 1 = used
        BY <4>1, <2>0
      <4>3. StreamState(input, (used - 1) + 1) = Keccakf1600(inner)
        BY <4>1, <4>2, <2>0, StreamNext
      <4> QED
        BY <4>2, <4>3, <3>1, <1>0
    <3>2. CASE ~sponge
      <4>1. used = 0
        BY <3>2, <2>0 DEF IInv, StreamInv
      <4> QED
        BY <4>1, <3>2, <1>0 DEF IInv, StreamInv
    <3> QED
      BY <3>1, <3>2
  <2>2. ASSUME NEW k \in 1 .. len
        PROVE  out'[k] = StreamByte(input, used * RATE + k)
    <3>1. out'[k] = <<inner', k>> /\ k \in 1 .. RATE
      BY <1>0, <1>2 DEF Store
    <3> QED
      BY <3>1, <2>0, <2>1, StreamBytes
  <2>3. used + 1 - 1 = used
    BY <2>0
  <2>4. inner' = StreamState(input', used' + i' - 1)
    BY <2>1, <2>3, <1>0
  <2>5. \A k \in 1 .. Len(out') : out'[k] = StreamByte(input', used' * RATE + k)
    BY <2>2, <1>0, <1>4
  <2> QED
    BY <2>4, <2>5, <1>0 DEF StreamInv, IInv
<1> QED
  BY <1>5, <1>9, <1>10, <1>11, <1>12 DEF IInv

(* Where a squeeze of at least a block is after i of its q blocks. *)
LEMMA SqueezeFacts ==
  ASSUME IInv, pc = "squeeze"
  PROVE  \E q \in Nat, r \in 0 .. RATE - 1 :
           /\ blocks = q /\ last = out_len - r
           /\ q * RATE \in Nat /\ out_len = q * RATE + r
           /\ out_len < RATE => q = 0 /\ r = out_len
           /\ i < q => Len(out) = i * RATE /\ out_len >= RATE
<1>1. /\ out_len \in Nat /\ i \in Nat /\ i >= 1
      /\ out_len >= RATE => Len(out) = i * RATE
  BY DEF IInv, TypeOK, SqueezeInv
<1>2. PICK q \in Nat, r \in 0 .. RATE - 1 :
         /\ q = out_len \div RATE /\ r = out_len % RATE
         /\ q * RATE \in Nat /\ out_len = q * RATE + r
         /\ out_len < RATE => q = 0 /\ r = out_len
  BY <1>1, Cut
<1>3. i < q => out_len >= RATE
  BY <1>1, <1>2, RateAssumption
<1> QED
  BY <1>1, <1>2, <1>3 DEF blocks, last

LEMMA SqueezeBlockStep ==
  ASSUME IInv, SqueezeBlock
  PROVE  IInv'
<1> USE RateAssumption
<1>t. TypeOK
  BY DEF IInv
<1>0. /\ pc = "squeeze" /\ i < blocks
      /\ inner' = Keccakf1600(inner)
      /\ out' = out \o Store(inner', RATE)
      /\ i' = i + 1 /\ out_len' = out_len /\ pc' = pc
      /\ buf' = buf /\ buf_len' = buf_len /\ sponge' = sponge
      /\ inputs' = inputs /\ consumed' = consumed /\ input' = input
      /\ finalized' = finalized /\ used' = used /\ ret' = ret
  BY DEF SqueezeBlock, history
<1>1. PICK q \in Nat, r \in 0 .. RATE - 1 :
           /\ blocks = q /\ last = out_len - r
           /\ q * RATE \in Nat /\ out_len = q * RATE + r
           /\ out_len < RATE => q = 0 /\ r = out_len
           /\ i < q => Len(out) = i * RATE /\ out_len >= RATE
  BY <1>0, SqueezeFacts
<1>2. i \in Nat /\ i >= 1 /\ out_len \in Nat /\ finalized
      /\ out \in Seq(KeccakStates \X (1 .. RATE))
  BY <1>0, <1>t DEF IInv, CallInv, TypeOK, SqueezeInv
<1>3. i < q /\ Len(out) = i * RATE /\ out_len >= RATE
  BY <1>0, <1>1
<1> DEFINE P == i * RATE
<1>4. /\ P \in Nat /\ P + RATE = (i + 1) * RATE /\ P + RATE <= q * RATE
      /\ i + 1 < q => P + RATE + RATE <= q * RATE
      /\ i + 1 >= q => P + RATE = q * RATE
  <2>1. P \in Nat /\ P + RATE = (i + 1) * RATE
    BY <1>2, NextBlock
  <2>2. (i + 1) * RATE + RATE = (i + 2) * RATE
    BY <1>2, NextBlock, i + 1 \in Nat, (i + 1) + 1 = i + 2
  <2>3. (i + 1) * RATE <= q * RATE
    BY <1>2, <1>3, SMT
  <2>4. i + 2 <= q => (i + 2) * RATE <= q * RATE
    BY <1>2, <1>3, SMT
  <2>5. i + 1 >= q => i + 1 = q
    BY <1>2, <1>3
  <2> HIDE DEF P
  <2>6. i + 1 < q => i + 2 <= q
    BY <1>2
  <2>7. i + 1 < q => P + RATE + RATE <= q * RATE
    BY <2>1, <2>2, <2>4, <2>6
  <2> QED
    BY <2>1, <2>3, <2>5, <2>7
<1>5. Len(out) = P /\ q * RATE \in Nat /\ out_len = q * RATE + r
  BY <1>1, <1>3
<1> HIDE DEF P
<1>6. inner' \in KeccakStates
  BY <1>0, <1>t, PermutedType DEF TypeOK
<1>7. out' \in Seq(KeccakStates \X (1 .. RATE)) /\ Len(out') = P + RATE
  <2>1. /\ Store(inner', RATE) \in Seq(KeccakStates \X (1 .. RATE))
        /\ Len(Store(inner', RATE)) = RATE
    BY <1>6, StoreType
  <2>2. /\ out \o Store(inner', RATE) \in Seq(KeccakStates \X (1 .. RATE))
        /\ Len(out \o Store(inner', RATE)) = Len(out) + Len(Store(inner', RATE))
    BY <2>1, <1>2, ConcatIndex
  <2> QED
    BY <2>1, <2>2, <1>0, <1>5
<1>8. TypeOK'
  BY <1>0, <1>2, <1>6, <1>7, <1>t DEF TypeOK
<1>9. blocks' = q /\ last' = out_len - r
  BY <1>0, <1>1 DEF blocks, last
<1>10. SlicesInBounds'
  <2>1. i + 1 < q => P + RATE + RATE <= out_len
    BY <1>1, <1>4, <1>5
  <2>2. P + RATE <= out_len
    BY <1>1, <1>4, <1>5
  <2>3. i + 1 >= q => /\ out_len - (P + RATE) < RATE
                      /\ out_len - r > 0 /\ out_len - r < out_len
                           <=> P + RATE < out_len
                      /\ P + RATE < out_len => P + RATE = out_len - r
    BY <1>1, <1>2, <1>4, <1>5
  <2>4. SqueezeInBounds'
    BY <2>1, <2>2, <2>3, <1>0, <1>7, <1>9 DEF SqueezeInBounds
  <2> QED
    BY <2>4, <1>0 DEF SlicesInBounds, AbsorbInBounds
<1>11. SqueezeInv'
  BY <1>0, <1>2, <1>3, <1>4, <1>7, <1>9 DEF SqueezeInv
<1>12. CallInv' /\ NothingLostOrRepeated'
  BY <1>0, <1>2 DEF IInv, CallInv, NothingLostOrRepeated
<1>13. StreamInv'
  <2>0. used \in Nat /\ input \in Seq(Byte)
    BY <1>t DEF TypeOK
  <2>1. /\ inner = StreamState(input, used + i - 1)
        /\ \A k \in 1 .. P : out[k] = StreamByte(input, used * RATE + k)
    BY <1>0, <1>5 DEF IInv, StreamInv
  <2>2. inner' = StreamState(input, used + i)
    <3>1. used + i - 1 \in Nat /\ (used + i - 1) + 1 = used + i
      BY <1>2, <2>0
    <3>2. StreamState(input, (used + i - 1) + 1) = Keccakf1600(StreamState(input, used + i - 1))
      BY <3>1, <2>0, StreamNext
    <3> QED
      BY <3>1, <3>2, <2>1, <1>0
  <2>3. used * RATE \in Nat /\ (used + i) * RATE = used * RATE + P
    BY <2>0, <1>2, SMT DEF P
  <2>4. ASSUME NEW k \in 1 .. P + RATE
        PROVE  out'[k] = StreamByte(input, used * RATE + k)
    <3>0. /\ Store(inner', RATE) \in Seq(KeccakStates \X (1 .. RATE))
          /\ Len(Store(inner', RATE)) = RATE
      BY <1>6, StoreType
    <3>1. /\ \A j \in 1 .. P : out'[j] = out[j]
          /\ \A j \in 1 .. RATE : out'[P + j] = Store(inner', RATE)[j]
      <4> DEFINE st == Store(inner', RATE)
      <4> HIDE DEF st
      <4>1. /\ \A j \in 1 .. Len(out) : (out \o st)[j] = out[j]
            /\ \A j \in 1 .. Len(st) : (out \o st)[Len(out) + j] = st[j]
        BY <3>0, <1>2, ConcatIndex DEF st
      <4> QED
        BY <3>0, <4>1, <1>0, <1>5 DEF st
    <3>2. CASE k \in 1 .. P
      BY <3>1, <3>2, <2>1
    <3>3. CASE ~(k \in 1 .. P)
      <4>1. k - P \in 1 .. RATE /\ P + (k - P) = k
        BY <3>3, <1>4
      <4>2. out'[k] = <<StreamState(input, used + i), k - P>>
        BY <4>1, <3>1, <2>2 DEF Store
      <4>3. used * RATE + k = (used + i) * RATE + (k - P) /\ used + i \in Nat
        BY <4>1, <2>0, <2>3, <1>2, <1>4
      <4>4. StreamByte(input, (used + i) * RATE + (k - P))
              = <<StreamState(input, used + i), k - P>>
        BY <4>1, <4>3, StreamBytes
      <4> QED
        BY <4>2, <4>3, <4>4
    <3> QED
      BY <3>2, <3>3
  <2>5. used + (i + 1) - 1 = used + i
    BY <2>0, <1>2
  <2>6. inner' = StreamState(input', used' + i' - 1)
    BY <2>2, <2>5, <1>0
  <2>7. \A k \in 1 .. Len(out') : out'[k] = StreamByte(input', used' * RATE + k)
    BY <2>4, <1>0, <1>7
  <2> QED
    BY <2>6, <2>7, <1>0 DEF StreamInv, IInv
<1> QED
  BY <1>8, <1>10, <1>11, <1>12, <1>13 DEF IInv

(* A number of bytes, in blocks: q whole ones and one for a rest. *)
LEMMA BlocksForCut ==
  ASSUME NEW q \in Nat, NEW r \in 0 .. RATE - 1, NEW n \in Nat, n = q * RATE + r
  PROVE  BlocksFor(n) = IF n = 0 THEN 1 ELSE IF r = 0 THEN q ELSE q + 1
<1>1. q * RATE \in Nat /\ (q + 1) * RATE = q * RATE + RATE
  BY NextBlock
<1>2. CASE n = 0
  BY <1>2 DEF BlocksFor
<1>3. CASE n # 0 /\ r = 0
  <2>1. n + RATE - 1 = q * RATE + (RATE - 1) /\ RATE - 1 \in 0 .. RATE - 1
        /\ n + RATE - 1 \in Nat
    BY <1>1, <1>3, RateAssumption
  <2> QED
    BY <2>1, <1>3, DivUnique DEF BlocksFor
<1>4. CASE n # 0 /\ r # 0
  <2>1. n + RATE - 1 = (q + 1) * RATE + (r - 1) /\ r - 1 \in 0 .. RATE - 1
        /\ n + RATE - 1 \in Nat /\ q + 1 \in Nat
    BY <1>1, <1>4, RateAssumption
  <2>2. (n + RATE - 1) \div RATE = q + 1
    BY <2>1, DivUnique
  <2> QED
    BY <2>2, <1>4 DEF BlocksFor
<1> QED
  BY <1>2, <1>3, <1>4

(***************************************************************************)
(* What a squeeze returns: the next out_len bytes of the stream from the    *)
(* block boundary, leaving the state at the last block it used.             *)
(***************************************************************************)
LEMMA SqueezeResult ==
  ASSUME IInv, SqueezeLast
  PROVE  /\ used' = used + BlocksFor(out_len)
         /\ inner' = StreamState(input, used' - 1) /\ used' \in Nat /\ used' > 0
         /\ ret' = [k \in 1 .. out_len |-> StreamByte(input, used * RATE + k)]
         /\ inner' \in KeccakStates
         /\ ret' \in Seq(KeccakStates \X (1 .. RATE))
<1> USE RateAssumption
<1>t. TypeOK
  BY DEF IInv
<1>0. /\ pc = "squeeze" /\ i >= blocks
      /\ used' = Len(inner') - Len(Absorbed(input)) + 1
  BY DEF SqueezeLast
<1>1. PICK q \in Nat, r \in 0 .. RATE - 1 :
           /\ blocks = q /\ last = out_len - r
           /\ q * RATE \in Nat /\ out_len = q * RATE + r
           /\ out_len < RATE => q = 0 /\ r = out_len
           /\ i < q => Len(out) = i * RATE /\ out_len >= RATE
  BY <1>0, SqueezeFacts
<1>2. /\ used \in Nat /\ input \in Seq(Byte) /\ inner \in KeccakStates
      /\ i \in Nat /\ i >= 1 /\ out_len \in Nat
      /\ out \in Seq(KeccakStates \X (1 .. RATE))
      /\ out_len < RATE => Len(out) = out_len /\ i = 1
      /\ out_len >= RATE => Len(out) = i * RATE /\ i <= q
      /\ Len(out) <= out_len /\ out_len - Len(out) < RATE
      /\ last > 0 /\ last < out_len <=> Len(out) < out_len
      /\ Len(out) < out_len => Len(out) = last
  BY <1>0, <1>1, <1>t DEF IInv, TypeOK, SqueezeInv, SlicesInBounds, SqueezeInBounds
<1>3. /\ inner = StreamState(input, used + i - 1)
      /\ \A k \in 1 .. Len(out) : out[k] = StreamByte(input, used * RATE + k)
  BY <1>0 DEF IInv, StreamInv
<1>4. used + i - 1 \in Nat /\ (used + i - 1) + 1 = used + i
  BY <1>2
<1>5. Len(inner) = Len(Absorbed(input)) + (used + i - 1) /\ Len(Absorbed(input)) \in Nat
  <2>1. Len(Absorbed(input)) \in Nat
    BY <1>2, AbsorbedType DEF KeccakStates
  <2>2. Len(StreamState(input, used + i - 1)) = Len(Absorbed(input)) + (used + i - 1)
    BY <1>2, <1>4, StreamNext, Zenon
  <2> QED
    BY <2>1, <2>2, <1>3
<1>6. out_len >= RATE => i = q
  BY <1>0, <1>1, <1>2
<1>7. CASE Len(out) < out_len
  <2>1. inner' = Keccakf1600(inner)
        /\ ret' = out \o Store(inner', out_len - Len(out))
    BY <1>2, <1>7 DEF SqueezeLast
  <2>2. inner' = StreamState(input, used + i)
    <3>1. StreamState(input, (used + i - 1) + 1) = Keccakf1600(StreamState(input, used + i - 1))
      BY <1>2, <1>4, StreamNext
    <3> QED
      BY <3>1, <2>1, <1>3, <1>4
  <2>3. Len(inner') = Len(Absorbed(input)) + (used + i)
    BY <2>2, <1>2, StreamNext, used + i \in Nat
  <2>4. out_len >= RATE /\ i = q
    BY <1>2, <1>6, <1>7
  <2> DEFINE P == Len(out)
  <2>5. r = out_len - P /\ r > 0 /\ P = i * RATE /\ P + r = out_len /\ P \in Nat
    <3>1. P = i * RATE /\ P = last /\ P \in Nat
      BY <1>2, <1>7, <2>4
    <3>2. P = out_len - r
      BY <3>1, <1>1
    <3> QED
      BY <3>1, <3>2, <1>1, <1>2, <1>7
  <2> HIDE DEF P
  <2>6. used' = used + i + 1 /\ BlocksFor(out_len) = i + 1
    <3>1. BlocksFor(out_len) = IF out_len = 0 THEN 1 ELSE IF r = 0 THEN q ELSE q + 1
      BY <1>1, <1>2, BlocksForCut
    <3>2. used' = used + i + 1
      BY <2>3, <1>0, <1>2, <1>5
    <3>3. BlocksFor(out_len) = i + 1
      BY <3>1, <2>4, <2>5, <1>2
    <3> QED
      BY <3>2, <3>3
  <2>7. inner' \in KeccakStates
    BY <2>1, <1>2, PermutedType
  <2> DEFINE st == Store(inner', r)
  <2>8. st \in Seq(KeccakStates \X (1 .. RATE)) /\ Len(st) = r
        /\ \A j \in 1 .. r : st[j] = <<inner', j>>
    BY <2>7, StoreType DEF Store
  <2>9. ret' = out \o st
    BY <2>1, <2>5 DEF P
  <2> HIDE DEF st
  <2>10. /\ ret' \in Seq(KeccakStates \X (1 .. RATE))
         /\ Len(ret') = out_len
         /\ \A j \in 1 .. P : ret'[j] = out[j]
         /\ \A j \in 1 .. r : ret'[P + j] = st[j]
    <3>1. /\ out \o st \in Seq(KeccakStates \X (1 .. RATE))
          /\ Len(out \o st) = Len(out) + Len(st)
          /\ \A j \in 1 .. Len(out) : (out \o st)[j] = out[j]
          /\ \A j \in 1 .. Len(st) : (out \o st)[Len(out) + j] = st[j]
      <4>1. /\ out \in Seq(KeccakStates \X (1 .. RATE))
            /\ st \in Seq(KeccakStates \X (1 .. RATE))
        BY <1>2, <2>8
      <4> QED
        BY <4>1, ConcatIndex
    <3>2. Len(out) = P
      BY DEF P
    <3> QED
      BY <3>1, <3>2, <2>5, <2>8, <2>9
  <2>11. used * RATE \in Nat /\ (used + i) * RATE = used * RATE + P
    BY <2>5, <1>2, SMT
  <2>12. ASSUME NEW k \in 1 .. out_len
         PROVE  ret'[k] = StreamByte(input, used * RATE + k)
    <3>1. CASE k \in 1 .. P
      BY <3>1, <2>10, <1>3 DEF P
    <3>2. CASE ~(k \in 1 .. P)
      <4>1. k - P \in 1 .. r /\ P + (k - P) = k /\ k - P \in 1 .. RATE
        BY <3>2, <2>5, <1>2
      <4>2. ret'[k] = <<StreamState(input, used + i), k - P>>
        BY <4>1, <2>2, <2>8, <2>10
      <4>3. used * RATE + k = (used + i) * RATE + (k - P) /\ used + i \in Nat
        BY <4>1, <2>5, <2>11, <1>2
      <4>4. StreamByte(input, (used + i) * RATE + (k - P))
              = <<StreamState(input, used + i), k - P>>
        BY <4>1, <4>3, StreamBytes
      <4> QED
        BY <4>2, <4>3, <4>4
    <3> QED
      BY <3>1, <3>2
  <2>13. ret' = [k \in 1 .. out_len |-> StreamByte(input, used * RATE + k)]
    BY <2>10, <2>12
  <2>14. used' - 1 = used + i /\ used' \in Nat /\ used' > 0
         /\ used' = used + BlocksFor(out_len)
    BY <2>6, <1>2
  <2> QED
    BY <2>2, <2>7, <2>10, <2>13, <2>14
<1>8. CASE ~(Len(out) < out_len)
  <2>1. inner' = inner /\ ret' = out
    BY <1>2, <1>8 DEF SqueezeLast
  <2>2. Len(out) = out_len
    BY <1>2, <1>8
  <2>3. used' = used + i
    BY <2>1, <1>0, <1>2, <1>5
  <2>4. BlocksFor(out_len) = i
    <3>1. BlocksFor(out_len) = IF out_len = 0 THEN 1 ELSE IF r = 0 THEN q ELSE q + 1
      BY <1>1, <1>2, BlocksForCut
    <3>2. CASE out_len < RATE
      BY <3>1, <3>2, <1>1, <1>2
    <3>3. CASE out_len >= RATE
      <4>1. out_len = q * RATE /\ i = q /\ q * RATE \in Nat /\ out_len = q * RATE + r
        BY <3>3, <2>2, <1>1, <1>2, <1>6
      <4>2. r = 0 /\ out_len # 0
        BY <4>1, <3>3
      <4> QED
        BY <3>1, <4>1, <4>2
    <3> QED
      BY <3>2, <3>3, <1>2
  <2>5. ret' = [k \in 1 .. out_len |-> StreamByte(input, used * RATE + k)]
    BY <2>1, <2>2, <1>2, <1>3
  <2>6. used' - 1 = used + i - 1 /\ used' \in Nat /\ used' > 0
    BY <2>3, <1>2
  <2> QED
    BY <2>1, <2>3, <2>4, <2>5, <2>6, <1>2, <1>3
<1> QED
  BY <1>7, <1>8

LEMMA SqueezeLastStep ==
  ASSUME IInv, SqueezeLast
  PROVE  IInv'
<1>t. TypeOK
  BY DEF IInv
<1>0. /\ pc = "squeeze" /\ sponge' = TRUE
      /\ pc' = "idle" /\ inputs' = << >> /\ consumed' = 0 /\ i' = 0
      /\ out_len' = 0 /\ out' = << >>
      /\ buf' = buf /\ buf_len' = buf_len /\ input' = input
      /\ finalized' = finalized
  BY DEF SqueezeLast, Return, MarkSqueezed
<1>1. finalized
  BY <1>0 DEF IInv, CallInv
<1>2. /\ inner' = StreamState(input, used' - 1) /\ used' \in Nat /\ used' > 0
      /\ inner' \in KeccakStates
      /\ ret' \in Seq(KeccakStates \X (1 .. RATE))
  BY SqueezeResult
<1>3. TypeOK'
  BY <1>0, <1>2, <1>t, EmptySeq, RateAssumption DEF TypeOK
<1>4. CallInv' /\ SqueezeInv' /\ SlicesInBounds' /\ NothingLostOrRepeated'
  BY <1>0, <1>1 DEF CallInv, SqueezeInv, SlicesInBounds, AbsorbInBounds,
                    SqueezeInBounds, NothingLostOrRepeated
<1>5. StreamInv'
  BY <1>0, <1>1, <1>2 DEF StreamInv
<1> QED
  BY <1>3, <1>4, <1>5 DEF IInv

LEMMA StutterStep ==
  ASSUME IInv, UNCHANGED vars
  PROVE  IInv'
BY DEF IInv, TypeOK, CallInv, SlicesInBounds, AbsorbInBounds, SqueezeInBounds,
       SqueezeInv, NothingLostOrRepeated, StreamInv, Taken, vars, state, locals,
       history, num_blocks, remainder, blocks, last

THEOREM NextIInv == IInv /\ [Next]_vars => IInv'
<1> SUFFICES ASSUME IInv, [Next]_vars PROVE IInv'
  OBVIOUS
<1>1. ASSUME NEW data \in Inputs, Absorb(data) PROVE IInv'
  BY <1>1, EnterStep DEF Absorb
<1>2. ASSUME NEW data \in Inputs, AbsorbFinal(data) PROVE IInv'
  BY <1>2, EnterStep DEF AbsorbFinal
<1>3. CASE AbsorbBlock
  BY <1>3, AbsorbBlockStep
<1>4. CASE BufferRest
  BY <1>4, BufferRestStep
<1>5. CASE FinalBlock
  BY <1>5, FinalBlockStep
<1>6. ASSUME NEW n \in OutLens, Squeeze(n) PROVE IInv'
  BY <1>6, SqueezeStep
<1>7. CASE SqueezeBlock
  BY <1>7, SqueezeBlockStep
<1>8. CASE SqueezeLast
  BY <1>8, SqueezeLastStep
<1>9. CASE UNCHANGED vars
  BY <1>9, StutterStep
<1> QED
  BY <1>1, <1>2, <1>3, <1>4, <1>5, <1>6, <1>7, <1>8, <1>9 DEF Next

THEOREM Invariance == Spec => []IInv
BY InitIInv, NextIInv, PTL DEF Spec

-----------------------------------------------------------------------------
(* The properties *)

(* The fields and locals keep their types; buf_len stays below RATE, which   *)
(* is what absorb_full requires of every call (keccak.rs 75-86).             *)
THEOREM TypeCorrect == Spec => []TypeOK
<1>1. IInv => TypeOK
  BY DEF IInv
<1> QED
  BY <1>1, Invariance, PTL

(* However the calls cut the input, no byte of it is lost, repeated or moved *)
(* between the buffer and the absorbed blocks (absorb, fill_buffer).         *)
THEOREM InputIntact == Spec => []NothingLostOrRepeated
<1>1. IInv => NothingLostOrRepeated
  BY DEF IInv
<1> QED
  BY <1>1, Invariance, PTL

(* No slice of the buffer, of the argument or of the output is out of bounds *)
(* in absorb_full, absorb, absorb_final or _squeeze.                         *)
THEOREM InBounds == Spec => []SlicesInBounds
<1>1. IInv => SlicesInBounds
  BY DEF IInv
<1> QED
  BY <1>1, Invariance, PTL

(* No squeeze hands out a byte of a block an earlier one has read from.      *)
THEOREM OutputFresh == Spec => FreshOutput
<1> DEFINE Fresh ==
      pc = "squeeze" /\ pc' = "idle" =>
         \A k \in DOMAIN ret' : Len(ret'[k][1]) >= Len(Absorbed(input)) + used
<1>1. IInv /\ [Next]_vars => [Fresh]_vars
  <2> SUFFICES ASSUME IInv, Next, pc = "squeeze", pc' = "idle"
               PROVE  \A k \in DOMAIN ret' : Len(ret'[k][1]) >= Len(Absorbed(input)) + used
    OBVIOUS
  <2>1. SqueezeLast
    BY DEF Next, Absorb, AbsorbFinal, Enter, AbsorbBlock, BufferRest, FinalBlock,
           Squeeze, SqueezeBlock
  <2>2. ret' = [k \in 1 .. out_len |-> StreamByte(input, used * RATE + k)]
    BY <2>1, SqueezeResult
  <2>3. /\ used \in Nat /\ out_len \in Nat /\ input \in Seq(Byte)
        /\ Len(Absorbed(input)) \in Nat
    <3>1. input \in Seq(Byte)
      BY DEF IInv, TypeOK
    <3>2. Len(Absorbed(input)) \in Nat
      BY <3>1, AbsorbedType DEF KeccakStates
    <3> QED
      BY <3>1, <3>2 DEF IInv, TypeOK
  <2>4. ASSUME NEW k \in 1 .. out_len
        PROVE  Len(ret'[k][1]) >= Len(Absorbed(input)) + used
    <3> DEFINE at == (used * RATE + k) - 1
               b == at \div RATE
    <3>1. used * RATE \in Nat /\ at \in Nat /\ at >= used * RATE
      <4>1. used * RATE \in Nat
        BY <2>3, NextBlock
      <4> QED
        BY <4>1, <2>3
    <3> HIDE DEF at
    <3>2. b \in Nat /\ b * RATE \in Nat /\ at % RATE \in 0 .. RATE - 1
          /\ at = b * RATE + (at % RATE)
      BY <3>1, Cut
    <3> HIDE DEF b
    <3>3. b >= used
      <4>1. (b + 1) * RATE = b * RATE + RATE
        BY <3>2, NextBlock
      <4>2. b + 1 <= used => (b + 1) * RATE <= used * RATE
        BY <2>3, <3>2, RateAssumption, SMT
      <4>3. at < b * RATE + RATE
        BY <3>2, RateAssumption
      <4>4. ~(b + 1 <= used)
        BY <4>1, <4>2, <4>3, <3>1, <3>2, RateAssumption
      <4> QED
        BY <4>4, <2>3, <3>2
    <3>4. ret'[k][1] = StreamState(input, b)
      <4>1. ret'[k] = StreamByte(input, used * RATE + k)
        BY <2>2
      <4>2. StreamByte(input, used * RATE + k) = <<StreamState(input, b), (at % RATE) + 1>>
        BY Zenon DEF StreamByte, b, at
      <4> QED
        BY <4>1, <4>2
    <3>5. Len(StreamState(input, b)) = Len(Absorbed(input)) + b
      BY <2>3, <3>2, StreamNext, Zenon
    <3> QED
      BY <2>3, <3>2, <3>3, <3>4, <3>5
  <2> QED
    BY <2>2, <2>4
<1> QED
  BY <1>1, Invariance, PTL DEF Spec, FreshOutput

-----------------------------------------------------------------------------
(* The first squeeze is the one-shot hash. *)

LEMMA Least ==
  ASSUME NEW T \in SUBSET Nat, T # {}
  PROVE  \E n \in T : \A m \in T : n <= m
<1>1. IsWellFoundedOn(OpToRel(<, Nat), Nat)
  BY NatLessThanWellFounded
<1> DEFINE R == OpToRel(<, Nat)
<1>2. \A x, y \in Nat : <<x, y>> \in R <=> x < y
  BY DEF OpToRel
<1> HIDE DEF R
<1>3. PICK n \in T : \A m \in T : ~(<<m, n>> \in R)
  BY <1>1, WFMin, Zenon DEF R
<1>4. ASSUME NEW m \in T PROVE n <= m
  <2>1. ~(m < n) /\ m \in Nat /\ n \in Nat
    BY <1>2, <1>3
  <2> QED
    BY <2>1
<1> QED
  BY <1>4

(* The sponge after k blocks of output, with those blocks. *)
AfterBlocks(data, k) ==
  [state |-> StreamState(data, k - 1),
   bytes |-> [j \in 1 .. k * RATE |-> StreamByte(data, j)]]

(* One more span of n bytes, read from output block q, goes behind the others. *)
LEMMA StreamGrows ==
  ASSUME NEW data \in Seq(Byte), NEW q \in Nat, NEW n \in 0 .. RATE,
         NEW P \in Nat, P = q * RATE
  PROVE  [j \in 1 .. P |-> StreamByte(data, j)] \o Store(StreamState(data, q), n)
           = [j \in 1 .. P + n |-> StreamByte(data, j)]
<1> DEFINE W == {StreamByte(data, j) : j \in 1 .. P + n}
           head == [j \in 1 .. P |-> StreamByte(data, j)]
           tail == Store(StreamState(data, q), n)
<1>1. /\ tail = [j \in 1 .. n |-> <<StreamState(data, q), j>>]
      /\ n \in Nat
  BY RateAssumption DEF Store
<1>2. \A j \in 1 .. n : tail[j] = StreamByte(data, P + j)
  <2> TAKE j \in 1 .. n
  <2>1. j \in 1 .. RATE
    BY RateAssumption
  <2> QED
    BY <2>1, <1>1, StreamBytes
<1>3. head \in Seq(W) /\ Len(head) = P /\ \A j \in 1 .. P : head[j] = StreamByte(data, j)
  <2>1. \A j \in 1 .. P : StreamByte(data, j) \in W
    BY <1>1
  <2> HIDE DEF W
  <2> QED
    BY <2>1
<1>4. tail \in Seq(W) /\ Len(tail) = n
  <2>1. \A j \in 1 .. n : tail[j] \in W
    BY <1>1, <1>2
  <2>2. tail \in [1 .. n -> W]
    <3> HIDE DEF W
    <3> QED
      BY <1>1, <2>1
  <2> HIDE DEF W, tail
  <2> QED
    BY <1>1, <2>2
<1> HIDE DEF W, head, tail
<1>5. /\ head \o tail \in Seq(W)
      /\ Len(head \o tail) = P + n
      /\ \A j \in 1 .. P : (head \o tail)[j] = head[j]
      /\ \A j \in 1 .. n : (head \o tail)[P + j] = tail[j]
  <2>1. /\ head \o tail \in Seq(W)
        /\ Len(head \o tail) = Len(head) + Len(tail)
        /\ \A j \in 1 .. Len(head) : (head \o tail)[j] = head[j]
        /\ \A j \in 1 .. Len(tail) : (head \o tail)[Len(head) + j] = tail[j]
    <3>1. head \in Seq(W) /\ tail \in Seq(W)
      BY <1>3, <1>4
    <3> QED
      BY <3>1, ConcatIndex
  <2> QED
    BY <2>1, <1>3, <1>4, Zenon
<1>6. ASSUME NEW k \in 1 .. P + n
      PROVE  (head \o tail)[k] = StreamByte(data, k)
  <2>1. CASE k \in 1 .. P
    BY <2>1, <1>3, <1>5
  <2>2. CASE ~(k \in 1 .. P)
    <3>1. k - P \in 1 .. n /\ P + (k - P) = k
      BY <2>2, <1>1
    <3> QED
      BY <3>1, <1>2, <1>5, SMTT(30)
  <2> QED
    BY <2>1, <2>2
<1>7. head \o tail = [k \in 1 .. P + n |-> (head \o tail)[k]]
  <2>1. \A t \in Seq(W) : t = [k \in 1 .. Len(t) |-> t[k]]
    OBVIOUS
  <2> QED
    BY <2>1, <1>5, Zenon
<1>8. head \o tail = [j \in 1 .. P + n |-> StreamByte(data, j)]
  BY <1>6, <1>7
<1> QED
  BY <1>8 DEF head, tail

(* The first block alone is the stream's beginning. *)
LEMMA StreamBegins ==
  ASSUME NEW data \in Seq(Byte), NEW n \in 0 .. RATE
  PROVE  Store(Absorbed(data), n) = [j \in 1 .. n |-> StreamByte(data, j)]
<1>1. [j \in 1 .. 0 |-> StreamByte(data, j)] = << >>
  OBVIOUS
<1>2. 0 \in Nat /\ 0 = 0 * RATE /\ 0 + n = n
  BY RateAssumption
<1>3. [j \in 1 .. 0 |-> StreamByte(data, j)] \o Store(StreamState(data, 0), n)
        = [j \in 1 .. 0 + n |-> StreamByte(data, j)]
  BY <1>2, StreamGrows, Zenon
<1>4. << >> \o Store(Absorbed(data), n) = Store(Absorbed(data), n)
  <2>1. Store(Absorbed(data), n) \in Seq(KeccakStates \X (1 .. RATE))
    BY AbsorbedType, StoreType
  <2> QED
    BY <2>1
<1>5. StreamState(data, 0) = Absorbed(data)
  BY StreamStart
<1> QED
  BY <1>1, <1>2, <1>3, <1>4, <1>5, Zenon

LEMMA FirstBlock ==
  ASSUME NEW data \in Seq(Byte)
  PROVE  squeeze_first_block(Absorbed(data)) = AfterBlocks(data, 1)
<1>1. RATE \in 0 .. RATE /\ 1 * RATE = RATE /\ 1 - 1 = 0
  BY RateAssumption
<1>2. Store(Absorbed(data), RATE) = [j \in 1 .. RATE |-> StreamByte(data, j)]
  BY <1>1, StreamBegins
<1> QED
  BY <1>1, <1>2, StreamStart, Zenon DEF squeeze_first_block, AfterBlocks

LEMMA FurtherBlock ==
  ASSUME NEW data \in Seq(Byte), NEW k \in Nat \ {0}
  PROVE  squeeze_next_block(AfterBlocks(data, k)) = AfterBlocks(data, k + 1)
<1>1. k - 1 \in Nat /\ (k - 1) + 1 = k /\ (k + 1) - 1 = k /\ k \in Nat /\ RATE \in 0 .. RATE
  BY RateAssumption
<1>2. Keccakf1600(StreamState(data, k - 1)) = StreamState(data, k)
  BY <1>1, StreamNext
<1>3. (k + 1) * RATE = k * RATE + RATE
  BY NextBlock
<1>4. [j \in 1 .. k * RATE |-> StreamByte(data, j)] \o Store(StreamState(data, k), RATE)
        = [j \in 1 .. (k + 1) * RATE |-> StreamByte(data, j)]
  <2>1. k * RATE \in Nat
    BY NextBlock, <1>1
  <2>2. [j \in 1 .. k * RATE |-> StreamByte(data, j)] \o Store(StreamState(data, k), RATE)
          = [j \in 1 .. k * RATE + RATE |-> StreamByte(data, j)]
    BY <1>1, <2>1, StreamGrows, Zenon
  <2> QED
    BY <1>3, <2>2, Zenon
<1> QED
  BY <1>1, <1>2, <1>4, Zenon DEF squeeze_next_block, AfterBlocks

LEMMA BlocksOfStream ==
  ASSUME NEW data \in Seq(Byte), NEW k \in Nat \ {0}
  PROVE  SqueezeBlocks(Absorbed(data), k) = AfterBlocks(data, k)
<1> DEFINE s == Absorbed(data)
           G(f) == [n \in 1 .. k |-> IF n = 1 THEN squeeze_first_block(s)
                                              ELSE squeeze_next_block(f[n - 1])]
           run == CHOOSE f : f = G(f)
           F == [n \in 1 .. k |-> AfterBlocks(data, n)]
<1>1. SqueezeBlocks(s, k) = run[k]
  BY DEF SqueezeBlocks
<1>2. F = G(F)
  <2>1. ASSUME NEW n \in 1 .. k
        PROVE  F[n] = G(F)[n]
    <3>1. CASE n = 1
      BY <3>1, FirstBlock
    <3>2. CASE n # 1
      <4>1. n - 1 \in 1 .. k /\ n - 1 \in Nat \ {0} /\ (n - 1) + 1 = n
        BY <3>2
      <4>2. squeeze_next_block(AfterBlocks(data, n - 1)) = AfterBlocks(data, n)
        BY <4>1, FurtherBlock
      <4> QED
        BY <3>2, <4>1, <4>2
    <3> QED
      BY <3>1, <3>2
  <2> HIDE DEF s
  <2> QED
    BY <2>1
<1> HIDE DEF F
<1>3. run = G(run)
  BY <1>2
<1> HIDE DEF run
<1>4. ASSUME NEW n \in 1 .. k, run[n] # AfterBlocks(data, n)
      PROVE  FALSE
  <2> DEFINE T == {m \in 1 .. k : run[m] # AfterBlocks(data, m)}
  <2>1. T \in SUBSET Nat /\ T # {}
    BY <1>4
  <2> HIDE DEF T
  <2>2. PICK m \in T : \A x \in T : m <= x
    BY <2>1, Least
  <2>3. m \in 1 .. k /\ run[m] # AfterBlocks(data, m)
    BY DEF T
  <2>4. run[m] = IF m = 1 THEN squeeze_first_block(s) ELSE squeeze_next_block(run[m - 1])
    <3>1. G(run)[m] = IF m = 1 THEN squeeze_first_block(s) ELSE squeeze_next_block(run[m - 1])
      BY <2>3
    <3> HIDE DEF G
    <3> QED
      BY <3>1, <1>3
  <2>5. m # 1
    BY <2>3, <2>4, FirstBlock
  <2>6. m - 1 \in 1 .. k /\ m - 1 \in Nat \ {0} /\ (m - 1) + 1 = m /\ ~(m <= m - 1)
    BY <2>3, <2>5
  <2>7. run[m - 1] = AfterBlocks(data, m - 1)
    BY <2>2, <2>6 DEF T
  <2>8. squeeze_next_block(AfterBlocks(data, m - 1)) = AfterBlocks(data, m)
    BY <2>6, FurtherBlock
  <2> QED
    BY <2>3, <2>4, <2>5, <2>7, <2>8
<1> QED
  BY <1>1, <1>4

LEMMA OneShotIsStream ==
  ASSUME NEW data \in Seq(Byte), NEW n \in Nat
  PROVE  keccak(data, n) = [j \in 1 .. n |-> StreamByte(data, j)]
<1> DEFINE s == Absorbed(data)
           q == n \div RATE
           r == n % RATE
<1>1. /\ q \in Nat /\ q * RATE \in Nat /\ r \in 0 .. RATE - 1
      /\ n = q * RATE + r
  BY Cut
<1>2. r \in 0 .. RATE
  BY <1>1, RateAssumption
<1>3. keccak(data, n) =
        CASE q = 0 -> Store(s, n)
          [] q > 0 /\ n - r < n -> squeeze_last(SqueezeBlocks(s, q), n - (n - r))
          [] OTHER -> SqueezeBlocks(s, q).bytes
  BY Zenon DEF keccak
<1> HIDE DEF q, r
<1>4. CASE q = 0
  <2>1. n = r /\ q * RATE = 0
    BY <1>1, <1>4, RateAssumption
  <2>2. n \in 0 .. RATE
    BY <1>2, <2>1
  <2> QED
    BY <1>3, <1>4, <2>2, StreamBegins
<1>5. CASE q > 0
  <2>1. SqueezeBlocks(s, q) = AfterBlocks(data, q)
    BY <1>1, <1>5, BlocksOfStream
  <2>2. /\ SqueezeBlocks(s, q).bytes = [j \in 1 .. q * RATE |-> StreamByte(data, j)]
        /\ SqueezeBlocks(s, q).state = StreamState(data, q - 1)
    BY <2>1 DEF AfterBlocks
  <2>3. CASE r = 0
    <3>1. n = q * RATE /\ ~(n - r < n)
      BY <2>3, <1>1
    <3> QED
      BY <3>1, <2>2, <1>3, <1>5
  <2>4. CASE r # 0
    <3>1. n - r < n /\ n - (n - r) = r /\ q # 0
      <4>1. r \in Nat /\ r > 0 /\ q # 0
        BY <2>4, <1>1, <1>5, RateAssumption
      <4> QED
        BY <4>1
    <3>2. q - 1 \in Nat /\ (q - 1) + 1 = q
      BY <1>1, <1>5
    <3>3. Keccakf1600(StreamState(data, q - 1)) = StreamState(data, q)
      BY <3>2, StreamNext
    <3>4. squeeze_last(SqueezeBlocks(s, q), r)
            = [j \in 1 .. q * RATE |-> StreamByte(data, j)] \o Store(StreamState(data, q), r)
      BY <2>2, <3>3, Zenon DEF squeeze_last
    <3>5. squeeze_last(SqueezeBlocks(s, q), r) = [j \in 1 .. n |-> StreamByte(data, j)]
      <4>1. [j \in 1 .. q * RATE |-> StreamByte(data, j)] \o Store(StreamState(data, q), r)
              = [j \in 1 .. q * RATE + r |-> StreamByte(data, j)]
        BY <1>1, <1>2, StreamGrows, Zenon
      <4> QED
        BY <3>4, <4>1, <1>1, Zenon
    <3> QED
      BY <3>1, <3>5, <1>3, <1>5
  <2> QED
    BY <2>3, <2>4
<1> QED
  BY <1>1, <1>4, <1>5

(* The first squeeze returns what the one-shot keccak returns for everything *)
(* that was absorbed, however it was cut (absorb, absorb_final, _squeeze).   *)
THEOREM OneShot == Spec => []FirstSqueezeIsOneShot
<1>1. Init => FirstSqueezeIsOneShot
  BY DEF Init, FirstSqueezeIsOneShot
<1>2. IInv /\ FirstSqueezeIsOneShot /\ [Next]_vars => FirstSqueezeIsOneShot'
  <2> SUFFICES ASSUME IInv, FirstSqueezeIsOneShot, [Next]_vars
               PROVE  FirstSqueezeIsOneShot'
    OBVIOUS
  <2>1. ASSUME ret' = ret, used' = used, input' = input
        PROVE  FirstSqueezeIsOneShot'
    BY <2>1 DEF FirstSqueezeIsOneShot, BlocksFor
  <2>2. ASSUME ~finalized, used' = used
        PROVE  FirstSqueezeIsOneShot'
    <3>1. used' = 0
      BY <2>2 DEF IInv, StreamInv
    <3> QED
      BY <3>1 DEF FirstSqueezeIsOneShot
  <2>3. CASE SqueezeLast
    <3>1. /\ used' = used + BlocksFor(out_len)
          /\ ret' = [k \in 1 .. out_len |-> StreamByte(input, used * RATE + k)]
      BY <2>3, SqueezeResult
    <3>2. out_len \in Nat /\ used \in Nat /\ input \in Seq(Byte) /\ input' = input
      BY <2>3 DEF IInv, TypeOK, SqueezeLast
    <3>3. Len(ret') = out_len
      BY <3>1, <3>2
    <3>4. BlocksFor(out_len) \in Nat
      <4>1. /\ out_len \div RATE \in Nat /\ out_len % RATE \in 0 .. RATE - 1
            /\ out_len = (out_len \div RATE) * RATE + (out_len % RATE)
        BY <3>2, Cut
      <4> QED
        BY <4>1, <3>2, BlocksForCut
    <3>5. SUFFICES ASSUME used' = BlocksFor(out_len)
                   PROVE  ret' = keccak(input, out_len)
      BY <3>2, <3>3 DEF FirstSqueezeIsOneShot, BlocksFor
    <3>6. used = 0
      BY <3>1, <3>2, <3>4, <3>5
    <3>7. ASSUME NEW k \in 1 .. out_len PROVE used * RATE + k = k
      BY <3>6, RateAssumption
    <3>8. ret' = [k \in 1 .. out_len |-> StreamByte(input, k)]
      BY <3>1, <3>7
    <3> QED
      BY <3>2, <3>8, OneShotIsStream
  <2>4. ASSUME NEW data \in Inputs, Absorb(data) \/ AbsorbFinal(data)
        PROVE  FirstSqueezeIsOneShot'
    BY <2>1, <2>4 DEF Absorb, AbsorbFinal, Enter, history
  <2>5. CASE AbsorbBlock
    BY <2>1, <2>5 DEF AbsorbBlock, history
  <2>6. CASE BufferRest
    BY <2>2, <2>6 DEF BufferRest, IInv, CallInv
  <2>7. CASE FinalBlock
    BY <2>2, <2>7 DEF FinalBlock, IInv, CallInv
  <2>8. ASSUME NEW n \in OutLens, Squeeze(n)
        PROVE  FirstSqueezeIsOneShot'
    BY <2>1, <2>8 DEF Squeeze, history
  <2>9. CASE SqueezeBlock
    BY <2>1, <2>9 DEF SqueezeBlock, history
  <2>10. CASE UNCHANGED vars
    BY <2>1, <2>10 DEF vars, history
  <2> QED
    BY <2>3, <2>4, <2>5, <2>6, <2>7, <2>8, <2>9, <2>10 DEF Next
<1> QED
  BY <1>1, <1>2, Invariance, PTL DEF Spec

(***************************************************************************)
(* The unbuffered API's squeezes of three or of five blocks, and one more,   *)
(* give the bytes of the same stream, for every block size and every input.  *)
(***************************************************************************)
THEOREM Unbuffered == Spec => []UnbufferedFollowsStream
<1>1. IInv => UnbufferedFollowsStream
  <2>1. SUFFICES ASSUME input \in Seq(Byte)
                 PROVE  UnbufferedFollowsStream
    BY DEF IInv, TypeOK
  <2>2. ASSUME NEW k \in Nat \ {0}
        PROVE  squeeze_next_block(SqueezeBlocks(Absorbed(input), k)).bytes
                 = [j \in 1 .. (k + 1) * RATE |-> StreamByte(input, j)]
    <3>1. SqueezeBlocks(Absorbed(input), k) = AfterBlocks(input, k)
      BY <2>1, BlocksOfStream
    <3>2. squeeze_next_block(AfterBlocks(input, k)) = AfterBlocks(input, k + 1)
      BY <2>1, FurtherBlock
    <3>3. AfterBlocks(input, k + 1).bytes = [j \in 1 .. (k + 1) * RATE |-> StreamByte(input, j)]
      BY DEF AfterBlocks
    <3> QED
      BY <3>1, <3>2, <3>3, Zenon
  <2>3. /\ 3 \in Nat \ {0} /\ 3 + 1 = 4
        /\ 5 \in Nat \ {0} /\ 5 + 1 = 6
    OBVIOUS
  <2> QED
    BY <2>2, <2>3, Zenon
    DEF UnbufferedFollowsStream, squeeze_first_three_blocks, squeeze_first_five_blocks
<1> QED
  BY <1>1, Invariance, PTL

-----------------------------------------------------------------------------
(* The object implements XofSpec. *)

(* The arguments of the call in progress are the ones it was entered with. *)
ArgInv ==
  /\ pc \in {"absorb", "absorb_final"} => inputs \in Inputs
  /\ pc = "squeeze" => out_len \in OutLens

LEMMA ArgInvariance == Spec => []ArgInv
<1>1. Init => ArgInv
  BY DEF Init, ArgInv
<1>2. ArgInv /\ [Next]_vars => ArgInv'
  BY DEF ArgInv, Next, vars, state, locals, history, Absorb, AbsorbFinal, Enter,
         AbsorbBlock, BufferRest, FinalBlock, Return, Squeeze, SqueezeBlock, SqueezeLast
<1> QED
  BY <1>1, <1>2, PTL DEF Spec

LEMMA SameStream ==
  ASSUME NEW data, NEW k
  PROVE  Xof!StreamByte(data, k) = StreamByte(data, k)
BY DEF StreamByte, StreamState, Absorbed, absorb_final, LoadAndPermute, Block,
       PaddedBlock, SetTopBit, NoBlock,
       Xof!StreamByte, Xof!StreamState, Xof!Absorbed, Xof!absorb_final,
       Xof!LoadAndPermute, Xof!Block, Xof!PaddedBlock, Xof!SetTopBit, Xof!NoBlock

(***************************************************************************)
(* Every behaviour of the buffering object is one of the abstract XOF: a    *)
(* call takes effect, in full, at the step that returns.                    *)
(***************************************************************************)
THEOREM Refinement == Spec => ImplementsXofSpec
<1>1. Init => Xof!Init
  BY DEF Init, Xof!Init
<1>2. IInv /\ ArgInv /\ [Next]_vars => [Xof!Next]_(Xof!vars)
  <2> SUFFICES ASSUME IInv, ArgInv, [Next]_vars
               PROVE  Xof!Next \/ UNCHANGED Xof!vars
    OBVIOUS
  <2>1. ASSUME NEW data \in Inputs, Absorb(data) \/ AbsorbFinal(data)
        PROVE  UNCHANGED Xof!vars
    BY <2>1 DEF Absorb, AbsorbFinal, Enter, history, Xof!vars
  <2>2. CASE AbsorbBlock
    BY <2>2 DEF AbsorbBlock, history, Xof!vars
  <2>3. CASE BufferRest
    <3>1. /\ inputs \in Inputs /\ ~finalized /\ input' = input \o inputs
          /\ finalized' = finalized /\ used' = used /\ ret' = ret
      BY <2>3 DEF BufferRest, ArgInv, IInv, CallInv
    <3>2. Xof!Absorb(inputs)
      BY <3>1 DEF Xof!Absorb
    <3> QED
      BY <3>1, <3>2 DEF Xof!Next
  <2>4. CASE FinalBlock
    <3>1. /\ inputs \in Inputs /\ ~finalized /\ input' = input \o inputs
          /\ finalized' = TRUE /\ used' = used /\ ret' = ret
      BY <2>4 DEF FinalBlock, ArgInv, IInv, CallInv
    <3>2. Xof!AbsorbFinal(inputs)
      BY <3>1 DEF Xof!AbsorbFinal
    <3> QED
      BY <3>1, <3>2 DEF Xof!Next
  <2>5. ASSUME NEW n \in OutLens, Squeeze(n)
        PROVE  UNCHANGED Xof!vars
    BY <2>5 DEF Squeeze, history, Xof!vars
  <2>6. CASE SqueezeBlock
    BY <2>6 DEF SqueezeBlock, history, Xof!vars
  <2>7. CASE SqueezeLast
    <3>1. /\ out_len \in OutLens /\ finalized
          /\ input' = input /\ finalized' = finalized
      BY <2>7 DEF SqueezeLast, ArgInv, IInv, CallInv
    <3>2. /\ used' = used + BlocksFor(out_len)
          /\ ret' = [k \in 1 .. out_len |-> StreamByte(input, used * RATE + k)]
      BY <2>7, SqueezeResult
    <3>3. [k \in 1 .. out_len |-> StreamByte(input, used * RATE + k)]
            = [k \in 1 .. out_len |-> Xof!StreamByte(input, used * RATE + k)]
      BY SameStream
    <3>4. BlocksFor(out_len) = Xof!BlocksFor(out_len)
      BY DEF BlocksFor, Xof!BlocksFor
    <3>5. Xof!Squeeze(out_len)
      BY <3>1, <3>2, <3>3, <3>4 DEF Xof!Squeeze
    <3> QED
      BY <3>1, <3>5 DEF Xof!Next
  <2>8. CASE UNCHANGED vars
    BY <2>8 DEF vars, history, Xof!vars
  <2> QED
    BY <2>1, <2>2, <2>3, <2>4, <2>5, <2>6, <2>7, <2>8 DEF Next
<1> QED
  BY <1>1, <1>2, Invariance, ArgInvariance, PTL DEF Spec, ImplementsXofSpec, Xof!Spec
=============================================================================
