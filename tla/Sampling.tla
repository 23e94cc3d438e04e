------------------------------ MODULE Sampling ------------------------------
(***************************************************************************)
(* The samplers of both schemes and the challenge: a behaviour is one caller  *)
(* of one of them.  Safety is proved at the end for any dimensions and any    *)
(* streams.  For TLC, N, the groups, the lanes and the dimensions are small,  *)
(* in the proportions that make every case happen: an element filled in the   *)
(* middle of a group, of a block and exactly at its end, lanes that are done  *)
(* blocks apart, a last batch that is partial or empty.                       *)
(***************************************************************************)
EXTENDS LaneSampling, Sequences, FiniteSetTheorems, TLAPS

CONSTANTS Lanes, Rows, Columns, Ranks, Length, Ones, FirstBytes, BlockBytes

ASSUME DimensionsAssumption ==
  /\ Lanes \in Nat \ {0}
  /\ Rows \cup Columns \cup Ranks \subseteq Nat \ {0}

ASSUME ChallengeAssumption ==
  /\ {Length, Ones, FirstBytes, BlockBytes} \subseteq Nat \ {0}
  /\ Ones < Length

VARIABLES polynomial, out_index, signs, bits, full_challenge, left, heard, stage
challenge == <<polynomial, out_index, signs, bits, full_challenge, left, heard, stage>>

D == INSTANCE MlDsaSampling
K == INSTANCE MlKemSampling
C == INSTANCE Challenge WITH done <- full_challenge

NoLanes ==
  /\ flow = [kind |-> "challenge"]
  /\ start = 0 /\ block = 0 /\ lane = 0 /\ group = 0 /\ full = FALSE
  /\ tmp = <<>> /\ sampled = <<>> /\ done = <<>> /\ drawn = <<>> /\ matrix = <<>>
  /\ pc = "unused"
NoChallenge ==
  /\ polynomial = <<>> /\ out_index = 0 /\ signs = <<>> /\ bits = <<>> /\ full_challenge = FALSE
  /\ left = 0 /\ heard = <<>> /\ stage = "unused"

Init ==
  \/ D!Init /\ NoChallenge
  \/ K!Init /\ NoChallenge
  \/ C!Init /\ NoLanes

OfMlDsa == flow.kind \in {"matrix", "errors", "element"}
OfMlKem == flow.kind \in {"keypair", "encrypt"}

Next ==
  \/ OfMlDsa /\ D!Next /\ UNCHANGED challenge
  \/ OfMlKem /\ K!Next /\ UNCHANGED challenge
  \/ stage # "unused" /\ C!Next /\ UNCHANGED vars

(* The callers run on. *)
Spec == Init /\ [][Next]_<<vars, challenge>> /\ WF_<<vars, challenge>>(Next)

-----------------------------------------------------------------------------
FirstOf(seed) == [k \in 0 .. N - 1 |-> <<seed, k>>]

(***************************************************************************)
(* Every element sampled is made of the first N candidates that its own       *)
(* seed's stream accepts, in their order: none lost with a block squeezed for *)
(* the other lanes, none left over from the batch before in the same array.   *)
(* Signing's matrix by batches and verification's by elements are the same,   *)
(* and ML-KEM's encryption sees the transpose of key generation's             *)
(* (sample.rs, samplex4.rs, sampling.rs, matrix.rs).                          *)
(***************************************************************************)
FirstAccepted ==
  pc = "finished" =>
    CASE flow.kind = "errors" ->
           matrix = [n \in 0 .. flow.rows + flow.columns - 1 |-> FirstOf(n)]
      [] flow.kind = "keypair" ->
           \A i, j \in 0 .. flow.rows - 1 : matrix[i * flow.rows + j] = FirstOf(<<j, i>>)
      [] OTHER ->
           /\ DOMAIN matrix = 0 .. flow.rows * flow.columns - 1
           /\ \A i \in 0 .. flow.rows - 1, j \in 0 .. flow.columns - 1 :
                matrix[i * flow.columns + j] = FirstOf(<<i, j>>)

(***************************************************************************)
(* A group is read only into the room there is: ML-DSA's arrays have seven    *)
(* places after the 256th, one fewer than a group can fill, and its sampler   *)
(* checks none of its writes; ML-KEM's have sixteen (sample.rs, sampling.rs). *)
(***************************************************************************)
WritesInBounds == \A l \in DOMAIN sampled : sampled[l] < N + Group

(* Where the m-th sign is after n bytes of h: at the index the m-th byte names, *)
(* until a later byte names it and it moves to the position filled then.       *)
Place(h, m) ==
  LET place[n \in 0 .. Ones] ==
        IF n < m THEN Length
        ELSE IF n = m THEN h[m]
        ELSE IF place[n - 1] = h[n] THEN Length - Ones + n - 1
        ELSE place[n - 1]
  IN  place

Places(h, n) == {Place(h, m)[n] : m \in 1 .. n}

(***************************************************************************)
(* The shuffle makes what FIPS 204's SampleInBall makes of the same bytes and *)
(* signs: the n-th byte used is an index of the first Length - Ones + n, the  *)
(* n-th sign goes there, and what was there moves to the end of them, so that *)
(* Ones coefficients are 1 or -1 and all others 0; no byte is used after the  *)
(* last, however the blocks fall (sample.rs).                                 *)
(***************************************************************************)
ChallengeRight ==
  stage = "finished" =>
    /\ Len(heard) = Ones
    /\ \A n \in 1 .. Ones : heard[n] < Length - Ones + n
    /\ Cardinality(Places(heard, Ones)) = Ones
    /\ \A m \in 1 .. Ones : polynomial[Place(heard, m)[Ones]] = 1 - 2 * bits[m]
    /\ \A p \in C!Index \ Places(heard, Ones) : polynomial[p] = 0

(***************************************************************************)
(* As long as streams go on accepting candidates, every lane gets enough of   *)
(* them and sampling ends: no flag or count keeps the loop squeezing blocks   *)
(* that nobody reads.                                                         *)
(***************************************************************************)
SamplingEnds == <>(pc \in {"finished", "unused"})

-----------------------------------------------------------------------------
(***************************************************************************)
(* The inductive invariant.  A lane's array starts with the candidates its    *)
(* count says; every candidate of a lane below N has been read; and a flag,   *)
(* the lane's or the sampler's for the block under way, says that the lane    *)
(* has N.                                                                     *)
(***************************************************************************)
LanesType(width, size) ==
  /\ DOMAIN tmp = 0 .. width - 1
  /\ \A l \in 0 .. width - 1 : DOMAIN tmp[l] = 0 .. size - 1
  /\ sampled \in [0 .. width - 1 -> 0 .. N + Group - 1]
  /\ drawn \in [0 .. width - 1 -> Nat]
  /\ lane \in 0 .. width

StartsWith(array, n, seed) == \A k \in 0 .. N - 1 : k < n => array[k] = <<seed, k>>

Sound(l, seed) ==
  /\ sampled[l] < N => drawn[l] = sampled[l]
  /\ StartsWith(tmp[l], sampled[l], seed)

(* The seed of the n-th element. *)
SeedOf(n) == IF flow.kind = "errors" THEN n ELSE <<n \div flow.columns, n % flow.columns>>

WrittenUpTo(n) == matrix = [m \in 0 .. n - 1 |-> FirstOf(SeedOf(m))]

FlagsRight(width) ==
  /\ full => lane < width /\ ~done[lane]
  /\ \A l \in 0 .. width - 1 : (done[l] \/ (l = lane /\ full)) <=> sampled[l] >= N

MlDsaInv ==
  /\ flow \in [kind : {"matrix", "errors", "element"}, rows : Rows, columns : Columns]
  /\ LanesType(D!Width, D!Size)
  /\ done \in [0 .. D!Width - 1 -> BOOLEAN] /\ full \in BOOLEAN
  /\ start \in 0 .. D!Elements /\ (start = D!Elements => flow.kind = "matrix")
  /\ pc \in {"start", "read", "finished"}
  /\ pc = "read" => FlagsRight(D!Width) /\ \A l \in 0 .. D!Width - 1 : Sound(l, SeedOf(start + l))
  /\ WrittenUpTo(IF pc = "finished" THEN D!Elements ELSE start)

(* The first n rows of key generation's matrix, as columns. *)
RowsWritten(n) ==
  \A i \in 0 .. flow.rows - 1, j \in 0 .. n - 1 :
    /\ i * flow.rows + j \in DOMAIN matrix
    /\ matrix[i * flow.rows + j] = FirstOf(<<j, i>>)

MlKemInv ==
  /\ flow \in [kind : {"keypair", "encrypt"}, rows : Ranks, columns : Ranks]
  /\ flow.columns = flow.rows
  /\ LanesType(K!Width, K!Size)
  /\ pc \in {"start", "read", "finished"}
  /\ pc = "read" => \A l \in 0 .. K!Width - 1 : Sound(l, K!Seed(l))
  /\ flow.kind = "keypair" =>
       /\ start \in 0 .. flow.rows - 1
       /\ RowsWritten(IF pc = "finished" THEN flow.rows ELSE start)
  /\ flow.kind = "encrypt" =>
       /\ start \in 0 .. flow.rows * flow.rows - 1
       /\ WrittenUpTo(IF pc = "finished" THEN flow.rows * flow.rows ELSE start)

(* Where the signs are. *)
At(h) == [m \in 1 .. Len(h) |-> Place(h, m)[Len(h)]]

(* The k signs given are in k places, all before o, and all others are empty. *)
SignsRight(at, k, o, poly) ==
  /\ \A m \in 1 .. k : at[m] \in 0 .. o - 1 /\ poly[at[m]] = 1 - 2 * bits[m]
  /\ \A m, n \in 1 .. k : at[m] = at[n] => m = n
  /\ \A p \in C!Index : (\A m \in 1 .. k : p # at[m]) => poly[p] = 0

ShuffleInv ==
  LET k == Len(heard)
  IN  /\ heard \in Seq(Nat) /\ k <= Ones
      /\ out_index = Length - Ones + k
      /\ full_challenge <=> k = Ones
      /\ stage = "finished" => k = Ones
      /\ bits \in [1 .. Ones -> {0, 1}]
      /\ signs \in Seq({0, 1}) /\ Len(signs) = Ones - k
      /\ \A m \in 1 .. Ones - k : signs[m] = bits[k + m]
      /\ DOMAIN polynomial = C!Index
      /\ \A n \in 1 .. k : heard[n] < Length - Ones + n
      /\ SignsRight(At(heard), k, Length - Ones + k, polynomial)

IInv ==
  \/ flow.kind \in {"matrix", "errors", "element"} /\ stage = "unused" /\ MlDsaInv
  \/ flow.kind \in {"keypair", "encrypt"} /\ stage = "unused" /\ MlKemInv
  \/ /\ flow.kind = "challenge" /\ stage \in {"shuffle", "finished"} /\ ShuffleInv
     /\ pc = "unused" /\ sampled = <<>>

-----------------------------------------------------------------------------
(* Arithmetic of the dimensions. *)
LEMMA Product ==
  ASSUME NEW a \in Nat \ {0}, NEW b \in Nat \ {0}
  PROVE  a * b \in Nat \ {0}
BY SMT

LEMMA ProductGrows ==
  ASSUME NEW a \in Nat, NEW b \in Nat, NEW c \in Nat \ {0}, a < b
  PROVE  /\ a * c \in Nat /\ b * c \in Nat
         /\ a * c + c <= b * c
<1>1. b >= a + 1
  OBVIOUS
<1>2. (a + 1) * c = a * c + c
  BY SMT
<1>3. (a + 1) * c <= b * c
  BY <1>1, SMT
<1> QED
  BY <1>2, <1>3, SMT

(* An element's row and column are those it was numbered by. *)
LEMMA RowMajor ==
  ASSUME NEW c \in Nat \ {0}, NEW i \in Nat, NEW j \in 0 .. c - 1
  PROVE  (i * c + j) \div c = i /\ (i * c + j) % c = j
<1> DEFINE a == i * c + j
           q == a \div c
           r == a % c
<1>1. a \in Nat /\ i * c \in Nat
  BY SMT
<1>2. q \in Nat /\ r \in 0 .. c - 1 /\ a = q * c + r
  BY <1>1, SMT
<1>3. ~(i < q)
  BY <1>1, <1>2, ProductGrows
<1>4. ~(q < i)
  BY <1>1, <1>2, ProductGrows
<1>5. q = i
  BY <1>2, <1>3, <1>4
<1> QED
  BY <1>1, <1>2, <1>5

LEMMA InRows ==
  ASSUME NEW c \in Nat \ {0}, NEW rows \in Nat, NEW i \in 0 .. rows - 1, NEW j \in 0 .. c - 1
  PROVE  i * c + j \in 0 .. rows * c - 1
BY ProductGrows

LEMMA SamePlace ==
  ASSUME NEW c \in Nat \ {0}, NEW i \in Nat, NEW j \in 0 .. c - 1,
         NEW i2 \in Nat, NEW j2 \in 0 .. c - 1, i * c + j = i2 * c + j2
  PROVE  i = i2 /\ j = j2
BY RowMajor

(* n more candidates, all those after the ones in the array. *)
LEMMA AppendedRight ==
  ASSUME NEW array, NEW size \in Nat, NEW seed, NEW n0 \in 0 .. N - 1, NEW n \in 0 .. Group,
         DOMAIN array = 0 .. size - 1, N <= size,
         StartsWith(array, n0, seed)
  PROVE  /\ DOMAIN Appended(array, n0, seed, n0, n) = 0 .. size - 1
         /\ StartsWith(Appended(array, n0, seed, n0, n), n0 + n, seed)
<1>1. DOMAIN Appended(array, n0, seed, n0, n) = 0 .. size - 1
  BY DEF Appended
<1>2. ASSUME NEW k \in 0 .. N - 1, k < n0 + n
      PROVE  Appended(array, n0, seed, n0, n)[k] = <<seed, k>>
  <2>1. k \in 0 .. size - 1
    BY SamplingAssumption
  <2>2. Appended(array, n0, seed, n0, n)[k]
          = IF k \in n0 .. n0 + n - 1 THEN <<seed, n0 + k - n0>> ELSE array[k]
    BY <2>1 DEF Appended
  <2>3. n0 + k - n0 = k
    BY SamplingAssumption
  <2> QED
    BY <1>2, <2>2, <2>3, SamplingAssumption, SMTT(30) DEF StartsWith
<1> QED
  BY <1>1, <1>2 DEF StartsWith

LEMMA AdvancedRight ==
  ASSUME NEW n \in Nat, NEW m \in Nat
  PROVE  /\ Advanced(n, m) \in Nat
         /\ n + m < N + Group => Advanced(n, m) = n + m
BY SamplingAssumption DEF Advanced

LEMMA Counts ==
  ASSUME NEW width \in Nat, NEW size, LanesType(width, size), NEW l \in 0 .. width - 1
  PROVE  sampled[l] \in Nat /\ sampled[l] < N + Group /\ drawn[l] \in Nat
<1>1. sampled[l] \in 0 .. N + Group - 1 /\ drawn[l] \in Nat
  BY DEF LanesType
<1> QED
  BY <1>1, SamplingAssumption

LEMMA ElementRight ==
  ASSUME NEW l, NEW seed, Sound(l, seed), sampled[l] >= N, sampled[l] \in Nat
  PROVE  Element(tmp[l]) = FirstOf(seed)
<1>1. \A k \in 0 .. N - 1 : tmp[l][k] = <<seed, k>>
  BY SamplingAssumption DEF Sound, StartsWith
<1> QED
  BY <1>1 DEF Element, FirstOf

(***************************************************************************)
(* One group read into one lane: the lane stays sound, the others are as     *)
(* they were.                                                                *)
(***************************************************************************)
LEMMA ReadRight ==
  ASSUME NEW width \in Nat, NEW size \in Nat, N <= size, LanesType(width, size),
         lane < width, sampled[lane] < N, NEW seed, Sound(lane, seed), NEW n \in 0 .. Group,
         tmp' = [tmp EXCEPT ![lane] = Appended(@, sampled[lane], seed, drawn[lane], n)],
         sampled' = [sampled EXCEPT ![lane] = @ + n],
         drawn' = [drawn EXCEPT ![lane] = Advanced(@, n)],
         lane' = lane
  PROVE  /\ LanesType(width, size)'
         /\ Sound(lane, seed)'
         /\ sampled'[lane] = sampled[lane] + n
         /\ \A l \in 0 .. width - 1 : l # lane =>
              tmp'[l] = tmp[l] /\ sampled'[l] = sampled[l] /\ drawn'[l] = drawn[l]
<1>1. /\ lane \in 0 .. width - 1 /\ sampled[lane] \in 0 .. N - 1
      /\ sampled \in [0 .. width - 1 -> 0 .. N + Group - 1]
      /\ drawn \in [0 .. width - 1 -> Nat] /\ DOMAIN tmp = 0 .. width - 1
      /\ \A l \in 0 .. width - 1 : DOMAIN tmp[l] = 0 .. size - 1
  BY SamplingAssumption, SMTT(30) DEF LanesType
<1>2. drawn[lane] = sampled[lane] /\ StartsWith(tmp[lane], sampled[lane], seed)
  BY DEF Sound
<1> DEFINE new == Appended(tmp[lane], sampled[lane], seed, sampled[lane], n)
<1>3. /\ DOMAIN new = 0 .. size - 1
      /\ StartsWith(new, sampled[lane] + n, seed)
  <2>1. DOMAIN tmp[lane] = 0 .. size - 1 /\ sampled[lane] \in 0 .. N - 1
    BY <1>1
  <2> QED
    BY <2>1, <1>2, AppendedRight
<1>4. /\ DOMAIN tmp' = 0 .. width - 1 /\ tmp'[lane] = new
      /\ \A l \in 0 .. width - 1 : l # lane => tmp'[l] = tmp[l]
  BY <1>1, <1>2
<1> HIDE DEF new
<1>5. /\ sampled'[lane] = sampled[lane] + n /\ sampled[lane] + n \in 0 .. N + Group - 1
      /\ \A l \in 0 .. width - 1 : l # lane => sampled'[l] = sampled[l]
      /\ sampled' \in [0 .. width - 1 -> 0 .. N + Group - 1]
  <2>1. sampled[lane] + n \in 0 .. N + Group - 1
    BY <1>1, SamplingAssumption, SMTT(30)
  <2>2. sampled[lane] \in Nat /\ DOMAIN sampled = 0 .. width - 1
    BY <1>1
  <2> HIDE DEF new
  <2> QED
    BY <1>1, <2>1, <2>2
<1>6. /\ drawn'[lane] = sampled[lane] + n
      /\ \A l \in 0 .. width - 1 : l # lane => drawn'[l] = drawn[l]
      /\ drawn' \in [0 .. width - 1 -> Nat]
  <2>1. Advanced(drawn[lane], n) = sampled[lane] + n /\ sampled[lane] + n \in Nat
    <3>1. drawn[lane] \in Nat /\ n \in Nat /\ drawn[lane] + n < N + Group
      BY <1>1, <1>2, SamplingAssumption, SMTT(30)
    <3>2. Advanced(drawn[lane], n) = drawn[lane] + n
      BY <3>1, AdvancedRight, Zenon
    <3> QED
      BY <1>2, <3>1, <3>2
  <2> QED
    BY <1>1, <2>1
<1>7. LanesType(width, size)'
  BY <1>1, <1>3, <1>4, <1>5, <1>6 DEF LanesType
<1>8. Sound(lane, seed)'
  BY <1>3, <1>4, <1>5, <1>6 DEF Sound
<1> QED
  BY <1>4, <1>5, <1>6, <1>7, <1>8

-----------------------------------------------------------------------------
(* ML-DSA. *)
LEMMA MlDsaSizes ==
  ASSUME MlDsaInv
  PROVE  /\ D!Width \in Nat \ {0} /\ D!Elements \in Nat \ {0}
         /\ D!Size \in Nat /\ N <= D!Size
         /\ flow.rows \in Nat \ {0} /\ flow.columns \in Nat \ {0}
<1>1. flow.rows \in Nat \ {0} /\ flow.columns \in Nat \ {0}
  BY DimensionsAssumption DEF MlDsaInv
<1>2. flow.rows * flow.columns \in Nat \ {0}
  BY <1>1, Product
<1>3. D!Width \in Nat \ {0} /\ D!Elements \in Nat \ {0}
  BY <1>1, <1>2, DimensionsAssumption DEF D!Width, D!Elements
<1>4. D!Size \in Nat /\ N <= D!Size
  BY SamplingAssumption DEF D!Size
<1> QED
  BY <1>1, <1>3, <1>4

LEMMA MlDsaSeed ==
  ASSUME NEW l
  PROVE  D!Seed(l) = SeedOf(start + l)
BY DEF D!Seed, D!xy, SeedOf

(* What follows from the dimensions alone does not change. *)
LEMMA MlDsaSame ==
  ASSUME flow' = flow
  PROVE  /\ D!Width' = D!Width /\ D!Elements' = D!Elements /\ D!Size' = D!Size
         /\ \A n : SeedOf(n)' = SeedOf(n)
BY DEF D!Width, D!Elements, D!Size, SeedOf

LEMMA MlDsaInit == D!Init => MlDsaInv
<1> SUFFICES ASSUME D!Init PROVE MlDsaInv
  OBVIOUS
<1>1. flow \in [kind : {"matrix", "errors", "element"}, rows : Rows, columns : Columns]
  BY DEF D!Init
<1>2. flow.rows \in Nat \ {0} /\ flow.columns \in Nat \ {0}
  BY <1>1, DimensionsAssumption
<1>3. D!Width \in Nat \ {0} /\ D!Elements \in Nat \ {0}
  BY <1>2, Product, DimensionsAssumption DEF D!Width, D!Elements
<1>4. LanesType(D!Width, D!Size)
  BY <1>3, SamplingAssumption DEF D!Init, LanesType, D!Zeros
<1>5. matrix = [m \in 0 .. 0 - 1 |-> FirstOf(SeedOf(m))]
  BY DEF D!Init
<1>6. start = 0 /\ pc = "start" /\ full = FALSE /\ done = [l \in 0 .. D!Width - 1 |-> FALSE]
  BY DEF D!Init
<1>7. WrittenUpTo(IF pc = "finished" THEN D!Elements ELSE start)
  BY <1>5, <1>6 DEF WrittenUpTo
<1>8. /\ start \in 0 .. D!Elements /\ start # D!Elements
      /\ done \in [0 .. D!Width - 1 -> BOOLEAN] /\ full \in BOOLEAN
  <2>1. start \in 0 .. D!Elements /\ start # D!Elements
    BY <1>3, <1>6
  <2>2. done \in [0 .. D!Width - 1 -> BOOLEAN] /\ full \in BOOLEAN
    BY <1>6
  <2> QED
    BY <2>1, <2>2
<1> QED
  BY <1>1, <1>4, <1>6, <1>7, <1>8, Zenon DEF MlDsaInv

LEMMA MlDsaStart ==
  ASSUME MlDsaInv, D!StartBatch
  PROVE  MlDsaInv'
<1>1. /\ flow' = flow /\ start' = start /\ matrix' = matrix
      /\ pc = "start" /\ pc' = "read" /\ lane' = 0 /\ full' = FALSE
      /\ sampled' = [l \in DOMAIN tmp |-> 0] /\ done' = [l \in DOMAIN tmp |-> FALSE]
      /\ drawn' = sampled'
      /\ tmp' = IF flow.kind = "errors" THEN [l \in DOMAIN tmp |-> D!Zeros(D!Size)] ELSE tmp
  BY DEF D!StartBatch
<1>2. /\ DOMAIN tmp = 0 .. D!Width - 1
      /\ \A l \in 0 .. D!Width - 1 : DOMAIN tmp[l] = 0 .. D!Size - 1
  BY DEF MlDsaInv, LanesType
<1>3. DOMAIN D!Zeros(D!Size) = 0 .. D!Size - 1
  BY DEF D!Zeros
<1>4. LanesType(D!Width, D!Size)'
  BY <1>1, <1>2, <1>3, MlDsaSizes, MlDsaSame, SamplingAssumption, SMTT(30) DEF LanesType
<1>5. FlagsRight(D!Width)' /\ \A l \in 0 .. D!Width' - 1 : Sound(l, SeedOf(start + l))'
  BY <1>1, <1>2, MlDsaSizes, MlDsaSame, SamplingAssumption DEF FlagsRight, Sound, StartsWith
<1>6. done' \in [0 .. D!Width' - 1 -> BOOLEAN] /\ full' \in BOOLEAN
  BY <1>1, <1>2, MlDsaSame
<1>7. WrittenUpTo(start)'
  BY <1>1, MlDsaSame DEF MlDsaInv, WrittenUpTo
<1> QED
  BY <1>1, <1>4, <1>5, <1>6, <1>7, MlDsaSame DEF MlDsaInv

(* A step of the reading loop keeps the invariant when the lanes stay right. *)
LEMMA MlDsaReads ==
  ASSUME MlDsaInv, pc = "read", pc' = "read",
         flow' = flow, start' = start, matrix' = matrix,
         LanesType(D!Width, D!Size)', FlagsRight(D!Width)',
         done' \in [0 .. D!Width - 1 -> BOOLEAN], full' \in BOOLEAN,
         \A l \in 0 .. D!Width - 1 : Sound(l, SeedOf(start + l))'
  PROVE  MlDsaInv'
<1>1. WrittenUpTo(start)'
  BY MlDsaSame DEF MlDsaInv, WrittenUpTo
<1> QED
  BY <1>1, MlDsaSame DEF MlDsaInv

LEMMA MlDsaRead ==
  ASSUME MlDsaInv, D!ReadGroup
  PROVE  MlDsaInv'
<1>1. /\ pc = "read" /\ lane < D!Width /\ ~done[lane] /\ ~full
      /\ flow' = flow /\ start' = start /\ matrix' = matrix /\ pc' = pc
      /\ lane' = lane /\ done' = done /\ full' = (sampled'[lane] >= N)
  BY DEF D!ReadGroup, D!Full
<1>2. PICK n \in 0 .. Group :
        /\ tmp' = [tmp EXCEPT ![lane] = Appended(@, sampled[lane], SeedOf(start + lane), drawn[lane], n)]
        /\ sampled' = [sampled EXCEPT ![lane] = @ + n]
        /\ drawn' = [drawn EXCEPT ![lane] = Advanced(@, n)]
  BY MlDsaSeed DEF D!ReadGroup, D!Accepted, D!Appended, D!Advanced, Appended, Advanced
<1>3. /\ LanesType(D!Width, D!Size) /\ FlagsRight(D!Width) /\ done \in [0 .. D!Width - 1 -> BOOLEAN]
      /\ \A l \in 0 .. D!Width - 1 : Sound(l, SeedOf(start + l))
  BY <1>1 DEF MlDsaInv
<1>4. lane \in 0 .. D!Width - 1 /\ sampled[lane] < N /\ Sound(lane, SeedOf(start + lane))
  <2>1. lane \in 0 .. D!Width - 1 /\ sampled[lane] \in 0 .. N + Group - 1
    BY <1>1, <1>3, MlDsaSizes DEF LanesType
  <2>2. ~(sampled[lane] >= N)
    BY <1>1, <1>3, <2>1 DEF FlagsRight
  <2> QED
    BY <1>3, <2>1, <2>2, SamplingAssumption
<1>5. /\ LanesType(D!Width, D!Size)' /\ Sound(lane, SeedOf(start + lane))'
      /\ sampled'[lane] = sampled[lane] + n
      /\ \A l \in 0 .. D!Width - 1 : l # lane =>
           tmp'[l] = tmp[l] /\ sampled'[l] = sampled[l] /\ drawn'[l] = drawn[l]
  BY <1>1, <1>2, <1>3, <1>4, MlDsaSizes, MlDsaSame, ReadRight
<1>6. FlagsRight(D!Width)'
  BY <1>1, <1>3, <1>4, <1>5, MlDsaSame DEF FlagsRight
<1>7. \A l \in 0 .. D!Width - 1 : Sound(l, SeedOf(start + l))'
  BY <1>1, <1>3, <1>5, MlDsaSame DEF Sound
<1> QED
  BY <1>1, <1>3, <1>5, <1>6, <1>7, MlDsaReads

LEMMA MlDsaSkipGroup ==
  ASSUME MlDsaInv, D!SkipGroup
  PROVE  MlDsaInv'
<1>1. /\ pc = "read" /\ lane < D!Width /\ full
      /\ flow' = flow /\ start' = start /\ matrix' = matrix /\ pc' = pc
      /\ lane' = lane /\ done' = done /\ full' = full /\ sampled' = sampled /\ tmp' = tmp
      /\ drawn' = [drawn EXCEPT ![lane] = Advanced(@, Group)]
  BY DEF D!SkipGroup, D!Advanced, Advanced
<1>2. /\ LanesType(D!Width, D!Size) /\ FlagsRight(D!Width)
      /\ done \in [0 .. D!Width - 1 -> BOOLEAN] /\ full \in BOOLEAN
      /\ \A l \in 0 .. D!Width - 1 : Sound(l, SeedOf(start + l))
  BY <1>1 DEF MlDsaInv
<1>3. lane \in 0 .. D!Width - 1 /\ sampled[lane] >= N /\ sampled[lane] \in Nat
  <2>1. lane \in 0 .. D!Width - 1
    BY <1>1, <1>2, MlDsaSizes DEF LanesType
  <2> QED
    BY <1>1, <1>2, <2>1, MlDsaSizes, Counts DEF FlagsRight
<1>4. /\ drawn' \in [0 .. D!Width - 1 -> Nat]
      /\ \A l \in 0 .. D!Width - 1 : l # lane => drawn'[l] = drawn[l]
  <2>1. drawn \in [0 .. D!Width - 1 -> Nat] /\ drawn[lane] \in Nat
    BY <1>2, <1>3 DEF LanesType
  <2>2. Advanced(drawn[lane], Group) \in Nat
    BY <2>1, AdvancedRight, SamplingAssumption
  <2> QED
    BY <1>1, <1>3, <2>1, <2>2
<1>5. LanesType(D!Width, D!Size)' /\ FlagsRight(D!Width)'
  BY <1>1, <1>2, <1>4, MlDsaSame DEF LanesType, FlagsRight
<1>6. \A l \in 0 .. D!Width - 1 : Sound(l, SeedOf(start + l))'
  BY <1>1, <1>2, <1>3, <1>4, MlDsaSame, SamplingAssumption DEF Sound
<1> QED
  BY <1>1, <1>2, <1>5, <1>6, MlDsaReads

LEMMA MlDsaEndOfBlock ==
  ASSUME MlDsaInv, D!EndOfBlock
  PROVE  MlDsaInv'
<1>1. /\ pc = "read" /\ lane < D!Width /\ ~done[lane]
      /\ flow' = flow /\ start' = start /\ matrix' = matrix /\ pc' = pc
      /\ sampled' = sampled /\ tmp' = tmp /\ drawn' = drawn
      /\ lane' = lane + 1 /\ full' = FALSE /\ done' = [done EXCEPT ![lane] = full]
  BY DEF D!EndOfBlock
<1>2. /\ LanesType(D!Width, D!Size) /\ FlagsRight(D!Width)
      /\ done \in [0 .. D!Width - 1 -> BOOLEAN] /\ full \in BOOLEAN
      /\ \A l \in 0 .. D!Width - 1 : Sound(l, SeedOf(start + l))
  BY <1>1 DEF MlDsaInv
<1>3. lane \in 0 .. D!Width - 1
  BY <1>1, <1>2, MlDsaSizes DEF LanesType
<1>4. done' \in [0 .. D!Width - 1 -> BOOLEAN]
  BY <1>1, <1>2
<1>5. LanesType(D!Width, D!Size)'
  BY <1>1, <1>2, <1>3, MlDsaSizes, MlDsaSame DEF LanesType
<1>6. FlagsRight(D!Width)'
  BY <1>1, <1>2, <1>3, MlDsaSame DEF FlagsRight
<1>7. \A l \in 0 .. D!Width - 1 : Sound(l, SeedOf(start + l))'
  BY <1>1, <1>2, MlDsaSame DEF Sound
<1> QED
  BY <1>1, <1>4, <1>5, <1>6, <1>7, MlDsaReads

LEMMA MlDsaSkipLane ==
  ASSUME MlDsaInv, D!SkipLane
  PROVE  MlDsaInv'
<1>1. /\ pc = "read" /\ lane < D!Width /\ done[lane]
      /\ flow' = flow /\ start' = start /\ matrix' = matrix /\ pc' = pc
      /\ sampled' = sampled /\ tmp' = tmp /\ done' = done /\ full' = full /\ lane' = lane + 1
      /\ drawn' = [drawn EXCEPT ![lane] = Advanced(@, D!Groups * Group)]
  BY DEF D!SkipLane, D!Advanced, Advanced
<1>2. /\ LanesType(D!Width, D!Size) /\ FlagsRight(D!Width)
      /\ done \in [0 .. D!Width - 1 -> BOOLEAN] /\ full \in BOOLEAN
      /\ \A l \in 0 .. D!Width - 1 : Sound(l, SeedOf(start + l))
  BY <1>1 DEF MlDsaInv
<1>3. /\ lane \in 0 .. D!Width - 1 /\ sampled[lane] >= N /\ sampled[lane] \in Nat
      /\ full' = FALSE
  BY <1>1, <1>2, MlDsaSizes, SamplingAssumption DEF LanesType, FlagsRight
<1>4. /\ drawn' \in [0 .. D!Width - 1 -> Nat]
      /\ \A l \in 0 .. D!Width - 1 : l # lane => drawn'[l] = drawn[l]
  <2>1. drawn \in [0 .. D!Width - 1 -> Nat] /\ drawn[lane] \in Nat
    BY <1>2, <1>3 DEF LanesType
  <2>2. D!Groups * Group \in Nat
    BY Product, SamplingAssumption DEF D!Groups
  <2>3. Advanced(drawn[lane], D!Groups * Group) \in Nat
    BY <2>1, <2>2, AdvancedRight
  <2> QED
    BY <1>1, <1>3, <2>1, <2>3
<1>5. LanesType(D!Width, D!Size)'
  BY <1>1, <1>2, <1>3, <1>4, MlDsaSizes, MlDsaSame, SMTT(30) DEF LanesType
<1>6. FlagsRight(D!Width)'
  BY <1>1, <1>2, <1>3, MlDsaSame DEF FlagsRight
<1>7. \A l \in 0 .. D!Width - 1 : Sound(l, SeedOf(start + l))'
  BY <1>1, <1>2, <1>3, <1>4, MlDsaSame, SamplingAssumption DEF Sound
<1> QED
  BY <1>1, <1>2, <1>5, <1>6, <1>7, MlDsaReads

LEMMA MlDsaSqueeze ==
  ASSUME MlDsaInv, D!SqueezeNext
  PROVE  MlDsaInv'
<1>1. /\ pc = "read" /\ lane = D!Width
      /\ flow' = flow /\ start' = start /\ matrix' = matrix /\ pc' = pc
      /\ sampled' = sampled /\ tmp' = tmp /\ done' = done /\ full' = full /\ drawn' = drawn
      /\ lane' = 0
  BY DEF D!SqueezeNext
<1>2. /\ LanesType(D!Width, D!Size) /\ FlagsRight(D!Width)
      /\ done \in [0 .. D!Width - 1 -> BOOLEAN] /\ full \in BOOLEAN
      /\ \A l \in 0 .. D!Width - 1 : Sound(l, SeedOf(start + l))
  BY <1>1 DEF MlDsaInv
<1>3. full' = FALSE
  BY <1>1, <1>2, MlDsaSizes DEF FlagsRight
<1>4. LanesType(D!Width, D!Size)'
  BY <1>1, <1>2, MlDsaSizes, MlDsaSame DEF LanesType
<1>5. FlagsRight(D!Width)'
  BY <1>1, <1>2, <1>3, MlDsaSizes, MlDsaSame DEF FlagsRight
<1>6. \A l \in 0 .. D!Width - 1 : Sound(l, SeedOf(start + l))'
  BY <1>1, <1>2, MlDsaSame DEF Sound
<1> QED
  BY <1>1, <1>2, <1>4, <1>5, <1>6, MlDsaReads

LEMMA MlDsaWrite ==
  ASSUME MlDsaInv, D!WriteElements
  PROVE  MlDsaInv'
<1>1. /\ pc = "read" /\ lane = D!Width /\ \A l \in DOMAIN done : done[l]
      /\ flow' = flow /\ lane' = lane
      /\ sampled' = sampled /\ tmp' = tmp /\ done' = done /\ full' = full /\ drawn' = drawn
      /\ matrix' = [n \in DOMAIN matrix \cup (start .. start + D!Requested - 1) |->
                      IF n < start THEN matrix[n] ELSE D!Element(tmp[n - start])]
      /\ IF D!More THEN start' = start + D!Width /\ pc' = "start"
                   ELSE pc' = "finished" /\ start' = start
  BY DEF D!WriteElements, D!AllDone
<1>2. /\ LanesType(D!Width, D!Size) /\ FlagsRight(D!Width)
      /\ done \in [0 .. D!Width - 1 -> BOOLEAN] /\ full \in BOOLEAN
      /\ \A l \in 0 .. D!Width - 1 : Sound(l, SeedOf(start + l))
      /\ start \in 0 .. D!Elements /\ (start = D!Elements => flow.kind = "matrix")
      /\ matrix = [m \in 0 .. start - 1 |-> FirstOf(SeedOf(m))]
  BY <1>1 DEF MlDsaInv, WrittenUpTo
<1>3. ASSUME NEW l \in 0 .. D!Width - 1
      PROVE  D!Element(tmp[l]) = FirstOf(SeedOf(start + l))
  <2>1. done[l] /\ sampled[l] \in Nat
    <3>1. DOMAIN done = 0 .. D!Width - 1
      BY <1>2
    <3> QED
      BY <1>1, <1>2, <3>1, MlDsaSizes, Counts
  <2>2. sampled[l] >= N /\ Sound(l, SeedOf(start + l))
    BY <1>2, <2>1 DEF FlagsRight
  <2>3. D!Element(tmp[l]) = Element(tmp[l])
    BY DEF D!Element, Element
  <2> QED
    BY <2>1, <2>2, <2>3, ElementRight
<1> DEFINE end == start + D!Requested
<1>4. /\ end \in start .. D!Elements /\ end <= start + D!Width
      /\ D!More => start' = end /\ (start' = D!Elements => flow.kind = "matrix")
      /\ ~D!More => end = D!Elements
  BY <1>1, <1>2, MlDsaSizes DEF D!Requested, D!More
<1>5. matrix' = [m \in 0 .. end - 1 |-> FirstOf(SeedOf(m))]
  <2>1. (0 .. start - 1) \cup (start .. end - 1) = 0 .. end - 1
    BY <1>2, <1>4
  <2>2. ASSUME NEW n \in 0 .. end - 1
        PROVE  (IF n < start THEN matrix[n] ELSE D!Element(tmp[n - start])) = FirstOf(SeedOf(n))
    <3>1. CASE n < start
      BY <3>1, <1>2
    <3>2. CASE ~(n < start)
      <4>1. n - start \in 0 .. D!Width - 1 /\ start + (n - start) = n
        BY <1>2, <1>4, <3>2, MlDsaSizes
      <4> QED
        BY <1>3, <3>2, <4>1
    <3> QED
      BY <3>1, <3>2
  <2>3. DOMAIN matrix \cup (start .. start + D!Requested - 1) = 0 .. end - 1
    <3>1. DOMAIN matrix = 0 .. start - 1
      BY <1>2
    <3>2. start .. start + D!Requested - 1 = start .. end - 1
      BY <1>2, MlDsaSizes DEF D!Requested
    <3> HIDE DEF end
    <3> QED
      BY <2>1, <3>1, <3>2
  <2>4. matrix' = [n \in 0 .. end - 1 |-> IF n < start THEN matrix[n] ELSE D!Element(tmp[n - start])]
    BY <1>1, <2>3
  <2> HIDE DEF end
  <2> QED
    BY <2>2, <2>4
<1>6. WrittenUpTo(IF pc = "finished" THEN D!Elements ELSE start)'
  BY <1>1, <1>4, <1>5, MlDsaSame DEF WrittenUpTo
<1>7. /\ start' \in 0 .. D!Elements /\ (start' = D!Elements => flow.kind = "matrix")
      /\ pc' \in {"start", "finished"}
  BY <1>1, <1>2, <1>4, MlDsaSizes
<1>8. LanesType(D!Width, D!Size)'
  BY <1>1, <1>2, MlDsaSame DEF LanesType
<1> QED
  BY <1>1, <1>2, <1>6, <1>7, <1>8, MlDsaSame DEF MlDsaInv

LEMMA MlDsaStep ==
  ASSUME MlDsaInv, D!Next
  PROVE  MlDsaInv' /\ flow' = flow
<1>1. CASE D!StartBatch
  BY <1>1, MlDsaStart DEF D!StartBatch
<1>2. CASE D!ReadGroup
  BY <1>2, MlDsaRead DEF D!ReadGroup
<1>3. CASE D!SkipGroup
  BY <1>3, MlDsaSkipGroup DEF D!SkipGroup
<1>4. CASE D!EndOfBlock
  BY <1>4, MlDsaEndOfBlock DEF D!EndOfBlock
<1>5. CASE D!SkipLane
  BY <1>5, MlDsaSkipLane DEF D!SkipLane
<1>6. CASE D!SqueezeNext
  BY <1>6, MlDsaSqueeze DEF D!SqueezeNext
<1>7. CASE D!WriteElements
  BY <1>7, MlDsaWrite DEF D!WriteElements
<1> QED
  BY <1>1, <1>2, <1>3, <1>4, <1>5, <1>6, <1>7 DEF D!Next

-----------------------------------------------------------------------------
(* ML-KEM. *)
LEMMA MlKemSizes ==
  ASSUME MlKemInv
  PROVE  /\ K!Width \in Nat \ {0} /\ flow.rows \in Nat \ {0} /\ flow.columns = flow.rows
         /\ flow.rows * flow.rows \in Nat \ {0}
         /\ K!Size \in Nat /\ N <= K!Size
<1>1. flow.rows \in Nat \ {0} /\ flow.columns = flow.rows
  BY DimensionsAssumption DEF MlKemInv
<1>2. flow.rows * flow.rows \in Nat \ {0}
  BY <1>1, Product
<1>3. K!Width \in Nat \ {0}
  BY <1>1 DEF K!Width, K!K
<1>4. K!Size \in Nat /\ N <= K!Size
  BY SamplingAssumption DEF K!Size
<1> QED
  BY <1>1, <1>2, <1>3, <1>4

LEMMA MlKemSame ==
  ASSUME flow' = flow
  PROVE  /\ K!Width' = K!Width /\ K!Size' = K!Size
         /\ \A n : SeedOf(n)' = SeedOf(n)
         /\ start' = start => \A l : K!Seed(l)' = K!Seed(l)
BY DEF K!Width, K!K, K!Size, SeedOf, K!Seed

LEMMA MlKemInit == K!Init => MlKemInv
<1> SUFFICES ASSUME K!Init PROVE MlKemInv
  OBVIOUS
<1>1. /\ flow \in [kind : {"keypair", "encrypt"}, rows : Ranks, columns : Ranks]
      /\ flow.columns = flow.rows
  BY DEF K!Init
<1>2. flow.rows \in Nat \ {0} /\ flow.rows * flow.rows \in Nat \ {0}
  BY <1>1, DimensionsAssumption, Product
<1>3. K!Width \in Nat \ {0}
  BY <1>2 DEF K!Width, K!K
<1>4. LanesType(K!Width, K!Size)
  BY <1>3, SamplingAssumption DEF K!Init, LanesType, K!Zeros
<1>5. start = 0 /\ pc = "start" /\ matrix = [n \in {} |-> 0]
  BY DEF K!Init
<1>6. WrittenUpTo(0)
  BY <1>5 DEF WrittenUpTo
<1>7. RowsWritten(0)
  BY DEF RowsWritten
<1>8. start \in 0 .. flow.rows - 1 /\ start \in 0 .. flow.rows * flow.rows - 1
  BY <1>2, <1>5
<1>9. /\ (IF pc = "finished" THEN flow.rows ELSE start) = 0
      /\ (IF pc = "finished" THEN flow.rows * flow.rows ELSE start) = 0
      /\ pc \in {"start", "read", "finished"} /\ pc # "read"
  BY <1>5
<1> QED
  BY <1>1, <1>4, <1>6, <1>7, <1>8, <1>9, Zenon DEF MlKemInv

LEMMA MlKemStart ==
  ASSUME MlKemInv, K!StartBatch
  PROVE  MlKemInv'
<1>1. /\ flow' = flow /\ start' = start /\ matrix' = matrix
      /\ pc = "start" /\ pc' = "read" /\ lane' = 0
      /\ sampled' = [l \in DOMAIN tmp |-> 0]
      /\ drawn' = sampled'
      /\ tmp' = [l \in DOMAIN tmp |-> K!Zeros(K!Size)]
  BY DEF K!StartBatch
<1>2. DOMAIN tmp = 0 .. K!Width - 1
  BY DEF MlKemInv, LanesType
<1>3. DOMAIN K!Zeros(K!Size) = 0 .. K!Size - 1
  BY DEF K!Zeros
<1>4. LanesType(K!Width, K!Size)'
  BY <1>1, <1>2, <1>3, MlKemSizes, MlKemSame, SamplingAssumption DEF LanesType
<1>5. \A l \in 0 .. K!Width' - 1 : Sound(l, K!Seed(l))'
  BY <1>1, <1>2, MlKemSizes, MlKemSame, SamplingAssumption DEF Sound, StartsWith
<1>6. (WrittenUpTo(start) => WrittenUpTo(start)') /\ (RowsWritten(start) => RowsWritten(start)')
  BY <1>1, MlKemSame DEF WrittenUpTo, RowsWritten
<1> QED
  BY <1>1, <1>4, <1>5, <1>6, MlKemSame DEF MlKemInv

LEMMA MlKemReads ==
  ASSUME MlKemInv, pc = "read", pc' = "read",
         flow' = flow, start' = start, matrix' = matrix,
         LanesType(K!Width, K!Size)',
         \A l \in 0 .. K!Width - 1 : Sound(l, K!Seed(l))'
  PROVE  MlKemInv'
<1>1. (WrittenUpTo(start) => WrittenUpTo(start)') /\ (RowsWritten(start) => RowsWritten(start)')
  BY MlKemSame DEF WrittenUpTo, RowsWritten
<1> QED
  BY <1>1, MlKemSame DEF MlKemInv

LEMMA MlKemRead ==
  ASSUME MlKemInv, K!ReadGroup
  PROVE  MlKemInv'
<1>1. /\ pc = "read" /\ lane < K!Width /\ sampled[lane] < N
      /\ flow' = flow /\ start' = start /\ matrix' = matrix /\ pc' = pc /\ lane' = lane
  BY DEF K!ReadGroup
<1>2. PICK n \in 0 .. Group :
        /\ tmp' = [tmp EXCEPT ![lane] = Appended(@, sampled[lane], K!Seed(lane), drawn[lane], n)]
        /\ sampled' = [sampled EXCEPT ![lane] = @ + n]
        /\ drawn' = [drawn EXCEPT ![lane] = Advanced(@, n)]
  BY DEF K!ReadGroup, K!Accepted, K!Appended, K!Advanced, Appended, Advanced
<1>3. LanesType(K!Width, K!Size) /\ \A l \in 0 .. K!Width - 1 : Sound(l, K!Seed(l))
  BY <1>1 DEF MlKemInv
<1>4. lane \in 0 .. K!Width - 1 /\ Sound(lane, K!Seed(lane))
  BY <1>1, <1>3, MlKemSizes DEF LanesType
<1>5. /\ LanesType(K!Width, K!Size)' /\ Sound(lane, K!Seed(lane))'
      /\ \A l \in 0 .. K!Width - 1 : l # lane =>
           tmp'[l] = tmp[l] /\ sampled'[l] = sampled[l] /\ drawn'[l] = drawn[l]
  BY <1>1, <1>2, <1>3, <1>4, MlKemSizes, MlKemSame, ReadRight
<1>6. \A l \in 0 .. K!Width - 1 : Sound(l, K!Seed(l))'
  BY <1>1, <1>3, <1>5, MlKemSame DEF Sound
<1> QED
  BY <1>1, <1>5, <1>6, MlKemReads

LEMMA MlKemSkipGroup ==
  ASSUME MlKemInv, K!SkipGroup
  PROVE  MlKemInv'
<1>1. /\ pc = "read" /\ lane < K!Width /\ sampled[lane] >= N
      /\ flow' = flow /\ start' = start /\ matrix' = matrix /\ pc' = pc
      /\ lane' = lane /\ sampled' = sampled /\ tmp' = tmp
      /\ drawn' = [drawn EXCEPT ![lane] = Advanced(@, Group)]
  BY DEF K!SkipGroup, K!Advanced, Advanced
<1>2. LanesType(K!Width, K!Size) /\ \A l \in 0 .. K!Width - 1 : Sound(l, K!Seed(l))
  BY <1>1 DEF MlKemInv
<1>3. lane \in 0 .. K!Width - 1
  BY <1>1, <1>2, MlKemSizes DEF LanesType
<1>4. sampled[lane] \in Nat
  BY <1>2, <1>3, MlKemSizes, Counts
<1>5. /\ drawn' \in [0 .. K!Width - 1 -> Nat]
      /\ \A l \in 0 .. K!Width - 1 : l # lane => drawn'[l] = drawn[l]
  <2>1. drawn \in [0 .. K!Width - 1 -> Nat] /\ drawn[lane] \in Nat
    BY <1>2, <1>3 DEF LanesType
  <2>2. Advanced(drawn[lane], Group) \in Nat
    BY <2>1, AdvancedRight, SamplingAssumption
  <2> QED
    BY <1>1, <1>3, <2>1, <2>2
<1>6. LanesType(K!Width, K!Size)'
  BY <1>1, <1>2, <1>5, MlKemSame DEF LanesType
<1>7. \A l \in 0 .. K!Width - 1 : Sound(l, K!Seed(l))'
  BY <1>1, <1>2, <1>4, <1>5, MlKemSame, SamplingAssumption DEF Sound
<1> QED
  BY <1>1, <1>6, <1>7, MlKemReads

LEMMA MlKemEndOfBlock ==
  ASSUME MlKemInv, K!EndOfBlock
  PROVE  MlKemInv'
<1>1. /\ pc = "read" /\ lane < K!Width
      /\ flow' = flow /\ start' = start /\ matrix' = matrix /\ pc' = pc
      /\ lane' = lane + 1 /\ sampled' = sampled /\ tmp' = tmp /\ drawn' = drawn
  BY DEF K!EndOfBlock
<1>2. LanesType(K!Width, K!Size) /\ \A l \in 0 .. K!Width - 1 : Sound(l, K!Seed(l))
  BY <1>1 DEF MlKemInv
<1>3. LanesType(K!Width, K!Size)'
  BY <1>1, <1>2, MlKemSizes, MlKemSame DEF LanesType
<1>4. \A l \in 0 .. K!Width - 1 : Sound(l, K!Seed(l))'
  BY <1>1, <1>2, MlKemSame DEF Sound
<1> QED
  BY <1>1, <1>3, <1>4, MlKemReads

(* Counts beyond N cut back to it. *)
LEMMA ClampedRight ==
  ASSUME LanesType(K!Width, K!Size), K!Width \in Nat
  PROVE  /\ K!Clamped \in [0 .. K!Width - 1 -> 0 .. N + Group - 1]
         /\ \A l \in 0 .. K!Width - 1 :
              /\ sampled[l] < N => K!Clamped[l] = sampled[l]
              /\ K!Clamped[l] < N => K!Clamped[l] = sampled[l]
              /\ K!Clamped[l] <= sampled[l]
<1>1. DOMAIN sampled = 0 .. K!Width - 1
  BY DEF LanesType
<1>2. K!Clamped = [l \in 0 .. K!Width - 1 |-> IF sampled[l] >= N THEN N ELSE sampled[l]]
  BY <1>1 DEF K!Clamped, K!Enough
<1> QED
  BY <1>2, Counts, SamplingAssumption, SMTT(30)

LEMMA MlKemSqueeze ==
  ASSUME MlKemInv, K!SqueezeNext
  PROVE  MlKemInv'
<1>1. /\ pc = "read"
      /\ flow' = flow /\ start' = start /\ matrix' = matrix /\ pc' = pc
      /\ lane' = 0 /\ sampled' = K!Clamped /\ tmp' = tmp /\ drawn' = drawn
  BY DEF K!SqueezeNext
<1>2. LanesType(K!Width, K!Size) /\ \A l \in 0 .. K!Width - 1 : Sound(l, K!Seed(l))
  BY <1>1 DEF MlKemInv
<1>3. LanesType(K!Width, K!Size)'
  BY <1>1, <1>2, MlKemSizes, MlKemSame, ClampedRight DEF LanesType
<1>4. ASSUME NEW l \in 0 .. K!Width - 1
      PROVE  Sound(l, K!Seed(l))'
  <2>1. /\ sampled'[l] < N => sampled'[l] = sampled[l]
        /\ sampled'[l] <= sampled[l] /\ sampled[l] \in Nat /\ sampled'[l] \in Nat
    BY <1>1, <1>2, <1>3, MlKemSizes, MlKemSame, ClampedRight, Counts
  <2>2. Sound(l, K!Seed(l)) /\ K!Seed(l)' = K!Seed(l)
    BY <1>1, <1>2, MlKemSame
  <2> QED
    BY <1>1, <2>1, <2>2 DEF Sound, StartsWith
<1> QED
  BY <1>1, <1>3, <1>4, MlKemReads

(* Each lane has a position of its own. *)
LEMMA PositionsDiffer ==
  ASSUME MlKemInv, NEW l \in 0 .. K!Width - 1, NEW m \in 0 .. K!Width - 1,
         K!Position(l) = K!Position(m)
  PROVE  l = m
<1>1. CASE flow.kind = "keypair"
  <2>1. /\ K!Width = flow.rows /\ flow.rows \in Nat \ {0} /\ start \in 0 .. flow.rows - 1
        /\ K!Position(l) = l * flow.rows + start /\ K!Position(m) = m * flow.rows + start
    BY <1>1, MlKemSizes DEF K!Width, K!K, K!Position, MlKemInv
  <2>2. l \in Nat /\ m \in Nat
    BY <2>1
  <2> QED
    BY <2>1, <2>2, SamePlace
<1>2. CASE flow.kind # "keypair"
  BY <1>2 DEF K!Width
<1> QED
  BY <1>1, <1>2

LEMMA MlKemWritten ==
  ASSUME MlKemInv, K!WriteElements
  PROVE  /\ DOMAIN matrix' = DOMAIN matrix \cup {K!Position(l) : l \in 0 .. K!Width - 1}
         /\ \A l \in 0 .. K!Width - 1 : matrix'[K!Position(l)] = FirstOf(K!Seed(l))
         /\ \A n \in DOMAIN matrix :
              (\A l \in 0 .. K!Width - 1 : n # K!Position(l)) => matrix'[n] = matrix[n]
<1>1. DOMAIN tmp = 0 .. K!Width - 1 /\ DOMAIN sampled = 0 .. K!Width - 1
  BY DEF MlKemInv, LanesType
<1>2. /\ matrix' = [n \in DOMAIN matrix \cup {K!Position(l) : l \in 0 .. K!Width - 1} |->
                      IF \E l \in 0 .. K!Width - 1 : n = K!Position(l)
                      THEN K!Element(tmp[CHOOSE l \in 0 .. K!Width - 1 : n = K!Position(l)])
                      ELSE matrix[n]]
      /\ \A l \in 0 .. K!Width - 1 : sampled[l] >= N
      /\ pc = "read"
  BY <1>1 DEF K!WriteElements, K!Enough
<1>3. ASSUME NEW l \in 0 .. K!Width - 1
      PROVE  matrix'[K!Position(l)] = FirstOf(K!Seed(l))
  <2> DEFINE c == CHOOSE m \in 0 .. K!Width - 1 : K!Position(l) = K!Position(m)
  <2>1. c \in 0 .. K!Width - 1 /\ K!Position(l) = K!Position(c)
    OBVIOUS
  <2>2. c = l
    BY <2>1, PositionsDiffer
  <2>3. matrix'[K!Position(l)] = K!Element(tmp[c])
    BY <1>2
  <2>4. Sound(l, K!Seed(l)) /\ sampled[l] >= N /\ sampled[l] \in Nat
    BY <1>2, MlKemSizes, Counts DEF MlKemInv
  <2>5. K!Element(tmp[l]) = Element(tmp[l])
    BY DEF K!Element, Element
  <2> QED
    BY <2>2, <2>3, <2>4, <2>5, ElementRight
<1>4. ASSUME NEW n \in DOMAIN matrix, \A l \in 0 .. K!Width - 1 : n # K!Position(l)
      PROVE  matrix'[n] = matrix[n]
  BY <1>2, <1>4
<1>5. DOMAIN matrix' = DOMAIN matrix \cup {K!Position(l) : l \in 0 .. K!Width - 1}
  BY <1>2
<1> QED
  BY <1>3, <1>4, <1>5

LEMMA RowWritten ==
  ASSUME MlKemInv, K!WriteElements, flow.kind = "keypair", NEW n, n = start + 1
  PROVE  RowsWritten(n)'
<1>1. /\ K!Width = flow.rows /\ flow.rows \in Nat \ {0} /\ start \in 0 .. flow.rows - 1
      /\ \A l : K!Position(l) = l * flow.rows + start /\ K!Seed(l) = <<start, l>>
      /\ RowsWritten(start) /\ flow' = flow
  BY MlKemSizes DEF K!Width, K!K, K!Position, K!Seed, MlKemInv, K!WriteElements
<1>2. SUFFICES ASSUME NEW i \in 0 .. flow.rows - 1, NEW j \in 0 .. start
               PROVE  /\ i * flow.rows + j \in DOMAIN matrix'
                      /\ matrix'[i * flow.rows + j] = FirstOf(<<j, i>>)
  <2>1. n - 1 = start
    BY <1>1
  <2> QED
    BY <1>1, <2>1 DEF RowsWritten, FirstOf
<1>3. CASE j = start
  <2>1. i * flow.rows + j = K!Position(i) /\ K!Seed(i) = <<j, i>>
    BY <1>1, <1>3
  <2> QED
    BY <1>1, <2>1, MlKemWritten
<1>4. CASE j # start
  <2> DEFINE p == i * flow.rows + j
  <2>1. j \in 0 .. start - 1 /\ i \in Nat /\ j \in 0 .. flow.rows - 1
    BY <1>1, <1>4
  <2>2. p \in DOMAIN matrix /\ matrix[p] = FirstOf(<<j, i>>)
    BY <1>1, <2>1 DEF RowsWritten
  <2>3. ASSUME NEW l \in 0 .. K!Width - 1 PROVE p # K!Position(l)
    <3>1. l \in Nat
      BY <1>1
    <3> QED
      BY <1>1, <1>4, <2>1, <3>1, SamePlace
  <2> HIDE DEF p
  <2> QED
    BY <2>2, <2>3, MlKemWritten DEF p
<1> QED
  BY <1>3, <1>4

LEMMA EntryWritten ==
  ASSUME MlKemInv, K!WriteElements, flow.kind = "encrypt"
  PROVE  matrix' = [m \in 0 .. start |-> FirstOf(SeedOf(m))]
<1>1. /\ K!Width = 1 /\ flow.rows \in Nat \ {0} /\ flow.columns = flow.rows
      /\ start \in Nat
      /\ K!Position(0) = start /\ K!Seed(0) = SeedOf(start)
      /\ WrittenUpTo(start)
  <2>1. WrittenUpTo(start) /\ start \in 0 .. flow.rows * flow.rows - 1
    BY DEF MlKemInv, K!WriteElements
  <2> QED
    BY <2>1, MlKemSizes DEF K!Width, K!K, K!Position, K!Seed, SeedOf
<1>2. 0 .. K!Width - 1 = {0}
  BY <1>1
<1>3. {K!Position(l) : l \in 0 .. K!Width - 1} = {start}
  BY <1>1, <1>2
<1>4. matrix = [m \in 0 .. start - 1 |-> FirstOf(SeedOf(m))]
  BY <1>1 DEF WrittenUpTo
<1>5. DOMAIN matrix' = 0 .. start
  BY <1>1, <1>3, <1>4, MlKemWritten
<1>6. matrix'[start] = FirstOf(SeedOf(start))
  BY <1>1, <1>2, MlKemWritten
<1>7. \A n \in 0 .. start - 1 : matrix'[n] = FirstOf(SeedOf(n))
  BY <1>1, <1>2, <1>4, MlKemWritten
<1>8. matrix' = [m \in DOMAIN matrix' |-> matrix'[m]]
  BY DEF K!WriteElements
<1> QED
  BY <1>1, <1>5, <1>6, <1>7, <1>8

LEMMA MlKemWrite ==
  ASSUME MlKemInv, K!WriteElements
  PROVE  MlKemInv'
<1>1. /\ pc = "read" /\ flow' = flow
      /\ lane' = lane /\ sampled' = K!Clamped /\ tmp' = tmp /\ drawn' = drawn
      /\ IF start + 1 < (IF flow.kind = "keypair" THEN flow.rows ELSE flow.rows * flow.rows)
         THEN start' = start + 1 /\ pc' = "start"
         ELSE pc' = "finished" /\ start' = start
  BY DEF K!WriteElements, K!K
<1>2. LanesType(K!Width, K!Size)'
  BY <1>1, MlKemSizes, MlKemSame, ClampedRight DEF MlKemInv, LanesType
<1>3. CASE flow.kind = "keypair"
  <2>1. start \in 0 .. flow.rows - 1 /\ flow.rows \in Nat
    BY <1>3, MlKemSizes DEF MlKemInv
  <2>2. RowsWritten(IF pc = "finished" THEN flow.rows ELSE start)' /\ start' \in 0 .. flow.rows - 1
    <3>1. (IF pc = "finished" THEN flow.rows ELSE start)' = start + 1 /\ start' \in 0 .. flow.rows - 1
      BY <1>1, <1>3, <2>1
    <3>2. PICK n : n = start + 1
      OBVIOUS
    <3>3. RowsWritten(n)'
      BY <1>3, <3>2, RowWritten
    <3> QED
      BY <3>1, <3>2, <3>3 DEF RowsWritten
  <2> QED
    BY <1>1, <1>2, <1>3, <2>2, MlKemSame DEF MlKemInv
<1>4. CASE flow.kind = "encrypt"
  <2>1. start \in 0 .. flow.rows * flow.rows - 1 /\ flow.rows * flow.rows \in Nat
    BY <1>4, MlKemSizes DEF MlKemInv
  <2>2. /\ (IF pc = "finished" THEN flow.rows * flow.rows ELSE start)' = start + 1
        /\ start' \in 0 .. flow.rows * flow.rows - 1
    BY <1>1, <1>4, <2>1
  <2>3. PICK n : n = start + 1
    OBVIOUS
  <2>4. WrittenUpTo(n)'
    <3>1. n - 1 = start
      BY <2>1, <2>3
    <3>2. matrix' = [m \in 0 .. n - 1 |-> FirstOf(SeedOf(m))]
      BY <1>4, <3>1, EntryWritten
    <3>3. \A m : SeedOf(m)' = SeedOf(m)
      BY <1>1, MlKemSame
    <3> QED
      BY <3>2, <3>3 DEF WrittenUpTo
  <2>5. n = (IF pc = "finished" THEN flow.rows * flow.rows ELSE start)'
    BY <2>2, <2>3
  <2>6. WrittenUpTo(IF pc = "finished" THEN flow.rows * flow.rows ELSE start)'
    BY <2>4, <2>5 DEF WrittenUpTo
  <2> QED
    BY <1>1, <1>2, <1>4, <2>2, <2>6, MlKemSame DEF MlKemInv
<1> QED
  BY <1>3, <1>4 DEF MlKemInv

LEMMA MlKemStep ==
  ASSUME MlKemInv, K!Next
  PROVE  MlKemInv' /\ flow' = flow
<1>1. CASE K!StartBatch
  BY <1>1, MlKemStart DEF K!StartBatch
<1>2. CASE K!ReadGroup
  BY <1>2, MlKemRead DEF K!ReadGroup
<1>3. CASE K!SkipGroup
  BY <1>3, MlKemSkipGroup DEF K!SkipGroup
<1>4. CASE K!EndOfBlock
  BY <1>4, MlKemEndOfBlock DEF K!EndOfBlock
<1>5. CASE K!SqueezeNext
  BY <1>5, MlKemSqueeze DEF K!SqueezeNext
<1>6. CASE K!WriteElements
  BY <1>6, MlKemWrite DEF K!WriteElements
<1> QED
  BY <1>1, <1>2, <1>3, <1>4, <1>5, <1>6 DEF K!Next

-----------------------------------------------------------------------------
(* The challenge. *)
LEMMA Least ==
  ASSUME NEW T \in SUBSET Nat, T # {}
  PROVE  \E n \in T : \A m \in T : n <= m
<1> DEFINE R == OpToRel(<, Nat)
<1>1. IsWellFoundedOn(R, Nat)
  BY NatLessThanWellFounded
<1>2. \A x, y \in Nat : <<x, y>> \in R <=> x < y
  BY DEF OpToRel
<1> HIDE DEF R
<1>3. PICK n \in T : \A m \in T : ~(<<m, n>> \in R)
  BY <1>1, WFMin, Zenon
<1>4. ASSUME NEW m \in T PROVE n <= m
  <2>1. ~(m < n) /\ m \in Nat /\ n \in Nat
    BY <1>2, <1>3
  <2> QED
    BY <2>1
<1> QED
  BY <1>4

(* One step of Place, from the place q after one byte less. *)
Moved(h, m, n, q) ==
  IF n < m THEN Length
  ELSE IF n = m THEN h[m]
  ELSE IF q = h[n] THEN Length - Ones + n - 1
  ELSE q

(***************************************************************************)
(* Place's equation has a solution, so that Place is one: a counterexample   *)
(* on the least number of bytes would extend the solution on one byte less.  *)
(***************************************************************************)
LEMMA PlaceExists ==
  ASSUME NEW h, NEW m \in 1 .. Ones, NEW n \in 0 .. Ones
  PROVE  \E f : f = [i \in 0 .. n |-> Moved(h, m, i, f[i - 1])]
<1> DEFINE Solvable(j) == \E f : f = [i \in 0 .. j |-> Moved(h, m, i, f[i - 1])]
           T == {j \in 0 .. Ones : ~Solvable(j)}
<1>1. SUFFICES ASSUME T # {} PROVE FALSE
  OBVIOUS
<1>2. T \in SUBSET Nat
  OBVIOUS
<1>3. PICK j \in T : \A i \in T : j <= i
  BY <1>1, <1>2, Least
<1>4. j \in 0 .. Ones /\ ~Solvable(j)
  BY <1>3
<1>5. CASE j = 0
  <2> DEFINE f == [i \in 0 .. j |-> Length]
  <2>1. \A i \in 0 .. j : f[i] = Moved(h, m, i, f[i - 1])
    BY <1>5 DEF Moved
  <2>2. f = [i \in 0 .. j |-> Moved(h, m, i, f[i - 1])]
    BY <2>1
  <2> QED
    BY <1>4, <2>2
<1>6. CASE j # 0
  <2>1. j - 1 \in 0 .. Ones /\ ~(j <= j - 1)
    <3>1. j \in 0 .. Ones
      BY <1>4
    <3> QED
      BY <1>6, <3>1, ChallengeAssumption
  <2>2. Solvable(j - 1)
    BY <1>3, <2>1
  <2>3. PICK f : f = [i \in 0 .. j - 1 |-> Moved(h, m, i, f[i - 1])]
    BY <2>2
  <2> DEFINE g == [i \in 0 .. j |-> Moved(h, m, i, f[i - 1])]
  <2>4. ASSUME NEW i \in 0 .. j
        PROVE  Moved(h, m, i, f[i - 1]) = Moved(h, m, i, g[i - 1])
    <3>1. CASE i = 0
      BY <3>1 DEF Moved
    <3>2. CASE i # 0
      <4>1. i - 1 \in 0 .. j - 1 /\ i - 1 \in 0 .. j
        BY <1>4, <3>2
      <4>2. g[i - 1] = Moved(h, m, i - 1, f[(i - 1) - 1])
        BY <4>1
      <4>3. f[i - 1] = Moved(h, m, i - 1, f[(i - 1) - 1])
        BY <2>3, <4>1
      <4> QED
        BY <4>2, <4>3
    <3> QED
      BY <3>1, <3>2
  <2>5. g = [i \in 0 .. j |-> Moved(h, m, i, g[i - 1])]
    BY <2>4
  <2> QED
    BY <1>4, <2>5
<1> QED
  BY <1>5, <1>6

LEMMA PlaceIs ==
  ASSUME NEW h, NEW m \in 1 .. Ones, NEW n \in 0 .. Ones
  PROVE  Place(h, m)[n] = Moved(h, m, n, Place(h, m)[n - 1])
<1> DEFINE f == CHOOSE f : f = [i \in 0 .. Ones |-> Moved(h, m, i, f[i - 1])]
<1>1. Place(h, m) = f
  BY DEF Place, Moved
<1>2. Ones \in 0 .. Ones
  BY ChallengeAssumption
<1>3. f = [i \in 0 .. Ones |-> Moved(h, m, i, f[i - 1])]
  <2>1. \E g : g = [i \in 0 .. Ones |-> Moved(h, m, i, g[i - 1])]
    BY <1>2, PlaceExists, ZenonT(30)
  <2> QED
    BY <2>1, Zenon
<1> HIDE DEF f
<1> QED
  BY <1>1, <1>3

(* A further byte does not change where the signs were before it. *)
LEMMA PlaceBefore ==
  ASSUME NEW h \in Seq(Nat), NEW b \in Nat, NEW m \in 1 .. Ones, NEW n \in 0 .. Len(h), n <= Ones
  PROVE  Place(Append(h, b), m)[n] = Place(h, m)[n]
<1> DEFINE g == Append(h, b)
           T == {j \in 0 .. Len(h) : j <= Ones /\ Place(g, m)[j] # Place(h, m)[j]}
<1>1. SUFFICES ASSUME T # {} PROVE FALSE
  OBVIOUS
<1>2. T \in SUBSET Nat
  OBVIOUS
<1>3. PICK j \in T : \A i \in T : j <= i
  BY <1>1, <1>2, Least
<1>4. j \in 0 .. Len(h) /\ j <= Ones /\ Place(g, m)[j] # Place(h, m)[j] /\ j \in 0 .. Ones
  BY <1>3, ChallengeAssumption
<1>5. \A i \in 1 .. Len(h) : g[i] = h[i]
  OBVIOUS
<1>6. /\ Place(g, m)[j] = Moved(g, m, j, Place(g, m)[j - 1])
      /\ Place(h, m)[j] = Moved(h, m, j, Place(h, m)[j - 1])
  BY <1>4, PlaceIs
<1>7. CASE j < m
  BY <1>4, <1>6, <1>7 DEF Moved
<1>8. CASE ~(j < m)
  <2>1. j \in 1 .. Len(h) /\ j - 1 \in 0 .. Len(h) /\ j - 1 <= Ones /\ ~(j <= j - 1)
    BY <1>4, <1>8, ChallengeAssumption
  <2>2. Place(g, m)[j - 1] = Place(h, m)[j - 1]
    BY <1>3, <2>1
  <2>3. g[j] = h[j]
    BY <1>5, <2>1
  <2> QED
    BY <1>4, <1>6, <2>2, <2>3 DEF Moved
<1> QED
  BY <1>7, <1>8

(* Where the signs are after one byte more. *)
LEMMA AtAppended ==
  ASSUME NEW h \in Seq(Nat), NEW b \in Nat, NEW k, k = Len(h), k < Ones,
         NEW o, o = Length - Ones + k
  PROVE  At(Append(h, b)) =
           [m \in 1 .. k + 1 |-> IF m = k + 1 THEN b ELSE IF At(h)[m] = b THEN o ELSE At(h)[m]]
<1> DEFINE g == Append(h, b)
<1>1. Len(g) = k + 1 /\ g[k + 1] = b /\ k \in Nat
  OBVIOUS
<1>2. k + 1 \in 0 .. Ones /\ (k + 1) - 1 = k /\ k <= Ones
  BY ChallengeAssumption
<1>3. ASSUME NEW m \in 1 .. k + 1
      PROVE  Place(g, m)[k + 1] = IF m = k + 1 THEN b
                                  ELSE IF At(h)[m] = b THEN o ELSE At(h)[m]
  <2>1. m \in 1 .. Ones
    BY <1>2, ChallengeAssumption
  <2>2. Place(g, m)[k + 1] = Moved(g, m, k + 1, Place(g, m)[k])
    BY <1>2, <2>1, PlaceIs
  <2>3. CASE m = k + 1
    BY <1>1, <2>2, <2>3 DEF Moved
  <2>4. CASE m # k + 1
    <3>1. m \in 1 .. k /\ ~(k + 1 < m)
      BY <2>4
    <3>2. Place(g, m)[k] = Place(h, m)[k]
      BY <1>1, <1>2, <2>1, PlaceBefore
    <3>3. At(h)[m] = Place(h, m)[k]
      BY <3>1 DEF At
    <3>4. Length - Ones + (k + 1) - 1 = o
      BY ChallengeAssumption
    <3> HIDE DEF g
    <3> QED
      BY <1>1, <2>2, <2>4, <3>1, <3>2, <3>3, <3>4 DEF Moved
  <2> QED
    BY <2>3, <2>4
<1>4. At(g) = [m \in 1 .. k + 1 |-> Place(g, m)[k + 1]]
  BY <1>1 DEF At
<1> HIDE DEF g
<1>5. At(g) = [m \in 1 .. k + 1 |-> IF m = k + 1 THEN b
                                    ELSE IF At(h)[m] = b THEN o ELSE At(h)[m]]
  BY <1>3, <1>4
<1> QED
  BY <1>5 DEF g

(* The places and the coefficients after a byte b for the sign of the bit v. *)
AtNext(at, k, o, b) == [m \in 1 .. k + 1 |-> IF m = k + 1 THEN b ELSE IF at[m] = b THEN o ELSE at[m]]
SignedAt(poly, o, b, v) == [poly EXCEPT ![o] = poly[b], ![b] = 1 - 2 * v]

(***************************************************************************)
(* One byte more: with the place of one more sign, and what was there moved   *)
(* to o, the signs are right again.                                           *)
(***************************************************************************)
LEMMA Shuffled ==
  ASSUME NEW k \in Nat, NEW o \in 0 .. Length - 1, NEW b \in 0 .. o, NEW at, NEW poly,
         DOMAIN poly = C!Index, SignsRight(at, k, o, poly)
  PROVE  /\ DOMAIN SignedAt(poly, o, b, bits[k + 1]) = C!Index
         /\ SignsRight(AtNext(at, k, o, b), k + 1, o + 1, SignedAt(poly, o, b, bits[k + 1]))
<1> DEFINE new == AtNext(at, k, o, b)
           poly2 == SignedAt(poly, o, b, bits[k + 1])
<1>1. /\ o \in C!Index /\ b \in C!Index /\ o \in Nat /\ b \in Nat
      /\ \A m \in 1 .. k : at[m] \in 0 .. o - 1 /\ at[m] # o /\ at[m] \in C!Index
  BY ChallengeAssumption DEF C!Index, SignsRight
<1>2. /\ DOMAIN poly2 = C!Index
      /\ poly2[b] = 1 - 2 * bits[k + 1]
      /\ o # b => poly2[o] = poly[b]
      /\ \A p \in C!Index : p # o /\ p # b => poly2[p] = poly[p]
  BY <1>1 DEF SignedAt
<1>3. /\ new[k + 1] = b
      /\ \A m \in 1 .. k : m # k + 1 /\ new[m] = IF at[m] = b THEN o ELSE at[m]
      /\ \A m \in 1 .. k + 1 : m = k + 1 \/ m \in 1 .. k
  BY DEF AtNext
<1> HIDE DEF new, poly2
<1>4. ASSUME NEW m \in 1 .. k + 1
      PROVE  new[m] \in 0 .. o /\ poly2[new[m]] = 1 - 2 * bits[m]
  <2>1. CASE m = k + 1
    BY <1>1, <1>2, <1>3, <2>1
  <2>2. CASE m \in 1 .. k /\ at[m] = b
    <3>1. new[m] = o /\ o # b
      BY <1>1, <1>3, <2>2
    <3>2. poly[b] = 1 - 2 * bits[m]
      BY <2>2 DEF SignsRight
    <3> QED
      BY <1>1, <1>2, <3>1, <3>2
  <2>3. CASE m \in 1 .. k /\ at[m] # b
    <3>1. new[m] = at[m] /\ at[m] # o /\ at[m] \in C!Index /\ at[m] \in 0 .. o - 1
      BY <1>1, <1>3, <2>3
    <3>2. poly[at[m]] = 1 - 2 * bits[m]
      BY <2>3 DEF SignsRight
    <3> QED
      BY <1>1, <1>2, <2>3, <3>1, <3>2
  <2> QED
    BY <1>3, <2>1, <2>2, <2>3
<1>5. ASSUME NEW m \in 1 .. k + 1, NEW n \in 1 .. k + 1, new[m] = new[n]
      PROVE  m = n
  <2>1. \A i, j \in 1 .. k : at[i] = at[j] => i = j
    BY DEF SignsRight
  <2> QED
    BY <1>1, <1>3, <1>5, <2>1
<1>6. ASSUME NEW p \in C!Index, \A m \in 1 .. k + 1 : p # new[m]
      PROVE  poly2[p] = 0
  <2>1. k + 1 \in 1 .. k + 1 /\ \A m \in 1 .. k : m \in 1 .. k + 1
    OBVIOUS
  <2>2. p # b /\ \A m \in 1 .. k : p # (IF at[m] = b THEN o ELSE at[m])
    BY <1>3, <1>6, <2>1
  <2>3. CASE p = o
    <3>1. \A m \in 1 .. k : b # at[m]
      BY <2>2, <2>3
    <3>2. poly[b] = 0
      BY <1>1, <3>1 DEF SignsRight
    <3> QED
      BY <1>2, <2>2, <2>3, <3>2
  <2>4. CASE p # o
    <3>1. \A m \in 1 .. k : p # at[m]
      BY <2>2
    <3>2. poly[p] = 0
      BY <3>1 DEF SignsRight
    <3> QED
      BY <1>2, <2>2, <2>4, <3>2
  <2> QED
    BY <2>3, <2>4
<1>7. (o + 1) - 1 = o
  BY <1>1
<1> QED
  BY <1>2, <1>4, <1>5, <1>6, <1>7 DEF SignsRight, new, poly2

LEMMA ShuffleInit == C!Init => ShuffleInv
<1> SUFFICES ASSUME C!Init PROVE ShuffleInv
  OBVIOUS
<1>1. /\ heard = <<>> /\ polynomial = [n \in C!Index |-> 0] /\ signs = bits /\ out_index = Length - Ones
      /\ full_challenge = FALSE /\ stage = "shuffle" /\ bits \in [1 .. Ones -> {0, 1}]
  BY DEF C!Init
<1>2. Len(heard) = 0 /\ heard \in Seq(Nat)
  BY <1>1
<1>3. signs \in Seq({0, 1}) /\ Len(signs) = Ones
  BY <1>1, ChallengeAssumption
<1>4. SignsRight(At(heard), 0, Length - Ones + 0, polynomial)
  BY <1>1 DEF SignsRight
<1> QED
  BY <1>1, <1>2, <1>3, <1>4, ChallengeAssumption DEF ShuffleInv

LEMMA ShuffleUse ==
  ASSUME ShuffleInv, stage = "shuffle", NEW b \in C!Index, C!UseByte(b)
  PROVE  ShuffleInv' /\ stage' = "shuffle"
<1>1. Length \in Nat /\ Ones \in Nat /\ Ones < Length
  BY ChallengeAssumption
<1>2. PICK k \in Nat : k = Len(heard)
  BY DEF ShuffleInv
<1>3. PICK o : o = Length - Ones + k
  OBVIOUS
<1>4. /\ heard \in Seq(Nat) /\ k <= Ones /\ out_index = o /\ (full_challenge <=> k = Ones)
      /\ bits \in [1 .. Ones -> {0, 1}] /\ signs \in Seq({0, 1}) /\ Len(signs) = Ones - k
      /\ \A m \in 1 .. Ones - k : signs[m] = bits[k + m]
      /\ DOMAIN polynomial = C!Index /\ \A n \in 1 .. k : heard[n] < Length - Ones + n
      /\ SignsRight(At(heard), k, o, polynomial)
  BY <1>2, <1>3 DEF ShuffleInv
<1>5. /\ ~full_challenge /\ b <= out_index
      /\ polynomial' = [polynomial EXCEPT ![out_index] = polynomial[b], ![b] = 1 - 2 * Head(signs)]
      /\ out_index' = out_index + 1 /\ signs' = Tail(signs) /\ full_challenge' = (out_index' = Length)
      /\ heard' = Append(heard, b) /\ bits' = bits /\ stage' = stage
  BY DEF C!UseByte, C!Swapped
<1>6. /\ b \in Nat /\ b \in 0 .. o /\ k < Ones /\ o \in 0 .. Length - 1
      /\ Length - Ones + (k + 1) = o + 1
  <2>1. b \in Nat /\ b <= o
    BY <1>4, <1>5 DEF C!Index
  <2>2. k < Ones
    BY <1>1, <1>4, <1>5
  <2> QED
    BY <1>1, <1>3, <2>1, <2>2
<1>7. Head(signs) = bits[k + 1] /\ signs # <<>>
  BY <1>1, <1>4, <1>6
<1>8. /\ heard' \in Seq(Nat) /\ Len(heard') = k + 1
      /\ \A n \in 1 .. k : heard'[n] = heard[n]
      /\ heard'[k + 1] = b
  BY <1>2, <1>4, <1>5, <1>6
<1>9. At(heard') = [m \in 1 .. k + 1 |-> IF m = k + 1 THEN b
                                         ELSE IF At(heard)[m] = b THEN o ELSE At(heard)[m]]
  BY <1>2, <1>3, <1>4, <1>5, <1>6, AtAppended, SMTT(30)
<1>10. DOMAIN polynomial' = C!Index /\ SignsRight(At(heard'), k + 1, o + 1, polynomial')
  <2>1. polynomial' = [polynomial EXCEPT ![o] = polynomial[b], ![b] = 1 - 2 * bits[k + 1]]
    BY <1>4, <1>5, <1>7
  <2> QED
    <3>1. At(heard') = AtNext(At(heard), k, o, b)
      BY <1>9 DEF AtNext
    <3>2. polynomial' = SignedAt(polynomial, o, b, bits[k + 1])
      BY <2>1 DEF SignedAt
    <3> QED
      BY <1>4, <1>6, <3>1, <3>2, Shuffled
<1>11. \A n \in 1 .. k + 1 : heard'[n] < Length - Ones + n
  <2>1. b < Length - Ones + (k + 1)
    BY <1>1, <1>3, <1>6
  <2>2. \A n \in 1 .. k + 1 : n \in 1 .. k \/ n = k + 1
    OBVIOUS
  <2> QED
    BY <1>4, <1>8, <2>1, <2>2
<1>12. signs' \in Seq({0, 1}) /\ Len(signs') = Ones - (k + 1)
  BY <1>1, <1>4, <1>5, <1>7
<1>13. \A m \in 1 .. Ones - (k + 1) : signs'[m] = bits[(k + 1) + m]
  <2> TAKE m \in 1 .. Ones - (k + 1)
  <2>1. m + 1 \in 1 .. Ones - k /\ k + (m + 1) = (k + 1) + m
    BY <1>1
  <2>2. signs'[m] = signs[m + 1]
    BY <1>1, <1>4, <1>5, <1>7
  <2> QED
    BY <1>4, <2>1, <2>2
<1>14. full_challenge' <=> k + 1 = Ones
  <2>1. full_challenge' <=> out_index' = Length
    BY <1>5, Zenon
  <2>2. out_index' = Length - Ones + (k + 1)
    BY <1>4, <1>5, <1>6
  <2> QED
    BY <1>1, <2>1, <2>2
<1>15. out_index' = Length - Ones + (k + 1)
  BY <1>4, <1>5, <1>6
<1>16. SignsRight(At(heard), k + 1, o + 1, polynomial)'
  BY <1>5, <1>10 DEF SignsRight, At
<1>17. k + 1 <= Ones
  BY <1>1, <1>6
<1> QED
  BY <1>4, <1>5, <1>6, <1>8, <1>10, <1>11, <1>12, <1>13, <1>14, <1>15, <1>16, <1>17
  DEF ShuffleInv

LEMMA ShuffleStep ==
  ASSUME ShuffleInv, stage \in {"shuffle", "finished"}, C!Next
  PROVE  ShuffleInv' /\ stage' \in {"shuffle", "finished"}
<1>1. ASSUME NEW b \in C!Index, C!UseByte(b)
      PROVE  ShuffleInv' /\ stage' \in {"shuffle", "finished"}
  BY <1>1, ShuffleUse DEF C!UseByte
<1>2. ASSUME /\ polynomial' = polynomial /\ out_index' = out_index /\ signs' = signs /\ bits' = bits
             /\ full_challenge' = full_challenge /\ heard' = heard
             /\ stage' = stage \/ (stage' = "finished" /\ full_challenge)
      PROVE  ShuffleInv' /\ stage' \in {"shuffle", "finished"}
  BY <1>2 DEF ShuffleInv, At, SignsRight
<1>3. ASSUME NEW b \in C!Index, C!PassByte(b)
      PROVE  ShuffleInv' /\ stage' \in {"shuffle", "finished"}
  BY <1>2, <1>3 DEF C!PassByte
<1>4. CASE C!SqueezeBlock
  BY <1>2, <1>4 DEF C!SqueezeBlock
<1>5. CASE C!Finish
  BY <1>2, <1>5 DEF C!Finish
<1> QED
  BY <1>1, <1>3, <1>4, <1>5 DEF C!Next

(* Signs in different places are as many as the places. *)
LEMMA ShuffleResult ==
  ASSUME ShuffleInv
  PROVE  ChallengeRight
<1> SUFFICES ASSUME stage = "finished" PROVE ChallengeRight
  BY DEF ChallengeRight
<1> DEFINE at == [m \in 1 .. Ones |-> Place(heard, m)[Ones]]
<1>1. /\ Len(heard) = Ones /\ \A n \in 1 .. Ones : heard[n] < Length - Ones + n
      /\ SignsRight(at, Ones, Length - Ones + Ones, polynomial)
  BY DEF ShuffleInv, At
<1>2. Places(heard, Ones) = {at[m] : m \in 1 .. Ones}
  BY DEF Places
<1>3. ExistsBijection(1 .. Ones, Places(heard, Ones))
  <2>1. at \in [1 .. Ones -> Places(heard, Ones)]
    BY DEF Places
  <2>2. at \in Injection(1 .. Ones, Places(heard, Ones))
    BY <1>1, <2>1, Zenon DEF SignsRight, Injection, IsInjective
  <2>3. at \in Surjection(1 .. Ones, Places(heard, Ones))
    BY <1>2, <2>1 DEF Surjection
  <2> QED
    BY <2>2, <2>3 DEF Bijection, ExistsBijection
<1>4. Cardinality(Places(heard, Ones)) = Ones
  <2>1. IsFiniteSet(1 .. Ones) /\ Cardinality(1 .. Ones) = Ones
    <3>1. Ones \in Nat \ {0} /\ 1 \in Int /\ Ones \in Int
      BY ChallengeAssumption
    <3>2. IsFiniteSet(1 .. Ones) /\ Cardinality(1 .. Ones) = IF 1 > Ones THEN 0 ELSE Ones - 1 + 1
      BY <3>1, FS_Interval, Zenon
    <3> QED
      BY <3>1, <3>2
  <2> QED
    BY <1>3, <2>1, FS_Bijection
<1>5. \A m \in 1 .. Ones : polynomial[Place(heard, m)[Ones]] = 1 - 2 * bits[m]
  BY <1>1 DEF SignsRight
<1>6. \A p \in C!Index \ Places(heard, Ones) : polynomial[p] = 0
  BY <1>1, <1>2 DEF SignsRight
<1> QED
  BY <1>1, <1>4, <1>5, <1>6 DEF ChallengeRight

-----------------------------------------------------------------------------
LEMMA InitIInv == Init => IInv
<1> SUFFICES ASSUME Init PROVE IInv
  OBVIOUS
<1>1. CASE D!Init /\ NoChallenge
  BY <1>1, MlDsaInit DEF IInv, D!Init, NoChallenge
<1>2. CASE K!Init /\ NoChallenge
  BY <1>2, MlKemInit DEF IInv, K!Init, NoChallenge
<1>3. CASE C!Init /\ NoLanes
  BY <1>3, ShuffleInit DEF IInv, C!Init, NoLanes
<1> QED
  BY <1>1, <1>2, <1>3 DEF Init

LEMMA NextIInv == IInv /\ [Next]_<<vars, challenge>> => IInv'
<1> SUFFICES ASSUME IInv, [Next]_<<vars, challenge>> PROVE IInv'
  OBVIOUS
<1>1. CASE OfMlDsa /\ D!Next /\ UNCHANGED challenge
  <2>1. MlDsaInv /\ stage = "unused" /\ stage' = stage
    BY <1>1 DEF IInv, OfMlDsa, challenge
  <2> QED
    BY <1>1, <2>1, MlDsaStep DEF IInv, OfMlDsa
<1>2. CASE OfMlKem /\ K!Next /\ UNCHANGED challenge
  <2>1. MlKemInv /\ stage = "unused" /\ stage' = stage
    BY <1>2 DEF IInv, OfMlKem, challenge
  <2> QED
    BY <1>2, <2>1, MlKemStep DEF IInv, OfMlKem
<1>3. CASE stage # "unused" /\ C!Next /\ UNCHANGED vars
  <2>1. /\ flow.kind = "challenge" /\ stage \in {"shuffle", "finished"} /\ ShuffleInv
        /\ pc = "unused" /\ sampled = <<>>
        /\ flow' = flow /\ pc' = pc /\ sampled' = sampled
    BY <1>3 DEF IInv, vars
  <2> QED
    BY <1>3, <2>1, ShuffleStep DEF IInv
<1>4. CASE UNCHANGED <<vars, challenge>>
  <2>1. /\ flow' = flow /\ start' = start /\ lane' = lane /\ full' = full /\ tmp' = tmp
        /\ sampled' = sampled /\ done' = done /\ drawn' = drawn /\ matrix' = matrix /\ pc' = pc
        /\ polynomial' = polynomial /\ out_index' = out_index /\ signs' = signs /\ bits' = bits
        /\ full_challenge' = full_challenge /\ heard' = heard /\ stage' = stage
    BY <1>4 DEF vars, challenge
  <2>2. MlDsaInv => MlDsaInv'
    BY <2>1, MlDsaSame DEF MlDsaInv, LanesType, FlagsRight, Sound, StartsWith, WrittenUpTo
  <2>3. MlKemInv => MlKemInv'
    BY <2>1, MlKemSame DEF MlKemInv, LanesType, Sound, StartsWith, WrittenUpTo, RowsWritten
  <2>4. ShuffleInv => ShuffleInv'
    BY <2>1 DEF ShuffleInv, SignsRight, At
  <2> QED
    BY <2>1, <2>2, <2>3, <2>4 DEF IInv
<1> QED
  BY <1>1, <1>2, <1>3, <1>4 DEF Next

(***************************************************************************)
(* The lanes of both schemes' samplers and the challenge's shuffle keep the   *)
(* inductive invariant, whatever the streams, the lanes and the dimensions.   *)
(***************************************************************************)
THEOREM Invariance == Spec => []IInv
<1> QED
  BY InitIInv, NextIInv, PTL DEF Spec

(***************************************************************************)
(* No group is read into less room than it may need: ML-DSA's unchecked       *)
(* writes stay in the seven places after the 256th.                           *)
(***************************************************************************)
THEOREM InBounds == Spec => []WritesInBounds
<1>1. IInv => WritesInBounds
  <2> SUFFICES ASSUME IInv, NEW l \in DOMAIN sampled PROVE sampled[l] < N + Group
    BY DEF WritesInBounds
  <2>1. CASE MlDsaInv
    BY <2>1, MlDsaSizes, Counts DEF MlDsaInv, LanesType
  <2>2. CASE MlKemInv
    BY <2>2, MlKemSizes, Counts DEF MlKemInv, LanesType
  <2>3. CASE sampled = <<>>
    BY <2>3
  <2> QED
    BY <2>1, <2>2, <2>3 DEF IInv
<1> QED
  BY <1>1, Invariance, PTL

(***************************************************************************)
(* Every element sampled is made of the first N candidates of its own seed,   *)
(* in order, for batches of any width, and the matrices of signing and        *)
(* verification, of key generation and encryption, are the same.              *)
(***************************************************************************)
THEOREM SamplesRight == Spec => []FirstAccepted
<1>1. IInv => FirstAccepted
  <2> SUFFICES ASSUME IInv, pc = "finished" PROVE FirstAccepted
    BY DEF FirstAccepted
  <2>1. CASE flow.kind \in {"matrix", "errors", "element"} /\ MlDsaInv
    <3>1. matrix = [m \in 0 .. D!Elements - 1 |-> FirstOf(SeedOf(m))]
      BY <2>1 DEF MlDsaInv, WrittenUpTo
    <3>2. flow.rows \in Nat \ {0} /\ flow.columns \in Nat \ {0}
      BY <2>1, MlDsaSizes
    <3>3. CASE flow.kind = "errors"
      <4>1. D!Elements = flow.rows + flow.columns /\ \A n : SeedOf(n) = n
        BY <3>3 DEF D!Elements, SeedOf
      <4>2. matrix = [n \in 0 .. flow.rows + flow.columns - 1 |-> FirstOf(n)]
        <5>1. matrix = [m \in 0 .. (flow.rows + flow.columns) - 1 |-> FirstOf(SeedOf(m))]
          BY <3>1, <4>1
        <5>2. (flow.rows + flow.columns) - 1 = flow.rows + flow.columns - 1
          BY <3>2
        <5> QED
          BY <4>1, <5>1, <5>2
      <4> QED
        BY <3>3, <4>2 DEF FirstAccepted
    <3>4. CASE flow.kind # "errors"
      <4>1. matrix = [m \in 0 .. flow.rows * flow.columns - 1 |->
                        FirstOf(<<m \div flow.columns, m % flow.columns>>)]
        BY <3>1, <3>4 DEF D!Elements, SeedOf
      <4>2. ASSUME NEW i \in 0 .. flow.rows - 1, NEW j \in 0 .. flow.columns - 1
            PROVE  matrix[i * flow.columns + j] = FirstOf(<<i, j>>)
        <5>1. PICK n : n = i * flow.columns + j
          OBVIOUS
        <5>2. n \in 0 .. flow.rows * flow.columns - 1
          BY <3>2, <5>1, InRows
        <5>3. n \div flow.columns = i /\ n % flow.columns = j
          BY <3>2, <5>1, RowMajor
        <5> QED
          BY <4>1, <5>1, <5>2, <5>3
      <4>3. DOMAIN matrix = 0 .. flow.rows * flow.columns - 1
        BY <4>1
      <4>4. flow.kind # "keypair"
        BY <2>1
      <4> QED
        BY <3>4, <4>2, <4>3, <4>4 DEF FirstAccepted
    <3> QED
      BY <3>3, <3>4
  <2>2. CASE flow.kind \in {"keypair", "encrypt"} /\ MlKemInv
    <3>1. flow.rows \in Nat \ {0} /\ flow.columns = flow.rows
      BY <2>2, MlKemSizes
    <3>2. CASE flow.kind = "keypair"
      <4>1. RowsWritten(flow.rows)
        BY <2>2, <3>2 DEF MlKemInv
      <4> QED
        BY <3>2, <4>1 DEF FirstAccepted, RowsWritten
    <3>3. CASE flow.kind = "encrypt"
      <4>1. matrix = [m \in 0 .. flow.rows * flow.columns - 1 |->
                        FirstOf(<<m \div flow.columns, m % flow.columns>>)]
        BY <2>2, <3>1, <3>3 DEF MlKemInv, WrittenUpTo, SeedOf
      <4>2. ASSUME NEW i \in 0 .. flow.rows - 1, NEW j \in 0 .. flow.columns - 1
            PROVE  matrix[i * flow.columns + j] = FirstOf(<<i, j>>)
        <5>1. PICK n : n = i * flow.columns + j
          OBVIOUS
        <5>2. n \in 0 .. flow.rows * flow.columns - 1
          BY <3>1, <5>1, InRows
        <5>3. n \div flow.columns = i /\ n % flow.columns = j
          BY <3>1, <5>1, RowMajor
        <5> QED
          BY <4>1, <5>1, <5>2, <5>3
      <4>3. DOMAIN matrix = 0 .. flow.rows * flow.columns - 1
        BY <4>1
      <4> QED
        BY <3>3, <4>2, <4>3 DEF FirstAccepted
    <3> QED
      BY <2>2, <3>2, <3>3
  <2> QED
    BY <2>1, <2>2 DEF IInv
<1> QED
  BY <1>1, Invariance, PTL

(***************************************************************************)
(* The challenge has Ones signs, each where the bytes put it and later bytes  *)
(* moved it, and zeros everywhere else, for every stream of bytes.            *)
(***************************************************************************)
THEOREM BallRight == Spec => []ChallengeRight
<1>1. IInv => ChallengeRight
  BY ShuffleResult DEF IInv, ChallengeRight
<1> QED
  BY <1>1, Invariance, PTL
=============================================================================
