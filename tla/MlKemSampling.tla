--------------------------- MODULE MlKemSampling ---------------------------
(***************************************************************************)
(* ML-KEM's matrix: in key generation a row at a time, one lane to each of    *)
(* its entries, stored transposed; in encryption entry by entry, as the       *)
(* products want them.  A lane is read as long as its count is below N.       *)
(***************************************************************************)
EXTENDS LaneSampling

CONSTANT Ranks  \* the values of K

K == flow.rows
Width == IF flow.kind = "keypair" THEN K ELSE 1

(* 256 coefficients and a whole group more. *)
Size == N + Group

Seed(l) == IF flow.kind = "keypair" THEN <<start, l>> ELSE <<start \div K, start % K>>

Groups == IF block = 1 THEN FirstGroups ELSE NextGroups

(* matrix.rs stores entry j of the row of seeds i at j K + i. *)
Position(l) == IF flow.kind = "keypair" THEN l * K + start ELSE start

Init ==
  /\ flow \in {[kind |-> kind, rows |-> k, columns |-> k] :
                 kind \in {"keypair", "encrypt"}, k \in Ranks}
  /\ start = 0 /\ block = 0 /\ lane = 0 /\ group = 0 /\ full = FALSE
  /\ tmp = [l \in 0 .. Width - 1 |-> Zeros(Size)]
  /\ sampled = [l \in 0 .. Width - 1 |-> 0]
  /\ done = [l \in 0 .. Width - 1 |-> FALSE]
  /\ drawn = sampled
  /\ matrix = [n \in {} |-> 0]
  /\ pc = "start"

StartBatch ==
  /\ pc = "start"
  /\ block' = 1 /\ lane' = 0 /\ group' = 0
  /\ sampled' = [l \in DOMAIN tmp |-> 0]
  /\ drawn' = sampled'
  /\ tmp' = [l \in DOMAIN tmp |-> Zeros(Size)]
  /\ pc' = "read"
  /\ UNCHANGED <<flow, start, full, done, matrix>>

ReadGroup ==
  /\ pc = "read" /\ lane < Width /\ group < Groups /\ sampled[lane] < N
  /\ \E n \in Accepted :
       /\ tmp' = [tmp EXCEPT ![lane] = Appended(@, sampled[lane], Seed(lane), drawn[lane], n)]
       /\ sampled' = [sampled EXCEPT ![lane] = @ + n]
       /\ drawn' = [drawn EXCEPT ![lane] = Advanced(@, n)]
  /\ group' = group + 1
  /\ UNCHANGED <<flow, start, block, lane, full, done, matrix, pc>>

SkipGroup ==
  /\ pc = "read" /\ lane < Width /\ group < Groups /\ sampled[lane] >= N
  /\ drawn' = [drawn EXCEPT ![lane] = Advanced(@, Group)]
  /\ group' = group + 1
  /\ UNCHANGED <<flow, start, block, lane, full, tmp, sampled, done, matrix, pc>>

EndOfBlock ==
  /\ pc = "read" /\ lane < Width /\ group = Groups
  /\ lane' = lane + 1 /\ group' = 0
  /\ UNCHANGED <<flow, start, block, full, tmp, sampled, done, drawn, matrix, pc>>

(* After the last lane the counts beyond N are cut back. *)
Enough_More(n) == n > N
Enough(n) == n >= N

Clamped == [l \in DOMAIN sampled |-> IF Enough(sampled[l]) THEN N ELSE sampled[l]]

SqueezeNext ==
  /\ pc = "read" /\ lane = Width /\ \E l \in DOMAIN sampled : ~Enough(sampled[l])
  /\ sampled' = Clamped
  /\ block' = IF block < Patience THEN block + 1 ELSE block
  /\ lane' = 0
  /\ UNCHANGED <<flow, start, group, full, tmp, done, drawn, matrix, pc>>

WriteElements ==
  /\ pc = "read" /\ lane = Width /\ \A l \in DOMAIN sampled : Enough(sampled[l])
  /\ sampled' = Clamped
  /\ matrix' = [n \in DOMAIN matrix \cup {Position(l) : l \in DOMAIN tmp} |->
                  IF \E l \in DOMAIN tmp : n = Position(l)
                  THEN Element(tmp[CHOOSE l \in DOMAIN tmp : n = Position(l)])
                  ELSE matrix[n]]
  /\ IF start + 1 < (IF flow.kind = "keypair" THEN K ELSE K * K)
     THEN start' = start + 1 /\ pc' = "start"
     ELSE pc' = "finished" /\ UNCHANGED start
  /\ UNCHANGED <<flow, block, lane, group, full, tmp, done, drawn>>

Next ==
  \/ StartBatch \/ ReadGroup \/ SkipGroup \/ EndOfBlock \/ SqueezeNext \/ WriteElements
=============================================================================
