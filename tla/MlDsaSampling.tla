--------------------------- MODULE MlDsaSampling ---------------------------
(***************************************************************************)
(* ML-DSA's samplers: the matrix in key generation and signing, in batches of *)
(* Lanes elements that share one set of arrays; the errors s1 and s2 in such  *)
(* batches with arrays of their own; and the matrix element by element, as    *)
(* verification wants it.  A lane that has enough keeps its flag, though each *)
(* squeeze still advances its stream with the others'.                        *)
(***************************************************************************)
EXTENDS LaneSampling

CONSTANTS Lanes,         \* 4
          Rows, Columns  \* the dimensions a matrix may have

(* 255 coefficients and a whole group more. *)
Size == N + Group - 1

Elements == IF flow.kind = "errors" THEN flow.rows + flow.columns ELSE flow.rows * flow.columns
Width == IF flow.kind = "element" THEN 1 ELSE Lanes

xy(index, width) == <<index \div width, index % width>>

Seed(l) == IF flow.kind = "errors" THEN start + l ELSE xy(start + l, flow.columns)

Groups == IF block = 1 \/ flow.kind = "errors" THEN FirstGroups ELSE NextGroups

(* Of the batch at start, the elements that are written out. *)
Requested ==
  IF start + Width <= Elements THEN Width ELSE Elements - start

Init ==
  /\ flow \in [kind : {"matrix", "errors", "element"}, rows : Rows, columns : Columns]
  /\ start = 0 /\ block = 0 /\ lane = 0 /\ group = 0 /\ full = FALSE
  /\ tmp = [l \in 0 .. Width - 1 |-> Zeros(Size)]
  /\ sampled = [l \in 0 .. Width - 1 |-> 0]
  /\ done = [l \in 0 .. Width - 1 |-> FALSE]
  /\ drawn = sampled
  /\ matrix = [n \in {} |-> 0]
  /\ pc = "start"

(* The seeds are absorbed and the first blocks squeezed.  The matrix sampler   *)
(* gets its arrays as the batch before left them; the errors' are fresh.       *)
StartBatch ==
  /\ pc = "start"
  /\ block' = 1 /\ lane' = 0 /\ group' = 0 /\ full' = FALSE
  /\ sampled' = [l \in DOMAIN tmp |-> 0]
  /\ done' = [l \in DOMAIN tmp |-> FALSE]
  /\ drawn' = sampled'
  /\ tmp' = IF flow.kind = "errors" THEN [l \in DOMAIN tmp |-> Zeros(Size)] ELSE tmp
  /\ pc' = "read"
  /\ UNCHANGED <<flow, start, matrix>>

Full_More(n) == n > N
Full(n) == n >= N

(* One group, unless the lane has had enough in this block: then nothing is    *)
(* read and all its candidates pass by.                                        *)
ReadGroup ==
  /\ pc = "read" /\ lane < Width /\ ~done[lane] /\ group < Groups /\ ~full
  /\ \E n \in Accepted :
       /\ tmp' = [tmp EXCEPT ![lane] = Appended(@, sampled[lane], Seed(lane), drawn[lane], n)]
       /\ sampled' = [sampled EXCEPT ![lane] = @ + n]
       /\ drawn' = [drawn EXCEPT ![lane] = Advanced(@, n)]
  /\ full' = Full(sampled'[lane])
  /\ group' = group + 1
  /\ UNCHANGED <<flow, start, block, lane, done, matrix, pc>>

SkipGroup ==
  /\ pc = "read" /\ lane < Width /\ ~done[lane] /\ group < Groups /\ full
  /\ drawn' = [drawn EXCEPT ![lane] = Advanced(@, Group)]
  /\ group' = group + 1
  /\ UNCHANGED <<flow, start, block, lane, full, tmp, sampled, done, matrix, pc>>

EndOfBlock ==
  /\ pc = "read" /\ lane < Width /\ ~done[lane] /\ group = Groups
  /\ done' = [done EXCEPT ![lane] = full]
  /\ lane' = lane + 1 /\ group' = 0 /\ full' = FALSE
  /\ UNCHANGED <<flow, start, block, tmp, sampled, drawn, matrix, pc>>

(* A lane that was done before this block. *)
SkipLane ==
  /\ pc = "read" /\ lane < Width /\ done[lane]
  /\ drawn' = [drawn EXCEPT ![lane] = Advanced(@, Groups * Group)]
  /\ lane' = lane + 1
  /\ UNCHANGED <<flow, start, block, group, full, tmp, sampled, done, matrix, pc>>

AllDone_First == done[0]
AllDone == \A l \in DOMAIN done : done[l]

SqueezeNext ==
  /\ pc = "read" /\ lane = Width /\ ~AllDone
  /\ block' = IF block < Patience THEN block + 1 ELSE block
  /\ lane' = 0
  /\ UNCHANGED <<flow, start, group, full, tmp, sampled, done, drawn, matrix, pc>>

(* matrix_flat goes on to a last batch with the remainder, be it empty;        *)
(* sample_s1_and_s2 leaves an empty one out.                                   *)
More ==
  IF flow.kind = "matrix" THEN start + Width <= Elements ELSE start + Width < Elements

WriteElements ==
  /\ pc = "read" /\ lane = Width /\ AllDone
  /\ matrix' = [n \in DOMAIN matrix \cup (start .. start + Requested - 1) |->
                  IF n < start THEN matrix[n] ELSE Element(tmp[n - start])]
  /\ IF More THEN start' = start + Width /\ pc' = "start"
             ELSE pc' = "finished" /\ UNCHANGED start
  /\ UNCHANGED <<flow, block, lane, group, full, tmp, sampled, done, drawn>>

Next ==
  \/ StartBatch \/ ReadGroup \/ SkipGroup \/ EndOfBlock \/ SkipLane
  \/ SqueezeNext \/ WriteElements
=============================================================================
