--------------------------- MODULE DashboardFeed ----------------------------
(***************************************************************************)
(* What a dashboard page is shown of the host's reports (demo_host/README.md *)
(* 27-38): from the moment it is connected every report, in order and        *)
(* without a gap, until it is closed or has fallen too far behind.           *)
(***************************************************************************)
EXTENDS Integers, Sequences

CONSTANTS Browsers, CAPACITY

VARIABLES
  sent,    \* reports so far
  joined,  \* [Browsers -> the number of reports when it connected, or -1]
  seen,    \* [Browsers -> the reports shown]
  live,    \* [Browsers -> is it still being served?]
  open     \* [Browsers -> is the page open?]

vars == <<sent, joined, seen, live, open>>

Init ==
  /\ sent = 0
  /\ joined = [b \in Browsers |-> -1]
  /\ seen = [b \in Browsers |-> << >>]
  /\ live = [b \in Browsers |-> FALSE]
  /\ open = [b \in Browsers |-> FALSE]

Publish ==
  /\ sent' = sent + 1
  /\ UNCHANGED <<joined, seen, live, open>>

Join(b) ==
  /\ joined[b] = -1
  /\ joined' = [joined EXCEPT ![b] = sent]
  /\ live' = [live EXCEPT ![b] = TRUE]
  /\ open' = [open EXCEPT ![b] = TRUE]
  /\ UNCHANGED <<sent, seen>>

Behind(b) == sent - joined[b] - Len(seen[b])

Show(b) ==
  /\ live[b] /\ open[b]
  /\ Behind(b) > 0
  /\ seen' = [seen EXCEPT ![b] = Append(@, joined[b] + Len(@) + 1)]
  /\ \/ UNCHANGED live
     \/ Behind(b) > CAPACITY /\ live' = [live EXCEPT ![b] = FALSE]
  /\ UNCHANGED <<sent, joined, open>>

Leave(b) ==
  /\ open[b]
  /\ open' = [open EXCEPT ![b] = FALSE]
  /\ \/ UNCHANGED live
     \/ live' = [live EXCEPT ![b] = FALSE]
  /\ UNCHANGED <<sent, joined, seen>>

Drop(b) ==
  /\ live[b]
  /\ ~open[b] \/ Behind(b) > CAPACITY
  /\ live' = [live EXCEPT ![b] = FALSE]
  /\ UNCHANGED <<sent, joined, seen, open>>

Next == Publish \/ \E b \in Browsers : Join(b) \/ Show(b) \/ Leave(b) \/ Drop(b)

(* A page is shown what there is, or dropped; one that was closed is dropped. *)
Spec ==
  /\ Init /\ [][Next]_vars
  /\ \A b \in Browsers : WF_vars(Show(b) \/ Drop(b))
=============================================================================
