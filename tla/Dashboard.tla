----------------------------- MODULE Dashboard ------------------------------
(***************************************************************************)
(* demo_host/src/main.rs, websocket_handler: for every page a task that takes *)
(* reports from the broadcast channel to the browser, a task that takes       *)
(* commands from the browser to AppState, and the handler that waits for      *)
(* either to end and aborts the other.  The channel keeps the last CAPACITY   *)
(* reports for every receiver; one that is further behind gets Err(Lagged).   *)
(***************************************************************************)
EXTENDS Integers, Sequences

CONSTANTS
  Browsers,
  CAPACITY,     \* of the broadcast channel
  ROOM,         \* messages the connection takes before send waits
  MaxReports,   \* bound: reports of the pinger
  MaxAsked   \* bound: commands of each page

ASSUME DashboardAssumption ==
  /\ {CAPACITY, ROOM} \subseteq Nat \ {0}
  /\ {MaxReports, MaxAsked} \subseteq Nat

VARIABLES
  sent,          \* reports in the channel so far
  next,          \* rx_stats: the last report taken
  send_task, recv_task, handler,
  applied,           \* AppState: the last command applied
  toBrowser, fromBrowser,   \* the two directions of the websocket
  opened,        \* is the page open?
  \* history
  joined, seen, asked

channel == <<sent, next>>
tasks == <<send_task, recv_task, handler, applied>>
socket == <<toBrowser, fromBrowser, opened>>
history == <<joined, seen, asked>>
dashboard == <<channel, tasks, socket, history>>

CloseFrame == <<"close">>

DashboardInit ==
  /\ sent = 0
  /\ next = [b \in Browsers |-> 0]
  /\ send_task = [b \in Browsers |-> "ended"]
  /\ recv_task = [b \in Browsers |-> "ended"]
  /\ handler = [b \in Browsers |-> "none"]
  /\ applied = <<"default", 0>>
  /\ toBrowser = [b \in Browsers |-> << >>]
  /\ fromBrowser = [b \in Browsers |-> << >>]
  /\ opened = [b \in Browsers |-> FALSE]
  /\ joined = [b \in Browsers |-> -1]
  /\ seen = [b \in Browsers |-> << >>]
  /\ asked = [b \in Browsers |-> 0]

(* The pinger's tx.send waits for nobody; main's own _rx never receives. *)
Broadcast ==
  /\ sent < MaxReports
  /\ sent' = sent + 1
  /\ UNCHANGED <<next, tasks, socket, history>>

-----------------------------------------------------------------------------
(* The page *)

(* The page opens its only websocket; the handler subscribes and spawns. *)
Connect(b) ==
  /\ handler[b] = "none"
  /\ next' = [next EXCEPT ![b] = sent]
  /\ send_task' = [send_task EXCEPT ![b] = "recv"]
  /\ recv_task' = [recv_task EXCEPT ![b] = "recv"]
  /\ handler' = [handler EXCEPT ![b] = "select"]
  /\ opened' = [opened EXCEPT ![b] = TRUE]
  /\ joined' = [joined EXCEPT ![b] = sent]
  /\ UNCHANGED <<sent, applied, toBrowser, fromBrowser, seen, asked>>

(* updatePayload or toggleFail *)
Ask(b) ==
  /\ opened[b] /\ asked[b] < MaxAsked
  /\ asked' = [asked EXCEPT ![b] = @ + 1]
  /\ fromBrowser' = [fromBrowser EXCEPT ![b] = Append(@, <<b, asked[b] + 1>>)]
  /\ UNCHANGED <<channel, tasks, toBrowser, opened, joined, seen>>

(* ws.onmessage *)
Show(b) ==
  /\ opened[b] /\ toBrowser[b] # << >>
  /\ seen' = [seen EXCEPT ![b] = Append(@, Head(toBrowser[b]))]
  /\ toBrowser' = [toBrowser EXCEPT ![b] = Tail(@)]
  /\ UNCHANGED <<channel, tasks, fromBrowser, opened, joined, asked>>

(* The page is closed or reloaded. *)
Leave(b) ==
  /\ opened[b]
  /\ opened' = [opened EXCEPT ![b] = FALSE]
  /\ toBrowser' = [toBrowser EXCEPT ![b] = << >>]
  /\ fromBrowser' = [fromBrowser EXCEPT ![b] = Append(@, CloseFrame)]
  /\ UNCHANGED <<channel, tasks, history>>

-----------------------------------------------------------------------------
(* The tasks *)

Lagged(b) == sent - next[b] > CAPACITY

(* Mutant: a receiver that lagged goes on with the oldest report there is. *)
RecvStats_GoesOn(b) ==
  /\ send_task[b] = "recv" /\ next[b] < sent
  /\ next' = [next EXCEPT ![b] = IF Lagged(b) THEN sent - CAPACITY + 1 ELSE @ + 1]
  /\ send_task' = [send_task EXCEPT ![b] = "send"]
  /\ UNCHANGED <<sent, recv_task, handler, applied, socket, history>>

(* `while let Ok(stats)' ends on Err(Lagged). *)
RecvStats(b) ==
  /\ send_task[b] = "recv" /\ next[b] < sent
  /\ IF Lagged(b)
       THEN /\ send_task' = [send_task EXCEPT ![b] = "ended"]
            /\ UNCHANGED next
       ELSE /\ send_task' = [send_task EXCEPT ![b] = "send"]
            /\ next' = [next EXCEPT ![b] = @ + 1]
  /\ UNCHANGED <<sent, recv_task, handler, applied, socket, history>>

(* sender.send(..).await, which fails once the page is gone *)
SendStats(b) ==
  /\ send_task[b] = "send"
  /\ \/ /\ opened[b] /\ Len(toBrowser[b]) < ROOM
        /\ toBrowser' = [toBrowser EXCEPT ![b] = Append(@, next[b])]
        /\ send_task' = [send_task EXCEPT ![b] = "recv"]
     \/ /\ ~opened[b]
        /\ send_task' = [send_task EXCEPT ![b] = "ended"]
        /\ UNCHANGED toBrowser
  /\ UNCHANGED <<channel, recv_task, handler, applied, fromBrowser, opened, history>>

(* From receiver.next() to the next one nothing is awaited: the write lock is  *)
(* taken, the command applied and the lock released in one step.               *)
RecvCommand(b) ==
  /\ recv_task[b] = "recv" /\ fromBrowser[b] # << >>
  /\ fromBrowser' = [fromBrowser EXCEPT ![b] = Tail(@)]
  /\ IF Head(fromBrowser[b]) = CloseFrame
       THEN recv_task' = [recv_task EXCEPT ![b] = "ended"] /\ UNCHANGED applied
       ELSE applied' = Head(fromBrowser[b]) /\ UNCHANGED recv_task
  /\ UNCHANGED <<channel, send_task, handler, toBrowser, opened, history>>

(* Mutant: each arm of select! aborts the task that it has seen end. *)
Select_AbortsEnded(b) ==
  /\ handler[b] = "select"
  /\ \/ send_task[b] = "ended" /\ handler' = [handler EXCEPT ![b] = "abort_send"]
     \/ recv_task[b] = "ended" /\ handler' = [handler EXCEPT ![b] = "abort_recv"]
  /\ UNCHANGED <<channel, send_task, recv_task, applied, socket, history>>

(* select!: the task still running is aborted, and the handler returns. *)
Select(b) ==
  /\ handler[b] = "select"
  /\ \/ send_task[b] = "ended" /\ handler' = [handler EXCEPT ![b] = "abort_recv"]
     \/ recv_task[b] = "ended" /\ handler' = [handler EXCEPT ![b] = "abort_send"]
  /\ UNCHANGED <<channel, send_task, recv_task, applied, socket, history>>

(* An aborted task ends where it awaits; until then it may take further steps. *)
Cancel(b) ==
  /\ \/ /\ handler[b] = "abort_send" /\ send_task[b] # "ended"
        /\ send_task' = [send_task EXCEPT ![b] = "ended"] /\ UNCHANGED recv_task
     \/ /\ handler[b] = "abort_recv" /\ recv_task[b] # "ended"
        /\ recv_task' = [recv_task EXCEPT ![b] = "ended"] /\ UNCHANGED send_task
  /\ UNCHANGED <<channel, handler, applied, socket, history>>

DashboardNext ==
  \/ Broadcast
  \/ \E b \in Browsers :
       \/ Connect(b) \/ Ask(b) \/ Show(b) \/ Leave(b)
       \/ RecvStats(b) \/ SendStats(b) \/ RecvCommand(b) \/ Select(b) \/ Cancel(b)

DashboardSpec == DashboardInit /\ [][DashboardNext]_dashboard

(***************************************************************************)
(* The tasks are polled by a multi-threaded runtime, each for itself; a page  *)
(* that is open reads what has come.                                          *)
(***************************************************************************)
FairDashboardSpec ==
  /\ DashboardSpec
  /\ \A b \in Browsers :
       /\ WF_dashboard(RecvStats(b) \/ SendStats(b)) /\ WF_dashboard(RecvCommand(b))
       /\ WF_dashboard(Select(b)) /\ WF_dashboard(Cancel(b)) /\ WF_dashboard(Show(b))

-----------------------------------------------------------------------------
(* Properties *)

(* The pages that there is still something for, or may be. *)
Served == [b \in Browsers |-> send_task[b] # "ended" \/ toBrowser[b] # << >>]
Feed == INSTANCE DashboardFeed WITH live <- Served, open <- opened

(***************************************************************************)
(* A page is shown every report from its connection on, none twice and none   *)
(* skipped, until it is closed or the channel has lost a report it was still  *)
(* to see; then it is shown no more (main.rs 434-441).                        *)
(***************************************************************************)
ImplementsFeed == Feed!Spec

(***************************************************************************)
(* A connection does not outlive its page, nor one of its tasks the other:    *)
(* whichever ends first, at whatever await the other waits, both end          *)
(* (main.rs 463-466).                                                         *)
(***************************************************************************)
ConnectionsEnd ==
  \A b \in Browsers :
    (handler[b] # "none" /\ (~opened[b] \/ "ended" \in {send_task[b], recv_task[b]}))
      ~> (send_task[b] = "ended" /\ recv_task[b] = "ended")
=============================================================================
