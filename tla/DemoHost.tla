------------------------------ MODULE DemoHost ------------------------------
(***************************************************************************)
(* demo_host/src/main.rs: the pinger task, which runs signed_ping over and   *)
(* over, and the part of the dashboard that changes what it sends.  A panic  *)
(* in signed_ping ends the pinger task alone: its JoinHandle is dropped.     *)
(***************************************************************************)
EXTENDS DemoLink

CONSTANTS
  Payloads,        \* lengths of the payloads the dashboard may set
  DefaultPayload,  \* of "Hello Board"
  MaxPings,        \* bound: pings started
  MaxCommands,     \* bound: dashboard commands
  Slow,            \* may the client take longer than the port timeout?
  MaxKills,        \* bound: times the host program is killed
  MaxRestarts      \* bound: times it is started again

ASSUME HostAssumption ==
  /\ Payloads \subseteq Nat /\ DefaultPayload \in Payloads
  /\ {MaxPings, MaxCommands, MaxKills, MaxRestarts} \subseteq Nat
  /\ Slow \in BOOLEAN

VARIABLES
  app,       \* AppState: payload and simulate_error, behind the RwLock
  hpc,       \* where the pinger task is
  req,       \* signed_ping's copy of the state, and the key pair it made
  response,  \* what read_exact has so far
  \* history
  pings, commands, kills, restarts,
  reported   \* the ConnectionStats sent, with the request they are about

host == <<app, hpc, req, response>>
hostHistory == <<pings, commands, kills, restarts, reported>>

DefaultApp == [payload |-> DefaultPayload, simulate_error |-> FALSE]

NoSecret == 0     \* [0u8; 32]
Rejected == -1    \* what decapsulate makes of a ciphertext that is not for its key

HostInit ==
  /\ app = DefaultApp
  /\ hpc = "sleep"
  /\ req = NoRequest
  /\ response = << >>
  /\ pings = 0
  /\ commands = 0
  /\ kills = 0
  /\ restarts = 0
  /\ reported = {}

(* The write lock is held for the whole command. *)
Command(newApp) ==
  /\ commands < MaxCommands
  /\ commands' = commands + 1
  /\ app' = newApp
  /\ UNCHANGED <<hpc, req, response, pings, kills, restarts, reported, link>>

UpdatePayload(len) == Command([app EXCEPT !.payload = len])
ToggleFail(force) == Command([app EXCEPT !.simulate_error = force])

-----------------------------------------------------------------------------
(* signed_ping *)

(* The read lock is held for the snapshot; port, key pair and signature are  *)
(* made from it.                                                             *)
StartPing ==
  /\ hpc = "sleep"
  /\ pings < MaxPings
  /\ pings' = pings + 1
  /\ req' = [ping |-> pings + 1, payload |-> app.payload, fail |-> app.simulate_error]
  /\ response' = << >>
  /\ IF attached THEN open' = TRUE /\ hpc' = "prefix"
                 ELSE open' = open /\ hpc' = "dead"    \* expect("Failed to open port")
  /\ UNCHANGED <<app, commands, kills, restarts, reported,
                 toClient, toHost, attached, interrupted>>

Write(from, packets, to) ==
  /\ hpc = from
  /\ open
  /\ toClient' = toClient \o packets
  /\ hpc' = to
  /\ UNCHANGED <<app, req, response, hostHistory, toHost, open, attached, interrupted>>

WritePrefix == Write("prefix", Packets(req, "prefix", PACKET), "payload")
WritePayload == Write("payload", PayloadPackets(req), "signature")
WriteSignature == Write("signature", SignaturePackets(req), "read")

ResponsePackets == 1 + CT \div PACKET

(* read_exact; a packet of no bytes adds nothing. *)
Read ==
  /\ hpc = "read"
  /\ open
  /\ Len(response) < ResponsePackets
  /\ toHost # << >>
  /\ response' = IF Head(toHost).len = 0 THEN response ELSE Append(response, Head(toHost))
  /\ toHost' = Tail(toHost)
  /\ UNCHANGED <<app, hpc, req, hostHistory, toClient, open, attached, interrupted>>

(* Mutant: the status is not looked at. *)
Success_Always(first) == {TRUE}

(* response[0] == 0xff; the first byte of a ciphertext may be anything. *)
Success(first) == IF first.part = "status" THEN {first.ok} ELSE BOOLEAN

(* Only the whole of a ciphertext made for this ping's key gives the secret. *)
Decapsulate(packets) ==
  IF \A k \in DOMAIN packets : /\ packets[k].part = "enc" /\ packets[k].k = k
                               /\ packets[k].req = req
                               /\ packets[k].secret = packets[1].secret
    THEN packets[1].secret ELSE Rejected

(* Both answers are reported; the port is closed as `port' goes out of scope. *)
Report ==
  /\ hpc = "read"
  /\ open
  /\ Len(response) = ResponsePackets
  /\ \E success \in Success(Head(response)) :
       reported' = reported \cup
         {[req |-> req, success |-> success,
           secret |-> IF success THEN Decapsulate(Tail(response)) ELSE NoSecret]}
  /\ Close
  /\ hpc' = "sleep"
  /\ response' = << >>
  /\ UNCHANGED <<app, req, pings, commands, kills, restarts,
                 toClient, attached, interrupted>>

-----------------------------------------------------------------------------
(* The pinger's ends, and a new start of the program. *)

Pinging == hpc \in {"prefix", "payload", "signature", "read"}

(* Closing the port lets go of what the device has not taken. *)
Die ==
  /\ hpc' = "dead"
  /\ Close
  /\ \E k \in 0 .. Len(toClient) : toClient' = SubSeq(toClient, 1, k)
  /\ response' = << >>
  /\ interrupted' = (interrupted \/ open)
  /\ UNCHANGED <<app, req, pings, commands, restarts, reported, attached>>

(* unwrap on read_exact's TimedOut: no byte for a second *)
ReadTimeout ==
  /\ Slow
  /\ hpc = "read"
  /\ open
  /\ Len(response) < ResponsePackets
  /\ toHost = << >>
  /\ Die
  /\ UNCHANGED kills

(* expect("write failed"), or unwrap on flush or read_exact: the device is gone *)
IoError ==
  /\ Pinging
  /\ ~open
  /\ Die
  /\ UNCHANGED kills

Kill ==
  /\ kills < MaxKills
  /\ hpc # "dead"
  /\ kills' = kills + 1
  /\ Die

Restart ==
  /\ hpc = "dead"
  /\ restarts < MaxRestarts
  /\ restarts' = restarts + 1
  /\ hpc' = "sleep"
  /\ app' = DefaultApp
  /\ UNCHANGED <<req, response, pings, commands, kills, reported, link>>

PingerStep == StartPing \/ WritePrefix \/ WritePayload \/ WriteSignature \/ Read \/ Report
                \/ IoError

HostStep ==
  \/ PingerStep
  \/ \E len \in Payloads : UpdatePayload(len)
  \/ \E force \in BOOLEAN : ToggleFail(force)
  \/ ReadTimeout
  \/ Kill
  \/ Restart
=============================================================================
