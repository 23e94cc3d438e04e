-------------------------------- MODULE Demo --------------------------------
(* The host and the client of the IoT demo at the two ends of the serial line. *)
EXTENDS DemoHost, DemoClient

vars == <<host, hostHistory, client, clientHistory, link>>

Init == HostInit /\ ClientInit /\ LinkInit

HostNext == HostStep /\ UNCHANGED <<client, clientHistory>>

ClientNext == ClientStep /\ UNCHANGED <<host, hostHistory>>

Next == HostNext \/ ClientNext

Spec == Init /\ [][Next]_vars

(***************************************************************************)
(* The pinger is a task of a multi-threaded runtime with nothing to block it *)
(* but its own calls; echo is polled by the board's executor whenever an     *)
(* endpoint wakes it.  Neither is promised a dashboard, a fault or a restart.*)
(***************************************************************************)
FairSpec ==
  /\ Spec
  /\ WF_vars(PingerStep /\ UNCHANGED <<client, clientHistory>>)
  /\ WF_vars(EchoStep /\ UNCHANGED <<host, hostHistory>>)

-----------------------------------------------------------------------------
(* Properties *)

(* A secret the host reports is the one the client derived for that ping.     *)
Shared(r) == r.success => [req |-> r.req, secret |-> r.secret] \in established
Agrees(r) == (r.success <=> ~r.req.fail) /\ Shared(r)
NewReportsAgree == \A r \in reported' \ reported : interrupted \/ Agrees(r)

(***************************************************************************)
(* What the host reports of a ping is what its own snapshot of simulate_error*)
(* called for, and a secret it reports is the one the client derived for     *)
(* that ping's key (README.md 52-54), for every ping that no earlier ping's  *)
(* remains can have reached.                                                 *)
(***************************************************************************)
AgreedUnlessInterrupted == [][NewReportsAgree]_vars

(***************************************************************************)
(* One request gets at most one secret out of the client, and no request of  *)
(* a forced failure gets any, whatever was cut short before it (main.rs      *)
(* 343-345, demo_client.rs 290-303).                                         *)
(***************************************************************************)
OneSecretPerRequest ==
  \A e \in established :
    /\ ~e.req.fail
    /\ \A f \in established : f.req.ping = e.req.ping => f = e

(***************************************************************************)
(* Between pings nothing of a ping is left on the line or in the client but  *)
(* the packet of no bytes: the framing, which has no marker to resynchronise *)
(* on, starts right with the next prefix.                                    *)
(***************************************************************************)
QuietBetweenPings ==
  hpc = "sleep" /\ ~interrupted /\ cpc # "halted" =>
    /\ toClient = << >>
    /\ \A k \in DOMAIN toHost : toHost[k].part = "zlp"
    /\ \/ cpc \in {"wait", "prefix"}
       \/ cpc = "write" /\ \A k \in DOMAIN answer : answer[k].part = "zlp"

(* README.md 54, "Both: fresh ML-KEM 768 shared secret ss": what the host     *)
(* reports as the secret of a successful run, the client has derived in it.  *)
SecretIsShared == \A r \in reported : Shared(r)

(* README.md 7-8, "repeatedly runs": each ping is followed by the next.       *)
PingsGoOn == \A n \in 1 .. MaxPings - 1 : pings = n ~> pings > n

(***************************************************************************)
(* The two programs carry out the exchange of the README.                    *)
(***************************************************************************)
Exchange == INSTANCE KeyExchange WITH
  current <- IF Pinging THEN req ELSE NoRequest,
  asked <- pings,
  Secrets <- 1 .. MaxPings

ImplementsKeyExchange == Exchange!Spec
=============================================================================
