----------------------------- MODULE KeyExchange ----------------------------
(***************************************************************************)
(* What the two demo programs promise (demo_host/README.md 44-77): in each   *)
(* run the host asks with a fresh key; unless the signature is wrong, the    *)
(* client derives a fresh secret and the host gets the same one; if it is    *)
(* wrong, the client derives nothing and the host learns of the error.       *)
(***************************************************************************)
EXTENDS Integers

CONSTANTS
  NoRequest,
  Payloads,   \* the payload lengths a request may have
  Secrets     \* the secrets there are, positive numbers

VARIABLES
  current,      \* the request being answered, or NoRequest
  asked,        \* runs so far
  established,  \* the secrets the client has derived
  reported      \* the outcomes the host has reported

vars == <<current, asked, established, reported>>

Init ==
  /\ current = NoRequest
  /\ asked = 0
  /\ established = {}
  /\ reported = {}

Ask(r) ==
  /\ current = NoRequest
  /\ r.ping = asked + 1
  /\ current' = r
  /\ asked' = asked + 1
  /\ UNCHANGED <<established, reported>>

Answered == \E e \in established : e.req = current

Derive(secret) ==
  /\ current # NoRequest
  /\ ~current.fail
  /\ ~Answered
  /\ \A e \in established : e.secret # secret
  /\ established' = established \cup {[req |-> current, secret |-> secret]}
  /\ UNCHANGED <<current, asked, reported>>

Outcome(success, secret) == [req |-> current, success |-> success, secret |-> secret]

Finish ==
  /\ current # NoRequest
  /\ \/ /\ current.fail
        /\ reported' = reported \cup {Outcome(FALSE, 0)}
     \/ \E e \in established :
          /\ e.req = current
          /\ reported' = reported \cup {Outcome(TRUE, e.secret)}
  /\ current' = NoRequest
  /\ UNCHANGED <<asked, established>>

Requests == [ping : {asked + 1}, payload : Payloads, fail : BOOLEAN]

Next ==
  \/ \E r \in Requests : Ask(r)
  \/ \E secret \in Secrets : Derive(secret)
  \/ Finish

(* A run that has begun comes to its end. *)
Spec == Init /\ [][Next]_vars /\ WF_vars(Finish) /\ WF_vars(\E s \in Secrets : Derive(s))
=============================================================================
