----------------------------- MODULE DemoClient -----------------------------
(***************************************************************************)
(* demo_client.rs: `echo', which assembles a request packet by packet,       *)
(* verifies it, encapsulates to the key in it and writes the answer, and the *)
(* loop around it.  A disconnection ends echo wherever it waits for the      *)
(* endpoint; nothing of the request is kept.                                 *)
(***************************************************************************)
EXTENDS DemoLink, FiniteSets

CONSTANT MaxUnplugs  \* bound: disconnections

ASSUME MaxUnplugsAssumption == MaxUnplugs \in Nat

VARIABLES
  cpc,             \* where echo is
  payload_len,     \* as the prefix says
  payload_buffer,  \* packets copied to payload_buffer[..read_bytes_payload]
  signature,       \* packets copied to signature[..read_bytes_signature]
  answer,          \* packets of the answer still to be written
  \* history
  established,     \* the secrets derived, with the request they are about
  unplugs

client == <<cpc, payload_len, payload_buffer, signature, answer>>
clientHistory == <<established, unplugs>>

Fresh ==
  /\ payload_len' = 0
  /\ payload_buffer' = << >>
  /\ signature' = << >>
  /\ answer' = << >>

ClientInit ==
  /\ cpc = "wait"
  /\ payload_len = 0
  /\ payload_buffer = << >>
  /\ signature = << >>
  /\ answer = << >>
  /\ established = {}
  /\ unplugs = 0

Bytes(packets) ==
  LET sum[k \in 0 .. Len(packets)] == IF k = 0 THEN 0 ELSE sum[k - 1] + packets[k].len
  IN sum[Len(packets)]

WaitConnection ==
  /\ cpc = "wait"
  /\ attached
  /\ cpc' = "prefix"
  /\ Fresh
  /\ UNCHANGED <<clientHistory, link>>

ReadPacket(at) ==
  /\ cpc = at
  /\ attached
  /\ toClient # << >>
  /\ toClient' = Tail(toClient)
  /\ UNCHANGED <<toHost, open, attached, interrupted, answer, clientHistory>>

(* The first two bytes, whatever packet they are of. *)
PrefixOf(packet) ==
  IF packet.part = "prefix" THEN {PrefixValue(packet.req)} ELSE 0 .. U16 - 1

ReadPrefix ==
  /\ ReadPacket("prefix")
  /\ payload_len' \in PrefixOf(Head(toClient))
  /\ cpc' = IF payload_len' = 0 THEN "signature" ELSE "payload"
  /\ UNCHANGED <<payload_buffer, signature>>

(* The slice of payload_buffer is out of bounds: a panic stops the device. *)
ReadPayload ==
  /\ ReadPacket("payload")
  /\ payload_buffer' = Append(payload_buffer, Head(toClient))
  /\ LET read == Bytes(payload_buffer')
     IN cpc' = IF read > KEY + MAX_PAYLOAD THEN "halted"
               ELSE IF read < payload_len THEN "payload" ELSE "signature"
  /\ UNCHANGED <<payload_len, signature>>

ReadSignature ==
  /\ ReadPacket("signature")
  /\ signature' = Append(signature, Head(toClient))
  /\ LET read == Bytes(signature')
     IN cpc' = IF read > SIG THEN "halted"
               ELSE IF read < SIG THEN "signature" ELSE "verify"
  /\ UNCHANGED <<payload_len, payload_buffer>>

(* Mutant: the result of verify is not looked at. *)
Verified_Always == payload_buffer # << >>

(* The bytes are what one request's host signed, and its signature unaltered. *)
Verified ==
  /\ payload_buffer # << >>
  /\ LET r == payload_buffer[1].req
     IN /\ payload_buffer = PayloadPackets(r)
        /\ signature = SignaturePackets(r)
        /\ ~r.fail

(* Mutant: the answer starts with the ciphertext. *)
Answer_NoStatus(r, ok, secret) ==
  [k \in 1 .. CT \div PACKET |->
     [req |-> r, part |-> "enc", k |-> k, len |-> PACKET, ok |-> ok, secret |-> secret]]

(* The status packet, the ciphertext, and a packet of no bytes after it. *)
Answer(r, ok, secret) ==
  LET packet(part, k, len) ==
        [req |-> r, part |-> part, k |-> k, len |-> len, ok |-> ok, secret |-> secret]
  IN <<packet("status", 1, PACKET)>>
       \o [k \in 1 .. CT \div PACKET |-> packet("enc", k, PACKET)]
       \o <<packet("zlp", 1, 0)>>

Verify ==
  /\ cpc = "verify"
  /\ IF Verified
       THEN cpc' = "encapsulate" /\ UNCHANGED answer
       ELSE cpc' = "write" /\ answer' = Answer(NoRequest, FALSE, 0)
  /\ UNCHANGED <<payload_len, payload_buffer, signature, clientHistory, link>>

(* Once async_fill_bytes has given randomness: a secret no one has had. *)
Encapsulate ==
  /\ cpc = "encapsulate"
  /\ LET r == payload_buffer[1].req
         secret == Cardinality(established) + 1
     IN /\ established' = established \cup {[req |-> r, secret |-> secret]}
        /\ answer' = Answer(r, TRUE, secret)
  /\ cpc' = "write"
  /\ UNCHANGED <<payload_len, payload_buffer, signature, unplugs, link>>

(* After the last packet echo returns and, still connected, starts over. *)
WritePacket ==
  /\ cpc = "write"
  /\ attached
  /\ RoomToHost
  /\ toHost' = Append(toHost, Head(answer))
  /\ IF Len(answer) > 1
       THEN /\ answer' = Tail(answer)
            /\ UNCHANGED <<cpc, payload_len, payload_buffer, signature>>
       ELSE cpc' = "prefix" /\ Fresh
  /\ UNCHANGED <<toClient, open, attached, interrupted, clientHistory>>

-----------------------------------------------------------------------------
(* The endpoints are disabled: echo's `?' returns where it is waiting for     *)
(* one.  While it computes it does not notice before its next write.          *)

AtEndpoint == {"prefix", "payload", "signature", "write"}

(* Mutant: echo goes on with the request it was reading. *)
Unplug_KeepsRequest ==
  /\ unplugs < MaxUnplugs
  /\ attached
  /\ unplugs' = unplugs + 1
  /\ attached' = FALSE
  /\ open' = FALSE
  /\ toClient' = << >>
  /\ toHost' = << >>
  /\ interrupted' = (cpc \in {"verify", "encapsulate"})
  /\ UNCHANGED <<client, established>>

Unplug ==
  /\ unplugs < MaxUnplugs
  /\ attached
  /\ unplugs' = unplugs + 1
  /\ attached' = FALSE
  /\ open' = FALSE
  /\ toClient' = << >>
  /\ toHost' = << >>
  /\ interrupted' = (cpc \in {"verify", "encapsulate"})
  /\ IF cpc \in AtEndpoint THEN cpc' = "wait" /\ Fresh
                           ELSE UNCHANGED client
  /\ UNCHANGED established

Plug ==
  /\ ~attached
  /\ attached' = TRUE
  /\ UNCHANGED <<client, clientHistory, toClient, toHost, open, interrupted>>

(* write_packet(..).await? after an unplug that echo had not noticed *)
Disconnected ==
  /\ cpc = "write"
  /\ ~attached
  /\ cpc' = "wait"
  /\ Fresh
  /\ UNCHANGED <<clientHistory, link>>

EchoStep == WaitConnection \/ ReadPrefix \/ ReadPayload \/ ReadSignature
              \/ Verify \/ Encapsulate \/ WritePacket \/ Disconnected

ClientStep == EchoStep \/ Unplug \/ Plug
=============================================================================
