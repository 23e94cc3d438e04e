----------------------------- MODULE Demo_proofs ----------------------------
(***************************************************************************)
(* Safety of the demo for packets, keys and payloads of any length and any    *)
(* number of pings, faults and restarts; and of the dashboard, for any number *)
(* of pages, at the end.                                                     *)
(***************************************************************************)
EXTENDS Demo, Dashboard, SequenceTheorems, FiniteSetTheorems, WellFoundedInduction, TLAPS

(* The types, of packets first: parts of a request and of an answer.          *)
Request == [ping : Nat, payload : Payloads \cup {0}, fail : BOOLEAN]
Packet == [req : Request, part : {"prefix", "payload", "signature"}, k : Nat, len : Nat]
AnswerPacket ==
  [req : Request, part : {"status", "enc", "zlp"}, k : Nat, len : Nat,
   ok : BOOLEAN, secret : Nat]

HostPc == {"sleep", "prefix", "payload", "signature", "read", "dead"}
ClientPc == {"wait", "prefix", "payload", "signature", "verify", "encapsulate", "write", "halted"}

HostTypes ==
  /\ app \in [payload : Payloads, simulate_error : BOOLEAN]
  /\ hpc \in HostPc
  /\ req \in Request
  /\ response \in Seq(AnswerPacket)
  /\ pings \in Nat /\ kills \in Nat
ClientTypes ==
  /\ cpc \in ClientPc
  /\ payload_len \in Nat
  /\ payload_buffer \in Seq(Packet)
  /\ signature \in Seq(Packet)
  /\ answer \in Seq(AnswerPacket)
  /\ cpc = "write" => answer # << >>
  /\ cpc = "encapsulate" => Verified
  /\ unplugs \in Nat
  /\ IsFiniteSet(established)
  /\ \A e \in established : e \in [req : Request, secret : Nat]
LinkTypes ==
  /\ toClient \in Seq(Packet)
  /\ toHost \in Seq(AnswerPacket)
  /\ open \in BOOLEAN /\ attached \in BOOLEAN /\ interrupted \in BOOLEAN
Types == HostTypes /\ ClientTypes /\ LinkTypes

(* Between requests the client's buffers are empty. *)
Buffers ==
  /\ cpc \in {"wait", "prefix"} => payload_buffer = << >>
  /\ cpc \in {"wait", "prefix", "payload"} => signature = << >>

-----------------------------------------------------------------------------
(* One request, one secret: the first packet of a request's signature is     *)
(* written once and so read once, and a secret costs one.                    *)
Ticket(packet) == packet.part = "signature" /\ packet.k = 1

BeforeSignature(pc) == pc \in {"prefix", "payload", "signature"}

(* With `last' pings started and the host at pc, has this one been signed and  *)
(* its signature written?                                                     *)
Signed(ping, last, pc) == ping < last \/ (ping = last /\ ~BeforeSignature(pc))

ReadingSignature == cpc \in {"signature", "verify", "encapsulate"}

Tickets ==
  /\ BeforeSignature(hpc) => req.ping = pings
  /\ \A i \in DOMAIN toClient : Ticket(toClient[i]) => Signed(toClient[i].req.ping, pings, hpc)
  /\ \A i, j \in DOMAIN toClient :
       Ticket(toClient[i]) /\ Ticket(toClient[j]) /\ toClient[i].req.ping = toClient[j].req.ping
         => i = j
  /\ ReadingSignature =>
       \A i \in DOMAIN signature : Ticket(signature[i]) =>
         /\ Signed(signature[i].req.ping, pings, hpc)
         /\ \A j \in DOMAIN toClient :
              Ticket(toClient[j]) => toClient[j].req.ping # signature[i].req.ping

Spent ==
  \A e \in established :
    /\ Signed(e.req.ping, pings, hpc)
    /\ \A i \in DOMAIN toClient : Ticket(toClient[i]) => toClient[i].req.ping # e.req.ping
    /\ ReadingSignature =>
         \A i \in DOMAIN signature :
           Ticket(signature[i]) => signature[i].req.ping # e.req.ping

TicketInv == Types /\ Buffers /\ Tickets /\ Spent /\ OneSecretPerRequest

-----------------------------------------------------------------------------
LEMMA Sizes ==
  /\ PACKET \in Nat \ {0} /\ KEY \in Nat \ {0} /\ SIG \in Nat \ {0} /\ CT \in Nat \ {0}
  /\ U16 \in Nat \ {0} /\ MAX_PAYLOAD \in Nat
  /\ CT % PACKET = 0 /\ KEY + MAX_PAYLOAD < U16
  /\ Payloads \subseteq Nat /\ DefaultPayload \in Payloads
BY SizesAssumption, HostAssumption

LEMMA Lengths == Payloads \cup {0} \subseteq Nat
BY HostAssumption

(* Two sequences joined. *)
LEMMA Joined ==
  ASSUME NEW S, NEW s \in Seq(S), NEW t \in Seq(S)
  PROVE  /\ s \o t \in Seq(S)
         /\ Len(s \o t) = Len(s) + Len(t)
         /\ \A k \in 1 .. Len(s) : (s \o t)[k] = s[k]
         /\ \A k \in 1 .. Len(t) : (s \o t)[Len(s) + k] = t[k]
OBVIOUS

LEMMA Division ==
  ASSUME NEW a \in Nat, NEW n \in Nat \ {0}
  PROVE  a \div n \in Nat /\ a % n \in 0 .. n - 1 /\ a = (a \div n) * n + (a % n)
BY SMTT(60)

(* The packets of n bytes: all but the last are full. *)
LEMMA PacketCount ==
  ASSUME NEW n \in Nat \ {0}, NEW c, c = (n + PACKET - 1) \div PACKET
  PROVE  /\ c \in Nat \ {0}
         /\ n <= c * PACKET
         /\ (c - 1) * PACKET < n
<1> DEFINE a == n + PACKET - 1
           q == a \div PACKET
           d == a % PACKET
<1>1. PACKET \in Nat \ {0}
  BY Sizes
<1>2. a \in Nat
  BY <1>1
<1>3. q \in Nat /\ d \in 0 .. PACKET - 1 /\ a = q * PACKET + d
  BY <1>1, <1>2, Division
<1>4. q = c
  BY <1>1
<1> HIDE DEF q, d
<1>5. n <= q * PACKET /\ q * PACKET <= n + PACKET - 1
  BY <1>1, <1>3, SMT
<1>6. q # 0
  BY <1>1, <1>5, SMT
<1>7. (q - 1) * PACKET = q * PACKET - PACKET
  BY <1>1, <1>3, SMT
<1> QED
  BY <1>1, <1>3, <1>4, <1>5, <1>6, <1>7

LEMMA PacketsType ==
  ASSUME NEW r \in Request, NEW part \in {"prefix", "payload", "signature"},
         NEW n \in Nat \ {0}
  PROVE  LET c == (n + PACKET - 1) \div PACKET IN
         /\ Packets(r, part, n) \in Seq(Packet)
         /\ Len(Packets(r, part, n)) = c
         /\ DOMAIN Packets(r, part, n) = 1 .. c
         /\ \A k \in 1 .. c :
              Packets(r, part, n)[k] =
                [req |-> r, part |-> part, k |-> k,
                 len |-> IF k * PACKET <= n THEN PACKET ELSE n % PACKET]
<1> DEFINE c == (n + PACKET - 1) \div PACKET
           p(k) == [req |-> r, part |-> part, k |-> k,
                    len |-> IF k * PACKET <= n THEN PACKET ELSE n % PACKET]
<1>1. PACKET \in Nat \ {0}
  BY Sizes
<1>2. c \in Nat
  BY PacketCount
<1>3. n % PACKET \in Nat
  BY <1>1
<1>4. \A k \in 1 .. c : p(k) \in Packet
  BY <1>1, <1>3 DEF Packet
<1>5. Packets(r, part, n) = [k \in 1 .. c |-> p(k)]
  BY DEF Packets
<1> HIDE DEF c, p
<1>6. Packets(r, part, n) \in Seq(Packet) /\ Len(Packets(r, part, n)) = c
  BY <1>2, <1>4, <1>5
<1>7. \A k \in 1 .. c : Packets(r, part, n)[k] = p(k)
  BY <1>5
<1> QED
  BY <1>5, <1>6, <1>7 DEF c, p

LEMMA Written3 ==
  ASSUME NEW r \in Request
  PROVE  /\ Packets(r, "prefix", PACKET) \in Seq(Packet)
         /\ PayloadPackets(r) \in Seq(Packet)
         /\ SignaturePackets(r) \in Seq(Packet)
<1>1. KEY + r.payload \in Nat \ {0} /\ SIG \in Nat \ {0} /\ PACKET \in Nat \ {0}
  <2>1. r.payload \in Payloads \cup {0}
    BY DEF Request
  <2>2. r.payload \in Nat
    BY <2>1, Lengths, Zenon
  <2> QED
    BY <2>2, Sizes
<1> QED
  BY <1>1, PacketsType DEF PayloadPackets, SignaturePackets

(* A part of a sequence, and what is left without one. *)
LEMMA Parts ==
  ASSUME NEW S, NEW s \in Seq(S)
  PROVE  /\ \A k \in 0 .. Len(s) : SubSeq(s, 1, k) \in Seq(S) /\ SubSeq(s, k + 1, Len(s)) \in Seq(S)
         /\ s # << >> => Tail(s) \in Seq(S) /\ Head(s) \in S
<1>1. ASSUME NEW k \in 0 .. Len(s)
      PROVE  SubSeq(s, 1, k) \in Seq(S) /\ SubSeq(s, k + 1, Len(s)) \in Seq(S)
  OBVIOUS
<1>2. ASSUME s # << >> PROVE Tail(s) \in Seq(S) /\ Head(s) \in S
  BY <1>2
<1> QED
  BY <1>1, <1>2

IsAnswer(a, r, ok, secret) ==
  LET packet(part, k, len) ==
        [req |-> r, part |-> part, k |-> k, len |-> len, ok |-> ok, secret |-> secret]
  IN /\ a \in Seq(AnswerPacket)
     /\ ResponsePackets \in Nat /\ ResponsePackets >= 2
     /\ Len(a) = ResponsePackets + 1
     /\ a[1] = packet("status", 1, PACKET)
     /\ \A k \in 2 .. ResponsePackets : a[k] = packet("enc", k - 1, PACKET)
     /\ a[ResponsePackets + 1] = packet("zlp", 1, 0)

LEMMA AnswerType ==
  ASSUME NEW r \in Request, NEW ok \in BOOLEAN, NEW secret \in Nat
  PROVE  IsAnswer(Answer(r, ok, secret), r, ok, secret)
<1> DEFINE packet(part, k, len) ==
             [req |-> r, part |-> part, k |-> k, len |-> len, ok |-> ok, secret |-> secret]
           c == CT \div PACKET
           status == <<packet("status", 1, PACKET)>>
           enc == [k \in 1 .. c |-> packet("enc", k, PACKET)]
           zlp == <<packet("zlp", 1, 0)>>
<1>1. c \in Nat \ {0}
  <2> DEFINE d == CT % PACKET
  <2>1. CT \in Nat \ {0} /\ PACKET \in Nat \ {0} /\ d = 0
    BY Sizes
  <2>2. c \in Nat /\ CT = c * PACKET + d
    BY <2>1, SMT
  <2> HIDE DEF c, d
  <2>3. c # 0
    BY <2>1, <2>2, SMT
  <2> QED
    BY <2>2, <2>3
<1>2. PACKET \in Nat
  BY Sizes
<1>3. \A k \in Nat, len \in Nat, part \in {"status", "enc", "zlp"} : packet(part, k, len) \in AnswerPacket
  BY DEF AnswerPacket
<1>4. Answer(r, ok, secret) = status \o enc \o zlp
  BY DEF Answer
<1>5. ResponsePackets = 1 + c
  BY DEF ResponsePackets
<1> HIDE DEF packet, c
<1>6. status \in Seq(AnswerPacket) /\ Len(status) = 1 /\ status[1] = packet("status", 1, PACKET)
  BY <1>2, <1>3
<1>7. zlp \in Seq(AnswerPacket) /\ Len(zlp) = 1 /\ zlp[1] = packet("zlp", 1, 0)
  BY <1>2, <1>3
<1>8. enc \in Seq(AnswerPacket) /\ Len(enc) = c /\ \A k \in 1 .. c : enc[k] = packet("enc", k, PACKET)
  BY <1>1, <1>2, <1>3
<1> HIDE DEF status, enc, zlp
<1> DEFINE front == status \o enc
<1>9. /\ front \in Seq(AnswerPacket) /\ Len(front) = 1 + c
      /\ front[1] = packet("status", 1, PACKET)
      /\ \A k \in 1 .. c : front[1 + k] = enc[k]
  <2>1. /\ front \in Seq(AnswerPacket) /\ Len(front) = Len(status) + Len(enc)
        /\ \A k \in 1 .. Len(status) : front[k] = status[k]
        /\ \A k \in 1 .. Len(enc) : front[Len(status) + k] = enc[k]
    <3>1. status \in Seq(AnswerPacket) /\ enc \in Seq(AnswerPacket)
      BY <1>6, <1>8
    <3> QED
      BY <3>1, Joined
  <2> HIDE DEF front
  <2> QED
    BY <1>1, <1>6, <1>8, <2>1
<1> HIDE DEF front
<1>10. /\ front \o zlp \in Seq(AnswerPacket) /\ Len(front \o zlp) = 2 + c
       /\ \A k \in 1 .. 1 + c : (front \o zlp)[k] = front[k]
       /\ (front \o zlp)[1 + c + 1] = zlp[1]
  <2> DEFINE all == front \o zlp
  <2>1. /\ all \in Seq(AnswerPacket) /\ Len(all) = Len(front) + Len(zlp)
        /\ \A k \in 1 .. Len(front) : all[k] = front[k]
        /\ \A k \in 1 .. Len(zlp) : all[Len(front) + k] = zlp[k]
    <3>1. front \in Seq(AnswerPacket) /\ zlp \in Seq(AnswerPacket)
      BY <1>7, <1>9
    <3> QED
      BY <3>1, Joined
  <2> HIDE DEF all
  <2>2. /\ all \in Seq(AnswerPacket) /\ Len(all) = 2 + c
        /\ \A k \in 1 .. 1 + c : all[k] = front[k]
        /\ all[1 + c + 1] = zlp[1]
    BY <1>1, <1>7, <1>9, <2>1
  <2> QED
    BY <2>2 DEF all
<1>11. Answer(r, ok, secret) = front \o zlp
  BY <1>4 DEF front
<1>13. ASSUME NEW k \in 2 .. 1 + c PROVE (front \o zlp)[k] = packet("enc", k - 1, PACKET)
  <2>1. k - 1 \in 1 .. c /\ k \in 1 .. 1 + c /\ 1 + (k - 1) = k
    BY <1>1
  <2> QED
    BY <1>8, <1>9, <1>10, <2>1
<1>14. (front \o zlp)[1] = packet("status", 1, PACKET)
  BY <1>1, <1>9, <1>10
<1>15. /\ ResponsePackets \in Nat /\ ResponsePackets >= 2
       /\ 1 + c = ResponsePackets /\ 2 + c = ResponsePackets + 1
       /\ 1 + c + 1 = ResponsePackets + 1
  BY <1>1, <1>5
<1> DEFINE a == Answer(r, ok, secret)
<1>16. /\ a \in Seq(AnswerPacket)
       /\ Len(a) = ResponsePackets + 1
       /\ a[1] = packet("status", 1, PACKET)
       /\ \A k \in 2 .. ResponsePackets : a[k] = packet("enc", k - 1, PACKET)
       /\ a[ResponsePackets + 1] = packet("zlp", 1, 0)
  BY <1>7, <1>10, <1>11, <1>13, <1>14, <1>15
<1> HIDE DEF a
<1>17. IsAnswer(a, r, ok, secret)
  BY <1>15, <1>16 DEF packet, IsAnswer
<1> QED
  BY <1>17 DEF a

LEMMA NoRequestType == NoRequest \in Request
BY DEF NoRequest, Request

LEMMA AnswerLength == ResponsePackets \in Nat /\ ResponsePackets >= 2
<1> DEFINE a == Answer(NoRequest, TRUE, 0)
<1>1. IsAnswer(a, NoRequest, TRUE, 0)
  BY AnswerType, NoRequestType
<1> HIDE DEF a
<1> QED
  BY <1>1 DEF IsAnswer

LEMMA TypesInit == Init => Types
<1>1. DefaultApp \in [payload : Payloads, simulate_error : BOOLEAN]
  BY Sizes DEF DefaultApp
<1>2. IsFiniteSet({})
  BY FS_EmptySet
<1>3. ASSUME Init PROVE HostTypes
  BY <1>1, <1>3, NoRequestType DEF Init, HostInit, HostTypes, HostPc
<1>4. ASSUME Init PROVE ClientTypes
  BY <1>2, <1>4 DEF Init, ClientInit, ClientTypes, ClientPc
<1>5. ASSUME Init PROVE LinkTypes
  <2>1. toClient = << >> /\ toHost = << >> /\ open = FALSE /\ attached = TRUE /\ interrupted = FALSE
    BY <1>5 DEF Init, LinkInit
  <2>2. << >> \in Seq(Packet) /\ << >> \in Seq(AnswerPacket)
    OBVIOUS
  <2> QED
    BY <2>1, <2>2 DEF LinkTypes
<1> QED
  BY <1>3, <1>4, <1>5 DEF Types

(* Dying, the host leaves the first packets to the client on the line. *)
LEMMA DieTypes ==
  ASSUME Types, Die, kills' \in Nat, UNCHANGED <<client, clientHistory>>
  PROVE  Types'
<1>1. HostTypes'
  BY DEF Types, HostTypes, HostPc, Die
<1>2. toClient' \in Seq(Packet)
  BY Parts DEF Types, LinkTypes, Die
<1>3. toHost' \in Seq(AnswerPacket)
  BY Parts DEF Types, LinkTypes, Die, Close
<1>4. LinkTypes'
  BY <1>2, <1>3 DEF Types, LinkTypes, Die, Close
<1> QED
  BY <1>1, <1>4 DEF Types, ClientTypes, client, clientHistory, Verified

LEMMA HostStepTypes ==
  ASSUME Types, HostNext
  PROVE  Types'
<1> USE DEF Types
<1>1. ClientTypes' 
  BY DEF HostNext, ClientTypes, client, clientHistory, Verified
<1>2. CASE StartPing
  <2>1. req' \in Request
    BY <1>2 DEF StartPing, HostTypes, Request
  <2>2. hpc' \in {"prefix", "dead"} /\ pings' \in Nat /\ response' = << >>
    BY <1>2 DEF StartPing, HostTypes
  <2>3. HostTypes'
    BY <1>2, <2>1, <2>2 DEF StartPing, HostTypes, HostPc
  <2>4. open' \in BOOLEAN
    BY <1>2 DEF StartPing, LinkTypes
  <2>5. LinkTypes'
    BY <1>2, <2>4 DEF StartPing, LinkTypes
  <2> QED
    BY <1>1, <2>3, <2>5
<1>3. ASSUME NEW packets \in Seq(Packet), NEW from, NEW to \in HostPc, Write(from, packets, to)
      PROVE  Types'
  <2>1. toClient' \in Seq(Packet)
    BY <1>3 DEF Write, LinkTypes
  <2>2. HostTypes'
    BY <1>3 DEF Write, HostTypes, hostHistory
  <2>3. LinkTypes'
    BY <1>3, <2>1 DEF Write, LinkTypes
  <2> QED
    BY <1>1, <2>2, <2>3
<1>4. CASE WritePrefix \/ WritePayload \/ WriteSignature
  BY <1>3, <1>4, Written3 DEF WritePrefix, WritePayload, WriteSignature, HostPc, HostTypes
<1>5. CASE Read
  <2>1. toHost' \in Seq(AnswerPacket) /\ Head(toHost) \in AnswerPacket
    BY <1>5, Parts DEF Read, LinkTypes
  <2>2. response' \in Seq(AnswerPacket)
    BY <1>5, <2>1 DEF Read, HostTypes
  <2>3. HostTypes'
    BY <1>5, <2>2 DEF Read, HostTypes, hostHistory
  <2>4. LinkTypes'
    BY <1>5, <2>1 DEF Read, LinkTypes
  <2> QED
    BY <1>1, <2>3, <2>4
<1>6. CASE Report
  <2>1. toHost' \in Seq(AnswerPacket)
    BY <1>6, Parts DEF Report, Close, LinkTypes
  <2>2. HostTypes'
    BY <1>6 DEF Report, HostTypes, HostPc
  <2>3. LinkTypes'
    BY <1>6, <2>1 DEF Report, Close, LinkTypes
  <2> QED
    BY <1>1, <2>2, <2>3
<1>7. CASE IoError \/ ReadTimeout \/ Kill
  BY <1>7, DieTypes DEF HostNext, IoError, ReadTimeout, Kill, HostTypes
<1>8. CASE Restart
  <2>1. DefaultApp \in [payload : Payloads, simulate_error : BOOLEAN]
    BY Sizes DEF DefaultApp
  <2> QED
    BY <1>1, <1>8, <2>1 DEF Restart, link, HostTypes, HostPc, LinkTypes
<1>9. ASSUME NEW newApp \in [payload : Payloads, simulate_error : BOOLEAN], Command(newApp)
      PROVE  Types'
  BY <1>1, <1>9 DEF Command, link, HostTypes, LinkTypes
<1>10. ASSUME NEW len \in Payloads, UpdatePayload(len) PROVE Types'
  BY <1>9, <1>10 DEF UpdatePayload, HostTypes
<1>11. ASSUME NEW force \in BOOLEAN, ToggleFail(force) PROVE Types'
  BY <1>9, <1>11 DEF ToggleFail, HostTypes
<1> QED
  BY <1>2, <1>4, <1>5, <1>6, <1>7, <1>8, <1>10, <1>11 DEF HostNext, HostStep, PingerStep

LEMMA ClientStepTypes ==
  ASSUME Types, ClientNext
  PROVE  Types'
<1> USE DEF Types
<1>1. HostTypes'
  BY DEF ClientNext, HostTypes, host, hostHistory
<1>2. CASE WaitConnection
  BY <1>1, <1>2 DEF WaitConnection, Fresh, link, clientHistory, ClientTypes, ClientPc, LinkTypes
<1>3. ASSUME NEW at, ReadPacket(at) PROVE LinkTypes' /\ Head(toClient) \in Packet
  BY <1>3, Parts DEF ReadPacket, LinkTypes
<1>4. CASE ReadPrefix
  <2>1. Head(toClient) \in Packet
    BY <1>3, <1>4 DEF ReadPrefix
  <2>2. payload_len' \in Nat
    <3>1. PrefixOf(Head(toClient)) \subseteq Nat
      <4>1. \A r \in Request : PrefixValue(r) \in Nat
        <5>1. \A r \in Request : r.payload \in Nat
          <6>1. \A r \in Request : r.payload \in Payloads \cup {0}
            BY DEF Request
          <6> QED
            BY <6>1, Lengths, Zenon
        <5> QED
          BY <5>1, Sizes DEF PrefixValue
      <4>2. 0 .. U16 - 1 \subseteq Nat
        BY Sizes
      <4> QED
        BY <2>1, <4>1, <4>2 DEF PrefixOf, Packet
    <3> QED
      BY <1>4, <3>1 DEF ReadPrefix
  <2> QED
    BY <1>1, <1>3, <1>4, <2>2 DEF ReadPrefix, ReadPacket, clientHistory, ClientTypes, ClientPc
<1>5. CASE ReadPayload
  <2>1. payload_buffer' \in Seq(Packet)
    BY <1>3, <1>5 DEF ReadPayload, ClientTypes
  <2>2. cpc' \in {"payload", "signature", "halted"}
    BY <1>5 DEF ReadPayload
  <2> QED
    BY <1>1, <1>3, <1>5, <2>1, <2>2 DEF ReadPayload, ReadPacket, clientHistory, ClientTypes, ClientPc
<1>6. CASE ReadSignature
  <2>1. signature' \in Seq(Packet)
    BY <1>3, <1>6 DEF ReadSignature, ClientTypes
  <2>2. cpc' \in {"signature", "halted", "verify"}
    BY <1>6 DEF ReadSignature
  <2> QED
    BY <1>1, <1>3, <1>6, <2>1, <2>2 DEF ReadSignature, ReadPacket, clientHistory, ClientTypes, ClientPc
<1>7. ASSUME NEW r \in Request, NEW ok \in BOOLEAN, NEW secret \in Nat
      PROVE  Answer(r, ok, secret) \in Seq(AnswerPacket) /\ Answer(r, ok, secret) # << >>
  <2> DEFINE a == Answer(r, ok, secret)
  <2>1. a \in Seq(AnswerPacket) /\ Len(a) = ResponsePackets + 1 /\ ResponsePackets \in Nat
    <3>1. IsAnswer(a, r, ok, secret)
      BY AnswerType
    <3> HIDE DEF a
    <3> QED
      BY <3>1 DEF IsAnswer
  <2> HIDE DEF a
  <2>2. a # << >>
    BY <2>1
  <2> QED
    BY <2>1, <2>2 DEF a
<1>8. CASE Verify
  <2>1. cpc' = "write" => answer' \in Seq(AnswerPacket) /\ answer' # << >>
    <3>1. CASE Verified
      BY <1>8, <3>1 DEF Verify
    <3>2. CASE ~Verified
      <4>1. answer' = Answer(NoRequest, FALSE, 0)
        BY <1>8, <3>2 DEF Verify
      <4> QED
        BY <4>1, <1>7, NoRequestType
    <3> QED
      BY <3>1, <3>2
  <2>2. cpc' # "write" => answer' = answer
    BY <1>8 DEF Verify
  <2>3. cpc' \in {"encapsulate", "write"}
    BY <1>8 DEF Verify
  <2>4. cpc' = "encapsulate" => Verified'
    BY <1>8 DEF Verify, Verified
  <2> QED
    BY <1>1, <1>8, <2>1, <2>2, <2>3, <2>4 DEF Verify, clientHistory, link, ClientTypes, ClientPc, LinkTypes
<1>9. CASE Encapsulate
  <2> DEFINE r == payload_buffer[1].req
             secret == Cardinality(established) + 1
             e == [req |-> r, secret |-> secret]
  <2>1. r \in Request
    <3>1. payload_buffer \in Seq(Packet) /\ payload_buffer # << >>
      BY <1>9 DEF Encapsulate, ClientTypes, Verified
    <3>2. payload_buffer[1] \in Packet
      BY <3>1
    <3> QED
      BY <3>2 DEF Packet
  <2>2. secret \in Nat
    BY FS_CardinalityType DEF ClientTypes
  <2>3. answer' \in Seq(AnswerPacket) /\ answer' # << >>
    BY <1>9, <1>7, <2>1, <2>2 DEF Encapsulate
  <2>4. IsFiniteSet(established')
    BY <1>9, FS_AddElement DEF Encapsulate, ClientTypes
  <2>5. \A x \in established' : x \in [req : Request, secret : Nat]
    BY <1>9, <2>1, <2>2 DEF Encapsulate, ClientTypes
  <2> QED
    BY <1>1, <1>9, <2>3, <2>4, <2>5 DEF Encapsulate, link, ClientTypes, ClientPc, LinkTypes
<1>10. CASE WritePacket
  <2>1. /\ answer \in Seq(AnswerPacket) /\ answer # << >>
        /\ Tail(answer) \in Seq(AnswerPacket) /\ Head(answer) \in AnswerPacket
    BY <1>10, Parts DEF WritePacket, ClientTypes
  <2>2. toHost' \in Seq(AnswerPacket)
    BY <1>10, <2>1 DEF WritePacket, LinkTypes
  <2>3. ASSUME Len(answer) > 1 PROVE Tail(answer) # << >>
    <3>1. Len(Tail(answer)) = Len(answer) - 1 /\ Len(answer) \in Nat
      BY <2>1
    <3> QED
      BY <2>3, <3>1
  <2>4. LinkTypes'
    BY <1>10, <2>2 DEF WritePacket, LinkTypes
  <2>5. CASE Len(answer) > 1
    BY <1>1, <1>10, <2>1, <2>3, <2>4, <2>5 DEF WritePacket, clientHistory, ClientTypes
  <2>6. CASE ~(Len(answer) > 1)
    BY <1>1, <1>10, <2>4, <2>6 DEF WritePacket, Fresh, clientHistory, ClientTypes, ClientPc
  <2> QED
    BY <2>5, <2>6
<1>11. CASE Unplug
  <2>1. interrupted' \in BOOLEAN
    <3>1. (cpc \in {"verify", "encapsulate"}) \in BOOLEAN
      OBVIOUS
    <3> QED
      BY <1>11, <3>1, Zenon DEF Unplug
  <2>2. LinkTypes'
    <3>1. toClient' = << >> /\ toHost' = << >> /\ open' = FALSE /\ attached' = FALSE
      BY <1>11, Zenon DEF Unplug
    <3>2. << >> \in Seq(Packet) /\ << >> \in Seq(AnswerPacket)
      OBVIOUS
    <3> QED
      BY <2>1, <3>1, <3>2 DEF LinkTypes
  <2>3. CASE cpc \in AtEndpoint
    BY <1>1, <1>11, <2>2, <2>3 DEF Unplug, Fresh, ClientTypes, ClientPc
  <2>4. CASE cpc \notin AtEndpoint
    BY <1>1, <1>11, <2>2, <2>4 DEF Unplug, client, ClientTypes, Verified
  <2> QED
    BY <2>3, <2>4
<1>12. CASE Plug
  BY <1>1, <1>12 DEF Plug, client, clientHistory, ClientTypes, LinkTypes, Verified
<1>13. CASE Disconnected
  BY <1>1, <1>13 DEF Disconnected, Fresh, clientHistory, link, ClientTypes, ClientPc, LinkTypes
<1> QED
  BY <1>2, <1>4, <1>5, <1>6, <1>8, <1>9, <1>10, <1>11, <1>12, <1>13
  DEF ClientNext, ClientStep, EchoStep

LEMMA BuffersStep ==
  ASSUME Types, Buffers, [Next]_vars
  PROVE  Buffers'
<1>1. CASE UNCHANGED vars \/ HostNext
  BY <1>1 DEF vars, HostNext, client, clientHistory, Buffers
<1>2. CASE ClientNext
  <2>1. CASE WaitConnection \/ Disconnected
    BY <2>1 DEF WaitConnection, Disconnected, Fresh, Buffers
  <2>2. CASE ReadPrefix \/ ReadPayload \/ ReadSignature
    BY <2>2 DEF ReadPrefix, ReadPayload, ReadSignature, ReadPacket, Buffers
  <2>3. CASE Verify \/ Encapsulate
    BY <2>3 DEF Verify, Encapsulate, Buffers
  <2>4. CASE WritePacket
    BY <2>4 DEF WritePacket, Fresh, Buffers
  <2>5. CASE Unplug \/ Plug
    BY <2>5 DEF Unplug, Plug, Fresh, client, Buffers
  <2> QED
    BY <1>2, <2>1, <2>2, <2>3, <2>4, <2>5 DEF ClientNext, ClientStep, EchoStep
<1> QED
  BY <1>1, <1>2 DEF Next

-----------------------------------------------------------------------------
(* Tickets and secrets where no ticket is added to line or client. *)
LEMMA TicketsKept ==
  ASSUME Types, Tickets, Spent, NEW d \in Nat,
         \A i \in DOMAIN toClient' : d + i \in DOMAIN toClient /\ toClient'[i] = toClient[d + i],
         \A i \in DOMAIN toClient' : i \in Nat,
         \A n \in Nat : Signed(n, pings, hpc) => Signed(n, pings', hpc'),
         BeforeSignature(hpc') => req'.ping = pings',
         ReadingSignature' =>
           \A i \in DOMAIN signature' :
             ReadingSignature /\ i \in DOMAIN signature /\ signature'[i] = signature[i],
         established' = established
  PROVE  Tickets' /\ Spent'
<1>0. /\ \A i \in DOMAIN toClient : toClient[i].req.ping \in Nat
      /\ \A i \in DOMAIN signature : signature[i].req.ping \in Nat
      /\ \A e \in established : e.req.ping \in Nat
  <2>1. toClient \in Seq(Packet) /\ signature \in Seq(Packet)
    BY DEF Types, LinkTypes, ClientTypes
  <2>2. \A packet \in Packet : packet.req.ping \in Nat
    BY DEF Packet, Request
  <2>3. \A e \in established : e.req.ping \in Nat
    BY DEF Types, ClientTypes, Request
  <2> QED
    BY <2>1, <2>2, <2>3
<1>1. \A i \in DOMAIN toClient' : Ticket(toClient'[i]) => Signed(toClient'[i].req.ping, pings', hpc')
  BY <1>0 DEF Tickets
<1>2. ASSUME NEW i \in DOMAIN toClient', NEW j \in DOMAIN toClient',
             Ticket(toClient'[i]), Ticket(toClient'[j]),
             toClient'[i].req.ping = toClient'[j].req.ping
      PROVE  i = j
  <2>1. d + i = d + j
    BY <1>2 DEF Tickets
  <2> QED
    BY <2>1
<1>3. ASSUME ReadingSignature', NEW i \in DOMAIN signature', Ticket(signature'[i])
      PROVE  /\ Signed(signature'[i].req.ping, pings', hpc')
             /\ \A j \in DOMAIN toClient' :
                  Ticket(toClient'[j]) => toClient'[j].req.ping # signature'[i].req.ping
  BY <1>0, <1>3 DEF Tickets
<1>4. Tickets'
  BY <1>1, <1>2, <1>3 DEF Tickets
<1>5. ASSUME NEW e \in established
      PROVE  /\ Signed(e.req.ping, pings', hpc')
             /\ \A i \in DOMAIN toClient' :
                  Ticket(toClient'[i]) => toClient'[i].req.ping # e.req.ping
             /\ ReadingSignature' =>
                  \A i \in DOMAIN signature' :
                    Ticket(signature'[i]) => signature'[i].req.ping # e.req.ping
  BY <1>0 DEF Spent
<1>6. Spent'
  BY <1>5 DEF Spent
<1> QED
  BY <1>4, <1>6

LEMMA WriteTickets ==
  ASSUME Types, Tickets, Spent, NEW part \in {"prefix", "payload", "signature"},
         NEW n \in Nat \ {0}, BeforeSignature(hpc),
         toClient' = toClient \o Packets(req, part, n),
         UNCHANGED <<req, pings, cpc, signature, established>>,
         part # "signature" => BeforeSignature(hpc'),
         part = "signature" => ~BeforeSignature(hpc')
  PROVE  Tickets' /\ Spent'
<1> DEFINE new == Packets(req, part, n)
           L == Len(toClient)
<1>1. /\ toClient \in Seq(Packet) /\ new \in Seq(Packet) /\ req \in Request
      /\ req.ping = pings
      /\ \A k \in DOMAIN new : k \in Nat /\ new[k].req = req /\ new[k].part = part /\ new[k].k = k
  <2>1. toClient \in Seq(Packet) /\ req \in Request /\ req.ping = pings
    BY DEF Types, LinkTypes, HostTypes, Tickets
  <2>2. DOMAIN new = 1 .. Len(new) /\ new \in Seq(Packet)
    BY <2>1, PacketsType
  <2>3. \A k \in DOMAIN new : new[k].req = req /\ new[k].part = part /\ new[k].k = k
    BY DEF Packets
  <2> QED
    BY <2>1, <2>2, <2>3
<1> HIDE DEF new
<1>2. L \in Nat /\ DOMAIN toClient = 1 .. L
  BY <1>1
<1>3. ASSUME NEW i \in DOMAIN toClient'
      PROVE  /\ i \in Nat
             /\ i <= L => i \in DOMAIN toClient /\ toClient'[i] = toClient[i]
             /\ i > L => i - L \in DOMAIN new /\ toClient'[i] = new[i - L]
  <2>1. toClient' = toClient \o new
    BY DEF new
  <2> QED
    BY <1>1, <2>1
<1>4. pings \in Nat
  BY DEF Types, HostTypes
(* The only new ticket is that of the ping under way. *)
<1>5. ASSUME NEW i \in DOMAIN toClient', Ticket(toClient'[i])
      PROVE  \/ /\ i \in DOMAIN toClient /\ toClient'[i] = toClient[i]
                /\ toClient'[i].req.ping # pings
             \/ part = "signature" /\ i = L + 1 /\ toClient'[i].req.ping = pings
  <2>1. CASE i <= L
    <3>1. i \in DOMAIN toClient /\ toClient'[i] = toClient[i]
      BY <1>3, <2>1
    <3>2. Signed(toClient[i].req.ping, pings, hpc)
      BY <1>5, <3>1 DEF Tickets
    <3> QED
      BY <1>4, <3>1, <3>2 DEF Signed
  <2>2. CASE i > L
    BY <1>1, <1>2, <1>3, <1>5, <2>2 DEF Ticket
  <2> QED
    BY <1>2, <1>3, <2>1, <2>2
<1>6. \A p : Signed(p, pings, hpc) => Signed(p, pings', hpc') /\ p # pings
  BY <1>4 DEF Signed
<1>7. part = "signature" => Signed(pings, pings', hpc')
  BY DEF Signed
<1>8. ASSUME NEW i \in DOMAIN toClient', Ticket(toClient'[i])
      PROVE  Signed(toClient'[i].req.ping, pings', hpc')
  BY <1>5, <1>6, <1>7, <1>8 DEF Tickets
<1>9. ASSUME NEW i \in DOMAIN toClient', NEW j \in DOMAIN toClient',
             Ticket(toClient'[i]), Ticket(toClient'[j]),
             toClient'[i].req.ping = toClient'[j].req.ping
      PROVE  i = j
  BY <1>5, <1>9 DEF Tickets
<1>10. ASSUME ReadingSignature', NEW i \in DOMAIN signature', Ticket(signature'[i])
       PROVE  /\ Signed(signature'[i].req.ping, pings', hpc')
              /\ \A j \in DOMAIN toClient' :
                   Ticket(toClient'[j]) => toClient'[j].req.ping # signature'[i].req.ping
  <2>1. /\ Signed(signature[i].req.ping, pings, hpc) /\ signature' = signature
        /\ \A j \in DOMAIN toClient :
             Ticket(toClient[j]) => toClient[j].req.ping # signature[i].req.ping
    BY <1>10 DEF Tickets, ReadingSignature
  <2> QED
    BY <1>5, <1>6, <2>1
<1>11. Tickets'
  BY <1>1, <1>8, <1>9, <1>10 DEF Tickets
<1>12. ASSUME NEW e \in established
       PROVE  /\ Signed(e.req.ping, pings', hpc')
              /\ \A i \in DOMAIN toClient' :
                   Ticket(toClient'[i]) => toClient'[i].req.ping # e.req.ping
              /\ ReadingSignature' =>
                   \A i \in DOMAIN signature' :
                     Ticket(signature'[i]) => signature'[i].req.ping # e.req.ping
  <2>1. Signed(e.req.ping, pings, hpc)
    BY DEF Spent
  <2>2. \A i \in DOMAIN toClient' : Ticket(toClient'[i]) => toClient'[i].req.ping # e.req.ping
    BY <1>5, <1>6, <2>1, SMTT(30) DEF Spent
  <2> QED
    BY <1>6, <2>1, <2>2 DEF Spent, ReadingSignature
<1> QED
  BY <1>11, <1>12 DEF Spent

LEMMA ReadSignatureTickets ==
  ASSUME Types, Tickets, Spent, ReadSignature, UNCHANGED <<host, hostHistory>>
  PROVE  Tickets' /\ Spent'
<1> DEFINE L == Len(signature)
           h == toClient[1]
<1>1. /\ toClient \in Seq(Packet) /\ toClient # << >> /\ toClient' = Tail(toClient)
      /\ signature \in Seq(Packet) /\ signature' = Append(signature, Head(toClient))
      /\ ReadingSignature /\ established' = established
      /\ UNCHANGED <<req, pings, hpc>>
  BY DEF ReadSignature, ReadPacket, Types, LinkTypes, ClientTypes, ReadingSignature, clientHistory,
         host, hostHistory
<1>2. Head(toClient) = h /\ 1 \in DOMAIN toClient
  BY <1>1
<1>3. ASSUME NEW i \in DOMAIN toClient'
      PROVE  i \in Nat /\ i + 1 \in DOMAIN toClient /\ toClient'[i] = toClient[i + 1] /\ i + 1 # 1
  BY <1>1
<1>4. ASSUME NEW i \in DOMAIN signature'
      PROVE  \/ i \in DOMAIN signature /\ signature'[i] = signature[i]
             \/ signature'[i] = h
  BY <1>1, <1>2
<1>5. ASSUME NEW i \in DOMAIN toClient', NEW j \in DOMAIN toClient',
             Ticket(toClient'[i]), Ticket(toClient'[j]),
             toClient'[i].req.ping = toClient'[j].req.ping
      PROVE  i = j
  <2>1. i + 1 = j + 1
    BY <1>3, <1>5 DEF Tickets
  <2> QED
    BY <1>3, <2>1
<1>6. ASSUME NEW i \in DOMAIN signature', Ticket(signature'[i])
      PROVE  /\ Signed(signature'[i].req.ping, pings, hpc)
             /\ \A j \in DOMAIN toClient' :
                  Ticket(toClient'[j]) => toClient'[j].req.ping # signature'[i].req.ping
  <2>1. CASE signature'[i] = h
    BY <1>2, <1>3, <1>6, <2>1 DEF Tickets
  <2>2. CASE i \in DOMAIN signature /\ signature'[i] = signature[i]
    BY <1>1, <1>3, <1>6, <2>2 DEF Tickets
  <2> QED
    BY <1>4, <2>1, <2>2
<1>7. Tickets'
  BY <1>1, <1>3, <1>5, <1>6 DEF Tickets
<1>8. ASSUME NEW e \in established
      PROVE  /\ Signed(e.req.ping, pings, hpc)
             /\ \A i \in DOMAIN toClient' :
                  Ticket(toClient'[i]) => toClient'[i].req.ping # e.req.ping
             /\ \A i \in DOMAIN signature' :
                  Ticket(signature'[i]) => signature'[i].req.ping # e.req.ping
  <2>1. ASSUME NEW i \in DOMAIN signature', Ticket(signature'[i])
        PROVE  signature'[i].req.ping # e.req.ping
    <3>1. CASE signature'[i] = h
      BY <1>2, <2>1, <3>1 DEF Spent
    <3>2. CASE i \in DOMAIN signature /\ signature'[i] = signature[i]
      BY <1>1, <2>1, <3>2 DEF Spent
    <3> QED
      BY <1>4, <3>1, <3>2
  <2> QED
    BY <1>3, <2>1 DEF Spent
<1> QED
  BY <1>1, <1>7, <1>8 DEF Spent

LEMMA EncapsulateTickets ==
  ASSUME Types, Tickets, Spent, OneSecretPerRequest, Encapsulate, UNCHANGED <<host, hostHistory>>
  PROVE  Tickets' /\ Spent' /\ OneSecretPerRequest'
<1> DEFINE r == payload_buffer[1].req
           e == [req |-> r, secret |-> Cardinality(established) + 1]
<1>1. /\ established' = established \cup {e} /\ cpc' = "write"
      /\ UNCHANGED <<toClient, signature, req, pings, hpc>>
      /\ ReadingSignature /\ ~ReadingSignature'
  BY DEF Encapsulate, link, host, hostHistory, ReadingSignature
<1>2. signature = SignaturePackets(r) /\ ~r.fail /\ r \in Request
  <2>1. payload_buffer \in Seq(Packet) /\ payload_buffer # << >> /\ Verified
    BY DEF Types, ClientTypes, Encapsulate, Verified
  <2>2. payload_buffer[1] \in Packet
    BY <2>1
  <2> QED
    BY <2>1, <2>2 DEF Verified, Packet
<1>3. 1 \in DOMAIN signature /\ Ticket(signature[1]) /\ signature[1].req = r
  <2> DEFINE c == (SIG + PACKET - 1) \div PACKET
  <2>1. SIG \in Nat \ {0}
    BY Sizes
  <2>2. c \in Nat \ {0}
    BY <2>1, PacketCount
  <2> HIDE DEF c
  <2>3. 1 \in 1 .. c
    BY <2>2
  <2>4. DOMAIN signature = 1 .. c
    BY <1>2 DEF SignaturePackets, Packets, c
  <2>5. signature[1].req = r /\ signature[1].part = "signature" /\ signature[1].k = 1
    BY <1>2, <2>3 DEF SignaturePackets, Packets, c
  <2> QED
    BY <2>3, <2>4, <2>5 DEF Ticket
<1>4. /\ Signed(r.ping, pings, hpc)
      /\ \A j \in DOMAIN toClient : Ticket(toClient[j]) => toClient[j].req.ping # r.ping
  BY <1>1, <1>3 DEF Tickets
<1>5. \A f \in established : f.req.ping # r.ping
  BY <1>1, <1>3 DEF Spent
<1>6. Tickets'
  BY <1>1 DEF Tickets
<1>7. Spent'
  BY <1>1, <1>4 DEF Spent
<1>8. OneSecretPerRequest'
  BY <1>1, <1>2, <1>5 DEF OneSecretPerRequest
<1> QED
  BY <1>6, <1>7, <1>8

(* The first k of a sequence, and what follows its head, are at their places. *)
LEMMA Places ==
  ASSUME NEW S, NEW s \in Seq(S)
  PROVE  /\ \A i \in DOMAIN s : i \in Nat
         /\ \A k \in 0 .. Len(s) : \A i \in DOMAIN SubSeq(s, 1, k) :
              i \in DOMAIN s /\ SubSeq(s, 1, k)[i] = s[i] /\ i \in Nat
         /\ s # << >> => \A i \in DOMAIN Tail(s) :
              1 + i \in DOMAIN s /\ Tail(s)[i] = s[1 + i] /\ i \in Nat
<1>1. \A i \in DOMAIN s : i \in Nat
  OBVIOUS
<1>2. ASSUME NEW k \in 0 .. Len(s), NEW i \in DOMAIN SubSeq(s, 1, k)
      PROVE  i \in DOMAIN s /\ SubSeq(s, 1, k)[i] = s[i] /\ i \in Nat
  OBVIOUS
<1>3. ASSUME s # << >>, NEW i \in DOMAIN Tail(s)
      PROVE  1 + i \in DOMAIN s /\ Tail(s)[i] = s[1 + i] /\ i \in Nat
  BY <1>3
<1> QED
  BY <1>1, <1>2, <1>3

LEMMA DieTickets ==
  ASSUME TicketInv, Die, UNCHANGED <<client, clientHistory>>
  PROVE  Tickets' /\ Spent'
<1>1. toClient \in Seq(Packet) /\ pings \in Nat
  BY DEF TicketInv, Types, LinkTypes, HostTypes
<1>2. PICK k \in 0 .. Len(toClient) : toClient' = SubSeq(toClient, 1, k)
  BY DEF Die
<1>3. ASSUME NEW i \in DOMAIN toClient'
      PROVE  i \in Nat /\ 0 + i \in DOMAIN toClient /\ toClient'[i] = toClient[0 + i]
  BY <1>1, <1>2, Places
<1>4. /\ \A n \in Nat : Signed(n, pings, hpc) => Signed(n, pings', hpc')
      /\ ~BeforeSignature(hpc')
  BY <1>1 DEF Die, Signed, BeforeSignature
<1>5. UNCHANGED <<cpc, signature, established>>
  BY DEF client, clientHistory
<1>6. ReadingSignature' = ReadingSignature
  BY <1>5 DEF ReadingSignature
<1> QED
  BY <1>3, <1>4, <1>5, <1>6, TicketsKept, 0 \in Nat DEF TicketInv

LEMMA HostTickets ==
  ASSUME TicketInv, HostNext
  PROVE  Tickets' /\ Spent'
<1> USE DEF TicketInv
<1>1. UNCHANGED <<cpc, signature, established>> /\ UNCHANGED <<client, clientHistory>>
  BY DEF HostNext, client, clientHistory
<1>2. req \in Request /\ pings \in Nat /\ toClient \in Seq(Packet)
  BY DEF Types, HostTypes, LinkTypes
<1>3. ReadingSignature' = ReadingSignature
  BY <1>1 DEF ReadingSignature
<1>4. ASSUME toClient' = toClient,
             \A n \in Nat : Signed(n, pings, hpc) => Signed(n, pings', hpc'),
             BeforeSignature(hpc') => req'.ping = pings'
      PROVE  Tickets' /\ Spent'
  <2>1. \A i \in DOMAIN toClient' : i \in Nat /\ 0 + i \in DOMAIN toClient /\ toClient'[i] = toClient[0 + i]
    BY <1>2, <1>4, Places
  <2> QED
    BY <1>1, <1>3, <1>4, <2>1, TicketsKept, 0 \in Nat
<1>5. CASE StartPing
  <2>1. /\ pings' = pings + 1 /\ toClient' = toClient /\ req'.ping = pings'
    BY <1>5 DEF StartPing
  <2>2. \A n \in Nat : Signed(n, pings, hpc) => Signed(n, pings', hpc')
    BY <1>2, <2>1 DEF Signed
  <2> QED
    BY <1>4, <2>1, <2>2
<1>6. CASE WritePrefix
  <2>1. PACKET \in Nat \ {0}
    BY Sizes
  <2>2. /\ BeforeSignature(hpc) /\ BeforeSignature(hpc') /\ UNCHANGED <<req, pings>>
        /\ toClient' = toClient \o Packets(req, "prefix", PACKET)
    BY <1>6 DEF WritePrefix, Write, hostHistory, BeforeSignature
  <2> QED
    BY <1>1, <2>1, <2>2, WriteTickets
<1>7. CASE WritePayload
  <2>1. KEY + req.payload \in Nat \ {0}
    <3>1. req.payload \in Payloads \cup {0}
      BY <1>2 DEF Request
    <3>2. req.payload \in Nat
      BY <3>1, Lengths, Zenon
    <3> QED
      BY <3>2, Sizes
  <2>2. /\ BeforeSignature(hpc) /\ BeforeSignature(hpc') /\ UNCHANGED <<req, pings>>
        /\ toClient' = toClient \o Packets(req, "payload", KEY + req.payload)
    BY <1>7 DEF WritePayload, Write, hostHistory, BeforeSignature, PayloadPackets
  <2> QED
    BY <1>1, <2>1, <2>2, WriteTickets
<1>8. CASE WriteSignature
  <2>1. SIG \in Nat \ {0}
    BY Sizes
  <2>2. /\ BeforeSignature(hpc) /\ ~BeforeSignature(hpc') /\ UNCHANGED <<req, pings>>
        /\ toClient' = toClient \o Packets(req, "signature", SIG)
    BY <1>8 DEF WriteSignature, Write, hostHistory, BeforeSignature, SignaturePackets
  <2> QED
    BY <1>1, <2>1, <2>2, WriteTickets
<1>9. ASSUME UNCHANGED <<toClient, hpc, req, pings>> PROVE Tickets' /\ Spent'
  BY <1>4, <1>9 DEF Tickets
<1>10. CASE Read
  BY <1>9, <1>10 DEF Read, hostHistory
<1>11. CASE Report \/ Restart
  <2>1. /\ ~BeforeSignature(hpc') /\ UNCHANGED <<toClient, pings>>
    BY <1>11 DEF Report, Restart, link, BeforeSignature
  <2>2. \A n \in Nat : Signed(n, pings, hpc) => Signed(n, pings', hpc')
    BY <2>1 DEF Signed
  <2> QED
    BY <1>4, <2>1, <2>2
<1>12. CASE IoError \/ ReadTimeout \/ Kill
  BY <1>1, <1>12, DieTickets DEF IoError, ReadTimeout, Kill
<1>13. ASSUME NEW newApp, Command(newApp) PROVE Tickets' /\ Spent'
  BY <1>9, <1>13 DEF Command, link
<1> QED
  BY <1>5, <1>6, <1>7, <1>8, <1>10, <1>11, <1>12, <1>13
  DEF HostNext, HostStep, PingerStep, UpdatePayload, ToggleFail

LEMMA ClientTickets ==
  ASSUME TicketInv, ClientNext
  PROVE  Tickets' /\ Spent' /\ OneSecretPerRequest'
<1> USE DEF TicketInv
<1>1. UNCHANGED <<req, pings, hpc>> /\ UNCHANGED <<host, hostHistory>>
  BY DEF ClientNext, host, hostHistory
<1>2. toClient \in Seq(Packet)
  BY DEF Types, LinkTypes
<1>3. BeforeSignature(hpc') => req'.ping = pings'
  BY <1>1 DEF Tickets
<1>4. ASSUME \/ toClient' = toClient
             \/ toClient # << >> /\ toClient' = Tail(toClient)
             \/ toClient' = << >>,
             established' = established,
             ReadingSignature' =>
               \A i \in DOMAIN signature' :
                 ReadingSignature /\ i \in DOMAIN signature /\ signature'[i] = signature[i]
      PROVE  Tickets' /\ Spent' /\ OneSecretPerRequest'
  <2>1. PICK d \in Nat : \A i \in DOMAIN toClient' :
          i \in Nat /\ d + i \in DOMAIN toClient /\ toClient'[i] = toClient[d + i]
    <3>1. CASE toClient' = toClient
      <4>1. \A i \in DOMAIN toClient' :
              i \in Nat /\ 0 + i \in DOMAIN toClient /\ toClient'[i] = toClient[0 + i]
        BY <1>2, <3>1, Places
      <4> QED
        BY <4>1
    <3>2. CASE toClient # << >> /\ toClient' = Tail(toClient)
      <4>1. \A i \in DOMAIN toClient' :
              i \in Nat /\ 1 + i \in DOMAIN toClient /\ toClient'[i] = toClient[1 + i]
        BY <1>2, <3>2, Places
      <4> QED
        BY <4>1
    <3>3. CASE toClient' = << >>
      <4>1. DOMAIN toClient' = {}
        BY <3>3
      <4> QED
        BY <4>1, 0 \in Nat
    <3> QED
      BY <1>4, <3>1, <3>2, <3>3
  <2>2. OneSecretPerRequest'
    BY <1>4 DEF OneSecretPerRequest
  <2>3. \A n \in Nat : Signed(n, pings, hpc) => Signed(n, pings', hpc')
    BY <1>1
  <2> QED
    BY <1>3, <1>4, <2>1, <2>2, <2>3, TicketsKept
<1>5. CASE WaitConnection \/ Disconnected
  BY <1>4, <1>5 DEF WaitConnection, Disconnected, link, clientHistory, ReadingSignature
<1>6. CASE ReadPrefix \/ ReadPayload
  <2>1. toClient # << >> /\ toClient' = Tail(toClient) /\ established' = established
    BY <1>6 DEF ReadPrefix, ReadPayload, ReadPacket, clientHistory
  <2>2. signature = << >> /\ signature' = signature
    BY <1>6 DEF ReadPrefix, ReadPayload, ReadPacket, Buffers
  <2>3. DOMAIN signature' = {}
    BY <2>2
  <2> QED
    BY <1>4, <2>1, <2>3
<1>7. CASE ReadSignature
  BY <1>1, <1>7, ReadSignatureTickets DEF ReadSignature, ReadPacket, clientHistory, OneSecretPerRequest
<1>8. CASE Verify
  BY <1>4, <1>8 DEF Verify, link, clientHistory, ReadingSignature
<1>9. CASE Encapsulate
  BY <1>1, <1>9, EncapsulateTickets
<1>10. CASE WritePacket
  BY <1>4, <1>10 DEF WritePacket, clientHistory, ReadingSignature
<1>11. CASE Unplug \/ Plug
  BY <1>4, <1>11 DEF Unplug, Plug, client, clientHistory, ReadingSignature, Fresh
<1> QED
  BY <1>5, <1>6, <1>7, <1>8, <1>9, <1>10, <1>11 DEF ClientNext, ClientStep, EchoStep

LEMMA TicketsInit == Init => TicketInv
<1> SUFFICES ASSUME Init PROVE TicketInv
  OBVIOUS
<1>1. /\ toClient = << >> /\ established = {} /\ hpc = "sleep" /\ cpc = "wait"
      /\ payload_buffer = << >> /\ signature = << >>
  BY DEF Init, HostInit, ClientInit, LinkInit
<1>2. DOMAIN toClient = {}
  BY <1>1
<1> QED
  BY <1>1, <1>2, TypesInit
  DEF TicketInv, Buffers, Tickets, Spent, OneSecretPerRequest, BeforeSignature, ReadingSignature

LEMMA TicketsStutter ==
  ASSUME TicketInv, UNCHANGED vars
  PROVE  TicketInv'
<1>1. /\ UNCHANGED <<app, hpc, req, response, pings, kills>>
      /\ UNCHANGED <<cpc, payload_len, payload_buffer, signature, answer, established, unplugs>>
      /\ UNCHANGED <<toClient, toHost, open, attached, interrupted>>
  BY DEF vars, host, hostHistory, client, clientHistory, link
<1>2. Types'
  BY <1>1 DEF TicketInv, Types, HostTypes, ClientTypes, LinkTypes, Verified
<1>3. Buffers' /\ Tickets' /\ Spent' /\ OneSecretPerRequest'
  BY <1>1 DEF TicketInv, Buffers, Tickets, Spent, OneSecretPerRequest, ReadingSignature
<1> QED
  BY <1>2, <1>3 DEF TicketInv

LEMMA TicketsStep == TicketInv /\ [Next]_vars => TicketInv'
<1> SUFFICES ASSUME TicketInv, [Next]_vars PROVE TicketInv'
  OBVIOUS
<1>1. Buffers'
  BY BuffersStep DEF TicketInv
<1>2. CASE HostNext
  <2>1. Types' /\ Tickets' /\ Spent'
    BY <1>2, HostStepTypes, HostTickets DEF TicketInv
  <2>2. OneSecretPerRequest'
    BY <1>2 DEF TicketInv, OneSecretPerRequest, HostNext, clientHistory
  <2> QED
    BY <1>1, <2>1, <2>2 DEF TicketInv
<1>3. CASE ClientNext
  <2>1. Types' /\ Tickets' /\ Spent' /\ OneSecretPerRequest'
    BY <1>3, ClientStepTypes, ClientTickets DEF TicketInv
  <2> QED
    BY <1>1, <2>1 DEF TicketInv
<1> QED
  BY <1>2, <1>3, TicketsStutter DEF Next

(***************************************************************************)
(* Whatever is cut short, killed, unplugged and started again, a request gets *)
(* at most one secret out of the client, and a forced failure none: the first *)
(* packet of its signature is on the line once.                               *)
(***************************************************************************)
THEOREM OneSecret == Spec => []OneSecretPerRequest
<1>1. TicketInv => OneSecretPerRequest
  BY DEF TicketInv
<1> QED
  BY <1>1, TicketsInit, TicketsStep, PTL DEF Spec

-----------------------------------------------------------------------------
(* As long as nothing is interrupted, host, line and client are at one point  *)
(* of one exchange.                                                           *)
NPayload(r) == (KEY + r.payload + PACKET - 1) \div PACKET
NSignature == (SIG + PACKET - 1) \div PACKET
NRequest(r) == 1 + NPayload(r) + NSignature

(* The n-th packet of a request. *)
Item(r, n) ==
  IF n = 1 THEN Packets(r, "prefix", PACKET)[1]
  ELSE IF n <= 1 + NPayload(r) THEN PayloadPackets(r)[n - 1]
  ELSE SignaturePackets(r)[n - 1 - NPayload(r)]

(* What is on the line of it, when n are off it. *)
Stream(r, n, line) == \A i \in DOMAIN line : line[i] = Item(r, n + i)

Zlp(packet) == packet.part = "zlp" /\ packet.len = 0
Zlps(packets) == \A i \in DOMAIN packets : Zlp(packets[i])

Idle == \/ cpc \in {"wait", "prefix"}
        \/ cpc = "write" /\ Len(answer) = 1 /\ Zlp(answer[1])

Written ==
  CASE hpc = "prefix" -> 0
    [] hpc = "payload" -> 1
    [] hpc = "signature" -> 1 + NPayload(req)
    [] hpc = "read" -> NRequest(req)

(***************************************************************************)
(* The host does not look whether the length of payload and key fits the      *)
(* prefix.  Where it does not, the client goes astray: it takes payload for    *)
(* signature, full packets all of them, and stops when they are too many.     *)
(***************************************************************************)
Astray(n) ==
  /\ KEY + req.payload >= U16 /\ payload_len = PrefixValue(req)
  /\ \/ /\ cpc = "payload" /\ n = 1 + Len(payload_buffer)
        /\ Len(payload_buffer) * PACKET < payload_len
        /\ \A k \in DOMAIN payload_buffer : payload_buffer[k].len = PACKET
     \/ /\ cpc = "signature" /\ n = 1 + Len(payload_buffer) + Len(signature)
        /\ Len(payload_buffer) * PACKET < payload_len + PACKET
        /\ Len(signature) * PACKET < SIG
        /\ \A k \in DOMAIN signature : signature[k].len = PACKET

(* The client has read n packets of the request. *)
Taken(n) ==
  \/ Astray(n)
  \/ Idle /\ n = 0
  \/ /\ cpc = "payload" /\ payload_len = KEY + req.payload
     /\ n = 1 + Len(payload_buffer) /\ Len(payload_buffer) < NPayload(req)
     /\ \A k \in DOMAIN payload_buffer : payload_buffer[k] = PayloadPackets(req)[k]
  \/ /\ cpc = "signature" /\ payload_buffer = PayloadPackets(req)
     /\ n = 1 + NPayload(req) + Len(signature) /\ Len(signature) < NSignature
     /\ \A k \in DOMAIN signature : signature[k] = SignaturePackets(req)[k]
  \/ /\ cpc \in {"verify", "encapsulate"}
     /\ payload_buffer = PayloadPackets(req) /\ signature = SignaturePackets(req)
     /\ n = NRequest(req)
     /\ cpc = "encapsulate" => ~req.fail

Clean == ~open /\ toClient = << >> /\ Zlps(toHost) /\ Idle

Asking ==
  /\ Pinging /\ open /\ response = << >> /\ Zlps(toHost)
  /\ \E n \in Nat :
       /\ Taken(n)
       /\ n + Len(toClient) = Written
       /\ Stream(req, n, toClient)

(* Of the answer a the host has got the first packets, the next are on the    *)
(* line, behind z that are left of the answer before, the last are unsent.    *)
InOrder(a, got, z, line, unsent) ==
  /\ z \in 0 .. Len(line)
  /\ Len(got) <= ResponsePackets
  /\ Len(got) + Len(line) - z + Len(unsent) = ResponsePackets + 1
  /\ \A i \in 1 .. Len(got) : got[i] = a[i]
  /\ \A i \in 1 .. z : Zlp(line[i])
  /\ \A i \in z + 1 .. Len(line) : line[i] = a[Len(got) + i - z]
  /\ \A i \in 1 .. Len(unsent) : unsent[i] = a[Len(got) + Len(line) - z + i]

Unsent == IF cpc = "write" THEN answer ELSE << >>
Between(a) == \E z : InOrder(a, response, z, toHost, Unsent)

Answering ==
  /\ hpc = "read" /\ open /\ toClient = << >>
  /\ cpc \in {"wait", "prefix", "write"}
  /\ \/ req.fail /\ Between(Answer(NoRequest, FALSE, 0))
     \/ ~req.fail /\ \E e \in established :
                       e.req = req /\ Between(Answer(req, TRUE, e.secret))

(* It halts for a payload it has no room for.  (A device that an earlier       *)
(* ping's remains have halted is still halted once they are gone, unplugged.) *)
OutOfRoom == MaxUnplugs > 0 \/ \E p \in Payloads : p > MAX_PAYLOAD

Halted == cpc = "halted" /\ Zlps(toHost) /\ (open => response = << >>) /\ OutOfRoom

Together ==
  /\ open => attached
  /\ ~interrupted => Clean \/ Asking \/ Answering \/ Halted


-----------------------------------------------------------------------------
(* What the client adds up as it assembles a part. *)
LEMMA Least ==
  ASSUME NEW T \in SUBSET Nat, T # {}
  PROVE  \E n \in T : \A m \in T : n <= m
<1> DEFINE R == OpToRel(<, Nat)
<1>1. IsWellFoundedOn(R, Nat)
  BY NatLessThanWellFounded
<1>2. \A x, y \in Nat : <<x, y>> \in R <=> x < y
  BY DEF OpToRel
<1> HIDE DEF R
<1>3. PICK n \in T : \A m \in T : ~(<<m, n>> \in R)
  BY <1>1, WFMin, Zenon
<1>4. ASSUME NEW m \in T PROVE n <= m
  <2>1. ~(m < n) /\ m \in Nat /\ n \in Nat
    BY <1>2, <1>3
  <2> QED
    BY <2>1
<1> QED
  BY <1>4

(* A sum that starts at 0 and goes up by the lengths is the one Bytes means. *)
LEMMA BytesAre ==
  ASSUME NEW s, NEW m \in Nat, Len(s) = m,
         NEW f, f = [k \in 0 .. m |-> IF k = 0 THEN 0 ELSE f[k - 1] + s[k].len]
  PROVE  Bytes(s) = f[m]
<1> DEFINE sum == CHOOSE g : g = [k \in 0 .. m |-> IF k = 0 THEN 0 ELSE g[k - 1] + s[k].len]
<1>0. m = Len(s)
  OBVIOUS
<1>1. Bytes(s) = sum[m]
  BY <1>0, Zenon DEF Bytes
<1>2. sum = [k \in 0 .. m |-> IF k = 0 THEN 0 ELSE sum[k - 1] + s[k].len]
  <2>1. \E g : g = [k \in 0 .. m |-> IF k = 0 THEN 0 ELSE g[k - 1] + s[k].len]
    OBVIOUS
  <2> QED
    BY <2>1, Zenon
<1> HIDE DEF sum
<1> DEFINE T == {k \in 0 .. m : sum[k] # f[k]}
<1>3. T = {}
  <2> SUFFICES ASSUME T # {} PROVE FALSE
    OBVIOUS
  <2>1. T \in SUBSET Nat
    OBVIOUS
  <2>2. PICK k \in T : \A i \in T : k <= i
    BY <2>1, Least
  <2>3. k # 0
    BY <1>2, <2>2
  <2>4. k - 1 \in 0 .. m /\ ~(k <= k - 1)
    BY <2>2, <2>3
  <2>5. sum[k - 1] = f[k - 1]
    BY <2>2, <2>4
  <2> QED
    BY <1>2, <2>2, <2>3, <2>5
<1>4. \A k \in 0 .. m : sum[k] = f[k]
  BY <1>3, Zenon
<1>5. m \in 0 .. m
  OBVIOUS
<1> QED
  BY <1>1, <1>4, <1>5

(* Of n bytes in c packets, the first m packets hold them up to the last. *)
LEMMA BytesOfPackets ==
  ASSUME NEW r \in Request, NEW part \in {"prefix", "payload", "signature"},
         NEW n \in Nat \ {0}, NEW c, c = (n + PACKET - 1) \div PACKET,
         NEW s, NEW m \in 1 .. c, Len(s) = m,
         \A k \in 1 .. m : s[k] = Packets(r, part, n)[k]
  PROVE  Bytes(s) = IF m = c THEN n ELSE m * PACKET
<1> DEFINE f == [k \in 0 .. m |-> IF k = c THEN n ELSE k * PACKET]
<1>1. /\ PACKET \in Nat \ {0} /\ c \in Nat \ {0}
      /\ n <= c * PACKET /\ (c - 1) * PACKET < n
  BY Sizes, PacketCount
<1>2. ASSUME NEW k \in 1 .. m
      PROVE  s[k].len = IF k * PACKET <= n THEN PACKET ELSE n % PACKET
  <2>1. k \in 1 .. c
    BY <1>1
  <2>2. Packets(r, part, n)[k] =
          [req |-> r, part |-> part, k |-> k,
           len |-> IF k * PACKET <= n THEN PACKET ELSE n % PACKET]
    BY <2>1, PacketsType
  <2> QED
    BY <2>2
<1>3. \A k \in 1 .. c - 1 : k * PACKET <= n
  <2>1. ASSUME NEW k \in 1 .. c - 1 PROVE k * PACKET <= n
    <3>1. k * PACKET <= (c - 1) * PACKET
      BY <1>1
    <3>2. k * PACKET \in Nat /\ (c - 1) * PACKET \in Nat
      BY <1>1
    <3> QED
      BY <1>1, <3>1, <3>2
  <2> QED
    BY <2>1
<1>4. (c - 1) * PACKET + (IF c * PACKET <= n THEN PACKET ELSE n % PACKET) = n
  <2>1. c * PACKET = (c - 1) * PACKET + PACKET
    BY <1>1
  <2>2. PICK d : d = (c - 1) * PACKET
    OBVIOUS
  <2>3. d \in Nat
    BY <1>1, <2>2
  <2>4. CASE c * PACKET <= n
    BY <1>1, <2>1, <2>2, <2>3, <2>4
  <2>5. CASE ~(c * PACKET <= n)
    <3>1. n - d \in 0 .. PACKET - 1
      BY <1>1, <2>1, <2>2, <2>3, <2>5
    <3>2. n % PACKET = n - d
      <4> DEFINE q == n \div PACKET
                 e == n % PACKET
      <4>1. q \in Int /\ e \in 0 .. PACKET - 1 /\ n = q * PACKET + e
        BY <1>1, Division
      <4> HIDE DEF q, e
      <4>2. q = c - 1
        <5>1. (q - (c - 1)) * PACKET = q * PACKET - d
          BY <1>1, <2>2, <4>1, SMT
        <5>2. q * PACKET - d < PACKET /\ q * PACKET - d > -PACKET
          BY <1>1, <2>3, <3>1, <4>1
        <5>3. PICK x : x = q - (c - 1)
          OBVIOUS
        <5>4. x * PACKET < PACKET /\ x * PACKET > -PACKET
          BY <5>1, <5>2, <5>3
        <5>5. x = 0
          BY <1>1, <4>1, <5>3, <5>4, SMT
        <5> QED
          BY <1>1, <4>1, <5>3, <5>5
      <4> QED
        BY <1>1, <2>2, <2>3, <4>1, <4>2 DEF e
    <3> QED
      BY <2>2, <2>3, <2>5, <3>2
  <2> QED
    BY <2>4, <2>5
<1>5. ASSUME NEW k \in 0 .. m
      PROVE  f[k] = IF k = 0 THEN 0 ELSE f[k - 1] + s[k].len
  <2>1. CASE k = 0
    BY <1>1, <2>1
  <2>2. CASE k # 0
    <3>1. k \in 1 .. m /\ k - 1 \in 0 .. m /\ k - 1 # c
      BY <1>1, <2>2
    <3>2. f[k - 1] = (k - 1) * PACKET
      BY <3>1
    <3>3. k * PACKET = (k - 1) * PACKET + PACKET /\ (k - 1) * PACKET \in Nat
      BY <1>1, <3>1
    <3>4. CASE k = c
      BY <1>2, <1>4, <3>1, <3>2, <3>4
    <3>5. CASE k # c
      <4>1. k \in 1 .. c - 1
        BY <1>1, <3>1, <3>5
      <4>2. s[k].len = PACKET
        BY <1>2, <1>3, <3>1, <4>1
      <4> QED
        BY <3>1, <3>2, <3>3, <3>5, <4>2
    <3> QED
      BY <3>4, <3>5
  <2> QED
    BY <2>1, <2>2
<1>6. f = [k \in 0 .. m |-> IF k = 0 THEN 0 ELSE f[k - 1] + s[k].len]
  BY <1>5
<1>7. f[m] = IF m = c THEN n ELSE m * PACKET
  BY <1>1
<1> HIDE DEF f
<1>8. Bytes(s) = f[m]
  BY <1>1, <1>6, BytesAre, SMTT(60)
<1> QED
  BY <1>7, <1>8


-----------------------------------------------------------------------------
(* The packets of a request in their order. *)
LEMMA Items ==
  ASSUME NEW r \in Request
  PROVE  /\ NPayload(r) \in Nat \ {0} /\ NSignature \in Nat \ {0}
         /\ KEY + r.payload \in Nat \ {0}
         /\ Packets(r, "prefix", PACKET) \in Seq(Packet) /\ Len(Packets(r, "prefix", PACKET)) = 1
         /\ PayloadPackets(r) \in Seq(Packet) /\ Len(PayloadPackets(r)) = NPayload(r)
         /\ SignaturePackets(r) \in Seq(Packet) /\ Len(SignaturePackets(r)) = NSignature
         /\ Item(r, 1) = Packets(r, "prefix", PACKET)[1]
         /\ Item(r, 1).part = "prefix" /\ Item(r, 1).req = r
         /\ \A k \in 1 .. NPayload(r) : Item(r, 1 + k) = PayloadPackets(r)[k]
         /\ \A k \in 1 .. NSignature : Item(r, 1 + NPayload(r) + k) = SignaturePackets(r)[k]
<1>1. PACKET \in Nat \ {0} /\ KEY \in Nat \ {0} /\ SIG \in Nat \ {0}
  BY Sizes
<1>2. r.payload \in Nat
  <2>1. r.payload \in Payloads \cup {0}
    BY DEF Request
  <2> QED
    BY <2>1, Lengths, Zenon
<1>3. KEY + r.payload \in Nat \ {0}
  BY <1>1, <1>2
<1>4. NPayload(r) \in Nat \ {0}
  BY <1>3, PacketCount DEF NPayload
<1>5. NSignature \in Nat \ {0}
  BY <1>1, PacketCount DEF NSignature
<1>6. /\ PayloadPackets(r) \in Seq(Packet) /\ Len(PayloadPackets(r)) = NPayload(r)
      /\ SignaturePackets(r) \in Seq(Packet) /\ Len(SignaturePackets(r)) = NSignature
  BY <1>1, <1>3, PacketsType DEF PayloadPackets, SignaturePackets, NPayload, NSignature
<1>7. /\ Packets(r, "prefix", PACKET) \in Seq(Packet) /\ Len(Packets(r, "prefix", PACKET)) = 1
      /\ Packets(r, "prefix", PACKET)[1].part = "prefix"
      /\ Packets(r, "prefix", PACKET)[1].req = r
  <2> DEFINE c == (PACKET + PACKET - 1) \div PACKET
  <2>1. c \in Nat \ {0} /\ PACKET <= c * PACKET /\ (c - 1) * PACKET < PACKET
    BY <1>1, PacketCount
  <2> HIDE DEF c
  <2>2. c = 1
    <3>1. c * PACKET < 2 * PACKET
      BY <1>1, <2>1
    <3> QED
      BY <1>1, <2>1, <3>1, SMT
  <2> DEFINE P == Packets(r, "prefix", PACKET)
  <2>3. P \in Seq(Packet) /\ Len(P) = c
        /\ \A k \in 1 .. c : P[k].part = "prefix" /\ P[k].req = r
    <3>1. P \in Seq(Packet) /\ Len(P) = c /\ DOMAIN P = 1 .. c
      BY <1>1, PacketsType DEF c
    <3>2. \A k \in DOMAIN P : P[k].part = "prefix" /\ P[k].req = r
      BY DEF Packets
    <3> QED
      BY <3>1, <3>2
  <2> HIDE DEF P
  <2>4. P \in Seq(Packet) /\ Len(P) = 1 /\ P[1].part = "prefix" /\ P[1].req = r
    BY <2>2, <2>3
  <2> QED
    BY <2>4 DEF P
<1>8. Item(r, 1) = Packets(r, "prefix", PACKET)[1]
  BY DEF Item
<1>9. ASSUME NEW k \in 1 .. NPayload(r) PROVE Item(r, 1 + k) = PayloadPackets(r)[k]
  <2>1. 1 + k # 1 /\ 1 + k <= 1 + NPayload(r) /\ 1 + k - 1 = k
    BY <1>4
  <2> QED
    BY <2>1 DEF Item
<1>10. ASSUME NEW k \in 1 .. NSignature
       PROVE  Item(r, 1 + NPayload(r) + k) = SignaturePackets(r)[k]
  <2> DEFINE n == 1 + NPayload(r) + k
  <2>1. n # 1 /\ ~(n <= 1 + NPayload(r)) /\ (n - 1) - NPayload(r) = k
    BY <1>4, <1>5
  <2>2. Item(r, n) = SignaturePackets(r)[(n - 1) - NPayload(r)]
    BY <2>1 DEF Item
  <2> QED
    BY <2>1, <2>2
<1> QED
  BY <1>3, <1>4, <1>5, <1>6, <1>7, <1>8, <1>9, <1>10

(* A part written goes on where the stream ends. *)
LEMMA StreamWrite ==
  ASSUME NEW r, NEW n \in Nat, NEW line \in Seq(Packet), NEW packets \in Seq(Packet),
         Stream(r, n, line),
         \A k \in 1 .. Len(packets) : packets[k] = Item(r, n + Len(line) + k)
  PROVE  Stream(r, n, line \o packets) /\ Len(line \o packets) = Len(line) + Len(packets)
<1> DEFINE all == line \o packets
           L == Len(line)
<1>1. /\ all \in Seq(Packet) /\ Len(all) = L + Len(packets)
      /\ \A k \in 1 .. L : all[k] = line[k]
      /\ \A k \in 1 .. Len(packets) : all[L + k] = packets[k]
  BY Joined
<1>2. L \in Nat /\ Len(packets) \in Nat /\ DOMAIN line = 1 .. L
  OBVIOUS
<1> HIDE DEF all, L
<1>3. ASSUME NEW i \in DOMAIN all PROVE all[i] = Item(r, n + i)
  <2>1. i \in 1 .. L + Len(packets)
    BY <1>1, <1>2
  <2>2. CASE i \in 1 .. L
    BY <1>1, <1>2, <2>2 DEF Stream
  <2>3. CASE i \notin 1 .. L
    <3>1. i - L \in 1 .. Len(packets) /\ L + (i - L) = i /\ n + L + (i - L) = n + i
      BY <1>2, <2>1, <2>3
    <3>2. all[L + (i - L)] = packets[i - L] /\ packets[i - L] = Item(r, n + L + (i - L))
      BY <1>1, <3>1 DEF L
    <3> QED
      BY <3>1, <3>2
  <2> QED
    BY <2>2, <2>3
<1>4. Stream(r, n, all)
  BY <1>3 DEF Stream
<1> QED
  BY <1>1, <1>4 DEF all, L

LEMMA StreamRead ==
  ASSUME NEW r, NEW n \in Nat, NEW line \in Seq(Packet), line # << >>, Stream(r, n, line)
  PROVE  /\ Head(line) = Item(r, n + 1) /\ Stream(r, n + 1, Tail(line))
         /\ Len(line) \in Nat \ {0} /\ Len(Tail(line)) = Len(line) - 1
<1>1. Len(line) \in Nat \ {0} /\ Len(Tail(line)) = Len(line) - 1 /\ Head(line) = line[1]
  OBVIOUS
<1>2. 1 \in DOMAIN line
  BY <1>1
<1>3. ASSUME NEW i \in DOMAIN Tail(line) PROVE Tail(line)[i] = Item(r, n + 1 + i)
  <2>1. 1 + i \in DOMAIN line /\ Tail(line)[i] = line[1 + i] /\ i \in Nat
    BY Places
  <2>2. n + (1 + i) = n + 1 + i
    BY <2>1
  <2> QED
    BY <2>1, <2>2 DEF Stream
<1> QED
  BY <1>1, <1>2, <1>3 DEF Stream

(* What is left of the answer before. *)
LEMMA ZlpsKept ==
  ASSUME NEW line \in Seq(AnswerPacket), Zlps(line)
  PROVE  /\ line # << >> => Head(line).len = 0 /\ Zlps(Tail(line))
         /\ \A k \in 0 .. Len(line) : Zlps(SubSeq(line, k + 1, Len(line)))
         /\ \A p \in AnswerPacket : Zlp(p) => Zlps(Append(line, p))
<1>1. ASSUME line # << >> PROVE Head(line).len = 0 /\ Zlps(Tail(line))
  <2>1. 1 \in DOMAIN line /\ Head(line) = line[1]
    BY <1>1
  <2>2. \A i \in DOMAIN Tail(line) : 1 + i \in DOMAIN line /\ Tail(line)[i] = line[1 + i]
    BY <1>1, Places
  <2> QED
    BY <2>1, <2>2 DEF Zlps, Zlp
<1>2. ASSUME NEW k \in 0 .. Len(line) PROVE Zlps(SubSeq(line, k + 1, Len(line)))
  <2>1. \A i \in DOMAIN SubSeq(line, k + 1, Len(line)) :
          k + i \in DOMAIN line /\ SubSeq(line, k + 1, Len(line))[i] = line[k + i]
    OBVIOUS
  <2> QED
    BY <2>1 DEF Zlps
<1>3. ASSUME NEW p \in AnswerPacket, Zlp(p) PROVE Zlps(Append(line, p))
  <2>1. \A i \in DOMAIN Append(line, p) :
          (i \in DOMAIN line /\ Append(line, p)[i] = line[i]) \/ Append(line, p)[i] = p
    OBVIOUS
  <2> QED
    BY <1>3, <2>1 DEF Zlps
<1> QED
  BY <1>1, <1>2, <1>3


-----------------------------------------------------------------------------
(* An answer on its way. *)
LEMMA Answers ==
  ASSUME NEW r \in Request, NEW ok \in BOOLEAN, NEW secret \in Nat, NEW a, a = Answer(r, ok, secret)
  PROVE  /\ a \in Seq(AnswerPacket) /\ a # << >>
         /\ ResponsePackets \in Nat /\ ResponsePackets >= 2 /\ Len(a) = ResponsePackets + 1
         /\ \A k \in 1 .. ResponsePackets : a[k].len # 0
         /\ Zlp(a[ResponsePackets + 1])
         /\ a[1].part = "status" /\ a[1].ok = ok
         /\ \A k \in 2 .. ResponsePackets :
              a[k].part = "enc" /\ a[k].k = k - 1 /\ a[k].req = r /\ a[k].secret = secret
<1>1. /\ a \in Seq(AnswerPacket) /\ Len(a) = ResponsePackets + 1
      /\ ResponsePackets \in Nat /\ ResponsePackets >= 2
      /\ a[1].part = "status" /\ a[1].ok = ok /\ a[1].len = PACKET
      /\ \A k \in 2 .. ResponsePackets :
           /\ a[k].part = "enc" /\ a[k].k = k - 1 /\ a[k].req = r /\ a[k].secret = secret
           /\ a[k].len = PACKET
      /\ a[ResponsePackets + 1].part = "zlp" /\ a[ResponsePackets + 1].len = 0
  <2> DEFINE packet(part, k, len) ==
               [req |-> r, part |-> part, k |-> k, len |-> len, ok |-> ok, secret |-> secret]
  <2>1. /\ a \in Seq(AnswerPacket) /\ Len(a) = ResponsePackets + 1
        /\ ResponsePackets \in Nat /\ ResponsePackets >= 2
        /\ a[1] = packet("status", 1, PACKET)
        /\ \A k \in 2 .. ResponsePackets : a[k] = packet("enc", k - 1, PACKET)
        /\ a[ResponsePackets + 1] = packet("zlp", 1, 0)
    <3> DEFINE b == Answer(r, ok, secret)
    <3>1. /\ b \in Seq(AnswerPacket) /\ Len(b) = ResponsePackets + 1
          /\ ResponsePackets \in Nat /\ ResponsePackets >= 2
          /\ b[1] = packet("status", 1, PACKET)
          /\ \A k \in 2 .. ResponsePackets : b[k] = packet("enc", k - 1, PACKET)
          /\ b[ResponsePackets + 1] = packet("zlp", 1, 0)
      <4>1. IsAnswer(b, r, ok, secret)
        BY AnswerType
      <4> HIDE DEF b
      <4> QED
        BY <4>1 DEF IsAnswer
    <3>2. a = b
      OBVIOUS
    <3> HIDE DEF b, packet
    <3> QED
      BY <3>1, <3>2
  <2>2. \A part, k, len : LET q == packet(part, k, len) IN
          q.part = part /\ q.k = k /\ q.len = len /\ q.ok = ok /\ q.req = r /\ q.secret = secret
    OBVIOUS
  <2> HIDE DEF packet
  <2> QED
    BY <2>1, <2>2
<1>2. PACKET # 0
  BY Sizes
<1>3. ASSUME NEW k \in 1 .. ResponsePackets PROVE a[k].len # 0
  <2>1. k = 1 \/ k \in 2 .. ResponsePackets
    BY <1>1
  <2> QED
    BY <1>1, <1>2, <2>1
<1> QED
  BY <1>1, <1>3 DEF Zlp

LEMMA AnswerIn ==
  \A r \in Request, ok \in BOOLEAN, secret \in Nat : Answer(r, ok, secret) \in Seq(AnswerPacket)
<1> TAKE r \in Request, ok \in BOOLEAN, secret \in Nat
<1>1. PICK a : a = Answer(r, ok, secret)
  OBVIOUS
<1>2. a \in Seq(AnswerPacket)
  BY <1>1, Answers
<1> QED
  BY <1>1, <1>2

(* The host reads: a packet of the answer, or what is left of the one before. *)
LEMMA ReadInOrder ==
  ASSUME NEW a \in Seq(AnswerPacket), NEW got \in Seq(AnswerPacket),
         NEW line \in Seq(AnswerPacket), NEW unsent \in Seq(AnswerPacket),
         ResponsePackets \in Nat, \A k \in 1 .. ResponsePackets : a[k].len # 0,
         NEW z, InOrder(a, got, z, line, unsent), Len(got) < ResponsePackets, line # << >>
  PROVE  \E y : InOrder(a, IF Head(line).len = 0 THEN got ELSE Append(got, Head(line)),
                        y, Tail(line), unsent)
<1> DEFINE h == Head(line)
           rest == Tail(line)
<1>1. /\ Len(line) \in Nat \ {0} /\ Len(got) \in Nat /\ Len(unsent) \in Nat
      /\ rest \in Seq(AnswerPacket) /\ Len(rest) = Len(line) - 1 /\ h = line[1]
      /\ \A i \in 1 .. Len(rest) : rest[i] = line[i + 1]
  OBVIOUS
<1> HIDE DEF h, rest
<1>2. z \in 0 .. Len(line)
  BY DEF InOrder
<1>3. CASE z = 0
  <2>1. h = a[Len(got) + 1]
    <3>1. 1 \in z + 1 .. Len(line) /\ Len(got) + 1 - z = Len(got) + 1
      BY <1>1, <1>3
    <3> QED
      BY <1>1, <3>1 DEF InOrder
  <2>2. h.len # 0
    BY <1>1, <2>1
  <2> DEFINE more == Append(got, h)
  <2>3. /\ Len(more) = Len(got) + 1
        /\ \A i \in 1 .. Len(got) : more[i] = got[i]
        /\ more[Len(got) + 1] = h
    OBVIOUS
  <2> HIDE DEF more
  <2>4. ASSUME NEW i \in 1 .. Len(more) PROVE more[i] = a[i]
    <3>1. \A j \in 1 .. Len(got) : got[j] = a[j]
      BY DEF InOrder
    <3>2. i \in 1 .. Len(got) \/ i = Len(got) + 1
      BY <1>1, <2>3
    <3> QED
      BY <2>1, <2>3, <3>1, <3>2
  <2>5. ASSUME NEW i \in 0 + 1 .. Len(rest) PROVE rest[i] = a[Len(more) + i - 0]
    <3>1. i + 1 \in z + 1 .. Len(line) /\ i \in 1 .. Len(rest)
          /\ Len(got) + (i + 1) - z = Len(more) + i - 0
      <4>1. i \in Nat /\ i >= 1 /\ i <= Len(rest)
        BY <1>1
      <4> QED
        BY <1>1, <1>3, <2>3, <4>1
    <3>2. line[i + 1] = a[Len(got) + (i + 1) - z]
      BY <3>1 DEF InOrder
    <3> QED
      BY <1>1, <3>1, <3>2
  <2>6. ASSUME NEW i \in 1 .. Len(unsent) PROVE unsent[i] = a[Len(more) + Len(rest) - 0 + i]
    <3>1. Len(more) + Len(rest) - 0 + i = Len(got) + Len(line) - z + i
      BY <1>1, <1>3, <2>3
    <3>2. unsent[i] = a[Len(got) + Len(line) - z + i]
      BY DEF InOrder
    <3> QED
      BY <3>1, <3>2
  <2>7. /\ 0 \in 0 .. Len(rest) /\ Len(more) <= ResponsePackets
        /\ Len(more) + Len(rest) - 0 + Len(unsent) = ResponsePackets + 1
    BY <1>1, <1>3, <2>3 DEF InOrder
  <2>8. \A i \in 1 .. 0 : Zlp(rest[i])
    OBVIOUS
  <2>9. InOrder(a, more, 0, rest, unsent)
    BY <2>4, <2>5, <2>6, <2>7, <2>8 DEF InOrder
  <2> QED
    BY <2>2, <2>9 DEF h, rest, more
<1>4. CASE z # 0
  <2>1. h.len = 0
    <3>1. 1 \in 1 .. z
      BY <1>1, <1>2, <1>4
    <3> QED
      BY <1>1, <3>1 DEF InOrder, Zlp
  <2>2. /\ z - 1 \in 0 .. Len(rest)
        /\ Len(got) + Len(rest) - (z - 1) + Len(unsent) = ResponsePackets + 1
    BY <1>1, <1>2, <1>4 DEF InOrder
  <2>3. ASSUME NEW i \in 1 .. z - 1 PROVE Zlp(rest[i])
    <3>1. i + 1 \in 1 .. z /\ i \in 1 .. Len(rest)
      BY <1>1, <1>2
    <3> QED
      BY <1>1, <3>1 DEF InOrder
  <2>4. ASSUME NEW i \in (z - 1) + 1 .. Len(rest) PROVE rest[i] = a[Len(got) + i - (z - 1)]
    <3>1. i + 1 \in z + 1 .. Len(line) /\ i \in 1 .. Len(rest)
          /\ Len(got) + (i + 1) - z = Len(got) + i - (z - 1)
      BY <1>1, <1>2, <1>4
    <3>2. line[i + 1] = a[Len(got) + (i + 1) - z]
      BY <3>1 DEF InOrder
    <3> QED
      BY <1>1, <3>1, <3>2
  <2>5. ASSUME NEW i \in 1 .. Len(unsent) PROVE unsent[i] = a[Len(got) + Len(rest) - (z - 1) + i]
    <3>1. Len(got) + Len(rest) - (z - 1) + i = Len(got) + Len(line) - z + i
      BY <1>1, <1>2
    <3>2. unsent[i] = a[Len(got) + Len(line) - z + i]
      BY DEF InOrder
    <3> QED
      BY <3>1, <3>2
  <2>6. InOrder(a, got, z - 1, rest, unsent)
    BY <2>2, <2>3, <2>4, <2>5 DEF InOrder
  <2> QED
    BY <2>1, <2>6 DEF h, rest
<1> QED
  BY <1>3, <1>4

(* The client sends the next packet. *)
LEMMA SendInOrder ==
  ASSUME NEW a \in Seq(AnswerPacket), NEW got \in Seq(AnswerPacket),
         NEW line \in Seq(AnswerPacket), NEW unsent \in Seq(AnswerPacket),
         NEW z, InOrder(a, got, z, line, unsent), unsent # << >>
  PROVE  InOrder(a, got, z, Append(line, Head(unsent)), Tail(unsent))
<1> DEFINE more == Append(line, Head(unsent))
           rest == Tail(unsent)
<1>1. /\ Len(line) \in Nat /\ Len(got) \in Nat /\ Len(unsent) \in Nat \ {0}
      /\ Len(more) = Len(line) + 1 /\ Len(rest) = Len(unsent) - 1
      /\ \A i \in 1 .. Len(line) : more[i] = line[i]
      /\ more[Len(line) + 1] = unsent[1]
      /\ \A i \in 1 .. Len(rest) : rest[i] = unsent[i + 1]
  OBVIOUS
<1> HIDE DEF more, rest
<1>2. z \in 0 .. Len(line)
  BY DEF InOrder
<1>3. /\ z \in 0 .. Len(more) /\ Len(got) <= ResponsePackets
      /\ Len(got) + Len(more) - z + Len(rest) = ResponsePackets + 1
      /\ \A i \in 1 .. Len(got) : got[i] = a[i]
  <2>1. /\ Len(got) <= ResponsePackets
        /\ Len(got) + Len(line) - z + Len(unsent) = ResponsePackets + 1
        /\ \A i \in 1 .. Len(got) : got[i] = a[i]
    BY DEF InOrder
  <2>2. z \in 0 .. Len(more)
    BY <1>1, <1>2
  <2>3. Len(got) + Len(more) - z + Len(rest) = Len(got) + Len(line) - z + Len(unsent)
    BY <1>1, <1>2
  <2> QED
    BY <2>1, <2>2, <2>3
<1>4. ASSUME NEW i \in 1 .. z PROVE Zlp(more[i])
  <2>1. i \in 1 .. Len(line)
    BY <1>1, <1>2
  <2>2. Zlp(line[i])
    BY DEF InOrder
  <2> QED
    BY <1>1, <2>1, <2>2
<1>5. ASSUME NEW i \in z + 1 .. Len(more) PROVE more[i] = a[Len(got) + i - z]
  <2>1. CASE i = Len(line) + 1
    <3>1. 1 \in 1 .. Len(unsent) /\ Len(got) + Len(line) - z + 1 = Len(got) + i - z
      BY <1>1, <1>2, <2>1
    <3>2. unsent[1] = a[Len(got) + Len(line) - z + 1]
      BY <3>1 DEF InOrder
    <3> QED
      BY <1>1, <2>1, <3>1, <3>2
  <2>2. CASE i # Len(line) + 1
    <3>1. i \in z + 1 .. Len(line) /\ i \in 1 .. Len(line)
      BY <1>1, <1>2, <2>2
    <3> QED
      BY <1>1, <3>1 DEF InOrder
  <2> QED
    BY <2>1, <2>2
<1>6. ASSUME NEW i \in 1 .. Len(rest) PROVE rest[i] = a[Len(got) + Len(more) - z + i]
  <2>1. i + 1 \in 1 .. Len(unsent)
        /\ Len(got) + Len(line) - z + (i + 1) = Len(got) + Len(more) - z + i
    <3>1. i \in Nat /\ i >= 1 /\ i <= Len(rest)
      BY <1>1
    <3> QED
      BY <1>1, <1>2, <3>1, SMTT(30)
  <2>2. unsent[i + 1] = a[Len(got) + Len(line) - z + (i + 1)]
    BY <2>1 DEF InOrder
  <2> QED
    BY <1>1, <2>1, <2>2
<1>7. InOrder(a, got, z, more, rest)
  BY <1>3, <1>4, <1>5, <1>6 DEF InOrder
<1> QED
  BY <1>7 DEF more, rest

(* A whole answer is unsent. *)
LEMMA StartInOrder ==
  ASSUME NEW a \in Seq(AnswerPacket), NEW line \in Seq(AnswerPacket), Zlps(line),
         ResponsePackets \in Nat, Len(a) = ResponsePackets + 1
  PROVE  InOrder(a, << >>, Len(line), line, a)
<1> DEFINE z == Len(line)
           e == << >>
<1>1. z \in Nat /\ DOMAIN line = 1 .. z /\ Len(e) = 0
  OBVIOUS
<1>2. \A i \in 1 .. z : Zlp(line[i])
  BY <1>1 DEF Zlps
<1>3. \A i \in 1 .. Len(a) : a[i] = a[0 + z - z + i]
  <2>1. \A i \in 1 .. Len(a) : 0 + z - z + i = i
    BY <1>1
  <2> QED
    BY <2>1
<1> HIDE DEF z, e
<1>4. InOrder(a, e, z, line, a)
  BY <1>1, <1>2, <1>3 DEF InOrder, z
<1> QED
  BY <1>4 DEF z, e

(* When the host has the status and the ciphertext, the packet of no bytes is *)
(* left, on the line or unsent.                                               *)
LEMMA EndInOrder ==
  ASSUME NEW a \in Seq(AnswerPacket), NEW got \in Seq(AnswerPacket),
         NEW line \in Seq(AnswerPacket), NEW unsent \in Seq(AnswerPacket),
         ResponsePackets \in Nat, Zlp(a[ResponsePackets + 1]),
         NEW z, InOrder(a, got, z, line, unsent), Len(got) = ResponsePackets
  PROVE  Zlps(line) /\ (unsent = << >> \/ (Len(unsent) = 1 /\ Zlp(unsent[1])))
<1>1. /\ Len(line) \in Nat /\ Len(unsent) \in Nat /\ DOMAIN line = 1 .. Len(line)
      /\ z \in 0 .. Len(line) /\ Len(line) - z + Len(unsent) = 1
  BY DEF InOrder
<1>2. ASSUME NEW i \in 1 .. Len(line) PROVE Zlp(line[i])
  <2>1. CASE i <= z
    BY <1>1, <2>1 DEF InOrder
  <2>2. CASE ~(i <= z)
    <3>1. i \in z + 1 .. Len(line) /\ Len(got) + i - z = ResponsePackets + 1
      BY <1>1, <2>2
    <3> QED
      BY <3>1 DEF InOrder
  <2> QED
    BY <2>1, <2>2
<1>3. ASSUME unsent # << >> PROVE Len(unsent) = 1 /\ Zlp(unsent[1])
  <2>0. Len(unsent) # 0
    BY <1>3
  <2>1. Len(unsent) = 1 /\ Len(line) = z
    <3>1. PICK l, u : l = Len(line) /\ u = Len(unsent)
      OBVIOUS
    <3>2. l \in Nat /\ u \in Nat /\ u # 0 /\ z \in Nat /\ z <= l /\ l - z + u = 1
      BY <1>1, <2>0, <3>1
    <3>3. u = 1 /\ l = z
      BY <3>2
    <3> QED
      BY <3>1, <3>3
  <2>2. 1 \in 1 .. Len(unsent) /\ Len(got) + Len(line) - z + 1 = ResponsePackets + 1
    BY <1>1, <2>1
  <2> QED
    BY <2>1, <2>2 DEF InOrder
<1> QED
  BY <1>1, <1>2, <1>3 DEF Zlps


-----------------------------------------------------------------------------
(* One action after the other keeps the three together. *)
LEMMA Here ==
  ASSUME Types
  PROVE  /\ req \in Request /\ toClient \in Seq(Packet) /\ toHost \in Seq(AnswerPacket)
         /\ response \in Seq(AnswerPacket) /\ Unsent \in Seq(AnswerPacket)
         /\ answer \in Seq(AnswerPacket)
         /\ payload_buffer \in Seq(Packet) /\ signature \in Seq(Packet)
         /\ (cpc = "write" => answer # << >>)
         /\ open \in BOOLEAN /\ interrupted \in BOOLEAN /\ attached \in BOOLEAN
<1>1. /\ req \in Request /\ toClient \in Seq(Packet) /\ toHost \in Seq(AnswerPacket)
      /\ response \in Seq(AnswerPacket) /\ answer \in Seq(AnswerPacket)
      /\ payload_buffer \in Seq(Packet) /\ signature \in Seq(Packet)
      /\ (cpc = "write" => answer # << >>)
      /\ open \in BOOLEAN /\ interrupted \in BOOLEAN /\ attached \in BOOLEAN
  BY DEF Types, HostTypes, ClientTypes, LinkTypes
<1>2. << >> \in Seq(AnswerPacket)
  OBVIOUS
<1>3. Unsent \in Seq(AnswerPacket)
  BY <1>1, <1>2, Zenon DEF Unsent
<1> QED
  BY <1>1, <1>3

(* Where the client stands is where its variables are. *)
LEMMA SameClient ==
  ASSUME UNCHANGED <<client, established>>, UNCHANGED req
  PROVE  /\ Idle' = Idle /\ Unsent' = Unsent /\ \A n : Taken(n)' = Taken(n)
         /\ cpc' = cpc
<1>1. UNCHANGED <<cpc, payload_len, payload_buffer, signature, answer>>
  BY DEF client
<1>2. Idle' = Idle
  BY <1>1 DEF Idle
<1>3. Unsent' = Unsent
  BY <1>1 DEF Unsent
<1>4. \A n : Taken(n)' = Taken(n)
  BY <1>1, <1>2 DEF Taken, Astray
<1> QED
  BY <1>1, <1>2, <1>3, <1>4

LEMMA StartTogether ==
  ASSUME Together, StartPing, UNCHANGED <<client, clientHistory>>
  PROVE  Together'
<1>1. UNCHANGED <<cpc, answer, toClient, toHost, attached, interrupted>>
  BY DEF StartPing, client
<1>2. Idle' = Idle
  BY <1>1 DEF Idle
<1>3. hpc = "sleep" /\ response' = << >>
  BY DEF StartPing
<1>4. open' => attached'
  <2>1. attached \/ open' = open
    BY DEF StartPing
  <2>2. (attached' <=> attached) /\ (open => attached)
    BY <1>1 DEF Together
  <2> QED
    BY <2>1, <2>2, Zenon
<1>5. ASSUME ~interrupted, Clean PROVE Clean' \/ Asking'
  <2>1. CASE attached
    <3>1. open' = TRUE /\ hpc' = "prefix"
      BY <2>1 DEF StartPing
    <3>2. Taken(0)'
      BY <1>2, <1>5 DEF Taken, Clean
    <3>3. Written' = 0
      BY <3>1 DEF Written
    <3>4. toClient' = << >> /\ Zlps(toHost')
      BY <1>1, <1>5 DEF Clean
    <3>5. Stream(req', 0, toClient') /\ 0 + Len(toClient') = 0
      BY <3>4 DEF Stream
    <3> QED
      BY <1>3, <3>1, <3>2, <3>3, <3>4, <3>5, 0 \in Nat DEF Asking, Pinging
  <2>2. CASE ~attached
    BY <1>1, <1>2, <1>5, <2>2 DEF StartPing, Clean
  <2> QED
    BY <2>1, <2>2
<1>6. Halted => Halted'
  BY <1>1, <1>3 DEF Halted, OutOfRoom
<1>7. ~Asking /\ ~Answering
  BY <1>3 DEF Asking, Answering, Pinging
<1> QED
  BY <1>1, <1>4, <1>5, <1>6, <1>7 DEF Together

LEMMA WriteTogether ==
  ASSUME TicketInv, Together, NEW from \in {"prefix", "payload", "signature"}, NEW to,
         to \in {"payload", "signature", "read"},
         NEW packets \in Seq(Packet), Write(from, packets, to),
         Written \in Nat,
         \A k \in 1 .. Len(packets) : packets[k] = Item(req, Written + k),
         Written' = Written + Len(packets),
         UNCHANGED <<client, clientHistory>>
  PROVE  Together'
<1>1. /\ UNCHANGED <<req, response, toHost, open, attached, interrupted>>
      /\ hpc = from /\ hpc' = to /\ open /\ toClient' = toClient \o packets
  BY DEF Write
<1>2. toClient \in Seq(Packet) /\ Len(toClient) \in Nat /\ Len(packets) \in Nat
  BY Here DEF TicketInv
<1>3. ASSUME Asking PROVE Asking'
  <2>1. PICK n \in Nat : Taken(n) /\ n + Len(toClient) = Written /\ Stream(req, n, toClient)
    BY <1>3 DEF Asking
  <2>2. Stream(req, n, toClient') /\ Len(toClient') = Len(toClient) + Len(packets)
    <3>1. \A k \in 1 .. Len(packets) : packets[k] = Item(req, n + Len(toClient) + k)
      BY <2>1
    <3>2. /\ Stream(req, n, toClient \o packets)
          /\ Len(toClient \o packets) = Len(toClient) + Len(packets)
      BY <1>2, <2>1, <3>1, StreamWrite
    <3> QED
      BY <1>1, <3>2
  <2>3. Taken(n)'
    BY <1>1, <2>1, SameClient DEF clientHistory
  <2>4. n + Len(toClient') = Written'
    BY <1>2, <2>1, <2>2, SMTT(30)
  <2> QED
    BY <1>1, <1>3, <2>2, <2>3, <2>4 DEF Asking, Pinging
<1>4. Halted => Halted'
  BY <1>1 DEF Halted, OutOfRoom, client
<1>5. ~Clean /\ ~Answering
  BY <1>1 DEF Clean, Answering
<1> QED
  BY <1>1, <1>3, <1>4, <1>5 DEF Together

LEMMA WritesTogether ==
  ASSUME TicketInv, Together, UNCHANGED <<client, clientHistory>>,
         WritePrefix \/ WritePayload \/ WriteSignature
  PROVE  Together'
<1> DEFINE P == NPayload(req)
           S == NSignature
<1>1. /\ P \in Nat \ {0} /\ S \in Nat \ {0} /\ NRequest(req) = 1 + P + S
      /\ Packets(req, "prefix", PACKET) \in Seq(Packet)
      /\ Len(Packets(req, "prefix", PACKET)) = 1
      /\ PayloadPackets(req) \in Seq(Packet) /\ Len(PayloadPackets(req)) = P
      /\ SignaturePackets(req) \in Seq(Packet) /\ Len(SignaturePackets(req)) = S
      /\ Item(req, 1) = Packets(req, "prefix", PACKET)[1]
      /\ \A k \in 1 .. P : Item(req, 1 + k) = PayloadPackets(req)[k]
      /\ \A k \in 1 .. S : Item(req, 1 + P + k) = SignaturePackets(req)[k]
  BY Here, Items DEF TicketInv, NRequest
<1>2. CASE WritePrefix
  <2>1. /\ Write("prefix", Packets(req, "prefix", PACKET), "payload")
        /\ hpc = "prefix" /\ hpc' = "payload"
    BY <1>2 DEF WritePrefix, Write
  <2>2. Written = 0 /\ Written' = 1
    BY <2>1 DEF Written
  <2>3. \A k \in 1 .. 1 : Packets(req, "prefix", PACKET)[k] = Item(req, 0 + k)
    BY <1>1
  <2> QED
    BY <1>1, <2>1, <2>2, <2>3, WriteTogether
<1>3. CASE WritePayload
  <2>1. /\ Write("payload", PayloadPackets(req), "signature")
        /\ hpc = "payload" /\ hpc' = "signature" /\ req' = req
    BY <1>3 DEF WritePayload, Write
  <2>2. Written = 1 /\ Written' = 1 + P
    BY <2>1 DEF Written
  <2> QED
    BY <1>1, <2>1, <2>2, WriteTogether
<1>4. CASE WriteSignature
  <2>1. /\ Write("signature", SignaturePackets(req), "read")
        /\ hpc = "signature" /\ hpc' = "read" /\ req' = req
    BY <1>4 DEF WriteSignature, Write
  <2>2. Written = 1 + P /\ Written' = 1 + P + S
    BY <1>1, <2>1 DEF Written
  <2>3. 1 + P \in Nat
    BY <1>1
  <2> HIDE DEF P, S
  <2> QED
    BY <1>1, <2>1, <2>2, <2>3, WriteTogether
<1> QED
  BY <1>2, <1>3, <1>4

LEMMA ReadTogether ==
  ASSUME TicketInv, Together, Read, UNCHANGED <<client, clientHistory>>
  PROVE  Together'
<1>1. /\ UNCHANGED <<hpc, req, toClient, open, attached, interrupted>>
      /\ hpc = "read" /\ open /\ Len(response) < ResponsePackets /\ toHost # << >>
      /\ response' = IF Head(toHost).len = 0 THEN response ELSE Append(response, Head(toHost))
      /\ toHost' = Tail(toHost)
  BY DEF Read
<1>2. /\ toHost \in Seq(AnswerPacket) /\ response \in Seq(AnswerPacket)
      /\ Unsent \in Seq(AnswerPacket)
  BY Here DEF TicketInv
<1>3. Zlps(toHost) => Head(toHost).len = 0 /\ Zlps(toHost')
  BY <1>1, <1>2, ZlpsKept
<1>4. Idle' = Idle /\ Unsent' = Unsent /\ cpc' = cpc /\ (\A n : Taken(n)' = Taken(n))
      /\ established' = established
  BY <1>1, SameClient DEF clientHistory
<1>5. Written' = Written
  BY <1>1 DEF Written
<1>6. Asking => Asking'
  BY <1>1, <1>3, <1>4, <1>5 DEF Asking, Pinging
<1>7. Halted => Halted'
  BY <1>1, <1>3, <1>4 DEF Halted, OutOfRoom
<1>8. ~Clean
  BY <1>1 DEF Clean
<1>9. ASSUME NEW a, NEW r \in Request, NEW ok \in BOOLEAN, NEW secret \in Nat,
             a = Answer(r, ok, secret), Between(a)
      PROVE  Between(a)'
  <2>1. PICK z : InOrder(a, response, z, toHost, Unsent)
    BY <1>9 DEF Between
  <2>2. /\ a \in Seq(AnswerPacket) /\ ResponsePackets \in Nat
        /\ \A k \in 1 .. ResponsePackets : a[k].len # 0
    BY <1>9, Answers
  <2>3. \E y : InOrder(a, response', y, toHost', Unsent')
    BY <1>1, <1>2, <1>4, <2>1, <2>2, ReadInOrder
  <2> QED
    BY <2>3 DEF Between
<1>10. ASSUME Answering PROVE Answering'
  <2>1. CASE req.fail
    <3>1. Between(Answer(NoRequest, FALSE, 0))
      BY <1>10, <2>1 DEF Answering
    <3>2. Between(Answer(NoRequest, FALSE, 0))'
      BY <1>9, <3>1, NoRequestType
    <3> QED
      BY <1>1, <1>4, <1>10, <2>1, <3>2 DEF Answering, Answer
  <2>2. CASE ~req.fail
    <3>1. PICK e \in established : e.req = req /\ Between(Answer(req, TRUE, e.secret))
      BY <1>10, <2>2 DEF Answering
    <3>2. e.secret \in Nat /\ req \in Request
      BY Here DEF TicketInv, Types, ClientTypes
    <3>3. PICK a : a = Answer(req, TRUE, e.secret)
      OBVIOUS
    <3>4. Between(a)'
      BY <1>9, <3>1, <3>2, <3>3
    <3>5. a = Answer(req', TRUE, e.secret)
      BY <1>1, <3>3
    <3>6. \E f \in established' : f.req = req' /\ Between(Answer(req, TRUE, f.secret))'
      BY <1>1, <1>4, <3>1, <3>4, <3>5, Zenon
    <3> QED
      BY <1>1, <1>4, <1>10, <2>2, <3>6 DEF Answering
  <2> QED
    BY <2>1, <2>2
<1> QED
  BY <1>1, <1>6, <1>7, <1>8, <1>10 DEF Together


(* What Close leaves on the line is the end of what was on it. *)
LEMMA Closed ==
  ASSUME toHost \in Seq(AnswerPacket), Zlps(toHost), Close
  PROVE  open' = FALSE /\ Zlps(toHost')
<1>1. open' = FALSE
  BY DEF Close
<1>2. PICK k \in 0 .. Len(toHost) : toHost' = SubSeq(toHost, k + 1, Len(toHost))
  BY DEF Close
<1> QED
  BY <1>1, <1>2, ZlpsKept

(* In answering, the whole answer read, the rest is the packet of no bytes. *)
LEMMA AnswerRead ==
  ASSUME TicketInv, Answering, Len(response) = ResponsePackets
  PROVE  /\ Zlps(toHost) /\ Idle
         /\ \E r \in Request, ok \in BOOLEAN, secret \in Nat :
              /\ \A i \in 1 .. ResponsePackets : response[i] = Answer(r, ok, secret)[i]
              /\ ok = ~req.fail
              /\ ok => r = req /\ [req |-> req, secret |-> secret] \in established
<1>1. /\ toHost \in Seq(AnswerPacket) /\ response \in Seq(AnswerPacket)
      /\ Unsent \in Seq(AnswerPacket) /\ req \in Request
      /\ (cpc = "write" => answer # << >>)
      /\ \A e \in established : e \in [req : Request, secret : Nat]
  BY Here DEF TicketInv, Types, ClientTypes
<1>2. PICK r \in Request, ok \in BOOLEAN, secret \in Nat :
        /\ Between(Answer(r, ok, secret))
        /\ ok = ~req.fail
        /\ ok => r = req /\ [req |-> req, secret |-> secret] \in established
  <2>1. CASE req.fail
    <3>1. Between(Answer(NoRequest, FALSE, 0))
      BY <2>1 DEF Answering
    <3> QED
      BY <2>1, <3>1, NoRequestType
  <2>2. CASE ~req.fail
    <3>1. PICK e \in established : e.req = req /\ Between(Answer(req, TRUE, e.secret))
      BY <2>2 DEF Answering
    <3>2. e = [req |-> req, secret |-> e.secret] /\ e.secret \in Nat
      BY <1>1, <3>1
    <3>3. req.fail = FALSE
      BY <1>1, <2>2 DEF Request
    <3> QED
      BY <1>1, <3>1, <3>2, <3>3
  <2> QED
    BY <2>1, <2>2
<1>3. PICK a : a = Answer(r, ok, secret)
  OBVIOUS
<1>4. a \in Seq(AnswerPacket) /\ ResponsePackets \in Nat /\ Zlp(a[ResponsePackets + 1])
  BY <1>3, Answers
<1>5. PICK z : InOrder(a, response, z, toHost, Unsent)
  BY <1>2, <1>3 DEF Between
<1>6. Zlps(toHost) /\ (Unsent = << >> \/ (Len(Unsent) = 1 /\ Zlp(Unsent[1])))
  BY <1>1, <1>4, <1>5, EndInOrder
<1>7. Idle
  <2>1. cpc \in {"wait", "prefix", "write"}
    BY DEF Answering
  <2> QED
    BY <1>1, <1>6, <2>1 DEF Idle, Unsent
<1>8. \A i \in 1 .. ResponsePackets : response[i] = a[i]
  BY <1>5 DEF InOrder
<1> QED
  BY <1>2, <1>3, <1>6, <1>7, <1>8

LEMMA ReportTogether ==
  ASSUME TicketInv, Together, Report, UNCHANGED <<client, clientHistory>>
  PROVE  Together'
<1>1. /\ UNCHANGED <<req, toClient, attached, interrupted>>
      /\ hpc = "read" /\ open /\ Len(response) = ResponsePackets /\ Close
  BY DEF Report
<1>2. toHost \in Seq(AnswerPacket) /\ response \in Seq(AnswerPacket)
  BY Here DEF TicketInv
<1>3. ResponsePackets >= 2
  BY AnswerLength
<1>4. response # << >>
  BY <1>1, <1>2, <1>3
<1>5. ~Clean /\ ~Asking /\ ~Halted
  BY <1>1, <1>4 DEF Clean, Asking, Halted
<1>6. ASSUME Answering PROVE Clean'
  <2>1. Zlps(toHost) /\ Idle
    BY <1>1, <1>6, AnswerRead
  <2>2. Idle'
    BY <1>1, <2>1, SameClient DEF clientHistory
  <2> QED
    BY <1>1, <1>2, <1>6, <2>1, <2>2, Closed DEF Clean, Answering
<1>7. open' = FALSE
  BY <1>1 DEF Close
<1> QED
  BY <1>1, <1>5, <1>6, <1>7 DEF Together

LEMMA DieTogether ==
  ASSUME TicketInv, Together, Die, UNCHANGED <<client, clientHistory>>
  PROVE  Together'
<1>1. /\ UNCHANGED <<req, attached>> /\ Close /\ response' = << >>
      /\ (~interrupted' => ~interrupted /\ ~open)
  <2>1. interrupted' = (interrupted \/ open)
    BY DEF Die
  <2>2. ~interrupted' => ~interrupted /\ ~open
    BY <2>1, Zenon
  <2> QED
    BY <2>2 DEF Die
<1>2. toHost \in Seq(AnswerPacket) /\ toClient \in Seq(Packet)
  BY Here DEF TicketInv
<1>3. open' = FALSE
  BY <1>1 DEF Close
<1>4. Zlps(toHost) => Zlps(toHost')
  BY <1>1, <1>2, Closed
<1>5. ASSUME Clean PROVE Clean'
  <2>1. toClient' = << >>
    <3>1. PICK k \in 0 .. Len(toClient) : toClient' = SubSeq(toClient, 1, k)
      BY DEF Die
    <3> QED
      BY <1>5, <3>1 DEF Clean
  <2>2. Idle'
    BY <1>1, <1>5, SameClient DEF clientHistory, Clean
  <2> QED
    BY <1>3, <1>4, <1>5, <2>1, <2>2 DEF Clean
<1>6. Halted => Halted'
  BY <1>3, <1>4 DEF Halted, OutOfRoom, client
<1>7. ~open => ~Asking /\ ~Answering
  BY DEF Asking, Answering
<1> QED
  BY <1>1, <1>3, <1>5, <1>6, <1>7 DEF Together

LEMMA SameTogether ==
  ASSUME Together, UNCHANGED <<client, established>>, UNCHANGED <<req, response, toClient, toHost, open, interrupted>>,
         attached => attached',
         \/ hpc' = hpc
         \/ ~Pinging
  PROVE  Together'
<1>1. /\ Idle' = Idle /\ Unsent' = Unsent /\ (\A n : Taken(n)' = Taken(n)) /\ cpc' = cpc
      /\ established' = established
  BY SameClient
<1>2. open' => attached'
  BY DEF Together
<1>3. Clean => Clean'
  BY <1>1 DEF Clean
<1>4. Halted => Halted'
  BY <1>1 DEF Halted, OutOfRoom
<1>5. ASSUME hpc' = hpc, Asking PROVE Asking'
  <2>1. Written' = Written
    BY <1>5 DEF Written
  <2> QED
    BY <1>1, <1>5, <2>1 DEF Asking, Pinging
<1>6. ASSUME hpc' = hpc, Answering PROVE Answering'
  <2>1. \A a : Between(a)' = Between(a)
    BY <1>1 DEF Between
  <2>2. CASE req.fail
    <3>1. Between(Answer(NoRequest, FALSE, 0))
      BY <1>6, <2>2 DEF Answering
    <3>2. Between(Answer(NoRequest, FALSE, 0))'
      BY <2>1, <3>1
    <3> QED
      BY <1>1, <1>6, <2>2, <3>2 DEF Answering
  <2>3. CASE ~req.fail
    <3>1. PICK e \in established : e.req = req /\ Between(Answer(req, TRUE, e.secret))
      BY <1>6, <2>3 DEF Answering
    <3>2. PICK a : a = Answer(req, TRUE, e.secret)
      OBVIOUS
    <3>3. Between(a)' /\ a = Answer(req', TRUE, e.secret)
      BY <2>1, <3>1, <3>2
    <3>4. \E f \in established' : f.req = req' /\ Between(Answer(req, TRUE, f.secret))'
      BY <1>1, <3>1, <3>3, Zenon
    <3> QED
      BY <1>1, <1>6, <2>3, <3>4 DEF Answering
  <2> QED
    BY <2>2, <2>3
<1>7. ~Pinging => ~Asking /\ ~Answering
  BY DEF Asking, Answering, Pinging
<1> QED
  BY <1>2, <1>3, <1>4, <1>5, <1>6, <1>7 DEF Together

LEMMA HostTogether ==
  ASSUME TicketInv, Together, HostNext
  PROVE  Together'
<1>1. UNCHANGED <<client, clientHistory>> /\ UNCHANGED <<client, established>>
  BY DEF HostNext, clientHistory
<1>2. CASE StartPing
  BY <1>1, <1>2, StartTogether
<1>3. CASE WritePrefix \/ WritePayload \/ WriteSignature
  BY <1>1, <1>3, WritesTogether
<1>4. CASE Read
  BY <1>1, <1>4, ReadTogether
<1>5. CASE Report
  BY <1>1, <1>5, ReportTogether
<1>6. CASE IoError \/ ReadTimeout \/ Kill
  BY <1>1, <1>6, DieTogether DEF IoError, ReadTimeout, Kill
<1>7. CASE Restart
  BY <1>1, <1>7, SameTogether DEF Restart, link, Pinging, Together
<1>8. ASSUME NEW newApp, Command(newApp) PROVE Together'
  BY <1>1, <1>8, SameTogether DEF Command, link, Together
<1> QED
  BY <1>2, <1>3, <1>4, <1>5, <1>6, <1>7, <1>8
  DEF HostNext, HostStep, PingerStep, UpdatePayload, ToggleFail


(* The host's own part of Asking. *)
HostAsks == Pinging /\ open /\ response = << >> /\ Zlps(toHost)

LEMMA SameHost ==
  ASSUME UNCHANGED <<host, hostHistory>>
  PROVE  /\ UNCHANGED <<hpc, req, response>> /\ Written' = Written
         /\ open' = open /\ toHost' = toHost => HostAsks' = HostAsks
<1>1. UNCHANGED <<hpc, req, response>>
  BY DEF host
<1>2. Written' = Written
  BY <1>1 DEF Written
<1> QED
  BY <1>1, <1>2 DEF HostAsks, Pinging

(* The client waits for the next request, or sends what is left of an answer. *)
LEMMA IdleTogether ==
  ASSUME TicketInv, Together, UNCHANGED <<host, hostHistory>>,
         UNCHANGED <<toClient, open, attached, interrupted, established>>,
         Idle => Idle',
         \/ toHost' = toHost /\ Unsent' = Unsent
         \/ toHost' = Append(toHost, Head(answer)) /\ Unsent' = Tail(answer)
              /\ cpc = "write",
         cpc \in {"wait", "prefix", "write"}, cpc' \in {"wait", "prefix", "write"}
  PROVE  Together'
<1>1. UNCHANGED <<hpc, req, response>> /\ Written' = Written
  BY SameHost
<1>2. /\ toHost \in Seq(AnswerPacket) /\ answer \in Seq(AnswerPacket)
      /\ (cpc = "write" => answer # << >>)
      /\ response \in Seq(AnswerPacket) /\ Unsent \in Seq(AnswerPacket)
  BY Here DEF TicketInv
<1>3. ASSUME Idle, Zlps(toHost) PROVE Zlps(toHost')
  <2>1. CASE toHost' = toHost
    BY <1>3, <2>1
  <2>2. CASE toHost' = Append(toHost, Head(answer)) /\ cpc = "write"
    <3>1. Head(answer) \in AnswerPacket /\ Head(answer) = answer[1]
      BY <1>2, <2>2
    <3>2. Zlp(answer[1])
      BY <1>3, <2>2 DEF Idle
    <3> QED
      BY <1>2, <1>3, <2>2, <3>1, <3>2, ZlpsKept
  <2> QED
    BY <2>1, <2>2
<1>4. Clean => Clean'
  BY <1>3 DEF Clean
<1>5. ASSUME Asking PROVE Asking'
  <2>1. PICK n \in Nat : Taken(n) /\ n + Len(toClient) = Written /\ Stream(req, n, toClient)
    BY <1>5 DEF Asking
  <2>2. Idle /\ n = 0
    BY <2>1 DEF Taken, Astray
  <2>3. Taken(n)'
    BY <2>2 DEF Taken
  <2>4. n + Len(toClient') = Written' /\ Stream(req', n, toClient')
    BY <1>1, <2>1
  <2> QED
    BY <1>1, <1>3, <1>5, <2>2, <2>3, <2>4 DEF Asking, Pinging
<1>6. ASSUME NEW a \in Seq(AnswerPacket), Between(a) PROVE Between(a)'
  <2>1. PICK z : InOrder(a, response, z, toHost, Unsent)
    BY <1>6 DEF Between
  <2>2. CASE toHost' = toHost /\ Unsent' = Unsent
    BY <1>1, <2>1, <2>2 DEF Between
  <2>3. CASE toHost' = Append(toHost, Head(answer)) /\ Unsent' = Tail(answer) /\ cpc = "write"
    <3>1. Unsent = answer /\ answer # << >>
      BY <1>2, <2>3 DEF Unsent
    <3>2. InOrder(a, response, z, Append(toHost, Head(answer)), Tail(answer))
      BY <1>2, <2>1, <3>1, SendInOrder
    <3>3. InOrder(a, response', z, toHost', Unsent')
      BY <1>1, <2>3, <3>2
    <3> QED
      BY <3>3 DEF Between
  <2> QED
    BY <2>2, <2>3
<1>7. ASSUME Answering PROVE Answering'
  <2>1. CASE req.fail
    <3>1. PICK a : a = Answer(NoRequest, FALSE, 0)
      OBVIOUS
    <3>2. Between(a)
      BY <1>7, <2>1, <3>1 DEF Answering
    <3>3. a \in Seq(AnswerPacket)
      BY <3>1, NoRequestType, AnswerIn
    <3>4. Between(a)'
      BY <1>6, <3>2, <3>3
    <3>5. Between(Answer(NoRequest, FALSE, 0))'
      BY <3>1, <3>4
    <3> QED
      BY <1>1, <1>7, <2>1, <3>5 DEF Answering
  <2>2. CASE ~req.fail
    <3>1. PICK e \in established : e.req = req /\ Between(Answer(req, TRUE, e.secret))
      BY <1>7, <2>2 DEF Answering
    <3>2. PICK a : a = Answer(req, TRUE, e.secret)
      OBVIOUS
    <3>3. a \in Seq(AnswerPacket)
      <4>1. e.secret \in Nat /\ req \in Request
        BY Here DEF TicketInv, Types, ClientTypes
      <4>2. PICK r, ok, s : r = req /\ ok = TRUE /\ s = e.secret
        OBVIOUS
      <4>3. a = Answer(r, ok, s) /\ r \in Request /\ ok \in BOOLEAN /\ s \in Nat
        BY <3>2, <4>1, <4>2
      <4> QED
        <5>1. \A x \in Request, y \in BOOLEAN, n \in Nat : Answer(x, y, n) \in Seq(AnswerPacket)
          BY AnswerIn
        <5> QED
          BY <4>3, <5>1
    <3>4. Between(a)' /\ a = Answer(req', TRUE, e.secret)
      BY <1>1, <1>6, <3>1, <3>2, <3>3
    <3>5. \E f \in established' : f.req = req' /\ Between(Answer(req, TRUE, f.secret))'
      BY <3>1, <1>1, <3>4, Zenon
    <3> QED
      BY <1>1, <1>7, <2>2, <3>5 DEF Answering
  <2> QED
    BY <2>1, <2>2
<1>8. ~Halted
  BY DEF Halted
<1> QED
  BY <1>4, <1>5, <1>7, <1>8 DEF Together


LEMMA WaitTogether ==
  ASSUME TicketInv, Together, UNCHANGED <<host, hostHistory>>,
         WaitConnection \/ Disconnected \/ WritePacket
  PROVE  Together'
<1>1. UNCHANGED <<toClient, open, attached, interrupted, established>>
  BY DEF WaitConnection, Disconnected, WritePacket, link, clientHistory
<1>2. answer \in Seq(AnswerPacket) /\ (cpc = "write" => answer # << >>)
  BY Here DEF TicketInv
<1>3. CASE WaitConnection
  <2>1. cpc = "wait" /\ cpc' = "prefix" /\ toHost' = toHost
    BY <1>3 DEF WaitConnection, link
  <2>2. Idle' /\ Unsent' = Unsent
    BY <2>1 DEF Idle, Unsent
  <2> QED
    BY <1>1, <2>1, <2>2, IdleTogether
<1>4. CASE Disconnected
  <2>1. cpc = "write" /\ cpc' = "wait" /\ ~attached /\ toHost' = toHost
    BY <1>4 DEF Disconnected, link
  <2>2. ~open /\ ~open'
    BY <1>1, <2>1 DEF Together
  <2>3. Clean => Clean'
    BY <1>1, <2>1 DEF Clean, Idle
  <2> QED
    BY <1>1, <2>1, <2>2, <2>3 DEF Together, Asking, Answering, Halted
<1>5. CASE WritePacket
  <2>1. /\ cpc = "write" /\ toHost' = Append(toHost, Head(answer))
        /\ IF Len(answer) > 1 THEN answer' = Tail(answer) /\ cpc' = cpc
                              ELSE cpc' = "prefix"
    BY <1>5 DEF WritePacket
  <2>2. CASE Len(answer) > 1
    <3>1. ~Idle
      BY <2>1, <2>2 DEF Idle
    <3>2. Unsent' = Tail(answer)
      BY <2>1, <2>2 DEF Unsent
    <3> QED
      BY <1>1, <2>1, <2>2, <3>1, <3>2, IdleTogether
  <2>3. CASE ~(Len(answer) > 1)
    <3>1. Idle'
      BY <2>1, <2>3 DEF Idle
    <3>2. Unsent' = Tail(answer)
      <4>1. Len(answer) = 1
        <5>1. Len(answer) # 0 /\ Len(answer) \in Nat
          BY <1>2, <2>1
        <5>2. PICK l : l = Len(answer)
          OBVIOUS
        <5>3. l \in Nat /\ l # 0 /\ ~(l > 1)
          BY <2>3, <5>1, <5>2
        <5> QED
          BY <5>2, <5>3
      <4>2. Tail(answer) = << >>
        BY <1>2, <4>1
      <4>3. Unsent' = << >>
        BY <2>1, <2>3 DEF Unsent
      <4> QED
        BY <4>2, <4>3
    <3> QED
      BY <1>1, <2>1, <2>3, <3>1, <3>2, IdleTogether
  <2> QED
    BY <2>2, <2>3
<1> QED
  BY <1>3, <1>4, <1>5

LEMMA UnplugTogether ==
  ASSUME TicketInv, Together, UNCHANGED <<host, hostHistory>>, Unplug
  PROVE  Together'
<1>1. /\ attached' = FALSE /\ open' = FALSE /\ toClient' = << >> /\ toHost' = << >>
      /\ ~interrupted' => cpc \notin {"verify", "encapsulate"}
  <2>1. interrupted' = (cpc \in {"verify", "encapsulate"})
    BY DEF Unplug
  <2>2. ~interrupted' => cpc \notin {"verify", "encapsulate"}
    BY <2>1, Zenon
  <2> QED
    BY <2>2 DEF Unplug
<1>2. Zlps(toHost')
  BY <1>1 DEF Zlps
<1>3. cpc \in ClientPc
  BY DEF TicketInv, Types, ClientTypes
<1>7. OutOfRoom'
  <2>1. unplugs \in Nat /\ unplugs < MaxUnplugs
    BY DEF Unplug, TicketInv, Types, ClientTypes
  <2> QED
    BY <2>1, MaxUnplugsAssumption DEF OutOfRoom
<1>4. CASE cpc \in AtEndpoint
  <2>1. cpc' = "wait"
    BY <1>4 DEF Unplug
  <2> QED
    BY <1>1, <1>2, <2>1 DEF Together, Clean, Idle
<1>5. CASE cpc \in {"wait", "halted"}
  <2>1. cpc' = cpc
    BY <1>5 DEF Unplug, AtEndpoint, client
  <2> QED
    BY <1>1, <1>2, <1>5, <1>7, <2>1 DEF Together, Clean, Halted, Idle
<1>6. CASE cpc \in {"verify", "encapsulate"}
  BY <1>1, <1>6 DEF Together
<1> QED
  BY <1>3, <1>4, <1>5, <1>6 DEF ClientPc, AtEndpoint


(* The client takes the next packet of the request. *)
TakesNext(n) ==
  /\ Taken(n) /\ HostAsks /\ toClient # << >>
  /\ Head(toClient) = Item(req, n + 1)
  /\ n + 1 + Len(Tail(toClient)) = Written
  /\ Stream(req, n + 1, Tail(toClient))

LEMMA Takes ==
  ASSUME TicketInv, Asking, toClient # << >>
  PROVE  \E n \in Nat : TakesNext(n)
<1>1. PICK n \in Nat : Taken(n) /\ n + Len(toClient) = Written /\ Stream(req, n, toClient)
  BY DEF Asking
<1>2. toClient \in Seq(Packet)
  BY Here DEF TicketInv
<1>3. /\ Head(toClient) = Item(req, n + 1) /\ Stream(req, n + 1, Tail(toClient))
      /\ Len(toClient) \in Nat \ {0} /\ Len(Tail(toClient)) = Len(toClient) - 1
  BY <1>1, <1>2, StreamRead
<1>4. n + 1 + Len(Tail(toClient)) = n + Len(toClient)
  BY <1>3
<1> QED
  BY <1>1, <1>3, <1>4 DEF TakesNext, HostAsks, Asking

(* Having taken it, it stands one packet further, or has stopped. *)
LEMMA Took ==
  ASSUME NEW n \in Nat, TakesNext(n), UNCHANGED <<host, hostHistory>>,
         UNCHANGED <<toHost, open, attached>>, Together,
         toClient' = Tail(toClient),
         Taken(n + 1)' \/ (cpc' = "halted" /\ OutOfRoom)
  PROVE  Together'
<1>1. UNCHANGED <<hpc, req, response>> /\ Written' = Written
  BY SameHost
<1>2. HostAsks
  BY DEF TakesNext
<1>3. CASE cpc' = "halted" /\ OutOfRoom
  BY <1>1, <1>2, <1>3 DEF Together, Halted, HostAsks, OutOfRoom
<1>4. CASE Taken(n + 1)'
  <2>1. n + 1 \in Nat /\ n + 1 + Len(toClient') = Written' /\ Stream(req', n + 1, toClient')
    BY <1>1 DEF TakesNext
  <2> QED
    BY <1>1, <1>2, <1>4, <2>1 DEF Together, Asking, HostAsks, Pinging
<1> QED
  BY <1>3, <1>4

(* The prefix says the length, or one shorter by at least 2^16.               *)
LEMMA Prefix ==
  ASSUME NEW r \in Request
  PROVE  /\ PrefixValue(r) \in Nat
         /\ KEY + r.payload < U16 => PrefixValue(r) = KEY + r.payload
         /\ KEY + r.payload >= U16 => PrefixValue(r) + U16 <= KEY + r.payload
<1> DEFINE a == r.payload + KEY
           q == a \div U16
           d == a % U16
<1>1. r.payload \in Nat
  <2>1. r.payload \in Payloads \cup {0}
    BY DEF Request
  <2> QED
    BY <2>1, Lengths, Zenon
<1>2. a \in Nat /\ a = KEY + r.payload /\ U16 \in Nat \ {0}
  BY <1>1, Sizes
<1>3. q \in Nat /\ d \in 0 .. U16 - 1 /\ a = q * U16 + d
  <2>1. PICK x, u : x = a /\ u = U16
    OBVIOUS
  <2>2. x \in Nat /\ u \in Nat \ {0}
    BY <1>2, <2>1
  <2>3. x \div u \in Int /\ x % u \in 0 .. u - 1 /\ x = u * (x \div u) + (x % u)
    BY <2>2, Division
  <2>4. PICK y, z : y = x \div u /\ z = x % u
    OBVIOUS
  <2>5. y \in Int /\ z \in 0 .. u - 1 /\ x = u * y + z
    BY <2>3, <2>4
  <2>6. y >= 0
    <3> SUFFICES ASSUME y <= -1 PROVE FALSE
      BY <2>5
    <3>1. u * y <= u * (-1) /\ u * (-1) = -u
      BY <2>2, <2>5, SMT
    <3>2. PICK w : w = u * y
      OBVIOUS
    <3>3. w \in Int /\ w <= -u /\ x = w + z
      BY <2>2, <2>5, <3>1, <3>2, SMT
    <3> QED
      BY <2>2, <2>5, <3>3
  <2>7. u * y = y * u
    BY <2>2, <2>5, SMT
  <2> QED
    BY <2>1, <2>4, <2>5, <2>6, <2>7
<1>4. PrefixValue(r) = d
  BY DEF PrefixValue
<1> HIDE DEF a, q, d
<1>5. CASE q = 0
  <2>1. a = d /\ a < U16
    BY <1>2, <1>3, <1>5
  <2> QED
    BY <1>2, <1>3, <1>4, <2>1
<1>6. CASE q # 0
  <2>1. q * U16 >= U16
    BY <1>2, <1>3, <1>6, SMT
  <2>2. PICK x : x = q * U16
    OBVIOUS
  <2>3. x \in Nat /\ x >= U16 /\ a = x + d
    BY <1>2, <1>3, <2>1, <2>2
  <2>4. d + U16 <= a
    BY <1>2, <1>3, <2>3
  <2> QED
    BY <1>2, <1>3, <1>4, <2>4
<1> QED
  BY <1>5, <1>6

(* What lies within the payload is full packets. *)
LEMMA Full ==
  ASSUME NEW r \in Request, NEW k \in Nat \ {0}, k * PACKET <= KEY + r.payload
  PROVE  k \in 1 .. NPayload(r) /\ Item(r, 1 + k).len = PACKET
<1> DEFINE sum == KEY + r.payload
           c == (sum + PACKET - 1) \div PACKET
<1>1. /\ NPayload(r) \in Nat \ {0} /\ sum \in Nat \ {0}
      /\ \A j \in 1 .. NPayload(r) : Item(r, 1 + j) = PayloadPackets(r)[j]
  BY Items
<1>2. PACKET \in Nat \ {0} /\ c \in Nat \ {0} /\ sum <= c * PACKET
  BY <1>1, Sizes, PacketCount
<1>3. NPayload(r) = c /\ PayloadPackets(r) = Packets(r, "payload", sum)
  BY DEF NPayload, PayloadPackets
<1>4. \A j \in 1 .. c : Packets(r, "payload", sum)[j] =
        [req |-> r, part |-> "payload", k |-> j,
         len |-> IF j * PACKET <= sum THEN PACKET ELSE sum % PACKET]
  BY <1>1, PacketsType
<1>5. k * PACKET <= sum
  OBVIOUS
<1> HIDE DEF sum, c
<1>6. k <= c
  <2> SUFFICES ASSUME k >= c + 1 PROVE FALSE
    BY <1>2
  <2>1. k * PACKET >= (c + 1) * PACKET /\ (c + 1) * PACKET = c * PACKET + PACKET
    BY <1>2, SMT
  <2>2. k * PACKET \in Nat /\ c * PACKET \in Nat
    BY <1>2
  <2> QED
    BY <1>1, <1>2, <1>5, <2>1, <2>2
<1>7. k \in 1 .. c
  BY <1>2, <1>6
<1>8. Item(r, 1 + k) = Packets(r, "payload", sum)[k]
  BY <1>1, <1>3, <1>7
<1>9. Packets(r, "payload", sum)[k].len = PACKET
  <2>1. Packets(r, "payload", sum)[k] =
          [req |-> r, part |-> "payload", k |-> k,
           len |-> IF k * PACKET <= sum THEN PACKET ELSE sum % PACKET]
    BY <1>4, <1>7
  <2>2. PICK packet : packet = Packets(r, "payload", sum)[k]
    OBVIOUS
  <2>3. packet = [req |-> r, part |-> "payload", k |-> k, len |-> PACKET]
    BY <1>5, <2>1, <2>2, Zenon
  <2>4. packet.len = PACKET
    BY <2>3
  <2> QED
    BY <2>2, <2>4
<1> QED
  BY <1>3, <1>7, <1>8, <1>9

(* More than there is room for is a payload too long. *)
LEMMA TooLong ==
  ASSUME NEW r \in Request, KEY + r.payload > KEY + MAX_PAYLOAD
  PROVE  OutOfRoom
<1>1. r.payload \in Payloads \cup {0}
  BY DEF Request
<1>2. PICK l : l = r.payload
  OBVIOUS
<1>3. l \in Nat /\ KEY \in Nat /\ MAX_PAYLOAD \in Nat /\ (l \in Payloads \/ l = 0)
  BY <1>1, <1>2, Lengths, Sizes
<1>4. KEY + l > KEY + MAX_PAYLOAD
  BY <1>2
<1>5. l > MAX_PAYLOAD /\ l # 0
  BY <1>3, <1>4
<1> QED
  BY <1>3, <1>5 DEF OutOfRoom

LEMMA FullBytes ==
  ASSUME NEW s, NEW m \in Nat, Len(s) = m, \A k \in 1 .. m : s[k].len = PACKET
  PROVE  Bytes(s) = m * PACKET
<1> DEFINE f == [k \in 0 .. m |-> k * PACKET]
<1>1. PACKET \in Nat \ {0}
  BY Sizes
<1>2. ASSUME NEW k \in 0 .. m PROVE f[k] = IF k = 0 THEN 0 ELSE f[k - 1] + s[k].len
  <2>1. CASE k = 0
    BY <1>1, <2>1
  <2>2. CASE k # 0
    <3>1. k \in 1 .. m /\ k - 1 \in 0 .. m
      BY <2>2
    <3>2. k * PACKET = (k - 1) * PACKET + PACKET
      BY <1>1, <3>1
    <3> QED
      BY <2>2, <3>1, <3>2
  <2> QED
    BY <2>1, <2>2
<1>3. f = [k \in 0 .. m |-> IF k = 0 THEN 0 ELSE f[k - 1] + s[k].len]
  BY <1>2
<1>4. f[m] = m * PACKET
  OBVIOUS
<1> HIDE DEF f
<1> QED
  BY <1>3, <1>4, BytesAre

(* Astray, the client takes one more full packet. *)
LEMMA AstrayPayload ==
  ASSUME TicketInv, Together, UNCHANGED <<host, hostHistory>>, ReadPayload,
         NEW n \in Nat, TakesNext(n), Astray(n)
  PROVE  Together'
<1>1. /\ cpc = "payload" /\ toClient' = Tail(toClient)
      /\ UNCHANGED <<toHost, open, attached, interrupted, signature, payload_len>>
      /\ payload_buffer' = Append(payload_buffer, Head(toClient))
      /\ cpc' = IF Bytes(payload_buffer') > KEY + MAX_PAYLOAD THEN "halted"
                ELSE IF Bytes(payload_buffer') < payload_len THEN "payload" ELSE "signature"
  BY DEF ReadPayload, ReadPacket
<1>2. PICK r, l, sum, b, buffer, packet, more :
        /\ r = req /\ l = payload_len /\ sum = KEY + req.payload
        /\ buffer = payload_buffer /\ b = Len(buffer)
        /\ packet = Head(toClient) /\ more = payload_buffer'
  OBVIOUS
<1>3. /\ sum >= U16 /\ l = PrefixValue(r) /\ n = 1 + b /\ b * PACKET < l
      /\ \A k \in DOMAIN buffer : buffer[k].len = PACKET
  BY <1>1, <1>2 DEF Astray
<1>4. r \in Request /\ req' = r /\ buffer \in Seq(Packet) /\ b \in Nat /\ PACKET \in Nat \ {0}
      /\ U16 \in Nat \ {0} /\ KEY \in Nat /\ MAX_PAYLOAD \in Nat
  BY <1>2, Here, SameHost, Sizes DEF TicketInv
<1>5. SIG \in Nat \ {0} /\ SIG + 2 * PACKET <= U16
  BY SignatureAssumption, Sizes
<1>6. sum \in Nat /\ l \in Nat /\ l + U16 <= sum
  BY <1>2, <1>3, <1>4, Prefix, Items
<1>18. OutOfRoom
  <2>1. KEY + MAX_PAYLOAD < U16 /\ sum >= U16 /\ sum = KEY + r.payload
    BY <1>2, <1>3, Sizes
  <2>2. KEY + r.payload > KEY + MAX_PAYLOAD
    <3>1. PICK x, y : x = KEY + MAX_PAYLOAD /\ y = U16
      OBVIOUS
    <3>2. x \in Nat /\ y \in Nat /\ x < y /\ sum >= y /\ sum \in Nat
      BY <1>4, <1>6, <2>1, <3>1
    <3> QED
      BY <2>1, <3>1, <3>2
  <2> QED
    BY <1>4, <2>2, TooLong
<1> DEFINE m == b + 1
<1>7. m * PACKET = b * PACKET + PACKET /\ b * PACKET \in Nat
  BY <1>4
<1>8. m * PACKET <= sum /\ m * PACKET < l + PACKET
  <2>1. PICK x : x = b * PACKET
    OBVIOUS
  <2> QED
    BY <1>3, <1>4, <1>5, <1>6, <1>7, <2>1
<1>9. packet.len = PACKET
  <2>1. m \in Nat \ {0} /\ n + 1 = 1 + m
    BY <1>3, <1>4
  <2>2. Item(r, 1 + m).len = PACKET
    BY <1>2, <1>4, <1>8, <2>1, Full
  <2> QED
    BY <1>2, <2>1, <2>2 DEF TakesNext
<1>10. more = Append(buffer, packet)
  BY <1>1, <1>2
<1>11. /\ Len(more) = m /\ DOMAIN more = 1 .. m
       /\ \A k \in 1 .. m : more[k].len = PACKET
  <2>1. Len(more) = b + 1 /\ DOMAIN more = 1 .. b + 1 /\ more[b + 1] = packet
        /\ DOMAIN buffer = 1 .. b /\ \A k \in 1 .. b : more[k] = buffer[k]
    BY <1>2, <1>4, <1>10
  <2>2. \A k \in 1 .. b + 1 : k \in 1 .. b \/ k = b + 1
    BY <1>4
  <2> QED
    BY <1>3, <1>9, <2>1, <2>2
<1>12. m \in Nat
  BY <1>4
<1>13. Bytes(more) = m * PACKET
  BY <1>11, <1>12, FullBytes, SMTT(30)
<1>14. n + 1 = 1 + m /\ m * PACKET \in Nat
  BY <1>3, <1>4, <1>7
<1> HIDE DEF m
<1>15. CASE Bytes(more) > KEY + MAX_PAYLOAD
  <2>1. cpc' = "halted"
    BY <1>1, <1>2, <1>13, <1>14, <1>15, <1>4
  <2> QED
    BY <1>1, <1>18, <2>1, Took
<1>16. CASE ~(Bytes(more) > KEY + MAX_PAYLOAD) /\ Bytes(more) < l
  <2>1. cpc' = "payload"
    BY <1>1, <1>2, <1>16
  <2>2. Astray(n + 1)'
    BY <1>1, <1>2, <1>3, <1>4, <1>11, <1>13, <1>14, <1>16, <2>1 DEF Astray
  <2> QED
    BY <1>1, <2>2, Took DEF Taken
<1>17. CASE ~(Bytes(more) > KEY + MAX_PAYLOAD) /\ ~(Bytes(more) < l)
  <2>1. cpc' = "signature"
    BY <1>1, <1>2, <1>17
  <2> DEFINE e == << >>
  <2>2. Len(e) = 0 /\ DOMAIN e = {}
    OBVIOUS
  <2> HIDE DEF e
  <2>3. signature' = e
    BY <1>1 DEF TicketInv, Buffers, e
  <2>4. n + 1 = 1 + m + 0 /\ 0 * PACKET < SIG
    BY <1>4, <1>5, <1>12, <1>14
  <2>5. Astray(n + 1)'
    BY <1>1, <1>2, <1>3, <1>4, <1>8, <1>11, <2>1, <2>2, <2>3, <2>4 DEF Astray
  <2> QED
    BY <1>1, <2>5, Took DEF Taken
<1> QED
  BY <1>15, <1>16, <1>17

LEMMA AstraySignature ==
  ASSUME TicketInv, Together, UNCHANGED <<host, hostHistory>>, ReadSignature,
         NEW n \in Nat, TakesNext(n), Astray(n)
  PROVE  Together'
<1>1. /\ cpc = "signature" /\ toClient' = Tail(toClient)
      /\ UNCHANGED <<toHost, open, attached, interrupted, payload_buffer, payload_len>>
      /\ signature' = Append(signature, Head(toClient))
      /\ cpc' = IF Bytes(signature') > SIG THEN "halted"
                ELSE IF Bytes(signature') < SIG THEN "signature" ELSE "verify"
  BY DEF ReadSignature, ReadPacket
<1>2. PICK r, l, sum, p, b, buffer, packet, more :
        /\ r = req /\ l = payload_len /\ sum = KEY + req.payload /\ p = Len(payload_buffer)
        /\ buffer = signature /\ b = Len(buffer)
        /\ packet = Head(toClient) /\ more = signature'
  OBVIOUS
<1>3. /\ sum >= U16 /\ l = PrefixValue(r) /\ n = 1 + p + b
      /\ p * PACKET < l + PACKET /\ b * PACKET < SIG
      /\ \A k \in DOMAIN buffer : buffer[k].len = PACKET
  BY <1>1, <1>2 DEF Astray
<1>4. r \in Request /\ req' = r /\ buffer \in Seq(Packet) /\ b \in Nat /\ p \in Nat
      /\ PACKET \in Nat \ {0} /\ U16 \in Nat \ {0} /\ KEY \in Nat /\ MAX_PAYLOAD \in Nat
  BY <1>2, Here, SameHost, Sizes DEF TicketInv
<1>5. SIG \in Nat \ {0} /\ SIG + 2 * PACKET <= U16 /\ SIG % PACKET # 0
  BY SignatureAssumption, Sizes
<1>6. sum \in Nat /\ l \in Nat /\ l + U16 <= sum
  BY <1>2, <1>3, <1>4, Prefix, Items
<1>18. OutOfRoom
  <2>1. KEY + MAX_PAYLOAD < U16 /\ sum >= U16 /\ sum = KEY + r.payload
    BY <1>2, <1>3, Sizes
  <2>2. KEY + r.payload > KEY + MAX_PAYLOAD
    <3>1. PICK x, y : x = KEY + MAX_PAYLOAD /\ y = U16
      OBVIOUS
    <3>2. x \in Nat /\ y \in Nat /\ x < y /\ sum >= y /\ sum \in Nat
      BY <1>4, <1>6, <2>1, <3>1
    <3> QED
      BY <2>1, <3>1, <3>2
  <2> QED
    BY <1>4, <2>2, TooLong
<1> DEFINE m == b + 1
<1>7. m * PACKET = b * PACKET + PACKET /\ b * PACKET \in Nat /\ p * PACKET \in Nat
      /\ (p + m) * PACKET = p * PACKET + b * PACKET + PACKET
  BY <1>4
<1>8. (p + m) * PACKET <= sum
  <2>1. PICK x, y, z : x = b * PACKET /\ y = p * PACKET /\ z = (p + m) * PACKET
    OBVIOUS
  <2>2. /\ x \in Nat /\ y \in Nat /\ z = y + x + PACKET
        /\ y < l + PACKET /\ x < SIG /\ SIG + 2 * PACKET <= U16 /\ l + U16 <= sum
    BY <1>3, <1>5, <1>6, <1>7, <2>1
  <2>3. z <= sum
    BY <1>4, <1>5, <1>6, <2>2
  <2> QED
    BY <2>1, <2>3
<1>9. packet.len = PACKET
  <2>1. p + m \in Nat \ {0} /\ n + 1 = 1 + (p + m)
    BY <1>3, <1>4, SMTT(30)
  <2>2. Item(r, 1 + (p + m)).len = PACKET
    BY <1>2, <1>4, <1>8, <2>1, Full
  <2> QED
    BY <1>2, <2>1, <2>2 DEF TakesNext
<1>10. more = Append(buffer, packet)
  BY <1>1, <1>2
<1>11. /\ Len(more) = m /\ DOMAIN more = 1 .. m
       /\ \A k \in 1 .. m : more[k].len = PACKET
  <2>1. Len(more) = b + 1 /\ DOMAIN more = 1 .. b + 1 /\ more[b + 1] = packet
        /\ DOMAIN buffer = 1 .. b /\ \A k \in 1 .. b : more[k] = buffer[k]
    BY <1>2, <1>4, <1>10
  <2>2. \A k \in 1 .. b + 1 : k \in 1 .. b \/ k = b + 1
    BY <1>4
  <2> QED
    BY <1>3, <1>9, <2>1, <2>2
<1>12. m \in Nat /\ n + 1 = 1 + p + m
  <2>1. n = 1 + p + b /\ b \in Nat /\ p \in Nat
    BY <1>3, <1>4
  <2>2. (1 + p + b) + 1 = 1 + p + (b + 1)
    BY <2>1
  <2> QED
    BY <2>1, <2>2
<1>13. Bytes(more) = m * PACKET
  BY <1>11, <1>12, FullBytes, SMTT(30)
<1>14. m * PACKET \in Nat
  BY <1>4, <1>12
<1> HIDE DEF m
<1>15. Bytes(more) # SIG
  <2>1. (m * PACKET) % PACKET = 0
    BY <1>4, <1>12, SMT
  <2> QED
    BY <1>5, <1>13, <2>1
<1>16. CASE Bytes(more) > SIG
  <2>1. cpc' = "halted"
    BY <1>1, <1>2, <1>5, <1>13, <1>14, <1>16
  <2> QED
    BY <1>1, <1>18, <2>1, Took
<1>17. CASE Bytes(more) < SIG
  <2>1. cpc' = "signature"
    BY <1>1, <1>2, <1>5, <1>13, <1>14, <1>17
  <2>2. Astray(n + 1)'
    BY <1>1, <1>2, <1>3, <1>4, <1>11, <1>12, <1>13, <1>17, <2>1 DEF Astray
  <2> QED
    BY <1>1, <2>2, Took DEF Taken
<1> QED
  BY <1>5, <1>13, <1>14, <1>15, <1>16, <1>17

LEMMA ReadPrefixTogether ==
  ASSUME TicketInv, Together, UNCHANGED <<host, hostHistory>>, ReadPrefix
  PROVE  Together'
<1>1. /\ cpc = "prefix" /\ toClient # << >> /\ toClient' = Tail(toClient)
      /\ UNCHANGED <<toHost, open, attached, interrupted, payload_buffer, signature>>
      /\ payload_len' \in PrefixOf(Head(toClient))
      /\ cpc' = IF payload_len' = 0 THEN "signature" ELSE "payload"
  BY DEF ReadPrefix, ReadPacket
<1>2. CASE interrupted
  BY <1>1, <1>2 DEF Together
<1>3. CASE ~interrupted
  <2>1. Asking
    BY <1>1, <1>3 DEF Together, Clean, Answering, Halted
  <2>2. PICK n \in Nat : TakesNext(n)
    BY <1>1, <2>1, Takes
  <2>3. n = 0
    BY <1>1, <2>2 DEF TakesNext, Taken, Astray
  <2>4. req \in Request /\ req' = req
    BY Here, SameHost DEF TicketInv
  <2>5. payload_len' = PrefixValue(req)
    <3>1. Head(toClient).part = "prefix" /\ Head(toClient).req = req
      BY <2>2, <2>3, <2>4, Items DEF TakesNext
    <3> QED
      BY <1>1, <3>1 DEF PrefixOf
  <2> DEFINE e == << >>
  <2>6. Len(e) = 0 /\ DOMAIN e = {}
    OBVIOUS
  <2> HIDE DEF e
  <2>7. payload_buffer' = e /\ signature' = e
    BY <1>1 DEF TicketInv, Buffers, e
  <2>8. PICK l, sum : l = payload_len' /\ sum = KEY + req.payload
    OBVIOUS
  <2>9. l \in Nat /\ sum \in Nat \ {0} /\ PACKET \in Nat \ {0} /\ SIG \in Nat \ {0}
        /\ U16 \in Nat
    BY <2>4, <2>5, <2>8, Prefix, Items, Sizes
  <2>10. Taken(0 + 1)'
    <3>1. CASE sum < U16
      <4>1. l = sum /\ cpc' = "payload"
        BY <1>1, <2>4, <2>5, <2>8, <2>9, <3>1, Prefix
      <4>2. NPayload(req') \in Nat \ {0}
        BY <2>4, Items
      <4> QED
        BY <2>4, <2>6, <2>7, <2>8, <4>1, <4>2 DEF Taken
    <3>2. CASE ~(sum < U16)
      <4>1. 0 * PACKET = 0 /\ sum >= U16
        BY <2>9, <3>2
      <4>2. CASE l = 0
        <5>1. cpc' = "signature"
          BY <1>1, <2>8, <4>2
        <5>2. 0 * PACKET < l + PACKET /\ 0 * PACKET < SIG /\ 0 + 1 = 1 + 0 + 0
          BY <2>9, <4>2
        <5>3. Astray(0 + 1)'
          BY <2>4, <2>5, <2>6, <2>7, <2>8, <4>1, <5>1, <5>2 DEF Astray
        <5> QED
          BY <5>3 DEF Taken
      <4>3. CASE l # 0
        <5>1. cpc' = "payload"
          BY <1>1, <2>8, <4>3
        <5>2. 0 * PACKET < l /\ 0 + 1 = 1 + 0
          BY <2>9, <4>1, <4>3
        <5>3. Astray(0 + 1)'
          BY <2>4, <2>5, <2>6, <2>7, <2>8, <4>1, <5>1, <5>2 DEF Astray
        <5> QED
          BY <5>3 DEF Taken
      <4> QED
        BY <4>2, <4>3
    <3> QED
      BY <3>1, <3>2
  <2> QED
    BY <1>1, <2>2, <2>3, <2>10, Took
<1> QED
  BY <1>2, <1>3

(* What the client has when it has assembled the packets in buffer of a part   *)
(* of n bytes in c packets, and one more.                                     *)
OneMore(r, part, n, c, whole, buffer, packet, more) ==
  /\ Len(more) = Len(buffer) + 1
  /\ \A k \in DOMAIN more : more[k] = whole[k]
  /\ Bytes(more) \in Nat
  /\ Len(more) < c => Bytes(more) < n
  /\ ~(Len(more) < c) => Bytes(more) = n /\ more = whole

LEMMA Assembled ==
  ASSUME NEW r \in Request, NEW part \in {"prefix", "payload", "signature"},
         NEW n \in Nat \ {0}, NEW c, c = (n + PACKET - 1) \div PACKET,
         NEW whole, whole = Packets(r, part, n),
         NEW buffer \in Seq(Packet), Len(buffer) < c,
         \A k \in DOMAIN buffer : buffer[k] = whole[k],
         NEW packet \in Packet, packet = whole[Len(buffer) + 1],
         NEW more, more = Append(buffer, packet)
  PROVE  OneMore(r, part, n, c, whole, buffer, packet, more)
<1> DEFINE m == Len(buffer) + 1
<1>1. /\ c \in Nat \ {0} /\ PACKET \in Nat \ {0} /\ (c - 1) * PACKET < n
  BY Sizes, PacketCount
<1>2. /\ m \in 1 .. c /\ Len(more) = m /\ DOMAIN more = 1 .. m
      /\ \A k \in 1 .. Len(buffer) : more[k] = buffer[k]
      /\ more[m] = packet /\ DOMAIN buffer = 1 .. Len(buffer)
  <2>1. Len(buffer) \in Nat
    OBVIOUS
  <2>2. m \in 1 .. c
    BY <1>1, <2>1
  <2> QED
    BY <2>2
<1>3. more \in Seq(Packet)
  OBVIOUS
<1>4. ASSUME NEW k \in 1 .. m PROVE more[k] = Packets(r, part, n)[k]
  <2>1. k \in 1 .. Len(buffer) \/ k = m
    BY <1>2
  <2> QED
    BY <1>2, <2>1
<1> HIDE DEF m
<1>5. Bytes(more) = IF m = c THEN n ELSE m * PACKET
  <2>1. /\ m \in 1 .. c /\ Len(more) = m
        /\ \A k \in 1 .. m : more[k] = Packets(r, part, n)[k]
    BY <1>2, <1>4
  <2>2. ASSUME NEW s, NEW j \in 1 .. c, Len(s) = j,
               \A k \in 1 .. j : s[k] = Packets(r, part, n)[k]
        PROVE  Bytes(s) = IF j = c THEN n ELSE j * PACKET
    BY <2>2, BytesOfPackets, SMTT(30)
  <2> QED
    BY <2>1, <2>2, Zenon
<1>6. m * PACKET \in Nat
  BY <1>1, <1>2
<1>7. ASSUME m < c PROVE Bytes(more) < n
  <2>1. m <= c - 1 /\ m \in Nat /\ c - 1 \in Nat
    BY <1>1, <1>2, <1>7
  <2>2. m * PACKET <= (c - 1) * PACKET
    BY <1>1, <2>1, SMTT(30)
  <2>3. PICK x : x = (c - 1) * PACKET
    OBVIOUS
  <2>4. x \in Nat
    BY <1>1, <2>1, <2>3
  <2> QED
    BY <1>1, <1>5, <1>6, <1>7, <2>2, <2>3, <2>4
<1>8. ASSUME ~(m < c) PROVE Bytes(more) = n /\ more = Packets(r, part, n)
  <2>1. m = c
    BY <1>1, <1>2, <1>8
  <2>2. Packets(r, part, n) \in Seq(Packet) /\ Len(Packets(r, part, n)) = c
    BY PacketsType
  <2>3. more = Packets(r, part, n)
    BY <1>2, <1>3, <1>4, <2>1, <2>2
  <2> QED
    BY <1>5, <2>1, <2>3
<1> QED
  BY <1>1, <1>2, <1>4, <1>5, <1>6, <1>7, <1>8 DEF m, OneMore


LEMMA ReadPayloadTogether ==
  ASSUME TicketInv, Together, UNCHANGED <<host, hostHistory>>, ReadPayload
  PROVE  Together'
<1>1. /\ cpc = "payload" /\ toClient # << >> /\ toClient' = Tail(toClient)
      /\ UNCHANGED <<toHost, open, attached, interrupted, signature, payload_len>>
      /\ payload_buffer' = Append(payload_buffer, Head(toClient))
      /\ cpc' = IF Bytes(payload_buffer') > KEY + MAX_PAYLOAD THEN "halted"
                ELSE IF Bytes(payload_buffer') < payload_len THEN "payload" ELSE "signature"
  BY DEF ReadPayload, ReadPacket
<1>2. CASE interrupted
  BY <1>1, <1>2 DEF Together
<1>3. CASE ~interrupted
  <2>1. Asking
    BY <1>1, <1>3 DEF Together, Clean, Idle, Answering, Halted
  <2>2. PICK n \in Nat : TakesNext(n)
    BY <1>1, <2>1, Takes
  <2>3. CASE Astray(n)
    BY <2>2, <2>3, AstrayPayload
  <2>4. CASE ~Astray(n)
    <3>3. PICK r, c, sum, buffer, packet, more :
            /\ r = req /\ c = NPayload(req) /\ sum = KEY + req.payload
            /\ buffer = payload_buffer /\ packet = Head(toClient) /\ more = payload_buffer'
      OBVIOUS
    <3>4. /\ payload_len = sum /\ Len(buffer) < c /\ n = 1 + Len(buffer)
          /\ \A k \in DOMAIN buffer : buffer[k] = PayloadPackets(r)[k]
      BY <1>1, <2>2, <2>4, <3>3 DEF TakesNext, Taken, Idle
    <3>5. /\ r \in Request /\ buffer \in Seq(Packet) /\ req' = r
          /\ toClient \in Seq(Packet)
      BY <3>3, Here, SameHost DEF TicketInv
    <3>6. packet \in Packet
      BY <1>1, <3>3, <3>5, Parts
    <3>7. /\ c \in Nat \ {0} /\ sum \in Nat \ {0} /\ NSignature \in Nat \ {0}
          /\ \A k \in 1 .. c : Item(r, 1 + k) = PayloadPackets(r)[k]
      BY <3>3, <3>5, Items
    <3>8. packet = PayloadPackets(r)[Len(buffer) + 1]
      <4>1. Len(buffer) \in Nat
        BY <3>5
      <4>2. Len(buffer) + 1 \in 1 .. c /\ n + 1 = 1 + (Len(buffer) + 1)
        BY <3>4, <3>7, <4>1
      <4>3. packet = Item(r, n + 1)
        BY <2>2, <3>3 DEF TakesNext
      <4> QED
        BY <3>7, <4>2, <4>3
    <3>9. /\ PayloadPackets(r) = Packets(r, "payload", sum)
          /\ c = (sum + PACKET - 1) \div PACKET
      BY <3>3 DEF PayloadPackets, NPayload
    <3>10. more = Append(buffer, packet)
      BY <1>1, <3>3
    <3>11. /\ Len(more) = Len(buffer) + 1
           /\ \A k \in DOMAIN more : more[k] = PayloadPackets(r)[k]
           /\ Bytes(more) \in Nat
           /\ Len(more) < c => Bytes(more) < sum
           /\ ~(Len(more) < c) => Bytes(more) = sum /\ more = PayloadPackets(r)
      <4>1. PICK part, whole : part = "payload" /\ whole = PayloadPackets(r)
        OBVIOUS
      <4>2. part \in {"prefix", "payload", "signature"} /\ whole = Packets(r, part, sum)
        BY <3>9, <4>1
      <4>3. /\ Len(buffer) < c /\ packet = whole[Len(buffer) + 1]
            /\ \A k \in DOMAIN buffer : buffer[k] = whole[k]
        BY <3>4, <3>8, <4>1
      <4>4. /\ r \in Request /\ sum \in Nat \ {0} /\ c = (sum + PACKET - 1) \div PACKET
            /\ buffer \in Seq(Packet) /\ packet \in Packet
            /\ more = Append(buffer, packet)
        BY <3>5, <3>6, <3>7, <3>9, <3>10
      <4>5. OneMore(r, part, sum, c, whole, buffer, packet, more)
        BY <4>2, <4>3, <4>4, Assembled
      <4> QED
        BY <4>1, <4>5 DEF OneMore
    <3>12. (cpc' = "halted" /\ OutOfRoom) \/ Taken(n + 1)'
      <4>1. CASE Bytes(more) > KEY + MAX_PAYLOAD
        <5>1. cpc' = "halted"
          BY <1>1, <3>3, <3>11, <4>1, Sizes
        <5>2. Bytes(more) <= sum
          BY <3>5, <3>7, <3>11
        <5>3. KEY + r.payload > KEY + MAX_PAYLOAD
          BY <3>3, <3>7, <3>11, <4>1, <5>2, Sizes
        <5> QED
          BY <3>5, <5>1, <5>3, TooLong
      <4>2. CASE ~(Bytes(more) > KEY + MAX_PAYLOAD) /\ Len(more) < c
        <5>1. cpc' = "payload"
          BY <1>1, <3>3, <3>4, <3>11, <4>2
        <5>2. n + 1 = 1 + Len(more)
          BY <3>4, <3>5, <3>11
        <5> QED
          BY <1>1, <3>3, <3>4, <3>5, <3>11, <4>2, <5>1, <5>2 DEF Taken
      <4>3. CASE ~(Bytes(more) > KEY + MAX_PAYLOAD) /\ ~(Len(more) < c)
        <5>1. cpc' = "signature"
          BY <1>1, <3>3, <3>4, <3>7, <3>11, <4>3
        <5>2. signature' = << >>
          BY <1>1 DEF TicketInv, Buffers
        <5> DEFINE e == << >>
        <5>3. Len(e) = 0 /\ DOMAIN e = {}
          OBVIOUS
        <5> HIDE DEF e
        <5>4. signature' = e
          BY <5>2 DEF e
        <5>5. n + 1 = 1 + c + Len(e)
          <6>1. Len(buffer) \in Nat
            BY <3>5
          <6> QED
            BY <3>4, <3>7, <3>11, <4>3, <5>3, <6>1
        <5> QED
          BY <3>3, <3>5, <3>7, <3>11, <4>3, <5>1, <5>3, <5>4, <5>5 DEF Taken
      <4> QED
        BY <4>1, <4>2, <4>3
    <3> QED
      BY <1>1, <2>2, <3>12, Took
  <2> QED
    BY <2>3, <2>4
<1> QED
  BY <1>2, <1>3

LEMMA ReadSignatureTogether ==
  ASSUME TicketInv, Together, UNCHANGED <<host, hostHistory>>, ReadSignature
  PROVE  Together'
<1>1. /\ cpc = "signature" /\ toClient # << >> /\ toClient' = Tail(toClient)
      /\ UNCHANGED <<toHost, open, attached, interrupted, payload_buffer>>
      /\ signature' = Append(signature, Head(toClient))
      /\ cpc' = IF Bytes(signature') > SIG THEN "halted"
                ELSE IF Bytes(signature') < SIG THEN "signature" ELSE "verify"
  BY DEF ReadSignature, ReadPacket
<1>2. CASE interrupted
  BY <1>1, <1>2 DEF Together
<1>3. CASE ~interrupted
  <2>1. Asking
    BY <1>1, <1>3 DEF Together, Clean, Idle, Answering, Halted
  <2>2. PICK n \in Nat : TakesNext(n)
    BY <1>1, <2>1, Takes
  <2>3. CASE Astray(n)
    BY <2>2, <2>3, AstraySignature
  <2>4. CASE ~Astray(n)
    <3>3. PICK r, p, buffer, packet, more :
            /\ r = req /\ p = NPayload(req)
            /\ buffer = signature /\ packet = Head(toClient) /\ more = signature'
      OBVIOUS
    <3> DEFINE c == NSignature
    <3>4. /\ Len(buffer) < c /\ n = 1 + p + Len(buffer)
          /\ payload_buffer = PayloadPackets(r)
          /\ \A k \in DOMAIN buffer : buffer[k] = SignaturePackets(r)[k]
      BY <1>1, <2>2, <2>4, <3>3 DEF TakesNext, Taken, Idle
    <3>5. /\ r \in Request /\ buffer \in Seq(Packet) /\ req' = r
          /\ toClient \in Seq(Packet)
      BY <3>3, Here, SameHost DEF TicketInv
    <3>6. packet \in Packet
      BY <1>1, <3>3, <3>5, Parts
    <3>7. /\ c \in Nat \ {0} /\ p \in Nat /\ SIG \in Nat \ {0} /\ NRequest(r) = 1 + p + c
          /\ \A k \in 1 .. c : Item(r, 1 + p + k) = SignaturePackets(r)[k]
      BY <3>3, <3>5, Items, Sizes DEF NRequest
    <3>8. packet = SignaturePackets(r)[Len(buffer) + 1]
      <4>1. Len(buffer) \in Nat
        BY <3>5
      <4>2. Len(buffer) + 1 \in 1 .. c /\ n + 1 = 1 + p + (Len(buffer) + 1)
        BY <3>4, <3>7, <4>1
      <4>3. packet = Item(r, n + 1)
        BY <2>2, <3>3 DEF TakesNext
      <4> QED
        BY <3>7, <4>2, <4>3
    <3>9. /\ SignaturePackets(r) = Packets(r, "signature", SIG)
          /\ c = (SIG + PACKET - 1) \div PACKET
      BY DEF SignaturePackets, NSignature
    <3>10. more = Append(buffer, packet)
      BY <1>1, <3>3
    <3> HIDE DEF c
    <3>11. /\ Len(more) = Len(buffer) + 1
           /\ \A k \in DOMAIN more : more[k] = SignaturePackets(r)[k]
           /\ Bytes(more) \in Nat
           /\ Len(more) < c => Bytes(more) < SIG
           /\ ~(Len(more) < c) => Bytes(more) = SIG /\ more = SignaturePackets(r)
      <4>1. PICK part, whole : part = "signature" /\ whole = SignaturePackets(r)
        OBVIOUS
      <4>2. part \in {"prefix", "payload", "signature"} /\ whole = Packets(r, part, SIG)
        BY <3>9, <4>1
      <4>3. /\ Len(buffer) < c /\ packet = whole[Len(buffer) + 1]
            /\ \A k \in DOMAIN buffer : buffer[k] = whole[k]
        BY <3>4, <3>8, <4>1
      <4>4. /\ r \in Request /\ SIG \in Nat \ {0} /\ c = (SIG + PACKET - 1) \div PACKET
            /\ buffer \in Seq(Packet) /\ packet \in Packet
            /\ more = Append(buffer, packet)
        BY <3>5, <3>6, <3>7, <3>9, <3>10
      <4>5. OneMore(r, part, SIG, c, whole, buffer, packet, more)
        BY <4>2, <4>3, <4>4, Assembled
      <4> QED
        BY <4>1, <4>5 DEF OneMore
    <3>12. Taken(n + 1)'
      <4>1. Len(buffer) \in Nat
        BY <3>5
      <4>2. CASE Len(more) < c
        <5>1. cpc' = "signature"
          BY <1>1, <3>3, <3>7, <3>11, <4>2
        <5>2. n + 1 = 1 + p + Len(more)
          BY <3>4, <3>7, <3>11, <4>1
        <5> QED
          BY <1>1, <3>3, <3>4, <3>5, <3>11, <4>2, <5>1, <5>2 DEF Taken, c
      <4>3. CASE ~(Len(more) < c)
        <5>1. cpc' = "verify"
          BY <1>1, <3>3, <3>7, <3>11, <4>3
        <5>2. n + 1 = NRequest(r)
          <6>1. PICK l : l = Len(buffer)
            OBVIOUS
          <6>2. l \in Nat /\ l < c /\ ~(l + 1 < c) /\ n = 1 + p + l
            BY <3>4, <3>11, <4>1, <4>3, <6>1
          <6>3. l + 1 = c
            BY <3>7, <6>2
          <6> QED
            BY <3>7, <6>2, <6>3
        <5> QED
          BY <1>1, <3>3, <3>4, <3>5, <3>11, <4>3, <5>1, <5>2 DEF Taken
      <4> QED
        BY <4>2, <4>3
    <3> QED
      BY <1>1, <2>2, <3>12, Took
  <2> QED
    BY <2>3, <2>4
<1> QED
  BY <1>2, <1>3

(* The client has the whole request: nothing of it is left on the line. *)
LEMMA WholeRequest ==
  ASSUME TicketInv, Together, ~interrupted, cpc \in {"verify", "encapsulate"}
  PROVE  /\ Asking /\ Taken(NRequest(req)) /\ NRequest(req) \in Nat /\ Written = NRequest(req)
         /\ toClient = << >> /\ hpc = "read"
         /\ payload_buffer = PayloadPackets(req) /\ signature = SignaturePackets(req)
         /\ payload_buffer # << >> /\ payload_buffer[1].req = req
         /\ cpc = "encapsulate" => ~req.fail
<1>1. Asking
  BY DEF Together, Clean, Idle, Answering, Halted
<1>2. PICK n \in Nat : Taken(n) /\ n + Len(toClient) = Written
  BY <1>1 DEF Asking
<1>3. /\ n = NRequest(req)
      /\ payload_buffer = PayloadPackets(req) /\ signature = SignaturePackets(req)
      /\ cpc = "encapsulate" => ~req.fail
  BY <1>2 DEF Taken, Astray, Idle
<1>4. req \in Request /\ toClient \in Seq(Packet)
  BY Here DEF TicketInv
<1>5. PICK P, S, L : P = NPayload(req) /\ S = NSignature /\ L = Len(toClient)
  OBVIOUS
<1>6. P \in Nat \ {0} /\ S \in Nat \ {0} /\ L \in Nat /\ NRequest(req) = 1 + P + S
  BY <1>4, <1>5, Items DEF NRequest
<1>7. hpc = "read"
  <2>1. hpc \in {"prefix", "payload", "signature", "read"}
    BY <1>1 DEF Asking, Pinging
  <2>2. hpc = "prefix" => Written = 0
    BY DEF Written
  <2>3. hpc = "payload" => Written = 1
    BY DEF Written
  <2>4. hpc = "signature" => Written = 1 + P
    BY <1>5 DEF Written
  <2> QED
    BY <1>2, <1>3, <1>5, <1>6, <2>1, <2>2, <2>3, <2>4
<1>8. Written = NRequest(req)
  BY <1>7 DEF Written
<1>9. L = 0
  BY <1>2, <1>3, <1>5, <1>6, <1>8
<1>10. toClient = << >>
  <2>1. PICK s \in Seq(Packet) : s = toClient
    BY <1>4
  <2>2. Len(s) = 0
    BY <1>5, <1>9, <2>1
  <2>3. s = << >>
    BY <2>2
  <2> QED
    BY <2>1, <2>3
<1>11. payload_buffer # << >> /\ payload_buffer[1].req = req
  <2>1. PayloadPackets(req) \in Seq(Packet) /\ Len(PayloadPackets(req)) = P
    BY <1>4, <1>5, Items
  <2>2. 1 \in DOMAIN PayloadPackets(req)
    BY <1>6, <2>1
  <2>3. PayloadPackets(req)[1].req = req
    BY <2>2 DEF PayloadPackets, Packets
  <2> QED
    BY <1>3, <2>2, <2>3
<1> QED
  BY <1>1, <1>2, <1>3, <1>6, <1>7, <1>8, <1>10, <1>11


LEMMA VerifyTogether ==
  ASSUME TicketInv, Together, UNCHANGED <<host, hostHistory>>, Verify
  PROVE  Together'
<1>1. /\ cpc = "verify" /\ cpc' = IF Verified THEN "encapsulate" ELSE "write"
      /\ ~Verified => answer' = Answer(NoRequest, FALSE, 0)
      /\ UNCHANGED <<payload_len, payload_buffer, signature, established>>
      /\ UNCHANGED <<toClient, toHost, open, attached, interrupted>>
  BY DEF Verify, link, clientHistory
<1>2. CASE interrupted
  BY <1>1, <1>2 DEF Together
<1>3. CASE ~interrupted
  <2>1. /\ Asking /\ Taken(NRequest(req)) /\ NRequest(req) \in Nat /\ Written = NRequest(req)
        /\ toClient = << >> /\ hpc = "read"
        /\ payload_buffer = PayloadPackets(req) /\ signature = SignaturePackets(req)
        /\ payload_buffer # << >> /\ payload_buffer[1].req = req
    BY <1>1, <1>3, WholeRequest
  <2>2. UNCHANGED <<hpc, req, response>> /\ Written' = Written
    BY SameHost
  <2>3. Verified <=> ~req.fail
    BY <2>1 DEF Verified
  <2>4. CASE Verified
    <3>1. Taken(NRequest(req))'
      BY <1>1, <2>1, <2>2, <2>3, <2>4 DEF Taken
    <3>2. PICK n \in Nat : n = NRequest(req)
      BY <2>1
    <3>3. Taken(n)'
      BY <2>2, <3>1, <3>2
    <3>4. n + Len(toClient') = Written' /\ Stream(req', n, toClient')
      <4>1. toClient' = << >>
        BY <1>1, <2>1
      <4>2. Written' = n
        BY <2>1, <2>2, <3>2
      <4> QED
        BY <4>1, <4>2 DEF Stream
    <3> QED
      BY <1>1, <2>1, <2>2, <3>3, <3>4 DEF Together, Asking, Pinging
  <2>5. CASE ~Verified
    <3>1. PICK a : a = Answer(NoRequest, FALSE, 0)
      OBVIOUS
    <3>2. a \in Seq(AnswerPacket) /\ ResponsePackets \in Nat /\ Len(a) = ResponsePackets + 1
      <4>1. ASSUME NEW r \in Request, NEW ok \in BOOLEAN, NEW n \in Nat, NEW b, b = Answer(r, ok, n)
            PROVE  b \in Seq(AnswerPacket) /\ ResponsePackets \in Nat /\ Len(b) = ResponsePackets + 1
        BY <4>1, Answers
      <4>2. FALSE \in BOOLEAN /\ 0 \in Nat
        OBVIOUS
      <4> QED
        BY <3>1, <4>1, <4>2, NoRequestType, Zenon
    <3>3. toHost \in Seq(AnswerPacket) /\ Zlps(toHost) /\ response = << >>
      BY <2>1, Here DEF TicketInv, Asking
    <3>4. InOrder(a, << >>, Len(toHost), toHost, a)
      BY <3>2, <3>3, StartInOrder
    <3>5. Unsent' = a
      BY <1>1, <2>5, <3>1 DEF Unsent
    <3>6. InOrder(a, response', Len(toHost'), toHost', Unsent')
      BY <1>1, <2>2, <3>3, <3>4, <3>5
    <3>7. Between(a)'
      BY <3>6 DEF Between
    <3>8. Between(Answer(NoRequest, FALSE, 0))'
      BY <3>1, <3>7
    <3>9. req'.fail
      BY <2>2, <2>3, <2>5
    <3>10. open
      BY <2>1 DEF Asking
    <3> QED
      BY <1>1, <2>1, <2>2, <2>5, <3>8, <3>9, <3>10 DEF Together, Answering
  <2> QED
    BY <2>4, <2>5
<1> QED
  BY <1>2, <1>3

LEMMA EncapsulateTogether ==
  ASSUME TicketInv, Together, UNCHANGED <<host, hostHistory>>, Encapsulate
  PROVE  Together'
<1> DEFINE secret == Cardinality(established) + 1
<1>1. /\ cpc = "encapsulate" /\ cpc' = "write"
      /\ established' = established \cup {[req |-> payload_buffer[1].req, secret |-> secret]}
      /\ answer' = Answer(payload_buffer[1].req, TRUE, secret)
      /\ UNCHANGED <<toClient, toHost, open, attached, interrupted>>
  BY DEF Encapsulate, link
<1>2. CASE interrupted
  BY <1>1, <1>2 DEF Together
<1>3. CASE ~interrupted
  <2>1. /\ Asking /\ toClient = << >> /\ hpc = "read"
        /\ payload_buffer[1].req = req /\ ~req.fail
    BY <1>1, <1>3, WholeRequest
  <2>2. UNCHANGED <<hpc, req, response>>
    BY SameHost
  <2>3. PICK r, ok, s, a : r = req /\ ok = TRUE /\ s = secret /\ a = Answer(r, ok, s)
    OBVIOUS
  <2>4. r \in Request /\ s \in Nat /\ ok \in BOOLEAN
    <3>1. secret \in Nat
      BY FS_CardinalityType DEF TicketInv, Types, ClientTypes
    <3> QED
      BY <2>3, <3>1, Here DEF TicketInv
  <2>5. a \in Seq(AnswerPacket) /\ ResponsePackets \in Nat /\ Len(a) = ResponsePackets + 1
    <3>1. ASSUME NEW b, b = Answer(r, ok, s)
          PROVE  b \in Seq(AnswerPacket) /\ ResponsePackets \in Nat /\ Len(b) = ResponsePackets + 1
      BY <2>4, <3>1, Answers
    <3> QED
      BY <2>3, <3>1
  <2>6. toHost \in Seq(AnswerPacket) /\ Zlps(toHost) /\ response = << >>
    BY <2>1, Here DEF TicketInv, Asking
  <2>7. InOrder(a, << >>, Len(toHost), toHost, a)
    BY <2>5, <2>6, StartInOrder
  <2>8. Unsent' = a
    BY <1>1, <2>1, <2>3 DEF Unsent
  <2>9. InOrder(a, response', Len(toHost'), toHost', Unsent')
    BY <1>1, <2>2, <2>6, <2>7, <2>8
  <2>10. Between(a)'
    BY <2>9 DEF Between
  <2>11. \E e \in established' : e.req = req' /\ Between(Answer(req, TRUE, e.secret))'
    <3>1. PICK e : e = [req |-> r, secret |-> s]
      OBVIOUS
    <3>2. e \in established' /\ e.req = req' /\ e.secret = s
      BY <1>1, <2>1, <2>2, <2>3, <3>1
    <3>3. a = Answer(req', TRUE, e.secret)
      BY <2>2, <2>3, <3>2
    <3> QED
      BY <2>10, <3>2, <3>3, Zenon
  <2>12. open
    BY <2>1 DEF Asking
  <2> QED
    BY <1>1, <2>1, <2>2, <2>11, <2>12 DEF Together, Answering
<1> QED
  BY <1>2, <1>3

LEMMA ClientTogether ==
  ASSUME TicketInv, Together, ClientNext
  PROVE  Together'
<1>1. UNCHANGED <<host, hostHistory>>
  BY DEF ClientNext
<1>2. CASE WaitConnection \/ Disconnected \/ WritePacket
  BY <1>1, <1>2, WaitTogether
<1>3. CASE ReadPrefix
  BY <1>1, <1>3, ReadPrefixTogether
<1>4. CASE ReadPayload
  BY <1>1, <1>4, ReadPayloadTogether
<1>5. CASE ReadSignature
  BY <1>1, <1>5, ReadSignatureTogether
<1>6. CASE Verify
  BY <1>1, <1>6, VerifyTogether
<1>7. CASE Encapsulate
  BY <1>1, <1>7, EncapsulateTogether
<1>8. CASE Unplug
  BY <1>1, <1>8, UnplugTogether
<1>9. CASE Plug
  <2>1. UNCHANGED <<client, established>> /\ UNCHANGED <<toClient, toHost, open, interrupted>>
    BY <1>9 DEF Plug, clientHistory
  <2>2. attached' /\ UNCHANGED <<req, response, hpc>>
    BY <1>1, <1>9, SameHost DEF Plug
  <2> QED
    BY <2>1, <2>2, SameTogether
<1> QED
  BY <1>2, <1>3, <1>4, <1>5, <1>6, <1>7, <1>8, <1>9 DEF ClientNext, ClientStep, EchoStep

TogetherInv == TicketInv /\ Together

LEMMA TogetherInit == Init => TogetherInv
<1> SUFFICES ASSUME Init PROVE TogetherInv
  OBVIOUS
<1>1. toClient = << >> /\ toHost = << >> /\ open = FALSE /\ cpc = "wait"
  BY DEF Init, LinkInit, ClientInit
<1>2. Zlps(toHost)
  BY <1>1 DEF Zlps
<1> QED
  BY <1>1, <1>2, TicketsInit DEF TogetherInv, Together, Clean, Idle

LEMMA TogetherStep == TogetherInv /\ [Next]_vars => TogetherInv'
<1> SUFFICES ASSUME TogetherInv, [Next]_vars PROVE Together'
  BY TicketsStep DEF TogetherInv
<1>1. CASE UNCHANGED vars
  <2>1. UNCHANGED <<client, established>>
        /\ UNCHANGED <<req, response, toClient, toHost, open, attached, interrupted, hpc>>
    BY <1>1 DEF vars, host, clientHistory, link
  <2> QED
    BY <2>1, SameTogether DEF TogetherInv
<1>2. CASE HostNext
  BY <1>2, HostTogether DEF TogetherInv
<1>3. CASE ClientNext
  BY <1>3, ClientTogether DEF TogetherInv
<1> QED
  BY <1>1, <1>2, <1>3 DEF Next

LEMMA TogetherAlways == Spec => []TogetherInv
<1>1. TogetherInv /\ [Next]_vars => TogetherInv'
  BY TogetherStep
<1> QED
  BY <1>1, TogetherInit, PTL DEF Spec

(***************************************************************************)
(* Between pings that nothing has cut short, the line and the client hold     *)
(* nothing of a ping but the packet of no bytes (main.rs 318-350,             *)
(* demo_client.rs 243-331): the next prefix is read as one.                   *)
(***************************************************************************)
THEOREM Quiet == Spec => []QuietBetweenPings
<1>1. TogetherInv => QuietBetweenPings
  <2> SUFFICES ASSUME TogetherInv, hpc = "sleep", ~interrupted, cpc # "halted"
               PROVE  /\ toClient = << >>
                      /\ \A k \in DOMAIN toHost : toHost[k].part = "zlp"
                      /\ \/ cpc \in {"wait", "prefix"}
                         \/ cpc = "write" /\ \A k \in DOMAIN answer : answer[k].part = "zlp"
    BY DEF QuietBetweenPings
  <2>1. toClient = << >> /\ Zlps(toHost) /\ Idle
    BY DEF TogetherInv, Together, Asking, Answering, Halted, Pinging, Clean
  <2>2. answer \in Seq(AnswerPacket)
    BY Here DEF TogetherInv, TicketInv
  <2>3. ASSUME Len(answer) = 1, Zlp(answer[1]), NEW k \in DOMAIN answer
        PROVE  answer[k].part = "zlp"
    <3>1. k = 1
      BY <2>2, <2>3
    <3> QED
      BY <2>3, <3>1 DEF Zlp
  <2>4. \/ cpc \in {"wait", "prefix"}
        \/ cpc = "write" /\ \A k \in DOMAIN answer : answer[k].part = "zlp"
    BY <2>1, <2>3 DEF Idle
  <2> QED
    BY <2>1, <2>4 DEF Zlps, Zlp
<1> QED
  BY <1>1, TogetherAlways, PTL


(* A report at the end of a ping that no earlier one's remains can have reached. *)
LEMMA Reported ==
  ASSUME TogetherInv, Report, ~interrupted
  PROVE  \E ok \in BOOLEAN, secret \in Nat :
           /\ ok = ~req.fail
           /\ ok => [req |-> req, secret |-> secret] \in established
           /\ reported' = reported \cup
                {[req |-> req, success |-> ok, secret |-> IF ok THEN secret ELSE NoSecret]}
<1>1. hpc = "read" /\ open /\ Len(response) = ResponsePackets
  BY DEF Report
<1>2. response \in Seq(AnswerPacket)
  BY Here DEF TogetherInv, TicketInv
<1>3. ResponsePackets \in Nat /\ ResponsePackets >= 2
  BY AnswerLength
<1>4. response # << >>
  BY <1>1, <1>2, <1>3
<1>5. Answering
  BY <1>1, <1>4 DEF TogetherInv, Together, Clean, Asking, Halted
<1>6. PICK r \in Request, ok \in BOOLEAN, secret \in Nat :
        /\ \A i \in 1 .. ResponsePackets : response[i] = Answer(r, ok, secret)[i]
        /\ ok = ~req.fail
        /\ ok => r = req /\ [req |-> req, secret |-> secret] \in established
  BY <1>1, <1>5, AnswerRead DEF TogetherInv
<1>7. PICK a : a = Answer(r, ok, secret)
  OBVIOUS
<1>8. /\ a[1].part = "status" /\ a[1].ok = ok
      /\ \A k \in 2 .. ResponsePackets :
           a[k].part = "enc" /\ a[k].k = k - 1 /\ a[k].req = r /\ a[k].secret = secret
  BY <1>7, Answers
<1>9. Success(Head(response)) = {ok}
  <2>1. Head(response) = response[1]
    BY <1>2, <1>4
  <2>2. response[1] = a[1]
    BY <1>3, <1>6, <1>7
  <2> QED
    BY <1>8, <2>1, <2>2 DEF Success
<1>10. ASSUME ok PROVE Decapsulate(Tail(response)) = secret
  <2>1. PICK rest : rest = Tail(response)
    OBVIOUS
  <2>2. /\ DOMAIN rest = 1 .. ResponsePackets - 1
        /\ \A k \in 1 .. ResponsePackets - 1 : rest[k] = response[k + 1]
    BY <1>1, <1>2, <1>4, <2>1
  <2>3. ASSUME NEW k \in 1 .. ResponsePackets - 1
        PROVE  rest[k].part = "enc" /\ rest[k].k = k /\ rest[k].req = req /\ rest[k].secret = secret
    <3>1. k + 1 \in 2 .. ResponsePackets /\ k + 1 \in 1 .. ResponsePackets /\ (k + 1) - 1 = k
      BY <1>3
    <3>2. rest[k] = a[k + 1]
      BY <1>6, <1>7, <2>2, <3>1
    <3> QED
      BY <1>6, <1>8, <1>10, <3>1, <3>2
  <2>4. 1 \in 1 .. ResponsePackets - 1
    BY <1>3
  <2> QED
    BY <2>1, <2>2, <2>3, <2>4 DEF Decapsulate
<1>11. reported' = reported \cup
          {[req |-> req, success |-> ok, secret |-> IF ok THEN secret ELSE NoSecret]}
  <2>1. CASE ok
    BY <1>9, <1>10, <2>1 DEF Report
  <2>2. CASE ~ok
    BY <1>9, <2>2 DEF Report
  <2> QED
    BY <2>1, <2>2
<1> QED
  BY <1>6, <1>11

LEMMA ReportAgrees ==
  ASSUME TogetherInv, Report, ~interrupted, NEW x \in reported' \ reported
  PROVE  Agrees(x)
<1>1. PICK ok \in BOOLEAN, secret \in Nat :
        /\ ok = ~req.fail
        /\ ok => [req |-> req, secret |-> secret] \in established
        /\ reported' = reported \cup
             {[req |-> req, success |-> ok, secret |-> IF ok THEN secret ELSE NoSecret]}
  BY Reported
<1>2. x = [req |-> req, success |-> ok, secret |-> IF ok THEN secret ELSE NoSecret]
  BY <1>1
<1>3. x.success <=> ~x.req.fail
  BY <1>1, <1>2
<1>4. Shared(x)
  BY <1>1, <1>2 DEF Shared
<1> QED
  BY <1>3, <1>4 DEF Agrees


(***************************************************************************)
(* What the host reports of a ping that no earlier one's remains can have     *)
(* reached is what its snapshot of simulate_error called for, and a secret it *)
(* reports is the one the client derived for that ping.                       *)
(***************************************************************************)
THEOREM Agreement == Spec => AgreedUnlessInterrupted
<1>1. ASSUME TogetherInv, [Next]_vars, NEW x \in reported' \ reported
      PROVE  interrupted \/ Agrees(x)
  <2>1. CASE Report
    BY <1>1, <2>1, ReportAgrees
  <2>2. CASE ~Report
    <3>1. reported' = reported
      <4>1. CASE UNCHANGED vars \/ ClientNext
        BY <4>1 DEF vars, hostHistory, ClientNext
      <4>2. CASE HostNext
        <5>1. CASE StartPing \/ Read \/ Restart
          BY <5>1 DEF StartPing, Read, Restart, hostHistory
        <5>2. CASE WritePrefix \/ WritePayload \/ WriteSignature
          BY <5>2 DEF WritePrefix, WritePayload, WriteSignature, Write, hostHistory
        <5>3. CASE IoError \/ ReadTimeout \/ Kill
          BY <5>3 DEF IoError, ReadTimeout, Kill, Die
        <5>4. ASSUME NEW newApp, Command(newApp) PROVE reported' = reported
          BY <5>4 DEF Command
        <5> QED
          BY <2>2, <4>2, <5>1, <5>2, <5>3, <5>4
          DEF HostNext, HostStep, PingerStep, UpdatePayload, ToggleFail
      <4> QED
        BY <1>1, <4>1, <4>2 DEF Next
    <3> QED
      BY <1>1, <3>1
  <2> QED
    BY <2>1, <2>2
<1>2. TogetherInv /\ [Next]_vars => [NewReportsAgree]_vars
  BY <1>1 DEF NewReportsAgree
<1> QED
  BY <1>2, TogetherAlways, PTL DEF Spec, AgreedUnlessInterrupted

(* Without unplugging, the client halts only for a payload it has no room for. *)
HaltsOutOfRoom == cpc = "halted" /\ ~interrupted => OutOfRoom

(***************************************************************************)
(* The client's slice of payload_buffer goes out of bounds (demo_client.rs    *)
(* 263) only if a payload may be longer than the buffer, or after a ping's    *)
(* remains have reached it: no sequence of well-sized pings halts the device. *)
(***************************************************************************)
THEOREM Halts == Spec => []HaltsOutOfRoom
<1>1. TogetherInv => HaltsOutOfRoom
  BY DEF TogetherInv, Together, HaltsOutOfRoom, Clean, Idle, Asking, Taken, Astray, Answering, Halted
<1> QED
  BY <1>1, TogetherAlways, PTL

-----------------------------------------------------------------------------
(* Without faults the two programs carry out the exchange of KeyExchange.tla.  *)
NoFaults == ~Slow /\ MaxKills = 0 /\ MaxUnplugs = 0

Undisturbed ==
  /\ attached /\ ~interrupted /\ hpc # "dead"
  /\ Pinging => open /\ req.ping = pings /\ pings \in 1 .. MaxPings

(* The secrets there are are numbered, one for each ping at most. *)
Counted ==
  /\ \A e \in established : e.secret \in 1 .. Cardinality(established)
  /\ Cardinality(established) <= pings
  /\ pings > 0 /\ (\A e \in established : e.req.ping # pings) => Cardinality(established) < pings

ExchangeInv == TogetherInv /\ Undisturbed /\ Counted

(* A step that is none of the exchange's. *)
Internal ==
  /\ UNCHANGED <<pings, req, established, reported, attached, interrupted>>
  /\ hpc' # "dead" /\ Pinging' = Pinging /\ (Pinging => open' = open)

LEMMA Steps ==
  ASSUME NoFaults, ExchangeInv, [Next]_vars
  PROVE  \/ StartPing /\ UNCHANGED <<client, clientHistory>>
         \/ Report /\ UNCHANGED <<client, clientHistory>>
         \/ Encapsulate /\ UNCHANGED <<host, hostHistory>>
         \/ Internal
<1>1. kills \in Nat /\ unplugs \in Nat /\ hpc # "dead" /\ attached /\ (Pinging => open)
  BY DEF ExchangeInv, TogetherInv, TicketInv, Types, HostTypes, ClientTypes, Undisturbed
<1>2. CASE UNCHANGED vars
  BY <1>1, <1>2 DEF vars, host, hostHistory, client, clientHistory, link, Internal, Pinging
<1>3. CASE HostNext
  <2>1. CASE StartPing \/ Report
    BY <1>3, <2>1 DEF HostNext
  <2>2. CASE WritePrefix \/ WritePayload \/ WriteSignature
    <3>1. PICK from, to, packets : Write(from, packets, to) /\ from \in {"prefix", "payload", "signature"}
                                /\ to \in {"payload", "signature", "read"}
      BY <2>2 DEF WritePrefix, WritePayload, WriteSignature
    <3>2. /\ hpc = from /\ hpc' = to /\ UNCHANGED <<req, open, attached, interrupted>>
          /\ UNCHANGED <<pings, reported>>
      BY <3>1 DEF Write, hostHistory
    <3>3. established' = established
      BY <1>3 DEF HostNext, clientHistory
    <3> QED
      BY <3>1, <3>2, <3>3 DEF Internal, Pinging
  <2>3. CASE Read
    BY <1>1, <1>3, <2>3 DEF HostNext, Read, hostHistory, client, clientHistory, Internal, Pinging
  <2>4. ASSUME NEW newApp, Command(newApp) PROVE Internal
    BY <1>1, <1>3, <2>4 DEF HostNext, Command, hostHistory, client, clientHistory, link, Internal, Pinging
  <2>5. ~IoError
    BY <1>1 DEF IoError
  <2>6. ~ReadTimeout
    BY DEF ReadTimeout, NoFaults
  <2>7. ~Kill
    BY <1>1 DEF Kill, NoFaults
  <2>8. ~Restart
    BY <1>1 DEF Restart
  <2>9. HostStep
    BY <1>3 DEF HostNext
  <2>10. ASSUME NEW len, UpdatePayload(len) PROVE Internal
    BY <2>4, <2>10 DEF UpdatePayload
  <2>11. ASSUME NEW force, ToggleFail(force) PROVE Internal
    BY <2>4, <2>11 DEF ToggleFail
  <2> QED
    BY <2>1, <2>2, <2>3, <2>5, <2>6, <2>7, <2>8, <2>9, <2>10, <2>11 DEF HostStep, PingerStep
<1>4. CASE ClientNext
  <2>1. UNCHANGED <<hpc, req, pings, reported>>
    BY <1>4 DEF ClientNext, host, hostHistory
  <2>2. CASE Encapsulate
    BY <1>4, <2>2 DEF ClientNext
  <2>3. CASE WaitConnection \/ Disconnected \/ Verify
    BY <1>1, <2>1, <2>3 DEF WaitConnection, Disconnected, Verify, clientHistory, link, Internal, Pinging
  <2>4. CASE ReadPrefix \/ ReadPayload \/ ReadSignature
    BY <1>1, <2>1, <2>4 DEF ReadPrefix, ReadPayload, ReadSignature, ReadPacket, clientHistory,
      Internal, Pinging
  <2>5. CASE WritePacket
    BY <1>1, <2>1, <2>5 DEF WritePacket, clientHistory, Internal, Pinging
  <2>6. ~Unplug
    BY <1>1 DEF Unplug, NoFaults
  <2>7. ~Plug
    BY <1>1 DEF Plug
  <2> QED
    BY <1>4, <2>2, <2>3, <2>4, <2>5, <2>6, <2>7 DEF ClientNext, ClientStep, EchoStep
<1> QED
  BY <1>2, <1>3, <1>4 DEF Next

(* The ping whose request the client is about to answer has no secret yet. *)
LEMMA Unanswered ==
  ASSUME TogetherInv, ~interrupted, cpc = "encapsulate"
  PROVE  \A e \in established : e.req.ping # req.ping
<1>1. signature = SignaturePackets(req)
  BY WholeRequest DEF TogetherInv
<1>2. req \in Request
  BY Here DEF TogetherInv, TicketInv
<1>3. 1 \in DOMAIN SignaturePackets(req)
  <2>1. /\ NSignature \in Nat \ {0} /\ SignaturePackets(req) \in Seq(Packet)
        /\ Len(SignaturePackets(req)) = NSignature
    BY <1>2, Items
  <2> QED
    BY <2>1
<1>4. /\ SignaturePackets(req)[1].part = "signature" /\ SignaturePackets(req)[1].k = 1
      /\ SignaturePackets(req)[1].req = req
  BY <1>3 DEF SignaturePackets, Packets
<1> QED
  BY <1>1, <1>3, <1>4 DEF TogetherInv, TicketInv, Spent, Ticket, ReadingSignature

LEMMA ExchangeInit == Init => ExchangeInv
<1> SUFFICES ASSUME Init PROVE Undisturbed /\ Counted
  BY TogetherInit DEF ExchangeInv
<1>1. Undisturbed
  BY DEF Init, HostInit, LinkInit, Undisturbed, Pinging
<1>2. established = {} /\ pings = 0
  BY DEF Init, HostInit, ClientInit
<1>3. Cardinality(established) = 0
  BY <1>2, FS_EmptySet
<1> QED
  BY <1>1, <1>2, <1>3 DEF Counted

LEMMA ExchangeKept ==
  ASSUME NoFaults, ExchangeInv, [Next]_vars
  PROVE  ExchangeInv'
<1>1. TogetherInv'
  BY TogetherStep DEF ExchangeInv
<1>2. PICK n, c : n = pings /\ c = Cardinality(established)
  OBVIOUS
<1>3. /\ n \in Nat /\ MaxPings \in Nat /\ c \in Nat /\ IsFiniteSet(established)
      /\ req.ping \in Nat
  <2>1. pings \in Nat /\ IsFiniteSet(established) /\ req \in Request
    BY DEF ExchangeInv, TogetherInv, TicketInv, Types, HostTypes, ClientTypes
  <2> QED
    BY <1>2, <2>1, HostAssumption, FS_CardinalityType DEF Request
<1>4. c <= n /\ \A e \in established : e.secret \in 1 .. c
  BY <1>2 DEF ExchangeInv, Counted
<1>5. CASE StartPing /\ UNCHANGED <<client, clientHistory>>
  <2>1. /\ n < MaxPings /\ pings' = n + 1 /\ req'.ping = n + 1 /\ open'
        /\ attached' /\ ~interrupted' /\ hpc' # "dead" /\ established' = established
    BY <1>2, <1>5 DEF StartPing, clientHistory, ExchangeInv, Undisturbed
  <2>2. Undisturbed'
    BY <1>3, <2>1 DEF Undisturbed
  <2>3. Counted'
    BY <1>2, <1>3, <1>4, <2>1 DEF Counted
  <2> QED
    BY <1>1, <2>2, <2>3 DEF ExchangeInv
<1>6. CASE Report /\ UNCHANGED <<client, clientHistory>>
  <2>1. hpc' = "sleep" /\ UNCHANGED <<attached, interrupted, pings, established>>
    BY <1>6 DEF Report, clientHistory
  <2> QED
    BY <1>1, <2>1 DEF ExchangeInv, Undisturbed, Counted, Pinging
<1>7. CASE Encapsulate /\ UNCHANGED <<host, hostHistory>>
  <2>1. /\ UNCHANGED <<hpc, req, pings>> /\ UNCHANGED <<open, attached, interrupted>>
        /\ cpc = "encapsulate"
    BY <1>7 DEF host, hostHistory, Encapsulate, link
  <2>2. Undisturbed'
    BY <2>1 DEF ExchangeInv, Undisturbed, Pinging
  <2>3. payload_buffer[1].req = req /\ hpc = "read"
    BY <2>1, WholeRequest DEF ExchangeInv, TogetherInv, Undisturbed
  <2>4. req.ping = n /\ n > 0
    BY <1>2, <1>3, <2>3 DEF ExchangeInv, Undisturbed, Pinging
  <2>5. c < n
    BY <1>2, <2>1, <2>4, Unanswered DEF ExchangeInv, Undisturbed, Counted
  <2>6. PICK e : e = [req |-> req, secret |-> c + 1]
    OBVIOUS
  <2>7. established' = established \cup {e} /\ e.req = req /\ e.secret = c + 1
    BY <1>2, <1>7, <2>3, <2>6 DEF Encapsulate
  <2>8. e \notin established
    BY <1>3, <1>4, <2>7
  <2>9. Cardinality(established') = c + 1
    BY <1>2, <1>3, <2>7, <2>8, FS_AddElement
  <2>10. \A f \in established' : f.secret \in 1 .. c + 1
    BY <1>3, <1>4, <2>7
  <2>11. e \in established' /\ e.req.ping = pings'
    BY <1>2, <2>1, <2>4, <2>7
  <2>12. Counted'
    BY <1>2, <1>3, <2>1, <2>5, <2>9, <2>10, <2>11 DEF Counted
  <2> QED
    BY <1>1, <2>2, <2>12 DEF ExchangeInv
<1>8. CASE Internal
  BY <1>1, <1>8 DEF ExchangeInv, Undisturbed, Counted, Internal
<1> QED
  BY <1>5, <1>6, <1>7, <1>8, Steps

(* The initial states are initial, and every step is one of the exchange's or  *)
(* changes nothing of it.                                                     *)
LEMMA ExchangeStarts == Init => Exchange!Init
BY DEF Init, HostInit, ClientInit, Pinging, Exchange!Init

LEMMA ExchangeSteps ==
  ASSUME NoFaults, ExchangeInv, [Next]_vars
  PROVE  [Exchange!Next]_(Exchange!vars)
<1> DEFINE current == IF Pinging THEN req ELSE NoRequest
<1>1. pings \in Nat /\ req \in Request /\ app \in [payload : Payloads, simulate_error : BOOLEAN]
  BY DEF ExchangeInv, TogetherInv, TicketInv, Types, HostTypes
<1>2. CASE StartPing /\ UNCHANGED <<client, clientHistory>>
  <2>1. current = NoRequest
    BY <1>2 DEF StartPing, Pinging
  <2>2. current' = req' /\ pings' = pings + 1 /\ UNCHANGED <<established, reported>>
    BY <1>2 DEF StartPing, Pinging, clientHistory, ExchangeInv, Undisturbed
  <2>3. req' = [ping |-> pings + 1, payload |-> app.payload, fail |-> app.simulate_error]
    BY <1>2 DEF StartPing
  <2>4. req' \in Exchange!Requests /\ req'.ping = pings + 1
    BY <1>1, <2>3 DEF Exchange!Requests
  <2>5. Exchange!Ask(req')
    BY <2>1, <2>2, <2>4 DEF Exchange!Ask
  <2> QED
    BY <2>4, <2>5 DEF Exchange!Next
<1>3. CASE Encapsulate /\ UNCHANGED <<host, hostHistory>>
  <2>1. PICK c, secret : c = Cardinality(established) /\ secret = c + 1
    OBVIOUS
  <2>2. UNCHANGED <<hpc, req, pings, reported>> /\ cpc = "encapsulate" /\ ~interrupted /\ TogetherInv
    BY <1>3 DEF host, hostHistory, Encapsulate, ExchangeInv, Undisturbed
  <2>3. payload_buffer[1].req = req /\ hpc = "read" /\ ~req.fail
    BY <2>2, WholeRequest DEF TogetherInv
  <2>4. current = req /\ current' = current
    BY <2>2, <2>3 DEF Pinging
  <2>5. req.ping = pings /\ pings \in 1 .. MaxPings
    BY <2>3 DEF ExchangeInv, Undisturbed, Pinging
  <2>6. req # NoRequest
    BY <1>1, <2>5 DEF NoRequest
  <2>7. \A e \in established : e.req.ping # req.ping
    BY <2>2, Unanswered
  <2>8. c \in Nat /\ c < pings /\ \A e \in established : e.secret \in 1 .. c
    <3>1. IsFiniteSet(established)
      BY <2>2 DEF TogetherInv, TicketInv, Types, ClientTypes
    <3> QED
      BY <1>1, <2>1, <2>5, <2>7, <3>1, FS_CardinalityType DEF ExchangeInv, Counted
  <2>9. secret \in 1 .. MaxPings /\ \A e \in established : e.secret # secret
    BY <1>1, <2>1, <2>5, <2>8, HostAssumption
  <2>10. established' = established \cup {[req |-> req, secret |-> secret]}
    BY <1>3, <2>1, <2>3 DEF Encapsulate
  <2>11. ~Exchange!Answered
    BY <2>4, <2>7 DEF Exchange!Answered
  <2>12. Exchange!Derive(secret)
    BY <2>2, <2>3, <2>4, <2>6, <2>9, <2>10, <2>11 DEF Exchange!Derive
  <2> QED
    BY <2>9, <2>12 DEF Exchange!Next
<1>4. CASE Report /\ UNCHANGED <<client, clientHistory>>
  <2>1. /\ hpc = "read" /\ hpc' = "sleep" /\ UNCHANGED <<pings, established>>
        /\ ~interrupted /\ TogetherInv
    BY <1>4 DEF Report, clientHistory, ExchangeInv, Undisturbed
  <2>2. current = req /\ current' = NoRequest
    BY <2>1 DEF Pinging
  <2>3. req # NoRequest
    <3>1. req.ping \in 1 .. MaxPings
      BY <2>1 DEF ExchangeInv, Undisturbed, Pinging
    <3> QED
      BY <3>1 DEF NoRequest
  <2>4. PICK ok \in BOOLEAN, secret \in Nat :
          /\ ok = ~req.fail
          /\ ok => [req |-> req, secret |-> secret] \in established
          /\ reported' = reported \cup
               {[req |-> req, success |-> ok, secret |-> IF ok THEN secret ELSE NoSecret]}
    BY <1>4, <2>1, Reported
  <2>5. CASE ok
    <3>1. PICK e \in established : e = [req |-> req, secret |-> secret]
      BY <2>4, <2>5
    <3>2. e.req = req /\ e.secret = secret
      BY <3>1
    <3>3. reported' = reported \cup {Exchange!Outcome(TRUE, e.secret)}
      BY <2>2, <2>4, <2>5, <3>2 DEF Exchange!Outcome
    <3> QED
      BY <2>1, <2>2, <2>3, <3>2, <3>3 DEF Exchange!Finish, Exchange!Next
  <2>6. CASE ~ok
    <3>1. reported' = reported \cup {Exchange!Outcome(FALSE, 0)}
      BY <2>2, <2>4, <2>6 DEF Exchange!Outcome, NoSecret
    <3> QED
      BY <2>1, <2>2, <2>3, <2>4, <2>6, <3>1 DEF Exchange!Finish, Exchange!Next
  <2> QED
    BY <2>5, <2>6
<1>5. CASE Internal
  BY <1>5 DEF Internal, Exchange!vars
<1> QED
  BY <1>2, <1>3, <1>4, <1>5, Steps

(***************************************************************************)
(* Without timeouts, kills and unplugging, whatever the payloads and whenever *)
(* the dashboard changes them, the two programs take only the steps of the    *)
(* key exchange (README.md 44-77): the safety half of ImplementsKeyExchange.  *)
(***************************************************************************)
THEOREM CarriesOutExchange ==
  ASSUME NoFaults
  PROVE  Spec => Exchange!Init /\ [][Exchange!Next]_(Exchange!vars)
<1>1. ExchangeInv /\ [Next]_vars => ExchangeInv'
  BY ExchangeKept
<1>2. ExchangeInv /\ [Next]_vars => [Exchange!Next]_(Exchange!vars)
  BY ExchangeSteps
<1> QED
  BY <1>1, <1>2, ExchangeInit, ExchangeStarts, PTL DEF Spec
-----------------------------------------------------------------------------
(* The dashboard *)

(* What the pages' connections hold, and where they are.                      *)
Frames == {CloseFrame} \cup {<<b, n>> : b \in Browsers, n \in Nat}
TaskPc == {"recv", "send", "ended"}
HandlerPc == {"none", "select", "abort_send", "abort_recv"}

PageTypes ==
  /\ sent \in Nat
  /\ next \in [Browsers -> Nat]
  /\ send_task \in [Browsers -> TaskPc] /\ recv_task \in [Browsers -> TaskPc \ {"send"}]
  /\ handler \in [Browsers -> HandlerPc]
  /\ toBrowser \in [Browsers -> Seq(Nat)] /\ fromBrowser \in [Browsers -> Seq(Frames)]
  /\ opened \in [Browsers -> BOOLEAN]
  /\ joined \in [Browsers -> Nat \cup {-1}] /\ seen \in [Browsers -> Seq(Nat)]
  /\ asked \in [Browsers -> Nat]

(* Of a page that has not been opened yet there is nothing. *)
Unopened(b) ==
  /\ joined[b] = -1 /\ ~opened[b]
  /\ send_task[b] = "ended" /\ recv_task[b] = "ended"
  /\ toBrowser[b] = << >> /\ fromBrowser[b] = << >> /\ seen[b] = << >>

(* The last report that has been handed to the connection. *)
Handed(b) == IF send_task[b] = "send" THEN next[b] - 1 ELSE next[b]

(* The reports a connected page has been shown, those on the connection and the *)
(* one its task holds follow each other, up to the last that was taken; a task  *)
(* ends before the page only if it has lagged, and the handler aborts it only   *)
(* after the page.                                                            *)
Connected(b) ==
  /\ joined[b] \in Nat /\ next[b] <= sent
  /\ IF opened[b]
       THEN /\ \A k \in 1 .. Len(toBrowser[b]) : toBrowser[b][k] = joined[b] + Len(seen[b]) + k
            /\ joined[b] + Len(seen[b]) + Len(toBrowser[b]) = Handed(b)
            /\ send_task[b] = "ended" => Lagged(b)
            /\ \A k \in 1 .. Len(fromBrowser[b]) : fromBrowser[b][k] # CloseFrame
            /\ handler[b] = "select" => recv_task[b] # "ended"
            /\ handler[b] # "abort_send"
       ELSE toBrowser[b] = << >>

PageInv(b) == IF handler[b] = "none" THEN Unopened(b) ELSE Connected(b)
PagesInv == PageTypes /\ \A b \in Browsers : PageInv(b)

(* A step of one page leaves the others as they are.                          *)
Untouched(c) ==
  /\ next'[c] = next[c] /\ send_task'[c] = send_task[c] /\ recv_task'[c] = recv_task[c]
  /\ handler'[c] = handler[c] /\ opened'[c] = opened[c]
  /\ toBrowser'[c] = toBrowser[c] /\ fromBrowser'[c] = fromBrowser[c]
  /\ joined'[c] = joined[c] /\ seen'[c] = seen[c]

LEMMA OthersKept ==
  ASSUME PagesInv, PageTypes', NEW c \in Browsers, Untouched(c), sent' >= sent
  PROVE  PageInv(c)'
<1>1. PageInv(c) /\ sent \in Nat /\ sent' \in Nat /\ next[c] \in Nat /\ CAPACITY \in Nat
  BY DashboardAssumption DEF PagesInv, PageTypes
<1>2. CASE handler[c] = "none"
  BY <1>1, <1>2 DEF Untouched, PageInv, Unopened
<1>3. CASE handler[c] # "none"
  <2>1. Connected(c)
    BY <1>1, <1>3 DEF PageInv
  <2>2. Lagged(c) => Lagged(c)'
    BY <1>1 DEF Lagged, Untouched
  <2>3. next'[c] <= sent'
    BY <1>1, <2>1 DEF Connected, Untouched
  <2>4. Handed(c)' = Handed(c)
    BY DEF Handed, Untouched
  <2>5. Connected(c)'
    BY <2>1, <2>2, <2>3, <2>4 DEF Connected, Untouched
  <2> QED
    BY <1>3, <2>5 DEF PageInv, Untouched
<1> QED
  BY <1>2, <1>3

LEMMA OnePage ==
  ASSUME PagesInv, PageTypes', NEW b \in Browsers, PageInv(b)', sent' >= sent,
         \A c \in Browsers \ {b} : Untouched(c)
  PROVE  PagesInv'
<1>1. \A c \in Browsers \ {b} : PageInv(c)'
  BY OthersKept
<1> QED
  BY <1>1 DEF PagesInv

(* What there is for a page. *)
IsServed(b) == send_task[b] # "ended" \/ toBrowser[b] # << >>

LEMMA ServedIs ==
  ASSUME NEW b \in Browsers, \A c \in Browsers \ {b} : Untouched(c)
  PROVE  /\ Served[b] = IsServed(b)
         /\ Served' = [Served EXCEPT ![b] = IsServed(b)']
         /\ (IsServed(b)' <=> IsServed(b)) => Served' = Served
<1>1. \A c \in Browsers \ {b} : IsServed(c)' <=> IsServed(c)
  BY DEF IsServed, Untouched
<1>2. Served = [c \in Browsers |-> IsServed(c)] /\ Served' = [c \in Browsers |-> IsServed(c)']
  BY DEF Served, IsServed
<1>3. [Served EXCEPT ![b] = IsServed(b)'] = [c \in Browsers |-> IF c = b THEN IsServed(b)' ELSE Served[c]]
  BY <1>2, Zenon
<1>4. \A c \in Browsers : Served[c] = IsServed(c) /\ (IsServed(c) \in BOOLEAN) /\ (IsServed(c)' \in BOOLEAN)
  BY <1>2 DEF IsServed
<1>5. \A c \in Browsers : IsServed(c)' = IF c = b THEN IsServed(b)' ELSE Served[c]
  BY <1>1, <1>4
<1>6. Served' = [Served EXCEPT ![b] = IsServed(b)']
  BY <1>2, <1>3, <1>5, Zenon
<1>7. (IsServed(b)' <=> IsServed(b)) => \A c \in Browsers : IsServed(c)' = IsServed(c)
  BY <1>1, <1>4
<1> QED
  BY <1>2, <1>4, <1>6, <1>7, Zenon

-----------------------------------------------------------------------------
(* The initial states, and the steps. *)

LEMMA PagesInit == DashboardInit => PagesInv /\ Feed!Init
<1> SUFFICES ASSUME DashboardInit PROVE PagesInv /\ Feed!Init
  OBVIOUS
<1>1. PagesInv
  BY DEF DashboardInit, PagesInv, PageTypes, PageInv, Unopened, TaskPc, HandlerPc
<1>2. Served = [b \in Browsers |-> FALSE]
  BY DEF DashboardInit, Served
<1> QED
  BY <1>1, <1>2 DEF DashboardInit, Feed!Init

FeedStep == Feed!Next \/ UNCHANGED Feed!vars

LEMMA BroadcastStep ==
  ASSUME PagesInv, Broadcast
  PROVE  PagesInv' /\ FeedStep
<1>1. sent \in Nat /\ sent' = sent + 1
  BY DEF Broadcast, PagesInv, PageTypes
<1>2. PageTypes'
  BY <1>1 DEF Broadcast, PagesInv, PageTypes, tasks, socket, history
<1>3. \A c \in Browsers : Untouched(c)
  BY DEF Broadcast, Untouched, tasks, socket, history
<1>4. PagesInv'
  BY <1>1, <1>2, <1>3, OthersKept DEF PagesInv
<1>5. Served' = Served
  BY DEF Broadcast, Served, tasks, socket
<1>6. Feed!Publish
  BY <1>1, <1>5 DEF Broadcast, Feed!Publish, history, socket
<1> QED
  BY <1>4, <1>6 DEF FeedStep, Feed!Next

LEMMA ConnectStep ==
  ASSUME PagesInv, NEW b \in Browsers, Connect(b)
  PROVE  PagesInv' /\ FeedStep
<1>1. Unopened(b) /\ sent \in Nat /\ sent' = sent
  BY DEF PagesInv, PageTypes, PageInv, Connect
<1>2. PageTypes'
  BY <1>1 DEF Connect, PagesInv, PageTypes, TaskPc, HandlerPc
<1>3. \A c \in Browsers \ {b} : Untouched(c)
  BY DEF Connect, Untouched, PagesInv, PageTypes
<1>4. /\ next'[b] = sent /\ send_task'[b] = "recv" /\ recv_task'[b] = "recv"
      /\ handler'[b] = "select" /\ opened'[b] = TRUE /\ joined'[b] = sent
      /\ toBrowser'[b] = << >> /\ fromBrowser'[b] = << >> /\ seen'[b] = << >>
  BY <1>1 DEF Connect, PagesInv, PageTypes, Unopened
<1>5. PageInv(b)'
  BY <1>1, <1>4 DEF PageInv, Connected, Handed
<1>6. PagesInv'
  BY <1>1, <1>2, <1>3, <1>5, OnePage
<1>7. Served' = [Served EXCEPT ![b] = TRUE]
  <2>1. IsServed(b)' = TRUE
    BY <1>4 DEF IsServed
  <2> QED
    BY <1>3, <2>1, ServedIs
<1>8. Feed!Join(b)
  BY <1>1, <1>7 DEF Feed!Join, Connect, Unopened
<1> QED
  BY <1>6, <1>8 DEF FeedStep, Feed!Next

LEMMA AskStep ==
  ASSUME PagesInv, NEW b \in Browsers, Ask(b)
  PROVE  PagesInv' /\ FeedStep
<1>1. /\ Connected(b) /\ handler[b] # "none" /\ opened[b] /\ asked[b] \in Nat
      /\ fromBrowser[b] \in Seq(Frames) /\ sent \in Nat /\ sent' = sent
  BY DEF PagesInv, PageTypes, PageInv, Unopened, Ask, channel
<1> DEFINE f == <<b, asked[b] + 1>>
<1>2. f \in Frames /\ f # CloseFrame
  BY <1>1 DEF Frames, CloseFrame
<1> HIDE DEF f
<1>3. fromBrowser' = [fromBrowser EXCEPT ![b] = Append(fromBrowser[b], f)]
  BY DEF Ask, f
<1>4. PageTypes'
  <2>1. Append(fromBrowser[b], f) \in Seq(Frames) /\ asked[b] + 1 \in Nat
    BY <1>1, <1>2
  <2> QED
    BY <1>3, <2>1 DEF Ask, PagesInv, PageTypes, channel, tasks
<1>5. \A c \in Browsers \ {b} : Untouched(c)
  BY <1>3 DEF Ask, Untouched, PagesInv, PageTypes, channel, tasks
<1>6. \A k \in 1 .. Len(fromBrowser'[b]) : fromBrowser'[b][k] # CloseFrame
  <2>1. fromBrowser'[b] = Append(fromBrowser[b], f)
    BY <1>3 DEF PagesInv, PageTypes
  <2>2. \A k \in 1 .. Len(fromBrowser[b]) : fromBrowser[b][k] # CloseFrame
    BY <1>1 DEF Connected
  <2> QED
    BY <1>1, <1>2, <2>1, <2>2
<1>7. Connected(b)'
  BY <1>1, <1>6 DEF Ask, Connected, Handed, Lagged, channel, tasks
<1>8. PageInv(b)'
  BY <1>1, <1>7 DEF Ask, PageInv, tasks
<1>9. Served' = Served
  BY DEF Ask, Served, tasks
<1>10. UNCHANGED Feed!vars
  BY <1>9 DEF Ask, Feed!vars, channel
<1> QED
  BY <1>1, <1>4, <1>5, <1>8, <1>10, OnePage DEF FeedStep

LEMMA ShowStep ==
  ASSUME PagesInv, NEW b \in Browsers, Show(b)
  PROVE  PagesInv' /\ FeedStep
<1>1. /\ Connected(b) /\ handler[b] # "none" /\ opened[b] /\ toBrowser[b] # << >>
      /\ joined[b] \in Nat /\ next[b] \in Nat /\ send_task[b] \in TaskPc
      /\ sent \in Nat /\ sent' = sent /\ CAPACITY \in Nat
  BY DashboardAssumption DEF PagesInv, PageTypes, PageInv, Unopened, Connected, Show, channel
<1>2. PICK q \in Seq(Nat), s \in Seq(Nat) : q = toBrowser[b] /\ s = seen[b]
  BY DEF PagesInv, PageTypes
<1>3. /\ q # << >> /\ Len(q) \in Nat /\ Len(q) > 0 /\ Len(s) \in Nat
      /\ Head(q) = q[1] /\ Head(q) \in Nat /\ Tail(q) \in Seq(Nat)
      /\ Len(Tail(q)) = Len(q) - 1 /\ \A k \in 1 .. Len(q) - 1 : Tail(q)[k] = q[k + 1]
  BY <1>1, <1>2
<1>4. /\ toBrowser' = [toBrowser EXCEPT ![b] = Tail(q)]
      /\ seen' = [seen EXCEPT ![b] = Append(s, q[1])]
  BY <1>2, <1>3 DEF Show
<1>5. toBrowser'[b] = Tail(q) /\ seen'[b] = Append(s, q[1])
  BY <1>4 DEF PagesInv, PageTypes
<1>6. Append(s, q[1]) \in Seq(Nat) /\ Len(Append(s, q[1])) = Len(s) + 1
  BY <1>2, <1>3
<1>7. /\ \A k \in 1 .. Len(q) : q[k] = joined[b] + Len(s) + k
      /\ joined[b] + Len(s) + Len(q) = Handed(b)
  BY <1>1, <1>2 DEF Connected
<1>8. PageTypes'
  BY <1>3, <1>4, <1>6, SMTT(30) DEF Show, PagesInv, PageTypes, channel, tasks
<1>9. \A c \in Browsers \ {b} : Untouched(c)
  BY <1>4 DEF Show, Untouched, PagesInv, PageTypes, channel, tasks
<1>10. Handed(b)' = Handed(b) /\ (Lagged(b)' <=> Lagged(b))
  BY DEF Show, Handed, Lagged, channel, tasks
<1>11. /\ \A k \in 1 .. Len(Tail(q)) : Tail(q)[k] = joined[b] + (Len(s) + 1) + k
       /\ joined[b] + (Len(s) + 1) + Len(Tail(q)) = Handed(b)
  <2>1. PICK j \in Nat, n \in Nat, m \in Nat : j = joined[b] /\ n = Len(s) /\ m = Len(q)
    BY <1>1, <1>3
  <2>2. (\A k \in 1 .. m : q[k] = (j + n) + k) /\ (j + n) + m = Handed(b) /\ m > 0
    BY <1>3, <1>7, <2>1
  <2>3. \A k \in 1 .. m - 1 : k + 1 \in 1 .. m /\ Tail(q)[k] = q[k + 1]
    BY <1>3, <2>1
  <2>4. /\ \A k \in 1 .. m - 1 : (j + n) + (k + 1) = (j + (n + 1)) + k
        /\ (j + (n + 1)) + (m - 1) = (j + n) + m
    OBVIOUS
  <2> QED
    BY <1>3, <2>1, <2>2, <2>3, <2>4
<1>12. Connected(b)'
  <2>1. PICK f, g : f = toBrowser'[b] /\ g = seen'[b]
    OBVIOUS
  <2>2. f = Tail(q) /\ Len(g) = Len(s) + 1
    BY <1>5, <1>6, <2>1
  <2>3. /\ \A k \in 1 .. Len(f) : f[k] = joined[b] + Len(g) + k
        /\ joined[b] + Len(g) + Len(f) = Handed(b)
    BY <1>11, <2>2, Zenon
  <2>4. /\ joined' = joined /\ next' = next /\ opened' = opened /\ send_task' = send_task
        /\ recv_task' = recv_task /\ handler' = handler /\ fromBrowser' = fromBrowser
    BY DEF Show, channel, tasks
  <2> QED
    BY <1>1, <1>10, <2>1, <2>3, <2>4 DEF Connected
<1>13. PageInv(b)'
  BY <1>1, <1>12 DEF Show, PageInv, tasks
<1>14. Feed!Show(b)
  <2>1. Served[b] /\ Served' = [Served EXCEPT ![b] = IsServed(b)']
    BY <1>1, <1>9, ServedIs DEF IsServed
  <2>2. Feed!Behind(b) = sent - joined[b] - Len(s)
    BY <1>2 DEF Feed!Behind
  <2>3. Handed(b) <= next[b] /\ next[b] <= sent /\ Handed(b) \in Int
    BY <1>1 DEF Handed, Connected
  <2>4. Feed!Behind(b) > 0
    <3>1. PICK x, j, h, l, m, d :
            /\ x = sent /\ j = joined[b] /\ h = Handed(b) /\ l = Len(s) /\ m = Len(q)
            /\ d = Feed!Behind(b)
      OBVIOUS
    <3>2. x \in Nat /\ j \in Nat /\ h \in Int /\ l \in Nat /\ m \in Nat /\ m > 0
      BY <1>1, <1>3, <2>3, <3>1
    <3>3. d = x - j - l /\ j + l + m = h /\ h <= x
      BY <1>1, <1>7, <2>2, <2>3, <3>1
    <3>4. d > 0
      BY <3>2, <3>3
    <3> QED
      BY <3>1, <3>4
  <2>5. seen' = [seen EXCEPT ![b] = Append(seen[b], joined[b] + Len(seen[b]) + 1)]
    <3>1. q[1] = joined[b] + Len(s) + 1
      BY <1>3, <1>7
    <3> QED
      BY <1>2, <1>4, <3>1
  <2>6. CASE IsServed(b)'
    <3>1. Served' = Served
      BY <1>1, <1>9, <2>6, ServedIs DEF IsServed
    <3> QED
      BY <1>1, <2>1, <2>4, <2>5, <3>1 DEF Feed!Show, Show, channel
  <2>7. CASE ~IsServed(b)'
    <3>1. send_task[b] = "ended" /\ Len(q) = 1
      <4>1. send_task'[b] = "ended" /\ toBrowser'[b] = << >>
        BY <2>7 DEF IsServed
      <4>2. send_task'[b] = send_task[b]
        BY DEF Show, tasks
      <4>3. Len(Tail(q)) = 0
        <5>1. PICK rest \in Seq(Nat) : rest = Tail(q)
          BY <1>3
        <5>2. rest = << >>
          BY <1>5, <4>1, <5>1
        <5> QED
          BY <5>1, <5>2, EmptySeq
      <4>4. PICK m \in Nat : m = Len(q)
        BY <1>3
      <4>5. m - 1 = 0
        BY <1>3, <4>3, <4>4
      <4>6. m = 1
        BY <4>5
      <4> QED
        BY <4>1, <4>2, <4>4, <4>6
    <3>2. Lagged(b) /\ Handed(b) = next[b]
      BY <1>1, <3>1 DEF Connected, Handed
    <3>3. Feed!Behind(b) > CAPACITY
      <4>1. PICK x, j, n, l, d :
              x = sent /\ j = joined[b] /\ n = next[b] /\ l = Len(s) /\ d = Feed!Behind(b)
        OBVIOUS
      <4>2. x \in Nat /\ j \in Nat /\ n \in Nat /\ l \in Nat /\ CAPACITY \in Nat
        BY <1>1, <1>3, <4>1
      <4>3. d = x - j - l /\ j + l + 1 = n /\ x - n > CAPACITY
        BY <1>7, <2>2, <3>1, <3>2, <4>1 DEF Lagged
      <4>4. d > CAPACITY
        BY <4>2, <4>3
      <4> QED
        BY <4>1, <4>4
    <3>4. Served' = [Served EXCEPT ![b] = FALSE]
      <4>1. IsServed(b)' = FALSE
        BY <2>7 DEF IsServed
      <4> QED
        BY <2>1, <4>1
    <3> QED
      BY <1>1, <2>1, <2>4, <2>5, <3>3, <3>4 DEF Feed!Show, Show, channel
  <2> QED
    BY <2>6, <2>7
<1> QED
  BY <1>1, <1>8, <1>9, <1>13, <1>14, OnePage DEF FeedStep, Feed!Next

LEMMA LeaveStep ==
  ASSUME PagesInv, NEW b \in Browsers, Leave(b)
  PROVE  PagesInv' /\ FeedStep
<1>1. /\ Connected(b) /\ handler[b] # "none" /\ opened[b] /\ sent \in Nat /\ sent' = sent
      /\ fromBrowser[b] \in Seq(Frames)
  BY DEF PagesInv, PageTypes, PageInv, Unopened, Leave, channel
<1>2. PageTypes'
  BY <1>1 DEF Leave, PagesInv, PageTypes, channel, tasks, history, Frames
<1>3. \A c \in Browsers \ {b} : Untouched(c)
  BY DEF Leave, Untouched, PagesInv, PageTypes, channel, tasks, history
<1>4. toBrowser'[b] = << >> /\ opened'[b] = FALSE
  BY DEF Leave, PagesInv, PageTypes
<1>5. PageInv(b)'
  BY <1>1, <1>4 DEF Leave, PageInv, Connected, channel, tasks, history
<1>6. Served' = Served \/ Served' = [Served EXCEPT ![b] = FALSE]
  <2>1. CASE IsServed(b)'
    BY <1>3, <1>4, <2>1, ServedIs DEF IsServed, Leave, tasks
  <2>2. CASE ~IsServed(b)'
    <3>1. IsServed(b)' = FALSE
      BY <2>2 DEF IsServed
    <3> QED
      BY <1>3, <3>1, ServedIs
  <2> QED
    BY <2>1, <2>2
<1>7. Feed!Leave(b)
  BY <1>1, <1>6 DEF Leave, Feed!Leave, channel, history
<1> QED
  BY <1>1, <1>2, <1>3, <1>5, <1>7, OnePage DEF FeedStep, Feed!Next

LEMMA RecvStatsStep ==
  ASSUME PagesInv, NEW b \in Browsers, RecvStats(b)
  PROVE  PagesInv' /\ FeedStep
<1>1. /\ Connected(b) /\ handler[b] # "none" /\ send_task[b] = "recv" /\ next[b] < sent
      /\ sent \in Nat /\ sent' = sent /\ next[b] \in Nat /\ toBrowser[b] \in Seq(Nat)
      /\ seen[b] \in Seq(Nat) /\ joined[b] \in Nat /\ CAPACITY \in Nat
  BY DashboardAssumption DEF PagesInv, PageTypes, PageInv, Unopened, Connected, RecvStats
<1>2. PageTypes'
  <2>1. next' = next \/ next' = [next EXCEPT ![b] = next[b] + 1]
    BY DEF RecvStats
  <2>2. next' \in [Browsers -> Nat]
    <3>1. PICK n \in Nat : n = next[b] + 1
      BY <1>1
    <3> QED
      BY <2>1, <3>1 DEF PagesInv, PageTypes
  <2>3. send_task' \in [Browsers -> TaskPc]
    <3>1. \/ send_task' = [send_task EXCEPT ![b] = "ended"]
          \/ send_task' = [send_task EXCEPT ![b] = "send"]
      BY DEF RecvStats
    <3>2. send_task \in [Browsers -> TaskPc] /\ {"ended", "send"} \subseteq TaskPc
      BY DEF PagesInv, PageTypes, TaskPc
    <3> QED
      BY <3>1, <3>2
  <2> QED
    BY <2>2, <2>3 DEF RecvStats, PagesInv, PageTypes, socket, history
<1>3. \A c \in Browsers \ {b} : Untouched(c)
  BY DEF RecvStats, Untouched, PagesInv, PageTypes, socket, history
<1>4. Handed(b) = next[b]
  BY <1>1 DEF Handed
<1>5. IsServed(b)
  BY <1>1 DEF IsServed
<1>6. CASE Lagged(b)
  <2>1. next' = next /\ send_task'[b] = "ended"
    BY <1>6 DEF RecvStats, PagesInv, PageTypes
  <2>2. Handed(b)' = next[b] /\ Lagged(b)'
    BY <1>1, <1>6, <2>1 DEF Handed, Lagged
  <2>3. PageInv(b)'
    BY <1>1, <1>4, <2>1, <2>2 DEF RecvStats, PageInv, Connected, socket, history
  <2>4. FeedStep
    <3>1. CASE IsServed(b)'
      <4>1. UNCHANGED Feed!vars
        BY <1>1, <1>3, <1>5, <3>1, ServedIs DEF RecvStats, Feed!vars, socket, history
      <4> QED
        BY <4>1 DEF FeedStep
    <3>2. CASE ~IsServed(b)'
      <4>1. toBrowser[b] = << >> /\ IsServed(b)' = FALSE
        BY <3>2 DEF IsServed, RecvStats, socket
      <4>2. Served[b] /\ Served' = [Served EXCEPT ![b] = FALSE]
        BY <1>3, <1>5, <4>1, ServedIs
      <4>3. opened[b] => Feed!Behind(b) > CAPACITY
        <5>1. Len(toBrowser[b]) = 0 /\ Len(seen[b]) \in Nat
          BY <1>1, <4>1
        <5>2. opened[b] => joined[b] + Len(seen[b]) = next[b]
          BY <1>1, <1>4, <5>1 DEF Connected
        <5> QED
          BY <1>1, <1>6, <5>1, <5>2 DEF Feed!Behind, Lagged
      <4>4. Feed!Drop(b)
        BY <1>1, <4>2, <4>3 DEF Feed!Drop, RecvStats, socket, history
      <4> QED
        BY <4>4 DEF FeedStep, Feed!Next
    <3> QED
      BY <3>1, <3>2
  <2> QED
    BY <1>1, <1>2, <1>3, <2>3, <2>4, OnePage
<1>7. CASE ~Lagged(b)
  <2>1. next'[b] = next[b] + 1 /\ send_task'[b] = "send"
    BY <1>7 DEF RecvStats, PagesInv, PageTypes
  <2>2. Handed(b)' = next[b] /\ next'[b] <= sent'
    <3>1. PICK n \in Nat : n = next[b]
      BY <1>1
    <3>2. Handed(b)' = (n + 1) - 1
      BY <2>1, <3>1 DEF Handed
    <3>3. next'[b] = n + 1 /\ n < sent /\ n + 1 \in Nat
      BY <1>1, <2>1, <3>1
    <3> QED
      BY <1>1, <3>1, <3>2, <3>3
  <2>3. PageInv(b)'
    BY <1>1, <1>4, <2>1, <2>2 DEF RecvStats, PageInv, Connected, socket, history
  <2>4. IsServed(b)'
    BY <2>1 DEF IsServed
  <2>5. UNCHANGED Feed!vars
    BY <1>1, <1>3, <1>5, <2>4, ServedIs DEF RecvStats, Feed!vars, socket, history
  <2> QED
    BY <1>1, <1>2, <1>3, <2>3, <2>5, OnePage DEF FeedStep
<1> QED
  BY <1>6, <1>7

LEMMA SendStatsStep ==
  ASSUME PagesInv, NEW b \in Browsers, SendStats(b)
  PROVE  PagesInv' /\ FeedStep
<1>1. /\ Connected(b) /\ handler[b] # "none" /\ send_task[b] = "send"
      /\ sent \in Nat /\ sent' = sent /\ next[b] \in Nat /\ next' = next
      /\ toBrowser[b] \in Seq(Nat) /\ seen[b] \in Seq(Nat) /\ joined[b] \in Nat
  BY DEF PagesInv, PageTypes, PageInv, Unopened, Connected, SendStats, channel
<1>2. \A c \in Browsers \ {b} : Untouched(c)
  BY DEF SendStats, Untouched, PagesInv, PageTypes, channel, history
<1>3. Handed(b) = next[b] - 1 /\ IsServed(b)
  BY <1>1 DEF Handed, IsServed
<1>4. CASE opened[b]
  <2>1. PICK q \in Seq(Nat), j \in Nat, m \in Nat, n \in Nat :
          q = toBrowser[b] /\ m = Len(q) /\ j = joined[b] + Len(seen[b]) /\ n = next[b]
    <3>1. Len(toBrowser[b]) \in Nat /\ joined[b] + Len(seen[b]) \in Nat
      BY <1>1
    <3> QED
      BY <1>1, <3>1
  <2>2. /\ toBrowser' = [toBrowser EXCEPT ![b] = Append(q, n)]
        /\ send_task' = [send_task EXCEPT ![b] = "recv"]
    BY <1>4, <2>1 DEF SendStats
  <2>3. /\ Append(q, n) \in Seq(Nat) /\ Len(Append(q, n)) = m + 1 /\ Append(q, n)[m + 1] = n
        /\ Append(q, n) # << >> /\ \A k \in 1 .. m : Append(q, n)[k] = q[k]
    <3>1. Append(q, n) \in Seq(Nat) /\ Len(Append(q, n)) = Len(q) + 1 /\ Append(q, n)[Len(q) + 1] = n
      BY AppendProperties
    <3>2. \A k \in 1 .. Len(q) : Append(q, n)[k] = q[k]
      BY AppendProperties
    <3>3. Append(q, n) # << >>
      BY AppendProperties
    <3> QED
      BY <2>1, <3>1, <3>2, <3>3
  <2>4. PageTypes'
    BY <2>2, <2>3 DEF SendStats, PagesInv, PageTypes, TaskPc, channel, history
  <2>5. toBrowser'[b] = Append(q, n) /\ send_task'[b] = "recv"
    BY <2>2 DEF PagesInv, PageTypes
  <2>6. (\A k \in 1 .. m : q[k] = j + k) /\ j + m = n - 1
    BY <1>1, <1>3, <1>4, <2>1 DEF Connected
  <2>7. (\A k \in 1 .. m + 1 : Append(q, n)[k] = j + k) /\ j + (m + 1) = n
    <3>1. j + (m + 1) = n
      BY <2>6
    <3>2. \A k \in 1 .. m + 1 : k \in 1 .. m \/ k = m + 1
      OBVIOUS
    <3> QED
      BY <2>3, <2>6, <3>1, <3>2
  <2>8. Handed(b)' = n
    BY <1>1, <2>1, <2>5 DEF Handed
  <2>9. Connected(b)'
    <3>1. /\ joined' = joined /\ seen' = seen /\ opened' = opened /\ fromBrowser' = fromBrowser
          /\ recv_task' = recv_task /\ handler' = handler
      BY DEF SendStats, history
    <3>2. PICK p : p = toBrowser'[b] /\ p = Append(q, n)
      BY <2>5
    <3>3. /\ \A k \in 1 .. Len(p) : p[k] = joined[b] + Len(seen[b]) + k
          /\ joined[b] + Len(seen[b]) + Len(p) = Handed(b)'
      BY <2>1, <2>3, <2>7, <2>8, <3>2
    <3> QED
      BY <1>1, <1>4, <2>5, <3>1, <3>2, <3>3 DEF Connected
  <2>10. PageInv(b)'
    BY <1>1, <2>9 DEF SendStats, PageInv
  <2>11. IsServed(b)'
    BY <2>5 DEF IsServed
  <2>12. UNCHANGED Feed!vars
    BY <1>1, <1>2, <1>3, <2>11, ServedIs DEF SendStats, Feed!vars, history
  <2> QED
    BY <1>1, <1>2, <2>4, <2>10, <2>12, OnePage DEF FeedStep
<1>5. CASE ~opened[b]
  <2>1. toBrowser' = toBrowser /\ send_task' = [send_task EXCEPT ![b] = "ended"]
    BY <1>5 DEF SendStats
  <2>2. PageTypes'
    BY <2>1 DEF SendStats, PagesInv, PageTypes, TaskPc, channel, history
  <2>3. send_task'[b] = "ended" /\ toBrowser[b] = << >>
    BY <1>1, <1>5, <2>1 DEF PagesInv, PageTypes, Connected
  <2>4. PageInv(b)'
    BY <1>1, <1>5, <2>1, <2>3 DEF SendStats, PageInv, Connected, channel, history
  <2>5. IsServed(b)' = FALSE
    BY <2>1, <2>3 DEF IsServed
  <2>6. Served[b] /\ Served' = [Served EXCEPT ![b] = FALSE]
    BY <1>2, <1>3, <2>5, ServedIs
  <2>7. Feed!Drop(b)
    BY <1>1, <1>5, <2>6 DEF Feed!Drop, SendStats, history
  <2> QED
    BY <1>1, <1>2, <2>2, <2>4, <2>7, OnePage DEF FeedStep, Feed!Next
<1> QED
  BY <1>4, <1>5

LEMMA RecvCommandStep ==
  ASSUME PagesInv, NEW b \in Browsers, RecvCommand(b)
  PROVE  PagesInv' /\ FeedStep
<1>1. /\ recv_task[b] = "recv" /\ fromBrowser[b] # << >> /\ sent \in Nat /\ sent' = sent
      /\ fromBrowser[b] \in Seq(Frames)
  BY DEF RecvCommand, PagesInv, PageTypes, channel
<1>2. Connected(b) /\ handler[b] # "none"
  BY <1>1 DEF PagesInv, PageInv, Unopened
<1>3. PICK f \in Seq(Frames) : f = fromBrowser[b] /\ f # << >>
  BY <1>1
<1>4. /\ Head(f) = f[1] /\ Tail(f) \in Seq(Frames) /\ Len(f) \in Nat /\ Len(f) > 0
      /\ Len(Tail(f)) = Len(f) - 1 /\ \A k \in 1 .. Len(f) - 1 : Tail(f)[k] = f[k + 1]
  BY <1>3
<1>5. fromBrowser' = [fromBrowser EXCEPT ![b] = Tail(f)] /\ fromBrowser'[b] = Tail(f)
  BY <1>3 DEF RecvCommand, PagesInv, PageTypes
<1>6. PageTypes'
  <2>1. fromBrowser' \in [Browsers -> Seq(Frames)]
    BY <1>4, <1>5 DEF PagesInv, PageTypes
  <2>2. recv_task' \in [Browsers -> TaskPc \ {"send"}]
    BY DEF RecvCommand, PagesInv, PageTypes, TaskPc
  <2> QED
    BY <2>1, <2>2 DEF RecvCommand, PagesInv, PageTypes, channel, history
<1>7. \A c \in Browsers \ {b} : Untouched(c)
  BY <1>5 DEF RecvCommand, Untouched, PagesInv, PageTypes, channel, history
<1>8. opened[b] => f[1] # CloseFrame /\ \A k \in 1 .. Len(Tail(f)) : Tail(f)[k] # CloseFrame
  <2> SUFFICES ASSUME opened[b] PROVE f[1] # CloseFrame /\ \A k \in 1 .. Len(Tail(f)) : Tail(f)[k] # CloseFrame
    OBVIOUS
  <2>1. \A k \in 1 .. Len(f) : f[k] # CloseFrame
    BY <1>2, <1>3 DEF Connected
  <2>2. 1 \in 1 .. Len(f) /\ \A k \in 1 .. Len(f) - 1 : k + 1 \in 1 .. Len(f)
    BY <1>4
  <2> QED
    BY <1>4, <2>1, <2>2
<1>9. opened[b] => recv_task' = recv_task
  BY <1>3, <1>4, <1>8 DEF RecvCommand
<1>10. /\ Handed(b)' = Handed(b) /\ (Lagged(b)' <=> Lagged(b))
       /\ next' = next /\ send_task' = send_task /\ handler' = handler /\ opened' = opened
       /\ toBrowser' = toBrowser /\ joined' = joined /\ seen' = seen
  BY DEF RecvCommand, Handed, Lagged, channel, history
<1>11. Connected(b)'
  BY <1>1, <1>2, <1>5, <1>8, <1>9, <1>10 DEF Connected
<1>12. PageInv(b)'
  BY <1>2, <1>10, <1>11 DEF PageInv
<1>13. UNCHANGED Feed!vars
  BY <1>1, <1>10 DEF Feed!vars, Served
<1> QED
  BY <1>1, <1>6, <1>7, <1>12, <1>13, OnePage DEF FeedStep

LEMMA SelectStep ==
  ASSUME PagesInv, NEW b \in Browsers, Select(b)
  PROVE  PagesInv' /\ FeedStep
<1>1. handler[b] = "select" /\ Connected(b) /\ sent \in Nat /\ sent' = sent
  BY DEF Select, PagesInv, PageTypes, PageInv, channel
<1>2. PageTypes'
  BY DEF Select, PagesInv, PageTypes, HandlerPc, channel, socket, history
<1>3. \A c \in Browsers \ {b} : Untouched(c)
  BY DEF Select, Untouched, PagesInv, PageTypes, channel, socket, history
<1>4. /\ handler'[b] \in {"abort_send", "abort_recv"}
      /\ handler'[b] = "abort_send" => recv_task[b] = "ended"
  BY DEF Select, PagesInv, PageTypes
<1>5. handler'[b] = "abort_send" => ~opened[b]
  BY <1>1, <1>4 DEF Connected
<1>6. PageInv(b)'
  BY <1>1, <1>4, <1>5 DEF Select, PageInv, Connected, Handed, Lagged, channel, socket, history
<1>7. UNCHANGED Feed!vars
  BY DEF Select, Feed!vars, Served, channel, socket, history
<1> QED
  BY <1>1, <1>2, <1>3, <1>6, <1>7, OnePage DEF FeedStep

LEMMA CancelStep ==
  ASSUME PagesInv, NEW b \in Browsers, Cancel(b)
  PROVE  PagesInv' /\ FeedStep
<1>1. /\ Connected(b) /\ handler[b] # "none" /\ handler' = handler /\ sent \in Nat /\ sent' = sent
      /\ opened' = opened /\ toBrowser' = toBrowser
  BY DEF Cancel, PagesInv, PageTypes, PageInv, channel, socket
<1>2. PageTypes'
  BY DEF Cancel, PagesInv, PageTypes, TaskPc, channel, socket, history
<1>3. \A c \in Browsers \ {b} : Untouched(c)
  BY DEF Cancel, Untouched, PagesInv, PageTypes, channel, socket, history
<1>4. CASE handler[b] = "abort_send"
  <2>1. ~opened[b] /\ toBrowser[b] = << >>
    BY <1>1, <1>4 DEF Connected
  <2>2. send_task[b] # "ended" /\ send_task'[b] = "ended"
    BY <1>4 DEF Cancel, PagesInv, PageTypes
  <2>3. PageInv(b)'
    BY <1>1, <2>1 DEF Cancel, PageInv, Connected, channel, socket, history
  <2>4. IsServed(b) /\ IsServed(b)' = FALSE
    BY <1>1, <2>1, <2>2 DEF IsServed
  <2>5. Served[b] /\ Served' = [Served EXCEPT ![b] = FALSE]
    BY <1>3, <2>4, ServedIs
  <2>6. Feed!Drop(b)
    BY <2>1, <2>5 DEF Feed!Drop, Cancel, channel, socket, history
  <2> QED
    BY <1>1, <1>2, <1>3, <2>3, <2>6, OnePage DEF FeedStep, Feed!Next
<1>5. CASE handler[b] = "abort_recv"
  <2>1. send_task' = send_task
    BY <1>5 DEF Cancel
  <2>2. PageInv(b)'
    BY <1>1, <1>5, <2>1 DEF Cancel, PageInv, Connected, Handed, Lagged, channel, socket, history
  <2>3. UNCHANGED Feed!vars
    BY <1>1, <2>1 DEF Cancel, Feed!vars, Served, channel, socket, history
  <2> QED
    BY <1>1, <1>2, <1>3, <2>2, <2>3, OnePage DEF FeedStep
<1> QED
  BY <1>4, <1>5 DEF Cancel

LEMMA PagesStep ==
  ASSUME PagesInv, [DashboardNext]_dashboard
  PROVE  PagesInv' /\ FeedStep
<1>1. CASE UNCHANGED dashboard
  <2>1. UNCHANGED Feed!vars
    BY <1>1 DEF dashboard, channel, tasks, socket, history, Feed!vars, Served
  <2>2. \A c \in Browsers : Untouched(c)
    BY <1>1 DEF dashboard, channel, tasks, socket, history, Untouched
  <2>3. PageTypes' /\ sent' >= sent
    BY <1>1 DEF dashboard, channel, tasks, socket, history, PagesInv, PageTypes
  <2>4. PagesInv'
    BY <2>2, <2>3, OthersKept DEF PagesInv
  <2> QED
    BY <2>1, <2>4 DEF FeedStep
<1> QED
  BY <1>1, BroadcastStep, ConnectStep, AskStep, ShowStep, LeaveStep, RecvStatsStep, SendStatsStep,
     RecvCommandStep, SelectStep, CancelStep DEF DashboardNext

(***************************************************************************)
(* Every page is shown every report from its connection on, none twice and    *)
(* none skipped, until it is closed or the channel has lost one it was still   *)
(* to see, and then no more: for any number of pages that come and go, any    *)
(* capacity of the channel and of the connections, in whatever order the      *)
(* tasks, the select! and the pages take their steps (main.rs 424-467).       *)
(***************************************************************************)
THEOREM FeedsPages == DashboardSpec => Feed!Init /\ [][Feed!Next]_(Feed!vars)
<1>1. DashboardInit => PagesInv
  BY PagesInit
<1>2. DashboardInit => Feed!Init
  BY PagesInit
<1>3. PagesInv /\ [DashboardNext]_dashboard => PagesInv'
  BY PagesStep
<1>4. PagesInv /\ [DashboardNext]_dashboard => [Feed!Next]_(Feed!vars)
  BY PagesStep DEF FeedStep
<1> QED
  BY <1>1, <1>2, <1>3, <1>4, PTL DEF DashboardSpec
=============================================================================
