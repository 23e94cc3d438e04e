------------------------------ MODULE DemoLink ------------------------------
(***************************************************************************)
(* The USB serial line between demo_host and demo_client: the packets under  *)
(* way in each direction, and what opening, closing and unplugging do to     *)
(* them.  The line itself is the kernel's tty and embassy-usb's endpoints;   *)
(* it is modelled from how main.rs and demo_client.rs use it.                *)
(***************************************************************************)
EXTENDS Integers, Sequences

CONSTANTS
  PACKET,       \* bytes of a USB packet, of the length prefix and of the status (64)
  KEY,          \* MlKem768PublicKey::len() (1184)
  SIG,          \* MLDSA65Signature::len() (3309)
  CT,           \* MlKem768Ciphertext::len() (1088)
  MAX_PAYLOAD,  \* the client's room for a payload (1024)
  U16           \* 2^16, the range of the length prefix

ASSUME SizesAssumption ==
  /\ {PACKET, KEY, SIG, CT, U16} \subseteq Nat \ {0}
  /\ MAX_PAYLOAD \in Nat
  /\ CT % PACKET = 0
  /\ KEY + MAX_PAYLOAD < U16

(* A signature is not a number of full packets (3309 = 51 * 64 + 45).          *)
ASSUME SignatureAssumption == SIG % PACKET # 0 /\ SIG + 2 * PACKET <= U16

VARIABLES
  toClient,  \* packets the host has written and the client has not read
  toHost,    \* packets the client has written and the host has not read
  open,      \* does the host have the port open?
  attached,  \* is the device attached?
  interrupted  \* history: was a ping cut short, its remains perhaps still about?

link == <<toClient, toHost, open, attached, interrupted>>

LinkInit ==
  /\ toClient = << >>
  /\ toHost = << >>
  /\ open = FALSE
  /\ attached = TRUE
  /\ interrupted = FALSE

NoRequest == [ping |-> 0, payload |-> 0, fail |-> FALSE]

(* A write of n bytes of part `part' of the request req, in packets. *)
Packets(req, part, n) ==
  [k \in 1 .. (n + PACKET - 1) \div PACKET |->
     [req |-> req, part |-> part, k |-> k,
      len |-> IF k * PACKET <= n THEN PACKET ELSE n % PACKET]]

(* The length of the payload and the key, as u16. *)
PrefixValue(req) == (req.payload + KEY) % U16

PayloadPackets(req) == Packets(req, "payload", KEY + req.payload)
SignaturePackets(req) == Packets(req, "signature", SIG)

(* Closing drops what the host's tty has received; what is still in the      *)
(* endpoint stays for whoever opens the port next.                           *)
Close ==
  /\ open' = FALSE
  /\ \E k \in 0 .. Len(toHost) : toHost' = SubSeq(toHost, k + 1, Len(toHost))

(* While no one has the port open the endpoint holds one packet. *)
RoomToHost == open \/ toHost = << >>
=============================================================================
