----------------------------- MODULE Encodings -----------------------------
(***************************************************************************)
(* Encoding a key, a ciphertext, a signature, a message or a commitment, one   *)
(* ring element or copied array at a time, and decoding it where its receiver  *)
(* looks for the parts.                                                        *)
(***************************************************************************)
EXTENDS BitPacking

CONSTANTS MlKemObjects, MlDsaObjects, Rank, Units

K == INSTANCE MlKemEncoding
D == INSTANCE MlDsaEncoding

VARIABLES pc, object,
          part,      \* which of its parts is next
          element,   \* and which ring element of that
          offset,    \* where the next is written
          bytes,
          decoded
vars == <<pc, object, part, element, offset, bytes, decoded>>

IsMlKem == object \in MlKemObjects
Parts == IF IsMlKem THEN K!Parts(object) ELSE D!Parts(object)
ReadParts == IF IsMlKem THEN K!Parts(object) ELSE D!ReadParts(object)
Size == IF IsMlKem THEN K!Size(object) ELSE D!Size(object)
Start(name) == IF IsMlKem THEN K!Start(object, name) ELSE D!Start(object, name)
Bits(format) == IF IsMlKem THEN K!Bits(format) ELSE D!Bits(format)
UnitSize == IF IsMlKem THEN K!UnitSize ELSE D!UnitSize
UnitBytes(format) == IF IsMlKem THEN K!UnitBytes(format) ELSE D!UnitBytes(format)
serialize(format, v) == IF IsMlKem THEN K!serialize(format, v) ELSE D!serialize(format, v)
deserialize(format, b) == IF IsMlKem THEN K!deserialize(format, b) ELSE D!deserialize(format, b)

Coefficients == Units * UnitSize

(* Coefficient i of element e, and byte i of an array that is copied. *)
Coefficient(p, e, i) == Field(<<p.name, e, i>>, Bits(p.format))
Byte(p, i) == Field(<<p.name, 0, i>>, 8)

Content(p, e) ==
  IF p.copied THEN [i \in 0 .. p.size - 1 |-> Byte(p, i)]
                 ELSE [i \in 0 .. Coefficients - 1 |-> Coefficient(p, e, i)]

Init ==
  /\ object \in MlKemObjects \cup MlDsaObjects
  /\ pc = "encode" /\ part = 1 /\ element = 0 /\ offset = 0
  /\ bytes = [i \in 0 .. Size - 1 |-> {}]
  /\ decoded = [n \in {} |-> 0]

(* The last element of the last part, or the next of either. *)
IsLast(parts) == part = Len(parts) /\ element = parts[part].count - 1
Advance(parts) ==
  IF element < parts[part].count - 1
    THEN element' = element + 1 /\ UNCHANGED part
    ELSE part' = part + 1 /\ element' = 0

(* The offsets of the code are sums of sizes or an index times a size.  A unit *)
(* goes into its own slice of the element's slice.                             *)
EncodeElement ==
  /\ pc = "encode"
  /\ LET p == Parts[part]
         content == Content(p, element)
         unit(i) == serialize(p.format, Slice(content, i * UnitSize, UnitSize))
         upTo[n \in 0 .. Units] ==
           IF n = 0 THEN bytes
           ELSE Written(upTo[n - 1], offset + (n - 1) * UnitBytes(p.format), unit(n - 1))
     IN /\ bytes' = IF p.copied
                      THEN [i \in DOMAIN bytes |->
                              IF i \in offset .. offset + p.size - 1
                                THEN content[i - offset] ELSE bytes[i]]
                      ELSE upTo[Units]
        /\ offset' = offset + p.size
  /\ IF IsLast(Parts)
       THEN /\ pc' = IF object.kind = "commitment" THEN "hashed" ELSE "decode"
            /\ part' = 1 /\ element' = 0
       ELSE Advance(Parts) /\ UNCHANGED pc
  /\ UNCHANGED <<object, decoded>>

DecodeElement ==
  /\ pc = "decode"
  /\ LET p == ReadParts[part]
         start == Start(p.name) + element * p.size
         unit(i) == deserialize(p.format,
                      Slice(bytes, start + i * UnitBytes(p.format), UnitBytes(p.format)))
         units == [i \in 0 .. Units - 1 |-> unit(i)]
         found == IF p.copied THEN Slice(bytes, start, p.size)
                  ELSE [i \in 0 .. Coefficients - 1 |-> units[i \div UnitSize][(i % UnitSize) + 1]]
     IN decoded' = [n \in DOMAIN decoded \cup {<<p.name, element>>} |->
                      IF n = <<p.name, element>> THEN found ELSE decoded[n]]
  /\ IF IsLast(ReadParts) THEN pc' = "decoded" /\ UNCHANGED <<part, element>>
               ELSE Advance(ReadParts) /\ UNCHANGED pc
  /\ UNCHANGED <<object, offset, bytes>>

Next == EncodeElement \/ DecodeElement

-----------------------------------------------------------------------------
(* Properties *)

BitsOf(p) == IF p.copied THEN 8 * p.size ELSE p.count * Coefficients * Bits(p.format)
FirstBit[n \in 1 .. 7] == IF n = 1 THEN 0 ELSE FirstBit[n - 1] + BitsOf(Parts[n - 1])

(* The little-endian string of all fields one after the other. *)
StandardBits ==
  LET fields(n) == IF Parts[n].copied THEN {0} \X (0 .. Parts[n].size - 1)
                   ELSE (0 .. Parts[n].count - 1) \X (0 .. Coefficients - 1)
      width(n) == IF Parts[n].copied THEN 8 ELSE Bits(Parts[n].format)
      bitsOfPart(n) ==
        UNION {{<<FirstBit[n] + (f[1] * Coefficients + f[2]) * width(n) + k,
                  <<<<Parts[n].name, f[1], f[2]>>, k>>>> : k \in 0 .. width(n) - 1} : f \in fields(n)}
  IN UNION {bitsOfPart(n) : n \in 1 .. Len(Parts)}

(***************************************************************************)
(* What is written is the bit string of FIPS 203 and 204, every field in its   *)
(* place, and fills the array to its last bit: no shift, mask, group or offset *)
(* of the encoders loses a bit, doubles one or leaves a gap.                    *)
(***************************************************************************)
EncodesRight ==
  pc \in {"decode", "hashed"} /\ DOMAIN decoded = {} =>
    /\ UNION {{<<8 * i + b[1], b[2]>> : b \in bytes[i]} : i \in DOMAIN bytes} = StandardBits
    /\ 8 * Size = FirstBit[Len(Parts)] + BitsOf(Parts[Len(Parts)])

(***************************************************************************)
(* A receiver gets back every coefficient and every copied array as it was,    *)
(* and no more of them, whichever bundle wrote the object: the decoders'        *)
(* splits, groups and counts agree with the encoders', though each is written   *)
(* by itself.  A verifier encodes the commitment it recomputes as the signer    *)
(* encoded his.                                                                *)
(***************************************************************************)
DecodesBack ==
  /\ pc = "decoded" =>
       decoded = [n \in UNION {{Parts[k].name} \X (0 .. Parts[k].count - 1) : k \in 1 .. Len(Parts)} |->
                    Content(CHOOSE p \in {Parts[k] : k \in 1 .. Len(Parts)} : p.name = n[1], n[2])]
  /\ pc = "hashed" => ReadParts = Parts
=============================================================================
