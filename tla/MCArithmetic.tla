---------------------------- MODULE MCArithmetic ----------------------------
(***************************************************************************)
(* What happens to coefficients, for TLC: ML-DSA's rounding, ML-KEM's          *)
(* compression, the encodings and the transforms of both schemes; to bytes in  *)
(* the sponge's lanes; and to what is signed.  A behaviour is one coefficient, *)
(* one encoded object, one caller of the transforms, one block loaded and one  *)
(* stored, or one signature and one verification.                              *)
(***************************************************************************)
EXTENDS Rounding, MlKemCompress, MessageBinding, Transforms

CONSTANT Units
ASSUME UnitsAssumption == Units \in Nat \ {0}

VARIABLES object, part, element, offset, bytes, decoded,     \* of Encodings
          rate, delimiter, instance, start, size, lanes, out  \* of LaneBits

(* Both compression pairs of ML-KEM, every parameter set of ML-DSA. *)
MlKemObjects ==
  [kind : {"public_key", "secret_key", "message"}]
    \cup {[kind |-> "ciphertext", du |-> 10, dv |-> 4], [kind |-> "ciphertext", du |-> 11, dv |-> 5]}
Codec == INSTANCE MlDsaEncoding
MlDsaObjects == Codec!Objects

E == INSTANCE Encodings
L == INSTANCE LaneBits

rounding == <<inputs, t0, t1, w0, w1, hint, recovered>>
encoding == <<object, part, element, offset, bytes, decoded>>
sponge == <<rate, delimiter, instance, start, size, lanes, out>>

NoRounding == gamma2 = 0 /\ t = 0 /\ w = 0 /\ cs2 = 0 /\ ct0 = 0 /\ t0 = 0 /\ t1 = 0
                /\ w0 = 0 /\ w1 = 0 /\ hint = 0 /\ recovered = 0
NoEncoding == object = [kind |-> "none"] /\ part = 0 /\ element = 0 /\ offset = 0 /\ bytes = <<>> /\ decoded = <<>>
NoCompression == step = "unused" /\ factor = 0 /\ coefficient = 0 /\ compressed = 0 /\ decompressed = 0
NoTransforms ==
  /\ copy = "unused" /\ flow = "none" /\ exponent = 0 /\ phase = "unused"
  /\ row = 0 /\ entry = 0 /\ layer = 0 /\ operand = <<>> /\ addend = <<>> /\ result = <<>> /\ challenge = "unused"
  /\ zeta_i = 0 /\ cache = "unused" /\ accumulator = "unused"
NoLanes == rate = 0 /\ delimiter = 0 /\ instance = <<>> /\ start = 0 /\ size = 0 /\ lanes = <<>> /\ out = <<>>
NoBinding == stage = "unused" /\ signed = "none" /\ signature = "none" /\ checked = "none" /\ verdict = "unused"

MCInit ==
  \/ Init /\ NoEncoding /\ NoCompression /\ NoTransforms /\ NoLanes /\ NoBinding
  \/ E!Init /\ NoRounding /\ NoCompression /\ NoTransforms /\ NoLanes /\ NoBinding
  \/ CompressionInit /\ pc = "unused" /\ NoRounding /\ NoEncoding /\ NoTransforms /\ NoLanes /\ NoBinding
  \/ TransformsInit /\ pc = "unused" /\ NoRounding /\ NoEncoding /\ NoCompression /\ NoLanes /\ NoBinding
  \/ L!Init /\ NoRounding /\ NoEncoding /\ NoCompression /\ NoTransforms /\ NoBinding
  \/ BindingInit /\ pc = "unused" /\ NoRounding /\ NoEncoding /\ NoCompression /\ NoTransforms /\ NoLanes

(* A behaviour goes on with the machine it started with. *)
MCNext ==
  \/ gamma2 # 0 /\ Next /\ UNCHANGED <<encoding, compression, transforms, sponge, binding>>
  \/ object.kind # "none" /\ E!Next /\ UNCHANGED <<rounding, compression, transforms, sponge, binding>>
  \/ factor # 0 /\ CompressionNext /\ UNCHANGED <<pc, rounding, encoding, transforms, sponge, binding>>
  \/ flow # "none" /\ TransformsNext /\ UNCHANGED <<pc, rounding, encoding, compression, sponge, binding>>
  \/ rate # 0 /\ L!Next /\ UNCHANGED <<rounding, encoding, compression, transforms, binding>>
  \/ stage # "unused" /\ BindingNext /\ UNCHANGED <<pc, rounding, encoding, compression, transforms, sponge>>

MCSpec == MCInit /\ [][MCNext]_<<pc, rounding, encoding, compression, transforms, sponge, binding>>

EncodesRight == E!EncodesRight
DecodesBack == E!DecodesBack
BytesInPlace == rate # 0 => L!BytesInPlace

-----------------------------------------------------------------------------
(* Both GAMMA2, and values about each boundary. *)
MCGammas == {GAMMA2_V95_232, GAMMA2_V261_888}
MCBeta == [g \in MCGammas |-> IF g = GAMMA2_V95_232 THEN 78 ELSE 196]

Near(x) == x - 1 .. x + 1
Both(S) == {x \in S \cup {y - FIELD_MODULUS : y \in S} : IsCoefficient(x)}

MCTs == Both(UNION {Near(k * 4096) : k \in {0, 1, 2, 3, 511, 512, 1023, 2043, 2044, 2045}})

(* Of each high part, the middle and both ends. *)
MCWs == [g \in MCGammas |->
  Both(UNION {Near(k * 2 * g + d) : k \in 0 .. (IF g = GAMMA2_V95_232 THEN 44 ELSE 16),
                                    d \in {-g, -g + MCBeta[g], 0, g - MCBeta[g], g}})]
MCCS2s == [g \in MCGammas |-> {-MCBeta[g], 0, 1, MCBeta[g]}]
MCCT0s == [g \in MCGammas |-> {-g, 1 - g, -1, 0, 1, MCBeta[g], g - 1, g}]

MCRepresentatives == -3328 .. 3328

(* A byte wraps at three, and a context of three is too long. *)
Strings(length) == [1 .. length -> {Byte(0), Byte(1)}]
MCOid == <<Byte(1), Byte(0)>>
MCDigest == <<"SHAKE128", << >> >>
MCContexts == UNION {Strings(n) : n \in 0 .. 3}
MCMessages ==
  UNION {Strings(n) : n \in 0 .. 1}
    \cup {MCOid, <<MCDigest>>, MCOid \o <<MCDigest>>, <<Byte(1)>> \o MCOid \o <<MCDigest>>}
MCOctets == {Byte(0), Byte(1), MCDigest}
=============================================================================
