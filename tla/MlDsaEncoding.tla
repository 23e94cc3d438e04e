--------------------------- MODULE MlDsaEncoding ---------------------------
(***************************************************************************)
(* ML-DSA's encodings (simd/portable/encoding, encoding): a unit of eight     *)
(* coefficients in each of its forms, and what keys, signatures and hashed     *)
(* commitments are made of.                                                    *)
(*                                                                         *)
(* Coefficients that may be negative are encoded as a constant minus the       *)
(* coefficient, GAMMA1, ETA or 2^12, and decoded the same way: the fields here *)
(* are these differences.                                                      *)
(***************************************************************************)
EXTENDS BitPacking, SequencesExt

CONSTANT Units   \* SIMD_UNITS_IN_RING_ELEMENT, 32

UnitSize == 8
COEFFICIENTS_IN_RING_ELEMENT == Units * UnitSize

-----------------------------------------------------------------------------
(* By four coefficients of 18 bits, or two of 20. *)
gamma1_serialize_17(c) ==
  << U8(c[0]), U8(Shr(c[0], 8)), U8(Shr(c[0], 16)) | U8(Shl(c[1], 2)),
     U8(Shr(c[1], 6)), U8(Shr(c[1], 14)) | U8(Shl(c[2], 4)),
     U8(Shr(c[2], 4)), U8(Shr(c[2], 12)) | U8(Shl(c[3], 6)),
     U8(Shr(c[3], 2)), U8(Shr(c[3], 10)) >>

gamma1_serialize_19(c) ==
  << U8(c[0]), U8(Shr(c[0], 8)), U8(Shr(c[0], 16)) | U8(Shl(c[1], 4)),
     U8(Shr(c[1], 4)), U8(Shr(c[1], 12)) >>

gamma1_serialize(exponent, c) ==
  IF exponent = 17
    THEN gamma1_serialize_17(Slice(c, 0, 4)) \o gamma1_serialize_17(Slice(c, 4, 4))
    ELSE gamma1_serialize_19(Slice(c, 0, 2)) \o gamma1_serialize_19(Slice(c, 2, 2))
           \o gamma1_serialize_19(Slice(c, 4, 2)) \o gamma1_serialize_19(Slice(c, 6, 2))

gamma1_deserialize_17(b) ==
  << (b[0] | Shl(b[1], 8) | Shl(b[2], 16)) & 262143,
     (Shr(b[2], 2) | Shl(b[3], 6) | Shl(b[4], 14)) & 262143,
     (Shr(b[4], 4) | Shl(b[5], 4) | Shl(b[6], 12)) & 262143,
     (Shr(b[6], 6) | Shl(b[7], 2) | Shl(b[8], 10)) & 262143 >>

(* The second is not masked. *)
gamma1_deserialize_19(b) ==
  << (b[0] | Shl(b[1], 8) | Shl(b[2], 16)) & 1048575,
     Shr(b[2], 4) | Shl(b[3], 4) | Shl(b[4], 12) >>

gamma1_deserialize(exponent, b) ==
  IF exponent = 17
    THEN gamma1_deserialize_17(Slice(b, 0, 9)) \o gamma1_deserialize_17(Slice(b, 9, 9))
    ELSE gamma1_deserialize_19(Slice(b, 0, 5)) \o gamma1_deserialize_19(Slice(b, 5, 5))
           \o gamma1_deserialize_19(Slice(b, 10, 5)) \o gamma1_deserialize_19(Slice(b, 15, 5))

(* By the length of the output: two coefficients of 4 bits, or four of 6. *)
Nibbles(c) == << U8(Shl(c[1], 4)) | c[0], U8(Shl(c[3], 4)) | c[2],
                 U8(Shl(c[5], 4)) | c[4], U8(Shl(c[7], 4)) | c[6] >>

SixBits(c) == << U8(Shl(c[1], 6)) | c[0],
                 U8(Shl(c[2], 4)) | Shr(c[1], 2),
                 U8(Shl(c[3], 2)) | Shr(c[2], 4) >>

commitment_serialize(length, c) ==
  IF length = 4 THEN Nibbles(c) ELSE SixBits(Slice(c, 0, 4)) \o SixBits(Slice(c, 4, 4))

error_serialize_when_eta_is_4(c) == Nibbles(c)

error_serialize_when_eta_is_2(c) ==
  << U8(Shl(c[2], 6)) | Shl(c[1], 3) | c[0],
     U8(Shl(c[5], 7)) | Shl(c[4], 4) | Shl(c[3], 1) | Shr(c[2], 2),
     U8(Shl(c[7], 5)) | Shl(c[6], 2) | Shr(c[5], 1) >>

error_deserialize_when_eta_is_4(b) ==
  << b[0] & 15, Shr(b[0], 4), b[1] & 15, Shr(b[1], 4),
     b[2] & 15, Shr(b[2], 4), b[3] & 15, Shr(b[3], 4) >>

error_deserialize_when_eta_is_2(b) ==
  << b[0] & 7, Shr(b[0], 3) & 7, (Shr(b[0], 6) | Shl(b[1], 2)) & 7,
     Shr(b[1], 1) & 7, Shr(b[1], 4) & 7, (Shr(b[1], 7) | Shl(b[2], 1)) & 7,
     Shr(b[2], 2) & 7, Shr(b[2], 5) & 7 >>

t0_serialize(c) ==
  << U8(c[0]), U8(Shr(c[0], 8)) | U8(Shl(c[1], 5)),
     U8(Shr(c[1], 3)), U8(Shr(c[1], 11)) | U8(Shl(c[2], 2)),
     U8(Shr(c[2], 6)) | U8(Shl(c[3], 7)),
     U8(Shr(c[3], 1)), U8(Shr(c[3], 9)) | U8(Shl(c[4], 4)),
     U8(Shr(c[4], 4)), U8(Shr(c[4], 12)) | U8(Shl(c[5], 1)),
     U8(Shr(c[5], 7)) | U8(Shl(c[6], 6)),
     U8(Shr(c[6], 2)), U8(Shr(c[6], 10)) | U8(Shl(c[7], 3)),
     U8(Shr(c[7], 5)) >>

t0_deserialize(b) ==
  << (b[0] | Shl(b[1], 8)) & 8191,
     (Shr(b[1], 5) | Shl(b[2], 3) | Shl(b[3], 11)) & 8191,
     (Shr(b[3], 2) | Shl(b[4], 6)) & 8191,
     (Shr(b[4], 7) | Shl(b[5], 1) | Shl(b[6], 9)) & 8191,
     (Shr(b[6], 4) | Shl(b[7], 4) | Shl(b[8], 12)) & 8191,
     (Shr(b[8], 1) | Shl(b[9], 7)) & 8191,
     (Shr(b[9], 6) | Shl(b[10], 2) | Shl(b[11], 10)) & 8191,
     (Shr(b[11], 3) | Shl(b[12], 5)) & 8191 >>

FourOfT1(c) ==
  << U8(c[0] & 255),
     U8(Shl(c[1] & 63, 2)) | (Shr(c[0], 8) & 3),
     U8(Shl(c[2] & 15, 4)) | (Shr(c[1], 6) & 15),
     U8(Shl(c[3] & 3, 6)) | (Shr(c[2], 4) & 63),
     U8(Shr(c[3], 2) & 255) >>

t1_serialize(c) == FourOfT1(Slice(c, 0, 4)) \o FourOfT1(Slice(c, 4, 4))

FiveBytesOfT1(b) ==
  << (b[0] | Shl(b[1], 8)) & 1023, (Shr(b[1], 2) | Shl(b[2], 6)) & 1023,
     (Shr(b[2], 4) | Shl(b[3], 4)) & 1023, (Shr(b[3], 6) | Shl(b[4], 2)) & 1023 >>

t1_deserialize(b) == FiveBytesOfT1(Slice(b, 0, 5)) \o FiveBytesOfT1(Slice(b, 5, 5))

-----------------------------------------------------------------------------
(* A ring element: its units one after the other. *)

Formats == {"gamma1_17", "gamma1_19", "commitment_6", "commitment_4",
            "error_4", "error_2", "t0", "t1"}

BITS_IN_LOWER_PART_OF_T == 13
BITS_IN_UPPER_PART_OF_T == 10

Bits(format) ==
  CASE format = "gamma1_17" -> 18 [] format = "gamma1_19" -> 20
    [] format = "commitment_6" -> 6 [] format = "commitment_4" -> 4
    [] format = "error_4" -> 4 [] format = "error_2" -> 3
    [] format = "t0" -> BITS_IN_LOWER_PART_OF_T [] format = "t1" -> BITS_IN_UPPER_PART_OF_T

ElementSize(bits) == (COEFFICIENTS_IN_RING_ELEMENT * bits) \div 8

(* OUTPUT_BYTES_PER_SIMD_UNIT, the windows of the decoders, error_chunk_size *)
UnitBytes(format) ==
  CASE format = "gamma1_17" -> 17 + 1 [] format = "gamma1_19" -> 19 + 1
    [] format \in {"commitment_4", "commitment_6"} -> ElementSize(Bits(format)) \div Units
    [] format = "error_4" -> 4 [] format = "error_2" -> 3
    [] format = "t0" -> 13 [] format = "t1" -> 10

serialize(format, c) ==
  CASE format = "gamma1_17" -> gamma1_serialize(17, c)
    [] format = "gamma1_19" -> gamma1_serialize(19, c)
    [] format \in {"commitment_4", "commitment_6"} -> commitment_serialize(UnitBytes(format), c)
    [] format = "error_4" -> error_serialize_when_eta_is_4(c)
    [] format = "error_2" -> error_serialize_when_eta_is_2(c)
    [] format = "t0" -> t0_serialize(c) [] format = "t1" -> t1_serialize(c)

deserialize(format, b) ==
  CASE format = "gamma1_17" -> gamma1_deserialize(17, b)
    [] format = "gamma1_19" -> gamma1_deserialize(19, b)
    [] format = "error_4" -> error_deserialize_when_eta_is_4(b)
    [] format = "error_2" -> error_deserialize_when_eta_is_2(b)
    [] format = "t0" -> t0_deserialize(b) [] format = "t1" -> t1_deserialize(b)

-----------------------------------------------------------------------------
(* The functions of each parameter set, in the bundle of ml-dsa and, below, in *)
(* the combined one.  Each names its sizes again: how many elements its arrays *)
(* have (columns: those of s1_s2 that are s1), the exponents and ETA its       *)
(* encoders are called with, the bits its element sizes are made of, and the   *)
(* array the commitment is serialized into.                                    *)
ml_dsa_44_generate_key_pair ==
  [columns |-> 4, s1_s2 |-> 8, t0 |-> 4,
   t1 |-> 4, eta |-> 2, error_bits |-> 3]
ml_dsa_44_key_of_sign_internal ==
  [columns |-> 4, rows |-> 4, s1 |-> 4, s2 |-> 4,
   t0 |-> 4, eta |-> 2, error_bits |-> 3]
ml_dsa_44_sign_internal ==
  [commitment |-> 4, commitment_bits |-> 6, commitment_serialized |-> 768, hash |-> 32, response |-> 4,
   gamma1_exponent |-> 17, gamma1_bits |-> 18, max_ones |-> 80, rows |-> 4]
ml_dsa_44_verify_internal ==
  [t1 |-> 4, commitment |-> 4, commitment_bits |-> 6, commitment_serialized |-> 768, hash |-> 32,
   response |-> 4, gamma1_exponent |-> 17, gamma1_bits |-> 18, max_ones |-> 80, rows |-> 4]
ml_dsa_65_generate_key_pair ==
  [columns |-> 5, s1_s2 |-> 11, t0 |-> 6,
   t1 |-> 6, eta |-> 4, error_bits |-> 4]
ml_dsa_65_key_of_sign_internal ==
  [columns |-> 5, rows |-> 6, s1 |-> 5, s2 |-> 6,
   t0 |-> 6, eta |-> 4, error_bits |-> 4]
ml_dsa_65_sign_internal ==
  [commitment |-> 6, commitment_bits |-> 4, commitment_serialized |-> 768, hash |-> 48, response |-> 5,
   gamma1_exponent |-> 19, gamma1_bits |-> 20, max_ones |-> 55, rows |-> 6]
ml_dsa_65_verify_internal ==
  [t1 |-> 6, commitment |-> 6, commitment_bits |-> 4, commitment_serialized |-> 768, hash |-> 48,
   response |-> 5, gamma1_exponent |-> 19, gamma1_bits |-> 20, max_ones |-> 55, rows |-> 6]
ml_dsa_87_generate_key_pair ==
  [columns |-> 7, s1_s2 |-> 15, t0 |-> 8,
   t1 |-> 8, eta |-> 2, error_bits |-> 3]
ml_dsa_87_key_of_sign_internal ==
  [columns |-> 7, rows |-> 8, s1 |-> 7, s2 |-> 8,
   t0 |-> 8, eta |-> 2, error_bits |-> 3]
ml_dsa_87_sign_internal ==
  [commitment |-> 8, commitment_bits |-> 4, commitment_serialized |-> 1024, hash |-> 64, response |-> 7,
   gamma1_exponent |-> 19, gamma1_bits |-> 20, max_ones |-> 75, rows |-> 8]
ml_dsa_87_verify_internal ==
  [t1 |-> 8, commitment |-> 8, commitment_bits |-> 4, commitment_serialized |-> 1024, hash |-> 64,
   response |-> 7, gamma1_exponent |-> 19, gamma1_bits |-> 20, max_ones |-> 75, rows |-> 8]
combined_ml_dsa_44_generate_key_pair ==
  [columns |-> 4, s1_s2 |-> 8, t0 |-> 4,
   t1 |-> 4, eta |-> 2, error_bits |-> 3]
combined_ml_dsa_44_key_of_sign_internal ==
  [columns |-> 4, rows |-> 4, s1 |-> 4, s2 |-> 4,
   t0 |-> 4, eta |-> 2, error_bits |-> 3]
combined_ml_dsa_44_sign_internal ==
  [commitment |-> 4, commitment_bits |-> 6, commitment_serialized |-> 768, hash |-> 32, response |-> 4,
   gamma1_exponent |-> 17, gamma1_bits |-> 18, max_ones |-> 80, rows |-> 4]
combined_ml_dsa_44_verify_internal ==
  [t1 |-> 4, commitment |-> 4, commitment_bits |-> 6, commitment_serialized |-> 768, hash |-> 32,
   response |-> 4, gamma1_exponent |-> 17, gamma1_bits |-> 18, max_ones |-> 80, rows |-> 4]
combined_ml_dsa_65_generate_key_pair ==
  [columns |-> 5, s1_s2 |-> 11, t0 |-> 6,
   t1 |-> 6, eta |-> 4, error_bits |-> 4]
combined_ml_dsa_65_key_of_sign_internal ==
  [columns |-> 5, rows |-> 6, s1 |-> 5, s2 |-> 6,
   t0 |-> 6, eta |-> 4, error_bits |-> 4]
combined_ml_dsa_65_sign_internal ==
  [commitment |-> 6, commitment_bits |-> 4, commitment_serialized |-> 768, hash |-> 48, response |-> 5,
   gamma1_exponent |-> 19, gamma1_bits |-> 20, max_ones |-> 55, rows |-> 6]
combined_ml_dsa_65_verify_internal ==
  [t1 |-> 6, commitment |-> 6, commitment_bits |-> 4, commitment_serialized |-> 768, hash |-> 48,
   response |-> 5, gamma1_exponent |-> 19, gamma1_bits |-> 20, max_ones |-> 55, rows |-> 6]
combined_ml_dsa_87_generate_key_pair ==
  [columns |-> 7, s1_s2 |-> 15, t0 |-> 8,
   t1 |-> 8, eta |-> 2, error_bits |-> 3]
combined_ml_dsa_87_key_of_sign_internal ==
  [columns |-> 7, rows |-> 8, s1 |-> 7, s2 |-> 8,
   t0 |-> 8, eta |-> 2, error_bits |-> 3]
combined_ml_dsa_87_sign_internal ==
  [commitment |-> 8, commitment_bits |-> 4, commitment_serialized |-> 1024, hash |-> 64, response |-> 7,
   gamma1_exponent |-> 19, gamma1_bits |-> 20, max_ones |-> 75, rows |-> 8]
combined_ml_dsa_87_verify_internal ==
  [t1 |-> 8, commitment |-> 8, commitment_bits |-> 4, commitment_serialized |-> 1024, hash |-> 64,
   response |-> 7, gamma1_exponent |-> 19, gamma1_bits |-> 20, max_ones |-> 75, rows |-> 8]

Sets == {44, 65, 87}
Bundles == {"ml-dsa", "combined"}

generate_key_pair(bundle, set) ==
  IF bundle = "ml-dsa"
  THEN CASE set = 44 -> ml_dsa_44_generate_key_pair [] set = 65 -> ml_dsa_65_generate_key_pair
         [] set = 87 -> ml_dsa_87_generate_key_pair
  ELSE CASE set = 44 -> combined_ml_dsa_44_generate_key_pair [] set = 65 -> combined_ml_dsa_65_generate_key_pair
         [] set = 87 -> combined_ml_dsa_87_generate_key_pair

key_of_sign_internal(bundle, set) ==
  IF bundle = "ml-dsa"
  THEN CASE set = 44 -> ml_dsa_44_key_of_sign_internal [] set = 65 -> ml_dsa_65_key_of_sign_internal
         [] set = 87 -> ml_dsa_87_key_of_sign_internal
  ELSE CASE set = 44 -> combined_ml_dsa_44_key_of_sign_internal [] set = 65 -> combined_ml_dsa_65_key_of_sign_internal
         [] set = 87 -> combined_ml_dsa_87_key_of_sign_internal

sign_internal(bundle, set) ==
  IF bundle = "ml-dsa"
  THEN CASE set = 44 -> ml_dsa_44_sign_internal [] set = 65 -> ml_dsa_65_sign_internal
         [] set = 87 -> ml_dsa_87_sign_internal
  ELSE CASE set = 44 -> combined_ml_dsa_44_sign_internal [] set = 65 -> combined_ml_dsa_65_sign_internal
         [] set = 87 -> combined_ml_dsa_87_sign_internal

verify_internal(bundle, set) ==
  IF bundle = "ml-dsa"
  THEN CASE set = 44 -> ml_dsa_44_verify_internal [] set = 65 -> ml_dsa_65_verify_internal
         [] set = 87 -> ml_dsa_87_verify_internal
  ELSE CASE set = 44 -> combined_ml_dsa_44_verify_internal [] set = 65 -> combined_ml_dsa_65_verify_internal
         [] set = 87 -> combined_ml_dsa_87_verify_internal

-----------------------------------------------------------------------------
(* Keys, signatures and commitments, of a parameter set, written by one bundle *)
(* and read, or, for a commitment, made again by the same or the other.        *)
(* The hint of a signature is followed in Sign and Verify; here it is bytes.   *)

Objects == [kind : {"verification_key", "signing_key", "signature", "commitment"},
            set : Sets, writer : Bundles, reader : Bundles]

SEED_FOR_A_SIZE == 32
SEED_FOR_SIGNING_SIZE == 32
BYTES_FOR_VERIFICATION_KEY_HASH == 64

Ring(name, format, bits, count) ==
  [name |-> name, copied |-> FALSE, format |-> format, count |-> count,
   size |-> ElementSize(bits)]
Copy(name, size) == [name |-> name, copied |-> TRUE, count |-> 1, size |-> size]

error(eta) == IF eta = 2 THEN "error_2" ELSE "error_4"
gamma1(exponent) == IF exponent = 17 THEN "gamma1_17" ELSE "gamma1_19"
commitment(bits) == IF bits = 4 THEN "commitment_4" ELSE "commitment_6"

verification_key_generate_serialized(t1) ==
  << Copy("seed", SEED_FOR_A_SIZE), Ring("t1", "t1", BITS_IN_UPPER_PART_OF_T, t1) >>

(* s1 and s2 are one array here, and two for who reads them. *)
signing_key_generate_serialized(s1, s2, t0, eta, error_bits) ==
  << Copy("seed_matrix", SEED_FOR_A_SIZE), Copy("seed_signing", SEED_FOR_SIGNING_SIZE),
     Copy("verification_key_hash", BYTES_FOR_VERIFICATION_KEY_HASH),
     Ring("s1", error(eta), error_bits, s1), Ring("s2", error(eta), error_bits, s2),
     Ring("t0", "t0", BITS_IN_LOWER_PART_OF_T, t0) >>

signature_serialize(f) ==
  << Copy("commitment_hash", f.hash),
     Ring("signer_response", gamma1(f.gamma1_exponent), f.gamma1_bits, f.response),
     Copy("hint", f.max_ones + f.rows) >>

commitment_serialize_vector(f) ==
  << Ring("commitment", commitment(f.commitment_bits), f.commitment_bits, f.commitment) >>

(* What is written, in order, and what is read. *)
Parts(object) ==
  LET key == generate_key_pair(object.writer, object.set)
      sign == sign_internal(object.writer, object.set)
  IN CASE object.kind = "verification_key" -> verification_key_generate_serialized(key.t1)
       [] object.kind = "signing_key" ->
            signing_key_generate_serialized(key.columns, key.s1_s2 - key.columns, key.t0, key.eta, key.error_bits)
       [] object.kind = "signature" -> signature_serialize(sign)
       [] object.kind = "commitment" -> commitment_serialize_vector(sign)

ReadParts(object) ==
  LET key == key_of_sign_internal(object.reader, object.set)
      verify == verify_internal(object.reader, object.set)
  IN CASE object.kind = "verification_key" -> verification_key_generate_serialized(verify.t1)
       [] object.kind = "signing_key" ->
            signing_key_generate_serialized(key.s1, key.s2, key.t0, key.eta, key.error_bits)
       [] object.kind = "signature" -> signature_serialize(verify)
       [] object.kind = "commitment" -> commitment_serialize_vector(verify)

Size(object) ==
  LET key == key_of_sign_internal(object.reader, object.set)
      verify == verify_internal(object.reader, object.set)
      sign == sign_internal(object.writer, object.set)
  IN CASE object.kind = "verification_key" ->
            SEED_FOR_A_SIZE + (COEFFICIENTS_IN_RING_ELEMENT * verify.rows * (23 - BITS_IN_LOWER_PART_OF_T)) \div 8
       [] object.kind = "signing_key" ->
            SEED_FOR_A_SIZE + SEED_FOR_SIGNING_SIZE + BYTES_FOR_VERIFICATION_KEY_HASH
              + (key.rows + key.columns) * ElementSize(key.error_bits)
              + key.rows * ElementSize(BITS_IN_LOWER_PART_OF_T)
       [] object.kind = "signature" ->
            verify.hash + verify.response * ElementSize(verify.gamma1_bits) + verify.max_ones + verify.rows
       [] object.kind = "commitment" -> (sign.commitment_serialized * Units) \div 32

(* Where each part is read: the splits of sign_internal, verify_internal and   *)
(* signature_deserialize.                                                      *)
(* Mutant: s1 is taken to have as many elements as s2. *)
StartInSigningKey_Rows(key, name) ==
  LET errors == SEED_FOR_A_SIZE + SEED_FOR_SIGNING_SIZE + BYTES_FOR_VERIFICATION_KEY_HASH
  IN CASE name = "seed_matrix" -> 0
       [] name = "seed_signing" -> SEED_FOR_A_SIZE
       [] name = "verification_key_hash" -> SEED_FOR_A_SIZE + SEED_FOR_SIGNING_SIZE
       [] name = "s1" -> errors
       [] name = "s2" -> errors + ElementSize(key.error_bits) * key.rows
       [] name = "t0" -> errors + ElementSize(key.error_bits) * (key.columns + key.rows)

StartInSigningKey(key, name) ==
  LET errors == SEED_FOR_A_SIZE + SEED_FOR_SIGNING_SIZE + BYTES_FOR_VERIFICATION_KEY_HASH
  IN CASE name = "seed_matrix" -> 0
       [] name = "seed_signing" -> SEED_FOR_A_SIZE
       [] name = "verification_key_hash" -> SEED_FOR_A_SIZE + SEED_FOR_SIGNING_SIZE
       [] name = "s1" -> errors
       [] name = "s2" -> errors + ElementSize(key.error_bits) * key.columns
       [] name = "t0" -> errors + ElementSize(key.error_bits) * (key.columns + key.rows)

Start(object, name) ==
  LET verify == verify_internal(object.reader, object.set)
  IN CASE object.kind = "signing_key" ->
            StartInSigningKey(key_of_sign_internal(object.reader, object.set), name)
       [] object.kind = "verification_key" /\ name = "t1" -> SEED_FOR_A_SIZE
       [] object.kind = "signature" /\ name = "signer_response" -> verify.hash
       [] object.kind = "signature" /\ name = "hint" ->
            verify.hash + ElementSize(verify.gamma1_bits) * verify.response
       [] OTHER -> 0
=============================================================================
