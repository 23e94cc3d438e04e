--------------------------- MODULE MlKemEncoding ---------------------------
(***************************************************************************)
(* ML-KEM's encodings (vector/portable/serialize.rs, serialize.rs): a vector  *)
(* of sixteen coefficients of 1, 4, 5, 10, 11 or 12 bits, packed by groups,    *)
(* and what keys, ciphertexts and messages are made of.                        *)
(***************************************************************************)
EXTENDS BitPacking, SequencesExt

CONSTANTS Rank,   \* K
          Units   \* VECTORS_IN_RING_ELEMENT, 16

UnitSize == 16
COEFFICIENTS_IN_RING_ELEMENT == Units * UnitSize

-----------------------------------------------------------------------------
serialize_1(v) ==
  << v[0] | Shl(v[1], 1) | Shl(v[2], 2) | Shl(v[3], 3)
       | Shl(v[4], 4) | Shl(v[5], 5) | Shl(v[6], 6) | Shl(v[7], 7),
     v[8] | Shl(v[9], 1) | Shl(v[10], 2) | Shl(v[11], 3)
       | Shl(v[12], 4) | Shl(v[13], 5) | Shl(v[14], 6) | Shl(v[15], 7) >>

deserialize_1(b) ==
  [i \in 1 .. 16 |-> Shr(b[(i - 1) \div 8], (i - 1) % 8) & 1]

serialize_4_int(v) ==
  << Shl(v[1], 4) | v[0], Shl(v[3], 4) | v[2], Shl(v[5], 4) | v[4], Shl(v[7], 4) | v[6] >>

serialize_4(v) == serialize_4_int(Slice(v, 0, 8)) \o serialize_4_int(Slice(v, 8, 8))

deserialize_4_int(b) ==
  << b[0] & 15, Shr(b[0], 4) & 15, b[1] & 15, Shr(b[1], 4) & 15,
     b[2] & 15, Shr(b[2], 4) & 15, b[3] & 15, Shr(b[3], 4) & 15 >>

deserialize_4(b) == deserialize_4_int(Slice(b, 0, 4)) \o deserialize_4_int(Slice(b, 4, 4))

serialize_5_int(v) ==
  << U8(v[0] | Shl(v[1], 5)),
     U8(Shr(v[1], 3) | Shl(v[2], 2) | Shl(v[3], 7)),
     U8(Shr(v[3], 1) | Shl(v[4], 4)),
     U8(Shr(v[4], 4) | Shl(v[5], 1) | Shl(v[6], 6)),
     U8(Shr(v[6], 2) | Shl(v[7], 3)) >>

serialize_5(v) == serialize_5_int(Slice(v, 0, 8)) \o serialize_5_int(Slice(v, 8, 8))

deserialize_5_int(b) ==
  << b[0] & 31,
     Shl(b[1] & 3, 3) | Shr(b[0], 5),
     Shr(b[1], 2) & 31,
     Shl(b[2] & 15, 1) | Shr(b[1], 7),
     Shl(b[3] & 1, 4) | Shr(b[2], 4),
     Shr(b[3], 1) & 31,
     Shl(b[4] & 7, 2) | Shr(b[3], 6),
     Shr(b[4], 3) >>

deserialize_5(b) == deserialize_5_int(Slice(b, 0, 5)) \o deserialize_5_int(Slice(b, 5, 5))

serialize_10_int(v) ==
  << U8(v[0] & 255),
     Shl(v[1] & 63, 2) | (Shr(v[0], 8) & 3),
     Shl(v[2] & 15, 4) | (Shr(v[1], 6) & 15),
     Shl(v[3] & 3, 6) | (Shr(v[2], 4) & 63),
     U8(Shr(v[3], 2) & 255) >>

serialize_10(v) ==
  serialize_10_int(Slice(v, 0, 4)) \o serialize_10_int(Slice(v, 4, 4))
    \o serialize_10_int(Slice(v, 8, 4)) \o serialize_10_int(Slice(v, 12, 4))

deserialize_10_int(b) ==
  << Shl(b[1] & 3, 8) | (b[0] & 255),
     Shl(b[2] & 15, 6) | Shr(b[1], 2),
     Shl(b[3] & 63, 4) | Shr(b[2], 4),
     Shl(b[4], 2) | Shr(b[3], 6),
     Shl(b[6] & 3, 8) | (b[5] & 255),
     Shl(b[7] & 15, 6) | Shr(b[6], 2),
     Shl(b[8] & 63, 4) | Shr(b[7], 4),
     Shl(b[9], 2) | Shr(b[8], 6) >>

deserialize_10(b) ==
  deserialize_10_int(Slice(b, 0, 10)) \o deserialize_10_int(Slice(b, 10, 10))

(* Mutant: the mask of the fourth coefficient is one bit short. *)
serialize_11_int_Mask(v) ==
  << U8(v[0]),
     Shl(v[1] & 31, 3) | Shr(v[0], 8),
     Shl(v[2] & 3, 6) | Shr(v[1], 5),
     U8(Shr(v[2], 2) & 255),
     Shl(v[3] & 63, 1) | Shr(v[2], 10),
     Shl(v[4] & 15, 4) | Shr(v[3], 7),
     Shl(v[5] & 1, 7) | Shr(v[4], 4),
     U8(Shr(v[5], 1) & 255),
     Shl(v[6] & 63, 2) | Shr(v[5], 9),
     Shl(v[7] & 7, 5) | Shr(v[6], 6),
     U8(Shr(v[7], 3)) >>

serialize_11_int(v) ==
  << U8(v[0]),
     Shl(v[1] & 31, 3) | Shr(v[0], 8),
     Shl(v[2] & 3, 6) | Shr(v[1], 5),
     U8(Shr(v[2], 2) & 255),
     Shl(v[3] & 127, 1) | Shr(v[2], 10),
     Shl(v[4] & 15, 4) | Shr(v[3], 7),
     Shl(v[5] & 1, 7) | Shr(v[4], 4),
     U8(Shr(v[5], 1) & 255),
     Shl(v[6] & 63, 2) | Shr(v[5], 9),
     Shl(v[7] & 7, 5) | Shr(v[6], 6),
     U8(Shr(v[7], 3)) >>

serialize_11(v) == serialize_11_int(Slice(v, 0, 8)) \o serialize_11_int(Slice(v, 8, 8))

deserialize_11_int(b) ==
  << Shl(b[1] & 7, 8) | b[0],
     Shl(b[2] & 63, 5) | Shr(b[1], 3),
     Shl(b[4] & 1, 10) | Shl(b[3], 2) | Shr(b[2], 6),
     Shl(b[5] & 15, 7) | Shr(b[4], 1),
     Shl(b[6] & 127, 4) | Shr(b[5], 4),
     Shl(b[8] & 3, 9) | Shl(b[7], 1) | Shr(b[6], 7),
     Shl(b[9] & 31, 6) | Shr(b[8], 2),
     Shl(b[10], 3) | Shr(b[9], 5) >>

deserialize_11(b) ==
  deserialize_11_int(Slice(b, 0, 11)) \o deserialize_11_int(Slice(b, 11, 11))

serialize_12_int(v) ==
  << U8(v[0] & 255), U8(Shr(v[0], 8) | Shl(v[1] & 15, 4)), U8(Shr(v[1], 4) & 255) >>

serialize_12(v) ==
  serialize_12_int(Slice(v, 0, 2)) \o serialize_12_int(Slice(v, 2, 2))
    \o serialize_12_int(Slice(v, 4, 2)) \o serialize_12_int(Slice(v, 6, 2))
    \o serialize_12_int(Slice(v, 8, 2)) \o serialize_12_int(Slice(v, 10, 2))
    \o serialize_12_int(Slice(v, 12, 2)) \o serialize_12_int(Slice(v, 14, 2))

deserialize_12_int(b) ==
  << Shl(b[1] & 15, 8) | (b[0] & 255), Shl(b[2], 4) | (Shr(b[1], 4) & 15) >>

deserialize_12(b) ==
  deserialize_12_int(Slice(b, 0, 3)) \o deserialize_12_int(Slice(b, 3, 3))
    \o deserialize_12_int(Slice(b, 6, 3)) \o deserialize_12_int(Slice(b, 9, 3))
    \o deserialize_12_int(Slice(b, 12, 3)) \o deserialize_12_int(Slice(b, 15, 3))
    \o deserialize_12_int(Slice(b, 18, 3)) \o deserialize_12_int(Slice(b, 21, 3))

-----------------------------------------------------------------------------
(* A ring element: its vectors one after the other, 2 * bits bytes each. *)

Bits(format) == format

serialize(bits, v) ==
  CASE bits = 1 -> serialize_1(v) [] bits = 4 -> serialize_4(v)
    [] bits = 5 -> serialize_5(v) [] bits = 10 -> serialize_10(v)
    [] bits = 11 -> serialize_11(v) [] bits = 12 -> serialize_12(v)

deserialize(bits, b) ==
  CASE bits = 1 -> deserialize_1(b) [] bits = 4 -> deserialize_4(b)
    [] bits = 5 -> deserialize_5(b) [] bits = 10 -> deserialize_10(b)
    [] bits = 11 -> deserialize_11(b) [] bits = 12 -> deserialize_12(b)

UnitBytes(bits) == 2 * bits

(* BYTES_PER_RING_ELEMENT, C1_BLOCK_SIZE, C2_SIZE *)
ElementSize(bits) == (COEFFICIENTS_IN_RING_ELEMENT * bits) \div 8

-----------------------------------------------------------------------------
(* Keys, ciphertexts and messages: what is written, in order. *)

SEED_SIZE == 32
H_DIGEST_SIZE == 32
SHARED_SECRET_SIZE == 32

Ring(name, bits, count) ==
  [name |-> name, copied |-> FALSE, format |-> bits, count |-> count, size |-> ElementSize(bits)]
Copy(name, size) == [name |-> name, copied |-> TRUE, count |-> 1, size |-> size]

serialize_public_key_mut ==
  << Ring("t_as_ntt", 12, Rank), Copy("seed_for_A", SEED_SIZE) >>

serialize_kem_secret_key_mut ==
  << Ring("private_key", 12, Rank) >> \o serialize_public_key_mut
    \o << Copy("public_key_hash", H_DIGEST_SIZE),
          Copy("implicit_rejection_value", SHARED_SECRET_SIZE) >>

encrypt(du, dv) == << Ring("u", du, Rank), Ring("v", dv, 1) >>

compress_then_serialize_message == << Ring("message", 1, 1) >>

Parts(object) ==
  CASE object.kind = "public_key" -> serialize_public_key_mut
    [] object.kind = "secret_key" -> serialize_kem_secret_key_mut
    [] object.kind = "ciphertext" -> encrypt(object.du, object.dv)
    [] object.kind = "message" -> compress_then_serialize_message

T_AS_NTT_ENCODED_SIZE == (Rank * COEFFICIENTS_IN_RING_ELEMENT * 12) \div 8
CPA_PKE_PUBLIC_KEY_SIZE == T_AS_NTT_ENCODED_SIZE + SEED_SIZE
CPA_PKE_SECRET_KEY_SIZE == (Rank * COEFFICIENTS_IN_RING_ELEMENT * 12) \div 8
C1_SIZE(du) == ElementSize(du) * Rank

Size(object) ==
  CASE object.kind = "public_key" -> CPA_PKE_PUBLIC_KEY_SIZE
    [] object.kind = "secret_key" ->
         CPA_PKE_SECRET_KEY_SIZE + CPA_PKE_PUBLIC_KEY_SIZE + H_DIGEST_SIZE + SHARED_SECRET_SIZE
    [] object.kind = "ciphertext" -> C1_SIZE(object.du) + ElementSize(object.dv)
    [] object.kind = "message" -> COEFFICIENTS_IN_RING_ELEMENT \div 8

(* Where each part is read: public_key[..T_AS_NTT_ENCODED_SIZE] and the rest   *)
(* in encrypt, unpack_private_key, and ciphertext[..VECTOR_U_ENCODED_SIZE] and  *)
(* the rest in decrypt_unpacked.                                               *)
unpack_private_key(name) ==
  CASE name = "private_key" -> 0
    [] name = "t_as_ntt" -> CPA_PKE_SECRET_KEY_SIZE
    [] name = "seed_for_A" -> CPA_PKE_SECRET_KEY_SIZE + T_AS_NTT_ENCODED_SIZE
    [] name = "public_key_hash" -> CPA_PKE_SECRET_KEY_SIZE + CPA_PKE_PUBLIC_KEY_SIZE
    [] name = "implicit_rejection_value" ->
         CPA_PKE_SECRET_KEY_SIZE + CPA_PKE_PUBLIC_KEY_SIZE + H_DIGEST_SIZE

Start(object, name) ==
  CASE object.kind = "secret_key" -> unpack_private_key(name)
    [] object.kind = "public_key" /\ name = "seed_for_A" -> T_AS_NTT_ENCODED_SIZE
    [] object.kind = "ciphertext" /\ name = "v" -> C1_SIZE(object.du)
    [] OTHER -> 0
=============================================================================
