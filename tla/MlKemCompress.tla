--------------------------- MODULE MlKemCompress ---------------------------
(***************************************************************************)
(* ML-KEM's compression (vector/portable/compress.rs), along one coefficient  *)
(* of a ciphertext or a message: the sender brings it to 0..q-1 and compresses *)
(* it, the receiver decompresses it.  Divisions by q are multiplications by    *)
(* 10321340 and shifts by 35.                                                  *)
(***************************************************************************)
EXTENDS Integers

CONSTANTS CoefficientBits,   \* COEFFICIENT_BITS: 4, 5, 10 or 11, and 1 for messages
          Representatives    \* of coefficients, between -q and q

ASSUME CompressionAssumption ==
  /\ CoefficientBits \subseteq {1, 4, 5, 10, 11}
  /\ Representatives \subseteq -3328 .. 3328

(* FIELD_MODULUS *)
MODULUS == 3329

(* x * y \div 2^35, for x and y of 24 bits, by halves of 12 bits *)
ProductShifted(x, y) ==
  LET xl == x % 4096  xh == x \div 4096
      yl == y % 4096  yh == y \div 4096
  IN (xh * yh + (xh * yl + xl * yh + (xl * yl) \div 4096) \div 4096) \div 2048

(* (a >> 15) & q, added *)
to_unsigned_representative(a) == IF a < 0 THEN a + MODULUS ELSE a

(* x >> 15 of sixteen bits is -1 or 0, and -1 ^ x is -x - 1. *)
compress_message_coefficient(x) ==
  LET shifted == 1664 - x
      shifted_to_positive == IF shifted < 0 THEN -shifted - 1 ELSE shifted
  IN IF shifted_to_positive - 832 < 0 THEN 1 ELSE 0

(* Mutant: rounds down. *)
compress_ciphertext_coefficient_Down(bits, x) ==
  ProductShifted(x * 2^bits, 10321340) % 2^bits

compress_ciphertext_coefficient(bits, x) ==
  ProductShifted(x * 2^bits + 1664, 10321340) % 2^bits

compress(bits, x) ==
  IF bits = 1 THEN compress_message_coefficient(x)
              ELSE compress_ciphertext_coefficient(bits, x)

decompress_1(y) == IF y = 0 THEN 0 ELSE 1665

decompress_ciphertext_coefficient(bits, y) ==
  (y * MODULUS * 2 + 2^bits) \div 2^(bits + 1)

decompress(bits, y) ==
  IF bits = 1 THEN decompress_1(y) ELSE decompress_ciphertext_coefficient(bits, y)

-----------------------------------------------------------------------------
VARIABLES step, factor, coefficient, compressed, decompressed
compression == <<step, factor, coefficient, compressed, decompressed>>

CompressionInit ==
  /\ step = "reduced"
  /\ factor \in CoefficientBits
  /\ coefficient \in Representatives
  /\ compressed = 0 /\ decompressed = 0

Compress ==
  /\ step = "reduced"
  /\ compressed' = compress(factor, to_unsigned_representative(coefficient))
  /\ step' = "compressed"
  /\ UNCHANGED <<factor, coefficient, decompressed>>

Decompress ==
  /\ step = "compressed"
  /\ decompressed' = decompress(factor, compressed)
  /\ step' = "decompressed"
  /\ UNCHANGED <<factor, coefficient, compressed>>

CompressionNext == Compress \/ Decompress

CompressionSpec == CompressionInit /\ [][CompressionNext]_compression

-----------------------------------------------------------------------------
(* The nearest integer to n / m, the greater of two, as FIPS 203 has it. *)
Rounded(n, m) == (2 * n + m) \div (2 * m)

Abs(x) == IF x < 0 THEN -x ELSE x
Centred(x) ==
  LET r == x % MODULUS IN IF r > MODULUS \div 2 THEN r - MODULUS ELSE r

(***************************************************************************)
(* Every coefficient, in either representative, is compressed to the nearest  *)
(* multiple as FIPS 203 has it and decompressed to the nearest coefficient,    *)
(* which compresses to itself again and is no further from the first than the  *)
(* decryption error allows (compress.rs: the multiplication that stands for    *)
(* the division is exact, and the message's two masks are a rounding).         *)
(***************************************************************************)
CompressesRight ==
  /\ step \in {"compressed", "decompressed"} =>
       compressed = Rounded(2^factor * (coefficient % MODULUS), MODULUS) % 2^factor
  /\ step = "decompressed" =>
       /\ decompressed = Rounded(MODULUS * compressed, 2^factor)
       /\ decompressed \in 0 .. MODULUS - 1
       /\ compress(factor, decompressed) = compressed
       /\ Abs(Centred(decompressed - coefficient)) <= Rounded(MODULUS, 2^(factor + 1))
=============================================================================
