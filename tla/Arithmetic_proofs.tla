-------------------------- MODULE Arithmetic_proofs --------------------------
(***************************************************************************)
(* Proofs about coefficients and about what is signed.  ML-DSA's rounding is   *)
(* right for every coefficient, and every c*s2 and c*t0 within the bounds the   *)
(* code tests; ML-KEM's compression is that of FIPS 203 at every factor; what   *)
(* a signature is over can be taken apart in one way only, for every context,  *)
(* every message and every length of the identifier; and the transforms of     *)
(* both schemes stay within their integers for every size of matrix.           *)
(***************************************************************************)
EXTENDS Rounding, MlKemCompress, MessageBinding, Transforms, SequenceTheorems,
        WellFoundedInduction, TLAPS

LEMMA InRange ==
  ASSUME NEW a \in Int, NEW b \in Int, NEW x \in Int
  PROVE  x \in a .. b <=> a <= x /\ x <= b
OBVIOUS

-----------------------------------------------------------------------------
(* The functions of arithmetic.rs, one by one. *)

LEMMA UnsignedIs ==
  ASSUME NEW r \in Int, IsCoefficient(r)
  PROVE  /\ Unsigned(r) \in Int /\ 0 <= Unsigned(r) /\ Unsigned(r) < FIELD_MODULUS
         /\ \E a \in {0, 1} : Unsigned(r) = r + a * FIELD_MODULUS
<1>1. CASE r < 0
  BY <1>1, SMT DEF IsCoefficient, Unsigned, FIELD_MODULUS
<1>2. CASE ~(r < 0)
  BY <1>2, SMT DEF IsCoefficient, Unsigned, FIELD_MODULUS
<1> QED
  BY <1>1, <1>2

(* t1 fits ten bits and t0 thirteen. *)
LEMMA Power2RoundIs ==
  ASSUME NEW u \in Int, 0 <= u, u < FIELD_MODULUS, NEW p \in Int, p = (u - 1 + 4096) \div 8192
  PROVE  0 <= p /\ p <= 1023 /\ -4095 <= u - p * 8192 /\ u - p * 8192 <= 4096
BY SMT DEF FIELD_MODULUS

(* What the verifier makes of t1. *)
LEMMA ShiftLeftIs ==
  ASSUME NEW p \in Int, 0 <= p, p <= 1023
  PROVE  /\ shift_left_then_reduce(p) \in Int
         /\ IsCoefficient(shift_left_then_reduce(p))
         /\ \E a \in Int : shift_left_then_reduce(p) = p * 8192 - a * FIELD_MODULUS
<1> DEFINE a == (p * 8192 + 4194304) \div 8388608
<1>1. a \in Int /\ 8388608 * a <= p * 8192 + 4194304 /\ p * 8192 + 4194304 < 8388608 * a + 8388608
  BY SMT
<1>2. shift_left_then_reduce(p) = p * 8192 - a * FIELD_MODULUS
  BY DEF shift_left_then_reduce, reduce_element
<1> HIDE DEF a
<1> QED
  BY <1>1, <1>2, SMT DEF IsCoefficient, FIELD_MODULUS

-----------------------------------------------------------------------------
(* decompose_element *)

(* What a decomposition is: the parts, and the multiple of q that is left out.  *)
Decomposed(g, r, r1, r0) ==
  /\ r1 \in Int /\ 0 <= r1 /\ r1 < Highs(g)
  /\ r0 \in Int /\ -g <= r0 /\ r0 <= g
  /\ r0 = -g => r1 = 0
  /\ \E a \in Int : r = r1 * (2 * g) + r0 + a * FIELD_MODULUS

(* 11275 / 2^24 divides by 1488, rounding at the half, over all the values that  *)
(* ceil_of_r_by_128 may have.                                                  *)
LEMMA DecomposeSmall ==
  ASSUME NEW r \in Int, IsCoefficient(r)
  PROVE  Decomposed(GAMMA2_V95_232, r, decompose_element(GAMMA2_V95_232, r).r1,
                    decompose_element(GAMMA2_V95_232, r).r0)
<1> DEFINE u == Unsigned(r)
           c == (u + 127) \div 128
           m == (c * 11275 + 8388608) \div 16777216
           h == IF m > 43 THEN 0 ELSE m
           l == u - h * (GAMMA2_V95_232 * 2)
           s == IF l > Halfway THEN l - FIELD_MODULUS ELSE l
<1>1. /\ u \in Int /\ 0 <= u /\ u < FIELD_MODULUS
      /\ \E a \in {0, 1} : u = r + a * FIELD_MODULUS
  BY UnsignedIs
<1>2. decompose_element(GAMMA2_V95_232, r) = [r0 |-> s, r1 |-> h]
  BY DEF decompose_element, HighPart
<1> HIDE DEF u
<1>3. c \in Int
  BY <1>1, SMT
<1>3a. c = (u + 127) \div 128
  OBVIOUS
<1> HIDE DEF c
<1>4. 0 <= c /\ c <= 65473 /\ 128 * c - 128 < u /\ u <= 128 * c
  BY <1>1, <1>3, <1>3a, SMT DEF FIELD_MODULUS
<1>5. m \in Int
  BY <1>3, SMT
<1>5a. m = (c * 11275 + 8388608) \div 16777216
  OBVIOUS
<1> HIDE DEF m
<1>6. 0 <= m /\ m <= 44 /\ 1488 * m - 744 < c /\ c <= 1488 * m + 744
  BY <1>3, <1>4, <1>5, <1>5a, SMT
<1>7. PICK a \in {0, 1} : u = r + a * FIELD_MODULUS
  BY <1>1
<1>8. CASE m > 43
  <2>1. h = 0 /\ l = u
    BY <1>1, <1>8, SMT DEF GAMMA2_V95_232
  <2>2. s = u - FIELD_MODULUS
    BY <1>1, <1>3, <1>4, <1>5, <1>6, <1>8, <2>1, SMT DEF Halfway, FIELD_MODULUS
  <2>3. -95232 <= s /\ s <= 95232 /\ s \in Int
    BY <1>1, <1>3, <1>4, <1>5, <1>6, <1>8, <2>2, SMT DEF FIELD_MODULUS
  <2> HIDE DEF h, l, s
  <2>4. r = h * (2 * 95232) + s + (1 - a) * FIELD_MODULUS /\ 1 - a \in Int
    BY <1>1, <1>7, <2>1, <2>2, SMT DEF FIELD_MODULUS
  <2>5. Decomposed(GAMMA2_V95_232, r, h, s)
    BY <2>1, <2>3, <2>4, SMT DEF Decomposed, Highs, GAMMA2_V95_232
  <2> QED
    BY <1>2, <2>5
<1>9. CASE ~(m > 43)
  <2>1. h = m /\ l = u - m * 190464
    BY <1>9, SMT DEF GAMMA2_V95_232
  <2>2. -95232 < l /\ l <= 95232 /\ l \in Int
    BY <1>1, <1>3, <1>4, <1>5, <1>6, <2>1, SMT
  <2>3. s = l
    BY <2>2, SMT DEF Halfway, FIELD_MODULUS
  <2> HIDE DEF h, l, s
  <2>4. r = h * (2 * 95232) + s + (0 - a) * FIELD_MODULUS /\ 0 - a \in Int
    BY <1>1, <1>5, <1>7, <2>1, <2>2, <2>3, SMT DEF FIELD_MODULUS
  <2>5. Decomposed(GAMMA2_V95_232, r, h, s)
    BY <1>5, <1>6, <1>9, <2>1, <2>2, <2>3, <2>4, SMT DEF Decomposed, Highs, GAMMA2_V95_232
  <2> QED
    BY <1>2, <2>5
<1> QED
  BY <1>8, <1>9

(* 1025 / 2^22 divides by 4092, rounding at the half, over all the values that  *)
(* ceil_of_r_by_128 may have.                                                  *)
LEMMA DecomposeLarge ==
  ASSUME NEW r \in Int, IsCoefficient(r)
  PROVE  Decomposed(GAMMA2_V261_888, r, decompose_element(GAMMA2_V261_888, r).r1,
                    decompose_element(GAMMA2_V261_888, r).r0)
<1> DEFINE u == Unsigned(r)
           c == (u + 127) \div 128
           m == (c * 1025 + 2097152) \div 4194304
           h == m % 16
           l == u - h * (GAMMA2_V261_888 * 2)
           s == IF l > Halfway THEN l - FIELD_MODULUS ELSE l
<1>1. /\ u \in Int /\ 0 <= u /\ u < FIELD_MODULUS
      /\ \E a \in {0, 1} : u = r + a * FIELD_MODULUS
  BY UnsignedIs
<1>2. decompose_element(GAMMA2_V261_888, r) = [r0 |-> s, r1 |-> h]
  BY SMT DEF decompose_element, HighPart, GAMMA2_V261_888, GAMMA2_V95_232
<1> HIDE DEF u
<1>3. c \in Int
  BY <1>1, SMT
<1>3a. c = (u + 127) \div 128
  OBVIOUS
<1> HIDE DEF c
<1>4. 0 <= c /\ c <= 65473 /\ 128 * c - 128 < u /\ u <= 128 * c
  BY <1>1, <1>3, <1>3a, SMT DEF FIELD_MODULUS
<1>5. m \in Int
  BY <1>3, SMT
<1>5a. m = (c * 1025 + 2097152) \div 4194304
  OBVIOUS
<1> HIDE DEF m
<1>6. 0 <= m /\ m <= 16 /\ 4092 * m - 2046 < c /\ c <= 4092 * m + 2046
  BY <1>3, <1>4, <1>5, <1>5a, SMT
<1>7. PICK a \in {0, 1} : u = r + a * FIELD_MODULUS
  BY <1>1
<1>8. CASE m = 16
  <2>1. h = 0 /\ l = u
    BY <1>1, <1>8, SMT DEF GAMMA2_V261_888
  <2>2. s = u - FIELD_MODULUS
    BY <1>1, <1>3, <1>4, <1>5, <1>6, <1>8, <2>1, SMT DEF Halfway, FIELD_MODULUS
  <2>3. -261888 <= s /\ s <= 261888 /\ s \in Int
    BY <1>1, <1>3, <1>4, <1>5, <1>6, <1>8, <2>2, SMT DEF FIELD_MODULUS
  <2> HIDE DEF h, l, s
  <2>4. r = h * (2 * 261888) + s + (1 - a) * FIELD_MODULUS /\ 1 - a \in Int
    BY <1>1, <1>7, <2>1, <2>2, SMT DEF FIELD_MODULUS
  <2>5. Decomposed(GAMMA2_V261_888, r, h, s)
    BY <2>1, <2>3, <2>4, SMT DEF Decomposed, Highs, GAMMA2_V261_888, GAMMA2_V95_232
  <2> QED
    BY <1>2, <2>5
<1>9. CASE m # 16
  <2>1. h = m /\ l = u - m * 523776
    BY <1>5, <1>6, <1>9, SMT DEF GAMMA2_V261_888
  <2>2. -261888 < l /\ l <= 261888 /\ l \in Int
    BY <1>1, <1>3, <1>4, <1>5, <1>6, <2>1, SMT
  <2>3. s = l
    BY <2>2, SMT DEF Halfway, FIELD_MODULUS
  <2> HIDE DEF h, l, s
  <2>4. r = h * (2 * 261888) + s + (0 - a) * FIELD_MODULUS /\ 0 - a \in Int
    BY <1>1, <1>5, <1>7, <2>1, <2>2, <2>3, SMT DEF FIELD_MODULUS
  <2>5. Decomposed(GAMMA2_V261_888, r, h, s)
    BY <1>5, <1>6, <1>9, <2>1, <2>2, <2>3, <2>4, SMT
       DEF Decomposed, Highs, GAMMA2_V261_888, GAMMA2_V95_232
  <2> QED
    BY <1>2, <2>5
<1> QED
  BY <1>8, <1>9

LEMMA DecomposeIs ==
  ASSUME NEW g \in Gammas, NEW r \in Int, IsCoefficient(r)
  PROVE  Decomposed(g, r, decompose_element(g, r).r1, decompose_element(g, r).r0)
BY RoundingAssumption, DecomposeSmall, DecomposeLarge, Zenon

-----------------------------------------------------------------------------
(* use_one_hint *)

(* Two coefficients of high parts w1 and d1, as far apart as the hint can say.  *)
Apart(g, w1s, w0s, d1, d0, n) ==
  /\ 0 <= w1s /\ w1s < Highs(g) /\ 0 <= d1 /\ d1 < Highs(g)
  /\ -(2 * g) < w0s /\ w0s < 2 * g /\ -g <= d0 /\ d0 <= g
  /\ d0 = -g => d1 = 0
  /\ (w1s - d1) * (2 * g) + w0s - d0 = n * FIELD_MODULUS

Hinted(g, d1, d0, h) ==
  CASE h = 0 -> d1
    [] h # 0 /\ d0 > 0 -> (d1 + h) % Highs(g)
    [] OTHER -> (d1 - h) % Highs(g)

LEMMA HintSmall ==
  ASSUME NEW w1s \in Int, NEW w0s \in Int, NEW d1 \in Int, NEW d0 \in Int, NEW n \in Int,
         Apart(GAMMA2_V95_232, w1s, w0s, d1, d0, n)
  PROVE  Hinted(GAMMA2_V95_232, d1, d0, compute_one_hint(w0s, w1s, GAMMA2_V95_232)) = w1s
<1>1. /\ 0 <= w1s /\ w1s < 44 /\ 0 <= d1 /\ d1 < 44
      /\ -190464 < w0s /\ w0s < 190464 /\ -95232 <= d0 /\ d0 <= 95232
      /\ d0 = -95232 => d1 = 0
      /\ (w1s - d1) * 190464 + w0s - d0 = n * 8380417
  BY SMT DEF Apart, Highs, GAMMA2_V95_232, FIELD_MODULUS
<1>2. \/ n = 0 /\ w1s = d1 /\ w0s = d0
      \/ n = 0 /\ w1s = d1 + 1 /\ d0 = w0s + 190464
      \/ n = 0 /\ w1s = d1 - 1 /\ d0 = w0s - 190464
      \/ n = 1 /\ w1s = 43 /\ d1 = 0 /\ d0 = w0s - 190465
      \/ n = -1 /\ w1s = 0 /\ d1 = 43 /\ d0 = w0s + 190465
  BY <1>1, SMTT(60)
<1> QED
  BY <1>1, <1>2, SMT DEF Hinted, compute_one_hint, Highs, GAMMA2_V95_232

LEMMA HintLarge ==
  ASSUME NEW w1s \in Int, NEW w0s \in Int, NEW d1 \in Int, NEW d0 \in Int, NEW n \in Int,
         Apart(GAMMA2_V261_888, w1s, w0s, d1, d0, n)
  PROVE  Hinted(GAMMA2_V261_888, d1, d0, compute_one_hint(w0s, w1s, GAMMA2_V261_888)) = w1s
<1>1. /\ 0 <= w1s /\ w1s < 16 /\ 0 <= d1 /\ d1 < 16
      /\ -523776 < w0s /\ w0s < 523776 /\ -261888 <= d0 /\ d0 <= 261888
      /\ d0 = -261888 => d1 = 0
      /\ (w1s - d1) * 523776 + w0s - d0 = n * 8380417
  BY SMT DEF Apart, Highs, GAMMA2_V95_232, GAMMA2_V261_888, FIELD_MODULUS
<1>2. \/ n = 0 /\ w1s = d1 /\ w0s = d0
      \/ n = 0 /\ w1s = d1 + 1 /\ d0 = w0s + 523776
      \/ n = 0 /\ w1s = d1 - 1 /\ d0 = w0s - 523776
      \/ n = 1 /\ w1s = 15 /\ d1 = 0 /\ d0 = w0s - 523777
      \/ n = -1 /\ w1s = 0 /\ d1 = 15 /\ d0 = w0s + 523777
  BY <1>1, SMTT(60)
<1> QED
  BY <1>1, <1>2, SMT DEF Hinted, compute_one_hint, Highs, GAMMA2_V95_232, GAMMA2_V261_888

-----------------------------------------------------------------------------
(* The inductive invariant *)

InputsInv ==
  /\ gamma2 \in Gammas
  /\ t \in Int /\ IsCoefficient(t)
  /\ w \in Int /\ IsCoefficient(w)
  /\ cs2 \in Int /\ ct0 \in Int

(* Between the steps, w0 is the low part as far as it has been moved.           *)
SignerInv ==
  /\ pc = "committed" => Decomposed(gamma2, w, w1, w0)
  /\ pc = "responded" =>
       Decomposed(gamma2, w, w1, w0 + cs2) /\ w0 \in Int /\ -gamma2 < w0 /\ w0 < gamma2
  /\ pc = "signed" =>
       /\ Decomposed(gamma2, w, w1, w0 + cs2 - ct0)
       /\ w0 \in Int /\ -(2 * gamma2) < w0 /\ w0 < 2 * gamma2
       /\ hint = compute_one_hint(w0, w1, gamma2)

RoundingInv == InputsInv /\ SignerInv /\ KeySplits /\ HintRecovers

LEMMA GammaIs ==
  ASSUME NEW g \in Gammas
  PROVE  g \in {95232, 261888} /\ g \in Int
BY RoundingAssumption DEF GAMMA2_V95_232, GAMMA2_V261_888

LEMMA Multiple ==
  ASSUME NEW x \in Int, NEW a \in Int, x = a * FIELD_MODULUS
  PROVE  x % FIELD_MODULUS = 0
BY SMT DEF FIELD_MODULUS

LEMMA RoundingBegins == Init => RoundingInv
<1> SUFFICES ASSUME Init PROVE RoundingInv
  OBVIOUS
<1>1. gamma2 \in Gammas /\ pc \in {"key", "commit"}
  BY DEF Init
<1>2. 0 \in Int /\ IsCoefficient(0)
  BY SMT DEF IsCoefficient, FIELD_MODULUS
<1>3. t \in Int /\ IsCoefficient(t) /\ w \in Int /\ IsCoefficient(w)
  BY <1>1, <1>2, RoundingAssumption DEF Init, AreCoefficients
<1>4. ct0 \in Int
  BY <1>1, <1>2, RoundingAssumption DEF Init, AreCoefficients
<1>5. CS2s[gamma2] \subseteq Int
  BY <1>1, RoundingAssumption
<1>6. cs2 \in Int
  BY <1>1, <1>2, <1>5 DEF Init
<1> QED
  BY <1>1, <1>3, <1>4, <1>6 DEF RoundingInv, InputsInv, SignerInv, KeySplits, HintRecovers

LEMMA KeepsInputs ==
  ASSUME InputsInv, UNCHANGED inputs PROVE InputsInv'
BY DEF InputsInv, inputs, IsCoefficient, FIELD_MODULUS

LEMMA Power2RoundInv ==
  ASSUME RoundingInv, Power2Round PROVE RoundingInv'
<1>1. InputsInv'
  BY KeepsInputs DEF RoundingInv, Power2Round
<1> DEFINE u == Unsigned(t)
           p == (u - 1 + 4096) \div 8192
<1>2. /\ u \in Int /\ 0 <= u /\ u < FIELD_MODULUS
      /\ \E a \in {0, 1} : u = t + a * FIELD_MODULUS
  BY UnsignedIs DEF RoundingInv, InputsInv
<1>3. t1' = p /\ t0' = u - p * 8192 /\ pc' = "split" /\ t' = t
  BY DEF Power2Round, power2round_element, inputs
<1> HIDE DEF u
<1>4. p \in Int /\ 0 <= p /\ p <= 1023 /\ -4095 <= u - p * 8192 /\ u - p * 8192 <= 4096
  BY <1>2, SMT DEF FIELD_MODULUS
<1> HIDE DEF p
<1>5. /\ shift_left_then_reduce(p) \in Int
      /\ IsCoefficient(shift_left_then_reduce(p))
      /\ \E a \in Int : shift_left_then_reduce(p) = p * 8192 - a * FIELD_MODULUS
  BY <1>4, ShiftLeftIs
<1>6. PICK a \in Int : shift_left_then_reduce(p) = p * 8192 - a * FIELD_MODULUS
  BY <1>5
<1>7. PICK b \in {0, 1} : u = t + b * FIELD_MODULUS
  BY <1>2
<1>8. t \in Int
  BY DEF RoundingInv, InputsInv
<1>9. /\ shift_left_then_reduce(p) + (u - p * 8192) - t = (b - a) * FIELD_MODULUS
      /\ b - a \in Int
      /\ shift_left_then_reduce(p) + (u - p * 8192) - t \in Int
  BY <1>2, <1>4, <1>5, <1>6, <1>7, <1>8, SMT DEF FIELD_MODULUS
<1>10. (shift_left_then_reduce(p) + (u - p * 8192) - t) % FIELD_MODULUS = 0
  BY <1>9, Multiple
<1>11. t1' \in 0 .. 1023 /\ t0' \in -4095 .. 4096
  <2>1. t0' \in Int /\ -4095 <= t0' /\ t0' <= 4096
    BY <1>2, <1>3, <1>4, SMT
  <2>2. t0' \in -4095 .. 4096
    BY <2>1
  <2>3. t1' \in 0 .. 1023
    BY <1>3, <1>4
  <2> QED
    BY <2>2, <2>3
<1>12. KeySplits'
  <2>1. shift_left_then_reduce(t1)' = shift_left_then_reduce(p)
    BY <1>3, SMT DEF shift_left_then_reduce, reduce_element, FIELD_MODULUS
  <2> DEFINE back == shift_left_then_reduce(p)
             difference == back + (u - p * 8192) - t
  <2>2. back \in Int /\ IsCoefficient(back) /\ difference % FIELD_MODULUS = 0
    BY <1>5, <1>10
  <2>3. (shift_left_then_reduce(t1) + t0 - t)' = difference
    BY <1>3, <2>1
  <2> HIDE DEF difference, back
  <2>4. back = shift_left_then_reduce(t1)'
    BY <2>1 DEF back
  <2>5. ((shift_left_then_reduce(t1) + t0 - t) % FIELD_MODULUS)' = 0
    BY <2>2, <2>3, SMT DEF FIELD_MODULUS
  <2>6. IsCoefficient(shift_left_then_reduce(t1))'
    BY <2>2, <2>4, SMT DEF IsCoefficient, FIELD_MODULUS
  <2>7. t % FIELD_MODULUS = u
    BY <1>2, <1>7, <1>8, SMT DEF FIELD_MODULUS
  <2>8. (t % FIELD_MODULUS)' = u
    BY <1>3, <2>7 DEF FIELD_MODULUS
  <2>9. p * 8192 + (u - p * 8192) = u
    BY <1>2, <1>4, SMT
  <2>10. (t1 * 8192 + t0 = t % FIELD_MODULUS)'
    BY <1>3, <2>8, <2>9
  <2>11. u - p * 8192 = 4096 <=> u % 8192 = 4096
    BY <1>2, <1>4, SMT
  <2>12. (t0 = 4096 <=> (t % FIELD_MODULUS) % 8192 = 4096)'
    BY <1>3, <2>8, <2>11
  <2> QED
    BY <1>11, <2>5, <2>6, <2>10, <2>12 DEF KeySplits
<1>13. SignerInv' /\ HintRecovers'
  BY <1>3 DEF SignerInv, HintRecovers
<1> QED
  BY <1>1, <1>12, <1>13 DEF RoundingInv

LEMMA CommitInv ==
  ASSUME RoundingInv, Commit PROVE RoundingInv'
<1>1. InputsInv'
  BY KeepsInputs DEF RoundingInv, Commit
<1>2. pc' = "committed" /\ gamma2' = gamma2 /\ w' = w
  BY DEF Commit, inputs
<1>3. /\ w0' = decompose_element(gamma2, w).r0
      /\ w1' = decompose_element(gamma2, w).r1
  BY DEF Commit
<1>4. Decomposed(gamma2, w, w1', w0')
  BY <1>3, DecomposeIs DEF RoundingInv, InputsInv
<1>5. SignerInv'
  BY <1>2, <1>4 DEF SignerInv, Decomposed, Highs, FIELD_MODULUS, GAMMA2_V95_232
<1> QED
  BY <1>1, <1>2, <1>5 DEF RoundingInv, KeySplits, HintRecovers

LEMMA RespondInv ==
  ASSUME RoundingInv, Respond PROVE RoundingInv'
<1>1. InputsInv'
  BY KeepsInputs DEF RoundingInv, Respond
<1>2. /\ pc = "committed" /\ pc' \in {"rejected", "responded"}
      /\ gamma2' = gamma2 /\ w' = w /\ cs2' = cs2 /\ w1' = w1 /\ w0' = w0 - cs2
  BY DEF Respond, inputs
<1>3. Decomposed(gamma2, w, w1, w0) /\ gamma2 \in Gammas /\ cs2 \in Int /\ gamma2 \in Int
  BY <1>2, GammaIs DEF RoundingInv, SignerInv, InputsInv
<1>4. w0 \in Int /\ w0' \in Int /\ w0' + cs2 = w0
  BY <1>2, <1>3 DEF Decomposed
<1>5. Beta[gamma2] \in Nat
  BY <1>3, RoundingAssumption
<1>6. CASE pc' = "responded"
  <2>1. ~norm_exceeds(w0', gamma2 - Beta[gamma2])
    BY <1>6 DEF Respond
  <2>2. -gamma2 < w0' /\ w0' < gamma2
    BY <1>3, <1>4, <1>5, <2>1, SMT DEF norm_exceeds
  <2>3. Decomposed(gamma2', w', w1', w0' + cs2')
    BY <1>2, <1>3, <1>4
  <2>4. SignerInv'
    BY <1>2, <1>4, <1>6, <2>2, <2>3 DEF SignerInv, Decomposed, Highs, FIELD_MODULUS, GAMMA2_V95_232
  <2> QED
    BY <1>1, <1>6, <2>4 DEF RoundingInv, KeySplits, HintRecovers
<1>7. CASE pc' = "rejected"
  BY <1>1, <1>7 DEF RoundingInv, SignerInv, KeySplits, HintRecovers
<1> QED
  BY <1>2, <1>6, <1>7

LEMMA MakeHintInv ==
  ASSUME RoundingInv, MakeHint PROVE RoundingInv'
<1>1. InputsInv'
  BY KeepsInputs DEF RoundingInv, MakeHint
<1>2. /\ pc = "responded" /\ pc' \in {"rejected", "signed"}
      /\ gamma2' = gamma2 /\ w' = w /\ cs2' = cs2 /\ ct0' = ct0 /\ w1' = w1
  BY DEF MakeHint, inputs
<1>3. /\ Decomposed(gamma2, w, w1, w0 + cs2) /\ w0 \in Int /\ -gamma2 < w0 /\ w0 < gamma2
      /\ gamma2 \in Int /\ cs2 \in Int /\ ct0 \in Int
  BY <1>2, GammaIs DEF RoundingInv, SignerInv, InputsInv
<1>4. CASE pc' = "signed"
  <2>1. /\ ~norm_exceeds(ct0, gamma2) /\ w0' = w0 + ct0
        /\ hint' = compute_one_hint(w0', w1, gamma2)
    BY <1>4 DEF MakeHint
  <2>2. -gamma2 < ct0 /\ ct0 < gamma2
    BY <1>3, <2>1, SMT DEF norm_exceeds
  <2>3. /\ w0' \in Int /\ -(2 * gamma2) < w0' /\ w0' < 2 * gamma2
        /\ w0' + cs2 - ct0 = w0 + cs2
    BY <1>3, <2>1, <2>2, SMT
  <2>4. Decomposed(gamma2', w', w1', w0' + cs2' - ct0')
    BY <1>2, <1>3, <2>3
  <2>5. hint' = compute_one_hint(w0', w1', gamma2')
    BY <1>2, <2>1
  <2>6. SignerInv'
    BY <1>2, <1>4, <2>3, <2>4, <2>5
       DEF SignerInv, Decomposed, Highs, FIELD_MODULUS, GAMMA2_V95_232, compute_one_hint
  <2> QED
    BY <1>1, <1>4, <2>6 DEF RoundingInv, KeySplits, HintRecovers
<1>5. CASE pc' = "rejected"
  BY <1>1, <1>5 DEF RoundingInv, SignerInv, KeySplits, HintRecovers
<1> QED
  BY <1>2, <1>4, <1>5

(* The verifier's coefficient is a multiple of q away from w1 * 2 * gamma2 + w0. *)
LEMMA ApartIs ==
  ASSUME NEW g \in Gammas, NEW x \in Int, NEW r \in Int, NEW k \in Int, NEW moved \in Int,
         NEW w1s, NEW w0s \in Int, NEW d1, NEW d0,
         Decomposed(g, x, w1s, w0s + moved), Decomposed(g, r, d1, d0),
         r = x - moved + k * FIELD_MODULUS, -(2 * g) < w0s, w0s < 2 * g
  PROVE  \E n \in Int : Apart(g, w1s, w0s, d1, d0, n)
<1>1. /\ w1s \in Int /\ 0 <= w1s /\ w1s < Highs(g)
      /\ d1 \in Int /\ 0 <= d1 /\ d1 < Highs(g)
      /\ d0 \in Int /\ -g <= d0 /\ d0 <= g
      /\ d0 = -g => d1 = 0
  BY DEF Decomposed
<1>2. PICK b \in Int : x = w1s * (2 * g) + (w0s + moved) + b * FIELD_MODULUS
  BY DEF Decomposed
<1>3. PICK a \in Int : r = d1 * (2 * g) + d0 + a * FIELD_MODULUS
  BY DEF Decomposed
<1>4. g = 95232 \/ g = 261888
  BY GammaIs
<1>5. (w1s - d1) * (2 * g) + w0s - d0 = (a - b - k) * FIELD_MODULUS
  <2>1. CASE g = 95232
    BY <1>1, <1>2, <1>3, <2>1, SMT DEF FIELD_MODULUS
  <2>2. CASE g = 261888
    BY <1>1, <1>2, <1>3, <2>2, SMT DEF FIELD_MODULUS
  <2> QED
    BY <1>4, <2>1, <2>2
<1>6. a - b - k \in Int
  OBVIOUS
<1>7. Apart(g, w1s, w0s, d1, d0, a - b - k)
  BY <1>1, <1>5 DEF Apart
<1> QED
  BY <1>6, <1>7

LEMMA UseHintInv ==
  ASSUME RoundingInv, UseHint PROVE RoundingInv'
<1>1. InputsInv'
  BY KeepsInputs DEF RoundingInv, UseHint
<1>2. pc = "signed" /\ pc' = "verified" /\ w1' = w1
  BY DEF UseHint
<1>3. /\ gamma2 \in Gammas /\ gamma2 \in Int /\ w \in Int /\ cs2 \in Int /\ ct0 \in Int
      /\ Decomposed(gamma2, w, w1, w0 + cs2 - ct0)
      /\ w0 \in Int /\ -(2 * gamma2) < w0 /\ w0 < 2 * gamma2
      /\ hint = compute_one_hint(w0, w1, gamma2)
  BY <1>2, GammaIs DEF RoundingInv, SignerInv, InputsInv
<1>4. PICK k \in -2 .. 2 :
        LET r == w - cs2 + ct0 + k * FIELD_MODULUS
        IN IsCoefficient(r) /\ recovered' = use_one_hint(gamma2, r, hint)
  BY DEF UseHint
<1> DEFINE r == w - cs2 + ct0 + k * FIELD_MODULUS
           d == decompose_element(gamma2, r)
<1>5. r \in Int /\ cs2 - ct0 \in Int /\ r = w - (cs2 - ct0) + k * FIELD_MODULUS
      /\ w0 + (cs2 - ct0) = w0 + cs2 - ct0
  BY <1>3, SMT DEF FIELD_MODULUS
<1>6. IsCoefficient(r) /\ recovered' = use_one_hint(gamma2, r, hint)
  BY <1>4
<1>7. recovered' = Hinted(gamma2, d.r1, d.r0, hint)
  BY <1>6 DEF use_one_hint, Hinted
<1> HIDE DEF r
<1>8. Decomposed(gamma2, r, d.r1, d.r0)
  BY <1>3, <1>5, <1>6, DecomposeIs
<1> HIDE DEF d
<1>9. PICK n \in Int : Apart(gamma2, w1, w0, d.r1, d.r0, n)
  <2>1. Decomposed(gamma2, w, w1, w0 + (cs2 - ct0))
    BY <1>3, <1>5
  <2>2. k \in Int
    OBVIOUS
  <2> HIDE DEF r, d
  <2> QED
    BY <1>3, <1>5, <1>8, <2>1, <2>2, ApartIs, ZenonT(60)
<1>10. w1 \in Int /\ d.r1 \in Int /\ d.r0 \in Int
  BY <1>3, <1>8 DEF Decomposed
<1>11. gamma2 = GAMMA2_V95_232 \/ gamma2 = GAMMA2_V261_888
  BY <1>3, RoundingAssumption
<1>12. Hinted(gamma2, d.r1, d.r0, compute_one_hint(w0, w1, gamma2)) = w1
  BY <1>3, <1>9, <1>10, <1>11, HintSmall, HintLarge
<1>13. recovered' = w1'
  BY <1>2, <1>3, <1>7, <1>12
<1> QED
  BY <1>1, <1>2, <1>13 DEF RoundingInv, SignerInv, KeySplits, HintRecovers

LEMMA StutterInv ==
  ASSUME RoundingInv, UNCHANGED vars PROVE RoundingInv'
BY KeepsInputs
   DEF RoundingInv, SignerInv, KeySplits, HintRecovers, vars, inputs, InputsInv, Decomposed, Highs,
       FIELD_MODULUS, GAMMA2_V95_232, compute_one_hint, shift_left_then_reduce,
       reduce_element, IsCoefficient

LEMMA RoundingInductive == Spec => []RoundingInv
<1>1. RoundingInv /\ [Next]_vars => RoundingInv'
  BY Power2RoundInv, CommitInv, RespondInv, MakeHintInv, UseHintInv, StutterInv DEF Next
<1> QED
  BY RoundingBegins, <1>1, PTL DEF Spec

-----------------------------------------------------------------------------
(* What the rounding comes to *)

(***************************************************************************)
(* Every coefficient of t splits into ten and thirteen bits, t0 being the     *)
(* centred remainder, 2^12 included, and what the verifier makes of t1 is     *)
(* t - t0 modulo q (power2round_element, shift_left_then_reduce).            *)
(***************************************************************************)
THEOREM KeySplitsRight == Spec => []KeySplits
<1>1. RoundingInv => KeySplits
  BY DEF RoundingInv
<1> QED
  BY <1>1, RoundingInductive, PTL

(***************************************************************************)
(* For both GAMMA2 every coefficient decomposes into a high part below 44 or   *)
(* 16 and the centred remainder, whatever the approximate division by          *)
(* 2 * GAMMA2 rounds to (decompose_element).                                  *)
(***************************************************************************)
THEOREM DecompositionRight == Spec => []DecomposesRight
<1>1. RoundingInv => DecomposesRight
  <2> SUFFICES ASSUME RoundingInv, pc = "committed"
               PROVE  /\ (w1 * (2 * gamma2) + w0 - w) % FIELD_MODULUS = 0
                      /\ w1 \in 0 .. Highs(gamma2) - 1
                      /\ w0 \in -gamma2 .. gamma2
                      /\ w0 = -gamma2 => w1 = 0
    BY DEF DecomposesRight
  <2>1. Decomposed(gamma2, w, w1, w0) /\ gamma2 \in Int /\ w \in Int
    BY GammaIs DEF RoundingInv, SignerInv, InputsInv
  <2>2. PICK a \in Int : w = w1 * (2 * gamma2) + w0 + a * FIELD_MODULUS
    BY <2>1 DEF Decomposed
  <2>3. w1 \in Int /\ w0 \in Int /\ w1 * (2 * gamma2) \in Int
    BY <2>1, SMT DEF Decomposed
  <2>4. w1 * (2 * gamma2) + w0 - w = (0 - a) * FIELD_MODULUS /\ 0 - a \in Int
    BY <2>1, <2>2, <2>3, SMT DEF FIELD_MODULUS
  <2>5. (w1 * (2 * gamma2) + w0 - w) % FIELD_MODULUS = 0
    BY <2>1, <2>3, <2>4, Multiple
  <2>6. Highs(gamma2) \in Int
    BY DEF Highs
  <2> QED
    BY <2>1, <2>3, <2>5, <2>6 DEF Decomposed
<1> QED
  BY <1>1, RoundingInductive, PTL

(***************************************************************************)
(* The verifier, who has only t1 and the hint, recovers exactly the            *)
(* commitment that the signer hashed, for every w and every c*s2 and c*t0       *)
(* that pass the signer's tests (make_hint, use_hint).                         *)
(***************************************************************************)
THEOREM HintRight == Spec => []HintRecovers
<1>1. RoundingInv => HintRecovers
  BY DEF RoundingInv
<1> QED
  BY <1>1, RoundingInductive, PTL

-----------------------------------------------------------------------------
(* ML-KEM's compression *)

(* 10321340 / 2^35 divides what is compressed by q exactly. *)
LEMMA DivisionIsExact ==
  ASSUME NEW z \in Int, 0 <= z, z <= 6817408
  PROVE  ProductShifted(z, 10321340) = z \div MODULUS
<1> DEFINE xl == z % 4096
           xh == z \div 4096
           low == (xl * 3516) \div 4096
           middle == (xh * 3516 + xl * 2519 + low) \div 4096
           high == (xh * 2519 + middle) \div 2048
           k == z \div 3329
<1>1. 10321340 % 4096 = 3516 /\ 10321340 \div 4096 = 2519
  BY SMT
<1>2. xl \in Int /\ xh \in Int /\ z = 4096 * xh + xl /\ 0 <= xl /\ xl < 4096 /\ 0 <= xh
  BY SMT
<1>3. ProductShifted(z, 10321340) = high
  BY <1>1, <1>2, SMT DEF ProductShifted
<1> HIDE DEF xl, xh
<1>4. low \in Int /\ 4096 * low <= xl * 3516 /\ xl * 3516 < 4096 * low + 4096
  BY <1>2, SMT
<1> HIDE DEF low
<1>5. middle \in Int /\ 4096 * middle <= xh * 3516 + xl * 2519 + low
                     /\ xh * 3516 + xl * 2519 + low < 4096 * middle + 4096
  BY <1>2, <1>4, SMT
<1> HIDE DEF middle
<1>6. high \in Int /\ 2048 * high <= xh * 2519 + middle
                   /\ xh * 2519 + middle < 2048 * high + 2048
  BY <1>2, <1>5, SMT
<1>7. k \in Int /\ 3329 * k <= z /\ z < 3329 * k + 3329
  BY SMT
<1> HIDE DEF high, k
<1>8. 34359738368 * high <= 10321340 * z /\ 10321340 * z < 34359738368 * high + 34359738368
  BY <1>2, <1>4, <1>5, <1>6, SMT
<1>9. high = k
  BY <1>6, <1>7, <1>8, SMT
<1> QED
  BY <1>3, <1>9 DEF k, MODULUS

Factors == {1, 4, 5, 10, 11}

LEMMA PowersAre ==
  ASSUME NEW bits \in Factors
  PROVE  /\ 2^(bits + 1) = 2 * 2^bits
         /\ bits = 1 => 2^bits = 2
         /\ bits # 1 => 2^bits \in {16, 32, 1024, 2048}
<1>1. /\ 2^1 = 2 /\ 2^2 = 4 /\ 2^4 = 16 /\ 2^5 = 32 /\ 2^6 = 64
      /\ 2^10 = 1024 /\ 2^11 = 2048 /\ 2^12 = 4096
  BY SMT
<1>2. CASE bits = 1
  <2>1. bits + 1 = 2
    BY <1>2
  <2> QED
    BY <1>1, <1>2, <2>1
<1>3. CASE bits = 4
  <2>1. bits + 1 = 5
    BY <1>3
  <2> QED
    BY <1>1, <1>3, <2>1
<1>4. CASE bits = 5
  <2>1. bits + 1 = 6
    BY <1>4
  <2> QED
    BY <1>1, <1>4, <2>1
<1>5. CASE bits = 10
  <2>1. bits + 1 = 11
    BY <1>5
  <2> QED
    BY <1>1, <1>5, <2>1
<1>6. CASE bits = 11
  <2>1. bits + 1 = 12
    BY <1>6
  <2> QED
    BY <1>1, <1>6, <2>1
<1> QED
  BY <1>2, <1>3, <1>4, <1>5, <1>6 DEF Factors

LEMMA UnsignedRepresentativeIs ==
  ASSUME NEW a \in Int, -3328 <= a, a <= 3328
  PROVE  /\ to_unsigned_representative(a) \in Int
         /\ 0 <= to_unsigned_representative(a) /\ to_unsigned_representative(a) <= 3328
         /\ to_unsigned_representative(a) = a % MODULUS
<1>1. CASE a < 0
  BY <1>1, SMT DEF to_unsigned_representative, MODULUS
<1>2. CASE ~(a < 0)
  BY <1>2, SMT DEF to_unsigned_representative, MODULUS
<1> QED
  BY <1>1, <1>2

(* What compression gives at the factor n = 2^bits, as FIPS 203 has it. *)
Compressed(n, u) == Rounded(n * u, MODULUS) % n

LEMMA MessageIs ==
  ASSUME NEW u \in Int, 0 <= u, u <= 3328
  PROVE  compress_message_coefficient(u) = Compressed(2, u)
<1> DEFINE k == (4 * u + 3329) \div 6658
<1>1. Rounded(2 * u, MODULUS) = k
  BY SMT DEF Rounded, MODULUS
<1>2. k \in Int /\ 6658 * k <= 4 * u + 3329 /\ 4 * u + 3329 < 6658 * k + 6658
  BY SMT
<1> HIDE DEF k
<1>3. k = 0 \/ k = 1 \/ k = 2
  BY <1>2, SMT
<1>4. k = 1 <=> 833 <= u /\ u <= 2496
  BY <1>2, <1>3, SMT
<1>5. compress_message_coefficient(u) = IF 833 <= u /\ u <= 2496 THEN 1 ELSE 0
  BY SMT DEF compress_message_coefficient
<1>6. k % 2 = IF k = 1 THEN 1 ELSE 0
  BY <1>3, SMT
<1> QED
  BY <1>1, <1>4, <1>5, <1>6 DEF Compressed

(* The code adds (q - 1) / 2 where the definition adds q / 2. *)
LEMMA RoundedIs ==
  ASSUME NEW m \in Nat
  PROVE  Rounded(m, MODULUS) = (m + 1664) \div MODULUS
<1> DEFINE k == (m + 1664) \div 3329
           r == (2 * m + 3329) \div 6658
<1>1. k \in Int /\ 3329 * k <= m + 1664 /\ m + 1664 < 3329 * k + 3329
  BY SMT
<1>2. r \in Int /\ 6658 * r <= 2 * m + 3329 /\ 2 * m + 3329 < 6658 * r + 6658
  BY SMT
<1>3. Rounded(m, MODULUS) = r /\ (m + 1664) \div MODULUS = k
  BY SMT DEF Rounded, MODULUS
<1> HIDE DEF k, r
<1>4. k = r
  BY <1>1, <1>2, SMT
<1> QED
  BY <1>3, <1>4

LEMMA CompressIs ==
  ASSUME NEW bits \in Factors, NEW u \in Int, 0 <= u, u <= 3328
  PROVE  compress(bits, u) = Compressed(2^bits, u)
<1>1. CASE bits = 1
  <2>1. 2^bits = 2
    BY <1>1, PowersAre
  <2> QED
    BY <1>1, <2>1, MessageIs DEF compress
<1>2. CASE bits # 1
  <2> DEFINE n == 2^bits
  <2>1. n \in {16, 32, 1024, 2048}
    BY <1>2, PowersAre
  <2>2. compress(bits, u) = ProductShifted(u * n + 1664, 10321340) % n
    BY <1>2 DEF compress, compress_ciphertext_coefficient
  <2> HIDE DEF n
  <2>3. n * u \in Nat /\ u * n = n * u /\ n * u <= 6815744
    <3>1. CASE n = 16
      BY <3>1, SMT
    <3>2. CASE n = 32
      BY <3>2, SMT
    <3>3. CASE n = 1024
      BY <3>3, SMT
    <3>4. CASE n = 2048
      BY <3>4, SMT
    <3> QED
      BY <2>1, <3>1, <3>2, <3>3, <3>4
  <2>4. ProductShifted(n * u + 1664, 10321340) = (n * u + 1664) \div MODULUS
    <3> DEFINE z == n * u + 1664
    <3>1. z \in Int /\ 0 <= z /\ z <= 6817408
      BY <2>3
    <3> HIDE DEF z
    <3>2. ProductShifted(z, 10321340) = z \div MODULUS
      BY <3>1, DivisionIsExact
    <3> QED
      BY <3>2 DEF z
  <2>5. Rounded(n * u, MODULUS) = (n * u + 1664) \div MODULUS
    BY <2>3, RoundedIs
  <2> QED
    BY <2>2, <2>3, <2>4, <2>5 DEF Compressed, n
<1> QED
  BY <1>1, <1>2

(* What decompression gives: the nearest coefficient. *)
Decompressed(n, y) == Rounded(MODULUS * y, n)

LEMMA DecompressIs ==
  ASSUME NEW bits \in Factors, NEW y \in 0 .. 2^bits - 1
  PROVE  decompress(bits, y) = Decompressed(2^bits, y)
<1>1. CASE bits = 1
  <2>1. 2^bits = 2
    BY <1>1, PowersAre
  <2>2. y \in {0, 1}
    BY <2>1
  <2> QED
    BY <1>1, <2>1, <2>2, SMT DEF decompress, decompress_1, Decompressed, Rounded, MODULUS
<1>2. CASE bits # 1
  <2> DEFINE n == 2^bits
  <2>1. n \in {16, 32, 1024, 2048} /\ 2^(bits + 1) = 2 * n
    BY <1>2, PowersAre
  <2>2. decompress(bits, y) = (y * MODULUS * 2 + n) \div (2 * n)
    BY <1>2, <2>1 DEF decompress, decompress_ciphertext_coefficient
  <2>3. y \in Int
    BY <2>1
  <2> HIDE DEF n
  <2>4. y * MODULUS * 2 = 2 * (MODULUS * y)
    BY <2>3, SMT DEF MODULUS
  <2> QED
    BY <2>2, <2>4 DEF Decompressed, Rounded, n
<1> QED
  BY <1>1, <1>2

-----------------------------------------------------------------------------
(* There and back *)

Powers == {2, 16, 32, 1024, 2048}

LEMMA SizeIs == ASSUME NEW n \in Powers PROVE n \in Nat /\ 0 < n /\ n <= 2048
BY DEF Powers

(* Multiplication by n keeps the order. *)
LEMMA Monotone ==
  ASSUME NEW n \in Powers, NEW a \in Int, NEW b \in Int
  PROVE  n * a \in Int /\ (n * a < n * b <=> a < b)
<1>1. CASE n = 2
  BY <1>1, SMT
<1>2. CASE n = 16
  BY <1>2, SMT
<1>3. CASE n = 32
  BY <1>3, SMT
<1>4. CASE n = 1024
  BY <1>4, SMT
<1>5. CASE n = 2048
  BY <1>5, SMT
<1> QED
  BY <1>1, <1>2, <1>3, <1>4, <1>5 DEF Powers

(* A quotient by 2 * n, in products with n. *)
LEMMA HalvedQuotient ==
  ASSUME NEW n \in Powers, NEW m \in Int
  PROVE  LET d == m \div (2 * n) IN
           d \in Int /\ n * d \in Int /\ 2 * (n * d) <= m /\ m < 2 * (n * d) + 2 * n
<1>1. CASE n = 2
  BY <1>1, SMT
<1>2. CASE n = 16
  BY <1>2, SMT
<1>3. CASE n = 32
  BY <1>3, SMT
<1>4. CASE n = 1024
  BY <1>4, SMT
<1>5. CASE n = 2048
  BY <1>5, SMT
<1> QED
  BY <1>1, <1>2, <1>3, <1>4, <1>5 DEF Powers

LEMMA DecompressedIs ==
  ASSUME NEW n \in Powers, NEW c \in Int
  PROVE  LET d == Decompressed(n, c) IN
           d \in Int /\ n * d \in Int /\ 2 * (n * d) <= 6658 * c + n /\ 6658 * c < 2 * (n * d) + n
<1> DEFINE m == 6658 * c + n
           d == m \div (2 * n)
<1>1. n \in Int /\ m \in Int
  BY SizeIs
<1>2. Decompressed(n, c) = d
  BY <1>1, SMT DEF Decompressed, Rounded, MODULUS
<1> HIDE DEF m
<1>3. d \in Int /\ n * d \in Int /\ 2 * (n * d) <= m /\ m < 2 * (n * d) + 2 * n
  BY <1>1, HalvedQuotient
<1> HIDE DEF d
<1> QED
  BY <1>1, <1>2, <1>3, SMT DEF m

LEMMA ModuloIs ==
  ASSUME NEW n \in Powers, NEW k \in Int, 0 <= k, k <= n
  PROVE  k % n = IF k = n THEN 0 ELSE k
<1>1. CASE n = 2
  BY <1>1, SMT
<1>2. CASE n = 16
  BY <1>2, SMT
<1>3. CASE n = 32
  BY <1>3, SMT
<1>4. CASE n = 1024
  BY <1>4, SMT
<1>5. CASE n = 2048
  BY <1>5, SMT
<1> QED
  BY <1>1, <1>2, <1>3, <1>4, <1>5 DEF Powers

(* What was decompressed is a coefficient, and compresses to itself. *)
LEMMA BackIs ==
  ASSUME NEW n \in Powers, NEW c \in Int, 0 <= c, c < n
  PROVE  LET d == Decompressed(n, c) IN
           d \in Int /\ 0 <= d /\ d <= 3328 /\ Compressed(n, d) = c
<1> DEFINE d == Decompressed(n, c)
           e == n * d
           k == Rounded(e, MODULUS)
<1>1. n \in Nat /\ 0 < n /\ n <= 2048
  BY SizeIs
<1>2. d \in Int /\ e \in Int /\ 2 * e <= 6658 * c + n /\ 6658 * c < 2 * e + n
  BY DecompressedIs
<1> HIDE DEF d
<1>3. 0 <= d
  <2>1. n * (0 - 1) < e
    <3>1. n * (0 - 1) = 0 - n
      BY <1>1, SMT
    <3> HIDE DEF e
    <3> QED
      BY <1>1, <1>2, <3>1, SMT
  <2>2. 0 - 1 < d
    BY <1>2, <2>1, Monotone
  <2> QED
    BY <1>2, <2>2
<1>4. d <= 3328
  <2>1. e < n * 3329
    <3> HIDE DEF e
    <3> QED
      BY <1>1, <1>2, SMT
  <2>2. d < 3329
    BY <1>2, <2>1, Monotone
  <2> QED
    BY <1>2, <2>2
<1> HIDE DEF e
<1>5. k \in Int /\ 6658 * k <= 2 * e + 3329 /\ 2 * e < 6658 * k + 3329
  BY <1>2, SMT DEF Rounded, MODULUS
<1> HIDE DEF k
<1>6. k = c
  BY <1>1, <1>2, <1>5, SMT
<1>7. k % n = c
  BY <1>1, <1>6, ModuloIs
<1> QED
  BY <1>2, <1>3, <1>4, <1>7 DEF Compressed, d, e, k

(* The distance between what was compressed and what comes back, modulo q. *)
LEMMA DistanceIs ==
  ASSUME NEW n \in Powers, NEW u \in Int, 0 <= u, u <= 3328
  PROVE  LET d == Decompressed(n, Compressed(n, u))
             bound == Rounded(MODULUS, 2 * n)
         IN  /\ Compressed(n, u) \in Int /\ 0 <= Compressed(n, u) /\ Compressed(n, u) < n
             /\ bound \in Int /\ bound <= 832
             /\ d \in Int
             /\ \/ u - bound <= d /\ d <= u + bound
                \/ d = 0 /\ 3329 - u <= bound
<1> DEFINE f == n * u
           k == Rounded(f, MODULUS)
           c == k % n
           d == Decompressed(n, c)
           e == n * d
           bound == Rounded(MODULUS, 2 * n)
           r == n * bound
<1>1. n \in Nat /\ 0 < n /\ n <= 2048
  BY SizeIs
<1>2. f \in Int /\ 0 <= f /\ f <= n * 3328
  BY <1>1, Monotone, SMT
<1> HIDE DEF f
<1>3. k \in Int /\ 6658 * k <= 2 * f + 3329 /\ 2 * f < 6658 * k + 3329
  BY <1>2, SMT DEF Rounded, MODULUS
<1>4. bound \in Int /\ bound <= 832 /\ r \in Int /\ 6658 < 4 * r + 2 * n
  <2>1. CASE n = 2
    BY <2>1, SMT DEF Rounded, MODULUS
  <2>2. CASE n = 16
    BY <2>2, SMT DEF Rounded, MODULUS
  <2>3. CASE n = 32
    BY <2>3, SMT DEF Rounded, MODULUS
  <2>4. CASE n = 1024
    BY <2>4, SMT DEF Rounded, MODULUS
  <2>5. CASE n = 2048
    BY <2>5, SMT DEF Rounded, MODULUS
  <2> QED
    BY <2>1, <2>2, <2>3, <2>4, <2>5 DEF Powers
<1> HIDE DEF k, bound
<1>5. 0 <= k /\ k <= n
  BY <1>1, <1>2, <1>3, SMT
<1>6. c = IF k = n THEN 0 ELSE k
  BY <1>3, <1>5, ModuloIs
<1> HIDE DEF c
<1>7. c \in Int /\ 0 <= c /\ c < n
  BY <1>1, <1>3, <1>5, <1>6
<1>8. d \in Int /\ e \in Int /\ 2 * e <= 6658 * c + n /\ 6658 * c < 2 * e + n
  BY <1>7, DecompressedIs
<1> HIDE DEF d
<1>9. CASE k # n
  <2>1. e < n * (u + bound + 1) /\ n * (u - bound - 1) < e
    <3>1. n * (u + bound + 1) = f + r + n /\ n * (u - bound - 1) = f - r - n
      BY <1>1, <1>4, SMT DEF f
    <3> HIDE DEF e, r
    <3> QED
      BY <1>1, <1>2, <1>3, <1>4, <1>6, <1>8, <1>9, <3>1, SMT
  <2> DEFINE high == u + bound + 1
             low == u - bound - 1
  <2>2. high \in Int /\ low \in Int
    BY <1>4
  <2> HIDE DEF high, low
  <2>3. d < high /\ low < d
    BY <1>8, <2>1, <2>2, Monotone DEF high, low
  <2>4. u - bound <= d /\ d <= u + bound
    BY <1>4, <1>8, <2>3, SMT DEF high, low
  <2> QED
    BY <1>4, <1>7, <1>8, <2>4 DEF Compressed, c, d, f, k, bound
<1>10. CASE k = n
  <2>1. c = 0 /\ 2 * e <= n /\ 0 < 2 * e + n
    BY <1>1, <1>6, <1>8, <1>10, SMT
  <2>2. d = 0
    <3>1. n * 1 = n /\ n * (0 - 1) = 0 - n
      BY <1>1, SMT
    <3>2. e < n * 1 /\ n * (0 - 1) < e
      <4> HIDE DEF e
      <4> QED
        BY <1>1, <1>8, <2>1, <3>1, SMT
    <3>3. d < 1 /\ 0 - 1 < d
      BY <1>8, <3>2, Monotone
    <3> QED
      BY <1>8, <3>3
  <2>3. n * (3329 - u) < n * (bound + 1)
    <3>1. n * (3329 - u) = 3329 * n - f /\ n * (bound + 1) = r + n
      BY <1>1, <1>4, SMT DEF f
    <3> HIDE DEF r
    <3> QED
      BY <1>1, <1>2, <1>3, <1>4, <1>10, <3>1, SMT
  <2>4. 3329 - u < bound + 1
    <3> DEFINE a == 3329 - u
               b == bound + 1
    <3>1. a \in Int /\ b \in Int
      BY <1>4
    <3> HIDE DEF a, b
    <3>2. a < b
      BY <2>3, <3>1, Monotone DEF a, b
    <3> QED
      BY <3>2 DEF a, b
  <2>5. 3329 - u <= bound
    BY <1>4, <2>4
  <2> QED
    BY <1>4, <1>7, <1>8, <2>2, <2>5 DEF Compressed, c, d, f, k, bound
<1> QED
  BY <1>9, <1>10

(* Modulo q the two representatives are one. *)
LEMMA CentredIs ==
  ASSUME NEW a \in Int, NEW u \in Int, u = a \/ u = a + 3329, 0 <= u, u <= 3328,
         NEW d \in Int, NEW bound \in Int, bound <= 832,
         \/ u - bound <= d /\ d <= u + bound
         \/ d = 0 /\ 3329 - u <= bound
  PROVE  Abs(Centred(d - a)) <= bound
<1> DEFINE x == d - a
           m == x % 3329
<1>1. m \in Int /\ 0 <= m /\ m < 3329 /\ \E q \in Int : x = 3329 * q + m
  <2>1. x = 3329 * (x \div 3329) + m /\ x \div 3329 \in Int
    BY SMT
  <2> QED
    BY <2>1, SMT
<1>2. PICK q \in Int : x = 3329 * q + m
  BY <1>1
<1>3. Centred(d - a) = IF m > 1664 THEN m - 3329 ELSE m
  BY SMT DEF Centred, MODULUS
<1> HIDE DEF m
<1>4. m <= bound \/ 3329 - m <= bound
  BY <1>1, <1>2, SMT
<1> QED
  BY <1>1, <1>3, <1>4, SMT DEF Abs

-----------------------------------------------------------------------------
(* The two steps *)

CompressionInv ==
  /\ factor \in Factors
  /\ coefficient \in Int /\ -3328 <= coefficient /\ coefficient <= 3328
  /\ step \in {"reduced", "compressed", "decompressed"}
  /\ CompressesRight

LEMMA CompressStep ==
  ASSUME CompressionInv, Compress PROVE CompressionInv'
<1> DEFINE u == to_unsigned_representative(coefficient)
<1>1. /\ compressed' = compress(factor, u) /\ step' = "compressed"
      /\ factor' = factor /\ coefficient' = coefficient
      /\ factor \in Factors
      /\ coefficient \in Int /\ -3328 <= coefficient /\ coefficient <= 3328
  BY DEF Compress, CompressionInv
<1>2. u \in Int /\ 0 <= u /\ u <= 3328 /\ u = coefficient % MODULUS
  BY <1>1, UnsignedRepresentativeIs
<1> HIDE DEF u
<1>3. compressed' = Rounded(2^factor * (coefficient % MODULUS), MODULUS) % 2^factor
  BY <1>1, <1>2, CompressIs DEF Compressed
<1> QED
  BY <1>1, <1>3 DEF CompressionInv, CompressesRight

LEMMA DecompressStep ==
  ASSUME CompressionInv, Decompress PROVE CompressionInv'
<1> DEFINE u == to_unsigned_representative(coefficient)
           n == 2^factor
           c == compressed
           d == Decompressed(n, c)
           bound == Rounded(MODULUS, 2 * n)
<1>1. /\ decompressed' = decompress(factor, c) /\ step' = "decompressed"
      /\ factor' = factor /\ coefficient' = coefficient /\ compressed' = c
      /\ factor \in Factors
      /\ coefficient \in Int /\ -3328 <= coefficient /\ coefficient <= 3328
      /\ c = Compressed(n, coefficient % MODULUS)
  BY DEF Decompress, CompressionInv, CompressesRight, Compressed
<1>2. /\ u \in Int /\ 0 <= u /\ u <= 3328 /\ u = coefficient % MODULUS
      /\ u = coefficient \/ u = coefficient + 3329
  BY <1>1, UnsignedRepresentativeIs DEF to_unsigned_representative, MODULUS
<1>3. n \in Powers /\ 2^(factor + 1) = 2 * n
  BY <1>1, PowersAre DEF Powers
<1> HIDE DEF u, n, c
<1>4. c = Compressed(n, u)
  BY <1>1, <1>2
<1>5. /\ c \in Int /\ 0 <= c /\ c < n
      /\ bound \in Int /\ bound <= 832
      /\ \/ u - bound <= d /\ d <= u + bound
         \/ d = 0 /\ 3329 - u <= bound
  BY <1>2, <1>3, <1>4, DistanceIs
<1>6. d \in Int /\ 0 <= d /\ d <= 3328 /\ Compressed(n, d) = c
  BY <1>3, <1>5, BackIs
<1>7. decompressed' = d
  <2>1. c \in 0 .. 2^factor - 1
    BY <1>3, <1>5, SizeIs DEF n
  <2> QED
    BY <1>1, <2>1, DecompressIs DEF n
<1> HIDE DEF d, bound
<1>8. compress(factor, d) = c
  BY <1>1, <1>6, CompressIs DEF n
<1>9. Abs(Centred(d - coefficient)) <= bound
  BY <1>1, <1>2, <1>5, <1>6, CentredIs
<1>10. CompressesRight'
  <2>1. c = Rounded(n * (coefficient % MODULUS), MODULUS) % n
    BY <1>1 DEF Compressed
  <2>2. d \in 0 .. MODULUS - 1
    BY <1>6, SMT DEF MODULUS
  <2>3. d = Rounded(MODULUS * c, n) /\ bound = Rounded(MODULUS, 2^(factor + 1))
    BY <1>3 DEF d, Decompressed, bound
  <2> QED
    BY <1>1, <1>7, <1>8, <1>9, <2>1, <2>2, <2>3 DEF CompressesRight, n
<1> QED
  BY <1>1, <1>10 DEF CompressionInv

(***************************************************************************)
(* Both directions of the compression are FIPS 203's at every factor and        *)
(* coefficient: the multiplication by 10321340 and the shift by 35 divide by q  *)
(* exactly, what comes back is within the error that decryption allows, and it   *)
(* compresses to what it came from (vector/portable/compress.rs).               *)
(***************************************************************************)
THEOREM CompressionRight == CompressionSpec => []CompressesRight
<1>1. CompressionInit => CompressionInv
  <2> SUFFICES ASSUME CompressionInit PROVE CompressionInv
    OBVIOUS
  <2>1. factor \in Factors
    BY CompressionAssumption DEF CompressionInit, Factors
  <2>2. coefficient \in Int /\ -3328 <= coefficient /\ coefficient <= 3328
    BY CompressionAssumption DEF CompressionInit
  <2>3. step = "reduced"
    BY DEF CompressionInit
  <2> QED
    BY <2>1, <2>2, <2>3 DEF CompressionInv, CompressesRight
<1>2. CompressionInv /\ [CompressionNext]_compression => CompressionInv'
  <2>1. CASE UNCHANGED compression
    BY <2>1 DEF compression, CompressionInv, CompressesRight
  <2> QED
    BY <2>1, CompressStep, DecompressStep DEF CompressionNext
<1>3. CompressionInv => CompressesRight
  BY DEF CompressionInv
<1> QED
  BY <1>1, <1>2, <1>3, PTL DEF CompressionSpec

-----------------------------------------------------------------------------
(* What a signature is over *)

(* All that is absorbed. *)
Symbols ==
  Octets \cup {<<"verification_key_hash">>} \cup {Byte(n) : n \in Nat}
    \cup {<<"SHAKE128", message>> : message \in Messages}

LEMMA SplitAtLength ==
  ASSUME NEW S, NEW a \in Seq(S), NEW b \in Seq(S), NEW c \in Seq(S), NEW d \in Seq(S),
         a \o b = c \o d, Len(a) = Len(c)
  PROVE  a = c /\ b = d
<1>1. Len(b) = Len(d)
  <2>1. Len(a \o b) = Len(a) + Len(b) /\ Len(c \o d) = Len(c) + Len(d)
    BY SMTT(30)
  <2> QED
    BY <2>1
<1>2. \A k \in 1 .. Len(a) : a[k] = c[k]
  <2> SUFFICES ASSUME NEW k \in 1 .. Len(a) PROVE a[k] = c[k]
    OBVIOUS
  <2>1. (a \o b)[k] = a[k] /\ (c \o d)[k] = c[k]
    OBVIOUS
  <2> QED
    BY <2>1
<1>3. \A k \in 1 .. Len(b) : b[k] = d[k]
  <2> SUFFICES ASSUME NEW k \in 1 .. Len(b) PROVE b[k] = d[k]
    OBVIOUS
  <2>1. (a \o b)[Len(a) + k] = b[k] /\ (c \o d)[Len(a) + k] = d[k]
    BY <1>1
  <2> QED
    BY <2>1
<1> QED
  BY <1>1, <1>2, <1>3, SMTT(30)

LEMMA Three ==
  ASSUME NEW S, NEW x \in S, NEW y \in S, NEW z \in S
  PROVE  <<x>> \o <<y>> \o <<z>> = <<x, y, z>> /\ <<x, y, z>> \in Seq(S)
<1>1. <<x>> \in Seq(S) /\ <<y>> \in Seq(S) /\ <<z>> \in Seq(S) /\ <<x, y, z>> \in Seq(S)
  OBVIOUS
<1> DEFINE a == <<x>> \o <<y>>
           b == a \o <<z>>
<1>2. a \in Seq(S) /\ Len(a) = 2 /\ a[1] = x /\ a[2] = y
  BY <1>1
<1> HIDE DEF a
<1>3. b \in Seq(S) /\ Len(b) = 3 /\ b[1] = x /\ b[2] = y /\ b[3] = z
  <2>1. b = Append(a, z)
    BY <1>2, AppendIsConcat
  <2> HIDE DEF b
  <2>2. b \in Seq(S) /\ Len(b) = Len(a) + 1 /\ b[Len(a) + 1] = z
    BY <1>2, <2>1, AppendProperties, ZenonT(30)
  <2>3. b[1] = x /\ b[2] = y
    BY <1>2, <2>1, AppendProperties
  <2> QED
    BY <1>2, <2>2, <2>3
<1> HIDE DEF b
<1>4. \A k \in 1 .. 3 : b[k] = <<x, y, z>>[k]
  BY <1>3
<1>5. b = <<x, y, z>>
  BY <1>1, <1>3, <1>4, SeqEqual
<1> QED
  BY <1>1, <1>5 DEF a, b

LEMMA Regroup ==
  ASSUME NEW S, NEW p \in Seq(S), NEW c \in Seq(S), NEW o \in Seq(S), NEW m \in Seq(S)
  PROVE  p \o c \o o \o m = p \o (c \o (o \o m))
<1>1. c \o o \in Seq(S)
  BY ConcatProperties
<1>2. (p \o c) \o o = p \o (c \o o)
  BY ConcatAssociative, SMTT(30)
<1>3. (c \o o) \o m = c \o (o \o m)
  BY ConcatAssociative, SMTT(30)
<1>4. (p \o (c \o o)) \o m = p \o ((c \o o) \o m)
  BY <1>1, ConcatAssociative, SMTT(30)
<1> QED
  BY <1>2, <1>3, <1>4

LEMMA ModIs ==
  ASSUME NEW n \in Nat, n > 0, NEW a \in Nat, a < n
  PROVE  a % n = a
OBVIOUS

(* The three symbols that every representative begins with. *)
Prefix(call) ==
  << <<"verification_key_hash">>, Byte(Bool(call.preHashed)), Byte(Len(call.context)) >>

Rest(call) == call.context \o (Separation(call).pre_hash_oid \o Message(call))

LEMMA RepresentativeIs ==
  ASSUME NEW call \in Calls, ~TooLong(call.context)
  PROVE  /\ call.context \in Seq(Symbols) /\ Message(call) \in Seq(Symbols)
         /\ Separation(call).pre_hash_oid \in Seq(Symbols)
         /\ Prefix(call) \in Seq(Symbols) /\ Rest(call) \in Seq(Symbols)
         /\ Representative(call) = Prefix(call) \o Rest(call)
<1>1. call.context \in Seq(Octets) /\ call.message \in Messages /\ call.preHashed \in BOOLEAN
  BY BindingAssumption DEF Calls
<1>2. Octets \subseteq Symbols /\ <<"verification_key_hash">> \in Symbols
      /\ (\A n \in Nat : Byte(n) \in Symbols)
      /\ (\A message \in Messages : <<"SHAKE128", message>> \in Symbols)
  BY DEF Symbols
<1>3. call.context \in Seq(Symbols)
  BY <1>1, <1>2
<1>4. Message(call) \in Seq(Symbols)
  BY <1>1, <1>2, BindingAssumption DEF Message, Hash
<1>5. Separation(call).pre_hash_oid \in Seq(Symbols)
  BY <1>1, <1>2, BindingAssumption DEF Separation
<1>6. Len(call.context) \in Nat /\ Len(call.context) % BYTE_VALUES = Len(call.context)
  <2>1. Len(call.context) \in Nat /\ Len(call.context) < BYTE_VALUES /\ BYTE_VALUES \in Nat /\ BYTE_VALUES > 0
    BY <1>1, BindingAssumption DEF TooLong
  <2> QED
    BY <2>1, ModIs
<1>7. Bool(call.preHashed) \in Nat
  BY DEF Bool
<1>8. (Separation(call).pre_hash_oid # << >>) <=> call.preHashed
  BY BindingAssumption DEF Separation
<1>9. Bool(Separation(call).pre_hash_oid # << >>) = Bool(call.preHashed)
  BY <1>1, <1>8, Zenon DEF Bool
<1>10. Separation(call).context = call.context
  BY DEF Separation
<1> DEFINE v == <<"verification_key_hash">>
           b == Byte(Bool(call.preHashed))
           l == Byte(Len(call.context))
           o == Separation(call).pre_hash_oid
           m == Message(call)
           c == call.context
<1>11. v \in Symbols /\ b \in Symbols /\ l \in Symbols
  BY <1>2, <1>6, <1>7
<1>12. Representative(call) = <<v>> \o <<b>> \o <<l>> \o c \o o \o m
  BY <1>6, <1>9, <1>10 DEF Representative, derive_message_representative
<1> HIDE DEF v, b, l, o, m, c
<1>13. <<v>> \o <<b>> \o <<l>> \o c \o o \o m = <<v, b, l>> \o (c \o (o \o m))
  <2>1. c \in Seq(Symbols) /\ o \in Seq(Symbols) /\ m \in Seq(Symbols)
    BY <1>3, <1>4, <1>5 DEF c, o, m
  <2>2. <<v>> \o <<b>> \o <<l>> = <<v, b, l>> /\ <<v, b, l>> \in Seq(Symbols)
    BY <1>11, Three
  <2>3. <<v, b, l>> \o c \o o \o m = <<v, b, l>> \o (c \o (o \o m))
    BY <2>1, <2>2, Regroup, SMTT(30)
  <2> QED
    BY <2>2, <2>3
<1>14. Prefix(call) \in Seq(Symbols) /\ Rest(call) \in Seq(Symbols)
  BY <1>3, <1>4, <1>5, <1>11 DEF Prefix, Rest, v, b, l
<1> QED
  BY <1>3, <1>4, <1>5, <1>12, <1>13, <1>14 DEF Prefix, Rest, v, b, l, c, o, m

-----------------------------------------------------------------------------
LEMMA RepresentativeInjective ==
  ASSUME NEW one \in Calls, NEW other \in Calls,
         ~TooLong(one.context), ~TooLong(other.context),
         Representative(one) = Representative(other)
  PROVE  one = other
<1>1. /\ Prefix(one) \in Seq(Symbols) /\ Rest(one) \in Seq(Symbols)
      /\ Prefix(other) \in Seq(Symbols) /\ Rest(other) \in Seq(Symbols)
      /\ Prefix(one) \o Rest(one) = Prefix(other) \o Rest(other)
  BY RepresentativeIs
<1>2. Len(Prefix(one)) = 3 /\ Len(Prefix(other)) = 3
  BY DEF Prefix
<1>3. Prefix(one) = Prefix(other) /\ Rest(one) = Rest(other)
  BY <1>1, <1>2, SplitAtLength
<1>4. Bool(one.preHashed) = Bool(other.preHashed) /\ Len(one.context) = Len(other.context)
  BY <1>3 DEF Prefix, Byte
<1>5. one.preHashed = other.preHashed
  <2>1. one.preHashed \in BOOLEAN /\ other.preHashed \in BOOLEAN
    BY DEF Calls
  <2> QED
    BY <1>4, <2>1 DEF Bool
<1>6. Separation(one).pre_hash_oid = Separation(other).pre_hash_oid
  BY <1>5 DEF Separation
<1> DEFINE oid == Separation(one).pre_hash_oid
<1>7. /\ one.context \in Seq(Symbols) /\ other.context \in Seq(Symbols)
      /\ Message(one) \in Seq(Symbols) /\ Message(other) \in Seq(Symbols)
      /\ oid \in Seq(Symbols)
  BY RepresentativeIs
<1>8. one.context \o (oid \o Message(one)) = other.context \o (oid \o Message(other))
  BY <1>3, <1>6 DEF Rest
<1> HIDE DEF oid
<1>9. oid \o Message(one) \in Seq(Symbols) /\ oid \o Message(other) \in Seq(Symbols)
  BY <1>7
<1>10. one.context = other.context /\ oid \o Message(one) = oid \o Message(other)
  BY <1>4, <1>7, <1>8, <1>9, SplitAtLength
<1>11. Message(one) = Message(other)
  BY <1>7, <1>10, SplitAtLength
<1>12. one.message = other.message
  <2>1. CASE one.preHashed
    <3>1. << <<"SHAKE128", one.message>> >> = << <<"SHAKE128", other.message>> >>
      BY <1>5, <1>11, <2>1 DEF Message, Hash
    <3> QED
      BY <3>1
  <2>2. CASE ~one.preHashed
    BY <1>5, <1>11, <2>2 DEF Message
  <2> QED
    BY <2>1, <2>2
<1> QED
  BY <1>5, <1>10, <1>12 DEF Calls

SignedInv ==
  /\ signed \in Calls
  /\ stage = "verify" => ~TooLong(signed.context) /\ signature = Representative(signed)
  /\ VerifiesOnlyWhatWasSigned

(***************************************************************************)
(* A signature holds for the call it was made by and for no other: for every   *)
(* set of contexts, messages and bytes, the length in front of the context and  *)
(* the byte for the kind make what is signed unambiguous (ml_dsa_generic.rs     *)
(* 860-900).                                                                  *)
(***************************************************************************)
THEOREM Binding == BindingSpec => []VerifiesOnlyWhatWasSigned
<1>1. BindingInit => SignedInv
  BY DEF BindingInit, SignedInv, VerifiesOnlyWhatWasSigned
<1>2. SignedInv /\ [BindingNext]_binding => SignedInv'
  <2> SUFFICES ASSUME SignedInv, [BindingNext]_binding PROVE SignedInv'
    OBVIOUS
  <2>1. CASE Sign
    BY <2>1 DEF Sign, SignedInv, VerifiesOnlyWhatWasSigned, TooLong, Representative,
       derive_message_representative, Separation, Message
  <2>2. CASE Verify
    <3>1. /\ stage = "verify" /\ checked' \in Calls /\ stage' = "done" /\ signed' = signed
          /\ verdict' = IF TooLong(checked'.context) THEN "ContextTooLong"
                        ELSE IF Representative(checked') = signature THEN "Ok" ELSE "HashesDontMatch"
      BY <2>2 DEF Verify
    <3>2. ~TooLong(signed.context) /\ signature = Representative(signed) /\ signed \in Calls
      BY <3>1 DEF SignedInv
    <3>3. verdict' = "Ok" => checked' = signed
      BY <3>1, <3>2, RepresentativeInjective
    <3>4. checked' = signed => verdict' = "Ok"
      BY <3>1, <3>2
    <3> QED
      BY <3>1, <3>2, <3>3, <3>4 DEF SignedInv, VerifiesOnlyWhatWasSigned
  <2>3. CASE UNCHANGED binding
    BY <2>3 DEF binding, SignedInv, VerifiesOnlyWhatWasSigned, TooLong
  <2> QED
    BY <2>1, <2>2, <2>3 DEF BindingNext
<1>3. SignedInv => VerifiesOnlyWhatWasSigned
  BY DEF SignedInv
<1> QED
  BY <1>1, <1>2, <1>3, PTL DEF BindingSpec
-----------------------------------------------------------------------------
(* The transforms.  Bounds on a product, and what each function of ML-KEM does   *)
(* to the bound of an element. *)

(* An element whose coefficients are at most b in absolute value. *)
AtMost(re, b) == "m" \in DOMAIN re /\ re.m \in Nat /\ re.m <= b

LEMMA Bounded ==
  ASSUME NEW a \in Nat, NEW b \in Nat, NEW c \in Nat, NEW d \in Nat, a <= c, b <= d
  PROVE  a * b \in Nat /\ a * b <= c * d
<1>1. a * b <= c * b /\ a * b \in Nat
  BY SMT
<1>2. c * b <= c * d
  BY SMT
<1> QED
  BY <1>1, <1>2, SMT

LEMMA TimesBoundIs ==
  ASSUME NEW a \in Nat, NEW b \in Nat, a * b <= K!MaxI32
  PROVE  K!TimesBound(a, b) = a * b
<1>1. SUFFICES ASSUME a # 0, b > K!MaxI32 \div a PROVE FALSE
  BY DEF K!TimesBound
<1>2. PICK n \in Int : n = K!MaxI32 \div a
  BY <1>1 DEF K!MaxI32
<1>3. K!MaxI32 < a * n + a
  BY <1>1, <1>2, SMT DEF K!MaxI32
<1>4. b >= n + 1
  BY <1>1, <1>2
<1>5. a * b >= a * (n + 1)
  BY <1>4, SMT
<1> QED
  BY <1>3, <1>5, SMT DEF K!MaxI32

(* Of numbers that fit, the bounds are the sums and products themselves. *)
LEMMA KemBounds ==
  ASSUME NEW m \in Nat, NEW n \in Nat
  PROVE  /\ m <= 28296 => K!BarrettBound(m) = 1664
         /\ m <= 32767 => K!Within16(m) = m
         /\ m + n <= K!MaxI32 => K!Plus(m, n) = m + n
         /\ m < K!MaxI32 => /\ K!MontgomeryBound(m) \in Nat
                            /\ K!MontgomeryBound(m) = ((m + 65535) \div 65536) + 1665
BY SMT DEF K!BarrettBound, K!Within16, K!Plus, K!MontgomeryBound, K!MaxI32

LEMMA KemLayer7 ==
  ASSUME NEW re, AtMost(re, 3)
  PROVE  AtMost(K!ntt_at_layer_7(re), 4803)
<1>1. K!ntt_at_layer_7(re).m = K!Within16(K!Plus(re.m, K!Within16(K!TimesBound(re.m, 1600))))
  BY DEF K!ntt_at_layer_7
<1>2. "m" \in DOMAIN K!ntt_at_layer_7(re)
  BY DEF K!ntt_at_layer_7
<1>3. K!TimesBound(re.m, 1600) = re.m * 1600
  BY TimesBoundIs DEF AtMost, K!MaxI32
<1> QED
  BY <1>1, <1>2, <1>3, SMT DEF AtMost, K!Within16, K!Plus, K!MaxI32

(* A product by a constant, reduced. *)
LEMMA KemConstant ==
  ASSUME NEW m \in Nat, NEW k \in Nat, k <= 1659, m <= 20000
  PROVE  /\ K!MontgomeryBound(K!TimesBound(m, k)) \in Nat
         /\ m <= 1664 => K!MontgomeryBound(K!TimesBound(m, k)) <= 1750
         /\ m <= 7000 => K!MontgomeryBound(K!TimesBound(m, k)) <= 2000
         /\ K!MontgomeryBound(K!TimesBound(m, k)) <= 2200
<1>1. m * k <= m * 1659 /\ m * k \in Nat
  BY SMT
<1>2. K!TimesBound(m, k) = m * k /\ m * k < K!MaxI32
  BY <1>1, TimesBoundIs, SMT DEF K!MaxI32
<1>3. PICK p \in Nat : p = m * k
  BY <1>1
<1> QED
  BY <1>1, <1>2, <1>3, SMT DEF K!MontgomeryBound, K!MaxI32

LEMMA KemLayer ==
  ASSUME NEW re, NEW l, NEW first, NEW b \in Nat, b <= 20000, AtMost(re, b)
  PROVE  AtMost(K!ntt_at_layer(re, l, first), b + 2200)
<1>1. K!ntt_at_layer(re, l, first).m =
        K!Within16(K!Plus(re.m, K!MontgomeryBound(K!TimesBound(re.m, 1659))))
  BY DEF K!ntt_at_layer, K!MaxZeta
<1>2. "m" \in DOMAIN K!ntt_at_layer(re, l, first)
  BY DEF K!ntt_at_layer
<1>3. PICK n \in Nat : n = K!MontgomeryBound(K!TimesBound(re.m, 1659)) /\ n <= 2200
  BY KemConstant DEF AtMost
<1> QED
  BY <1>1, <1>2, <1>3, SMT DEF AtMost, K!Within16, K!Plus, K!MaxI32

LEMMA KemBarrett ==
  ASSUME NEW re, AtMost(re, 28296)
  PROVE  AtMost(K!barrett_reduce(re), 1664)
BY KemBounds DEF AtMost, K!barrett_reduce

LEMMA KemInvertLayer ==
  ASSUME NEW re, NEW l, NEW first, AtMost(re, 2600)
  PROVE  AtMost(K!invert_ntt_at_layer(re, l, first), 2600)
<1> DEFINE sum == K!inv_sum_bound(re.m)
           difference == IF l >= 4 THEN K!Plus(sum, K!Plus(re.m, re.m)) ELSE K!Plus(re.m, re.m)
           product == K!MontgomeryBound(K!TimesBound(K!Within16(difference), 1659))
<1>1. K!invert_ntt_at_layer(re, l, first).m = IF sum > product THEN sum ELSE product
  BY DEF K!invert_ntt_at_layer, K!MaxZeta
<1>2. "m" \in DOMAIN K!invert_ntt_at_layer(re, l, first)
  BY DEF K!invert_ntt_at_layer
<1>3. sum = 1664
  BY KemBounds, SMT DEF AtMost, K!inv_sum_bound, K!Plus, K!Within16, K!MaxI32, K!BarrettBound
<1>4. K!Within16(difference) \in Nat /\ K!Within16(difference) <= 7000
  BY <1>3, SMT DEF AtMost, K!Plus, K!Within16, K!MaxI32
<1>5. product \in Nat /\ product <= 2000
  BY <1>4, KemConstant
<1> HIDE DEF sum, product
<1> QED
  BY <1>1, <1>2, <1>3, <1>5 DEF AtMost

LEMMA KemCached ==
  ASSUME NEW re, AtMost(re, 1664)
  PROVE  AtMost(K!Cached(re), 1750)
<1>1. K!Cached(re).m = K!MontgomeryBound(K!TimesBound(re.m, 1659)) /\ "m" \in DOMAIN K!Cached(re)
  BY DEF K!Cached, K!MaxZeta
<1> QED
  BY <1>1, KemConstant DEF AtMost

(* The matrix is below q, a secret key below 2^12. *)
LEMMA KemAccumulate ==
  ASSUME NEW acc, NEW lhs, NEW rhs, NEW bj_zeta, NEW b \in Nat, b <= 56000000,
         AtMost(acc, b), AtMost(lhs, 4095), AtMost(rhs, 1664), AtMost(bj_zeta, 1750)
  PROVE  AtMost(K!accumulating_ntt_multiply(acc, lhs, rhs, bj_zeta), b + 14000000)
<1> DEFINE odd == IF bj_zeta.m > rhs.m THEN bj_zeta.m ELSE rhs.m
<1>1. K!accumulating_ntt_multiply(acc, lhs, rhs, bj_zeta).m =
        K!Plus(acc.m, K!Plus(K!TimesBound(lhs.m, rhs.m), K!TimesBound(lhs.m, odd)))
  BY DEF K!accumulating_ntt_multiply
<1>2. "m" \in DOMAIN K!accumulating_ntt_multiply(acc, lhs, rhs, bj_zeta)
  BY DEF K!accumulating_ntt_multiply
<1>3. odd \in Nat /\ odd <= 1750
  BY DEF AtMost
<1> HIDE DEF odd
<1>4. /\ lhs.m * rhs.m \in Nat /\ lhs.m * rhs.m <= 4095 * 1664
      /\ lhs.m * odd \in Nat /\ lhs.m * odd <= 4095 * 1750
  BY <1>3, Bounded DEF AtMost
<1>5. PICK n \in Nat, o \in Nat : /\ n = K!TimesBound(lhs.m, rhs.m) /\ n <= 4095 * 1664
                                  /\ o = K!TimesBound(lhs.m, odd) /\ o <= 4095 * 1750
  BY <1>3, <1>4, TimesBoundIs, SMT DEF AtMost, K!MaxI32
<1> QED
  BY <1>1, <1>2, <1>5, SMT DEF AtMost, K!Plus, K!MaxI32

LEMMA KemReduce ==
  ASSUME NEW acc, AtMost(acc, 56000000)
  PROVE  AtMost(K!reducing_from_i32_array(acc), 2600)
<1>1. K!reducing_from_i32_array(acc).m = K!MontgomeryBound(acc.m) /\ "m" \in DOMAIN K!reducing_from_i32_array(acc)
  BY DEF K!reducing_from_i32_array
<1> QED
  BY <1>1, SMT DEF AtMost, K!MontgomeryBound, K!MaxI32

(* What joins a row: at most three elements, and a reduction at the end. *)
LEMMA KemAdd ==
  ASSUME NEW lhs, NEW rhs
  PROVE  /\ AtMost(lhs, 2000) /\ AtMost(rhs, 3328) =>
              AtMost(K!add(lhs, rhs), 5328) /\ AtMost(K!sub(lhs, rhs), 5328)
         /\ AtMost(lhs, 3328) /\ AtMost(rhs, 1665) => AtMost(K!add(lhs, rhs), 4993)
         /\ AtMost(lhs, 2000) /\ AtMost(rhs, 4993) => AtMost(K!add(lhs, rhs), 6993)
<1>1. /\ K!add(lhs, rhs).m = K!Within16(K!Plus(lhs.m, rhs.m)) /\ "m" \in DOMAIN K!add(lhs, rhs)
      /\ K!sub(lhs, rhs).m = K!Within16(K!Plus(lhs.m, rhs.m)) /\ "m" \in DOMAIN K!sub(lhs, rhs)
  BY DEF K!add, K!sub
<1> QED
  BY <1>1, SMT DEF AtMost, K!Within16, K!Plus, K!MaxI32

LEMMA KemConstantIs ==
  ASSUME NEW re, NEW k \in {1353, 1441}, AtMost(re, 2600)
  PROVE  AtMost(K!montgomery_multiply_by_constant(re, k), 2000)
<1>1. /\ K!montgomery_multiply_by_constant(re, k).m = K!MontgomeryBound(K!TimesBound(re.m, k))
      /\ "m" \in DOMAIN K!montgomery_multiply_by_constant(re, k)
  BY DEF K!montgomery_multiply_by_constant
<1> QED
  BY <1>1, KemConstant DEF AtMost

-----------------------------------------------------------------------------
(* The elements of ML-KEM as a caller hands them over, before layer l of the   *)
(* transform, and at any time of a behaviour.                                 *)
KemFresh == IF flow = "decrypt" THEN 3328 ELSE 3
KemBefore(l) == IF l = 7 THEN KemFresh ELSE 5000 + 2200 * (7 - l)

KemOperand(n) ==
  IF phase # "ntt_x" \/ n < entry THEN 1664 ELSE IF n = entry THEN KemBefore(layer) ELSE KemFresh
KemAddend(n) ==
  IF flow # "keypair" \/ phase = "ntt_x" THEN KemFresh
  ELSE IF phase # "ntt_error" \/ n < entry THEN 1664
  ELSE IF n = entry THEN KemBefore(layer) ELSE KemFresh
KemResult(n) == IF n = row /\ phase \in {"invert", "combine"} THEN 2600 ELSE 1664
KemAccumulator == IF phase = "products" /\ (row = 0 \/ entry > 0) THEN 14000000 * entry ELSE 56000000

KemControl ==
  /\ flow \in {"keypair", "encrypt", "decrypt"}
  /\ phase \in {"ntt_x", "ntt_error", "products", "invert", "combine", "done"}
  /\ layer \in 1 .. 7 /\ entry \in 0 .. Rank - 1 /\ row \in 0 .. K!FlowRows - 1
  /\ phase \in {"ntt_x", "ntt_error"} => row = 0
  /\ phase = "ntt_error" => flow = "keypair"
  /\ phase = "invert" => flow # "keypair"
  /\ phase \in {"ntt_x", "ntt_error"} => accumulator.m = 0
  /\ phase \in {"invert", "combine"} => entry = 0

KemInv ==
  /\ KemControl
  /\ DOMAIN operand = 0 .. Rank - 1 /\ DOMAIN cache = 0 .. Rank - 1
  /\ DOMAIN addend = 0 .. K!FlowRows - 1 /\ DOMAIN result = 0 .. K!FlowRows - 1
  /\ \A n \in 0 .. Rank - 1 : AtMost(operand[n], KemOperand(n)) /\ AtMost(cache[n], 1750)
  /\ \A n \in 0 .. K!FlowRows - 1 : AtMost(addend[n], KemAddend(n)) /\ AtMost(result[n], KemResult(n))
  /\ AtMost(accumulator, KemAccumulator)

LEMMA KemRows ==
  ASSUME flow \in {"keypair", "encrypt", "decrypt"}
  PROVE  /\ Rank \in 1 .. 4 /\ K!FlowRows \in 1 .. 5
         /\ flow = "keypair" => K!FlowRows = Rank
BY TransformsAssumption DEF K!FlowRows

LEMMA KemBegins ==
  ASSUME K!Init PROVE KemInv
<1>1. /\ flow \in {"keypair", "encrypt", "decrypt"} /\ phase = "ntt_x" /\ row = 0 /\ entry = 0 /\ layer = 7
      /\ operand = [n \in 0 .. Rank - 1 |-> K!Monomial(K!ExponentOfX(n), IF flow = "decrypt" THEN K!q - 1 ELSE 3)]
      /\ addend = [n \in 0 .. K!FlowRows - 1 |->
                     K!Monomial(K!ExponentOfT(n), IF flow = "decrypt" THEN K!q - 1 ELSE 3)]
      /\ cache = [n \in 0 .. Rank - 1 |-> [v |-> [p \in 0 .. 127 |-> 0], m |-> 0]]
      /\ accumulator = K!ZERO
      /\ result = [n \in 0 .. K!FlowRows - 1 |-> K!ZERO]
  BY TransformsAssumption DEF K!Init
<1>2. \A k, b : K!Monomial(k, b).m = b /\ "m" \in DOMAIN K!Monomial(k, b)
  BY DEF K!Monomial
<1>3. K!ZERO.m = 0 /\ "m" \in DOMAIN K!ZERO
  BY DEF K!ZERO
<1>4. KemFresh = (IF flow = "decrypt" THEN K!q - 1 ELSE 3) /\ KemFresh \in Nat
  BY DEF KemFresh, K!q, K!FIELD_MODULUS
<1>5. ASSUME NEW n \in 0 .. Rank - 1
      PROVE  AtMost(operand[n], KemOperand(n)) /\ AtMost(cache[n], 1750)
  <2>1. operand[n].m = KemFresh /\ "m" \in DOMAIN operand[n]
    BY <1>1, <1>2, <1>4
  <2>2. KemOperand(n) = KemFresh
    BY <1>1 DEF KemOperand, KemBefore
  <2>3. cache[n].m = 0 /\ "m" \in DOMAIN cache[n]
    BY <1>1
  <2> QED
    BY <1>4, <2>1, <2>2, <2>3 DEF AtMost
<1>6. ASSUME NEW n \in 0 .. K!FlowRows - 1
      PROVE  AtMost(addend[n], KemAddend(n)) /\ AtMost(result[n], KemResult(n))
  BY <1>1, <1>2, <1>3, <1>4 DEF AtMost, KemAddend, KemResult
<1>7. KemControl
  <2>1. Rank \in 1 .. 4 /\ K!FlowRows \in 1 .. 5
    BY <1>1, KemRows
  <2>2. accumulator.m = 0
    BY <1>1, <1>3
  <2> QED
    BY <1>1, <2>1, <2>2 DEF KemControl
<1>8. AtMost(accumulator, KemAccumulator)
  BY <1>1, <1>3, SMT DEF AtMost, KemAccumulator
<1> QED
  BY <1>1, <1>5, <1>6, <1>7, <1>8 DEF KemInv

(* A layer takes an element from one bound to the next. *)
LEMMA KemTransformed ==
  ASSUME NEW re, KemControl, AtMost(re, KemBefore(layer))
  PROVE  AtMost(K!Transformed(re), IF layer = 1 THEN 1664 ELSE KemBefore(layer - 1))
<1> DEFINE after == IF layer = 7 /\ flow # "decrypt" THEN K!ntt_at_layer_7(re)
                    ELSE K!ntt_at_layer(re, layer, zeta_i)
<1>1. layer \in 1 .. 7
  BY DEF KemControl
<1>2. AtMost(after, IF layer = 7 THEN 7200 ELSE 5000 + 2200 * (8 - layer))
  <2>1. CASE layer = 7 /\ flow # "decrypt"
    <3>1. AtMost(after, 4803)
      BY <2>1, KemLayer7 DEF KemBefore, KemFresh
    <3> QED
      BY <2>1, <3>1 DEF AtMost
  <2>2. CASE ~(layer = 7 /\ flow # "decrypt")
    <3>1. PICK b \in Nat : b = KemBefore(layer) /\ b <= 18200
                           /\ (layer = 7 => b <= 5000) /\ (layer # 7 => b = 5000 + 2200 * (7 - layer))
      BY <1>1, <2>2 DEF KemBefore, KemFresh
    <3>2. AtMost(K!ntt_at_layer(re, layer, zeta_i), b + 2200)
      BY <3>1, KemLayer
    <3> QED
      BY <1>1, <2>2, <3>1, <3>2 DEF AtMost
  <2> QED
    BY <2>1, <2>2
<1>3. K!Transformed(re) = IF layer = 1 THEN K!barrett_reduce(after) ELSE after
  BY DEF K!Transformed
<1> HIDE DEF after
<1>4. CASE layer = 1
  <2>1. AtMost(after, 28296)
    BY <1>2, <1>4 DEF AtMost
  <2> QED
    BY <1>3, <1>4, <2>1, KemBarrett
<1>5. CASE layer # 1
  BY <1>1, <1>2, <1>3, <1>5 DEF AtMost, KemBefore
<1> QED
  BY <1>4, <1>5

LEMMA KemNttX == KemInv /\ K!NttX => KemInv'
<1> SUFFICES ASSUME KemInv, K!NttX PROVE KemInv'
  OBVIOUS
<1>1. /\ phase = "ntt_x" /\ operand' = [operand EXCEPT ![entry] = K!Transformed(@)]
      /\ IF layer > 1 THEN layer' = layer - 1 /\ phase' = phase /\ entry' = entry
         ELSE /\ layer' = 7
              /\ IF entry < Rank - 1 THEN entry' = entry + 1 /\ phase' = phase
                 ELSE entry' = 0 /\ phase' = IF flow = "keypair" THEN "ntt_error" ELSE "products"
      /\ flow' = flow /\ row' = row /\ addend' = addend /\ cache' = cache
      /\ accumulator' = accumulator /\ result' = result
  BY DEF K!NttX, K!StepLayer
<1>2. KemControl /\ row = 0 /\ accumulator.m = 0
  BY <1>1 DEF KemInv, KemControl
<1>3. K!FlowRows' = K!FlowRows /\ K!FlowRows \in 1 .. 5 /\ Rank \in 1 .. 4
      /\ (flow = "keypair" => K!FlowRows = Rank)
  BY <1>1, <1>2, KemRows DEF K!FlowRows, KemControl
<1>4. KemControl'
  BY <1>1, <1>2, <1>3 DEF KemControl
<1>5. AtMost(operand[entry], KemBefore(layer))
  BY <1>1, <1>2 DEF KemInv, KemControl, KemOperand
<1>6. AtMost(K!Transformed(operand[entry]), IF layer = 1 THEN 1664 ELSE KemBefore(layer - 1))
  BY <1>2, <1>5, KemTransformed
<1>7. ASSUME NEW n \in 0 .. Rank - 1
      PROVE  AtMost(operand'[n], KemOperand(n)')
  <2>1. AtMost(operand[n], KemOperand(n)) /\ entry \in 0 .. Rank - 1 /\ DOMAIN operand = 0 .. Rank - 1
        /\ layer \in 1 .. 7
    BY <1>2 DEF KemInv, KemControl
  <2>2. CASE n = entry
    <3>1. operand'[n] = K!Transformed(operand[entry])
      BY <1>1, <2>1, <2>2
    <3>2. KemOperand(n)' = IF layer = 1 THEN 1664 ELSE KemBefore(layer - 1)
      BY <1>1, <2>1, <2>2 DEF KemOperand, KemBefore, KemFresh
    <3> QED
      BY <1>6, <3>1, <3>2
  <2>3. CASE n # entry
    <3>1. operand'[n] = operand[n]
      BY <1>1, <2>1, <2>3
    <3>2. KemOperand(n)' = KemOperand(n)
      <4>1. CASE layer > 1
        BY <1>1, <2>3, <4>1 DEF KemOperand, KemFresh
      <4>2. CASE layer = 1
        BY <1>1, <1>3, <2>1, <2>3, <4>2 DEF KemOperand, KemBefore, KemFresh
      <4> QED
        BY <2>1, <4>1, <4>2
    <3> QED
      BY <2>1, <3>1, <3>2
  <2> QED
    BY <2>2, <2>3
<1>8. ASSUME NEW n \in 0 .. K!FlowRows - 1
      PROVE  AtMost(addend'[n], KemAddend(n)') /\ AtMost(result'[n], KemResult(n)')
  <2>1. AtMost(addend[n], KemAddend(n)) /\ AtMost(result[n], KemResult(n))
    BY DEF KemInv
  <2>2. KemAddend(n)' = KemAddend(n) /\ KemResult(n)' = KemResult(n)
    BY <1>1, <1>2, <1>3 DEF KemAddend, KemResult, KemBefore, KemFresh
  <2> QED
    BY <1>1, <2>1, <2>2
<1>9. AtMost(accumulator, KemAccumulator)'
  BY <1>1, <1>2, SMT DEF KemInv, AtMost, KemAccumulator
<1>10. DOMAIN operand' = DOMAIN operand
  BY <1>1
<1> QED
  BY <1>1, <1>3, <1>4, <1>7, <1>8, <1>9, <1>10 DEF KemInv

LEMMA KemNttError == KemInv /\ K!NttError => KemInv'
<1> SUFFICES ASSUME KemInv, K!NttError PROVE KemInv'
  OBVIOUS
<1>1. /\ phase = "ntt_error" /\ addend' = [addend EXCEPT ![entry] = K!Transformed(@)]
      /\ IF layer > 1 THEN layer' = layer - 1 /\ phase' = phase /\ entry' = entry
         ELSE /\ layer' = 7
              /\ IF entry < Rank - 1 THEN entry' = entry + 1 /\ phase' = phase
                 ELSE entry' = 0 /\ phase' = "products"
      /\ flow' = flow /\ row' = row /\ operand' = operand /\ cache' = cache
      /\ accumulator' = accumulator /\ result' = result
  BY DEF K!NttError, K!StepLayer
<1>2. KemControl /\ row = 0 /\ accumulator.m = 0 /\ flow = "keypair"
  BY <1>1 DEF KemInv, KemControl
<1>3. K!FlowRows' = K!FlowRows /\ K!FlowRows = Rank /\ Rank \in 1 .. 4
  BY <1>1, <1>2, KemRows DEF K!FlowRows, KemControl
<1>4. KemControl'
  BY <1>1, <1>2, <1>3 DEF KemControl
<1>5. AtMost(addend[entry], KemBefore(layer))
  BY <1>1, <1>2, <1>3 DEF KemInv, KemControl, KemAddend
<1>6. AtMost(K!Transformed(addend[entry]), IF layer = 1 THEN 1664 ELSE KemBefore(layer - 1))
  BY <1>2, <1>5, KemTransformed
<1>7. ASSUME NEW n \in 0 .. Rank - 1
      PROVE  AtMost(operand'[n], KemOperand(n)')
  <2>1. AtMost(operand[n], KemOperand(n))
    BY DEF KemInv
  <2>2. KemOperand(n)' = KemOperand(n)
    BY <1>1 DEF KemOperand
  <2> QED
    BY <1>1, <2>1, <2>2
<1>8. ASSUME NEW n \in 0 .. K!FlowRows - 1
      PROVE  AtMost(addend'[n], KemAddend(n)')
  <2>1. AtMost(addend[n], KemAddend(n)) /\ entry \in 0 .. Rank - 1 /\ DOMAIN addend = 0 .. Rank - 1
        /\ layer \in 1 .. 7
    BY <1>2, <1>3 DEF KemInv, KemControl
  <2>2. CASE n = entry
    <3>1. addend'[n] = K!Transformed(addend[entry])
      BY <1>1, <2>1, <2>2
    <3>2. KemAddend(n)' = IF layer = 1 THEN 1664 ELSE KemBefore(layer - 1)
      BY <1>1, <1>2, <2>1, <2>2 DEF KemAddend, KemBefore, KemFresh
    <3> QED
      BY <1>6, <3>1, <3>2
  <2>3. CASE n # entry
    <3>1. addend'[n] = addend[n]
      BY <1>1, <2>1, <2>3
    <3>2. KemAddend(n)' = KemAddend(n)
      <4>1. CASE layer > 1
        BY <1>1, <2>3, <4>1 DEF KemAddend, KemFresh
      <4>2. CASE layer = 1
        BY <1>1, <1>2, <1>3, <2>1, <2>3, <4>2 DEF KemAddend, KemBefore, KemFresh
      <4> QED
        BY <2>1, <4>1, <4>2
    <3> QED
      BY <2>1, <3>1, <3>2
  <2> QED
    BY <2>2, <2>3
<1>9. ASSUME NEW n \in 0 .. K!FlowRows - 1
      PROVE  AtMost(result'[n], KemResult(n)')
  <2>1. AtMost(result[n], KemResult(n))
    BY DEF KemInv
  <2>2. KemResult(n)' = KemResult(n)
    BY <1>1 DEF KemResult
  <2> QED
    BY <1>1, <2>1, <2>2
<1>10. AtMost(accumulator, KemAccumulator)'
  BY <1>1, <1>2, SMT DEF KemInv, AtMost, KemAccumulator
<1>11. DOMAIN addend' = DOMAIN addend
  BY <1>1
<1> QED
  BY <1>1, <1>3, <1>4, <1>7, <1>8, <1>9, <1>10, <1>11 DEF KemInv

LEMMA KemProduct == KemInv /\ K!Product => KemInv'
<1> SUFFICES ASSUME KemInv, K!Product PROVE KemInv'
  OBVIOUS
<1> DEFINE filled == K!FillCache
           acc == IF entry = 0 /\ ~(flow = "keypair" /\ row = 0) THEN K!ZERO ELSE accumulator
           bj_zeta == IF flow = "decrypt" THEN K!Cached(operand[entry]) ELSE filled[entry]
           sum == K!accumulating_ntt_multiply(acc, K!Entry(row, entry), operand[entry], bj_zeta)
<1>1. /\ phase = "products" /\ cache' = filled /\ accumulator' = sum
      /\ IF entry < Rank - 1 THEN entry' = entry + 1 /\ phase' = phase /\ result' = result
         ELSE /\ entry' = 0
              /\ result' = [result EXCEPT ![row] = K!reducing_from_i32_array(sum)]
              /\ phase' = IF flow = "keypair" THEN "combine" ELSE "invert"
      /\ layer' = IF phase' = "invert" THEN 1 ELSE layer
      /\ flow' = flow /\ row' = row /\ operand' = operand /\ addend' = addend
  BY DEF K!Product
<1>2. KemControl
  BY DEF KemInv
<1>3. K!FlowRows' = K!FlowRows /\ K!FlowRows \in 1 .. 5 /\ Rank \in 1 .. 4
  BY <1>1, <1>2, KemRows DEF K!FlowRows, KemControl
<1>4. KemControl'
  BY <1>1, <1>2, <1>3 DEF KemControl
<1>5. entry \in 0 .. Rank - 1 /\ row \in 0 .. K!FlowRows - 1 /\ layer \in 1 .. 7
  BY <1>2 DEF KemControl
<1>6. AtMost(operand[entry], 1664)
  BY <1>1, <1>5 DEF KemInv, KemOperand
<1>7. AtMost(K!Cached(operand[entry]), 1750)
  BY <1>6, KemCached
<1>8. /\ DOMAIN filled = 0 .. Rank - 1
      /\ \A n \in 0 .. Rank - 1 : AtMost(filled[n], 1750)
  <2>1. filled = IF row = 0 /\ flow # "decrypt" THEN [cache EXCEPT ![entry] = K!Cached(operand[entry])]
                 ELSE cache
    BY DEF K!FillCache
  <2>2. DOMAIN cache = 0 .. Rank - 1 /\ \A n \in 0 .. Rank - 1 : AtMost(cache[n], 1750)
    BY DEF KemInv
  <2> HIDE DEF filled
  <2> QED
    BY <1>5, <1>7, <2>1, <2>2
<1> HIDE DEF filled
<1>9. AtMost(bj_zeta, 1750)
  BY <1>5, <1>7, <1>8
<1>10. AtMost(K!Entry(row, entry), 4095)
  BY DEF AtMost, K!Entry, K!q, K!FIELD_MODULUS
<1>11. PICK b \in Nat : b <= 42000000 /\ AtMost(acc, b) /\ b = 14000000 * entry
  <2>1. CASE entry = 0 /\ ~(flow = "keypair" /\ row = 0)
    BY <2>1, SMT DEF AtMost, K!ZERO
  <2>2. CASE ~(entry = 0 /\ ~(flow = "keypair" /\ row = 0))
    BY <1>1, <1>3, <1>5, <2>2, SMTT(20) DEF KemInv, KemAccumulator, AtMost
  <2> QED
    BY <2>1, <2>2, SMT
<1> HIDE DEF acc, bj_zeta
<1>12. AtMost(sum, b + 14000000)
  BY <1>6, <1>9, <1>10, <1>11, KemAccumulate, SMT
<1> HIDE DEF sum
<1>13. AtMost(accumulator, KemAccumulator)'
  BY <1>1, <1>3, <1>5, <1>11, <1>12, SMT DEF AtMost, KemAccumulator
<1>14. AtMost(K!reducing_from_i32_array(sum), 2600)
  <2>1. AtMost(sum, 56000000)
    BY <1>11, <1>12, SMT DEF AtMost
  <2> QED
    BY <2>1, KemReduce, SMT
<1>15. ASSUME NEW n \in 0 .. Rank - 1
       PROVE  AtMost(operand'[n], KemOperand(n)')
  <2>1. KemOperand(n)' = KemOperand(n)
    BY <1>1 DEF KemOperand
  <2> QED
    BY <1>1, <2>1 DEF KemInv
<1>16. ASSUME NEW n \in 0 .. K!FlowRows - 1
       PROVE  AtMost(addend'[n], KemAddend(n)')
  <2>1. KemAddend(n)' = KemAddend(n)
    BY <1>1 DEF KemAddend, KemFresh
  <2> QED
    BY <1>1, <2>1 DEF KemInv
<1>17. DOMAIN result' = DOMAIN result
  BY <1>1
<1>18. ASSUME NEW n \in 0 .. K!FlowRows - 1
       PROVE  AtMost(result'[n], KemResult(n)')
  <2>1. AtMost(result[n], KemResult(n)) /\ DOMAIN result = 0 .. K!FlowRows - 1
    BY DEF KemInv
  <2>2. CASE entry < Rank - 1
    <3>1. KemResult(n)' = KemResult(n)
      BY <1>1, <2>2 DEF KemResult
    <3> QED
      BY <1>1, <2>1, <2>2, <3>1
  <2>3. CASE ~(entry < Rank - 1)
    <3>1. result'[n] = IF n = row THEN K!reducing_from_i32_array(sum) ELSE result[n]
      BY <1>1, <1>5, <2>1, <2>3
    <3>2. KemResult(n)' = (IF n = row THEN 2600 ELSE 1664) /\ KemResult(n) = 1664
      BY <1>1, <2>3 DEF KemResult
    <3> QED
      BY <1>14, <2>1, <3>1, <3>2
  <2> QED
    BY <2>2, <2>3
<1> QED
  BY <1>1, <1>3, <1>4, <1>8, <1>13, <1>15, <1>16, <1>17, <1>18 DEF KemInv

LEMMA KemInvert == KemInv /\ K!Invert => KemInv'
<1> SUFFICES ASSUME KemInv, K!Invert PROVE KemInv'
  OBVIOUS
<1>1. /\ phase = "invert"
      /\ result' = [result EXCEPT ![row] = K!invert_ntt_at_layer(@, layer, zeta_i)]
      /\ IF layer < 7 THEN layer' = layer + 1 /\ phase' = phase ELSE layer' = 7 /\ phase' = "combine"
      /\ flow' = flow /\ row' = row /\ entry' = entry /\ operand' = operand /\ addend' = addend
      /\ cache' = cache /\ accumulator' = accumulator
  BY DEF K!Invert
<1>2. KemControl /\ row \in 0 .. K!FlowRows - 1 /\ DOMAIN result = 0 .. K!FlowRows - 1
  BY DEF KemInv, KemControl
<1>3. K!FlowRows' = K!FlowRows
  BY <1>1 DEF K!FlowRows
<1>4. KemControl'
  BY <1>1, <1>2, <1>3 DEF KemControl
<1>5. AtMost(K!invert_ntt_at_layer(result[row], layer, zeta_i), 2600)
  BY <1>1, <1>2, KemInvertLayer DEF KemInv, KemResult
<1>6. ASSUME NEW n \in 0 .. K!FlowRows - 1
      PROVE  AtMost(result'[n], KemResult(n)')
  <2>1. result'[n] = IF n = row THEN K!invert_ntt_at_layer(result[row], layer, zeta_i) ELSE result[n]
    BY <1>1, <1>2
  <2>2. KemResult(n)' = (IF n = row THEN 2600 ELSE 1664) /\ KemResult(n) = KemResult(n)'
    BY <1>1 DEF KemResult
  <2>3. AtMost(result[n], KemResult(n))
    BY DEF KemInv
  <2> QED
    BY <1>5, <2>1, <2>2, <2>3
<1>7. /\ \A n : KemOperand(n)' = KemOperand(n)
      /\ \A n : KemAddend(n)' = KemAddend(n)
      /\ KemAccumulator' = KemAccumulator
  BY <1>1 DEF KemOperand, KemAddend, KemFresh, KemAccumulator
<1> QED
  BY <1>1, <1>3, <1>4, <1>6, <1>7 DEF KemInv

LEMMA KemCombine == KemInv /\ K!Combine => KemInv'
<1> SUFFICES ASSUME KemInv, K!Combine PROVE KemInv'
  OBVIOUS
<1> DEFINE combined ==
      CASE flow = "keypair" -> K!add_standard_error_reduce(result[row], addend[row])
        [] flow = "encrypt" /\ row < Rank -> K!add_error_reduce(result[row], addend[row])
        [] flow = "encrypt" /\ row = Rank ->
             K!add_message_error_reduce(result[row], addend[row], K!Monomial(K!ExponentOfMessage, 1665))
        [] flow = "decrypt" -> K!subtract_reduce(addend[row], result[row])
<1>1. /\ phase = "combine" /\ result' = [result EXCEPT ![row] = combined]
      /\ IF row < K!FlowRows - 1 THEN row' = row + 1 /\ phase' = "products"
         ELSE row' = row /\ phase' = "done"
      /\ flow' = flow /\ entry' = entry /\ layer' = layer /\ operand' = operand /\ addend' = addend
      /\ cache' = cache /\ accumulator' = accumulator
  BY DEF K!Combine
<1>2. /\ KemControl /\ row \in 0 .. K!FlowRows - 1 /\ DOMAIN result = 0 .. K!FlowRows - 1
      /\ flow \in {"keypair", "encrypt", "decrypt"} /\ entry = 0
  BY <1>1 DEF KemInv, KemControl
<1>3. K!FlowRows' = K!FlowRows /\ K!FlowRows \in 1 .. 5 /\ Rank \in 1 .. 4
      /\ (flow = "encrypt" => K!FlowRows = Rank + 1)
  BY <1>1, <1>2, KemRows DEF K!FlowRows
<1>4. KemControl'
  BY <1>1, <1>2, <1>3 DEF KemControl
<1>5. AtMost(result[row], 2600) /\ AtMost(addend[row], 3328)
  BY <1>1, <1>2 DEF KemInv, KemResult, KemAddend, KemFresh, AtMost
<1>6. AtMost(combined, 1664)
  <2>1. /\ AtMost(K!montgomery_multiply_by_constant(result[row], 1353), 2000)
        /\ AtMost(K!montgomery_multiply_by_constant(result[row], 1441), 2000)
    BY <1>5, KemConstantIs
  <2>2. CASE flow = "keypair"
    <3> DEFINE sum == K!add(K!to_standard_domain(result[row]), addend[row])
    <3>1. AtMost(sum, 5328)
      BY <1>5, <2>1, KemAdd DEF K!to_standard_domain
    <3>2. combined = K!barrett_reduce(sum)
      BY <2>2 DEF K!add_standard_error_reduce
    <3> HIDE DEF sum, combined
    <3>3. AtMost(sum, 28296)
      BY <3>1 DEF AtMost
    <3> QED
      BY <3>2, <3>3, KemBarrett
  <2>3. CASE flow = "encrypt" /\ row < Rank
    <3> DEFINE sum == K!add(K!montgomery_multiply_by_constant(result[row], 1441), addend[row])
    <3>1. AtMost(sum, 5328)
      BY <1>5, <2>1, KemAdd
    <3>2. combined = K!barrett_reduce(sum)
      BY <1>2, <1>3, <2>3 DEF K!add_error_reduce
    <3> HIDE DEF sum, combined
    <3>3. AtMost(sum, 28296)
      BY <3>1 DEF AtMost
    <3> QED
      BY <3>2, <3>3, KemBarrett
  <2>4. CASE flow = "encrypt" /\ row = Rank
    <3> DEFINE message == K!Monomial(K!ExponentOfMessage, 1665)
               sum == K!add(K!montgomery_multiply_by_constant(result[row], 1441),
                            K!add(addend[row], message))
    <3>1. AtMost(message, 1665)
      BY DEF AtMost, K!Monomial
    <3>2. combined = K!barrett_reduce(sum)
      BY <2>4, <1>3 DEF K!add_message_error_reduce
    <3> HIDE DEF message
    <3>3. AtMost(K!add(addend[row], message), 4993)
      BY <1>5, <3>1, KemAdd
    <3>4. AtMost(sum, 6993)
      BY <2>1, <3>3, KemAdd
    <3> HIDE DEF sum, combined
    <3>5. AtMost(sum, 28296)
      BY <3>4 DEF AtMost
    <3> QED
      BY <3>2, <3>5, KemBarrett
  <2>5. CASE flow = "decrypt"
    <3> DEFINE difference == K!sub(K!montgomery_multiply_by_constant(result[row], 1441), addend[row])
    <3>1. AtMost(difference, 5328)
      BY <1>5, <2>1, KemAdd
    <3>2. combined = K!barrett_reduce(K!negate(difference))
      BY <2>5 DEF K!subtract_reduce
    <3> HIDE DEF difference, combined
    <3>3. AtMost(K!negate(difference), 28296)
      BY <3>1 DEF AtMost, K!negate
    <3> QED
      BY <3>2, <3>3, KemBarrett
  <2> QED
    BY <1>2, <1>3, <2>2, <2>3, <2>4, <2>5
<1> HIDE DEF combined
<1>7. ASSUME NEW n \in 0 .. K!FlowRows - 1
      PROVE  AtMost(result'[n], KemResult(n)')
  <2>1. result'[n] = IF n = row THEN combined ELSE result[n]
    BY <1>1, <1>2
  <2>2. KemResult(n)' = 1664 /\ (n # row => KemResult(n) = 1664)
    BY <1>1 DEF KemResult
  <2>3. AtMost(result[n], KemResult(n))
    BY DEF KemInv
  <2> QED
    BY <1>6, <2>1, <2>2, <2>3
<1>8. /\ \A n : KemOperand(n)' = KemOperand(n)
      /\ \A n : KemAddend(n)' = KemAddend(n)
  BY <1>1 DEF KemOperand, KemAddend, KemFresh
<1>9. KemAccumulator' = 56000000 /\ KemAccumulator = 56000000
  BY <1>1, <1>2, <1>3, SMT DEF KemAccumulator
<1> QED
  BY <1>1, <1>3, <1>4, <1>7, <1>8, <1>9 DEF KemInv

LEMMA KemStep == KemInv /\ K!Next => KemInv'
BY KemNttX, KemNttError, KemProduct, KemInvert, KemCombine DEF K!Next

LEMMA KemKeepsFlow == K!Next => flow' = flow
BY DEF K!Next, K!NttX, K!NttError, K!Product, K!Invert, K!Combine

LEMMA KemRanges ==
  ASSUME KemInv, flow \in MlKemFlows
  PROVE  RangesKept
<1>1. Rank \in 1 .. 4 /\ layer \in 1 .. 7 /\ entry \in 0 .. Rank - 1
  BY TransformsAssumption DEF KemInv, KemControl
<1>2. KemFresh \in Nat /\ KemFresh <= 32767 /\ KemBefore(layer) \in Nat /\ KemBefore(layer) <= 32767
  BY <1>1 DEF KemBefore, KemFresh
<1>3. /\ \A n \in DOMAIN operand : operand[n].m <= 32767
      /\ \A n \in DOMAIN addend : addend[n].m <= 32767
  <2>1. ASSUME NEW n \in DOMAIN operand PROVE operand[n].m <= 32767
    <3>1. AtMost(operand[n], KemOperand(n))
      BY DEF KemInv
    <3>2. KemOperand(n) \in Nat /\ KemOperand(n) <= 32767
      BY <1>2, SMT DEF KemOperand
    <3> QED
      BY <3>1, <3>2 DEF AtMost
  <2>2. ASSUME NEW n \in DOMAIN addend PROVE addend[n].m <= 32767
    <3>1. AtMost(addend[n], KemAddend(n))
      BY DEF KemInv
    <3>2. KemAddend(n) \in Nat /\ KemAddend(n) <= 32767
      BY <1>2, SMT DEF KemAddend
    <3> QED
      BY <3>1, <3>2 DEF AtMost
  <2> QED
    BY <2>1, <2>2
<1>4. \A n \in DOMAIN result : result[n].m <= 32767 /\ (phase = "done" => result[n].m < K!q)
  BY DEF KemInv, KemResult, AtMost, K!q, K!FIELD_MODULUS
<1>5. \A n \in DOMAIN cache : cache[n].m <= 32767
  BY DEF KemInv, AtMost
<1>6. accumulator.m < K!MaxI32
  BY <1>1, SMT DEF KemInv, KemAccumulator, AtMost, K!MaxI32
<1>7. \A s \in {operand, addend, result} : \A n \in DOMAIN s : s[n].m <= 32767
  BY <1>3, <1>4
<1> QED
  BY <1>4, <1>5, <1>6, <1>7 DEF RangesKept

-----------------------------------------------------------------------------
(* ML-DSA's zetas: a bound is the largest of a layer's, read from its table. *)

LEMMA MaxIn ==
  ASSUME NEW b \in Nat, NEW S, S \subseteq 0 .. b, S # {}
  PROVE  D!Max(S) \in S
<1> DEFINE R == OpToRel(<, Nat)
           T == {b - s : s \in S}
<1>1. T \subseteq Nat /\ T # {}
  <2>1. T \subseteq Nat
    OBVIOUS
  <2>2. PICK s \in S : TRUE
    OBVIOUS
  <2>3. b - s \in T
    BY <2>2
  <2> QED
    BY <2>1, <2>3
<1>2. \E n \in T : \A m \in T : ~(<<m, n>> \in R)
  <2>1. IsWellFoundedOn(R, Nat)
    BY NatLessThanWellFounded
  <2> HIDE DEF R, T
  <2> QED
    BY <1>1, <2>1, WFMin, Zenon
<1>3. \A m, n \in Nat : m < n => <<m, n>> \in R
  BY DEF OpToRel
<1> HIDE DEF R
<1>4. PICK s \in S : \A m \in T : ~(<<m, b - s>> \in R)
  BY <1>2
<1>5. \A y \in S : s >= y
  <2> TAKE y \in S
  <2>1. b - y \in T /\ b - y \in Nat /\ b - s \in Nat /\ s \in Int /\ y \in Int
    BY <1>1
  <2>2. ~(b - y < b - s)
    BY <1>3, <1>4, <2>1
  <2> QED
    BY <2>1, <2>2
<1> QED
  BY <1>5 DEF D!Max

Pairs(layers, l) ==
  CASE l <= 5 -> D!outer_3_plus(layers[l])
    [] l = 6 -> D!InUnits(D!simd_unit_ntt_at_layer_2, layers[6])
    [] l = 7 -> D!InUnits(D!simd_unit_ntt_at_layer_1, layers[7])
    [] OTHER -> D!InUnits(D!simd_unit_ntt_at_layer_0, layers[8])

LEMMA ForwardIs ==
  ASSUME NEW layers, NEW l \in 1 .. 8
  PROVE  D!ForwardOf(layers)[l] = D!Pairing(Pairs(layers, l))
<1> DEFINE P6 == D!Pairing(D!InUnits(D!simd_unit_ntt_at_layer_2, layers[6]))
           P7 == D!Pairing(D!InUnits(D!simd_unit_ntt_at_layer_1, layers[7]))
           P8 == D!Pairing(D!InUnits(D!simd_unit_ntt_at_layer_0, layers[8]))
           P(n) == D!Pairing(D!outer_3_plus(layers[n]))
<1>1. D!ForwardOf(layers) = [n \in 1 .. 5 |-> P(n)] \o <<P6, P7, P8>>
  BY DEF D!ForwardOf
<1>2. /\ l \in 1 .. 5 => D!Pairing(Pairs(layers, l)) = P(l)
      /\ l = 6 => D!Pairing(Pairs(layers, l)) = P6
      /\ l = 7 => D!Pairing(Pairs(layers, l)) = P7
      /\ l = 8 => D!Pairing(Pairs(layers, l)) = P8
  BY DEF Pairs
<1> HIDE DEF P, P6, P7, P8
<1>3. ([n \in 1 .. 5 |-> P(n)] \o <<P6, P7, P8>>)[l] =
        IF l \in 1 .. 5 THEN P(l) ELSE IF l = 6 THEN P6 ELSE IF l = 7 THEN P7 ELSE P8
  OBVIOUS
<1> QED
  BY <1>1, <1>2, <1>3

MaxZeta == 4190208
Zetas == {z \in Int : -MaxZeta <= z /\ z <= MaxZeta}
Blocks == [offset : 0 .. 31, step : 1 .. 16, zeta : Zetas]

(* The zetas of a set of butterflies. *)
ZetasOf(butterflies) == {b.zeta : b \in butterflies}

LEMMA MaxZetaIs == MaxZeta \in Nat
BY SMT DEF MaxZeta

LEMMA PairingZeta ==
  ASSUME NEW butterflies, butterflies # {}, ZetasOf(butterflies) \subseteq Zetas
  PROVE  D!Pairing(butterflies).zeta \in 0 .. MaxZeta
<1> DEFINE S == {IF b.zeta < 0 THEN -b.zeta ELSE b.zeta : b \in butterflies}
<1>1. \A b \in butterflies : (IF b.zeta < 0 THEN -b.zeta ELSE b.zeta) \in 0 .. MaxZeta
  <2> TAKE b \in butterflies
  <2>1. b.zeta \in Zetas
    BY DEF ZetasOf
  <2> QED
    BY <2>1, MaxZetaIs, SMT DEF Zetas
<1>2. S # {}
  OBVIOUS
<1>3. D!Pairing(butterflies).zeta = D!Max(S)
  BY DEF D!Pairing
<1>4. S \subseteq 0 .. MaxZeta
  BY <1>1
<1> HIDE DEF S
<1> QED
  BY <1>2, <1>3, <1>4, MaxIn, MaxZetaIs

LEMMA OuterZetas ==
  ASSUME NEW blocks \in Seq(Blocks), Len(blocks) >= 1
  PROVE  D!outer_3_plus(blocks) # {} /\ ZetasOf(D!outer_3_plus(blocks)) \subseteq Zetas
<1> DEFINE Butterfly(b, n, l) ==
      [lo |-> 8 * n + l, hi |-> 8 * (n + blocks[b].step) + l, zeta |-> blocks[b].zeta]
<1>1. \A b \in DOMAIN blocks : blocks[b] \in Blocks
  OBVIOUS
<1>2. ASSUME NEW p \in D!outer_3_plus(blocks)
      PROVE  p.zeta \in Zetas
  <2>1. PICK b \in DOMAIN blocks : p.zeta = blocks[b].zeta
    BY DEF D!outer_3_plus
  <2> QED
    BY <1>1, <2>1 DEF Blocks
<1>3. D!outer_3_plus(blocks) # {}
  <2> DEFINE Units(b) == blocks[b].offset .. blocks[b].offset + blocks[b].step - 1
             Of(b) == {Butterfly(b, n, l) : l \in D!Coefficient, n \in Units(b)}
  <2>1. D!outer_3_plus(blocks) = UNION {Of(b) : b \in DOMAIN blocks}
    BY DEF D!outer_3_plus
  <2>2. 1 \in DOMAIN blocks /\ 0 \in D!Coefficient
    BY DEF D!Coefficient
  <2>3. blocks[1].offset \in 0 .. 31 /\ blocks[1].step \in 1 .. 16
    BY <1>1, <2>2 DEF Blocks
  <2>4. PICK n \in Int, s \in Int : n = blocks[1].offset /\ s = blocks[1].step /\ s >= 1
    BY <2>3
  <2>5. n \in n .. n + s - 1
    BY <2>4
  <2>6. n \in Units(1)
    BY <2>4, <2>5, Zenon
  <2> HIDE DEF Butterfly, Units
  <2>7. \A l \in D!Coefficient : \A m \in Units(1) : Butterfly(1, m, l) \in Of(1)
    OBVIOUS
  <2> HIDE DEF Of
  <2>8. Of(1) # {}
    BY <2>2, <2>6, <2>7
  <2> QED
    BY <2>1, <2>2, <2>8
<1> QED
  BY <1>2, <1>3 DEF ZetasOf

(* Tables of a round's zetas: 32 rows of width many. *)
IsTable(table, width) == \A u \in 1 .. 32 : \A k \in 1 .. width : table[u][k] \in Zetas

LEMMA UnitZetas ==
  ASSUME NEW table, NEW width \in {1, 2, 4}, IsTable(table, width)
  PROVE  LET butterflies == CASE width = 1 -> D!InUnits(D!simd_unit_ntt_at_layer_2, table)
                              [] width = 2 -> D!InUnits(D!simd_unit_ntt_at_layer_1, table)
                              [] OTHER -> D!InUnits(D!simd_unit_ntt_at_layer_0, table)
         IN  butterflies # {} /\ ZetasOf(butterflies) \subseteq Zetas
<1>1. \A u \in 0 .. 31 : \A k \in 1 .. width : table[u + 1][k] \in Zetas
  BY DEF IsTable
<1>2. CASE width = 1
  <2> DEFINE Butterfly(u, l) ==
               [lo |-> 8 * u + l, hi |-> 8 * u + l + 4, zeta |-> table[u + 1][1]]
             Unit(u) == {Butterfly(u, l) : l \in 0 .. 3}
  <2>1. D!InUnits(D!simd_unit_ntt_at_layer_2, table) = UNION {Unit(u) : u \in 0 .. 31}
    BY DEF D!InUnits, D!simd_unit_ntt_at_layer_2
  <2>2. \A u \in 0 .. 31 : Unit(u) # {} /\ \A p \in Unit(u) : p.zeta \in Zetas
    <3> TAKE u \in 0 .. 31
    <3>1. table[u + 1][1] \in Zetas
      BY <1>1, <1>2
    <3>2. \A l \in 0 .. 3 : Butterfly(u, l).zeta \in Zetas
      BY <3>1
    <3>3. 0 \in 0 .. 3
      OBVIOUS
    <3> HIDE DEF Butterfly
    <3> QED
      BY <3>2, <3>3
  <2> HIDE DEF Unit
  <2>3. 0 \in 0 .. 31
    OBVIOUS
  <2>4. UNION {Unit(u) : u \in 0 .. 31} # {} /\ ZetasOf(UNION {Unit(u) : u \in 0 .. 31}) \subseteq Zetas
    BY <2>2, <2>3 DEF ZetasOf
  <2> QED
    BY <1>2, <2>1, <2>4
<1>3. CASE width = 2
  <2> DEFINE Butterfly(u, l) ==
               [lo |-> 8 * u + l, hi |-> 8 * u + l + 2, zeta |-> table[u + 1][1 + (l \div 4)]]
             Unit(u) == {Butterfly(u, l) : l \in {0, 1, 4, 5}}
  <2>1. D!InUnits(D!simd_unit_ntt_at_layer_1, table) = UNION {Unit(u) : u \in 0 .. 31}
    BY DEF D!InUnits, D!simd_unit_ntt_at_layer_1
  <2>2. \A u \in 0 .. 31 : Unit(u) # {} /\ \A p \in Unit(u) : p.zeta \in Zetas
    <3> TAKE u \in 0 .. 31
    <3>1. \A l \in {0, 1, 4, 5} : 1 + (l \div 4) \in 1 .. 2
      OBVIOUS
    <3>2. \A l \in {0, 1, 4, 5} : Butterfly(u, l).zeta \in Zetas
      BY <1>1, <1>3, <3>1
    <3>3. 0 \in {0, 1, 4, 5}
      OBVIOUS
    <3> HIDE DEF Butterfly
    <3> QED
      BY <3>2, <3>3
  <2> HIDE DEF Unit
  <2>3. 0 \in 0 .. 31
    OBVIOUS
  <2>4. UNION {Unit(u) : u \in 0 .. 31} # {} /\ ZetasOf(UNION {Unit(u) : u \in 0 .. 31}) \subseteq Zetas
    BY <2>2, <2>3 DEF ZetasOf
  <2> QED
    BY <1>3, <2>1, <2>4
<1>4. CASE width = 4
  <2> DEFINE Butterfly(u, l) ==
               [lo |-> 8 * u + l, hi |-> 8 * u + l + 1, zeta |-> table[u + 1][1 + (l \div 2)]]
             Unit(u) == {Butterfly(u, l) : l \in {0, 2, 4, 6}}
  <2>1. D!InUnits(D!simd_unit_ntt_at_layer_0, table) = UNION {Unit(u) : u \in 0 .. 31}
    BY DEF D!InUnits, D!simd_unit_ntt_at_layer_0
  <2>2. \A u \in 0 .. 31 : Unit(u) # {} /\ \A p \in Unit(u) : p.zeta \in Zetas
    <3> TAKE u \in 0 .. 31
    <3>1. \A l \in {0, 2, 4, 6} : 1 + (l \div 2) \in 1 .. 4
      OBVIOUS
    <3>2. \A l \in {0, 2, 4, 6} : Butterfly(u, l).zeta \in Zetas
      BY <1>1, <1>4, <3>1
    <3>3. 0 \in {0, 2, 4, 6}
      OBVIOUS
    <3> HIDE DEF Butterfly
    <3> QED
      BY <3>2, <3>3
  <2> HIDE DEF Unit
  <2>3. 0 \in 0 .. 31
    OBVIOUS
  <2>4. UNION {Unit(u) : u \in 0 .. 31} # {} /\ ZetasOf(UNION {Unit(u) : u \in 0 .. 31}) \subseteq Zetas
    BY <2>2, <2>3 DEF ZetasOf
  <2> QED
    BY <1>4, <2>1, <2>4
<1> QED
  BY <1>2, <1>3, <1>4

LEMMA ExtractedTables ==
  /\ \A l \in 1 .. 5 : D!extracted_ntt.forward[l] \in Seq(Blocks) /\ Len(D!extracted_ntt.forward[l]) >= 1
  /\ IsTable(D!extracted_ntt.forward[6], 1)
  /\ IsTable(D!extracted_ntt.forward[7], 2)
  /\ IsTable(D!extracted_ntt.forward[8], 4)
<1>1. D!ntt_at_layer_7 \in Seq(Blocks) /\ Len(D!ntt_at_layer_7) >= 1
  BY SMT DEF D!ntt_at_layer_7, D!Outer, Blocks, Zetas, MaxZeta
<1>2. D!ntt_at_layer_6 \in Seq(Blocks) /\ Len(D!ntt_at_layer_6) >= 1
  BY SMT DEF D!ntt_at_layer_6, D!Outer, Blocks, Zetas, MaxZeta
<1>3. D!ntt_at_layer_5 \in Seq(Blocks) /\ Len(D!ntt_at_layer_5) >= 1
  BY SMT DEF D!ntt_at_layer_5, D!Outer, Blocks, Zetas, MaxZeta
<1>4. D!ntt_at_layer_4 \in Seq(Blocks) /\ Len(D!ntt_at_layer_4) >= 1
  BY SMT DEF D!ntt_at_layer_4, D!Outer, Blocks, Zetas, MaxZeta
<1>5. D!ntt_at_layer_3 \in Seq(Blocks) /\ Len(D!ntt_at_layer_3) >= 1
  <2>1. D!ntt_at_layer_3_from_0 \in Seq(Blocks) /\ Len(D!ntt_at_layer_3_from_0) >= 1
    BY SMT DEF D!ntt_at_layer_3_from_0, D!Outer, Blocks, Zetas, MaxZeta
  <2>2. D!ntt_at_layer_3_from_16 \in Seq(Blocks)
    BY SMT DEF D!ntt_at_layer_3_from_16, D!Outer, Blocks, Zetas, MaxZeta
  <2> QED
    BY <2>1, <2>2, ConcatProperties DEF D!ntt_at_layer_3
<1>6. IsTable(D!ntt_at_layer_2, 1)
  BY SMT DEF D!ntt_at_layer_2, IsTable, Zetas, MaxZeta
<1>7. IsTable(D!ntt_at_layer_1, 2)
  BY SMT DEF D!ntt_at_layer_1, IsTable, Zetas, MaxZeta
<1>8. IsTable(D!ntt_at_layer_0, 4)
  BY SMT DEF D!ntt_at_layer_0, IsTable, Zetas, MaxZeta
<1>9. /\ D!extracted_ntt.forward[1] = D!ntt_at_layer_7
      /\ D!extracted_ntt.forward[2] = D!ntt_at_layer_6
      /\ D!extracted_ntt.forward[3] = D!ntt_at_layer_5
      /\ D!extracted_ntt.forward[4] = D!ntt_at_layer_4
      /\ D!extracted_ntt.forward[5] = D!ntt_at_layer_3
      /\ D!extracted_ntt.forward[6] = D!ntt_at_layer_2
      /\ D!extracted_ntt.forward[7] = D!ntt_at_layer_1
      /\ D!extracted_ntt.forward[8] = D!ntt_at_layer_0
  BY DEF D!extracted_ntt
<1> QED
  BY <1>1, <1>2, <1>3, <1>4, <1>5, <1>6, <1>7, <1>8, <1>9

LEMMA CombinedTables ==
  /\ \A l \in 1 .. 5 : D!combined_ntt.forward[l] \in Seq(Blocks) /\ Len(D!combined_ntt.forward[l]) >= 1
  /\ IsTable(D!combined_ntt.forward[6], 1)
  /\ IsTable(D!combined_ntt.forward[7], 2)
  /\ IsTable(D!combined_ntt.forward[8], 4)
<1>1. D!combined_ntt_at_layer_7 \in Seq(Blocks) /\ Len(D!combined_ntt_at_layer_7) >= 1
  BY SMT DEF D!combined_ntt_at_layer_7, D!Outer, Blocks, Zetas, MaxZeta
<1>2. D!combined_ntt_at_layer_6 \in Seq(Blocks) /\ Len(D!combined_ntt_at_layer_6) >= 1
  BY SMT DEF D!combined_ntt_at_layer_6, D!Outer, Blocks, Zetas, MaxZeta
<1>3. D!combined_ntt_at_layer_5 \in Seq(Blocks) /\ Len(D!combined_ntt_at_layer_5) >= 1
  BY SMT DEF D!combined_ntt_at_layer_5, D!Outer, Blocks, Zetas, MaxZeta
<1>4. D!combined_ntt_at_layer_4 \in Seq(Blocks) /\ Len(D!combined_ntt_at_layer_4) >= 1
  BY SMT DEF D!combined_ntt_at_layer_4, D!Outer, Blocks, Zetas, MaxZeta
<1>5. D!combined_ntt_at_layer_3 \in Seq(Blocks) /\ Len(D!combined_ntt_at_layer_3) >= 1
  <2>1. D!combined_ntt_at_layer_3_from_0 \in Seq(Blocks) /\ Len(D!combined_ntt_at_layer_3_from_0) >= 1
    BY SMT DEF D!combined_ntt_at_layer_3_from_0, D!Outer, Blocks, Zetas, MaxZeta
  <2>2. D!combined_ntt_at_layer_3_from_16 \in Seq(Blocks)
    BY SMT DEF D!combined_ntt_at_layer_3_from_16, D!Outer, Blocks, Zetas, MaxZeta
  <2> QED
    BY <2>1, <2>2, ConcatProperties DEF D!combined_ntt_at_layer_3
<1>6. IsTable(D!combined_ntt_at_layer_2, 1)
  BY SMT DEF D!combined_ntt_at_layer_2, IsTable, Zetas, MaxZeta
<1>7. IsTable(D!combined_ntt_at_layer_1, 2)
  BY SMT DEF D!combined_ntt_at_layer_1, IsTable, Zetas, MaxZeta
<1>8. IsTable(D!combined_ntt_at_layer_0, 4)
  BY SMT DEF D!combined_ntt_at_layer_0, IsTable, Zetas, MaxZeta
<1>9. /\ D!combined_ntt.forward[1] = D!combined_ntt_at_layer_7
      /\ D!combined_ntt.forward[2] = D!combined_ntt_at_layer_6
      /\ D!combined_ntt.forward[3] = D!combined_ntt_at_layer_5
      /\ D!combined_ntt.forward[4] = D!combined_ntt_at_layer_4
      /\ D!combined_ntt.forward[5] = D!combined_ntt_at_layer_3
      /\ D!combined_ntt.forward[6] = D!combined_ntt_at_layer_2
      /\ D!combined_ntt.forward[7] = D!combined_ntt_at_layer_1
      /\ D!combined_ntt.forward[8] = D!combined_ntt_at_layer_0
  BY DEF D!combined_ntt
<1> QED
  BY <1>1, <1>2, <1>3, <1>4, <1>5, <1>6, <1>7, <1>8, <1>9


LEMMA ForwardZeta ==
  ASSUME NEW name \in {"extracted", "combined"}, NEW l \in 1 .. 8
  PROVE  D!Forward[name][l].zeta \in 0 .. MaxZeta
<1>1. PICK layers : /\ D!Forward[name] = D!ForwardOf(layers)
                    /\ \A n \in 1 .. 5 : layers[n] \in Seq(Blocks) /\ Len(layers[n]) >= 1
                    /\ IsTable(layers[6], 1) /\ IsTable(layers[7], 2) /\ IsTable(layers[8], 4)
  <2>1. CASE name = "extracted"
    <3>1. D!Forward[name] = D!ForwardOf(D!extracted_ntt.forward)
      BY <2>1, SMTT(20) DEF D!Forward
    <3> QED
      BY <3>1, ExtractedTables, SMTT(20)
  <2>2. CASE name = "combined"
    <3>1. D!Forward[name] = D!ForwardOf(D!combined_ntt.forward)
      BY <2>2, SMTT(20) DEF D!Forward
    <3> QED
      BY <3>1, CombinedTables, SMTT(20)
  <2> QED
    BY <2>1, <2>2
<1>2. D!ForwardOf(layers)[l] = D!Pairing(Pairs(layers, l))
  BY ForwardIs
<1>3. Pairs(layers, l) # {} /\ ZetasOf(Pairs(layers, l)) \subseteq Zetas
  <2>1. CASE l \in 1 .. 5
    <3>1. Pairs(layers, l) = D!outer_3_plus(layers[l])
      BY <2>1 DEF Pairs
    <3> QED
      BY <1>1, <2>1, <3>1, OuterZetas
  <2>2. CASE l = 6
    <3>1. Pairs(layers, l) = D!InUnits(D!simd_unit_ntt_at_layer_2, layers[6])
      BY <2>2 DEF Pairs
    <3> QED
      BY <1>1, <3>1, UnitZetas
  <2>3. CASE l = 7
    <3>1. Pairs(layers, l) = D!InUnits(D!simd_unit_ntt_at_layer_1, layers[7])
      BY <2>3 DEF Pairs
    <3> QED
      BY <1>1, <3>1, UnitZetas
  <2>4. CASE l = 8
    <3>1. Pairs(layers, l) = D!InUnits(D!simd_unit_ntt_at_layer_0, layers[8])
      BY <2>4 DEF Pairs
    <3> QED
      BY <1>1, <3>1, UnitZetas
  <2> QED
    BY <2>1, <2>2, <2>3, <2>4
<1> QED
  BY <1>1, <1>2, <1>3, PairingZeta

LayerBound == 4250000
ProductBound == 4600000
AddendBound == 524288

LEMMA DsaMontgomery ==
  ASSUME NEW a \in Nat, NEW b \in Nat
  PROVE  /\ a <= 9 * LayerBound /\ b <= 9 * LayerBound =>
              D!MontgomeryBound(a, b) \in Nat /\ D!MontgomeryBound(a, b) <= ProductBound
         /\ a <= 9 * LayerBound /\ b <= MaxZeta =>
              D!MontgomeryBound(a, b) \in Nat /\ D!MontgomeryBound(a, b) <= LayerBound
         /\ a <= 256 * ProductBound /\ b <= 41978 =>
              D!MontgomeryBound(a, b) \in Nat /\ D!MontgomeryBound(a, b) <= ProductBound
<1>1. PICK m \in Nat, n \in Nat : m = (a \div 65536) + 1 /\ n = (b \div 65536) + 1
  BY SMT
<1>2. D!MontgomeryBound(a, b) = m * n + 4190209
  BY <1>1, SMT DEF D!MontgomeryBound, D!q
<1>3. ASSUME a <= 9 * LayerBound, b <= 9 * LayerBound
      PROVE  D!MontgomeryBound(a, b) \in Nat /\ D!MontgomeryBound(a, b) <= ProductBound
  <2>1. m <= 584 /\ n <= 584
    BY <1>1, <1>3, SMT DEF LayerBound
  <2>2. m * n \in Nat /\ m * n <= 584 * 584
    BY <2>1, Bounded
  <2> QED
    BY <1>2, <2>2, SMT DEF ProductBound
<1>4. ASSUME a <= 9 * LayerBound, b <= MaxZeta
      PROVE  D!MontgomeryBound(a, b) \in Nat /\ D!MontgomeryBound(a, b) <= LayerBound
  <2>1. m <= 584 /\ n <= 64
    BY <1>1, <1>4, SMT DEF LayerBound, MaxZeta
  <2>2. m * n \in Nat /\ m * n <= 584 * 64
    BY <2>1, Bounded
  <2> QED
    BY <1>2, <2>2, SMT DEF LayerBound, ProductBound, MaxZeta
<1>5. ASSUME a <= 256 * ProductBound, b <= 41978
      PROVE  D!MontgomeryBound(a, b) \in Nat /\ D!MontgomeryBound(a, b) <= ProductBound
  <2>1. m <= 17969 /\ n = 1
    BY <1>1, <1>5, SMT DEF ProductBound
  <2> QED
    BY <1>2, <2>1, SMT DEF ProductBound
<1> QED
  BY <1>3, <1>4, <1>5

LEMMA DsaWeaker ==
  ASSUME NEW re, NEW b \in Nat, NEW c \in Nat, AtMost(re, b), b <= c
  PROVE  AtMost(re, c)
BY DEF AtMost

(* One more layer of the transform. *)
LEMMA DsaLayer ==
  ASSUME NEW re, NEW l \in 1 .. 8, copy \in {"extracted", "combined"}, AtMost(re, LayerBound * l)
  PROVE  AtMost(D!ntt_layer(re, D!Forward[copy][l]), LayerBound * (l + 1))
<1> DEFINE p == D!Forward[copy][l]
<1>1. p.zeta \in Nat /\ p.zeta <= MaxZeta
  BY ForwardZeta, MaxZetaIs
<1> HIDE DEF p
<1>2. re.m \in Nat /\ re.m <= 9 * LayerBound /\ re.m <= LayerBound * l
  BY SMT DEF AtMost, LayerBound
<1>3. PICK n \in Nat : n = D!MontgomeryBound(re.m, p.zeta) /\ n <= LayerBound
  BY <1>1, <1>2, DsaMontgomery
<1>4. D!ntt_layer(re, p).m = D!Plus(re.m, n) /\ "m" \in DOMAIN D!ntt_layer(re, p)
  BY <1>3 DEF D!ntt_layer
<1>5. AtMost(D!ntt_layer(re, p), LayerBound * (l + 1))
  BY <1>2, <1>3, <1>4, SMT DEF AtMost, D!Plus, D!MaxI32, LayerBound
<1> QED
  BY <1>5 DEF p

LEMMA DsaProductIs ==
  ASSUME NEW lhs, NEW rhs, AtMost(lhs, 9 * LayerBound), AtMost(rhs, 9 * LayerBound)
  PROVE  AtMost(D!montgomery_multiply(lhs, rhs), ProductBound)
<1>1. /\ D!montgomery_multiply(lhs, rhs).m = D!MontgomeryBound(lhs.m, rhs.m)
      /\ "m" \in DOMAIN D!montgomery_multiply(lhs, rhs)
  BY DEF D!montgomery_multiply
<1> QED
  BY <1>1, DsaMontgomery, SMT DEF AtMost

LEMMA DsaAdd ==
  ASSUME NEW lhs, NEW rhs, NEW b \in Nat, NEW c \in Nat, b + c <= D!MaxI32, AtMost(lhs, b), AtMost(rhs, c)
  PROVE  AtMost(D!add(lhs, rhs), b + c) /\ AtMost(D!subtract(lhs, rhs), b + c)
<1>1. /\ D!add(lhs, rhs).m = D!Plus(lhs.m, rhs.m) /\ "m" \in DOMAIN D!add(lhs, rhs)
      /\ D!subtract(lhs, rhs).m = D!Plus(lhs.m, rhs.m) /\ "m" \in DOMAIN D!subtract(lhs, rhs)
  BY DEF D!add, D!subtract
<1> QED
  BY <1>1, SMT DEF AtMost, D!Plus, D!MaxI32

LEMMA DsaReduce ==
  ASSUME NEW re, AtMost(re, 8 * ProductBound)
  PROVE  AtMost(D!reduce(re), ProductBound)
<1>1. /\ D!reduce(re).m = IF re.m > D!MaxI32 \div 2^0 THEN D!MaxI32 ELSE D!ReducedBound(re.m * 2^0)
      /\ "m" \in DOMAIN D!reduce(re)
  BY DEF D!reduce, D!shift_left_then_reduce
<1>2. 2^0 = 1
  OBVIOUS
<1>3. re.m \in Nat /\ re.m <= 8 * ProductBound
  BY DEF AtMost
<1>4. D!reduce(re).m = D!ReducedBound(re.m)
  BY <1>1, <1>2, <1>3, SMT DEF D!MaxI32, ProductBound
<1> QED
  BY <1>1, <1>3, <1>4, SMT DEF AtMost, D!ReducedBound, D!Plus, D!MaxI32, ProductBound

LEMMA DsaShift ==
  ASSUME NEW re, AtMost(re, 1023)
  PROVE  AtMost(D!shift_left_then_reduce(re, 13), LayerBound)
<1> DEFINE shifted == D!shift_left_then_reduce(re, 13)
<1>1. /\ shifted.m = IF re.m > D!MaxI32 \div 2^13 THEN D!MaxI32 ELSE D!ReducedBound(re.m * 2^13)
      /\ "m" \in DOMAIN shifted
  BY DEF D!shift_left_then_reduce
<1> HIDE DEF shifted
<1>2. 2^13 = 8192
  OBVIOUS
<1>3. re.m \in Nat /\ re.m <= 1023
  BY DEF AtMost
<1>4. shifted.m = D!ReducedBound(re.m * 8192)
  BY <1>1, <1>2, <1>3, SMT DEF D!MaxI32
<1>5. AtMost(shifted, LayerBound)
  BY <1>1, <1>3, <1>4, SMT DEF AtMost, D!ReducedBound, D!Plus, D!MaxI32, LayerBound
<1> QED
  BY <1>5 DEF shifted

(* How often the inverse transform has doubled a coefficient before a layer. *)
TwoTo(l) == CASE l = 1 -> 1 [] l = 2 -> 2 [] l = 3 -> 4 [] l = 4 -> 8
              [] l = 5 -> 16 [] l = 6 -> 32 [] l = 7 -> 64 [] l = 8 -> 128 [] OTHER -> 256

LEMMA TwoToIs ==
  ASSUME NEW l \in 1 .. 8
  PROVE  /\ TwoTo(l) \in Nat /\ TwoTo(l) <= 128 /\ TwoTo(l + 1) = 2 * TwoTo(l)
         /\ TwoTo(1) = 1 /\ TwoTo(9) = 256
BY SMT DEF TwoTo

LEMMA DsaInvertLayer ==
  ASSUME NEW re, NEW p, NEW l \in 1 .. 8, AtMost(re, ProductBound * TwoTo(l))
  PROVE  AtMost(D!invert_ntt_layer(re, p), ProductBound * TwoTo(l + 1))
<1>1. D!invert_ntt_layer(re, p).m = D!Plus(re.m, re.m) /\ "m" \in DOMAIN D!invert_ntt_layer(re, p)
  BY DEF D!invert_ntt_layer
<1>2. PICK n \in Nat : n = TwoTo(l) /\ n <= 128 /\ TwoTo(l + 1) = 2 * n
  BY TwoToIs
<1> QED
  BY <1>1, <1>2, SMT DEF AtMost, D!Plus, D!MaxI32, ProductBound

LEMMA DsaScale ==
  ASSUME NEW re, AtMost(re, 256 * ProductBound)
  PROVE  AtMost(D!invert_ntt_scale(re), ProductBound)
<1>1. /\ D!invert_ntt_scale(re).m = D!MontgomeryBound(re.m, 41978)
      /\ "m" \in DOMAIN D!invert_ntt_scale(re)
  BY DEF D!invert_ntt_scale, D!montgomery_multiply_by_constant
<1> QED
  BY <1>1, DsaMontgomery, SMT DEF AtMost

-----------------------------------------------------------------------------
(* The elements of ML-DSA at any time of a behaviour.  A row's result is the   *)
(* sum of its products, then what the inverse transform makes of it.          *)
DsaOperand(n) ==
  LayerBound * (IF phase # "ntt_x" \/ n < entry THEN 9 ELSE IF n = entry THEN layer ELSE 1)
DsaChallenge ==
  LayerBound * (CASE phase = "ntt_x" -> 1 [] phase = "ntt_c" -> layer [] OTHER -> 9)

(* The verifier's t1, shifted and transformed. *)
DsaAddend(n) ==
  IF flow # "verify" THEN AddendBound
  ELSE IF n < row \/ (n = row /\ phase \in {"reduce", "invert", "scale", "combine", "done"})
       THEN LayerBound * 9
       ELSE IF n = row /\ phase = "ntt_t" THEN LayerBound * layer ELSE 1023

DsaRow ==
  CASE phase = "products" -> ProductBound * entry
    [] phase = "ntt_t" -> ProductBound * 7
    [] phase = "reduce" -> ProductBound * 8
    [] phase = "invert" -> ProductBound * TwoTo(layer)
    [] phase = "scale" -> ProductBound * 256
    [] phase = "combine" -> ProductBound
    [] phase = "done" -> D!q - 1
    [] OTHER -> 0
DsaResult(n) ==
  IF n = row THEN DsaRow
  ELSE IF n < row THEN IF flow = "keygen" /\ phase = "products" THEN ProductBound * 7 ELSE D!q - 1
  ELSE IF flow = "keygen" /\ phase \notin {"ntt_x", "products"} THEN ProductBound * 7 ELSE 0

DsaControl ==
  /\ copy \in {"extracted", "combined"}
  /\ flow \in {"keygen", "sign", "respond", "remainder", "verify"}
  /\ phase \in {"ntt_x", "ntt_c", "products", "ntt_t", "times", "reduce", "invert", "scale", "combine", "done"}
  /\ layer \in 1 .. 8 /\ entry \in 0 .. D!Vectors - 1 /\ row \in 0 .. Rows - 1
  /\ phase \notin {"ntt_x", "ntt_c", "ntt_t", "invert"} => layer = 1
  /\ phase \notin {"ntt_x", "products"} => entry = 0
  /\ phase \in {"ntt_x", "ntt_c"} => row = 0
  /\ phase = "ntt_c" => flow \in {"respond", "remainder", "verify"}
  /\ phase = "products" => flow \in {"keygen", "sign", "verify"}
  /\ phase = "ntt_t" => flow = "verify"
  /\ phase = "times" => flow \in {"respond", "remainder"}
  /\ phase = "done" => row = Rows - 1

DsaInv ==
  /\ DsaControl
  /\ DOMAIN operand = 0 .. D!Vectors - 1
  /\ DOMAIN addend = 0 .. Rows - 1 /\ DOMAIN result = 0 .. Rows - 1
  /\ \A n \in 0 .. D!Vectors - 1 : AtMost(operand[n], DsaOperand(n))
  /\ AtMost(challenge, DsaChallenge)
  /\ \A n \in 0 .. Rows - 1 : AtMost(addend[n], DsaAddend(n)) /\ AtMost(result[n], DsaResult(n))

LEMMA DsaSizes ==
  ASSUME flow \in {"keygen", "sign", "respond", "remainder", "verify"}
  PROVE  /\ Rows \in 1 .. 8 /\ Columns \in 1 .. 7 /\ D!Vectors \in 1 .. 8
         /\ D!Vectors = IF flow \in {"respond", "remainder"} THEN Rows ELSE Columns
BY TransformsAssumption DEF D!Vectors

LEMMA DsaConstants ==
  LayerBound \in Nat /\ ProductBound \in Nat /\ AddendBound \in Nat /\ D!q - 1 \in Nat
BY SMT DEF LayerBound, ProductBound, AddendBound, D!q

LEMMA DsaBegins ==
  ASSUME D!Init PROVE DsaInv
<1>1. /\ copy \in {"extracted", "combined"}
      /\ flow \in {"keygen", "sign", "respond", "remainder", "verify"}
      /\ phase = "ntt_x" /\ row = 0 /\ entry = 0 /\ layer = 1
      /\ operand = [n \in 0 .. D!Vectors - 1 |-> D!Monomial(D!ExponentOfX(n), D!InputBound)]
      /\ challenge = D!Monomial(D!ExponentOfC, 1)
      /\ addend = [n \in 0 .. Rows - 1 |-> D!Monomial(D!ExponentOfT(n), D!OtherBound)]
      /\ result = [n \in 0 .. Rows - 1 |-> D!ZERO]
  BY TransformsAssumption, SMT DEF D!Init, D!Forward
<1>2. \A k, b : D!Monomial(k, b).m = b /\ "m" \in DOMAIN D!Monomial(k, b)
  BY DEF D!Monomial
<1>3. D!ZERO.m = 0 /\ "m" \in DOMAIN D!ZERO
  BY DEF D!ZERO
<1>4. /\ D!InputBound \in Nat /\ D!InputBound <= LayerBound
      /\ D!OtherBound \in Nat /\ D!OtherBound <= AddendBound
      /\ flow = "verify" => D!OtherBound = 1023
  BY <1>1, SMT DEF D!InputBound, D!OtherBound, LayerBound, AddendBound
<1>5. D!Vectors \in 1 .. 8 /\ Rows \in 1 .. 8
  BY <1>1, DsaSizes
<1>6. ASSUME NEW n \in 0 .. D!Vectors - 1
      PROVE  AtMost(operand[n], DsaOperand(n))
  <2>1. DsaOperand(n) = LayerBound
    BY <1>1, <1>5, DsaConstants DEF DsaOperand
  <2>2. operand[n].m = D!InputBound /\ "m" \in DOMAIN operand[n]
    BY <1>1, <1>2
  <2> QED
    BY <1>4, <2>1, <2>2 DEF AtMost
<1>7. AtMost(challenge, DsaChallenge)
  <2>1. DsaChallenge = LayerBound
    BY <1>1, DsaConstants DEF DsaChallenge
  <2>2. challenge.m = 1 /\ "m" \in DOMAIN challenge
    BY <1>1, <1>2
  <2> QED
    BY <2>1, <2>2, SMT DEF AtMost, LayerBound
<1>8. ASSUME NEW n \in 0 .. Rows - 1
      PROVE  AtMost(addend[n], DsaAddend(n)) /\ AtMost(result[n], DsaResult(n))
  <2>1. addend[n].m = D!OtherBound /\ "m" \in DOMAIN addend[n]
    BY <1>1, <1>2
  <2>2. DsaAddend(n) = IF flow # "verify" THEN AddendBound ELSE 1023
    BY <1>1, SMT DEF DsaAddend
  <2>3. result[n].m = 0 /\ "m" \in DOMAIN result[n]
    BY <1>1, <1>3
  <2>4. DsaResult(n) = 0
    BY <1>1, <1>5 DEF DsaResult, DsaRow
  <2> QED
    BY <1>4, <2>1, <2>2, <2>3, <2>4, SMT DEF AtMost
<1>9. DsaControl
  BY <1>1, <1>5 DEF DsaControl
<1> QED
  BY <1>1, <1>6, <1>7, <1>8, <1>9 DEF DsaInv

LEMMA DsaNttX == DsaInv /\ D!NttX => DsaInv'
<1> SUFFICES ASSUME DsaInv, D!NttX PROVE DsaInv'
  OBVIOUS
<1>1. /\ phase = "ntt_x"
      /\ operand' = [operand EXCEPT ![entry] = D!ntt_layer(@, D!Forward[copy][layer])]
      /\ IF layer < 8 THEN layer' = layer + 1 /\ phase' = phase /\ entry' = entry
         ELSE /\ layer' = 1
              /\ IF entry < D!Vectors - 1 THEN entry' = entry + 1 /\ phase' = phase
                 ELSE entry' = 0 /\ phase' = IF flow \in {"keygen", "sign"} THEN "products" ELSE "ntt_c"
      /\ copy' = copy /\ flow' = flow /\ row' = row /\ challenge' = challenge
      /\ addend' = addend /\ result' = result
  BY DEF D!NttX
<1>2. DsaControl /\ row = 0
  BY <1>1 DEF DsaInv, DsaControl
<1>3. D!Vectors' = D!Vectors /\ D!Vectors \in 1 .. 8 /\ Rows \in 1 .. 8
  BY <1>1, <1>2, DsaSizes DEF D!Vectors, DsaControl
<1>4. DsaControl'
  BY <1>1, <1>2, <1>3 DEF DsaControl
<1>5. /\ entry \in 0 .. D!Vectors - 1 /\ layer \in 1 .. 8 /\ copy \in {"extracted", "combined"}
      /\ DOMAIN operand = 0 .. D!Vectors - 1
  BY <1>2 DEF DsaInv, DsaControl
<1>6. AtMost(D!ntt_layer(operand[entry], D!Forward[copy][layer]), LayerBound * (layer + 1))
  <2>1. AtMost(operand[entry], LayerBound * layer)
    BY <1>1, <1>5 DEF DsaInv, DsaOperand
  <2> QED
    BY <1>5, <2>1, DsaLayer
<1>7. ASSUME NEW n \in 0 .. D!Vectors - 1
      PROVE  AtMost(operand'[n], DsaOperand(n)')
  <2>1. AtMost(operand[n], DsaOperand(n))
    BY DEF DsaInv
  <2>2. CASE n = entry
    <3>1. operand'[n] = D!ntt_layer(operand[entry], D!Forward[copy][layer])
      BY <1>1, <1>5, <2>2
    <3>2. DsaOperand(n)' = LayerBound * (layer + 1)
      BY <1>1, <1>5, <2>2 DEF DsaOperand
    <3> QED
      BY <1>6, <3>1, <3>2
  <2>3. CASE n # entry
    <3>1. operand'[n] = operand[n]
      BY <1>1, <1>5, <2>3
    <3>2. DsaOperand(n)' = DsaOperand(n)
      <4>1. CASE layer < 8
        BY <1>1, <2>3, <4>1 DEF DsaOperand
      <4>2. CASE layer = 8
        BY <1>1, <1>3, <1>5, <2>3, <4>2 DEF DsaOperand
      <4> QED
        BY <1>5, <4>1, <4>2
    <3> QED
      BY <2>1, <3>1, <3>2
  <2> QED
    BY <2>2, <2>3
<1>8. AtMost(challenge, DsaChallenge)'
  <2>1. DsaChallenge = LayerBound /\ DsaChallenge' \in {LayerBound, LayerBound * 9}
    BY <1>1, DsaConstants DEF DsaChallenge
  <2> QED
    BY <1>1, <2>1, DsaConstants DEF DsaInv, AtMost
<1>9. ASSUME NEW n \in 0 .. Rows - 1
      PROVE  AtMost(addend'[n], DsaAddend(n)') /\ AtMost(result'[n], DsaResult(n)')
  <2>1. AtMost(addend[n], DsaAddend(n)) /\ AtMost(result[n], DsaResult(n))
    BY DEF DsaInv
  <2>2. DsaAddend(n)' = DsaAddend(n)
    BY <1>1, <1>2, SMT DEF DsaAddend
  <2>3. DsaResult(n) = 0 /\ DsaResult(n)' = 0
    <3>1. phase' \in {"ntt_x", "products", "ntt_c"} /\ (phase' = "products" => entry' = 0)
          /\ (phase' = "ntt_c" => flow # "keygen") /\ n >= 0
      BY <1>1
    <3> QED
      BY <1>1, <1>2, <3>1, DsaConstants DEF DsaResult, DsaRow
  <2> QED
    BY <1>1, <2>1, <2>2, <2>3
<1>10. DOMAIN operand' = DOMAIN operand
  BY <1>1
<1> QED
  BY <1>1, <1>3, <1>4, <1>7, <1>8, <1>9, <1>10 DEF DsaInv

(* What the steps of a row need to know. *)
LEMMA DsaHere ==
  ASSUME DsaInv
  PROVE  /\ DsaControl /\ Rows \in 1 .. 8 /\ Columns \in 1 .. 7 /\ D!Vectors \in 1 .. 8
         /\ D!Vectors = IF flow \in {"respond", "remainder"} THEN Rows ELSE Columns
         /\ row \in 0 .. Rows - 1 /\ entry \in 0 .. D!Vectors - 1 /\ layer \in 1 .. 8
         /\ copy \in {"extracted", "combined"}
         /\ flow \in {"keygen", "sign", "respond", "remainder", "verify"}
         /\ DOMAIN result = 0 .. Rows - 1 /\ DOMAIN addend = 0 .. Rows - 1
         /\ \A n \in 0 .. D!Vectors - 1 : AtMost(operand[n], DsaOperand(n))
         /\ \A n \in 0 .. Rows - 1 : AtMost(addend[n], DsaAddend(n)) /\ AtMost(result[n], DsaResult(n))
         /\ AtMost(challenge, DsaChallenge)
BY DsaSizes DEF DsaInv, DsaControl

LEMMA DsaNttC == DsaInv /\ D!NttC => DsaInv'
<1> SUFFICES ASSUME DsaInv, D!NttC PROVE DsaInv'
  OBVIOUS
<1>1. /\ phase = "ntt_c" /\ challenge' = D!ntt_layer(challenge, D!Forward[copy][layer])
      /\ IF layer < 8 THEN layer' = layer + 1 /\ phase' = phase
         ELSE layer' = 1 /\ phase' = IF flow = "verify" THEN "products" ELSE "times"
      /\ copy' = copy /\ flow' = flow /\ row' = row /\ entry' = entry /\ operand' = operand
      /\ addend' = addend /\ result' = result
  BY DEF D!NttC
<1>2. D!Vectors' = D!Vectors
  BY <1>1 DEF D!Vectors
<1>3. DsaControl' /\ row = 0 /\ entry = 0 /\ flow # "keygen"
  BY <1>1, <1>2, DsaHere DEF DsaControl
<1>4. AtMost(challenge, DsaChallenge)'
  <2>1. AtMost(challenge, LayerBound * layer)
    BY <1>1, DsaHere DEF DsaChallenge
  <2>2. AtMost(challenge', LayerBound * (layer + 1))
    BY <1>1, <2>1, DsaHere, DsaLayer
  <2>3. DsaChallenge' = LayerBound * (layer + 1)
    BY <1>1, DsaHere DEF DsaChallenge
  <2> QED
    BY <2>2, <2>3
<1>5. /\ \A n : DsaOperand(n)' = DsaOperand(n)
      /\ \A n \in 0 .. Rows - 1 : DsaResult(n)' = DsaResult(n)
  BY <1>1, <1>3, DsaConstants DEF DsaOperand, DsaResult, DsaRow
<1>6. \A n \in 0 .. Rows - 1 : DsaAddend(n)' = DsaAddend(n)
  BY <1>1, <1>3, SMT DEF DsaAddend
<1> QED
  BY <1>1, <1>2, <1>3, <1>4, <1>5, <1>6 DEF DsaInv

LEMMA DsaProduct == DsaInv /\ D!Product => DsaInv'
<1> SUFFICES ASSUME DsaInv, D!Product PROVE DsaInv'
  OBVIOUS
<1> DEFINE product == D!montgomery_multiply(D!A(row, entry), operand[entry])
           sum == D!add(result[row], product)
           shifted == D!shift_left_then_reduce(addend[row], 13)
           last == entry = Columns - 1
<1>1. /\ phase = "products" /\ result' = [result EXCEPT ![row] = sum]
      /\ IF entry < Columns - 1 THEN entry' = entry + 1 /\ phase' = phase /\ row' = row
         ELSE /\ entry' = 0
              /\ IF flow = "keygen" /\ row < Rows - 1 THEN row' = row + 1 /\ phase' = phase
                 ELSE /\ phase' = IF flow = "verify" THEN "ntt_t" ELSE "reduce"
                      /\ row' = IF flow = "keygen" THEN 0 ELSE row
      /\ addend' = IF flow = "verify" /\ last THEN [addend EXCEPT ![row] = shifted] ELSE addend
      /\ copy' = copy /\ flow' = flow /\ layer' = layer /\ operand' = operand /\ challenge' = challenge
  BY DEF D!Product
<1>2. D!Vectors' = D!Vectors
  BY <1>1 DEF D!Vectors
<1>3. D!Vectors = Columns /\ layer = 1 /\ flow \in {"keygen", "sign", "verify"}
  BY <1>1, DsaHere DEF DsaControl
<1>4. DsaControl'
  BY <1>1, <1>2, <1>3, DsaHere DEF DsaControl
<1>5. AtMost(sum, ProductBound * (entry + 1))
  <2>1. AtMost(operand[entry], 9 * LayerBound)
    BY <1>1, DsaHere, DsaConstants DEF DsaOperand
  <2>2. AtMost(D!A(row, entry), 9 * LayerBound)
    BY SMT DEF D!A, AtMost, D!q, LayerBound
  <2>3. AtMost(product, ProductBound)
    BY <2>1, <2>2, DsaProductIs
  <2>4. AtMost(result[row], ProductBound * entry)
    BY <1>1, DsaHere DEF DsaResult, DsaRow
  <2> HIDE DEF product
  <2>5. ProductBound * entry \in Nat /\ ProductBound * entry + ProductBound <= D!MaxI32
        /\ ProductBound * entry + ProductBound = ProductBound * (entry + 1)
    BY <1>3, DsaHere, SMT DEF ProductBound, D!MaxI32
  <2> QED
    BY <2>3, <2>4, <2>5, DsaAdd, DsaConstants
<1> HIDE DEF sum
<1>6. ASSUME NEW n \in 0 .. Rows - 1
      PROVE  AtMost(result'[n], DsaResult(n)')
  <2>1. result'[n] = IF n = row THEN sum ELSE result[n]
    BY <1>1, DsaHere
  <2>2. AtMost(result[n], DsaResult(n))
    BY DsaHere
  <2>3. CASE ~last
    <3>1. entry' = entry + 1 /\ phase' = phase /\ row' = row
      BY <1>1, <1>3, <2>3, DsaHere
    <3>2. DsaResult(n)' = IF n = row THEN ProductBound * (entry + 1) ELSE DsaResult(n)
      BY <1>1, <3>1, DsaConstants DEF DsaResult, DsaRow
    <3> QED
      BY <1>5, <2>1, <2>2, <3>2
  <2>4. CASE last
    <3>1. AtMost(sum, ProductBound * 7)
      <4>1. ProductBound * (entry + 1) \in Nat /\ ProductBound * (entry + 1) <= ProductBound * 7
        BY <2>4, DsaHere, SMT DEF ProductBound
      <4> QED
        BY <1>5, <4>1, DsaConstants, DsaWeaker
    <3>2. DsaResult(n) = IF n = row THEN ProductBound * entry
                         ELSE IF n < row THEN IF flow = "keygen" THEN ProductBound * 7 ELSE D!q - 1
                         ELSE 0
      BY <1>1 DEF DsaResult, DsaRow
    <3>3. CASE flow = "keygen" /\ row < Rows - 1
      <4>1. entry' = 0 /\ row' = row + 1 /\ phase' = "products"
        BY <1>1, <2>4, <3>3, DsaHere
      <4>2. DsaResult(n)' = IF n <= row THEN ProductBound * 7 ELSE 0
        BY <1>1, <3>3, <4>1, DsaHere, DsaConstants DEF DsaResult, DsaRow
      <4> QED
        BY <2>1, <2>2, <3>1, <3>2, <3>3, <4>2, DsaHere
    <3>4. CASE flow = "keygen" /\ row = Rows - 1
      <4>1. entry' = 0 /\ row' = 0 /\ phase' = "reduce"
        BY <1>1, <2>4, <3>4, DsaHere
      <4>2. DsaResult(n)' \in {ProductBound * 7, ProductBound * 8}
        BY <1>1, <3>4, <4>1, DsaHere DEF DsaResult, DsaRow
      <4>3. AtMost(result'[n], ProductBound * 7)
        BY <2>1, <2>2, <3>1, <3>2, <3>4, DsaHere
      <4> QED
        BY <4>2, <4>3, DsaConstants, DsaWeaker
    <3>5. CASE flow # "keygen"
      <4>1. entry' = 0 /\ row' = row /\ phase' \in {"ntt_t", "reduce"}
        BY <1>1, <2>4, <3>5, DsaHere
      <4>2. DsaResult(n)' \in IF n = row THEN {ProductBound * 7, ProductBound * 8} ELSE {DsaResult(n)}
        BY <1>1, <3>5, <4>1 DEF DsaResult, DsaRow
      <4> QED
        BY <2>1, <2>2, <3>1, <4>2, DsaConstants, DsaWeaker
    <3> QED
      BY <3>3, <3>4, <3>5, DsaHere
  <2> QED
    BY <2>3, <2>4
<1>7. ASSUME NEW n \in 0 .. Rows - 1
      PROVE  AtMost(addend'[n], DsaAddend(n)')
  <2>1. AtMost(addend[n], DsaAddend(n))
    BY DsaHere
  <2>2. CASE flow = "verify" /\ last
    <3>1. addend'[n] = (IF n = row THEN shifted ELSE addend[n]) /\ row' = row /\ phase' = "ntt_t"
      BY <1>1, <2>2, DsaHere
    <3>2. AtMost(addend[row], 1023)
      BY <1>1, <2>2, DsaHere DEF DsaAddend
    <3>3. AtMost(shifted, LayerBound)
      BY <3>2, DsaShift
    <3>4. DsaAddend(n)' = IF n = row THEN LayerBound ELSE DsaAddend(n)
      BY <1>1, <1>3, <2>2, <3>1, DsaConstants DEF DsaAddend
    <3> QED
      BY <2>1, <3>1, <3>3, <3>4
  <2>3. CASE ~(flow = "verify" /\ last)
    <3>1. addend' = addend /\ (flow = "verify" => row' = row /\ phase' = phase)
      BY <1>1, <1>3, <2>3, DsaHere
    <3>2. DsaAddend(n)' = DsaAddend(n)
      BY <1>1, <3>1, SMT DEF DsaAddend
    <3> QED
      BY <2>1, <3>1, <3>2
  <2> QED
    BY <2>2, <2>3
<1>8. /\ \A n : DsaOperand(n)' = DsaOperand(n)
      /\ DsaChallenge' = DsaChallenge
  BY <1>1, DsaConstants DEF DsaOperand, DsaChallenge
<1>9. DOMAIN result' = DOMAIN result /\ DOMAIN addend' = DOMAIN addend
  BY <1>1
<1> QED
  BY <1>1, <1>2, <1>4, <1>6, <1>7, <1>8, <1>9 DEF DsaInv

LEMMA DsaNttT == DsaInv /\ D!NttT => DsaInv'
<1> SUFFICES ASSUME DsaInv, D!NttT PROVE DsaInv'
  OBVIOUS
<1> DEFINE deeper == D!ntt_layer(addend[row], D!Forward[copy][layer])
           product == D!montgomery_multiply(deeper, challenge)
           difference == D!subtract(result[row], product)
<1>1. /\ phase = "ntt_t" /\ addend' = [addend EXCEPT ![row] = deeper]
      /\ IF layer < 8 THEN layer' = layer + 1 /\ phase' = phase /\ result' = result
         ELSE /\ layer' = 1 /\ phase' = "reduce"
              /\ result' = [result EXCEPT ![row] = difference]
      /\ copy' = copy /\ flow' = flow /\ row' = row /\ entry' = entry /\ operand' = operand
      /\ challenge' = challenge
  <2>1. row \in DOMAIN addend
    BY DsaHere
  <2> QED
    BY <2>1 DEF D!NttT
<1>2. D!Vectors' = D!Vectors
  BY <1>1 DEF D!Vectors
<1>3. DsaControl' /\ flow = "verify" /\ entry = 0
  BY <1>1, <1>2, DsaHere DEF DsaControl
<1>4. AtMost(deeper, LayerBound * (layer + 1))
  <2>1. AtMost(addend[row], LayerBound * layer)
    BY <1>1, <1>3, DsaHere DEF DsaAddend
  <2> QED
    BY <2>1, DsaHere, DsaLayer
<1>5. ASSUME layer = 8
      PROVE  AtMost(difference, ProductBound * 8)
  <2>1. AtMost(deeper, 9 * LayerBound)
    BY <1>4, <1>5, DsaConstants
  <2>2. AtMost(challenge, 9 * LayerBound)
    BY <1>1, DsaHere, DsaConstants DEF DsaChallenge
  <2> HIDE DEF deeper
  <2>3. AtMost(product, ProductBound)
    BY <2>1, <2>2, DsaProductIs
  <2>4. AtMost(result[row], ProductBound * 7)
    BY <1>1, DsaHere DEF DsaResult, DsaRow
  <2> HIDE DEF product
  <2>5. ProductBound * 7 \in Nat /\ ProductBound * 7 + ProductBound <= D!MaxI32
        /\ ProductBound * 7 + ProductBound = ProductBound * 8
    BY SMT DEF ProductBound, D!MaxI32
  <2> QED
    BY <2>3, <2>4, <2>5, DsaAdd, DsaConstants
<1> HIDE DEF deeper, difference
<1>6. ASSUME NEW n \in 0 .. Rows - 1
      PROVE  AtMost(addend'[n], DsaAddend(n)')
  <2>1. AtMost(addend[n], DsaAddend(n))
    BY DsaHere
  <2>2. addend'[n] = IF n = row THEN deeper ELSE addend[n]
    BY <1>1, DsaHere
  <2>3. DsaAddend(n)' = IF n = row THEN LayerBound * (layer + 1) ELSE DsaAddend(n)
    <3>1. CASE layer < 8
      <4>1. layer' = layer + 1 /\ phase' = "ntt_t"
        BY <1>1, <3>1
      <4> QED
        BY <1>1, <1>3, <4>1 DEF DsaAddend
    <3>2. CASE layer = 8
      <4>1. LayerBound * (layer + 1) = LayerBound * 9 /\ phase' = "reduce" /\ row' = row
        BY <1>1, <3>2
      <4>2. DsaAddend(n)' = IF n < row \/ n = row THEN LayerBound * 9 ELSE 1023
        BY <1>1, <1>3, <4>1 DEF DsaAddend
      <4>3. n # row => DsaAddend(n) = IF n < row THEN LayerBound * 9 ELSE 1023
        <5>1. flow = "verify" /\ phase = "ntt_t"
          BY <1>1, <1>3
        <5> QED
          BY <5>1 DEF DsaAddend
      <4> QED
        BY <4>1, <4>2, <4>3, DsaHere
    <3> QED
      BY <3>1, <3>2, DsaHere
  <2> QED
    BY <1>4, <2>1, <2>2, <2>3
<1>7. ASSUME NEW n \in 0 .. Rows - 1
      PROVE  AtMost(result'[n], DsaResult(n)')
  <2>1. AtMost(result[n], DsaResult(n))
    BY DsaHere
  <2>2. CASE layer < 8
    <3>1. result' = result /\ DsaResult(n)' = DsaResult(n)
      BY <1>1, <2>2 DEF DsaResult, DsaRow
    <3> QED
      BY <2>1, <3>1
  <2>3. CASE layer = 8
    <3>1. result'[n] = IF n = row THEN difference ELSE result[n]
      BY <1>1, <2>3, DsaHere
    <3>2. DsaResult(n)' = IF n = row THEN ProductBound * 8 ELSE DsaResult(n)
      BY <1>1, <1>3, <2>3 DEF DsaResult, DsaRow
    <3> QED
      BY <1>5, <2>1, <2>3, <3>1, <3>2
  <2> QED
    BY <2>2, <2>3, DsaHere
<1>8. /\ \A n : DsaOperand(n)' = DsaOperand(n)
      /\ DsaChallenge' = DsaChallenge
  BY <1>1, DsaConstants DEF DsaOperand, DsaChallenge
<1>9. DOMAIN result' = DOMAIN result /\ DOMAIN addend' = DOMAIN addend
  BY <1>1
<1> QED
  BY <1>1, <1>2, <1>3, <1>6, <1>7, <1>8, <1>9 DEF DsaInv

(* A step that only changes a row's result, and goes on with that row. *)
LEMMA DsaRowStep ==
  ASSUME DsaInv, DsaControl', NEW re, AtMost(re, DsaRow'),
         result' = [result EXCEPT ![row] = re], row' = row, entry' = entry, flow' = flow, copy' = copy,
         operand' = operand, challenge' = challenge, addend' = addend,
         phase \in {"times", "reduce", "invert", "scale"}, phase' \in {"invert", "scale", "combine"}
  PROVE  DsaInv'
<1>1. D!Vectors' = D!Vectors
  BY DEF D!Vectors
<1>2. ASSUME NEW n \in 0 .. Rows - 1
      PROVE  AtMost(result'[n], DsaResult(n)')
  <2>1. AtMost(result[n], DsaResult(n))
    BY DsaHere
  <2>2. result'[n] = IF n = row THEN re ELSE result[n]
    BY DsaHere
  <2>3. DsaResult(n)' = IF n = row THEN DsaRow' ELSE DsaResult(n)
    BY DEF DsaResult
  <2> QED
    BY <2>1, <2>2, <2>3
<1>3. ASSUME NEW n \in 0 .. Rows - 1
      PROVE  AtMost(addend'[n], DsaAddend(n)')
  <2>1. AtMost(addend[n], DsaAddend(n))
    BY DsaHere
  <2>2. flow = "verify" => phase \in {"reduce", "invert", "scale"}
    BY DEF DsaInv, DsaControl
  <2>3. DsaAddend(n)' = DsaAddend(n)
    BY <2>2, SMT DEF DsaAddend
  <2> QED
    BY <2>1, <2>3
<1>4. /\ \A n : DsaOperand(n)' = DsaOperand(n)
      /\ DsaChallenge' = DsaChallenge
  BY DsaConstants DEF DsaOperand, DsaChallenge
<1>5. DOMAIN result' = DOMAIN result
  OBVIOUS
<1> QED
  BY <1>1, <1>2, <1>3, <1>4, <1>5 DEF DsaInv

LEMMA DsaTimes == DsaInv /\ D!Times => DsaInv'
<1> SUFFICES ASSUME DsaInv, D!Times PROVE DsaInv'
  OBVIOUS
<1> DEFINE product == D!montgomery_multiply(operand[row], challenge)
<1>1. /\ phase = "times" /\ result' = [result EXCEPT ![row] = product] /\ phase' = "invert"
      /\ copy' = copy /\ flow' = flow /\ row' = row /\ entry' = entry /\ layer' = layer
      /\ operand' = operand /\ challenge' = challenge /\ addend' = addend
  BY DEF D!Times
<1>2. D!Vectors' = D!Vectors
  BY <1>1 DEF D!Vectors
<1>3. DsaControl' /\ layer = 1 /\ D!Vectors = Rows
  BY <1>1, <1>2, DsaHere DEF DsaControl
<1>4. AtMost(product, ProductBound)
  <2>1. AtMost(operand[row], 9 * LayerBound) /\ AtMost(challenge, 9 * LayerBound)
    BY <1>1, <1>3, DsaHere, DsaConstants DEF DsaOperand, DsaChallenge
  <2> QED
    BY <2>1, DsaProductIs
<1>5. DsaRow' = ProductBound
  BY <1>1, <1>3, TwoToIs, DsaConstants DEF DsaRow
<1> HIDE DEF product
<1> QED
  BY <1>1, <1>3, <1>4, <1>5, DsaRowStep

LEMMA DsaReduces == DsaInv /\ D!Reduce => DsaInv'
<1> SUFFICES ASSUME DsaInv, D!Reduce PROVE DsaInv'
  OBVIOUS
<1>1. /\ phase = "reduce" /\ result' = [result EXCEPT ![row] = D!reduce(result[row])] /\ phase' = "invert"
      /\ copy' = copy /\ flow' = flow /\ row' = row /\ entry' = entry /\ layer' = layer
      /\ operand' = operand /\ challenge' = challenge /\ addend' = addend
  BY DEF D!Reduce
<1>2. D!Vectors' = D!Vectors
  BY <1>1 DEF D!Vectors
<1>3. DsaControl' /\ layer = 1
  BY <1>1, <1>2, DsaHere DEF DsaControl
<1>4. AtMost(D!reduce(result[row]), ProductBound)
  <2>1. AtMost(result[row], 8 * ProductBound)
    BY <1>1, DsaHere, DsaConstants DEF DsaResult, DsaRow
  <2> QED
    BY <2>1, DsaReduce
<1>5. DsaRow' = ProductBound
  BY <1>1, <1>3, TwoToIs, DsaConstants DEF DsaRow
<1> QED
  BY <1>1, <1>3, <1>4, <1>5, DsaRowStep

LEMMA DsaInvert == DsaInv /\ D!Invert => DsaInv'
<1> SUFFICES ASSUME DsaInv, D!Invert PROVE DsaInv'
  OBVIOUS
<1> DEFINE inverted == D!invert_ntt_layer(result[row], D!Backward[copy][layer])
<1>1. /\ phase = "invert" /\ result' = [result EXCEPT ![row] = inverted]
      /\ IF layer < 8 THEN layer' = layer + 1 /\ phase' = phase ELSE layer' = 1 /\ phase' = "scale"
      /\ copy' = copy /\ flow' = flow /\ row' = row /\ entry' = entry
      /\ operand' = operand /\ challenge' = challenge /\ addend' = addend
  BY DEF D!Invert
<1>2. D!Vectors' = D!Vectors
  BY <1>1 DEF D!Vectors
<1>3. DsaControl'
  BY <1>1, <1>2, DsaHere DEF DsaControl
<1>4. AtMost(inverted, ProductBound * TwoTo(layer + 1))
  <2>1. AtMost(result[row], ProductBound * TwoTo(layer))
    BY <1>1, DsaHere DEF DsaResult, DsaRow
  <2> QED
    BY <2>1, DsaHere, DsaInvertLayer
<1>5. DsaRow' = ProductBound * TwoTo(layer + 1)
  <2>1. CASE layer < 8
    <3>1. layer' = layer + 1 /\ phase' = "invert"
      BY <1>1, <2>1
    <3> QED
      BY <3>1 DEF DsaRow
  <2>2. CASE layer = 8
    <3>1. layer + 1 = 9 /\ phase' = "scale"
      BY <1>1, <2>2
    <3>2. TwoTo(layer + 1) = 256
      BY <3>1, TwoToIs
    <3> QED
      BY <3>1, <3>2 DEF DsaRow
  <2> QED
    BY <2>1, <2>2, DsaHere
<1> HIDE DEF inverted
<1> QED
  BY <1>1, <1>3, <1>4, <1>5, DsaRowStep

LEMMA DsaScales == DsaInv /\ D!Scale => DsaInv'
<1> SUFFICES ASSUME DsaInv, D!Scale PROVE DsaInv'
  OBVIOUS
<1>1. /\ phase = "scale" /\ result' = [result EXCEPT ![row] = D!invert_ntt_scale(result[row])]
      /\ phase' = "combine" /\ copy' = copy /\ flow' = flow /\ row' = row /\ entry' = entry
      /\ layer' = layer /\ operand' = operand /\ challenge' = challenge /\ addend' = addend
  BY DEF D!Scale
<1>2. D!Vectors' = D!Vectors
  BY <1>1 DEF D!Vectors
<1>3. DsaControl'
  BY <1>1, <1>2, DsaHere DEF DsaControl
<1>4. AtMost(D!invert_ntt_scale(result[row]), ProductBound)
  <2>1. AtMost(result[row], 256 * ProductBound)
    BY <1>1, DsaHere, DsaConstants DEF DsaResult, DsaRow
  <2> QED
    BY <2>1, DsaScale
<1>5. DsaRow' = ProductBound
  BY <1>1 DEF DsaRow
<1> QED
  BY <1>1, <1>3, <1>4, <1>5, DsaRowStep

LEMMA DsaCombine == DsaInv /\ D!Combine => DsaInv'
<1> SUFFICES ASSUME DsaInv, D!Combine PROVE DsaInv'
  OBVIOUS
<1> DEFINE combined == CASE flow \in {"keygen", "respond"} -> D!add(addend[row], result[row])
                         [] flow = "remainder" -> D!subtract(addend[row], result[row])
                         [] OTHER -> result[row]
<1>1. /\ phase = "combine" /\ result' = [result EXCEPT ![row] = combined]
      /\ IF row = Rows - 1 THEN phase' = "done" /\ row' = row
         ELSE /\ row' = row + 1
              /\ phase' = CASE flow = "keygen" -> "reduce"
                            [] flow \in {"sign", "verify"} -> "products"
                            [] OTHER -> "times"
      /\ copy' = copy /\ flow' = flow /\ entry' = entry /\ layer' = layer
      /\ operand' = operand /\ challenge' = challenge /\ addend' = addend
  BY DEF D!Combine
<1>2. D!Vectors' = D!Vectors
  BY <1>1 DEF D!Vectors
<1>3. DsaControl' /\ entry = 0
  BY <1>1, <1>2, DsaHere DEF DsaControl
<1>4. AtMost(combined, D!q - 1)
  <2>1. AtMost(result[row], ProductBound)
    BY <1>1, DsaHere DEF DsaResult, DsaRow
  <2>2. CASE flow \in {"keygen", "respond", "remainder"}
    <3>1. AtMost(addend[row], AddendBound)
      BY <2>2, DsaHere, SMT DEF DsaAddend
    <3>2. AddendBound + ProductBound <= D!MaxI32 /\ AddendBound + ProductBound <= D!q - 1
      BY SMT DEF ProductBound, AddendBound, D!MaxI32, D!q
    <3>3. /\ AtMost(D!add(addend[row], result[row]), AddendBound + ProductBound)
          /\ AtMost(D!subtract(addend[row], result[row]), AddendBound + ProductBound)
      BY <2>1, <3>1, <3>2, DsaAdd, DsaConstants
    <3>4. AtMost(combined, AddendBound + ProductBound)
      BY <2>2, <3>3
    <3> HIDE DEF combined
    <3> QED
      BY <3>2, <3>4, DsaConstants, DsaWeaker
  <2>3. CASE flow \notin {"keygen", "respond", "remainder"}
    <3>1. combined = result[row]
      BY <2>3
    <3> QED
      BY <2>1, <3>1, SMT DEF AtMost, ProductBound, D!q
  <2> QED
    BY <2>2, <2>3
<1> HIDE DEF combined
<1>5. ASSUME NEW n \in 0 .. Rows - 1
      PROVE  AtMost(result'[n], DsaResult(n)')
  <2>1. AtMost(result[n], DsaResult(n)) /\ (n # row => DsaResult(n) =
           IF n < row THEN D!q - 1 ELSE IF flow = "keygen" THEN ProductBound * 7 ELSE 0)
    BY <1>1, DsaHere DEF DsaResult
  <2>2. result'[n] = IF n = row THEN combined ELSE result[n]
    BY <1>1, DsaHere
  <2>3. CASE n <= row
    <3>1. DsaResult(n)' = D!q - 1
      BY <1>1, <2>3, DsaHere DEF DsaResult, DsaRow
    <3> QED
      BY <1>4, <2>1, <2>2, <2>3, <3>1, DsaHere
  <2>4. CASE n > row
    <3>1. row' = row + 1 /\ phase' = CASE flow = "keygen" -> "reduce"
                                       [] flow \in {"sign", "verify"} -> "products"
                                       [] OTHER -> "times"
      BY <1>1, <2>4, DsaHere
    <3>2. DsaResult(n)' \in IF flow = "keygen" THEN {ProductBound * 7, ProductBound * 8} ELSE {0}
      BY <1>1, <1>3, <2>4, <3>1, DsaHere, DsaConstants DEF DsaResult, DsaRow
    <3>3. AtMost(result'[n], IF flow = "keygen" THEN ProductBound * 7 ELSE 0)
      BY <2>1, <2>2, <2>4, DsaHere
    <3> QED
      BY <3>2, <3>3, DsaConstants, DsaWeaker
  <2> QED
    BY <2>3, <2>4, DsaHere
<1>6. ASSUME NEW n \in 0 .. Rows - 1
      PROVE  AtMost(addend'[n], DsaAddend(n)')
  <2>1. AtMost(addend[n], DsaAddend(n))
    BY DsaHere
  <2>2. DsaAddend(n)' = DsaAddend(n)
    <3>1. CASE row = Rows - 1
      <4>1. row' = row /\ phase' = "done"
        BY <1>1, <3>1
      <4> QED
        BY <1>1, <4>1, SMT DEF DsaAddend
    <3>2. CASE row # Rows - 1
      <4>1. row' = row + 1 /\ (flow = "verify" => phase' = "products")
        BY <1>1, <3>2
      <4>2. n < row' <=> (n < row \/ n = row)
        BY <4>1, DsaHere
      <4>3. flow = "verify" => DsaAddend(n) = IF n < row \/ n = row THEN LayerBound * 9 ELSE 1023
        BY <1>1 DEF DsaAddend
      <4>4. flow = "verify" => DsaAddend(n)' = IF n < row' THEN LayerBound * 9 ELSE 1023
        <5>1. row' \in Int /\ n \in Int /\ flow' = flow /\ phase' # "ntt_t"
              /\ (flow = "verify" => phase' \notin {"reduce", "invert", "scale", "combine", "done"})
          BY <1>1, <4>1, DsaHere
        <5> QED
          BY <5>1 DEF DsaAddend
      <4>5. flow # "verify" => DsaAddend(n) = AddendBound /\ DsaAddend(n)' = AddendBound
        BY <1>1 DEF DsaAddend
      <4> QED
        BY <4>2, <4>3, <4>4, <4>5
    <3> QED
      BY <3>1, <3>2
  <2> QED
    BY <1>1, <2>1, <2>2
<1>7. /\ \A n : DsaOperand(n)' = DsaOperand(n)
      /\ DsaChallenge' = DsaChallenge
  BY <1>1, DsaConstants DEF DsaOperand, DsaChallenge
<1>8. DOMAIN result' = DOMAIN result
  BY <1>1
<1> QED
  BY <1>1, <1>2, <1>3, <1>5, <1>6, <1>7, <1>8 DEF DsaInv

(* No step changes the flow, and every step keeps the bounds. *)
LEMMA DsaStep ==
  ASSUME DsaInv, D!Next
  PROVE  DsaInv' /\ flow' = flow
<1>1. /\ D!NttX => flow' = flow
      /\ D!NttC => flow' = flow
      /\ D!Product => flow' = flow
      /\ D!NttT => flow' = flow
      /\ D!Times => flow' = flow
      /\ D!Reduce => flow' = flow
      /\ D!Invert => flow' = flow
      /\ D!Scale => flow' = flow
      /\ D!Combine => flow' = flow
  BY DEF D!NttX, D!NttC, D!Product, D!NttT, D!Times, D!Reduce, D!Invert, D!Scale, D!Combine
<1> QED
  BY <1>1, DsaNttX, DsaNttC, DsaProduct, DsaNttT, DsaTimes, DsaReduces, DsaInvert, DsaScales, DsaCombine
     DEF D!Next

LEMMA DsaRanges ==
  ASSUME DsaInv, flow \in MlDsaFlows
  PROVE  RangesKept
<1>1. flow \notin MlKemFlows
  BY TransformsAssumption
<1>2. \A n \in DOMAIN operand : operand[n].m <= D!MaxI32 - 1
  <2> SUFFICES ASSUME NEW n \in DOMAIN operand PROVE operand[n].m <= D!MaxI32 - 1
    OBVIOUS
  <2>1. AtMost(operand[n], DsaOperand(n)) /\ layer \in 1 .. 8
    BY DEF DsaInv, DsaControl
  <2>2. DsaOperand(n) \in Nat /\ DsaOperand(n) <= LayerBound * 9
    BY <2>1, SMT DEF DsaOperand, LayerBound
  <2> QED
    BY <2>1, <2>2, SMT DEF AtMost, LayerBound, D!MaxI32
<1>3. \A n \in DOMAIN addend : addend[n].m <= D!MaxI32 - 1
  <2> SUFFICES ASSUME NEW n \in DOMAIN addend PROVE addend[n].m <= D!MaxI32 - 1
    OBVIOUS
  <2>1. AtMost(addend[n], DsaAddend(n)) /\ layer \in 1 .. 8
    BY DEF DsaInv, DsaControl
  <2>2. DsaAddend(n) \in Nat /\ DsaAddend(n) <= LayerBound * 9
    BY <2>1, SMT DEF DsaAddend, AddendBound, LayerBound
  <2> QED
    BY <2>1, <2>2, SMT DEF AtMost, LayerBound, D!MaxI32
<1>4. \A n \in DOMAIN result : result[n].m <= D!MaxI32 - 1 /\ (phase = "done" => result[n].m < D!q)
  <2> SUFFICES ASSUME NEW n \in DOMAIN result
               PROVE  result[n].m <= D!MaxI32 - 1 /\ (phase = "done" => result[n].m < D!q)
    OBVIOUS
  <2>1. AtMost(result[n], DsaResult(n)) /\ layer \in 1 .. 8 /\ entry \in 0 .. D!Vectors - 1
        /\ D!Vectors \in 1 .. 8 /\ n \in 0 .. Rows - 1 /\ (phase = "done" => row = Rows - 1)
        /\ row \in 0 .. Rows - 1 /\ Rows \in 1 .. 8
    BY DsaHere DEF DsaInv, DsaControl
  <2>2. DsaRow \in Nat /\ DsaRow <= ProductBound * 256 /\ (phase = "done" => DsaRow = D!q - 1)
    <3>1. TwoTo(layer) \in Nat /\ TwoTo(layer) <= 128
      BY <2>1, TwoToIs
    <3>2. ProductBound * TwoTo(layer) \in Nat /\ ProductBound * TwoTo(layer) <= ProductBound * 256
      BY <3>1, SMT DEF ProductBound
    <3>3. ProductBound * entry \in Nat /\ ProductBound * entry <= ProductBound * 256
      BY <2>1, SMT DEF ProductBound
    <3>4. \A k \in {1, 7, 8, 256} : ProductBound * k \in Nat /\ ProductBound * k <= ProductBound * 256
      BY SMT DEF ProductBound
    <3>5. D!q - 1 \in Nat /\ D!q - 1 <= ProductBound * 256 /\ 0 <= ProductBound * 256
      BY SMT DEF ProductBound, D!q
    <3> QED
      BY <3>2, <3>3, <3>4, <3>5, DsaConstants, SMT DEF DsaRow
  <2>3. /\ DsaResult(n) \in Nat /\ DsaResult(n) <= ProductBound * 256
        /\ phase = "done" => DsaResult(n) = D!q - 1
    <3>1. ProductBound * 7 \in Nat /\ ProductBound * 7 <= ProductBound * 256
          /\ D!q - 1 \in Nat /\ D!q - 1 <= ProductBound * 256 /\ 0 <= ProductBound * 256
      BY SMT DEF ProductBound, D!q
    <3>2. phase = "done" => n = row \/ n < row
      BY <2>1
    <3> QED
      BY <2>2, <3>1, <3>2, SMT DEF DsaResult
  <2> QED
    BY <2>1, <2>3, SMT DEF AtMost, ProductBound, D!MaxI32, D!q
<1> QED
  BY <1>1, <1>2, <1>3, <1>4 DEF RangesKept

-----------------------------------------------------------------------------
(* Both schemes: whichever transforms run, what their bounds say. *)
RangesInv == (flow \in MlKemFlows /\ KemInv) \/ (flow \in MlDsaFlows /\ DsaInv)

LEMMA RangesBegin == TransformsInit => RangesInv
<1>1. K!Init => flow \in MlKemFlows
  BY DEF K!Init
<1>2. D!Init => flow \in MlDsaFlows
  BY DEF D!Init
<1> QED
  BY <1>1, <1>2, KemBegins, DsaBegins DEF TransformsInit, RangesInv

LEMMA RangesStutter == RangesInv /\ UNCHANGED transforms => RangesInv'
<1> SUFFICES ASSUME RangesInv, UNCHANGED transforms PROVE RangesInv'
  OBVIOUS
<1>1. /\ flow' = flow /\ phase' = phase /\ row' = row /\ entry' = entry /\ layer' = layer
      /\ operand' = operand /\ addend' = addend /\ result' = result /\ copy' = copy
      /\ challenge' = challenge /\ cache' = cache /\ accumulator' = accumulator /\ zeta_i' = zeta_i
  BY DEF transforms, shared, mldsa, mlkem
<1>2. K!FlowRows' = K!FlowRows /\ D!Vectors' = D!Vectors
  BY <1>1 DEF K!FlowRows, D!Vectors
<1>3. /\ \A n : KemOperand(n)' = KemOperand(n) /\ KemAddend(n)' = KemAddend(n)
                /\ KemResult(n)' = KemResult(n)
      /\ KemAccumulator' = KemAccumulator
  BY <1>1 DEF KemOperand, KemAddend, KemResult, KemAccumulator, KemFresh, KemBefore
<1>4. KemInv => KemInv'
  BY <1>1, <1>2, <1>3 DEF KemInv, KemControl
<1>5. /\ \A n : DsaOperand(n)' = DsaOperand(n) /\ DsaAddend(n)' = DsaAddend(n)
                /\ DsaResult(n)' = DsaResult(n)
      /\ DsaChallenge' = DsaChallenge
  BY <1>1 DEF DsaOperand, DsaAddend, DsaResult, DsaRow, DsaChallenge
<1>6. DsaInv => DsaInv'
  BY <1>1, <1>2, <1>5 DEF DsaInv, DsaControl
<1> QED
  BY <1>1, <1>4, <1>6 DEF RangesInv

(***************************************************************************)
(* No coefficient leaves its 16 or 32 bits in either scheme's transforms, and  *)
(* what the callers in matrix.rs get back is below q: for every rank up to 4,   *)
(* every matrix up to 8 by 7, every exponent and every copy of ML-DSA's         *)
(* layers, whose zetas are at most (q - 1) / 2 (ntt.rs and invntt.rs).         *)
(***************************************************************************)
THEOREM RangesRight == TransformsSpec => []RangesKept
<1>1. TransformsInit => RangesInv
  BY RangesBegin
<1>2. RangesInv /\ [TransformsNext]_transforms => RangesInv'
  <2> SUFFICES ASSUME RangesInv, [TransformsNext]_transforms PROVE RangesInv'
    OBVIOUS
  <2>1. flow \in MlKemFlows => flow \notin MlDsaFlows
    BY TransformsAssumption
  <2>2. CASE flow \in MlKemFlows /\ K!Next
    BY <2>1, <2>2, KemStep, KemKeepsFlow DEF RangesInv
  <2>3. CASE flow \in MlDsaFlows /\ D!Next
    BY <2>1, <2>3, DsaStep DEF RangesInv
  <2>4. CASE UNCHANGED transforms
    BY <2>4, RangesStutter
  <2> QED
    BY <2>2, <2>3, <2>4 DEF TransformsNext
<1>3. RangesInv => RangesKept
  BY KemRanges, DsaRanges DEF RangesInv
<1> QED
  BY <1>1, <1>2, <1>3, PTL DEF TransformsSpec
=============================================================================
