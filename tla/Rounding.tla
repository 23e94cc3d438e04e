------------------------------ MODULE Rounding ------------------------------
(***************************************************************************)
(* The rounding of ML-DSA coefficients                                       *)
(* (libcrux-iot/ml-dsa/src/simd/portable/arithmetic.rs 82-340), followed      *)
(* along one coefficient of a key and of a signature: key generation splits   *)
(* t, the signer decomposes w, tests w0 and makes a hint, and the verifier,   *)
(* who has only t1 and the hint, recovers the signer's w1.                    *)
(*                                                                         *)
(* Shifts and masks are written as the divisions and conditionals they are.   *)
(***************************************************************************)
EXTENDS Integers

CONSTANTS
  Gammas,   \* values of GAMMA2
  Beta,     \* the bound on a coefficient of c*s1 and c*s2, of each GAMMA2
  Ts,       \* coefficients t of a key
  Ws,       \* coefficients w = (A*y), of each GAMMA2, and how far the signer's
  CS2s,     \*   w0 is moved: coefficients of c*s2, of each GAMMA2,
  CT0s      \*   and of c*t0, of each GAMMA2

FIELD_MODULUS == 8380417
GAMMA2_V95_232 == 95232
GAMMA2_V261_888 == 261888
Halfway == (FIELD_MODULUS - 1) \div 2

(* What a coefficient may be as the functions below take it. *)
IsCoefficient(x) == -FIELD_MODULUS < x /\ x < FIELD_MODULUS
AreCoefficients(S) == \A x \in S : x \in Int /\ IsCoefficient(x)

ASSUME RoundingAssumption ==
  /\ Gammas \subseteq {GAMMA2_V95_232, GAMMA2_V261_888}
  /\ Beta \in [Gammas -> Nat] /\ \A g \in Gammas : Beta[g] < g
  /\ AreCoefficients(Ts)
  /\ \A g \in Gammas : AreCoefficients(Ws[g]) /\ AreCoefficients(CT0s[g])
  /\ \A g \in Gammas : CS2s[g] \subseteq -Beta[g] .. Beta[g]

-----------------------------------------------------------------------------
(* arithmetic.rs *)

(* r + ((r >> 31) & FIELD_MODULUS) *)
Unsigned(r) == IF r < 0 THEN r + FIELD_MODULUS ELSE r

(* Mutant: the quotient is rounded up at the half. *)
power2round_element_Half(t) ==
  LET u == Unsigned(t)
      t1 == (u + 4096) \div 8192
  IN [t0 |-> u - t1 * 8192, t1 |-> t1]

power2round_element(t) ==
  LET u == Unsigned(t)
      t1 == (u - 1 + 4096) \div 8192
  IN [t0 |-> u - t1 * 8192, t1 |-> t1]

reduce_element(fe) == fe - ((fe + 4194304) \div 8388608) * FIELD_MODULUS

shift_left_then_reduce(t1) == reduce_element(t1 * 8192)

norm_exceeds(r, bound) == (IF r < 0 THEN -r ELSE r) >= bound

(* Mutant: without the corner case. *)
compute_one_hint_NoCorner(low, high, gamma2) ==
  IF low > gamma2 \/ low < -gamma2 THEN 1 ELSE 0

compute_one_hint(low, high, gamma2) ==
  IF low > gamma2 \/ low < -gamma2 \/ (low = -gamma2 /\ high # 0) THEN 1 ELSE 0

(* r1, with the corner case (q-1)/alpha set to 0 *)
HighPart(gamma2, ceil_of_r_by_128) ==
  IF gamma2 = GAMMA2_V95_232
    THEN LET result == (ceil_of_r_by_128 * 11275 + 8388608) \div 16777216
         IN IF result > 43 THEN 0 ELSE result
    ELSE ((ceil_of_r_by_128 * 1025 + 2097152) \div 4194304) % 16

(* Mutant: the remainder is not brought below q/2 when r1 has been set to 0. *)
decompose_element_NoCorner(gamma2, r) ==
  LET u == Unsigned(r)
      r1 == HighPart(gamma2, (u + 127) \div 128)
  IN [r0 |-> u - r1 * (gamma2 * 2), r1 |-> r1]

decompose_element(gamma2, r) ==
  LET u == Unsigned(r)
      r1 == HighPart(gamma2, (u + 127) \div 128)
      r0 == u - r1 * (gamma2 * 2)
  IN [r0 |-> IF r0 > Halfway THEN r0 - FIELD_MODULUS ELSE r0, r1 |-> r1]

(* High parts are counted modulo this. *)
Highs(gamma2) == IF gamma2 = GAMMA2_V95_232 THEN 44 ELSE 16

use_one_hint(gamma2, r, hint) ==
  LET d == decompose_element(gamma2, r)
  IN CASE hint = 0 -> d.r1
       [] hint # 0 /\ d.r0 > 0 -> (d.r1 + hint) % Highs(gamma2)
       [] OTHER -> (d.r1 - hint) % Highs(gamma2)

-----------------------------------------------------------------------------
VARIABLES
  pc,
  gamma2, t, w, cs2, ct0,   \* the data of this coefficient
  t0, t1,    \* the key
  w0, w1,    \* the signer's w0, as moved so far, and the commitment
  hint,
  recovered  \* the verifier's commitment

inputs == <<gamma2, t, w, cs2, ct0>>
vars == <<pc, inputs, t0, t1, w0, w1, hint, recovered>>

(* A key's coefficient, or a signature's. *)
Init ==
  /\ pc \in {"key", "commit"}
  /\ gamma2 \in Gammas
  /\ t \in IF pc = "key" THEN Ts ELSE {0}
  /\ w \in IF pc = "key" THEN {0} ELSE Ws[gamma2]
  /\ cs2 \in IF pc = "key" THEN {0} ELSE CS2s[gamma2]
  /\ ct0 \in IF pc = "key" THEN {0} ELSE CT0s[gamma2]
  /\ t0 = 0 /\ t1 = 0 /\ w0 = 0 /\ w1 = 0 /\ hint = 0 /\ recovered = 0

(* power2round_vector *)
Power2Round ==
  /\ pc = "key"
  /\ t0' = power2round_element(t).t0
  /\ t1' = power2round_element(t).t1
  /\ pc' = "split"
  /\ UNCHANGED <<inputs, w0, w1, hint, recovered>>

(* decompose_vector *)
Commit ==
  /\ pc = "commit"
  /\ w0' = decompose_element(gamma2, w).r0
  /\ w1' = decompose_element(gamma2, w).r1
  /\ pc' = "committed"
  /\ UNCHANGED <<inputs, t0, t1, hint, recovered>>

(* subtract_vectors, and the test of w0 *)
Respond ==
  /\ pc = "committed"
  /\ w0' = w0 - cs2
  /\ pc' = IF norm_exceeds(w0', gamma2 - Beta[gamma2]) THEN "rejected" ELSE "responded"
  /\ UNCHANGED <<inputs, t0, t1, w1, hint, recovered>>

(* The test of c*t0, and make_hint *)
MakeHint ==
  /\ pc = "responded"
  /\ IF norm_exceeds(ct0, gamma2)
       THEN pc' = "rejected" /\ UNCHANGED <<w0, hint>>
       ELSE /\ w0' = w0 + ct0
            /\ hint' = compute_one_hint(w0', w1, gamma2)
            /\ pc' = "signed"
  /\ UNCHANGED <<inputs, t0, t1, w1, recovered>>

(* The verifier computes A*z - c*t1*2^d, which is w - c*s2 + c*t0 modulo q,   *)
(* in either representative.                                                 *)
UseHint ==
  /\ pc = "signed"
  /\ \E k \in -2 .. 2 :
       LET r == w - cs2 + ct0 + k * FIELD_MODULUS
       IN IsCoefficient(r) /\ recovered' = use_one_hint(gamma2, r, hint)
  /\ pc' = "verified"
  /\ UNCHANGED <<inputs, t0, t1, w0, w1, hint>>

Next == Power2Round \/ Commit \/ Respond \/ MakeHint \/ UseHint

Spec == Init /\ [][Next]_vars

-----------------------------------------------------------------------------
(* Properties *)

(***************************************************************************)
(* Every coefficient splits as FIPS 204 has it: t0 is the centred remainder,  *)
(* whose upper bound 2^12 is reached (the comment at arithmetic.rs 82-83 says  *)
(* it is not), t1 fits its ten bits and t0 its thirteen, and what the verifier *)
(* makes of t1 alone is t - t0 modulo q (arithmetic.rs 90-111, 160-174).       *)
(***************************************************************************)
KeySplits ==
  pc = "split" =>
    /\ t1 \in 0 .. 1023
    /\ t0 \in -4095 .. 4096
    /\ t1 * 8192 + t0 = t % FIELD_MODULUS
    /\ t0 = 4096 <=> (t % FIELD_MODULUS) % 8192 = 4096
    /\ (shift_left_then_reduce(t1) + t0 - t) % FIELD_MODULUS = 0
    /\ IsCoefficient(shift_left_then_reduce(t1))

(***************************************************************************)
(* w1 * 2 * GAMMA2 + w0 is w modulo q, w1 is below the number of high parts,  *)
(* and w0 is the centred remainder, -GAMMA2 itself only in the corner case    *)
(* (arithmetic.rs 210-270: two approximate divisions and two corrections).    *)
(***************************************************************************)
DecomposesRight ==
  pc = "committed" =>
    /\ (w1 * (2 * gamma2) + w0 - w) % FIELD_MODULUS = 0
    /\ w1 \in 0 .. Highs(gamma2) - 1
    /\ w0 \in -gamma2 .. gamma2
    /\ w0 = -gamma2 => w1 = 0

(***************************************************************************)
(* Unless the signer rejects the attempt, the verifier recovers from the hint *)
(* exactly the commitment that the signer hashed.                             *)
(***************************************************************************)
HintRecovers == pc = "verified" => recovered = w1
=============================================================================
