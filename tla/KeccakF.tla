------------------------------ MODULE KeccakF ------------------------------
(***************************************************************************)
(* keccakf1600, function by function, in the four copies the C bundles have:  *)
(* they are of different revisions, three count the rounds in the state, and  *)
(* ML-KEM's is unrolled for the round constants.  Every round is followed for *)
(* arbitrary contents: the words it finds are named after the lanes of        *)
(* KeccakSpec that they should be.  The theorem is at the end.                *)
(***************************************************************************)
EXTENDS Integers, Sequences, FiniteSets, TLAPS

K == INSTANCE KeccakSpec
Five == 0 .. 4
Half == 0 .. 1
Slot == Five \X Five \X Half

Sha3 == INSTANCE KeccakLanes
MlKem == INSTANCE KeccakUnrolled
MlDsa == INSTANCE KeccakMlDsa
Combined == INSTANCE KeccakCombined

Copies == [sha3 |-> Sha3!keccakf1600, ml_kem |-> MlKem!keccakf1600,
           ml_dsa |-> MlDsa!keccakf1600, combined |-> Combined!keccakf1600]

CONSTANTS Bundles,  \* a subset of the names of Copies
          Calls     \* how often the permutation is called on one state

ASSUME BundlesAssumption == Bundles \subseteq DOMAIN Copies
ASSUME CallsAssumption == Calls \in Nat

VARIABLES bundle,  \* whose copy it is
          st,      \* the state: a word for each slot
          c, d,    \* the columns' parities and what theta adds to each column
          i,       \* KeccakState::i
          round,   \* rounds done in this call
          k,       \* the next function of the round: 0 is theta, 11 the end of it
          calls    \* calls made
vars == <<bundle, st, c, d, i, round, k, calls>>

-----------------------------------------------------------------------------
(***************************************************************************)
(* Where the words of lane (x, y) lie before the r-th of four rounds: a word  *)
(* moves along its row of functions to the slot read in its column.          *)
(***************************************************************************)
Place[r \in 0 .. 4] ==
  [w \in Five \X Five \X Half |->
     IF r = 0 THEN <<w[2], w[1], w[3]>>
     ELSE LET y == CHOOSE y \in Five : K!pi[w[1], y][2] = w[2]
              h == (w[3] + K!rho[<<w[1], y>>]) % 2
          IN  Place[r - 1][<<w[1], y, h>>]]

Named(r) ==
  [s \in Slot |-> LET w == CHOOSE w \in Five \X Five \X Half : Place[r][w] = s
                  IN  {<<w[1], w[2], w[3], 0>>}]

-----------------------------------------------------------------------------
(* The functions of the round under way, in the copy's own text. *)
Copy == Copies[bundle]
Functions == Copy.groups[(round \div 4) + 1][(round % 4) + 1]

theta_c(s, x, z) ==
  LET zeta == Functions.theta.c[x + 1][z + 1]
      a(y) == s[<<y, x, zeta[y + 1]>>]
  IN  K!Xor(K!Xor(K!Xor(K!Xor(a(0), a(1)), a(2)), a(3)), a(4))

theta_d(p) ==
  [w \in Five \X Half |->
     LET f == Functions.theta.d[w[1] + 1][w[2] + 1]
     IN  K!Xor(p[<<f[1], f[2]>>], K!rotate_left(p[<<f[3], f[4]>>], f[5]))]

Theta ==
  /\ k = 0 /\ round < 24 /\ calls < Calls
  /\ st' = Named(round % 4)
  /\ c' = [w \in Five \X Half |-> theta_c(st', w[1], w[2])]
  /\ d' = theta_d(c')
  /\ k' = 1
  /\ UNCHANGED <<bundle, i, round, calls>>

(* The constant of a y0 row: at the counter, or at the index in the text. *)
ConstantIndex == IF Copy.counted THEN i ELSE Functions.rc
RoundConstant(z) ==
  LET table == Copy.RC[z + 1]
  IN  IF ConstantIndex < Len(table) THEN {<<b>> : b \in table[ConstantIndex + 1]} ELSE {<<32>>}

PiRhoChi ==
  /\ k \in 1 .. 10
  /\ LET f == Functions.rows[k]
         slot(x) == <<f[x + 1][1], x, f[x + 1][2]>>
         a(x) == K!rotate_left(K!Xor(st[slot(x)], d[<<x, f[x + 1][3]>>]), f[x + 1][4])
         bx(m) == a((CHOOSE x \in Five : f[x + 1][5] = m % 5))
         rc == IF k <= 2 THEN RoundConstant(k - 1) ELSE {}
         ax(x) == K!Xor(K!Xor(bx(x), K!AndNot(bx(x + 1), bx(x + 2))),
                        IF x = 0 THEN rc ELSE {})
     IN  st' = [s \in Slot |-> IF s = slot(s[2]) THEN ax(s[2]) ELSE st[s]]
  /\ i' = IF k = 2 /\ Copy.counted THEN i + 1 ELSE i
  /\ k' = k + 1
  /\ UNCHANGED <<bundle, c, d, round, calls>>

NextRound ==
  /\ k = 11
  /\ round' = round + 1 /\ k' = 0
  /\ UNCHANGED <<bundle, st, c, d, i, calls>>

(* Mutant: the counter is not taken back. *)
Return_KeepsIndex ==
  /\ round = 24
  /\ round' = 0 /\ calls' = calls + 1
  /\ UNCHANGED <<bundle, st, c, d, i, k>>

Return ==
  /\ round = 24
  /\ i' = 0 /\ round' = 0 /\ calls' = calls + 1
  /\ UNCHANGED <<bundle, st, c, d, k>>

-----------------------------------------------------------------------------
Init ==
  /\ bundle \in Bundles
  /\ st = [s \in Slot |-> {}]
  /\ c = [w \in Five \X Half |-> {}] /\ d = [w \in Five \X Half |-> {}]
  /\ i = 0 /\ round = 0 /\ k = 0 /\ calls = 0

Next == Theta \/ PiRhoChi \/ NextRound \/ Return

Spec == Init /\ [][Next]_vars

-----------------------------------------------------------------------------
(***************************************************************************)
(* At the end of a round every word of the state, found where the functions   *)
(* of the next round look for it, is what the round of Keccak-f[1600] with    *)
(* that number makes of the words the round found: no slot was overwritten    *)
(* before it was read, no half taken for the other, no rotation, constant or  *)
(* column wrong, in any copy and in each of four layouts of the state.  After *)
(* the last round the words of lane (x, y) are at get_lane(y, x) (state.rs).  *)
(***************************************************************************)
RoundsAreKeccak ==
  k = 11 =>
    \A w \in Five \X Five \X Half :
      LET word == K!Round(round)[<<w[1], w[2]>>][w[3]]
      IN  /\ st[Place[(round % 4) + 1][w]] = word
          /\ round = 23 => st[<<w[2], w[1], w[3]>>] = word

(***************************************************************************)
(* In every call the y0 rows of a round add the constant with that round's    *)
(* number, which the table has, whether the rounds are counted or the number  *)
(* stands in the text of the unrolled function; and a caller finds the        *)
(* counter at the first constant.                                            *)
(***************************************************************************)
ConstantsInOrder ==
  /\ k \in {1, 2} =>
       ConstantIndex = round /\ \A z \in Half : ConstantIndex < Len(Copy.RC[z + 1])
  /\ k = 0 /\ round = 0 => i = 0

-----------------------------------------------------------------------------
(* What the unrolled functions say of the constants: each names its own round.  *)
LEMMA Unrolled0 ==
  /\ MlKem!round0_pi_rho_chi_1_56.rc = 0 /\ MlKem!round0_pi_rho_chi_1_23.rc = 4
  /\ MlKem!round0_pi_rho_chi_1_70.rc = 8 /\ MlKem!round0_pi_rho_chi_1_60.rc = 12
  /\ MlKem!round0_pi_rho_chi_1_18.rc = 16 /\ MlKem!round0_pi_rho_chi_1_fc.rc = 20
<1>1. /\ "rc" \in DOMAIN MlKem!round0_pi_rho_chi_1_56
      /\ MlKem!round0_pi_rho_chi_1_56.rc = 0
  BY DEF MlKem!round0_pi_rho_chi_1_56
<1> QED
  BY <1>1 DEF MlKem!round0_pi_rho_chi_1_23, MlKem!round0_pi_rho_chi_1_70, MlKem!round0_pi_rho_chi_1_60,
     MlKem!round0_pi_rho_chi_1_18, MlKem!round0_pi_rho_chi_1_fc

LEMMA Unrolled1 ==
  /\ MlKem!round1_pi_rho_chi_1_56.rc = 1 /\ MlKem!round1_pi_rho_chi_1_23.rc = 5
  /\ MlKem!round1_pi_rho_chi_1_70.rc = 9 /\ MlKem!round1_pi_rho_chi_1_60.rc = 13
  /\ MlKem!round1_pi_rho_chi_1_18.rc = 17 /\ MlKem!round1_pi_rho_chi_1_fc.rc = 21
<1>1. /\ "rc" \in DOMAIN MlKem!round1_pi_rho_chi_1_56
      /\ MlKem!round1_pi_rho_chi_1_56.rc = 1
  BY DEF MlKem!round1_pi_rho_chi_1_56
<1> QED
  BY <1>1 DEF MlKem!round1_pi_rho_chi_1_23, MlKem!round1_pi_rho_chi_1_70, MlKem!round1_pi_rho_chi_1_60,
     MlKem!round1_pi_rho_chi_1_18, MlKem!round1_pi_rho_chi_1_fc

LEMMA Unrolled2 ==
  /\ MlKem!round2_pi_rho_chi_1_56.rc = 2 /\ MlKem!round2_pi_rho_chi_1_23.rc = 6
  /\ MlKem!round2_pi_rho_chi_1_70.rc = 10 /\ MlKem!round2_pi_rho_chi_1_60.rc = 14
  /\ MlKem!round2_pi_rho_chi_1_18.rc = 18 /\ MlKem!round2_pi_rho_chi_1_fc.rc = 22
<1>1. /\ "rc" \in DOMAIN MlKem!round2_pi_rho_chi_1_56
      /\ MlKem!round2_pi_rho_chi_1_56.rc = 2
  BY DEF MlKem!round2_pi_rho_chi_1_56
<1> QED
  BY <1>1 DEF MlKem!round2_pi_rho_chi_1_23, MlKem!round2_pi_rho_chi_1_70, MlKem!round2_pi_rho_chi_1_60,
     MlKem!round2_pi_rho_chi_1_18, MlKem!round2_pi_rho_chi_1_fc

LEMMA Unrolled3 ==
  /\ MlKem!round3_pi_rho_chi_1_56.rc = 3 /\ MlKem!round3_pi_rho_chi_1_23.rc = 7
  /\ MlKem!round3_pi_rho_chi_1_70.rc = 11 /\ MlKem!round3_pi_rho_chi_1_60.rc = 15
  /\ MlKem!round3_pi_rho_chi_1_18.rc = 19 /\ MlKem!round3_pi_rho_chi_1_fc.rc = 23
<1>1. /\ "rc" \in DOMAIN MlKem!round3_pi_rho_chi_1_56
      /\ MlKem!round3_pi_rho_chi_1_56.rc = 3
  BY DEF MlKem!round3_pi_rho_chi_1_56
<1> QED
  BY <1>1 DEF MlKem!round3_pi_rho_chi_1_23, MlKem!round3_pi_rho_chi_1_70, MlKem!round3_pi_rho_chi_1_60,
     MlKem!round3_pi_rho_chi_1_18, MlKem!round3_pi_rho_chi_1_fc

LEMMA UnrolledGroups ==
  ASSUME NEW r \in 0 .. 23
  PROVE  MlKem!keccakf1600.groups[(r \div 4) + 1][(r % 4) + 1].rc = r
<1>1. /\ MlKem!keccakf1600_4rounds_56[1].rc = 0
      /\ MlKem!keccakf1600_4rounds_56[2].rc = 1
      /\ MlKem!keccakf1600_4rounds_56[3].rc = 2
      /\ MlKem!keccakf1600_4rounds_56[4].rc = 3
  BY Unrolled0, Unrolled1, Unrolled2, Unrolled3 DEF MlKem!keccakf1600_4rounds_56
<1>2. /\ MlKem!keccakf1600_4rounds_23[1].rc = 4
      /\ MlKem!keccakf1600_4rounds_23[2].rc = 5
      /\ MlKem!keccakf1600_4rounds_23[3].rc = 6
      /\ MlKem!keccakf1600_4rounds_23[4].rc = 7
  BY Unrolled0, Unrolled1, Unrolled2, Unrolled3 DEF MlKem!keccakf1600_4rounds_23
<1>3. /\ MlKem!keccakf1600_4rounds_70[1].rc = 8
      /\ MlKem!keccakf1600_4rounds_70[2].rc = 9
      /\ MlKem!keccakf1600_4rounds_70[3].rc = 10
      /\ MlKem!keccakf1600_4rounds_70[4].rc = 11
  BY Unrolled0, Unrolled1, Unrolled2, Unrolled3 DEF MlKem!keccakf1600_4rounds_70
<1>4. /\ MlKem!keccakf1600_4rounds_60[1].rc = 12
      /\ MlKem!keccakf1600_4rounds_60[2].rc = 13
      /\ MlKem!keccakf1600_4rounds_60[3].rc = 14
      /\ MlKem!keccakf1600_4rounds_60[4].rc = 15
  BY Unrolled0, Unrolled1, Unrolled2, Unrolled3 DEF MlKem!keccakf1600_4rounds_60
<1>5. /\ MlKem!keccakf1600_4rounds_18[1].rc = 16
      /\ MlKem!keccakf1600_4rounds_18[2].rc = 17
      /\ MlKem!keccakf1600_4rounds_18[3].rc = 18
      /\ MlKem!keccakf1600_4rounds_18[4].rc = 19
  BY Unrolled0, Unrolled1, Unrolled2, Unrolled3 DEF MlKem!keccakf1600_4rounds_18
<1>6. /\ MlKem!keccakf1600_4rounds_fc[1].rc = 20
      /\ MlKem!keccakf1600_4rounds_fc[2].rc = 21
      /\ MlKem!keccakf1600_4rounds_fc[3].rc = 22
      /\ MlKem!keccakf1600_4rounds_fc[4].rc = 23
  BY Unrolled0, Unrolled1, Unrolled2, Unrolled3 DEF MlKem!keccakf1600_4rounds_fc
<1>7. MlKem!keccakf1600.groups =
        <<MlKem!keccakf1600_4rounds_56, MlKem!keccakf1600_4rounds_23,
          MlKem!keccakf1600_4rounds_70, MlKem!keccakf1600_4rounds_60,
          MlKem!keccakf1600_4rounds_18, MlKem!keccakf1600_4rounds_fc>>
  BY DEF MlKem!keccakf1600
<1>8. PICK g \in 1 .. 6, n \in 1 .. 4 : g = (r \div 4) + 1 /\ n = (r % 4) + 1 /\ r = 4 * (g - 1) + n - 1
  BY SMT
<1> SUFFICES MlKem!keccakf1600.groups[g][n].rc = r
  BY <1>8
<1>9. CASE g = 1
  <2>1. MlKem!keccakf1600.groups[g] = MlKem!keccakf1600_4rounds_56
    BY <1>7, <1>9
  <2>2. r = 0 + n - 1 /\ (n = 1 \/ n = 2 \/ n = 3 \/ n = 4)
    BY <1>8, <1>9
  <2> QED
    BY <1>1, <2>1, <2>2
<1>10. CASE g = 2
  <2>1. MlKem!keccakf1600.groups[g] = MlKem!keccakf1600_4rounds_23
    BY <1>7, <1>10
  <2>2. r = 4 + n - 1 /\ (n = 1 \/ n = 2 \/ n = 3 \/ n = 4)
    BY <1>8, <1>10
  <2> QED
    BY <1>2, <2>1, <2>2
<1>11. CASE g = 3
  <2>1. MlKem!keccakf1600.groups[g] = MlKem!keccakf1600_4rounds_70
    BY <1>7, <1>11
  <2>2. r = 8 + n - 1 /\ (n = 1 \/ n = 2 \/ n = 3 \/ n = 4)
    BY <1>8, <1>11
  <2> QED
    BY <1>3, <2>1, <2>2
<1>12. CASE g = 4
  <2>1. MlKem!keccakf1600.groups[g] = MlKem!keccakf1600_4rounds_60
    BY <1>7, <1>12
  <2>2. r = 12 + n - 1 /\ (n = 1 \/ n = 2 \/ n = 3 \/ n = 4)
    BY <1>8, <1>12
  <2> QED
    BY <1>4, <2>1, <2>2
<1>13. CASE g = 5
  <2>1. MlKem!keccakf1600.groups[g] = MlKem!keccakf1600_4rounds_18
    BY <1>7, <1>13
  <2>2. r = 16 + n - 1 /\ (n = 1 \/ n = 2 \/ n = 3 \/ n = 4)
    BY <1>8, <1>13
  <2> QED
    BY <1>5, <2>1, <2>2
<1>14. CASE g = 6
  <2>1. MlKem!keccakf1600.groups[g] = MlKem!keccakf1600_4rounds_fc
    BY <1>7, <1>14
  <2>2. r = 20 + n - 1 /\ (n = 1 \/ n = 2 \/ n = 3 \/ n = 4)
    BY <1>8, <1>14
  <2> QED
    BY <1>6, <2>1, <2>2
<1> QED
  BY <1>9, <1>10, <1>11, <1>12, <1>13, <1>14

(* Every copy has all 24 constants, and counts the rounds or names each.       *)
LEMMA TablesNameRounds ==
  ASSUME NEW name \in DOMAIN Copies
  PROVE  /\ Len(Copies[name].RC[1]) = 24 /\ Len(Copies[name].RC[2]) = 24
         /\ Copies[name].counted \in BOOLEAN
         /\ ~Copies[name].counted =>
              \A r \in 0 .. 23 : Copies[name].groups[(r \div 4) + 1][(r % 4) + 1].rc = r
<1>1. name \in {"sha3", "ml_kem", "ml_dsa", "combined"}
  BY DEF Copies
<1>2. CASE name = "sha3"
  <2>1. Copies[name] = Sha3!keccakf1600
    BY <1>2 DEF Copies
  <2>2. /\ Copies[name].RC[1] = Sha3!RC_INTERLEAVED_0
        /\ Copies[name].RC[2] = Sha3!RC_INTERLEAVED_1
        /\ Copies[name].counted = TRUE
    BY <2>1 DEF Sha3!keccakf1600
  <2>3. Len(Sha3!RC_INTERLEAVED_0) = 24 /\ Len(Sha3!RC_INTERLEAVED_1) = 24
    BY DEF Sha3!RC_INTERLEAVED_0, Sha3!RC_INTERLEAVED_1
  <2> QED
    BY <2>2, <2>3
<1>3. CASE name = "ml_dsa"
  <2>1. Copies[name] = MlDsa!keccakf1600
    BY <1>3 DEF Copies
  <2>2. /\ Copies[name].RC[1] = MlDsa!RC_INTERLEAVED_0
        /\ Copies[name].RC[2] = MlDsa!RC_INTERLEAVED_1
        /\ Copies[name].counted = TRUE
    BY <2>1 DEF MlDsa!keccakf1600
  <2>3. Len(MlDsa!RC_INTERLEAVED_0) = 24 /\ Len(MlDsa!RC_INTERLEAVED_1) = 24
    BY DEF MlDsa!RC_INTERLEAVED_0, MlDsa!RC_INTERLEAVED_1
  <2> QED
    BY <2>2, <2>3
<1>4. CASE name = "combined"
  <2>1. Copies[name] = Combined!keccakf1600
    BY <1>4 DEF Copies
  <2>2. /\ Copies[name].RC[1] = Combined!RC_INTERLEAVED_0
        /\ Copies[name].RC[2] = Combined!RC_INTERLEAVED_1
        /\ Copies[name].counted = TRUE
    BY <2>1 DEF Combined!keccakf1600
  <2>3. Len(Combined!RC_INTERLEAVED_0) = 24 /\ Len(Combined!RC_INTERLEAVED_1) = 24
    BY DEF Combined!RC_INTERLEAVED_0, Combined!RC_INTERLEAVED_1
  <2> QED
    BY <2>2, <2>3
<1>5. CASE name = "ml_kem"
  <2>1. Copies[name] = MlKem!keccakf1600
    BY <1>5 DEF Copies
  <2>2. /\ Copies[name].RC[1] = MlKem!RC_INTERLEAVED_0
        /\ Copies[name].RC[2] = MlKem!RC_INTERLEAVED_1
        /\ Copies[name].counted = FALSE
    BY <2>1 DEF MlKem!keccakf1600
  <2>3. Len(MlKem!RC_INTERLEAVED_0) = 24 /\ Len(MlKem!RC_INTERLEAVED_1) = 24
    BY DEF MlKem!RC_INTERLEAVED_0, MlKem!RC_INTERLEAVED_1
  <2>4. \A r \in 0 .. 23 : Copies[name].groups[(r \div 4) + 1][(r % 4) + 1].rc = r
    BY <2>1, UnrolledGroups
  <2> QED
    BY <2>2, <2>3, <2>4
<1> QED
  BY <1>1, <1>2, <1>3, <1>4, <1>5

(* Between the calls and within them, the counter says how many rounds have    *)
(* added their constants; where rounds are not counted it stays at 0.         *)
CounterInv ==
  /\ bundle \in DOMAIN Copies
  /\ round \in 0 .. 24 /\ k \in 0 .. 11 /\ (round = 24 => k = 0)
  /\ i = IF ~Copies[bundle].counted THEN 0 ELSE IF k > 2 THEN round + 1 ELSE round

(***************************************************************************)
(* However often the permutation is called, each round of each copy adds its   *)
(* own constant, and the next call starts at the first (keccak.rs 2575, where  *)
(* keccakf1600 takes the counter back).                                       *)
(***************************************************************************)
THEOREM ConstantsRight == Spec => []ConstantsInOrder
<1>1. Init => CounterInv
  BY BundlesAssumption DEF Init, CounterInv
<1>2. CounterInv /\ [Next]_vars => CounterInv'
  <2> SUFFICES ASSUME CounterInv, [Next]_vars PROVE CounterInv'
    OBVIOUS
  <2>1. Copies[bundle].counted \in BOOLEAN
    BY TablesNameRounds DEF CounterInv
  <2>2. CASE Theta
    BY <2>2 DEF Theta, CounterInv
  <2>3. CASE PiRhoChi
    <3>1. /\ k \in 1 .. 10 /\ k' = k + 1 /\ bundle' = bundle /\ round' = round
          /\ i' = IF k = 2 /\ Copies[bundle].counted THEN i + 1 ELSE i
      BY <2>3 DEF PiRhoChi, Copy
    <3> QED
      BY <2>1, <3>1 DEF CounterInv
  <2>4. CASE NextRound
    <3>1. k = 11 /\ round' = round + 1 /\ k' = 0 /\ bundle' = bundle /\ i' = i
      BY <2>4 DEF NextRound
    <3> QED
      BY <3>1 DEF CounterInv
  <2>5. CASE Return
    BY <2>5 DEF Return, CounterInv
  <2>6. CASE UNCHANGED vars
    BY <2>6 DEF vars, CounterInv
  <2> QED
    BY <2>2, <2>3, <2>4, <2>5, <2>6 DEF Next
<1>3. CounterInv => ConstantsInOrder
  <2> SUFFICES ASSUME CounterInv PROVE ConstantsInOrder
    OBVIOUS
  <2>1. /\ Len(Copy.RC[1]) = 24 /\ Len(Copy.RC[2]) = 24 /\ Copy.counted \in BOOLEAN
        /\ ~Copy.counted =>
             \A r \in 0 .. 23 : Copy.groups[(r \div 4) + 1][(r % 4) + 1].rc = r
    BY TablesNameRounds DEF CounterInv, Copy
  <2>2. ASSUME k \in {1, 2}
        PROVE  ConstantIndex = round /\ round \in 0 .. 23
    <3>1. round \in 0 .. 23
      BY <2>2 DEF CounterInv
    <3>2. CASE Copy.counted
      BY <2>2, <3>1, <3>2 DEF CounterInv, ConstantIndex, Copy
    <3>3. CASE ~Copy.counted
      <4>1. Functions.rc = round
        BY <2>1, <3>1, <3>3 DEF Functions
      <4> QED
        BY <3>1, <3>3, <4>1 DEF ConstantIndex
    <3> QED
      BY <3>2, <3>3
  <2>3. \A z \in Half : Len(Copy.RC[z + 1]) = 24
    <3>1. \A z \in Half : z = 0 \/ z = 1
      BY DEF Half
    <3> QED
      BY <2>1, <3>1
  <2>4. k = 0 /\ round = 0 => i = 0
    BY <2>1 DEF CounterInv, Copy
  <2>5. ASSUME k \in {1, 2}, NEW z \in Half PROVE ConstantIndex < Len(Copy.RC[z + 1])
    <3>1. Len(Copy.RC[z + 1]) = 24
      BY <2>3
    <3> QED
      BY <2>2, <2>5, <3>1
  <2> QED
    BY <2>2, <2>4, <2>5 DEF ConstantsInOrder
<1> QED
  BY <1>1, <1>2, <1>3, PTL DEF Spec
=============================================================================
