------------------------------ MODULE MlKemNtt ------------------------------
(***************************************************************************)
(* Ring elements of ML-KEM through key generation, encryption and decryption: *)
(* the transforms layer by layer with their running index into the zetas, the *)
(* products accumulated in 32 bits and the cache filled by the first row.  As *)
(* in MlDsaNtt an element is the residues of its 256 coefficients and m, how  *)
(* large any of them may be in absolute value for the worst inputs.           *)
(***************************************************************************)
EXTENDS Integers, Sequences

CONSTANTS Rank,       \* K
          Flows,      \* the callers followed
          Exponents   \* their inputs are monomials like X^e, e one of these

FIELD_MODULUS == 3329
q == FIELD_MODULUS
MaxI32 == 2147483647
Index == 0 .. 255

VARIABLES flow,         \* which caller: keypair, encrypt, decrypt
          e,            \* the inputs' exponent
          pc, i, j,     \* where in it, and the loops' counters
          layer,        \* the next layer of the transform under way
          zeta_i,       \* the transform's index into the zetas
          x,            \* the vector multiplied: s, r or u
          t,            \* the errors, or v: what is combined with the products
          cache,        \* odd coefficients of x times their zetas
          accumulator,  \* the row's products, 32 bits each
          result        \* the rows' results
vars == <<flow, e, pc, i, j, layer, zeta_i, x, t, cache, accumulator, result>>

ZETAS_TIMES_MONTGOMERY_R ==
  <<-1044, -758, -359, -1517, 1493, 1422, 287, 202, -171, 622, 1577, 182, 962, -1202, -1474, 1468,
    573, -1325, 264, 383, -829, 1458, -1602, -130, -681, 1017, 732, 608, -1542, 411, -205, -1571,
    1223, 652, -552, 1015, -1293, 1491, -282, -1544, 516, -8, -320, -666, -1618, -1162, 126, 1469,
    -853, -90, -271, 830, 107, -1421, -247, -951, -398, 961, -1508, -725, 448, -1065, 677, -1275,
    -1103, 430, 555, 843, -1251, 871, 1550, 105, 422, 587, 177, -235, -291, -460, 1574, 1653,
    -246, 778, 1159, -147, -777, 1483, -602, 1119, -1590, 644, -872, 349, 418, 329, -156, -75,
    817, 1097, 603, 610, 1322, -1285, -1465, 384, -1215, -136, 1218, -1335, -874, 220, -1187, -1659,
    -1185, -1530, -1278, 794, -1510, -854, -870, 478, -108, -308, 996, 991, 958, -1460, 1522, 1628>>

zeta(n) == ZETAS_TIMES_MONTGOMERY_R[n + 1]
MaxZeta == 1659

-----------------------------------------------------------------------------
(* Bounds.  MaxI32 stands for every larger value, the overflow. *)
Plus(a, b) == IF a > MaxI32 - b THEN MaxI32 ELSE a + b
Within16(m) == IF m > 32767 THEN MaxI32 ELSE m
TimesBound(a, b) == IF a # 0 /\ b > MaxI32 \div a THEN MaxI32 ELSE a * b

RInverse == 169  \* of 2^16

montgomery_reduce_element(a) == (a * RInverse) % q
MontgomeryBound(m) == IF m = MaxI32 THEN m ELSE ((m + 65535) \div 65536) + 1665

montgomery_multiply_by_constant(re, c) ==
  [v |-> [n \in Index |-> montgomery_reduce_element(re.v[n] * (c % q))],
   m |-> MontgomeryBound(TimesBound(re.m, IF c < 0 THEN -c ELSE c))]

(* The comment above it: the input bound is 28296. *)
BarrettBound(m) == IF m > 28296 THEN MaxI32 ELSE 1664
barrett_reduce(re) == [re EXCEPT !.m = BarrettBound(@)]

add(lhs, rhs) ==
  [v |-> [n \in Index |-> (lhs.v[n] + rhs.v[n]) % q], m |-> Within16(Plus(lhs.m, rhs.m))]
sub(lhs, rhs) ==
  [v |-> [n \in Index |-> (lhs.v[n] - rhs.v[n]) % q], m |-> Within16(Plus(lhs.m, rhs.m))]
negate(re) == [re EXCEPT !.v = [n \in Index |-> (-re.v[n]) % q]]

ZERO == [v |-> [n \in Index |-> 0], m |-> 0]

-----------------------------------------------------------------------------
(***************************************************************************)
(* The layers.  Layer l pairs coefficients 2^l apart; a block of 2^(l+1)      *)
(* shares a zeta.  Layers 7 to 4 go by rounds over whole vectors of sixteen,  *)
(* the others by vectors, with one, two or four zetas each.                   *)
(***************************************************************************)
LayerMap == [l \in 1 .. 7 |->
  [n \in Index |->
     [lo |-> IF (n \div 2^l) % 2 = 0 THEN n ELSE n - 2^l,
      hi |-> IF (n \div 2^l) % 2 = 0 THEN n + 2^l ELSE n,
      block |-> CASE l >= 4 -> n \div 2^(l + 1)
                  [] l = 3 -> n \div 16
                  [] l = 2 -> 2 * (n \div 16) + ((n % 16) \div 8)
                  [] l = 1 -> 4 * (n \div 16) + ((n % 16) \div 4)]]]

(* How far a layer takes the index. *)
Zetas(l) == 2^(7 - l)

(* The first layer of a small element: the zeta is -1600, and nothing reduced. *)
ntt_at_layer_7(re) ==
  [v |-> [n \in Index |->
            LET b == LayerMap[7][n]
                product == re.v[b.hi] * ((-1600) % q)
            IN  IF n = b.lo THEN (re.v[b.lo] + product) % q ELSE (re.v[b.lo] - product) % q],
   m |-> Within16(Plus(re.m, Within16(TimesBound(re.m, 1600))))]

ntt_at_layer(re, l, first) ==
  [v |-> [n \in Index |->
            LET b == LayerMap[l][n]
                product == montgomery_reduce_element(re.v[b.hi] * (zeta(first + b.block + 1) % q))
            IN  IF n = b.lo THEN (re.v[b.lo] + product) % q ELSE (re.v[b.lo] - product) % q],
   m |-> Within16(Plus(re.m, MontgomeryBound(TimesBound(re.m, MaxZeta))))]

inv_sum_bound(m) == BarrettBound(Within16(Plus(m, m)))

(* Layers 4 to 7 take the difference from the reduced sum: 2b - (a + b). *)
invert_ntt_at_layer(re, l, first) ==
  [v |-> [n \in Index |->
            LET b == LayerMap[l][n]
                difference == (re.v[b.hi] - re.v[b.lo]) % q
            IN  IF n = b.lo THEN (re.v[b.lo] + re.v[b.hi]) % q
                ELSE montgomery_reduce_element(difference * (zeta(first - b.block - 1) % q))],
   m |-> LET difference == IF l >= 4 THEN Plus(inv_sum_bound(re.m), Plus(re.m, re.m))
                           ELSE Plus(re.m, re.m)
             product == MontgomeryBound(TimesBound(Within16(difference), MaxZeta))
         IN  IF inv_sum_bound(re.m) > product THEN inv_sum_bound(re.m) ELSE product]

-----------------------------------------------------------------------------
(***************************************************************************)
(* Products of binomials modulo X^2 - zeta, added to the accumulator.         *)
(***************************************************************************)
(* The zeta of a pair of coefficients: the second pair of four has it negated. *)
PairZeta(p) == LET z == zeta(64 + (p \div 2)) IN IF p % 2 = 0 THEN z ELSE -z

(* bj_zeta, what fill_cache keeps of the right hand side. *)
Cached(rhs) ==
  [v |-> [p \in 0 .. 127 |-> montgomery_reduce_element(rhs.v[2 * p + 1] * (PairZeta(p) % q))],
   m |-> MontgomeryBound(TimesBound(rhs.m, MaxZeta))]

accumulating_ntt_multiply(acc, lhs, rhs, bj_zeta) ==
  [v |-> [n \in Index |->
            LET p == n \div 2
                ai == lhs.v[2 * p]  aj == lhs.v[2 * p + 1]
                bi == rhs.v[2 * p]  bj == rhs.v[2 * p + 1]
            IN  IF n % 2 = 0 THEN (acc.v[n] + ai * bi + aj * bj_zeta.v[p]) % q
                ELSE (acc.v[n] + ai * bj + aj * bi) % q],
   m |-> LET other == IF bj_zeta.m > rhs.m THEN bj_zeta.m ELSE rhs.m
         IN  Plus(acc.m, Plus(TimesBound(lhs.m, rhs.m), TimesBound(lhs.m, other)))]

reducing_from_i32_array(acc) ==
  [v |-> [n \in Index |-> montgomery_reduce_element(acc.v[n])], m |-> MontgomeryBound(acc.m)]

to_standard_domain(re) == montgomery_multiply_by_constant(re, 1353)
add_standard_error_reduce(re, error) == barrett_reduce(add(to_standard_domain(re), error))

(* 1441 takes 128 and the R of the products out, and puts R in for itself. *)
add_error_reduce(re, error) ==
  barrett_reduce(add(montgomery_multiply_by_constant(re, 1441), error))
add_message_error_reduce(re, error, message) ==
  barrett_reduce(add(montgomery_multiply_by_constant(re, 1441), add(error, message)))
subtract_reduce(v, b) ==
  barrett_reduce(negate(sub(montgomery_multiply_by_constant(b, 1441), v)))

-----------------------------------------------------------------------------
(***************************************************************************)
(* Inputs: monomials, with the bounds of what the callers hand over: A and t   *)
(* are below q, s, r and the errors at most 3, the message's coefficients 0   *)
(* and 1665, u and v below q, and a secret key is read without a reduction.   *)
(***************************************************************************)
Monomial(k, bound) ==
  [v |-> [n \in Index |-> CASE n = k % 512 -> 1 [] n + 256 = k % 512 -> q - 1 [] OTHER -> 0],
   m |-> bound]

BitReversed(p) ==
  LET bit(b) == (p \div 2^b) % 2
  IN  64 * bit(0) + 32 * bit(1) + 16 * bit(2) + 8 * bit(3) + 4 * bit(4) + 2 * bit(5) + bit(6)

RootPower[k \in 0 .. 255] ==
  IF k = 0 THEN 1
  ELSE LET half == RootPower[k \div 2]
       IN  IF k % 2 = 0 THEN (half * half) % q ELSE (17 * half * half) % q

(* X^k modulo X^2 - 17^(2 BitReversed(p) + 1), for each pair p of coefficients. *)
Values(k) ==
  [n \in Index |->
     IF n % 2 # k % 2 THEN 0
     ELSE RootPower[((2 * BitReversed(n \div 2) + 1) * ((k % 512) \div 2)) % 256]]

ExponentOfA(r, n) == e + 37 * r + 101 * n
ExponentOfX(n) == 3 * e + 55 * n
ExponentOfT(n) == 5 * e + 91 * n
ExponentOfMessage == 7 * e + 200

FlowRows == CASE flow = "keypair" -> Rank [] flow = "encrypt" -> Rank + 1 [] OTHER -> 1

(* The matrix, or t for the row that makes v, or the secret key. *)
Entry(r, n) == [v |-> Values(ExponentOfA(r, n)), m |-> IF flow = "decrypt" THEN 4095 ELSE q - 1]

Init ==
  /\ flow \in Flows /\ e \in Exponents
  /\ pc = "ntt_x" /\ i = 0 /\ j = 0 /\ layer = 7 /\ zeta_i = 0
  /\ x = [n \in 0 .. Rank - 1 |->
            Monomial(ExponentOfX(n), IF flow = "decrypt" THEN q - 1 ELSE 3)]
  /\ t = [n \in 0 .. FlowRows - 1 |->
            Monomial(ExponentOfT(n), IF flow = "decrypt" THEN q - 1 ELSE 3)]
  /\ cache = [n \in 0 .. Rank - 1 |-> [v |-> [p \in 0 .. 127 |-> 0], m |-> 0]]
  /\ accumulator = ZERO
  /\ result = [n \in 0 .. FlowRows - 1 |-> ZERO]

-----------------------------------------------------------------------------
(* A layer of either transform, and what follows the last one.  The index     *)
(* starts at 1 after the multiplication by -1600, at 0 for the vector u.      *)
Transformed(re) ==
  LET after == IF layer = 7 /\ flow # "decrypt" THEN ntt_at_layer_7(re)
               ELSE ntt_at_layer(re, layer, zeta_i)
  IN  IF layer = 1 THEN barrett_reduce(after) ELSE after

StepLayer ==
  IF layer > 1
  THEN layer' = layer - 1 /\ zeta_i' = IF layer = 7 THEN 1 ELSE zeta_i + Zetas(layer)
  ELSE layer' = 7 /\ zeta_i' = 0

NttX ==
  /\ pc = "ntt_x"
  /\ x' = [x EXCEPT ![j] = Transformed(@)]
  /\ StepLayer
  /\ IF layer > 1 THEN UNCHANGED <<pc, j>>
     ELSE IF j < Rank - 1 THEN j' = j + 1 /\ UNCHANGED pc
     ELSE j' = 0 /\ pc' = IF flow = "keypair" THEN "ntt_error" ELSE "products"
  /\ UNCHANGED <<flow, e, i, t, cache, accumulator, result>>

(* Key generation transforms the errors, too. *)
NttError ==
  /\ pc = "ntt_error"
  /\ t' = [t EXCEPT ![j] = Transformed(@)]
  /\ StepLayer
  /\ IF layer > 1 THEN UNCHANGED <<pc, j>>
     ELSE IF j < Rank - 1 THEN j' = j + 1 /\ UNCHANGED pc
     ELSE j' = 0 /\ pc' = "products"
  /\ UNCHANGED <<flow, e, i, x, cache, accumulator, result>>

(* The first row fills the cache, which the others use; decryption has none. *)
FillCache == IF i = 0 /\ flow # "decrypt" THEN [cache EXCEPT ![j] = Cached(x[j])] ELSE cache

(* A row starts from zeros, key generation's first one from the caller's. *)
Product ==
  /\ pc = "products"
  /\ cache' = FillCache
  /\ LET acc == IF j = 0 /\ ~(flow = "keypair" /\ i = 0) THEN ZERO ELSE accumulator
         bj_zeta == IF flow = "decrypt" THEN Cached(x[j]) ELSE cache'[j]
     IN  accumulator' = accumulating_ntt_multiply(acc, Entry(i, j), x[j], bj_zeta)
  /\ IF j < Rank - 1 THEN j' = j + 1 /\ UNCHANGED <<pc, result, zeta_i>>
     ELSE /\ j' = 0
          /\ result' = [result EXCEPT ![i] = reducing_from_i32_array(accumulator')]
          /\ pc' = IF flow = "keypair" THEN "combine" ELSE "invert"
          /\ zeta_i' = IF flow = "keypair" THEN zeta_i ELSE 128
  /\ layer' = IF pc' = "invert" THEN 1 ELSE layer
  /\ UNCHANGED <<flow, e, i, x, t>>

Invert ==
  /\ pc = "invert"
  /\ result' = [result EXCEPT ![i] = invert_ntt_at_layer(@, layer, zeta_i)]
  /\ IF layer < 7 THEN layer' = layer + 1 /\ zeta_i' = zeta_i - Zetas(layer) /\ UNCHANGED pc
     ELSE layer' = 7 /\ zeta_i' = 0 /\ pc' = "combine"
  /\ UNCHANGED <<flow, e, i, j, x, t, cache, accumulator>>

(* The error, the message or v joins the row, and the next row begins. *)
Combine ==
  /\ pc = "combine"
  /\ result' = [result EXCEPT ![i] =
                  CASE flow = "keypair" -> add_standard_error_reduce(@, t[i])
                    [] flow = "encrypt" /\ i < Rank -> add_error_reduce(@, t[i])
                    [] flow = "encrypt" /\ i = Rank ->
                         add_message_error_reduce(@, t[i], Monomial(ExponentOfMessage, 1665))
                    [] flow = "decrypt" -> subtract_reduce(t[i], @)]
  /\ IF i < FlowRows - 1 THEN i' = i + 1 /\ pc' = "products" ELSE i' = i /\ pc' = "done"
  /\ UNCHANGED <<flow, e, j, layer, zeta_i, x, t, cache, accumulator>>

Next == NttX \/ NttError \/ Product \/ Invert \/ Combine

Spec == Init /\ [][Next]_vars
=============================================================================
