---------------------------- MODULE MlKem_proofs ----------------------------
(***************************************************************************)
(* ML-KEM for every rank, variant and randomness: the two sides agree exactly   *)
(* when nothing was changed on the way, a changed ciphertext gets the implicit  *)
(* rejection, and no two noise polynomials of a call are the same.             *)
(*                                                                         *)
(* A value is a formal polynomial over the atoms that were sampled.  All that   *)
(* the program computes of them has coefficients 1, so it is known by its set   *)
(* of monomials: a sum of disjoint sets is their union, a product pairs their   *)
(* members.  With that the rows of t and u, v, and what decryption makes of     *)
(* them are closed forms, and the invariant says that memory holds these.      *)
(***************************************************************************)
EXTENDS MlKem, FiniteSetTheorems, TLAPS

-----------------------------------------------------------------------------
(* Polynomials with coefficients 1. *)

(* The polynomial with a coefficient of 1 for each of the monomials M. *)
Poly(M) == [m \in M |-> 1]

LEMMA AtomIs == ASSUME NEW a PROVE Atom(a) = Poly({{a}})
BY DEF Atom, Poly

LEMMA ZeroIs == Zero = Poly({})
BY DEF Zero, Poly

LEMMA PolyDomain == ASSUME NEW M PROVE DOMAIN Poly(M) = M /\ \A m \in M : Poly(M)[m] = 1
BY DEF Poly

LEMMA PolyEqual == ASSUME NEW M, NEW N PROVE Poly(M) = Poly(N) <=> M = N
BY DEF Poly

LEMMA PlusPoly ==
  ASSUME NEW M, NEW N, M \cap N = {}
  PROVE  Plus(Poly(M), Poly(N)) = Poly(M \cup N)
<1> DEFINE c(m) == Coefficient(Poly(M), m) + Coefficient(Poly(N), m)
<1>1. \A m \in M \cup N : c(m) = 1
  BY DEF Coefficient, Poly
<1>2. Plus(Poly(M), Poly(N)) = [m \in {n \in M \cup N : c(n) # 0} |-> c(m)]
  BY PolyDomain DEF Plus, Collect
<1> HIDE DEF c
<1>3. {n \in M \cup N : c(n) # 0} = M \cup N
  BY <1>1
<1> QED
  BY <1>1, <1>2, <1>3 DEF Poly

(* A coefficient of a product: the sum over these pairs of monomials. *)
TermSum(p, q, S) == MapThenSumSet(LAMBDA x : p[x[1]] * q[x[2]], S)

LEMMA OneTerm ==
  ASSUME NEW p, NEW q, NEW x, p[x[1]] * q[x[2]] = 1
  PROVE  TermSum(p, q, {x}) = 1
<1> DEFINE F(g, s) == IF s = {} THEN 0
                      ELSE LET y == CHOOSE y \in s : TRUE
                           IN  p[y[1]] * q[y[2]] + g[s \ {y}]
           known == [s \in SUBSET {x} |-> IF s = {} THEN 0 ELSE 1]
           iter == CHOOSE g : g = [s \in SUBSET {x} |-> F(g, s)]
<1>1. \A s \in SUBSET {x} : s = {} \/ s = {x}
  OBVIOUS
<1>2. (CHOOSE y \in {x} : TRUE) = x
  OBVIOUS
<1>3. \A s \in SUBSET {x} : known[s] = F(known, s)
  BY <1>1, <1>2
<1>4. known = [s \in SUBSET {x} |-> F(known, s)]
  BY <1>3
<1>5. iter = [s \in SUBSET {x} |-> F(iter, s)]
  BY <1>4
<1>6. TermSum(p, q, {x}) = iter[{x}]
  BY DEF TermSum, MapThenSumSet, MapThenFoldSet
<1> HIDE DEF iter
<1>7. iter[{}] = 0
  BY <1>5
<1>8. iter[{x}] = p[x[1]] * q[x[2]] + iter[{x} \ {x}]
  BY <1>2, <1>5
<1>9. iter[{x}] = 1
  BY <1>7, <1>8
<1> QED
  BY <1>6, <1>9

LEMMA TimesPoly ==
  ASSUME NEW M, NEW N,
         \A x, y \in M \X N : x[1] \cup x[2] = y[1] \cup y[2] => x = y
  PROVE  Times(Poly(M), Poly(N)) = Poly({x[1] \cup x[2] : x \in M \X N})
<1> DEFINE pairs == M \X N
           S == {x[1] \cup x[2] : x \in pairs}
           p == Poly(M)
           q == Poly(N)
           c(m) == TermSum(p, q, {x \in pairs : x[1] \cup x[2] = m})
<1>1. \A m \in S : c(m) = 1
  <2> SUFFICES ASSUME NEW m \in S PROVE c(m) = 1
    OBVIOUS
  <2>1. PICK x \in pairs : m = x[1] \cup x[2]
    OBVIOUS
  <2>2. {y \in pairs : y[1] \cup y[2] = m} = {x}
    BY <2>1
  <2>3. p[x[1]] * q[x[2]] = 1
    BY PolyDomain
  <2> HIDE DEF p, q
  <2>4. c(m) = TermSum(p, q, {x})
    BY <2>2, Zenon
  <2>5. TermSum(p, q, {x}) = 1
    BY <2>3, OneTerm
  <2> QED
    BY <2>4, <2>5
<1>2. Times(p, q) = [m \in {n \in S : c(n) # 0} |-> c(m)]
  <2>1. DOMAIN p = M /\ DOMAIN q = N
    BY PolyDomain
  <2> HIDE DEF p, q
  <2> QED
    BY <2>1 DEF Times, Collect, TermSum, MapThenSumSet, MapThenFoldSet
<1> HIDE DEF c
<1>3. {n \in S : c(n) # 0} = S
  BY <1>1
<1> HIDE DEF S
<1>4. Times(p, q) = Poly(S)
  BY <1>1, <1>2, <1>3 DEF Poly
<1> QED
  BY <1>4 DEF S

-----------------------------------------------------------------------------
(* The elements with that value, in the NTT domain and out of it. *)
Ntt(M) == [domain |-> "ntt", r |-> 0, n |-> 0, terms |-> Poly(M)]
Plain(M) == [domain |-> "normal", r |-> 0, n |-> 0, terms |-> Poly(M)]

LEMMA ElementIs == ASSUME NEW M PROVE Element(Poly(M)) = Plain(M)
BY DEF Element, Plain

LEMMA ElementNttIs == ASSUME NEW M PROVE ElementNtt(Poly(M)) = Ntt(M)
BY DEF Element, ElementNtt, Ntt

LEMMA ZEROIs == ZERO = Plain({})
BY ZeroIs, ElementIs DEF ZERO

LEMMA SumNtt ==
  ASSUME NEW M, NEW N, M \cap N = {}
  PROVE  Sum2(Ntt(M), Ntt(N)) = Ntt(M \cup N)
<1>1. Alike(Ntt(M), Ntt(N))
  BY DEF Alike, Ntt
<1>2. Plus(Ntt(M).terms, Ntt(N).terms) = Poly(M \cup N)
  BY PlusPoly DEF Ntt
<1> QED
  BY <1>1, <1>2 DEF Sum2, Join, Ntt

LEMMA SumPlain ==
  ASSUME NEW M, NEW N, M \cap N = {}
  PROVE  Sum2(Plain(M), Plain(N)) = Plain(M \cup N)
<1>1. Alike(Plain(M), Plain(N))
  BY DEF Alike, Plain
<1>2. Plus(Plain(M).terms, Plain(N).terms) = Poly(M \cup N)
  BY PlusPoly DEF Plain
<1> QED
  BY <1>1, <1>2 DEF Sum2, Join, Plain

LEMMA SumFromZero == ASSUME NEW N PROVE Sum2(ZERO, Ntt(N)) = Ntt(N)
<1>1. ZERO.terms = Zero /\ Alike(ZERO, Ntt(N))
  BY DEF ZERO, Element, Alike
<1>2. Plus(ZERO.terms, Ntt(N).terms) = Poly(N)
  <2>1. Plus(Poly({}), Poly(N)) = Poly(N)
    BY PlusPoly
  <2> QED
    BY <1>1, <2>1, ZeroIs DEF Ntt
<1> QED
  BY <1>1, <1>2 DEF Sum2, Join, Ntt

LEMMA ProductNtt ==
  ASSUME NEW M, NEW N,
         \A x, y \in M \X N : x[1] \cup x[2] = y[1] \cup y[2] => x = y
  PROVE  Product(Ntt(M), Ntt(N)) = Ntt({x[1] \cup x[2] : x \in M \X N})
<1>1. Times(Poly(M), Poly(N)) = Poly({x[1] \cup x[2] : x \in M \X N})
  BY TimesPoly
<1> QED
  BY <1>1 DEF Product, Ntt

(* A vector of K elements summed in the order of the loop. *)
Summed(products, base, sum) ==
  sum = [j \in 0 .. K |-> IF j = 0 THEN base ELSE Sum2(sum[j - 1], products[j - 1])]

LEMMA SumExists ==
  ASSUME NEW products, NEW base PROVE \E sum : Summed(products, base, sum)
<1> DEFINE one == Sum2(base, products[0])
           two == Sum2(one, products[1])
           three == Sum2(two, products[2])
           four == Sum2(three, products[3])
           sum == [j \in 0 .. K |-> IF j = 0 THEN base ELSE IF j = 1 THEN one
                     ELSE IF j = 2 THEN two ELSE IF j = 3 THEN three ELSE four]
<1>1. K \in 2 .. 4
  BY KAssumption
<1>2. ASSUME NEW j \in 0 .. K
      PROVE  sum[j] = IF j = 0 THEN base ELSE Sum2(sum[j - 1], products[j - 1])
  <2>1. j = 0 \/ j = 1 \/ j = 2 \/ j = 3 \/ j = 4
    BY <1>1
  <2>2. 0 \in 0 .. K /\ 1 \in 0 .. K /\ (j > 2 => 2 \in 0 .. K) /\ (j > 3 => 3 \in 0 .. K)
    BY <1>1
  <2> HIDE DEF one, two, three, four
  <2>3. CASE j = 0
    BY <2>3
  <2>4. CASE j = 1
    BY <2>2, <2>4 DEF one
  <2>5. CASE j = 2
    BY <2>2, <2>5 DEF two
  <2>6. CASE j = 3
    BY <2>2, <2>6 DEF three
  <2>7. CASE j = 4
    BY <2>2, <2>7 DEF four
  <2> QED
    BY <2>1, <2>3, <2>4, <2>5, <2>6, <2>7
<1> HIDE DEF sum
<1>3. sum = [j \in 0 .. K |-> sum[j]]
  BY DEF sum
<1>4. Summed(products, base, sum)
  BY <1>2, <1>3 DEF Summed
<1> QED
  BY <1>4

(* The sum is that of all the monomials, if no two products have one in common. *)
LEMMA SumIs ==
  ASSUME NEW products, NEW N, NEW sum, Summed(products, ZERO, sum),
         \A j \in Ranks : products[j] = Ntt(N[j]),
         \A i, j \in Ranks : i # j => N[i] \cap N[j] = {}
  PROVE  sum[K] = Ntt(UNION {N[j] : j \in Ranks})
<1>1. K \in 2 .. 4
  BY KAssumption
<1>2. sum[0] = ZERO /\ \A j \in Ranks : sum[j + 1] = Sum2(sum[j], products[j])
  <2>1. \A j \in Ranks : j + 1 \in 0 .. K /\ j + 1 # 0 /\ (j + 1) - 1 = j
    BY <1>1 DEF Ranks
  <2> QED
    BY <1>1, <2>1 DEF Summed
<1>3. 0 \in Ranks /\ 1 \in Ranks
  BY <1>1 DEF Ranks
<1>4. sum[1] = Ntt(N[0])
  <2>1. sum[0 + 1] = Sum2(sum[0], products[0])
    BY <1>2, <1>3
  <2> QED
    BY <1>2, <1>3, <2>1, SumFromZero
<1>5. sum[2] = Ntt(N[0] \cup N[1])
  <2>1. sum[1 + 1] = Sum2(sum[1], products[1])
    BY <1>2, <1>3
  <2> QED
    BY <1>3, <1>4, <2>1, SumNtt
<1>6. CASE K = 2
  <2>1. UNION {N[j] : j \in Ranks} = N[0] \cup N[1]
    <3>1. Ranks = {0, 1}
      BY <1>6 DEF Ranks
    <3> QED
      BY <3>1
  <2> QED
    BY <1>5, <1>6, <2>1
<1>7. ASSUME K >= 3 PROVE sum[3] = Ntt(N[0] \cup N[1] \cup N[2])
  <2>1. 2 \in Ranks
    BY <1>1, <1>7 DEF Ranks
  <2>2. sum[2 + 1] = Sum2(sum[2], products[2])
    BY <1>2, <2>1
  <2>3. (N[0] \cup N[1]) \cap N[2] = {}
    BY <1>3, <2>1
  <2> QED
    BY <1>5, <2>1, <2>2, <2>3, SumNtt
<1>8. CASE K = 3
  <2>1. UNION {N[j] : j \in Ranks} = N[0] \cup N[1] \cup N[2]
    <3>1. Ranks = {0, 1, 2}
      BY <1>8 DEF Ranks
    <3> QED
      BY <3>1
  <2>2. sum[3] = Ntt(N[0] \cup N[1] \cup N[2])
    BY <1>7, <1>8
  <2> QED
    BY <1>8, <2>1, <2>2, Zenon
<1>9. CASE K = 4
  <2>1. 2 \in Ranks /\ 3 \in Ranks
    BY <1>9 DEF Ranks
  <2>2. sum[3 + 1] = Sum2(sum[3], products[3])
    BY <1>2, <2>1
  <2>3. (N[0] \cup N[1] \cup N[2]) \cap N[3] = {}
    BY <1>3, <2>1
  <2>4. sum[4] = Ntt(N[0] \cup N[1] \cup N[2] \cup N[3])
    BY <1>7, <1>9, <2>1, <2>2, <2>3, SumNtt
  <2>5. UNION {N[j] : j \in Ranks} = N[0] \cup N[1] \cup N[2] \cup N[3]
    <3>1. Ranks = {0, 1, 2, 3}
      BY <1>9 DEF Ranks
    <3> QED
      BY <3>1
  <2> QED
    BY <1>9, <2>4, <2>5, Zenon
<1>10. K = 2 \/ K = 3 \/ K = 4
  BY <1>1
<1> QED
  BY <1>6, <1>8, <1>9, <1>10

LEMMA RankBefore == ASSUME NEW j \in 0 .. K, j # 0 PROVE j - 1 \in Ranks
BY KAssumption DEF Ranks

LEMMA FillRowIs ==
  ASSUME NEW entries, NEW base, NEW products,
         \A j \in Ranks : products[j] = Product(entries[j], factor[j])
  PROVE  \E sum : Summed(products, base, sum) /\ FillRow(entries, base) = sum[K]
<1> DEFINE F(g) == [j \in 0 .. K |-> IF j = 0 THEN base
                      ELSE accumulating_ntt_multiply(entries[j - 1], factor[j - 1], g[j - 1])]
           sum == CHOOSE g : g = F(g)
<1>1. ASSUME NEW g PROVE Summed(products, base, g) <=> g = F(g)
  <2>1. \A j \in 0 .. K : j # 0 =>
          accumulating_ntt_multiply(entries[j - 1], factor[j - 1], g[j - 1])
            = Sum2(g[j - 1], products[j - 1])
    BY RankBefore DEF accumulating_ntt_multiply
  <2>2. F(g) = [j \in 0 .. K |-> IF j = 0 THEN base ELSE Sum2(g[j - 1], products[j - 1])]
    BY <2>1
  <2> QED
    BY <2>2 DEF Summed
<1>2. sum = F(sum)
  BY <1>1, SumExists
<1>3. FillRow(entries, base) = sum[K]
  BY DEF FillRow
<1> HIDE DEF sum
<1> QED
  BY <1>1, <1>2, <1>3

LEMMA UseRowIs ==
  ASSUME NEW entries, NEW base, NEW products,
         \A j \in Ranks : cache[j] = factor[j] /\ products[j] = Product(entries[j], factor[j])
  PROVE  \E sum : Summed(products, base, sum) /\ UseRow(entries, base) = sum[K]
<1> DEFINE F(g) == [j \in 0 .. K |-> IF j = 0 THEN base
                      ELSE accumulating_ntt_multiply_use_cache(
                             entries[j - 1], factor[j - 1], g[j - 1], cache[j - 1])]
           sum == CHOOSE g : g = F(g)
<1>1. ASSUME NEW g PROVE Summed(products, base, g) <=> g = F(g)
  <2>1. \A j \in 0 .. K : j # 0 =>
          accumulating_ntt_multiply_use_cache(entries[j - 1], factor[j - 1], g[j - 1], cache[j - 1])
            = Sum2(g[j - 1], products[j - 1])
    BY RankBefore DEF accumulating_ntt_multiply_use_cache, CacheOf
  <2>2. F(g) = [j \in 0 .. K |-> IF j = 0 THEN base ELSE Sum2(g[j - 1], products[j - 1])]
    BY <2>1
  <2> QED
    BY <2>2 DEF Summed
<1>2. sum = F(sum)
  BY <1>1, SumExists
<1>3. UseRow(entries, base) = sum[K]
  BY DEF UseRow
<1> HIDE DEF sum
<1> QED
  BY <1>1, <1>2, <1>3

LEMMA ProductOfUIs ==
  ASSUME NEW s, NEW c, NEW products,
         \A i \in Ranks :
           products[i] = Product(ElementNtt(s[i]), ntt_vector_u(decompress_u(c, i)))
  PROVE  \E sum : Summed(products, ZERO, sum) /\ ProductOfU(s, c) = sum[K]
<1> DEFINE F(g) == [i \in 0 .. K |-> IF i = 0 THEN ZERO
                      ELSE accumulating_ntt_multiply(
                             ElementNtt(s[i - 1]), ntt_vector_u(decompress_u(c, i - 1)), g[i - 1])]
           sum == CHOOSE g : g = F(g)
<1>1. ASSUME NEW g PROVE Summed(products, ZERO, g) <=> g = F(g)
  <2>1. \A i \in 0 .. K : i # 0 =>
          accumulating_ntt_multiply(
              ElementNtt(s[i - 1]), ntt_vector_u(decompress_u(c, i - 1)), g[i - 1])
            = Sum2(g[i - 1], products[i - 1])
    BY RankBefore DEF accumulating_ntt_multiply
  <2>2. F(g) = [j \in 0 .. K |-> IF j = 0 THEN ZERO ELSE Sum2(g[j - 1], products[j - 1])]
    BY <2>1
  <2> QED
    BY <2>2 DEF Summed
<1>2. sum = F(sum)
  BY <1>1, SumExists
<1>3. ProductOfU(s, c) = sum[K]
  BY DEF ProductOfU
<1> HIDE DEF sum
<1> QED
  BY <1>1, <1>2, <1>3

-----------------------------------------------------------------------------
(* The operations' constants cancel. *)

LEMMA ReducedIs ==
  ASSUME NEW M
  PROVE  /\ to_standard_domain(reducing_from_i32_array(Ntt(M))) = Ntt(M)
         /\ TimesROver128(invert_ntt_montgomery(reducing_from_i32_array(Ntt(M)))) = Plain(M)
<1> DEFINE p == Poly(M)
<1>1. reducing_from_i32_array(Ntt(M)) = [domain |-> "ntt", r |-> -1, n |-> 0, terms |-> p]
  BY DEF reducing_from_i32_array, Ntt
<1> HIDE DEF p
<1>2. to_standard_domain([domain |-> "ntt", r |-> -1, n |-> 0, terms |-> p])
        = [domain |-> "ntt", r |-> 0, n |-> 0, terms |-> p]
  BY DEF to_standard_domain
<1>3. invert_ntt_montgomery([domain |-> "ntt", r |-> -1, n |-> 0, terms |-> p])
        = [domain |-> "normal", r |-> -1, n |-> 1, terms |-> p]
  BY DEF invert_ntt_montgomery
<1>4. TimesROver128([domain |-> "normal", r |-> -1, n |-> 1, terms |-> p])
        = [domain |-> "normal", r |-> 0, n |-> 0, terms |-> p]
  BY DEF TimesROver128
<1> QED
  BY <1>1, <1>2, <1>3, <1>4 DEF Ntt, Plain, p

LEMMA ValueIs ==
  ASSUME NEW M
  PROVE  Value(Ntt(M), "ntt") = Poly(M) /\ Value(Plain(M), "normal") = Poly(M)
BY DEF Value, Ntt, Plain

LEMMA SampledIs ==
  ASSUME NEW in, NEW n
  PROVE  /\ Cbd(<<in, n>>) = Plain({{<<"prf", in, n>>}})
         /\ ntt_binomially_sampled_ring_element(Cbd(<<in, n>>)) = Ntt({{<<"prf", in, n>>}})
<1> DEFINE M == {{<<"prf", in, n>>}}
<1>1. Cbd(<<in, n>>) = Plain(M)
  BY AtomIs, ElementIs DEF Cbd
<1>2. \A m \in DOMAIN Plain(M).terms : \A a \in m : a[1] = "prf"
  BY PolyDomain DEF Plain
<1> HIDE DEF M
<1>3. ElementNtt(Value(Plain(M), "normal")) = Ntt(M)
  BY ValueIs, ElementNttIs
<1> QED
  BY <1>1, <1>2, <1>3 DEF ntt_binomially_sampled_ring_element, M

LEMMA SinglePair ==
  ASSUME NEW m, NEW n
  PROVE  /\ {m} \X {n} = {<<m, n>>}
         /\ {x[1] \cup x[2] : x \in {m} \X {n}} = {m \cup n}
<1> DEFINE S == {m} \X {n}
<1>1. S = {<<m, n>>}
  OBVIOUS
<1> HIDE DEF S
<1>2. {x[1] \cup x[2] : x \in S} = {m \cup n}
  BY <1>1
<1> QED
  BY <1>1, <1>2 DEF S

LEMMA ProductOfTwo ==
  ASSUME NEW m, NEW n
  PROVE  Product(Ntt({m}), Ntt({n})) = Ntt({m \cup n})
<1>1. \A x, y \in {m} \X {n} : x[1] \cup x[2] = y[1] \cup y[2] => x = y
  BY SinglePair
<1>2. Product(Ntt({m}), Ntt({n})) = Ntt({x[1] \cup x[2] : x \in {m} \X {n}})
  BY <1>1, ProductNtt
<1> QED
  BY <1>2, SinglePair

(* A row of A times a vector sampled from one seed. *)
PairsOf(at, in) == {{at[j], <<"prf", in, j>>} : j \in Ranks}
Apart(at, in) == \A i, j \in Ranks : at[i] # <<"prf", in, j>>
AtomProducts(products, at, in) ==
  \A j \in Ranks : products[j] = Product(Ntt({{at[j]}}), Ntt({{<<"prf", in, j>>}}))

LEMMA RowIs ==
  ASSUME NEW at, NEW in, NEW products, NEW sum,
         Apart(at, in), AtomProducts(products, at, in),
         Summed(products, ZERO, sum)
  PROVE  sum[K] = Ntt(PairsOf(at, in))
<1> DEFINE N == [j \in Ranks |-> {{at[j], <<"prf", in, j>>}}]
<1>1. ASSUME NEW j \in Ranks PROVE products[j] = Ntt(N[j])
  <2>1. {at[j]} \cup {<<"prf", in, j>>} = {at[j], <<"prf", in, j>>}
    OBVIOUS
  <2> DEFINE m == {at[j]}
             n == {<<"prf", in, j>>}
  <2> HIDE DEF m, n
  <2>2. Product(Ntt({m}), Ntt({n})) = Ntt({m \cup n})
    BY ProductOfTwo
  <2>3. N[j] = {m \cup n}
    BY <2>1 DEF m, n
  <2>4. products[j] = Product(Ntt({m}), Ntt({n}))
    BY DEF m, n, AtomProducts
  <2> QED
    BY <2>2, <2>3, <2>4, Zenon
<1>2. ASSUME NEW i \in Ranks, NEW j \in Ranks, i # j PROVE N[i] \cap N[j] = {}
  <2>1. <<"prf", in, i>> # <<"prf", in, j>>
    BY <1>2
  <2>2. <<"prf", in, i>> # at[j]
    BY DEF Apart
  <2>3. {at[i], <<"prf", in, i>>} # {at[j], <<"prf", in, j>>}
    BY <2>1, <2>2
  <2> QED
    BY <2>3
<1>3. UNION {N[j] : j \in Ranks} = PairsOf(at, in)
  BY DEF PairsOf
<1> HIDE DEF N
<1>4. sum[K] = Ntt(UNION {N[j] : j \in Ranks})
  BY <1>1, <1>2, SumIs
<1> QED
  BY <1>3, <1>4

(* The monomials of a product. *)
Joined(S, U) == {x[1] \cup x[2] : x \in S \X U}

LEMMA JoinedHas ==
  ASSUME NEW S, NEW U, NEW m
  PROVE  m \in Joined(S, U) <=> \E s \in S, u \in U : m = s \cup u
<1>1. ASSUME m \in Joined(S, U) PROVE \E s \in S, u \in U : m = s \cup u
  <2>1. PICK x \in S \X U : m = x[1] \cup x[2]
    BY <1>1 DEF Joined
  <2>2. x[1] \in S /\ x[2] \in U
    OBVIOUS
  <2> QED
    BY <2>1, <2>2
<1>2. ASSUME NEW s \in S, NEW u \in U, m = s \cup u PROVE m \in Joined(S, U)
  <2>1. <<s, u>> \in S \X U /\ <<s, u>>[1] \cup <<s, u>>[2] = m
    BY <1>2
  <2> QED
    BY <2>1 DEF Joined
<1> QED
  BY <1>1, <1>2

LEMMA Cancel ==
  ASSUME NEW s, NEW t, NEW a, a \notin s, a \notin t, s \cup {a} = t \cup {a}
  PROVE  s = t
<1>1. \A e : e \in s <=> e \in t
  OBVIOUS
<1> QED
  BY <1>1

LEMMA PairEqual ==
  ASSUME NEW S, NEW U, NEW x \in S \X U, NEW y \in S \X U, x[1] = y[1], x[2] = y[2]
  PROVE  x = y
OBVIOUS

(* The public key times a vector sampled from a seed of its own. *)
LEMMA TimesSingleton ==
  ASSUME NEW T, NEW a, \A m \in T : a \notin m
  PROVE  Product(Ntt(T), Ntt({{a}})) = Ntt(Joined(T, {{a}}))
<1> DEFINE S == {{a}}
<1>1. ASSUME NEW x \in T \X S, NEW y \in T \X S, x[1] \cup x[2] = y[1] \cup y[2]
      PROVE  x = y
  <2>1. x[1] \in T /\ y[1] \in T /\ x[2] = {a} /\ y[2] = {a}
    BY <1>1
  <2>2. a \notin x[1] /\ a \notin y[1]
    BY <2>1
  <2>3. x[1] = y[1]
    BY <1>1, <2>1, <2>2, Cancel
  <2> QED
    BY <1>1, <2>1, <2>3, PairEqual
<1> HIDE DEF S
<1>2. Product(Ntt(T), Ntt(S)) = Ntt(Joined(T, S))
  BY <1>1, ProductNtt DEF Joined
<1> QED
  BY <1>2 DEF S

Singletons(A) == {{a} : a \in A}

LEMMA SingletonsTimes ==
  ASSUME NEW A, NEW U, \A a \in A, m \in U : a \notin m
  PROVE  Product(Ntt(Singletons(A)), Ntt(U)) = Ntt(Joined(Singletons(A), U))
<1> DEFINE S == Singletons(A)
<1>1. ASSUME NEW x \in S \X U, NEW y \in S \X U, x[1] \cup x[2] = y[1] \cup y[2]
      PROVE  x = y
  <2>1. x[1] \in S /\ y[1] \in S /\ x[2] \in U /\ y[2] \in U
    BY <1>1
  <2>2. PICK a \in A, b \in A : x[1] = {a} /\ y[1] = {b}
    BY <2>1 DEF Singletons
  <2>3. a \in {b} \cup y[2] /\ a \notin x[2] /\ a \notin y[2]
    BY <1>1, <2>1, <2>2
  <2>4. a = b
    BY <2>3
  <2>5. x[2] \cup {a} = y[2] \cup {a}
    BY <1>1, <2>2, <2>4
  <2>6. x[2] = y[2]
    BY <2>3, <2>5, Cancel
  <2> QED
    BY <1>1, <2>2, <2>4, <2>6, PairEqual
<1> HIDE DEF S
<1>2. Product(Ntt(S), Ntt(U)) = Ntt(Joined(S, U))
  BY <1>1, ProductNtt DEF Joined
<1> QED
  BY <1>2 DEF S

KeyTimes(T, in) == UNION {Joined(T[i], {{<<"prf", in, i>>}}) : i \in Ranks}
KeyApart(T, in) == \A i, j \in Ranks : \A m \in T[i] : <<"prf", in, j>> \notin m
KeyProducts(products, T, in) ==
  \A i \in Ranks : products[i] = Product(Ntt(T[i]), Ntt({{<<"prf", in, i>>}}))

LEMMA KeyTimesVectorIs ==
  ASSUME NEW T, NEW in, NEW products, NEW sum,
         KeyApart(T, in), KeyProducts(products, T, in),
         Summed(products, ZERO, sum)
  PROVE  sum[K] = Ntt(KeyTimes(T, in))
<1> DEFINE N == [i \in Ranks |-> Joined(T[i], {{<<"prf", in, i>>}})]
<1>1. ASSUME NEW i \in Ranks PROVE products[i] = Ntt(N[i])
  <2> DEFINE M == T[i]
             a == <<"prf", in, i>>
  <2>1. \A m \in M : a \notin m
    BY DEF KeyApart
  <2>2. products[i] = Product(Ntt(M), Ntt({{a}})) /\ N[i] = Joined(M, {{a}})
    BY DEF KeyProducts
  <2> HIDE DEF M, a, N
  <2> QED
    BY <2>1, <2>2, TimesSingleton
<1>2. ASSUME NEW i \in Ranks, NEW j \in Ranks, i # j PROVE N[i] \cap N[j] = {}
  <2>1. <<"prf", in, i>> # <<"prf", in, j>>
    BY <1>2
  <2>2. \A m \in N[j] : <<"prf", in, i>> \notin m
    <3> SUFFICES ASSUME NEW m \in Joined(T[j], {{<<"prf", in, j>>}})
                 PROVE  <<"prf", in, i>> \notin m
      OBVIOUS
    <3>1. PICK s \in T[j] : m = s \cup {<<"prf", in, j>>}
      BY JoinedHas
    <3> QED
      BY <2>1, <3>1 DEF KeyApart
  <2>3. \A m \in N[i] : <<"prf", in, i>> \in m
    <3> SUFFICES ASSUME NEW m \in Joined(T[i], {{<<"prf", in, i>>}})
                 PROVE  <<"prf", in, i>> \in m
      OBVIOUS
    <3>1. PICK s \in T[i] : m = s \cup {<<"prf", in, i>>}
      BY JoinedHas
    <3> QED
      BY <3>1
  <2> QED
    BY <2>2, <2>3
<1>3. UNION {N[i] : i \in Ranks} = KeyTimes(T, in)
  BY DEF KeyTimes
<1> HIDE DEF N
<1>4. sum[K] = Ntt(UNION {N[i] : i \in Ranks})
  BY <1>1, <1>2, SumIs
<1> QED
  BY <1>3, <1>4

(* The secret key times u. *)
SecretTimes(A, U) == UNION {Joined(Singletons(A[i]), U[i]) : i \in Ranks}

LEMMA SecretTimesUIs ==
  ASSUME NEW A, NEW U, NEW products, NEW sum,
         \A i, j \in Ranks : \A a \in A[i], m \in U[j] : a \notin m,
         \A i, j \in Ranks : i # j => A[i] \cap A[j] = {},
         \A i \in Ranks : products[i] = Product(Ntt(Singletons(A[i])), Ntt(U[i])),
         Summed(products, ZERO, sum)
  PROVE  sum[K] = Ntt(SecretTimes(A, U))
<1> DEFINE N == [i \in Ranks |-> Joined(Singletons(A[i]), U[i])]
<1>1. ASSUME NEW i \in Ranks PROVE products[i] = Ntt(N[i])
  <2> DEFINE B == A[i]
             M == U[i]
  <2>1. \A a \in B, m \in M : a \notin m
    OBVIOUS
  <2>2. products[i] = Product(Ntt(Singletons(B)), Ntt(M)) /\ N[i] = Joined(Singletons(B), M)
    OBVIOUS
  <2> HIDE DEF B, M, N
  <2> QED
    BY <2>1, <2>2, SingletonsTimes
<1>2. ASSUME NEW i \in Ranks, NEW j \in Ranks, i # j PROVE N[i] \cap N[j] = {}
  <2> SUFFICES ASSUME NEW m \in Joined(Singletons(A[i]), U[i]),
                      m \in Joined(Singletons(A[j]), U[j])
               PROVE  FALSE
    OBVIOUS
  <2>1. PICK a \in A[i], u \in U[i] : m = {a} \cup u
    BY JoinedHas DEF Singletons
  <2>2. PICK b \in A[j], w \in U[j] : m = {b} \cup w
    BY JoinedHas DEF Singletons
  <2>3. a \notin w /\ a # b
    BY <1>2
  <2> QED
    BY <2>1, <2>2, <2>3
<1>3. UNION {N[i] : i \in Ranks} = SecretTimes(A, U)
  BY DEF SecretTimes
<1> HIDE DEF N
<1>4. sum[K] = Ntt(UNION {N[i] : i \in Ranks})
  BY <1>1, <1>2, SumIs
<1> QED
  BY <1>3, <1>4

-----------------------------------------------------------------------------
(* The ends of the loops. *)

LEMMA AsPlusEIs ==
  ASSUME NEW M, NEW N, M \cap N = {}
  PROVE  add_standard_error_reduce(reducing_from_i32_array(Ntt(M)), Ntt(N)) = Ntt(M \cup N)
BY ReducedIs, SumNtt DEF add_standard_error_reduce

LEMMA UIs ==
  ASSUME NEW M, NEW N, M \cap N = {}
  PROVE  add_error_reduce(invert_ntt_montgomery(reducing_from_i32_array(Ntt(M))), Plain(N))
           = Plain(M \cup N)
BY ReducedIs, SumPlain DEF add_error_reduce

LEMMA VIs ==
  ASSUME NEW M, NEW N, NEW L, N \cap L = {}, M \cap (N \cup L) = {}
  PROVE  add_message_error_reduce(Plain(N), Plain(L),
           invert_ntt_montgomery(reducing_from_i32_array(Ntt(M)))) = Plain(M \cup (N \cup L))
<1> DEFINE O == N \cup L
<1>1. Sum2(Plain(N), Plain(L)) = Plain(O)
  BY SumPlain
<1>2. M \cap O = {}
  OBVIOUS
<1> HIDE DEF O
<1>3. Sum2(Plain(M), Plain(O)) = Plain(M \cup O)
  BY <1>2, SumPlain
<1> QED
  BY <1>1, <1>3, ReducedIs DEF add_message_error_reduce, O

LEMMA MinusPoly ==
  ASSUME NEW M, NEW N
  PROVE  Minus(Poly(M), Poly(N))
           = [m \in (M \ N) \cup (N \ M) |-> IF m \in M THEN 1 ELSE -1]
<1> DEFINE p == Minus(Poly(M), Poly(N))
           c(m) == Coefficient(Poly(M), m) - Coefficient(Poly(N), m)
<1>1. /\ \A m \in M \ N : c(m) = 1
      /\ \A m \in N \ M : c(m) = -1
      /\ \A m \in M \cap N : c(m) = 0
  BY DEF Coefficient, Poly
<1>2. p = [m \in {n \in M \cup N : c(n) # 0} |-> c(m)]
  BY PolyDomain DEF Minus, Collect
<1> HIDE DEF c, p
<1>3. {n \in M \cup N : c(n) # 0} = (M \ N) \cup (N \ M)
  <2>1. \A n \in M \cup N : n \in M \ N \/ n \in N \ M \/ n \in M \cap N
    OBVIOUS
  <2> QED
    BY <1>1, <2>1
<1>4. \A m \in (M \ N) \cup (N \ M) : c(m) = IF m \in M THEN 1 ELSE -1
  BY <1>1
<1>5. p = [m \in (M \ N) \cup (N \ M) |-> c(m)]
  BY <1>2, <1>3
<1>6. p = [m \in (M \ N) \cup (N \ M) |-> IF m \in M THEN 1 ELSE -1]
  BY <1>4, <1>5
<1> QED
  BY <1>6 DEF p

LEMMA DifferenceIs ==
  ASSUME NEW M, NEW N, M # {}
  PROVE  Value(subtract_reduce(Plain(M), invert_ntt_montgomery(reducing_from_i32_array(Ntt(N)))),
               "normal") = Minus(Poly(M), Poly(N))
<1> DEFINE d == Minus(Poly(M), Poly(N))
<1>1. Plain(M).terms # Zero /\ Alike(Plain(M), Plain(N))
  BY PolyEqual, ZeroIs DEF Plain, Alike
<1>2. Minus(Plain(M).terms, Plain(N).terms) = d
  BY DEF Plain
<1> HIDE DEF d
<1>3. Join(Plain(M), Plain(N), d) = [Plain(M) EXCEPT !.terms = d]
  BY <1>1 DEF Join
<1>4. [Plain(M) EXCEPT !.terms = d] = [domain |-> "normal", r |-> 0, n |-> 0, terms |-> d]
  BY DEF Plain
<1>5. Value([domain |-> "normal", r |-> 0, n |-> 0, terms |-> d], "normal") = d
  BY DEF Value
<1>6. subtract_reduce(Plain(M), invert_ntt_montgomery(reducing_from_i32_array(Ntt(N))))
        = Join(Plain(M), Plain(N), d)
  BY <1>2, ReducedIs DEF subtract_reduce
<1> QED
  BY <1>3, <1>4, <1>5, <1>6 DEF d

-----------------------------------------------------------------------------
(* What comes out of decryption. *)

LEMMA PairIsSmall ==
  ASSUME NEW p, NEW a, NEW b, p[{a, b}] \in {-1, 1},
         a[1] \in {"prf", "rounding"}, b[1] \in {"prf", "rounding"}
  PROVE  Small(p, {a, b})
<1>1. IsFiniteSet({b}) /\ Cardinality({b}) = 1
  BY FS_Singleton
<1>2. {b} \cup {a} = {a, b}
  OBVIOUS
<1>3. Cardinality({b} \cup {a}) = IF a \in {b} THEN Cardinality({b}) ELSE Cardinality({b}) + 1
  BY <1>1, FS_AddElement
<1>4. Cardinality({a, b}) <= 2
  BY <1>1, <1>2, <1>3
<1> QED
  BY <1>4 DEF Small

(* What the code decodes of the polynomial p. *)
Large(p) == {m \in DOMAIN p : ~Small(p, m)}
Inside(p) == {a \in UNION Large(p) : Large(p) = {{a}} /\ a[1] = "message" /\ p[{a}] = 1}

LEMMA Decoding ==
  ASSUME NEW e
  PROVE  LET p == Value(e, "normal") IN
         compress_then_serialize_message(e)
           = IF Inside(p) # {} THEN (CHOOSE a \in Inside(p) : TRUE)[2] ELSE <<"undecodable", p>>
BY Zenon DEF compress_then_serialize_message, Inside, Large

LEMMA Decodes ==
  ASSUME NEW e, NEW p, NEW text, Value(e, "normal") = p,
         {<<"message", text>>} \in DOMAIN p, p[{<<"message", text>>}] = 1,
         \A m \in DOMAIN p : m # {<<"message", text>>} => Small(p, m)
  PROVE  compress_then_serialize_message(e) = text
<1> DEFINE one == <<"message", text>>
<1>1. one[1] = "message" /\ one[2] = text
  OBVIOUS
<1>2. ~Small(p, {one})
  BY <1>1 DEF Small
<1> HIDE DEF one
<1>3. Large(p) = {{one}}
  BY <1>2 DEF one, Large
<1>4. Inside(p) = {one}
  <2>1. UNION Large(p) = {one}
    BY <1>3
  <2>2. p[{one}] = 1
    BY DEF one
  <2> QED
    BY <1>1, <1>3, <2>1, <2>2 DEF Inside
<1>5. (CHOOSE a \in Inside(p) : TRUE) = one
  BY <1>4
<1> QED
  BY <1>1, <1>4, <1>5, Decoding

LEMMA DoesNotDecode ==
  ASSUME NEW e, NEW p, NEW m \in DOMAIN p, Value(e, "normal") = p,
         ~Small(p, m), \A a : m # {a}
  PROVE  compress_then_serialize_message(e) = <<"undecodable", p>>
<1>1. m \in Large(p)
  BY DEF Large
<1>2. Inside(p) = {}
  <2>1. \A a : Large(p) # {{a}}
    BY <1>1
  <2> QED
    BY <2>1 DEF Inside
<1> QED
  BY <1>2, Decoding

-----------------------------------------------------------------------------
(* The monomials of the public key, of the two parts of a ciphertext, and of   *)
(* what decryption multiplies; `rho' is the seed of the matrix, `sigma' that   *)
(* of s and e, `in' that of r, e_1 and e_2.                                   *)
TSet(rho, sigma, i) ==
  {{<<"xof", rho, j, i>>, <<"prf", sigma, j>>} : j \in Ranks} \cup {{<<"prf", sigma, K + i>>}}
USet(rho, in, i) ==
  {{<<"xof", rho, i, j>>, <<"prf", in, j>>} : j \in Ranks} \cup {{<<"prf", in, K + i>>}}
VSet(T, in, text) ==
  KeyTimes(T, in) \cup ({{<<"prf", in, K + K>>}} \cup {{<<"message", text>>}})

ReceivedU(rho, in, i) == USet(rho, in, i) \cup {{<<"rounding", "u", i>>}}
ReceivedV(T, in, text) == VSet(T, in, text) \cup {{<<"rounding", "v", 0>>}}
SecretTimesU(A, rho, in) == SecretTimes(A, [i \in Ranks |-> ReceivedU(rho, in, i)])

LEMMA THas ==
  ASSUME NEW rho, NEW sigma, NEW i, NEW m
  PROVE  m \in TSet(rho, sigma, i) <=>
           \/ \E j \in Ranks : m = {<<"xof", rho, j, i>>, <<"prf", sigma, j>>}
           \/ m = {<<"prf", sigma, K + i>>}
BY DEF TSet

LEMMA UHas ==
  ASSUME NEW rho, NEW in, NEW i, NEW m
  PROVE  m \in ReceivedU(rho, in, i) <=>
           \/ \E j \in Ranks : m = {<<"xof", rho, i, j>>, <<"prf", in, j>>}
           \/ m = {<<"prf", in, K + i>>}
           \/ m = {<<"rounding", "u", i>>}
BY DEF USet, ReceivedU

LEMMA VHas ==
  ASSUME NEW T, NEW in, NEW text, NEW m
  PROVE  m \in VSet(T, in, text) <=>
           \/ \E i \in Ranks : \E t \in T[i] : m = t \cup {<<"prf", in, i>>}
           \/ m = {<<"prf", in, K + K>>}
           \/ m = {<<"message", text>>}
<1> DEFINE J(i) == Joined(T[i], {{<<"prf", in, i>>}})
<1>1. \A i \in Ranks : m \in J(i) <=> \E t \in T[i] : m = t \cup {<<"prf", in, i>>}
  <2> SUFFICES ASSUME NEW i \in Ranks
               PROVE  m \in J(i) <=> \E t \in T[i] : m = t \cup {<<"prf", in, i>>}
    OBVIOUS
  <2> DEFINE S == T[i]
             x == {<<"prf", in, i>>}
  <2> HIDE DEF S, x
  <2>1. m \in Joined(S, {x}) <=> \E t \in S, y \in {x} : m = t \cup y
    BY JoinedHas
  <2>2. m \in Joined(S, {x}) <=> \E t \in S : m = t \cup x
    BY <2>1
  <2> QED
    BY <2>2 DEF S, x
<1> HIDE DEF J
<1>2. m \in UNION {J(i) : i \in Ranks}
        <=> \E i \in Ranks : \E t \in T[i] : m = t \cup {<<"prf", in, i>>}
  BY <1>1
<1> DEFINE W == UNION {J(i) : i \in Ranks}
           n == {<<"prf", in, K + K>>}
           k == {<<"message", text>>}
<1>3. VSet(T, in, text) = W \cup ({n} \cup {k})
  BY DEF VSet, KeyTimes, J
<1> HIDE DEF n, k
<1>4. m \in VSet(T, in, text) <=> m \in W \/ m = n \/ m = k
  <2> HIDE DEF W
  <2> QED
    BY <1>3
<1> QED
  BY <1>2, <1>4 DEF n, k

LEMMA WHas ==
  ASSUME NEW A, NEW rho, NEW in, NEW m
  PROVE  m \in SecretTimesU(A, rho, in) <=>
           \E i \in Ranks : \E a \in A[i], u \in ReceivedU(rho, in, i) : m = {a} \cup u
<1>1. \A i \in Ranks : m \in Joined(Singletons(A[i]), ReceivedU(rho, in, i))
                         <=> \E a \in A[i], u \in ReceivedU(rho, in, i) : m = {a} \cup u
  <2> SUFFICES ASSUME NEW i \in Ranks
               PROVE  m \in Joined(Singletons(A[i]), ReceivedU(rho, in, i))
                        <=> \E a \in A[i], u \in ReceivedU(rho, in, i) : m = {a} \cup u
    OBVIOUS
  <2> DEFINE S == Singletons(A[i])
             U == ReceivedU(rho, in, i)
  <2>1. \A s : s \in S <=> \E a \in A[i] : s = {a}
    BY DEF Singletons
  <2> HIDE DEF S, U
  <2>2. m \in Joined(S, U) <=> \E s \in S, u \in U : m = s \cup u
    BY JoinedHas
  <2>3. m \in Joined(S, U) <=> \E a \in A[i], u \in U : m = {a} \cup u
    BY <2>1, <2>2
  <2> QED
    BY <2>3 DEF S, U
<1> QED
  BY <1>1 DEF SecretTimesU, SecretTimes

-----------------------------------------------------------------------------
(* What is left of v when the secret key times u is taken from it. *)

Noise(a) == a[1] \in {"prf", "rounding"}

(* T is the public key of sigma; A its secret key, or that and what else it has. *)
OfKey(T, rho, sigma) == \A i \in Ranks : T[i] = TSet(rho, sigma, i)
SecretIs(A, sigma) == \A i \in Ranks : A[i] = {<<"prf", sigma, i>>}
SecretHas(A, sigma) == \A i \in Ranks : <<"prf", sigma, i>> \in A[i]
SecretWithin(A, sigma) ==
  /\ \A i \in Ranks : A[i] \subseteq {<<"prf", sigma, i>>, <<"changed">>}
  /\ \A i, j \in Ranks : i # j => A[i] \cap A[j] = {}

LEMMA NoiseAtoms ==
  ASSUME NEW in, NEW n
  PROVE  Noise(<<"prf", in, n>>) /\ Noise(<<"rounding", in, n>>)
BY DEF Noise

LEMMA VCancels ==
  ASSUME NEW rho, NEW sigma, NEW in, NEW text, NEW A, NEW T,
         SecretHas(A, sigma), OfKey(T, rho, sigma),
         NEW m \in ReceivedV(T, in, text)
  PROVE  \/ m \in SecretTimesU(A, rho, in)
         \/ \E a, b : m = {a, b} /\ Noise(a) /\ Noise(b)
         \/ m = {<<"message", text>>}
<1>1. CASE m \in VSet(T, in, text)
  <2>1. ASSUME NEW i \in Ranks, NEW t \in T[i], m = t \cup {<<"prf", in, i>>}
        PROVE  \/ m \in SecretTimesU(A, rho, in)
               \/ \E a, b : m = {a, b} /\ Noise(a) /\ Noise(b)
    <3>1. ASSUME NEW j \in Ranks, t = {<<"xof", rho, j, i>>, <<"prf", sigma, j>>}
          PROVE  m \in SecretTimesU(A, rho, in)
      <4> DEFINE u == {<<"xof", rho, j, i>>, <<"prf", in, i>>}
      <4>1. u \in ReceivedU(rho, in, j)
        BY UHas
      <4>2. m = {<<"prf", sigma, j>>} \cup u
        BY <2>1, <3>1
      <4> HIDE DEF u
      <4> QED
        BY <4>1, <4>2, WHas DEF SecretHas
    <3>2. ASSUME t = {<<"prf", sigma, K + i>>}
          PROVE  \E a, b : m = {a, b} /\ Noise(a) /\ Noise(b)
      <4>1. m = {<<"prf", sigma, K + i>>, <<"prf", in, i>>}
        BY <2>1, <3>2
      <4> QED
        BY <4>1, NoiseAtoms
    <3>3. t \in TSet(rho, sigma, i)
      BY <2>1 DEF OfKey
    <3>4. \/ \E j \in Ranks : t = {<<"xof", rho, j, i>>, <<"prf", sigma, j>>}
          \/ t = {<<"prf", sigma, K + i>>}
      BY <3>3, THas
    <3> QED
      BY <3>1, <3>2, <3>4
  <2>2. ASSUME m = {<<"prf", in, K + K>>}
        PROVE  \E a, b : m = {a, b} /\ Noise(a) /\ Noise(b)
    <3>1. m = {<<"prf", in, K + K>>, <<"prf", in, K + K>>}
      BY <2>2
    <3> QED
      BY <3>1, NoiseAtoms
  <2>3. \/ \E i \in Ranks : \E t \in T[i] : m = t \cup {<<"prf", in, i>>}
        \/ m = {<<"prf", in, K + K>>}
        \/ m = {<<"message", text>>}
    BY <1>1, VHas
  <2> QED
    BY <2>1, <2>2, <2>3
<1>2. CASE m = {<<"rounding", "v", 0>>}
  <2>1. m = {<<"rounding", "v", 0>>, <<"rounding", "v", 0>>}
    BY <1>2
  <2> QED
    BY <2>1, NoiseAtoms
<1> QED
  BY <1>1, <1>2 DEF ReceivedV

LEMMA WCancels ==
  ASSUME NEW rho, NEW sigma, NEW in, NEW text, NEW A, NEW T,
         SecretIs(A, sigma), OfKey(T, rho, sigma),
         NEW m \in SecretTimesU(A, rho, in)
  PROVE  \/ m \in ReceivedV(T, in, text)
         \/ \E a, b : m = {a, b} /\ Noise(a) /\ Noise(b)
<1>0. PICK i \in Ranks : \E a \in A[i], u \in ReceivedU(rho, in, i) : m = {a} \cup u
  BY WHas
<1>1. PICK a \in A[i], u \in ReceivedU(rho, in, i) : m = {a} \cup u
  BY <1>0
<1>2. a = <<"prf", sigma, i>>
  BY <1>1 DEF SecretIs
<1>3. ASSUME NEW j \in Ranks, u = {<<"xof", rho, i, j>>, <<"prf", in, j>>}
      PROVE  m \in ReceivedV(T, in, text)
  <2> DEFINE t == {<<"xof", rho, i, j>>, <<"prf", sigma, i>>}
  <2>1. t \in T[j]
    BY THas DEF OfKey
  <2>2. m = t \cup {<<"prf", in, j>>}
    BY <1>1, <1>2, <1>3
  <2> HIDE DEF t
  <2>3. m \in VSet(T, in, text)
    BY <2>1, <2>2, VHas
  <2> QED
    BY <2>3 DEF ReceivedV
<1>4. ASSUME NEW b, Noise(b), u = {b} PROVE \E x, y : m = {x, y} /\ Noise(x) /\ Noise(y)
  <2>1. m = {a, b} /\ Noise(a)
    BY <1>1, <1>2, <1>4, NoiseAtoms
  <2> QED
    BY <1>4, <2>1
<1>5. \/ \E j \in Ranks : u = {<<"xof", rho, i, j>>, <<"prf", in, j>>}
      \/ u = {<<"prf", in, K + i>>}
      \/ u = {<<"rounding", "u", i>>}
  BY UHas
<1> QED
  BY <1>3, <1>4, <1>5, NoiseAtoms

-----------------------------------------------------------------------------
(* What decrypt gets from a ciphertext, and what it makes of it. *)

(* A secret key of these singletons, and a ciphertext of those parts. *)
SecretOf(A) == [i \in Ranks |-> Poly(Singletons(A[i]))]
CipherParts(T, rho, in, text) ==
  [u |-> [i \in Ranks |-> Poly(USet(rho, in, i))], v |-> Poly(VSet(T, in, text))]

LEMMA DecompressedIs ==
  ASSUME NEW T, NEW rho, NEW in, NEW text, NEW c, c = CipherParts(T, rho, in, text)
  PROVE  /\ \A i \in Ranks : ntt_vector_u(decompress_u(c, i)) = Ntt(ReceivedU(rho, in, i))
         /\ decompress_v(c) = Plain(ReceivedV(T, in, text))
<1>1. ASSUME NEW i \in Ranks PROVE ntt_vector_u(decompress_u(c, i)) = Ntt(ReceivedU(rho, in, i))
  <2> DEFINE r == <<"rounding", "u", i>>
             U == USet(rho, in, i)
  <2>1. \A m \in U : r \notin m
    BY DEF USet
  <2>2. c.u[i] = Poly(U)
    BY DEF CipherParts
  <2>3. ReceivedU(rho, in, i) = U \cup {{r}}
    BY DEF ReceivedU
  <2>4. decompress_u(c, i) = Element(Plus(c.u[i], Atom(r)))
    BY DEF decompress_u
  <2> HIDE DEF r, U
  <2>5. U \cap {{r}} = {}
    BY <2>1
  <2> DEFINE R == U \cup {{r}}
  <2>6. Plus(Poly(U), Poly({{r}})) = Poly(R)
    BY <2>5, PlusPoly
  <2>7. decompress_u(c, i) = Plain(R)
    BY <2>2, <2>4, <2>6, AtomIs, ElementIs
  <2> HIDE DEF R
  <2>8. ntt_vector_u(Plain(R)) = Ntt(R)
    BY ValueIs, ElementNttIs DEF ntt_vector_u
  <2> QED
    BY <2>3, <2>7, <2>8 DEF R
<1>2. decompress_v(c) = Plain(ReceivedV(T, in, text))
  <2> DEFINE r == <<"rounding", "v", 0>>
             V == VSet(T, in, text)
  <2>1. {r} \notin V
    <3> SUFFICES ASSUME {r} \in V PROVE FALSE
      OBVIOUS
    <3>1. \/ \E i \in Ranks : \E t \in T[i] : {r} = t \cup {<<"prf", in, i>>}
          \/ {r} = {<<"prf", in, K + K>>}
          \/ {r} = {<<"message", text>>}
      BY VHas
    <3>2. \/ \E i \in Ranks : r = <<"prf", in, i>>
          \/ r = <<"prf", in, K + K>>
          \/ r = <<"message", text>>
      BY <3>1
    <3> QED
      BY <3>2
  <2>2. c.v = Poly(V)
    BY DEF CipherParts
  <2>3. ReceivedV(T, in, text) = V \cup {{r}}
    BY DEF ReceivedV
  <2>4. decompress_v(c) = Element(Plus(c.v, Atom(r)))
    BY DEF decompress_v
  <2> HIDE DEF r, V
  <2>5. V \cap {{r}} = {}
    BY <2>1
  <2> DEFINE R == V \cup {{r}}
  <2>6. Plus(Poly(V), Poly({{r}})) = Poly(R)
    BY <2>5, PlusPoly
  <2> QED
    BY <2>2, <2>3, <2>4, <2>6, AtomIs, ElementIs
<1> QED
  BY <1>1, <1>2

(* The element decrypt reads the message from. *)
Decrypted(c, product) ==
  subtract_reduce(decompress_v(c), invert_ntt_montgomery(reducing_from_i32_array(product)))

LEMMA DecryptedIs ==
  ASSUME NEW T, NEW rho, NEW sigma, NEW in, NEW text, NEW A, NEW c,
         c = CipherParts(T, rho, in, text), sigma # in, SecretWithin(A, sigma)
  PROVE  Value(Decrypted(c, ProductOfU(SecretOf(A), c)), "normal")
           = Minus(Poly(ReceivedV(T, in, text)), Poly(SecretTimesU(A, rho, in)))
<1> DEFINE U == [i \in Ranks |-> ReceivedU(rho, in, i)]
           s == SecretOf(A)
           products == [i \in Ranks |-> Product(ElementNtt(s[i]), ntt_vector_u(decompress_u(c, i)))]
<1>1. ASSUME NEW i \in Ranks, NEW j \in Ranks, NEW a \in A[i], NEW m \in U[j] PROVE a \notin m
  <2>1. a = <<"prf", sigma, i>> \/ a = <<"changed">>
    BY DEF SecretWithin
  <2>2. m \in ReceivedU(rho, in, j)
    OBVIOUS
  <2>3. \/ \E k \in Ranks : m = {<<"xof", rho, j, k>>, <<"prf", in, k>>}
        \/ m = {<<"prf", in, K + j>>}
        \/ m = {<<"rounding", "u", j>>}
    BY <2>2, UHas
  <2> QED
    BY <2>1, <2>3
<1>2. ASSUME NEW i \in Ranks
      PROVE  products[i] = Product(Ntt(Singletons(A[i])), Ntt(U[i]))
  <2>1. s[i] = Poly(Singletons(A[i]))
    BY DEF SecretOf
  <2>2. ElementNtt(s[i]) = Ntt(Singletons(A[i]))
    BY <2>1, ElementNttIs
  <2>3. ntt_vector_u(decompress_u(c, i)) = Ntt(U[i])
    BY DecompressedIs
  <2> QED
    BY <2>2, <2>3
<1>3. PICK sum : Summed(products, ZERO, sum) /\ ProductOfU(s, c) = sum[K]
  <2>1. \A i \in Ranks :
          products[i] = Product(ElementNtt(s[i]), ntt_vector_u(decompress_u(c, i)))
    OBVIOUS
  <2> HIDE DEF s, products
  <2> QED
    BY <2>1, ProductOfUIs
<1> DEFINE W == SecretTimes(A, U)
<1>4. W = SecretTimesU(A, rho, in)
  BY DEF SecretTimesU
<1> HIDE DEF U, products, s
<1>5. sum[K] = Ntt(W)
  <2>1. \A i, j \in Ranks : \A a \in A[i], m \in U[j] : a \notin m
    BY <1>1
  <2>2. \A i \in Ranks : products[i] = Product(Ntt(Singletons(A[i])), Ntt(U[i]))
    BY <1>2
  <2>3. \A i, j \in Ranks : i # j => A[i] \cap A[j] = {}
    BY DEF SecretWithin
  <2> QED
    BY <1>3, <2>1, <2>2, <2>3, SecretTimesUIs
<1> HIDE DEF W
<1> DEFINE V == ReceivedV(T, in, text)
<1>6. V # {}
  BY DEF ReceivedV
<1>7. decompress_v(c) = Plain(V)
  BY DecompressedIs
<1> HIDE DEF V
<1>8. Decrypted(c, ProductOfU(s, c))
        = subtract_reduce(Plain(V), invert_ntt_montgomery(reducing_from_i32_array(Ntt(W))))
  BY <1>3, <1>5, <1>7 DEF Decrypted
<1>9. Value(Decrypted(c, ProductOfU(s, c)), "normal") = Minus(Poly(V), Poly(W))
  BY <1>6, <1>8, DifferenceIs
<1> QED
  BY <1>4, <1>9 DEF V, s

LEMMA DecryptsRight ==
  ASSUME NEW T, NEW rho, NEW sigma, NEW in, NEW text, NEW A, NEW c,
         c = CipherParts(T, rho, in, text), sigma # in,
         SecretIs(A, sigma), OfKey(T, rho, sigma)
  PROVE  decrypt(c, ProductOfU(SecretOf(A), c)) = text
<1> DEFINE V == ReceivedV(T, in, text)
           W == SecretTimesU(A, rho, in)
           p == Minus(Poly(V), Poly(W))
           e == Decrypted(c, ProductOfU(SecretOf(A), c))
           one == {<<"message", text>>}
<1>1. Value(e, "normal") = p
  <2>1. SecretWithin(A, sigma)
    BY DEF SecretIs, SecretWithin
  <2> HIDE DEF V, W, p, e
  <2>3. Value(Decrypted(c, ProductOfU(SecretOf(A), c)), "normal")
          = Minus(Poly(ReceivedV(T, in, text)), Poly(SecretTimesU(A, rho, in)))
    BY <2>1, DecryptedIs
  <2> QED
    BY <2>3 DEF V, W, p, e
<1>2. one \in V
  <2>1. one \in VSet(T, in, text)
    BY VHas
  <2> QED
    BY <2>1 DEF ReceivedV
<1>3. one \notin W
  <2> SUFFICES ASSUME one \in W PROVE FALSE
    OBVIOUS
  <2>1. PICK i \in Ranks : \E a \in A[i], u \in ReceivedU(rho, in, i) : one = {a} \cup u
    BY WHas
  <2>2. <<"prf", sigma, i>> \in one
    <3> HIDE DEF one
    <3>1. PICK a \in A[i], u \in ReceivedU(rho, in, i) : one = {a} \cup u
      BY <2>1
    <3> QED
      BY <3>1 DEF SecretIs
  <2> QED
    BY <2>2
<1>4. ASSUME NEW m \in V \ W PROVE m = one \/ \E a, b : m = {a, b} /\ Noise(a) /\ Noise(b)
  <2>1. SecretHas(A, sigma)
    BY DEF SecretIs, SecretHas
  <2> QED
    BY <2>1, VCancels
<1>5. ASSUME NEW m \in W \ V PROVE \E a, b : m = {a, b} /\ Noise(a) /\ Noise(b)
  BY WCancels
<1>6. decrypt(c, ProductOfU(SecretOf(A), c)) = compress_then_serialize_message(e)
  BY DEF decrypt, Decrypted
<1> HIDE DEF V, W, e, one
<1>7. /\ DOMAIN p = (V \ W) \cup (W \ V)
      /\ \A m \in V \ W : p[m] = 1
      /\ \A m \in W \ V : p[m] = -1
  <2>1. p = [m \in (V \ W) \cup (W \ V) |-> IF m \in V THEN 1 ELSE -1]
    BY MinusPoly
  <2> HIDE DEF p
  <2> QED
    BY <2>1
<1> HIDE DEF p
<1>8. ASSUME NEW m \in DOMAIN p, m # one PROVE Small(p, m)
  <2>1. p[m] \in {-1, 1}
    BY <1>7, <1>8
  <2>2. PICK a, b : m = {a, b} /\ Noise(a) /\ Noise(b)
    BY <1>4, <1>5, <1>7, <1>8
  <2> QED
    BY <2>1, <2>2, PairIsSmall DEF Noise
<1> QED
  BY <1>1, <1>2, <1>3, <1>6, <1>7, <1>8, Decodes DEF one

(* A change of the secret key that its hash does not cover. *)
LEMMA DecryptsWrong ==
  ASSUME NEW T, NEW rho, NEW sigma, NEW in, NEW text, NEW A, NEW c,
         c = CipherParts(T, rho, in, text), sigma # in,
         A[0] = {<<"prf", sigma, 0>>, <<"changed">>}, OfKey(T, rho, sigma),
         \A i \in Ranks : i # 0 => A[i] = {<<"prf", sigma, i>>}
  PROVE  \E p : decrypt(c, ProductOfU(SecretOf(A), c)) = <<"undecodable", p>>
<1> DEFINE V == ReceivedV(T, in, text)
           W == SecretTimesU(A, rho, in)
           p == Minus(Poly(V), Poly(W))
           e == Decrypted(c, ProductOfU(SecretOf(A), c))
           u == {<<"xof", rho, 0, 0>>, <<"prf", in, 0>>}
           m == {<<"changed">>} \cup u
<1>0. 0 \in Ranks
  BY KAssumption DEF Ranks
<1>1. Value(e, "normal") = p
  <2>1. SecretWithin(A, sigma)
    BY DEF SecretIs, SecretWithin
  <2> HIDE DEF V, W, p, e
  <2>3. Value(Decrypted(c, ProductOfU(SecretOf(A), c)), "normal")
          = Minus(Poly(ReceivedV(T, in, text)), Poly(SecretTimesU(A, rho, in)))
    BY <2>1, DecryptedIs
  <2> QED
    BY <2>3 DEF V, W, p, e
<1>2. m \in W
  <2>1. u \in ReceivedU(rho, in, 0)
    BY <1>0, UHas
  <2>2. <<"changed">> \in A[0]
    OBVIOUS
  <2> HIDE DEF u
  <2> QED
    BY <1>0, <2>1, <2>2, WHas
<1>3. m \notin V
  <2> SUFFICES ASSUME m \in V PROVE FALSE
    OBVIOUS
  <2>0. <<"changed">> \in m
    OBVIOUS
  <2>1. m # {<<"rounding", "v", 0>>}
    <3> HIDE DEF m
    <3> QED
      BY <2>0
  <2>2. m \in VSet(T, in, text)
    BY <2>1 DEF ReceivedV
  <2>3. \/ \E i \in Ranks : \E t \in T[i] : m = t \cup {<<"prf", in, i>>}
        \/ m = {<<"prf", in, K + K>>}
        \/ m = {<<"message", text>>}
    BY <2>2, VHas
  <2>4. PICK i \in Ranks : \E t \in T[i] : m = t \cup {<<"prf", in, i>>}
    BY <2>3
  <2>5. PICK t \in TSet(rho, sigma, i) : m = t \cup {<<"prf", in, i>>}
    BY <2>4 DEF OfKey
  <2>6. <<"changed">> \in t
    BY <2>5
  <2> QED
    BY <2>6, THas
<1>4. decrypt(c, ProductOfU(SecretOf(A), c)) = compress_then_serialize_message(e)
  BY DEF decrypt, Decrypted
<1>5. m \in DOMAIN p
  <2> HIDE DEF V, W, m, p
  <2>0. p = [n \in (V \ W) \cup (W \ V) |-> IF n \in V THEN 1 ELSE -1]
    BY MinusPoly DEF p
  <2>1. DOMAIN p = (V \ W) \cup (W \ V)
    BY <2>0
  <2> QED
    BY <1>2, <1>3, <2>1
<1>6. ~Small(p, m)
  BY DEF Small
<1>7. \A a : m # {a}
  <2>1. <<"changed">> \in m /\ <<"prf", in, 0>> \in m
    OBVIOUS
  <2> HIDE DEF m
  <2> QED
    BY <2>1
<1> HIDE DEF m, p, e
<1> QED
  BY <1>1, <1>4, <1>5, <1>6, <1>7, DoesNotDecode

-----------------------------------------------------------------------------
(* The keys and the ciphertexts there are, in terms of the variant `v'. *)

Seeds(v) == IF v = "MlKem" THEN G(<< <<"d">>, <<K>> >>) ELSE G(<< <<"d">> >>)
Rho(v) == Seeds(v)[1]
Sigma(v) == Seeds(v)[2]

KeyTerms(v) == [i \in Ranks |-> TSet(Rho(v), Sigma(v), i)]
ChangedKeyTerms(v) ==
  [KeyTerms(v) EXCEPT ![0] = KeyTerms(v)[0] \cup {{<<"changed">>}}]
SecretTerms(v) == [i \in Ranks |-> {<<"prf", Sigma(v), i>>}]
ChangedSecretTerms(v) ==
  [SecretTerms(v) EXCEPT ![0] = {<<"prf", Sigma(v), 0>>, <<"changed">>}]

KeyOf(T, rho) == [t |-> [i \in Ranks |-> Poly(T[i])], form |-> "reduced", seed |-> rho]
TermsOf(pk) == [i \in Ranks |-> DOMAIN pk.t[i]]
HonestKey(v) == KeyOf(KeyTerms(v), Rho(v))
ChangedKey(v) == KeyOf(ChangedKeyTerms(v), Rho(v))
SecretKeyOf(A, pk, z) == [s |-> SecretOf(A), pk |-> pk, hash |-> H(pk), z |-> z]
HonestSecretKey(v) == SecretKeyOf(SecretTerms(v), HonestKey(v), <<"z">>)
ChangedSecretKey(v) == SecretKeyOf(ChangedSecretTerms(v), HonestKey(v), <<"z">>)
ChangedRejection(v) == SecretKeyOf(SecretTerms(v), HonestKey(v), <<"changed">>)

AcceptedKeys(v) == {HonestKey(v), ChangedKey(v)}
AcceptedSecretKeys(v) == {HonestSecretKey(v), ChangedSecretKey(v), ChangedRejection(v)}

(* What encrypting m for pk gives: G's output, the ciphertext and the secret. *)
Coins(pk, m) == G(<<m, H(pk)>>)
CipherOf(pk, m) == CipherParts(TermsOf(pk), pk.seed, Coins(pk, m)[2], m)
KdfOf(v, secret, c) == IF v = "MlKem" THEN secret ELSE PRF(<<secret, H(c)>>)
ProperMessage(m) == \A p : m # <<"undecodable", p>>

-----------------------------------------------------------------------------
(* The invariant of the call in progress. *)

Sampled == {"vector", "error", "error_2"}
Multiplied == {"rows", "serialize", "c1", "c2"}
Encrypted == {"encapsulated", "decapsulated"}
InCall == pc \in Sampled \cup Multiplied \cup Encrypted

StageInv ==
  /\ variant \in Variants
  /\ InCall => call \in {"generate", "encapsulate", "decapsulate"}
  /\ pc \in {"error_2", "c1", "c2"} => call # "generate"
  /\ pc = "serialize" => call = "generate"
  /\ pc = "encapsulated" => call = "encapsulate"
  /\ pc = "decapsulated" => call = "decapsulate"

(* What the call was started with. *)
StartInv == InCall =>
  /\ seed_for_A = Rho(variant)
  /\ call = "generate" =>
       prf_input = Sigma(variant) /\ matrix = sample_matrix_A(Rho(variant), TRUE)
  /\ call # "generate" =>
       /\ public_key \in AcceptedKeys(variant)
       /\ prf_input = Coins(public_key, message)[2]
       /\ shared_secret = Coins(public_key, message)[1]

(* What it has sampled. *)
FactorOf(in) == [i \in Ranks |-> Ntt({{<<"prf", in, i>>}})]
ErrorOf(of, in) ==
  [i \in Ranks |-> IF of = "generate" THEN Ntt({{<<"prf", in, K + i>>}})
                                      ELSE Plain({{<<"prf", in, K + i>>}})]
Error2Of(in) == Plain({{<<"prf", in, K + K>>}})

SampleInv ==
  /\ pc = "vector" => domain_separator = 0
  /\ pc = "error" => domain_separator = K
  /\ pc = "error_2" => domain_separator = K + K
  /\ InCall /\ pc # "vector" => factor = FactorOf(prf_input)
  /\ pc \in {"error_2"} \cup Multiplied => error = ErrorOf(call, prf_input)
  /\ pc \in Multiplied /\ call # "generate" => error_2 = Error2Of(prf_input)

(* The rows it has multiplied. *)
RowOf(of, v, in, i) ==
  IF of = "generate" THEN Ntt(TSet(Rho(v), Sigma(v), i)) ELSE Plain(USet(Rho(v), in, i))

RowInv ==
  /\ pc \in Sampled => row = 0
  /\ pc \in Sampled \cup {"rows"} =>
       /\ row \in Ranks
       /\ DOMAIN result = Ranks
       /\ call = "generate" /\ row = 0 => accumulator = ZERO
  /\ pc = "rows" => \A i \in Ranks : i < row => result[i] = RowOf(call, variant, prf_input, i)
  /\ pc \in Multiplied \ {"rows"} =>
       \A i \in Ranks : result[i] = RowOf(call, variant, prf_input, i)
  /\ pc \in Multiplied /\ (pc = "rows" => row # 0) => \A i \in Ranks : cache[i] = factor[i]

CipherInv ==
  /\ pc = "c2" =>
       ciphertext = [u |-> [i \in Ranks |-> Poly(USet(Rho(variant), prf_input, i))], v |-> Zero]
  /\ pc \in Encrypted => ciphertext = CipherOf(public_key, message)

CallInv == StageInv /\ StartInv /\ SampleInv /\ RowInv /\ CipherInv

-----------------------------------------------------------------------------
(* The invariant of what is between the calls. *)

KeyInv == pc # "generate" /\ (InCall => call # "generate") =>
  key_pair = [pk |-> HonestKey(variant), sk |-> HonestSecretKey(variant)]

Encapsulating == InCall /\ call = "encapsulate"
Decapsulating == InCall /\ call = "decapsulate"

ReceivedKeyInv ==
  /\ pc = "encapsulate" \/ Encapsulating => received_pk \in AcceptedKeys(variant)
  /\ Encapsulating => public_key = received_pk /\ ProperMessage(message)

(* The message that was encapsulated. *)
SentFor(m) ==
  /\ ProperMessage(m)
  /\ received_pk \in AcceptedKeys(variant)
  /\ sent = CipherOf(received_pk, m)
  /\ secrets.encapsulated = KdfOf(variant, Coins(received_pk, m)[1], sent)
SentInv ==
  /\ pc \in {"send_ciphertext", "decapsulate"} \/ Decapsulating => \E m : SentFor(m)
  /\ DOMAIN secrets = {"encapsulated", "decapsulated"}

ReceivedInv ==
  /\ pc = "decapsulate" \/ Decapsulating =>
       /\ received.sk \in AcceptedSecretKeys(variant)
       /\ received.ciphertext \in CiphertextsReceived(sent)
  /\ Decapsulating =>
       /\ public_key = HonestKey(variant)
       /\ message = decrypt(received.ciphertext, ProductOfU(received.sk.s, received.ciphertext))

WorldInv == KeyInv /\ ReceivedKeyInv /\ SentInv /\ ReceivedInv

KemInv == CallInv /\ WorldInv /\ Agreement /\ ImplicitRejection

-----------------------------------------------------------------------------
(* The rows, from what is in memory. *)

(* The coins of an encryption are never the seed of the keys' noise. *)
LEMMA CoinsFresh ==
  ASSUME NEW v, NEW pk, NEW m PROVE Sigma(v) # Coins(pk, m)[2]
<1>1. Coins(pk, m)[2] = <<"G", 1, <<m, <<"H", pk>> >> >>
  BY DEF Coins, G, H
<1>2. Sigma(v) = <<"G", 1, << <<"d">>, <<K>> >> >> \/ Sigma(v) = <<"G", 1, << <<"d">> >> >>
  BY DEF Sigma, Seeds, G
<1>3. <<K>> # <<"H", pk>>
  OBVIOUS
<1> QED
  BY <1>1, <1>2, <1>3

LEMMA SeedsAre == cpa_keygen_seed(<<"d">>) = Seeds(variant)
BY DEF cpa_keygen_seed, Seeds

LEMMA XofIs == ASSUME NEW rho, NEW i, NEW j PROVE Xof(rho, i, j) = Ntt({{<<"xof", rho, i, j>>}})
BY AtomIs, ElementNttIs DEF Xof

LEMMA EntryIs ==
  ASSUME NEW rho, NEW i \in Ranks, NEW j \in Ranks
  PROVE  entry(sample_matrix_A(rho, TRUE), i, j) = Ntt({{<<"xof", rho, j, i>>}})
<1> DEFINE p == i * K + j
<1>1. /\ p \in 0 .. K * K - 1
      /\ p % K = j
      /\ p \div K = i
  <2>1. K = 2 \/ K = 3 \/ K = 4
    BY KAssumption
  <2>2. CASE K = 2
    BY <2>2 DEF Ranks
  <2>3. CASE K = 3
    BY <2>3 DEF Ranks
  <2>4. CASE K = 4
    BY <2>4 DEF Ranks
  <2> QED
    BY <2>1, <2>2, <2>3, <2>4
<1>2. entry(sample_matrix_A(rho, TRUE), i, j) = sample_matrix_A(rho, TRUE)[p]
  BY DEF entry
<1> HIDE DEF p
<1>3. sample_matrix_A(rho, TRUE)[p] = Xof(rho, p % K, p \div K)
  BY <1>1 DEF sample_matrix_A
<1> QED
  BY <1>1, <1>2, <1>3, XofIs

LEMMA FilledRow ==
  ASSUME NEW in, NEW at, NEW entries, factor = FactorOf(in),
         Apart(at, in), \A j \in Ranks : entries[j] = Ntt({{at[j]}})
  PROVE  FillRow(entries, ZERO) = Ntt(PairsOf(at, in))
<1> DEFINE products == [j \in Ranks |-> Product(entries[j], factor[j])]
<1>1. \A j \in Ranks : products[j] = Product(entries[j], factor[j])
  OBVIOUS
<1>2. AtomProducts(products, at, in)
  BY DEF FactorOf, AtomProducts
<1> HIDE DEF products
<1>3. PICK sum : Summed(products, ZERO, sum) /\ FillRow(entries, ZERO) = sum[K]
  BY <1>1, FillRowIs
<1> QED
  BY <1>2, <1>3, RowIs

LEMMA UsedRow ==
  ASSUME NEW in, NEW at, NEW entries, factor = FactorOf(in),
         \A j \in Ranks : cache[j] = factor[j],
         Apart(at, in), \A j \in Ranks : entries[j] = Ntt({{at[j]}})
  PROVE  UseRow(entries, ZERO) = Ntt(PairsOf(at, in))
<1> DEFINE products == [j \in Ranks |-> Product(entries[j], factor[j])]
<1>1. \A j \in Ranks : cache[j] = factor[j] /\ products[j] = Product(entries[j], factor[j])
  OBVIOUS
<1>2. AtomProducts(products, at, in)
  BY DEF FactorOf, AtomProducts
<1> HIDE DEF products
<1>3. PICK sum : Summed(products, ZERO, sum) /\ UseRow(entries, ZERO) = sum[K]
  BY <1>1, UseRowIs
<1> QED
  BY <1>2, <1>3, RowIs

MatrixAtomsT(rho, i) == [j \in Ranks |-> <<"xof", rho, j, i>>]
MatrixAtomsU(rho, i) == [j \in Ranks |-> <<"xof", rho, i, j>>]

LEMMA MatrixApart ==
  ASSUME NEW rho, NEW i, NEW in
  PROVE  Apart(MatrixAtomsT(rho, i), in) /\ Apart(MatrixAtomsU(rho, i), in)
BY DEF Apart, MatrixAtomsT, MatrixAtomsU

LEMMA RowOfTIs ==
  ASSUME NEW rho, NEW in, NEW i \in Ranks
  PROVE  add_standard_error_reduce(reducing_from_i32_array(Ntt(PairsOf(MatrixAtomsT(rho, i), in))),
                                   Ntt({{<<"prf", in, K + i>>}})) = Ntt(TSet(rho, in, i))
<1> DEFINE M == PairsOf(MatrixAtomsT(rho, i), in)
           N == {{<<"prf", in, K + i>>}}
<1>1. M = {{<<"xof", rho, j, i>>, <<"prf", in, j>>} : j \in Ranks}
  BY DEF PairsOf, MatrixAtomsT
<1>2. M \cap N = {}
  <2>1. \A m \in M : \E j \in Ranks : <<"xof", rho, j, i>> \in m
    BY DEF PairsOf, MatrixAtomsT
  <2>2. \A m \in N : \A j \in Ranks : <<"xof", rho, j, i>> \notin m
    OBVIOUS
  <2> HIDE DEF M, N
  <2> QED
    BY <2>1, <2>2
<1>3. TSet(rho, in, i) = M \cup N
  BY <1>1 DEF TSet
<1> HIDE DEF M, N
<1>4. add_standard_error_reduce(reducing_from_i32_array(Ntt(M)), Ntt(N)) = Ntt(M \cup N)
  BY <1>2, AsPlusEIs
<1> QED
  BY <1>3, <1>4 DEF M, N

LEMMA RowOfUIs ==
  ASSUME NEW rho, NEW in, NEW i \in Ranks
  PROVE  add_error_reduce(
           invert_ntt_montgomery(reducing_from_i32_array(Ntt(PairsOf(MatrixAtomsU(rho, i), in)))),
           Plain({{<<"prf", in, K + i>>}})) = Plain(USet(rho, in, i))
<1> DEFINE M == PairsOf(MatrixAtomsU(rho, i), in)
           N == {{<<"prf", in, K + i>>}}
<1>1. M = {{<<"xof", rho, i, j>>, <<"prf", in, j>>} : j \in Ranks}
  BY DEF PairsOf, MatrixAtomsU
<1>2. M \cap N = {}
  <2>1. \A m \in M : \E j \in Ranks : <<"xof", rho, i, j>> \in m
    BY DEF PairsOf, MatrixAtomsU
  <2>2. \A m \in N : \A j \in Ranks : <<"xof", rho, i, j>> \notin m
    OBVIOUS
  <2> HIDE DEF M, N
  <2> QED
    BY <2>1, <2>2
<1>3. USet(rho, in, i) = M \cup N
  BY <1>1 DEF USet
<1> HIDE DEF M, N
<1>4. add_error_reduce(invert_ntt_montgomery(reducing_from_i32_array(Ntt(M))), Plain(N))
        = Plain(M \cup N)
  BY <1>2, UIs
<1> QED
  BY <1>3, <1>4 DEF M, N

(* The public key times the vector, and v. *)
LEMMA KeyRow ==
  ASSUME NEW in, NEW T, NEW entries, factor = FactorOf(in),
         \A j \in Ranks : cache[j] = factor[j],
         KeyApart(T, in), \A j \in Ranks : entries[j] = Ntt(T[j])
  PROVE  UseRow(entries, ZERO) = Ntt(KeyTimes(T, in))
<1> DEFINE products == [j \in Ranks |-> Product(entries[j], factor[j])]
<1>1. \A j \in Ranks : cache[j] = factor[j] /\ products[j] = Product(entries[j], factor[j])
  OBVIOUS
<1>2. KeyProducts(products, T, in)
  BY DEF FactorOf, KeyProducts
<1> HIDE DEF products
<1>3. PICK sum : Summed(products, ZERO, sum) /\ UseRow(entries, ZERO) = sum[K]
  BY <1>1, UseRowIs
<1> QED
  BY <1>2, <1>3, KeyTimesVectorIs

LEMMA VSetIs ==
  ASSUME NEW T, NEW in, NEW text
  PROVE  add_message_error_reduce(
           Plain({{<<"prf", in, K + K>>}}), Plain({{<<"message", text>>}}),
           invert_ntt_montgomery(reducing_from_i32_array(Ntt(KeyTimes(T, in)))))
           = Plain(VSet(T, in, text))
<1> DEFINE M == KeyTimes(T, in)
           N == {{<<"prf", in, K + K>>}}
           L == {{<<"message", text>>}}
<1>1. N \cap L = {}
  OBVIOUS
<1>2. M \cap (N \cup L) = {}
  <2> SUFFICES ASSUME NEW m \in M, m \in N \cup L PROVE FALSE
    OBVIOUS
  <2>1. PICK i \in Ranks : m \in Joined(T[i], {{<<"prf", in, i>>}})
    BY DEF KeyTimes
  <2>2. <<"prf", in, i>> \in m
    BY <2>1, JoinedHas
  <2>3. i # K + K
    BY KAssumption DEF Ranks
  <2> QED
    BY <2>2, <2>3
<1>3. VSet(T, in, text) = M \cup (N \cup L)
  BY DEF VSet
<1> HIDE DEF M, N, L
<1>4. add_message_error_reduce(Plain(N), Plain(L),
        invert_ntt_montgomery(reducing_from_i32_array(Ntt(M)))) = Plain(M \cup (N \cup L))
  BY <1>1, <1>2, VIs
<1> QED
  BY <1>3, <1>4 DEF M, N, L

-----------------------------------------------------------------------------
(* The calls' own steps. *)

LEMMA NotInCall ==
  ASSUME variant' \in Variants,
         pc' \notin Sampled \cup Multiplied \cup Encrypted
  PROVE  CallInv'
BY DEF CallInv, StageInv, StartInv, SampleInv, RowInv, CipherInv, InCall,
       Sampled, Multiplied, Encrypted

LEMMA CallBegins ==
  ASSUME StageInv', StartInv', pc' = "vector", FreshMemory,
         call' = "generate" => accumulator' = ZERO
  PROVE  CallInv'
<1>1. 0 \in Ranks
  BY KAssumption DEF Ranks
<1>2. DOMAIN ZEROs = Ranks
  BY DEF ZEROs
<1>3. SampleInv'
  BY DEF FreshMemory, SampleInv, Multiplied
<1>4. RowInv'
  BY <1>1, <1>2 DEF FreshMemory, RowInv, Sampled, Multiplied
<1>5. CipherInv'
  BY DEF CipherInv, Encrypted
<1> QED
  BY <1>3, <1>4, <1>5 DEF CallInv

LEMMA GenerateCall == ASSUME CallInv, GenerateKeypair PROVE CallInv'
<1>1. StageInv'
  BY DEF CallInv, StageInv, GenerateKeypair
<1>2. StartInv'
  BY SeedsAre DEF GenerateKeypair, StartInv, InCall, Sampled, Rho, Sigma
<1> QED
  BY <1>1, <1>2, CallBegins DEF GenerateKeypair

LEMMA SampleVectorCall == ASSUME CallInv, SampleVector PROVE CallInv'
<1>1. pc = "vector" /\ pc' = "error" /\ InCall /\ InCall'
  BY DEF SampleVector, InCall, Sampled
<1>2. StageInv'
  BY DEF CallInv, StageInv, SampleVector, InCall, Sampled, Multiplied, Encrypted
<1>3. StartInv'
  BY <1>1 DEF CallInv, StartInv, SampleVector
<1>4. SampleInv'
  <2>1. domain_separator = 0
    BY <1>1 DEF CallInv, SampleInv
  <2>2. domain_separator' = K
    BY <2>1, KAssumption DEF SampleVector
  <2>3. \A i \in Ranks : ntt_binomially_sampled_ring_element(
                           Cbd(prf_input_inc(prf_input, domain_separator)[i]))
                           = Ntt({{<<"prf", prf_input, i>>}})
    <3> SUFFICES ASSUME NEW i \in Ranks
                 PROVE  ntt_binomially_sampled_ring_element(
                          Cbd(prf_input_inc(prf_input, domain_separator)[i]))
                          = Ntt({{<<"prf", prf_input, i>>}})
      OBVIOUS
    <3>1. prf_input_inc(prf_input, domain_separator)[i] = <<prf_input, i>>
      BY <2>1 DEF prf_input_inc, Ranks
    <3> QED
      BY <3>1, SampledIs
  <2>4. factor' = FactorOf(prf_input)
    BY <2>3, Zenon DEF SampleVector, FactorOf
  <2> QED
    BY <1>1, <2>2, <2>4 DEF SampleInv, SampleVector, Multiplied
<1>5. RowInv'
  BY <1>1 DEF CallInv, RowInv, SampleVector, Sampled, Multiplied
<1>6. CipherInv'
  BY <1>1 DEF CipherInv, Encrypted
<1> QED
  BY <1>2, <1>3, <1>4, <1>5, <1>6 DEF CallInv

LEMMA SampleErrorCall == ASSUME CallInv, SampleError PROVE CallInv'
<1>1. pc = "error" /\ pc' \in {"rows", "error_2"} /\ InCall /\ InCall'
  BY DEF SampleError, InCall, Sampled, Multiplied
<1>2. StageInv'
  BY DEF CallInv, StageInv, SampleError, InCall, Sampled, Multiplied, Encrypted
<1>3. StartInv'
  BY <1>1 DEF CallInv, StartInv, SampleError
<1>4. SampleInv'
  <2>1. domain_separator = K
    BY <1>1 DEF CallInv, SampleInv
  <2>2. domain_separator' = K + K
    BY <2>1, KAssumption DEF SampleError
  <2>3. ASSUME NEW i \in Ranks
        PROVE  LET e == Cbd(prf_input_inc(prf_input, ErrorSeparator)[i])
               IN /\ e = Plain({{<<"prf", prf_input, K + i>>}})
                  /\ ntt_binomially_sampled_ring_element(e) = Ntt({{<<"prf", prf_input, K + i>>}})
    <3>1. prf_input_inc(prf_input, ErrorSeparator)[i] = <<prf_input, K + i>>
      BY <2>1 DEF prf_input_inc, ErrorSeparator
    <3> QED
      BY <3>1, SampledIs
  <2>4. error' = ErrorOf(call, prf_input)
    <3>1. CASE call = "generate"
      BY <2>3, <3>1 DEF SampleError, ErrorOf
    <3>2. CASE call # "generate"
      BY <2>3, <3>2 DEF SampleError, ErrorOf
    <3> QED
      BY <3>1, <3>2
  <2>5. factor' = FactorOf(prf_input)
    BY <1>1 DEF CallInv, SampleInv, SampleError
  <2>6. pc' = "rows" => call = "generate"
    BY DEF SampleError
  <2> QED
    BY <1>1, <2>2, <2>4, <2>5, <2>6 DEF SampleInv, SampleError, Multiplied
<1>5. RowInv'
  <2>1. /\ row = 0 /\ row \in Ranks /\ DOMAIN result = Ranks
        /\ call = "generate" => accumulator = ZERO
    BY <1>1 DEF CallInv, RowInv, Sampled
  <2>2. \A i \in Ranks : ~(i < 0)
    BY KAssumption DEF Ranks
  <2> QED
    BY <1>1, <2>1, <2>2 DEF RowInv, SampleError, Sampled, Multiplied
<1>6. CipherInv'
  BY <1>1 DEF CipherInv, Encrypted
<1> QED
  BY <1>2, <1>3, <1>4, <1>5, <1>6 DEF CallInv

LEMMA SampleError2Call == ASSUME CallInv, SampleError2 PROVE CallInv'
<1>1. pc = "error_2" /\ pc' = "rows" /\ InCall /\ InCall'
  BY DEF SampleError2, InCall, Sampled, Multiplied
<1>2. StageInv'
  BY DEF CallInv, StageInv, SampleError2, InCall, Sampled, Multiplied, Encrypted
<1>3. StartInv'
  BY <1>1 DEF CallInv, StartInv, SampleError2
<1>4. SampleInv'
  <2>1. domain_separator = K + K
    BY <1>1 DEF CallInv, SampleInv
  <2>2. error_2' = Error2Of(prf_input)
    BY <2>1, SampledIs DEF SampleError2, Error2Of
  <2> QED
    BY <1>1, <2>2 DEF CallInv, SampleInv, SampleError2, Multiplied
<1>5. RowInv'
  <2>1. /\ row = 0 /\ row \in Ranks /\ DOMAIN result = Ranks
        /\ call = "generate" => accumulator = ZERO
    BY <1>1 DEF CallInv, RowInv, Sampled
  <2>2. \A i \in Ranks : ~(i < 0)
    BY KAssumption DEF Ranks
  <2> QED
    BY <1>1, <2>1, <2>2 DEF RowInv, SampleError2, Sampled, Multiplied
<1>6. CipherInv'
  BY <1>1 DEF CipherInv, Encrypted
<1> QED
  BY <1>2, <1>3, <1>4, <1>5, <1>6 DEF CallInv

LEMMA RowCall ==
  ASSUME CallInv, pc = "rows",
         row' = row + 1, pc' = IF row + 1 = K THEN (IF call = "generate" THEN "serialize" ELSE "c1")
                                              ELSE "rows",
         result' = [result EXCEPT ![row] = RowOf(call, variant, prf_input, row)],
         \A j \in Ranks : cache'[j] = factor[j],
         UNCHANGED <<variant, call, prf_input, domain_separator, seed_for_A, matrix, factor,
                     error, error_2, public_key, message, shared_secret, ciphertext>>
  PROVE  CallInv'
<1>1. InCall /\ InCall' /\ pc' \in Multiplied /\ pc' # "c2"
  BY DEF InCall, Sampled, Multiplied
<1>2. row \in Ranks /\ DOMAIN result = Ranks
      /\ \A i \in Ranks : i < row => result[i] = RowOf(call, variant, prf_input, i)
  BY DEF CallInv, RowInv, Sampled
<1>3. StageInv'
  BY <1>1 DEF CallInv, StageInv, Multiplied
<1>4. StartInv'
  BY <1>1 DEF CallInv, StartInv
<1>5. SampleInv'
  BY <1>1 DEF CallInv, SampleInv, Multiplied
<1>6. \A i \in Ranks : i < row + 1 => result'[i] = RowOf(call, variant, prf_input, i)
  <2> SUFFICES ASSUME NEW i \in Ranks, i < row + 1
               PROVE  result'[i] = RowOf(call, variant, prf_input, i)
    OBVIOUS
  <2>1. i = row \/ i < row
    BY <1>2 DEF Ranks
  <2> QED
    BY <1>2, <2>1
<1>7. RowInv'
  <2>1. row' \in Nat /\ row' # 0
    BY <1>2 DEF Ranks
  <2>2. pc' = "rows" => row' \in Ranks
    BY <1>2, KAssumption DEF Ranks
  <2>3. pc' # "rows" => \A i \in Ranks : i < row + 1
    BY <1>2, KAssumption DEF Ranks
  <2>4. DOMAIN result' = Ranks
    BY <1>2
  <2> QED
    BY <1>1, <1>6, <2>1, <2>2, <2>3, <2>4 DEF RowInv, Sampled, Multiplied
<1>8. CipherInv'
  BY <1>1 DEF CipherInv, Encrypted, Multiplied
<1> QED
  BY <1>3, <1>4, <1>5, <1>7, <1>8 DEF CallInv

(* What the rows are computed from. *)
LEMMA AtRows ==
  ASSUME CallInv, pc = "rows"
  PROVE  /\ row \in Ranks /\ DOMAIN result = Ranks
         /\ factor = FactorOf(prf_input) /\ error = ErrorOf(call, prf_input)
         /\ seed_for_A = Rho(variant)
         /\ call = "generate" => matrix = sample_matrix_A(Rho(variant), TRUE)
                                 /\ prf_input = Sigma(variant)
         /\ call = "generate" /\ row = 0 => accumulator = ZERO
         /\ row # 0 => \A j \in Ranks : cache[j] = factor[j]
BY DEF CallInv, StartInv, SampleInv, RowInv, InCall, Sampled, Multiplied

LEMMA FilledCacheIs == ASSUME NEW j \in Ranks PROVE FilledCache[j] = factor[j]
BY DEF FilledCache, CacheOf

LEMMA RowOfTCall ==
  ASSUME CallInv, FirstRowOfT \/ OtherRowOfT PROVE CallInv'
<1> DEFINE entries == [j \in Ranks |-> entry(matrix, row, j)]
           at == MatrixAtomsT(Rho(variant), row)
           in == prf_input
           sum == Ntt(PairsOf(at, in))
<1>1. pc = "rows" /\ call = "generate"
  BY DEF FirstRowOfT, OtherRowOfT
<1>2. row \in Ranks /\ in = Sigma(variant) /\ factor = FactorOf(in)
      /\ error[row] = Ntt({{<<"prf", in, K + row>>}})
  BY <1>1, AtRows DEF ErrorOf
<1>3. \A j \in Ranks : entries[j] = Ntt({{at[j]}})
  BY <1>1, AtRows, EntryIs DEF MatrixAtomsT
<1>4. Apart(at, in)
  BY MatrixApart
<1> HIDE DEF entries, at
<1>5. AsPlusE(sum) /\ \A j \in Ranks : cache'[j] = factor[j]
  <2>1. CASE FirstRowOfT
    <3>1. row = 0 /\ entries = [j \in Ranks |-> entry(matrix, 0, j)]
      BY <2>1 DEF FirstRowOfT, entries
    <3>2. AsPlusE(FillRow(entries, accumulator)) /\ cache' = FilledCache
      BY <2>1, <3>1 DEF FirstRowOfT
    <3>3. accumulator = ZERO
      BY <1>1, <3>1, AtRows
    <3>4. FillRow(entries, ZERO) = sum
      BY <1>2, <1>3, <1>4, FilledRow
    <3> QED
      BY <3>2, <3>3, <3>4, FilledCacheIs
  <2>2. CASE OtherRowOfT
    <3>1. row # 0 /\ AsPlusE(UseRow(entries, ZERO)) /\ cache' = cache
      BY <1>2, <2>2 DEF OtherRowOfT, entries, Ranks
    <3>2. \A j \in Ranks : cache[j] = factor[j]
      BY <1>1, <3>1, AtRows
    <3>3. UseRow(entries, ZERO) = sum
      BY <1>2, <1>3, <1>4, <3>2, UsedRow
    <3> QED
      BY <3>1, <3>2, <3>3
  <2> QED
    BY <2>1, <2>2
<1>6. add_standard_error_reduce(reducing_from_i32_array(sum), error[row])
        = RowOf(call, variant, in, row)
  BY <1>1, <1>2, RowOfTIs DEF RowOf, at
<1> HIDE DEF sum
<1> QED
  BY <1>1, <1>5, <1>6, RowCall DEF AsPlusE

LEMMA RowOfUCall ==
  ASSUME CallInv, FirstRowOfU \/ OtherRowOfU PROVE CallInv'
<1> DEFINE entries == [j \in Ranks |-> Xof(seed_for_A, row, j)]
           at == MatrixAtomsU(Rho(variant), row)
           in == prf_input
           sum == Ntt(PairsOf(at, in))
<1>1. pc = "rows" /\ call # "generate"
  BY DEF FirstRowOfU, OtherRowOfU
<1>2. row \in Ranks /\ factor = FactorOf(in) /\ error[row] = Plain({{<<"prf", in, K + row>>}})
  BY <1>1, AtRows DEF ErrorOf
<1>3. \A j \in Ranks : entries[j] = Ntt({{at[j]}})
  BY <1>1, AtRows, XofIs DEF MatrixAtomsU
<1>4. Apart(at, in)
  BY MatrixApart
<1> HIDE DEF entries, at
<1>5. VectorU(sum) /\ \A j \in Ranks : cache'[j] = factor[j]
  <2>1. CASE FirstRowOfU
    <3>1. row = 0 /\ entries = [j \in Ranks |-> Xof(seed_for_A, 0, j)]
      BY <2>1 DEF FirstRowOfU, entries
    <3>2. VectorU(FillRow(entries, ZERO)) /\ cache' = FilledCache
      BY <2>1, <3>1 DEF FirstRowOfU, FirstRowBase
    <3>3. FillRow(entries, ZERO) = sum
      BY <1>2, <1>3, <1>4, FilledRow
    <3> QED
      BY <3>2, <3>3, FilledCacheIs
  <2>2. CASE OtherRowOfU
    <3>1. row # 0 /\ VectorU(UseRow(entries, ZERO)) /\ cache' = cache
      BY <1>2, <2>2 DEF OtherRowOfU, entries, Ranks
    <3>2. \A j \in Ranks : cache[j] = factor[j]
      BY <1>1, <3>1, AtRows
    <3>3. UseRow(entries, ZERO) = sum
      BY <1>2, <1>3, <1>4, <3>2, UsedRow
    <3> QED
      BY <3>1, <3>2, <3>3
  <2> QED
    BY <2>1, <2>2
<1>6. add_error_reduce(invert_ntt_montgomery(reducing_from_i32_array(sum)), error[row])
        = RowOf(call, variant, in, row)
  BY <1>1, <1>2, RowOfUIs DEF RowOf, at
<1> HIDE DEF sum
<1> QED
  BY <1>1, <1>5, <1>6, RowCall DEF VectorU

(* The keys a call can be given. *)
LEMMA KeyFacts ==
  ASSUME NEW v, NEW pk \in AcceptedKeys(v)
  PROVE  \E T : /\ pk = KeyOf(T, Rho(v)) /\ TermsOf(pk) = T
                /\ \A i \in Ranks : \A m \in T[i] :
                     m \in TSet(Rho(v), Sigma(v), i) \/ m = {<<"changed">>}
<1>1. ASSUME NEW T, DOMAIN T = Ranks, T = [i \in Ranks |-> T[i]], pk = KeyOf(T, Rho(v))
      PROVE  TermsOf(pk) = T
  <2>1. \A i \in Ranks : pk.t[i] = Poly(T[i])
    BY <1>1 DEF KeyOf
  <2>2. \A i \in Ranks : DOMAIN pk.t[i] = T[i]
    BY <2>1, PolyDomain
  <2>3. TermsOf(pk) = [i \in Ranks |-> T[i]]
    BY <2>2 DEF TermsOf
  <2> QED
    BY <1>1, <2>3
<1>2. pk = KeyOf(KeyTerms(v), Rho(v)) \/ pk = KeyOf(ChangedKeyTerms(v), Rho(v))
  BY DEF AcceptedKeys, HonestKey, ChangedKey
<1>3. CASE pk = KeyOf(KeyTerms(v), Rho(v))
  <2> DEFINE T == KeyTerms(v)
  <2>1. DOMAIN T = Ranks /\ T = [i \in Ranks |-> T[i]]
    BY DEF KeyTerms
  <2>2. \A i \in Ranks : T[i] = TSet(Rho(v), Sigma(v), i)
    BY DEF KeyTerms
  <2> HIDE DEF T
  <2> QED
    BY <1>1, <1>3, <2>1, <2>2 DEF T
<1>4. CASE pk = KeyOf(ChangedKeyTerms(v), Rho(v))
  <2> DEFINE T == ChangedKeyTerms(v)
  <2>1. DOMAIN T = Ranks /\ T = [i \in Ranks |-> T[i]]
    BY DEF KeyTerms, ChangedKeyTerms
  <2>2. \A i \in Ranks : \A m \in T[i] : m \in TSet(Rho(v), Sigma(v), i) \/ m = {<<"changed">>}
    <3>0. 0 \in Ranks
      BY KAssumption DEF Ranks
    <3>1. \A i \in Ranks : KeyTerms(v)[i] = TSet(Rho(v), Sigma(v), i)
      BY DEF KeyTerms
    <3>2. DOMAIN KeyTerms(v) = Ranks
      BY DEF KeyTerms
    <3> QED
      BY <3>0, <3>1, <3>2 DEF ChangedKeyTerms
  <2> HIDE DEF T
  <2> QED
    BY <1>1, <1>4, <2>1, <2>2 DEF T
<1> QED
  BY <1>2, <1>3, <1>4

LEMMA KeyReads ==
  ASSUME NEW v, NEW pk \in AcceptedKeys(v), NEW m
  PROVE  /\ pk.seed = Rho(v)
         /\ \A i \in Ranks : deserialize_ring_elements_reduced(pk)[i] = Ntt(TermsOf(pk)[i])
         /\ KeyApart(TermsOf(pk), Coins(pk, m)[2])
<1>1. PICK T : /\ pk = KeyOf(T, Rho(v)) /\ TermsOf(pk) = T
               /\ \A i \in Ranks : \A n \in T[i] :
                    n \in TSet(Rho(v), Sigma(v), i) \/ n = {<<"changed">>}
  BY KeyFacts
<1>2. pk.seed = Rho(v) /\ \A i \in Ranks : pk.t[i] = Poly(T[i])
  BY <1>1 DEF KeyOf
<1>3. ASSUME NEW i \in Ranks PROVE deserialize_ring_elements_reduced(pk)[i] = Ntt(T[i])
  <2>1. deserialize_ring_elements_reduced(pk)[i] = ElementNtt(pk.t[i])
    BY DEF deserialize_ring_elements_reduced
  <2> QED
    BY <1>2, <2>1, ElementNttIs
<1>4. KeyApart(T, Coins(pk, m)[2])
  <2> DEFINE in == Coins(pk, m)[2]
  <2>1. Sigma(v) # in
    BY CoinsFresh
  <2> HIDE DEF in
  <2> SUFFICES ASSUME NEW i \in Ranks, NEW j \in Ranks, NEW n \in T[i]
               PROVE  <<"prf", in, j>> \notin n
    BY DEF KeyApart, in
  <2>2. CASE n = {<<"changed">>}
    BY <2>2
  <2>3. CASE n \in TSet(Rho(v), Sigma(v), i)
    <3>1. \/ \E k \in Ranks : n = {<<"xof", Rho(v), k, i>>, <<"prf", Sigma(v), k>>}
          \/ n = {<<"prf", Sigma(v), K + i>>}
      BY <2>3, THas
    <3> QED
      BY <2>1, <3>1
  <2> QED
    BY <1>1, <2>2, <2>3
<1> QED
  BY <1>1, <1>2, <1>3, <1>4

LEMMA CompressUCall == ASSUME CallInv, CompressU PROVE CallInv'
<1>1. pc = "c1" /\ pc' = "c2" /\ InCall /\ InCall'
  BY DEF CompressU, InCall, Multiplied
<1>2. StageInv'
  BY DEF CallInv, StageInv, CompressU, InCall, Sampled, Multiplied, Encrypted
<1>3. StartInv'
  BY <1>1 DEF CallInv, StartInv, CompressU
<1>4. SampleInv'
  BY <1>1 DEF CallInv, SampleInv, CompressU, Multiplied
<1>5. RowInv'
  BY <1>1 DEF CallInv, RowInv, CompressU, Sampled, Multiplied
<1>6. CipherInv'
  <2>1. call # "generate"
    BY <1>1 DEF CallInv, StageInv
  <2>2. \A i \in Ranks : result[i] = Plain(USet(Rho(variant), prf_input, i))
    BY <1>1, <2>1 DEF CallInv, RowInv, RowOf, Multiplied
  <2>3. \A i \in Ranks : Value(result[i], "normal") = Poly(USet(Rho(variant), prf_input, i))
    BY <2>2, ValueIs
  <2>4. ciphertext' = [u |-> [i \in Ranks |-> Poly(USet(Rho(variant), prf_input, i))], v |-> Zero]
    BY <2>3, Zenon DEF CompressU
  <2> QED
    BY <1>1, <2>4 DEF CipherInv, CompressU, Encrypted
<1> QED
  BY <1>2, <1>3, <1>4, <1>5, <1>6 DEF CallInv

LEMMA RingElementVCall == ASSUME CallInv, RingElementV PROVE CallInv'
<1>1. pc = "c2" /\ pc' \in Encrypted /\ InCall /\ InCall'
  BY DEF RingElementV, InCall, Multiplied, Encrypted
<1>2. StageInv'
  <2>1. call \in {"encapsulate", "decapsulate"}
    BY <1>1 DEF CallInv, StageInv
  <2> QED
    BY <2>1 DEF CallInv, StageInv, RingElementV, InCall, Sampled, Multiplied, Encrypted
<1>3. StartInv'
  BY <1>1 DEF CallInv, StartInv, RingElementV
<1>4. SampleInv'
  BY <1>1 DEF CallInv, SampleInv, RingElementV, Multiplied, Encrypted
<1>5. RowInv'
  BY <1>1 DEF CallInv, RowInv, RingElementV, Sampled, Multiplied, Encrypted
<1>6. ciphertext' = CipherOf(public_key, message)
  <2> DEFINE in == prf_input
             T == TermsOf(public_key)
             entries == deserialize_ring_elements_reduced(public_key)
             u == [i \in Ranks |-> Poly(USet(Rho(variant), in, i))]
             e == add_message_error_reduce(error_2, deserialize_then_decompress_message(message),
                    invert_ntt_montgomery(reducing_from_i32_array(UseRow(entries, ZERO))))
  <2>1. call # "generate"
    BY <1>1 DEF CallInv, StageInv
  <2>2. public_key \in AcceptedKeys(variant) /\ in = Coins(public_key, message)[2]
    BY <1>1, <2>1 DEF CallInv, StartInv
  <2>3. /\ factor = FactorOf(in) /\ error_2 = Error2Of(in)
        /\ \A j \in Ranks : cache[j] = factor[j]
        /\ ciphertext = [u |-> u, v |-> Zero]
    BY <1>1, <2>1 DEF CallInv, SampleInv, RowInv, CipherInv, Multiplied
  <2>4. /\ public_key.seed = Rho(variant) /\ KeyApart(T, in)
        /\ \A i \in Ranks : entries[i] = Ntt(T[i])
    BY <2>2, KeyReads
  <2>5. UseRow(entries, ZERO) = Ntt(KeyTimes(T, in))
    <3> HIDE DEF T, entries
    <3> QED
      BY <2>3, <2>4, KeyRow
  <2>6. deserialize_then_decompress_message(message) = Plain({{<<"message", message>>}})
    BY AtomIs, ElementIs DEF deserialize_then_decompress_message
  <2>7. e = Plain(VSet(T, in, message))
    <3> HIDE DEF T, entries
    <3> QED
      BY <2>3, <2>5, <2>6, VSetIs DEF Error2Of
  <2>8. Value(e, "normal") = Poly(VSet(T, in, message))
    BY <2>7, ValueIs
  <2>9. ciphertext' = [ciphertext EXCEPT !.v = Value(e, "normal")]
    BY DEF RingElementV
  <2> HIDE DEF e, T, u
  <2>10. ciphertext' = [u |-> u, v |-> Poly(VSet(T, in, message))]
    BY <2>3, <2>8, <2>9
  <2> QED
    BY <2>2, <2>4, <2>10 DEF CipherOf, CipherParts, T, u
<1>7. CipherInv'
  BY <1>1, <1>6 DEF CipherInv, RingElementV, Encrypted
<1> QED
  BY <1>2, <1>3, <1>4, <1>5, <1>7 DEF CallInv

-----------------------------------------------------------------------------
(* Between the calls. *)

LEMMA ChangedIs ==
  ASSUME NEW M, {<<"changed">>} \notin M PROVE Changed(Poly(M)) = Poly(M \cup {{<<"changed">>}})
<1> DEFINE n == {<<"changed">>}
<1> HIDE DEF n
<1>1. M \cap {n} = {}
  BY DEF n
<1>2. Plus(Poly(M), Poly({n})) = Poly(M \cup {n})
  BY <1>1, PlusPoly
<1> QED
  BY <1>2, AtomIs DEF Changed, n

(* What is sent has none of the atoms a change brings. *)
LEMMA NotInT == ASSUME NEW rho, NEW sigma, NEW i PROVE {<<"changed">>} \notin TSet(rho, sigma, i)
<1> DEFINE n == {<<"changed">>}
<1> SUFFICES ASSUME n \in TSet(rho, sigma, i) PROVE FALSE
  OBVIOUS
<1>1. \/ \E j \in Ranks : n = {<<"xof", rho, j, i>>, <<"prf", sigma, j>>}
      \/ n = {<<"prf", sigma, K + i>>}
  BY THas
<1>2. (\E j : <<"prf", sigma, j>> \in n)
  <2> HIDE DEF n
  <2> QED
    BY <1>1
<1> QED
  BY <1>2

LEMMA HonestKeyHas ==
  ASSUME NEW v
  PROVE  /\ HonestKey(v).t[0] = Poly(TSet(Rho(v), Sigma(v), 0))
         /\ [HonestKey(v) EXCEPT !.t[0] = Poly(TSet(Rho(v), Sigma(v), 0) \cup {{<<"changed">>}})]
              = ChangedKey(v)
         /\ HonestKey(v).t # ChangedKey(v).t
<1> DEFINE T0 == TSet(Rho(v), Sigma(v), 0)
           T1 == T0 \cup {{<<"changed">>}}
           T == KeyTerms(v)
           U == ChangedKeyTerms(v)
<1>0. 0 \in Ranks
  BY KAssumption DEF Ranks
<1>1. DOMAIN T = Ranks /\ T[0] = T0
  BY <1>0 DEF KeyTerms
<1>2. U = [T EXCEPT ![0] = T1]
  BY <1>1 DEF ChangedKeyTerms
<1>3. T0 # T1
  <2>1. {<<"changed">>} \notin T0
    BY NotInT
  <2> QED
    BY <2>1
<1> HIDE DEF T0, T1, T, U
<1> DEFINE t == [i \in Ranks |-> Poly(T[i])]
           u == [i \in Ranks |-> Poly(U[i])]
<1>4. t[0] = Poly(T0) /\ u[0] = Poly(T1) /\ u = [t EXCEPT ![0] = Poly(T1)]
  BY <1>0, <1>1, <1>2
<1>5. t # u
  BY <1>3, <1>4, PolyEqual
<1> HIDE DEF t, u
<1>6. HonestKey(v) = [t |-> t, form |-> "reduced", seed |-> Rho(v)]
  BY DEF HonestKey, KeyOf, t, T
<1>7. ChangedKey(v) = [t |-> u, form |-> "reduced", seed |-> Rho(v)]
  BY DEF ChangedKey, KeyOf, u, U
<1>8. [HonestKey(v) EXCEPT !.t[0] = Poly(T1)] = [t |-> u, form |-> "reduced", seed |-> Rho(v)]
  BY <1>4, <1>6
<1> QED
  BY <1>4, <1>5, <1>6, <1>7, <1>8 DEF T0, T1

LEMMA ReceivedKeyIs ==
  ASSUME NEW v, NEW pk \in PublicKeysReceived(HonestKey(v)), validate_public_key(pk)
  PROVE  pk \in AcceptedKeys(v)
<1>1. CASE pk = HonestKey(v)
  BY <1>1 DEF AcceptedKeys
<1>2. CASE pk = [HonestKey(v) EXCEPT !.form = "unreduced"]
  <2>1. pk.form = "unreduced"
    BY <1>2 DEF HonestKey, KeyOf
  <2>2. pk.form = "reduced"
    BY DEF validate_public_key, serialize_public_key_mut
  <2> QED
    BY <2>1, <2>2
<1>3. CASE pk = [HonestKey(v) EXCEPT !.t[0] = Changed(HonestKey(v).t[0])]
  <2> DEFINE T0 == TSet(Rho(v), Sigma(v), 0)
  <2>1. {<<"changed">>} \notin T0
    BY NotInT
  <2>2. Changed(HonestKey(v).t[0]) = Poly(T0 \cup {{<<"changed">>}})
    BY <2>1, ChangedIs, HonestKeyHas
  <2>3. pk = ChangedKey(v)
    BY <1>3, <2>2, HonestKeyHas
  <2> QED
    BY <2>3 DEF AcceptedKeys
<1> QED
  BY <1>1, <1>2, <1>3 DEF PublicKeysReceived

LEMMA HonestSecretHas ==
  ASSUME NEW v
  PROVE  /\ HonestSecretKey(v).s[0] = Poly({{<<"prf", Sigma(v), 0>>}})
         /\ [HonestSecretKey(v)
               EXCEPT !.s[0] = Poly({{<<"prf", Sigma(v), 0>>}} \cup {{<<"changed">>}})]
              = ChangedSecretKey(v)
         /\ [HonestSecretKey(v) EXCEPT !.z = <<"changed">>] = ChangedRejection(v)
<1> DEFINE A == SecretTerms(v)
           B == ChangedSecretTerms(v)
           M0 == {{<<"prf", Sigma(v), 0>>}}
           M1 == M0 \cup {{<<"changed">>}}
           s == [i \in Ranks |-> Poly(Singletons(A[i]))]
           t == [i \in Ranks |-> Poly(Singletons(B[i]))]
           pk == HonestKey(v)
           h == H(pk)
<1>0. 0 \in Ranks
  BY KAssumption DEF Ranks
<1>1. Singletons(A[0]) = M0
  BY <1>0 DEF SecretTerms, Singletons
<1>2. Singletons(B[0]) = M1
  <2>1. B[0] = {<<"prf", Sigma(v), 0>>, <<"changed">>}
    BY <1>0 DEF SecretTerms, ChangedSecretTerms
  <2> HIDE DEF B
  <2> QED
    BY <2>1 DEF Singletons
<1>3. \A i \in Ranks : i # 0 => B[i] = A[i]
  BY <1>0 DEF SecretTerms, ChangedSecretTerms
<1> HIDE DEF M0, M1, A, B
<1>4. s[0] = Poly(M0) /\ t = [s EXCEPT ![0] = Poly(M1)]
  BY <1>0, <1>1, <1>2, <1>3
<1> HIDE DEF s, t, pk, h
<1>5. HonestSecretKey(v) = [s |-> s, pk |-> pk, hash |-> h, z |-> <<"z">>]
  BY DEF HonestSecretKey, SecretKeyOf, SecretOf, s, A, pk, h
<1>6. ChangedSecretKey(v) = [s |-> t, pk |-> pk, hash |-> h, z |-> <<"z">>]
  BY DEF ChangedSecretKey, SecretKeyOf, SecretOf, t, B, pk, h
<1>7. ChangedRejection(v) = [s |-> s, pk |-> pk, hash |-> h, z |-> <<"changed">>]
  BY DEF ChangedRejection, SecretKeyOf, SecretOf, s, A, pk, h
<1>8. [HonestSecretKey(v) EXCEPT !.s[0] = Poly(M1)] = ChangedSecretKey(v)
  BY <1>4, <1>5, <1>6
<1>9. [HonestSecretKey(v) EXCEPT !.z = <<"changed">>] = ChangedRejection(v)
  BY <1>5, <1>7
<1> QED
  BY <1>4, <1>5, <1>8, <1>9 DEF M0, M1

LEMMA ReceivedSecretIs ==
  ASSUME NEW v, NEW sk \in PrivateKeysReceived(HonestSecretKey(v)), validate_private_key(sk)
  PROVE  sk \in AcceptedSecretKeys(v)
<1> DEFINE honest == HonestSecretKey(v)
<1>0. honest.pk = HonestKey(v) /\ honest.hash = H(HonestKey(v))
  BY DEF HonestSecretKey, SecretKeyOf
<1>1. CASE sk = honest
  BY <1>1 DEF AcceptedSecretKeys
<1>2. CASE sk = [honest EXCEPT !.s[0] = Changed(honest.s[0])]
  <2> DEFINE M0 == {{<<"prf", Sigma(v), 0>>}}
  <2>1. {<<"changed">>} \notin M0
    <3>1. <<"changed">> # <<"prf", Sigma(v), 0>>
      OBVIOUS
    <3> QED
      BY <3>1
  <2>2. Changed(honest.s[0]) = Poly(M0 \cup {{<<"changed">>}})
    BY <2>1, ChangedIs, HonestSecretHas
  <2>3. sk = ChangedSecretKey(v)
    BY <1>2, <2>2, HonestSecretHas
  <2> QED
    BY <2>3 DEF AcceptedSecretKeys
<1>3. CASE sk = [honest EXCEPT !.pk.t[0] = Changed(honest.pk.t[0])]
  <2> DEFINE T0 == TSet(Rho(v), Sigma(v), 0)
  <2>1. Changed(honest.pk.t[0]) = Poly(T0 \cup {{<<"changed">>}})
    BY <1>0, NotInT, ChangedIs, HonestKeyHas
  <2>2. DOMAIN honest = {"s", "pk", "hash", "z"}
    BY DEF HonestSecretKey, SecretKeyOf
  <2>3. sk.pk = [honest.pk EXCEPT !.t[0] = Changed(honest.pk.t[0])] /\ sk.hash = honest.hash
    <3> HIDE DEF honest
    <3> QED
      BY <1>3, <2>2
  <2>4. sk.pk = ChangedKey(v)
    BY <1>0, <2>1, <2>3, HonestKeyHas
  <2>5. H(ChangedKey(v)) = H(HonestKey(v))
    BY <1>0, <2>3, <2>4 DEF validate_private_key
  <2>6. ChangedKey(v) = HonestKey(v)
    BY <2>5 DEF H
  <2> QED
    BY <2>6, HonestKeyHas
<1>4. CASE sk = [honest EXCEPT !.hash = <<"changed">>]
  <2>1. sk.hash = <<"changed">>
    BY <1>4 DEF HonestSecretKey, SecretKeyOf
  <2>2. H(sk.pk) # <<"changed">>
    BY DEF H
  <2> QED
    BY <2>1, <2>2 DEF validate_private_key
<1>5. CASE sk = [honest EXCEPT !.z = <<"changed">>]
  <2>1. sk = ChangedRejection(v)
    BY <1>5, HonestSecretHas
  <2> QED
    BY <2>1 DEF AcceptedSecretKeys
<1> QED
  BY <1>1, <1>2, <1>3, <1>4, <1>5 DEF PrivateKeysReceived

-----------------------------------------------------------------------------
(* Every step keeps the invariant. *)

(* Until decapsulation is done there is nothing to agree about. *)
LEMMA NotDone == ASSUME pc' # "done" PROVE Agreement' /\ ImplicitRejection'
BY DEF Agreement, ImplicitRejection

(* A step in a call, which leaves what is between the calls. *)
LEMMA WorldKept ==
  ASSUME WorldInv, InCall, InCall', call' = call,
         UNCHANGED <<variant, public_key, message, world>>
  PROVE  WorldInv'
<1>1. pc # "generate" /\ pc' \notin {"generate", "encapsulate", "send_ciphertext", "decapsulate"}
  BY DEF InCall, Sampled, Multiplied, Encrypted
<1>2. variant' = variant /\ public_key' = public_key /\ message' = message
      /\ key_pair' = key_pair /\ received_pk' = received_pk /\ sent' = sent
      /\ received' = received /\ secrets' = secrets
  BY DEF world
<1>3. KeyInv'
  BY <1>1, <1>2 DEF WorldInv, KeyInv
<1>4. ReceivedKeyInv'
  BY <1>1, <1>2 DEF WorldInv, ReceivedKeyInv, Encapsulating
<1>5. SentInv'
  BY <1>1, <1>2 DEF WorldInv, SentInv, SentFor, Decapsulating
<1>6. ReceivedInv'
  BY <1>1, <1>2 DEF WorldInv, ReceivedInv, Decapsulating
<1> QED
  BY <1>3, <1>4, <1>5, <1>6 DEF WorldInv

LEMMA InCallStep ==
  ASSUME KemInv,
         \/ SampleVector \/ SampleError \/ SampleError2
         \/ FirstRowOfT \/ OtherRowOfT \/ FirstRowOfU \/ OtherRowOfU
         \/ CompressU \/ RingElementV
  PROVE  KemInv'
<1>1. CallInv'
  BY SampleVectorCall, SampleErrorCall, SampleError2Call, RowOfTCall, RowOfUCall,
     CompressUCall, RingElementVCall DEF KemInv
<1>2. /\ InCall /\ InCall' /\ call' = call /\ pc' # "done"
      /\ UNCHANGED <<variant, public_key, message, world>>
  <2>1. CASE SampleVector \/ SampleError \/ SampleError2
    BY <2>1 DEF SampleVector, SampleError, SampleError2, InCall, Sampled, Multiplied, world
  <2>2. CASE FirstRowOfT \/ OtherRowOfT
    BY <2>2 DEF FirstRowOfT, OtherRowOfT, AsPlusE, InCall, Multiplied, world
  <2>3. CASE FirstRowOfU \/ OtherRowOfU
    BY <2>3 DEF FirstRowOfU, OtherRowOfU, VectorU, InCall, Multiplied, world
  <2>4. CASE CompressU \/ RingElementV
    BY <2>4 DEF CompressU, RingElementV, InCall, Multiplied, Encrypted, world
  <2> QED
    BY <2>1, <2>2, <2>3, <2>4
<1> QED
  BY <1>1, <1>2, WorldKept, NotDone DEF KemInv

LEMMA GenerateStep == ASSUME KemInv, GenerateKeypair PROVE KemInv'
<1>1. CallInv'
  BY GenerateCall DEF KemInv
<1>2. pc' = "vector" /\ InCall' /\ call' = "generate" /\ secrets' = secrets
  BY DEF GenerateKeypair, InCall, Sampled, world
<1>3. WorldInv'
  BY <1>2 DEF KemInv, WorldInv, KeyInv, ReceivedKeyInv, SentInv, ReceivedInv,
              Encapsulating, Decapsulating
<1> QED
  BY <1>1, <1>2, <1>3, NotDone DEF KemInv

LEMMA SerializeStep == ASSUME KemInv, SerializeKeys PROVE KemInv'
<1>1. pc = "serialize" /\ pc' = "send_key" /\ ~InCall' /\ InCall /\ variant' = variant
      /\ secrets' = secrets
  BY DEF SerializeKeys, InCall, Sampled, Multiplied, Encrypted
<1>2. CallInv'
  BY <1>1, NotInCall DEF InCall, KemInv, CallInv, StageInv
<1>3. /\ call = "generate" /\ seed_for_A = Rho(variant) /\ factor = FactorOf(Sigma(variant))
      /\ \A i \in Ranks : result[i] = Ntt(TSet(Rho(variant), Sigma(variant), i))
  BY <1>1 DEF KemInv, CallInv, StageInv, StartInv, SampleInv, RowInv, RowOf, Multiplied
<1>4. serialize_public_key_mut(result, seed_for_A) = HonestKey(variant)
  <2>1. \A i \in Ranks : Value(result[i], "ntt") = Poly(KeyTerms(variant)[i])
    BY <1>3, ValueIs DEF KeyTerms
  <2>2. [i \in Ranks |-> Value(result[i], "ntt")] = [i \in Ranks |-> Poly(KeyTerms(variant)[i])]
    BY <2>1
  <2> QED
    BY <1>3, <2>2, Zenon DEF serialize_public_key_mut, HonestKey, KeyOf
<1>5. [i \in Ranks |-> Value(factor[i], "ntt")] = SecretOf(SecretTerms(variant))
  <2>1. \A i \in Ranks : Singletons(SecretTerms(variant)[i]) = {{<<"prf", Sigma(variant), i>>}}
    BY DEF SecretTerms, Singletons
  <2>2. \A i \in Ranks : Value(factor[i], "ntt") = Poly(Singletons(SecretTerms(variant)[i]))
    BY <1>3, <2>1, ValueIs DEF FactorOf
  <2> QED
    BY <2>2, Zenon DEF SecretOf
<1>6. key_pair' = [pk |-> HonestKey(variant), sk |-> HonestSecretKey(variant)]
  BY <1>4, <1>5, Zenon DEF SerializeKeys, serialize_kem_secret_key_mut, HonestSecretKey, SecretKeyOf
<1>7. WorldInv'
  BY <1>1, <1>6 DEF KemInv, WorldInv, KeyInv, ReceivedKeyInv, SentInv, ReceivedInv,
                    Encapsulating, Decapsulating
<1> QED
  BY <1>1, <1>2, <1>7, NotDone DEF KemInv

LEMMA ReceivePublicKeyStep ==
  ASSUME KemInv, NEW pk \in PublicKeysReceived(key_pair.pk), ReceivePublicKey(pk)
  PROVE  KemInv'
<1>1. pc = "send_key" /\ ~InCall /\ ~InCall' /\ pc' \in {"encapsulate", "refused"}
      /\ received_pk' = pk
      /\ UNCHANGED <<variant, key_pair, secrets>>
  BY DEF ReceivePublicKey, InCall, Sampled, Multiplied, Encrypted
<1>2. CallInv'
  BY <1>1, NotInCall DEF InCall, KemInv, CallInv, StageInv
<1>3. key_pair = [pk |-> HonestKey(variant), sk |-> HonestSecretKey(variant)]
  BY <1>1 DEF KemInv, WorldInv, KeyInv
<1>4. pc' = "encapsulate" => pk \in AcceptedKeys(variant)
  BY <1>3, ReceivedKeyIs DEF ReceivePublicKey
<1>5. WorldInv'
  BY <1>1, <1>3, <1>4 DEF KemInv, WorldInv, KeyInv, ReceivedKeyInv, SentInv, ReceivedInv,
                          Encapsulating, Decapsulating
<1> QED
  BY <1>1, <1>2, <1>5, NotDone DEF KemInv

LEMMA EncapsulateStep ==
  ASSUME KemInv, NEW r, Encapsulate(<<"randomness", r>>) PROVE KemInv'
<1> DEFINE m == entropy_preprocess(<<"randomness", r>>)
<1>1. /\ pc = "encapsulate" /\ ~InCall /\ pc' = "vector" /\ InCall' /\ call' = "encapsulate"
      /\ message' = m /\ public_key' = received_pk
      /\ UNCHANGED <<variant, key_pair, received_pk, secrets>>
  BY DEF Encapsulate, StartEncrypt, InCall, Sampled, Multiplied, Encrypted, world
<1>2. received_pk \in AcceptedKeys(variant)
  BY <1>1 DEF KemInv, WorldInv, ReceivedKeyInv
<1>3. StageInv'
  BY <1>1 DEF KemInv, CallInv, StageInv
<1>4. StartInv'
  <2>1. seed_for_A' = Rho(variant)
    BY <1>2, KeyReads DEF Encapsulate, StartEncrypt
  <2>2. prf_input' = Coins(received_pk, m)[2] /\ shared_secret' = Coins(received_pk, m)[1]
    BY DEF Encapsulate, StartEncrypt, Coins
  <2> QED
    BY <1>1, <1>2, <2>1, <2>2 DEF StartInv
<1>5. CallInv'
  BY <1>1, <1>3, <1>4, CallBegins DEF Encapsulate, StartEncrypt
<1>6. ProperMessage(m)
  BY DEF ProperMessage, entropy_preprocess, H
<1> HIDE DEF m
<1>7. WorldInv'
  BY <1>1, <1>2, <1>6 DEF KemInv, WorldInv, KeyInv, ReceivedKeyInv, SentInv, ReceivedInv,
                          Encapsulating, Decapsulating
<1> QED
  BY <1>1, <1>5, <1>7, NotDone DEF KemInv

LEMMA FinishEncapsulateStep == ASSUME KemInv, FinishEncapsulate PROVE KemInv'
<1>1. /\ pc = "encapsulated" /\ InCall /\ pc' = "send_ciphertext" /\ ~InCall'
      /\ sent' = ciphertext
      /\ UNCHANGED <<variant, key_pair, received_pk>>
  BY DEF FinishEncapsulate, InCall, Sampled, Multiplied, Encrypted
<1>2. CallInv'
  BY <1>1, NotInCall DEF InCall, KemInv, CallInv, StageInv
<1>3. /\ call = "encapsulate" /\ public_key = received_pk
      /\ received_pk \in AcceptedKeys(variant) /\ ProperMessage(message)
      /\ ciphertext = CipherOf(received_pk, message)
      /\ shared_secret = Coins(received_pk, message)[1]
      /\ DOMAIN secrets = {"encapsulated", "decapsulated"}
  BY <1>1 DEF KemInv, CallInv, StageInv, StartInv, CipherInv, WorldInv, ReceivedKeyInv, SentInv,
              Encapsulating, Encrypted
<1>4. /\ secrets' = [secrets EXCEPT !.encapsulated = kdf(shared_secret, ciphertext)]
      /\ kdf(shared_secret, ciphertext) = KdfOf(variant, shared_secret, ciphertext)
  BY DEF FinishEncapsulate, kdf, KdfOf
<1>5. SentFor(message)'
  <2> DEFINE m == message
  <2>1. secrets'.encapsulated = KdfOf(variant, Coins(received_pk, m)[1], sent')
    BY <1>1, <1>3, <1>4
  <2>2. m' = m
    BY DEF FinishEncapsulate, memory
  <2> QED
    BY <1>1, <1>3, <2>1, <2>2 DEF SentFor
<1>6. SentInv'
  <2>1. DOMAIN secrets' = {"encapsulated", "decapsulated"}
    BY <1>3, <1>4
  <2> QED
    BY <1>5, <2>1 DEF SentInv
<1>7. KeyInv' /\ ReceivedKeyInv' /\ ReceivedInv'
  BY <1>1, <1>3 DEF KemInv, WorldInv, KeyInv, ReceivedKeyInv, ReceivedInv,
                    Encapsulating, Decapsulating
<1> QED
  BY <1>1, <1>2, <1>6, <1>7, NotDone DEF KemInv, WorldInv

LEMMA ReceiveCiphertextStep ==
  ASSUME KemInv, NEW sk \in PrivateKeysReceived(key_pair.sk), NEW c \in CiphertextsReceived(sent),
         ReceiveCiphertext(sk, c)
  PROVE  KemInv'
<1>1. /\ pc = "send_ciphertext" /\ ~InCall /\ ~InCall' /\ pc' \in {"decapsulate", "refused"}
      /\ received' = [sk |-> sk, ciphertext |-> c]
      /\ UNCHANGED <<variant, key_pair, received_pk, sent, secrets>>
  BY DEF ReceiveCiphertext, InCall, Sampled, Multiplied, Encrypted
<1>2. CallInv'
  BY <1>1, NotInCall DEF InCall, KemInv, CallInv, StageInv
<1>3. key_pair = [pk |-> HonestKey(variant), sk |-> HonestSecretKey(variant)]
  BY <1>1 DEF KemInv, WorldInv, KeyInv
<1>4. pc' = "decapsulate" => sk \in AcceptedSecretKeys(variant)
  BY <1>3, ReceivedSecretIs DEF ReceiveCiphertext
<1>5. KeyInv' /\ ReceivedKeyInv' /\ SentInv'
  BY <1>1, <1>3 DEF KemInv, WorldInv, KeyInv, ReceivedKeyInv, SentInv, SentFor,
                    Encapsulating, Decapsulating
<1>6. ReceivedInv'
  BY <1>1, <1>4 DEF ReceivedInv, Decapsulating
<1> QED
  BY <1>1, <1>2, <1>5, <1>6, NotDone DEF KemInv, WorldInv

LEMMA SecretKeysHold ==
  ASSUME NEW v, NEW sk \in AcceptedSecretKeys(v)
  PROVE  sk.pk = HonestKey(v) /\ sk.hash = H(HonestKey(v))
BY DEF AcceptedSecretKeys, HonestSecretKey, ChangedSecretKey, ChangedRejection, SecretKeyOf

LEMMA DecapsulateStep == ASSUME KemInv, Decapsulate PROVE KemInv'
<1> DEFINE c == received.ciphertext
           m == decrypt(c, ProductOfU(received.sk.s, c))
           pk == HonestKey(variant)
<1>1. /\ pc = "decapsulate" /\ ~InCall /\ pc' = "vector" /\ InCall' /\ call' = "decapsulate"
      /\ message' = m
      /\ UNCHANGED <<variant, key_pair, received_pk, sent, received, secrets>>
  BY DEF Decapsulate, StartEncrypt, InCall, Sampled, Multiplied, Encrypted, world
<1>2. /\ received.sk \in AcceptedSecretKeys(variant)
      /\ c \in CiphertextsReceived(sent)
      /\ \E n : SentFor(n)
  BY <1>1 DEF KemInv, WorldInv, ReceivedInv, SentInv
<1>3. received.sk.pk = pk /\ received.sk.hash = H(pk)
  BY <1>2, SecretKeysHold
<1>4. public_key' = pk /\ pk \in AcceptedKeys(variant)
  BY <1>3 DEF Decapsulate, StartEncrypt, AcceptedKeys
<1>5. StageInv'
  BY <1>1 DEF KemInv, CallInv, StageInv
<1>6. StartInv'
  <2>1. seed_for_A' = Rho(variant)
    BY <1>3, <1>4, KeyReads DEF Decapsulate, StartEncrypt
  <2>2. prf_input' = Coins(pk, m)[2] /\ shared_secret' = Coins(pk, m)[1]
    BY <1>3 DEF Decapsulate, StartEncrypt, Coins
  <2> QED
    BY <1>1, <1>4, <2>1, <2>2 DEF StartInv
<1>7. CallInv'
  BY <1>1, <1>5, <1>6, CallBegins DEF Decapsulate, StartEncrypt
<1> HIDE DEF pk
<1>8. KeyInv' /\ ReceivedKeyInv'
  BY <1>1 DEF KemInv, WorldInv, KeyInv, ReceivedKeyInv, Encapsulating
<1>9. SentInv'
  BY <1>1, <1>2 DEF KemInv, WorldInv, SentInv, SentFor
<1>10. ReceivedInv'
  BY <1>1, <1>2, <1>4 DEF ReceivedInv, pk
<1> QED
  BY <1>1, <1>7, <1>8, <1>9, <1>10, NotDone DEF KemInv, WorldInv

-----------------------------------------------------------------------------
(* The end of decapsulation. *)

(* The atoms a change of a ciphertext brings. *)
Foreign(x) == x[1] \in {"rounding", "changed"}

LEMMA NotInCipher ==
  ASSUME NEW x, Foreign(x), NEW T, NEW rho, NEW in, NEW text, NEW i
  PROVE  {x} \notin VSet(T, in, text) /\ {x} \notin USet(rho, in, i)
<1> DEFINE n == {x}
<1>1. ASSUME n \in VSet(T, in, text) PROVE FALSE
  <2>1. \/ \E k \in Ranks : \E t \in T[k] : n = t \cup {<<"prf", in, k>>}
        \/ n = {<<"prf", in, K + K>>}
        \/ n = {<<"message", text>>}
    BY <1>1, VHas
  <2>2. \/ \E k : <<"prf", in, k>> \in n
        \/ <<"message", text>> \in n
    <3> HIDE DEF n
    <3> QED
      BY <2>1
  <2> QED
    BY <2>2 DEF Foreign
<1>2. ASSUME n \in USet(rho, in, i) PROVE FALSE
  <2>1. \/ \E j \in Ranks : n = {<<"xof", rho, i, j>>, <<"prf", in, j>>}
        \/ n = {<<"prf", in, K + i>>}
    <3> HIDE DEF n
    <3> QED
      BY <1>2 DEF USet
  <2>2. \E k : <<"prf", in, k>> \in n
    <3> HIDE DEF n
    <3> QED
      BY <2>1
  <2> QED
    BY <2>2 DEF Foreign
<1> QED
  BY <1>1, <1>2

LEMMA PlusForeign ==
  ASSUME NEW M, NEW x, {x} \notin M
  PROVE  {x} \in DOMAIN Plus(Poly(M), Atom(x))
<1> DEFINE n == {x}
<1> HIDE DEF n
<1>1. M \cap {n} = {}
  BY DEF n
<1>2. Plus(Poly(M), Poly({n})) = Poly(M \cup {n})
  BY <1>1, PlusPoly
<1>3. DOMAIN Plus(Poly(M), Poly({n})) = M \cup {n}
  BY <1>2, PolyDomain
<1> QED
  BY <1>3, AtomIs DEF n

(* Re-encryption tells every change of a ciphertext. *)
LEMMA ChangeShows ==
  ASSUME NEW T, NEW rho, NEW in, NEW m, NEW U, NEW sigma, NEW jn, NEW n, NEW c,
         c \in CiphertextsReceived(CipherParts(T, rho, in, m)),
         c = CipherParts(U, sigma, jn, n)
  PROVE  c = CipherParts(T, rho, in, m)
<1> DEFINE sent0 == CipherParts(T, rho, in, m)
           near == <<"rounding", "nudge", 0>>
           far == <<"changed">>
<1>0. Foreign(near) /\ Foreign(far) /\ 0 \in Ranks /\ K - 1 \in Ranks
  BY KAssumption DEF Foreign, Ranks
<1>1. /\ sent0.v = Poly(VSet(T, in, m))
      /\ \A i \in Ranks : sent0.u[i] = Poly(USet(rho, in, i))
      /\ DOMAIN sent0 = {"u", "v"} /\ DOMAIN sent0.u = Ranks
  BY DEF CipherParts
<1>2. /\ DOMAIN c.v = VSet(U, jn, n)
      /\ \A i \in Ranks : DOMAIN c.u[i] = USet(sigma, jn, i)
  <2>1. c.v = Poly(VSet(U, jn, n)) /\ \A i \in Ranks : c.u[i] = Poly(USet(sigma, jn, i))
    BY DEF CipherParts
  <2> QED
    BY <2>1, PolyDomain
<1> HIDE DEF sent0, near, far
<1>3. ASSUME NEW x, Foreign(x)
      PROVE  /\ c.v # Plus(sent0.v, Atom(x))
             /\ \A i \in Ranks : c.u[i] # Plus(sent0.u[i], Atom(x))
  <2>1. {x} \in DOMAIN Plus(sent0.v, Atom(x))
    BY <1>1, <1>3, NotInCipher, PlusForeign
  <2>2. {x} \notin DOMAIN c.v
    BY <1>2, <1>3, NotInCipher
  <2>3. ASSUME NEW i \in Ranks PROVE c.u[i] # Plus(sent0.u[i], Atom(x))
    <3>1. {x} \in DOMAIN Plus(sent0.u[i], Atom(x))
      BY <1>1, <1>3, NotInCipher, PlusForeign
    <3>2. {x} \notin DOMAIN c.u[i]
      BY <1>2, <1>3, NotInCipher
    <3> QED
      BY <3>1, <3>2
  <2> QED
    BY <2>1, <2>2, <2>3
<1>4. \/ c = sent0
      \/ c = [sent0 EXCEPT !.v = Plus(sent0.v, Atom(near))]
      \/ c = [sent0 EXCEPT !.v = Plus(sent0.v, Atom(far))]
      \/ c = [sent0 EXCEPT !.u[0] = Plus(sent0.u[0], Atom(near))]
      \/ c = [sent0 EXCEPT !.u[K - 1] = Plus(sent0.u[K - 1], Atom(far))]
  BY DEF CiphertextsReceived, Nudged, Changed, sent0, near, far
<1>5. \/ c = sent0
      \/ c.v = Plus(sent0.v, Atom(near))
      \/ c.v = Plus(sent0.v, Atom(far))
      \/ c.u[0] = Plus(sent0.u[0], Atom(near))
      \/ c.u[K - 1] = Plus(sent0.u[K - 1], Atom(far))
  BY <1>0, <1>1, <1>4
<1> QED
  BY <1>0, <1>3, <1>5 DEF sent0

(* Encryptions of two messages, or for two keys, are never the same. *)
LEMMA EncryptionsDiffer ==
  ASSUME NEW p, NEW q, NEW m, NEW n, CipherOf(p, m) = CipherOf(q, n)
  PROVE  p = q /\ m = n
<1> DEFINE a == Coins(p, m)[2]
           b == Coins(q, n)[2]
           T == TermsOf(p)
           U == TermsOf(q)
<1>1. VSet(T, a, m) = VSet(U, b, n)
  <2>1. CipherOf(p, m).v = Poly(VSet(T, a, m)) /\ CipherOf(q, n).v = Poly(VSet(U, b, n))
    BY DEF CipherOf, CipherParts
  <2> HIDE DEF a, b, T, U
  <2> QED
    BY <2>1, PolyEqual
<1>2. a = <<"G", 1, <<m, <<"H", p>> >> >> /\ b = <<"G", 1, <<n, <<"H", q>> >> >>
  BY DEF Coins, G, H
<1> HIDE DEF a, b, T, U
<1>3. {<<"message", m>>} \in VSet(U, b, n) /\ {<<"prf", a, K + K>>} \in VSet(U, b, n)
  BY <1>1, VHas
<1>4. a = b
  <2> DEFINE s == {<<"prf", a, K + K>>}
  <2>1. \/ \E k \in Ranks : \E t \in U[k] : s = t \cup {<<"prf", b, k>>}
        \/ s = {<<"prf", b, K + K>>}
        \/ s = {<<"message", n>>}
    BY <1>3, VHas
  <2>2. \/ \E k : <<"prf", b, k>> \in s
        \/ <<"message", n>> \in s
    <3> HIDE DEF s
    <3> QED
      BY <2>1
  <2> QED
    BY <2>2
<1> QED
  BY <1>2, <1>4

LEMMA CompareIs ==
  ASSUME NEW c, NEW e, DOMAIN c = {"u", "v"}, c = [u |-> c.u, v |-> c.v],
         DOMAIN e = {"u", "v"}, e = [u |-> e.u, v |-> e.v], NEW s, NEW r
  PROVE  compare_ciphertexts_select_shared_secret_in_constant_time(c, e, s, r)
           = IF c = e THEN s ELSE r
<1>1. compare(c, e) = IF c = e THEN 0 ELSE 1
  BY DEF compare
<1>2. (0 + 255) % 256 = 255 /\ (1 + 255) % 256 = 0
  OBVIOUS
<1> QED
  BY <1>1, <1>2 DEF compare_ciphertexts_select_shared_secret_in_constant_time

LEMMA PartsShape ==
  ASSUME NEW T, NEW rho, NEW in, NEW m, NEW c,
         c \in CiphertextsReceived(CipherParts(T, rho, in, m))
  PROVE  DOMAIN c = {"u", "v"} /\ c = [u |-> c.u, v |-> c.v]
<1> DEFINE e == CipherParts(T, rho, in, m)
<1>1. DOMAIN e = {"u", "v"} /\ e = [u |-> e.u, v |-> e.v]
  BY DEF CipherParts
<1> HIDE DEF e
<1>2. \/ c = e
      \/ \E x : c = [e EXCEPT !.v = x]
      \/ \E x : c = [e EXCEPT !.u[0] = x]
      \/ \E x : c = [e EXCEPT !.u[K - 1] = x]
  BY DEF CiphertextsReceived, e
<1> QED
  BY <1>1, <1>2

(* What a decapsulation decrypts to, of a ciphertext as it was sent. *)
LEMMA HonestTerms ==
  ASSUME NEW v
  PROVE  /\ OfKey(TermsOf(HonestKey(v)), Rho(v), Sigma(v)) /\ HonestKey(v).seed = Rho(v)
         /\ SecretIs(SecretTerms(v), Sigma(v))
         /\ ChangedSecretTerms(v)[0] = {<<"prf", Sigma(v), 0>>, <<"changed">>}
         /\ \A i \in Ranks : i # 0 => ChangedSecretTerms(v)[i] = {<<"prf", Sigma(v), i>>}
<1>0. 0 \in Ranks
  BY KAssumption DEF Ranks
<1>1. \A i \in Ranks : HonestKey(v).t[i] = Poly(TSet(Rho(v), Sigma(v), i))
  BY DEF HonestKey, KeyOf, KeyTerms
<1>2. OfKey(TermsOf(HonestKey(v)), Rho(v), Sigma(v))
  BY <1>1, PolyDomain DEF OfKey, TermsOf
<1>3. HonestKey(v).seed = Rho(v)
  BY DEF HonestKey, KeyOf
<1> QED
  BY <1>0, <1>2, <1>3 DEF SecretIs, SecretTerms, ChangedSecretTerms

LEMMA DecapsulatesRight ==
  ASSUME NEW v, NEW m, NEW c, c = CipherOf(HonestKey(v), m)
  PROVE  /\ decrypt(c, ProductOfU(SecretOf(SecretTerms(v)), c)) = m
         /\ \E p : decrypt(c, ProductOfU(SecretOf(ChangedSecretTerms(v)), c)) = <<"undecodable", p>>
<1> DEFINE T == TermsOf(HonestKey(v))
           in == Coins(HonestKey(v), m)[2]
           rho == Rho(v)
           sigma == Sigma(v)
           A == SecretTerms(v)
           B == ChangedSecretTerms(v)
<1>1. c = CipherParts(T, rho, in, m)
  BY HonestTerms DEF CipherOf
<1>2. sigma # in
  BY CoinsFresh
<1>3. OfKey(T, rho, sigma) /\ SecretIs(A, sigma) /\ B[0] = {<<"prf", sigma, 0>>, <<"changed">>}
      /\ \A i \in Ranks : i # 0 => B[i] = {<<"prf", sigma, i>>}
  BY HonestTerms
<1> HIDE DEF T, in, rho, sigma, A, B
<1>4. decrypt(c, ProductOfU(SecretOf(A), c)) = m
  BY <1>1, <1>2, <1>3, DecryptsRight
<1>5. \E p : decrypt(c, ProductOfU(SecretOf(B), c)) = <<"undecodable", p>>
  BY <1>1, <1>2, <1>3, DecryptsWrong
<1> QED
  BY <1>4, <1>5 DEF A, B

(* What Intact says of what was accepted. *)
LEMMA IntactIs ==
  ASSUME key_pair = [pk |-> HonestKey(variant), sk |-> HonestSecretKey(variant)],
         received_pk \in AcceptedKeys(variant), received.sk \in AcceptedSecretKeys(variant)
  PROVE  Intact <=> /\ received_pk = HonestKey(variant)
                    /\ received.ciphertext = sent
                    /\ received.sk # ChangedSecretKey(variant)
<1> DEFINE v == variant
           z == <<"z">>
           A == SecretOf(SecretTerms(v))
           B == SecretOf(ChangedSecretTerms(v))
           pk == HonestKey(v)
<1>1. A # B
  <2>1. A[0] = Poly({{<<"prf", Sigma(v), 0>>}}) /\ HonestSecretKey(v).s = A
    BY HonestSecretHas DEF HonestSecretKey, SecretKeyOf
  <2>2. B[0] = Poly(Singletons(ChangedSecretTerms(v)[0]))
    BY KAssumption DEF SecretOf, Ranks
  <2>3. {<<"changed">>} \in Singletons(ChangedSecretTerms(v)[0])
    BY HonestTerms DEF Singletons
  <2>4. {<<"changed">>} \notin {{<<"prf", Sigma(v), 0>>}}
    <3>1. <<"changed">> # <<"prf", Sigma(v), 0>>
      OBVIOUS
    <3> QED
      BY <3>1
  <2> HIDE DEF A, B
  <2>5. A[0] # B[0]
    BY <2>1, <2>2, <2>3, <2>4, PolyEqual
  <2> QED
    BY <2>5
<1>2. \A q \in AcceptedKeys(v) : [q EXCEPT !.form = "reduced"] = q
  BY DEF AcceptedKeys, HonestKey, ChangedKey, KeyOf
<1> HIDE DEF A, B, z, pk
<1>3. /\ HonestSecretKey(v) = [s |-> A, pk |-> pk, hash |-> H(pk), z |-> z]
      /\ ChangedSecretKey(v) = [s |-> B, pk |-> pk, hash |-> H(pk), z |-> z]
      /\ ChangedRejection(v) = [s |-> A, pk |-> pk, hash |-> H(pk), z |-> <<"changed">>]
  BY DEF HonestSecretKey, ChangedSecretKey, ChangedRejection, SecretKeyOf, A, B, z, pk
<1>4. \A sk \in AcceptedSecretKeys(v) :
        [sk EXCEPT !.z = z] = HonestSecretKey(v) <=> sk # ChangedSecretKey(v)
  <2>1. [HonestSecretKey(v) EXCEPT !.z = z] = HonestSecretKey(v)
        /\ HonestSecretKey(v) # ChangedSecretKey(v)
    BY <1>1, <1>3
  <2>2. [ChangedSecretKey(v) EXCEPT !.z = z] # HonestSecretKey(v)
    BY <1>1, <1>3
  <2>3. [ChangedRejection(v) EXCEPT !.z = z] = HonestSecretKey(v)
        /\ ChangedRejection(v) # ChangedSecretKey(v)
    BY <1>1, <1>3
  <2> QED
    BY <2>1, <2>2, <2>3 DEF AcceptedSecretKeys
<1>5. key_pair.sk.z = z /\ key_pair.sk = HonestSecretKey(v) /\ key_pair.pk = HonestKey(v)
  BY <1>3
<1> QED
  BY <1>2, <1>4, <1>5 DEF Intact

LEMMA FinishDecapsulateStep == ASSUME KemInv, FinishDecapsulate PROVE KemInv'
<1> DEFINE v == variant
           c == received.ciphertext
           e == ciphertext
           pk == HonestKey(v)
           good == KdfOf(v, Coins(pk, message)[1], c)
           bad == KdfOf(v, PRF(<<received.sk.z, c>>), c)
<1>1. /\ pc = "decapsulated" /\ InCall /\ pc' = "done" /\ ~InCall'
      /\ UNCHANGED <<variant, key_pair, received_pk, sent, received>>
  BY DEF FinishDecapsulate, InCall, Sampled, Multiplied, Encrypted
<1>2. CallInv'
  BY <1>1, NotInCall DEF InCall, KemInv, CallInv, StageInv
<1>3. /\ call = "decapsulate" /\ Decapsulating /\ public_key = pk
      /\ e = CipherOf(pk, message) /\ shared_secret = Coins(pk, message)[1]
  BY <1>1 DEF KemInv, CallInv, StageInv, StartInv, CipherInv, WorldInv, ReceivedInv,
              Decapsulating, Encrypted
<1>4. /\ key_pair = [pk |-> pk, sk |-> HonestSecretKey(v)]
      /\ DOMAIN secrets = {"encapsulated", "decapsulated"}
      /\ received.sk \in AcceptedSecretKeys(v)
      /\ c \in CiphertextsReceived(sent)
      /\ message = decrypt(c, ProductOfU(received.sk.s, c))
  BY <1>1, <1>3 DEF KemInv, WorldInv, KeyInv, SentInv, ReceivedInv
<1>5. PICK m : SentFor(m)
  BY <1>3 DEF KemInv, WorldInv, SentInv
<1>6. /\ ProperMessage(m) /\ received_pk \in AcceptedKeys(v)
      /\ sent = CipherOf(received_pk, m)
      /\ secrets.encapsulated = KdfOf(v, Coins(received_pk, m)[1], sent)
  BY <1>5 DEF SentFor
<1>7. Intact <=> received_pk = pk /\ c = sent /\ received.sk # ChangedSecretKey(v)
  BY <1>4, <1>6, IntactIs
<1> HIDE DEF pk
<1>8. c = e => c = sent /\ received_pk = pk /\ m = message
  <2> SUFFICES ASSUME c = e PROVE c = sent /\ received_pk = pk /\ m = message
    OBVIOUS
  <2>1. c = sent
    BY <1>3, <1>4, <1>6, ChangeShows DEF CipherOf
  <2> QED
    BY <1>3, <1>6, <2>1, EncryptionsDiffer
<1>9. c = sent /\ received_pk = pk /\ received.sk # ChangedSecretKey(v) => message = m
  <2> SUFFICES ASSUME c = sent, received_pk = pk, received.sk # ChangedSecretKey(v)
               PROVE  message = m
    OBVIOUS
  <2>1. received.sk.s = SecretOf(SecretTerms(v))
    BY <1>4 DEF AcceptedSecretKeys, HonestSecretKey, ChangedRejection, SecretKeyOf
  <2> QED
    BY <1>4, <1>6, <2>1, DecapsulatesRight DEF pk
<1>10. c = sent /\ received_pk = pk /\ received.sk = ChangedSecretKey(v) => message # m
  <2> SUFFICES ASSUME c = sent, received_pk = pk, received.sk = ChangedSecretKey(v)
               PROVE  message # m
    OBVIOUS
  <2>1. received.sk.s = SecretOf(ChangedSecretTerms(v))
    BY DEF ChangedSecretKey, SecretKeyOf
  <2>2. \E p : message = <<"undecodable", p>>
    BY <1>4, <1>6, <2>1, DecapsulatesRight DEF pk
  <2> QED
    BY <1>6, <2>2 DEF ProperMessage
<1>11. Intact <=> c = e
  BY <1>3, <1>6, <1>7, <1>8, <1>9, <1>10
<1>12. secrets'.decapsulated = IF c = e THEN good ELSE bad
  <2>1. DOMAIN c = {"u", "v"} /\ c = [u |-> c.u, v |-> c.v]
    BY <1>4, <1>6, PartsShape DEF CipherOf
  <2>2. DOMAIN e = {"u", "v"} /\ e = [u |-> e.u, v |-> e.v]
    BY <1>3 DEF CipherOf, CipherParts
  <2>3. secrets' = [secrets EXCEPT !.decapsulated =
          compare_ciphertexts_select_shared_secret_in_constant_time(
            c, e, kdf(shared_secret, c), kdf(RejectionSecret, c))]
    BY DEF FinishDecapsulate
  <2>4. kdf(shared_secret, c) = good /\ kdf(RejectionSecret, c) = bad
    BY <1>3 DEF kdf, KdfOf, RejectionSecret
  <2> HIDE DEF c, e, good, bad
  <2>5. compare_ciphertexts_select_shared_secret_in_constant_time(
          c, e, kdf(shared_secret, c), kdf(RejectionSecret, c)) = IF c = e THEN good ELSE bad
    BY <2>1, <2>2, <2>4, CompareIs
  <2> QED
    BY <1>4, <2>3, <2>5
<1>13. secrets'.encapsulated = secrets.encapsulated
  BY <1>4 DEF FinishDecapsulate
<1>14. bad # KdfOf(v, Coins(received_pk, m)[1], sent)
  BY DEF KdfOf, Coins, G, PRF
<1>15. Intact' <=> Intact
  BY <1>1 DEF Intact
<1> HIDE DEF e, good, bad
<1>16. Intact <=> secrets'.decapsulated = secrets'.encapsulated
  <2>1. CASE Intact
    <3>1. message = m /\ received_pk = pk /\ c = sent
      BY <1>7, <1>9, <2>1
    <3>2. good = secrets.encapsulated
      BY <1>6, <3>1 DEF good
    <3> QED
      BY <1>11, <1>12, <1>13, <2>1, <3>2
  <2>2. CASE ~Intact
    BY <1>6, <1>11, <1>12, <1>13, <1>14, <2>2
  <2> QED
    BY <2>1, <2>2
<1>17. Agreement'
  BY <1>15, <1>16 DEF Agreement
<1>18. ImplicitRejection'
  <2>1. kdf(PRF(<<received.sk.z, received.ciphertext>>), received.ciphertext)' = bad
    BY <1>1 DEF kdf, KdfOf, bad
  <2>2. ~Intact => secrets'.decapsulated = bad
    BY <1>11, <1>12
  <2> QED
    BY <1>1, <1>15, <2>1, <2>2 DEF ImplicitRejection
<1>19. KeyInv' /\ ReceivedKeyInv' /\ ReceivedInv'
  BY <1>1, <1>4 DEF KeyInv, ReceivedKeyInv, ReceivedInv, Encapsulating, Decapsulating, pk
<1>20. SentInv'
  <2>1. DOMAIN secrets' = {"encapsulated", "decapsulated"}
    BY <1>4 DEF FinishDecapsulate
  <2> QED
    BY <1>1, <2>1 DEF SentInv, Decapsulating
<1> QED
  BY <1>2, <1>17, <1>18, <1>19, <1>20 DEF KemInv, WorldInv

LEMMA KemStep == KemInv /\ [Next]_vars => KemInv'
<1> SUFFICES ASSUME KemInv, [Next]_vars PROVE KemInv'
  OBVIOUS
<1>1. CASE GenerateKeypair
  BY <1>1, GenerateStep
<1>2. CASE \/ SampleVector \/ SampleError \/ SampleError2
           \/ FirstRowOfT \/ OtherRowOfT \/ FirstRowOfU \/ OtherRowOfU
           \/ CompressU \/ RingElementV
  BY <1>2, InCallStep
<1>3. CASE SerializeKeys
  BY <1>3, SerializeStep
<1>4. ASSUME NEW pk \in PublicKeysReceived(key_pair.pk), ReceivePublicKey(pk) PROVE KemInv'
  BY <1>4, ReceivePublicKeyStep
<1>5. ASSUME NEW r \in Randomness, Encapsulate(<<"randomness", r>>) PROVE KemInv'
  BY <1>5, EncapsulateStep
<1>6. CASE FinishEncapsulate
  BY <1>6, FinishEncapsulateStep
<1>7. ASSUME NEW sk \in PrivateKeysReceived(key_pair.sk), NEW c \in CiphertextsReceived(sent),
             ReceiveCiphertext(sk, c)
      PROVE  KemInv'
  BY <1>7, ReceiveCiphertextStep
<1>8. CASE Decapsulate
  BY <1>8, DecapsulateStep
<1>9. CASE FinishDecapsulate
  BY <1>9, FinishDecapsulateStep
<1>10. CASE UNCHANGED vars
  <2>1. CallInv'
    <3>1. /\ variant' = variant /\ pc' = pc /\ call' = call
          /\ prf_input' = prf_input /\ domain_separator' = domain_separator
          /\ seed_for_A' = seed_for_A /\ matrix' = matrix
          /\ factor' = factor /\ error' = error /\ error_2' = error_2
          /\ result' = result /\ cache' = cache /\ accumulator' = accumulator /\ row' = row
          /\ public_key' = public_key /\ message' = message
          /\ shared_secret' = shared_secret /\ ciphertext' = ciphertext
      BY <1>10 DEF vars, memory
    <3>2. InCall' = InCall
      BY <3>1 DEF InCall
    <3>3. StageInv'
      BY <3>1, <3>2 DEF KemInv, CallInv, StageInv
    <3>4. StartInv'
      BY <3>1, <3>2 DEF KemInv, CallInv, StartInv
    <3>5. SampleInv'
      BY <3>1, <3>2 DEF KemInv, CallInv, SampleInv
    <3>6. RowInv'
      BY <3>1 DEF KemInv, CallInv, RowInv
    <3>7. CipherInv'
      BY <3>1 DEF KemInv, CallInv, CipherInv
    <3> QED
      BY <3>3, <3>4, <3>5, <3>6, <3>7 DEF CallInv
  <2>2. WorldInv'
    BY <1>10 DEF KemInv, WorldInv, KeyInv, ReceivedKeyInv, SentInv, SentFor, ReceivedInv, InCall,
                 Encapsulating, Decapsulating, vars, memory, world
  <2>3. Agreement' /\ ImplicitRejection'
    BY <1>10 DEF KemInv, Agreement, ImplicitRejection, Intact, kdf, vars, world
  <2> QED
    BY <2>1, <2>2, <2>3 DEF KemInv
<1> QED
  BY <1>1, <1>2, <1>3, <1>4, <1>5, <1>6, <1>7, <1>8, <1>9, <1>10, Zenon DEF Next

LEMMA KemBegins == Init => KemInv
<1> SUFFICES ASSUME Init PROVE KemInv
  OBVIOUS
<1>1. CallInv
  BY DEF Init, CallInv, StageInv, StartInv, SampleInv, RowInv, CipherInv, InCall,
         Sampled, Multiplied, Encrypted
<1>2. WorldInv
  BY DEF Init, WorldInv, KeyInv, ReceivedKeyInv, SentInv, ReceivedInv, InCall,
         Encapsulating, Decapsulating, Sampled, Multiplied, Encrypted
<1> QED
  BY <1>1, <1>2 DEF Init, KemInv, Agreement, ImplicitRejection

(***************************************************************************)
(* Through key generation, encapsulation and decapsulation, memory holds the   *)
(* polynomials that the samplers and the matrix say it does, what is in transit *)
(* is what was made of them or an accepted change of it, and the outcome is     *)
(* agreement or rejection (ind_cca.rs 186-511, ind_cpa.rs, matrix.rs).          *)
(***************************************************************************)
THEOREM KemInvariant == Spec => []KemInv
BY KemBegins, KemStep, PTL DEF Spec

(***************************************************************************)
(* The shared secrets are equal when keys and ciphertext arrive as they were    *)
(* made, and only then: s*u taken from v leaves the message and the noise,      *)
(* re-encryption tells every change (ind_cca.rs 263-511, ind_cpa.rs 556-953).   *)
(***************************************************************************)
THEOREM Agrees == Spec => []Agreement
<1>1. KemInv => Agreement
  BY DEF KemInv
<1> QED
  BY <1>1, KemInvariant, PTL

(***************************************************************************)
(* Whatever was changed, of the ciphertext or of either key, decapsulation      *)
(* answers with a secret of z and the ciphertext alone (ind_cca.rs 433-511).    *)
(***************************************************************************)
THEOREM Rejects == Spec => []ImplicitRejection
<1>1. KemInv => ImplicitRejection
  BY DEF KemInv
<1> QED
  BY <1>1, KemInvariant, PTL

-----------------------------------------------------------------------------
(* NoiseFresh, for every rank, variant and message. *)

(* The n-th polynomial sampled by a call has the separator n, counted from 0. *)
NoiseInv ==
  /\ domain_separator \in Nat
  /\ prf_inputs \in Seq({prf_input} \X Nat)
  /\ \A n \in 1 .. Len(prf_inputs) : prf_inputs[n] = <<prf_input, n - 1>>
  /\ pc \in {"vector", "error", "error_2"} => Len(prf_inputs) = domain_separator

LEMMA SeparatorsCount ==
  ASSUME NEW seed, NEW old \in Seq({seed} \X Nat), NEW new \in Seq({seed} \X Nat),
         \A n \in 1 .. Len(old) : old[n] = <<seed, n - 1>>,
         \A n \in 1 .. Len(new) : new[n] = <<seed, Len(old) + n - 1>>
  PROVE  /\ old \o new \in Seq({seed} \X Nat)
         /\ Len(old \o new) = Len(old) + Len(new)
         /\ \A n \in 1 .. Len(old \o new) : (old \o new)[n] = <<seed, n - 1>>
<1>1. old \o new \in Seq({seed} \X Nat) /\ Len(old \o new) = Len(old) + Len(new)
  OBVIOUS
<1>2. ASSUME NEW n \in 1 .. Len(old \o new) PROVE (old \o new)[n] = <<seed, n - 1>>
  <2>1. CASE n <= Len(old)
    <3>1. (old \o new)[n] = old[n]
      BY <2>1
    <3> QED
      BY <3>1, <2>1
  <2>2. CASE ~(n <= Len(old))
    <3>1. n - Len(old) \in 1 .. Len(new) /\ (old \o new)[n] = new[n - Len(old)]
      BY <1>1, <2>2
    <3>2. Len(old) + (n - Len(old)) - 1 = n - 1
      OBVIOUS
    <3> QED
      BY <3>1, <3>2
  <2> QED
    BY <2>1, <2>2
<1> QED
  BY <1>1, <1>2

(* A vector of K polynomials, from the separator that is next. *)
LEMMA VectorInputs ==
  ASSUME NEW seed, NEW separator \in Nat
  PROVE  LET new == InOrder(prf_input_inc(seed, separator)) IN
           /\ new \in Seq({seed} \X Nat) /\ Len(new) = K
           /\ \A n \in 1 .. Len(new) : new[n] = <<seed, separator + n - 1>>
<1> DEFINE new == InOrder(prf_input_inc(seed, separator))
<1>1. K \in Nat
  BY KAssumption
<1>2. new = [n \in 1 .. K |-> <<seed, separator + n - 1>>]
  <2>1. \A n \in 1 .. K : n - 1 \in Ranks /\ separator + (n - 1) = separator + n - 1
    BY <1>1 DEF Ranks
  <2> QED
    BY <2>1 DEF InOrder, prf_input_inc
<1> HIDE DEF new
<1>3. \A n \in 1 .. K : <<seed, separator + n - 1>> \in {seed} \X Nat
  BY <1>1
<1>4. new \in Seq({seed} \X Nat) /\ Len(new) = K
  BY <1>1, <1>2, <1>3
<1> QED
  BY <1>2, <1>4 DEF new

LEMMA AppendIs ==
  ASSUME NEW S, NEW s \in Seq(S), NEW x \in S
  PROVE  Append(s, x) = s \o <<x>>
OBVIOUS

LEMMA NoiseStep == NoiseInv /\ [Next]_vars => NoiseInv'
<1> SUFFICES ASSUME NoiseInv, [Next]_vars PROVE NoiseInv'
  OBVIOUS
<1>k. K \in Nat
  BY KAssumption
<1>1. ASSUME prf_inputs' = << >>, domain_separator' = 0 PROVE NoiseInv'
  BY <1>1 DEF NoiseInv
<1>2. ASSUME UNCHANGED <<prf_input, domain_separator, prf_inputs>>,
             pc' \notin {"vector", "error", "error_2"}
      PROVE  NoiseInv'
  BY <1>2 DEF NoiseInv
<1>3. CASE GenerateKeypair
  BY <1>1, <1>3 DEF GenerateKeypair, FreshMemory
<1>4. ASSUME NEW new, new = InOrder(prf_input_inc(prf_input, domain_separator)),
             pc \in {"vector", "error"}, prf_inputs' = prf_inputs \o new,
             domain_separator' = domain_separator + K, prf_input' = prf_input
      PROVE  NoiseInv'
  <2>1. /\ new \in Seq({prf_input} \X Nat) /\ Len(new) = K
        /\ \A n \in 1 .. Len(new) : new[n] = <<prf_input, domain_separator + n - 1>>
    BY <1>4, VectorInputs DEF NoiseInv
  <2>2. Len(prf_inputs) = domain_separator
    BY <1>4 DEF NoiseInv
  <2>3. /\ prf_inputs \o new \in Seq({prf_input} \X Nat)
        /\ Len(prf_inputs \o new) = domain_separator + K
        /\ \A n \in 1 .. Len(prf_inputs \o new) : (prf_inputs \o new)[n] = <<prf_input, n - 1>>
    BY <2>1, <2>2, SeparatorsCount, ZenonT(30) DEF NoiseInv
  <2> QED
    BY <1>k, <1>4, <2>3, SMTT(30) DEF NoiseInv
<1>5. CASE SampleVector
  BY <1>4, <1>5 DEF SampleVector
<1>6. CASE SampleError
  BY <1>4, <1>6 DEF SampleError, ErrorSeparator
<1>7. CASE SampleError2
  <2> DEFINE new == << <<prf_input, domain_separator>> >>
  <2>1. Len(prf_inputs) = domain_separator /\ domain_separator \in Nat
    BY <1>7 DEF SampleError2, NoiseInv
  <2>2. /\ new \in Seq({prf_input} \X Nat) /\ Len(new) = 1
        /\ \A n \in 1 .. Len(new) : new[n] = <<prf_input, domain_separator + n - 1>>
    BY <2>1
  <2>3. prf_inputs' = prf_inputs \o new
    <3>1. <<prf_input, domain_separator>> \in {prf_input} \X Nat
      BY <2>1
    <3> QED
      BY <1>7, <3>1, AppendIs, Zenon DEF SampleError2, NoiseInv
  <2> HIDE DEF new
  <2>4. /\ prf_inputs' \in Seq({prf_input} \X Nat)
        /\ \A n \in 1 .. Len(prf_inputs') : prf_inputs'[n] = <<prf_input, n - 1>>
    BY <2>1, <2>2, <2>3, SeparatorsCount DEF NoiseInv
  <2> QED
    BY <1>7, <2>1, <2>4 DEF SampleError2, NoiseInv
<1>8. CASE FirstRowOfT \/ OtherRowOfT \/ FirstRowOfU \/ OtherRowOfU
  BY <1>2, <1>8 DEF FirstRowOfT, OtherRowOfT, AsPlusE, FirstRowOfU, OtherRowOfU, VectorU
<1>9. CASE SerializeKeys \/ CompressU \/ RingElementV \/ FinishEncapsulate \/ FinishDecapsulate
  BY <1>2, <1>9 DEF SerializeKeys, CompressU, RingElementV, FinishEncapsulate, FinishDecapsulate,
                    memory
<1>10. ASSUME NEW pk, ReceivePublicKey(pk) PROVE NoiseInv'
  BY <1>2, <1>10 DEF ReceivePublicKey, memory
<1>11. ASSUME NEW randomness, Encapsulate(randomness) PROVE NoiseInv'
  BY <1>1, <1>11 DEF Encapsulate, StartEncrypt, FreshMemory
<1>12. ASSUME NEW sk, NEW c, ReceiveCiphertext(sk, c) PROVE NoiseInv'
  BY <1>2, <1>12 DEF ReceiveCiphertext, memory
<1>13. CASE Decapsulate
  BY <1>1, <1>13 DEF Decapsulate, StartEncrypt, FreshMemory
<1>14. CASE UNCHANGED vars
  BY <1>14 DEF vars, memory, NoiseInv
<1> QED
  BY <1>3, <1>5, <1>6, <1>7, <1>8, <1>9, <1>10, <1>11, <1>12, <1>13, <1>14 DEF Next

(***************************************************************************)
(* No two polynomials of a call come from one PRF input, for every rank: the   *)
(* separator counts them through the three samplers (ind_cpa.rs 285-315,       *)
(* 668-704).                                                                   *)
(***************************************************************************)
THEOREM NoiseIsFresh == Spec => []NoiseFresh
<1>1. Init => NoiseInv
  BY DEF Init, NoiseInv
<1>2. NoiseInv => NoiseFresh
  <2> SUFFICES ASSUME NoiseInv,
                      NEW i \in DOMAIN prf_inputs, NEW j \in DOMAIN prf_inputs,
                      prf_inputs[i] = prf_inputs[j]
               PROVE  i = j
    BY DEF NoiseFresh
  <2>1. i \in 1 .. Len(prf_inputs) /\ j \in 1 .. Len(prf_inputs)
    BY DEF NoiseInv
  <2>2. <<prf_input, i - 1>> = <<prf_input, j - 1>>
    BY <2>1 DEF NoiseInv
  <2> QED
    BY <2>1, <2>2
<1> QED
  BY <1>1, <1>2, NoiseStep, PTL DEF Spec
=============================================================================
