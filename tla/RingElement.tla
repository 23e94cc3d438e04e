---------------------------- MODULE RingElement ----------------------------
(***************************************************************************)
(* Ring elements of ML-KEM as formal polynomials                            *)
(* (libcrux-iot/ml-kem/src/polynomial.rs, ntt.rs, invert_ntt.rs and the       *)
(* multiplications of vector/portable/ntt.rs).                               *)
(*                                                                         *)
(* What was sampled is an atom; a value is a sum of products of atoms, so an  *)
(* equation holds here exactly when it holds for every outcome of sampling.   *)
(* An element also says how its 256 coefficients stand for the value: in the  *)
(* NTT domain or not, times which power of Montgomery's R and of 128 (the     *)
(* factor a fast inverse NTT leaves).  Whatever mixes two ways of standing    *)
(* gets the atom Garbled: no value a later step could make sense of.          *)
(***************************************************************************)
EXTENDS Integers, FiniteSets, FiniteSetsExt

(* Terms: from monomials, sets of atoms, to their nonzero coefficients. *)
Zero == [m \in {} |-> 0]
Atom(a) == [m \in {{a}} |-> 1]
Garbled == Atom(<<"garbled">>)

Coefficient(p, m) == IF m \in DOMAIN p THEN p[m] ELSE 0
Collect(S, c(_)) == [m \in {n \in S : c(n) # 0} |-> c(m)]

Plus(p, q) == Collect(DOMAIN p \cup DOMAIN q, LAMBDA m : Coefficient(p, m) + Coefficient(q, m))
Minus(p, q) == Collect(DOMAIN p \cup DOMAIN q, LAMBDA m : Coefficient(p, m) - Coefficient(q, m))
Times(p, q) ==
  LET pairs == (DOMAIN p) \X (DOMAIN q) IN
  Collect({x[1] \cup x[2] : x \in pairs},
          LAMBDA m : MapThenSumSet(LAMBDA x : p[x[1]] * q[x[2]],
                                   {x \in pairs : x[1] \cup x[2] = m}))

-----------------------------------------------------------------------------
(* Elements *)

Element(terms) == [domain |-> "normal", r |-> 0, n |-> 0, terms |-> terms]
ElementNtt(terms) == [Element(terms) EXCEPT !.domain = "ntt"]
ZERO == Element(Zero)

Alike(a, b) ==
  \/ a.terms = Zero \/ b.terms = Zero
  \/ a.domain = b.domain /\ a.r = b.r /\ a.n = b.n

Join(a, b, terms) ==
  [(IF a.terms = Zero THEN b ELSE a)
     EXCEPT !.terms = IF Alike(a, b) THEN terms ELSE Plus(terms, Garbled)]

Sum2(a, b) == Join(a, b, Plus(a.terms, b.terms))

(* The value the coefficients spell out when read in that domain.     *)
Value(e, domain) ==
  IF e.terms = Zero \/ (e.domain = domain /\ e.r = 0 /\ e.n = 0)
    THEN e.terms
    ELSE Plus(e.terms, Garbled)

(* Transforms.  The one for sampled elements leaves out the reductions that  *)
(* any but a small element would need.                                       *)
ntt_binomially_sampled_ring_element(e) ==
  IF \A m \in DOMAIN e.terms : \A a \in m : a[1] = "prf"
    THEN ElementNtt(Value(e, "normal"))
    ELSE ElementNtt(Plus(e.terms, Garbled))
ntt_vector_u(e) == ElementNtt(Value(e, "normal"))

invert_ntt_montgomery(e) ==
  [domain |-> "normal", r |-> e.r, n |-> e.n + 1,
   terms |-> IF e.domain = "ntt" \/ e.terms = Zero THEN e.terms ELSE Plus(e.terms, Garbled)]

(* Products, summed in an accumulator of 32-bit coefficients.  The cache of   *)
(* `rhs' is its odd coefficients times the zetas, so that of another element  *)
(* spoils the product.                                                       *)
Product(lhs, rhs) ==
  [domain |-> "ntt", r |-> lhs.r + rhs.r, n |-> lhs.n + rhs.n,
   terms |-> IF lhs.domain = "ntt" /\ rhs.domain = "ntt"
            THEN Times(lhs.terms, rhs.terms) ELSE Garbled]

accumulating_ntt_multiply(lhs, rhs, accumulator) == Sum2(accumulator, Product(lhs, rhs))

CacheOf(rhs) == rhs
accumulating_ntt_multiply_use_cache(lhs, rhs, accumulator, cache) ==
  LET product == Product(lhs, rhs) IN
  Sum2(accumulator,
       IF cache = CacheOf(rhs) THEN product
                               ELSE [product EXCEPT !.terms = Plus(@, Garbled)])

reducing_from_i32_array(accumulator) == [accumulator EXCEPT !.r = @ - 1]

(* montgomery_multiply_by_constant(1441): 1441 is R^2 / 128. *)
TimesROver128(e) == [domain |-> e.domain, r |-> e.r + 1, n |-> e.n - 1, terms |-> e.terms]
to_standard_domain(e) == [e EXCEPT !.r = @ + 1]

add_error_reduce(self, error) == Sum2(TimesROver128(self), error)
add_standard_error_reduce(self, error) == Sum2(to_standard_domain(self), error)
add_message_error_reduce(self, message, result) ==
  Sum2(TimesROver128(result), Sum2(self, message))
subtract_reduce(self, b) ==
  LET d == TimesROver128(b) IN Join(self, d, Minus(self.terms, d.terms))
=============================================================================
