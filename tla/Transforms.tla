----------------------------- MODULE Transforms -----------------------------
(***************************************************************************)
(* The transforms and products of both schemes: a behaviour is one caller of  *)
(* one scheme.  What a row must give is computed on polynomials,    *)
(* where a product of monomials is a monomial.                                *)
(***************************************************************************)
EXTENDS Integers, Sequences

CONSTANTS Rank, Rows, Columns, MlKemFlows, MlDsaFlows, MlKemExponents, MlDsaExponents

(* The parameter sets have ranks 2 to 4 (mlkem512.rs to mlkem1024.rs) and      *)
(* matrices of 4 by 4, 6 by 5 and 8 by 7 (constants.rs).                       *)
ASSUME TransformsAssumption ==
  /\ Rank \in 1 .. 4 /\ Rows \in 1 .. 8 /\ Columns \in 1 .. 7
  /\ MlKemFlows \subseteq {"keypair", "encrypt", "decrypt"}
  /\ MlDsaFlows \subseteq {"keygen", "sign", "respond", "remainder", "verify"}
  /\ MlKemExponents \cup MlDsaExponents \subseteq 0 .. 255

VARIABLES flow, exponent, phase, row, entry, layer,
          operand, addend, result,                  \* of both: x, t and the rows
          copy, challenge,                         \* of ML-DSA
          zeta_i, cache, accumulator               \* of ML-KEM
shared == <<flow, exponent, phase, row, entry, layer, operand, addend, result>>
mldsa == <<copy, challenge>>
mlkem == <<zeta_i, cache, accumulator>>
transforms == <<shared, mldsa, mlkem>>

K == INSTANCE MlKemNtt WITH Flows <- MlKemFlows, Exponents <- MlKemExponents, e <- exponent,
                            pc <- phase, i <- row, j <- entry, x <- operand, t <- addend
D == INSTANCE MlDsaNtt WITH Flows <- MlDsaFlows, Exponents <- MlDsaExponents, e <- exponent,
                            pc <- phase, i <- row, j <- entry, x <- operand, t <- addend,
                            c <- challenge

TransformsInit ==
  \/ K!Init /\ copy = "unused" /\ challenge = "unused"
  \/ D!Init /\ zeta_i = 0 /\ cache = "unused" /\ accumulator = "unused"

TransformsNext ==
  \/ flow \in MlKemFlows /\ K!Next /\ UNCHANGED mldsa
  \/ flow \in MlDsaFlows /\ D!Next /\ UNCHANGED mlkem

TransformsSpec == TransformsInit /\ [][TransformsNext]_transforms

-----------------------------------------------------------------------------
Add(a, b, q) == [n \in 0 .. 255 |-> (a[n] + b[n]) % q]
Negated(a, q) == [n \in 0 .. 255 |-> (-a[n]) % q]
Total(f, last, q) ==
  LET upTo[n \in 0 .. last] == IF n = 0 THEN f[0] ELSE Add(upTo[n - 1], f[n], q)
  IN  upTo[last]

MlKemRow(r) ==
  LET Polynomial(k) == IF flow = "keypair" THEN K!Values(k) ELSE K!Monomial(k, 0).v
      products == Total([n \in 0 .. Rank - 1 |->
                           Polynomial(K!ExponentOfA(r, n) + K!ExponentOfX(n))], Rank - 1, K!q)
      added == Polynomial(K!ExponentOfT(r))
      message == IF flow = "encrypt" /\ r = Rank THEN Polynomial(K!ExponentOfMessage) ELSE K!ZERO.v
  IN  IF flow = "decrypt" THEN Add(added, Negated(products, K!q), K!q)
      ELSE Add(Add(products, added, K!q), message, K!q)

MlDsaRow(r) ==
  LET Polynomial(k) == D!Monomial(k, 0).v
      products == Total([n \in 0 .. Columns - 1 |->
                           Polynomial(D!ExponentOfA(r, n) + D!ExponentOfX(n))], Columns - 1, D!q)
      challenged == Polynomial(D!ExponentOfX(r) + D!ExponentOfC)
      t1 == [n \in 0 .. 255 |-> D!Mul(Polynomial(D!ExponentOfT(r) + D!ExponentOfC)[n], 8192)]
      added == Polynomial(D!ExponentOfT(r))
  IN  CASE flow = "keygen" -> Add(added, products, D!q)
        [] flow = "sign" -> products
        [] flow = "verify" -> Add(products, Negated(t1, D!q), D!q)
        [] flow = "respond" -> Add(added, challenged, D!q)
        [] flow = "remainder" -> Add(added, Negated(challenged, D!q), D!q)

(***************************************************************************)
(* Through both transforms and the products, with the factors of R and of     *)
(* 1/256 that the callers put in and take out, every row is the polynomial    *)
(* the scheme asks for: A s + e, the transpose of A times r plus the errors   *)
(* and the message, v - s u, A s1 + s2, A y, y + c s1, w0 - c s2 and          *)
(* A z - c t1 2^13 (matrix.rs of ml-kem and ml-dsa).  Each zeta of the        *)
(* unrolled layers, the running index and the cache must be right for it.     *)
(***************************************************************************)
ProductsRight ==
  phase = "done" =>
    IF flow \in MlKemFlows
    THEN \A r \in DOMAIN result : result[r].v = MlKemRow(r)
    ELSE \A r \in DOMAIN result : result[r].v = MlDsaRow(r)

(***************************************************************************)
(* Whatever the coefficients, no sum, product or argument of a reduction      *)
(* leaves its 16 or 32 bits, nor ML-KEM's Barrett reduction the 28296 of its  *)
(* comment: the code reduces often enough between layers, rows and callers,   *)
(* and what a caller gets back is below q in absolute value, as the rounding, *)
(* the norm checks and the encodings need it.                                 *)
(***************************************************************************)
RangesKept ==
  /\ \A s \in {operand, addend, result} : \A n \in DOMAIN s :
       s[n].m <= IF flow \in MlKemFlows THEN 32767 ELSE D!MaxI32 - 1
  /\ flow \in MlKemFlows =>
       accumulator.m < K!MaxI32 /\ \A n \in DOMAIN cache : cache[n].m <= 32767
  /\ phase = "done" =>
       \A r \in DOMAIN result :
         result[r].m < IF flow \in MlKemFlows THEN K!q ELSE D!q
=============================================================================
