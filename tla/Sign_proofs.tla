---------------------------- MODULE Sign_proofs ----------------------------
(***************************************************************************)
(* The loop of signing, for every number of columns and of attempts, and       *)
(* every hint: fresh masks, one acceptance, failure only at the bound, and      *)
(* the one encoding of the hint in a buffer that was zeroed.                    *)
(***************************************************************************)
EXTENDS Sign, FiniteSetTheorems, TLAPS

Phases == {"context", "loop", "mask", "serialize", "done"}

(* The mask polynomials sampled so far. *)
Sampled == IF pc = "mask" THEN (tries - 1) * COLUMNS + column ELSE tries * COLUMNS

TypeInv ==
  /\ pc \in Phases
  /\ tries \in 0 .. BOUND
  /\ column \in Nat
  /\ attempt \in Nat
  /\ domain_separator \in Nat

(* The Options are filled together, and end the loop. *)
OptionsInv ==
  /\ hint = None => commitment_hash = None /\ signer_response = None /\ attempt = tries
  /\ hint # None => commitment_hash # None /\ signer_response # None /\ attempt = BOUND

PhaseInv ==
  /\ pc = "context" => tries = 0 /\ hint = None
  /\ pc = "mask" => hint = None /\ tries >= 1 /\ 4 <= column /\ column <= COLUMNS
  /\ pc = "serialize" => hint # None
  /\ result \in {"none", "ContextTooLongError", "RejectionSamplingError", "Ok"}
  /\ result = "RejectionSamplingError" => pc = "done" /\ tries = BOUND /\ hint = None
  /\ result # "none" => pc = "done"

(* The separators count the polynomials. *)
MaskInv ==
  /\ used \in Seq(Nat)
  /\ Len(used) = Sampled
  /\ \A k \in 1 .. Len(used) : used[k] = k - 1
  /\ domain_separator = Sampled % U16

LoopInv == TypeInv /\ OptionsInv /\ PhaseInv /\ MaskInv

-----------------------------------------------------------------------------
LEMMA ConstantsAre ==
  /\ COLUMNS \in Nat /\ COLUMNS >= 4 /\ BOUND \in Nat /\ BOUND >= 1
  /\ U16 \in Nat /\ BOUND * COLUMNS <= U16 /\ U16 >= 4
<1>1. COLUMNS \in Nat /\ COLUMNS >= 4 /\ BOUND \in Nat /\ BOUND >= 1
      /\ U16 \in Nat /\ BOUND * COLUMNS <= U16
  BY SignAssumption
<1>2. BOUND * COLUMNS >= COLUMNS
  BY <1>1, SMT
<1>3. BOUND * COLUMNS \in Nat
  BY <1>1, SMT
<1> QED
  BY <1>1, <1>2, <1>3, SMT

LEMMA ModIs ==
  ASSUME NEW a \in Nat, a < U16
  PROVE  a % U16 = a
BY ConstantsAre, SMT

(* Attempts below the bound leave room for a mask more. *)
LEMMA Room ==
  ASSUME NEW n \in Nat, n < BOUND, NEW k \in 0 .. COLUMNS - 1
  PROVE  n * COLUMNS \in Nat /\ n * COLUMNS + k \in Nat /\ n * COLUMNS + k < U16
         /\ (n + 1) * COLUMNS = n * COLUMNS + COLUMNS
<1>1. n * COLUMNS \in Nat
  BY ConstantsAre, SMT
<1>2. (n + 1) * COLUMNS = n * COLUMNS + COLUMNS
  BY ConstantsAre, SMT
<1>3. (n + 1) * COLUMNS <= BOUND * COLUMNS
  BY ConstantsAre, SMT
<1>4. BOUND * COLUMNS \in Nat
  BY ConstantsAre, SMT
<1> QED
  BY <1>1, <1>2, <1>3, <1>4, ConstantsAre, SMT

(* What n polynomials more do, where none of them makes the separator wrap.     *)
LEMMA SeparatorsCount ==
  ASSUME NEW n \in {1, 4}, NEW old \in Seq(Nat), NEW ds \in Nat,
         Len(old) = ds, \A k \in 1 .. Len(old) : old[k] = k - 1,
         ds + n - 1 < U16, ds = domain_separator
  PROVE  /\ old \o Separators(n) \in Seq(Nat)
         /\ Len(old \o Separators(n)) = ds + n
         /\ \A k \in 1 .. ds + n : (old \o Separators(n))[k] = k - 1
<1> DEFINE new == Separators(n)
<1>1. \A k \in 1 .. n : (ds + k - 1) % U16 = ds + k - 1
  <2> SUFFICES ASSUME NEW k \in 1 .. n PROVE (ds + k - 1) % U16 = ds + k - 1
    OBVIOUS
  <2>1. ds + k - 1 \in Nat /\ ds + k - 1 < U16
    BY ConstantsAre
  <2> QED
    BY <2>1, ModIs
<1>2. new = [k \in 1 .. n |-> ds + k - 1]
  BY <1>1 DEF Separators
<1>3. new \in Seq(Nat) /\ Len(new) = n
  BY <1>2
<1> HIDE DEF new
<1>4. old \o new \in Seq(Nat) /\ Len(old \o new) = ds + n
  BY <1>3
<1>5. ASSUME NEW k \in 1 .. ds + n PROVE (old \o new)[k] = k - 1
  <2>1. CASE k <= ds
    BY <1>3, <2>1
  <2>2. CASE ~(k <= ds)
    <3>1. k - ds \in 1 .. n
      BY <2>2
    <3>2. (old \o new)[k] = new[k - ds]
      BY <1>3, <2>2
    <3> QED
      BY <1>2, <3>1, <3>2
  <2> QED
    BY <2>1, <2>2
<1> QED
  BY <1>4, <1>5 DEF new

LEMMA LoopInit == Init => LoopInv
BY ConstantsAre, SMT
   DEF Init, LoopInv, TypeInv, OptionsInv, PhaseInv, MaskInv, Sampled, Phases, None

-----------------------------------------------------------------------------
(* The invariant, one action at a time *)

LEMMA SampleFourInv ==
  ASSUME LoopInv, SampleFour PROVE LoopInv'
<1>1. /\ pc = "loop" /\ attempt < BOUND /\ attempt' = attempt + 1 /\ tries' = tries + 1
      /\ used' = used \o Separators(4) /\ domain_separator' = (domain_separator + 4) % U16
      /\ column' = 4 /\ pc' = "mask" /\ UNCHANGED <<options, result>>
  BY DEF SampleFour
<1>2. tries \in Nat /\ hint = None /\ attempt = tries /\ tries < BOUND
  BY <1>1, ConstantsAre DEF LoopInv, TypeInv, OptionsInv
<1>3. /\ tries * COLUMNS \in Nat /\ tries * COLUMNS + 3 < U16
      /\ tries * COLUMNS + 0 < U16
  BY <1>2, ConstantsAre, Room
<1>4. Sampled = tries * COLUMNS /\ domain_separator = tries * COLUMNS
  BY <1>1, <1>3, ModIs DEF LoopInv, MaskInv, Sampled
<1>5. used \in Seq(Nat) /\ Len(used) = tries * COLUMNS /\ \A k \in 1 .. Len(used) : used[k] = k - 1
  BY <1>4 DEF LoopInv, MaskInv
<1> DEFINE n == tries * COLUMNS
<1>6. /\ used' \in Seq(Nat) /\ Len(used') = n + 4
      /\ \A k \in 1 .. n + 4 : used'[k] = k - 1
  <2>1. n \in Nat /\ Len(used) = n /\ n + 4 - 1 < U16 /\ n = domain_separator
    BY <1>3, <1>4, <1>5
  <2> HIDE DEF n
  <2> QED
    BY <1>1, <1>5, <2>1, SeparatorsCount
<1>7. Sampled' = n + 4
  <2>1. Sampled' = (tries' - 1) * COLUMNS + column'
    BY <1>1 DEF Sampled
  <2>2. tries' - 1 = tries /\ column' = 4
    BY <1>1, <1>2
  <2> QED
    BY <2>1, <2>2
<1>8. MaskInv'
  BY <1>1, <1>4, <1>6, <1>7 DEF MaskInv
<1>9. TypeInv'
  BY <1>1, <1>2, <1>3, <1>4, ConstantsAre DEF LoopInv, TypeInv, Phases
<1>10. OptionsInv' /\ PhaseInv'
  BY <1>1, <1>2, ConstantsAre DEF LoopInv, OptionsInv, PhaseInv, options
<1> QED
  BY <1>8, <1>9, <1>10 DEF LoopInv

LEMMA SampleOneInv ==
  ASSUME LoopInv, SampleOne PROVE LoopInv'
<1>1. /\ pc = "mask" /\ column < COLUMNS
      /\ used' = used \o Separators(1) /\ domain_separator' = (domain_separator + 1) % U16
      /\ column' = column + 1 /\ UNCHANGED <<pc, attempt, options, result, tries>>
  BY DEF SampleOne
<1>2. /\ tries - 1 \in Nat /\ tries - 1 < BOUND /\ column \in 0 .. COLUMNS - 1
      /\ tries \in 0 .. BOUND /\ 4 <= column
  BY <1>1, ConstantsAre DEF LoopInv, TypeInv, PhaseInv
<1> DEFINE n == (tries - 1) * COLUMNS + column
<1>3. n \in Nat /\ n < U16
  BY <1>2, Room
<1>4. Sampled = n /\ domain_separator = n
  BY <1>1, <1>3, ModIs DEF LoopInv, MaskInv, Sampled
<1>5. used \in Seq(Nat) /\ Len(used) = n /\ \A k \in 1 .. Len(used) : used[k] = k - 1
  BY <1>4 DEF LoopInv, MaskInv
<1>6. /\ used' \in Seq(Nat) /\ Len(used') = n + 1
      /\ \A k \in 1 .. n + 1 : used'[k] = k - 1
  <2>1. n \in Nat /\ n + 1 - 1 < U16 /\ n = domain_separator
    BY <1>3, <1>4
  <2> HIDE DEF n
  <2> QED
    BY <1>1, <1>5, <2>1, SeparatorsCount
<1>7. Sampled' = n + 1
  <2>1. Sampled' = (tries - 1) * COLUMNS + (column + 1) /\ (tries - 1) * COLUMNS \in Nat
    BY <1>1, <1>2, Room DEF Sampled
  <2> QED
    BY <1>2, <2>1
<1>8. MaskInv'
  BY <1>1, <1>4, <1>6, <1>7 DEF MaskInv
<1>9. TypeInv'
  BY <1>1, <1>2, <1>3, <1>4, ConstantsAre DEF LoopInv, TypeInv, Phases
<1>10. OptionsInv' /\ PhaseInv'
  BY <1>1, <1>2, ConstantsAre DEF LoopInv, OptionsInv, PhaseInv, options
<1> QED
  BY <1>8, <1>9, <1>10 DEF LoopInv

(* An attempt that is over has sampled all its columns. *)
LEMMA AttemptOver ==
  ASSUME LoopInv, pc = "mask", column = COLUMNS PROVE Sampled = tries * COLUMNS
<1>1. tries - 1 \in Nat /\ tries - 1 < BOUND
  BY ConstantsAre DEF LoopInv, TypeInv, PhaseInv
<1>2. ((tries - 1) + 1) * COLUMNS = (tries - 1) * COLUMNS + COLUMNS
  BY <1>1, ConstantsAre, Room
<1>3. (tries - 1) + 1 = tries
  BY DEF LoopInv, TypeInv
<1> QED
  BY <1>2, <1>3 DEF Sampled

LEMMA RejectNormInv ==
  ASSUME LoopInv, RejectNorm PROVE LoopInv'
<1>1. Sampled = tries * COLUMNS
  BY AttemptOver DEF RejectNorm
<1> QED
  BY <1>1 DEF RejectNorm, LoopInv, TypeInv, OptionsInv, PhaseInv, MaskInv, Sampled, Phases, options

LEMMA MakeHintInv ==
  ASSUME LoopInv, NEW h, MakeHint(h) PROVE LoopInv'
<1>1. Sampled = tries * COLUMNS
  BY AttemptOver DEF MakeHint
<1>2. /\ pc = "mask" /\ pc' = "loop" /\ tries' = tries /\ used' = used /\ result' = result
      /\ domain_separator' = domain_separator /\ column' = column
  BY DEF MakeHint
<1>3. MaskInv'
  BY <1>1, <1>2 DEF LoopInv, MaskInv, Sampled
<1>4. CASE UNCHANGED <<attempt, options>>
  BY <1>2, <1>3, <1>4 DEF LoopInv, TypeInv, OptionsInv, PhaseInv, Phases, options
<1>5. CASE Accept(h)
  <2>1. /\ hint' = << h >> /\ commitment_hash' = << tries >> /\ signer_response' = << tries >>
        /\ attempt' = BOUND
    BY <1>5 DEF Accept, Some
  <2>2. hint' # None /\ commitment_hash' # None /\ signer_response' # None
    BY <2>1 DEF None
  <2> QED
    BY <1>2, <1>3, <2>1, <2>2, ConstantsAre DEF LoopInv, TypeInv, OptionsInv, PhaseInv, Phases
<1> QED
  BY <1>4, <1>5 DEF MakeHint

LEMMA EndLoopInv ==
  ASSUME LoopInv, EndLoop PROVE LoopInv'
<1>1. /\ pc = "loop" /\ attempt >= BOUND
      /\ UNCHANGED <<attempt, domain_separator, column, options, used, tries>>
      /\ \/ Exhausted /\ result' = "RejectionSamplingError" /\ pc' = "done"
         \/ ~Exhausted /\ result' = result /\ pc' = "serialize"
  BY DEF EndLoop
<1>2. Exhausted => hint = None /\ tries = BOUND
  BY <1>1, ConstantsAre DEF Exhausted, LoopInv, OptionsInv, TypeInv
<1>3. ~Exhausted => hint # None
  BY DEF Exhausted
<1> QED
  BY <1>1, <1>2, <1>3
     DEF LoopInv, TypeInv, OptionsInv, PhaseInv, MaskInv, Sampled, Phases, options

LEMMA OtherInv ==
  ASSUME LoopInv, CheckContext \/ WriteHint \/ EndHintRow \/ UNCHANGED vars PROVE LoopInv'
<1>1. CASE CheckContext
  BY <1>1 DEF CheckContext, LoopInv, TypeInv, OptionsInv, PhaseInv, MaskInv, Sampled, Phases, options
<1>2. CASE WriteHint
  BY <1>2 DEF WriteHint, LoopInv, TypeInv, OptionsInv, PhaseInv, MaskInv, Sampled, Phases, options
<1>3. CASE EndHintRow
  BY <1>3 DEF EndHintRow, LoopInv, TypeInv, OptionsInv, PhaseInv, MaskInv, Sampled, Phases, options
<1>4. CASE UNCHANGED vars
  BY <1>4 DEF vars, LoopInv, TypeInv, OptionsInv, PhaseInv, MaskInv, Sampled, Phases, options
<1> QED
  BY <1>1, <1>2, <1>3, <1>4

LEMMA LoopInductive == Spec => []LoopInv
<1>1. LoopInv /\ [Next]_vars => LoopInv'
  BY SampleFourInv, SampleOneInv, RejectNormInv, MakeHintInv, EndLoopInv, OtherInv DEF Next
<1> QED
  BY LoopInit, <1>1, PTL DEF Spec

-----------------------------------------------------------------------------
(* serialize: what it has written before coefficient c of row r *)

Before(h, r, c) ==
  {p \in Rows \X Coeffs : p[2] \in h[p[1]] /\ (p[1] < r \/ (p[1] = r /\ p[2] < c))}

RowWritten(s, h, r) ==
  RowCanonical(s, r) /\ {s[k] : k \in From(s, r) .. To(s, r) - 1} = h[r]

(* The first n positions are those of the ones before coefficient c of row r.   *)
Written(s, h, r, c, n) ==
  /\ \A q \in Rows : q < r => RowWritten(s, h, q) /\ To(s, q) <= n
  /\ From(s, r) <= n
  /\ \A k \in From(s, r) + 1 .. n - 1 : s[k - 1] < s[k]
  /\ {s[k] : k \in From(s, r) .. n - 1} = {x \in Coeffs : r \in Rows /\ x \in h[r] /\ x < c}
  /\ \A k \in n .. OMEGA - 1 : s[k] = 0

LEMMA SizesAre ==
  /\ COEFFS \in Nat /\ COEFFS >= 1 /\ ROWS \in Nat /\ ROWS >= 1
  /\ OMEGA \in Nat /\ OMEGA < COEFFS
BY HintAssumption

LEMMA OnesFinite ==
  ASSUME NEW h, NEW r, NEW c
  PROVE  /\ IsFiniteSet({p \in Rows \X Coeffs : p[2] \in h[p[1]]})
         /\ IsFiniteSet(Before(h, r, c))
<1>1. IsFiniteSet(Rows) /\ IsFiniteSet(Coeffs)
  BY SizesAre, FS_Interval DEF Rows, Coeffs
<1>2. IsFiniteSet(Rows \X Coeffs)
  BY <1>1, FS_Product
<1>3. /\ {p \in Rows \X Coeffs : p[2] \in h[p[1]]} \subseteq Rows \X Coeffs
      /\ Before(h, r, c) \subseteq Rows \X Coeffs
  BY DEF Before
<1> QED
  BY <1>2, <1>3, FS_Subset

LEMMA BeforeNothing ==
  ASSUME NEW h PROVE Cardinality(Before(h, 0, 0)) = 0
<1>1. Before(h, 0, 0) = {}
  BY SizesAre DEF Before, Rows, Coeffs
<1> QED
  BY <1>1, FS_EmptySet

(* A one more, and still no more than there are. *)
LEMMA BeforeOne ==
  ASSUME NEW h, NEW r \in Rows, NEW c \in Coeffs, c \in h[r]
  PROVE  /\ Cardinality(Before(h, r, c + 1)) = Cardinality(Before(h, r, c)) + 1
         /\ Cardinality(Before(h, r, c + 1)) <= Ones(h)
         /\ Cardinality(Before(h, r, c)) \in Nat /\ Ones(h) \in Nat
<1>1. Before(h, r, c + 1) = Before(h, r, c) \cup {<<r, c>>} /\ <<r, c>> \notin Before(h, r, c)
  BY SizesAre DEF Before, Rows, Coeffs
<1>2. Before(h, r, c + 1) \subseteq {p \in Rows \X Coeffs : p[2] \in h[p[1]]}
  BY DEF Before
<1>3. Cardinality(Before(h, r, c + 1)) = Cardinality(Before(h, r, c)) + 1
  BY <1>1, OnesFinite, FS_AddElement
<1> QED
  BY <1>2, <1>3, OnesFinite, FS_Subset, FS_CardinalityType DEF Ones

LEMMA BeforeOther ==
  ASSUME NEW h, NEW r \in Rows, NEW c \in Coeffs, c \notin h[r]
  PROVE  Before(h, r, c + 1) = Before(h, r, c)
BY SizesAre DEF Before, Rows, Coeffs

LEMMA BeforeRow ==
  ASSUME NEW h, NEW r \in Rows
  PROVE  Before(h, r, COEFFS) = Before(h, r + 1, 0)
BY SizesAre DEF Before, Rows, Coeffs

(* Where the counts are, and what they are. *)
LEMMA FromTo ==
  ASSUME NEW s \in HintBytes, NEW r \in Rows
  PROVE  From(s, r) \in Nat /\ To(s, r) \in Nat /\ From(s, r + 1) = To(s, r)
<1>1. OMEGA + r \in 0 .. OMEGA + ROWS - 1
  BY SizesAre DEF Rows
<1>2. r # 0 => OMEGA + r - 1 \in 0 .. OMEGA + ROWS - 1
  BY SizesAre DEF Rows
<1>3. r + 1 # 0 /\ OMEGA + (r + 1) - 1 = OMEGA + r
  BY SizesAre DEF Rows
<1> QED
  BY <1>1, <1>2, <1>3, SizesAre DEF From, To, HintBytes, U8

(* A row keeps its positions when something is written after them. *)
LEMMA RowKept ==
  ASSUME NEW s \in HintBytes, NEW s2 \in HintBytes, NEW h, NEW q \in Rows, RowWritten(s, h, q),
         From(s2, q) = From(s, q), To(s2, q) = To(s, q),
         \A k \in 0 .. To(s, q) - 1 : s2[k] = s[k]
  PROVE  RowWritten(s2, h, q)
<1>1. From(s, q) \in Nat /\ To(s, q) \in Nat
  BY FromTo
<1>2. \A k \in From(s, q) .. To(s, q) - 1 : s2[k] = s[k]
  BY <1>1
<1>3. \A k \in From(s, q) + 1 .. To(s, q) - 1 : s2[k] = s[k] /\ s2[k - 1] = s[k - 1]
  BY <1>1
<1>4. RowCanonical(s2, q)
  BY <1>3 DEF RowWritten, RowCanonical
<1>5. {s2[k] : k \in From(s2, q) .. To(s2, q) - 1} = {s[k] : k \in From(s, q) .. To(s, q) - 1}
  BY <1>2
<1> QED
  BY <1>4, <1>5 DEF RowWritten

LEMMA WritePosition ==
  ASSUME NEW s \in HintBytes, NEW h, NEW r \in Rows, NEW c \in Coeffs, NEW n \in Nat,
         Written(s, h, r, c, n), n < OMEGA, c \in h[r]
  PROVE  /\ [s EXCEPT ![n] = c] \in HintBytes
         /\ Written([s EXCEPT ![n] = c], h, r, c + 1, n + 1)
<1> DEFINE s2 == [s EXCEPT ![n] = c]
<1>1. s2 \in HintBytes
  BY SizesAre DEF HintBytes, U8, Coeffs
<1>2. s2[n] = c /\ \A k \in 0 .. OMEGA + ROWS - 1 : k # n => s2[k] = s[k]
  BY SizesAre DEF HintBytes
<1> HIDE DEF s2
<1>3. ASSUME NEW q \in Rows PROVE From(s2, q) = From(s, q) /\ To(s2, q) = To(s, q)
  BY <1>2, SizesAre DEF From, To, Rows
<1>4. From(s, r) \in Nat /\ From(s, r) <= n
  BY FromTo DEF Written
<1>5. ASSUME NEW q \in Rows, q < r PROVE RowWritten(s2, h, q) /\ To(s2, q) <= n + 1
  <2>1. RowWritten(s, h, q) /\ To(s, q) <= n /\ To(s, q) \in Nat
    BY <1>5, FromTo DEF Written
  <2>2. \A k \in 0 .. To(s, q) - 1 : s2[k] = s[k]
    BY <1>2, <2>1, SizesAre
  <2> QED
    BY <1>1, <1>3, <2>1, <2>2, RowKept
<1>6. \A k \in From(s, r) .. n - 1 : s2[k] = s[k] /\ s[k] < c /\ s[k] \in Nat
  <2> SUFFICES ASSUME NEW k \in From(s, r) .. n - 1 PROVE s2[k] = s[k] /\ s[k] < c /\ s[k] \in Nat
    OBVIOUS
  <2>1. k \in 0 .. OMEGA + ROWS - 1 /\ k # n
    BY <1>4, SizesAre
  <2>2. s[k] \in {x \in Coeffs : r \in Rows /\ x \in h[r] /\ x < c}
    BY DEF Written
  <2> QED
    BY <1>2, <2>1, <2>2 DEF Coeffs
<1>7. ASSUME NEW k \in From(s, r) + 1 .. n PROVE s2[k - 1] < s2[k]
  <2>1. k - 1 \in From(s, r) .. n - 1
    BY <1>4
  <2>2. CASE k = n
    BY <1>2, <1>6, <2>1, <2>2
  <2>3. CASE k # n
    <3>1. k \in From(s, r) .. n - 1 /\ k \in From(s, r) + 1 .. n - 1
      BY <1>4, <2>3
    <3>2. s[k - 1] < s[k]
      BY <3>1 DEF Written
    <3> QED
      BY <1>6, <2>1, <3>1, <3>2
  <2> QED
    BY <2>2, <2>3
<1>8. {s2[k] : k \in From(s, r) .. n} = {x \in Coeffs : r \in Rows /\ x \in h[r] /\ x < c + 1}
  <2>1. From(s, r) .. n = (From(s, r) .. n - 1) \cup {n}
    BY <1>4
  <2>2. {s2[k] : k \in From(s, r) .. n} = {s[k] : k \in From(s, r) .. n - 1} \cup {c}
    BY <1>2, <1>6, <2>1
  <2>3. {s[k] : k \in From(s, r) .. n - 1} = {x \in Coeffs : r \in Rows /\ x \in h[r] /\ x < c}
    BY DEF Written
  <2>4. {x \in Coeffs : r \in Rows /\ x \in h[r] /\ x < c} \cup {c}
          = {x \in Coeffs : r \in Rows /\ x \in h[r] /\ x < c + 1}
    BY DEF Coeffs
  <2> QED
    BY <2>2, <2>3, <2>4
<1>9. \A k \in n + 1 .. OMEGA - 1 : s2[k] = 0
  BY <1>2, SizesAre DEF Written
<1>10. (n + 1) - 1 = n
  OBVIOUS
<1>11. Written(s2, h, r, c + 1, n + 1)
  BY <1>3, <1>4, <1>5, <1>7, <1>8, <1>9, <1>10 DEF Written
<1> QED
  BY <1>1, <1>11 DEF s2

LEMMA SkipPosition ==
  ASSUME NEW s, NEW h, NEW r \in Rows, NEW c \in Coeffs, NEW n,
         Written(s, h, r, c, n), c \notin h[r]
  PROVE  Written(s, h, r, c + 1, n)
<1>1. {x \in Coeffs : r \in Rows /\ x \in h[r] /\ x < c}
        = {x \in Coeffs : r \in Rows /\ x \in h[r] /\ x < c + 1}
  BY DEF Coeffs
<1> QED
  BY <1>1 DEF Written

LEMMA WriteCount ==
  ASSUME NEW s \in HintBytes, NEW h \in Hints, NEW r \in Rows, NEW n \in Nat, n <= OMEGA,
         Written(s, h, r, COEFFS, n)
  PROVE  /\ [s EXCEPT ![OMEGA + r] = n] \in HintBytes
         /\ Written([s EXCEPT ![OMEGA + r] = n], h, r + 1, 0, n)
         /\ From([s EXCEPT ![OMEGA + r] = n], r + 1) = n
<1> DEFINE s2 == [s EXCEPT ![OMEGA + r] = n]
<1>1. s2 \in HintBytes
  <2>1. n \in U8
    BY SizesAre DEF U8
  <2> QED
    BY <2>1 DEF HintBytes
<1>2. s2[OMEGA + r] = n /\ \A k \in 0 .. OMEGA + ROWS - 1 : k # OMEGA + r => s2[k] = s[k]
  BY SizesAre DEF HintBytes, Rows
<1> HIDE DEF s2
<1>3. ASSUME NEW q \in Rows, q < r PROVE From(s2, q) = From(s, q) /\ To(s2, q) = To(s, q)
  BY <1>2, <1>3, SizesAre DEF From, To, Rows
<1>4. From(s2, r) = From(s, r) /\ To(s2, r) = n /\ From(s2, r + 1) = n
  BY <1>1, <1>2, SizesAre, FromTo DEF From, To, Rows
<1>5. From(s, r) \in Nat /\ From(s, r) <= n
  BY FromTo DEF Written
<1>6. ASSUME NEW q \in Rows, q < r PROVE RowWritten(s2, h, q) /\ To(s2, q) <= n
  <2>1. RowWritten(s, h, q) /\ To(s, q) <= n /\ To(s, q) \in Nat
    BY <1>6, FromTo DEF Written
  <2>2. \A k \in 0 .. To(s, q) - 1 : s2[k] = s[k]
    BY <1>2, <2>1, SizesAre DEF Rows
  <2> QED
    BY <1>1, <1>3, <1>6, <2>1, <2>2, RowKept
<1>7. \A k \in 0 .. OMEGA - 1 : s2[k] = s[k]
  BY <1>2, SizesAre DEF Rows
<1>8. RowWritten(s2, h, r)
  <2>1. ASSUME NEW k \in From(s, r) + 1 .. n - 1 PROVE s2[k - 1] < s2[k]
    <3>1. s[k - 1] < s[k]
      BY DEF Written
    <3>2. k \in 0 .. OMEGA - 1 /\ k - 1 \in 0 .. OMEGA - 1
      BY <1>5, SizesAre
    <3> QED
      BY <1>7, <3>1, <3>2
  <2>2. RowCanonical(s2, r)
    BY <1>4, <1>5, <2>1 DEF RowCanonical
  <2>3. \A k \in From(s, r) .. n - 1 : s2[k] = s[k]
    BY <1>5, <1>7, SizesAre
  <2>4. {s2[k] : k \in From(s, r) .. n - 1} = {s[k] : k \in From(s, r) .. n - 1}
    BY <2>3
  <2>5. {x \in Coeffs : r \in Rows /\ x \in h[r] /\ x < COEFFS} = h[r]
    BY SizesAre DEF Coeffs, Hints
  <2> QED
    BY <1>4, <2>2, <2>4, <2>5 DEF RowWritten, Written
<1>9. ASSUME NEW q \in Rows, q < r + 1 PROVE RowWritten(s2, h, q) /\ To(s2, q) <= n
  <2>1. q < r \/ q = r
    BY <1>9 DEF Rows
  <2> QED
    BY <1>4, <1>6, <1>8, <2>1
<1>10. {s2[k] : k \in n .. n - 1} = {} /\ n + 1 .. n - 1 = {}
  OBVIOUS
<1>11. {x \in Coeffs : r + 1 \in Rows /\ x \in h[r + 1] /\ x < 0} = {}
  BY DEF Coeffs
<1>12. \A k \in n .. OMEGA - 1 : s2[k] = 0
  BY <1>7 DEF Written
<1>13. Written(s2, h, r + 1, 0, n)
  BY <1>4, <1>9, <1>10, <1>11, <1>12 DEF Written
<1> QED
  BY <1>1, <1>4, <1>13 DEF s2

(* The whole of it, after the last row. *)
LEMMA WrittenAll ==
  ASSUME NEW s \in HintBytes, NEW h \in Hints, NEW n \in Nat,
         Written(s, h, ROWS, 0, n), From(s, ROWS) = n
  PROVE  Canonical(s) /\ HintOf(s) = h
<1>1. \A q \in Rows : RowWritten(s, h, q)
  BY SizesAre DEF Written, Rows
<1>2. To(s, ROWS - 1) = n
  <2>1. ROWS - 1 \in Rows /\ (ROWS - 1) + 1 = ROWS
    BY SizesAre DEF Rows
  <2> QED
    BY <2>1, FromTo
<1>3. \A k \in n .. OMEGA - 1 : s[k] = 0
  BY DEF Written
<1>4. Canonical(s)
  BY <1>1, <1>2, <1>3 DEF Canonical, RowWritten
<1>5. HintOf(s) = h
  BY <1>1 DEF HintOf, RowWritten, Hints
<1> QED
  BY <1>4, <1>5

LEMMA NothingWritten ==
  ASSUME NEW h
  PROVE  Zeroed \in HintBytes /\ Written(Zeroed, h, 0, 0, 0)
<1>1. Zeroed \in HintBytes
  BY SizesAre DEF Zeroed, HintBytes, U8
<1>2. \A k \in 0 .. OMEGA - 1 : Zeroed[k] = 0
  BY SizesAre DEF Zeroed
<1>3. {Zeroed[k] : k \in 0 .. 0 - 1} = {} /\ 0 + 1 .. 0 - 1 = {}
  OBVIOUS
<1>4. {x \in Coeffs : 0 \in Rows /\ x \in h[0] /\ x < 0} = {}
  BY DEF Coeffs
<1>5. \A q \in Rows : ~(q < 0)
  BY DEF Rows
<1> QED
  BY <1>1, <1>2, <1>3, <1>4, <1>5 DEF Written, From

-----------------------------------------------------------------------------
(* The signature, in a buffer that was zeroed *)

(* What was accepted. *)
AcceptedInv ==
  hint # None =>
    /\ hint = << hint[1] >> /\ hint[1] \in Hints /\ Ones(hint[1]) <= OMEGA
    /\ commitment_hash = << tries >> /\ signer_response = << tries >>

SignatureInv ==
  /\ signature \in [hash : Nat, response : Nat, hint : HintBytes]
  /\ pc \in {"context", "loop", "mask"} =>
       signature.hint = Zeroed /\ i = 0 /\ j = 0 /\ true_hints_seen = 0
  /\ pc = "serialize" =>
       /\ signature.hash = tries /\ signature.response = tries
       /\ i \in Rows /\ j \in 0 .. COEFFS
       /\ true_hints_seen = Cardinality(Before(hint[1], i, j))
       /\ Written(signature.hint, hint[1], i, j, true_hints_seen)
  /\ result = "Ok" => hint # None
  /\ SignatureVerifies

EncodingInv == LoopInv /\ AcceptedInv /\ SignatureInv

LEMMA EncodingInit == FreshBuffer /\ Init => EncodingInv
<1> SUFFICES ASSUME FreshBuffer, Init PROVE EncodingInv
  OBVIOUS
<1>1. LoopInv /\ AcceptedInv
  BY LoopInit DEF Init, AcceptedInv
<1>2. signature \in [hash : {0}, response : {0}, hint : {Zeroed}]
  BY DEF Init, Buffers
<1>3. Zeroed \in HintBytes
  BY NothingWritten
<1>4. SignatureInv
  BY <1>2, <1>3 DEF Init, SignatureInv, SignatureVerifies
<1> QED
  BY <1>1, <1>4 DEF EncodingInv

(* Until the loop has ended nothing is written. *)
LEMMA BeforeSerialize ==
  ASSUME EncodingInv, LoopInv',
         pc \in {"context", "loop", "mask"}, pc' \in {"loop", "mask", "done"},
         UNCHANGED <<loops, signature>>,
         result' # "Ok", AcceptedInv'
  PROVE  EncodingInv'
BY DEF EncodingInv, SignatureInv, SignatureVerifies, loops

LEMMA AcceptedKept ==
  ASSUME AcceptedInv, UNCHANGED <<options, tries>> PROVE AcceptedInv'
BY DEF AcceptedInv, options, Ones

LEMMA CheckContextEncodes ==
  ASSUME EncodingInv, CheckContext, LoopInv' PROVE EncodingInv'
<1>1. AcceptedInv'
  BY AcceptedKept DEF EncodingInv, CheckContext
<1>2. result' # "Ok"
  BY DEF CheckContext, EncodingInv, LoopInv, PhaseInv
<1> QED
  BY <1>1, <1>2, BeforeSerialize DEF CheckContext

LEMMA SamplingEncodes ==
  ASSUME EncodingInv, SampleFour \/ SampleOne \/ RejectNorm, LoopInv' PROVE EncodingInv'
<1>1. hint = None /\ hint' = None
  BY ConstantsAre
     DEF SampleFour, SampleOne, RejectNorm, EncodingInv, LoopInv, OptionsInv, PhaseInv, options
<1>2. AcceptedInv'
  BY <1>1 DEF AcceptedInv
<1>3. result' # "Ok"
  BY DEF SampleFour, SampleOne, RejectNorm, EncodingInv, LoopInv, PhaseInv
<1> QED
  BY <1>2, <1>3, BeforeSerialize DEF SampleFour, SampleOne, RejectNorm

LEMMA MakeHintEncodes ==
  ASSUME EncodingInv, NEW h \in Hints, MakeHint(h), LoopInv' PROVE EncodingInv'
<1>1. tries' = tries
  BY DEF MakeHint
<1>2. CASE TooManyOnes(h)
  BY <1>1, <1>2, AcceptedKept, BeforeSerialize DEF MakeHint, EncodingInv, LoopInv, PhaseInv
<1>3. CASE ~TooManyOnes(h)
  <2>1. /\ hint' = << h >> /\ commitment_hash' = << tries >> /\ signer_response' = << tries >>
    BY <1>3 DEF MakeHint, Accept, Some
  <2>2. Ones(h) \in Nat
    BY OnesFinite, FS_CardinalityType DEF Ones
  <2>3. Ones(h) <= OMEGA
    BY <1>3, <2>2, SizesAre DEF TooManyOnes
  <2>4. AcceptedInv'
    BY <1>1, <2>1, <2>3 DEF AcceptedInv, Ones
  <2> QED
    BY <2>4, BeforeSerialize DEF MakeHint, EncodingInv, LoopInv, PhaseInv
<1> QED
  BY <1>2, <1>3

LEMMA EndLoopEncodes ==
  ASSUME EncodingInv, EndLoop, LoopInv' PROVE EncodingInv'
<1>1. AcceptedInv'
  BY AcceptedKept DEF EncodingInv, EndLoop
<1>2. CASE Exhausted
  <2>1. UNCHANGED signature /\ result' = "RejectionSamplingError" /\ pc' = "done"
    BY <1>2 DEF EndLoop
  <2> QED
    BY <1>1, <2>1, BeforeSerialize DEF EndLoop
<1>3. CASE ~Exhausted
  <2>1. /\ signature' = [signature EXCEPT !.hash = commitment_hash[1], !.response = signer_response[1]]
        /\ pc' = "serialize" /\ result' = result /\ hint # None
        /\ UNCHANGED <<options, loops, tries>>
    BY <1>3 DEF EndLoop, Exhausted
  <2>2. commitment_hash[1] = tries /\ signer_response[1] = tries /\ tries \in Nat
    BY <2>1 DEF EncodingInv, AcceptedInv, LoopInv, TypeInv
  <2>3. /\ signature' \in [hash : Nat, response : Nat, hint : HintBytes]
        /\ signature'.hash = tries /\ signature'.response = tries
        /\ signature'.hint = signature.hint
    BY <2>1, <2>2 DEF EncodingInv, SignatureInv
  <2>4. signature.hint = Zeroed /\ i = 0 /\ j = 0 /\ true_hints_seen = 0 /\ result # "Ok"
    BY DEF EndLoop, EncodingInv, SignatureInv, LoopInv, PhaseInv
  <2>5. /\ true_hints_seen = Cardinality(Before(hint[1], i, j))
        /\ Written(Zeroed, hint[1], i, j, true_hints_seen)
    BY <2>4, BeforeNothing, NothingWritten
  <2>6. i \in Rows /\ j \in 0 .. COEFFS
    BY <2>4, SizesAre DEF Rows
  <2>7. hint' = hint /\ i' = i /\ j' = j /\ true_hints_seen' = true_hints_seen /\ tries' = tries
    BY <2>1 DEF options, loops
  <2>8. SignatureInv'
    BY <2>1, <2>3, <2>4, <2>5, <2>6, <2>7 DEF SignatureInv, SignatureVerifies
  <2> QED
    BY <1>1, <2>8 DEF EncodingInv
<1> QED
  BY <1>2, <1>3

(* What serialize has to go on from. *)
LEMMA SerializeFrom ==
  ASSUME EncodingInv, pc = "serialize"
  PROVE  /\ signature \in [hash : Nat, response : Nat, hint : HintBytes]
         /\ signature.hash = tries /\ signature.response = tries
         /\ i \in Rows /\ j \in 0 .. COEFFS /\ hint # None
         /\ hint[1] \in Hints /\ Ones(hint[1]) <= OMEGA
         /\ true_hints_seen \in Nat
         /\ true_hints_seen = Cardinality(Before(hint[1], i, j))
         /\ Written(signature.hint, hint[1], i, j, true_hints_seen)
         /\ result # "Ok"
<1>1. hint # None /\ result # "Ok"
  BY DEF EncodingInv, LoopInv, PhaseInv
<1>2. Cardinality(Before(hint[1], i, j)) \in Nat
  BY OnesFinite, FS_CardinalityType
<1> QED
  BY <1>1, <1>2 DEF EncodingInv, AcceptedInv, SignatureInv

LEMMA WriteHintEncodes ==
  ASSUME EncodingInv, WriteHint, LoopInv' PROVE EncodingInv'
<1> DEFINE h == hint[1]
           n == true_hints_seen
<1>1. /\ pc = "serialize" /\ j < COEFFS /\ j' = j + 1
      /\ UNCHANGED <<pc, options, i, result, tries>>
  BY DEF WriteHint
<1>2. /\ signature \in [hash : Nat, response : Nat, hint : HintBytes]
      /\ signature.hash = tries /\ signature.response = tries
      /\ i \in Rows /\ j \in Coeffs /\ j + 1 \in 0 .. COEFFS
      /\ h \in Hints /\ Ones(h) <= OMEGA
      /\ n \in Nat /\ n = Cardinality(Before(h, i, j))
      /\ Written(signature.hint, h, i, j, n)
      /\ result # "Ok"
  BY <1>1, SerializeFrom, SizesAre DEF Coeffs
<1>3. hint' = hint /\ i' = i /\ tries' = tries /\ pc' = "serialize" /\ result' = result
  BY <1>1 DEF options
<1>4. AcceptedInv'
  BY <1>1, AcceptedKept DEF EncodingInv
<1>5. SignatureInv'
  <2>1. CASE j \in h[i]
    <3>1. /\ signature' = [signature EXCEPT !.hint[n] = j]
          /\ true_hints_seen' = n + 1
      BY <2>1 DEF WriteHint
    <3>2. /\ n + 1 = Cardinality(Before(h, i, j + 1)) /\ n < OMEGA
      BY <1>2, <2>1, BeforeOne, SizesAre
    <3>3. /\ [signature.hint EXCEPT ![n] = j] \in HintBytes
          /\ Written([signature.hint EXCEPT ![n] = j], h, i, j + 1, n + 1)
      <4>1. signature.hint \in HintBytes
        BY <1>2
      <4> QED
        BY <1>2, <2>1, <3>2, <4>1, WritePosition
    <3>4. /\ signature' \in [hash : Nat, response : Nat, hint : HintBytes]
          /\ signature'.hash = tries /\ signature'.response = tries
          /\ signature'.hint = [signature.hint EXCEPT ![n] = j]
      BY <1>2, <3>1, <3>3
    <3> QED
      BY <1>1, <1>2, <1>3, <3>1, <3>2, <3>3, <3>4 DEF SignatureInv, SignatureVerifies
  <2>2. CASE j \notin h[i]
    <3>1. UNCHANGED <<signature, true_hints_seen>>
      BY <2>2 DEF WriteHint
    <3>2. Before(h, i, j + 1) = Before(h, i, j) /\ Written(signature.hint, h, i, j + 1, n)
      BY <1>2, <2>2, BeforeOther, SkipPosition
    <3> QED
      BY <1>1, <1>2, <1>3, <3>1, <3>2 DEF SignatureInv, SignatureVerifies
  <2> QED
    BY <2>1, <2>2
<1> QED
  BY <1>4, <1>5 DEF EncodingInv

LEMMA EndHintRowEncodes ==
  ASSUME EncodingInv, EndHintRow, LoopInv' PROVE EncodingInv'
<1> DEFINE h == hint[1]
           n == true_hints_seen
           s2 == [signature.hint EXCEPT ![OMEGA + i] = n]
<1>1. /\ pc = "serialize" /\ j = COEFFS /\ j' = 0 /\ i' = i + 1
      /\ signature' = [signature EXCEPT !.hint[OMEGA + i] = n]
      /\ UNCHANGED <<options, true_hints_seen, tries>>
      /\ \/ i + 1 < ROWS /\ UNCHANGED <<pc, result>>
         \/ ~(i + 1 < ROWS) /\ pc' = "done" /\ result' = "Ok"
  BY DEF EndHintRow, CountAt
<1>2. /\ signature \in [hash : Nat, response : Nat, hint : HintBytes]
      /\ signature.hash = tries /\ signature.response = tries
      /\ i \in Rows /\ h \in Hints /\ Ones(h) <= OMEGA
      /\ n \in Nat /\ n = Cardinality(Before(h, i, COEFFS))
      /\ Written(signature.hint, h, i, COEFFS, n)
      /\ result # "Ok" /\ hint # None
  BY <1>1, SerializeFrom
<1>3. hint' = hint /\ tries' = tries /\ true_hints_seen' = n
  BY <1>1 DEF options
<1>4. AcceptedInv'
  BY <1>1, AcceptedKept DEF EncodingInv
<1>5. n <= OMEGA
  <2>1. Before(h, i, COEFFS) \subseteq {p \in Rows \X Coeffs : p[2] \in h[p[1]]}
    BY DEF Before
  <2>2. n <= Ones(h) /\ Ones(h) \in Nat
    BY <1>2, <2>1, OnesFinite, FS_Subset, FS_CardinalityType DEF Ones
  <2> QED
    BY <1>2, <2>2, SizesAre
<1>6. s2 \in HintBytes /\ Written(s2, h, i + 1, 0, n) /\ From(s2, i + 1) = n
  <2>1. signature.hint \in HintBytes
    BY <1>2
  <2> QED
    BY <1>2, <1>5, <2>1, WriteCount
<1>7. /\ signature' \in [hash : Nat, response : Nat, hint : HintBytes]
      /\ signature'.hash = tries /\ signature'.response = tries
      /\ signature'.hint = s2
  BY <1>1, <1>2, <1>6
<1> HIDE DEF s2
<1>8. CASE i + 1 < ROWS
  <2>1. i + 1 \in Rows /\ n = Cardinality(Before(h, i + 1, 0)) /\ 0 \in 0 .. COEFFS
    BY <1>2, <1>8, BeforeRow, SizesAre DEF Rows
  <2>2. pc' = "serialize" /\ result' # "Ok" /\ i' = i + 1 /\ j' = 0
    BY <1>1, <1>2, <1>8
  <2>3. SignatureInv'
    BY <1>3, <1>6, <1>7, <2>1, <2>2 DEF SignatureInv, SignatureVerifies
  <2> QED
    BY <1>4, <2>3 DEF EncodingInv
<1>9. CASE ~(i + 1 < ROWS)
  <2>1. i + 1 = ROWS
    BY <1>2, <1>9, SizesAre DEF Rows
  <2>2. Canonical(s2) /\ HintOf(s2) = h
    BY <1>2, <1>6, <2>1, WrittenAll
  <2>3. pc' = "done" /\ result' = "Ok"
    BY <1>1, <1>9
  <2>4. SignatureInv'
    BY <1>2, <1>3, <1>7, <2>2, <2>3 DEF SignatureInv, SignatureVerifies
  <2> QED
    BY <1>4, <2>4 DEF EncodingInv
<1> QED
  BY <1>8, <1>9

LEMMA EncodingStutters ==
  ASSUME EncodingInv, UNCHANGED vars, LoopInv' PROVE EncodingInv'
<1>1. AcceptedInv'
  BY AcceptedKept DEF EncodingInv, vars
<1>2. SignatureInv'
  BY DEF EncodingInv, SignatureInv, SignatureVerifies, vars, options, loops
<1> QED
  BY <1>1, <1>2 DEF EncodingInv

-----------------------------------------------------------------------------
(* The theorems *)

(***************************************************************************)
(* No two mask polynomials of one signature are made from the same seed, for   *)
(* every number of columns and attempts that the separator has room for         *)
(* (sample.rs 458-497).                                                       *)
(***************************************************************************)
THEOREM FreshMasks == Spec => []MasksFresh
<1>1. LoopInv => MasksFresh
  BY DEF LoopInv, MaskInv, MasksFresh
<1> QED
  BY <1>1, LoopInductive, PTL

(***************************************************************************)
(* Signing reports failure only after the bound, nothing accepted              *)
(* (ml_dsa_generic.rs 228, 341-354).                                          *)
(***************************************************************************)
THEOREM FailsLate == Spec => []FailsOnlyAfterBound
<1>1. LoopInv => FailsOnlyAfterBound
  BY DEF LoopInv, PhaseInv, FailsOnlyAfterBound
<1> QED
  BY <1>1, LoopInductive, PTL

(***************************************************************************)
(* No mask is sampled once an attempt has been accepted                        *)
(* (ml_dsa_generic.rs 331).                                                   *)
(***************************************************************************)
THEOREM AcceptsOnce == Spec => NoMaskAfterAcceptance
<1>1. LoopInv /\ [Next]_vars => [hint # None => used' = used]_vars
  <2> SUFFICES ASSUME LoopInv, Next, hint # None PROVE used' = used
    OBVIOUS
  <2>1. attempt = BOUND /\ pc # "mask" /\ BOUND \in Nat
    BY ConstantsAre DEF LoopInv, OptionsInv, PhaseInv
  <2>2. ~SampleFour /\ ~SampleOne
    BY <2>1 DEF SampleFour, SampleOne
  <2> QED
    BY <2>2 DEF Next, CheckContext, RejectNorm, MakeHint, EndLoop, WriteHint, EndHintRow
<1> QED
  BY <1>1, LoopInductive, PTL DEF Spec, NoMaskAfterAcceptance

(***************************************************************************)
(* In a buffer that was zeroed, serialize writes the one encoding that         *)
(* verification accepts of the hint, with the hash and the response of the same *)
(* attempt, for every hint of at most OMEGA ones (signature.rs 23-50,           *)
(* ml_dsa_generic.rs 341-372).                                                *)
(***************************************************************************)
THEOREM SignaturesVerify == FreshBuffer /\ Spec => []SignatureVerifies
<1>1. EncodingInv /\ [Next]_vars => EncodingInv'
  <2> SUFFICES ASSUME EncodingInv, [Next]_vars PROVE EncodingInv'
    OBVIOUS
  <2>1. LoopInv'
    BY SampleFourInv, SampleOneInv, RejectNormInv, MakeHintInv, EndLoopInv, OtherInv
       DEF Next, EncodingInv
  <2> QED
    BY <2>1, CheckContextEncodes, SamplingEncodes, MakeHintEncodes, EndLoopEncodes,
       WriteHintEncodes, EndHintRowEncodes, EncodingStutters DEF Next
<1>2. EncodingInv => SignatureVerifies
  BY DEF EncodingInv, SignatureInv
<1> QED
  BY EncodingInit, <1>1, <1>2, PTL DEF Spec
=============================================================================
