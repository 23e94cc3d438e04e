--------------------------- MODULE Verify_proofs ---------------------------
(***************************************************************************)
(* Both builds of verification implement VerifySpec, for every size of the     *)
(* hint section and every content of it.                                       *)
(***************************************************************************)
EXTENDS Verify, WellFoundedInduction, TLAPS

Taken(s, first, last) == {s[k] : k \in first .. last}

TypeInv ==
  /\ stack \in BOOLEAN
  /\ hint_serialized \in HintBytes
  /\ exceeds \in SUBSET (0 .. COLUMNS - 1)
  /\ hash_matches \in BOOLEAN
  /\ pc \in {"rows", "hints", "columns", "compare", "done"}
  /\ i \in 0 .. ROWS /\ j \in Nat
  /\ malformed_hint \in BOOLEAN
  /\ hint \in Hints

PhaseInv ==
  /\ pc # "done" => result = Undecided
  /\ pc = "rows" => ~stack
  /\ pc = "hints" => i \in Rows
  /\ pc = "columns" => stack /\ i \in Rows /\ j <= COLUMNS /\ \A c \in exceeds : ~(c < j)
  /\ stack /\ pc # "done" => ~malformed_hint
  /\ stack /\ (i # 0 \/ pc = "hints") => exceeds = {}
  /\ pc = "compare" => i = ROWS /\ exceeds = {} /\ Canonical(hint_serialized) /\ ~malformed_hint

(* The rows that have been decoded, and what is decoded of the row under way.   *)
HintInv ==
  /\ malformed_hint => ~Canonical(hint_serialized)
  /\ ~malformed_hint /\ pc # "done" =>
       /\ previous_true_hints_seen = From(hint_serialized, i)
       /\ previous_true_hints_seen \in 0 .. OMEGA
       /\ \A q \in Rows : q < i =>
            /\ RowCanonical(hint_serialized, q)
            /\ hint[q] = Taken(hint_serialized, From(hint_serialized, q), To(hint_serialized, q) - 1)
       /\ \A q \in Rows : q > i \/ (q = i /\ pc # "hints") => hint[q] = {}
  /\ ~malformed_hint /\ pc = "hints" =>
       /\ ~CountWrong
       /\ previous_true_hints_seen <= j /\ j <= current_true_hints_seen
       /\ \A k \in previous_true_hints_seen + 1 .. j - 1 : hint_serialized[k - 1] < hint_serialized[k]
       /\ hint[i] = Taken(hint_serialized, previous_true_hints_seen, j - 1)

VInv == TypeInv /\ PhaseInv /\ HintInv

-----------------------------------------------------------------------------
LEMMA SizesAre ==
  /\ COEFFS \in Nat /\ COEFFS >= 1 /\ ROWS \in Nat /\ ROWS >= 1
  /\ OMEGA \in Nat /\ OMEGA < COEFFS /\ COLUMNS \in Nat /\ COLUMNS >= 1
BY HintAssumption, ColumnsAssumption

LEMMA CountsAre ==
  ASSUME NEW s \in HintBytes, NEW r \in Rows
  PROVE  From(s, r) \in Nat /\ To(s, r) \in Nat /\ From(s, r + 1) = To(s, r) /\ r + 1 \in 0 .. ROWS
<1>1. OMEGA + r \in 0 .. OMEGA + ROWS - 1
  BY SizesAre DEF Rows
<1>2. r # 0 => OMEGA + r - 1 \in 0 .. OMEGA + ROWS - 1
  BY SizesAre DEF Rows
<1>3. r + 1 # 0 /\ OMEGA + (r + 1) - 1 = OMEGA + r
  BY SizesAre DEF Rows
<1> QED
  BY <1>1, <1>2, <1>3, SizesAre DEF From, To, HintBytes, U8, Rows

(* A wrong count and a wrong position make the encoding one that is not         *)
(* canonical.                                                                 *)
LEMMA WrongCount ==
  ASSUME VInv, i \in Rows, ~malformed_hint, pc # "done"
  PROVE  /\ current_true_hints_seen = To(hint_serialized, i) /\ current_true_hints_seen \in Nat
         /\ CountWrong => ~Canonical(hint_serialized)
         /\ ~CountWrong => /\ previous_true_hints_seen <= current_true_hints_seen
                           /\ current_true_hints_seen <= OMEGA
<1>1. To(hint_serialized, i) \in Nat /\ previous_true_hints_seen \in Nat
      /\ previous_true_hints_seen = From(hint_serialized, i)
  BY CountsAre DEF VInv, TypeInv, HintInv
<1>2. current_true_hints_seen = To(hint_serialized, i)
  BY DEF current_true_hints_seen, To
<1> QED
  BY <1>1, <1>2, SizesAre DEF CountWrong, Canonical, RowCanonical

LEMMA WrongPosition ==
  ASSUME VInv, pc = "hints", ~malformed_hint, j < current_true_hints_seen
  PROVE  /\ j \in 0 .. OMEGA - 1
         /\ PositionWrong => ~Canonical(hint_serialized)
         /\ ~PositionWrong => (previous_true_hints_seen < j => hint_serialized[j - 1] < hint_serialized[j])
<1>1. /\ i \in Rows /\ ~CountWrong /\ previous_true_hints_seen <= j
      /\ previous_true_hints_seen = From(hint_serialized, i) /\ previous_true_hints_seen \in Nat
      /\ j \in Nat /\ hint_serialized \in HintBytes
  BY DEF VInv, TypeInv, PhaseInv, HintInv
<1>2. /\ current_true_hints_seen = To(hint_serialized, i) /\ current_true_hints_seen \in Nat
      /\ current_true_hints_seen <= OMEGA
  BY <1>1, WrongCount
<1>3. j \in 0 .. OMEGA - 1
  BY <1>1, <1>2, SizesAre
<1>4. ASSUME previous_true_hints_seen < j
      PROVE  /\ hint_serialized[j] \in Int /\ hint_serialized[j - 1] \in Int
             /\ j \in From(hint_serialized, i) + 1 .. To(hint_serialized, i) - 1
  <2>1. j \in 0 .. OMEGA + ROWS - 1 /\ j - 1 \in 0 .. OMEGA + ROWS - 1
    BY <1>1, <1>3, <1>4, SizesAre
  <2>2. \A b \in U8 : b \in Int
    BY SizesAre DEF U8
  <2> QED
    BY <1>1, <1>2, <1>4, <2>1, <2>2 DEF HintBytes
<1>5. PositionWrong => ~Canonical(hint_serialized)
  <2> SUFFICES ASSUME PositionWrong, Canonical(hint_serialized) PROVE FALSE
    OBVIOUS
  <2>1. previous_true_hints_seen < j /\ hint_serialized[j] <= hint_serialized[j - 1]
    BY <1>1 DEF PositionWrong
  <2>2. hint_serialized[j - 1] < hint_serialized[j]
    BY <1>1, <1>4, <2>1 DEF Canonical, RowCanonical
  <2> QED
    BY <1>4, <2>1, <2>2
<1>6. ~PositionWrong => (previous_true_hints_seen < j => hint_serialized[j - 1] < hint_serialized[j])
  BY <1>1, <1>4 DEF PositionWrong
<1> QED
  BY <1>3, <1>5, <1>6

(* When the last row is done only the padding is left to look at. *)
LEMMA Padding ==
  ASSUME VInv, ~malformed_hint, pc # "done", i = ROWS
  PROVE  /\ Canonical(hint_serialized) <=> ~PaddingWrong(previous_true_hints_seen)
         /\ HintOf(hint_serialized) = hint
<1>1. ROWS - 1 \in Rows /\ (ROWS - 1) + 1 = ROWS
  BY SizesAre DEF Rows
<1>2. previous_true_hints_seen = To(hint_serialized, ROWS - 1)
  BY <1>1, CountsAre DEF VInv, TypeInv, HintInv
<1>3. \A q \in Rows : q < i
  BY SizesAre DEF Rows
<1>4. Canonical(hint_serialized) <=> ~PaddingWrong(previous_true_hints_seen)
  BY <1>2, <1>3 DEF Canonical, PaddingWrong, VInv, HintInv
<1>5. hint = [q \in Rows |-> hint[q]]
  BY DEF VInv, TypeInv, Hints
<1>6. HintOf(hint_serialized) = hint
  BY <1>3, <1>5 DEF HintOf, VInv, HintInv, Taken
<1> QED
  BY <1>4, <1>6

LEMMA VInit == Init => VInv
<1> SUFFICES ASSUME Init PROVE VInv
  OBVIOUS
<1>1. TypeInv
  <2>1. NoHint \in Hints /\ 0 \in 0 .. ROWS
    BY SizesAre DEF Hints, NoHint
  <2>2. pc \in {"rows", "columns"}
    BY DEF Init
  <2> QED
    BY <2>1, <2>2 DEF Init, TypeInv
<1>2. PhaseInv
  BY SizesAre DEF Init, PhaseInv, Rows
<1>3. HintInv
  BY SizesAre DEF Init, HintInv, Rows, NoHint, From
<1> QED
  BY <1>1, <1>2, <1>3 DEF VInv

-----------------------------------------------------------------------------
(* Decoding a row *)

LEMMA TypesKept ==
  ASSUME TypeInv, UNCHANGED signature, pc' \in {"rows", "hints", "columns", "compare", "done"},
         i' \in 0 .. ROWS, j' \in Nat, malformed_hint' \in BOOLEAN, hint' \in Hints
  PROVE  TypeInv'
BY Zenon DEF TypeInv, signature, HintBytes, U8, Hints, Rows, Coeffs

LEMMA DecodeOne ==
  ASSUME VInv, pc = "hints", ~malformed_hint, j < current_true_hints_seen, ~PositionWrong,
         SetHint, j' = j + 1, malformed_hint' = FALSE,
         UNCHANGED <<signature, pc, i, previous_true_hints_seen, result>>
  PROVE  VInv'
<1> DEFINE s == hint_serialized
           prev == previous_true_hints_seen
<1>1. /\ i \in Rows /\ prev \in 0 .. OMEGA /\ prev <= j /\ j \in Nat /\ s \in HintBytes
      /\ ~CountWrong /\ hint \in Hints /\ hint[i] = Taken(s, prev, j - 1)
  BY DEF VInv, TypeInv, PhaseInv, HintInv
<1>2. /\ j \in 0 .. OMEGA - 1 /\ (prev < j => s[j - 1] < s[j])
      /\ current_true_hints_seen \in Nat
  BY <1>1, WrongPosition, WrongCount
<1>3. s[j] \in Coeffs
  <2>1. j \in 0 .. OMEGA + ROWS - 1
    BY <1>2, SizesAre
  <2> QED
    BY <1>1, <2>1 DEF HintBytes, U8, Coeffs
<1>4. hint' = [hint EXCEPT ![i] = hint[i] \cup {s[j]}]
  BY DEF SetHint
<1>5. hint' \in Hints /\ hint'[i] = hint[i] \cup {s[j]} /\ \A q \in Rows : q # i => hint'[q] = hint[q]
  BY <1>1, <1>3, <1>4 DEF Hints
<1>6. Taken(s, prev, j) = Taken(s, prev, j - 1) \cup {s[j]}
  <2>1. prev .. j = (prev .. j - 1) \cup {j}
    BY <1>1
  <2> QED
    BY <2>1 DEF Taken
<1>7. \A k \in prev + 1 .. j : s[k - 1] < s[k]
  <2> SUFFICES ASSUME NEW k \in prev + 1 .. j PROVE s[k - 1] < s[k]
    OBVIOUS
  <2>1. CASE k = j
    BY <1>1, <1>2, <2>1
  <2>2. CASE k # j
    <3>1. k \in prev + 1 .. j - 1
      BY <1>1, <2>2
    <3> QED
      BY <3>1 DEF VInv, HintInv
  <2> QED
    BY <2>1, <2>2
<1>8. /\ hint_serialized' = s /\ previous_true_hints_seen' = prev /\ i' = i /\ pc' = "hints"
      /\ j' = j + 1 /\ (j + 1) - 1 = j /\ prev <= j + 1 /\ j + 1 <= current_true_hints_seen
      /\ current_true_hints_seen' = current_true_hints_seen
      /\ CountWrong' = CountWrong
  BY <1>1, <1>2 DEF signature, current_true_hints_seen, CountWrong
<1>9. TypeInv' /\ PhaseInv'
  <2>1. TypeInv'
    <3>1. malformed_hint' \in BOOLEAN /\ hint' \in Hints /\ pc' = "hints" /\ i' \in 0 .. ROWS
      BY <1>5, <1>8 DEF VInv, TypeInv
    <3>2. j' \in Nat
      BY <1>1
    <3> QED
      BY <3>1, <3>2, TypesKept DEF VInv
  <2>2. PhaseInv'
    BY <1>1, <1>8, Zenon DEF VInv, PhaseInv, signature
  <2> QED
    BY <2>1, <2>2
<1>10. HintInv'
  <2>1. \A q \in Rows : q < i => q # i
    BY <1>1 DEF Rows
  <2>2. \A q \in Rows : q > i => q # i
    BY <1>1 DEF Rows
  <2>3. hint'[i] = Taken(s, prev, j)
    BY <1>1, <1>5, <1>6
  <2>4. \A q \in Rows : q < i =>
          RowCanonical(s, q) /\ hint'[q] = Taken(s, From(s, q), To(s, q) - 1)
    BY <1>5, <2>1 DEF VInv, HintInv
  <2>5. \A q \in Rows : q > i => hint'[q] = {}
    BY <1>5, <2>2 DEF VInv, HintInv
  <2>6. prev = From(s, i)
    BY DEF VInv, HintInv
  <2> QED
    BY <1>1, <1>7, <1>8, <2>3, <2>4, <2>5, <2>6 DEF HintInv
<1> QED
  BY <1>9, <1>10 DEF VInv

(* A row that has been decoded. *)
LEMMA RowDone ==
  ASSUME VInv, pc = "hints", ~malformed_hint, j >= current_true_hints_seen
  PROVE  /\ i + 1 \in 0 .. ROWS /\ j = current_true_hints_seen
         /\ current_true_hints_seen = From(hint_serialized, i + 1)
         /\ current_true_hints_seen \in 0 .. OMEGA
         /\ \A q \in Rows : q < i + 1 =>
              /\ RowCanonical(hint_serialized, q)
              /\ hint[q] = Taken(hint_serialized, From(hint_serialized, q), To(hint_serialized, q) - 1)
         /\ \A q \in Rows : q > i + 1 \/ q = i + 1 => hint[q] = {}
<1>1. /\ i \in Rows /\ ~CountWrong /\ j <= current_true_hints_seen /\ j \in Nat
      /\ previous_true_hints_seen = From(hint_serialized, i)
      /\ hint_serialized \in HintBytes /\ i \in Int
  BY DEF VInv, TypeInv, PhaseInv, HintInv, Rows
<1>2. /\ current_true_hints_seen = To(hint_serialized, i) /\ current_true_hints_seen \in Nat
      /\ previous_true_hints_seen <= current_true_hints_seen
      /\ current_true_hints_seen <= OMEGA
  BY <1>1, WrongCount
<1>3. j = current_true_hints_seen
  BY <1>1, <1>2
<1>4. i + 1 \in 0 .. ROWS /\ current_true_hints_seen = From(hint_serialized, i + 1)
  BY <1>1, <1>2, CountsAre
<1>5. /\ RowCanonical(hint_serialized, i)
      /\ hint[i] = Taken(hint_serialized, From(hint_serialized, i), To(hint_serialized, i) - 1)
  BY <1>1, <1>2, <1>3 DEF VInv, HintInv, RowCanonical
<1>6. \A q \in Rows : q < i + 1 => q < i \/ q = i
  BY <1>1 DEF Rows
<1>7. \A q \in Rows : q > i + 1 \/ q = i + 1 => q > i
  BY <1>1 DEF Rows
<1>8. \A q \in Rows : q < i + 1 =>
        /\ RowCanonical(hint_serialized, q)
        /\ hint[q] = Taken(hint_serialized, From(hint_serialized, q), To(hint_serialized, q) - 1)
  BY <1>5, <1>6 DEF VInv, HintInv
<1>9. \A q \in Rows : q > i + 1 \/ q = i + 1 => hint[q] = {}
  BY <1>7 DEF VInv, HintInv
<1> QED
  BY <1>2, <1>3, <1>4, <1>8, <1>9, SizesAre

(* What is known of a row that begins. *)
LEMMA RowBegins ==
  ASSUME VInv, pc # "hints", pc # "done", ~malformed_hint, i \in Rows, ~CountWrong,
         pc' = "hints", j' = previous_true_hints_seen, malformed_hint' = FALSE,
         stack => exceeds = {},
         UNCHANGED <<signature, i, previous_true_hints_seen, hint, result>>
  PROVE  VInv'
<1> DEFINE prev == previous_true_hints_seen
<1>1. /\ prev \in 0 .. OMEGA /\ prev = From(hint_serialized, i) /\ hint[i] = {}
      /\ \A q \in Rows : q > i => hint[q] = {}
  BY DEF VInv, TypeInv, HintInv
<1>2. prev <= current_true_hints_seen /\ current_true_hints_seen \in Nat
  BY WrongCount
<1>3. Taken(hint_serialized, prev, prev - 1) = {} /\ prev + 1 .. prev - 1 = {} /\ prev <= prev
  BY <1>1 DEF Taken
<1>4. current_true_hints_seen' = current_true_hints_seen /\ CountWrong' = CountWrong
  BY DEF signature, current_true_hints_seen, CountWrong
<1>5. TypeInv' /\ PhaseInv'
  <2>1. TypeInv'
    <3>1. malformed_hint' \in BOOLEAN
      BY Zenon
    <3>2. hint' \in Hints /\ i' \in 0 .. ROWS
      BY Zenon DEF VInv, TypeInv
    <3>3. j' \in Nat
      BY <1>1
    <3> QED
      BY <3>1, <3>2, <3>3, TypesKept DEF VInv
  <2>2. PhaseInv'
    BY Zenon DEF VInv, PhaseInv, signature
  <2> QED
    BY <2>1, <2>2
<1>6. HintInv'
  BY <1>1, <1>2, <1>3, <1>4, <1>5 DEF VInv, HintInv, signature, PhaseInv
<1> QED
  BY <1>5, <1>6 DEF VInv

-----------------------------------------------------------------------------
(* Defects and verdicts *)

(* deserialize goes on with malformed_hint set. *)
LEMMA Malformed ==
  ASSUME VInv, ~Canonical(hint_serialized), ~stack, pc # "done", malformed_hint' = TRUE,
         pc' = "rows" \/ (pc' = "hints" /\ i \in Rows), j' \in Nat,
         UNCHANGED <<signature, i, hint, result>>
  PROVE  VInv'
<1>1. TypeInv'
  <2>1. malformed_hint' \in BOOLEAN
    BY Zenon
  <2>2. hint' \in Hints /\ i' \in 0 .. ROWS
    BY Zenon DEF VInv, TypeInv
  <2> QED
    BY <2>1, <2>2, TypesKept DEF VInv
<1>2. PhaseInv'
  BY Zenon DEF VInv, PhaseInv, signature
<1>3. HintInv'
  <2>1. hint_serialized' = hint_serialized
    BY DEF signature
  <2> QED
    BY <2>1, Zenon DEF HintInv, Canonical, RowCanonical, From, To
<1> QED
  BY <1>1, <1>2, <1>3 DEF VInv

Decides(verdict) ==
  /\ Return(verdict)
  /\ result = Undecided
  /\ \/ verdict = "MalformedHintError" /\ ~Canonical(hint_serialized)
     \/ verdict = "SignerResponseExceedsBoundError" /\ exceeds # {}
     \/ /\ verdict = "CommitmentHashesDontMatchError"
        /\ Canonical(hint_serialized) /\ exceeds = {} /\ ~hash_matches
     \/ /\ verdict = "Ok"
        /\ Canonical(hint_serialized) /\ exceeds = {} /\ hash_matches
        /\ hint = HintOf(hint_serialized)

LEMMA PromiseIs ==
  /\ Promise!Canonical(hint_serialized) <=> Canonical(hint_serialized)
  /\ Promise!HintOf(hint_serialized) = HintOf(hint_serialized)
  /\ Promise!NoHint = NoHint /\ Promise!Undecided = Undecided
<1>1. Promise!Rows = Rows
  BY DEF Promise!Rows, Rows
<1>2. \A r \in Rows : /\ Promise!From(hint_serialized, r) = From(hint_serialized, r)
                     /\ Promise!To(hint_serialized, r) = To(hint_serialized, r)
  BY DEF Promise!From, Promise!To, From, To
<1>3. ROWS - 1 \in Rows
  BY SizesAre DEF Rows
<1>4. Promise!Canonical(hint_serialized) <=> Canonical(hint_serialized)
  BY <1>1, <1>2, <1>3
     DEF Promise!Canonical, Promise!RowCanonical, Canonical, RowCanonical, Promise!To, To
<1>5. Promise!HintOf(hint_serialized) = HintOf(hint_serialized)
  BY <1>1, <1>2 DEF Promise!HintOf, HintOf
<1>6. Promise!NoHint = NoHint /\ Promise!Undecided = Undecided
  BY <1>1 DEF Promise!NoHint, NoHint, Promise!Undecided, Undecided
<1> QED
  BY <1>4, <1>5, <1>6

(* A verdict is one that VerifySpec allows. *)
LEMMA DecidesIs ==
  ASSUME NEW verdict, Decides(verdict), UNCHANGED signature
  PROVE  Promise!Decide
<1>1. result = Undecided /\ UNCHANGED <<hint_serialized, exceeds, hash_matches>>
  BY DEF Decides, signature
<1>2. result' = [verdict |-> verdict, hint |-> IF verdict = "Ok" THEN hint ELSE NoHint]
  BY DEF Decides, Return
<1>3. CASE verdict = "Ok"
  <2>1. Promise!Valid /\ result' = [verdict |-> "Ok", hint |-> Promise!HintOf(hint_serialized)]
    BY <1>2, <1>3, PromiseIs DEF Decides, Promise!Valid
  <2>2. result' \in Promise!Verdicts
    BY <2>1 DEF Promise!Verdicts
  <2> QED
    BY <1>1, <2>2, PromiseIs DEF Promise!Decide
<1>4. CASE verdict # "Ok"
  <2>1. ~Promise!Valid /\ verdict \in Promise!Reasons
    BY <1>4, PromiseIs DEF Decides, Promise!Valid, Promise!Reasons
  <2>2. result' = [verdict |-> verdict, hint |-> Promise!NoHint]
    BY <1>2, <1>4, PromiseIs
  <2>3. result' \in Promise!Verdicts
    BY <2>1, <2>2 DEF Promise!Verdicts
  <2> QED
    BY <1>1, <2>3, PromiseIs DEF Promise!Decide
<1> QED
  BY <1>3, <1>4

LEMMA Returned ==
  ASSUME VInv, NEW verdict, Return(verdict), UNCHANGED <<signature, i, j, hint>>,
         malformed_hint' \in BOOLEAN, malformed_hint' => ~Canonical(hint_serialized)
  PROVE  VInv'
<1>1. pc' = "done" /\ hint_serialized' = hint_serialized /\ stack' = stack /\ exceeds' = exceeds
      /\ i' = i /\ j' = j
  BY DEF Return, signature
<1>2. TypeInv'
  BY <1>1, TypesKept, Zenon DEF VInv, TypeInv
<1>3. PhaseInv'
  BY <1>1, Zenon DEF VInv, PhaseInv
<1>4. HintInv'
  BY <1>1, Zenon DEF HintInv, Canonical, RowCanonical, From, To
<1> QED
  BY <1>2, <1>3, <1>4 DEF VInv

-----------------------------------------------------------------------------
(* One action at a time: the invariant, and a step or a stutter of VerifySpec *)

Implements == Promise!Decide \/ UNCHANGED Promise!vars

LEMMA NoVerdict ==
  ASSUME UNCHANGED signature, result' = result PROVE Implements
BY DEF Implements, signature, Promise!vars

LEMMA StartRowStep ==
  ASSUME VInv, StartRow PROVE VInv' /\ Implements
<1>1. /\ pc = "rows" /\ ~malformed_hint /\ malformed_hint' = CountWrong
      /\ j' = previous_true_hints_seen /\ pc' = "hints"
      /\ UNCHANGED <<signature, i, previous_true_hints_seen, hint, result>>
  BY DEF StartRow
<1>2. i \in Rows
  BY SizesAre DEF StartRow, Rows, VInv, TypeInv
<1>3. ~stack /\ pc # "hints" /\ pc # "done"
  BY <1>1, Zenon DEF VInv, PhaseInv
<1>4. Implements
  BY <1>1, NoVerdict
<1>5. CASE CountWrong
  <2>1. ~Canonical(hint_serialized)
    BY <1>1, <1>2, <1>3, <1>5, WrongCount
  <2>2. j' \in Nat
    BY <1>1, <1>3 DEF VInv, HintInv
  <2>3. malformed_hint' = TRUE
    BY <1>1, <1>5, Zenon
  <2> QED
    BY <1>1, <1>2, <1>3, <1>4, <2>1, <2>2, <2>3, Malformed
<1>6. CASE ~CountWrong
  <2>1. malformed_hint' = FALSE
    BY <1>1, <1>6, Zenon DEF CountWrong
  <2> QED
    BY <1>1, <1>2, <1>3, <1>4, <1>6, <2>1, RowBegins
<1> QED
  BY <1>5, <1>6

LEMMA DecodeHintStep ==
  ASSUME VInv, DecodeHint PROVE VInv' /\ Implements
<1>1. /\ pc = "hints" /\ ~stack /\ ~malformed_hint /\ j < current_true_hints_seen
      /\ malformed_hint' = PositionWrong
      /\ UNCHANGED <<signature, pc, i, previous_true_hints_seen, result>>
  BY DEF DecodeHint
<1>2. Implements
  BY <1>1, NoVerdict
<1>3. CASE PositionWrong
  <2>1. hint' = hint /\ j' = j /\ j \in Nat /\ i \in Rows
    BY <1>1, <1>3 DEF DecodeHint, VInv, TypeInv, PhaseInv
  <2>2. ~Canonical(hint_serialized)
    BY <1>1, <1>3, WrongPosition
  <2>3. malformed_hint' = TRUE
    BY <1>1, <1>3, Zenon DEF PositionWrong
  <2>4. pc' = "hints" /\ pc # "done"
    BY <1>1
  <2> QED
    BY <1>1, <1>2, <2>1, <2>2, <2>3, <2>4, Malformed
<1>4. CASE ~PositionWrong
  <2>1. SetHint /\ j' = j + 1
    BY <1>4 DEF DecodeHint
  <2>2. malformed_hint' = FALSE
    BY <1>1, <1>4, Zenon DEF PositionWrong
  <2> QED
    BY <1>1, <1>2, <1>4, <2>1, <2>2, DecodeOne
<1> QED
  BY <1>3, <1>4

(* On to the next row, in either build. *)
LEMMA NextRow ==
  ASSUME VInv, pc = "hints", ~malformed_hint, j >= current_true_hints_seen,
         i' = i + 1, previous_true_hints_seen' = current_true_hints_seen, j' \in Nat,
         UNCHANGED <<signature, malformed_hint, hint, result>>,
         pc' \in {"rows", "columns", "compare"}, PhaseInv'
  PROVE  VInv'
<1>1. TypeInv'
  BY RowDone, TypesKept DEF VInv, TypeInv
<1>2. HintInv'
  BY RowDone DEF HintInv, signature
<1> QED
  BY <1>1, <1>2 DEF VInv

LEMMA EndRowStep ==
  ASSUME VInv, EndRow PROVE VInv' /\ Implements
<1>1. /\ pc = "hints" /\ ~stack /\ pc' = "rows"
      /\ UNCHANGED <<signature, j, malformed_hint, hint, result>>
  BY DEF EndRow
<1>2. Implements
  BY <1>1, NoVerdict
<1>3. j \in Nat /\ result = Undecided
  BY <1>1 DEF VInv, TypeInv, PhaseInv
<1>4. CASE malformed_hint
  <2>1. i' = i /\ ~Canonical(hint_serialized) /\ malformed_hint = TRUE
    BY <1>4, Zenon DEF EndRow, VInv, HintInv, TypeInv
  <2> QED
    BY <1>1, <1>2, <1>3, <2>1, Malformed
<1>5. CASE ~malformed_hint
  <2>1. /\ j >= current_true_hints_seen /\ i' = i + 1
        /\ previous_true_hints_seen' = current_true_hints_seen
    BY <1>5 DEF EndRow
  <2>2. PhaseInv'
    BY <1>1, <1>3, Zenon DEF PhaseInv, signature
  <2> QED
    BY <1>1, <1>2, <1>3, <1>5, <2>1, <2>2, NextRow
<1> QED
  BY <1>4, <1>5

LEMMA EndDeserializeStep ==
  ASSUME VInv, EndDeserialize PROVE VInv' /\ Implements
<1>1. /\ pc = "rows" /\ (malformed_hint \/ i = ROWS)
      /\ malformed_hint' = (malformed_hint \/ PaddingWrong(previous_true_hints_seen))
      /\ UNCHANGED <<signature, i, j, previous_true_hints_seen, hint>>
  BY DEF EndDeserialize
<1>2. result = Undecided /\ ~stack /\ pc # "done" /\ malformed_hint' \in BOOLEAN
  BY <1>1, Zenon DEF VInv, PhaseInv, TypeInv, PaddingWrong
<1>3. malformed_hint' <=> ~Canonical(hint_serialized)
  <2>1. CASE malformed_hint
    BY <1>1, <2>1, Zenon DEF VInv, HintInv
  <2>2. CASE ~malformed_hint
    <3>1. Canonical(hint_serialized) <=> ~PaddingWrong(previous_true_hints_seen)
      BY <1>1, <1>2, <2>2, Padding
    <3> QED
      BY <1>1, <2>2, <3>1, Zenon
  <2> QED
    BY <2>1, <2>2
<1>4. CASE malformed_hint'
  <2>1. Return("MalformedHintError")
    BY <1>4, Zenon DEF EndDeserialize
  <2>2. Decides("MalformedHintError")
    BY <1>2, <1>3, <1>4, <2>1, Zenon DEF Decides
  <2> QED
    BY <1>1, <1>2, <1>3, <2>1, <2>2, Returned, DecidesIs DEF Implements
<1>5. CASE ~malformed_hint' /\ exceeds # {}
  <2>1. Return("SignerResponseExceedsBoundError")
    BY <1>5, Zenon DEF EndDeserialize
  <2>2. Decides("SignerResponseExceedsBoundError")
    BY <1>2, <1>5, <2>1, Zenon DEF Decides
  <2> QED
    BY <1>1, <1>2, <1>3, <2>1, <2>2, Returned, DecidesIs DEF Implements
<1>6. CASE ~malformed_hint' /\ exceeds = {}
  <2>1. pc' = "compare" /\ result' = result
    BY <1>6, Zenon DEF EndDeserialize
  <2>2. ~malformed_hint /\ i = ROWS /\ Canonical(hint_serialized)
    BY <1>1, <1>3, <1>6, Zenon
  <2>3. Implements
    BY <1>1, <2>1, NoVerdict
  <2>4. TypeInv'
    BY <1>1, <1>2, <2>1, TypesKept, Zenon DEF VInv, TypeInv
  <2>5. hint_serialized' = hint_serialized /\ exceeds' = exceeds /\ stack' = stack
    BY <1>1 DEF signature
  <2>6. PhaseInv'
    BY <1>1, <1>2, <1>6, <2>1, <2>2, <2>5, Zenon
       DEF PhaseInv, Canonical, RowCanonical, From, To
  <2>7. HintInv'
    BY <1>1, <1>2, <1>6, <2>1, <2>2, <2>5, Zenon
       DEF VInv, HintInv, Canonical, RowCanonical, From, To
  <2> QED
    BY <2>3, <2>4, <2>6, <2>7 DEF VInv
<1> QED
  BY <1>4, <1>5, <1>6

LEMMA DecodeResponseStep ==
  ASSUME VInv, DecodeResponse PROVE VInv' /\ Implements
<1>1. /\ pc = "columns" /\ j < COLUMNS
      /\ UNCHANGED <<signature, i, previous_true_hints_seen, malformed_hint, hint>>
  BY DEF DecodeResponse
<1>2. result = Undecided /\ stack /\ ~malformed_hint /\ malformed_hint' \in BOOLEAN /\ j \in Nat
      /\ i \in Rows
  BY <1>1, Zenon DEF VInv, PhaseInv, TypeInv
<1>3. CASE j \in exceeds
  <2>1. Return("SignerResponseExceedsBoundError") /\ j' = j
    BY <1>3 DEF DecodeResponse
  <2>2. Decides("SignerResponseExceedsBoundError")
    BY <1>2, <1>3, <2>1, Zenon DEF Decides
  <2> QED
    BY <1>1, <1>2, <2>1, <2>2, Returned, DecidesIs DEF Implements
<1>4. CASE j \notin exceeds
  <2>1. j' = j + 1 /\ pc' = pc /\ result' = result
    BY <1>4 DEF DecodeResponse
  <2>2. Implements
    BY <1>1, <2>1, NoVerdict
  <2>3. hint_serialized' = hint_serialized /\ exceeds' = exceeds /\ stack' = stack
    BY <1>1 DEF signature
  <2>4. j' \in Nat /\ j' <= COLUMNS
    BY <1>1, <1>2, <2>1, SizesAre
  <2>5. \A c \in exceeds : ~(c < j')
    <3> SUFFICES ASSUME NEW c \in exceeds PROVE ~(c < j + 1)
      BY <2>1
    <3>1. c \in Int /\ ~(c < j) /\ c # j
      BY <1>1, <1>4 DEF VInv, TypeInv, PhaseInv
    <3> QED
      BY <1>2, <3>1
  <2>6. TypeInv'
    BY <1>1, <1>2, <2>1, <2>4, TypesKept DEF VInv, TypeInv
  <2>7. PhaseInv'
    BY <1>1, <1>2, <2>1, <2>3, <2>4, <2>5, Zenon DEF VInv, PhaseInv
  <2>8. HintInv'
    BY <1>1, <1>2, <2>1, <2>3, Zenon DEF VInv, HintInv, Canonical, RowCanonical, From, To
  <2> QED
    BY <2>2, <2>6, <2>7, <2>8 DEF VInv
<1> QED
  BY <1>3, <1>4

LEMMA StartRowHintStep ==
  ASSUME VInv, StartRowHint PROVE VInv' /\ Implements
<1>1. /\ pc = "columns" /\ j = COLUMNS
      /\ UNCHANGED <<signature, i, previous_true_hints_seen, malformed_hint, hint>>
  BY DEF StartRowHint
<1>2. result = Undecided /\ stack /\ ~malformed_hint /\ malformed_hint' \in BOOLEAN /\ i \in Rows
  BY <1>1, Zenon DEF VInv, PhaseInv, TypeInv
<1>3. CASE CountWrong
  <2>1. Return("MalformedHintError") /\ j' = j
    BY <1>3 DEF StartRowHint
  <2>2. ~Canonical(hint_serialized)
    BY <1>1, <1>2, <1>3, WrongCount
  <2>3. Decides("MalformedHintError")
    BY <1>2, <2>1, <2>2, Zenon DEF Decides
  <2> QED
    BY <1>1, <1>2, <2>1, <2>2, <2>3, Returned, DecidesIs DEF Implements
<1>4. CASE ~CountWrong
  <2>1. pc' = "hints" /\ j' = previous_true_hints_seen /\ result' = result
    BY <1>4 DEF StartRowHint
  <2>2. malformed_hint' = FALSE
    BY <1>1, <1>2, Zenon DEF VInv, TypeInv
  <2>3. exceeds = {}
    <3> SUFFICES ASSUME NEW c \in exceeds PROVE FALSE
      OBVIOUS
    <3>1. c \in 0 .. COLUMNS - 1 /\ ~(c < COLUMNS)
      BY <1>1 DEF VInv, TypeInv, PhaseInv
    <3> QED
      BY <3>1, SizesAre
  <2>4. Implements
    BY <1>1, <2>1, NoVerdict
  <2> QED
    BY <1>1, <1>2, <1>4, <2>1, <2>2, <2>3, <2>4, RowBegins
<1> QED
  BY <1>3, <1>4

LEMMA DecodeRowHintStep ==
  ASSUME VInv, DecodeRowHint PROVE VInv' /\ Implements
<1>1. /\ pc = "hints" /\ stack /\ j < current_true_hints_seen
      /\ UNCHANGED <<signature, i, previous_true_hints_seen, malformed_hint>>
  BY DEF DecodeRowHint
<1>2. result = Undecided /\ ~malformed_hint /\ malformed_hint' \in BOOLEAN
  BY <1>1, Zenon DEF VInv, PhaseInv, TypeInv
<1>3. CASE PositionWrong
  <2>1. Return("MalformedHintError") /\ UNCHANGED <<hint, j>>
    BY <1>3 DEF DecodeRowHint
  <2>2. ~Canonical(hint_serialized)
    BY <1>1, <1>2, <1>3, WrongPosition
  <2>3. Decides("MalformedHintError")
    BY <1>2, <2>1, <2>2, Zenon DEF Decides
  <2> QED
    BY <1>1, <1>2, <2>1, <2>2, <2>3, Returned, DecidesIs DEF Implements
<1>4. CASE ~PositionWrong
  <2>1. SetHint /\ j' = j + 1 /\ UNCHANGED <<pc, result>>
    BY <1>4 DEF DecodeRowHint
  <2>2. malformed_hint' = FALSE
    BY <1>1, <1>2, Zenon DEF VInv, TypeInv
  <2>3. Implements
    BY <1>1, <2>1, NoVerdict
  <2> QED
    BY <1>1, <1>2, <1>4, <2>1, <2>2, <2>3, DecodeOne
<1> QED
  BY <1>3, <1>4

LEMMA EndRowHintStep ==
  ASSUME VInv, EndRowHint PROVE VInv' /\ Implements
<1>1. /\ pc = "hints" /\ stack /\ j = current_true_hints_seen
      /\ previous_true_hints_seen' = current_true_hints_seen
      /\ UNCHANGED <<signature, malformed_hint, hint>>
  BY DEF EndRowHint
<1>2. /\ result = Undecided /\ ~malformed_hint /\ malformed_hint' \in BOOLEAN
      /\ i \in Rows /\ exceeds = {}
  BY <1>1, Zenon DEF VInv, PhaseInv, TypeInv
<1>3. /\ i + 1 \in 0 .. ROWS /\ j >= current_true_hints_seen
      /\ current_true_hints_seen = From(hint_serialized, i + 1)
      /\ \A q \in Rows : q < i + 1 => RowCanonical(hint_serialized, q)
  <2>1. current_true_hints_seen \in Nat
    BY <1>1, <1>2, WrongCount
  <2>2. j >= current_true_hints_seen
    BY <1>1, <2>1
  <2> QED
    BY <1>1, <1>2, <2>2, RowDone
(* The padding is looked at with the last row. *)
<1>4. LastRow => (Canonical(hint_serialized) <=> ~PaddingWrong(current_true_hints_seen))
  <2> SUFFICES ASSUME LastRow
               PROVE  Canonical(hint_serialized) <=> ~PaddingWrong(current_true_hints_seen)
    OBVIOUS
  <2>1. i = ROWS - 1 /\ \A q \in Rows : q < i + 1
    BY SizesAre DEF LastRow, Rows
  <2>2. current_true_hints_seen = To(hint_serialized, ROWS - 1)
    BY <2>1 DEF current_true_hints_seen, To
  <2> QED
    BY <1>3, <2>1, <2>2 DEF Canonical, PaddingWrong
<1>5. CASE LastRow /\ PaddingWrong(current_true_hints_seen)
  <2>1. Return("MalformedHintError") /\ UNCHANGED <<i, j>>
    BY <1>5 DEF EndRowHint
  <2>2. ~Canonical(hint_serialized)
    BY <1>4, <1>5
  <2>3. Decides("MalformedHintError")
    BY <1>2, <2>1, <2>2, Zenon DEF Decides
  <2> QED
    BY <1>1, <1>2, <2>1, <2>2, <2>3, Returned, DecidesIs DEF Implements
<1>6. CASE ~(LastRow /\ PaddingWrong(current_true_hints_seen))
  <2>1. /\ i' = i + 1 /\ j' = 0 /\ result' = result
        /\ pc' = IF i + 1 < ROWS THEN "columns" ELSE "compare"
    BY <1>6 DEF EndRowHint
  <2>2. Implements
    BY <1>1, <2>1, NoVerdict
  <2>3. hint_serialized' = hint_serialized /\ exceeds' = exceeds /\ stack' = stack
    BY <1>1 DEF signature
  <2>4. CASE i + 1 < ROWS
    <3>1. i + 1 \in Rows /\ 0 <= COLUMNS /\ 0 \in Nat
      BY <1>2, <2>4, SizesAre DEF Rows
    <3>2. pc' = "columns"
      BY <2>1, <2>4
    <3>3. \A c \in exceeds : ~(c < 0)
      BY <1>2
    <3>4. PhaseInv'
      BY <1>1, <1>2, <2>1, <2>3, <3>1, <3>2, <3>3, Zenon DEF PhaseInv
    <3> QED
      BY <1>1, <1>2, <1>3, <2>1, <2>2, <3>1, <3>2, <3>4, NextRow
  <2>5. CASE ~(i + 1 < ROWS)
    <3>1. i + 1 = ROWS /\ LastRow /\ 0 \in Nat
      BY <1>2, <2>5, SizesAre DEF Rows, LastRow
    <3>2. pc' = "compare" /\ Canonical(hint_serialized)
      BY <1>4, <1>6, <2>1, <2>5, <3>1
    <3>3. PhaseInv'
      BY <1>1, <1>2, <2>1, <2>3, <3>1, <3>2, Zenon DEF PhaseInv, Canonical, RowCanonical, From, To
    <3> QED
      BY <1>1, <1>2, <1>3, <2>1, <2>2, <3>1, <3>2, <3>3, NextRow
  <2> QED
    BY <2>4, <2>5
<1> QED
  BY <1>5, <1>6

LEMMA CompareStep ==
  ASSUME VInv, Compare PROVE VInv' /\ Implements
<1>1. /\ pc = "compare"
      /\ Return(IF hash_matches THEN "Ok" ELSE "CommitmentHashesDontMatchError")
      /\ UNCHANGED <<signature, i, j, previous_true_hints_seen, malformed_hint, hint>>
  BY DEF Compare
<1>2. /\ result = Undecided /\ ~malformed_hint /\ malformed_hint' \in BOOLEAN
      /\ i = ROWS /\ exceeds = {} /\ Canonical(hint_serialized)
  BY <1>1, Zenon DEF VInv, PhaseInv, TypeInv
<1>3. hint = HintOf(hint_serialized)
  BY <1>1, <1>2, Padding
<1>4. CASE hash_matches
  <2>1. Return("Ok")
    BY <1>1, <1>4
  <2>2. Decides("Ok")
    BY <1>2, <1>3, <1>4, <2>1, Zenon DEF Decides
  <2> QED
    BY <1>1, <1>2, <2>1, <2>2, Returned, DecidesIs DEF Implements
<1>5. CASE ~hash_matches
  <2>1. Return("CommitmentHashesDontMatchError")
    BY <1>1, <1>5
  <2>2. Decides("CommitmentHashesDontMatchError")
    BY <1>2, <1>5, <2>1, Zenon DEF Decides
  <2> QED
    BY <1>1, <1>2, <2>1, <2>2, Returned, DecidesIs DEF Implements
<1> QED
  BY <1>4, <1>5

LEMMA Stutters ==
  ASSUME VInv, UNCHANGED vars PROVE VInv' /\ Implements
<1>1. UNCHANGED signature /\ UNCHANGED <<pc, i, j, previous_true_hints_seen, malformed_hint, hint, result>>
  BY DEF vars
<1>2. TypeInv'
  BY <1>1, Zenon DEF VInv, TypeInv, signature, HintBytes, U8, Hints, Rows, Coeffs
<1>3. PhaseInv'
  BY <1>1, Zenon DEF VInv, PhaseInv, signature, Canonical, RowCanonical, From, To
<1>4. HintInv'
  BY <1>1, Zenon DEF VInv, HintInv, signature, Canonical, RowCanonical, From, To,
     CountWrong, current_true_hints_seen
<1> QED
  BY <1>1, <1>2, <1>3, <1>4, NoVerdict DEF VInv

LEMMA Step == VInv /\ [Next]_vars => VInv' /\ Implements
BY StartRowStep, DecodeHintStep, EndRowStep, EndDeserializeStep, DecodeResponseStep,
   StartRowHintStep, DecodeRowHintStep, EndRowHintStep, CompareStep, Stutters DEF Next

-----------------------------------------------------------------------------
(* One encoding of each hint *)

LEMMA Least ==
  ASSUME NEW T \in SUBSET Nat, T # {}
  PROVE  \E n \in T : \A m \in T : n <= m
<1>1. IsWellFoundedOn(OpToRel(<, Nat), Nat)
  BY NatLessThanWellFounded
<1> DEFINE R == OpToRel(<, Nat)
<1>2. \A x, y \in Nat : <<x, y>> \in R <=> x < y
  BY DEF OpToRel
<1> HIDE DEF R
<1>3. PICK n \in T : \A m \in T : ~(<<m, n>> \in R)
  BY <1>1, WFMin, Zenon DEF R
<1>4. ASSUME NEW m \in T PROVE n <= m
  <2>1. ~(m < n) /\ m \in Nat /\ n \in Nat
    BY <1>2, <1>3
  <2> QED
    BY <2>1
<1> QED
  BY <1>4

(* Neighbours that ascend make the whole of a row ascend. *)
LEMMA Ascends ==
  ASSUME NEW a \in Nat, NEW b \in Nat, NEW s, \A k \in a .. b - 1 : s[k] \in Nat,
         \A k \in a + 1 .. b - 1 : s[k - 1] < s[k],
         NEW x \in a .. b - 1, NEW y \in a .. b - 1, x < y
  PROVE  s[x] < s[y]
<1> DEFINE T == {k \in x + 1 .. b - 1 : ~(s[x] < s[k])}
<1>1. SUFFICES ASSUME T # {} PROVE FALSE
  <2>1. y \in x + 1 .. b - 1
    OBVIOUS
  <2> QED
    BY <2>1
<1>2. T \in SUBSET Nat
  OBVIOUS
<1> HIDE DEF T
<1>3. PICK n \in T : \A m \in T : n <= m
  BY <1>1, <1>2, Least
<1>4. n \in x + 1 .. b - 1 /\ ~(s[x] < s[n])
  BY DEF T
<1>5. n \in a + 1 .. b - 1 /\ s[n - 1] < s[n] /\ n \in a .. b - 1 /\ n - 1 \in a .. b - 1
  BY <1>4
<1>6. s[n] \in Nat /\ s[n - 1] \in Nat /\ s[x] \in Nat
  BY <1>5
<1>7. CASE n = x + 1
  BY <1>4, <1>5, <1>7
<1>8. CASE n # x + 1
  <2>1. n - 1 \in x + 1 .. b - 1 /\ ~(n <= n - 1)
    BY <1>4, <1>8
  <2>2. s[x] < s[n - 1]
    BY <1>3, <2>1 DEF T
  <2> QED
    BY <1>4, <1>5, <1>6, <2>2
<1> QED
  BY <1>7, <1>8

(* The values f takes from n to a - 1, that they rise, and that f and g agree on them. *)
Values(f, n, a) == {f[k] : k \in n .. a - 1}
Rising(f, n, a) == /\ \A k \in n .. a - 1 : f[k] \in Nat
                   /\ \A k \in n + 1 .. a - 1 : f[k - 1] < f[k]
Agree(f, g, n, a) == \A k \in n .. a - 1 : f[k] = g[k]

(* Rows that ascend and have the same positions are the same. *)
LEMMA SameRow ==
  ASSUME NEW n \in Nat, NEW a \in Nat, NEW b \in Nat, n <= a, n <= b, NEW s, NEW s2,
         Rising(s, n, a), Rising(s2, n, b), Values(s, n, a) = Values(s2, n, b)
  PROVE  a = b /\ Agree(s, s2, n, a)
<1>a. /\ \A k \in n .. a - 1 : s[k] \in Nat
      /\ \A k \in n + 1 .. a - 1 : s[k - 1] < s[k]
  BY DEF Rising
<1>b. /\ \A k \in n .. b - 1 : s2[k] \in Nat
      /\ \A k \in n + 1 .. b - 1 : s2[k - 1] < s2[k]
  BY DEF Rising
<1>c. ASSUME NEW k \in n .. a - 1 PROVE \E m \in n .. b - 1 : s[k] = s2[m]
  <2>1. s[k] \in Values(s, n, a)
    BY DEF Values
  <2> QED
    BY <2>1 DEF Values
<1>d. ASSUME NEW k \in n .. b - 1 PROVE \E m \in n .. a - 1 : s2[k] = s[m]
  <2>1. s2[k] \in Values(s2, n, b)
    BY DEF Values
  <2> QED
    BY <2>1 DEF Values
<1> DEFINE T == {k \in Nat : n <= k /\ (k < a \/ k < b) /\ ~(k < a /\ k < b /\ s[k] = s2[k])}
<1>1. ASSUME NEW x \in n .. a - 1, NEW y \in n .. a - 1, x < y PROVE s[x] < s[y]
  BY <1>1, <1>a, Ascends
<1>2. ASSUME NEW x \in n .. b - 1, NEW y \in n .. b - 1, x < y PROVE s2[x] < s2[y]
  BY <1>2, <1>b, Ascends
<1>3. ASSUME T # {} PROVE FALSE
  <2>1. PICK k \in T : \A m \in T : k <= m
    <3>1. T \in SUBSET Nat
      OBVIOUS
    <3> HIDE DEF T
    <3> QED
      BY <1>3, <3>1, Least
  <2>2. k \in Nat /\ n <= k /\ (k < a \/ k < b) /\ ~(k < a /\ k < b /\ s[k] = s2[k])
    OBVIOUS
  <2>3. ASSUME NEW m \in n .. k - 1 PROVE m < a /\ m < b /\ s[m] = s2[m]
    <3>1. m \in Nat /\ n <= m /\ (m < a \/ m < b) /\ ~(k <= m)
      BY <2>2
    <3> QED
      BY <2>1, <3>1
  <2> HIDE DEF T
  <2>4. CASE k < a
    <3>1. k \in n .. a - 1
      BY <2>2, <2>4
    <3>2. PICK m \in n .. b - 1 : s[k] = s2[m]
      BY <1>c, <3>1
    <3>3. ~(m < k)
      <4> SUFFICES ASSUME m < k PROVE FALSE
        OBVIOUS
      <4>1. m \in n .. k - 1 /\ m \in n .. a - 1
        BY <2>2, <2>4, <3>2
      <4>2. s[m] = s2[m]
        BY <2>3, <4>1
      <4>3. s[m] < s[k] /\ s[m] \in Nat
        BY <1>1, <1>a, <3>1, <4>1
      <4> QED
        BY <3>2, <4>2, <4>3
    <3>4. k < b /\ s[k] # s2[k] /\ k \in n .. b - 1 /\ k < m
      <4>2. m # k
        BY <2>2, <2>4, <3>2
      <4>3. m \in Nat /\ k < m /\ m < b
        BY <2>2, <3>2, <3>3, <4>2
      <4> QED
        BY <2>2, <2>4, <4>3
    <3>5. s2[k] < s[k]
      BY <1>2, <3>2, <3>4
    <3>6. PICK q \in n .. a - 1 : s2[k] = s[q]
      BY <1>d, <3>4
    <3>7. ~(q < k)
      <4> SUFFICES ASSUME q < k PROVE FALSE
        OBVIOUS
      <4>1. q \in n .. k - 1 /\ q \in n .. b - 1
        BY <2>2, <2>3, <3>4
      <4>2. s2[q] < s2[k] /\ s[q] = s2[q]
        BY <1>2, <2>3, <3>4, <4>1
      <4>3. s[q] \in Nat
        BY <1>a, <3>6
      <4> QED
        BY <3>6, <4>2, <4>3
    <3>8. CASE q = k
      BY <3>4, <3>6, <3>8
    <3>9. CASE k < q
      <4>1. s[k] < s[q] /\ s[k] \in Nat /\ s[q] \in Nat
        BY <1>1, <1>a, <3>1, <3>9
      <4> QED
        BY <3>5, <3>6, <4>1
    <3> QED
      BY <2>2, <3>7, <3>8, <3>9
  <2>5. CASE ~(k < a)
    <3>1. k \in n .. b - 1
      BY <2>2, <2>5
    <3>2. PICK m \in n .. a - 1 : s2[k] = s[m]
      BY <1>d, <3>1
    <3>3. m \in n .. k - 1 /\ m \in n .. b - 1 /\ m < k
      BY <2>2, <2>5, <3>1
    <3>4. s2[m] < s2[k] /\ s[m] = s2[m] /\ s2[k] \in Nat
      BY <1>2, <1>b, <2>3, <3>1, <3>3
    <3> QED
      BY <3>2, <3>4
  <2> QED
    BY <2>4, <2>5
<1>4. \A k \in Nat : n <= k /\ (k < a \/ k < b) => k < a /\ k < b /\ s[k] = s2[k]
  BY <1>3
<1>5. a = b
  <2>1. CASE a < b
    <3>1. a \in Nat /\ n <= a /\ ~(a < a)
      OBVIOUS
    <3> QED
      BY <1>4, <2>1, <3>1
  <2>2. CASE b < a
    <3>1. b \in Nat /\ n <= b /\ ~(b < b)
      OBVIOUS
    <3> QED
      BY <1>4, <2>2, <3>1
  <2> QED
    BY <2>1, <2>2
<1>6. ASSUME NEW k \in n .. a - 1 PROVE s[k] = s2[k]
  BY <1>4
<1> QED
  BY <1>5, <1>6 DEF Agree

LEMMA CanonicalUnique ==
  ASSUME NEW s \in HintBytes, NEW s2 \in HintBytes, Canonical(s), Canonical(s2),
         HintOf(s) = HintOf(s2)
  PROVE  s = s2
<1>1. ASSUME NEW t \in HintBytes, Canonical(t), NEW r \in Rows
      PROVE  /\ From(t, r) \in Nat /\ To(t, r) \in Nat /\ From(t, r) <= To(t, r) /\ To(t, r) <= OMEGA
             /\ \A k \in From(t, r) + 1 .. To(t, r) - 1 : t[k - 1] < t[k]
             /\ \A k \in From(t, r) .. To(t, r) - 1 : t[k] \in Nat
             /\ HintOf(t)[r] = {t[k] : k \in From(t, r) .. To(t, r) - 1}
  <2>1. From(t, r) \in Nat /\ To(t, r) \in Nat
    BY CountsAre
  <2>2. /\ From(t, r) <= To(t, r) /\ To(t, r) <= OMEGA
        /\ \A k \in From(t, r) + 1 .. To(t, r) - 1 : t[k - 1] < t[k]
    BY <1>1 DEF Canonical, RowCanonical
  <2>3. \A k \in From(t, r) .. To(t, r) - 1 : k \in 0 .. OMEGA + ROWS - 1
    BY <2>1, <2>2, SizesAre
  <2>4. \A k \in From(t, r) .. To(t, r) - 1 : t[k] \in Nat
    BY <2>3, SizesAre DEF HintBytes, U8
  <2>5. HintOf(t)[r] = {t[k] : k \in From(t, r) .. To(t, r) - 1}
    BY DEF HintOf
  <2> QED
    BY <2>1, <2>2, <2>4, <2>5
<1>2. ASSUME NEW r \in Rows, From(s, r) = From(s2, r)
      PROVE  /\ To(s, r) = To(s2, r)
             /\ \A k \in From(s, r) .. To(s, r) - 1 : s[k] = s2[k]
  <2> DEFINE n == From(s, r)
             a == To(s, r)
             b == To(s2, r)
  <2>1. /\ n \in Nat /\ a \in Nat /\ b \in Nat /\ n <= a /\ n <= b
        /\ \A k \in n .. a - 1 : s[k] \in Nat
        /\ \A k \in n .. b - 1 : s2[k] \in Nat
        /\ \A k \in n + 1 .. a - 1 : s[k - 1] < s[k]
        /\ \A k \in n + 1 .. b - 1 : s2[k - 1] < s2[k]
        /\ {s[k] : k \in n .. a - 1} = {s2[k] : k \in n .. b - 1}
    BY <1>1, <1>2
  <2> HIDE DEF n, a, b
  <2>2. n \in Nat /\ a \in Nat /\ b \in Nat /\ n <= a /\ n <= b
    BY <2>1
  <2>3. Rising(s, n, a) /\ Rising(s2, n, b)
    BY <2>1 DEF Rising
  <2>4. Values(s, n, a) = Values(s2, n, b)
    BY <2>1 DEF Values
  <2>5. a = b /\ Agree(s, s2, n, a)
    BY <2>2, <2>3, <2>4, SameRow
  <2> QED
    BY <2>5 DEF n, a, b, Agree
(* By the first row that would begin elsewhere. *)
<1>3. \A r \in 0 .. ROWS : From(s, r) = From(s2, r)
  <2> DEFINE T == {r \in 0 .. ROWS : From(s, r) # From(s2, r)}
  <2>1. SUFFICES ASSUME T # {} PROVE FALSE
    OBVIOUS
  <2>2. T \in SUBSET Nat
    OBVIOUS
  <2> HIDE DEF T
  <2>3. PICK r \in T : \A m \in T : r <= m
    BY <2>1, <2>2, Least
  <2>4. r \in 0 .. ROWS /\ From(s, r) # From(s2, r) /\ r # 0
    BY DEF T, From
  <2>5. r - 1 \in Rows /\ r - 1 \in 0 .. ROWS /\ (r - 1) + 1 = r /\ ~(r <= r - 1)
    BY <2>4, SizesAre DEF Rows
  <2>6. From(s, r - 1) = From(s2, r - 1)
    BY <2>3, <2>5 DEF T
  <2>7. From(s, r) = To(s, r - 1) /\ From(s2, r) = To(s2, r - 1)
    BY <2>5, CountsAre
  <2> QED
    BY <1>2, <2>4, <2>5, <2>6, <2>7
<1>4. ASSUME NEW r \in Rows
      PROVE  /\ To(s, r) = To(s2, r)
             /\ \A k \in From(s, r) .. To(s, r) - 1 : s[k] = s2[k]
  <2>1. r \in 0 .. ROWS
    BY SizesAre DEF Rows
  <2> QED
    BY <1>2, <1>3, <2>1
<1>5. ASSUME NEW k \in 0 .. OMEGA + ROWS - 1 PROVE s[k] = s2[k]
  <2>1. ROWS - 1 \in Rows /\ ROWS - 1 + 1 = ROWS
    BY SizesAre DEF Rows
  <2>2. CASE k >= OMEGA
    <3>1. k - OMEGA \in Rows /\ OMEGA + (k - OMEGA) = k
      BY <2>2, SizesAre DEF Rows
    <3> QED
      BY <1>4, <3>1 DEF To
  <2>3. CASE k < OMEGA /\ To(s, ROWS - 1) <= k
    <3>1. k \in To(s, ROWS - 1) .. OMEGA - 1 /\ To(s, ROWS - 1) = To(s2, ROWS - 1)
      BY <1>1, <1>4, <2>1, <2>3, SizesAre
    <3> QED
      BY <3>1 DEF Canonical
  <2>4. CASE k < To(s, ROWS - 1)
    <3> DEFINE T == {r \in Rows : k < To(s, r)}
    <3>1. T \in SUBSET Nat /\ T # {}
      BY <2>1, <2>4 DEF Rows
    <3> HIDE DEF T
    <3>2. PICK r \in T : \A m \in T : r <= m
      BY <3>1, Least
    <3>3. r \in Rows /\ k < To(s, r)
      BY DEF T
    <3>4. From(s, r) <= k
      <4>1. CASE r = 0
        BY <4>1 DEF From
      <4>2. CASE r # 0
        <5>1. r - 1 \in Rows /\ (r - 1) + 1 = r /\ ~(r <= r - 1)
          BY <3>3, <4>2, SizesAre DEF Rows
        <5>2. ~(k < To(s, r - 1))
          BY <3>2, <5>1 DEF T
        <5>3. From(s, r) = To(s, r - 1) /\ To(s, r - 1) \in Nat
          BY <5>1, CountsAre
        <5> QED
          BY <5>2, <5>3
      <4> QED
        BY <4>1, <4>2
    <3>5. k \in From(s, r) .. To(s, r) - 1
      BY <1>1, <3>3, <3>4
    <3> QED
      BY <1>4, <3>3, <3>5
  <2>5. To(s, ROWS - 1) \in Nat
    BY <2>1, CountsAre
  <2> QED
    BY <2>2, <2>3, <2>4, <2>5, SizesAre
<1>6. /\ s = [k \in 0 .. OMEGA + ROWS - 1 |-> s[k]]
      /\ s2 = [k \in 0 .. OMEGA + ROWS - 1 |-> s2[k]]
  BY Zenon DEF HintBytes
<1> QED
  BY <1>5, <1>6, Zenon

-----------------------------------------------------------------------------
(* The theorems *)

(***************************************************************************)
(* No byte of the counts is taken for a position, whatever counts the          *)
(* signature carries (signature.rs 107-119, 185-194).                          *)
(***************************************************************************)
THEOREM StaysInBounds == Spec => []PositionsInBounds
<1>1. VInv => PositionsInBounds
  <2> SUFFICES ASSUME VInv, pc = "hints", ~malformed_hint, j < current_true_hints_seen
               PROVE  j < OMEGA
    BY DEF PositionsInBounds
  <2> QED
    BY WrongPosition, SizesAre
<1>2. VInv /\ [Next]_vars => VInv'
  BY Step
<1> QED
  BY VInit, <1>1, <1>2, PTL DEF Spec

(***************************************************************************)
(* Both builds implement VerifySpec: whatever the signature, what is accepted   *)
(* is the one encoding of the hint that was used, within the bounds and with a  *)
(* matching hash, and what is refused has the defect that is reported.          *)
(***************************************************************************)
THEOREM Refinement == Spec => ImplementsVerifySpec
<1>1. Init => Promise!Init
  BY DEF Init, Promise!Init, Promise!Undecided, Promise!NoHint, Promise!Rows, Undecided, NoHint,
     Rows, HintBytes, U8, Promise!HintBytes, Promise!U8
<1>2. VInv /\ [Next]_vars => VInv'
  BY Step
<1>3. VInv /\ [Next]_vars => [Promise!Decide]_(Promise!vars)
  BY Step DEF Implements
<1> QED
  BY VInit, <1>1, <1>2, <1>3, PTL DEF Spec, ImplementsVerifySpec, Promise!Spec

(* What has been accepted. *)
AcceptedInv ==
  result.verdict = "Ok" =>
    Canonical(hint_serialized) /\ result.hint = HintOf(hint_serialized)

(***************************************************************************)
(* No other encoding of the hint of an accepted signature would be accepted     *)
(* (signature.rs 90-91), however many rows and ones a hint may have: positions   *)
(* that ascend and padding that is zero determine every byte.                   *)
(***************************************************************************)
THEOREM EncodingUnique == Spec => []OneEncoding
<1>1. Init => AcceptedInv
  BY DEF Init, Undecided, AcceptedInv
<1>2. VInv /\ [Next]_vars => VInv'
  BY Step
<1>3. VInv /\ AcceptedInv /\ [Next]_vars => AcceptedInv'
  <2> SUFFICES ASSUME AcceptedInv, Promise!Decide \/ UNCHANGED Promise!vars PROVE AcceptedInv'
    BY Step DEF Implements
  <2>1. hint_serialized' = hint_serialized
    BY DEF Promise!Decide, Promise!vars
  <2>2. CASE UNCHANGED Promise!vars
    BY <2>1, <2>2 DEF AcceptedInv, Promise!vars, Canonical, RowCanonical, HintOf, From, To
  <2>3. CASE Promise!Decide
    <3>1. result' \in Promise!Verdicts
      BY <2>3 DEF Promise!Decide
    <3>2. CASE Promise!Valid
      <4>1. Canonical(hint_serialized) /\ result'.hint = HintOf(hint_serialized)
        BY <3>1, <3>2, PromiseIs DEF Promise!Verdicts, Promise!Valid
      <4> QED
        BY <2>1, <4>1 DEF AcceptedInv, Canonical, RowCanonical, HintOf, From, To
    <3>3. CASE ~Promise!Valid
      <4>1. PICK r \in Promise!Reasons : result' = [verdict |-> r, hint |-> Promise!NoHint]
        BY <3>1, <3>3 DEF Promise!Verdicts
      <4>2. result'.verdict # "Ok"
        BY <4>1 DEF Promise!Reasons
      <4> QED
        BY <4>2 DEF AcceptedInv
    <3> QED
      BY <3>2, <3>3
  <2> QED
    BY <2>2, <2>3
<1>4. VInv /\ AcceptedInv => OneEncoding
  <2> SUFFICES ASSUME VInv, AcceptedInv, result.verdict = "Ok", NEW s \in HintBytes, Canonical(s),
                      HintOf(s) = result.hint
               PROVE  s = hint_serialized
    BY DEF OneEncoding
  <2>1. hint_serialized \in HintBytes
    BY DEF VInv, TypeInv
  <2> QED
    BY <2>1, CanonicalUnique DEF AcceptedInv
<1> QED
  BY VInit, <1>1, <1>2, <1>3, <1>4, PTL DEF Spec
=============================================================================
