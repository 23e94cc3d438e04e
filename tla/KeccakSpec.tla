----------------------------- MODULE KeccakSpec -----------------------------
(***************************************************************************)
(* One round of Keccak-f[1600] on words that are formulas: a word is the set  *)
(* of the terms it is the exclusive or of.  A term is <<x, y, h, n>>, half h  *)
(* of lane (x, y) as the round finds it, rotated by n; <<v, w, n>>, the and   *)
(* of the complement of v with w, rotated by n; or <<b>>, the constant with   *)
(* bit b alone.  Half 0 of a lane has its even bits, half 1 its odd ones.     *)
(***************************************************************************)
EXTENDS Integers, FiniteSets, Sequences, Functions

Five == 0 .. 4
Half == 0 .. 1
Lane == Five \X Five

Xor(v, w) == (v \ w) \cup (w \ v)
AndNot(v, w) == {<<v, w, 0>>}

RotTerm(t, n) ==
  IF Len(t) = 1 THEN <<(t[1] + n) % 32>>
  ELSE [t EXCEPT ![Len(t)] = (@ + n) % 32]

rotate_left(w, n) == {RotTerm(t, n) : t \in w}

(***************************************************************************)
(* A 64-bit rotation by n of a lane given as the function of its halves.     *)
(***************************************************************************)
Rotate64(lane, n) ==
  [h \in Half |->
     IF n % 2 = 0 THEN rotate_left(lane[h], n \div 2)
     ELSE rotate_left(lane[1 - h], (n + 1 - h) \div 2)]

XorLanes(v, w) == [h \in Half |-> Xor(v[h], w[h])]

(***************************************************************************)
(* The offsets of rho: (t + 1)(t + 2) / 2 for the t-th lane of the walk that  *)
(* starts at (1, 0) and goes from (x, y) to (y, 2x + 3y).                     *)
(***************************************************************************)
pi[x \in Five, y \in Five] == <<y, (2 * x + 3 * y) % 5>>

Walk[t \in 0 .. 23] == IF t = 0 THEN <<1, 0>> ELSE pi[Walk[t - 1]]

rho == [l \in Lane |->
          IF l = <<0, 0>> THEN 0
          ELSE LET t == CHOOSE t \in 0 .. 23 : Walk[t] = l
               IN  (((t + 1) * (t + 2)) \div 2) % 64]

(***************************************************************************)
(* The words a round starts from, and what it makes of them but the constant.*)
(***************************************************************************)
Names == [l \in Lane |-> [h \in Half |-> {<<l[1], l[2], h, 0>>}]]

Column(x) == [h \in Half |-> {<<x, y, h, 0>> : y \in Five}]

Theta == [l \in Lane |->
            XorLanes(Names[l], XorLanes(Column((l[1] + 4) % 5),
                                        Rotate64(Column((l[1] + 1) % 5), 1)))]

RhoPi == [l \in Lane |->
            LET from == CHOOSE from \in Lane : pi[from] = l
            IN  Rotate64(Theta[from], rho[from])]

Chi == [l \in Lane |-> [h \in Half |->
          LET b(k) == RhoPi[<<(l[1] + k) % 5, l[2]>>][h]
          IN  Xor(b(0), AndNot(b(1), b(2)))]]

(***************************************************************************)
(* The constants: bit 2^j - 1 of the n-th is the (j + 7n)-th output of the    *)
(* shift register of FIPS 202, whose state is the set of the bits that are 1. *)
(***************************************************************************)
Register[t \in 0 .. 167] ==
  IF t = 0 THEN {0}
  ELSE LET s == {b + 1 : b \in Register[t - 1]}
       IN  IF 8 \in s THEN Xor(s, {0, 4, 5, 6, 8}) ELSE s

RC[n \in 0 .. 23] == {2 ^ j - 1 : j \in {j \in 0 .. 6 : 0 \in Register[j + 7 * n]}}

(* The n-th round. *)
Round(n) ==
  [l \in Lane |-> [h \in Half |->
     IF l # <<0, 0>> THEN Chi[l][h]
     ELSE Xor(Chi[l][h], {<<b \div 2>> : b \in {b \in RC[n] : b % 2 = h}})]]
=============================================================================
