----------------------------- MODULE MCKeccakXof ----------------------------
(* Instances of KeccakXof for TLC. *)
EXTENDS KeccakXof

MCByte == {0, 1}
Strings(lens) == UNION {[1 .. n -> MCByte] : n \in lens}

(* Every string of up to four bytes, one block and a rest; and of the longer  *)
(* ones, which make two passes of the block loop after filling the buffer,    *)
(* one of each length: nothing here looks at the value of a byte.             *)
MCInputs == Strings(0 .. 4) \cup {[j \in 1 .. n |-> (j \div 2) % 2] : n \in 5 .. 9}
=============================================================================
