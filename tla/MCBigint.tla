------------------------------ MODULE MCBigint ------------------------------
(* Three words of four bits, modulus 4096 - 16 - 7 = 4073, a prime; the      *)
(* words of an operand are the least and the greatest, and those of the      *)
(* modulus and next to them.                                                 *)
EXTENDS Bigint

MCWord == {0, 1, 9, 14, 15}
MCOperand == {x + 16 * y + 256 * z : x, y, z \in MCWord}
=============================================================================
