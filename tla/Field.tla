------------------------------- MODULE Field --------------------------------
(***************************************************************************)
(* Arithmetic modulo a prime, as demo/krackpot/src/reference/secp.js does  *)
(* it with big integers (mod, modInv).  It is what the field functions of  *)
(* shaders/bigint.js have to return, and what the formulas of              *)
(* shaders/secp256k1.js rest on.                                           *)
(***************************************************************************)
EXTENDS Integers, Sequences

CONSTANT P

\* An odd prime.
ASSUME FieldAssumption ==
    /\ P \in Nat \ {0, 1, 2}
    /\ \A d \in 2..(P - 1) : P % d # 0

mod(a) == a % P

\* The extended Euclidean algorithm.
modInv(a) ==
    LET euclid[e \in [g : Nat, x : Int, g1 : Nat, x1 : Int]] ==
            LET q == e.g \div e.g1
            IN  IF e.g1 = 0 THEN mod(e.x)
                ELSE euclid[[g |-> e.g1, x |-> e.x1, g1 |-> e.g - q * e.g1, x1 |-> e.x - q * e.x1]]
    IN  euclid[[g |-> P, x |-> 0, g1 |-> mod(a), x1 |-> 1]]

\* By Fermat's theorem the shader's power of zero is zero.
Inverse(a) == IF a = 0 THEN 0 ELSE modInv(a)
=============================================================================
