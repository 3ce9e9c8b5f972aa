------------------------------- MODULE Loops --------------------------------
(***************************************************************************)
(* The counted loops of the shaders and of the CPU's big integers, as      *)
(* values: what a state is after the passes of a loop.                     *)
(***************************************************************************)
EXTENDS Integers

\* The state after n passes; pass i takes a state s to step[i][s].
Repeat(first, step, n) ==
    LET after[i \in Nat] == IF i = 0 THEN first ELSE step[i][after[i - 1]]
    IN  after[n]

Power(b, n) == Repeat(1, [i \in Nat |-> [x \in Int |-> b * x]], n)
=============================================================================
