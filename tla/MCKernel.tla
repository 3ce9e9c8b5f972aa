------------------------------ MODULE MCKernel ------------------------------
(* The curve y^2 = x^3 + 7 over 43 elements, whose group has the prime order *)
(* 31; up to four threads of up to three keys, two slots, and hashes that    *)
(* some dispatches meet never, some once and some more often than that.      *)
EXTENDS SearchKernel
=============================================================================
