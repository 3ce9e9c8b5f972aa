------------------------------- MODULE MCCheck -------------------------------
(* Three tests of one shader source, listed as the suite lists them: a     *)
(* diagnostic test stands before the last blocking one, which makes two    *)
(* calls, the second of them of the entry point of the first test.         *)
EXTENDS CapabilityCheck, TLC

MCTests ==
    <<[source |-> "wgsl", entries |-> <<"fp_mul">>, triage |-> TRUE, diagnostic |-> FALSE],
      [source |-> "wgsl", entries |-> <<"fp_mul">>, triage |-> FALSE, diagnostic |-> TRUE],
      [source |-> "wgsl", entries |-> <<"fp_mul", "fp_mul">>, triage |-> FALSE, diagnostic |-> FALSE]>>
=============================================================================
