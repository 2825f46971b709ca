-------------------------- MODULE MCImperatorOneLlc --------------------------
(* Imperator on two CPUs that share one LLC. *)
EXTENDS Imperator, TLC

CONSTANTS t1, t2, t3

TwoCpus   == {0, 1}
OneLlc    == (0 :> 0) @@ (1 :> 0)
NoCost    == (0 :> (0 :> 0))
Anywhere  == (t1 :> {0, 1}) @@ (t2 :> {0, 1}) @@ (t3 :> {0, 1})
=============================================================================
