----------------------------- MODULE MCImperator -----------------------------
(* Instances of Imperator for TLC. *)
EXTENDS Imperator, TLC

CONSTANTS t1, t2, t3

(* Two CPUs, each the only one of its LLC. *)
TwoCpus     == {0, 1}
LlcPerCpu   == (0 :> 0) @@ (1 :> 1)
(* The measured cost has been written for LLC 0 and not yet for LLC 1. *)
CostPerLlc  == (0 :> ((0 :> 0) @@ (1 :> 9))) @@ (1 :> ((0 :> 0) @@ (1 :> 0)))
(* t3 is pinned to CPU 1. *)
AllowedOf3  == (t1 :> {0, 1}) @@ (t2 :> {0, 1}) @@ (t3 :> {1})
(* With t2 pinned as well, and t1 free to be stolen. *)
AllowedLive == (t1 :> {0, 1}) @@ (t2 :> {1}) @@ (t3 :> {1})
(* t1 and t2 differ in nothing but their name. *)
FreeTasks   == Permutations({t1, t2})
FastOrBulk  == {1, 3}
=============================================================================
