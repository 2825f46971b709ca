------------------------------ MODULE MCClassify ------------------------------
(* Classify for TLC, with gates of 10, 22 and 40 for 100, 2000 and 8000 us. *)
EXTENDS Classify, TLC

Gates   == (0 :> 10) @@ (1 :> 22) @@ (2 :> 40)
Periods == (0 :> 4) @@ (1 :> 2) @@ (2 :> 2) @@ (3 :> 2)
=============================================================================
