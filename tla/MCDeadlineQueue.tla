---------------------------- MODULE MCDeadlineQueue ----------------------------
(* DeadlineQueue for TLC. *)
EXTENDS DeadlineQueue, TLC

CONSTANTS t1, t2

(* t2 is pinned to CPU 1. *)
AllowedOf2 == (t1 :> {0, 1}) @@ (t2 :> {1})

(* The gaps below T1, T2 and T3 are 2, 3 and 5: one advance of 2 is capped *)
(* for T1 only, two of them for T1 and T2, as 8 ms and 16 ms are capped by *)
(* the Default profile's 6.5 ms and 12 ms but not by its 80 ms.            *)
Budgets == (0 :> 1) @@ (1 :> 3) @@ (2 :> 6) @@ (3 :> 11)
================================================================================
