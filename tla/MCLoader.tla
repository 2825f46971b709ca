------------------------------- MODULE MCLoader -------------------------------
(***************************************************************************)
(* Three CPUs in two and in three LLCs for the calibration; two CPUs in    *)
(* one LLC, where there is none, for the profiles and overrides.           *)
(* Latencies: no progress, the least cost, one above the largest cost.     *)
(***************************************************************************)
EXTENDS Loader, TLC

OneLlc    == [c \in 0 .. 1 |-> 0]
TwoLlcs   == 0 :> 0 @@ 1 :> 0 @@ 2 :> 1
ThreeLlcs == [c \in 0 .. 2 |-> c]

Setting(llcs, profiles, starvations, sweeps, verboses) ==
  [llc : llcs, profile : profiles, starvation : starvations, full_sweep : sweeps,
   verbose : verboses]

Calibrated ==
  Setting({TwoLlcs}, {"Default"}, {NoOverride}, BOOLEAN, BOOLEAN) \cup
  Setting({ThreeLlcs}, {"Default"}, {NoOverride}, {FALSE}, {FALSE})

(* No override, and some of those that keep the tiers in order: 26 us is   *)
(* the least that leaves four different budgets under every profile,       *)
(* 1073741 us the greatest that fits in 20 bits.                           *)
InRange  == {NoOverride} \cup 26 .. 41 \cup {1000, 33333, 100000, 1073741}

Ordered  == Calibrated \cup Setting({OneLlc}, Profiles, InRange, {FALSE}, {FALSE})

(* Overrides that main.rs accepts as well: from 1073742 us on T3's budget  *)
(* wraps, and 25 us is too little for four different ones under Sim.       *)
OutOfRange == Setting({OneLlc}, {"Default"}, {1073742, 2000000}, {FALSE}, {FALSE}) \cup
              Setting({OneLlc}, {"Sim"}, {25}, {FALSE}, {FALSE})

Verbose  == Setting({TwoLlcs}, {"Default"}, {NoOverride}, {FALSE}, {TRUE})

Medians  == {0, 2, 1200}
=============================================================================
