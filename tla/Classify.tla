------------------------------- MODULE Classify -------------------------------
(***************************************************************************)
(* How a task earns its tier: alloc_task_ctx_cold, the bookkeeping of      *)
(* running and stopping, reclassify_task_cold and the post-sleep recovery  *)
(* of enqueue, for one task through any history of sleeps, wakeups and     *)
(* preemptions.                                                            *)
(*                                                                         *)
(* All of it runs in the task's own callbacks, one at a time.  Times are   *)
(* the code's microseconds (ns >> 10).  next_slice is left out: it is a    *)
(* function of the tier as long as burst credit is zero, and it always is, *)
(* the kernel never passes SCX_ENQ_PREEMPT to ops.enqueue.                 *)
(***************************************************************************)
EXTENDS Integers, FiniteSets

CONSTANTS
  TIER_GATE,      \* TIER_GATE[k]: average runtime from which tier k is left, k in 0..2
  RecheckPeriod,  \* tier_recheck_mask[k] + 1: full passes of a stable tier k
  HistoryBits,    \* width of overrun_count
  OverrunLimit,   \* overruns in the history that force a demotion
  init_deficit,   \* (quantum_ns + new_flow_bonus_ns) >> 10, as a u16
  SeedTiers,      \* the tiers alloc_task_ctx_cold gives for a nice value
  U16Max,         \* largest value of avg_runtime_us and burst_acc_us
  U16Count,       \* number of values of reclass_counter
  Bouts,          \* bout lengths, in us, already clamped to U16Max
  ZeroStamp,      \* may (u32)scx_bpf_now() be 0?
  NoTier

Tiers == 0 .. 3

CAKE_TIER_CRITICAL == 0
CAKE_TIER_INTERACT == 1
CAKE_TIER_FRAME    == 2
CAKE_TIER_BULK     == 3

ASSUME GateAssumption ==
  /\ TIER_GATE \in [0 .. 2 -> Nat \ {0}]
  /\ TIER_GATE[0] < TIER_GATE[1] /\ TIER_GATE[1] < TIER_GATE[2] /\ TIER_GATE[2] < U16Max
ASSUME CounterAssumption ==
  /\ U16Max \in Nat /\ U16Count \in Nat \ {0}
  /\ RecheckPeriod \in [Tiers -> Nat \ {0}]
  /\ HistoryBits \in Nat \ {0} /\ OverrunLimit \in 1 .. HistoryBits
ASSUME InputAssumption ==
  /\ init_deficit \in 0 .. U16Max
  /\ SeedTiers \subseteq {CAKE_TIER_CRITICAL, CAKE_TIER_INTERACT, CAKE_TIER_BULK}
  /\ Bouts \subseteq 0 .. U16Max
  /\ ZeroStamp \in BOOLEAN /\ NoTier \notin Tiers

VARIABLES
  where,            \* "new", "asleep" or "awake": queued or running
  tier, stable,     \* bits 31:28 of packed_info
  new_flow,         \* CAKE_FLOW_NEW
  deficit, avg,     \* deficit_avg_fused
  burst_acc_us,
  reclass_counter,
  overruns,         \* the set bits of overrun_count, bit 0 the last outcome
  slept,            \* sleep_entry_time # 0
  burst_tier        \* history: the tier the last finished burst belongs to

packed == <<tier, stable, new_flow>>
vars   == <<where, packed, deficit, avg, burst_acc_us, reclass_counter, overruns,
            slept, burst_tier>>

TypeOK ==
  /\ where \in {"new", "asleep", "awake"}
  /\ tier \in Tiers /\ stable \in 0 .. 3 /\ new_flow \in BOOLEAN
  /\ deficit \in 0 .. init_deficit /\ avg \in 0 .. U16Max /\ burst_acc_us \in 0 .. U16Max
  /\ reclass_counter \in 0 .. U16Count - 1
  /\ overruns \in SUBSET (0 .. HistoryBits - 1)
  /\ slept \in BOOLEAN
  /\ burst_tier \in Tiers \cup {NoTier}
-----------------------------------------------------------------------------
(* Gates and averages *)

Promotion(k) == TIER_GATE[k] - TIER_GATE[k] \div 10
Overrun(k)   == TIER_GATE[k] + TIER_GATE[k] \div 2

(* The gate to tier k or better, for a task of tier t: 10% lower for one   *)
(* that would be promoted by it.                                           *)
Gate(k, t) == IF t > k THEN Promotion(k) ELSE TIER_GATE[k]

GateTier(a, t) ==
  IF a < Gate(0, t) THEN 0 ELSE IF a < Gate(1, t) THEN 1 ELSE IF a < Gate(2, t) THEN 2 ELSE 3

(* tier_sleep_mid, and the seed of avg_runtime_us. *)
Midpoint(t) ==
  CASE t = CAKE_TIER_CRITICAL -> TIER_GATE[0] \div 2
    [] t = CAKE_TIER_INTERACT -> (TIER_GATE[0] + TIER_GATE[1]) \div 2
    [] t = CAKE_TIER_FRAME    -> (TIER_GATE[1] + TIER_GATE[2]) \div 2
    [] t = CAKE_TIER_BULK     -> TIER_GATE[2] + 1

(* Mutant: the sample is the bout, wherever the scheduler cut it. *)
BoutOnly(acc, bout) == bout

(* Mutant: the burst is not clamped. *)
UnclampedBurst(acc, bout) == acc + bout

(* burst_us: CPU time since the task last slept, clamped to 16 bits. *)
Burst(acc, bout) == IF acc + bout > U16Max THEN U16Max ELSE acc + bout

(* The asymmetric EWMA: fast towards a better tier, and only once the task *)
(* sleeps; slow towards a worse one.                                       *)
Average(a, burst, runnable) ==
  IF burst < a
  THEN IF runnable THEN a ELSE a - a \div 4 + burst \div 4
  ELSE a - a \div 16 + burst \div 16

Consumed(bout) == IF bout >= deficit THEN 0 ELSE deficit - bout

(* A burst of this length ends in that tier from any average, in spite of  *)
(* the truncated shifts and of the hysteresis; NoTier in between.          *)
TierOfBurst(b) ==
  IF \E k \in Tiers : /\ k = 0 \/ (b \div 16) * 16 >= TIER_GATE[k-1]
                      /\ k = 3 \/ (b \div 4) * 4 + 3 < Promotion(k)
  THEN CHOOSE k \in Tiers : /\ k = 0 \/ (b \div 16) * 16 >= TIER_GATE[k-1]
                            /\ k = 3 \/ (b \div 4) * 4 + 3 < Promotion(k)
  ELSE NoTier
-----------------------------------------------------------------------------
Init ==
  /\ where = "new"
  /\ tier = 0 /\ stable = 0 /\ new_flow = FALSE
  /\ deficit = 0 /\ avg = 0 /\ burst_acc_us = 0
  /\ reclass_counter = 0 /\ overruns = {} /\ slept = FALSE
  /\ burst_tier = NoTier

(* imperator_enable: alloc_task_ctx_cold.  (init_task comes before it and  *)
(* finds no context to seed from a parent or to reset.)                    *)
Enable ==
  /\ where = "new"
  /\ \E k \in SeedTiers : tier' = k /\ avg' = Midpoint(k)
  /\ new_flow' = TRUE /\ deficit' = init_deficit
  /\ where' \in {"asleep", "awake"}
  /\ UNCHANGED <<stable, burst_acc_us, reclass_counter, overruns, slept, burst_tier>>

(* Post-sleep recovery: half the distance to the midpoint of the tier. *)
Recover(long) == avg' = IF slept /\ long THEN (avg + Midpoint(tier)) \div 2 ELSE avg

(* imperator_enqueue of a wakeup; long: more than 500 ms on the clock since *)
(* sleep_entry_time, modulo 2^32 ns.  For a task preempted or requeued     *)
(* while runnable it returns before any of this.                           *)
WakeQueued(long) ==
  /\ where = "asleep"
  /\ Recover(long)
  /\ slept' = FALSE
  /\ where' = "awake"
  /\ UNCHANGED <<packed, deficit, burst_acc_us, reclass_counter, overruns, burst_tier>>

(* A wakeup that select_cpu places on a local DSQ: the sleep stays         *)
(* unaccounted, until the task stops.                                      *)
WakeDirect ==
  /\ where = "asleep"
  /\ where' = "awake"
  /\ UNCHANGED <<packed, deficit, avg, burst_acc_us, reclass_counter, overruns, slept, burst_tier>>

(* Mutant: the spot check restarts the counter only. *)
SpotCheckCounterOnly(a, counter) ==
  /\ reclass_counter' = IF GateTier(a, tier) # tier THEN 0 ELSE counter
  /\ UNCHANGED <<packed, overruns>>

(* The backoff path of a stable tier: the average is kept up to date, and  *)
(* stability is lost as soon as it belongs to another tier.                *)
SpotCheck(a, counter) ==
  /\ LET moved == GateTier(a, tier) # tier
     IN /\ stable' = IF moved THEN 0 ELSE stable
        /\ reclass_counter' = IF moved THEN 0 ELSE counter
  /\ UNCHANGED <<tier, new_flow, overruns>>

Shifted == {i + 1 : i \in overruns} \cap (0 .. HistoryBits - 1)

(* Mutant: the overrun gate of the next better tier. *)
HistoryOfBetterTier(burst) ==
  LET better == IF tier = 0 THEN 0 ELSE tier - 1
  IN Shifted \cup (IF burst > Overrun(better) THEN {0} ELSE {})

(* overrun_count shifted left, the outcome of this sample in bit 0. *)
History(burst) ==
  Shifted \cup (IF burst > Overrun(tier) THEN {0} ELSE {})

(* The full pass: gates with hysteresis, the hard cap, the overrun         *)
(* history, and the stability counter.                                     *)
Reclassify(a, burst, left, counter) ==
  LET hard     == a > 3 * TIER_GATE[2] /\ stable >= 3
      gated    == IF hard THEN CAKE_TIER_BULK ELSE GateTier(a, tier)
      history  == IF tier < CAKE_TIER_BULK THEN History(burst) ELSE overruns
      forced   == tier < CAKE_TIER_BULK /\ Cardinality(history) >= OverrunLimit
      new_tier == IF forced /\ gated < tier + 1 THEN tier + 1 ELSE gated
      held     == IF forced THEN 0 ELSE stable
  IN /\ tier' = new_tier
     /\ stable' = IF new_tier # tier THEN 0 ELSE IF held < 3 THEN held + 1 ELSE 3
     /\ new_flow' = (new_flow /\ left # 0)
     /\ overruns' = IF forced THEN {} ELSE history
     /\ reclass_counter' = IF new_tier # tier THEN 0 ELSE counter

(* imperator_stopping after a bout: reclassify_task_cold. *)
Stop(bout, runnable) ==
  LET burst   == Burst(burst_acc_us, bout)
      a       == Average(avg, burst, runnable)
      next    == (reclass_counter + 1) % U16Count
      backoff == stable = 3 /\ next % RecheckPeriod[tier] # 0
  IN /\ where = "awake"
     /\ where' = IF runnable THEN "awake" ELSE "asleep"
     /\ slept' \in {~runnable, ~runnable /\ ~ZeroStamp}
     /\ burst_acc_us' = IF runnable THEN burst ELSE 0
     /\ avg' = a
     /\ deficit' = Consumed(bout)
     /\ IF backoff THEN SpotCheck(a, next)
        ELSE Reclassify(a, burst, Consumed(bout), IF stable = 3 THEN next ELSE reclass_counter)
     /\ burst_tier' = IF runnable THEN burst_tier ELSE TierOfBurst(burst)

(* A bout that started at a zero stamp and saw no tick is not accounted. *)
StopUnseen(runnable) ==
  /\ ZeroStamp
  /\ where = "awake"
  /\ where' = IF runnable THEN "awake" ELSE "asleep"
  /\ UNCHANGED <<packed, deficit, avg, burst_acc_us, reclass_counter, overruns, slept, burst_tier>>

Next ==
  \/ Enable
  \/ \E long \in BOOLEAN : WakeQueued(long)
  \/ WakeDirect
  \/ \E bout \in Bouts, runnable \in BOOLEAN : Stop(bout, runnable)
  \/ \E runnable \in BOOLEAN : StopUnseen(runnable)

Spec == Init /\ [][Next]_vars

(* The task is woken and gets the CPU again and again; a zero stamp takes  *)
(* one particular nanosecond in 4.3 s.                                     *)
Fairness ==
  /\ WF_vars(Next)
  /\ SF_vars(\E bout \in Bouts, runnable \in BOOLEAN : Stop(bout, runnable))

FairSpec == Spec /\ Fairness
-----------------------------------------------------------------------------
(* Properties *)

(* README, Graduated backoff: "a spot check resets the backoff as soon as  *)
(* the new average would cross a gate".  A stable task, whose full passes  *)
(* are up to 1024 stops apart, has an average that its tier agrees with;   *)
(* what moves the average -- bouts on both paths, and the recovery after a *)
(* sleep -- keeps it so or gives up stability.                             *)
StableAgrees == where # "new" /\ stable = 3 => GateTier(avg, tier) = tier

(* README, How Tasks Get Classified: a task is ranked by its bursts.  From *)
(* any history, a task that goes on finishing bursts, all well inside      *)
(* one tier's range, and that no long sleep pulls towards the midpoint of  *)
(* another, settles in that tier, in spite of backoff, hysteresis, overrun *)
(* demotions, preemptions in between and truncated averages.               *)
Recovered == WakeQueued(TRUE) /\ avg' # avg

Settles ==
  \A k \in Tiers :
    <>[](burst_tier = k) /\ []<>(burst_acc_us = 0) /\ <>[][~Recovered]_vars => <>[](tier = k)

(* README, Burst accounting: a CPU-bound task is not promoted by being cut *)
(* into slices.  One that no longer sleeps ends in T3 and stays there.     *)
HogsSink == <>[](where = "awake") => <>[](tier = CAKE_TIER_BULK)

(* README, DRR++ Deficit Tracking: "When deficit exhausts -> new-flow      *)
(* bonus removed".  Not at once: the backoff path of a stable task uses    *)
(* the deficit up and leaves CAKE_FLOW_NEW to the next full pass, up to    *)
(* 1023 stops later.  But no mix of spot checks, counter resets and        *)
(* recoveries puts that pass off for ever.                                 *)
BonusEnds == (where # "new" /\ deficit = 0) ~> ~new_flow

(* How soon: a task that has used its deficit up and still has the bonus   *)
(* loses it at its next full pass.  Remaining counts the stops until then, *)
(* at most the recheck period of the tier: no wakeup, no recovery, no      *)
(* wrap of the 16-bit counter and no spot check raises it, and every stop  *)
(* that is accounted lowers it.                                            *)
Bonus == where # "new" /\ deficit = 0 /\ new_flow

Remaining ==
  IF ~Bonus THEN 0
  ELSE IF stable = 3 THEN RecheckPeriod[tier] - (reclass_counter % RecheckPeriod[tier])
  ELSE 1

BonusCountsDown ==
  [][Bonus => /\ Remaining' <= Remaining
              /\ \A bout \in Bouts, runnable \in BOOLEAN :
                   Stop(bout, runnable) => Remaining' < Remaining]_vars
=============================================================================
