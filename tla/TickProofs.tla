------------------------------ MODULE TickProofs ------------------------------
(***************************************************************************)
(* imperator_tick for any tasks, slice, budget and frequency target.       *)
(***************************************************************************)
EXTENDS Tick, TLAPS

(* The ticks past the budget since the last check: no multiple of 8 is     *)
(* among the counter values of the ticks without a check.                  *)
Slack ==
  tick_counter < 255 /\ curr # NoTask => overdue <= ((tick_counter + 7) % 8) + 8 * spared

TickInv == TypeOK /\ HintTruthful /\ Slack

LEMMA Mod8 ==
  ASSUME NEW n \in Nat
  PROVE  /\ (n + 7) % 8 \in 0 .. 7
         /\ n % 8 # 0 => ((n + 1) + 7) % 8 = ((n + 7) % 8) + 1
OBVIOUS

(* Every period divides 8. *)
LEMMA QuietOffMultiples ==
  ASSUME NEW n \in 0 .. 255
  PROVE  /\ ~Due(n) => n % 8 # 0
         /\ n = 255 => ~Due(n)
<1>1. CASE n < 8
  BY <1>1 DEF Due, Period
<1>2. CASE n \in 8 .. 15
  BY <1>2 DEF Due, Period
<1>3. CASE n \in 16 .. 31
  BY <1>3 DEF Due, Period
<1>4. CASE n \in 32 .. 255
  BY <1>4 DEF Due, Period
<1> QED BY <1>1, <1>2, <1>3, <1>4

LEMMA EncodeRange ==
  ASSUME NEW perf, perf \in 0 .. 1024
  PROVE  DSQ_HINT_ENCODE(perf) = perf \div 8 + 1 /\ DSQ_HINT_ENCODE(perf) \in 1 .. 129
BY DEF DSQ_HINT_ENCODE

LEMMA RequestKeepsHint ==
  ASSUME TypeOK, HintTruthful, NEW perf, perf \in 0 .. 1024, Request(perf)
  PROVE  dsq_hint' \in 0 .. 129 /\ cpuperf' \in 0 .. NeverSet /\ HintTruthful'
<1> DEFINE hint == DSQ_HINT_ENCODE(perf)
<1>1. hint = perf \div 8 + 1 /\ hint \in 1 .. 129
  BY EncodeRange
<1>2. \/ cpuperf' = perf /\ dsq_hint' = hint
      \/ UNCHANGED <<cpuperf, dsq_hint>>
  BY DEF Request
<1> HIDE DEF hint
<1>3. CASE cpuperf' = perf /\ dsq_hint' = hint
  <2>1. cpuperf' # NeverSet /\ dsq_hint' = cpuperf' \div 8 + 1
    BY <1>1, <1>3 DEF NeverSet
  <2> QED BY <1>1, <1>3, <2>1 DEF HintTruthful, NeverSet
<1>4. CASE UNCHANGED <<cpuperf, dsq_hint>>
  BY <1>4 DEF TypeOK, HintTruthful
<1> QED BY <1>2, <1>3, <1>4

LEMMA CounterStays ==
  ASSUME TypeOK
  PROVE  Grown(tick_counter) \in 0 .. 255 /\ Decayed(tick_counter) \in 0 .. 255
BY DEF TypeOK, Grown, Decayed

LEMMA TickInit ==
  ASSUME Init
  PROVE  TickInv
<1>1. TypeOK
  <2>1. FlagTypeOK
    BY DEF Init, FlagInit, FlagTypeOK
  <2>2. 0 \in 0 .. Wrap - 1 /\ 0 \in 0 .. MaxOverdue
    BY TickAssumption
  <2>3. 0 \in 0 .. 255 /\ 0 \in 0 .. 129 /\ NeverSet \in 0 .. NeverSet
    BY DEF NeverSet
  <2> QED BY Zenon, <2>1, <2>2, <2>3 DEF Init, TypeOK
<1>2. HintTruthful /\ Slack
  BY DEF Init, HintTruthful, Slack
<1> QED BY <1>1, <1>2 DEF TickInv

(* A step that ends the wait, or changes nothing Slack is about. *)
LEMMA SlackAnew ==
  ASSUME TypeOK', \/ WaitEnds
                  \/ Slack /\ UNCHANGED <<tick_counter, curr, waitVars>>
  PROVE  Slack'
<1>1. CASE WaitEnds
  <2>1. (tick_counter' + 7) % 8 \in 0 .. 7
    <3>1. tick_counter' \in Nat
      BY DEF TypeOK
    <3> QED BY <3>1, Mod8
  <2> QED BY <1>1, <2>1 DEF Slack, WaitEnds
<1>2. CASE Slack /\ UNCHANGED <<tick_counter, curr, waitVars>>
  BY <1>2 DEF Slack, waitVars
<1> QED BY <1>1, <1>2

LEMMA WaitEndsType ==
  ASSUME WaitEnds
  PROVE  overdue' \in 0 .. MaxOverdue /\ spared' \in 0 .. MaxOverdue
BY TickAssumption DEF WaitEnds

(* The bound on the history counters loses nothing of spared that Slack    *)
(* needs: overdue is capped with it.                                       *)
LEMMA OverdueType ==
  ASSUME TypeOK, NEW skips \in {0, 1}, Overdue(skips)
  PROVE  /\ overdue' \in 0 .. MaxOverdue /\ spared' \in 0 .. MaxOverdue
         /\ \/ WaitEnds
            \/ overdue' <= overdue + 1 /\ (spared' = spared + skips \/ overdue' <= spared')
<1>1. overdue \in 0 .. MaxOverdue /\ spared \in 0 .. MaxOverdue /\ MaxOverdue \in Nat
  BY TickAssumption DEF TypeOK
<1>2. CASE WaitEnds
  BY <1>2, WaitEndsType
<1>3. CASE overdue' = Capped(overdue + 1) /\ spared' = Capped(spared + skips)
  BY <1>1, <1>3 DEF Capped
<1> QED BY <1>2, <1>3 DEF Overdue

LEMMA SpareType ==
  ASSUME FlagTypeOK, NEW t \in Tasks, Spare(t) \/ Starve(t)
  PROVE  FlagTypeOK'
<1>1. CASE Spare(t)
  <2>1. lock_skip_count[t] + 1 \in 0 .. 4
    BY <1>1 DEF FlagTypeOK, Spare, MaySkip
  <2> QED BY <1>1, <2>1 DEF FlagTypeOK, Spare
<1>2. CASE Starve(t)
  BY <1>2 DEF FlagTypeOK, Starve
<1> QED BY <1>1, <1>2

LEMMA QueueStep ==
  ASSUME TickInv, NEW t \in Tasks, Wake(t) \/ Pulled(t) \/ Dispatch(t) \/ Preempted(t)
  PROVE  TickInv'
<1>1. TypeOK'
  <2>1. FlagTypeOK'
    BY DEF TickInv, TypeOK, flagVars, FlagTypeOK, Wake, Pulled, Dispatch, Preempted, Switch
  <2>2. 0 \in 0 .. Wrap - 1
    BY TickAssumption
  <2>3. CASE Wake(t)
    BY <2>1, <2>3 DEF TickInv, TypeOK, Wake, waitVars
  <2>4. CASE Pulled(t)
    <3>1. waiting' \in SUBSET Tasks /\ overdue' \in 0 .. MaxOverdue /\ spared' \in 0 .. MaxOverdue
      BY <2>4, WaitEndsType DEF TickInv, TypeOK, Pulled, waitVars
    <3> QED BY <2>1, <2>4, <3>1 DEF TickInv, TypeOK, Pulled
  <2>5. CASE Switch(t)
    <3>1. waiting' \in SUBSET Tasks
      BY <2>5 DEF TickInv, TypeOK, Switch
    <3> QED BY <2>1, <2>2, <2>5, <3>1, WaitEndsType DEF TickInv, TypeOK, Switch
  <2> QED BY <2>3, <2>4, <2>5 DEF Dispatch, Preempted
<1>2. UNCHANGED <<tick_counter, dsq_hint, cpuperf>>
  BY DEF Wake, Pulled, Dispatch, Preempted, Switch
<1>3. WaitEnds \/ UNCHANGED <<curr, waitVars>>
  BY DEF Wake, Pulled, Dispatch, Preempted, Switch
<1>4. Slack'
  BY <1>1, <1>2, <1>3, SlackAnew DEF TickInv
<1> QED BY <1>1, <1>2, <1>4 DEF TickInv, HintTruthful

LEMMA OwnStep ==
  ASSUME TickInv, Block \/ KeepRunning
  PROVE  TickInv'
<1>1. TypeOK'
  <2>1. FlagTypeOK'
    BY DEF TickInv, TypeOK, flagVars, FlagTypeOK, Block, KeepRunning
  <2>2. CASE Block
    BY <2>1, <2>2, WaitEndsType DEF TickInv, TypeOK, Block
  <2>3. CASE KeepRunning
    BY <2>1, <2>3 DEF TickInv, TypeOK, KeepRunning, waitVars
  <2> QED BY <2>2, <2>3
<1>2. UNCHANGED <<tick_counter, dsq_hint, cpuperf>>
  BY DEF Block, KeepRunning
<1>3. WaitEnds \/ UNCHANGED <<curr, waitVars>>
  BY DEF Block, KeepRunning
<1>4. Slack'
  BY <1>1, <1>2, <1>3, SlackAnew DEF TickInv
<1> QED BY <1>1, <1>2, <1>4 DEF TickInv, HintTruthful

(* Locks come and go within a wait. *)
LEMMA FutexStep ==
  ASSUME TickInv, Lock
  PROVE  TickInv'
<1>1. curr \in Tasks /\ UNCHANGED <<cpuVars, waitVars>> /\ (Raise(curr) \/ Lower(curr))
  BY TickAssumption DEF Lock
<1>2. FlagTypeOK'
  <2>1. CASE Raise(curr)
    BY <1>1, <2>1 DEF TickInv, TypeOK, FlagTypeOK, Raise
  <2>2. CASE Lower(curr)
    BY <1>1, <2>2 DEF TickInv, TypeOK, FlagTypeOK, Lower
  <2> QED BY <1>1, <2>1, <2>2
<1>3. TypeOK'
  BY <1>1, <1>2, TickAssumption DEF TickInv, TypeOK, cpuVars, waitVars
<1> QED BY <1>1, <1>3 DEF TickInv, Slack, HintTruthful, cpuVars, waitVars

(* The running task of a tick, its runtime and the two verdicts. *)
LEMMA TickingType ==
  ASSUME TypeOK, Ticking
  PROVE  curr \in Tasks /\ runtime' \in 0 .. Wrap - 1
BY TickAssumption DEF TypeOK, Ticking, Advance

LEMMA KickStep ==
  ASSUME TickInv, NEW others \in BOOLEAN, TickSlice(others) \/ TickStarved(others)
  PROVE  TickInv'
<1>1. Ticking /\ KickSelf /\ UNCHANGED <<curr, waiting, dsq_hint, cpuperf>>
  BY DEF TickSlice, TickStarved, Phase2
<1>2. curr \in Tasks /\ runtime' \in 0 .. Wrap - 1
  BY <1>1, TickingType DEF TickInv
<1>3. FlagTypeOK'
  <2>1. CASE TickSlice(others)
    BY <2>1 DEF TickSlice, flagVars, TickInv, TypeOK, FlagTypeOK
  <2>2. CASE TickStarved(others)
    BY <1>2, <2>2, SpareType DEF TickStarved, TickInv, TypeOK
  <2> QED BY <2>1, <2>2
<1>4. tick_counter' \in 0 .. 255
  BY CounterStays DEF TickSlice, TickStarved, Check, TickInv, TypeOK
<1>5. TypeOK'
  <2>1. overdue' \in 0 .. MaxOverdue /\ spared' \in 0 .. MaxOverdue /\ resched' = TRUE
    BY <1>1, WaitEndsType DEF KickSelf
  <2> QED BY <1>1, <1>2, <1>3, <1>4, <2>1 DEF TickInv, TypeOK
<1>6. Slack'
  BY <1>1, <1>5, SlackAnew DEF KickSelf
<1> QED BY <1>1, <1>5, <1>6 DEF TickInv, HintTruthful

(* A tick that only counts: off the multiples of 8, or with no one waiting. *)
LEMMA QuietStep ==
  ASSUME TickInv, NEW others \in BOOLEAN, TickQuiet(others)
  PROVE  TickInv'
<1>1. /\ Ticking
      /\ ~Due(tick_counter) \/ ~Contended
      /\ tick_counter' = Grown(tick_counter)
      /\ Request(SCX_CPUPERF_ONE) /\ Overdue(0)
      /\ UNCHANGED <<lock_holder, lock_skip_count, curr, waiting, resched>>
  BY DEF TickQuiet, Phase2, flagVars
<1>2. curr \in Tasks /\ runtime' \in 0 .. Wrap - 1
  BY <1>1, TickingType DEF TickInv
<1>3. dsq_hint' \in 0 .. 129 /\ cpuperf' \in 0 .. NeverSet /\ HintTruthful'
  <2>1. SCX_CPUPERF_ONE \in 0 .. 1024
    BY DEF SCX_CPUPERF_ONE
  <2>2. TypeOK /\ HintTruthful
    BY DEF TickInv
  <2> QED BY ONLY <1>1, <2>1, <2>2, RequestKeepsHint
<1>4. /\ overdue' \in 0 .. MaxOverdue /\ spared' \in 0 .. MaxOverdue /\ tick_counter' \in 0 .. 255
      /\ \/ WaitEnds
         \/ overdue' <= overdue + 1 /\ (spared' = spared + 0 \/ overdue' <= spared')
  BY <1>1, OverdueType, CounterStays DEF TickInv
<1>5. TypeOK'
  BY <1>1, <1>2, <1>3, <1>4 DEF TickInv, TypeOK, FlagTypeOK
<1>6. Slack'
  <2>1. CASE WaitEnds
    BY <1>5, <2>1, SlackAnew
  <2>2. CASE ~WaitEnds
    <3> DEFINE since == (tick_counter + 7) % 8
    <3> SUFFICES ASSUME tick_counter' < 255
                 PROVE  overdue' <= ((tick_counter' + 7) % 8) + 8 * spared'
      BY DEF Slack
    <3>1. /\ tick_counter \in 0 .. 255 /\ overdue \in Nat /\ spared \in Nat
          /\ overdue' \in Nat /\ spared' \in Nat
      BY <1>4, TickAssumption DEF TickInv, TypeOK
    <3>2. tick_counter < 255 /\ tick_counter' = tick_counter + 1
      BY <1>1, <3>1 DEF Grown
    <3>3. (tick_counter' + 7) % 8 = since + 1 /\ since \in Nat
      <4>1. Contended
        BY <1>1, <2>2 DEF Overdue
      <4>2. tick_counter % 8 # 0
        BY <1>1, <4>1, <3>1, QuietOffMultiples
      <4>3. ((tick_counter + 1) + 7) % 8 = since + 1 /\ since \in 0 .. 7
        BY <3>1, <4>2, Mod8
      <4> QED BY <3>2, <4>3
    <3>4. overdue <= since + 8 * spared
      BY <1>2, <3>2, TickAssumption DEF TickInv, Slack
    <3> HIDE DEF since
    <3> QED BY <1>4, <2>2, <3>1, <3>3, <3>4
  <2> QED BY <2>1, <2>2
<1> QED BY <1>3, <1>5, <1>6 DEF TickInv

LEMMA WithinBudgetStep ==
  ASSUME TickInv, NEW others \in BOOLEAN, TickWithinBudget(others)
  PROVE  TickInv'
<1>1. /\ Ticking /\ ~Starving
      /\ tick_counter' = Decayed(tick_counter)
      /\ Request(SCX_CPUPERF_ONE) /\ Overdue(0)
      /\ UNCHANGED <<lock_holder, lock_skip_count, curr, waiting, resched>>
  BY DEF TickWithinBudget, Check, Phase2, flagVars
<1>2. runtime' \in 0 .. Wrap - 1
  BY <1>1, TickingType DEF TickInv
<1>3. dsq_hint' \in 0 .. 129 /\ cpuperf' \in 0 .. NeverSet /\ HintTruthful'
  <2>1. SCX_CPUPERF_ONE \in 0 .. 1024
    BY DEF SCX_CPUPERF_ONE
  <2>2. TypeOK /\ HintTruthful
    BY DEF TickInv
  <2> QED BY ONLY <1>1, <2>1, <2>2, RequestKeepsHint
<1>4. WaitEnds /\ overdue' \in 0 .. MaxOverdue /\ spared' \in 0 .. MaxOverdue /\ tick_counter' \in 0 .. 255
  BY <1>1, WaitEndsType, CounterStays DEF TickInv, Overdue
<1>5. TypeOK'
  BY <1>1, <1>2, <1>3, <1>4 DEF TickInv, TypeOK, FlagTypeOK
<1> QED BY <1>3, <1>4, <1>5, SlackAnew DEF TickInv

(* A spared check costs one skip, and the tick it was made in. *)
LEMMA SparedStep ==
  ASSUME TickInv, NEW others \in BOOLEAN, TickSpared(others)
  PROVE  TickInv'
<1>1. /\ Ticking /\ Due(tick_counter)
      /\ tick_counter' = Decayed(tick_counter)
      /\ Spare(curr) /\ Request(Perf) /\ Overdue(1)
      /\ UNCHANGED <<curr, waiting, resched>>
  BY DEF TickSpared, Check, Phase2
<1>2. curr \in Tasks /\ runtime' \in 0 .. Wrap - 1
  BY <1>1, TickingType DEF TickInv
<1>3. dsq_hint' \in 0 .. 129 /\ cpuperf' \in 0 .. NeverSet /\ HintTruthful'
  <2>1. Perf \in 0 .. 1024
    BY TickAssumption
  <2>2. TypeOK /\ HintTruthful
    BY DEF TickInv
  <2> QED BY ONLY <1>1, <2>1, <2>2, RequestKeepsHint
<1>4. /\ overdue' \in 0 .. MaxOverdue /\ spared' \in 0 .. MaxOverdue /\ tick_counter' \in 0 .. 255
      /\ \/ WaitEnds
         \/ overdue' <= overdue + 1 /\ (spared' = spared + 1 \/ overdue' <= spared')
  BY <1>1, OverdueType, CounterStays DEF TickInv
<1>5. FlagTypeOK'
  BY <1>1, <1>2, SpareType DEF TickInv, TypeOK
<1>6. TypeOK'
  BY <1>1, <1>2, <1>3, <1>4, <1>5 DEF TickInv, TypeOK
<1>7. Slack'
  <2>1. CASE WaitEnds
    BY <1>6, <2>1, SlackAnew
  <2>2. CASE ~WaitEnds
    <3>1. /\ tick_counter \in 0 .. 254 /\ overdue \in Nat /\ spared \in Nat
          /\ overdue' \in Nat /\ spared' \in Nat
      BY <1>1, <1>4, QuietOffMultiples, TickAssumption DEF TickInv, TypeOK
    <3>2. overdue <= ((tick_counter + 7) % 8) + 8 * spared
      BY <1>2, <3>1, TickAssumption DEF TickInv, Slack
    <3>3. (tick_counter + 7) % 8 \in 0 .. 7 /\ (tick_counter' + 7) % 8 \in 0 .. 7
      <4>1. tick_counter \in Nat /\ tick_counter' \in Nat
        BY <1>4, <3>1
      <4> QED BY <4>1, Mod8
    <3>4. overdue' <= ((tick_counter' + 7) % 8) + 8 * spared'
      BY <1>4, <2>2, <3>1, <3>2, <3>3
    <3> QED BY <3>4 DEF Slack
  <2> QED BY <2>1, <2>2
<1> QED BY <1>3, <1>6, <1>7 DEF TickInv

(* A tick is counted only past the budget, one per tick of runtime, and a   *)
(* tick past the slice is not counted: it kicks.                           *)
Counted ==
  overdue > 0 => /\ runtime <= next_slice
                 /\ overdue + threshold <= runtime

LEMMA CountedAnew ==
  ASSUME \/ WaitEnds
         \/ Counted /\ UNCHANGED <<runtime, overdue>>
  PROVE  Counted'
BY DEF Counted, WaitEnds

(* A tick of phase 2. *)
LEMMA CountedTick ==
  ASSUME TypeOK, Counted, NEW others \in BOOLEAN, Phase2(others),
         NEW skips \in {0, 1}, Overdue(skips)
  PROVE  Counted'
<1> SUFFICES ASSUME overdue' # 0
             PROVE  Counted'
  BY DEF Counted
<1>1. /\ overdue \in Nat /\ runtime \in 0 .. Wrap - 1 /\ Wrap \in Nat \ {0}
      /\ threshold \in Nat /\ next_slice \in Nat
  BY TickAssumption DEF TypeOK
<1>2. /\ Contended /\ runtime' > threshold
      /\ overdue' = overdue \/ overdue' = overdue + 1
  BY <1>1, TickAssumption DEF Overdue, Starving, WaitEnds, Capped, TypeOK
<1>3. ~(runtime' > next_slice)
  BY <1>2 DEF Phase2, OverSlice
<1>4. runtime' = runtime + 1
  <2>1. runtime' = (runtime + 1) % Wrap
    BY DEF Phase2, Ticking, Advance
  <2>2. CASE runtime + 1 = Wrap
    <3>1. runtime' = 0
      BY ONLY <1>1, <2>1, <2>2
    <3> QED BY ONLY <1>1, <1>2, <3>1
  <2>3. CASE runtime + 1 < Wrap
    BY ONLY <1>1, <2>1, <2>3
  <2> QED BY <1>1, <2>2, <2>3
<1>5. overdue' + threshold <= runtime'
  <2>1. CASE overdue = 0
    BY ONLY <1>1, <1>2, <1>4, <2>1
  <2>2. CASE overdue > 0
    <3>1. overdue + threshold <= runtime
      BY <2>2 DEF Counted
    <3> QED BY ONLY <1>1, <1>2, <1>4, <3>1
  <2> QED BY <1>1, <2>1, <2>2
<1>6. runtime' <= next_slice
  BY ONLY <1>1, <1>3, <1>4
<1> QED BY <1>5, <1>6 DEF Counted

LEMMA CountedStep ==
  ASSUME TypeOK, Counted, [Next]_vars
  PROVE  Counted'
<1>1. CASE UNCHANGED vars
  BY <1>1, CountedAnew DEF vars, cpuVars, waitVars
<1>2. ASSUME NEW t \in Tasks, Wake(t) \/ Pulled(t) \/ Dispatch(t) \/ Preempted(t)
      PROVE  Counted'
  BY <1>2, CountedAnew DEF Wake, Pulled, Dispatch, Preempted, Switch, waitVars
<1>3. CASE Block \/ KeepRunning \/ Lock
  BY <1>3, CountedAnew DEF Block, KeepRunning, Lock, cpuVars, waitVars
<1>4. ASSUME NEW others \in BOOLEAN, ImperatorTick(others)
      PROVE  Counted'
  <2>1. CASE TickSlice(others) \/ TickStarved(others)
    BY <2>1, CountedAnew DEF TickSlice, TickStarved, KickSelf
  <2>2. CASE TickQuiet(others) \/ TickWithinBudget(others) \/ TickSpared(others)
    BY <2>2, CountedTick DEF TickQuiet, TickWithinBudget, TickSpared
  <2> QED BY <1>4, <2>1, <2>2 DEF ImperatorTick
<1> QED BY <1>1, <1>2, <1>3, <1>4 DEF Next

LEMMA TickInvStep ==
  ASSUME TickInv, [Next]_vars
  PROVE  TickInv'
<1>1. CASE UNCHANGED vars
  BY <1>1 DEF vars, flagVars, cpuVars, waitVars, TickInv, TypeOK, FlagTypeOK, HintTruthful, Slack
<1>2. CASE Next
  BY <1>2, QueueStep, OwnStep, FutexStep, KickStep, QuietStep, WithinBudgetStep, SparedStep
     DEF Next, ImperatorTick
<1> QED BY <1>1, <1>2

LEMMA TickInvariance == Spec => []TickInv
<1>1. Init => TickInv
  BY TickInit
<1>2. TickInv /\ [Next]_vars => TickInv'
  BY TickInvStep
<1> QED BY <1>1, <1>2, PTL DEF Spec

(* tick_counter and dsq_hint fit their u8, and the skip count stays 0 .. 4. *)
THEOREM TickTypes == Spec => []TypeOK
<1>1. TickInv => TypeOK
  BY DEF TickInv
<1> QED BY <1>1, TickInvariance, PTL

(* Whatever the budget and the slice, however the counter has grown and    *)
(* decayed, and however often the task takes locks and gives them up: as   *)
(* long as the counter is below 255 a starved task waits for the kick 7    *)
(* ticks, and 8 more per skip granted since its wait began.                *)
THEOREM StarvedKicked == Spec => []OverdueBounded
<1>1. TickInv => OverdueBounded
  <2> SUFFICES ASSUME TickInv, tick_counter < 255, curr # NoTask
               PROVE  overdue <= 7 + 8 * spared
    BY DEF OverdueBounded
  <2>1. (tick_counter + 7) % 8 \in 0 .. 7 /\ overdue \in Nat /\ spared \in Nat
    BY Mod8, TickAssumption DEF TickInv, TypeOK
  <2> QED BY <2>1 DEF TickInv, Slack
<1> QED BY <1>1, TickInvariance, PTL

(* No request of the tick is swallowed by a hint of another frequency: the  *)
(* encoding of 0 .. 1024 into 8 bits never wraps and never yields 0.       *)
THEOREM RequestsNotLost == Spec => []HintTruthful
<1>1. TickInv => HintTruthful
  BY DEF TickInv
<1> QED BY <1>1, TickInvariance, PTL

(* Phase 1 ends every wait the counter no longer sees: for every slice and  *)
(* budget, a task past its budget keeps another one waiting for            *)
(* next_slice - threshold ticks at most, and for none where the budget is  *)
(* the longer, as in every shipped profile.  The ticks are counted from    *)
(* the first one past the budget to the kick, through any locks taken and  *)
(* given up, any skips granted for them and a counter stuck at 255.        *)
THEOREM SliceIsHardCeiling == Spec => []SliceCeiling
<1>1. Init => Counted
  BY DEF Init, Counted
<1>2. TypeOK /\ Counted /\ [Next]_vars => Counted'
  BY CountedStep
<1>3. TypeOK /\ Counted => SliceCeiling
  <2> SUFFICES ASSUME TypeOK, Counted
               PROVE  SliceCeiling
    OBVIOUS
  <2>1. overdue \in Nat /\ runtime \in Nat /\ next_slice \in Nat /\ threshold \in Nat
    BY TickAssumption DEF TypeOK
  <2> QED BY <2>1 DEF Counted, SliceCeiling
<1> QED BY <1>1, <1>2, <1>3, TickTypes, PTL DEF Spec
=============================================================================
