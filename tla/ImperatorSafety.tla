----------------------------- MODULE ImperatorSafety -----------------------------
(***************************************************************************)
(* The safety invariants of Imperator, for any CPUs, tasks, LLCs, costs    *)
(* and affinities.  Each layer is inductive relative to the ones above it: *)
(* types, places, locks, task_cpu, attention; then what the scheduler's    *)
(* maps say about the task that runs.                                      *)
(***************************************************************************)
EXTENDS ImperatorProofs

placeVars == <<curr, asleep, local, hand, dsq>>

(* Every task in one place: nothing else holds a task that runs, that a     *)
(* CPU has in hand, that waits in a local queue or in a DSQ.               *)
CurrAlone ==
  \A c \in Cpus : curr[c] # NoTask =>
    /\ curr[c] \notin asleep
    /\ \A d \in Cpus : /\ curr[d] = curr[c] => d = c
                       /\ hand[d] # curr[c]
                       /\ curr[c] \notin local[d]
    /\ \A l \in Llcs : curr[c] \notin dsq[l]

HandAlone ==
  \A c \in Cpus : hand[c] # NoTask =>
    /\ hand[c] \notin asleep
    /\ \A d \in Cpus : (hand[d] = hand[c] => d = c) /\ hand[c] \notin local[d]
    /\ \A l \in Llcs : hand[c] \notin dsq[l]

LocalAlone ==
  \A c \in Cpus : \A t \in local[c] :
    /\ t \notin asleep
    /\ \A d \in Cpus : t \in local[d] => d = c
    /\ \A l \in Llcs : t \notin dsq[l]

DsqAlone ==
  \A l \in Llcs : \A t \in dsq[l] : t \notin asleep /\ \A k \in Llcs : t \in dsq[k] => k = l

Alone == CurrAlone /\ HandAlone /\ LocalAlone /\ DsqAlone

(* No task is dropped. *)
Somewhere ==
  \A t \in Tasks :
    \/ t \in asleep
    \/ \E c \in Cpus : curr[c] = t \/ hand[c] = t \/ t \in local[c]
    \/ \E l \in Llcs : t \in dsq[l]

(* A runqueue lock has one holder; between need_resched and the switch a   *)
(* CPU holds its own, and outside ops.dispatch the next pull is its own LLC's. *)
LockOK ==
  \A c \in Cpus :
    /\ pc[c] \in {"user", "direct", "enqueue"} => rq[c] = NoCpu
    /\ pc[c] \in DispatchSteps \cup {"pick", "requeue", "remark", "start"} => rq[c] = c
    /\ rq[c] # NoCpu => \A d \in Cpus : rq[d] = rq[c] => d = c
    /\ pc[c] \notin DispatchSteps \/ pc[c] = "scan" => target[c] = cpu_llc_id[c]

(* A task is assigned to a CPU it may use, and it runs, is about to run or *)
(* is queued where that CPU says.                                          *)
CpuOK ==
  /\ \A t \in Tasks : task_cpu[t] \in Allowed[t]
  /\ \A c \in Cpus : /\ curr[c] # NoTask => task_cpu[curr[c]] = c
                     /\ \A t \in local[c] : task_cpu[t] = c
                     /\ pc[c] = "requeue" => task_cpu[hand[c]] = c
  /\ \A l \in Llcs : \A t \in dsq[l] : cpu_llc_id[task_cpu[t]] = l

(* Once the pull from its own LLC has failed, a CPU that is still to switch *)
(* has no task of its own left in the queues.                              *)
OwnPullFailed(c) ==
  /\ local[c] = {}
  /\ \/ pc[c] \in {"count", "clear", "scan", "pick"}
     \/ pc[c] = "move" /\ target[c] # cpu_llc_id[c]

Drained ==
  \A c \in Cpus : OwnPullFailed(c) => \A l \in Llcs : \A t \in dsq[l] : task_cpu[t] # c

(* Every queue with a task in it has the attention of the task's CPU. *)
Attention ==
  /\ \A l \in Llcs : \A t \in dsq[l] : Attended(task_cpu[t])
  /\ \A c \in Cpus : local[c] # {} => Attended(c)

(* What runs has been stamped, so that stopping will clear its bit. *)
StampOK == \A c \in Cpus : curr[c] # NoTask /\ HasCtx(curr[c]) => stamped[curr[c]]

(* The actions that move no task. *)
Quiet(c) ==
  \/ MarkNonempty(c) \/ PickVictim(c) \/ KickVictim(c) \/ EnqueueEnd(c) \/ DeliverKick(c)
  \/ (\E over, starved \in BOOLEAN : Tick(c, over, starved))
  \/ SliceExpired(c) \/ Schedule(c)
  \/ MoveFails(c) \/ CountQueued(c) \/ ClearNonempty(c) \/ ScanFlags(c)

LEMMA QuietMovesNothing ==
  ASSUME NEW c \in Cpus, Quiet(c)
  PROVE  UNCHANGED placeVars
BY DEF Quiet, placeVars, kernelVars, mapVars, ctxVars, stepVars, MarkNonempty, PickVictim,
       KickVictim, EnqueueEnd, DeliverKick, Tick, SliceExpired, Schedule, MoveFails,
       CountQueued, ClearNonempty, ScanFlags

LEMMA NextCases ==
  ASSUME Next
  PROVE  \E c \in Cpus :
           \/ Quiet(c)
           \/ \E t \in Tasks : SelectIdleCpu(c, t)
           \/ \E t \in Tasks, irq \in BOOLEAN : SelectPrevCpu(c, t, irq)
           \/ \E t \in Tasks : WakePinned(c, t)
           \/ DirectDispatch(c) \/ Enqueue(c) \/ Block(c) \/ MoveToLocal(c)
           \/ KeepOrIdle(c) \/ PutPrev(c) \/ Requeue(c) \/ Running(c)
BY DEF Next, Quiet, Wakeup, EnqueueStep, DispatchStep
-----------------------------------------------------------------------------
LEMMA AloneStep ==
  ASSUME TypeInv, Alone, [Next]_vars
  PROVE  Alone'
<1> USE NoneAssumption DEF TypeInv, TypeOK, StepOK, DispatchSteps,
         kernelVars, mapVars, ctxVars, stepVars
<1>1. CASE UNCHANGED placeVars
  BY <1>1 DEF placeVars, Alone, CurrAlone, HandAlone, LocalAlone, DsqAlone
<1>2. ASSUME NEW c \in Cpus, NEW t \in Tasks, SelectIdleCpu(c, t) PROVE Alone'
  <2>1. CurrAlone'
    BY <1>2 DEF Alone, CurrAlone, HandAlone, LocalAlone, DsqAlone, SelectIdleCpu
  <2>2. HandAlone'
    BY <1>2 DEF Alone, CurrAlone, HandAlone, LocalAlone, DsqAlone, SelectIdleCpu
  <2>3. LocalAlone'
    BY <1>2 DEF Alone, CurrAlone, HandAlone, LocalAlone, DsqAlone, SelectIdleCpu
  <2>4. DsqAlone'
    BY <1>2 DEF Alone, CurrAlone, HandAlone, LocalAlone, DsqAlone, SelectIdleCpu
  <2> QED BY <2>1, <2>2, <2>3, <2>4 DEF Alone
<1>3. ASSUME NEW c \in Cpus, NEW t \in Tasks, NEW irq \in BOOLEAN, SelectPrevCpu(c, t, irq) PROVE Alone'
  <2>1. CurrAlone'
    BY <1>3 DEF Alone, CurrAlone, HandAlone, LocalAlone, DsqAlone, SelectPrevCpu
  <2>2. HandAlone'
    BY <1>3 DEF Alone, CurrAlone, HandAlone, LocalAlone, DsqAlone, SelectPrevCpu
  <2>3. LocalAlone'
    BY <1>3 DEF Alone, CurrAlone, HandAlone, LocalAlone, DsqAlone, SelectPrevCpu
  <2>4. DsqAlone'
    BY <1>3 DEF Alone, CurrAlone, HandAlone, LocalAlone, DsqAlone, SelectPrevCpu
  <2> QED BY <2>1, <2>2, <2>3, <2>4 DEF Alone
<1>4. ASSUME NEW c \in Cpus, NEW t \in Tasks, WakePinned(c, t) PROVE Alone'
  <2>1. CurrAlone'
    BY <1>4 DEF Alone, CurrAlone, HandAlone, LocalAlone, DsqAlone, WakePinned
  <2>2. HandAlone'
    BY <1>4 DEF Alone, CurrAlone, HandAlone, LocalAlone, DsqAlone, WakePinned
  <2>3. LocalAlone'
    BY <1>4 DEF Alone, CurrAlone, HandAlone, LocalAlone, DsqAlone, WakePinned
  <2>4. DsqAlone'
    BY <1>4 DEF Alone, CurrAlone, HandAlone, LocalAlone, DsqAlone, WakePinned
  <2> QED BY <2>1, <2>2, <2>3, <2>4 DEF Alone
<1>5. ASSUME NEW c \in Cpus, DirectDispatch(c) PROVE Alone'
  <2>1. CurrAlone'
    BY <1>5 DEF Alone, CurrAlone, HandAlone, LocalAlone, DsqAlone, DirectDispatch
  <2>2. HandAlone'
    BY <1>5 DEF Alone, CurrAlone, HandAlone, LocalAlone, DsqAlone, DirectDispatch
  <2>3. LocalAlone'
    BY <1>5 DEF Alone, CurrAlone, HandAlone, LocalAlone, DsqAlone, DirectDispatch
  <2>4. DsqAlone'
    BY <1>5 DEF Alone, CurrAlone, HandAlone, LocalAlone, DsqAlone, DirectDispatch
  <2> QED BY <2>1, <2>2, <2>3, <2>4 DEF Alone
<1>6. ASSUME NEW c \in Cpus, Enqueue(c) PROVE Alone'
  <2>1. CurrAlone'
    BY <1>6 DEF Alone, CurrAlone, HandAlone, LocalAlone, DsqAlone, Enqueue, Insert, enq_llc
  <2>2. HandAlone'
    BY <1>6 DEF Alone, CurrAlone, HandAlone, LocalAlone, DsqAlone, Enqueue, Insert, enq_llc
  <2>3. LocalAlone'
    BY <1>6 DEF Alone, CurrAlone, HandAlone, LocalAlone, DsqAlone, Enqueue, Insert, enq_llc
  <2>4. DsqAlone'
    BY <1>6 DEF Alone, CurrAlone, HandAlone, LocalAlone, DsqAlone, Enqueue, Insert, enq_llc
  <2> QED BY <2>1, <2>2, <2>3, <2>4 DEF Alone
<1>7. ASSUME NEW c \in Cpus, Block(c) PROVE Alone'
  <2>1. CurrAlone'
    BY <1>7 DEF Alone, CurrAlone, HandAlone, LocalAlone, DsqAlone, Block
  <2>2. HandAlone'
    BY <1>7 DEF Alone, CurrAlone, HandAlone, LocalAlone, DsqAlone, Block
  <2>3. LocalAlone'
    BY <1>7 DEF Alone, CurrAlone, HandAlone, LocalAlone, DsqAlone, Block
  <2>4. DsqAlone'
    BY <1>7 DEF Alone, CurrAlone, HandAlone, LocalAlone, DsqAlone, Block
  <2> QED BY <2>1, <2>2, <2>3, <2>4 DEF Alone
<1>8. ASSUME NEW c \in Cpus, MoveToLocal(c) PROVE Alone'
  <2>1. CurrAlone'
    BY <1>8 DEF Alone, CurrAlone, HandAlone, LocalAlone, DsqAlone, MoveToLocal, Eligible
  <2>2. HandAlone'
    BY <1>8 DEF Alone, CurrAlone, HandAlone, LocalAlone, DsqAlone, MoveToLocal, Eligible
  <2>3. LocalAlone'
    BY <1>8 DEF Alone, CurrAlone, HandAlone, LocalAlone, DsqAlone, MoveToLocal, Eligible
  <2>4. DsqAlone'
    BY <1>8 DEF Alone, CurrAlone, HandAlone, LocalAlone, DsqAlone, MoveToLocal, Eligible
  <2> QED BY <2>1, <2>2, <2>3, <2>4 DEF Alone
<1>9. ASSUME NEW c \in Cpus, KeepOrIdle(c) PROVE Alone'
  <2>1. CurrAlone'
    BY <1>9 DEF Alone, CurrAlone, HandAlone, LocalAlone, DsqAlone, KeepOrIdle
  <2>2. HandAlone'
    BY <1>9 DEF Alone, CurrAlone, HandAlone, LocalAlone, DsqAlone, KeepOrIdle
  <2>3. LocalAlone'
    BY <1>9 DEF Alone, CurrAlone, HandAlone, LocalAlone, DsqAlone, KeepOrIdle
  <2>4. DsqAlone'
    BY <1>9 DEF Alone, CurrAlone, HandAlone, LocalAlone, DsqAlone, KeepOrIdle
  <2> QED BY <2>1, <2>2, <2>3, <2>4 DEF Alone
<1>10. ASSUME NEW c \in Cpus, PutPrev(c) PROVE Alone'
  <2>1. CurrAlone'
    BY <1>10 DEF Alone, CurrAlone, HandAlone, LocalAlone, DsqAlone, PutPrev
  <2>2. HandAlone'
    BY <1>10 DEF Alone, CurrAlone, HandAlone, LocalAlone, DsqAlone, PutPrev
  <2>3. LocalAlone'
    BY <1>10 DEF Alone, CurrAlone, HandAlone, LocalAlone, DsqAlone, PutPrev
  <2>4. DsqAlone'
    BY <1>10 DEF Alone, CurrAlone, HandAlone, LocalAlone, DsqAlone, PutPrev
  <2> QED BY <2>1, <2>2, <2>3, <2>4 DEF Alone
<1>11. ASSUME NEW c \in Cpus, Requeue(c) PROVE Alone'
  <2>1. CurrAlone'
    BY <1>11 DEF Alone, CurrAlone, HandAlone, LocalAlone, DsqAlone, Requeue, Insert
  <2>2. HandAlone'
    BY <1>11 DEF Alone, CurrAlone, HandAlone, LocalAlone, DsqAlone, Requeue, Insert
  <2>3. LocalAlone'
    BY <1>11 DEF Alone, CurrAlone, HandAlone, LocalAlone, DsqAlone, Requeue, Insert
  <2>4. DsqAlone'
    BY <1>11 DEF Alone, CurrAlone, HandAlone, LocalAlone, DsqAlone, Requeue, Insert
  <2> QED BY <2>1, <2>2, <2>3, <2>4 DEF Alone
<1>12. ASSUME NEW c \in Cpus, Running(c) PROVE Alone'
  <2>1. CurrAlone'
    BY <1>12 DEF Alone, CurrAlone, HandAlone, LocalAlone, DsqAlone, Running
  <2>2. HandAlone'
    BY <1>12 DEF Alone, CurrAlone, HandAlone, LocalAlone, DsqAlone, Running
  <2>3. LocalAlone'
    BY <1>12 DEF Alone, CurrAlone, HandAlone, LocalAlone, DsqAlone, Running
  <2>4. DsqAlone'
    BY <1>12 DEF Alone, CurrAlone, HandAlone, LocalAlone, DsqAlone, Running
  <2> QED BY <2>1, <2>2, <2>3, <2>4 DEF Alone
<1> HIDE DEF TypeInv, TypeOK, StepOK, DispatchSteps, kernelVars, mapVars, ctxVars, stepVars
<1>13. ASSUME NEW c \in Cpus, Quiet(c) PROVE Alone'
  BY <1>1, <1>13, QuietMovesNothing
<1>14. CASE UNCHANGED vars
  BY <1>1, <1>14 DEF vars, kernelVars, mapVars, stepVars, placeVars
<1>15. CASE Next
  BY <1>2, <1>3, <1>4, <1>5, <1>6, <1>7, <1>8, <1>9, <1>10, <1>11, <1>12, <1>13, <1>15, NextCases
<1> QED
  BY <1>14, <1>15

LEMMA SomewhereStep ==
  ASSUME TypeInv, Somewhere, [Next]_vars
  PROVE  Somewhere'
<1> USE NoneAssumption DEF TypeInv, TypeOK, StepOK, DispatchSteps,
         kernelVars, mapVars, ctxVars, stepVars
<1>1. CASE UNCHANGED placeVars
  BY <1>1 DEF placeVars, Somewhere
<1>2. ASSUME NEW c \in Cpus, NEW t \in Tasks, SelectIdleCpu(c, t) PROVE Somewhere'
  BY <1>2 DEF Somewhere, SelectIdleCpu
<1>3. ASSUME NEW c \in Cpus, NEW t \in Tasks, NEW irq \in BOOLEAN, SelectPrevCpu(c, t, irq) PROVE Somewhere'
  BY <1>3 DEF Somewhere, SelectPrevCpu
<1>4. ASSUME NEW c \in Cpus, NEW t \in Tasks, WakePinned(c, t) PROVE Somewhere'
  BY <1>4 DEF Somewhere, WakePinned
<1>5. ASSUME NEW c \in Cpus, DirectDispatch(c) PROVE Somewhere'
  BY <1>5 DEF Somewhere, DirectDispatch
<1>6. ASSUME NEW c \in Cpus, Enqueue(c) PROVE Somewhere'
  <2> DEFINE l == cpu_llc_id[task_cpu[hand[c]]]
  <2>1. hand[c] \in Tasks /\ l \in Llcs
    BY <1>6, LlcAssumption DEF Enqueue
  <2>2. /\ UNCHANGED <<curr, asleep, local>>
        /\ hand' = [hand EXCEPT ![c] = NoTask]
        /\ dsq' = [dsq EXCEPT ![l] = @ \cup {hand[c]}]
    BY <1>6 DEF Enqueue, Insert, enq_llc
  <2> HIDE DEF l
  <2> QED BY <2>1, <2>2 DEF Somewhere
<1>7. ASSUME NEW c \in Cpus, Block(c) PROVE Somewhere'
  BY <1>7 DEF Somewhere, Block
<1>8. ASSUME NEW c \in Cpus, MoveToLocal(c) PROVE Somewhere'
  BY <1>8 DEF Somewhere, MoveToLocal, Eligible
<1>9. ASSUME NEW c \in Cpus, KeepOrIdle(c) PROVE Somewhere'
  BY <1>9 DEF Somewhere, KeepOrIdle
<1>10. ASSUME NEW c \in Cpus, PutPrev(c) PROVE Somewhere'
  BY <1>10 DEF Somewhere, PutPrev
<1>11. ASSUME NEW c \in Cpus, Requeue(c) PROVE Somewhere'
  <2> DEFINE l == cpu_llc_id[c]
  <2>1. hand[c] \in Tasks /\ l \in Llcs
    BY <1>11, LlcAssumption DEF Requeue
  <2>2. /\ UNCHANGED <<curr, asleep, local>>
        /\ hand' = [hand EXCEPT ![c] = NoTask]
        /\ dsq' = [dsq EXCEPT ![l] = @ \cup {hand[c]}]
    BY <1>11 DEF Requeue, Insert
  <2> HIDE DEF l
  <2> QED BY <2>1, <2>2 DEF Somewhere
<1>12. ASSUME NEW c \in Cpus, Running(c) PROVE Somewhere'
  BY <1>12 DEF Somewhere, Running
<1> HIDE DEF TypeInv, TypeOK, StepOK, DispatchSteps, kernelVars, mapVars, ctxVars, stepVars
<1>13. ASSUME NEW c \in Cpus, Quiet(c) PROVE Somewhere'
  BY <1>1, <1>13, QuietMovesNothing
<1>14. CASE UNCHANGED vars
  BY <1>1, <1>14 DEF vars, kernelVars, mapVars, stepVars, placeVars
<1>15. CASE Next
  BY <1>2, <1>3, <1>4, <1>5, <1>6, <1>7, <1>8, <1>9, <1>10, <1>11, <1>12, <1>13, <1>15, NextCases
<1> QED
  BY <1>14, <1>15
-----------------------------------------------------------------------------
(* Where ops.dispatch goes after a failed pull. *)
NextPull(c) ==
  /\ \E s \in {"pick", "move", "scan"} :
       /\ pc' = [pc EXCEPT ![c] = s]
       /\ s = "move" \/ target'[c] = cpu_llc_id[c]
  /\ \A d \in Cpus \ {c} : target'[d] = target[d]

LEMMA StealFromGoes ==
  ASSUME TypeOK, NEW c \in Cpus, NEW mask, NEW l, StealFrom(c, mask, l)
  PROVE  NextPull(c)
<1>1. CASE mask = {}
  BY <1>1 DEF TypeOK, StealFrom, EndDispatch, Goto, NextPull
<1>2. CASE mask # {}
  BY <1>2 DEF TypeOK, StealFrom, Goto, NextPull
<1> QED
  BY <1>1, <1>2

LEMMA AfterFailureGoes ==
  ASSUME TypeOK, NEW c \in Cpus, AfterFailure(c)
  PROVE  NextPull(c)
<1>1. CASE target[c] = cpu_llc_id[c]
  BY <1>1 DEF TypeOK, AfterFailure, EndDispatch, Goto, NextPull
<1>2. CASE target[c] # cpu_llc_id[c]
  BY <1>2, StealFromGoes DEF AfterFailure
<1> QED
  BY <1>1, <1>2

LEMMA CountQueuedGoes ==
  ASSUME TypeOK, NEW c \in Cpus, CountQueued(c)
  PROVE  NextPull(c) \/ (pc' = [pc EXCEPT ![c] = "clear"] /\ UNCHANGED target)
BY AfterFailureGoes DEF CountQueued, Goto

LEMMA LockStep ==
  ASSUME TypeInv, LockOK, [Next]_vars
  PROVE  LockOK'
<1> USE NoneAssumption DEF TypeInv, TypeOK, StepOK, DispatchSteps, MarkSteps,
         kernelVars, mapVars, ctxVars, stepVars
<1>1. CASE UNCHANGED vars
  BY <1>1 DEF vars, LockOK
<1>2. ASSUME NEW c \in Cpus, NEW t \in Tasks, SelectIdleCpu(c, t) PROVE LockOK'
  BY <1>2 DEF LockOK, SelectIdleCpu, Goto
<1>3. ASSUME NEW c \in Cpus, NEW t \in Tasks, NEW irq \in BOOLEAN, SelectPrevCpu(c, t, irq) PROVE LockOK'
  BY <1>3 DEF LockOK, SelectPrevCpu, Goto
<1>4. ASSUME NEW c \in Cpus, NEW t \in Tasks, WakePinned(c, t) PROVE LockOK'
  BY <1>4 DEF LockOK, WakePinned, Goto
<1>5. ASSUME NEW c \in Cpus, DirectDispatch(c) PROVE LockOK'
  BY <1>5 DEF LockOK, DirectDispatch, Goto
<1>6. ASSUME NEW c \in Cpus, Enqueue(c) PROVE LockOK'
  BY <1>6 DEF LockOK, Enqueue, Lock, Unlocked, Goto
<1>7. ASSUME NEW c \in Cpus, MarkNonempty(c) PROVE LockOK'
  BY <1>7 DEF LockOK, MarkNonempty, Goto
<1>8. ASSUME NEW c \in Cpus, PickVictim(c) PROVE LockOK'
  BY <1>8 DEF LockOK, PickVictim, Goto
<1>9. ASSUME NEW c \in Cpus, KickVictim(c) PROVE LockOK'
  BY <1>9 DEF LockOK, KickVictim, Goto
<1>10. ASSUME NEW c \in Cpus, EnqueueEnd(c) PROVE LockOK'
  BY <1>10 DEF LockOK, EnqueueEnd, Unlock, Goto
<1>11. ASSUME NEW c \in Cpus, DeliverKick(c) PROVE LockOK'
  BY <1>11 DEF LockOK, DeliverKick
<1>12. ASSUME NEW c \in Cpus, NEW over \in BOOLEAN, NEW starved \in BOOLEAN, Tick(c, over, starved) PROVE LockOK'
  BY <1>12 DEF LockOK, Tick
<1>13. ASSUME NEW c \in Cpus, SliceExpired(c) PROVE LockOK'
  BY <1>13 DEF LockOK, SliceExpired
<1>14. ASSUME NEW c \in Cpus, Block(c) PROVE LockOK'
  BY <1>14 DEF LockOK, Block, BeginDispatch, Lock, Unlocked, Goto
<1>15. ASSUME NEW c \in Cpus, Schedule(c) PROVE LockOK'
  BY <1>15 DEF LockOK, Schedule, BeginDispatch, Lock, Unlocked, Goto
<1>16. ASSUME NEW c \in Cpus, MoveToLocal(c) PROVE LockOK'
  BY <1>16 DEF LockOK, MoveToLocal, EndDispatch, Goto
<1>17. ASSUME NEW c \in Cpus, MoveFails(c) PROVE LockOK'
  BY <1>17 DEF LockOK, MoveFails, Goto
<1>18. ASSUME NEW c \in Cpus, CountQueued(c) PROVE LockOK'
  <2>1. CASE NextPull(c)
    BY <1>18, <2>1 DEF LockOK, CountQueued, NextPull
  <2>2. CASE pc' = [pc EXCEPT ![c] = "clear"] /\ UNCHANGED target
    BY <1>18, <2>2 DEF LockOK, CountQueued
  <2>3. NextPull(c) \/ (pc' = [pc EXCEPT ![c] = "clear"] /\ UNCHANGED target)
    <3> HIDE DEF TypeOK, StepOK, DispatchSteps, MarkSteps
    <3> QED BY <1>18, CountQueuedGoes
  <2> QED BY <2>1, <2>2, <2>3
<1>19. ASSUME NEW c \in Cpus, ClearNonempty(c) PROVE LockOK'
  <2>1. NextPull(c)
    <3> HIDE DEF TypeOK, StepOK, DispatchSteps, MarkSteps
    <3> QED BY <1>19, AfterFailureGoes DEF ClearNonempty
  <2> QED
    BY <1>19, <2>1 DEF LockOK, ClearNonempty, NextPull
<1>20. ASSUME NEW c \in Cpus, ScanFlags(c) PROVE LockOK'
  <2>1. NextPull(c)
    BY <1>20, StealFromGoes DEF ScanFlags
  <2> QED
    BY <1>20, <2>1 DEF LockOK, ScanFlags, NextPull
<1>21. ASSUME NEW c \in Cpus, KeepOrIdle(c) PROVE LockOK'
  BY <1>21 DEF LockOK, KeepOrIdle, Unlock, Goto
<1>22. ASSUME NEW c \in Cpus, PutPrev(c) PROVE LockOK'
  BY <1>22 DEF LockOK, PutPrev, Goto
<1>23. ASSUME NEW c \in Cpus, Requeue(c) PROVE LockOK'
  BY <1>23 DEF LockOK, Requeue, Goto
<1>24. ASSUME NEW c \in Cpus, Running(c) PROVE LockOK'
  BY <1>24 DEF LockOK, Running, Unlock, Goto
<1> HIDE DEF TypeInv, TypeOK, StepOK, DispatchSteps, MarkSteps, kernelVars, mapVars, ctxVars, stepVars
<1>25. CASE Next
  BY <1>2, <1>3, <1>4, <1>5, <1>6, <1>7, <1>8, <1>9, <1>10, <1>11, <1>12, <1>13, <1>14, <1>15, <1>16, <1>17, <1>18, <1>19, <1>20, <1>21, <1>22, <1>23, <1>24, <1>25
     DEF Next, Wakeup, EnqueueStep, DispatchStep
<1> QED
  BY <1>1, <1>25
-----------------------------------------------------------------------------
LEMMA QuietKeepsCpu ==
  ASSUME TypeInv, NEW c \in Cpus, Quiet(c)
  PROVE  UNCHANGED task_cpu /\ \A d \in Cpus : pc'[d] = "requeue" => pc[d] = "requeue"
<1> USE DEF TypeInv, TypeOK, kernelVars, mapVars, ctxVars, stepVars
<1>1. CASE MarkNonempty(c)
  BY <1>1 DEF MarkNonempty, Goto, MarkSteps
<1>2. CASE PickVictim(c)
  BY <1>2 DEF PickVictim, Goto
<1>3. CASE KickVictim(c)
  BY <1>3 DEF KickVictim, Goto
<1>4. CASE EnqueueEnd(c)
  BY <1>4 DEF EnqueueEnd, Unlock, Goto
<1>5. CASE DeliverKick(c)
  BY <1>5 DEF DeliverKick
<1>6. CASE \E over, starved \in BOOLEAN : Tick(c, over, starved)
  BY <1>6 DEF Tick
<1>7. CASE SliceExpired(c)
  BY <1>7 DEF SliceExpired
<1>8. CASE Schedule(c)
  BY <1>8 DEF Schedule, BeginDispatch, Lock, Goto
<1>9. CASE MoveFails(c)
  BY <1>9 DEF MoveFails, Goto
<1>10. CASE CountQueued(c)
  BY <1>10, CountQueuedGoes DEF CountQueued, NextPull
<1>11. CASE ClearNonempty(c)
  BY <1>11, AfterFailureGoes DEF ClearNonempty, NextPull
<1>12. CASE ScanFlags(c)
  <2>1. NextPull(c)
    BY <1>12, StealFromGoes DEF ScanFlags
  <2> QED
    BY <1>12, <2>1 DEF ScanFlags, NextPull
<1> QED
  BY <1>1, <1>2, <1>3, <1>4, <1>5, <1>6, <1>7, <1>8, <1>9, <1>10, <1>11, <1>12 DEF Quiet

LEMMA CpuStep ==
  ASSUME TypeInv, Alone, LockOK, CpuOK, [Next]_vars
  PROVE  CpuOK'
<1> USE NoneAssumption, LlcAssumption DEF TypeInv, TypeOK, StepOK, DispatchSteps,
         kernelVars, mapVars, ctxVars, stepVars
<1>1. ASSUME UNCHANGED placeVars, UNCHANGED task_cpu,
             \A d \in Cpus : pc'[d] = "requeue" => pc[d] = "requeue"
      PROVE  CpuOK'
  BY <1>1 DEF placeVars, CpuOK
<1>2. ASSUME NEW c \in Cpus, NEW t \in Tasks, SelectIdleCpu(c, t) PROVE CpuOK'
  <2>1. PICK d \in Cpus : d \in Allowed[t] /\ task_cpu' = [task_cpu EXCEPT ![t] = d]
    BY <1>2, SelectIdlePicks DEF TypeInv
  <2>2. t \in asleep /\ UNCHANGED <<curr, local, dsq>> /\ pc' = [pc EXCEPT ![c] = "direct"]
    BY <1>2 DEF SelectIdleCpu, Goto
  <2>3. \A u \in Tasks : u # t => task_cpu'[u] = task_cpu[u]
    BY <2>1
  <2>4. \A u \in Tasks : task_cpu'[u] \in Allowed[u]
    BY <2>1, <2>3 DEF CpuOK
  <2>5. \A e \in Cpus : /\ curr[e] # NoTask => task_cpu'[curr[e]] = e
                        /\ \A u \in local[e] : task_cpu'[u] = e
    BY <2>2, <2>3 DEF CpuOK, Alone, CurrAlone, LocalAlone
  <2>6. \A e \in Cpus : pc'[e] = "requeue" => task_cpu'[hand'[e]] = e
    BY <1>2, <2>2, <2>3 DEF CpuOK, Alone, HandAlone, SelectIdleCpu
  <2>7. \A l \in Llcs : \A u \in dsq[l] : cpu_llc_id[task_cpu'[u]] = l
    BY <2>2, <2>3 DEF CpuOK, Alone, DsqAlone
  <2> QED
    BY <2>2, <2>4, <2>5, <2>6, <2>7 DEF CpuOK
<1>3. ASSUME NEW c \in Cpus, NEW t \in Tasks, NEW irq \in BOOLEAN, SelectPrevCpu(c, t, irq) PROVE CpuOK'
  BY <1>3 DEF CpuOK, Alone, CurrAlone, HandAlone, LocalAlone, DsqAlone, SelectPrevCpu, Goto
<1>4. ASSUME NEW c \in Cpus, NEW t \in Tasks, WakePinned(c, t) PROVE CpuOK'
  BY <1>4 DEF CpuOK, Alone, CurrAlone, HandAlone, LocalAlone, DsqAlone, WakePinned, Goto
<1>5. ASSUME NEW c \in Cpus, DirectDispatch(c) PROVE CpuOK'
  BY <1>5 DEF CpuOK, Alone, CurrAlone, HandAlone, LocalAlone, DsqAlone, DirectDispatch, Goto
<1>6. ASSUME NEW c \in Cpus, Enqueue(c) PROVE CpuOK'
  BY <1>6 DEF CpuOK, Alone, CurrAlone, HandAlone, LocalAlone, DsqAlone, Enqueue, Insert, enq_llc, Goto
<1>7. ASSUME NEW c \in Cpus, Block(c) PROVE CpuOK'
  BY <1>7 DEF CpuOK, Alone, CurrAlone, HandAlone, LocalAlone, DsqAlone, Block, BeginDispatch, Lock, Goto
<1>8. ASSUME NEW c \in Cpus, MoveToLocal(c) PROVE CpuOK'
  <2>1. PICK t \in dsq[target[c]] :
          /\ c \in Allowed[t]
          /\ dsq' = [dsq EXCEPT ![target[c]] = @ \ {t}]
          /\ local' = [local EXCEPT ![c] = @ \cup {t}]
          /\ task_cpu' = [task_cpu EXCEPT ![t] = c]
    BY <1>8 DEF MoveToLocal, Eligible
  <2>2. t \in Tasks /\ UNCHANGED <<curr, hand>> /\ pc' = [pc EXCEPT ![c] = "pick"]
    BY <1>8, <2>1 DEF MoveToLocal, EndDispatch, Goto
  <2>3. \A u \in Tasks : u # t => task_cpu'[u] = task_cpu[u]
    BY <2>1
  <2>4. \A u \in Tasks : task_cpu'[u] \in Allowed[u]
    BY <2>1, <2>2, <2>3 DEF CpuOK
  <2>5. \A e \in Cpus : curr[e] # NoTask => task_cpu'[curr[e]] = e
    BY <2>1, <2>3 DEF CpuOK, Alone, CurrAlone
  <2>6. \A e \in Cpus : \A u \in local'[e] : task_cpu'[u] = e
    BY <2>1, <2>2, <2>3 DEF CpuOK, Alone, LocalAlone
  <2>7. \A e \in Cpus : pc'[e] = "requeue" => task_cpu'[hand[e]] = e
    BY <2>1, <2>2, <2>3 DEF CpuOK, Alone, HandAlone
  <2>8. \A l \in Llcs : \A u \in dsq'[l] : cpu_llc_id[task_cpu'[u]] = l
    BY <2>1, <2>2, <2>3 DEF CpuOK, Alone, DsqAlone
  <2> QED
    BY <2>2, <2>4, <2>5, <2>6, <2>7, <2>8 DEF CpuOK
<1>9. ASSUME NEW c \in Cpus, KeepOrIdle(c) PROVE CpuOK'
  BY <1>9 DEF CpuOK, Alone, CurrAlone, HandAlone, LocalAlone, DsqAlone, KeepOrIdle, Goto
<1>10. ASSUME NEW c \in Cpus, PutPrev(c) PROVE CpuOK'
  BY <1>10 DEF CpuOK, Alone, CurrAlone, HandAlone, LocalAlone, DsqAlone, PutPrev, Goto
<1>11. ASSUME NEW c \in Cpus, Requeue(c) PROVE CpuOK'
  BY <1>11 DEF CpuOK, Alone, CurrAlone, HandAlone, LocalAlone, DsqAlone, Requeue, Insert, Goto
<1>12. ASSUME NEW c \in Cpus, Running(c) PROVE CpuOK'
  BY <1>12 DEF CpuOK, Alone, CurrAlone, HandAlone, LocalAlone, DsqAlone, Running, Goto
<1> HIDE DEF TypeInv, TypeOK, StepOK, DispatchSteps, kernelVars, mapVars, ctxVars, stepVars
<1>13. ASSUME NEW c \in Cpus, Quiet(c) PROVE CpuOK'
  BY <1>1, <1>13, QuietMovesNothing, QuietKeepsCpu
<1>14. CASE UNCHANGED vars
  BY <1>1, <1>14 DEF vars, kernelVars, mapVars, stepVars, placeVars
<1>15. CASE Next
  BY <1>2, <1>3, <1>4, <1>5, <1>6, <1>7, <1>8, <1>9, <1>10, <1>11, <1>12, <1>13, <1>15, NextCases
<1> QED
  BY <1>14, <1>15
-----------------------------------------------------------------------------
(* A step that leaves the queues alone has only to keep the CPUs attended   *)
(* and to bring no CPU past the pull from its own LLC.                     *)
LEMMA KeepsAttention ==
  ASSUME TypeInv, Drained, Attention, UNCHANGED <<dsq, local, task_cpu>>,
         \A d \in Cpus : Attended(d) => Attended(d)',
         \A d \in Cpus : OwnPullFailed(d)' => OwnPullFailed(d)
  PROVE  Drained' /\ Attention'
<1>1. Drained'
  BY DEF Drained
<1>2. Attention'
  BY DEF Attention, TypeInv, TypeOK
<1> QED
  BY <1>1, <1>2

LEMMA AttentionStep ==
  ASSUME TypeInv, Alone, LockOK, CpuOK, Drained, Attention, [Next]_vars
  PROVE  Drained' /\ Attention'
<1> USE NoneAssumption, LlcAssumption DEF TypeInv, TypeOK, StepOK, DispatchSteps, MarkSteps,
         kernelVars, mapVars, ctxVars, stepVars
<1>1. CASE UNCHANGED vars
  <2>1. UNCHANGED <<curr, resched, rq, local, dsq, task_cpu, target, pc>>
    BY <1>1 DEF vars
  <2>2. \A e \in Cpus : Attended(e) => Attended(e)'
    BY <2>1 DEF Attended, Unlocked
  <2>3. \A e \in Cpus : OwnPullFailed(e)' => OwnPullFailed(e)
    BY <2>1 DEF OwnPullFailed
  <2> QED
    BY <2>1, <2>2, <2>3, KeepsAttention
<1>2. ASSUME NEW c \in Cpus, NEW t \in Tasks,
             \/ SelectIdleCpu(c, t)
             \/ \E irq \in BOOLEAN : SelectPrevCpu(c, t, irq)
             \/ WakePinned(c, t)
      PROVE  Drained' /\ Attention'
  <2>1. /\ t \in asleep
        /\ UNCHANGED <<curr, resched, rq, local, dsq, target>>
        /\ \A d \in Cpus : pc'[d] # pc[d] => pc'[d] \in {"direct", "enqueue"}
    BY <1>2 DEF SelectIdleCpu, SelectPrevCpu, WakePinned, Goto
  <2>2. \A u \in Tasks : u # t => task_cpu'[u] = task_cpu[u]
    BY <1>2 DEF SelectIdleCpu, SelectPrevCpu, WakePinned
  <2>3. \A l \in Llcs : \A u \in dsq[l] : u # t
    BY <2>1 DEF Alone, DsqAlone
  <2>4. \A d \in Cpus : OwnPullFailed(d)' => OwnPullFailed(d)
    BY <2>1 DEF OwnPullFailed
  <2>5. \A d \in Cpus : Attended(d)' = Attended(d)
    BY <2>1 DEF Attended, Unlocked
  <2>6. \A l \in Llcs : \A u \in dsq[l] : task_cpu'[u] = task_cpu[u] /\ task_cpu[u] \in Cpus
    BY <2>2, <2>3
  <2>7. Drained'
    BY <2>1, <2>4, <2>6 DEF Drained
  <2>8. Attention'
    BY <2>1, <2>5, <2>6 DEF Attention
  <2> QED
    BY <2>7, <2>8
<1>3. ASSUME NEW c \in Cpus, DirectDispatch(c) PROVE Drained' /\ Attention'
  <2>1. PICK d \in Cpus :
        /\ local' = [local EXCEPT ![d] = @ \cup {hand[c]}]
        /\ resched' = IF curr[d] = NoTask THEN resched \cup {d} ELSE resched
        /\ pc' = [pc EXCEPT ![c] = "user"]
        /\ UNCHANGED <<curr, rq, task_cpu, dsq, target>>
    BY <1>3 DEF DirectDispatch, WakeIdleCpu, Goto
  <2>2. \A e \in Cpus : OwnPullFailed(e)' => OwnPullFailed(e)
    BY <2>1 DEF OwnPullFailed
  <2>3. Attended(d)' /\ \A e \in Cpus : Attended(e) => Attended(e)'
    BY <2>1 DEF Attended, Unlocked
  <2>4. Drained'
    BY <2>1, <2>2 DEF Drained
  <2>5. Attention'
    BY <2>1, <2>3 DEF Attention
  <2> QED
    BY <2>4, <2>5
<1>4. ASSUME NEW c \in Cpus, Enqueue(c) PROVE Drained' /\ Attention'
  <2>1. PICK t \in Tasks, d \in Cpus, l \in Llcs :
          t = hand[c] /\ d = task_cpu[t] /\ l = cpu_llc_id[d] /\ rq[c] = NoCpu
    BY <1>4 DEF Enqueue, LockOK
  <2>2. /\ Unlocked(d)
        /\ rq' = [rq EXCEPT ![c] = d]
        /\ dsq' = [dsq EXCEPT ![l] = @ \cup {t}]
        /\ UNCHANGED <<curr, resched, local, task_cpu, target>>
        /\ \A e \in Cpus : pc'[e] # pc[e] => pc'[e] \in {"mark", "mark_kick"}
    BY <1>4, <2>1 DEF Enqueue, Lock, Insert, enq_llc, Goto
  <2>4. \A e \in Cpus : OwnPullFailed(e)' => OwnPullFailed(e) /\ e # d
    BY <2>2 DEF OwnPullFailed, LockOK, Unlocked
  <2>5. Attended(d)' /\ \A e \in Cpus : Attended(e) => Attended(e)'
    BY <2>1, <2>2 DEF Attended, Unlocked
  <2>6. \A k \in Llcs : \A u \in dsq'[k] : u \in dsq[k] \/ u = t
    BY <2>2
  <2>7. Drained'
    BY <2>1, <2>2, <2>4, <2>6 DEF Drained
  <2>8. Attention'
    BY <2>1, <2>2, <2>5, <2>6 DEF Attention
  <2> QED
    BY <2>7, <2>8
<1>5. ASSUME NEW c \in Cpus, MarkNonempty(c) \/ PickVictim(c) \/ KickVictim(c) \/ EnqueueEnd(c)
      PROVE  Drained' /\ Attention'
  <2>1. /\ UNCHANGED <<curr, local, dsq, task_cpu, target>>
        /\ \A e \in Cpus : pc'[e] # pc[e] => pc'[e] \in {"pick_victim", "kick", "unlock", "start", "user"}
    BY <1>5 DEF MarkNonempty, PickVictim, KickVictim, EnqueueEnd, Goto
  <2>2. \A e \in Cpus : Attended(e) => Attended(e)'
    <3>1. CASE MarkNonempty(c) \/ PickVictim(c) \/ KickVictim(c)
      BY <3>1 DEF MarkNonempty, PickVictim, KickVictim, Attended, Unlocked
    <3>2. CASE EnqueueEnd(c)
      BY <3>2 DEF EnqueueEnd, WakeIdleCpu, Unlock, Attended, Unlocked
    <3> QED
      BY <1>5, <3>1, <3>2
  <2>3. \A e \in Cpus : OwnPullFailed(e)' => OwnPullFailed(e)
    BY <2>1 DEF OwnPullFailed
  <2> QED
    BY <2>1, <2>2, <2>3, KeepsAttention
<1>6. ASSUME NEW c \in Cpus,
             DeliverKick(c) \/ SliceExpired(c) \/ \E over, starved \in BOOLEAN : Tick(c, over, starved)
      PROVE  Drained' /\ Attention'
  <2>1. /\ UNCHANGED <<curr, rq, local, dsq, task_cpu, target, pc>>
        /\ resched \subseteq resched'
    BY <1>6 DEF DeliverKick, SliceExpired, Tick
  <2>2. \A e \in Cpus : Attended(e) => Attended(e)'
    BY <2>1 DEF Attended, Unlocked
  <2>3. \A e \in Cpus : OwnPullFailed(e)' => OwnPullFailed(e)
    BY <2>1 DEF OwnPullFailed
  <2> QED
    BY <2>1, <2>2, <2>3, KeepsAttention
<1>7. ASSUME NEW c \in Cpus, Block(c) \/ Schedule(c) PROVE Drained' /\ Attention'
  <2>1. /\ UNCHANGED <<local, dsq, task_cpu, target>>
        /\ pc[c] = "user" /\ rq[c] = NoCpu /\ target[c] = cpu_llc_id[c]
        /\ rq' = [rq EXCEPT ![c] = c]
        /\ pc' = [pc EXCEPT ![c] = IF local[c] = {} THEN "move" ELSE "pick"]
        /\ \A e \in Cpus \ {c} : curr'[e] = curr[e] /\ (e \in resched => e \in resched')
    BY <1>7 DEF Block, Schedule, BeginDispatch, Lock, Goto, LockOK
  <2>2. \A e \in Cpus : Attended(e) => Attended(e)'
    BY <2>1 DEF Attended, Unlocked
  <2>3. \A e \in Cpus : OwnPullFailed(e)' => OwnPullFailed(e)
    BY <2>1 DEF OwnPullFailed
  <2> QED
    BY <2>1, <2>2, <2>3, KeepsAttention
<1>8. ASSUME NEW c \in Cpus, MoveToLocal(c) PROVE Drained' /\ Attention'
  <2>1. PICK t \in dsq[target[c]] :
          /\ dsq' = [dsq EXCEPT ![target[c]] = @ \ {t}]
          /\ local' = [local EXCEPT ![c] = @ \cup {t}]
          /\ task_cpu' = [task_cpu EXCEPT ![t] = c]
    BY <1>8 DEF MoveToLocal, Eligible
  <2>2. /\ t \in Tasks /\ UNCHANGED <<curr, resched, rq>> /\ rq[c] = c
        /\ pc' = [pc EXCEPT ![c] = "pick"]
        /\ \A e \in Cpus \ {c} : target'[e] = target[e]
    BY <1>8, <2>1 DEF MoveToLocal, EndDispatch, Goto, LockOK
  <2>3. \A k \in Llcs : \A u \in dsq'[k] :
          u \in dsq[k] /\ task_cpu'[u] = task_cpu[u] /\ task_cpu[u] \in Cpus
    BY <2>1, <2>2 DEF Alone, DsqAlone
  <2>4. \A e \in Cpus : OwnPullFailed(e)' => OwnPullFailed(e)
    BY <2>1, <2>2 DEF OwnPullFailed
  <2>5. Attended(c)' /\ \A e \in Cpus : Attended(e)' = Attended(e)
    BY <2>2 DEF Attended, Unlocked
  <2>6. Drained'
    BY <2>3, <2>4 DEF Drained
  <2>7. Attention'
    BY <2>1, <2>3, <2>5 DEF Attention
  <2> QED
    BY <2>6, <2>7
<1>9. ASSUME NEW c \in Cpus, MoveFails(c) PROVE Drained' /\ Attention'
  <2>1. /\ UNCHANGED <<curr, resched, rq, local, dsq, task_cpu, target>>
        /\ pc[c] = "move" /\ pc' = [pc EXCEPT ![c] = "count"]
        /\ \A t \in dsq[target[c]] : c \notin Allowed[t]
    BY <1>9 DEF MoveFails, Eligible, Goto
  <2>2. \A l \in Llcs : \A t \in dsq[l] : task_cpu[t] = c => l = cpu_llc_id[c] /\ c \in Allowed[t]
    BY DEF CpuOK
  <2>3. OwnPullFailed(c)' => \A l \in Llcs : \A t \in dsq[l] : task_cpu[t] # c
    <3>1. CASE target[c] = cpu_llc_id[c]
      BY <2>1, <2>2, <3>1
    <3>2. CASE target[c] # cpu_llc_id[c]
      BY <2>1, <3>2 DEF Drained, OwnPullFailed
    <3> QED
      BY <3>1, <3>2
  <2>4. \A e \in Cpus \ {c} : OwnPullFailed(e)' => OwnPullFailed(e)
    BY <2>1 DEF OwnPullFailed
  <2>5. Drained'
    BY <2>1, <2>3, <2>4 DEF Drained
  <2>6. Attention'
    BY <2>1 DEF Attention, Attended, Unlocked
  <2> QED
    BY <2>5, <2>6
<1>10. ASSUME NEW c \in Cpus, CountQueued(c) \/ ClearNonempty(c) \/ ScanFlags(c)
       PROVE  Drained' /\ Attention'
  <2>1. /\ UNCHANGED <<curr, resched, rq, local, dsq, task_cpu>>
        /\ pc[c] \in {"count", "clear", "scan"}
    BY <1>10 DEF CountQueued, ClearNonempty, ScanFlags
  <2>2. NextPull(c) \/ (pc' = [pc EXCEPT ![c] = "clear"] /\ UNCHANGED target)
    BY <1>10, CountQueuedGoes, AfterFailureGoes, StealFromGoes DEF ClearNonempty, ScanFlags
  <2>3. \A e \in Cpus : OwnPullFailed(e)' => OwnPullFailed(e)
    BY <2>1, <2>2 DEF OwnPullFailed, NextPull
  <2>4. \A e \in Cpus : Attended(e) => Attended(e)'
    BY <2>1 DEF Attended, Unlocked
  <2> QED
    BY <2>1, <2>3, <2>4, KeepsAttention
<1>11. ASSUME NEW c \in Cpus, KeepOrIdle(c) PROVE Drained' /\ Attention'
  <2>1. /\ UNCHANGED <<curr, resched, local, dsq, task_cpu, target>>
        /\ rq[c] = c /\ rq' = [rq EXCEPT ![c] = NoCpu]
        /\ pc[c] = "pick" /\ pc' = [pc EXCEPT ![c] = "user"]
        /\ local[c] = {}
    BY <1>11 DEF KeepOrIdle, Unlock, Goto, LockOK
  <2>2. \A l \in Llcs : \A t \in dsq[l] : task_cpu[t] # c
    BY <2>1 DEF Drained, OwnPullFailed
  <2>3. \A e \in Cpus \ {c} : Attended(e) => Attended(e)'
    BY <2>1 DEF Attended, Unlocked
  <2>4. \A e \in Cpus : OwnPullFailed(e)' => OwnPullFailed(e)
    BY <2>1 DEF OwnPullFailed
  <2>5. Drained'
    BY <2>1, <2>4 DEF Drained
  <2>6. Attention'
    BY <2>1, <2>2, <2>3 DEF Attention
  <2> QED
    BY <2>5, <2>6
<1>12. ASSUME NEW c \in Cpus, PutPrev(c) PROVE Drained' /\ Attention'
  <2>1. /\ UNCHANGED <<resched, rq, local, dsq, task_cpu, target>>
        /\ rq[c] = c
        /\ \A e \in Cpus \ {c} : curr'[e] = curr[e]
        /\ \A e \in Cpus : pc'[e] # pc[e] => pc'[e] \in {"start", "requeue"}
    BY <1>12 DEF PutPrev, Goto, LockOK
  <2>2. \A e \in Cpus : Attended(e) => Attended(e)'
    BY <2>1 DEF Attended, Unlocked
  <2>3. \A e \in Cpus : OwnPullFailed(e)' => OwnPullFailed(e)
    BY <2>1 DEF OwnPullFailed
  <2> QED
    BY <2>1, <2>2, <2>3, KeepsAttention
<1>13. ASSUME NEW c \in Cpus, Requeue(c) PROVE Drained' /\ Attention'
  <2> DEFINE t == hand[c]
             l == cpu_llc_id[c]
  <2>1. /\ t \in Tasks /\ l \in Llcs /\ rq[c] = c /\ task_cpu[t] = c
        /\ dsq' = [dsq EXCEPT ![l] = @ \cup {t}]
        /\ UNCHANGED <<curr, resched, rq, local, task_cpu, target>>
        /\ pc' = [pc EXCEPT ![c] = "remark"]
    BY <1>13 DEF Requeue, Insert, Goto, LockOK, CpuOK
  <2> HIDE DEF t, l
  <2>2. \A k \in Llcs : \A u \in dsq'[k] : u \in dsq[k] \/ u = t
    BY <2>1
  <2>3. \A e \in Cpus : OwnPullFailed(e)' => OwnPullFailed(e) /\ e # c
    BY <2>1 DEF OwnPullFailed
  <2>4. Attended(c)' /\ \A e \in Cpus : Attended(e)' = Attended(e)
    BY <2>1 DEF Attended, Unlocked
  <2>5. Drained'
    BY <2>1, <2>2, <2>3 DEF Drained
  <2>6. Attention'
    BY <2>1, <2>2, <2>4 DEF Attention
  <2> QED
    BY <2>5, <2>6
<1>14. ASSUME NEW c \in Cpus, Running(c) PROVE Drained' /\ Attention'
  <2>1. PICK t \in local[c] :
          /\ local' = [local EXCEPT ![c] = @ \ {t}]
          /\ curr' = [curr EXCEPT ![c] = t]
    BY <1>14 DEF Running
  <2>2. /\ t \in Tasks /\ t # NoTask
        /\ UNCHANGED <<resched, dsq, task_cpu, target>>
        /\ rq[c] = c /\ rq' = [rq EXCEPT ![c] = NoCpu]
        /\ pc[c] = "start" /\ pc' = [pc EXCEPT ![c] = "user"]
    BY <1>14, <2>1 DEF Running, Unlock, Goto, LockOK
  <2>3. Attended(c)' /\ \A e \in Cpus : Attended(e) => Attended(e)'
    BY <2>1, <2>2 DEF Attended, Unlocked
  <2>4. \A e \in Cpus : OwnPullFailed(e)' => OwnPullFailed(e)
    BY <2>1, <2>2 DEF OwnPullFailed
  <2>5. Drained'
    BY <2>2, <2>4 DEF Drained
  <2>6. Attention'
    BY <2>1, <2>2, <2>3 DEF Attention
  <2> QED
    BY <2>5, <2>6
<1> HIDE DEF TypeInv, TypeOK, StepOK, DispatchSteps, MarkSteps, kernelVars, mapVars, ctxVars, stepVars
<1>15. CASE Next
  BY <1>2, <1>3, <1>4, <1>5, <1>6, <1>7, <1>8, <1>9, <1>10, <1>11, <1>12, <1>13, <1>14, <1>15
     DEF Next, Wakeup, EnqueueStep, DispatchStep
<1> QED
  BY <1>1, <1>15
-----------------------------------------------------------------------------
LEMMA IrqWakeStep ==
  ASSUME TypeInv, IrqWakeOneShot, [Next]_vars
  PROVE  IrqWakeOneShot'
<1> USE NoneAssumption DEF TypeInv, TypeOK, StepOK, DispatchSteps, MarkSteps,
         kernelVars, mapVars, ctxVars, stepVars
<1>1. ASSUME UNCHANGED irq_wake,
             \A d \in Cpus : pc[d] = "enqueue" => pc'[d] = "enqueue" /\ hand'[d] = hand[d]
      PROVE  IrqWakeOneShot'
  BY <1>1 DEF IrqWakeOneShot
<1>2. ASSUME NEW c \in Cpus, NEW t \in Tasks, SelectIdleCpu(c, t) PROVE IrqWakeOneShot'
  BY <1>2 DEF IrqWakeOneShot, SelectIdleCpu, ConsumeIrqWake, Goto
<1>3. ASSUME NEW c \in Cpus, NEW t \in Tasks, NEW irq \in BOOLEAN, SelectPrevCpu(c, t, irq)
      PROVE  IrqWakeOneShot'
  BY <1>3 DEF IrqWakeOneShot, SelectPrevCpu, Goto
<1>4. ASSUME NEW c \in Cpus, NEW t \in Tasks, WakePinned(c, t) PROVE IrqWakeOneShot'
  BY <1>1, <1>4 DEF WakePinned, Goto
<1>5. ASSUME NEW c \in Cpus, Enqueue(c) PROVE IrqWakeOneShot'
  BY <1>5 DEF IrqWakeOneShot, Enqueue, ConsumeIrqWake, Goto
<1>6. ASSUME NEW c \in Cpus,
             \/ DirectDispatch(c) \/ MarkNonempty(c) \/ PickVictim(c) \/ KickVictim(c)
             \/ EnqueueEnd(c) \/ DeliverKick(c) \/ SliceExpired(c) \/ Block(c) \/ Schedule(c)
             \/ \E over, starved \in BOOLEAN : Tick(c, over, starved)
      PROVE  IrqWakeOneShot'
  <2>1. /\ UNCHANGED irq_wake
        /\ \A d \in Cpus : pc[d] = "enqueue" => pc'[d] = "enqueue" /\ hand'[d] = hand[d]
    BY <1>6 DEF DirectDispatch, MarkNonempty, PickVictim, KickVictim, EnqueueEnd, DeliverKick,
         SliceExpired, Block, Schedule, BeginDispatch, Tick, Goto
  <2> QED
    BY <1>1, <2>1
<1>7. ASSUME NEW c \in Cpus,
             \/ MoveToLocal(c) \/ MoveFails(c) \/ CountQueued(c) \/ ClearNonempty(c)
             \/ ScanFlags(c) \/ KeepOrIdle(c) \/ PutPrev(c) \/ Requeue(c) \/ Running(c)
      PROVE  IrqWakeOneShot'
  <2>1. UNCHANGED irq_wake /\ pc[c] # "enqueue"
    BY <1>7 DEF MoveToLocal, MoveFails, CountQueued, ClearNonempty, ScanFlags, KeepOrIdle,
         PutPrev, Requeue, Running
  <2>2. \A d \in Cpus \ {c} : pc'[d] = pc[d] /\ hand'[d] = hand[d]
    <3>1. CASE MoveToLocal(c) \/ MoveFails(c)
      BY <3>1 DEF MoveToLocal, EndDispatch, MoveFails, Goto
    <3>6. CASE KeepOrIdle(c)
      BY <3>6 DEF KeepOrIdle, Goto
    <3>7. CASE Requeue(c) \/ Running(c)
      BY <3>7 DEF Requeue, Running, Goto
    <3>2. CASE PutPrev(c)
      BY <3>2 DEF PutPrev, Goto
    <3>3. CASE CountQueued(c)
      <4>1. NextPull(c) \/ pc' = [pc EXCEPT ![c] = "clear"]
        <5> HIDE DEF TypeOK, StepOK, DispatchSteps, MarkSteps
        <5> QED BY <3>3, CountQueuedGoes
      <4> QED BY <3>3, <4>1 DEF CountQueued, NextPull
    <3>4. CASE ClearNonempty(c)
      BY <3>4, AfterFailureGoes DEF ClearNonempty, NextPull
    <3>5. CASE ScanFlags(c)
      BY <3>5, StealFromGoes DEF ScanFlags, NextPull
    <3> QED BY <1>7, <3>1, <3>2, <3>3, <3>4, <3>5, <3>6, <3>7
  <2> QED
    BY <1>1, <2>1, <2>2
<1>8. CASE UNCHANGED vars
  BY <1>1, <1>8 DEF vars
<1> HIDE DEF TypeInv, TypeOK, StepOK, DispatchSteps, MarkSteps, kernelVars, mapVars, ctxVars, stepVars
<1>9. CASE Next
  BY <1>2, <1>3, <1>4, <1>5, <1>6, <1>7, <1>9 DEF Next, Wakeup, EnqueueStep, DispatchStep
<1> QED
  BY <1>8, <1>9

(* The actions that concern no task that runs. *)
bout == <<curr, tier, tier_cpu_mask, mega_mailbox, stamped>>

LEMMA BoutCases ==
  ASSUME [Next]_vars
  PROVE  \/ UNCHANGED bout
         \/ \E c \in Cpus : \/ \E over, starved \in BOOLEAN : Tick(c, over, starved)
                            \/ Block(c) \/ PutPrev(c) \/ Running(c)
<1> USE DEF bout, kernelVars, mapVars, ctxVars, stepVars
<1>1. CASE UNCHANGED vars
  BY <1>1 DEF vars
<1>2. ASSUME NEW c \in Cpus, Wakeup(c) PROVE UNCHANGED bout
  BY <1>2 DEF Wakeup, SelectIdleCpu, SelectPrevCpu, WakePinned
<1>3. ASSUME NEW c \in Cpus, EnqueueStep(c) PROVE UNCHANGED bout
  BY <1>3 DEF EnqueueStep, DirectDispatch, Enqueue, MarkNonempty, PickVictim, KickVictim, EnqueueEnd
<1>4. ASSUME NEW c \in Cpus, DeliverKick(c) \/ SliceExpired(c) \/ Schedule(c) PROVE UNCHANGED bout
  BY <1>4 DEF DeliverKick, SliceExpired, Schedule
<1>5. ASSUME NEW c \in Cpus, DispatchStep(c), ~PutPrev(c), ~Running(c) PROVE UNCHANGED bout
  BY <1>5 DEF DispatchStep, MoveToLocal, MoveFails, CountQueued, ClearNonempty, ScanFlags,
       KeepOrIdle, Requeue
<1> HIDE DEF bout, kernelVars, mapVars, ctxVars, stepVars
<1> QED
  BY <1>1, <1>2, <1>3, <1>4, <1>5 DEF Next

LEMMA MailboxStep ==
  ASSUME TypeInv, Alone, MailboxCurrent, [Next]_vars
  PROVE  MailboxCurrent'
<1> USE NoneAssumption DEF TypeInv, TypeOK, StepOK
<1>1. CASE UNCHANGED bout
  BY <1>1 DEF bout, MailboxCurrent
<1>2. ASSUME NEW c \in Cpus, NEW over \in BOOLEAN, NEW starved \in BOOLEAN, Tick(c, over, starved)
      PROVE  MailboxCurrent'
  BY <1>2 DEF Tick, MailboxCurrent
<1>3. ASSUME NEW c \in Cpus, Block(c) \/ (PutPrev(c) /\ curr[c] # NoTask) PROVE MailboxCurrent'
  <2>1. /\ curr[c] \in Tasks /\ curr' = [curr EXCEPT ![c] = NoTask]
        /\ UNCHANGED mega_mailbox
        /\ \A u \in Tasks \ {curr[c]} : tier'[u] = tier[u]
    BY <1>3 DEF Block, PutPrev, Stopping
  <2>2. \A d \in Cpus \ {c} : curr[d] # curr[c]
    BY <2>1 DEF Alone, CurrAlone
  <2> QED
    BY <2>1, <2>2 DEF MailboxCurrent
<1>4. ASSUME NEW c \in Cpus, PutPrev(c), curr[c] = NoTask PROVE MailboxCurrent'
  BY <1>4 DEF PutPrev, MailboxCurrent
<1>5. ASSUME NEW c \in Cpus, Running(c) PROVE MailboxCurrent'
  <2>1. PICK t \in local[c] :
          /\ curr' = [curr EXCEPT ![c] = t]
          /\ HasCtx(t) => mega_mailbox' = [mega_mailbox EXCEPT ![c] = tier[t]]
          /\ \A d \in Cpus \ {c} : mega_mailbox'[d] = mega_mailbox[d]
    <3>1. PICK t \in local[c] :
            /\ curr' = [curr EXCEPT ![c] = t]
            /\ IF HasCtx(t) THEN Publish(c, t) ELSE UNCHANGED mega_mailbox
      BY <1>5 DEF Running
    <3>2. CASE HasCtx(t)
      BY <3>1, <3>2 DEF Publish
    <3>3. CASE ~HasCtx(t)
      BY <3>1, <3>3
    <3> QED
      BY <3>2, <3>3
  <2>2. t \in Tasks /\ UNCHANGED tier
    BY <1>5, <2>1 DEF Running
  <2>3. HasCtx(t) => mega_mailbox'[c] = tier'[t]
    BY <2>1, <2>2
  <2>4. curr'[c] = t /\ \A d \in Cpus \ {c} : curr'[d] = curr[d]
    BY <2>1
  <2> QED
    BY <2>1, <2>2, <2>3, <2>4 DEF MailboxCurrent, HasCtx
<1> HIDE DEF TypeInv, TypeOK, StepOK
<1> QED
  BY <1>1, <1>2, <1>3, <1>4, <1>5, BoutCases

LEMMA MaskStep ==
  ASSUME TypeInv, Alone, StampOK, MaskExact, ~ZeroStamp, [Next]_vars
  PROVE  StampOK' /\ MaskExact'
<1> USE NoneAssumption DEF TypeInv, TypeOK, StepOK
<1>1. CASE UNCHANGED bout
  BY <1>1 DEF bout, StampOK, MaskExact, RunsTier
<1>2. ASSUME NEW c \in Cpus, NEW over \in BOOLEAN, NEW starved \in BOOLEAN, Tick(c, over, starved)
      PROVE  StampOK' /\ MaskExact'
  <2>1. UNCHANGED <<curr, tier, tier_cpu_mask>>
    BY <1>2 DEF Tick
  <2>2. \A t \in Tasks : stamped[t] => stamped'[t]
    BY <1>2 DEF Tick
  <2> QED
    BY <2>1, <2>2 DEF StampOK, MaskExact, RunsTier
<1>3. ASSUME NEW c \in Cpus, Block(c) \/ (PutPrev(c) /\ curr[c] # NoTask)
      PROVE  StampOK' /\ MaskExact'
  <2> DEFINE t == curr[c]
  <2>1. /\ t \in Tasks /\ curr' = [curr EXCEPT ![c] = NoTask]
        /\ UNCHANGED stamped
        /\ Stopping(c, t)
    BY <1>3 DEF Block, PutPrev
  <2>2. \A d \in Cpus \ {c} : curr[d] # t
    BY <2>1 DEF Alone, CurrAlone
  <2>3. /\ \A u \in Tasks \ {t} : tier'[u] = tier[u]
        /\ \A k \in Tiers : /\ tier_cpu_mask'[k] \ {c} = tier_cpu_mask[k] \ {c}
                            /\ c \notin tier_cpu_mask'[k]
    <3>1. CASE HasCtx(t)
      <4>1. /\ tier_cpu_mask' = [tier_cpu_mask EXCEPT ![tier[t]] = @ \ {c}]
            /\ \E k \in BoutTiers \cup {tier[t]} : tier' = [tier EXCEPT ![t] = k]
        BY <2>1, <3>1 DEF Stopping, StampOK
      <4>2. \A k \in Tiers : c \in tier_cpu_mask[k] <=> tier[t] = k
        BY <2>1, <3>1 DEF MaskExact, RunsTier
      <4> QED
        BY <2>1, <4>1, <4>2
    <3>2. CASE ~HasCtx(t)
      BY <2>1, <3>2 DEF Stopping, MaskExact, RunsTier
    <3> QED
      BY <3>1, <3>2
  <2> HIDE DEF t
  <2>4. StampOK'
    BY <2>1 DEF StampOK
  <2>5. MaskExact'
    BY <2>1, <2>2, <2>3 DEF MaskExact, RunsTier
  <2> QED
    BY <2>4, <2>5
<1>4. ASSUME NEW c \in Cpus, PutPrev(c), curr[c] = NoTask PROVE StampOK' /\ MaskExact'
  BY <1>4 DEF PutPrev, StampOK, MaskExact, RunsTier
<1>5. ASSUME NEW c \in Cpus, Running(c) PROVE StampOK' /\ MaskExact'
  <2>1. PICK t \in local[c] :
          /\ curr' = [curr EXCEPT ![c] = t]
          /\ IF HasCtx(t)
             THEN /\ stamped' = [stamped EXCEPT ![t] = TRUE]
                  /\ tier_cpu_mask' = [tier_cpu_mask EXCEPT ![tier[t]] = @ \cup {c}]
             ELSE UNCHANGED <<stamped, tier_cpu_mask>>
    <3>1. PICK t \in local[c] :
            /\ curr' = [curr EXCEPT ![c] = t]
            /\ IF HasCtx(t)
               THEN /\ \E z \in {FALSE, ZeroStamp} : stamped' = [stamped EXCEPT ![t] = ~z]
                    /\ Publish(c, t)
               ELSE UNCHANGED <<stamped, mega_mailbox, tier_cpu_mask>>
      BY <1>5 DEF Running
    <3>2. \A z \in {FALSE, ZeroStamp} : [stamped EXCEPT ![t] = ~z] = [stamped EXCEPT ![t] = TRUE]
      BY TaskAssumption
    <3> QED
      BY <3>1, <3>2 DEF Publish
  <2>2. t \in Tasks /\ UNCHANGED tier /\ curr[c] = NoTask
    BY <1>5, <2>1 DEF Running
  <2>3. \A k \in Tiers : c \notin tier_cpu_mask[k]
    BY <2>2 DEF MaskExact, RunsTier
  <2>4. StampOK'
    <3>1. CASE HasCtx(t)
      BY <2>1, <2>2, <3>1 DEF StampOK
    <3>2. CASE ~HasCtx(t)
      BY <2>1, <2>2, <3>2 DEF StampOK
    <3> QED BY <3>1, <3>2
  <2>5. MaskExact'
    BY <2>1, <2>2, <2>3 DEF MaskExact, RunsTier
  <2> QED
    BY <2>4, <2>5
<1> HIDE DEF TypeInv, TypeOK, StepOK
<1> QED
  BY <1>1, <1>2, <1>3, <1>4, <1>5, BoutCases
-----------------------------------------------------------------------------
SafeInv == TypeInv /\ Alone /\ Somewhere /\ LockOK /\ CpuOK /\ Drained /\ Attention

LEMMA SafeInit ==
  ASSUME Init
  PROVE  SafeInv /\ IrqWakeOneShot /\ MailboxCurrent /\ StampOK /\ MaskExact
<1> USE NoneAssumption, LlcAssumption, TaskAssumption
<1>1. TypeInv
  BY TypeInit
<1>2. Alone /\ Somewhere
  BY DEF Init, Alone, CurrAlone, HandAlone, LocalAlone, DsqAlone, Somewhere
<1>3. LockOK
  BY DEF Init, LockOK, DispatchSteps
<1>4. CpuOK
  BY DEF Init, CpuOK
<1>5. Drained /\ Attention
  BY DEF Init, Drained, Attention
<1>6. IrqWakeOneShot /\ MailboxCurrent /\ StampOK /\ MaskExact
  BY DEF Init, IrqWakeOneShot, MailboxCurrent, StampOK, MaskExact, RunsTier
<1> QED
  BY <1>1, <1>2, <1>3, <1>4, <1>5, <1>6 DEF SafeInv

LEMMA SafeStep ==
  ASSUME SafeInv, [Next]_vars
  PROVE  SafeInv'
BY TypeStep, AloneStep, SomewhereStep, LockStep, CpuStep, AttentionStep DEF SafeInv

LEMMA SafeInvariance == Spec => []SafeInv
<1>1. Init => SafeInv
  BY SafeInit
<1>2. SafeInv /\ [Next]_vars => SafeInv'
  BY SafeStep
<1> QED
  BY <1>1, <1>2, PTL DEF Spec

(* A CPU stays visible over a step of another one, and over a step of its   *)
(* own that is no part of __schedule(), unless its bit is claimed.         *)
LEMMA StaysVisible ==
  ASSUME TypeInv, IdleCpuVisible, big_cpu_mask = {},
         NEW d \in Cpus, curr[d] = NoTask, ~Switching(d),
         NEW c \in Cpus, pc[c] # "direct",
         \A e \in Cpus \ {c} : pc'[e] = pc[e] /\ hand'[e] = hand[e],
         \A e \in Cpus : pc[e] = "direct" => task_cpu'[hand[e]] = task_cpu[hand[e]],
         d \in idle => d \in idle', d \in resched => d \in resched'
  PROVE  \/ d \in idle' \cup resched'
         \/ \E e \in Cpus : pc'[e] = "direct" /\ task_cpu'[hand'[e]] = d
<1>1. CASE d \in idle \cup resched
  BY <1>1
<1>2. ASSUME NEW e \in Cpus, pc[e] = "direct", task_cpu[hand[e]] = d
      PROVE  pc'[e] = "direct" /\ task_cpu'[hand'[e]] = d
  BY <1>2
<1> QED
  BY <1>1, <1>2 DEF IdleCpuVisible

LEMMA IdleStep ==
  ASSUME TypeInv, Alone, IdleCpuVisible, [Next]_vars
  PROVE  IdleCpuVisible'
<1> DEFINE Seen(d) == \/ d \in idle' \cup resched'
                      \/ \E e \in Cpus : pc'[e] = "direct" /\ task_cpu'[hand'[e]] = d
<1> SUFFICES ASSUME big_cpu_mask = {}, NEW d \in Cpus, curr'[d] = NoTask, ~Switching(d)'
             PROVE  Seen(d)
  BY DEF IdleCpuVisible
<1> HIDE DEF Seen
<1> USE NoneAssumption DEF TypeInv, TypeOK, kernelVars, mapVars, ctxVars, stepVars
<1>1. CASE UNCHANGED vars
  BY <1>1 DEF vars, IdleCpuVisible, Switching, Seen
<1>2. ASSUME NEW c \in Cpus, NEW t \in Tasks, SelectIdleCpu(c, t) PROVE Seen(d)
  <2>1. /\ t \in asleep /\ pc[c] = "user" /\ pc' = [pc EXCEPT ![c] = "direct"]
        /\ hand' = [hand EXCEPT ![c] = t] /\ UNCHANGED <<curr, resched>>
    BY <1>2 DEF SelectIdleCpu, Goto
  <2>2. PICK p \in Cpus : /\ task_cpu' = [task_cpu EXCEPT ![t] = p]
                          /\ idle \ {p} \subseteq idle'
    <3>1. PICK first \in DflPicks(c, t, idle) :
            \E pick \in Steered(c, t, first) : task_cpu' = [task_cpu EXCEPT ![t] = pick[1]] /\ idle' = pick[2]
      BY <1>2 DEF SelectIdleCpu
    <3>2. Steered(c, t, first) = {first}
      BY DEF Steered
    <3>3. first[1] \in Cpus /\ idle \ {first[1]} \subseteq first[2]
      BY TaskAssumption DEF DflPicks
    <3> QED BY <3>1, <3>2, <3>3
  <2>3. curr[d] = NoTask /\ ~Switching(d)
    BY <2>1 DEF Switching, DispatchSteps
  <2>4. CASE d = p
    BY <2>1, <2>2, <2>4 DEF Seen
  <2>5. CASE d # p /\ d \in idle \cup resched
    BY <2>1, <2>2, <2>5 DEF Seen
  <2>6. ASSUME NEW e \in Cpus, pc[e] = "direct", task_cpu[hand[e]] = d PROVE Seen(d)
    <3>1. e # c /\ hand[e] \in Tasks /\ hand[e] # t
      BY <2>1, <2>6 DEF StepOK, Alone, HandAlone
    <3> QED BY <2>1, <2>2, <2>6, <3>1 DEF Seen
  <2> QED BY <2>3, <2>4, <2>5, <2>6 DEF IdleCpuVisible
<1>3. ASSUME NEW c \in Cpus, DirectDispatch(c) PROVE Seen(d)
  <2>1. /\ pc[c] = "direct" /\ pc' = [pc EXCEPT ![c] = "user"]
        /\ hand' = [hand EXCEPT ![c] = NoTask]
        /\ UNCHANGED <<curr, idle, task_cpu>> /\ resched \subseteq resched'
        /\ task_cpu[hand[c]] = d => d \in resched'
    BY <1>3 DEF DirectDispatch, WakeIdleCpu, Goto
  <2>2. curr[d] = NoTask /\ ~Switching(d)
    BY <2>1 DEF Switching, DispatchSteps
  <2>3. ASSUME NEW e \in Cpus, pc[e] = "direct", task_cpu[hand[e]] = d PROVE Seen(d)
    BY <2>1, <2>3 DEF Seen
  <2> QED BY <2>1, <2>2, <2>3 DEF IdleCpuVisible, Seen
<1>4. ASSUME NEW c \in Cpus, pc[c] # "direct",
             \A e \in Cpus \ {c} : pc'[e] = pc[e] /\ hand'[e] = hand[e] /\ curr'[e] = curr[e],
             \A e \in Cpus : pc[e] = "direct" => task_cpu'[hand[e]] = task_cpu[hand[e]],
             idle \ {c} \subseteq idle', resched \ {c} \subseteq resched',
             \/ Switching(c)' \/ curr'[c] # NoTask \/ c \in idle'
             \/ ~Switching(c) /\ curr'[c] = curr[c] /\ idle \subseteq idle' /\ resched \subseteq resched'
      PROVE  Seen(d)
  <2>1. CASE d = c /\ c \in idle'
    BY <2>1 DEF Seen
  <2>2. CASE d # c \/ c \notin idle'
    <3>1. curr[d] = NoTask /\ ~Switching(d)
      BY <1>4, <2>2 DEF Switching
    <3>2. (d \in idle => d \in idle') /\ (d \in resched => d \in resched')
      BY <1>4, <2>2
    <3> QED BY <1>4, <3>1, <3>2, StaysVisible DEF Seen
  <2> QED BY <2>1, <2>2
<1>5. ASSUME NEW c \in Cpus,
             \/ \E t \in Tasks : WakePinned(c, t) \/ \E irq \in BOOLEAN : SelectPrevCpu(c, t, irq)
             \/ Enqueue(c)
      PROVE  Seen(d)
  BY <1>4, <1>5 DEF WakePinned, SelectPrevCpu, Enqueue, Goto, Switching, DispatchSteps
<1>6. ASSUME NEW c \in Cpus, MarkNonempty(c) PROVE Seen(d)
  BY <1>4, <1>6 DEF MarkNonempty, MarkSteps, Goto, Switching, DispatchSteps
<1>7. ASSUME NEW c \in Cpus, PickVictim(c) \/ KickVictim(c) \/ EnqueueEnd(c) PROVE Seen(d)
  BY <1>4, <1>7 DEF PickVictim, KickVictim, EnqueueEnd, WakeIdleCpu, Goto, Switching, DispatchSteps
<1>8. ASSUME NEW c \in Cpus,
             \/ DeliverKick(c) \/ SliceExpired(c)
             \/ \E over, starved \in BOOLEAN : Tick(c, over, starved)
      PROVE  Seen(d)
  <2>1. UNCHANGED <<curr, idle, task_cpu, pc, hand>> /\ resched \subseteq resched'
    BY <1>8 DEF DeliverKick, SliceExpired, Tick
  <2> QED BY <2>1 DEF IdleCpuVisible, Switching, Seen
<1>9. ASSUME NEW c \in Cpus, Block(c) \/ Schedule(c) PROVE Seen(d)
  <2>1. /\ pc[c] = "user" /\ Switching(c)'
        /\ \A e \in Cpus \ {c} : pc'[e] = pc[e] /\ hand'[e] = hand[e] /\ curr'[e] = curr[e]
    BY <1>9 DEF Block, Schedule, BeginDispatch, Goto, Switching, DispatchSteps
  <2>2. /\ idle \ {c} \subseteq idle' /\ resched \ {c} \subseteq resched'
        /\ task_cpu' = task_cpu
    BY <1>9 DEF Block, Schedule
  <2> QED BY <1>4, <2>1, <2>2
<1>10. ASSUME NEW c \in Cpus, MoveToLocal(c) PROVE Seen(d)
  <2>1. PICK t \in Tasks : t \in dsq[target[c]] /\ task_cpu' = [task_cpu EXCEPT ![t] = c]
    BY <1>10 DEF MoveToLocal, Eligible
  <2>2. \A e \in Cpus : pc[e] = "direct" => task_cpu'[hand[e]] = task_cpu[hand[e]]
    BY <2>1 DEF StepOK, Alone, HandAlone
  <2> QED BY <1>4, <1>10, <2>2 DEF MoveToLocal, EndDispatch, Goto, Switching
<1>11. ASSUME NEW c \in Cpus, MoveFails(c) \/ CountQueued(c) \/ ClearNonempty(c) \/ ScanFlags(c) PROVE Seen(d)
  BY <1>4, <1>11 DEF MoveFails, CountQueued, ClearNonempty, ScanFlags, AfterFailure,
     StealFrom, EndDispatch, Goto, Switching, DispatchSteps
<1>12. ASSUME NEW c \in Cpus, KeepOrIdle(c) PROVE Seen(d)
  BY <1>4, <1>12 DEF KeepOrIdle, Goto
<1>13. ASSUME NEW c \in Cpus, PutPrev(c) \/ Requeue(c) PROVE Seen(d)
  BY <1>4, <1>13 DEF PutPrev, Requeue, Goto, Switching
<1>14. ASSUME NEW c \in Cpus, Running(c) PROVE Seen(d)
  BY <1>4, <1>14 DEF Running, Goto
<1> QED
  BY <1>1, <1>2, <1>3, <1>5, <1>6, <1>7, <1>8, <1>9, <1>10, <1>11, <1>12, <1>13, <1>14,
     NextCases DEF Quiet, vars

LEMMA AloneOnePlace ==
  ASSUME TypeInv, Alone, Somewhere
  PROVE  OnePlace
<1> SUFFICES ASSUME NEW t \in Tasks PROVE Cardinality(Places(t)) = 1
  BY DEF OnePlace
<1> USE NoneAssumption DEF TypeInv, TypeOK
<1> DEFINE Is(p) ==
      \/ \E c \in Cpus : p = <<"curr", c>> /\ curr[c] = t
      \/ \E c \in Cpus : p = <<"hand", c>> /\ hand[c] = t
      \/ \E c \in Cpus : p = <<"local", c>> /\ t \in local[c]
      \/ \E l \in Llcs : p = <<"dsq", l>> /\ t \in dsq[l]
      \/ p = <<"asleep", 0>> /\ t \in asleep
<1>1. \A p : p \in Places(t) <=> Is(p)
  BY DEF Places
<1>2. \E p : Is(p)
  BY DEF Somewhere
<1>3. ASSUME NEW p, NEW q, Is(p), Is(q) PROVE p = q
  <2>1. CASE t \in asleep
    BY <1>3, <2>1 DEF Alone, CurrAlone, HandAlone, LocalAlone, DsqAlone
  <2>2. CASE \E l \in Llcs : t \in dsq[l]
    <3>1. PICK l \in Llcs : t \in dsq[l]
      BY <2>2
    <3>2. t \notin asleep /\ \A k \in Llcs : t \in dsq[k] => k = l
      BY <3>1 DEF Alone, DsqAlone
    <3>3. \A c \in Cpus : curr[c] # t /\ hand[c] # t /\ t \notin local[c]
      BY <3>1 DEF Alone, CurrAlone, HandAlone, LocalAlone
    <3> QED
      BY <1>3, <3>2, <3>3
  <2>3. CASE \E c \in Cpus : t \in local[c]
    <3>1. PICK c \in Cpus : t \in local[c]
      BY <2>3
    <3>2. t \notin asleep /\ \A d \in Cpus : t \in local[d] => d = c
      BY <3>1 DEF Alone, LocalAlone
    <3>3. \A l \in Llcs : t \notin dsq[l]
      BY <3>1 DEF Alone, LocalAlone
    <3>4. \A d \in Cpus : curr[d] # t /\ hand[d] # t
      BY <3>1 DEF Alone, CurrAlone, HandAlone
    <3> QED BY <1>3, <3>2, <3>3, <3>4
  <2>4. CASE \E c \in Cpus : hand[c] = t
    BY <1>3, <2>4 DEF Alone, CurrAlone, HandAlone
  <2>5. CASE \E c \in Cpus : curr[c] = t
    <3>1. PICK c \in Cpus : curr[c] = t
      BY <2>5
    <3>2. t \notin asleep /\ \A d \in Cpus : (curr[d] = t => d = c) /\ hand[d] # t /\ t \notin local[d]
      BY <3>1 DEF Alone, CurrAlone
    <3>3. \A l \in Llcs : t \notin dsq[l]
      BY <3>1 DEF Alone, CurrAlone
    <3> QED BY <1>3, <3>2, <3>3
  <2> QED
    BY <1>3, <2>1, <2>2, <2>3, <2>4, <2>5
<1> HIDE DEF Is
<1>4. PICK p : Is(p)
  BY <1>2
<1>5. Places(t) \subseteq {p} /\ {p} \subseteq Places(t)
  BY <1>1, <1>3, <1>4
<1>6. Places(t) = {p}
  BY <1>5
<1> QED
  BY <1>6, FS_Singleton

(* No task is lost, doubled or put in two queues by the hand-overs of       *)
(* enqueue, dispatch, preemption and blocking, each of them in several      *)
(* steps: at any time it is in one place.                                  *)
THEOREM TaskConservation == Spec => []OnePlace
<1>1. SafeInv => OnePlace
  BY AloneOnePlace DEF SafeInv
<1> QED
  BY <1>1, SafeInvariance, PTL

(* No placement by select_cpu, pull from the own LLC, steal from another or *)
(* requeue brings a task to run on a CPU outside its cpus_ptr.             *)
THEOREM RunsWhereAllowed == Spec => []AffinityRespected
<1>1. SafeInv => AffinityRespected
  BY NoneAssumption DEF SafeInv, TypeInv, TypeOK, CpuOK, AffinityRespected
<1> QED
  BY <1>1, SafeInvariance, PTL

(* A task enqueue has put in an LLC's queue always has its own CPU's       *)
(* attention: ops.dispatch of that CPU cannot find the queue empty and let *)
(* the CPU go idle while an insertion is under way, nor a requeue behind   *)
(* its back be missed.                                                     *)
THEOREM WakeupsNotLost == Spec => []NoLostWakeup
<1>1. SafeInv => NoLostWakeup
  BY DEF SafeInv, TypeInv, TypeOK, CpuOK, Attention, NoLostWakeup
<1> QED
  BY <1>1, SafeInvariance, PTL

(* Without hybrid steering no CPU goes idle out of select_cpu's sight: a   *)
(* claim of its idle bit is followed by a task placed there, which wakes   *)
(* it, and __schedule() sets the bit again when it finds nothing to run.   *)
THEOREM IdleCpusSeen == Spec => []IdleCpuVisible
<1>1. Init => IdleCpuVisible
  BY DEF Init, IdleCpuVisible
<1>2. SafeInv /\ IdleCpuVisible /\ [Next]_vars => IdleCpuVisible'
  BY IdleStep DEF SafeInv
<1> QED
  BY <1>1, <1>2, SafeInvariance, PTL DEF Spec

(* CAKE_FLOW_IRQ_WAKE does not outlive the wakeup select_cpu stamped it     *)
(* for: no later enqueue of the task is boosted to T0 by it.               *)
THEOREM IrqWakeConsumed == Spec => []IrqWakeOneShot
<1>1. Init => IrqWakeOneShot
  BY SafeInit
<1>2. TypeInv /\ IrqWakeOneShot /\ [Next]_vars => IrqWakeOneShot'
  BY IrqWakeStep
<1> QED
  BY <1>1, <1>2, TypeInvariance, PTL DEF Spec

(* A CPU's mailbox holds the tier of the task it runs, whatever            *)
(* reclassification did to that task or another since running published it. *)
THEOREM MailboxNeverStale == Spec => []MailboxCurrent
<1>1. Init => MailboxCurrent
  BY SafeInit
<1>2. SafeInv /\ MailboxCurrent /\ [Next]_vars => MailboxCurrent'
  BY MailboxStep DEF SafeInv
<1> QED
  BY <1>1, <1>2, SafeInvariance, PTL DEF Spec

(* The invariant stated above tier_cpu_mask: as long as no task starts at   *)
(* an instant whose low 32 bits are zero, stopping clears exactly the bit   *)
(* running has set, though the bout moves the task to another tier.        *)
THEOREM MasksExact ==
  ASSUME ~ZeroStamp
  PROVE  Spec => []MaskExact
<1>1. Init => StampOK /\ MaskExact
  BY SafeInit
<1>2. SafeInv /\ (StampOK /\ MaskExact) /\ [Next]_vars => (StampOK /\ MaskExact)'
  BY MaskStep DEF SafeInv
<1> QED
  BY <1>1, <1>2, SafeInvariance, PTL DEF Spec

(* What is left of it at any instant: the masks may hold a CPU too many    *)
(* but never one too few.                                                  *)
MasksCover == \A k \in Tiers, c \in Cpus : RunsTier(c, k) => c \in tier_cpu_mask[k]

LEMMA CoverStep ==
  ASSUME TypeInv, Alone, MasksCover, [Next]_vars
  PROVE  MasksCover'
<1> USE NoneAssumption DEF TypeInv, TypeOK, StepOK
<1>1. CASE UNCHANGED bout
  BY <1>1 DEF bout, MasksCover, RunsTier
<1>2. ASSUME NEW c \in Cpus, NEW over \in BOOLEAN, NEW starved \in BOOLEAN, Tick(c, over, starved)
      PROVE  MasksCover'
  BY <1>2 DEF Tick, MasksCover, RunsTier
<1>3. ASSUME NEW c \in Cpus, Block(c) \/ (PutPrev(c) /\ curr[c] # NoTask)
      PROVE  MasksCover'
  <2> DEFINE t == curr[c]
  <2>1. t \in Tasks /\ curr' = [curr EXCEPT ![c] = NoTask] /\ Stopping(c, t)
    BY <1>3 DEF Block, PutPrev
  <2>2. \A d \in Cpus \ {c} : curr[d] # t
    BY <2>1 DEF Alone, CurrAlone
  <2>3. /\ \A u \in Tasks \ {t} : tier'[u] = tier[u]
        /\ \A k \in Tiers : tier_cpu_mask[k] \ {c} \subseteq tier_cpu_mask'[k]
    <3>1. CASE HasCtx(t) /\ stamped[t]
      BY <2>1, <3>1 DEF Stopping
    <3>2. CASE ~(HasCtx(t) /\ stamped[t])
      BY <2>1, <3>2 DEF Stopping
    <3> QED BY <3>1, <3>2
  <2> HIDE DEF t
  <2>4. ASSUME NEW k \in Tiers, NEW d \in Cpus, RunsTier(d, k)' PROVE d \in tier_cpu_mask'[k]
    <3>1. d # c /\ curr'[d] = curr[d]
      BY <2>1, <2>4 DEF RunsTier
    <3>2. curr[d] \in Tasks \ {t} /\ RunsTier(d, k)
      BY <2>2, <2>3, <2>4, <3>1 DEF RunsTier, HasCtx
    <3> QED BY <2>3, <3>1, <3>2 DEF MasksCover
  <2> QED BY <2>4 DEF MasksCover
<1>4. ASSUME NEW c \in Cpus, PutPrev(c), curr[c] = NoTask PROVE MasksCover'
  BY <1>4 DEF PutPrev, MasksCover, RunsTier
<1>5. ASSUME NEW c \in Cpus, Running(c) PROVE MasksCover'
  <2>1. PICK t \in local[c] :
          /\ curr' = [curr EXCEPT ![c] = t]
          /\ IF HasCtx(t) THEN tier_cpu_mask' = [tier_cpu_mask EXCEPT ![tier[t]] = @ \cup {c}]
             ELSE UNCHANGED tier_cpu_mask
    BY <1>5 DEF Running, Publish
  <2>2. t \in Tasks /\ UNCHANGED tier
    BY <1>5, <2>1 DEF Running
  <2>3. /\ \A k \in Tiers : tier_cpu_mask[k] \subseteq tier_cpu_mask'[k]
        /\ HasCtx(t) => c \in tier_cpu_mask'[tier[t]]
    <3>1. CASE HasCtx(t)
      <4>1. tier_cpu_mask' = [tier_cpu_mask EXCEPT ![tier[t]] = @ \cup {c}] /\ tier[t] \in Tiers
        BY <2>1, <2>2, <3>1
      <4> QED BY <4>1
    <3>2. CASE ~HasCtx(t)
      BY <2>1, <3>2
    <3> QED BY <3>1, <3>2
  <2>4. curr'[c] = t /\ \A d \in Cpus \ {c} : curr'[d] = curr[d]
    BY <2>1
  <2>5. ASSUME NEW k \in Tiers, NEW d \in Cpus, RunsTier(d, k)' PROVE d \in tier_cpu_mask'[k]
    <3>1. curr'[d] # NoTask /\ HasCtx(curr'[d]) /\ tier[curr'[d]] = k
      BY <2>2, <2>5 DEF RunsTier, HasCtx
    <3>2. CASE d = c
      BY <2>3, <2>4, <3>1, <3>2
    <3>3. CASE d # c
      <4>1. RunsTier(d, k)
        BY <2>4, <3>1, <3>3 DEF RunsTier
      <4> QED BY <2>3, <4>1 DEF MasksCover
    <3> QED BY <3>2, <3>3
  <2> QED BY <2>5 DEF MasksCover
<1> HIDE DEF TypeInv, TypeOK, StepOK
<1> QED BY <1>1, <1>2, <1>3, <1>4, <1>5, BoutCases

(* Zero stamps included, every CPU is in the mask of the tier it runs, so  *)
(* that the O(1) kick of a T0 or T1 wakeup overlooks no CPU of its LLC     *)
(* that runs a T3 or T2 task when it reads the masks.                      *)
THEOREM VictimsVisible == Spec => []MasksCover
<1>1. Init => MasksCover
  <2> SUFFICES ASSUME Init PROVE MasksCover
    OBVIOUS
  <2>1. \A c \in Cpus : curr[c] = NoTask
    BY DEF Init
  <2> QED BY <2>1 DEF MasksCover, RunsTier
<1>2. SafeInv /\ MasksCover /\ [Next]_vars => MasksCover'
  BY CoverStep DEF SafeInv
<1> QED
  BY <1>1, <1>2, SafeInvariance, PTL DEF Spec
=============================================================================
