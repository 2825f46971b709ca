------------------------------ MODULE SchedProofs ------------------------------
(***************************************************************************)
(* The scheduler's callbacks implement Sched, for any CPUs, tasks, LLCs    *)
(* and affinities: initial states map to initial states, and a step to a   *)
(* step of one task or to a stutter.  The argument needs the layers of     *)
(* ImperatorSafety: a task is in one place, and assigned where it runs.    *)
(***************************************************************************)
EXTENDS ImperatorSafety

HandSteps == {"direct", "enqueue", "requeue"}

SameStatus(t) == (Runs(t)' <=> Runs(t)) /\ (Waits(t)' <=> Waits(t))

(* A step that changes the status of one task, and one that changes none. *)
LEMMA StatusOfOne ==
  ASSUME NEW t \in Tasks, NEW s, StatusOf(t)' = s, \A u \in Tasks \ {t} : SameStatus(u)
  PROVE  [u \in Tasks |-> StatusOf(u)]' = [[u \in Tasks |-> StatusOf(u)] EXCEPT ![t] = s]
<1>1. \A u \in Tasks \ {t} : StatusOf(u)' = StatusOf(u)
  BY DEF SameStatus, StatusOf
<1> HIDE DEF StatusOf
<1> QED BY <1>1

LEMMA StatusOfAll ==
  ASSUME \A u \in Tasks : SameStatus(u)
  PROVE  [u \in Tasks |-> StatusOf(u)]' = [u \in Tasks |-> StatusOf(u)]
<1>1. \A u \in Tasks : StatusOf(u)' = StatusOf(u)
  BY DEF SameStatus, StatusOf
<1> HIDE DEF StatusOf
<1> QED BY <1>1

(* What has to be shown of a step, for each action of Sched. *)
LEMMA MapWake ==
  ASSUME NEW t \in Tasks, ~Runs(t), ~Waits(t), ~Runs(t)', Waits(t)',
         \A u \in Tasks \ {t} : SameStatus(u),
         \E d \in Allowed[t] : task_cpu' = [task_cpu EXCEPT ![t] = d]
  PROVE  Promise!SchedNext
<1>1. StatusOf(t) = "asleep" /\ StatusOf(t)' = "waiting"
  BY DEF StatusOf
<1>2. [u \in Tasks |-> StatusOf(u)]' = [[u \in Tasks |-> StatusOf(u)] EXCEPT ![t] = "waiting"]
  BY <1>1, StatusOfOne
<1>3. Promise!Wake(t)
  BY <1>1, <1>2 DEF Promise!Wake, Promise!Becomes, Promise!Assign
<1> QED BY <1>3 DEF Promise!SchedNext

LEMMA MapMove ==
  ASSUME NEW t \in Tasks, ~Runs(t), Waits(t),
         \A u \in Tasks : SameStatus(u),
         \E d \in Allowed[t] : task_cpu' = [task_cpu EXCEPT ![t] = d]
  PROVE  Promise!SchedNext
<1>1. StatusOf(t) = "waiting"
  BY DEF StatusOf
<1>2. [u \in Tasks |-> StatusOf(u)]' = [u \in Tasks |-> StatusOf(u)]
  BY StatusOfAll
<1>3. Promise!Move(t)
  BY <1>1, <1>2 DEF Promise!Move, Promise!Assign
<1> QED BY <1>3 DEF Promise!SchedNext

LEMMA MapStart ==
  ASSUME NEW t \in Tasks, ~Runs(t), Waits(t), Runs(t)',
         \A u \in Tasks \ {t} : SameStatus(u),
         \A u \in Tasks : Runs(u) => task_cpu[u] # task_cpu[t],
         UNCHANGED task_cpu
  PROVE  Promise!SchedNext
<1>1. StatusOf(t) = "waiting" /\ StatusOf(t)' = "running"
  BY DEF StatusOf
<1>2. [u \in Tasks |-> StatusOf(u)]' = [[u \in Tasks |-> StatusOf(u)] EXCEPT ![t] = "running"]
  BY <1>1, StatusOfOne
<1>3. \A u \in Tasks : StatusOf(u) = "running" => Runs(u)
  BY DEF StatusOf
<1>4. Promise!Start(t)
  BY <1>1, <1>2, <1>3 DEF Promise!Start, Promise!Becomes
<1> QED BY <1>4 DEF Promise!SchedNext

LEMMA MapStop ==
  ASSUME NEW t \in Tasks, Runs(t), ~Runs(t)', Waits(t)',
         \A u \in Tasks \ {t} : SameStatus(u), UNCHANGED task_cpu
  PROVE  Promise!SchedNext
<1>1. StatusOf(t) = "running" /\ StatusOf(t)' = "waiting"
  BY DEF StatusOf
<1>2. [u \in Tasks |-> StatusOf(u)]' = [[u \in Tasks |-> StatusOf(u)] EXCEPT ![t] = "waiting"]
  BY <1>1, StatusOfOne
<1>3. Promise!Stop(t)
  BY <1>1, <1>2 DEF Promise!Stop, Promise!Becomes
<1> QED BY <1>3 DEF Promise!SchedNext

LEMMA MapSleep ==
  ASSUME NEW t \in Tasks, Runs(t), ~Runs(t)', ~Waits(t)',
         \A u \in Tasks \ {t} : SameStatus(u), UNCHANGED task_cpu
  PROVE  Promise!SchedNext
<1>1. StatusOf(t) = "running" /\ StatusOf(t)' = "asleep"
  BY DEF StatusOf
<1>2. [u \in Tasks |-> StatusOf(u)]' = [[u \in Tasks |-> StatusOf(u)] EXCEPT ![t] = "asleep"]
  BY <1>1, StatusOfOne
<1>3. Promise!Sleep(t)
  BY <1>1, <1>2 DEF Promise!Sleep, Promise!Becomes
<1> QED BY <1>3 DEF Promise!SchedNext

LEMMA MapStutter ==
  ASSUME \A u \in Tasks : SameStatus(u), UNCHANGED task_cpu
  PROVE  UNCHANGED Promise!schedVars
<1>1. [u \in Tasks |-> StatusOf(u)]' = [u \in Tasks |-> StatusOf(u)]
  BY StatusOfAll
<1> QED BY <1>1 DEF Promise!schedVars
-----------------------------------------------------------------------------
(* Where no CPU has a task in hand between two queues. *)
HandSame == \A c \in Cpus, u \in Tasks :
  (hand[c] = u /\ pc[c] \in HandSteps)' <=> (hand[c] = u /\ pc[c] \in HandSteps)

LEMMA NothingMoves ==
  ASSUME UNCHANGED <<curr, local, dsq>>, HandSame
  PROVE  \A u \in Tasks : SameStatus(u)
BY DEF HandSame, SameStatus, Runs, Waits, HandSteps

LEMMA QuietHands ==
  ASSUME TypeInv, NEW c \in Cpus, Quiet(c)
  PROVE  HandSame /\ UNCHANGED <<curr, local, dsq, task_cpu>>
<1> USE DEF kernelVars, mapVars, ctxVars, stepVars
<1>1. UNCHANGED <<placeVars, task_cpu>>
  BY QuietMovesNothing DEF Quiet, MarkNonempty, PickVictim, KickVictim, EnqueueEnd,
     DeliverKick, Tick, SliceExpired, Schedule, MoveFails, CountQueued, ClearNonempty, ScanFlags
<1>2. \A d \in Cpus : pc'[d] = pc[d] \/ (pc[d] \notin HandSteps /\ pc'[d] \notin HandSteps)
  <2>1. CASE MarkNonempty(c)
    BY <2>1 DEF MarkNonempty, MarkSteps, Goto, HandSteps, TypeInv, TypeOK
  <2>2. CASE PickVictim(c) \/ KickVictim(c) \/ EnqueueEnd(c) \/ MoveFails(c) \/ Schedule(c)
    BY <2>2 DEF PickVictim, KickVictim, EnqueueEnd, MoveFails, Schedule, BeginDispatch,
       Goto, HandSteps, TypeInv, TypeOK
  <2>3. CASE DeliverKick(c) \/ SliceExpired(c) \/ \E over, starved \in BOOLEAN : Tick(c, over, starved)
    BY <2>3 DEF DeliverKick, SliceExpired, Tick
  <2>4. CASE CountQueued(c) \/ ClearNonempty(c) \/ ScanFlags(c)
    BY <2>4 DEF CountQueued, ClearNonempty, ScanFlags, AfterFailure, StealFrom, EndDispatch,
       Goto, HandSteps, TypeInv, TypeOK
  <2> QED BY <2>1, <2>2, <2>3, <2>4 DEF Quiet
<1> QED
  BY <1>1, <1>2 DEF HandSame, placeVars

(* A step of the callbacks is a step of one task or none. *)
LEMMA ImplementsStep ==
  ASSUME TypeInv, Alone, LockOK, CpuOK, [Next]_vars
  PROVE  [Promise!SchedNext]_(Promise!schedVars)
<1> DEFINE Mapped == Promise!SchedNext \/ UNCHANGED Promise!schedVars
<1> SUFFICES Mapped
  OBVIOUS
<1> USE NoneAssumption
<1>1. CASE UNCHANGED vars
  BY <1>1, NothingMoves, MapStutter
     DEF vars, kernelVars, mapVars, stepVars, HandSame
<1>2. ASSUME NEW c \in Cpus, Quiet(c) PROVE Mapped
  BY <1>2, QuietHands, NothingMoves, MapStutter
<1>3. ASSUME NEW c \in Cpus, NEW t \in Tasks, t \in asleep, hand[c] = NoTask,
             hand' = [hand EXCEPT ![c] = t],
             \E s \in {"direct", "enqueue"} : pc' = [pc EXCEPT ![c] = s],
             UNCHANGED <<curr, local, dsq>>,
             \E d \in Allowed[t] : task_cpu' = [task_cpu EXCEPT ![t] = d]
      PROVE  Mapped
  <2>1. ~Runs(t) /\ ~Waits(t)
    BY <1>3 DEF Runs, Waits, Alone, CurrAlone, HandAlone, LocalAlone, DsqAlone
  <2>2. ~Runs(t)' /\ Waits(t)'
    BY <1>3, <2>1 DEF Runs, Waits, TypeInv, TypeOK
  <2>3. \A u \in Tasks \ {t} : SameStatus(u)
    BY <1>3 DEF SameStatus, Runs, Waits, TypeInv, TypeOK
  <2> QED BY <1>3, <2>1, <2>2, <2>3, MapWake
<1>4. ASSUME NEW c \in Cpus, NEW t \in Tasks, SelectIdleCpu(c, t) PROVE Mapped
  <2>1. \E d \in Allowed[t] : task_cpu' = [task_cpu EXCEPT ![t] = d]
    BY <1>4, SelectIdlePicks DEF TypeInv
  <2> QED
    BY <1>3, <1>4, <2>1 DEF SelectIdleCpu, Goto, mapVars, TypeInv, StepOK
<1>5. ASSUME NEW c \in Cpus, NEW t \in Tasks,
             WakePinned(c, t) \/ \E irq \in BOOLEAN : SelectPrevCpu(c, t, irq) PROVE Mapped
  <2>1. \E d \in Allowed[t] : task_cpu' = [task_cpu EXCEPT ![t] = d]
    BY <1>5 DEF WakePinned, SelectPrevCpu, CpuOK, TypeInv, TypeOK
  <2>2. /\ t \in asleep /\ pc[c] = "user"
        /\ hand' = [hand EXCEPT ![c] = t]
        /\ pc' = [pc EXCEPT ![c] = "enqueue"]
        /\ UNCHANGED <<curr, local, dsq>>
    BY <1>5 DEF WakePinned, SelectPrevCpu, Goto, mapVars
  <2> QED
    BY <1>3, <2>1, <2>2 DEF TypeInv, StepOK
<1>6. ASSUME NEW c \in Cpus, DirectDispatch(c) \/ Enqueue(c) \/ Requeue(c) PROVE Mapped
  <2>1. PICK t \in Tasks : hand[c] = t /\ pc[c] \in HandSteps
    BY <1>6 DEF DirectDispatch, Enqueue, Requeue, HandSteps, TypeInv, StepOK
  <2>2. UNCHANGED <<curr, task_cpu>> /\ hand' = [hand EXCEPT ![c] = NoTask]
    BY <1>6 DEF DirectDispatch, Enqueue, Requeue, kernelVars
  <2>3. \E s \in {"user", "mark", "mark_kick", "remark"} : pc' = [pc EXCEPT ![c] = s]
    BY <1>6 DEF DirectDispatch, Enqueue, Requeue, Goto
  <2>4. \/ /\ \E d \in Cpus : local' = [local EXCEPT ![d] = @ \cup {t}]
           /\ UNCHANGED dsq
        \/ /\ \E l \in Llcs : dsq' = [dsq EXCEPT ![l] = @ \cup {t}]
           /\ UNCHANGED local
    <3>1. CASE DirectDispatch(c)
      BY <2>1, <3>1 DEF DirectDispatch, mapVars, TypeInv, TypeOK
    <3>2. CASE Enqueue(c) \/ Requeue(c)
      BY <2>1, <3>2, LlcAssumption DEF Enqueue, Requeue, Insert, enq_llc, kernelVars, TypeInv, TypeOK
    <3> QED BY <1>6, <3>1, <3>2
  <2>5. Waits(t) /\ Waits(t)'
    BY <2>1, <2>4 DEF Waits, HandSteps, TypeInv, TypeOK
  <2>6. \A u \in Tasks \ {t} : Waits(u)' <=> Waits(u)
    <3> TAKE u \in Tasks \ {t}
    <3>1. \A d \in Cpus : u \in local'[d] <=> u \in local[d]
      BY <2>4, <2>1 DEF TypeInv, TypeOK
    <3>2. \A l \in Llcs : u \in dsq'[l] <=> u \in dsq[l]
      BY <2>4, <2>1 DEF TypeInv, TypeOK
    <3>3. \A d \in Cpus : (hand'[d] = u /\ pc'[d] \in HandSteps) <=> (hand[d] = u /\ pc[d] \in HandSteps)
      BY <2>1, <2>2, <2>3 DEF HandSteps, TypeInv, TypeOK
    <3> QED BY <3>1, <3>2, <3>3 DEF Waits, HandSteps
  <2>7. \A u \in Tasks : SameStatus(u)
    BY <2>2, <2>5, <2>6 DEF SameStatus, Runs
  <2> QED BY <2>2, <2>7, MapStutter
<1>7. ASSUME NEW c \in Cpus, Block(c) PROVE Mapped
  <2>1. PICK t \in Tasks :
        /\ curr[c] = t /\ pc[c] = "user" /\ hand[c] = NoTask
        /\ curr' = [curr EXCEPT ![c] = NoTask]
        /\ hand' = [hand EXCEPT ![c] = t]
        /\ \E s \in {"move", "pick"} : pc' = [pc EXCEPT ![c] = s]
        /\ UNCHANGED <<local, dsq, task_cpu>>
    BY <1>7 DEF Block, BeginDispatch, Goto, TypeInv, TypeOK, StepOK
  <2>2. Runs(t) /\ ~Runs(t)' /\ ~Waits(t)'
    BY <2>1 DEF Runs, Waits, Alone, CurrAlone, TypeInv, TypeOK
  <2>3. \A u \in Tasks \ {t} : SameStatus(u)
    BY <2>1 DEF SameStatus, Runs, Waits, TypeInv, TypeOK
  <2> QED BY <2>1, <2>2, <2>3, MapSleep
<1>8. ASSUME NEW c \in Cpus, MoveToLocal(c) PROVE Mapped
  <2>1. PICK t \in Tasks :
          /\ t \in dsq[target[c]] /\ c \in Allowed[t] /\ target[c] \in Llcs
          /\ dsq' = [dsq EXCEPT ![target[c]] = @ \ {t}]
          /\ local' = [local EXCEPT ![c] = @ \cup {t}]
          /\ task_cpu' = [task_cpu EXCEPT ![t] = c]
    BY <1>8 DEF MoveToLocal, Eligible, TypeInv, TypeOK
  <2>2. UNCHANGED <<curr, hand>> /\ pc[c] = "move" /\ pc' = [pc EXCEPT ![c] = "pick"]
    BY <1>8 DEF MoveToLocal, EndDispatch, Goto
  <2>3. Waits(t) /\ Waits(t)' /\ ~Runs(t)
    BY <2>1 DEF Runs, Waits, Alone, CurrAlone, TypeInv, TypeOK
  <2>4. \A u \in Tasks \ {t} : Waits(u)' <=> Waits(u)
    BY <2>1, <2>2 DEF Waits, TypeInv, TypeOK
  <2>5. \A u \in Tasks : SameStatus(u)
    BY <2>2, <2>3, <2>4 DEF SameStatus, Runs
  <2> QED BY <2>1, <2>3, <2>5, MapMove
<1>9. ASSUME NEW c \in Cpus, KeepOrIdle(c) PROVE Mapped
  <2>1. /\ pc[c] = "pick" /\ pc' = [pc EXCEPT ![c] = "user"]
        /\ hand' = [hand EXCEPT ![c] = NoTask]
        /\ UNCHANGED <<curr, local, dsq, task_cpu>>
    BY <1>9 DEF KeepOrIdle, Goto, mapVars
  <2>2. \A u \in Tasks : SameStatus(u)
    BY <2>1 DEF SameStatus, Runs, Waits, TypeInv, TypeOK
  <2> QED BY <2>1, <2>2, MapStutter
<1>10. ASSUME NEW c \in Cpus, PutPrev(c) PROVE Mapped
  <2>1. pc[c] = "pick" /\ UNCHANGED <<local, dsq, task_cpu>>
    BY <1>10 DEF PutPrev
  <2>2. CASE curr[c] = NoTask
    <3>1. UNCHANGED <<curr, hand>> /\ pc' = [pc EXCEPT ![c] = "start"]
      BY <1>10, <2>2 DEF PutPrev, Goto
    <3>2. \A u \in Tasks : SameStatus(u)
      BY <2>1, <3>1 DEF SameStatus, Runs, Waits, TypeInv, TypeOK
    <3> QED BY <2>1, <3>2, MapStutter
  <2>3. CASE curr[c] # NoTask
    <3>1. PICK t \in Tasks :
          /\ curr[c] = t /\ hand[c] = NoTask
          /\ hand' = [hand EXCEPT ![c] = t]
          /\ curr' = [curr EXCEPT ![c] = NoTask]
          /\ pc' = [pc EXCEPT ![c] = "requeue"]
      BY <1>10, <2>1, <2>3 DEF PutPrev, Goto, TypeInv, TypeOK, StepOK
    <3>2. Runs(t) /\ ~Runs(t)' /\ Waits(t)'
      BY <2>1, <3>1 DEF Runs, Waits, Alone, CurrAlone, TypeInv, TypeOK
    <3>3. \A u \in Tasks \ {t} : SameStatus(u)
      BY <2>1, <3>1 DEF SameStatus, Runs, Waits, TypeInv, TypeOK
    <3> QED BY <2>1, <3>1, <3>2, <3>3, MapStop
  <2> QED BY <2>2, <2>3
<1>11. ASSUME NEW c \in Cpus, Running(c) PROVE Mapped
  <2>1. PICK t \in local[c] : local' = [local EXCEPT ![c] = @ \ {t}] /\ curr' = [curr EXCEPT ![c] = t]
    BY <1>11 DEF Running
  <2>2. /\ pc[c] = "start" /\ curr[c] = NoTask /\ t \in Tasks
        /\ pc' = [pc EXCEPT ![c] = "user"]
        /\ hand' = [hand EXCEPT ![c] = NoTask]
        /\ UNCHANGED <<dsq, task_cpu>>
    BY <1>11, <2>1 DEF Running, Goto, TypeInv, TypeOK, StepOK
  <2>3. Waits(t) /\ ~Runs(t) /\ Runs(t)'
    BY <2>1, <2>2 DEF Runs, Waits, Alone, LocalAlone, CurrAlone, TypeInv, TypeOK
  <2>4. ~Waits(t)'
    BY <2>1, <2>2 DEF Waits, Alone, LocalAlone, HandAlone, TypeInv, TypeOK
  <2>5. \A u \in Tasks \ {t} : SameStatus(u)
    BY <2>1, <2>2 DEF SameStatus, Runs, Waits, TypeInv, TypeOK
  <2>6. \A u \in Tasks : Runs(u) => task_cpu[u] # task_cpu[t]
    BY <2>1, <2>2 DEF Runs, CpuOK
  <2> QED BY <2>2, <2>3, <2>5, <2>6, MapStart
<1> QED
  BY <1>1, <1>2, <1>4, <1>5, <1>6, <1>7, <1>8, <1>9, <1>10, <1>11, NextCases DEF vars

(* The scheduler keeps what a scheduler promises of its tasks.  A waiting   *)
(* task is never lost from sight between select_cpu, enqueue, dispatch and *)
(* running, is only assigned to CPUs of its cpus_ptr, and starts on a CPU  *)
(* only when the task before has been stopped there.                       *)
THEOREM SchedulesTasks == Spec => ImplementsSched
<1>1. Init => Promise!SchedInit
  <2> SUFFICES ASSUME Init PROVE Promise!SchedInit
    OBVIOUS
  <2>1. \A t \in Tasks : StatusOf(t) = "asleep"
    BY NoneAssumption DEF Init, StatusOf, Runs, Waits
  <2>2. task_cpu \in [Tasks -> Cpus] /\ \A t \in Tasks : task_cpu[t] \in Allowed[t]
    BY DEF Init
  <2> QED BY <2>1, <2>2 DEF Promise!SchedInit
<1>2. SafeInv /\ [Next]_vars => [Promise!SchedNext]_(Promise!schedVars)
  BY ImplementsStep DEF SafeInv
<1> QED
  BY <1>1, <1>2, SafeInvariance, PTL DEF Spec, ImplementsSched, Promise!SchedSpec
=============================================================================
