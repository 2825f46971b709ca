--------------------------------- MODULE Tick ---------------------------------
(***************************************************************************)
(* imperator_tick on one CPU: the slice check, the starvation check that   *)
(* an 8-bit counter makes rarer on a quiet CPU, the skips a lock holder is *)
(* granted and the frequency request.  Of the running task's futex calls   *)
(* it sees the flag (HolderFlag, which lock.bpf.c implements).             *)
(*                                                                         *)
(* Time is counted in ticks of the running task's bout.  The mailbox flags *)
(* the tick also writes are in Imperator.                                  *)
(***************************************************************************)
EXTENDS HolderFlag

CONSTANTS
  FutexUsers,   \* the tasks that make futex calls
  next_slice,   \* the slice, in ticks
  threshold,    \* the starvation budget, in ticks; --starvation can make it the shorter
  Wrap,         \* now - last_run_at is 32 bits wide: 4295 ticks of 1 ms
  Perf,         \* tier_perf_target scaled by scx_bpf_cpuperf_cap, out of 1024
  MaxOverdue,   \* bound: where the history counters stop
  NoTask

ASSUME TickAssumption ==
  /\ NoTask \notin Tasks
  /\ FutexUsers \subseteq Tasks
  /\ next_slice \in Nat /\ threshold \in Nat /\ MaxOverdue \in Nat
  /\ Wrap \in Nat \ {0}
  /\ Perf \in 0 .. 1024

VARIABLES
  curr,           \* the running task, or NoTask
  waiting,        \* the tasks queued on this CPU's runqueue
  resched,        \* a kick is about to reschedule the CPU
  runtime,        \* the ticks since last_run_at, as 32 bits show them
  tick_counter,   \* mega_mailbox[cpu].tick_counter
  dsq_hint,       \* mega_mailbox[cpu].dsq_hint
  cpuperf,        \* the last scx_bpf_cpuperf_set, NeverSet before the first
  overdue,        \* history: ticks in a row that found the task past its budget
                  \* (as runtime shows it) with another one waiting
  spared          \* history: the skips granted during those ticks, of all locks

cpuVars  == <<curr, waiting, resched, runtime, tick_counter, dsq_hint, cpuperf>>
waitVars == <<overdue, spared>>
vars     == <<flagVars, cpuVars, waitVars>>

NeverSet        == 1025
SCX_CPUPERF_ONE == 1024

TypeOK ==
  /\ FlagTypeOK
  /\ curr \in Tasks \cup {NoTask}
  /\ waiting \in SUBSET Tasks
  /\ resched \in BOOLEAN
  /\ runtime \in 0 .. Wrap - 1
  /\ tick_counter \in 0 .. 255
  /\ dsq_hint \in 0 .. 129
  /\ cpuperf \in 0 .. NeverSet
  /\ overdue \in 0 .. MaxOverdue
  /\ spared \in 0 .. MaxOverdue

Init ==
  /\ FlagInit
  /\ curr = NoTask
  /\ waiting = {}
  /\ resched = FALSE
  /\ runtime = 0
  /\ tick_counter = 0
  /\ dsq_hint = 0
  /\ cpuperf = NeverSet
  /\ overdue = 0
  /\ spared = 0

(* Nobody is kept waiting any more. *)
WaitEnds == overdue' = 0 /\ spared' = 0
-----------------------------------------------------------------------------
(* The CPU's tasks.  A task that is neither running nor queued here sleeps *)
(* or is with another CPU.                                                 *)

Wake(t) ==
  /\ t \notin waiting \cup {curr}
  /\ waiting' = waiting \cup {t}
  /\ UNCHANGED <<flagVars, curr, resched, runtime, tick_counter, dsq_hint, cpuperf, waitVars>>

(* Another CPU of the LLC, or a stealing one, takes a queued task. *)
Pulled(t) ==
  /\ t \in waiting
  /\ waiting' = waiting \ {t}
  /\ IF waiting' = {} THEN WaitEnds ELSE UNCHANGED waitVars
  /\ UNCHANGED <<flagVars, curr, resched, runtime, tick_counter, dsq_hint, cpuperf>>

(* The running task sleeps, in a futex wait or on its own. *)
Block ==
  /\ curr # NoTask
  /\ curr' = NoTask
  /\ resched' = FALSE
  /\ WaitEnds
  /\ UNCHANGED <<flagVars, waiting, runtime, tick_counter, dsq_hint, cpuperf>>

(* A queued task gets the CPU: imperator_running stamps last_run_at. *)
Switch(t) ==
  /\ t \in waiting
  /\ curr' = t
  /\ waiting' = (waiting \ {t}) \cup ({curr} \ {NoTask})
  /\ resched' = FALSE
  /\ runtime' = 0
  /\ WaitEnds
  /\ UNCHANGED <<flagVars, tick_counter, dsq_hint, cpuperf>>

(* The CPU was idle, or the tick kicked it. *)
Dispatch(t) == (curr = NoTask \/ resched) /\ Switch(t)

(* A preemption kick from enqueue, or the kernel's own end of the slice. *)
Preempted(t) == curr # NoTask /\ ~resched /\ Switch(t)

(* With nothing queued the kernel keeps the task and refills its slice:    *)
(* no callback, last_run_at stays.                                         *)
KeepRunning ==
  /\ curr # NoTask /\ resched /\ waiting = {}
  /\ resched' = FALSE
  /\ UNCHANGED <<flagVars, curr, waiting, runtime, tick_counter, dsq_hint, cpuperf, waitVars>>

(* The running task takes or gives up a lock; it runs on, and who waits    *)
(* for it waits on.                                                        *)
Lock ==
  /\ curr \in FutexUsers
  /\ Raise(curr) \/ Lower(curr)
  /\ UNCHANGED <<cpuVars, waitVars>>
-----------------------------------------------------------------------------
(* imperator_tick *)

(* Mutant: one zone too many. *)
PeriodLong(tc) == CASE tc < 8 -> 1 [] tc \in 8 .. 15 -> 2 [] tc \in 16 .. 31 -> 4
                    [] tc \in 32 .. 63 -> 8 [] OTHER -> 16

(* skip_mask: a check every 1, 2, 4 or 8 ticks. *)
Period(tc) == CASE tc < 8 -> 1 [] tc \in 8 .. 15 -> 2 [] tc \in 16 .. 31 -> 4 [] OTHER -> 8

(* !(tc & skip_mask). *)
Due(tc) == tc % Period(tc) = 0

Decayed(tc) == tc - tc \div 4

Grown(tc) == IF tc < 255 THEN tc + 1 ELSE tc

(* Mutant: a shift by two, into 8 bits. *)
EncodeOld(perf) == (perf \div 4) % 256

DSQ_HINT_ENCODE(perf) == (perf \div 8 + 1) % 256

(* scx_bpf_cpuperf_set, unless the hint says that it was done. *)
Request(perf) ==
  IF dsq_hint = 0 \/ dsq_hint # DSQ_HINT_ENCODE(perf)
  THEN cpuperf' = perf /\ dsq_hint' = DSQ_HINT_ENCODE(perf)
  ELSE UNCHANGED <<cpuperf, dsq_hint>>

Advance == runtime' = (runtime + 1) % Wrap

(* nr_running counts the running task and those queued on this runqueue. *)
Contended == waiting # {}
Starving  == runtime' > threshold

(* Mutant: a lock holder may outstay its slice. *)
OverSliceUnlessHolder == runtime' > next_slice /\ ~lock_holder[curr]

OverSlice == runtime' > next_slice

(* The running task of a tick whose bout was stamped; the kick of an       *)
(* earlier tick has rescheduled the CPU before the next one.               *)
Ticking == curr # NoTask /\ ~resched /\ Advance

Capped(n) == IF n < MaxOverdue THEN n ELSE MaxOverdue

(* History: a tick that lets the task run on, with or without a skip. *)
Overdue(skips) ==
  IF Contended /\ Starving
  THEN overdue' = Capped(overdue + 1) /\ spared' = Capped(spared + skips)
  ELSE WaitEnds

KickSelf == resched' = TRUE /\ WaitEnds

(* Phase 1: the slice is used up and a task is queued, for this CPU or for *)
(* another one of the LLC ("others").                                      *)
TickSlice(others) ==
  /\ Ticking /\ OverSlice
  /\ Contended \/ others
  /\ KickSelf
  /\ UNCHANGED <<flagVars, curr, waiting, tick_counter, dsq_hint, cpuperf>>

Phase2(others) == Ticking /\ ~(OverSlice /\ (Contended \/ others))

(* No check this tick, or a check that finds no one waiting. *)
TickQuiet(others) ==
  /\ Phase2(others)
  /\ ~Due(tick_counter) \/ ~Contended
  /\ tick_counter' = Grown(tick_counter)
  /\ Request(SCX_CPUPERF_ONE)
  /\ Overdue(0)
  /\ UNCHANGED <<flagVars, curr, waiting, resched>>

(* A check that finds someone waiting lowers the counter. *)
Check == Due(tick_counter) /\ Contended /\ tick_counter' = Decayed(tick_counter)

TickWithinBudget(others) ==
  /\ Phase2(others) /\ Check
  /\ ~Starving
  /\ Request(SCX_CPUPERF_ONE)
  /\ Overdue(0)
  /\ UNCHANGED <<flagVars, curr, waiting, resched>>

(* A lock holder past its budget is spared, four times. *)
TickSpared(others) ==
  /\ Phase2(others) /\ Check
  /\ Starving
  /\ Spare(curr)
  /\ Request(Perf)
  /\ Overdue(1)
  /\ UNCHANGED <<curr, waiting, resched>>

TickStarved(others) ==
  /\ Phase2(others) /\ Check
  /\ Starving
  /\ Starve(curr)
  /\ KickSelf
  /\ UNCHANGED <<curr, waiting, dsq_hint, cpuperf>>

ImperatorTick(others) ==
  TickSlice(others) \/ TickQuiet(others) \/ TickWithinBudget(others)
    \/ TickSpared(others) \/ TickStarved(others)

Next ==
  \/ \E t \in Tasks : Wake(t) \/ Pulled(t) \/ Dispatch(t) \/ Preempted(t)
  \/ Block \/ KeepRunning \/ Lock
  \/ \E others \in BOOLEAN : ImperatorTick(others)

Spec == Init /\ [][Next]_vars

(* The timer keeps ticking and a CPU that was told to reschedule does. *)
Fairness ==
  /\ WF_vars(\E others \in BOOLEAN : ImperatorTick(others))
  /\ WF_vars(\E t \in Tasks : Dispatch(t))

LiveSpec == Spec /\ Fairness
-----------------------------------------------------------------------------
(* A task past its budget while another waits is kicked by the first check *)
(* that does not spare it, and a check comes at least every 8th tick: each *)
(* skip buys it 8 ticks at most, although a check also lowers the counter, *)
(* and nothing but a skip buys it any: taking locks and giving them up     *)
(* changes neither the wait nor the pace of the checks.  All this only as  *)
(* long as the counter has not reached 255.                                *)
OverdueBounded ==
  tick_counter < 255 /\ curr # NoTask => overdue <= 7 + 8 * spared

(* The slice check is "an unconditional hard ceiling": however often the   *)
(* task takes locks and gives them up, whatever it is spared for them, and *)
(* on a CPU whose counter has saturated, the ticks that a starved task has *)
(* waited are those the slice leaves beyond the budget and no more.        *)
SliceCeiling ==
  overdue <= IF next_slice > threshold THEN next_slice - threshold ELSE 0

(* "counter >= 32: check every 8th tick": a task that was spared nothing    *)
(* is not past its budget for more than 7 ticks.                           *)
CheckedEvery8th == curr # NoTask /\ spared = 0 => overdue <= 7

(* The slice check "remains an unconditional hard ceiling": nobody waits   *)
(* for ever behind a task that takes one lock after the other, even on a   *)
(* CPU where no starvation check runs any more.                            *)
HolderYields ==
  \A t \in Tasks : (curr = t /\ waiting # {}) ~> (curr # t \/ waiting = {})

(* dsq_hint stands for the frequency the CPU was last asked for, and 0 for *)
(* none: a request is never lost because an encoded value looks like one   *)
(* already made.                                                           *)
HintTruthful ==
  IF cpuperf = NeverSet THEN dsq_hint = 0 ELSE dsq_hint = cpuperf \div 8 + 1
=============================================================================
