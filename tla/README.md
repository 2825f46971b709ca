# A TLA+ verification of SCX-IMPERATOR

SCX-IMPERATOR is a CPU scheduler for Linux `sched_ext`: a BPF program
(`src/bpf/imperator.bpf.c`) whose callbacks the kernel calls on every CPU, and a
loader in Rust (`src/main.rs`) that configures it, measures the latency between
cores and shows statistics. This directory holds TLA+ models of its parts, the TLC
runs that check them on small instances and TLAPS proofs of the main safety
properties for every instance. Paths below are relative to the repository; `I` stands
for `src/bpf/imperator.bpf.c`.

## 1. Inventory

### Per-LLC dispatch queue and deadline key (`tier_deadline`, I:316-346)

State: one DSQ per last-level cache (LLC), ordered by a 64-bit key. Operations:
`imperator_enqueue` inserts with the key *now + budget of the tier - advance*;
`scx_bpf_dsq_move_to_local` takes the first task the pulling CPU may run. The advance
(new flow, lock holder) is capped below the gap to the tier above, and the subtraction
saturates at zero. Hard: nothing ages a task explicitly, so that nobody waits for ever
rests on this arithmetic alone. Correct when tasks that arrive together run in tier
order, an advance is worth something where the cap leaves room for it, and what arrives late enough never passes.

### Scheduling callbacks on several CPUs (`select_cpu`, `enqueue`, `dispatch`, `tick`, `running`, `stopping`)

State: the DSQs, `llc_nonempty` (a flag per LLC that stealers read), `tier_cpu_mask`
(per tier, the CPUs that run it), the per-CPU `mega_mailbox`, `llc_etd_cost`, and per
task the tier, flags and stamps of `imperator_task_ctx`. Callbacks of different CPUs
interleave; the kernel holds the runqueue lock of one CPU in each, and every map
access is atomic by itself only. A task moves from place to place in several
steps (waking: placed on an idle CPU or queued, flag set, a victim kicked; dispatch:
pull, count, clear the flag, scan the flags, steal; preemption: stopped, queued
again). Hard: the steps of two CPUs in any order, state read before it is used
(victim, flag, steal mask), wakeups that nobody will look at, flags set in one
callback and consumed in another. Correct when no task is lost or doubled, masks and
mailboxes tell what really runs, a queued task always has a CPU that will look, flags
are one-shot, affinity holds on every path, and a waiting task eventually runs.

### Tier classification (`alloc_task_ctx_cold`, `reclassify_task_cold`, recovery in `enqueue`)

State, per task: tier and stability bits, CAKE_FLOW_NEW, DRR++ deficit, average burst,
burst so far, recheck counter, overrun history, sleep stamp. Operations: seeding by
nice value, accounting of a bout at every stop, a cheap path for stable tasks, the
full pass, and the recovery of the average after a long sleep. Sequential per task.
Hard: long histories in which counter, history, hysteresis and two update paths
disagree; 16-bit fields; truncated averages. Correct when a task ends up in the tier of
its bursts, a stable tier is one its average agrees with, and being preempted promotes
nobody.

### Futex lock-holder tracking (`src/bpf/lock.bpf.c`)

State, per task: CAKE_FLAG_LOCK_HOLDER, `lock_skip_count`, `pending_futex_op`. Two
families of optional probes see the same calls: fexit probes on the kernel's futex
functions and tracepoints on the system calls. Both set the flag when a call returns as an
acquisition and clear flag and count when one returns as a release; `enqueue` advances the
deadline of a holder and `tick` spares it a starvation kick up to four times. Hard:
probes attached in the middle of a call, both families acting on one call, an operation
recorded at one point and used after a sleep, a tick between the two stores of
`clear_lock_holder`. Correct when the flag agrees with the calls seen, and the count
belongs to one acquisition. The loader does not load these probes at present, as the
project's README says; they are modelled as they work once it does.

### The tick's bookkeeping (`imperator_tick`)

State, per CPU: the 8-bit `tick_counter` that makes starvation checks rarer on a quiet
CPU, and `dsq_hint`, the last frequency request in 8 bits. Hard: a counter at its
limit, the skips of a lock holder multiplied by the backoff, an encoded value that looks
like "never set", and a holder that takes one lock after the other. Correct when a starved
task is kicked for within a bound, requests are not lost, and nobody waits for ever.

### Loader, configuration and event loop (`src/main.rs`)

State: profile and overrides, the packed `tier_configs`, the calibration thread and its
result, the written flag of `llc_etd_cost`, the poll set. Operations: packing
budgets and quanta into 64-bit words, choosing which CPU pairs to measure, starting
calibration, waking up through an eventfd or a timeout, writing the costs once, leaving
on a signal or when the BPF side exits. Hard: a wakeup that comes while the result is
locked or not at all, bit widths of the packed words, a signal while a thread without a
blocked mask runs. Correct when budgets rise with the tier, the costs get written, a
written table has no gap, a notification is never wasted, and the loader leaves when the
BPF side has.

### Latency calibration (`src/calibrate.rs`)

State: two threads per pair of CPUs, a barrier, a shared word. They pin themselves,
meet, bounce the word and are joined; a noisy measurement is repeated up to three times,
and what could not be measured gets a fallback. Hard: one of the two failing to pin
itself while the other waits for it, an exchange that one of them misses, and a failure
that leaves a 0 in the matrix, which means "unmeasured" further on. Correct when it ends
whatever fails, and every pair has a latency.

### Parts without scheduling state

Topology detection (`src/topology.rs`) reads sysfs once and gives the number of LLCs
and the LLC of a CPU. The terminal interface (`src/tui.rs`, `src/stats.rs`) reads
counters. `src/bpf/bpf_compat.h` wraps atomic accesses and bit scans. Build and
installation scripts do not concern scheduling.

### Who talks to whom

The kernel calls the callbacks with a runqueue lock held; callbacks on different
CPUs share the maps. A task's futex calls set the flag
that `enqueue` and `tick` read, and `tick` counts in the same context. `stopping` calls
classification, which sets the tier that `enqueue`
turns into a deadline and `running` publishes in the mask and the mailbox; wakeups on
that CPU read the mailbox, and queueing wakeups read the masks. The loader writes
constants before loading and `llc_etd_cost` afterwards, while `dispatch` reads it.

## 2. Modules

| Module | What it is |
|---|---|
| `DeadlineQueue` | one queue, its key, and a running clock |
| `DeadlineQueueProofs` | its four safety properties, for any budgets |
| `Imperator` | all callbacks on several CPUs, with the kernel's side of each |
| `ImperatorProofs` | type correctness of `Imperator` |
| `ImperatorSafety` | its seven safety invariants, and what is left of `MaskExact` with zero stamps |
| `Sched` | abstract: what a scheduler promises of its tasks |
| `SchedProofs` | `Imperator` implements `Sched` |
| `LockHolder` | the probes of `lock.bpf.c` and the tick's skip counter |
| `HolderFlag` | abstract: the flag and its skip count as the tick relies on them |
| `LockHolderProofs` | four invariants of `LockHolder`, and that it implements `HolderFlag` |
| `Tick` | `imperator_tick` on one CPU, built on `HolderFlag` (EXTENDS) |
| `TickProofs` | its four invariants |
| `Classify` | classification of one task through any history |
| `ClassifyProofs` | type correctness, agreement of stable tiers, the end of the new-flow bonus, the pull of bursts on the average |
| `Config` | what the loader computes: packed budgets, slices, CPU pairs, costs; operators without state |
| `Calibration` | the calibration thread and the two threads of each pair |
| `Loader` | the loader's main thread, composed with `Calibration` (EXTENDS) |
| `Handover` | abstract: how the calibration result becomes the cost table |
| `LoaderProofs` | of `Config`: order of the budgets, coverage of the pairs, range of the costs; of `Loader`: types, four safety properties, the bound on calibration, and that it implements `Handover` |
| `MCDeadlineQueue`, `MCImperator`, `MCImperatorOneLlc`, `MCClassify`, `MCLoader`, `MCLockHolder`, `MCTick` | instances for TLC |

### DeadlineQueue

`tier_deadline` is the function of the code, with `CappedAdvance` and `Saturating` as
its two steps; `Enqueue`, `MoveToLocal` and `ClockAdvances` are the actions. Entries
remember their arrival, tier and advance so that the properties can speak of them. The
order of equal keys is left open. `AdvanceHelps` is strict: an advance wins against every
plain task of its tier that came no earlier, unless the gap between two budgets leaves no
room for it (`HasRoom`).

### Imperator

Each CPU has a program counter: `user` between callbacks, and otherwise the next step of
the callback it is in. The correspondence:

| Code | Actions |
|---|---|
| `imperator_select_cpu`, idle CPU found | `SelectIdleCpu`, `DirectDispatch` |
| `imperator_select_cpu`, none; pinned task | `SelectPrevCpu`, `WakePinned` |
| `imperator_enqueue` of a wakeup | `Enqueue`, `MarkNonempty`, `PickVictim`, `KickVictim`, `EnqueueEnd` |
| `imperator_enqueue` of a preempted task | `Requeue`, `MarkNonempty` |
| `imperator_dispatch` | `MoveToLocal`, `MoveFails`, `CountQueued`, `ClearNonempty`, `ScanFlags` |
| `imperator_tick` | `Tick` |
| `imperator_running` | `Running` (with `Publish`) |
| `imperator_stopping` | `Stopping`, part of `PutPrev` and of `Block` |
| kernel | `DeliverKick`, `SliceExpired`, `Schedule`, `Block`, `KeepOrIdle`, `PutPrev` |

A callback is cut wherever it touches state that another CPU may touch in between and
taken as one step where it touches only its own CPU or its own task. The kernel is
modelled as far as the scheduler depends on it: runqueue locks, the idle mask,
need_resched, kicks that arrive later, local DSQs that are used before `ops.dispatch` is
called, remote pulls, a task that can be woken only once it is off its CPU, and
`scx_bpf_select_cpu_dfl` (`DflPicks`), which returns the waker's CPU for a SYNC wakeup
and otherwise claims a CPU from the idle mask.

On a hybrid system `Steered` repeats that call when the pick is an E-core and the task may
use a P-core; the claim of the E-core is not undone, so that CPU is out of the idle mask
while it idles. The project's README documents this (line 441). `IdleCpuVisible` says that
it is the only way a CPU gets lost: without P-cores every idle CPU that nobody is about to
use is in the mask.

Abstractions that allow more behaviour than the code:

- a DSQ is a set and any eligible task may be pulled first (the order is
  `DeadlineQueue`'s subject); so is a local DSQ;
- a bout ends in any tier of `BoutTiers` (the rule is `Classify`'s subject), and
  whether a tick finds a slice overrun or a starved task is a free choice;
- the hint that orders the kernel's search for a P-core is not used: the repeated search
  may find any idle CPU.

And three that allow less: both tier masks are read in one step, and setting the LLC flag
is one step; `ScanFlags` reads the flags of all LLCs at once, so that a flag set between two
reads counts as set before or after both; and `need_resched` on a busy CPU always
means that the slice is over, so that a task whose place is taken goes through `ops.enqueue`
and not straight back to the head of its local DSQ. A task missed by the scan for this or another reason is found by its
home CPU, which is what `NoLostWakeup` is about.

Left out of this module: burst credit (its trigger, SCX_ENQ_PREEMPT, never reaches
`ops.enqueue`), the latency EWMA and statistics. Of the tick it has the two kicks and the
mailbox; the rest is in `Tick`. None of what is left out writes the state modelled here.

**Sched** is what is left of all this for a task: it is asleep, waiting or running,
assigned to a CPU it may use, changes CPU only while it waits, and runs there alone.
`ImplementsSched` maps a task in a DSQ, in a local DSQ or in the hand of a waking,
enqueueing or requeueing CPU to *waiting*, one in `curr` to *running*, and a blocked task
in the hand of the CPU that switches away from it to *asleep*; `task_cpu` is the CPU.

### LockHolder, HolderFlag, Tick

`LockHolder` follows each task through a futex call: `EnterFutex` (`sys_enter_futex`),
`ReturnFutex` (the kernel is done), `Fexit` and `FexitReset` (the fexit probe and its
second store), `SysExit` and `SysExitReset` (the tracepoint). `Check` is the only action of
the tick here and may come between any two. Which families of probes could be attached is
fixed initially, and a task may be inside a call then: that call was not seen entering.
Operations are reduced to the four groups the switch in `sys_exit_futex` tells apart, with
`futex_wait` and `futex_wake` as system calls of their own. `truth` is a history variable:
what the task's calls amount to under the file's own reading of them, a wait that returns 0
acquires and a wake or unlock that succeeds releases. (That a wait may return 0 without
a lock, which the project's README lists as an issue to fix before enabling the probes,
is a matter of what futexes mean and not of the probes.)

`HolderFlag` is the flag and its count with atomic actions: `Raise`, `Lower`, `Spare`,
`Starve`. `LockHolder` implements it (`ImplementsHolderFlag`), where the abstract count is
the concrete one while the flag is up and 0 while it is down, since between the two stores
of `clear_lock_holder` the old count is still there and nobody reads it. `Tick` EXTENDS it
and so checks the tick against what the probes do, without their steps.

`Tick` is one CPU over a running clock of ticks. `ImperatorTick` is split by the code's
branches: `TickSlice` (phase 1), `TickQuiet` (no check due, or nobody waiting),
`TickWithinBudget`, `TickSpared`, `TickStarved`; the rest (`Wake`, `Pulled`, `Block`,
`Dispatch`, `Preempted`, `KeepRunning`) is what the kernel and other CPUs do to the CPU.
`runtime` wraps as the 32-bit difference does. `overdue` and `spared` are history variables:
how many ticks in a row have found the task past its budget, by that `runtime`, with another
one queued, and how many skips it was granted during them. Both begin anew when the wait
ends: the task is kicked, blocks or is switched away from, or nobody is queued any more. Taking
or giving up a lock (`Lock`) changes neither. A sole
occupant's branch is not apart, since every path but the lock holder's falls through to the
label it jumps to.

### Classify

One task, `new`, `asleep` or `awake` (queued or running). `Enable` is
`alloc_task_ctx_cold`; `Stop` is `imperator_stopping` with `reclassify_task_cold`, which
takes either the backoff path (`SpotCheck`) or the full pass (`Reclassify`);
`WakeQueued` holds the post-sleep recovery; `WakeDirect` and `StopUnseen` are the
wakeups and stops that skip the accounting. Times are the code's microseconds.
`init_task` comes before `enable`, finds no context and does nothing. Left out: `next_slice` (a
function of the tier while the burst credit is zero, as it is) and jitter statistics.
Whether a sleep counts as long is a free choice, since the code decides it on a clock
modulo 2^32 ns.

### Config, Calibration, Loader

`Config` keeps the code's arithmetic: profile tables, the proportional override, the shift
to units of 1024 ns and the 20-bit field, the spread of sample indices over the CPUs of
an LLC, and the cost of an LLC pair. A topology is the function from CPU to LLC. TLC's
integers have 32 bits, so `ScaledBudget` orders the divisions so that no product passes
2^31; since nested floors of positive divisors commute, the value is the code's. The
64-bit overflow of `cli_us * 1000` is out of range. The choice of pairs gives the
pairs of the repository's unit tests (3, 2 and 9 of them).

| Code | Actions |
|---|---|
| `calibrate_pairs` | `NextPair`, `PairFailed`, `PairMeasured`, `PairNoisy`, `AllMeasured` |
| `measure_pair`, PING and PONG | `Pin`, `Barrier`, `CheckAbort`, `Exchange` |
| closure of the calibration thread | `LockMatrix`, `StoreMatrix`, `SignalDone` |
| `Scheduler::new` | `StartCalibration`, `Load` |
| `Scheduler::run` | `Attach`, `Splash`, `FirstWrite`, `BlockSignals`, `Wake`, `Timeout` |
| `run_tui` | `TuiTurn`, `TuiQuit` |
| kernel | `SignalArrives`, `BpfExits` |

`Splash` waits for the mutex and `FirstWrite` only tries it, as in the code. A signal
kills the process while some thread does not block it: the calibration thread, and the
threads it starts, were started before `thread_block`. Abstractions: a measurement is a
median, any member of `Latencies`, and a spread that is acceptable or not; the order of the
pairs is not kept; failed compare-and-swaps and turns of the TUI that change nothing are
stuttering; the cost table is written in one step (the BPF side reads it entry by entry
and `Imperator` takes any part of it as known). Left out: errors of `poll` and
`read_signal`, statistics, screens, and the `--quantum` and `--new-flow-bonus` overrides.
CPU numbers have no holes and there are at most 8 LLCs.

`Handover` is what is left of the three threads for whoever reads the cost table: a process
that runs, was told to end, or ended; a result that appears once and whole; an event; and a
table, empty or complete. `ImplementsHandover` maps a measured `latency_matrix` to the
result, `efd` to the event, and `llc_etd_cost` with `etd_written` to the table, where a
table that is neither empty nor complete has no abstract counterpart. `Announce` is
`SignalDone`, `Write` is `FirstWrite` or `Timeout`, and `Take` is `Wake` by the eventfd. It
says more than its parts: the mutex is never held while the event is there, so an event is
always followed by the write; and a signal is caught only when calibration has nothing left
to do, since otherwise it kills the process.

## 3. Runs

| Run | Shows |
|---|---|
| `deadline_queue` | `SameTimeTierOrder`, `AdvanceHelps` (strictly), `BoundedOvertaking` with two tasks of any tier and any advance (218,704 states) |
| `imperator_two_llcs` | `OnePlace`, `MaskExact`, `MailboxCurrent`, `IrqWakeOneShot`, `NoLostWakeup`, `AffinityRespected` with two CPUs in two LLCs and three tasks, one a pinned kthread without context (6,819,535 states) |
| `imperator_progress` | `WaitingTaskRuns`: without SYNC wakeups a waiting, pinned task runs, kicks and kicks that come too late included; `ImplementsSched`: the callbacks implement `Sched`; `IdleCpuVisible` (101,135 states) |
| `classify` | `StableAgrees`, `Settles`, `HogsSink`, `BonusEnds`, `BonusCountsDown` (133,135 states) |
| `loader` | `BudgetsRise` for overrides in range, `CostsComplete`, `TakeTurns`, `NotifiedMeansReady`, and with fairness `CalibrationEnds`, `CostsWritten`, `BpfExitNoticed`; `CalibrationShrinks`: how soon calibration ends; `ImplementsHandover`: the loader implements `Handover` (506,134 states) |
| `lock_holder` | `FlagTruthful`, `FreshBudget`, `PendingWindow`, `ImplementsHolderFlag` with two tasks, any calls and results, and every choice of attached probes (294,956 states) |
| `tick` | `OverdueBounded`, `SliceCeiling`, `HintTruthful`, and with fairness `HolderYields`, over the whole range of the counter and any locks taken within one wait (1,387,728 states) |
| `stale_flag` | **violated**: an enqueue between the count and the clear leaves a non-empty queue flagged empty (README:326) |
| `sync_starvation` | **violated**: two tasks that wake each other with SYNC keep the local DSQ occupied, and `ops.dispatch` is never called for a queued task (README:100, 436) |
| `tick_saturation` | **violated**: after 255 quiet ticks the counter stays at 255, which no mask lets pass, and the starvation check never runs again on that CPU (comment in `imperator_tick`) |
| `override_out_of_range` | **violated**: `BudgetsRise` with `--starvation 1073742`, where T3's budget wraps to 0 (README:217) |
| `tui_costs` | **violated**: with `--verbose` the costs are tried once, before calibration can be over, and never again (README:23, 316) |

The five violated properties are statements of the project's README or comments that the
code does not keep; PROJECT.json quotes each. `NoLostWakeup` holds in spite of
`stale_flag`: the flag only matters to stealers, and the home CPU of a queued task
always looks. `OverdueBounded` (below 255), `SliceCeiling` and `HolderYields` are what holds
where `tick_saturation` fails, and `BudgetsRise` itself, in the run `loader`, where
`override_out_of_range` fails: with no override and with one from 26 us to 1073741 us.

Three more statements do not hold as written. They follow from the definitions at
sight and have no run of their own; what does hold has:

- README:100, "once it has waited the gap between its own budget and the next tier's, newer
  arrivals of that tier sort behind it", and the same in the comment above `tier_deadline`:
  T0's advance has no cap (`CappedAdvance`), so a new flow of T0 passes a T1 task that has
  waited longer than the gap, by up to twice the bonus. `BoundedOvertaking` is the bound with
  that advance in it.
- README:338, "T0 and T1 CPUs are never kicked": the victim is read from the masks without
  a lock, and by the time `DeliverKick` acts it may run anything; in `imperator_progress`
  such kicks reach T1 tasks. What they may do to whoever runs there is bounded by
  `ImplementsSched` (it runs on, or waits once and in one place) and
  `WaitingTaskRuns` (it runs again).
- README:129, "When deficit exhausts, new-flow bonus removed": `SpotCheck` uses the deficit up
  and leaves the flag for up to 1023 stops. `BonusCountsDown`: no longer.

### Bounds

- `deadline_queue`: two entries suffice for properties of pairs; budgets 1, 3, 6, 11 and
  a bonus of 2 have gaps that cap one advance, two advances, and none, as the
  Default profile's do; the clock stops at 15, past the largest budget.
- `imperator_*`: two CPUs make every pair of callbacks overlap, two LLCs make stealing
  possible with one cost known and one not; three tasks allow one to run on each CPU
  with one queued. In `imperator_two_llcs` `t1` and `t2` are interchangeable, which is the
  symmetry used; runs with liveness use none. In `imperator_progress` `t2` and `t3` are
  pinned to CPU 1, and `t1` and `t3` have contexts: either may be running in T3 when the
  other wakes in T1, and is kicked, and `t1` is stolen by CPU 0. `imperator_two_llcs` takes CPU 1 for a P-core, so that the
  safety properties are checked with steering; the others have no P-core. `BoutTiers` holds one tier per side of the kick rule.
- `classify`: gates 10, 22 and 40 stand for 100, 2000 and 8000: the smallest at which
  a shift by 4 and a 10% hysteresis still leave each tier a bout length that settles in
  it (`TierOfBurst`). The history has 3 bits and demotes at 2 for 8 and 4, full passes
  come every 4th or 2nd stop for 1024 to 16, and the 16-bit limit is 64. Bouts of 4, 16
  and 32 belong to T0, T1 and T2, and two of them together to T3.
- `loader`: three CPUs in two LLCs have one pair to sample and three to sweep, in three
  LLCs three pairs; `Trips` = 2 exchanges per side suffice for a missed one to show,
  since after each exchange only the flag and the difference matter. Medians of 0, 2 and
  1200 ns reach the fallback, the floor and the cap. Overrides run from the least that keeps
  four different budgets (26 us) to the greatest that fits the field (1073741 us), with
  every one below those the proof covers, on a machine with one LLC, which also covers
  the start without calibration. `override_out_of_range` takes the first value above, one far
  above, and 25 us.

- `lock_holder`: tasks share nothing but the set of attached probes, so two suffice to show
  that a step of one leaves the other alone; the refinement is of both at once.
- `tick`: a task that uses futexes and one that does not. The slice of 34 ticks and the
  budget of 1 leave room for every case of `OverdueBounded` up to three skips, where its bound
  is below the 33 ticks of `SliceCeiling`: TLC reaches 7 ticks without a skip, and
  all 33 with a skip for every one of them, by a task that gives up its lock and takes one again
  before the four of an acquisition are used up. The two history counters stop at 40, which
  neither reaches. `--quantum` reaches such slices, and `--starvation` a budget
  below the slice; with the profiles' own values budgets exceed slices
  (`BudgetsExceedSlices`) and phase 1 always kicks first, as README:436 says. `Wrap` is 36
  instead of 4295 ticks, past the slice, so that a task that is alone for long comes out
  with a short runtime, as after 4.3 s. `Perf` is 512, an E-core's share.

### Fairness

- `Imperator!LiveSpec`: a callback that has begun ends, its CPU getting the runqueue locks
  it waits for (ticket order); a slice ends and a CPU with need_resched
  reschedules in spite of interrupts; a local DSQ is first in, first out; and a task that
  may be pulled again and again is pulled, which is what `NoStarvation` proves about
  the deadline order: only finitely many arrivals can precede it. Nothing makes a task
  wake, block or take an interrupt.
- `Classify!FairSpec`: a task that is woken again and again gets to finish accounted bouts. A
  bout is not accounted only if it starts in the one nanosecond in 4.3 s whose low
  32 bits are zero.
- `Loader!Spec`: threads are scheduled, and 60 s pass. PING and PONG spin, but run on two
  CPUs or are preempted by the kernel, so each one's turn comes. Signals, keys and an exit
  of the BPF side need not come. `WF` of the main thread's steps as a whole is enough
  because at each place it has one step to take.

- `Tick!LiveSpec`: the timer keeps ticking while a task runs, and a CPU that was told to
  reschedule does. Nothing makes a task wake, block, be pulled or give up a lock.
- `Classify!FairSpec` is used by `BonusEnds` as well: a full pass comes only with a stop. The
  bounds `SliceCeiling`, `BonusCountsDown` and `CalibrationShrinks` need no fairness.

`Settles` assumes besides that no recovery moves the average any more. It is needed: a
task whose bursts belong to T1 can be pulled to T0 by sleeps of more than 500 ms while it
is there, and demoted by its overruns, for ever.

## 4. Proofs

All proofs hold for any number of CPUs, LLCs and tasks, any affinities and costs, any
gates, budgets, widths and bouts, under the named assumptions of each module.

**DeadlineQueueProofs.** Every entry's key is the deadline of its arrival (`Keyed`);
with `DeadlineBounds`, what `tier_deadline` returns, follow `TierOrder` and
`NoStarvation`, and with `AdvanceGains`, that an advance above 0 makes it strictly less,
`AdvanceOrder`.

**ImperatorProofs.** `TypeInv` adds to the types what each program counter says of the
CPU's hand, victim and steal mask; `CheapestMember` shows that a steal never uses
the sentinel `nr_llcs` as an index, whatever costs are known.

**ImperatorSafety.** No property is inductive alone. `SafeInv` is built in layers, each
proved from those below it, one lemma per layer and one step per action:

1. `Alone` and `Somewhere`: a task is in at most one place, stated place by place, and
   in at least one. Their conjunction is `OnePlace`, through a cardinality argument
   (`TaskConservation`).
2. `LockOK`: which lock a CPU holds at each step, and that no lock has two owners.
3. `CpuOK`: `task_cpu` agrees with where a task is, and a task is only placed, queued and
   run where its affinity allows (`RunsWhereAllowed`).
4. `Drained` and `Attention`: a CPU that picks with nothing found has emptied its own
   queue of tasks it may run, so an idle, unnotified, unlocked CPU has no queued task
   (`WakeupsNotLost`).

`IdleCpusSeen` needs one more inductive step over the types and layer 2 (`IdleStep`): a CPU leaves
the mask only when it reschedules or is claimed, and a claimed one has a task on its way.

On top of it, `IrqWakeConsumed`, `MailboxNeverStale` and `MasksExact` need one inductive step each.
`MasksExact` assumes `~ZeroStamp`, and is false otherwise: a task that
starts while the low 32 bits of the clock are zero looks never started, `stopping`
returns early and its bit in `tier_cpu_mask` stays. `VictimsVisible` is what holds without the
assumption: the masks may hold a CPU too many, never one too few, because `stopping` clears
only the bit of the tier that CPU has just run.

**ClassifyProofs.** `Agreement` spells out when a tier agrees with an average,
`HalfwayAgrees` and `MidpointFacts` that recovery keeps it, `SampleFits` that bursts and
truncated averages stay within 16 bits, `ReclassifyStep` and `SpotCheckStep` what the
two paths leave behind. `TypeOK /\ StableAgrees` is inductive (`TypeCorrect`,
`BackoffIsSafe`).

`BonusRunsOut`: `Remaining` is what is left of the recheck period while a task is stable and
1 otherwise. A spot check adds one to a counter that is not at the end of its period
(a full pass would come otherwise), and that counter did not wrap, since 0 is a multiple of
every period (`NextOffPeriod`, on `NextRemainder`); so `StopCounts`: each accounted stop
lowers `Remaining`, to 1 when the spot check ends the stable stretch. No wakeup touches what it
depends on.

`BurstsPull` is the arithmetic of `Settles`, for any gates. `AverageBetween`: the average after a
burst lies between the one before and the burst, and moves unless the two agree up to the
truncation of their shifts. With `TierOfBurst` (`BurstFits`), an average outside the range of
the burst's tier comes strictly nearer and never passes over it, one inside stays inside, and
there the gates give that tier whatever the hysteresis (`RangeIsTier`).

**SchedProofs.** `SchedulesTasks`: one lemma per abstract action says what has to be shown
of a step (`MapWake` to `MapSleep`, `MapStutter`), and `ImplementsStep` shows it for each
action of `Imperator` from `SafeInv`: that a task is in one place gives that its status changes
once, `CpuOK` that it starts on the CPU it is assigned to and that no other task runs there.

**LockHolderProofs.** The tasks are independent (`OneTask`). `FlagOK` says of one task how the
flag and the lock may differ along a call: by what the probe that is about to run will do,
and not at all once the fexit probe has run, which is why the second probe is harmless.
`PendingOK` says that a recorded operation is there exactly when the call was seen entering.
Together with the types and `FreshBudget` they are inductive (`HolderInv`). `FlagStep` maps a
probe's first store to `Raise` or `Lower` and its second to a stutter
(`ProbesImplementFlag`).

**TickProofs.** `OverdueBounded` is not inductive; `Slack` is: the ticks past the budget
since the last check are at most the counter modulo 8, counted from the value after a
multiple. The reason is that every period divides 8 (`QuietOffMultiples`), so that no tick
without a check leaves from a multiple of 8, whichever zone the counter is in and however it moves
between zones; a check that spares a holder starts anew and adds 8 to what the skips of the
wait have bought. Which locks they were granted for does not enter: `Lock` changes nothing
that `Slack` mentions (`FutexStep`). `SliceIsHardCeiling` rests on another invariant,
`Counted`: the ticks a task has been overdue are no more than those it has run beyond its
budget, and it has run no more than its slice, since the tick that sees more kicks. It knows
neither of locks nor of the counter.

**LoaderProofs.** Of `Config`: for any topology every two populated LLCs get a pair to measure
(`EveryLlcPairIsSampled`: the least CPU of each has rank 0, which is sample 0 of both). A
cost is in 1 .. 255 (`CostRange`), and a pair with a measurement has one (`LlcCostRange`).
`BudgetsInOrder`: without an override and with any from 41 us to 1073741 us, budgets rise
with the tier, which is what `DeadlineQueue` assumes of them; `BudgetsExceedSlices`: without
overrides a slice ends before the starvation check looks at it.

Of `Loader`: `TypeInv` is the types, the symmetry of the matrix and that a pair is in
hand while its threads run. `TurnInv` divides the life of a pair into three phases and says in
the last one who is one exchange ahead (`TurnsAreTaken`). `MatrixInv` says that every pair
is waiting, in hand or in the matrix on both sides, that the shared matrix has them all once
calibration is past the store, and that the eventfd fires later still: from it follow
`NotificationIsReliable` and, with the coverage of pairs and the range of costs,
`EveryCostIsWritten`. `BudgetsRiseInRange` carries `BudgetsInOrder` to the loaded program, under that condition on
the override; without it `BudgetsRise` is false (`override_out_of_range`).

`StepsLeft` counts the pairs not yet taken up and, for the one in hand, the rounds its retries
allow and the steps each side has to go. `BusyInv` says that no side runs unless a pair is in
hand; `SidesShrink` and `ThreadsShrink` show the measure fall
with each step of a pair's threads, `NextPairShrinks` and `CalThreadShrinks` with each of the
calibration thread, and `OthersKeepSteps` that nothing else moves it
(`CalibrationIsBounded`). A falling measure alone would allow a calibration that is stuck, so
`CalibrationNeverStuck` says that some thread of it has a step to take until it is done:
`PairInv` adds to `TurnInv` that both sides exist while a pair is in hand, that neither stops
exchanging early, and that only an abort ends one with exchanges left. It is stated with the actions' guards in full, since
ENABLED cannot be proved about.

`HandsOver`: `CaughtInv` says that a caught signal finds calibration over, and with `MatrixInv`
the table is empty or complete (`TableShown`). `Kept` and `Implemented` reduce a step to what it
does to the four abstract variables; `CalThreadImplements`, `WriteImplements`,
`WakeImplements` and `RestImplements` map the steps.

**Only model-checked.** Liveness (`WaitingTaskRuns`, `Settles`, `HogsSink`, `BonusEnds`,
`HolderYields`, `CalibrationEnds`, `CostsWritten`, `BpfExitNoticed`): fairness and ENABLED are beyond the
prover. `BurstsPull` is the part of `Settles` that is arithmetic; that overrun history and
stability let the tier follow the average is model-checked. Of three others the bound behind
is proved, and only the scheduling of the next step is left to fairness: `SliceCeiling` for
`HolderYields`, `BonusCountsDown` for `BonusEnds`, `CalibrationIsBounded` with
`CalibrationNeverStuck` for `CalibrationEnds`. Overrides from 26 to 40 us are checked, not proved.

## 5. Plan

Written, in this order: `DeadlineQueue`; `Imperator`; `Classify`; `Config` with `Calibration`
and `Loader`; hybrid steering and `Sched`; `LockHolder` with `HolderFlag` and `Tick`; all with
their proofs. Open, the most important first:

1. Topology: the mapping from sysfs to the constants, with more than 8 LLCs and CPU numbers
   with holes; the `--quantum` override in `Config` and what it does to the slices.
2. A run of `Imperator` with `ZeroStamp`, in which `MaskExact` is replaced by a bound on
   how long a bit may be wrong.
3. The advance of a lock holder in `DeadlineQueue`'s `Advances` tied to `HolderFlag`; today any
   entry may have it.
4. Proofs: the rest of `Settles` as a bound, that an average which stays in the range of a tier
   gets the task there within a number of full passes; the same for `HogsSink`; and that a
   budget from `Config` satisfies `DeadlineQueue`'s assumption, stated as one theorem.

## 6. Not modelled

- Topology detection (`src/topology.rs`): reads sysfs once through `scx_utils`; its results are
  constants here, under the assumptions each module names.
- The terminal interface and statistics (`src/tui.rs`, `src/stats.rs`): they render and sum
  counters. What `run_tui` does to calibration is in `Loader`.
- The compatibility header: relaxed accesses and bit scans, each one atomic step here. The
  weaker ordering of other processors is not modelled; the code is written for x86.
- Build and installation scripts: no scheduling behaviour.
- Burst credit and the fork and exec branches of `init_task`, which cannot run (README,
  known limitations); the latency EWMA, which nothing reads but statistics.
- A runtime of more than 4.3 s in `stopping`: `bout_us` is taken modulo 2^32 ns like
  `runtime` in `Tick`, and no statement of the code is about it.
- The tier's share of frequency is reached only after a spared check: every other path falls
  through to the maximum (`TickQuiet`, `TickWithinBudget`). As all tiers target the maximum, it
  shows on hybrid systems only, where the scaling by `cpuperf_cap` is not applied.

To run: `tlc -config MCImperator.cfg MCImperator`, and likewise for the other
configurations; `tlapm ImperatorSafety.tla`, and likewise for the other proof modules.
