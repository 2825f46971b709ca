------------------------------ MODULE Imperator ------------------------------
(***************************************************************************)
(* The concurrent core of src/bpf/imperator.bpf.c: the sched_ext callbacks *)
(* select_cpu, enqueue, dispatch, tick, running and stopping as the kernel *)
(* calls them on several CPUs at once.                                     *)
(*                                                                         *)
(* A callback that touches state other CPUs share is cut where another CPU *)
(* can act: enqueue into "insert", "mark the LLC", "read the tier masks"   *)
(* and "kick"; dispatch into "pull", "read nr_queued", "clear the flag"    *)
(* and "build the steal mask".  A callback that only touches its own CPU's *)
(* or its own task's state is one step.                                    *)
(*                                                                         *)
(* What a deadline does to the order of a DSQ is in DeadlineQueue, and     *)
(* which tier a bout earns is in Classify: here any task a CPU may run can *)
(* be pulled first and a bout may end in any tier.                         *)
(***************************************************************************)
EXTENDS Naturals, FiniteSets

CONSTANTS
  Cpus,          \* CPU numbers
  Tasks,         \* the tasks under SCHED_EXT
  nr_llcs,       \* number of last-level caches; LLCs are 0 .. nr_llcs-1
  cpu_llc_id,    \* cpu_llc_id[c] is the LLC of CPU c
  llc_etd_cost,  \* llc_etd_cost[a][b]: measured cost of a steal, 0 = unknown
  big_cpu_mask,  \* the P-core CPUs of a hybrid system, {} on any other
  Allowed,       \* Allowed[t]: the CPUs in p->cpus_ptr
  NoCtx,         \* the tasks whose task storage could not be allocated
  Kthreads,      \* the tasks with PF_KTHREAD
  SeedTiers,     \* the tiers alloc_task_ctx_cold gives for the tasks' nice values
  BoutTiers,     \* the tiers a reclassification may move a task to
  ZeroStamp,     \* may (u32)scx_bpf_now() be 0 when a task starts?
  SyncWakes,     \* do wakers use SCX_WAKE_SYNC?
  Watched,       \* the tasks the liveness property follows
  NoTask, NoCpu, NoTier

Llcs  == 0 .. nr_llcs - 1
Tiers == 0 .. 3

CAKE_TIER_CRITICAL == 0
CAKE_TIER_INTERACT == 1
CAKE_TIER_FRAME    == 2
CAKE_TIER_BULK     == 3

ASSUME CpuAssumption  ==
  Cpus \subseteq Nat /\ Cpus # {} /\ IsFiniteSet(Cpus) /\ big_cpu_mask \subseteq Cpus
ASSUME LlcAssumption  == nr_llcs \in Nat \ {0} /\ cpu_llc_id \in [Cpus -> Llcs]
ASSUME CostAssumption == llc_etd_cost \in [Llcs -> [Llcs -> Nat]]
ASSUME TaskAssumption ==
  /\ Allowed \in [Tasks -> SUBSET Cpus]
  /\ \A t \in Tasks : Allowed[t] # {}
  /\ NoCtx \subseteq Tasks
  /\ Kthreads \subseteq Tasks
  /\ SeedTiers \subseteq {CAKE_TIER_CRITICAL, CAKE_TIER_INTERACT, CAKE_TIER_BULK}
  /\ BoutTiers \subseteq Tiers
  /\ ZeroStamp \in BOOLEAN
  /\ SyncWakes \in BOOLEAN
  /\ Watched \subseteq Tasks
ASSUME NoneAssumption == NoTask \notin Tasks /\ NoCpu \notin Cpus /\ NoTier \notin Tiers

VARIABLES
  \* kernel
  curr,           \* curr[c]: the task CPU c runs, NoTask when idle or switching
  asleep,         \* the tasks that are blocked and off every CPU
  idle,           \* the kernel's idle mask, which select_cpu_dfl claims from
  resched,        \* the CPUs with need_resched set
  kicks,          \* the CPUs a kick is on its way to
  local,          \* local[c]: the tasks in CPU c's SCX_DSQ_LOCAL
  rq,             \* rq[c]: the CPU whose runqueue lock CPU c holds, or NoCpu
  task_cpu,       \* task_cpu[t]: scx_bpf_task_cpu(t)
  \* scheduler maps
  dsq,            \* dsq[l]: the tasks in LLC_DSQ_BASE + l
  llc_nonempty,   \* llc_nonempty[l]: "there may be work" flag read by stealers
  tier_cpu_mask,  \* tier_cpu_mask[k]: the CPUs running a task of tier k
  mega_mailbox,   \* mega_mailbox[c]: tier published by CPU c, NoTier until valid
  \* imperator_task_ctx
  tier,           \* the tier bits of packed_info
  irq_wake,       \* CAKE_FLOW_IRQ_WAKE
  stamped,        \* last_run_at # 0
  \* where a CPU is inside the kernel
  pc,
  hand,           \* the task a CPU has in hand between two places
  victim,         \* the CPU enqueue is about to kick
  target,         \* the LLC dispatch is pulling from
  steal_mask      \* the LLCs dispatch has still to try

kernelVars == <<curr, asleep, idle, resched, kicks, local, rq, task_cpu>>
mapVars    == <<dsq, llc_nonempty, tier_cpu_mask, mega_mailbox>>
ctxVars    == <<tier, irq_wake, stamped>>
stepVars   == <<pc, hand, victim, target, steal_mask>>
vars       == <<kernelVars, mapVars, ctxVars, stepVars>>

DispatchSteps == {"move", "count", "clear", "scan"}
MarkSteps     == {"mark", "mark_kick", "remark"}
Steps == {"user", "direct", "enqueue", "pick_victim", "kick", "unlock",
          "requeue", "pick", "start"} \cup MarkSteps \cup DispatchSteps

TypeOK ==
  /\ curr \in [Cpus -> Tasks \cup {NoTask}]
  /\ asleep \in SUBSET Tasks
  /\ idle \in SUBSET Cpus
  /\ resched \in SUBSET Cpus
  /\ kicks \in SUBSET Cpus
  /\ local \in [Cpus -> SUBSET Tasks]
  /\ rq \in [Cpus -> Cpus \cup {NoCpu}]
  /\ task_cpu \in [Tasks -> Cpus]
  /\ dsq \in [Llcs -> SUBSET Tasks]
  /\ llc_nonempty \in [Llcs -> BOOLEAN]
  /\ tier_cpu_mask \in [Tiers -> SUBSET Cpus]
  /\ mega_mailbox \in [Cpus -> Tiers \cup {NoTier}]
  /\ tier \in [Tasks -> Tiers]
  /\ irq_wake \in [Tasks -> BOOLEAN]
  /\ stamped \in [Tasks -> BOOLEAN]
  /\ pc \in [Cpus -> Steps]
  /\ hand \in [Cpus -> Tasks \cup {NoTask}]
  /\ victim \in [Cpus -> Cpus \cup {NoCpu}]
  /\ target \in [Cpus -> Llcs]
  /\ steal_mask \in [Cpus -> SUBSET Llcs]
-----------------------------------------------------------------------------
Unlocked(c) == \A d \in Cpus : rq[d] # c
Goto(c, s)  == pc' = [pc EXCEPT ![c] = s]
Lock(c, d)  == Unlocked(d) /\ rq' = [rq EXCEPT ![c] = d]
Unlock(c)   == rq' = [rq EXCEPT ![c] = NoCpu]
HasCtx(t)   == t \notin NoCtx
Lowest(S)   == CHOOSE i \in S : \A j \in S : i <= j

Init ==
  /\ curr = [c \in Cpus |-> NoTask]
  /\ asleep = Tasks
  /\ idle = Cpus
  /\ resched = {}
  /\ kicks = {}
  /\ local = [c \in Cpus |-> {}]
  /\ rq = [c \in Cpus |-> NoCpu]
  /\ task_cpu \in {f \in [Tasks -> Cpus] : \A t \in Tasks : f[t] \in Allowed[t]}
  /\ dsq = [l \in Llcs |-> {}]
  /\ llc_nonempty = [l \in Llcs |-> FALSE]
  /\ tier_cpu_mask = [k \in Tiers |-> {}]
  /\ mega_mailbox = [c \in Cpus |-> NoTier]
  /\ tier \in {f \in [Tasks -> SeedTiers \cup {CAKE_TIER_BULK}] :
                 \A t \in Tasks : IF HasCtx(t) THEN f[t] \in SeedTiers ELSE f[t] = CAKE_TIER_BULK}
  /\ irq_wake = [t \in Tasks |-> FALSE]
  /\ stamped = [t \in Tasks |-> FALSE]
  /\ pc = [c \in Cpus |-> "user"]
  /\ hand = [c \in Cpus |-> NoTask]
  /\ victim = [c \in Cpus |-> NoCpu]
  /\ target = cpu_llc_id
  /\ steal_mask = [c \in Cpus |-> {}]
-----------------------------------------------------------------------------
(* A wakeup, on the waker's CPU c (a task or an interrupt on top of it).   *)

(* Mutant: the stamp is read but not cleared. *)
KeepIrqWake(t) == UNCHANGED irq_wake

(* consume_irq_wake_get_tier_slice, and the same in imperator_enqueue. *)
ConsumeIrqWake(t) == irq_wake' = [irq_wake EXCEPT ![t] = FALSE]

(* scx_bpf_select_cpu_dfl, for a wakeup on c and an idle mask: a CPU that   *)
(* it claims, or for a SYNC wakeup the waker's own CPU when its local DSQ  *)
(* is empty and some CPU is idle, without claiming one; and the mask left. *)
DflPicks(c, t, mask) ==
  {<<d, mask \ {d}>> : d \in mask \cap Allowed[t]}
    \cup {<<d, mask>> : d \in {d \in {c} \cap Allowed[t] :
                                 SyncWakes /\ mask # {} /\ local[d] = {}}}

(* Mutant: the search is repeated on any system. *)
SteeredAlways(c, t, pick) ==
  IF DflPicks(c, t, pick[2]) = {} THEN {pick} ELSE DflPicks(c, t, pick[2])

(* Hybrid steering: when the pick is an E-core and the task may use a      *)
(* P-core, the search is repeated from a P-core and its result, if any,    *)
(* used.  The hint only orders the kernel's search.                        *)
Steered(c, t, pick) ==
  IF \/ pick[1] \in big_cpu_mask \/ big_cpu_mask \cap Allowed[t] = {}
     \/ DflPicks(c, t, pick[2]) = {}
  THEN {pick} ELSE DflPicks(c, t, pick[2])

(* imperator_select_cpu with an idle CPU: the CAKE_FLOW_IRQ_WAKE of an IRQ *)
(* wakeup is stamped and consumed again, the task is placed directly.      *)
SelectIdleCpu(c, t) ==
  /\ pc[c] = "user"
  /\ t \in asleep
  /\ Cardinality(Allowed[t]) > 1
  /\ \E first \in DflPicks(c, t, idle) : \E pick \in Steered(c, t, first) :
       /\ task_cpu' = [task_cpu EXCEPT ![t] = pick[1]]
       /\ idle' = pick[2]
  /\ ConsumeIrqWake(t)
  /\ asleep' = asleep \ {t}
  /\ hand' = [hand EXCEPT ![c] = t]
  /\ Goto(c, "direct")
  /\ UNCHANGED <<curr, resched, kicks, local, rq, mapVars, tier, stamped,
                 victim, target, steal_mask>>

(* All CPUs the task may use are busy: select_cpu returns prev_cpu with    *)
(* the stamp left for enqueue.                                             *)
SelectPrevCpu(c, t, irq) ==
  /\ pc[c] = "user"
  /\ t \in asleep
  /\ Cardinality(Allowed[t]) > 1
  /\ idle \cap Allowed[t] = {}
  /\ irq_wake' = [irq_wake EXCEPT ![t] = @ \/ (irq /\ HasCtx(t))]
  /\ asleep' = asleep \ {t}
  /\ hand' = [hand EXCEPT ![c] = t]
  /\ Goto(c, "enqueue")
  /\ UNCHANGED <<curr, idle, resched, kicks, local, rq, task_cpu, mapVars, tier, stamped,
                 victim, target, steal_mask>>

(* The kernel does not call select_cpu for a task pinned to one CPU. *)
WakePinned(c, t) ==
  /\ pc[c] = "user"
  /\ t \in asleep
  /\ Cardinality(Allowed[t]) = 1
  /\ asleep' = asleep \ {t}
  /\ hand' = [hand EXCEPT ![c] = t]
  /\ Goto(c, "enqueue")
  /\ UNCHANGED <<curr, idle, resched, kicks, local, rq, task_cpu, mapVars, ctxVars,
                 victim, target, steal_mask>>

(* wakeup_preempt: a CPU in its idle loop is rescheduled by an arrival. *)
WakeIdleCpu(d) == resched' = IF curr[d] = NoTask THEN resched \cup {d} ELSE resched

(* The insertion into SCX_DSQ_LOCAL_ON | cpu that select_cpu asked for. *)
DirectDispatch(c) ==
  LET d == task_cpu[hand[c]]
  IN /\ pc[c] = "direct"
     /\ Unlocked(d)
     /\ local' = [local EXCEPT ![d] = @ \cup {hand[c]}]
     /\ hand' = [hand EXCEPT ![c] = NoTask]
     /\ WakeIdleCpu(d)
     /\ Goto(c, "user")
     /\ UNCHANGED <<curr, asleep, idle, kicks, rq, task_cpu, mapVars, ctxVars,
                    victim, target, steal_mask>>

(* imperator_enqueue's tier for a wakeup: the fallbacks of a task without  *)
(* context, the IRQ boost, then inheritance from the waker's mailbox,      *)
(* which never goes above T1.                                              *)
WakeTier(c, t) ==
  LET own   == IF irq_wake[t] THEN CAKE_TIER_CRITICAL ELSE tier[t]
      waker == mega_mailbox[c]
      floor == IF waker < CAKE_TIER_INTERACT THEN CAKE_TIER_INTERACT ELSE waker
  IN IF t \in NoCtx
     THEN IF t \in Kthreads THEN CAKE_TIER_INTERACT ELSE CAKE_TIER_FRAME
     ELSE IF own > CAKE_TIER_CRITICAL /\ waker # NoTier /\ floor < own THEN floor ELSE own

(* Mutant: the queue is chosen by the waker's LLC. *)
WakerLlc(c, t) == cpu_llc_id[c]

(* enq_llc: the LLC of the CPU the task is assigned to. *)
enq_llc(c, t) == cpu_llc_id[task_cpu[t]]

(* Mutant: the early return of a task without context skips the insert. *)
InsertWithContext(l, t) == dsq' = IF HasCtx(t) THEN [dsq EXCEPT ![l] = @ \cup {t}] ELSE dsq

(* scx_bpf_dsq_insert_vtime on LLC_DSQ_BASE + l. *)
Insert(l, t) == dsq' = [dsq EXCEPT ![l] = @ \cup {t}]

(* enqueue up to scx_bpf_dsq_insert_vtime, under the lock of task_cpu(p). *)
Enqueue(c) ==
  LET t == hand[c]
      urgent == HasCtx(t) /\ WakeTier(c, t) <= CAKE_TIER_INTERACT
  IN /\ pc[c] = "enqueue"
     /\ Lock(c, task_cpu[t])
     /\ ConsumeIrqWake(t)
     /\ Insert(enq_llc(c, t), t)
     /\ hand' = [hand EXCEPT ![c] = NoTask]
     /\ Goto(c, IF urgent THEN "mark_kick" ELSE "mark")
     /\ UNCHANGED <<curr, asleep, idle, resched, kicks, local, task_cpu,
                    llc_nonempty, tier_cpu_mask, mega_mailbox, tier, stamped,
                    victim, target, steal_mask>>

(* llc_mark_nonempty: one load, and a store only if it read 0, so the step *)
(* takes effect at the load (read 1) or at the store (read 0).             *)
MarkNonempty(c) ==
  /\ pc[c] \in MarkSteps
  /\ llc_nonempty' = [llc_nonempty EXCEPT ![cpu_llc_id[rq[c]]] = TRUE]
  /\ Goto(c, CASE pc[c] = "mark_kick" -> "pick_victim"
               [] pc[c] = "mark"      -> "unlock"
               [] pc[c] = "remark"    -> "start")
  /\ UNCHANGED <<kernelVars, dsq, tier_cpu_mask, mega_mailbox, ctxVars,
                 hand, victim, target, steal_mask>>

(* The O(1) kick: the lowest CPU of the LLC in the T3 mask, else in T2's. *)
PickVictim(c) ==
  LET running(k) == {d \in tier_cpu_mask[k] : cpu_llc_id[d] = cpu_llc_id[rq[c]]}
      prey == IF running(CAKE_TIER_BULK) # {} THEN running(CAKE_TIER_BULK)
              ELSE running(CAKE_TIER_FRAME)
  IN /\ pc[c] = "pick_victim"
     /\ victim' = [victim EXCEPT ![c] = IF prey = {} THEN NoCpu ELSE Lowest(prey)]
     /\ Goto(c, IF prey = {} THEN "unlock" ELSE "kick")
     /\ UNCHANGED <<kernelVars, mapVars, ctxVars, hand, target, steal_mask>>

(* scx_bpf_kick_cpu(victim, SCX_KICK_PREEMPT) only queues the request. *)
KickVictim(c) ==
  /\ pc[c] = "kick"
  /\ kicks' = kicks \cup {victim[c]}
  /\ victim' = [victim EXCEPT ![c] = NoCpu]
  /\ Goto(c, "unlock")
  /\ UNCHANGED <<curr, asleep, idle, resched, local, rq, task_cpu, mapVars, ctxVars,
                 hand, target, steal_mask>>

EnqueueEnd(c) ==
  /\ pc[c] = "unlock"
  /\ WakeIdleCpu(rq[c])
  /\ Unlock(c)
  /\ Goto(c, "user")
  /\ UNCHANGED <<curr, asleep, idle, kicks, local, task_cpu, mapVars, ctxVars,
                 hand, victim, target, steal_mask>>

(* The kernel delivers a kick under the victim's runqueue lock: whatever   *)
(* task runs there now loses its slice and the CPU is rescheduled.         *)
DeliverKick(d) ==
  /\ d \in kicks
  /\ Unlocked(d)
  /\ kicks' = kicks \ {d}
  /\ resched' = resched \cup {d}
  /\ UNCHANGED <<curr, asleep, idle, local, rq, task_cpu, mapVars, ctxVars, stepVars>>
-----------------------------------------------------------------------------
(* The scheduler tick and the three ways into __schedule() on CPU c. *)

Queued(c) == dsq[cpu_llc_id[c]] # {} \/ local[c] # {}

(* rq->scx.nr_running counts the running task and every task queued on     *)
(* this runqueue, in a user DSQ or in the local one.                       *)
Contended(c) == \E t \in Tasks : task_cpu[t] = c /\ t \in local[c] \cup dsq[cpu_llc_id[c]]

(* imperator_tick.  over: runtime > next_slice; starved: the phase 2 check *)
(* ran this tick and runtime exceeds the tier's starvation threshold.  A   *)
(* CPU's kick of itself arrives before it returns from the tick.           *)
Tick(c, over, starved) ==
  LET t == curr[c]
  IN /\ pc[c] = "user"
     /\ t # NoTask
     /\ Unlocked(c)
     /\ HasCtx(t)
     /\ IF ~stamped[t]
        THEN /\ \E z \in {FALSE, ZeroStamp} : stamped' = [stamped EXCEPT ![t] = ~z]
             /\ UNCHANGED <<mega_mailbox, resched>>
        ELSE /\ mega_mailbox' = [mega_mailbox EXCEPT ![c] = tier[t]]
             /\ resched' = IF (over /\ Queued(c)) \/ (starved /\ Contended(c))
                           THEN resched \cup {c} ELSE resched
             /\ UNCHANGED stamped
     /\ UNCHANGED <<curr, asleep, idle, kicks, local, rq, task_cpu,
                    dsq, llc_nonempty, tier_cpu_mask, tier, irq_wake, stepVars>>

(* The kernel's own accounting: the slice reached zero. *)
SliceExpired(c) ==
  /\ pc[c] = "user"
  /\ curr[c] # NoTask
  /\ Unlocked(c)
  /\ c \notin resched
  /\ resched' = resched \cup {c}
  /\ UNCHANGED <<curr, asleep, idle, kicks, local, rq, task_cpu, mapVars, ctxVars, stepVars>>

(* Mutant: the bit cleared is that of the tier the bout ends in. *)
StoppingClearsNewTier(c, t) ==
  IF HasCtx(t) /\ stamped[t]
  THEN \E k \in BoutTiers \cup {tier[t]} :
         /\ tier' = [tier EXCEPT ![t] = k]
         /\ tier_cpu_mask' = [tier_cpu_mask EXCEPT ![k] = @ \ {c}]
  ELSE UNCHANGED <<tier_cpu_mask, tier>>

(* imperator_stopping: the bit of the tier the task ran at goes first, then *)
(* reclassify_task_cold may move the task to another tier.                  *)
Stopping(c, t) ==
  IF HasCtx(t) /\ stamped[t]
  THEN /\ tier_cpu_mask' = [tier_cpu_mask EXCEPT ![tier[t]] = @ \ {c}]
       /\ \E k \in BoutTiers \cup {tier[t]} : tier' = [tier EXCEPT ![t] = k]
  ELSE UNCHANGED <<tier_cpu_mask, tier>>

(* Mutant: ops.dispatch keeps a running task that wants to go on. *)
BeginDispatchUnlessBusy(c) ==
  /\ Lock(c, c)
  /\ Goto(c, IF local[c] = {} /\ curr[c] = NoTask THEN "move" ELSE "pick")

(* balance_scx: ops.dispatch runs only when the local DSQ is empty. *)
BeginDispatch(c) ==
  /\ Lock(c, c)
  /\ Goto(c, IF local[c] = {} THEN "move" ELSE "pick")

(* The running task blocks: ops.stopping(p, false), then ops.dispatch. *)
Block(c) ==
  LET t == curr[c]
  IN /\ pc[c] = "user"
     /\ t # NoTask
     /\ BeginDispatch(c)
     /\ Stopping(c, t)
     /\ curr' = [curr EXCEPT ![c] = NoTask]
     /\ hand' = [hand EXCEPT ![c] = t]
     /\ resched' = resched \ {c}
     /\ UNCHANGED <<asleep, idle, kicks, local, task_cpu, dsq, llc_nonempty,
                    mega_mailbox, irq_wake, stamped, victim, target, steal_mask>>

(* need_resched on a busy or an idle CPU; a busy CPU keeps its task in     *)
(* curr until ops.dispatch has found another one.                          *)
Schedule(c) ==
  /\ pc[c] = "user"
  /\ c \in resched
  /\ BeginDispatch(c)
  /\ resched' = resched \ {c}
  /\ idle' = idle \ {c}
  /\ UNCHANGED <<curr, asleep, kicks, local, task_cpu, mapVars, ctxVars,
                 hand, victim, target, steal_mask>>
-----------------------------------------------------------------------------
(* imperator_dispatch on CPU c, with the lock of c's runqueue. *)

(* A pull from another runqueue takes that runqueue's lock: it waits for   *)
(* the CPU holding it, except for one that is itself dispatching, which    *)
(* lets go of its lock while it waits.                                     *)
Movable(c, t) ==
  \A d \in Cpus \ {c} : rq[d] = task_cpu[t] => pc[d] \in DispatchSteps

(* ops.dispatch returns; its locals are gone. *)
EndDispatch(c) ==
  /\ Goto(c, "pick")
  /\ target' = [target EXCEPT ![c] = cpu_llc_id[c]]
  /\ steal_mask' = [steal_mask EXCEPT ![c] = {}]

(* Mutant: the affinity of a queued task is not looked at. *)
EligibleAnywhere(c, l) == dsq[l]

Eligible(c, l) == {t \in dsq[l] : c \in Allowed[t]}

(* scx_bpf_dsq_move_to_local found a task this CPU may run. *)
MoveToLocal(c) ==
  /\ pc[c] = "move"
  /\ \E t \in Eligible(c, target[c]) :
       /\ Movable(c, t)
       /\ dsq' = [dsq EXCEPT ![target[c]] = @ \ {t}]
       /\ local' = [local EXCEPT ![c] = @ \cup {t}]
       /\ task_cpu' = [task_cpu EXCEPT ![t] = c]
  /\ EndDispatch(c)
  /\ UNCHANGED <<curr, asleep, idle, resched, kicks, rq, llc_nonempty, tier_cpu_mask,
                 mega_mailbox, ctxVars, hand, victim>>

(* ... or none: the queue is empty, or every task in it is pinned elsewhere. *)
MoveFails(c) ==
  /\ pc[c] = "move"
  /\ Eligible(c, target[c]) = {}
  /\ Goto(c, "count")
  /\ UNCHANGED <<kernelVars, mapVars, ctxVars, hand, victim, target, steal_mask>>

(* The next LLC of a steal mask; an empty mask ends ops.dispatch. *)
StealFrom(c, mask, l) ==
  IF mask = {}
  THEN EndDispatch(c)
  ELSE /\ Goto(c, "move")
       /\ target' = [target EXCEPT ![c] = l]
       /\ steal_mask' = [steal_mask EXCEPT ![c] = mask \ {l}]

(* After a failed pull: from the own queue on to the steal scan, from a    *)
(* victim's queue on to the lowest LLC still in the mask.                  *)
AfterFailure(c) ==
  IF target[c] = cpu_llc_id[c]
  THEN IF nr_llcs <= 1 THEN EndDispatch(c)
       ELSE Goto(c, "scan") /\ UNCHANGED <<target, steal_mask>>
  ELSE StealFrom(c, steal_mask[c], Lowest(steal_mask[c]))

(* scx_bpf_dsq_nr_queued: a read of its own, after the failed pull ... *)
CountQueued(c) ==
  /\ pc[c] = "count"
  /\ IF dsq[target[c]] = {}
     THEN Goto(c, "clear") /\ UNCHANGED <<target, steal_mask>>
     ELSE AfterFailure(c)
  /\ UNCHANGED <<kernelVars, mapVars, ctxVars, hand, victim>>

(* ... and the store that acts on what was read. *)
ClearNonempty(c) ==
  /\ pc[c] = "clear"
  /\ llc_nonempty' = [llc_nonempty EXCEPT ![target[c]] = FALSE]
  /\ AfterFailure(c)
  /\ UNCHANGED <<kernelVars, dsq, tier_cpu_mask, mega_mailbox, ctxVars, hand, victim>>

(* Mutant: the sentinel nr_llcs is used as an LLC. *)
UncheckedCheapestLlc(me, mask) ==
  LET measured == {l \in mask : llc_etd_cost[me][l] > 0}
  IN IF measured = {} THEN nr_llcs
     ELSE CHOOSE l \in measured : \A m \in measured : llc_etd_cost[me][l] <= llc_etd_cost[me][m]

(* The LLCs of mask with the least measured cost, the lowest of them; with *)
(* no measured cost in the mask, the lowest LLC of it.                     *)
CheapestLlc(me, mask) ==
  LET cost(l)  == llc_etd_cost[me][l]
      measured == {l \in mask : cost(l) > 0}
  IN IF measured = {} THEN Lowest(mask)
     ELSE Lowest({l \in measured : \A m \in measured : cost(l) <= cost(m)})

(* The steal mask is built from the flags of the other LLCs. *)
ScanFlags(c) ==
  LET me   == cpu_llc_id[c]
      mask == {l \in Llcs \ {me} : llc_nonempty[l]}
  IN /\ pc[c] = "scan"
     /\ StealFrom(c, mask, CheapestLlc(me, mask))
     /\ UNCHANGED <<kernelVars, mapVars, ctxVars, hand, victim>>

(* Nothing to switch to: a runnable task keeps the CPU without             *)
(* ops.stopping/ops.running, an idle CPU enters the idle mask.             *)
KeepOrIdle(c) ==
  /\ pc[c] = "pick"
  /\ local[c] = {}
  /\ idle' = IF curr[c] = NoTask THEN idle \cup {c} ELSE idle
  /\ asleep' = asleep \cup ({hand[c]} \ {NoTask})
  /\ hand' = [hand EXCEPT ![c] = NoTask]
  /\ Unlock(c)
  /\ Goto(c, "user")
  /\ UNCHANGED <<curr, resched, kicks, local, task_cpu, mapVars, ctxVars,
                 victim, target, steal_mask>>

(* A task to switch to: the running one, if any, gets ops.stopping(p, true) *)
(* and goes back through ops.enqueue before the next one starts.            *)
PutPrev(c) ==
  /\ pc[c] = "pick"
  /\ local[c] # {}
  /\ IF curr[c] = NoTask
     THEN Goto(c, "start") /\ UNCHANGED <<curr, hand, tier_cpu_mask, tier>>
     ELSE /\ Stopping(c, curr[c])
          /\ hand' = [hand EXCEPT ![c] = curr[c]]
          /\ curr' = [curr EXCEPT ![c] = NoTask]
          /\ Goto(c, "requeue")
  /\ UNCHANGED <<asleep, idle, resched, kicks, local, rq, task_cpu, dsq, llc_nonempty,
                 mega_mailbox, irq_wake, stamped, victim, target, steal_mask>>

(* imperator_enqueue without SCX_ENQ_WAKEUP: own tier, no boost, no kick. *)
Requeue(c) ==
  /\ pc[c] = "requeue"
  /\ Insert(cpu_llc_id[c], hand[c])
  /\ hand' = [hand EXCEPT ![c] = NoTask]
  /\ Goto(c, "remark")
  /\ UNCHANGED <<kernelVars, llc_nonempty, tier_cpu_mask, mega_mailbox, ctxVars,
                 victim, target, steal_mask>>

(* Mutant: the mailbox is left to the next tick. *)
PublishMaskOnly(c, t) ==
  /\ tier_cpu_mask' = [tier_cpu_mask EXCEPT ![tier[t]] = @ \cup {c}]
  /\ UNCHANGED mega_mailbox

Publish(c, t) ==
  /\ tier_cpu_mask' = [tier_cpu_mask EXCEPT ![tier[t]] = @ \cup {c}]
  /\ mega_mailbox' = [mega_mailbox EXCEPT ![c] = tier[t]]

(* imperator_running: stamp last_run_at, publish the tier in the mailbox   *)
(* and set this CPU's bit in that tier's mask.  The switch also takes a    *)
(* blocked predecessor off the CPU.                                        *)
Running(c) ==
  /\ pc[c] = "start"
  /\ \E t \in local[c] :
       /\ local' = [local EXCEPT ![c] = @ \ {t}]
       /\ curr' = [curr EXCEPT ![c] = t]
       /\ IF HasCtx(t)
          THEN /\ \E z \in {FALSE, ZeroStamp} : stamped' = [stamped EXCEPT ![t] = ~z]
               /\ Publish(c, t)
          ELSE UNCHANGED <<stamped, mega_mailbox, tier_cpu_mask>>
  /\ asleep' = asleep \cup ({hand[c]} \ {NoTask})
  /\ hand' = [hand EXCEPT ![c] = NoTask]
  /\ Unlock(c)
  /\ Goto(c, "user")
  /\ UNCHANGED <<idle, resched, kicks, task_cpu, dsq, llc_nonempty, tier, irq_wake,
                 victim, target, steal_mask>>
-----------------------------------------------------------------------------
Wakeup(c) ==
  \/ \E t \in Tasks : SelectIdleCpu(c, t)
  \/ \E t \in Tasks, irq \in BOOLEAN : SelectPrevCpu(c, t, irq)
  \/ \E t \in Tasks : WakePinned(c, t)

EnqueueStep(c) == DirectDispatch(c) \/ Enqueue(c) \/ MarkNonempty(c)
                  \/ PickVictim(c) \/ KickVictim(c) \/ EnqueueEnd(c)

DispatchStep(c) == MoveToLocal(c) \/ MoveFails(c) \/ CountQueued(c) \/ ClearNonempty(c)
                   \/ ScanFlags(c) \/ KeepOrIdle(c) \/ PutPrev(c) \/ Requeue(c) \/ Running(c)

Next ==
  \E c \in Cpus :
    \/ Wakeup(c)
    \/ EnqueueStep(c)
    \/ DeliverKick(c)
    \/ \E over, starved \in BOOLEAN : Tick(c, over, starved)
    \/ SliceExpired(c)
    \/ Block(c)
    \/ Schedule(c)
    \/ DispatchStep(c)

Spec == Init /\ [][Next]_vars

(* A queued task leaves the queue for a CPU, a task of a local queue starts. *)
Pull(t)  == \E c \in Cpus : t \in dsq[target[c]] /\ MoveToLocal(c) /\ t \in local'[c]
Start(t) == \E c \in Cpus : t \in local[c] /\ Running(c) /\ curr'[c] = t

(* A callback ends, its CPU getting the runqueue locks it waits for (they  *)
(* are FIFO); a slice ends, and a CPU with need_resched set passes through *)
(* __schedule() in spite of its interrupts; a local queue is first in,     *)
(* first out; only finitely many arrivals have a deadline before that  *)
(* of a queued task (NoStarvation in DeadlineQueueProofs), so a task that  *)
(* may be pulled again and again is.                                       *)
Fairness ==
  /\ \A c \in Cpus : /\ SF_vars(EnqueueStep(c) \/ DispatchStep(c))
                     /\ SF_vars(SliceExpired(c) \/ Schedule(c))
  /\ \A t \in Watched : SF_vars(Pull(t)) /\ SF_vars(Start(t))

LiveSpec == Spec /\ Fairness
-----------------------------------------------------------------------------
(* Properties *)

(* Every task is in exactly one place: asleep, in one DSQ, in one local    *)
(* queue, on one CPU, or in the hand of one CPU.  enqueue, dispatch and    *)
(* the preemption path each move a task in several steps.                  *)
Places(t) ==
  {<<"curr", c>> : c \in {c \in Cpus : curr[c] = t}}
    \cup {<<"hand", c>> : c \in {c \in Cpus : hand[c] = t}}
    \cup {<<"local", c>> : c \in {c \in Cpus : t \in local[c]}}
    \cup {<<"dsq", l>> : l \in {l \in Llcs : t \in dsq[l]}}
    \cup {<<"asleep", 0>> : x \in asleep \cap {t}}

OnePlace == \A t \in Tasks : Cardinality(Places(t)) = 1

(* The invariant stated above tier_cpu_mask: bit c of tier_cpu_mask[k] is  *)
(* set iff CPU c is running a task whose tier is k.  running sets the bit  *)
(* from the tier before the bout, stopping must clear it from the same one *)
(* although the bout changes the tier.                                     *)
RunsTier(c, k) == curr[c] # NoTask /\ HasCtx(curr[c]) /\ tier[curr[c]] = k

MaskExact == \A k \in Tiers, c \in Cpus : c \in tier_cpu_mask[k] <=> RunsTier(c, k)

(* Whatever wakes a task from a busy CPU inherits the tier of the task that *)
(* runs there, not that of a task that ran there before.                    *)
MailboxCurrent ==
  \A c \in Cpus : curr[c] # NoTask /\ HasCtx(curr[c]) => mega_mailbox[c] = tier[curr[c]]

(* CAKE_FLOW_IRQ_WAKE is one-shot: once the wakeup that stamped it has     *)
(* queued or placed the task, the stamp is gone, so no later enqueue of    *)
(* the task is boosted by it.                                              *)
IrqWakeOneShot ==
  \A t \in Tasks : irq_wake[t] => \E c \in Cpus : pc[c] = "enqueue" /\ hand[c] = t

(* No lost wakeup: a queued task sits in the queue of its own CPU's LLC,   *)
(* may run there, and that CPU is busy, about to reschedule, or locked by  *)
(* someone who has yet to finish with it -- never idle and unnotified.     *)
Attended(c) == curr[c] # NoTask \/ c \in resched \/ ~Unlocked(c)

NoLostWakeup ==
  /\ \A l \in Llcs : \A t \in dsq[l] :
       /\ cpu_llc_id[task_cpu[t]] = l
       /\ task_cpu[t] \in Allowed[t]
       /\ Attended(task_cpu[t])
  /\ \A c \in Cpus : local[c] # {} => Attended(c)

(* No CPU is forgotten: one that idles, with no reschedule on its way and  *)
(* no task about to be placed on it, is in the idle mask, the only place   *)
(* where select_cpu looks for it, even while an interrupt on it wakes      *)
(* tasks.  On a hybrid system it may be forgotten: the E-core that         *)
(* steering turned down stays claimed.                                     *)
Switching(c) == pc[c] \in DispatchSteps \cup {"pick", "requeue", "remark", "start"}

IdleCpuVisible ==
  big_cpu_mask = {} =>
    \A d \in Cpus : curr[d] = NoTask /\ ~Switching(d) =>
      \/ d \in idle \cup resched
      \/ \E c \in Cpus : pc[c] = "direct" /\ task_cpu[hand[c]] = d

(* A task only runs on a CPU of its affinity mask, whichever of placement, *)
(* pull and steal brought it there.                                        *)
AffinityRespected == \A c \in Cpus : curr[c] # NoTask => c \in Allowed[curr[c]]

(* Where a task is for its user.  Between the places of a wakeup or of a    *)
(* preemption it already waits, in the hand of a CPU; a blocked task in    *)
(* the hand of the CPU that switches away from it is already asleep.       *)
Runs(t)  == \E c \in Cpus : curr[c] = t
Waits(t) ==
  \/ \E l \in Llcs : t \in dsq[l]
  \/ \E c \in Cpus : t \in local[c] \/ (hand[c] = t /\ pc[c] \in {"direct", "enqueue", "requeue"})

StatusOf(t) == IF Runs(t) THEN "running" ELSE IF Waits(t) THEN "waiting" ELSE "asleep"

Promise == INSTANCE Sched WITH status <- [t \in Tasks |-> StatusOf(t)], cpu <- task_cpu

(* Wakeups, pulls, steals, kicks and preemptions of several CPUs, each in  *)
(* several steps, never do more to a task than a scheduler may: a waiting  *)
(* task stays in sight, moves only to a CPU it may use and starts only     *)
(* where nothing runs; a running task stays where it is.                   *)
ImplementsSched == Promise!SchedSpec

(* README, Queue Order: "A waiting task is not passed forever".            *)
WaitingTaskRuns == \A t \in Watched : Waits(t) ~> Runs(t)

(* README, Work Stealing: "An LLC's non-empty flag is cleared only when    *)
(* its queue is actually empty".                                           *)
ClearedOnlyWhenEmpty ==
  [][\A l \in Llcs : llc_nonempty[l] /\ ~llc_nonempty'[l] => dsq[l] = {}]_vars
=============================================================================
