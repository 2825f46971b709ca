----------------------------- MODULE DeadlineQueue -----------------------------
(***************************************************************************)
(* One LLC's dispatch queue: imperator_enqueue sorts it by tier_deadline,  *)
(* imperator_dispatch takes the first task of it that may run on the CPU.  *)
(* Which tier a wakeup is worth is in Imperator; here it is an input.      *)
(***************************************************************************)
EXTENDS Integers

CONSTANTS
  Cpus,               \* the CPUs that pull from the queue
  Tasks,
  Allowed,            \* Allowed[t]: the CPUs in p->cpus_ptr
  Budget,             \* Budget[k]: UNPACK_STARVATION_NS(tier_configs[k])
  new_flow_bonus_ns,  \* advance of a new flow, and of a lock holder
  MaxNow              \* bound on the clock

Tiers == 0 .. 3
CAKE_TIER_CRITICAL == 0

(* "Budgets increase with tier in every profile." *)
ASSUME BudgetAssumption ==
  /\ Budget \in [Tiers -> Nat]
  /\ \A j, k \in Tiers : j < k => Budget[j] < Budget[k]
ASSUME BonusAssumption == new_flow_bonus_ns \in Nat
ASSUME AffinityAssumption == Allowed \in [Tasks -> SUBSET Cpus]

VARIABLES
  now,  \* scx_bpf_now()
  dsq   \* the queue, one entry per queued task

vars == <<now, dsq>>

Saturating(a, b) == IF a > b THEN a - b ELSE 0

(* Mutant: the key of Gen 4, (tier << 56) | timestamp. *)
StrictPriority(t_now, tier, advance) == tier * 1000 + Saturating(t_now, advance)
(* Mutant: the advance is not capped below the gap to the next tier up. *)
UncappedAdvance(t_now, tier, advance) == Saturating(t_now + Budget[tier], advance)
(* Mutant: the subtraction does not saturate. *)
UnsaturatedDeadline(t_now, tier, advance) == t_now + Budget[tier] - advance
(* Mutant: the advance is computed and not used. *)
AdvanceIgnored(t_now, tier, advance) == t_now + Budget[tier]

(* What is left of an advance: T1-T3 stay behind a task of the tier above  *)
(* that arrives at the same time.  T0 has no tier above and no cap.        *)
CappedAdvance(tier, advance) ==
  IF tier = CAKE_TIER_CRITICAL THEN advance
  ELSE LET gap == Saturating(Budget[tier], Budget[tier - 1] + 1)
       IN IF advance > gap THEN gap ELSE advance

tier_deadline(t_now, tier, advance) ==
  Saturating(t_now + Budget[tier], CappedAdvance(tier, advance))

(* The sum of the two advances a wakeup may have earned: CAKE_FLOW_NEW and *)
(* CAKE_FLAG_LOCK_HOLDER.  Every other path into the queue has none.       *)
Advances == {0, new_flow_bonus_ns, new_flow_bonus_ns + new_flow_bonus_ns}

Entries == [task : Tasks, at : Nat, tier : Tiers, advance : Advances, vtime : Nat]

TypeOK == now \in Nat /\ dsq \subseteq Entries

Init == now = 0 /\ dsq = {}

(* Time passes between callbacks. *)
ClockAdvances == now < MaxNow /\ now' = now + 1 /\ UNCHANGED dsq

(* scx_bpf_dsq_insert_vtime at the end of imperator_enqueue. *)
Enqueue(t, tier, advance) ==
  /\ \A e \in dsq : e.task # t
  /\ dsq' = dsq \cup {[task |-> t, at |-> now, tier |-> tier, advance |-> advance,
                       vtime |-> tier_deadline(now, tier, advance)]}
  /\ UNCHANGED now

Eligible(c) == {e \in dsq : c \in Allowed[e.task]}

(* scx_bpf_dsq_move_to_local for CPU c: the earliest deadline among the    *)
(* tasks that may run there; the order of equal deadlines is left open.    *)
MoveToLocal(c) ==
  /\ \E e \in Eligible(c) :
       /\ \A f \in Eligible(c) : e.vtime <= f.vtime
       /\ dsq' = dsq \ {e}
  /\ UNCHANGED now

Next ==
  \/ ClockAdvances
  \/ \E t \in Tasks, tier \in Tiers, advance \in Advances : Enqueue(t, tier, advance)
  \/ \E c \in Cpus : MoveToLocal(c)

Spec == Init /\ [][Next]_vars
-----------------------------------------------------------------------------
(* Properties *)

(* Tasks that arrive together run in tier order, whatever advances the     *)
(* lower tier has collected (comment above tier_deadline).                 *)
SameTimeTierOrder ==
  \A e, f \in dsq : e.at = f.at /\ e.tier < f.tier => e.vtime < f.vtime

(* The cap below the tier above leaves something of an advance. *)
HasRoom(tier) == tier = CAKE_TIER_CRITICAL \/ Budget[tier] > Budget[tier - 1] + 1

(* An advance is worth something: a new flow or a lock holder runs before  *)
(* every plain task of its tier that did not arrive before it, those that  *)
(* arrived at the same time included.  Two things can take its worth: a    *)
(* gap of the budgets with no room, and a deadline that is 0 without it.   *)
AdvanceHelps ==
  \A e, f \in dsq :
    /\ e.tier = f.tier /\ e.at <= f.at
    /\ e.advance > 0 /\ f.advance = 0
    /\ HasRoom(e.tier) /\ f.vtime > 0
    => e.vtime < f.vtime

(* e passes f: a CPU takes e, every CPU that may run e may also run f, and *)
(* f stays in the queue.                                                   *)
Passes(e, f) ==
  /\ e \in dsq \ dsq'
  /\ f \in dsq \cap dsq'
  /\ Allowed[e.task] \subseteq Allowed[f.task]

(* No starvation: what arrives once a task has waited its own budget plus  *)
(* both advances cannot pass it any more, and below T0 its budget alone is *)
(* enough.                                                                 *)
LastPass(e, f) ==
  f.at + Budget[f.tier] - Budget[CAKE_TIER_CRITICAL]
    + (IF e.tier = CAKE_TIER_CRITICAL THEN e.advance ELSE -1)

BoundedOvertaking == [][\A e, f \in dsq : Passes(e, f) => e.at <= LastPass(e, f)]_vars
=============================================================================
