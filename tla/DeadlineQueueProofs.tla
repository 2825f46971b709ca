--------------------------- MODULE DeadlineQueueProofs ---------------------------
(* Proofs about DeadlineQueue, for any budgets that increase with the tier. *)
EXTENDS DeadlineQueue, TLAPS

(* Every entry's key is the deadline of its own arrival. *)
Keyed == \A e \in dsq : e.vtime = tier_deadline(e.at, e.tier, e.advance)

Inv == TypeOK /\ Keyed

(* What tier_deadline returns: never later than the budget, and how much   *)
(* earlier an advance can make it.                                         *)
LEMMA DeadlineBounds ==
  ASSUME NEW t_now \in Nat, NEW k \in Tiers, NEW advance \in Nat
  PROVE  /\ tier_deadline(t_now, k, advance) \in Nat
         /\ tier_deadline(t_now, k, advance) <= t_now + Budget[k]
         /\ advance = 0 => tier_deadline(t_now, k, advance) = t_now + Budget[k]
         /\ k # 0 => tier_deadline(t_now, k, advance) >= t_now + Budget[k - 1] + 1
         /\ k = 0 => tier_deadline(t_now, k, advance) >= t_now + Budget[0] - advance
<1>1. Budget[k] \in Nat
  BY BudgetAssumption
<1>2. CASE k = 0
  BY <1>1, <1>2 DEF tier_deadline, CappedAdvance, Saturating, CAKE_TIER_CRITICAL
<1>3. CASE k # 0
  <2>1. k - 1 \in Tiers /\ k - 1 < k
    BY <1>3 DEF Tiers
  <2>2. Budget[k - 1] \in Nat /\ Budget[k - 1] < Budget[k]
    BY <2>1, BudgetAssumption
  <2> QED
    BY <1>1, <1>3, <2>2 DEF tier_deadline, CappedAdvance, Saturating, CAKE_TIER_CRITICAL
<1> QED
  BY <1>2, <1>3

LEMMA AdvancesNat == Advances \subseteq Nat
  BY BonusAssumption DEF Advances

(* T0's budget is the least. *)
LEMMA CriticalIsLeast ==
  ASSUME NEW k \in Tiers
  PROVE  Budget[k] \in Nat /\ Budget[0] \in Nat /\ Budget[0] <= Budget[k]
BY BudgetAssumption DEF Tiers

LEMMA Inductive == Inv /\ [Next]_vars => Inv'
<1> SUFFICES ASSUME Inv, [Next]_vars PROVE Inv'
  OBVIOUS
<1> USE DEF Inv, TypeOK, Keyed
<1>1. CASE ClockAdvances
  BY <1>1 DEF ClockAdvances
<1>2. ASSUME NEW t \in Tasks, NEW tier \in Tiers, NEW advance \in Advances,
             Enqueue(t, tier, advance)
      PROVE  Inv'
  <2>1. tier_deadline(now, tier, advance) \in Nat
    BY DeadlineBounds, AdvancesNat
  <2> DEFINE entry == [task |-> t, at |-> now, tier |-> tier, advance |-> advance,
                       vtime |-> tier_deadline(now, tier, advance)]
  <2>2. entry \in Entries
    BY <2>1 DEF Entries
  <2>3. entry.vtime = tier_deadline(entry.at, entry.tier, entry.advance)
    OBVIOUS
  <2>4. dsq' = dsq \cup {entry} /\ now' = now
    BY <1>2 DEF Enqueue
  <2> QED
    BY <2>2, <2>3, <2>4
<1>3. ASSUME NEW c \in Cpus, MoveToLocal(c)
      PROVE  Inv'
  BY <1>3 DEF MoveToLocal
<1>4. CASE UNCHANGED vars
  BY <1>4 DEF vars
<1> QED
  BY <1>1, <1>2, <1>3, <1>4 DEF Next

(* The queue's entries keep their types and their keys. *)
THEOREM Invariance == Spec => []Inv
<1>1. Init => Inv
  BY DEF Init, Inv, TypeOK, Keyed
<1> QED
  BY <1>1, Inductive, PTL DEF Spec

(* TypeOK holds of every reachable queue. *)
THEOREM TypeCorrect == Spec => []TypeOK
  BY Invariance, PTL DEF Inv

(* The bounds above, for the key of a queued task. *)
LEMMA KeyBounds ==
  ASSUME Inv, NEW e \in dsq
  PROVE  /\ e.at \in Nat /\ e.tier \in Tiers /\ e.advance \in Nat /\ e.vtime \in Nat
         /\ e.vtime <= e.at + Budget[e.tier]
         /\ e.advance = 0 => e.vtime = e.at + Budget[e.tier]
         /\ e.tier # 0 => e.vtime >= e.at + Budget[e.tier - 1] + 1
         /\ e.tier = 0 => e.vtime >= e.at + Budget[0] - e.advance
<1>1. e.at \in Nat /\ e.tier \in Tiers /\ e.advance \in Nat
  BY AdvancesNat DEF Inv, TypeOK, Entries
<1>2. e.vtime = tier_deadline(e.at, e.tier, e.advance)
  BY DEF Inv, Keyed
<1> DEFINE at == e.at
           k == e.tier
           advance == e.advance
<1>3. at \in Nat /\ k \in Tiers /\ advance \in Nat
  BY <1>1
<1> HIDE DEF at, k, advance
<1>4. /\ tier_deadline(at, k, advance) \in Nat
      /\ tier_deadline(at, k, advance) <= at + Budget[k]
      /\ advance = 0 => tier_deadline(at, k, advance) = at + Budget[k]
      /\ k # 0 => tier_deadline(at, k, advance) >= at + Budget[k - 1] + 1
      /\ k = 0 => tier_deadline(at, k, advance) >= at + Budget[0] - advance
  BY <1>3, DeadlineBounds
<1> QED
  BY <1>1, <1>2, <1>4 DEF at, k, advance

LEMMA SameTimeFromKeys == Inv => SameTimeTierOrder
<1> SUFFICES ASSUME Inv, NEW e \in dsq, NEW f \in dsq, e.at = f.at, e.tier < f.tier
             PROVE  e.vtime < f.vtime
  BY DEF SameTimeTierOrder
<1>1. /\ e.at \in Nat /\ e.tier \in Tiers /\ e.advance \in Nat
      /\ f.at \in Nat /\ f.tier \in Tiers /\ f.advance \in Nat
  BY KeyBounds
<1>2. e.vtime <= e.at + Budget[e.tier] /\ e.vtime \in Nat
  BY KeyBounds
<1>3. f.tier # 0 /\ f.tier - 1 \in Tiers /\ e.tier <= f.tier - 1
  BY <1>1 DEF Tiers
<1>4. f.vtime >= f.at + Budget[f.tier - 1] + 1 /\ f.vtime \in Nat
  BY <1>3, KeyBounds
<1>5. /\ Budget[e.tier] \in Nat /\ Budget[f.tier - 1] \in Nat
      /\ Budget[e.tier] <= Budget[f.tier - 1]
  BY <1>1, <1>3, BudgetAssumption DEF Tiers
<1> QED
  BY <1>1, <1>2, <1>4, <1>5

(* Tasks that arrive together are keyed in tier order, whatever advance    *)
(* tier_deadline was given.                                                *)
THEOREM TierOrder == Spec => []SameTimeTierOrder
  BY Invariance, SameTimeFromKeys, PTL

(* Where the cap leaves room, an advance brings a deadline forward that is *)
(* not 0 already.                                                          *)
LEMMA AdvanceGains ==
  ASSUME NEW t_now \in Nat, NEW k \in Tiers, NEW advance \in Nat,
         advance > 0, HasRoom(k), t_now + Budget[k] > 0
  PROVE  tier_deadline(t_now, k, advance) < t_now + Budget[k]
<1>1. Budget[k] \in Nat
  BY BudgetAssumption
<1>2. CappedAdvance(k, advance) \in Nat /\ CappedAdvance(k, advance) > 0
  <2>1. CASE k = 0
    BY <2>1 DEF CappedAdvance, CAKE_TIER_CRITICAL
  <2>2. CASE k # 0
    <3>1. k - 1 \in Tiers
      BY <2>2 DEF Tiers
    <3>2. Budget[k - 1] \in Nat /\ Budget[k] > Budget[k - 1] + 1
      BY <2>2, <3>1, BudgetAssumption DEF HasRoom, CAKE_TIER_CRITICAL
    <3> QED
      BY <1>1, <2>2, <3>2 DEF CappedAdvance, Saturating, CAKE_TIER_CRITICAL
  <2> QED
    BY <2>1, <2>2
<1> DEFINE worth == CappedAdvance(k, advance)
<1>3. tier_deadline(t_now, k, advance) = Saturating(t_now + Budget[k], worth)
  BY DEF tier_deadline
<1> HIDE DEF worth
<1>4. worth \in Nat /\ worth > 0
  BY <1>2 DEF worth
<1> QED
  BY <1>1, <1>3, <1>4 DEF Saturating

LEMMA AdvanceFromKeys == Inv => AdvanceHelps
<1> SUFFICES ASSUME Inv, NEW e \in dsq, NEW f \in dsq,
                    e.tier = f.tier, e.at <= f.at, e.advance > 0, f.advance = 0,
                    HasRoom(e.tier), f.vtime > 0
             PROVE  e.vtime < f.vtime
  BY DEF AdvanceHelps
<1>1. /\ e.at \in Nat /\ e.tier \in Tiers /\ e.advance \in Nat
      /\ f.at \in Nat /\ e.vtime \in Nat /\ f.vtime \in Nat
  BY KeyBounds
<1>2. Budget[e.tier] \in Nat
  BY <1>1, CriticalIsLeast
<1>3. f.vtime = f.at + Budget[e.tier]
  BY KeyBounds
<1>4. e.vtime <= e.at + Budget[e.tier]
  BY KeyBounds
<1>5. CASE e.at + Budget[e.tier] > 0
  <2>1. e.vtime = tier_deadline(e.at, e.tier, e.advance)
    BY DEF Inv, Keyed
  <2>2. e.vtime < e.at + Budget[e.tier]
    BY <1>1, <1>5, <2>1, AdvanceGains
  <2> QED
    BY <1>1, <1>2, <1>3, <2>2
<1>6. CASE ~(e.at + Budget[e.tier] > 0)
  BY <1>1, <1>2, <1>4, <1>6
<1> QED
  BY <1>5, <1>6

(* Whatever the budgets and the bonus: a new flow or a lock holder is keyed *)
(* strictly before every plain task of its tier that came no earlier,      *)
(* unless the cap leaves no room or the plain key is 0 as it is.           *)
THEOREM AdvanceOrder == Spec => []AdvanceHelps
  BY Invariance, AdvanceFromKeys, PTL

(* What a pull takes has the least key of what it could have taken. *)
LEMMA PassesByKey ==
  ASSUME Inv, Next, NEW e \in dsq, NEW f \in dsq, Passes(e, f)
  PROVE  e.vtime <= f.vtime
<1>1. e \notin dsq' /\ f \in dsq /\ Allowed[e.task] \subseteq Allowed[f.task]
  BY DEF Passes
<1>2. ~ClockAdvances
  BY <1>1 DEF ClockAdvances
<1>3. ASSUME NEW t \in Tasks, NEW tier \in Tiers, NEW advance \in Advances,
             Enqueue(t, tier, advance)
      PROVE  FALSE
  BY <1>1, <1>3 DEF Enqueue
<1>4. PICK c \in Cpus : MoveToLocal(c)
  BY <1>2, <1>3 DEF Next
<1>5. PICK x \in Eligible(c) : /\ \A y \in Eligible(c) : x.vtime <= y.vtime
                               /\ dsq' = dsq \ {x}
  BY <1>4 DEF MoveToLocal
<1>6. x = e
  BY <1>1, <1>5
<1>7. f \in Eligible(c)
  BY <1>1, <1>5, <1>6 DEF Eligible
<1> QED
  BY <1>5, <1>6, <1>7

LEMMA OvertakingFromKeys ==
  ASSUME Inv, [Next]_vars
  PROVE  [\A e, f \in dsq : Passes(e, f) => e.at <= LastPass(e, f)]_vars
<1> SUFFICES ASSUME Next, NEW e \in dsq, NEW f \in dsq, Passes(e, f)
             PROVE  e.at <= LastPass(e, f)
  OBVIOUS
<1>1. /\ e.at \in Nat /\ e.tier \in Tiers /\ e.advance \in Nat
      /\ f.at \in Nat /\ f.tier \in Tiers /\ f.advance \in Nat
  BY KeyBounds
<1>2. e.vtime <= f.vtime
  BY PassesByKey
<1>3. f.vtime <= f.at + Budget[f.tier] /\ f.vtime \in Nat
  BY KeyBounds
<1>4. Budget[f.tier] \in Nat /\ Budget[0] \in Nat
  BY <1>1, CriticalIsLeast
<1>5. CASE e.tier = 0
  <2>1. e.vtime >= e.at + Budget[0] - e.advance /\ e.vtime \in Nat
    BY <1>5, KeyBounds
  <2> QED
    BY <1>1, <1>2, <1>3, <1>4, <1>5, <2>1 DEF LastPass, CAKE_TIER_CRITICAL
<1>6. CASE e.tier # 0
  <2>1. e.tier - 1 \in Tiers
    BY <1>1, <1>6 DEF Tiers
  <2>2. Budget[e.tier - 1] \in Nat /\ Budget[0] <= Budget[e.tier - 1]
    BY <2>1, CriticalIsLeast
  <2>3. e.vtime >= e.at + Budget[e.tier - 1] + 1 /\ e.vtime \in Nat
    BY <1>6, KeyBounds
  <2> QED
    BY <1>1, <1>2, <1>3, <1>4, <1>6, <2>2, <2>3 DEF LastPass, CAKE_TIER_CRITICAL
<1> QED
  BY <1>5, <1>6

(* Bounded waiting: once a queued task has waited its own budget (plus, for *)
(* T0, the advance), no arrival can be pulled ahead of it.                  *)
THEOREM NoStarvation == Spec => BoundedOvertaking
  BY Invariance, OvertakingFromKeys, PTL DEF Spec, BoundedOvertaking
================================================================================
