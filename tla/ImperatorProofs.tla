---------------------------- MODULE ImperatorProofs ----------------------------
(* Proofs about Imperator, for any CPUs, tasks, LLCs and affinities. *)
EXTENDS Imperator, FiniteSetTheorems, TLAPS

(* What a CPU has in hand at each step.  "pick" and ops.dispatch may have  *)
(* the blocked predecessor in hand, "start" too.                           *)
StepOK ==
  \A c \in Cpus :
    /\ pc[c] \in {"direct", "enqueue", "requeue"} => hand[c] \in Tasks
    /\ pc[c] \in {"user", "mark", "mark_kick", "pick_victim", "kick", "unlock", "remark"}
         => hand[c] = NoTask
    /\ pc[c] \in DispatchSteps \cup {"pick"} => curr[c] = NoTask \/ hand[c] = NoTask
    /\ pc[c] \in {"requeue", "remark", "start"} => curr[c] = NoTask
    /\ pc[c] \in {"mark", "mark_kick", "pick_victim", "kick", "unlock"} => rq[c] \in Cpus
    /\ pc[c] = "kick" => victim[c] \in Cpus

TypeInv == TypeOK /\ StepOK

(* A finite set has a member of least value: the smallest of the sets      *)
(* "members of no greater value than x" belongs to one.                    *)
LEMMA LeastImage ==
  ASSUME NEW S, IsFiniteSet(S), S # {}, NEW f \in [S -> Nat]
  PROVE  \E x \in S : \A y \in S : f[x] <= f[y]
<1> DEFINE upto(x) == {y \in S : f[y] <= f[x]}
           ups     == {upto(x) : x \in S}
<1>1. IsWellFoundedOn(StrictSubsetOrdering(S), SUBSET S)
  BY FS_StrictSubsetOrderingWellFounded, FS_FiniteSubsetsOfFinite
<1>2. ups \subseteq SUBSET S /\ ups # {}
  <2>1. PICK x \in S : TRUE
    OBVIOUS
  <2>2. upto(x) \in ups
    BY <2>1
  <2>3. \A y \in S : upto(y) \subseteq S
    OBVIOUS
  <2> QED BY <2>2, <2>3
<1>3. PICK u \in ups : \A v \in ups : ~(<<v, u>> \in StrictSubsetOrdering(S))
  <2> HIDE DEF ups
  <2> QED BY <1>1, <1>2, WFMin
<1>4. PICK x \in S : u = upto(x)
  BY <1>3
<1>5. ASSUME NEW y \in S, f[y] < f[x] PROVE FALSE
  <2>1. x \in upto(x) /\ x \notin upto(y)
    BY <1>5
  <2>2. upto(y) \subseteq upto(x)
    BY <1>5
  <2>3. <<upto(y), upto(x)>> \in StrictSubsetOrdering(S)
    BY <2>1, <2>2 DEF StrictSubsetOrdering
  <2> QED
    BY <1>3, <1>4, <2>3
<1> QED
  BY <1>5

LEMMA LowestMember ==
  ASSUME NEW S, S \subseteq Nat, IsFiniteSet(S), S # {}
  PROVE  Lowest(S) \in S
<1> DEFINE id == [i \in S |-> i]
<1>1. id \in [S -> Nat]
  OBVIOUS
<1>2. \E i \in S : \A j \in S : id[i] <= id[j]
  <2> HIDE DEF id
  <2> QED BY <1>1, LeastImage
<1> QED
  BY <1>2 DEF Lowest

LEMMA FiniteLlcs == Llcs \subseteq Nat /\ IsFiniteSet(Llcs)
BY LlcAssumption, FS_Interval DEF Llcs

LEMMA CheapestMember ==
  ASSUME NEW me \in Llcs, NEW mask, mask \subseteq Llcs, mask # {}
  PROVE  CheapestLlc(me, mask) \in mask
<1> DEFINE cost(l)  == llc_etd_cost[me][l]
           measured == {l \in mask : cost(l) > 0}
           best     == {l \in measured : \A m \in measured : cost(l) <= cost(m)}
           costOf   == [l \in measured |-> cost(l)]
<1>1. \A S \in SUBSET Llcs : S \subseteq Nat /\ IsFiniteSet(S)
  BY FiniteLlcs, FS_Subset
<1>2. CASE measured = {}
  BY <1>1, <1>2, LowestMember DEF CheapestLlc
<1>3. CASE measured # {}
  <2>1. costOf \in [measured -> Nat]
    BY CostAssumption
  <2>2. \E l \in measured : \A m \in measured : costOf[l] <= costOf[m]
    <3> IsFiniteSet(measured)
      BY <1>1
    <3> HIDE DEF measured, costOf
    <3> QED BY <1>3, <2>1, LeastImage
  <2>3. best # {}
    BY <2>2
  <2>4. Lowest(best) \in best
    <3> best \subseteq Nat /\ IsFiniteSet(best)
      BY <1>1
    <3> HIDE DEF best
    <3> QED BY <2>3, LowestMember
  <2> QED
    BY <1>3, <2>4 DEF CheapestLlc
<1> QED
  BY <1>2, <1>3
-----------------------------------------------------------------------------
LEMMA StoppingType ==
  ASSUME TypeOK, NEW c \in Cpus, NEW t \in Tasks, Stopping(c, t)
  PROVE  (tier \in [Tasks -> Tiers])' /\ (tier_cpu_mask \in [Tiers -> SUBSET Cpus])'
<1>1. CASE HasCtx(t) /\ stamped[t]
  <2>1. tier[t] \in Tiers
    BY DEF TypeOK
  <2>2. tier_cpu_mask[tier[t]] \ {c} \in SUBSET Cpus
    BY <2>1 DEF TypeOK
  <2>3. tier_cpu_mask' = [tier_cpu_mask EXCEPT ![tier[t]] = @ \ {c}]
    BY <1>1 DEF Stopping
  <2>4. PICK k \in BoutTiers \cup {tier[t]} : tier' = [tier EXCEPT ![t] = k]
    BY <1>1 DEF Stopping
  <2>5. k \in Tiers
    BY <2>1, <2>4, TaskAssumption
  <2>6. tier' \in [Tasks -> Tiers]
    BY <2>4, <2>5 DEF TypeOK
  <2>7. tier_cpu_mask' \in [Tiers -> SUBSET Cpus]
    BY <2>2, <2>3 DEF TypeOK
  <2> QED BY <2>6, <2>7
<1>2. CASE ~(HasCtx(t) /\ stamped[t])
  BY <1>2 DEF TypeOK, Stopping
<1> QED
  BY <1>1, <1>2

LEMMA StealFromType ==
  ASSUME TypeOK, NEW c \in Cpus, NEW mask \in SUBSET Llcs, NEW l,
         mask # {} => l \in mask, StealFrom(c, mask, l)
  PROVE  /\ (target \in [Cpus -> Llcs])' /\ (steal_mask \in [Cpus -> SUBSET Llcs])'
         /\ \E s \in {"pick", "move", "scan"} : pc' = [pc EXCEPT ![c] = s]
<1>1. CASE mask = {}
  <2>1. EndDispatch(c) /\ cpu_llc_id[c] \in Llcs
    BY <1>1, LlcAssumption DEF StealFrom
  <2>2. /\ target' = [target EXCEPT ![c] = cpu_llc_id[c]]
        /\ steal_mask' = [steal_mask EXCEPT ![c] = {}]
        /\ pc' = [pc EXCEPT ![c] = "pick"]
    BY <2>1 DEF EndDispatch, Goto
  <2> QED BY <2>1, <2>2 DEF TypeOK
<1>2. CASE mask # {}
  <2>1. l \in Llcs /\ mask \ {l} \in SUBSET Llcs
    BY <1>2
  <2>2. /\ target' = [target EXCEPT ![c] = l]
        /\ steal_mask' = [steal_mask EXCEPT ![c] = mask \ {l}]
        /\ pc' = [pc EXCEPT ![c] = "move"]
    BY <1>2 DEF StealFrom, Goto
  <2> QED
    BY <2>1, <2>2 DEF TypeOK
<1> QED
  BY <1>1, <1>2

LEMMA AfterFailureType ==
  ASSUME TypeOK, NEW c \in Cpus, AfterFailure(c)
  PROVE  /\ (target \in [Cpus -> Llcs])' /\ (steal_mask \in [Cpus -> SUBSET Llcs])'
         /\ \E s \in {"pick", "move", "scan"} : pc' = [pc EXCEPT ![c] = s]
<1>1. CASE target[c] = cpu_llc_id[c]
  BY <1>1, LlcAssumption DEF TypeOK, AfterFailure, EndDispatch, Goto
<1>2. CASE target[c] # cpu_llc_id[c]
  <2>1. steal_mask[c] \in SUBSET Llcs
    BY DEF TypeOK
  <2>2. steal_mask[c] # {} => Lowest(steal_mask[c]) \in steal_mask[c]
    BY <2>1, LowestMember, FiniteLlcs, FS_Subset
  <2> QED
    BY <1>2, <2>1, <2>2, StealFromType DEF AfterFailure
<1> QED
  BY <1>1, <1>2

(* With or without hybrid steering the CPU picked is one the task may use, *)
(* and no idle bit is set.                                                 *)
LEMMA SelectIdlePicks ==
  ASSUME TypeOK, NEW c \in Cpus, NEW t \in Tasks, SelectIdleCpu(c, t)
  PROVE  \E d \in Cpus : /\ d \in Allowed[t]
                         /\ task_cpu' = [task_cpu EXCEPT ![t] = d]
                         /\ idle' \subseteq idle
<1>1. PICK first \in DflPicks(c, t, idle) :
        \E pick \in Steered(c, t, first) : task_cpu' = [task_cpu EXCEPT ![t] = pick[1]] /\ idle' = pick[2]
  BY DEF SelectIdleCpu
<1>2. PICK pick \in Steered(c, t, first) : task_cpu' = [task_cpu EXCEPT ![t] = pick[1]] /\ idle' = pick[2]
  BY <1>1
<1>3. ASSUME NEW mask, NEW p \in DflPicks(c, t, mask) PROVE p[1] \in Allowed[t] /\ p[2] \subseteq mask
  BY <1>3 DEF DflPicks
<1>4. pick[1] \in Allowed[t] /\ pick[2] \subseteq idle
  <2>1. first[1] \in Allowed[t] /\ first[2] \subseteq idle
    BY <1>1, <1>3
  <2>2. pick = first \/ pick \in DflPicks(c, t, first[2])
    BY <1>2 DEF Steered
  <2> QED BY <1>3, <2>1, <2>2
<1> QED
  BY <1>2, <1>4, TaskAssumption

LEMMA TypeStep ==
  ASSUME TypeInv, [Next]_vars
  PROVE  TypeInv'
<1> USE NoneAssumption DEF TypeInv, kernelVars, mapVars, ctxVars, stepVars
<1>1. CASE UNCHANGED vars
  BY <1>1 DEF TypeOK, StepOK, vars
<1>2. ASSUME NEW c \in Cpus, NEW t \in Tasks, SelectIdleCpu(c, t) PROVE TypeInv'
  <2>1. task_cpu' \in [Tasks -> Cpus] /\ idle' \in SUBSET Cpus
    BY <1>2, SelectIdlePicks DEF TypeOK
  <2>2. TypeOK'
    BY <1>2, <2>1 DEF TypeOK, Steps, SelectIdleCpu, ConsumeIrqWake, Goto
  <2>3. StepOK'
    BY <1>2 DEF TypeOK, StepOK, DispatchSteps, SelectIdleCpu, ConsumeIrqWake, Goto
  <2> QED BY <2>2, <2>3
<1>3. ASSUME NEW c \in Cpus, NEW t \in Tasks, NEW irq \in BOOLEAN, SelectPrevCpu(c, t, irq) PROVE TypeInv'
  <2>1. TypeOK'
    BY <1>3 DEF TypeOK, StepOK, Steps, DispatchSteps, MarkSteps, SelectPrevCpu, Goto
  <2>2. StepOK'
    BY <1>3 DEF TypeOK, StepOK, DispatchSteps, SelectPrevCpu, Goto
  <2> QED BY <2>1, <2>2
<1>4. ASSUME NEW c \in Cpus, NEW t \in Tasks, WakePinned(c, t) PROVE TypeInv'
  <2>1. TypeOK'
    BY <1>4 DEF TypeOK, StepOK, Steps, DispatchSteps, MarkSteps, WakePinned, Goto
  <2>2. StepOK'
    BY <1>4 DEF TypeOK, StepOK, DispatchSteps, WakePinned, Goto
  <2> QED BY <2>1, <2>2
<1>5. ASSUME NEW c \in Cpus, DirectDispatch(c) PROVE TypeInv'
  <2>1. TypeOK'
    BY <1>5 DEF TypeOK, StepOK, Steps, DispatchSteps, MarkSteps, DirectDispatch, WakeIdleCpu, Goto
  <2>2. StepOK'
    BY <1>5 DEF TypeOK, StepOK, DispatchSteps, DirectDispatch, WakeIdleCpu, Goto
  <2> QED BY <2>1, <2>2
<1>6. ASSUME NEW c \in Cpus, Enqueue(c) PROVE TypeInv'
  <2> DEFINE t == hand[c]
  <2>1. TypeOK'
    <3>1. t \in Tasks /\ task_cpu[t] \in Cpus
      BY <1>6 DEF TypeOK, StepOK, Enqueue
    <3>2. enq_llc(c, t) \in Llcs
      BY <3>1, LlcAssumption DEF enq_llc
    <3>3. dsq' \in [Llcs -> SUBSET Tasks]
      BY <1>6, <3>1, <3>2 DEF TypeOK, Enqueue, Insert
    <3>4. rq' \in [Cpus -> Cpus \cup {NoCpu}] /\ irq_wake' \in [Tasks -> BOOLEAN]
      BY <1>6, <3>1 DEF TypeOK, Enqueue, Lock, ConsumeIrqWake
    <3>5. hand' \in [Cpus -> Tasks \cup {NoTask}]
      BY <1>6 DEF TypeOK, Enqueue
    <3>6. pc' \in [Cpus -> Steps]
      BY <1>6 DEF TypeOK, Enqueue, Goto, Steps, MarkSteps
    <3> QED BY <1>6, <3>3, <3>4, <3>5, <3>6 DEF TypeOK, Enqueue
  <2>2. StepOK'
    BY <1>6, LlcAssumption DEF TypeOK, StepOK, DispatchSteps, Enqueue, Lock, ConsumeIrqWake, Insert, enq_llc, Goto
  <2> QED BY <2>1, <2>2
<1>7. ASSUME NEW c \in Cpus, MarkNonempty(c) PROVE TypeInv'
  <2>1. TypeOK'
    BY <1>7 DEF TypeOK, StepOK, Steps, DispatchSteps, MarkSteps, MarkNonempty, Goto
  <2>2. StepOK'
    BY <1>7 DEF TypeOK, StepOK, DispatchSteps, MarkNonempty, Goto, MarkSteps
  <2> QED BY <2>1, <2>2
<1>8. ASSUME NEW c \in Cpus, PickVictim(c) PROVE TypeInv'
  <2> DEFINE running(k) == {d \in tier_cpu_mask[k] : cpu_llc_id[d] = cpu_llc_id[rq[c]]}
             prey == IF running(CAKE_TIER_BULK) # {} THEN running(CAKE_TIER_BULK)
                     ELSE running(CAKE_TIER_FRAME)
  <2>1. prey \subseteq Cpus
    BY DEF TypeOK, Tiers, CAKE_TIER_BULK, CAKE_TIER_FRAME
  <2>2. prey # {} => Lowest(prey) \in Cpus
    <3> HIDE DEF prey
    <3> QED BY <2>1, CpuAssumption, FS_Subset, LowestMember
  <2>3. /\ pc[c] = "pick_victim"
        /\ victim' = [victim EXCEPT ![c] = IF prey = {} THEN NoCpu ELSE Lowest(prey)]
        /\ pc' = [pc EXCEPT ![c] = IF prey = {} THEN "unlock" ELSE "kick"]
        /\ UNCHANGED <<kernelVars, mapVars, ctxVars, hand, target, steal_mask>>
    BY <1>8 DEF PickVictim, Goto
  <2> HIDE DEF prey
  <2>4. TypeOK'
    BY <2>2, <2>3 DEF TypeOK, Steps
  <2>5. StepOK'
    BY <2>2, <2>3 DEF TypeOK, StepOK, DispatchSteps
  <2> QED BY <2>4, <2>5
<1>9. ASSUME NEW c \in Cpus, KickVictim(c) PROVE TypeInv'
  <2>1. TypeOK'
    BY <1>9 DEF TypeOK, StepOK, Steps, DispatchSteps, MarkSteps, KickVictim, Goto
  <2>2. StepOK'
    BY <1>9 DEF TypeOK, StepOK, DispatchSteps, KickVictim, Goto
  <2> QED BY <2>1, <2>2
<1>10. ASSUME NEW c \in Cpus, EnqueueEnd(c) PROVE TypeInv'
  <2>1. TypeOK'
    BY <1>10 DEF TypeOK, StepOK, Steps, DispatchSteps, MarkSteps, EnqueueEnd, WakeIdleCpu, Unlock, Goto
  <2>2. StepOK'
    BY <1>10 DEF TypeOK, StepOK, DispatchSteps, EnqueueEnd, WakeIdleCpu, Unlock, Goto
  <2> QED BY <2>1, <2>2
<1>11. ASSUME NEW c \in Cpus, DeliverKick(c) PROVE TypeInv'
  <2>1. TypeOK'
    BY <1>11 DEF TypeOK, StepOK, Steps, DispatchSteps, MarkSteps, DeliverKick
  <2>2. StepOK'
    BY <1>11 DEF TypeOK, StepOK, DispatchSteps, DeliverKick
  <2> QED BY <2>1, <2>2
<1>12. ASSUME NEW c \in Cpus, NEW over \in BOOLEAN, NEW starved \in BOOLEAN, Tick(c, over, starved) PROVE TypeInv'
  <2>1. /\ stamped' \in [Tasks -> BOOLEAN]
        /\ mega_mailbox' \in [Cpus -> Tiers \cup {NoTier}]
        /\ resched' \in SUBSET Cpus
    <3>1. curr[c] \in Tasks /\ tier[curr[c]] \in Tiers
      BY <1>12 DEF TypeOK, Tick
    <3>2. CASE stamped[curr[c]]
      BY <1>12, <3>1, <3>2 DEF TypeOK, Tick
    <3>3. CASE ~stamped[curr[c]]
      BY <1>12, <3>1, <3>3 DEF TypeOK, Tick
    <3> QED
      BY <3>2, <3>3
  <2>2. TypeOK'
    BY <1>12, <2>1 DEF TypeOK, Tick
  <2>3. StepOK'
    BY <1>12 DEF TypeOK, StepOK, DispatchSteps, Tick
  <2> QED BY <2>2, <2>3
<1>13. ASSUME NEW c \in Cpus, SliceExpired(c) PROVE TypeInv'
  <2>1. TypeOK'
    BY <1>13 DEF TypeOK, StepOK, Steps, DispatchSteps, MarkSteps, SliceExpired
  <2>2. StepOK'
    BY <1>13 DEF TypeOK, StepOK, DispatchSteps, SliceExpired
  <2> QED BY <2>1, <2>2
<1>14. ASSUME NEW c \in Cpus, Block(c) PROVE TypeInv'
  <2>1. TypeOK'
    BY <1>14, StoppingType DEF TypeOK, StepOK, Steps, DispatchSteps, MarkSteps, Block, BeginDispatch, Lock, Goto
  <2>2. StepOK'
    BY <1>14, StoppingType DEF TypeOK, StepOK, DispatchSteps, Block, BeginDispatch, Lock, Goto
  <2> QED BY <2>1, <2>2
<1>15. ASSUME NEW c \in Cpus, Schedule(c) PROVE TypeInv'
  <2>1. TypeOK'
    BY <1>15 DEF TypeOK, StepOK, Steps, DispatchSteps, MarkSteps, Schedule, BeginDispatch, Lock, Goto
  <2>2. StepOK'
    BY <1>15 DEF TypeOK, StepOK, DispatchSteps, Schedule, BeginDispatch, Lock, Goto
  <2> QED BY <2>1, <2>2
<1>16. ASSUME NEW c \in Cpus, MoveToLocal(c) PROVE TypeInv'
  <2>1. PICK t \in Eligible(c, target[c]) :
          /\ dsq' = [dsq EXCEPT ![target[c]] = @ \ {t}]
          /\ local' = [local EXCEPT ![c] = @ \cup {t}]
          /\ task_cpu' = [task_cpu EXCEPT ![t] = c]
    BY <1>16 DEF MoveToLocal
  <2>2. t \in Tasks
    BY DEF TypeOK, Eligible
  <2>3. (dsq \in [Llcs -> SUBSET Tasks])' /\ (local \in [Cpus -> SUBSET Tasks])'
    BY <2>1, <2>2 DEF TypeOK
  <2>4. TypeOK'
    BY <1>16, <2>1, <2>2, <2>3, LlcAssumption
       DEF TypeOK, Steps, DispatchSteps, MoveToLocal, EndDispatch, Goto
  <2>5. StepOK'
    BY <1>16 DEF TypeOK, StepOK, DispatchSteps, MoveToLocal, EndDispatch, Goto
  <2> QED BY <2>4, <2>5
<1>17. ASSUME NEW c \in Cpus, MoveFails(c) PROVE TypeInv'
  <2>1. TypeOK'
    BY <1>17 DEF TypeOK, StepOK, Steps, DispatchSteps, MarkSteps, MoveFails, Goto
  <2>2. StepOK'
    BY <1>17 DEF TypeOK, StepOK, DispatchSteps, MoveFails, Goto
  <2> QED BY <2>1, <2>2
<1>18. ASSUME NEW c \in Cpus, CountQueued(c) PROVE TypeInv'
  <2>1. /\ (target \in [Cpus -> Llcs])' /\ (steal_mask \in [Cpus -> SUBSET Llcs])'
        /\ \E s \in {"pick", "move", "scan", "clear"} : pc' = [pc EXCEPT ![c] = s]
    <3>1. CASE dsq[target[c]] = {}
      BY <1>18, <3>1 DEF TypeOK, CountQueued, Goto
    <3>2. CASE dsq[target[c]] # {}
      BY <1>18, <3>2, AfterFailureType DEF CountQueued
    <3> QED
      BY <3>1, <3>2
  <2>2. TypeOK'
    BY <1>18, <2>1 DEF TypeOK, Steps, DispatchSteps, CountQueued
  <2>3. StepOK'
    BY <1>18, <2>1 DEF TypeOK, StepOK, DispatchSteps, CountQueued
  <2> QED BY <2>2, <2>3
<1>19. ASSUME NEW c \in Cpus, ClearNonempty(c) PROVE TypeInv'
  <2>1. TypeOK'
    <3>1. llc_nonempty' \in [Llcs -> BOOLEAN] /\ AfterFailure(c)
      BY <1>19 DEF TypeOK, ClearNonempty
    <3>2. /\ target' \in [Cpus -> Llcs] /\ steal_mask' \in [Cpus -> SUBSET Llcs]
          /\ \E s \in {"pick", "move", "scan"} : pc' = [pc EXCEPT ![c] = s]
      BY <1>19, <3>1, AfterFailureType DEF ClearNonempty
    <3>3. pc' \in [Cpus -> Steps]
      BY <3>2 DEF TypeOK, Steps, DispatchSteps
    <3> QED BY <1>19, <3>1, <3>2, <3>3 DEF TypeOK, ClearNonempty
  <2>2. StepOK'
    BY <1>19, AfterFailureType DEF TypeOK, StepOK, DispatchSteps, ClearNonempty
  <2> QED BY <2>1, <2>2
<1>20. ASSUME NEW c \in Cpus, ScanFlags(c) PROVE TypeInv'
  <2> DEFINE me   == cpu_llc_id[c]
             mask == {l \in Llcs \ {me} : llc_nonempty[l]}
  <2>1. mask # {} => CheapestLlc(me, mask) \in mask
    <3> me \in Llcs
      BY LlcAssumption
    <3> mask \subseteq Llcs
      OBVIOUS
    <3> HIDE DEF mask
    <3> QED BY CheapestMember
  <2>2. StealFrom(c, mask, CheapestLlc(me, mask))
    BY <1>20 DEF ScanFlags
  <2>3. /\ (target \in [Cpus -> Llcs])' /\ (steal_mask \in [Cpus -> SUBSET Llcs])'
        /\ \E s \in {"pick", "move", "scan"} : pc' = [pc EXCEPT ![c] = s]
    <3> mask \in SUBSET Llcs
      OBVIOUS
    <3> HIDE DEF mask
    <3> QED BY <2>1, <2>2, StealFromType
  <2>4. TypeOK'
    BY <1>20, <2>3 DEF TypeOK, Steps, DispatchSteps, ScanFlags
  <2>5. StepOK'
    BY <1>20, <2>3 DEF TypeOK, StepOK, DispatchSteps, ScanFlags
  <2> QED BY <2>4, <2>5
<1>21. ASSUME NEW c \in Cpus, KeepOrIdle(c) PROVE TypeInv'
  <2>1. TypeOK'
    BY <1>21 DEF TypeOK, StepOK, Steps, DispatchSteps, MarkSteps, KeepOrIdle, Unlock, Goto
  <2>2. StepOK'
    BY <1>21 DEF TypeOK, StepOK, DispatchSteps, KeepOrIdle, Unlock, Goto
  <2> QED BY <2>1, <2>2
<1>22. ASSUME NEW c \in Cpus, PutPrev(c) PROVE TypeInv'
  <2>1. TypeOK'
    <3>1. tier' \in [Tasks -> Tiers] /\ tier_cpu_mask' \in [Tiers -> SUBSET Cpus]
      <4>1. CASE curr[c] = NoTask
        BY <1>22, <4>1 DEF TypeOK, PutPrev
      <4>2. CASE curr[c] # NoTask
        <5>1. curr[c] \in Tasks /\ Stopping(c, curr[c])
          BY <1>22, <4>2 DEF TypeOK, PutPrev
        <5> QED BY <5>1, StoppingType
      <4> QED BY <4>1, <4>2
    <3>2. curr' \in [Cpus -> Tasks \cup {NoTask}] /\ hand' \in [Cpus -> Tasks \cup {NoTask}]
      BY <1>22 DEF TypeOK, PutPrev
    <3>3. pc' \in [Cpus -> Steps]
      <4>1. pc' = [pc EXCEPT ![c] = "start"] \/ pc' = [pc EXCEPT ![c] = "requeue"]
        BY <1>22 DEF PutPrev, Goto
      <4> QED BY <4>1 DEF TypeOK, Steps
    <3> QED BY <1>22, <3>1, <3>2, <3>3 DEF TypeOK, PutPrev
  <2>2. StepOK'
    BY <1>22, StoppingType DEF TypeOK, StepOK, DispatchSteps, PutPrev, Goto
  <2> QED BY <2>1, <2>2
<1>23. ASSUME NEW c \in Cpus, Requeue(c) PROVE TypeInv'
  <2>1. TypeOK'
    <3>1. hand[c] \in Tasks /\ cpu_llc_id[c] \in Llcs
      BY <1>23, LlcAssumption DEF TypeOK, StepOK, Requeue
    <3>2. dsq' \in [Llcs -> SUBSET Tasks] /\ hand' \in [Cpus -> Tasks \cup {NoTask}]
      BY <1>23, <3>1 DEF TypeOK, Requeue, Insert
    <3>3. pc' \in [Cpus -> Steps]
      BY <1>23 DEF TypeOK, Requeue, Goto, Steps, MarkSteps
    <3> QED BY <1>23, <3>2, <3>3 DEF TypeOK, Requeue, kernelVars, ctxVars
  <2>2. StepOK'
    BY <1>23, LlcAssumption DEF TypeOK, StepOK, DispatchSteps, Requeue, Insert, Goto
  <2> QED BY <2>1, <2>2
<1>24. ASSUME NEW c \in Cpus, Running(c) PROVE TypeInv'
  <2>1. PICK t \in local[c] :
          /\ local' = [local EXCEPT ![c] = @ \ {t}]
          /\ curr' = [curr EXCEPT ![c] = t]
          /\ IF HasCtx(t)
             THEN /\ \E z \in {FALSE, ZeroStamp} : stamped' = [stamped EXCEPT ![t] = ~z]
                  /\ Publish(c, t)
             ELSE UNCHANGED <<stamped, mega_mailbox, tier_cpu_mask>>
    BY <1>24 DEF Running
  <2>2. t \in Tasks /\ tier[t] \in Tiers
    BY DEF TypeOK
  <2>3. /\ (stamped \in [Tasks -> BOOLEAN])'
        /\ (mega_mailbox \in [Cpus -> Tiers \cup {NoTier}])'
        /\ (tier_cpu_mask \in [Tiers -> SUBSET Cpus])'
    <3>1. CASE HasCtx(t)
      <4>1. PICK z \in {FALSE, ZeroStamp} : stamped' = [stamped EXCEPT ![t] = ~z]
        BY <2>1, <3>1
      <4>2. (stamped \in [Tasks -> BOOLEAN])'
        BY <4>1 DEF TypeOK
      <4>3. /\ tier_cpu_mask' = [tier_cpu_mask EXCEPT ![tier[t]] = @ \cup {c}]
            /\ mega_mailbox' = [mega_mailbox EXCEPT ![c] = tier[t]]
        BY <2>1, <3>1 DEF Publish
      <4>4. tier_cpu_mask[tier[t]] \cup {c} \in SUBSET Cpus
        BY <2>2 DEF TypeOK
      <4> QED
        BY <2>2, <4>2, <4>3, <4>4 DEF TypeOK
    <3>2. CASE ~HasCtx(t)
      BY <2>1, <3>2 DEF TypeOK
    <3> QED
      BY <3>1, <3>2
  <2>4. (local \in [Cpus -> SUBSET Tasks])' /\ (curr \in [Cpus -> Tasks \cup {NoTask}])'
    BY <2>1, <2>2 DEF TypeOK
  <2>5. TypeOK'
    BY <1>24, <2>3, <2>4 DEF TypeOK, Steps, Running, Unlock, Goto
  <2>6. StepOK'
    BY <1>24 DEF TypeOK, StepOK, DispatchSteps, Running, Unlock, Goto
  <2> QED BY <2>5, <2>6
<1> QED
  BY <1>1, <1>2, <1>3, <1>4, <1>5, <1>6, <1>7, <1>8, <1>9, <1>10, <1>11, <1>12, <1>13, <1>14, <1>15, <1>16, <1>17, <1>18, <1>19, <1>20, <1>21, <1>22, <1>23, <1>24
     DEF Next, Wakeup, EnqueueStep, DispatchStep

LEMMA TypeInit == Init => TypeInv
<1> SUFFICES ASSUME Init PROVE TypeInv
  OBVIOUS
<1>1. tier \in [Tasks -> Tiers]
  <2>1. SeedTiers \cup {CAKE_TIER_BULK} \subseteq Tiers
    BY TaskAssumption DEF Tiers, CAKE_TIER_CRITICAL, CAKE_TIER_INTERACT, CAKE_TIER_BULK
  <2>2. tier \in [Tasks -> SeedTiers \cup {CAKE_TIER_BULK}]
    BY DEF Init
  <2> QED
    BY <2>1, <2>2
<1>2. TypeOK
  BY <1>1, LlcAssumption DEF Init, TypeOK, Steps
<1>3. StepOK
  BY DEF Init, StepOK, DispatchSteps
<1> QED
  BY <1>2, <1>3 DEF TypeInv

THEOREM TypeInvariance == Spec => []TypeInv
BY TypeInit, TypeStep, PTL DEF Spec

(* Every variable keeps its type in every behaviour, so no callback indexes *)
(* a per-CPU, per-LLC or per-tier map outside its bounds -- the steal scan, *)
(* which picks its LLC from a mask and a cost row, included.               *)
THEOREM TypeCorrect == Spec => []TypeOK
BY TypeInvariance, PTL DEF TypeInv
=============================================================================
