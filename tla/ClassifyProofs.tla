---------------------------- MODULE ClassifyProofs ----------------------------
(***************************************************************************)
(* Proofs about Classify, for any gates, periods, widths and bouts: the    *)
(* 16-bit fields never overflow, a stable tier agrees with its average,    *)
(* the new-flow bonus ends within the recheck period, and finished bursts  *)
(* take the average towards their tier.                                    *)
(***************************************************************************)
EXTENDS Classify, TLAPS

(* What the arithmetic of the gates gives: they are ordered, and promotion *)
(* takes less than the gate.                                               *)
LEMMA GateFacts ==
  /\ TIER_GATE[0] \in Nat \ {0} /\ TIER_GATE[1] \in Nat \ {0} /\ TIER_GATE[2] \in Nat \ {0}
  /\ TIER_GATE[0] < TIER_GATE[1] /\ TIER_GATE[1] < TIER_GATE[2] /\ TIER_GATE[2] < U16Max
  /\ Promotion(0) \in Nat /\ Promotion(1) \in Nat /\ Promotion(2) \in Nat
  /\ Promotion(0) <= TIER_GATE[0] /\ Promotion(1) <= TIER_GATE[1] /\ Promotion(2) <= TIER_GATE[2]
<1>1. /\ TIER_GATE[0] \in Nat \ {0} /\ TIER_GATE[1] \in Nat \ {0} /\ TIER_GATE[2] \in Nat \ {0}
      /\ TIER_GATE[0] < TIER_GATE[1] /\ TIER_GATE[1] < TIER_GATE[2] /\ TIER_GATE[2] < U16Max
  BY GateAssumption
<1>2. ASSUME NEW g \in Nat
      PROVE  g - g \div 10 \in Nat /\ g - g \div 10 <= g
  OBVIOUS
<1>3. QED
  BY <1>1, <1>2 DEF Promotion

(* The gates name a tier. *)
LEMMA GateTierType ==
  ASSUME NEW a, NEW t
  PROVE  GateTier(a, t) \in Tiers
BY DEF GateTier, Tiers

(* Agreement, spelled out: the average is past every gate to a better tier *)
(* and has not reached the gate of its own.                                *)
LEMMA Agreement ==
  ASSUME NEW a \in Nat, NEW t \in Tiers
  PROVE  GateTier(a, t) = t <=>
           /\ t > 0 => a >= Promotion(0)
           /\ t > 1 => a >= Promotion(1)
           /\ t > 2 => a >= Promotion(2)
           /\ t = 0 => a < TIER_GATE[0]
           /\ t = 1 => a < TIER_GATE[1]
           /\ t = 2 => a < TIER_GATE[2]
<1>1. CASE t = 0
  BY <1>1, GateFacts DEF GateTier, Gate
<1>2. CASE t = 1
  BY <1>2, GateFacts DEF GateTier, Gate
<1>3. CASE t = 2
  BY <1>3, GateFacts DEF GateTier, Gate
<1>4. CASE t = 3
  BY <1>4, GateFacts DEF GateTier, Gate
<1>5. QED
  BY <1>1, <1>2, <1>3, <1>4 DEF Tiers

(* The midpoint of a tier fits its field and agrees with the tier. *)
LEMMA MidpointFacts ==
  ASSUME NEW t \in Tiers
  PROVE  Midpoint(t) \in 0 .. U16Max /\ GateTier(Midpoint(t), t) = t
<1> USE GateFacts DEF CAKE_TIER_CRITICAL, CAKE_TIER_INTERACT, CAKE_TIER_FRAME, CAKE_TIER_BULK
<1>u. U16Max \in Nat
  BY CounterAssumption
<1>1. CASE t = 0
  <2>1. Midpoint(t) = TIER_GATE[0] \div 2
    BY <1>1 DEF Midpoint
  <2>2. QED
    BY <1>1, <1>u, <2>1, Agreement
<1>2. CASE t = 1
  <2>1. Midpoint(t) = (TIER_GATE[0] + TIER_GATE[1]) \div 2
    BY <1>2 DEF Midpoint
  <2>2. QED
    BY <1>2, <1>u, <2>1, Agreement
<1>3. CASE t = 2
  <2>1. Midpoint(t) = (TIER_GATE[1] + TIER_GATE[2]) \div 2
    BY <1>3 DEF Midpoint
  <2>2. QED
    BY <1>3, <1>u, <2>1, Agreement
<1>4. CASE t = 3
  <2>1. Midpoint(t) = TIER_GATE[2] + 1
    BY <1>4 DEF Midpoint
  <2>2. QED
    BY <1>4, <1>u, <2>1, Agreement
<1>5. QED
  BY <1>1, <1>2, <1>3, <1>4 DEF Tiers

(* Halfway between two averages that agree with a tier, the average agrees *)
(* with it as well: recovery cannot move a stable task out of its tier.    *)
LEMMA HalfwayAgrees ==
  ASSUME NEW a \in 0 .. U16Max, NEW m \in 0 .. U16Max, NEW t \in Tiers
  PROVE  /\ (a + m) \div 2 \in 0 .. U16Max
         /\ GateTier(a, t) = t /\ GateTier(m, t) = t => GateTier((a + m) \div 2, t) = t
<1>u. U16Max \in Nat
  BY CounterAssumption
<1>1. /\ (a + m) \div 2 \in 0 .. U16Max
      /\ \A g \in Nat : /\ a < g /\ m < g => (a + m) \div 2 < g
                        /\ a >= g /\ m >= g => (a + m) \div 2 >= g
  BY <1>u
<1>2. (a + m) \div 2 \in Nat /\ a \in Nat /\ m \in Nat
  BY <1>1, <1>u
<1>3. QED
  <2> DEFINE h == (a + m) \div 2
  <2>1. h \in Nat /\ \A g \in Nat : /\ a < g /\ m < g => h < g
                                    /\ a >= g /\ m >= g => h >= g
    BY <1>1, <1>2
  <2> HIDE DEF h
  <2>2. GateTier(a, t) = t /\ GateTier(m, t) = t => GateTier(h, t) = t
    BY <1>2, <2>1, Agreement, GateFacts
  <2>3. QED
    BY <1>1, <2>2 DEF h

(* A sample fits 16 bits, and so does the average after it. *)
LEMMA SampleFits ==
  ASSUME NEW acc \in 0 .. U16Max, NEW bout \in 0 .. U16Max, NEW a \in 0 .. U16Max,
         NEW runnable \in BOOLEAN
  PROVE  /\ Burst(acc, bout) \in 0 .. U16Max
         /\ Average(a, Burst(acc, bout), runnable) \in 0 .. U16Max
<1>u. U16Max \in Nat
  BY CounterAssumption
<1>1. Burst(acc, bout) \in 0 .. U16Max
  BY <1>u DEF Burst
<1>2. ASSUME NEW b \in 0 .. U16Max
      PROVE  Average(a, b, runnable) \in 0 .. U16Max
  <2>1. CASE b < a
    BY <1>u, <2>1 DEF Average
  <2>2. CASE ~(b < a)
    <3>1. a - a \div 16 + b \div 16 <= b /\ a - a \div 16 + b \div 16 >= 0
      BY <1>u, <2>2
    <3>2. a - a \div 16 + b \div 16 \in Int
      BY <1>u
    <3>3. QED
      BY <1>u, <2>2, <3>1, <3>2 DEF Average
  <2>3. QED
    BY <2>1, <2>2
<1>3. QED
  BY <1>1, <1>2
-----------------------------------------------------------------------------
Inv == TypeOK /\ StableAgrees

LEMMA InitInv == Init => Inv
<1> SUFFICES ASSUME Init PROVE Inv
  OBVIOUS
<1>1. 0 \in 0 .. init_deficit /\ 0 \in 0 .. U16Max /\ 0 \in 0 .. U16Count - 1
  BY InputAssumption, CounterAssumption
<1>2. new_flow \in BOOLEAN /\ slept \in BOOLEAN
  BY DEF Init
<1>3. /\ where = "new" /\ tier = 0 /\ stable = 0 /\ deficit = 0 /\ avg = 0
      /\ burst_acc_us = 0 /\ reclass_counter = 0 /\ overruns = {} /\ burst_tier = NoTier
  BY DEF Init
<1>4. TypeOK
  BY <1>1, <1>2, <1>3 DEF TypeOK, Tiers
<1>5. StableAgrees
  BY <1>3 DEF StableAgrees
<1>6. QED
  BY <1>4, <1>5 DEF Inv

(* The overrun history stays within its width. *)
LEMMA HistoryType ==
  ASSUME NEW burst
  PROVE  History(burst) \in SUBSET (0 .. HistoryBits - 1)
<1>1. 0 \in 0 .. HistoryBits - 1
  BY CounterAssumption
<1>2. QED
  BY <1>1 DEF History, Shifted

(* What the backoff path leaves behind. *)
LEMMA SpotCheckStep ==
  ASSUME TypeOK, NEW a \in 0 .. U16Max, NEW counter \in 0 .. U16Count - 1,
         SpotCheck(a, counter)
  PROVE  /\ tier' = tier /\ new_flow' = new_flow /\ overruns' = overruns
         /\ stable' \in 0 .. 3 /\ reclass_counter' \in 0 .. U16Count - 1
         /\ stable' = 3 => GateTier(a, tier') = tier'
<1>1. U16Count \in Nat \ {0}
  BY CounterAssumption
<1>2. QED
  BY <1>1 DEF SpotCheck, TypeOK

(* What the full pass leaves behind: an overrun or a change of tier costs  *)
(* stability, and otherwise the tier is the one of the gates.              *)
LEMMA ReclassifyStep ==
  ASSUME TypeOK, NEW a \in 0 .. U16Max, NEW burst, NEW left,
         NEW counter \in 0 .. U16Count - 1,
         Reclassify(a, burst, left, counter)
  PROVE  /\ tier' \in Tiers /\ stable' \in 0 .. 3 /\ new_flow' \in BOOLEAN
         /\ overruns' \in SUBSET (0 .. HistoryBits - 1)
         /\ reclass_counter' \in 0 .. U16Count - 1
         /\ stable' = 3 => GateTier(a, tier') = tier'
<1> DEFINE hard     == a > 3 * TIER_GATE[2] /\ stable >= 3
           gated    == IF hard THEN CAKE_TIER_BULK ELSE GateTier(a, tier)
           history  == IF tier < CAKE_TIER_BULK THEN History(burst) ELSE overruns
           forced   == tier < CAKE_TIER_BULK /\ Cardinality(history) >= OverrunLimit
           new_tier == IF forced /\ gated < tier + 1 THEN tier + 1 ELSE gated
           held     == IF forced THEN 0 ELSE stable
<1>1. /\ tier' = new_tier
      /\ stable' = IF new_tier # tier THEN 0 ELSE IF held < 3 THEN held + 1 ELSE 3
      /\ new_flow' = (new_flow /\ left # 0)
      /\ overruns' = IF forced THEN {} ELSE history
      /\ reclass_counter' = IF new_tier # tier THEN 0 ELSE counter
  BY DEF Reclassify
<1>2. tier \in Tiers /\ stable \in 0 .. 3 /\ overruns \in SUBSET (0 .. HistoryBits - 1)
  BY DEF TypeOK
<1>3. gated \in Tiers /\ CAKE_TIER_BULK = 3
  BY GateTierType DEF CAKE_TIER_BULK, Tiers
<1>4. history \in SUBSET (0 .. HistoryBits - 1)
  BY <1>2, HistoryType
<1>5. hard => GateTier(a, tier) = 3
  <2>1. a \in Nat
    BY CounterAssumption
  <2>2. hard => a >= TIER_GATE[2]
    BY <2>1, GateFacts
  <2>3. QED
    BY <1>2, <2>1, <2>2, GateFacts DEF GateTier, Gate, Tiers
<1>6. gated = GateTier(a, tier)
  BY <1>3, <1>5
<1>7. forced => tier < 3
  BY <1>3
<1> HIDE DEF hard, gated, history, forced
<1>8. new_tier \in Tiers
  BY <1>2, <1>3, <1>7 DEF Tiers
<1>9. new_tier = tier => ~forced /\ new_tier = gated
  BY <1>2, <1>3, <1>7 DEF Tiers
<1>10. held \in 0 .. 3
  BY <1>2
<1> HIDE DEF new_tier, held
<1>11. stable' \in 0 .. 3 /\ (stable' = 3 => new_tier = tier)
  BY <1>1, <1>10
<1>12. stable' = 3 => GateTier(a, tier') = tier'
  BY <1>1, <1>6, <1>9, <1>11
<1>13. new_flow' \in BOOLEAN
  BY <1>1
<1>14. overruns' \in SUBSET (0 .. HistoryBits - 1)
  BY <1>1, <1>4
<1>15. reclass_counter' \in 0 .. U16Count - 1
  BY <1>1, CounterAssumption
<1>16. QED
  BY <1>1, <1>8, <1>11, <1>12, <1>13, <1>14, <1>15

LEMMA StopStep ==
  ASSUME Inv, NEW bout \in Bouts, NEW runnable \in BOOLEAN, Stop(bout, runnable)
  PROVE  Inv'
<1> DEFINE burst == Burst(burst_acc_us, bout)
           a     == Average(avg, burst, runnable)
           next  == (reclass_counter + 1) % U16Count
<1>1. /\ where = "awake"
      /\ where' = IF runnable THEN "awake" ELSE "asleep"
      /\ slept' \in {~runnable, ~runnable /\ ~ZeroStamp}
      /\ burst_acc_us' = IF runnable THEN burst ELSE 0
      /\ avg' = a
      /\ deficit' = Consumed(bout)
      /\ burst_tier' = IF runnable THEN burst_tier ELSE TierOfBurst(burst)
  BY DEF Stop
<1>2. \/ SpotCheck(a, next)
      \/ Reclassify(a, burst, Consumed(bout), next)
      \/ Reclassify(a, burst, Consumed(bout), reclass_counter)
  BY DEF Stop
<1>3. bout \in 0 .. U16Max /\ ZeroStamp \in BOOLEAN /\ init_deficit \in Nat /\ U16Max \in Nat
  BY InputAssumption, CounterAssumption
<1>4. burst \in 0 .. U16Max /\ a \in 0 .. U16Max
  BY <1>3, SampleFits DEF Inv, TypeOK
<1>5. next \in 0 .. U16Count - 1 /\ reclass_counter \in 0 .. U16Count - 1
  BY CounterAssumption DEF Inv, TypeOK
<1>6. deficit' \in 0 .. init_deficit
  BY <1>1, <1>3 DEF Consumed, Inv, TypeOK
<1>7. burst_tier' \in Tiers \cup {NoTier}
  <2>1. TierOfBurst(burst) \in Tiers \cup {NoTier}
    BY DEF TierOfBurst
  <2>2. QED
    BY <1>1, <2>1 DEF Inv, TypeOK
<1> HIDE DEF burst, a, next
<1>8. /\ tier' \in Tiers /\ stable' \in 0 .. 3 /\ new_flow' \in BOOLEAN
      /\ overruns' \in SUBSET (0 .. HistoryBits - 1)
      /\ reclass_counter' \in 0 .. U16Count - 1
      /\ stable' = 3 => GateTier(a, tier') = tier'
  <2>1. CASE SpotCheck(a, next)
    BY <1>4, <1>5, <2>1, SpotCheckStep DEF Inv, TypeOK
  <2>2. CASE Reclassify(a, burst, Consumed(bout), next)
    BY <1>4, <1>5, <2>2, ReclassifyStep DEF Inv
  <2>3. CASE Reclassify(a, burst, Consumed(bout), reclass_counter)
    BY <1>4, <1>5, <2>3, ReclassifyStep DEF Inv
  <2>4. QED
    BY <1>2, <2>1, <2>2, <2>3
<1>9. slept' \in BOOLEAN
  BY <1>1, <1>3
<1>10. burst_acc_us' \in 0 .. U16Max /\ avg' \in 0 .. U16Max
  BY <1>1, <1>3, <1>4
<1>11. where' \in {"new", "asleep", "awake"}
  BY <1>1
<1>12. TypeOK'
  BY <1>6, <1>7, <1>8, <1>9, <1>10, <1>11 DEF TypeOK
<1>13. GateTier(avg, tier)' = GateTier(avg', tier')
  BY DEF GateTier, Gate, Promotion
<1>14. QED
  BY <1>1, <1>8, <1>12, <1>13 DEF Inv, StableAgrees

LEMMA EnableStep ==
  ASSUME Inv, Enable
  PROVE  Inv'
<1>1. PICK k \in SeedTiers : tier' = k /\ avg' = Midpoint(k)
  BY DEF Enable
<1>2. k \in Tiers
  BY InputAssumption DEF CAKE_TIER_CRITICAL, CAKE_TIER_INTERACT, CAKE_TIER_BULK, Tiers
<1>3. avg' \in 0 .. U16Max /\ tier' \in Tiers /\ GateTier(avg', tier') = tier'
  BY <1>1, <1>2, MidpointFacts
<1>4. deficit' \in 0 .. init_deficit
  BY InputAssumption, CounterAssumption DEF Enable
<1>5. GateTier(avg, tier)' = GateTier(avg', tier')
  BY DEF GateTier, Gate, Promotion
<1>6. QED
  BY <1>3, <1>4, <1>5 DEF Enable, Inv, TypeOK, StableAgrees

LEMMA WakeQueuedStep ==
  ASSUME Inv, NEW long \in BOOLEAN, WakeQueued(long)
  PROVE  Inv'
<1>1. tier \in Tiers /\ avg \in 0 .. U16Max
  BY DEF Inv, TypeOK
<1>2. Midpoint(tier) \in 0 .. U16Max /\ GateTier(Midpoint(tier), tier) = tier
  BY <1>1, MidpointFacts
<1>3. /\ avg' \in 0 .. U16Max
      /\ GateTier(avg, tier) = tier => GateTier(avg', tier) = tier
  <2>1. avg' = avg \/ avg' = (avg + Midpoint(tier)) \div 2
    BY DEF WakeQueued, Recover
  <2>2. CASE avg' = avg
    BY <1>1, <2>2
  <2>3. CASE avg' = (avg + Midpoint(tier)) \div 2
    BY <1>1, <1>2, <2>3, HalfwayAgrees
  <2>4. QED
    BY <2>1, <2>2, <2>3
<1>4. GateTier(avg, tier)' = GateTier(avg', tier')
  BY DEF GateTier, Gate, Promotion
<1>5. QED
  BY <1>3, <1>4 DEF WakeQueued, packed, Inv, TypeOK, StableAgrees

LEMMA Inductive == Inv /\ [Next]_vars => Inv'
<1> SUFFICES ASSUME Inv, [Next]_vars PROVE Inv'
  OBVIOUS
<1>0. GateTier(avg, tier)' = GateTier(avg', tier')
  BY DEF GateTier, Gate, Promotion
<1>1. CASE Enable
  BY <1>1, EnableStep
<1>2. ASSUME NEW long \in BOOLEAN, WakeQueued(long) PROVE Inv'
  BY <1>2, WakeQueuedStep
<1>3. CASE WakeDirect
  BY <1>0, <1>3 DEF WakeDirect, packed, Inv, TypeOK, StableAgrees
<1>4. ASSUME NEW bout \in Bouts, NEW runnable \in BOOLEAN, Stop(bout, runnable) PROVE Inv'
  BY <1>4, StopStep
<1>5. ASSUME NEW runnable \in BOOLEAN, StopUnseen(runnable) PROVE Inv'
  BY <1>0, <1>5 DEF StopUnseen, packed, Inv, TypeOK, StableAgrees
<1>6. CASE UNCHANGED vars
  BY <1>0, <1>6 DEF vars, packed, Inv, TypeOK, StableAgrees
<1>7. QED
  BY <1>1, <1>2, <1>3, <1>4, <1>5, <1>6 DEF Next

LEMMA Invariance == Spec => []Inv
BY InitInv, Inductive, PTL DEF Spec

(* Every field of the task context stays within its bits, the clamped      *)
(* burst and the truncated averages of reclassify_task_cold included.      *)
THEOREM TypeCorrect == Spec => []TypeOK
<1>1. Inv => TypeOK
  BY DEF Inv
<1>2. QED
  BY <1>1, Invariance, PTL

(* The tier of a task on the backoff path, whose full passes are rare, is  *)
(* the tier the gates give for its average, whatever bouts, preemptions    *)
(* and recoveries brought it there, for any gates and recheck periods.     *)
THEOREM BackoffIsSafe == Spec => []StableAgrees
<1>1. Inv => StableAgrees
  BY DEF Inv
<1>2. QED
  BY <1>1, Invariance, PTL
-----------------------------------------------------------------------------
LEMMA Euclid ==
  ASSUME NEW P \in Nat \ {0}, NEW c \in Nat
  PROVE  c = P * (c \div P) + (c % P) /\ c \div P \in Nat /\ c % P \in 0 .. P - 1
OBVIOUS

(* Off the multiples of P, the remainder of a successor is the successor   *)
(* of the remainder.                                                       *)
LEMMA NextRemainder ==
  ASSUME NEW P \in Nat \ {0}, NEW c \in Nat, (c + 1) % P # 0
  PROVE  (c + 1) % P = (c % P) + 1 /\ (c % P) + 1 < P
<1> DEFINE q == c \div P
           r == c % P
           u == (c + 1) \div P
           v == (c + 1) % P
<1>1. c = P * q + r /\ q \in Nat /\ r \in 0 .. P - 1
  BY Euclid
<1>2. c + 1 = P * u + v /\ u \in Nat /\ v \in 0 .. P - 1 /\ v # 0
  <2>1. c + 1 \in Nat
    OBVIOUS
  <2> QED BY <2>1, Euclid
<1> HIDE DEF q, r, u, v
<1>3. P * (u - q) = (r + 1) - v
  BY <1>1, <1>2
<1>4. u = q
  <2>1. CASE u - q >= 1
    <3>1. P * (u - q) >= P
      BY <1>1, <1>2, <2>1
    <3> QED BY <1>1, <1>2, <1>3, <3>1
  <2>2. CASE u - q <= 0 - 1
    <3>1. P * (u - q) <= 0 - P
      BY <1>1, <1>2, <2>2
    <3> QED BY <1>1, <1>2, <1>3, <3>1
  <2> QED BY <1>1, <1>2, <2>1, <2>2
<1>5. r + 1 = v
  BY <1>1, <1>2, <1>4
<1> QED BY <1>1, <1>2, <1>5 DEF r, v

LEMMA RemainingRange ==
  ASSUME TypeOK, TypeOK'
  PROVE  /\ Remaining \in Nat /\ (Bonus => Remaining >= 1)
         /\ Remaining' \in Nat
<1>1. ASSUME NEW P \in Nat \ {0}, NEW c \in Nat
      PROVE  P - (c % P) \in Nat /\ P - (c % P) >= 1
  <2>1. c % P \in 0 .. P - 1
    BY Euclid
  <2> QED BY <2>1
<1>2. /\ RecheckPeriod[tier] \in Nat \ {0} /\ RecheckPeriod[tier'] \in Nat \ {0}
      /\ reclass_counter \in Nat /\ reclass_counter' \in Nat
  BY CounterAssumption DEF TypeOK
<1>3. /\ Remaining \in Nat /\ (Bonus => Remaining >= 1)
  <2> DEFINE full == RecheckPeriod[tier] - (reclass_counter % RecheckPeriod[tier])
  <2>1. full \in Nat /\ full >= 1
    BY <1>1, <1>2
  <2>2. Remaining = IF ~Bonus THEN 0 ELSE IF stable = 3 THEN full ELSE 1
    BY DEF Remaining
  <2> HIDE DEF full
  <2> QED BY <2>1, <2>2
<1>4. Remaining' \in Nat
  <2> DEFINE full == RecheckPeriod[tier'] - (reclass_counter' % RecheckPeriod[tier'])
  <2>1. full \in Nat
    BY <1>1, <1>2
  <2>2. Remaining' = IF ~Bonus' THEN 0 ELSE IF stable' = 3 THEN full ELSE 1
    BY DEF Remaining
  <2> HIDE DEF full
  <2> QED BY <2>1, <2>2
<1> QED BY <1>3, <1>4

(* The counter of the next stop, off the recheck period: it did not wrap,  *)
(* because 0 is a multiple of every period.                                *)
LEMMA NextOffPeriod ==
  ASSUME NEW c \in 0 .. U16Count - 1, NEW P \in Nat \ {0},
         ((c + 1) % U16Count) % P # 0
  PROVE  /\ (c + 1) % U16Count = c + 1
         /\ (c + 1) % P = (c % P) + 1
         /\ (c % P) + 1 < P
<1>0. U16Count \in Nat \ {0} /\ c \in Nat
  BY CounterAssumption
<1>1. (c + 1) % U16Count = c + 1
  <2>1. CASE c + 1 = U16Count
    <3>1. (c + 1) % U16Count = 0
      BY ONLY <1>0, <2>1
    <3>2. 0 % P = 0
      OBVIOUS
    <3> QED BY <3>1, <3>2
  <2>2. CASE c + 1 < U16Count
    BY ONLY <1>0, <2>2
  <2> QED BY <1>0, <2>1, <2>2
<1>2. (c + 1) % P # 0
  BY <1>1
<1> QED BY <1>0, <1>1, <1>2, NextRemainder

(* A stop takes the bonus away, or one of the stops that remain. *)
LEMMA StopCounts ==
  ASSUME TypeOK, TypeOK', Bonus, NEW bout \in Bouts, NEW runnable \in BOOLEAN,
         Stop(bout, runnable)
  PROVE  Remaining' < Remaining
<1> DEFINE a    == Average(avg, Burst(burst_acc_us, bout), runnable)
           next == (reclass_counter + 1) % U16Count
           P    == RecheckPeriod[tier]
<1>1. deficit' = 0
  <2>1. bout \in Nat /\ deficit = 0
    BY InputAssumption, CounterAssumption DEF Bonus
  <2> QED BY <2>1 DEF Stop, Consumed
<1>2. Remaining >= 1 /\ Remaining \in Nat /\ Remaining' \in Nat
  BY RemainingRange
<1>3. CASE stable = 3 /\ next % P # 0
  <2>1. SpotCheck(a, next)
    BY <1>3 DEF Stop
  <2>2. tier' = tier /\ UNCHANGED new_flow /\ where' # "new"
    BY <2>1 DEF SpotCheck, Stop
  <2>3. Bonus'
    BY <1>1, <2>2 DEF Bonus
  <2>4. reclass_counter \in 0 .. U16Count - 1 /\ P \in Nat \ {0}
    BY CounterAssumption DEF TypeOK
  <2>5. next = reclass_counter + 1 /\ next % P = (reclass_counter % P) + 1
        /\ (reclass_counter % P) + 1 < P
    BY <1>3, <2>4, NextOffPeriod
  <2>6. Remaining = P - (reclass_counter % P)
    BY <1>3 DEF Remaining
  <2>7. CASE stable' # 3
    <3>1. Remaining' = 1
      BY <2>3, <2>7 DEF Remaining
    <3> HIDE DEF P, next
    <3>2. reclass_counter % P \in Int
      BY CounterAssumption, <2>4
    <3> QED BY ONLY <2>4, <2>5, <2>6, <3>1, <3>2
  <2>8. CASE stable' = 3
    <3>1. reclass_counter' = next
      BY <1>3, <2>1, <2>8 DEF SpotCheck
    <3>2. Remaining' = P - (next % P)
      BY <2>2, <2>3, <2>8, <3>1 DEF Remaining
    <3> HIDE DEF P, next
    <3>3. reclass_counter % P \in Int
      BY CounterAssumption, <2>4
    <3> QED BY ONLY <2>4, <2>5, <2>6, <3>2, <3>3
  <2> QED BY <2>7, <2>8
<1>4. CASE ~(stable = 3 /\ next % P # 0)
  <2>1. \E counter : Reclassify(a, Burst(burst_acc_us, bout), Consumed(bout), counter)
    BY <1>4 DEF Stop
  <2>2. Consumed(bout) = 0
    BY <1>1 DEF Stop
  <2>3. ~new_flow'
    BY <2>1, <2>2 DEF Reclassify
  <2>4. Remaining' = 0
    BY <2>3 DEF Remaining, Bonus
  <2> QED BY <1>2, <2>4
<1> QED BY <1>3, <1>4

(* The bonus of a task whose deficit is used up is gone after at most one  *)
(* recheck period of accounted stops, for any periods, gates and bouts and *)
(* through every wakeup, recovery and wrap of the counter.                 *)
THEOREM BonusRunsOut == Spec => BonusCountsDown
<1>1. ASSUME TypeOK, TypeOK', Bonus, [Next]_vars
      PROVE  /\ Remaining' <= Remaining
             /\ \A bout \in Bouts, runnable \in BOOLEAN :
                  Stop(bout, runnable) => Remaining' < Remaining
  <2>1. \A bout \in Bouts, runnable \in BOOLEAN :
          Stop(bout, runnable) => Remaining' < Remaining
    BY <1>1, StopCounts
  <2>2. Remaining \in Nat /\ Remaining' \in Nat
    BY <1>1, RemainingRange
  <2>3. CASE UNCHANGED <<packed, deficit, reclass_counter>> /\ where' # "new"
    <3>1. Remaining' = Remaining
      BY <1>1, <2>3 DEF Remaining, Bonus, packed
    <3> QED BY <2>1, <2>2, <3>1
  <2>4. CASE \E bout \in Bouts, runnable \in BOOLEAN : Stop(bout, runnable)
    <3>1. Remaining' < Remaining
      BY <2>1, <2>4
    <3> QED BY <2>1, <2>2, <3>1
  <2>5. ~Enable
    BY <1>1 DEF Enable, Bonus
  <2>6. CASE UNCHANGED vars
    BY <1>1, <2>3, <2>6 DEF vars, Bonus
  <2>7. CASE (\E long \in BOOLEAN : WakeQueued(long)) \/ WakeDirect
             \/ \E runnable \in BOOLEAN : StopUnseen(runnable)
    BY <2>3, <2>7 DEF WakeQueued, WakeDirect, StopUnseen
  <2> QED BY <1>1, <2>4, <2>5, <2>6, <2>7 DEF Next
<1> QED BY <1>1, TypeCorrect, PTL DEF Spec, BonusCountsDown
-----------------------------------------------------------------------------
(* Averages from which, whatever tier the task has now, a full pass puts   *)
(* it in tier k.                                                           *)
InRange(k, a) == (k = 0 \/ a >= TIER_GATE[k-1]) /\ (k = 3 \/ a < Promotion(k))

LEMMA RangeIsTier ==
  ASSUME NEW k \in Tiers, NEW t \in Tiers, NEW a \in Nat, InRange(k, a)
  PROVE  GateTier(a, t) = k
<1>1. CASE k = 0
  BY <1>1, GateFacts DEF GateTier, Gate, InRange
<1>2. CASE k = 1
  BY <1>2, GateFacts DEF GateTier, Gate, InRange
<1>3. CASE k = 2
  BY <1>3, GateFacts DEF GateTier, Gate, InRange
<1>4. CASE k = 3
  BY <1>4, GateFacts DEF GateTier, Gate, InRange
<1> QED BY <1>1, <1>2, <1>3, <1>4 DEF Tiers

(* What a burst has to do with the gates of the tier it belongs to. *)
LEMMA BurstFits ==
  ASSUME NEW k \in Tiers, NEW b, TierOfBurst(b) = k
  PROVE  /\ k = 0 \/ (b \div 16) * 16 >= TIER_GATE[k-1]
         /\ k = 3 \/ (b \div 4) * 4 + 3 < Promotion(k)
BY InputAssumption DEF TierOfBurst

(* The average of a finished burst lies between the old one and the burst, *)
(* and the truncated shifts do not keep it where it was.                   *)
LEMMA AverageBetween ==
  ASSUME NEW a \in Nat, NEW b \in Nat
  PROVE  /\ Average(a, b, FALSE) \in Nat
         /\ a <= b => a <= Average(a, b, FALSE) /\ Average(a, b, FALSE) <= b
         /\ b <= a => b <= Average(a, b, FALSE) /\ Average(a, b, FALSE) <= a
         /\ a < (b \div 16) * 16 => a < Average(a, b, FALSE)
         /\ a > (b \div 4) * 4 + 3 => Average(a, b, FALSE) < a
<1> DEFINE lo == (b \div 16) * 16
           hi == (b \div 4) * 4 + 3
           v  == Average(a, b, FALSE)
<1>1. lo \in Nat /\ lo <= b /\ hi \in Nat /\ b <= hi
  OBVIOUS
<1>2. CASE b < a
  <2> DEFINE w == a - a \div 4 + b \div 4
  <2>1. v = w
    BY <1>2 DEF Average
  <2>2. w \in Nat /\ b <= w /\ w <= a /\ (a > hi => w < a)
    BY <1>2
  <2> HIDE DEF lo, hi, v, w
  <2>3. /\ v \in Nat /\ (a <= b => a <= v /\ v <= b) /\ (b <= a => b <= v /\ v <= a)
        /\ (a < lo => a < v) /\ (a > hi => v < a)
    BY <1>1, <1>2, <2>1, <2>2
  <2> QED BY <2>3 DEF lo, hi, v
<1>3. CASE ~(b < a)
  <2> DEFINE w == a - a \div 16 + b \div 16
  <2>1. v = w
    BY <1>3 DEF Average
  <2>2. w \in Nat /\ a <= w /\ w <= b /\ (a < lo => a < w)
    BY <1>3
  <2> HIDE DEF lo, hi, v, w
  <2>3. /\ v \in Nat /\ (a <= b => a <= v /\ v <= b) /\ (b <= a => b <= v /\ v <= a)
        /\ (a < lo => a < v) /\ (a > hi => v < a)
    BY <1>1, <1>3, <2>1, <2>2
  <2> QED BY <2>3 DEF lo, hi, v
<1> QED BY <1>2, <1>3

(* Where a finished burst of tier k takes the average: inside the range of *)
(* k it stays there, and from outside it comes nearer and never leaps over *)
(* the range to the other side.                                            *)
Pulled(k) ==
  /\ InRange(k, avg) => InRange(k, avg')
  /\ k # 0 /\ avg < TIER_GATE[k-1] => avg < avg' /\ (k = 3 \/ avg' < Promotion(k))
  /\ k # 3 /\ avg >= Promotion(k) => avg' < avg /\ (k = 0 \/ avg' >= TIER_GATE[k-1])
  /\ InRange(k, avg') => GateTier(avg', tier) = k

(* Between two bounds that the burst is between as well. *)
LEMMA Approach ==
  ASSUME NEW a \in Nat, NEW v \in Nat, NEW b \in Nat, NEW lo \in Nat, NEW hi \in Nat,
         NEW gate \in Nat, NEW prom \in Nat,
         gate <= lo, lo <= b, b <= hi, hi < prom,
         a <= b => a <= v /\ v <= b, b <= a => b <= v /\ v <= a,
         a < lo => a < v, a > hi => v < a
  PROVE  /\ a >= gate => v >= gate
         /\ a < prom => v < prom
         /\ a < gate => a < v /\ v < prom
         /\ a >= prom => v < a /\ v >= gate
OBVIOUS

LEMMA BurstPulls ==
  ASSUME TypeOK, NEW k \in Tiers, NEW b \in Nat, TierOfBurst(b) = k,
         avg' = Average(avg, b, FALSE)
  PROVE  Pulled(k)
<1> DEFINE lo   == (b \div 16) * 16
           hi   == (b \div 4) * 4 + 3
           gate == IF k = 0 THEN 0 ELSE TIER_GATE[k-1]
           prom == IF k = 3 THEN hi + 1 ELSE Promotion(k)
<1>1. avg \in Nat /\ tier \in Tiers
  BY CounterAssumption DEF TypeOK
<1>2. avg' \in Nat
      /\ (avg <= b => avg <= avg' /\ avg' <= b) /\ (b <= avg => b <= avg' /\ avg' <= avg)
      /\ (avg < lo => avg < avg') /\ (avg > hi => avg' < avg)
  BY <1>1, AverageBetween
<1>3. lo \in Nat /\ lo <= b /\ hi \in Nat /\ b <= hi
  OBVIOUS
<1>4. gate \in Nat /\ prom \in Nat
  <2>1. k = 0 \/ TIER_GATE[k-1] \in Nat
    BY GateFacts DEF Tiers
  <2>2. k = 3 \/ Promotion(k) \in Nat
    BY GateFacts DEF Tiers
  <2> QED BY <1>3, <2>1, <2>2
<1>5. gate <= lo /\ hi < prom
  BY <1>3, BurstFits
<1>6. /\ avg >= gate => avg' >= gate
      /\ avg < prom => avg' < prom
      /\ avg < gate => avg < avg' /\ avg' < prom
      /\ avg >= prom => avg' < avg /\ avg' >= gate
  <2> HIDE DEF lo, hi, gate, prom
  <2> QED BY ONLY <1>1, <1>2, <1>3, <1>4, <1>5, b \in Nat, Approach
<1>7. InRange(k, avg') => GateTier(avg', tier) = k
  BY <1>1, <1>2, RangeIsTier
<1>8. /\ InRange(k, avg) => InRange(k, avg')
      /\ k # 0 /\ avg < TIER_GATE[k-1] => avg < avg' /\ (k = 3 \/ avg' < Promotion(k))
      /\ k # 3 /\ avg >= Promotion(k) => avg' < avg /\ (k = 0 \/ avg' >= TIER_GATE[k-1])
  BY <1>6 DEF InRange
<1> QED BY <1>7, <1>8 DEF Pulled

(* The arithmetic behind Settles: every burst a task finishes takes its    *)
(* average towards the gates of the tier the burst belongs to and, once    *)
(* between them, keeps it there, for any gates, in spite of the truncated  *)
(* shifts, the two speeds of the average and the 10% hysteresis, and       *)
(* wherever the scheduler cut the burst into bouts.                        *)
THEOREM BurstsPull ==
  Spec => [][\A bout \in Bouts, k \in Tiers :
               Stop(bout, FALSE) /\ burst_tier' = k => Pulled(k)]_vars
<1>1. ASSUME TypeOK, NEW bout \in Bouts, NEW k \in Tiers, Stop(bout, FALSE), burst_tier' = k
      PROVE  Pulled(k)
  <2> DEFINE b == Burst(burst_acc_us, bout)
  <2>1. b \in Nat
    <3>1. bout \in 0 .. U16Max /\ U16Max \in Nat
      BY InputAssumption, CounterAssumption
    <3>2. burst_acc_us \in 0 .. U16Max
      BY <1>1 DEF TypeOK
    <3> QED BY <3>1, <3>2 DEF Burst
  <2>2. TierOfBurst(b) = k /\ avg' = Average(avg, b, FALSE)
    BY <1>1 DEF Stop
  <2> HIDE DEF b
  <2> QED BY <1>1, <2>1, <2>2, BurstPulls
<1>2. TypeOK => \A bout \in Bouts, k \in Tiers :
                  Stop(bout, FALSE) /\ burst_tier' = k => Pulled(k)
  BY <1>1
<1> QED BY <1>2, TypeCorrect, PTL DEF Spec
=============================================================================
