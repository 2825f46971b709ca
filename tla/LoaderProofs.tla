----------------------------- MODULE LoaderProofs -----------------------------
(***************************************************************************)
(* Proofs about the loader for every machine, command line and latency.    *)
(* First the tables and formulas of Config: the order of the budgets for   *)
(* every override, budgets and slices, the range of a cost, and that       *)
(* sampling leaves no pair of LLCs out.  Then Loader: types, turns, what a *)
(* notification means, and that the cost table has no gap.                 *)
(***************************************************************************)
EXTENDS Loader, TLAPS, FiniteSetTheorems, WellFoundedInduction

(* A non-empty set of naturals has a least member. *)
LEMMA MinOfNaturals ==
  ASSUME NEW S \in SUBSET Nat, S # {}
  PROVE  Min(S) \in S /\ \A y \in S : Min(S) <= y
<1> DEFINE R == {ss \in Nat \X Nat : ss[1] < ss[2]}
<1>0. IsWellFoundedOn(R, Nat)
  BY NatLessThanWellFounded, Zenon DEF OpToRel
<1> HIDE DEF R
<1>1. PICK x \in S : \A y \in S : ~ (<<y, x>> \in R)
  BY <1>0, WFMin
<1>2. ASSUME NEW y \in S
      PROVE  x <= y
  <2>1. y \in Nat /\ x \in Nat
    OBVIOUS
  <2>2. <<y, x>> \in R <=> y < x
    BY <2>1 DEF R
  <2>3. ~ (y < x)
    BY <1>1, <2>2
  <2>4. QED
    BY <2>1, <2>3
<1>3. QED
  BY <1>2 DEF Min

(* A cost fits 8 bits and is not the 0 that means unmeasured. *)
LEMMA CostRange ==
  ASSUME NEW ns \in Nat
  PROVE  Cost(ns) \in 1 .. 255
<1>1. ns \div 4 \in Nat
  OBVIOUS
<1>2. Min({ns \div 4, 255}) \in 0 .. 255
  BY <1>1, MinOfNaturals, {ns \div 4, 255} # {}, {ns \div 4, 255} \in SUBSET Nat
<1>3. ASSUME NEW x \in 0 .. 255
      PROVE  Max({x, 1}) \in 1 .. 255
  <2>1. \E y \in {x, 1} : \A z \in {x, 1} : y >= z
    OBVIOUS
  <2>2. Max({x, 1}) \in {x, 1} /\ \A z \in {x, 1} : Max({x, 1}) >= z
    BY <2>1 DEF Max
  <2>3. QED
    BY <2>2
<1>4. QED
  BY <1>2, <1>3 DEF Cost

(* The cost of two LLCs with a measured pair of CPUs between them is not 0. *)
LEMMA LlcCostRange ==
  ASSUME NEW t, NEW m \in [(DOMAIN t) \X (DOMAIN t) -> Nat], NEW a, NEW b
  PROVE  /\ LlcCost(t, m, a, b) \in 0 .. 255
         /\ \A c, d \in DOMAIN t :
              a # b /\ t[c] = a /\ t[d] = b /\ m[<<c, d>>] > 0 => LlcCost(t, m, a, b) > 0
<1> DEFINE entries == {q \in (DOMAIN t) \X (DOMAIN t) : t[q[1]] = a /\ t[q[2]] = b /\ m[q] > 0}
           measured == {m[p] : p \in entries}
<1>1. measured \in SUBSET Nat
  OBVIOUS
<1>2. LlcCost(t, m, a, b) = IF a = b \/ measured = {} THEN 0 ELSE Cost(Min(measured))
  BY DEF LlcCost
<1>3. ASSUME NEW c \in DOMAIN t, NEW d \in DOMAIN t, t[c] = a, t[d] = b, m[<<c, d>>] > 0
      PROVE  measured # {}
  <2>1. <<c, d>> \in entries
    BY <1>3
  <2>2. QED
    BY <2>1
<1> HIDE DEF measured
<1>4. measured # {} => Cost(Min(measured)) \in 1 .. 255
  BY <1>1, MinOfNaturals, CostRange
<1>5. QED
  BY <1>2, <1>3, <1>4

(* select_etd_pairs samples every pair of LLCs, whatever their sizes. *)
THEOREM EveryLlcPairIsSampled ==
  ASSUME NEW t, IsFiniteSet(DOMAIN t), DOMAIN t \subseteq Nat,
         \A c \in DOMAIN t : t[c] \in Nat,
         NEW a \in Populated(t), NEW b \in Populated(t), a < b
  PROVE  \E p \in select_etd_pairs(t) : t[p[1]] = a /\ t[p[2]] = b
<1> DEFINE cpus(l) == {c \in DOMAIN t : t[c] = l}
<1>1. ASSUME NEW l \in Populated(t)
      PROVE  /\ \E c \in cpus(l) : Rank(t, c) = 0
             /\ LlcSize(t, l) \in Nat \ {0}
  <2>1. cpus(l) # {} /\ cpus(l) \in SUBSET Nat
    BY DEF Populated
  <2>2. PICK c \in cpus(l) : \A d \in cpus(l) : c <= d
    BY <2>1, MinOfNaturals
  <2>3. {d \in DOMAIN t : t[d] = t[c] /\ d < c} = {}
    BY <2>1, <2>2
  <2>4. Rank(t, c) = 0
    BY <2>3, FS_EmptySet DEF Rank
  <2>5. IsFiniteSet(cpus(l))
    BY FS_Subset
  <2>6. Cardinality(cpus(l)) \in Nat /\ Cardinality(cpus(l)) # 0
    BY <2>1, <2>5, FS_CardinalityType, FS_EmptySet
  <2>7. QED
    BY <2>4, <2>6 DEF LlcSize
<1>2. PICK c \in cpus(a) : Rank(t, c) = 0
  BY <1>1
<1>3. PICK d \in cpus(b) : Rank(t, d) = 0
  BY <1>1
<1> DEFINE na == LlcSize(t, a)
           nb == LlcSize(t, b)
           k == Min({SAMPLES_PER_LLC_PAIR, na, nb})
<1>4. k \in Nat \ {0}
  <2>1. na \in Nat \ {0} /\ nb \in Nat \ {0}
    BY <1>1
  <2> DEFINE S == {SAMPLES_PER_LLC_PAIR, na, nb}
  <2>2. S \in SUBSET Nat /\ S # {} /\ 0 \notin S
    BY <2>1 DEF SAMPLES_PER_LLC_PAIR
  <2> HIDE DEF S, na, nb
  <2>3. Min(S) \in S
    BY <2>2, MinOfNaturals
  <2>4. QED
    BY <2>2, <2>3 DEF S
<1>5. na \in Nat /\ nb \in Nat
  BY <1>1
<1>6. SpreadIndex(na, k, 0) = 0 /\ SpreadIndex(nb, k, 0) = 0
  <2> HIDE DEF na, nb, k
  <2>1. ASSUME NEW n \in Nat PROVE 0 * (n - 1) = 0
    OBVIOUS
  <2>2. ASSUME k # 1 PROVE 0 \div (k - 1) = 0
    BY <1>4, <2>2
  <2>3. QED
    BY <1>5, <2>1, <2>2 DEF SpreadIndex
<1>7. <<c, d>> \in select_etd_pairs(t)
  <2>1. 0 \in 0 .. k - 1
    BY <1>4
  <2>2. \E i \in 0 .. k - 1 : Rank(t, c) = SpreadIndex(na, k, i) /\ Rank(t, d) = SpreadIndex(nb, k, i)
    BY <2>1, <1>2, <1>3, <1>6
  <2>3. QED
    BY <2>2 DEF select_etd_pairs
<1>8. QED
  BY <1>7
-----------------------------------------------------------------------------
(* Numbers this large are left to the SMT solver. *)

(* Budgets scaled from an override: they fit their 20 bits, and are apart    *)
(* from one tier to the next.                                              *)
LEMMA ScaledOrder ==
  ASSUME NEW us \in Nat, 41 <= us, us <= 1073741, NEW profile \in Profiles
  PROVE  /\ ScaledBudget(profile, us, 0) \in Nat /\ ScaledBudget(profile, us, 3) < 1048576
         /\ ScaledBudget(profile, us, 1) \in Nat /\ ScaledBudget(profile, us, 2) \in Nat
         /\ ScaledBudget(profile, us, 3) \in Nat
         /\ ScaledBudget(profile, us, 0) < ScaledBudget(profile, us, 1)
         /\ ScaledBudget(profile, us, 1) < ScaledBudget(profile, us, 2)
         /\ ScaledBudget(profile, us, 2) < ScaledBudget(profile, us, 3)
<1>1. CASE profile = "Esports"
  <2>1. ScaledBudget(profile, us, 0) =
         (375 * (us \div 128) + (375 * (us % 128)) \div 128) \div 100
    BY SMT, <1>1 DEF ScaledBudget, starvation_threshold
  <2>2. ScaledBudget(profile, us, 1) =
         (1000 * (us \div 128) + (1000 * (us % 128)) \div 128) \div 100
    BY SMT, <1>1 DEF ScaledBudget, starvation_threshold
  <2>3. ScaledBudget(profile, us, 2) =
         (5000 * (us \div 128) + (5000 * (us % 128)) \div 128) \div 100
    BY SMT, <1>1 DEF ScaledBudget, starvation_threshold
  <2>4. ScaledBudget(profile, us, 3) =
         (12500 * (us \div 128) + (12500 * (us % 128)) \div 128) \div 100
    BY SMT, <1>1 DEF ScaledBudget, starvation_threshold
  <2>5. QED
    BY SMT, <2>1, <2>2, <2>3, <2>4
<1>2. CASE profile = "Default"
  <2>1. ScaledBudget(profile, us, 0) =
         (375 * (us \div 128) + (375 * (us % 128)) \div 128) \div 200
    BY SMT, <1>2 DEF ScaledBudget, starvation_threshold
  <2>2. ScaledBudget(profile, us, 1) =
         (2000 * (us \div 128) + (2000 * (us % 128)) \div 128) \div 200
    BY SMT, <1>2 DEF ScaledBudget, starvation_threshold
  <2>3. ScaledBudget(profile, us, 2) =
         (5000 * (us \div 128) + (5000 * (us % 128)) \div 128) \div 200
    BY SMT, <1>2 DEF ScaledBudget, starvation_threshold
  <2>4. ScaledBudget(profile, us, 3) =
         (25000 * (us \div 128) + (25000 * (us % 128)) \div 128) \div 200
    BY SMT, <1>2 DEF ScaledBudget, starvation_threshold
  <2>5. QED
    BY SMT, <2>1, <2>2, <2>3, <2>4
<1>3. CASE profile = "Sim"
  <2>1. ScaledBudget(profile, us, 0) =
         (750 * (us \div 128) + (750 * (us % 128)) \div 128) \div 400
    BY SMT, <1>3 DEF ScaledBudget, starvation_threshold
  <2>2. ScaledBudget(profile, us, 1) =
         (2000 * (us \div 128) + (2000 * (us % 128)) \div 128) \div 400
    BY SMT, <1>3 DEF ScaledBudget, starvation_threshold
  <2>3. ScaledBudget(profile, us, 2) =
         (20000 * (us \div 128) + (20000 * (us % 128)) \div 128) \div 400
    BY SMT, <1>3 DEF ScaledBudget, starvation_threshold
  <2>4. ScaledBudget(profile, us, 3) =
         (50000 * (us \div 128) + (50000 * (us % 128)) \div 128) \div 400
    BY SMT, <1>3 DEF ScaledBudget, starvation_threshold
  <2>5. QED
    BY SMT, <2>1, <2>2, <2>3, <2>4
<1>4. QED
  BY SMT, <1>1, <1>2, <1>3 DEF Profiles
(* An override of --starvation in this range keeps the tiers in order.  Above *)
(* it the budget of T3 does not fit its field; far below it budgets are      *)
(* equal.                                                                    *)
KeepsOrder(starvation) ==
  starvation = NoOverride \/ (starvation \in Nat /\ 41 <= starvation /\ starvation <= 1073741)

(* The budgets the BPF side reads rise with the tier, with every profile and *)
(* every such override (Profile::tier_configs).                              *)
THEOREM BudgetsInOrder ==
  ASSUME NEW profile \in Profiles, NEW starvation, KeepsOrder(starvation)
  PROVE  LET tc == tier_configs(profile, starvation)
         IN /\ \A k \in 0 .. 2 : tc[k] < tc[k + 1]
<1> DEFINE b(k) == budget_kns(profile, starvation, k)
           Rising == /\ b(0) \in Nat /\ b(1) \in Nat /\ b(2) \in Nat /\ b(3) \in Nat
                     /\ b(0) < b(1) /\ b(1) < b(2) /\ b(2) < b(3) /\ b(3) < 1048576
<1>1. ASSUME starvation = NoOverride
      PROVE  Rising
  <2>1. ASSUME profile = "Esports"
       PROVE  Rising
    <3>1. b(0) = 1464 /\ b(1) = 3906 /\ b(2) = 19531 /\ b(3) = 48828
      BY SMT, <1>1, <2>1 DEF budget_kns, starvation_threshold
    <3>2. QED
      BY SMT, <3>1
  <2>2. ASSUME profile = "Default"
       PROVE  Rising
    <3>1. b(0) = 1464 /\ b(1) = 7812 /\ b(2) = 19531 /\ b(3) = 97656
      BY SMT, <1>1, <2>2 DEF budget_kns, starvation_threshold
    <3>2. QED
      BY SMT, <3>1
  <2>3. ASSUME profile = "Sim"
       PROVE  Rising
    <3>1. b(0) = 2929 /\ b(1) = 7812 /\ b(2) = 78125 /\ b(3) = 195312
      BY SMT, <1>1, <2>3 DEF budget_kns, starvation_threshold
    <3>2. QED
      BY SMT, <3>1
  <2>4. QED
    BY SMT, <2>1, <2>2, <2>3 DEF Profiles
<1>2. ASSUME starvation # NoOverride
      PROVE  Rising
  <2>1. b(0) = ScaledBudget(profile, starvation, 0) /\ b(1) = ScaledBudget(profile, starvation, 1)
    BY SMT, <1>2 DEF budget_kns
  <2>2. b(2) = ScaledBudget(profile, starvation, 2) /\ b(3) = ScaledBudget(profile, starvation, 3)
    BY SMT, <1>2 DEF budget_kns
  <2>3. starvation \in Nat /\ 41 <= starvation /\ starvation <= 1073741
    BY SMT, <1>2 DEF KeepsOrder
  <2> HIDE DEF b
  <2>4. QED
    BY SMT, <2>1, <2>2, <2>3, ScaledOrder
<1>3. Rising
  BY SMT, <1>1, <1>2
<1>4. \A k \in Tiers : tier_configs(profile, starvation)[k] = b(k) % 1048576
  BY SMT DEF tier_configs, StarvationField, FieldRange
<1> HIDE DEF b
<1>5. \A k \in Tiers : tier_configs(profile, starvation)[k] = b(k)
  BY SMT, <1>3, <1>4 DEF Tiers
<1>6. QED
  BY SMT, <1>3, <1>5 DEF Tiers

(* Whatever the override, a budget read back fits its field. *)
LEMMA BudgetsFit ==
  ASSUME NEW profile \in Profiles, NEW starvation \in Nat \cup {NoOverride}
  PROVE  tier_configs(profile, starvation) \in [Tiers -> 0 .. FieldRange - 1]
<1>1. \A k \in Tiers : \A p \in Profiles : starvation_threshold[p][k + 1] \in Nat \ {0}
  BY SMT DEF Tiers, Profiles, starvation_threshold
<1>2. ASSUME NEW k \in Tiers
      PROVE  budget_kns(profile, starvation, k) \in Int
  <2> DEFINE s == starvation_threshold[profile][k + 1]
             s3 == starvation_threshold[profile][4]
  <2>1. s \in Nat \ {0} /\ s3 \in Nat \ {0}
    BY SMT, <1>1 DEF Tiers
  <2> HIDE DEF s, s3
  <2>2. (s * 500000) \div 1024 \in Int
    BY SMT, <2>1
  <2>3. ASSUME starvation \in Nat
        PROVE  ScaledBudget(profile, starvation, k) \in Int
    <3>1. /\ starvation \div 128 \in Int /\ starvation % 128 \in Int
          /\ 125 * s \in Int
      BY SMT, <2>1, <2>3
    <3> DEFINE n == (125 * s) * (starvation \div 128)
               m == (125 * s) * (starvation % 128)
    <3>2. n \in Int /\ m \in Int
      BY SMT, <3>1
    <3>3. ScaledBudget(profile, starvation, k) = (n + m \div 128) \div s3
      BY DEF ScaledBudget, s, s3
    <3> HIDE DEF n, m
    <3>4. (n + m \div 128) \div s3 \in Int
      BY SMT, <3>2, <2>1
    <3>5. QED
      BY <3>3, <3>4
  <2>4. QED
    BY SMT, <2>2, <2>3 DEF budget_kns, s
<1>3. ASSUME NEW n \in Int
      PROVE  StarvationField(n) \in 0 .. FieldRange - 1
  <2>1. 0 <= n % 1048576 /\ n % 1048576 < 1048576 /\ n % 1048576 \in Int
    BY SMT
  <2>2. /\ StarvationField(n) \in Int /\ 0 <= StarvationField(n)
        /\ StarvationField(n) < FieldRange /\ FieldRange \in Int
    BY SMT, <2>1 DEF StarvationField, FieldRange
  <2>3. QED
    BY <2>2
<1>4. QED
  BY <1>2, <1>3 DEF tier_configs

(* With the profile's own quantum and budgets, a tier's budget is longer    *)
(* than its slice: what makes the starvation check of imperator_tick       *)
(* unreachable while something is queued.                                  *)
THEOREM BudgetsExceedSlices ==
  ASSUME NEW profile \in Profiles, NEW k \in Tiers
  PROVE  Slice(profile, k) < 1024 * tier_configs(profile, NoOverride)[k]
<1> DEFINE b(j) == tier_configs(profile, NoOverride)[j]
           s(j) == Slice(profile, j)
<1>1. CASE profile = "Esports"
  <2>1. b(0) = 1464 /\ s(0) = 250000
    BY SMT, <1>1 DEF tier_configs, StarvationField, FieldRange, budget_kns, starvation_threshold,
      Slice, quantum_us, tier_multiplier, Tiers
  <2>2. b(1) = 3906 /\ s(1) = 1000000
    BY SMT, <1>1 DEF tier_configs, StarvationField, FieldRange, budget_kns, starvation_threshold,
      Slice, quantum_us, tier_multiplier, Tiers
  <2>3. b(2) = 19531 /\ s(2) = 2000000
    BY SMT, <1>1 DEF tier_configs, StarvationField, FieldRange, budget_kns, starvation_threshold,
      Slice, quantum_us, tier_multiplier, Tiers
  <2>4. b(3) = 48828 /\ s(3) = 3999023
    BY SMT, <1>1 DEF tier_configs, StarvationField, FieldRange, budget_kns, starvation_threshold,
      Slice, quantum_us, tier_multiplier, Tiers
  <2> HIDE DEF b, s
  <2>5. s(k) < 1024 * b(k)
    BY SMT, <2>1, <2>2, <2>3, <2>4 DEF Tiers
  <2>6. QED
    BY SMT, <2>5 DEF b, s
<1>2. CASE profile = "Default"
  <2>1. b(0) = 1464 /\ s(0) = 500000
    BY SMT, <1>2 DEF tier_configs, StarvationField, FieldRange, budget_kns, starvation_threshold,
      Slice, quantum_us, tier_multiplier, Tiers
  <2>2. b(1) = 7812 /\ s(1) = 2000000
    BY SMT, <1>2 DEF tier_configs, StarvationField, FieldRange, budget_kns, starvation_threshold,
      Slice, quantum_us, tier_multiplier, Tiers
  <2>3. b(2) = 19531 /\ s(2) = 4000000
    BY SMT, <1>2 DEF tier_configs, StarvationField, FieldRange, budget_kns, starvation_threshold,
      Slice, quantum_us, tier_multiplier, Tiers
  <2>4. b(3) = 97656 /\ s(3) = 7998046
    BY SMT, <1>2 DEF tier_configs, StarvationField, FieldRange, budget_kns, starvation_threshold,
      Slice, quantum_us, tier_multiplier, Tiers
  <2> HIDE DEF b, s
  <2>5. s(k) < 1024 * b(k)
    BY SMT, <2>1, <2>2, <2>3, <2>4 DEF Tiers
  <2>6. QED
    BY SMT, <2>5 DEF b, s
<1>3. CASE profile = "Sim"
  <2>1. b(0) = 2929 /\ s(0) = 1000000
    BY SMT, <1>3 DEF tier_configs, StarvationField, FieldRange, budget_kns, starvation_threshold,
      Slice, quantum_us, tier_multiplier, Tiers
  <2>2. b(1) = 7812 /\ s(1) = 4000000
    BY SMT, <1>3 DEF tier_configs, StarvationField, FieldRange, budget_kns, starvation_threshold,
      Slice, quantum_us, tier_multiplier, Tiers
  <2>3. b(2) = 78125 /\ s(2) = 8000000
    BY SMT, <1>3 DEF tier_configs, StarvationField, FieldRange, budget_kns, starvation_threshold,
      Slice, quantum_us, tier_multiplier, Tiers
  <2>4. b(3) = 195312 /\ s(3) = 15996093
    BY SMT, <1>3 DEF tier_configs, StarvationField, FieldRange, budget_kns, starvation_threshold,
      Slice, quantum_us, tier_multiplier, Tiers
  <2> HIDE DEF b, s
  <2>5. s(k) < 1024 * b(k)
    BY SMT, <2>1, <2>2, <2>3, <2>4 DEF Tiers
  <2>6. QED
    BY SMT, <2>5 DEF b, s
<1>4. QED
  BY SMT, <1>1, <1>2, <1>3 DEF Profiles
-----------------------------------------------------------------------------
(* The actions, one by one. *)
LEMMA NextCases ==
  ASSUME Next
  PROVE  \/ StartCalibration \/ Load \/ Attach \/ Splash \/ FirstWrite \/ TuiTurn
         \/ BlockSignals \/ Wake \/ Timeout \/ TuiQuit \/ SignalArrives \/ BpfExits
         \/ PairThreads
         \/ (NextPair \/ PairFailed \/ PairMeasured \/ PairNoisy) /\ UNCHANGED mainVars
         \/ (AllMeasured \/ LockMatrix \/ StoreMatrix \/ SignalDone) /\ UNCHANGED mainVars
BY DEF Next, MainStep, CalThread, CalStep

(* The setting never changes, nor what is computed from it. *)
LEMMA SettingKept ==
  ASSUME [Next]_vars
  PROVE  /\ args' = args /\ CpuPairs' = CpuPairs /\ Empty' = Empty /\ Pairs' = Pairs
         /\ LlcPairs' = LlcPairs /\ cpu_llc_id' = cpu_llc_id
<1>1. args' = args
  <2>1. CASE UNCHANGED vars
    BY <2>1 DEF vars, calVars
  <2>2. CASE Next
    BY <2>2, NextCases DEF StartCalibration, Load, Attach, Splash, FirstWrite, TuiTurn,
      BlockSignals, Wake, Timeout, TuiQuit, SignalArrives, BpfExits, PairThreads, Threads,
      NextPair, PairFailed, PairMeasured, PairNoisy, AllMeasured, LockMatrix, StoreMatrix,
      SignalDone, calVars
  <2>3. QED
    BY <2>1, <2>2
<1>2. QED
  BY <1>1 DEF CpuPairs, Empty, Pairs, LlcPairs, Llcs, cpu_llc_id
-----------------------------------------------------------------------------
(* What a settled pair leaves in the matrix *)

Rev(p) == <<p[2], p[1]>>

Both(m, p) == m[p] > 0 /\ m[Rev(p)] > 0

Symmetric(m) == \A q \in CpuPairs : m[q] = m[Rev(q)]

(* Recording a pair writes its two entries and no other. *)
LEMMA RecordFacts ==
  ASSUME matrix \in [CpuPairs -> Nat], NEW p \in CpuPairs, NEW ns \in Nat
  PROVE  /\ Record(p, ns) \in [CpuPairs -> Nat]
         /\ Record(p, ns)[p] = ns /\ Record(p, ns)[Rev(p)] = ns
         /\ \A q \in CpuPairs : q # p /\ q # Rev(p) => Record(p, ns)[q] = matrix[q]
         /\ Symmetric(matrix) => Symmetric(Record(p, ns))
<1>1. Rev(p) \in CpuPairs /\ Rev(Rev(p)) = p /\ \A q \in CpuPairs : Rev(q) \in CpuPairs /\ Rev(Rev(q)) = q
  BY DEF Rev, CpuPairs
<1>2. Record(p, ns) = [matrix EXCEPT ![p] = ns, ![Rev(p)] = ns]
  BY DEF Record, Rev
<1>3. /\ Record(p, ns) \in [CpuPairs -> Nat]
      /\ Record(p, ns)[p] = ns /\ Record(p, ns)[Rev(p)] = ns
      /\ \A q \in CpuPairs : q # p /\ q # Rev(p) => Record(p, ns)[q] = matrix[q]
  BY <1>1, <1>2
<1>4. ASSUME Symmetric(matrix), NEW q \in CpuPairs
      PROVE  Record(p, ns)[q] = Record(p, ns)[Rev(q)]
  <2>1. CASE q = p \/ q = Rev(p)
    BY <2>1, <1>1, <1>3
  <2>2. CASE q # p /\ q # Rev(p)
    <3>1. Rev(q) # p /\ Rev(q) # Rev(p)
      BY <2>2, <1>1
    <3>2. QED
      BY <2>2, <3>1, <1>1, <1>3, <1>4 DEF Symmetric
  <2>3. QED
    BY <2>1, <2>2
<1>5. QED
  BY <1>3, <1>4 DEF Symmetric

(* A settled pair has an entry above 0 on both sides, and no other loses    *)
(* one: the fallback covers what could not be pinned or timed.             *)
LEMMA SettleFacts ==
  ASSUME matrix \in [CpuPairs -> Nat], Symmetric(matrix), NEW p \in CpuPairs,
         NEW m, m = matrix \/ \E ns \in Nat : m = Record(p, ns),
         Settle(p, m), CpuPairs' = CpuPairs
  PROVE  /\ matrix' \in [CpuPairs -> Nat] /\ Symmetric(matrix') /\ Both(matrix', p)
         /\ \A q \in CpuPairs : Both(matrix, q) => Both(matrix', q)
<1>1. Fallback \in Nat /\ Fallback > 0
  BY DEF Fallback
<1>2. Rev(p) \in CpuPairs /\ \A q \in CpuPairs : Rev(q) \in CpuPairs /\ Rev(Rev(q)) = q
  BY DEF Rev, CpuPairs
<1>3. PICK x \in Nat : \/ matrix' = Record(p, x) /\ x > 0
                       \/ matrix' = matrix /\ matrix[p] > 0
  <2>1. CASE m = matrix
    BY <1>1, <2>1 DEF Settle
  <2>2. CASE \E ns \in Nat : m = Record(p, ns)
    BY <1>1, <2>2, RecordFacts DEF Settle
  <2>3. QED
    BY <2>1, <2>2
<1>4. CASE matrix' = matrix /\ matrix[p] > 0
  BY <1>2, <1>4 DEF Both, Symmetric
<1>5. CASE matrix' = Record(p, x) /\ x > 0
  <2>1. matrix' \in [CpuPairs -> Nat] /\ Symmetric(matrix') /\ matrix'[p] = x /\ matrix'[Rev(p)] = x
    BY <1>5, RecordFacts
  <2>2. ASSUME NEW q \in CpuPairs, Both(matrix, q)
        PROVE  Both(matrix', q)
    <3>1. ASSUME NEW r \in CpuPairs, matrix[r] > 0
          PROVE  matrix'[r] > 0
      BY <1>5, <2>1, <3>1, RecordFacts
    <3>2. QED
      BY <1>2, <2>2, <3>1 DEF Both
  <2>3. QED
    BY <1>5, <2>1, <2>2 DEF Both
<1>6. QED
  BY <1>3, <1>4, <1>5
-----------------------------------------------------------------------------
(* Types, and the symmetry of the matrix that the next section needs *)

LEMMA SettingFacts ==
  ASSUME args \in Settings
  PROVE  /\ IsFiniteSet(DOMAIN cpu_llc_id) /\ DOMAIN cpu_llc_id \subseteq Nat
         /\ \A c \in DOMAIN cpu_llc_id : cpu_llc_id[c] \in Nat
         /\ args.profile \in Profiles /\ args.starvation \in Nat \cup {NoOverride}
         /\ Empty \in [CpuPairs -> Nat] /\ NoCosts \in [LlcPairs -> 0 .. 255]
         /\ Pairs \subseteq CpuPairs /\ Symmetric(Empty)
<1>1. Pairs \subseteq CpuPairs
  BY DEF Pairs, CpuPairs, select_etd_pairs, all_pairs
<1>2. Symmetric(Empty)
  BY DEF Symmetric, Empty, Rev, CpuPairs
<1>3. QED
  BY <1>1, <1>2, CalibrationAssumption DEF cpu_llc_id, Empty, NoCosts

(* The table that is written has entries of 8 bits. *)
LEMMA WriteFacts ==
  ASSUME try_write_etd_costs, LlcPairs' = LlcPairs,
         latency_matrix \in [CpuPairs -> Nat], llc_etd_cost \in [LlcPairs -> 0 .. 255]
  PROVE  etd_written' \in BOOLEAN /\ llc_etd_cost' \in [LlcPairs -> 0 .. 255]
<1>1. \A a, b : LlcCost(cpu_llc_id, latency_matrix, a, b) \in 0 .. 255
  BY LlcCostRange DEF CpuPairs
<1>2. CASE CanWriteCosts
  BY <1>1, <1>2 DEF try_write_etd_costs
<1>3. CASE ~CanWriteCosts
  BY <1>3 DEF try_write_etd_costs
<1>4. QED
  BY <1>2, <1>3

TypeInv ==
  /\ TypeOK /\ Symmetric(matrix)
  /\ cal = "join" => pair \in CpuPairs

LEMMA TypeInit == Init => TypeInv
<1> SUFFICES ASSUME Init PROVE TypeInv
  OBVIOUS
<1>1. args \in Settings
  BY DEF Init, CalInit
<1>2. 0 \in 0 .. Trips /\ 0 \in 0 .. MAX_RETRIES /\ 0 \in 0 .. FieldRange - 1
  <2>1. Trips \in Nat /\ MAX_RETRIES \in Nat
    BY CalibrationAssumption DEF MAX_RETRIES
  <2>2. FieldRange \in Nat \ {0}
    BY SMT DEF FieldRange
  <2>3. QED
    BY <2>1, <2>2
<1>3. CalTypeOK
  BY <1>1, <1>2, SettingFacts DEF Init, CalInit, CalTypeOK, Sides
<1>4. QED
  BY <1>1, <1>2, <1>3, SettingFacts DEF Init, CalInit, TypeOK, TypeInv

LEMMA TypeStep == TypeInv /\ [Next]_vars => TypeInv'
<1> SUFFICES ASSUME TypeInv, [Next]_vars PROVE TypeInv'
  OBVIOUS
<1>0. /\ args' = args /\ CpuPairs' = CpuPairs /\ Empty' = Empty /\ Pairs' = Pairs
      /\ LlcPairs' = LlcPairs /\ cpu_llc_id' = cpu_llc_id
  BY SettingKept
<1>s. /\ IsFiniteSet(DOMAIN cpu_llc_id) /\ DOMAIN cpu_llc_id \subseteq Nat
      /\ args.profile \in Profiles /\ args.starvation \in Nat \cup {NoOverride}
      /\ Empty \in [CpuPairs -> Nat] /\ Pairs \subseteq CpuPairs /\ Symmetric(Empty)
  BY SettingFacts DEF TypeInv, TypeOK, CalTypeOK
<1>t. Trips \in Nat \ {0} /\ Latencies \subseteq Nat
  BY CalibrationAssumption
<1> USE <1>0 DEF TypeInv
<1>1. CASE UNCHANGED vars
  BY <1>1 DEF vars, calVars, mainVars, TypeOK, CalTypeOK, Symmetric
<1>2. CASE StartCalibration
  BY <1>2, <1>s DEF StartCalibration, threadVars, TypeOK, CalTypeOK, Symmetric
<1>3. CASE Load
  <2>1. budgets' \in [Tiers -> 0 .. FieldRange - 1]
    BY <1>3, <1>s, BudgetsFit DEF Load
  <2>2. QED
    BY <1>3, <2>1 DEF Load, calVars, TypeOK, CalTypeOK, Symmetric
<1>4. CASE Attach \/ Splash \/ TuiTurn \/ BlockSignals \/ TuiQuit \/ BpfExits
  <2> USE DEF calVars, TypeOK, CalTypeOK, Symmetric
  <2>1. CASE Attach
    BY <2>1 DEF Attach
  <2>2. CASE Splash
    BY <2>2 DEF Splash
  <2>3. CASE TuiTurn
    BY <2>3 DEF TuiTurn
  <2>4. CASE BlockSignals
    BY <2>4 DEF BlockSignals
  <2>5. CASE TuiQuit
    BY <2>5 DEF TuiQuit
  <2>6. CASE BpfExits
    BY <2>6 DEF BpfExits
  <2>7. QED
    BY <1>4, <2>1, <2>2, <2>3, <2>4, <2>5, <2>6
<1>5. CASE FirstWrite
  <2>1. etd_written' \in BOOLEAN /\ llc_etd_cost' \in [LlcPairs -> 0 .. 255]
    BY <1>5, WriteFacts DEF FirstWrite, TypeOK, CalTypeOK
  <2>2. QED
    BY <1>5, <2>1 DEF FirstWrite, calVars, TypeOK, CalTypeOK, Symmetric
<1>6. CASE Wake
  <2>1. etd_written' \in BOOLEAN /\ llc_etd_cost' \in [LlcPairs -> 0 .. 255] /\ efd' \in {0, 1}
    BY <1>6, WriteFacts DEF Wake, TypeOK, CalTypeOK
  <2>2. /\ UNCHANGED <<args, cal, todo, pair, retry_count, matrix, threadVars, latency_matrix,
                      locked, etd_efd_write, etd_efd, budgets, blocked, bpf_exited>>
        /\ main' \in {"poll", "ended"} /\ signalled' = FALSE
    BY <1>6 DEF Wake
  <2>3. CalTypeOK'
    BY <2>1, <2>2 DEF threadVars, TypeOK, CalTypeOK
  <2>4. TypeOK'
    BY <2>1, <2>2, <2>3 DEF TypeOK
  <2>5. Symmetric(matrix)'
    BY <2>2 DEF Symmetric
  <2> HIDE DEF TypeOK
  <2>6. QED
    BY <2>2, <2>4, <2>5
<1>7. CASE Timeout
  <2>1. etd_written' \in BOOLEAN /\ llc_etd_cost' \in [LlcPairs -> 0 .. 255]
    BY <1>7, WriteFacts DEF Timeout, TypeOK, CalTypeOK
  <2>2. QED
    BY <1>7, <2>1 DEF Timeout, calVars, TypeOK, CalTypeOK, Symmetric
<1>8. CASE SignalArrives
  <2>1. signalled' \in BOOLEAN
    BY <1>8 DEF SignalArrives, TypeOK
  <2>2. main' \in {"new", "load", "attach", "splash", "first", "tui", "block", "poll", "ended"}
    BY <1>8 DEF SignalArrives, TypeOK
  <2>3. QED
    BY <1>8, <2>1, <2>2 DEF SignalArrives, calVars, TypeOK, CalTypeOK, Symmetric
<1>9. CASE PairThreads
  <2> DEFINE ThreadTypes ==
        /\ side' \in [Sides -> {"idle", "pin", "arrive", "check", "swap", "end"}]
        /\ abort' \in BOOLEAN /\ flag' \in Sides /\ left' \in [Sides -> 0 .. Trips]
  <2>1. ThreadTypes
    <3>1. CASE Barrier
      BY <1>9, <3>1 DEF Barrier, TypeOK, CalTypeOK
    <3>2. ASSUME NEW s \in Sides, Pin(s) \/ CheckAbort(s)
          PROVE  ThreadTypes
      BY <3>2 DEF Pin, CheckAbort, TypeOK, CalTypeOK
    <3>3. ASSUME NEW s \in Sides, Exchange(s)
          PROVE  ThreadTypes
      BY <3>3, <1>t DEF Exchange, TypeOK, CalTypeOK
    <3>4. QED
      BY <1>9, <3>1, <3>2, <3>3 DEF PairThreads, Threads, SideStep
  <2>2. QED
    BY <1>9, <2>1 DEF PairThreads, Threads, mainVars, TypeOK, CalTypeOK, Symmetric
<1>10. ASSUME NEW p \in CpuPairs, StartPair(p)
       PROVE  /\ side' \in [Sides -> {"idle", "pin", "arrive", "check", "swap", "end"}]
              /\ abort' \in BOOLEAN /\ flag' \in Sides /\ left' \in [Sides -> 0 .. Trips]
              /\ pair' \in CpuPairs /\ cal' = "join"
  <2>1. "ping" \in Sides /\ Trips \in 0 .. Trips
    BY <1>t DEF Sides
  <2>2. QED
    BY <1>10, <2>1 DEF StartPair
<1>11. CASE NextPair /\ UNCHANGED mainVars
  <2>1. PICK p \in todo : StartPair(p) /\ todo' = todo \ {p}
    BY <1>11 DEF NextPair
  <2>2. p \in CpuPairs
    BY DEF TypeOK, CalTypeOK
  <2>3. QED
    BY <1>10, <1>11, <2>1, <2>2 DEF NextPair, mainVars, TypeOK, CalTypeOK, Symmetric
<1>12. CASE PairNoisy /\ UNCHANGED mainVars
  <2>1. retry_count' \in 0 .. MAX_RETRIES
    BY <1>12 DEF PairNoisy, MAX_RETRIES, TypeOK, CalTypeOK
  <2>2. pair \in CpuPairs /\ StartPair(pair)
    BY <1>12 DEF PairNoisy
  <2>3. QED
    BY <1>10, <1>12, <2>1, <2>2 DEF PairNoisy, mainVars, TypeOK, CalTypeOK, Symmetric
<1>13. CASE (PairFailed \/ PairMeasured) /\ UNCHANGED mainVars
  <2>1. PICK m : Settle(pair, m) /\ (m = matrix \/ \E ns \in Nat : m = Record(pair, ns))
    BY <1>13, <1>t DEF PairFailed, PairMeasured
  <2>2. matrix' \in [CpuPairs -> Nat] /\ Symmetric(matrix')
    BY <2>1, <1>13, SettleFacts DEF PairFailed, PairMeasured, TypeOK, CalTypeOK
  <2>3. "ping" \in Sides /\ 0 \in 0 .. Trips /\ 0 \in 0 .. MAX_RETRIES
    BY <1>t DEF Sides, MAX_RETRIES
  <2>4. /\ side' \in [Sides -> {"idle", "pin", "arrive", "check", "swap", "end"}]
        /\ abort' \in BOOLEAN /\ flag' \in Sides /\ left' \in [Sides -> 0 .. Trips]
        /\ pair' = NoPair /\ cal' = "next" /\ retry_count' \in 0 .. MAX_RETRIES
    BY <2>1, <2>3 DEF Settle
  <2>5. /\ todo' = todo /\ latency_matrix' = latency_matrix /\ locked' = locked
        /\ etd_efd_write' = etd_efd_write /\ efd' = efd
    BY <1>13 DEF PairFailed, PairMeasured
  <2>6. QED
    BY <1>13, <2>2, <2>4, <2>5 DEF mainVars, TypeOK, CalTypeOK, Symmetric
<1>14. CASE (AllMeasured \/ LockMatrix \/ StoreMatrix \/ SignalDone) /\ UNCHANGED mainVars
  <2>0. UNCHANGED mainVars
    BY <1>14
  <2> USE <2>0 DEF threadVars, mainVars, TypeOK, CalTypeOK
  <2>1. CASE AllMeasured
    BY <2>1 DEF AllMeasured, Symmetric
  <2>2. CASE LockMatrix
    BY <2>2 DEF LockMatrix, Symmetric
  <2>3. CASE StoreMatrix
    <3>1. Symmetric(matrix') <=> Symmetric(Empty)
      BY <2>3 DEF StoreMatrix
    <3>2. matrix' \in [CpuPairs -> Nat] /\ latency_matrix' \in [CpuPairs -> Nat]
      BY <2>3, <1>s DEF StoreMatrix
    <3>3. TypeOK'
      <4>1. /\ cal' = "signal" /\ locked' = FALSE
            /\ UNCHANGED <<args, todo, pair, retry_count, threadVars, etd_efd_write, efd>>
        BY <2>3 DEF StoreMatrix
      <4>2. CalTypeOK'
        BY <3>2, <4>1
      <4>3. QED
        BY <4>2, <2>0 DEF TypeOK, mainVars
    <3>4. Symmetric(matrix)'
      BY <1>s, <3>1 DEF Symmetric
    <3>5. cal' = "signal"
      BY <2>3 DEF StoreMatrix
    <3> HIDE DEF TypeOK
    <3>6. QED
      BY <3>3, <3>4, <3>5
  <2>4. CASE SignalDone
    <3>1. efd' \in {0, 1}
      BY <2>4 DEF SignalDone
    <3>2. /\ cal' = "done" /\ etd_efd_write' = FALSE
          /\ UNCHANGED <<args, todo, pair, retry_count, matrix, side, abort, flag, left,
                        latency_matrix, locked>>
      BY <2>4 DEF SignalDone
    <3>3. CalTypeOK'
      BY <3>1, <3>2
    <3>4. TypeOK'
      <4> HIDE DEF CalTypeOK
      <4>1. QED
        BY <2>0, <3>3
    <3>5. Symmetric(matrix)'
      BY <3>2 DEF Symmetric
    <3> HIDE DEF TypeOK
    <3>6. QED
      BY <3>2, <3>4, <3>5
  <2>5. QED
    BY <1>14, <2>1, <2>2, <2>3, <2>4
<1>15. QED
  BY <1>1, <1>2, <1>3, <1>4, <1>5, <1>6, <1>7, <1>8, <1>9, <1>11, <1>12, <1>13, <1>14,
    NextCases

THEOREM TypeInvariance == Spec => []TypeInv
BY TypeInit, TypeStep, PTL DEF Spec, Safety

(* Every variable of the loader keeps its type, for every machine and       *)
(* command line: the costs of LLC pairs fit the 8 bits of the table.       *)
THEOREM LoaderTypeCorrect == Spec => []TypeOK
BY TypeInvariance, PTL DEF TypeInv
-----------------------------------------------------------------------------
(* Turns *)

(* Both idle; or both on their way to the barrier with nothing exchanged;   *)
(* or both past it, where the flag tells who is one exchange ahead unless   *)
(* they gave up.                                                           *)
TurnInv ==
  \/ \A s \in Sides : side[s] = "idle"
  \/ /\ \A s \in Sides : side[s] \in {"pin", "arrive"}
     /\ flag = "ping" /\ left = [s \in Sides |-> Trips]
  \/ /\ \A s \in Sides : side[s] \in {"check", "swap", "end"}
     /\ abort => \A s \in Sides : side[s] # "swap"
     /\ ~abort => left["ping"] - left["pong"] = IF flag = "pong" THEN 1 ELSE 0

LEMMA TurnInit == Init => TurnInv
BY DEF Init, CalInit, TurnInv

LEMMA TurnStep == TypeInv /\ TurnInv /\ [Next]_vars => TurnInv'
<1> SUFFICES ASSUME TypeInv, TurnInv, [Next]_vars PROVE TurnInv'
  OBVIOUS
<1>t. /\ side \in [Sides -> {"idle", "pin", "arrive", "check", "swap", "end"}]
      /\ left \in [Sides -> 0 .. Trips] /\ flag \in Sides /\ abort \in BOOLEAN
      /\ Trips \in Nat \ {0}
  BY CalibrationAssumption DEF TypeInv, TypeOK, CalTypeOK
<1>1. CASE UNCHANGED threadVars
  BY <1>1 DEF threadVars, TurnInv
<1>2. CASE UNCHANGED vars
  BY <1>1, <1>2 DEF vars, calVars, threadVars
<1>3. CASE \/ StartCalibration \/ Load \/ Attach \/ Splash \/ FirstWrite \/ TuiTurn
           \/ BlockSignals \/ Wake \/ Timeout \/ TuiQuit \/ SignalArrives \/ BpfExits
  BY <1>1, <1>3 DEF StartCalibration, Load, Attach, Splash, FirstWrite, TuiTurn, BlockSignals,
    Wake, Timeout, TuiQuit, SignalArrives, BpfExits, calVars, threadVars
<1>4. CASE AllMeasured \/ LockMatrix \/ StoreMatrix \/ SignalDone
  BY <1>1, <1>4 DEF AllMeasured, LockMatrix, StoreMatrix, SignalDone
<1>5. CASE NextPair \/ PairNoisy
  BY <1>5 DEF NextPair, PairNoisy, StartPair, TurnInv
<1>6. CASE PairFailed \/ PairMeasured
  BY <1>6 DEF PairFailed, PairMeasured, Settle, TurnInv
<1>7. CASE PairThreads
  <2>1. CASE Barrier
    <3>1. /\ \A s \in Sides : side[s] = "arrive"
          /\ side' = [s \in Sides |-> "check"] /\ flag' = flag /\ left' = left
      BY <2>1 DEF Barrier
    <3>2. flag = "ping" /\ left = [s \in Sides |-> Trips]
      BY <3>1 DEF TurnInv, Sides
    <3>3. left["ping"] - left["pong"] = 0
      BY <3>2, <1>t DEF Sides
    <3>4. QED
      BY <3>1, <3>2, <3>3 DEF TurnInv
  <2>2. ASSUME NEW s \in Sides, Pin(s)
        PROVE  TurnInv'
    <3>1. /\ side[s] = "pin" /\ side' = [side EXCEPT ![s] = "arrive"]
          /\ flag' = flag /\ left' = left
      BY <2>2 DEF Pin
    <3>2. /\ \A o \in Sides : side[o] \in {"pin", "arrive"}
          /\ flag = "ping" /\ left = [o \in Sides |-> Trips]
      BY <3>1 DEF TurnInv
    <3>3. \A o \in Sides : side'[o] \in {"pin", "arrive"}
      BY <3>1, <3>2, <1>t
    <3>4. QED
      BY <3>1, <3>2, <3>3 DEF TurnInv
  <2>3. ASSUME NEW s \in Sides, CheckAbort(s)
        PROVE  TurnInv'
    <3>1. /\ side[s] = "check"
          /\ side' = [side EXCEPT ![s] = IF abort THEN "end" ELSE "swap"]
          /\ abort' = abort /\ flag' = flag /\ left' = left
      BY <2>3 DEF CheckAbort
    <3>2. /\ \A o \in Sides : side[o] \in {"check", "swap", "end"}
          /\ abort => \A o \in Sides : side[o] # "swap"
          /\ ~abort => left["ping"] - left["pong"] = IF flag = "pong" THEN 1 ELSE 0
      BY <3>1 DEF TurnInv
    <3>3. /\ \A o \in Sides : side'[o] \in {"check", "swap", "end"}
          /\ abort => \A o \in Sides : side'[o] # "swap"
      BY <3>1, <3>2, <1>t
    <3>4. QED
      BY <3>1, <3>2, <3>3 DEF TurnInv
  <2>4. ASSUME NEW s \in Sides, Exchange(s)
        PROVE  TurnInv'
    <3>1. /\ side[s] = "swap" /\ flag # s /\ flag' = s /\ abort' = abort
          /\ left' = [left EXCEPT ![s] = @ - 1]
          /\ side' = [side EXCEPT ![s] = IF left[s] = 1 THEN "end" ELSE "swap"]
      BY <2>4 DEF Exchange, MyTurn
    <3>2. /\ \A o \in Sides : side[o] \in {"check", "swap", "end"}
          /\ ~abort
          /\ left["ping"] - left["pong"] = IF flag = "pong" THEN 1 ELSE 0
      BY <3>1 DEF TurnInv
    <3>3. \A o \in Sides : side'[o] \in {"check", "swap", "end"}
      BY <3>1, <3>2, <1>t
    <3>4. left'["ping"] - left'["pong"] = IF flag' = "pong" THEN 1 ELSE 0
      BY <3>1, <3>2, <1>t DEF Sides
    <3>5. QED
      BY <3>1, <3>2, <3>3, <3>4 DEF TurnInv
  <2>5. QED
    BY <1>7, <2>1, <2>2, <2>3, <2>4 DEF PairThreads, Threads, SideStep
<1>8. QED
  BY <1>2, <1>3, <1>4, <1>5, <1>6, <1>7, NextCases

LEMMA TurnInvariance == Spec => []TurnInv
BY TypeInvariance, TurnInit, TurnStep, PTL DEF Spec, Safety

LEMMA TurnInvGivesTurns == TurnInv => TakeTurns
BY DEF TurnInv, TakeTurns, Sides

(* PING and PONG exchange strictly in turns, and only when both are pinned, *)
(* for every number of trips: the compare-and-swap loops of measure_pair    *)
(* cannot lose an exchange.                                                 *)
THEOREM TurnsAreTaken == Spec => []TakeTurns
BY TurnInvariance, TurnInvGivesTurns, PTL
-----------------------------------------------------------------------------
(* What is measured when *)

Measuring == {"next", "join", "lock", "store"}
Finished  == {"signal", "done"}

(* Every pair is waiting, in hand or in the matrix; after the last one the  *)
(* matrix has them all, and the shared one has them before the eventfd.    *)
MatrixInv ==
  /\ main = "new" => cal = "none"
  /\ cal # "none" => Pairs # {}
  /\ cal \in {"lock", "store"} => todo = {}
  /\ cal \in Measuring =>
       \A p \in Pairs : p \in todo \/ (cal = "join" /\ p = pair) \/ Both(matrix, p)
  /\ cal \in Finished => \A p \in Pairs : Both(latency_matrix, p)
  /\ cal \notin Finished => latency_matrix = Empty
  /\ locked => cal = "store"
  /\ efd = 1 => cal = "done"

LEMMA MatrixInit == Init => MatrixInv
BY DEF Init, CalInit, MatrixInv, Measuring, Finished

(* Pairs to sample leave pairs to sweep. *)
LEMMA SomePairs ==
  ASSUME args \in Settings, select_etd_pairs(cpu_llc_id) # {}
  PROVE  Pairs # {}
<1>1. PICK p \in select_etd_pairs(cpu_llc_id) : TRUE
  OBVIOUS
<1>2. /\ p \in (DOMAIN cpu_llc_id) \X (DOMAIN cpu_llc_id)
      /\ cpu_llc_id[p[1]] < cpu_llc_id[p[2]]
  BY DEF select_etd_pairs
<1>3. p[1] < p[2] \/ p[2] < p[1]
  BY <1>2, SettingFacts
<1>4. <<p[1], p[2]>> \in all_pairs(cpu_llc_id) \/ <<p[2], p[1]>> \in all_pairs(cpu_llc_id)
  BY <1>2, <1>3 DEF all_pairs
<1>5. QED
  BY <1>1, <1>4 DEF Pairs

LEMMA MatrixStep == TypeInv /\ MatrixInv /\ [Next]_vars => MatrixInv'
<1> SUFFICES ASSUME TypeInv, MatrixInv, [Next]_vars PROVE MatrixInv'
  OBVIOUS
<1>0. CpuPairs' = CpuPairs /\ Empty' = Empty /\ Pairs' = Pairs
  BY SettingKept
<1>s. args \in Settings /\ Pairs \subseteq CpuPairs
  BY SettingFacts DEF TypeInv, TypeOK, CalTypeOK
<1> USE <1>0 DEF Measuring, Finished
<1>1. CASE UNCHANGED <<main, cal, todo, pair, matrix, latency_matrix, locked, efd>>
  BY <1>1 DEF MatrixInv, Both
<1>2. CASE UNCHANGED vars
  BY <1>1, <1>2 DEF vars, calVars, mainVars
<1>3. CASE UNCHANGED <<cal, todo, pair, matrix, latency_matrix, locked>> /\ efd' \in {0, efd}
             /\ (main = "new" \/ main' # "new")
  BY <1>3 DEF MatrixInv, Both
<1>4. CASE StartCalibration
  <2>1. CASE select_etd_pairs(cpu_llc_id) = {}
    BY <1>3, <1>4, <2>1 DEF StartCalibration
  <2>2. CASE select_etd_pairs(cpu_llc_id) # {}
    <3>1. /\ cal = "none" /\ cal' = "next" /\ todo' = Pairs /\ main' = "load"
          /\ UNCHANGED <<pair, matrix, latency_matrix, locked, efd>>
      BY <1>4, <2>2 DEF StartCalibration, MatrixInv
    <3>2. Pairs # {}
      BY <1>s, <2>2, SomePairs
    <3>3. QED
      BY <3>1, <3>2 DEF MatrixInv
  <2>3. QED
    BY <2>1, <2>2
<1>5. CASE Load \/ Attach \/ Splash \/ FirstWrite \/ TuiTurn \/ BlockSignals \/ TuiQuit
  BY <1>3, <1>5 DEF Load, Attach, Splash, FirstWrite, TuiTurn, BlockSignals, TuiQuit, calVars
<1>6. CASE Wake \/ Timeout \/ SignalArrives \/ BpfExits
  BY <1>3, <1>6 DEF Wake, Timeout, SignalArrives, BpfExits, calVars
<1>7. CASE PairThreads
  BY <1>1, <1>7 DEF PairThreads, Threads, mainVars
<1>8. CASE NextPair /\ UNCHANGED mainVars
  <2>1. PICK p \in todo : /\ todo' = todo \ {p} /\ pair' = p
                          /\ cal = "next" /\ cal' = "join"
    BY <1>8 DEF NextPair, StartPair
  <2>2. UNCHANGED <<main, matrix, latency_matrix, locked, efd>>
    BY <1>8 DEF NextPair, mainVars
  <2>3. QED
    BY <2>1, <2>2 DEF MatrixInv, Both
<1>9. CASE PairNoisy /\ UNCHANGED mainVars
  <2>1. /\ cal = "join" /\ cal' = "join" /\ pair' = pair
        /\ UNCHANGED <<main, todo, matrix, latency_matrix, locked, efd>>
    BY <1>9 DEF PairNoisy, StartPair, mainVars
  <2>2. QED
    BY <1>1, <2>1
<1>10. CASE (PairFailed \/ PairMeasured) /\ UNCHANGED mainVars
  <2>1. PICK m : Settle(pair, m) /\ (m = matrix \/ \E ns \in Nat : m = Record(pair, ns))
    BY <1>10, CalibrationAssumption DEF PairFailed, PairMeasured
  <2>2. /\ cal = "join" /\ cal' = "next"
        /\ UNCHANGED <<main, todo, latency_matrix, locked, efd>>
    BY <1>10, <2>1 DEF PairFailed, PairMeasured, Settle, mainVars
  <2>3. /\ Both(matrix', pair)
        /\ \A q \in CpuPairs : Both(matrix, q) => Both(matrix', q)
    BY <2>1, <2>2, SettleFacts DEF TypeInv, TypeOK, CalTypeOK
  <2>4. \A p \in Pairs : p \in todo' \/ Both(matrix', p)
    BY <1>s, <2>2, <2>3 DEF MatrixInv
  <2>5. QED
    BY <2>2, <2>4 DEF MatrixInv, Both
<1>11. CASE AllMeasured /\ UNCHANGED mainVars
  BY <1>11 DEF AllMeasured, mainVars, MatrixInv, Both
<1>12. CASE LockMatrix /\ UNCHANGED mainVars
  BY <1>12 DEF LockMatrix, mainVars, MatrixInv, Both
<1>13. CASE StoreMatrix /\ UNCHANGED mainVars
  BY <1>13 DEF StoreMatrix, mainVars, MatrixInv, Both
<1>14. CASE SignalDone /\ UNCHANGED mainVars
  BY <1>14 DEF SignalDone, mainVars, MatrixInv, Both
<1>15. QED
  BY <1>2, <1>4, <1>5, <1>6, <1>7, <1>8, <1>9, <1>10, <1>11, <1>12, <1>13, <1>14, NextCases

THEOREM MatrixInvariance == Spec => [](TypeInv /\ MatrixInv)
BY TypeInvariance, MatrixInit, MatrixStep, PTL DEF Spec, Safety

(* When the eventfd fires the mutex is free and the matrix is there, so the *)
(* event is never consumed without the costs being written.                *)
THEOREM NotificationIsReliable == Spec => []NotifiedMeansReady
<1>1. TypeInv /\ MatrixInv => NotifiedMeansReady
  <2> SUFFICES ASSUME TypeInv, MatrixInv, efd = 1
               PROVE  CanWriteCosts
    BY DEF NotifiedMeansReady
  <2>1. cal = "done" /\ ~locked
    BY DEF MatrixInv, TypeInv, TypeOK, CalTypeOK
  <2>2. PICK p \in Pairs : Both(latency_matrix, p)
    BY <2>1 DEF MatrixInv, Finished
  <2>3. p \in DOMAIN latency_matrix
    BY SettingFacts DEF TypeInv, TypeOK, CalTypeOK
  <2>4. QED
    BY <2>1, <2>2, <2>3 DEF CanWriteCosts, Measured, Both
<1>2. QED
  BY <1>1, MatrixInvariance, PTL
-----------------------------------------------------------------------------
(* The cost table *)

(* Two LLCs are joined by a pair that gets measured, in one order or the    *)
(* other.                                                                  *)
Joins(p, a, b) ==
  \/ cpu_llc_id[p[1]] = a /\ cpu_llc_id[p[2]] = b
  \/ cpu_llc_id[p[1]] = b /\ cpu_llc_id[p[2]] = a

LEMMA PairsCover ==
  ASSUME args \in Settings, NEW a \in Llcs, NEW b \in Llcs, a # b
  PROVE  \E p \in Pairs : Joins(p, a, b)
<1>1. a \in Nat /\ b \in Nat
  BY SettingFacts DEF Llcs, Populated
<1>2. CASE args.full_sweep
  <2>1. PICK c \in DOMAIN cpu_llc_id, d \in DOMAIN cpu_llc_id :
          cpu_llc_id[c] = a /\ cpu_llc_id[d] = b
    BY DEF Llcs, Populated
  <2>2. c < d \/ d < c
    BY <2>1, SettingFacts
  <2>3. <<c, d>> \in all_pairs(cpu_llc_id) \/ <<d, c>> \in all_pairs(cpu_llc_id)
    BY <2>2 DEF all_pairs
  <2>4. QED
    BY <1>2, <2>1, <2>3 DEF Pairs, Joins
<1>3. CASE ~args.full_sweep
  <2>1. ASSUME NEW x \in Llcs, NEW y \in Llcs, x < y
        PROVE  \E p \in select_etd_pairs(cpu_llc_id) :
                 cpu_llc_id[p[1]] = x /\ cpu_llc_id[p[2]] = y
    BY <2>1, SettingFacts, EveryLlcPairIsSampled DEF Llcs
  <2>2. a < b \/ b < a
    BY <1>1
  <2>3. QED
    BY <1>3, <2>1, <2>2 DEF Pairs, Joins
<1>4. QED
  BY <1>2, <1>3

(* What is written while the matrix is there leaves no cost at 0. *)
LEMMA WriteIsComplete ==
  ASSUME TypeInv, MatrixInv, try_write_etd_costs, LlcPairs' = LlcPairs
  PROVE  CostsComplete'
<1>1. CASE ~CanWriteCosts
  BY <1>1 DEF try_write_etd_costs, CostsComplete
<1>2. CASE CanWriteCosts
  <2>1. cal \in Finished
    <3>1. SUFFICES ASSUME latency_matrix = Empty PROVE FALSE
      BY DEF MatrixInv
    <3>2. QED
      BY <1>2, <3>1 DEF CanWriteCosts, Measured, Empty
  <2>2. latency_matrix \in [CpuPairs -> Nat] /\ args \in Settings
    BY DEF TypeInv, TypeOK, CalTypeOK
  <2>3. ASSUME NEW q \in LlcPairs, q[1] # q[2]
        PROVE  LlcCost(cpu_llc_id, latency_matrix, q[1], q[2]) > 0
    <3>1. PICK p \in Pairs : Joins(p, q[1], q[2])
      BY <2>2, <2>3, PairsCover DEF LlcPairs
    <3>2. /\ p \in CpuPairs /\ p = <<p[1], p[2]>>
          /\ latency_matrix[<<p[1], p[2]>>] > 0 /\ latency_matrix[<<p[2], p[1]>>] > 0
      BY <2>1, <2>2, SettingFacts DEF MatrixInv, Both, Rev, CpuPairs
    <3>3. \A c, d \in DOMAIN cpu_llc_id :
            cpu_llc_id[c] = q[1] /\ cpu_llc_id[d] = q[2] /\ latency_matrix[<<c, d>>] > 0
              => LlcCost(cpu_llc_id, latency_matrix, q[1], q[2]) > 0
      BY <2>2, <2>3, LlcCostRange DEF CpuPairs
    <3>4. p[1] \in DOMAIN cpu_llc_id /\ p[2] \in DOMAIN cpu_llc_id
      BY <3>2 DEF CpuPairs
    <3>5. QED
      BY <3>1, <3>2, <3>3, <3>4 DEF Joins
  <2>4. llc_etd_cost' = [q \in LlcPairs |-> LlcCost(cpu_llc_id, latency_matrix, q[1], q[2])]
    BY <1>2 DEF try_write_etd_costs
  <2>5. QED
    BY <2>3, <2>4 DEF CostsComplete
<1>3. QED
  BY <1>1, <1>2

(* Once the table is written every two different LLCs have a cost above 0,  *)
(* for every topology and whatever could not be pinned or timed: stealing   *)
(* never reads "unmeasured" (try_write_etd_costs, the fallback of          *)
(* calibrate_pairs and the choice of pairs of select_etd_pairs).           *)
THEOREM EveryCostIsWritten == Spec => []CostsComplete
<1>1. Init => CostsComplete
  BY DEF Init, CostsComplete
<1>2. TypeInv /\ MatrixInv /\ CostsComplete /\ [Next]_vars => CostsComplete'
  <2> SUFFICES ASSUME TypeInv, MatrixInv, CostsComplete, [Next]_vars PROVE CostsComplete'
    OBVIOUS
  <2>0. LlcPairs' = LlcPairs
    BY SettingKept
  <2>1. CASE UNCHANGED <<etd_written, llc_etd_cost>>
    BY <2>0, <2>1 DEF CostsComplete
  <2>2. CASE try_write_etd_costs
    BY <2>0, <2>2, WriteIsComplete
  <2>3. CASE UNCHANGED vars
    BY <2>1, <2>3 DEF vars, mainVars
  <2>4. CASE FirstWrite \/ Wake \/ Timeout
    BY <2>1, <2>2, <2>4 DEF FirstWrite, Wake, Timeout
  <2>5. CASE UNCHANGED mainVars
    BY <2>1, <2>5 DEF mainVars
  <2>6. CASE StartCalibration \/ Load \/ Attach \/ Splash \/ TuiTurn \/ BlockSignals
             \/ TuiQuit \/ SignalArrives \/ BpfExits
    BY <2>1, <2>6 DEF StartCalibration, Load, Attach, Splash, TuiTurn, BlockSignals, TuiQuit,
      SignalArrives, BpfExits
  <2>7. QED
    BY <2>3, <2>4, <2>5, <2>6, NextCases DEF PairThreads
<1>3. QED
  BY <1>1, <1>2, MatrixInvariance, PTL DEF Spec, Safety
-----------------------------------------------------------------------------
(* How many steps calibration still takes *)

(* A thread of a pair exists only while the pair is measured. *)
BusyInv == cal # "join" => \A s \in Sides : side[s] = "idle"

LEMMA BusyInit == Init => BusyInv
BY DEF Init, CalInit, BusyInv, Sides

LEMMA BusyStep == MatrixInv /\ BusyInv /\ [Next]_vars => BusyInv'
<1> SUFFICES ASSUME MatrixInv, BusyInv, [Next]_vars PROVE BusyInv'
  OBVIOUS
<1>1. CASE cal # "join" /\ UNCHANGED threadVars
  BY <1>1 DEF BusyInv, threadVars
<1>2. CASE UNCHANGED <<cal, side>>
  BY <1>2 DEF BusyInv
<1>3. CASE UNCHANGED vars
  BY <1>2, <1>3 DEF vars, calVars
<1>4. CASE StartCalibration
  <2>1. UNCHANGED side
    BY <1>4 DEF StartCalibration, threadVars
  <2>2. cal = "none"
    BY <1>4 DEF StartCalibration, MatrixInv
  <2> QED BY <2>1, <2>2 DEF BusyInv
<1>5. CASE \/ Load \/ Attach \/ Splash \/ FirstWrite \/ TuiTurn \/ BlockSignals \/ Wake
           \/ Timeout \/ TuiQuit \/ SignalArrives \/ BpfExits
  BY <1>2, <1>5 DEF Load, Attach, Splash, FirstWrite, TuiTurn, BlockSignals, Wake, Timeout,
    TuiQuit, SignalArrives, BpfExits, calVars, threadVars
<1>6. CASE AllMeasured \/ LockMatrix \/ StoreMatrix \/ SignalDone
  BY <1>1, <1>6 DEF AllMeasured, LockMatrix, StoreMatrix, SignalDone
<1>7. CASE NextPair \/ PairNoisy
  BY <1>7 DEF NextPair, PairNoisy, StartPair, BusyInv
<1>8. CASE PairFailed \/ PairMeasured
  BY <1>8 DEF PairFailed, PairMeasured, Settle, BusyInv
<1>9. CASE PairThreads
  <2>1. cal = "join"
    <3>1. (\E s \in Sides : SideStep(s)) \/ Barrier
      BY <1>9 DEF PairThreads, Threads
    <3>2. \E s \in Sides : side[s] # "idle"
      BY <3>1 DEF SideStep, Pin, CheckAbort, Exchange, Barrier, Sides
    <3> QED BY <3>2 DEF BusyInv
  <2>2. cal' = cal
    BY <1>9 DEF PairThreads, Threads
  <2> QED BY <2>1, <2>2 DEF BusyInv
<1> QED BY <1>3, <1>4, <1>5, <1>6, <1>7, <1>8, <1>9, NextCases

LEMMA BusyInvariance == Spec => [](TypeInv /\ BusyInv)
BY MatrixInvariance, BusyInit, BusyStep, PTL DEF Spec, Safety

LEMMA RoundFacts ==
  /\ Trips \in Nat \ {0} /\ Round \in Nat /\ Round = 2 * (Trips + 3) + 1
  /\ PerPair \in Nat /\ PerPair = 4 * Round + 1 /\ MAX_RETRIES = 3
<1>1. Trips \in Nat \ {0}
  BY CalibrationAssumption
<1>2. Round \in Nat /\ Round = 2 * (Trips + 3) + 1
  BY <1>1 DEF Round
<1>3. PerPair = 4 * Round + 1
  BY <1>2 DEF PerPair, MAX_RETRIES
<1> QED BY <1>1, <1>2, <1>3 DEF MAX_RETRIES

(* Rounds left, one by one: 3 retries is MAX_RETRIES. *)
LEMMA RoundsLeft ==
  ASSUME NEW r \in 0 .. 3
  PROVE  /\ (3 - r) * Round \in 0 .. 3 * Round
         /\ r # 3 => (3 - (r + 1)) * Round = (3 - r) * Round - Round
<1>1. CASE r = 0
  BY <1>1, RoundFacts
<1>2. CASE r = 1
  BY <1>2, RoundFacts
<1>3. CASE r = 2
  BY <1>3, RoundFacts
<1>4. CASE r = 3
  BY <1>4, RoundFacts
<1> QED BY <1>1, <1>2, <1>3, <1>4

LEMMA SideLeftType ==
  ASSUME TypeInv, NEW s \in Sides
  PROVE  SideLeft(s) \in 0 .. Trips + 3
<1>1. left[s] \in 0 .. Trips
  BY DEF TypeInv, TypeOK, CalTypeOK
<1>2. SideLeft(s) \in {Trips + 3, Trips + 2, Trips + 1, left[s], 0}
  BY DEF SideLeft
<1>3. Trips \in Nat
  BY RoundFacts
<1> HIDE DEF SideLeft
<1> QED BY <1>1, <1>2, <1>3

LEMMA BothSidesType ==
  TypeInv => SideLeft("ping") \in 0 .. Trips + 3 /\ SideLeft("pong") \in 0 .. Trips + 3
<1>1. "ping" \in Sides /\ "pong" \in Sides
  BY DEF Sides
<1> QED BY <1>1, SideLeftType

LEMMA CalLeftType == TypeInv => CalLeft \in Nat
<1> SUFFICES ASSUME TypeInv PROVE CalLeft \in Nat
  OBVIOUS
<1>1. SideLeft("ping") \in Nat /\ SideLeft("pong") \in Nat
  <2>1. "ping" \in Sides /\ "pong" \in Sides
    BY DEF Sides
  <2> QED BY <2>1, SideLeftType, RoundFacts
<1>2. (MAX_RETRIES - retry_count) * Round \in Nat
  <2>1. retry_count \in 0 .. 3
    BY RoundFacts DEF TypeInv, TypeOK, CalTypeOK
  <2> QED BY <2>1, RoundsLeft, RoundFacts
<1>3. 5 + (MAX_RETRIES - retry_count) * Round + SideLeft("ping") + SideLeft("pong") \in Nat
  BY <1>1, <1>2
<1> QED BY <1>3 DEF CalLeft

LEMMA TodoFinite ==
  ASSUME TypeInv
  PROVE  IsFiniteSet(todo) /\ Cardinality(todo) \in Nat
<1>1. IsFiniteSet(CpuPairs)
  BY SettingFacts, FS_Product DEF TypeInv, TypeOK, CalTypeOK, CpuPairs
<1>2. todo \subseteq CpuPairs
  BY DEF TypeInv, TypeOK, CalTypeOK
<1> QED BY <1>1, <1>2, FS_Subset, FS_CardinalityType

LEMMA StepsLeftType == TypeInv => StepsLeft \in Nat
<1> SUFFICES ASSUME TypeInv PROVE StepsLeft \in Nat
  OBVIOUS
<1> DEFINE n == Cardinality(todo)
<1>1. n \in Nat /\ CalLeft \in Nat /\ PerPair \in Nat
  BY CalLeftType, TodoFinite, RoundFacts
<1> HIDE DEF n
<1>2. n * PerPair \in Nat
  BY ONLY <1>1
<1>3. n * PerPair + CalLeft \in Nat
  BY ONLY <1>1, <1>2
<1> QED BY <1>3 DEF StepsLeft, n

(* While the pairs that wait stay the same, the place of the calibration   *)
(* thread decides.                                                         *)
LEMMA SameTodo ==
  ASSUME TypeInv, TypeInv', todo' = todo, CalLeft' < CalLeft
  PROVE  StepsLeft' < StepsLeft
<1>1. ASSUME NEW n \in Int, NEW x \in Int, NEW y \in Int, y < x
      PROVE  n + y < n + x
  BY <1>1
<1>2. Cardinality(todo) * PerPair \in Int
  BY TodoFinite, RoundFacts
<1>3. CalLeft \in Int
  BY CalLeftType
<1>4. CalLeft' \in Int
  <2>1. (CalLeft \in Nat)'
    BY CalLeftType, PTL
  <2> QED BY <2>1
<1> QED BY <1>1, <1>2, <1>3, <1>4 DEF StepsLeft

(* A pair in hand: what its two threads have left decides. *)
LEMMA SidesShrink ==
  ASSUME TypeInv, TypeInv', cal = "join", UNCHANGED <<cal, todo, retry_count>>,
         NEW s \in Sides, SideLeft(s)' < SideLeft(s),
         \A o \in Sides : o # s => SideLeft(o)' <= SideLeft(o)
  PROVE  StepsLeft' < StepsLeft
<1>1. /\ SideLeft("ping") \in Nat /\ SideLeft("pong") \in Nat
      /\ SideLeft("ping")' \in Nat /\ SideLeft("pong")' \in Nat
  <2>1. "ping" \in Sides /\ "pong" \in Sides
    BY DEF Sides
  <2>2. \A x \in 0 .. Trips + 3 : x \in Nat
    BY RoundFacts
  <2>3. (SideLeft("ping") \in 0 .. Trips + 3)' /\ (SideLeft("pong") \in 0 .. Trips + 3)'
    BY <2>1, BothSidesType, PTL
  <2> QED BY <2>1, <2>2, <2>3, SideLeftType
<1> DEFINE base == 5 + (MAX_RETRIES - retry_count) * Round
<1>2. /\ CalLeft = base + SideLeft("ping") + SideLeft("pong")
      /\ CalLeft' = base + SideLeft("ping")' + SideLeft("pong")'
  BY DEF CalLeft
<1>3. base \in Int
  <2>1. retry_count \in 0 .. 3
    BY RoundFacts DEF TypeInv, TypeOK, CalTypeOK
  <2>2. (3 - retry_count) * Round \in Nat
    BY <2>1, RoundsLeft, RoundFacts
  <2> QED BY <2>2, RoundFacts
<1> HIDE DEF base
<1>4. \/ SideLeft("ping")' < SideLeft("ping") /\ SideLeft("pong")' <= SideLeft("pong")
      \/ SideLeft("pong")' < SideLeft("pong") /\ SideLeft("ping")' <= SideLeft("ping")
  BY DEF Sides
<1>5. CalLeft' < CalLeft
  BY ONLY <1>1, <1>2, <1>3, <1>4
<1> QED BY <1>5, SameTodo

(* What PING and PONG do. *)
LEMMA ThreadsShrink ==
  ASSUME TypeInv, TypeInv', BusyInv, PairThreads
  PROVE  StepsLeft' < StepsLeft
<1>t. /\ side \in [Sides -> {"idle", "pin", "arrive", "check", "swap", "end"}]
      /\ left \in [Sides -> 0 .. Trips] /\ Trips \in Nat \ {0}
  BY RoundFacts DEF TypeInv, TypeOK, CalTypeOK
<1>1. UNCHANGED <<cal, todo, retry_count>>
  BY DEF PairThreads, Threads
<1>2. cal = "join"
  <2>1. (\E s \in Sides : SideStep(s)) \/ Barrier
    BY DEF PairThreads, Threads
  <2>2. \E s \in Sides : side[s] # "idle"
    BY <2>1 DEF SideStep, Pin, CheckAbort, Exchange, Barrier, Sides
  <2> QED BY <2>2 DEF BusyInv
<1>3. ASSUME NEW s \in Sides, SideStep(s)
      PROVE  /\ SideLeft(s)' < SideLeft(s)
             /\ \A o \in Sides : o # s => SideLeft(o)' <= SideLeft(o)
  <2>1. \A o \in Sides : o # s => side'[o] = side[o] /\ left'[o] = left[o]
    BY <1>3, <1>t DEF SideStep, Pin, CheckAbort, Exchange
  <2>2. \A o \in Sides : o # s => SideLeft(o)' = SideLeft(o)
    BY <2>1 DEF SideLeft
  <2>3. \A o \in Sides : SideLeft(o) \in 0 .. Trips + 3
    BY SideLeftType
  <2>4. \A o \in Sides : o # s => SideLeft(o)' <= SideLeft(o)
    BY <2>2, <2>3, <1>t
  <2>5. CASE Pin(s)
    <3>1. side[s] = "pin" /\ side'[s] = "arrive"
      BY <2>5, <1>t DEF Pin
    <3>2. SideLeft(s) = Trips + 3 /\ SideLeft(s)' = Trips + 2
      BY <3>1 DEF SideLeft
    <3> QED BY <1>t, <2>4, <3>2
  <2>6. CASE CheckAbort(s)
    <3>1. /\ side[s] = "check" /\ side'[s] \in {"end", "swap"}
          /\ left'[s] = left[s] /\ left[s] \in 0 .. Trips
      BY <2>6, <1>t DEF CheckAbort
    <3>2. SideLeft(s) = Trips + 1 /\ SideLeft(s)' \in {0, left[s]}
      BY <3>1 DEF SideLeft
    <3> QED BY <1>t, <2>4, <3>1, <3>2
  <2>7. CASE Exchange(s)
    <3>1. /\ side[s] = "swap" /\ left[s] \in 1 .. Trips /\ left'[s] = left[s] - 1
          /\ side'[s] \in {"end", "swap"}
      BY <2>7, <1>t DEF Exchange
    <3>2. SideLeft(s) = left[s] /\ SideLeft(s)' \in {0, left[s] - 1}
      BY <3>1 DEF SideLeft
    <3> QED BY <1>t, <2>4, <3>1, <3>2
  <2> QED BY <1>3, <2>5, <2>6, <2>7 DEF SideStep
<1>4. CASE Barrier
  <2>1. \A s \in Sides : side[s] = "arrive" /\ side'[s] = "check"
    BY <1>4 DEF Barrier
  <2>2. \A s \in Sides : SideLeft(s) = Trips + 2 /\ SideLeft(s)' = Trips + 1
    BY <2>1 DEF SideLeft
  <2>3. "ping" \in Sides
    BY DEF Sides
  <2>4. \A s \in Sides : SideLeft(s)' < SideLeft(s) /\ SideLeft(s)' <= SideLeft(s)
    BY <2>2, <1>t
  <2> QED BY <1>1, <1>2, <2>3, <2>4, SidesShrink
<1> QED BY <1>1, <1>2, <1>3, <1>4, SidesShrink DEF PairThreads, Threads

(* The calibration thread: a new pair, a further round of the one in hand,  *)
(* the end of it, and the way to the end.                                  *)
LEMMA StartedPair ==
  ASSUME NEW p, StartPair(p)
  PROVE  /\ cal' = "join"
         /\ SideLeft("ping")' = Trips + 3 /\ SideLeft("pong")' = Trips + 3
BY DEF StartPair, SideLeft, Sides

LEMMA NextPairShrinks ==
  ASSUME TypeInv, TypeInv', NextPair
  PROVE  StepsLeft' < StepsLeft
<1>1. PICK p \in todo : StartPair(p) /\ todo' = todo \ {p}
  BY DEF NextPair
<1>2. cal = "next" /\ retry_count' = retry_count /\ retry_count \in 0 .. 3
  BY RoundFacts DEF NextPair, TypeInv, TypeOK, CalTypeOK
<1> DEFINE n == Cardinality(todo)
           rounds == (3 - retry_count) * Round
<1>3. n \in Nat \ {0} /\ Cardinality(todo') = n - 1
  <2>1. IsFiniteSet(todo) /\ n \in Nat
    BY TodoFinite
  <2>2. Cardinality(todo') = n - 1
    BY <1>1, <2>1, FS_RemoveElement
  <2>3. n # 0
    BY <1>1, <2>1, FS_EmptySet
  <2> QED BY <2>1, <2>2, <2>3
<1>4. rounds \in 0 .. 3 * Round
  BY <1>2, RoundsLeft
<1>5. CalLeft = 4 /\ CalLeft' = 5 + rounds + (Trips + 3) + (Trips + 3)
  BY <1>1, <1>2, StartedPair, RoundFacts DEF CalLeft
<1>6. StepsLeft = n * PerPair + 4
      /\ StepsLeft' = (n - 1) * PerPair + (5 + rounds + (Trips + 3) + (Trips + 3))
  BY <1>3, <1>5 DEF StepsLeft, PerPair, Round
<1> HIDE DEF n, rounds
<1>7. (n - 1) * PerPair = n * PerPair - PerPair /\ n * PerPair \in Int
  BY ONLY <1>3, RoundFacts
<1>8. (5 + rounds + (Trips + 3) + (Trips + 3)) - PerPair < 4
  BY ONLY <1>4, RoundFacts
<1> QED BY ONLY <1>4, <1>6, <1>7, <1>8, RoundFacts

LEMMA CalThreadShrinks ==
  ASSUME TypeInv, TypeInv', CalStep
  PROVE  StepsLeft' < StepsLeft
<1>r. retry_count \in 0 .. 3 /\ (3 - retry_count) * Round \in Nat
  <2>1. retry_count \in 0 .. 3
    BY RoundFacts DEF TypeInv, TypeOK, CalTypeOK
  <2> QED BY <2>1, RoundsLeft, RoundFacts
<1>1. CASE NextPair
  BY <1>1, NextPairShrinks
<1>2. CASE PairFailed \/ PairMeasured
  <2>1. cal = "join" /\ cal' = "next" /\ todo' = todo
    BY <1>2 DEF PairFailed, PairMeasured, Settle
  <2>2. SideLeft("ping") = 0 /\ SideLeft("pong") = 0
    BY <1>2 DEF PairFailed, PairMeasured, BothEnded, Sides, SideLeft
  <2>3. CalLeft = 5 + (3 - retry_count) * Round + 0 + 0 /\ CalLeft' = 4
    BY <2>1, <2>2, RoundFacts DEF CalLeft
  <2>4. CalLeft' < CalLeft
    BY ONLY <1>r, <2>3
  <2> QED BY <2>1, <2>4, SameTodo
<1>3. CASE PairNoisy
  <2>1. /\ cal = "join" /\ cal' = "join" /\ todo' = todo
        /\ retry_count # 3 /\ retry_count' = retry_count + 1
        /\ SideLeft("ping")' = Trips + 3 /\ SideLeft("pong")' = Trips + 3
    BY <1>3, <1>r, RoundFacts, StartedPair DEF PairNoisy
  <2>2. SideLeft("ping") = 0 /\ SideLeft("pong") = 0
    BY <1>3 DEF PairNoisy, BothEnded, Sides, SideLeft
  <2> DEFINE rounds == (3 - retry_count) * Round
  <2>3. (3 - (retry_count + 1)) * Round = rounds - Round
    BY <1>r, <2>1, RoundsLeft
  <2>4. CalLeft = 5 + rounds + 0 + 0
        /\ CalLeft' = 5 + (rounds - Round) + (Trips + 3) + (Trips + 3)
    <3>1. MAX_RETRIES = 3
      BY RoundFacts
    <3>2. CalLeft = 5 + (3 - retry_count) * Round + 0 + 0
      BY <2>1, <2>2, <3>1 DEF CalLeft
    <3>3. CalLeft' = 5 + (3 - retry_count') * Round + (Trips + 3) + (Trips + 3)
      BY <2>1, <3>1 DEF CalLeft, Round
    <3> QED BY <2>1, <2>3, <3>2, <3>3
  <2>5. rounds \in Nat
    BY <1>r
  <2> HIDE DEF rounds
  <2>6. CalLeft' < CalLeft
    BY ONLY <2>4, <2>5, RoundFacts
  <2> QED BY <2>1, <2>6, SameTodo
<1>4. CASE AllMeasured \/ LockMatrix \/ StoreMatrix \/ SignalDone
  <2>1. CalLeft' < CalLeft
    BY <1>4 DEF AllMeasured, LockMatrix, StoreMatrix, SignalDone, CalLeft
  <2>2. todo' = todo
    BY <1>4 DEF AllMeasured, LockMatrix, StoreMatrix, SignalDone
  <2> QED BY <2>1, <2>2, SameTodo
<1> QED BY <1>1, <1>2, <1>3, <1>4 DEF CalStep

(* No step of the main thread and nothing from outside sends calibration   *)
(* back.                                                                   *)
LEMMA OthersKeepSteps ==
  ASSUME MatrixInv, cal # "none", MainStep \/ TuiQuit \/ SignalArrives \/ BpfExits
  PROVE  StepsLeft' = StepsLeft
<1>1. UNCHANGED <<cal, todo, retry_count, side, left>>
  <2>1. ~StartCalibration
    BY DEF StartCalibration, MatrixInv
  <2> QED BY <2>1 DEF MainStep, Load, Attach, Splash, FirstWrite, TuiTurn, BlockSignals, Wake,
        Timeout, TuiQuit, SignalArrives, BpfExits, calVars, threadVars
<1>2. SideLeft("ping")' = SideLeft("ping") /\ SideLeft("pong")' = SideLeft("pong")
  BY <1>1 DEF SideLeft
<1>3. CalLeft' = CalLeft
  BY <1>1, <1>2 DEF CalLeft, Round
<1> QED BY <1>1, <1>3 DEF StepsLeft, PerPair, Round

(* Calibration takes a bounded number of steps: for any pairs, trips and   *)
(* latencies, StepsLeft is a natural number that every step of the          *)
(* calibration thread, of PING and of PONG lowers, whatever cannot be       *)
(* pinned and however often a pair is noisy.                               *)
THEOREM CalibrationIsBounded == Spec => CalibrationShrinks /\ [](StepsLeft \in Nat)
<1>1. ASSUME TypeInv, TypeInv', BusyInv, MatrixInv, [Next]_vars, cal # "none"
      PROVE  /\ StepsLeft' <= StepsLeft
             /\ CalThread \/ PairThreads => StepsLeft' < StepsLeft
  <2>1. StepsLeft \in Nat /\ (StepsLeft \in Nat)'
    BY <1>1, StepsLeftType, PTL
  <2>2. CalThread \/ PairThreads => StepsLeft' < StepsLeft
    BY <1>1, CalThreadShrinks, ThreadsShrink DEF CalThread
  <2>3. CASE MainStep \/ TuiQuit \/ SignalArrives \/ BpfExits
    <3>1. StepsLeft' = StepsLeft
      BY <1>1, <2>3, OthersKeepSteps
    <3> QED BY <2>1, <2>2, <3>1
  <2>4. CASE UNCHANGED vars
    <3>1. StepsLeft' = StepsLeft
      BY <2>4 DEF vars, calVars, StepsLeft, CalLeft, SideLeft, PerPair, Round
    <3> QED BY <2>1, <2>2, <3>1
  <2>5. CASE CalThread \/ PairThreads
    BY <2>1, <2>2, <2>5
  <2> QED BY <1>1, <2>3, <2>4, <2>5 DEF Next
<1>2. TypeInv => StepsLeft \in Nat
  BY StepsLeftType
<1> QED BY <1>1, <1>2, BusyInvariance, MatrixInvariance, PTL DEF Spec, Safety, CalibrationShrinks

(* Nor does it get stuck before its end.  In a pair both threads are there; *)
(* one that exchanges has exchanges to make, and one that ended has made    *)
(* them all unless both give up.                                           *)
PairInv ==
  /\ cal = "join" => \A s \in Sides : side[s] # "idle"
  /\ \A s \in Sides : /\ side[s] = "swap" => left[s] > 0
                      /\ side[s] \in {"pin", "arrive", "check"} => left[s] = Trips
                      /\ side[s] = "end" /\ ~abort => left[s] = 0

LEMMA PairInit == Init => PairInv
BY DEF Init, CalInit, PairInv, Sides

LEMMA PairStep == TypeInv /\ TurnInv /\ BusyInv /\ MatrixInv /\ PairInv /\ [Next]_vars => PairInv'
<1> SUFFICES ASSUME TypeInv, TurnInv, BusyInv, MatrixInv, PairInv, [Next]_vars PROVE PairInv'
  OBVIOUS
<1>t. /\ side \in [Sides -> {"idle", "pin", "arrive", "check", "swap", "end"}]
      /\ left \in [Sides -> 0 .. Trips] /\ Trips \in Nat \ {0} /\ abort \in BOOLEAN
  BY RoundFacts DEF TypeInv, TypeOK, CalTypeOK
<1>1. CASE UNCHANGED threadVars /\ (cal' = "join" => cal = "join")
  BY <1>1 DEF PairInv, threadVars
<1>2. CASE UNCHANGED vars
  BY <1>1, <1>2 DEF vars, calVars, threadVars
<1>3. CASE \/ StartCalibration \/ Load \/ Attach \/ Splash \/ FirstWrite \/ TuiTurn
           \/ BlockSignals \/ Wake \/ Timeout \/ TuiQuit \/ SignalArrives \/ BpfExits
  <2>1. UNCHANGED threadVars
    BY <1>3 DEF StartCalibration, Load, Attach, Splash, FirstWrite, TuiTurn, BlockSignals,
      Wake, Timeout, TuiQuit, SignalArrives, BpfExits, calVars, threadVars
  <2>2. cal' = cal \/ cal' = "next"
    BY <1>3 DEF StartCalibration, Load, Attach, Splash, FirstWrite, TuiTurn, BlockSignals,
      Wake, Timeout, TuiQuit, SignalArrives, BpfExits, calVars, threadVars
  <2> QED BY <1>1, <2>1, <2>2
<1>4. CASE AllMeasured \/ LockMatrix \/ StoreMatrix \/ SignalDone
  BY <1>1, <1>4 DEF AllMeasured, LockMatrix, StoreMatrix, SignalDone
<1>5. CASE NextPair \/ PairNoisy
  BY <1>5 DEF NextPair, PairNoisy, StartPair, PairInv, Sides
<1>6. CASE PairFailed \/ PairMeasured
  BY <1>6 DEF PairFailed, PairMeasured, Settle, PairInv, Sides
<1>7. CASE PairThreads
  <2>1. UNCHANGED cal
    BY <1>7 DEF PairThreads, Threads
  <2>2. CASE Barrier
    BY <1>t, <2>1, <2>2 DEF Barrier, PairInv
  <2>3. ASSUME NEW s \in Sides, Pin(s)
        PROVE  PairInv'
    <3>1. /\ side[s] = "pin" /\ side' = [side EXCEPT ![s] = "arrive"] /\ left' = left
      BY <2>3 DEF Pin
    <3>2. \A o \in Sides : side'[o] \in {"pin", "arrive"} /\ left[o] = Trips
      BY <1>t, <3>1 DEF TurnInv, PairInv, Sides
    <3> QED BY <1>t, <2>1, <3>1, <3>2 DEF PairInv
  <2>4. ASSUME NEW s \in Sides, CheckAbort(s)
        PROVE  PairInv'
    <3>1. /\ side[s] = "check" /\ left[s] = Trips
          /\ side' = [side EXCEPT ![s] = IF abort THEN "end" ELSE "swap"]
          /\ UNCHANGED <<abort, left>>
      BY <2>4 DEF CheckAbort, PairInv
    <3> QED BY <1>t, <2>1, <3>1 DEF PairInv
  <2>5. ASSUME NEW s \in Sides, Exchange(s)
        PROVE  PairInv'
    <3>1. /\ side[s] = "swap" /\ left[s] \in 1 .. Trips /\ UNCHANGED abort
          /\ left' = [left EXCEPT ![s] = @ - 1]
          /\ side' = [side EXCEPT ![s] = IF left[s] = 1 THEN "end" ELSE "swap"]
      BY <1>t, <2>5 DEF Exchange
    <3>2. left'[s] = left[s] - 1 /\ side'[s] = IF left[s] = 1 THEN "end" ELSE "swap"
      BY <1>t, <3>1
    <3>3. \A o \in Sides : o # s => left'[o] = left[o] /\ side'[o] = side[o]
      BY <1>t, <3>1
    <3>4. side'[s] = "swap" => left'[s] > 0
      BY <3>1, <3>2
    <3>5. side'[s] = "end" => left'[s] = 0
      BY <3>1, <3>2
    <3> QED BY <2>1, <3>1, <3>2, <3>3, <3>4, <3>5 DEF PairInv
  <2> QED BY <1>7, <2>2, <2>3, <2>4, <2>5 DEF PairThreads, Threads, SideStep
<1> QED BY <1>2, <1>3, <1>4, <1>5, <1>6, <1>7, NextCases

(* The guard of some step of calibration, in words of its own: a verdict on *)
(* the pair, a thread to pin or to start, the barrier, or a compare-and-    *)
(* swap that succeeds.                                                     *)
SomeoneMoves ==
  \/ cal \in {"next", "lock", "store", "signal"}
  \/ BothEnded
  \/ \E s \in Sides : side[s] \in {"pin", "check"}
  \/ \A s \in Sides : side[s] = "arrive"
  \/ \E s \in Sides : side[s] = "swap" /\ left[s] > 0 /\ MyTurn(s)

(* From the start of calibration to its end somebody can go on: no thread   *)
(* waits at the barrier or spins on the flag for one that has left, for any *)
(* number of trips and whichever threads fail to pin themselves.  With      *)
(* CalibrationIsBounded this is CalibrationEnds but for the fairness.       *)
THEOREM CalibrationNeverStuck == Spec => [](cal \notin {"none", "done"} => SomeoneMoves)
<1>1. TypeInv /\ TurnInv /\ PairInv => (cal \notin {"none", "done"} => SomeoneMoves)
  <2> SUFFICES ASSUME TypeInv, TurnInv, PairInv, cal = "join",
                      ~ \E s \in Sides : side[s] \in {"pin", "check"},
                      ~ \A s \in Sides : side[s] = "arrive"
               PROVE  BothEnded \/ \E s \in Sides : side[s] = "swap" /\ left[s] > 0 /\ MyTurn(s)
    BY DEF SomeoneMoves, TypeInv, TypeOK, CalTypeOK
  <2>1. /\ \A s \in Sides : side[s] \in {"swap", "end"}
        /\ abort => \A s \in Sides : side[s] # "swap"
        /\ ~abort => left["ping"] - left["pong"] = IF flag = "pong" THEN 1 ELSE 0
    BY DEF TurnInv, PairInv, Sides
  <2>2. CASE \A s \in Sides : side[s] = "end"
    BY <2>2 DEF BothEnded
  <2>3. CASE \A s \in Sides : side[s] = "swap"
    BY <2>3 DEF MyTurn, PairInv, Sides
  <2>4. CASE side["ping"] = "swap" /\ side["pong"] = "end"
    <3>1. left["ping"] > 0 /\ left["pong"] = 0 /\ left["ping"] \in Nat /\ ~abort
      BY <2>1, <2>4, RoundFacts DEF PairInv, Sides, TypeInv, TypeOK, CalTypeOK
    <3>2. flag = "pong"
      BY <2>1, <3>1
    <3> QED BY <2>4, <3>1, <3>2 DEF MyTurn, Sides
  <2>5. CASE side["ping"] = "end" /\ side["pong"] = "swap"
    <3>1. left["pong"] > 0 /\ left["ping"] = 0 /\ left["pong"] \in Nat /\ ~abort
      BY <2>1, <2>5, RoundFacts DEF PairInv, Sides, TypeInv, TypeOK, CalTypeOK
    <3> QED BY <2>1, <3>1
  <2> QED BY <2>1, <2>2, <2>3, <2>4, <2>5 DEF Sides
<1> QED BY <1>1, MatrixInvariance, BusyInvariance, TurnInvariance, PairInit, PairStep, PTL
     DEF Spec, Safety

-----------------------------------------------------------------------------
(* The promise of Handover *)

(* Signals are only caught in the event loop, and only while there is no   *)
(* thread left that would die of them; the table is empty until written.   *)
CaughtInv ==
  /\ main \in {"new", "load", "attach", "splash", "first"} => ~etd_written
  /\ main = "load" => ~blocked
  /\ blocked => main \in {"poll", "ended"}
  /\ signalled => blocked /\ cal \in {"none", "done"}
  /\ ~etd_written => llc_etd_cost = NoCosts

LEMMA CaughtInit == Init => CaughtInv
BY DEF Init, CaughtInv

LEMMA CaughtStep == TypeInv /\ CaughtInv /\ [Next]_vars => CaughtInv'
<1> SUFFICES ASSUME TypeInv, CaughtInv, [Next]_vars PROVE CaughtInv'
  OBVIOUS
<1>0. NoCosts' = NoCosts
  BY SettingKept DEF NoCosts
<1>1. CASE UNCHANGED <<mainVars, cal>>
  BY <1>0, <1>1 DEF mainVars, CaughtInv
<1>2. CASE UNCHANGED vars
  BY <1>1, <1>2 DEF vars, calVars
<1>3. CASE UNCHANGED mainVars /\ CalStep
  <2>1. cal \notin {"none", "done"}
    BY <1>3 DEF CalStep, NextPair, PairFailed, PairMeasured, PairNoisy, AllMeasured, LockMatrix,
      StoreMatrix, SignalDone
  <2> QED BY <1>0, <1>3, <2>1 DEF mainVars, CaughtInv
<1>4. CASE PairThreads
  BY <1>1, <1>4 DEF PairThreads, Threads
<1>5. CASE StartCalibration
  <2>1. /\ main = "new" /\ main' = "load" /\ ~etd_written /\ ~blocked /\ ~signalled
        /\ UNCHANGED <<etd_written, blocked, signalled, llc_etd_cost>>
    BY <1>5 DEF StartCalibration, CaughtInv
  <2> QED BY <1>0, <2>1 DEF CaughtInv
<1>6. CASE Load \/ Attach \/ Splash \/ BlockSignals \/ TuiTurn \/ TuiQuit \/ BpfExits
  <2>1. UNCHANGED <<etd_written, llc_etd_cost, signalled, cal>>
    BY <1>6 DEF Load, Attach, Splash, BlockSignals, TuiTurn, TuiQuit, BpfExits, calVars
  <2>2. main' \in {"load", "attach", "splash", "first"} => ~etd_written
    BY <1>6 DEF Load, Attach, Splash, BlockSignals, TuiTurn, TuiQuit, BpfExits, CaughtInv
  <2>3. main' # "new" \/ main' = main
    BY <1>6 DEF Load, Attach, Splash, BlockSignals, TuiTurn, TuiQuit, BpfExits
  <2>4. /\ main' = "load" => ~blocked'
        /\ blocked' => main' \in {"poll", "ended"}
        /\ signalled => blocked'
    BY <1>6 DEF Load, Attach, Splash, BlockSignals, TuiTurn, TuiQuit, BpfExits, CaughtInv
  <2> QED BY <1>0, <2>1, <2>2, <2>3, <2>4 DEF CaughtInv
<1>7. CASE FirstWrite \/ Wake \/ Timeout
  <2>1. ~etd_written' => llc_etd_cost' = NoCosts'
    BY <1>0, <1>7 DEF FirstWrite, Wake, Timeout, try_write_etd_costs, CaughtInv
  <2>2. /\ main' \in {"tui", "block", "poll", "ended"}
        /\ UNCHANGED <<blocked, cal>> /\ (signalled' => signalled)
        /\ blocked => main' \in {"poll", "ended"}
    <3>1. CASE FirstWrite
      BY <3>1 DEF FirstWrite, calVars, CaughtInv
    <3>2. CASE Wake
      BY <3>2 DEF Wake
    <3>3. CASE Timeout
      BY <3>3 DEF Timeout, calVars
    <3> QED BY <1>7, <3>1, <3>2, <3>3
  <2> QED BY <2>1, <2>2 DEF CaughtInv
<1>8. CASE SignalArrives
  <2>1. UNCHANGED <<etd_written, llc_etd_cost, blocked, cal>>
    BY <1>8 DEF SignalArrives, calVars
  <2>2. \/ blocked /\ cal \in {"none", "done"} /\ main' = main
        \/ main' = "ended" /\ signalled' = signalled
    BY <1>8 DEF SignalArrives
  <2> QED BY <1>0, <2>1, <2>2 DEF CaughtInv
<1> QED BY <1>2, <1>3, <1>4, <1>5, <1>6, <1>7, <1>8 DEF Next, MainStep, CalThread

(* What Handover sees, in the loader's own terms. *)
Shown ==
  /\ ResultState = IF cal \in Finished THEN "there" ELSE "none"
  /\ TableState = IF etd_written THEN "complete" ELSE "unknown"

LEMMA TableShown ==
  ASSUME CostsComplete, CaughtInv, etd_written \in BOOLEAN
  PROVE  TableState = IF etd_written THEN "complete" ELSE "unknown"
BY DEF TableState, CrossLlc, CostsComplete, CaughtInv

LEMMA HandoverShown == TypeInv /\ MatrixInv /\ CostsComplete /\ CaughtInv => Shown
<1> SUFFICES ASSUME TypeInv, MatrixInv, CostsComplete, CaughtInv PROVE Shown
  OBVIOUS
<1>0. TableState = IF etd_written THEN "complete" ELSE "unknown"
  BY TableShown DEF TypeInv, TypeOK
<1>1. CASE cal \in Finished
  <2>1. PICK p \in Pairs : Both(latency_matrix, p)
    BY <1>1 DEF MatrixInv, Finished
  <2>2. p \in DOMAIN latency_matrix
    BY SettingFacts DEF TypeInv, TypeOK, CalTypeOK
  <2>3. Measured(latency_matrix)
    BY <2>1, <2>2 DEF Measured, Both
  <2> QED BY <1>0, <1>1, <2>3 DEF ResultState, Shown
<1>2. CASE cal \notin Finished
  <2>1. ~Measured(latency_matrix)
    BY <1>2 DEF MatrixInv, Measured, Empty
  <2> QED BY <1>0, <1>2, <2>1 DEF ResultState, Shown
<1> QED BY <1>1, <1>2

(* The four values of Handover before and after a step of the loader. *)
Kept == UNCHANGED <<ResultState, efd, TableState>>

LEMMA ShownKept ==
  ASSUME Shown, Shown', UNCHANGED <<efd, etd_written>>, cal' \in Finished <=> cal \in Finished
  PROVE  Kept
BY DEF Shown, Kept

LEMMA HandoverStutters ==
  ASSUME Kept, ProcessState' = ProcessState
  PROVE  UNCHANGED Promise!handoverVars
BY DEF Kept, Promise!handoverVars

LEMMA HandoverEnds ==
  ASSUME Kept, Alive, ~Alive'
  PROVE  Promise!End
BY DEF Kept, ProcessState, Promise!End

Implemented == [Promise!HandoverNext]_(Promise!handoverVars)

(* The calibration thread publishes and announces. *)
LEMMA CalThreadImplements ==
  ASSUME MatrixInv, CaughtInv, Shown, Shown', CalThread
  PROVE  Implemented
<1>1. Alive /\ CalStep /\ UNCHANGED mainVars
  BY DEF CalThread
<1>2. cal \notin {"none", "done"}
  BY <1>1 DEF CalStep, NextPair, PairFailed, PairMeasured, PairNoisy, AllMeasured, LockMatrix,
    StoreMatrix, SignalDone
<1>3. ProcessState = "running" /\ ProcessState' = "running" /\ UNCHANGED <<TableState, etd_written>>
  <2>1. ~signalled /\ ~signalled' /\ Alive'
    BY <1>1, <1>2 DEF CaughtInv, mainVars, Alive
  <2>2. UNCHANGED etd_written
    BY <1>1 DEF mainVars
  <2> QED BY <1>1, <2>1, <2>2 DEF ProcessState, Shown
<1>4. CASE StoreMatrix
  <2>1. cal = "store" /\ cal' = "signal" /\ efd' = efd
    BY <1>4 DEF StoreMatrix
  <2>2. ResultState = "none" /\ ResultState' = "there"
    BY <2>1 DEF Shown, Finished
  <2>3. Promise!Publish
    BY <1>3, <2>1, <2>2 DEF Promise!Publish
  <2> QED BY <2>3 DEF Implemented, Promise!HandoverNext
<1>5. CASE SignalDone
  <2>1. cal = "signal" /\ cal' = "done" /\ efd # 1 /\ efd' \in {efd, 1}
    BY <1>5 DEF SignalDone, MatrixInv
  <2>2. ResultState = "there" /\ ResultState' = "there"
    BY <2>1 DEF Shown, Finished
  <2>3. CASE efd' = efd
    BY <1>3, <2>2, <2>3, HandoverStutters DEF Kept, Implemented
  <2>4. CASE efd' = 1
    <3>1. Promise!Announce
      BY <1>3, <2>1, <2>2, <2>4 DEF Promise!Announce
    <3> QED BY <3>1 DEF Implemented, Promise!HandoverNext
  <2> QED BY <2>1, <2>3, <2>4
<1>6. CASE CalStep /\ ~StoreMatrix /\ ~SignalDone
  <2>1. efd' = efd /\ cal \notin Finished /\ cal' \notin Finished
    BY <1>6 DEF CalStep, NextPair, PairFailed, PairMeasured, PairNoisy, AllMeasured, LockMatrix,
      StartPair, Settle, Finished
  <2>2. Kept
    BY <1>3, <2>1, ShownKept
  <2> QED BY <1>3, <2>2, HandoverStutters DEF Implemented
<1> QED BY <1>1, <1>4, <1>5, <1>6

(* What a successful attempt to write does to the table. *)
LEMMA WriteShown ==
  ASSUME MatrixInv, Shown, Shown', try_write_etd_costs, ~etd_written, UNCHANGED cal
  PROVE  /\ ResultState' = ResultState
         /\ \/ Promise!WriteTable
            \/ ~CanWriteCosts /\ TableState' = TableState
<1>1. ResultState' = ResultState
  BY DEF Shown
<1>2. CASE CanWriteCosts
  <2>1. ResultState = "there"
    BY <1>2 DEF CanWriteCosts, ResultState
  <2>2. TableState = "unknown" /\ TableState' = "complete"
    BY <1>2 DEF try_write_etd_costs, Shown
  <2> QED BY <1>1, <2>1, <2>2 DEF Promise!WriteTable
<1>3. CASE ~CanWriteCosts
  <2>1. ~etd_written'
    BY <1>3 DEF try_write_etd_costs
  <2> QED BY <1>1, <1>3, <2>1 DEF Shown
<1> QED BY <1>2, <1>3

(* The attempts that are not due to the event. *)
LEMMA WriteImplements ==
  ASSUME MatrixInv, CaughtInv, Shown, Shown', FirstWrite \/ Timeout
  PROVE  Implemented
<1>1. /\ Alive /\ ~signalled /\ UNCHANGED <<efd, cal, signalled>>
      /\ (try_write_etd_costs /\ ~etd_written) \/ UNCHANGED etd_written
  BY DEF FirstWrite, Timeout, Alive, calVars, CaughtInv
<1>2. ProcessState = "running" /\ ProcessState' \in {"running", "ended"}
  BY <1>1 DEF ProcessState
<1>3. CASE Kept
  <2>1. CASE Alive'
    <3>1. ProcessState' = ProcessState
      BY <1>1, <2>1 DEF ProcessState
    <3> QED BY <1>3, <3>1, HandoverStutters DEF Implemented
  <2>2. CASE ~Alive'
    <3>1. Promise!End
      BY <1>1, <1>3, <2>2, HandoverEnds
    <3> QED BY <3>1 DEF Implemented, Promise!HandoverNext
  <2> QED BY <2>1, <2>2
<1>4. CASE UNCHANGED etd_written
  BY <1>1, <1>3, <1>4, ShownKept
<1>5. CASE try_write_etd_costs /\ ~etd_written
  <2>1. ResultState' = ResultState /\ (Promise!WriteTable \/ TableState' = TableState)
    BY <1>1, <1>5, WriteShown
  <2>2. CASE TableState' = TableState
    BY <1>1, <1>3, <2>1, <2>2 DEF Kept
  <2>3. CASE Promise!WriteTable
    <3>1. Promise!Write
      BY <1>1, <1>2, <2>1, <2>3 DEF Promise!Write, Promise!MayEnd
    <3> QED BY <3>1 DEF Implemented, Promise!HandoverNext
  <2> QED BY <2>1, <2>2, <2>3
<1> QED BY <1>1, <1>4, <1>5

(* Poll returns with the event, with a signal, or with both. *)
LEMMA WakeImplements ==
  ASSUME MatrixInv, CaughtInv, NotifiedMeansReady, Shown, Shown', Wake
  PROVE  Implemented
<1>1. /\ Alive /\ UNCHANGED cal /\ ~signalled'
      /\ signalled <=> ~Alive'
      /\ EfdReady \/ signalled
  <2>1. main = "poll" /\ main' = (IF signalled THEN "ended" ELSE "poll") /\ ~signalled'
    BY DEF Wake
  <2>2. UNCHANGED cal /\ (EfdReady \/ signalled)
    BY DEF Wake
  <2>3. signalled \in BOOLEAN => (signalled <=> ~Alive')
    BY <2>1 DEF Alive
  <2> QED BY <2>1, <2>2, <2>3 DEF Alive
<1>2. CASE EfdReady
  <2>1. efd = 1 /\ ~etd_written /\ efd' = 0 /\ try_write_etd_costs
    BY <1>2 DEF EfdReady, PollsEfd, Wake
  <2>2. CanWriteCosts
    BY <2>1 DEF NotifiedMeansReady
  <2>3. ResultState' = ResultState /\ Promise!WriteTable
    BY <1>1, <2>1, <2>2, WriteShown
  <2>4. \/ ProcessState = "running" /\ ProcessState' = ProcessState
        \/ ProcessState = "told" /\ ProcessState' = "ended"
    BY <1>1 DEF ProcessState
  <2>5. Promise!Take
    BY <2>1, <2>3, <2>4 DEF Promise!Take
  <2> QED BY <2>5 DEF Implemented, Promise!HandoverNext
<1>3. CASE ~EfdReady
  <2>1. UNCHANGED <<efd, etd_written>>
    BY <1>3 DEF EfdReady, PollsEfd, Wake
  <2>2. Kept
    BY <1>1, <2>1, ShownKept
  <2>3. Promise!End
    BY <1>1, <1>3, <2>2, HandoverEnds
  <2> QED BY <2>3 DEF Implemented, Promise!HandoverNext
<1> QED BY <1>2, <1>3

(* Everything else keeps the four values, ends the process, or catches a   *)
(* signal.                                                                 *)
LEMMA RestImplements ==
  ASSUME MatrixInv, CaughtInv, Shown, Shown',
         \/ StartCalibration \/ Load \/ Attach \/ Splash \/ TuiTurn \/ BlockSignals \/ TuiQuit
         \/ SignalArrives \/ BpfExits \/ PairThreads \/ UNCHANGED vars
  PROVE  Implemented
<1>1. UNCHANGED <<efd, etd_written>> /\ (cal' \in Finished <=> cal \in Finished)
  <2>1. CASE StartCalibration
    BY <2>1 DEF StartCalibration, MatrixInv, Finished
  <2>2. CASE \/ Load \/ Attach \/ Splash \/ TuiTurn \/ BlockSignals \/ TuiQuit
             \/ SignalArrives \/ BpfExits
    BY <2>2 DEF Load, Attach, Splash, TuiTurn, BlockSignals, TuiQuit, SignalArrives, BpfExits,
      calVars
  <2>3. CASE PairThreads \/ UNCHANGED vars
    BY <2>3 DEF PairThreads, Threads, mainVars, vars, calVars
  <2> QED BY <2>1, <2>2, <2>3
<1>2. Kept
  BY <1>1, ShownKept
<1>3. CASE UNCHANGED signalled /\ (Alive' <=> Alive)
  <2>1. ProcessState' = ProcessState
    BY <1>3 DEF ProcessState
  <2> QED BY <1>2, <2>1, HandoverStutters DEF Implemented
<1>4. CASE Alive /\ ~Alive'
  <2>1. Promise!End
    BY <1>2, <1>4, HandoverEnds
  <2> QED BY <2>1 DEF Implemented, Promise!HandoverNext
<1>5. CASE StartCalibration \/ Load \/ Attach \/ Splash \/ TuiTurn \/ BlockSignals \/ TuiQuit
  <2>1. UNCHANGED signalled /\ Alive
    BY <1>5 DEF StartCalibration, Load, Attach, Splash, TuiTurn, BlockSignals, TuiQuit, Alive
  <2> QED BY <1>3, <1>4, <2>1
<1>6. CASE BpfExits \/ PairThreads \/ UNCHANGED vars
  <2>1. UNCHANGED <<signalled, main>>
    BY <1>6 DEF BpfExits, PairThreads, mainVars, vars
  <2> QED BY <1>3, <2>1 DEF Alive
<1>7. CASE SignalArrives
  <2>1. CASE main' = "ended"
    BY <1>4, <1>7, <2>1 DEF SignalArrives, Alive
  <2>2. CASE signalled' = TRUE /\ UNCHANGED main
    <3>1. ProcessState = "running" /\ ProcessState' = "told"
      BY <1>7, <2>2 DEF SignalArrives, Alive, ProcessState
    <3>2. Promise!Told
      BY <1>2, <3>1 DEF Kept, Promise!Told
    <3> QED BY <3>2 DEF Implemented, Promise!HandoverNext
  <2> QED BY <1>7, <2>1, <2>2 DEF SignalArrives
<1> QED BY <1>5, <1>6, <1>7

(* The loader keeps the promise of Handover for every machine, command line *)
(* and latency, and however its threads, signals, timeouts and refused      *)
(* eventfds interleave: no half-written table, no event before its result,  *)
(* none taken in vain, and no signal lost once it was caught.              *)
THEOREM HandsOver == Spec => ImplementsHandover
<1>1. Init => Promise!HandoverInit
  <2> SUFFICES ASSUME Init PROVE Promise!HandoverInit
    OBVIOUS
  <2>1. ProcessState = "running"
    BY DEF Init, ProcessState, Alive
  <2>2. ~Measured(latency_matrix)
    BY DEF Init, CalInit, Measured, Empty
  <2>3. TableState = "unknown"
    BY DEF Init, TableState
  <2>4. efd = 0
    BY DEF Init, CalInit
  <2> QED BY <2>1, <2>2, <2>3, <2>4 DEF Promise!HandoverInit, ResultState
<1>2. MatrixInv /\ CaughtInv /\ NotifiedMeansReady /\ Shown /\ Shown' /\ [Next]_vars => Implemented
  BY CalThreadImplements, WriteImplements, WakeImplements, RestImplements DEF Next, MainStep
<1>3. Spec => []CaughtInv
  BY TypeInvariance, CaughtInit, CaughtStep, PTL DEF Spec, Safety
<1>4. Spec => []Shown
  BY <1>3, MatrixInvariance, EveryCostIsWritten, HandoverShown, PTL
<1> QED
  BY <1>1, <1>2, <1>3, <1>4, MatrixInvariance, NotificationIsReliable, PTL
  DEF Spec, Safety, ImplementsHandover, Promise!HandoverSpec, Implemented

-----------------------------------------------------------------------------
(* The budgets *)

Loaded == {"attach", "splash", "first", "tui", "block", "poll"}

(* The program that is loaded has the budgets of the command line. *)
BudgetInv ==
  main \in Loaded => budgets = tier_configs(args.profile, args.starvation)

LEMMA BudgetStep == BudgetInv /\ [Next]_vars => BudgetInv'
<1> SUFFICES ASSUME BudgetInv, [Next]_vars PROVE BudgetInv'
  OBVIOUS
<1>0. args' = args
  BY SettingKept
<1>1. CASE UNCHANGED budgets /\ (main' \in Loaded => main \in Loaded)
  BY <1>0, <1>1 DEF BudgetInv
<1>2. CASE UNCHANGED vars \/ UNCHANGED mainVars
  BY <1>1, <1>2 DEF vars, mainVars
<1>3. CASE Load
  BY <1>0, <1>3 DEF Load, BudgetInv
<1>4. CASE StartCalibration
  BY <1>1, <1>4 DEF StartCalibration, Loaded
<1>5. CASE Attach \/ Splash \/ FirstWrite \/ TuiTurn \/ BlockSignals \/ Wake \/ Timeout
           \/ TuiQuit \/ BpfExits
  BY <1>1, <1>5 DEF Attach, Splash, FirstWrite, TuiTurn, BlockSignals, Wake, Timeout, TuiQuit,
    BpfExits, Loaded
<1>6. CASE SignalArrives
  BY <1>1, <1>6 DEF SignalArrives, Loaded
<1>7. QED
  BY <1>2, <1>3, <1>4, <1>5, <1>6, NextCases DEF PairThreads

(* With every profile, and every override of --starvation from 41 us to     *)
(* 1.07 s, the budgets that the BPF side reads rise with the tier           *)
(* (Profile::tier_configs).                                                *)
THEOREM BudgetsRiseInRange ==
  (\A s \in Settings : KeepsOrder(s.starvation)) => (Spec => []BudgetsRise)
<1> SUFFICES ASSUME \A s \in Settings : KeepsOrder(s.starvation)
             PROVE  Spec => []BudgetsRise
  OBVIOUS
<1>1. Init => BudgetInv
  BY DEF Init, BudgetInv, Loaded
<1>2. TypeInv /\ BudgetInv => BudgetsRise
  <2> SUFFICES ASSUME TypeInv, BudgetInv, main \in Loaded
               PROVE  \A k \in 0 .. 2 : budgets[k] < budgets[k + 1]
    BY DEF BudgetsRise, Loaded
  <2>1. args \in Settings /\ args.profile \in Profiles
    BY CalibrationAssumption DEF TypeInv, TypeOK, CalTypeOK
  <2>2. QED
    BY <2>1, BudgetsInOrder DEF BudgetInv
<1>3. QED
  BY <1>1, <1>2, BudgetStep, TypeInvariance, PTL DEF Spec, Safety
=============================================================================
