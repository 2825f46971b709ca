-------------------------------- MODULE Config --------------------------------
(***************************************************************************)
(* What the loader computes before the BPF program runs: the fields of     *)
(* tier_configs with their widths, the slice the BPF side derives from     *)
(* them, the CPU pairs whose latency is measured and the cost of a pair of *)
(* LLCs.  Nothing here has state.                                          *)
(*                                                                         *)
(* "kns" is the code's unit of 1024 ns.  Latencies are in ns.              *)
(***************************************************************************)
EXTENDS Integers, FiniteSets, FiniteSetsExt

CONSTANT NoOverride     \* --starvation was not given

Tiers    == 0 .. 3
Profiles == {"Esports", "Default", "Sim"}

ASSUME OverrideAssumption == NoOverride \notin Nat
-----------------------------------------------------------------------------
(* The profile tables and tier_configs *)

(* The quantum of a profile, in us. *)
quantum_us == [Esports |-> 1000, Default |-> 2000, Sim |-> 4000]

(* In units of 500000 ns. *)
starvation_threshold ==
  [Esports |-> <<3, 8, 40, 100>>, Default |-> <<3, 16, 40, 200>>, Sim |-> <<6, 16, 160, 400>>]

tier_multiplier == <<256, 1024, 2048, 4095>>

(* A budget in kns, from a T3 budget of starvation us: s * us * 1000 / s3,  *)
(* then >> 10.  1000 / 1024 = 125 / 128; us is split at 128 so that no     *)
(* product passes 2^31.                                                    *)
ScaledBudget(profile, us, k) ==
  LET s  == 125 * starvation_threshold[profile][k + 1]
      s3 == starvation_threshold[profile][4]
  IN (s * (us \div 128) + (s * (us % 128)) \div 128) \div s3

budget_kns(profile, starvation, k) ==
  IF starvation = NoOverride
  THEN (starvation_threshold[profile][k + 1] * 500000) \div 1024
  ELSE ScaledBudget(profile, starvation, k)

(* Mutant: the 16 bits that the quantum has. *)
NarrowField(kns) == kns % 65536

(* CFG_MASK_STARVATION: 20 bits. *)
FieldRange == 1048576
StarvationField(kns) == kns % FieldRange

(* The budgets that the BPF side unpacks (UNPACK_STARVATION_NS), in kns. *)
tier_configs(profile, starvation) ==
  [k \in Tiers |-> StarvationField(budget_kns(profile, starvation, k))]

(* next_slice, in ns: quantum_ns * multiplier >> 10. *)
Slice(profile, k) == (quantum_us[profile] * 125 * tier_multiplier[k + 1]) \div 128
-----------------------------------------------------------------------------
(* Which pairs to measure, for a topology that maps each CPU to its LLC *)

Populated(cpu_llc_id) == {cpu_llc_id[c] : c \in DOMAIN cpu_llc_id}

LlcSize(cpu_llc_id, l) == Cardinality({c \in DOMAIN cpu_llc_id : cpu_llc_id[c] = l})

(* The index of a CPU among llc_members of its LLC, which are ascending. *)
Rank(cpu_llc_id, c) ==
  Cardinality({d \in DOMAIN cpu_llc_id : cpu_llc_id[d] = cpu_llc_id[c] /\ d < c})

(* spread_indices(len, k)[i]. *)
SpreadIndex(len, k, i) == IF k = 1 THEN 0 ELSE (i * (len - 1)) \div (k - 1)

SAMPLES_PER_LLC_PAIR == 3

(* The i-th samples of two LLCs make the i-th pair.  The order in which the *)
(* pairs are measured is not kept: nothing depends on it.                  *)
select_etd_pairs(cpu_llc_id) ==
  { p \in (DOMAIN cpu_llc_id) \X (DOMAIN cpu_llc_id) :
      LET a  == cpu_llc_id[p[1]]
          b  == cpu_llc_id[p[2]]
          na == LlcSize(cpu_llc_id, a)
          nb == LlcSize(cpu_llc_id, b)
          k  == Min({SAMPLES_PER_LLC_PAIR, na, nb})
      IN /\ a < b
         /\ \E i \in 0 .. k - 1 : /\ Rank(cpu_llc_id, p[1]) = SpreadIndex(na, k, i)
                                  /\ Rank(cpu_llc_id, p[2]) = SpreadIndex(nb, k, i) }

(* calibrate_full_matrix: every pair. *)
all_pairs(cpu_llc_id) ==
  {p \in (DOMAIN cpu_llc_id) \X (DOMAIN cpu_llc_id) : p[1] < p[2]}
-----------------------------------------------------------------------------
(* The cost of a pair of LLCs: its least measured latency over 4, in 1 .. 255 *)

(* Mutant: the cap at 255 is gone. *)
UncappedCost(ns) == Max({ns \div 4, 1})

Cost(ns) == Max({Min({ns \div 4, 255}), 1})

(* What try_write_etd_costs stores for LLCs a and b: 0 if none was measured. *)
LlcCost(cpu_llc_id, matrix, a, b) ==
  LET measured == {matrix[p] : p \in {q \in (DOMAIN cpu_llc_id) \X (DOMAIN cpu_llc_id) :
                     cpu_llc_id[q[1]] = a /\ cpu_llc_id[q[2]] = b /\ matrix[q] > 0}}
  IN IF a = b \/ measured = {} THEN 0 ELSE Cost(Min(measured))
=============================================================================
