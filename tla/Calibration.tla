------------------------------ MODULE Calibration ------------------------------
(***************************************************************************)
(* The calibration thread of the loader and the two threads it starts for  *)
(* each pair of CPUs (src/calibrate.rs, and the closure that               *)
(* Scheduler::new spawns).  PING and PONG pin themselves, meet at a        *)
(* barrier, and take turns with compare-and-swap on one flag.              *)
(*                                                                         *)
(* A measurement yields a median, a member of Latencies, and either an     *)
(* acceptable spread or not; the samples behind them are not kept.         *)
(***************************************************************************)
EXTENDS Config

CONSTANTS
  Settings,     \* machines and command lines, see below
  Latencies,    \* medians, in ns; 0 where the clock showed no progress
  Trips         \* compare-and-swaps of each side, warmup included

Sides       == {"ping", "pong"}
MAX_RETRIES == 3
Fallback    == 500
NoPair      == << >>

(* A setting has the LLC of each CPU, the profile, --starvation in us, and *)
(* whether --full-etd-sweep and --verbose are given.                       *)
ASSUME CalibrationAssumption ==
  /\ Latencies \subseteq Nat /\ Latencies # {}
  /\ Trips \in Nat \ {0}
  /\ \A s \in Settings :
       /\ DOMAIN s = {"llc", "profile", "starvation", "full_sweep", "verbose"}
       /\ IsFiniteSet(DOMAIN s.llc) /\ DOMAIN s.llc \subseteq Nat
       /\ \A c \in DOMAIN s.llc : s.llc[c] \in Nat
       /\ s.profile \in Profiles /\ s.starvation \in Nat \cup {NoOverride}
       /\ s.full_sweep \in BOOLEAN /\ s.verbose \in BOOLEAN

VARIABLES
  args,           \* the setting of this run: it never changes
  cal,            \* where the calibration thread is; "none" before it is spawned
  todo,           \* pairs not yet measured
  pair,           \* the pair in hand, or NoPair
  retry_count,
  matrix,         \* calibrate_pairs' own matrix, 0 where nothing was measured
  side,           \* side[s]: where the PING or PONG thread is
  abort,          \* a thread failed to pin itself
  flag,           \* the word they exchange: "ping" or "pong"
  left,           \* left[s]: compare-and-swaps it still has to make
  latency_matrix, \* the matrix shared with the main thread
  locked,         \* the calibration thread holds its mutex
  etd_efd_write,  \* the calibration thread has an eventfd to write
  efd             \* the eventfd's counter

calVars == <<args, cal, todo, pair, retry_count, matrix, side, abort,
             flag, left, latency_matrix, locked, etd_efd_write, efd>>
threadVars == <<side, abort, flag, left>>

cpu_llc_id == args.llc
CpuPairs == (DOMAIN cpu_llc_id) \X (DOMAIN cpu_llc_id)
Empty    == [p \in CpuPairs |-> 0]
Measured(m) == \E p \in DOMAIN m : m[p] > 0

CalTypeOK ==
  /\ args \in Settings
  /\ cal \in {"none", "next", "join", "lock", "store", "signal", "done"}
  /\ todo \subseteq CpuPairs /\ pair \in CpuPairs \cup {NoPair}
  /\ retry_count \in 0 .. MAX_RETRIES
  /\ matrix \in [CpuPairs -> Nat] /\ latency_matrix \in [CpuPairs -> Nat]
  /\ side \in [Sides -> {"idle", "pin", "arrive", "check", "swap", "end"}]
  /\ abort \in BOOLEAN /\ flag \in Sides /\ left \in [Sides -> 0 .. Trips]
  /\ locked \in BOOLEAN /\ etd_efd_write \in BOOLEAN /\ efd \in {0, 1}

CalInit ==
  /\ args \in Settings
  /\ cal = "none" /\ todo = {} /\ pair = NoPair /\ retry_count = 0 /\ matrix = Empty
  /\ side = [s \in Sides |-> "idle"] /\ abort = FALSE /\ flag = "ping"
  /\ left = [s \in Sides |-> 0]
  /\ latency_matrix = Empty /\ locked = FALSE /\ etd_efd_write = FALSE /\ efd = 0
-----------------------------------------------------------------------------
(* measure_pair: the calibration thread *)

(* Shared state is created anew and both threads are spawned. *)
StartPair(p) ==
  /\ pair' = p
  /\ side' = [s \in Sides |-> "pin"] /\ abort' = FALSE /\ flag' = "ping"
  /\ left' = [s \in Sides |-> Trips]
  /\ cal' = "join"

Record(p, ns) == [matrix EXCEPT ![p] = ns, ![<<p[2], p[1]>>] = ns]

(* Mutant: an entry may stay at 0. *)
SettleWithoutFallback(p, m) ==
  /\ matrix' = m
  /\ cal' = "next" /\ pair' = NoPair /\ retry_count' = 0
  /\ side' = [s \in Sides |-> "idle"] /\ abort' = FALSE /\ flag' = "ping"
  /\ left' = [s \in Sides |-> 0]

(* The pair is settled: an entry still at 0 gets the fallback.  What the   *)
(* two threads shared is dropped.                                          *)
Settle(p, m) ==
  /\ matrix' = IF m[p] = 0 THEN Record(p, Fallback) ELSE m
  /\ cal' = "next" /\ pair' = NoPair /\ retry_count' = 0
  /\ side' = [s \in Sides |-> "idle"] /\ abort' = FALSE /\ flag' = "ping"
  /\ left' = [s \in Sides |-> 0]

NextPair ==
  /\ cal = "next" /\ todo # {}
  /\ \E p \in todo : StartPair(p) /\ todo' = todo \ {p}
  /\ UNCHANGED <<args, retry_count, matrix, latency_matrix, locked, etd_efd_write, efd>>

BothEnded == \A s \in Sides : side[s] = "end"

(* measure_pair returns None: the while loop ends. *)
PairFailed ==
  /\ cal = "join" /\ BothEnded /\ abort
  /\ Settle(pair, matrix)
  /\ UNCHANGED <<args, todo, latency_matrix, locked, etd_efd_write, efd>>

(* The spread is acceptable, or there are no retries left. *)
PairMeasured ==
  /\ cal = "join" /\ BothEnded /\ ~abort
  /\ \E median \in Latencies : Settle(pair, Record(pair, median))
  /\ UNCHANGED <<args, todo, latency_matrix, locked, etd_efd_write, efd>>

(* Mutant: a retry is not counted. *)
PairNoisyUncounted ==
  /\ cal = "join" /\ BothEnded /\ ~abort
  /\ retry_count < MAX_RETRIES
  /\ StartPair(pair)
  /\ UNCHANGED <<args, todo, retry_count, matrix, latency_matrix, locked,
                 etd_efd_write, efd>>

(* The spread is too large: measure again. *)
PairNoisy ==
  /\ cal = "join" /\ BothEnded /\ ~abort
  /\ retry_count < MAX_RETRIES
  /\ retry_count' = retry_count + 1
  /\ StartPair(pair)
  /\ UNCHANGED <<args, todo, matrix, latency_matrix, locked,
                 etd_efd_write, efd>>
-----------------------------------------------------------------------------
(* measure_pair: the two threads *)

(* Mutant: a thread that cannot pin itself returns before the barrier. *)
PinOrReturn(s) ==
  /\ side[s] = "pin"
  /\ \E fails \in BOOLEAN :
       /\ side' = [side EXCEPT ![s] = IF fails THEN "end" ELSE "arrive"]
       /\ abort' = (abort \/ fails)
  /\ UNCHANGED <<flag, left>>

(* set_for_current: a failure is announced before the barrier. *)
Pin(s) ==
  /\ side[s] = "pin"
  /\ side' = [side EXCEPT ![s] = "arrive"]
  /\ \E fails \in BOOLEAN : abort' = (abort \/ fails)
  /\ UNCHANGED <<flag, left>>

(* barrier.wait() lets both through once both are there. *)
Barrier ==
  /\ \A s \in Sides : side[s] = "arrive"
  /\ side' = [s \in Sides |-> "check"]
  /\ UNCHANGED <<abort, flag, left>>

CheckAbort(s) ==
  /\ side[s] = "check"
  /\ side' = [side EXCEPT ![s] = IF abort THEN "end" ELSE "swap"]
  /\ UNCHANGED <<abort, flag, left>>

(* Mutant: a plain exchange. *)
AnyTurn(s) == TRUE

(* A compare-and-swap that succeeds: PONG turns PING's value over, and PING *)
(* PONG's.  One that fails changes nothing.                                *)
MyTurn(s) == flag # s

Exchange(s) ==
  /\ side[s] = "swap" /\ left[s] > 0 /\ MyTurn(s)
  /\ flag' = s
  /\ left' = [left EXCEPT ![s] = @ - 1]
  /\ side' = [side EXCEPT ![s] = IF left[s] = 1 THEN "end" ELSE "swap"]
  /\ UNCHANGED abort

SideStep(s) == Pin(s) \/ CheckAbort(s) \/ Exchange(s)

Threads ==
  /\ (\E s \in Sides : SideStep(s)) \/ Barrier
  /\ UNCHANGED <<args, cal, todo, pair, retry_count, matrix,
                 latency_matrix, locked, etd_efd_write, efd>>
-----------------------------------------------------------------------------
(* The closure after the measurements *)

AllMeasured ==
  /\ cal = "next" /\ todo = {}
  /\ cal' = "lock"
  /\ UNCHANGED <<args, todo, pair, retry_count, matrix, threadVars,
                 latency_matrix, locked, etd_efd_write, efd>>

(* Mutant: the eventfd is written first. *)
NotifyThenLock ==
  /\ cal = "lock"
  /\ cal' = "store" /\ locked' = TRUE
  /\ efd' = IF etd_efd_write THEN 1 ELSE efd
  /\ UNCHANGED <<args, todo, pair, retry_count, matrix, threadVars, latency_matrix,
                 etd_efd_write>>

LockMatrix ==
  /\ cal = "lock"
  /\ cal' = "store" /\ locked' = TRUE
  /\ UNCHANGED <<args, todo, pair, retry_count, matrix, threadVars,
                 latency_matrix, etd_efd_write, efd>>

(* *m = result, which moves it, and the guard is dropped. *)
StoreMatrix ==
  /\ cal = "store"
  /\ latency_matrix' = matrix /\ matrix' = Empty /\ locked' = FALSE
  /\ cal' = "signal"
  /\ UNCHANGED <<args, todo, pair, retry_count, threadVars, etd_efd_write, efd>>

(* write(etd_efd_write, 1) and close, where there is one. *)
SignalDone ==
  /\ cal = "signal"
  /\ efd' = IF etd_efd_write THEN 1 ELSE efd
  /\ etd_efd_write' = FALSE
  /\ cal' = "done"
  /\ UNCHANGED <<args, todo, pair, retry_count, matrix, threadVars,
                 latency_matrix, locked>>

CalStep ==
  \/ NextPair \/ PairFailed \/ PairMeasured \/ PairNoisy
  \/ AllMeasured \/ LockMatrix \/ StoreMatrix \/ SignalDone
=============================================================================
