-------------------------------- MODULE Loader --------------------------------
(***************************************************************************)
(* The loader process (src/main.rs): Scheduler::new starts the calibration *)
(* thread, fills the BPF program's constants and loads it; run attaches    *)
(* it, and then either the TUI loop or the event loop over a signalfd and  *)
(* an eventfd waits for the end.  The latencies that the calibration       *)
(* thread leaves in a shared matrix become llc_etd_cost, the table that    *)
(* work stealing reads.                                                    *)
(*                                                                         *)
(* Abstracted: the table is written in one step; poll and read_signal      *)
(* return no errors; statistics and screens are left out.                  *)
(***************************************************************************)
EXTENDS Calibration

VARIABLES
  main,           \* where the main thread is; "ended" when the process is
  etd_efd,        \* the main thread has an eventfd to read
  budgets,        \* rodata.tier_configs: the budgets in it, in kns
  llc_etd_cost,
  etd_written,
  blocked,        \* SIGINT and SIGTERM are blocked in the main thread
  signalled,      \* one of them is pending on the signalfd
  bpf_exited      \* the BPF scheduler has recorded its exit (uei)

mainVars == <<main, etd_efd, budgets, llc_etd_cost, etd_written, blocked,
              signalled, bpf_exited>>
vars == <<calVars, mainVars>>

Llcs     == Populated(cpu_llc_id)
LlcPairs == Llcs \X Llcs
NoCosts  == [q \in LlcPairs |-> 0]

TypeOK ==
  /\ CalTypeOK
  /\ main \in {"new", "load", "attach", "splash", "first", "tui", "block", "poll", "ended"}
  /\ etd_efd \in BOOLEAN /\ budgets \in [Tiers -> 0 .. FieldRange - 1]
  /\ llc_etd_cost \in [LlcPairs -> 0 .. 255]
  /\ etd_written \in BOOLEAN /\ blocked \in BOOLEAN /\ signalled \in BOOLEAN
  /\ bpf_exited \in BOOLEAN

Init ==
  /\ CalInit
  /\ main = "new" /\ etd_efd = FALSE /\ budgets = [k \in Tiers |-> 0]
  /\ llc_etd_cost = NoCosts /\ etd_written = FALSE
  /\ blocked = FALSE /\ signalled = FALSE /\ bpf_exited = FALSE

Alive == main # "ended"
-----------------------------------------------------------------------------
(* Scheduler::new *)

Pairs == IF args.full_sweep THEN all_pairs(cpu_llc_id) ELSE select_etd_pairs(cpu_llc_id)

(* No thread and no eventfd when there is nothing to measure.  eventfd and *)
(* dup may each fail.                                                      *)
StartCalibration ==
  /\ main = "new" /\ main' = "load"
  /\ IF select_etd_pairs(cpu_llc_id) = {}
     THEN UNCHANGED <<cal, todo, etd_efd, etd_efd_write>>
     ELSE /\ cal' = "next" /\ todo' = Pairs
          /\ etd_efd' \in BOOLEAN
          /\ \E dup_ok \in BOOLEAN : etd_efd_write' = (etd_efd' /\ dup_ok)
  /\ UNCHANGED <<args, pair, retry_count, matrix, threadVars,
                 latency_matrix, locked, efd, budgets, llc_etd_cost, etd_written,
                 blocked, signalled, bpf_exited>>

(* The constants are filled in and the program is loaded, or it is refused *)
(* and main returns.                                                       *)
Load ==
  /\ main = "load"
  /\ budgets' = tier_configs(args.profile, args.starvation)
  /\ main' \in {"attach", "ended"}
  /\ UNCHANGED <<calVars, etd_efd, llc_etd_cost, etd_written, blocked, signalled,
                 bpf_exited>>
-----------------------------------------------------------------------------
(* Scheduler::run *)

(* try_lock; FALSE while it is held or the matrix is all 0. *)
CanWriteCosts == ~locked /\ Measured(latency_matrix)

try_write_etd_costs ==
  IF CanWriteCosts
  THEN /\ etd_written' = TRUE
       /\ llc_etd_cost' = [q \in LlcPairs |->
                             LlcCost(cpu_llc_id, latency_matrix, q[1], q[2])]
  ELSE etd_written' = FALSE /\ UNCHANGED llc_etd_cost

Attach ==
  /\ main = "attach"
  /\ main' \in {"splash", "ended"}
  /\ UNCHANGED <<calVars, etd_efd, budgets, llc_etd_cost, etd_written, blocked,
                 signalled, bpf_exited>>

(* show_startup_splash waits for the matrix. *)
Splash ==
  /\ main = "splash" /\ ~locked
  /\ main' = "first"
  /\ UNCHANGED <<calVars, etd_efd, budgets, llc_etd_cost, etd_written, blocked,
                 signalled, bpf_exited>>

FirstWrite ==
  /\ main = "first"
  /\ try_write_etd_costs
  /\ main' = IF args.verbose THEN "tui" ELSE "block"
  /\ UNCHANGED <<calVars, etd_efd, budgets, blocked, signalled, bpf_exited>>

(* run_tui: every turn of the loop looks at the BPF side's exit. *)
TuiTurn ==
  /\ main = "tui" /\ bpf_exited
  /\ main' = "ended"
  /\ UNCHANGED <<calVars, etd_efd, budgets, llc_etd_cost, etd_written, blocked,
                 signalled, bpf_exited>>

(* The q key. *)
TuiQuit ==
  /\ main = "tui"
  /\ main' = "ended"
  /\ UNCHANGED <<calVars, etd_efd, budgets, llc_etd_cost, etd_written, blocked,
                 signalled, bpf_exited>>

(* thread_block, and the signalfd is opened. *)
BlockSignals ==
  /\ main = "block"
  /\ blocked' = TRUE /\ main' = "poll"
  /\ UNCHANGED <<calVars, etd_efd, budgets, llc_etd_cost, etd_written, signalled,
                 bpf_exited>>

(* Mutant: the poll set is not shrunk. *)
AlwaysPollsEfd == etd_efd

(* The eventfd is in the poll set until the costs are written. *)
PollsEfd == ~etd_written /\ etd_efd

EfdReady == PollsEfd /\ efd = 1

(* poll returns: the eventfd is read first, then the signalfd. *)
Wake ==
  /\ main = "poll" /\ (EfdReady \/ signalled)
  /\ IF ~etd_written /\ etd_efd /\ efd = 1
     THEN efd' = 0 /\ try_write_etd_costs
     ELSE UNCHANGED <<efd, etd_written, llc_etd_cost>>
  /\ main' = IF signalled THEN "ended" ELSE "poll"
  /\ signalled' = FALSE
  /\ UNCHANGED <<args, cal, todo, pair, retry_count, matrix, threadVars,
                 latency_matrix, locked, etd_efd_write, etd_efd, budgets, blocked,
                 bpf_exited>>

(* Mutant: only the eventfd leads to a write. *)
TimeoutNoRetry ==
  /\ main = "poll" /\ ~EfdReady /\ ~signalled
  /\ main' = IF bpf_exited THEN "ended" ELSE "poll"
  /\ UNCHANGED <<calVars, etd_efd, budgets, etd_written, llc_etd_cost, blocked, signalled,
                 bpf_exited>>

(* 60 s with nothing to report. *)
Timeout ==
  /\ main = "poll" /\ ~EfdReady /\ ~signalled
  /\ IF etd_written THEN UNCHANGED <<etd_written, llc_etd_cost>> ELSE try_write_etd_costs
  /\ main' = IF bpf_exited THEN "ended" ELSE "poll"
  /\ UNCHANGED <<calVars, etd_efd, budgets, blocked, signalled, bpf_exited>>
-----------------------------------------------------------------------------
(* What comes from outside *)

(* The calibration thread was started before the signals were blocked, and *)
(* so were the threads it starts: while it runs, or before they are, a      *)
(* signal takes its default action and the process dies.                   *)
SignalArrives ==
  /\ Alive /\ ~signalled
  /\ IF blocked /\ cal \in {"none", "done"}
     THEN signalled' = TRUE /\ UNCHANGED main
     ELSE main' = "ended" /\ UNCHANGED signalled
  /\ UNCHANGED <<calVars, etd_efd, budgets, llc_etd_cost, etd_written, blocked,
                 bpf_exited>>

BpfExits ==
  /\ main \in {"splash", "first", "tui", "block", "poll"} /\ ~bpf_exited
  /\ bpf_exited' = TRUE
  /\ UNCHANGED <<calVars, main, etd_efd, budgets, llc_etd_cost, etd_written,
                 blocked, signalled>>

MainStep ==
  \/ StartCalibration \/ Load \/ Attach \/ Splash \/ FirstWrite
  \/ TuiTurn \/ BlockSignals \/ Wake \/ Timeout

(* When the process ends, its threads end with it. *)
CalThread   == Alive /\ CalStep /\ UNCHANGED mainVars
PairThreads == Alive /\ Threads /\ UNCHANGED mainVars

Next == MainStep \/ TuiQuit \/ CalThread \/ PairThreads \/ SignalArrives \/ BpfExits

Safety == Init /\ [][Next]_vars

(* Threads are scheduled and a timeout of poll comes; signals, the BPF     *)
(* side's exit and keys need not.                                          *)
Spec == Safety /\ WF_vars(MainStep) /\ WF_vars(CalThread) /\ WF_vars(PairThreads)
-----------------------------------------------------------------------------
(* Properties *)

(* README, --starvation: the flag "scales all tier budgets proportionally  *)
(* from the T3 base, preserving inter-tier ratios and therefore the tier   *)
(* order".  The order is what the deadline queue needs, and what is in the *)
(* loaded program's 20-bit fields decides.  It holds for every profile     *)
(* with no override and with one from 26 us to 1073741 us, and not for all *)
(* that the command line accepts: MCLoader has settings of both kinds.     *)
BudgetsRise ==
  main \in {"attach", "splash", "first", "tui", "block", "poll"} =>
    \A k \in 0 .. 2 : budgets[k] < budgets[k + 1]

(* Once written, every pair of different LLCs has a cost, and 0, which     *)
(* stealing takes for unmeasured, is not one: whatever was sampled and     *)
(* whatever failed to be pinned or timed.                                  *)
CostsComplete ==
  etd_written => \A q \in LlcPairs : q[1] # q[2] => llc_etd_cost[q] > 0

(* PING and PONG exchange strictly in turns, so that neither is left       *)
(* spinning with nobody to answer.                                         *)
TakeTurns ==
  \A s \in Sides : side[s] = "swap" =>
    ~abort /\ left["ping"] - left["pong"] = IF flag = "pong" THEN 1 ELSE 0

(* When the eventfd fires, the mutex is free and the matrix is there, so   *)
(* that reading it (which consumes the event) never fails to write.        *)
NotifiedMeansReady == efd = 1 => CanWriteCosts

(* Calibration ends whatever fails, unless the process does. *)
CalibrationEnds == (cal = "next") ~> (cal = "done" \/ ~Alive)

(* In the event loop the costs get written, eventfd or not. *)
CostsWritten == (main = "poll" /\ cal # "none") ~> (etd_written \/ ~Alive)

(* The loader leaves when the BPF scheduler has exited. *)
BpfExitNoticed == bpf_exited ~> ~Alive

(* Costs are there once calibration has completed and the loader had time   *)
(* to write them, with and without the TUI.                                 *)
CostsFollowCalibration == (cal = "done") ~> (etd_written \/ ~Alive)

(* How soon calibration ends: a bound on the steps its threads still take. *)
(* A round is one measurement of a pair, and a pair gets a first one and   *)
(* MAX_RETRIES more; a failed compare-and-swap is no step.                 *)
Round   == 2 * (Trips + 3) + 1
PerPair == (MAX_RETRIES + 1) * Round + 1

SideLeft(s) ==
  CASE side[s] = "pin"    -> Trips + 3
    [] side[s] = "arrive" -> Trips + 2
    [] side[s] = "check"  -> Trips + 1
    [] side[s] = "swap"   -> left[s]
    [] OTHER              -> 0

CalLeft ==
  CASE cal = "join"   -> 5 + (MAX_RETRIES - retry_count) * Round + SideLeft("ping") + SideLeft("pong")
    [] cal = "next"   -> 4
    [] cal = "lock"   -> 3
    [] cal = "store"  -> 2
    [] cal = "signal" -> 1
    [] OTHER          -> 0

StepsLeft == Cardinality(todo) * PerPair + CalLeft

(* Every step of the calibration thread and of a pair's two threads lowers *)
(* the bound, whatever fails, however noisy the samples are, and nothing   *)
(* the rest of the loader does raises it.                                  *)
CalibrationShrinks ==
  [][cal # "none" => /\ StepsLeft' <= StepsLeft
                     /\ CalThread \/ PairThreads => StepsLeft' < StepsLeft]_vars

(* What the threads, the mutex, the eventfd and the signalfd are for: a    *)
(* result that is published once and whole, announced after that and not   *)
(* before, an event that is never taken in vain, a table that nobody sees  *)
(* half written, and a caught signal after which calibration does nothing  *)
(* more and the main thread only ends the process.                         *)
CrossLlc == {q \in LlcPairs : q[1] # q[2]}

TableState ==
  IF ~etd_written /\ llc_etd_cost = NoCosts THEN "unknown"
  ELSE IF etd_written /\ \A q \in CrossLlc : llc_etd_cost[q] > 0 THEN "complete"
  ELSE "partial"

ProcessState == IF ~Alive THEN "ended" ELSE IF signalled THEN "told" ELSE "running"

ResultState == IF Measured(latency_matrix) THEN "there" ELSE "none"

Promise == INSTANCE Handover WITH
             process <- ProcessState, result <- ResultState, event <- efd = 1, costs <- TableState

ImplementsHandover == Promise!HandoverSpec
=============================================================================
