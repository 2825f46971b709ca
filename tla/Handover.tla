------------------------------- MODULE Handover -------------------------------
(***************************************************************************)
(* How the loader hands its latencies over: the result of calibration      *)
(* appears once and whole, an event tells of it and not before, the cost   *)
(* table that work stealing reads goes from empty to complete in one step  *)
(* and never back, the step that takes the event writes it, and a signal   *)
(* that was caught ends the process and nothing else.  Loader implements   *)
(* it with a mutex, an eventfd, a signalfd, a timeout and three threads.   *)
(***************************************************************************)
VARIABLES process,   \* running, told to end by a signal, or ended
          result,    \* none, or there: the latencies of every pair
          event,     \* the result is announced and nobody has looked
          costs      \* the table: unknown or complete

handoverVars == <<process, result, event, costs>>

HandoverInit ==
  /\ process = "running" /\ result = "none" /\ event = FALSE /\ costs = "unknown"

(* Calibration completes; nothing withdraws what it found. *)
Publish ==
  /\ process = "running" /\ result = "none"
  /\ result' = "there"
  /\ UNCHANGED <<process, event, costs>>

Announce ==
  /\ process = "running" /\ result = "there" /\ ~event
  /\ event' = TRUE
  /\ UNCHANGED <<process, result, costs>>

WriteTable == result = "there" /\ costs = "unknown" /\ costs' = "complete"

(* The process goes on, or this was its last step. *)
MayEnd == process' \in {"running", "ended"}

(* The table is written without the event: at the start, or at a timeout.  *)
Write ==
  /\ process = "running"
  /\ WriteTable /\ MayEnd
  /\ UNCHANGED <<result, event>>

(* The event is taken, and a caught signal is obeyed in the same step. *)
Take ==
  /\ event /\ event' = FALSE
  /\ WriteTable
  /\ \/ process = "running" /\ UNCHANGED process
     \/ process = "told" /\ process' = "ended"
  /\ UNCHANGED result

(* A signal is caught instead of killing the process. *)
Told ==
  /\ process = "running" /\ process' = "told"
  /\ UNCHANGED <<result, event, costs>>

End ==
  /\ process # "ended" /\ process' = "ended"
  /\ UNCHANGED <<result, event, costs>>

HandoverNext == Publish \/ Announce \/ Write \/ Take \/ Told \/ End

HandoverSpec == HandoverInit /\ [][HandoverNext]_handoverVars
=============================================================================
