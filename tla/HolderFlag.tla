------------------------------ MODULE HolderFlag ------------------------------
(***************************************************************************)
(* What imperator_tick relies on about a task's CAKE_FLAG_LOCK_HOLDER and  *)
(* its count of skipped starvation kicks: the flag goes up and down as the *)
(* task takes and gives up locks, the count belongs to one acquisition and *)
(* only the tick raises it, four times at most before it kicks.            *)
(* LockHolder shows that the probes of lock.bpf.c keep to this although    *)
(* they need several steps; Tick is built on it.                           *)
(***************************************************************************)
EXTENDS Naturals

CONSTANT Tasks    \* tasks with a context

VARIABLES lock_holder,      \* CAKE_FLAG_LOCK_HOLDER in packed_info
          lock_skip_count

flagVars == <<lock_holder, lock_skip_count>>

FlagTypeOK == /\ lock_holder \in [Tasks -> BOOLEAN]
              /\ lock_skip_count \in [Tasks -> 0 .. 4]

FlagInit == /\ lock_holder = [t \in Tasks |-> FALSE]
            /\ lock_skip_count = [t \in Tasks |-> 0]

(* A lock was taken; the flag may be up already. *)
Raise(t) == /\ lock_holder' = [lock_holder EXCEPT ![t] = TRUE]
            /\ UNCHANGED lock_skip_count

(* A lock was given up: the next acquisition has all its skips. *)
Lower(t) == /\ lock_holder' = [lock_holder EXCEPT ![t] = FALSE]
            /\ lock_skip_count' = [lock_skip_count EXCEPT ![t] = 0]

(* Mutant: no cap. *)
SkipAlways(n) == TRUE

MaySkip(n) == n < 4

(* A starvation check finds t past its budget: it spares a lock holder ... *)
Spare(t) ==
  /\ lock_holder[t] /\ MaySkip(lock_skip_count[t])
  /\ lock_skip_count' = [lock_skip_count EXCEPT ![t] = @ + 1]
  /\ UNCHANGED lock_holder

(* ... or kicks, and a holder that has used up its skips gets them again. *)
Starve(t) ==
  /\ ~(lock_holder[t] /\ MaySkip(lock_skip_count[t]))
  /\ lock_skip_count' = IF lock_holder[t] THEN [lock_skip_count EXCEPT ![t] = 0]
                        ELSE lock_skip_count
  /\ UNCHANGED lock_holder

FlagNext == \E t \in Tasks : Raise(t) \/ Lower(t) \/ Spare(t) \/ Starve(t)

FlagSpec == FlagInit /\ [][FlagNext]_flagVars
=============================================================================
