------------------------------ MODULE LockHolder ------------------------------
(***************************************************************************)
(* src/bpf/lock.bpf.c: how a task's futex calls raise and lower            *)
(* CAKE_FLAG_LOCK_HOLDER.  Two families of optional probes see the same    *)
(* calls: fexit probes on the kernel's futex functions, and tracepoints on *)
(* the system calls, the first of which leaves the operation in the task's *)
(* context for the second.  An interrupt can split what a probe does: the  *)
(* two stores of clear_lock_holder are two steps, and a task may sleep, or *)
(* be preempted, between any two.                                          *)
(*                                                                         *)
(* Of imperator_tick only the starvation check is here, which reads the    *)
(* flag and counts skips: an interrupt between any two steps of a running  *)
(* task.  When the check runs is in Tick.                                  *)
(***************************************************************************)
EXTENDS Naturals

CONSTANTS Tasks,        \* tasks with a context
          UNSET         \* CAKE_FUTEX_OP_UNSET

(* The operations the probes tell apart: "wait" stands for WAIT, its       *)
(* BITSET and REQUEUE_PI forms and the PI locks, "wake" for WAKE,          *)
(* WAKE_BITSET and WAKE_OP, "requeue" for those no probe looks at.         *)
Ops   == {"wait", "wake", "unlock_pi", "requeue"}

(* futex(2) with its operation, or one of the calls that are their own.    *)
Calls == Ops \cup {"sys_futex_wait", "sys_futex_wake"}

ASSUME LockAssumption == UNSET \notin Calls

Op(call) == CASE call = "sys_futex_wait" -> "wait"
              [] call = "sys_futex_wake" -> "wake"
              [] OTHER -> call

(* What a call may return: below 0, 0, above 0. *)
Returns(call) == IF Op(call) \in {"wake", "requeue"} THEN {"error", "zero", "more"}
                 ELSE {"error", "zero"}

VARIABLES
  attached,          \* which of {"fexit", "tracepoint"} could be attached
  at,                \* at[t]: where task t is on its way through a futex call
  call,              \* call[t]: the call it makes
  ret,               \* ret[t]: what the call returned
  traced,            \* traced[t]: the probes were there when the call was entered
  truth,             \* truth[t]: does t own a lock it waited for in the kernel?
  pending_futex_op,
  lock_holder,       \* CAKE_FLAG_LOCK_HOLDER in packed_info
  lock_skip_count

ctxVars  == <<pending_futex_op, lock_holder, lock_skip_count>>
vars     == <<attached, at, call, ret, traced, truth, ctxVars>>

Places == {"user", "kernel", "fexit", "fexit_reset", "exit", "exit_reset"}

TypeOK ==
  /\ attached \in SUBSET {"fexit", "tracepoint"}
  /\ at \in [Tasks -> Places]
  /\ call \in [Tasks -> Calls]
  /\ ret \in [Tasks -> {"error", "zero", "more"}]
  /\ traced \in [Tasks -> BOOLEAN]
  /\ truth \in [Tasks -> {"free", "held", "missed"}]
  /\ pending_futex_op \in [Tasks -> Ops \cup {UNSET}]
  /\ lock_holder \in [Tasks -> BOOLEAN]
  /\ lock_skip_count \in [Tasks -> 0 .. 4]
-----------------------------------------------------------------------------
(* Mutant: the zero a new storage entry is filled with, which is FUTEX_WAIT. *)
ZeroOp == "wait"

(* alloc_task_ctx_cold. *)
InitialOp == UNSET

(* A task may be inside a futex call when the probes are attached. *)
Init ==
  /\ attached \in SUBSET {"fexit", "tracepoint"}
  /\ at \in [Tasks -> {"user", "kernel"}]
  /\ call \in {f \in [Tasks -> Calls] : \A t \in Tasks : at[t] = "user" => f[t] = "requeue"}
  /\ ret = [t \in Tasks |-> "error"]
  /\ traced = [t \in Tasks |-> FALSE]
  /\ truth = [t \in Tasks |-> "free"]
  /\ pending_futex_op = [t \in Tasks |-> InitialOp]
  /\ lock_holder = [t \in Tasks |-> FALSE]
  /\ lock_skip_count = [t \in Tasks |-> 0]
-----------------------------------------------------------------------------
Goto(t, p)     == at' = [at EXCEPT ![t] = p]
Own(t, status) == truth' = [truth EXCEPT ![t] = status]

Acquired(op, r) == op = "wait" /\ r = "zero"

(* The calls after which a task no longer owns its lock. *)
GivesUp(op, r) == op \in {"wake", "unlock_pi"} /\ r # "error"

(* Mutant: a wake that found no waiter does not count. *)
ReleasedWaiters(op, r) == (op = "wake" /\ r = "more") \/ (op = "unlock_pi" /\ r = "zero")

Released(op, r) == (op = "wake" /\ r # "error") \/ (op = "unlock_pi" /\ r = "zero")

(* sys_enter_futex; the newer calls have no such tracepoint. *)
EnterFutex(t, c) ==
  /\ at[t] = "user"
  /\ Goto(t, "kernel")
  /\ call' = [call EXCEPT ![t] = c]
  /\ traced' = [traced EXCEPT ![t] = TRUE]
  /\ pending_futex_op' = IF "tracepoint" \in attached /\ c \in Ops
                         THEN [pending_futex_op EXCEPT ![t] = c] ELSE pending_futex_op
  /\ UNCHANGED <<attached, ret, truth, lock_holder, lock_skip_count>>

(* The kernel is done with the operation.  A function entered before its   *)
(* fexit probe was attached returns without it.  The caller of a wait that *)
(* is back with 0 owns a lock, for all the probes can tell, and gives it   *)
(* up with a wake or an unlock.                                            *)
ReturnFutex(t, r) ==
  LET seen == traced[t] /\ attached # {}
  IN /\ at[t] = "kernel"
     /\ r \in Returns(call[t])
     /\ ret' = [ret EXCEPT ![t] = r]
     /\ IF Acquired(Op(call[t]), r) THEN Own(t, IF seen THEN "held" ELSE "missed")
        ELSE IF GivesUp(Op(call[t]), r) THEN Own(t, "free")
        ELSE UNCHANGED truth
     /\ Goto(t, IF traced[t] /\ "fexit" \in attached THEN "fexit" ELSE "exit")
     /\ UNCHANGED <<attached, call, traced, ctxVars>>

(* Mutant: the order clear_lock_holder had before. *)
ClearStoreOld(t, n) ==
  IF n = 1 THEN lock_skip_count' = [lock_skip_count EXCEPT ![t] = 0] /\ UNCHANGED lock_holder
  ELSE lock_holder' = [lock_holder EXCEPT ![t] = FALSE] /\ UNCHANGED lock_skip_count

(* clear_lock_holder: its first store and its second. *)
ClearStore(t, n) ==
  IF n = 1 THEN lock_holder' = [lock_holder EXCEPT ![t] = FALSE] /\ UNCHANGED lock_skip_count
  ELSE lock_skip_count' = [lock_skip_count EXCEPT ![t] = 0] /\ UNCHANGED lock_holder

set_lock_holder(t) ==
  lock_holder' = [lock_holder EXCEPT ![t] = TRUE] /\ UNCHANGED lock_skip_count

(* What a probe does with an operation and its result: set, start to clear *)
(* (the second store is then still to come at "mid"), or nothing.          *)
Probe(t, op, mid, next) ==
  \/ Acquired(op, ret[t]) /\ set_lock_holder(t) /\ Goto(t, next)
  \/ Released(op, ret[t]) /\ ClearStore(t, 1) /\ Goto(t, mid)
  \/ /\ ~Acquired(op, ret[t]) /\ ~Released(op, ret[t])
     /\ Goto(t, next)
     /\ UNCHANGED <<lock_holder, lock_skip_count>>

(* The fexit probes. *)
Fexit(t) ==
  /\ at[t] = "fexit"
  /\ Probe(t, Op(call[t]), "fexit_reset", "exit")
  /\ UNCHANGED <<attached, call, ret, traced, truth, pending_futex_op>>

FexitReset(t) ==
  /\ at[t] = "fexit_reset"
  /\ ClearStore(t, 2)
  /\ Goto(t, "exit")
  /\ UNCHANGED <<attached, call, ret, traced, truth, pending_futex_op>>

(* Mutant: the operation stays behind. *)
KeepOp(t) == UNCHANGED pending_futex_op

ConsumeOp(t) == pending_futex_op' = [pending_futex_op EXCEPT ![t] = UNSET]

(* The call leaves the kernel: its locals are gone. *)
Leave(t) == /\ call' = [call EXCEPT ![t] = "requeue"]
            /\ ret' = [ret EXCEPT ![t] = "error"]
            /\ traced' = [traced EXCEPT ![t] = FALSE]

(* sys_exit_futex, which acts on the recorded operation, and               *)
(* sys_exit_futex_wait and _wake, which need none.                         *)
SysExit(t) ==
  LET op == IF call[t] \in Ops THEN pending_futex_op[t] ELSE Op(call[t])
  IN /\ at[t] = "exit"
     /\ IF "tracepoint" \in attached /\ op # UNSET
        THEN /\ Probe(t, op, "exit_reset", "user")
             /\ IF at'[t] = "user"
                THEN Leave(t) /\ (IF call[t] \in Ops THEN ConsumeOp(t) ELSE UNCHANGED pending_futex_op)
                ELSE UNCHANGED <<call, ret, traced, pending_futex_op>>
        ELSE /\ Goto(t, "user")
             /\ Leave(t)
             /\ UNCHANGED ctxVars
     /\ UNCHANGED <<attached, truth>>

SysExitReset(t) ==
  /\ at[t] = "exit_reset"
  /\ ClearStore(t, 2)
  /\ Goto(t, "user")
  /\ Leave(t)
  /\ IF call[t] \in Ops THEN ConsumeOp(t) ELSE UNCHANGED pending_futex_op
  /\ UNCHANGED <<attached, truth>>

(* Mutant: no cap. *)
CountedOn(n) == n + 1

Counted(n) == IF n < 4 THEN n + 1 ELSE 0

(* The tick's starvation check on t: a lock holder is spared up to four    *)
(* times, and kicked by a check that finds the count used up.              *)
Check(t) ==
  /\ lock_holder[t]
  /\ lock_skip_count' = [lock_skip_count EXCEPT ![t] = Counted(@)]
  /\ UNCHANGED <<attached, at, call, ret, traced, truth, pending_futex_op, lock_holder>>

Next ==
  \E t \in Tasks :
    \/ \E c \in Calls : EnterFutex(t, c)
    \/ \E r \in {"error", "zero", "more"} : ReturnFutex(t, r)
    \/ Fexit(t) \/ FexitReset(t)
    \/ SysExit(t) \/ SysExitReset(t)
    \/ Check(t)

Spec == Init /\ [][Next]_vars
-----------------------------------------------------------------------------
(* The flag says what the task's futex calls amount to, whichever families *)
(* are attached and whatever was in progress when they were: no flag       *)
(* without a lock, and outside the probes no lock taken since without the  *)
(* flag ("the tracepoint path provides equivalent coverage").              *)
FlagTruthful ==
  \A t \in Tasks : at[t] \in {"user", "kernel"} =>
    /\ lock_holder[t] => truth[t] # "free"
    /\ truth[t] = "held" => lock_holder[t]

(* "the next lock acquisition starts with a fresh cap of 4": while the     *)
(* flag is down no skip is counted, except between the two stores of       *)
(* clear_lock_holder.  A check may interrupt the task anywhere.            *)
FreshBudget ==
  \A t \in Tasks : ~lock_holder[t] /\ lock_skip_count[t] > 0 =>
    at[t] \in {"fexit_reset", "exit_reset"}

(* "the field is only non-UNSET for the exact window between a             *)
(* sys_enter_futex and its matching sys_exit_futex", and there it is the   *)
(* operation of that call, wherever the task slept in between.             *)
PendingWindow ==
  \A t \in Tasks : pending_futex_op[t] # UNSET =>
    at[t] # "user" /\ call[t] = pending_futex_op[t]

(* The count as the tick can see it: only with the flag up. *)
CountSeen == [t \in Tasks |-> IF lock_holder[t] THEN lock_skip_count[t] ELSE 0]

Flag == INSTANCE HolderFlag WITH lock_skip_count <- CountSeen

(* The probes, in several steps and with both families at work, do what    *)
(* the tick relies on: an acquisition starts with no skip counted, and its *)
(* count goes back to 0 only with the flag or with a kick.                 *)
ImplementsHolderFlag == Flag!FlagSpec
=============================================================================
