--------------------------- MODULE LockHolderProofs ---------------------------
(***************************************************************************)
(* The lock-holder flag for any set of tasks, whichever probes could be    *)
(* attached: types, the window of the recorded operation, what the flag    *)
(* says, the skip count, and that the probes implement HolderFlag.         *)
(***************************************************************************)
EXTENDS LockHolder, TLAPS

(* The operation a tracepoint finds in the context is that of the call     *)
(* which is in progress, and is there whenever the call was seen entering. *)
PendingOK(t) ==
  /\ pending_futex_op[t] # UNSET =>
       "tracepoint" \in attached /\ at[t] # "user" /\ call[t] = pending_futex_op[t]
  /\ "tracepoint" \in attached /\ traced[t] /\ at[t] # "user" /\ call[t] \in Ops =>
       pending_futex_op[t] = call[t]

Consistent(t) == (lock_holder[t] => truth[t] # "free") /\ (truth[t] = "held" => lock_holder[t])

(* The flag and the lock, along a call.  While a result waits for its probe *)
(* they may differ by what that probe is about to do, and only a call that  *)
(* was entered with probes attached can have made them differ.              *)
FlagOK(t) ==
  /\ at[t] \in {"user", "kernel"} => Consistent(t)
  /\ attached = {} \/ (at[t] # "user" /\ ~traced[t]) => ~lock_holder[t] /\ truth[t] # "held"
  /\ at[t] \in {"fexit", "fexit_reset"} => traced[t] /\ "fexit" \in attached
  /\ at[t] \in {"fexit", "fexit_reset", "exit"} =>
       /\ ret[t] \in Returns(call[t])
       /\ Acquired(Op(call[t]), ret[t]) => truth[t] # "free"
       /\ GivesUp(Op(call[t]), ret[t]) => truth[t] = "free"
       /\ Acquired(Op(call[t]), ret[t]) \/ GivesUp(Op(call[t]), ret[t]) \/ Consistent(t)
  /\ at[t] = "exit" /\ traced[t] /\ "fexit" \in attached => Consistent(t)
  /\ at[t] \in {"fexit_reset", "exit_reset"} => ~lock_holder[t] /\ truth[t] = "free"

HolderInv == TypeOK /\ FreshBudget /\ \A t \in Tasks : PendingOK(t) /\ FlagOK(t)

LEMMA OpType == \A c \in Calls : Op(c) \in Ops /\ (c \in Ops => Op(c) = c) /\ Op(c) # UNSET
BY LockAssumption DEF Calls, Ops, Op

(* Releasing probes fire exactly on the calls that give a lock up. *)
LEMMA ReleasedIsGivesUp ==
  ASSUME NEW c \in Calls, NEW r \in Returns(c)
  PROVE  Released(Op(c), r) <=> GivesUp(Op(c), r)
BY OpType DEF Returns, Released, GivesUp, Ops

LEMMA NotBoth == \A op, r : ~(Acquired(op, r) /\ Released(op, r))
BY DEF Acquired, Released

(* What a probe can do. *)
LEMMA ProbeCases ==
  ASSUME NEW t \in Tasks, NEW op, NEW mid, NEW next, Probe(t, op, mid, next)
  PROVE  \/ /\ Acquired(op, ret[t]) /\ at' = [at EXCEPT ![t] = next]
            /\ lock_holder' = [lock_holder EXCEPT ![t] = TRUE] /\ UNCHANGED lock_skip_count
         \/ /\ Released(op, ret[t]) /\ at' = [at EXCEPT ![t] = mid]
            /\ lock_holder' = [lock_holder EXCEPT ![t] = FALSE] /\ UNCHANGED lock_skip_count
         \/ /\ ~Acquired(op, ret[t]) /\ ~Released(op, ret[t]) /\ at' = [at EXCEPT ![t] = next]
            /\ UNCHANGED <<lock_holder, lock_skip_count>>
BY DEF Probe, set_lock_holder, ClearStore, Goto

(* The operation sys_exit acts on, when it acts, is that of the call. *)
SysOp(t) == IF call[t] \in Ops THEN pending_futex_op[t] ELSE Op(call[t])

LEMMA SysOpIsCall ==
  ASSUME HolderInv, NEW t \in Tasks, SysOp(t) # UNSET
  PROVE  SysOp(t) = Op(call[t])
BY OpType DEF HolderInv, TypeOK, PendingOK, SysOp

LEMMA HolderInit ==
  ASSUME Init
  PROVE  HolderInv
<1>1. TypeOK
  BY DEF Init, TypeOK, Places, Calls, Ops, InitialOp
<1>2. FreshBudget
  BY DEF Init, FreshBudget
<1>3. \A t \in Tasks : PendingOK(t) /\ FlagOK(t)
  BY DEF Init, PendingOK, FlagOK, Consistent, InitialOp
<1> QED BY <1>1, <1>2, <1>3 DEF HolderInv

(* Nothing a task does touches another one. *)
Others(t) ==
  \A u \in Tasks \ {t} :
    /\ at'[u] = at[u] /\ call'[u] = call[u] /\ ret'[u] = ret[u] /\ traced'[u] = traced[u]
    /\ truth'[u] = truth[u] /\ pending_futex_op'[u] = pending_futex_op[u]
    /\ lock_holder'[u] = lock_holder[u] /\ lock_skip_count'[u] = lock_skip_count[u]

(* So a step keeps the invariant if it keeps it for the task that moves. *)
LEMMA OneTask ==
  ASSUME HolderInv, NEW t \in Tasks, TypeOK', Others(t), attached' = attached,
         (~lock_holder[t] /\ lock_skip_count[t] > 0 => at[t] \in {"fexit_reset", "exit_reset"})',
         PendingOK(t)', FlagOK(t)'
  PROVE  HolderInv'
<1>1. \A u \in Tasks \ {t} : PendingOK(u)'
  BY DEF HolderInv, Others, PendingOK
<1>2. \A u \in Tasks \ {t} : FlagOK(u)'
  BY DEF HolderInv, Others, FlagOK, Consistent
<1>3. FreshBudget'
  BY DEF HolderInv, Others, FreshBudget
<1> QED BY <1>1, <1>2, <1>3 DEF HolderInv
-----------------------------------------------------------------------------
LEMMA EnterFutexStep ==
  ASSUME HolderInv, NEW t \in Tasks, NEW c \in Calls, EnterFutex(t, c)
  PROVE  HolderInv'
<1> USE DEF HolderInv, TypeOK, Places
<1>1. TypeOK' /\ Others(t) /\ attached' = attached
  BY DEF EnterFutex, Goto, Others
<1>2. PendingOK(t)'
  BY LockAssumption DEF EnterFutex, Goto, PendingOK, Calls
<1>3. FlagOK(t)'
  BY DEF EnterFutex, Goto, FlagOK, Consistent
<1>4. (~lock_holder[t] /\ lock_skip_count[t] > 0 => at[t] \in {"fexit_reset", "exit_reset"})'
  BY DEF EnterFutex, FreshBudget
<1> HIDE DEF HolderInv, TypeOK, Places
<1> QED BY <1>1, <1>2, <1>3, <1>4, OneTask

LEMMA ReturnFutexStep ==
  ASSUME HolderInv, NEW t \in Tasks, NEW r, ReturnFutex(t, r)
  PROVE  HolderInv'
<1> USE DEF HolderInv, TypeOK, Places
<1>1. r \in {"error", "zero", "more"} /\ r \in Returns(call[t])
  BY DEF ReturnFutex, Returns
<1>2. TypeOK' /\ Others(t) /\ attached' = attached
  BY <1>1 DEF ReturnFutex, Goto, Own, Others, ctxVars
<1>3. PendingOK(t)'
  BY DEF ReturnFutex, Goto, PendingOK, ctxVars
<1>4. /\ at[t] = "kernel" /\ ret'[t] = r
      /\ at'[t] = IF traced[t] /\ "fexit" \in attached THEN "fexit" ELSE "exit"
      /\ UNCHANGED <<attached, call, traced, lock_holder, lock_skip_count>>
      /\ truth'[t] = IF Acquired(Op(call[t]), r) THEN IF traced[t] /\ attached # {} THEN "held" ELSE "missed"
                     ELSE IF GivesUp(Op(call[t]), r) THEN "free" ELSE truth[t]
  BY DEF ReturnFutex, Goto, Own, ctxVars
<1>5. ~(Acquired(Op(call[t]), r) /\ GivesUp(Op(call[t]), r))
  BY DEF Acquired, GivesUp
<1>6. FlagOK(t)'
  <2>1. FlagOK(t) /\ Consistent(t)
    BY <1>4 DEF FlagOK
  <2> QED BY <1>1, <1>4, <1>5, <2>1 DEF FlagOK, Consistent
<1>7. (~lock_holder[t] /\ lock_skip_count[t] > 0 => at[t] \in {"fexit_reset", "exit_reset"})'
  BY <1>4 DEF FreshBudget
<1> HIDE DEF HolderInv, TypeOK, Places
<1> QED BY <1>2, <1>3, <1>6, <1>7, OneTask

LEMMA FexitStep ==
  ASSUME HolderInv, NEW t \in Tasks, Fexit(t)
  PROVE  HolderInv'
<1> USE DEF HolderInv, TypeOK, Places
<1> DEFINE op == Op(call[t])
<1>1. \/ /\ Acquired(op, ret[t]) /\ at' = [at EXCEPT ![t] = "exit"]
         /\ lock_holder' = [lock_holder EXCEPT ![t] = TRUE] /\ UNCHANGED lock_skip_count
      \/ /\ Released(op, ret[t]) /\ at' = [at EXCEPT ![t] = "fexit_reset"]
         /\ lock_holder' = [lock_holder EXCEPT ![t] = FALSE] /\ UNCHANGED lock_skip_count
      \/ /\ ~Acquired(op, ret[t]) /\ ~Released(op, ret[t]) /\ at' = [at EXCEPT ![t] = "exit"]
         /\ UNCHANGED <<lock_holder, lock_skip_count>>
  BY ProbeCases DEF Fexit
<1>2. at[t] = "fexit" /\ UNCHANGED <<attached, call, ret, traced, truth, pending_futex_op>>
  BY DEF Fexit
<1>3. TypeOK' /\ Others(t)
  BY <1>1, <1>2 DEF Others
<1>4. PendingOK(t)'
  BY <1>1, <1>2 DEF PendingOK
<1>5. Released(op, ret[t]) <=> GivesUp(op, ret[t])
  BY <1>2, ReleasedIsGivesUp DEF FlagOK
<1>6. ~(Acquired(op, ret[t]) /\ Released(op, ret[t]))
  BY NotBoth
<1>7. FlagOK(t)'
  <2>1. FlagOK(t)
    OBVIOUS
  <2> HIDE DEF op
  <2> QED BY <1>1, <1>2, <1>5, <1>6, <2>1 DEF FlagOK, Consistent, op
<1>8. (~lock_holder[t] /\ lock_skip_count[t] > 0 => at[t] \in {"fexit_reset", "exit_reset"})'
  BY <1>1, <1>2 DEF FreshBudget
<1> HIDE DEF HolderInv, TypeOK, Places
<1> QED BY <1>2, <1>3, <1>4, <1>7, <1>8, OneTask

LEMMA FexitResetStep ==
  ASSUME HolderInv, NEW t \in Tasks, FexitReset(t)
  PROVE  HolderInv'
<1> USE DEF HolderInv, TypeOK, Places
<1>1. /\ at[t] = "fexit_reset" /\ at' = [at EXCEPT ![t] = "exit"]
      /\ lock_skip_count' = [lock_skip_count EXCEPT ![t] = 0]
      /\ UNCHANGED <<attached, call, ret, traced, truth, pending_futex_op, lock_holder>>
  BY DEF FexitReset, ClearStore, Goto
<1>2. TypeOK' /\ Others(t)
  BY <1>1 DEF Others
<1>3. PendingOK(t)'
  BY <1>1 DEF PendingOK
<1>4. FlagOK(t)'
  BY <1>1 DEF FlagOK, Consistent
<1>5. (~lock_holder[t] /\ lock_skip_count[t] > 0 => at[t] \in {"fexit_reset", "exit_reset"})'
  BY <1>1
<1> HIDE DEF HolderInv, TypeOK, Places
<1> QED BY <1>1, <1>2, <1>3, <1>4, <1>5, OneTask

(* The probe of sys_exit acts on the call's own operation or, when the call *)
(* was entered before the tracepoints were there, not at all.              *)
LEMMA SysExitCases ==
  ASSUME HolderInv, NEW t \in Tasks, SysExit(t)
  PROVE  LET op == Op(call[t]) IN
         \/ /\ Acquired(op, ret[t]) /\ at'[t] = "user" /\ "tracepoint" \in attached
            /\ lock_holder' = [lock_holder EXCEPT ![t] = TRUE] /\ UNCHANGED lock_skip_count
         \/ /\ Released(op, ret[t]) /\ at'[t] = "exit_reset" /\ "tracepoint" \in attached
            /\ lock_holder' = [lock_holder EXCEPT ![t] = FALSE] /\ UNCHANGED lock_skip_count
         \/ /\ ~Acquired(op, ret[t]) /\ ~Released(op, ret[t]) /\ at'[t] = "user"
            /\ UNCHANGED <<lock_holder, lock_skip_count>>
         \/ /\ "tracepoint" \notin attached \/ SysOp(t) = UNSET
            /\ at'[t] = "user" /\ UNCHANGED <<lock_holder, lock_skip_count>>
<1>1. CASE "tracepoint" \in attached /\ SysOp(t) # UNSET
  <2>1. SysOp(t) = Op(call[t])
    BY <1>1, SysOpIsCall
  <2>2. Probe(t, Op(call[t]), "exit_reset", "user")
    BY <1>1, <2>1 DEF SysExit, SysOp
  <2> QED BY <1>1, <2>2, ProbeCases DEF HolderInv, TypeOK
<1>2. CASE ~("tracepoint" \in attached /\ SysOp(t) # UNSET)
  BY <1>2 DEF SysExit, SysOp, Goto, ctxVars, HolderInv, TypeOK
<1> QED BY <1>1, <1>2

LEMMA SysExitFrame ==
  ASSUME HolderInv, NEW t \in Tasks, SysExit(t)
  PROVE  /\ at[t] = "exit" /\ UNCHANGED <<attached, truth>>
         /\ \E p \in {"user", "exit_reset"} :
              /\ at' = [at EXCEPT ![t] = p]
              /\ p = "user" => Leave(t)
              /\ p = "user" /\ "tracepoint" \in attached /\ SysOp(t) # UNSET =>
                   IF call[t] \in Ops THEN ConsumeOp(t) ELSE UNCHANGED pending_futex_op
              /\ p = "user" /\ ~("tracepoint" \in attached /\ SysOp(t) # UNSET) => UNCHANGED pending_futex_op
              /\ p = "exit_reset" => UNCHANGED <<call, ret, traced, pending_futex_op>>
<1>1. CASE "tracepoint" \in attached /\ SysOp(t) # UNSET
  <2>1. PICK p \in {"user", "exit_reset"} : at' = [at EXCEPT ![t] = p]
    BY <1>1, ProbeCases DEF SysExit, SysOp
  <2>2. at'[t] = p
    BY <2>1 DEF HolderInv, TypeOK
  <2> QED BY <1>1, <2>1, <2>2 DEF SysExit, SysOp
<1>2. CASE ~("tracepoint" \in attached /\ SysOp(t) # UNSET)
  BY <1>2 DEF SysExit, SysOp, Goto, ctxVars
<1> QED BY <1>1, <1>2

LEMMA LeaveFrame ==
  ASSUME TypeOK, NEW t \in Tasks, Leave(t)
  PROVE  /\ call' \in [Tasks -> Calls] /\ ret' \in [Tasks -> {"error", "zero", "more"}]
         /\ traced' \in [Tasks -> BOOLEAN]
         /\ \A u \in Tasks \ {t} : call'[u] = call[u] /\ ret'[u] = ret[u] /\ traced'[u] = traced[u]
BY DEF TypeOK, Leave, Calls, Ops

(* Leaving the kernel with the recorded operation consumed, if there was one. *)
LEMMA PendingAtUser ==
  ASSUME HolderInv, NEW t \in Tasks, at'[t] = "user", attached' = attached,
         \/ call[t] \in Ops /\ ConsumeOp(t)
         \/ call[t] \notin Ops /\ UNCHANGED pending_futex_op
         \/ UNCHANGED pending_futex_op /\ ("tracepoint" \notin attached \/ SysOp(t) = UNSET)
  PROVE  /\ PendingOK(t)' /\ pending_futex_op' \in [Tasks -> Ops \cup {UNSET}]
         /\ \A u \in Tasks \ {t} : pending_futex_op'[u] = pending_futex_op[u]
<1>1. pending_futex_op'[t] = UNSET
  BY OpType DEF HolderInv, TypeOK, PendingOK, ConsumeOp, SysOp
<1> QED BY <1>1 DEF HolderInv, TypeOK, PendingOK, ConsumeOp

LEMMA SysExitStep ==
  ASSUME HolderInv, NEW t \in Tasks, SysExit(t)
  PROVE  HolderInv'
<1>1. /\ at[t] = "exit" /\ attached' = attached /\ truth' = truth
      /\ FlagOK(t) /\ PendingOK(t) /\ TypeOK
  BY SysExitFrame DEF HolderInv
<1>2. PICK p \in {"user", "exit_reset"} :
        /\ at' = [at EXCEPT ![t] = p]
        /\ p = "user" => Leave(t)
        /\ p = "user" /\ "tracepoint" \in attached /\ SysOp(t) # UNSET =>
             IF call[t] \in Ops THEN ConsumeOp(t) ELSE UNCHANGED pending_futex_op
        /\ p = "user" /\ ~("tracepoint" \in attached /\ SysOp(t) # UNSET) => UNCHANGED pending_futex_op
        /\ p = "exit_reset" => UNCHANGED <<call, ret, traced, pending_futex_op>>
  BY SysExitFrame
<1>3. at'[t] = p
  BY <1>1, <1>2 DEF TypeOK
<1>4. /\ PendingOK(t)' /\ pending_futex_op' \in [Tasks -> Ops \cup {UNSET}]
      /\ \A u \in Tasks \ {t} : pending_futex_op'[u] = pending_futex_op[u]
  <2>1. CASE p = "user"
    BY <1>1, <1>2, <1>3, <2>1, PendingAtUser
  <2>2. CASE p = "exit_reset"
    BY <1>1, <1>2, <1>3, <2>2 DEF PendingOK, TypeOK
  <2> QED BY <2>1, <2>2
<1>5. /\ call' \in [Tasks -> Calls] /\ ret' \in [Tasks -> {"error", "zero", "more"}]
      /\ traced' \in [Tasks -> BOOLEAN]
      /\ \A u \in Tasks \ {t} : call'[u] = call[u] /\ ret'[u] = ret[u] /\ traced'[u] = traced[u]
  BY <1>1, <1>2, LeaveFrame DEF TypeOK
<1>6. /\ lock_holder' \in [Tasks -> BOOLEAN] /\ lock_skip_count' = lock_skip_count
      /\ \A u \in Tasks \ {t} : lock_holder'[u] = lock_holder[u]
  BY <1>1, SysExitCases DEF TypeOK
<1>7. TypeOK' /\ Others(t)
  <2>1. at' \in [Tasks -> Places] /\ \A u \in Tasks \ {t} : at'[u] = at[u]
    BY <1>1, <1>2 DEF TypeOK, Places
  <2>2. TypeOK'
    BY <1>1, <1>4, <1>5, <1>6, <2>1 DEF TypeOK
  <2>3. Others(t)
    BY <1>1, <1>4, <1>5, <1>6, <2>1 DEF Others
  <2> QED BY <2>2, <2>3
<1>8. Released(Op(call[t]), ret[t]) <=> GivesUp(Op(call[t]), ret[t])
  <2>1. call[t] \in Calls
    BY <1>1 DEF TypeOK
  <2>2. ret[t] \in Returns(call[t])
    BY <1>1 DEF FlagOK
  <2> QED BY ONLY <2>1, <2>2, ReleasedIsGivesUp
<1>9. FlagOK(t)' /\ (~lock_holder[t] /\ lock_skip_count[t] > 0 => at[t] \in {"fexit_reset", "exit_reset"})'
  <2>1. CASE p = "exit_reset"
    <3>1. Released(Op(call[t]), ret[t]) /\ lock_holder'[t] = FALSE /\ truth'[t] = "free"
      BY <1>1, <1>3, <1>8, <2>1, SysExitCases DEF TypeOK, FlagOK
    <3> QED BY <1>1, <1>2, <1>3, <2>1, <3>1 DEF FlagOK
  <2>2. CASE p = "user"
    <3>1. Consistent(t)' /\ (lock_holder[t] => lock_holder'[t]) /\ (attached = {} => ~lock_holder'[t] /\ truth[t] # "held")
      <4>1. CASE "tracepoint" \in attached /\ SysOp(t) # UNSET
        BY <1>1, <1>3, <1>8, <2>2, <4>1, SysExitCases DEF FlagOK, Consistent, TypeOK
      <4>2. CASE "tracepoint" \notin attached \/ SysOp(t) = UNSET
        <5>1. lock_holder'[t] = lock_holder[t]
          BY <4>2 DEF SysExit, SysOp, ctxVars
        <5>2. attached = {} \/ ~traced[t] \/ "fexit" \in attached
          <6>1. CASE "tracepoint" \notin attached
            BY <1>1, <6>1 DEF TypeOK
          <6>2. CASE "tracepoint" \in attached
            BY <1>1, <4>2, <6>2, OpType DEF TypeOK, PendingOK, SysOp
          <6> QED BY <6>1, <6>2
        <5> QED BY <1>1, <5>1, <5>2 DEF FlagOK, Consistent
      <4> QED BY <4>1, <4>2
    <3>2. lock_skip_count'[t] > 0 => lock_holder[t]
      BY <1>1, <1>6 DEF HolderInv, FreshBudget
    <3> QED BY <1>1, <1>3, <2>2, <3>1, <3>2 DEF FlagOK
  <2> QED BY <2>1, <2>2
<1> QED BY <1>1, <1>4, <1>7, <1>9, OneTask

LEMMA SysExitResetStep ==
  ASSUME HolderInv, NEW t \in Tasks, SysExitReset(t)
  PROVE  HolderInv'
<1>1. /\ at[t] = "exit_reset" /\ at' = [at EXCEPT ![t] = "user"]
      /\ lock_skip_count' = [lock_skip_count EXCEPT ![t] = 0]
      /\ UNCHANGED <<attached, truth, lock_holder>>
  BY DEF SysExitReset, ClearStore, Goto
<1>2. PendingOK(t)' /\ pending_futex_op' \in [Tasks -> Ops \cup {UNSET}]
      /\ \A u \in Tasks \ {t} : pending_futex_op'[u] = pending_futex_op[u]
  BY <1>1, PendingAtUser DEF SysExitReset, HolderInv, TypeOK
<1>3. TypeOK' /\ Others(t)
  <2>1. TypeOK
    BY DEF HolderInv
  <2>2. /\ call' \in [Tasks -> Calls] /\ ret' \in [Tasks -> {"error", "zero", "more"}]
        /\ traced' \in [Tasks -> BOOLEAN]
        /\ \A u \in Tasks \ {t} : call'[u] = call[u] /\ ret'[u] = ret[u] /\ traced'[u] = traced[u]
    BY <2>1, LeaveFrame DEF SysExitReset
  <2> QED BY <1>1, <1>2, <2>1, <2>2 DEF TypeOK, Places, Others
<1>4. FlagOK(t)'
  BY <1>1 DEF HolderInv, TypeOK, FlagOK, Consistent
<1>5. (~lock_holder[t] /\ lock_skip_count[t] > 0 => at[t] \in {"fexit_reset", "exit_reset"})'
  BY <1>1 DEF HolderInv, TypeOK
<1> QED BY <1>1, <1>2, <1>3, <1>4, <1>5, OneTask

LEMMA CheckStep ==
  ASSUME HolderInv, NEW t \in Tasks, Check(t)
  PROVE  HolderInv'
<1>1. /\ lock_holder[t] /\ lock_skip_count' = [lock_skip_count EXCEPT ![t] = Counted(@)]
      /\ UNCHANGED <<attached, at, call, ret, traced, truth, pending_futex_op, lock_holder>>
  BY DEF Check
<1>2. Counted(lock_skip_count[t]) \in 0 .. 4
  BY DEF HolderInv, TypeOK, Counted
<1>3. TypeOK' /\ Others(t)
  BY <1>1, <1>2 DEF HolderInv, TypeOK, Others
<1>4. PendingOK(t)' /\ FlagOK(t)'
  BY <1>1 DEF HolderInv, PendingOK, FlagOK, Consistent
<1> QED BY <1>1, <1>3, <1>4, OneTask

LEMMA HolderStep ==
  ASSUME HolderInv, [Next]_vars
  PROVE  HolderInv'
<1>1. CASE UNCHANGED vars
  BY <1>1 DEF vars, ctxVars, HolderInv, TypeOK, FreshBudget, PendingOK, FlagOK, Consistent
<1>2. CASE Next
  BY <1>2, EnterFutexStep, ReturnFutexStep, FexitStep, FexitResetStep, SysExitStep,
     SysExitResetStep, CheckStep DEF Next
<1> QED BY <1>1, <1>2

LEMMA HolderInvariance == Spec => []HolderInv
<1>1. Init => HolderInv
  BY HolderInit
<1>2. HolderInv /\ [Next]_vars => HolderInv'
  BY HolderStep
<1> QED BY <1>1, <1>2, PTL DEF Spec

(* The fields of lock.bpf.c keep their ranges, the u8 skip count 0 .. 4    *)
(* among them, wherever a check interrupts a probe.                        *)
THEOREM HolderTypes == Spec => []TypeOK
<1>1. HolderInv => TypeOK
  BY DEF HolderInv
<1> QED BY <1>1, HolderInvariance, PTL

(* The fexit and the tracepoint probes, both, either or none attached, in   *)
(* the middle of a call or not, leave the flag up exactly for a task that  *)
(* owns a lock they saw it wait for.                                       *)
THEOREM FlagSaysTheLock == Spec => []FlagTruthful
<1>1. HolderInv => FlagTruthful
  BY DEF HolderInv, FlagTruthful, FlagOK, Consistent
<1> QED BY <1>1, HolderInvariance, PTL

(* clear_lock_holder's two stores, and two families of probes clearing one  *)
(* after the other, leave no skip behind for the next acquisition.         *)
THEOREM SkipsBelongToOneLock == Spec => []FreshBudget
<1>1. HolderInv => FreshBudget
  BY DEF HolderInv
<1> QED BY <1>1, HolderInvariance, PTL

(* sys_exit_futex never acts on the operation of an earlier call, or of one *)
(* that was entered before the tracepoints were attached.                  *)
THEOREM OperationOfThisCall == Spec => []PendingWindow
<1>1. HolderInv => PendingWindow
  BY DEF HolderInv, PendingOK, PendingWindow
<1> QED BY <1>1, HolderInvariance, PTL
-----------------------------------------------------------------------------
(* The count the tick sees changes where the count of one task does. *)
LEMMA CountSeenOf ==
  ASSUME TypeOK, NEW t \in Tasks, NEW n,
         (IF lock_holder[t] THEN lock_skip_count[t] ELSE 0)' = n,
         \A u \in Tasks \ {t} : lock_holder'[u] = lock_holder[u] /\ lock_skip_count'[u] = lock_skip_count[u]
  PROVE  CountSeen' = [CountSeen EXCEPT ![t] = n]
BY DEF CountSeen

LEMMA MapAcquired ==
  ASSUME HolderInv, NEW t \in Tasks, at[t] \in {"fexit", "exit"},
         lock_holder' = [lock_holder EXCEPT ![t] = TRUE], UNCHANGED lock_skip_count
  PROVE  Flag!Raise(t)
<1>1. CountSeen' = CountSeen
  <2>1. ~lock_holder[t] => lock_skip_count[t] = 0
    BY DEF HolderInv, TypeOK, FreshBudget
  <2> QED BY <2>1 DEF HolderInv, TypeOK, CountSeen
<1> QED BY <1>1 DEF Flag!Raise

LEMMA MapReleased ==
  ASSUME HolderInv, NEW t \in Tasks,
         lock_holder' = [lock_holder EXCEPT ![t] = FALSE], UNCHANGED lock_skip_count
  PROVE  Flag!Lower(t)
<1>1. CountSeen' = [CountSeen EXCEPT ![t] = 0]
  BY CountSeenOf DEF HolderInv, TypeOK
<1> QED BY <1>1 DEF Flag!Lower

LEMMA MapCheck ==
  ASSUME HolderInv, NEW t \in Tasks, Check(t)
  PROVE  Flag!Spare(t) \/ Flag!Starve(t)
<1>1. /\ lock_holder[t] /\ UNCHANGED lock_holder
      /\ lock_skip_count' = [lock_skip_count EXCEPT ![t] = Counted(@)]
  BY DEF Check
<1>2. CountSeen[t] = lock_skip_count[t] /\ lock_skip_count[t] \in 0 .. 4
  BY <1>1 DEF HolderInv, TypeOK, CountSeen
<1>3. CountSeen' = [CountSeen EXCEPT ![t] = Counted(lock_skip_count[t])]
  BY <1>1, CountSeenOf DEF HolderInv, TypeOK
<1>4. CASE lock_skip_count[t] < 4
  <2>1. CountSeen' = [CountSeen EXCEPT ![t] = @ + 1]
    BY <1>2, <1>3, <1>4 DEF Counted
  <2> QED BY <1>1, <1>2, <1>4, <2>1 DEF Flag!Spare, Flag!MaySkip
<1>5. CASE ~(lock_skip_count[t] < 4)
  <2>1. CountSeen' = [CountSeen EXCEPT ![t] = 0]
    BY <1>3, <1>5 DEF Counted
  <2> QED BY <1>1, <1>2, <1>5, <2>1 DEF Flag!Starve, Flag!MaySkip
<1> QED BY <1>4, <1>5

LEMMA FlagStep ==
  ASSUME HolderInv, [Next]_vars
  PROVE  Flag!FlagNext \/ UNCHANGED Flag!flagVars
<1> DEFINE Mapped == Flag!FlagNext \/ UNCHANGED Flag!flagVars
<1>1. CASE UNCHANGED <<lock_holder, lock_skip_count>>
  BY <1>1 DEF Flag!flagVars, CountSeen
<1>2. ASSUME NEW t \in Tasks, Fexit(t) PROVE Mapped
  <2>1. at[t] = "fexit" /\ Probe(t, Op(call[t]), "fexit_reset", "exit")
    BY <1>2 DEF Fexit
  <2>2. CASE Acquired(Op(call[t]), ret[t]) /\ set_lock_holder(t)
    BY <2>1, <2>2, MapAcquired DEF set_lock_holder, Flag!FlagNext
  <2>3. CASE ClearStore(t, 1)
    BY <2>3, MapReleased DEF ClearStore, Flag!FlagNext
  <2> QED BY <1>1, <2>1, <2>2, <2>3 DEF Probe
<1>3. ASSUME NEW t \in Tasks, FexitReset(t) \/ SysExitReset(t) PROVE Mapped
  <2>1. at[t] \in {"fexit_reset", "exit_reset"} /\ UNCHANGED lock_holder
        /\ lock_skip_count' = [lock_skip_count EXCEPT ![t] = 0]
    BY <1>3 DEF FexitReset, SysExitReset, ClearStore
  <2>2. ~lock_holder[t]
    BY <2>1 DEF HolderInv, FlagOK
  <2>3. CountSeen' = CountSeen
    BY <2>1, <2>2 DEF HolderInv, TypeOK, CountSeen
  <2> QED BY <2>1, <2>3 DEF Flag!flagVars
<1>4. ASSUME NEW t \in Tasks, SysExit(t) PROVE Mapped
  <2>1. CASE lock_holder' = [lock_holder EXCEPT ![t] = TRUE] /\ UNCHANGED lock_skip_count
    BY <1>4, <2>1, SysExitFrame, MapAcquired DEF Flag!FlagNext
  <2>2. CASE lock_holder' = [lock_holder EXCEPT ![t] = FALSE] /\ UNCHANGED lock_skip_count
    BY <2>2, MapReleased DEF Flag!FlagNext
  <2> QED BY <1>1, <1>4, <2>1, <2>2, SysExitCases
<1>5. ASSUME NEW t \in Tasks, Check(t) PROVE Mapped
  BY <1>5, MapCheck DEF Flag!FlagNext
<1>6. CASE UNCHANGED vars
  BY <1>1, <1>6 DEF vars, ctxVars
<1>7. ASSUME NEW t \in Tasks,
             (\E c \in Calls : EnterFutex(t, c)) \/ (\E r \in {"error", "zero", "more"} : ReturnFutex(t, r))
      PROVE  Mapped
  BY <1>1, <1>7 DEF EnterFutex, ReturnFutex, ctxVars
<1> QED BY <1>2, <1>3, <1>4, <1>5, <1>6, <1>7 DEF Next

(* The probes implement what the tick relies on: a count of skips that      *)
(* starts at 0 with each acquisition, that only checks raise, and that     *)
(* only a kick or the end of the lock resets.                              *)
THEOREM ProbesImplementFlag == Spec => ImplementsHolderFlag
<1>1. Init => Flag!FlagInit
  BY DEF Init, Flag!FlagInit, CountSeen
<1>2. HolderInv /\ [Next]_vars => [Flag!FlagNext]_(Flag!flagVars)
  BY FlagStep
<1> QED
  BY <1>1, <1>2, HolderInvariance, PTL DEF Spec, ImplementsHolderFlag, Flag!FlagSpec
=============================================================================
