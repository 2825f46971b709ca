-------------------------------- MODULE Sched --------------------------------
(***************************************************************************)
(* What a scheduler promises of its tasks, whatever queues, flags, masks   *)
(* and kicks it uses: a task wakes, waits, runs and blocks; it is assigned *)
(* to a CPU it may use, changes it only while it waits, and runs there     *)
(* alone.  Imperator implements it.                                        *)
(***************************************************************************)
CONSTANTS Cpus,
          Tasks,
          Allowed    \* Allowed[t]: the CPUs task t may use

VARIABLES status,    \* asleep, waiting or running
          cpu        \* the CPU the task is assigned to

schedVars == <<status, cpu>>

Becomes(t, s) == status' = [status EXCEPT ![t] = s]

(* The task is assigned to one of its CPUs, maybe the one it had. *)
Assign(t) == \E d \in Allowed[t] : cpu' = [cpu EXCEPT ![t] = d]

SchedInit ==
  /\ status = [t \in Tasks |-> "asleep"]
  /\ cpu \in [Tasks -> Cpus]
  /\ \A t \in Tasks : cpu[t] \in Allowed[t]

Wake(t) == status[t] = "asleep" /\ Becomes(t, "waiting") /\ Assign(t)

Move(t) == status[t] = "waiting" /\ Assign(t) /\ UNCHANGED status

Start(t) ==
  /\ status[t] = "waiting"
  /\ \A u \in Tasks : status[u] = "running" => cpu[u] # cpu[t]
  /\ Becomes(t, "running")
  /\ UNCHANGED cpu

Stop(t) == status[t] = "running" /\ Becomes(t, "waiting") /\ UNCHANGED cpu

Sleep(t) == status[t] = "running" /\ Becomes(t, "asleep") /\ UNCHANGED cpu

SchedNext == \E t \in Tasks : Wake(t) \/ Move(t) \/ Start(t) \/ Stop(t) \/ Sleep(t)

SchedSpec == SchedInit /\ [][SchedNext]_schedVars
=============================================================================
