----------------------------- MODULE PowerState -----------------------------
(***************************************************************************)
(* Power operations on one instance of one compute host, and what Nova     *)
(* does about a guest that changes its state by itself: the API, the       *)
(* handlers of nova-compute, the periodic task that compares the database  *)
(* with the hypervisor, the lifecycle events of the hypervisor, and the    *)
(* start of nova-compute after a crash.                                    *)
(*                                                                         *)
(* A job is a request on its way:                                          *)
(*   asked     the API has looked at a copy of the instance                *)
(*   cast      task_state is taken and the message is queued               *)
(*   taken     nova-compute works on it, and then                          *)
(*     stop            on / off, was-on / was-off                          *)
(*     start           create, wait, acted                                 *)
(*     reboot          pending, started, halted, hard, create, wait, acted *)
(*     pause, resume   acted                                               *)
(* Slots bound the jobs at a time; the first that is free is used.         *)
(***************************************************************************)
EXTENDS Naturals

CONSTANTS
    MaxJobs,    \* bound: jobs at a time
    MaxAsks,    \* bound: requests of users
    MaxActs,    \* bound: changes of the guest that Nova has not asked for
    MaxCrashes, \* bound: crashes of nova-compute
    Faults      \* "driver": the hypervisor's driver may raise

Reboots == {"soft", "hard"}
Kinds   == {"stop", "start", "pause", "unpause", "suspend", "resume"} \cup Reboots
Slots   == 1..MaxJobs

ASSUME BoundsAssumption ==
    MaxJobs \in Nat /\ MaxAsks \in Nat /\ MaxActs \in Nat /\ MaxCrashes \in Nat
ASSUME FaultsAssumption == Faults \subseteq {"driver"}

VARIABLES
    vm,      \* vm_state in the database
    task,    \* task_state in the database
    power,   \* power_state in the database
    domain,  \* the guest's state in the hypervisor
    svc,     \* nova-compute is up, down, or in init_host
    kind,    \* kind of the job in each slot
    at,      \* where it is
    sync,    \* the threads that align the database with the hypervisor
    preempted, \* history: a hard reboot has taken the instance from another
    asks, acts, crashes

row  == <<vm, task, power>>
jobs == <<kind, at>>
rest == <<preempted, asks, acts, crashes>>
vars == <<vm, task, power, domain, svc, kind, at, sync, preempted,
          asks, acts, crashes>>

-----------------------------------------------------------------------------
(* Types and helpers *)

VmStates    == {"active", "stopped", "paused", "suspended", "error"}
PowerStates == {"running", "paused", "shutdown"}

SoftTasks == {"rebooting", "reboot_pending", "reboot_started"}
HardTasks == {"rebooting_hard", "reboot_pending_hard", "reboot_started_hard"}
TaskStates ==
    {"none", "powering-off", "powering-on", "pausing", "unpausing",
     "suspending", "resuming"} \cup SoftTasks \cup HardTasks

Places == {"free", "asked", "cast", "taken", "on", "off", "was-on", "was-off",
           "pending", "started", "halted", "hard", "create", "wait", "acted"}

Threads == {"periodic", "event"}

\* A thread is idle, has listed the instance, has seen a power state, or calls
\* the API's stop.
SyncStates == {"idle", "listed", "stops"} \cup PowerStates

TypeOK ==
    /\ vm \in VmStates /\ task \in TaskStates
    /\ power \in PowerStates /\ domain \in PowerStates
    /\ svc \in {"up", "down", "starting", "clears", "init"}
    /\ kind \in [Slots -> Kinds \cup {"none"}]
    /\ at \in [Slots -> Places]
    /\ sync \in [Threads -> SyncStates]
    /\ preempted \in BOOLEAN
    /\ asks \in 0..MaxAsks /\ acts \in 0..MaxActs /\ crashes \in 0..MaxCrashes

Is(s, k, place) == kind[s] = k /\ at[s] = place
IsReboot(s, place) == kind[s] \in Reboots /\ at[s] = place
Goto(s, place) == at' = [at EXCEPT ![s] = place] /\ UNCHANGED kind
Over(s) == at' = [at EXCEPT ![s] = "free"] /\ kind' = [kind EXCEPT ![s] = "none"]
Enter(s, k, place) ==
    /\ at[s] = "free" /\ \A r \in 1..(s - 1) : at[r] # "free"
    /\ at' = [at EXCEPT ![s] = place]
    /\ kind' = [kind EXCEPT ![s] = k]

Init ==
    /\ vm = "active" /\ task = "none" /\ power = "running" /\ domain = "running"
    /\ svc = "up"
    /\ kind = [s \in Slots |-> "none"] /\ at = [s \in Slots |-> "free"]
    /\ sync = [t \in Threads |-> "idle"]
    /\ preempted = FALSE /\ asks = 0 /\ acts = 0 /\ crashes = 0

-----------------------------------------------------------------------------
(* The API *)

\* The states check_instance_state lets pass; a hard reboot may also take an
\* instance from another operation.
Allowed(k) ==
    /\ vm \in CASE k = "stop" -> {"active", "error"}
                [] k = "start" -> {"stopped"}
                [] k = "unpause" -> {"paused"}
                [] k = "resume" -> {"suspended"}
                [] k = "hard" -> VmStates
                [] OTHER -> {"active"}
    /\ \/ task = "none"
       \/ k = "hard" /\ task \in SoftTasks \cup {"rebooting_hard", "resuming",
                                    "unpausing", "pausing", "suspending"}

\* Bug: the save expects nothing.
Takeable_Always(k) == TRUE

\* The save names what task_state may be by then; pausing is not in the list.
Takeable(k) ==
    \/ task = "none"
    \/ k = "hard" /\ task \in SoftTasks \cup {"rebooting_hard", "resuming",
                                              "unpausing", "suspending"}

TaskOf(k) == CASE k = "stop" -> "powering-off"
               [] k = "start" -> "powering-on"
               [] k = "soft" -> "rebooting"
               [] k = "hard" -> "rebooting_hard"
               [] k = "pause" -> "pausing"
               [] k = "unpause" -> "unpausing"
               [] k = "suspend" -> "suspending"
               [] k = "resume" -> "resuming"

Ask(s, k) ==
    /\ asks < MaxAsks
    /\ Allowed(k)
    /\ Enter(s, k, "asked")
    /\ asks' = asks + 1
    /\ UNCHANGED <<row, domain, svc, sync, preempted, acts, crashes>>

Accept(s) ==
    /\ at[s] = "asked"
    /\ IF Takeable(kind[s])
       THEN /\ task' = TaskOf(kind[s]) /\ Goto(s, "cast")
            /\ preempted' = (preempted \/ (kind[s] = "hard" /\ task # "none"))
       ELSE UNCHANGED <<task, preempted>> /\ Over(s)
    /\ UNCHANGED <<vm, power, domain, svc, sync, asks, acts, crashes>>

-----------------------------------------------------------------------------
(* Handlers of nova-compute *)

Receive(s) ==
    /\ at[s] = "cast"
    /\ svc = "up"
    /\ Goto(s, "taken")
    /\ UNCHANGED <<row, domain, svc, sync, rest>>

\* The job is over, and init_host, when it waits for it, goes on; a job that
\* raises out of _init_instance ends the start of the service.
Done(s) == Over(s) /\ svc' = IF svc = "init" THEN "up" ELSE svc
Raised(s) ==
    /\ Over(s)
    /\ svc' = IF svc # "init" THEN svc
              ELSE IF kind[s] \in Reboots THEN "down" ELSE "up"

\* The lock named after the instance; only stop and the periodic task take it.
Locked == \/ sync["periodic"] \notin {"idle", "listed"}
          \/ \E s \in Slots : at[s] \in {"on", "off", "was-on", "was-off"}

\* stop_instance looks whether the guest is off already ...
StopLooks(s) ==
    /\ Is(s, "stop", "taken")
    /\ ~Locked
    /\ Goto(s, IF domain = "shutdown" THEN "off" ELSE "on")
    /\ UNCHANGED <<row, domain, svc, sync, rest>>

\* ... powers it off whatever it is ...
PowerOff(s) ==
    /\ at[s] \in {"on", "off"}
    /\ domain' = "shutdown"
    /\ Goto(s, IF at[s] = "on" THEN "was-on" ELSE "was-off")
    /\ UNCHANGED <<row, svc, sync, rest>>

\* ... and expects that nobody else took the instance, or that somebody reset
\* it if the guest was off.
StopExpects(s) ==
    {"powering-off"} \cup IF at[s] = "was-off" THEN {"none"} ELSE {}

Save(v) == vm' = v /\ task' = "none" /\ power' = domain

StopSave(s) ==
    /\ at[s] \in {"was-on", "was-off"}
    /\ IF task \in StopExpects(s) THEN Save("stopped") /\ Done(s)
                                  ELSE UNCHANGED row /\ Raised(s)
    /\ UNCHANGED <<domain, sync, rest>>

\* _hard_reboot destroys the domain, for a start as for a reboot.
Destroy(s) ==
    /\ Is(s, "start", "taken") \/ at[s] = "hard"
    /\ domain' = "shutdown"
    /\ Goto(s, "create")
    /\ UNCHANGED <<row, svc, sync, rest>>

Create(s) ==
    /\ at[s] \in {"create", "halted"} \/ Is(s, "resume", "taken")
    /\ domain = "shutdown"
    /\ domain' = "running"
    /\ Goto(s, IF kind[s] = "resume" THEN "acted" ELSE "wait")
    /\ UNCHANGED <<row, svc, sync, rest>>

\* The driver polls, for as long as it takes, until the guest runs; a soft
\* reboot also ends when somebody else has started the guest.
SeenRunning(s) ==
    /\ at[s] \in {"wait", "halted"}
    /\ domain = "running"
    /\ Goto(s, "acted")
    /\ UNCHANGED <<row, domain, svc, sync, rest>>

\* A reboot marks its progress twice before the driver is called.
PendingTask(k) == IF k = "soft" THEN "reboot_pending" ELSE "reboot_pending_hard"
StartedTask(k) == IF k = "soft" THEN "reboot_started" ELSE "reboot_started_hard"

MarkPending(s) ==
    /\ IsReboot(s, "taken")
    /\ IF task \in IF kind[s] = "soft" THEN SoftTasks ELSE HardTasks
       THEN /\ task' = PendingTask(kind[s]) /\ power' = domain
            /\ Goto(s, "pending") /\ UNCHANGED svc
       ELSE UNCHANGED <<task, power>> /\ Raised(s)
    /\ UNCHANGED <<vm, domain, sync, rest>>

\* An exception in a reboot: the guest that runs is taken for rebooted, and
\* any other puts the instance in ERROR, with the task_state given.
RebootRaises(s, left) ==
    IF domain = "running"
    THEN Save("active") /\ Done(s)
    ELSE /\ vm' = "error" /\ task' = left /\ UNCHANGED power
         /\ Raised(s)

\* The second save is inside the try: that another request has the instance by
\* then is an exception like any other, and the save of ERROR carries the
\* task_state that this one could not write.
MarkStarted(s) ==
    /\ IsReboot(s, "pending")
    /\ IF task = PendingTask(kind[s])
       THEN /\ task' = StartedTask(kind[s])
            /\ Goto(s, IF kind[s] = "soft" THEN "started" ELSE "hard")
            /\ UNCHANGED <<vm, power, svc>>
       ELSE RebootRaises(s, StartedTask(kind[s]))
    /\ UNCHANGED <<domain, sync, rest>>

\* _soft_reboot: the guest shuts down when told; if that fails or it is not
\* seen to, it is destroyed.
SoftReboot(s) ==
    /\ Is(s, "soft", "started") \/ at[s] = "halted"
    /\ \/ /\ at[s] = "started" /\ domain = "running"
          /\ domain' = "shutdown" /\ Goto(s, "halted")
       \/ UNCHANGED domain /\ Goto(s, "hard")
    /\ UNCHANGED <<row, svc, sync, rest>>

\* pause, unpause and suspend (a managed save, which shuts the domain off).
Suspend(s) ==
    /\ domain # "shutdown"
    /\ \/ Is(s, "pause", "taken")   /\ domain' = "paused"
       \/ Is(s, "unpause", "taken") /\ domain' = "running"
       \/ Is(s, "suspend", "taken") /\ domain' = "shutdown"
    /\ Goto(s, "acted")
    /\ UNCHANGED <<row, svc, sync, rest>>

\* Bug: resume takes the state before the suspend without a default.
Finish_NoDefault(s) ==
    /\ power' = domain
    /\ task' = "none"
    /\ vm' = CASE kind[s] = "pause" -> "paused"
               [] kind[s] = "suspend" -> "suspended"
               [] kind[s] = "resume" -> "none"
               [] OTHER -> "active"

Finish(s) ==
    /\ power' = domain
    /\ task' = "none"
    /\ vm' = CASE kind[s] = "pause" -> "paused"
               [] kind[s] = "suspend" -> "suspended"
               [] OTHER -> "active"

\* The last save of a handler; that of a reboot expects nothing.
Saved(s) ==
    /\ at[s] = "acted"
    /\ IF kind[s] \in Reboots \/ task = TaskOf(kind[s])
       THEN Finish(s) /\ Done(s)
       ELSE UNCHANGED row /\ Raised(s)
    /\ UNCHANGED <<domain, sync, rest>>

\* The driver raises, for a domain in another state than it takes or for any
\* reason: reverts_task_state resets task_state, whoever has it by then.
Unfit(s) ==
    IF domain = "shutdown"
    THEN at[s] = "taken" /\ kind[s] \in {"pause", "unpause", "suspend"}
    ELSE at[s] = "create" \/ Is(s, "resume", "taken")

Driving(s) ==
    \/ at[s] \in {"on", "off", "hard", "create"}
    \/ at[s] = "taken" /\ kind[s] \in Kinds \ (Reboots \cup {"stop"})

DriverRaises(s) ==
    /\ Unfit(s) \/ (Driving(s) /\ "driver" \in Faults)
    /\ IF kind[s] \in Reboots
       THEN RebootRaises(s, "none")
       ELSE /\ vm' = IF kind[s] \in {"suspend", "resume"} THEN "error" ELSE vm
            /\ task' = "none"
            /\ UNCHANGED power
            /\ Raised(s)
    /\ UNCHANGED <<domain, sync, rest>>

-----------------------------------------------------------------------------
(* The database follows the hypervisor *)

\* _sync_power_states lists the instances of the host.
List ==
    /\ svc = "up"
    /\ sync["periodic"] = "idle"
    /\ task = "none"
    /\ sync' = [sync EXCEPT !["periodic"] = "listed"]
    /\ UNCHANGED <<row, domain, svc, jobs, rest>>

\* One of them is looked up in the hypervisor, under its lock.
Query ==
    /\ sync["periodic"] = "listed"
    /\ ~Locked
    /\ sync' = [sync EXCEPT !["periodic"] = domain]
    /\ UNCHANGED <<row, domain, svc, jobs, rest>>

\* handle_lifecycle_event, without the lock: events come late or never, and
\* count only if the guest still is in their state.
LifecycleEvent ==
    /\ svc # "down"
    /\ sync["event"] = "idle"
    /\ sync' = [sync EXCEPT !["event"] = domain]
    /\ UNCHANGED <<row, domain, svc, jobs, rest>>

\* Bug: a stopped instance is left alone.
MustStop_ActiveOnly(seen) == vm = "active" /\ seen = "shutdown"

\* A guest that shut down, or that runs though it should not, calls for a stop;
\* whatever else differs is ignored.
MustStop(seen) ==
    \/ vm \in {"active", "paused"} /\ seen = "shutdown"
    \/ vm = "stopped" /\ seen # "shutdown"

\* _sync_instance_power_state reads the instance again and saves what it has
\* seen ...
Sync(t) ==
    /\ sync[t] \in PowerStates
    /\ power' = IF task = "none" THEN sync[t] ELSE power
    /\ sync' = [sync EXCEPT ![t] =
                   IF task = "none" /\ MustStop(sync[t]) THEN "stops" ELSE "idle"]
    /\ UNCHANGED <<vm, task, domain, svc, jobs, rest>>

\* ... and calls the API, of which force_stop takes any vm_state.
SyncStops(t) ==
    /\ sync[t] = "stops"
    /\ sync' = [sync EXCEPT ![t] = "idle"]
    /\ IF task = "none"
       THEN task' = "powering-off" /\ \E s \in Slots : Enter(s, "stop", "cast")
       ELSE UNCHANGED <<task, jobs>>
    /\ UNCHANGED <<vm, power, domain, svc, rest>>

\* The guest, or somebody at the hypervisor, changes its state.
GuestActs ==
    /\ acts < MaxActs
    /\ domain' \in PowerStates \ {domain}
    /\ domain = "shutdown" => domain' = "running"
    /\ acts' = acts + 1
    /\ UNCHANGED <<row, svc, jobs, sync, preempted, asks, crashes>>

-----------------------------------------------------------------------------
(* Crash and start of nova-compute *)

Crash ==
    /\ crashes < MaxCrashes
    /\ svc # "down"
    /\ svc' = "down"
    /\ crashes' = crashes + 1
    /\ LET kept == {s \in Slots : at[s] \in {"asked", "cast"}} IN
         /\ at' = [s \in Slots |-> IF s \in kept THEN at[s] ELSE "free"]
         /\ kind' = [s \in Slots |-> IF s \in kept THEN kind[s] ELSE "none"]
    /\ sync' = [t \in Threads |-> "idle"]
    /\ UNCHANGED <<row, domain, preempted, asks, acts>>

Restart ==
    /\ svc = "down"
    /\ svc' = "starting"
    /\ UNCHANGED <<row, domain, jobs, sync, rest>>

\* _retry_reboot: was a reboot on its way?
RetryReboot ==
    \/ task = "reboot_pending" /\ vm = "active"
    \/ task = "reboot_pending_hard"
    \/ task \in {"reboot_started", "reboot_started_hard"} /\ domain # "running"

RebootType == IF domain = "running" /\ task \in SoftTasks THEN "soft" ELSE "hard"

\* Tasks that a guest found running has left behind.
Forgotten == /\ domain = "running"
             /\ task \in {"reboot_started", "reboot_started_hard", "pausing",
                          "unpausing"}

\* Bug: a start that was interrupted is not taken up.
Retried_NoStart == IF domain = "paused" /\ task = "unpausing" THEN "unpause"
                   ELSE IF task = "powering-off" THEN "stop" ELSE "none"

Retried == IF domain = "paused" /\ task = "unpausing" THEN "unpause"
           ELSE IF task = "powering-off" THEN "stop"
           ELSE IF task = "powering-on" THEN "start" ELSE "none"

\* _init_instance retries a reboot, clears a task, or retries another one. The
\* task_state that a soft reboot turned hard should have is not saved.
InitInstance ==
    /\ svc = "starting"
    /\ \/ /\ vm # "error" /\ RetryReboot
          /\ svc' = "init"
          /\ \E s \in Slots : Enter(s, RebootType, "taken")
          /\ UNCHANGED row
       \/ /\ vm # "error" /\ ~RetryReboot /\ Forgotten
          /\ svc' = "clears"
          /\ UNCHANGED <<row, jobs>>
       \/ /\ vm # "error" /\ ~RetryReboot /\ ~Forgotten /\ Retried # "none"
          /\ svc' = "init"
          /\ \E s \in Slots : Enter(s, Retried, "taken")
          /\ UNCHANGED row
       \/ /\ vm = "error" \/ (~RetryReboot /\ ~Forgotten /\ Retried = "none")
          /\ svc' = "up"
          /\ UNCHANGED <<row, jobs>>
    /\ UNCHANGED <<domain, sync, rest>>

\* The save that clears a task does not look who has it by now.
ClearTask ==
    /\ svc = "clears"
    /\ svc' = "up"
    /\ vm' = "active" /\ task' = "none"
    /\ UNCHANGED <<power, domain, jobs, sync, rest>>

-----------------------------------------------------------------------------

Handle(s) ==
    \/ Accept(s) \/ Receive(s) \/ StopLooks(s) \/ PowerOff(s) \/ StopSave(s)
    \/ Destroy(s) \/ Create(s) \/ SeenRunning(s) \/ MarkPending(s) \/ MarkStarted(s)
    \/ SoftReboot(s) \/ Suspend(s) \/ Saved(s) \/ DriverRaises(s)

Next ==
    \/ \E s \in Slots : Handle(s) \/ \E k \in Kinds : Ask(s, k)
    \/ List \/ Query \/ LifecycleEvent \/ GuestActs
    \/ \E t \in Threads : Sync(t) \/ SyncStops(t)
    \/ Crash \/ Restart \/ InitInstance \/ ClearTask

Spec == Init /\ [][Next]_vars

\* Threads are scheduled, the periodic task runs again and again, and a service
\* that is down is started. Events and requests need not come.
Fairness ==
    /\ \A s \in Slots : WF_vars(Handle(s))
    /\ WF_vars(List) /\ WF_vars(Query)
    /\ \A t \in Threads : WF_vars(Sync(t)) /\ WF_vars(SyncStops(t))
    /\ WF_vars(Restart) /\ WF_vars(InitInstance) /\ WF_vars(ClearTask)

FairSpec == Spec /\ Fairness

-----------------------------------------------------------------------------
(* Correctness *)

\* The database tells the state of the guest, and whether the instance is off.
Agree == /\ power = domain
         /\ vm \in {"active", "paused"} => domain # "shutdown"
         /\ vm = "stopped" => domain = "shutdown"

\* When users and guests come to rest, the database is right about an instance
\* that no request holds: whatever interleaving of handlers, events and a crash
\* made it wrong, the periodic task finds it.
Converges == <>[](task = "none" => Agree)

\* What init_host leaves alone: an instance in ERROR, the unpause of a guest
\* that is off; and a driver may wait for a guest that has gone off again.
LeftAlone ==
    \/ vm = "error"
    \/ task = "unpausing" /\ domain = "shutdown"
    \/ domain # "running" /\ \E s \in Slots : at[s] = "wait"

\* No crash leaves an instance for good in a task_state that init_host takes up.
TakenUp ==
    \A t \in {"powering-off", "powering-on", "unpausing", "reboot_pending_hard",
              "reboot_started_hard"} : []<>(task # t \/ LeftAlone)

\* Jobs that have taken task_state.
Busy == {s \in Slots : at[s] \notin {"free", "asked"}}

\* task_state is the lock of an instance: without a crash, and unless a hard
\* reboot takes it from another request, one request holds it at a time, from
\* the API to the end of its handler, and nobody resets it under way.
Exclusive ==
    crashes = 0 /\ ~preempted =>
        /\ \A r, s \in Busy : r = s
        /\ task = "none" <=> Busy = {}
=============================================================================
