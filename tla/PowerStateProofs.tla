-------------------------- MODULE PowerStateProofs --------------------------
(***************************************************************************)
(* TLAPS proofs about PowerState, for every bound on jobs, requests,       *)
(* changes of the guest and crashes, and with drivers that raise.          *)
(***************************************************************************)
EXTENDS PowerState, TLAPS

(* The initial state is well typed. *)
LEMMA InitTypeOK == Init => TypeOK
<1> SUFFICES ASSUME Init PROVE TypeOK
  OBVIOUS
<1>1. preempted \in BOOLEAN
  BY Zenon DEF Init
<1>2. asks \in 0..MaxAsks /\ acts \in 0..MaxActs /\ crashes \in 0..MaxCrashes
  BY BoundsAssumption DEF Init
<1>3. kind \in [Slots -> Kinds \cup {"none"}] /\ at \in [Slots -> Places]
  BY DEF Init, Places
<1>4. sync \in [Threads -> SyncStates]
  BY DEF Init, SyncStates
<1>. QED
  BY <1>1, <1>2, <1>3, <1>4 DEF Init, TypeOK, VmStates, TaskStates, PowerStates

(* The task_state of each kind of request. *)
LEMMA TaskOfKinds ==
    /\ TaskOf("stop") = "powering-off" /\ TaskOf("start") = "powering-on"
    /\ TaskOf("soft") = "rebooting" /\ TaskOf("hard") = "rebooting_hard"
    /\ TaskOf("pause") = "pausing" /\ TaskOf("unpause") = "unpausing"
    /\ TaskOf("suspend") = "suspending" /\ TaskOf("resume") = "resuming"
  BY Zenon DEF TaskOf

(* The places of a job of each kind. *)
Placed(s) ==
    /\ at[s] = "free" <=> kind[s] = "none"
    /\ at[s] \in {"on", "off", "was-on", "was-off"} => kind[s] = "stop"
    /\ at[s] \in {"pending", "started", "halted", "hard"} => kind[s] \in Reboots
    /\ at[s] \in {"create", "wait"} => kind[s] \in Reboots \cup {"start"}
    /\ at[s] = "acted" => kind[s] # "stop"

\* What a job writes to the instance depends on its kind: the types are
\* inductive together with the places.
TypeInv == TypeOK /\ \A s \in Slots : Placed(s)

(* Every step of the API, of a handler and of a start keeps the types. *)
LEMMA NextTypeOK == TypeInv /\ [Next]_vars => TypeOK'
<1> SUFFICES ASSUME TypeInv, [Next]_vars PROVE TypeOK'
  OBVIOUS
<1> USE BoundsAssumption
    DEF TypeInv, TypeOK, VmStates, TaskStates, PowerStates, SyncStates, Places, Threads,
        Kinds, Reboots, SoftTasks, HardTasks, row, jobs, rest, Goto, Over, Enter
<1>1. ASSUME NEW s \in Slots, Handle(s) PROVE TypeOK'
  <2>1. CASE Accept(s)
    <3>1. preempted' \in BOOLEAN
      BY <2>1, Zenon DEF Accept
    <3>2. kind[s] \in Kinds
      BY <2>1 DEF Accept, Placed
    <3>3. TaskOf(kind[s]) \in TaskStates
      BY <3>2, TaskOfKinds
    <3>4. task' \in TaskStates /\ kind' \in [Slots -> Kinds \cup {"none"}]
          /\ at' \in [Slots -> Places]
      BY <2>1, <3>3 DEF Accept
    <3>. QED
      BY <2>1, <3>1, <3>4 DEF Accept
  <2>2. CASE Receive(s) \/ StopLooks(s) \/ PowerOff(s)
    BY <2>2 DEF Receive, StopLooks, PowerOff
  <2>3. CASE StopSave(s)
    BY <2>3 DEF StopSave, Save, Done, Raised
  <2>4. CASE Destroy(s) \/ Create(s) \/ SeenRunning(s) \/ SoftReboot(s) \/ Suspend(s)
    BY <2>4 DEF Destroy, Create, SeenRunning, SoftReboot, Suspend
  <2>5. CASE MarkPending(s)
    BY <2>5 DEF MarkPending, PendingTask, Raised
  <2>6. CASE MarkStarted(s)
    BY <2>6 DEF MarkStarted, StartedTask, RebootRaises, Save, Done, Raised
  <2>7. CASE Saved(s)
    BY <2>7 DEF Saved, Finish, Done, Raised
  <2>8. CASE DriverRaises(s)
    BY <2>8 DEF DriverRaises, RebootRaises, Save, Done, Raised
  <2>. QED
    BY <1>1, <2>1, <2>2, <2>3, <2>4, <2>5, <2>6, <2>7, <2>8 DEF Handle
<1>2. ASSUME NEW s \in Slots, NEW k \in Kinds, Ask(s, k) PROVE TypeOK'
  BY <1>2 DEF Ask
<1>3. CASE List \/ Query \/ LifecycleEvent \/ GuestActs
  BY <1>3 DEF List, Query, LifecycleEvent, GuestActs
<1>4. ASSUME NEW t \in Threads, Sync(t) \/ SyncStops(t) PROVE TypeOK'
  BY <1>4 DEF Sync, SyncStops
<1>5. CASE Crash \/ Restart \/ ClearTask
  BY <1>5 DEF Crash, Restart, ClearTask
<1>6. CASE InitInstance
  BY <1>6 DEF InitInstance, RebootType, Retried
<1>7. CASE UNCHANGED vars
  BY <1>7 DEF vars
<1>. QED
  BY <1>1, <1>2, <1>3, <1>4, <1>5, <1>6, <1>7 DEF Next

(* The places of jobs stay those of their kinds. *)
LEMMA NextPlaced == TypeInv /\ [Next]_vars => \A s \in Slots : Placed(s)'
<1> SUFFICES ASSUME TypeInv, [Next]_vars, NEW r \in Slots PROVE Placed(r)'
  OBVIOUS
<1> USE DEF TypeInv, TypeOK, Placed, Kinds, Reboots, row, jobs, rest, Goto, Over,
            Enter, Is, IsReboot, Done, Raised
<1>1. ASSUME NEW s \in Slots, Handle(s) PROVE Placed(r)'
  <2>1. CASE Accept(s) \/ Receive(s) \/ StopLooks(s) \/ PowerOff(s) \/ StopSave(s)
    BY <2>1 DEF Accept, Receive, StopLooks, PowerOff, StopSave
  <2>2. CASE Destroy(s) \/ Create(s) \/ SeenRunning(s) \/ SoftReboot(s) \/ Suspend(s)
    BY <2>2 DEF Destroy, Create, SeenRunning, SoftReboot, Suspend
  <2>3. CASE MarkPending(s) \/ MarkStarted(s) \/ Saved(s) \/ DriverRaises(s)
    BY <2>3 DEF MarkPending, MarkStarted, RebootRaises, Saved, DriverRaises
  <2>. QED
    BY <1>1, <2>1, <2>2, <2>3 DEF Handle
<1>2. ASSUME NEW s \in Slots, NEW k \in Kinds, Ask(s, k) PROVE Placed(r)'
  BY <1>2 DEF Ask
<1>3. CASE List \/ Query \/ LifecycleEvent \/ GuestActs
  BY <1>3 DEF List, Query, LifecycleEvent, GuestActs
<1>4. ASSUME NEW t \in Threads, Sync(t) \/ SyncStops(t) PROVE Placed(r)'
  BY <1>4 DEF Sync, SyncStops
<1>5. CASE Crash \/ Restart \/ ClearTask
  BY <1>5 DEF Crash, Restart, ClearTask
<1>6. CASE InitInstance
  BY <1>6 DEF InitInstance, RebootType, Retried
<1>7. CASE UNCHANGED vars
  BY <1>7 DEF vars
<1>. QED
  BY <1>1, <1>2, <1>3, <1>4, <1>5, <1>6, <1>7 DEF Next

(* The types and the places together. *)
LEMMA TypeInvariant == Spec => []TypeInv
<1>1. Init => TypeInv
  BY InitTypeOK DEF Init, TypeInv, Placed
<1>2. TypeInv /\ [Next]_vars => TypeInv'
  BY NextTypeOK, NextPlaced DEF TypeInv
<1>. QED
  BY <1>1, <1>2, PTL DEF Spec

(* Type correctness of all operations, the restart of the service included. *)
THEOREM TypeCorrect == Spec => []TypeOK
<1>1. TypeInv => TypeOK
  BY DEF TypeInv
<1>. QED
  BY <1>1, TypeInvariant, PTL

-----------------------------------------------------------------------------
(* task_state as a lock.  Exclusive is not inductive: that the save of a     *)
(* handler finds the task_state it expects must be known at every place      *)
(* before it.                                                                *)

\* The task_state a job has given the instance.
Mine(s) ==
    IF kind[s] \notin Reboots \/ at[s] \in {"cast", "taken"} THEN TaskOf(kind[s])
    ELSE IF at[s] = "pending" THEN PendingTask(kind[s]) ELSE StartedTask(kind[s])

Works(s) == at[s] \notin {"free", "asked"}

\* The lock: the one job past the API has task_state, at whatever place it is.
Held ==
    /\ svc = "up"
    /\ task # "none" => \E s \in Slots : Works(s)
    /\ \A s \in Slots : Works(s) => task = Mine(s)
    /\ \A r, s \in Slots : Works(r) /\ Works(s) => r = s

LockInv == TypeInv /\ (crashes = 0 /\ ~preempted => Held)

(* No job gives an instance the task_state of an instance that is free. *)
LEMMA MineIsATask ==
    ASSUME TypeInv, NEW s \in Slots, Works(s)
    PROVE  Mine(s) # "none"
  BY TaskOfKinds
  DEF TypeInv, TypeOK, Placed, Works, Mine, PendingTask, StartedTask, Kinds, Reboots

(* A job that moves on and has the task_state of its next place. *)
LEMMA MovesOn ==
    ASSUME TypeInv, Held, NEW s \in Slots, Works(s),
           NEW p \in Places \ {"free", "asked"}, Goto(s, p),
           svc' = svc, task' = Mine(s)'
    PROVE  Held'
  BY DEF TypeInv, TypeOK, Held, Works, Goto, Mine

(* A job that ends and resets task_state. *)
LEMMA Ends ==
    ASSUME TypeInv, Held, NEW s \in Slots, Works(s), Over(s),
           svc' = svc, task' = "none"
    PROVE  Held'
  BY DEF TypeInv, TypeOK, Held, Works, Over, Mine

(* A step of a job that has passed the API. *)
LEMMA HandlerHeld ==
    ASSUME TypeInv, Held, NEW s \in Slots, Handle(s), ~Accept(s)
    PROVE  Held'
<1> USE DEF Placed, Is, IsReboot, Reboots, Kinds, Works
<1>. DEFINE Place == Places \ {"free", "asked"}
<1>0. /\ Placed(s) /\ svc = "up" /\ kind[s] \in Kinds \cup {"none"}
      /\ Works(s) => task = Mine(s) /\ kind[s] \in Kinds
  BY DEF TypeInv, TypeOK, Held
<1>1. ASSUME Goto(s, at'[s]), Works(s), at'[s] \in Place, task' = task, svc' = svc,
             kind[s] \in Reboots /\ at[s] \notin {"cast", "taken", "pending"}
                => at'[s] \notin {"cast", "taken", "pending"},
             kind[s] \in Reboots /\ at[s] = "cast" => at'[s] = "taken",
             kind[s] \in Reboots => at[s] \notin {"taken", "pending"}
      PROVE  Held'
  <2>1. Mine(s)' = Mine(s)
    BY <1>1 DEF Goto, Mine
  <2>. QED
    BY <1>0, <1>1, <2>1, MovesOn
<1>2. CASE Receive(s) \/ StopLooks(s) \/ PowerOff(s)
  BY <1>2, <1>1, <1>0 DEF Receive, StopLooks, PowerOff, Goto, row, Places, TypeInv, TypeOK
<1>3. CASE Destroy(s) \/ Create(s) \/ SeenRunning(s) \/ SoftReboot(s) \/ Suspend(s)
  BY <1>3, <1>1, <1>0
  DEF Destroy, Create, SeenRunning, SoftReboot, Suspend, Goto, row, Places, TypeInv, TypeOK
<1>4. CASE StopSave(s)
  BY <1>4, <1>0, Ends, TaskOfKinds DEF StopSave, StopExpects, Save, Done, Mine
<1>5. CASE MarkPending(s)
  BY <1>5, <1>0, MovesOn, TaskOfKinds
  DEF MarkPending, PendingTask, Mine, SoftTasks, HardTasks, Goto, Places, TypeInv, TypeOK
<1>6. CASE MarkStarted(s)
  BY <1>6, <1>0, MovesOn
  DEF MarkStarted, PendingTask, StartedTask, Mine, Goto, Places, TypeInv, TypeOK
<1>7. CASE Saved(s)
  BY <1>7, <1>0, Ends DEF Saved, Finish, Done, Mine
<1>8. CASE DriverRaises(s)
  BY <1>8, <1>0, Ends
  DEF DriverRaises, Unfit, Driving, RebootRaises, Save, Done, Raised
<1>. QED
  BY <1>2, <1>3, <1>4, <1>5, <1>6, <1>7, <1>8 DEF Handle

(* No step lets a second job have the instance or resets the task_state of   *)
(* one under way, but a crash and a hard reboot of an instance that is held. *)
LEMMA NextHeld ==
    ASSUME LockInv, [Next]_vars, (crashes = 0 /\ ~preempted)'
    PROVE  Held'
<1>. USE DEF rest, row, jobs
<1>0. crashes = 0 /\ ~preempted /\ ~Crash
  <2>1. ~Crash
    BY DEF LockInv, TypeInv, TypeOK, Crash
  <2>2. ASSUME NEW s \in Slots, Handle(s)
        PROVE  crashes' = crashes /\ (preempted => preempted')
    <3>1. CASE Accept(s)
      BY <3>1, Zenon DEF Accept
    <3>2. CASE ~Accept(s)
      BY <2>2, <3>2
      DEF Handle, Receive, StopLooks, PowerOff, StopSave, Destroy, Create,
          SeenRunning, MarkPending, MarkStarted, SoftReboot, Suspend, Saved, DriverRaises
    <3>. QED
      BY <3>1, <3>2
  <2>. QED
    BY <2>1, <2>2
    DEF Next, vars, Ask, List, Query, LifecycleEvent, GuestActs, Sync, SyncStops,
        Restart, InitInstance, ClearTask
<1>1. TypeInv /\ Held
  BY <1>0 DEF LockInv
<1>2. ASSUME NEW s \in Slots, Accept(s) PROVE Held'
  <2>1. kind[s] \in Kinds /\ at[s] = "asked"
    BY <1>1, <1>2 DEF Accept, TypeInv, TypeOK, Placed
  <2>2. CASE Takeable(kind[s])
    <3>1. ~(kind[s] = "hard" /\ task # "none")
      BY <1>2, <2>2, Zenon DEF Accept
    <3>2. task = "none" /\ \A r \in Slots : ~Works(r)
      BY <1>1, <2>2, <3>1, MineIsATask DEF Takeable, Held
    <3>. QED
      BY <1>1, <1>2, <2>1, <2>2, <3>2
      DEF Accept, Held, Works, Mine, Goto, TypeInv, TypeOK
  <2>3. CASE ~Takeable(kind[s])
    BY <1>1, <1>2, <2>1, <2>3 DEF Accept, Held, Works, Mine, Over, TypeInv, TypeOK
  <2>. QED
    BY <2>2, <2>3
<1>3. ASSUME NEW s \in Slots, NEW k \in Kinds, Ask(s, k) PROVE Held'
  BY <1>1, <1>3 DEF Ask, Enter, Held, Works, Mine, TypeInv, TypeOK
<1>4. ASSUME NEW t \in Threads, SyncStops(t) PROVE Held'
  BY <1>1, <1>4, TaskOfKinds, MineIsATask
  DEF SyncStops, Enter, Held, Works, Mine, Reboots, TypeInv, TypeOK
<1>5. ASSUME UNCHANGED <<task, jobs, svc>> PROVE Held'
  BY <1>1, <1>5 DEF Held, Works, Mine
<1>6. ~Restart /\ ~InitInstance /\ ~ClearTask
  BY <1>1 DEF Held, Restart, InitInstance, ClearTask
<1>7. ASSUME NEW t \in Threads, Sync(t) PROVE Held'
  BY <1>5, <1>7 DEF Sync
<1>8. CASE List \/ Query \/ LifecycleEvent \/ GuestActs \/ UNCHANGED vars
  BY <1>5, <1>8 DEF List, Query, LifecycleEvent, GuestActs, vars
<1>. QED
  BY <1>0, <1>1, <1>2, <1>3, <1>4, <1>6, <1>7, <1>8, HandlerHeld DEF Next

(* Without a crash, and unless a hard reboot takes the instance from another *)
(* request, task_state is held by one request at a time and by nobody else:  *)
(* for any number of requests, of guests that change by themselves and of    *)
(* drivers that raise.                                                       *)
THEOREM TaskStateIsALock == Spec => []Exclusive
<1>1. Init => LockInv
  BY InitTypeOK DEF Init, LockInv, TypeInv, Placed, Held, Works
<1>2. LockInv /\ [Next]_vars => LockInv'
  BY NextTypeOK, NextPlaced, NextHeld DEF LockInv, TypeInv
<1>3. LockInv => Exclusive
  BY MineIsATask DEF LockInv, Held, Exclusive, Busy, Works
<1>. QED
  BY <1>1, <1>2, <1>3, PTL DEF Spec
=============================================================================
