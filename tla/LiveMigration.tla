--------------------------- MODULE LiveMigration ---------------------------
(***************************************************************************)
(* Live migration of one instance, as Nova's API, conductor and the two   *)
(* nova-compute services run it over the libvirt driver.                   *)
(*                                                                         *)
(* A migration m goes through                                              *)
(*   requested  task_state was set by the API, the conductor runs its task *)
(*   sent       the live_migration cast waits in the source's queue        *)
(*   queued     the source's green thread waits for the semaphore          *)
(*   preparing  the source waits for pre_live_migration at the destination *)
(*   running    the monitor watches the libvirt job                        *)
(*   post       the guest has left, _post_live_migration starts            *)
(*   cleanup    ... and has cast post_live_migration_at_destination        *)
(*   rollback   _rollback_live_migration starts                            *)
(*   disconnect ... and waits for remove_volume_connection                 *)
(*   over       no thread of Nova works for this migration any more        *)
(* while requests to the destination sit in msgs and the libvirt job moves *)
(* the guest on its own.                                                   *)
(***************************************************************************)
EXTENDS Naturals, FiniteSets

CONSTANTS
    Hosts,          \* compute hosts
    MaxMigrations,  \* bound: live-migrate requests accepted in a behaviour
    MaxCrashes,     \* bound: crashes of nova-compute in a behaviour
    Permits,        \* CONF.max_concurrent_live_migrations, 0 = unlimited
    SharedPath,     \* is the instance directory on storage all hosts share?
    ResumeOnBoot,   \* CONF.resume_guests_state_on_host_boot
    Faults          \* the faults the environment may inject

FaultKinds == {"crash", "timeout", "monitor", "post", "remove", "arrive"}

ASSUME HostsAssumption     == IsFiniteSet(Hosts) /\ "nohost" \notin Hosts
ASSUME BoundsAssumption    == MaxMigrations \in Nat /\ MaxCrashes \in Nat
ASSUME ConfigAssumption    == /\ Permits \in Nat
                              /\ SharedPath \in BOOLEAN
                              /\ ResumeOnBoot \in BOOLEAN
ASSUME FaultsAssumption    == Faults \subseteq FaultKinds

VARIABLES
    vm_state,   \* instances.vm_state
    task_state, \* instances.task_state
    host,       \* instances.host
    domain,     \* the libvirt domain of the instance, on each host
    has,        \* what each host holds for the instance
    up,         \* hosts whose nova-compute runs
    pc,         \* how far each migration is
    src,        \* migrations.source_compute
    dst,        \* migrations.dest_compute
    status,     \* migrations.status
    reply,      \* answer of the call the source thread waits for
    job,        \* the libvirt migration job
    msgs,       \* requests in the queues of the destinations
    crashes     \* crashes so far

inst == <<vm_state, task_state, host>>
hyp  == <<domain, has>>
mig  == <<src, dst, status, reply>>
vars == <<vm_state, task_state, host, domain, has, up, pc, src, dst, status,
          reply, job, msgs, crashes>>

-----------------------------------------------------------------------------
(* Types and helpers *)

Migs == 1 .. MaxMigrations

\* The instance directory, the volume connections and the plugged VIFs.
Artefacts == {"path", "volumes", "vifs"}

PCs == {"unused", "requested", "sent", "queued", "preparing", "running",
        "post", "cleanup", "rollback", "disconnect", "over"}

Statuses == {"none", "pre-migrating", "queued", "preparing", "running",
             "completed", "error", "failed"}

Requests == {"pre", "remove", "post", "rollback"} \X Migs

\* The source threads inside "with self._live_migration_semaphore".
Holding == {"preparing", "running", "post", "cleanup", "rollback",
            "disconnect"}

\* The source threads a crash of nova-compute kills; "sent" is a message in
\* the queue of the source and survives.
Threads == Holding \cup {"queued"}

TypeOK ==
    /\ vm_state \in {"active", "error"}
    /\ task_state \in {"none", "migrating"}
    /\ host \in Hosts
    /\ domain \in [Hosts -> {"none", "incoming", "running"}]
    /\ has \in [Hosts -> SUBSET Artefacts]
    /\ up \in SUBSET Hosts
    /\ pc \in [Migs -> PCs]
    /\ src \in [Migs -> Hosts \cup {"nohost"}]
    /\ dst \in [Migs -> Hosts \cup {"nohost"}]
    /\ status \in [Migs -> Statuses]
    /\ reply \in [Migs -> {"none", "ok", "error"}]
    /\ job \in [Migs -> {"none", "active", "over"}]
    /\ msgs \in SUBSET Requests
    /\ crashes \in 0 .. MaxCrashes

\* Bugs: the destination is always, or never, cleaned up.
DoCleanup_Always == TRUE
DoCleanup_Never == FALSE

\* _live_migration_cleanup_flags: block migration is refused on shared
\* storage, so what decides is whether the instance path is shared.
DoCleanup == ~SharedPath

\* What a host holds by itself: a shared instance directory is everywhere.
Bare == IF SharedPath THEN {"path"} ELSE {}

Goto(m, next) == pc' = [pc EXCEPT ![m] = next]
SetStatus(m, s) == status' = [status EXCEPT ![m] = s]

\* An exception leaves _do_live_migration: the record is marked failed.
Fail(m) == Goto(m, "over") /\ SetStatus(m, "failed")

\* Bug: the thread is dispatched without the semaphore.
SemaphoreFree_Unlimited(h) == TRUE

SemaphoreFree(h) ==
    \/ Permits = 0
    \/ Cardinality({n \in Migs : src[n] = h /\ pc[n] \in Holding}) < Permits

Init ==
    \E h \in Hosts :
      /\ vm_state = "active" /\ task_state = "none" /\ host = h
      /\ domain = [g \in Hosts |-> IF g = h THEN "running" ELSE "none"]
      /\ has = [g \in Hosts |-> IF g = h THEN Artefacts ELSE Bare]
      /\ up = Hosts
      /\ pc = [m \in Migs |-> "unused"]
      /\ src = [m \in Migs |-> "nohost"]
      /\ dst = [m \in Migs |-> "nohost"]
      /\ status = [m \in Migs |-> "none"]
      /\ reply = [m \in Migs |-> "none"]
      /\ job = [m \in Migs |-> "none"]
      /\ msgs = {}
      /\ crashes = 0

-----------------------------------------------------------------------------
(* nova-api and nova-conductor *)

\* Bug: the save does not expect task_state to be None.
Migratable_NoExpectedTaskState == vm_state = "active"

\* check_instance_state, and expected_task_state=[None] of the save.
Migratable == vm_state = "active" /\ task_state = "none"

\* API.live_migrate: a compare-and-swap of task_state from None, which also
\* reloads the object, so the conductor receives the recorded host.
LiveMigrate(m) ==
    /\ pc[m] = "unused"
    /\ \A n \in Migs : n < m => pc[n] # "unused"
    /\ Migratable
    /\ task_state' = "migrating"
    /\ src' = [src EXCEPT ![m] = host]
    /\ Goto(m, "requested")
    /\ UNCHANGED <<vm_state, host, hyp, up, dst, status, reply, job, msgs,
                   crashes>>

\* The task of the conductor found or accepted a destination (never the
\* source) whose checks answered, and casts live_migration to the source.
ConductorSend(m, d) ==
    /\ pc[m] = "requested"
    /\ d # src[m]
    /\ {src[m], d} \subseteq up
    /\ dst' = [dst EXCEPT ![m] = d]
    /\ SetStatus(m, "pre-migrating")
    /\ Goto(m, "sent")
    /\ UNCHANGED <<inst, hyp, up, src, reply, job, msgs, crashes>>

\* One of the listed exceptions. set_vm_state_and_notify builds an Instance
\* from the updates, where expected_task_state is a mere attribute, and saves
\* it without a condition.
ConductorRefuse(m) ==
    /\ pc[m] = "requested"
    /\ vm_state' = "active"
    /\ task_state' = "none"
    /\ Goto(m, "over")
    /\ SetStatus(m, "error")
    /\ UNCHANGED <<host, hyp, up, src, dst, reply, job, msgs, crashes>>

\* Any other exception: vm_state ERROR, task_state written back as it was in
\* the conductor's copy of the instance.
ConductorFail(m) ==
    /\ pc[m] = "requested"
    /\ vm_state' = "error"
    /\ task_state' = "migrating"
    /\ Fail(m)
    /\ UNCHANGED <<host, hyp, up, src, dst, reply, job, msgs, crashes>>

-----------------------------------------------------------------------------
(* nova-compute of the source, up to the libvirt job *)

\* ComputeManager.live_migration: mark the record and spawn a green thread.
LiveMigration(m) ==
    /\ pc[m] = "sent"
    /\ src[m] \in up
    /\ Goto(m, "queued")
    /\ SetStatus(m, "queued")
    /\ UNCHANGED <<inst, hyp, up, src, dst, reply, job, msgs, crashes>>

\* _do_live_migration enters under the semaphore and calls the destination.
DoLiveMigration(m) ==
    /\ pc[m] = "queued"
    /\ SemaphoreFree(src[m])
    /\ Goto(m, "preparing")
    /\ SetStatus(m, "preparing")
    /\ msgs' = msgs \cup {<<"pre", m>>}
    /\ UNCHANGED <<inst, hyp, up, src, dst, reply, job, crashes>>

\* pre_live_migration answered: the driver looks the guest up and spawns
\* migrateToURI, which needs a running guest, free of another job, here and
\* none there. A guest that is not on this host raises InstanceNotFound.
StartJob(m) ==
    /\ pc[m] = "preparing"
    /\ reply[m] = "ok"
    /\ reply' = [reply EXCEPT ![m] = "none"]
    /\ \/ /\ domain[src[m]] = "none"
          /\ Fail(m)
          /\ UNCHANGED <<domain, job>>
       \/ /\ domain[src[m]] # "none"
          /\ Goto(m, "running")
          /\ SetStatus(m, "running")
          /\ IF /\ domain[src[m]] = "running"
                /\ domain[dst[m]] = "none"
                /\ \A n \in Migs : job[n] # "active"
             THEN /\ job' = [job EXCEPT ![m] = "active"]
                  /\ domain' = [domain EXCEPT ![dst[m]] = "incoming"]
             ELSE /\ job' = [job EXCEPT ![m] = "over"]
                  /\ UNCHANGED domain
    /\ UNCHANGED <<inst, has, up, src, dst, msgs, crashes>>

\* pre_live_migration raised, or its answer did not come in time: the record
\* is marked failed before the rollback starts.
PreLiveMigrationFailed(m) ==
    /\ pc[m] = "preparing"
    /\ \/ reply[m] = "error"
       \/ /\ reply[m] = "none"
          /\ "timeout" \in Faults \/ dst[m] \notin up
    /\ reply' = [reply EXCEPT ![m] = "none"]
    /\ Goto(m, "rollback")
    /\ SetStatus(m, "failed")
    /\ UNCHANGED <<inst, hyp, up, src, dst, job, msgs, crashes>>

-----------------------------------------------------------------------------
(* libvirt: the job runs on its own (peer-to-peer), whatever Nova does *)

\* The switchover: the guest stops at the source and runs at the destination.
JobCompletes(m) ==
    /\ job[m] = "active"
    /\ domain[src[m]] = "running"
    /\ domain[dst[m]] = "incoming"
    /\ domain' = [domain EXCEPT ![src[m]] = "none", ![dst[m]] = "running"]
    /\ job' = [job EXCEPT ![m] = "over"]
    /\ UNCHANGED <<inst, has, up, pc, mig, msgs, crashes>>

\* The job fails, or is cancelled by the monitor's timeouts or by an admin.
JobFails(m) ==
    /\ job[m] = "active"
    /\ domain' = [domain EXCEPT ![dst[m]] =
                     IF @ = "incoming" THEN "none" ELSE @]
    /\ job' = [job EXCEPT ![m] = "over"]
    /\ UNCHANGED <<inst, has, up, pc, mig, msgs, crashes>>

-----------------------------------------------------------------------------
(* The monitor of the source: it sees the source's domain only *)

\* Bug: the end of the operation thread is taken for a completed migration.
GuestGone_JobOver(m) == job[m] = "over"

\* DomainJobInfo.for_domain and is_active() find no active domain here.
GuestGone(m) == domain[src[m]] = "none"

\* A domain that is gone or shut off means a completed migration.
MonitorCompleted(m) ==
    /\ pc[m] = "running"
    /\ GuestGone(m)
    /\ Goto(m, "post")
    /\ UNCHANGED <<inst, hyp, up, mig, job, msgs, crashes>>

\* The job is over and the guest is still active here: FAILED or CANCELLED.
MonitorFailed(m) ==
    /\ pc[m] = "running"
    /\ ~GuestGone(m)
    /\ job[m] = "over"
    /\ Goto(m, "rollback")
    /\ UNCHANGED <<inst, hyp, up, mig, job, msgs, crashes>>

\* is_active() raises something else than NO_DOMAIN after the operation
\* thread ended: the migration is taken for failed wherever the guest is.
MonitorMisreads(m) ==
    /\ "monitor" \in Faults
    /\ pc[m] = "running"
    /\ job[m] = "over"
    /\ Goto(m, "rollback")
    /\ UNCHANGED <<inst, hyp, up, mig, job, msgs, crashes>>

\* jobStats, abortJob or instance.save raises out of the monitor: the job is
\* left to itself.
MonitorRaises(m) ==
    /\ "monitor" \in Faults
    /\ pc[m] = "running"
    /\ Fail(m)
    /\ UNCHANGED <<inst, hyp, up, src, dst, reply, job, msgs, crashes>>

-----------------------------------------------------------------------------
(* _post_live_migration *)

\* Up to the cast: volumes disconnected, VIFs unplugged at the source.
PostLiveMigration(m) ==
    /\ pc[m] = "post"
    /\ has' = [has EXCEPT ![src[m]] = @ \ {"volumes", "vifs"}]
    /\ msgs' = msgs \cup {<<"post", m>>}
    /\ Goto(m, "cleanup")
    /\ UNCHANGED <<inst, domain, up, mig, job, crashes>>

\* After the cast: driver.cleanup deletes the directory unless it is shared,
\* then the record is completed.
PostCleanup(m) ==
    /\ pc[m] = "cleanup"
    /\ has' = [has EXCEPT ![src[m]] =
                  IF DoCleanup THEN @ \ {"path"} ELSE @]
    /\ Goto(m, "over")
    /\ SetStatus(m, "completed")
    /\ UNCHANGED <<inst, domain, up, src, dst, reply, job, msgs, crashes>>

\* A call of _post_live_migration raises; what it did before stays done.
PostFails(m) ==
    /\ "post" \in Faults
    /\ \/ /\ pc[m] = "post"
          /\ \E gone \in {{}, {"volumes"}, {"volumes", "vifs"}} :
                has' = [has EXCEPT ![src[m]] = @ \ gone]
       \/ /\ pc[m] = "cleanup"
          /\ UNCHANGED has
    /\ Fail(m)
    /\ UNCHANGED <<inst, domain, up, src, dst, reply, job, msgs, crashes>>

-----------------------------------------------------------------------------
(* _rollback_live_migration *)

\* task_state is reset first, if it still is MIGRATING, and only then is the
\* destination asked to drop the volumes; otherwise the save raises.
RollbackLiveMigration(m) ==
    /\ pc[m] = "rollback"
    /\ IF task_state = "migrating"
       THEN /\ task_state' = "none"
            /\ msgs' = msgs \cup {<<"remove", m>>}
            /\ Goto(m, "disconnect")
            /\ UNCHANGED status
       ELSE /\ Fail(m)
            /\ UNCHANGED <<task_state, msgs>>
    /\ UNCHANGED <<vm_state, host, hyp, up, src, dst, reply, job, crashes>>

\* The volumes are gone: cast the rollback to the destination when there is
\* something to clean up; a record that was running ends as error.
RollbackFinish(m) ==
    /\ pc[m] = "disconnect"
    /\ reply[m] = "ok"
    /\ reply' = [reply EXCEPT ![m] = "none"]
    /\ msgs' = IF DoCleanup THEN msgs \cup {<<"rollback", m>>} ELSE msgs
    /\ Goto(m, "over")
    /\ SetStatus(m, IF status[m] = "running" THEN "error" ELSE status[m])
    /\ UNCHANGED <<inst, hyp, up, src, dst, job, crashes>>

\* remove_volume_connection raised or timed out: the rollback stops here and
\* the destination is not cleaned up.
RollbackFails(m) ==
    /\ pc[m] = "disconnect"
    /\ \/ reply[m] = "error"
       \/ /\ reply[m] = "none"
          /\ "timeout" \in Faults \/ dst[m] \notin up
    /\ reply' = [reply EXCEPT ![m] = "none"]
    /\ Fail(m)
    /\ UNCHANGED <<inst, hyp, up, src, dst, job, msgs, crashes>>

-----------------------------------------------------------------------------
(* nova-compute of the destination: requests are served in any order *)

Receive(kind, m) ==
    /\ <<kind, m>> \in msgs
    /\ dst[m] \in up
    /\ msgs' = msgs \ {<<kind, m>>}

\* The answer of a call only matters while its caller still waits for it.
Answer(m, waiting, r) ==
    reply' = [reply EXCEPT ![m] = IF pc[m] = waiting THEN r ELSE @]

\* pre_live_migration: directory, volumes and VIFs in this order, with an
\* error possible after each; DestinationDiskExists when the directory is
\* there already.
PreLiveMigration(m) ==
    /\ Receive("pre", m)
    /\ \E done \in {{}, {"path"}, {"path", "volumes"}, Artefacts},
          r \in {"ok", "error"} :
         /\ done # {} => SharedPath \/ "path" \notin has[dst[m]]
         /\ r = "ok" => done = Artefacts
         /\ has' = [has EXCEPT ![dst[m]] = @ \cup done]
         /\ Answer(m, "preparing", r)
    /\ UNCHANGED <<inst, domain, up, pc, src, dst, status, job, crashes>>

\* remove_volume_connection: detach and disconnect, or an error.
RemoveVolumeConnection(m) ==
    /\ Receive("remove", m)
    /\ \/ /\ has' = [has EXCEPT ![dst[m]] = @ \ {"volumes"}]
          /\ Answer(m, "disconnect", "ok")
       \/ /\ "remove" \in Faults
          /\ UNCHANGED has
          /\ Answer(m, "disconnect", "error")
    /\ UNCHANGED <<inst, domain, up, pc, src, dst, status, job, crashes>>

\* Bugs: host is not updated; task_state is not reset; host is cleared.
RecordAtDestination_KeepsHost(m) == UNCHANGED host /\ task_state' = "none"
RecordAtDestination_KeepsTask(m) == host' = dst[m] /\ UNCHANGED task_state
RecordAtDestination_NoHost(m) == host' = "nohost" /\ task_state' = "none"

\* The save of post_live_migration_at_destination.
RecordAtDestination(m) == host' = dst[m] /\ task_state' = "none"

\* post_live_migration_at_destination: the instance is recorded here if it
\* still is MIGRATING; otherwise the save raises and nothing is recorded, and
\* neither is it when the networks, the driver or a query before the save
\* raise ("arrive"): MIGRATING stays, and nobody is told.
PostLiveMigrationAtDestination(m) ==
    /\ Receive("post", m)
    /\ \/ task_state = "migrating" /\ RecordAtDestination(m)
       \/ /\ task_state # "migrating" \/ "arrive" \in Faults
          /\ UNCHANGED <<host, task_state>>
    /\ UNCHANGED <<vm_state, hyp, up, pc, mig, job, crashes>>

\* rollback_live_migration_at_destination: driver.destroy of whatever domain
\* the instance has here, and the directory goes.
RollbackLiveMigrationAtDestination(m) ==
    /\ Receive("rollback", m)
    /\ domain' = [domain EXCEPT ![dst[m]] = "none"]
    /\ has' = [has EXCEPT ![dst[m]] = {}]
    /\ UNCHANGED <<inst, up, pc, mig, job, crashes>>

-----------------------------------------------------------------------------
(* Crash and restart of nova-compute; the guests keep running *)

Crash(h) ==
    /\ "crash" \in Faults
    /\ crashes < MaxCrashes
    /\ h \in up
    /\ up' = up \ {h}
    /\ pc' = [m \in Migs |-> IF src[m] = h /\ pc[m] \in Threads
                             THEN "over" ELSE pc[m]]
    /\ reply' = [m \in Migs |-> IF src[m] = h THEN "none" ELSE reply[m]]
    /\ crashes' = crashes + 1
    /\ UNCHANGED <<inst, hyp, src, dst, status, job, msgs>>

\* Bug: guests are started whatever the option says.
Resumes_Always(h) == domain[h] = "none"

\* The database says RUNNING, the driver does not, and the option is set.
Resumes(h) == ResumeOnBoot /\ domain[h] = "none"

\* _init_instance for an instance recorded on this host: skipped in ERROR,
\* else VIFs are plugged, MIGRATING is reset and, with the option set, a guest
\* that should run is started (hard reboot, volumes connected again).
InitInstance(h) ==
    LET mine   == host = h /\ vm_state # "error"
        resume == mine /\ Resumes(h)
    IN /\ task_state' = IF mine THEN "none" ELSE task_state
       /\ domain' = IF resume THEN [domain EXCEPT ![h] = "running"]
                              ELSE domain
       /\ has' = [has EXCEPT ![h] = @ \cup (IF resume THEN Artefacts
                                            ELSE IF mine THEN {"vifs"}
                                            ELSE {})]

\* init_host of a nova-compute that comes back.
Restart(h) ==
    /\ h \notin up
    /\ up' = up \cup {h}
    /\ InitInstance(h)
    /\ UNCHANGED <<vm_state, host, pc, mig, job, msgs, crashes>>

-----------------------------------------------------------------------------

Conductor(m) == \/ \E d \in Hosts : ConductorSend(m, d)
                \/ ConductorRefuse(m) \/ ConductorFail(m)

Source(m) ==
    \/ LiveMigration(m) \/ DoLiveMigration(m) \/ StartJob(m)
    \/ PreLiveMigrationFailed(m)
    \/ MonitorCompleted(m) \/ MonitorFailed(m)
    \/ PostLiveMigration(m) \/ PostCleanup(m)
    \/ RollbackLiveMigration(m) \/ RollbackFinish(m) \/ RollbackFails(m)

Destination(m) ==
    \/ PreLiveMigration(m) \/ RemoveVolumeConnection(m)
    \/ PostLiveMigrationAtDestination(m)
    \/ RollbackLiveMigrationAtDestination(m)

Libvirt(m) == JobCompletes(m) \/ JobFails(m)

Fault(m) == MonitorMisreads(m) \/ MonitorRaises(m) \/ PostFails(m)

Next ==
    \/ \E m \in Migs : \/ LiveMigrate(m) \/ Conductor(m) \/ Source(m)
                       \/ Destination(m) \/ Libvirt(m) \/ Fault(m)
    \/ \E h \in Hosts : Crash(h) \/ Restart(h)

Spec == Init /\ [][Next]_vars

\* The threads of Nova and libvirt are scheduled and a service that stopped
\* is started again; nobody has to ask for a migration, and faults need not
\* happen.
Fairness ==
    /\ \A m \in Migs : /\ WF_vars(Conductor(m)) /\ WF_vars(Source(m))
                       /\ WF_vars(Destination(m)) /\ WF_vars(Libvirt(m))
    /\ \A h \in Hosts : WF_vars(Restart(h))

FairSpec == Spec /\ Fairness

-----------------------------------------------------------------------------
(* Correctness *)

\* The guest never runs on two hosts at once: whatever crashes, times out or
\* is retried, neither a job nor _init_instance starts a second copy.
AtMostOneGuest ==
    \A g, h \in Hosts : domain[g] = "running" /\ domain[h] = "running" => g = h

\* The guest survives every migration: no rollback, of whichever attempt,
\* destroys the domain the instance runs in.
GuestAlive == \E h \in Hosts : domain[h] = "running"

\* Once task_state is reset the guest runs on no other host than the one
\* recorded in the database: Nova does not "forget" it (the note at the end of
\* _live_migration_operation).
NotForgotten ==
    task_state = "none" => \A h \in Hosts : domain[h] = "running" => h = host

\* The migrations that rely on task_state being theirs: from the API's save to
\* the save of the rollback or of the destination.
Owns(m) == \/ pc[m] \in {"requested", "sent", "queued", "preparing", "running",
                         "post", "rollback"}
           \/ <<"post", m>> \in msgs

\* MIGRATING is a lock: a migration that relies on it holds it, alone.
OneOwner ==
    /\ \A m, n \in Migs : Owns(m) /\ Owns(n) => m = n
    /\ \A m \in Migs : Owns(m) => task_state = "migrating"

\* The host that runs the guest keeps its volume connections, though the
\* rollback of an earlier attempt still disconnects them at that host after
\* task_state was reset.
GuestKeepsVolumes ==
    \A h \in Hosts : domain[h] = "running" => "volumes" \in has[h]

Idle == msgs = {} /\ \A m \in Migs : pc[m] \in {"unused", "over"}

\* When every request has been served and the guest runs, a host without it
\* keeps a volume connection or an instance directory only if it took part in
\* an attempt that is recorded as failed: one that completed, that was refused
\* or that was rolled back to the end leaves nothing behind. (A crash drops the
\* casts' senders, and is out of the picture.)
CleanWhenIdle ==
    Idle /\ GuestAlive /\ crashes = 0 =>
        \A h \in Hosts :
            /\ domain[h] # "running"
            /\ \A m \in Migs : status[m] = "failed" => h \notin {src[m], dst[m]}
            => has[h] \cap {"path", "volumes"} \subseteq Bare

\* The destination is recorded as the instance's host only once the guest has
\* arrived there.
RecordedWhereItRuns == [][host' # host => domain[host'] = "running"]_vars

\* The instance does not stay in MIGRATING for ever, though calls time out and
\* services crash and come back; it leaves it or is put in ERROR. The one way
\* out of this is the guest forgotten by a crash after the switchover: each
\* later request looks it up on the recorded host, raises InstanceNotFound out
\* of the source's thread, and no rollback resets task_state.
Resolved ==
    []<>(task_state = "none" \/ vm_state = "error")
    \/ <>[](domain[host] # "running")

\* Live migration is one of the ways to move an instance: its copies are the
\* domains that run.
Move == INSTANCE InstanceMove
        WITH home   <- host,
             copies <- {h \in Hosts : domain[h] = "running"},
             lock   <- IF vm_state = "error" THEN "broken"
                       ELSE IF task_state = "none" THEN "free" ELSE "held"

\* Every step of a live migration, its rollbacks and its failures is a step of
\* InstanceMove, or one it does not see: the record only changes with the lock
\* held and towards the guest, the lock is only given back with the guest at
\* home, and no step loses the guest.
Moves == Move!Spec
-----------------------------------------------------------------------------
(* Stated by the code, and not so after a crash *)

\* The conductor's write of vm_state carries expected_task_state=MIGRATING: it
\* must not hit an instance that left that state meanwhile.
WritesOnlyMigrating == [][vm_state' # vm_state => task_state = "migrating"]_vars
============================================================================
