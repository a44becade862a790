--------------------------- MODULE DeleteInstance ---------------------------
(***************************************************************************)
(* The life of instances between the request that creates them and the one *)
(* that deletes them: API requests (create, delete, soft delete, restore), *)
(* the build on the compute host, its deletions, the periodic reclaim and  *)
(* reaper, a crash of nova-compute and init_host, with the quotas that     *)
(* every one of them reserves, commits or rolls back.                      *)
(*                                                                         *)
(* There is one compute host: row[i].hosted says whether instance.host is  *)
(* set. A request has a record req[r] from its first step on, which goes   *)
(* with the cast to the host. The deletions the host begins by itself use  *)
(* the instance as the name of the request.                                *)
(***************************************************************************)
EXTENDS Quotas

CONSTANTS
    Instances,      \* the instances that requests may create
    Deferred,       \* is reclaim_instance_interval set?
    MaxCrashes,     \* bound: crashes of nova-compute
    Faults,         \* the faults that may happen
    Races           \* interleavings the code does not guard against, let in

ASSUME DeleteAssumption ==
    /\ Instances \subseteq Requests
    /\ IsFiniteSet(Requests) /\ "none" \notin Instances
    /\ Deferred \in BOOLEAN
    /\ MaxCrashes \in Nat
    /\ Faults \subseteq {"create", "schedule", "build", "cleanup", "driver", "force",
                         "api"}
    /\ Races \subseteq {"early", "twice", "overlap", "reclaim", "heartbeat",
                        "heartbeat-build", "refresh", "expire"}

VARIABLES
    row,        \* the instances table
    req,        \* requests
    build,      \* how far build_and_run_instance has come
    guest,      \* is there a guest on the host?
    restoring,  \* what became of the request's cast of restore_instance
    up,         \* nova-compute
    listed,     \* what init_host has read and not yet looked at
    reclaiming, \* the same of _reclaim_queued_deletes
    crashes

host == <<build, guest>>
compute == <<up, listed, reclaiming, crashes>>
vars == <<quotas, row, req, host, restoring, compute>>

-----------------------------------------------------------------------------

ApiRequests == Requests \ Instances

VmStates == {"building", "active", "soft-delete", "deleted", "error"}

TaskStates == {"none", "scheduling", "networking", "mapping", "spawning",
               "deleting", "soft-deleting", "restoring"}

\* stage "deleted" is a row whose column deleted is set.
Rows == [stage : {"absent", "live", "deleted"}, vm_state : VmStates,
         task_state : TaskStates, hosted : BOOLEAN, launched : BOOLEAN]

NoRow == [stage |-> "absent", vm_state |-> "building", task_state |-> "none",
          hosted |-> FALSE, launched |-> FALSE]

\* Where a request is in the API, and where on the compute host.
ApiSide == {"row", "made", "save", "reserve", "decide", "local",
            "local-destroy", "commit", "undo", "restore-save",
            "restore-commit"}

ComputeSide == {"waiting", "shutdown", "saving", "destroying", "committing",
                "undoing", "init-destroy", "init-reserve"}

\* ignore: the instance was being deleted when the request began. vm_state and
\* hosted: as in the request's copy of the instance.
RequestRecords ==
    [kind : {"none", "create", "delete", "soft", "restore", "reclaim",
             "resume", "partial"},
     inst : Instances \cup {"none"},
     pc : {"unused", "cast", "over", "dead"} \cup ApiSide \cup ComputeSide,
     ignore : BOOLEAN, vm_state : VmStates, hosted : BOOLEAN]

NoRequest == [kind |-> "none", inst |-> "none", pc |-> "unused",
              ignore |-> FALSE, vm_state |-> "building", hosted |-> FALSE]

\* While it is one of these the build holds the instance lock.
Building == {"started", "claimed", "networked", "mapped", "spawned", "failed"}

Listings == [inst : Instances, vm_state : VmStates, task_state : TaskStates]

TypeOK ==
    /\ QuotasTypeOK
    /\ row \in [Instances -> Rows]
    /\ req \in [Requests -> RequestRecords]
    /\ build \in [Instances -> {"none", "queued", "over"} \cup Building]
    /\ guest \in [Instances -> BOOLEAN]
    /\ restoring \in [Requests -> {"none", "queued", "failed"}]
    /\ up \in {"up", "down", "starting"}
    /\ listed \in SUBSET Listings
    /\ reclaiming \in SUBSET Instances
    /\ crashes \in 0 .. MaxCrashes

Init ==
    /\ QuotasInit
    /\ row = [i \in Instances |-> NoRow]
    /\ req = [r \in Requests |-> NoRequest]
    /\ build = [i \in Instances |-> "none"]
    /\ guest = [i \in Instances |-> FALSE]
    /\ restoring = [r \in Requests |-> "none"]
    /\ up = "up"
    /\ listed = {}
    /\ reclaiming = {}
    /\ crashes = 0

-----------------------------------------------------------------------------
(* Helpers *)

Live(i) == row[i].stage = "live"

\* What _sync_instances counts: rows that are not deleted, soft-deleted
\* instances among them.
Actual == Cardinality({i \in Instances : Live(i)})

\* May a reservation refresh a usage that is due (until_refresh, max_age)?
Ages == IF "refresh" \in Races THEN BOOLEAN ELSE {FALSE}

At(r, pc) == req[r].pc = pc
Goto(r, pc) == req' = [req EXCEPT ![r].pc = pc]

\* instance.save() of vm_state and task_state, with no expected state.
Save(i, vm, task) ==
    row' = [row EXCEPT ![i].vm_state = vm, ![i].task_state = task]

Destroyed(i) == row' = [row EXCEPT ![i].stage = "deleted"]

\* utils.synchronized(instance.uuid): the build or one terminate_instance.
InstanceLocked(i) ==
    \/ build[i] \in Building
    \/ \E r \in ApiRequests :
          /\ req[r].kind = "delete" /\ req[r].inst = i
          /\ req[r].pc \in ComputeSide \ {"waiting"}

\* The host works through what init_host has listed.
Initializing == \E i \in Instances : req[i].kind \in {"resume", "partial"}
                                     /\ req[i].pc \in ComputeSide

Reclaiming(i) == req[i].kind = "reclaim" /\ req[i].pc \in ComputeSide

BeingReclaimed(i) == i \in reclaiming \/ Reclaiming(i)

\* Is the request over, on the host too?
Ended(r) == req[r].pc \in {"over", "dead"} /\ restoring[r] # "queued"

\* Without "reclaim" no request overlaps the reclaim of its instance, without
\* "overlap" no soft deletion and no restore overlaps another request.
MayBegin(i, kind) ==
    /\ "reclaim" \in Races \/ ~BeingReclaimed(i)
    /\ "overlap" \in Races \/
       \A q \in ApiRequests :
           req[q].inst = i /\ {kind, req[q].kind} \cap {"soft", "restore"} # {}
               => Ended(q)

-----------------------------------------------------------------------------
(* Create: API._provision_instances *)

\* A request for one instance, whose uuid i is new.
CreateRequest(r, i, aged) ==
    /\ At(r, "unused")
    /\ row[i].stage = "absent"
    /\ \A q \in Requests : req[q].inst # i
    /\ \/ /\ Reserve(r, 1, Actual, aged)
          /\ req' = [req EXCEPT ![r] = [NoRequest EXCEPT !.kind = "create",
                                                         !.inst = i,
                                                         !.pc = "row"]]
       \/ /\ OverQuota(1, Actual, aged)
          /\ Goto(r, "over")
    /\ UNCHANGED <<row, host, restoring, compute>>

\* create_db_entry_for_new_instance: from here on users see the instance.
CreateRow(r) ==
    /\ At(r, "row")
    /\ row' = [row EXCEPT ![req[r].inst] =
                  [NoRow EXCEPT !.stage = "live", !.task_state = "scheduling"]]
    /\ Goto(r, "made")
    /\ UNCHANGED <<quotas, host, restoring, compute>>

\* quotas.commit(); then API.create casts build_instances to the conductor.
CreateCommit(r) ==
    /\ At(r, "made")
    /\ Commit(r)
    /\ build' = [build EXCEPT ![req[r].inst] = "queued"]
    /\ Goto(r, "over")
    /\ UNCHANGED <<row, guest, restoring, compute>>

\* Any exception: the instances made so far are destroyed, if they still exist,
\* and then the quotas are rolled back.
CreateFails(r) ==
    /\ "create" \in Faults
    /\ req[r].pc \in {"row", "made"}
    /\ IF Live(req[r].inst) THEN Destroyed(req[r].inst) ELSE UNCHANGED row
    /\ Goto(r, "undo")
    /\ UNCHANGED <<quotas, host, restoring, compute>>

\* quotas.rollback() of an API request or of a handler.
Undo(r) ==
    /\ req[r].pc \in {"undo", "undoing"}
    /\ Rollback(r)
    /\ Goto(r, "over")
    /\ UNCHANGED <<row, host, restoring, compute>>

-----------------------------------------------------------------------------
(* Delete: API._delete *)

\* With reclaim_instance_interval set, a DELETE is a soft delete of what has
\* been launched, and forceDelete deletes what has no task.
DeleteKinds(i) ==
    (IF Deferred /\ row[i].launched THEN {"soft"} ELSE {"delete"})
    \cup (IF Deferred /\ row[i].task_state = "none" THEN {"delete"} ELSE {})

\* Without "early" nobody deletes an instance whose creation has not ended,
\* without "twice" what another request is deleting.
MayDelete(i, kind) ==
    /\ Live(i)
    /\ kind \in DeleteKinds(i)
    /\ MayBegin(i, kind)
    /\ "early" \in Races \/
       \A q \in ApiRequests : req[q].inst = i /\ req[q].kind = "create" =>
                                  req[q].pc \notin {"row", "made"}
    /\ "twice" \in Races \/
       \A q \in ApiRequests : req[q].inst = i /\ req[q].kind = "delete" =>
                                  Ended(q)

DeleteRequest(r, i, kind) ==
    /\ At(r, "unused")
    /\ MayDelete(i, kind)
    /\ req' = [req EXCEPT ![r] =
          [kind |-> kind, inst |-> i, pc |-> "save",
           ignore |-> row[i].task_state \in {"deleting", "soft-deleting"},
           vm_state |-> row[i].vm_state, hosted |-> row[i].hosted]]
    /\ UNCHANGED <<quotas, row, host, restoring, compute>>

\* The save expects no task state, and refreshes the copy of the instance. An
\* instance that is gone ends the request.
DeleteSave(r) ==
    /\ At(r, "save")
    /\ LET i == req[r].inst IN
       IF Live(i)
       THEN /\ row' = [row EXCEPT ![i].task_state =
                          IF req[r].kind = "soft" THEN "soft-deleting"
                                                  ELSE "deleting"]
            /\ req' = [req EXCEPT ![r].pc = "reserve",
                                  ![r].vm_state = row[i].vm_state,
                                  ![r].hosted = row[i].hosted]
       ELSE /\ Goto(r, "over")
            /\ UNCHANGED row
    /\ UNCHANGED <<quotas, host, restoring, compute>>

DeleteReserve(r, aged) ==
    /\ At(r, "reserve")
    /\ Reserve(r, -1, Actual, aged)
    /\ Goto(r, "decide")
    /\ UNCHANGED <<row, host, restoring, compute>>

\* No host in the copy: instance.destroy() under the constraint that there is
\* none in the database. Otherwise ObjectActionError, refresh, and go on.
DestroyUnhosted(r) ==
    /\ At(r, "decide")
    /\ ~req[r].hosted
    /\ LET i == req[r].inst IN
       CASE ~Live(i) -> Goto(r, "undo") /\ UNCHANGED row
         [] Live(i) /\ ~row[i].hosted -> Destroyed(i) /\ Goto(r, "commit")
         [] OTHER -> /\ req' = [req EXCEPT ![r].hosted = TRUE,
                                           ![r].vm_state = row[i].vm_state]
                     /\ UNCHANGED row
    /\ UNCHANGED <<quotas, host, restoring, compute>>

\* The host's service counts as up for some time after its death. A request
\* that found the instance being deleted leaves it at that; the quota of a
\* soft-deleted instance is not in use any more.
CastDelete(r) ==
    /\ At(r, "decide")
    /\ req[r].hosted
    /\ IF req[r].ignore \/ req[r].vm_state = "soft-delete"
       THEN Rollback(r) ELSE UNCHANGED quotas
    /\ Goto(r, IF req[r].ignore THEN "over" ELSE "cast")
    /\ UNCHANGED <<row, host, restoring, compute>>

\* _local_delete, for a service that is down or is late to say that it is up
\* (and, without "heartbeat-build", builds nothing at that time).
LocalDelete(r) ==
    /\ At(r, "decide")
    /\ req[r].hosted
    /\ \/ up # "up"
       \/ ("heartbeat" \in Races /\ build[req[r].inst] \notin Building)
       \/ "heartbeat-build" \in Races
    /\ Goto(r, "local")
    /\ UNCHANGED <<quotas, row, host, restoring, compute>>

LocalSave(r) ==
    /\ At(r, "local")
    /\ IF Live(req[r].inst)
       THEN /\ Save(req[r].inst, IF req[r].kind = "soft" THEN "soft-delete"
                                                         ELSE "deleted", "none")
            /\ Goto(r, "local-destroy")
       ELSE Goto(r, "undo") /\ UNCHANGED row
    /\ UNCHANGED <<quotas, host, restoring, compute>>

LocalDestroy(r) ==
    /\ At(r, "local-destroy")
    /\ IF Live(req[r].inst)
       THEN Destroyed(req[r].inst) /\ Goto(r, "commit")
       ELSE Goto(r, "undo") /\ UNCHANGED row
    /\ UNCHANGED <<quotas, host, restoring, compute>>

DeleteCommit(r) ==
    /\ At(r, "commit")
    /\ Commit(r)
    /\ Goto(r, "over")
    /\ UNCHANGED <<row, host, restoring, compute>>

-----------------------------------------------------------------------------
(* Restore: API.restore and ComputeManager.restore_instance *)

RestoreRequest(r, i, aged) ==
    /\ At(r, "unused")
    /\ Live(i)
    /\ MayBegin(i, "restore")
    /\ row[i].vm_state = "soft-delete" /\ row[i].task_state = "none"
    /\ \/ /\ Reserve(r, 1, Actual, aged)
          /\ req' = [req EXCEPT ![r] = [NoRequest EXCEPT
                        !.kind = "restore", !.inst = i, !.pc = "restore-save"]]
       \/ /\ OverQuota(1, Actual, aged)
          /\ Goto(r, "over")
    /\ UNCHANGED <<row, host, restoring, compute>>

RestoreSave(r) ==
    /\ At(r, "restore-save")
    /\ LET i == req[r].inst IN
       IF Live(i) /\ row[i].task_state = "none"
       THEN /\ row' = [row EXCEPT ![i].task_state = "restoring"]
            /\ restoring' = [restoring EXCEPT ![r] = "queued"]
            /\ Goto(r, "restore-commit")
       ELSE Goto(r, "undo") /\ UNCHANGED <<row, restoring>>
    /\ UNCHANGED <<quotas, host, compute>>

RestoreCommit(r) ==
    /\ At(r, "restore-commit")
    /\ Commit(r)
    /\ Goto(r, "over")
    /\ UNCHANGED <<row, host, restoring, compute>>

RestoreInstance(r) ==
    /\ up = "up"
    /\ restoring[r] = "queued"
    /\ LET i == req[r].inst IN
       IF Live(i) /\ row[i].task_state = "restoring"
       THEN /\ Save(i, "active", "none")
            /\ restoring' = [restoring EXCEPT ![r] = "none"]
       ELSE /\ restoring' = [restoring EXCEPT ![r] = "failed"]
            /\ UNCHANGED row
    /\ UNCHANGED <<quotas, req, host, compute>>

\* The driver raises: reverts_task_state. The quota is not given back.
RestoreFails(r) ==
    /\ "driver" \in Faults
    /\ up = "up"
    /\ restoring[r] = "queued"
    /\ LET i == req[r].inst IN
       IF Live(i) THEN Save(i, row[i].vm_state, "none") ELSE UNCHANGED row
    /\ restoring' = [restoring EXCEPT ![r] = "failed"]
    /\ UNCHANGED <<quotas, req, host, compute>>

-----------------------------------------------------------------------------
(* Build: ComputeManager.build_and_run_instance *)

BuildGoto(i, stage) == build' = [build EXCEPT ![i] = stage]

\* The first save expects SCHEDULING or None.
BuildStart(i) ==
    /\ up = "up"
    /\ build[i] = "queued"
    /\ ~InstanceLocked(i)
    /\ IF Live(i) /\ row[i].task_state \in {"scheduling", "none"}
       THEN Save(i, "building", "none") /\ BuildGoto(i, "started")
       ELSE BuildGoto(i, "over") /\ UNCHANGED row
    /\ UNCHANGED <<quotas, req, guest, restoring, compute>>

\* instance_claim sets the host.
BuildClaims(i) ==
    /\ build[i] = "started"
    /\ IF Live(i)
       THEN row' = [row EXCEPT ![i].hosted = TRUE] /\ BuildGoto(i, "claimed")
       ELSE BuildGoto(i, "over") /\ UNCHANGED row
    /\ UNCHANGED <<quotas, req, guest, restoring, compute>>

(***************************************************************************)
(* A save that expects a task state other than the row's ends the build,   *)
(* with the object still dirty: the save of _cleanup_allocated_networks,   *)
(* which expects nothing, writes what the failed save was to write: task,  *)
(* and launched_at with ACTIVE. Otherwise the claim's abort has made vm    *)
(* DELETED in the object by then. What is not DELETING is taken for an     *)
(* error (Errored), and no retry is left.                                  *)
(***************************************************************************)
Errored(i) == [row[i] EXCEPT !.vm_state = "error", !.task_state = "none",
                             !.hosted = FALSE]

BuildEnds(i, vm, task) ==
    /\ BuildGoto(i, "over")
    /\ LET launched == row[i].launched \/ vm = "active" IN
       row' = IF ~Live(i) THEN row
              ELSE IF row[i].task_state = "deleting"
              THEN [row EXCEPT ![i].vm_state = vm, ![i].task_state = task,
                               ![i].launched = launched]
              ELSE [row EXCEPT ![i] = [Errored(i) EXCEPT !.launched = launched]]

\* NETWORKING expects None.
BuildNetworks(i) ==
    /\ build[i] = "claimed"
    /\ IF Live(i) /\ row[i].task_state = "none"
       THEN Save(i, "building", "networking") /\ BuildGoto(i, "networked")
       ELSE BuildEnds(i, "deleted", "networking")
    /\ UNCHANGED <<quotas, req, guest, restoring, compute>>

\* BLOCK_DEVICE_MAPPING expects nothing and overwrites DELETING.
BuildMaps(i) ==
    /\ build[i] = "networked"
    /\ IF Live(i)
       THEN Save(i, "building", "mapping") /\ BuildGoto(i, "mapped")
       ELSE BuildGoto(i, "over") /\ UNCHANGED row
    /\ UNCHANGED <<quotas, req, guest, restoring, compute>>

BuildSpawns(i) ==
    /\ build[i] = "mapped"
    /\ IF Live(i) /\ row[i].task_state = "mapping"
       THEN /\ Save(i, "building", "spawning")
            /\ BuildGoto(i, "spawned")
            /\ guest' = [guest EXCEPT ![i] = TRUE]
       ELSE BuildEnds(i, "deleted", "spawning") /\ UNCHANGED guest
    /\ UNCHANGED <<quotas, req, restoring, compute>>

\* The last save, after the claim, expects SPAWNING. If it fails the guest is
\* left to whoever deletes the instance.
BuildFinish(i) ==
    /\ build[i] = "spawned"
    /\ IF Live(i) /\ row[i].task_state = "spawning"
       THEN /\ row' = [row EXCEPT ![i].vm_state = "active",
                                  ![i].task_state = "none",
                                  ![i].launched = TRUE]
            /\ BuildGoto(i, "over")
       ELSE BuildEnds(i, "active", "none")
    /\ UNCHANGED <<quotas, req, guest, restoring, compute>>

\* The failed guest is not shut down.
BuildFails_NoShutdown(i) ==
    /\ "build" \in Faults
    /\ build[i] \in {"claimed", "networked", "mapped", "spawned"}
    /\ IF Live(i) THEN row' = [row EXCEPT ![i].vm_state = "deleted"]
                  ELSE UNCHANGED row
    /\ BuildGoto(i, "failed")
    /\ UNCHANGED <<quotas, req, guest, restoring, compute>>

\* An exception under the claim: _shutdown_instance, the claim's abort, and the
\* save of _cleanup_allocated_networks, which makes the row DELETED.
BuildFails(i) ==
    /\ "build" \in Faults
    /\ build[i] \in {"claimed", "networked", "mapped", "spawned"}
    /\ guest' = [guest EXCEPT ![i] = FALSE]
    /\ IF Live(i) THEN row' = [row EXCEPT ![i].vm_state = "deleted"]
                  ELSE UNCHANGED row
    /\ BuildGoto(i, "failed")
    /\ UNCHANGED <<quotas, req, restoring, compute>>

\* The driver or the network raises while _build_resources shuts down what did
\* not spawn ("Could not clean up failed build"): the build goes on to its end
\* as after BuildFails, with the guest where it is.
BuildCleanupFails(i) ==
    /\ "cleanup" \in Faults
    /\ build[i] \in {"mapped", "spawned"}
    /\ IF Live(i) THEN row' = [row EXCEPT ![i].vm_state = "deleted"]
                  ELSE UNCHANGED row
    /\ BuildGoto(i, "failed")
    /\ UNCHANGED <<quotas, req, guest, restoring, compute>>

\* The claim is refused; nothing was set up yet.
BuildRefused(i) ==
    /\ "build" \in Faults
    /\ build[i] = "started"
    /\ row' = IF Live(i) THEN [row EXCEPT ![i] = Errored(i)] ELSE row
    /\ BuildGoto(i, "over")
    /\ UNCHANGED <<quotas, req, guest, restoring, compute>>

\* After either, one save of host None, ERROR and task state None.
BuildErrors(i) ==
    /\ build[i] = "failed"
    /\ row' = IF Live(i) THEN [row EXCEPT ![i] = Errored(i)] ELSE row
    /\ BuildGoto(i, "over")
    /\ UNCHANGED <<quotas, req, guest, restoring, compute>>

\* No valid host: build_instances of the conductor.
ScheduleFails(i) ==
    /\ "schedule" \in Faults
    /\ build[i] = "queued"
    /\ IF Live(i) THEN Save(i, "error", "none") ELSE UNCHANGED row
    /\ BuildGoto(i, "over")
    /\ UNCHANGED <<quotas, req, guest, restoring, compute>>

-----------------------------------------------------------------------------
(* The compute host deletes: terminate_instance and _delete_instance *)

\* A green thread takes the message and waits for the instance's lock.
Receive(r) ==
    /\ up = "up"
    /\ At(r, "cast") /\ req[r].kind = "delete"
    /\ Goto(r, "waiting")
    /\ UNCHANGED <<quotas, row, host, restoring, compute>>

\* A soft-deleted instance has given back its quota.
Terminate(r) ==
    /\ At(r, "waiting")
    /\ ~InstanceLocked(req[r].inst)
    /\ IF req[r].vm_state = "soft-delete" THEN Rollback(r)
                                          ELSE UNCHANGED quotas
    /\ Goto(r, "shutdown")
    /\ UNCHANGED <<row, host, restoring, compute>>

\* _shutdown_instance
Shutdown(r) ==
    /\ At(r, "shutdown")
    /\ guest' = [guest EXCEPT ![req[r].inst] = FALSE]
    /\ Goto(r, "saving")
    /\ UNCHANGED <<quotas, row, build, restoring, compute>>

\* It raises ("force": for a soft-deleted instance too). terminate_instance and
\* init_host put the instance in ERROR; reverts_task_state clears its task.
ShutdownFails(r) ==
    /\ "driver" \in Faults
    /\ At(r, "shutdown")
    /\ req[r].kind = "delete" /\ req[r].vm_state = "soft-delete" =>
           "force" \in Faults
    /\ Rollback(r)
    /\ LET i == req[r].inst IN
       IF Live(i) /\ req[r].kind # "reclaim"
       THEN Save(i, "error", IF req[r].kind = "delete" THEN "none"
                                                       ELSE row[i].task_state)
       ELSE UNCHANGED row
    /\ Goto(r, "over")
    /\ UNCHANGED <<host, restoring, compute>>

\* vm_state DELETED, task state None, whatever they were.
SaveDeleted(r) ==
    /\ At(r, "saving")
    /\ IF Live(req[r].inst)
       THEN Save(req[r].inst, "deleted", "none") /\ Goto(r, "destroying")
       ELSE Goto(r, "undoing") /\ UNCHANGED row
    /\ UNCHANGED <<quotas, host, restoring, compute>>

\* instance.destroy() raises InstanceNotFound when somebody else was first.
DestroyRow(r) ==
    /\ At(r, "destroying")
    /\ IF Live(req[r].inst)
       THEN Destroyed(req[r].inst) /\ Goto(r, "committing")
       ELSE Goto(r, "undoing") /\ UNCHANGED row
    /\ UNCHANGED <<quotas, host, restoring, compute>>

\* _complete_deletion
CompleteDeletion(r) ==
    /\ At(r, "committing")
    /\ Commit(r)
    /\ Goto(r, "over")
    /\ UNCHANGED <<row, host, restoring, compute>>

\* quotas.commit() is forgotten.
SoftDeleteInstance_NoCommit(r) ==
    /\ up = "up"
    /\ At(r, "cast") /\ req[r].kind = "soft"
    /\ LET i == req[r].inst IN
       IF Live(i) /\ row[i].task_state = "soft-deleting"
       THEN Save(i, "soft-delete", "none") /\ Goto(r, "over")
       ELSE Goto(r, "undoing") /\ UNCHANGED row
    /\ UNCHANGED <<quotas, host, restoring, compute>>

\* soft_delete_instance takes no lock; its save expects SOFT_DELETING.
SoftDeleteInstance(r) ==
    /\ up = "up"
    /\ At(r, "cast") /\ req[r].kind = "soft"
    /\ LET i == req[r].inst IN
       IF Live(i) /\ row[i].task_state = "soft-deleting"
       THEN Save(i, "soft-delete", "none") /\ Goto(r, "committing")
       ELSE Goto(r, "undoing") /\ UNCHANGED row
    /\ UNCHANGED <<quotas, host, restoring, compute>>

SoftDeleteFails(r) ==
    /\ "driver" \in Faults
    /\ up = "up"
    /\ At(r, "cast") /\ req[r].kind = "soft"
    /\ Rollback(r)
    /\ LET i == req[r].inst IN
       IF Live(i) THEN Save(i, row[i].vm_state, "none") ELSE UNCHANGED row
    /\ Goto(r, "over")
    /\ UNCHANGED <<host, restoring, compute>>

-----------------------------------------------------------------------------
(* Periodic tasks of the compute host *)

\* _deleted_old_enough: the soft deletion was over long ago (without "reclaim"
\* so was every other request).
OldEnough(i) ==
    \A r \in ApiRequests :
        /\ req[r].inst = i
        /\ req[r].kind = "soft" \/ "reclaim" \notin Races
        => Ended(r)

\* _reclaim_queued_deletes
ReclaimList ==
    /\ Deferred
    /\ up = "up"
    /\ \A i \in Instances : ~BeingReclaimed(i)
    /\ reclaiming' = {i \in Instances :
                         /\ Live(i) /\ row[i].hosted
                         /\ row[i].vm_state = "soft-delete"
                         /\ row[i].task_state = "none"
                         /\ OldEnough(i)}
    /\ reclaiming' # {}
    /\ UNCHANGED <<quotas, row, req, host, restoring, up, listed, crashes>>

\* One of them, with no quotas (what a dead request of the host has left of a
\* decrease is of no use any more) and no look at what became of it.
ReclaimInstance(i) ==
    /\ i \in reclaiming
    /\ \A j \in Instances : ~Reclaiming(j)
    /\ reclaiming' = reclaiming \ {i}
    /\ req' = [req EXCEPT ![i] = [NoRequest EXCEPT !.kind = "reclaim",
                                                   !.inst = i,
                                                   !.pc = "shutdown",
                                                   !.vm_state = "soft-delete",
                                                   !.hosted = TRUE]]
    /\ reservation' = [reservation EXCEPT ![i] = 0]
    /\ UNCHANGED <<in_use, reserved, expiring, row, host, restoring, up,
                   listed, crashes>>

\* Without read_deleted the query finds no deleted row.
Reap_LiveRows(i) ==
    /\ up = "up"
    /\ row[i].stage = "live" /\ row[i].vm_state = "deleted" /\ row[i].hosted
    /\ guest[i]
    /\ guest' = [guest EXCEPT ![i] = FALSE]
    /\ UNCHANGED <<quotas, row, req, build, restoring, compute>>

\* _cleanup_running_deleted_instances finds deleted rows of its host that have
\* a guest.
Reap(i) ==
    /\ up = "up"
    /\ row[i].stage = "deleted" /\ row[i].hosted
    /\ guest[i]
    /\ guest' = [guest EXCEPT ![i] = FALSE]
    /\ UNCHANGED <<quotas, row, req, build, restoring, compute>>

-----------------------------------------------------------------------------
(* Crash of nova-compute and init_host *)

\* Green threads die. Guests, rows, reservations and queued casts survive.
Crash ==
    /\ up # "down"
    /\ crashes < MaxCrashes
    /\ crashes' = crashes + 1
    /\ up' = "down"
    /\ listed' = {}
    /\ reclaiming' = {}
    /\ req' = [r \in Requests |->
                  IF req[r].pc \in ComputeSide
                  THEN [req[r] EXCEPT !.pc = "dead"] ELSE req[r]]
    /\ build' = [i \in Instances |->
                    IF build[i] \in Building THEN "over" ELSE build[i]]
    /\ UNCHANGED <<quotas, row, guest, restoring>>

Restart ==
    /\ up = "down"
    /\ up' = "starting"
    /\ listed' = {[inst |-> i, vm_state |-> row[i].vm_state,
                   task_state |-> row[i].task_state] :
                     i \in {j \in Instances : Live(j) /\ row[j].hosted}}
    /\ UNCHANGED <<quotas, row, req, host, restoring, reclaiming, crashes>>

\* _init_instance: what is left alone, or has nothing to be finished.
InitNothing(l) ==
    \/ l.vm_state = "soft-delete"
    \/ l.vm_state = "error" /\ l.task_state # "deleting"
    \/ l.vm_state = "active" /\ l.task_state # "deleting"

\* Without the way back into an interrupted deletion.
InitDeletion_PartialOnly(l) ==
    IF l.vm_state = "deleted" THEN "partial" ELSE "none"

\* DELETED but not destroyed, or DELETING: the host deletes it by itself.
InitDeletion(l) ==
    IF l.vm_state = "deleted" THEN "partial"
    ELSE IF l.vm_state # "building" /\ ~InitNothing(l) THEN "resume" ELSE "none"

\* The next of the instances that were listed. A build that was under way goes
\* to ERROR; the save is not guarded, a row that is gone ends the service.
InitInstance(l) ==
    /\ l \in listed
    /\ ~Initializing
    /\ LET kind == InitDeletion(l) IN
       IF kind # "none"
       THEN req' = [req EXCEPT ![l.inst] =
                [NoRequest EXCEPT
                    !.kind = kind, !.inst = l.inst, !.hosted = TRUE,
                    !.vm_state = l.vm_state,
                    !.pc = IF kind = "partial" THEN "init-destroy"
                                               ELSE "init-reserve"]]
       ELSE UNCHANGED req
    /\ IF l.vm_state = "building" /\ Live(l.inst)
       THEN Save(l.inst, "error", "none") ELSE UNCHANGED row
    /\ IF l.vm_state = "building" /\ ~Live(l.inst)
       THEN up' = "down" /\ listed' = {}
       ELSE UNCHANGED up /\ listed' = listed \ {l}
    /\ UNCHANGED <<quotas, host, restoring, reclaiming, crashes>>

\* It goes on when somebody else was first.
InitDestroy_Anyway(r) ==
    /\ At(r, "init-destroy")
    /\ IF Live(req[r].inst) THEN Destroyed(req[r].inst) ELSE UNCHANGED row
    /\ Goto(r, "init-reserve")
    /\ UNCHANGED <<quotas, host, restoring, compute>>

\* _complete_partial_deletion destroys the row before it reserves.
InitDestroy(r) ==
    /\ At(r, "init-destroy")
    /\ IF Live(req[r].inst)
       THEN Destroyed(req[r].inst) /\ Goto(r, "init-reserve")
       ELSE Goto(r, "over") /\ UNCHANGED row
    /\ UNCHANGED <<quotas, host, restoring, compute>>

InitReserve(r, aged) ==
    /\ At(r, "init-reserve")
    /\ Reserve(r, -1, Actual, aged)
    /\ Goto(r, IF req[r].kind = "partial" THEN "committing" ELSE "shutdown")
    /\ UNCHANGED <<row, host, restoring, compute>>

\* The service listens to its queue.
Started ==
    /\ up = "starting"
    /\ listed = {} /\ ~Initializing
    /\ up' = "up"
    /\ UNCHANGED <<quotas, row, req, host, restoring, listed, reclaiming,
                   crashes>>

-----------------------------------------------------------------------------

\* The API process dies in the middle of a request.
ApiDies(r) ==
    /\ "api" \in Faults
    /\ req[r].pc \in ApiSide
    /\ Goto(r, "dead")
    /\ UNCHANGED <<quotas, row, host, restoring, compute>>

\* Reservations expire long after the death of who made them. Without "expire"
\* what is made is paid for before its maker dies, and reserved does not change
\* between the expiry's read and its write.
Expirable(r) ==
    /\ At(r, "dead")
    /\ \/ "expire" \in Races
       \/ reservation[r] < 0
       \/ row[req[r].inst].stage = "absent"

Expire ==
    /\ \/ \E rows \in SUBSET {r \in Requests : Expirable(r)} : ExpireRead(rows)
       \/ /\ "expire" \in Races \/ expiring.seen = reserved
          /\ ExpireWrite
    /\ UNCHANGED <<row, req, host, restoring, compute>>

User(r) ==
    \E i \in Instances, aged \in Ages :
        \/ CreateRequest(r, i, aged)
        \/ \E kind \in {"delete", "soft"} : DeleteRequest(r, i, kind)
        \/ RestoreRequest(r, i, aged)

Api(r) ==
    \/ CreateRow(r) \/ CreateCommit(r) \/ Undo(r)
    \/ DeleteSave(r) \/ \E aged \in Ages : DeleteReserve(r, aged)
    \/ DestroyUnhosted(r) \/ CastDelete(r) \/ LocalDelete(r)
    \/ LocalSave(r) \/ LocalDestroy(r) \/ DeleteCommit(r)
    \/ RestoreSave(r) \/ RestoreCommit(r)

BuildStep(i) ==
    \/ BuildStart(i) \/ BuildClaims(i) \/ BuildNetworks(i) \/ BuildMaps(i)
    \/ BuildSpawns(i) \/ BuildFinish(i) \/ BuildErrors(i)

Handler(r) ==
    \/ Receive(r) \/ Terminate(r) \/ Shutdown(r) \/ SaveDeleted(r)
    \/ DestroyRow(r) \/ CompleteDeletion(r) \/ SoftDeleteInstance(r)
    \/ RestoreInstance(r) \/ InitDestroy(r)
    \/ \E aged \in Ages : InitReserve(r, aged)

Fault(r) ==
    \/ CreateFails(r) \/ ShutdownFails(r) \/ SoftDeleteFails(r)
    \/ RestoreFails(r) \/ ApiDies(r)

Next ==
    \/ \E r \in ApiRequests : User(r)
    \/ \E r \in Requests : Api(r) \/ Handler(r) \/ Fault(r)
    \/ \E i \in Instances : \/ BuildStep(i) \/ BuildRefused(i) \/ BuildFails(i)
                            \/ BuildCleanupFails(i) \/ ScheduleFails(i)
                            \/ ReclaimInstance(i) \/ Reap(i)
    \/ ReclaimList
    \/ Crash \/ Restart \/ Started
    \/ \E l \in listed : InitInstance(l)
    \/ Expire

Spec == Init /\ [][Next]_vars

\* Processes that live go on, a service that died is restarted, and who waits
\* for an instance's lock gets it when it is free. Users, faults, the reclaim
\* and the expiry owe nothing.
Fairness ==
    /\ \A r \in Requests : WF_vars(Api(r) \/ Handler(r))
    /\ \A i \in Instances : WF_vars(BuildStep(i)) /\ WF_vars(Reap(i))
    /\ WF_vars(Restart \/ Started \/ \E l \in listed : InitInstance(l))

FairSpec == Spec /\ Fairness

-----------------------------------------------------------------------------
(* Properties *)

\* Instances their owner has, not put aside by a soft delete nor about to go.
Charged ==
    {i \in Instances : Live(i) /\ row[i].vm_state \notin {"soft-delete", "deleted"}}

\* Every request has come to its end, none with the process that served it nor,
\* after it was granted, on the host, and no row is about to go.
Quiet ==
    /\ \A r \in Requests : req[r].pc \in {"unused", "over"}
    /\ \A r \in Requests : restoring[r] = "none"
    /\ \A i \in Instances : Live(i) => row[i].vm_state # "deleted"

\* The quota never counts less than there is: whoever creates, deletes,
\* restores or finishes an interrupted deletion, an instance is taken off once,
\* by the one that made it go.
NeverUnder == in_use + reserved >= Cardinality(Charged)

\* Nobody gets more instances than the quota allows, whatever was refused,
\* failed, deleted twice, interrupted or restored.
WithinQuota == Cardinality(Charged) <= Limit

\* When all is quiet the usage is what there is: "The only case that the quota
\* might be inconsistent is the compute node died between set instance state to
\* SOFT_DELETED and quota commit to DB" (_reclaim_queued_deletes).
UsageExact == Quiet => reserved = 0 /\ in_use = Cardinality(Charged)

\* reserved is what the reservations hold, no more and no less: each is given
\* back once, by the request, the handler it was passed to, or init_host.
ReservedIsHeld == reserved = Cardinality(Pending)

\* A guest is on the host its row names. One that is not would be reached by no
\* deletion and by no reaper. It takes failed builds that are cleaned up: where
\* the cleanup raises, _do_build_and_run_instance clears the host all the same.
GuestHasHost == \A i \in Instances : guest[i] => row[i].hosted

\* No instance stays DELETING, where every further DELETE is ignored, unless its
\* owner sees ERROR: it is deleted, or a build that was under way has written
\* over it. init_host takes up what a crash interrupted.
StillDeleting(i) == /\ Live(i)
                    /\ row[i].task_state = "deleting"
                    /\ row[i].vm_state # "error"

DeletingEnds == \A i \in Instances : StillDeleting(i) ~> ~StillDeleting(i)

\* No guest outlives its row for good, not even if the row was deleted while
\* the host was down or the guest was being built: "Cleanup any instances which
\* are erroneously still running after having been deleted"
\* (_cleanup_running_deleted_instances). The guest of a failed build that was
\* not cleaned up (the fault "cleanup") does.
GuestReaped ==
    \A i \in Instances :
        (row[i].stage = "deleted" /\ guest[i]) ~> ~guest[i]
=============================================================================
