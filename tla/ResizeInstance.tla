--------------------------- MODULE ResizeInstance ---------------------------
(***************************************************************************)
(* Resize and cold migration: API, conductor, the nova-compute services of *)
(* the source and of the destination, confirm, revert and the periodic     *)
(* confirmation, with the resource trackers of all nodes underneath.       *)
(*                                                                         *)
(* What is under way is a set of steps <<where, m>> for record m: an API   *)
(* request between its read and its save (confirming, reverting), a cast   *)
(* that waits in a queue (resize, finish, confirm, revert, ...) or a       *)
(* handler between two of its saves. A step that is taken is replaced by   *)
(* the next one.                                                           *)
(*                                                                         *)
(*   prep  claimed  raised  rescheduled  giveup                            *)
(*                                    prep_resize at the destination       *)
(*   resize  copying  undo            resize_instance at the source        *)
(*   finish  starting  started        finish_resize at the destination     *)
(*   api-confirm  auto-confirm        API.confirm_resize                   *)
(*   confirm  cleanup  bare           confirm_resize at the source         *)
(*   api-revert  revert  destroyed    revert_resize, API and destination   *)
(*   finish-revert  restarting        finish_revert_resize at the source   *)
(*   poll                             _poll_unconfirmed_resizes            *)
(***************************************************************************)
EXTENDS ResourceTracker

CONSTANTS
    AllowSameHost,  \* CONF.allow_resize_to_same_host
    Users,          \* which requests are made after a resize
    Overlap,        \* may requests for one instance overlap?
    Audits,         \* do the periodic audits run?
    MaxCrashes,     \* bound: services that die and start again
    Faults,         \* the faults that may happen
    Watched         \* the instance that Moves follows, any of them

ASSUME ResizeAssumption ==
    /\ AllowSameHost \in BOOLEAN /\ Overlap \in BOOLEAN /\ Audits \in BOOLEAN
    /\ Users \subseteq {"confirm", "revert", "poll"}
    /\ MaxCrashes \in Nat
    /\ Faults \subseteq {"nohost", "refuse", "cast", "error", "rollback",
                         "timeout", "recovery", "unlock"}
    /\ Watched \in Instances

VARIABLES
    pending,    \* the resize of each instance that waits for the conductor
    tried,      \* the hosts in filter_properties["retry"] of each record
    steps,      \* what is under way, see above
    files,      \* an instance's directories: its disk, and the backup
                \* (instance path + "_resize") that a resize leaves
    crashes

rest == <<pending, tried, crashes>>
vars == <<database, tracker, rest, steps, files>>

-----------------------------------------------------------------------------

Places == {"prep", "claimed", "raised", "rescheduled", "giveup",
           "resize", "copying", "undo", "finish", "starting", "started",
           "api-confirm", "auto-confirm", "confirm", "cleanup", "bare",
           "api-revert", "revert", "destroyed", "finish-revert", "restarting",
           "poll"}

\* A resize that waits for the conductor, and none.
Calls == [flavor : Flavors, tried : SUBSET Nodes]
NoCall == [flavor |-> "none", tried |-> {}]

TypeOK ==
    /\ TrackerTypeOK
    /\ pending \in [Instances -> Calls \cup {NoCall}]
    /\ tried \in [Migs -> SUBSET Nodes]
    /\ crashes \in 0..MaxCrashes
    /\ steps \in SUBSET (Places \X Migs)
    /\ files \in [Instances -> SUBSET ({"disk", "backup"} \X Nodes)]

At(place, m) == <<place, m>> \in steps
Goto(from, to, m) == steps' = (steps \ {<<from, m>>}) \cup {<<to, m>>}
Leave(from, m) == steps' = steps \ {<<from, m>>}

Save(i, r) == row' = [row EXCEPT ![i] = r]
SetStatus(m, s) == mig' = [mig EXCEPT ![m].status = s]

\* expected_task_state of the save that a handler makes next.
Expected == [resize     |-> "resize_prep",
             copying    |-> "resize_migrating",
             finish     |-> "resize_migrated",
             started    |-> "resize_finish",
             restarting |-> "resize_reverting"]

MaySave(place, m) ==
    At(place, m) /\ row[mig[m].instance].task_state = Expected[place]

\* _error_out_instance_on_exception and then reverts_task_state.
Errored(r) == [r EXCEPT !.vm_state = "error", !.task_state = "none"]

\* A failure that ends a resize before it has touched the instance.
AsBefore(r) == [r EXCEPT !.vm_state = "active", !.task_state = "none"]

Init ==
    /\ TrackerInit
    /\ pending = [i \in Instances |-> NoCall]
    /\ tried = [m \in Migs |-> {}]
    /\ crashes = 0
    /\ steps = {}
    /\ files = [i \in Instances |-> {<<"disk", row[i].host>>}]

-----------------------------------------------------------------------------
(* nova-api and nova-conductor *)

\* Bound: a record is left for every resize on its way to the conductor.
RecordLeft ==
    Cardinality({i \in Instances : pending[i] # NoCall})
        < Cardinality({m \in Migs : mig[m].status = "unused"})

\* Bug: the save expects no task_state.
Resizable_AnyTask(i) == row[i].vm_state = "active"

Resizable(i) == row[i].vm_state = "active" /\ row[i].task_state = "none"

\* Bound: the conductor works on one resize of an instance at a time.
Call(i, f, hosts) ==
    /\ pending[i] = NoCall
    /\ RecordLeft
    /\ pending' = [pending EXCEPT ![i] = [flavor |-> f, tried |-> hosts]]
    /\ UNCHANGED <<tried, crashes>>

\* The conductor has freed the instance and answers a service that called it
\* to reschedule; the service has yet to put the instance in ERROR.
GivenUp(i) == \E m \in Migs : mig[m].instance = i /\ At("giveup", m)

\* API.resize: a compare-and-swap of task_state; the conductor is called.
Resize(i, f) ==
    /\ Resizable(i)
    /\ Overlap \/ ~GivenUp(i)
    /\ Save(i, [row[i] EXCEPT !.task_state = "resize_prep"])
    /\ Call(i, f, {})
    /\ UNCHANGED <<mig, tracker, steps, files>>

\* A compute service that called the conductor to reschedule.
Callers(i) == {m \in Migs : mig[m].instance = i /\ At("rescheduled", m)}

\* What the scheduler may pick: with allow_resize_to_same_host unset the source
\* is among the ignored hosts; RetryFilter passes over the hosts tried so far.
Choices(i) == {n \in Nodes : /\ AllowSameHost \/ n # row[i].host
                             /\ n \notin pending[i].tried}

\* MigrationTask: prep_resize is cast to the host that the scheduler picks.
ColdMigrate(i, m, n) ==
    /\ pending[i] # NoCall
    /\ mig[m].status = "unused"
    /\ \A k \in Migs : k < m => mig[k].status # "unused"
    /\ n \in Choices(i)
    /\ mig' = [mig EXCEPT ![m] = [instance |-> i, source |-> row[i].host,
                                  dest |-> n, dest_node |-> n,
                                  old |-> row[i].flavor,
                                  new |-> pending[i].flavor,
                                  status |-> "unsaved"]]
    /\ tried' = [tried EXCEPT ![m] = pending[i].tried \cup {n}]
    /\ pending' = [pending EXCEPT ![i] = NoCall]
    /\ steps' = (steps \ {<<"rescheduled", k>> : k \in Callers(i)})
                  \cup {<<"prep", m>>}
    /\ UNCHANGED <<row, tracker, files, crashes>>

\* NoValidHost, no attempt left, or any other error of the task.
ColdMigrateFails(i) ==
    /\ "nohost" \in Faults \/ Choices(i) = {}
    /\ pending[i] # NoCall
    /\ pending' = [pending EXCEPT ![i] = NoCall]
    /\ Save(i, AsBefore(row[i]))
    /\ steps' = (steps \ {<<"rescheduled", k>> : k \in Callers(i)})
                  \cup {<<"giveup", k>> : k \in Callers(i)}
    /\ UNCHANGED <<mig, tracker, tried, files, crashes>>

-----------------------------------------------------------------------------
(* prep_resize at the destination *)

\* resize_claim: the record is created before the resources are tested, and
\* the flavor is stashed on the instance before both.
NewRecord(m) ==
    /\ SetStatus(m, "pre-migrating")
    /\ Save(mig[m].instance,
            [row[mig[m].instance] EXCEPT !.new_flavor = mig[m].new])

\* A driver that cannot move an instance to the host it is on refuses.
ToSelf(m) == mig[m].source = mig[m].dest /\ mig[m].old = mig[m].new

PrepResize(m) ==
    /\ At("prep", m)
    /\ ~ToSelf(m)
    /\ NewRecord(m)
    /\ LET i == mig[m].instance
       IN MoveClaim(mig[m].dest, i, row'[i], mig[m])
    /\ Goto("prep", "claimed", m)
    /\ UNCHANGED <<rest, files>>

\* The claim's test fails: MoveClaim raises, the record stays.
PrepRefused(m) ==
    /\ "refuse" \in Faults
    /\ At("prep", m)
    /\ ~ToSelf(m)
    /\ SemaphoreFree(mig[m].dest)
    /\ NewRecord(m)
    /\ Goto("prep", "raised", m)
    /\ UNCHANGED <<tracker, rest, files>>

PrepToSelf(m) ==
    /\ At("prep", m)
    /\ ToSelf(m)
    /\ Goto("prep", "raised", m)
    /\ UNCHANGED <<database, tracker, rest, files>>

\* With the claim held, resize_instance is cast to the source.
CastResize(m) ==
    /\ At("claimed", m)
    /\ Goto("claimed", "resize", m)
    /\ UNCHANGED <<database, tracker, rest, files>>

\* The cast raises and MoveClaim.abort gives the claim back.
AbortClaim(m) ==
    /\ "cast" \in Faults
    /\ At("claimed", m)
    /\ DropMoveClaim(mig[m].dest, mig[m].instance, mig[m].new)
    /\ Goto("claimed", "raised", m)
    /\ UNCHANGED <<database, rest, files>>

\* _reschedule: the conductor is called again.
Reschedule(m) ==
    /\ At("raised", m)
    /\ LET i == mig[m].instance
       IN /\ Save(i, [row[i] EXCEPT !.task_state = "resize_prep"])
          /\ Call(i, mig[m].new, tried[m])
    /\ Goto("raised", "rescheduled", m)
    /\ UNCHANGED <<mig, tracker, files>>

\* The call times out while the conductor goes on.
RescheduleTimesOut(m) ==
    /\ "timeout" \in Faults
    /\ At("rescheduled", m)
    /\ Goto("rescheduled", "giveup", m)
    /\ UNCHANGED <<database, tracker, rest, files>>

\* Not rescheduled for want of retries, or the conductor's answer is an error.
PrepFails(m) ==
    /\ \E place \in {"raised", "giveup"} :
          At(place, m) /\ Leave(place, m)
    /\ Save(mig[m].instance, Errored(row[mig[m].instance]))
    /\ UNCHANGED <<mig, tracker, rest, files>>

-----------------------------------------------------------------------------
(* resize_instance at the source *)

ResizeInstance(m) ==
    /\ MaySave("resize", m)
    /\ LET i == mig[m].instance
       IN Save(i, [row[i] EXCEPT !.task_state = "resize_migrating"])
    /\ SetStatus(m, "migrating")
    /\ Goto("resize", "copying", m)
    /\ UNCHANGED <<tracker, rest, files>>

\* migrate_disk_and_power_off: the disk is renamed to be the backup and copied.
\* A directory with that name at the destination is overwritten.
MoveFiles(m) ==
    LET i == mig[m].instance
    IN files' = [files EXCEPT ![i] = (@ \ {<<"disk", mig[m].source>>})
                    \cup {<<"backup", mig[m].source>>, <<"disk", mig[m].dest>>}]

\* There is a disk to be copied.
Copyable(m) == <<"disk", mig[m].source>> \in files[mig[m].instance]

\* The instance belongs to the destination from here.
Copied(m) ==
    /\ MaySave("copying", m)
    /\ Copyable(m)
    /\ MoveFiles(m)
    /\ SetStatus(m, "post-migrating")
    /\ LET i == mig[m].instance
       IN Save(i, [row[i] EXCEPT !.host = mig[m].dest,
                                 !.task_state = "resize_migrated"])
    /\ Goto("copying", "finish", m)
    /\ UNCHANGED <<tracker, rest>>

\* The driver raises and has undone its copy, or the network or the volume API
\* raises when the files have moved. errors_out_migration marks the record.
CopyFails(m) ==
    /\ At("copying", m)
    /\ \/ "error" \in Faults /\ Copyable(m) /\ MoveFiles(m)
       \/ "error" \in Faults /\ UNCHANGED files
       \/ ~Copyable(m) /\ UNCHANGED files
    /\ Save(mig[m].instance, Errored(row[mig[m].instance]))
    /\ SetStatus(m, "error")
    /\ Leave("copying", m)
    /\ UNCHANGED <<tracker, rest>>

\* InstanceFaultRollback puts the instance back to ACTIVE ...
CopyRolledBack(m) ==
    /\ "rollback" \in Faults
    /\ At("copying", m)
    /\ Save(mig[m].instance, AsBefore(row[mig[m].instance]))
    /\ SetStatus(m, "error")
    /\ Goto("copying", "undo", m)
    /\ UNCHANGED <<tracker, rest, files>>

\* ... and reverts_task_state clears its task_state once more.
RevertTaskState(m) ==
    /\ At("undo", m)
    /\ Save(mig[m].instance,
            [row[mig[m].instance] EXCEPT !.task_state = "none"])
    /\ Leave("undo", m)
    /\ UNCHANGED <<mig, tracker, rest, files>>

-----------------------------------------------------------------------------
(* finish_resize at the destination *)

\* Bug: the flavor is taken from the stash of the old one.
Resized_FromOld(m, r) == [r EXCEPT !.old_flavor = r.flavor,
                                   !.flavor = r.old_flavor]

\* The instance takes the new flavor and stashes the old one, then the driver
\* starts the guest.
Resized(m, r) == [r EXCEPT !.old_flavor = r.flavor,
                           !.flavor = mig[m].new]

FinishResize(m) ==
    /\ MaySave("finish", m)
    /\ LET i == mig[m].instance
       IN Save(i, [Resized(m, row[i]) EXCEPT !.task_state = "resize_finish"])
    /\ Goto("finish", "starting", m)
    /\ UNCHANGED <<mig, tracker, rest, files>>

Finished(m) ==
    /\ At("starting", m)
    /\ SetStatus(m, "finished")
    /\ Goto("starting", "started", m)
    /\ UNCHANGED <<row, tracker, rest, files>>

\* Bug: the task_state is left.
AsResized_KeepsTask(r) == [r EXCEPT !.vm_state = "resized"]

AsResized(r) == [r EXCEPT !.vm_state = "resized", !.task_state = "none"]

FinishDone(m) ==
    /\ MaySave("started", m)
    /\ Save(mig[m].instance, AsResized(row[mig[m].instance]))
    /\ Leave("started", m)
    /\ UNCHANGED <<mig, tracker, rest, files>>

\* The network calls raise with the new flavor saved, or the driver raises
\* and the old flavor is put back.
FinishFails(m) ==
    /\ "error" \in Faults
    /\ LET i == mig[m].instance
       IN \/ /\ At("finish", m)
             /\ Save(i, Errored(Resized(m, row[i])))
             /\ Leave("finish", m)
          \/ /\ At("starting", m)
             /\ Save(i, Errored([row[i] EXCEPT !.flavor = mig[m].old]))
             /\ Leave("starting", m)
    /\ SetStatus(m, "error")
    /\ UNCHANGED <<tracker, rest, files>>

-----------------------------------------------------------------------------
(* The API's answers to a finished resize *)

Waiting(r) == r.vm_state = "resized" /\ r.task_state = "none"

\* Bug: any record of the instance will do.
Confirmable_AnyStatus(m) ==
    LET i == mig[m].instance
    IN /\ mig[m].status \notin {"unused", "unsaved"}
       /\ Waiting(row[i])

\* check_instance_state and migration_get_by_instance_and_status.
Confirmable(m) ==
    LET i == mig[m].instance
    IN /\ mig[m].status = "finished"
       /\ Waiting(row[i])

\* Another request of the API for the instance has read and not yet saved, the
\* periodic confirmation being one from the time its list is read.
Overlapping(i) ==
    \E k \in Migs, place \in {"api-confirm", "auto-confirm", "api-revert", "poll"} :
        mig[k].instance = i /\ At(place, k)

MayRequest(i) == Overlap \/ ~Overlapping(i)

ConfirmRequest(m) ==
    /\ "confirm" \in Users
    /\ Confirmable(m)
    /\ MayRequest(mig[m].instance)
    /\ steps' = steps \cup {<<"api-confirm", m>>}
    /\ UNCHANGED <<database, tracker, rest, files>>

\* API.confirm_resize after its quota reservation: no state is expected.
ConfirmSave(m) ==
    /\ \E place \in {"api-confirm", "auto-confirm"} :
          At(place, m) /\ Goto(place, "confirm", m)
    /\ SetStatus(m, "confirming")
    /\ UNCHANGED <<row, tracker, rest, files>>

RevertRequest(m) ==
    /\ "revert" \in Users
    /\ Confirmable(m)
    /\ MayRequest(mig[m].instance)
    /\ steps' = steps \cup {<<"api-revert", m>>}
    /\ UNCHANGED <<database, tracker, rest, files>>

\* API.revert_resize: a compare-and-swap of task_state only.
RevertSave(m) ==
    /\ At("api-revert", m)
    /\ LET i == mig[m].instance
       IN IF row[i].task_state = "none"
          THEN /\ Save(i, [row[i] EXCEPT !.task_state = "resize_reverting"])
               /\ SetStatus(m, "reverting")
               /\ Goto("api-revert", "revert", m)
          ELSE Leave("api-revert", m) /\ UNCHANGED database
    /\ UNCHANGED <<tracker, rest, files>>

-----------------------------------------------------------------------------
(* _poll_unconfirmed_resizes at the destination *)

\* Bug: the record finished before its instance does is not skipped.
StillResizing_Unknown(r) == FALSE

StillResizing(r) == r.vm_state # "error" /\ r.task_state = "resize_finish"

\* The periodic task of a node handles one record after the other.
Polled(n, place) == {m \in Migs : At(place, m) /\ mig[m].dest_node = n}

\* The list of finished records ...
Poll(n) ==
    LET finished == {m \in Migs : /\ mig[m].status = "finished"
                                  /\ mig[m].dest = n
                                  /\ MayRequest(mig[m].instance)}
    IN /\ "poll" \in Users
       /\ finished # {}
       /\ Polled(n, "poll") \cup Polled(n, "auto-confirm") = {}
       /\ steps' = steps \cup {<<"poll", m>> : m \in finished}
       /\ UNCHANGED <<database, tracker, rest, files>>

\* ... and then each instance: confirmed, skipped, or the record is an error.
PollInstance(m) ==
    /\ At("poll", m)
    /\ Polled(mig[m].dest_node, "auto-confirm") = {}
    /\ \/ /\ Waiting(row[mig[m].instance])
          /\ Goto("poll", "auto-confirm", m)
          /\ UNCHANGED mig
       \/ /\ StillResizing(row[mig[m].instance])
          /\ Leave("poll", m)
          /\ UNCHANGED mig
       \/ /\ ~Waiting(row[mig[m].instance])
          /\ ~StillResizing(row[mig[m].instance])
          /\ Leave("poll", m)
          /\ SetStatus(m, "error")
    /\ UNCHANGED <<row, tracker, rest, files>>

-----------------------------------------------------------------------------
(* confirm_resize at the source *)

StillUnconfirmed(m) == mig[m].status \in {"finished", "confirming"}

\* The lock of the instance at the source.
InstanceLocked(m) ==
    \E k \in Migs : /\ mig[k].instance = mig[m].instance
                    /\ mig[k].source = mig[m].source
                    /\ At("cleanup", k) \/ At("bare", k)

\* Under the lock of the instance: look at the record again, and remove the
\* stashed flavors of an instance that is to be confirmed. "bare": there was
\* no old flavor any more.
ConfirmResize(m) ==
    /\ At("confirm", m)
    /\ ~InstanceLocked(m)
    /\ LET i == mig[m].instance
       IN IF StillUnconfirmed(m)
          THEN /\ Save(i, [row[i] EXCEPT !.old_flavor = "none",
                                         !.new_flavor = "none"])
               /\ Goto("confirm", IF row[i].old_flavor = "none" THEN "bare"
                                  ELSE "cleanup", m)
          ELSE Leave("confirm", m) /\ UNCHANGED row
    /\ UNCHANGED <<mig, tracker, rest, files>>

\* The backup goes, the claim is dropped, and the instance is ACTIVE if its
\* task_state still is None. The save raises otherwise, and that of ERROR writes
\* its task_state None over the other one. Without an old flavor
\* a resize drops nothing (new_flavor is gone, too) and a migration drops the
\* instance's.
Confirmed(m) ==
    LET i == mig[m].instance
        dropped == IF At("cleanup", m) THEN mig[m].old
                   ELSE NewType([row[i] EXCEPT !.new_flavor = "none"], mig[m])
    IN /\ \E place \in {"cleanup", "bare"} :
             At(place, m) /\ Leave(place, m)
       /\ files' = [files EXCEPT ![i] = @ \ {<<"backup", mig[m].source>>}]
       /\ SetStatus(m, "confirmed")
       /\ DropMoveClaim(mig[m].source, i, dropped)
       /\ Save(i, [row[i] EXCEPT
                      !.vm_state = IF row[i].task_state = "none" THEN "active" ELSE "error",
                      !.task_state = "none"])
       /\ UNCHANGED rest

\* The driver or the network raises: ERROR, and the record stays.
ConfirmFails(m) ==
    /\ "error" \in Faults
    /\ \E place \in {"cleanup", "bare"} :
          At(place, m) /\ Leave(place, m)
    /\ LET i == mig[m].instance
       IN Save(i, [row[i] EXCEPT !.vm_state = "error"])
    /\ UNCHANGED <<mig, tracker, rest, files>>

-----------------------------------------------------------------------------
(* revert_resize at the destination, finish_revert_resize at the source *)

\* No status is looked at: the destination's disk goes.
RevertResize(m) ==
    /\ At("revert", m)
    /\ LET i == mig[m].instance
       IN files' = [files EXCEPT ![i] = @ \ {<<"disk", mig[m].dest>>}]
    /\ SetStatus(m, "reverted")
    /\ Goto("revert", "destroyed", m)
    /\ UNCHANGED <<row, tracker, rest>>

DropRevertedClaim(m) ==
    /\ At("destroyed", m)
    /\ DropMoveClaim(mig[m].dest, mig[m].instance, mig[m].new)
    /\ Goto("destroyed", "finish-revert", m)
    /\ UNCHANGED <<database, rest, files>>

\* The old flavor of the instance as it was sent along by the destination.
Original(m) == mig[m].old

\* Bug: the instance stays recorded at the destination.
Home_Kept(m) == row[mig[m].instance].host

Home(m) == mig[m].source

\* The instance is the source's again, with its old flavor. The record gets
\* the source as dest_compute but keeps its dest_node.
FinishRevert(m) ==
    /\ At("finish-revert", m)
    /\ LET i == mig[m].instance
       IN Save(i, [row[i] EXCEPT !.host = Home(m),
                                 !.flavor = Original(m),
                                 !.old_flavor = "none",
                                 !.new_flavor = "none"])
    /\ mig' = [mig EXCEPT ![m].dest = mig[m].source]
    /\ Goto("finish-revert", "restarting", m)
    /\ UNCHANGED <<tracker, rest, files>>

\* There is a disk at the source, or a backup to be renamed, to start from.
Startable(m) ==
    files[mig[m].instance] \cap ({"disk", "backup"} \X {mig[m].source}) # {}

\* finish_revert_migration: the backup becomes the disk again.
RestoreFiles(m) ==
    LET i == mig[m].instance
    IN files' = [files EXCEPT ![i] = (@ \ {<<"backup", mig[m].source>>})
                                       \cup {<<"disk", mig[m].source>>}]

Reverted(m) ==
    /\ MaySave("restarting", m)
    /\ Startable(m)
    /\ RestoreFiles(m)
    /\ LET i == mig[m].instance
       IN Save(i, [row[i] EXCEPT !.vm_state = "active",
                                 !.task_state = "none"])
    /\ Leave("restarting", m)
    /\ UNCHANGED <<mig, tracker, rest>>

\* The driver raises, in particular where there is nothing to start from.
RevertFails(m) ==
    /\ \/ /\ "error" \in Faults
          /\ At("revert", m)
          /\ Leave("revert", m)
       \/ /\ At("restarting", m)
          /\ "error" \in Faults \/ ~Startable(m)
          /\ Leave("restarting", m)
    /\ Save(mig[m].instance, Errored(row[mig[m].instance]))
    /\ UNCHANGED <<mig, tracker, rest, files>>

-----------------------------------------------------------------------------
(* A save that finds another task_state than the one expected *)

(***************************************************************************)
(* The object stays as the save wanted to write it, and the save of ERROR, *)
(* which expects nothing, writes all of it over what the preemptor has in  *)
(* the row. reverts_task_state clears no task_state then. A finish_revert  *)
(* had set nothing but launched_at.                                        *)
(***************************************************************************)
Overwritten(place, m, r) ==
    CASE place = "resize"  -> [r EXCEPT !.task_state = "resize_migrating"]
      [] place = "copying" -> [r EXCEPT !.host = mig[m].dest,
                                        !.task_state = "resize_migrated"]
      [] place = "finish"  -> [Resized(m, r) EXCEPT !.task_state = "resize_finish"]
      [] place = "started" -> [r EXCEPT !.task_state = "none"]
      [] OTHER             -> r

\* What the handler did before the save stays done; a driver without a disk has
\* raised before.
Preempted(m) ==
    \E place \in DOMAIN Expected :
        /\ At(place, m)
        /\ ~MaySave(place, m)
        /\ place = "copying" => Copyable(m)
        /\ place = "restarting" => Startable(m)
        /\ Leave(place, m)
        /\ LET i == mig[m].instance
           IN Save(i, [Overwritten(place, m, row[i]) EXCEPT !.vm_state = "error"])
        /\ IF place \in {"resize", "copying", "finish"}
           THEN SetStatus(m, "error") ELSE UNCHANGED mig
        /\ CASE place = "copying"    -> MoveFiles(m)
             [] place = "restarting" -> RestoreFiles(m)
             [] OTHER                -> UNCHANGED files
        /\ UNCHANGED <<tracker, rest>>

-----------------------------------------------------------------------------
(* nova-compute dies and starts again *)

\* The places of handlers, and of the periodic task, at the two hosts. Casts
\* stay in their queues.
AtSource == {"copying", "undo", "cleanup", "bare", "restarting"}
AtDest   == {"claimed", "raised", "rescheduled", "giveup", "starting", "started",
             "destroyed", "poll", "auto-confirm"}

Running(n) ==
    {step \in steps : \/ step[1] \in AtSource /\ mig[step[2]].source = n
                      \/ step[1] \in AtDest /\ mig[step[2]].dest_node = n}

\* Handlers and requests of an instance, and of them those in a set.
Pursued(i, within) ==
    pending[i] # NoCall \/ \E step \in within : mig[step[2]].instance = i

Busy(i) == Pursued(i, steps)

\* What a host was copying when it died.
Copying(n, i) == {m \in Migs : /\ At("copying", m) /\ Copyable(m)
                               /\ mig[m].instance = i /\ mig[m].source = n}

\* How far it had come.
Cuts == {"before", "renamed", "copied"}

Interrupted(n, i, cut) ==
    IF cut = "before" \/ Copying(n, i) = {} THEN files[i]
    ELSE (files[i] \ {<<"disk", n>>})
            \cup {<<"backup", n>>}
            \cup {<<"disk", mig[m].dest>> :
                     m \in {k \in Copying(n, i) : cut = "copied"}}

\* Bug: the instance is released without being rolled back.
RolledBack_Not(n, fs) == fs

\* finish_revert_migration of _init_instance: a backup becomes the disk again.
RolledBack(n, fs) ==
    IF <<"backup", n>> \in fs
    THEN (fs \ {<<"backup", n>>}) \cup {<<"disk", n>>} ELSE fs

\* An instance whose disk it was copying is rolled back; if that raises the
\* instance is released all the same.
Restores == IF "recovery" \in Faults THEN BOOLEAN ELSE {TRUE}

InitFiles(n, i, cut, restored) ==
    IF restored /\ row[i].host = n /\ row[i].task_state = "resize_migrating"
    THEN RolledBack(n, Interrupted(n, i, cut)) ELSE Interrupted(n, i, cut)

\* It and one that was about to be resized are free again, whatever goes on
\* at the destination.
InitRow(n, r) ==
    IF /\ r.host = n
       /\ \/ r.task_state = "resize_migrating"
          \/ r.task_state = "resize_prep" /\ r.vm_state # "error"
    THEN [r EXCEPT !.task_state = "none"] ELSE r

\* Such an instance is not free: the conductor has the request, or it waits.
Unlocks(n) ==
    \E i \in Instances :
        /\ row[i].task_state = "resize_prep" /\ InitRow(n, row[i]) # row[i]
        /\ Pursued(i, steps \ Running(n))

\* init_host, and pre_start_hook with the first audit of the new tracker. The
\* time that the service is down is the time its casts wait.
Restart(n) ==
    /\ crashes < MaxCrashes
    /\ "unlock" \in Faults \/ ~Unlocks(n)
    /\ crashes' = crashes + 1
    /\ steps' = steps \ Running(n)
    /\ \E cut \in [Instances -> Cuts], restored \in Restores :
          files' = [i \in Instances |-> InitFiles(n, i, cut[i], restored)]
    /\ row' = [i \in Instances |-> InitRow(n, row[i])]
    /\ StartTracker(n)
    /\ UNCHANGED <<mig, pending, tried>>

-----------------------------------------------------------------------------

Source(m) == \/ ResizeInstance(m) \/ Copied(m) \/ CopyFails(m)
             \/ CopyRolledBack(m) \/ RevertTaskState(m)
             \/ ConfirmResize(m) \/ Confirmed(m) \/ ConfirmFails(m)
             \/ FinishRevert(m) \/ Reverted(m)

Destination(m) ==
    \/ PrepResize(m) \/ PrepRefused(m) \/ PrepToSelf(m)
    \/ CastResize(m) \/ AbortClaim(m) \/ Reschedule(m)
    \/ RescheduleTimesOut(m) \/ PrepFails(m)
    \/ FinishResize(m) \/ Finished(m) \/ FinishDone(m) \/ FinishFails(m)
    \/ RevertResize(m) \/ DropRevertedClaim(m) \/ RevertFails(m)
    \/ PollInstance(m)

Api(m) == \/ ConfirmRequest(m) \/ ConfirmSave(m)
          \/ RevertRequest(m) \/ RevertSave(m)

Conductor(i) == \/ \E m \in Migs, n \in Nodes : ColdMigrate(i, m, n)
                \/ ColdMigrateFails(i)

Compute(m) == Source(m) \/ Destination(m) \/ Preempted(m)

\* The audit after a start is part of the start.
AuditStep(n) == /\ Audits \/ ~SemaphoreFree(n)
                /\ Audit(n)
                /\ UNCHANGED <<rest, steps, files>>

Next ==
    \/ \E i \in Instances : \/ \E f \in Flavors : Resize(i, f)
                            \/ Conductor(i)
    \/ \E m \in Migs : Compute(m) \/ Api(m)
    \/ \E n \in Nodes : Poll(n) \/ AuditStep(n) \/ Restart(n)

Spec == Init /\ [][Next]_vars

\* What goes on with a record without a semaphore, and with one. The periodic
\* task is a thread of its own.
Progress(m) ==
    \/ PrepToSelf(m) \/ CastResize(m) \/ PrepFails(m) \/ ResizeInstance(m)
    \/ Copied(m) \/ CopyFails(m) \/ RevertTaskState(m) \/ FinishResize(m) \/ Finished(m)
    \/ FinishDone(m) \/ ConfirmSave(m) \/ RevertSave(m)
    \/ ConfirmResize(m) \/ RevertResize(m) \/ FinishRevert(m) \/ Reverted(m)
    \/ RevertFails(m) \/ Preempted(m)

UnderSemaphore(m) == PrepResize(m) \/ Confirmed(m) \/ DropRevertedClaim(m)

\* The waiters of COMPUTE_RESOURCE_SEMAPHORE are served in turn, so a step that
\* needs it is not overtaken for ever by audits. Faults, users and the start of
\* a periodic task are owed nothing.
Fairness ==
    /\ \A m \in Migs : /\ WF_vars(Progress(m)) /\ SF_vars(UnderSemaphore(m))
                      /\ WF_vars(PollInstance(m))
    /\ \A i \in Instances : WF_vars(Conductor(i))
    /\ \A n \in Nodes : WF_vars(AuditStep(n))

FairSpec == Spec /\ Fairness

-----------------------------------------------------------------------------
(* Properties *)

\* task_state is a lock: no handler of a resize finds at its save that another
\* request or handler has taken the instance over. Every save that names an
\* expected_task_state relies on it, and so does reverts_task_state.
NeverPreempted ==
    \A m \in Migs, place \in DOMAIN Expected :
        At(place, m) => MaySave(place, m)

\* An instance always has a disk or the backup of one, on some host: between
\* migrate_disk_and_power_off, confirm_migration and the destroy of a revert
\* no order of requests and failures removes the last copy.
DiskSurvives == \A i \in Instances : files[i] # {}

\* An instance without a task has its disk on the host it is recorded on,
\* whatever was resized, confirmed, reverted or gone wrong before.
DiskWhereItRuns ==
    \A i \in Instances :
        /\ row[i].vm_state \in {"active", "resized"}
        /\ row[i].task_state = "none"
        => <<"disk", row[i].host>> \in files[i]

\* A service died while it carried an answer out.
AnswerDied(i) ==
    /\ crashes > 0
    /\ \/ row[i].task_state = "resize_reverting"
       \/ \E m \in Migs : mig[m].instance = i /\ mig[m].status = "confirming"

\* A RESIZED instance that nobody works on can be confirmed or reverted: it has
\* a finished record that ends where it is and knows the flavor to go back to.
\* _poll_unconfirmed_resizes, which marks records "error", must not take it
\* away.
Answerable ==
    \A i \in Instances :
        row[i].vm_state = "resized" /\ ~Busy(i) /\ ~AnswerDied(i) =>
        \E m \in Migs : /\ Confirmable(m)
                        /\ mig[m].instance = i
                        /\ mig[m].dest_node = row[i].host
                        /\ mig[m].old = row[i].old_flavor

\* No order of claims, drops and audits makes a tracker give back more of an
\* instance than it has added: drop_move_claim comes from other hosts' calls,
\* before, after or in place of the claim it undoes.
NoUnderflow == \A n \in Nodes, i \in Instances : charge[n][i] >= 0

\* The audit copes with the records that resizes leave in the database ("do
\* some defensive filtering against bad migrations records").
AuditNeverFails == \A n \in Nodes : audit[n] # "failed"

\* A service died with the last handler of the instance.
Abandoned(i) == crashes > 0 /\ ~Busy(i)

\* A resize, a confirmation or a revert ends: the instance does not keep its
\* task_state for good, whichever step fails. Only then do users get it back.
\* It takes handlers that are not preempted: one that is leaves the task_state
\* of the save that was refused with nobody to clear it.
Resolved ==
    \A i \in Instances :
        row[i].task_state # "none" ~> row[i].task_state = "none" \/ Abandoned(i)

\* What a node owes an instance: its flavor where it is, and the old flavor at
\* the source while it can be reverted.
Due(n, i) ==
    (IF row[i].host = n THEN Size[row[i].flavor] ELSE 0)
    + (IF \E m \in Migs : /\ Confirmable(m)
                          /\ mig[m].instance = i /\ mig[m].source = n
       THEN Size[row[i].old_flavor] ELSE 0)

AtRest(i) == /\ row[i].vm_state \in {"active", "resized"}
             /\ row[i].task_state = "none"
             /\ ~Busy(i) /\ ~AnswerDied(i)

\* A record that nobody brings to an end: a claim was refused, or the service
\* that worked on it died. It counts whenever the instance is RESIZED.
Leftover(n, i) == \E m \in InProgress(n) : mig[m].instance = i /\ ~Confirmable(m)

\* The audits repair the usage: once an instance is left alone, every tracker
\* ends up with what it owes it, even where a claim was lost or counted twice,
\* unless its audits fail for good. A record left over may cost too much, but
\* never makes room that is not there.
Settles ==
    \A i \in Instances :
        <>[](AtRest(i) /\ \A n \in Nodes : audit[n] # "failed") =>
            <>[](\A n \in Nodes : SemaphoreFree(n) =>
                    \/ charge[n][i] = Due(n, i)
                    \/ charge[n][i] > Due(n, i) /\ Leftover(n, i))

\* Resize is one of the ways to move an instance: its copies are its disks.
Move == INSTANCE InstanceMove
        WITH Hosts  <- Nodes,
             home   <- row[Watched].host,
             copies <- {f[2] : f \in files[Watched]},
             lock   <- IF row[Watched].vm_state = "error" THEN "broken"
                       ELSE IF row[Watched].task_state = "none" THEN "free"
                       ELSE "held"

\* Every step of a resize, its confirmation, its revert and its failures is for
\* an instance, whichever it is, a step of InstanceMove, or one it does not see:
\* the record follows the disk while task_state is held, a confirmation deletes
\* only the backup, and no step leaves the instance without a disk.
Moves == Move!Spec

-----------------------------------------------------------------------------
(* Stated by comments of the code, and not so *)

\* A handler that finds another task_state than its own leaves that one alone
\* ("unexpected task state means the current task is preempted. Do not clear
\* task state in this case", reverts_task_state). But the save of ERROR has
\* written over it before, and the preemptor fails at its own next save.
PreemptorKeepsTask ==
    [][\A m \in Migs :
          LET i == mig[m].instance IN
          Preempted(m) /\ row[i].task_state # "none" =>
              row'[i].task_state = row[i].task_state]_vars

\* The source of a RESIZED instance keeps room for a revert ("instance
\* migrated, but record usage for a possible revert").
RoomForRevert ==
    \A m \in Migs :
        Confirmable(m) /\ SemaphoreFree(mig[m].source) =>
            charge[mig[m].source][mig[m].instance] >= Size[mig[m].old]

\* While a resize is on its way to the source, its claim is in the usage of the
\* destination ("Mark the resources in-use for the resize landing on this
\* compute host").
ClaimCounts ==
    \A m \in Migs :
        At("resize", m) /\ SemaphoreFree(mig[m].dest) =>
            charge[mig[m].dest][mig[m].instance] >= Size[mig[m].new]
=============================================================================
