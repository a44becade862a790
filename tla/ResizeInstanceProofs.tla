------------------------ MODULE ResizeInstanceProofs ------------------------
(***************************************************************************)
(* Proofs about ResizeInstance, for any nodes, instances, flavors, users   *)
(* and faults, with overlapping requests, audits and crashes at any time.  *)
(***************************************************************************)
EXTENDS ResizeInstance, TLAPS

-----------------------------------------------------------------------------
(* Type correctness *)

\* A record that prep_resize was asked for: nothing in it is missing.
Complete == [instance : Instances, source : Nodes, dest : Nodes,
             dest_node : Nodes, old : Flavors, new : Flavors,
             status : Statuses]

\* The fields of a record are filled in before a handler copies them to a row.
Known ==
    /\ \A m \in Migs : mig[m].status # "unused" => mig[m] \in Complete
    /\ \A step \in steps : mig[step[2]].status # "unused"

\* A row that is saved keeps the table well typed, whoever it is of.
LEMMA SavedRow ==
  ASSUME TypeOK, NEW i, NEW r \in Rows, Save(i, r)
  PROVE  row' \in [Instances -> Rows]
BY DEF TypeOK, TrackerTypeOK, Save

\* A record in use gets another status and stays in use.
LEMMA SavedStatus ==
  ASSUME TypeOK, Known, NEW m \in Migs, mig[m].status # "unused",
         NEW s \in Statuses, s # "unused", SetStatus(m, s)
  PROVE  /\ mig' \in [Migs -> Records]
         /\ \A k \in Migs : mig'[k].status # "unused" => mig'[k] \in Complete
         /\ \A k \in Migs : mig[k].status # "unused" => mig'[k].status # "unused"
<1> DEFINE g == [mig[m] EXCEPT !.status = s]
<1>1. mig[m] \in Complete
  BY DEF Known
<1>2. g \in Complete /\ g.status = s
  BY <1>1 DEF Complete
<1>3. Complete \subseteq Records
  BY DEF Complete, Records
<1>4. mig' = [mig EXCEPT ![m] = g]
  BY DEF SetStatus
<1>5. mig \in [Migs -> Records]
  BY DEF TypeOK, TrackerTypeOK
<1> HIDE DEF g
<1>6. \A k \in Migs : mig'[k] = IF k = m THEN g ELSE mig[k]
  BY <1>4, <1>5
<1>7. mig' \in [Migs -> Records]
  BY <1>2, <1>3, <1>4, <1>5
<1>8. \A k \in Migs : mig'[k].status # "unused" => mig'[k] \in Complete
  BY <1>2, <1>6 DEF Known
<1>9. \A k \in Migs : mig[k].status # "unused" => mig'[k].status # "unused"
  BY <1>2, <1>6
<1> QED  BY <1>7, <1>8, <1>9

\* A step that is taken belongs to a record in use.
LEMMA StepKnown ==
  ASSUME TypeOK, Known, NEW place, NEW m \in Migs, At(place, m)
  PROVE  mig[m] \in Complete /\ mig[m].status # "unused"
BY DEF Known, At

\* What it has in its hands.
LEMMA StepFields ==
  ASSUME TypeOK, Known, NEW place, NEW m \in Migs, At(place, m)
  PROVE  /\ mig[m].instance \in Instances /\ row[mig[m].instance] \in Rows
         /\ mig[m].source \in Nodes /\ mig[m].dest \in Nodes
         /\ mig[m].old \in Flavors /\ mig[m].new \in Flavors
BY StepKnown DEF Complete, TypeOK, TrackerTypeOK

VmStates == {"active", "resized", "error"}
TaskStates == {"none", "resize_prep", "resize_migrating", "resize_migrated",
               "resize_finish", "resize_reverting"}

\* The rows that the handlers make of a row are well typed.
LEMMA RowsMade ==
  /\ \A r \in Rows, v \in VmStates : [r EXCEPT !.vm_state = v] \in Rows
  /\ \A r \in Rows, t \in TaskStates : [r EXCEPT !.task_state = t] \in Rows
  /\ \A r \in Rows, v \in VmStates, t \in TaskStates :
        [r EXCEPT !.vm_state = v, !.task_state = t] \in Rows
  /\ \A r \in Rows, n \in Nodes, t \in TaskStates :
        [r EXCEPT !.host = n, !.task_state = t] \in Rows
  /\ \A r \in Rows, f \in Flavors : [r EXCEPT !.flavor = f] \in Rows
  /\ \A r \in Rows, f \in Flavors : [r EXCEPT !.new_flavor = f] \in Rows
  /\ \A r \in Rows, f \in Flavors :
        [r EXCEPT !.old_flavor = r.flavor, !.flavor = f] \in Rows
  /\ \A r \in Rows :
        [r EXCEPT !.old_flavor = "none", !.new_flavor = "none"] \in Rows
  /\ \A r \in Rows, n \in Nodes, f \in Flavors :
        [r EXCEPT !.host = n, !.flavor = f, !.old_flavor = "none",
                  !.new_flavor = "none"] \in Rows
BY DEF Rows, VmStates, TaskStates

\* Every save of an instance writes a well-typed row.
LEMMA RowsTyped ==
  ASSUME TypeOK, Known, [Next]_vars
  PROVE  row' \in [Instances -> Rows]
<1> USE DEF VmStates, TaskStates
<1>0. row \in [Instances -> Rows]
  BY DEF TypeOK, TrackerTypeOK
<1>1. ASSUME NEW i \in Instances, NEW f \in Flavors, Resize(i, f)
      PROVE  row' \in [Instances -> Rows]
  BY <1>0, <1>1, RowsMade, SavedRow DEF Resize
<1>2. ASSUME NEW i \in Instances, Conductor(i)
      PROVE  row' \in [Instances -> Rows]
  BY <1>0, <1>2, RowsMade, SavedRow
  DEF Conductor, ColdMigrate, ColdMigrateFails, AsBefore
<1>3. ASSUME NEW m \in Migs, Source(m) PROVE row' \in [Instances -> Rows]
  <2> DEFINE i == mig[m].instance
  <2>1. CASE ResizeInstance(m)
    BY <1>0, <2>1, StepFields, RowsMade, SavedRow DEF ResizeInstance, MaySave
  <2>2. CASE Copied(m)
    BY <1>0, <2>2, StepFields, RowsMade, SavedRow DEF Copied, MaySave
  <2>3. CASE CopyFails(m)
    BY <1>0, <2>3, StepFields, RowsMade, SavedRow DEF CopyFails, Errored
  <2>4. CASE CopyRolledBack(m) \/ RevertTaskState(m)
    BY <1>0, <2>4, StepFields, RowsMade, SavedRow
    DEF CopyRolledBack, RevertTaskState, AsBefore
  <2>5. CASE ConfirmResize(m)
    BY <1>0, <2>5, StepFields, RowsMade, SavedRow DEF ConfirmResize
  <2>6. CASE Confirmed(m) \/ ConfirmFails(m)
    <3>1. i \in Instances
      BY <2>6, StepFields DEF Confirmed, ConfirmFails
    <3> QED  BY <1>0, <2>6, <3>1, RowsMade, SavedRow DEF Confirmed, ConfirmFails
  <2>7. CASE FinishRevert(m)
    BY <1>0, <2>7, StepFields, RowsMade, SavedRow
    DEF FinishRevert, Home, Original
  <2>8. CASE Reverted(m)
    BY <1>0, <2>8, StepFields, RowsMade, SavedRow DEF Reverted, MaySave
  <2> QED  BY <1>3, <2>1, <2>2, <2>3, <2>4, <2>5, <2>6, <2>7, <2>8 DEF Source
<1>4. ASSUME NEW m \in Migs, Destination(m) PROVE row' \in [Instances -> Rows]
  <2> DEFINE i == mig[m].instance
  <2>1. CASE PrepResize(m) \/ PrepRefused(m)
    BY <1>0, <2>1, StepFields, RowsMade, SavedRow
    DEF PrepResize, PrepRefused, NewRecord
  <2>2. CASE Reschedule(m)
    BY <1>0, <2>2, StepFields, RowsMade, SavedRow DEF Reschedule
  <2>3. CASE PrepFails(m)
    BY <1>0, <2>3, StepFields, RowsMade, SavedRow DEF PrepFails, Errored
  <2>4. CASE FinishResize(m)
    BY <1>0, <2>4, StepFields, RowsMade, SavedRow
    DEF FinishResize, MaySave, Resized
  <2>5. CASE FinishDone(m)
    BY <1>0, <2>5, StepFields, RowsMade, SavedRow
    DEF FinishDone, MaySave, AsResized
  <2>6. CASE FinishFails(m)
    <3>1. i \in Instances /\ mig[m].old \in Flavors /\ mig[m].new \in Flavors
      BY <2>6, StepFields DEF FinishFails
    <3>2. CASE Save(i, Errored(Resized(m, row[i])))
      BY <1>0, <3>1, <3>2, RowsMade, SavedRow DEF Errored, Resized
    <3>3. CASE Save(i, Errored([row[i] EXCEPT !.flavor = mig[m].old]))
      BY <1>0, <3>1, <3>3, RowsMade, SavedRow DEF Errored
    <3> QED  BY <2>6, <3>2, <3>3 DEF FinishFails
  <2>7. CASE RevertFails(m)
    BY <1>0, <2>7, StepFields, RowsMade, SavedRow DEF RevertFails, Errored
  <2>8. CASE \/ PrepToSelf(m) \/ CastResize(m) \/ AbortClaim(m)
             \/ Finished(m) \/ RevertResize(m) \/ DropRevertedClaim(m)
             \/ PollInstance(m) \/ RescheduleTimesOut(m)
    BY <1>0, <2>8 DEF PrepToSelf, CastResize, AbortClaim, Finished,
       RevertResize, DropRevertedClaim, PollInstance, RescheduleTimesOut,
       database
  <2> QED  BY <1>4, <2>1, <2>2, <2>3, <2>4, <2>5, <2>6, <2>7, <2>8
           DEF Destination
<1>5. ASSUME NEW m \in Migs, Preempted(m) PROVE row' \in [Instances -> Rows]
  <2> DEFINE i == mig[m].instance
  <2>1. PICK place \in DOMAIN Expected :
           /\ At(place, m)
           /\ Save(i, [Overwritten(place, m, row[i]) EXCEPT !.vm_state = "error"])
    BY <1>5 DEF Preempted
  <2>2. /\ i \in Instances /\ row[i] \in Rows
        /\ mig[m].dest \in Nodes /\ mig[m].new \in Flavors
    BY <1>0, <2>1, StepFields DEF TypeOK, TrackerTypeOK
  <2>3. Overwritten(place, m, row[i]) \in Rows
    BY <2>2, RowsMade DEF Overwritten, Resized
  <2> QED  BY <1>0, <2>1, <2>2, <2>3, RowsMade, SavedRow
<1>6. ASSUME NEW m \in Migs, Api(m) PROVE row' \in [Instances -> Rows]
  <2>1. CASE RevertSave(m)
    BY <1>0, <2>1, StepFields, RowsMade, SavedRow DEF RevertSave, database
  <2> QED  BY <1>0, <1>6, <2>1
           DEF Api, ConfirmRequest, ConfirmSave, RevertRequest, database
<1>7. ASSUME NEW n \in Nodes, Poll(n) \/ AuditStep(n)
      PROVE  row' \in [Instances -> Rows]
  BY <1>0, <1>7 DEF Poll, AuditStep, Audit, AuditInstances, AuditMigrations,
     AuditFails, database
<1>8. CASE UNCHANGED vars
  BY <1>0, <1>8 DEF vars, database
<1>9. ASSUME NEW n \in Nodes, Restart(n) PROVE row' \in [Instances -> Rows]
  <2>1. \A i \in Instances : InitRow(n, row[i]) \in Rows
    BY <1>0, RowsMade DEF InitRow
  <2> QED  BY <1>9, <2>1 DEF Restart
<1> QED  BY <1>1, <1>2, <1>3, <1>4, <1>5, <1>6, <1>7, <1>8, <1>9
         DEF Next, Compute

\* What a step does to the records: they stay complete, and in use.
RecordsKept ==
    /\ mig' \in [Migs -> Records]
    /\ \A k \in Migs : mig'[k].status # "unused" => mig'[k] \in Complete
    /\ \A k \in Migs : mig[k].status # "unused" => mig'[k].status # "unused"

LEMMA RecordsTyped ==
  ASSUME TypeOK, Known, [Next]_vars
  PROVE  RecordsKept
<1> USE DEF RecordsKept
<1>0. ASSUME UNCHANGED mig PROVE RecordsKept
  BY <1>0 DEF Known, TypeOK, TrackerTypeOK
<1>1. ASSUME NEW m \in Migs, mig[m].status # "unused",
             NEW s \in Statuses \ {"unused"}, SetStatus(m, s)
      PROVE  RecordsKept
  BY <1>1, SavedStatus
<1>2. ASSUME NEW i \in Instances, Conductor(i) PROVE RecordsKept
  <2>1. ASSUME NEW m \in Migs, NEW n \in Nodes, ColdMigrate(i, m, n)
        PROVE  RecordsKept
    <3> DEFINE g == [instance |-> i, source |-> row[i].host, dest |-> n,
                     dest_node |-> n, old |-> row[i].flavor,
                     new |-> pending[i].flavor, status |-> "unsaved"]
    <3>1. row[i] \in Rows /\ pending[i].flavor \in Flavors
      BY <2>1 DEF TypeOK, TrackerTypeOK, ColdMigrate, Calls
    <3>2. row[i].host \in Nodes /\ row[i].flavor \in Flavors
      BY <3>1 DEF Rows
    <3>3. g \in Complete /\ g \in Records /\ g.status = "unsaved"
      BY <3>1, <3>2 DEF Complete, Records, Statuses
    <3>4. mig' = [mig EXCEPT ![m] = g]
      BY <2>1 DEF ColdMigrate
    <3> HIDE DEF g
    <3> QED  BY <3>3, <3>4 DEF TypeOK, TrackerTypeOK, Known
  <2> QED  BY <1>0, <1>2, <2>1 DEF Conductor, ColdMigrateFails
<1>3. ASSUME NEW m \in Migs, Source(m) PROVE RecordsKept
  <2>1. CASE FinishRevert(m)
    <3> DEFINE g == [mig[m] EXCEPT !.dest = mig[m].source]
    <3>1. mig[m] \in Complete /\ mig[m].status # "unused"
      BY <2>1, StepKnown DEF FinishRevert
    <3>2. g \in Complete /\ g \in Records /\ g.status = mig[m].status
      BY <3>1 DEF Complete, Records
    <3>3. mig' = [mig EXCEPT ![m] = g]
      BY <2>1 DEF FinishRevert
    <3> HIDE DEF g
    <3> QED  BY <3>1, <3>2, <3>3 DEF TypeOK, TrackerTypeOK, Known
  <2>2. CASE ResizeInstance(m) \/ Copied(m) \/ CopyFails(m)
             \/ CopyRolledBack(m) \/ Confirmed(m)
    BY <1>1, <2>2, StepKnown DEF ResizeInstance, Copied, CopyFails,
       CopyRolledBack, Confirmed, MaySave, Statuses
  <2> QED  BY <1>0, <1>3, <2>1, <2>2
           DEF Source, RevertTaskState, ConfirmResize, ConfirmFails, Reverted
<1>4. ASSUME NEW m \in Migs, Destination(m) PROVE RecordsKept
  <2>1. CASE PrepResize(m) \/ PrepRefused(m) \/ Finished(m) \/ FinishFails(m)
             \/ RevertResize(m)
    BY <1>1, <2>1, StepKnown DEF PrepResize, PrepRefused, NewRecord, Finished,
       FinishFails, RevertResize, Statuses
  <2>2. CASE PollInstance(m)
    BY <1>0, <1>1, <2>2, StepKnown DEF PollInstance, Statuses
  <2> QED  BY <1>0, <1>4, <2>1, <2>2 DEF Destination, PrepToSelf, CastResize,
           AbortClaim, Reschedule, RescheduleTimesOut, PrepFails, FinishResize,
           FinishDone, DropRevertedClaim, RevertFails, database
<1>5. ASSUME NEW m \in Migs, Preempted(m) PROVE RecordsKept
  BY <1>0, <1>1, <1>5, StepKnown DEF Preempted, Statuses
<1>6. ASSUME NEW m \in Migs, Api(m) PROVE RecordsKept
  <2>1. CASE ConfirmSave(m) \/ RevertSave(m)
    BY <1>0, <1>1, <2>1, StepKnown DEF ConfirmSave, RevertSave, database, Statuses
  <2> QED  BY <1>0, <1>6, <2>1 DEF Api, ConfirmRequest, RevertRequest, database
<1>7. ASSUME NEW n \in Nodes, Poll(n) \/ AuditStep(n) PROVE RecordsKept
  BY <1>0, <1>7 DEF Poll, AuditStep, Audit, AuditInstances, AuditMigrations,
     AuditFails, database
<1>8. CASE UNCHANGED vars
  BY <1>0, <1>8 DEF vars, database
<1>9. ASSUME NEW i \in Instances, NEW f \in Flavors, Resize(i, f)
      PROVE  RecordsKept
  BY <1>0, <1>9 DEF Resize
<1>10. ASSUME NEW n \in Nodes, Restart(n) PROVE RecordsKept
  BY <1>0, <1>10 DEF Restart
<1> QED  BY <1>2, <1>3, <1>4, <1>5, <1>6, <1>7, <1>8, <1>9, <1>10
         DEF Next, Compute

\* What is under way is a step of a record in use.
StepsKept ==
    /\ steps' \in SUBSET (Places \X Migs)
    /\ \A step \in steps' : mig'[step[2]].status # "unused"

LEMMA StepsTyped ==
  ASSUME TypeOK, Known, [Next]_vars
  PROVE  StepsKept
<1>0. RecordsKept /\ steps \in SUBSET (Places \X Migs)
  BY RecordsTyped DEF TypeOK
<1>1. ASSUME steps' \subseteq steps PROVE StepsKept
  BY <1>0, <1>1 DEF StepsKept, RecordsKept, Known
<1>2. ASSUME NEW from, NEW to \in Places, NEW m \in Migs,
             At(from, m), Goto(from, to, m)
      PROVE  StepsKept
  BY <1>0, <1>2, StepKnown DEF StepsKept, RecordsKept, Known, Goto
<1>3. ASSUME NEW from, NEW m \in Migs, Leave(from, m) PROVE StepsKept
  BY <1>1, <1>3 DEF Leave
<1>4. ASSUME NEW i \in Instances, Conductor(i) PROVE StepsKept
  <2>1. ASSUME NEW m \in Migs, NEW n \in Nodes, ColdMigrate(i, m, n)
        PROVE  StepsKept
    <3>1. mig'[m].status # "unused"
      BY <2>1 DEF ColdMigrate, TypeOK, TrackerTypeOK
    <3>2. steps' \subseteq steps \cup {<<"prep", m>>}
      BY <2>1 DEF ColdMigrate
    <3> QED  BY <1>0, <3>1, <3>2 DEF StepsKept, RecordsKept, Known, Places
  <2>2. CASE ColdMigrateFails(i)
    <3> DEFINE given == {<<"giveup", k>> : k \in Callers(i)}
    <3>1. \A k \in Callers(i) : k \in Migs /\ mig[k].status # "unused"
      BY StepKnown DEF Callers
    <3>2. \A step \in given : /\ step \in Places \X Migs
                              /\ mig[step[2]].status # "unused"
      BY <3>1 DEF Places
    <3>3. steps' \subseteq steps \cup given
      BY <2>2 DEF ColdMigrateFails
    <3> QED  BY <1>0, <3>2, <3>3 DEF StepsKept, RecordsKept, Known
  <2> QED  BY <1>4, <2>1, <2>2 DEF Conductor
<1>5. ASSUME NEW m \in Migs, Source(m) PROVE StepsKept
  <2>1. CASE ResizeInstance(m) \/ Copied(m) \/ CopyRolledBack(m)
             \/ ConfirmResize(m) \/ FinishRevert(m)
    BY <1>2, <1>3, <2>1 DEF ResizeInstance, Copied, CopyRolledBack,
       ConfirmResize, FinishRevert, MaySave, Places
  <2> QED  BY <1>3, <1>5, <2>1 DEF Source, CopyFails, RevertTaskState,
           Confirmed, ConfirmFails, Reverted
<1>6. ASSUME NEW m \in Migs, Destination(m) PROVE StepsKept
  <2>1. CASE PrepResize(m) \/ PrepRefused(m) \/ PrepToSelf(m)
             \/ CastResize(m) \/ AbortClaim(m) \/ Reschedule(m)
             \/ RescheduleTimesOut(m)
    BY <1>2, <2>1 DEF PrepResize, PrepRefused, PrepToSelf, CastResize,
       AbortClaim, Reschedule, RescheduleTimesOut, Places
  <2>2. CASE FinishResize(m) \/ Finished(m) \/ RevertResize(m)
             \/ DropRevertedClaim(m) \/ PollInstance(m)
    BY <1>2, <1>3, <2>2 DEF FinishResize, Finished, RevertResize,
       DropRevertedClaim, PollInstance, MaySave, Places
  <2> QED  BY <1>3, <1>6, <2>1, <2>2 DEF Destination, PrepFails, FinishDone,
           FinishFails, RevertFails
<1>7. ASSUME NEW m \in Migs, Preempted(m) PROVE StepsKept
  BY <1>3, <1>7 DEF Preempted
<1>8. ASSUME NEW m \in Migs, Api(m) PROVE StepsKept
  <2>1. CASE ConfirmSave(m) \/ RevertSave(m)
    BY <1>2, <1>3, <2>1 DEF ConfirmSave, RevertSave, Places
  <2>2. CASE ConfirmRequest(m) \/ RevertRequest(m)
    <3>1. mig[m].status # "unused"
      BY <2>2 DEF ConfirmRequest, RevertRequest, Confirmable
    <3>2. \/ steps' = steps \cup {<<"api-confirm", m>>}
          \/ steps' = steps \cup {<<"api-revert", m>>}
      BY <2>2 DEF ConfirmRequest, RevertRequest
    <3> QED  BY <1>0, <3>1, <3>2 DEF StepsKept, RecordsKept, Known, Places
  <2> QED  BY <1>8, <2>1, <2>2 DEF Api
<1>9. ASSUME NEW n \in Nodes, Poll(n) PROVE StepsKept
  <2> DEFINE listed == {<<"poll", m>> : m \in {k \in Migs :
                           mig[k].status = "finished"}}
  <2>1. steps' \subseteq steps \cup listed
    BY <1>9 DEF Poll
  <2>2. \A step \in listed : /\ step \in Places \X Migs
                             /\ mig[step[2]].status # "unused"
    BY DEF Places
  <2> QED  BY <1>0, <2>1, <2>2 DEF StepsKept, RecordsKept, Known
<1>10. CASE \/ UNCHANGED vars
            \/ \E n \in Nodes : AuditStep(n) \/ Restart(n)
            \/ \E i \in Instances, f \in Flavors : Resize(i, f)
  BY <1>1, <1>10 DEF vars, AuditStep, Restart, Resize
<1> QED  BY <1>4, <1>5, <1>6, <1>7, <1>8, <1>9, <1>10 DEF Next, Compute

-----------------------------------------------------------------------------
(* The resource trackers *)

UsageTypeOK ==
    /\ tracked_instances \in [Nodes -> SUBSET Instances]
    /\ tracked_migrations \in [Nodes -> [Instances -> Flavors \cup {"none"}]]
    /\ charge \in [Nodes -> [Instances -> Int]]
    /\ audit \in [Nodes -> {"idle", "running", "failed"}]

\* Outside of an audit, what a tracker remembers to have added for a migration
\* is part of the usage; during an audit the instances are counted already and
\* the dictionary of migrations is out of date.
Covered ==
    \A n \in Nodes, i \in Instances :
        /\ charge[n][i] >= 0
        /\ SemaphoreFree(n) => charge[n][i] >= SizeOf(tracked_migrations[n][i])

LEMMA SizeNat == \A f \in Flavors \cup {"none"} : SizeOf(f) \in Nat
BY TrackerAssumption DEF SizeOf

\* A migration holds a flavor of the instance, or nothing.
LEMMA MoveTypeTyped ==
  ASSUME NEW n, NEW r \in Rows, NEW g, NEW record
  PROVE  MoveType(n, r, g, record) \in Flavors \cup {"none"}
BY DEF MoveType, OtherType, NewType, OldType, Rows

\* A claim adds a flavor and remembers it.
LEMMA ClaimCovered ==
  ASSUME UsageTypeOK, Covered, NEW n \in Nodes, NEW i \in Instances,
         NEW r \in Rows, NEW g, MoveClaim(n, i, r, g)
  PROVE  UsageTypeOK' /\ Covered'
<1> DEFINE f == MoveType(n, r, g, i \in tracked_instances[n])
<1>1. f \in Flavors \cup {"none"}
  BY MoveTypeTyped
<1>2. Hold(n, i, f) /\ UNCHANGED <<tracked_instances, audit>>
  BY DEF MoveClaim
<1> HIDE DEF f
<1>3. SizeOf(f) \in Nat /\ SizeOf("none") = 0
  BY <1>1, SizeNat DEF SizeOf
<1>4. charge' = [charge EXCEPT ![n][i] = charge[n][i] + SizeOf(f)]
  BY <1>2 DEF Hold
<1>5. charge' \in [Nodes -> [Instances -> Int]]
  BY <1>3, <1>4 DEF UsageTypeOK
<1>6. \/ f = "none" /\ tracked_migrations' = tracked_migrations
      \/ tracked_migrations' = [tracked_migrations EXCEPT ![n][i] = f]
  BY <1>2 DEF Hold
<1>7. tracked_migrations' \in [Nodes -> [Instances -> Flavors \cup {"none"}]]
  <2> DEFINE t == [tracked_migrations[n] EXCEPT ![i] = f]
  <2>1. t \in [Instances -> Flavors \cup {"none"}]
    BY <1>1 DEF UsageTypeOK
  <2>2. \/ tracked_migrations' = tracked_migrations
        \/ tracked_migrations' = [tracked_migrations EXCEPT ![n] = t]
    BY <1>6
  <2> HIDE DEF t
  <2> QED  BY <2>1, <2>2 DEF UsageTypeOK
<1>8. ASSUME NEW k \in Nodes, NEW j \in Instances
      PROVE  /\ charge'[k][j] = IF k = n /\ j = i THEN charge[n][i] + SizeOf(f)
                                ELSE charge[k][j]
             /\ \/ tracked_migrations'[k][j] = tracked_migrations[k][j]
                \/ k = n /\ j = i /\ tracked_migrations'[k][j] = f
  BY <1>4, <1>6 DEF UsageTypeOK
<1>9. ASSUME NEW k \in Nodes, NEW j \in Instances
      PROVE  charge[k][j] \in Int /\ charge[k][j] >= 0
  BY <1>9 DEF UsageTypeOK, Covered
<1>10. ASSUME NEW k \in Nodes, NEW j \in Instances
       PROVE  /\ charge'[k][j] >= 0
              /\ SemaphoreFree(k)' =>
                    charge'[k][j] >= SizeOf(tracked_migrations'[k][j])
  <2>1. SemaphoreFree(k)' => charge[k][j] >= SizeOf(tracked_migrations[k][j])
    BY <1>2 DEF Covered, SemaphoreFree
  <2>2. tracked_migrations[k][j] \in Flavors \cup {"none"}
    BY DEF UsageTypeOK
  <2>3. SizeOf(tracked_migrations[k][j]) \in Nat
    BY <2>2, SizeNat
  <2> QED  BY <1>3, <1>8, <1>9, <2>1, <2>3
<1>11. UsageTypeOK'
  BY <1>2, <1>5, <1>7 DEF UsageTypeOK
<1> QED  BY <1>10, <1>11 DEF Covered, SizeOf

\* A drop subtracts no more than what is remembered, and forgets it.
LEMMA DropCovered ==
  ASSUME UsageTypeOK, Covered, NEW n \in Nodes, NEW i \in Instances, NEW f,
         DropMoveClaim(n, i, f)
  PROVE  UsageTypeOK' /\ Covered'
<1> DEFINE d == SizeOf(Dropped(n, i, f))
<1>1. /\ SizeOf("none") = 0
      /\ d \in Nat /\ d <= SizeOf(tracked_migrations[n][i])
  <2>1. tracked_migrations[n][i] \in Flavors \cup {"none"}
    BY DEF UsageTypeOK
  <2>2. SizeOf("none") = 0 /\ SizeOf(tracked_migrations[n][i]) \in Nat
    BY <2>1, SizeNat DEF SizeOf
  <2> QED  BY <2>2 DEF Dropped
<1>2. d <= charge[n][i] /\ charge[n][i] \in Int
  BY <1>1, SizeNat DEF DropMoveClaim, Covered, UsageTypeOK
<1>3. charge' = [charge EXCEPT ![n][i] = charge[n][i] - d]
  BY DEF DropMoveClaim
<1> HIDE DEF d
<1>4. charge' \in [Nodes -> [Instances -> Int]]
  BY <1>1, <1>2, <1>3 DEF UsageTypeOK
<1>5. tracked_migrations' = [tracked_migrations EXCEPT ![n][i] = "none"]
  BY DEF DropMoveClaim
<1>6. tracked_migrations' \in [Nodes -> [Instances -> Flavors \cup {"none"}]]
  BY <1>5 DEF UsageTypeOK
<1>7. ASSUME NEW k \in Nodes, NEW j \in Instances
      PROVE  /\ charge'[k][j] = IF k = n /\ j = i THEN charge[n][i] - d
                                ELSE charge[k][j]
             /\ \/ k = n /\ j = i /\ tracked_migrations'[k][j] = "none"
                \/ tracked_migrations'[k][j] = tracked_migrations[k][j]
  BY <1>3, <1>5 DEF UsageTypeOK
<1> QED
  BY <1>1, <1>2, <1>4, <1>6, <1>7
  DEF UsageTypeOK, Covered, SemaphoreFree, DropMoveClaim

\* Counting the instances starts the usage again from the rows; what was
\* remembered of migrations at the node is out of date until the audit ends.
LEMMA CountCovered ==
  ASSUME TypeOK, UsageTypeOK, Covered, NEW n \in Nodes, CountInstances(n),
         tracked_migrations' \in [Nodes -> [Instances -> Flavors \cup {"none"}]],
         \A k \in Nodes \ {n} : tracked_migrations'[k] = tracked_migrations[k]
  PROVE  UsageTypeOK' /\ Covered'
<1> DEFINE c == [i \in Instances |->
                   IF i \in InstancesOn(n) THEN Size[row[i].flavor] ELSE 0]
<1>1. \A i \in Instances : Size[row[i].flavor] \in Nat
  BY TrackerAssumption DEF TypeOK, TrackerTypeOK, Rows
<1>2. c \in [Instances -> Nat]
  BY <1>1
<1>3. /\ charge' = [charge EXCEPT ![n] = c]
      /\ audit' = [audit EXCEPT ![n] = "running"]
      /\ tracked_instances' = [tracked_instances EXCEPT ![n] = InstancesOn(n)]
  BY DEF CountInstances
<1> HIDE DEF c
<1>4. InstancesOn(n) \in SUBSET Instances
  BY DEF InstancesOn
<1>5. UsageTypeOK'
  BY <1>2, <1>3, <1>4 DEF UsageTypeOK
<1>6. ASSUME NEW k \in Nodes, NEW i \in Instances
      PROVE  /\ charge'[k][i] >= 0
             /\ SemaphoreFree(k)' =>
                   charge'[k][i] >= SizeOf(tracked_migrations'[k][i])
  BY <1>2, <1>3 DEF Covered, SemaphoreFree, UsageTypeOK
<1> QED  BY <1>5, <1>6 DEF Covered, SizeOf

\* The audit starts again from the rows; it is covered when it has ended.
LEMMA AuditCovered ==
  ASSUME TypeOK, UsageTypeOK, Covered, NEW n \in Nodes, Audit(n)
  PROVE  UsageTypeOK' /\ Covered'
<1>1. \A i \in Instances : row[i] \in Rows
  BY DEF TypeOK, TrackerTypeOK
<1>3. CASE AuditInstances(n)
  <2>1. CountInstances(n) /\ tracked_migrations' = tracked_migrations
    BY <1>3 DEF AuditInstances
  <2>2. tracked_migrations' \in [Nodes -> [Instances -> Flavors \cup {"none"}]]
    BY <2>1 DEF UsageTypeOK
  <2>3. \A k \in Nodes \ {n} : tracked_migrations'[k] = tracked_migrations[k]
    BY <2>1
  <2> QED  BY <2>1, <2>2, <2>3, CountCovered
<1>4. CASE AuditMigrations(n)
  <2> DEFINE t == [i \in Instances |-> Audited(n, i)]
             c == [i \in Instances |-> charge[n][i] + SizeOf(Audited(n, i))]
  <2>1. \A i \in Instances : Audited(n, i) \in Flavors \cup {"none"}
    BY <1>1, MoveTypeTyped DEF Audited
  <2>2. \A i \in Instances : SizeOf(Audited(n, i)) \in Nat
    BY <2>1, SizeNat
  <2>3. t \in [Instances -> Flavors \cup {"none"}]
    BY <2>1
  <2>4. \A i \in Instances : charge[n][i] \in Int /\ charge[n][i] >= 0
    BY DEF UsageTypeOK, Covered
  <2>5. /\ c \in [Instances -> Int]
        /\ \A i \in Instances : c[i] >= 0 /\ c[i] >= SizeOf(t[i])
    BY <2>2, <2>4
  <2>6. /\ charge' = [charge EXCEPT ![n] = c]
        /\ tracked_migrations' = [tracked_migrations EXCEPT ![n] = t]
        /\ audit' = [audit EXCEPT ![n] = "idle"]
        /\ UNCHANGED tracked_instances
    BY <1>4 DEF AuditMigrations
  <2> HIDE DEF c, t
  <2>7. UsageTypeOK'
    BY <2>3, <2>5, <2>6 DEF UsageTypeOK
  <2>8. ASSUME NEW k \in Nodes, NEW j \in Instances
        PROVE  /\ charge'[k][j] >= 0
               /\ SemaphoreFree(k)' =>
                     charge'[k][j] >= SizeOf(tracked_migrations'[k][j])
    BY <2>5, <2>6 DEF UsageTypeOK, Covered, SemaphoreFree
  <2> QED  BY <2>7, <2>8 DEF Covered, SizeOf
<1>5. CASE AuditFails(n)
  <2>1. UsageTypeOK'
    BY <1>5 DEF AuditFails, UsageTypeOK
  <2> QED  BY <1>5, <2>1
           DEF AuditFails, Covered, SemaphoreFree, SizeOf, UsageTypeOK
<1> QED  BY <1>3, <1>4, <1>5 DEF Audit

\* Every step keeps the usage covered: claims, drops and audits are the only
\* ones that touch it.
LEMMA UsageKept ==
  ASSUME TypeOK, Known, Covered, [Next]_vars
  PROVE  UsageTypeOK' /\ Covered'
<1>0. UsageTypeOK
  BY DEF TypeOK, TrackerTypeOK, UsageTypeOK
<1>1. ASSUME UNCHANGED tracker PROVE UsageTypeOK' /\ Covered'
  BY <1>0, <1>1
  DEF UsageTypeOK, Covered, SemaphoreFree, SizeOf, tracker, usage
<1>2. ASSUME NEW m \in Migs, PrepResize(m) PROVE UsageTypeOK' /\ Covered'
  <2> DEFINE i == mig[m].instance
  <2>1. i \in Instances /\ mig[m].dest \in Nodes
    BY <1>2, StepFields DEF PrepResize
  <2>2. row'[i] \in Rows
    BY <2>1, RowsTyped
  <2>3. MoveClaim(mig[m].dest, i, row'[i], mig[m])
    BY <1>2 DEF PrepResize
  <2> HIDE DEF i
  <2> QED  BY <1>0, <2>1, <2>2, <2>3, ClaimCovered
<1>3. ASSUME NEW m \in Migs, AbortClaim(m) \/ DropRevertedClaim(m)
      PROVE  UsageTypeOK' /\ Covered'
  <2>1. mig[m].instance \in Instances /\ mig[m].dest \in Nodes
    BY <1>3, StepFields DEF AbortClaim, DropRevertedClaim
  <2>2. DropMoveClaim(mig[m].dest, mig[m].instance, mig[m].new)
    BY <1>3 DEF AbortClaim, DropRevertedClaim
  <2> QED  BY <1>0, <2>1, <2>2, DropCovered
<1>4. ASSUME NEW m \in Migs, Confirmed(m) PROVE UsageTypeOK' /\ Covered'
  <2>1. mig[m].instance \in Instances /\ mig[m].source \in Nodes
    BY <1>4, StepFields DEF Confirmed
  <2>2. \E f : DropMoveClaim(mig[m].source, mig[m].instance, f)
    BY <1>4 DEF Confirmed
  <2> QED  BY <1>0, <2>1, <2>2, DropCovered
<1>5. ASSUME NEW n \in Nodes, AuditStep(n) PROVE UsageTypeOK' /\ Covered'
  BY <1>0, <1>5, AuditCovered DEF AuditStep
<1>6. ASSUME NEW m \in Migs, Source(m) PROVE UsageTypeOK' /\ Covered'
  BY <1>1, <1>4, <1>6 DEF Source, ResizeInstance, Copied, CopyFails,
     CopyRolledBack, RevertTaskState, ConfirmResize, ConfirmFails,
     FinishRevert, Reverted
<1>7. ASSUME NEW m \in Migs, Destination(m) PROVE UsageTypeOK' /\ Covered'
  BY <1>1, <1>2, <1>3, <1>7 DEF Destination, PrepRefused, PrepToSelf,
     CastResize, Reschedule, RescheduleTimesOut, PrepFails, FinishResize,
     Finished, FinishDone, FinishFails, RevertResize, RevertFails, PollInstance
<1>8. ASSUME NEW m \in Migs, Preempted(m) \/ Api(m)
      PROVE  UsageTypeOK' /\ Covered'
  BY <1>1, <1>8 DEF Preempted, Api, ConfirmRequest, ConfirmSave,
     RevertRequest, RevertSave
<1>9. CASE \/ UNCHANGED vars
           \/ \E n \in Nodes : Poll(n)
           \/ \E i \in Instances : Conductor(i) \/ \E f \in Flavors : Resize(i, f)
  BY <1>1, <1>9 DEF vars, Poll, Conductor, ColdMigrate, ColdMigrateFails, Resize
<1>10. ASSUME NEW n \in Nodes, Restart(n) PROVE UsageTypeOK' /\ Covered'
  <2>1. StartTracker(n)
    BY <1>10 DEF Restart
  <2>2. tracked_migrations' =
           [tracked_migrations EXCEPT ![n] = [i \in Instances |-> "none"]]
    BY <2>1 DEF StartTracker
  <2> QED  BY <1>0, <2>1, <2>2, CountCovered DEF StartTracker, UsageTypeOK
<1> QED  BY <1>5, <1>6, <1>7, <1>8, <1>9, <1>10 DEF Next, Compute

-----------------------------------------------------------------------------
(* The rest of the state, and the theorems *)

\* Resizes that wait, the hosts they were tried on, and the bound of crashes.
CallsTyped ==
    /\ pending \in [Instances -> Calls \cup {NoCall}]
    /\ tried \in [Migs -> SUBSET Nodes]
    /\ crashes \in 0..MaxCrashes

\* A call to the conductor names a flavor and hosts.
LEMMA CallTyped ==
  ASSUME CallsTyped, NEW i, NEW f \in Flavors, NEW hosts \in SUBSET Nodes,
         Call(i, f, hosts)
  PROVE  CallsTyped'
<1> DEFINE c == [flavor |-> f, tried |-> hosts]
<1>1. c \in Calls
  BY DEF Calls
<1>2. pending' = [pending EXCEPT ![i] = c] /\ UNCHANGED <<tried, crashes>>
  BY DEF Call
<1> HIDE DEF c
<1> QED  BY <1>1, <1>2 DEF CallsTyped

LEMMA CallsKept ==
  ASSUME TypeOK, Known, [Next]_vars
  PROVE  CallsTyped'
<1>0. CallsTyped
  BY DEF TypeOK, CallsTyped
<1>1. ASSUME UNCHANGED rest PROVE CallsTyped'
  BY <1>0, <1>1 DEF CallsTyped, rest
<1>2. ASSUME NEW i \in Instances, Conductor(i) PROVE CallsTyped'
  <2>1. ASSUME NEW m \in Migs, NEW n \in Nodes, ColdMigrate(i, m, n)
        PROVE  CallsTyped'
    <3> DEFINE hosts == pending[i].tried \cup {n}
    <3>1. hosts \in SUBSET Nodes
      BY <1>0, <2>1 DEF CallsTyped, ColdMigrate, Calls
    <3>2. /\ pending' = [pending EXCEPT ![i] = NoCall]
          /\ tried' = [tried EXCEPT ![m] = hosts]
          /\ crashes' = crashes
      BY <2>1 DEF ColdMigrate
    <3> HIDE DEF hosts
    <3> QED  BY <1>0, <3>1, <3>2 DEF CallsTyped
  <2>2. CASE ColdMigrateFails(i)
    BY <1>0, <2>2 DEF ColdMigrateFails, CallsTyped
  <2> QED  BY <1>2, <2>1, <2>2 DEF Conductor
<1>3. ASSUME NEW i \in Instances, NEW f \in Flavors, Resize(i, f)
      PROVE  CallsTyped'
  BY <1>0, <1>3, CallTyped DEF Resize
<1>4. ASSUME NEW m \in Migs, Reschedule(m) PROVE CallsTyped'
  <2>1. mig[m].instance \in Instances /\ mig[m].new \in Flavors
    BY <1>4, StepFields DEF Reschedule
  <2>2. tried[m] \in SUBSET Nodes /\ Call(mig[m].instance, mig[m].new, tried[m])
    BY <1>0, <1>4 DEF CallsTyped, Reschedule
  <2> QED  BY <1>0, <2>1, <2>2, CallTyped
<1>5. ASSUME NEW n \in Nodes, Restart(n) PROVE CallsTyped'
  <2>1. /\ crashes < MaxCrashes /\ crashes' = crashes + 1
        /\ UNCHANGED <<pending, tried>>
    BY <1>5 DEF Restart
  <2>2. MaxCrashes \in Nat
    BY ResizeAssumption
  <2> QED  BY <1>0, <2>1, <2>2 DEF CallsTyped
<1>6. ASSUME NEW m \in Migs, Source(m) \/ Preempted(m) \/ Api(m)
      PROVE  CallsTyped'
  BY <1>1, <1>6 DEF Source, ResizeInstance, Copied, CopyFails,
     CopyRolledBack, RevertTaskState, ConfirmResize, Confirmed, ConfirmFails,
     FinishRevert, Reverted, Preempted, Api, ConfirmRequest, ConfirmSave,
     RevertRequest, RevertSave
<1>7. ASSUME NEW m \in Migs, Destination(m) PROVE CallsTyped'
  BY <1>1, <1>4, <1>7 DEF Destination, PrepResize, PrepRefused, PrepToSelf,
     CastResize, AbortClaim, RescheduleTimesOut, PrepFails, FinishResize,
     Finished, FinishDone, FinishFails, RevertResize, DropRevertedClaim,
     RevertFails, PollInstance
<1>8. CASE UNCHANGED vars \/ \E n \in Nodes : Poll(n) \/ AuditStep(n)
  BY <1>1, <1>8 DEF vars, Poll, AuditStep
<1> QED  BY <1>2, <1>3, <1>5, <1>6, <1>7, <1>8 DEF Next, Compute

\* The directories of an instance, however a disk is cut in two by a crash.
Directories == SUBSET ({"disk", "backup"} \X Nodes)

LEMMA FilesTyped ==
  ASSUME TypeOK, Known, [Next]_vars
  PROVE  files' \in [Instances -> Directories]
<1> DEFINE F == files' \in [Instances -> Directories]
<1>0. files \in [Instances -> Directories]
  BY DEF TypeOK, Directories
<1>1. ASSUME UNCHANGED files PROVE F
  BY <1>0, <1>1
<1>2. ASSUME NEW m \in Migs, NEW place, At(place, m),
             MoveFiles(m) \/ RestoreFiles(m) \/ UNCHANGED files
      PROVE  F
  <2>1. mig[m].source \in Nodes /\ mig[m].dest \in Nodes
    BY <1>2, StepFields
  <2> QED  BY <1>0, <1>2, <2>1 DEF MoveFiles, RestoreFiles, Directories
<1>3. ASSUME NEW m \in Migs, Source(m) PROVE F
  <2>1. CASE Copied(m)
    BY <1>2, <2>1 DEF Copied, MaySave
  <2>2. CASE CopyFails(m)
    BY <1>2, <2>2 DEF CopyFails
  <2>3. CASE Reverted(m)
    BY <1>2, <2>3 DEF Reverted, MaySave
  <2>4. CASE Confirmed(m)
    BY <1>0, <2>4 DEF Confirmed, Directories
  <2> QED  BY <1>1, <1>3, <2>1, <2>2, <2>3, <2>4 DEF Source, ResizeInstance,
           CopyRolledBack, RevertTaskState, ConfirmResize, ConfirmFails,
           FinishRevert
<1>4. ASSUME NEW m \in Migs, Destination(m) PROVE F
  <2>1. CASE RevertResize(m)
    BY <1>0, <2>1 DEF RevertResize, Directories
  <2> QED  BY <1>1, <1>4, <2>1 DEF Destination, PrepResize, PrepRefused,
           PrepToSelf, CastResize, AbortClaim, Reschedule, RescheduleTimesOut,
           PrepFails, FinishResize, Finished, FinishDone, FinishFails,
           DropRevertedClaim, RevertFails, PollInstance
<1>5. ASSUME NEW m \in Migs, Preempted(m) PROVE F
  <2>1. MoveFiles(m) \/ RestoreFiles(m) \/ UNCHANGED files
    BY <1>5 DEF Preempted
  <2>2. \E place : At(place, m)
    BY <1>5 DEF Preempted
  <2> QED  BY <1>2, <2>1, <2>2
<1>6. ASSUME NEW m \in Migs, Api(m) PROVE F
  BY <1>1, <1>6 DEF Api, ConfirmRequest, ConfirmSave, RevertRequest, RevertSave
<1>7. ASSUME NEW n \in Nodes, Restart(n) PROVE F
  <2>1. ASSUME NEW i \in Instances, NEW cut, NEW restored
        PROVE  InitFiles(n, i, cut, restored) \in Directories
    <3>1. \A m \in Copying(n, i) : mig[m].dest \in Nodes
      BY StepFields DEF Copying
    <3>2. files[i] \in Directories
      BY <1>0
    <3>3. Interrupted(n, i, cut) \in Directories
      BY <3>1, <3>2 DEF Interrupted, Directories
    <3> QED  BY <3>3 DEF InitFiles, RolledBack, Directories
  <2>2. \E cut, restored :
           files' = [i \in Instances |-> InitFiles(n, i, cut[i], restored)]
    BY <1>7 DEF Restart
  <2> QED  BY <2>1, <2>2
<1>8. CASE \/ UNCHANGED vars
           \/ \E i \in Instances : Conductor(i) \/ \E f \in Flavors : Resize(i, f)
           \/ \E n \in Nodes : Poll(n) \/ AuditStep(n)
  BY <1>1, <1>8 DEF vars, Conductor, ColdMigrate, ColdMigrateFails, Resize,
     Poll, AuditStep
<1> QED  BY <1>3, <1>4, <1>5, <1>6, <1>7, <1>8 DEF Next, Compute

\* The inductive invariant: NoUnderflow needs Covered, which needs typed rows
\* and records, which need Known.
Inductive == TypeOK /\ Known /\ Covered

LEMMA InitInductive == Init => Inductive
<1> SUFFICES ASSUME Init PROVE Inductive
  OBVIOUS
<1>1. \A i \in Instances :
         row[i] \in Rows /\ row[i].host \in Nodes /\ row[i].flavor \in Flavors
  BY DEF Init, TrackerInit, Rows
<1>2. row \in [Instances -> Rows]
  BY DEF Init, TrackerInit
<1>3. mig \in [Migs -> Records] /\ \A m \in Migs : mig[m].status = "unused"
  BY DEF Init, TrackerInit, Blank, Records, Statuses
<1>4. \A i \in Instances : Size[row[i].flavor] \in Nat
  BY <1>1, TrackerAssumption
<1>5. UsageTypeOK
  BY <1>4 DEF Init, TrackerInit, UsageTypeOK
<1>6. Covered
  BY <1>4 DEF Init, TrackerInit, Covered, SizeOf
<1>7. /\ CallsTyped
      /\ steps = {}
      /\ files \in [Instances -> Directories]
  BY <1>1, ResizeAssumption DEF Init, CallsTyped, Directories
<1> QED  BY <1>2, <1>3, <1>5, <1>6, <1>7
         DEF Inductive, TypeOK, TrackerTypeOK, UsageTypeOK, Known, CallsTyped,
             Directories

LEMMA NextInductive == Inductive /\ [Next]_vars => Inductive'
<1> SUFFICES ASSUME Inductive, [Next]_vars PROVE Inductive'
  OBVIOUS
<1>1. TypeOK /\ Known /\ Covered
  BY DEF Inductive
<1>2. row' \in [Instances -> Rows]
  BY <1>1, RowsTyped
<1>3. RecordsKept /\ StepsKept
  BY <1>1, RecordsTyped, StepsTyped
<1>4. UsageTypeOK' /\ Covered'
  BY <1>1, UsageKept
<1>5. CallsTyped' /\ files' \in [Instances -> Directories]
  BY <1>1, CallsKept, FilesTyped
<1>6. TypeOK'
  BY <1>2, <1>3, <1>4, <1>5
  DEF TypeOK, TrackerTypeOK, UsageTypeOK, RecordsKept, StepsKept, CallsTyped,
      Directories, Calls, NoCall, Places
<1>7. Known'
  BY <1>3 DEF Known, RecordsKept, StepsKept
<1> QED  BY <1>4, <1>6, <1>7 DEF Inductive

\* No state of resize and cold migration is ill typed, whatever overlaps and
\* fails: no handler copies to an instance a field of a record that was not
\* filled in.
THEOREM ResizeTypeCorrect == Spec => []TypeOK
<1>1. Inductive => TypeOK
  BY DEF Inductive
<1> QED  BY <1>1, InitInductive, NextInductive, PTL DEF Spec

\* No tracker ever gives back more of an instance than it has added: claims,
\* aborts, confirmations and reverts may come in any order and between the two
\* queries of an audit, for any number of nodes, instances and resizes.
THEOREM UsageNeverNegative == Spec => []NoUnderflow
<1>1. Inductive => NoUnderflow
  BY DEF Inductive, Covered, NoUnderflow
<1> QED  BY <1>1, InitInductive, NextInductive, PTL DEF Spec

\* Between audits the usage covers every move that the tracker remembers, so
\* that the drop that is still to come finds what it subtracts.
THEOREM TrackedMovesAreCovered == Spec => []Covered
<1>1. Inductive => Covered
  BY DEF Inductive
<1> QED  BY <1>1, InitInductive, NextInductive, PTL DEF Spec
=============================================================================
