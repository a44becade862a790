-------------------------- MODULE ResourceTracker --------------------------
(***************************************************************************)
(* The resource trackers of the compute nodes and the rows of the database *)
(* they account for.                                                       *)
(*                                                                         *)
(* A tracker keeps two dictionaries, tracked_instances and                 *)
(* tracked_migrations, and the usage they add up to. The code only ever    *)
(* adds a flavor's size to a usage or subtracts it, so the usage is kept   *)
(* apart here for each instance: charge[n][i] is what instance i adds to   *)
(* memory_mb_used of node n; disk and vcpus move with it. A node is a host *)
(* with its one libvirt node.                                              *)
(*                                                                         *)
(* Everything runs under COMPUTE_RESOURCE_SEMAPHORE. The periodic audit    *)
(* holds it across its two queries, while other services write the rows:   *)
(* AuditInstances and AuditMigrations are steps of their own.              *)
(***************************************************************************)
EXTENDS Integers, FiniteSets

CONSTANTS
    Nodes,          \* compute nodes
    Instances,
    Flavors,
    Size,           \* memory of a flavor, overhead included
    MaxMigrations   \* bound: migration records created in a behaviour

ASSUME TrackerAssumption ==
    /\ "none" \notin Nodes \cup Flavors \cup Instances
    /\ Size \in [Flavors -> Nat]
    /\ MaxMigrations \in Nat

VARIABLES
    row,                \* the instances table
    mig,                \* the migrations table
    tracked_instances,  \* keys of ResourceTracker.tracked_instances
    tracked_migrations, \* flavor in ResourceTracker.tracked_migrations
    charge,             \* what each instance adds to a node's usage
    audit               \* the audit of each node

database == <<row, mig>>
usage    == <<tracked_instances, tracked_migrations, charge>>
tracker  == <<usage, audit>>

-----------------------------------------------------------------------------

Migs == 1 .. MaxMigrations

Rows == [vm_state   : {"active", "resized", "error"},
         task_state : {"none", "resize_prep", "resize_migrating",
                       "resize_migrated", "resize_finish",
                       "resize_reverting"},
         host       : Nodes,
         flavor     : Flavors,
         old_flavor : Flavors \cup {"none"},
         new_flavor : Flavors \cup {"none"}]

\* "unsaved": a resize on its way to the node that will create the record.
Statuses == {"unused", "unsaved", "pre-migrating", "migrating",
             "post-migrating", "finished", "confirming", "confirmed",
             "reverting", "reverted", "error"}

\* source_compute with source_node, dest_compute, dest_node, the two flavors.
Records == [instance  : Instances \cup {"none"},
            source    : Nodes \cup {"none"},
            dest      : Nodes \cup {"none"},
            dest_node : Nodes \cup {"none"},
            old       : Flavors \cup {"none"},
            new       : Flavors \cup {"none"},
            status    : Statuses]

Blank == [instance |-> "none", source |-> "none", dest |-> "none",
          dest_node |-> "none", old |-> "none", new |-> "none",
          status |-> "unused"]

Incoming(n, g) == g.dest = n /\ g.dest_node = n
Outbound(n, g) == g.source = n

TrackerTypeOK ==
    /\ row \in [Instances -> Rows]
    /\ mig \in [Migs -> Records]
    /\ tracked_instances \in [Nodes -> SUBSET Instances]
    /\ tracked_migrations \in [Nodes -> [Instances -> Flavors \cup {"none"}]]
    /\ charge \in [Nodes -> [Instances -> Int]]
    /\ audit \in [Nodes -> {"idle", "running", "failed"}]

SizeOf(f) == IF f = "none" THEN 0 ELSE Size[f]

\* One instance active on each row, counted where it runs, and nothing else.
TrackerInit ==
    /\ row \in [Instances -> {r \in Rows : /\ r.vm_state = "active"
                                           /\ r.task_state = "none"
                                           /\ r.old_flavor = "none"
                                           /\ r.new_flavor = "none"}]
    /\ mig = [m \in Migs |-> Blank]
    /\ tracked_instances = [n \in Nodes |->
                               {i \in Instances : row[i].host = n}]
    /\ tracked_migrations = [n \in Nodes |-> [i \in Instances |-> "none"]]
    /\ charge = [n \in Nodes |-> [i \in Instances |->
                    IF row[i].host = n THEN Size[row[i].flavor] ELSE 0]]
    /\ audit = [n \in Nodes |-> "idle"]

\* COMPUTE_RESOURCE_SEMAPHORE of the node is free.
SemaphoreFree(n) == audit[n] # "running"

-----------------------------------------------------------------------------
(* The queries *)

\* InstanceList.get_by_host_and_node.
InstancesOn(n) == {i \in Instances : row[i].host = n}

\* migration_get_in_progress_by_host_and_node.
InProgress(n) ==
    {m \in Migs : /\ mig[m].status \notin {"unused", "unsaved", "confirmed",
                                           "reverted", "error"}
                  /\ Incoming(n, mig[m]) \/ Outbound(n, mig[m])}

InResizeState(r) ==
    \/ r.vm_state = "resized"
    \/ /\ r.vm_state = "active"
       /\ r.task_state \in {"resize_prep", "resize_migrating",
                            "resize_migrated", "resize_finish"}

\* The records of an instance that the audit of a node chooses from.
Candidates(n, i) == {m \in InProgress(n) : /\ mig[m].instance = i
                                           /\ InResizeState(row[i])}

\* updated_at is NULL until a record is saved again after its creation, and
\* a datetime does not compare with None: a TypeError.
Untouched(m) == mig[m].status = "pre-migrating"

Comparable(ms) == (\A m \in ms : Untouched(m)) \/ (\A m \in ms : ~Untouched(m))

\* Of records that compare the one saved last, which is the youngest: an
\* instance has no new record while an older one is being saved.
Latest(ms) == CHOOSE m \in ms : \A k \in ms : k <= m

-----------------------------------------------------------------------------
(* _update_usage_from_migration *)

\* _get_instance_type: flavors are stashed on a resize; a migration keeps the
\* flavor of the instance.
NewType(r, g) == IF g.old # g.new THEN r.new_flavor ELSE r.flavor
OldType(r, g) == IF g.old # g.new THEN r.old_flavor ELSE r.flavor

\* A resize on its own node holds the flavor the instance is not in.
OtherType(r, g) == IF r.flavor = g.old THEN NewType(r, g) ELSE OldType(r, g)

\* Bug: an outbound migration holds nothing.
MoveType_NoOutbound(n, r, g, record) ==
    IF Incoming(n, g) /\ Outbound(n, g) THEN OtherType(r, g)
    ELSE IF Incoming(n, g) /\ ~record THEN NewType(r, g)
    ELSE "none"

\* The flavor a migration holds at a node, beside what the instance itself
\* holds there if it is tracked ("record").
MoveType(n, r, g, record) ==
    IF Incoming(n, g) /\ Outbound(n, g) THEN OtherType(r, g)
    ELSE IF Incoming(n, g) /\ ~record THEN NewType(r, g)
    ELSE IF Outbound(n, g) /\ ~record THEN OldType(r, g)
    ELSE "none"

\* A usage is added and remembered for a flavor that exists.
Hold(n, i, f) ==
    /\ tracked_migrations' = IF f = "none" THEN tracked_migrations
                             ELSE [tracked_migrations EXCEPT ![n][i] = f]
    /\ charge' = [charge EXCEPT ![n][i] = @ + SizeOf(f)]

-----------------------------------------------------------------------------
(* Claims *)

\* _move_claim of a record g whose test passed, for the instance as row r.
MoveClaim(n, i, r, g) ==
    /\ SemaphoreFree(n)
    /\ Hold(n, i, MoveType(n, r, g, i \in tracked_instances[n]))
    /\ UNCHANGED <<tracked_instances, audit>>

\* Bug: the usage is subtracted whether the migration is tracked or not.
Dropped_Untracked(n, i, f) == f

\* What drop_move_claim gives back: the tracked flavor, if it is the one named.
Dropped(n, i, f) == IF tracked_migrations[n][i] = f THEN f ELSE "none"

DropMoveClaim(n, i, f) ==
    /\ SemaphoreFree(n)
    /\ charge' = [charge EXCEPT ![n][i] = @ - SizeOf(Dropped(n, i, f))]
    /\ tracked_migrations' = [tracked_migrations EXCEPT ![n][i] = "none"]
    /\ UNCHANGED <<tracked_instances, audit>>

-----------------------------------------------------------------------------
(* The audit, _update_available_resource *)

\* _update_usage_from_instances: start again from the instances of the node.
CountInstances(n) ==
    /\ audit' = [audit EXCEPT ![n] = "running"]
    /\ tracked_instances' = [tracked_instances EXCEPT ![n] = InstancesOn(n)]
    /\ charge' = [charge EXCEPT ![n] = [i \in Instances |->
                     IF i \in InstancesOn(n) THEN Size[row[i].flavor] ELSE 0]]

AuditInstances(n) ==
    /\ SemaphoreFree(n)
    /\ CountInstances(n)
    /\ UNCHANGED <<database, tracked_migrations>>

\* A tracker that has just been made begins with an audit.
StartTracker(n) ==
    /\ CountInstances(n)
    /\ tracked_migrations' = [tracked_migrations EXCEPT ![n] =
                                 [i \in Instances |-> "none"]]

\* What the audit holds for the migrations of an instance.
Audited(n, i) ==
    IF Candidates(n, i) = {} THEN "none"
    ELSE MoveType(n, row[i], mig[Latest(Candidates(n, i))],
                  i \in tracked_instances[n])

\* _update_usage_from_migrations: the dictionary is rebuilt.
AuditMigrations(n) ==
    /\ audit[n] = "running"
    /\ \A i \in Instances : Comparable(Candidates(n, i))
    /\ audit' = [audit EXCEPT ![n] = "idle"]
    /\ tracked_migrations' = [tracked_migrations EXCEPT ![n] =
                                 [i \in Instances |-> Audited(n, i)]]
    /\ charge' = [charge EXCEPT ![n] = [i \in Instances |->
                     charge[n][i] + SizeOf(Audited(n, i))]]
    /\ UNCHANGED <<database, tracked_instances>>

\* The comparison of updated_at raises: the dictionary is empty by then and
\* the audit is given up until its next period.
AuditFails(n) ==
    /\ audit[n] = "running"
    /\ ~\A i \in Instances : Comparable(Candidates(n, i))
    /\ audit' = [audit EXCEPT ![n] = "failed"]
    /\ tracked_migrations' = [tracked_migrations EXCEPT ![n] =
                                 [i \in Instances |-> "none"]]
    /\ UNCHANGED <<database, tracked_instances, charge>>

Audit(n) == AuditInstances(n) \/ AuditMigrations(n) \/ AuditFails(n)
=============================================================================
