-------------------------- MODULE VolumeAttachment --------------------------
(***************************************************************************)
(* One Cinder volume (not multiattach, not migrating) that users attach to *)
(* instances, detach and delete while instances are terminated: Nova's API *)
(* and compute services, Cinder's API and its volume service.              *)
(*                                                                         *)
(* A request goes through the places of its kind:                          *)
(*   attach     name  check  reserve  sent  plug  replug  attach           *)
(*              unconnect  unattach  undetach  undetached  unreserve       *)
(*   detach     begin  begin-save  unplug  disconnect  detached            *)
(*   terminate  kill  killing  killed                                      *)
(*   delete     delete-save  delete  deleting                              *)
(* and calls of cinder-volume sit in calls: queued, or half way served.    *)
(*                                                                         *)
(* Cinder's API reads a volume and updates it in two transactions, and its *)
(* callers act on what they read. Overlap, Races and Faults say how much   *)
(* of this may happen, since the promises do not survive all of it.        *)
(***************************************************************************)
EXTENDS Naturals, FiniteSets

CONSTANTS
    Instances,  \* instances, all on hosts of their own
    Requests,   \* bound: the requests made in a behaviour
    Users,      \* the kinds of requests that are made
    Overlap,    \* is a request made before the last one is over?
    Races,      \* where another request may come between a read and a write
    Faults      \* what may fail

Kinds == {"attach", "detach", "terminate", "delete"}

ASSUME SetsAssumption  == IsFiniteSet(Instances) /\ IsFiniteSet(Requests)
ASSUME UsersAssumption == Users \subseteq Kinds /\ Overlap \in BOOLEAN
ASSUME RacesAssumption ==
    Races \subseteq {"bdm", "reserve", "detach", "delete", "terminate"}
ASSUME FaultsAssumption ==
    Faults \subseteq {"cast", "connect", "plug", "unplug", "rollback",
                      "terminate", "backend", "timeout", "driver"}

NoOp == [kind |-> "none", inst |-> "none"]

VARIABLES
    status,   \* volumes.status in Cinder
    attached, \* is volumes.attach_status "attached"?
    att,      \* attach_status of the volume_attachment each request made
    bdm,      \* Nova's block_device_mapping each request made
    guests,   \* the instances whose domain has the disk
    alive,    \* the instances nobody asked to delete
    op,       \* what each request is
    pc,       \* where it is
    held,     \* the BDMs a detach or a termination has read
    calls,    \* calls to cinder-volume: <<step, request, attachment's request>>
    reply     \* answer to the call a request waits for

cinder == <<status, attached, att>>
nova   == <<bdm, guests, alive>>
vars   == <<status, attached, att, bdm, guests, alive, op, pc, held, calls,
            reply>>

-----------------------------------------------------------------------------
(* Types and helpers *)

Places == {"unused", "name", "check", "reserve", "sent", "plug", "replug",
           "attach", "unconnect", "unattach", "undetach", "undetached",
           "unreserve", "begin", "begin-save", "unplug", "disconnect",
           "detached", "kill", "killing", "killed", "delete-save", "delete",
           "deleting", "over"}

TypeOK ==
    /\ status \in {"available", "attaching", "in-use", "detaching", "deleting",
                   "error_deleting", "deleted"}
    /\ attached \in BOOLEAN
    /\ att \in [Requests -> {"none", "attaching", "attached", "error_attaching",
                            "error_detaching"}]
    /\ bdm \in [Requests -> {"none", "reserved", "connected"}]
    /\ guests \in SUBSET Instances
    /\ alive \in SUBSET Instances
    /\ op \in [Requests -> {NoOp} \cup [kind : Kinds,
                                        inst : Instances \cup {"none"}]]
    /\ pc \in [Requests -> Places]
    /\ held \in [Requests -> SUBSET Requests]
    /\ calls \in SUBSET ({"attach", "attaching", "detach", "detaching"}
                            \X Requests \X Requests)
    /\ reply \in [Requests -> {"none", "ok", "error"}]

Inst(r) == op[r].inst
At(r, place) == pc[r] = place
Goto(r, next) == pc' = [pc EXCEPT ![r] = next]
SetBdm(r, b) == bdm' = [bdm EXCEPT ![r] = b]

\* volume_get raises VolumeNotFound.
Gone == status = "deleted"

\* volume_attachment_get_used_by_volume_id.
Used == {a \in Requests : att[a] # "none"}

\* The view of the API lists the attached attachments of an attached volume.
Shown == {a \in Requests : attached /\ att[a] = "attached"}

\* The BDMs of the volume that belong to an instance.
BdmsOf(i) == {k \in Requests : bdm[k] # "none" /\ Inst(k) = i}

\* The requests inside @utils.synchronized(instance.uuid) on the compute host.
Locking == {"plug", "replug", "attach", "unconnect", "unattach", "undetach",
            "undetached", "unreserve", "killing", "killed"}

InstanceLocked(i) == \E r \in Requests : Inst(r) = i /\ pc[r] \in Locking

\* API.unreserve_volume.
Unreserve ==
    status' = IF status = "attaching" THEN IF Used # {} THEN "in-use" ELSE "available"
              ELSE status

\* A request for cinder-volume is queued; its caller waits.
Call(what, r) ==
    /\ calls' = calls \cup {<<what, r, r>>}
    /\ reply' = [reply EXCEPT ![r] = "none"]

Waits(r) == pc[r] \in {"attach", "undetached", "detached", "killed"}

\* The answer reaches a caller that still waits.
Answer(r, answer) ==
    reply' = [reply EXCEPT ![r] = IF Waits(r) THEN answer ELSE @]

\* The caller has its answer, or the RPC call behind it times out.
Answered(r, answers) ==
    \/ reply[r] \in answers
    \/ reply[r] = "none" /\ "timeout" \in Faults /\ "error" \in answers

Init ==
    /\ status = "available" /\ attached = FALSE
    /\ att = [r \in Requests |-> "none"]
    /\ bdm = [r \in Requests |-> "none"]
    /\ guests = {}
    /\ alive = Instances
    /\ op = [r \in Requests |-> NoOp]
    /\ pc = [r \in Requests |-> "unused"]
    /\ held = [r \in Requests |-> {}]
    /\ calls = {}
    /\ reply = [r \in Requests |-> "none"]

Idle == calls = {} /\ \A r \in Requests : pc[r] \in {"unused", "over"}

\* A request of a kind is made.
New(r, kind, i) ==
    /\ At(r, "unused")
    /\ Overlap \/ Idle
    /\ kind \in Users
    /\ op' = [op EXCEPT ![r] = [kind |-> kind, inst |-> i]]

-----------------------------------------------------------------------------
(* Attach: nova-api, Cinder's reserve *)

\* API.attach_volume, which calls the compute host to reserve a device name.
AttachVolume(r, i) ==
    /\ New(r, "attach", i)
    /\ i \in alive
    /\ Goto(r, "name")
    /\ UNCHANGED <<cinder, nova, held, calls, reply>>

\* reserve_block_device_name makes the BDM; nova-api may have given up by then
\* and leaves it.
ReserveBlockDeviceName(r) ==
    /\ At(r, "name")
    /\ ~InstanceLocked(Inst(r))
    /\ SetBdm(r, "reserved")
    /\ \/ Goto(r, "check")
       \/ "timeout" \in Faults /\ Goto(r, "over")
    /\ UNCHANGED <<cinder, guests, alive, op, held, calls, reply>>

\* Bug: only a volume in use is refused.
Reservable_NotInUse == status # "in-use"

\* check_attach and the check of reserve_volume, the read half.
Reservable == status = "available" /\ Shown = {}

ReserveRefused(r) ==
    /\ At(r, "check")
    /\ ~Reservable
    /\ SetBdm(r, "none")
    /\ Goto(r, "over")
    /\ UNCHANGED <<cinder, guests, alive, op, held, calls, reply>>

\* Cinder reads the volume and then updates it; the race is between the two.
ReserveVolume(r) ==
    /\ At(r, "check")
    /\ Reservable
    /\ IF "reserve" \in Races
       THEN Goto(r, "reserve") /\ UNCHANGED status
       ELSE Goto(r, "sent") /\ status' = "attaching"
    /\ UNCHANGED <<attached, att, nova, op, held, calls, reply>>

ReserveSave(r) ==
    /\ At(r, "reserve")
    /\ IF Gone
       THEN SetBdm(r, "none") /\ Goto(r, "over") /\ UNCHANGED status
       ELSE status' = "attaching" /\ Goto(r, "sent") /\ UNCHANGED bdm
    /\ UNCHANGED <<attached, att, guests, alive, op, held, calls, reply>>

\* The cast of attach_volume raises: the BDM goes, the reservation stays.
CastFails(r) ==
    /\ "cast" \in Faults
    /\ At(r, "sent")
    /\ SetBdm(r, "none")
    /\ Goto(r, "over")
    /\ UNCHANGED <<cinder, guests, alive, op, held, calls, reply>>

-----------------------------------------------------------------------------
(* Attach: nova-compute *)

\* DriverVolumeBlockDevice.attach reads the volume and connects the host. What
\* it read decides whether Cinder is asked to attach ("replug": it is not).
Connect(r) ==
    /\ At(r, "sent")
    /\ ~InstanceLocked(Inst(r))
    /\ \/ ~Gone /\ Goto(r, IF Shown = {} THEN "plug" ELSE "replug")
       \/ (Gone \/ "connect" \in Faults) /\ Goto(r, "unreserve")
    /\ UNCHANGED <<cinder, nova, op, held, calls, reply>>

\* The domain exists until the instance is terminated.
Terminated(i) ==
    \E r \in Requests : op[r] = [kind |-> "terminate", inst |-> i]
                        /\ pc[r] \notin {"kill"}

\* The driver gives the guest the disk, the BDM is saved with its connection,
\* and Cinder is called.
Plug(r) ==
    /\ pc[r] \in {"plug", "replug"}
    /\ ~Terminated(Inst(r))
    /\ guests' = guests \cup {Inst(r)}
    /\ SetBdm(r, "connected")
    /\ IF At(r, "plug")
       THEN Goto(r, "attach") /\ Call("attach", r)
       ELSE Goto(r, "over") /\ UNCHANGED <<calls, reply>>
    /\ UNCHANGED <<cinder, alive, op, held>>

PlugFails(r) ==
    /\ pc[r] \in {"plug", "replug"}
    /\ "plug" \in Faults \/ Terminated(Inst(r))
    /\ Goto(r, "unconnect")
    /\ UNCHANGED <<cinder, nova, op, held, calls, reply>>

Attached(r) ==
    /\ At(r, "attach")
    /\ reply[r] = "ok"
    /\ Goto(r, "over")
    /\ UNCHANGED <<cinder, nova, op, held, calls, reply>>

\* The driver takes the disk back; when that fails it is only logged.
AttachFailed(r) ==
    /\ At(r, "attach")
    /\ Answered(r, {"error"})
    /\ \/ guests' = guests \ {Inst(r)}
       \/ "rollback" \in Faults /\ UNCHANGED guests
    /\ Goto(r, "unattach")
    /\ UNCHANGED <<cinder, bdm, alive, op, held, calls, reply>>

\* terminate_connection, whose API part gives the reservation back; an attach
\* that Cinder may have completed goes on with a detach.
Unconnect(r) ==
    /\ pc[r] \in {"unconnect", "unattach"}
    /\ \/ /\ ~Gone
          /\ Unreserve
          /\ Goto(r, IF At(r, "unattach") THEN "undetach" ELSE "unreserve")
       \/ /\ Gone \/ "terminate" \in Faults
          /\ Goto(r, "unreserve")
          /\ UNCHANGED status
    /\ UNCHANGED <<attached, att, nova, op, held, calls, reply>>

Undetach(r) ==
    /\ At(r, "undetach")
    /\ Call("detach", r)
    /\ Goto(r, "undetached")
    /\ UNCHANGED <<cinder, nova, op, held>>

Undetached(r) ==
    /\ At(r, "undetached")
    /\ Answered(r, {"ok", "error"})
    /\ Goto(r, "unreserve")
    /\ UNCHANGED <<cinder, nova, op, held, calls, reply>>

\* _attach_volume gives the reservation back, too, and the BDM goes.
UnreserveVolume(r) ==
    /\ At(r, "unreserve")
    /\ Unreserve
    /\ SetBdm(r, "none")
    /\ Goto(r, "over")
    /\ UNCHANGED <<attached, att, guests, alive, op, held, calls, reply>>

-----------------------------------------------------------------------------
(* Detach *)

\* Bug: whose attachment it is is not looked at.
Detachable_Anyones(i) ==
    i \in alive /\ BdmsOf(i) # {} /\ Shown # {} /\ status # "available"

\* API.detach_volume: the instance has a BDM of the volume, and the volume is
\* shown as attached to it.
Detachable(i) ==
    /\ i \in alive
    /\ BdmsOf(i) # {}
    /\ \E a \in Shown : Inst(a) = i
    /\ status # "available"

\* begin_detaching, the read half.
Beginnable == status = "in-use" /\ attached

\* Nova reads, Cinder reads, Cinder updates; the race is between them.
DetachVolume(r, i) ==
    /\ New(r, "detach", i)
    /\ Detachable(i)
    /\ IF "detach" \in Races
       THEN Goto(r, "begin") /\ UNCHANGED status
       ELSE Beginnable /\ Goto(r, "unplug") /\ status' = "detaching"
    /\ UNCHANGED <<attached, att, nova, held, calls, reply>>

BeginDetaching(r) ==
    /\ At(r, "begin")
    /\ Goto(r, IF Beginnable THEN "begin-save" ELSE "over")
    /\ UNCHANGED <<cinder, nova, op, held, calls, reply>>

BeginSave(r) ==
    /\ At(r, "begin-save")
    /\ IF Gone THEN Goto(r, "over") /\ UNCHANGED status
               ELSE Goto(r, "unplug") /\ status' = "detaching"
    /\ UNCHANGED <<attached, att, nova, op, held, calls, reply>>

\* A BDM whose request the volume's check may yet refuse is there to be found.
Unchecked == "bdm" \notin Races /\ \E k \in Requests : At(k, "check")

BdmsFound == {k \in Requests : bdm[k] # "none"}

\* So is the BDM that an instance keeps until its termination is done, when the
\* volume may be attached to another one.
Abandoned == "bdm" \notin Races /\ \E k \in BdmsFound : Terminated(Inst(k))

\* ComputeManager._detach_volume: the first BDM of the volume, whosever it is,
\* and then the driver; a guest without the disk (DiskNotFound) is ignored.
Unplug(r) ==
    /\ At(r, "unplug")
    /\ ~Unchecked /\ ~Abandoned
    /\ \E k \in BdmsFound :
         /\ bdm[k] = "connected"
         /\ guests' = guests \ {Inst(r)}
         /\ held' = [held EXCEPT ![r] = {k}]
    /\ Goto(r, "disconnect")
    /\ UNCHANGED <<cinder, bdm, alive, op, calls, reply>>

\* Bugs: the status is left, or becomes one that Cinder does not know.
RollDetaching_Never == status
RollDetaching_Error == IF status = "detaching" THEN "attached" ELSE status

\* API.roll_detaching.
RollDetaching == IF status = "detaching" THEN "in-use" ELSE status

\* The driver raises and the detach is rolled back.
UnplugFails(r) ==
    /\ At(r, "unplug")
    /\ "unplug" \in Faults
    /\ \E k \in BdmsFound : bdm[k] = "connected"
    /\ status' = RollDetaching
    /\ Goto(r, "over")
    /\ UNCHANGED <<attached, att, nova, op, held, calls, reply>>

\* No BDM, or one without connection_info: raises before any of it.
UnplugRaises(r) ==
    /\ At(r, "unplug")
    /\ ~Unchecked /\ ~Abandoned
    /\ BdmsFound = {} \/ \E k \in BdmsFound : bdm[k] = "reserved"
    /\ Goto(r, "over")
    /\ UNCHANGED <<cinder, nova, op, held, calls, reply>>

\* terminate_connection, bdm.destroy and the call of detach.
Disconnect(r) ==
    /\ At(r, "disconnect")
    /\ \/ /\ ~Gone
          /\ Unreserve
          /\ bdm' = [k \in Requests |-> IF k \in held[r] THEN "none" ELSE bdm[k]]
          /\ Call("detach", r)
          /\ Goto(r, "detached")
       \/ /\ Gone \/ "terminate" \in Faults
          /\ Goto(r, "over")
          /\ UNCHANGED <<status, bdm, calls, reply>>
    /\ UNCHANGED <<attached, att, guests, alive, op, held>>

Detached(r) ==
    /\ At(r, "detached")
    /\ Answered(r, {"ok", "error"})
    /\ Goto(r, "over")
    /\ UNCHANGED <<cinder, nova, op, held, calls, reply>>

-----------------------------------------------------------------------------
(* Termination of an instance *)

\* Another request about the instance is under way.
Busy(i) == \E r \in Requests : Inst(r) = i /\ pc[r] # "over"

\* API._delete reads the BDMs and passes them to the host, where they may be
\* stale; they name their volume, so the host does not read them again.
TerminateInstance(r, i) ==
    /\ New(r, "terminate", i)
    /\ i \in alive
    /\ "terminate" \in Races \/ ~Busy(i)
    /\ alive' = alive \ {i}
    /\ held' = [held EXCEPT ![r] = BdmsOf(i)]
    /\ Goto(r, "kill")
    /\ UNCHANGED <<cinder, bdm, guests, calls, reply>>

\* _shutdown_instance: the guest is destroyed ...
Kill(r) ==
    /\ At(r, "kill")
    /\ ~InstanceLocked(Inst(r))
    /\ guests' = guests \ {Inst(r)}
    /\ Goto(r, "killing")
    /\ UNCHANGED <<cinder, bdm, alive, op, held, calls, reply>>

\* ... for each BDM the volume is disconnected and detached ...
KillConnection(r) ==
    /\ At(r, "killing")
    /\ \E k \in held[r] : held' = [held EXCEPT ![r] = @ \ {k}]
    /\ \/ /\ ~Gone
          /\ Unreserve
          /\ Call("detach", r)
          /\ Goto(r, "killed")
       \/ /\ Gone \/ "terminate" \in Faults
          /\ UNCHANGED <<status, calls, reply, pc>>
    /\ UNCHANGED <<attached, att, nova, op>>

Killed(r) ==
    /\ At(r, "killed")
    /\ Answered(r, {"ok", "error"})
    /\ Goto(r, "killing")
    /\ UNCHANGED <<cinder, nova, op, held, calls, reply>>

\* ... and _complete_deletion destroys the BDMs: those that were read, which are
\* all, unless a request about the instance overtakes it (Races "terminate").
TerminateDone(r) ==
    /\ At(r, "killing")
    /\ held[r] = {}
    /\ bdm' = [k \in Requests |-> IF Inst(k) = Inst(r) THEN "none" ELSE bdm[k]]
    /\ Goto(r, "over")
    /\ UNCHANGED <<cinder, guests, alive, op, held, calls, reply>>

-----------------------------------------------------------------------------
(* Deletion of the volume *)

Deletable == ~attached /\ status = "available"

DeleteVolume(r) ==
    /\ New(r, "delete", "none")
    /\ Deletable
    /\ IF "delete" \in Races
       THEN Goto(r, "delete-save") /\ UNCHANGED status
       ELSE Goto(r, "delete") /\ status' = "deleting"
    /\ UNCHANGED <<attached, att, nova, held, calls, reply>>

DeleteSave(r) ==
    /\ At(r, "delete-save")
    /\ IF Gone THEN Goto(r, "over") /\ UNCHANGED status
               ELSE Goto(r, "delete") /\ status' = "deleting"
    /\ UNCHANGED <<attached, att, nova, op, held, calls, reply>>

\* VolumeManager.delete_volume: it raises for a volume attached meanwhile.
CinderDelete(r) ==
    /\ At(r, "delete")
    /\ Goto(r, IF attached \/ Gone THEN "over" ELSE "deleting")
    /\ UNCHANGED <<cinder, nova, op, held, calls, reply>>

\* Deleted, busy (VolumeIsBusy), or any other error of the driver.
CinderDeleted(r) ==
    /\ At(r, "deleting")
    /\ \/ status' = "deleted"
       \/ "driver" \in Faults /\ ~Gone /\ status' \in {"available", "error_deleting"}
    /\ Goto(r, "over")
    /\ UNCHANGED <<attached, att, nova, op, held, calls, reply>>

-----------------------------------------------------------------------------
(* cinder-volume: attach and detach have a lock each *)

\* An attachment names its instance once it has been attached.
Named(s) == s \in {"attached", "error_detaching"}

\* A volume in use is refused; an attachment of the instance is kept.
Attachable == ~Gone /\ status # "in-use"
Kept(r) == {a \in Used : Named(att[a]) /\ Inst(a) = Inst(r)}

\* do_attach, up to the attachment it creates.
CinderAttach(r) ==
    /\ <<"attach", r, r>> \in calls
    /\ \A c \in calls : c[1] # "attaching"
    /\ IF Attachable /\ Kept(r) = {}
       THEN /\ att' = [att EXCEPT ![r] = "attaching"]
            /\ calls' = (calls \ {<<"attach", r, r>>}) \cup {<<"attaching", r, r>>}
            /\ UNCHANGED <<status, reply>>
       ELSE /\ status' = IF Attachable THEN "in-use" ELSE status
            /\ Answer(r, IF Attachable THEN "ok" ELSE "error")
            /\ calls' = calls \ {<<"attach", r, r>>}
            /\ UNCHANGED att
    /\ UNCHANGED <<attached, nova, op, pc, held>>

\* The driver, and volume_attached, which raises if the attachment is gone.
CinderAttached(r) ==
    /\ <<"attaching", r, r>> \in calls
    /\ calls' = calls \ {<<"attaching", r, r>>}
    /\ \/ /\ att[r] # "none" /\ ~Gone
          /\ att' = [att EXCEPT ![r] = "attached"]
          /\ attached' = TRUE
          /\ status' = "in-use"
          /\ Answer(r, "ok")
       \/ /\ att[r] = "none" \/ Gone
          /\ Answer(r, "error")
          /\ UNCHANGED cinder
       \/ /\ "backend" \in Faults
          /\ att' = [att EXCEPT ![r] = IF @ = "none" THEN @ ELSE "error_attaching"]
          /\ Answer(r, "error")
          /\ UNCHANGED <<status, attached>>
    /\ UNCHANGED <<nova, op, pc, held>>

\* detach_volume without an attachment_id: the only attachment is detached,
\* whosever it is; without one the volume is available.
CinderDetach(r) ==
    /\ <<"detach", r, r>> \in calls
    /\ \A c \in calls : c[1] # "detaching"
    /\ \/ /\ ~Gone /\ Used = {}
          /\ status' = "available"
          /\ attached' = FALSE
          /\ Answer(r, "ok")
          /\ calls' = calls \ {<<"detach", r, r>>}
       \/ /\ Gone \/ Cardinality(Used) > 1
          /\ Answer(r, "error")
          /\ calls' = calls \ {<<"detach", r, r>>}
          /\ UNCHANGED <<status, attached>>
       \/ /\ ~Gone
          /\ \E a \in Requests :
               /\ Used = {a}
               /\ calls' = (calls \ {<<"detach", r, r>>})
                             \cup {<<"detaching", r, a>>}
          /\ UNCHANGED <<status, attached, reply>>
    /\ UNCHANGED <<att, nova, op, pc, held>>

\* The driver, volume_detached, and the export is removed.
CinderDetached(r, a) ==
    /\ <<"detaching", r, a>> \in calls
    /\ calls' = calls \ {<<"detaching", r, a>>}
    /\ \/ /\ ~Gone
          /\ att' = [att EXCEPT ![a] = "none"]
          /\ attached' = (Used \ {a} # {})
          /\ status' = IF Used \ {a} # {} THEN "in-use" ELSE "available"
          /\ Answer(r, "ok")
       \/ /\ Gone \/ "backend" \in Faults
          /\ att' = [att EXCEPT ![a] = IF Named(@) THEN "error_detaching" ELSE @]
          /\ Answer(r, "error")
          /\ UNCHANGED <<status, attached>>
    /\ UNCHANGED <<nova, op, pc, held>>

-----------------------------------------------------------------------------

Attach(r) ==
    \/ ReserveBlockDeviceName(r) \/ ReserveRefused(r) \/ ReserveVolume(r)
    \/ ReserveSave(r) \/ Connect(r) \/ Plug(r) \/ PlugFails(r) \/ Attached(r)
    \/ AttachFailed(r) \/ Unconnect(r) \/ Undetach(r) \/ Undetached(r)
    \/ UnreserveVolume(r)

Detach(r) == \/ BeginDetaching(r) \/ BeginSave(r) \/ Unplug(r) \/ UnplugFails(r)
             \/ UnplugRaises(r) \/ Disconnect(r) \/ Detached(r)

Terminate(r) == Kill(r) \/ KillConnection(r) \/ Killed(r) \/ TerminateDone(r)

Delete(r) == DeleteSave(r) \/ CinderDelete(r) \/ CinderDeleted(r)

Cinder(r) == \/ CinderAttach(r) \/ CinderAttached(r) \/ CinderDetach(r)
             \/ \E a \in Requests : CinderDetached(r, a)

User(r) == \/ \E i \in Instances : \/ AttachVolume(r, i) \/ DetachVolume(r, i)
                                   \/ TerminateInstance(r, i)
           \/ DeleteVolume(r)

Next == \E r \in Requests : \/ User(r) \/ Attach(r) \/ CastFails(r) \/ Detach(r)
                            \/ Terminate(r) \/ Delete(r) \/ Cinder(r)

Spec == Init /\ [][Next]_vars

Fairness ==
    \A r \in Requests : /\ WF_vars(Attach(r)) /\ WF_vars(Detach(r))
                        /\ WF_vars(Terminate(r)) /\ WF_vars(Delete(r))
                        /\ WF_vars(Cinder(r))

FairSpec == Spec /\ Fairness

-----------------------------------------------------------------------------
(* Correctness *)

\* Two guests never write to one volume. Nova and Cinder each hold a part of
\* what prevents it, and only the volume's status binds them. It holds while
\* Cinder's reads and updates are not separated and no attach has to be undone.
NeverShared == Cardinality(guests) <= 1

\* A volume that is offered to others, or deleted, is in no guest.
FreeIsFree == status \in {"available", "deleting", "error_deleting", "deleted"}
                => guests = {}

\* When nothing is under way the guest, Nova's BDM and Cinder's attachment tell
\* the same story, and a guest with the disk can have it detached.
Agree ==
    Idle =>
      \A i \in Instances :
        /\ i \in guests <=> \E r \in Requests : /\ Inst(r) = i
                                               /\ att[r] = "attached"
                                               /\ bdm[r] = "connected"
        /\ i \in guests => Beginnable /\ (i \in alive => Detachable(i))

\* Requests that follow one another never leave two instances attached in
\* Cinder, nor an attached one in a volume that is neither in use nor being
\* detached, whatever fails and whichever answer comes too late.
Recorded ==
    \A a, b \in Requests :
        att[a] = "attached" /\ att[b] = "attached" =>
            a = b /\ attached /\ status \in {"in-use", "detaching"}

\* The volume does not stay in a status that refuses every request of a user.
Resolved == []<>(status \notin {"attaching", "detaching", "deleting"})
=============================================================================
