----------------------- MODULE VolumeAttachmentProofs -----------------------
(***************************************************************************)
(* TLAPS proofs about VolumeAttachment, for any number of instances and of *)
(* requests: the types with all the races and all the faults of the        *)
(* module, Cinder's record for requests that follow one another, and what  *)
(* the status of the volume protects while requests overlap.               *)
(***************************************************************************)
EXTENDS VolumeAttachment, FiniteSetTheorems, TLAPS

(* The initial state is well typed. *)
LEMMA InitTypeOK == Init => TypeOK
<1> SUFFICES ASSUME Init PROVE TypeOK
  OBVIOUS
<1>1. attached \in BOOLEAN
  BY Zenon DEF Init
<1>2. /\ att \in [Requests -> {"none", "attaching", "attached", "error_attaching",
                               "error_detaching"}]
      /\ bdm \in [Requests -> {"none", "reserved", "connected"}]
      /\ reply \in [Requests -> {"none", "ok", "error"}]
      /\ pc \in [Requests -> Places] /\ held \in [Requests -> SUBSET Requests]
      /\ op \in [Requests -> {NoOp} \cup [kind : Kinds, inst : Instances \cup {"none"}]]
  BY DEF Init, Places
<1>. QED
  BY <1>1, <1>2 DEF Init, TypeOK

\* The places of an attach at Nova's API and compute service.
AttachPlaces == {"name", "check", "reserve", "sent", "plug", "replug", "attach",
                 "unconnect", "unattach", "undetach", "undetached", "unreserve"}

\* A request is at a place of its kind.
Placed(r) ==
    /\ pc[r] \in AttachPlaces => op[r].kind = "attach" /\ op[r].inst \in Instances
    /\ pc[r] \in {"begin", "begin-save", "unplug", "disconnect", "detached"}
         => op[r].kind = "detach"
    /\ pc[r] \in {"kill", "killing", "killed"} => op[r].kind = "terminate"
    /\ pc[r] \in {"delete-save", "delete", "deleting"} => op[r].kind = "delete"
    /\ op[r].kind = "none" => pc[r] = "unused"

\* The instance that a disk goes to depends on the place of a request.
TypeInv == TypeOK /\ \A r \in Requests : Placed(r)

(* Every step of Nova and of Cinder keeps the types. *)
LEMMA NextTypeOK == TypeInv /\ [Next]_vars => TypeOK'
<1> SUFFICES ASSUME TypeInv, [Next]_vars PROVE TypeOK'
  OBVIOUS
<1>. USE DEF TypeInv, TypeOK, Places, cinder, nova, Goto, SetBdm, Call
<1>1. ASSUME NEW r \in Requests, User(r) PROVE TypeOK'
  <2>1. ASSUME NEW i \in Instances, AttachVolume(r, i) PROVE TypeOK'
    BY <2>1 DEF AttachVolume, New, Kinds
  <2>2. ASSUME NEW i \in Instances, DetachVolume(r, i) PROVE TypeOK'
    BY <2>2 DEF DetachVolume, New, Kinds
  <2>3. ASSUME NEW i \in Instances, TerminateInstance(r, i) PROVE TypeOK'
    BY <2>3 DEF TerminateInstance, New, Kinds, BdmsOf
  <2>4. CASE DeleteVolume(r)
    BY <2>4 DEF DeleteVolume, New, Kinds
  <2>. QED
    BY <1>1, <2>1, <2>2, <2>3, <2>4 DEF User
<1>2. ASSUME NEW r \in Requests, Attach(r) \/ CastFails(r) PROVE TypeOK'
  <2>1. CASE ReserveBlockDeviceName(r) \/ ReserveRefused(r) \/ ReserveVolume(r)
             \/ ReserveSave(r) \/ CastFails(r)
    BY <2>1
    DEF ReserveBlockDeviceName, ReserveRefused, ReserveVolume, ReserveSave, CastFails
  <2>2. CASE Connect(r) \/ PlugFails(r) \/ Attached(r) \/ Undetach(r) \/ Undetached(r)
    BY <2>2 DEF Connect, PlugFails, Attached, Undetach, Undetached
  <2>3. CASE Plug(r)
    <3>1. Inst(r) \in Instances
      BY <2>3 DEF Plug, Placed, AttachPlaces, Inst
    <3>. QED
      BY <2>3, <3>1 DEF Plug
  <2>4. CASE AttachFailed(r)
    BY <2>4 DEF AttachFailed
  <2>5. CASE Unconnect(r) \/ UnreserveVolume(r)
    BY <2>5 DEF Unconnect, UnreserveVolume, Unreserve
  <2>. QED
    BY <1>2, <2>1, <2>2, <2>3, <2>4, <2>5 DEF Attach
<1>3. ASSUME NEW r \in Requests, Detach(r) PROVE TypeOK'
  <2>1. CASE BeginDetaching(r) \/ BeginSave(r) \/ UnplugFails(r) \/ UnplugRaises(r)
             \/ Detached(r)
    BY <2>1
    DEF BeginDetaching, BeginSave, UnplugFails, UnplugRaises, RollDetaching, Detached
  <2>2. CASE Unplug(r)
    BY <2>2 DEF Unplug, BdmsFound
  <2>3. CASE Disconnect(r)
    BY <2>3 DEF Disconnect, Unreserve
  <2>. QED
    BY <1>3, <2>1, <2>2, <2>3 DEF Detach
<1>4. ASSUME NEW r \in Requests, Terminate(r) \/ Delete(r) PROVE TypeOK'
  <2>1. CASE Kill(r) \/ Killed(r)
    BY <2>1 DEF Kill, Killed, BdmsOf
  <2>2. CASE KillConnection(r)
    BY <2>2 DEF KillConnection, Unreserve
  <2>3. CASE TerminateDone(r)
    BY <2>3 DEF TerminateDone
  <2>4. CASE Delete(r)
    BY <2>4 DEF Delete, DeleteSave, CinderDelete, CinderDeleted
  <2>. QED
    BY <1>4, <2>1, <2>2, <2>3, <2>4 DEF Terminate
<1>5. ASSUME NEW r \in Requests, Cinder(r) PROVE TypeOK'
  <2>1. CASE CinderAttach(r)
    BY <2>1 DEF CinderAttach, Answer
  <2>a. attached \in BOOLEAN
    BY DEF TypeInv, TypeOK
  <2>2. CASE CinderAttached(r)
    <3>1. attached' = TRUE \/ attached' = attached
      BY <2>2, Zenon DEF CinderAttached
    <3>2. attached' \in BOOLEAN
      BY <2>a, <3>1, Zenon
    <3>3. att' \in [Requests -> {"none", "attaching", "attached", "error_attaching",
                                 "error_detaching"}]
      BY <2>2 DEF CinderAttached
    <3>4. reply' \in [Requests -> {"none", "ok", "error"}]
      BY <2>2 DEF CinderAttached, Answer
    <3>5. UNCHANGED <<bdm, guests, alive, op, pc, held>>
          /\ calls' \subseteq calls /\ status' \in {status, "in-use"}
      BY <2>2 DEF CinderAttached
    <3>. QED
      BY <3>2, <3>3, <3>4, <3>5
  <2>3. CASE CinderDetach(r)
    <3>1. attached' = FALSE \/ attached' = attached
      BY <2>3, Zenon DEF CinderDetach
    <3>2. attached' \in BOOLEAN
      BY <2>a, <3>1, Zenon
    <3>3. reply' \in [Requests -> {"none", "ok", "error"}]
      BY <2>3 DEF CinderDetach, Answer
    <3>4. UNCHANGED <<att, bdm, guests, alive, op, pc, held>>
          /\ status' \in {status, "available"}
      BY <2>3 DEF CinderDetach
    <3>5. calls' \subseteq calls \cup {<<"detaching", r, b>> : b \in Requests}
      BY <2>3 DEF CinderDetach
    <3>. QED
      BY <3>2, <3>3, <3>4, <3>5
  <2>4. ASSUME NEW a \in Requests, CinderDetached(r, a) PROVE TypeOK'
    <3>1. attached' = (Used \ {a} # {}) \/ attached' = attached
      BY <2>4, Zenon DEF CinderDetached
    <3>3. attached' \in BOOLEAN
      BY <2>a, <3>1, Zenon
    <3>4. att' \in [Requests -> {"none", "attaching", "attached", "error_attaching",
                                 "error_detaching"}]
      BY <2>4 DEF CinderDetached
    <3>5. calls' \in SUBSET ({"attach", "attaching", "detach", "detaching"}
                                \X Requests \X Requests)
      BY <2>4 DEF CinderDetached
    <3>6. reply' \in [Requests -> {"none", "ok", "error"}]
      BY <2>4 DEF CinderDetached, Answer
    <3>7. UNCHANGED <<bdm, guests, alive, op, pc, held>>
          /\ status' \in {status, "in-use", "available"}
      BY <2>4 DEF CinderDetached
    <3>. QED
      BY <3>3, <3>4, <3>5, <3>6, <3>7
  <2>. QED
    BY <1>5, <2>1, <2>2, <2>3, <2>4 DEF Cinder
<1>6. CASE UNCHANGED vars
  BY <1>6 DEF vars
<1>. QED
  BY <1>1, <1>2, <1>3, <1>4, <1>5, <1>6 DEF Next

(* A request stays at the places of its kind. *)
LEMMA NextPlaced == TypeInv /\ [Next]_vars => \A r \in Requests : Placed(r)'
<1> SUFFICES ASSUME TypeInv, [Next]_vars, NEW q \in Requests PROVE Placed(q)'
  OBVIOUS
<1>. USE DEF TypeInv, TypeOK, Placed, AttachPlaces, Goto, At
<1>1. ASSUME NEW r \in Requests, User(r) PROVE Placed(q)'
  <2>1. CASE r = q
    BY <1>1, <2>1
    DEF User, New, AttachVolume, DetachVolume, TerminateInstance, DeleteVolume, Kinds
  <2>2. CASE r # q
    BY <1>1, <2>2
    DEF User, New, AttachVolume, DetachVolume, TerminateInstance, DeleteVolume
  <2>. QED
    BY <2>1, <2>2
<1>2. ASSUME NEW r \in Requests, Attach(r) \/ CastFails(r) PROVE Placed(q)'
  BY <1>2
  DEF Attach, ReserveBlockDeviceName, ReserveRefused, ReserveVolume, ReserveSave,
      CastFails, Connect, Plug, PlugFails, Attached, AttachFailed, Unconnect, Undetach,
      Undetached, UnreserveVolume
<1>3. ASSUME NEW r \in Requests, Detach(r) PROVE Placed(q)'
  BY <1>3
  DEF Detach, BeginDetaching, BeginSave, Unplug, UnplugFails, UnplugRaises, Disconnect,
      Detached
<1>4. ASSUME NEW r \in Requests, Terminate(r) \/ Delete(r) PROVE Placed(q)'
  BY <1>4
  DEF Terminate, Kill, KillConnection, Killed, TerminateDone, Delete, DeleteSave,
      CinderDelete, CinderDeleted
<1>5. ASSUME NEW r \in Requests, Cinder(r) PROVE Placed(q)'
  BY <1>5 DEF Cinder, CinderAttach, CinderAttached, CinderDetach, CinderDetached
<1>6. CASE UNCHANGED vars
  BY <1>6 DEF vars
<1>. QED
  BY <1>1, <1>2, <1>3, <1>4, <1>5, <1>6 DEF Next

(* The types and the places together. *)
LEMMA TypeInvariant == Spec => []TypeInv
<1>1. Init => TypeInv
  BY InitTypeOK DEF Init, TypeInv, Placed, AttachPlaces, NoOp
<1>2. TypeInv /\ [Next]_vars => TypeInv'
  BY NextTypeOK, NextPlaced DEF TypeInv
<1>. QED
  BY <1>1, <1>2, PTL DEF Spec

(* Type correctness of all operations of Nova and of Cinder on a volume. *)
THEOREM TypeCorrect == Spec => []TypeOK
<1>1. TypeInv => TypeOK
  BY DEF TypeInv
<1>. QED
  BY <1>1, TypeInvariant, PTL

-----------------------------------------------------------------------------
(* Requests that follow one another.  Recorded is not inductive: a call that *)
(* its request has given up on may still be served, so what keeps a second   *)
(* instance from being attached is that no request is made before the calls  *)
(* of the last one are over, and what the volume was when it was reserved.   *)

\* A request is under way as long as a call of it is.
Current(r) == pc[r] \notin {"unused", "over"} \/ \E c \in calls : c[2] = r

\* Places of an attach before the volume is known to be reserved for it.
Before == {"unused", "name", "check", "reserve"}

OneAtATime == \A q, r \in Requests : Current(q) /\ Current(r) => q = r

\* Only an attach past its reservation has Cinder attach.
AttachCalls ==
    \A r \in Requests :
        <<"attach", r, r>> \in calls \/ <<"attaching", r, r>> \in calls
            => op[r].kind = "attach" /\ pc[r] \notin Before

NotYet ==
    \A r \in Requests :
        pc[r] \in Before => att[r] = "none" /\ \A c \in calls : c[2] # r

\* Who has reserved the volume finds no attachment of another.
Reserved ==
    \A r, a \in Requests :
        /\ Current(r) /\ op[r].kind = "attach" /\ pc[r] \notin {"name", "check"}
        /\ att[a] = "attached"
        => a = r

\* Who deletes the volume finds none at all.
Deletes ==
    \A r, a \in Requests :
        pc[r] \in {"delete-save", "delete", "deleting"} => att[a] # "attached"

SerialInv ==
    /\ TypeInv /\ OneAtATime /\ AttachCalls /\ NotYet /\ Reserved /\ Deletes /\ Recorded

(* What Cinder does with its calls: it serves one of the request, and goes on *)
(* with the same request.                                                     *)
LEMMA CallsOfCinder ==
    ASSUME TypeInv, NEW r \in Requests, Cinder(r)
    PROVE  /\ \E c \in calls : c[2] = r
           /\ \A c \in calls' \ calls : c[2] = r /\ c[1] \in {"attaching", "detaching"}
           /\ <<"attach", r, r>> \in calls' \/ <<"attaching", r, r>> \in calls'
                => <<"attach", r, r>> \in calls \/ <<"attaching", r, r>> \in calls
           /\ UNCHANGED <<op, pc>>
<1>1. CASE CinderAttach(r)
  <2>1. <<"attach", r, r>> \in calls /\ UNCHANGED <<op, pc>>
        /\ calls' \subseteq calls \cup {<<"attaching", r, r>>}
    BY <1>1 DEF CinderAttach, nova
  <2>. QED
    BY <2>1
<1>2. CASE CinderAttached(r)
  <2>1. <<"attaching", r, r>> \in calls /\ UNCHANGED <<op, pc>> /\ calls' \subseteq calls
    BY <1>2 DEF CinderAttached, nova
  <2>. QED
    BY <2>1
<1>3. CASE CinderDetach(r)
  <2>1. PICK a \in Requests : calls' \subseteq calls \cup {<<"detaching", r, a>>}
    BY <1>3 DEF CinderDetach
  <2>2. <<"detach", r, r>> \in calls /\ UNCHANGED <<op, pc>>
    BY <1>3 DEF CinderDetach, nova
  <2>. QED
    BY <2>1, <2>2
<1>4. ASSUME NEW a \in Requests, CinderDetached(r, a)
      PROVE  <<"detaching", r, a>> \in calls /\ calls' \subseteq calls /\ UNCHANGED <<op, pc>>
  BY <1>4 DEF CinderDetached, nova
<1>. QED
  BY <1>1, <1>2, <1>3, <1>4 DEF Cinder

(* A step of a request starts no other one. *)
LEMMA NothingStarts ==
    ASSUME TypeInv, NEW r \in Requests,
           \/ Attach(r) \/ CastFails(r) \/ Detach(r) \/ Terminate(r) \/ Delete(r)
           \/ Cinder(r)
    PROVE  /\ Current(r) /\ \A q \in Requests : Current(q)' => Current(q)
           /\ op' = op /\ \A q \in Requests \ {r} : pc'[q] = pc[q]
<1>. USE DEF TypeInv, TypeOK, Current, At, Goto, Call, cinder, nova
<1>1. CASE Attach(r) \/ CastFails(r)
  BY <1>1
  DEF Attach, ReserveBlockDeviceName, ReserveRefused, ReserveVolume, ReserveSave,
      CastFails, Connect, Plug, PlugFails, Attached, AttachFailed, Unconnect, Undetach,
      Undetached, UnreserveVolume
<1>2. CASE Detach(r)
  BY <1>2
  DEF Detach, BeginDetaching, BeginSave, Unplug, UnplugFails, UnplugRaises, Disconnect,
      Detached
<1>3. CASE Terminate(r) \/ Delete(r)
  BY <1>3
  DEF Terminate, Kill, KillConnection, Killed, TerminateDone, Delete, DeleteSave,
      CinderDelete, CinderDeleted
<1>4. CASE Cinder(r)
  BY <1>4, CallsOfCinder
<1>. QED
  BY <1>1, <1>2, <1>3, <1>4

(* With one request at a time, a request is made when nothing is under way. *)
LEMMA UserKeeps ==
    ASSUME Overlap = FALSE, SerialInv, NEW r \in Requests, User(r)
    PROVE  /\ OneAtATime' /\ AttachCalls' /\ NotYet' /\ Reserved' /\ Deletes' /\ Recorded'
<1>. USE DEF SerialInv, TypeInv, TypeOK
<1>1. /\ calls = {} /\ calls' = {} /\ UNCHANGED <<att, attached>> /\ At(r, "unused")
      /\ \A q \in Requests : pc[q] \in {"unused", "over"}
      /\ \E k \in Kinds, i \in Instances \cup {"none"} :
            op' = [op EXCEPT ![r] = [kind |-> k, inst |-> i]]
      /\ \A q \in Requests \ {r} : pc'[q] = pc[q]
  BY DEF User, New, Idle, AttachVolume, DetachVolume, TerminateInstance, DeleteVolume,
         Kinds, Goto, cinder, nova
<1>2. OneAtATime' /\ AttachCalls'
  BY <1>1 DEF OneAtATime, AttachCalls, Current
<1>3. NotYet'
  BY <1>1 DEF NotYet, Before, At
<1>4. CASE \E i \in Instances : AttachVolume(r, i)
  BY <1>1, <1>2, <1>3, <1>4
  DEF AttachVolume, New, Goto, cinder, Reserved, Deletes, Recorded, Current
<1>5. CASE \E i \in Instances : DetachVolume(r, i) \/ TerminateInstance(r, i)
  BY <1>1, <1>2, <1>3, <1>5
  DEF DetachVolume, TerminateInstance, New, Goto, Beginnable, cinder, Reserved, Deletes,
      Recorded, Current
<1>6. CASE DeleteVolume(r)
  BY <1>1, <1>2, <1>3, <1>6
  DEF DeleteVolume, New, Goto, Deletable, Reserved, Deletes, Recorded, Current
<1>. QED
  BY <1>4, <1>5, <1>6 DEF User

(* A step of Nova, or of a deletion: it leaves the attachments alone, and    *)
(* the status stays fit for an attached one.                                 *)
LEMMA NovaKeeps ==
    ASSUME SerialInv, NEW r \in Requests,
           Attach(r) \/ CastFails(r) \/ Detach(r) \/ Terminate(r) \/ Delete(r)
    PROVE  /\ OneAtATime' /\ AttachCalls' /\ NotYet' /\ Reserved' /\ Deletes' /\ Recorded'
<1>. USE DEF SerialInv
<1>0. /\ Current(r) /\ \A q \in Requests : Current(q)' => Current(q)
      /\ op' = op /\ \A q \in Requests \ {r} : pc'[q] = pc[q]
  BY NothingStarts
<1>1. OneAtATime'
  BY <1>0 DEF OneAtATime
<1>2. UNCHANGED <<att, attached>>
  BY DEF Attach, ReserveBlockDeviceName, ReserveRefused, ReserveVolume, ReserveSave,
         CastFails, Connect, Plug, PlugFails, Attached, AttachFailed, Unconnect,
         Undetach, Undetached, UnreserveVolume, Detach, BeginDetaching, BeginSave,
         Unplug, UnplugFails, UnplugRaises, Disconnect, Detached, Terminate, Kill,
         KillConnection, Killed, TerminateDone, Delete, DeleteSave, CinderDelete,
         CinderDeleted, cinder
\* Where the request may go.
<1>3. /\ pc'[r] \in Before => pc[r] \in Before /\ calls' = calls
      /\ pc[r] \in Before => calls' = calls
      /\ <<"attach", r, r>> \in calls' \ calls => pc[r] = "plug" /\ pc'[r] = "attach"
      /\ calls' \subseteq calls \cup {<<"attach", r, r>>, <<"detach", r, r>>}
      /\ pc'[r] \in {"delete-save", "delete", "deleting"}
           => pc[r] \in {"delete-save", "delete", "deleting"}
      /\ pc[r] \in {"name", "check"} /\ pc'[r] \notin {"name", "check", "over"}
           => status = "available"
  <2>. USE DEF TypeInv, TypeOK, At, Goto, Call, Before
  <2>1. CASE Attach(r) \/ CastFails(r)
    BY <2>1
    DEF Attach, ReserveBlockDeviceName, ReserveRefused, ReserveVolume, ReserveSave,
        CastFails, Connect, Plug, PlugFails, Attached, AttachFailed, Unconnect, Undetach,
        Undetached, UnreserveVolume, Reservable
  <2>2. CASE Detach(r)
    BY <2>2
    DEF Detach, BeginDetaching, BeginSave, Unplug, UnplugFails, UnplugRaises, Disconnect,
        Detached
  <2>3. CASE Terminate(r) \/ Delete(r)
    BY <2>3
    DEF Terminate, Kill, KillConnection, Killed, TerminateDone, Delete, DeleteSave,
        CinderDelete, CinderDeleted
  <2>. QED
    BY <2>1, <2>2, <2>3
<1>4. AttachCalls'
  <2>1. SUFFICES ASSUME NEW q \in Requests,
                        <<"attach", q, q>> \in calls' \/ <<"attaching", q, q>> \in calls'
                 PROVE  op[q].kind = "attach" /\ pc'[q] \notin Before
    BY <1>0 DEF AttachCalls
  <2>2. CASE <<"attach", q, q>> \in calls \/ <<"attaching", q, q>> \in calls
    BY <1>0, <1>3, <2>2 DEF AttachCalls
  <2>3. CASE <<"attach", q, q>> \in calls' \ calls
    BY <1>3, <2>3 DEF TypeInv, Placed, AttachPlaces, Before
  <2>. QED
    BY <1>3, <2>1, <2>2, <2>3
<1>5. NotYet'
  <2>1. SUFFICES ASSUME NEW q \in Requests, pc'[q] \in Before
                 PROVE  att[q] = "none" /\ \A c \in calls' : c[2] # q
    BY <1>2 DEF NotYet
  <2>2. pc[q] \in Before /\ att[q] = "none" /\ \A c \in calls : c[2] # q
    BY <1>0, <1>3, <2>1 DEF NotYet
  <2>. QED
    BY <1>3, <2>1, <2>2
<1>6. Deletes'
  BY <1>0, <1>2, <1>3 DEF Deletes
<1>7. Reserved'
  <2>1. SUFFICES ASSUME NEW q \in Requests, NEW a \in Requests, Current(q)',
                        op[q].kind = "attach", pc'[q] \notin {"name", "check"},
                        att[a] = "attached"
                 PROVE  a = q
    BY <1>0, <1>2 DEF Reserved
  <2>2. q = r
    BY <1>0, <2>1 DEF OneAtATime
  <2>3. CASE pc[r] \in {"name", "check"} /\ pc'[r] # "over"
    BY <1>3, <2>1, <2>2, <2>3 DEF Recorded
  <2>4. CASE pc[r] \notin {"name", "check"}
    BY <1>0, <2>1, <2>2, <2>4 DEF Reserved
  <2>5. CASE pc[r] \in {"name", "check"} /\ pc'[r] = "over"
    <3>1. \E c \in calls : c[2] = r
      BY <1>3, <2>1, <2>2, <2>5 DEF Current, Before
    <3>. QED
      BY <3>1, <2>5 DEF NotYet, Before
  <2>. QED
    BY <2>3, <2>4, <2>5
<1>8. Recorded'
  <2>1. SUFFICES ASSUME NEW a \in Requests, att[a] = "attached"
                 PROVE  status' \in {"in-use", "detaching"}
    BY <1>2 DEF Recorded
  <2>2. status \in {"in-use", "detaching"}
    BY <2>1 DEF Recorded
  <2>3. pc[r] \notin {"reserve", "delete-save", "delete", "deleting"}
    <3>1. pc[r] # "reserve"
      <4>1. ASSUME pc[r] = "reserve" PROVE op[r].kind = "attach" /\ att[r] = "none"
        BY <4>1 DEF NotYet, Before, TypeInv, Placed, AttachPlaces
      <4>. QED
        BY <1>0, <2>1, <4>1 DEF Reserved
    <3>. QED
      BY <2>1, <3>1 DEF Deletes
  <2>4. CASE Attach(r) \/ CastFails(r)
    BY <2>2, <2>3, <2>4
    DEF Attach, ReserveBlockDeviceName, ReserveRefused, ReserveVolume, ReserveSave,
        CastFails, Connect, Plug, PlugFails, Attached, AttachFailed, Unconnect, Undetach,
        Undetached, UnreserveVolume, Unreserve, Reservable, cinder, At
  <2>5. CASE Detach(r)
    BY <2>2, <2>5
    DEF Detach, BeginDetaching, BeginSave, Unplug, UnplugFails, UnplugRaises, Disconnect,
        Detached, Unreserve, RollDetaching, cinder
  <2>6. CASE Terminate(r) \/ Delete(r)
    BY <2>2, <2>3, <2>6
    DEF Terminate, Kill, KillConnection, Killed, TerminateDone, Delete, DeleteSave,
        CinderDelete, CinderDeleted, Unreserve, cinder, At
  <2>. QED
    BY <2>4, <2>5, <2>6
<1>. QED
  BY <1>1, <1>4, <1>5, <1>6, <1>7, <1>8

(* A step of Cinder, of a request that may have given up on it. *)
LEMMA CinderKeeps ==
    ASSUME SerialInv, NEW r \in Requests, Cinder(r)
    PROVE  /\ OneAtATime' /\ AttachCalls' /\ NotYet' /\ Reserved' /\ Deletes' /\ Recorded'
<1>. USE DEF SerialInv
<1>0. /\ Current(r) /\ \A q \in Requests : Current(q)' => Current(q)
      /\ op' = op /\ pc' = pc
  BY NothingStarts DEF Cinder, CinderAttach, CinderAttached, CinderDetach, CinderDetached
<1>1. OneAtATime'
  BY <1>0 DEF OneAtATime
\* What Cinder does with attachments.
<1>2. /\ \A a \in Requests : att'[a] = "attached" /\ att[a] # "attached"
            => a = r /\ <<"attaching", r, r>> \in calls
      /\ \A a \in Requests : att'[a] # "none" /\ att[a] = "none"
            => a = r /\ <<"attach", r, r>> \in calls
  <2>. USE DEF TypeInv, TypeOK, cinder
  <2>1. CASE CinderAttach(r)
    BY <2>1 DEF CinderAttach
  <2>2. CASE CinderAttached(r)
    BY <2>2 DEF CinderAttached
  <2>3. CASE CinderDetach(r)
    BY <2>3 DEF CinderDetach
  <2>4. ASSUME NEW b \in Requests, CinderDetached(r, b)
        PROVE  \A a \in Requests : \/ att'[a] = att[a]
                                   \/ att'[a] = "none"
                                   \/ att'[a] = "error_detaching" /\ Named(att[a])
    BY <2>4 DEF CinderDetached
  <2>. QED
    BY <2>1, <2>2, <2>3, <2>4 DEF Cinder, Named
<1>3. AttachCalls'
  <2>1. SUFFICES ASSUME NEW q \in Requests,
                        <<"attach", q, q>> \in calls' \/ <<"attaching", q, q>> \in calls'
                 PROVE  <<"attach", q, q>> \in calls \/ <<"attaching", q, q>> \in calls
    BY <1>0 DEF AttachCalls
  <2>. QED
    BY CallsOfCinder, <2>1
<1>4. NotYet'
  <2>1. pc[r] \notin Before
    BY CallsOfCinder DEF NotYet
  <2>. QED
    BY <1>0, <1>2, <2>1, CallsOfCinder DEF NotYet
<1>5. <<"attaching", r, r>> \in calls => op[r].kind = "attach" /\ pc[r] \notin Before
  BY DEF AttachCalls
<1>6. Reserved'
  BY <1>0, <1>1, <1>2 DEF Reserved, OneAtATime
<1>7. Deletes'
  <2>1. SUFFICES ASSUME NEW q \in Requests, NEW a \in Requests,
                        pc[q] \in {"delete-save", "delete", "deleting"},
                        att'[a] = "attached"
                 PROVE  FALSE
    BY <1>0 DEF Deletes
  <2>2. a = r /\ <<"attaching", r, r>> \in calls
    BY <1>2, <2>1 DEF Deletes
  <2>3. q = r
    BY <1>0, <2>1 DEF OneAtATime, Current
  <2>. QED
    BY <1>5, <2>1, <2>2, <2>3 DEF TypeInv, Placed
<1>8. Recorded'
  <2>. USE DEF TypeInv, TypeOK
  <2>1. CASE CinderAttach(r)
    BY <2>1 DEF CinderAttach, Recorded
  <2>2. CASE CinderAttached(r)
    <3>1. <<"attaching", r, r>> \in calls
      BY <2>2 DEF CinderAttached
    <3>2. \A a \in Requests : att[a] = "attached" => a = r
      BY <1>0, <1>5, <3>1 DEF Reserved, Before
    <3>3. CASE att' = [att EXCEPT ![r] = "attached"] /\ attached' = TRUE /\ status' = "in-use"
      BY <3>2, <3>3 DEF Recorded
    <3>4. CASE UNCHANGED cinder
      BY <3>4 DEF Recorded, cinder
    <3>5. CASE /\ att' = [att EXCEPT ![r] = IF @ = "none" THEN @ ELSE "error_attaching"]
               /\ UNCHANGED <<status, attached>>
      BY <3>5 DEF Recorded
    <3>. QED
      BY <2>2, <3>3, <3>4, <3>5 DEF CinderAttached
  <2>3. CASE CinderDetach(r)
    BY <2>3 DEF CinderDetach, Recorded, Used
  <2>4. ASSUME NEW b \in Requests, CinderDetached(r, b) PROVE Recorded'
    <3>1. CASE /\ att' = [att EXCEPT ![b] = "none"]
               /\ attached' = (Used \ {b} # {})
               /\ status' = IF Used \ {b} # {} THEN "in-use" ELSE "available"
      BY <3>1 DEF Recorded, Used
    <3>2. CASE /\ att' = [att EXCEPT ![b] = IF Named(@) THEN "error_detaching" ELSE @]
               /\ UNCHANGED <<status, attached>>
      BY <3>2 DEF Recorded
    <3>. QED
      BY <2>4, <3>1, <3>2 DEF CinderDetached
  <2>. QED
    BY <2>1, <2>2, <2>3, <2>4 DEF Cinder
<1>. QED
  BY <1>1, <1>3, <1>4, <1>6, <1>7, <1>8

(* If requests follow one another, whatever fails and however late an answer *)
(* comes, at most one instance is attached in Cinder, and only to a volume   *)
(* that is in use or being detached.                                         *)
THEOREM SerialRequestsAreRecorded ==
    ASSUME Overlap = FALSE
    PROVE  Spec => []Recorded
<1>1. Init => SerialInv
  BY InitTypeOK
  DEF Init, SerialInv, TypeInv, Placed, AttachPlaces, NoOp, OneAtATime, AttachCalls,
      NotYet, Reserved, Deletes, Recorded, Current
<1>2. SerialInv /\ [Next]_vars => SerialInv'
  <2>1. SUFFICES ASSUME SerialInv, [Next]_vars PROVE SerialInv'
    OBVIOUS
  <2>2. TypeInv'
    BY <2>1, NextTypeOK, NextPlaced DEF SerialInv, TypeInv
  <2>3. CASE UNCHANGED vars
    BY <2>1, <2>2, <2>3
    DEF SerialInv, vars, OneAtATime, AttachCalls, NotYet, Reserved, Deletes, Recorded,
        Current
  <2>4. CASE Next
    BY <2>1, <2>2, <2>4, UserKeeps, NovaKeeps, CinderKeeps DEF Next, SerialInv
  <2>. QED
    BY <2>1, <2>3, <2>4
<1>3. SerialInv => Recorded
  BY DEF SerialInv
<1>. QED
  BY <1>1, <1>2, <1>3, PTL DEF Spec
-----------------------------------------------------------------------------
(* Requests that overlap.  The status of the volume works as a lock that two *)
(* services share: a request that has set it to "attaching", an attachment,  *)
(* or a deletion holds the volume, and one detach or termination at a time   *)
(* ends the attachment.  The properties only look at what is left of it, so  *)
(* LockInv says who holds it at each place and with which records.           *)

\* No other request comes between a read and a write, and no attach has to be
\* undone once it is past the reservation.
Gentle == Races = {} /\ Faults \subseteq {"connect", "unplug", "driver"}

\* The volume is reserved for an attach.
Reserves(r) ==
    \/ pc[r] \in {"sent", "plug", "unreserve"}
    \/ pc[r] = "attach" /\ reply[r] = "none"

\* It is reserved for a request, being deleted for one, or attached by one.
Holds(r) == Reserves(r) \/ pc[r] \in {"delete", "deleting"} \/ att[r] = "attached"

\* A detach or a termination has begun to end the attachment.
Ends(r) ==
    \/ pc[r] \in {"unplug", "disconnect"}
    \/ pc[r] = "killing" /\ held[r] # {}
    \/ pc[r] \in {"detached", "killed"} /\ reply[r] = "none"

\* Nothing has to be undone, and no request is between a read and a write.
Straight ==
    \A r \in Requests :
      /\ pc[r] \notin {"reserve", "replug", "unconnect", "unattach", "undetach",
                       "undetached", "begin", "begin-save", "delete-save"}
      /\ pc[r] = "unused" => op[r] = NoOp
      /\ reply[r] # "error"
      /\ att[r] \in {"none", "attaching", "attached"}

\* One request holds the volume and one ends the attachment.
OneHolds == \A q, r \in Requests : Holds(q) /\ Holds(r) => q = r
OneEnds  == \A q, r \in Requests : Ends(q) /\ Ends(r) => q = r

\* What Cinder records of the volume that is held for an attach or a deletion.
Held ==
    \A r \in Requests :
      /\ Reserves(r) => status = "attaching"
      /\ pc[r] \in {"delete", "deleting"} => status = "deleting"
      /\ att[r] = "attached" =>
           /\ attached /\ status \in {"in-use", "detaching"}
           /\ op[r].kind = "attach" /\ pc[r] \in {"attach", "over"}
      /\ att[r] = "attaching" => pc[r] = "attach" /\ reply[r] = "none"

\* A volume that nothing holds is free, and one that is not attached is shown so.
Free ==
    /\ status \in {"attaching", "in-use", "detaching"} => \E r \in Requests : Holds(r)
    /\ attached => \E r \in Requests : att[r] = "attached"
    /\ status \in {"available", "deleted", "error_deleting"} =>
         \A r \in Requests : ~Holds(r)

\* The guest that has the disk is the holder's, and its BDM has the connection,
\* until the attachment is ended.
Guest ==
    /\ guests # {} => \E r \in Requests : Holds(r) /\ pc[r] \in {"attach", "over"}
    /\ \A r \in Requests :
         Holds(r) /\ pc[r] \in {"attach", "over"} =>
           IF \E d \in Requests : Ends(d) /\ pc[d] # "unplug" THEN guests = {}
           ELSE guests = {Inst(r)} /\ bdm[r] = "connected"

\* A detach or a termination ends the attachment of its instance.
Ending ==
    /\ status = "detaching" => \E d \in Requests : Ends(d)
    /\ \A d \in Requests :
      /\ Ends(d) => \E a \in Requests : att[a] = "attached" /\ Inst(a) = Inst(d)
      /\ pc[d] \in {"unplug", "disconnect"} => status = "detaching"
      /\ pc[d] = "disconnect" => \A a \in Requests : att[a] = "attached" => a \in held[d]
      /\ pc[d] = "detached" /\ reply[d] = "none" =>
           /\ status = "detaching"
           /\ \A a \in Requests : att[a] = "attached" => bdm[a] # "connected"
      /\ pc[d] = "killing" /\ held[d] # {} => status = "in-use"
      /\ pc[d] = "killed" => held[d] = {} /\ (reply[d] = "none" => status = "in-use")
      /\ pc[d] \in {"disconnect", "killing"} => \A k \in held[d] : att[k] = "attached"

\* A BDM belongs to the holder, to a request that will be refused, or to an
\* instance that is being terminated.
Bdms ==
    \A k \in Requests :
      /\ bdm[k] = "reserved" => pc[k] \in {"check", "sent", "plug", "unreserve"}
      /\ bdm[k] = "connected" =>
           \/ Holds(k) /\ pc[k] \in {"attach", "over"}
           \/ \E t \in Requests : Inst(t) = Inst(k) /\ pc[t] \in {"killing", "killed"}

\* cinder-volume works for requests that wait.
Calls ==
    \A c \in calls :
      /\ c[1] \in {"attach", "attaching"} =>
           /\ c[3] = c[2] /\ pc[c[2]] = "attach" /\ reply[c[2]] = "none"
           /\ att[c[2]] = IF c[1] = "attach" THEN "none" ELSE "attaching"
      /\ c[1] \in {"detach", "detaching"} =>
           pc[c[2]] \in {"detached", "killed"} /\ reply[c[2]] = "none"
      /\ c[1] = "detach" => c[3] = c[2]
      /\ c[1] = "detaching" => att[c[3]] = "attached"
      /\ \A e \in calls : e[2] = c[2] => e = c

\* A termination begins when nothing else goes on with the instance.
Alone ==
    \A t \in Requests : op[t].kind = "terminate" =>
      /\ Inst(t) \notin alive
      /\ \A q \in Requests \ {t} : Inst(q) = Inst(t) => pc[q] = "over"
      /\ pc[t] # "kill" /\ ~Ends(t) =>
           \A a \in Requests : att[a] = "attached" => Inst(a) # Inst(t)

\* The BDMs that the API has read for a termination are those the host finds.
Fresh ==
    \A t \in Requests :
      /\ pc[t] = "unused" => bdm[t] = "none"
      /\ pc[t] = "kill" => held[t] = BdmsOf(Inst(t))

LockInv ==
    /\ Straight /\ OneHolds /\ OneEnds /\ Held /\ Free /\ Guest /\ Ending
    /\ Bdms /\ Calls /\ Alone

(* A request to attach changes nothing but itself. *)
LEMMA AttachVolumeKeeps ==
    ASSUME Gentle, TypeInv, LockInv, NEW r \in Requests, NEW i \in Instances,
           AttachVolume(r, i)
    PROVE  LockInv'
<1>. USE DEF TypeInv, TypeOK, LockInv, Goto, SetBdm, At, Call, cinder, nova, Inst
<1>1. /\ At(r, "unused") /\ i \in alive /\ Goto(r, "name")
      /\ op' = [op EXCEPT ![r] = [kind |-> "attach", inst |-> i]]
      /\ UNCHANGED <<cinder, nova, held, calls, reply>>
  BY DEF AttachVolume, Gentle, New, Idle
<1>2. Straight'
  BY <1>1 DEF Straight, NoOp
<1>3. Calls'
  BY <1>1 DEF Calls
<1>4. OneHolds' /\ Held' /\ Free'
  BY <1>1 DEF OneHolds, Held, Free, Holds, Reserves
<1>5. OneEnds' /\ Alone'
  BY <1>1 DEF OneEnds, Alone, Ends
<1>6. Ending'
  BY <1>1 DEF Ending, Held, Ends, Reserves
<1>7. Guest'
  BY <1>1 DEF Guest, Holds, Ends, Reserves
<1>8. Bdms'
  BY <1>1 DEF Bdms, Held, Alone, Placed, AttachPlaces, Holds, Reserves, Ends
<1>. QED
  BY <1>2, <1>3, <1>4, <1>5, <1>6, <1>7, <1>8

(* A detach begins when the volume is in use, hence when no other one has. *)
LEMMA DetachVolumeKeeps ==
    ASSUME Gentle, TypeInv, LockInv, NEW r \in Requests, NEW i \in Instances,
           DetachVolume(r, i)
    PROVE  LockInv'
<1>. USE DEF TypeInv, TypeOK, LockInv, Goto, SetBdm, At, Call, cinder, nova, Inst
<1>1. /\ At(r, "unused") /\ i \in alive /\ status = "in-use" /\ status' = "detaching"
      /\ Goto(r, "unplug") /\ op' = [op EXCEPT ![r] = [kind |-> "detach", inst |-> i]]
      /\ UNCHANGED <<attached, att, nova, held, calls, reply>>
      /\ \E a \in Requests : att[a] = "attached" /\ Inst(a) = i
  BY DEF DetachVolume, Gentle, New, Detachable, Beginnable, Idle, BdmsOf, Shown
<1>2. Straight'
  BY <1>1 DEF Straight, NoOp
<1>3. Calls'
  BY <1>1 DEF Calls
<1>4. OneHolds' /\ Held' /\ Free'
  BY <1>1 DEF OneHolds, Held, Free, Holds, Reserves
<1>5. Alone'
  BY <1>1 DEF Alone, Ends
<1>6. OneEnds'
  BY <1>1
  DEF OneEnds, OneHolds, Held, Ending, Alone, Placed, AttachPlaces, Ends, Holds,
      Reserves
<1>7. Ending'
  BY <1>1
  DEF Ending, OneHolds, Held, Alone, Placed, AttachPlaces, Ends, Holds, Reserves
<1>8. Guest'
  BY <1>1 DEF Guest, Holds, Ends, Reserves
<1>9. Bdms'
  BY <1>1 DEF Bdms, Held, Alone, Placed, AttachPlaces, Holds, Reserves, Ends
<1>. QED
  BY <1>2, <1>3, <1>4, <1>5, <1>6, <1>7, <1>8, <1>9

(* A termination is accepted when no other request about the instance is under way. *)
LEMMA TerminateInstanceKeeps ==
    ASSUME Gentle, TypeInv, LockInv, NEW r \in Requests, NEW i \in Instances,
           TerminateInstance(r, i)
    PROVE  LockInv'
<1>. USE DEF TypeInv, TypeOK, LockInv, Goto, SetBdm, At, Call, cinder, nova, Inst
<1>1. /\ At(r, "unused") /\ alive' = alive \ {i} /\ i \in alive /\ Goto(r, "kill")
      /\ op' = [op EXCEPT ![r] = [kind |-> "terminate", inst |-> i]]
      /\ held' = [held EXCEPT ![r] = BdmsOf(i)]
      /\ UNCHANGED <<cinder, bdm, guests, calls, reply>>
      /\ \A q \in Requests : Inst(q) = i => pc[q] = "over"
  BY DEF TerminateInstance, Gentle, New, Busy, Idle
<1>2. Straight'
  BY <1>1 DEF Straight, NoOp
<1>3. Calls'
  BY <1>1 DEF Calls
<1>4. OneHolds' /\ Held' /\ Free'
  BY <1>1 DEF OneHolds, Held, Free, Holds, Reserves
<1>5. OneEnds' /\ Alone'
  BY <1>1 DEF OneEnds, Alone, Ends
<1>6. Ending'
  BY <1>1 DEF Ending, Held, Ends, Reserves
<1>7. Guest'
  BY <1>1 DEF Guest, Holds, Ends, Reserves
<1>8. Bdms'
  BY <1>1 DEF Bdms, Held, Alone, Placed, AttachPlaces, Holds, Reserves, Ends
<1>. QED
  BY <1>2, <1>3, <1>4, <1>5, <1>6, <1>7, <1>8

(* A volume is deleted when it is available, hence when nothing holds it. *)
LEMMA DeleteVolumeKeeps ==
    ASSUME Gentle, TypeInv, LockInv, NEW r \in Requests, DeleteVolume(r)
    PROVE  LockInv'
<1>. USE DEF TypeInv, TypeOK, LockInv, Goto, SetBdm, At, Call, cinder, nova, Inst
<1>1. /\ At(r, "unused") /\ ~attached /\ status = "available" /\ status' = "deleting"
      /\ op' = [op EXCEPT ![r] = [kind |-> "delete", inst |-> "none"]]
      /\ Goto(r, "delete") /\ UNCHANGED <<attached, att, nova, held, calls, reply>>
  BY DEF DeleteVolume, Gentle, New, Deletable, Idle
<1>2. Straight'
  BY <1>1 DEF Straight, NoOp
<1>3. Calls'
  BY <1>1 DEF Calls
<1>4. Held' /\ Free'
  BY <1>1 DEF Held, Free, Reserves, Holds
<1>5. OneHolds'
  BY <1>1 DEF OneHolds, Free, Holds, Reserves
<1>6. OneEnds' /\ Ending'
  BY <1>1 DEF OneEnds, Ending, Ends
<1>7. Alone'
  BY <1>1 DEF Alone, Straight, Ends, NoOp
<1>8. Guest'
  BY <1>1 DEF Guest, Holds, Ends, Reserves
<1>9. Bdms'
  BY <1>1 DEF Bdms, Held, Alone, Placed, AttachPlaces, Holds, Reserves, Ends
<1>. QED
  BY <1>2, <1>3, <1>4, <1>5, <1>6, <1>7, <1>8, <1>9

(* The BDM of a request that is not yet checked is its own. *)
LEMMA ReserveBlockDeviceNameKeeps ==
    ASSUME Gentle, TypeInv, LockInv, NEW r \in Requests, ReserveBlockDeviceName(r)
    PROVE  LockInv'
<1>. USE DEF TypeInv, TypeOK, LockInv, Goto, SetBdm, At, Call, cinder, nova, Inst
<1>1. /\ At(r, "name") /\ Goto(r, "check") /\ SetBdm(r, "reserved")
      /\ UNCHANGED <<cinder, guests, alive, op, held, calls, reply>>
  BY DEF ReserveBlockDeviceName, Gentle, InstanceLocked, Locking
<1>2. Straight'
  BY <1>1 DEF Straight, NoOp
<1>3. Calls'
  BY <1>1 DEF Calls
<1>4. OneHolds' /\ Held' /\ Free'
  BY <1>1 DEF OneHolds, Held, Free, Holds, Reserves
<1>5. OneEnds' /\ Ending' /\ Alone'
  BY <1>1 DEF OneEnds, Ending, Alone, Ends
<1>6. Bdms'
  BY <1>1 DEF Bdms, Holds, Reserves
<1>7. Guest'
  BY <1>1 DEF Guest, Held, Holds, Ends, Reserves
<1>. QED
  BY <1>2, <1>3, <1>4, <1>5, <1>6, <1>7

(* The BDM of a refused request goes. *)
LEMMA ReserveRefusedKeeps ==
    ASSUME Gentle, TypeInv, LockInv, NEW r \in Requests, ReserveRefused(r)
    PROVE  LockInv'
<1>. USE DEF TypeInv, TypeOK, LockInv, Goto, SetBdm, At, Call, cinder, nova, Inst
<1>1. /\ At(r, "check") /\ Goto(r, "over") /\ SetBdm(r, "none")
      /\ UNCHANGED <<cinder, guests, alive, op, held, calls, reply>>
  BY DEF ReserveRefused, Gentle, Reservable, Shown
<1>2. Straight'
  BY <1>1 DEF Straight, NoOp
<1>3. Calls'
  BY <1>1 DEF Calls
<1>4. OneHolds' /\ Held' /\ Free'
  BY <1>1 DEF OneHolds, Held, Free, Holds, Reserves
<1>5. OneEnds' /\ Ending' /\ Alone'
  BY <1>1 DEF OneEnds, Ending, Alone, Ends
<1>6. Bdms'
  BY <1>1 DEF Bdms, Holds, Reserves
<1>7. Guest'
  BY <1>1 DEF Guest, Held, Holds, Ends, Reserves
<1>. QED
  BY <1>2, <1>3, <1>4, <1>5, <1>6, <1>7

(* An available volume is held by nothing; now the request holds it. *)
LEMMA ReserveVolumeKeeps ==
    ASSUME Gentle, TypeInv, LockInv, NEW r \in Requests, ReserveVolume(r)
    PROVE  LockInv'
<1>. USE DEF TypeInv, TypeOK, LockInv, Goto, SetBdm, At, Call, cinder, nova, Inst
<1>1. /\ At(r, "check") /\ status = "available" /\ status' = "attaching"
      /\ Goto(r, "sent") /\ UNCHANGED <<attached, att, nova, op, held, calls, reply>>
  BY DEF ReserveVolume, Gentle, Reservable, Shown
<1>2. Straight'
  BY <1>1 DEF Straight, NoOp
<1>3. Calls'
  BY <1>1 DEF Calls
<1>4. Held' /\ Free'
  BY <1>1 DEF Held, Free, Reserves, Holds
<1>5. OneHolds'
  BY <1>1 DEF OneHolds, Free, Holds, Reserves
<1>6. OneEnds' /\ Ending' /\ Alone'
  BY <1>1 DEF OneEnds, Ending, Alone, Ends
<1>7. Guest' /\ Bdms'
  BY <1>1 DEF Guest, Bdms, Holds, Ends, Reserves
<1>. QED
  BY <1>2, <1>3, <1>4, <1>5, <1>6, <1>7

(* The holder finds the volume neither gone nor shown as attached. *)
LEMMA ConnectKeeps ==
    ASSUME Gentle, TypeInv, LockInv, NEW r \in Requests, Connect(r)
    PROVE  LockInv'
<1>. USE DEF TypeInv, TypeOK, LockInv, Goto, SetBdm, At, Call, cinder, nova, Inst
<1>1. /\ At(r, "sent") /\ \E p \in {"plug", "unreserve"} : Goto(r, p)
      /\ UNCHANGED <<cinder, nova, op, held, calls, reply>>
  BY DEF Connect, OneHolds, Held, Free, Gentle, InstanceLocked, Gone, Shown, Holds,
         Reserves, Locking
<1>2. Straight'
  BY <1>1 DEF Straight, NoOp
<1>3. Calls'
  BY <1>1 DEF Calls
<1>4. OneHolds' /\ Held' /\ Free'
  BY <1>1 DEF OneHolds, Held, Free, Holds, Reserves
<1>5. OneEnds' /\ Ending' /\ Alone'
  BY <1>1 DEF OneEnds, Ending, Alone, Ends
<1>6. Guest' /\ Bdms'
  BY <1>1 DEF Guest, Bdms, Holds, Ends, Reserves
<1>. QED
  BY <1>2, <1>3, <1>4, <1>5, <1>6

(* The holder's guest is the first to have the disk. *)
LEMMA PlugKeeps ==
    ASSUME Gentle, TypeInv, LockInv, NEW r \in Requests, Plug(r)
    PROVE  LockInv'
<1>. USE DEF TypeInv, TypeOK, LockInv, Goto, SetBdm, At, Call, cinder, nova, Inst
<1>1. /\ At(r, "plug") /\ att[r] = "none"
      /\ guests' = guests \cup {Inst(r)} /\ SetBdm(r, "connected")
      /\ Goto(r, "attach") /\ Call("attach", r) /\ UNCHANGED <<cinder, alive, op, held>>
  BY DEF Plug, Straight, Held, Gentle, Terminated, NoOp, Reserves
<1>2. Straight'
  BY <1>1 DEF Straight, NoOp
<1>3. Calls'
  BY <1>1 DEF Calls
<1>4. OneHolds' /\ Held' /\ Free'
  BY <1>1 DEF OneHolds, Held, Free, Holds, Reserves
<1>5. OneEnds' /\ Alone'
  BY <1>1 DEF OneEnds, Alone, Ends
<1>6. Ending'
  BY <1>1 DEF Ending, Held, Ends, Reserves
<1>7. Bdms'
  BY <1>1 DEF Bdms, Holds, Reserves
<1>8. Guest'
  BY <1>1 DEF Guest, OneHolds, Held, Ending, Holds, Ends, Reserves
<1>. QED
  BY <1>2, <1>3, <1>4, <1>5, <1>6, <1>7, <1>8

(* The attach is over; its attachment still holds the volume. *)
LEMMA AttachedKeeps ==
    ASSUME Gentle, TypeInv, LockInv, NEW r \in Requests, Attached(r)
    PROVE  LockInv'
<1>. USE DEF TypeInv, TypeOK, LockInv, Goto, SetBdm, At, Call, cinder, nova, Inst
<1>1. /\ At(r, "attach") /\ reply[r] = "ok" /\ Goto(r, "over")
      /\ UNCHANGED <<cinder, nova, op, held, calls, reply>>
  BY DEF Attached, Gentle
<1>2. Straight'
  BY <1>1 DEF Straight, NoOp
<1>3. Calls'
  BY <1>1 DEF Calls
<1>4. OneHolds' /\ Held' /\ Free'
  BY <1>1 DEF OneHolds, Held, Free, Holds, Reserves
<1>5. OneEnds' /\ Ending' /\ Alone'
  BY <1>1 DEF OneEnds, Ending, Alone, Ends
<1>6. Guest' /\ Bdms'
  BY <1>1 DEF Guest, Bdms, Holds, Ends, Reserves
<1>. QED
  BY <1>2, <1>3, <1>4, <1>5, <1>6

(* The holder gives the volume back before there is an attachment. *)
LEMMA UnreserveVolumeKeeps ==
    ASSUME Gentle, TypeInv, LockInv, NEW r \in Requests, UnreserveVolume(r)
    PROVE  LockInv'
<1>. USE DEF TypeInv, TypeOK, LockInv, Goto, SetBdm, At, Call, cinder, nova, Inst
<1>1. /\ At(r, "unreserve") /\ Goto(r, "over")
      /\ status' = "available" /\ SetBdm(r, "none")
      /\ UNCHANGED <<attached, att, guests, alive, op, held, calls, reply>>
      /\ \A q \in Requests \ {r} : ~Holds(q)
      /\ \A a \in Requests : att[a] # "attached" /\ ~Ends(a)
  <2>1. Holds(r) /\ status = "attaching" /\ ~Ends(r) /\ att[r] # "attached"
    BY DEF UnreserveVolume, Reserves, Holds, Held, Ends
  <2>2. \A q \in Requests \ {r} : ~Holds(q)
    BY <2>1 DEF OneHolds
  <2>3. \A a \in Requests : att[a] # "attached"
    BY <2>1, <2>2 DEF Holds
  <2>4. \A a \in Requests : ~Ends(a)
    BY <2>3 DEF Ending
  <2>5. Used = {}
    BY <2>1, <2>2, <2>3 DEF Used, Straight, Held, Holds, Reserves, UnreserveVolume
  <2>. QED
    BY <2>1, <2>2, <2>3, <2>4, <2>5 DEF UnreserveVolume, Unreserve
<1>2. Straight'
  BY <1>1 DEF Straight, NoOp
<1>3. Calls'
  BY <1>1 DEF Calls
<1>4. OneHolds'
  BY <1>1 DEF OneHolds, Holds, Reserves
<1>5. Held'
  BY <1>1 DEF Held, Holds, Reserves
<1>6. Free'
  BY <1>1 DEF Free, OneHolds, Held, Holds, Reserves
<1>7. OneEnds' /\ Ending' /\ Alone'
  BY <1>1 DEF OneEnds, Ending, Alone, Ends
<1>8. Bdms'
  BY <1>1 DEF Bdms, Holds, Reserves
<1>9. Guest'
  BY <1>1 DEF Guest, Held, Holds, Ends, Reserves
<1>. QED
  BY <1>2, <1>3, <1>4, <1>5, <1>6, <1>7, <1>8, <1>9

(* A detach finds the BDM of the attachment that it ends: no other BDM is connected. *)
LEMMA UnplugKeeps ==
    ASSUME Gentle, TypeInv, LockInv, NEW r \in Requests, Unplug(r)
    PROVE  LockInv'
<1>. USE DEF TypeInv, TypeOK, LockInv, Goto, SetBdm, At, Call, cinder, nova, Inst
<1>1. /\ At(r, "unplug")
      /\ \E k \in Requests : att[k] = "attached" /\ held' = [held EXCEPT ![r] = {k}]
      /\ guests' = guests \ {Inst(r)} /\ Goto(r, "disconnect")
      /\ UNCHANGED <<cinder, bdm, alive, op, calls, reply>>
  <2>1. /\ At(r, "unplug") /\ status = "detaching" /\ Ends(r)
        /\ \E k \in Requests : bdm[k] = "connected" /\ held' = [held EXCEPT ![r] = {k}]
        /\ guests' = guests \ {Inst(r)} /\ Goto(r, "disconnect")
        /\ UNCHANGED <<cinder, bdm, alive, op, calls, reply>>
    BY DEF Unplug, BdmsFound, Ending, Ends
  <2>2. ASSUME NEW k \in Requests, bdm[k] = "connected" PROVE att[k] = "attached"
    <3>1. ASSUME NEW t \in Requests, Inst(t) = Inst(k), pc[t] \in {"killing", "killed"}
          PROVE  FALSE
      <4>1. op[t].kind = "terminate"
        BY <3>1 DEF Placed
      <4>2. op[t] = [kind |-> "terminate", inst |-> Inst(k)]
        BY <3>1, <4>1 DEF NoOp, Kinds
      <4>. QED
        BY <2>2, <3>1, <4>2 DEF Unplug, Abandoned, BdmsFound, Terminated, Gentle
    <3>. QED
      BY <2>1, <2>2, <3>1 DEF Bdms, Held, Holds, Reserves
  <2>. QED
    BY <2>1, <2>2
<1>2. Straight'
  BY <1>1 DEF Straight, NoOp
<1>3. Calls'
  BY <1>1 DEF Calls
<1>4. OneHolds' /\ Held' /\ Free'
  BY <1>1 DEF OneHolds, Held, Free, Holds, Reserves
<1>5. OneEnds' /\ Alone'
  BY <1>1 DEF OneEnds, Alone, Ends
<1>6. Ending'
  BY <1>1 DEF Ending, OneHolds, OneEnds, Held, Ends, Holds, Reserves
<1>7. Bdms'
  BY <1>1 DEF Bdms, Holds, Reserves
<1>8. Guest'
  BY <1>1 DEF Guest, OneHolds, OneEnds, Held, Ending, Holds, Ends, Reserves
<1>. QED
  BY <1>2, <1>3, <1>4, <1>5, <1>6, <1>7, <1>8

(* The detach is rolled back: the volume is in use as before. *)
LEMMA UnplugFailsKeeps ==
    ASSUME Gentle, TypeInv, LockInv, NEW r \in Requests, UnplugFails(r)
    PROVE  LockInv'
<1>. USE DEF TypeInv, TypeOK, LockInv, Goto, SetBdm, At, Call, cinder, nova, Inst
<1>1. /\ At(r, "unplug") /\ Goto(r, "over")
      /\ status = "detaching" /\ status' = "in-use"
      /\ UNCHANGED <<attached, att, nova, op, held, calls, reply>>
      /\ \A q \in Requests \ {r} : ~Ends(q)
      /\ att[r] # "attached" /\ ~Holds(r)
  <2>1. Ends(r) /\ status = "detaching" /\ att[r] # "attached" /\ ~Holds(r)
    BY DEF UnplugFails, Ends, Ending, Held, Holds, Reserves
  <2>. QED
    BY <2>1 DEF UnplugFails, RollDetaching, OneEnds
<1>2. Straight'
  BY <1>1 DEF Straight, NoOp
<1>3. Calls'
  BY <1>1 DEF Calls
<1>4. OneHolds' /\ Held' /\ Free'
  BY <1>1 DEF OneHolds, Held, Free, Holds, Reserves
<1>5. OneEnds'
  BY <1>1 DEF OneEnds, Ends
<1>6. Ending'
  BY <1>1 DEF Ending, OneEnds, Ends
<1>7. Alone'
  BY <1>1 DEF Alone, Placed, AttachPlaces, Ends
<1>8. Bdms'
  BY <1>1 DEF Bdms, Holds, Reserves
<1>9. Guest'
  BY <1>1 DEF Guest, OneEnds, Holds, Ends, Reserves
<1>. QED
  BY <1>2, <1>3, <1>4, <1>5, <1>6, <1>7, <1>8, <1>9

(* The detach destroys the BDM of the attachment and calls Cinder. *)
LEMMA DisconnectKeeps ==
    ASSUME Gentle, TypeInv, LockInv, NEW r \in Requests, Disconnect(r)
    PROVE  LockInv'
<1>. USE DEF TypeInv, TypeOK, LockInv, Goto, SetBdm, At, Call, cinder, nova, Inst
<1>1. /\ At(r, "disconnect") /\ Call("detach", r) /\ Goto(r, "detached")
      /\ bdm' = [k \in Requests |-> IF k \in held[r] THEN "none" ELSE bdm[k]]
      /\ UNCHANGED <<cinder, guests, alive, op, held>>
  BY DEF Disconnect, Ending, Gentle, Gone, Unreserve, Ends, Used
<1>2. Straight'
  BY <1>1 DEF Straight, NoOp
<1>3. Calls'
  BY <1>1 DEF Calls
<1>4. OneHolds' /\ Held' /\ Free'
  BY <1>1 DEF OneHolds, Held, Free, Holds, Reserves
<1>5. OneEnds'
  BY <1>1 DEF OneEnds, Ends
<1>6. Ending'
  BY <1>1 DEF Ending, OneEnds, Ends
<1>7. Guest'
  BY <1>1 DEF Guest, Held, Holds, Ends, Reserves
<1>8. Bdms'
  BY <1>1 DEF Bdms, Holds, Reserves
<1>9. Alone'
  BY <1>1 DEF Alone, Placed, AttachPlaces, Ends
<1>. QED
  BY <1>2, <1>3, <1>4, <1>5, <1>6, <1>7, <1>8, <1>9

(* The detach is over. *)
LEMMA DetachedKeeps ==
    ASSUME Gentle, TypeInv, LockInv, NEW r \in Requests, Detached(r)
    PROVE  LockInv'
<1>. USE DEF TypeInv, TypeOK, LockInv, Goto, SetBdm, At, Call, cinder, nova, Inst
<1>1. /\ At(r, "detached") /\ reply[r] # "none" /\ Goto(r, "over")
      /\ UNCHANGED <<cinder, nova, op, held, calls, reply>>
  BY DEF Detached, Gentle, Answered
<1>2. Straight'
  BY <1>1 DEF Straight, NoOp
<1>3. Calls'
  BY <1>1 DEF Calls
<1>4. OneHolds' /\ Held' /\ Free'
  BY <1>1 DEF OneHolds, Held, Free, Holds, Reserves
<1>5. OneEnds' /\ Ending'
  BY <1>1 DEF OneEnds, Ending, Ends
<1>6. Alone'
  BY <1>1 DEF Alone, Placed, AttachPlaces, Ends
<1>7. Bdms'
  BY <1>1 DEF Bdms, Holds, Reserves
<1>8. Guest'
  BY <1>1 DEF Guest, Held, Holds, Ends, Reserves
<1>. QED
  BY <1>2, <1>3, <1>4, <1>5, <1>6, <1>7, <1>8

(* A termination has read the BDM of the attachment of its instance, if there is one. *)
LEMMA KillKeeps ==
    ASSUME Gentle, TypeInv, LockInv, Fresh, NEW r \in Requests, Kill(r)
    PROVE  LockInv'
<1>. USE DEF TypeInv, TypeOK, LockInv, Goto, SetBdm, At, Call, cinder, nova, Inst
<1>1. /\ At(r, "kill") /\ held' = held /\ held[r] = BdmsOf(Inst(r))
      /\ guests' = guests \ {Inst(r)} /\ Goto(r, "killing")
      /\ UNCHANGED <<cinder, bdm, alive, op, calls, reply>>
      /\ \A k \in BdmsOf(Inst(r)) : att[k] = "attached"
      /\ \A a \in Requests : Ends(a) => Inst(a) # Inst(r)
      /\ \A a \in Requests :
           att[a] = "attached" /\ Inst(a) = Inst(r) => a \in BdmsOf(Inst(r))
  <2>1. op[r].kind = "terminate" /\ Inst(r) \notin alive /\ ~Ends(r)
        /\ \A q \in Requests \ {r} : Inst(q) = Inst(r) => pc[q] = "over"
    BY DEF Kill, Alone, Placed, Ends
  <2>2. \A a \in Requests : Ends(a) => Inst(a) # Inst(r)
    BY <2>1 DEF Ends
  <2>3. ASSUME NEW a \in Requests, att[a] = "attached", Inst(a) = Inst(r)
        PROVE  bdm[a] = "connected"
    <3>1. \A d \in Requests : ~Ends(d)
      BY <2>2, <2>3 DEF Ending, OneHolds, Holds
    <3>. QED
      BY <2>3, <3>1 DEF Guest, Held, Holds
  <2>4. ASSUME NEW k \in BdmsOf(Inst(r)) PROVE att[k] = "attached"
    <3>1. pc[k] = "over" /\ k # r
      BY <2>1, <2>4 DEF BdmsOf, Bdms, Kill, Held, Holds, Reserves
    <3>2. bdm[k] = "connected"
      BY <3>1, <2>4 DEF BdmsOf, Bdms
    <3>3. \A t \in Requests : Inst(t) = Inst(k) => pc[t] \notin {"killing", "killed"}
      BY <2>1, <2>4 DEF BdmsOf, Kill
    <3>. QED
      BY <2>4, <3>1, <3>2, <3>3 DEF BdmsOf, Bdms, Holds, Reserves
  <2>. QED
    BY <2>2, <2>3, <2>4 DEF Kill, Fresh, BdmsOf
<1>2. Straight'
  BY <1>1 DEF Straight, NoOp
<1>3. Calls'
  BY <1>1 DEF Calls
<1>4. OneHolds' /\ Held' /\ Free'
  BY <1>1 DEF OneHolds, Held, Free, Holds, Reserves
<1>5. OneEnds'
  BY <1>1 DEF OneEnds, OneHolds, Ending, BdmsOf, Ends, Holds, Reserves
<1>6. Ending'
  BY <1>1 DEF Ending, OneHolds, Held, BdmsOf, Ends, Holds, Reserves
<1>7. Alone'
  BY <1>1
  DEF Alone, Guest, Ending, BdmsOf, Placed, AttachPlaces, Ends, Holds, Reserves
<1>8. Bdms'
  BY <1>1 DEF Bdms, Holds, Reserves
<1>9. Guest'
  BY <1>1 DEF Guest, OneHolds, Held, Ending, BdmsOf, Holds, Ends, Reserves
<1>. QED
  BY <1>2, <1>3, <1>4, <1>5, <1>6, <1>7, <1>8, <1>9

(* It ends the attachment whose BDM it has read. *)
LEMMA KillConnectionKeeps ==
    ASSUME Gentle, TypeInv, LockInv, NEW r \in Requests, KillConnection(r)
    PROVE  LockInv'
<1>. USE DEF TypeInv, TypeOK, LockInv, Goto, SetBdm, At, Call, cinder, nova, Inst
<1>1. /\ At(r, "killing") /\ held[r] # {} /\ Call("detach", r) /\ Goto(r, "killed")
      /\ held' = [held EXCEPT ![r] = {}] /\ status = "in-use"
      /\ UNCHANGED <<cinder, nova, op>>
  <2>1. PICK k \in held[r] : held' = [held EXCEPT ![r] = @ \ {k}]
    BY DEF KillConnection
  <2>2. status = "in-use" /\ held[r] = {k}
    BY <2>1 DEF KillConnection, Ending, OneHolds, Holds
  <2>. QED
    BY <2>1, <2>2 DEF KillConnection, Unreserve, Gone, Gentle
<1>2. Straight'
  BY <1>1 DEF Straight, NoOp
<1>3. Calls'
  BY <1>1 DEF Calls
<1>4. OneHolds' /\ Held' /\ Free'
  BY <1>1 DEF OneHolds, Held, Free, Holds, Reserves
<1>5. OneEnds' /\ Ending' /\ Alone'
  BY <1>1 DEF OneEnds, Ending, Alone, Ends
<1>6. Bdms'
  BY <1>1 DEF Bdms, Holds, Reserves
<1>7. Guest'
  BY <1>1 DEF Guest, Held, Holds, Ends, Reserves
<1>. QED
  BY <1>2, <1>3, <1>4, <1>5, <1>6, <1>7

(* It has no other BDM to go through. *)
LEMMA KilledKeeps ==
    ASSUME Gentle, TypeInv, LockInv, NEW r \in Requests, Killed(r)
    PROVE  LockInv'
<1>. USE DEF TypeInv, TypeOK, LockInv, Goto, SetBdm, At, Call, cinder, nova, Inst
<1>1. /\ At(r, "killed") /\ reply[r] # "none" /\ held[r] = {} /\ Goto(r, "killing")
      /\ UNCHANGED <<cinder, nova, op, held, calls, reply>>
  BY DEF Killed, Ending, Gentle, Answered, Ends
<1>2. Straight'
  BY <1>1 DEF Straight, NoOp
<1>3. Calls'
  BY <1>1 DEF Calls
<1>4. OneHolds' /\ Held' /\ Free'
  BY <1>1 DEF OneHolds, Held, Free, Holds, Reserves
<1>5. OneEnds' /\ Ending' /\ Alone'
  BY <1>1 DEF OneEnds, Ending, Alone, Ends
<1>6. Bdms'
  BY <1>1 DEF Bdms, Holds, Reserves
<1>7. Guest'
  BY <1>1 DEF Guest, Held, Holds, Ends, Reserves
<1>. QED
  BY <1>2, <1>3, <1>4, <1>5, <1>6, <1>7

(* The BDMs of the instance go when its attachment is gone. *)
LEMMA TerminateDoneKeeps ==
    ASSUME Gentle, TypeInv, LockInv, NEW r \in Requests, TerminateDone(r)
    PROVE  LockInv'
<1>. USE DEF TypeInv, TypeOK, LockInv, Goto, SetBdm, At, Call, cinder, nova, Inst
<1>1. /\ At(r, "killing") /\ held[r] = {} /\ Goto(r, "over")
      /\ bdm' = [k \in Requests |-> IF Inst(k) = Inst(r) THEN "none" ELSE bdm[k]]
      /\ UNCHANGED <<cinder, guests, alive, op, held, calls, reply>>
  BY DEF TerminateDone, Gentle
<1>2. Straight'
  BY <1>1 DEF Straight, NoOp
<1>3. Calls'
  BY <1>1 DEF Calls
<1>4. OneHolds' /\ Held' /\ Free'
  BY <1>1 DEF OneHolds, Held, Free, Holds, Reserves
<1>5. OneEnds' /\ Ending' /\ Alone'
  BY <1>1 DEF OneEnds, Ending, Alone, Ends
<1>6. Bdms'
  BY <1>1 DEF Bdms, Holds, Reserves
<1>7. Guest'
  BY <1>1 DEF Guest, Held, Alone, Placed, AttachPlaces, Holds, Ends, Reserves
<1>. QED
  BY <1>2, <1>3, <1>4, <1>5, <1>6, <1>7

(* cinder-volume finds the volume that is being deleted not attached. *)
LEMMA CinderDeleteKeeps ==
    ASSUME Gentle, TypeInv, LockInv, NEW r \in Requests, CinderDelete(r)
    PROVE  LockInv'
<1>. USE DEF TypeInv, TypeOK, LockInv, Goto, SetBdm, At, Call, cinder, nova, Inst
<1>1. /\ At(r, "delete") /\ Goto(r, "deleting")
      /\ UNCHANGED <<cinder, nova, op, held, calls, reply>>
  BY DEF CinderDelete, Free, OneHolds, Held, Gentle, Gone, Holds, Reserves
<1>2. Straight'
  BY <1>1 DEF Straight, NoOp
<1>3. Calls'
  BY <1>1 DEF Calls
<1>4. OneHolds' /\ Held' /\ Free'
  BY <1>1 DEF OneHolds, Held, Free, Holds, Reserves
<1>5. OneEnds' /\ Ending' /\ Alone'
  BY <1>1 DEF OneEnds, Ending, Alone, Ends
<1>6. Guest'
  BY <1>1 DEF Guest, Held, Holds, Ends, Reserves
<1>7. Bdms'
  BY <1>1 DEF Bdms, Held, Holds, Reserves
<1>. QED
  BY <1>2, <1>3, <1>4, <1>5, <1>6, <1>7

(* The volume is deleted or free again. *)
LEMMA CinderDeletedKeeps ==
    ASSUME Gentle, TypeInv, LockInv, NEW r \in Requests, CinderDeleted(r)
    PROVE  LockInv'
<1>. USE DEF TypeInv, TypeOK, LockInv, Goto, SetBdm, At, Call, cinder, nova, Inst
<1>1. /\ At(r, "deleting") /\ Goto(r, "over")
      /\ status' \in {"deleted", "available", "error_deleting"}
      /\ UNCHANGED <<attached, att, nova, op, held, calls, reply>>
      /\ \A q \in Requests \ {r} : ~Holds(q)
  BY DEF CinderDeleted, OneHolds, Gentle, Gone, Holds, Reserves
<1>2. Straight'
  BY <1>1 DEF Straight, NoOp
<1>3. Calls'
  BY <1>1 DEF Calls
<1>4. OneHolds'
  BY <1>1 DEF OneHolds, Holds, Reserves
<1>5. Held'
  BY <1>1 DEF Held, Holds, Reserves
<1>6. Free'
  BY <1>1 DEF Free, Held, Holds, Reserves
<1>7. OneEnds' /\ Alone'
  BY <1>1 DEF OneEnds, Alone, Ends
<1>8. Ending'
  BY <1>1 DEF Ending, Held, Ends, Reserves
<1>9. Guest'
  BY <1>1 DEF Guest, Held, Holds, Ends, Reserves
<1>10. Bdms'
  BY <1>1 DEF Bdms, Held, Holds, Reserves
<1>. QED
  BY <1>2, <1>3, <1>4, <1>5, <1>6, <1>7, <1>8, <1>9, <1>10

(* cinder-volume makes the attachment of the holder, the only one. *)
LEMMA CinderAttachKeeps ==
    ASSUME Gentle, TypeInv, LockInv, NEW r \in Requests, CinderAttach(r)
    PROVE  LockInv'
<1>. USE DEF TypeInv, TypeOK, LockInv, Goto, SetBdm, At, Call, cinder, nova, Inst
<1>1. /\ At(r, "attach") /\ reply[r] = "none" /\ att[r] = "none"
      /\ <<"attach", r, r>> \in calls
      /\ att' = [att EXCEPT ![r] = "attaching"]
      /\ calls' = (calls \ {<<"attach", r, r>>}) \cup {<<"attaching", r, r>>}
      /\ UNCHANGED <<status, attached, nova, op, pc, held, reply>>
  BY DEF CinderAttach, Straight, OneHolds, Held, Calls, Gentle, Attachable, Kept,
         Answer, NoOp, Holds, Reserves, Gone, Used, Named, Waits
<1>2. Straight'
  BY <1>1 DEF Straight, NoOp
<1>3. Calls'
  BY <1>1 DEF Calls
<1>4. OneHolds' /\ Held' /\ Free'
  BY <1>1 DEF OneHolds, Held, Free, Holds, Reserves
<1>5. OneEnds' /\ Ending' /\ Alone'
  BY <1>1 DEF OneEnds, Ending, Alone, Ends
<1>6. Guest' /\ Bdms'
  BY <1>1 DEF Guest, Bdms, Holds, Ends, Reserves
<1>. QED
  BY <1>2, <1>3, <1>4, <1>5, <1>6

(* The holder's attachment is attached. *)
LEMMA CinderAttachedKeeps ==
    ASSUME Gentle, TypeInv, LockInv, NEW r \in Requests, CinderAttached(r)
    PROVE  LockInv'
<1>. USE DEF TypeInv, TypeOK, LockInv, Goto, SetBdm, At, Call, cinder, nova, Inst
<1>1. /\ At(r, "attach") /\ reply[r] = "none" /\ att[r] = "attaching"
      /\ <<"attaching", r, r>> \in calls
      /\ att' = [att EXCEPT ![r] = "attached"] /\ attached' = TRUE /\ status' = "in-use"
      /\ reply' = [reply EXCEPT ![r] = "ok"] /\ calls' = calls \ {<<"attaching", r, r>>}
      /\ UNCHANGED <<nova, op, pc, held>>
      /\ \A q \in Requests : att[q] # "attached" /\ ~Ends(q) /\ (q # r => ~Holds(q))
  BY DEF CinderAttached, OneHolds, Held, Calls, Ending, Gentle, Gone, Answer, Holds,
         Reserves, Ends, Waits
<1>2. Straight'
  BY <1>1 DEF Straight, NoOp
<1>3. Calls'
  BY <1>1 DEF Calls
<1>4. OneHolds' /\ Free'
  BY <1>1 DEF OneHolds, Free, Holds, Reserves
<1>5. Held'
  BY <1>1 DEF Held, Placed, AttachPlaces, Holds, Reserves
<1>6. OneEnds' /\ Ending'
  BY <1>1 DEF OneEnds, Ending, Ends
<1>7. Alone'
  BY <1>1 DEF Alone, Placed, AttachPlaces, Ends
<1>8. Guest' /\ Bdms'
  BY <1>1 DEF Guest, Bdms, Holds, Ends, Reserves
<1>. QED
  BY <1>2, <1>3, <1>4, <1>5, <1>6, <1>7, <1>8

(* cinder-volume finds the one attachment, of the instance that is detached. *)
LEMMA CinderDetachKeeps ==
    ASSUME Gentle, TypeInv, LockInv, NEW r \in Requests, CinderDetach(r)
    PROVE  LockInv'
<1>. USE DEF TypeInv, TypeOK, LockInv, Goto, SetBdm, At, Call, cinder, nova, Inst
<1>1. \E a \in Requests :
        /\ att[a] = "attached" /\ Ends(r) /\ <<"detach", r, r>> \in calls
        /\ calls' = (calls \ {<<"detach", r, r>>}) \cup {<<"detaching", r, a>>}
        /\ UNCHANGED <<cinder, nova, op, pc, held, reply>>
  <2>1. <<"detach", r, r>> \in calls /\ Ends(r) /\ UNCHANGED <<att, nova, op, pc, held>>
    BY DEF CinderDetach, Calls, Ends
  <2>2. PICK a \in Requests : att[a] = "attached"
    BY <2>1 DEF Ending
  <2>3. Used = {a} /\ ~Gone
    BY <2>2 DEF Straight, OneHolds, Held, Used, Gone, Holds, Reserves
  <2>4. Cardinality(Used) = 1
    BY <2>3, FS_Singleton
  <2>5. /\ Used # {} /\ ~(Cardinality(Used) > 1)
        /\ \A a2 \in Requests : Used = {a2} => a2 = a
    BY <2>3, <2>4
  <2>6. \E a2 \in Requests :
          /\ Used = {a2}
          /\ calls' = (calls \ {<<"detach", r, r>>}) \cup {<<"detaching", r, a2>>}
          /\ UNCHANGED <<status, attached, reply>>
    BY <2>3, <2>5 DEF CinderDetach
  <2>7. /\ calls' = (calls \ {<<"detach", r, r>>}) \cup {<<"detaching", r, a>>}
        /\ UNCHANGED <<status, attached, reply>>
    BY <2>5, <2>6
  <2>. QED
    BY <2>1, <2>2, <2>7
<1>2. Straight'
  BY <1>1 DEF Straight, NoOp
<1>3. Calls'
  BY <1>1 DEF Calls
<1>4. OneHolds' /\ Held' /\ Free'
  BY <1>1 DEF OneHolds, Held, Free, Holds, Reserves
<1>5. OneEnds' /\ Ending' /\ Alone'
  BY <1>1 DEF OneEnds, Ending, Alone, Ends
<1>6. Guest' /\ Bdms'
  BY <1>1 DEF Guest, Bdms, Holds, Ends, Reserves
<1>. QED
  BY <1>2, <1>3, <1>4, <1>5, <1>6

(* The attachment is gone, and nothing holds the volume. *)
LEMMA CinderDetachedKeeps ==
    ASSUME Gentle, TypeInv, LockInv, NEW r \in Requests, NEW a \in Requests,
           CinderDetached(r, a)
    PROVE  LockInv'
<1>. USE DEF TypeInv, TypeOK, LockInv, Goto, SetBdm, At, Call, cinder, nova, Inst
<1>1. /\ att[a] = "attached" /\ pc[r] \in {"detached", "killed"} /\ reply[r] = "none"
      /\ <<"detaching", r, a>> \in calls
      /\ att' = [att EXCEPT ![a] = "none"] /\ attached' = FALSE /\ status' = "available"
      /\ reply' = [reply EXCEPT ![r] = "ok"] /\ calls' = calls \ {<<"detaching", r, a>>}
      /\ UNCHANGED <<nova, op, pc, held>>
      /\ \A q \in Requests \ {a} : ~Holds(q)
      /\ \A q \in Requests \ {r} : ~Ends(q)
  <2>1. /\ <<"detaching", r, a>> \in calls /\ att[a] = "attached"
        /\ pc[r] \in {"detached", "killed"} /\ reply[r] = "none"
    BY DEF CinderDetached, Calls
  <2>2. \A q \in Requests \ {r} : ~Ends(q)
    BY <2>1 DEF OneEnds, Ends
  <2>3. \A q \in Requests \ {a} : ~Holds(q)
    BY <2>1 DEF OneHolds, Holds
  <2>4. Used = {a} /\ ~Gone
    BY <2>1, <2>3 DEF Straight, Held, Used, Gone, Holds, Reserves
  <2>. QED
    BY <2>1, <2>2, <2>3, <2>4 DEF CinderDetached, Answer, Waits, Gentle
<1>2. Straight'
  BY <1>1 DEF Straight, NoOp
<1>3. Calls'
  BY <1>1 DEF Calls, OneEnds, Ends
<1>4. OneHolds'
  BY <1>1 DEF OneHolds, Holds, Reserves
<1>5. Held'
  BY <1>1 DEF Held, Holds, Reserves
<1>6. Free'
  BY <1>1 DEF Free, Holds, Held, Reserves
<1>7. OneEnds' /\ Ending'
  BY <1>1 DEF OneEnds, Ending, Ends
<1>8. Alone'
  BY <1>1 DEF Alone, Placed, AttachPlaces, Holds, Ends, Reserves
<1>9. Guest'
  BY <1>1 DEF Guest, Held, Holds, Ends, Reserves
<1>10. Bdms'
  BY <1>1 DEF Bdms, Ending, Held, Holds, Ends, Reserves
<1>. QED
  BY <1>2, <1>3, <1>4, <1>5, <1>6, <1>7, <1>8, <1>9, <1>10

(* What a request with no races, whose attach needs no undoing, never does. *)
LEMMA NothingUndone ==
    ASSUME Gentle, TypeInv, LockInv, NEW r \in Requests
    PROVE  /\ ~ReserveSave(r) /\ ~CastFails(r) /\ ~PlugFails(r) /\ ~AttachFailed(r)
           /\ ~Unconnect(r) /\ ~Undetach(r) /\ ~Undetached(r)
           /\ ~BeginDetaching(r) /\ ~BeginSave(r) /\ ~UnplugRaises(r) /\ ~DeleteSave(r)
<1>. USE DEF TypeInv, TypeOK, LockInv, At
<1>1. /\ ~ReserveSave(r) /\ ~CastFails(r) /\ ~Unconnect(r) /\ ~Undetach(r)
      /\ ~Undetached(r) /\ ~BeginDetaching(r) /\ ~BeginSave(r) /\ ~DeleteSave(r)
  BY DEF Gentle, Straight, ReserveSave, CastFails, Unconnect, Undetach, Undetached,
         BeginDetaching, BeginSave, DeleteSave
<1>2. ~AttachFailed(r)
  BY DEF Gentle, Straight, AttachFailed, Answered
<1>3. ~PlugFails(r)
  <2>1. SUFFICES ASSUME PlugFails(r) PROVE FALSE
    OBVIOUS
  <2>2. pc[r] = "plug" /\ Terminated(Inst(r))
    BY <2>1 DEF PlugFails, Gentle, Straight
  <2>3. PICK t \in Requests : op[t] = [kind |-> "terminate", inst |-> Inst(r)]
    BY <2>2 DEF Terminated
  <2>4. op[t].kind = "terminate" /\ Inst(t) = Inst(r) /\ t # r
    BY <2>2, <2>3 DEF Inst, Placed, AttachPlaces
  <2>. QED
    BY <2>2, <2>4 DEF Alone
<1>4. ~UnplugRaises(r)
  <2>1. SUFFICES ASSUME UnplugRaises(r) PROVE FALSE
    OBVIOUS
  <2>2. Ends(r) /\ pc[r] = "unplug" /\ \A k \in Requests : pc[k] # "check"
    BY <2>1 DEF UnplugRaises, Ends, Unchecked, Gentle
  <2>3. PICK a \in Requests : att[a] = "attached"
    BY <2>2 DEF Ending
  <2>4. Holds(a) /\ pc[a] \in {"attach", "over"}
    BY <2>3 DEF Held, Holds
  <2>5. bdm[a] = "connected"
    BY <2>2, <2>4 DEF Guest, OneEnds
  <2>6. PICK k \in Requests : bdm[k] = "reserved"
    BY <2>1, <2>5 DEF UnplugRaises, BdmsFound
  <2>7. pc[k] \in {"sent", "plug", "unreserve"}
    BY <2>2, <2>6 DEF Bdms
  <2>. QED
    BY <2>4, <2>7 DEF OneHolds, Holds, Reserves
<1>. QED
  BY <1>1, <1>2, <1>3, <1>4

(* A step of a request leaves the BDMs of an instance whose termination is on *)
(* its way to the host alone: every other request about it is over.           *)
LEMMA OthersLeave ==
    ASSUME Gentle, TypeInv, LockInv, Fresh, NEW r \in Requests, NEW t \in Requests,
           pc[t] = "kill", r # t, pc[r] \notin {"unused", "over"}
    PROVE  /\ Inst(r) # Inst(t)
           /\ Ends(r) => \A k \in held[r] :
                 pc[r] \in {"disconnect", "killing"} => Inst(k) # Inst(t)
<1>. USE DEF TypeInv, TypeOK, LockInv
<1>1. Inst(r) # Inst(t)
  BY DEF Alone, Placed
<1>2. ASSUME Ends(r), NEW k \in held[r], pc[r] \in {"disconnect", "killing"}
      PROVE  Inst(k) # Inst(t)
  <2>1. k \in Requests /\ att[k] = "attached"
    BY <1>2 DEF Ending
  <2>2. PICK a \in Requests : att[a] = "attached" /\ Inst(a) = Inst(r)
    BY <1>2 DEF Ending
  <2>3. a = k
    BY <2>1, <2>2 DEF OneHolds, Holds
  <2>. QED
    BY <1>1, <2>2, <2>3
<1>. QED
  BY <1>1, <1>2

(* What the API has read for a termination stays what there is. *)
LEMMA NextKeepsFresh ==
    ASSUME Gentle, TypeInv, LockInv, Fresh, [Next]_vars
    PROVE  Fresh'
<1>. USE DEF TypeInv, TypeOK, Goto, SetBdm, At, Call, cinder, nova, Inst
<1>. SUFFICES ASSUME NEW t \in Requests
              PROVE  /\ pc'[t] = "unused" => bdm'[t] = "none"
                     /\ pc'[t] = "kill" => held'[t] = BdmsOf(Inst(t))'
  BY DEF Fresh
<1>1. ASSUME NEW r \in Requests, User(r)
      PROVE  /\ pc'[t] = "unused" => bdm'[t] = "none"
             /\ pc'[t] = "kill" => held'[t] = BdmsOf(Inst(t))'
  <2>1. /\ pc[r] = "unused" /\ bdm[r] = "none" /\ bdm' = bdm /\ pc'[r] # "unused"
        /\ \A q \in Requests \ {r} :
              pc'[q] = pc[q] /\ held'[q] = held[q] /\ op'[q] = op[q]
    BY <1>1 DEF User, New, AttachVolume, DetachVolume, TerminateInstance, DeleteVolume,
                Fresh
  <2>2. \A i : BdmsOf(i)' = BdmsOf(i)
    BY <2>1 DEF BdmsOf
  <2>3. pc'[r] = "kill" => held'[r] = BdmsOf(op'[r].inst)
    BY <1>1 DEF User, New, AttachVolume, DetachVolume, TerminateInstance, DeleteVolume
  <2>. QED
    BY <2>1, <2>2, <2>3 DEF Fresh
<1>2. ASSUME NEW r \in Requests,
             \/ Attach(r) \/ CastFails(r) \/ Detach(r) \/ Terminate(r) \/ Delete(r)
             \/ Cinder(r)
      PROVE  /\ pc'[t] = "unused" => bdm'[t] = "none"
             /\ pc'[t] = "kill" => held'[t] = BdmsOf(Inst(t))'
  <2>1. /\ op' = op /\ \A q \in Requests \ {r} : pc'[q] = pc[q]
        /\ \A q \in Requests \ {r} : held'[q] = held[q]
        /\ \/ pc' = pc /\ bdm' = bdm /\ held' = held
           \/ pc[r] \notin {"unused", "over"} /\ pc'[r] \notin {"unused", "kill"}
        /\ \A k \in Requests :
              \/ bdm'[k] = bdm[k]
              \/ k = r
              \/ pc[r] = "disconnect" /\ k \in held[r] /\ bdm'[k] = "none"
              \/ pc[r] = "killing" /\ Inst(k) = Inst(r) /\ bdm'[k] = "none"
    <3>1. CASE Attach(r) \/ CastFails(r)
      BY <3>1
      DEF Attach, ReserveBlockDeviceName, ReserveRefused, ReserveVolume, ReserveSave,
          CastFails, Connect, Plug, PlugFails, Attached, AttachFailed, Unconnect,
          Undetach, Undetached, UnreserveVolume
    <3>2. CASE Detach(r)
      BY <3>2
      DEF Detach, BeginDetaching, BeginSave, Unplug, UnplugFails, UnplugRaises,
          Disconnect, Detached
    <3>3. CASE Terminate(r) \/ Delete(r)
      BY <3>3
      DEF Terminate, Kill, KillConnection, Killed, TerminateDone, Delete, DeleteSave,
          CinderDelete, CinderDeleted
    <3>4. CASE Cinder(r)
      BY <3>4
      DEF Cinder, CinderAttach, CinderAttached, CinderDetach, CinderDetached
    <3>. QED
      BY <1>2, <3>1, <3>2, <3>3, <3>4
  <2>2. pc'[t] = "unused" => bdm'[t] = "none"
    BY <2>1 DEF Fresh
  <2>3. ASSUME pc'[t] = "kill" PROVE held'[t] = BdmsOf(Inst(t))'
    <3>1. CASE pc' = pc /\ bdm' = bdm /\ held' = held
      BY <2>1, <2>3, <3>1 DEF Fresh, BdmsOf
    <3>2. CASE pc[r] \notin {"unused", "over"} /\ pc'[r] \notin {"unused", "kill"}
      <4>1. r # t /\ pc[t] = "kill" /\ held'[t] = BdmsOf(Inst(t))
        BY <2>1, <2>3, <3>2 DEF Fresh
      <4>2. ASSUME NEW k \in Requests, Inst(k) = Inst(t) PROVE bdm'[k] = bdm[k]
        BY <2>1, <3>2, <4>1, <4>2, OthersLeave DEF Ends
      <4>. QED
        BY <2>1, <4>1, <4>2 DEF BdmsOf
    <3>. QED
      BY <2>1, <3>1, <3>2
  <2>. QED
    BY <2>2, <2>3
<1>3. CASE UNCHANGED vars
  BY <1>3 DEF vars, Fresh, BdmsOf
<1>. QED
  BY <1>1, <1>2, <1>3 DEF Next

(* Every step keeps the lock. *)
LEMMA NextKeepsLock ==
    ASSUME Gentle, TypeInv, LockInv, Fresh, [Next]_vars
    PROVE  LockInv'
<1>1. ASSUME NEW r \in Requests, User(r) PROVE LockInv'
  BY <1>1, AttachVolumeKeeps, DetachVolumeKeeps, TerminateInstanceKeeps,
     DeleteVolumeKeeps DEF User
<1>2. ASSUME NEW r \in Requests, Attach(r) \/ CastFails(r) PROVE LockInv'
  BY <1>2, NothingUndone, ReserveBlockDeviceNameKeeps, ReserveRefusedKeeps,
     ReserveVolumeKeeps, ConnectKeeps, PlugKeeps, AttachedKeeps, UnreserveVolumeKeeps
  DEF Attach
<1>3. ASSUME NEW r \in Requests, Detach(r) PROVE LockInv'
  BY <1>3, NothingUndone, UnplugKeeps, UnplugFailsKeeps, DisconnectKeeps, DetachedKeeps
  DEF Detach
<1>4. ASSUME NEW r \in Requests, Terminate(r) \/ Delete(r) PROVE LockInv'
  BY <1>4, NothingUndone, KillKeeps, KillConnectionKeeps, KilledKeeps,
     TerminateDoneKeeps, CinderDeleteKeeps, CinderDeletedKeeps
  DEF Terminate, Delete
<1>5. ASSUME NEW r \in Requests, Cinder(r) PROVE LockInv'
  BY <1>5, CinderAttachKeeps, CinderAttachedKeeps, CinderDetachKeeps,
     CinderDetachedKeeps DEF Cinder
<1>6. CASE UNCHANGED vars
  <2>. USE <1>6 DEF LockInv, vars
  <2>1. Straight' /\ OneHolds' /\ OneEnds' /\ Held' /\ Free' /\ Calls'
    BY DEF Straight, OneHolds, OneEnds, Held, Free, Calls, Holds, Reserves, Ends
  <2>2. Guest' /\ Ending'
    BY DEF Guest, Ending, Inst, Holds, Reserves, Ends
  <2>3. Bdms' /\ Alone'
    BY DEF Bdms, Alone, Inst, Holds, Reserves, Ends
  <2>. QED
    BY <2>1, <2>2, <2>3
<1>. QED
  BY <1>1, <1>2, <1>3, <1>4, <1>5, <1>6 DEF Next

(* The lock holds in every state. *)
LEMMA LockInvariant ==
    ASSUME Gentle
    PROVE  Spec => [](TypeInv /\ LockInv)
<1>1. Init => LockInv /\ Fresh
  BY DEF Init, Fresh, LockInv, Straight, OneHolds, OneEnds, Held, Free, Guest, Ending, Bdms,
         Calls, Alone, Holds, Reserves, Ends, NoOp
<1>2. TypeInv /\ LockInv /\ Fresh /\ [Next]_vars => LockInv' /\ Fresh'
  BY NextKeepsLock, NextKeepsFresh
<1>. QED
  BY <1>1, <1>2, TypeInvariant, PTL DEF Spec

(* However many requests overlap, two guests never have the volume: the guest *)
(* that has it is that of the one request that holds the volume.              *)
THEOREM OneGuestAtATime ==
    ASSUME Gentle
    PROVE  Spec => []NeverShared
<1>1. TypeInv /\ LockInv => NeverShared
  <2>1. SUFFICES ASSUME TypeInv, LockInv PROVE Cardinality(guests) <= 1
    BY DEF NeverShared
  <2>2. guests = {} \/ \E i \in Instances : guests = {i}
    BY <2>1 DEF LockInv, Guest, TypeInv, TypeOK
  <2>. QED
    BY <2>2, FS_EmptySet, FS_Singleton
<1>. QED
  BY <1>1, LockInvariant, PTL

(* A volume that is offered to others, being deleted or gone is in no guest. *)
THEOREM FreeVolumesAreFree ==
    ASSUME Gentle
    PROVE  Spec => []FreeIsFree
<1>1. TypeInv /\ LockInv => FreeIsFree
  <2>1. SUFFICES ASSUME TypeInv, LockInv, guests # {},
                        status \in {"available", "deleting", "error_deleting", "deleted"}
                 PROVE  FALSE
    BY DEF FreeIsFree
  <2>2. PICK r \in Requests : Holds(r) /\ pc[r] \in {"attach", "over"}
    BY <2>1 DEF LockInv, Guest
  <2>3. status \in {"attaching", "in-use", "detaching"}
    BY <2>1, <2>2 DEF LockInv, Held, Holds
  <2>. QED
    BY <2>1, <2>3
<1>. QED
  BY <1>1, LockInvariant, PTL

(* When nothing is under way the guest, Nova's BDM and Cinder's attachment tell *)
(* the same story, and a guest with the disk can have it detached.              *)
THEOREM RecordsAgree ==
    ASSUME Gentle
    PROVE  Spec => []Agree
<1>1. TypeInv /\ LockInv => Agree
  <2>1. SUFFICES ASSUME TypeInv, LockInv, Idle, NEW i \in Instances
                 PROVE  /\ i \in guests <=> \E r \in Requests : /\ Inst(r) = i
                                                               /\ att[r] = "attached"
                                                               /\ bdm[r] = "connected"
                        /\ i \in guests => Beginnable /\ (i \in alive => Detachable(i))
    BY DEF Agree
  <2>2. \A r \in Requests : ~Ends(r) /\ ~Reserves(r)
                            /\ pc[r] \notin {"delete", "deleting", "killing", "killed"}
    BY <2>1 DEF Idle, Ends, Reserves
  <2>3. ASSUME i \in guests
        PROVE  \E r \in Requests :
                  Inst(r) = i /\ att[r] = "attached" /\ bdm[r] = "connected"
    <3>1. PICK r \in Requests : Holds(r) /\ pc[r] \in {"attach", "over"}
      BY <2>1, <2>3 DEF LockInv, Guest
    <3>2. guests = {Inst(r)} /\ bdm[r] = "connected"
      BY <2>1, <2>2, <3>1 DEF LockInv, Guest
    <3>. QED
      BY <2>2, <2>3, <3>1, <3>2 DEF Holds
  <2>4. ASSUME NEW r \in Requests, Inst(r) = i, att[r] = "attached", bdm[r] = "connected"
        PROVE  /\ i \in guests /\ Beginnable
               /\ i \in alive => Detachable(i)
    <3>1. Holds(r) /\ pc[r] \in {"attach", "over"} /\ attached
          /\ status \in {"in-use", "detaching"}
      BY <2>1, <2>4 DEF LockInv, Held, Holds
    <3>2. i \in guests
      BY <2>1, <2>2, <2>4, <3>1 DEF LockInv, Guest
    <3>3. status = "in-use"
      BY <2>1, <2>2, <3>1 DEF LockInv, Ending
    <3>4. r \in BdmsOf(i) /\ r \in Shown
      BY <2>4, <3>1 DEF BdmsOf, Shown
    <3>. QED
      BY <2>4, <3>1, <3>2, <3>3, <3>4 DEF Beginnable, Detachable
  <2>. QED
    BY <2>3, <2>4
<1>. QED
  BY <1>1, LockInvariant, PTL
=============================================================================
