------------------------ MODULE DeleteInstanceProofs ------------------------
(***************************************************************************)
(* Proofs about DeleteInstance, for any number of instances, requests and  *)
(* crashes, any limit, and any faults and races that a theorem does not    *)
(* exclude.                                                                *)
(***************************************************************************)
EXTENDS DeleteInstance, FiniteSetTheorems, TLAPS

-----------------------------------------------------------------------------
(* What a step does to the quotas *)

\* Requests that have not reserved anything yet.
Fresh(r) == req[r].pc \in {"unused", "save", "reserve", "init-destroy",
                           "init-reserve"}

\* Every step takes one of the transactions, or leaves the quotas alone.
QuotaStep ==
    \/ UNCHANGED quotas
    \/ \E aged \in BOOLEAN : OverQuota(1, Actual, aged)
    \/ \E r \in ApiRequests, aged \in BOOLEAN :
          Fresh(r) /\ Reserve(r, 1, Actual, aged) /\ ~Fresh(r)'
    \/ \E r \in Requests, aged \in BOOLEAN :
          Fresh(r) /\ Reserve(r, -1, Actual, aged)
    \/ \E r \in Requests : ~At(r, "dead") /\ (Commit(r) \/ Rollback(r))
    \/ \E i \in Instances :
          /\ reservation' = [reservation EXCEPT ![i] = 0]
          /\ UNCHANGED <<in_use, reserved, expiring>>
    \/ \E rows \in SUBSET {r \in Requests : At(r, "dead")} : ExpireRead(rows)
    \/ ("expire" \in Races \/ expiring.seen = reserved) /\ ExpireWrite

LEMMA AgesBoolean == Ages \subseteq BOOLEAN
BY DEF Ages

LEMMA QuotaSteps ==
  ASSUME TypeOK, [Next]_vars
  PROVE  QuotaStep
<1> USE AgesBoolean DEF QuotaStep
<1>0. req \in [Requests -> RequestRecords]
  BY DEF TypeOK
<1>1. ASSUME NEW r \in ApiRequests, User(r) PROVE QuotaStep
  <2>1. PICK i \in Instances, aged \in Ages :
             \/ CreateRequest(r, i, aged)
             \/ \E kind \in {"delete", "soft"} : DeleteRequest(r, i, kind)
             \/ RestoreRequest(r, i, aged)
    BY <1>1 DEF User
  <2>2. r \in Requests
    BY DEF ApiRequests
  <2>3. CASE CreateRequest(r, i, aged)
    <3>1. CASE OverQuota(1, Actual, aged)
      BY <2>1, <3>1
    <3>2. CASE ~OverQuota(1, Actual, aged)
      <4>1. /\ At(r, "unused") /\ Reserve(r, 1, Actual, aged)
            /\ req' = [req EXCEPT ![r] = [NoRequest EXCEPT
                          !.kind = "create", !.inst = i, !.pc = "row"]]
        BY <2>3, <3>2 DEF CreateRequest
      <4>2. req'[r].pc = "row"
        BY <1>0, <2>2, <4>1 DEF NoRequest
      <4> QED  BY <4>1, <4>2 DEF Fresh, At
    <3> QED  BY <3>1, <3>2
  <2>4. CASE \E kind \in {"delete", "soft"} : DeleteRequest(r, i, kind)
    BY <2>4 DEF DeleteRequest
  <2>5. CASE RestoreRequest(r, i, aged)
    <3>1. CASE OverQuota(1, Actual, aged)
      BY <2>1, <3>1
    <3>2. CASE ~OverQuota(1, Actual, aged)
      <4>1. /\ At(r, "unused") /\ Reserve(r, 1, Actual, aged)
            /\ req' = [req EXCEPT ![r] = [NoRequest EXCEPT
                          !.kind = "restore", !.inst = i, !.pc = "restore-save"]]
        BY <2>5, <3>2 DEF RestoreRequest
      <4>2. req'[r].pc = "restore-save"
        BY <1>0, <2>2, <4>1 DEF NoRequest
      <4> QED  BY <4>1, <4>2 DEF Fresh, At
    <3> QED  BY <3>1, <3>2
  <2> QED  BY <2>1, <2>3, <2>4, <2>5
<1>2. ASSUME NEW r \in Requests, Api(r) PROVE QuotaStep
  <2>1. CASE CreateRow(r) \/ DeleteSave(r) \/ DestroyUnhosted(r)
             \/ LocalDelete(r) \/ LocalSave(r) \/ LocalDestroy(r)
             \/ RestoreSave(r)
    BY <2>1 DEF CreateRow, DeleteSave, DestroyUnhosted, LocalDelete, LocalSave,
                LocalDestroy, RestoreSave
  <2>2. CASE CreateCommit(r) \/ DeleteCommit(r) \/ RestoreCommit(r)
    BY <2>2 DEF CreateCommit, DeleteCommit, RestoreCommit, At
  <2>3. CASE Undo(r) \/ CastDelete(r)
    BY <2>3 DEF Undo, CastDelete, At
  <2>4. CASE \E aged \in Ages : DeleteReserve(r, aged)
    BY <2>4 DEF DeleteReserve, Fresh, At
  <2> QED  BY <1>2, <2>1, <2>2, <2>3, <2>4 DEF Api
<1>3. ASSUME NEW r \in Requests, Handler(r) PROVE QuotaStep
  <2>1. CASE Receive(r) \/ Shutdown(r) \/ SaveDeleted(r) \/ DestroyRow(r)
             \/ SoftDeleteInstance(r) \/ RestoreInstance(r) \/ InitDestroy(r)
    BY <2>1 DEF Receive, Shutdown, SaveDeleted, DestroyRow,
                SoftDeleteInstance, RestoreInstance, InitDestroy
  <2>2. CASE Terminate(r) \/ CompleteDeletion(r)
    BY <2>2 DEF Terminate, CompleteDeletion, At
  <2>3. CASE \E aged \in Ages : InitReserve(r, aged)
    BY <2>3 DEF InitReserve, Fresh, At
  <2> QED  BY <1>3, <2>1, <2>2, <2>3 DEF Handler
<1>4. ASSUME NEW r \in Requests, Fault(r) PROVE QuotaStep
  <2>1. CASE CreateFails(r) \/ RestoreFails(r) \/ ApiDies(r)
    BY <2>1 DEF CreateFails, RestoreFails, ApiDies
  <2>2. CASE ShutdownFails(r) \/ SoftDeleteFails(r)
    BY <2>2 DEF ShutdownFails, SoftDeleteFails, At
  <2> QED  BY <1>4, <2>1, <2>2 DEF Fault
<1>5. ASSUME NEW i \in Instances,
             \/ BuildStep(i) \/ BuildRefused(i) \/ BuildFails(i)
             \/ BuildCleanupFails(i) \/ ScheduleFails(i)
             \/ ReclaimInstance(i) \/ Reap(i)
      PROVE  QuotaStep
  <2>1. CASE BuildStep(i)
    BY <2>1 DEF BuildStep, BuildStart, BuildClaims, BuildNetworks, BuildMaps,
                BuildSpawns, BuildFinish, BuildErrors
  <2>2. CASE \/ BuildRefused(i) \/ BuildFails(i) \/ BuildCleanupFails(i)
             \/ ScheduleFails(i) \/ Reap(i)
    BY <2>2 DEF BuildRefused, BuildFails, BuildCleanupFails, ScheduleFails, Reap
  <2>3. CASE ReclaimInstance(i)
    BY <2>3 DEF ReclaimInstance
  <2> QED  BY <1>5, <2>1, <2>2, <2>3
<1>6. CASE ReclaimList \/ Crash \/ Restart \/ Started
           \/ \E l \in listed : InitInstance(l)
  BY <1>6 DEF ReclaimList, Crash, Restart, Started, InitInstance
<1>7. CASE Expire
  <2>1. CASE \E rows \in SUBSET {r \in Requests : Expirable(r)} : ExpireRead(rows)
    BY <2>1 DEF Expirable
  <2> QED  BY <1>7, <2>1 DEF Expire
<1>8. CASE UNCHANGED vars
  BY <1>8 DEF vars
<1> QED  BY <1>1, <1>2, <1>3, <1>4, <1>5, <1>6, <1>7, <1>8 DEF Next

-----------------------------------------------------------------------------
(* What a step does to the requests *)

Pcs == {"unused", "cast", "over", "dead"} \cup ApiSide \cup ComputeSide

\* A request that does something does it to an instance.
Named == \A r \in Requests : req[r].inst \in Instances
                                \/ req[r].pc \in {"unused", "over"}

\* No request of a user forgets that it has reserved, or comes back to life.
ReqStep ==
    /\ req' \in [Requests -> RequestRecords]
    /\ Named'
    /\ \A q \in ApiRequests : /\ Fresh(q)' => Fresh(q)
                              /\ At(q, "dead") => At(q, "dead")'

LEMMA Kept ==
  ASSUME TypeOK, Named, UNCHANGED req
  PROVE  ReqStep
BY DEF TypeOK, Named, ReqStep, Fresh, At

LEMMA Replaced ==
  ASSUME TypeOK, Named, NEW r \in Requests, NEW x \in RequestRecords,
         x.inst \in Instances \/ x.pc = "over",
         req' = [req EXCEPT ![r] = x],
         r \in Instances \/ ~At(r, "dead"),
         r \in Instances \/ Fresh(r) \/
             x.pc \notin {"unused", "save", "reserve", "init-destroy",
                          "init-reserve"}
  PROVE  ReqStep
<1>1. req \in [Requests -> RequestRecords]
  BY DEF TypeOK
<1>2. \A q \in Requests : req'[q] = IF q = r THEN x ELSE req[q]
  BY <1>1
<1>3. req' \in [Requests -> RequestRecords]
  BY <1>1
<1>4. ASSUME NEW q \in ApiRequests
      PROVE  /\ Fresh(q)' => Fresh(q)
             /\ At(q, "dead") => At(q, "dead")'
  BY <1>2 DEF ApiRequests, Fresh, At
<1>5. Named'
  BY <1>2 DEF Named
<1> QED  BY <1>3, <1>4, <1>5 DEF ReqStep

LEMMA Going ==
  ASSUME TypeOK, Named, NEW r \in Requests, NEW pc \in Pcs, Goto(r, pc),
         ~At(r, "dead"), pc = "over" \/ req[r].pc \notin {"unused", "over"},
         Fresh(r) \/ pc \notin {"unused", "save", "reserve", "init-destroy",
                                "init-reserve"}
  PROVE  ReqStep
<1> DEFINE x == [req[r] EXCEPT !.pc = pc]
<1>1. req[r] \in RequestRecords
  BY DEF TypeOK
<1>2. x \in RequestRecords /\ x.pc = pc /\ x.inst = req[r].inst
  BY <1>1 DEF RequestRecords, Pcs
<1>3. req' = [req EXCEPT ![r] = x]
  BY DEF Goto
<1> HIDE DEF x
<1> QED  BY <1>2, <1>3, Replaced DEF Named

\* The records that are written over others.
LEMMA RequestsMade ==
  /\ NoRequest \in RequestRecords
  /\ \A i \in Instances :
        [NoRequest EXCEPT !.kind = "create", !.inst = i, !.pc = "row"]
            \in RequestRecords
  /\ \A i \in Instances :
        [NoRequest EXCEPT !.kind = "restore", !.inst = i, !.pc = "restore-save"]
            \in RequestRecords
  /\ \A i \in Instances :
        [NoRequest EXCEPT !.kind = "reclaim", !.inst = i, !.pc = "shutdown",
                          !.vm_state = "soft-delete", !.hosted = TRUE]
            \in RequestRecords
  /\ \A i \in Instances, v \in VmStates, kind \in {"partial", "resume"},
        pc \in {"init-destroy", "init-reserve"} :
        [NoRequest EXCEPT !.kind = kind, !.inst = i, !.hosted = TRUE,
                          !.vm_state = v, !.pc = pc] \in RequestRecords
BY DEF NoRequest, RequestRecords, VmStates, ApiSide, ComputeSide

LEMMA ReqSteps ==
  ASSUME TypeOK, Named, [Next]_vars
  PROVE  ReqStep
<1> USE DEF Pcs, ApiSide, ComputeSide
<1>0. req \in [Requests -> RequestRecords] /\ row \in [Instances -> Rows]
  BY DEF TypeOK
<1>1. ASSUME NEW r \in ApiRequests, User(r) PROVE ReqStep
  <2>1. PICK i \in Instances, aged \in Ages :
             \/ CreateRequest(r, i, aged)
             \/ \E kind \in {"delete", "soft"} : DeleteRequest(r, i, kind)
             \/ RestoreRequest(r, i, aged)
    BY <1>1 DEF User
  <2>2. r \in Requests
    BY DEF ApiRequests
  <2>3. CASE CreateRequest(r, i, aged)
    <3>1. Fresh(r) /\ ~At(r, "dead")
      BY <2>3 DEF CreateRequest, Fresh, At
    <3>2. CASE Goto(r, "over")
      BY <2>2, <3>1, <3>2, Going
    <3>3. CASE ~Goto(r, "over")
      <4> DEFINE x == [NoRequest EXCEPT !.kind = "create", !.inst = i, !.pc = "row"]
      <4>1. req' = [req EXCEPT ![r] = x]
        BY <2>3, <3>3 DEF CreateRequest
      <4>2. x \in RequestRecords
        BY RequestsMade
      <4>3. x.inst = i
        BY DEF NoRequest
      <4> HIDE DEF x
      <4> QED  BY <2>2, <3>1, <4>1, <4>2, <4>3, Replaced
    <3> QED  BY <3>2, <3>3
  <2>4. ASSUME NEW kind \in {"delete", "soft"}, DeleteRequest(r, i, kind)
        PROVE  ReqStep
    <3> DEFINE x ==
          [kind |-> kind, inst |-> i, pc |-> "save",
           ignore |-> row[i].task_state \in {"deleting", "soft-deleting"},
           vm_state |-> row[i].vm_state, hosted |-> row[i].hosted]
    <3>1. Fresh(r) /\ ~At(r, "dead")
      BY <2>4 DEF DeleteRequest, Fresh, At
    <3>2. req' = [req EXCEPT ![r] = x]
      BY <2>4 DEF DeleteRequest
    <3>3. x \in RequestRecords
      BY <1>0 DEF RequestRecords, Rows
    <3>4. x.inst = i
      OBVIOUS
    <3> HIDE DEF x
    <3> QED  BY <2>2, <3>1, <3>2, <3>3, <3>4, Replaced
  <2>5. CASE RestoreRequest(r, i, aged)
    <3>1. Fresh(r) /\ ~At(r, "dead")
      BY <2>5 DEF RestoreRequest, Fresh, At
    <3>2. CASE Goto(r, "over")
      BY <2>2, <3>1, <3>2, Going
    <3>3. CASE ~Goto(r, "over")
      <4> DEFINE x == [NoRequest EXCEPT !.kind = "restore", !.inst = i,
                                        !.pc = "restore-save"]
      <4>1. req' = [req EXCEPT ![r] = x]
        BY <2>5, <3>3 DEF RestoreRequest
      <4>2. x \in RequestRecords
        BY RequestsMade
      <4>3. x.inst = i
        BY DEF NoRequest
      <4> HIDE DEF x
      <4> QED  BY <2>2, <3>1, <4>1, <4>2, <4>3, Replaced
    <3> QED  BY <3>2, <3>3
  <2> QED  BY <2>1, <2>3, <2>4, <2>5
<1>2. ASSUME NEW r \in Requests, Api(r) PROVE ReqStep
  <2>1. CASE \/ CreateRow(r) \/ CreateCommit(r) \/ Undo(r) \/ CastDelete(r)
             \/ LocalDelete(r) \/ LocalSave(r) \/ LocalDestroy(r)
             \/ DeleteCommit(r) \/ RestoreSave(r) \/ RestoreCommit(r)
             \/ \E aged \in Ages : DeleteReserve(r, aged)
    <3>1. /\ req[r].pc \notin {"dead", "unused", "over"}
          /\ \E pc \in Pcs :  /\ Goto(r, pc)
                                            /\ pc \notin {"unused", "save",
                                                  "reserve", "init-destroy",
                                                  "init-reserve"}
      BY <2>1 DEF CreateRow, CreateCommit, Undo, CastDelete, LocalDelete,
                  LocalSave, LocalDestroy, DeleteCommit, RestoreSave,
                  RestoreCommit, DeleteReserve, At
    <3> QED  BY <3>1, Going DEF At
  <2>2. CASE DeleteSave(r)
    <3>1. Fresh(r) /\ ~At(r, "dead")
      BY <2>2 DEF DeleteSave, Fresh, At
    <3>2. CASE Goto(r, "over")
      BY <3>1, <3>2, Going
    <3>3. CASE ~Goto(r, "over")
      <4> DEFINE i == req[r].inst
                 x == [req[r] EXCEPT !.pc = "reserve",
                                     !.vm_state = row[i].vm_state,
                                     !.hosted = row[i].hosted]
      <4>1. Live(i) /\ req' = [req EXCEPT ![r] = x]
        BY <1>0, <2>2, <3>3 DEF DeleteSave
      <4>2. i \in Instances /\ row[i] \in Rows
        BY <1>0, <2>2 DEF DeleteSave, At, Named
      <4>3. req[r] \in RequestRecords
        BY <1>0
      <4>4. x \in RequestRecords /\ x.inst = i
        BY <4>2, <4>3 DEF RequestRecords, Rows
      <4> HIDE DEF x
      <4> QED  BY <3>1, <4>1, <4>2, <4>4, Replaced
    <3> QED  BY <3>2, <3>3
  <2>3. CASE DestroyUnhosted(r)
    <3>1. req[r].pc = "decide"
      BY <2>3 DEF DestroyUnhosted, At
    <3>2. CASE Goto(r, "undo") \/ Goto(r, "commit")
      BY <3>1, <3>2, Going DEF At
    <3>3. CASE ~(Goto(r, "undo") \/ Goto(r, "commit"))
      <4> DEFINE i == req[r].inst
                 x == [req[r] EXCEPT !.hosted = TRUE,
                                     !.vm_state = row[i].vm_state]
      <4>1. req' = [req EXCEPT ![r] = x]
        BY <1>0, <2>3, <3>3 DEF DestroyUnhosted, Live
      <4>2. i \in Instances /\ row[i] \in Rows
        BY <1>0, <3>1 DEF Named
      <4>3. req[r] \in RequestRecords
        BY <1>0
      <4>4. x \in RequestRecords /\ x.inst = i /\ x.pc = "decide"
        BY <3>1, <4>2, <4>3 DEF RequestRecords, Rows
      <4> HIDE DEF x
      <4> QED  BY <3>1, <4>1, <4>2, <4>4, Replaced DEF At
    <3> QED  BY <3>2, <3>3
  <2> QED  BY <1>2, <2>1, <2>2, <2>3 DEF Api
<1>3. ASSUME NEW r \in Requests, Handler(r) PROVE ReqStep
  <2>1. CASE RestoreInstance(r)
    BY <2>1, Kept DEF RestoreInstance
  <2>2. CASE InitDestroy(r)
    <3>1. req[r].pc = "init-destroy" /\ (Goto(r, "init-reserve") \/ Goto(r, "over"))
      BY <2>2 DEF InitDestroy, At
    <3> QED  BY <3>1, Going DEF At, Fresh
  <2>3. CASE \/ Receive(r) \/ Terminate(r) \/ Shutdown(r) \/ SaveDeleted(r)
             \/ DestroyRow(r) \/ CompleteDeletion(r) \/ SoftDeleteInstance(r)
             \/ \E aged \in Ages : InitReserve(r, aged)
    <3>1. /\ req[r].pc \notin {"dead", "unused", "over"}
          /\ \E pc \in Pcs : /\ Goto(r, pc)
                             /\ pc \notin {"unused", "save", "reserve",
                                           "init-destroy", "init-reserve"}
      BY <2>3 DEF Receive, Terminate, Shutdown, SaveDeleted, DestroyRow,
                  CompleteDeletion, SoftDeleteInstance, InitReserve, At
    <3> QED  BY <3>1, Going DEF At
  <2> QED  BY <1>3, <2>1, <2>2, <2>3 DEF Handler
<1>4. ASSUME NEW r \in Requests, Fault(r) PROVE ReqStep
  <2>1. CASE RestoreFails(r)
    BY <2>1, Kept DEF RestoreFails
  <2>2. CASE CreateFails(r) \/ ShutdownFails(r) \/ SoftDeleteFails(r) \/ ApiDies(r)
    <3>1. /\ req[r].pc \notin {"dead", "unused", "over"}
          /\ \E pc \in Pcs : /\ Goto(r, pc)
                             /\ pc \notin {"unused", "save", "reserve",
                                           "init-destroy", "init-reserve"}
      <4>1. CASE CreateFails(r)
        BY <4>1 DEF CreateFails
      <4>2. CASE ShutdownFails(r)
        <5>1. req[r].pc = "shutdown" /\ Goto(r, "over")
          BY <4>2 DEF ShutdownFails, At
        <5> QED  BY <5>1
      <4>3. CASE SoftDeleteFails(r)
        <5>1. req[r].pc = "cast" /\ Goto(r, "over")
          BY <4>3 DEF SoftDeleteFails, At
        <5> QED  BY <5>1
      <4>4. CASE ApiDies(r)
        BY <4>4 DEF ApiDies
      <4> QED  BY <2>2, <4>1, <4>2, <4>3, <4>4
    <3> QED  BY <3>1, Going DEF At
  <2> QED  BY <1>4, <2>1, <2>2 DEF Fault
<1>5. ASSUME NEW i \in Instances,
             \/ BuildStep(i) \/ BuildRefused(i) \/ BuildFails(i)
             \/ BuildCleanupFails(i) \/ ScheduleFails(i)
             \/ ReclaimInstance(i) \/ Reap(i)
      PROVE  ReqStep
  <2>1. CASE BuildStep(i)
    BY <2>1, Kept DEF BuildStep, BuildStart, BuildClaims, BuildNetworks,
                      BuildMaps, BuildSpawns, BuildFinish, BuildErrors
  <2>2. CASE \/ BuildRefused(i) \/ BuildFails(i) \/ BuildCleanupFails(i)
             \/ ScheduleFails(i) \/ Reap(i)
    BY <2>2, Kept DEF BuildRefused, BuildFails, BuildCleanupFails, ScheduleFails, Reap
  <2>3. CASE ReclaimInstance(i)
    <3> DEFINE x == [NoRequest EXCEPT !.kind = "reclaim", !.inst = i,
                                      !.pc = "shutdown",
                                      !.vm_state = "soft-delete",
                                      !.hosted = TRUE]
    <3>1. req' = [req EXCEPT ![i] = x]
      BY <2>3 DEF ReclaimInstance
    <3>2. x \in RequestRecords
      BY RequestsMade
    <3>3. x.inst = i
      BY DEF NoRequest
    <3>4. i \in Requests
      BY DeleteAssumption
    <3> HIDE DEF x
    <3> QED  BY <3>1, <3>2, <3>3, <3>4, Replaced
  <2> QED  BY <1>5, <2>1, <2>2, <2>3
<1>6. ASSUME NEW l \in listed, InitInstance(l) PROVE ReqStep
  <2> DEFINE kind == InitDeletion(l)
             pc == IF kind = "partial" THEN "init-destroy" ELSE "init-reserve"
             x == [NoRequest EXCEPT !.kind = kind, !.inst = l.inst,
                                    !.hosted = TRUE, !.vm_state = l.vm_state,
                                    !.pc = pc]
  <2>1. l.inst \in Instances /\ l.vm_state \in VmStates
    BY DEF TypeOK, Listings
  <2>2. CASE kind = "none"
    BY <1>6, <2>2, Kept DEF InitInstance
  <2>3. CASE kind # "none"
    <3>1. kind \in {"partial", "resume"}
      BY <2>3 DEF InitDeletion
    <3>2. req' = [req EXCEPT ![l.inst] = x]
      BY <1>6, <2>3 DEF InitInstance
    <3>3. pc \in {"init-destroy", "init-reserve"}
      OBVIOUS
    <3> HIDE DEF kind, pc
    <3>4. x \in RequestRecords
      BY <2>1, <3>1, <3>3, RequestsMade
    <3>5. x.inst = l.inst
      BY DEF NoRequest
    <3>6. l.inst \in Requests
      BY <2>1, DeleteAssumption
    <3> HIDE DEF x
    <3> QED  BY <2>1, <3>2, <3>4, <3>5, <3>6, Replaced
  <2> QED  BY <2>2, <2>3
<1>7. CASE Crash
  <2>1. \A r \in Requests :
           req'[r] = IF req[r].pc \in ComputeSide
                     THEN [req[r] EXCEPT !.pc = "dead"] ELSE req[r]
    BY <1>7 DEF Crash
  <2>2. \A r \in Requests : req'[r] \in RequestRecords
    <3> SUFFICES ASSUME NEW r \in Requests PROVE req'[r] \in RequestRecords
      OBVIOUS
    <3>1. req[r] \in RequestRecords
      BY <1>0
    <3> QED  BY <2>1, <3>1 DEF RequestRecords
  <2>3. req' \in [Requests -> RequestRecords]
    BY <1>7, <2>2 DEF Crash
  <2>4. ASSUME NEW r \in Requests
        PROVE  /\ req'[r].inst = req[r].inst
               /\ req'[r].pc = IF req[r].pc \in ComputeSide THEN "dead"
                                                           ELSE req[r].pc
    <3>1. req[r] \in RequestRecords
      BY <1>0
    <3> QED  BY <2>1, <3>1 DEF RequestRecords
  <2>5. Named'
    BY <2>4 DEF Named
  <2>6. ASSUME NEW q \in ApiRequests
        PROVE  /\ Fresh(q)' => Fresh(q)
               /\ At(q, "dead") => At(q, "dead")'
    BY <2>4 DEF ApiRequests, Fresh, At
  <2> QED  BY <2>3, <2>5, <2>6 DEF ReqStep
<1>8. CASE ReclaimList \/ Restart \/ Started \/ Expire
  BY <1>8, Kept DEF ReclaimList, Restart, Started, Expire
<1>9. CASE UNCHANGED vars
  BY <1>9, Kept DEF vars
<1> QED  BY <1>1, <1>2, <1>3, <1>4, <1>5, <1>6, <1>7, <1>8, <1>9 DEF Next

-----------------------------------------------------------------------------
(* Type correctness *)

\* What is counted is a number.
LEMMA ActualCounts == Actual \in Nat
<1>1. IsFiniteSet(Instances)
  BY FS_Subset, DeleteAssumption
<1>2. IsFiniteSet({i \in Instances : Live(i)})
  BY <1>1, FS_Subset
<1> QED  BY <1>2, FS_CardinalityType DEF Actual

LEMMA QuotasTyped ==
  ASSUME QuotasTypeOK, QuotaStep
  PROVE  QuotasTypeOK'
<1> USE DEF QuotasTypeOK
<1>1. \A aged \in BOOLEAN : Refreshed(Actual, aged) \in Int
  BY ActualCounts DEF Refreshed
<1>2. \A e \in Deltas : Held(e) \in Int
  BY DEF Held, Deltas
<1>3. -1 \in Deltas /\ 0 \in Deltas /\ 1 \in Deltas
  BY DEF Deltas
<1>4. CASE UNCHANGED quotas
  BY <1>4 DEF quotas
<1>5. CASE \E aged \in BOOLEAN : OverQuota(1, Actual, aged)
  BY <1>1, <1>5 DEF OverQuota
<1>6. ASSUME NEW r \in Requests, NEW aged \in BOOLEAN, NEW d \in {1, -1},
             Reserve(r, d, Actual, aged)
      PROVE  QuotasTypeOK'
  BY <1>1, <1>2, <1>3, <1>6 DEF Reserve
<1>7. ASSUME NEW r \in Requests, Commit(r) \/ Rollback(r)
      PROVE  QuotasTypeOK'
  <2>1. reservation[r] \in Deltas
    OBVIOUS
  <2>2. reservation[r] \in Int /\ Held(reservation[r]) \in Int
    BY <1>2, <2>1 DEF Deltas
  <2> QED  BY <1>3, <1>7, <2>2 DEF Commit, Rollback
<1>8. CASE \E i \in Instances :
              /\ reservation' = [reservation EXCEPT ![i] = 0]
              /\ UNCHANGED <<in_use, reserved, expiring>>
  BY <1>3, <1>8
<1>9. ASSUME NEW rows \in SUBSET {r \in Requests : At(r, "dead")},
             ExpireRead(rows)
      PROVE  QuotasTypeOK'
  <2>1. IsFiniteSet(rows \cap Pending)
    BY FS_Subset, DeleteAssumption
  <2>2. Cardinality(rows \cap Pending) \in Nat
    BY <2>1, FS_CardinalityType
  <2> QED  BY <1>9, <2>2 DEF ExpireRead, Expiries
<1>10. CASE ExpireWrite
  <2>1. expiring.seen \in Int /\ expiring.held \in Int
    BY DEF Expiries
  <2>2. NotExpiring \in Expiries
    BY DEF NotExpiring, Expiries
  <2> QED  BY <1>3, <1>10, <2>1, <2>2 DEF ExpireWrite
<1> QED
  BY <1>4, <1>5, <1>6, <1>7, <1>8, <1>9, <1>10 DEF QuotaStep, ApiRequests

\* The changes of a row, whoever makes them.
LEMMA RowsMade ==
  /\ NoRow \in Rows
  /\ [NoRow EXCEPT !.stage = "live", !.task_state = "scheduling"] \in Rows
  /\ \A x \in Rows, v \in VmStates : [x EXCEPT !.vm_state = v] \in Rows
  /\ \A x \in Rows, t \in TaskStates : [x EXCEPT !.task_state = t] \in Rows
  /\ \A x \in Rows, v \in VmStates, t \in TaskStates :
        [x EXCEPT !.vm_state = v, !.task_state = t] \in Rows
  /\ \A x \in Rows : [x EXCEPT !.vm_state = "active", !.task_state = "none",
                               !.launched = TRUE] \in Rows
  /\ \A x \in Rows : [x EXCEPT !.vm_state = "error", !.task_state = "none",
                               !.hosted = FALSE] \in Rows
  /\ \A x \in Rows : [x EXCEPT !.stage = "deleted"] \in Rows
  /\ \A x \in Rows : [x EXCEPT !.hosted = TRUE] \in Rows
BY DEF NoRow, Rows, VmStates, TaskStates

RowsTyped == row \in [Instances -> Rows]

\* One row is replaced.
LEMMA RowReplaced ==
  ASSUME RowsTyped, NEW i, NEW x, i \in Instances => x \in Rows,
         row' = [row EXCEPT ![i] = x]
  PROVE  RowsTyped'
BY DEF RowsTyped

LEMMA RowSaved ==
  ASSUME RowsTyped, NEW i, NEW v, NEW t, Save(i, v, t),
         i \in Instances => v \in VmStates /\ t \in TaskStates
  PROVE  RowsTyped'
<1>1. row' = [row EXCEPT ![i] = [row[i] EXCEPT !.vm_state = v,
                                               !.task_state = t]]
  BY DEF Save, RowsTyped
<1>2. i \in Instances => row[i] \in Rows
  BY DEF RowsTyped
<1> QED  BY <1>1, <1>2, RowsMade, RowReplaced

LEMMA RowDestroyed ==
  ASSUME RowsTyped, NEW i, Destroyed(i)
  PROVE  RowsTyped'
<1>1. row' = [row EXCEPT ![i] = [row[i] EXCEPT !.stage = "deleted"]]
  BY DEF Destroyed
<1>2. i \in Instances => row[i] \in Rows
  BY DEF RowsTyped
<1> QED  BY <1>1, <1>2, RowsMade, RowReplaced

LEMMA RowKept ==
  ASSUME RowsTyped, UNCHANGED row
  PROVE  RowsTyped'
BY DEF RowsTyped

LEMMA RowSteps ==
  ASSUME TypeOK, [Next]_vars
  PROVE  RowsTyped'
<1> USE DEF VmStates, TaskStates
<1>0. RowsTyped
  BY DEF TypeOK, RowsTyped
<1>1. \A i : i \in Instances => row[i] \in Rows
  BY <1>0 DEF RowsTyped
<1>2. \A i \in Instances : row[i].vm_state \in VmStates
                           /\ row[i].task_state \in TaskStates
  BY <1>1 DEF Rows
<1>4. ASSUME NEW r \in ApiRequests, User(r) PROVE RowsTyped'
  BY <1>0, <1>4, RowKept
  DEF User, CreateRequest, DeleteRequest, RestoreRequest
<1>5. ASSUME NEW r \in Requests, Api(r) PROVE RowsTyped'
  <2>1. CASE \/ CreateCommit(r) \/ Undo(r) \/ CastDelete(r) \/ LocalDelete(r)
             \/ DeleteCommit(r) \/ RestoreCommit(r)
             \/ \E aged \in Ages : DeleteReserve(r, aged)
    BY <1>0, <2>1, RowKept DEF CreateCommit, Undo, CastDelete, LocalDelete,
       DeleteCommit, RestoreCommit, DeleteReserve
  <2>2. CASE CreateRow(r)
    BY <1>0, <2>2, RowsMade, RowReplaced DEF CreateRow
  <2>3. CASE DeleteSave(r)
    <3> DEFINE i == req[r].inst
               t == IF req[r].kind = "soft" THEN "soft-deleting" ELSE "deleting"
    <3>1. \/ UNCHANGED row
          \/ row' = [row EXCEPT ![i] = [row[i] EXCEPT !.task_state = t]]
      BY <2>3 DEF DeleteSave
    <3>2. t \in TaskStates
      OBVIOUS
    <3> QED  BY <1>0, <1>1, <3>1, <3>2, RowsMade, RowReplaced, RowKept
  <2>4. CASE DestroyUnhosted(r)
    <3>1. UNCHANGED row \/ Destroyed(req[r].inst)
      BY <2>4 DEF DestroyUnhosted
    <3> QED  BY <1>0, <3>1, RowDestroyed, RowKept
  <2>5. CASE LocalSave(r)
    BY <1>0, <2>5, RowSaved, RowKept DEF LocalSave
  <2>6. CASE LocalDestroy(r)
    BY <1>0, <2>6, RowDestroyed, RowKept DEF LocalDestroy
  <2>7. CASE RestoreSave(r)
    <3> DEFINE i == req[r].inst
    <3>1. \/ UNCHANGED row
          \/ row' = [row EXCEPT ![i] = [row[i] EXCEPT !.task_state = "restoring"]]
      BY <2>7 DEF RestoreSave
    <3> QED  BY <1>0, <1>1, <3>1, RowsMade, RowReplaced, RowKept
  <2> QED  BY <1>5, <2>1, <2>2, <2>3, <2>4, <2>5, <2>6, <2>7 DEF Api
<1>6. ASSUME NEW r \in Requests, Handler(r) PROVE RowsTyped'
  <2>1. CASE \/ Receive(r) \/ Terminate(r) \/ Shutdown(r) \/ CompleteDeletion(r)
             \/ \E aged \in Ages : InitReserve(r, aged)
    BY <1>0, <2>1, RowKept
    DEF Receive, Terminate, Shutdown, CompleteDeletion, InitReserve
  <2>2. CASE SaveDeleted(r) \/ SoftDeleteInstance(r) \/ RestoreInstance(r)
    BY <1>0, <2>2, RowSaved, RowKept
    DEF SaveDeleted, SoftDeleteInstance, RestoreInstance
  <2>3. CASE DestroyRow(r) \/ InitDestroy(r)
    BY <1>0, <2>3, RowDestroyed, RowKept DEF DestroyRow, InitDestroy
  <2> QED  BY <1>6, <2>1, <2>2, <2>3 DEF Handler
<1>7. ASSUME NEW r \in Requests, Fault(r) PROVE RowsTyped'
  <2> DEFINE i == req[r].inst
  <2>1. CASE CreateFails(r) \/ ApiDies(r)
    BY <1>0, <2>1, RowDestroyed, RowKept DEF CreateFails, ApiDies
  <2>2. CASE ShutdownFails(r) \/ SoftDeleteFails(r) \/ RestoreFails(r)
    <3>1. \E v, t : /\ UNCHANGED row \/ Save(i, v, t)
                    /\ i \in Instances => v \in VmStates /\ t \in TaskStates
      <4>1. CASE ShutdownFails(r)
        BY <1>2, <4>1 DEF ShutdownFails
      <4>2. CASE SoftDeleteFails(r)
        BY <1>2, <4>2 DEF SoftDeleteFails
      <4>3. CASE RestoreFails(r)
        BY <1>2, <4>3 DEF RestoreFails
      <4> QED  BY <2>2, <4>1, <4>2, <4>3
    <3> QED  BY <1>0, <3>1, RowSaved, RowKept
  <2> QED  BY <1>7, <2>1, <2>2 DEF Fault
<1>8. ASSUME NEW i \in Instances, BuildStep(i) PROVE RowsTyped'
  <2>1. CASE BuildStart(i) \/ BuildMaps(i)
    BY <1>0, <2>1, RowSaved, RowKept DEF BuildStart, BuildMaps
  <2>2. CASE BuildClaims(i)
    <3>1. UNCHANGED row \/ row' = [row EXCEPT ![i] = [row[i] EXCEPT !.hosted = TRUE]]
      BY <2>2 DEF BuildClaims
    <3> QED  BY <1>0, <1>1, <3>1, RowsMade, RowReplaced, RowKept
  <2>3. ASSUME NEW v \in VmStates, NEW t \in TaskStates, BuildEnds(i, v, t)
        PROVE  RowsTyped'
    <3> DEFINE launched == row[i].launched \/ v = "active"
               x == [row[i] EXCEPT !.vm_state = v, !.task_state = t,
                                   !.launched = launched]
               y == [Errored(i) EXCEPT !.launched = launched]
    <3>1. x \in Rows /\ y \in Rows
      BY <1>1 DEF Errored, Rows, VmStates, TaskStates
    <3>2. \/ UNCHANGED row
          \/ row' = [row EXCEPT ![i] = x]
          \/ row' = [row EXCEPT ![i] = y]
      BY <2>3 DEF BuildEnds
    <3> HIDE DEF x, y
    <3> QED  BY <1>0, <3>1, <3>2, RowReplaced, RowKept
  <2>4. CASE BuildNetworks(i)
    BY <1>0, <2>3, <2>4, RowSaved DEF BuildNetworks
  <2>5. CASE BuildSpawns(i)
    BY <1>0, <2>3, <2>5, RowSaved DEF BuildSpawns
  <2>6. CASE BuildFinish(i)
    <3>1. \/ BuildEnds(i, "active", "none")
          \/ row' = [row EXCEPT ![i] = [row[i] EXCEPT !.vm_state = "active",
                                                      !.task_state = "none",
                                                      !.launched = TRUE]]
      BY <2>6 DEF BuildFinish
    <3> QED  BY <1>0, <1>1, <2>3, <3>1, RowsMade, RowReplaced
  <2>7. CASE BuildErrors(i)
    <3>1. Errored(i) \in Rows
      BY <1>1, RowsMade DEF Errored
    <3> QED  BY <1>0, <2>7, <3>1, RowReplaced, RowKept DEF BuildErrors
  <2> QED  BY <1>8, <2>1, <2>2, <2>4, <2>5, <2>6, <2>7 DEF BuildStep
<1>9. ASSUME NEW i \in Instances,
             \/ BuildRefused(i) \/ BuildFails(i) \/ BuildCleanupFails(i)
             \/ ScheduleFails(i) \/ ReclaimInstance(i) \/ Reap(i)
      PROVE  RowsTyped'
  <2>1. CASE BuildRefused(i)
    <3>1. Errored(i) \in Rows
      BY <1>1, RowsMade DEF Errored
    <3> QED  BY <1>0, <2>1, <3>1, RowReplaced, RowKept DEF BuildRefused
  <2>2. CASE BuildFails(i) \/ BuildCleanupFails(i)
    <3>1. \/ UNCHANGED row
          \/ row' = [row EXCEPT ![i] = [row[i] EXCEPT !.vm_state = "deleted"]]
      BY <2>2 DEF BuildFails, BuildCleanupFails
    <3> QED  BY <1>0, <1>1, <3>1, RowsMade, RowReplaced, RowKept
  <2>3. CASE ScheduleFails(i)
    BY <1>0, <2>3, RowSaved, RowKept DEF ScheduleFails
  <2>4. CASE ReclaimInstance(i) \/ Reap(i)
    BY <1>0, <2>4, RowKept DEF ReclaimInstance, Reap
  <2> QED  BY <1>9, <2>1, <2>2, <2>3, <2>4
<1>10. ASSUME NEW l \in listed, InitInstance(l) PROVE RowsTyped'
  BY <1>0, <1>10, RowSaved, RowKept DEF InitInstance
<1>11. CASE ReclaimList \/ Crash \/ Restart \/ Started \/ Expire
  BY <1>0, <1>11, RowKept DEF ReclaimList, Crash, Restart, Started, Expire
<1>12. CASE UNCHANGED vars
  BY <1>0, <1>12, RowKept DEF vars
<1> QED
  BY <1>4, <1>5, <1>6, <1>7, <1>8, <1>9, <1>10, <1>11, <1>12 DEF Next

\* What the host, its requests and its lists may be.
RestTyped ==
    /\ build \in [Instances -> {"none", "queued", "over"} \cup Building]
    /\ guest \in [Instances -> BOOLEAN]
    /\ restoring \in [Requests -> {"none", "queued", "failed"}]
    /\ up \in {"up", "down", "starting"}
    /\ listed \in SUBSET Listings
    /\ reclaiming \in SUBSET Instances
    /\ crashes \in 0 .. MaxCrashes

LEMMA RestSteps ==
  ASSUME TypeOK, [Next]_vars
  PROVE  RestTyped'
<1> USE DEF RestTyped, Building
<1>0. RestTyped
  BY DEF TypeOK
<1>1. ASSUME NEW r \in ApiRequests, User(r) PROVE RestTyped'
  BY <1>0, <1>1 DEF User, CreateRequest, DeleteRequest, RestoreRequest, host, compute
<1>2. ASSUME NEW r \in Requests, Api(r) PROVE RestTyped'
  <2>1. UNCHANGED compute /\ UNCHANGED guest
    BY <1>2 DEF Api, CreateRow, CreateCommit, Undo, CastDelete, LocalDelete,
       LocalSave, LocalDestroy, DeleteCommit, RestoreSave, RestoreCommit,
       DeleteReserve, DeleteSave, DestroyUnhosted, host
  <2>2. \/ UNCHANGED build
        \/ build' = [build EXCEPT ![req[r].inst] = "queued"]
    BY <1>2 DEF Api, CreateRow, CreateCommit, Undo, CastDelete, LocalDelete,
       LocalSave, LocalDestroy, DeleteCommit, RestoreSave, RestoreCommit,
       DeleteReserve, DeleteSave, DestroyUnhosted, host
  <2>3. \/ UNCHANGED restoring
        \/ restoring' = [restoring EXCEPT ![r] = "queued"]
    BY <1>2 DEF Api, CreateRow, CreateCommit, Undo, CastDelete, LocalDelete,
       LocalSave, LocalDestroy, DeleteCommit, RestoreSave, RestoreCommit,
       DeleteReserve, DeleteSave, DestroyUnhosted
  <2> QED  BY <1>0, <2>1, <2>2, <2>3 DEF compute
<1>3. ASSUME NEW r \in Requests, Handler(r) PROVE RestTyped'
  <2>1. UNCHANGED compute /\ UNCHANGED build
    BY <1>3 DEF Handler, Receive, Terminate, Shutdown, SaveDeleted, DestroyRow,
       CompleteDeletion, SoftDeleteInstance, RestoreInstance, InitDestroy,
       InitReserve, host
  <2>2. \/ UNCHANGED guest
        \/ guest' = [guest EXCEPT ![req[r].inst] = FALSE]
    BY <1>3 DEF Handler, Receive, Terminate, Shutdown, SaveDeleted, DestroyRow,
       CompleteDeletion, SoftDeleteInstance, RestoreInstance, InitDestroy,
       InitReserve, host
  <2>3. \/ UNCHANGED restoring
        \/ \E x \in {"none", "failed"} :
              restoring' = [restoring EXCEPT ![r] = x]
    BY <1>3 DEF Handler, Receive, Terminate, Shutdown, SaveDeleted, DestroyRow,
       CompleteDeletion, SoftDeleteInstance, RestoreInstance, InitDestroy,
       InitReserve
  <2> QED  BY <1>0, <2>1, <2>2, <2>3 DEF compute
<1>4. ASSUME NEW r \in Requests, Fault(r) PROVE RestTyped'
  <2>1. UNCHANGED <<host, compute>>
    BY <1>4 DEF Fault, CreateFails, ShutdownFails, SoftDeleteFails,
                RestoreFails, ApiDies
  <2>2. \/ UNCHANGED restoring
        \/ restoring' = [restoring EXCEPT ![r] = "failed"]
    BY <1>4 DEF Fault, CreateFails, ShutdownFails, SoftDeleteFails,
                RestoreFails, ApiDies
  <2> QED  BY <1>0, <2>1, <2>2 DEF host, compute
<1>5. ASSUME NEW i \in Instances,
             \/ BuildStep(i) \/ BuildRefused(i) \/ BuildFails(i)
             \/ BuildCleanupFails(i) \/ ScheduleFails(i)
      PROVE  RestTyped'
  <2>1. UNCHANGED <<restoring, compute>>
    BY <1>5 DEF BuildStep, BuildStart, BuildClaims, BuildNetworks, BuildMaps,
       BuildSpawns, BuildFinish, BuildErrors, BuildRefused, BuildFails,
       BuildCleanupFails, ScheduleFails
  <2>2. \E x \in {"over"} \cup Building : BuildGoto(i, x)
    BY <1>5 DEF BuildStep, BuildStart, BuildClaims, BuildNetworks, BuildMaps,
       BuildSpawns, BuildFinish, BuildErrors, BuildRefused, BuildFails,
       BuildCleanupFails, ScheduleFails, BuildEnds
  <2>3. UNCHANGED guest \/ \E b \in BOOLEAN : guest' = [guest EXCEPT ![i] = b]
    BY <1>5 DEF BuildStep, BuildStart, BuildClaims, BuildNetworks, BuildMaps,
       BuildSpawns, BuildFinish, BuildErrors, BuildRefused, BuildFails,
       BuildCleanupFails, ScheduleFails
  <2> QED  BY <1>0, <2>1, <2>2, <2>3 DEF BuildGoto, compute
<1>6. ASSUME NEW i \in Instances, ReclaimInstance(i) \/ Reap(i)
      PROVE  RestTyped'
  BY <1>0, <1>6 DEF ReclaimInstance, Reap, host, compute
<1>7. CASE ReclaimList \/ Started \/ Expire
  BY <1>0, <1>7 DEF ReclaimList, Started, Expire, host, compute
<1>8. CASE Crash
  <2>1. crashes' \in 0 .. MaxCrashes
    BY <1>0, <1>8, DeleteAssumption DEF Crash
  <2> QED  BY <1>0, <1>8, <2>1 DEF Crash
<1>9. CASE Restart
  <2>1. \A i \in Instances : row[i] \in Rows
    BY DEF TypeOK
  <2>2. \A i \in Instances : [inst |-> i, vm_state |-> row[i].vm_state,
                              task_state |-> row[i].task_state] \in Listings
    BY <2>1 DEF Rows, Listings
  <2>3. listed' \in SUBSET Listings
    BY <1>9, <2>2 DEF Restart
  <2> QED  BY <1>0, <1>9, <2>3 DEF Restart, host
<1>10. ASSUME NEW l \in listed, InitInstance(l) PROVE RestTyped'
  BY <1>0, <1>10 DEF InitInstance, host
<1>11. CASE UNCHANGED vars
  BY <1>0, <1>11 DEF vars, host, compute
<1> QED
  BY <1>1, <1>2, <1>3, <1>4, <1>5, <1>6, <1>7, <1>8, <1>9, <1>10, <1>11 DEF Next

LEMMA DeleteInit == Init => TypeOK /\ Named
<1> SUFFICES ASSUME Init PROVE TypeOK /\ Named
  OBVIOUS
<1>1. QuotasTypeOK
  BY DEF Init, QuotasInit, QuotasTypeOK, Deltas, NotExpiring, Expiries
<1>2. RowsTyped
  BY RowsMade DEF Init, RowsTyped
<1>3. req \in [Requests -> RequestRecords] /\ Named
  BY RequestsMade DEF Init, NoRequest, Named
<1>4. RestTyped
  BY DeleteAssumption DEF Init, RestTyped
<1> QED  BY <1>1, <1>2, <1>3, <1>4 DEF TypeOK, RowsTyped, RestTyped

LEMMA DeleteNext == TypeOK /\ Named /\ [Next]_vars => TypeOK' /\ Named'
<1> SUFFICES ASSUME TypeOK, Named, [Next]_vars PROVE TypeOK' /\ Named'
  OBVIOUS
<1>1. QuotasTypeOK'
  BY QuotaSteps, QuotasTyped DEF TypeOK
<1>2. ReqStep /\ RowsTyped' /\ RestTyped'
  BY ReqSteps, RowSteps, RestSteps
<1> QED  BY <1>1, <1>2 DEF TypeOK, ReqStep, RowsTyped, RestTyped

\* Every reachable state is well typed, and every request that does something
\* names an instance.
THEOREM DeleteTypeCorrect == Spec => [](TypeOK /\ Named)
BY DeleteInit, DeleteNext, PTL DEF Spec

-----------------------------------------------------------------------------
(* Reservations *)

\* What the expiry has read is the work of dead requests, and stays as it was.
ExpiryHolds ==
    /\ \A r \in expiring.rows :
          r \in Instances \/ (r \in ApiRequests /\ At(r, "dead"))
    /\ expiring.held = Cardinality(expiring.rows \cap Pending)

\* Neither the host nor a request that has just begun holds an increase.
NothingHeldYet ==
    \A r \in Requests : r \in Instances \/ Fresh(r) => r \notin Pending

Reservations == ReservedIsHeld /\ NothingHeldYet /\ ExpiryHolds

LEMMA PendingFinite ==
  /\ IsFiniteSet(Pending) /\ Cardinality(Pending) \in Nat
  /\ \A S : /\ IsFiniteSet(S \cap Pending)
            /\ Cardinality(S \cap Pending) \in Nat
<1>1. IsFiniteSet(Pending)
  BY FS_Subset, DeleteAssumption DEF Pending
<1>2. \A S : IsFiniteSet(S \cap Pending)
  BY <1>1, FS_Subset
<1> QED  BY <1>1, <1>2, FS_CardinalityType

LEMMA ReservationsKept ==
  ASSUME Reservations, ReqStep,
         UNCHANGED <<reserved, expiring>>, Pending' = Pending
  PROVE  Reservations'
<1>1. ReservedIsHeld'
  BY DEF Reservations, ReservedIsHeld
<1>2. NothingHeldYet'
  BY DEF Reservations, NothingHeldYet, ReqStep, ApiRequests
<1>3. ExpiryHolds'
  <2>1. expiring.held = Cardinality(expiring.rows \cap Pending')
    BY DEF Reservations, ExpiryHolds
  <2> QED  BY <2>1 DEF Reservations, ExpiryHolds, ReqStep, ApiRequests
<1> QED  BY <1>1, <1>2, <1>3 DEF Reservations

\* A new reservation.
LEMMA ReservationMade ==
  ASSUME TypeOK, Reservations, ReqStep, NEW r \in ApiRequests,
         NEW aged \in BOOLEAN,
         Fresh(r), Reserve(r, 1, Actual, aged), ~Fresh(r)'
  PROVE  Reservations'
<1>1. r \in Requests /\ r \notin Instances
  BY DEF ApiRequests
<1>2. r \notin Pending
  BY <1>1 DEF Reservations, NothingHeldYet
<1>3. reservation' = [reservation EXCEPT ![r] = 1] /\ UNCHANGED expiring
  BY DEF Reserve
<1>4. reserved' = reserved + 1
  BY DEF Reserve, Held
<1>5. Pending' = Pending \cup {r}
  BY <1>1, <1>3 DEF Pending, TypeOK, QuotasTypeOK
<1>6. Cardinality(Pending') = Cardinality(Pending) + 1
  BY <1>2, <1>5, PendingFinite, FS_AddElement
<1>7. ReservedIsHeld'
  BY <1>4, <1>6 DEF Reservations, ReservedIsHeld
<1>8. NothingHeldYet'
  <2> SUFFICES ASSUME NEW q \in Requests, q \in Instances \/ Fresh(q)'
               PROVE  q \notin Pending'
    BY DEF NothingHeldYet
  <2>1. q # r
    BY <1>1
  <2>2. q \in Instances \/ Fresh(q)
    BY DEF ReqStep, ApiRequests
  <2> QED  BY <1>5, <2>1, <2>2 DEF Reservations, NothingHeldYet
<1>9. ExpiryHolds'
  <2>1. r \notin expiring.rows
    BY <1>1 DEF Reservations, ExpiryHolds, Fresh, At
  <2>2. expiring.rows \cap Pending' = expiring.rows \cap Pending
    BY <1>5, <2>1
  <2>3. expiring.held = Cardinality(expiring.rows \cap Pending')
    BY <2>2 DEF Reservations, ExpiryHolds
  <2> QED  BY <1>3, <2>3 DEF Reservations, ExpiryHolds, ReqStep
<1> QED  BY <1>7, <1>8, <1>9 DEF Reservations

\* One that ends, by a commit or a roll back.
LEMMA ReservationEnds ==
  ASSUME TypeOK, Reservations, ReqStep, NEW r \in Requests,
         ~At(r, "dead"), Commit(r) \/ Rollback(r)
  PROVE  Reservations'
<1>1. /\ reservation' = [reservation EXCEPT ![r] = 0]
      /\ reserved' = reserved - Held(reservation[r])
      /\ UNCHANGED expiring
  BY DEF Commit, Rollback
<1>2. Pending' = Pending \ {r}
  BY <1>1 DEF Pending, TypeOK, QuotasTypeOK
<1>3. CASE r \notin Pending
  <2>1. Pending' = Pending
    BY <1>2, <1>3
  <2>2. Held(reservation[r]) = 0
    BY <1>3 DEF Pending, Held
  <2>3. reserved' = reserved
    BY <1>1, <2>2 DEF TypeOK, QuotasTypeOK
  <2> QED  BY <1>1, <2>1, <2>3, ReservationsKept
<1>4. CASE r \in Pending
  <2>1. r \notin Instances
    BY <1>4 DEF Reservations, NothingHeldYet
  <2>2. reservation[r] = 1
    BY <1>4 DEF Pending, TypeOK, QuotasTypeOK, Deltas
  <2>3. reserved' = reserved - 1
    BY <1>1, <2>2 DEF Held
  <2>4. Cardinality(Pending') = Cardinality(Pending) - 1
    BY <1>2, <1>4, PendingFinite, FS_RemoveElement
  <2>5. ReservedIsHeld'
    BY <2>3, <2>4, PendingFinite DEF Reservations, ReservedIsHeld
  <2>6. NothingHeldYet'
    BY <1>2 DEF Reservations, NothingHeldYet, ReqStep, ApiRequests
  <2>7. ExpiryHolds'
    <3>1. r \notin expiring.rows
      BY <2>1 DEF Reservations, ExpiryHolds
    <3>2. expiring.rows \cap Pending' = expiring.rows \cap Pending
      BY <1>2, <3>1
    <3>3. expiring.held = Cardinality(expiring.rows \cap Pending')
      BY <3>2 DEF Reservations, ExpiryHolds
    <3> QED  BY <1>1, <3>3 DEF Reservations, ExpiryHolds, ReqStep
  <2> QED  BY <2>5, <2>6, <2>7 DEF Reservations
<1> QED  BY <1>3, <1>4

\* The expiry, if nothing was reserved or given back while it ran.
LEMMA ReservationsExpire ==
  ASSUME TypeOK, Reservations, ReqStep, expiring.seen = reserved, ExpireWrite
  PROVE  Reservations'
<1> DEFINE H == expiring.rows \cap Pending
<1>1. expiring.held = Cardinality(H)
  BY DEF Reservations, ExpiryHolds
<1>2. reserved' = reserved - Cardinality(H)
  BY <1>1 DEF ExpireWrite, TypeOK, QuotasTypeOK
<1>3. Pending' = Pending \ H
  BY DEF ExpireWrite, Pending
<1>4. Cardinality(Pending') = Cardinality(Pending) - Cardinality(H)
  <2>1. Pending \cap H = H
    OBVIOUS
  <2> QED  BY <1>3, <2>1, PendingFinite, FS_Difference
<1>5. ReservedIsHeld'
  BY <1>2, <1>4 DEF Reservations, ReservedIsHeld
<1>6. NothingHeldYet'
  BY <1>3 DEF Reservations, NothingHeldYet, ReqStep, ApiRequests
<1>7. ExpiryHolds'
  <2>1. expiring' = NotExpiring
    BY DEF ExpireWrite
  <2>2. Cardinality({} \cap Pending') = 0
    BY FS_EmptySet
  <2> QED  BY <2>1, <2>2 DEF ExpiryHolds, NotExpiring
<1> QED  BY <1>5, <1>6, <1>7 DEF Reservations

\* The inductive invariant of the reservations.
LEMMA ReservationsInvariant ==
  ASSUME "expire" \notin Races
  PROVE  Spec => []Reservations
<1>1. Init => Reservations
  <2> SUFFICES ASSUME Init PROVE Reservations
    OBVIOUS
  <2>1. Pending = {}
    BY DEF Init, QuotasInit, Pending
  <2>2. Cardinality(Pending) = 0 /\ \A S : Cardinality(S \cap Pending) = 0
    BY <2>1, FS_EmptySet
  <2>3. reserved = 0 /\ expiring = NotExpiring
    BY DEF Init, QuotasInit
  <2> QED  BY <2>1, <2>2, <2>3 DEF Reservations, ReservedIsHeld, NothingHeldYet,
                                  ExpiryHolds, NotExpiring
<1>2. TypeOK /\ Named /\ Reservations /\ [Next]_vars => Reservations'
  <2> SUFFICES ASSUME TypeOK, Named, Reservations, [Next]_vars
               PROVE  Reservations'
    OBVIOUS
  <2>1. ReqStep
    BY ReqSteps
  <2>2. CASE UNCHANGED quotas
    BY <2>1, <2>2, ReservationsKept DEF quotas, Pending
  <2>3. CASE \E aged \in BOOLEAN : OverQuota(1, Actual, aged)
    BY <2>1, <2>3, ReservationsKept DEF OverQuota, Pending
  <2>4. CASE \E r \in ApiRequests, aged \in BOOLEAN :
                Fresh(r) /\ Reserve(r, 1, Actual, aged) /\ ~Fresh(r)'
    BY <2>1, <2>4, ReservationMade
  <2>5. ASSUME NEW r \in Requests, NEW aged \in BOOLEAN,
               Fresh(r), Reserve(r, -1, Actual, aged)
        PROVE  Reservations'
    <3>1. r \notin Pending
      BY <2>5 DEF Reservations, NothingHeldYet
    <3>2. Pending' = Pending
      BY <2>5, <3>1 DEF Reserve, Pending, TypeOK, QuotasTypeOK
    <3>3. reserved' = reserved /\ UNCHANGED expiring
      BY <2>5 DEF Reserve, Held, TypeOK, QuotasTypeOK
    <3> QED  BY <2>1, <3>2, <3>3, ReservationsKept
  <2>6. CASE \E r \in Requests : ~At(r, "dead") /\ (Commit(r) \/ Rollback(r))
    BY <2>1, <2>6, ReservationEnds
  <2>7. ASSUME NEW i \in Instances,
               reservation' = [reservation EXCEPT ![i] = 0],
               UNCHANGED <<in_use, reserved, expiring>>
        PROVE  Reservations'
    <3>1. i \in Requests /\ i \notin Pending
      BY DeleteAssumption DEF Reservations, NothingHeldYet
    <3>2. Pending' = Pending
      BY <2>7, <3>1 DEF Pending, TypeOK, QuotasTypeOK
    <3> QED  BY <2>1, <2>7, <3>2, ReservationsKept
  <2>8. ASSUME NEW rows \in SUBSET {r \in Requests : At(r, "dead")},
               ExpireRead(rows)
        PROVE  Reservations'
    <3>1. UNCHANGED <<reserved, reservation>> /\ Pending' = Pending
      BY <2>8 DEF ExpireRead, Pending
    <3>2. ReservedIsHeld' /\ NothingHeldYet'
      BY <2>1, <3>1 DEF Reservations, ReservedIsHeld, NothingHeldYet, ReqStep,
                        ApiRequests
    <3>3. ExpiryHolds'
      <4>1. expiring'.rows = rows /\ expiring'.held = Cardinality(rows \cap Pending')
        BY <2>8, <3>1 DEF ExpireRead
      <4>2. \A r \in rows : r \in Instances \/ (r \in ApiRequests /\ At(r, "dead")')
        BY <2>1 DEF ReqStep, ApiRequests
      <4> QED  BY <4>1, <4>2 DEF ExpiryHolds
    <3> QED  BY <3>2, <3>3 DEF Reservations
  <2>9. CASE expiring.seen = reserved /\ ExpireWrite
    BY <2>1, <2>9, ReservationsExpire
  <2> QED
    BY QuotaSteps, <2>2, <2>3, <2>4, <2>5, <2>6, <2>7, <2>8, <2>9 DEF QuotaStep
<1> QED  BY <1>1, <1>2, DeleteTypeCorrect, PTL DEF Spec

\* As long as nothing is reserved while the expiry runs, the usage row's
\* reserved is what the reservations hold, however many requests, instances,
\* faults and crashes there are: no increase is given back twice or never.
THEOREM ReservedNeverDrifts ==
  ASSUME "expire" \notin Races
  PROVE  Spec => []ReservedIsHeld
<1>1. Reservations => ReservedIsHeld
  BY DEF Reservations
<1> QED  BY <1>1, ReservationsInvariant, PTL

-----------------------------------------------------------------------------
(* Where the guests are *)

\* Which requests users make and which the host makes by itself.
KindsFit ==
    \A r \in Requests :
      /\ r \in Instances => req[r].kind \in {"none", "reclaim", "resume", "partial"}
      /\ r \notin Instances =>
           req[r].kind \in {"none", "create", "delete", "soft", "restore"}
      /\ req[r].pc \in {"row", "made"} => req[r].kind = "create"
      /\ restoring[r] # "none" \/ req[r].pc = "restore-save" =>
           req[r].kind = "restore"
      /\ req[r].pc = "unused" => restoring[r] = "none"

\* An instance is created once, and built after that.
CreatedOnce ==
    /\ \A q, r \in Requests :
         /\ req[q].kind = "create" /\ req[r].kind = "create"
         /\ req[q].inst = req[r].inst
         => q = r
    /\ \A r \in Requests, i \in Instances : req[r].inst = i =>
         /\ req[r].pc \in {"row", "made"} => build[i] = "none"
         /\ req[r].pc = "row" => row[i].stage = "absent"
         /\ req[r].pc = "made" => row[i].stage # "absent"
    /\ \A i \in Instances : row[i].stage = "absent" => build[i] = "none"

\* The claim sets the host, the spawn makes the guest. A build that has a guest
\* ends with the host set, unless it failed and was not cleaned up: the row's
\* task is its own or that of a deletion.
BuildFits ==
    \A i \in Instances :
      /\ build[i] \in {"none", "queued", "started"} =>
           ~row[i].hosted /\ ~row[i].launched
      /\ build[i] \in {"claimed", "networked", "mapped", "spawned"} => row[i].hosted
      /\ guest[i] => build[i] \in {"spawned", "failed", "over"}
      /\ guest[i] /\ "cleanup" \notin Faults => row[i].hosted /\ build[i] # "failed"
      /\ build[i] = "spawned" /\ Live(i) =>
           row[i].task_state \in {"spawning", "deleting"}
      /\ row[i].launched \/ row[i].vm_state = "soft-delete" => build[i] = "over"

\* Who works on an instance that has been claimed, and who only on one whose
\* build is over.
WorkFits ==
    /\ \A r \in Requests, i \in Instances : req[r].inst = i =>
         /\ req[r].hosted \/ req[r].pc \in ComputeSide \cup {"cast"} =>
              build[i] \notin {"none", "queued", "started"}
         /\ \/ req[r].kind \in {"soft", "restore", "reclaim"}
            \/ req[r].pc \in {"local", "local-destroy"}
            => build[i] = "over"
         /\ req[r].pc \in ComputeSide \ {"waiting"} => build[i] \notin Building
    /\ \A i \in reclaiming : build[i] = "over"

\* A service that is down, or not yet up, builds nothing.
HostFits ==
    /\ up # "up" => \A i \in Instances : build[i] \notin Building
    /\ \A l \in listed : up = "starting" /\ build[l.inst] = "over"
    /\ \A r \in Requests :
         req[r].kind \in {"resume", "partial"} /\ req[r].pc \in ComputeSide =>
             up = "starting"

HostInv ==
    /\ TypeOK /\ Named
    /\ KindsFit /\ CreatedOnce /\ BuildFits /\ WorkFits /\ HostFits

LEMMA GotoFields ==
  ASSUME TypeOK, NEW r \in Requests, NEW pc, Goto(r, pc)
  PROVE  \A q \in Requests :
           /\ req'[q].kind = req[q].kind /\ req'[q].inst = req[q].inst
           /\ req'[q].hosted = req[q].hosted
           /\ req'[q].vm_state = req[q].vm_state
           /\ req'[q].pc = IF q = r THEN pc ELSE req[q].pc
<1>1. req \in [Requests -> RequestRecords]
  BY DEF TypeOK
<1> QED  BY <1>1 DEF Goto, RequestRecords

LEMMA SaveFields ==
  ASSUME TypeOK, NEW i \in Instances, NEW vm, NEW task, Save(i, vm, task)
  PROVE  \A j \in Instances :
           /\ row'[j].hosted = row[j].hosted /\ row'[j].launched = row[j].launched
           /\ row'[j].stage = row[j].stage
           /\ row'[j].vm_state = IF j = i THEN vm ELSE row[j].vm_state
           /\ row'[j].task_state = IF j = i THEN task ELSE row[j].task_state
<1>1. row \in [Instances -> Rows]
  BY DEF TypeOK
<1> QED  BY <1>1 DEF Save, Rows

LEMMA DestroyedFields ==
  ASSUME TypeOK, NEW i \in Instances, Destroyed(i)
  PROVE  \A j \in Instances :
           /\ row'[j].hosted = row[j].hosted /\ row'[j].launched = row[j].launched
           /\ row'[j].stage = IF j = i THEN "deleted" ELSE row[j].stage
           /\ row'[j].vm_state = row[j].vm_state
           /\ row'[j].task_state = row[j].task_state
<1>1. row \in [Instances -> Rows]
  BY DEF TypeOK
<1> QED  BY <1>1 DEF Destroyed, Rows

\* What a request may do to the rows: it claims and launches nothing, and
\* leaves alone the task of a build that has a guest.
RowsFit ==
    \A j \in Instances :
      /\ row'[j].hosted = row[j].hosted /\ row'[j].launched = row[j].launched
      /\ row'[j].stage = "absent" <=> row[j].stage = "absent"
      /\ row'[j].stage = "live" => row[j].stage = "live"
      /\ build[j] = "spawned" /\ row'[j].stage = "live" =>
           row'[j].task_state \in {"spawning", "deleting"}
      /\ row'[j].vm_state = "soft-delete" => build[j] = "over"

LEMMA RowsLeft ==
  ASSUME HostInv, UNCHANGED row PROVE RowsFit
BY DEF HostInv, BuildFits, RowsFit, Live

LEMMA RowsSaved ==
  ASSUME HostInv, NEW i \in Instances, NEW vm, NEW task, Save(i, vm, task),
         build[i] = "spawned" => task \in {"spawning", "deleting"},
         vm = "soft-delete" => build[i] = "over" \/ row[i].vm_state = "soft-delete"
  PROVE  RowsFit
<1> QED  BY SaveFields DEF HostInv, BuildFits, RowsFit, Live

LEMMA RowsDestroyed ==
  ASSUME HostInv, NEW i \in Instances, Live(i), Destroyed(i) PROVE RowsFit
<1> QED  BY DestroyedFields DEF HostInv, BuildFits, RowsFit, Live

\* What it may do to the host.
HostKept ==
    /\ UNCHANGED <<build, up, listed>>
    /\ reclaiming' \subseteq reclaiming
    /\ \A j \in Instances : guest'[j] => guest[j]

LEMMA GoesOn ==
  ASSUME HostInv, TypeOK', Named', NEW r \in Requests, NEW pc \in Pcs, Goto(r, pc),
         ~At(r, "unused"), pc \notin {"unused", "row", "made", "restore-save"},
         HostKept, RowsFit,
         \A q \in Requests :
             restoring'[q] # "none" =>
                 restoring[q] # "none" \/ req[q].pc = "restore-save",
         \A i \in Instances : req[r].inst = i =>
             /\ pc \in ComputeSide \cup {"cast"} =>
                  build[i] \notin {"none", "queued", "started"}
             /\ pc \in {"local", "local-destroy"} => build[i] = "over"
             /\ pc \in ComputeSide \ {"waiting"} => build[i] \notin Building,
         req[r].kind \in {"resume", "partial"} /\ pc \in ComputeSide => up = "starting"
  PROVE  HostInv'
<1> USE GotoFields DEF HostInv
<1>1. KindsFit'
  BY DEF KindsFit, At
<1>2. CreatedOnce'
  BY DEF CreatedOnce, RowsFit, HostKept
<1>3. BuildFits'
  BY DEF BuildFits, RowsFit, HostKept, Live
<1>4. WorkFits'
  BY DEF WorkFits, HostKept
<1>5. HostFits'
  BY DEF HostFits, HostKept
<1> QED  BY <1>1, <1>2, <1>3, <1>4, <1>5

LEMMA StaysPut ==
  ASSUME HostInv, TypeOK', Named', UNCHANGED req, HostKept, RowsFit,
         \A q \in Requests : restoring'[q] # "none" => restoring[q] # "none"
  PROVE  HostInv'
<1> USE DEF HostInv
<1>1. KindsFit'
  BY DEF KindsFit, At
<1>2. CreatedOnce'
  BY DEF CreatedOnce, RowsFit, HostKept
<1>3. BuildFits'
  BY DEF BuildFits, RowsFit, HostKept, Live
<1>4. WorkFits'
  BY DEF WorkFits, HostKept
<1>5. HostFits'
  BY DEF HostFits, HostKept
<1> QED  BY <1>1, <1>2, <1>3, <1>4, <1>5

LEMMA UserKeepsHost ==
  ASSUME HostInv, TypeOK', Named', NEW r \in ApiRequests, User(r)
  PROVE  HostInv'
<1>0. r \in Requests /\ r \notin Instances
  BY DEF ApiRequests
<1>1. req \in [Requests -> RequestRecords]
  BY DEF HostInv, TypeOK
<1>2. PICK i \in Instances, aged \in Ages :
           \/ CreateRequest(r, i, aged)
           \/ \E kind \in {"delete", "soft"} : DeleteRequest(r, i, kind)
           \/ RestoreRequest(r, i, aged)
  BY DEF User
<1>3. CASE Goto(r, "over") /\ UNCHANGED <<row, host, restoring, compute>>
  <2>1. \A q \in Requests :
          /\ req'[q].kind = req[q].kind /\ req'[q].inst = req[q].inst
          /\ req'[q].hosted = req[q].hosted
          /\ req'[q].pc = IF q = r THEN "over" ELSE req[q].pc
    BY <1>0, <1>3, GotoFields DEF HostInv
  <2> QED
    BY <1>3, <2>1 DEF HostInv, KindsFit, CreatedOnce, BuildFits, WorkFits, HostFits,
                      host, compute, ComputeSide, Live
<1>4. CASE CreateRequest(r, i, aged) /\ ~Goto(r, "over")
  <2>1. /\ UNCHANGED <<row, host, restoring, compute>>
        /\ At(r, "unused") /\ row[i].stage = "absent"
        /\ \A q \in Requests : req[q].inst # i
        /\ req' = [req EXCEPT ![r] = [NoRequest EXCEPT !.kind = "create",
                                                       !.inst = i, !.pc = "row"]]
    BY <1>4 DEF CreateRequest
  <2>2. \A q \in Requests :
          /\ q # r => req'[q] = req[q]
          /\ q = r => /\ req'[q].kind = "create" /\ req'[q].inst = i
                      /\ ~req'[q].hosted /\ req'[q].pc = "row"
    BY <1>0, <1>1, <2>1 DEF NoRequest
  <2> HIDE DEF NoRequest
  <2> QED
    BY <1>0, <2>1, <2>2
    DEF HostInv, KindsFit, CreatedOnce, BuildFits, WorkFits, HostFits,
        host, compute, ComputeSide, At, Live
<1>5. ASSUME NEW kind \in {"delete", "soft"}, DeleteRequest(r, i, kind)
      PROVE  HostInv'
  <2>1. /\ UNCHANGED <<row, host, restoring, compute>> /\ At(r, "unused")
        /\ kind = "soft" => row[i].launched
    BY <1>5 DEF DeleteRequest, MayDelete, DeleteKinds
  <2>2. \A q \in Requests :
          /\ q # r => req'[q] = req[q]
          /\ q = r => /\ req'[q].kind = kind /\ req'[q].inst = i
                      /\ req'[q].hosted = row[i].hosted /\ req'[q].pc = "save"
    BY <1>0, <1>1, <1>5 DEF DeleteRequest
  <2> QED
    BY <1>0, <2>1, <2>2
    DEF HostInv, KindsFit, CreatedOnce, BuildFits, WorkFits, HostFits,
        host, compute, ComputeSide, At, Live
<1>6. CASE RestoreRequest(r, i, aged) /\ ~Goto(r, "over")
  <2>1. /\ UNCHANGED <<row, host, restoring, compute>> /\ At(r, "unused")
        /\ row[i].vm_state = "soft-delete"
        /\ req' = [req EXCEPT ![r] = [NoRequest EXCEPT !.kind = "restore",
                                                       !.inst = i,
                                                       !.pc = "restore-save"]]
    BY <1>6 DEF RestoreRequest
  <2>2. \A q \in Requests :
          /\ q # r => req'[q] = req[q]
          /\ q = r => /\ req'[q].kind = "restore" /\ req'[q].inst = i
                      /\ ~req'[q].hosted /\ req'[q].pc = "restore-save"
    BY <1>0, <1>1, <2>1 DEF NoRequest
  <2> QED
    BY <1>0, <2>1, <2>2
    DEF HostInv, KindsFit, CreatedOnce, BuildFits, WorkFits, HostFits,
        host, compute, ComputeSide, At, Live
<1> QED  BY <1>2, <1>3, <1>4, <1>5, <1>6 DEF CreateRequest, RestoreRequest

\* What every step of a request knows of it.
LEMMA Working ==
  ASSUME HostInv, NEW r \in Requests, req[r].pc \notin {"unused", "over"}
  PROVE  /\ req[r].inst \in Instances
         /\ req[r].hosted \/ req[r].pc \in ComputeSide \cup {"cast"} =>
              /\ build[req[r].inst] \notin {"none", "queued", "started"}
              /\ row[req[r].inst].stage # "absent"
         /\ \/ req[r].kind \in {"soft", "restore", "reclaim"}
            \/ req[r].pc \in {"local", "local-destroy"}
            => build[req[r].inst] = "over"
         /\ req[r].pc \in ComputeSide \ {"waiting"} =>
              build[req[r].inst] \notin Building
BY DEF HostInv, Named, WorkFits, CreatedOnce

LEMMA ApiKeepsHost ==
  ASSUME HostInv, TypeOK', Named', "heartbeat-build" \notin Races,
         NEW r \in Requests, Api(r)
  PROVE  HostInv'
<1> USE DEF Pcs, ApiSide, ComputeSide
<1> DEFINE i == req[r].inst
<1>0. req[r].pc \notin {"unused", "over"}
  BY DEF Api, CreateRow, CreateCommit, Undo, CastDelete, LocalDelete, LocalSave,
         LocalDestroy, DeleteCommit, RestoreSave, RestoreCommit, DeleteReserve,
         DeleteSave, DestroyUnhosted, At
<1>1. i \in Instances
  BY <1>0, Working
<1>2. ASSUME NEW pc \in Pcs, Goto(r, pc),
             pc \notin {"unused", "row", "made", "restore-save", "local",
                        "local-destroy"},
             pc \notin ComputeSide, pc = "cast" => req[r].hosted,
             RowsFit, UNCHANGED <<host, compute, restoring>>
      PROVE  HostInv'
  <2>1. \A j \in Instances : req[r].inst = j /\ pc = "cast" =>
            build[j] \notin {"none", "queued", "started"}
    BY <1>0, <1>2, Working
  <2> QED  BY <1>0, <1>2, <2>1, GoesOn DEF At, HostKept, host, compute
<1>3. CASE CreateRow(r)
  <2>1. \A q \in Requests :
          /\ req'[q].kind = req[q].kind /\ req'[q].inst = req[q].inst
          /\ req'[q].hosted = req[q].hosted
          /\ req'[q].pc = IF q = r THEN "made" ELSE req[q].pc
    BY <1>3, GotoFields DEF HostInv, CreateRow
  <2>2. row \in [Instances -> Rows]
    BY DEF HostInv, TypeOK
  <2>3. \A j \in Instances :
          /\ j # i => row'[j] = row[j]
          /\ j = i => /\ row'[j].stage = "live" /\ row'[j].vm_state = "building"
                      /\ ~row'[j].hosted /\ ~row'[j].launched
    BY <1>3, <2>2 DEF CreateRow, NoRow
  <2>4. /\ UNCHANGED <<host, restoring, compute>> /\ req[r].pc = "row"
        /\ build[i] = "none"
    BY <1>1, <1>3 DEF CreateRow, HostInv, CreatedOnce, At
  <2>5. KindsFit' /\ WorkFits' /\ HostFits'
    BY <2>1, <2>4 DEF HostInv, KindsFit, WorkFits, HostFits, host, compute
  <2>6. CreatedOnce'
    <3>1. \A q \in Requests : req[q].inst = i /\ req[q].pc \in {"row", "made"} => q = r
      BY <2>4 DEF HostInv, KindsFit, CreatedOnce
    <3> QED  BY <1>1, <2>1, <2>3, <2>4, <3>1 DEF HostInv, CreatedOnce, host
  <2>7. BuildFits'
    BY <1>1, <2>3, <2>4 DEF HostInv, BuildFits, host, Live
  <2> QED  BY <2>5, <2>6, <2>7 DEF HostInv
<1>4. CASE CreateCommit(r)
  <2>1. \A q \in Requests :
          /\ req'[q].kind = req[q].kind /\ req'[q].inst = req[q].inst
          /\ req'[q].hosted = req[q].hosted
          /\ req'[q].pc = IF q = r THEN "over" ELSE req[q].pc
    BY <1>4, GotoFields DEF HostInv, CreateCommit
  <2>2. /\ UNCHANGED <<row, guest, restoring, compute>> /\ req[r].pc = "made"
        /\ build[i] = "none" /\ row[i].stage # "absent"
    BY <1>1, <1>4 DEF CreateCommit, HostInv, CreatedOnce, At
  <2>3. \A j \in Instances : build'[j] = IF j = i THEN "queued" ELSE build[j]
    BY <1>4 DEF CreateCommit, HostInv, TypeOK
  <2>4. \A q \in Requests : req[q].inst = i /\ req[q].pc \in {"row", "made"} => q = r
    BY <2>2 DEF HostInv, KindsFit, CreatedOnce
  <2>5. KindsFit' /\ BuildFits' /\ CreatedOnce'
    BY <1>1, <2>1, <2>2, <2>3, <2>4
    DEF HostInv, KindsFit, BuildFits, CreatedOnce, Live
  <2>6. WorkFits'
    BY <1>1, <2>1, <2>2, <2>3 DEF HostInv, TypeOK, WorkFits, Building, compute
  <2>7. HostFits'
    BY <1>1, <2>1, <2>2, <2>3 DEF HostInv, HostFits, Building, compute, TypeOK, Listings
  <2> QED  BY <2>5, <2>6, <2>7 DEF HostInv
<1>5. CASE \/ Undo(r) \/ CastDelete(r) \/ DeleteCommit(r) \/ RestoreCommit(r)
           \/ \E aged \in Ages : DeleteReserve(r, aged)
  <2>1. UNCHANGED <<row, host, compute, restoring>>
        /\ \E pc \in {"over", "cast", "decide"} :
             Goto(r, pc) /\ (pc = "cast" => req[r].hosted)
    BY <1>5 DEF Undo, CastDelete, DeleteCommit, RestoreCommit, DeleteReserve
  <2> QED  BY <1>2, <2>1, RowsLeft
<1>6. CASE DeleteSave(r)
  <2>1. CASE Goto(r, "over")
    <3>1. UNCHANGED <<row, host, compute, restoring>>
      <4>1. ~Live(i)
        <5>1. CASE Live(i)
          <6>1. req'[r].pc = "reserve" /\ req'[r].pc = "over"
            BY <1>6, <2>1, <5>1 DEF DeleteSave, Goto, HostInv, TypeOK, RequestRecords
          <6> QED  BY <6>1
        <5> QED  BY <5>1
      <4> QED  BY <1>6, <4>1 DEF DeleteSave
    <3> QED  BY <1>2, <2>1, <3>1, RowsLeft
  <2>2. CASE ~Goto(r, "over")
    <3>1. /\ Live(i) /\ UNCHANGED <<host, restoring, compute>>
          /\ req' = [req EXCEPT ![r].pc = "reserve",
                                ![r].vm_state = row[i].vm_state,
                                ![r].hosted = row[i].hosted]
          /\ row' = [row EXCEPT ![i].task_state =
                        IF req[r].kind = "soft" THEN "soft-deleting" ELSE "deleting"]
      BY <1>6, <2>2 DEF DeleteSave
    <3>2. \A q \in Requests :
            /\ req'[q].kind = req[q].kind /\ req'[q].inst = req[q].inst
            /\ req'[q].hosted = IF q = r THEN row[i].hosted ELSE req[q].hosted
            /\ req'[q].pc = IF q = r THEN "reserve" ELSE req[q].pc
      <4> DEFINE x == [req[r] EXCEPT !.pc = "reserve", !.vm_state = row[i].vm_state,
                                     !.hosted = row[i].hosted]
      <4>1. req' = [req EXCEPT ![r] = x] /\ req \in [Requests -> RequestRecords]
        BY <3>1 DEF HostInv, TypeOK
      <4>2. /\ x.kind = req[r].kind /\ x.inst = req[r].inst
            /\ x.hosted = row[i].hosted /\ x.pc = "reserve"
        BY <4>1 DEF RequestRecords
      <4> HIDE DEF x
      <4> QED  BY <4>1, <4>2
    <3>3. \A j \in Instances :
            /\ row'[j].hosted = row[j].hosted /\ row'[j].launched = row[j].launched
            /\ row'[j].stage = row[j].stage /\ row'[j].vm_state = row[j].vm_state
            /\ row'[j].task_state =
                 IF j = i THEN (IF req[r].kind = "soft" THEN "soft-deleting"
                                                       ELSE "deleting")
                          ELSE row[j].task_state
      BY <1>1, <3>1 DEF HostInv, TypeOK, Rows
    <3>4. build[i] = "spawned" => req[r].kind # "soft"
      BY <1>0, Working
    <3>c. Live(i) /\ UNCHANGED <<host, restoring, compute>>
      BY <3>1
    <3>a. KindsFit'
      BY <3>c, <3>2 DEF HostInv, KindsFit
    <3>5. CreatedOnce'
      BY <3>c, <3>2, <3>3 DEF HostInv, CreatedOnce, host
    <3>6. BuildFits'
      BY <3>c, <3>3, <3>4 DEF HostInv, BuildFits, host, Live
    <3>7. WorkFits'
      BY <3>c, <3>2 DEF HostInv, BuildFits, WorkFits, host, compute
    <3>b. HostFits'
      BY <3>c, <3>2 DEF HostInv, HostFits, host, compute
    <3> QED  BY <3>a, <3>b, <3>5, <3>6, <3>7 DEF HostInv
  <2> QED  BY <2>1, <2>2
<1>7. CASE DestroyUnhosted(r)
  <2>1. CASE Goto(r, "undo") /\ UNCHANGED row
    BY <1>2, <1>7, <2>1, RowsLeft DEF DestroyUnhosted
  <2>2. CASE Live(i) /\ Destroyed(i) /\ Goto(r, "commit")
    BY <1>1, <1>2, <1>7, <2>2, RowsDestroyed DEF DestroyUnhosted
  <2>3. CASE /\ Live(i) /\ row[i].hosted /\ UNCHANGED row
             /\ req' = [req EXCEPT ![r].hosted = TRUE,
                                   ![r].vm_state = row[i].vm_state]
    <3>1. \A q \in Requests :
            /\ req'[q].kind = req[q].kind /\ req'[q].inst = req[q].inst
            /\ req'[q].hosted => q = r \/ req[q].hosted
            /\ req'[q].pc = req[q].pc
      BY <2>3 DEF HostInv, TypeOK, RequestRecords
    <3>2. row[i].hosted /\ UNCHANGED <<row, host, restoring, compute>>
      BY <1>7, <2>3 DEF DestroyUnhosted
    <3>3. KindsFit' /\ CreatedOnce' /\ BuildFits'
      BY <3>1, <3>2 DEF HostInv, KindsFit, CreatedOnce, BuildFits, host, Live
    <3>4. WorkFits'
      <4>1. build[i] \notin {"none", "queued", "started"}
        BY <1>1, <3>2 DEF HostInv, BuildFits
      <4> QED  BY <3>1, <3>2, <4>1 DEF HostInv, WorkFits, host, compute
    <3>5. HostFits'
      BY <3>1, <3>2 DEF HostInv, HostFits, host, compute
    <3> QED  BY <3>3, <3>4, <3>5 DEF HostInv
  <2> QED  BY <1>7, <2>1, <2>2, <2>3 DEF DestroyUnhosted
<1>8. CASE LocalDelete(r)
  <2>1. /\ Goto(r, "local") /\ UNCHANGED <<row, host, compute, restoring>>
        /\ req[r].hosted /\ (up # "up" \/ build[i] \notin Building)
    BY <1>8 DEF LocalDelete
  <2>2. build[i] = "over"
    BY <1>0, <1>1, <2>1, Working DEF HostInv, HostFits, Building, TypeOK
  <2> QED  BY <1>0, <2>1, <2>2, RowsLeft, GoesOn DEF At, HostKept, host, compute
<1>9. CASE LocalSave(r) \/ LocalDestroy(r)
  <2>1. build[i] = "over" /\ UNCHANGED <<host, compute, restoring>>
    BY <1>0, <1>9, Working DEF LocalSave, LocalDestroy, At
  <2>2. CASE \E vm, task : Save(i, vm, task) /\ Goto(r, "local-destroy")
    <3>1. RowsFit
      BY <1>1, <2>1, <2>2, RowsSaved
    <3> QED  BY <1>0, <2>1, <2>2, <3>1, GoesOn DEF At, HostKept, host, compute
  <2>3. CASE Live(i) /\ Destroyed(i) /\ Goto(r, "commit")
    BY <1>1, <1>2, <2>1, <2>3, RowsDestroyed
  <2>4. CASE Goto(r, "undo") /\ UNCHANGED row
    BY <1>2, <2>1, <2>4, RowsLeft
  <2> QED  BY <1>9, <2>2, <2>3, <2>4 DEF LocalSave, LocalDestroy
<1>10. CASE RestoreSave(r)
  <2>1. CASE Goto(r, "undo") /\ UNCHANGED <<row, restoring>>
    BY <1>2, <1>10, <2>1, RowsLeft DEF RestoreSave
  <2>2. CASE /\ row' = [row EXCEPT ![i].task_state = "restoring"]
             /\ restoring' = [restoring EXCEPT ![r] = "queued"]
             /\ Goto(r, "restore-commit")
    <3>1. build[i] = "over"
      BY <1>0, <1>10, Working DEF RestoreSave, HostInv, KindsFit, At
    <3>2. RowsFit
      <4>1. Save(i, row[i].vm_state, "restoring")
        BY <1>1, <2>2 DEF Save, HostInv, TypeOK, Rows
      <4> QED  BY <1>1, <3>1, <4>1, RowsSaved
    <3>3. \A q \in Requests : restoring'[q] # "none" =>
              restoring[q] # "none" \/ req[q].pc = "restore-save"
      BY <1>10, <2>2 DEF RestoreSave, At, HostInv, TypeOK
    <3>4. HostKept
      BY <1>10 DEF RestoreSave, HostKept, host, compute
    <3> QED  BY <1>0, <2>2, <3>2, <3>3, <3>4, GoesOn DEF At
  <2> QED  BY <1>10, <2>1, <2>2 DEF RestoreSave
<1> QED  BY <1>3, <1>4, <1>5, <1>6, <1>7, <1>8, <1>9, <1>10 DEF Api

\* A handler goes on where it is allowed to work, or ends.
LEMMA HandlerGoesOn ==
  ASSUME HostInv, TypeOK', Named', NEW r \in Requests,
         req[r].pc \in ComputeSide \cup {"cast"},
         NEW pc \in (ComputeSide \ {"waiting"}) \cup {"over"}, Goto(r, pc),
         \/ req[r].pc \in ComputeSide \ {"waiting"}
         \/ req[r].pc = "cast" /\ req[r].kind = "soft"
         \/ req[r].kind \notin {"resume", "partial"}
              /\ build[req[r].inst] \notin Building
         \/ pc = "over",
         RowsFit, HostKept, UNCHANGED restoring
  PROVE  HostInv'
<1> DEFINE i == req[r].inst
<1>0. req[r].pc \notin {"unused", "over"} /\ pc \in Pcs
  BY DEF ComputeSide, Pcs
<1>1. i \in Instances
  BY <1>0, Working
<1>2. pc \in ComputeSide => /\ build[i] \notin {"none", "queued", "started"}
                            /\ build[i] \notin Building
  <2>1. req[r].pc \in ComputeSide \ {"waiting"} => build[i] \notin Building
    BY <1>0, Working
  <2>2. req[r].kind = "soft" => build[i] = "over"
    BY <1>0, Working
  <2> QED  BY <1>0, <2>1, <2>2, Working DEF Building, ComputeSide
<1>3. req[r].kind \in {"resume", "partial"} /\ pc \in ComputeSide => up = "starting"
  BY DEF HostInv, HostFits, ComputeSide
<1>4. pc \notin {"unused", "row", "made", "restore-save", "cast", "local",
                 "local-destroy"}
  BY DEF ComputeSide
<1>5. /\ ~At(r, "unused")
      /\ \A j \in Instances : req[r].inst = j =>
             /\ pc \in ComputeSide \cup {"cast"} =>
                  build[j] \notin {"none", "queued", "started"}
             /\ pc \in {"local", "local-destroy"} => build[j] = "over"
             /\ pc \in ComputeSide \ {"waiting"} => build[j] \notin Building
      /\ \A q \in Requests :
             restoring'[q] # "none" =>
                 restoring[q] # "none" \/ req[q].pc = "restore-save"
  BY <1>0, <1>2, <1>4 DEF At
<1> QED  BY <1>0, <1>3, <1>4, <1>5, GoesOn

LEMMA HandlerKeepsHost ==
  ASSUME HostInv, TypeOK', Named', NEW r \in Requests, Handler(r)
  PROVE  HostInv'
<1> USE DEF ComputeSide
<1> DEFINE i == req[r].inst
<1>1. CASE Receive(r)
  <2>1. /\ req[r].pc = "cast" /\ req[r].kind = "delete" /\ Goto(r, "waiting")
        /\ UNCHANGED <<row, host, restoring, compute>>
    BY <1>1 DEF Receive, At
  <2>2. /\ ~At(r, "unused") /\ "waiting" \in Pcs
        /\ \A j \in Instances : req[r].inst = j =>
              build[j] \notin {"none", "queued", "started"}
    BY <2>1, Working DEF At, Pcs
  <2> QED  BY <2>1, <2>2, RowsLeft, GoesOn DEF HostKept, host, compute
<1>2. CASE Terminate(r)
  <2>1. /\ req[r].pc = "waiting" /\ Goto(r, "shutdown") /\ build[i] \notin Building
        /\ UNCHANGED <<row, host, restoring, compute>>
    BY <1>2 DEF Terminate, At, InstanceLocked
  <2>2. CASE req[r].kind \in {"resume", "partial"}
    <3>1. HostKept /\ RowsFit
      BY <2>1, RowsLeft DEF HostKept, host, compute
    <3>2. \A j \in Instances : req[r].inst = j =>
              build[j] \notin {"none", "queued", "started"} /\ build[j] \notin Building
      BY <2>1, Working
    <3>3. up = "starting" /\ ~At(r, "unused") /\ "shutdown" \in Pcs
      BY <2>1, <2>2 DEF HostInv, HostFits, At, Pcs
    <3> QED  BY <2>1, <3>1, <3>2, <3>3, GoesOn
  <2>3. CASE req[r].kind \notin {"resume", "partial"}
    BY <2>1, <2>3, RowsLeft, HandlerGoesOn DEF HostKept, host, compute
  <2> QED  BY <2>2, <2>3
<1>3. CASE \/ Shutdown(r) \/ CompleteDeletion(r) \/ \E aged \in Ages : InitReserve(r, aged)
  <2>1. /\ req[r].pc \in ComputeSide \ {"waiting"}
        /\ \E pc \in (ComputeSide \ {"waiting"}) \cup {"over"} : Goto(r, pc)
        /\ UNCHANGED <<row, build, restoring, compute>>
    BY <1>3 DEF Shutdown, CompleteDeletion, InitReserve, At, host
  <2>2. HostKept
    <3>1. CASE Shutdown(r)
      <4>1. guest' = [guest EXCEPT ![i] = FALSE] /\ guest \in [Instances -> BOOLEAN]
        BY <3>1 DEF Shutdown, HostInv, TypeOK
      <4> QED  BY <2>1, <4>1 DEF HostKept, compute
    <3>2. CASE ~Shutdown(r)
      BY <1>3, <2>1, <3>2 DEF CompleteDeletion, InitReserve, HostKept, host, compute
    <3> QED  BY <3>1, <3>2
  <2> QED  BY <2>1, <2>2, RowsLeft, HandlerGoesOn
<1>4. CASE SaveDeleted(r) \/ DestroyRow(r) \/ InitDestroy(r)
  <2>1. /\ req[r].pc \in ComputeSide \ {"waiting"}
        /\ \E pc \in (ComputeSide \ {"waiting"}) \cup {"over"} : Goto(r, pc)
        /\ UNCHANGED <<restoring, host, compute>>
        /\ \/ UNCHANGED row
           \/ Save(i, "deleted", "none")
           \/ Live(i) /\ Destroyed(i)
    BY <1>4 DEF SaveDeleted, DestroyRow, InitDestroy, At
  <2>2. i \in Instances /\ build[i] # "spawned"
    BY <2>1, Working DEF Building
  <2>3. RowsFit
    BY <2>1, <2>2, RowsLeft, RowsSaved, RowsDestroyed
  <2> QED  BY <2>1, <2>3, HandlerGoesOn DEF HostKept, host, compute
<1>5. CASE SoftDeleteInstance(r)
  <2>1. /\ req[r].pc = "cast" /\ req[r].kind = "soft"
        /\ Goto(r, "committing") \/ Goto(r, "undoing")
        /\ UNCHANGED <<restoring, host, compute>>
        /\ UNCHANGED row \/ Save(i, "soft-delete", "none")
    BY <1>5 DEF SoftDeleteInstance, At
  <2>2. i \in Instances /\ build[i] = "over"
    BY <2>1, Working
  <2>3. RowsFit
    BY <2>1, <2>2, RowsLeft, RowsSaved
  <2> QED  BY <2>1, <2>3, HandlerGoesOn DEF HostKept, host, compute
<1>6. CASE RestoreInstance(r)
  <2>1. /\ restoring[r] # "none" /\ UNCHANGED <<req, host, compute>>
        /\ \E x : restoring' = [restoring EXCEPT ![r] = x]
        /\ UNCHANGED row \/ Save(i, "active", "none")
    BY <1>6 DEF RestoreInstance
  <2>2. req[r].kind = "restore" /\ req[r].pc # "unused"
    BY <2>1 DEF HostInv, KindsFit
  <2>3. RowsFit
    <3>1. CASE UNCHANGED row
      BY <3>1, RowsLeft
    <3>2. CASE ~UNCHANGED row
      <4>1. Live(i) /\ Save(i, "active", "none")
        BY <1>6, <3>2 DEF RestoreInstance
      <4>2. i \in Instances => build[i] = "over"
        BY <2>2 DEF HostInv, WorkFits
      <4>3. CASE i \in Instances
        BY <4>1, <4>2, <4>3, RowsSaved
      <4>4. CASE i \notin Instances
        BY <3>2, <4>1, <4>4 DEF Save, HostInv, TypeOK
      <4> QED  BY <4>3, <4>4
    <3> QED  BY <3>1, <3>2
  <2>4. \A q \in Requests : restoring'[q] # "none" => restoring[q] # "none"
    BY <2>1 DEF HostInv, TypeOK
  <2> QED  BY <2>1, <2>3, <2>4, StaysPut DEF HostKept, host, compute
<1> QED  BY <1>1, <1>2, <1>3, <1>4, <1>5, <1>6 DEF Handler

LEMMA FaultKeepsHost ==
  ASSUME HostInv, TypeOK', Named', NEW r \in Requests, Fault(r)
  PROVE  HostInv'
<1> DEFINE i == req[r].inst
<1>1. CASE CreateFails(r) \/ ApiDies(r)
  <2>1. /\ req[r].pc \in ApiSide
        /\ Goto(r, "undo") \/ Goto(r, "dead")
        /\ UNCHANGED <<host, restoring, compute>>
        /\ UNCHANGED row \/ (Live(i) /\ Destroyed(i))
    BY <1>1 DEF CreateFails, ApiDies, ApiSide
  <2>2. i \in Instances /\ ~At(r, "unused")
    BY <2>1, Working DEF ApiSide, At
  <2>3. RowsFit
    BY <2>1, <2>2, RowsLeft, RowsDestroyed
  <2> QED
    BY <2>1, <2>2, <2>3, GoesOn
    DEF HostKept, host, compute, Pcs, ApiSide, ComputeSide
<1>2. CASE ShutdownFails(r) \/ SoftDeleteFails(r)
  <2>1. /\ req[r].pc = "shutdown" \/ (req[r].pc = "cast" /\ req[r].kind = "soft")
        /\ Goto(r, "over") /\ UNCHANGED <<host, restoring, compute>>
        /\ \/ UNCHANGED row
           \/ \E vm, task : /\ Save(i, vm, task)
                            /\ vm = "soft-delete" => row[i].vm_state = "soft-delete"
    <3>1. CASE ShutdownFails(r)
      BY <3>1 DEF ShutdownFails, At
    <3>2. CASE SoftDeleteFails(r)
      BY <3>2 DEF SoftDeleteFails, At
    <3> QED  BY <1>2, <3>1, <3>2
  <2>2. i \in Instances /\ build[i] # "spawned"
    BY <2>1, Working DEF Building, ComputeSide
  <2>3. RowsFit
    BY <2>1, <2>2, RowsLeft, RowsSaved
  <2> QED  BY <2>1, <2>3, HandlerGoesOn DEF HostKept, host, compute, ComputeSide
<1>3. CASE RestoreFails(r)
  <2>1. /\ restoring[r] # "none" /\ UNCHANGED <<req, host, compute>>
        /\ \E x : restoring' = [restoring EXCEPT ![r] = x]
        /\ UNCHANGED row \/ Save(i, row[i].vm_state, "none")
    BY <1>3 DEF RestoreFails
  <2>2. req[r].kind = "restore"
    BY <2>1 DEF HostInv, KindsFit
  <2>3. RowsFit
    <3>1. CASE i \in Instances
      <4>1. build[i] = "over"
        BY <2>2, <3>1 DEF HostInv, WorkFits
      <4> QED  BY <2>1, <3>1, <4>1, RowsLeft, RowsSaved
    <3>2. CASE i \notin Instances
      <4>1. UNCHANGED row
        BY <2>1, <3>2 DEF Save, HostInv, TypeOK
      <4> QED  BY <4>1, RowsLeft
    <3> QED  BY <3>1, <3>2
  <2>4. \A q \in Requests : restoring'[q] # "none" => restoring[q] # "none"
    BY <2>1 DEF HostInv, TypeOK
  <2> QED  BY <2>1, <2>3, <2>4, StaysPut DEF HostKept, host, compute
<1> QED  BY <1>1, <1>2, <1>3 DEF Fault

\* A build goes on, or ends.
LEMMA BuildGoesOn ==
  ASSUME HostInv, TypeOK', Named', NEW i \in Instances,
         NEW stage \in Building \cup {"over"}, BuildGoto(i, stage),
         build[i] \in Building \cup {"queued"}, stage \in Building => up = "up",
         build[i] \in Building \ {"started"} =>
             stage \in {"networked", "mapped", "spawned", "failed", "over"},
         build[i] \in {"queued", "started"} => stage \in {"started", "claimed", "over"},
         build[i] = "failed" => stage = "over",
         UNCHANGED <<req, restoring, compute>>,
         \A j \in Instances : j # i => row'[j] = row[j] /\ guest'[j] = guest[j],
         row'[i].stage = row[i].stage,
         row'[i].launched => row[i].launched \/ stage = "over",
         row'[i].vm_state = "soft-delete" => row[i].vm_state = "soft-delete",
         row'[i].hosted => row[i].hosted \/ stage = "claimed",
         stage \in {"claimed", "networked", "mapped", "spawned"} => row'[i].hosted,
         guest'[i] => stage \in {"spawned", "failed", "over"},
         guest'[i] /\ "cleanup" \notin Faults => row'[i].hosted /\ stage # "failed",
         stage = "spawned" /\ row'[i].stage = "live" =>
             row'[i].task_state \in {"spawning", "deleting"}
  PROVE  HostInv'
<1>0. \A j \in Instances : build'[j] = IF j = i THEN stage ELSE build[j]
  BY DEF BuildGoto, HostInv, TypeOK
<1>1. KindsFit'
  BY DEF HostInv, KindsFit
<1>2. CreatedOnce'
  BY <1>0 DEF HostInv, CreatedOnce, Building
<1>3. BuildFits'
  BY <1>0 DEF HostInv, BuildFits, Building, Live
<1>4. WorkFits'
  <2>1. reclaiming \subseteq Instances
    BY DEF HostInv, TypeOK
  <2> QED
    BY <1>0, <2>1 DEF HostInv, WorkFits, Building, compute, ComputeSide
<1>5. HostFits'
  <2>1. \A l \in listed : l.inst \in Instances
    BY DEF HostInv, TypeOK, Listings
  <2> QED  BY <1>0, <2>1 DEF HostInv, HostFits, Building, compute
<1> QED  BY <1>1, <1>2, <1>3, <1>4, <1>5 DEF HostInv

LEMMA BuildKeepsHost ==
  ASSUME HostInv, TypeOK', Named', NEW i \in Instances,
         \/ BuildStep(i) \/ BuildRefused(i) \/ BuildFails(i)
         \/ BuildCleanupFails(i) \/ ScheduleFails(i)
  PROVE  HostInv'
<1>0. /\ row \in [Instances -> Rows] /\ guest \in [Instances -> BOOLEAN]
      /\ build[i] = "spawned" /\ Live(i) => row[i].task_state \in {"spawning", "deleting"}
      /\ build[i] \in {"claimed", "networked", "mapped", "spawned"} => row[i].hosted
      /\ guest[i] => build[i] \in {"spawned", "failed", "over"}
      /\ guest[i] /\ "cleanup" \notin Faults => row[i].hosted /\ build[i] # "failed"
      /\ build[i] \in Building => up = "up"
  BY DEF HostInv, TypeOK, BuildFits, HostFits
<1> DEFINE Same == /\ \A j \in Instances : j # i => row'[j] = row[j]
                   /\ row'[i].stage = row[i].stage
                   /\ row'[i].launched = row[i].launched
                   /\ row'[i].vm_state = "soft-delete" =>
                        row[i].vm_state = "soft-delete"
<1>1. ASSUME NEW vm, vm # "soft-delete", NEW task, Save(i, vm, task)
      PROVE  Same /\ row'[i].hosted = row[i].hosted /\ row'[i].task_state = task
  <2>1. \A j \in Instances : j # i => row'[j] = row[j]
    BY <1>0, <1>1 DEF Save
  <2> QED  BY <1>1, <2>1, SaveFields DEF HostInv
<1>2. ASSUME row' = [row EXCEPT ![i] = Errored(i)]
      PROVE  Same /\ ~row'[i].hosted
  BY <1>0, <1>2 DEF Errored, Rows
<1>3. ASSUME UNCHANGED row PROVE Same /\ row'[i] = row[i]
  BY <1>3
<1>4. ASSUME NEW vm, vm # "soft-delete", NEW task, BuildEnds(i, vm, task),
             build[i] \in Building, guest[i] /\ Live(i) => row[i].task_state = "deleting",
             UNCHANGED <<req, guest, restoring, compute>>
      PROVE  HostInv'
  <2> DEFINE launched == row[i].launched \/ vm = "active"
             x == [row[i] EXCEPT !.vm_state = vm, !.task_state = task,
                                 !.launched = launched]
             y == [Errored(i) EXCEPT !.launched = launched]
  <2>a. /\ x.stage = row[i].stage /\ x.vm_state = vm /\ x.hosted = row[i].hosted
        /\ y.stage = row[i].stage /\ y.vm_state = "error" /\ ~y.hosted
    BY <1>0 DEF Errored, Rows
  <2>1. \/ UNCHANGED row
        \/ row' = [row EXCEPT ![i] = x]
        \/ ~guest[i] /\ row' = [row EXCEPT ![i] = y]
    BY <1>0, <1>4 DEF BuildEnds
  <2> HIDE DEF x, y
  <2>2. /\ \A j \in Instances : j # i => row'[j] = row[j]
        /\ row'[i].stage = row[i].stage
        /\ row'[i].vm_state = "soft-delete" => row[i].vm_state = "soft-delete"
        /\ row'[i].hosted => row[i].hosted
        /\ guest[i] => row'[i].hosted = row[i].hosted
    BY <1>0, <1>4, <2>a, <2>1
  <2>3. BuildGoto(i, "over")
    BY <1>4 DEF BuildEnds
  <2>4. \A j \in Instances : guest'[j] = guest[j]
    BY <1>4
  <2> QED  BY <1>0, <1>4, <2>2, <2>3, <2>4, BuildGoesOn DEF Building
<1>5. CASE BuildStart(i)
  <2>1. /\ UNCHANGED <<req, guest, restoring, compute>>
        /\ up = "up" /\ build[i] = "queued"
        /\ \/ Save(i, "building", "none") /\ BuildGoto(i, "started")
           \/ UNCHANGED row /\ BuildGoto(i, "over")
    BY <1>5 DEF BuildStart
  <2>2. Same /\ row'[i].hosted = row[i].hosted
    BY <1>1, <1>3, <2>1
  <2> QED  BY <1>0, <2>1, <2>2, BuildGoesOn DEF Building
<1>6. CASE BuildClaims(i)
  <2>1. /\ UNCHANGED <<req, guest, restoring, compute>> /\ build[i] = "started"
        /\ \/ row' = [row EXCEPT ![i].hosted = TRUE] /\ BuildGoto(i, "claimed")
           \/ UNCHANGED row /\ BuildGoto(i, "over")
    BY <1>6 DEF BuildClaims
  <2>2. CASE UNCHANGED row /\ BuildGoto(i, "over")
    BY <1>0, <1>3, <2>1, <2>2, BuildGoesOn DEF Building
  <2>3. CASE row' = [row EXCEPT ![i].hosted = TRUE] /\ BuildGoto(i, "claimed")
    <3>1. Same /\ row'[i].hosted
      BY <1>0, <2>3 DEF Rows
    <3> QED  BY <1>0, <2>1, <2>3, <3>1, BuildGoesOn DEF Building
  <2> QED  BY <2>1, <2>2, <2>3
<1>7. CASE BuildNetworks(i)
  <2>1. /\ UNCHANGED <<req, guest, restoring, compute>> /\ build[i] = "claimed"
        /\ \/ Save(i, "building", "networking") /\ BuildGoto(i, "networked")
           \/ BuildEnds(i, "deleted", "networking")
    BY <1>7 DEF BuildNetworks
  <2>2. CASE BuildEnds(i, "deleted", "networking")
    BY <1>0, <1>4, <2>1, <2>2 DEF Building
  <2>3. CASE Save(i, "building", "networking") /\ BuildGoto(i, "networked")
    <3>1. Same /\ row'[i].hosted = row[i].hosted
      BY <1>1, <2>3
    <3> QED  BY <1>0, <2>1, <2>3, <3>1, BuildGoesOn DEF Building
  <2> QED  BY <2>1, <2>2, <2>3
<1>8. CASE BuildMaps(i)
  <2>1. /\ UNCHANGED <<req, guest, restoring, compute>> /\ build[i] = "networked"
        /\ \/ Save(i, "building", "mapping") /\ BuildGoto(i, "mapped")
           \/ UNCHANGED row /\ BuildGoto(i, "over")
    BY <1>8 DEF BuildMaps
  <2>2. Same /\ row'[i].hosted = row[i].hosted
    BY <1>1, <1>3, <2>1
  <2> QED  BY <1>0, <2>1, <2>2, BuildGoesOn DEF Building
<1>9. CASE BuildSpawns(i)
  <2>1. /\ UNCHANGED <<req, restoring, compute>> /\ build[i] = "mapped"
        /\ \/ /\ Save(i, "building", "spawning") /\ BuildGoto(i, "spawned")
              /\ guest' = [guest EXCEPT ![i] = TRUE]
           \/ BuildEnds(i, "deleted", "spawning") /\ UNCHANGED guest
    BY <1>9 DEF BuildSpawns
  <2>2. CASE BuildEnds(i, "deleted", "spawning") /\ UNCHANGED guest
    BY <1>0, <1>4, <2>1, <2>2 DEF Building
  <2>3. CASE /\ Save(i, "building", "spawning") /\ BuildGoto(i, "spawned")
             /\ guest' = [guest EXCEPT ![i] = TRUE]
    <3>1. Same /\ row'[i].hosted = row[i].hosted /\ row'[i].task_state = "spawning"
      BY <1>1, <2>3
    <3>2. \A j \in Instances : j # i => guest'[j] = guest[j]
      BY <1>0, <2>3
    <3> QED  BY <1>0, <2>1, <2>3, <3>1, <3>2, BuildGoesOn DEF Building
  <2> QED  BY <2>1, <2>2, <2>3
<1>10. CASE BuildFinish(i)
  <2>1. /\ UNCHANGED <<req, guest, restoring, compute>> /\ build[i] = "spawned"
        /\ \/ /\ row' = [row EXCEPT ![i].vm_state = "active",
                                    ![i].task_state = "none",
                                    ![i].launched = TRUE]
              /\ BuildGoto(i, "over")
           \/ /\ ~(Live(i) /\ row[i].task_state = "spawning")
              /\ BuildEnds(i, "active", "none")
    BY <1>10 DEF BuildFinish
  <2>2. CASE /\ ~(Live(i) /\ row[i].task_state = "spawning")
             /\ BuildEnds(i, "active", "none")
    BY <1>0, <1>4, <2>1, <2>2 DEF Building
  <2>3. CASE /\ row' = [row EXCEPT ![i].vm_state = "active",
                                   ![i].task_state = "none",
                                   ![i].launched = TRUE]
             /\ BuildGoto(i, "over")
    <3> DEFINE x == [row[i] EXCEPT !.vm_state = "active", !.task_state = "none",
                                   !.launched = TRUE]
    <3>1. row' = [row EXCEPT ![i] = x]
      BY <1>0, <2>3
    <3>2. x.stage = row[i].stage /\ x.vm_state = "active" /\ x.hosted = row[i].hosted
      BY <1>0 DEF Rows
    <3> HIDE DEF x
    <3>3. /\ \A j \in Instances : j # i => row'[j] = row[j]
          /\ row'[i].stage = row[i].stage /\ row'[i].vm_state = "active"
          /\ row'[i].hosted = row[i].hosted
      BY <1>0, <3>1, <3>2
    <3>4. BuildGoto(i, "over")
      BY <2>3
    <3> QED  BY <1>0, <2>1, <3>3, <3>4, BuildGoesOn DEF Building
  <2> QED  BY <2>1, <2>2, <2>3
<1>11. CASE BuildErrors(i) \/ BuildRefused(i)
  <2>1. /\ UNCHANGED <<req, guest, restoring, compute>>
        /\ build[i] \in {"failed", "started"} /\ BuildGoto(i, "over")
        /\ UNCHANGED row \/ row' = [row EXCEPT ![i] = Errored(i)]
    BY <1>11 DEF BuildErrors, BuildRefused
  <2>2. Same /\ (row'[i].hosted => row[i].hosted)
    BY <1>2, <1>3, <2>1
  <2>3. /\ "cleanup" \notin Faults => ~guest[i]
        /\ \A j \in Instances : guest'[j] = guest[j]
    BY <1>0, <2>1
  <2>4. /\ UNCHANGED <<req, restoring, compute>> /\ BuildGoto(i, "over")
        /\ build[i] \in {"failed", "started"}
    BY <2>1
  <2> QED  BY <2>2, <2>3, <2>4, BuildGoesOn DEF Building
<1>12. CASE BuildFails(i)
  <2>1. /\ UNCHANGED <<req, restoring, compute>> /\ BuildGoto(i, "failed")
        /\ build[i] \in {"claimed", "networked", "mapped", "spawned"}
        /\ guest' = [guest EXCEPT ![i] = FALSE]
        /\ UNCHANGED row \/ row' = [row EXCEPT ![i].vm_state = "deleted"]
    BY <1>12 DEF BuildFails
  <2>2. Same /\ row'[i].hosted = row[i].hosted
    BY <1>0, <2>1 DEF Rows
  <2>3. ~guest'[i] /\ \A j \in Instances : j # i => guest'[j] = guest[j]
    BY <1>0, <2>1
  <2> QED  BY <1>0, <2>1, <2>2, <2>3, BuildGoesOn DEF Building
<1>13. CASE BuildCleanupFails(i)
  <2>1. /\ "cleanup" \in Faults
        /\ UNCHANGED <<req, guest, restoring, compute>> /\ BuildGoto(i, "failed")
        /\ build[i] \in {"mapped", "spawned"}
        /\ UNCHANGED row \/ row' = [row EXCEPT ![i].vm_state = "deleted"]
    BY <1>13 DEF BuildCleanupFails
  <2>2. Same /\ row'[i].hosted = row[i].hosted
    BY <1>0, <2>1 DEF Rows
  <2>3. \A j \in Instances : guest'[j] = guest[j]
    BY <2>1
  <2> QED  BY <1>0, <2>1, <2>2, <2>3, BuildGoesOn DEF Building
<1>14. CASE ScheduleFails(i)
  <2>1. /\ UNCHANGED <<req, guest, restoring, compute>>
        /\ build[i] = "queued" /\ BuildGoto(i, "over")
        /\ UNCHANGED row \/ Save(i, "error", "none")
    BY <1>14 DEF ScheduleFails
  <2>2. Same /\ row'[i].hosted = row[i].hosted
    BY <1>1, <1>3, <2>1
  <2> QED  BY <1>0, <2>1, <2>2, BuildGoesOn DEF Building
<1> QED
  BY <1>5, <1>6, <1>7, <1>8, <1>9, <1>10, <1>11, <1>12, <1>13, <1>14 DEF BuildStep

\* What the host begins by itself.
LEMMA HostBegins ==
  ASSUME HostInv, TypeOK', Named', NEW i \in Instances, NEW x \in RequestRecords,
         req' = [req EXCEPT ![i] = x],
         x.kind \in {"reclaim", "resume", "partial"}, x.inst = i,
         x.pc \in ComputeSide, build[i] = "over",
         x.kind \in {"resume", "partial"} => up = "starting",
         HostKept \/ (UNCHANGED <<build, guest, up, reclaiming>> /\ listed' \subseteq listed),
         UNCHANGED restoring, RowsFit
  PROVE  HostInv'
<1>1. i \in Requests /\ req \in [Requests -> RequestRecords]
  BY DeleteAssumption DEF HostInv, TypeOK
<1>2. \A q \in Requests : req'[q] = IF q = i THEN x ELSE req[q]
  BY <1>1
<1>3. req[i].kind \notin {"create", "restore"} /\ req[i].kind # "delete"
      /\ restoring[i] = "none"
  BY <1>1 DEF HostInv, KindsFit
<1> USE DEF ComputeSide
<1>4. KindsFit'
  BY <1>2, <1>3 DEF HostInv, KindsFit
<1>5. CreatedOnce'
  BY <1>2 DEF HostInv, CreatedOnce, RowsFit, HostKept
<1>6. BuildFits'
  BY DEF HostInv, BuildFits, RowsFit, HostKept, Live
<1>7. WorkFits'
  BY <1>2 DEF HostInv, WorkFits, HostKept, Building
<1>8. HostFits'
  BY <1>2 DEF HostInv, HostFits, HostKept
<1> QED  BY <1>4, <1>5, <1>6, <1>7, <1>8 DEF HostInv

LEMMA PeriodicKeepsHost ==
  ASSUME HostInv, TypeOK', Named',
         \/ ReclaimList
         \/ \E i \in Instances : ReclaimInstance(i) \/ Reap(i)
  PROVE  HostInv'
<1>1. CASE ReclaimList
  <2>1. /\ UNCHANGED <<row, req, host, restoring, up, listed>>
        /\ \A i \in reclaiming' : i \in Instances /\ row[i].vm_state = "soft-delete"
    BY <1>1 DEF ReclaimList
  <2> QED
    BY <2>1 DEF HostInv, KindsFit, CreatedOnce, BuildFits, WorkFits, HostFits, host, Live
<1>2. ASSUME NEW i \in Instances, ReclaimInstance(i) PROVE HostInv'
  <2> DEFINE x == [NoRequest EXCEPT !.kind = "reclaim", !.inst = i, !.pc = "shutdown",
                                    !.vm_state = "soft-delete", !.hosted = TRUE]
  <2>1. /\ x \in RequestRecords /\ x.kind = "reclaim" /\ x.inst = i
        /\ x.pc \in ComputeSide
    BY RequestsMade DEF NoRequest, ComputeSide
  <2>2. req' = [req EXCEPT ![i] = x]
    BY <1>2 DEF ReclaimInstance
  <2> HIDE DEF x
  <2>3. build[i] = "over"
    BY <1>2 DEF ReclaimInstance, HostInv, WorkFits
  <2>4. HostKept /\ UNCHANGED <<row, restoring>>
    BY <1>2 DEF ReclaimInstance, HostKept, host
  <2> QED  BY <2>1, <2>2, <2>3, <2>4, RowsLeft, HostBegins
<1>3. ASSUME NEW i \in Instances, Reap(i) PROVE HostInv'
  <2>1. UNCHANGED <<row, req, build, restoring, compute>>
        /\ guest' = [guest EXCEPT ![i] = FALSE] /\ guest \in [Instances -> BOOLEAN]
    BY <1>3 DEF Reap, HostInv, TypeOK
  <2>2. HostKept
    BY <2>1 DEF HostKept, compute
  <2> QED  BY <2>1, <2>2, RowsLeft, StaysPut
<1> QED  BY <1>1, <1>2, <1>3

LEMMA CrashKeepsHost ==
  ASSUME HostInv, TypeOK', Named', Crash PROVE HostInv'
<1>1. /\ UNCHANGED <<row, guest, restoring>>
      /\ up' = "down" /\ listed' = {} /\ reclaiming' = {}
  BY DEF Crash
<1>2. \A q \in Requests :
        /\ req'[q].kind = req[q].kind /\ req'[q].inst = req[q].inst
        /\ req'[q].hosted = req[q].hosted
        /\ req'[q].pc = IF req[q].pc \in ComputeSide THEN "dead" ELSE req[q].pc
  <2>1. req \in [Requests -> RequestRecords]
    BY DEF HostInv, TypeOK
  <2> SUFFICES ASSUME NEW q \in Requests
               PROVE  /\ req'[q].kind = req[q].kind /\ req'[q].inst = req[q].inst
                      /\ req'[q].hosted = req[q].hosted
                      /\ req'[q].pc = IF req[q].pc \in ComputeSide THEN "dead"
                                                                  ELSE req[q].pc
    OBVIOUS
  <2>2. req'[q] = IF req[q].pc \in ComputeSide THEN [req[q] EXCEPT !.pc = "dead"]
                                              ELSE req[q]
    BY DEF Crash
  <2> QED  BY <2>1, <2>2 DEF RequestRecords
<1>3. \A i \in Instances :
         build'[i] = IF build[i] \in Building THEN "over" ELSE build[i]
  BY DEF Crash
<1>4. KindsFit'
  BY <1>1, <1>2 DEF HostInv, KindsFit, ComputeSide
<1>5. CreatedOnce'
  BY <1>1, <1>2, <1>3 DEF HostInv, CreatedOnce, ComputeSide, Building
<1>6. BuildFits'
  BY <1>1, <1>3 DEF HostInv, BuildFits, Building, Live
<1>7. WorkFits'
  BY <1>1, <1>2, <1>3 DEF HostInv, WorkFits, Building, ComputeSide
<1>8. HostFits'
  BY <1>1, <1>2, <1>3 DEF HostInv, HostFits, Building, ComputeSide
<1> QED  BY <1>4, <1>5, <1>6, <1>7, <1>8 DEF HostInv

LEMMA StartKeepsHost ==
  ASSUME HostInv, TypeOK', Named',
         Restart \/ Started \/ \E l \in listed : InitInstance(l)
  PROVE  HostInv'
<1>1. CASE Restart
  <2>1. /\ UNCHANGED <<row, req, host, restoring, reclaiming>>
        /\ up = "down" /\ up' = "starting"
        /\ \A l \in listed' : l.inst \in Instances /\ row[l.inst].hosted
    BY <1>1 DEF Restart
  <2>2. \A i \in Instances : row[i].hosted => build[i] = "over"
    BY <2>1 DEF HostInv, TypeOK, BuildFits, HostFits, Building
  <2>3. KindsFit' /\ CreatedOnce' /\ BuildFits' /\ WorkFits'
    BY <2>1 DEF HostInv, KindsFit, CreatedOnce, BuildFits, WorkFits, host, Live
  <2>4. HostFits'
    BY <2>1, <2>2 DEF HostInv, HostFits, host
  <2> QED  BY <2>3, <2>4 DEF HostInv
<1>2. CASE Started
  <2>1. /\ UNCHANGED <<row, req, host, restoring, listed, reclaiming>>
        /\ up' = "up" /\ listed = {}
    BY <1>2 DEF Started
  <2>2. \A r \in Requests : req[r].kind \in {"resume", "partial"} =>
            req[r].pc \notin ComputeSide
    BY <1>2 DEF Started, Initializing, HostInv, KindsFit
  <2>3. KindsFit' /\ CreatedOnce' /\ BuildFits' /\ WorkFits'
    BY <2>1 DEF HostInv, KindsFit, CreatedOnce, BuildFits, WorkFits, host, Live
  <2>4. HostFits'
    BY <2>1, <2>2 DEF HostInv, HostFits, host
  <2> QED  BY <2>3, <2>4 DEF HostInv
<1>3. ASSUME NEW l \in listed, InitInstance(l) PROVE HostInv'
  <2> DEFINE kind == InitDeletion(l)
             pc == IF kind = "partial" THEN "init-destroy" ELSE "init-reserve"
             x == [NoRequest EXCEPT !.kind = kind, !.inst = l.inst,
                                    !.hosted = TRUE, !.vm_state = l.vm_state,
                                    !.pc = pc]
  <2>1. l.inst \in Instances /\ l.vm_state \in VmStates
        /\ up = "starting" /\ build[l.inst] = "over"
    BY DEF HostInv, HostFits, TypeOK, Listings
  <2>2. /\ UNCHANGED <<host, restoring, reclaiming>>
        /\ UNCHANGED row \/ Save(l.inst, "error", "none")
        /\ \/ up' = up /\ listed' = listed \ {l}
           \/ up' = "down" /\ listed' = {} /\ l.vm_state = "building"
    BY <1>3 DEF InitInstance
  <2>3. RowsFit
    BY <2>1, <2>2, RowsLeft, RowsSaved
  <2>4. CASE kind = "none"
    <3>1. UNCHANGED req /\ ~Initializing
      BY <1>3, <2>4 DEF InitInstance
    <3>2. \A r \in Requests : req[r].kind \in {"resume", "partial"} =>
              req[r].pc \notin ComputeSide
      BY <3>1 DEF Initializing, HostInv, KindsFit
    <3>3. KindsFit' /\ WorkFits'
      BY <2>2, <3>1 DEF HostInv, KindsFit, WorkFits, host
    <3>4. CreatedOnce' /\ BuildFits'
      BY <2>2, <2>3, <3>1 DEF HostInv, CreatedOnce, BuildFits, RowsFit, host, Live
    <3>5. HostFits'
      BY <2>1, <2>2, <3>1, <3>2 DEF HostInv, HostFits, host
    <3> QED  BY <3>3, <3>4, <3>5 DEF HostInv
  <2>5. CASE kind # "none"
    <3>1. kind \in {"partial", "resume"} /\ l.vm_state # "building"
      BY <2>5 DEF InitDeletion
    <3>2. req' = [req EXCEPT ![l.inst] = x]
      BY <1>3, <2>5 DEF InitInstance
    <3>3. pc \in {"init-destroy", "init-reserve"}
      OBVIOUS
    <3> HIDE DEF kind, pc
    <3>4. x \in RequestRecords
      BY <2>1, <3>1, <3>3, RequestsMade
    <3>5. x.inst = l.inst /\ x.kind = kind /\ x.pc \in ComputeSide
      BY <3>3 DEF NoRequest, ComputeSide
    <3> HIDE DEF x
    <3>6. UNCHANGED <<build, guest, up, reclaiming>> /\ listed' \subseteq listed
      BY <2>2, <3>1 DEF host
    <3> QED  BY <2>1, <2>2, <2>3, <3>1, <3>2, <3>4, <3>5, <3>6, HostBegins
  <2> QED  BY <2>4, <2>5
<1> QED  BY <1>1, <1>2, <1>3

LEMMA NextKeepsHost ==
  ASSUME HostInv, TypeOK', Named', "heartbeat-build" \notin Races, [Next]_vars
  PROVE  HostInv'
<1>1. CASE \E r \in ApiRequests : User(r)
  BY <1>1, UserKeepsHost
<1>2. CASE \E r \in Requests : Api(r) \/ Handler(r) \/ Fault(r)
  BY <1>2, ApiKeepsHost, HandlerKeepsHost, FaultKeepsHost
<1>3. CASE \E i \in Instances : \/ BuildStep(i) \/ BuildRefused(i) \/ BuildFails(i)
                                \/ BuildCleanupFails(i) \/ ScheduleFails(i)
  BY <1>3, BuildKeepsHost
<1>4. CASE ReclaimList \/ \E i \in Instances : ReclaimInstance(i) \/ Reap(i)
  BY <1>4, PeriodicKeepsHost
<1>5. CASE Crash
  BY <1>5, CrashKeepsHost
<1>6. CASE Restart \/ Started \/ \E l \in listed : InitInstance(l)
  BY <1>6, StartKeepsHost
<1>7. CASE Expire \/ UNCHANGED vars
  <2>1. UNCHANGED <<row, req, host, restoring, compute>>
    BY <1>7 DEF Expire, vars
  <2> QED  BY <2>1, RowsLeft, StaysPut DEF HostKept, host, compute
<1> QED  BY <1>1, <1>2, <1>3, <1>4, <1>5, <1>6, <1>7 DEF Next

\* The inductive invariant of the guests.
LEMMA HostInvariant ==
  ASSUME "heartbeat-build" \notin Races
  PROVE  Spec => []HostInv
<1>1. Init => HostInv
  <2>1. Init => KindsFit /\ CreatedOnce /\ BuildFits /\ WorkFits /\ HostFits
    BY DEF Init, NoRow, NoRequest, KindsFit, CreatedOnce, BuildFits, WorkFits, HostFits,
           ComputeSide, Building, Live
  <2>2. Init => TypeOK /\ Named
    BY DeleteInit
  <2> QED  BY <2>1, <2>2 DEF HostInv
<1>2. HostInv /\ [Next]_vars => HostInv'
  BY DeleteNext, NextKeepsHost DEF HostInv
<1> QED  BY <1>1, <1>2, PTL DEF Spec

\* A guest is on the host its row names, whatever is deleted, restored,
\* reclaimed or interrupted by a crash while instances are built: unless the API
\* takes the host for dead and deletes an instance that it is building, or the
\* cleanup of a failed build fails, too.
THEOREM GuestsHaveHosts ==
  ASSUME "heartbeat-build" \notin Races, "cleanup" \notin Faults
  PROVE  Spec => []GuestHasHost
<1>1. HostInv => GuestHasHost
  BY DEF HostInv, BuildFits, GuestHasHost
<1> QED  BY <1>1, HostInvariant, PTL

-----------------------------------------------------------------------------
(* What the quota counts.  in_use is the number of the instances that are    *)
(* Counted, or more after a crash or a failed restore: an instance counts    *)
(* from the commit of its creation or of its restore to the commit of its    *)
(* deletion, which was reserved once, by the request that made it go.        *)

\* With soft deletions, a crash and each member that the last two lines name makes
\* the usage count too little; "early", "refresh" and "expire" do so without.  The
\* invariants below do not cover dead API processes, nor "heartbeat-build".
Guarded ==
    /\ Races \cap {"early", "refresh", "expire", "heartbeat-build"} = {}
    /\ "api" \notin Faults
    /\ Deferred => /\ MaxCrashes = 0 /\ "force" \notin Faults
                   /\ Races \cap {"overlap", "reclaim", "heartbeat"} = {}

\* The request's copy of the instance says that it is soft-deleted.
Soft(r) == req[r].vm_state = "soft-delete"

SoftDestroys(i) ==
    \E r \in Requests : req[r].pc = "destroying" /\ req[r].inst = i /\ Soft(r)

\* Instances that are there and have not given back their quota.
Owed(i) == /\ Live(i) /\ row[i].vm_state # "soft-delete"
           /\ ~SoftDestroys(i)

\* A reservation that is not committed yet pays for them.
Granting(i) == \E r \in Requests : reservation[r] = 1 /\ req[r].inst = i

\* A restore that has been paid for and has not arrived.
Returning(i) == \E r \in Requests : restoring[r] = "queued" /\ req[r].inst = i

\* An instance that went, and whose decrease is not committed yet.
TakesOff(r) ==
    \/ req[r].pc \in {"commit", "committing"} /\ reservation[r] = -1
    \/ req[r].pc = "init-reserve" /\ req[r].kind = "partial"

Taken(i) == \E r \in Requests : TakesOff(r) /\ req[r].inst = i

Counts(i) == \/ (Owed(i) \/ Returning(i)) /\ ~Granting(i)
             \/ Taken(i)

Counted == {i \in Instances : Counts(i)}

\* in_use counts too much after a crash or a restore that failed.
Lossy == MaxCrashes > 0 \/ \E r \in Requests : restoring[r] = "failed"

Usage ==
    /\ Cardinality(Counted) <= in_use
    /\ Lossy \/ in_use = Cardinality(Counted)
    /\ in_use + reserved <= Limit

\* Where the requests of each kind get to.
PlaceFits(r) ==
    /\ r \in Instances /\ req[r].kind # "none" => req[r].inst = r
    /\ req[r].kind = "none" <=> req[r].inst = "none"
    /\ req[r].kind = "none" => req[r].pc \in {"unused", "over"} /\ reservation[r] # 1
    /\ req[r].pc = "unused" => req[r].kind = "none"
    /\ req[r].kind = "create" => req[r].pc \in {"row", "made", "undo", "over"}
    /\ req[r].kind = "restore" =>
          req[r].pc \in {"restore-save", "restore-commit", "over"}
    /\ req[r].kind \in {"delete", "soft"} =>
          req[r].pc \in {"save", "reserve", "decide", "local", "local-destroy",
                        "commit", "undo", "cast", "waiting", "shutdown",
                        "saving", "destroying", "committing", "undoing",
                        "over", "dead"}
    /\ req[r].kind = "soft" =>
          req[r].pc \notin {"waiting", "shutdown", "saving", "destroying"}
    /\ req[r].kind = "reclaim" =>
          req[r].pc \in {"shutdown", "saving", "destroying", "committing",
                        "undoing", "over", "dead"}
    /\ req[r].kind \in {"resume", "partial"} =>
          req[r].pc \in {"init-destroy", "init-reserve", "shutdown", "saving",
                        "destroying", "committing", "undoing", "over", "dead"}

\* Increases.
Grants(i) ==
    \A r \in Requests : req[r].inst = i =>
      /\ reservation[r] = 1 <=>
            \/ req[r].pc \in {"row", "made", "restore-save", "restore-commit"}
            \/ req[r].pc = "undo" /\ req[r].kind = "create"
      /\ req[r].kind = "create" /\ req[r].pc # "over" =>
            /\ \A q \in Requests : req[q].inst = i => q = r
            /\ build[i] = "none"
      /\ req[r].kind = "create" /\ req[r].pc = "undo" => ~Live(i)
      /\ req[r].kind = "create" /\ req[r].pc = "made" =>
            Live(i) /\ row[i].vm_state # "soft-delete"
      /\ req[r].pc = "restore-save" =>
            /\ Live(i) /\ row[i].vm_state = "soft-delete"
            /\ row[i].task_state = "none" /\ restoring[r] = "none"
      /\ req[r].pc = "restore-commit" /\ restoring[r] = "none" =>
            Live(i) /\ row[i].vm_state # "soft-delete"

\* Decreases: who takes an instance off has reserved it, unless that is lost by
\* a crash, and it is gone.
Decreases(i) ==
    \A r \in Requests : req[r].inst = i =>
      /\ Soft(r) /\ req[r].pc \in {"cast"} \cup ComputeSide =>
            reservation[r] = 0
      /\ MaxCrashes = 0 /\ req[r].pc \in {"decide", "local", "local-destroy"} =>
            reservation[r] = -1
      /\ MaxCrashes = 0 /\ req[r].pc \in {"cast"} \cup ComputeSide /\ ~Soft(r) =>
            reservation[r] = -1
      /\ \/ req[r].pc \in {"commit", "committing"}
         \/ req[r].pc = "init-reserve" /\ req[r].kind = "partial"
         => \/ row[i].stage = "deleted"
            \/ /\ req[r].kind = "soft" /\ req[r].pc = "committing"
               /\ Live(i) /\ row[i].vm_state = "soft-delete"

TakenOnce(i) ==
    \A q, r \in Requests :
        TakesOff(q) /\ TakesOff(r) /\ req[q].inst = i /\ req[r].inst = i => q = r

\* Deletions that are not finished and hold the instance lock.
Locks(r) == req[r].kind = "delete" /\ req[r].pc \in ComputeSide \ {"waiting"}

\* A soft deletion or a restore is alone, and so is the reclaim.
Exclusive(i) ==
    /\ \A q, r \in ApiRequests :
          /\ q # r /\ req[q].inst = i /\ req[r].inst = i
          /\ req[q].kind \in {"soft", "restore"} /\ ~Ended(q)
          => Ended(r)
    /\ \A q, r \in ApiRequests :
          /\ Locks(q) /\ Locks(r) /\ req[q].inst = i /\ req[r].inst = i
          => q = r
    /\ BeingReclaimed(i) => \A r \in ApiRequests : req[r].inst = i => Ended(r)

Reclaims(i) ==
    /\ i \in reclaiming => /\ ~Reclaiming(i) /\ Live(i)
                           /\ row[i].vm_state = "soft-delete"
    /\ Reclaiming(i) =>
          /\ Soft(i)
          /\ req[i].pc \in {"shutdown", "saving"} =>
                Live(i) /\ row[i].vm_state = "soft-delete"
          /\ req[i].pc = "destroying" => Live(i)

\* What the requests' copies of the instance say.
Copies(i) ==
    \A r \in Requests : req[r].inst = i =>
      /\ /\ req[r].kind \in {"delete", "soft"} /\ Live(i)
         /\ req[r].pc \in {"reserve", "decide", "cast", "waiting", "shutdown",
                           "saving", "destroying", "local", "local-destroy"}
         => /\ Soft(r) => row[i].vm_state = "soft-delete" \/ SoftDestroys(i)
            /\ ~Soft(r) => row[i].vm_state # "soft-delete"
      /\ Soft(r) \/ req[r].kind = "soft" => row[i].hosted /\ build[i] = "over"

Hosted(i) == row[i].launched \/ row[i].vm_state = "soft-delete" => row[i].hosted

\* An instance that is soft-deleted and about to go is not put back.
Goes(i) ==
    \A r \in Requests :
        /\ req[r].pc = "destroying" /\ req[r].inst = i /\ Soft(r) /\ Live(i)
        => row[i].vm_state = "deleted"

LedgerOf(i) ==
    /\ Grants(i) /\ Decreases(i) /\ TakenOnce(i) /\ Exclusive(i)
    /\ Reclaims(i) /\ Copies(i) /\ Hosted(i) /\ Goes(i)

\* What does not happen if soft deletions are off, or nova-compute never stops.
Plain ==
    /\ ~Deferred =>
         /\ \A r \in Requests : /\ ~Soft(r)
                                /\ req[r].kind \notin {"soft", "restore", "reclaim"}
         /\ \A i \in Instances : row[i].vm_state # "soft-delete"
         /\ reclaiming = {}
         /\ \A l \in listed : l.vm_state # "soft-delete"
    /\ MaxCrashes = 0 =>
         /\ up = "up" /\ listed = {} /\ expiring = NotExpiring
         /\ \A r \in Requests : /\ req[r].pc # "dead"
                                /\ req[r].kind \notin {"resume", "partial"}
    /\ Deferred => \A r \in Requests : req[r].pc \notin {"local", "local-destroy"}

Ledger ==
    /\ \A r \in Requests : PlaceFits(r)
    /\ \A i \in Instances : LedgerOf(i)
    /\ Plain

\* A step about one instance leaves alone the others and their requests.
Others(i) ==
    /\ \A q \in Requests :
         \/ /\ req'[q].kind = req[q].kind /\ req'[q].inst = req[q].inst
            /\ req'[q].vm_state = req[q].vm_state /\ req'[q].pc = req[q].pc
            /\ reservation'[q] = reservation[q] /\ restoring'[q] = restoring[q]
         \/ req[q].inst \in {i, "none"} /\ req'[q].inst \in {i, "none"}
    /\ \A j \in Instances \ {i} :
         /\ row'[j].stage = row[j].stage /\ row'[j].hosted = row[j].hosted
         /\ row'[j].vm_state = row[j].vm_state /\ row'[j].launched = row[j].launched
         /\ row'[j].task_state = row[j].task_state /\ build'[j] = build[j]
         /\ j \in reclaiming' <=> j \in reclaiming

\* Of another instance's requests all is as it was.
Same(j) ==
    /\ \A q \in Requests : req'[q].inst = j <=> req[q].inst = j
    /\ \A q \in Requests : req[q].inst = j =>
         /\ req'[q].kind = req[q].kind
         /\ req'[q].vm_state = req[q].vm_state /\ req'[q].pc = req[q].pc
         /\ reservation'[q] = reservation[q] /\ restoring'[q] = restoring[q]
    /\ row'[j].stage = row[j].stage /\ row'[j].hosted = row[j].hosted
    /\ row'[j].vm_state = row[j].vm_state /\ row'[j].launched = row[j].launched
    /\ row'[j].task_state = row[j].task_state /\ build'[j] = build[j]
    /\ j \in reclaiming' <=> j \in reclaiming
    /\ Reclaiming(j)' <=> Reclaiming(j)
    /\ Reclaiming(j) => req[j].inst = j

\* Another instance keeps all that its account is about.
LEMMA OthersSame ==
  ASSUME NEW i \in Instances, Others(i), NEW j \in Instances \ {i},
         PlaceFits(j), PlaceFits(j)'
  PROVE  Same(j)
<1>1. j \in Requests /\ j # "none"
  BY DeleteAssumption
<1>2. \A q \in Requests : req'[q].inst = j <=> req[q].inst = j
  BY <1>1 DEF Others
<1>3. \A q \in Requests : req[q].inst = j =>
         /\ req'[q].kind = req[q].kind
         /\ req'[q].vm_state = req[q].vm_state /\ req'[q].pc = req[q].pc
         /\ reservation'[q] = reservation[q] /\ restoring'[q] = restoring[q]
  BY <1>1 DEF Others
<1>4. Reclaiming(j)' <=> Reclaiming(j)
  <2>1. Reclaiming(j) => req[j].inst = j
    BY DEF Reclaiming, PlaceFits
  <2>2. Reclaiming(j)' => req'[j].inst = j
    BY DEF Reclaiming, PlaceFits
  <2> QED  BY <1>1, <1>2, <1>3, <2>1, <2>2 DEF Reclaiming
<1>5. Reclaiming(j) => req[j].inst = j
  BY DEF Reclaiming, PlaceFits
<1> QED  BY <1>2, <1>3, <1>4, <1>5 DEF Others, Same

LEMMA SameLedger ==
  ASSUME NEW j \in Instances, Same(j), LedgerOf(j)
  PROVE  LedgerOf(j)'
<1> USE DEF Same
<1>1. Grants(j)'
  BY DEF LedgerOf, Grants, Live
<1>2. Decreases(j)'
  BY DEF LedgerOf, Decreases, Live, Soft
<1>3. TakenOnce(j)'
  BY DEF LedgerOf, TakenOnce, TakesOff
<1>4. Exclusive(j)'
  <2>1. \A q \in ApiRequests : req[q].inst = j => (Ended(q)' <=> Ended(q))
    BY DEF Ended, ApiRequests
  <2>2. \A q \in ApiRequests : req[q].inst = j => (Locks(q)' <=> Locks(q))
    BY DEF Locks, ApiRequests
  <2>3. BeingReclaimed(j)' <=> BeingReclaimed(j)
    BY DEF BeingReclaimed
  <2> QED  BY <2>1, <2>2, <2>3 DEF LedgerOf, Exclusive, ApiRequests
<1>5. Reclaims(j)'
  <2>1. CASE ~Reclaiming(j)
    BY <2>1 DEF LedgerOf, Reclaims, Live
  <2>2. CASE Reclaiming(j) /\ req[j].inst = j
    BY <2>2, DeleteAssumption DEF LedgerOf, Reclaims, Live, Soft
  <2> QED  BY <2>1, <2>2
<1>6. Copies(j)'
  <2>1. SoftDestroys(j)' <=> SoftDestroys(j)
    BY DEF SoftDestroys, Soft
  <2>2. \A r \in Requests : req[r].inst = j => (Soft(r)' <=> Soft(r))
    BY DEF Soft
  <2> QED  BY <2>1, <2>2 DEF LedgerOf, Copies, Live
<1>7. Hosted(j)'
  BY DEF LedgerOf, Hosted
<1>8. Goes(j)'
  BY DEF LedgerOf, Goes, Live, Soft
<1> QED  BY <1>1, <1>2, <1>3, <1>4, <1>5, <1>6, <1>7, <1>8 DEF LedgerOf

LEMMA SameCounts ==
  ASSUME NEW j \in Instances, Same(j)
  PROVE  Counts(j)' <=> Counts(j)
<1> USE DEF Same
<1>1. SoftDestroys(j)' <=> SoftDestroys(j)
  BY DEF SoftDestroys, Soft
<1>2. Taken(j)' <=> Taken(j)
  BY DEF Taken, TakesOff
<1>3. /\ Granting(j)' <=> Granting(j)
      /\ Returning(j)' <=> Returning(j)
  BY DEF Granting, Returning
<1>4. Owed(j)' <=> Owed(j)
  BY <1>1 DEF Owed, Live
<1> QED  BY <1>2, <1>3, <1>4 DEF Counts

QuotaInv == HostInv /\ Reservations /\ Ledger /\ Usage

\* What is to be shown of a step about one instance.
LEMMA LedgerKept ==
  ASSUME Ledger, NEW i \in Instances, Others(i), LedgerOf(i)', Plain',
         \A r \in Requests : PlaceFits(r)'
  PROVE  /\ Ledger'
         /\ \A j \in Instances \ {i} : Counts(j)' <=> Counts(j)
<1>1. ASSUME NEW j \in Instances \ {i}
      PROVE  LedgerOf(j)' /\ (Counts(j)' <=> Counts(j))
  BY OthersSame, SameLedger, SameCounts, DeleteAssumption DEF Ledger
<1> QED  BY <1>1 DEF Ledger

\* There are as many instances that count as there can be instances.
LEMMA CountedFinite == IsFiniteSet(Counted) /\ Cardinality(Counted) \in Nat
<1>1. IsFiniteSet(Instances)
  BY FS_Subset, DeleteAssumption
<1>2. IsFiniteSet(Counted)
  BY <1>1, FS_Subset DEF Counted
<1> QED  BY <1>2, FS_CardinalityType

\* Steps that commit nothing: what counts stays, or less does and more may be
\* in use than there is.
LEMMA UsageKept ==
  ASSUME Usage, in_use' = in_use, in_use + reserved' <= Limit,
         \A j \in Instances : Counts(j)' => Counts(j),
         Lossy => Lossy',
         Lossy' \/ \A j \in Instances : Counts(j) => Counts(j)',
         in_use \in Int
  PROVE  Usage'
<1>1. Counted' \subseteq Counted
  BY DEF Counted
<1>2. Cardinality(Counted') <= Cardinality(Counted)
  BY <1>1, CountedFinite, FS_Subset
<1>3. Lossy' \/ Counted' = Counted
  BY <1>1 DEF Counted
<1>4. Cardinality(Counted') \in Nat /\ Cardinality(Counted) \in Nat
  <2>1. IsFiniteSet(Counted')
    BY <1>1, CountedFinite, FS_Subset
  <2> QED  BY <2>1, CountedFinite, FS_CardinalityType
<1> QED  BY <1>2, <1>3, <1>4 DEF Usage

\* The commit of an increase.
LEMMA UsageUp ==
  ASSUME TypeOK, Usage, NEW i \in Instances,
         in_use' = in_use + 1, reserved' = reserved - 1,
         \A j \in Instances \ {i} : Counts(j)' <=> Counts(j),
         Lossy => Lossy',
         Lossy' \/ (~Counts(i) /\ Counts(i)')
  PROVE  Usage'
<1>1. Counted' \subseteq Counted \cup {i}
  BY DEF Counted
<1>2. /\ IsFiniteSet(Counted \cup {i})
      /\ Cardinality(Counted \cup {i}) =
           IF i \in Counted THEN Cardinality(Counted) ELSE Cardinality(Counted) + 1
  BY CountedFinite, FS_AddElement
<1>3. Cardinality(Counted') <= Cardinality(Counted \cup {i})
  BY <1>1, <1>2, FS_Subset
<1>4. Lossy' \/ (i \notin Counted /\ Counted' = Counted \cup {i})
  BY <1>1 DEF Counted
<1>5. Cardinality(Counted') \in Nat /\ Cardinality(Counted) \in Nat
  <2>1. IsFiniteSet(Counted')
    BY <1>1, <1>2, FS_Subset
  <2> QED  BY <2>1, CountedFinite, FS_CardinalityType
<1>6. in_use \in Int /\ reserved \in Int /\ Limit \in Nat
  BY QuotasAssumption DEF TypeOK, QuotasTypeOK
<1> QED  BY <1>2, <1>3, <1>4, <1>5, <1>6 DEF Usage

\* The commit of a decrease.
LEMMA UsageDown ==
  ASSUME TypeOK, Usage, NEW i \in Instances, Counts(i), ~Counts(i)',
         in_use' = in_use - 1, reserved' = reserved,
         \A j \in Instances \ {i} : Counts(j)' <=> Counts(j),
         Lossy => Lossy'
  PROVE  Usage'
<1>1. Counted' = Counted \ {i} /\ i \in Counted
  BY DEF Counted
<1>2. /\ IsFiniteSet(Counted \ {i})
      /\ Cardinality(Counted \ {i}) = Cardinality(Counted) - 1
  BY <1>1, CountedFinite, FS_RemoveElement
<1>3. Cardinality(Counted') \in Nat /\ Cardinality(Counted) \in Nat
  BY <1>1, <1>2, CountedFinite, FS_CardinalityType
<1>4. in_use \in Int /\ reserved \in Int /\ Limit \in Nat
  BY QuotasAssumption DEF TypeOK, QuotasTypeOK
<1> QED  BY <1>1, <1>2, <1>3, <1>4 DEF Usage

Kinds == {"none", "create", "delete", "soft", "restore", "reclaim", "resume",
          "partial"}

\* A step of a request that changes no row: where it goes, and what becomes of
\* its reservation.
Silently(r, pc, x) ==
    \/ req[r].pc \in {"undo", "undoing"} /\ pc = "over" /\ x = 0
    \/ req[r].pc \in {"commit", "committing"} /\ pc = "over" /\ x = 0
    \/ req[r].pc = "save" /\ pc = "over" /\ x = reservation[r]
    \/ req[r].pc = "reserve" /\ pc = "decide" /\ x = -1
    \/ req[r].pc = "decide" /\ pc = "over" /\ x = 0
    \/ /\ req[r].pc = "decide" /\ pc = "undo" /\ ~Live(req[r].inst)
       /\ x = reservation[r]
    \/ /\ req[r].pc = "decide" /\ pc = "cast"
       /\ x = (IF Soft(r) THEN 0 ELSE reservation[r])
    \/ req[r].pc = "decide" /\ pc = "local" /\ x = reservation[r] /\ ~Deferred
    \/ /\ req[r].pc \in {"local", "local-destroy"} /\ pc = "undo"
       /\ x = reservation[r]
    \/ /\ req[r].pc = "cast" /\ req[r].kind = "delete" /\ pc = "waiting"
       /\ x = reservation[r]
    \/ /\ req[r].pc = "cast" /\ req[r].kind = "soft" /\ pc = "undoing"
       /\ x = reservation[r]
    \/ req[r].pc = "cast" /\ req[r].kind = "soft" /\ pc = "over" /\ x = 0
    \/ /\ req[r].pc = "waiting" /\ ~InstanceLocked(req[r].inst) /\ pc = "shutdown"
       /\ x = (IF Soft(r) THEN 0 ELSE reservation[r])
    \/ req[r].pc = "shutdown" /\ pc = "saving" /\ x = reservation[r]
    \/ req[r].pc = "shutdown" /\ pc = "over" /\ x = 0
    \/ /\ req[r].pc \in {"saving", "destroying"} /\ pc = "undoing"
       /\ ~Live(req[r].inst) /\ x = reservation[r]
    \/ req[r].pc = "init-destroy" /\ pc = "over" /\ x = reservation[r]
    \/ /\ req[r].pc = "init-reserve" /\ x = -1
       /\ pc = IF req[r].kind = "partial" THEN "committing" ELSE "shutdown"

Silent(r, pc, x) ==
    /\ Silently(r, pc, x) /\ Goto(r, pc)
    /\ reservation' = [reservation EXCEPT ![r] = x]
    /\ UNCHANGED <<row, build, restoring, up, listed, reclaiming>>
    /\ MaxCrashes = 0 => UNCHANGED expiring

\* A step of a request that writes no instance keeps the account, and what counts.
LEMMA SilentKeeps ==
  ASSUME Guarded, HostInv, Ledger, HostInv', NEW r \in Requests, NEW pc,
         NEW x \in Deltas, Silent(r, pc, x), NEW i \in Instances, req[r].inst = i
  PROVE  /\ Ledger'
         /\ \A j \in Instances \ {i} : Counts(j)' <=> Counts(j)
         /\ (req[r].pc \in {"commit", "committing"} => reservation[r] = 0) =>
               (Counts(i)' <=> Counts(i))
<1>1. \A q \in Requests :
        /\ req'[q].kind = req[q].kind /\ req'[q].inst = req[q].inst
        /\ req'[q].vm_state = req[q].vm_state
        /\ req'[q].pc = IF q = r THEN pc ELSE req[q].pc
        /\ reservation'[q] = IF q = r THEN x ELSE reservation[q]
  BY GotoFields DEF Silent, HostInv, TypeOK, QuotasTypeOK
<1>2. /\ UNCHANGED <<row, build, restoring, up, listed, reclaiming>>
      /\ reservation[r] \in {-1, 0, 1} /\ Silently(r, pc, x)
      /\ MaxCrashes = 0 => UNCHANGED expiring
  BY DEF Silent, HostInv, TypeOK, QuotasTypeOK, Deltas
<1> USE DEF Silently
<1>3. req[r].kind \in Kinds /\ req[r].kind # "none"
  BY <1>2 DEF HostInv, TypeOK, RequestRecords, Kinds, Ledger, PlaceFits, Named
<1>4. \A q \in Requests : PlaceFits(q)'
  BY <1>1, <1>2, <1>3 DEF Kinds, Ledger, PlaceFits
<1>5. Others(i)
  BY <1>1, <1>2 DEF Others
<1>6. LedgerOf(i)
  BY <1>3 DEF Ledger
<1>7. Grants(i)'
  BY <1>1, <1>2, <1>3, <1>6 DEF LedgerOf, Grants, Live, Ledger, PlaceFits
<1>8. Decreases(i)'
  BY <1>1, <1>2, <1>3, <1>6
  DEF LedgerOf, Decreases, Live, Soft, ComputeSide, Ledger, Plain, PlaceFits,
      Guarded, Kinds
<1>9. TakenOnce(i)'
  BY <1>1, <1>2, <1>3, <1>6
  DEF LedgerOf, TakenOnce, TakesOff, Kinds, Ledger, PlaceFits
<1>10. Exclusive(i)'
  <2>1. \A q \in ApiRequests : req[q].inst = i /\ Ended(q) => Ended(q)'
    BY <1>1, <1>2 DEF Ended, ApiRequests
  <2>2. \A q \in ApiRequests :
          req[q].inst = i => (Locks(q)' => Locks(q) \/ (q = r /\ ~InstanceLocked(i)))
    BY <1>1, <1>2, <1>3 DEF Locks, ApiRequests, ComputeSide, Ledger, PlaceFits
  <2>3. ~InstanceLocked(i) => \A q \in ApiRequests : req[q].inst = i => ~Locks(q)
    BY DEF InstanceLocked, Locks
  <2>4. BeingReclaimed(i)' => BeingReclaimed(i)
    BY <1>1, <1>2, <1>3, DeleteAssumption
    DEF BeingReclaimed, Reclaiming, ComputeSide, Ledger, PlaceFits
  <2>5. \A q \in ApiRequests : req'[q].inst = req[q].inst /\ req'[q].kind = req[q].kind
    BY <1>1 DEF ApiRequests
  <2> QED  BY <1>6, <2>1, <2>2, <2>3, <2>4, <2>5 DEF LedgerOf, Exclusive
<1>11. Reclaims(i)'
  <2>1. i \in Requests
    BY DeleteAssumption
  <2>2. Reclaiming(i)' => Reclaiming(i)
    BY <1>1, <1>2, <1>3, <2>1 DEF Reclaiming, ComputeSide, Ledger, PlaceFits
  <2> QED
    BY <1>1, <1>2, <1>3, <1>6, <2>1, <2>2
    DEF LedgerOf, Reclaims, Reclaiming, Live, Soft, Ledger, PlaceFits
<1>12. Live(i) => (SoftDestroys(i)' <=> SoftDestroys(i))
  BY <1>1, <1>2 DEF SoftDestroys, Soft, Live
<1>13. Copies(i)'
  BY <1>1, <1>2, <1>3, <1>6, <1>12 DEF LedgerOf, Copies, Soft, Live, Ledger, PlaceFits
<1>14. Hosted(i)'
  BY <1>2, <1>6 DEF LedgerOf, Hosted
<1>17. Goes(i)'
  BY <1>1, <1>2, <1>6 DEF LedgerOf, Goes, Live, Soft
<1>15. Plain'
  BY <1>1, <1>2, <1>3 DEF Ledger, Plain, Guarded, Soft
<1>16. ASSUME req[r].pc \in {"commit", "committing"} => reservation[r] = 0
       PROVE  Counts(i)' <=> Counts(i)
  <2>1. Owed(i)' <=> Owed(i)
    BY <1>2, <1>12 DEF Owed, Live
  <2>2. Returning(i)' <=> Returning(i)
    BY <1>1, <1>2 DEF Returning
  <2>3. ASSUME req[r].kind = "create" PROVE ~Owed(i) /\ ~Returning(i)
    <3>1. req[r].pc = "undo" /\ ~Live(i)
      BY <1>2, <1>3, <1>6, <2>3 DEF Ledger, PlaceFits, LedgerOf, Grants
    <3>2. ~Returning(i)
      BY <1>6, <2>3, <3>1 DEF LedgerOf, Grants, Returning, HostInv, KindsFit
    <3> QED  BY <3>1, <3>2 DEF Owed
  <2>4. ASSUME req[r].kind # "create" PROVE Granting(i)' <=> Granting(i)
    <3>1. reservation[r] # 1 /\ x # 1
      BY <1>2, <1>3, <1>6, <2>4 DEF LedgerOf, Grants
    <3>2. Granting(i)' <=> Granting(i)
      BY <1>1, <3>1 DEF Granting
    <3> QED  BY <3>2
  <2>5. Taken(i)' <=> Taken(i)
    BY <1>1, <1>2, <1>3, <1>16 DEF Taken, TakesOff, Ledger, PlaceFits
  <2> QED  BY <2>1, <2>2, <2>3, <2>4, <2>5 DEF Counts
<1> QED
  BY <1>4, <1>5, <1>7, <1>8, <1>9, <1>10, <1>11, <1>13, <1>14, <1>15, <1>16, <1>17,
     LedgerKept
  DEF LedgerOf

LEMMA SilentStep ==
  ASSUME Guarded, QuotaInv, HostInv', NEW r \in Requests, NEW pc,
         NEW x \in Deltas, Silent(r, pc, x),
         in_use' = in_use, in_use + reserved' <= Limit,
         req[r].pc \in {"commit", "committing"} => reservation[r] = 0
  PROVE  Ledger' /\ Usage'
<1>1. req[r].inst \in Instances
  BY DEF Silent, Silently, QuotaInv, HostInv, Ledger, PlaceFits, Named
<1>2. Ledger' /\ \A j \in Instances : Counts(j)' <=> Counts(j)
  BY <1>1, SilentKeeps DEF QuotaInv
<1>3. Lossy' <=> Lossy
  BY DEF Lossy, Silent
<1> QED  BY <1>2, <1>3, UsageKept DEF QuotaInv, HostInv, TypeOK, QuotasTypeOK

\* A transaction that commits nothing.
InUseStays(r, x) ==
    /\ reservation' = [reservation EXCEPT ![r] = x]
    /\ in_use' = in_use /\ in_use + reserved' <= Limit
    /\ UNCHANGED expiring

\* Nothing refreshes the usage.
LEMMA QuotaFields ==
  ASSUME Guarded, TypeOK, Usage, NEW r \in Requests
  PROVE  /\ (\E aged \in Ages : Reserve(r, -1, Actual, aged)) => InUseStays(r, -1)
         /\ Rollback(r) => InUseStays(r, 0)
         /\ UNCHANGED quotas => InUseStays(r, reservation[r])
         /\ Commit(r) /\ reservation[r] = 0 => InUseStays(r, 0)
<1>1. /\ in_use \in Int /\ reserved \in Int /\ Limit \in Nat
      /\ reservation[r] \in {-1, 0, 1} /\ reservation \in [Requests -> Deltas]
  BY QuotasAssumption DEF TypeOK, QuotasTypeOK, Deltas
<1>2. in_use >= 0
  <2>1. Cardinality(Counted) \in Nat
    BY CountedFinite
  <2> QED  BY <1>1, <2>1 DEF Usage
<1>3. Ages = {FALSE}
  BY DEF Guarded, Ages
<1>4. Held(-1) = 0 /\ Held(0) = 0 /\ Held(reservation[r]) \in {0, 1}
  BY <1>1 DEF Held
<1>5. in_use + reserved <= Limit
  BY DEF Usage
<1> USE <1>1, <1>5 DEF InUseStays
<1>6. ASSUME NEW aged \in Ages, Reserve(r, -1, Actual, aged) PROVE InUseStays(r, -1)
  <2>1. Refreshed(Actual, aged) = in_use
    BY <1>2, <1>3 DEF Refreshed
  <2> QED  BY <1>4, <1>6, <2>1 DEF Reserve
<1>7. ASSUME Rollback(r) PROVE InUseStays(r, 0)
  <2>1. PICK h \in {0, 1} : h = Held(reservation[r])
    BY <1>4
  <2> QED  BY <1>7, <2>1 DEF Rollback
<1>8. ASSUME UNCHANGED quotas PROVE InUseStays(r, reservation[r])
  BY <1>8 DEF quotas
<1>9. ASSUME Commit(r), reservation[r] = 0 PROVE InUseStays(r, 0)
  BY <1>4, <1>9 DEF Commit
<1> QED  BY <1>6, <1>7, <1>8, <1>9

\* Steps of the API that write no instance.
LEMMA ApiSilent ==
  ASSUME Guarded, QuotaInv, HostInv', NEW r \in Requests,
         \/ Undo(r) \/ CastDelete(r) \/ LocalDelete(r)
         \/ \E aged \in Ages : DeleteReserve(r, aged)
         \/ (DeleteSave(r) \/ LocalSave(r) \/ LocalDestroy(r)) /\ ~Live(req[r].inst)
         \/ DestroyUnhosted(r) /\ ~Live(req[r].inst)
         \/ DeleteCommit(r) /\ reservation[r] = 0
  PROVE  Ledger' /\ Usage'
<1>1. TypeOK /\ Usage /\ reservation[r] \in Deltas /\ {-1, 0} \subseteq Deltas
  BY DEF QuotaInv, HostInv, TypeOK, QuotasTypeOK, Deltas
<1> USE DEF host, compute, At, Silent, Silently, InUseStays
<1>2. CASE Undo(r)
  BY <1>1, <1>2, QuotaFields, SilentStep DEF Undo
<1>3. CASE CastDelete(r)
  <2>1. CASE req[r].ignore
    BY <1>1, <1>3, <2>1, QuotaFields, SilentStep DEF CastDelete
  <2>2. CASE ~req[r].ignore /\ Soft(r)
    BY <1>1, <1>3, <2>2, QuotaFields, SilentStep DEF CastDelete, Soft
  <2>3. CASE ~req[r].ignore /\ ~Soft(r)
    BY <1>1, <1>3, <2>3, QuotaFields, SilentStep DEF CastDelete, Soft
  <2> QED  BY <2>1, <2>2, <2>3
<1>4. CASE LocalDelete(r)
  <2>1. ~Deferred
    BY <1>4 DEF LocalDelete, Guarded, QuotaInv, Ledger, Plain
  <2> QED  BY <1>1, <1>4, <2>1, QuotaFields, SilentStep DEF LocalDelete
<1>5. CASE \E aged \in Ages : DeleteReserve(r, aged)
  BY <1>1, <1>5, QuotaFields, SilentStep DEF DeleteReserve
<1>6. CASE DeleteSave(r) /\ ~Live(req[r].inst)
  BY <1>1, <1>6, QuotaFields, SilentStep DEF DeleteSave
<1>7. CASE LocalSave(r) /\ ~Live(req[r].inst)
  BY <1>1, <1>7, QuotaFields, SilentStep DEF LocalSave
<1>8. CASE LocalDestroy(r) /\ ~Live(req[r].inst)
  BY <1>1, <1>8, QuotaFields, SilentStep DEF LocalDestroy
<1>9. CASE DestroyUnhosted(r) /\ ~Live(req[r].inst)
  BY <1>1, <1>9, QuotaFields, SilentStep DEF DestroyUnhosted
<1>10. CASE DeleteCommit(r) /\ reservation[r] = 0
  BY <1>1, <1>10, QuotaFields, SilentStep DEF DeleteCommit
<1> QED  BY <1>2, <1>3, <1>4, <1>5, <1>6, <1>7, <1>8, <1>9, <1>10

\* Steps of the compute host that write no instance.
LEMMA HandlerSilent ==
  ASSUME Guarded, QuotaInv, HostInv', NEW r \in Requests,
         \/ Receive(r) \/ Terminate(r) \/ Shutdown(r)
         \/ (SaveDeleted(r) \/ DestroyRow(r) \/ InitDestroy(r)) /\ ~Live(req[r].inst)
         \/ CompleteDeletion(r) /\ reservation[r] = 0
         \/ /\ SoftDeleteInstance(r)
            /\ ~(Live(req[r].inst) /\ row[req[r].inst].task_state = "soft-deleting")
         \/ \E aged \in Ages : InitReserve(r, aged)
         \/ (ShutdownFails(r) \/ SoftDeleteFails(r)) /\ UNCHANGED row
  PROVE  Ledger' /\ Usage'
<1>1. TypeOK /\ Usage /\ reservation[r] \in Deltas /\ {-1, 0} \subseteq Deltas
  BY DEF QuotaInv, HostInv, TypeOK, QuotasTypeOK, Deltas
<1> USE DEF host, compute, At, Silent, Silently, InUseStays
<1>2. CASE Receive(r)
  BY <1>1, <1>2, QuotaFields, SilentStep DEF Receive
<1>3. CASE Terminate(r)
  <2>1. CASE Soft(r)
    BY <1>1, <1>3, <2>1, QuotaFields, SilentStep DEF Terminate, Soft
  <2>2. CASE ~Soft(r)
    BY <1>1, <1>3, <2>2, QuotaFields, SilentStep DEF Terminate, Soft
  <2> QED  BY <2>1, <2>2
<1>4. CASE Shutdown(r)
  BY <1>1, <1>4, QuotaFields, SilentStep DEF Shutdown
<1>5. CASE (SaveDeleted(r) \/ DestroyRow(r) \/ InitDestroy(r)) /\ ~Live(req[r].inst)
  BY <1>1, <1>5, QuotaFields, SilentStep DEF SaveDeleted, DestroyRow, InitDestroy
<1>6. CASE CompleteDeletion(r) /\ reservation[r] = 0
  BY <1>1, <1>6, QuotaFields, SilentStep DEF CompleteDeletion
<1>7. CASE SoftDeleteInstance(r)
             /\ ~(Live(req[r].inst) /\ row[req[r].inst].task_state = "soft-deleting")
  BY <1>1, <1>7, QuotaFields, SilentStep DEF SoftDeleteInstance
<1>8. CASE \E aged \in Ages : InitReserve(r, aged)
  BY <1>1, <1>8, QuotaFields, SilentStep DEF InitReserve
<1>9. CASE ShutdownFails(r) /\ UNCHANGED row
  BY <1>1, <1>9, QuotaFields, SilentStep DEF ShutdownFails
<1>10. CASE SoftDeleteFails(r) /\ UNCHANGED row
  BY <1>1, <1>10, QuotaFields, SilentStep DEF SoftDeleteFails
<1> QED  BY <1>2, <1>3, <1>4, <1>5, <1>6, <1>7, <1>8, <1>9, <1>10

\* No increase for the instance is under way.
NoneGranted(i) ==
    \A q \in Requests : req[q].inst = i =>
      /\ req[q].kind \in {"create", "restore"} =>
            req[q].pc = "over" /\ restoring[q] # "queued"
      /\ req[q].pc \notin {"row", "made", "restore-save", "restore-commit"}
      /\ ~(req[q].pc = "undo" /\ req[q].kind = "create")
      /\ reservation[q] # 1

\* While an instance is worked on to be deleted, no increase is under way for it,
\* and nobody else reclaims it.
LEMMA NoIncrease ==
  ASSUME Guarded, HostInv, Ledger, NEW r \in Requests, NEW i \in Instances,
         req[r].inst = i, req[r].kind \notin {"none", "create", "restore"},
         req[r].pc \notin {"over", "dead"}
  PROVE  /\ NoneGranted(i)
         /\ ~Granting(i) /\ ~Returning(i)
         /\ i \notin reclaiming
         /\ Reclaiming(i) => r = i
         /\ \A q \in Requests \ {r} :
               req[q].inst = i /\ req[q].kind = "soft" => req[q].pc \in {"over", "dead"}
         /\ req[r].kind = "soft" =>
               \A q \in Requests \ {r} : req[q].inst = i => req[q].pc \in {"over", "dead"}
<1>1. LedgerOf(i) /\ Plain /\ KindsFit /\ i \in Requests
  BY DeleteAssumption DEF Ledger, HostInv
<1>2. ~Ended(r)
  BY DEF Ended
<1>3. /\ \A q \in Requests \ {r} :
            req[q].inst = i /\ req[q].kind \in {"soft", "restore"} => Ended(q)
      /\ req[r].kind = "soft" =>
           \A q \in Requests \ {r} : req[q].inst = i => req[q].pc \in {"over", "dead"}
      /\ i \notin reclaiming /\ (Reclaiming(i) => r = i)
  <2>1. CASE r \in ApiRequests
    <3>1. \A q \in ApiRequests \ {r} :
             req[q].inst = i /\ req[q].kind \in {"soft", "restore"} => Ended(q)
      BY <1>1, <1>2, <2>1 DEF LedgerOf, Exclusive
    <3>2. ~BeingReclaimed(i)
      BY <1>1, <1>2, <2>1 DEF LedgerOf, Exclusive
    <3>3. req[r].kind = "soft" =>
             \A q \in Requests \ {r} : req[q].inst = i => req[q].pc \in {"over", "dead"}
      <4> SUFFICES ASSUME req[r].kind = "soft", NEW q \in Requests \ {r},
                          req[q].inst = i
                   PROVE  req[q].pc \in {"over", "dead"}
        OBVIOUS
      <4>1. CASE q \in ApiRequests
        BY <1>1, <1>2, <2>1, <4>1 DEF LedgerOf, Exclusive, Ended
      <4>2. CASE q \in Instances
        <5>1. q = i /\ req[q].kind \in Kinds /\ PlaceFits(q)
          BY <4>2, DeleteAssumption
          DEF Ledger, PlaceFits, HostInv, TypeOK, RequestRecords, Kinds
        <5>2. ~Deferred \/ req[q].kind \notin {"resume", "partial"}
          BY <1>1 DEF Plain, Guarded
        <5>3. Deferred /\ ~Reclaiming(i)
          BY <1>1, <3>2 DEF Plain, BeingReclaimed
        <5> QED  BY <1>1, <4>2, <5>1, <5>2, <5>3, DeleteAssumption
                 DEF Reclaiming, KindsFit, PlaceFits, ComputeSide
      <4> QED  BY <4>1, <4>2 DEF ApiRequests
    <3> QED  BY <1>1, <3>1, <3>2, <3>3 DEF KindsFit, ApiRequests, BeingReclaimed
  <2>2. CASE r \in Instances
    <3>1. r = i
      BY <2>2 DEF Ledger, PlaceFits
    <3>2. CASE req[r].kind = "reclaim"
      <4>1. Reclaiming(i)
        BY <1>1, <3>1, <3>2 DEF Reclaiming, Ledger, PlaceFits, ComputeSide
      <4> QED
        BY <1>1, <3>1, <4>1
        DEF KindsFit, ApiRequests, BeingReclaimed, LedgerOf, Exclusive, Reclaims
    <3>3. CASE req[r].kind \in {"resume", "partial"}
      BY <1>1, <3>1, <3>3 DEF Plain, Guarded
    <3> QED  BY <1>1, <2>2, <3>2, <3>3 DEF KindsFit
  <2> QED  BY <2>1, <2>2 DEF ApiRequests
<1>4. \A q \in Requests : req[q].inst = i /\ req[q].kind = "create" =>
         req[q].pc = "over" /\ restoring[q] # "queued"
  BY <1>1 DEF LedgerOf, Grants, KindsFit
<1>5. \A q \in Requests : req[q].inst = i /\ req[q].kind = "restore" =>
         req[q].pc = "over" /\ restoring[q] # "queued"
  BY <1>3 DEF Ended, Ledger, PlaceFits
<1>6. NoneGranted(i)
  <2> SUFFICES ASSUME NEW q \in Requests, req[q].inst = i
               PROVE  /\ req[q].pc \notin {"row", "made", "restore-save",
                                           "restore-commit"}
                      /\ ~(req[q].pc = "undo" /\ req[q].kind = "create")
                      /\ reservation[q] # 1
    BY <1>4, <1>5 DEF NoneGranted
  <2>1. req[q].kind \in Kinds /\ PlaceFits(q)
    BY DEF Ledger, HostInv, TypeOK, RequestRecords, Kinds
  <2>2. req[q].kind \in {"create", "restore"} => req[q].pc = "over"
    BY <1>4, <1>5
  <2> QED  BY <1>1, <2>1, <2>2 DEF PlaceFits, Kinds, LedgerOf, Grants
<1>7. ~Granting(i) /\ ~Returning(i)
  BY <1>1, <1>5, <1>6 DEF NoneGranted, Granting, Returning, KindsFit
<1> QED  BY <1>3, <1>6, <1>7 DEF Ended

LEMMA NoneGrantedNext ==
  ASSUME NEW i \in Instances, NoneGranted(i)'
  PROVE  Grants(i)'
BY DEF NoneGranted, Grants

\* Nobody has begun to take off an instance that is there and not put aside.
LEMMA NotTaken ==
  ASSUME NEW i \in Instances, LedgerOf(i), Live(i), row[i].vm_state # "soft-delete"
  PROVE  ~Taken(i)
BY DEF LedgerOf, Decreases, Taken, TakesOff, Live

\* A request that destroys a row, and goes on to its commit.
Destroying(r, pc) ==
    \/ req[r].pc = "decide" /\ pc = "commit" /\ ~row[req[r].inst].hosted
    \/ req[r].pc = "local-destroy" /\ pc = "commit"
    \/ req[r].pc = "destroying" /\ pc = "committing"
    \/ req[r].pc = "init-destroy" /\ pc = "init-reserve"

\* Whoever destroys the row takes the instance off: what counted as owed counts as
\* taken.
LEMMA DestroyKeeps ==
  ASSUME Guarded, QuotaInv, NEW r \in Requests, NEW i \in Instances,
         req[r].inst = i, NEW pc, Destroying(r, pc), Live(i), Destroyed(i),
         Goto(r, pc),
         UNCHANGED <<quotas, build, restoring, up, listed, reclaiming>>
  PROVE  Ledger' /\ Usage'
<1>1. \A q \in Requests :
        /\ req'[q].kind = req[q].kind /\ req'[q].inst = req[q].inst
        /\ req'[q].vm_state = req[q].vm_state
        /\ req'[q].pc = IF q = r THEN pc ELSE req[q].pc
        /\ reservation'[q] = reservation[q]
        /\ restoring'[q] = restoring[q]
  BY GotoFields DEF QuotaInv, HostInv, quotas
<1>2. /\ UNCHANGED <<quotas, build, restoring, up, listed, reclaiming>>
      /\ \A j \in Instances :
           /\ row'[j].hosted = row[j].hosted /\ row'[j].launched = row[j].launched
           /\ row'[j].stage = IF j = i THEN "deleted" ELSE row[j].stage
           /\ row'[j].vm_state = row[j].vm_state
           /\ row'[j].task_state = row[j].task_state
  BY DestroyedFields DEF QuotaInv, HostInv
<1>3. /\ HostInv /\ Ledger /\ LedgerOf(i) /\ PlaceFits(r) /\ Plain
      /\ req[r].kind \in Kinds \ {"none", "create", "restore"}
      /\ req[r].pc \notin {"over", "dead"}
      /\ reservation[r] \in {-1, 0, 1} /\ i \in Requests
  BY DeleteAssumption DEF QuotaInv, HostInv, TypeOK, QuotasTypeOK, Deltas,
     RequestRecords, Kinds, Ledger, PlaceFits, Destroying
<1>4. /\ NoneGranted(i)
      /\ ~Granting(i) /\ ~Returning(i) /\ i \notin reclaiming
      /\ Reclaiming(i) => r = i
  BY <1>3, NoIncrease
<1> USE DEF Destroying
<1>5. Deferred => /\ req[r].pc \in {"decide", "destroying"}
                  /\ req[r].kind \in {"delete", "soft", "reclaim"}
  BY <1>3 DEF Plain, Guarded, PlaceFits, Kinds
<1>6. req[r].kind = "reclaim" => r = i /\ Soft(r)
  <2>1. req[r].kind = "reclaim" => r = i
    BY <1>3 DEF HostInv, KindsFit, PlaceFits
  <2> QED  BY <1>3, <2>1 DEF LedgerOf, Reclaims, Reclaiming, PlaceFits, ComputeSide
<1>7. Soft(r) => req[r].pc = "destroying" /\ reservation[r] = 0
  <2>1. Soft(r) => row[i].hosted /\ Deferred
    BY <1>3 DEF LedgerOf, Copies, Plain
  <2> QED  BY <1>3, <1>5, <2>1 DEF LedgerOf, Decreases, ComputeSide
<1>8. ~Soft(r) => row[i].vm_state # "soft-delete"
  <2>1. ~Deferred => row[i].vm_state # "soft-delete"
    BY <1>3 DEF Plain
  <2> QED  BY <1>3, <1>5, <1>6, <2>1 DEF LedgerOf, Copies
<1>9. ~Soft(r) => ~SoftDestroys(i)
  <2> SUFFICES ASSUME ~Soft(r), NEW q \in Requests, req[q].pc = "destroying",
                      req[q].inst = i, Soft(q)
               PROVE  FALSE
    BY DEF SoftDestroys
  <2>1. row[i].hosted /\ Deferred
    BY <1>3 DEF LedgerOf, Copies, Plain
  <2>2. req[q].kind \in {"delete", "reclaim"}
    BY <1>3, <2>1 DEF Ledger, PlaceFits, HostInv, TypeOK, RequestRecords, Plain,
                      Guarded
  <2>3. req[q].kind # "reclaim"
    <3>1. req[q].kind = "reclaim" => q = i /\ Reclaiming(i)
      BY DEF HostInv, KindsFit, PlaceFits, Ledger, Reclaiming, ComputeSide, QuotaInv
    <3> QED  BY <1>4, <3>1
  <2>4. req[r].pc = "destroying" /\ req[r].kind = "delete"
    BY <1>3, <1>5, <1>6, <2>1 DEF PlaceFits
  <2>5. q \in ApiRequests /\ r \in ApiRequests
    BY <1>3, <2>2, <2>3, <2>4 DEF HostInv, KindsFit, ApiRequests
  <2> QED  BY <1>3, <2>2, <2>3, <2>4, <2>5 DEF LedgerOf, Exclusive, Locks, ComputeSide
<1>10. \A q \in Requests : PlaceFits(q)'
  BY <1>1, <1>2, <1>3 DEF Ledger, PlaceFits, Kinds
<1>11. Others(i)
  BY <1>1, <1>2 DEF Others
<1>12. Grants(i)'
  <2>1. NoneGranted(i)'
    BY <1>1, <1>4 DEF NoneGranted
  <2> QED  BY <2>1, NoneGrantedNext
<1>13. Decreases(i)'
  BY <1>1, <1>2, <1>3 DEF LedgerOf, Decreases, Live, Soft, ComputeSide
<1>14. TakenOnce(i)'
  BY <1>1, <1>2, <1>3, <1>7, <1>8, NotTaken DEF LedgerOf, TakenOnce, TakesOff, Taken
<1>15. Exclusive(i)'
  <2>1. \A q \in ApiRequests : req[q].inst = i =>
          /\ Ended(q)' <=> Ended(q)
          /\ Locks(q)' => Locks(q)
          /\ req'[q].inst = req[q].inst /\ req'[q].kind = req[q].kind
    BY <1>1, <1>3 DEF Ended, Locks, ApiRequests, ComputeSide, PlaceFits
  <2>2. BeingReclaimed(i)' => BeingReclaimed(i)
    BY <1>1, <1>2, <1>3 DEF BeingReclaimed, Reclaiming, ComputeSide, PlaceFits
  <2>3. \A q \in ApiRequests : req'[q].inst = i => req[q].inst = i
    BY <1>1 DEF ApiRequests
  <2> QED  BY <1>3, <2>1, <2>2, <2>3 DEF LedgerOf, Exclusive
<1>16. Reclaims(i)'
  BY <1>1, <1>2, <1>3, <1>4
  DEF LedgerOf, Reclaims, Reclaiming, ComputeSide, Live, Soft
<1>17. Copies(i)'
  BY <1>1, <1>2, <1>3 DEF LedgerOf, Copies, Soft, Live
<1>18. Hosted(i)' /\ Plain'
  BY <1>1, <1>2, <1>3 DEF LedgerOf, Hosted, Plain, Soft, quotas
<1>27. Goes(i)'
  BY <1>2 DEF Goes, Live
<1>19. Counts(i)' <=> Taken(i) \/ TakesOff(r)'
  <2>1. ~Owed(i)' /\ ~Returning(i)'
    BY <1>1, <1>2, <1>4 DEF Owed, Live, Returning
  <2>2. Taken(i)' <=> Taken(i) \/ TakesOff(r)'
    BY <1>1, <1>2, <1>3 DEF Taken, TakesOff
  <2> QED  BY <2>1, <2>2 DEF Counts
<1>20. TakesOff(r)' => ~Soft(r)
  BY <1>1, <1>7 DEF TakesOff
<1>21. ~Soft(r) /\ MaxCrashes = 0 => TakesOff(r)'
  BY <1>1, <1>3
  DEF LedgerOf, Decreases, TakesOff, Plain, PlaceFits, ComputeSide, Kinds
<1>22. Counts(i) <=> Taken(i) \/ ~Soft(r)
  <2>1. Soft(r) => ~Owed(i)
    BY <1>7 DEF Owed, SoftDestroys
  <2> QED  BY <1>4, <1>8, <1>9, <2>1 DEF Counts, Owed
<1>23. (Lossy' <=> Lossy) /\ (Lossy' \/ MaxCrashes = 0)
  BY <1>2, DeleteAssumption DEF Lossy
<1>24. /\ Ledger'
       /\ \A j \in Instances \ {i} : Counts(j)' <=> Counts(j)
  BY <1>3, <1>10, <1>11, <1>12, <1>13, <1>14, <1>15, <1>16, <1>17, <1>18, <1>27,
     LedgerKept DEF LedgerOf
<1>25. in_use' = in_use /\ in_use + reserved' <= Limit /\ in_use \in Int
  BY <1>2 DEF quotas, QuotaInv, Usage, HostInv, TypeOK, QuotasTypeOK
<1>26. Usage'
  BY <1>19, <1>20, <1>21, <1>22, <1>23, <1>24, <1>25, UsageKept DEF QuotaInv
<1> QED  BY <1>24, <1>26

\* A request that deletes saves its instance: where it goes, what becomes of its
\* reservation, what it writes, and what its copy says then.
Saves(r, i, pc, x, vm, copy) ==
    \/ /\ req[r].pc = "save" /\ pc = "reserve" /\ x = reservation[r]
       /\ vm = row[i].vm_state /\ copy = row[i].vm_state
    \/ /\ req[r].pc = "decide" /\ pc = "decide" /\ x = reservation[r]
       /\ vm = row[i].vm_state /\ copy = row[i].vm_state
    \/ /\ req[r].pc = "cast" /\ req[r].kind = "soft" /\ pc = "over" /\ x = 0
       /\ vm = row[i].vm_state /\ copy = req[r].vm_state
    \/ /\ req[r].pc = "local" /\ pc = "local-destroy" /\ x = reservation[r]
       /\ vm = "deleted" /\ copy = req[r].vm_state
    \/ /\ req[r].pc = "saving" /\ pc = "destroying" /\ x = reservation[r]
       /\ vm = "deleted" /\ copy = req[r].vm_state
    \/ /\ req[r].pc = "cast" /\ req[r].kind = "soft" /\ pc = "committing"
       /\ x = reservation[r] /\ vm = "soft-delete" /\ copy = req[r].vm_state
    \/ /\ req[r].pc = "shutdown" /\ pc = "over" /\ x = 0 /\ ~Soft(r)
       /\ vm = "error" /\ copy = req[r].vm_state

Writes(r, i, pc, x, vm, copy, task) ==
    /\ Saves(r, i, pc, x, vm, copy)
    /\ \A q \in Requests :
         /\ req'[q].kind = req[q].kind /\ req'[q].inst = req[q].inst
         /\ req'[q].vm_state = IF q = r THEN copy ELSE req[q].vm_state
         /\ req'[q].pc = IF q = r THEN pc ELSE req[q].pc
         /\ reservation'[q] = IF q = r THEN x ELSE reservation[q]
         /\ restoring'[q] = restoring[q]
    /\ \A j \in Instances :
         /\ row'[j].hosted = row[j].hosted /\ row'[j].launched = row[j].launched
         /\ row'[j].stage = row[j].stage
         /\ row'[j].vm_state = IF j = i THEN vm ELSE row[j].vm_state
         /\ row'[j].task_state = IF j = i THEN task ELSE row[j].task_state
    /\ UNCHANGED <<build, restoring, up, listed, reclaiming, expiring>>
    /\ in_use' = in_use /\ in_use + reserved' <= Limit

\* What a deletion saves on its way.
LEMMA SaveKeeps ==
  ASSUME Guarded, QuotaInv, HostInv', NEW r \in Requests, NEW i \in Instances,
         req[r].inst = i, Live(i), NEW pc, NEW x, NEW vm, NEW copy, NEW task,
         Writes(r, i, pc, x, vm, copy, task)
  PROVE  Ledger' /\ Usage'
<1> USE DEF Saves, Writes
<1>1. /\ HostInv /\ Ledger /\ LedgerOf(i) /\ PlaceFits(r) /\ Plain
      /\ req[r].kind \in Kinds \ {"none", "create", "restore"}
      /\ req[r].pc \notin {"over", "dead"}
      /\ reservation[r] \in {-1, 0, 1} /\ i \in Requests
  BY DeleteAssumption DEF QuotaInv, HostInv, TypeOK, QuotasTypeOK, Deltas,
     RequestRecords, Kinds, Ledger, PlaceFits
<1>2. /\ NoneGranted(i)
      /\ ~Granting(i) /\ ~Returning(i) /\ i \notin reclaiming
      /\ Reclaiming(i) => r = i
      /\ \A q \in Requests \ {r} :
            req[q].inst = i /\ req[q].kind = "soft" => req[q].pc \in {"over", "dead"}
      /\ req[r].kind = "soft" =>
            \A q \in Requests \ {r} : req[q].inst = i => req[q].pc \in {"over", "dead"}
  BY <1>1, NoIncrease
<1>3. \A q \in Requests : PlaceFits(q)'
  BY <1>1 DEF Ledger, PlaceFits, Kinds
<1>4. Others(i)
  BY DEF Others
<1>5. NoneGranted(i)'
  BY <1>1, <1>2 DEF NoneGranted
<1>6. ~Granting(i)' /\ ~Returning(i)'
  BY <1>2, <1>5 DEF NoneGranted, Granting, Returning
<1>7. Grants(i)'
  BY <1>5, NoneGrantedNext
<1>8. req[r].kind = "reclaim" => r = i /\ Soft(r) /\ Reclaiming(i)
  <2>1. req[r].kind = "reclaim" => r = i
    BY <1>1 DEF HostInv, KindsFit, PlaceFits
  <2> QED  BY <1>1, <2>1 DEF LedgerOf, Reclaims, Reclaiming, PlaceFits, ComputeSide
<1>9. /\ Soft(r) => Deferred
      /\ Deferred => req[r].kind \in {"delete", "soft", "reclaim"}
      /\ row[i].vm_state = "soft-delete" => Deferred
  BY <1>1 DEF Plain, Guarded, PlaceFits, Kinds, Deltas
<1>10. req[r].pc # "save" /\ ~Soft(r) => row[i].vm_state # "soft-delete"
  BY <1>1, <1>8, <1>9 DEF LedgerOf, Copies, Plain
<1>11. req[r].pc # "save" /\ Soft(r) => row[i].vm_state = "soft-delete" \/ SoftDestroys(i)
  <2>1. CASE req[r].kind = "reclaim"
    BY <1>1, <1>8, <2>1 DEF LedgerOf, Reclaims, PlaceFits
  <2>2. CASE req[r].kind \in {"delete", "soft"}
    BY <1>1, <2>2 DEF LedgerOf, Copies
  <2> QED  BY <1>9, <2>1, <2>2
<1>12. \A q \in Requests \ {r} : req[q].inst = i => ~TakesOff(q)
  BY <1>1, <1>2, <1>9 DEF LedgerOf, Decreases, TakesOff, Live
<1>13. TakesOff(r)' => /\ req[r].kind = "soft" /\ pc = "committing"
                       /\ ~Soft(r) /\ row[i].vm_state # "soft-delete"
  BY <1>1, <1>10 DEF TakesOff, LedgerOf, Decreases
<1>30. Decreases(i)'
  <2>1. ASSUME NEW q \in Requests \ {r}, req[q].inst = i
        PROVE  /\ req[q].pc \notin {"commit", "committing"}
               /\ ~(req[q].pc = "init-reserve" /\ req[q].kind = "partial")
    BY <1>1, <1>2, <2>1 DEF LedgerOf, Decreases, Live
  <2>2. ASSUME NEW q \in Requests \ {r}, req'[q].inst = i
        PROVE  /\ Soft(q)' /\ req'[q].pc \in {"cast"} \cup ComputeSide =>
                    reservation'[q] = 0
               /\ MaxCrashes = 0 /\ req'[q].pc \in {"decide", "local", "local-destroy"} =>
                    reservation'[q] = -1
               /\ MaxCrashes = 0 /\ req'[q].pc \in {"cast"} \cup ComputeSide /\ ~Soft(q)' =>
                    reservation'[q] = -1
    BY <1>1, <2>2 DEF LedgerOf, Decreases, Soft
  <2>3. /\ Soft(r)' /\ pc \in {"cast"} \cup ComputeSide => x = 0
        /\ MaxCrashes = 0 /\ pc \in {"decide", "local", "local-destroy"} => x = -1
        /\ MaxCrashes = 0 /\ pc \in {"cast"} \cup ComputeSide /\ ~Soft(r)' => x = -1
    BY <1>1 DEF LedgerOf, Decreases, Soft, ComputeSide
  <2>4. pc # "commit" /\ pc # "init-reserve"
        /\ (pc = "committing" => req[r].kind = "soft" /\ vm = "soft-delete")
    OBVIOUS
  <2>5. \A q \in Requests : req'[q].inst = i =>
          /\ Soft(q)' /\ req'[q].pc \in {"cast"} \cup ComputeSide =>
                    reservation'[q] = 0
          /\ MaxCrashes = 0 /\ req'[q].pc \in {"decide", "local", "local-destroy"} =>
                    reservation'[q] = -1
          /\ MaxCrashes = 0 /\ req'[q].pc \in {"cast"} \cup ComputeSide /\ ~Soft(q)' =>
                    reservation'[q] = -1
    <3> SUFFICES ASSUME NEW q \in Requests, req'[q].inst = i
                 PROVE  /\ Soft(q)' /\ req'[q].pc \in {"cast"} \cup ComputeSide =>
                              reservation'[q] = 0
                        /\ MaxCrashes = 0 /\ req'[q].pc \in {"decide", "local", "local-destroy"} =>
                              reservation'[q] = -1
                        /\ MaxCrashes = 0 /\ req'[q].pc \in {"cast"} \cup ComputeSide /\ ~Soft(q)' =>
                              reservation'[q] = -1
      OBVIOUS
    <3>1. CASE q = r
      BY <2>3, <3>1
    <3>2. CASE q # r
      BY <2>2, <3>2
    <3> QED  BY <3>1, <3>2
  <2>6. \A q \in Requests : req'[q].inst = i =>
         (\/ req'[q].pc \in {"commit", "committing"}
          \/ req'[q].pc = "init-reserve" /\ req'[q].kind = "partial"
          => /\ req'[q].kind = "soft" /\ req'[q].pc = "committing"
             /\ row'[i].stage = "live" /\ row'[i].vm_state = "soft-delete")
    BY <2>1, <2>4 DEF Live
  <2> QED  BY <2>5, <2>6 DEF Decreases, Live
<1>31. TakenOnce(i)'
  <2>1. \A q \in Requests \ {r} : req'[q].inst = i => ~TakesOff(q)'
    BY <1>12 DEF TakesOff
  <2> QED  BY <2>1 DEF TakenOnce
<1>14. Exclusive(i)'
  <2>1. \A q \in ApiRequests : req[q].inst = i =>
          /\ Ended(q) => Ended(q)'
          /\ Locks(q)' => Locks(q)
          /\ req'[q].inst = req[q].inst /\ req'[q].kind = req[q].kind
    BY <1>1 DEF Ended, Locks, ApiRequests, ComputeSide, PlaceFits
  <2>2. BeingReclaimed(i)' => BeingReclaimed(i)
    BY <1>1 DEF BeingReclaimed, Reclaiming, ComputeSide, PlaceFits
  <2>3. \A q \in ApiRequests : req'[q].inst = i => req[q].inst = i
    BY DEF ApiRequests
  <2> QED  BY <1>1, <2>1, <2>2, <2>3 DEF LedgerOf, Exclusive
<1>15. Reclaims(i)'
  BY <1>1, <1>2, <1>8 DEF LedgerOf, Reclaims, Reclaiming, ComputeSide, Live, Soft
<1>16. SoftDestroys(i)' <=> SoftDestroys(i) \/ (pc = "destroying" /\ Soft(r))
  BY DEF SoftDestroys, Soft
<1>32. req[r].pc \in {"local", "saving"} =>
         (SoftDestroys(i)' <=> row[i].vm_state = "soft-delete" \/ SoftDestroys(i))
  <2>1. ~(req[r].pc = "local" /\ Soft(r))
    BY <1>1, <1>9 DEF Plain
  <2>2. CASE Soft(r)
    BY <1>11, <1>16, <2>1, <2>2
  <2>3. CASE ~Soft(r)
    BY <1>10, <1>16, <2>3
  <2> QED  BY <2>2, <2>3
<1>17. Copies(i)'
  <2>1. ASSUME NEW q \in Requests \ {r}, req'[q].inst = i
        PROVE  /\ /\ req'[q].kind \in {"delete", "soft"}
                  /\ req'[q].pc \in {"reserve", "decide", "cast", "waiting", "shutdown",
                           "saving", "destroying", "local", "local-destroy"}
                  => /\ Soft(q)' => row'[i].vm_state = "soft-delete" \/ SoftDestroys(i)'
                     /\ ~Soft(q)' => row'[i].vm_state # "soft-delete"
               /\ Soft(q)' \/ req'[q].kind = "soft" => row'[i].hosted /\ build'[i] = "over"
    <3>1. /\ req[q].kind \in {"delete", "soft"}
          /\ req[q].pc \in {"reserve", "decide", "cast", "waiting", "shutdown",
                           "saving", "destroying", "local", "local-destroy"}
          => /\ Soft(q) => row[i].vm_state = "soft-delete" \/ SoftDestroys(i)
             /\ ~Soft(q) => row[i].vm_state # "soft-delete"
      BY <1>1, <2>1 DEF LedgerOf, Copies
    <3>2. Soft(q) \/ req[q].kind = "soft" => row[i].hosted /\ build[i] = "over"
      BY <1>1, <2>1 DEF LedgerOf, Copies
    <3>3. /\ Soft(q)' <=> Soft(q)
          /\ req'[q].kind = req[q].kind /\ req'[q].pc = req[q].pc
          /\ req'[q].inst = req[q].inst
      BY <2>1 DEF Soft
    <3>4. /\ row'[i].hosted = row[i].hosted /\ build'[i] = build[i]
          /\ row'[i].vm_state = vm
      OBVIOUS
    <3>5. CASE vm = row[i].vm_state
      BY <1>16, <3>1, <3>2, <3>3, <3>4, <3>5
    <3>6. CASE vm = "soft-delete" /\ req[r].kind = "soft"
      BY <1>2, <2>1, <3>1, <3>2, <3>3, <3>4, <3>6
    <3>7. CASE req[r].pc \in {"local", "saving"}
      <4>1. vm = "deleted"
        BY <3>7
      <4>2. SoftDestroys(i)' \/ ~(row[i].vm_state = "soft-delete" \/ SoftDestroys(i))
        BY <1>32, <3>7
      <4> QED  BY <3>1, <3>2, <3>3, <3>4, <4>1, <4>2
    <3>8. CASE req[r].pc = "shutdown"
      <4>1. vm = "error"
        BY <3>8
      <4>2. ~(row[i].vm_state = "soft-delete") /\ (SoftDestroys(i)' <=> SoftDestroys(i))
        BY <1>10, <1>16, <3>8
      <4> QED  BY <3>1, <3>2, <3>3, <3>4, <4>1, <4>2
    <3> QED  BY <3>5, <3>6, <3>7, <3>8
  <2>2. row[i].vm_state = "soft-delete" => row[i].hosted /\ build[i] = "over"
    BY <1>1 DEF LedgerOf, Hosted, HostInv, BuildFits
  <2>3. Soft(r) \/ req[r].kind = "soft" => row[i].hosted /\ build[i] = "over"
    BY <1>1 DEF LedgerOf, Copies
  <2>4. /\ pc \in {"reserve", "decide", "cast", "waiting", "shutdown",
                           "saving", "destroying", "local", "local-destroy"}
                  => /\ Soft(r)' => row'[i].vm_state = "soft-delete" \/ SoftDestroys(i)'
                     /\ ~Soft(r)' => row'[i].vm_state # "soft-delete"
        /\ Soft(r)' \/ req'[r].kind = "soft" => row'[i].hosted /\ build'[i] = "over"
    BY <1>1, <1>9, <1>16, <2>2, <2>3 DEF Soft, Plain
  <2> QED  BY <2>1, <2>4 DEF Copies
<1>18. Hosted(i)' /\ Plain'
  <2>1. req[r].kind = "soft" => row[i].hosted
    BY <1>1 DEF LedgerOf, Copies
  <2> QED  BY <1>1, <1>9, <2>1 DEF LedgerOf, Hosted, Plain, Soft
<1>27. Goes(i)'
  <2> SUFFICES ASSUME NEW q \in Requests, req'[q].pc = "destroying",
                      req'[q].inst = i, Soft(q)'
               PROVE  vm = "deleted"
    BY DEF Goes
  <2>1. CASE q = r
    BY <1>1, <2>1
  <2>2. CASE q # r
    <3>1. /\ req[q].pc = "destroying" /\ req[q].inst = i /\ Soft(q)
          /\ PlaceFits(q)
      BY <1>1, <2>2 DEF Soft, Ledger
    <3>2. row[i].vm_state = "deleted" /\ Deferred
      BY <1>1, <3>1 DEF LedgerOf, Goes, Plain
    <3>3. vm # "soft-delete"
      BY <1>2, <2>2, <3>1, <3>2 DEF ComputeSide
    <3>4. req[r].pc # "shutdown" \/ Soft(r)
      <4> SUFFICES ASSUME req[r].pc = "shutdown", ~Soft(r) PROVE FALSE
        OBVIOUS
      <4>1. req[r].kind = "delete"
        BY <1>1, <1>8, <1>9, <3>2 DEF PlaceFits
      <4>2. req[q].kind \in {"delete", "reclaim"}
        BY <1>1, <3>1, <3>2 DEF PlaceFits, Plain, Guarded, HostInv, TypeOK,
                                RequestRecords
      <4>3. req[q].kind # "reclaim"
        <5>1. req[q].kind = "reclaim" => q = i /\ Reclaiming(i)
          BY <1>1, <3>1 DEF HostInv, KindsFit, PlaceFits, Reclaiming, ComputeSide
        <5> QED  BY <1>2, <2>2, <5>1
      <4>4. q \in ApiRequests /\ r \in ApiRequests
        BY <1>1, <4>1, <4>2, <4>3 DEF HostInv, KindsFit, ApiRequests
      <4> QED
        BY <1>1, <2>2, <3>1, <4>1, <4>2, <4>3, <4>4
        DEF LedgerOf, Exclusive, Locks, ComputeSide
    <3> QED  BY <3>2, <3>3, <3>4
  <2> QED  BY <2>1, <2>2
<1>19. ~(req[r].kind = "soft" /\ pc = "committing" /\ ~Soft(r)) => (Owed(i)' <=> Owed(i))
  <2>1. Live(i)' /\ row'[i].vm_state = vm
    BY DEF Live
  <2>2. CASE vm = row[i].vm_state /\ pc # "destroying"
    BY <1>16, <2>1, <2>2 DEF Owed
  <2>3. CASE req[r].pc \in {"local", "saving"}
    BY <1>32, <2>1, <2>3 DEF Owed
  <2>4. CASE req[r].pc = "shutdown"
    BY <1>10, <1>16, <2>1, <2>4 DEF Owed
  <2>5. CASE vm = "soft-delete" /\ Soft(r) /\ pc = "committing"
    BY <1>11, <1>16, <2>1, <2>5 DEF Owed
  <2> QED  BY <2>2, <2>3, <2>4, <2>5
<1>20. req[r].kind = "soft" /\ pc = "committing" /\ ~Soft(r) =>
          Owed(i) /\ ~Owed(i)' /\ (MaxCrashes = 0 => TakesOff(r)')
  <2>1. ~Soft(r) /\ req[r].kind = "soft" => ~SoftDestroys(i)
    BY <1>1, <1>2 DEF SoftDestroys, PlaceFits
  <2>2. req[r].pc = "cast" /\ ~Soft(r) /\ MaxCrashes = 0 => reservation[r] = -1
    BY <1>1 DEF LedgerOf, Decreases
  <2> QED  BY <1>10, <2>1, <2>2 DEF Owed, Live, TakesOff
<1>21. /\ Taken(i)' <=> TakesOff(r)'
       /\ Taken(i) => TakesOff(r)
       /\ ~TakesOff(r)
  BY <1>1, <1>12 DEF Taken, TakesOff
<1>22. /\ Counts(i)' => Counts(i)
       /\ MaxCrashes = 0 /\ Counts(i) => Counts(i)'
  BY <1>2, <1>6, <1>13, <1>19, <1>20, <1>21 DEF Counts
<1>23. (Lossy' <=> Lossy) /\ (Lossy' \/ MaxCrashes = 0)
  BY DeleteAssumption DEF Lossy
<1>24. /\ Ledger'
       /\ \A j \in Instances \ {i} : Counts(j)' <=> Counts(j)
  BY <1>1, <1>3, <1>4, <1>7, <1>14, <1>15, <1>17, <1>18, <1>27, <1>30, <1>31,
     LedgerKept DEF LedgerOf
<1>25. in_use \in Int
  BY DEF QuotaInv, HostInv, TypeOK, QuotasTypeOK
<1>26. Usage'
  BY <1>22, <1>23, <1>24, <1>25, UsageKept DEF QuotaInv
<1> QED  BY <1>24, <1>26

LEMMA DestroyStep ==
  ASSUME Guarded, QuotaInv, NEW r \in Requests, Live(req[r].inst),
         \/ LocalDestroy(r) \/ DestroyRow(r) \/ InitDestroy(r)
         \/ DestroyUnhosted(r) /\ ~row[req[r].inst].hosted
  PROVE  Ledger' /\ Usage'
<1>1. HostInv /\ req[r].pc \notin {"unused", "over"}
  BY DEF LocalDestroy, DestroyRow, InitDestroy, DestroyUnhosted, At, QuotaInv
<1>2. PICK i \in Instances : i = req[r].inst
  BY <1>1 DEF HostInv, Named
<1> USE <1>2 DEF At, host, compute, Destroying
<1>3. CASE LocalDestroy(r)
  BY <1>3, DestroyKeeps DEF LocalDestroy
<1>4. CASE DestroyRow(r)
  BY <1>4, DestroyKeeps DEF DestroyRow
<1>5. CASE InitDestroy(r)
  BY <1>5, DestroyKeeps DEF InitDestroy
<1>6. CASE DestroyUnhosted(r) /\ ~row[req[r].inst].hosted
  BY <1>6, DestroyKeeps DEF DestroyUnhosted
<1> QED  BY <1>3, <1>4, <1>5, <1>6

\* How the steps that save a row write it and go on.
LEMMA SaveWrites ==
  ASSUME TypeOK, NEW r \in Requests, NEW i \in Instances, req[r].inst = i,
         NEW pc, NEW x, NEW vm, NEW task, InUseStays(r, x),
         Saves(r, i, pc, x, vm, req[r].vm_state), Goto(r, pc), Save(i, vm, task),
         UNCHANGED <<build, restoring, up, listed, reclaiming>>
  PROVE  Writes(r, i, pc, x, vm, req[r].vm_state, task)
BY GotoFields, SaveFields DEF Writes, InUseStays, TypeOK, QuotasTypeOK

LEMMA SaveStep ==
  ASSUME Guarded, QuotaInv, HostInv', NEW r \in Requests, Live(req[r].inst),
         \/ DeleteSave(r) \/ LocalSave(r) \/ SaveDeleted(r)
         \/ DestroyUnhosted(r) /\ row[req[r].inst].hosted
         \/ /\ SoftDeleteInstance(r)
            /\ row[req[r].inst].task_state = "soft-deleting"
         \/ SoftDeleteFails(r)
         \/ ShutdownFails(r) /\ req[r].kind # "reclaim"
  PROVE  Ledger' /\ Usage'
<1>1. HostInv /\ req[r].pc \notin {"unused", "over"} /\ TypeOK /\ Usage
  BY DEF LocalSave, DeleteSave, SaveDeleted, DestroyUnhosted, SoftDeleteInstance,
         SoftDeleteFails, ShutdownFails, At, QuotaInv, HostInv
<1>2. PICK i \in Instances : i = req[r].inst
  BY <1>1 DEF HostInv, Named
<1>3. /\ row \in [Instances -> Rows] /\ req \in [Requests -> RequestRecords]
      /\ reservation \in [Requests -> Deltas]
  BY <1>1 DEF TypeOK, QuotasTypeOK
<1>4. UNCHANGED quotas => InUseStays(r, reservation[r])
  BY <1>1, QuotaFields
<1>5. Rollback(r) => InUseStays(r, 0)
  BY <1>1, QuotaFields
<1> USE <1>2 DEF At, host, compute, Saves
<1>6. CASE DeleteSave(r)
  <2> DEFINE task == IF req[r].kind = "soft" THEN "soft-deleting" ELSE "deleting"
  <2>1. Saves(r, i, "reserve", reservation[r], row[i].vm_state, row[i].vm_state)
    BY <1>6 DEF DeleteSave
  <2>2. /\ row' = [row EXCEPT ![i].task_state = task]
        /\ req' = [req EXCEPT ![r].pc = "reserve",
                              ![r].vm_state = row[i].vm_state,
                              ![r].hosted = row[i].hosted]
        /\ InUseStays(r, reservation[r])
        /\ UNCHANGED <<build, restoring, up, listed, reclaiming>>
    BY <1>4, <1>6 DEF DeleteSave
  <2>3. \A q \in Requests :
         /\ req'[q].kind = req[q].kind /\ req'[q].inst = req[q].inst
         /\ req'[q].vm_state = IF q = r THEN row[i].vm_state ELSE req[q].vm_state
         /\ req'[q].pc = IF q = r THEN "reserve" ELSE req[q].pc
    BY <1>3, <2>2 DEF RequestRecords
  <2>4. \A j \in Instances :
         /\ row'[j].hosted = row[j].hosted /\ row'[j].launched = row[j].launched
         /\ row'[j].stage = row[j].stage
         /\ row'[j].vm_state = IF j = i THEN row[i].vm_state ELSE row[j].vm_state
         /\ row'[j].task_state = IF j = i THEN task ELSE row[j].task_state
    BY <1>3, <2>2 DEF Rows
  <2>5. Writes(r, i, "reserve", reservation[r], row[i].vm_state, row[i].vm_state, task)
    BY <1>3, <2>1, <2>2, <2>3, <2>4 DEF Writes, InUseStays
  <2> QED  BY <2>5, SaveKeeps
<1>7. CASE DestroyUnhosted(r) /\ row[req[r].inst].hosted
  <2>1. Saves(r, i, "decide", reservation[r], row[i].vm_state, row[i].vm_state)
    BY <1>7 DEF DestroyUnhosted
  <2>2. /\ UNCHANGED row
        /\ req' = [req EXCEPT ![r].hosted = TRUE,
                              ![r].vm_state = row[i].vm_state]
        /\ InUseStays(r, reservation[r]) /\ req[r].pc = "decide"
        /\ UNCHANGED <<build, restoring, up, listed, reclaiming>>
    BY <1>4, <1>7 DEF DestroyUnhosted
  <2>3. \A q \in Requests :
         /\ req'[q].kind = req[q].kind /\ req'[q].inst = req[q].inst
         /\ req'[q].vm_state = IF q = r THEN row[i].vm_state ELSE req[q].vm_state
         /\ req'[q].pc = IF q = r THEN "decide" ELSE req[q].pc
    BY <1>3, <2>2 DEF RequestRecords
  <2>4. Writes(r, i, "decide", reservation[r], row[i].vm_state, row[i].vm_state,
               row[i].task_state)
    BY <1>3, <2>1, <2>2, <2>3 DEF Writes, InUseStays
  <2> QED  BY <2>4, SaveKeeps
<1>8. CASE LocalSave(r)
  <2>1. CASE req[r].kind # "soft"
    <3>1. Writes(r, i, "local-destroy", reservation[r], "deleted",
                 req[r].vm_state, "none")
      BY <1>1, <1>4, <1>8, <2>1, SaveWrites DEF LocalSave
    <3> QED  BY <3>1, SaveKeeps
  <2>2. CASE req[r].kind = "soft"
    <3>1. PlaceFits(r) /\ Plain
      BY DEF QuotaInv, Ledger
    <3> QED  BY <1>8, <2>2, <3>1 DEF Plain, LocalSave
  <2> QED  BY <2>1, <2>2
<1>9. CASE SaveDeleted(r)
  <2>1. Writes(r, i, "destroying", reservation[r], "deleted", req[r].vm_state, "none")
    BY <1>1, <1>4, <1>9, SaveWrites DEF SaveDeleted
  <2> QED  BY <2>1, SaveKeeps
<1>10. CASE SoftDeleteInstance(r) /\ row[req[r].inst].task_state = "soft-deleting"
  <2>1. Writes(r, i, "committing", reservation[r], "soft-delete", req[r].vm_state,
               "none")
    BY <1>1, <1>4, <1>10, SaveWrites DEF SoftDeleteInstance
  <2> QED  BY <2>1, SaveKeeps
<1>11. CASE SoftDeleteFails(r)
  <2>1. Writes(r, i, "over", 0, row[i].vm_state, req[r].vm_state, "none")
    BY <1>1, <1>5, <1>11, SaveWrites DEF SoftDeleteFails
  <2> QED  BY <2>1, SaveKeeps
<1>12. CASE ShutdownFails(r) /\ req[r].kind # "reclaim"
  <2> DEFINE task == IF req[r].kind = "delete" THEN "none" ELSE row[i].task_state
  <2>1. ~Soft(r)
    <3>1. LedgerOf(i) /\ Plain /\ PlaceFits(r) /\ KindsFit
      BY <1>1 DEF QuotaInv, Ledger, HostInv
    <3>2. ASSUME Soft(r) PROVE Deferred /\ req[r].kind = "delete"
      BY <1>3, <1>12, <3>1, <3>2 DEF Plain, PlaceFits, ShutdownFails, Guarded,
           RequestRecords
    <3> QED  BY <1>12, <3>2 DEF ShutdownFails, Soft, Guarded
  <2>2. Writes(r, i, "over", 0, "error", req[r].vm_state, task)
    BY <1>1, <1>5, <1>12, <2>1, SaveWrites DEF ShutdownFails
  <2> QED  BY <2>2, SaveKeeps
<1> QED  BY <1>6, <1>7, <1>8, <1>9, <1>10, <1>11, <1>12

\* The commit of a deletion: it was reserved once, for an instance that went.
LEMMA DeletionCommits ==
  ASSUME Guarded, QuotaInv, HostInv', NEW r \in Requests,
         DeleteCommit(r) \/ CompleteDeletion(r)
  PROVE  Ledger' /\ Usage'
<1>1. /\ req[r].pc \in {"commit", "committing"} /\ Commit(r) /\ Goto(r, "over")
      /\ UNCHANGED <<row, build, restoring, up, listed, reclaiming>>
  BY DEF DeleteCommit, CompleteDeletion, At, host, compute
<1>2. /\ HostInv /\ Ledger /\ Usage /\ TypeOK /\ Plain /\ KindsFit
      /\ reservation[r] \in {-1, 0, 1} /\ req[r].inst \in Instances
  BY <1>1 DEF QuotaInv, Ledger, HostInv, Named, TypeOK, QuotasTypeOK, Deltas
<1>3. PICK i \in Instances : i = req[r].inst
  BY <1>2
<1>4. LedgerOf(i) /\ PlaceFits(r) /\ req[r].kind \in Kinds
  BY <1>2, <1>3 DEF Ledger, HostInv, TypeOK, RequestRecords, Kinds
<1>5. reservation[r] # 1 /\ req[r].kind \notin {"none", "create", "restore"}
  BY <1>1, <1>3, <1>4 DEF LedgerOf, Grants, PlaceFits
<1>6. CASE reservation[r] = 0
  BY <1>6, ApiSilent, HandlerSilent
<1>7. CASE reservation[r] = -1
  <2>1. Silent(r, "over", 0) /\ 0 \in Deltas
    BY <1>1, <1>2 DEF Silent, Silently, Commit, Deltas
  <2>2. Ledger' /\ \A j \in Instances \ {i} : Counts(j)' <=> Counts(j)
    BY <1>2, <1>3, <2>1, SilentKeeps
  <2>3. Counts(i)
    BY <1>1, <1>3, <1>7 DEF Counts, Taken, TakesOff
  <2>4. \A q \in Requests :
        /\ req'[q].kind = req[q].kind /\ req'[q].inst = req[q].inst
        /\ req'[q].vm_state = req[q].vm_state
        /\ req'[q].pc = IF q = r THEN "over" ELSE req[q].pc
        /\ reservation'[q] = IF q = r THEN 0 ELSE reservation[q]
    BY <1>1, <1>2, GotoFields DEF Commit, TypeOK, QuotasTypeOK
  <2>5. ~Counts(i)'
    <3>1. ~Returning(i)'
      BY <1>1, <1>2, <1>3, <1>5, <2>4, NoIncrease DEF Returning
    <3>2. ~Taken(i)'
      BY <1>1, <1>3, <1>4, <1>7, <2>4 DEF LedgerOf, TakenOnce, Taken, TakesOff
    <3>3. ~Owed(i)'
      BY <1>1, <1>3, <1>4 DEF LedgerOf, Decreases, Owed, Live
    <3> QED  BY <3>1, <3>2, <3>3 DEF Counts
  <2>6. in_use' = in_use - 1 /\ reserved' = reserved
    BY <1>1, <1>2, <1>7 DEF Commit, Held, TypeOK, QuotasTypeOK
  <2>7. Lossy => Lossy'
    BY <1>1 DEF Lossy
  <2> QED  BY <1>2, <2>2, <2>3, <2>5, <2>6, <2>7, UsageDown
<1> QED  BY <1>2, <1>5, <1>6, <1>7

\* A request that creates: where it goes, what becomes of its reservation, and
\* of the row and the build.
Creates(r, i) ==
    \/ /\ req[r].pc = "row" /\ req'[r].pc = "made"
       /\ reservation'[r] = reservation[r]
       /\ row'[i].stage = "live" /\ row'[i].vm_state = "building"
       /\ build'[i] = build[i]
    \/ /\ req[r].pc \in {"row", "made"} /\ req'[r].pc = "undo"
       /\ reservation'[r] = reservation[r]
       /\ row'[i].stage # "live" /\ row'[i].vm_state = row[i].vm_state
       /\ build'[i] = build[i]
    \/ /\ req[r].pc = "made" /\ req'[r].pc = "over" /\ reservation'[r] = 0
       /\ row'[i].stage = row[i].stage /\ row'[i].vm_state = row[i].vm_state

\* It leaves the rest alone.
Alone(r, i) ==
    /\ \A q \in Requests :
         /\ req'[q].kind = req[q].kind /\ req'[q].inst = req[q].inst
         /\ req'[q].vm_state = req[q].vm_state
    /\ \A q \in Requests \ {r} :
         /\ req'[q].pc = req[q].pc /\ reservation'[q] = reservation[q]
         /\ restoring'[q] = restoring[q]
    /\ \A j \in Instances \ {i} : row'[j] = row[j] /\ build'[j] = build[j]
    /\ row'[i].hosted = row[i].hosted /\ row'[i].launched = row[i].launched
    /\ UNCHANGED <<up, listed, reclaiming, expiring>>

\* A creation: the instance counts from the commit on.
LEMMA CreateKeeps ==
  ASSUME Guarded, QuotaInv, HostInv', NEW r \in Requests, NEW i \in Instances,
         req[r].inst = i, Creates(r, i), Alone(r, i),
         restoring'[r] = restoring[r]
  PROVE  /\ Ledger'
         /\ \A j \in Instances \ {i} : Counts(j)' <=> Counts(j)
         /\ ~Counts(i)
         /\ Lossy => Lossy'
         /\ reservation[r] = 1
         /\ Counts(i)' <=> req'[r].pc = "over"
<1> USE DEF Creates, Alone
<1>1. /\ HostInv /\ Ledger /\ LedgerOf(i) /\ PlaceFits(r) /\ Plain /\ KindsFit
      /\ CreatedOnce /\ BuildFits /\ i \in Requests
      /\ req[r].pc \in {"row", "made"} /\ req[r].kind = "create"
  BY DeleteAssumption DEF QuotaInv, HostInv, Ledger, KindsFit
<1>2. /\ \A q \in Requests : req[q].inst = i => q = r
      /\ reservation[r] = 1 /\ build[i] = "none"
      /\ req[r].pc = "made" => Live(i) /\ row[i].vm_state # "soft-delete"
  BY <1>1 DEF LedgerOf, Grants
<1>3. restoring[r] = "none"
  BY <1>1 DEF HostInv, TypeOK, KindsFit
<1>4. ~Soft(r) /\ row[i].vm_state # "soft-delete"
  <2>1. ~Soft(r)
    BY <1>1, <1>2 DEF LedgerOf, Copies
  <2>2. row[i].vm_state # "soft-delete"
    BY <1>1, <1>2 DEF BuildFits
  <2> QED  BY <2>1, <2>2
<1>5. /\ i \notin reclaiming /\ ~Reclaiming(i) /\ ~Reclaiming(i)'
      /\ i # r
  <2>1. r \in ApiRequests /\ ~Ended(r) /\ i # r
    BY <1>1 DEF KindsFit, ApiRequests, Ended
  <2>2. ~BeingReclaimed(i)
    BY <1>1, <2>1 DEF LedgerOf, Exclusive
  <2> QED  BY <1>1, <2>1, <2>2 DEF BeingReclaimed, Reclaiming
<1>6. \A q \in Requests : PlaceFits(q)'
  BY <1>1 DEF Ledger, PlaceFits
<1>7. Others(i)
  BY DEF Others
<1>8. \A q \in Requests : req'[q].inst = i => q = r
  BY <1>2
<1>9. Grants(i)'
  BY <1>1, <1>2, <1>3, <1>4, <1>8 DEF Grants, Live
<1>10. Decreases(i)'
  BY <1>1, <1>4, <1>8 DEF Decreases, Soft, ComputeSide
<1>11. TakenOnce(i)'
  BY <1>8 DEF TakenOnce
<1>12. Exclusive(i)'
  <2>1. ~BeingReclaimed(i)'
    BY <1>5 DEF BeingReclaimed
  <2> QED  BY <1>8, <2>1 DEF Exclusive, ApiRequests
<1>13. Reclaims(i)'
  BY <1>5 DEF Reclaims
<1>14. Copies(i)'
  BY <1>1, <1>4, <1>8 DEF Copies, Soft
<1>15. Hosted(i)' /\ Plain'
  BY <1>1, <1>4 DEF LedgerOf, Hosted, Plain, Soft
<1>20. Goes(i)'
  BY <1>1, <1>8 DEF Goes
<1>16. ~Counts(i)
  <2>1. Granting(i) /\ ~Taken(i)
    BY <1>1, <1>2 DEF Granting, Taken, TakesOff
  <2> QED  BY <2>1 DEF Counts
<1>17. Counts(i)' <=> req'[r].pc = "over"
  <2>1. ~Taken(i)' /\ ~Returning(i)'
    BY <1>1, <1>3, <1>8 DEF Taken, TakesOff, Returning
  <2>2. Granting(i)' <=> req'[r].pc # "over"
    BY <1>2, <1>8 DEF Granting
  <2>3. req'[r].pc = "over" => Owed(i)'
    BY <1>2, <1>4, <1>8 DEF Owed, Live, SoftDestroys
  <2> QED  BY <2>1, <2>2, <2>3 DEF Counts
<1>18. Lossy => Lossy'
  <2>1. \A q \in Requests : restoring'[q] = restoring[q]
    OBVIOUS
  <2> QED  BY <2>1 DEF Lossy
<1>19. /\ Ledger'
       /\ \A j \in Instances \ {i} : Counts(j)' <=> Counts(j)
  BY <1>1, <1>6, <1>7, <1>9, <1>10, <1>11, <1>12, <1>13, <1>14, <1>15,
     <1>20, LedgerKept
  DEF LedgerOf
<1> QED  BY <1>2, <1>16, <1>17, <1>18, <1>19

LEMMA CreateSteps ==
  ASSUME Guarded, QuotaInv, HostInv', NEW r \in Requests,
         CreateRow(r) \/ CreateFails(r) \/ CreateCommit(r)
  PROVE  Ledger' /\ Usage'
<1>1. /\ HostInv /\ TypeOK /\ Usage /\ BuildFits /\ CreatedOnce
      /\ req[r].pc \in {"row", "made"}
      /\ row \in [Instances -> Rows] /\ build \in [Instances -> {"none", "queued", "over"} \cup Building]
      /\ reservation \in [Requests -> Deltas] /\ in_use \in Int /\ reserved \in Int
  BY DEF CreateRow, CreateFails, CreateCommit, At, QuotaInv, HostInv, TypeOK,
         QuotasTypeOK
<1>2. PICK i \in Instances : i = req[r].inst
  BY <1>1 DEF HostInv, Named
<1> USE <1>2 DEF At, host, compute
<1>3. CASE CreateRow(r)
  <2>1. build[i] = "none" /\ ~row[i].hosted /\ ~row[i].launched
    BY <1>1, <1>3 DEF CreatedOnce, BuildFits, CreateRow
  <2>2. row' = [row EXCEPT ![i] = [NoRow EXCEPT !.stage = "live", !.task_state = "scheduling"]]
    BY <1>3 DEF CreateRow
  <2>3. /\ row'[i].stage = "live" /\ row'[i].vm_state = "building"
        /\ row'[i].hosted = FALSE /\ row'[i].launched = FALSE
        /\ \A j \in Instances \ {i} : row'[j] = row[j]
    BY <1>1, <2>2 DEF NoRow
  <2>4. /\ \A q \in Requests :
           /\ req'[q].kind = req[q].kind /\ req'[q].inst = req[q].inst
           /\ req'[q].vm_state = req[q].vm_state
           /\ req'[q].pc = IF q = r THEN "made" ELSE req[q].pc
        /\ UNCHANGED <<quotas, build, restoring, up, listed, reclaiming, expiring>>
        /\ req[r].pc = "row"
    BY <1>1, <1>3, GotoFields DEF CreateRow, quotas
  <2>5. Creates(r, i)
    BY <2>3, <2>4 DEF Creates, quotas
  <2>6. Alone(r, i)
    <3>1. row'[i].hosted = row[i].hosted /\ row'[i].launched = row[i].launched
      BY <1>1, <2>1, <2>3 DEF Rows
    <3> QED  BY <2>3, <2>4, <3>1 DEF Alone, quotas
  <2>7. /\ Ledger'
        /\ \A j \in Instances \ {i} : Counts(j)' <=> Counts(j)
        /\ ~Counts(i) /\ (Lossy => Lossy') /\ ~Counts(i)'
    BY <2>4, <2>5, <2>6, CreateKeeps
  <2> QED  BY <1>1, <2>4, <2>7, UsageKept DEF quotas, Usage, Lossy
<1>4. CASE CreateFails(r)
  <2>1. /\ row'[i].stage # "live" /\ row'[i].vm_state = row[i].vm_state
        /\ row'[i].hosted = row[i].hosted /\ row'[i].launched = row[i].launched
        /\ \A j \in Instances \ {i} : row'[j] = row[j]
    <3>1. CASE Live(i)
      <4>1. row' = [row EXCEPT ![i].stage = "deleted"]
        BY <1>4, <3>1 DEF CreateFails, Destroyed
      <4> QED  BY <1>1, <4>1 DEF Rows
    <3>2. CASE ~Live(i)
      BY <1>4, <3>2 DEF CreateFails, Live
    <3> QED  BY <3>1, <3>2
  <2>2. /\ \A q \in Requests :
           /\ req'[q].kind = req[q].kind /\ req'[q].inst = req[q].inst
           /\ req'[q].vm_state = req[q].vm_state
           /\ req'[q].pc = IF q = r THEN "undo" ELSE req[q].pc
        /\ UNCHANGED <<quotas, build, restoring, up, listed, reclaiming, expiring>>
    BY <1>1, <1>4, GotoFields DEF CreateFails, quotas
  <2>3. Creates(r, i) /\ Alone(r, i)
    BY <1>1, <2>1, <2>2 DEF Creates, Alone, quotas
  <2>4. /\ Ledger'
        /\ \A j \in Instances \ {i} : Counts(j)' <=> Counts(j)
        /\ ~Counts(i) /\ (Lossy => Lossy') /\ ~Counts(i)'
    BY <2>2, <2>3, CreateKeeps
  <2> QED  BY <1>1, <2>2, <2>4, UsageKept DEF quotas, Usage, Lossy
<1>5. CASE CreateCommit(r)
  <2>1. /\ UNCHANGED <<row, restoring, up, listed, reclaiming, expiring>>
        /\ reservation' = [reservation EXCEPT ![r] = 0]
        /\ build' = [build EXCEPT ![i] = "queued"]
        /\ Goto(r, "over") /\ req[r].pc = "made"
    BY <1>5 DEF CreateCommit, Commit
  <2>2. \A q \in Requests :
           /\ req'[q].kind = req[q].kind /\ req'[q].inst = req[q].inst
           /\ req'[q].vm_state = req[q].vm_state
           /\ req'[q].pc = IF q = r THEN "over" ELSE req[q].pc
           /\ reservation'[q] = IF q = r THEN 0 ELSE reservation[q]
    BY <1>1, <2>1, GotoFields
  <2>3. Creates(r, i) /\ Alone(r, i)
    BY <1>1, <2>1, <2>2 DEF Creates, Alone
  <2>4. /\ Ledger'
        /\ \A j \in Instances \ {i} : Counts(j)' <=> Counts(j)
        /\ ~Counts(i) /\ (Lossy => Lossy') /\ Counts(i)'
        /\ reservation[r] = 1
    BY <2>1, <2>2, <2>3, CreateKeeps
  <2>5. in_use' = in_use + 1 /\ reserved' = reserved - 1
    BY <1>5, <2>4 DEF CreateCommit, Commit, Held
  <2> QED  BY <1>1, <2>4, <2>5, UsageUp
<1> QED  BY <1>1, <1>3, <1>4, <1>5

\* A restore that is not over is alone with its instance.
LEMMA RestoreAlone ==
  ASSUME Guarded, HostInv, Ledger, NEW r \in Requests, NEW i \in Instances,
         req[r].inst = i, req[r].kind = "restore", ~Ended(r)
  PROVE  /\ \A q \in Requests \ {r} :
               req[q].inst = i => req[q].pc \in {"over", "dead"} /\ restoring[q] # "queued"
         /\ i \notin reclaiming /\ ~Reclaiming(i)
         /\ r \in ApiRequests /\ Deferred /\ MaxCrashes = 0
         /\ row[i].hosted \/ row[i].vm_state # "soft-delete"
<1>1. LedgerOf(i) /\ Plain /\ KindsFit /\ r \in ApiRequests /\ r # i
  BY DEF Ledger, HostInv, KindsFit, ApiRequests
<1>2. Deferred /\ MaxCrashes = 0
  BY <1>1 DEF Plain, Guarded
<1>3. ~BeingReclaimed(i)
  BY <1>1 DEF LedgerOf, Exclusive
<1>4. ASSUME NEW q \in Requests \ {r}, req[q].inst = i
      PROVE  req[q].pc \in {"over", "dead"} /\ restoring[q] # "queued"
  <2>1. CASE q \in ApiRequests
    BY <1>1, <1>4, <2>1 DEF LedgerOf, Exclusive, Ended
  <2>2. CASE q \in Instances
    <3>1. q = i /\ req[q].kind = "reclaim" /\ PlaceFits(q)
      BY <1>1, <1>2, <1>4, <2>2, DeleteAssumption
      DEF Ledger, PlaceFits, KindsFit, Plain
    <3> QED  BY <1>1, <1>3, <3>1 DEF PlaceFits, BeingReclaimed, Reclaiming, KindsFit,
                                     ComputeSide
  <2> QED  BY <2>1, <2>2 DEF ApiRequests
<1> QED  BY <1>1, <1>2, <1>3, <1>4 DEF BeingReclaimed, LedgerOf, Hosted

\* A restore: where it goes, what becomes of its reservation and of its cast,
\* and what it writes.
Restores(r, i) ==
    \/ /\ req[r].pc = "restore-save" /\ req'[r].pc = "restore-commit"
       /\ reservation'[r] = reservation[r] /\ restoring'[r] = "queued"
       /\ row'[i].vm_state = row[i].vm_state
    \/ /\ restoring[r] = "queued" /\ req'[r].pc = req[r].pc
       /\ reservation'[r] = reservation[r]
       /\ \/ restoring'[r] = "none" /\ row'[i].vm_state = "active" /\ Live(i)
          \/ restoring'[r] = "failed" /\ row'[i].vm_state = row[i].vm_state
    \/ /\ req[r].pc = "restore-commit" /\ req'[r].pc = "over"
       /\ reservation'[r] = 0 /\ restoring'[r] = restoring[r]
       /\ row'[i].vm_state = row[i].vm_state

\* A restore: the instance counts from the commit on, wherever its cast is.
LEMMA RestoreKeeps ==
  ASSUME Guarded, QuotaInv, HostInv', NEW r \in Requests, NEW i \in Instances,
         req[r].inst = i, Restores(r, i), Alone(r, i),
         row'[i].stage = row[i].stage, UNCHANGED build
  PROVE  /\ Ledger'
         /\ \A j \in Instances \ {i} : Counts(j)' <=> Counts(j)
         /\ Lossy => Lossy'
         /\ reservation'[r] = reservation[r] => (Counts(i)' => Counts(i))
                                    /\ (Lossy' \/ (Counts(i) => Counts(i)'))
         /\ reservation'[r] # reservation[r] => reservation[r] = 1 /\ req'[r].pc = "over" /\ ~Counts(i)
                                    /\ (Lossy' \/ Counts(i)')
<1> USE DEF Restores, Alone
<1>1. /\ HostInv /\ Ledger /\ LedgerOf(i) /\ PlaceFits(r) /\ Plain /\ KindsFit
      /\ i \in Requests /\ req[r].kind = "restore" /\ ~Ended(r)
      /\ req[r].pc \in {"restore-save", "restore-commit", "over"}
  <2>1. /\ HostInv /\ Ledger /\ LedgerOf(i) /\ PlaceFits(r) /\ Plain /\ KindsFit
        /\ i \in Requests /\ req[r].kind \in Kinds
    BY DeleteAssumption DEF QuotaInv, HostInv, Ledger, TypeOK, RequestRecords, Kinds
  <2>2. req[r].kind = "restore"
    BY <2>1 DEF KindsFit, PlaceFits, Kinds
  <2> QED  BY <2>1, <2>2 DEF PlaceFits, Ended
<1>2. /\ \A q \in Requests \ {r} :
            req[q].inst = i => req[q].pc \in {"over", "dead"} /\ restoring[q] # "queued"
      /\ i \notin reclaiming /\ ~Reclaiming(i) /\ r # i
      /\ r \in ApiRequests /\ Deferred /\ MaxCrashes = 0
  BY <1>1, RestoreAlone DEF ApiRequests
<1>3. /\ (reservation[r] = 1) <=> (req[r].pc \in {"restore-save", "restore-commit"})
      /\ req[r].pc = "restore-save" =>
            /\ Live(i) /\ row[i].vm_state = "soft-delete" /\ restoring[r] = "none"
      /\ req[r].pc = "restore-commit" /\ restoring[r] = "none" =>
            Live(i) /\ row[i].vm_state # "soft-delete"
  BY <1>1 DEF LedgerOf, Grants
<1>4. \A q \in Requests \ {r} : req[q].inst = i => reservation[q] # 1
  BY <1>1, <1>2 DEF LedgerOf, Grants
<1>5. \A q \in Requests : PlaceFits(q)'
  BY <1>1 DEF Ledger, PlaceFits
<1>6. Others(i)
  BY DEF Others
<1>7. ~Reclaiming(i)' /\ ~BeingReclaimed(i)'
  BY <1>1, <1>2 DEF Reclaiming, BeingReclaimed
<1>8. Grants(i)'
  <2>1. \A q \in Requests \ {r} : req'[q].inst = i =>
          /\ req'[q].pc \in {"over", "dead"} /\ reservation'[q] # 1
          /\ req'[q].kind = "create" => req'[q].pc = "over"
    BY <1>1, <1>2, <1>4 DEF Ledger, PlaceFits
  <2>2. /\ req'[r].kind = "restore"
        /\ \/ req'[r].pc = "restore-commit" /\ reservation'[r] = 1
           \/ req'[r].pc = "over" /\ reservation'[r] # 1
    BY <1>1, <1>3
  <2>3. req'[r].pc = "restore-commit" /\ restoring'[r] = "none" =>
            row'[i].stage = "live" /\ row'[i].vm_state # "soft-delete"
    BY <1>3 DEF Live
  <2>4. ASSUME NEW q \in Requests, req'[q].inst = i
        PROVE
      /\ reservation'[q] = 1 <=>
            \/ req'[q].pc \in {"row", "made", "restore-save", "restore-commit"}
            \/ req'[q].pc = "undo" /\ req'[q].kind = "create"
      /\ req'[q].kind = "create" => req'[q].pc = "over"
      /\ req'[q].pc # "restore-save"
      /\ req'[q].pc = "restore-commit" /\ restoring'[q] = "none" =>
            row'[i].stage = "live" /\ row'[i].vm_state # "soft-delete"
    <3>1. CASE q = r
      BY <2>2, <2>3, <3>1
    <3>2. CASE q # r
      BY <2>1, <2>4, <3>2
    <3> QED  BY <3>1, <3>2
  <2> QED  BY <2>4 DEF Grants, Live
<1>9. Decreases(i)'
  BY <1>1, <1>2 DEF Decreases, Soft, ComputeSide
<1>10. TakenOnce(i)' /\ ~Taken(i) /\ ~Taken(i)'
  BY <1>1, <1>2 DEF TakenOnce, Taken, TakesOff
<1>11. Exclusive(i)'
  <2>1. \A q \in ApiRequests \ {r} : req[q].inst = i => Ended(q)'
    BY <1>2 DEF Ended, ApiRequests
  <2>2. \A q \in ApiRequests : req[q].inst = i => ~Locks(q)'
    BY <1>1, <1>2 DEF Locks, ApiRequests, ComputeSide
  <2>3. \A q \in ApiRequests : req'[q].inst = req[q].inst
    BY DEF ApiRequests
  <2> QED  BY <1>7, <2>1, <2>2, <2>3 DEF Exclusive
<1>12. Reclaims(i)'
  BY <1>2, <1>7 DEF Reclaims
<1>13. Copies(i)'
  <2>1. \A q \in Requests : req[q].inst = i /\ (Soft(q) \/ req[q].kind = "soft") =>
                                  row[i].hosted /\ build[i] = "over"
    BY <1>1 DEF LedgerOf, Copies
  <2> QED  BY <1>1, <1>2, <2>1 DEF Copies, Soft
<1>14. Hosted(i)' /\ Plain'
  BY <1>1, <1>2 DEF LedgerOf, Hosted, Plain, Soft
<1>34. Goes(i)'
  BY <1>1, <1>2 DEF Goes
<1>15. ~SoftDestroys(i) /\ ~SoftDestroys(i)'
  BY <1>1, <1>2 DEF SoftDestroys
<1>16. /\ Granting(i) <=> req[r].pc \in {"restore-save", "restore-commit"}
       /\ Granting(i)' <=> req'[r].pc \in {"restore-save", "restore-commit"}
  BY <1>1, <1>3, <1>4 DEF Granting
<1>17. /\ Returning(i) <=> restoring[r] = "queued"
       /\ Returning(i)' <=> restoring'[r] = "queued"
  BY <1>1, <1>2 DEF Returning
<1>18. /\ Owed(i) <=> Live(i) /\ row[i].vm_state # "soft-delete"
       /\ Owed(i)' <=> Live(i) /\ row'[i].vm_state # "soft-delete"
  BY <1>15 DEF Owed, Live
<1>19. Lossy => Lossy'
  <2> SUFFICES ASSUME NEW q \in Requests, restoring[q] = "failed" PROVE Lossy'
    BY DEF Lossy
  <2>1. restoring'[q] = "failed"
    BY <1>3
  <2> QED  BY <2>1 DEF Lossy
<1>20. restoring'[r] = "failed" => Lossy'
  BY DEF Lossy
<1>21. restoring'[r] \in {"none", "queued", "failed"}
  BY DEF QuotaInv, HostInv, TypeOK
<1>22. reservation'[r] = reservation[r] => (Counts(i)' => Counts(i))
                               /\ (Lossy' \/ (Counts(i) => Counts(i)'))
  BY <1>1, <1>3, <1>10, <1>16, <1>17, <1>18, <1>20 DEF Counts
<1>23. reservation'[r] # reservation[r] => reservation[r] = 1 /\ req'[r].pc = "over" /\ ~Counts(i)
                               /\ (Lossy' \/ Counts(i)')
  BY <1>1, <1>3, <1>10, <1>16, <1>17, <1>18, <1>20, <1>21 DEF Counts
<1>24. /\ Ledger'
       /\ \A j \in Instances \ {i} : Counts(j)' <=> Counts(j)
  BY <1>1, <1>5, <1>6, <1>8, <1>9, <1>10, <1>11, <1>12, <1>13, <1>14,
     <1>34, LedgerKept
  DEF LedgerOf
<1> QED  BY <1>19, <1>22, <1>23, <1>24

\* What commits nothing in a restore keeps the usage.
LEMMA RestoreStays ==
  ASSUME Guarded, QuotaInv, HostInv', NEW r \in Requests, NEW i \in Instances,
         req[r].inst = i, Restores(r, i), Alone(r, i),
         row'[i].stage = row[i].stage, UNCHANGED <<build, quotas>>
  PROVE  Ledger' /\ Usage'
<1>1. reservation'[r] = reservation[r] /\ in_use' = in_use /\ reserved' = reserved
  BY DEF quotas
<1>2. Usage /\ in_use \in Int
  BY DEF QuotaInv, HostInv, TypeOK, QuotasTypeOK
<1>3. /\ Ledger'
      /\ \A j \in Instances \ {i} : Counts(j)' <=> Counts(j)
      /\ Lossy => Lossy'
      /\ Counts(i)' => Counts(i)
      /\ Lossy' \/ (Counts(i) => Counts(i)')
  BY <1>1, RestoreKeeps
<1> QED  BY <1>1, <1>2, <1>3, UsageKept DEF Usage

LEMMA RestoreSteps ==
  ASSUME Guarded, QuotaInv, HostInv', NEW r \in Requests,
         RestoreSave(r) \/ RestoreCommit(r) \/ RestoreInstance(r) \/ RestoreFails(r)
  PROVE  Ledger' /\ Usage'
<1>1. /\ HostInv /\ Ledger /\ TypeOK /\ Usage /\ Named /\ KindsFit
      /\ row \in [Instances -> Rows] /\ restoring \in [Requests -> {"none", "queued", "failed"}]
      /\ req \in [Requests -> RequestRecords]
      /\ reservation \in [Requests -> Deltas] /\ in_use \in Int /\ reserved \in Int
  BY DEF QuotaInv, HostInv, TypeOK, QuotasTypeOK
<1>2. req[r].inst \in Instances
  <2>1. CASE RestoreSave(r) \/ RestoreCommit(r)
    BY <1>1, <2>1 DEF RestoreSave, RestoreCommit, At, Named
  <2>2. CASE RestoreInstance(r) \/ RestoreFails(r)
    <3>1. req[r].kind = "restore"
      BY <1>1, <2>2 DEF RestoreInstance, RestoreFails, KindsFit
    <3> QED  BY <1>1, <3>1 DEF Ledger, PlaceFits, RequestRecords
  <2> QED  BY <2>1, <2>2
<1>3. PICK i \in Instances : i = req[r].inst
  BY <1>2
<1> USE <1>3 DEF At, host, compute
<1>4. \A pc : Goto(r, pc) =>
        \A q \in Requests :
           /\ req'[q].kind = req[q].kind /\ req'[q].inst = req[q].inst
           /\ req'[q].vm_state = req[q].vm_state
           /\ req'[q].pc = IF q = r THEN pc ELSE req[q].pc
  BY <1>1, GotoFields
<1>5. \A vm, task : Save(i, vm, task) =>
        /\ \A j \in Instances \ {i} : row'[j] = row[j]
        /\ row'[i].hosted = row[i].hosted /\ row'[i].launched = row[i].launched
        /\ row'[i].stage = row[i].stage /\ row'[i].vm_state = vm
  BY <1>1 DEF Save, Rows
<1>6. CASE RestoreSave(r)
  <2>1. Live(i) /\ row[i].task_state = "none"
    BY <1>1, <1>6 DEF RestoreSave, Ledger, LedgerOf, Grants
  <2>2. /\ row' = [row EXCEPT ![i].task_state = "restoring"]
        /\ restoring' = [restoring EXCEPT ![r] = "queued"]
        /\ Goto(r, "restore-commit") /\ req[r].pc = "restore-save"
        /\ UNCHANGED <<quotas, build, up, listed, reclaiming, expiring>>
    BY <1>6, <2>1 DEF RestoreSave, quotas
  <2>3. /\ \A j \in Instances \ {i} : row'[j] = row[j]
        /\ row'[i].hosted = row[i].hosted /\ row'[i].launched = row[i].launched
        /\ row'[i].stage = row[i].stage /\ row'[i].vm_state = row[i].vm_state
    BY <1>1, <2>2 DEF Rows
  <2>4. /\ restoring'[r] = "queued"
        /\ \A q \in Requests \ {r} : restoring'[q] = restoring[q]
    BY <1>1, <2>2
  <2>5. Restores(r, i) /\ Alone(r, i)
    BY <1>4, <2>2, <2>3, <2>4 DEF Restores, Alone, quotas
  <2> QED  BY <2>2, <2>3, <2>5, RestoreStays
<1>7. CASE RestoreInstance(r)
  <2>1. UNCHANGED <<quotas, req, build, up, listed, reclaiming, expiring>>
    BY <1>7 DEF RestoreInstance, quotas
  <2>2. CASE Live(i) /\ row[i].task_state = "restoring"
    <3>1. Save(i, "active", "none") /\ restoring' = [restoring EXCEPT ![r] = "none"]
      BY <1>7, <2>2 DEF RestoreInstance
    <3>2. /\ restoring'[r] = "none" /\ restoring[r] = "queued"
          /\ \A q \in Requests \ {r} : restoring'[q] = restoring[q]
      BY <1>1, <1>7, <3>1 DEF RestoreInstance
    <3>3. Restores(r, i) /\ Alone(r, i) /\ row'[i].stage = row[i].stage
      BY <1>5, <2>1, <2>2, <3>1, <3>2 DEF Restores, Alone, quotas
    <3> QED  BY <2>1, <3>3, RestoreStays
  <2>3. CASE ~(Live(i) /\ row[i].task_state = "restoring")
    <3>1. UNCHANGED row /\ restoring' = [restoring EXCEPT ![r] = "failed"]
      BY <1>7, <2>3 DEF RestoreInstance
    <3>2. /\ restoring'[r] = "failed" /\ restoring[r] = "queued"
          /\ \A q \in Requests \ {r} : restoring'[q] = restoring[q]
      BY <1>1, <1>7, <3>1 DEF RestoreInstance
    <3>3. Restores(r, i) /\ Alone(r, i) /\ row'[i].stage = row[i].stage
      BY <2>1, <3>1, <3>2 DEF Restores, Alone, quotas
    <3> QED  BY <2>1, <3>3, RestoreStays
  <2> QED  BY <2>2, <2>3
<1>8. CASE RestoreFails(r)
  <2>1. /\ UNCHANGED <<quotas, req, build, up, listed, reclaiming, expiring>>
        /\ restoring' = [restoring EXCEPT ![r] = "failed"] /\ restoring[r] = "queued"
    BY <1>8 DEF RestoreFails, quotas
  <2>2. /\ \A j \in Instances \ {i} : row'[j] = row[j]
        /\ row'[i].hosted = row[i].hosted /\ row'[i].launched = row[i].launched
        /\ row'[i].stage = row[i].stage /\ row'[i].vm_state = row[i].vm_state
    <3>1. CASE Live(i)
      <4>1. Save(i, row[i].vm_state, "none")
        BY <1>8, <3>1 DEF RestoreFails
      <4> QED  BY <1>5, <4>1
    <3>2. CASE ~Live(i)
      BY <1>8, <3>2 DEF RestoreFails
    <3> QED  BY <3>1, <3>2
  <2>3. /\ restoring'[r] = "failed"
        /\ \A q \in Requests \ {r} : restoring'[q] = restoring[q]
    BY <1>1, <2>1
  <2>4. Restores(r, i) /\ Alone(r, i)
    BY <2>1, <2>2, <2>3 DEF Restores, Alone, quotas
  <2> QED  BY <2>1, <2>2, <2>4, RestoreStays
<1>9. CASE RestoreCommit(r)
  <2>1. /\ UNCHANGED <<row, restoring, build, up, listed, reclaiming, expiring>>
        /\ reservation' = [reservation EXCEPT ![r] = 0]
        /\ Goto(r, "over") /\ req[r].pc = "restore-commit"
    BY <1>9 DEF RestoreCommit, Commit
  <2>2. /\ reservation'[r] = 0
        /\ \A q \in Requests \ {r} : reservation'[q] = reservation[q]
    BY <1>1, <2>1
  <2>3. Restores(r, i) /\ Alone(r, i) /\ row'[i].stage = row[i].stage
    BY <1>4, <2>1, <2>2 DEF Restores, Alone
  <2>4. reservation[r] = 1
    BY <1>1, <2>1 DEF Ledger, LedgerOf, Grants
  <2>5. /\ Ledger'
        /\ \A j \in Instances \ {i} : Counts(j)' <=> Counts(j)
        /\ Lossy => Lossy'
        /\ ~Counts(i) /\ (Lossy' \/ Counts(i)')
    BY <2>1, <2>2, <2>3, <2>4, RestoreKeeps
  <2>6. in_use' = in_use + 1 /\ reserved' = reserved - 1
    BY <1>9, <2>4 DEF RestoreCommit, Commit, Held
  <2> QED  BY <1>1, <2>5, <2>6, UsageUp
<1> QED  BY <1>6, <1>7, <1>8, <1>9

\* A build: it neither makes nor ends an instance.
Builds(i) ==
    /\ build[i] \notin {"none", "over"} /\ build'[i] # "none"
    /\ row'[i].stage = row[i].stage /\ row'[i].vm_state # "soft-delete"
    /\ row'[i].launched => row'[i].hosted
    /\ \A j \in Instances \ {i} : row'[j] = row[j] /\ build'[j] = build[j]
    /\ UNCHANGED <<quotas, req, restoring, up, listed, reclaiming>>

\* A build changes nothing that counts.
LEMMA BuildKeeps ==
  ASSUME Guarded, QuotaInv, HostInv', NEW i \in Instances, Builds(i)
  PROVE  Ledger' /\ Usage'
<1> USE DEF Builds
<1>1. /\ HostInv /\ Ledger /\ LedgerOf(i) /\ Plain /\ KindsFit /\ BuildFits
      /\ WorkFits /\ Usage /\ TypeOK /\ i \in Requests
      /\ in_use \in Int
  BY DeleteAssumption DEF QuotaInv, HostInv, Ledger, TypeOK, QuotasTypeOK
<1>2. row[i].vm_state # "soft-delete"
  BY <1>1 DEF BuildFits
<1>3. \A q \in Requests : req[q].inst = i => ~Soft(q) /\ req[q].kind # "soft"
  BY <1>1 DEF LedgerOf, Copies
<1>4. \A q \in Requests : req[q].inst = i =>
         /\ req[q].kind # "restore" /\ req[q].kind # "reclaim"
         /\ req[q].kind = "create" => req[q].pc = "over"
         /\ req[q].pc \notin {"restore-save", "restore-commit"}
  <2>1. \A q \in Requests : req[q].inst = i =>
          /\ req[q].kind # "restore" /\ req[q].kind # "reclaim"
          /\ req[q].kind = "create" => req[q].pc = "over"
    BY <1>1 DEF WorkFits, LedgerOf, Grants
  <2> QED  BY <1>1, <2>1 DEF Ledger, PlaceFits, HostInv, TypeOK, RequestRecords
<1>5. i \notin reclaiming /\ ~Reclaiming(i)
  <2>1. Reclaiming(i) => req[i].inst = i
    BY <1>1 DEF Ledger, PlaceFits, Reclaiming
  <2> QED  BY <1>1, <1>2, <1>4, <2>1 DEF LedgerOf, Reclaims, Reclaiming
<1>6. /\ \A q \in Requests : PlaceFits(q)'
      /\ Others(i)
  BY <1>1 DEF Ledger, PlaceFits, Others, quotas
<1>7. Grants(i)'
  BY <1>1, <1>4 DEF LedgerOf, Grants, quotas
<1>8. Decreases(i)'
  BY <1>1, <1>2 DEF LedgerOf, Decreases, Soft, quotas, Live
<1>9. TakenOnce(i)'
  BY <1>1 DEF LedgerOf, TakenOnce, TakesOff, quotas
<1>10. Exclusive(i)'
  BY <1>1 DEF LedgerOf, Exclusive, Ended, Locks, BeingReclaimed, Reclaiming
<1>11. Reclaims(i)'
  BY <1>5 DEF Reclaims, Reclaiming
<1>12. Copies(i)'
  BY <1>3 DEF Copies, Soft
<1>13. Hosted(i)' /\ Plain'
  BY <1>1 DEF Hosted, Plain, Soft, quotas
<1>17. Goes(i)'
  BY <1>3 DEF Goes, Soft
<1>14. Counts(i)' <=> Counts(i)
  <2>1. Owed(i)' <=> Owed(i)
    BY <1>2 DEF Owed, Live, SoftDestroys, Soft
  <2> QED  BY <2>1 DEF Counts, Granting, Returning, Taken, TakesOff, quotas
<1>15. /\ Ledger'
       /\ \A j \in Instances \ {i} : Counts(j)' <=> Counts(j)
  BY <1>1, <1>6, <1>7, <1>8, <1>9, <1>10, <1>11, <1>12, <1>13, <1>17,
     LedgerKept
  DEF LedgerOf
<1>16. /\ Lossy => Lossy'
       /\ in_use' = in_use /\ reserved' = reserved
  BY DEF Lossy, quotas
<1> QED  BY <1>1, <1>14, <1>15, <1>16, UsageKept DEF Usage

LEMMA BuildSteps ==
  ASSUME Guarded, QuotaInv, HostInv', NEW i \in Instances,
         \/ BuildStep(i) \/ BuildRefused(i) \/ BuildFails(i)
         \/ BuildCleanupFails(i) \/ ScheduleFails(i)
  PROVE  Ledger' /\ Usage'
<1>1. /\ TypeOK /\ BuildFits /\ row \in [Instances -> Rows]
      /\ build \in [Instances -> {"none", "queued", "over"} \cup Building]
  BY DEF QuotaInv, HostInv, TypeOK
<1>2. /\ build[i] \notin {"none", "over"}
      /\ UNCHANGED <<quotas, req, restoring, up, listed, reclaiming>>
  BY DEF BuildStep, BuildStart, BuildClaims, BuildNetworks, BuildMaps, BuildSpawns,
         BuildFinish, BuildErrors, BuildRefused, BuildFails, BuildCleanupFails,
         ScheduleFails, compute
<1>3. /\ ~row[i].launched /\ row[i].vm_state # "soft-delete"
      /\ build[i] = "spawned" => row[i].hosted
      /\ build[i] = "spawned" /\ Live(i) =>
            row[i].task_state \in {"spawning", "deleting"}
  BY <1>1, <1>2 DEF BuildFits
<1>4. ASSUME NEW stage \in {"started", "claimed", "networked", "mapped", "spawned",
                            "failed", "over"}, BuildGoto(i, stage)
      PROVE  /\ build'[i] # "none"
             /\ \A j \in Instances \ {i} : build'[j] = build[j]
  BY <1>1, <1>4 DEF BuildGoto
<1> DEFINE Row == /\ row'[i].stage = row[i].stage /\ row'[i].vm_state # "soft-delete"
                  /\ row'[i].launched => row'[i].hosted
                  /\ \A j \in Instances \ {i} : row'[j] = row[j]
<1>5. UNCHANGED row => Row
  BY <1>3
<1>6. \A task : \A vm \in {"building", "deleted", "active", "error"} : Save(i, vm, task) => Row
  BY <1>1, <1>3 DEF Save, Rows
<1>7. row' = [row EXCEPT ![i] = Errored(i)] => Row
  BY <1>1, <1>3 DEF Errored, Rows
<1>8. row' = [row EXCEPT ![i].hosted = TRUE] => Row
  BY <1>1, <1>3 DEF Rows
<1>9. row' = [row EXCEPT ![i].vm_state = "deleted"] => Row
  BY <1>1, <1>3 DEF Rows
<1>10. build[i] = "spawned" /\ row' = [row EXCEPT ![i].vm_state = "active",
                                                  ![i].task_state = "none",
                                                  ![i].launched = TRUE] => Row
  BY <1>1, <1>3 DEF Rows
<1>11. ASSUME NEW task, NEW vm \in {"deleted", "active"}, BuildEnds(i, vm, task),
              vm = "active" => /\ build[i] = "spawned"
                               /\ ~(Live(i) /\ row[i].task_state = "spawning")
       PROVE  Row /\ BuildGoto(i, "over")
  <2> DEFINE launched == row[i].launched \/ vm = "active"
             x == [row[i] EXCEPT !.vm_state = vm, !.task_state = task,
                                 !.launched = launched]
             y == [Errored(i) EXCEPT !.launched = launched]
  <2>1. /\ x.stage = row[i].stage /\ x.vm_state = vm /\ x.hosted = row[i].hosted
        /\ x.launched => vm = "active"
        /\ y.stage = row[i].stage /\ y.vm_state = "error"
        /\ y.launched => vm = "active"
    BY <1>1, <1>3 DEF Errored, Rows
  <2>2. \/ UNCHANGED row
        \/ row' = [row EXCEPT ![i] = x]
        \/ vm = "deleted" /\ row' = [row EXCEPT ![i] = y]
    BY <1>1, <1>3, <1>11 DEF BuildEnds
  <2> HIDE DEF x, y
  <2>3. Row
    BY <1>1, <1>3, <1>5, <1>11, <2>1, <2>2
  <2> QED  BY <1>11, <2>3 DEF BuildEnds
<1> HIDE DEF Row
<1>12. Row /\ \E stage \in {"started", "claimed", "networked", "mapped", "spawned",
                            "failed", "over"} : BuildGoto(i, stage)
  <2>1. CASE BuildStart(i)
    BY <2>1, <1>5, <1>6 DEF BuildStart
  <2>2. CASE BuildClaims(i)
    BY <2>2, <1>5, <1>8 DEF BuildClaims
  <2>3. CASE BuildNetworks(i)
    BY <2>3, <1>6, <1>11 DEF BuildNetworks
  <2>4. CASE BuildMaps(i)
    BY <2>4, <1>5, <1>6 DEF BuildMaps
  <2>5. CASE BuildSpawns(i)
    BY <2>5, <1>6, <1>11 DEF BuildSpawns
  <2>6. CASE BuildFinish(i)
    BY <2>6, <1>10, <1>11 DEF BuildFinish
  <2>7. CASE BuildErrors(i)
    BY <2>7, <1>5, <1>7 DEF BuildErrors
  <2>8. CASE BuildRefused(i)
    BY <2>8, <1>5, <1>7 DEF BuildRefused
  <2>9. CASE BuildFails(i) \/ BuildCleanupFails(i)
    BY <2>9, <1>5, <1>9 DEF BuildFails, BuildCleanupFails
  <2>10. CASE ScheduleFails(i)
    BY <2>10, <1>5, <1>6 DEF ScheduleFails
  <2> QED  BY <2>1, <2>2, <2>3, <2>4, <2>5, <2>6, <2>7, <2>8, <2>9, <2>10
           DEF BuildStep
<1>13. Builds(i)
  BY <1>2, <1>4, <1>12 DEF Builds, Row
<1> QED  BY <1>13, BuildKeeps

\* A step that changes nothing of what any instance's ledger is about.
LEMMA NothingCounts ==
  ASSUME QuotaInv, \A r \in Requests : PlaceFits(r)', Plain',
         \A q \in Requests :
           \/ /\ req'[q].kind = req[q].kind /\ req'[q].inst = req[q].inst
              /\ req'[q].vm_state = req[q].vm_state /\ req'[q].pc = req[q].pc
              /\ reservation'[q] = reservation[q]
           \/ req[q].inst = "none" /\ req'[q].inst = "none",
         UNCHANGED <<row, build, restoring, reclaiming, in_use>>,
         in_use + reserved' <= Limit
  PROVE  Ledger' /\ Usage'
<1>1. ASSUME NEW j \in Instances PROVE Same(j)
  <2>1. PlaceFits(j) /\ PlaceFits(j)' /\ j \in Requests /\ j # "none"
    BY DeleteAssumption DEF QuotaInv, Ledger
  <2>2. \A q \in Requests :
          /\ req'[q].inst = j <=> req[q].inst = j
          /\ req[q].inst = j =>
               /\ req'[q].kind = req[q].kind
               /\ req'[q].vm_state = req[q].vm_state /\ req'[q].pc = req[q].pc
               /\ reservation'[q] = reservation[q] /\ restoring'[q] = restoring[q]
    BY <2>1
  <2>3. /\ Reclaiming(j)' <=> Reclaiming(j)
        /\ Reclaiming(j) => req[j].inst = j
    BY <2>1, <2>2 DEF Reclaiming, PlaceFits
  <2> QED  BY <2>2, <2>3 DEF Same
<1>2. /\ \A j \in Instances : LedgerOf(j)'
      /\ \A j \in Instances : Counts(j)' <=> Counts(j)
  BY <1>1, SameLedger, SameCounts DEF QuotaInv, Ledger
<1>3. Ledger'
  BY <1>2 DEF Ledger
<1>4. in_use \in Int /\ Usage /\ (Lossy => Lossy')
  BY DEF QuotaInv, HostInv, TypeOK, QuotasTypeOK, Lossy
<1> QED  BY <1>2, <1>3, <1>4, UsageKept

\* Nobody gets an increase beyond the limit.
LEMMA IncreaseFits ==
  ASSUME Guarded, TypeOK, Usage, NEW r \in Requests, NEW aged \in Ages
  PROVE  /\ Reserve(r, 1, Actual, aged) => InUseStays(r, 1)
         /\ OverQuota(1, Actual, aged) => UNCHANGED quotas
<1>1. /\ in_use \in Int /\ reserved \in Int /\ Limit \in Nat /\ in_use >= 0
  <2>1. Cardinality(Counted) \in Nat
    BY CountedFinite
  <2> QED  BY <2>1, QuotasAssumption DEF TypeOK, QuotasTypeOK, Usage
<1>2. Refreshed(Actual, aged) = in_use
  <2>1. Ages = {FALSE}
    BY DEF Guarded, Ages
  <2> QED  BY <1>1, <2>1 DEF Refreshed
<1>3. ASSUME Reserve(r, 1, Actual, aged) PROVE InUseStays(r, 1)
  <2>1. ~(Limit < 1 + in_use + reserved)
    BY <1>3 DEF Reserve, Over
  <2>2. /\ in_use' = in_use /\ reserved' = reserved + 1
        /\ reservation' = [reservation EXCEPT ![r] = 1] /\ UNCHANGED expiring
    BY <1>2, <1>3 DEF Reserve, Held
  <2> QED  BY <1>1, <2>1, <2>2 DEF InUseStays
<1>4. ASSUME OverQuota(1, Actual, aged) PROVE UNCHANGED quotas
  BY <1>2, <1>4 DEF OverQuota, quotas
<1> QED  BY <1>3, <1>4

\* A request that begins knows of no instance yet.
LEMMA Beginning ==
  ASSUME HostInv, Ledger, NEW r \in ApiRequests, At(r, "unused")
  PROVE  /\ req[r].inst = "none" /\ req[r].kind = "none" /\ restoring[r] = "none"
         /\ r \in Requests /\ r \notin Instances
BY DEF HostInv, KindsFit, Ledger, PlaceFits, At, ApiRequests

\* Requests begin.
LEMMA CreateBegins ==
  ASSUME Guarded, QuotaInv, HostInv', NEW r \in ApiRequests, NEW i \in Instances,
         NEW aged \in Ages, CreateRequest(r, i, aged)
  PROVE  Ledger' /\ Usage'
<1>1. /\ HostInv /\ Ledger /\ TypeOK /\ Usage /\ Plain /\ CreatedOnce
      /\ reservation \in [Requests -> Deltas] /\ in_use \in Int
      /\ req \in [Requests -> RequestRecords] /\ LedgerOf(i)
      /\ i \in Requests /\ i # "none"
  BY DeleteAssumption DEF QuotaInv, HostInv, Ledger, TypeOK, QuotasTypeOK
<1>2. /\ req[r].inst = "none" /\ req[r].kind = "none" /\ restoring[r] = "none"
      /\ r \in Requests /\ r \notin Instances
  BY <1>1, Beginning DEF CreateRequest
<1>3. CASE OverQuota(1, Actual, aged) /\ Goto(r, "over")
  <2>1. UNCHANGED quotas
    BY <1>1, <1>2, <1>3, IncreaseFits
  <2>2. UNCHANGED <<row, build, restoring, up, listed, reclaiming>>
    BY DEF CreateRequest, host, compute
  <2>3. \A q \in Requests :
          /\ req'[q].kind = req[q].kind /\ req'[q].inst = req[q].inst
          /\ req'[q].vm_state = req[q].vm_state
          /\ req'[q].pc = IF q = r THEN "over" ELSE req[q].pc
    BY <1>1, <1>2, <1>3, GotoFields
  <2>4. \A q \in Requests : PlaceFits(q)'
    BY <1>1, <1>2, <2>1, <2>3 DEF Ledger, PlaceFits, quotas
  <2>5. Plain'
    BY <1>1, <2>1, <2>2, <2>3 DEF Plain, Soft, quotas
  <2>6. in_use' = in_use /\ in_use + reserved' <= Limit
    BY <1>1, <2>1 DEF quotas, Usage
  <2>7. \A q \in Requests :
           \/ /\ req'[q].kind = req[q].kind /\ req'[q].inst = req[q].inst
              /\ req'[q].vm_state = req[q].vm_state /\ req'[q].pc = req[q].pc
              /\ reservation'[q] = reservation[q]
           \/ req[q].inst = "none" /\ req'[q].inst = "none"
    BY <1>2, <2>1, <2>3 DEF quotas
  <2> QED  BY <2>2, <2>4, <2>5, <2>6, <2>7, NothingCounts
<1>4. CASE /\ Reserve(r, 1, Actual, aged)
           /\ req' = [req EXCEPT ![r] = [NoRequest EXCEPT !.kind = "create",
                                                          !.inst = i,
                                                          !.pc = "row"]]
  <2>1. InUseStays(r, 1)
    BY <1>1, <1>2, <1>4, IncreaseFits
  <2>2. /\ req'[r].kind = "create" /\ req'[r].inst = i /\ req'[r].pc = "row"
        /\ req'[r].vm_state = "building"
        /\ \A q \in Requests \ {r} : req'[q] = req[q]
    BY <1>1, <1>2, <1>4 DEF NoRequest
  <2>3. /\ reservation'[r] = 1
        /\ \A q \in Requests \ {r} : reservation'[q] = reservation[q]
        /\ UNCHANGED <<row, build, restoring, up, listed, reclaiming, expiring>>
    BY <1>1, <1>2, <2>1 DEF InUseStays, CreateRequest, host, compute
  <2>4. /\ row[i].stage = "absent" /\ \A q \in Requests : req[q].inst # i
        /\ build[i] = "none"
    BY <1>1 DEF CreateRequest, CreatedOnce
  <2>5. \A q \in Requests : req'[q].inst = i => q = r
    BY <2>2, <2>4
  <2>6. ~Reclaiming(i) /\ ~Reclaiming(i)' /\ i \notin reclaiming
    BY <1>1, <1>2, <2>2, <2>4
    DEF Reclaiming, Ledger, PlaceFits, LedgerOf, Reclaims, Live
  <2>7. \A q \in Requests : PlaceFits(q)'
    BY <1>1, <1>2, <2>2, <2>3 DEF Ledger, PlaceFits
  <2>8. Others(i)
    BY <1>2, <2>2, <2>3 DEF Others
  <2>9. Grants(i)'
    BY <1>2, <2>2, <2>3, <2>4, <2>5 DEF Grants
  <2>10. Decreases(i)' /\ TakenOnce(i)'
    BY <2>2, <2>5 DEF Decreases, TakenOnce, ComputeSide
  <2>11. Exclusive(i)'
    BY <2>3, <2>5, <2>6 DEF Exclusive, BeingReclaimed, ApiRequests
  <2>12. Reclaims(i)'
    BY <2>3, <2>6 DEF Reclaims
  <2>13. Copies(i)'
    BY <2>2, <2>5 DEF Copies, Soft
  <2>14. Hosted(i)' /\ Plain'
    BY <1>1, <2>2, <2>3 DEF LedgerOf, Hosted, Plain, Soft
  <2>19. Goes(i)'
    BY <2>2, <2>5 DEF Goes
  <2>15. ~Counts(i)'
    <3>1. ~Taken(i)'
      BY <2>2, <2>5 DEF Taken, TakesOff
    <3>2. Granting(i)'
      BY <1>2, <2>2, <2>3 DEF Granting
    <3> QED  BY <3>1, <3>2 DEF Counts
  <2>16. ~Counts(i)
    BY <2>4 DEF Counts, Owed, Live, Returning, Taken
  <2>17. /\ Ledger'
         /\ \A j \in Instances \ {i} : Counts(j)' <=> Counts(j)
    BY <1>1, <2>7, <2>8, <2>9, <2>10, <2>11, <2>12, <2>13, <2>14,
       <2>19, LedgerKept
    DEF LedgerOf
  <2>18. Lossy => Lossy'
    BY <2>3 DEF Lossy
  <2> QED  BY <1>1, <2>1, <2>15, <2>16, <2>17, <2>18, UsageKept DEF InUseStays
<1> QED  BY <1>3, <1>4 DEF CreateRequest

LEMMA DeleteBegins ==
  ASSUME Guarded, QuotaInv, HostInv', NEW r \in ApiRequests, NEW i \in Instances,
         NEW kind \in {"delete", "soft"}, DeleteRequest(r, i, kind)
  PROVE  Ledger' /\ Usage'
<1>1. /\ HostInv /\ Ledger /\ TypeOK /\ Usage /\ Plain /\ KindsFit /\ BuildFits
      /\ reservation \in [Requests -> Deltas] /\ in_use \in Int
      /\ req \in [Requests -> RequestRecords] /\ LedgerOf(i)
      /\ i \in Requests /\ i # "none"
  BY DeleteAssumption DEF QuotaInv, HostInv, Ledger, TypeOK, QuotasTypeOK
<1>2. /\ req[r].inst = "none" /\ req[r].kind = "none" /\ restoring[r] = "none"
      /\ r \in Requests /\ r \notin Instances /\ req[r].pc = "unused"
  BY <1>1, Beginning DEF DeleteRequest, At
<1>3. reservation[r] # 1
  BY <1>2 DEF QuotaInv, Reservations, NothingHeldYet, Fresh, Pending
<1>4. /\ req'[r].kind = kind /\ req'[r].inst = i /\ req'[r].pc = "save"
      /\ req'[r].vm_state = row[i].vm_state
      /\ \A q \in Requests \ {r} : req'[q] = req[q]
      /\ UNCHANGED <<quotas, row, build, restoring, up, listed, reclaiming>>
      /\ MayDelete(i, kind)
  BY <1>1, <1>2 DEF DeleteRequest, host, compute
<1>5. Live(i) /\ (kind = "soft" => Deferred /\ row[i].launched)
  BY <1>4 DEF MayDelete, DeleteKinds
<1>6. /\ Deferred => ~BeingReclaimed(i)
      /\ \A q \in ApiRequests :
           req[q].inst = i /\ {kind, req[q].kind} \cap {"soft", "restore"} # {}
               => Ended(q)
      /\ ~BeingReclaimed(i)
  <2>1. CASE Deferred
    BY <1>4, <2>1 DEF MayDelete, MayBegin, Guarded
  <2>2. CASE ~Deferred
    <3>1. \A q \in ApiRequests : {kind, req[q].kind} \cap {"soft", "restore"} = {}
      BY <1>1, <1>5, <2>2 DEF Plain, ApiRequests
    <3>2. ~BeingReclaimed(i)
      BY <1>1, <2>2 DEF Plain, BeingReclaimed, Reclaiming
    <3> QED  BY <2>2, <3>1, <3>2
  <2> QED  BY <2>1, <2>2
<1>7. \A q \in Requests : req[q].inst = i /\ req[q].kind = "create" => req[q].pc = "over"
  <2> SUFFICES ASSUME NEW q \in Requests, req[q].inst = i, req[q].kind = "create"
               PROVE  req[q].pc = "over"
    OBVIOUS
  <2>1. q \in ApiRequests
    BY <1>1 DEF KindsFit, ApiRequests
  <2>2. req[q].pc \notin {"row", "made"}
    BY <1>4, <2>1 DEF MayDelete, Guarded
  <2>3. req[q].pc # "undo"
    BY <1>1, <1>5 DEF LedgerOf, Grants
  <2> QED  BY <1>1, <2>2, <2>3 DEF Ledger, PlaceFits
<1>8. row[i].vm_state = "soft-delete" \/ kind = "soft" =>
        row[i].hosted /\ build[i] = "over" /\ Deferred
  BY <1>1, <1>5 DEF LedgerOf, Hosted, BuildFits, Plain
<1>9. \A q \in Requests : PlaceFits(q)'
  BY <1>1, <1>2, <1>4 DEF Ledger, PlaceFits, quotas
<1>10. Others(i)
  BY <1>2, <1>4 DEF Others, quotas
<1>11. Grants(i)'
  <2>1. ASSUME NEW q \in Requests, req'[q].inst = i
        PROVE
      /\ reservation'[q] = 1 <=>
            \/ req'[q].pc \in {"row", "made", "restore-save", "restore-commit"}
            \/ req'[q].pc = "undo" /\ req'[q].kind = "create"
      /\ req'[q].kind = "create" => req'[q].pc = "over"
      /\ req'[q].pc = "restore-save" =>
            /\ Live(i) /\ row[i].vm_state = "soft-delete"
            /\ row[i].task_state = "none" /\ restoring[q] = "none"
      /\ req'[q].pc = "restore-commit" /\ restoring[q] = "none" =>
            Live(i) /\ row[i].vm_state # "soft-delete"
    <3>1. CASE q = r
      BY <1>3, <1>4, <3>1 DEF quotas
    <3>2. CASE q # r
      BY <1>1, <1>4, <1>7, <2>1, <3>2 DEF LedgerOf, Grants, quotas
    <3> QED  BY <3>1, <3>2
  <2> QED  BY <1>4, <2>1 DEF Grants, Live
<1>12. Decreases(i)'
  BY <1>1, <1>4 DEF LedgerOf, Decreases, Soft, ComputeSide, Live, quotas
<1>13. TakenOnce(i)' /\ (Taken(i)' <=> Taken(i))
  BY <1>1, <1>2, <1>4 DEF LedgerOf, TakenOnce, Taken, TakesOff, quotas
<1>14. Exclusive(i)'
  <2>1. \A q \in ApiRequests \ {r} :
          /\ req'[q] = req[q]
          /\ Ended(q)' <=> Ended(q)
          /\ Locks(q)' <=> Locks(q)
    BY <1>4 DEF Ended, Locks, ApiRequests
  <2>2. ~Locks(r)' /\ ~BeingReclaimed(i)'
    BY <1>1, <1>2, <1>4, <1>6 DEF Locks, BeingReclaimed, Reclaiming, ComputeSide
  <2>3. \A q \in ApiRequests \ {r} :
           req[q].inst = i /\ (kind = "soft" \/ req[q].kind \in {"soft", "restore"})
              => Ended(q)
    BY <1>6
  <2>4. \A q, p \in ApiRequests :
          /\ q # p /\ req'[q].inst = i /\ req'[p].inst = i
          /\ req'[q].kind \in {"soft", "restore"} /\ ~Ended(q)'
          => Ended(p)'
    <3> SUFFICES ASSUME NEW q \in ApiRequests, NEW p \in ApiRequests,
                        q # p, req'[q].inst = i, req'[p].inst = i,
                        req'[q].kind \in {"soft", "restore"}, ~Ended(q)'
                 PROVE  Ended(p)'
      OBVIOUS
    <3>1. CASE q = r
      BY <1>4, <2>1, <2>3, <3>1
    <3>2. CASE q # r /\ p = r
      BY <1>4, <2>1, <2>3, <3>2
    <3>3. CASE q # r /\ p # r
      BY <1>1, <2>1, <3>3 DEF LedgerOf, Exclusive
    <3> QED  BY <3>1, <3>2, <3>3
  <2>5. \A q, p \in ApiRequests :
          Locks(q)' /\ Locks(p)' /\ req'[q].inst = i /\ req'[p].inst = i => q = p
    BY <1>1, <2>1, <2>2 DEF LedgerOf, Exclusive
  <2> QED  BY <2>2, <2>4, <2>5 DEF Exclusive
<1>15. Reclaims(i)'
  BY <1>1, <1>2, <1>4 DEF LedgerOf, Reclaims, Reclaiming, Live, Soft
<1>16. SoftDestroys(i)' <=> SoftDestroys(i)
  BY <1>2, <1>4 DEF SoftDestroys, Soft
<1>17. Copies(i)'
  BY <1>1, <1>4, <1>8, <1>16 DEF LedgerOf, Copies, Soft, Live
<1>18. Hosted(i)' /\ Plain'
  BY <1>1, <1>2, <1>4, <1>5 DEF LedgerOf, Hosted, Plain, Soft, quotas
<1>22. Goes(i)'
  BY <1>1, <1>4 DEF LedgerOf, Goes, Live, Soft
<1>19. Counts(i)' <=> Counts(i)
  <2>1. Owed(i)' <=> Owed(i)
    BY <1>4, <1>16 DEF Owed, Live
  <2>2. Granting(i)' <=> Granting(i)
    BY <1>2, <1>3, <1>4 DEF Granting, quotas
  <2>3. Returning(i)' <=> Returning(i)
    BY <1>2, <1>4 DEF Returning
  <2> QED  BY <1>13, <2>1, <2>2, <2>3 DEF Counts
<1>20. /\ Ledger'
       /\ \A j \in Instances \ {i} : Counts(j)' <=> Counts(j)
  BY <1>1, <1>9, <1>10, <1>11, <1>12, <1>13, <1>14, <1>15, <1>17, <1>18,
     <1>22, LedgerKept
  DEF LedgerOf
<1>21. /\ Lossy => Lossy'
       /\ in_use' = in_use /\ in_use + reserved' <= Limit
  BY <1>1, <1>4 DEF Lossy, quotas, Usage
<1> QED  BY <1>1, <1>19, <1>20, <1>21, UsageKept

LEMMA RestoreBegins ==
  ASSUME Guarded, QuotaInv, HostInv', NEW r \in ApiRequests, NEW i \in Instances,
         NEW aged \in Ages, RestoreRequest(r, i, aged)
  PROVE  Ledger' /\ Usage'
<1>1. /\ HostInv /\ Ledger /\ TypeOK /\ Usage /\ Plain /\ KindsFit /\ BuildFits
      /\ reservation \in [Requests -> Deltas] /\ in_use \in Int
      /\ req \in [Requests -> RequestRecords] /\ LedgerOf(i)
      /\ i \in Requests /\ i # "none"
  BY DeleteAssumption DEF QuotaInv, HostInv, Ledger, TypeOK, QuotasTypeOK
<1>2. /\ req[r].inst = "none" /\ req[r].kind = "none" /\ restoring[r] = "none"
      /\ r \in Requests /\ r \notin Instances /\ req[r].pc = "unused"
  BY <1>1, Beginning DEF RestoreRequest, At
<1>3. CASE OverQuota(1, Actual, aged) /\ Goto(r, "over")
  <2>1. UNCHANGED quotas
    BY <1>1, <1>2, <1>3, IncreaseFits
  <2>2. UNCHANGED <<row, build, restoring, up, listed, reclaiming>>
    BY DEF RestoreRequest, host, compute
  <2>3. \A q \in Requests :
          /\ req'[q].kind = req[q].kind /\ req'[q].inst = req[q].inst
          /\ req'[q].vm_state = req[q].vm_state
          /\ req'[q].pc = IF q = r THEN "over" ELSE req[q].pc
    BY <1>1, <1>2, <1>3, GotoFields
  <2>4. \A q \in Requests : PlaceFits(q)'
    BY <1>1, <1>2, <2>1, <2>3 DEF Ledger, PlaceFits, quotas
  <2>5. Plain'
    BY <1>1, <2>1, <2>2, <2>3 DEF Plain, Soft, quotas
  <2>6. in_use' = in_use /\ in_use + reserved' <= Limit
    BY <1>1, <2>1 DEF quotas, Usage
  <2>7. \A q \in Requests :
           \/ /\ req'[q].kind = req[q].kind /\ req'[q].inst = req[q].inst
              /\ req'[q].vm_state = req[q].vm_state /\ req'[q].pc = req[q].pc
              /\ reservation'[q] = reservation[q]
           \/ req[q].inst = "none" /\ req'[q].inst = "none"
    BY <1>2, <2>1, <2>3 DEF quotas
  <2> QED  BY <2>2, <2>4, <2>5, <2>6, <2>7, NothingCounts
<1>4. CASE /\ Reserve(r, 1, Actual, aged)
           /\ req' = [req EXCEPT ![r] = [NoRequest EXCEPT
                        !.kind = "restore", !.inst = i, !.pc = "restore-save"]]
  <2>1. InUseStays(r, 1)
    BY <1>1, <1>2, <1>4, IncreaseFits
  <2>2. /\ req'[r].kind = "restore" /\ req'[r].inst = i
        /\ req'[r].pc = "restore-save" /\ req'[r].vm_state = "building"
        /\ \A q \in Requests \ {r} : req'[q] = req[q]
    BY <1>1, <1>2, <1>4 DEF NoRequest
  <2>3. /\ reservation'[r] = 1
        /\ \A q \in Requests \ {r} : reservation'[q] = reservation[q]
        /\ UNCHANGED <<row, build, restoring, up, listed, reclaiming, expiring>>
    BY <1>1, <1>2, <2>1 DEF InUseStays, RestoreRequest, host, compute
  <2>4. /\ Live(i) /\ row[i].vm_state = "soft-delete" /\ row[i].task_state = "none"
        /\ MayBegin(i, "restore") /\ Deferred /\ MaxCrashes = 0
    <3>1. Live(i) /\ row[i].vm_state = "soft-delete" /\ row[i].task_state = "none"
          /\ MayBegin(i, "restore")
      BY DEF RestoreRequest
    <3> QED  BY <1>1, <3>1 DEF Plain, Guarded
  <2>5. /\ ~BeingReclaimed(i)
        /\ \A q \in ApiRequests : req[q].inst = i => Ended(q)
    BY <2>4 DEF MayBegin, Guarded
  <2>6. \A q \in Requests : req[q].inst = i =>
           /\ req[q].pc \in {"over", "dead"} /\ restoring[q] # "queued"
           /\ req[q].kind = "create" => req[q].pc = "over"
    <3> SUFFICES ASSUME NEW q \in Requests, req[q].inst = i
                 PROVE  req[q].pc \in {"over", "dead"} /\ restoring[q] # "queued"
      BY <1>1 DEF Ledger, PlaceFits
    <3>1. CASE q \in ApiRequests
      BY <2>5, <3>1 DEF Ended
    <3>2. CASE q \in Instances
      <4>1. q = i /\ req[q].kind = "reclaim" /\ PlaceFits(q)
        BY <1>1, <2>4, <3>2 DEF Ledger, PlaceFits, KindsFit, Plain
      <4> QED  BY <1>1, <2>5, <4>1
               DEF PlaceFits, BeingReclaimed, Reclaiming, KindsFit,
                                       ComputeSide
    <3> QED  BY <3>1, <3>2 DEF ApiRequests
  <2>7. \A q \in Requests \ {r} : req[q].inst = i => reservation'[q] # 1
    BY <1>1, <2>3, <2>6 DEF LedgerOf, Grants
  <2>8. ~BeingReclaimed(i)' /\ ~Reclaiming(i)' /\ i \notin reclaiming
    BY <1>1, <1>2, <2>2, <2>3, <2>5 DEF BeingReclaimed, Reclaiming
  <2>9. \A q \in Requests : PlaceFits(q)'
    BY <1>1, <1>2, <2>2, <2>3 DEF Ledger, PlaceFits
  <2>10. Others(i)
    BY <1>2, <2>2, <2>3 DEF Others
  <2>11. Grants(i)'
    <3>1. ASSUME NEW q \in Requests, req'[q].inst = i
          PROVE
      /\ reservation'[q] = 1 <=>
            \/ req'[q].pc \in {"row", "made", "restore-save", "restore-commit"}
            \/ req'[q].pc = "undo" /\ req'[q].kind = "create"
      /\ req'[q].kind = "create" => req'[q].pc = "over"
      /\ req'[q].pc = "restore-save" => q = r
      /\ req'[q].pc # "restore-commit"
      <4>1. CASE q = r
        BY <2>2, <2>3, <4>1
      <4>2. CASE q # r
        BY <2>2, <2>6, <2>7, <3>1, <4>2
      <4> QED  BY <4>1, <4>2
    <3> QED  BY <1>2, <2>3, <2>4, <3>1 DEF Grants, Live
  <2>12. Decreases(i)' /\ TakenOnce(i)' /\ ~Taken(i) /\ ~Taken(i)'
    BY <1>2, <2>2, <2>6 DEF Decreases, TakenOnce, Taken, TakesOff, ComputeSide
  <2>13. Exclusive(i)'
    <3>1. \A q \in ApiRequests \ {r} :
            req'[q].inst = i => req[q].inst = i /\ Ended(q)' /\ ~Locks(q)'
      BY <2>2, <2>3, <2>5, <2>6 DEF Ended, Locks, ApiRequests, ComputeSide
    <3>2. ~Locks(r)'
      BY <2>2 DEF Locks
    <3> QED  BY <2>8, <3>1, <3>2 DEF Exclusive
  <2>14. Reclaims(i)'
    BY <2>3, <2>8 DEF Reclaims
  <2>15. Copies(i)'
    BY <1>1, <2>2, <2>3, <2>6 DEF LedgerOf, Copies, Soft
  <2>16. Hosted(i)' /\ Plain'
    BY <1>1, <2>2, <2>3, <2>4 DEF LedgerOf, Hosted, Plain, Soft
  <2>21. Goes(i)'
    BY <2>2, <2>6 DEF Goes
  <2>17. ~Counts(i)'
    <3>1. Granting(i)'
      BY <1>2, <2>2, <2>3 DEF Granting
    <3> QED  BY <2>12, <3>1 DEF Counts
  <2>18. /\ Ledger'
         /\ \A j \in Instances \ {i} : Counts(j)' <=> Counts(j)
    BY <1>1, <2>9, <2>10, <2>11, <2>12, <2>13, <2>14, <2>15, <2>16,
       <2>21, LedgerKept
    DEF LedgerOf
  <2>19. ~Counts(i)
    <3>1. ~Owed(i) /\ ~Returning(i)
      BY <2>4, <2>6 DEF Owed, Returning
    <3> QED  BY <2>12, <3>1 DEF Counts
  <2>20. Lossy => Lossy'
    BY <2>3 DEF Lossy
  <2> QED  BY <1>1, <2>1, <2>17, <2>18, <2>19, <2>20, UsageKept DEF InUseStays
<1> QED  BY <1>3, <1>4 DEF RestoreRequest

\* The host takes up a soft-deleted instance, whose quota was given back.
LEMMA ReclaimBegins ==
  ASSUME Guarded, QuotaInv, HostInv', NEW i \in Instances, ReclaimInstance(i)
  PROVE  Ledger' /\ Usage'
<1>1. /\ HostInv /\ Ledger /\ TypeOK /\ Usage /\ Plain /\ KindsFit /\ BuildFits
      /\ reservation \in [Requests -> Deltas] /\ in_use \in Int
      /\ req \in [Requests -> RequestRecords] /\ LedgerOf(i)
      /\ i \in Requests /\ i # "none" /\ PlaceFits(i)
  BY DeleteAssumption DEF QuotaInv, HostInv, Ledger, TypeOK, QuotasTypeOK
<1>2. /\ req'[i].kind = "reclaim" /\ req'[i].inst = i /\ req'[i].pc = "shutdown"
      /\ req'[i].vm_state = "soft-delete"
      /\ \A q \in Requests \ {i} : req'[q] = req[q]
  BY <1>1 DEF ReclaimInstance, NoRequest
<1>3. /\ reservation'[i] = 0
      /\ \A q \in Requests \ {i} : reservation'[q] = reservation[q]
      /\ reclaiming' = reclaiming \ {i} /\ i \in reclaiming
      /\ UNCHANGED <<row, build, restoring, up, listed, expiring, in_use, reserved>>
  BY <1>1 DEF ReclaimInstance, host
<1>4. /\ Live(i) /\ row[i].vm_state = "soft-delete" /\ ~Reclaiming(i)
      /\ Deferred /\ MaxCrashes = 0
      /\ row[i].hosted /\ build[i] = "over"
  BY <1>1, <1>3 DEF LedgerOf, Reclaims, Plain, Hosted, BuildFits, Guarded
<1>5. /\ req[i].inst \in {i, "none"} /\ req[i].kind \in {"none", "reclaim"}
      /\ req[i].pc \in {"unused", "over", "dead"} /\ reservation[i] # 1
      /\ restoring[i] = "none"
  <2>1. req[i].kind \in {"none", "reclaim"}
    BY <1>1, <1>4 DEF KindsFit, Plain
  <2>2. req[i].pc \in {"unused", "over", "dead"}
    BY <1>1, <1>4, <2>1 DEF PlaceFits, Reclaiming, ComputeSide
  <2>3. reservation[i] # 1
    BY <1>1 DEF QuotaInv, Reservations, NothingHeldYet, Pending
  <2> QED  BY <1>1, <2>1, <2>2, <2>3 DEF PlaceFits, KindsFit, HostInv, TypeOK
<1>6. \A q \in ApiRequests : req[q].inst = i => Ended(q)
  BY <1>1, <1>3 DEF LedgerOf, Exclusive, BeingReclaimed
<1>7. \A q \in Requests \ {i} : req[q].inst = i =>
         /\ q \in ApiRequests
         /\ req[q].pc \in {"over", "dead"} /\ restoring[q] # "queued"
         /\ req[q].kind = "create" => req[q].pc = "over"
  BY <1>1, <1>6 DEF Ended, Ledger, PlaceFits, ApiRequests
<1>8. \A q \in Requests \ {i} : req[q].inst = i => reservation'[q] # 1
  BY <1>1, <1>3, <1>7 DEF LedgerOf, Grants
<1>9. \A q \in Requests : PlaceFits(q)'
  BY <1>1, <1>2, <1>3 DEF Ledger, PlaceFits
<1>10. Others(i)
  BY <1>2, <1>3, <1>5 DEF Others
<1>11. Grants(i)'
  <2>1. ASSUME NEW q \in Requests, req'[q].inst = i
        PROVE
      /\ reservation'[q] # 1
      /\ req'[q].pc \in {"over", "dead", "shutdown"}
      /\ req'[q].kind = "create" => req'[q].pc = "over"
    <3>1. CASE q = i
      BY <1>2, <1>3, <3>1
    <3>2. CASE q # i
      BY <1>2, <1>7, <1>8, <2>1, <3>2
    <3> QED  BY <3>1, <3>2
  <2> QED  BY <2>1 DEF Grants
<1>12. Decreases(i)'
  BY <1>2, <1>3, <1>4, <1>7 DEF Decreases, Soft, ComputeSide
<1>13. TakenOnce(i)' /\ ~Taken(i) /\ ~Taken(i)'
  BY <1>2, <1>5, <1>7 DEF TakenOnce, Taken, TakesOff
<1>14. Exclusive(i)'
  <2>1. \A q \in ApiRequests : req'[q].inst = i => Ended(q)' /\ ~Locks(q)'
    BY <1>2, <1>3, <1>6, <1>7 DEF Ended, Locks, ApiRequests, ComputeSide
  <2> QED  BY <2>1 DEF Exclusive
<1>15. Reclaims(i)'
  BY <1>2, <1>3, <1>4 DEF Reclaims, Reclaiming, Live, Soft
<1>16. Copies(i)'
  BY <1>1, <1>2, <1>3, <1>4, <1>7 DEF LedgerOf, Copies, Soft
<1>17. Hosted(i)' /\ Plain'
  BY <1>1, <1>2, <1>3, <1>4 DEF LedgerOf, Hosted, Plain, Soft
<1>21. Goes(i)'
  BY <1>2, <1>7 DEF Goes
<1>18. ~Counts(i) /\ ~Counts(i)'
  <2>1. ~Owed(i) /\ ~Owed(i)'
    BY <1>3, <1>4 DEF Owed
  <2>2. ~Returning(i) /\ ~Returning(i)'
    BY <1>2, <1>3, <1>5, <1>7 DEF Returning
  <2> QED  BY <1>13, <2>1, <2>2 DEF Counts
<1>19. /\ Ledger'
       /\ \A j \in Instances \ {i} : Counts(j)' <=> Counts(j)
  BY <1>1, <1>9, <1>10, <1>11, <1>12, <1>13, <1>14, <1>15, <1>16, <1>17,
     <1>21, LedgerKept
  DEF LedgerOf
<1>20. /\ Lossy => Lossy'
       /\ in_use' = in_use /\ in_use + reserved' <= Limit
  BY <1>1, <1>3 DEF Lossy, Usage
<1> QED  BY <1>1, <1>18, <1>19, <1>20, UsageKept

\* init_host: nobody defers deletions then.
LEMMA InitBegins ==
  ASSUME Guarded, QuotaInv, HostInv', NEW l \in listed, InitInstance(l)
  PROVE  Ledger' /\ Usage'
<1>1. /\ HostInv /\ Ledger /\ TypeOK /\ Usage /\ Plain /\ KindsFit /\ HostFits
      /\ reservation \in [Requests -> Deltas] /\ in_use \in Int
      /\ req \in [Requests -> RequestRecords] /\ row \in [Instances -> Rows]
      /\ l.inst \in Instances
  BY DEF QuotaInv, HostInv, Ledger, TypeOK, QuotasTypeOK, Listings
<1>2. PICK i \in Instances : i = l.inst
  BY <1>1
<1>3. /\ MaxCrashes # 0 /\ MaxCrashes > 0 /\ ~Deferred
      /\ l.vm_state # "soft-delete" /\ build[i] = "over"
      /\ i \in Requests /\ i # "none" /\ PlaceFits(i) /\ LedgerOf(i)
  BY <1>1, <1>2, DeleteAssumption DEF Plain, Guarded, HostFits, Ledger
<1>4. /\ \A q \in Requests : ~Soft(q) /\ req[q].kind \notin {"soft", "restore", "reclaim"}
      /\ \A j \in Instances : row[j].vm_state # "soft-delete"
      /\ reclaiming = {}
  BY <1>1, <1>3 DEF Plain
<1>5. /\ req[i].kind \in {"none", "resume", "partial"}
      /\ req[i].pc \in {"unused", "over", "dead"} /\ req[i].inst \in {i, "none"}
      /\ reservation[i] # 1 /\ restoring[i] = "none"
  <2>1. req[i].kind \in {"none", "resume", "partial"} /\ restoring[i] = "none"
    BY <1>1, <1>3, <1>4 DEF KindsFit, HostInv, TypeOK
  <2>2. req[i].pc \in {"unused", "over", "dead"}
    BY <1>3, <2>1 DEF PlaceFits, InitInstance, Initializing, ComputeSide
  <2>3. reservation[i] # 1
    BY <1>3 DEF QuotaInv, Reservations, NothingHeldYet, Pending
  <2> QED  BY <1>3, <2>1, <2>2, <2>3 DEF PlaceFits
<1>6. /\ \A q \in Requests \ {i} : req'[q] = req[q]
      /\ \/ req'[i] = req[i]
         \/ /\ req'[i].kind \in {"resume", "partial"} /\ req'[i].inst = i
            /\ req'[i].vm_state # "soft-delete"
            /\ req'[i].pc = IF req'[i].kind = "partial" THEN "init-destroy"
                                                        ELSE "init-reserve"
  <2>1. CASE InitDeletion(l) = "none"
    BY <2>1 DEF InitInstance
  <2>2. CASE InitDeletion(l) # "none"
    <3>1. InitDeletion(l) \in {"resume", "partial"}
      BY <2>2 DEF InitDeletion
    <3>2. req' = [req EXCEPT ![i] =
                [NoRequest EXCEPT
                    !.kind = InitDeletion(l), !.inst = i, !.hosted = TRUE,
                    !.vm_state = l.vm_state,
                    !.pc = IF InitDeletion(l) = "partial" THEN "init-destroy"
                                                          ELSE "init-reserve"]]
      BY <1>2, <2>2 DEF InitInstance
    <3> QED  BY <1>1, <1>3, <3>1, <3>2 DEF NoRequest
  <2> QED  BY <2>1, <2>2
<1>7. /\ \A j \in Instances \ {i} : row'[j] = row[j]
      /\ row'[i].stage = row[i].stage /\ row'[i].vm_state # "soft-delete"
      /\ row'[i].hosted = row[i].hosted /\ row'[i].launched = row[i].launched
  <2>1. CASE l.vm_state = "building" /\ Live(i)
    <3>1. row' = [row EXCEPT ![i].vm_state = "error", ![i].task_state = "none"]
      BY <1>2, <2>1 DEF InitInstance, Save
    <3> QED  BY <1>1, <3>1 DEF Rows
  <2>2. CASE ~(l.vm_state = "building" /\ Live(i))
    BY <1>2, <1>4, <2>2 DEF InitInstance
  <2> QED  BY <2>1, <2>2
<1>8. /\ listed' \subseteq listed
      /\ UNCHANGED <<quotas, build, restoring, reclaiming>>
  BY DEF InitInstance, host
<1>9. \A q \in Requests : req'[q].inst = i =>
         /\ ~Soft(q)' /\ req'[q].kind \notin {"soft", "restore", "reclaim"}
         /\ req'[q].kind = "create" => req'[q].pc = "over"
         /\ q # i => req[q].inst = i
  <2> SUFFICES ASSUME NEW q \in Requests, req'[q].inst = i
               PROVE  /\ ~Soft(q)' /\ req'[q].kind \notin {"soft", "restore", "reclaim"}
                      /\ req'[q].kind = "create" => req'[q].pc = "over"
                      /\ q # i => req[q].inst = i
    OBVIOUS
  <2>1. CASE q = i
    BY <1>4, <1>5, <1>6, <2>1 DEF Soft
  <2>2. CASE q # i
    BY <1>3, <1>4, <1>6, <2>2 DEF LedgerOf, Grants, Soft
  <2> QED  BY <2>1, <2>2
<1>10. \A q \in Requests : PlaceFits(q)'
  <2> SUFFICES ASSUME NEW q \in Requests PROVE PlaceFits(q)'
    OBVIOUS
  <2>1. CASE q = i
    BY <1>1, <1>3, <1>6, <1>8, <2>1 DEF Ledger, PlaceFits, quotas
  <2>2. CASE q # i
    BY <1>1, <1>6, <1>8, <2>2 DEF Ledger, PlaceFits, quotas
  <2> QED  BY <2>1, <2>2
<1>11. Others(i)
  BY <1>5, <1>6, <1>7, <1>8 DEF Others, quotas
<1>12. Grants(i)'
  <2>1. ASSUME NEW q \in Requests, req'[q].inst = i
        PROVE
      /\ reservation'[q] = 1 <=>
            \/ req'[q].pc \in {"row", "made", "restore-save", "restore-commit"}
            \/ req'[q].pc = "undo" /\ req'[q].kind = "create"
      /\ req'[q].kind = "create" => req'[q].pc = "over"
      /\ req'[q].pc \notin {"restore-save", "restore-commit"}
    <3>1. CASE q = i
      BY <1>5, <1>6, <1>8, <3>1 DEF quotas
    <3>2. CASE q # i
      <4>1. PlaceFits(q)' /\ req'[q].kind \in Kinds
        BY <1>1, <1>6, <1>10, <3>2 DEF RequestRecords, Kinds
      <4> QED  BY <1>3, <1>6, <1>8, <1>9, <2>1, <3>2, <4>1
               DEF LedgerOf, Grants, quotas, PlaceFits, Kinds
    <3> QED  BY <3>1, <3>2
  <2> QED  BY <2>1 DEF Grants
<1>13. \A q \in Requests : req'[q].inst = i =>
          /\ TakesOff(q)' => q # i /\ TakesOff(q) /\ req[q].inst = i
          /\ \/ req'[q].pc \in {"commit", "committing"}
             \/ req'[q].pc = "init-reserve" /\ req'[q].kind = "partial"
             => row'[i].stage = "deleted"
  <2> SUFFICES ASSUME NEW q \in Requests, req'[q].inst = i
               PROVE
          /\ TakesOff(q)' => q # i /\ TakesOff(q) /\ req[q].inst = i
          /\ \/ req'[q].pc \in {"commit", "committing"}
             \/ req'[q].pc = "init-reserve" /\ req'[q].kind = "partial"
             => row'[i].stage = "deleted"
    OBVIOUS
  <2>1. CASE q = i
    BY <1>5, <1>6, <2>1 DEF TakesOff
  <2>2. CASE q # i
    BY <1>3, <1>4, <1>6, <1>7, <1>8, <1>9, <2>2
    DEF LedgerOf, Decreases, TakesOff, quotas
  <2> QED  BY <2>1, <2>2
<1>14. Decreases(i)'
  BY <1>3, <1>9, <1>13 DEF Decreases
<1>15. TakenOnce(i)' /\ (Taken(i)' => Taken(i))
  BY <1>3, <1>13 DEF LedgerOf, TakenOnce, Taken
<1>16. Exclusive(i)'
  <2>1. i \notin ApiRequests /\ \A q \in ApiRequests : q # i /\ q \in Requests
    BY DEF ApiRequests
  <2>2. ~BeingReclaimed(i)'
    BY <1>3, <1>4, <1>5, <1>6, <1>8 DEF BeingReclaimed, Reclaiming
  <2>3. \A q \in ApiRequests : req'[q] = req[q] /\ (Locks(q)' <=> Locks(q))
    BY <1>6, <2>1 DEF Locks
  <2> QED  BY <1>3, <1>9, <2>1, <2>2, <2>3 DEF LedgerOf, Exclusive
<1>17. Reclaims(i)'
  BY <1>4, <1>5, <1>6, <1>8 DEF Reclaims, Reclaiming
<1>18. Copies(i)'
  BY <1>7, <1>9 DEF Copies
<1>19. Hosted(i)'
  BY <1>3, <1>7 DEF LedgerOf, Hosted
<1>20. Plain'
  <2>1. \A q \in Requests : ~Soft(q)' /\ req'[q].kind \notin {"soft", "restore", "reclaim"}
    BY <1>4, <1>5, <1>6 DEF Soft
  <2> QED  BY <1>1, <1>3, <1>4, <1>7, <1>8, <2>1 DEF Plain
<1>24. Goes(i)'
  BY <1>9 DEF Goes
<1>21. Counts(i)' => Counts(i)
  <2>1. Owed(i)' => Owed(i)
    BY <1>4, <1>7 DEF Owed, Live, SoftDestroys
  <2>2. Granting(i) => Granting(i)'
    BY <1>5, <1>6, <1>8 DEF Granting, quotas
  <2>3. Returning(i)' => Returning(i)
    BY <1>5, <1>6, <1>8 DEF Returning
  <2> QED  BY <1>15, <2>1, <2>2, <2>3 DEF Counts
<1>22. /\ Ledger'
       /\ \A j \in Instances \ {i} : Counts(j)' <=> Counts(j)
  BY <1>1, <1>10, <1>11, <1>12, <1>14, <1>15, <1>16, <1>17, <1>18, <1>19, <1>20,
     <1>24,
     LedgerKept DEF LedgerOf
<1>23. /\ Lossy' /\ in_use' = in_use /\ in_use + reserved' <= Limit
  BY <1>1, <1>3, <1>8 DEF Lossy, Usage, quotas
<1> QED  BY <1>1, <1>21, <1>22, <1>23, UsageKept

\* What the host lists to be reclaimed is soft-deleted.
LEMMA ReclaimLists ==
  ASSUME Guarded, QuotaInv, HostInv', ReclaimList
  PROVE  Ledger' /\ Usage'
<1>1. /\ Deferred /\ \A i \in Instances : ~BeingReclaimed(i)
      /\ \A i \in reclaiming' : /\ Live(i) /\ row[i].vm_state = "soft-delete"
                                /\ OldEnough(i)
      /\ reclaiming' \subseteq Instances
      /\ UNCHANGED <<quotas, row, req, build, restoring, up, listed>>
  BY DEF ReclaimList, host
<1>2. Ledger /\ Usage /\ Plain /\ in_use \in Int
  BY DEF QuotaInv, Ledger, HostInv, TypeOK, QuotasTypeOK
<1>3. "reclaim" \notin Races
  BY <1>1 DEF Guarded
<1>4. \A r \in Requests : PlaceFits(r)'
  BY <1>1, <1>2 DEF Ledger, PlaceFits, quotas
<1>5. ASSUME NEW j \in Instances PROVE LedgerOf(j)' /\ (Counts(j)' <=> Counts(j))
  <2>1. LedgerOf(j)
    BY <1>2 DEF Ledger
  <2>2. ~BeingReclaimed(j) /\ (Reclaiming(j)' <=> Reclaiming(j))
    BY <1>1 DEF Reclaiming
  <2>3. Grants(j)' /\ Decreases(j)' /\ TakenOnce(j)' /\ Hosted(j)'
        /\ Goes(j)'
    BY <1>1, <2>1 DEF LedgerOf, Grants, Decreases, TakenOnce, TakesOff, Hosted, Goes,
                      Live, Soft, quotas
  <2>4. Exclusive(j)'
    <3>1. \A q \in ApiRequests : /\ Ended(q)' <=> Ended(q)
                                 /\ Locks(q)' <=> Locks(q)
      BY <1>1 DEF Ended, Locks
    <3>2. j \in reclaiming' => \A r \in ApiRequests : req[r].inst = j => Ended(r)
      BY <1>1, <1>3 DEF OldEnough
    <3>3. BeingReclaimed(j)' => j \in reclaiming'
      BY <2>2 DEF BeingReclaimed
    <3> QED  BY <1>1, <2>1, <3>1, <3>2, <3>3 DEF LedgerOf, Exclusive
  <2>5. Reclaims(j)'
    BY <1>1, <2>2 DEF Reclaims, BeingReclaimed, Live
  <2>6. SoftDestroys(j)' <=> SoftDestroys(j)
    BY <1>1 DEF SoftDestroys, Soft
  <2>7. Copies(j)'
    BY <1>1, <2>1, <2>6 DEF LedgerOf, Copies, Live, Soft
  <2>8. Counts(j)' <=> Counts(j)
    BY <1>1, <2>6 DEF Counts, Owed, Live, Granting, Returning, Taken, TakesOff, quotas
  <2> QED  BY <2>3, <2>4, <2>5, <2>7, <2>8 DEF LedgerOf
<1>6. Plain'
  BY <1>1, <1>2 DEF Plain, Soft, quotas
<1>7. Ledger'
  BY <1>4, <1>5, <1>6 DEF Ledger
<1>8. /\ Lossy => Lossy'
      /\ in_use' = in_use /\ in_use + reserved' <= Limit
  BY <1>1, <1>2 DEF Lossy, quotas, Usage
<1> QED  BY <1>2, <1>5, <1>7, <1>8, UsageKept

\* What the host and the expiry do besides.
LEMMA RestKeeps ==
  ASSUME Guarded, QuotaInv, HostInv',
         \/ \E i \in Instances : Reap(i)
         \/ Restart \/ Started \/ UNCHANGED vars
         \/ \E rows \in SUBSET {r \in Requests : Expirable(r)} :
              ExpireRead(rows) /\ UNCHANGED <<row, req, host, restoring, compute>>
  PROVE  Ledger' /\ Usage'
<1>1. Ledger /\ Usage /\ Plain /\ in_use \in Int
  BY DEF QuotaInv, Ledger, HostInv, TypeOK, QuotasTypeOK
<1>2. /\ UNCHANGED <<row, req, build, restoring, reclaiming, in_use, reserved,
                     reservation>>
      /\ \A l \in listed' : l \in listed \/ \E j \in Instances : l.vm_state = row[j].vm_state
      /\ MaxCrashes = 0 => up' = "up" /\ listed' = {} /\ expiring' = NotExpiring
  <2>1. CASE \E i \in Instances : Reap(i)
    BY <1>1, <2>1 DEF Reap, quotas, compute, Plain
  <2>2. CASE Restart
    BY <1>1, <2>2 DEF Restart, quotas, host, Plain
  <2>3. CASE Started
    BY <1>1, <2>3 DEF Started, quotas, host, Plain
  <2>4. CASE UNCHANGED vars
    BY <1>1, <2>4 DEF vars, quotas, host, compute, Plain
  <2>5. CASE \E rows \in SUBSET {r \in Requests : Expirable(r)} :
               ExpireRead(rows) /\ UNCHANGED <<row, req, host, restoring, compute>>
    <3>1. MaxCrashes # 0
      BY <1>1, <2>5 DEF ExpireRead, Expirable, At, Plain
    <3> QED  BY <1>1, <2>5, <3>1 DEF ExpireRead, host, compute
  <2> QED  BY <2>1, <2>2, <2>3, <2>4, <2>5
<1>3. \A r \in Requests : PlaceFits(r)'
  BY <1>1, <1>2 DEF Ledger, PlaceFits
<1>4. Plain'
  BY <1>1, <1>2 DEF Plain, Soft
<1>5. in_use + reserved' <= Limit
  BY <1>1, <1>2 DEF Usage
<1> QED  BY <1>2, <1>3, <1>4, <1>5, NothingCounts

\* Steps after which more may be in use than there is: nobody defers deletions
\* then, and requests of the instances end, or their reservations.
LEMMA LossKeeps ==
  ASSUME Guarded, QuotaInv, HostInv', MaxCrashes > 0,
         \A q \in Requests :
           /\ req'[q].kind = req[q].kind /\ req'[q].inst = req[q].inst
           /\ req'[q].vm_state = req[q].vm_state
           /\ \/ req'[q].pc = req[q].pc
              \/ req[q].pc \in ComputeSide /\ req'[q].pc = "dead"
           /\ \/ reservation'[q] = reservation[q]
              \/ reservation[q] = -1 /\ reservation'[q] = 0,
         \A j \in Instances :
           build'[j] = build[j] \/ (build[j] # "none" /\ build'[j] = "over"),
         UNCHANGED <<row, restoring, in_use, reserved>>,
         reclaiming' \subseteq reclaiming,
         \A l \in listed' : l \in listed
  PROVE  Ledger' /\ Usage'
<1>1. /\ Ledger /\ Usage /\ Plain /\ in_use \in Int /\ KindsFit /\ TypeOK
      /\ ~Deferred /\ MaxCrashes # 0
  BY DEF QuotaInv, Ledger, HostInv, TypeOK, QuotasTypeOK, Guarded
<1>2. /\ \A q \in Requests : ~Soft(q) /\ ~Soft(q)'
                             /\ req[q].kind \notin {"soft", "restore", "reclaim"}
      /\ \A j \in Instances : row[j].vm_state # "soft-delete"
      /\ reclaiming = {} /\ reclaiming' = {}
  BY <1>1 DEF Plain, Soft
<1>3. \A q \in Requests : PlaceFits(q) /\ req[q].kind \in Kinds
  BY <1>1 DEF Ledger, TypeOK, RequestRecords, Kinds
<1>4. \A q \in Requests : PlaceFits(q)'
  BY <1>3 DEF PlaceFits, ComputeSide, Kinds
<1>5. Plain'
  BY <1>1, <1>2 DEF Plain
<1>6. ASSUME NEW j \in Instances PROVE LedgerOf(j)' /\ (Counts(j)' => Counts(j))
  <2>1. LedgerOf(j)
    BY <1>1 DEF Ledger
  <2>2. Grants(j)'
    <3> SUFFICES ASSUME NEW q \in Requests, req[q].inst = j
                 PROVE  /\ req'[q].pc \in {"row", "made", "restore-save", "restore-commit",
                                           "undo"} <=>
                           req[q].pc \in {"row", "made", "restore-save", "restore-commit",
                                          "undo"}
                        /\ req[q].kind = "create" => req'[q].pc = req[q].pc
                        /\ reservation'[q] = 1 <=> reservation[q] = 1
                        /\ build[j] = "none" => build'[j] = "none"
      BY <1>1, <1>2, <2>1 DEF LedgerOf, Grants, Live
    <3> QED  BY <1>3 DEF PlaceFits, ComputeSide
  <2>3. Decreases(j)'
    BY <1>1, <1>2, <2>1 DEF LedgerOf, Decreases, Live
  <2>4. \A q \in Requests : req[q].inst = j /\ TakesOff(q)' => TakesOff(q)
    BY DEF TakesOff
  <2>5. TakenOnce(j)' /\ (Taken(j)' => Taken(j))
    BY <2>1, <2>4 DEF LedgerOf, TakenOnce, Taken
  <2>6. ~BeingReclaimed(j)' /\ ~Reclaiming(j)'
    BY <1>2, DeleteAssumption DEF BeingReclaimed, Reclaiming
  <2>7. Exclusive(j)'
    <3>1. \A q \in ApiRequests : /\ req[q].kind \notin {"soft", "restore"}
                                 /\ req'[q].kind = req[q].kind
                                 /\ req'[q].inst = req[q].inst
                                 /\ Locks(q)' => Locks(q)
      BY <1>2 DEF ApiRequests, Locks, ComputeSide
    <3> QED  BY <2>1, <2>6, <3>1 DEF LedgerOf, Exclusive
  <2>8. Reclaims(j)'
    BY <1>2, <2>6 DEF Reclaims
  <2>9. Copies(j)'
    BY <1>2 DEF Copies
  <2>10. Hosted(j)'
    BY <2>1 DEF LedgerOf, Hosted
  <2>12. Goes(j)'
    BY <1>2 DEF Goes
  <2>11. Counts(j)' => Counts(j)
    <3>1. Owed(j)' => Owed(j)
      BY <1>2 DEF Owed, Live, SoftDestroys
    <3>2. /\ Granting(j)' <=> Granting(j)
          /\ Returning(j)' <=> Returning(j)
      BY DEF Granting, Returning
    <3> QED  BY <2>5, <3>1, <3>2 DEF Counts
  <2> QED  BY <2>2, <2>3, <2>5, <2>7, <2>8, <2>9, <2>10, <2>11,
               <2>12 DEF LedgerOf
<1>7. Ledger'
  BY <1>4, <1>5, <1>6 DEF Ledger
<1>8. Lossy' /\ in_use + reserved' <= Limit
  BY <1>1 DEF Lossy, Usage
<1> QED  BY <1>1, <1>6, <1>7, <1>8, UsageKept

LEMMA LossSteps ==
  ASSUME Guarded, QuotaInv, HostInv',
         Crash \/ /\ ExpireWrite
                  /\ UNCHANGED <<row, req, host, restoring, compute>>
  PROVE  Ledger' /\ Usage'
<1>1. /\ Ledger /\ Usage /\ Plain /\ TypeOK /\ Named /\ Reservations
      /\ req \in [Requests -> RequestRecords]
      /\ build \in [Instances -> {"none", "queued", "over"} \cup Building]
      /\ reservation \in [Requests -> Deltas] /\ reserved \in Int
      /\ crashes \in 0 .. MaxCrashes /\ MaxCrashes \in Nat
  BY DeleteAssumption DEF QuotaInv, Ledger, HostInv, TypeOK, QuotasTypeOK
<1>2. CASE Crash
  <2>1. MaxCrashes > 0
    BY <1>1, <1>2 DEF Crash
  <2>2. /\ req' = [r \in Requests |-> IF req[r].pc \in ComputeSide
                                      THEN [req[r] EXCEPT !.pc = "dead"] ELSE req[r]]
        /\ build' = [i \in Instances |->
                      IF build[i] \in Building THEN "over" ELSE build[i]]
        /\ reclaiming' = {} /\ listed' = {}
        /\ UNCHANGED <<row, restoring, in_use, reserved, reservation>>
    BY <1>2 DEF Crash, quotas
  <2>3. \A q \in Requests :
           /\ req'[q].kind = req[q].kind /\ req'[q].inst = req[q].inst
           /\ req'[q].vm_state = req[q].vm_state
           /\ \/ req'[q].pc = req[q].pc
              \/ req[q].pc \in ComputeSide /\ req'[q].pc = "dead"
    <3> SUFFICES ASSUME NEW q \in Requests
                 PROVE  /\ req'[q].kind = req[q].kind /\ req'[q].inst = req[q].inst
                        /\ req'[q].vm_state = req[q].vm_state
                        /\ \/ req'[q].pc = req[q].pc
                           \/ req[q].pc \in ComputeSide /\ req'[q].pc = "dead"
      OBVIOUS
    <3>1. CASE req[q].pc \in ComputeSide
      <4>1. req'[q] = [req[q] EXCEPT !.pc = "dead"] /\ req[q] \in RequestRecords
        BY <1>1, <2>2, <3>1
      <4> QED  BY <3>1, <4>1 DEF RequestRecords
    <3>2. CASE req[q].pc \notin ComputeSide
      BY <2>2, <3>2
    <3> QED  BY <3>1, <3>2
  <2>4. \A j \in Instances :
           build'[j] = build[j] \/ (build[j] # "none" /\ build'[j] = "over")
    <3> SUFFICES ASSUME NEW j \in Instances
                 PROVE  build'[j] = build[j] \/ (build[j] # "none" /\ build'[j] = "over")
      OBVIOUS
    <3>1. CASE build[j] \in Building
      <4>1. build'[j] = "over"
        BY <2>2, <3>1
      <4> QED  BY <3>1, <4>1 DEF Building
    <3>2. CASE build[j] \notin Building
      BY <2>2, <3>2
    <3> QED  BY <3>1, <3>2
  <2> QED  BY <2>1, <2>2, <2>3, <2>4, LossKeeps
<1>3. CASE ExpireWrite /\ UNCHANGED <<row, req, host, restoring, compute>>
  <2>1. expiring # NotExpiring /\ expiring \in Expiries
    BY <1>3 DEF ExpireWrite, QuotaInv, HostInv, TypeOK, QuotasTypeOK
  <2>2. MaxCrashes > 0
    BY <1>1, <2>1 DEF Plain
  <2>3. \A r \in expiring.rows : r \in Requests /\ reservation[r] # 1
    <3> SUFFICES ASSUME NEW r \in expiring.rows PROVE r \in Requests /\ reservation[r] # 1
      OBVIOUS
    <3>1. r \in Requests
      BY <2>1 DEF Expiries
    <3>2. CASE r \in Instances
      BY <1>1, <3>1, <3>2 DEF Reservations, NothingHeldYet, Pending
    <3>3. CASE r \in ApiRequests /\ At(r, "dead")
      <4>1. req[r].inst \in Instances
        BY <1>1, <3>1, <3>3 DEF Named, At
      <4> QED  BY <1>1, <3>1, <3>3, <4>1 DEF Ledger, LedgerOf, Grants, At
    <3> QED  BY <1>1, <3>2, <3>3 DEF Reservations, ExpiryHolds
  <2>4. expiring.rows \cap Pending = {}
    BY <1>1, <2>3 DEF Pending, Deltas
  <2>5. expiring.held = 0
    BY <1>1, <2>4, FS_EmptySet DEF Reservations, ExpiryHolds
  <2>6. /\ in_use' = in_use /\ reserved' = reserved
        /\ reservation' = [r \in Requests |->
                             IF r \in expiring.rows THEN 0 ELSE reservation[r]]
        /\ UNCHANGED <<row, req, build, restoring, up, listed, reclaiming>>
    BY <1>3, <2>5 DEF ExpireWrite, host, compute
  <2>7. \A q \in Requests : \/ reservation'[q] = reservation[q]
                            \/ reservation[q] = -1 /\ reservation'[q] = 0
    BY <1>1, <2>3, <2>6 DEF Deltas
  <2>8. \A q \in Requests :
           /\ req'[q].kind = req[q].kind /\ req'[q].inst = req[q].inst
           /\ req'[q].vm_state = req[q].vm_state
           /\ \/ req'[q].pc = req[q].pc
              \/ req[q].pc \in ComputeSide /\ req'[q].pc = "dead"
    BY <2>6
  <2>9. \A j \in Instances :
           build'[j] = build[j] \/ (build[j] # "none" /\ build'[j] = "over")
    BY <2>6
  <2>10. reclaiming' \subseteq reclaiming /\ \A l \in listed' : l \in listed
    BY <2>6
  <2> QED  BY <2>2, <2>6, <2>7, <2>8, <2>9, <2>10, LossKeeps
<1> QED  BY <1>2, <1>3

\* A step keeps the account of the quotas.
LEMMA NextKeepsQuota ==
  ASSUME Guarded, QuotaInv, HostInv', [Next]_vars
  PROVE  Ledger' /\ Usage'
<1>1. ASSUME NEW r \in ApiRequests, User(r) PROVE Ledger' /\ Usage'
  <2>1. PICK i \in Instances, aged \in Ages :
             \/ CreateRequest(r, i, aged)
             \/ \E kind \in {"delete", "soft"} : DeleteRequest(r, i, kind)
             \/ RestoreRequest(r, i, aged)
    BY <1>1 DEF User
  <2> QED  BY <2>1, CreateBegins, DeleteBegins, RestoreBegins
<1>2. ASSUME NEW r \in Requests, Api(r) PROVE Ledger' /\ Usage'
  <2>1. CASE \/ Undo(r) \/ CastDelete(r) \/ LocalDelete(r)
             \/ \E aged \in Ages : DeleteReserve(r, aged)
    BY <2>1, ApiSilent
  <2>2. CASE CreateRow(r) \/ CreateCommit(r)
    BY <2>2, CreateSteps
  <2>3. CASE RestoreSave(r) \/ RestoreCommit(r)
    BY <2>3, RestoreSteps
  <2>4. CASE DeleteCommit(r)
    BY <2>4, DeletionCommits
  <2>5. CASE DeleteSave(r) \/ LocalSave(r)
    <3>1. CASE Live(req[r].inst)
      BY <2>5, <3>1, SaveStep
    <3>2. CASE ~Live(req[r].inst)
      BY <2>5, <3>2, ApiSilent
    <3> QED  BY <3>1, <3>2
  <2>6. CASE LocalDestroy(r)
    <3>1. CASE Live(req[r].inst)
      BY <2>6, <3>1, DestroyStep
    <3>2. CASE ~Live(req[r].inst)
      BY <2>6, <3>2, ApiSilent
    <3> QED  BY <3>1, <3>2
  <2>7. CASE DestroyUnhosted(r)
    <3>1. CASE ~Live(req[r].inst)
      BY <2>7, <3>1, ApiSilent
    <3>2. CASE Live(req[r].inst) /\ ~row[req[r].inst].hosted
      BY <2>7, <3>2, DestroyStep
    <3>3. CASE Live(req[r].inst) /\ row[req[r].inst].hosted
      BY <2>7, <3>3, SaveStep
    <3> QED  BY <3>1, <3>2, <3>3
  <2> QED  BY <1>2, <2>1, <2>2, <2>3, <2>4, <2>5, <2>6, <2>7 DEF Api
<1>3. ASSUME NEW r \in Requests, Handler(r) PROVE Ledger' /\ Usage'
  <2>1. CASE \/ Receive(r) \/ Terminate(r) \/ Shutdown(r)
             \/ \E aged \in Ages : InitReserve(r, aged)
    BY <2>1, HandlerSilent
  <2>2. CASE RestoreInstance(r)
    BY <2>2, RestoreSteps
  <2>3. CASE CompleteDeletion(r)
    BY <2>3, DeletionCommits
  <2>4. CASE SaveDeleted(r)
    <3>1. CASE Live(req[r].inst)
      BY <2>4, <3>1, SaveStep
    <3>2. CASE ~Live(req[r].inst)
      BY <2>4, <3>2, HandlerSilent
    <3> QED  BY <3>1, <3>2
  <2>5. CASE DestroyRow(r) \/ InitDestroy(r)
    <3>1. CASE Live(req[r].inst)
      BY <2>5, <3>1, DestroyStep
    <3>2. CASE ~Live(req[r].inst)
      BY <2>5, <3>2, HandlerSilent
    <3> QED  BY <3>1, <3>2
  <2>6. CASE SoftDeleteInstance(r)
    <3>1. CASE Live(req[r].inst) /\ row[req[r].inst].task_state = "soft-deleting"
      BY <2>6, <3>1, SaveStep
    <3>2. CASE ~(Live(req[r].inst) /\ row[req[r].inst].task_state = "soft-deleting")
      BY <2>6, <3>2, HandlerSilent
    <3> QED  BY <3>1, <3>2
  <2> QED  BY <1>3, <2>1, <2>2, <2>3, <2>4, <2>5, <2>6 DEF Handler
<1>4. ASSUME NEW r \in Requests, Fault(r) PROVE Ledger' /\ Usage'
  <2>1. CASE CreateFails(r)
    BY <2>1, CreateSteps
  <2>2. CASE RestoreFails(r)
    BY <2>2, RestoreSteps
  <2>3. CASE ShutdownFails(r)
    <3>1. CASE Live(req[r].inst) /\ req[r].kind # "reclaim"
      BY <2>3, <3>1, SaveStep
    <3>2. CASE ~(Live(req[r].inst) /\ req[r].kind # "reclaim")
      <4>1. UNCHANGED row
        BY <2>3, <3>2 DEF ShutdownFails
      <4> QED  BY <2>3, <4>1, HandlerSilent
    <3> QED  BY <3>1, <3>2
  <2>4. CASE SoftDeleteFails(r)
    <3>1. CASE Live(req[r].inst)
      BY <2>4, <3>1, SaveStep
    <3>2. CASE ~Live(req[r].inst)
      <4>1. UNCHANGED row
        BY <2>4, <3>2 DEF SoftDeleteFails
      <4> QED  BY <2>4, <4>1, HandlerSilent
    <3> QED  BY <3>1, <3>2
  <2>5. ~ApiDies(r)
    BY DEF Guarded, ApiDies
  <2> QED  BY <1>4, <2>1, <2>2, <2>3, <2>4, <2>5 DEF Fault
<1>5. CASE \E i \in Instances :
              \/ BuildStep(i) \/ BuildRefused(i) \/ BuildFails(i)
              \/ BuildCleanupFails(i) \/ ScheduleFails(i)
  BY <1>5, BuildSteps
<1>6. CASE \E i \in Instances : ReclaimInstance(i)
  BY <1>6, ReclaimBegins
<1>7. CASE ReclaimList
  BY <1>7, ReclaimLists
<1>8. CASE Crash
  BY <1>8, LossSteps
<1>9. CASE Restart \/ Started \/ UNCHANGED vars \/ \E i \in Instances : Reap(i)
  BY <1>9, RestKeeps
<1>10. CASE \E l \in listed : InitInstance(l)
  BY <1>10, InitBegins
<1>11. CASE Expire
  <2>1. CASE \E rows \in SUBSET {r \in Requests : Expirable(r)} : ExpireRead(rows)
    <3>1. \E rows \in SUBSET {r \in Requests : Expirable(r)} :
             ExpireRead(rows) /\ UNCHANGED <<row, req, host, restoring, compute>>
      BY <1>11, <2>1 DEF Expire
    <3> QED  BY <3>1, RestKeeps
  <2>2. CASE ExpireWrite
    BY <1>11, <2>2, LossSteps DEF Expire
  <2> QED  BY <1>11, <2>1, <2>2 DEF Expire
<1> QED
  BY <1>1, <1>2, <1>3, <1>4, <1>5, <1>6, <1>7, <1>8, <1>9, <1>10, <1>11 DEF Next

LEMMA QuotaInit ==
  ASSUME Init PROVE Ledger /\ Usage
<1>1. /\ \A r \in Requests : /\ req[r] = NoRequest /\ restoring[r] = "none"
                             /\ reservation[r] = 0
      /\ \A i \in Instances : row[i] = NoRow /\ build[i] = "none"
      /\ up = "up" /\ listed = {} /\ reclaiming = {} /\ expiring = NotExpiring
      /\ in_use = 0 /\ reserved = 0
  BY DEF Init, QuotasInit
<1>2. \A r \in Requests : /\ req[r].kind = "none" /\ req[r].inst = "none"
                          /\ req[r].pc = "unused" /\ req[r].vm_state = "building"
  BY <1>1 DEF NoRequest
<1>3. \A i \in Instances : /\ row[i].stage = "absent" /\ ~row[i].launched
                           /\ row[i].vm_state = "building" /\ i # "none"
  BY <1>1, DeleteAssumption DEF NoRow
<1>4. \A r \in Requests : PlaceFits(r)
  BY <1>1, <1>2, DeleteAssumption DEF PlaceFits
<1>5. ASSUME NEW i \in Instances PROVE LedgerOf(i) /\ ~Counts(i)
  <2>1. \A r \in Requests : req[r].inst # i
    BY <1>2, <1>3
  <2>2. Grants(i) /\ Decreases(i) /\ TakenOnce(i) /\ Copies(i)
    BY <2>1 DEF Grants, Decreases, TakenOnce, Copies
  <2>3. ~BeingReclaimed(i) /\ ~Reclaiming(i)
    BY <1>1, <1>2, DeleteAssumption DEF BeingReclaimed, Reclaiming
  <2>4. Exclusive(i)
    BY <2>1, <2>3 DEF Exclusive, ApiRequests
  <2>5. Reclaims(i) /\ Hosted(i) /\ Goes(i)
    BY <1>1, <1>3, <2>1, <2>3 DEF Reclaims, Hosted, Goes
  <2>6. ~Counts(i)
    BY <1>3, <2>1 DEF Counts, Owed, Live, Granting, Returning, Taken
  <2> QED  BY <2>2, <2>4, <2>5, <2>6 DEF LedgerOf
<1>6. Plain
  BY <1>1, <1>2, <1>3 DEF Plain, Soft
<1>7. Usage
  <2>1. Counted = {}
    BY <1>5 DEF Counted
  <2>2. Cardinality(Counted) = 0
    BY <2>1, FS_EmptySet
  <2> QED  BY <1>1, <2>2, QuotasAssumption DEF Usage
<1> QED  BY <1>4, <1>5, <1>6, <1>7 DEF Ledger

\* The inductive invariant of the quotas.
LEMMA QuotaInvariant ==
  ASSUME Guarded
  PROVE  Spec => []QuotaInv
<1>1. Init => Ledger /\ Usage
  BY QuotaInit
<1>2. HostInv /\ Reservations /\ Ledger /\ Usage /\ HostInv' /\ [Next]_vars
      => (Ledger /\ Usage)'
  BY NextKeepsQuota DEF QuotaInv
<1>3. "heartbeat-build" \notin Races /\ "expire" \notin Races
  BY DEF Guarded
<1>4. Spec => []HostInv
  BY <1>3, HostInvariant
<1>5. Spec => []Reservations
  BY <1>3, ReservationsInvariant
<1> QED  BY <1>1, <1>2, <1>4, <1>5, PTL DEF Spec, QuotaInv

\* An instance that is charged counts, or a reservation pays for it.
LEMMA ChargedCounts ==
  ASSUME QuotaInv
  PROVE  Charged \subseteq Counted \cup {req[r].inst : r \in Pending}
<1> SUFFICES ASSUME NEW i \in Charged
             PROVE  i \in Counted \/ \E r \in Pending : req[r].inst = i
  OBVIOUS
<1>1. i \in Instances /\ Live(i) /\ row[i].vm_state \notin {"soft-delete", "deleted"}
  BY DEF Charged
<1>2. ~SoftDestroys(i)
  BY <1>1 DEF QuotaInv, Ledger, LedgerOf, Goes, SoftDestroys
<1>3. Owed(i)
  BY <1>1, <1>2 DEF Owed
<1>4. Granting(i) => \E r \in Pending : req[r].inst = i
  BY DEF Granting, Pending
<1> QED  BY <1>1, <1>3, <1>4 DEF Counted, Counts

\* When all is quiet nothing is pending, and what counts is what is charged.
LEMMA QuietCounts ==
  ASSUME QuotaInv, Quiet, MaxCrashes = 0
  PROVE  Pending = {} /\ Charged = Counted /\ ~Lossy
<1>1. /\ Ledger /\ reservation \in [Requests -> Deltas]
      /\ \A r \in Requests : req[r].inst \in Instances \cup {"none"}
      /\ \A r \in Requests : PlaceFits(r)
  BY DEF QuotaInv, Ledger, HostInv, TypeOK, QuotasTypeOK, RequestRecords
<1>2. \A r \in Requests : req[r].pc \in {"unused", "over"} /\ restoring[r] = "none"
  BY DEF Quiet
<1>3. ASSUME NEW r \in Requests PROVE reservation[r] # 1
  <2>1. CASE req[r].inst = "none"
    BY <1>1, <2>1 DEF PlaceFits
  <2>2. CASE req[r].inst \in Instances
    BY <1>1, <1>2, <2>2 DEF Ledger, LedgerOf, Grants
  <2> QED  BY <1>1, <2>1, <2>2
<1>4. Pending = {}
  BY <1>1, <1>3 DEF Pending, Deltas
<1>5. \A i \in Instances : ~SoftDestroys(i) /\ ~Granting(i) /\ ~Returning(i) /\ ~Taken(i)
  BY <1>2, <1>3 DEF SoftDestroys, Granting, Returning, Taken, TakesOff
<1>6. \A i \in Instances : Counts(i) <=> Live(i) /\ row[i].vm_state # "soft-delete"
  BY <1>5 DEF Counts, Owed
<1>7. Charged = Counted
  BY <1>6 DEF Quiet, Charged, Counted
<1>8. ~Lossy
  BY <1>2 DEF Lossy
<1> QED  BY <1>4, <1>7, <1>8

\* Whoever is charged is in use, or reserved.
LEMMA ChargedPaid ==
  ASSUME QuotaInv
  PROVE  NeverUnder /\ WithinQuota
<1> DEFINE paid == {req[r].inst : r \in Pending}
<1>1. /\ IsFiniteSet(Pending) /\ Cardinality(Pending) \in Nat
  BY PendingFinite
<1>2. IsFiniteSet(paid) /\ Cardinality(paid) <= Cardinality(Pending)
  <2> DEFINE f == [r \in Pending |-> req[r].inst]
  <2>1. f \in Surjection(Pending, paid)
    BY DEF Surjection
  <2> QED  BY <1>1, <2>1, FS_Surjection
<1>3. IsFiniteSet(Counted)
  BY CountedFinite
<1>4. /\ IsFiniteSet(Counted \cup paid)
      /\ Cardinality(Counted \cup paid) <= Cardinality(Counted) + Cardinality(paid)
      /\ Cardinality(Counted) \in Nat /\ Cardinality(paid) \in Nat
  <2> HIDE DEF paid
  <2>1. /\ Cardinality(Counted) \in Nat /\ Cardinality(paid) \in Nat
        /\ Cardinality(Counted \cap paid) \in Nat
    BY <1>2, <1>3, FS_Intersection, FS_CardinalityType
  <2>2. /\ IsFiniteSet(Counted \cup paid)
        /\ Cardinality(Counted \cup paid) =
              Cardinality(Counted) + Cardinality(paid) - Cardinality(Counted \cap paid)
    BY <1>2, <1>3, FS_Union
  <2> QED  BY <2>1, <2>2
<1>5. /\ Cardinality(Charged) <= Cardinality(Counted \cup paid)
      /\ IsFiniteSet(Charged) /\ Cardinality(Charged) \in Nat
      /\ Cardinality(Counted \cup paid) \in Nat
  BY <1>4, ChargedCounts, FS_Subset, FS_CardinalityType
<1>6. reserved = Cardinality(Pending) /\ in_use \in Int
  BY DEF QuotaInv, Reservations, ReservedIsHeld, HostInv, TypeOK, QuotasTypeOK
<1>7. Cardinality(Counted) <= in_use /\ in_use + reserved <= Limit
  BY DEF QuotaInv, Usage
<1> HIDE DEF paid
<1>8. in_use + reserved >= Cardinality(Charged)
  BY <1>1, <1>2, <1>4, <1>5, <1>6, <1>7
<1>9. Cardinality(Charged) <= Limit
  BY <1>1, <1>5, <1>6, <1>7, <1>8, QuotasAssumption
<1> QED  BY <1>8, <1>9 DEF NeverUnder, WithinQuota

\* Whoever creates, deletes, deletes again, restores or finishes an interrupted
\* deletion, and whatever fails: the usage row never counts less than there is.
\* No instance is taken off twice, none by a request that did not make it go.
THEOREM UsageNeverUnder ==
  ASSUME Guarded
  PROVE  Spec => []NeverUnder
<1>1. QuotaInv => NeverUnder
  BY ChargedPaid
<1> QED  BY <1>1, QuotaInvariant, PTL

\* Nobody gets more instances than the quota allows, whichever of the create
\* and restore requests that reserve at the same time go through, fail or are
\* followed by deletions.
THEOREM QuotaHolds ==
  ASSUME Guarded
  PROVE  Spec => []WithinQuota
<1>1. QuotaInv => WithinQuota
  BY ChargedPaid
<1> QED  BY <1>1, QuotaInvariant, PTL

\* Without a crash of nova-compute nothing is forgotten: when no request is
\* under way, and no restore has failed after it was granted, the usage row
\* counts the instances, and no reservation is left.
THEOREM UsageIsExact ==
  ASSUME Guarded, MaxCrashes = 0
  PROVE  Spec => []UsageExact
<1>1. QuotaInv => UsageExact
  <2> SUFFICES ASSUME QuotaInv, Quiet
               PROVE  reserved = 0 /\ in_use = Cardinality(Charged)
    BY DEF UsageExact
  <2>1. Pending = {} /\ Charged = Counted /\ ~Lossy
    BY QuietCounts
  <2>2. reserved = 0
    BY <2>1, FS_EmptySet DEF QuotaInv, Reservations, ReservedIsHeld
  <2> QED  BY <2>1, <2>2 DEF QuotaInv, Usage
<1> QED  BY <1>1, QuotaInvariant, PTL
==============================================================================
