------------------------ MODULE LiveMigrationProofs ------------------------
(***************************************************************************)
(* TLAPS proofs about LiveMigration, for every set of hosts and every      *)
(* bound on requests and crashes.                                          *)
(***************************************************************************)
EXTENDS LiveMigration, FiniteSetTheorems, TLAPS

(* The initial state is well typed. *)
LEMMA InitTypeOK == Init => TypeOK
  BY HostsAssumption, BoundsAssumption, ConfigAssumption
  DEF Init, TypeOK, Migs, Artefacts, PCs, Statuses, Requests, Bare

(* Every handler keeps the types, the crash and restart of a host included. *)
LEMMA NextTypeOK == TypeOK /\ [Next]_vars => TypeOK'
<1> SUFFICES ASSUME TypeOK, [Next]_vars PROVE TypeOK'
  OBVIOUS
<1> USE DEF TypeOK, PCs, Statuses, Goto, SetStatus, Fail, inst, hyp, mig
<1>1. ASSUME NEW m \in Migs, LiveMigrate(m) PROVE TypeOK'
  BY <1>1 DEF LiveMigrate
<1>2. ASSUME NEW m \in Migs, Conductor(m) PROVE TypeOK'
  BY <1>2 DEF Conductor, ConductorSend, ConductorRefuse, ConductorFail
<1>3. ASSUME NEW m \in Migs, Source(m) PROVE TypeOK'
  <2>1. CASE LiveMigration(m)
    BY <2>1 DEF LiveMigration
  <2>2. CASE DoLiveMigration(m)
    BY <2>2 DEF DoLiveMigration, Requests
  <2>3. CASE StartJob(m)
    BY <2>3 DEF StartJob
  <2>4. CASE PreLiveMigrationFailed(m)
    BY <2>4 DEF PreLiveMigrationFailed
  <2>5. CASE MonitorCompleted(m) \/ MonitorFailed(m)
    BY <2>5 DEF MonitorCompleted, MonitorFailed
  <2>6. CASE PostLiveMigration(m)
    <3>1. has' \in [Hosts -> SUBSET Artefacts]
      BY <2>6 DEF PostLiveMigration
    <3>2. msgs' \in SUBSET Requests
      BY <2>6 DEF PostLiveMigration, Requests
    <3>. QED
      BY <2>6, <3>1, <3>2 DEF PostLiveMigration
  <2>7. CASE PostCleanup(m)
    BY <2>7 DEF PostCleanup, Artefacts
  <2>8. CASE RollbackLiveMigration(m)
    BY <2>8 DEF RollbackLiveMigration, Requests
  <2>9. CASE RollbackFinish(m)
    BY <2>9 DEF RollbackFinish, Requests
  <2>10. CASE RollbackFails(m)
    BY <2>10 DEF RollbackFails
  <2>. QED
    BY <1>3, <2>1, <2>2, <2>3, <2>4, <2>5, <2>6, <2>7, <2>8, <2>9, <2>10
    DEF Source
<1>4. ASSUME NEW m \in Migs, Destination(m) PROVE TypeOK'
  <2> USE DEF Receive, Answer
  <2>1. CASE PreLiveMigration(m)
    BY <2>1 DEF PreLiveMigration, Artefacts
  <2>2. CASE RemoveVolumeConnection(m)
    BY <2>2 DEF RemoveVolumeConnection, Artefacts
  <2>3. CASE PostLiveMigrationAtDestination(m)
    BY <2>3, HostsAssumption DEF PostLiveMigrationAtDestination, RecordAtDestination
  <2>4. CASE RollbackLiveMigrationAtDestination(m)
    BY <2>4 DEF RollbackLiveMigrationAtDestination
  <2>. QED
    BY <1>4, <2>1, <2>2, <2>3, <2>4 DEF Destination
<1>5. ASSUME NEW m \in Migs, Libvirt(m) PROVE TypeOK'
  BY <1>5 DEF Libvirt, JobCompletes, JobFails
<1>6. ASSUME NEW m \in Migs, Fault(m) PROVE TypeOK'
  BY <1>6 DEF Fault, MonitorMisreads, MonitorRaises, PostFails, Artefacts
<1>7. ASSUME NEW h \in Hosts, Crash(h) PROVE TypeOK'
  BY <1>7, BoundsAssumption DEF Crash
<1>8. ASSUME NEW h \in Hosts, Restart(h) PROVE TypeOK'
  BY <1>8 DEF Restart, InitInstance, Artefacts
<1>9. CASE UNCHANGED vars
  BY <1>9 DEF vars
<1>. QED
  BY <1>1, <1>2, <1>3, <1>4, <1>5, <1>6, <1>7, <1>8, <1>9 DEF Next

(* Type correctness of the whole protocol. *)
THEOREM TypeCorrect == Spec => []TypeOK
  BY InitTypeOK, NextTypeOK, PTL DEF Spec

-----------------------------------------------------------------------------
(* The two ends of a migration *)

Engaged(m) == \/ pc[m] \in Threads \cup {"sent"}
              \/ job[m] # "none"
              \/ <<"pre", m>> \in msgs \/ <<"remove", m>> \in msgs
              \/ <<"post", m>> \in msgs \/ <<"rollback", m>> \in msgs

Ends(m) == /\ pc[m] # "unused" => src[m] \in Hosts
           /\ Engaged(m) => /\ pc[m] # "unused"
                            /\ dst[m] \in Hosts \ {src[m]}

(* A migration anything works for was sent between two different hosts. *)
EndsOK == \A m \in Migs : Ends(m)

(* The destination is fixed before the source hears of the migration. *)
LEMMA EndsInvariant == Spec => []EndsOK
<1>1. Init => EndsOK
  BY DEF Init, EndsOK, Ends, Engaged, Threads, Holding
<1>2. TypeOK /\ EndsOK /\ [Next]_vars => EndsOK'
  <2> SUFFICES ASSUME TypeOK, EndsOK, [Next]_vars, NEW n \in Migs
               PROVE  Ends(n)'
    BY DEF EndsOK
  <2>. Ends(n)
    BY DEF EndsOK
  <2> USE DEF TypeOK, Ends, Engaged, Threads, Holding, Goto, SetStatus,
              Fail, mig
  <2>1. ASSUME NEW m \in Migs, LiveMigrate(m) PROVE Ends(n)'
    BY <2>1 DEF LiveMigrate
  <2>2. ASSUME NEW m \in Migs, Conductor(m) PROVE Ends(n)'
    BY <2>2 DEF Conductor, ConductorSend, ConductorRefuse, ConductorFail
  <2>3. ASSUME NEW m \in Migs, Source(m) PROVE Ends(n)'
    <3>. Ends(m)
      BY DEF EndsOK
    <3>1. CASE LiveMigration(m) \/ DoLiveMigration(m)
      BY <3>1 DEF LiveMigration, DoLiveMigration
    <3>2. CASE StartJob(m)
      BY <3>2 DEF StartJob
    <3>3. CASE PreLiveMigrationFailed(m) \/ MonitorCompleted(m)
               \/ MonitorFailed(m)
      BY <3>3 DEF PreLiveMigrationFailed, MonitorCompleted, MonitorFailed
    <3>4. CASE PostLiveMigration(m) \/ PostCleanup(m)
      BY <3>4 DEF PostLiveMigration, PostCleanup
    <3>5. CASE RollbackLiveMigration(m)
      BY <3>5 DEF RollbackLiveMigration
    <3>6. CASE RollbackFinish(m) \/ RollbackFails(m)
      BY <3>6 DEF RollbackFinish, RollbackFails
    <3>. QED
      BY <2>3, <3>1, <3>2, <3>3, <3>4, <3>5, <3>6 DEF Source
  <2>4. ASSUME NEW m \in Migs, Destination(m) PROVE Ends(n)'
    BY <2>4 DEF Destination, Receive, PreLiveMigration, RemoveVolumeConnection,
         PostLiveMigrationAtDestination, RollbackLiveMigrationAtDestination
  <2>5. ASSUME NEW m \in Migs, Libvirt(m) \/ Fault(m) PROVE Ends(n)'
    BY <2>5 DEF Libvirt, JobCompletes, JobFails, Fault, MonitorMisreads,
         MonitorRaises, PostFails
  <2>6. ASSUME NEW h \in Hosts, Crash(h) \/ Restart(h) PROVE Ends(n)'
    BY <2>6 DEF Crash, Restart
  <2>7. CASE UNCHANGED vars
    BY <2>7 DEF vars
  <2>. QED
    BY <2>1, <2>2, <2>3, <2>4, <2>5, <2>6, <2>7 DEF Next
<1>. QED
  BY <1>1, <1>2, TypeCorrect, PTL DEF Spec

-----------------------------------------------------------------------------
(* Where the guest is, as seen from a migration that holds the lock *)

Dead == \A h \in Hosts : domain[h] # "running"
Home == \A h \in Hosts : domain[h] = "running" => h = host
Away(m) == \A h \in Hosts : domain[h] = "running" => h = dst[m]

PostSent(m) == <<"post", m>> \in msgs

Placed(m) ==
  /\ Owns(m) => src[m] = host
  /\ pc[m] \in {"requested", "sent", "queued", "preparing", "rollback"} => Home
  /\ pc[m] = "running" => \/ Home
                          \/ /\ job[m] = "over"
                             /\ Away(m)
                             /\ domain[src[m]] = "none"
  /\ pc[m] = "post" \/ PostSent(m) => Away(m)
  /\ PostSent(m) => pc[m] \in {"cleanup", "over"}
  /\ job[m] = "active" => pc[m] = "running" \/ Dead

(* OneOwner and NotForgotten, made inductive. *)
LockInv == /\ up = Hosts
           /\ OneOwner
           /\ NotForgotten
           /\ \A m \in Migs : Placed(m)

-----------------------------------------------------------------------------
(* The guest: never two copies, never none *)

(* A domain becomes "running" only by the switchover, which stops it at the *)
(* source, as long as _init_instance starts no guest.                       *)
THEOREM GuestRunsOnce ==
  ASSUME ~ResumeOnBoot
  PROVE  Spec => []AtMostOneGuest
<1>1. Init => AtMostOneGuest
  BY DEF Init, AtMostOneGuest
<1>2. TypeOK /\ EndsOK /\ AtMostOneGuest /\ [Next]_vars => AtMostOneGuest'
  <2> SUFFICES ASSUME TypeOK, EndsOK, AtMostOneGuest, [Next]_vars
               PROVE  AtMostOneGuest'
    OBVIOUS
  <2> USE DEF TypeOK, AtMostOneGuest, hyp
  <2>1. ASSUME NEW m \in Migs, LiveMigrate(m) \/ Conductor(m) \/ Fault(m)
        PROVE  AtMostOneGuest'
    BY <2>1 DEF LiveMigrate, Conductor, ConductorSend, ConductorRefuse,
                ConductorFail, Fault, MonitorMisreads, MonitorRaises, PostFails
  <2>2. ASSUME NEW m \in Migs, Source(m) PROVE AtMostOneGuest'
    <3>1. CASE StartJob(m)
      BY <3>1 DEF StartJob
    <3>2. CASE ~StartJob(m)
      BY <2>2, <3>2 DEF Source, LiveMigration, DoLiveMigration,
           PreLiveMigrationFailed, MonitorCompleted, MonitorFailed,
           PostLiveMigration, PostCleanup, RollbackLiveMigration,
           RollbackFinish, RollbackFails
    <3>. QED
      BY <3>1, <3>2
  <2>3. ASSUME NEW m \in Migs, Destination(m) PROVE AtMostOneGuest'
    BY <2>3 DEF Destination, PreLiveMigration, RemoveVolumeConnection,
         PostLiveMigrationAtDestination, RollbackLiveMigrationAtDestination
  <2>4. ASSUME NEW m \in Migs, Libvirt(m) PROVE AtMostOneGuest'
    <3>. job[m] = "active" => src[m] \in Hosts /\ dst[m] \in Hosts \ {src[m]}
      BY DEF EndsOK, Ends, Engaged
    <3>1. CASE JobCompletes(m)
      BY <3>1 DEF JobCompletes
    <3>2. CASE JobFails(m)
      BY <3>2 DEF JobFails
    <3>. QED
      BY <2>4, <3>1, <3>2 DEF Libvirt
  <2>5. ASSUME NEW h \in Hosts, Crash(h) \/ Restart(h) PROVE AtMostOneGuest'
    BY <2>5 DEF Crash, Restart, InitInstance, Resumes
  <2>6. CASE UNCHANGED vars
    BY <2>6 DEF vars
  <2>. QED
    BY <2>1, <2>2, <2>3, <2>4, <2>5, <2>6 DEF Next
<1>. QED
  BY <1>1, <1>2, TypeCorrect, EndsInvariant, PTL DEF Spec

(* On shared storage no rollback is ever sent to a destination ... *)
NoRollbackSent == \A m \in Migs : <<"rollback", m>> \notin msgs

(* ... so the guest survives whatever fails, crashes or comes late. *)
LEMMA GuestKept ==
  ASSUME SharedPath
  PROVE  Spec => [](NoRollbackSent /\ GuestAlive)
<1> DEFINE Inv == NoRollbackSent /\ GuestAlive
<1>1. Init => Inv
  BY DEF Init, NoRollbackSent, GuestAlive
<1>2. TypeOK /\ EndsOK /\ Inv /\ [Next]_vars => Inv'
  <2> SUFFICES ASSUME TypeOK, EndsOK, Inv, [Next]_vars PROVE Inv'
    OBVIOUS
  <2> USE DEF TypeOK, NoRollbackSent, GuestAlive, hyp
  <2>1. ASSUME NEW m \in Migs, LiveMigrate(m) \/ Conductor(m) \/ Fault(m)
        PROVE  Inv'
    BY <2>1 DEF LiveMigrate, Conductor, ConductorSend, ConductorRefuse,
                ConductorFail, Fault, MonitorMisreads, MonitorRaises, PostFails
  <2>2. ASSUME NEW m \in Migs, Source(m) PROVE Inv'
    <3>1. CASE StartJob(m)
      BY <3>1 DEF StartJob
    <3>2. CASE RollbackFinish(m)
      BY <3>2 DEF RollbackFinish, DoCleanup
    <3>3. CASE ~StartJob(m) /\ ~RollbackFinish(m)
      BY <2>2, <3>3 DEF Source, LiveMigration, DoLiveMigration,
           PreLiveMigrationFailed, MonitorCompleted, MonitorFailed,
           PostLiveMigration, PostCleanup, RollbackLiveMigration,
           RollbackFails
    <3>. QED
      BY <3>1, <3>2, <3>3
  <2>3. ASSUME NEW m \in Migs, Destination(m) PROVE Inv'
    BY <2>3 DEF Destination, Receive, PreLiveMigration, RemoveVolumeConnection,
         PostLiveMigrationAtDestination, RollbackLiveMigrationAtDestination
  <2>4. ASSUME NEW m \in Migs, Libvirt(m) PROVE Inv'
    <3>. job[m] = "active" => src[m] \in Hosts /\ dst[m] \in Hosts \ {src[m]}
      BY DEF EndsOK, Ends, Engaged
    <3>1. CASE JobCompletes(m)
      BY <3>1 DEF JobCompletes
    <3>2. CASE JobFails(m)
      BY <3>2 DEF JobFails
    <3>. QED
      BY <2>4, <3>1, <3>2 DEF Libvirt
  <2>5. ASSUME NEW h \in Hosts, Crash(h) \/ Restart(h) PROVE Inv'
    BY <2>5 DEF Crash, Restart, InitInstance
  <2>6. CASE UNCHANGED vars
    BY <2>6 DEF vars
  <2>. QED
    BY <2>1, <2>2, <2>3, <2>4, <2>5, <2>6 DEF Next
<1>. QED
  BY <1>1, <1>2, TypeCorrect, EndsInvariant, PTL DEF Spec

THEOREM GuestSurvives ==
  ASSUME SharedPath
  PROVE  Spec => []GuestAlive
  BY GuestKept, PTL

LEMMA RollbackNeverSent ==
  ASSUME SharedPath
  PROVE  Spec => []NoRollbackSent
  BY GuestKept, PTL

-----------------------------------------------------------------------------
(* The lock: MIGRATING belongs to one migration, and the guest is recorded *)
(* where it runs when it is released                                        *)

LEMMA InitLock == Init => LockInv
  BY DEF Init, LockInv, OneOwner, Owns, NotForgotten, Placed, PostSent, Home,
         Away

(* What a step of migration m may do to the lock. *)
LEMMA LockAPI ==
  ASSUME TypeOK, EndsOK, LockInv, NEW m \in Migs,
         LiveMigrate(m) \/ Conductor(m)
  PROVE  LockInv'
<1> USE DEF TypeOK, LockInv, Owns, PostSent, Goto, SetStatus, Fail, hyp, inst
<1>1. CASE LiveMigrate(m)
  <2> USE <1>1 DEF LiveMigrate, Migratable
  <2>1. \A n \in Migs : ~Owns(n)
    BY DEF OneOwner
  <2>2. Home
    BY DEF NotForgotten, Home
  <2>3. OneOwner' /\ NotForgotten' /\ up' = Hosts
    BY <2>1 DEF OneOwner, NotForgotten
  <2>4. ASSUME NEW n \in Migs PROVE Placed(n)'
    <3>. Placed(n) /\ Placed(m)
      OBVIOUS
    <3>. QED
      BY <2>1, <2>2, <2>4 DEF Placed, Home, Away, Dead
  <2>. QED
    BY <2>3, <2>4
<1>2. CASE Conductor(m)
  <2> USE <1>2 DEF Conductor, ConductorSend, ConductorRefuse, ConductorFail
  <2>1. Owns(m) /\ Home /\ Placed(m) /\ ~PostSent(m) /\ pc[m] = "requested"
    BY DEF Placed
  <2>2. OneOwner' /\ up' = Hosts
    BY <2>1 DEF OneOwner
  <2>3. NotForgotten'
    BY <2>1 DEF NotForgotten, Home
  <2>4. ASSUME NEW n \in Migs PROVE Placed(n)'
    <3>. Placed(n)
      OBVIOUS
    <3>. QED
      BY <2>1, <2>4 DEF Placed, Home, Away, Dead, OneOwner
  <2>. QED
    BY <2>2, <2>3, <2>4
<1>. QED
  BY <1>1, <1>2

LEMMA LockSource ==
  ASSUME TypeOK, EndsOK, LockInv, NEW m \in Migs, Source(m)
  PROVE  LockInv'
<1> USE DEF TypeOK, LockInv, Owns, PostSent, Goto, SetStatus, Fail, mig, inst,
            hyp
<1>. Placed(m) /\ Ends(m)
  BY DEF EndsOK
<1>1. CASE LiveMigration(m) \/ DoLiveMigration(m) \/ PreLiveMigrationFailed(m)
  <2> USE <1>1 DEF LiveMigration, DoLiveMigration, PreLiveMigrationFailed
  <2>1. OneOwner' /\ NotForgotten' /\ up' = Hosts
    BY DEF OneOwner, NotForgotten
  <2>2. ASSUME NEW n \in Migs PROVE Placed(n)'
    <3>. Placed(n)
      OBVIOUS
    <3>. QED
      BY <2>2 DEF Placed, Home, Away, Dead
  <2>. QED
    BY <2>1, <2>2
<1>2. CASE StartJob(m)
  <2> USE <1>2 DEF StartJob
  <2>1. OneOwner' /\ NotForgotten' /\ up' = Hosts
    BY DEF OneOwner, NotForgotten
  <2>2. Home /\ src[m] = host /\ ~PostSent(m) /\ Owns(m)
    BY DEF Placed
  <2>3. Home'
    BY <2>2 DEF Home
  <2>4. ASSUME NEW n \in Migs PROVE Placed(n)'
    <3>1. CASE n = m
      BY <2>2, <2>3, <3>1 DEF Placed, Away, Dead
    <3>2. CASE n # m
      <4>1. Placed(n) /\ ~Owns(n)
        BY <2>2, <3>2 DEF OneOwner
      <4>. QED
        BY <2>3, <3>2, <4>1 DEF Placed, Home, Away, Dead
    <3>. QED
      BY <3>1, <3>2
  <2>. QED
    BY <2>1, <2>4
<1>3. CASE MonitorCompleted(m) \/ MonitorFailed(m)
  <2> USE <1>3 DEF MonitorCompleted, MonitorFailed, GuestGone
  <2>1. OneOwner' /\ NotForgotten' /\ up' = Hosts
    BY DEF OneOwner, NotForgotten
  <2>2. MonitorFailed(m) => Home
    BY DEF Placed
  <2>3. MonitorCompleted(m) => Away(m)
    BY DEF Placed, Home, Away
  <2>4. src[m] = host /\ ~PostSent(m)
    BY DEF Placed
  <2>5. MonitorCompleted(m) /\ job[m] = "active" => Dead
    BY <2>4 DEF Placed, Home, Dead
  <2>6. ASSUME NEW n \in Migs PROVE Placed(n)'
    <3>. Placed(n)
      OBVIOUS
    <3>. QED
      BY <2>2, <2>3, <2>4, <2>5, <2>6 DEF Placed, Home, Away, Dead
  <2>. QED
    BY <2>1, <2>6
<1>4. CASE PostLiveMigration(m) \/ PostCleanup(m)
  <2> USE <1>4 DEF PostLiveMigration, PostCleanup
  <2>1. OneOwner' /\ NotForgotten' /\ up' = Hosts
    BY DEF OneOwner, NotForgotten
  <2>2. ASSUME NEW n \in Migs PROVE Placed(n)'
    <3>. Placed(n)
      OBVIOUS
    <3>. QED
      BY <2>2 DEF Placed, Home, Away, Dead
  <2>. QED
    BY <2>1, <2>2
<1>5. CASE RollbackLiveMigration(m)
  <2> USE <1>5 DEF RollbackLiveMigration
  <2>1. Home /\ ~PostSent(m) /\ Owns(m)
    BY DEF Placed
  <2>2. OneOwner' /\ NotForgotten' /\ up' = Hosts
    BY <2>1 DEF OneOwner, NotForgotten, Home
  <2>3. ASSUME NEW n \in Migs PROVE Placed(n)'
    <3>. Placed(n)
      OBVIOUS
    <3>. QED
      BY <2>1, <2>3 DEF Placed, Home, Away, Dead
  <2>. QED
    BY <2>2, <2>3
<1>6. CASE RollbackFinish(m) \/ RollbackFails(m)
  <2> USE <1>6 DEF RollbackFinish, RollbackFails
  <2>1. OneOwner' /\ NotForgotten' /\ up' = Hosts
    BY DEF OneOwner, NotForgotten
  <2>2. ASSUME NEW n \in Migs PROVE Placed(n)'
    <3>. Placed(n)
      OBVIOUS
    <3>. QED
      BY <2>2 DEF Placed, Home, Away, Dead
  <2>. QED
    BY <2>1, <2>2
<1>. QED
  BY <1>1, <1>2, <1>3, <1>4, <1>5, <1>6 DEF Source

LEMMA LockDestination ==
  ASSUME TypeOK, EndsOK, LockInv, NEW m \in Migs, Destination(m)
  PROVE  LockInv'
<1> USE DEF TypeOK, LockInv, Owns, PostSent, Receive, mig, inst, hyp
<1>. Placed(m) /\ Ends(m)
  BY DEF EndsOK
<1>1. CASE PreLiveMigration(m) \/ RemoveVolumeConnection(m)
  <2> USE <1>1 DEF PreLiveMigration, RemoveVolumeConnection
  <2>1. OneOwner' /\ NotForgotten' /\ up' = Hosts
    BY DEF OneOwner, NotForgotten
  <2>2. ASSUME NEW n \in Migs PROVE Placed(n)'
    <3>. Placed(n)
      OBVIOUS
    <3>. QED
      BY <2>2 DEF Placed, Home, Away, Dead
  <2>. QED
    BY <2>1, <2>2
<1>2. CASE PostLiveMigrationAtDestination(m) /\ host' = dst[m] /\ task_state' = "none"
  <2> USE <1>2 DEF PostLiveMigrationAtDestination
  <2>1. Owns(m) /\ Away(m) /\ pc[m] \in {"cleanup", "over"}
    BY DEF Placed
  <2>2. task_state = "migrating" /\ \A n \in Migs \ {m} : ~Owns(n)
    BY <2>1 DEF OneOwner
  <2>3. \A n \in Migs : ~Owns(n)'
    BY <2>1, <2>2
  <2>4. Home'
    BY <2>1, <2>2 DEF Home, Away
  <2>5. OneOwner' /\ NotForgotten' /\ up' = Hosts
    BY <2>3, <2>4 DEF OneOwner, NotForgotten, Home
  <2>6. ASSUME NEW n \in Migs PROVE Placed(n)'
    <3>. Placed(n) /\ ~Owns(n)'
      BY <2>3
    <3>. QED
      BY <2>2, <2>4, <2>6 DEF Placed, Away, Dead
  <2>. QED
    BY <2>5, <2>6
<1>3. CASE PostLiveMigrationAtDestination(m) /\ UNCHANGED <<host, task_state>>
  <2> USE <1>3 DEF PostLiveMigrationAtDestination
  <2>1. OneOwner' /\ NotForgotten' /\ up' = Hosts
    BY DEF OneOwner, NotForgotten
  <2>2. ASSUME NEW n \in Migs PROVE Placed(n)'
    <3>. Placed(n)
      OBVIOUS
    <3>. QED
      BY <2>2 DEF Placed, Home, Away, Dead
  <2>. QED
    BY <2>1, <2>2
<1>4. CASE RollbackLiveMigrationAtDestination(m)
  <2> USE <1>4 DEF RollbackLiveMigrationAtDestination
  <2>1. \A h \in Hosts : domain'[h] \in {domain[h], "none"}
    OBVIOUS
  <2>2. OneOwner' /\ NotForgotten' /\ up' = Hosts
    BY <2>1 DEF OneOwner, NotForgotten
  <2>3. ASSUME NEW n \in Migs PROVE Placed(n)'
    <3>. Placed(n) /\ Ends(n)
      BY DEF EndsOK
    <3>1. Home => Home'
      BY <2>1 DEF Home
    <3>2. Away(n) => Away(n)'
      BY <2>1 DEF Away
    <3>3. Dead => Dead'
      BY <2>1 DEF Dead
    <3>4. pc[n] = "running" /\ domain[src[n]] = "none"
            => domain'[src[n]] = "none"
      BY <2>1 DEF Ends
    <3>. QED
      BY <3>1, <3>2, <3>3, <3>4 DEF Placed
  <2>. QED
    BY <2>2, <2>3
<1>. QED
  BY <1>1, <1>2, <1>3, <1>4
  DEF Destination, PostLiveMigrationAtDestination, RecordAtDestination

LEMMA LockLibvirt ==
  ASSUME TypeOK, EndsOK, LockInv, NEW m \in Migs, Libvirt(m)
  PROVE  LockInv'
<1> USE DEF TypeOK, LockInv, Owns, PostSent, mig, inst, hyp
<1>. Placed(m) /\ Ends(m)
  BY DEF EndsOK
<1>1. CASE JobCompletes(m)
  <2> USE <1>1 DEF JobCompletes
  <2>1. src[m] \in Hosts /\ dst[m] \in Hosts \ {src[m]}
    BY DEF Ends, Engaged
  <2>2. ~Dead
    BY <2>1 DEF Dead
  <2>3. Owns(m) /\ pc[m] = "running" /\ src[m] = host /\ ~PostSent(m) /\ Home
    BY <2>2 DEF Placed
  <2>4. Away(m)' /\ domain'[src[m]] = "none"
    BY <2>1, <2>3 DEF Home, Away
  <2>5. OneOwner' /\ NotForgotten' /\ up' = Hosts
    BY <2>3 DEF OneOwner, NotForgotten
  <2>6. ASSUME NEW n \in Migs PROVE Placed(n)'
    <3>1. CASE n = m
      BY <2>3, <2>4, <3>1 DEF Placed
    <3>2. CASE n # m
      <4>1. Placed(n) /\ ~Owns(n)
        BY <2>3, <3>2 DEF OneOwner
      <4>. QED
        BY <2>2, <3>2, <4>1 DEF Placed
    <3>. QED
      BY <3>1, <3>2
  <2>. QED
    BY <2>5, <2>6
<1>2. CASE JobFails(m)
  <2> USE <1>2 DEF JobFails
  <2>1. \A h \in Hosts : domain'[h] \in {domain[h], "none"}
    OBVIOUS
  <2>2. OneOwner' /\ NotForgotten' /\ up' = Hosts
    BY <2>1 DEF OneOwner, NotForgotten
  <2>3. ASSUME NEW n \in Migs PROVE Placed(n)'
    <3>. Placed(n) /\ Ends(n)
      BY DEF EndsOK
    <3>1. (Home => Home') /\ (Away(n) => Away(n)') /\ (Dead => Dead')
      BY <2>1 DEF Home, Away, Dead
    <3>2. pc[n] = "running" /\ domain[src[n]] = "none"
            => domain'[src[n]] = "none"
      BY <2>1 DEF Ends
    <3>. QED
      BY <3>1, <3>2 DEF Placed
  <2>. QED
    BY <2>2, <2>3
<1>. QED
  BY <1>1, <1>2 DEF Libvirt

LEMMA LockFault ==
  ASSUME TypeOK, LockInv, NEW m \in Migs, Fault(m), "monitor" \notin Faults
  PROVE  LockInv'
<1> USE DEF TypeOK, LockInv, Owns, PostSent, Goto, SetStatus, Fail, inst
<1> USE DEF Fault, MonitorMisreads, MonitorRaises, PostFails
<1>1. OneOwner' /\ NotForgotten' /\ up' = Hosts
  BY DEF OneOwner, NotForgotten
<1>2. ASSUME NEW n \in Migs PROVE Placed(n)'
  <2>. Placed(n)
    OBVIOUS
  <2>. QED
    BY <1>2 DEF Placed, Home, Away, Dead
<1>. QED
  BY <1>1, <1>2

(* Only a crash is counted. *)
LEMMA Calm ==
  ASSUME [Next]_vars, \A h \in Hosts : ~Crash(h)
  PROVE  UNCHANGED crashes
BY DEF Next, vars, LiveMigrate, Conductor, ConductorSend, ConductorRefuse,
       ConductorFail, Source, LiveMigration, DoLiveMigration, StartJob,
       PreLiveMigrationFailed, MonitorCompleted, MonitorFailed,
       PostLiveMigration, PostCleanup, RollbackLiveMigration, RollbackFinish,
       RollbackFails, Destination, PreLiveMigration, RemoveVolumeConnection,
       PostLiveMigrationAtDestination, RollbackLiveMigrationAtDestination,
       Libvirt, JobCompletes, JobFails, Fault, MonitorMisreads, MonitorRaises,
       PostFails, Restart

(* Until the first crash, which no step undoes. *)
LEMMA LockUntilCrash ==
  ASSUME "monitor" \notin Faults
  PROVE  Spec => [](crashes = 0 => LockInv)
<1>1. TypeOK /\ EndsOK /\ (crashes = 0 => LockInv) /\ [Next]_vars
      => (crashes = 0 => LockInv)'
  <2> SUFFICES ASSUME TypeOK, EndsOK, crashes = 0 => LockInv, [Next]_vars,
                      crashes' = 0
               PROVE  LockInv'
    OBVIOUS
  <2>1. LockInv /\ \A h \in Hosts : ~Crash(h)
    <3>1. \A h \in Hosts : ~Crash(h)
      BY BoundsAssumption DEF TypeOK, Crash
    <3>2. crashes = 0
      BY <3>1, Calm
    <3> QED  BY <3>1, <3>2
  <2>2. ASSUME NEW h \in Hosts, Restart(h) PROVE FALSE
    BY <2>1, <2>2 DEF Restart, LockInv
  <2>3. CASE UNCHANGED vars
    BY <2>1, <2>3 DEF vars, LockInv, OneOwner, Owns, NotForgotten, Placed,
         PostSent, Home, Away, Dead
  <2>. QED
    BY <2>1, <2>2, <2>3, LockAPI, LockSource, LockDestination, LockLibvirt,
       LockFault DEF Next
<1>. QED
  BY <1>1, InitLock, TypeCorrect, EndsInvariant, PTL DEF Spec

LEMMA LockInvariant ==
  ASSUME "crash" \notin Faults, "monitor" \notin Faults
  PROVE  Spec => []LockInv
<1>1. Init => crashes = 0
  BY DEF Init
<1>2. crashes = 0 /\ [Next]_vars => (crashes = 0)'
  BY Calm DEF Crash
<1>3. Spec => [](crashes = 0 => LockInv)
  BY LockUntilCrash
<1>. QED
  BY <1>1, <1>2, <1>3, PTL DEF Spec

(* As long as no service crashes and the monitor reads libvirt correctly, a *)
(* migration that relies on MIGRATING holds it, alone.                      *)
THEOREM MigratingIsALock ==
  ASSUME "crash" \notin Faults, "monitor" \notin Faults
  PROVE  Spec => []OneOwner
<1>1. LockInv => OneOwner
  BY DEF LockInv
<1>. QED
  BY <1>1, LockInvariant, PTL

(* Under the same conditions Nova never forgets a guest. *)
THEOREM GuestNotForgotten ==
  ASSUME "crash" \notin Faults, "monitor" \notin Faults
  PROVE  Spec => []NotForgotten
<1>1. LockInv => NotForgotten
  BY DEF LockInv
<1>. QED
  BY <1>1, LockInvariant, PTL

-----------------------------------------------------------------------------
(* Live migration implements InstanceMove *)

\* An instance in ERROR has no migration that would still move it.
ErrorOwned == vm_state = "error" => \A m \in Migs : ~Owns(m)

(* Only the migration that holds the lock puts the instance in ERROR, and it *)
(* ends by doing so.                                                         *)
LEMMA ErrorInvariant ==
  ASSUME "crash" \notin Faults, "monitor" \notin Faults
  PROVE  Spec => []ErrorOwned
<1>1. Init => ErrorOwned
  BY DEF Init, ErrorOwned
<1>2. TypeOK /\ LockInv /\ ErrorOwned /\ [Next]_vars => ErrorOwned'
  <2> SUFFICES ASSUME TypeOK, LockInv, ErrorOwned, [Next]_vars
               PROVE  ErrorOwned'
    OBVIOUS
  <2> USE DEF TypeOK, ErrorOwned, Owns, Goto, SetStatus, Fail, mig, inst
  <2>1. ASSUME NEW m \in Migs, LiveMigrate(m) PROVE ErrorOwned'
    BY <2>1 DEF LiveMigrate, Migratable
  <2>2. ASSUME NEW m \in Migs, Conductor(m) PROVE ErrorOwned'
    <3>1. /\ Owns(m) /\ ~PostSent(m)
          /\ \A n \in Migs \ {m} : ~Owns(n)
      BY <2>2 DEF LockInv, OneOwner, Placed, Conductor, ConductorSend,
                  ConductorRefuse, ConductorFail
    <3>2. CASE \E d \in Hosts : ConductorSend(m, d)
      BY <3>1, <3>2 DEF ConductorSend
    <3>3. CASE ConductorRefuse(m)
      BY <3>3 DEF ConductorRefuse
    <3>4. CASE ConductorFail(m)
      BY <3>1, <3>4 DEF ConductorFail, PostSent
    <3>. QED
      BY <2>2, <3>2, <3>3, <3>4 DEF Conductor
  <2>3. ASSUME NEW m \in Migs, Source(m) PROVE ErrorOwned'
    <3>. SUFFICES ASSUME NEW n \in Migs, Owns(n)' PROVE Owns(n)
      BY <2>3 DEF Source, LiveMigration, DoLiveMigration, StartJob,
           PreLiveMigrationFailed, MonitorCompleted, MonitorFailed,
           PostLiveMigration, PostCleanup, RollbackLiveMigration,
           RollbackFinish, RollbackFails
    <3>1. CASE LiveMigration(m) \/ DoLiveMigration(m) \/ StartJob(m)
      BY <3>1 DEF LiveMigration, DoLiveMigration, StartJob
    <3>2. CASE PreLiveMigrationFailed(m) \/ MonitorCompleted(m)
               \/ MonitorFailed(m)
      BY <3>2 DEF PreLiveMigrationFailed, MonitorCompleted, MonitorFailed
    <3>3. CASE PostLiveMigration(m) \/ PostCleanup(m)
      BY <3>3 DEF PostLiveMigration, PostCleanup
    <3>4. CASE RollbackLiveMigration(m)
      BY <3>4 DEF RollbackLiveMigration
    <3>5. CASE RollbackFinish(m) \/ RollbackFails(m)
      BY <3>5 DEF RollbackFinish, RollbackFails
    <3>. QED
      BY <2>3, <3>1, <3>2, <3>3, <3>4, <3>5 DEF Source
  <2>4. ASSUME NEW m \in Migs, Destination(m) \/ Libvirt(m) \/ Fault(m)
        PROVE  ErrorOwned'
    BY <2>4 DEF Destination, Receive, PreLiveMigration, RemoveVolumeConnection,
         PostLiveMigrationAtDestination, RollbackLiveMigrationAtDestination,
         Libvirt, JobCompletes, JobFails, Fault, MonitorMisreads,
         MonitorRaises, PostFails
  <2>5. ASSUME NEW h \in Hosts, Crash(h) \/ Restart(h) PROVE FALSE
    BY <2>5 DEF Crash, Restart, LockInv
  <2>6. CASE UNCHANGED vars
    BY <2>6 DEF vars
  <2>. QED
    BY <2>1, <2>2, <2>3, <2>4, <2>5, <2>6 DEF Next
<1>. QED
  BY <1>1, <1>2, TypeCorrect, LockInvariant, PTL DEF Spec

Copies == {h \in Hosts : domain[h] = "running"}
Lock   == IF vm_state = "error" THEN "broken"
          ELSE IF task_state = "none" THEN "free" ELSE "held"

(* A step that InstanceMove does not see. *)
LEMMA Unseen ==
  ASSUME UNCHANGED <<vm_state, task_state, host>>,
         \A h \in Hosts : domain'[h] = "running" <=> domain[h] = "running"
  PROVE  UNCHANGED Move!vars
BY DEF Move!vars

(* A step as InstanceMove sees it, in terms of the copies and the lock. *)
LEMMA StepRefines ==
  ASSUME "crash" \notin Faults, TypeOK, TypeOK', EndsOK, LockInv, ErrorOwned,
         NoRollbackSent, GuestAlive, GuestAlive', [Next]_vars
  PROVE  [Move!Next]_(Move!vars)
<1> USE DEF TypeOK
<1>. Copies' \in (SUBSET Hosts) \ {{}}
  <2>1. PICK h \in Hosts : h \in Copies'
    BY DEF Copies, GuestAlive
  <2>2. Copies' \subseteq Hosts
    BY DEF Copies
  <2>. QED
    BY <2>1, <2>2
<1>1. ASSUME NEW m \in Migs, LiveMigrate(m) PROVE [Move!Next]_(Move!vars)
  <2>1. UNCHANGED <<host, Copies>> /\ Lock = "free" /\ Lock' = "held"
    BY <1>1 DEF LiveMigrate, Migratable, hyp, Copies, Lock
  <2>. QED
    BY <2>1 DEF Move!Next, Move!Take, Copies, Lock
<1>2. ASSUME NEW m \in Migs, Conductor(m) PROVE [Move!Next]_(Move!vars)
  <2>1. CASE \E d \in Hosts : ConductorSend(m, d)
    BY <2>1, Unseen DEF ConductorSend, inst, hyp
  <2>2. CASE ConductorRefuse(m)
    <3>1. Owns(m) /\ Home
      BY <2>2 DEF ConductorRefuse, LockInv, Placed, Owns
    <3>2. Lock = "held" /\ Lock' = "free" /\ UNCHANGED host
      BY <2>2, <3>1 DEF ConductorRefuse, LockInv, OneOwner, ErrorOwned, Lock
    <3>3. host \in Copies'
      BY <2>2, <3>1 DEF ConductorRefuse, hyp, Home, Copies, GuestAlive
    <3>. QED
      BY <3>2, <3>3 DEF Move!Next, Move!Release, Copies, Lock
  <2>3. CASE ConductorFail(m)
    <3>1. Lock' = "broken" /\ UNCHANGED host
      BY <2>3 DEF ConductorFail, Lock
    <3>. QED
      BY <3>1 DEF Move!Next, Move!Break, Copies, Lock
  <2>. QED
    BY <1>2, <2>1, <2>2, <2>3 DEF Conductor
<1>3. ASSUME NEW m \in Migs, Source(m) PROVE [Move!Next]_(Move!vars)
  <2>1. CASE RollbackLiveMigration(m) /\ task_state = "migrating"
    <3>1. Owns(m) /\ Home
      BY <2>1 DEF RollbackLiveMigration, LockInv, Placed, Owns
    <3>2. Lock = "held" /\ Lock' = "free" /\ UNCHANGED host
      BY <2>1, <3>1 DEF RollbackLiveMigration, ErrorOwned, Lock
    <3>3. host \in Copies'
      BY <2>1, <3>1 DEF RollbackLiveMigration, hyp, Home, Copies, GuestAlive
    <3>. QED
      BY <3>2, <3>3 DEF Move!Next, Move!Release, Copies, Lock
  <2>2. CASE RollbackLiveMigration(m) /\ task_state # "migrating"
    BY <2>2, Unseen DEF RollbackLiveMigration, hyp
  <2>3. CASE StartJob(m)
    BY <2>3, Unseen DEF StartJob, inst
  <2>4. CASE ~RollbackLiveMigration(m) /\ ~StartJob(m)
    BY <1>3, <2>4, Unseen DEF Source, LiveMigration, DoLiveMigration,
         PreLiveMigrationFailed, MonitorCompleted, MonitorFailed,
         PostLiveMigration, PostCleanup, RollbackFinish, RollbackFails,
         inst, hyp
  <2>. QED
    BY <2>1, <2>2, <2>3, <2>4
<1>4. ASSUME NEW m \in Migs, Destination(m) PROVE [Move!Next]_(Move!vars)
  <2>1. CASE PreLiveMigration(m) \/ RemoveVolumeConnection(m)
    BY <2>1, Unseen DEF PreLiveMigration, RemoveVolumeConnection, inst
  <2>2. CASE PostLiveMigrationAtDestination(m)
    <3>1. Owns(m) /\ Away(m) /\ task_state = "migrating"
      BY <2>2 DEF PostLiveMigrationAtDestination, Receive, LockInv, OneOwner,
                  Placed, PostSent, Owns
    <3>2. CASE UNCHANGED <<host, task_state>>
      BY <2>2, <3>2, Unseen DEF PostLiveMigrationAtDestination, hyp
    <3>3. CASE RecordAtDestination(m)
      <4>1. Lock = "held" /\ Lock' = "free" /\ host' = dst[m]
        BY <2>2, <3>1, <3>3 DEF PostLiveMigrationAtDestination, RecordAtDestination,
                                ErrorOwned, Lock
      <4>2. host' \in Copies'
        BY <2>2, <3>1, <4>1 DEF PostLiveMigrationAtDestination, hyp, Away,
                                Copies, GuestAlive
      <4>. QED
        BY <4>1, <4>2 DEF Move!Next, Move!Record, Copies, Lock
    <3>. QED
      BY <2>2, <3>2, <3>3 DEF PostLiveMigrationAtDestination
  <2>3. CASE RollbackLiveMigrationAtDestination(m)
    BY <2>3 DEF RollbackLiveMigrationAtDestination, Receive, NoRollbackSent
  <2>. QED
    BY <1>4, <2>1, <2>2, <2>3 DEF Destination
<1>5. ASSUME NEW m \in Migs, Libvirt(m) PROVE [Move!Next]_(Move!vars)
  <2>1. CASE JobCompletes(m)
    <3>1. pc[m] = "running"
      BY <2>1 DEF JobCompletes, EndsOK, Ends, Engaged, LockInv, Placed, Dead
    <3>2. Lock = "held" /\ Lock' = "held" /\ UNCHANGED host
      BY <2>1, <3>1 DEF JobCompletes, inst, LockInv, OneOwner, Owns,
                        ErrorOwned, Lock
    <3>. QED
      BY <3>2 DEF Move!Next, Move!Carry, Copies, Lock
  <2>2. CASE JobFails(m)
    BY <2>2, Unseen DEF JobFails, inst
  <2>. QED
    BY <1>5, <2>1, <2>2 DEF Libvirt
<1>6. ASSUME NEW m \in Migs, Fault(m) PROVE [Move!Next]_(Move!vars)
  BY <1>6, Unseen DEF Fault, MonitorMisreads, MonitorRaises, PostFails, inst,
     hyp
<1>7. ASSUME NEW h \in Hosts, Crash(h) \/ Restart(h) PROVE FALSE
  BY <1>7 DEF Restart, LockInv, Crash
<1>8. CASE UNCHANGED vars
  BY <1>8, Unseen DEF vars
<1>. QED
  BY <1>1, <1>2, <1>3, <1>4, <1>5, <1>6, <1>7, <1>8 DEF Next

(* On shared storage, while no service crashes and the monitor reads libvirt *)
(* correctly, live migration between any hosts implements InstanceMove.      *)
THEOREM ImplementsMove ==
  ASSUME SharedPath, "crash" \notin Faults, "monitor" \notin Faults
  PROVE  Spec => Moves
<1>1. Init => Move!Init
  BY DEF Init, Move!Init
<1>2. Spec => []NoRollbackSent
  BY RollbackNeverSent
<1>3. TypeOK /\ TypeOK' /\ EndsOK /\ LockInv /\ ErrorOwned /\ NoRollbackSent
      /\ GuestAlive /\ GuestAlive' /\ [Next]_vars
      => [Move!Next]_(Move!vars)
  BY StepRefines
<1>. QED
  BY <1>1, <1>2, <1>3, TypeCorrect, EndsInvariant, LockInvariant,
     ErrorInvariant, GuestSurvives, PTL DEF Spec, Moves, Move!Spec

-----------------------------------------------------------------------------
(* The volumes of the guest *)

(* The destination is recorded by the one step that finds the guest arrived. *)
THEOREM RecordedOnArrival ==
  ASSUME SharedPath, "crash" \notin Faults, "monitor" \notin Faults
  PROVE  Spec => RecordedWhereItRuns
<1>1. TypeOK /\ EndsOK /\ LockInv /\ GuestAlive /\ [Next]_vars
      => [host' # host => domain[host'] = "running"]_vars
  <2> SUFFICES ASSUME TypeOK, EndsOK, LockInv, GuestAlive, [Next]_vars,
                      host' # host
               PROVE  domain[host'] = "running"
    OBVIOUS
  <2>1. ASSUME NEW m \in Migs, PostLiveMigrationAtDestination(m)
        PROVE  domain[host'] = "running"
    <3>1. PostSent(m) /\ (host' = dst[m] \/ host' = host)
      BY <2>1 DEF PostLiveMigrationAtDestination, RecordAtDestination, Receive,
                  PostSent
    <3>2. Away(m)
      BY <3>1 DEF LockInv, Placed
    <3>. QED
      BY <3>1, <3>2 DEF Away, GuestAlive
  <2>2. ASSUME \A m \in Migs : ~PostLiveMigrationAtDestination(m)
        PROVE  FALSE
    BY <2>2 DEF Next, vars, inst, LiveMigrate, Conductor, ConductorSend,
         ConductorRefuse, ConductorFail, Source, LiveMigration,
         DoLiveMigration, StartJob, PreLiveMigrationFailed, MonitorCompleted,
         MonitorFailed, PostLiveMigration, PostCleanup, RollbackLiveMigration,
         RollbackFinish, RollbackFails, Destination, PreLiveMigration,
         RemoveVolumeConnection, RollbackLiveMigrationAtDestination, Libvirt,
         JobCompletes, JobFails, Fault, MonitorMisreads, MonitorRaises,
         PostFails, Crash, Restart
  <2>. QED
    BY <2>1, <2>2
<1>. QED
  BY <1>1, TypeCorrect, EndsInvariant, LockInvariant, GuestSurvives, PTL
  DEF Spec, RecordedWhereItRuns

(* Of the threads of a host one is inside the semaphore. *)
OneInside ==
  \A m, n \in Migs :
      pc[m] \in Holding /\ pc[n] \in Holding /\ src[m] = src[n] => m = n

LEMMA SemaphoreEmpty ==
  ASSUME Permits = 1, NEW h, SemaphoreFree(h), NEW n \in Migs, src[n] = h
  PROVE  pc[n] \notin Holding
<1> DEFINE S == {k \in Migs : src[k] = h /\ pc[k] \in Holding}
<1>1. IsFiniteSet(S)
  <2>1. IsFiniteSet(Migs)
    BY FS_Interval, BoundsAssumption DEF Migs
  <2>2. S \subseteq Migs
    OBVIOUS
  <2>. QED
    BY <2>1, <2>2, FS_Subset
<1>2. Cardinality(S) = 0
  BY <1>1, FS_CardinalityType DEF SemaphoreFree
<1>3. S = {}
  BY <1>1, <1>2, FS_EmptySet
<1>. QED
  BY <1>3

LEMMA OneInsideInvariant ==
  ASSUME Permits = 1
  PROVE  Spec => []OneInside
<1>1. Init => OneInside
  BY DEF Init, OneInside, Holding
<1>2. TypeOK /\ OneInside /\ [Next]_vars => OneInside'
  <2> SUFFICES ASSUME TypeOK, OneInside, [Next]_vars PROVE OneInside'
    OBVIOUS
  <2> USE DEF TypeOK, OneInside, Holding
  <2>1. ASSUME NEW m \in Migs, DoLiveMigration(m) PROVE OneInside'
    BY <2>1, SemaphoreEmpty DEF DoLiveMigration, Goto
  <2>2. ASSUME NEW h \in Hosts, Crash(h) PROVE OneInside'
    BY <2>2 DEF Crash
  <2>3. ASSUME NEW m \in Migs, LiveMigrate(m) PROVE OneInside'
    BY <2>3 DEF LiveMigrate, Goto
  <2>4. ASSUME NEW m \in Migs, Source(m), ~DoLiveMigration(m)
        PROVE OneInside'
    BY <2>4 DEF Source, LiveMigration, StartJob, PreLiveMigrationFailed,
         MonitorCompleted, MonitorFailed, PostLiveMigration, PostCleanup,
         RollbackLiveMigration, RollbackFinish, RollbackFails, Goto, Fail, mig
  <2>5. ASSUME NEW m \in Migs, Conductor(m) \/ Fault(m) PROVE OneInside'
    BY <2>5 DEF Conductor, ConductorSend, ConductorRefuse, ConductorFail,
         Fault, MonitorMisreads, MonitorRaises, PostFails, Goto, Fail, mig
  <2>6. ASSUME NEW m \in Migs, Destination(m) \/ Libvirt(m) PROVE OneInside'
    BY <2>6 DEF Destination, PreLiveMigration, RemoveVolumeConnection,
         PostLiveMigrationAtDestination, RollbackLiveMigrationAtDestination,
         Libvirt, JobCompletes, JobFails, mig
  <2>7. ASSUME NEW h \in Hosts, Restart(h) PROVE OneInside'
    BY <2>7 DEF Restart, mig
  <2>8. CASE UNCHANGED vars
    BY <2>8 DEF vars
  <2>. QED
    BY <2>1, <2>2, <2>3, <2>4, <2>5, <2>6, <2>7, <2>8 DEF Next
<1>. QED
  BY <1>1, <1>2, TypeCorrect, PTL DEF Spec

(* Nobody disconnects the volumes of a host that the guest is at, or comes *)
(* to: a rollback that still does so keeps other migrations of the host     *)
(* outside the semaphore.                                                   *)
Connected(m) ==
  /\ reply[m] # "none" => pc[m] \in {"preparing", "disconnect"}
  /\ <<"remove", m>> \in msgs => pc[m] = "disconnect" /\ reply[m] = "none"
  /\ pc[m] = "disconnect" =>
        src[m] = host /\ Home /\ \A n \in Migs : ~PostSent(n)
  /\ pc[m] = "running" \/ (pc[m] = "preparing" /\ reply[m] = "ok") =>
        "volumes" \in has[dst[m]]

VolumesInv == GuestKeepsVolumes /\ \A m \in Migs : Connected(m)

LEMMA VolumesSource ==
  ASSUME TypeOK, EndsOK, LockInv, OneInside, NoRollbackSent, VolumesInv,
         "timeout" \notin Faults, NEW m \in Migs, Source(m)
  PROVE  VolumesInv'
<1> USE DEF TypeOK, Goto, SetStatus, Fail, mig, inst, hyp
<1>0. /\ Placed(m) /\ Ends(m) /\ Connected(m) /\ up = Hosts
      /\ Engaged(m) => dst[m] \in Hosts \ {src[m]}
      /\ pc[m] \in PCs /\ src[m] \in Hosts \cup {"nohost"}
  BY DEF EndsOK, Ends, LockInv, VolumesInv
<1>1. CASE LiveMigration(m) \/ DoLiveMigration(m) \/ PreLiveMigrationFailed(m)
           \/ MonitorFailed(m) \/ MonitorCompleted(m)
  <2> USE <1>1 DEF LiveMigration, DoLiveMigration, PreLiveMigrationFailed,
                   MonitorFailed, MonitorCompleted
  <2>1. GuestKeepsVolumes'
    BY DEF VolumesInv, GuestKeepsVolumes
  <2>2. ASSUME NEW n \in Migs PROVE Connected(n)'
    BY <1>0, <2>2 DEF VolumesInv, Connected, Home, PostSent
  <2>. QED
    BY <2>1, <2>2 DEF VolumesInv
<1>2. CASE StartJob(m)
  <2> USE <1>2 DEF StartJob
  <2>1. GuestKeepsVolumes'
    BY DEF VolumesInv, GuestKeepsVolumes
  <2>2. ASSUME NEW n \in Migs PROVE Connected(n)'
    BY <1>0, <2>2 DEF VolumesInv, Connected, Home, PostSent
  <2>. QED
    BY <2>1, <2>2 DEF VolumesInv
<1>3. CASE PostLiveMigration(m)
  <2> USE <1>3 DEF PostLiveMigration
  <2>1. Owns(m) /\ src[m] = host /\ Away(m) /\ dst[m] # src[m]
    BY <1>0 DEF Placed, Owns, Engaged, Threads, Holding
  <2>2. GuestKeepsVolumes'
    BY <2>1 DEF VolumesInv, GuestKeepsVolumes, Away
  <2>3. ASSUME NEW n \in Migs PROVE Connected(n)'
    <3>1. Connected(n) /\ Placed(n)
      BY DEF VolumesInv, LockInv
    <3>2. CASE n = m
      BY <1>0, <3>1, <3>2 DEF Connected, PostSent
    <3>3. CASE n # m
      <4>1. ~Owns(n) /\ pc[n] # "disconnect"
        BY <2>1, <3>1, <3>3
        DEF LockInv, OneOwner, OneInside, Connected, Holding
      <4>. QED
        BY <3>1, <3>3, <4>1 DEF Connected, Owns
    <3>. QED
      BY <3>2, <3>3
  <2>. QED
    BY <2>2, <2>3 DEF VolumesInv
<1>4. CASE PostCleanup(m)
  <2> USE <1>4 DEF PostCleanup
  <2>1. \A h \in Hosts : "volumes" \in has'[h] <=> "volumes" \in has[h]
    OBVIOUS
  <2>2. GuestKeepsVolumes'
    BY <2>1 DEF VolumesInv, GuestKeepsVolumes
  <2>3. ASSUME NEW n \in Migs PROVE Connected(n)'
    <3>1. Connected(n) /\ (Engaged(n) => dst[n] \in Hosts)
      BY DEF VolumesInv, EndsOK, Ends
    <3>. QED
      BY <1>0, <2>1, <3>1
      DEF Connected, Home, PostSent, Engaged, Threads, Holding
  <2>. QED
    BY <2>2, <2>3 DEF VolumesInv
<1>5. CASE RollbackLiveMigration(m)
  <2> USE <1>5 DEF RollbackLiveMigration
  <2>1. GuestKeepsVolumes'
    BY DEF VolumesInv, GuestKeepsVolumes
  <2>2. src[m] = host /\ Home /\ \A n \in Migs : ~PostSent(n)
    BY <1>0 DEF LockInv, OneOwner, Placed, Owns, PostSent
  <2>3. ASSUME NEW n \in Migs PROVE Connected(n)'
    BY <1>0, <2>2, <2>3 DEF VolumesInv, Connected, Home, PostSent
  <2>. QED
    BY <2>1, <2>3 DEF VolumesInv
<1>6. CASE RollbackFinish(m) \/ RollbackFails(m)
  <2> USE <1>6 DEF RollbackFinish, RollbackFails
  <2>1. GuestKeepsVolumes'
    BY DEF VolumesInv, GuestKeepsVolumes
  <2>2. reply[m] # "none"
    BY <1>0 DEF Ends, Engaged, Threads, Holding
  <2>3. ASSUME NEW n \in Migs PROVE Connected(n)'
    BY <1>0, <2>2, <2>3 DEF VolumesInv, Connected, Home, PostSent
  <2>. QED
    BY <2>1, <2>3 DEF VolumesInv
<1>. QED
  BY <1>1, <1>2, <1>3, <1>4, <1>5, <1>6 DEF Source

LEMMA VolumesDestination ==
  ASSUME TypeOK, EndsOK, LockInv, OneInside, NoRollbackSent, VolumesInv,
         NEW m \in Migs, Destination(m)
  PROVE  VolumesInv'
<1> USE DEF TypeOK, Receive, Answer, mig, inst, hyp
<1>0. /\ Placed(m) /\ Connected(m)
      /\ Engaged(m) => dst[m] \in Hosts \ {src[m]}
  BY DEF EndsOK, Ends, LockInv, VolumesInv
<1>1. CASE PreLiveMigration(m)
  <2> USE <1>1 DEF PreLiveMigration
  <2>1. \A h \in Hosts : "volumes" \in has[h] => "volumes" \in has'[h]
    OBVIOUS
  <2>2. GuestKeepsVolumes'
    BY <2>1 DEF VolumesInv, GuestKeepsVolumes
  <2>3. pc[m] = "preparing" /\ reply'[m] = "ok" =>
            reply[m] = "ok" \/ "volumes" \in has'[dst[m]]
    BY <1>0 DEF Engaged, Artefacts
  <2>4. ASSUME NEW n \in Migs PROVE Connected(n)'
    <3>1. Connected(n) /\ (Engaged(n) => dst[n] \in Hosts)
      BY DEF VolumesInv, EndsOK, Ends
    <3>. QED
      BY <1>0, <2>1, <2>3, <3>1
      DEF Connected, Home, PostSent, Engaged, Threads, Holding
  <2>. QED
    BY <2>2, <2>4 DEF VolumesInv
<1>2. CASE RemoveVolumeConnection(m)
  <2> USE <1>2 DEF RemoveVolumeConnection
  <2>1. /\ pc[m] = "disconnect" /\ src[m] = host /\ Home
        /\ dst[m] \in Hosts \ {host}
    BY <1>0 DEF Connected, Engaged
  <2>2. \A h \in Hosts \ {dst[m]} : has'[h] = has[h]
    OBVIOUS
  <2>3. GuestKeepsVolumes'
    BY <2>1, <2>2 DEF VolumesInv, GuestKeepsVolumes, Home
  <2>4. ASSUME NEW n \in Migs PROVE Connected(n)'
    <3>1. Connected(n) /\ Placed(n)
      BY DEF VolumesInv, LockInv
    <3>2. CASE n = m
      BY <2>1, <3>1, <3>2 DEF Connected, Home, PostSent
    <3>3. CASE n # m
      <4>1. pc[n] \notin {"preparing", "running"}
        BY <2>1, <3>1, <3>3 DEF Placed, Owns, OneInside, Holding
      <4>. QED
        BY <3>1, <3>3, <4>1 DEF Connected, Home, PostSent
    <3>. QED
      BY <3>2, <3>3
  <2>. QED
    BY <2>3, <2>4 DEF VolumesInv
<1>3. CASE PostLiveMigrationAtDestination(m)
  <2> USE <1>3 DEF PostLiveMigrationAtDestination
  <2>1. GuestKeepsVolumes'
    BY DEF VolumesInv, GuestKeepsVolumes
  <2>2. ASSUME NEW n \in Migs PROVE Connected(n)'
    <3>1. Connected(n) /\ pc[n] # "disconnect"
      BY DEF VolumesInv, Connected, PostSent
    <3>. QED
      BY <3>1 DEF Connected
  <2>. QED
    BY <2>1, <2>2 DEF VolumesInv
<1>4. CASE RollbackLiveMigrationAtDestination(m)
  BY <1>4 DEF RollbackLiveMigrationAtDestination, NoRollbackSent
<1>. QED
  BY <1>1, <1>2, <1>3, <1>4 DEF Destination

LEMMA VolumesElsewhere ==
  ASSUME TypeOK, EndsOK, LockInv, OneInside, VolumesInv, "monitor" \notin Faults,
         NEW m \in Migs,
         LiveMigrate(m) \/ Conductor(m) \/ Libvirt(m) \/ Fault(m)
  PROVE  VolumesInv'
<1> USE DEF TypeOK, Goto, SetStatus, Fail, mig, inst, hyp
<1>0. /\ Placed(m) /\ Connected(m)
      /\ Engaged(m) => src[m] \in Hosts /\ dst[m] \in Hosts \ {src[m]}
  BY DEF EndsOK, Ends, LockInv, VolumesInv
<1>1. CASE LiveMigrate(m) \/ Conductor(m)
  <2> USE <1>1 DEF LiveMigrate, Conductor, ConductorSend, ConductorRefuse,
                   ConductorFail
  <2>1. GuestKeepsVolumes'
    BY DEF VolumesInv, GuestKeepsVolumes
  <2>2. ASSUME NEW n \in Migs PROVE Connected(n)'
    BY <1>0, <2>2 DEF VolumesInv, Connected, Home, PostSent
  <2>. QED
    BY <2>1, <2>2 DEF VolumesInv
<1>2. CASE JobCompletes(m)
  <2> USE <1>2 DEF JobCompletes
  <2>1. /\ pc[m] = "running" /\ src[m] = host
        /\ src[m] \in Hosts /\ dst[m] \in Hosts \ {src[m]}
    BY <1>0 DEF Placed, Owns, Dead, Engaged
  <2>2. GuestKeepsVolumes'
    BY <1>0, <2>1 DEF VolumesInv, GuestKeepsVolumes, Connected
  <2>3. ASSUME NEW n \in Migs PROVE Connected(n)'
    <3>1. Connected(n) /\ (pc[n] = "disconnect" => n = m)
      BY <2>1 DEF VolumesInv, Connected, OneInside, Holding
    <3>. QED
      BY <2>1, <3>1 DEF Connected
  <2>. QED
    BY <2>2, <2>3 DEF VolumesInv
<1>3. CASE JobFails(m)
  <2> USE <1>3 DEF JobFails
  <2>1. \A h \in Hosts : domain'[h] \in {domain[h], "none"}
    OBVIOUS
  <2>2. GuestKeepsVolumes' /\ (Home => Home')
    BY <2>1 DEF VolumesInv, GuestKeepsVolumes, Home
  <2>3. ASSUME NEW n \in Migs PROVE Connected(n)'
    BY <2>2, <2>3 DEF VolumesInv, Connected, PostSent
  <2>. QED
    BY <2>2, <2>3 DEF VolumesInv
<1>4. CASE Fault(m)
  <2> USE <1>4 DEF Fault, MonitorMisreads, MonitorRaises, PostFails
  <2>1. CASE pc[m] = "post"
    <3>1. Owns(m) /\ src[m] = host /\ Away(m) /\ dst[m] # src[m]
      BY <1>0, <2>1 DEF Placed, Owns, Engaged, Threads, Holding
    <3>2. \A h \in Hosts \ {src[m]} : has'[h] = has[h]
      OBVIOUS
    <3>3. GuestKeepsVolumes'
      BY <3>1, <3>2 DEF VolumesInv, GuestKeepsVolumes, Away
    <3>4. ASSUME NEW n \in Migs PROVE Connected(n)'
      <4>1. Connected(n) /\ Placed(n)
        BY DEF VolumesInv, LockInv
      <4>2. n # m => ~Owns(n) /\ pc[n] # "disconnect"
        BY <2>1, <3>1, <4>1
        DEF LockInv, OneOwner, OneInside, Connected, Holding
      <4>. QED
        BY <2>1, <4>1, <4>2 DEF Connected, Owns
    <3>. QED
      BY <3>3, <3>4 DEF VolumesInv
  <2>2. CASE pc[m] = "cleanup"
    <3>1. GuestKeepsVolumes'
      BY <2>2 DEF VolumesInv, GuestKeepsVolumes
    <3>2. ASSUME NEW n \in Migs PROVE Connected(n)'
      BY <2>2, <3>2 DEF VolumesInv, Connected, Home, PostSent
    <3>. QED
      BY <3>1, <3>2 DEF VolumesInv
  <2>. QED
    BY <2>1, <2>2
<1>. QED
  BY <1>1, <1>2, <1>3, <1>4 DEF Libvirt

(* With one live migration at a time for each source, which is the default, *)
(* and no call that times out, the host of the guest keeps its volumes.      *)
THEOREM VolumesStay ==
  ASSUME SharedPath, Permits = 1,
         "crash" \notin Faults, "monitor" \notin Faults, "timeout" \notin Faults
  PROVE  Spec => []GuestKeepsVolumes
<1>1. Init => VolumesInv
  BY DEF Init, VolumesInv, GuestKeepsVolumes, Connected, Artefacts
<1>2. TypeOK /\ EndsOK /\ LockInv /\ OneInside /\ NoRollbackSent /\ VolumesInv
      /\ [Next]_vars => VolumesInv'
  <2> SUFFICES ASSUME TypeOK, EndsOK, LockInv, OneInside, NoRollbackSent,
                      VolumesInv, [Next]_vars
               PROVE  VolumesInv'
    OBVIOUS
  <2>1. ASSUME NEW h \in Hosts, Crash(h) \/ Restart(h) PROVE FALSE
    BY <2>1 DEF Crash, Restart, LockInv
  <2>2. CASE UNCHANGED vars
    BY <2>2 DEF vars, VolumesInv, GuestKeepsVolumes, Connected, Home, PostSent
  <2>. QED
    BY <2>1, <2>2, VolumesSource, VolumesDestination, VolumesElsewhere
    DEF Next
<1>3. VolumesInv => GuestKeepsVolumes
  BY DEF VolumesInv
<1>4. Spec => []NoRollbackSent
  BY RollbackNeverSent
<1>. QED
  BY <1>1, <1>2, <1>3, <1>4, TypeCorrect, EndsInvariant, LockInvariant,
     OneInsideInvariant, PTL DEF Spec

-----------------------------------------------------------------------------
(* What a migration leaves behind *)

FailedEnd(h) == \E m \in Migs : status[m] = "failed" /\ h \in {src[m], dst[m]}

(* A migration that has volume connections, or an instance directory, of a *)
(* host still to remove.                                                    *)
AtWork(m) == pc[m] \in {"preparing", "running", "rollback"}

OwesVolumes(m, h) ==
  \/ /\ h = dst[m]
     /\ \/ AtWork(m)
        \/ pc[m] = "disconnect" /\ (DoCleanup \/ reply[m] # "ok")
        \/ <<"rollback", m>> \in msgs
  \/ h = src[m] /\ pc[m] \in {"running", "post"}

OwesPath(m, h) ==
  \/ /\ h = dst[m]
     /\ AtWork(m) \/ pc[m] = "disconnect" \/ <<"rollback", m>> \in msgs
  \/ h = src[m] /\ pc[m] \in {"running", "post", "cleanup"}

Accounted(h) ==
  domain[h] # "running" /\ ~FailedEnd(h) =>
     /\ "volumes" \in has[h] => \E m \in Migs : OwesVolumes(m, h)
     /\ "path" \in has[h] /\ ~SharedPath => \E m \in Migs : OwesPath(m, h)

Recorded(m) ==
  /\ pc[m] \in {"unused", "requested"} => dst[m] = "nohost"
  /\ <<"pre", m>> \in msgs => \/ pc[m] = "preparing" /\ reply[m] = "none"
                              \/ status[m] = "failed"
  /\ reply[m] # "none" => pc[m] \in {"preparing", "disconnect"}
  /\ status[m] = "failed" => pc[m] \in {"rollback", "disconnect", "over"}

CleanInv ==
  /\ \A m \in Migs : Recorded(m)
  /\ GuestAlive => \A h \in Hosts : Accounted(h)

(* The others keep their places, answers, records and messages. *)
Untouched(m) ==
  \A n \in Migs \ {m} :
     /\ pc'[n] = pc[n] /\ status'[n] = status[n] /\ reply'[n] = reply[n]
     /\ src'[n] = src[n] /\ dst'[n] = dst[n]
     /\ \A kind : <<kind, n>> \in msgs' <=> <<kind, n>> \in msgs

(* After a step of m, what h holds is owed by m, or was not owed by it before. *)
Settled(m, h) ==
  domain'[h] # "running" /\ ~FailedEnd(h)' =>
     /\ "volumes" \in has'[h] =>
           \/ OwesVolumes(m, h)'
           \/ "volumes" \in has[h] /\ domain[h] # "running" /\ ~OwesVolumes(m, h)
     /\ "path" \in has'[h] /\ ~SharedPath =>
           \/ OwesPath(m, h)'
           \/ "path" \in has[h] /\ domain[h] # "running" /\ ~OwesPath(m, h)

LEMMA Accounts ==
  ASSUME CleanInv, NEW m \in Migs, Untouched(m), Recorded(m)',
         status[m] = "failed" =>
            status'[m] = "failed" /\ src'[m] = src[m] /\ dst'[m] = dst[m],
         GuestAlive' => GuestAlive /\ \A h \in Hosts : Settled(m, h)
  PROVE  CleanInv'
<1>1. \A n \in Migs : Recorded(n)'
  BY DEF Untouched, CleanInv, Recorded
<1>2. ASSUME GuestAlive', NEW h \in Hosts PROVE Accounted(h)'
  <2>1. Accounted(h) /\ Settled(m, h)
    BY <1>2 DEF CleanInv
  <2>2. FailedEnd(h) => FailedEnd(h)'
    BY DEF FailedEnd, Untouched
  <2>3. \A n \in Migs \ {m} : /\ OwesVolumes(n, h) => OwesVolumes(n, h)'
                              /\ OwesPath(n, h) => OwesPath(n, h)'
    BY DEF Untouched, OwesVolumes, OwesPath, AtWork, DoCleanup
  <2>. QED
    BY <2>1, <2>2, <2>3 DEF Accounted, Settled
<1>. QED
  BY <1>1, <1>2 DEF CleanInv

LEMMA CleanAPI ==
  ASSUME TypeOK, EndsOK, CleanInv, NEW m \in Migs, LiveMigrate(m) \/ Conductor(m)
  PROVE  CleanInv'
<1> USE DEF TypeOK, Goto, SetStatus, Fail, mig, inst, hyp
<1> USE DEF LiveMigrate, Conductor, ConductorSend, ConductorRefuse, ConductorFail
<1>0. /\ Recorded(m) /\ status[m] # "failed" /\ ~Engaged(m)
      /\ pc[m] \in {"unused", "requested"}
  BY HostsAssumption DEF CleanInv, Recorded, EndsOK, Ends
<1>1. Untouched(m)
  BY DEF Untouched
<1>2. Recorded(m)'
  BY <1>0 DEF Recorded
<1>3. GuestAlive' => GuestAlive
  BY DEF GuestAlive
<1>4. ASSUME NEW h \in Hosts PROVE Settled(m, h)
  <2>1. UNCHANGED <<domain, has>>
    OBVIOUS
  <2>2. ~OwesVolumes(m, h) /\ ~OwesPath(m, h)
    BY <1>0 DEF OwesVolumes, OwesPath, AtWork, Engaged, Threads, Holding
  <2>. QED
    BY <2>1, <2>2 DEF Settled
<1>. QED
  BY <1>0, <1>1, <1>2, <1>3, <1>4, Accounts

LEMMA CleanSource ==
  ASSUME TypeOK, EndsOK, LockInv, CleanInv, NEW m \in Migs, Source(m)
  PROVE  CleanInv'
<1> USE DEF TypeOK, Goto, SetStatus, Fail, mig, inst, hyp
<1>0. /\ Recorded(m) /\ Placed(m) /\ Ends(m)
      /\ Engaged(m) => src[m] \in Hosts /\ dst[m] \in Hosts \ {src[m]}
  BY DEF CleanInv, EndsOK, Ends, LockInv
<1>1. CASE LiveMigration(m) \/ DoLiveMigration(m)
  <2> USE <1>1 DEF LiveMigration, DoLiveMigration
  <2>1. Untouched(m) /\ Recorded(m)'
    BY <1>0 DEF Untouched, Recorded
  <2>2. GuestAlive' => GuestAlive
    BY DEF GuestAlive
  <2>3. ASSUME NEW h \in Hosts PROVE Settled(m, h)
    BY <1>0 DEF Settled, OwesVolumes, OwesPath, AtWork
  <2>4. status[m] # "failed"
    BY <1>0 DEF Recorded
  <2>. QED
    BY <2>1, <2>2, <2>3, <2>4, Accounts
<1>2. CASE StartJob(m)
  <2> USE <1>2 DEF StartJob
  <2>1. Untouched(m) /\ Recorded(m)'
    <3>1. Untouched(m)
      BY DEF Untouched
    <3>2. Recorded(m)'
      BY <1>0 DEF Recorded
    <3>. QED
      BY <3>1, <3>2
  <2>2. \A h \in Hosts : domain'[h] = "running" <=> domain[h] = "running"
    OBVIOUS
  <2>3. GuestAlive' => GuestAlive
    BY <2>2 DEF GuestAlive
  <2>4. ASSUME NEW h \in Hosts PROVE Settled(m, h)
    BY <2>2 DEF Settled, OwesVolumes, OwesPath, AtWork, FailedEnd
  <2>5. status[m] # "failed"
    BY <1>0 DEF Recorded
  <2>. QED
    BY <2>1, <2>3, <2>4, <2>5, Accounts
<1>3. CASE PreLiveMigrationFailed(m)
  <2> USE <1>3 DEF PreLiveMigrationFailed
  <2>1. Untouched(m) /\ Recorded(m)'
    BY <1>0 DEF Untouched, Recorded
  <2>2. GuestAlive' => GuestAlive
    BY DEF GuestAlive
  <2>3. ASSUME NEW h \in Hosts PROVE Settled(m, h)
    BY DEF Settled, OwesVolumes, OwesPath, AtWork
  <2>. QED
    BY <2>1, <2>2, <2>3, Accounts
<1>4. CASE MonitorCompleted(m) \/ MonitorFailed(m)
  <2> USE <1>4 DEF MonitorCompleted, MonitorFailed, GuestGone
  <2>1. Untouched(m) /\ Recorded(m)' /\ status[m] # "failed"
    BY <1>0 DEF Untouched, Recorded
  <2>2. GuestAlive' => GuestAlive
    BY DEF GuestAlive
  <2>3. GuestAlive => /\ MonitorCompleted(m) => domain[dst[m]] = "running"
                      /\ MonitorFailed(m) => domain[src[m]] = "running"
    BY <1>0 DEF Placed, Owns, Home, Away, GuestAlive
  <2>4. ASSUME NEW h \in Hosts, GuestAlive PROVE Settled(m, h)
    BY <2>3, <2>4 DEF Settled, OwesVolumes, OwesPath, AtWork
  <2>. QED
    BY <2>1, <2>2, <2>4, Accounts
<1>5. CASE PostLiveMigration(m)
  <2> USE <1>5 DEF PostLiveMigration
  <2>1. Untouched(m) /\ Recorded(m)' /\ status[m] # "failed"
    BY <1>0 DEF Untouched, Recorded
  <2>2. GuestAlive' => GuestAlive
    BY DEF GuestAlive
  <2>3. src[m] \in Hosts
    BY <1>0 DEF Ends
  <2>4. ASSUME NEW h \in Hosts PROVE Settled(m, h)
    BY <2>3 DEF Settled, OwesVolumes, OwesPath, AtWork
  <2>. QED
    BY <2>1, <2>2, <2>4, Accounts
<1>6. CASE PostCleanup(m)
  <2> USE <1>6 DEF PostCleanup
  <2>1. Untouched(m) /\ Recorded(m)' /\ status[m] # "failed"
    BY <1>0 DEF Untouched, Recorded
  <2>2. GuestAlive' => GuestAlive
    BY DEF GuestAlive
  <2>3. src[m] \in Hosts
    BY <1>0 DEF Ends
  <2>4. ASSUME NEW h \in Hosts PROVE Settled(m, h)
    BY <2>3 DEF Settled, OwesVolumes, OwesPath, AtWork, DoCleanup
  <2>. QED
    BY <2>1, <2>2, <2>4, Accounts
<1>7. CASE RollbackLiveMigration(m)
  <2> USE <1>7 DEF RollbackLiveMigration
  <2>1. Untouched(m) /\ Recorded(m)'
    BY <1>0 DEF Untouched, Recorded
  <2>2. GuestAlive' => GuestAlive
    BY DEF GuestAlive
  <2>3. ASSUME NEW h \in Hosts PROVE Settled(m, h)
    BY <1>0 DEF Settled, OwesVolumes, OwesPath, AtWork, FailedEnd, Recorded
  <2>. QED
    BY <2>1, <2>2, <2>3, Accounts
<1>8. CASE RollbackFinish(m) \/ RollbackFails(m)
  <2> USE <1>8 DEF RollbackFinish, RollbackFails
  <2>1. Untouched(m) /\ Recorded(m)'
    BY <1>0 DEF Untouched, Recorded
  <2>2. GuestAlive' => GuestAlive
    BY DEF GuestAlive
  <2>3. ASSUME NEW h \in Hosts PROVE Settled(m, h)
    BY DEF Settled, OwesVolumes, OwesPath, AtWork, FailedEnd, DoCleanup
  <2>. QED
    BY <2>1, <2>2, <2>3, Accounts
<1>. QED
  BY <1>1, <1>2, <1>3, <1>4, <1>5, <1>6, <1>7, <1>8 DEF Source

LEMMA CleanDestination ==
  ASSUME TypeOK, EndsOK, LockInv, CleanInv, NEW m \in Migs, Destination(m)
  PROVE  CleanInv'
<1> USE DEF TypeOK, Receive, Answer, mig, inst, hyp
<1>0. /\ Recorded(m) /\ Placed(m) /\ Ends(m)
      /\ Engaged(m) => src[m] \in Hosts /\ dst[m] \in Hosts \ {src[m]}
  BY DEF CleanInv, EndsOK, Ends, LockInv
<1>1. CASE PreLiveMigration(m)
  <2> USE <1>1 DEF PreLiveMigration
  <2>1. Untouched(m) /\ Recorded(m)'
    BY <1>0 DEF Untouched, Recorded
  <2>2. GuestAlive' => GuestAlive
    BY DEF GuestAlive
  <2>3. pc[m] = "preparing" \/ status[m] = "failed"
    BY <1>0 DEF Recorded
  <2>4. ASSUME NEW h \in Hosts PROVE Settled(m, h)
    BY <2>3 DEF Settled, OwesVolumes, OwesPath, AtWork, FailedEnd
  <2>. QED
    BY <2>1, <2>2, <2>4, Accounts
<1>2. CASE RemoveVolumeConnection(m)
  <2> USE <1>2 DEF RemoveVolumeConnection
  <2>1. Untouched(m) /\ Recorded(m)'
    BY <1>0 DEF Untouched, Recorded
  <2>2. GuestAlive' => GuestAlive
    BY DEF GuestAlive
  <2>3. dst[m] \in Hosts
    BY <1>0 DEF Engaged
  <2>4. ASSUME NEW h \in Hosts PROVE Settled(m, h)
    BY <2>3 DEF Settled, OwesVolumes, OwesPath, AtWork
  <2>. QED
    BY <2>1, <2>2, <2>4, Accounts
<1>3. CASE PostLiveMigrationAtDestination(m)
  <2> USE <1>3 DEF PostLiveMigrationAtDestination
  <2>1. Untouched(m) /\ Recorded(m)'
    BY <1>0 DEF Untouched, Recorded
  <2>2. GuestAlive' => GuestAlive
    BY DEF GuestAlive
  <2>3. ASSUME NEW h \in Hosts PROVE Settled(m, h)
    BY DEF Settled, OwesVolumes, OwesPath, AtWork
  <2>. QED
    BY <2>1, <2>2, <2>3, Accounts
<1>4. CASE RollbackLiveMigrationAtDestination(m)
  <2> USE <1>4 DEF RollbackLiveMigrationAtDestination
  <2>1. Untouched(m) /\ Recorded(m)'
    BY <1>0 DEF Untouched, Recorded
  <2>2. dst[m] \in Hosts
    BY <1>0 DEF Engaged
  <2>3. GuestAlive' => GuestAlive
    BY <2>2 DEF GuestAlive
  <2>4. ASSUME NEW h \in Hosts PROVE Settled(m, h)
    BY <2>2 DEF Settled, OwesVolumes, OwesPath, AtWork
  <2>. QED
    BY <2>1, <2>3, <2>4, Accounts
<1>. QED
  BY <1>1, <1>2, <1>3, <1>4 DEF Destination

LEMMA CleanElsewhere ==
  ASSUME TypeOK, EndsOK, LockInv, CleanInv, "monitor" \notin Faults,
         NEW m \in Migs, Libvirt(m) \/ Fault(m)
  PROVE  CleanInv'
<1> USE DEF TypeOK, Goto, SetStatus, Fail, mig, inst, hyp
<1>0. /\ Recorded(m) /\ Placed(m) /\ Ends(m)
      /\ Engaged(m) => src[m] \in Hosts /\ dst[m] \in Hosts \ {src[m]}
  BY DEF CleanInv, EndsOK, Ends, LockInv
<1>1. CASE JobCompletes(m)
  <2> USE <1>1 DEF JobCompletes
  <2>1. Untouched(m) /\ Recorded(m)'
    BY <1>0 DEF Untouched, Recorded
  <2>2. pc[m] = "running" /\ src[m] \in Hosts
    BY <1>0 DEF Placed, Dead, Engaged
  <2>3. GuestAlive' => GuestAlive
    BY <2>2 DEF GuestAlive
  <2>4. ASSUME NEW h \in Hosts PROVE Settled(m, h)
    BY <1>0, <2>2 DEF Settled, OwesVolumes, OwesPath, AtWork, Engaged
  <2>. QED
    BY <2>1, <2>3, <2>4, Accounts
<1>2. CASE JobFails(m)
  <2> USE <1>2 DEF JobFails
  <2>1. Untouched(m) /\ Recorded(m)'
    BY <1>0 DEF Untouched, Recorded
  <2>2. \A h \in Hosts : domain'[h] = "running" <=> domain[h] = "running"
    OBVIOUS
  <2>3. GuestAlive' => GuestAlive
    BY <2>2 DEF GuestAlive
  <2>4. ASSUME NEW h \in Hosts PROVE Settled(m, h)
    BY <2>2 DEF Settled, OwesVolumes, OwesPath, AtWork
  <2>. QED
    BY <2>1, <2>3, <2>4, Accounts
<1>3. CASE Fault(m)
  <2> USE <1>3 DEF Fault, MonitorMisreads, MonitorRaises, PostFails
  <2>1. Untouched(m) /\ Recorded(m)' /\ status[m] # "failed"
    BY <1>0 DEF Untouched, Recorded
  <2>2. GuestAlive' => GuestAlive
    BY DEF GuestAlive
  <2>3. src[m] \in Hosts
    BY <1>0 DEF Ends
  <2>4. ASSUME NEW h \in Hosts PROVE Settled(m, h)
    BY <2>3 DEF Settled, OwesVolumes, OwesPath, AtWork, FailedEnd
  <2>. QED
    BY <2>1, <2>2, <2>4, Accounts
<1>. QED
  BY <1>1, <1>2, <1>3 DEF Libvirt

(* Before the first crash, whatever fails or times out, what a host without *)
(* the guest holds has a migration that owes its removal, or one that is     *)
(* recorded as failed.                                                       *)
THEOREM NothingLeftBehind ==
  ASSUME "monitor" \notin Faults
  PROVE  Spec => []CleanWhenIdle
<1> DEFINE Inv == crashes = 0 => CleanInv
<1>1. Init => Inv
  BY DEF Init, CleanInv, Recorded, Accounted, Bare
<1>2. TypeOK /\ EndsOK /\ (crashes = 0 => LockInv) /\ Inv /\ [Next]_vars => Inv'
  <2> SUFFICES ASSUME TypeOK, EndsOK, crashes = 0 => LockInv, Inv, [Next]_vars,
                      crashes' = 0
               PROVE  CleanInv'
    OBVIOUS
  <2>1. \A h \in Hosts : ~Crash(h)
    BY BoundsAssumption DEF TypeOK, Crash
  <2>2. LockInv /\ CleanInv
    <3>1. crashes = 0
      BY <2>1, Calm
    <3>. QED
      BY <3>1
  <2>3. ASSUME NEW h \in Hosts, Restart(h) PROVE FALSE
    BY <2>2, <2>3 DEF Restart, LockInv
  <2>4. CASE UNCHANGED vars
    BY <2>2, <2>4 DEF vars, CleanInv, Recorded, Accounted, FailedEnd,
         OwesVolumes, OwesPath, AtWork, DoCleanup, GuestAlive
  <2>. QED
    BY <2>1, <2>2, <2>3, <2>4, CleanAPI, CleanSource, CleanDestination,
       CleanElsewhere DEF Next
<1>3. TypeOK /\ Inv => CleanWhenIdle
  <2> SUFFICES ASSUME TypeOK, CleanInv, Idle, GuestAlive, NEW h \in Hosts,
                      domain[h] # "running", ~FailedEnd(h)
               PROVE  has[h] \cap {"path", "volumes"} \subseteq Bare
    BY DEF CleanWhenIdle, FailedEnd
  <2>1. \A m \in Migs : ~OwesVolumes(m, h) /\ ~OwesPath(m, h)
    BY DEF Idle, OwesVolumes, OwesPath, AtWork
  <2>. QED
    BY <2>1 DEF CleanInv, Accounted, Bare
<1>4. Spec => [](crashes = 0 => LockInv)
  BY LockUntilCrash
<1>. QED
  BY <1>1, <1>2, <1>3, <1>4, TypeCorrect, EndsInvariant, PTL DEF Spec
=============================================================================
