-------------------------- MODULE ResizeLockProofs --------------------------
(***************************************************************************)
(* What task_state protects during a resize, proved of ResizeInstance: no  *)
(* handler is preempted, no disk is lost, a resized instance can be        *)
(* answered, and every step is one of InstanceMove. The theorems are for   *)
(* any nodes, instances and records, and for crashes at any time, when     *)
(* requests for an instance do not overlap and the three failures that     *)
(* give task_state back too early do not happen.                           *)
(***************************************************************************)
EXTENDS ResizeInstanceProofs

-----------------------------------------------------------------------------
(* The inductive invariant *)

\* One request at a time, and nobody frees an instance that is being moved.
Orderly == ~Overlap /\ Faults \cap {"rollback", "timeout", "unlock"} = {}

In(r, vm, task) == r.vm_state = vm /\ r.task_state = task

Disk(n) == <<"disk", n>>
Backup(n) == <<"backup", n>>

Asked      == {"prep", "claimed", "raised", "rescheduled", "resize"}
Requests   == {"api-confirm", "auto-confirm", "api-revert"}
Confirming == {"confirm", "cleanup", "bare"}
Reverting  == {"revert", "destroyed", "finish-revert", "restarting"}

\* Where a record g begins, and where it ends.
Leaving(r, g) == g.source = r.host /\ g.old = r.flavor /\ g.dest = g.dest_node
Arrived(r, g) == g.dest_node = r.host /\ g.old = r.old_flavor

\* What a step finds: the instance as row r with the files fs, its record g.
Fits(place, r, g, fs) ==
    /\ place \in Asked => In(r, "active", "resize_prep") /\ Leaving(r, g)
    /\ place = "giveup" => In(r, "active", "none")
    /\ place = "copying" => In(r, "active", "resize_migrating") /\ Leaving(r, g)
    /\ place = "finish" => /\ In(r, "active", "resize_migrated")
                           /\ g.dest_node = r.host /\ g.old = r.flavor
    /\ place = "starting" => In(r, "active", "resize_finish") /\ Arrived(r, g)
    /\ place = "started" => In(r, "active", "resize_finish")
    /\ place \in Requests \cup Confirming => In(r, "resized", "none")
    /\ place \in Reverting => In(r, "resized", "resize_reverting")
    /\ place = "restarting" => g.source = r.host
    /\ place \in {"started", "poll"} \cup Requests => g.status = "finished"
    /\ place \in Confirming => g.status = "confirming"
    /\ place \in {"finish", "starting"} \cup Reverting => Backup(g.source) \in fs
    /\ place # "undo"

\* The record of a resize that waits for its answer, or gets it.
Ended(g) == g.status \in {"finished", "confirming"}

FitsRecord(r, g, fs) ==
    /\ g.status = "finished" =>
          /\ In(r, "active", "resize_finish") \/ In(r, "resized", "none")
          /\ Arrived(r, g)
          /\ Backup(g.source) \in fs
    /\ g.status = "confirming" => In(r, "resized", "none") \/ In(r, "error", "none")

FitsRow(r) ==
    /\ r.vm_state = "error" => r.task_state = "none"
    /\ r.vm_state = "resized" => r.task_state \in {"none", "resize_reverting"}
    /\ r.vm_state = "active" => r.task_state # "resize_reverting"

\* Before the disk is copied it is on the instance's host, where a failing
\* recovery may leave it as a backup; afterwards it is there as a disk.
FitsFiles(r, fs) ==
    /\ fs # {}
    /\ \/ In(r, "active", "resize_migrated") \/ In(r, "active", "resize_finish")
       \/ In(r, "resized", "none")
       => Disk(r.host) \in fs
    /\ /\ r.vm_state = "active"
       /\ r.task_state \in {"none", "resize_prep", "resize_migrating"}
       => \/ Disk(r.host) \in fs
          \/ "recovery" \in Faults /\ Backup(r.host) \in fs

\* The parts, for one instance.
StepsFit(i) ==
    \A m \in Migs, place \in Places :
        mig[m].instance = i /\ At(place, m) => Fits(place, row[i], mig[m], files[i])

OneStep(i) ==
    \A k, m \in Migs, p, q \in Places :
        mig[k].instance = i /\ At(p, k) /\ mig[m].instance = i /\ At(q, m) =>
            k = m /\ (p = q \/ {p, q} = {"poll", "started"})

CallFits(i) ==
    /\ pending[i] # NoCall => In(row[i], "active", "resize_prep")
    /\ \A m \in Migs, place \in Places :
          mig[m].instance = i /\ At(place, m) =>
              (place = "rescheduled" <=> pending[i] # NoCall)

RecordsFit(i) ==
    /\ \A k, m \in Migs :
          mig[k].instance = i /\ mig[m].instance = i /\ Ended(mig[k]) =>
              ~At("starting", m) /\ (Ended(mig[m]) => k = m)
    /\ \A m \in Migs : mig[m].instance = i => FitsRecord(row[i], mig[m], files[i])

\* Why a RESIZED instance can be answered, or is being answered.
AnswerFits(i) ==
    /\ row[i].vm_state = "error" =>
          \A m \in Migs, place \in Places : mig[m].instance = i => ~At(place, m)
    /\ In(row[i], "resized", "none") =>
          \E m \in Migs :
              /\ mig[m].instance = i
              /\ \/ mig[m].status = "finished"
                 \/ /\ mig[m].status = "confirming"
                    /\ crashes > 0 \/ \E place \in Confirming : At(place, m)
    /\ In(row[i], "resized", "resize_reverting") =>
          crashes > 0 \/ \E m \in Migs, place \in Places :
                            mig[m].instance = i /\ At(place, m)

Held(i) ==
    /\ StepsFit(i) /\ OneStep(i) /\ CallFits(i) /\ RecordsFit(i) /\ AnswerFits(i)
    /\ FitsRow(row[i]) /\ FitsFiles(row[i], files[i])

Unsaved == \A m \in Migs : mig[m].status = "unused" => mig[m] = Blank

\* TypeOK and Known are what ResizeInstanceProofs has shown.
Invariant == TypeOK /\ Known /\ Unsaved /\ \A i \in Instances : Held(i)

-----------------------------------------------------------------------------
(* An instance seen from the one record that is worked on *)

\* No other record of the instance has a step or waits for an answer.
Alone(i, m) ==
    \A k \in Migs \ {m} :
        mig[k].instance = i => /\ ~Ended(mig[k])
                               /\ \A place \in Places : ~At(place, k)

\* Row r, record g and files fs of an instance whose one step is at place, or
\* which has no step if place is none of Places.
Sound(place, r, g, fs, called, died) ==
    /\ place \in Places => Fits(place, r, g, fs)
    /\ called <=> place = "rescheduled"
    /\ FitsRecord(r, g, fs) /\ FitsRow(r) /\ FitsFiles(r, fs)
    /\ Ended(g) => place # "starting"
    /\ r.vm_state = "error" => place \notin Places
    /\ In(r, "resized", "none") =>
          \/ g.status = "finished"
          \/ g.status = "confirming" /\ (died \/ place \in Confirming)
    /\ In(r, "resized", "resize_reverting") => died \/ place \in Places

\* A step of an instance is its only one, but for a poll that saw the record
\* finished before the handler was done.
LEMMA Holder ==
  ASSUME Invariant, NEW m \in Migs, NEW place \in Places, At(place, m),
         NEW i, i = mig[m].instance
  PROVE  /\ i \in Instances /\ row[i] \in Rows /\ mig[m] \in Complete
         /\ mig[m].status # "unused"
         /\ Alone(i, m)
         /\ Sound(place, row[i], mig[m], files[i], pending[i] # NoCall, crashes > 0)
         /\ \A q \in Places :
               At(q, m) => q = place \/ {q, place} = {"poll", "started"}
<1>1. TypeOK /\ Known
  BY DEF Invariant
<1>2. /\ i \in Instances /\ row[i] \in Rows /\ mig[m] \in Complete
      /\ mig[m].status # "unused"
  BY <1>1, StepFields, StepKnown
<1>3. Held(i)
  BY <1>2 DEF Invariant
<1>4. Fits(place, row[i], mig[m], files[i])
  BY <1>3 DEF Held, StepsFit
<1>5. \A k \in Migs, q \in Places :
         mig[k].instance = i /\ At(q, k) =>
             k = m /\ (q = place \/ {q, place} = {"poll", "started"})
  BY <1>3 DEF Held, OneStep
<1>6. ASSUME NEW k \in Migs, k # m, mig[k].instance = i PROVE ~Ended(mig[k])
  <2>1. /\ FitsRecord(row[i], mig[k], files[i])
        /\ Ended(mig[k]) => ~At("starting", m) /\ ~Ended(mig[m])
    BY <1>3, <1>6 DEF Held, RecordsFit
  <2>2. Ended(mig[k]) => \/ In(row[i], "active", "resize_finish")
                         \/ In(row[i], "resized", "none")
                         \/ In(row[i], "error", "none")
    BY <2>1 DEF FitsRecord, Ended
  <2>3. Ended(mig[m]) \/ place = "starting"
        \/ place \in Asked \cup {"giveup", "copying", "finish"} \cup Reverting
    BY <1>4 DEF Fits, Ended, Places, Asked, Reverting, Requests, Confirming
  <2> QED  BY <1>4, <2>1, <2>2, <2>3 DEF Fits, In
<1>7. Alone(i, m)
  BY <1>5, <1>6 DEF Alone
<1>8. row[i].vm_state # "error"
  BY <1>3 DEF Held, AnswerFits
<1>9. In(row[i], "resized", "none") =>
         \/ mig[m].status = "finished"
         \/ mig[m].status = "confirming" /\ (crashes > 0 \/ place \in Confirming)
  <2> SUFFICES ASSUME In(row[i], "resized", "none")
               PROVE  \/ mig[m].status = "finished"
                      \/ /\ mig[m].status = "confirming"
                         /\ crashes > 0 \/ place \in Confirming
    OBVIOUS
  <2>1. PICK k \in Migs :
              /\ mig[k].instance = i
              /\ \/ mig[k].status = "finished"
                 \/ /\ mig[k].status = "confirming"
                    /\ crashes > 0 \/ \E q \in Confirming : At(q, k)
    BY <1>3 DEF Held, AnswerFits
  <2>2. k = m
    BY <1>7, <2>1 DEF Alone, Ended
  <2>3. Confirming \subseteq Places
    BY DEF Confirming, Places
  <2> QED  BY <1>5, <2>1, <2>2, <2>3 DEF Confirming
<1>10. /\ pending[i] # NoCall <=> place = "rescheduled"
       /\ FitsRecord(row[i], mig[m], files[i])
       /\ FitsRow(row[i]) /\ FitsFiles(row[i], files[i])
       /\ Ended(mig[m]) => place # "starting"
  BY <1>3 DEF Held, CallFits, RecordsFit
<1> QED  BY <1>2, <1>4, <1>5, <1>7, <1>8, <1>9, <1>10 DEF Sound

\* The other way round, after a step.
LEMMA Outcome ==
  ASSUME NEW i \in Instances, NEW m \in Migs, mig'[m].instance = i,
         NEW to, \A q \in Places : At(q, m)' <=> q = to,
         Alone(i, m)',
         Sound(to, row'[i], mig'[m], files'[i], pending'[i] # NoCall, crashes' > 0)
  PROVE  Held(i)'
<1>1. \A k \in Migs, q \in Places :
         mig'[k].instance = i /\ At(q, k)' => k = m /\ q = to
  BY DEF Alone
<1>2. StepsFit(i)' /\ OneStep(i)'
  BY <1>1 DEF StepsFit, OneStep, Sound
<1>3. CallFits(i)'
  BY <1>1 DEF CallFits, Sound, Fits, Asked, Places
<1>4. RecordsFit(i)'
  <2>1. \A k \in Migs : mig'[k].instance = i => k = m \/ ~Ended(mig'[k])
    BY DEF Alone
  <2>2. "starting" \in Places
    BY DEF Places
  <2>3. \A k \in Migs : mig'[k].instance = i =>
           FitsRecord(row'[i], mig'[k], files'[i])
    BY <2>1 DEF Sound, FitsRecord, Ended
  <2> QED  BY <1>1, <2>1, <2>2, <2>3 DEF RecordsFit, Sound
<1>5. AnswerFits(i)'
  <2>1. Confirming \subseteq Places
    BY DEF Confirming, Places
  <2>2. to \in Places => At(to, m)'
    OBVIOUS
  <2> QED  BY <1>1, <2>1, <2>2 DEF AnswerFits, Sound
<1> QED  BY <1>2, <1>3, <1>4, <1>5 DEF Held, Sound

-----------------------------------------------------------------------------
(* What a step does to the instance and the record it is for *)

LockOf(r) == IF r.vm_state = "error" THEN "broken"
             ELSE IF r.task_state = "none" THEN "free" ELSE "held"

CopiesOf(fs) == {f[2] : f \in fs}

\* A step as InstanceMove wants it: who does not hold the instance does not
\* move it, and it moves only to a host with a copy.
Seen(r, fs, r2, fs2) ==
    /\ r2.host # r.host => /\ LockOf(r) = "held" /\ LockOf(r2) = "held"
                           /\ r2.host \in CopiesOf(fs2)
    /\ LockOf(r) = "free" => \/ LockOf(r2) = "free" /\ fs2 \subseteq fs
                             \/ LockOf(r2) = "held" /\ fs2 = fs
                             \/ LockOf(r2) = "broken"
    /\ LockOf(r) = "broken" => LockOf(r2) = "broken"

\* The step is about record m and its instance i, and ends at place to.
Acts(i, m, to) ==
    /\ \A j \in Instances \ {i} : /\ row'[j] = row[j] /\ files'[j] = files[j]
                                  /\ pending'[j] = pending[j]
    /\ \A k \in Migs \ {m} :
          mig'[k] = mig[k] /\ \A q \in Places : At(q, k)' <=> At(q, k)
    /\ mig[m].instance = i /\ mig[m].status # "unused" /\ Alone(i, m)
    /\ mig'[m].instance = i
    /\ crashes' = crashes
    /\ \A q \in Places : At(q, m)' <=> q = to
    /\ Sound(to, row'[i], mig'[m], files'[i], pending'[i] # NoCall, crashes' > 0)
    /\ Seen(row[i], files[i], row'[i], files'[i])

\* What is saved, and nothing else.
LEMMA Saves ==
  ASSUME TypeOK, NEW i \in Instances, NEW r, Save(i, r)
  PROVE  row'[i] = r /\ \A j \in Instances \ {i} : row'[j] = row[j]
BY DEF Save, TypeOK, TrackerTypeOK

LEMMA Marks ==
  ASSUME TypeOK, NEW m \in Migs, NEW s, SetStatus(m, s)
  PROVE  /\ mig'[m] = [mig[m] EXCEPT !.status = s]
         /\ \A k \in Migs \ {m} : mig'[k] = mig[k]
BY DEF SetStatus, TypeOK, TrackerTypeOK

\* Where a step goes.
LEMMA Goes ==
  ASSUME Invariant, NEW m \in Migs, NEW place \in Places \ {"poll", "started"},
         At(place, m), NEW to,
         Goto(place, to, m) \/ (Leave(place, m) /\ to = "nowhere")
  PROVE  /\ \A k \in Migs \ {m}, q \in Places : At(q, k)' <=> At(q, k)
         /\ \A q \in Places : At(q, m)' <=> q = to
<1>1. \A q \in Places : At(q, m) => q = place
  BY Holder
<1>2. "nowhere" \notin Places
  BY DEF Places
<1> QED  BY <1>1, <1>2 DEF Goto, Leave, At

\* At most the instance's row, its files and its record are written.
Only(i, m) ==
    /\ UNCHANGED row \/ \E r : Save(i, r)
    /\ \/ UNCHANGED mig
       \/ \E s : SetStatus(m, s)
       \/ \E n : mig' = [mig EXCEPT ![m].dest = n]
    /\ UNCHANGED files \/ \E fs : files' = [files EXCEPT ![i] = fs]
    /\ UNCHANGED <<pending, crashes>>

LEMMA OnlyActs ==
  ASSUME Invariant, NEW m \in Migs, NEW place \in Places \ {"poll", "started"},
         At(place, m), NEW to,
         Goto(place, to, m) \/ (Leave(place, m) /\ to = "nowhere"),
         NEW i, i = mig[m].instance, Only(i, m),
         Sound(to, row'[i], mig'[m], files'[i], pending[i] # NoCall, crashes > 0),
         Seen(row[i], files[i], row'[i], files'[i])
  PROVE  Acts(i, m, to)
<1>1. /\ TypeOK /\ i \in Instances /\ mig[m] \in Complete
      /\ mig[m].status # "unused" /\ Alone(i, m)
  BY Holder DEF Invariant
<1>2. \A j \in Instances \ {i} : row'[j] = row[j]
  BY <1>1, Saves DEF Only
<1>3. \A j \in Instances \ {i} : files'[j] = files[j]
  BY <1>1 DEF Only, TypeOK
<1>4. (\A k \in Migs \ {m} : mig'[k] = mig[k]) /\ mig'[m].instance = i
  <2>1. mig \in [Migs -> Records]
    BY <1>1 DEF TypeOK, TrackerTypeOK
  <2>2. CASE UNCHANGED mig
    BY <2>2
  <2>3. CASE \E s : SetStatus(m, s)
    BY <1>1, <2>3, Marks DEF Complete
  <2>4. CASE \E n : mig' = [mig EXCEPT ![m].dest = n]
    BY <1>1, <2>1, <2>4 DEF Complete
  <2> QED  BY <2>2, <2>3, <2>4 DEF Only
<1>5. /\ \A k \in Migs \ {m}, q \in Places : At(q, k)' <=> At(q, k)
      /\ \A q \in Places : At(q, m)' <=> q = to
  BY Goes
<1> QED  BY <1>1, <1>2, <1>3, <1>4, <1>5 DEF Acts, Only

\* prep_resize, up to the cast to the source or the call to the conductor.
LEMMA PrepActs ==
  ASSUME Invariant, Orderly, NEW m \in Migs,
         \/ PrepResize(m) \/ PrepRefused(m) \/ PrepToSelf(m) \/ CastResize(m)
         \/ AbortClaim(m) \/ PrepFails(m)
  PROVE  \E to : Acts(mig[m].instance, m, to)
<1> DEFINE i == mig[m].instance
           View(place) == Sound(place, row[i], mig[m], files[i],
                                pending[i] # NoCall, crashes > 0)
<1>0. TypeOK
  BY DEF Invariant
<1>1. ASSUME NEW to \in {"claimed", "raised"},
             At("prep", m), NewRecord(m), UNCHANGED <<rest, files>>,
             Goto("prep", to, m)
      PROVE  Acts(i, m, to)
  <2>1. i \in Instances /\ row[i] \in Rows /\ mig[m] \in Complete /\ View("prep")
    BY <1>1, Holder DEF Places
  <2>2. Only(i, m)
    BY <1>1 DEF Only, NewRecord, rest
  <2>3. /\ row'[i] = [row[i] EXCEPT !.new_flavor = mig[m].new]
        /\ mig'[m] = [mig[m] EXCEPT !.status = "pre-migrating"]
    BY <1>0, <1>1, <2>1, Saves, Marks DEF NewRecord
  <2>4. Sound(to, row'[i], mig'[m], files'[i], pending[i] # NoCall, crashes > 0)
    BY <1>1, <2>1, <2>3
    DEF Sound, Fits, FitsRecord, FitsRow, FitsFiles, In, Leaving, Arrived,
        Ended, Places, Asked, Requests, Confirming, Reverting, Seen, LockOf,
        Rows, Complete
  <2>5. Seen(row[i], files[i], row'[i], files'[i])
    BY <1>1, <2>1, <2>3 DEF Seen, LockOf, Rows, Sound, Fits, FitsRow, In, Asked, Places
  <2> QED
    BY <1>1, <2>2, <2>4, <2>5, OnlyActs DEF Places
<1>2. ASSUME NEW from \in {"prep", "claimed"}, NEW to \in {"raised", "resize"},
             At(from, m), Goto(from, to, m), UNCHANGED <<database, rest, files>>
      PROVE  Acts(i, m, to)
  <2>1. View(from)
    BY <1>2, Holder DEF Places
  <2>2. Only(i, m)
    BY <1>2 DEF Only, rest, database
  <2>3. Sound(to, row'[i], mig'[m], files'[i], pending[i] # NoCall, crashes > 0)
        /\ Seen(row[i], files[i], row'[i], files'[i])
    BY <1>2, <2>1
    DEF Sound, Fits, FitsRecord, FitsRow, FitsFiles, In, Leaving, Arrived,
        Ended, Places, Asked, Requests, Confirming, Reverting, Seen, LockOf,
        database
  <2> QED
    BY <1>2, <2>2, <2>3, OnlyActs DEF Places
<1>3. ASSUME NEW place \in {"raised", "giveup"}, PrepFails(m),
             At(place, m), Leave(place, m)
      PROVE  Acts(i, m, "nowhere")
  <2>1. i \in Instances /\ row[i] \in Rows /\ View(place)
    BY <1>3, Holder DEF Places
  <2>2. Only(i, m)
    BY <1>3 DEF PrepFails, Only, rest
  <2>3. row'[i] = Errored(row[i]) /\ UNCHANGED <<mig, files>>
    BY <1>0, <1>3, <2>1, Saves DEF PrepFails
  <2>4. Sound("nowhere", row'[i], mig'[m], files'[i], pending[i] # NoCall, crashes > 0)
        /\ Seen(row[i], files[i], row'[i], files'[i])
    BY <2>1, <2>3
    DEF Sound, Fits, FitsRecord, FitsRow, FitsFiles, In, Leaving, Arrived,
        Ended, Places, Asked, Requests, Confirming, Reverting, Seen, LockOf,
        Rows, Errored
  <2> QED
    BY <1>3, <2>2, <2>4, OnlyActs DEF Places
<1> QED
  BY <1>1, <1>2, <1>3
  DEF PrepResize, PrepRefused, PrepToSelf, CastResize, AbortClaim, PrepFails

\* _reschedule hands the instance back to the conductor.
LEMMA RescheduleActs ==
  ASSUME Invariant, NEW m \in Migs, Reschedule(m)
  PROVE  Acts(mig[m].instance, m, "rescheduled")
<1> DEFINE i == mig[m].instance
           c == [flavor |-> mig[m].new, tried |-> tried[m]]
<1>1. At("raised", m) /\ Goto("raised", "rescheduled", m)
  BY DEF Reschedule
<1>2. /\ i \in Instances /\ row[i] \in Rows /\ mig[m] \in Complete
      /\ mig[m].status # "unused" /\ Alone(i, m)
      /\ Sound("raised", row[i], mig[m], files[i], pending[i] # NoCall, crashes > 0)
  BY <1>1, Holder DEF Places
<1>3. /\ \A k \in Migs \ {m}, q \in Places : At(q, k)' <=> At(q, k)
      /\ \A q \in Places : At(q, m)' <=> q = "rescheduled"
  BY <1>1, Goes DEF Places
<1>4. /\ row'[i] = [row[i] EXCEPT !.task_state = "resize_prep"]
      /\ \A j \in Instances \ {i} : row'[j] = row[j]
  BY <1>2, Saves DEF Reschedule, Invariant
<1>5. c # NoCall
  BY <1>2, TrackerAssumption DEF NoCall, Complete
<1>6. pending' = [pending EXCEPT ![i] = c] /\ UNCHANGED <<mig, files, crashes>>
  BY DEF Reschedule, Call
<1>7. pending'[i] # NoCall /\ \A j \in Instances \ {i} : pending'[j] = pending[j]
  BY <1>2, <1>5, <1>6 DEF Invariant, TypeOK
<1>8. /\ Sound("rescheduled", row'[i], mig'[m], files'[i],
               pending'[i] # NoCall, crashes' > 0)
      /\ Seen(row[i], files[i], row'[i], files'[i])
  BY <1>2, <1>4, <1>6, <1>7
  DEF Sound, Fits, FitsRecord, FitsRow, FitsFiles, In, Leaving, Arrived, Ended,
      Places, Asked, Requests, Confirming, Reverting, Seen, LockOf, Rows
<1> QED
  BY <1>2, <1>3, <1>4, <1>6, <1>7, <1>8 DEF Acts

\* A copied disk leaves a backup at the source.
LEMMA FilesMoved ==
  ASSUME TypeOK, NEW m, mig[m].instance \in Instances, MoveFiles(m)
  PROVE  /\ Backup(mig[m].source) \in files'[mig[m].instance]
         /\ Disk(mig[m].dest) \in files'[mig[m].instance]
BY DEF TypeOK, MoveFiles, Backup, Disk

LEMMA CopyThere ==
  ASSUME NEW n, NEW fs, Disk(n) \in fs \/ Backup(n) \in fs
  PROVE  n \in CopiesOf(fs)
<1> DEFINE f == IF Disk(n) \in fs THEN Disk(n) ELSE Backup(n)
<1>1. f \in fs /\ f[2] = n
  BY DEF Disk, Backup
<1> QED  BY <1>1 DEF CopiesOf

\* resize_instance, from the save that expects RESIZE_PREP.
LEMMA ResizeActs ==
  ASSUME Invariant, Orderly, NEW m \in Migs,
         ResizeInstance(m) \/ Copied(m) \/ CopyFails(m)
  PROVE  \E to : Acts(mig[m].instance, m, to)
<1> DEFINE i == mig[m].instance
           View(place) == Sound(place, row[i], mig[m], files[i],
                                pending[i] # NoCall, crashes > 0)
<1>0. TypeOK
  BY DEF Invariant
<1>a. \A place \in Places : At(place, m) =>
        /\ i \in Instances /\ row[i] \in Rows /\ mig[m] \in Complete
        /\ View(place)
  BY Holder
<1>1. CASE ResizeInstance(m)
  <2>1. i \in Instances /\ row[i] \in Rows /\ mig[m] \in Complete /\ View("resize")
    BY <1>1, <1>a DEF ResizeInstance, MaySave, Places
  <2>2. Only(i, m)
    BY <1>1 DEF Only, ResizeInstance, rest
  <2>3. /\ row'[i] = [row[i] EXCEPT !.task_state = "resize_migrating"]
        /\ mig'[m] = [mig[m] EXCEPT !.status = "migrating"]
        /\ UNCHANGED files
    BY <1>0, <1>1, <2>1, Saves, Marks DEF ResizeInstance
  <2>4. /\ Sound("copying", row'[i], mig'[m], files'[i], pending[i] # NoCall,
                 crashes > 0)
        /\ Seen(row[i], files[i], row'[i], files'[i])
    BY <2>1, <2>3
    DEF Sound, Fits, FitsRecord, FitsRow, FitsFiles, In, Leaving, Arrived,
        Ended, Places, Asked, Requests, Confirming, Reverting, Seen, LockOf,
        Rows, Complete
  <2> QED
    BY <1>1, <2>2, <2>4, OnlyActs DEF ResizeInstance, MaySave, Places
<1>2. CASE Copied(m)
  <2>1. i \in Instances /\ row[i] \in Rows /\ mig[m] \in Complete /\ View("copying")
    BY <1>2, <1>a DEF Copied, MaySave, Places
  <2>2. Only(i, m)
    BY <1>2 DEF Only, Copied, MoveFiles, rest
  <2>3. /\ row'[i] = [row[i] EXCEPT !.host = mig[m].dest,
                                    !.task_state = "resize_migrated"]
        /\ mig'[m] = [mig[m] EXCEPT !.status = "post-migrating"]
    BY <1>0, <1>2, <2>1, Saves, Marks DEF Copied
  <2>4. /\ Backup(mig[m].source) \in files'[i]
        /\ Disk(mig[m].dest) \in files'[i]
    <3>1. MoveFiles(m)
      BY <1>2 DEF Copied
    <3>2. mig[m].instance \in Instances
      BY <2>1
    <3> QED  BY <1>0, <3>1, <3>2, FilesMoved
  <2>5. mig[m].dest \in CopiesOf(files'[i])
    BY <2>4, CopyThere
  <2>6. /\ Sound("finish", row'[i], mig'[m], files'[i], pending[i] # NoCall,
                 crashes > 0)
        /\ Seen(row[i], files[i], row'[i], files'[i])
    BY <2>1, <2>3, <2>4, <2>5
    DEF Sound, Fits, FitsRecord, FitsRow, FitsFiles, In, Leaving, Arrived,
        Ended, Places, Asked, Requests, Confirming, Reverting, Seen, LockOf,
        Rows, Complete
  <2> QED
    BY <1>2, <2>2, <2>6, OnlyActs DEF Copied, MaySave, Places
<1>3. CASE CopyFails(m)
  <2>1. i \in Instances /\ row[i] \in Rows /\ mig[m] \in Complete /\ View("copying")
    BY <1>3, <1>a DEF CopyFails, Places
  <2>2. Only(i, m)
    BY <1>3 DEF Only, CopyFails, MoveFiles, rest
  <2>3. /\ row'[i] = Errored(row[i])
        /\ mig'[m] = [mig[m] EXCEPT !.status = "error"]
    BY <1>0, <1>3, <2>1, Saves, Marks DEF CopyFails
  <2>4. files'[i] # {}
    BY <1>0, <1>3, <2>1, FilesMoved DEF CopyFails, Sound, FitsFiles
  <2>5. /\ Sound("nowhere", row'[i], mig'[m], files'[i], pending[i] # NoCall,
                 crashes > 0)
        /\ Seen(row[i], files[i], row'[i], files'[i])
    BY <2>1, <2>3, <2>4
    DEF Sound, Fits, FitsRecord, FitsRow, FitsFiles, In, Leaving, Arrived,
        Ended, Places, Asked, Requests, Confirming, Reverting, Seen, LockOf,
        Rows, Complete, Errored
  <2> QED
    BY <1>3, <2>2, <2>5, OnlyActs DEF CopyFails, Places
<1> QED
  BY <1>1, <1>2, <1>3

\* finish_resize, up to its last save.
LEMMA FinishActs ==
  ASSUME Invariant, Orderly, NEW m \in Migs,
         FinishResize(m) \/ Finished(m) \/ FinishFails(m)
  PROVE  \E to : Acts(mig[m].instance, m, to)
<1> DEFINE i == mig[m].instance
           View(place) == Sound(place, row[i], mig[m], files[i],
                                pending[i] # NoCall, crashes > 0)
<1>0. TypeOK
  BY DEF Invariant
<1>a. \A place \in Places : At(place, m) =>
        /\ i \in Instances /\ row[i] \in Rows /\ mig[m] \in Complete
        /\ View(place)
  BY Holder
<1>1. CASE FinishResize(m)
  <2>1. i \in Instances /\ row[i] \in Rows /\ mig[m] \in Complete /\ View("finish")
    BY <1>1, <1>a DEF FinishResize, MaySave, Places
  <2>2. Only(i, m)
    BY <1>1 DEF Only, FinishResize, rest
  <2>3. /\ row'[i] = [Resized(m, row[i]) EXCEPT !.task_state = "resize_finish"]
        /\ UNCHANGED <<mig, files>>
    BY <1>0, <1>1, <2>1, Saves DEF FinishResize
  <2>4. /\ Sound("starting", row'[i], mig'[m], files'[i], pending[i] # NoCall,
                 crashes > 0)
        /\ Seen(row[i], files[i], row'[i], files'[i])
    BY <2>1, <2>3
    DEF Sound, Fits, FitsRecord, FitsRow, FitsFiles, In, Leaving, Arrived,
        Ended, Places, Asked, Requests, Confirming, Reverting, Seen, LockOf,
        Rows, Complete, Resized
  <2> QED
    BY <1>1, <2>2, <2>4, OnlyActs DEF FinishResize, MaySave, Places
<1>2. CASE Finished(m)
  <2>1. i \in Instances /\ row[i] \in Rows /\ mig[m] \in Complete /\ View("starting")
    BY <1>2, <1>a DEF Finished, Places
  <2>2. Only(i, m)
    BY <1>2 DEF Only, Finished, rest
  <2>3. mig'[m] = [mig[m] EXCEPT !.status = "finished"] /\ UNCHANGED <<row, files>>
    BY <1>0, <1>2, <2>1, Marks DEF Finished
  <2>4. /\ Sound("started", row'[i], mig'[m], files'[i], pending[i] # NoCall,
                 crashes > 0)
        /\ Seen(row[i], files[i], row'[i], files'[i])
    BY <2>1, <2>3
    DEF Sound, Fits, FitsRecord, FitsRow, FitsFiles, In, Leaving, Arrived,
        Ended, Places, Asked, Requests, Confirming, Reverting, Seen, LockOf,
        Complete
  <2> QED
    BY <1>2, <2>2, <2>4, OnlyActs DEF Finished, Places
<1>3. ASSUME NEW place \in {"finish", "starting"}, At(place, m), Leave(place, m),
             NEW r \in Rows, r.host = row[i].host, Save(i, Errored(r)),
             FinishFails(m)
      PROVE  Acts(i, m, "nowhere")
  <2>1. i \in Instances /\ row[i] \in Rows /\ mig[m] \in Complete /\ View(place)
    BY <1>3, <1>a DEF Places
  <2>2. Only(i, m)
    BY <1>3 DEF Only, FinishFails, rest
  <2>3. /\ row'[i] = Errored(r) /\ UNCHANGED files
        /\ mig'[m] = [mig[m] EXCEPT !.status = "error"]
    BY <1>0, <1>3, <2>1, Saves, Marks DEF FinishFails
  <2>4. /\ Sound("nowhere", row'[i], mig'[m], files'[i], pending[i] # NoCall,
                 crashes > 0)
        /\ Seen(row[i], files[i], row'[i], files'[i])
    BY <1>3, <2>1, <2>3
    DEF Sound, Fits, FitsRecord, FitsRow, FitsFiles, In, Leaving, Arrived,
        Ended, Places, Asked, Requests, Confirming, Reverting, Seen, LockOf,
        Rows, Complete, Errored
  <2> QED
    BY <1>3, <2>2, <2>4, OnlyActs DEF Places
<1>4. CASE FinishFails(m)
  <2>1. i \in Instances /\ row[i] \in Rows /\ mig[m] \in Complete
    BY <1>4, <1>a DEF FinishFails, Places
  <2>2. Resized(m, row[i]) \in Rows /\ [row[i] EXCEPT !.flavor = mig[m].old] \in Rows
    BY <2>1, RowsMade DEF Complete, Resized
  <2>3. /\ Resized(m, row[i]).host = row[i].host
        /\ [row[i] EXCEPT !.flavor = mig[m].old].host = row[i].host
    BY <2>1 DEF Resized, Rows
  <2> QED
    BY <1>3, <1>4, <2>2, <2>3 DEF FinishFails
<1> QED
  BY <1>1, <1>2, <1>4

\* confirm_resize at the source, under the lock of the instance.
LEMMA ConfirmActs ==
  ASSUME Invariant, Orderly, NEW m \in Migs,
         ConfirmSave(m) \/ ConfirmResize(m) \/ Confirmed(m) \/ ConfirmFails(m)
  PROVE  \E to : Acts(mig[m].instance, m, to)
<1> DEFINE i == mig[m].instance
           View(place) == Sound(place, row[i], mig[m], files[i],
                                pending[i] # NoCall, crashes > 0)
<1>0. TypeOK
  BY DEF Invariant
<1>a. \A place \in Places : At(place, m) =>
        /\ i \in Instances /\ row[i] \in Rows /\ mig[m] \in Complete
        /\ View(place)
  BY Holder
<1>1. ASSUME NEW place \in {"api-confirm", "auto-confirm"}, ConfirmSave(m),
             At(place, m), Goto(place, "confirm", m)
      PROVE  Acts(i, m, "confirm")
  <2>1. i \in Instances /\ row[i] \in Rows /\ mig[m] \in Complete /\ View(place)
    BY <1>1, <1>a DEF Places
  <2>2. Only(i, m)
    BY <1>1 DEF Only, ConfirmSave, rest
  <2>3. mig'[m] = [mig[m] EXCEPT !.status = "confirming"] /\ UNCHANGED <<row, files>>
    BY <1>0, <1>1, <2>1, Marks DEF ConfirmSave
  <2>4. /\ Sound("confirm", row'[i], mig'[m], files'[i], pending[i] # NoCall,
                 crashes > 0)
        /\ Seen(row[i], files[i], row'[i], files'[i])
    BY <2>1, <2>3
    DEF Sound, Fits, FitsRecord, FitsRow, FitsFiles, In, Leaving, Arrived,
        Ended, Places, Asked, Requests, Confirming, Reverting, Seen, LockOf,
        Complete
  <2> QED
    BY <1>1, <2>2, <2>4, OnlyActs DEF Places
<1>2. ASSUME NEW to \in {"cleanup", "bare"}, ConfirmResize(m), Goto("confirm", to, m),
             Save(i, [row[i] EXCEPT !.old_flavor = "none", !.new_flavor = "none"])
      PROVE  Acts(i, m, to)
  <2>1. i \in Instances /\ row[i] \in Rows /\ mig[m] \in Complete /\ View("confirm")
    BY <1>2, <1>a DEF ConfirmResize, Places
  <2>2. Only(i, m)
    BY <1>2 DEF Only, ConfirmResize, rest
  <2>3. /\ row'[i] = [row[i] EXCEPT !.old_flavor = "none", !.new_flavor = "none"]
        /\ UNCHANGED <<mig, files>>
    BY <1>0, <1>2, <2>1, Saves DEF ConfirmResize
  <2>4. /\ Sound(to, row'[i], mig'[m], files'[i], pending[i] # NoCall, crashes > 0)
        /\ Seen(row[i], files[i], row'[i], files'[i])
    BY <1>2, <2>1, <2>3
    DEF Sound, Fits, FitsRecord, FitsRow, FitsFiles, In, Leaving, Arrived,
        Ended, Places, Asked, Requests, Confirming, Reverting, Seen, LockOf,
        Rows
  <2> QED
    BY <1>2, <2>2, <2>4, OnlyActs DEF ConfirmResize, Places
<1>3. ASSUME NEW place \in {"cleanup", "bare"}, Confirmed(m),
             At(place, m), Leave(place, m)
      PROVE  Acts(i, m, "nowhere")
  <2>1. i \in Instances /\ row[i] \in Rows /\ mig[m] \in Complete /\ View(place)
    BY <1>3, <1>a DEF Places
  <2>2. Only(i, m)
    BY <1>3 DEF Only, Confirmed, rest
  <2>3. /\ row'[i] = [row[i] EXCEPT !.vm_state = "active"]
        /\ mig'[m] = [mig[m] EXCEPT !.status = "confirmed"]
    <3>1. row[i].task_state = "none"
      BY <1>3, <2>1 DEF Sound, Fits, In, Requests, Confirming, Places
    <3>2. Save(i, [row[i] EXCEPT !.vm_state = "active"]) /\ SetStatus(m, "confirmed")
      BY <1>3, <3>1 DEF Confirmed
    <3> QED  BY <1>0, <2>1, <3>2, Saves, Marks
  <2>4. files'[i] = files[i] \ {Backup(mig[m].source)}
    BY <1>0, <1>3, <2>1 DEF Confirmed, TypeOK, Backup
  <2>5. Disk(row[i].host) \in files'[i]
    <3>1. Disk(row[i].host) # Backup(mig[m].source)
      BY DEF Disk, Backup
    <3> QED
      BY <1>3, <2>1, <2>4, <3>1
      DEF Sound, Fits, FitsFiles, In, Requests, Confirming, Places
  <2>6. /\ Sound("nowhere", row'[i], mig'[m], files'[i], pending[i] # NoCall,
                 crashes > 0)
        /\ Seen(row[i], files[i], row'[i], files'[i])
    BY <1>3, <2>1, <2>3, <2>4, <2>5
    DEF Sound, Fits, FitsRecord, FitsRow, FitsFiles, In, Leaving, Arrived,
        Ended, Places, Asked, Requests, Confirming, Reverting, Seen, LockOf,
        Rows, Complete
  <2> QED
    BY <1>3, <2>2, <2>6, OnlyActs DEF Places
<1>4. ASSUME NEW place \in {"cleanup", "bare"}, ConfirmFails(m),
             At(place, m), Leave(place, m)
      PROVE  Acts(i, m, "nowhere")
  <2>1. i \in Instances /\ row[i] \in Rows /\ mig[m] \in Complete /\ View(place)
    BY <1>4, <1>a DEF Places
  <2>2. Only(i, m)
    BY <1>4 DEF Only, ConfirmFails, rest
  <2>3. row'[i] = [row[i] EXCEPT !.vm_state = "error"] /\ UNCHANGED <<mig, files>>
    BY <1>0, <1>4, <2>1, Saves DEF ConfirmFails
  <2>4. /\ Sound("nowhere", row'[i], mig'[m], files'[i], pending[i] # NoCall,
                 crashes > 0)
        /\ Seen(row[i], files[i], row'[i], files'[i])
    BY <1>4, <2>1, <2>3
    DEF Sound, Fits, FitsRecord, FitsRow, FitsFiles, In, Leaving, Arrived,
        Ended, Places, Asked, Requests, Confirming, Reverting, Seen, LockOf,
        Rows
  <2> QED
    BY <1>4, <2>2, <2>4, OnlyActs DEF Places
<1>5. CASE ConfirmResize(m)
  <2>1. StillUnconfirmed(m)
    BY <1>5, <1>a
    DEF ConfirmResize, StillUnconfirmed, Sound, Fits, In, Requests, Confirming,
        Places
  <2> QED
    BY <1>2, <1>5, <2>1 DEF ConfirmResize
<1> QED
  BY <1>1, <1>3, <1>4, <1>5 DEF ConfirmSave, Confirmed, ConfirmFails

\* revert_resize at the destination and finish_revert_resize at the source.
LEMMA RevertActs ==
  ASSUME Invariant, Orderly, NEW m \in Migs,
         \/ RevertSave(m) \/ RevertResize(m) \/ DropRevertedClaim(m)
         \/ FinishRevert(m) \/ Reverted(m) \/ RevertFails(m)
  PROVE  \E to : Acts(mig[m].instance, m, to)
<1> DEFINE i == mig[m].instance
           View(place) == Sound(place, row[i], mig[m], files[i],
                                pending[i] # NoCall, crashes > 0)
<1>0. TypeOK
  BY DEF Invariant
<1>a. \A place \in Places : At(place, m) =>
        /\ i \in Instances /\ row[i] \in Rows /\ mig[m] \in Complete
        /\ View(place)
  BY Holder
<1>1. CASE RevertSave(m)
  <2>1. i \in Instances /\ row[i] \in Rows /\ mig[m] \in Complete /\ View("api-revert")
    BY <1>1, <1>a DEF RevertSave, Places
  <2>2. /\ Save(i, [row[i] EXCEPT !.task_state = "resize_reverting"])
        /\ SetStatus(m, "reverting") /\ Goto("api-revert", "revert", m)
        /\ UNCHANGED <<rest, files>>
    BY <1>1, <2>1 DEF RevertSave, Sound, Fits, In, Requests, Places
  <2>3. Only(i, m)
    BY <2>2 DEF Only, rest
  <2>4. /\ row'[i] = [row[i] EXCEPT !.task_state = "resize_reverting"]
        /\ mig'[m] = [mig[m] EXCEPT !.status = "reverting"]
    BY <1>0, <2>1, <2>2, Saves, Marks
  <2>5. /\ Sound("revert", row'[i], mig'[m], files'[i], pending[i] # NoCall,
                 crashes > 0)
        /\ Seen(row[i], files[i], row'[i], files'[i])
    BY <2>1, <2>2, <2>4
    DEF Sound, Fits, FitsRecord, FitsRow, FitsFiles, In, Leaving, Arrived,
        Ended, Places, Asked, Requests, Confirming, Reverting, Seen, LockOf,
        Rows, Complete
  <2> QED
    BY <1>1, <2>2, <2>3, <2>5, OnlyActs DEF RevertSave, Places
<1>2. CASE RevertResize(m)
  <2>1. i \in Instances /\ row[i] \in Rows /\ mig[m] \in Complete /\ View("revert")
    BY <1>2, <1>a DEF RevertResize, Places
  <2>2. Only(i, m)
    BY <1>2 DEF Only, RevertResize, rest
  <2>3. mig'[m] = [mig[m] EXCEPT !.status = "reverted"] /\ UNCHANGED row
    BY <1>0, <1>2, <2>1, Marks DEF RevertResize
  <2>4. files'[i] = files[i] \ {Disk(mig[m].dest)}
    BY <1>0, <1>2, <2>1 DEF RevertResize, TypeOK, Disk
  <2>5. Backup(mig[m].source) \in files'[i]
    <3>1. Backup(mig[m].source) # Disk(mig[m].dest)
      BY DEF Disk, Backup
    <3> QED  BY <2>1, <2>4, <3>1 DEF Sound, Fits, Reverting, Places
  <2>6. /\ Sound("destroyed", row'[i], mig'[m], files'[i], pending[i] # NoCall,
                 crashes > 0)
        /\ Seen(row[i], files[i], row'[i], files'[i])
    BY <2>1, <2>3, <2>5
    DEF Sound, Fits, FitsRecord, FitsRow, FitsFiles, In, Leaving, Arrived,
        Ended, Places, Asked, Requests, Confirming, Reverting, Seen, LockOf,
        Complete
  <2> QED
    BY <1>2, <2>2, <2>6, OnlyActs DEF RevertResize, Places
<1>3. CASE DropRevertedClaim(m)
  <2>1. View("destroyed")
    BY <1>3, <1>a DEF DropRevertedClaim, Places
  <2>2. Only(i, m) /\ UNCHANGED <<row, mig, files>>
    BY <1>3 DEF Only, DropRevertedClaim, database, rest
  <2>3. /\ Sound("finish-revert", row'[i], mig'[m], files'[i], pending[i] # NoCall,
                 crashes > 0)
        /\ Seen(row[i], files[i], row'[i], files'[i])
    BY <2>1, <2>2
    DEF Sound, Fits, FitsRecord, FitsRow, FitsFiles, In, Leaving, Arrived,
        Ended, Places, Asked, Requests, Confirming, Reverting, Seen, LockOf
  <2> QED
    BY <1>3, <2>2, <2>3, OnlyActs DEF DropRevertedClaim, Places
<1>4. CASE FinishRevert(m)
  <2>1. i \in Instances /\ row[i] \in Rows /\ mig[m] \in Complete
        /\ View("finish-revert")
    BY <1>4, <1>a DEF FinishRevert, Places
  <2>2. Only(i, m)
    BY <1>4 DEF Only, FinishRevert, rest
  <2>3. row'[i] = [row[i] EXCEPT !.host = mig[m].source, !.flavor = mig[m].old,
                                 !.old_flavor = "none", !.new_flavor = "none"]
    BY <1>0, <1>4, <2>1, Saves DEF FinishRevert, Home, Original
  <2>4. mig'[m] = [mig[m] EXCEPT !.dest = mig[m].source] /\ UNCHANGED files
    BY <1>0, <1>4, <2>1 DEF FinishRevert, TypeOK, TrackerTypeOK
  <2>5. mig[m].source \in CopiesOf(files'[i])
    BY <2>1, <2>4, CopyThere DEF Sound, Fits, Reverting, Places
  <2>6. /\ Sound("restarting", row'[i], mig'[m], files'[i], pending[i] # NoCall,
                 crashes > 0)
        /\ Seen(row[i], files[i], row'[i], files'[i])
    BY <2>1, <2>3, <2>4, <2>5
    DEF Sound, Fits, FitsRecord, FitsRow, FitsFiles, In, Leaving, Arrived,
        Ended, Places, Asked, Requests, Confirming, Reverting, Seen, LockOf,
        Rows, Complete
  <2> QED
    BY <1>4, <2>2, <2>6, OnlyActs DEF FinishRevert, Places
<1>5. CASE Reverted(m)
  <2>1. i \in Instances /\ row[i] \in Rows /\ mig[m] \in Complete
        /\ View("restarting")
    BY <1>5, <1>a DEF Reverted, MaySave, Places
  <2>2. Only(i, m)
    BY <1>5 DEF Only, Reverted, RestoreFiles, rest
  <2>3. /\ row'[i] = [row[i] EXCEPT !.vm_state = "active", !.task_state = "none"]
        /\ UNCHANGED mig
    BY <1>0, <1>5, <2>1, Saves DEF Reverted
  <2>4. Disk(mig[m].source) \in files'[i]
    BY <1>0, <1>5, <2>1 DEF Reverted, RestoreFiles, TypeOK, Disk
  <2>5. /\ Sound("nowhere", row'[i], mig'[m], files'[i], pending[i] # NoCall,
                 crashes > 0)
        /\ Seen(row[i], files[i], row'[i], files'[i])
    BY <2>1, <2>3, <2>4
    DEF Sound, Fits, FitsRecord, FitsRow, FitsFiles, In, Leaving, Arrived,
        Ended, Places, Asked, Requests, Confirming, Reverting, Seen, LockOf,
        Rows
  <2> QED
    BY <1>5, <2>2, <2>5, OnlyActs DEF Reverted, MaySave, Places
<1>6. ASSUME NEW place \in {"revert", "restarting"}, RevertFails(m),
             At(place, m), Leave(place, m)
      PROVE  Acts(i, m, "nowhere")
  <2>1. i \in Instances /\ row[i] \in Rows /\ View(place)
    BY <1>6, <1>a DEF Places
  <2>2. Only(i, m)
    BY <1>6 DEF Only, RevertFails, rest
  <2>3. row'[i] = Errored(row[i]) /\ UNCHANGED <<mig, files>>
    BY <1>0, <1>6, <2>1, Saves DEF RevertFails
  <2>4. /\ Sound("nowhere", row'[i], mig'[m], files'[i], pending[i] # NoCall,
                 crashes > 0)
        /\ Seen(row[i], files[i], row'[i], files'[i])
    BY <1>6, <2>1, <2>3
    DEF Sound, Fits, FitsRecord, FitsRow, FitsFiles, In, Leaving, Arrived,
        Ended, Places, Asked, Requests, Confirming, Reverting, Seen, LockOf,
        Rows, Errored
  <2> QED
    BY <1>6, <2>2, <2>4, OnlyActs DEF Places
<1> QED
  BY <1>1, <1>2, <1>3, <1>4, <1>5, <1>6 DEF RevertFails

\* A request finds a resize that nobody answers yet.
LEMMA RequestActs ==
  ASSUME Invariant, Orderly, NEW m \in Migs, ConfirmRequest(m) \/ RevertRequest(m)
  PROVE  \E to : Acts(mig[m].instance, m, to)
<1> DEFINE i == mig[m].instance
<1>0. PICK to \in {"api-confirm", "api-revert"} : steps' = steps \cup {<<to, m>>}
  BY DEF ConfirmRequest, RevertRequest
<1>1. /\ UNCHANGED <<database, rest, files>>
      /\ mig[m].status = "finished" /\ Waiting(row[i]) /\ ~Overlapping(i)
  BY DEF ConfirmRequest, RevertRequest, Confirmable, MayRequest, Orderly
<1>2. i \in Instances /\ row[i] \in Rows
  BY <1>1 DEF Invariant, Known, Complete, TypeOK, TrackerTypeOK
<1>3. Held(i)
  BY <1>2 DEF Invariant
<1>4. \A k \in Migs \ {m} : mig[k].instance = i => ~Ended(mig[k])
  BY <1>1, <1>3 DEF Held, RecordsFit, Ended
<1>5. ASSUME NEW k \in Migs, NEW q \in Places, mig[k].instance = i, At(q, k)
      PROVE  FALSE
  <2>1. k = m /\ Sound(q, row[i], mig[k], files[i], pending[i] # NoCall, crashes > 0)
    <3>1. Sound(q, row[i], mig[k], files[i], pending[i] # NoCall, crashes > 0)
          /\ Alone(i, k)
      BY <1>5, Holder
    <3> QED  BY <1>1, <3>1 DEF Alone, Ended
  <2>2. q \notin Requests \cup {"poll"}
    BY <1>1, <1>5 DEF Overlapping, Requests
  <2> QED
    BY <1>1, <1>5, <2>1, <2>2
    DEF Sound, Fits, In, Waiting, Places, Asked, Requests, Confirming, Reverting
<1>6. pending[i] = NoCall
  BY <1>1, <1>3 DEF Held, CallFits, In, Waiting
<1>7. Sound(to, row'[i], mig'[m], files'[i], pending'[i] # NoCall, crashes' > 0)
  BY <1>0, <1>1, <1>3, <1>6
  DEF Sound, Fits, Held, RecordsFit, In, Waiting, Ended, Places, Asked, Requests,
      Confirming, Reverting, database, rest
<1>8. \A q \in Places : At(q, m)' <=> q = to
  BY <1>0, <1>5 DEF At, Places
<1>9. \A k \in Migs \ {m}, q \in Places : At(q, k)' <=> At(q, k)
  BY <1>0 DEF At
<1>10. Alone(i, m)
  BY <1>4, <1>5 DEF Alone
<1> QED
  BY <1>1, <1>7, <1>8, <1>9, <1>10 DEF Acts, Seen, LockOf, database, rest

\* The last save of finish_resize, and a poll of the instance: the periodic task
\* may have listed the record while the handler was not done.
LEMMA EndActs ==
  ASSUME Invariant, Orderly, NEW m \in Migs, FinishDone(m) \/ PollInstance(m)
  PROVE  \E to : Acts(mig[m].instance, m, to)
<1> DEFINE i == mig[m].instance
<1>0. TypeOK
  BY DEF Invariant
<1>1. ASSUME NEW place \in {"poll", "started"}, At(place, m)
      PROVE  /\ i \in Instances /\ row[i] \in Rows
             /\ mig[m].status # "unused" /\ Alone(i, m)
             /\ Sound(place, row[i], mig[m], files[i], pending[i] # NoCall,
                      crashes > 0)
             /\ \A q \in Places : At(q, m) => q \in {"poll", "started"}
  <2>1. place \in Places
    BY DEF Places
  <2> QED  BY <1>1, <2>1, Holder
<1>2. CASE FinishDone(m)
  <2>1. PICK to \in {"poll", "nowhere"} : At("poll", m) <=> to = "poll"
    OBVIOUS
  <2>2. /\ At("started", m) /\ Leave("started", m)
        /\ Save(i, AsResized(row[i])) /\ UNCHANGED <<mig, rest, files>>
    BY <1>2 DEF FinishDone, MaySave
  <2>3. /\ row'[i] = AsResized(row[i])
        /\ \A j \in Instances \ {i} : row'[j] = row[j]
    BY <1>0, <1>1, <2>2, Saves
  <2>4. /\ Sound(to, row'[i], mig'[m], files'[i], pending'[i] # NoCall, crashes' > 0)
        /\ Seen(row[i], files[i], row'[i], files'[i])
    BY <1>1, <2>2, <2>3
    DEF Sound, Fits, FitsRecord, FitsRow, FitsFiles, In, Arrived, Ended, Places,
        Asked, Requests, Confirming, Reverting, Seen, LockOf, Rows, AsResized, rest
  <2>5. \A q \in Places : At(q, m)' <=> q = to
    BY <1>1, <2>1, <2>2 DEF Leave, At, Places
  <2>6. \A k \in Migs \ {m}, q \in Places : At(q, k)' <=> At(q, k)
    BY <2>2 DEF Leave, At
  <2> QED
    BY <1>1, <2>2, <2>3, <2>4, <2>5, <2>6 DEF Acts, rest
<1>3. CASE PollInstance(m)
  <2>1. /\ At("poll", m) /\ UNCHANGED <<row, rest, files>>
        /\ Sound("poll", row[i], mig[m], files[i], pending[i] # NoCall, crashes > 0)
    BY <1>1, <1>3 DEF PollInstance
  <2>2. mig[m].status = "finished" /\ (Waiting(row[i]) \/ StillResizing(row[i]))
    BY <2>1 DEF Sound, Fits, FitsRecord, In, Waiting, StillResizing, Places
  <2>3. UNCHANGED mig
    BY <1>3, <2>2 DEF PollInstance
  <2>4. CASE Waiting(row[i])
    <3>1. Goto("poll", "auto-confirm", m)
      BY <1>3, <2>4 DEF PollInstance, Waiting, StillResizing
    <3>2. ~At("started", m)
      BY <1>1, <2>4 DEF Sound, Fits, In, Waiting, Places
    <3>3. \A q \in Places : At(q, m)' <=> q = "auto-confirm"
      BY <1>1, <2>1, <3>1, <3>2 DEF Goto, At, Places
    <3>4. \A k \in Migs \ {m}, q \in Places : At(q, k)' <=> At(q, k)
      BY <3>1 DEF Goto, At
    <3>5. Sound("auto-confirm", row'[i], mig'[m], files'[i],
                pending'[i] # NoCall, crashes' > 0)
      BY <2>1, <2>2, <2>3, <2>4
      DEF Sound, Fits, In, Waiting, Ended, Places, Asked, Requests, Confirming,
          Reverting, rest
    <3> QED
      BY <1>1, <2>1, <2>3, <3>3, <3>4, <3>5 DEF Acts, Seen, LockOf, rest
  <2>5. CASE StillResizing(row[i])
    <3>1. Leave("poll", m)
      BY <1>3, <2>2, <2>5 DEF PollInstance, Waiting, StillResizing
    <3>2. PICK to \in {"started", "nowhere"} : At("started", m) <=> to = "started"
      OBVIOUS
    <3>3. \A q \in Places : At(q, m)' <=> q = to
      BY <1>1, <2>1, <3>1, <3>2 DEF Leave, At, Places
    <3>4. \A k \in Migs \ {m}, q \in Places : At(q, k)' <=> At(q, k)
      BY <3>1 DEF Leave, At
    <3>5. In(row[i], "active", "resize_finish")
      BY <2>1, <2>2, <2>5 DEF Sound, FitsRecord, StillResizing, In
    <3>6. Sound(to, row'[i], mig'[m], files'[i], pending'[i] # NoCall, crashes' > 0)
      BY <2>1, <2>2, <2>3, <3>5
      DEF Sound, Fits, In, Ended, Places, Asked, Requests, Confirming, Reverting,
          rest
    <3> QED
      BY <1>1, <2>1, <2>3, <3>3, <3>4, <3>6 DEF Acts, Seen, LockOf, rest
  <2> QED
    BY <2>2, <2>4, <2>5
<1> QED
  BY <1>2, <1>3

-----------------------------------------------------------------------------
(* Every step keeps the invariant, and is as InstanceMove wants it *)

SeenAll == \A j \in Instances : Seen(row[j], files[j], row'[j], files'[j])

\* An instance that a step is not about.
LEMMA Elsewhere ==
  ASSUME Invariant, NEW j \in Instances, row'[j] = row[j], files'[j] = files[j],
         pending'[j] = pending[j], crashes' = crashes,
         \A k \in Migs : mig[k].instance = j \/ mig'[k].instance = j =>
             mig'[k] = mig[k] /\ \A q \in Places : At(q, k)' <=> At(q, k)
  PROVE  Held(j)'
<1>1. Held(j)
  BY DEF Invariant
<1>2. Confirming \subseteq Places /\ "starting" \in Places
  BY DEF Confirming, Places
<1>3. StepsFit(j)' /\ OneStep(j)'
  BY <1>1 DEF Held, StepsFit, OneStep
<1>4. CallFits(j)' /\ RecordsFit(j)'
  BY <1>1, <1>2 DEF Held, CallFits, RecordsFit
<1>5. AnswerFits(j)'
  BY <1>1, <1>2 DEF Held, AnswerFits
<1> QED
  BY <1>1, <1>3, <1>4, <1>5 DEF Held

LEMMA ActsHeld ==
  ASSUME Invariant, NEW i \in Instances, NEW m \in Migs, NEW to, Acts(i, m, to)
  PROVE  (\A j \in Instances : Held(j)') /\ SeenAll
<1>1. Held(i)'
  <2>1. Alone(i, m)'
    BY DEF Acts, Alone
  <2> QED  BY <2>1, Outcome DEF Acts
<1>2. ASSUME NEW j \in Instances, j # i PROVE Held(j)'
  BY <1>2, Elsewhere DEF Acts
<1>3. SeenAll
  BY DEF SeenAll, Acts, Seen
<1> QED  BY <1>1, <1>2, <1>3

\* An instance that is free, or waits for the conductor alone.
LEMMA FreeHeld ==
  ASSUME NEW i \in Instances,
         In(row'[i], "active", "none") \/ In(row'[i], "active", "resize_prep"),
         In(row'[i], "active", "none") => pending'[i] = NoCall,
         FitsFiles(row'[i], files'[i]),
         \A k \in Migs : mig'[k].instance = i =>
             ~Ended(mig'[k]) /\ \A q \in Places : ~At(q, k)'
  PROVE  Held(i)'
<1>1. StepsFit(i)' /\ OneStep(i)' /\ CallFits(i)' /\ AnswerFits(i)'
  BY DEF StepsFit, OneStep, CallFits, AnswerFits, In
<1>2. RecordsFit(i)'
  BY DEF RecordsFit, FitsRecord, Ended
<1>3. FitsRow(row'[i])
  BY DEF FitsRow, In
<1> QED  BY <1>1, <1>2, <1>3 DEF Held

\* The steps and records of an instance that is free, or is about to be moved.
LEMMA Unmoved ==
  ASSUME Invariant, NEW i \in Instances,
         \/ In(row[i], "active", "none")
         \/ In(row[i], "active", "resize_prep")
         \/ In(row[i], "active", "resize_migrating"),
         NEW k \in Migs, mig[k].instance = i
  PROVE  /\ ~Ended(mig[k])
         /\ In(row[i], "active", "none") =>
               \A q \in Places : At(q, k) => q = "giveup"
         /\ In(row[i], "active", "resize_migrating") =>
               \A q \in Places : At(q, k) => q = "copying"
<1>1. Held(i)
  BY DEF Invariant
<1>2. ~Ended(mig[k])
  BY <1>1 DEF Held, RecordsFit, FitsRecord, Ended, In
<1>3. ASSUME NEW q \in Places, At(q, k)
      PROVE  Fits(q, row[i], mig[k], files[i])
  BY <1>1, <1>3 DEF Held, StepsFit
<1> QED
  BY <1>2, <1>3
  DEF Fits, In, Ended, Places, Asked, Requests, Confirming, Reverting

\* The API and the conductor.
LEMMA ConductorHeld ==
  ASSUME Invariant, Orderly, NEW i \in Instances,
         Conductor(i) \/ \E f \in Flavors : Resize(i, f)
  PROVE  (\A j \in Instances : Held(j)') /\ SeenAll
<1>0. TypeOK /\ Known /\ Unsaved /\ Held(i) /\ row[i] \in Rows
  BY DEF Invariant, TypeOK, TrackerTypeOK
<1>1. ASSUME NEW f \in Flavors, Resize(i, f)
      PROVE  (\A j \in Instances : Held(j)') /\ SeenAll
  <2>1. /\ row'[i] = [row[i] EXCEPT !.task_state = "resize_prep"]
        /\ \A j \in Instances \ {i} : row'[j] = row[j]
    BY <1>0, <1>1, Saves DEF Resize
  <2>2. /\ In(row[i], "active", "none") /\ ~GivenUp(i)
        /\ UNCHANGED <<mig, steps, files, crashes>>
    BY <1>1 DEF Resize, Resizable, In, Orderly, Call
  <2>3. In(row'[i], "active", "resize_prep") /\ row'[i].host = row[i].host
    BY <1>0, <2>1, <2>2 DEF In, Rows
  <2>4. \A k \in Migs : mig'[k].instance = i =>
           ~Ended(mig'[k]) /\ \A q \in Places : ~At(q, k)'
    BY <2>2, Unmoved DEF GivenUp, At
  <2>5. FitsFiles(row'[i], files'[i])
    BY <1>0, <2>2, <2>3 DEF Held, FitsFiles, In
  <2>6. \A j \in Instances \ {i} : pending'[j] = pending[j]
    BY <1>0, <1>1 DEF Resize, Call, TypeOK
  <2>7. ASSUME NEW j \in Instances, j # i PROVE Held(j)'
    BY <2>1, <2>2, <2>6, <2>7, Elsewhere DEF At
  <2>8. Held(i)'
    BY <2>3, <2>4, <2>5, FreeHeld DEF In
  <2>9. SeenAll
    BY <2>1, <2>2, <2>3 DEF SeenAll, Seen, LockOf, In
  <2> QED
    BY <2>7, <2>8, <2>9
<1>2. CASE ColdMigrateFails(i)
  <2>1. /\ row'[i] = AsBefore(row[i])
        /\ \A j \in Instances \ {i} : row'[j] = row[j]
    BY <1>0, <1>2, Saves DEF ColdMigrateFails
  <2>2. /\ pending'[i] = NoCall
        /\ \A j \in Instances \ {i} : pending'[j] = pending[j]
        /\ In(row[i], "active", "resize_prep")
        /\ UNCHANGED <<mig, files, crashes>>
    BY <1>0, <1>2 DEF ColdMigrateFails, TypeOK, Held, CallFits
  <2>3. In(row'[i], "active", "none") /\ row'[i].host = row[i].host
    BY <1>0, <2>1 DEF AsBefore, In, Rows
  <2>4. FitsFiles(row'[i], files'[i])
    BY <1>0, <2>2, <2>3 DEF Held, FitsFiles, In
  <2>5. \A k \in Migs : mig[k].instance = i => ~Ended(mig[k])
    BY <2>2, Unmoved
  <2>6. \A k \in Migs, q \in Places : mig[k].instance = i =>
           (At(q, k)' <=> q = "giveup" /\ At("rescheduled", k))
    <3>1. \A k \in Migs, q \in Places : mig[k].instance = i /\ At(q, k) =>
             q = "rescheduled" /\ k \in Callers(i)
      BY <1>0, <1>2 DEF ColdMigrateFails, Held, CallFits, Callers
    <3> QED  BY <1>2, <3>1 DEF ColdMigrateFails, At, Callers
  <2>7. \A k \in Migs, q \in Places : mig[k].instance # i =>
           (At(q, k)' <=> At(q, k))
    BY <1>2 DEF ColdMigrateFails, At, Callers
  <2>8. ASSUME NEW j \in Instances, j # i PROVE Held(j)'
    BY <2>1, <2>2, <2>7, <2>8, Elsewhere
  <2>9. Held(i)'
    <3>1. CASE \A k \in Migs : mig[k].instance = i => ~At("rescheduled", k)
      BY <2>2, <2>3, <2>4, <2>5, <2>6, <3>1, FreeHeld
    <3>2. CASE \E k \in Migs : mig[k].instance = i /\ At("rescheduled", k)
      <4>1. PICK m \in Migs : mig[m].instance = i /\ At("rescheduled", m)
        BY <3>2
      <4>2. \A k \in Migs \ {m} : mig[k].instance = i => ~At("rescheduled", k)
        BY <4>1, Holder DEF Alone, Places
      <4>3. Alone(i, m)'
        BY <2>2, <2>5, <2>6, <4>2 DEF Alone
      <4>4. \A q \in Places : At(q, m)' <=> q = "giveup"
        BY <2>6, <4>1
      <4>5. Sound("giveup", row'[i], mig'[m], files'[i], pending'[i] # NoCall,
                  crashes' > 0)
        BY <2>2, <2>3, <2>4, <2>5, <4>1
        DEF Sound, Fits, FitsRecord, FitsRow, In, Ended, Places, Asked, Requests,
            Confirming, Reverting
      <4> QED  BY <2>2, <4>1, <4>3, <4>4, <4>5, Outcome
    <3> QED  BY <3>1, <3>2
  <2>10. SeenAll
    BY <2>1, <2>2, <2>3 DEF SeenAll, Seen, LockOf, In
  <2> QED
    BY <2>8, <2>9, <2>10
<1>3. ASSUME NEW m \in Migs, NEW n \in Nodes, ColdMigrate(i, m, n)
      PROVE  (\A j \in Instances : Held(j)') /\ SeenAll
  <2>1. /\ mig[m].status = "unused" /\ mig[m].instance \notin Instances
        /\ \A q : ~At(q, m)
    BY <1>0, <1>3, TrackerAssumption DEF ColdMigrate, Unsaved, Blank, Known, At
  <2>2. /\ pending'[i] = NoCall
        /\ \A j \in Instances \ {i} : pending'[j] = pending[j]
        /\ In(row[i], "active", "resize_prep")
        /\ UNCHANGED <<row, files, crashes>>
    BY <1>0, <1>3 DEF ColdMigrate, TypeOK, Held, CallFits
  <2>3. /\ mig'[m].instance = i /\ mig'[m].source = row[i].host
        /\ mig'[m].old = row[i].flavor /\ mig'[m].dest = mig'[m].dest_node
        /\ mig'[m].status = "unsaved"
        /\ \A k \in Migs \ {m} : mig'[k] = mig[k]
    BY <1>0, <1>3 DEF ColdMigrate, TypeOK, TrackerTypeOK
  <2>4. \A k \in Migs \ {m} : mig[k].instance = i => ~Ended(mig[k])
    BY <2>2, Unmoved
  <2>5. \A k \in Migs \ {m}, q \in Places : mig[k].instance = i => ~At(q, k)'
    <3>1. \A k \in Migs, q \in Places : mig[k].instance = i /\ At(q, k) =>
             q = "rescheduled" /\ k \in Callers(i)
      BY <1>0, <1>3 DEF ColdMigrate, Held, CallFits, Callers
    <3> QED  BY <1>3, <3>1 DEF ColdMigrate, At, Callers
  <2>6. \A k \in Migs \ {m}, q \in Places : mig[k].instance # i =>
           (At(q, k)' <=> At(q, k))
    BY <1>3 DEF ColdMigrate, At, Callers
  <2>7. ASSUME NEW j \in Instances, j # i PROVE Held(j)'
    BY <2>1, <2>2, <2>3, <2>6, <2>7, Elsewhere
  <2>8. \A q \in Places : At(q, m)' <=> q = "prep"
    BY <1>3, <2>1 DEF ColdMigrate, At
  <2>9. Alone(i, m)'
    BY <2>3, <2>4, <2>5 DEF Alone
  <2>10. Sound("prep", row'[i], mig'[m], files'[i], pending'[i] # NoCall,
               crashes' > 0)
    BY <1>0, <2>2, <2>3
    DEF Sound, Fits, FitsRecord, Held, Leaving, In, Ended, Places, Asked, Requests,
        Confirming, Reverting
  <2>11. Held(i)'
    BY <2>3, <2>8, <2>9, <2>10, Outcome
  <2>12. SeenAll
    BY <2>2 DEF SeenAll, Seen, LockOf, In
  <2> QED
    BY <2>7, <2>11, <2>12
<1> QED
  BY <1>1, <1>2, <1>3 DEF Conductor

\* The list of the periodic confirmation: each of its records is alone.
LEMMA PollHeld ==
  ASSUME Invariant, Orderly, NEW n \in Nodes, Poll(n)
  PROVE  (\A j \in Instances : Held(j)') /\ SeenAll
<1> DEFINE listed == {m \in Migs : /\ mig[m].status = "finished"
                                   /\ mig[m].dest = n
                                   /\ MayRequest(mig[m].instance)}
<1>1. /\ steps' = steps \cup {<<"poll", m>> : m \in listed}
      /\ UNCHANGED <<database, rest, files>>
  BY DEF Poll
<1>2. \A k \in Migs, q \in Places :
         At(q, k)' <=> At(q, k) \/ (q = "poll" /\ k \in listed)
  BY <1>1 DEF At
<1>3. \A k \in listed : mig[k].status = "finished" /\ ~Overlapping(mig[k].instance)
  BY DEF MayRequest, Orderly
<1> HIDE DEF listed
<1>4. ASSUME NEW i \in Instances PROVE Held(i)'
  <2>1. Held(i)
    BY DEF Invariant
  <2>2. ASSUME NEW m \in Migs, m \in listed, mig[m].instance = i,
               NEW k \in Migs, NEW q \in Places, mig[k].instance = i, At(q, k)
        PROVE  k = m /\ q = "started"
    <3>1. Sound(q, row[i], mig[k], files[i], pending[i] # NoCall, crashes > 0)
          /\ Alone(i, k)
      BY <2>2, Holder
    <3>2. k = m
      BY <1>3, <2>2, <3>1 DEF Alone, Ended
    <3>3. q \notin Requests \cup {"poll"}
      BY <1>3, <2>2 DEF Overlapping, Requests
    <3>4. In(row[i], "active", "resize_finish") \/ In(row[i], "resized", "none")
      BY <1>3, <2>1, <2>2 DEF Held, RecordsFit, FitsRecord
    <3> QED
      BY <1>3, <2>2, <3>1, <3>2, <3>3, <3>4
      DEF Sound, Fits, In, Ended, Places, Asked, Requests, Confirming, Reverting
  <2>3. StepsFit(i)'
    BY <1>1, <1>2, <1>3, <2>1
    DEF Held, StepsFit, Fits, Asked, Requests, Confirming, Reverting, database
  <2>4. \A k, m \in Migs : k \in listed /\ mig[k].instance = i
                           /\ m \in listed /\ mig[m].instance = i => k = m
    BY <1>3, <2>1 DEF Held, RecordsFit, Ended
  <2>5. OneStep(i)'
    <3> SUFFICES ASSUME NEW k \in Migs, NEW m \in Migs, NEW p \in Places,
                        NEW q \in Places, mig[k].instance = i, At(p, k)',
                        mig[m].instance = i, At(q, m)'
                 PROVE  k = m /\ (p = q \/ {p, q} = {"poll", "started"})
      BY <1>1 DEF OneStep, database
    <3>1. CASE At(p, k) /\ At(q, m)
      BY <2>1, <3>1 DEF Held, OneStep
    <3>2. CASE ~At(p, k) /\ ~At(q, m)
      BY <1>2, <2>4, <3>2
    <3>3. CASE At(p, k) /\ ~At(q, m)
      BY <1>2, <2>2, <3>3
    <3>4. CASE ~At(p, k) /\ At(q, m)
      BY <1>2, <2>2, <3>4
    <3> QED  BY <3>1, <3>2, <3>3, <3>4
  <2>6. CallFits(i)'
    <3>1. ASSUME NEW m \in Migs, m \in listed, mig[m].instance = i
          PROVE  pending[i] = NoCall
      BY <1>3, <2>1, <3>1 DEF Held, RecordsFit, FitsRecord, CallFits, In
    <3> QED
      BY <1>1, <1>2, <2>1, <3>1 DEF Held, CallFits, database, rest
  <2>7. RecordsFit(i)' /\ AnswerFits(i)'
    <3>1. ASSUME NEW m \in Migs, m \in listed, mig[m].instance = i
          PROVE  row[i].vm_state # "error"
      BY <1>3, <2>1, <3>1 DEF Held, RecordsFit, FitsRecord, In
    <3>2. Confirming \subseteq Places /\ "starting" \in Places
      BY DEF Confirming, Places
    <3> QED
      BY <1>1, <1>2, <2>1, <3>1, <3>2
      DEF Held, RecordsFit, AnswerFits, In, database, rest
  <2> QED
    BY <1>1, <2>1, <2>3, <2>5, <2>6, <2>7 DEF Held, database
<1>5. SeenAll
  BY <1>1 DEF SeenAll, Seen, LockOf, database
<1> QED
  BY <1>4, <1>5

\* What a recovering source makes of an instance's files.
LEMMA Recovered ==
  ASSUME Invariant, NEW n \in Nodes, NEW i \in Instances, NEW cut,
         NEW restored \in Restores
  PROVE  /\ In(row[i], "active", "resize_migrating") /\ row[i].host = n =>
               FitsFiles([row[i] EXCEPT !.task_state = "none"],
                         InitFiles(n, i, cut, restored))
         /\ ~(In(row[i], "active", "resize_migrating") /\ row[i].host = n) =>
               InitFiles(n, i, cut, restored) = files[i]
<1> DEFINE fs == Interrupted(n, i, cut)
<1>1. Held(i) /\ row[i] \in Rows /\ TypeOK
  BY DEF Invariant, TypeOK, TrackerTypeOK
<1>2. ASSUME NEW m \in Copying(n, i)
      PROVE  In(row[i], "active", "resize_migrating") /\ row[i].host = n
  <2>1. /\ m \in Migs /\ At("copying", m) /\ mig[m].instance = i
        /\ mig[m].source = n
    BY <1>2 DEF Copying
  <2>2. Sound("copying", row[i], mig[m], files[i], pending[i] # NoCall, crashes > 0)
    BY <2>1, Holder DEF Places
  <2> QED  BY <2>1, <2>2 DEF Sound, Fits, Leaving, Places
<1>3. fs = files[i] \/ Backup(n) \in fs
  BY DEF Interrupted, Backup
<1>4. ASSUME ~(In(row[i], "active", "resize_migrating") /\ row[i].host = n)
      PROVE  InitFiles(n, i, cut, restored) = files[i]
  <2>1. Copying(n, i) = {}
    BY <1>2, <1>4
  <2>2. row[i].task_state = "resize_migrating" => row[i].vm_state = "active"
    BY <1>1 DEF Held, FitsRow, Rows
  <2> QED  BY <1>4, <2>1, <2>2 DEF InitFiles, Interrupted, In
<1>5. ASSUME In(row[i], "active", "resize_migrating"), row[i].host = n
      PROVE  FitsFiles([row[i] EXCEPT !.task_state = "none"],
                       InitFiles(n, i, cut, restored))
  <2> DEFINE after == InitFiles(n, i, cut, restored)
  <2>1. \/ Disk(n) \in files[i]
        \/ "recovery" \in Faults /\ Backup(n) \in files[i]
    BY <1>1, <1>5 DEF Held, FitsFiles, In
  <2>2. \/ Disk(n) \in fs
        \/ Backup(n) \in fs
    BY <1>3, <2>1
  <2>3. \/ Disk(n) \in after
        \/ "recovery" \in Faults /\ Backup(n) \in after
    <3>1. CASE restored
      <4>1. after = RolledBack(n, fs)
        BY <1>5, <3>1 DEF InitFiles, In
      <4>2. Disk(n) # Backup(n)
        BY DEF Disk, Backup
      <4> QED  BY <2>2, <4>1, <4>2 DEF RolledBack, Disk, Backup
    <3>2. CASE ~restored
      <4>1. after = fs /\ "recovery" \in Faults
        BY <1>5, <3>2 DEF InitFiles, Restores
      <4> QED  BY <2>2, <4>1
    <3> QED  BY <3>1, <3>2
  <2> HIDE DEF after
  <2>4. FitsFiles([row[i] EXCEPT !.task_state = "none"], after)
    BY <1>1, <1>5, <2>3 DEF FitsFiles, In, Rows
  <2> QED  BY <2>4 DEF after
<1> QED  BY <1>4, <1>5

\* nova-compute starts again: what it ran is gone, and an instance that it
\* frees has nothing else under way.
LEMMA RestartHeld ==
  ASSUME Invariant, Orderly, NEW n \in Nodes, Restart(n)
  PROVE  (\A j \in Instances : Held(j)') /\ SeenAll
<1>1. /\ crashes' > 0 /\ steps' = steps \ Running(n)
      /\ row' = [i \in Instances |-> InitRow(n, row[i])]
      /\ UNCHANGED <<mig, pending>> /\ ~Unlocks(n)
  <2>1. crashes \in Nat
    BY ResizeAssumption DEF Invariant, TypeOK
  <2> QED  BY <2>1 DEF Restart, Orderly
<1>2. PICK cut \in [Instances -> Cuts], restored \in Restores :
         files' = [i \in Instances |-> InitFiles(n, i, cut[i], restored)]
  BY DEF Restart
<1>3. ASSUME NEW i \in Instances
      PROVE  Held(i)' /\ Seen(row[i], files[i], row'[i], files'[i])
  <2> DEFINE freed == [row[i] EXCEPT !.task_state = "none"]
  <2>1. Held(i) /\ row[i] \in Rows
    BY DEF Invariant, TypeOK, TrackerTypeOK
  <2>2. row'[i] = InitRow(n, row[i])
    BY <1>1
  <2>3. /\ In(row[i], "active", "resize_migrating") /\ row[i].host = n =>
              FitsFiles(freed, files'[i])
        /\ ~(In(row[i], "active", "resize_migrating") /\ row[i].host = n) =>
              files'[i] = files[i]
    BY <1>2, Recovered
  <2>4. CASE /\ row[i].host = n
             /\ \/ In(row[i], "active", "resize_prep")
                \/ In(row[i], "active", "resize_migrating")
    <3>1. row'[i] = freed /\ freed # row[i] /\ In(freed, "active", "none")
          /\ freed.host = row[i].host
      BY <2>1, <2>2, <2>4 DEF InitRow, In, Rows
    <3>2. FitsFiles(freed, files'[i])
      BY <2>1, <2>3, <2>4, <3>1 DEF Held, FitsFiles, In
    <3>3. /\ pending[i] = NoCall
          /\ \A k \in Migs, q \in Places : mig[k].instance = i => ~At(q, k)'
      <4>1. CASE In(row[i], "active", "resize_prep")
        <5>1. ~Pursued(i, steps \ Running(n))
          BY <1>1, <2>2, <3>1, <4>1 DEF Unlocks, In
        <5>2. \A step \in steps' : mig[step[2]].instance # i
          BY <1>1, <5>1 DEF Pursued
        <5> QED  BY <5>1, <5>2 DEF Pursued, At
      <4>2. CASE In(row[i], "active", "resize_migrating")
        <5>1. pending[i] = NoCall
          BY <2>1, <4>2 DEF Held, CallFits, In
        <5>2. ASSUME NEW k \in Migs, NEW q \in Places, mig[k].instance = i, At(q, k)
              PROVE  <<q, k>> \in Running(n)
          <6>1. q = "copying"
            BY <4>2, <5>2, Unmoved
          <6>2. mig[k].source = n
            BY <2>1, <2>4, <5>2, <6>1 DEF Held, StepsFit, Fits, Leaving
          <6> QED  BY <5>2, <6>1, <6>2 DEF Running, AtSource, At
        <5> QED  BY <1>1, <5>1, <5>2 DEF At
      <4> QED  BY <2>4, <4>1, <4>2
    <3>4. \A k \in Migs : mig[k].instance = i => ~Ended(mig[k])
      BY <2>4, Unmoved
    <3>5. Held(i)'
      BY <1>1, <3>1, <3>2, <3>3, <3>4, FreeHeld
    <3> QED
      BY <2>4, <3>1, <3>5 DEF Seen, LockOf, In
  <2>5. CASE ~(/\ row[i].host = n
               /\ \/ In(row[i], "active", "resize_prep")
                  \/ In(row[i], "active", "resize_migrating"))
    <3>1. row'[i] = row[i] /\ files'[i] = files[i]
      BY <2>1, <2>2, <2>3, <2>5 DEF Held, FitsRow, InitRow, In, Rows
    <3>2. \A k \in Migs, q \in Places : At(q, k)' => At(q, k)
      BY <1>1 DEF At
    <3>3. Confirming \subseteq Places /\ "starting" \in Places
      BY DEF Confirming, Places
    <3>4. StepsFit(i)' /\ OneStep(i)'
      BY <1>1, <2>1, <3>1, <3>2 DEF Held, StepsFit, OneStep
    <3>5. CallFits(i)' /\ RecordsFit(i)'
      BY <1>1, <2>1, <3>1, <3>2, <3>3 DEF Held, CallFits, RecordsFit
    <3>6. AnswerFits(i)'
      BY <1>1, <2>1, <3>1, <3>2 DEF Held, AnswerFits
    <3> QED
      BY <2>1, <3>1, <3>4, <3>5, <3>6 DEF Held, Seen, LockOf
  <2> QED
    BY <2>4, <2>5
<1> QED
  BY <1>3 DEF SeenAll

\* Where task_state is a lock no save finds another one than it expects.
LEMMA NotPreempted ==
  ASSUME Invariant, NEW m \in Migs, NEW place \in DOMAIN Expected, At(place, m)
  PROVE  MaySave(place, m)
<1>1. place \in {"resize", "copying", "finish", "started", "restarting"}
  BY DEF Expected
<1>2. Sound(place, row[mig[m].instance], mig[m], files[mig[m].instance],
            pending[mig[m].instance] # NoCall, crashes > 0)
  BY <1>1, Holder DEF Places
<1>3. row[mig[m].instance].task_state = Expected[place]
  BY <1>1, <1>2
  DEF Sound, Fits, In, Expected, Places, Asked, Requests, Confirming, Reverting
<1> QED  BY <1>3 DEF MaySave

\* Every step that is about one record.
LEMMA RecordActs ==
  ASSUME Invariant, Orderly, NEW m \in Migs, Compute(m) \/ Api(m)
  PROVE  \E to : Acts(mig[m].instance, m, to)
<1>1. ~Preempted(m)
  BY NotPreempted DEF Preempted
<1>2. ~RescheduleTimesOut(m) /\ ~CopyRolledBack(m)
  BY DEF Orderly, RescheduleTimesOut, CopyRolledBack
<1>3. ~RevertTaskState(m)
  <2>1. At("undo", m) => FALSE
    BY Holder DEF Sound, Fits, Places
  <2> QED  BY <2>1 DEF RevertTaskState
<1>4. CASE Source(m)
  BY <1>2, <1>3, <1>4, ResizeActs, ConfirmActs, RevertActs DEF Source
<1>5. CASE Destination(m)
  BY <1>2, <1>5, PrepActs, RescheduleActs, FinishActs, EndActs, RevertActs
  DEF Destination
<1>6. CASE Api(m)
  BY <1>6, RequestActs, ConfirmActs, RevertActs DEF Api
<1> QED
  BY <1>1, <1>4, <1>5, <1>6 DEF Compute

LEMMA NextHeld ==
  ASSUME Invariant, Orderly, [Next]_vars
  PROVE  Unsaved' /\ (\A j \in Instances : Held(j)') /\ SeenAll
<1>0. TypeOK /\ Known /\ Unsaved
  BY DEF Invariant
<1>1. RecordsKept
  BY <1>0, RecordsTyped
<1>2. ASSUME NEW m \in Migs, Compute(m) \/ Api(m)
      PROVE  Unsaved' /\ (\A j \in Instances : Held(j)') /\ SeenAll
  <2>1. PICK to : Acts(mig[m].instance, m, to)
    BY <1>2, RecordActs
  <2>2. mig[m].instance \in Instances
    BY <1>0, <2>1 DEF Acts, Known, Complete
  <2>3. Unsaved'
    BY <1>0, <1>1, <2>1 DEF Unsaved, RecordsKept, Acts
  <2> QED
    BY <2>1, <2>2, <2>3, ActsHeld
<1>3. ASSUME NEW i \in Instances,
             Conductor(i) \/ \E f \in Flavors : Resize(i, f)
      PROVE  Unsaved' /\ (\A j \in Instances : Held(j)') /\ SeenAll
  <2>1. CASE UNCHANGED mig
    BY <1>0, <1>3, <2>1, ConductorHeld DEF Unsaved
  <2>2. ASSUME NEW m \in Migs, NEW n \in Nodes, ColdMigrate(i, m, n)
        PROVE  Unsaved'
    <3>1. /\ mig'[m].status = "unsaved"
          /\ \A k \in Migs \ {m} : mig'[k] = mig[k]
      BY <1>0, <2>2 DEF ColdMigrate, TypeOK, TrackerTypeOK
    <3> QED  BY <1>0, <3>1 DEF Unsaved
  <2> QED
    BY <1>3, <2>1, <2>2, ConductorHeld
    DEF Conductor, ColdMigrateFails, Resize
<1>4. ASSUME NEW n \in Nodes, Poll(n) \/ Restart(n)
      PROVE  Unsaved' /\ (\A j \in Instances : Held(j)') /\ SeenAll
  <2>1. UNCHANGED mig
    BY <1>4 DEF Poll, Restart, database
  <2> QED
    BY <1>0, <1>4, <2>1, PollHeld, RestartHeld DEF Unsaved
<1>5. ASSUME UNCHANGED <<database, rest, steps, files>>
      PROVE  Unsaved' /\ (\A j \in Instances : Held(j)') /\ SeenAll
  <2>1. UNCHANGED <<row, mig, pending, crashes, steps, files>>
    BY <1>5 DEF database, rest
  <2>2. \A j \in Instances : Held(j)'
    BY <2>1, Elsewhere DEF At
  <2>3. SeenAll
    BY <2>1 DEF SeenAll, Seen, LockOf
  <2> QED
    BY <1>0, <2>1, <2>2, <2>3 DEF Unsaved
<1>6. ASSUME NEW n \in Nodes, AuditStep(n) PROVE UNCHANGED <<database, rest, steps, files>>
  BY <1>6 DEF AuditStep, Audit, AuditInstances, AuditMigrations, AuditFails
<1>7. CASE UNCHANGED vars
  BY <1>5, <1>7 DEF vars
<1> QED
  BY <1>2, <1>3, <1>4, <1>5, <1>6, <1>7 DEF Next

-----------------------------------------------------------------------------
(* The theorems *)

LEMMA InitHeld == Init => Invariant
<1> SUFFICES ASSUME Init PROVE Invariant
  OBVIOUS
<1>1. TypeOK /\ Known
  BY InitInductive DEF Inductive
<1>2. steps = {} /\ \A m \in Migs : mig[m] = Blank
  BY DEF Init, TrackerInit
<1>3. ASSUME NEW i \in Instances PROVE Held(i)
  <2>1. In(row[i], "active", "none") /\ pending[i] = NoCall
        /\ Disk(row[i].host) \in files[i]
    BY DEF Init, TrackerInit, In, Disk
  <2>2. \A m \in Migs : ~Ended(mig[m]) /\ \A q \in Places : ~At(q, m)
    BY <1>2 DEF Ended, Blank, At
  <2>3. StepsFit(i) /\ OneStep(i) /\ CallFits(i) /\ AnswerFits(i)
    BY <2>1, <2>2 DEF StepsFit, OneStep, CallFits, AnswerFits, In
  <2>4. RecordsFit(i) /\ FitsRow(row[i]) /\ FitsFiles(row[i], files[i])
    BY <2>1, <2>2 DEF RecordsFit, FitsRecord, FitsRow, FitsFiles, Ended, In
  <2> QED  BY <2>3, <2>4 DEF Held
<1>4. Unsaved
  BY <1>2 DEF Unsaved
<1> QED  BY <1>1, <1>3, <1>4 DEF Invariant

\* task_state is kept as a lock for the whole of every resize.
LEMMA InvariantHolds ==
  ASSUME Orderly
  PROVE  Spec => [](Inductive /\ Invariant)
<1>1. Init => Inductive /\ Invariant
  BY InitInductive, InitHeld
<1>2. Inductive /\ Invariant /\ [Next]_vars => Inductive' /\ Invariant'
  <2>1. Inductive /\ Invariant /\ [Next]_vars =>
           Inductive' /\ Unsaved' /\ \A i \in Instances : Held(i)'
    BY NextInductive, NextHeld
  <2> QED  BY <2>1 DEF Inductive, Invariant
<1> QED  BY <1>1, <1>2, PTL DEF Spec

\* While requests for an instance come one at a time, no handler of a resize
\* finds at its save that another one has taken the instance, for any number
\* of resizes, hosts and crashes.
THEOREM TaskStateIsALock ==
  ASSUME Orderly
  PROVE  Spec => []NeverPreempted
<1>1. Invariant => NeverPreempted
  BY NotPreempted DEF NeverPreempted
<1> QED  BY <1>1, InvariantHolds, PTL

\* No order of requests, failures and crashes removes the last copy of a disk.
THEOREM NoDiskIsLost ==
  ASSUME Orderly
  PROVE  Spec => []DiskSurvives
<1>1. Invariant => DiskSurvives
  BY DEF Invariant, Held, FitsFiles, DiskSurvives
<1> QED  BY <1>1, InvariantHolds, PTL

\* An instance that is not worked on has its disk on the host it is recorded
\* on, if the recovery of a source that died in the copy does not fail.
THEOREM DiskFollowsInstance ==
  ASSUME Orderly, "recovery" \notin Faults
  PROVE  Spec => []DiskWhereItRuns
<1>1. Invariant => DiskWhereItRuns
  BY DEF Invariant, Held, FitsFiles, DiskWhereItRuns, In, Disk
<1> QED  BY <1>1, InvariantHolds, PTL

\* A RESIZED instance that nobody works on can be confirmed or reverted, unless
\* a service died while it carried the answer out.
THEOREM ResizedIsAnswerable ==
  ASSUME Orderly
  PROVE  Spec => []Answerable
<1>1. Invariant => Answerable
  <2> SUFFICES ASSUME Invariant, NEW i \in Instances,
                      row[i].vm_state = "resized", ~Busy(i), ~AnswerDied(i)
               PROVE  \E m \in Migs : /\ Confirmable(m)
                                      /\ mig[m].instance = i
                                      /\ mig[m].dest_node = row[i].host
                                      /\ mig[m].old = row[i].old_flavor
    BY DEF Answerable
  <2>1. Held(i) /\ TypeOK
    BY DEF Invariant
  <2>2. \A m \in Migs, q \in Places : mig[m].instance = i => ~At(q, m)
    BY DEF Busy, Pursued, At
  <2>3. In(row[i], "resized", "none") \/ In(row[i], "resized", "resize_reverting")
    BY <2>1 DEF Held, FitsRow, In
  <2>4. ~In(row[i], "resized", "resize_reverting")
    BY <2>1, <2>2 DEF Held, AnswerFits, AnswerDied, In
  <2>5. Confirming \subseteq Places
    BY DEF Confirming, Places
  <2>6. PICK m \in Migs : mig[m].instance = i /\ mig[m].status = "finished"
    BY <2>1, <2>2, <2>3, <2>4, <2>5 DEF Held, AnswerFits, AnswerDied
  <2>7. mig[m].dest_node = row[i].host /\ mig[m].old = row[i].old_flavor
    BY <2>1, <2>6 DEF Held, RecordsFit, FitsRecord, Arrived
  <2>8. Confirmable(m)
    BY <2>3, <2>4, <2>6 DEF Confirmable, Waiting, In
  <2> QED  BY <2>6, <2>7, <2>8
<1> QED  BY <1>1, InvariantHolds, PTL

-----------------------------------------------------------------------------
(* Resize implements InstanceMove *)

\* Wherever the files of an instance are there are copies of it, and it is free
\* only with one at home.
LEMMA CopiesFit ==
  ASSUME NEW r \in Rows, NEW fs \in Directories, FitsFiles(r, fs)
  PROVE  /\ CopiesOf(fs) \in (SUBSET Nodes) \ {{}}
         /\ LockOf(r) = "free" => r.host \in CopiesOf(fs)
<1>1. CopiesOf(fs) \subseteq Nodes
  BY DEF CopiesOf, Directories
<1>2. PICK f \in fs : TRUE
  BY DEF FitsFiles
<1>3. f[2] \in CopiesOf(fs)
  BY DEF CopiesOf
<1>4. ASSUME LockOf(r) = "free" PROVE r.host \in CopiesOf(fs)
  <2>1. r.vm_state \in {"active", "resized"} /\ r.task_state = "none"
    BY <1>4 DEF LockOf, Rows
  <2>2. Disk(r.host) \in fs \/ Backup(r.host) \in fs
    BY <2>1 DEF FitsFiles, In
  <2> QED  BY <2>2, CopyThere
<1> QED  BY <1>1, <1>3, <1>4

LEMMA StepMoves ==
  ASSUME TypeOK, TypeOK', Held(Watched), Held(Watched)', SeenAll
  PROVE  [Move!Next]_(Move!vars)
<1> DEFINE home   == row[Watched].host
           copies == CopiesOf(files[Watched])
           lock   == LockOf(row[Watched])
<1>0. Watched \in Instances
  BY ResizeAssumption
<1>1. /\ row[Watched] \in Rows /\ files[Watched] \in Directories
      /\ FitsFiles(row[Watched], files[Watched])
      /\ row'[Watched] \in Rows /\ files'[Watched] \in Directories
      /\ FitsFiles(row'[Watched], files'[Watched])
  BY <1>0 DEF TypeOK, TrackerTypeOK, Directories, Held
<1>2. /\ copies' \in (SUBSET Nodes) \ {{}}
      /\ lock' = "free" => home' \in copies'
  BY <1>1, CopiesFit
<1>3. /\ home' # home => lock = "held" /\ lock' = "held" /\ home' \in copies'
      /\ lock = "free" => \/ lock' = "free" /\ copies' \subseteq copies
                          \/ lock' = "held" /\ copies' = copies
                          \/ lock' = "broken"
      /\ lock = "broken" => lock' = "broken"
  BY <1>0 DEF SeenAll, Seen, CopiesOf
<1>4. lock \in {"free", "held", "broken"} /\ lock' \in {"free", "held", "broken"}
  BY DEF LockOf
<1>5. \/ lock = "free" /\ lock' = "held" /\ UNCHANGED <<home, copies>>
      \/ lock = "held" /\ UNCHANGED <<home, lock>>
      \/ lock = "held" /\ lock' \in {"held", "free"} /\ home' \in copies'
      \/ lock = "free" /\ UNCHANGED <<home, lock>> /\ copies' \subseteq copies
      \/ lock' = "broken" /\ UNCHANGED home
  BY <1>2, <1>3, <1>4
<1> QED
  BY <1>2, <1>5
  DEF Move!Next, Move!Take, Move!Carry, Move!Record, Move!Release, Move!Tidy,
      Move!Break, CopiesOf, LockOf

\* Resize, confirm and revert move an instance as InstanceMove says, whatever
\* fails and whenever a service dies, between any hosts.
THEOREM ResizeImplementsMove ==
  ASSUME Orderly
  PROVE  Spec => Moves
<1>1. Init => Move!Init
  <2>1. Watched \in Instances
    BY ResizeAssumption
  <2>2. ASSUME Init
        PROVE  /\ row[Watched].host \in Nodes
               /\ row[Watched].vm_state = "active"
               /\ row[Watched].task_state = "none"
               /\ files[Watched] = {<<"disk", row[Watched].host>>}
    BY <2>1, <2>2 DEF Init, TrackerInit, Rows
  <2>3. \A n : {f[2] : f \in {<<"disk", n>>}} = {n}
    OBVIOUS
  <2>4. Init => {f[2] : f \in files[Watched]} = {row[Watched].host}
    BY <2>2, <2>3
  <2> QED  BY <2>2, <2>4 DEF Move!Init
<1>2. Inductive /\ Invariant /\ (Inductive /\ Invariant)' /\ [Next]_vars =>
         [Move!Next]_(Move!vars)
  <2>1. Inductive /\ Invariant /\ (Inductive /\ Invariant)' =>
           TypeOK /\ TypeOK' /\ Held(Watched) /\ Held(Watched)'
    BY ResizeAssumption DEF Inductive, Invariant
  <2> QED  BY <2>1, NextHeld, StepMoves
<1> QED
  BY <1>1, <1>2, InvariantHolds, PTL DEF Spec, Moves, Move!Spec
=============================================================================
