# OpenStack's instance protocols in TLA+

This directory models what carries its own logic in this repository: mainly
**Nova** (`src/nova/nova`), OpenStack's compute service, in a checkout that adds
calls of `nova/trace` (log lines for LTTng) to it; with it what **Cinder** does
about an attached volume, and **Keystone**'s rotation of Fernet keys. The
repository holds further checkouts (Glance, Horizon, Tempest, noVNC,
requirements); they are listed in `PROJECT.json` with the reason why they are
not modelled, or planned.

Six protocols are modelled, checked with TLC and partly proved with TLAPS:

* **live migration** of an instance;
* **resize and cold migration**, with the resource tracker;
* **creation and deletion** of instances, with the quotas;
* **power operations** (stop, start, reboot, pause, suspend), with the periodic
  synchronisation of power states, lifecycle events and `init_host`;
* **volume attachment** between Nova and Cinder;
* **rotation of Fernet keys** on the nodes of Keystone.

## The system

| part | state it keeps | operations | correct when |
|---|---|---|---|
| API (`compute/api.py`) | nothing; reads and writes rows | create, delete, soft delete, restore, resize, confirm, revert, live-migrate, ... each guarded by `vm_state`/`task_state` | one request at a time owns an instance; every reservation is committed or rolled back once |
| database (`db/sqlalchemy/api.py`) | `instances`, `migrations`, `quota_usages`, `reservations` | save with an expected `task_state` (compare-and-swap), destroy, the quota transactions | usage equals what there is |
| conductor (`conductor/manager.py`, `conductor/tasks/`) | nothing | the tasks that choose a host and cast or call | refusals give the instance back |
| compute (`compute/manager.py`) | green threads, instance locks, a semaphore of live migrations | handlers of casts and calls, periodic tasks, `init_host` | the guest runs once, where the database says; nothing is left behind; nothing is stuck |
| resource tracker (`compute/resource_tracker.py`) | two dictionaries and the usage, in memory, under one semaphore | claims, drops, the periodic audit | the usage is what the rows say, never negative |
| libvirt driver (`virt/libvirt/driver.py`) | domains, jobs, files | migrate, monitor, destroy, rename and copy disks | the last disk and the running domain survive |
| Cinder (`cinder/volume/api.py`, `cinder/volume/manager.py`) | status and attach status of a volume, its attachments | reserve, unreserve, begin and roll back detaching, attach, detach, terminate a connection, delete | a volume is in one guest, and free only when it is in none |
| Keystone (`token/providers/fernet/`) | key files on every node | set up and rotate keys, load them, make and check tokens | what one node encrypts every node decrypts |
| scheduler, networks, images, service groups, consoles, cells | their own | called by the above | not modelled |

Parts interact through the database, RPC calls (the caller waits, and gives up
on a timeout), RPC casts (queued, served after any delay) and callbacks of
libvirt. What makes them hard: `task_state` is used as a lock which crashes,
error handlers and periodic tasks write without owning it; casts arrive when
the situation has changed; a copy of an instance that was read long ago is
saved or acted upon; a service dies between two saves; handlers fail after
half of their work. Cinder's API reads a volume in one transaction and updates it
in another, and two services undo their halves of an attach separately. Keystone
has no lock at all: a rotation changes a directory file by file while requests
read it file by file, and the copying to other nodes is not its own.

`PROJECT.json` lists under `hazards` where each of these bites, and the
properties that cover it.

## Modules

| module | models | checked by | proved in |
|---|---|---|---|
| `InstanceMove` | what every way of moving an instance promises, an abstract specification | its implementations | `InstanceMove` |
| `LiveMigration` | live migration of one instance | `MCLiveMigration`: `lm_owner`, `lm_crash`, `lm_live`, `lm_late_rollback` | `LiveMigrationProofs` |
| `ResourceTracker` | the trackers of all nodes, and the rows they account for | with `ResizeInstance`, which extends it | `ResizeInstanceProofs` |
| `ResizeInstance` | resize, cold migration, confirm, revert, periodic confirmation | `MCResizeInstance`: `rz_lock`, `rz_live` | `ResizeInstanceProofs`, `ResizeLockProofs` |
| `Quotas` | one usage row and the reservations against it | with `DeleteInstance`, which extends it | `DeleteInstanceProofs` |
| `DeleteInstance` | create, build, delete, soft delete, restore, reclaim, reaper, restart | `MCDeleteInstance`: `di_quota`, `di_crash` | `DeleteInstanceProofs` |
| `PowerState` | power operations, `_sync_power_states`, lifecycle events, `_init_instance` | `power` | `PowerStateProofs` |
| `VolumeAttachment` | attach, detach and delete a volume, terminate an instance: Nova and Cinder | `MCVolumeAttachment`: `va_overlap`, `va_serial` | `VolumeAttachmentProofs` |
| `FernetKeys` | key repositories: set-up, rotation, copying, loading, use | `fk_rotate` | `FernetKeysProofs` |

An operator whose name continues that of another one after an underscore
(`Home_Kept`, `Reserve_Accumulates`) is a mutant: the same operator with a bug
that code could have. Each checked property has one that violates it.

### InstanceMove and the refinements

An instance has a home (the host it is recorded on), copies, and a lock
(`task_state`). Whoever holds the lock makes and removes copies; the record
changes only under the lock and to a host with a copy; the lock is given back
only with a copy at home; no step, not even a failure, leaves no copy.

`LiveMigration` implements it with the running domains as the copies,
`ResizeInstance` with the disks (backups included) of the instance `Watched`, a
constant that may be any of them. The lock is `task_state`, and an instance in
ERROR is broken. `Moves`, which is `Move!Spec` in both, says so.

### LiveMigration

State: the row (`vm_state`, `task_state`, `host`), the libvirt domain and the
artefacts (instance directory, volume connections, VIFs) of the instance on each
host, the services that are up, and for each accepted request its record, the
place of its source thread (`pc`), the answer it waits for, and the libvirt job.
Requests to destinations are a set `msgs`: they are served in any order and at
any time.

Actions: `LiveMigrate` (API, the compare-and-swap), the conductor's checks,
refusals and cast, the source's thread (semaphore, `pre_live_migration`, job,
monitor, `_post_live_migration`, rollback), the destination's handlers,
libvirt's switchover and failure, misreadings of the monitor, call timeouts,
failures of the post step, at the source (`post`) and at the destination before
its save (`arrive`), and of removing volume connections, and `Crash` and
`Restart` (`_init_instance`).

### ResourceTracker and ResizeInstance

The usage of a node is kept for each instance apart (`charge[n][i]`), which is
possible because the code adds and subtracts whole flavors. Memory stands for
memory, disk and CPUs. The audit is cut where other services may write between
its two queries; it holds the semaphore meanwhile, so claims and drops wait.

A resize is a migration record and a set of steps `<<where, record>>`: an API
request between its read and its save, a cast in a queue, a handler between
two saves. `files` says where disk and backup of the instance are. `Faults` is
a set of kinds: no valid host (`nohost`), refused claims (`refuse`), casts that
fail (`cast`), drivers that raise (`error`), `InstanceFaultRollback`
(`rollback`), a reschedule that times out while the conductor goes on
(`timeout`), a start that frees an instance whose resize is still being prepared
(`unlock`) or cannot roll a copy back (`recovery`). `Users` says who answers a
resize, `Overlap` whether requests may overlap: two answers, or a request and
the end of a resize that the conductor has given up, when the instance is free
but its caller has yet to put it in ERROR (`GivenUp`). `tried` are the hosts of
`filter_properties["retry"]`, which travel with a request and keep the scheduler
from going round in circles.

`Restart` is the death and the start of a nova-compute in one step: casts wait in
their queues while it is down, and what its handlers did between two steps is
lost. A handler that was renaming and copying a disk may have come any part of
the way (`Cuts`). A handler whose save is refused because another one has the
instance by then ends in ERROR, and as its copy of the row is still dirty, that
save writes the refused `task_state`, host and flavor too (`Preempted`,
`Overwritten`). `init_host` rolls an instance in RESIZE_MIGRATING back to its
backup, frees one in RESIZE_PREP, and the new tracker begins with an audit.

### Quotas and DeleteInstance

`Quotas` is the resource `instances` of one project with one user: `in_use`,
`reserved`, and one reservation for each request. `reserve` (with its refresh of
a negative or an aged usage), `commit` and `rollback` are transactions that lock
the usage row, so they are actions; `reservation_expire` locks nothing, so it
reads and writes in two.

`DeleteInstance` has the rows, requests of users (`req[r]`, which go with their
cast to the host), the build of each instance with each of its saves, the guest,
and nova-compute with `init_host`, the reclaim of soft-deleted instances and the
reaper of guests whose row is deleted. The deletions that the host begins by
itself use the instance's name as the request's.

`Faults` lets creations, scheduling, builds and drivers fail and API processes
die. A failed build shuts its guest down (`BuildFails`), unless that raises too
(`cleanup`, `BuildCleanupFails`): host and node are cleared all the same, and the
guest stays. `Races` lets in interleavings that the code does not guard against and
under which the properties below fail; the runs leave them out and say so:

| member | what happens |
|---|---|
| `early` | an instance is deleted while the request that creates it may still fail: -1 is committed and +1 rolled back |
| `twice` | a second DELETE of an instance that is being deleted; with a crash it saves DELETING again after `init_host` cleared it and is then ignored. `di_quota` lets it in, `di_crash` does not |
| `overlap` | soft deletions and restores that overlap other requests: two decrements, or a decrement given back |
| `reclaim` | a request for an instance that is in the list of `_reclaim_queued_deletes`: it is destroyed although it was restored |
| `heartbeat` | the API takes a service that is up for down and deletes locally. `di_crash` lets it in, as long as nothing is built at that time |
| `heartbeat-build` | the same during a build: the guest may end up where no row names its host |
| `refresh` | `until_refresh` or `max_age` is set (the default is 0): the refresh counts rows whose reservation is not committed |
| `expire` | a reservation is made or ends between the expiry's read and its write, or a dead request's increase expires although its row exists |

`Faults` may also contain `force`: the driver fails while it destroys a
soft-deleted instance, whose quota is then given back twice.

### PowerState

State: the row (`vm_state`, `task_state`, `power_state`), the guest in the
hypervisor, whether nova-compute is up, down or in `init_host`, the jobs, and
the threads of `_sync_power_states` and of a lifecycle event. A job is a request
on its way: asked (the API has read the instance), cast (it has saved its
`task_state`), taken by a handler, and a place for each later save or call of
the driver that others can come between. `MaxJobs` is how many there may be at
a time. `preempted` is a history variable: a hard reboot has taken the instance
from another request, which is what hard reboots are for.

Actions: the API's check and save; for each operation the handler's steps and
what happens when the driver raises; the periodic task's list, its query of the
power state and what it does about it; lifecycle events; changes of the guest
that Nova has not asked for; `Crash`, `Restart` and `_init_instance`, which
clears some task states and takes up others.

### VolumeAttachment

One volume, several instances. Nova keeps a block device mapping for each attach
and the guest's disk; Cinder the volume's `status`, `attach_status` and its
attachments. A request goes through the places of its handlers in `nova-api`,
`nova-compute` and `cinder-api`; calls to `cinder-volume` are served in any
order, and a caller whose call times out goes on without its answer.

`Overlap` says whether a request may begin before the last one is over. `Races`
lets in interleavings that the code does not guard against:

| member | what happens |
|---|---|
| `reserve`, `detach`, `delete` | another request comes between the API's read of the status and its update |
| `bdm` | a detach finds the BDM of an attach whose check Cinder is about to refuse, or that of an instance being terminated (`Abandoned`) |
| `terminate` | an instance is terminated while another request works on it, so that the BDMs, which the API reads and the host uses, may be stale |

`Faults` says what may fail: a cast, `initialize_connection` (`connect`), the
driver's plugging and unplugging, calls of the undoing (`rollback`),
`terminate_connection`, Cinder's back end (`backend`), RPC calls that time out
with the work going on (`timeout`), the driver of a deletion (`driver`).

### FernetKeys

A repository is a function from the names of key files to their keys, one for
each node. The rotator sets its repository up and rotates it, one file operation
at a time: promote the staged key, create the next one, write it, purge. `Sync`
copies its repository to another node; it is no code of Keystone (`external` in
`PROJECT.json`) and happens in one step: no node is seen with half of a copy. A rotation begins with the nodes in
sync, as `token/providers/fernet/utils.py` assumes. A request lists the directory and
reads the files one by one, then encrypts with the primary key or tries all of
them on a token. One token and one request at a time are enough, as requests
change nothing that others read.

`Races` lets in `straddle`, a copy while a node is reading, and `setup`,
`fernet_setup` run again after a crash.

## Runs

All runs are exhaustive within their bounds.

| run | bounds | shows |
|---|---|---|
| `lm_owner` | 3 hosts, 3 requests, no crash, shared storage, failing post steps at both ends and failing volume steps | MIGRATING is a lock (`OneOwner`); after it is released the guest runs where the row says (`NotForgotten`), keeps its volumes (`GuestKeepsVolumes`), and a host is recorded only once the guest is there (`RecordedWhereItRuns`); it implements `InstanceMove` (`Moves`) |
| `lm_crash` | 3 hosts, 2 requests, 2 crashes, all faults, shared storage | never two guests (`AtMostOneGuest`), never none (`GuestAlive`) |
| `lm_live` | 3 hosts, 2 requests, 1 crash, timeouts, failing volume removals, no shared storage | when nothing is under way the destinations are clean (`CleanWhenIdle`); every request leaves MIGRATING or ends in ERROR (`Resolved`) |
| `lm_late_rollback` | 2 hosts, 2 requests, no fault | *violated*: a late rollback cast destroys the guest |
| `rz_lock` | 2 nodes, 3 resizes, 1 crash, resize to the same host, one request at a time, polls, no valid host, refusals, failing casts and drivers | no save finds that another handler took the instance (`NeverPreempted`), the last disk survives (`DiskSurvives`) and is where the row says (`DiskWhereItRuns`), a RESIZED instance can be answered unless the service died that carried the answer out (`Answerable`); every resize, confirmation and revert gives `task_state` back unless the service died with the last handler (`Resolved`); it implements `InstanceMove` (`Moves`) |
| `rz_live` | 2 nodes, 2 resizes, 1 crash, resize to the same host, audits, `refuse`, `error`, `rollback`, `timeout` | no tracker gives back more than it added (`NoUnderflow`); audits that do not fail make the usage right (`Settles`) |
| `di_quota` | 2 instances, 4 requests, quota 1, `reclaim_instance_interval` set, failing creations, schedulers, builds (with their clean-up too), drivers, dying API processes | nobody gets more than the quota (`WithinQuota`), reservations end once (`ReservedIsHeld`), when all is quiet the usage is what there is (`UsageExact`) |
| `di_crash` | 1 instance, 3 requests, 2 crashes, failing schedulers, builds, drivers | the quota never counts too little (`NeverUnder`), a guest is on the host its row names (`GuestHasHost`), deletions end (`DeletingEnds`), guests of deleted rows are reaped (`GuestReaped`) |
| `va_overlap` | 2 instances, 4 overlapping requests, failing connections, unplugging and deletions, no race | the volume is in one guest (`NeverShared`), a free one in none (`FreeIsFree`), all records agree when nothing is under way (`Agree`), no status refuses requests for good (`Resolved`) |
| `va_serial` | 2 instances, 4 requests one after another, every race and fault | Cinder never has two attachments, nor one of a volume that is neither in use nor being detached (`Recorded`) |
| `power` | 3 jobs at a time, 2 requests, 1 change of the guest, 1 crash, no failing driver | `task_state` is a lock (`Exclusive`), the row is right in the end (`Converges`), `init_host` leaves nothing interrupted that it knows (`TakenUp`) |
| `fk_rotate` | 2 nodes, 4 active keys, 5 rotations, 1 crash, no race | what one node encrypts with, all can decrypt (`PrimariesKnown`); no request refuses a token that is not old enough (`NeverRefused`) |

Why the bounds are enough to meet the interesting cases: three hosts let an
attempt go to one host, a second to another and a third back; two attempts are
what a late cast needs; three resizes leave records of two earlier ones that
queries could confuse. Two crashes hit a protocol and the recovery from the
first; of a resize one is enough, as a second one shows nothing else (2.6 million
states, not a run). On two nodes a resize that one of them refuses goes on to the
other, which may be the source; a third node leaves `rz_lock` as it is (923,000
states, `Resolved` on the half where the instance starts small; not a run), and
`rz_live` where a service dies (checked without faults, not a run), except that a
record that was left over there makes the audit count a RESIZED instance too much,
which `Settles` says. As nodes are interchangeable both runs of a resize start
their instance on one of them (`FromOneNode`); a symmetry set would not be sound
for liveness. Under a quota of one, two instances compete for it and each of four
requests finds the outcome of the others: create, delete, restore, and one that
must be refused or admitted. Four requests on a volume attach, free, attach
elsewhere and detach or delete again, with an answer of the first still to come.
A third job leaves room for the stop of the periodic task beside two requests;
`Exclusive` also holds with three requests and a failing driver (7 million states,
not a run). Five rotations of four keys purge keys and promote each that was
generated after a crash; three nodes with fewer keys show nothing else.

Deadlock is not checked: the systems stop when the bounded requests are served.

### Fairness

Threads of Nova that run are scheduled, casts to a live service are served,
libvirt's jobs end, and a service that died is started again (weak fairness).
`COMPUTE_RESOURCE_SEMAPHORE` serves its waiters in turn, so a step of a resize
that needs it gets it although audits come back for ever (strong fairness,
`UnderSemaphore`). Nothing is assumed of users, faults, crashes, or of when a
periodic task starts, with one exception: the reaper runs again and again,
which is what `GuestReaped` is about, and so do the audits of `Settles` and the
power-state synchronisation of `Converges`. A confirmation that the periodic task
has begun goes on beside the handlers of the instance (`PollInstance` has its own
weak fairness): it runs in a thread of its own.

`VolumeAttachment`: requests that have begun go on and `cinder-volume` serves
its calls. `PowerState`: handlers, the threads of the synchronisation, and the
steps of a restart are scheduled; events and requests need not come, and
`Converges` is about behaviours in which users and guests come to rest, as their
number is bounded. `FernetKeys` states no fairness: its properties are
invariants, and a rotation that was killed need not be run again.

### What disagrees with comments of the code

`lm_late_rollback` finds a late rollback destroying a running guest; it is listed
under `findings` with the line it contradicts. The following fail too, without a run of their own:

* `Resolved` of `ResizeInstance` with `rollback` or `timeout`, and
  `PreemptorKeepsTask` with `rollback`: `reverts_task_state` says of an unexpected
  task state "Do not clear task state in this case" (`compute/manager.py:323`),
  but the save of ERROR before it (6385) has written that of the refused save over
  it. The preempting request then fails at its own next save, and the instance is
  left in ERROR with a task state that nobody ends, without any crash. (After
  `InstanceFaultRollback` a second resize starts before `reverts_task_state` has
  run, which then frees the instance for a third.)
* `GuestReaped` and `GuestHasHost` with `cleanup`: a build fails and so does its
  clean-up. The row loses its host (`compute/manager.py:1968`), the next DELETE
  destroys it in the API without asking a host, and
  `_cleanup_running_deleted_instances` ("any instances which are erroneously still
  running after having been deleted") filters by host.
* `NotForgotten` with a crash: a source that restarts between the switchover and
  the record of the destination takes the instance for its own and forgets the
  guest that has left.
* `DiskSurvives` with `Overlap`: a confirmation and a revert, or a revert and the
  periodic confirmation, are both accepted and both copies of the disk deleted.
* `AuditNeverFails` (`ResizeInstance`): the record of a refused claim is never
  saved again, its `updated_at` is None, and the audit's comparison raises.
* `GuestKeepsVolumes` with timeouts, or with `max_concurrent_live_migrations`
  other than 1: the rollback of an earlier attempt disconnects the volumes of a
  host that a later one has moved the guest to.
* `Resolved` of `LiveMigration` with `arrive`: when a step of the destination's
  handler raises before its save, nobody is told, and MIGRATING stays.
* `WritesOnlyMigrating` (`LiveMigration`): the conductor's write of `vm_state`
  is applied to an instance that has left MIGRATING, after one crash.
* `RoomForRevert`, `ClaimCounts` (`ResizeInstance`): an audit between two steps
  of a resize, or a stale `tracked_instances`, takes the claim out of the usage
  until the next audit. `Settles` shows that it is repaired.
* `NeverPreempted` with `rollback`: `reverts_task_state` clears the task state
  of whoever owns the instance by then. `NeverPreempted`, `Answerable` and `Moves`
  with `timeout`: the conductor's second resize runs beside the ERROR of the
  first destination.
* `NeverPreempted` and `Moves` with `Overlap`, by a resize that is requested between the
  conductor's save (`conductor/manager.py:600`, which frees the instance) and
  the ERROR of the compute service that had called it.
* All safety properties of `rz_lock` with `unlock`, `DiskSurvives` included: a source that
  starts while a destination prepares a resize, or while the cast waits for it,
  takes the instance out of RESIZE_PREP; a user resizes it again and the two
  resizes take each other's saves and delete each other's copies. `DiskWhereItRuns` with `recovery`: an instance
  whose roll-back raised is ACTIVE with nothing but a backup.
* A nova-compute that dies while it confirms leaves a RESIZED instance whose
  record is "confirming"; neither a user nor `_poll_unconfirmed_resizes` can
  answer it again (`AnswerDied`, the condition of `Answerable`). One that dies
  in any other handler of a resize but `resize_instance` leaves the task state
  as it is (`Abandoned`, the condition of `Resolved`).
* `UsageExact`, `NeverUnder`, `DeletingEnds` and `GuestHasHost` with the members
  of `Races` above; `NeverUnder` also with soft deletions and a crash. `_reclaim_queued_deletes` says that a crash is "the only
  case that the quota might be inconsistent"; they are others.
* `NeverShared`, `FreeIsFree` and `Agree` (`VolumeAttachment`) with any of the
  `Races`, or when an attach has to be undone while others use the volume:
  `terminate_connection` gives the reservation back before the undoing is over,
  and `_attach_volume` gives it back again. `FreeIsFree` needs seven requests for
  the second half of `bdm`: an instance that is being terminated has given the
  volume up and keeps its BDM until it is done, and the detach of the volume from
  another instance takes the first BDM it finds (`compute/manager.py:4708`).
  `Resolved` with failing casts,
  disconnections, back ends and timeouts, each of which leaves the volume in a
  status that refuses every request.
* `PrimariesKnown` (`FernetKeys`) with `setup`: the set-up promotes a key that no
  other node has. `NeverRefused` with `straddle`. Not a violation but a stop: an
  empty `0` left by a crash and promoted later makes every request of the node
  raise, and without a `0` the next rotation raises.

What the crash of nova-compute and hard reboots do to power operations is left
out of `Exclusive` and `TakenUp` by their conditions:

* A hard reboot that takes the instance from a soft one: the soft reboot's second
  save raises `UnexpectedTaskStateError` inside its `try`; if the guest runs, its
  last save, which expects nothing, resets the task state of the hard reboot,
  otherwise it saves ERROR beside it. `reverts_task_state` says of that
  exception "Do not clear task state in this case".
* A crash during a soft reboot, with the guest off by then: `_init_instance` sets
  REBOOT_PENDING_HARD in memory only, the first save of `reboot_instance` fails,
  and the exception leaves `init_host`, so nova-compute does not start.
* `check_instance_state` admits a hard reboot of an instance that is PAUSING, the
  expected task states of its save do not name it.
* SUSPENDING, RESUMING and REBOOTING, PAUSING of a paused guest and UNPAUSING of
  one that is off stay after a crash until an operator resets them.
* The synchronisation reads the power state before it reads the row again, so it
  may stop a guest that has just been started; and a guest that goes off right
  after its creation is waited for for ever. A stop that was queued before a
  crash may hit an instance that was started since.

## Proofs

For all values of the constants: any number of hosts, instances, requests,
migrations and crashes, and any faults, unless a theorem excludes some.

| theorem | says | argument |
|---|---|---|
| `TypeCorrect` | `LiveMigration` is well typed | by action |
| `GuestRunsOnce` | `[]AtMostOneGuest` without `resume_guests_state_on_host_boot` | a domain begins to run only where another stops |
| `GuestSurvives` | `[]GuestAlive` on shared storage | no rollback is sent to a destination there |
| `MigratingIsALock` | `[]OneOwner` without crashes and misread jobs | `LockInv`: every place of a thread and every request in a queue says what the row, the job and the domains are; it is inductive, `OneOwner` is not |
| `GuestNotForgotten` | `[]NotForgotten` under the same assumptions | from `LockInv` |
| `ImplementsMove` | `Moves` of `LiveMigration` on shared storage, without crashes and misread jobs | each action is a step of `InstanceMove` or none, from `LockInv` and what a switchover and a failed job do to the domains |
| `RecordedOnArrival` | `RecordedWhereItRuns` under the same assumptions | from `LockInv`, at the one step that records the destination |
| `VolumesStay` | `[]GuestKeepsVolumes` on shared storage, with one live migration at a time for each source, without crashes, misread jobs and timeouts | `VolumesInv`: a destination that a job runs to has the volumes, and while a rollback still disconnects them at its own, the guest is at the source and no other migration of it is inside the semaphore (`OneInside`) |
| `NothingLeftBehind` | `[]CleanWhenIdle` without misread jobs | `CleanInv`: before the first crash, for what a host without the guest holds there is a migration that owes its removal (`OwesVolumes`, `OwesPath`), or one that is recorded as failed |
| `Promise` | what implementations of `InstanceMove` inherit: found where recorded, never lost | inductive as it stands |
| `ResizeTypeCorrect` | `ResizeInstance` is well typed | with `Known`: a record that somebody works on is complete |
| `UsageNeverNegative` | `[]NoUnderflow`, with audits, restarts and overlapping requests | with `Covered`: what a tracker remembers of a migration is in its usage, so the drop that is to come finds it |
| `TrackedMovesAreCovered` | `[]Covered` | the strengthening itself |
| `TaskStateIsALock` (`ResizeLockProofs`) | `[]NeverPreempted` if `Orderly`: requests for an instance do not overlap, and none of `rollback`, `timeout`, `unlock` | `Held(i)`: one step at a time works on an instance (`OneStep`), and at each place it says what the row, the record, the call that waits and the answers are (`StepsFit`, `CallFits`, `RecordsFit`, `AnswerFits`, `FitsRow`) |
| `NoDiskIsLost` | `[]DiskSurvives` if `Orderly` | with `FitsFiles`: where disk and backup are at each place of a resize |
| `DiskFollowsInstance` | `[]DiskWhereItRuns` if `Orderly` and without `recovery` | from `Held` |
| `ResizedIsAnswerable` | `[]Answerable` if `Orderly` | from `Held` |
| `ResizeImplementsMove` | `Moves` of `ResizeInstance` if `Orderly` | each action takes, carries, records or releases the watched instance (`Acts`) or works for another one (`Elsewhere`) |
| `DeleteTypeCorrect` | `DeleteInstance` is well typed | with `Named`: a request that does something names an instance |
| `ReservedNeverDrifts` | `[]ReservedIsHeld` unless `expire` is let in | `QuotaStep` reduces a step to the transaction it takes; `Reservations` adds that a request that has just begun holds nothing and that what the expiry has read stays as it was |
| `GuestsHaveHosts` | `[]GuestHasHost` unless `heartbeat-build` or `cleanup` is let in | `HostInv`: an instance is created once and its build is over before a handler destroys it (`CreatedOnce`, `BuildFits`); who works on an instance at each place of a request (`WorkFits`); a row that names no host has no guest (`HostFits`) |
| `UsageNeverUnder` | `[]NeverUnder` if `Guarded` (below) | `QuotaInv`: `in_use` is the number of instances that are `Counted`, or more once a crash or a failed restore has lost a decrease (`Lossy`). `Ledger` says which request may still grant an instance (`Grants`), that one that made it go takes it off, and once (`Decreases`, `TakenOnce`), who is alone with it (`Exclusive`), and what the copies that requests hold still tell of its row (`Copies`, `Goes`) |
| `QuotaHolds` | `[]WithinQuota` if `Guarded` | from `QuotaInv`: an increase was within the limit with what was reserved by then, and `reserved` is what the grants under way hold (`Reservations`) |
| `UsageIsExact` | `[]UsageExact` if `Guarded`, without crashes | from `QuotaInv`: when all is quiet nothing is pending and all that is charged is counted |
| `TypeCorrect` (`PowerStateProofs`) | `PowerState` is well typed | with `Placed`: the places of a job are those of its kind |
| `TaskStateIsALock` | `[]Exclusive` | `Held`: a job that has taken the instance is the only one, and `task_state` is its own; each handler keeps it |
| `TypeCorrect` (`VolumeAttachmentProofs`) | `VolumeAttachment` is well typed | with `Placed`: a request that attaches names an instance |
| `SerialRequestsAreRecorded` | `[]Recorded` if requests do not overlap | `SerialInv`: one request at a time, and of the calls that are still to be served none concerns an attach that has not reserved the volume; who reserves or deletes it finds no attachment of another |
| `OneGuestAtATime` | `[]NeverShared` if `Gentle`: no races, and nothing fails but connecting, unplugging and a driver's deletion | `LockInv`: the status is a lock that Nova and Cinder share. It says which request holds the volume, which one ends the attachment, and what the records are at each place of both |
| `FreeVolumesAreFree`, `RecordsAgree` | `[]FreeIsFree`, `[]Agree` if `Gentle` | from `LockInv`, which needs that the BDMs the API has read for a termination are still those of the instance when the host uses them (`Fresh`) |
| `TypeCorrect` (`FernetKeysProofs`) | `FernetKeys` is well typed | names of keys are bounded by the rotations |
| `AllPrimariesKnown` | `[]PrimariesKnown` with three active keys or more, unless `setup` is let in | `KeysInv`: a rotation begins with the nodes in sync; until it has ended, all primary keys are among two files of the rotator, which every node has and the purge spares |
| `TokensStayValid` | `[]NeverRefused` with three active keys or more and no race | `AgesInv`: the files of the last promotions are there, and their keys on every node (`Ages`); a token that must be accepted has one of these keys (`TokenAge`); a request has read it, or will find it in a file it has listed (`RequestAge`) |

The assumptions are the named `ASSUME`s of the modules, which TLC evaluates in
every run: sets of requests and hosts are finite, bounds are numbers, `Faults`
and `Races` have only known members.

Only model-checked: everything temporal under fairness (`Resolved`, `Settles`,
`DeletingEnds`, `GuestReaped`, `Converges`, `TakenUp`), which is beyond the
prover. Every safety invariant of a passing run is stated by a theorem, for
`WithinQuota` and `UsageExact` under fewer faults than their run has: `di_quota`
lets API processes die, which `Guarded` excludes.

`Orderly` and `Gentle` are not conveniences: each member of `Faults` and `Races`
that they exclude breaks one of the properties (see above), and TLC shows how.

`Guarded` (`DeleteInstanceProofs`) is nearly so. It admits failing creations,
schedulers, builds (and their clean-up) and drivers and a second DELETE, and, while soft deletions are
off (`reclaim_instance_interval = 0`, the default), crashes of nova-compute and
local deletes of hosts that are up. With soft deletions on, any one of a crash,
`heartbeat`, `overlap`, `reclaim`, `force` and `heartbeat-build` makes
`NeverUnder` fail with one instance and three requests; `overlap`, `reclaim` and
`force` concern soft-deleted instances only. `early`, `refresh` with a second
DELETE, and `expire` with a dying API process make it fail in any case. Two exclusions are the argument's and not the code's: dying API
processes (`api`), whose reservations stay until the expiry, and
`heartbeat-build` without soft deletions, where a build goes on after its
instance was deleted. The invariants would need clauses for both; TLC finds no
violation of `NeverUnder` with either.

`TaskStateIsALock` names two theorems, of `PowerStateProofs` and of
`ResizeLockProofs`, since it is the same claim about two protocols.

## Abstractions

* A handler is cut at its saves, its calls and casts, and where the code reads
  something that others write. What happens between is one step. Two saves in a
  row that nobody distinguishes (ERROR and then `task_state` None) are one.
* Live migration: one instance; firewall and network set-up, post-copy and
  aborts by the operator, a crash of the conductor, deletion during a migration
  and `_sync_power_states` are left out. The scheduler may choose any host.
* Resize: one libvirt node on each host; the record and the claim are made in
  one step; of the records of an instance that an audit may compare, the
  youngest is picked as the code does by `updated_at`. Quotas, notifications,
  networks and volumes, shared instance directories, and stopped instances are
  left out. A service dies between two steps or while it copies a disk.
* Create and delete: one compute host, one instance in each request, one
  resource in the quota, no reschedule of a failed build
  (`scheduler_max_attempts = 1`), no cells, no shelved or resized instance. A
  failure to deallocate networks or volumes is not distinguished from one of the
  driver. Heartbeats are a choice: a service that is down may count as up.
* Power operations: one instance; rescued, resized and shelved instances,
  `shutdown_terminate`, `resume_guests_state_on_host_boot`, a database replica
  that lags behind (`use_slave`) and suspended guests of other drivers
  (pmsuspended) are left out; CRASHED is SHUTDOWN; the delay of lifecycle events
  is any delay.
* Volume attachment: one volume that is not multiattach nor migrating, without
  snapshots; a termination destroys all BDMs of its instance, which are those it
  has read unless `terminate` is let in; instances on hosts of their own; no crash of a service; volumes of a
  build or a migration are left out.
* Fernet keys: one rotation at a time; expiry and payload of tokens, and
  permissions of files, are left out.

## Not modelled

`PROJECT.json` gives the reason for each component. In short: drivers (of
hypervisors and of storage) are code around external systems; requests' parsing,
rendering, objects' serialisation and the schema change no state of a protocol;
cells, consoles, certificates and the object store are optional or deprecated;
Horizon, noVNC and Tempest have no protocol of their own. By lines these are
most of the repository, so that the modelled lines are a small share of it.

## Plan

1. `ResizeInstance`: deletion during a resize, resize of a stopped instance.
2. `DeleteInstance`: reschedules with `instance_claim` and its abort.
3. Proofs of `QuotaHolds` and `UsageIsExact` with API processes that die: their
   reservations stay until the expiry, and `Grants` has to allow for them.
4. Instance events of a build; the scheduler's host states against the claims;
   the image status and the scrubber in Glance; fixed addresses of nova-network.

Runs of the present protocols that a later one subsumes make room for theirs.
