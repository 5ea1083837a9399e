# TLA+ models of the RDS CSI driver

The driver gives Kubernetes pods block storage from a MikroTik ROSE Data Server
(RDS). A controller creates volumes over SSH, decides which node may use a
volume and cleans up; a node plugin connects volumes over NVMe/TCP and mounts
them. These modules model the driver's state changes, TLC checks them on small
instances, and TLAPS proves central results for every instance.

Paths such as `controller.go` are below `src/pkg/`; `PROJECT.json` gives the
source lines of every definition.

## Parts and modules

| part | source | module |
|---|---|---|
| attachment manager, publish and unpublish handlers, reconcile pass, rebuild at start-up | `attachment/`, `driver/controller.go` | `AttachmentState`, `AttachmentService`, abstractly `AttachmentRegistry` |
| per-VMI serialization of publishes | `driver/vmi_grouper.go` | `VMIGrouper` |
| volumes and snapshots: handlers, RDS commands, SSH retries | `driver/controller.go`, `rds/{commands,ssh_client}.go` | `RdsVolumes` |
| orphan reconciler | `reconciler/orphan_reconciler.go` | `OrphanReconciler`, composed with `RdsVolumes` |
| connection pool and its breaker | `rds/pool.go` | `ConnectionPool` |
| node service, mounts, stale mounts and recovery, per-volume breaker | `driver/node.go`, `mount/`, `circuitbreaker/` | `NodeVolumes` |
| NVMe connections and device resolver | `nvme/` | `NvmeConnector`, used by `NodeVolumes` |
| start-up and shutdown, reconciler loops, node watcher, connection manager | `driver/driver.go`, `cmd/`, `attachment/{reconciler,node_watcher}.go`, `rds/connection_manager.go` | `DriverLifecycle` |

The parts meet in few places, and that is where the modules are cut. A publish
takes the per-VMI mutex around everything that `AttachmentService` models. A
pass of either reconciler begins and ends in `DriverLifecycle`; what it does is
in `AttachmentService` and `OrphanReconciler`. Controller and node share no
state: the kubelet and the sidecars call one after the other.

`MCAttachment`, `MCOrphanReconciler` and `MCNodeVolumes` give TLC its values;
the modules ending in `Proofs`, and `OrphanReconcilerSteps`, hold the theorems
and lemmas. A definition whose comment
says "mutant" is a deliberate bug in the definition after it, which the property
that guards against it is shown to catch.

## Attachment tracking

Kubernetes' external-attacher calls `ControllerPublishVolume` to let a node use
a volume and `ControllerUnpublishVolume` when it no longer does. The controller
keeps one record per attached volume and refuses a publish that would exceed
the limit: one node for RWO, two for RWX, which stands for a KubeVirt live
migration. Handlers run concurrently, hold pointers into the shared map, are
cancelled by their callers and race with a background reconciler that drops
attachments of deleted nodes; a restart rebuilds the map from
VolumeAttachments.

* `AttachmentState`: the record (`types.go`) and what each manager method does
  to it. The node slice is a set and its first element, since there are never
  more than two. Timestamps are `"nil"`, `"recent"` or `"past"`, as the code
  only compares them with a period.
* `AttachmentService`: handlers, manager, reconciler, restart and cluster. One
  action is one critical section; `pc[t]` says at which call of the handler
  goroutine `t` is.

  | variable | code |
  |---|---|
  | `attachments`, `detachTimestamps` | the maps of `AttachmentManager` |
  | `volumeLocks` | holder of each lock of `VolumeLockManager` |
  | `pc`, `req`, `existing` | each handler: its place, its request, the pointer from `GetAttachment` |
  | `recPc`, `recVol`, `listed` | the reconciler: its place, its volume, the pointers from `ListAttachments` |
  | `nodes`, `nodeCache` | Node objects, and the informer's view of them |
  | `va` | VolumeAttachments with `status.attached` |
  | `granted` | nodes whose publish succeeded and that have not been unpublished: who really uses a volume |

  `am.mu` has no variable: its sections are single actions. The per-volume lock
  has one, because `TrackAttachmentWithMode` holds it during an API call. A held
  pointer is `Alias` while its object is the map entry and the object's last
  value afterwards, so updates show through it exactly as in Go.
* `AttachmentRegistry`: the abstract promise. A node owns a volume before it may
  use it, owners may share the volume, and an owner that uses a volume stays one.

`Faults` selects what the environment does: failing annotation writes and API
calls, deleted and re-created nodes, callers that stop waiting, force-detaches,
restarts (also before `status.attached` is written), a failing rebuild, a
failing PV lookup in it, a handler stalled for a migration timeout, and torn
reads of a string under assignment.

Abstractions:

* The PV annotations are written and never read back, so only the failure of
  the write is modelled; `clearAttachment`, whose failure is ignored, is merged
  with the update it follows.
* Events, metrics, logs and the publish context are left out, and with them the
  unlocked reads that feed only those (`controller.go` 735-737, 917-938).
* `am.mu` held during the API call of `RemoveNodeAttachment` delays others and
  reorders nothing, given that the call ends.
* The loads of `IsMigrationTimedOut` count as one read. A torn read can mix only
  names of different length; the model lets it mix any two.
* external-attacher has one call per volume and node outstanding, and one that
  was given up may still be running. `MarkAttached` is enabled only when a
  restart is possible, as nothing else reads its effect.

## Per-VMI serialization

`VMIGrouper` follows a publish through `LockVMI`: the cache, the API lookup, the
cache update, `getOrCreateLock`, the mutex, and on return `Unlock` and
`releaseLock`. A mutex is an object with an identity (`Locks`): a goroutine
keeps the one it was given while the map (`locks`) may by then have none or
another for the same VMI. That is what reference counting has to get right.
`g.mu` and `g.cacheMu` protect single actions. Cache entries expire, lookups
fail, and the owner of a claim changes at any time.

## Volumes and snapshots on the RDS

`RdsVolumes` has an RDS with disk entries (`disk`, with their sizes) and backing
files (`file`), the Kubernetes objects (`pv`, `cap`, `source`, `vsc`), and the
running calls. An action is one RouterOS command and the code up to the next
one: `CreateVolume` ends with its existence check, `Add`, `Verify`, `RemoveDisk`,
`RemoveFile`, `Set` and the `...Get` actions are the commands of the client.
Request or reply of a command can be lost; `runCommandWithRetry` then repeats
it. Handlers hold no lock and ignore their deadline: `GiveUp` lets the caller
go while the handler runs on beside the next call. Sizes are small numbers, and
`FormatBytes` cuts them to whole units as `formatBytes` does.

`OrphanReconciler` extends it with the passes: list the disks, list the PVs,
delete each orphan by the client's `DeleteVolume`, list the files, delete each
orphaned one. Between any two of these the calls go on. The ghost `oldBound`
holds the volumes bound since before the pass began, `swept` those that a pass
has touched otherwise.

Left out: listings and capacity queries, which change nothing; output parsing;
`parseSize`, which reads back exactly what `formatBytes` wrote.

## The node

`NodeVolumes` models the handlers with one action per external command. Paths
are stacks of mounts (`staging`, `target`), a device is a number, and the kernel
hands out the smallest that is neither connected nor held by a mount, so that
numbers are reused as in Linux. `conn` has the connection of each volume,
`cache` the resolver's entry, `content` whether the volume is blank, formatted
or written, `breaker` the gobreaker state with the requests it will count.
`call` has the current call of each volume and one that the kubelet gave up,
which goes on with a cancelled context. `pod` is what the kubelet is about to
do. Faults are failing commands, lost replies, lost links, given-up calls and
plugin restarts, `MaxFaults` in all.

The kubelet is modelled from how the handlers rely on it: one call per volume at
a time, repeated until it succeeds; unpublish before unstage; one pod, and one
target path, per volume. A running pod has files open on its volume.
The ghosts `history`, `wrong` and `erased` record what befell a volume, for
which volume another one's device was taken, and whose data was destroyed.

Left out: mount options, directories and permissions, the parsing of `/proc` and
sysfs, the legacy entry points of the connector without a context. Attempts of
the in-use check count as the one that decides.

## Connection pool

`ConnectionPool` has an action per critical section of `Get`: the closed check,
the breaker, the rate limiter, the search of the idle stack (which unlocks to
close a stale connection), the dial, and the records after it; further `Put`,
`Close`, links that are lost and the breaker's timeout. Metrics are left out.

## Start-up, shutdown and the background loops

`DriverLifecycle` runs `Driver.Run` step by step, the loops it starts, and from
a signal at any time `Driver.Stop`, which stops and awaits them in turn.
`fields`, `closed` and `token` are the channels: those of the attachment
reconciler are set to nil by its `Stop`, so a loop that captures them afterwards
is `deaf`. `client` is the SSH connection, which the monitor and every command
may renew, `connected` the manager's view of it. A select takes any of its ready
cases. Node events come before and after the watcher is registered.

## Runs

| run | question | instance |
|---|---|---|
| `calls_rwo` | Is the per-volume lock exclusive and always released, does a rollback drop only its own record, do held pointers lead to well-formed records? | two calls, reconciler; annotation writes fail, nodes come and go, publishes are given up |
| `records_rwx` | Do records stay well formed through migrations, detaches in any order, late unpublishes, rollbacks and rebuilds? | restarts at any time, failing and partial rebuilds, unpublishes given up, force-detaches, stalls |
| `registry_rwx` | Do at most two nodes use an RWX volume, each of them tracked, is the registry implemented, and is a migration start never nil when it is read? | benign environment, reconciler on, three nodes |
| `live_rwo` | Is every call answered, and does the attachment of a deleted node go away? | annotation writes fail, nodes are deleted; reconciler on |
| `vmi_locks` | Do publishes of one VMI exclude each other, is the reference count exact, does every publish return? | two publishes, claims, VMIs and mutexes; lookups fail, owners change |
| `pool` | Are the bound, the count and the ownership of connections kept, does an open breaker stay open until its timeout, does a closed pool drain? | three callers, `MaxSize` 2, `Threshold` 2 |
| `rds_volumes` | Do bound volumes keep disk, file and capacity, is what is gone collected, does a claim get its volume? | one volume, new or restored, one snapshot, two handlers, one fault |
| `node` | Is data kept and a volume in use left connected, is a healthy mount current, do pods start and go? | one filesystem volume, two faults |
| `node_devices` | Does a volume work only on its own device, and is data kept? | a filesystem and a block volume, one fault |
| `lifecycle` | Does stop precede work, is a graceful exit quiet, is no trigger lost, does Stop return, is a lost link restored? | two faults, one node event |
| `claim_grace_handover` | expected to fail, below | |
| `claim_orphan_files` | expected to fail, below | |

"Benign" is `BenignEnvironment`: annotation writes, API calls and PV lookups may
fail and the controller may restart, but callers wait, nodes stay, a restart
finds every answered publish in the VolumeAttachments, and no RWO volume is
subject to the grace period.

Why the bounds are enough:

* Attachment: no action reads the state of two volumes, apart from the
  reconciler's loop, which treats them one by one, and a restart; so there is
  one volume. Two handlers give every pairwise race; three nodes are one more
  than an RWX volume takes. Nothing is cut off by a counter. Nodes and threads
  are interchangeable, so the safety runs use symmetry; the liveness runs do not.
* `vmi_locks`: two publishes contend for one mutex, which leaves the map and is
  made anew between them; a second VMI shows that mutexes are not confused.
* `pool`: three callers are one more than `MaxSize`; a third connection object
  lets a connection be closed and dialled anew while two are in use.
* `rds_volumes`: volumes do not affect each other except through a snapshot and
  its source, which the instance has. Two handlers are a late call and its
  retry. The claim is of whole units; the expansion is to a size that
  `formatBytes` cuts. Two retries suffice to have a first, a repeated and a
  last attempt.
* `node`: two faults allow a lost link or failed step and a failure in the
  handling of it. The limits (two attempts, breaker at two failures, mount storm
  at three) are those of the code made small. Four device numbers are never used
  up. `node_devices` has two volumes because
  numbers wander only between volumes.
* `lifecycle`: two faults lose a link and fail the dial that restores it.

The two runs expected to fail state what the repository says and show a
behaviour of the code that contradicts it.

| run | statement | what happens |
|---|---|---|
| `claim_grace_handover` | publish "enforces RWO semantics" (`controller.go` 608) | The detach timestamp survives a re-attachment: detach from n1, publish to n1, publish to n2 within the grace period takes the volume from n1. |
| `claim_orphan_files` | orphaned files are "files without disk objects AND without PVs" (`orphan_reconciler.go` 287) | The disks are listed by `slot~"pvc"`, which a snapshot's slot does not match: its backing file is deleted though its disk object exists. |

### Fairness

* Attachment: goroutines run and API calls end (weak fairness of the handler and
  reconciler steps), the reconciler's ticker fires, informers catch up and time
  passes, and a goroutine waiting for a per-volume lock gets it if it is free
  again and again (strong fairness: a `sync.Mutex` turns to starvation mode
  after a waiter has waited for 1 ms). Calls, node deletions and failures are
  never forced.
* `VMIGrouper`: the same for its steps and mutexes.
* `ConnectionPool`: callers run and put back what they got; nobody has to call.
* `OrphanReconciler`: handlers and passes run, the ticker fires again and again,
  and external-provisioner repeats a create or delete until it succeeds. The
  last is strong fairness, since a call has to wait for a free handler.
* `NodeVolumes`: handlers run, the kubelet repeats a call until it succeeds, the
  breaker's timeout and the cache's TTL pass.
* `DriverLifecycle`: goroutines run, passes and dials end, the monitor polls; a
  select that finds its stop channel ready again and again takes it (Go's
  select chooses at random), hence strong fairness there. Nothing is assumed of
  the tickers of the reconcilers, of commands or of the shutdown timeout.

Faults are bounded in the last three, which says that they come to an end: a
liveness property there is about what happens once commands work again.

## Proofs

The theorems hold for every value of the constants that meets the named
assumptions, which are the types of the constants, finiteness of the sets of
goroutines (of nodes, for attachments; of device numbers, on the node), that the
limits of retries and breakers are at least 1, that `formatBytes`' smallest unit
is one of its units, that a volume and a snapshot have different slots, and that
`None`, `Nil`, `Alias`, `Orphan` and `Orphaned` are not confused with data.
TLC evaluates all of them in the runs.

`AttachmentServiceProofs`. `SafetyInv` is inductive: it joins the type invariant, well-formed records, `RollbackIsOwn`, `LockReleased` and
`HeldPointerSound`. They need each other: a rollback is harmless because the
lock's holder is the only one to change the entry; a pointer stays sound because
a record that leaves the map is well formed at that moment and is never changed
afterwards. From it follow `TypeCorrect`, `RecordsStayWellFormed`,
`RollbackOnlyOwn`, `LocksReleased`, `HeldPointersSound` and
`LockedEntriesStable`, all without restriction on the faults.
`NoNilDereferences` assumes that no handler stalls. Its invariant
`TimeoutReadInv` says why the unlocked read is safe: the node count, read under
`am.mu` just before, rules out a migration in the map entry, so only an object
that has left the map can be timed out, and such an object no longer changes.

`AttachmentExclusionProofs`, in the benign environment. `ExclusionInv` adds to
`SafetyInv` that no two calls serve the same volume and node, no call is on a
path that untracks a volume, nobody is granted a volume that is being persisted
and no node one it is being detached from, and that `granted` and `va` are
within the tracked nodes. Hence `GrantsTracked` and `NodeLimits`, for RWO and
RWX volumes alike.

`Refinement`, in the same module: with the tracked nodes as owners and `granted`
as grants every step is a step of `AttachmentRegistry` or changes nothing there.

`VMIGrouperProofs`. `LockInv` joins to `RefCountExact` that no two VMIs share a
mutex and that the holder of a mutex is the publish that is past `LockVMI` with
it. Exact counts alone are not inductive: a mutex allocated anew must not be one
that somebody still has, and `Unlock` must be by the holder. Hence
`ReferencesCounted` and `PublishesSerialized`: two serialized publishes of a VMI
have the VMI's one mutex, which has one holder.

`ConnectionPoolProofs`. `PoolInv` joins the bound, the exact count, unshared
connections and the breaker's count with where a caller has a connection, and
with `Cardinality(Slots) <= active`, which survives `Close`, where the exact
count does not. Hence `PoolBounded`, `ActiveIsExact`, `ConnectionsUnshared`, `BreakerOpens`, and
the action property `BreakerStaysOpen`.

`DriverLifecycleProofs`. `LifecycleInv` says where the attachment loop can be
after its stop (`PassInv`) and what has been started and has ended when `Run`
and `Stop` are past each of their steps (`StopInv`). Hence `StopPrecedesWork`
and `GracefulStopIsQuiet`. `LifecycleTypes` is about `TypeOK`, where the count of
waiting callbacks is not inductive: `CallbacksPaid` says that each callback, the
reconnect under way and the loss not yet noticed are paid for by one fault each,
or by the `Close` at the end of `Stop`.

`OrphanReconcilerSteps` and `OrphanReconcilerProofs`. `StorageInv` is inductive
for handlers and reconciler together:

* every disk has a size that `formatBytes` keeps (`DiskWhole`);
* a call is at one of its own commands, and about an object in a phase that
  allows it (`WellFormed`, `Entitled`): a late delete does no harm because a
  volume once released is never bound again;
* unless a call for the slot was given up, an expand asks for no less than the
  recorded capacity, what is about to be set is no less than the disk has, and
  what is being verified is there (`SizesKnown`); callers wait for one call per
  slot (`OneLiveCall`);
* a volume that no pass has touched has its file with its disk, its disk when it
  is bound, and the capacity (`VolumeSound`);
* what a pass is about to delete is not in its list of PVs, and that list has
  every volume bound since before the pass (`PassSound`).

`BoundIntact` alone says nothing of the calls under way, and they are what could
break it. Hence `StorageTypes`, `BoundVolumesIntact`, `CapacityIsHonoured` and,
with `StorageInv` before and after a step, the action property
`UndoneOnlyByLateCalls`. The arithmetic rests on `FormatCuts` and
`FormatMonotone`: `FormatBytes` never enlarges, keeps what it made, and does not
turn a larger request into a smaller disk.

`NodeVolumesProofs`. `NodeInv` is inductive for any number of volumes, devices
and faults:

* a call is at one of its own places, it has a device only where the code has
  resolved one, it is the call that the pod needs, and a call that goes on after
  the kubelet gave it up is on record (`CallsSound`);
* two volumes never share a device number, and of a volume that nothing befell
  the cached path and the device of the call are those of its connection
  (`NvmeSound`);
* a number that is mounted for a volume belongs to no other volume's
  connection, as a mount keeps its number from being handed out again; and
  without late calls a pod finds its target path empty and gets one mount there
  (`PathsSound`);
* what `mkfs` is about to write to has no data (`DataSound`).

Every handler's step is shown to move its own call only and to have an effect on
connections, mounts and ghosts of one form each (`NvmeEffect`, `MountEffect`,
`GhostEffect`); `HandlerKeeps` draws `NodeInv'` from those forms
once for all handlers. Hence `NodeTypes`, `OnlyOwnDevices`, `DataIsKept`,
`HealthyMountIsCurrent` and the action property `UsedVolumesStayConnected`.
`HealthyMountIsCurrent` needs `PathsSound`: the stale check looks at the first
mount of the path, which is the top one only because there is one, and finds
that its device exists, which makes it the volume's own only because a mounted
number goes to nobody else.

With these every safety invariant and every action property that a passing run
checks is a theorem too. Only model-checked are the liveness properties
(`CallReturns`, `StaleCleared`, `PublishReturns`, `ClosedPoolDrains`,
`GoneIsCollected`, `ProvisioningEnds`, `PodStarts`, `PodGoes`, `TriggerServed`,
`StopReturns`, `LinkRestored`), as liveness under fairness is beyond the prover.

## What the code does not promise

The properties name the cases they leave out. Each exception stands for a
behaviour of the code, which is found by dropping the exception from the
property, or the restriction from the constants, and running TLC again.

Attachment:

* A retry is answered with success from the record of a publish that was given
  up, and which then rolls that record back (`manager.go` 104).
* A publish that held the record of a deleted node untracks a newer attachment
  (`controller.go` 834).
* When the primary of a dual attachment is deleted the reconciler drops the live
  secondary too; a deleted secondary is never noticed (`reconciler.go` 221). An
  attachment made between the node lookup and the untrack is dropped.
* Nothing rebuilds the map after a failed rebuild, although `driver.go` 536 says
  "reconciler will rebuild state later".
* A timed-out migration is only reported to further publishes and stays,
  although `controller.go` 718 says the check "prevents indefinite dual-attach".
* A record rebuilt as RWO after a failed PV lookup gets a second node
  (`manager.go` 134; `types.go` 16 says at most one).
* A restart before `status.attached` is written forgets a granted volume
  (`rebuild.go` 211).
* A stalled publish can dereference a nil migration start (`controller.go` 721).
* An unpublish with an empty node ID, which `controller.go` 902 calls a
  force-detach, finds no node of that name and changes nothing.

Volumes, snapshots, orphans:

* A pass that lists a volume before its PV exists deletes it as an orphan; the
  grace period does not help, as no creation time is known
  (`orphan_reconciler.go` 239). That is `swept` in `BoundIntact`.
* A given-up expand that runs late can set the older, smaller size, and a
  given-up create can make again what was deleted (`late` in
  `OnlyLateCallsUndo`). A snapshot disk made that way stays, as the orphan
  reconciler looks at volumes only; hence `GoneIsCollected` is about volumes.
* A size that is not a whole number of units is cut by `formatBytes`, the answer
  has the uncut size, and a repeated create finds a volume of another size:
  hence `Whole` in `ProvisioningEnds`.
* A repeated `CreateSnapshot` is refused unless the RDS prints the source of the
  snapshot (`PrintsSource`; only the mock server's output does).
* A repeated expand answers that the node need not expand (`controller.go` 1273).

Node:

* The resolver answers from its cache within the TTL as long as a device of that
  number exists, whosever it is by then (`resolver.go` 78): "raced" in
  `OwnDevice` and `HealthyIsCurrent`.
* A late unstage takes an inconclusive in-use check for "not in use" and
  disconnects a device that a new pod uses; a stage that failed disconnects
  whoever uses the connection (`node.go` 344): "late" in `UsedStaysConnected`.
* A second bind mount made by a late publish, or a failing `findmnt` under an
  unpublish, lets `RemoveAll` work on a mounted path (`node.go` 783): "late" and
  "findmnt" in `DataKept`.
* A failed recovery, a lost link or a late unstage leaves nothing staged, and
  `NodePublishVolume` fails until the pod is deleted: `Unstaged` in `PodStarts`.
* A failing disconnect at unstage is only logged and leaves the connection.

Pool, loops:

* The half-open breaker admits every request, although `pool.go` 399 says "Allow
  one request through to test".
* A link that was lost before `NewConnectionManager` looked is not restored by
  the monitor, which acts on a change only (`connection_manager.go` 142):
  `Blind` in `LinkRestored`. A command restores it.
* If `Stop` comes before the attachment loop has captured its channels, the loop
  never ends and `Stop` waits for the shutdown timeout (`reconciler.go` 161):
  `deaf` in `OnePassAfterStop` and `StopReturns`.
* A signal during `Run` lets it start loops after `Stop` has passed them:
  `early` in `GracefulIsQuiet`.
* `CheckReset` is never called, although `breaker.go` 91 tells the user to reset
  an open breaker by an annotation.

## Not modelled

* Identity service, Kubernetes events, Prometheus metrics, SNMP query, security
  log: output and static answers that no decision of the driver depends on.
* Validation, sanitising and error text (`utils/`): string predicates without
  state. The models take requests that passed validation.
* Parsing of RouterOS output, `/proc` and sysfs, SSH key handling, flags and
  configuration, the gRPC server's own machinery: text processing and I/O.
* Handlers that go on after `Stop` has closed the SSH client and may connect
  again: the process exits right after, so nothing is said of them.
* Code without a caller outside the tests: `TrackAttachment`,
  `ClearMigrationState`, `RebuildState` from annotations, the manual `Reconnect`,
  `Reset` and `CheckReset` of the breaker, and the modes without an attachment
  manager or a Kubernetes client. (The connection pool has none either; it is
  modelled, as its tests and documentation treat it as a part of the driver.)
* Commands overwriting the shared SSH client without closing it: the models have
  the client up or down, and not how many sockets it leaks.
