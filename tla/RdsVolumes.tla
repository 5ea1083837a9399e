------------------------------ MODULE RdsVolumes ------------------------------
(***************************************************************************)
(* Volumes and snapshots on the RDS: the create, delete, expand and        *)
(* snapshot handlers of the controller (pkg/driver/controller.go) and the  *)
(* commands they send (pkg/rds/commands.go) with their retries             *)
(* (pkg/rds/ssh_client.go).                                                *)
(*                                                                         *)
(* A step of a handler is one RouterOS command and the code up to the next *)
(* one.  A command can be lost before or after the RDS has executed it.    *)
(* The handlers take no lock and ignore the deadline of the call: a call   *)
(* whose caller has given up goes on beside the call that replaces it.     *)
(* The RDS and the Kubernetes side are external.                           *)
(***************************************************************************)
EXTENDS Integers, FiniteSets, FiniteSetsExt

CONSTANTS
  Volumes,    \* volume IDs
  Snaps,      \* snapshot IDs
  Threads,    \* handlers that can run at a time
  Orphan,     \* the orphan reconciler's goroutine
  VolumeOf,   \* the volume each snapshot is taken of
  SizeOf,     \* volume -> size its claim asks for
  ExpandTo,   \* sizes a bound claim can be expanded to
  Units,      \* unit sizes of formatBytes, in the model's bytes
  MinSize,    \* minVolumeSizeBytes
  MaxRetries, \* attempts of runCommandWithRetry
  PrintsSource, \* "/disk print" shows source-volume (the mock server's does)
  MaxLosses,  \* bound: lost commands, full disks, given-up calls, crashes
  None

Slots == Volumes \cup Snaps
Procs == Threads \cup {Orphan}

ASSUME RdsAssumption ==
  /\ MinSize \in Units /\ Units \subseteq Nat \ {0}
  /\ MaxRetries \in Nat \ {0} /\ MaxLosses \in Nat /\ PrintsSource \in BOOLEAN
  /\ VolumeOf \in [Snaps -> Volumes] /\ SizeOf \in [Volumes -> Nat] /\ ExpandTo \subseteq Nat
  /\ Volumes \cap Snaps = {} /\ Orphan \notin Threads /\ None \notin Slots \cup Nat

VARIABLES
  disk,      \* /disk entries: size of each slot, None if there is no entry
  file,      \* slots whose backing file exists
  call,      \* the call each process is running
  pv,        \* phase of each volume in Kubernetes
  source,    \* the snapshot its claim is to be made from, or None
  cap,       \* capacity its PV records
  vsc,       \* phase of each snapshot in Kubernetes
  late,      \* slots that a call was given up for
  losses     \* faults so far

rdsVars == <<disk, file>>
kubeVars == <<pv, source, cap, vsc>>
controllerVars == <<rdsVars, call, kubeVars, late, losses>>

Call(op, id, size) ==
  [op |-> op, id |-> id, size |-> size, stage |-> "get", tries |-> 0, live |-> TRUE]
Idle == [op |-> "none", id |-> None, size |-> 0, stage |-> "idle", tries |-> 0, live |-> FALSE]

CallRecord ==
  [op : {"none", "create", "delete", "expand", "snapshot", "delsnap", "orphan"},
   id : Slots \cup {None}, size : Nat,
   stage : {"idle", "get", "restore_get", "restore_get2", "source_get", "source_get2", "add",
            "verify", "rm_get", "rm_disk", "rm_file", "resize_get", "set"},
   tries : 0 .. MaxRetries - 1, live : BOOLEAN]

TypeOK ==
  /\ disk \in [Slots -> Nat \cup {None}] /\ file \subseteq Slots
  /\ call \in [Procs -> CallRecord]
  /\ pv \in [Volumes -> {"wanted", "bound", "released", "gone", "abandoned"}]
  /\ cap \in [Volumes -> Nat] /\ source \in [Volumes -> Snaps \cup {None}]
  /\ vsc \in [Snaps -> {"wanted", "ready", "released", "gone"}]
  /\ late \subseteq Slots /\ losses \in 0 .. MaxLosses

(* Some snapshots exist already, and the claims are to be made from them.  *)
ControllerInit ==
  \E existing \in SUBSET Snaps :
    /\ disk = [s \in Slots |-> IF s \in existing THEN MinSize ELSE None]
    /\ file = existing
    /\ call = [p \in Procs |-> Idle]
    /\ pv = [v \in Volumes |-> "wanted"] /\ cap = [v \in Volumes |-> 0]
    /\ source \in [Volumes -> IF existing = {} THEN {None} ELSE existing]
    /\ vsc = [s \in Snaps |-> IF s \in existing THEN "ready" ELSE "wanted"]
    /\ late = {} /\ losses = 0

-----------------------------------------------------------------------------
(* formatBytes: the number of whole units of the largest unit that fits.   *)
(* parseSize reads such a number back exactly.                             *)
FormatBytes(bytes) ==
  LET fitting == {u \in Units : u <= bytes}
  IN IF fitting = {} THEN bytes ELSE (bytes \div Max(fitting)) * Max(fitting)

(* CreateVolume raises the request to minVolumeSizeBytes.                  *)
RequiredBytes(v) == Max({SizeOf[v], MinSize})

(* A request that formatBytes does not round.                              *)
Whole(bytes) == FormatBytes(bytes) = bytes

-----------------------------------------------------------------------------
(* The transport: a command Arrives and its answer comes back, or there is *)
(* a Fault, which is counted.                                              *)
Arrives == UNCHANGED losses
Fault == losses < MaxLosses /\ losses' = losses + 1

(* The handler p of call c goes on to another command.                     *)
Goto(p, c, stage) ==
  /\ call' = [call EXCEPT ![p] = [c EXCEPT !.stage = stage, !.tries = 0]]
  /\ UNCHANGED kubeVars

(* The handler returns.  The caller, if it still waits, acts on the answer:*)
(* the provisioner saves the PV or removes it, the resizer records the new *)
(* capacity, the snapshotter marks the content ready or removes it.        *)
Answer(p, c, ok, size) ==
  LET acts == ok /\ c.live
  IN /\ call' = [call EXCEPT ![p] = Idle]
     /\ pv' = [v \in Volumes |->
                 CASE acts /\ v = c.id /\ c.op = "create" -> "bound"
                   [] acts /\ v = c.id /\ c.op = "delete" -> "gone"
                   [] OTHER -> pv[v]]
     /\ cap' = [v \in Volumes |->
                  IF acts /\ v = c.id /\ c.op \in {"create", "expand"} THEN size ELSE cap[v]]
     /\ vsc' = [s \in Snaps |->
                  CASE acts /\ s = c.id /\ c.op = "snapshot" -> "ready"
                    [] acts /\ s = c.id /\ c.op = "delsnap" -> "gone"
                    [] OTHER -> vsc[s]]
     /\ UNCHANGED source

Succeed(p, c, size) == Answer(p, c, TRUE, size)
Fail(p, c) == Answer(p, c, FALSE, 0)

RetryOnceMore(p) ==   \* mutant: attempt <= maxRetries
  LET c == call[p]
  IN \/ /\ c.tries < MaxRetries
        /\ call' = [call EXCEPT ![p].tries = @ + 1]
        /\ UNCHANGED kubeVars
     \/ c.tries >= MaxRetries /\ Fail(p, c)

RetryDetached(p) ==   \* mutant: the caller has its error while the attempts go on
  /\ call' = [call EXCEPT ![p].live = FALSE]
  /\ UNCHANGED kubeVars

(* runCommandWithRetry after a retryable error: another attempt, or the    *)
(* error once the attempts are used up.                                    *)
Retry(p) ==
  LET c == call[p]
  IN \/ /\ c.tries + 1 < MaxRetries
        /\ call' = [call EXCEPT ![p].tries = @ + 1]
        /\ UNCHANGED kubeVars
     \/ c.tries + 1 >= MaxRetries /\ Fail(p, c)

(* A query (GetVolume, GetSnapshot; tried once): the entry is Found,       *)
(* Missing, or the query Failed.                                           *)
Query(slot, Found, Missing, Failed) ==
  /\ \/ Arrives /\ disk[slot] # None /\ Found
     \/ Arrives /\ disk[slot] = None /\ Missing
     \/ Fault /\ Failed
  /\ UNCHANGED <<rdsVars, late>>

-----------------------------------------------------------------------------
(* The sidecars make one call per volume or snapshot at a time.  Which     *)
(* idle thread takes it makes no difference.                               *)
MayCall(t, id) ==
  /\ call[t] = Idle
  /\ t = CHOOSE u \in Threads : call[u] = Idle
  /\ ~\E u \in Threads : call[u].live /\ call[u].id = id

CreateNeedsAnswer(t, v) ==   \* mutant: every error of the query, "not found" too, is returned
  LET c == Call("create", v, RequiredBytes(v))
      Compare == Answer(t, c, disk[v] = c.size, disk[v])
  IN /\ MayCall(t, v) /\ pv[v] = "wanted"
     /\ source[v] # None => vsc[source[v]] = "ready"
     /\ Query(v, Compare, Fail(t, c), Fail(t, c))

(* ControllerServer.CreateVolume up to its existence check.  An error of   *)
(* the query is taken for "does not exist".                                *)
CreateVolume(t, v) ==
  LET c == Call("create", v, RequiredBytes(v))
      Compare == Answer(t, c, disk[v] = c.size, disk[v])
      Proceed == Goto(t, c, IF source[v] = None THEN "add" ELSE "restore_get")
  IN /\ MayCall(t, v) /\ pv[v] = "wanted"
     /\ source[v] # None => vsc[source[v]] = "ready"
     /\ Query(v, Compare, Proceed, Proceed)

(* createVolumeFromSnapshot: the snapshot must exist; the volume becomes   *)
(* at least as large.                                                      *)
RestoreGet(t) ==
  LET c == call[t]
      Resize == Goto(t, [c EXCEPT !.size = Max({@, disk[source[c.id]]})], "restore_get2")
  IN /\ c.stage = "restore_get"
     /\ Query(source[c.id], Resize, Fail(t, c), Fail(t, c))

(* RestoreSnapshot looks for it once more.                                 *)
RestoreGet2(t) ==
  LET c == call[t]
      Proceed == Goto(t, c, "add")
  IN /\ c.stage = "restore_get2"
     /\ Query(source[c.id], Proceed, Fail(t, c), Fail(t, c))

(* CreateVolume, RestoreSnapshot and CreateSnapshot of the client: "/disk  *)
(* add", with copy-from if there is a source.  The RDS makes the entry and *)
(* its file, or refuses: the slot is taken (an error that is retried), the *)
(* source is missing or the disk is full (errors that are not).            *)
Add(t) ==
  LET c == call[t]
      from == IF c.op = "snapshot" THEN VolumeOf[c.id] ELSE source[c.id]
      taken == disk[c.id] # None
      missing == from # None /\ disk[from] = None
      size == IF c.op = "snapshot" THEN disk[from] ELSE FormatBytes(c.size)
      Execute == /\ ~taken /\ ~missing
                 /\ disk' = [disk EXCEPT ![c.id] = size]
                 /\ file' = file \cup {c.id}
  IN /\ c.stage = "add"
     /\ \/ Arrives /\ Execute /\ Goto(t, c, "verify")
        \/ Arrives /\ taken /\ Retry(t) /\ UNCHANGED rdsVars
        \/ Arrives /\ ~taken /\ missing /\ Fail(t, c) /\ UNCHANGED rdsVars
        \/ Fault /\ Fail(t, c) /\ UNCHANGED rdsVars        \* not enough space
        \/ Fault /\ Retry(t) /\ UNCHANGED rdsVars          \* the request is lost
        \/ Fault /\ Execute /\ Retry(t)                    \* the reply is lost
     /\ UNCHANGED late

(* VerifyVolumeExists, or GetSnapshot for a snapshot.                      *)
Verify(t) ==
  LET c == call[t]
  IN /\ c.stage = "verify"
     /\ Query(c.id, Succeed(t, c, c.size), Fail(t, c), Fail(t, c))

(* ControllerServer.DeleteVolume: the volume must exist, else it is done.  *)
DeleteVolume(t, v) ==
  LET c == Call("delete", v, 0)
  IN /\ MayCall(t, v) /\ pv[v] = "released"
     /\ Query(v, Goto(t, c, "rm_get"), Succeed(t, c, 0), Fail(t, c))

(* DeleteVolume of the client, for a handler or the orphan reconciler, and *)
(* DeleteSnapshot of the client: find the entry, ...                       *)
RemoveGet(p, c) == Query(c.id, Goto(p, c, "rm_disk"), Succeed(p, c, 0), Fail(p, c))

(* ... remove it ("no such item" is fine), with retries, ...               *)
RemoveDisk(p) ==
  LET c == call[p]
      Execute == disk' = [disk EXCEPT ![c.id] = None] /\ UNCHANGED file
  IN /\ c.stage = "rm_disk"
     /\ \/ Arrives /\ Execute /\ Goto(p, c, "rm_file")
        \/ Fault /\ Retry(p) /\ UNCHANGED rdsVars
        \/ Fault /\ Execute /\ Retry(p)
     /\ UNCHANGED late

(* ... and delete the file, once (DeleteFile); an error is only logged.    *)
RemoveFile(p) ==
  LET c == call[p]
      Execute == file' = file \ {c.id}
  IN /\ c.stage = "rm_file"
     /\ \/ Arrives /\ Execute
        \/ Fault /\ (Execute \/ UNCHANGED file)
     /\ Succeed(p, c, 0)
     /\ UNCHANGED <<disk, late>>

(* ControllerServer.DeleteSnapshot leaves the check to the client.         *)
DeleteSnapshot(t, s) ==
  /\ MayCall(t, s) /\ vsc[s] = "released"
  /\ RemoveGet(t, Call("delsnap", s, 0))

(* ControllerExpandVolume and ResizeVolume: two looks at the size, "/disk  *)
(* set", and a check that the entry is still there.                        *)
ControllerExpandVolume(t, v, bytes) ==
  LET c == Call("expand", v, bytes)
      Compare == \/ disk[v] >= bytes /\ Succeed(t, c, disk[v])
                 \/ disk[v] < bytes /\ Goto(t, c, "resize_get")
  IN /\ MayCall(t, v) /\ pv[v] = "bound" /\ bytes > cap[v]
     /\ Query(v, Compare, Fail(t, c), Fail(t, c))

ResizeGet(t) ==
  LET c == call[t]
      Compare == \/ c.size < disk[c.id] /\ Fail(t, c)
                 \/ c.size = disk[c.id] /\ Succeed(t, c, c.size)
                 \/ c.size > disk[c.id] /\ Goto(t, c, "set")
  IN /\ c.stage = "resize_get"
     /\ Query(c.id, Compare, Fail(t, c), Fail(t, c))

SetUnchecked(t) ==   \* mutant: the error of "/disk set" is dropped
  LET c == call[t]
      Execute == disk[c.id] # None /\ disk' = [disk EXCEPT ![c.id] = FormatBytes(c.size)]
  IN /\ c.stage = "set"
     /\ (Arrives /\ Execute) \/ (Fault /\ UNCHANGED disk)
     /\ Goto(t, c, "verify")
     /\ UNCHANGED <<file, late>>

Set(t) ==
  LET c == call[t]
      Execute == /\ disk[c.id] # None
                 /\ disk' = [disk EXCEPT ![c.id] = FormatBytes(c.size)]
                 /\ UNCHANGED file
  IN /\ c.stage = "set"
     /\ \/ Arrives /\ Execute /\ Goto(t, c, "verify")
        \/ Arrives /\ disk[c.id] = None /\ Fail(t, c) /\ UNCHANGED rdsVars
        \/ Fault /\ Fail(t, c) /\ UNCHANGED rdsVars        \* not enough space
        \/ Fault /\ Retry(t) /\ UNCHANGED rdsVars
        \/ Fault /\ Execute /\ Retry(t)
     /\ UNCHANGED late

(* ControllerServer.CreateSnapshot: a snapshot of that ID may exist.  It   *)
(* is the one asked for if the RDS prints the source it was made from.     *)
CreateSnapshot(t, s) ==
  LET c == Call("snapshot", s, 0)
      Exists == Answer(t, c, PrintsSource, disk[s])
      Proceed == Goto(t, c, "source_get")
  IN /\ MayCall(t, s) /\ vsc[s] = "wanted" /\ pv[VolumeOf[s]] = "bound"
     /\ Query(s, Exists, Proceed, Proceed)

(* Both the handler and the client look for the source.                    *)
SourceGet(t) ==
  LET c == call[t]
      Proceed == Goto(t, c, IF c.stage = "source_get" THEN "source_get2" ELSE "add")
  IN /\ c.stage \in {"source_get", "source_get2"}
     /\ Query(VolumeOf[c.id], Proceed, Fail(t, c), Fail(t, c))

Step(t) ==
  \/ RestoreGet(t) \/ RestoreGet2(t) \/ Add(t) \/ Verify(t)
  \/ call[t].stage = "rm_get" /\ RemoveGet(t, call[t])
  \/ RemoveDisk(t) \/ RemoveFile(t)
  \/ ResizeGet(t) \/ Set(t) \/ SourceGet(t)

-----------------------------------------------------------------------------
(* Users release what they have, or give up a claim.                       *)
ReleaseVolume(v) ==
  /\ \/ pv[v] = "bound" /\ pv' = [pv EXCEPT ![v] = "released"]
     \/ pv[v] = "wanted" /\ pv' = [pv EXCEPT ![v] = "abandoned"]
  /\ ~\E t \in Threads : call[t].live /\ call[t].id = v
  /\ UNCHANGED <<rdsVars, call, source, cap, vsc, late, losses>>

ReleaseSnapshot(s) ==
  /\ vsc[s] = "ready" /\ vsc' = [vsc EXCEPT ![s] = "released"]
  /\ UNCHANGED <<rdsVars, call, pv, source, cap, late, losses>>

(* A caller gives up at its deadline; the handler does not notice.         *)
GiveUp(t) ==
  /\ call[t].live /\ Fault
  /\ call' = [call EXCEPT ![t].live = FALSE]
  /\ late' = late \cup {call[t].id}
  /\ UNCHANGED <<rdsVars, kubeVars>>

(* The controller crashes: what it was doing is gone.                      *)
Crash ==
  /\ Fault
  /\ call' = [p \in Procs |-> Idle]
  /\ UNCHANGED <<rdsVars, kubeVars, late>>

Calls ==
  \/ \E t \in Threads, v \in Volumes :
       \/ CreateVolume(t, v) \/ DeleteVolume(t, v)
       \/ \E n \in ExpandTo : ControllerExpandVolume(t, v, n)
  \/ \E t \in Threads, s \in Snaps : CreateSnapshot(t, s) \/ DeleteSnapshot(t, s)
  \/ \E t \in Threads : Step(t) \/ GiveUp(t)
  \/ \E s \in Snaps : ReleaseSnapshot(s)
=============================================================================
