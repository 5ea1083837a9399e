----------------------------- MODULE NodeVolumes -----------------------------
(***************************************************************************)
(* The node service (pkg/driver/node.go) with its mounts (pkg/mount), its  *)
(* NVMe connections (NvmeConnector) and its per-volume circuit breakers    *)
(* (pkg/circuitbreaker).                                                   *)
(*                                                                         *)
(* A step of a handler is one command (nvme, findmnt, blkid, fsck, mkfs,   *)
(* mount, umount, lsof) and the code up to the next one.  The kubelet      *)
(* (external) has one call per volume at a time, but one that it has given *)
(* up goes on in the plugin.  Each volume has one pod at a time, and that  *)
(* pod one target path.                                                    *)
(***************************************************************************)
EXTENDS NvmeConnector, Sequences

CONSTANTS
  Block,         \* the volumes used as block devices; the others have a filesystem
  ConnectTries,  \* attempts of ConnectWithRetry
  FormatTries,   \* isFormattedMaxRetries
  RecoveryTries, \* RecoveryConfig.MaxAttempts
  Storm,         \* MaxDuplicateMountsPerDevice
  Trip,          \* DefaultConsecutiveFailures
  MaxFaults      \* bound: failing commands, lost links, given-up calls, restarts

ASSUME NodeAssumption ==
  /\ Block \subseteq Volumes
  /\ {ConnectTries, FormatTries, RecoveryTries, Storm, Trip} \subseteq Nat \ {0}
  /\ MaxFaults \in Nat

VARIABLES
  staging,   \* devices mounted at each staging path, the last on top
  target,    \* the same for the target path, or the number of a device node
  content,   \* what is on each volume: "blank", "fs" or "data"
  breaker,   \* each breaker: its state, failures counted, requests it will count
  call,      \* the calls: the current one of each volume and one given up
  pod,       \* what the kubelet is to do for each volume
  faults,    \* faults so far
  history,   \* <<volume, what befell it>>
  wrong,     \* volumes that another volume's device was taken for
  erased     \* volumes whose data a format or a removal destroyed

mountVars == <<staging, target>>
ghostVars == <<history, wrong, erased>>
vars == <<nvmeVars, mountVars, content, breaker, call, pod, faults, ghostVars>>

Procs == Volumes \X {"current", "late"}
Vol(p) == p[1]

Idle == [op |-> "none", at |-> "none", dev |-> None, tries |-> 0]

Closed == [state |-> "closed", failures |-> 0, admitted |-> {}]
Phases == {"out", "stage", "publish", "running", "unpublish", "unstage"}
Places == {"none", "list", "orphan_check", "renew", "connect", "wait", "give_up_wait", "execute",
           "blkid", "fsck", "format", "mkfs", "mount", "cleanup", "publish", "stale",
           "force_unmount", "remount", "bind", "unpublish", "unstage", "umount", "find_mounts",
           "find_device", "in_use", "in_use_block", "disconnect"}
Sources == Devices \cup {None}

CallRecord == [op : Phases \cup {"none"}, at : Places, dev : Sources, tries : Nat]
BreakerRecord == [state : {"closed", "open", "half"}, failures : 0 .. Trip - 1,
                  admitted : SUBSET {"current", "late"}]

TypeOK ==
  /\ NvmeTypeOK
  /\ staging \in [Volumes -> Seq(Sources)] /\ target \in [Volumes -> Seq(Sources)]
  /\ content \in [Volumes -> {"blank", "fs", "data"}]
  /\ breaker \in [Volumes -> BreakerRecord]
  /\ call \in [Procs -> CallRecord]
  /\ pod \in [Volumes -> Phases]
  /\ faults \in 0 .. MaxFaults
  /\ history \subseteq Volumes \X {"late", "raced", "findmnt"}
  /\ wrong \subseteq Volumes /\ erased \subseteq Volumes

Init ==
  /\ NvmeInit
  /\ staging = [v \in Volumes |-> << >>] /\ target = [v \in Volumes |-> << >>]
  /\ content = [v \in Volumes |-> "blank"]
  /\ breaker = [v \in Volumes |-> Closed]
  /\ call = [p \in Procs |-> Idle]
  /\ pod = [v \in Volumes |-> "out"]
  /\ faults = 0 /\ history = {} /\ wrong = {} /\ erased = {}

-----------------------------------------------------------------------------
(* What is on top of a path, and what an unmount leaves there.             *)
Top(path) == path[Len(path)]
Below(path) == SubSeq(path, 1, Len(path) - 1)

(* The numbers that a mount or an open device node holds.                  *)
Held ==
  UNION {Range(staging[v]) \cup (IF v \notin Block \/ pod[v] = "running"
                                 THEN Range(target[v]) ELSE {}) : v \in Volumes}

Works == UNCHANGED faults
Fault == faults < MaxFaults /\ faults' = faults + 1

(* What is done to device d is done for volume v.                          *)
Touch(v, d) ==
  wrong' = IF d \in Present /\ OwnerOf(d) # v THEN wrong \cup {v} ELSE wrong

Goto(p, c, at) ==
  /\ call' = [call EXCEPT ![p] = [c EXCEPT !.at = at]]
  /\ UNCHANGED pod

(* A given-up call has its context cancelled: it retries nothing, and the  *)
(* commands that take the context fail.                                    *)
Late(p) == p[2] = "late"

NextPhase == [stage |-> "publish", publish |-> "running",
              unpublish |-> "unstage", unstage |-> "out"]

(* The handler returns; the kubelet goes on if the answer is OK and it     *)
(* still waits for it.                                                     *)
Return(p, c, ok) ==
  /\ call' = [call EXCEPT ![p] = Idle]
  /\ pod' = IF ok /\ ~Late(p) THEN [pod EXCEPT ![Vol(p)] = NextPhase[c.op]] ELSE pod

MayRetry(p, c, limit) == ~Late(p) /\ c.tries + 1 < limit

Again(p, c, limit, at) ==
  \/ MayRetry(p, c, limit) /\ Goto(p, [c EXCEPT !.tries = @ + 1], at)
  \/ ~MayRetry(p, c, limit) /\ Return(p, c, FALSE)

MayCall(v, op) == pod[v] = op /\ call[<<v, "current">>] = Idle
Frame(op) == [Idle EXCEPT !.op = op]
Starts(v, op, at) ==
  /\ MayCall(v, op)
  /\ Goto(<<v, "current">>, Frame(op), at)
  /\ UNCHANGED <<nvmeVars, mountVars, content, breaker, faults, ghostVars>>

-----------------------------------------------------------------------------
(* NodeStageVolume: ConnectWithConfig lists the subsystems.  A failing     *)
(* list reads as "not connected".                                          *)
NodeStageVolume(v) == Starts(v, "stage", "list")

List(p) ==
  LET c == call[p]
  IN /\ c.at = "list"
     /\ \/ Works /\ Goto(p, c, IF IsConnected(Vol(p)) THEN "orphan_check" ELSE "connect")
        \/ Fault /\ Goto(p, c, "connect")
     /\ UNCHANGED <<nvmeVars, mountVars, content, breaker, ghostVars>>

(* Where a stage goes once it has its device path: a block volume is done. *)
GotDevice(p, c, d) ==
  IF Vol(p) \in Block THEN Return(p, c, TRUE)
  ELSE Goto(p, [c EXCEPT !.dev = d, !.tries = 0], "execute")

OrphanMissed(p) ==   \* mutant: a connection without a device is kept
  LET c == call[p]
      v == Vol(p)
      d == ResolveDevicePath(v)
  IN /\ c.at = "orphan_check" /\ Works
     /\ Resolve(v)
     /\ IF d = None THEN Return(p, c, FALSE) ELSE GotDevice(p, c, d)
     /\ UNCHANGED <<conn, mountVars, content, breaker, ghostVars>>

(* A connection without a device is renewed, else its device is used.      *)
OrphanCheck(p) ==
  LET c == call[p]
      v == Vol(p)
      d == ResolveDevicePath(v)
  IN /\ c.at = "orphan_check"
     /\ \/ /\ Works /\ IsOrphanedSubsystem(v)
           /\ Invalidate(v) /\ Goto(p, c, "renew")
        \/ /\ (Works /\ ~IsOrphanedSubsystem(v)) \/ Fault
           /\ Resolve(v)
           /\ IF d = None THEN Return(p, c, FALSE) ELSE GotDevice(p, c, d)
     /\ UNCHANGED <<conn, mountVars, content, breaker, ghostVars>>

(* DisconnectWithContext, the list before the command included: a volume   *)
(* that is not connected, or seems not to be, is left alone; a failing     *)
(* command leaves the cache alone.                                         *)
DisconnectStep(v) ==
  \/ Works /\ IsConnected(v) /\ Disconnect(v)
  \/ Works /\ ~IsConnected(v) /\ UNCHANGED nvmeVars
  \/ Fault /\ UNCHANGED nvmeVars

Renew(p) ==
  /\ call[p].at = "renew"
  /\ DisconnectStep(Vol(p))
  /\ Goto(p, call[p], "connect")
  /\ UNCHANGED <<mountVars, content, breaker, ghostVars>>

(* "nvme connect": it fails at once if there is a connection.  Among the   *)
(* faults, a refused connection is retried, and a reply can be lost.       *)
ConnectCmd(p) ==
  LET c == call[p]
      v == Vol(p)
      Execute == ~IsConnected(v) /\ Connect(v, Held)
  IN /\ c.at = "connect"
     /\ \/ Works /\ Execute /\ Goto(p, c, "wait")
        \/ Works /\ IsConnected(v) /\ Return(p, c, FALSE) /\ UNCHANGED conn
        \/ Fault /\ (Execute \/ UNCHANGED conn) /\ Return(p, c, FALSE)
        \/ Fault /\ Again(p, c, ConnectTries, "list") /\ UNCHANGED conn
        \/ /\ Fault /\ ~IsConnected(v)
           /\ conn' = [conn EXCEPT ![v] = Orphaned] /\ Goto(p, c, "wait")
     /\ UNCHANGED <<cache, mountVars, content, breaker, ghostVars>>

(* waitForDeviceWithContext: the device is there, or time runs out.        *)
WaitForDevice(p) ==
  LET c == call[p]
      d == ResolveDevicePath(Vol(p))
  IN /\ c.at = "wait"
     /\ Resolve(Vol(p))
     /\ \/ d # None /\ GotDevice(p, c, d)
        \/ (d = None \/ Late(p)) /\ Goto(p, c, "give_up_wait")
     /\ UNCHANGED <<conn, mountVars, content, breaker, faults, ghostVars>>

(* "device did not appear" is retried if the call has time left.           *)
GiveUpWait(p) ==
  LET c == call[p]
  IN /\ c.at = "give_up_wait"
     /\ DisconnectStep(Vol(p))
     /\ Again(p, c, ConnectTries, "list") \/ Return(p, c, FALSE)
     /\ UNCHANGED <<mountVars, content, breaker, ghostVars>>

-----------------------------------------------------------------------------
(* The breaker (gobreaker, external): Trip failures in a row open it, a    *)
(* timeout later one request may try.  The result of a request counts      *)
(* unless the breaker changed its state or cleared its counts since it was *)
(* admitted.                                                               *)
Open == [Closed EXCEPT !.state = "open"]
Half == [Closed EXCEPT !.state = "half"]

Counted(b, role) == [b EXCEPT !.admitted = @ \ {role}]
AfterSuccess(b, role) == IF b.state = "half" THEN Closed ELSE [Counted(b, role) EXCEPT !.failures = 0]
AfterFailureLate(b, role) ==   \* mutant: ConsecutiveFailures > limit
  IF b.state = "half" \/ b.failures >= Trip THEN Open
  ELSE [Counted(b, role) EXCEPT !.failures = @ + 1]

AfterFailure(b, role) ==
  IF b.state = "half" \/ b.failures + 1 >= Trip THEN Open
  ELSE [Counted(b, role) EXCEPT !.failures = @ + 1]

AfterRequest(p, counted) ==
  breaker' = [breaker EXCEPT ![Vol(p)] = IF p[2] \in @.admitted THEN counted ELSE @]

StageFails(p, c) == AfterRequest(p, AfterFailure(breaker[Vol(p)], p[2])) /\ Goto(p, c, "cleanup")

(* circuitBreaker.Execute: refused, or the filesystem is prepared.         *)
Admits(v) ==
  \/ breaker[v].state = "closed"
  \/ breaker[v].state = "half" /\ breaker[v].admitted = {}

Execute(p) ==
  LET c == call[p]
      v == Vol(p)
  IN /\ c.at = "execute"
     /\ \/ ~Admits(v) /\ Goto(p, c, "cleanup") /\ UNCHANGED breaker
        \/ /\ Admits(v) /\ Goto(p, c, "blkid")
           /\ breaker' = [breaker EXCEPT ![v].admitted = @ \cup {p[2]}]
     /\ UNCHANGED <<nvmeVars, mountVars, content, faults, ghostVars>>

(* IsFormatted.  blkid cannot read a device that is not there.             *)
Blkid(p, c, Formatted, Unformatted, Unknown) ==
  \/ Works /\ c.dev \in Present /\ content[OwnerOf(c.dev)] # "blank" /\ Formatted
  \/ Works /\ c.dev \in Present /\ content[OwnerOf(c.dev)] = "blank" /\ Unformatted
  \/ (Fault \/ (Works /\ c.dev \notin Present)) /\ Unknown

IsFormatted(p) ==
  LET c == call[p]
      Known(at) == Goto(p, [c EXCEPT !.tries = 0], at) /\ UNCHANGED breaker
      Unknown == IF MayRetry(p, c, FormatTries)
                 THEN Goto(p, [c EXCEPT !.tries = @ + 1], "blkid") /\ UNCHANGED breaker
                 ELSE StageFails(p, [c EXCEPT !.tries = 0])
  IN /\ c.at = "blkid"
     /\ Blkid(p, c, Known("fsck"), Known("format"), Unknown)
     /\ UNCHANGED <<nvmeVars, mountVars, content, ghostVars>>

(* CheckFilesystemHealth: a check of a mounted filesystem can find errors  *)
(* that are none.  A missing device is not an error.                       *)
CheckFilesystemHealth(p) ==
  LET c == call[p]
  IN /\ c.at = "fsck"
     /\ \/ Works /\ Goto(p, c, "format") /\ UNCHANGED breaker
        \/ /\ Fault \/ (Works /\ (Late(p) \/ c.dev \in Present \cap Held))
           /\ StageFails(p, c)
     /\ UNCHANGED <<nvmeVars, mountVars, content, ghostVars>>

FormatOnError(p) ==   \* mutant: an error of blkid reads as "not formatted"
  LET c == call[p]
      Known(at) == Goto(p, c, at) /\ UNCHANGED breaker
  IN /\ c.at = "format"
     /\ Blkid(p, c, Known("mount"), Known("mkfs"), Known("mkfs"))
     /\ UNCHANGED <<nvmeVars, mountVars, content, ghostVars>>

(* Format looks again ...                                                  *)
Format(p) ==
  LET c == call[p]
      Known(at) == Goto(p, c, at) /\ UNCHANGED breaker
  IN /\ c.at = "format"
     /\ Blkid(p, c, Known("mount"), Known("mkfs"), StageFails(p, c))
     /\ UNCHANGED <<nvmeVars, mountVars, content, ghostVars>>

(* ... and makes a filesystem.  mkfs refuses a mounted device.             *)
Mkfs(p) ==
  LET c == call[p]
      w == OwnerOf(c.dev)
      able == c.dev \in Present /\ c.dev \notin Held
  IN /\ c.at = "mkfs"
     /\ \/ /\ Works /\ able
           /\ content' = [content EXCEPT ![w] = "fs"]
           /\ erased' = IF w \in Block \/ content[w] = "data" THEN erased \cup {w} ELSE erased
           /\ Touch(Vol(p), c.dev)
           /\ Goto(p, c, "mount") /\ UNCHANGED breaker
        \/ /\ Fault \/ (Works /\ ~able)
           /\ StageFails(p, c) /\ UNCHANGED <<content, wrong, erased>>
     /\ UNCHANGED <<nvmeVars, mountVars, history>>

(* DetectDuplicateMounts: the mounts that have the device as their source. *)
MountsOf(d) ==
  LET Count(s) == Cardinality({i \in DOMAIN s : s[i] = d})
  IN MapThenSumSet(LAMBDA v : Count(staging[v]) + (IF v \in Block THEN 0 ELSE Count(target[v])),
                   Volumes)

(* Mount of a device at the staging path.  The kernel refuses a device     *)
(* that is already on top there.                                           *)
Mountable(v, d) ==
  /\ MountsOf(d) < Storm /\ d \in Present
  /\ staging[v] # << >> => Top(staging[v]) # d

Mount(p) ==
  LET c == call[p]
      v == Vol(p)
      able == Mountable(v, c.dev) /\ content[OwnerOf(c.dev)] # "blank"
  IN /\ c.at = "mount"
     /\ \/ /\ Works /\ able
           /\ staging' = [staging EXCEPT ![v] = Append(@, c.dev)]
           /\ Touch(v, c.dev)
           /\ AfterRequest(p, AfterSuccess(breaker[Vol(p)], p[2])) /\ Return(p, c, TRUE)
        \/ (Fault \/ (Works /\ ~able)) /\ StageFails(p, c) /\ UNCHANGED <<staging, wrong>>
     /\ UNCHANGED <<nvmeVars, target, content, history, erased>>

(* A failed stage ends with Disconnect, whoever uses the connection.       *)
Cleanup(p) ==
  /\ call[p].at = "cleanup"
  /\ DisconnectStep(Vol(p))
  /\ Return(p, call[p], FALSE)
  /\ UNCHANGED <<mountVars, content, breaker, ghostVars>>

-----------------------------------------------------------------------------
(* IsLikelyMountPoint: a failing findmnt reads as "not mounted".           *)
Findmnt(p, path, Mounted, NotMounted) ==
  \/ Works /\ path # << >> /\ Mounted /\ UNCHANGED history
  \/ Works /\ path = << >> /\ NotMounted /\ UNCHANGED history
  \/ Fault /\ NotMounted /\ history' = history \cup {<<Vol(p), "findmnt">>}

(* NodePublishVolume of a block volume makes a device node, unless there   *)
(* is one.                                                                 *)
PublishBlock(p) ==
  LET v == Vol(p)
      d == ResolveDevicePath(v)
  IN /\ call[p].at = "publish" /\ v \in Block
     /\ Resolve(v)
     /\ \/ Works /\ d = None /\ Return(p, call[p], FALSE) /\ UNCHANGED <<target, wrong>>
        \/ /\ Works /\ d # None /\ Return(p, call[p], TRUE)
           /\ target' = [target EXCEPT ![v] = IF @ = << >> THEN <<d>> ELSE @]
           /\ Touch(v, target'[v][1])
        \/ Fault /\ Return(p, call[p], FALSE) /\ UNCHANGED <<target, wrong>>
     /\ UNCHANGED <<conn, staging, content, breaker, history, erased>>

(* That of a filesystem looks for the mount at the staging path ...        *)
PublishCheck(p) ==
  LET c == call[p]
  IN /\ c.at = "publish" /\ Vol(p) \notin Block
     /\ Findmnt(p, staging[Vol(p)], Goto(p, c, "stale"), Return(p, c, FALSE))
     /\ UNCHANGED <<nvmeVars, mountVars, content, breaker, wrong, erased>>

(* ... and for a stale one (GetStaleInfo): the path is no mount any more,  *)
(* or the source of its first mount does not exist or is not the volume's  *)
(* device.                                                                 *)
MountDevice(path) == IF path = << >> THEN None ELSE path[1]

IsStaleByName(v, path) ==   \* mutant: a missing device is not noticed
  ResolveDevicePath(v) # None /\ MountDevice(path) # ResolveDevicePath(v)

IsStale(v, path) ==
  \/ MountDevice(path) \notin Present
  \/ ResolveDevicePath(v) # None /\ MountDevice(path) # ResolveDevicePath(v)

LooksUp(v, path) == IF MountDevice(path) \in Present THEN Resolve(v) ELSE UNCHANGED cache

(* checkAndRecoverMount                                                    *)
StaleCheck(p) ==
  LET c == call[p]
      v == Vol(p)
  IN /\ c.at = "stale"
     /\ LooksUp(v, staging[v])
     /\ Goto(p, c, IF IsStale(v, staging[v]) THEN "force_unmount" ELSE "bind")
     /\ UNCHANGED <<conn, mountVars, content, breaker, faults, ghostVars>>

(* Recover: ForceUnmount (no process has files open under a staging path,  *)
(* so that it escalates to a lazy unmount) ...                             *)
ForceUnmount(p) ==
  LET c == call[p]
      v == Vol(p)
  IN /\ c.at = "force_unmount"
     /\ \/ /\ Works /\ staging' = [staging EXCEPT ![v] = IF @ = << >> THEN @ ELSE Below(@)]
           /\ Goto(p, c, "remount")
        \/ Fault /\ Again(p, c, RecoveryTries, "force_unmount") /\ UNCHANGED staging
     /\ UNCHANGED <<nvmeVars, target, content, breaker, ghostVars>>

(* ... and a mount of the device that the NQN resolves to.                 *)
Remount(p) ==
  LET c == call[p]
      v == Vol(p)
      d == ResolveDevicePath(v)
      able == d # None /\ Mountable(v, d)
  IN /\ c.at = "remount"
     /\ Resolve(v)
     /\ \/ /\ Works /\ able
           /\ staging' = [staging EXCEPT ![v] = Append(@, d)]
           /\ Touch(v, d) /\ Goto(p, c, "bind")
        \/ /\ Fault \/ (Works /\ ~able)
           /\ Again(p, c, RecoveryTries, "force_unmount") /\ UNCHANGED <<staging, wrong>>
     /\ UNCHANGED <<conn, target, content, breaker, history, erased>>

(* The bind mount shows what is on top of the staging path, the node's own *)
(* disk (None) if nothing is mounted there.                                *)
Bind(p) ==
  LET c == call[p]
      v == Vol(p)
      d == IF staging[v] = << >> THEN None ELSE Top(staging[v])
  IN /\ c.at = "bind"
     /\ \/ /\ Works /\ target' = [target EXCEPT ![v] = Append(@, d)]
           /\ Touch(v, d) /\ Return(p, c, TRUE)
        \/ Fault /\ Return(p, c, FALSE) /\ UNCHANGED <<target, wrong>>
     /\ UNCHANGED <<nvmeVars, staging, content, breaker, history, erased>>

-----------------------------------------------------------------------------
(* NodeUnpublishVolume: remove the device node, or unmount once; then      *)
(* RemoveAll, which reaches what is still mounted at the path.             *)
RemoveAll(path) ==
  LET reached == {v \in Volumes : /\ path # << >> /\ conn[v] \in Devices /\ conn[v] = Top(path)
                                  /\ content[v] = "data"}
  IN erased' = erased \cup reached

UnpublishStrict(p) ==   \* mutant: a path that is not mounted is an error
  LET c == call[p]
      v == Vol(p)
  IN /\ c.at = "unpublish" /\ Works
     /\ \/ target[v] = << >> /\ Return(p, c, FALSE) /\ UNCHANGED <<target, erased>>
        \/ /\ target[v] # << >> /\ Return(p, c, TRUE)
           /\ target' = [target EXCEPT ![v] = Below(@)]
           /\ RemoveAll(Below(target[v]))
     /\ UNCHANGED <<nvmeVars, staging, content, breaker, history, wrong>>

Unpublish(p) ==
  LET c == call[p]
      v == Vol(p)
      Becomes(path) == target' = [target EXCEPT ![v] = path]
  IN /\ c.at = "unpublish"
     /\ \/ /\ v \in Block \/ target[v] = << >>
           /\ Works /\ Becomes(<< >>) /\ Return(p, c, TRUE) /\ UNCHANGED <<history, erased>>
        \/ /\ v \notin Block /\ target[v] # << >>
           /\ Findmnt(p, target[v],
                      Becomes(Below(target[v])) /\ RemoveAll(Below(target[v])),
                      Becomes(target[v]) /\ RemoveAll(target[v]))
           /\ Return(p, c, TRUE)
        \/ Fault /\ Return(p, c, FALSE) /\ UNCHANGED <<target, history, erased>>
     /\ UNCHANGED <<nvmeVars, staging, content, breaker, wrong>>

(* NodeUnstageVolume: what is not mounted is taken for a block volume.     *)
Unstage(p) ==
  LET c == call[p]
  IN /\ c.at = "unstage"
     /\ Findmnt(p, staging[Vol(p)], Goto(p, c, "umount"), Goto(p, c, "find_mounts"))
     /\ UNCHANGED <<nvmeVars, mountVars, content, breaker, wrong, erased>>

(* Unmount looks again; a failing umount ends the call.                    *)
Umount(p) ==
  LET c == call[p]
      v == Vol(p)
      Becomes(path) == staging' = [staging EXCEPT ![v] = path]
  IN /\ c.at = "umount"
     /\ \/ /\ Findmnt(p, staging[v], Becomes(Below(staging[v])), Becomes(staging[v]))
           /\ Goto(p, c, "find_device")
        \/ Fault /\ Return(p, c, FALSE) /\ UNCHANGED <<staging, history>>
     /\ UNCHANGED <<nvmeVars, target, content, breaker, wrong, erased>>

(* A path as findAndCleanupOrphanedMounts leaves it: one unmount for every *)
(* mount of the device, unless a process has files open there.             *)
Cleaned(path, d, busy) ==
  LET mounts == Cardinality({i \in DOMAIN path : path[i] = d})
  IN IF busy THEN path ELSE SubSeq(path, 1, Len(path) - mounts)

(* GetDevicePath, and for a "block volume" the cleanup.  Without a device  *)
(* there is nothing to check.                                              *)
FindDevice(p) ==
  LET c == call[p]
      v == Vol(p)
      d == ResolveDevicePath(v)
      next == IF d = None THEN "disconnect"
              ELSE IF c.at = "find_mounts" THEN "in_use_block" ELSE "in_use"
  IN /\ c.at \in {"find_mounts", "find_device"}
     /\ Resolve(v)
     /\ Goto(p, [c EXCEPT !.dev = d], next)
     /\ \/ /\ Works /\ next = "in_use_block"
           /\ staging' = [w \in Volumes |-> Cleaned(staging[w], d, FALSE)]
           /\ target' = [w \in Volumes |->
                          Cleaned(target[w], d, w \in Block \/ pod[w] = "running")]
           /\ IF mountVars' # mountVars THEN Touch(v, d) ELSE UNCHANGED wrong
        \/ Works /\ next # "in_use_block" /\ UNCHANGED <<mountVars, wrong>>
        \/ (Fault \/ (Works /\ Late(p))) /\ next = "in_use_block" /\ UNCHANGED <<mountVars, wrong>>
     /\ UNCHANGED <<conn, content, breaker, history, erased>>

(* CheckDeviceInUse: lsof finds the pod that has the device, or files on   *)
(* its filesystem, open.                                                   *)
InUse(d) ==
  \E w \in Volumes : pod[w] = "running" /\ target[w] # << >> /\ Top(target[w]) = d

(* The try that decides CheckDeviceInUseWithRetry.  A timeout or an error  *)
(* of lsof reads as "not in use", and a "block volume" whose call is over  *)
(* goes on in any case.                                                    *)
CheckInUse(p) ==
  LET c == call[p]
  IN /\ c.at \in {"in_use", "in_use_block"}
     /\ \/ Works /\ (~InUse(c.dev) \/ Late(p)) /\ Goto(p, c, "disconnect")
        \/ Works /\ InUse(c.dev) /\ ~(Late(p) /\ c.at = "in_use_block") /\ Return(p, c, FALSE)
        \/ Fault /\ Goto(p, c, "disconnect")
     /\ UNCHANGED <<nvmeVars, mountVars, content, breaker, ghostVars>>

(* A failing disconnect does not fail the call.                            *)
UnstageDisconnect(p) ==
  /\ call[p].at = "disconnect"
  /\ DisconnectStep(Vol(p))
  /\ Return(p, call[p], TRUE)
  /\ UNCHANGED <<mountVars, content, breaker, ghostVars>>

NodePublishVolume(v) == Starts(v, "publish", "publish")
NodeUnpublishVolume(v) == Starts(v, "unpublish", "unpublish")
NodeUnstageVolume(v) == Starts(v, "unstage", "unstage")

Step(p) ==
  \/ List(p) \/ OrphanCheck(p) \/ Renew(p) \/ ConnectCmd(p) \/ WaitForDevice(p) \/ GiveUpWait(p)
  \/ Execute(p) \/ IsFormatted(p) \/ CheckFilesystemHealth(p) \/ Format(p) \/ Mkfs(p) \/ Mount(p)
  \/ Cleanup(p)
  \/ PublishBlock(p) \/ PublishCheck(p) \/ StaleCheck(p) \/ ForceUnmount(p) \/ Remount(p) \/ Bind(p)
  \/ Unpublish(p)
  \/ Unstage(p) \/ Umount(p) \/ FindDevice(p) \/ CheckInUse(p) \/ UnstageDisconnect(p)

-----------------------------------------------------------------------------
(* NodeGetVolumeStats looks whether the mount of a running pod is stale.   *)
NodeGetVolumeStats(v) ==
  /\ pod[v] = "running" /\ v \notin Block
  /\ LooksUp(v, target[v])
  /\ UNCHANGED <<conn, mountVars, content, breaker, call, pod, faults, ghostVars>>

(* NodeExpandVolume resizes the filesystem on the device of the volume.    *)
NodeExpandVolume(v) ==
  LET d == ResolveDevicePath(v)
  IN /\ pod[v] = "running" /\ v \notin Block /\ target[v] # << >> /\ d # None
     /\ Resolve(v) /\ Touch(v, d)
     /\ UNCHANGED <<conn, mountVars, content, breaker, call, pod, faults, history, erased>>

(* The pod writes to the volume.                                           *)
PodWrites(v) ==
  /\ pod[v] = "running" /\ content[v] = "fs"
  /\ target[v] # << >> /\ Top(target[v]) = conn[v]
  /\ content' = [content EXCEPT ![v] = "data"]
  /\ UNCHANGED <<nvmeVars, mountVars, breaker, call, pod, faults, ghostVars>>

(* Pods come and go.  A new one has a target path of its own: it comes     *)
(* when nothing is left of the last one's.                                 *)
PodArrives(v) ==
  /\ pod[v] = "out"
  /\ target[v] = << >> /\ call[<<v, "late">>].op \notin {"publish", "unpublish"}
  /\ pod' = [pod EXCEPT ![v] = "stage"]
  /\ UNCHANGED <<nvmeVars, mountVars, content, breaker, call, faults, ghostVars>>

PodLeaves(v) ==
  /\ pod[v] \in {"stage", "publish", "running"} /\ call[<<v, "current">>] = Idle
  /\ pod' = [pod EXCEPT ![v] = IF @ = "stage" THEN "unstage" ELSE "unpublish"]
  /\ UNCHANGED <<nvmeVars, mountVars, content, breaker, call, faults, ghostVars>>

(* The kubelet gives up a call at its deadline; the handler goes on.  If   *)
(* that was an unstage, it may turn to a new pod.                          *)
GiveUp(v) ==
  /\ call[<<v, "current">>] # Idle /\ call[<<v, "late">>] = Idle
  /\ Fault
  /\ call' = [call EXCEPT ![<<v, "late">>] = call[<<v, "current">>],
                          ![<<v, "current">>] = Idle]
  /\ \/ UNCHANGED pod
     \/ pod[v] = "unstage" /\ target[v] = << >> /\ pod' = [pod EXCEPT ![v] = "stage"]
  /\ breaker' = [breaker EXCEPT ![v].admitted = IF "current" \in @ THEN {"late"} ELSE {}]
  /\ history' = history \cup {<<v, "late">>}
  /\ UNCHANGED <<nvmeVars, mountVars, content, wrong, erased>>

(* The connection of a volume is lost for good: its device goes, and with  *)
(* it the subsystem or not.  That is a race when the path of the device is *)
(* cached or some call of the volume works with it.                        *)
LinkLost(v) ==
  LET known == conn[v] \in {cache[v], call[<<v, "current">>].dev, call[<<v, "late">>].dev}
  IN /\ conn[v] \in Devices
     /\ Fault
     /\ \E left \in {None, Orphaned} : conn' = [conn EXCEPT ![v] = left]
     /\ history' = IF known THEN history \cup {<<v, "raced">>} ELSE history
     /\ UNCHANGED <<cache, mountVars, content, breaker, call, pod, wrong, erased>>

(* The plugin restarts: calls, cache and breakers are gone.                *)
Restart ==
  /\ Fault
  /\ call' = [p \in Procs |-> Idle]
  /\ cache' = [v \in Volumes |-> None]
  /\ breaker' = [v \in Volumes |-> Closed]
  /\ CleanupOrphanedConnections
  /\ UNCHANGED <<mountVars, content, pod, ghostVars>>

(* Time passes for the breaker and for the resolver's cache.               *)
BreakerTimeout(v) ==
  /\ \/ breaker[v].state = "open" /\ breaker' = [breaker EXCEPT ![v] = Half]
     \/ /\ breaker[v].state = "closed" /\ breaker[v] # Closed
        /\ breaker' = [breaker EXCEPT ![v] = Closed]
  /\ UNCHANGED <<nvmeVars, mountVars, content, call, pod, faults, ghostVars>>

Expire(v) ==
  /\ cache[v] # None /\ Invalidate(v)
  /\ UNCHANGED <<conn, mountVars, content, breaker, call, pod, faults, ghostVars>>

Calls(v) ==
  \/ NodeStageVolume(v) \/ NodePublishVolume(v)
  \/ NodeUnpublishVolume(v) \/ NodeUnstageVolume(v)

Next ==
  \/ \E p \in Procs : Step(p)
  \/ \E v \in Volumes :
       \/ Calls(v) \/ NodeGetVolumeStats(v) \/ NodeExpandVolume(v)
       \/ PodArrives(v) \/ PodLeaves(v) \/ PodWrites(v)
       \/ GiveUp(v) \/ LinkLost(v) \/ BreakerTimeout(v) \/ Expire(v)
  \/ Restart

Spec == Init /\ [][Next]_vars

(* Handlers run, the kubelet repeats a call until it succeeds, time passes.*)
Fairness ==
  /\ \A p \in Procs : WF_vars(Step(p))
  /\ \A v \in Volumes : WF_vars(Calls(v)) /\ WF_vars(BreakerTimeout(v)) /\ WF_vars(Expire(v))

FairSpec == Spec /\ Fairness

-----------------------------------------------------------------------------
Befell(v, what) == <<v, what>> \in history

(* nvme.go, GetDevicePath: the path is that of the volume's device.  The   *)
(* node never formats, mounts, exposes, resizes or unmounts the device of  *)
(* another volume, as long as no connection is lost within the resolver's  *)
(* TTL or under a call, and no call goes on after the kubelet gave it up.  *)
OwnDevice == \A v \in wrong : Befell(v, "raced") \/ Befell(v, "late")

(* mount.go, node.go: no format and no removal of a target path destroys   *)
(* data, unless a call ran late, findmnt failed under an unpublish, or     *)
(* the device of another volume was taken for this one.                    *)
DataKept ==
  \A v \in erased : Befell(v, "late") \/ Befell(v, "findmnt") \/ wrong # {}

(* node.go: a volume is disconnected only when nobody uses it.  Only a     *)
(* call that ran late takes the connection from a running pod.             *)
UsedStaysConnected ==
  [][\A v \in Volumes :
       /\ pod[v] = "running" /\ pod'[v] = "running"
       /\ conn[v] \in Devices /\ conn'[v] = None /\ ~LinkLost(v)
       => Befell(v, "late")]_vars

(* stale.go, NodeGetVolumeStats: a mount that is reported healthy is one   *)
(* of the volume's current connection.                                     *)
HealthyIsCurrent ==
  \A v \in Volumes \ Block :
    pod[v] = "running" /\ ~IsStale(v, target[v]) /\ ~Befell(v, "raced") /\ ~Befell(v, "late")
      => Top(target[v]) = conn[v]

(* The kubelet's retries get a pod its volume, through any failures that   *)
(* come to an end, an open breaker and a dead mount included, unless the   *)
(* pod is deleted, or a lost link, a failed recovery or a late unstage     *)
(* takes away what was staged: NodePublishVolume does not stage again.     *)
Unstaged(v) == IF v \in Block THEN conn[v] \notin Devices ELSE staging[v] = << >>

PodStarts ==
  \A v \in Volumes :
    pod[v] \in {"stage", "publish"}
      ~> \/ pod[v] \in {"running", "unpublish", "unstage"}
         \/ pod[v] = "publish" /\ Unstaged(v)

(* And they get rid of it.                                                 *)
PodGoes == \A v \in Volumes : pod[v] \in {"unpublish", "unstage"} ~> pod[v] \in {"out", "stage"}
=============================================================================
