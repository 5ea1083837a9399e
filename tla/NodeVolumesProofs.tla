-------------------------- MODULE NodeVolumesProofs --------------------------
(***************************************************************************)
(* Proofs about NodeVolumes, for any volumes, device numbers and faults.   *)
(***************************************************************************)
EXTENDS NodeVolumes, TLAPS

(* Where the call of an operation can be, and where it has a device.       *)
StageAts == {"list", "orphan_check", "renew", "connect", "wait", "give_up_wait"}
FsAts == {"execute", "blkid", "fsck", "format", "mkfs", "mount", "cleanup"}
BindAts == {"stale", "force_unmount", "remount", "bind"}
UnstageAts == {"unstage", "umount", "find_mounts", "find_device"}
ProbeAts == {"in_use", "in_use_block", "disconnect"}

WellFormed(v, c) ==
  /\ c.op \in {"none", "stage", "publish", "unpublish", "unstage"}
  /\ c.op = "none" => c = Idle
  /\ c.op = "stage" => c.at \in StageAts \cup FsAts
  /\ c.op = "publish" => c.at \in {"publish"} \cup BindAts
  /\ c.op = "unpublish" => c.at = "unpublish"
  /\ c.op = "unstage" => c.at \in UnstageAts \cup ProbeAts
  /\ c.at \in FsAts \cup BindAts => v \notin Block
  /\ c.dev # None => c.at \in FsAts \cup ProbeAts

Current(v) == call[<<v, "current">>]
LateCall(v) == call[<<v, "late">>]

(* The kubelet makes the calls that the pod needs, and a late one has been *)
(* given up.                                                               *)
CallsSound ==
  /\ \A p \in Procs : WellFormed(Vol(p), call[p])
  /\ \A v \in Volumes :
       /\ Current(v) # Idle => Current(v).op = pod[v]
       /\ LateCall(v) # Idle => Befell(v, "late")

(* Two volumes never share a number.  For a volume that nothing befell,    *)
(* the cached path and the device of the call are those of its connection. *)
Clean(v) == ~Befell(v, "late") /\ ~Befell(v, "raced")

NvmeSound ==
  /\ \A v, w \in Volumes : conn[v] \in Devices /\ conn[v] = conn[w] => v = w
  /\ \A v \in Volumes : Clean(v) =>
       cache[v] \in {None, conn[v]} /\ Current(v).dev \in {None, conn[v]} /\ v \notin wrong

(* The devices mounted for a volume.  Each number is held, so that no      *)
(* connection of another volume can get it.                                *)
Mounted(v) == Range(staging[v]) \cup (IF v \in Block THEN {} ELSE Range(target[v]))

(* Without late calls a pod finds its target path empty, and one mount     *)
(* goes there.                                                             *)
Fits(v) ==
  ~Befell(v, "late") =>
    /\ Len(target[v]) <= 1
    /\ pod[v] \in {"stage", "publish"} => target[v] = << >>
    /\ pod[v] = "running" => target[v] # << >>

PathsSound ==
  /\ \A v \in Volumes \ wrong : \A w \in Volumes : conn[w] \in Devices \cap Mounted(v) => w = v
  /\ \A v \in Volumes : Fits(v)

(* What a format is about to write to has no data.                         *)
FormatSound(v) ==
  ~Befell(v, "late") /\ Current(v).at = "mkfs" /\ Current(v).dev = conn[v] /\ conn[v] \in Devices
    => content[v] # "data"

DataSound == DataKept /\ \A v \in Volumes : FormatSound(v)

NodeInv == TypeOK /\ CallsSound /\ NvmeSound /\ PathsSound /\ DataSound

-----------------------------------------------------------------------------
(* Paths, numbers and calls.                                               *)
LEMMA PathFacts ==
  ASSUME NEW s \in Seq(Sources)
  PROVE  /\ Len(s) \in Nat /\ Range(s) \subseteq Sources /\ (s = << >> <=> Len(s) = 0)
         /\ s # << >> => /\ Top(s) \in Range(s) /\ s[1] \in Range(s)
                         /\ Below(s) \in Seq(Sources) /\ Range(Below(s)) \subseteq Range(s)
                         /\ Len(Below(s)) = Len(s) - 1
         /\ \A d \in Sources : /\ Append(s, d) \in Seq(Sources)
                               /\ Range(Append(s, d)) = Range(s) \cup {d}
                               /\ Len(Append(s, d)) = Len(s) + 1
         /\ << >> \in Seq(Sources) /\ Range(<< >>) = {} /\ Len(<< >>) = 0
<1>1. Len(s) \in Nat /\ DOMAIN s = 1 .. Len(s) /\ (s = << >> <=> Len(s) = 0)
  OBVIOUS
<1>2. Range(s) = {s[i] : i \in 1 .. Len(s)} /\ Range(s) \subseteq Sources
  BY <1>1 DEF Range
<1>3. ASSUME s # << >>
      PROVE  /\ Top(s) \in Range(s) /\ s[1] \in Range(s)
             /\ Below(s) \in Seq(Sources) /\ Range(Below(s)) \subseteq Range(s)
             /\ Len(Below(s)) = Len(s) - 1
  <2>1. Len(s) \in 1 .. Len(s) /\ 1 \in 1 .. Len(s)
    BY <1>1, <1>3
  <2>2. Top(s) \in Range(s) /\ s[1] \in Range(s)
    BY <1>2, <2>1 DEF Top
  <2>3. /\ Below(s) \in Seq(Sources) /\ Len(Below(s)) = Len(s) - 1
        /\ \A i \in 1 .. Len(s) - 1 : Below(s)[i] = s[i]
    BY <1>1, <2>1 DEF Below
  <2>4. Range(Below(s)) \subseteq Range(s)
    BY <1>1, <1>2, <2>3 DEF Range
  <2> QED
    BY <2>2, <2>3, <2>4
<1>4. ASSUME NEW d \in Sources
      PROVE  /\ Append(s, d) \in Seq(Sources) /\ Len(Append(s, d)) = Len(s) + 1
             /\ Range(Append(s, d)) = Range(s) \cup {d}
  <2>1. /\ Append(s, d) \in Seq(Sources) /\ Len(Append(s, d)) = Len(s) + 1
        /\ \A i \in 1 .. Len(s) : Append(s, d)[i] = s[i]
        /\ Append(s, d)[Len(s) + 1] = d
    BY <1>1
  <2>2. Range(Append(s, d)) = {Append(s, d)[i] : i \in 1 .. Len(s) + 1}
    BY <2>1 DEF Range
  <2> QED
    BY <1>1, <1>2, <2>1, <2>2
<1>5. << >> \in Seq(Sources) /\ Range(<< >>) = {} /\ Len(<< >>) = 0
  BY DEF Range
<1> QED
  BY <1>1, <1>2, <1>3, <1>4, <1>5, Zenon

LEMMA EmptyPath ==
  ASSUME NEW s \in Seq(Sources)
  PROVE  << >> \in Seq(Sources) /\ Range(<< >>) \subseteq Range(s) /\ Len(<< >>) <= Len(s)
  BY PathFacts

LEMMA OneMount ==
  ASSUME NEW s \in Seq(Sources), Len(s) = 1
  PROVE  s # << >>
  BY PathFacts

LEMMA AtMostOne ==
  ASSUME NEW m \in Nat, NEW n \in Nat, m <= n, n <= 1
  PROVE  m <= 1
  OBVIOUS

LEMMA ProcFacts ==
  /\ \A p \in Procs : Vol(p) \in Volumes /\ p[2] \in {"current", "late"} /\ p = <<Vol(p), p[2]>>
  /\ \A v \in Volumes : <<v, "current">> \in Procs /\ <<v, "late">> \in Procs
  /\ \A v \in Volumes : Vol(<<v, "current">>) = v /\ <<v, "current">>[2] = "current"
  BY DEF Procs, Vol

LEMMA ProcCalls ==
  ASSUME NEW p \in Procs
  PROVE  (Late(p) => LateCall(Vol(p)) = call[p]) /\ (~Late(p) => Current(Vol(p)) = call[p])
  BY ProcFacts DEF Late, LateCall, Current

LEMMA CallFacts ==
  ASSUME TypeOK, CallsSound, NEW p \in Procs, NEW c, c = call[p]
  PROVE  /\ c \in CallRecord /\ WellFormed(Vol(p), c) /\ Vol(p) \in Volumes
         /\ c.at \in StageAts \cup FsAts => c.op = "stage"
         /\ c.at \in {"publish"} \cup BindAts => c.op = "publish"
         /\ c.at = "unpublish" => c.op = "unpublish"
         /\ c.at \in UnstageAts \cup ProbeAts => c.op = "unstage"
<1>1. c \in CallRecord /\ WellFormed(Vol(p), c) /\ Vol(p) \in Volumes
  BY ProcFacts DEF TypeOK, CallsSound
<1>2. c = Idle => c.at = "none"
  BY DEF Idle
<1> QED
  BY <1>1, <1>2 DEF WellFormed, StageAts, FsAts, BindAts, UnstageAts, ProbeAts

LEMMA IdleFacts == /\ Idle \in CallRecord /\ \A v : WellFormed(v, Idle)
                   /\ Idle.op = "none" /\ Idle.at = "none" /\ Idle.dev = None
  BY DEF Idle, CallRecord, Places, Sources, WellFormed, FsAts, BindAts, ProbeAts

-----------------------------------------------------------------------------
LEMMA FaultsBounded ==
  ASSUME TypeOK, Works \/ Fault
  PROVE  faults' \in 0 .. MaxFaults
<1>1. faults \in 0 .. MaxFaults
  BY DEF TypeOK
<1> QED
  BY <1>1, NodeAssumption DEF Works, Fault

LEMMA DataGrows ==
  ASSUME DataKept, history \subseteq history', wrong \subseteq wrong',
         \A v \in erased' \ erased : Befell(v, "late")' \/ Befell(v, "findmnt")' \/ wrong' # {}
  PROVE  DataKept'
  BY Zenon DEF DataKept, Befell

(* The pods' steps, the kubelet's and the link's.  Each keeps some parts   *)
(* of the invariant because it leaves their variables alone.               *)
LEMMA PathsSame ==
  ASSUME PathsSound, UNCHANGED <<staging, target, wrong>>,
         \A w \in Volumes : conn'[w] \in Devices => conn'[w] = conn[w],
         \A w \in Volumes : Fits(w)'
  PROVE  PathsSound'
  BY DEF PathsSound, Mounted

LEMMA DataSame ==
  ASSUME DataSound, history \subseteq history', UNCHANGED <<erased, wrong, content>>,
         \A w \in Volumes : conn'[w] \in Devices => conn'[w] = conn[w],
         \A w \in Volumes : Current(w)' = Current(w) \/ Current(w)' = Idle
  PROVE  DataSound'
<1>1. DataKept'
  BY DataGrows DEF DataSound
<1>2. ASSUME NEW w \in Volumes PROVE FormatSound(w)'
  BY <1>2, IdleFacts DEF DataSound, FormatSound, Befell
<1> QED
  BY <1>1, <1>2 DEF DataSound

LEMMA PodSteps ==
  ASSUME NodeInv, NEW v \in Volumes, PodArrives(v) \/ PodLeaves(v)
  PROVE  NodeInv'
<1>1. /\ TypeOK /\ CallsSound /\ NvmeSound /\ PathsSound /\ DataSound
      /\ UNCHANGED <<conn, cache, staging, target, content, breaker, call, faults, history, wrong, erased>>
  BY DEF NodeInv, PodArrives, PodLeaves, nvmeVars, mountVars, ghostVars
<1>2. PICK ph : /\ pod' = [pod EXCEPT ![v] = ph] /\ Current(v) = Idle
                /\ ph \in {"unstage", "unpublish"} \/ (ph = "stage" /\ target[v] = << >>)
  <2>1. CASE PodArrives(v)
    <3>1. Current(v) = Idle
      BY <1>1, <2>1, ProcFacts, Zenon DEF PodArrives, CallsSound, WellFormed, Current
    <3> QED
      BY <2>1, <3>1, Zenon DEF PodArrives
  <2>2. CASE PodLeaves(v)
    BY <1>1, <2>2, Zenon DEF PodLeaves, Current, TypeOK
  <2> QED
    BY <2>1, <2>2
<1>3. pod' \in [Volumes -> Phases] /\ pod'[v] = ph /\ \A w \in Volumes \ {v} : pod'[w] = pod[w]
  BY <1>1, <1>2 DEF TypeOK, Phases
<1>4. TypeOK'
  BY <1>1, <1>3 DEF TypeOK, NvmeTypeOK
<1>5. CallsSound'
  BY <1>1, <1>2, <1>3 DEF CallsSound, Current, LateCall, Befell
<1>6. NvmeSound'
  BY <1>1, Zenon DEF NvmeSound, Clean, Befell, Current
<1>7. \A w \in Volumes : Fits(w)'
  BY <1>1, <1>2, <1>3 DEF PathsSound, Fits, Befell
<1>8. PathsSound'
  BY <1>1, <1>7, PathsSame
<1>9. DataSound'
  BY <1>1, DataSame DEF Current
<1> QED
  BY <1>4, <1>5, <1>6, <1>8, <1>9 DEF NodeInv

LEMMA PodWritesStep ==
  ASSUME NodeInv, NEW v \in Volumes, PodWrites(v)
  PROVE  NodeInv'
<1>1. /\ TypeOK /\ CallsSound /\ NvmeSound /\ PathsSound /\ DataSound
      /\ UNCHANGED <<conn, cache, staging, target, breaker, call, pod, faults, history, wrong, erased>>
      /\ content' = [content EXCEPT ![v] = "data"] /\ pod[v] = "running"
  BY DEF NodeInv, PodWrites, nvmeVars, mountVars, ghostVars
<1>2. TypeOK'
  BY <1>1 DEF TypeOK, NvmeTypeOK
<1>3. CallsSound' /\ NvmeSound'
  BY <1>1 DEF CallsSound, NvmeSound, Clean, Befell, Current, LateCall
<1>4. PathsSound'
  BY <1>1, PathsSame, Zenon DEF PathsSound, Fits, Befell
<1>5. Current(v).at # "mkfs"
  <2>1. Current(v).at = "mkfs" => Current(v).op = "stage"
    BY <1>1, ProcFacts, CallFacts, Zenon DEF Current, FsAts
  <2> QED
    BY <1>1, <2>1, IdleFacts, Zenon DEF CallsSound
<1>6. DataSound'
  BY <1>1, <1>5, Zenon DEF DataSound, DataKept, FormatSound, Befell, Current, TypeOK
<1> QED
  BY <1>2, <1>3, <1>4, <1>6 DEF NodeInv

LEMMA GiveUpStep ==
  ASSUME NodeInv, NEW v \in Volumes, GiveUp(v)
  PROVE  NodeInv'
<1>1. /\ TypeOK /\ CallsSound /\ NvmeSound /\ PathsSound /\ DataSound
      /\ UNCHANGED <<conn, cache, staging, target, content, wrong, erased>> /\ Fault
      /\ history' = history \cup {<<v, "late">>} /\ history \subseteq history'
  BY DEF NodeInv, GiveUp, nvmeVars, mountVars
<1>2. call \in [Procs -> CallRecord] /\ \A w \in Volumes : <<w, "current">> \in Procs /\ <<w, "late">> \in Procs
  BY <1>1, ProcFacts DEF TypeOK
<1>3. \A p \in Procs : call'[p] = IF p = <<v, "current">> THEN Idle
                                  ELSE IF p = <<v, "late">> THEN call[<<v, "current">>] ELSE call[p]
  BY <1>2 DEF GiveUp
<1>4. call' \in [Procs -> CallRecord]
  <2>1. DOMAIN call' = Procs /\ call' = [p \in Procs |-> call'[p]]
    BY <1>2, Zenon DEF GiveUp
  <2> QED
    BY <1>2, <1>3, <2>1, IdleFacts
<1>5. /\ Current(v)' = Idle /\ LateCall(v)' = Current(v)
      /\ \A w \in Volumes \ {v} : Current(w)' = Current(w) /\ LateCall(w)' = LateCall(w)
  BY <1>2, <1>3 DEF Current, LateCall
<1>6. pod' \in [Volumes -> Phases] /\ \A w \in Volumes \ {v} : pod'[w] = pod[w]
  BY <1>1, Zenon DEF GiveUp, TypeOK, Phases
<1>7. breaker' \in [Volumes -> BreakerRecord]
  <2>1. breaker[v] \in BreakerRecord /\ breaker \in [Volumes -> BreakerRecord]
    BY <1>1 DEF TypeOK
  <2>2. PICK a \in SUBSET {"current", "late"} : breaker' = [breaker EXCEPT ![v].admitted = a]
    BY <2>1, Zenon DEF GiveUp
  <2>3. [breaker[v] EXCEPT !.admitted = a] \in BreakerRecord
    BY <2>1 DEF BreakerRecord
  <2> QED
    BY <2>1, <2>2, <2>3
<1>8. faults' \in 0 .. MaxFaults /\ history' \subseteq Volumes \X {"late", "raced", "findmnt"}
  BY <1>1, FaultsBounded DEF TypeOK
<1>9. TypeOK'
  BY <1>1, <1>4, <1>6, <1>7, <1>8 DEF TypeOK, NvmeTypeOK
<1>10. Befell(v, "late")' /\ \A w \in Volumes : \A e : Befell(w, e) => Befell(w, e)'
  BY <1>1 DEF Befell
<1>11. CallsSound'
  <2>1. ASSUME NEW p \in Procs PROVE WellFormed(Vol(p), call'[p])
    <3>1. CASE p = <<v, "late">>
      <4>1. WellFormed(Vol(<<v, "current">>), call[<<v, "current">>])
        BY <1>1, <1>2, Zenon DEF CallsSound
      <4> QED
        BY <1>3, <3>1, <4>1 DEF Vol
    <3> QED
      BY <1>1, <1>3, <3>1, IdleFacts DEF CallsSound
  <2> QED
    BY <1>1, <1>5, <1>6, <1>10, <2>1 DEF CallsSound
<1>12. NvmeSound'
  BY <1>1, <1>5, <1>10 DEF NvmeSound, Clean
<1>13. ASSUME NEW w \in Volumes PROVE Fits(w)'
  <2>1. CASE w = v
    BY <1>10, <2>1 DEF Fits
  <2>2. CASE w # v
    BY <1>1, <1>6, <1>10, <2>2 DEF PathsSound, Fits
  <2> QED
    BY <2>1, <2>2
<1>14. PathsSound'
  BY <1>1, <1>13, PathsSame
<1>15. DataSound'
  BY <1>1, <1>5, DataSame
<1> QED
  BY <1>9, <1>11, <1>12, <1>14, <1>15 DEF NodeInv

LEMMA LinkLostStep ==
  ASSUME NodeInv, NEW v \in Volumes, LinkLost(v)
  PROVE  NodeInv'
<1>1. /\ TypeOK /\ CallsSound /\ NvmeSound /\ PathsSound /\ DataSound
      /\ UNCHANGED <<cache, staging, target, content, breaker, call, pod, wrong, erased>> /\ Fault
      /\ history \subseteq history' /\ history' \subseteq history \cup {<<v, "raced">>}
      /\ conn[v] \in Devices
  BY DEF NodeInv, LinkLost, mountVars
<1>2. PICK left \in {None, Orphaned} : conn' = [conn EXCEPT ![v] = left]
  BY Zenon DEF LinkLost
<1>3. /\ conn' \in [Volumes -> Devices \cup {Orphaned, None}] /\ conn'[v] \notin Devices
      /\ \A w \in Volumes \ {v} : conn'[w] = conn[w]
  BY <1>1, <1>2, DevicesAssumption DEF TypeOK, NvmeTypeOK
<1>4. faults' \in 0 .. MaxFaults /\ history' \subseteq Volumes \X {"late", "raced", "findmnt"}
  BY <1>1, FaultsBounded DEF TypeOK
<1>5. TypeOK'
  BY <1>1, <1>3, <1>4 DEF TypeOK, NvmeTypeOK
<1>6. CallsSound'
  BY <1>1, Zenon DEF CallsSound, Current, LateCall, Befell
<1>7. NvmeSound'
  <2>1. ASSUME NEW x \in Volumes, NEW y \in Volumes, conn'[x] \in Devices, conn'[x] = conn'[y]
        PROVE  x = y
    BY <1>1, <1>3, <2>1, Zenon DEF NvmeSound
  <2>2. ASSUME NEW w \in Volumes, Clean(w)'
        PROVE  cache[w] \in {None, conn'[w]} /\ Current(w).dev \in {None, conn'[w]} /\ w \notin wrong
    <3>1. Clean(w)
      BY <1>1, <2>2 DEF Clean, Befell
    <3>2. cache[w] \in {None, conn[w]} /\ Current(w).dev \in {None, conn[w]} /\ w \notin wrong
      BY <1>1, <3>1 DEF NvmeSound
    <3>3. CASE w # v
      BY <1>3, <3>2, <3>3
    <3>4. CASE w = v
      <4>1. conn[v] # cache[v] /\ conn[v] # Current(v).dev
        BY <2>2, <3>4 DEF LinkLost, Clean, Befell, Current
      <4> QED
        BY <3>2, <3>4, <4>1
    <3> QED
      BY <3>3, <3>4
  <2> QED
    BY <1>1, <2>1, <2>2 DEF NvmeSound, Current
<1>8. \A w \in Volumes : Fits(w)'
  BY <1>1 DEF PathsSound, Fits, Befell
<1>9. PathsSound'
  BY <1>1, <1>3, <1>8, PathsSame
<1>10. DataSound'
  BY <1>1, <1>3, DataSame DEF Current
<1> QED
  BY <1>5, <1>6, <1>7, <1>9, <1>10 DEF NodeInv

LEMMA RestartStep ==
  ASSUME NodeInv, Restart
  PROVE  NodeInv'
<1>1. /\ TypeOK /\ CallsSound /\ NvmeSound /\ PathsSound /\ DataSound
      /\ UNCHANGED <<staging, target, content, pod, history, wrong, erased>> /\ Fault
  BY DEF NodeInv, Restart, mountVars, ghostVars
<1>2. call' = [p \in Procs |-> Idle] /\ cache' = [w \in Volumes |-> None]
  BY DEF Restart
<1>3. /\ conn' \in [Volumes -> Devices \cup {Orphaned, None}]
      /\ \A w \in Volumes : conn'[w] = conn[w] \/ conn'[w] = None
  BY <1>1 DEF Restart, CleanupOrphanedConnections, TypeOK, NvmeTypeOK
<1>4. \A w \in Volumes : conn'[w] \in Devices => conn'[w] = conn[w]
  BY <1>3, DevicesAssumption
<1>5. breaker' \in [Volumes -> BreakerRecord]
  <2>1. Closed \in BreakerRecord
    BY NodeAssumption DEF Closed, BreakerRecord
  <2> QED
    BY <2>1 DEF Restart
<1>6. TypeOK'
  <2>1. faults' \in 0 .. MaxFaults
    BY <1>1, FaultsBounded
  <2>2. call' \in [Procs -> CallRecord] /\ cache' \in [Volumes -> Devices \cup {None}]
    BY <1>2, IdleFacts, Zenon
  <2> QED
    BY <1>1, <1>3, <1>5, <2>1, <2>2, Zenon DEF TypeOK, NvmeTypeOK
<1>7. \A w \in Volumes : Current(w)' = Idle /\ LateCall(w)' = Idle
  BY <1>2, ProcFacts, Zenon DEF Current, LateCall
<1>8. CallsSound'
  BY <1>2, <1>7, IdleFacts DEF CallsSound
<1>9. NvmeSound'
  BY <1>1, <1>2, <1>4, <1>7, IdleFacts DEF NvmeSound, Clean, Befell
<1>10. PathsSound'
  BY <1>1, <1>4, PathsSame, Zenon DEF PathsSound, Fits, Befell
<1>11. DataSound'
  BY <1>1, <1>4, <1>7, DataSame, Zenon
<1> QED
  BY <1>6, <1>8, <1>9, <1>10, <1>11 DEF NodeInv

LEMMA InitSound == Init => NodeInv
<1> SUFFICES ASSUME Init PROVE NodeInv
  OBVIOUS
<1>1. /\ \A v \in Volumes : Current(v) = Idle /\ LateCall(v) = Idle
      /\ \A p \in Procs : call[p] = Idle
  BY ProcFacts DEF Init, Current, LateCall
<1>2. TypeOK
  <2>1. Closed \in BreakerRecord /\ << >> \in Seq(Sources) /\ 0 \in 0 .. MaxFaults
    BY NodeAssumption DEF Closed, BreakerRecord
  <2> QED
    BY <2>1, IdleFacts, Zenon DEF Init, NvmeInit, TypeOK, NvmeTypeOK, Phases
<1>3. CallsSound
  BY <1>1, IdleFacts DEF CallsSound
<1>4. NvmeSound
  BY <1>1, IdleFacts, DevicesAssumption DEF Init, NvmeInit, NvmeSound
<1>5. PathsSound
  BY DevicesAssumption DEF Init, NvmeInit, PathsSound, Fits, Mounted
<1>6. DataSound
  BY DEF Init, DataSound, DataKept, FormatSound
<1> QED
  BY <1>2, <1>3, <1>4, <1>5, <1>6 DEF NodeInv

-----------------------------------------------------------------------------
(* The steps that take the connection from a volume.                       *)
LEMMA DisconnectedBy ==
  ASSUME NodeInv, Next, NEW v \in Volumes, conn[v] \in Devices, conn'[v] = None, ~LinkLost(v)
  PROVE  \E p \in Procs : Vol(p) = v /\ call[p].op \in {"stage", "unstage"}
<1>1. TypeOK /\ CallsSound /\ conn[v] # None /\ conn' # conn /\ conn \in [Volumes -> Devices \cup {Orphaned, None}]
  BY DevicesAssumption DEF NodeInv, TypeOK, NvmeTypeOK
<1>2. ASSUME NEW w, DisconnectStep(w) PROVE w = v
  BY <1>1, <1>2 DEF DisconnectStep, Disconnect, nvmeVars
<1>3. ASSUME NEW w, ~IsConnected(w), Connect(w, Held) \/ conn' = [conn EXCEPT ![w] = Orphaned]
      PROVE  FALSE
  <2>1. PICK d : conn' = [conn EXCEPT ![w] = d]
    BY <1>3, Zenon DEF Connect
  <2> QED
    BY <1>1, <1>3, <2>1 DEF IsConnected
<1>4. ASSUME NEW p \in Procs, Step(p) PROVE Vol(p) = v /\ call[p].op \in {"stage", "unstage"}
  <2>1. ~ConnectCmd(p)
    BY <1>1, <1>3, Zenon DEF ConnectCmd
  <2>2. Renew(p) \/ GiveUpWait(p) \/ Cleanup(p) \/ UnstageDisconnect(p)
    BY <1>1, <1>4, <2>1, Zenon DEF Step, List, OrphanCheck, WaitForDevice, Execute, IsFormatted,
       CheckFilesystemHealth, Format, Mkfs, Mount, PublishBlock, PublishCheck, StaleCheck,
       ForceUnmount, Remount, Bind, Unpublish, Unstage, Umount, FindDevice, CheckInUse, nvmeVars
  <2>3. DisconnectStep(Vol(p)) /\ call[p].at \in {"renew", "give_up_wait", "cleanup", "disconnect"}
    BY <2>2, Zenon DEF Renew, GiveUpWait, Cleanup, UnstageDisconnect
  <2>4. call[p].op \in {"stage", "unstage"}
    BY <1>1, <2>3, CallFacts DEF StageAts, FsAts, UnstageAts, ProbeAts
  <2> QED
    BY <1>2, <2>3, <2>4, Zenon
<1>5. ~Restart
  <2>1. Restart => conn'[v] = conn[v]
    BY <1>1, DevicesAssumption DEF Restart, CleanupOrphanedConnections, IsOrphanedSubsystem, FindDeviceByNQN
  <2> QED
    BY <1>1, <2>1
<1>6. ASSUME NEW w \in Volumes PROVE ~LinkLost(w)
  <2>1. CASE w # v
    <3>1. LinkLost(w) => \E left : conn' = [conn EXCEPT ![w] = left]
      BY Zenon DEF LinkLost
    <3> QED
      BY <1>1, <2>1, <3>1
  <2> QED
    BY <2>1
<1>7. ASSUME NEW w \in Volumes
      PROVE  ~(\/ Calls(w) \/ NodeGetVolumeStats(w) \/ NodeExpandVolume(w) \/ PodArrives(w)
               \/ PodLeaves(w) \/ PodWrites(w) \/ GiveUp(w) \/ BreakerTimeout(w) \/ Expire(w))
  BY <1>1, Zenon DEF Calls, NodeStageVolume, NodePublishVolume, NodeUnpublishVolume,
     NodeUnstageVolume, Starts, NodeGetVolumeStats, NodeExpandVolume, PodArrives, PodLeaves,
     PodWrites, GiveUp, BreakerTimeout, Expire, nvmeVars
<1>8. \E p \in Procs : Step(p)
  BY <1>5, <1>6, <1>7, Zenon DEF Next
<1> QED
  BY <1>4, <1>8, Zenon

-----------------------------------------------------------------------------
(* The handlers.                                                           *)

(* A step of a handler leaves its call at another place, or ends it; then  *)
(* the kubelet may turn the pod to its next phase.                         *)
Moves(p, c) ==
  /\ call' = [call EXCEPT ![p] = c] /\ (Late(p) => call[p] # Idle)
  /\ c \in CallRecord /\ WellFormed(Vol(p), c)
  /\ \/ c.op = call[p].op /\ pod' = pod
     \/ call[p] = Idle /\ ~Late(p) /\ c.op = pod[Vol(p)] /\ pod' = pod
     \/ c = Idle /\ pod' = pod
     \/ /\ c = Idle /\ ~Late(p) /\ call[p] # Idle
        /\ pod' = [pod EXCEPT ![Vol(p)] = NextPhase[call[p].op]]

LEMMA PhaseFollows ==
  /\ NextPhase["stage"] = "publish" /\ NextPhase["publish"] = "running"
  /\ NextPhase["unpublish"] = "unstage" /\ NextPhase["unstage"] = "out"
  BY DEF NextPhase

(* The other calls, and the other pods, are as they were.                  *)
LEMMA MovedCalls ==
  ASSUME TypeOK, CallsSound, NEW p \in Procs, NEW c, Moves(p, c)
  PROVE  /\ call' \in [Procs -> CallRecord] /\ pod' \in [Volumes -> Phases]
         /\ call'[p] = c /\ \A q \in Procs : q # p => call'[q] = call[q]
         /\ \A w \in Volumes :
              Current(w)' = IF w = Vol(p) /\ ~Late(p) THEN c ELSE Current(w)
         /\ \A w \in Volumes :
              LateCall(w)' = IF w = Vol(p) /\ Late(p) THEN c ELSE LateCall(w)
         /\ \A w \in Volumes \ {Vol(p)} : pod'[w] = pod[w]
         /\ pod'[Vol(p)] \in {pod[Vol(p)]} \cup
              (IF Late(p) \/ call[p] = Idle THEN {} ELSE {NextPhase[pod[Vol(p)]]})
<1>1. /\ call \in [Procs -> CallRecord] /\ pod \in [Volumes -> Phases] /\ Vol(p) \in Volumes
      /\ c \in CallRecord
  BY ProcFacts, Zenon DEF TypeOK, Moves
<1>2. /\ call' \in [Procs -> CallRecord] /\ call'[p] = c
      /\ \A q \in Procs : q # p => call'[q] = call[q]
  BY <1>1, Zenon DEF Moves
<1>3. \A w \in Volumes :
        /\ <<w, "current">> = p <=> w = Vol(p) /\ ~Late(p)
        /\ <<w, "late">> = p <=> w = Vol(p) /\ Late(p)
  BY ProcFacts DEF Procs, Vol, Late
<1>4. call[p] # Idle /\ ~Late(p) => call[p].op = pod[Vol(p)]
  BY <1>1, <1>3 DEF CallsSound, Current
<1>5. /\ pod' \in [Volumes -> Phases] /\ \A w \in Volumes \ {Vol(p)} : pod'[w] = pod[w]
      /\ pod'[Vol(p)] \in {pod[Vol(p)]} \cup
              (IF Late(p) \/ call[p] = Idle THEN {} ELSE {NextPhase[pod[Vol(p)]]})
  <2>1. CASE pod' = pod
    BY <1>1, <2>1
  <2>2. CASE pod' = [pod EXCEPT ![Vol(p)] = NextPhase[call[p].op]] /\ ~Late(p) /\ call[p] # Idle
    <3>1. call[p].op \in {"stage", "publish", "unpublish", "unstage"}
      BY <2>2 DEF CallsSound, WellFormed
    <3>2. NextPhase[call[p].op] \in Phases
      BY <3>1, PhaseFollows DEF Phases
    <3> QED
      BY <1>1, <1>4, <2>2, <3>2
  <2> QED
    BY <2>1, <2>2 DEF Moves
<1>6. \A w \in Volumes : Current(w)' = IF w = Vol(p) /\ ~Late(p) THEN c ELSE Current(w)
  BY <1>2, <1>3, ProcFacts, Zenon DEF Current
<1>7. \A w \in Volumes : LateCall(w)' = IF w = Vol(p) /\ Late(p) THEN c ELSE LateCall(w)
  BY <1>2, <1>3, ProcFacts, Zenon DEF LateCall
<1> QED
  BY <1>2, <1>5, <1>6, <1>7

LEMMA MovedHere ==
  ASSUME TypeOK, CallsSound, NEW p \in Procs, NEW c, Moves(p, c), ~Late(p)
  PROVE  Current(Vol(p))' = c
<1>1. Vol(p) \in Volumes
  BY ProcFacts, Zenon
<1>2. Current(Vol(p))' = IF Vol(p) = Vol(p) /\ ~Late(p) THEN c ELSE Current(Vol(p))
  BY <1>1, MovedCalls
<1> QED
  BY <1>2, Zenon

LEMMA NotMoved ==
  ASSUME TypeOK, CallsSound, NEW p \in Procs, NEW c, Moves(p, c), NEW w \in Volumes, w # Vol(p)
  PROVE  Current(w)' = Current(w)
  BY MovedCalls, Zenon

LEMMA NotLate ==
  ASSUME CallsSound, NEW p \in Procs, NEW c, Moves(p, c), ~Befell(Vol(p), "late")
  PROVE  ~Late(p)
  BY ProcFacts DEF CallsSound, LateCall, Late, Moves

LEMMA CallsKept ==
  ASSUME TypeOK, CallsSound, NEW p \in Procs, NEW c, Moves(p, c), history \subseteq history'
  PROVE  CallsSound'
<1>1. ASSUME NEW q \in Procs PROVE WellFormed(Vol(q), call'[q])
  BY MovedCalls DEF CallsSound, Moves
<1>2. ASSUME NEW w \in Volumes, Current(w)' # Idle PROVE Current(w)'.op = pod'[w]
  <2>1. CASE w = Vol(p) /\ ~Late(p)
    <3>1. Current(w)' = c /\ Current(w) = call[p] /\ c # Idle
      BY <1>2, <2>1, MovedCalls, ProcFacts DEF Current, Late
    <3>2. CASE pod' = pod /\ c.op = call[p].op
      <4>1. call[p] # Idle
        BY <3>1, <3>2, IdleFacts DEF Moves, WellFormed
      <4> QED
        BY <2>1, <3>1, <3>2, <4>1 DEF CallsSound
    <3>3. CASE pod' = pod /\ c.op = pod[Vol(p)]
      BY <2>1, <3>1, <3>3
    <3> QED
      BY <3>1, <3>2, <3>3 DEF Moves
  <2>2. CASE ~(w = Vol(p) /\ ~Late(p))
    <3>1. Current(w)' = Current(w) /\ Current(w).op = pod[w]
      BY <1>2, <2>2, MovedCalls DEF CallsSound
    <3>2. pod'[w] = pod[w]
      BY <2>2, MovedCalls
    <3> QED
      BY <3>1, <3>2
  <2> QED
    BY <2>1, <2>2
<1>3. ASSUME NEW w \in Volumes, LateCall(w)' # Idle PROVE Befell(w, "late")'
  <2>1. LateCall(w) # Idle
    BY <1>3, MovedCalls, ProcFacts DEF LateCall, Late, Moves
  <2> QED
    BY <2>1 DEF CallsSound, Befell
<1> QED
  BY <1>1, <1>2, <1>3, ZenonT(30) DEF CallsSound

-----------------------------------------------------------------------------
(* What a step for volume v does to connections and cache: a new number is *)
(* free, and the cache stays in step with the connection.                  *)
NvmeEffect(v) ==
  /\ NvmeTypeOK'
  /\ \A w \in Volumes \ {v} : conn'[w] = conn[w] /\ cache'[w] = cache[w]
  /\ conn'[v] \in Devices => conn'[v] = conn[v] \/ conn'[v] \notin Present \cup Held
  /\ cache[v] \in {None, conn[v]} => cache'[v] \in {None, conn'[v]}

(* What it does to mounts: it adds only the volume's own device, or one    *)
(* that the volume is wronged by.                                          *)
Own(v, d) == \A w \in Volumes : conn[w] = d /\ d \in Devices => w = v

MountEffect(v) ==
  /\ staging' \in [Volumes -> Seq(Sources)] /\ target' \in [Volumes -> Seq(Sources)]
  /\ \A w \in Volumes \ {v} : Mounted(w)' \subseteq Mounted(w)
  /\ \A d \in Mounted(v)' \ Mounted(v) : conn' = conn /\ (v \in wrong' \/ Own(v, d))
  /\ \A w \in Volumes : Fits(w)'

GhostEffect(v) ==
  /\ history \subseteq history' /\ history' \subseteq Volumes \X {"late", "raced", "findmnt"}
  /\ wrong' \in {wrong, wrong \cup {v}} /\ (Clean(v) /\ v \in wrong' => v \in wrong)
  /\ erased' \subseteq Volumes /\ DataKept'

DataEffect(p, c) ==
  /\ content' \in [Volumes -> {"blank", "fs", "data"}]
  /\ \A w \in Volumes : content'[w] = "data" => content[w] = "data"
  /\ ~Late(p) /\ ~Befell(Vol(p), "late") /\ c.at = "mkfs" /\ c.dev = conn'[Vol(p)]
     /\ c.dev \in Devices
       => content'[Vol(p)] # "data"

DeviceEffect(p, c) ==
  /\ c.dev \in {None, call[p].dev, ResolveDevicePath(Vol(p))}
  /\ conn'[Vol(p)] # conn[Vol(p)] => c.dev = None

LEMMA Resolved ==
  ASSUME TypeOK, NEW v \in Volumes
  PROVE  /\ ResolveDevicePath(v) \in Sources
         /\ cache[v] \in {None, conn[v]} => ResolveDevicePath(v) \in {None, conn[v]}
  BY DevicesAssumption DEF ResolveDevicePath, FindDeviceByNQN, Present, Sources, TypeOK, NvmeTypeOK

LEMMA NvmeKept ==
  ASSUME TypeOK, CallsSound, NvmeSound, NEW p \in Procs, NEW c, Moves(p, c),
         NvmeEffect(Vol(p)), GhostEffect(Vol(p)), DeviceEffect(p, c)
  PROVE  NvmeSound'
<1> PICK v \in Volumes : v = Vol(p)
  BY ProcFacts
<1>1. ASSUME NEW u \in Volumes, NEW w \in Volumes, conn'[u] \in Devices, conn'[u] = conn'[w]
      PROVE  u = w
  <2>1. CASE conn'[u] = conn[u] /\ conn'[w] = conn[w]
    BY <1>1, <2>1, Zenon DEF NvmeSound
  <2>2. ASSUME NEW x \in Volumes, NEW y \in Volumes, conn'[x] # conn[x],
               conn'[x] \in Devices, conn'[x] = conn'[y], x # y
        PROVE  FALSE
    <3>1. x = v /\ conn'[y] = conn[y] /\ conn'[x] \notin Present
      BY <2>2 DEF NvmeEffect
    <3> QED
      BY <2>2, <3>1 DEF Present
  <2> QED
    BY <1>1, <2>1, <2>2
<1>2. ASSUME NEW w \in Volumes, Clean(w)'
      PROVE  /\ cache'[w] \in {None, conn'[w]} /\ Current(w)'.dev \in {None, conn'[w]}
             /\ w \notin wrong'
  <2>1. Clean(w)
    BY <1>2 DEF Clean, Befell, GhostEffect
  <2>2. cache[w] \in {None, conn[w]} /\ Current(w).dev \in {None, conn[w]} /\ w \notin wrong
    BY <2>1 DEF NvmeSound
  <2>3. w \notin wrong'
    BY <2>1, <2>2 DEF GhostEffect
  <2>4. cache'[w] \in {None, conn'[w]}
    BY <2>2 DEF NvmeEffect
  <2>5. Current(w)'.dev \in {None, conn'[w]}
    <3>1. CASE w # v
      <4>1. Current(w)' = Current(w) /\ conn'[w] = conn[w]
        BY <3>1, NotMoved, Zenon DEF NvmeEffect
      <4> QED
        BY <2>2, <4>1, Zenon
    <3>2. CASE w = v
      <4>1. ~Late(p)
        BY <2>1, <3>2, NotLate DEF Clean
      <4>2. Current(w)' = c /\ call[p].dev \in {None, conn[w]}
        BY <2>2, <3>2, <4>1, MovedHere, ProcCalls, Zenon
      <4> QED
        BY <2>2, <3>2, <4>2, Resolved DEF DeviceEffect
    <3> QED
      BY <3>1, <3>2
  <2> QED
    BY <2>3, <2>4, <2>5
<1> QED
  BY <1>1, <1>2 DEF NvmeSound

LEMMA MountedHeld ==
  ASSUME NEW v \in Volumes
  PROVE  Mounted(v) \subseteq Held
  BY DEF Mounted, Held

LEMMA PathsKept ==
  ASSUME TypeOK, PathsSound, NEW v \in Volumes, NvmeEffect(v), GhostEffect(v), MountEffect(v)
  PROVE  PathsSound'
<1> SUFFICES ASSUME NEW u \in Volumes \ wrong', NEW w \in Volumes,
                    conn'[w] \in Devices, conn'[w] \in Mounted(u)'
             PROVE  w = u
  BY DEF PathsSound, MountEffect
<1>1. u \notin wrong
  BY DEF GhostEffect
<1>2. CASE conn'[w] \in Mounted(u)
  <2>1. conn'[w] = conn[w]
    BY <1>2, MountedHeld DEF NvmeEffect
  <2> QED
    BY <1>1, <1>2, <2>1 DEF PathsSound
<1>3. CASE conn'[w] \notin Mounted(u)
  <2>1. u = v /\ conn' = conn /\ Own(v, conn'[w])
    BY <1>3 DEF MountEffect
  <2> QED
    BY <2>1 DEF Own
<1> QED
  BY <1>2, <1>3

LEMMA DataSoundKept ==
  ASSUME TypeOK, CallsSound, DataSound, NEW p \in Procs, NEW c, Moves(p, c),
         NvmeEffect(Vol(p)), GhostEffect(Vol(p)), DataEffect(p, c)
  PROVE  DataSound'
<1> SUFFICES ASSUME NEW w \in Volumes, ~Befell(w, "late")', Current(w)'.at = "mkfs",
                    Current(w)'.dev = conn'[w], conn'[w] \in Devices
             PROVE  content'[w] # "data"
  BY DEF DataSound, FormatSound, GhostEffect
<1>1. ~Befell(w, "late")
  BY DEF Befell, GhostEffect
<1>2. CASE w = Vol(p)
  <2>1. ~Late(p)
    BY <1>1, <1>2, NotLate, Zenon
  <2>2. Current(w)' = c
    BY <1>2, <2>1, MovedHere, Zenon
  <2> QED
    BY <1>1, <1>2, <2>1, <2>2 DEF DataEffect
<1>3. CASE w # Vol(p)
  <2>1. Current(w)' = Current(w) /\ conn'[w] = conn[w]
    BY <1>3, MovedCalls DEF NvmeEffect
  <2> QED
    BY <1>1, <2>1, Zenon DEF DataSound, FormatSound, DataEffect
<1> QED
  BY <1>2, <1>3

(* A step that has these effects preserves the invariant.                  *)
LEMMA HandlerKeeps ==
  ASSUME NodeInv, NEW p \in Procs, NEW c, Moves(p, c), NvmeEffect(Vol(p)), MountEffect(Vol(p)),
         GhostEffect(Vol(p)), DataEffect(p, c), DeviceEffect(p, c),
         breaker' \in [Volumes -> BreakerRecord], Works \/ Fault
  PROVE  NodeInv'
<1> PICK v \in Volumes : v = Vol(p)
  BY ProcFacts
<1>1. TypeOK /\ CallsSound /\ NvmeSound /\ PathsSound /\ DataSound
  BY DEF NodeInv
<1>2. faults' \in 0 .. MaxFaults
  BY <1>1, FaultsBounded, ZenonT(30)
<1>3. call' \in [Procs -> CallRecord] /\ pod' \in [Volumes -> Phases]
  BY <1>1, MovedCalls
<1>4. wrong' \subseteq Volumes
  BY <1>1 DEF GhostEffect, TypeOK
<1>5. TypeOK'
  BY <1>2, <1>3, <1>4, Zenon DEF TypeOK, NvmeEffect, MountEffect, GhostEffect, DataEffect
<1>6. CallsSound' /\ NvmeSound'
  BY <1>1, CallsKept, NvmeKept DEF GhostEffect
<1>7. PathsSound' /\ DataSound'
  BY <1>1, PathsKept, DataSoundKept
<1> QED
  BY <1>5, <1>6, <1>7 DEF NodeInv

-----------------------------------------------------------------------------
(* How a handler goes on, and what it does to connection and cache.        *)
LEMMA GotoMoves ==
  ASSUME TypeOK, CallsSound, NEW p \in Procs, NEW c \in CallRecord, NEW at \in Places,
         Goto(p, c, at), call[p] # Idle, c.op = call[p].op,
         WellFormed(Vol(p), [c EXCEPT !.at = at])
  PROVE  Moves(p, [c EXCEPT !.at = at])
<1>1. [c EXCEPT !.at = at] \in CallRecord /\ [c EXCEPT !.at = at].op = c.op
  BY DEF CallRecord
<1> QED
  BY <1>1 DEF Goto, Moves

LEMMA ReturnMoves ==
  ASSUME TypeOK, CallsSound, NEW p \in Procs, NEW c, c.op = call[p].op, call[p] # Idle,
         NEW ok \in BOOLEAN, Return(p, c, ok)
  PROVE  Moves(p, Idle) /\ (~ok => pod' = pod)
  BY IdleFacts DEF Return, Moves

LEMMA NvmeSame ==
  ASSUME TypeOK, NEW v \in Volumes, UNCHANGED nvmeVars
  PROVE  NvmeEffect(v)
  BY DEF TypeOK, NvmeTypeOK, nvmeVars, NvmeEffect

LEMMA NvmeResolve ==
  ASSUME TypeOK, NEW v \in Volumes, UNCHANGED conn, Resolve(v) \/ UNCHANGED cache
  PROVE  NvmeEffect(v)
<1>1. CASE UNCHANGED cache
  BY <1>1, NvmeSame DEF nvmeVars
<1>2. CASE cache' = [cache EXCEPT ![v] = ResolveDevicePath(v)]
  BY <1>2, Resolved DEF TypeOK, NvmeTypeOK, NvmeEffect, Sources
<1> QED
  BY <1>1, <1>2 DEF Resolve

LEMMA NvmeInvalidate ==
  ASSUME TypeOK, NEW v \in Volumes, UNCHANGED conn, Invalidate(v)
  PROVE  NvmeEffect(v)
  BY DEF TypeOK, NvmeTypeOK, NvmeEffect, Invalidate

LEMMA NvmeDisconnect ==
  ASSUME TypeOK, NEW v \in Volumes, DisconnectStep(v)
  PROVE  NvmeEffect(v) /\ (Works \/ Fault)
<1>1. CASE UNCHANGED nvmeVars
  BY <1>1, NvmeSame DEF DisconnectStep
<1>2. CASE Works /\ Disconnect(v)
  <2>1. NvmeTypeOK'
    BY <1>2 DEF TypeOK, NvmeTypeOK, Disconnect, Invalidate
  <2> QED
    BY <1>2, <2>1, DevicesAssumption DEF TypeOK, NvmeTypeOK, NvmeEffect, Disconnect, Invalidate
<1> QED
  BY <1>1, <1>2 DEF DisconnectStep

LEMMA NvmeConnect ==
  ASSUME TypeOK, NEW v \in Volumes, ~IsConnected(v), UNCHANGED cache,
         Connect(v, Held) \/ conn' = [conn EXCEPT ![v] = Orphaned]
  PROVE  NvmeEffect(v)
<1>1. conn[v] = None
  BY DEF IsConnected
<1>2. CASE Connect(v, Held)
  <2>1. PICK d \in Devices \ (Present \cup Held) : conn' = [conn EXCEPT ![v] = d]
    BY <1>2, Zenon DEF Connect, Free
  <2> QED
    BY <1>1, <2>1 DEF TypeOK, NvmeTypeOK, NvmeEffect
<1>3. CASE conn' = [conn EXCEPT ![v] = Orphaned]
  BY <1>1, <1>3, DevicesAssumption DEF TypeOK, NvmeTypeOK, NvmeEffect
<1> QED
  BY <1>2, <1>3

LEMMA OwnerIs ==
  ASSUME NvmeSound, NEW v \in Volumes, NEW d, d = conn[v], d \in Devices
  PROVE  OwnerOf(d) = v
  BY Zenon DEF NvmeSound, OwnerOf

(* The target paths still fit if they stay, and no pod starts to run.      *)
LEMMA FitsKept ==
  ASSUME TypeOK, CallsSound, PathsSound, NEW p \in Procs, NEW c, Moves(p, c),
         history \subseteq history', UNCHANGED target, pod'[Vol(p)] = "running" => pod' = pod
  PROVE  \A w \in Volumes : Fits(w)'
<1> SUFFICES ASSUME NEW w \in Volumes, ~Befell(w, "late")
             PROVE  /\ Len(target[w]) <= 1
                    /\ pod'[w] \in {"stage", "publish"} => target[w] = << >>
                    /\ pod'[w] = "running" => target[w] # << >>
  BY DEF Fits, Befell
<1>1. Fits(w)
  BY DEF PathsSound
<1>2. CASE pod'[w] = pod[w]
  BY <1>1, <1>2 DEF Fits
<1>3. CASE pod'[w] # pod[w]
  <2>1. w = Vol(p) /\ pod'[w] = NextPhase[pod[w]] /\ call[p] # Idle /\ ~Late(p)
    BY <1>3, MovedCalls, Zenon
  <2>2. pod[w] \in {"stage", "publish", "unpublish", "unstage"}
    <3>1. Current(w) = call[p]
      BY <2>1, ProcCalls, Zenon
    <3>2. call[p].op = pod[w] /\ WellFormed(w, call[p])
      BY <2>1, <3>1, Zenon DEF CallsSound
    <3>3. call[p].op \in {"stage", "publish", "unpublish", "unstage"}
      BY <2>1, <3>2, Zenon DEF WellFormed
    <3> QED
      BY <3>2, <3>3, Zenon
  <2>3. pod'[w] \in {"publish", "unstage", "out"} /\ (pod'[w] = "publish" => pod[w] = "stage")
    BY <1>3, <2>1, <2>2, PhaseFollows, Zenon
  <2> QED
    BY <1>1, <2>3 DEF Fits
<1> QED
  BY <1>2, <1>3

(* A step that leaves mounts, volumes and ghosts alone.                    *)
LEMMA QuietStep ==
  ASSUME NodeInv, NEW p \in Procs, NEW c, Moves(p, c), NvmeEffect(Vol(p)), DeviceEffect(p, c),
         UNCHANGED <<mountVars, content, ghostVars>>,
         pod'[Vol(p)] = "running" => pod' = pod,
         c.at = "mkfs" => \/ c = call[p] /\ UNCHANGED conn
                          \/ /\ c.dev \in Present /\ content[OwnerOf(c.dev)] # "data"
                             /\ UNCHANGED conn,
         breaker' \in [Volumes -> BreakerRecord], Works \/ Fault
  PROVE  NodeInv'
<1> PICK v \in Volumes : v = Vol(p)
  BY ProcFacts
<1>1. TypeOK /\ CallsSound /\ NvmeSound /\ PathsSound /\ DataSound
  BY DEF NodeInv
<1>2. GhostEffect(v)
  BY <1>1 DEF GhostEffect, ghostVars, TypeOK, DataSound, DataKept, Befell
<1>3. MountEffect(v)
  BY <1>1, FitsKept, Zenon DEF MountEffect, mountVars, ghostVars, TypeOK, Mounted
<1>4. DataEffect(p, c)
  <2>1. ASSUME ~Late(p), ~Befell(v, "late"), c.at = "mkfs", c.dev = conn'[v], c.dev \in Devices
        PROVE  content[v] # "data"
    <3>1. CASE c = call[p] /\ UNCHANGED conn
      <4>1. c = Current(v)
        BY <2>1, <3>1, ProcFacts, ZenonT(30) DEF Current, Late
      <4> QED
        BY <1>1, <2>1, <3>1, <4>1, ZenonT(30) DEF DataSound, FormatSound
    <3>2. CASE c.dev \in Present /\ content[OwnerOf(c.dev)] # "data" /\ UNCHANGED conn
      <4>1. OwnerOf(c.dev) = v
        BY <1>1, <2>1, <3>2, OwnerIs DEF Present
      <4> QED
        BY <3>2, <4>1, Zenon
    <3> QED
      BY <2>1, <3>1, <3>2, Zenon
  <2> QED
    BY <1>1, <2>1, Zenon DEF DataEffect, TypeOK
<1> QED
  BY <1>2, <1>3, <1>4, HandlerKeeps

(* Where a call of operation c.op may go next.                             *)
Leads(v, c, at) ==
  \/ c.op = "stage" /\ at \in StageAts /\ c.dev = None
  \/ c.op = "stage" /\ at \in FsAts /\ v \notin Block
  \/ c.op = "publish" /\ at \in BindAts /\ v \notin Block /\ c.dev = None
  \/ c.op = "unstage" /\ at \in UnstageAts /\ c.dev = None
  \/ c.op = "unstage" /\ at \in ProbeAts

LEMMA LeadsWell ==
  ASSUME NEW v, NEW c \in CallRecord, NEW at, Leads(v, c, at)
  PROVE  at \in Places /\ WellFormed(v, [c EXCEPT !.at = at]) /\ c # Idle
<1>1. at \in Places /\ c # Idle
  BY IdleFacts DEF Leads, Places, StageAts, FsAts, BindAts, UnstageAts, ProbeAts
<1> DEFINE d == [c EXCEPT !.at = at]
<1>2. d.op = c.op /\ d.at = at /\ d.dev = c.dev
  BY DEF CallRecord
<1> HIDE DEF d
<1>3. WellFormed(v, d)
  BY <1>2 DEF WellFormed, Leads, StageAts, FsAts, BindAts, UnstageAts, ProbeAts
<1> QED
  BY <1>1, <1>3 DEF d

LEMMA QuietGoto ==
  ASSUME NodeInv, NEW p \in Procs, NEW c \in CallRecord, NEW at, Goto(p, c, at),
         c.op = call[p].op, Leads(Vol(p), c, at), at # "mkfs", NvmeEffect(Vol(p)),
         c.dev \in {None, call[p].dev, ResolveDevicePath(Vol(p))},
         conn'[Vol(p)] # conn[Vol(p)] => c.dev = None,
         UNCHANGED <<mountVars, content, ghostVars>>,
         breaker' \in [Volumes -> BreakerRecord], Works \/ Fault
  PROVE  NodeInv'
<1>1. /\ TypeOK /\ CallsSound /\ call[p] # Idle /\ at \in Places
      /\ WellFormed(Vol(p), [c EXCEPT !.at = at])
  BY LeadsWell, IdleFacts, Zenon DEF NodeInv, Leads
<1>2. Moves(p, [c EXCEPT !.at = at]) /\ pod' = pod
  BY <1>1, GotoMoves, Zenon DEF Goto
<1>3. [c EXCEPT !.at = at].at = at /\ [c EXCEPT !.at = at].dev = c.dev
  BY DEF CallRecord
<1> PICK d : d = [c EXCEPT !.at = at]
  BY Zenon
<1>4. DeviceEffect(p, d) /\ d.at # "mkfs"
  BY <1>3, Zenon DEF DeviceEffect
<1> QED
  BY <1>2, <1>4, QuietStep, Zenon

LEMMA QuietReturn ==
  ASSUME NodeInv, NEW p \in Procs, NEW c, c.op = call[p].op, call[p] # Idle,
         NEW ok \in BOOLEAN, Return(p, c, ok), ok => c.op # "publish", NvmeEffect(Vol(p)),
         UNCHANGED <<mountVars, content, ghostVars>>,
         breaker' \in [Volumes -> BreakerRecord], Works \/ Fault
  PROVE  NodeInv'
<1> PICK v \in Volumes : v = Vol(p)
  BY ProcFacts
<1>1. TypeOK /\ CallsSound
  BY DEF NodeInv
<1>2. Moves(p, Idle)
  BY <1>1, ReturnMoves, Zenon
<1>3. pod'[v] = "running" => pod' = pod
  <2>1. CASE pod' = pod
    BY <2>1
  <2>2. CASE ok /\ pod' = [pod EXCEPT ![v] = NextPhase[c.op]]
    <3>1. c.op \in {"stage", "unpublish", "unstage"}
      BY <1>1, <2>2, ZenonT(30) DEF CallsSound, WellFormed
    <3> QED
      BY <1>1, <2>2, <3>1, PhaseFollows, Zenon DEF TypeOK
  <2> QED
    BY <2>1, <2>2, ZenonT(30) DEF Return
<1>4. DeviceEffect(p, Idle) /\ Idle.at # "mkfs"
  BY IdleFacts, ZenonT(40) DEF DeviceEffect
<1> QED
  BY <1>2, <1>3, <1>4, QuietStep

-----------------------------------------------------------------------------
(* NodeStageVolume: the connection.                                        *)
LEMMA CallStarts ==
  ASSUME NodeInv, NEW v \in Volumes, Calls(v)
  PROVE  NodeInv'
<1>1. TypeOK /\ CallsSound
  BY DEF NodeInv
<1> PICK p \in Procs : p = <<v, "current">>
  BY ProcFacts, Zenon
<1>2. Vol(p) = v /\ ~Late(p)
  BY DEF Vol, Late
<1>3. PICK op, at : /\ Starts(v, op, at)
                    /\ <<op, at>> \in {<<"stage", "list">>, <<"publish", "publish">>,
                                       <<"unpublish", "unpublish">>, <<"unstage", "unstage">>}
  BY DEF Calls, NodeStageVolume, NodePublishVolume, NodeUnpublishVolume, NodeUnstageVolume
<1> PICK c : c = [op |-> op, at |-> at, dev |-> None, tries |-> 0]
  BY Zenon
<1>4. c \in CallRecord /\ WellFormed(v, c) /\ c.at # "mkfs" /\ c.dev = None /\ c.op = op
  BY <1>3 DEF CallRecord, Phases, Places, Sources, WellFormed, StageAts, FsAts, BindAts,
     UnstageAts, ProbeAts
<1>5. call[p] = Idle /\ pod[v] = op /\ call' = [call EXCEPT ![p] = c] /\ pod' = pod
  <2>1. [Frame(op) EXCEPT !.at = at] = c
    <3>1. Frame(op) = [op |-> op, at |-> "none", dev |-> None, tries |-> 0]
      BY SMT DEF Frame, Idle
    <3> QED
      BY <3>1, SMT
  <2>2. /\ call[p] = Idle /\ pod[v] = op /\ pod' = pod
        /\ call' = [call EXCEPT ![p] = [Frame(op) EXCEPT !.at = at]]
    BY <1>3, Zenon DEF Starts, MayCall, Goto
  <2> QED
    BY <2>1, <2>2, Zenon
<1>6. Moves(p, c)
  BY <1>2, <1>4, <1>5 DEF Moves
<1>7. UNCHANGED <<nvmeVars, mountVars, content, breaker, faults, ghostVars>>
  BY <1>3 DEF Starts
<1>8. NvmeEffect(v) /\ breaker' \in [Volumes -> BreakerRecord] /\ Works
  BY <1>1, <1>7, NvmeSame, ZenonT(30) DEF TypeOK, Works
<1> QED
  BY <1>2, <1>4, <1>5, <1>6, <1>7, <1>8, QuietStep, Zenon DEF DeviceEffect

LEMMA GotDeviceKeeps ==
  ASSUME NodeInv, NEW p \in Procs, NEW c, c = call[p], c.op = "stage",
         NEW d \in Sources, d = ResolveDevicePath(Vol(p)), GotDevice(p, c, d),
         UNCHANGED conn, NvmeEffect(Vol(p)), UNCHANGED <<mountVars, content, ghostVars>>,
         breaker' \in [Volumes -> BreakerRecord], Works \/ Fault
  PROVE  NodeInv'
<1>1. c \in CallRecord /\ call[p] # Idle
  BY CallFacts, IdleFacts DEF NodeInv
<1>2. CASE Vol(p) \in Block
  BY <1>1, <1>2, QuietReturn, Zenon DEF GotDevice
<1>3. CASE Vol(p) \notin Block
  <2> PICK e : e = [c EXCEPT !.dev = d, !.tries = 0]
    OBVIOUS
  <2>1. e \in CallRecord /\ e.op = "stage" /\ e.dev = d
    BY <1>1, Zenon DEF CallRecord
  <2>2. Goto(p, e, "execute")
    BY <1>3, Zenon DEF GotDevice
  <2>3. Leads(Vol(p), e, "execute")
    BY <1>3, <2>1 DEF Leads, FsAts
  <2> QED
    BY <2>1, <2>2, <2>3, QuietGoto, Zenon
<1> QED
  BY <1>2, <1>3, ZenonT(30)

LEMMA AgainKeeps ==
  ASSUME NodeInv, NEW p \in Procs, NEW c, c = call[p], NEW limit, NEW at, Again(p, c, limit, at),
         Leads(Vol(p), c, at), at # "mkfs", c.dev = None,
         NvmeEffect(Vol(p)), UNCHANGED <<mountVars, content, ghostVars>>,
         breaker' \in [Volumes -> BreakerRecord], Works \/ Fault
  PROVE  NodeInv'
<1>1. c \in CallRecord /\ call[p] # Idle
  BY CallFacts, LeadsWell, Zenon DEF NodeInv
<1>2. CASE Return(p, c, FALSE)
  BY <1>1, <1>2, QuietReturn, Zenon
<1>3. CASE Goto(p, [c EXCEPT !.tries = @ + 1], at)
  <2> PICK e : e = [c EXCEPT !.tries = @ + 1]
    BY Zenon
  <2>1. e \in CallRecord /\ e.op = c.op /\ e.dev = c.dev
    BY <1>1 DEF CallRecord
  <2>2. Leads(Vol(p), e, at)
    BY <2>1 DEF Leads
  <2> QED
    BY <1>3, <2>1, <2>2, QuietGoto, Zenon
<1> QED
  BY <1>2, <1>3, Zenon DEF Again

LEMMA ConnectSteps ==
  ASSUME NodeInv, NEW p \in Procs,
         List(p) \/ OrphanCheck(p) \/ Renew(p) \/ ConnectCmd(p) \/ WaitForDevice(p) \/ GiveUpWait(p)
  PROVE  NodeInv'
<1> PICK c : c = call[p]
  BY Zenon
<1> PICK v \in Volumes : v = Vol(p)
  BY ProcFacts
<1>1. /\ TypeOK /\ CallsSound /\ c \in CallRecord /\ c.at \in StageAts
      /\ UNCHANGED <<mountVars, content, ghostVars>>
      /\ breaker' \in [Volumes -> BreakerRecord]
  <2>1. c.at \in StageAts /\ UNCHANGED <<mountVars, content, breaker, ghostVars>>
    BY Zenon DEF List, OrphanCheck, Renew, ConnectCmd, WaitForDevice, GiveUpWait, StageAts
  <2> QED
    BY <2>1, CallFacts, Zenon DEF NodeInv, TypeOK
<1>2. c.op = "stage" /\ c.dev = None /\ call[p] # Idle
  BY <1>1, CallFacts, IdleFacts, ZenonT(30) DEF WellFormed, StageAts, FsAts, ProbeAts
<1>3. \A at \in StageAts : Leads(v, c, at) /\ at # "mkfs"
  BY <1>2, ZenonT(30) DEF Leads, StageAts
<1>4. ASSUME NEW at \in StageAts, Goto(p, c, at), NvmeEffect(v), Works \/ Fault
      PROVE  NodeInv'
  BY <1>1, <1>2, <1>3, <1>4, QuietGoto, Zenon
<1>5. ASSUME Return(p, c, FALSE), NvmeEffect(v), Works \/ Fault
      PROVE  NodeInv'
  BY <1>1, <1>2, <1>5, QuietReturn, Zenon
<1>6. ASSUME Again(p, c, ConnectTries, "list"), NvmeEffect(v), Works \/ Fault
      PROVE  NodeInv'
  BY <1>1, <1>2, <1>3, <1>6, AgainKeeps, Zenon DEF StageAts
<1>7. ASSUME GotDevice(p, c, ResolveDevicePath(v)), UNCHANGED conn, Resolve(v), Works \/ Fault
      PROVE  NodeInv'
  <2>1. NvmeEffect(v) /\ ResolveDevicePath(v) \in Sources
    BY <1>1, <1>7, NvmeResolve, Resolved, Zenon
  <2> PICK d \in Sources : d = ResolveDevicePath(v)
    BY <2>1
  <2> QED
    BY <1>1, <1>2, <1>7, <2>1, GotDeviceKeeps, Zenon
<1>8. CASE List(p)
  <2>1. NvmeEffect(v) /\ (Works \/ Fault)
    BY <1>1, <1>8, NvmeSame, Zenon DEF List
  <2>2. \E at \in StageAts : Goto(p, c, at)
    BY <1>8, Zenon DEF List, StageAts
  <2> QED
    BY <1>4, <2>1, <2>2, Zenon
<1>9. CASE OrphanCheck(p)
  <2>1. CASE Works /\ Invalidate(v) /\ Goto(p, c, "renew")
    <3>1. NvmeEffect(v)
      BY <1>1, <1>9, <2>1, NvmeInvalidate, Zenon DEF OrphanCheck
    <3> QED
      BY <1>4, <2>1, <3>1, ZenonT(30) DEF StageAts
  <2>2. CASE /\ Works \/ Fault
             /\ Resolve(v)
             /\ Return(p, c, FALSE) \/ GotDevice(p, c, ResolveDevicePath(v))
    <3>1. NvmeEffect(v) /\ UNCHANGED conn
      BY <1>1, <1>9, <2>2, NvmeResolve, ZenonT(40) DEF OrphanCheck
    <3> QED
      BY <1>5, <1>7, <2>2, <3>1, Zenon
  <2> QED
    BY <1>9, <2>1, <2>2, Zenon DEF OrphanCheck
<1>10. CASE Renew(p)
  <2>1. NvmeEffect(v) /\ (Works \/ Fault)
    BY <1>1, <1>10, NvmeDisconnect DEF Renew
  <2> QED
    BY <1>4, <1>10, <2>1, Zenon DEF Renew, StageAts
<1>11. CASE ConnectCmd(p)
  <2>1. (Works \/ Fault) /\ cache' = cache
    BY <1>11, Zenon DEF ConnectCmd
  <2>2. NvmeEffect(v)
    <3>1. CASE UNCHANGED conn
      BY <1>1, <2>1, <3>1, NvmeSame DEF nvmeVars
    <3>2. CASE ~IsConnected(v) /\ (Connect(v, Held) \/ conn' = [conn EXCEPT ![v] = Orphaned])
      BY <1>1, <2>1, <3>2, NvmeConnect
    <3> QED
      BY <1>11, <3>1, <3>2, Zenon DEF ConnectCmd
  <2>3. Goto(p, c, "wait") \/ Return(p, c, FALSE) \/ Again(p, c, ConnectTries, "list")
    BY <1>11, Zenon DEF ConnectCmd
  <2> QED
    BY <1>4, <1>5, <1>6, <2>1, <2>2, <2>3, Zenon DEF StageAts
<1>12. CASE WaitForDevice(p)
  <2>1. UNCHANGED conn /\ Resolve(v) /\ Works
    BY <1>12, Zenon DEF WaitForDevice, Works
  <2>2. NvmeEffect(v)
    BY <1>1, <2>1, NvmeResolve
  <2>3. GotDevice(p, c, ResolveDevicePath(v)) \/ Goto(p, c, "give_up_wait")
    BY <1>12, Zenon DEF WaitForDevice
  <2> QED
    BY <1>4, <1>7, <2>1, <2>2, <2>3 DEF StageAts
<1>13. CASE GiveUpWait(p)
  <2>1. NvmeEffect(v) /\ (Works \/ Fault)
    BY <1>1, <1>13, NvmeDisconnect DEF GiveUpWait
  <2> QED
    BY <1>5, <1>6, <1>13, <2>1, Zenon DEF GiveUpWait
<1> QED
  BY <1>8, <1>9, <1>10, <1>11, <1>12, <1>13, Zenon

-----------------------------------------------------------------------------
(* NodeStageVolume: the filesystem, under the breaker.                     *)
LEMMA BreakerKinds ==
  ASSUME NEW b \in BreakerRecord, NEW r \in {"current", "late"}
  PROVE  /\ Closed \in BreakerRecord /\ Open \in BreakerRecord /\ Half \in BreakerRecord
         /\ AfterSuccess(b, r) \in BreakerRecord /\ AfterFailure(b, r) \in BreakerRecord
         /\ [b EXCEPT !.admitted = @ \cup {r}] \in BreakerRecord
<1>1. Trip \in Nat /\ Trip >= 1 /\ b.failures \in 0 .. Trip - 1 /\ 0 \in 0 .. Trip - 1
  BY NodeAssumption DEF BreakerRecord
<1>2. Closed \in BreakerRecord /\ Open \in BreakerRecord /\ Half \in BreakerRecord
  BY <1>1 DEF Closed, Open, Half, BreakerRecord
<1>3. Counted(b, r) \in BreakerRecord /\ Counted(b, r).failures = b.failures
  BY DEF Counted, BreakerRecord
<1>4. AfterSuccess(b, r) \in BreakerRecord
  BY <1>1, <1>2, <1>3 DEF AfterSuccess, BreakerRecord
<1>5. AfterFailure(b, r) \in BreakerRecord
  <2>1. CASE b.failures + 1 < Trip
    <3>1. b.failures + 1 \in 0 .. Trip - 1
      BY <1>1, <2>1
    <3>2. [Counted(b, r) EXCEPT !.failures = @ + 1] \in BreakerRecord
      BY <1>3, <3>1 DEF BreakerRecord
    <3> QED
      BY <1>2, <3>2, Zenon DEF AfterFailure
  <2>2. CASE ~(b.failures + 1 < Trip)
    <3>1. b.failures + 1 >= Trip
      BY <1>1, <2>2
    <3> QED
      BY <1>2, <3>1, Zenon DEF AfterFailure
  <2> QED
    BY <2>1, <2>2
<1>6. [b EXCEPT !.admitted = @ \cup {r}] \in BreakerRecord
  BY DEF BreakerRecord
<1> QED
  BY <1>2, <1>4, <1>5, <1>6

LEMMA BreakerTyped ==
  ASSUME TypeOK, NEW p \in Procs,
         \/ AfterRequest(p, AfterFailure(breaker[Vol(p)], p[2]))
         \/ AfterRequest(p, AfterSuccess(breaker[Vol(p)], p[2]))
         \/ breaker' = [breaker EXCEPT ![Vol(p)].admitted = @ \cup {p[2]}]
         \/ UNCHANGED breaker
  PROVE  breaker' \in [Volumes -> BreakerRecord]
<1>1. Vol(p) \in Volumes /\ p[2] \in {"current", "late"} /\ breaker \in [Volumes -> BreakerRecord]
  BY ProcFacts DEF TypeOK
<1>2. PICK b \in BreakerRecord : b = breaker[Vol(p)]
  BY <1>1
<1>3. \A e \in BreakerRecord : [breaker EXCEPT ![Vol(p)] = e] \in [Volumes -> BreakerRecord]
  BY <1>1
<1>4. CASE breaker' = [breaker EXCEPT ![Vol(p)].admitted = @ \cup {p[2]}]
  <2>1. breaker' = [breaker EXCEPT ![Vol(p)] = [b EXCEPT !.admitted = @ \cup {p[2]}]]
    BY <1>2, <1>4
  <2> QED
    BY <1>1, <1>2, <1>3, <2>1, BreakerKinds, Zenon
<1>5. ASSUME NEW e \in BreakerRecord, AfterRequest(p, e) PROVE breaker' \in [Volumes -> BreakerRecord]
  BY <1>1, <1>5 DEF AfterRequest
<1>6. AfterFailure(b, p[2]) \in BreakerRecord /\ AfterSuccess(b, p[2]) \in BreakerRecord
  BY <1>1, BreakerKinds, Zenon
<1> QED
  BY <1>1, <1>2, <1>4, <1>5, <1>6

LEMMA PrepareSteps ==
  ASSUME NodeInv, NEW p \in Procs,
         \/ Execute(p) \/ IsFormatted(p) \/ CheckFilesystemHealth(p) \/ Cleanup(p)
  PROVE  NodeInv'
<1> PICK c : c = call[p]
  BY Zenon
<1> PICK v \in Volumes : v = Vol(p)
  BY ProcFacts
<1>1. /\ TypeOK /\ CallsSound /\ c \in CallRecord /\ c.at \in FsAts
      /\ UNCHANGED <<mountVars, content, ghostVars>>
  <2>1. c.at \in FsAts /\ UNCHANGED <<mountVars, content, ghostVars>>
    BY Zenon DEF Execute, IsFormatted, CheckFilesystemHealth, Cleanup, FsAts
  <2> QED
    BY <2>1, CallFacts, Zenon DEF NodeInv
<1>2. c.op = "stage" /\ call[p] # Idle /\ v \notin Block
  BY <1>1, CallFacts, IdleFacts, ZenonT(30) DEF WellFormed
<1>3. ASSUME NEW e \in CallRecord, e.op = "stage", e.dev = c.dev,
             \/ Goto(p, e, "blkid") \/ Goto(p, e, "fsck") \/ Goto(p, e, "format")
             \/ Goto(p, e, "cleanup"),
             UNCHANGED nvmeVars, Works \/ Fault, breaker' \in [Volumes -> BreakerRecord]
      PROVE  NodeInv'
  <2>1. PICK at \in FsAts : Goto(p, e, at) /\ at # "mkfs"
    BY <1>3, ZenonT(30) DEF FsAts
  <2>2. Leads(v, e, at) /\ NvmeEffect(v) /\ UNCHANGED conn
    BY <1>1, <1>2, <1>3, NvmeSame DEF Leads, nvmeVars
  <2> QED
    BY <1>1, <1>2, <1>3, <2>1, <2>2, QuietGoto, Zenon
<1>4. ASSUME NEW e \in CallRecord, e.op = "stage", e.dev = c.dev, StageFails(p, e),
             UNCHANGED nvmeVars, Works \/ Fault
      PROVE  NodeInv'
  BY <1>1, <1>3, <1>4, BreakerTyped DEF StageFails
<1>5. /\ [c EXCEPT !.tries = 0] \in CallRecord /\ [c EXCEPT !.tries = 0].op = c.op
      /\ [c EXCEPT !.tries = 0].dev = c.dev
      /\ [c EXCEPT !.tries = @ + 1] \in CallRecord /\ [c EXCEPT !.tries = @ + 1].op = c.op
      /\ [c EXCEPT !.tries = @ + 1].dev = c.dev
  BY <1>1 DEF CallRecord
<1>6. CASE Execute(p)
  <2>1. Goto(p, c, "cleanup") \/ Goto(p, c, "blkid")
    BY <1>6, Zenon DEF Execute
  <2>2. breaker' \in [Volumes -> BreakerRecord]
    BY <1>1, <1>6, BreakerTyped DEF Execute
  <2>3. UNCHANGED nvmeVars /\ Works
    BY <1>6, Zenon DEF Execute, Works
  <2> QED
    BY <1>1, <1>2, <1>3, <2>1, <2>2, <2>3, Zenon
<1>7. CASE IsFormatted(p)
  <2>1. UNCHANGED nvmeVars /\ (Works \/ Fault)
    BY <1>7, Zenon DEF IsFormatted, Blkid
  <2> DEFINE e == [c EXCEPT !.tries = 0]
             f == [c EXCEPT !.tries = @ + 1]
  <2>2. \/ UNCHANGED breaker /\ (Goto(p, e, "fsck") \/ Goto(p, e, "format") \/ Goto(p, f, "blkid"))
        \/ StageFails(p, e)
    BY <1>7, Zenon DEF IsFormatted, Blkid
  <2> HIDE DEF e, f
  <2>3. /\ e \in CallRecord /\ e.op = "stage" /\ e.dev = c.dev
        /\ f \in CallRecord /\ f.op = "stage" /\ f.dev = c.dev
    BY <1>2, <1>5 DEF e, f
  <2>4. UNCHANGED breaker => breaker' \in [Volumes -> BreakerRecord]
    BY <1>1 DEF TypeOK
  <2> QED
    BY <1>3, <1>4, <2>1, <2>2, <2>3, <2>4, Zenon
<1>8. CASE CheckFilesystemHealth(p)
  <2>1. UNCHANGED nvmeVars /\ (Works \/ Fault)
    BY <1>8, Zenon DEF CheckFilesystemHealth
  <2>2. (UNCHANGED breaker /\ Goto(p, c, "format")) \/ StageFails(p, c)
    BY <1>8, Zenon DEF CheckFilesystemHealth
  <2>3. UNCHANGED breaker => breaker' \in [Volumes -> BreakerRecord]
    BY <1>1 DEF TypeOK
  <2> QED
    BY <1>1, <1>2, <1>3, <1>4, <2>1, <2>2, <2>3, Zenon
<1>9. CASE Cleanup(p)
  <2>1. NvmeEffect(v) /\ (Works \/ Fault) /\ breaker' \in [Volumes -> BreakerRecord]
    BY <1>1, <1>9, NvmeDisconnect DEF Cleanup, TypeOK
  <2>2. Return(p, c, FALSE)
    BY <1>9, Zenon DEF Cleanup
  <2> QED
    BY <1>1, <1>2, <2>1, <2>2, QuietReturn, Zenon
<1> QED
  BY <1>6, <1>7, <1>8, <1>9, Zenon

LEMMA OwnerFacts ==
  ASSUME NEW d \in Present
  PROVE  OwnerOf(d) \in Volumes /\ conn[OwnerOf(d)] = d /\ d \in Devices
  BY Zenon DEF Present, OwnerOf

LEMMA TouchEffect ==
  ASSUME TypeOK, NvmeSound, NEW v \in Volumes, NEW d, Touch(v, d)
  PROVE  /\ wrong' \in {wrong, wrong \cup {v}}
         /\ Clean(v) /\ d \in {None, conn[v]} => wrong' = wrong
         /\ v \in wrong' \/ Own(v, d)
         /\ d \in Present /\ OwnerOf(d) # v => wrong' # {}
<1>1. wrong' \in {wrong, wrong \cup {v}} /\ (d \in Present /\ OwnerOf(d) # v => wrong' # {})
  BY Zenon DEF Touch
<1>2. ASSUME Clean(v), d \in {None, conn[v]} PROVE wrong' = wrong
  <2>1. ASSUME d \in Present PROVE OwnerOf(d) = v
    <3>1. d = conn[v] /\ d \in Devices
      BY <1>2, <2>1, DevicesAssumption DEF Present
    <3> QED
      BY <3>1, OwnerIs
  <2> QED
    BY <2>1, Zenon DEF Touch
<1>3. ASSUME v \notin wrong' PROVE Own(v, d)
  <2> SUFFICES ASSUME NEW w \in Volumes, conn[w] = d, d \in Devices PROVE w = v
    BY DEF Own
  <2>1. d \in Present /\ OwnerOf(d) = w
    BY OwnerIs DEF Present
  <2> QED
    BY <1>3, <2>1, Zenon DEF Touch
<1> QED
  BY <1>1, <1>2, <1>3, Zenon

LEMMA MountsStay ==
  ASSUME NodeInv, NEW p \in Procs, NEW c, Moves(p, c), history \subseteq history',
         UNCHANGED mountVars, pod'[Vol(p)] = "running" => pod' = pod
  PROVE  MountEffect(Vol(p))
<1>1. TypeOK /\ CallsSound /\ PathsSound
  BY ZenonT(30) DEF NodeInv
<1> QED
  BY <1>1, FitsKept, Zenon DEF MountEffect, mountVars, TypeOK, Mounted

(* A step that leaves the contents alone.                                  *)
LEMMA DataStays ==
  ASSUME TypeOK, NEW p \in Procs, NEW c, c.at # "mkfs", UNCHANGED content
  PROVE  DataEffect(p, c)
  BY DEF TypeOK, DataEffect

LEMMA FormatStep ==
  ASSUME NodeInv, NEW p \in Procs, Format(p)
  PROVE  NodeInv'
<1> PICK c : c = call[p]
  BY Zenon
<1> PICK v \in Volumes : v = Vol(p)
  BY ProcFacts, ZenonT(30)
<1>1. TypeOK /\ CallsSound /\ c \in CallRecord /\ c.at \in FsAts
  BY CallFacts, ZenonT(40) DEF NodeInv, Format, FsAts
<1>2. c.op = "stage" /\ call[p] # Idle /\ v \notin Block
  BY <1>1, CallFacts, IdleFacts DEF WellFormed
<1>3. UNCHANGED <<nvmeVars, mountVars, content, ghostVars>> /\ (Works \/ Fault)
  BY Zenon DEF Format, Blkid
<1>4. NvmeEffect(v) /\ UNCHANGED conn
  BY <1>1, <1>3, NvmeSame, ZenonT(30) DEF nvmeVars
<1>5. Leads(v, c, "mount") /\ Leads(v, c, "cleanup") /\ Leads(v, c, "mkfs")
  BY <1>2 DEF Leads, FsAts
<1>6. CASE UNCHANGED breaker /\ Goto(p, c, "mount")
  BY <1>1, <1>2, <1>3, <1>4, <1>5, <1>6, QuietGoto, Zenon DEF TypeOK
<1>7. CASE StageFails(p, c)
  BY <1>1, <1>2, <1>3, <1>4, <1>5, <1>7, QuietGoto, BreakerTyped DEF StageFails
<1>8. CASE /\ c.dev \in Present /\ content[OwnerOf(c.dev)] = "blank"
           /\ UNCHANGED breaker /\ Goto(p, c, "mkfs")
  <2> PICK e : e = [c EXCEPT !.at = "mkfs"]
    BY Zenon
  <2>1. e.dev = c.dev
    BY <1>1 DEF CallRecord
  <2>2. Moves(p, e) /\ pod' = pod
    BY <1>1, <1>2, <1>5, <1>8, LeadsWell, GotoMoves, Zenon DEF Goto
  <2> QED
    BY <1>1, <1>3, <1>4, <1>8, <2>1, <2>2, QuietStep, Zenon DEF DeviceEffect, TypeOK
<1> QED
  BY <1>6, <1>7, <1>8, Zenon DEF Format, Blkid

LEMMA MkfsStep ==
  ASSUME NodeInv, NEW p \in Procs, Mkfs(p)
  PROVE  NodeInv'
<1> PICK c : c = call[p]
  BY Zenon
<1> PICK v \in Volumes : v = Vol(p)
  BY ProcFacts
<1>1. TypeOK /\ CallsSound /\ NvmeSound /\ DataSound /\ c \in CallRecord /\ c.at \in FsAts
  BY CallFacts, ZenonT(30) DEF NodeInv, Mkfs, FsAts
<1>2. c.op = "stage" /\ call[p] # Idle /\ v \notin Block
  BY <1>1, CallFacts, IdleFacts DEF WellFormed
<1>3. UNCHANGED <<nvmeVars, mountVars, history>> /\ (Works \/ Fault)
  BY Zenon DEF Mkfs
<1>4. NvmeEffect(v) /\ UNCHANGED conn
  BY <1>1, <1>3, NvmeSame, ZenonT(30) DEF nvmeVars
<1>5. Leads(v, c, "mount") /\ Leads(v, c, "cleanup")
  BY <1>2 DEF Leads, FsAts
<1>6. CASE StageFails(p, c) /\ UNCHANGED <<content, wrong, erased>>
  BY <1>1, <1>2, <1>3, <1>4, <1>5, <1>6, QuietGoto, BreakerTyped DEF StageFails, ghostVars
<1>7. ASSUME NEW w, w = OwnerOf(c.dev), c.dev \in Present, content' = [content EXCEPT ![w] = "fs"],
             erased' = IF w \in Block \/ content[w] = "data" THEN erased \cup {w} ELSE erased,
             Touch(v, c.dev), Goto(p, c, "mount"), UNCHANGED breaker
      PROVE  NodeInv'
  <2>1. w \in Volumes /\ conn[w] = c.dev /\ c.dev \in Devices
    BY <1>7, OwnerFacts
  <2> PICK e : e = [c EXCEPT !.at = "mount"]
    BY Zenon
  <2>2. e.dev = c.dev /\ e.at = "mount"
    BY <1>1 DEF CallRecord
  <2>3. Moves(p, e) /\ pod' = pod
    BY <1>1, <1>2, <1>5, <1>7, LeadsWell, GotoMoves, Zenon DEF Goto
  <2>4. MountEffect(v)
    BY <1>3, <2>3, MountsStay
  <2>5. ASSUME Clean(v) PROVE wrong' = wrong
    <3>1. ~Late(p)
      BY <1>1, <2>3, <2>5, NotLate DEF Clean
    <3>2. c.dev \in {None, conn[v]}
      BY <1>1, <2>5, <3>1, ProcFacts DEF NvmeSound, Current, Late
    <3> QED
      BY <1>1, <1>7, <2>5, <3>2, TouchEffect
  <2>6. wrong' \in {wrong, wrong \cup {v}} /\ (w # v => wrong' # {})
    BY <1>1, <1>7, TouchEffect
  <2>7. DataKept'
    <3>1. ASSUME w = v, content[v] = "data" PROVE Befell(v, "late")
      <4>1. CASE Late(p)
        BY <1>1, <1>2, <4>1, ProcFacts DEF CallsSound, LateCall, Late
      <4>2. CASE ~Late(p)
        <5>1. c = Current(v) /\ c.at = "mkfs"
          BY <4>2, ProcFacts DEF Current, Late, Mkfs
        <5> QED
          BY <1>1, <2>1, <3>1, <5>1 DEF DataSound, FormatSound
      <4> QED
        BY <4>1, <4>2
    <3>2. \A x \in erased' \ erased : x = w /\ (w \in Block \/ content[w] = "data")
      BY <1>7
    <3>3. \A x \in erased' \ erased : Befell(x, "late") \/ wrong' # {}
      BY <1>2, <2>6, <3>1, <3>2
    <3> QED
      BY <1>1, <1>3, <2>6, <3>3, DataGrows DEF DataSound, Befell
  <2>8. GhostEffect(v)
    BY <1>1, <1>3, <1>7, <2>1, <2>5, <2>6, <2>7 DEF GhostEffect, TypeOK
  <2>9. DataEffect(p, e)
    BY <1>1, <1>7, <2>1, <2>2 DEF DataEffect, TypeOK
  <2>10. DeviceEffect(p, e) /\ breaker' \in [Volumes -> BreakerRecord]
    BY <1>1, <1>4, <1>7, <2>2, ZenonT(30) DEF DeviceEffect, TypeOK
  <2> QED
    BY <1>3, <1>4, <2>3, <2>4, <2>8, <2>9, <2>10, HandlerKeeps, ZenonT(30)
<1> QED
  BY <1>6, <1>7, Zenon DEF Mkfs

-----------------------------------------------------------------------------
(* Steps that mount and unmount.                                           *)
LEMMA FitsOthers ==
  ASSUME TypeOK, CallsSound, PathsSound, NEW p \in Procs, NEW c, Moves(p, c),
         history \subseteq history', NEW w \in Volumes, w # Vol(p), target'[w] = target[w]
  PROVE  Fits(w)'
<1>1. Fits(w) /\ pod'[w] = pod[w]
  BY MovedCalls DEF PathsSound
<1> QED
  BY <1>1, ZenonT(30) DEF Fits, Befell

(* A step for volume v that changes only its own paths.                    *)
LEMMA PathStep ==
  ASSUME NodeInv, NEW p \in Procs, NEW c, Moves(p, c), NvmeEffect(Vol(p)), DeviceEffect(p, c),
         UNCHANGED <<conn, content>>, c.at = "mkfs" => c = call[p],
         staging' \in [Volumes -> Seq(Sources)], target' \in [Volumes -> Seq(Sources)],
         \A w \in Volumes \ {Vol(p)} : staging'[w] = staging[w] /\ target'[w] = target[w],
         \A d \in Mounted(Vol(p))' \ Mounted(Vol(p)) : Vol(p) \in wrong' \/ Own(Vol(p), d),
         Fits(Vol(p))', GhostEffect(Vol(p)),
         breaker' \in [Volumes -> BreakerRecord], Works \/ Fault
  PROVE  NodeInv'
<1> PICK v \in Volumes : v = Vol(p)
  BY ProcFacts, Zenon
<1>1. TypeOK /\ CallsSound /\ PathsSound /\ DataSound
  BY DEF NodeInv
<1>2. \A w \in Volumes : Fits(w)'
  BY <1>1, FitsOthers, Zenon DEF GhostEffect
<1>3. \A w \in Volumes \ {v} : Mounted(w)' \subseteq Mounted(w)
  BY ZenonT(40) DEF Mounted
<1>4. MountEffect(v)
  BY <1>2, <1>3, Zenon DEF MountEffect
<1>5. DataEffect(p, c)
  <2>1. ASSUME ~Late(p), ~Befell(v, "late"), c.at = "mkfs", c.dev = conn[v], c.dev \in Devices
        PROVE  content[v] # "data"
    <3>1. c = Current(v)
      BY <2>1, ProcFacts, Zenon DEF Current, Late
    <3> QED
      BY <1>1, <2>1, <3>1, Zenon DEF DataSound, FormatSound
  <2> QED
    BY <1>1, <2>1, Zenon DEF DataEffect, TypeOK
<1> QED
  BY <1>4, <1>5, HandlerKeeps, Zenon

(* For a volume that nothing befell, what is mounted at its paths and what *)
(* its NQN resolves to is its own.                                         *)
LEMMA OwnPath ==
  ASSUME NodeInv, NEW v \in Volumes, Clean(v),
         NEW d \in Mounted(v) \cup {None, conn[v], ResolveDevicePath(v)}, d \in Present
  PROVE  OwnerOf(d) = v
<1> PICK w \in Volumes : w = OwnerOf(d) /\ conn[w] = d /\ d \in Devices
  BY OwnerFacts
<1>1. v \notin wrong /\ ResolveDevicePath(v) \in {None, conn[v]} /\ d # None
  BY Resolved, DevicesAssumption DEF NodeInv, NvmeSound
<1>2. CASE d \in Mounted(v)
  BY <1>1, <1>2 DEF NodeInv, PathsSound
<1>3. CASE d = conn[v]
  BY <1>3, OwnerIs DEF NodeInv
<1> QED
  BY <1>1, <1>2, <1>3

LEMMA GhostTouch ==
  ASSUME NodeInv, NEW v \in Volumes, NEW d, Touch(v, d), UNCHANGED <<history, erased>>,
         Clean(v) /\ d \in Present => OwnerOf(d) = v
  PROVE  GhostEffect(v) /\ (v \in wrong' \/ Own(v, d))
<1>1. TypeOK /\ NvmeSound /\ DataSound
  BY DEF NodeInv
<1>2. wrong' \in {wrong, wrong \cup {v}} /\ (v \in wrong' \/ Own(v, d))
  BY <1>1, TouchEffect
<1>3. Clean(v) => wrong' = wrong
  BY Zenon DEF Touch
<1>4. DataKept'
  BY <1>1, <1>2, DataGrows DEF DataSound
<1> QED
  BY <1>1, <1>2, <1>3, <1>4 DEF GhostEffect, TypeOK

LEMMA GhostSeen ==
  ASSUME NodeInv, NEW v \in Volumes, UNCHANGED <<wrong, erased>>,
         history' \in {history, history \cup {<<v, "findmnt">>}}
  PROVE  GhostEffect(v)
<1>1. TypeOK /\ DataSound /\ history \subseteq history'
  BY DEF NodeInv
<1>2. DataKept'
  BY <1>1, DataGrows DEF DataSound
<1> QED
  BY <1>1, <1>2 DEF GhostEffect, TypeOK

(* One path gets another mount, or loses its last.                         *)
LEMMA PathTyped ==
  ASSUME NEW paths \in [Volumes -> Seq(Sources)], NEW v \in Volumes, NEW path \in Seq(Sources),
         NEW after, after = [paths EXCEPT ![v] = path]
  PROVE  /\ after \in [Volumes -> Seq(Sources)] /\ after[v] = path
         /\ \A w \in Volumes \ {v} : after[w] = paths[w]
  OBVIOUS

LEMMA MountStep ==
  ASSUME NodeInv, NEW p \in Procs, Mount(p)
  PROVE  NodeInv'
<1> PICK c : c = call[p]
  BY Zenon
<1> PICK v \in Volumes : v = Vol(p)
  BY ProcFacts
<1>1. /\ TypeOK /\ CallsSound /\ NvmeSound /\ PathsSound /\ DataSound
      /\ c \in CallRecord /\ c.at \in FsAts
  BY CallFacts, Zenon DEF NodeInv, Mount, FsAts
<1>2. c.op = "stage" /\ call[p] # Idle /\ v \notin Block
  BY <1>1, CallFacts, IdleFacts DEF WellFormed
<1>3. UNCHANGED <<nvmeVars, target, content, history, erased>> /\ (Works \/ Fault)
  BY Zenon DEF Mount
<1>4. NvmeEffect(v) /\ UNCHANGED conn
  BY <1>1, <1>3, NvmeSame DEF nvmeVars
<1>5. CASE StageFails(p, c) /\ UNCHANGED <<staging, wrong>>
  <2>1. Leads(v, c, "cleanup")
    BY <1>2 DEF Leads, FsAts
  <2> QED
    BY <1>1, <1>2, <1>3, <1>4, <1>5, <2>1, QuietGoto, BreakerTyped, ZenonT(30)
    DEF StageFails, ghostVars, mountVars
<1>6. CASE /\ staging' = [staging EXCEPT ![v] = Append(@, c.dev)] /\ Touch(v, c.dev)
           /\ AfterRequest(p, AfterSuccess(breaker[Vol(p)], p[2])) /\ Return(p, c, TRUE)
  <2>1. Moves(p, Idle) /\ breaker' \in [Volumes -> BreakerRecord]
    BY <1>1, <1>2, <1>6, ReturnMoves, BreakerTyped, Zenon
  <2>2. c.dev \in Sources /\ staging[v] \in Seq(Sources)
    BY <1>1, ZenonT(30) DEF CallRecord, TypeOK
  <2>3. /\ staging' \in [Volumes -> Seq(Sources)] /\ staging'[v] = Append(staging[v], c.dev)
        /\ \A w \in Volumes \ {v} : staging'[w] = staging[w]
    BY <1>1, <1>6, <2>2, PathFacts, PathTyped, SMTT(30) DEF TypeOK
  <2>4. ASSUME Clean(v), c.dev \in Present PROVE OwnerOf(c.dev) = v
    <3>1. ~Late(p)
      BY <1>1, <2>1, <2>4, NotLate, Zenon DEF Clean
    <3>2. c.dev \in {None, conn[v]}
      BY <1>1, <2>4, <3>1, ProcFacts, ZenonT(30) DEF NvmeSound, Current, Late
    <3> QED
      BY <2>4, <3>2, OwnPath, Zenon
  <2>5. GhostEffect(v) /\ (v \in wrong' \/ Own(v, c.dev))
    BY <1>3, <1>6, <2>4, GhostTouch, Zenon
  <2>6. \A d \in Mounted(v)' \ Mounted(v) : d = c.dev
    BY <1>3, <2>2, <2>3, PathFacts DEF Mounted
  <2>7. Fits(v)'
    <3>1. pod'[v] = "running" => pod' = pod
      BY <1>1, <1>2, <1>6, PhaseFollows, ZenonT(30) DEF Return, TypeOK
    <3> QED
      BY <1>1, <1>3, <2>1, <3>1, FitsKept, ZenonT(30)
  <2>8. DeviceEffect(p, Idle) /\ Idle.at # "mkfs"
    BY IdleFacts DEF DeviceEffect
  <2> QED
    BY <1>1, <1>3, <1>4, <2>1, <2>3, <2>5, <2>6, <2>7, <2>8, PathStep, Zenon DEF TypeOK
<1> QED
  BY <1>5, <1>6, Zenon DEF Mount

-----------------------------------------------------------------------------
(* NodePublishVolume.                                                      *)

(* A handler that goes on, or ends without success, with some mounts of    *)
(* its staging path gone and perhaps a findmnt failed.                     *)
LEMMA StagingShrinks ==
  ASSUME NodeInv, NEW p \in Procs, NEW c \in CallRecord, c = call[p],
         \/ \E at : Goto(p, c, at) /\ Leads(Vol(p), c, at) /\ at # "mkfs"
         \/ Return(p, c, FALSE) /\ call[p] # Idle,
         NvmeEffect(Vol(p)), UNCHANGED <<conn, target, content, breaker, wrong, erased>>,
         history' \in {history, history \cup {<<Vol(p), "findmnt">>}},
         NEW path \in Seq(Sources), staging' = [staging EXCEPT ![Vol(p)] = path],
         Range(path) \subseteq Range(staging[Vol(p)]), Works \/ Fault
  PROVE  NodeInv'
<1> PICK v \in Volumes : v = Vol(p)
  BY ProcFacts
<1>1. TypeOK /\ CallsSound /\ PathsSound
  BY DEF NodeInv
<1>2. GhostEffect(v)
  BY GhostSeen
<1>3. PICK e : Moves(p, e) /\ pod' = pod /\ e.dev \in {None, c.dev} /\ e.at # "mkfs"
  <2>1. ASSUME NEW at, Goto(p, c, at), Leads(v, c, at), at # "mkfs"
        PROVE  LET e == [c EXCEPT !.at = at]
               IN Moves(p, e) /\ pod' = pod /\ e.dev \in {None, c.dev} /\ e.at # "mkfs"
    <3>1. at \in Places /\ WellFormed(v, [c EXCEPT !.at = at]) /\ c # Idle
      BY <2>1, LeadsWell, Zenon
    <3>2. [c EXCEPT !.at = at].at = at /\ [c EXCEPT !.at = at].dev = c.dev
      BY DEF CallRecord
    <3> QED
      BY <1>1, <2>1, <3>1, <3>2, GotoMoves, Zenon DEF Goto
  <2>2. ASSUME Return(p, c, FALSE), call[p] # Idle
        PROVE  Moves(p, Idle) /\ pod' = pod /\ Idle.dev \in {None, c.dev} /\ Idle.at # "mkfs"
    BY <1>1, <2>2, ReturnMoves, IdleFacts, Zenon
  <2> QED
    BY <2>1, <2>2, Zenon
<1>4. /\ staging' \in [Volumes -> Seq(Sources)] /\ staging'[v] = path
      /\ \A w \in Volumes \ {v} : staging'[w] = staging[w]
  BY <1>1, PathTyped, ZenonT(30) DEF TypeOK
<1>5. Mounted(v)' \subseteq Mounted(v)
  BY <1>4 DEF Mounted
<1>6. Fits(v)'
  BY <1>1, <1>2, <1>3, FitsKept, Zenon DEF GhostEffect
<1>7. DeviceEffect(p, e)
  BY <1>3, Zenon DEF DeviceEffect
<1> QED
  BY <1>1, <1>2, <1>3, <1>4, <1>5, <1>6, <1>7, PathStep, Zenon DEF TypeOK

LEMMA PublishFacts ==
  ASSUME NodeInv, NEW p \in Procs, NEW c, c = call[p], c.at \in {"publish"} \cup BindAts
  PROVE  /\ TypeOK /\ CallsSound /\ NvmeSound /\ PathsSound /\ c \in CallRecord /\ c # Idle
         /\ c.op = "publish" /\ c.dev = None
         /\ Late(p) => ~Clean(Vol(p)) /\ Befell(Vol(p), "late")
         /\ ~Befell(Vol(p), "late") => target[Vol(p)] = << >> /\ pod[Vol(p)] = "publish"
         /\ Vol(p) \notin Block => \A at \in BindAts : Leads(Vol(p), c, at) /\ at # "mkfs"
<1> PICK v \in Volumes : v = Vol(p)
  BY ProcFacts
<1>1. TypeOK /\ CallsSound /\ NvmeSound /\ PathsSound
  BY ZenonT(30) DEF NodeInv
<1>2. c \in CallRecord /\ c.op = "publish" /\ c.dev = None /\ c # Idle
  BY <1>1, CallFacts, IdleFacts, Zenon DEF WellFormed, BindAts, FsAts, ProbeAts
<1>3. Late(p) => Befell(v, "late")
  BY <1>1, <1>2, ProcCalls, Zenon DEF CallsSound
<1>4. ASSUME ~Befell(v, "late") PROVE target[v] = << >> /\ pod[v] = "publish"
  <2>1. c = Current(v)
    BY <1>3, <1>4, ProcFacts DEF Current, Late
  <2> QED
    BY <1>1, <1>2, <1>4, <2>1, Zenon DEF CallsSound, PathsSound, Fits
<1> QED
  BY <1>1, <1>2, <1>3, <1>4 DEF Clean, Leads, BindAts

LEMMA RecoverSteps ==
  ASSUME NodeInv, NEW p \in Procs, PublishCheck(p) \/ StaleCheck(p) \/ ForceUnmount(p)
  PROVE  NodeInv'
<1> PICK c : c = call[p]
  BY ZenonT(30)
<1> PICK v \in Volumes : v = Vol(p)
  BY ProcFacts, Zenon
<1>1. c.at \in {"publish"} \cup BindAts /\ (c.at \in BindAts => v \notin Block)
  <2>1. c.at \in {"publish"} \cup BindAts
    BY Zenon DEF PublishCheck, StaleCheck, ForceUnmount, BindAts
  <2> QED
    BY <2>1, CallFacts DEF NodeInv, WellFormed
<1>2. v \notin Block
  BY <1>1, Zenon DEF PublishCheck, StaleCheck, ForceUnmount, BindAts
<1>3. /\ TypeOK /\ CallsSound /\ c \in CallRecord /\ c # Idle /\ c.dev = None /\ c.op = "publish"
      /\ \A at \in BindAts : Leads(v, c, at) /\ at # "mkfs"
  BY <1>1, <1>2, PublishFacts, Zenon
<1>4. staging[v] \in Seq(Sources) /\ staging = [staging EXCEPT ![v] = staging[v]]
  BY <1>3, Zenon DEF TypeOK
<1>5. CASE PublishCheck(p)
  <2>1. /\ UNCHANGED <<nvmeVars, staging, target, content, breaker, wrong, erased>>
        /\ Goto(p, c, "stale") \/ Return(p, c, FALSE)
        /\ history' \in {history, history \cup {<<v, "findmnt">>}} /\ (Works \/ Fault)
    BY <1>5, Zenon DEF PublishCheck, Findmnt, mountVars
  <2>2. NvmeEffect(v) /\ UNCHANGED conn
    BY <1>3, <2>1, NvmeSame, Zenon DEF nvmeVars
  <2>3. \/ \E at : Goto(p, c, at) /\ Leads(v, c, at) /\ at # "mkfs"
        \/ Return(p, c, FALSE) /\ call[p] # Idle
    BY <1>3, <2>1, Zenon DEF BindAts
  <2> QED
    BY <1>3, <1>4, <2>1, <2>2, <2>3, StagingShrinks, Zenon
<1>6. CASE StaleCheck(p)
  <2>1. UNCHANGED <<conn, mountVars, content, breaker, faults, ghostVars>>
    BY <1>6, Zenon DEF StaleCheck
  <2>2. PICK at \in BindAts : Goto(p, c, at)
    BY <1>6, Zenon DEF StaleCheck, BindAts
  <2>3. Resolve(v) \/ UNCHANGED cache
    BY <1>6, Zenon DEF StaleCheck, LooksUp
  <2>4. NvmeEffect(v)
    BY <1>3, <2>1, <2>3, NvmeResolve, Zenon
  <2> QED
    BY <1>3, <2>1, <2>2, <2>4, QuietGoto, Zenon DEF TypeOK, Works
<1>7. CASE ForceUnmount(p)
  <2>1. UNCHANGED <<nvmeVars, target, content, breaker, ghostVars>>
    BY <1>7, Zenon DEF ForceUnmount
  <2>2. NvmeEffect(v) /\ UNCHANGED conn
    BY <1>3, <2>1, NvmeSame, Zenon DEF nvmeVars
  <2>3. CASE Fault /\ Again(p, c, RecoveryTries, "force_unmount") /\ UNCHANGED staging
    BY <1>3, <2>1, <2>2, <2>3, AgainKeeps, Zenon DEF TypeOK, BindAts, mountVars
  <2>4. CASE /\ Works /\ Goto(p, c, "remount")
             /\ staging' = [staging EXCEPT ![v] = IF @ = << >> THEN @ ELSE Below(@)]
    <3> PICK path : path = IF staging[v] = << >> THEN staging[v] ELSE Below(staging[v])
      BY Zenon
    <3>1. path \in Seq(Sources) /\ Range(path) \subseteq Range(staging[v])
      BY <1>4, PathFacts
    <3>2. staging' = [staging EXCEPT ![v] = path]
      BY <1>4, <2>4, Zenon
    <3>3. \E at : Goto(p, c, at) /\ Leads(v, c, at) /\ at # "mkfs"
      BY <1>3, <2>4 DEF BindAts
    <3> QED
      BY <1>3, <2>1, <2>2, <2>4, <3>1, <3>2, <3>3, StagingShrinks, Zenon DEF ghostVars
  <2> QED
    BY <1>7, <2>3, <2>4, Zenon DEF ForceUnmount
<1> QED
  BY <1>5, <1>6, <1>7

LEMMA RemountStep ==
  ASSUME NodeInv, NEW p \in Procs, Remount(p)
  PROVE  NodeInv'
<1> PICK c : c = call[p]
  BY Zenon
<1> PICK v \in Volumes : v = Vol(p)
  BY ProcFacts
<1> PICK d : d = ResolveDevicePath(v)
  OBVIOUS
<1>1. c.at \in BindAts /\ v \notin Block
  BY CallFacts, ZenonT(40) DEF Remount, BindAts, NodeInv, WellFormed
<1>2. /\ TypeOK /\ CallsSound /\ PathsSound /\ c \in CallRecord /\ c # Idle /\ c.dev = None
      /\ c.op = "publish" /\ \A at \in BindAts : Leads(v, c, at) /\ at # "mkfs"
  BY <1>1, PublishFacts, Zenon
<1>3. /\ UNCHANGED <<conn, target, content, breaker, history, erased>> /\ (Works \/ Fault)
      /\ Resolve(v)
  BY Zenon DEF Remount
<1>4. NvmeEffect(v) /\ d \in Sources
  BY <1>2, <1>3, NvmeResolve, Resolved
<1>5. CASE Again(p, c, RecoveryTries, "force_unmount") /\ UNCHANGED <<staging, wrong>>
  BY <1>2, <1>3, <1>4, <1>5, AgainKeeps, Zenon DEF TypeOK, BindAts, mountVars, ghostVars
<1>6. CASE /\ staging' = [staging EXCEPT ![v] = Append(@, d)] /\ Touch(v, d) /\ Goto(p, c, "bind")
  <2> PICK e : e = [c EXCEPT !.at = "bind"]
    BY Zenon
  <2>1. e.dev = None /\ e.at = "bind"
    BY <1>2 DEF CallRecord
  <2>2. Moves(p, e) /\ pod' = pod
    BY <1>2, <1>6, LeadsWell, GotoMoves, Zenon DEF Goto, BindAts
  <2>3. /\ staging' \in [Volumes -> Seq(Sources)] /\ staging'[v] = Append(staging[v], d)
        /\ \A w \in Volumes \ {v} : staging'[w] = staging[w] /\ staging[v] \in Seq(Sources)
    BY <1>2, <1>4, <1>6, PathFacts, PathTyped DEF TypeOK
  <2>4. GhostEffect(v) /\ (v \in wrong' \/ Own(v, d))
    BY <1>3, <1>6, OwnPath, GhostTouch
  <2>5. \A x \in Mounted(v)' \ Mounted(v) : x = d
    <3>1. Range(staging'[v]) = Range(staging[v]) \cup {d}
      BY <1>2, <1>4, <2>3, PathFacts DEF TypeOK
    <3> QED
      BY <1>3, <3>1 DEF Mounted
  <2>6. Fits(v)'
    BY <1>2, <1>3, <2>2, FitsKept
  <2> QED
    BY <1>2, <1>3, <1>4, <2>1, <2>2, <2>3, <2>4, <2>5, <2>6, PathStep, Zenon DEF TypeOK, DeviceEffect
<1> QED
  BY <1>5, <1>6, Zenon DEF Remount

(* The target path of a pod that starts to run.                            *)
LEMMA FilledFits ==
  ASSUME NEW v \in Volumes,
         ~Befell(v, "late")'
           => Len(target'[v]) = 1 /\ target'[v] # << >> /\ pod'[v] = "running"
  PROVE  Fits(v)'
<1>1. 1 <= 1 /\ "running" \notin {"stage", "publish"}
  BY SMT
<1> QED
  BY <1>1, Zenon DEF Fits

LEMMA TargetFilled ==
  ASSUME NodeInv, NEW p \in Procs, NEW c, c = call[p], c.at \in {"publish"} \cup BindAts,
         Return(p, c, TRUE), NvmeEffect(Vol(p)),
         UNCHANGED <<conn, staging, content, breaker, history, erased>>,
         NEW d \in Sources, Touch(Vol(p), d),
         Clean(Vol(p)) /\ d \in Present => OwnerOf(d) = Vol(p),
         NEW path \in Seq(Sources), target' = [target EXCEPT ![Vol(p)] = path],
         ~Befell(Vol(p), "late") => Len(path) = 1,
         Vol(p) \notin Block => Range(path) \subseteq Range(target[Vol(p)]) \cup {d},
         Works \/ Fault
  PROVE  NodeInv'
<1> PICK v \in Volumes : v = Vol(p)
  BY ProcFacts, ZenonT(40)
<1>1. TypeOK /\ CallsSound /\ c # Idle /\ c.op = "publish"
  BY PublishFacts, Zenon
<1>2. Moves(p, Idle)
  BY <1>1, ReturnMoves, Zenon
<1>3. /\ target' \in [Volumes -> Seq(Sources)] /\ target'[v] = path
      /\ \A w \in Volumes \ {v} : target'[w] = target[w]
  BY <1>1, PathTyped DEF TypeOK
<1>4. GhostEffect(v) /\ (v \in wrong' \/ Own(v, d))
  BY GhostTouch, Zenon
<1>5. \A x \in Mounted(v)' \ Mounted(v) : x = d
  BY <1>3, Zenon DEF Mounted
<1>6. Fits(v)'
  <2>1. path # << >> <=> Len(path) # 0
    BY PathFacts, Zenon
  <2>2. ASSUME ~Befell(v, "late")
        PROVE  Len(target'[v]) = 1 /\ target'[v] # << >> /\ pod'[v] = "running"
    <3>1. ~Late(p)
      BY <2>2, PublishFacts, Zenon
    <3>2. pod' = [pod EXCEPT ![v] = "running"] /\ pod \in [Volumes -> Phases]
      BY <1>1, <3>1, PhaseFollows, Zenon DEF Return, TypeOK
    <3>3. Len(path) = 1
      BY <2>2, Zenon
    <3>4. pod'[v] = "running"
      BY <3>2, Zenon
    <3> QED
      BY <1>3, <3>3, <3>4, OneMount, Zenon
  <2>3. ~Befell(v, "late")'
          => Len(target'[v]) = 1 /\ target'[v] # << >> /\ pod'[v] = "running"
    BY <2>2, Zenon DEF Befell
  <2> QED
    BY <2>3, FilledFits, Zenon
<1>7. DeviceEffect(p, Idle) /\ Idle.at # "mkfs"
  BY IdleFacts, Zenon DEF DeviceEffect
<1> QED
  BY <1>1, <1>2, <1>3, <1>4, <1>5, <1>6, <1>7, PathStep, Zenon DEF TypeOK

LEMMA BindStep ==
  ASSUME NodeInv, NEW p \in Procs, Bind(p)
  PROVE  NodeInv'
<1> PICK c : c = call[p]
  BY Zenon
<1> PICK v \in Volumes : v = Vol(p)
  BY ProcFacts
<1> PICK d : d = IF staging[v] = << >> THEN None ELSE Top(staging[v])
  OBVIOUS
<1>1. c.at \in BindAts /\ v \notin Block
  BY CallFacts, Zenon DEF Bind, BindAts, NodeInv, WellFormed
<1>2. /\ TypeOK /\ CallsSound /\ c \in CallRecord /\ c # Idle /\ c.op = "publish"
      /\ ~Befell(v, "late") => target[v] = << >>
  BY <1>1, PublishFacts, Zenon
<1>3. UNCHANGED <<nvmeVars, staging, content, breaker, history, erased>> /\ (Works \/ Fault)
  BY Zenon DEF Bind
<1>4. NvmeEffect(v) /\ UNCHANGED conn
  BY <1>2, <1>3, NvmeSame, ZenonT(30) DEF nvmeVars
<1>5. staging[v] \in Seq(Sources) /\ target[v] \in Seq(Sources)
  BY <1>2, Zenon DEF TypeOK
<1>6. CASE Return(p, c, FALSE) /\ UNCHANGED <<target, wrong>>
  BY <1>2, <1>3, <1>4, <1>6, QuietReturn, Zenon DEF TypeOK, mountVars, ghostVars
<1>7. CASE target' = [target EXCEPT ![v] = Append(@, d)] /\ Touch(v, d) /\ Return(p, c, TRUE)
  <2> PICK path : path = Append(target[v], d)
    BY Zenon
  <2>1. d \in Sources /\ (d \in Mounted(v) \/ d = None)
    BY <1>5, PathFacts, Zenon DEF Sources, Mounted
  <2>2. /\ path \in Seq(Sources) /\ Range(path) = Range(target[v]) \cup {d}
        /\ Len(path) = Len(target[v]) + 1 /\ (target[v] = << >> => Len(target[v]) = 0)
    BY <1>5, <2>1, PathFacts, Zenon
  <2>3. target' = [target EXCEPT ![v] = path]
    BY <1>7, Zenon
  <2>4. Clean(v) /\ d \in Present => OwnerOf(d) = v
    BY <2>1, OwnPath, ZenonT(30)
  <2>5. 0 + 1 = 1
    OBVIOUS
  <2>6. ~Befell(v, "late") => Len(path) = 1
    BY <1>2, <2>2, <2>5, Zenon
  <2>7. v \notin Block => Range(path) \subseteq Range(target[v]) \cup {d}
    BY <2>2, Zenon
  <2> QED
    BY <1>1, <1>2, <1>3, <1>4, <1>7, <2>1, <2>2, <2>3, <2>4, <2>6, <2>7, TargetFilled, Zenon
<1> QED
  BY <1>6, <1>7, Zenon DEF Bind

LEMMA PublishBlockStep ==
  ASSUME NodeInv, NEW p \in Procs, PublishBlock(p)
  PROVE  NodeInv'
<1> PICK c : c = call[p]
  BY Zenon
<1> PICK v \in Volumes : v = Vol(p)
  BY ProcFacts
<1> PICK d : d = ResolveDevicePath(v)
  OBVIOUS
<1>1. c.at = "publish" /\ v \in Block /\ Resolve(v) /\ (Works \/ Fault)
  BY Zenon DEF PublishBlock
<1>2. /\ TypeOK /\ CallsSound /\ c \in CallRecord /\ c # Idle /\ c.op = "publish"
      /\ ~Befell(v, "late") => target[v] = << >>
  BY <1>1, PublishFacts, Zenon
<1>3. UNCHANGED <<conn, staging, content, breaker, history, erased>>
  BY Zenon DEF PublishBlock
<1>4. NvmeEffect(v) /\ d \in Sources
  BY <1>1, <1>2, <1>3, NvmeResolve, Resolved, Zenon
<1>5. CASE Return(p, c, FALSE) /\ UNCHANGED <<target, wrong>>
  BY <1>1, <1>2, <1>3, <1>4, <1>5, QuietReturn, Zenon DEF TypeOK, mountVars, ghostVars
<1>6. CASE /\ Return(p, c, TRUE) /\ Touch(v, target'[v][1])
           /\ target' = [target EXCEPT ![v] = IF @ = << >> THEN <<d>> ELSE @]
  <2>1. target[v] \in Seq(Sources) /\ <<d>> \in Seq(Sources) /\ Len(<<d>>) = 1 /\ <<d>>[1] = d
    <3>1. target[v] \in Seq(Sources)
      BY <1>2, Zenon DEF TypeOK
    <3> QED
      BY <1>4, <3>1, SMTT(30)
  <2> PICK path : path = IF target[v] = << >> THEN <<d>> ELSE target[v]
    BY Zenon
  <2>2. path \in Seq(Sources) /\ path[1] \in Sources
    BY <1>4, <2>1, PathFacts
  <2>3. target' = [target EXCEPT ![v] = path] /\ target'[v] = path
    BY <1>2, <1>6, Zenon DEF TypeOK
  <2>4. ~Befell(v, "late") => Len(path) = 1 /\ path[1] = d
    BY <1>2, <2>1, ZenonT(30)
  <2>5. Clean(v) /\ path[1] \in Present => OwnerOf(path[1]) = v
    BY <2>4, OwnPath, ZenonT(30) DEF Clean
  <2> QED
    BY <1>1, <1>2, <1>3, <1>4, <1>6, <2>2, <2>3, <2>4, <2>5, TargetFilled, Zenon
<1> QED
  BY <1>5, <1>6, Zenon DEF PublishBlock

-----------------------------------------------------------------------------
(* NodeUnpublishVolume and NodeUnstageVolume.                              *)

(* What a removal reaches at the target path of a volume.                  *)
LEMMA RemovedData ==
  ASSUME NodeInv, NEW v \in Volumes \ Block, NEW path \in Seq(Sources),
         Range(path) \subseteq Range(target[v]), RemoveAll(path),
         history \subseteq history', UNCHANGED wrong,
         path = << >> \/ Befell(v, "late") \/ Befell(v, "findmnt")'
  PROVE  erased' \subseteq Volumes /\ DataKept'
<1>1. TypeOK /\ PathsSound /\ DataSound
  BY Zenon DEF NodeInv
<1>2. ASSUME NEW x \in erased' \ erased
      PROVE  x \in Volumes /\ (Befell(x, "late")' \/ Befell(x, "findmnt")' \/ wrong # {})
  <2>1. x \in Volumes /\ path # << >> /\ conn[x] \in Devices /\ conn[x] = Top(path)
    BY <1>2, Zenon DEF RemoveAll
  <2>2. conn[x] \in Devices \cap Mounted(v)
    BY <2>1, PathFacts, ZenonT(30) DEF Mounted
  <2>3. CASE x = v
    BY <2>1, <2>3 DEF Befell
  <2>4. CASE x # v
    BY <1>1, <2>1, <2>2, <2>4, Zenon DEF PathsSound
  <2> QED
    BY <2>1, <2>3, <2>4, Zenon
<1>3. erased' \subseteq Volumes
  BY <1>1, <1>2, ZenonT(30) DEF TypeOK
<1>4. DataKept'
  BY <1>1, <1>2, DataGrows DEF DataSound
<1> QED
  BY <1>3, <1>4, Zenon

(* The target path of a pod that goes.                                     *)
LEMMA TargetShrinks ==
  ASSUME NodeInv, NEW p \in Procs, NEW c, c = call[p], c.at = "unpublish", Return(p, c, TRUE),
         UNCHANGED <<nvmeVars, staging, content, breaker, wrong>>,
         history' \in {history, history \cup {<<Vol(p), "findmnt">>}},
         erased' \subseteq Volumes, DataKept',
         NEW path \in Seq(Sources), target' = [target EXCEPT ![Vol(p)] = path],
         Range(path) \subseteq Range(target[Vol(p)]), Len(path) <= Len(target[Vol(p)]),
         Works \/ Fault
  PROVE  NodeInv'
<1> PICK v \in Volumes : v = Vol(p)
  BY ProcFacts, ZenonT(30)
<1>1. /\ TypeOK /\ CallsSound /\ PathsSound /\ c.op = "unpublish" /\ c # Idle
      /\ history \subseteq history'
  BY CallFacts, IdleFacts DEF NodeInv
<1>2. Moves(p, Idle)
  BY <1>1, ReturnMoves, Zenon
<1>3. /\ target' \in [Volumes -> Seq(Sources)] /\ target'[v] = path
      /\ \A w \in Volumes \ {v} : target'[w] = target[w]
  BY <1>1, PathTyped, ZenonT(30) DEF TypeOK
<1>4. GhostEffect(v)
  <2>1. history' \subseteq Volumes \X {"late", "raced", "findmnt"}
    BY <1>1 DEF TypeOK
  <2> QED
    BY <1>1, <2>1, Zenon DEF GhostEffect
<1>5. Mounted(v)' \subseteq Mounted(v)
  BY <1>3, Zenon DEF Mounted
<1>6. Fits(v)'
  <2> SUFFICES ASSUME ~Befell(v, "late")
               PROVE  Len(path) <= 1 /\ pod'[v] = "unstage"
    BY <1>1, <1>3, Zenon DEF Fits, Befell
  <2>1. ~Late(p)
    BY <1>1, <1>2, NotLate, Zenon
  <2>2. pod' = [pod EXCEPT ![v] = "unstage"] /\ pod \in [Volumes -> Phases]
    BY <1>1, <2>1, PhaseFollows, Zenon DEF Return, TypeOK
  <2>3. Len(target[v]) <= 1 /\ Len(path) \in Nat /\ Len(target[v]) \in Nat
    BY <1>1, PathFacts, Zenon DEF PathsSound, Fits, TypeOK
  <2>4. Len(path) <= Len(target[v])
    BY Zenon
  <2> QED
    BY <2>2, <2>3, <2>4, AtMostOne, Zenon
<1>7. DeviceEffect(p, Idle) /\ Idle.at # "mkfs"
  BY IdleFacts, ZenonT(40) DEF DeviceEffect, nvmeVars
<1>8. NvmeEffect(v) /\ UNCHANGED conn
  BY <1>1, NvmeSame DEF nvmeVars
<1> QED
  BY <1>1, <1>2, <1>3, <1>4, <1>5, <1>6, <1>7, <1>8, PathStep, Zenon DEF TypeOK

LEMMA UnpublishStep ==
  ASSUME NodeInv, NEW p \in Procs, Unpublish(p)
  PROVE  NodeInv'
<1> PICK c : c = call[p]
  BY Zenon
<1> PICK v \in Volumes : v = Vol(p)
  BY ProcFacts
<1>1. /\ TypeOK /\ CallsSound /\ PathsSound /\ DataSound /\ c.at = "unpublish" /\ c \in CallRecord
      /\ c # Idle
  BY CallFacts, IdleFacts DEF NodeInv, Unpublish
<1>2. UNCHANGED <<nvmeVars, staging, content, breaker, wrong>> /\ (Works \/ Fault)
  BY Zenon DEF Unpublish, Findmnt
<1>3. target[v] \in Seq(Sources) /\ NvmeEffect(v)
  BY <1>1, <1>2, NvmeSame, Zenon DEF TypeOK
<1>4. ASSUME NEW path \in Seq(Sources), target' = [target EXCEPT ![v] = path],
             Range(path) \subseteq Range(target[v]), Len(path) <= Len(target[v]),
             history' \in {history, history \cup {<<v, "findmnt">>}}, Return(p, c, TRUE),
             erased' \subseteq Volumes, DataKept'
      PROVE  NodeInv'
  BY <1>1, <1>2, <1>4, TargetShrinks, Zenon
<1>5. CASE target' = [target EXCEPT ![v] = << >>] /\ Return(p, c, TRUE) /\ UNCHANGED <<history, erased>>
  <2>1. /\ << >> \in Seq(Sources) /\ Range(<< >>) \subseteq Range(target[v])
        /\ Len(<< >>) <= Len(target[v])
    BY <1>3, EmptyPath, Zenon
  <2>2. erased' \subseteq Volumes /\ DataKept'
    BY <1>1, <1>2, <1>5 DEF TypeOK, DataSound, DataKept, Befell
  <2> QED
    BY <1>4, <1>5, <2>1, <2>2, Zenon
<1>6. CASE Return(p, c, FALSE) /\ UNCHANGED <<target, history, erased>>
  BY <1>1, <1>2, <1>3, <1>6, QuietReturn, Zenon DEF TypeOK, mountVars, ghostVars
<1>7. CASE /\ v \notin Block /\ target[v] # << >> /\ UNCHANGED history /\ Return(p, c, TRUE)
           /\ target' = [target EXCEPT ![v] = Below(target[v])] /\ RemoveAll(Below(target[v]))
  <2> PICK path : path = Below(target[v])
    OBVIOUS
  <2>1. /\ path \in Seq(Sources) /\ Range(path) \subseteq Range(target[v])
        /\ Len(path) = Len(target[v]) - 1 /\ Len(target[v]) \in Nat
    BY <1>3, <1>7, PathFacts, Zenon
  <2>2. path = << >> \/ Befell(v, "late")
    <3>1. Befell(v, "late") \/ Len(target[v]) <= 1
      BY <1>1, Zenon DEF PathsSound, Fits
    <3>2. path = << >> <=> Len(path) = 0
      BY <2>1, PathFacts, Zenon
    <3>3. Len(path) \in Nat
      BY <2>1, PathFacts, Zenon
    <3> QED
      BY <2>1, <3>1, <3>2, <3>3, SMTT(30)
  <2>3. erased' \subseteq Volumes /\ DataKept'
    BY <1>2, <1>7, <2>1, <2>2, RemovedData, Zenon
  <2>4. Len(path) <= Len(target[v])
    BY <2>1, SMT
  <2> QED
    BY <1>4, <1>7, <2>1, <2>3, <2>4, Zenon
<1>8. CASE /\ v \notin Block /\ history' = history \cup {<<v, "findmnt">>} /\ Return(p, c, TRUE)
           /\ target' = [target EXCEPT ![v] = target[v]] /\ RemoveAll(target[v])
  <2>1. Befell(v, "findmnt")' /\ history \subseteq history'
    BY <1>8 DEF Befell
  <2>2. erased' \subseteq Volumes /\ DataKept'
    BY <1>2, <1>3, <1>8, <2>1, RemovedData, Zenon
  <2>3. Len(target[v]) <= Len(target[v])
    BY <1>3, PathFacts
  <2> QED
    BY <1>3, <1>4, <1>8, <2>2, <2>3, Zenon
<1> QED
  BY <1>5, <1>6, <1>7, <1>8, Zenon DEF Unpublish, Findmnt

LEMMA UnstageSteps ==
  ASSUME NodeInv, NEW p \in Procs, Unstage(p) \/ Umount(p) \/ CheckInUse(p) \/ UnstageDisconnect(p)
  PROVE  NodeInv'
<1> PICK c : c = call[p]
  BY ZenonT(30)
<1> PICK v \in Volumes : v = Vol(p)
  BY ProcFacts, Zenon
<1>1. /\ TypeOK /\ CallsSound /\ c \in CallRecord /\ WellFormed(v, c)
      /\ c.at \in UnstageAts \cup ProbeAts
  <2>1. c.at \in UnstageAts \cup ProbeAts
    BY Zenon DEF Unstage, Umount, CheckInUse, UnstageDisconnect, UnstageAts, ProbeAts
  <2> QED
    BY <2>1, CallFacts, Zenon DEF NodeInv
<1>2. c.op = "unstage" /\ c # Idle
  BY <1>1, CallFacts, IdleFacts, Zenon
<1>3. /\ Leads(v, c, "disconnect")
      /\ c.at \in UnstageAts => \A at \in UnstageAts : Leads(v, c, at) /\ at # "mkfs"
  BY <1>1, <1>2 DEF Leads, WellFormed, UnstageAts, ProbeAts, FsAts
<1>4. staging[v] \in Seq(Sources) /\ staging = [staging EXCEPT ![v] = staging[v]]
  BY <1>1 DEF TypeOK
<1>5. ASSUME NEW at, Goto(p, c, at), Leads(v, c, at), at # "mkfs",
             UNCHANGED <<nvmeVars, target, content, breaker, wrong, erased>>, Works \/ Fault,
             history' \in {history, history \cup {<<v, "findmnt">>}},
             NEW path \in Seq(Sources), staging' = [staging EXCEPT ![v] = path],
             Range(path) \subseteq Range(staging[v])
      PROVE  NodeInv'
  <2>1. NvmeEffect(v) /\ UNCHANGED conn
    BY <1>1, <1>5, NvmeSame, Zenon DEF nvmeVars
  <2>2. \E a : Goto(p, c, a) /\ Leads(v, c, a) /\ a # "mkfs"
    BY <1>5, Zenon
  <2> QED
    BY <1>1, <1>5, <2>1, <2>2, StagingShrinks, Zenon
<1>6. CASE Unstage(p)
  <2>1. /\ UNCHANGED <<nvmeVars, staging, target, content, breaker, wrong, erased>>
        /\ Goto(p, c, "umount") \/ Goto(p, c, "find_mounts")
        /\ history' \in {history, history \cup {<<v, "findmnt">>}} /\ (Works \/ Fault)
    BY <1>6, Zenon DEF Unstage, Findmnt, mountVars
  <2>2. PICK at : Goto(p, c, at) /\ Leads(v, c, at) /\ at # "mkfs"
    BY <1>3, <1>6, <2>1, Zenon DEF Unstage, UnstageAts
  <2> QED
    BY <1>4, <1>5, <2>1, <2>2, Zenon
<1>7. CASE Umount(p)
  <2>1. UNCHANGED <<nvmeVars, target, content, breaker, wrong, erased>> /\ (Works \/ Fault)
    BY <1>7, Zenon DEF Umount, Findmnt
  <2>2. CASE Return(p, c, FALSE) /\ UNCHANGED <<staging, history>>
    <3>1. NvmeEffect(v)
      BY <1>1, <2>1, NvmeSame DEF nvmeVars
    <3> QED
      BY <1>1, <1>2, <2>1, <2>2, <3>1, QuietReturn, Zenon DEF TypeOK, mountVars, ghostVars
  <2>3. CASE /\ Goto(p, c, "find_device") /\ history' \in {history, history \cup {<<v, "findmnt">>}}
             /\ \/ staging[v] # << >> /\ staging' = [staging EXCEPT ![v] = Below(staging[v])]
                \/ staging' = [staging EXCEPT ![v] = staging[v]]
    <3>1. Leads(v, c, "find_device")
      BY <1>3, <1>7 DEF Umount, UnstageAts
    <3>2. PICK path \in Seq(Sources) : /\ staging' = [staging EXCEPT ![v] = path]
                                       /\ Range(path) \subseteq Range(staging[v])
      BY <1>4, <2>3, PathFacts, Zenon
    <3> QED
      BY <1>5, <2>1, <2>3, <3>1, <3>2, Zenon
  <2> QED
    BY <1>7, <2>2, <2>3, Zenon DEF Umount, Findmnt
<1>8. CASE CheckInUse(p)
  <2>1. UNCHANGED <<nvmeVars, mountVars, content, breaker, ghostVars>> /\ (Works \/ Fault)
    BY <1>8, Zenon DEF CheckInUse
  <2>2. NvmeEffect(v) /\ UNCHANGED conn
    BY <1>1, <2>1, NvmeSame DEF nvmeVars
  <2>3. CASE Goto(p, c, "disconnect")
    BY <1>1, <1>2, <1>3, <2>1, <2>2, <2>3, QuietGoto, Zenon DEF TypeOK
  <2>4. CASE Return(p, c, FALSE)
    BY <1>1, <1>2, <2>1, <2>2, <2>4, QuietReturn, Zenon DEF TypeOK
  <2> QED
    BY <1>8, <2>3, <2>4, Zenon DEF CheckInUse
<1>9. CASE UnstageDisconnect(p)
  <2>1. NvmeEffect(v) /\ (Works \/ Fault) /\ UNCHANGED <<mountVars, content, breaker, ghostVars>>
    BY <1>1, <1>9, NvmeDisconnect, Zenon DEF UnstageDisconnect
  <2>2. Return(p, c, TRUE)
    BY <1>9, Zenon DEF UnstageDisconnect
  <2> QED
    BY <1>1, <1>2, <2>1, <2>2, QuietReturn, Zenon DEF TypeOK
<1> QED
  BY <1>6, <1>7, <1>8, <1>9, Zenon

-----------------------------------------------------------------------------
(* Steps outside the calls.                                                *)
LEMMA StandStill ==
  ASSUME NodeInv, NEW v \in Volumes, UNCHANGED <<conn, call, pod>>
  PROVE  \E p \in Procs : /\ Vol(p) = v /\ p[2] = "current"
                          /\ Moves(p, call[p]) /\ DeviceEffect(p, call[p])
<1>1. TypeOK /\ CallsSound
  BY DEF NodeInv
<1> PICK p \in Procs : p = <<v, "current">>
  BY ProcFacts, Zenon
<1>2. Vol(p) = v /\ p[2] = "current" /\ ~Late(p)
  BY DEF Vol, Late
<1>3. call[p] \in CallRecord /\ WellFormed(v, call[p]) /\ call' = [call EXCEPT ![p] = call[p]]
  BY <1>1, <1>2 DEF TypeOK, CallsSound
<1>4. Moves(p, call[p])
  BY <1>2, <1>3, Zenon DEF Moves
<1>5. DeviceEffect(p, call[p])
  BY DEF DeviceEffect
<1> QED
  BY <1>2, <1>4, <1>5, Zenon

LEMMA TimeSteps ==
  ASSUME NodeInv, NEW v \in Volumes, NodeGetVolumeStats(v) \/ BreakerTimeout(v) \/ Expire(v)
  PROVE  NodeInv'
<1>1. TypeOK /\ UNCHANGED <<conn, mountVars, content, call, pod, faults, ghostVars>>
  BY Zenon DEF NodeInv, NodeGetVolumeStats, BreakerTimeout, Expire, nvmeVars
<1>2. breaker' \in [Volumes -> BreakerRecord]
  <2>1. CASE UNCHANGED breaker
    BY <1>1, <2>1 DEF TypeOK
  <2>2. CASE BreakerTimeout(v)
    <3>1. breaker[v] \in BreakerRecord
      BY <1>1 DEF TypeOK
    <3>2. Closed \in BreakerRecord /\ Half \in BreakerRecord
      BY <3>1, BreakerKinds, Zenon
    <3> QED
      BY <1>1, <2>2, <3>2, Zenon DEF BreakerTimeout, TypeOK
  <2> QED
    BY <2>1, <2>2 DEF NodeGetVolumeStats, Expire
<1>3. NvmeEffect(v)
  <2>1. CASE Resolve(v) \/ UNCHANGED cache
    BY <1>1, <2>1, NvmeResolve
  <2>2. CASE Invalidate(v)
    BY <1>1, <2>2, NvmeInvalidate, ZenonT(30)
  <2> QED
    BY <2>1, <2>2, Zenon DEF NodeGetVolumeStats, BreakerTimeout, Expire, LooksUp, nvmeVars
<1>4. PICK p \in Procs : Vol(p) = v /\ Moves(p, call[p]) /\ DeviceEffect(p, call[p])
  BY <1>1, StandStill
<1> QED
  BY <1>1, <1>2, <1>3, <1>4, QuietStep, Zenon DEF Works

LEMMA ExpandStep ==
  ASSUME NodeInv, NEW v \in Volumes, NodeExpandVolume(v)
  PROVE  NodeInv'
<1> PICK d : d = ResolveDevicePath(v)
  OBVIOUS
<1>1. /\ TypeOK /\ CallsSound /\ PathsSound /\ Resolve(v) /\ Touch(v, d) /\ Works
      /\ UNCHANGED <<conn, staging, target, content, breaker, call, pod, history, erased>>
  BY Zenon DEF NodeInv, NodeExpandVolume, Works, mountVars
<1>2. NvmeEffect(v)
  BY <1>1, NvmeResolve, ZenonT(30)
<1>3. PICK p \in Procs : Vol(p) = v /\ Moves(p, call[p]) /\ DeviceEffect(p, call[p])
  BY <1>1, StandStill
<1>4. GhostEffect(v)
  BY <1>1, OwnPath, GhostTouch, ZenonT(30)
<1>5. Mounted(v)' = Mounted(v)
  BY <1>1, Zenon DEF Mounted
<1>6. Fits(v)'
  BY <1>1, ZenonT(30) DEF PathsSound, Fits, Befell
<1> QED
  BY <1>1, <1>2, <1>3, <1>4, <1>5, <1>6, PathStep, Zenon DEF TypeOK

-----------------------------------------------------------------------------
(* The cleanup before a disconnect counts mounts.                          *)
INSTANCE FiniteSetTheorems

LEMMA CleanedPath ==
  ASSUME NEW s \in Seq(Sources), NEW d, NEW busy \in BOOLEAN
  PROVE  /\ Cleaned(s, d, busy) \in Seq(Sources) /\ Range(Cleaned(s, d, busy)) \subseteq Range(s)
         /\ Len(Cleaned(s, d, busy)) <= Len(s)
         /\ busy => Cleaned(s, d, busy) = s
<1> DEFINE M == {i \in DOMAIN s : s[i] = d}
           k == Len(s) - Cardinality(M)
<1>1. Len(s) \in Nat /\ DOMAIN s = 1 .. Len(s)
  OBVIOUS
<1>2. IsFiniteSet(M) /\ Cardinality(M) \in Nat
  <2>0. 1 \in Int /\ Len(s) \in Int
    BY <1>1
  <2>1. IsFiniteSet(1 .. Len(s))
    BY <2>0, FS_Interval, Zenon
  <2>2. M \subseteq 1 .. Len(s)
    BY <1>1
  <2> QED
    BY <2>1, <2>2, FS_Subset, FS_CardinalityType, Zenon
<1>3. k \in Int /\ k <= Len(s)
  BY <1>1, <1>2
<1> HIDE DEF k
<1>4. /\ SubSeq(s, 1, k) \in Seq(Sources) /\ Len(SubSeq(s, 1, k)) = IF k <= 0 THEN 0 ELSE k
      /\ \A i \in 1 .. k : SubSeq(s, 1, k)[i] = s[i]
  BY <1>1, <1>3
<1>5. Range(SubSeq(s, 1, k)) \subseteq Range(s)
  BY <1>1, <1>3, <1>4 DEF Range
<1> QED
  BY <1>1, <1>3, <1>4, <1>5 DEF Cleaned, k

LEMMA FindDeviceStep ==
  ASSUME NodeInv, NEW p \in Procs, FindDevice(p)
  PROVE  NodeInv'
<1> PICK c : c = call[p]
  BY Zenon
<1> PICK v \in Volumes : v = Vol(p)
  BY ProcFacts
<1> PICK d : d = ResolveDevicePath(v)
  OBVIOUS
<1> PICK e : e = [c EXCEPT !.dev = d]
  BY Zenon
<1>1. TypeOK /\ CallsSound /\ NvmeSound /\ PathsSound /\ c \in CallRecord /\ c.op = "unstage"
  BY CallFacts DEF NodeInv, FindDevice, UnstageAts
<1>2. UNCHANGED <<conn, content, breaker, history, erased>> /\ Resolve(v) /\ (Works \/ Fault)
  BY Zenon DEF FindDevice
<1>3. NvmeEffect(v) /\ d \in Sources
  BY <1>1, <1>2, NvmeResolve, Resolved
<1>4. e \in CallRecord /\ e.op = "unstage" /\ e.dev = d
  BY <1>1, <1>3 DEF CallRecord
<1>5. PICK at \in ProbeAts : Goto(p, e, at)
  BY Zenon DEF FindDevice, ProbeAts
<1>6. Leads(v, e, at) /\ at # "mkfs"
  BY <1>4, <1>5 DEF Leads, ProbeAts
<1>7. CASE UNCHANGED <<mountVars, wrong>>
  BY <1>1, <1>2, <1>3, <1>4, <1>5, <1>6, <1>7, QuietGoto, Zenon DEF TypeOK, ghostVars
<1>8. CASE /\ staging' = [w \in Volumes |-> Cleaned(staging[w], d, FALSE)]
           /\ target' = [w \in Volumes |->
                           Cleaned(target[w], d, w \in Block \/ pod[w] = "running")]
           /\ Touch(v, d) \/ UNCHANGED wrong
  <2> PICK f : f = [e EXCEPT !.at = at]
    BY Zenon
  <2>1. f.dev = d /\ f.at = at
    BY <1>4 DEF CallRecord
  <2>2. Moves(p, f) /\ pod' = pod
    <3>1. at \in Places /\ WellFormed(v, f) /\ c # Idle
      BY <1>1, <1>4, <1>6, LeadsWell, IdleFacts, Zenon
    <3> QED
      BY <1>1, <1>4, <1>5, <3>1, GotoMoves, Zenon DEF Goto
  <2>3. \A w \in Volumes : staging[w] \in Seq(Sources) /\ target[w] \in Seq(Sources)
    BY <1>1 DEF TypeOK
  <2>4. ASSUME NEW w \in Volumes
        PROVE  /\ staging'[w] \in Seq(Sources) /\ Range(staging'[w]) \subseteq Range(staging[w])
               /\ target'[w] \in Seq(Sources) /\ Range(target'[w]) \subseteq Range(target[w])
               /\ Len(target'[w]) <= Len(target[w])
               /\ pod[w] = "running" => target'[w] = target[w]
    <3>1. (w \in Block \/ pod[w] = "running") \in BOOLEAN
      OBVIOUS
    <3> PICK busy \in BOOLEAN : busy = (w \in Block \/ pod[w] = "running")
      BY <3>1, Zenon
    <3>2. staging'[w] = Cleaned(staging[w], d, FALSE) /\ target'[w] = Cleaned(target[w], d, busy)
      BY <1>8, Zenon
    <3>3. /\ Cleaned(staging[w], d, FALSE) \in Seq(Sources)
          /\ Range(Cleaned(staging[w], d, FALSE)) \subseteq Range(staging[w])
      BY <2>3, CleanedPath, Zenon
    <3>4. /\ Cleaned(target[w], d, busy) \in Seq(Sources)
          /\ Range(Cleaned(target[w], d, busy)) \subseteq Range(target[w])
          /\ Len(Cleaned(target[w], d, busy)) <= Len(target[w])
          /\ busy => Cleaned(target[w], d, busy) = target[w]
      BY <2>3, CleanedPath, Zenon
    <3>5. pod[w] = "running" => busy
      BY Zenon
    <3> QED
      BY <3>2, <3>3, <3>4, <3>5, Zenon
  <2>5. staging' \in [Volumes -> Seq(Sources)] /\ target' \in [Volumes -> Seq(Sources)]
    BY <1>8, <2>4, Zenon
  <2>6. ASSUME NEW w \in Volumes PROVE Mounted(w)' \subseteq Mounted(w)
    BY <2>4, Zenon DEF Mounted
  <2>7. ASSUME NEW w \in Volumes PROVE Fits(w)'
    <3> SUFFICES ASSUME ~Befell(w, "late")
                 PROVE  /\ Len(target'[w]) <= 1
                        /\ pod[w] \in {"stage", "publish"} => target'[w] = << >>
                        /\ pod[w] = "running" => target'[w] # << >>
      BY <1>2, <2>2 DEF Fits, Befell
    <3>1. /\ Len(target[w]) <= 1 /\ (pod[w] \in {"stage", "publish"} => target[w] = << >>)
          /\ pod[w] = "running" => target[w] # << >>
      BY <1>1 DEF PathsSound, Fits
    <3>2. /\ Len(target[w]) \in Nat /\ (target[w] = << >> <=> Len(target[w]) = 0)
          /\ Len(target'[w]) \in Nat /\ (target'[w] = << >> <=> Len(target'[w]) = 0)
      BY <2>3, <2>4, PathFacts
    <3>3. Len(target'[w]) <= Len(target[w])
      BY <2>4
    <3> QED
      BY <2>4, <3>1, <3>2, <3>3
  <2>8. MountEffect(v)
    BY <2>5, <2>6, <2>7 DEF MountEffect
  <2>9. GhostEffect(v)
    <3>1. CASE Touch(v, d)
      BY <1>2, <3>1, OwnPath, GhostTouch
    <3>2. CASE UNCHANGED wrong
      BY <1>2, <3>2, GhostSeen
    <3> QED
      BY <1>8, <3>1, <3>2
  <2>10. DataEffect(p, f) /\ DeviceEffect(p, f)
    BY <1>1, <1>2, <1>6, <2>1, DataStays, Zenon DEF DeviceEffect
  <2> QED
    BY <1>1, <1>2, <1>3, <2>2, <2>8, <2>9, <2>10, HandlerKeeps, ZenonT(30) DEF TypeOK
<1> QED
  BY <1>7, <1>8, Zenon DEF FindDevice

LEMMA NextKeeps == NodeInv /\ [Next]_vars => NodeInv'
<1> SUFFICES ASSUME NodeInv, [Next]_vars PROVE NodeInv'
  OBVIOUS
<1>1. CASE UNCHANGED vars
  BY <1>1, Zenon DEF vars, nvmeVars, mountVars, ghostVars, NodeInv, TypeOK, NvmeTypeOK, CallsSound,
     NvmeSound, PathsSound, DataSound, DataKept, FormatSound, Current, LateCall, Befell, Clean,
     Mounted, Fits
<1>2. ASSUME NEW p \in Procs, Step(p) PROVE NodeInv'
  BY <1>2, ConnectSteps, PrepareSteps, FormatStep, MkfsStep, MountStep, PublishBlockStep,
     RecoverSteps, RemountStep, BindStep, UnpublishStep, UnstageSteps, FindDeviceStep, Zenon
  DEF Step
<1>3. ASSUME NEW v \in Volumes,
             \/ Calls(v) \/ NodeGetVolumeStats(v) \/ NodeExpandVolume(v)
             \/ PodArrives(v) \/ PodLeaves(v) \/ PodWrites(v)
             \/ GiveUp(v) \/ LinkLost(v) \/ BreakerTimeout(v) \/ Expire(v)
      PROVE  NodeInv'
  BY <1>3, CallStarts, TimeSteps, ExpandStep, PodSteps, PodWritesStep, GiveUpStep, LinkLostStep, Zenon
<1>4. CASE Restart
  BY <1>4, RestartStep
<1> QED
  BY <1>1, <1>2, <1>3, <1>4, Zenon DEF Next

-----------------------------------------------------------------------------
(* The node server's handlers, late calls, lost links and restarts         *)
(* included, keep the invariant.                                           *)
THEOREM NodeInvariant == Spec => []NodeInv
<1>1. Init => NodeInv
  BY InitSound
<1>2. NodeInv /\ [Next]_vars => NodeInv'
  BY NextKeeps
<1> QED
  BY <1>1, <1>2, PTL DEF Spec

(* node.go, nvme.go: mounts, caches, breakers and calls have their types;  *)
(* no breaker counts more than Trip - 1 failures.                          *)
THEOREM NodeTypes == Spec => []TypeOK
<1>1. NodeInv => TypeOK
  BY DEF NodeInv
<1> QED
  BY <1>1, NodeInvariant, PTL

(* nvme.go, GetDevicePath: a volume's calls reach the device of another    *)
(* volume only after a link was lost while its path was cached or in use,  *)
(* or with a call that the kubelet gave up.                                *)
THEOREM OnlyOwnDevices == Spec => []OwnDevice
<1>1. NodeInv => OwnDevice
  BY Zenon DEF NodeInv, NvmeSound, OwnDevice, Clean, TypeOK
<1> QED
  BY <1>1, NodeInvariant, PTL

(* mount.go, Format, and node.go, NodeUnpublishVolume: the data of a       *)
(* volume is destroyed only after a late call, after a failed findmnt, or  *)
(* once some volume had the device of another.                             *)
THEOREM DataIsKept == Spec => []DataKept
<1>1. NodeInv => DataKept
  BY ZenonT(30) DEF NodeInv, DataSound
<1> QED
  BY <1>1, NodeInvariant, PTL

(* stale.go: a running pod's mount that the stale check calls healthy is   *)
(* one of the volume's current connection.                                 *)
THEOREM HealthyMountIsCurrent == Spec => []HealthyIsCurrent
<1>1. ASSUME NodeInv, NEW v \in Volumes \ Block, pod[v] = "running", ~IsStale(v, target[v]),
             Clean(v)
      PROVE  Top(target[v]) = conn[v]
  <2>1. TypeOK /\ NvmeSound /\ PathsSound
    BY <1>1, ZenonT(30) DEF NodeInv
  <2>2. target[v] \in Seq(Sources) /\ target[v] # << >> /\ Len(target[v]) <= 1
    BY <1>1, <2>1 DEF TypeOK, PathsSound, Fits, Clean
  <2>3. Len(target[v]) = 1
    <3>1. Len(target[v]) \in Nat /\ Len(target[v]) # 0
      BY <2>2, PathFacts, Zenon
    <3>2. PICK n \in Nat : n = Len(target[v])
      BY <3>1, Zenon
    <3>3. n <= 1 /\ n # 0
      BY <2>2, <3>1, <3>2, Zenon
    <3>4. n = 1
      BY <3>3, SMT
    <3> QED
      BY <3>2, <3>4, Zenon
  <2>4. Top(target[v]) \in Present /\ Top(target[v]) \in Mounted(v)
    <3>1. MountDevice(target[v]) = Top(target[v])
      BY <2>2, <2>3, ZenonT(30) DEF MountDevice, Top
    <3>2. Top(target[v]) \in Range(target[v])
      BY <2>2, PathFacts, ZenonT(30)
    <3> QED
      BY <1>1, <3>1, <3>2, Zenon DEF IsStale, Mounted
  <2>5. OwnerOf(Top(target[v])) = v
    BY <1>1, <2>4, OwnPath
  <2> QED
    BY <2>4, <2>5, OwnerFacts, Zenon
<1>2. NodeInv => HealthyIsCurrent
  BY <1>1, Zenon DEF HealthyIsCurrent, Clean
<1> QED
  BY <1>2, NodeInvariant, PTL

(* node.go: only a late call disconnects the volume of a running pod; the  *)
(* call that the kubelet waits for is never one that disconnects.          *)
THEOREM UsedVolumesStayConnected == Spec => UsedStaysConnected
<1> DEFINE Keeps ==
      \A v \in Volumes :
        /\ pod[v] = "running" /\ pod'[v] = "running"
        /\ conn[v] \in Devices /\ conn'[v] = None /\ ~LinkLost(v)
        => Befell(v, "late")
<1>1. ASSUME NodeInv, [Next]_vars PROVE Keeps
  <2> SUFFICES ASSUME NEW v \in Volumes, pod[v] = "running", conn[v] \in Devices,
                      conn'[v] = None, ~LinkLost(v)
               PROVE  Befell(v, "late")
    BY Zenon
  <2>1. Next
    BY <1>1, DevicesAssumption, ZenonT(30) DEF vars, nvmeVars
  <2>2. PICK p \in Procs : Vol(p) = v /\ call[p].op \in {"stage", "unstage"}
    BY <1>1, <2>1, DisconnectedBy, Zenon
  <2>3. call[p] # Idle
    BY <2>2, IdleFacts, ZenonT(30)
  <2>4. Current(v) # call[p]
    BY <1>1, <2>2, <2>3, Zenon DEF NodeInv, CallsSound
  <2>5. LateCall(v) = call[p]
    BY <2>2, <2>4, ProcCalls, Zenon
  <2> QED
    BY <1>1, <2>3, <2>5, ZenonT(30) DEF NodeInv, CallsSound
<1>2. NodeInv /\ [Next]_vars => [Keeps]_vars
  BY <1>1
<1> QED
  BY <1>2, NodeInvariant, PTL DEF Spec, UsedStaysConnected
=============================================================================
