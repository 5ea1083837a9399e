----------------------- MODULE OrphanReconcilerProofs -----------------------
(***************************************************************************)
(* The theorems of RdsVolumes and OrphanReconciler, for any sets of        *)
(* volumes, snapshots and handlers, any unit sizes and any number of       *)
(* faults: StorageInv is an invariant, and what follows from it.           *)
(***************************************************************************)
EXTENDS OrphanReconcilerSteps

-----------------------------------------------------------------------------
(* ControllerExpandVolume and ResizeVolume.                                *)
LEMMA ExpandStep ==
  ASSUME StorageInv, NEW t \in Threads, NEW v \in Volumes, NEW bytes \in ExpandTo,
         ControllerExpandVolume(t, v, bytes), UNCHANGED passVars
  PROVE  StorageInv'
<1>0. TypeOK /\ v \in Slots /\ bytes \in Nat
  BY RdsAssumption DEF StorageInv, PassTypeOK, Slots
<1> PICK c : c = Call("expand", v, bytes)
  OBVIOUS
<1> PICK n : n = disk[v]
  OBVIOUS
<1>1. c.op = "expand" /\ c.id = v /\ c.size = bytes
  BY DEF Call
<1>2. MayCall(t, v) /\ bytes > cap[v]
  BY DEF ControllerExpandVolume
<1>3. Acting(t, c) /\ c \in CallRecord
  BY <1>0, <1>2, NewCall DEF Acting
<1>4. Steady /\ UNCHANGED rdsVars
  BY <1>0, LossesBounded DEF ControllerExpandVolume, Query, Steady
<1>5. \/ n # None /\ Answer(t, c, TRUE, n)
      \/ Goto(t, c, "resize_get")
      \/ Fail(t, c)
  BY Zenon DEF ControllerExpandVolume, Query, Succeed
<1>6. CASE n # None /\ Answer(t, c, TRUE, n)
  <2>1. n \in Nat
    BY <1>0, <1>6 DEF TypeOK
  <2>2. n >= FormatBytes(n)
    BY <2>1, FormatCuts
  <2> QED
    BY <1>1, <1>3, <1>4, <1>6, <2>1, <2>2, Ends, Zenon
<1>7. CASE Goto(t, c, "resize_get")
  <2>1. WellFormed([c EXCEPT !.stage = "resize_get", !.tries = 0])
    BY <1>1, <1>3 DEF WellFormed, CallRecord
  <2>2. SizesKnown([c EXCEPT !.stage = "resize_get", !.tries = 0])
    BY <1>0, <1>1, <1>2, <1>3 DEF SizesKnown, CallRecord, TypeOK
  <2> QED
    BY <1>3, <1>4, <1>7, <2>1, <2>2, Moves, Zenon
<1>8. CASE Fail(t, c)
  BY <1>3, <1>4, <1>8, FailEnds, Zenon
<1> QED
  BY <1>5, <1>6, <1>7, <1>8, Zenon

LEMMA ResizeGetStep ==
  ASSUME StorageInv, NEW t \in Threads, ResizeGet(t), UNCHANGED passVars
  PROVE  StorageInv'
<1>0. TypeOK
  BY DEF StorageInv, PassTypeOK
<1> PICK c : c = call[t]
  OBVIOUS
<1>1. c.stage = "resize_get" /\ c.op # "none" /\ CallSound(t)
  BY DEF ResizeGet, StorageInv, CallSound, WellFormed, Idle
<1>2. Acting(t, c) /\ WellFormed(c) /\ SizesKnown(c) /\ c \in CallRecord
  BY <1>1, OwnCall DEF Acting
<1>3. c.op = "expand" /\ c.id \in Volumes
  BY <1>1, <1>2 DEF WellFormed, CallSound, CallRecord
<1>4. Steady /\ UNCHANGED rdsVars
  BY <1>0, LossesBounded DEF ResizeGet, Query, Steady
<1>5. \/ disk[c.id] # None /\ c.size = disk[c.id] /\ Answer(t, c, TRUE, c.size)
      \/ disk[c.id] # None /\ c.size > disk[c.id] /\ Goto(t, c, "set")
      \/ Fail(t, c)
  BY Zenon DEF ResizeGet, Query, Succeed
<1>6. CASE disk[c.id] # None /\ c.size = disk[c.id] /\ Answer(t, c, TRUE, c.size)
  <2>1. c.size \in Nat
    BY <1>2 DEF CallRecord
  <2>2. disk[c.id] >= FormatBytes(c.size)
    BY <1>6, <2>1, FormatCuts
  <2> QED
    BY <1>2, <1>4, <1>6, <2>1, <2>2, Ends, Zenon
<1>7. CASE disk[c.id] # None /\ c.size > disk[c.id] /\ Goto(t, c, "set")
  <2>1. WellFormed([c EXCEPT !.stage = "set", !.tries = 0])
    BY <1>2, <1>3 DEF WellFormed, CallRecord
  <2>2. disk[c.id] \in Nat /\ c.size \in Nat
    BY <1>0, <1>2, <1>7 DEF TypeOK, CallRecord, Acting
  <2>3. SizesKnown([c EXCEPT !.stage = "set", !.tries = 0])
    BY <1>2, <1>3, <1>7, <2>2 DEF SizesKnown, CallRecord
  <2> QED
    BY <1>2, <1>4, <1>7, <2>1, <2>3, Moves, Zenon
<1>8. CASE Fail(t, c)
  BY <1>2, <1>4, <1>8, FailEnds, Zenon
<1> QED
  BY <1>5, <1>6, <1>7, <1>8, Zenon


(* "/disk set".  formatBytes keeps the order of sizes, so that what holds  *)
(* of the size asked for holds of the size that is set.                    *)
LEMMA SetStep ==
  ASSUME StorageInv, NEW t \in Threads, Set(t), UNCHANGED passVars
  PROVE  StorageInv'
<1>0. TypeOK
  BY DEF StorageInv, PassTypeOK
<1> PICK c : c = call[t]
  OBVIOUS
<1>1. c.stage = "set" /\ c.op # "none" /\ CallSound(t)
  BY DEF Set, StorageInv, CallSound, WellFormed, Idle
<1>2. Acting(t, c) /\ WellFormed(c) /\ SizesKnown(c) /\ c \in CallRecord
  BY <1>1, OwnCall DEF Acting
<1>3. c.op = "expand" /\ c.id \in Volumes /\ c.id \in Slots /\ c.size \in Nat
  BY <1>1, <1>2 DEF WellFormed, CallSound, CallRecord, Slots
<1>4. Steady
  BY <1>0, LossesBounded DEF Set, Steady
<1> PICK n : n = FormatBytes(c.size)
  OBVIOUS
<1>5. n \in Nat /\ n <= c.size /\ Whole(n)
  BY <1>3, FormatCuts
<1>6. \/ /\ disk[c.id] # None /\ disk' = [disk EXCEPT ![c.id] = n] /\ file' = file
         /\ Goto(t, c, "verify") \/ Retry(t)
      \/ Retry(t) /\ UNCHANGED rdsVars
      \/ Fail(t, c) /\ UNCHANGED rdsVars
  BY Zenon DEF Set
<1>7. CASE /\ disk[c.id] # None /\ disk' = [disk EXCEPT ![c.id] = n] /\ file' = file
           /\ Goto(t, c, "verify") \/ Retry(t)
  <2>1. UNCHANGED kubeVars
    BY <1>1, <1>7, Executes, Zenon
  <2>2. PICK d : /\ Outcome(t, c, d) /\ call'[t] = d
                 /\ \/ d = Idle
                    \/ /\ d.op = c.op /\ d.id = c.id /\ d.size = c.size /\ d.live = c.live
                       /\ d.stage \in {c.stage, "verify"}
    BY <1>1, <1>7, Executes
  <2>3. disk'[c.id] = n
    BY <1>0, <1>3, <1>7 DEF TypeOK
  <2>4. OwnSlot(c)
    BY <1>0, <1>3, <1>5, <1>7 DEF OwnSlot, TypeOK
  <2>5. CallSound(t)'
    <3>1. CASE d = Idle
      BY <2>2, <3>1, IdleSound
    <3>2. CASE d # Idle
      <4>1. WellFormed(d)' /\ Entitled(d)'
        BY <1>2, <1>3, <2>1, <2>2, <3>2 DEF WellFormed, Entitled, kubeVars
      <4>2. n # None
        BY <1>5, RdsAssumption
      <4>3. SizesKnown(d)'
        <5>1. SUFFICES ASSUME c.id \notin late
              PROVE  /\ c.size >= cap[c.id]
                     /\ disk'[c.id] # None /\ c.size >= disk'[c.id]
                     /\ disk'[c.id] >= FormatBytes(c.size)
          BY <1>4, <2>1, <2>2, <3>2 DEF SizesKnown, kubeVars, Steady
        <5> QED
          BY <1>2, <1>3, <1>5, <2>3, <4>2, <5>1 DEF SizesKnown
      <4> QED
        BY <1>2, <1>3, <1>4, <2>2, <3>2, <4>1, <4>3 DEF CallSound, Acting, Steady
    <3> QED
      BY <3>1, <3>2
  <2>6. VolumeSound(c.id)'
    <3>1. VolumeSound(c.id)
      BY <1>3 DEF StorageInv
    <3>2. c.id \notin late => n >= FormatBytes(cap[c.id])
      <4>1. c.id \notin late => cap[c.id] \in Nat /\ cap[c.id] <= c.size
        BY <1>0, <1>2, <1>3 DEF SizesKnown, TypeOK
      <4>2. CASE c.id \notin late
        <5>1. PICK m \in Nat : m = cap[c.id] /\ m <= c.size
          BY <4>1, <4>2
        <5>2. FormatBytes(m) <= n /\ FormatBytes(m) \in Nat
          BY <1>3, <5>1, FormatMonotone, FormatCuts, Zenon
        <5> QED
          BY <1>5, <5>1, <5>2
      <4> QED
        BY <4>2
    <3>3. n # None
      BY <1>5, RdsAssumption
    <3> QED
      BY <1>4, <1>7, <2>1, <2>3, <3>1, <3>2, <3>3 DEF VolumeSound, kubeVars, Steady, passVars
  <2> QED
    BY <1>2, <1>4, <2>2, <2>4, <2>5, <2>6, HandlerStep, Zenon
<1>8. CASE Retry(t) /\ UNCHANGED rdsVars
  BY <1>1, <1>4, <1>8, Retries, Zenon
<1>9. CASE Fail(t, c) /\ UNCHANGED rdsVars
  BY <1>2, <1>4, <1>9, FailEnds, Zenon
<1> QED
  BY <1>6, <1>7, <1>8, <1>9, Zenon


-----------------------------------------------------------------------------
(* CreateSnapshot.                                                         *)
LEMMA CreateSnapshotStep ==
  ASSUME StorageInv, NEW t \in Threads, NEW s \in Snaps, CreateSnapshot(t, s), UNCHANGED passVars
  PROVE  StorageInv'
<1>0. TypeOK /\ s \in Slots /\ PrintsSource \in BOOLEAN
  BY RdsAssumption DEF StorageInv, PassTypeOK, Slots
<1> PICK c : c = Call("snapshot", s, 0)
  OBVIOUS
<1> PICK n : n = disk[s]
  OBVIOUS
<1>1. c.op = "snapshot" /\ c.id = s
  BY DEF Call
<1>2. MayCall(t, s) /\ vsc[s] = "wanted"
  BY DEF CreateSnapshot
<1>3. Acting(t, c) /\ c \in CallRecord
  BY <1>0, <1>2, NewCall DEF Acting
<1>4. Steady /\ UNCHANGED rdsVars
  BY <1>0, LossesBounded DEF CreateSnapshot, Query, Steady
<1>5. Answer(t, c, PrintsSource, n) \/ Goto(t, c, "source_get")
  BY Zenon DEF CreateSnapshot, Query
<1>6. CASE Answer(t, c, PrintsSource, n)
  BY <1>0, <1>1, <1>3, <1>4, <1>6, Ends, Zenon
<1>7. CASE Goto(t, c, "source_get")
  <2>1. WellFormed([c EXCEPT !.stage = "source_get", !.tries = 0])
    BY <1>1, <1>3 DEF WellFormed, CallRecord
  <2>2. SizesKnown([c EXCEPT !.stage = "source_get", !.tries = 0])
    BY <1>1, <1>3 DEF SizesKnown, CallRecord
  <2> QED
    BY <1>3, <1>4, <1>7, <2>1, <2>2, Moves, Zenon
<1> QED
  BY <1>5, <1>6, <1>7

LEMMA SourceGetStep ==
  ASSUME StorageInv, NEW t \in Threads, SourceGet(t), UNCHANGED passVars
  PROVE  StorageInv'
<1>0. TypeOK
  BY DEF StorageInv, PassTypeOK
<1> PICK c : c = call[t]
  OBVIOUS
<1>1. c.stage \in {"source_get", "source_get2"} /\ c.op # "none" /\ CallSound(t)
  BY DEF SourceGet, StorageInv, CallSound, WellFormed, Idle
<1>2. Acting(t, c) /\ WellFormed(c) /\ c \in CallRecord
  BY <1>1, OwnCall DEF Acting
<1>3. c.op = "snapshot" /\ c.id \in Snaps
  BY <1>1, <1>2 DEF WellFormed, CallSound, CallRecord
<1>4. Steady /\ UNCHANGED rdsVars
  BY <1>0, LossesBounded DEF SourceGet, Query, Steady
<1>5. (\E s \in {"source_get2", "add"} : Goto(t, c, s)) \/ Fail(t, c)
  BY DEF SourceGet, Query
<1>6. ASSUME NEW s \in {"source_get2", "add"}, Goto(t, c, s) PROVE StorageInv'
  <2>1. WellFormed([c EXCEPT !.stage = s, !.tries = 0])
    BY <1>2, <1>3 DEF WellFormed, CallRecord
  <2>2. SizesKnown([c EXCEPT !.stage = s, !.tries = 0])
    BY <1>2, <1>3 DEF SizesKnown, CallRecord
  <2> QED
    BY <1>2, <1>4, <1>6, <2>1, <2>2, Moves, Zenon
<1>7. CASE Fail(t, c)
  BY <1>2, <1>4, <1>7, FailEnds, Zenon
<1> QED
  BY <1>5, <1>6, <1>7

-----------------------------------------------------------------------------
(* The users, the deadline of a call, and a crash.                         *)
LEMMA ReleaseStep ==
  ASSUME StorageInv, NEW v \in Volumes, ReleaseVolume(v), oldBound' = oldBound \ {v},
         UNCHANGED <<pass, swept>>
  PROVE  StorageInv'
<1>0. TypeOK
  BY DEF StorageInv, PassTypeOK
<1>1. PICK phase \in {"released", "abandoned"} :
        /\ pv' = [pv EXCEPT ![v] = phase] /\ pv[v] \in {"wanted", "bound"}
        /\ pv[v] = "bound" => phase = "released"
        /\ pv[v] = "wanted" => phase = "abandoned"
  BY DEF ReleaseVolume
<1>2. /\ UNCHANGED <<disk, file, call, source, cap, vsc, late, losses, pass, swept>>
      /\ ~\E t \in Threads : call[t].live /\ call[t].id = v
  BY DEF ReleaseVolume, rdsVars
<1>3. PassTypeOK' /\ pass' \in PassRecord /\ DiskWhole' /\ OneLiveCall'
  BY <1>0, <1>1, <1>2, Zenon DEF StorageInv, PassTypeOK, TypeOK, DiskWhole, OneLiveCall
<1>4. ASSUME NEW t \in Threads PROVE CallSound(t)'
  <2>1. CallSound(t) /\ call[t] \in CallRecord
    BY <1>0 DEF StorageInv, TypeOK, Procs
  <2>2. Entitled(call[t])'
    BY <1>0, <1>1, <1>2, <2>1 DEF CallSound, WellFormed, Entitled, TypeOK, CallRecord
  <2> QED
    BY <1>2, <2>1, <2>2 DEF CallSound, WellFormed, SizesKnown
<1>5. ASSUME NEW w \in Volumes PROVE VolumeSound(w)'
  BY <1>0, <1>1, <1>2, Zenon DEF StorageInv, VolumeSound, TypeOK
<1>6. PassSound'
  BY <1>0, <1>1, <1>2 DEF StorageInv, PassTypeOK, PassSound, TypeOK
<1> QED
  BY <1>3, <1>4, <1>5, <1>6 DEF StorageInv

LEMMA ReleaseSnapshotStep ==
  ASSUME StorageInv, NEW s \in Snaps, ReleaseSnapshot(s), UNCHANGED passVars
  PROVE  StorageInv'
<1>0. TypeOK
  BY DEF StorageInv, PassTypeOK
<1>1. /\ vsc[s] = "ready" /\ vsc' = [vsc EXCEPT ![s] = "released"]
      /\ UNCHANGED <<disk, file, call, pv, source, cap, late, losses, pass, swept, oldBound>>
  BY DEF ReleaseSnapshot, rdsVars, passVars
<1>2. PassTypeOK' /\ pass' \in PassRecord /\ DiskWhole' /\ OneLiveCall'
  BY <1>0, <1>1, ZenonT(30) DEF StorageInv, PassTypeOK, TypeOK, DiskWhole, OneLiveCall
<1>3. ASSUME NEW t \in Threads PROVE CallSound(t)'
  <2>1. CallSound(t)
    BY DEF StorageInv
  <2>2. Entitled(call[t])'
    BY <1>0, <1>1, <2>1, ZenonT(30) DEF CallSound, WellFormed, Entitled, TypeOK
  <2> QED
    BY <1>1, <2>1, <2>2 DEF CallSound, WellFormed, SizesKnown
<1>4. ASSUME NEW w \in Volumes PROVE VolumeSound(w)'
  BY <1>1 DEF StorageInv, VolumeSound
<1>5. PassSound'
  BY <1>1 DEF StorageInv, PassSound
<1> QED
  BY <1>2, <1>3, <1>4, <1>5 DEF StorageInv


LEMMA GiveUpStep ==
  ASSUME StorageInv, NEW t \in Threads, GiveUp(t), UNCHANGED passVars
  PROVE  StorageInv'
<1>0. TypeOK /\ t \in Procs
  BY DEF StorageInv, PassTypeOK, Procs
<1> PICK c : c = call[t]
  OBVIOUS
<1>1. /\ c.live /\ call' = [call EXCEPT ![t].live = FALSE] /\ late' = late \cup {c.id}
      /\ UNCHANGED <<disk, file, pv, source, cap, vsc, pass, swept, oldBound>>
  BY DEF GiveUp, rdsVars, kubeVars, passVars
<1>2. c.op # "none" /\ CallSound(t)
  BY <1>1 DEF StorageInv, CallSound, WellFormed, Idle
<1>3. Acting(t, c) /\ c \in CallRecord
  BY <1>2, OwnCall DEF Acting
<1> PICK d : d = [c EXCEPT !.live = FALSE]
  BY Zenon
<1>4. /\ d \in CallRecord /\ d.op = c.op /\ d.id = c.id /\ d.size = c.size /\ d.stage = c.stage
      /\ d.live = FALSE
  BY <1>3, Zenon DEF CallRecord
<1>5. call' = [call EXCEPT ![t] = d] /\ call'[t] = d
  BY <1>0, <1>1 DEF TypeOK
<1>6. PassTypeOK' /\ pass' \in PassRecord /\ DiskWhole'
  <2>1. losses' \in 0 .. MaxLosses
    BY <1>0, LossesBounded DEF GiveUp
  <2> QED
    BY <1>0, <1>1, <1>3, <1>4, <1>5, <2>1 DEF StorageInv, PassTypeOK, TypeOK, DiskWhole, Acting
<1>7. OneLiveCall'
  BY <1>0, <1>4, <1>5 DEF StorageInv, TypeOK, OneLiveCall, Procs
<1>8. ASSUME NEW u \in Threads PROVE CallSound(u)'
  <2>1. CASE u = t
    BY <1>1, <1>2, <1>4, <1>5, <2>1 DEF CallSound, WellFormed, Entitled, SizesKnown
  <2>2. CASE u # t
    <3>1. call'[u] = call[u] /\ CallSound(u)
      BY <1>0, <1>5, <2>2 DEF StorageInv, TypeOK, Procs
    <3> QED
      BY <1>1, <3>1 DEF CallSound, WellFormed, Entitled, SizesKnown
  <2> QED
    BY <2>1, <2>2
<1>9. ASSUME NEW v \in Volumes PROVE VolumeSound(v)'
  BY <1>1 DEF StorageInv, VolumeSound
<1>10. PassSound'
  <2>1. call'[Orphan] = call[Orphan]
    BY <1>0, <1>5, RdsAssumption DEF TypeOK, Procs
  <2> QED
    BY <1>1, <2>1 DEF StorageInv, PassSound
<1> QED
  BY <1>6, <1>7, <1>8, <1>9, <1>10 DEF StorageInv

LEMMA NoPassTyped == NoPass \in PassRecord /\ NoPass.stage = "idle" /\ NoPass.todo = {}
                     /\ NoPass.active = {} /\ NoPass.disks = {}
  BY DEF NoPass, PassRecord

LEMMA CrashStep ==
  ASSUME StorageInv, Crash, EndPass, UNCHANGED swept
  PROVE  StorageInv'
<1>0. TypeOK
  BY DEF StorageInv, PassTypeOK
<1>1. /\ \A p \in Procs : call'[p] = Idle
      /\ UNCHANGED <<disk, file, pv, source, cap, vsc, late, swept>>
      /\ pass' = NoPass /\ oldBound' = {}
  BY DEF Crash, EndPass, rdsVars, kubeVars
<1>2. PassTypeOK' /\ pass' \in PassRecord /\ DiskWhole'
  <2>1. losses' \in 0 .. MaxLosses
    BY <1>0, LossesBounded DEF Crash
  <2>2. Idle \in CallRecord
    BY RdsAssumption DEF Idle, CallRecord
  <2>3. call' \in [Procs -> CallRecord]
    BY <2>2 DEF Crash
  <2> QED
    BY <1>0, <1>1, <2>1, <2>3, NoPassTyped DEF StorageInv, PassTypeOK, TypeOK, DiskWhole
<1>3. OneLiveCall'
  BY <1>1 DEF OneLiveCall, Procs, Idle
<1>4. ASSUME NEW u \in Threads PROVE CallSound(u)'
  BY <1>1, IdleSound DEF Procs
<1>5. ASSUME NEW v \in Volumes PROVE VolumeSound(v)'
  BY <1>1 DEF StorageInv, VolumeSound
<1>6. PassSound'
  BY <1>1, NoPassTyped DEF PassSound, Procs
<1> QED
  BY <1>2, <1>3, <1>4, <1>5, <1>6 DEF StorageInv

-----------------------------------------------------------------------------
(* The reconciler.  A slot it touches is a snapshot's, or has been swept.  *)
LEMMA ReconcilerStep ==
  ASSUME StorageInv, UNCHANGED <<kubeVars, late>>, Arrives \/ Fault,
         call' \in [Procs -> CallRecord], \A u \in Threads : call'[u] = call[u],
         disk' \in [Slots -> Nat \cup {None}], file' \subseteq Slots,
         swept \subseteq swept', swept' \subseteq Volumes,
         \A x \in Slots : \/ disk'[x] = disk[x] /\ (x \in file' <=> x \in file)
                          \/ disk'[x] \in {disk[x], None} /\ x \in swept' \cup Snaps,
         pass' \in PassRecord, oldBound' \subseteq Volumes, PassSound'
  PROVE  StorageInv'
<1>0. TypeOK
  BY DEF StorageInv, PassTypeOK
<1>1. PassTypeOK' /\ pass' \in PassRecord
  <2>1. losses' \in 0 .. MaxLosses
    BY <1>0, LossesBounded
  <2> QED
    BY <1>0, <2>1 DEF PassTypeOK, TypeOK, PassRecord, kubeVars
<1>2. DiskWhole'
  BY DEF StorageInv, DiskWhole
<1>3. OneLiveCall'
  BY DEF StorageInv, OneLiveCall
<1>4. ASSUME NEW u \in Threads PROVE CallSound(u)'
  <2> PICK c : c = call[u]
    OBVIOUS
  <2>1. c \in CallRecord /\ CallSound(u) /\ call'[u] = c
    BY <1>0 DEF StorageInv, TypeOK, Procs
  <2>2. CASE c = Idle
    BY <2>1, <2>2, IdleSound, Zenon
  <2>3. CASE c # Idle
    <3>1. c.id \in Slots
      BY <2>1, <2>3 DEF CallSound, WellFormed, CallRecord, Slots
    <3>2. \/ disk'[c.id] = disk[c.id]
          \/ disk'[c.id] = None /\ c.id \in swept' \cup Snaps
      BY <3>1, Zenon
    <3>3. SizesKnown(c)'
      BY <2>1, <3>2 DEF CallSound, SizesKnown, kubeVars
    <3> QED
      BY <2>1, <3>3, ZenonT(30) DEF CallSound, WellFormed, Entitled, kubeVars
  <2> QED
    BY <2>2, <2>3
<1>5. ASSUME NEW v \in Volumes PROVE VolumeSound(v)'
  <2>1. v \in Slots /\ v \notin Snaps /\ VolumeSound(v)
    BY RdsAssumption DEF Slots, StorageInv
  <2> QED
    BY <2>1 DEF VolumeSound, kubeVars
<1> QED
  BY <1>1, <1>2, <1>3, <1>4, <1>5 DEF StorageInv


LEMMA ListsStep ==
  ASSUME StorageInv, ListVolumes \/ ListPVs \/ ListFiles
  PROVE  StorageInv'
<1>0. TypeOK /\ pass \in PassRecord /\ PassSound /\ PassTypeOK
  BY DEF StorageInv, PassTypeOK
<1>1. UNCHANGED <<disk, file, call, kubeVars, late, swept>> /\ (Arrives \/ Fault)
  BY DEF ListVolumes, ListPVs, ListFiles, rdsVars
<1>2. pass' \in PassRecord /\ oldBound' \subseteq Volumes /\ PassSound'
  <2>1. CASE pass' = NoPass /\ oldBound' = {} /\ call[Orphan] = Idle
    BY <1>1, <2>1, NoPassTyped DEF PassSound
  <2>2. CASE UNCHANGED <<pass, oldBound>>
    BY <1>0, <1>1, <2>2 DEF PassSound, PassTypeOK, kubeVars
  <2>3. CASE /\ pass.stage = "idle"
             /\ pass' = [NoPass EXCEPT !.stage = "pvs",
                                      !.disks = {v \in Volumes : disk[v] # None}]
             /\ oldBound' = {v \in Volumes : pv[v] = "bound"}
    <3>1. /\ pass' \in PassRecord /\ pass'.stage = "pvs" /\ pass'.todo = {}
          /\ pass'.active = {}
      BY <2>3, Zenon DEF NoPass, PassRecord
    <3> QED
      BY <1>0, <1>1, <2>3, <3>1, Zenon DEF PassSound, kubeVars
  <2>4. ASSUME NEW active, active = {v \in Volumes : pv[v] \in {"bound", "released"}},
               pass.stage = "pvs",
               pass' = [pass EXCEPT !.stage = "disks", !.active = active,
                                   !.todo = IF DryRun THEN {} ELSE pass.disks \ active],
               UNCHANGED oldBound
        PROVE  pass' \in PassRecord /\ oldBound' \subseteq Volumes /\ PassSound'
    <3>1. /\ pass' \in PassRecord /\ pass'.stage = "disks" /\ pass'.active = active
          /\ pass'.todo \subseteq Volumes /\ pass'.todo \cap active = {}
      BY <1>0, <2>4, Zenon DEF PassRecord, Slots
    <3>2. call[Orphan] = Idle /\ oldBound \subseteq active
      BY <1>0, <2>4 DEF PassSound, PassTypeOK
    <3> QED
      BY <1>0, <1>1, <2>4, <3>1, <3>2, Zenon DEF PassSound, PassTypeOK, kubeVars
  <2>5. ASSUME NEW orphans, orphans = {x \in file : x \notin pass.disks /\ x \notin pass.active},
               pass.stage = "disks", call[Orphan] = Idle,
               pass' = [pass EXCEPT !.stage = "files", !.todo = orphans],
               UNCHANGED oldBound
        PROVE  pass' \in PassRecord /\ oldBound' \subseteq Volumes /\ PassSound'
    <3>1. /\ pass' \in PassRecord /\ pass'.stage = "files" /\ pass'.active = pass.active
          /\ pass'.todo \cap pass.active = {}
      BY <1>0, <2>5, Zenon DEF PassRecord, TypeOK
    <3> QED
      BY <1>0, <1>1, <2>5, <3>1, Zenon DEF PassSound, PassTypeOK, kubeVars
  <2>6. CASE ListVolumes
    BY <2>2, <2>3, <2>6, Zenon DEF ListVolumes
  <2>7. CASE ListPVs
    <3>1. pass.stage = "pvs" => call[Orphan] = Idle
      BY <1>0, ZenonT(30) DEF PassSound
    <3> QED
      BY <2>1, <2>4, <2>7, <3>1, Zenon DEF ListPVs, EndPass
  <2>8. CASE ListFiles
    BY <2>1, <2>5, <2>8, Zenon DEF ListFiles, EndPass
  <2> QED
    BY <2>6, <2>7, <2>8
<1>3. /\ call' \in [Procs -> CallRecord] /\ \A u \in Threads : call'[u] = call[u]
      /\ disk' \in [Slots -> Nat \cup {None}] /\ file' \subseteq Slots
      /\ swept \subseteq swept' /\ swept' \subseteq Volumes /\ UNCHANGED <<kubeVars, late>>
      /\ \A x \in Slots : disk'[x] = disk[x] /\ (x \in file' <=> x \in file)
  BY <1>0, <1>1, ZenonT(30) DEF TypeOK, PassTypeOK
<1> QED
  BY <1>1, <1>2, <1>3, ReconcilerStep, Zenon

(* Retry and Answer for a call that nobody waits for.                      *)
LEMMA OrphanCallStep ==
  ASSUME TypeOK, call[Orphan].op = "orphan", ~call[Orphan].live,
         Retry(Orphan) \/ Succeed(Orphan, call[Orphan], 0) \/ Goto(Orphan, call[Orphan], "rm_file")
  PROVE  /\ UNCHANGED kubeVars
         /\ call' \in [Procs -> CallRecord] /\ \A u \in Threads : call'[u] = call[u]
         /\ \/ call'[Orphan] = Idle
            \/ /\ call'[Orphan].op = "orphan" /\ ~call'[Orphan].live
               /\ call'[Orphan].id = call[Orphan].id
               /\ call'[Orphan].stage \in {call[Orphan].stage, "rm_file"}
<1> PICK c : c = call[Orphan]
  OBVIOUS
<1>0. c \in CallRecord /\ Orphan \in Procs
  BY DEF TypeOK, Procs
<1>1. ASSUME NEW ok, Answer(Orphan, c, ok, 0)
      PROVE  /\ UNCHANGED kubeVars /\ call' = [call EXCEPT ![Orphan] = Idle]
             /\ Idle \in CallRecord
  <2>1. pv' = pv /\ cap' = cap /\ vsc' = vsc /\ source' = source
    BY <1>1 DEF Answer, TypeOK
  <2>2. Idle \in CallRecord
    BY RdsAssumption DEF Idle, CallRecord
  <2> QED
    BY <1>1, <2>1, <2>2 DEF Answer, kubeVars
<1>2. CASE Retry(Orphan) /\ ~Fail(Orphan, c)
  <2>1. /\ c.tries + 1 < MaxRetries /\ call' = [call EXCEPT ![Orphan].tries = @ + 1]
        /\ UNCHANGED kubeVars
    BY <1>2 DEF Retry
  <2>2. PICK d : d = [c EXCEPT !.tries = @ + 1]
    BY Zenon
  <2>3. /\ d \in CallRecord /\ d.op = c.op /\ d.id = c.id /\ d.live = c.live
        /\ d.stage = c.stage
    BY <1>0, <2>1, <2>2, RdsAssumption DEF CallRecord
  <2>4. call' = [call EXCEPT ![Orphan] = d]
    BY <1>0, <2>1, <2>2 DEF TypeOK
  <2> QED
    BY <1>0, <2>1, <2>3, <2>4, RdsAssumption DEF TypeOK, Procs
<1>3. CASE Goto(Orphan, c, "rm_file")
  <2>1. PICK d : d = [c EXCEPT !.stage = "rm_file", !.tries = 0]
    OBVIOUS
  <2>2. /\ d \in CallRecord /\ d.op = c.op /\ d.id = c.id /\ d.live = c.live
        /\ d.stage = "rm_file"
    <3>1. 0 \in 0 .. MaxRetries - 1
      BY RdsAssumption
    <3> QED
      BY <1>0, <2>1, <3>1, Zenon DEF CallRecord
  <2>3. call' = [call EXCEPT ![Orphan] = d] /\ UNCHANGED kubeVars
    BY <1>3, <2>1 DEF Goto
  <2> QED
    BY <1>0, <2>2, <2>3, RdsAssumption DEF TypeOK, Procs
<1>4. CASE Fail(Orphan, c) \/ Succeed(Orphan, c, 0)
  <2>1. UNCHANGED kubeVars /\ call' = [call EXCEPT ![Orphan] = Idle] /\ Idle \in CallRecord
    BY <1>1, <1>4, Zenon DEF Fail, Succeed
  <2> QED
    BY <1>0, <2>1, RdsAssumption DEF TypeOK, Procs
<1> QED
  BY <1>2, <1>3, <1>4


(* reconcileOrphanedDisks.  What is removed was not bound all the time.    *)
LEMMA OrphanedVolumeStep ==
  ASSUME StorageInv, DeleteOrphanedVolume
  PROVE  StorageInv'
<1>0. TypeOK /\ pass \in PassRecord /\ PassSound /\ PassTypeOK /\ pass.stage = "disks"
      /\ UNCHANGED oldBound /\ Orphan \in Procs
  BY DEF StorageInv, PassTypeOK, DeleteOrphanedVolume, Procs
<1>1. ASSUME call[Orphan] = Idle, NEW v \in pass.todo, pass' = [pass EXCEPT !.todo = @ \ {v}],
             RemoveGet(Orphan, [Call("orphan", v, 0) EXCEPT !.live = FALSE]), UNCHANGED swept
      PROVE  StorageInv'
  <2> PICK c : c = [Call("orphan", v, 0) EXCEPT !.live = FALSE]
    BY Zenon
  <2>1. v \in Volumes \ pass.active
    BY <1>0 DEF PassSound, PassRecord
  <2>2. c \in CallRecord /\ c.op = "orphan" /\ c.id = v /\ c.live = FALSE /\ c.stage = "get"
    <3>1. Call("orphan", v, 0) \in CallRecord
      <4>1. v \in Slots /\ 0 \in Nat /\ 0 \in 0 .. MaxRetries - 1
        BY <2>1, RdsAssumption DEF Slots
      <4> QED
        BY <4>1 DEF Call, CallRecord
    <3>2. Call("orphan", v, 0).op = "orphan" /\ Call("orphan", v, 0).id = v
          /\ Call("orphan", v, 0).stage = "get"
      BY DEF Call
    <3> QED
      BY <3>1, <3>2, Zenon DEF CallRecord
  <2>3. /\ Goto(Orphan, c, "rm_disk") \/ Answer(Orphan, c, TRUE, 0) \/ Answer(Orphan, c, FALSE, 0)
        /\ UNCHANGED <<disk, file, late>> /\ (Arrives \/ Fault)
    BY <1>1, Zenon DEF RemoveGet, Query, Succeed, Fail, rdsVars
  <2>4. /\ UNCHANGED kubeVars
        /\ \E d \in CallRecord :
             /\ call' = [call EXCEPT ![Orphan] = d]
             /\ \/ d = Idle
                \/ d.op = "orphan" /\ d.id = v /\ ~d.live /\ d.stage = "rm_disk"
    <3>1. CASE Goto(Orphan, c, "rm_disk")
      <4>1. [c EXCEPT !.stage = "rm_disk", !.tries = 0] \in CallRecord
        <5>1. 0 \in 0 .. MaxRetries - 1
          BY RdsAssumption
        <5> QED
          BY <2>2, <5>1, Zenon DEF CallRecord
      <4>2. PICK d \in CallRecord : d = [c EXCEPT !.stage = "rm_disk", !.tries = 0]
        BY <4>1
      <4>3. d.op = "orphan" /\ d.id = v /\ ~d.live /\ d.stage = "rm_disk"
        BY <2>2, <4>2 DEF CallRecord
      <4>4. call' = [call EXCEPT ![Orphan] = d] /\ UNCHANGED kubeVars
        BY <3>1, <4>2, Zenon DEF Goto
      <4> QED
        BY <4>3, <4>4, Zenon
    <3>2. ASSUME NEW ok \in BOOLEAN, Answer(Orphan, c, ok, 0)
          PROVE  /\ UNCHANGED kubeVars /\ call' = [call EXCEPT ![Orphan] = Idle]
                 /\ Idle \in CallRecord
      <4>1. pv' = pv /\ cap' = cap /\ vsc' = vsc /\ source' = source
        BY <1>0, <2>2, <3>2 DEF Answer, TypeOK
      <4>2. Idle \in CallRecord
        BY RdsAssumption DEF Idle, CallRecord
      <4> QED
        BY <3>2, <4>1, <4>2 DEF Answer, kubeVars
    <3> QED
      BY <2>3, <3>1, <3>2, Zenon
  <2>5. PICK d \in CallRecord :
          /\ call' = [call EXCEPT ![Orphan] = d]
          /\ \/ d = Idle
             \/ d.op = "orphan" /\ d.id = v /\ ~d.live /\ d.stage = "rm_disk"
    BY <2>4, Zenon
  <2>6. /\ call' \in [Procs -> CallRecord] /\ call'[Orphan] = d
        /\ \A u \in Threads : call'[u] = call[u]
    BY <1>0, <2>5, RdsAssumption DEF TypeOK, Procs
  <2>7. /\ pass' \in PassRecord /\ pass'.stage = "disks" /\ pass'.active = pass.active
        /\ pass'.todo \subseteq pass.todo
    BY <1>0, <1>1 DEF PassRecord
  <2>8. PassSound'
    BY <1>0, <2>1, <2>4, <2>5, <2>6, <2>7 DEF PassSound, kubeVars
  <2>9. /\ disk' \in [Slots -> Nat \cup {None}] /\ file' \subseteq Slots
        /\ swept \subseteq swept' /\ swept' \subseteq Volumes /\ oldBound' \subseteq Volumes
        /\ \A x \in Slots : disk'[x] = disk[x] /\ (x \in file' <=> x \in file)
        /\ UNCHANGED <<kubeVars, late>>
    BY <1>0, <1>1, <2>3, <2>4 DEF TypeOK, PassTypeOK
  <2> QED
    BY <2>3, <2>6, <2>7, <2>8, <2>9, ReconcilerStep, Zenon
<1>2. ASSUME RemoveDisk(Orphan) \/ RemoveFile(Orphan), Sweep(call[Orphan].id), UNCHANGED pass
      PROVE  StorageInv'
  <2> PICK v : v = call[Orphan].id
    OBVIOUS
  <2>1. call[Orphan] # Idle
    BY <1>2 DEF RemoveDisk, RemoveFile, Idle
  <2>2. /\ call[Orphan].op = "orphan" /\ ~call[Orphan].live /\ v \in Volumes \ pass.active
        /\ call[Orphan].stage \in {"rm_disk", "rm_file"}
    BY <1>0, <2>1 DEF PassSound
  <2>3. swept' = swept \cup {v}
    BY <1>0, <1>2, <2>2 DEF PassSound, Sweep
  <2>4. /\ \/ Retry(Orphan) \/ Succeed(Orphan, call[Orphan], 0)
           \/ Goto(Orphan, call[Orphan], "rm_file")
        /\ disk' = disk \/ disk' = [disk EXCEPT ![v] = None]
        /\ file' = file \/ file' = file \ {v}
        /\ UNCHANGED late /\ (Arrives \/ Fault)
    BY <1>2 DEF RemoveDisk, RemoveFile, rdsVars
  <2>5. /\ UNCHANGED kubeVars
        /\ call' \in [Procs -> CallRecord] /\ \A u \in Threads : call'[u] = call[u]
        /\ \/ call'[Orphan] = Idle
           \/ /\ call'[Orphan].op = "orphan" /\ ~call'[Orphan].live
              /\ call'[Orphan].id = call[Orphan].id
              /\ call'[Orphan].stage \in {call[Orphan].stage, "rm_file"}
    BY <1>0, <2>2, <2>4, OrphanCallStep, Zenon
  <2>6. PassSound'
    BY <1>0, <1>2, <2>2, <2>5 DEF PassSound, kubeVars
  <2>7. v \in Slots
    BY <2>2 DEF Slots
  <2>8. /\ disk' \in [Slots -> Nat \cup {None}] /\ file' \subseteq Slots
        /\ \A x \in Slots : \/ disk'[x] = disk[x] /\ (x \in file' <=> x \in file)
                            \/ disk'[x] \in {disk[x], None} /\ x \in swept' \cup Snaps
    BY <1>0, <2>3, <2>4, <2>7, ZenonT(30) DEF TypeOK
  <2>9. /\ swept \subseteq swept' /\ swept' \subseteq Volumes /\ oldBound' \subseteq Volumes
        /\ pass' \in PassRecord /\ UNCHANGED <<kubeVars, late>>
    BY <1>0, <1>2, <2>2, <2>3, <2>4, <2>5 DEF PassTypeOK
  <2> QED
    BY <2>4, <2>5, <2>6, <2>8, <2>9, ReconcilerStep, Zenon
<1> QED
  BY <1>1, <1>2, Zenon DEF DeleteOrphanedVolume


(* reconcileOrphanedFiles.                                                 *)
LEMMA OrphanedFileStep ==
  ASSUME StorageInv, DeleteOrphanedFile
  PROVE  StorageInv'
<1>0. TypeOK /\ pass \in PassRecord /\ PassSound /\ PassTypeOK /\ pass.stage = "files"
      /\ UNCHANGED <<disk, call, kubeVars, late>>
  BY DEF StorageInv, PassTypeOK, DeleteOrphanedFile
<1>1. PICK x \in pass.todo :
        /\ \/ EndPass
           \/ pass' = [pass EXCEPT !.todo = @ \ {x}] /\ UNCHANGED oldBound
        /\ Arrives \/ Fault
        /\ file' = file \ {x} \/ file' = file
        /\ Sweep(x)
  BY Zenon DEF DeleteOrphanedFile
<1>2. /\ x \in Slots /\ x \notin pass.active /\ call[Orphan] = Idle
      /\ oldBound \subseteq pass.active
  BY <1>0 DEF PassSound, PassRecord
<1>3. swept' = IF x \in Volumes THEN swept \cup {x} ELSE swept
  BY <1>1, <1>2 DEF Sweep
<1>4. pass' \in PassRecord /\ oldBound' \subseteq Volumes /\ PassSound'
  <2>1. CASE EndPass
    BY <1>0, <1>2, <2>1, NoPassTyped DEF EndPass, PassSound
  <2>2. CASE pass' = [pass EXCEPT !.todo = @ \ {x}] /\ UNCHANGED oldBound
    <3>1. /\ pass' \in PassRecord /\ pass'.stage = "files" /\ pass'.active = pass.active
          /\ pass'.todo \subseteq pass.todo
      BY <1>0, <2>2 DEF PassRecord
    <3> QED
      BY <1>0, <1>2, <2>2, <3>1 DEF PassSound, PassTypeOK, kubeVars
  <2> QED
    BY <1>1, <2>1, <2>2
<1>5. /\ call' \in [Procs -> CallRecord] /\ \A u \in Threads : call'[u] = call[u]
      /\ disk' \in [Slots -> Nat \cup {None}] /\ file' \subseteq Slots
      /\ swept \subseteq swept' /\ swept' \subseteq Volumes
      /\ UNCHANGED <<kubeVars, late>>
  BY <1>0, <1>1, <1>3 DEF TypeOK, PassTypeOK
<1>6. \A y \in Slots : \/ disk'[y] = disk[y] /\ (y \in file' <=> y \in file)
                       \/ disk'[y] \in {disk[y], None} /\ y \in swept' \cup Snaps
  BY <1>0, <1>1, <1>2, <1>3 DEF Slots
<1> QED
  BY <1>1, <1>4, <1>5, <1>6, ReconcilerStep, Zenon

-----------------------------------------------------------------------------
LEMMA InitStorage == Init => StorageInv
<1> SUFFICES ASSUME Init PROVE StorageInv
  OBVIOUS
<1>1. PICK existing \in SUBSET Snaps :
        /\ disk = [s \in Slots |-> IF s \in existing THEN MinSize ELSE None]
        /\ file = existing
        /\ call = [p \in Procs |-> Idle]
        /\ pv = [v \in Volumes |-> "wanted"] /\ cap = [v \in Volumes |-> 0]
        /\ source \in [Volumes -> IF existing = {} THEN {None} ELSE existing]
        /\ vsc = [s \in Snaps |-> IF s \in existing THEN "ready" ELSE "wanted"]
        /\ late = {} /\ losses = 0
  BY Zenon DEF Init, ControllerInit
<1>2. pass = NoPass /\ swept = {} /\ oldBound = {}
  BY DEF Init
<1>3. MinSize \in Units /\ MinSize \in Nat \ {0}
  BY RdsAssumption
<1>4. Whole(MinSize)
  <2>1. {u \in Units : u <= MinSize} # {}
    BY <1>3
  <2>2. PICK u \in Nat \ {0} :
          /\ u <= MinSize /\ \A w \in Units : w <= MinSize => w <= u
          /\ \A k \in Nat : u <= k /\ k <= MinSize => FormatBytes(k) = (k \div u) * u
    BY <1>3, <2>1, UnitFits, Zenon
  <2>3. u = MinSize
    BY <1>3, <2>2
  <2>4. FormatBytes(u) = (u \div u) * u
    BY <1>3, <2>2, <2>3
  <2> QED
    BY <2>3, <2>4 DEF Whole
<1>5. Idle \in CallRecord
  BY RdsAssumption DEF Idle, CallRecord
<1>6. PassTypeOK /\ pass \in PassRecord
  <2>1. disk \in [Slots -> Nat \cup {None}] /\ file \subseteq Slots
    BY <1>1, <1>3 DEF Slots
  <2>2. call \in [Procs -> CallRecord]
    BY <1>1, <1>5
  <2>3. source \in [Volumes -> Snaps \cup {None}]
    BY <1>1
  <2>4. losses \in 0 .. MaxLosses
    BY <1>1, RdsAssumption
  <2> QED
    BY <1>1, <1>2, <2>1, <2>2, <2>3, <2>4, NoPassTyped DEF PassTypeOK, TypeOK
<1>7. DiskWhole
  BY <1>1, <1>4 DEF DiskWhole
<1>8. \A t \in Threads : CallSound(t)
  BY <1>1 DEF Procs, CallSound, WellFormed, Entitled, SizesKnown, Idle
<1>9. OneLiveCall
  BY <1>1 DEF OneLiveCall, Procs, Idle
<1>10. \A v \in Volumes : VolumeSound(v)
  <2> SUFFICES ASSUME NEW v \in Volumes PROVE VolumeSound(v)
    OBVIOUS
  <2>1. v \in Slots /\ v \notin existing
    BY RdsAssumption DEF Slots
  <2> QED
    BY <1>1, <2>1 DEF VolumeSound
<1>11. PassSound
  BY <1>1, <1>2, NoPassTyped DEF PassSound, Procs
<1> QED
  BY <1>6, <1>7, <1>8, <1>9, <1>10, <1>11 DEF StorageInv

LEMMA NextStorage ==
  ASSUME StorageInv, [Next]_vars
  PROVE  StorageInv'
<1>1. ASSUME Calls, UNCHANGED passVars PROVE StorageInv'
  <2>1. ASSUME NEW t \in Threads, Step(t) PROVE StorageInv'
    BY <1>1, <2>1, RestoreStep, AddStep, VerifyStep, DeletesStart, RemoveDiskStep, RemoveFileStep,
       ResizeGetStep, SetStep, SourceGetStep, Zenon DEF Step
  <2>2. ASSUME NEW t \in Threads, NEW v \in Volumes, CreateVolume(t, v) \/ DeleteVolume(t, v)
        PROVE  StorageInv'
    BY <1>1, <2>2, CreateVolumeStep, DeletesStart, Zenon
  <2>3. ASSUME NEW t \in Threads, NEW v \in Volumes, NEW n \in ExpandTo,
               ControllerExpandVolume(t, v, n)
        PROVE  StorageInv'
    BY <1>1, <2>3, ExpandStep, Zenon
  <2>4. ASSUME NEW t \in Threads, NEW s \in Snaps, CreateSnapshot(t, s) \/ DeleteSnapshot(t, s)
        PROVE  StorageInv'
    BY <1>1, <2>4, CreateSnapshotStep, DeletesStart, Zenon
  <2>5. ASSUME NEW t \in Threads, GiveUp(t) PROVE StorageInv'
    BY <1>1, <2>5, GiveUpStep, Zenon
  <2>6. ASSUME NEW s \in Snaps, ReleaseSnapshot(s) PROVE StorageInv'
    BY <1>1, <2>6, ReleaseSnapshotStep, Zenon
  <2> QED
    BY <1>1, <2>1, <2>2, <2>3, <2>4, <2>5, <2>6, Zenon DEF Calls
<1>2. ASSUME NEW v \in Volumes, ReleaseVolume(v), oldBound' = oldBound \ {v},
             UNCHANGED <<pass, swept>>
      PROVE  StorageInv'
  BY <1>2, ReleaseStep, Zenon
<1>3. CASE Crash /\ EndPass /\ UNCHANGED swept
  BY <1>3, CrashStep, Zenon
<1>4. CASE Reconcile
  BY <1>4, ListsStep, OrphanedVolumeStep, OrphanedFileStep, Zenon DEF Reconcile
<1>5. CASE UNCHANGED vars
  <2> USE <1>5 DEF vars, controllerVars, rdsVars, kubeVars, passVars
  <2>1. PassTypeOK' /\ (pass \in PassRecord)'
    BY Zenon DEF StorageInv, PassTypeOK, TypeOK
  <2>2. DiskWhole' /\ OneLiveCall'
    BY Zenon DEF StorageInv, DiskWhole, OneLiveCall
  <2>3. \A t \in Threads : CallSound(t)'
    BY Zenon DEF StorageInv, CallSound, WellFormed, Entitled, SizesKnown
  <2>4. (\A v \in Volumes : VolumeSound(v)') /\ PassSound'
    BY Zenon DEF StorageInv, VolumeSound, PassSound
  <2> QED
    BY <2>1, <2>2, <2>3, <2>4, Zenon DEF StorageInv
<1> QED
  BY <1>1, <1>2, <1>3, <1>4, <1>5, Zenon DEF Next


(* The commands that change a disk entry.                                  *)
LEMMA DiskChanges ==
  ASSUME Next
  PROVE  \/ disk' = disk
         \/ \E p \in Procs : disk' = [disk EXCEPT ![call[p].id] = None]
         \/ \E t \in Threads : \E n : /\ call[t].stage = "add" /\ disk[call[t].id] = None
                                      /\ disk' = [disk EXCEPT ![call[t].id] = n]
         \/ \E t \in Threads :
              /\ call[t].stage = "set" /\ disk[call[t].id] # None
              /\ disk' = [disk EXCEPT ![call[t].id] = FormatBytes(call[t].size)]
<1> DEFINE Goal == \/ disk' = disk
                   \/ \E p \in Procs : disk' = [disk EXCEPT ![call[p].id] = None]
                   \/ \E t \in Threads : \E n : /\ call[t].stage = "add" /\ disk[call[t].id] = None
                                                /\ disk' = [disk EXCEPT ![call[t].id] = n]
                   \/ \E t \in Threads :
                        /\ call[t].stage = "set" /\ disk[call[t].id] # None
                        /\ disk' = [disk EXCEPT ![call[t].id] = FormatBytes(call[t].size)]
<1>1. ASSUME NEW t \in Threads, Step(t) PROVE Goal
  <2>1. CASE Add(t)
    BY <2>1, Zenon DEF Add, rdsVars
  <2>2. CASE Set(t)
    BY <2>2, Zenon DEF Set, rdsVars
  <2>3. CASE RemoveDisk(t)
    BY <2>3, Zenon DEF RemoveDisk, rdsVars, Procs
  <2>4. CASE RestoreGet(t) \/ RestoreGet2(t) \/ Verify(t) \/ ResizeGet(t) \/ SourceGet(t)
    BY <2>4, Zenon DEF RestoreGet, RestoreGet2, Verify, ResizeGet, SourceGet, Query, rdsVars
  <2>5. CASE RemoveFile(t) \/ RemoveGet(t, call[t])
    BY <2>5, Zenon DEF RemoveFile, RemoveGet, Query, rdsVars
  <2> QED
    BY <1>1, <2>1, <2>2, <2>3, <2>4, <2>5, Zenon DEF Step
<1>2. ASSUME NEW t \in Threads, NEW v \in Volumes, CreateVolume(t, v) \/ DeleteVolume(t, v)
      PROVE  disk' = disk
  BY <1>2, Zenon DEF CreateVolume, DeleteVolume, Query, rdsVars
<1>3. ASSUME NEW t \in Threads, NEW v \in Volumes, NEW n, ControllerExpandVolume(t, v, n)
      PROVE  disk' = disk
  BY <1>3, Zenon DEF ControllerExpandVolume, Query, rdsVars
<1>4. ASSUME NEW t \in Threads, NEW s \in Snaps, CreateSnapshot(t, s) \/ DeleteSnapshot(t, s)
      PROVE  disk' = disk
  BY <1>4, Zenon DEF CreateSnapshot, DeleteSnapshot, RemoveGet, Query, rdsVars
<1>5. ASSUME Calls PROVE Goal
  <2>1. ASSUME NEW t \in Threads, GiveUp(t) PROVE disk' = disk
    BY <2>1 DEF GiveUp, rdsVars
  <2>2. ASSUME NEW s \in Snaps, ReleaseSnapshot(s) PROVE disk' = disk
    BY <2>2 DEF ReleaseSnapshot, rdsVars
  <2> HIDE DEF Goal
  <2>3. disk' = disk => Goal
    BY DEF Goal
  <2> QED
    BY <1>1, <1>2, <1>3, <1>4, <1>5, <2>1, <2>2, <2>3, Zenon DEF Calls
<1>6. CASE (\E v \in Volumes : ReleaseVolume(v)) \/ Crash
  BY <1>6 DEF ReleaseVolume, Crash, rdsVars
<1>7. CASE Reconcile
  <2>1. CASE ListVolumes \/ ListPVs \/ ListFiles \/ DeleteOrphanedFile
    BY <2>1 DEF ListVolumes, ListPVs, ListFiles, DeleteOrphanedFile, rdsVars
  <2>2. CASE DeleteOrphanedVolume
    <3>1. ASSUME NEW c, RemoveGet(Orphan, c) PROVE disk' = disk
      BY <3>1, Zenon DEF RemoveGet, Query, rdsVars
    <3>2. ASSUME RemoveDisk(Orphan) \/ RemoveFile(Orphan)
          PROVE  disk' = disk \/ disk' = [disk EXCEPT ![call[Orphan].id] = None]
      BY <3>2, Zenon DEF RemoveDisk, RemoveFile, rdsVars
    <3>3. disk' = disk \/ disk' = [disk EXCEPT ![call[Orphan].id] = None]
      BY <2>2, <3>1, <3>2, Zenon DEF DeleteOrphanedVolume
    <3> QED
      BY <3>3, Zenon DEF Procs
  <2> QED
    BY <1>7, <2>1, <2>2, Zenon DEF Reconcile
<1> QED
  BY <1>5, <1>6, <1>7, Zenon DEF Next

LEMMA UndoNeedsLateCall ==
  ASSUME StorageInv, StorageInv', Next, NEW x \in Slots, x \notin late
  PROVE  /\ disk[x] # None /\ disk'[x] # None => ~(disk'[x] < disk[x])
         /\ Deleted(x) /\ disk[x] = None => disk'[x] = None
<1>0. TypeOK /\ DiskWhole /\ disk' \in [Slots -> Nat \cup {None}]
  BY DEF StorageInv, PassTypeOK, TypeOK
<1>1. CASE disk' = disk
  BY <1>0, <1>1 DEF TypeOK
<1>2. ASSUME NEW p \in Procs, disk' = [disk EXCEPT ![call[p].id] = None]
      PROVE  disk'[x] \in {disk[x], None}
  BY <1>0, <1>2 DEF TypeOK
<1>3. ASSUME NEW t \in Threads, NEW n, call[t].stage = "add", disk[call[t].id] = None,
             disk' = [disk EXCEPT ![call[t].id] = n]
      PROVE  disk'[x] = disk[x] \/ (disk[x] = None /\ ~Deleted(x))
  <2>1. CASE x # call[t].id
    BY <1>0, <1>3, <2>1, Zenon DEF TypeOK
  <2>2. CASE x = call[t].id
    <3>1. CallSound(t) /\ call[t] \in CallRecord
      BY <1>0, Zenon DEF StorageInv, TypeOK, Procs
    <3>2. call[t].op \in {"create", "snapshot"} /\ call[t].live
      <4>1. call[t].op # "none" /\ WellFormed(call[t])
        BY <1>0, <1>3, BusyCall, Zenon
      <4> QED
        BY <1>3, <2>2, <3>1, <4>1 DEF CallSound, WellFormed, CallRecord
    <3> QED
      BY <1>3, <2>2, <3>1, <3>2, RdsAssumption DEF CallSound, WellFormed, Entitled, Deleted
  <2> QED
    BY <2>1, <2>2
<1>4. ASSUME NEW t \in Threads, call[t].stage = "set", disk[call[t].id] # None,
             disk' = [disk EXCEPT ![call[t].id] = FormatBytes(call[t].size)]
      PROVE  disk'[x] = disk[x] \/ (disk[x] # None /\ ~(disk'[x] < disk[x]))
  <2>1. CASE x # call[t].id
    BY <1>0, <1>4, <2>1 DEF TypeOK
  <2>2. CASE x = call[t].id
    <3>1. CallSound(t) /\ call[t].size \in Nat
      BY <1>0 DEF StorageInv, TypeOK, Procs, CallRecord
    <3>2. PICK m, n \in Nat : m = disk[x] /\ n = call[t].size
      BY <1>0, <1>4, <2>2, <3>1, Zenon DEF TypeOK
    <3>3. m <= n
      BY <1>4, <2>2, <3>1, <3>2 DEF CallSound, SizesKnown
    <3>4. FormatBytes(m) = m
      BY <1>0, <1>4, <2>2, <3>2 DEF DiskWhole, Whole
    <3>5. m <= FormatBytes(n) /\ FormatBytes(n) \in Nat
      BY <3>3, <3>4, FormatMonotone, FormatCuts, Zenon
    <3>6. disk'[x] = FormatBytes(n)
      BY <1>0, <1>4, <2>2, <3>2 DEF TypeOK
    <3> QED
      BY <1>4, <2>2, <3>2, <3>5, <3>6
  <2> QED
    BY <2>1, <2>2
<1>5. \/ disk'[x] \in {disk[x], None}
      \/ disk[x] = None /\ ~Deleted(x)
      \/ disk[x] # None /\ ~(disk'[x] < disk[x])
  BY <1>1, <1>2, <1>3, <1>4, DiskChanges, Zenon
<1> QED
  BY <1>0, <1>5 DEF TypeOK


-----------------------------------------------------------------------------
(* The invariant of the handlers and the reconciler, whatever is lost and  *)
(* repeated, given up or crashes.                                          *)
THEOREM StorageInvariant == Spec => []StorageInv
<1>1. StorageInv /\ [Next]_vars => StorageInv'
  BY NextStorage
<1> QED
  BY InitStorage, <1>1, PTL DEF Spec

(* The state of the handlers (controller.go, commands.go) and of the       *)
(* reconciler's cycle stays in its types; no call has more attempts than   *)
(* runCommandWithRetry allows.                                             *)
THEOREM StorageTypes == Spec => []PassTypeOK
<1>1. StorageInv => PassTypeOK
  BY DEF StorageInv
<1> QED
  BY StorageInvariant, <1>1, PTL

(* A bound volume has its disk entry and its backing file: no handler of   *)
(* the controller takes them, only the orphan reconciler does, from a      *)
(* volume that was not bound throughout its cycle.                         *)
THEOREM BoundVolumesIntact == Spec => []BoundIntact
<1>1. StorageInv => BoundIntact
  BY DEF StorageInv, VolumeSound, BoundIntact
<1> QED
  BY StorageInvariant, <1>1, PTL

(* The disk of a bound volume has the capacity its PV records, in the      *)
(* units of formatBytes, for any unit sizes and any requests.              *)
THEOREM CapacityIsHonoured == Spec => []CapacityHonoured
<1>1. StorageInv => CapacityHonoured
  BY DEF StorageInv, VolumeSound, CapacityHonoured
<1> QED
  BY StorageInvariant, <1>1, PTL

(* No disk shrinks and nothing deleted comes back, unless a caller gave up *)
(* a call for that slot: ResizeVolume compares with the size it reads, and *)
(* formatBytes does not turn a larger request into a smaller disk.         *)
THEOREM UndoneOnlyByLateCalls == Spec => OnlyLateCallsUndo
<1>1. StorageInv /\ StorageInv' /\ [Next]_vars =>
        [\A x \in Slots :
           \/ disk[x] # None /\ disk'[x] # None /\ disk'[x] < disk[x]
           \/ Deleted(x) /\ disk[x] = None /\ disk'[x] # None
           => x \in late]_vars
  <2> SUFFICES ASSUME StorageInv, StorageInv', Next, NEW x \in Slots, x \notin late
               PROVE  ~ \/ disk[x] # None /\ disk'[x] # None /\ disk'[x] < disk[x]
                        \/ Deleted(x) /\ disk[x] = None /\ disk'[x] # None
    OBVIOUS
  <2> QED
    BY UndoNeedsLateCall, Zenon
<1> QED
  BY StorageInvariant, <1>1, PTL DEF OnlyLateCallsUndo, Spec
=============================================================================
