------------------------ MODULE OrphanReconcilerSteps ------------------------
(***************************************************************************)
(* The inductive invariant of the volume handlers and the orphan           *)
(* reconciler, and the steps that preserve it: what formatBytes keeps,     *)
(* what a step of one handler leaves alone, and the commands of            *)
(* CreateVolume, DeleteVolume and DeleteSnapshot.                          *)
(***************************************************************************)
EXTENDS OrphanReconciler, WellFoundedInduction, TLAPS

-----------------------------------------------------------------------------
(* The inductive invariant.  Every disk has a size that formatBytes keeps. *)
DiskWhole == \A x \in Slots : disk[x] # None => Whole(disk[x])

(* The commands a call of each kind sends.                                 *)
WellFormed(c) ==
  /\ c.op = "none" => c = Idle
  /\ c.op = "create" =>
       /\ c.id \in Volumes /\ c.stage \in {"restore_get", "restore_get2", "add", "verify"}
       /\ c.stage \in {"restore_get", "restore_get2"} => source[c.id] # None
  /\ c.op = "delete" => c.id \in Volumes /\ c.stage \in {"rm_get", "rm_disk", "rm_file"}
  /\ c.op = "expand" => c.id \in Volumes /\ c.stage \in {"resize_get", "set", "verify"}
  /\ c.op = "snapshot" =>
       c.id \in Snaps /\ c.stage \in {"source_get", "source_get2", "add", "verify"}
  /\ c.op = "delsnap" => c.id \in Snaps /\ c.stage \in {"rm_disk", "rm_file"}

(* The phase of the object a call is about.  A volume once released is     *)
(* never bound again, so that a late delete does no harm; what creates is  *)
(* another matter.                                                         *)
Entitled(c) ==
  /\ c.op = "delete" => pv[c.id] \in {"released", "gone"}
  /\ c.op = "create" /\ c.live => pv[c.id] = "wanted"
  /\ c.op = "snapshot" /\ c.live => vsc[c.id] = "wanted"

(* Sizes, as long as no call for the slot was given up.                    *)
SizesKnown(c) ==
  c.id \notin late =>
    /\ c.op = "expand" => c.size >= cap[c.id]
    /\ c.stage = "set" /\ disk[c.id] # None => c.size >= disk[c.id]
    /\ c.stage = "verify" /\ c.id \notin swept \cup Snaps =>
         disk[c.id] # None /\ disk[c.id] >= FormatBytes(c.size)

CallSound(t) ==
  /\ call[t].op # "orphan" /\ WellFormed(call[t]) /\ Entitled(call[t]) /\ SizesKnown(call[t])
  /\ call[t].op # "none" /\ ~call[t].live => call[t].id \in late

(* The sidecars wait for one call per slot.                                *)
OneLiveCall ==
  \A t, u \in Threads : call[t].live /\ call[u].live /\ call[t].id = call[u].id => t = u

VolumeSound(v) ==
  v \notin swept =>
    /\ pv[v] \in {"wanted", "bound"} /\ disk[v] # None => v \in file
    /\ pv[v] = "bound" => disk[v] # None
    /\ pv[v] = "bound" /\ v \notin late => disk[v] >= FormatBytes(cap[v])

(* What a cycle deletes has no PV in its list, and that list has every     *)
(* volume that was bound all the time.                                     *)
PassSound ==
  /\ \A v \in oldBound : pv[v] = "bound"
  /\ pass.stage \in {"disks", "files"} => oldBound \subseteq pass.active
  /\ pass.todo \cap pass.active = {}
  /\ pass.stage = "disks" => pass.todo \subseteq Volumes
  /\ pass.stage \in {"idle", "pvs"} => pass.todo = {} /\ pass.active = {}
  /\ \/ call[Orphan] = Idle
     \/ /\ pass.stage = "disks" /\ call[Orphan].op = "orphan" /\ ~call[Orphan].live
        /\ call[Orphan].stage \in {"rm_disk", "rm_file"}
        /\ call[Orphan].id \in Volumes \ pass.active

PassRecord == [stage : {"idle", "pvs", "disks", "files"}, disks : SUBSET Volumes,
               active : SUBSET Volumes, todo : SUBSET Slots]

StorageInv ==
  /\ PassTypeOK /\ pass \in PassRecord
  /\ DiskWhole
  /\ \A t \in Threads : CallSound(t)
  /\ OneLiveCall
  /\ \A v \in Volumes : VolumeSound(v)
  /\ PassSound

-----------------------------------------------------------------------------
(* formatBytes.  A bounded set of sizes that is not empty has a largest.   *)
LEMMA LargestExists ==
  ASSUME NEW S \in SUBSET Nat, S # {}, NEW b \in Nat, \A x \in S : x <= b
  PROVE  Max(S) \in S /\ \A x \in S : x <= Max(S)
<1> DEFINE T == {b - x : x \in S}
<1>1. T \subseteq Nat /\ T # {}
  <2>1. \A x \in S : b - x \in Nat
    OBVIOUS
  <2> QED
    BY <2>1, Zenon
<1>2. \E m \in T : \A y \in T : ~(<<y, m>> \in OpToRel(<, Nat))
  BY <1>1, WFMin, NatLessThanWellFounded, Zenon
<1>3. PICK m \in T : \A y \in T : ~(y < m)
  BY <1>1, <1>2, Zenon DEF OpToRel
<1>4. PICK x \in S : m = b - x
  BY Zenon
<1>5. \A y \in S : y <= x
  <2> SUFFICES ASSUME NEW y \in S PROVE y <= x
    OBVIOUS
  <2>1. b - y \in T /\ ~(b - y < m)
    BY <1>3
  <2> QED
    BY <1>4, <2>1
<1> QED
  BY <1>5, Zenon DEF Max

(* The unit formatBytes takes for a size, and for those it cuts from it.   *)
LEMMA UnitFits ==
  ASSUME NEW n \in Nat, {u \in Units : u <= n} # {}
  PROVE  \E u \in Nat \ {0} :
           /\ u <= n /\ \A w \in Units : w <= n => w <= u
           /\ \A k \in Nat : u <= k /\ k <= n => FormatBytes(k) = (k \div u) * u
<1> DEFINE fitting == {w \in Units : w <= n}
           u == Max(fitting)
<1>1. fitting \in SUBSET Nat /\ \A x \in fitting : x <= n
  BY RdsAssumption, Zenon
<1>2. u \in fitting /\ \A x \in fitting : x <= u
  BY <1>1, LargestExists, Zenon
<1>3. u \in Nat \ {0} /\ u <= n /\ \A w \in Units : w <= n => w <= u
  BY <1>2, RdsAssumption, Zenon
<1>4. ASSUME NEW k \in Nat, u <= k, k <= n
      PROVE  FormatBytes(k) = (k \div u) * u
  <2> HIDE DEF u
  <2>1. ASSUME NEW w \in Units PROVE w <= k <=> w <= n
    BY <1>3, <1>4, <2>1, RdsAssumption
  <2>2. {w \in Units : w <= k} = fitting
    BY <2>1, Zenon
  <2> QED
    BY <2>2, Zenon DEF FormatBytes, u
<1> QED
  BY <1>3, <1>4, Zenon

LEMMA Quotient ==
  ASSUME NEW n \in Nat, NEW u \in Nat \ {0}
  PROVE  /\ n \div u \in Nat /\ (n \div u) * u \in Nat
         /\ (n \div u) * u <= n /\ n < (n \div u) * u + u
OBVIOUS

(* It cuts a size down to whole units, ...                                 *)
LEMMA FormatCuts ==
  ASSUME NEW n \in Nat
  PROVE  FormatBytes(n) \in Nat /\ FormatBytes(n) <= n /\ Whole(FormatBytes(n))
<1>1. CASE {u \in Units : u <= n} = {}
  BY <1>1 DEF FormatBytes, Whole
<1>2. CASE {u \in Units : u <= n} # {}
  <2>1. PICK u \in Nat \ {0} :
          /\ u <= n
          /\ \A k \in Nat : u <= k /\ k <= n => FormatBytes(k) = (k \div u) * u
    BY <1>2, UnitFits, Zenon
  <2> DEFINE q == n \div u
             m == q * u
  <2>2. q \in Nat /\ m \in Nat /\ m <= n /\ n < m + u
    BY Quotient, Zenon
  <2>3. q >= 1
    BY <2>1, <2>2
  <2>4. u <= m
    BY <2>2, <2>3
  <2>5. m \div u = q
    BY <2>2
  <2>6. FormatBytes(n) = m /\ FormatBytes(m) = m
    BY <2>1, <2>2, <2>4, <2>5
  <2> QED
    BY <2>2, <2>6 DEF Whole
<1> QED
  BY <1>1, <1>2

(* ... and keeps the order of sizes.                                       *)
LEMMA FormatMonotone ==
  ASSUME NEW m \in Nat, NEW n \in Nat, m <= n
  PROVE  FormatBytes(m) <= FormatBytes(n)
<1> DEFINE w == FormatBytes(m)
<1>0. w \in Nat /\ w <= n /\ w = FormatBytes(w)
  BY FormatCuts DEF Whole
<1>1. CASE {u \in Units : u <= n} = {}
  BY <1>0, <1>1 DEF FormatBytes
<1>2. CASE {u \in Units : u <= n} # {}
  <2>1. PICK u \in Nat \ {0} :
          /\ u <= n
          /\ \A k \in Nat : u <= k /\ k <= n => FormatBytes(k) = (k \div u) * u
    BY <1>2, UnitFits, Zenon
  <2> DEFINE q == n \div u
  <2>2. q \in Nat /\ q * u \in Nat /\ q * u <= n /\ n < q * u + u
    BY Quotient, Zenon
  <2>3. FormatBytes(n) = q * u
    BY <2>1
  <2>4. u <= q * u
    BY <2>1, <2>2
  <2>5. CASE w < u
    BY <1>0, <2>2, <2>3, <2>4, <2>5
  <2>6. CASE u <= w
    <3>1. w = (w \div u) * u
      BY <1>0, <2>1, <2>6, Zenon
    <3>2. PICK k \in Nat : w = k * u
      BY <1>0, <3>1, Quotient, Zenon
    <3>3. k <= q
      BY <1>0, <2>2, <3>2
    <3>4. k * u <= q * u
      BY <2>2, <3>3
    <3> QED
      BY <2>3, <3>2, <3>4, Zenon
  <2> QED
    BY <1>0, <2>1, <2>5, <2>6
<1> QED
  BY <1>1, <1>2

-----------------------------------------------------------------------------
(* The call c that handler t works on: its own, or the one it takes.       *)
Acting(t, c) ==
  /\ c \in CallRecord /\ c.id \in Slots
  /\ \/ c.op \in {"create", "delete", "expand"} /\ c.id \in Volumes
     \/ c.op \in {"snapshot", "delsnap"} /\ c.id \in Snaps
  /\ Entitled(c)
  /\ ~c.live => c.id \in late
  /\ c.live => \A u \in Threads \ {t} : call[u].live => call[u].id # c.id

LEMMA BusyCall ==
  ASSUME StorageInv, NEW t \in Threads, call[t].stage # "idle"
  PROVE  call[t].op # "none" /\ CallSound(t) /\ WellFormed(call[t])
<1>1. CallSound(t) /\ WellFormed(call[t])
  BY Zenon DEF StorageInv, CallSound
<1>2. call[t].op = "none" => call[t] = Idle
  BY <1>1, Zenon DEF WellFormed
<1>3. Idle.stage = "idle"
  BY DEF Idle
<1> QED
  BY <1>1, <1>2, <1>3, Zenon

LEMMA OwnCall ==
  ASSUME StorageInv, NEW t \in Threads, call[t].op # "none"
  PROVE  Acting(t, call[t]) /\ WellFormed(call[t]) /\ SizesKnown(call[t])
<1>1. call[t] \in CallRecord /\ CallSound(t)
  BY DEF StorageInv, PassTypeOK, TypeOK, Procs
<1>2. \/ call[t].op \in {"create", "delete", "expand"} /\ call[t].id \in Volumes
      \/ call[t].op \in {"snapshot", "delsnap"} /\ call[t].id \in Snaps
  BY <1>1 DEF CallSound, WellFormed, CallRecord
<1>3. call[t].live => \A u \in Threads \ {t} : call[u].live => call[u].id # call[t].id
  BY Zenon DEF StorageInv, OneLiveCall
<1> QED
  BY <1>1, <1>2, <1>3 DEF Acting, CallSound, Slots

LEMMA NewCall ==
  ASSUME StorageInv, NEW t \in Threads, NEW id \in Slots, MayCall(t, id), NEW size \in Nat,
         NEW op \in {"create", "delete", "expand", "snapshot", "delsnap"},
         op \in {"create", "delete", "expand"} => id \in Volumes,
         op \in {"snapshot", "delsnap"} => id \in Snaps,
         op = "delete" => pv[id] = "released",
         op = "create" => pv[id] = "wanted",
         op = "snapshot" => vsc[id] = "wanted"
  PROVE  Acting(t, Call(op, id, size))
<1>1. Call(op, id, size) \in CallRecord
  BY RdsAssumption DEF Call, CallRecord
<1> QED
  BY <1>1 DEF Acting, Call, Entitled, MayCall

(* How a step of a handler leaves its call, and what it changes in         *)
(* Kubernetes: only the object of the call, and only if somebody waits.    *)
Outcome(t, c, d) ==
  /\ call' = [call EXCEPT ![t] = d] /\ d \in CallRecord
  /\ d = Idle \/ (d.op = c.op /\ d.id = c.id /\ d.live = c.live)
  /\ UNCHANGED source
  /\ pv' \in [Volumes -> {"wanted", "bound", "released", "gone", "abandoned"}]
  /\ cap' \in [Volumes -> Nat] /\ vsc' \in [Snaps -> {"wanted", "ready", "released", "gone"}]
  /\ \A v \in Volumes : (v = c.id /\ c.live) \/ (pv'[v] = pv[v] /\ cap'[v] = cap[v])
  /\ \A s \in Snaps : (s = c.id /\ c.live) \/ vsc'[s] = vsc[s]
  /\ c.id \in Volumes => \/ pv'[c.id] = pv[c.id]
                         \/ c.op = "create" /\ pv'[c.id] = "bound"
                         \/ c.op = "delete" /\ pv'[c.id] = "gone"

(* What it changes on the RDS: only its own slot, with whole sizes.        *)
OwnSlot(c) ==
  /\ disk' \in [Slots -> Nat \cup {None}] /\ file' \subseteq Slots
  /\ \A x \in Slots \ {c.id} : disk'[x] = disk[x] /\ (x \in file' <=> x \in file)
  /\ disk'[c.id] # None => Whole(disk'[c.id])

Steady == UNCHANGED <<late, passVars>> /\ losses' \in 0 .. MaxLosses

(* A step of a handler disturbs no other call and no other volume.         *)
LEMMA HandlerStep ==
  ASSUME StorageInv, NEW t \in Threads, NEW c, NEW d,
         Acting(t, c), Outcome(t, c, d), OwnSlot(c), Steady,
         CallSound(t)', c.id \in Volumes => VolumeSound(c.id)'
  PROVE  StorageInv'
<1>1. PassTypeOK' /\ pass' \in PassRecord
  BY DEF StorageInv, PassTypeOK, TypeOK, Outcome, OwnSlot, Steady, passVars, Procs
<1>2. DiskWhole'
  <2> SUFFICES ASSUME NEW x \in Slots, disk'[x] # None PROVE Whole(disk'[x])
    BY DEF DiskWhole
  <2> QED
    BY DEF StorageInv, DiskWhole, OwnSlot
<1>3. ASSUME NEW u \in Threads \ {t} PROVE CallSound(u)'
  <2>1. call'[u] = call[u] /\ CallSound(u) /\ call[u] \in CallRecord
    BY DEF StorageInv, PassTypeOK, TypeOK, Outcome, Procs
  <2>2. CASE call[u].id # c.id
    <3>1. call[u] = Idle \/ (call[u].op # "none" /\ call[u].id \in Slots \ {c.id})
      BY <2>1, <2>2, Zenon DEF CallSound, WellFormed, CallRecord, Slots
    <3>2. CASE call[u] = Idle
      BY <2>1, <3>2 DEF CallSound, WellFormed, Entitled, SizesKnown, Idle
    <3>3. CASE call[u].op # "none" /\ call[u].id \in Slots \ {c.id}
      <4>1. WellFormed(call[u])' /\ Entitled(call[u])'
        BY <2>1, <3>3 DEF CallSound, WellFormed, Entitled, Outcome
      <4>2. /\ disk'[call[u].id] = disk[call[u].id]
            /\ call[u].id \in Volumes => cap'[call[u].id] = cap[call[u].id]
        BY <3>3 DEF OwnSlot, Outcome
      <4>3. SizesKnown(call[u])'
        BY <2>1, <3>3, <4>2 DEF CallSound, WellFormed, SizesKnown, Steady, passVars
      <4> QED
        BY <2>1, <4>1, <4>3, Zenon DEF CallSound, Steady
    <3> QED
      BY <3>1, <3>2, <3>3
  <2>3. CASE call[u].id = c.id
    <3>1. call[u].op # "none" /\ call[u].id \in Slots
      BY <2>1, <2>3, RdsAssumption DEF Acting, CallSound, WellFormed, Idle
    <3>2. call[u].id \in late /\ (c.live => ~call[u].live)
      BY <2>1, <2>3, <3>1, Zenon DEF Acting, CallSound, CallRecord
    <3>3. SizesKnown(call[u])'
      BY <2>1, <3>2, Zenon DEF SizesKnown, Steady
    <3>4. WellFormed(call[u])'
      BY <2>1 DEF CallSound, WellFormed, Outcome
    <3>5. Entitled(call[u])'
      BY <2>1, <2>3, <3>1, <3>2 DEF CallSound, WellFormed, Entitled, Outcome, Acting, CallRecord
    <3> QED
      BY <2>1, <3>2, <3>3, <3>4, <3>5, Zenon DEF CallSound, Steady
  <2> QED
    BY <2>2, <2>3
<1>4. OneLiveCall'
  BY DEF StorageInv, PassTypeOK, TypeOK, Procs, OneLiveCall, Outcome, Acting, Idle
<1>5. ASSUME NEW v \in Volumes \ {c.id} PROVE VolumeSound(v)'
  BY DEF StorageInv, VolumeSound, Outcome, OwnSlot, Steady, passVars, Slots
<1>6. PassSound'
  <2>1. \A v \in oldBound : pv'[v] = "bound"
    BY DEF StorageInv, PassTypeOK, PassSound, Outcome, Acting, Entitled
  <2>2. call'[Orphan] = call[Orphan]
    BY RdsAssumption DEF StorageInv, PassTypeOK, TypeOK, Procs, Outcome
  <2> QED
    BY <2>1, <2>2 DEF StorageInv, PassSound, Steady, passVars
<1> QED
  BY <1>1, <1>2, <1>3, <1>4, <1>5, <1>6 DEF StorageInv

(* A handler that returns.                                                 *)
LEMMA AnswerOutcome ==
  ASSUME TypeOK, NEW t \in Threads, NEW c, Acting(t, c), NEW ok \in BOOLEAN, NEW size,
         Answer(t, c, ok, size),
         ok /\ c.live /\ c.op \in {"create", "expand"} => size \in Nat
  PROVE  /\ Outcome(t, c, Idle)
         /\ c.id \in Volumes =>
              /\ ~(ok /\ c.live) \/ c.op = "expand" => pv'[c.id] = pv[c.id]
              /\ cap'[c.id] = IF ok /\ c.live /\ c.op \in {"create", "expand"}
                              THEN size ELSE cap[c.id]
<1>1. Idle \in CallRecord
  BY RdsAssumption DEF Idle, CallRecord
<1>2. /\ cap' \in [Volumes -> Nat]
      /\ \A v \in Volumes : cap'[v] = IF ok /\ c.live /\ v = c.id /\ c.op \in {"create", "expand"}
                                      THEN size ELSE cap[v]
  BY DEF Answer, TypeOK
<1>3. /\ pv' \in [Volumes -> {"wanted", "bound", "released", "gone", "abandoned"}]
      /\ \A v \in Volumes :
           \/ pv'[v] = pv[v]
           \/ ok /\ c.live /\ v = c.id /\ c.op = "create" /\ pv'[v] = "bound"
           \/ ok /\ c.live /\ v = c.id /\ c.op = "delete" /\ pv'[v] = "gone"
  BY DEF Answer, TypeOK
<1>4. /\ vsc' \in [Snaps -> {"wanted", "ready", "released", "gone"}]
      /\ \A s \in Snaps : vsc'[s] = vsc[s] \/ (ok /\ c.live /\ s = c.id)
  BY DEF Answer, TypeOK
<1> QED
  BY <1>1, <1>2, <1>3, <1>4 DEF Answer, Outcome

LEMMA IdleSound ==
  ASSUME NEW t \in Threads, call'[t] = Idle
  PROVE  CallSound(t)'
  BY DEF CallSound, WellFormed, Entitled, SizesKnown, Idle

(* It returns without a change to the RDS: what it says of a size is true. *)
LEMMA Ends ==
  ASSUME StorageInv, NEW t \in Threads, NEW c, Acting(t, c), NEW ok \in BOOLEAN, NEW size,
         Answer(t, c, ok, size), UNCHANGED rdsVars, Steady,
         ok /\ c.live /\ c.op \in {"create", "expand"} =>
           /\ size \in Nat
           /\ c.id \notin swept => disk[c.id] # None
           /\ c.id \notin swept \cup late => disk[c.id] >= FormatBytes(size)
  PROVE  StorageInv'
<1>1. /\ Outcome(t, c, Idle)
      /\ c.id \in Volumes =>
           /\ ~(ok /\ c.live) \/ c.op = "expand" => pv'[c.id] = pv[c.id]
           /\ cap'[c.id] = IF ok /\ c.live /\ c.op \in {"create", "expand"}
                           THEN size ELSE cap[c.id]
  BY AnswerOutcome DEF StorageInv, PassTypeOK
<1>2. OwnSlot(c)
  BY DEF StorageInv, PassTypeOK, TypeOK, DiskWhole, OwnSlot, rdsVars, Acting
<1>3. CallSound(t)'
  <2>1. call'[t] = Idle
    BY <1>1 DEF Outcome, StorageInv, PassTypeOK, TypeOK, Procs
  <2> QED
    BY <2>1, IdleSound
<1>4. ASSUME c.id \in Volumes PROVE VolumeSound(c.id)'
  <2>1. VolumeSound(c.id) /\ UNCHANGED <<disk, file, late, swept>>
    BY <1>4 DEF StorageInv, rdsVars, Steady, passVars
  <2>2. CASE ok /\ c.live /\ c.op = "create"
    BY <1>1, <1>4, <2>1, <2>2, Zenon DEF VolumeSound, Acting, Entitled
  <2>3. CASE ok /\ c.live /\ c.op = "expand"
    BY <1>1, <1>4, <2>1, <2>3 DEF VolumeSound
  <2>4. CASE ~(ok /\ c.live /\ c.op \in {"create", "expand"})
    BY <1>1, <1>4, <2>1, <2>4, Zenon DEF VolumeSound, Outcome
  <2> QED
    BY <2>2, <2>3, <2>4, Zenon
<1> QED
  BY <1>1, <1>2, <1>3, <1>4, HandlerStep

(* It goes on, without a change to the RDS.                                *)
LEMMA Continues ==
  ASSUME StorageInv, NEW t \in Threads, NEW c, NEW d \in CallRecord, Acting(t, c),
         d.op = c.op, d.id = c.id, d.live = c.live,
         call' = [call EXCEPT ![t] = d], UNCHANGED kubeVars, UNCHANGED rdsVars, Steady,
         WellFormed(d), SizesKnown(d)
  PROVE  StorageInv'
<1>1. Outcome(t, c, d)
  BY DEF StorageInv, PassTypeOK, TypeOK, Outcome, kubeVars
<1>2. OwnSlot(c)
  BY DEF StorageInv, PassTypeOK, TypeOK, DiskWhole, OwnSlot, rdsVars, Acting
<1>3. CallSound(t)'
  <2>1. call'[t] = d
    BY DEF StorageInv, PassTypeOK, TypeOK, Procs
  <2> QED
    BY <2>1 DEF CallSound, WellFormed, Entitled, SizesKnown, Acting, kubeVars, rdsVars, Steady,
       passVars
<1>4. ASSUME c.id \in Volumes PROVE VolumeSound(c.id)'
  BY <1>4 DEF StorageInv, VolumeSound, kubeVars, rdsVars, Steady, passVars
<1> QED
  BY <1>1, <1>2, <1>3, <1>4, HandlerStep


LEMMA FailEnds ==
  ASSUME StorageInv, NEW t \in Threads, NEW c, Acting(t, c), Fail(t, c), UNCHANGED rdsVars, Steady
  PROVE  StorageInv'
  BY Ends, Zenon DEF Fail

(* Its next command.                                                       *)
LEMMA Moves ==
  ASSUME StorageInv, NEW t \in Threads, NEW c, NEW e \in CallRecord, Acting(t, c),
         e.op = c.op, e.id = c.id, e.live = c.live,
         NEW s \in {"restore_get", "restore_get2", "source_get", "source_get2", "add", "verify",
                    "rm_get", "rm_disk", "rm_file", "resize_get", "set"},
         Goto(t, e, s), UNCHANGED rdsVars, Steady,
         WellFormed([e EXCEPT !.stage = s, !.tries = 0]),
         SizesKnown([e EXCEPT !.stage = s, !.tries = 0])
  PROVE  StorageInv'
<1> DEFINE d == [e EXCEPT !.stage = s, !.tries = 0]
<1>1. d \in CallRecord /\ d.op = e.op /\ d.id = e.id /\ d.live = e.live
  <2>1. 0 \in 0 .. MaxRetries - 1
    BY RdsAssumption
  <2> QED
    BY <2>1, Zenon DEF CallRecord
<1>2. call' = [call EXCEPT ![t] = d] /\ UNCHANGED kubeVars
  BY DEF Goto
<1> HIDE DEF d
<1>3. WellFormed(d) /\ SizesKnown(d)
  BY DEF d
<1> QED
  BY <1>1, <1>2, <1>3, Continues, Zenon

(* The same command again, or the error.                                   *)
LEMMA RetryOutcome ==
  ASSUME TypeOK, NEW t \in Threads, Acting(t, call[t]), Retry(t)
  PROVE  /\ UNCHANGED kubeVars
         /\ \E d : /\ Outcome(t, call[t], d)
                   /\ d = Idle \/ (d \in CallRecord /\ d = [call[t] EXCEPT !.tries = @ + 1])
<1>1. CASE call[t].tries + 1 < MaxRetries /\ call' = [call EXCEPT ![t].tries = @ + 1]
           /\ UNCHANGED kubeVars
  <2> DEFINE d == [call[t] EXCEPT !.tries = @ + 1]
  <2>1. d \in CallRecord /\ d.op = call[t].op /\ d.id = call[t].id /\ d.live = call[t].live
    BY <1>1, RdsAssumption DEF CallRecord, TypeOK, Procs
  <2>2. call' = [call EXCEPT ![t] = d]
    BY <1>1 DEF TypeOK, Procs
  <2>3. Outcome(t, call[t], d)
    BY <1>1, <2>1, <2>2 DEF Outcome, TypeOK, kubeVars
  <2> QED
    BY <1>1, <2>1, <2>3
<1>2. CASE Fail(t, call[t])
  <2>1. Outcome(t, call[t], Idle)
    BY <1>2, AnswerOutcome, Zenon DEF Fail
  <2>2. pv' = pv /\ cap' = cap /\ vsc' = vsc /\ source' = source
    BY <1>2 DEF Fail, Answer, TypeOK
  <2> QED
    BY <2>1, <2>2 DEF kubeVars
<1> QED
  BY <1>1, <1>2 DEF Retry

LEMMA Retries ==
  ASSUME StorageInv, NEW t \in Threads, call[t].op # "none", Retry(t), UNCHANGED rdsVars, Steady
  PROVE  StorageInv'
<1> PICK c : c = call[t]
  OBVIOUS
<1>1. Acting(t, c) /\ WellFormed(c) /\ SizesKnown(c) /\ TypeOK
  BY OwnCall, Zenon DEF StorageInv, PassTypeOK
<1>2. PICK d : /\ Outcome(t, c, d)
               /\ d = Idle \/ (d \in CallRecord /\ d = [c EXCEPT !.tries = @ + 1])
               /\ UNCHANGED kubeVars
  BY <1>1, RetryOutcome, Zenon
<1>3. OwnSlot(c)
  BY <1>1 DEF StorageInv, TypeOK, DiskWhole, OwnSlot, rdsVars, Acting
<1>4. CallSound(t)'
  <2>1. call'[t] = d
    BY <1>1, <1>2 DEF Outcome, TypeOK, Procs
  <2>2. CASE d = Idle
    BY <2>1, <2>2, IdleSound
  <2>3. CASE d = [c EXCEPT !.tries = @ + 1]
    <3>1. /\ d.op = c.op /\ d.id = c.id /\ d.live = c.live
          /\ d.stage = c.stage /\ d.size = c.size
      BY <1>1, <2>3 DEF Acting, CallRecord
    <3>2. CallSound(t)
      BY DEF StorageInv
    <3> QED
      BY <1>2, <2>1, <3>1, <3>2 DEF CallSound, WellFormed, Entitled, SizesKnown, kubeVars, rdsVars,
         Steady, passVars
  <2> QED
    BY <1>2, <2>2, <2>3
<1>5. ASSUME c.id \in Volumes PROVE VolumeSound(c.id)'
  BY <1>2, <1>5 DEF StorageInv, VolumeSound, kubeVars, rdsVars, Steady, passVars
<1> QED
  BY <1>1, <1>2, <1>3, <1>4, <1>5, HandlerStep, Zenon


-----------------------------------------------------------------------------
(* The commands of CreateVolume.                                           *)
LEMMA LossesBounded ==
  ASSUME TypeOK, Arrives \/ Fault
  PROVE  losses' \in 0 .. MaxLosses
  BY RdsAssumption DEF TypeOK, Arrives, Fault

LEMMA LargerOfTwo ==
  ASSUME NEW m \in Nat, NEW n \in Nat
  PROVE  Max({m, n}) \in Nat /\ Max({m, n}) >= m /\ Max({m, n}) >= n
<1>1. {m, n} \in SUBSET Nat /\ {m, n} # {} /\ m + n \in Nat /\ \A x \in {m, n} : x <= m + n
  OBVIOUS
<1>2. Max({m, n}) \in {m, n} /\ \A x \in {m, n} : x <= Max({m, n})
  BY <1>1, LargestExists, Zenon
<1> QED
  BY <1>2

LEMMA CreateVolumeStep ==
  ASSUME StorageInv, NEW t \in Threads, NEW v \in Volumes, CreateVolume(t, v), UNCHANGED passVars
  PROVE  StorageInv'
<1>0. TypeOK /\ v \in Slots
  BY DEF StorageInv, PassTypeOK, Slots
<1>1. RequiredBytes(v) \in Nat
  <2>1. SizeOf[v] \in Nat /\ MinSize \in Nat
    BY RdsAssumption
  <2> QED
    BY <2>1, LargerOfTwo DEF RequiredBytes
<1> PICK c : c = Call("create", v, RequiredBytes(v))
  OBVIOUS
<1> PICK n : n = disk[v]
  OBVIOUS
<1>2. Acting(t, c) /\ c.op = "create" /\ c.id = v
  <2>1. MayCall(t, v) /\ pv[v] = "wanted"
    BY DEF CreateVolume
  <2>2. c.op = "create" /\ c.id = v
    BY DEF Call
  <2>3. Acting(t, Call("create", v, RequiredBytes(v)))
    BY <1>0, <1>1, <2>1, NewCall, Zenon
  <2> QED
    BY <2>2, <2>3
<1>3. Steady /\ UNCHANGED rdsVars
  BY <1>0, LossesBounded, Zenon DEF CreateVolume, Query, Steady
<1>4. \/ n # None /\ Answer(t, c, n = c.size, n)
      \/ Goto(t, c, IF source[v] = None THEN "add" ELSE "restore_get")
  BY DEF CreateVolume, Query
<1>5. CASE n # None /\ Answer(t, c, n = c.size, n)
  <2>1. n \in Nat /\ n >= FormatBytes(n)
    <3>1. n \in Nat
      BY <1>0, <1>5 DEF TypeOK
    <3> QED
      BY <3>1, FormatCuts
  <2> QED
    BY <1>2, <1>3, <1>5, <2>1, Ends, Zenon
<1>6. CASE Goto(t, c, IF source[v] = None THEN "add" ELSE "restore_get")
  <2> PICK s \in {"add", "restore_get"} :
        s = IF source[v] = None THEN "add" ELSE "restore_get"
    OBVIOUS
  <2>1. c \in CallRecord
    BY <1>2 DEF Acting
  <2>2. WellFormed([c EXCEPT !.stage = s, !.tries = 0])
    BY <1>2, <2>1 DEF WellFormed, CallRecord
  <2>3. SizesKnown([c EXCEPT !.stage = s, !.tries = 0])
    BY <1>2, <2>1 DEF SizesKnown, CallRecord
  <2>4. Goto(t, c, s)
    BY <1>6
  <2> QED
    BY <1>2, <1>3, <2>1, <2>2, <2>3, <2>4, Moves, Zenon
<1> QED
  BY <1>4, <1>5, <1>6

(* The stages of a create and of no other call.                            *)
LEMMA RestoreStep ==
  ASSUME StorageInv, NEW t \in Threads, RestoreGet(t) \/ RestoreGet2(t), UNCHANGED passVars
  PROVE  StorageInv'
<1>0. TypeOK
  BY DEF StorageInv, PassTypeOK
<1> PICK c : c = call[t]
  OBVIOUS
<1>1. c.stage \in {"restore_get", "restore_get2"} /\ c.op # "none" /\ CallSound(t)
  BY DEF RestoreGet, RestoreGet2, StorageInv, CallSound, WellFormed, Idle
<1>2. Acting(t, c) /\ WellFormed(c) /\ c \in CallRecord
  BY <1>1, OwnCall, Zenon DEF Acting
<1>3. c.op = "create" /\ c.id \in Volumes /\ source[c.id] \in Slots
  BY <1>0, <1>1, <1>2 DEF WellFormed, CallSound, CallRecord, TypeOK, Slots
<1>4. Steady /\ UNCHANGED rdsVars
  BY <1>0, LossesBounded, Zenon DEF RestoreGet, RestoreGet2, Query, Steady
<1> PICK n : n = Max({c.size, disk[source[c.id]]})
  OBVIOUS
<1> DEFINE e == [c EXCEPT !.size = n]
<1>5. \/ disk[source[c.id]] # None /\ Goto(t, e, "restore_get2")
      \/ Goto(t, c, "add")
      \/ Fail(t, c)
  BY <1>2 DEF RestoreGet, RestoreGet2, Query, CallRecord
<1>6. CASE disk[source[c.id]] # None /\ Goto(t, e, "restore_get2")
  <2>1. n \in Nat
    <3>1. c.size \in Nat /\ disk[source[c.id]] \in Nat
      BY <1>0, <1>2, <1>3, <1>6 DEF TypeOK, CallRecord
    <3> QED
      BY <3>1, LargerOfTwo, Zenon
  <2>2. e \in CallRecord /\ e.op = c.op /\ e.id = c.id /\ e.live = c.live
    BY <1>2, <2>1 DEF CallRecord
  <2> HIDE DEF e
  <2>3. WellFormed([e EXCEPT !.stage = "restore_get2", !.tries = 0])
    BY <1>1, <1>2, <1>3, <2>2, RdsAssumption DEF WellFormed, CallRecord, Slots
  <2>4. SizesKnown([e EXCEPT !.stage = "restore_get2", !.tries = 0])
    BY <1>3, <2>2 DEF SizesKnown, CallRecord
  <2> QED
    BY <1>2, <1>4, <1>6, <2>2, <2>3, <2>4, Moves, Zenon
<1>7. CASE Goto(t, c, "add")
  <2>1. WellFormed([c EXCEPT !.stage = "add", !.tries = 0])
    BY <1>2, <1>3 DEF WellFormed, CallRecord
  <2>2. SizesKnown([c EXCEPT !.stage = "add", !.tries = 0])
    BY <1>2, <1>3 DEF SizesKnown, CallRecord
  <2> QED
    BY <1>2, <1>4, <1>7, <2>1, <2>2, Moves, Zenon
<1>8. CASE Fail(t, c)
  BY <1>2, <1>4, <1>8, FailEnds, Zenon
<1> QED
  BY <1>5, <1>6, <1>7, <1>8


(* A step that executes a command: it leaves the call to be sent again, to *)
(* go on, or to fail.                                                      *)
LEMMA Executes ==
  ASSUME StorageInv, NEW t \in Threads, NEW c, c = call[t], c.op # "none", NEW s,
         s \in {"verify", "rm_file"}, Goto(t, c, s) \/ Retry(t)
  PROVE  /\ Acting(t, c) /\ WellFormed(c) /\ SizesKnown(c) /\ c \in CallRecord /\ TypeOK
         /\ UNCHANGED kubeVars
         /\ \E d : /\ Outcome(t, c, d) /\ call'[t] = d
                   /\ \/ d = Idle
                      \/ /\ d.op = c.op /\ d.id = c.id /\ d.size = c.size /\ d.live = c.live
                         /\ d.stage \in {c.stage, s}
<1>1. Acting(t, c) /\ WellFormed(c) /\ SizesKnown(c) /\ c \in CallRecord /\ TypeOK
  BY OwnCall DEF StorageInv, PassTypeOK, Acting
<1>2. CASE Goto(t, c, s)
  <2> DEFINE d == [c EXCEPT !.stage = s, !.tries = 0]
  <2>1. /\ d.op = c.op /\ d.id = c.id /\ d.size = c.size /\ d.live = c.live
        /\ d.stage = s /\ d \in CallRecord
    <3>1. 0 \in 0 .. MaxRetries - 1
      BY RdsAssumption
    <3> QED
      BY <1>1, <3>1, Zenon DEF CallRecord
  <2>2. call' = [call EXCEPT ![t] = d] /\ UNCHANGED kubeVars
    BY <1>2 DEF Goto
  <2> HIDE DEF d
  <2>3. Outcome(t, c, d) /\ call'[t] = d
    BY <1>1, <2>1, <2>2 DEF Outcome, TypeOK, kubeVars, Procs
  <2> QED
    BY <1>1, <2>1, <2>2, <2>3
<1>3. CASE Retry(t)
  <2>1. PICK d : /\ Outcome(t, c, d)
                 /\ d = Idle \/ (d \in CallRecord /\ d = [c EXCEPT !.tries = @ + 1])
                 /\ UNCHANGED kubeVars
    BY <1>1, <1>3, RetryOutcome, Zenon
  <2>2. call'[t] = d
    BY <1>1, <2>1 DEF Outcome, TypeOK, Procs
  <2>3. \/ d = Idle
        \/ /\ d.op = c.op /\ d.id = c.id /\ d.size = c.size /\ d.live = c.live
           /\ d.stage = c.stage
    BY <1>1, <2>1 DEF CallRecord
  <2> QED
    BY <1>1, <2>1, <2>2, <2>3
<1> QED
  BY <1>2, <1>3, Zenon

(* "/disk add".  A volume of a call that nobody waits for may be bound by  *)
(* now; then it has its disk, and the command is refused.                  *)
LEMMA AddExecutes ==
  ASSUME StorageInv, NEW t \in Threads, NEW c, c = call[t], c.stage = "add",
         Goto(t, c, "verify") \/ Retry(t), Steady,
         disk[c.id] = None, NEW n, n # None,
         \/ c.op = "create" /\ n = FormatBytes(c.size)
         \/ c.op = "snapshot" /\ \E x \in Slots : n = disk[x],
         disk' = [disk EXCEPT ![c.id] = n], file' = file \cup {c.id}
  PROVE  StorageInv'
<1>1. /\ Acting(t, c) /\ WellFormed(c) /\ SizesKnown(c) /\ c \in CallRecord /\ TypeOK
      /\ UNCHANGED kubeVars
  BY Executes, Zenon
<1>2. PICK d : /\ Outcome(t, c, d) /\ call'[t] = d
               /\ \/ d = Idle
                  \/ /\ d.op = c.op /\ d.id = c.id /\ d.size = c.size /\ d.live = c.live
                     /\ d.stage \in {c.stage, "verify"}
  BY Executes
<1>3. n \in Nat /\ Whole(n) /\ (c.op = "create" => n >= FormatBytes(c.size))
  BY <1>1, FormatCuts DEF StorageInv, DiskWhole, TypeOK, CallRecord
<1>4. OwnSlot(c)
  BY <1>1, <1>3 DEF OwnSlot, TypeOK, Acting
<1>5. disk'[c.id] = n
  BY <1>1 DEF TypeOK, Acting
<1>6. CallSound(t)'
  <2>1. CASE d = Idle
    BY <1>2, <2>1, IdleSound, Zenon
  <2>2. CASE d # Idle
    <3>1. WellFormed(d)'
      BY <1>1, <1>2, <2>2, Zenon DEF WellFormed, kubeVars
    <3>2. SizesKnown(d)'
      BY <1>1, <1>2, <1>3, <1>5, <2>2, RdsAssumption, Zenon DEF SizesKnown, Acting, kubeVars, Steady
    <3>3. Entitled(d)' /\ d.op # "orphan" /\ (d.op # "none" /\ ~d.live => d.id \in late')
      BY <1>1, <1>2, <2>2, Zenon DEF Acting, Entitled, kubeVars, Steady
    <3> QED
      BY <1>2, <3>1, <3>2, <3>3 DEF CallSound
  <2> QED
    BY <2>1, <2>2
<1>7. ASSUME c.id \in Volumes PROVE VolumeSound(c.id)'
  <2>1. VolumeSound(c.id)
    BY <1>7 DEF StorageInv
  <2> QED
    BY <1>1, <1>3, <1>5, <1>7, <2>1, Zenon DEF VolumeSound, kubeVars, Steady, passVars
<1> QED
  BY <1>1, <1>2, <1>4, <1>6, <1>7, HandlerStep, Zenon

LEMMA AddStep ==
  ASSUME StorageInv, NEW t \in Threads, Add(t), UNCHANGED passVars
  PROVE  StorageInv'
<1>0. TypeOK
  BY DEF StorageInv, PassTypeOK
<1> PICK c : c = call[t]
  OBVIOUS
<1>1. c.stage = "add" /\ c.op # "none" /\ CallSound(t)
  <2>1. c.stage = "add" /\ CallSound(t)
    BY Zenon DEF Add, StorageInv
  <2> QED
    BY <2>1 DEF CallSound, WellFormed, Idle
<1>2. Acting(t, c) /\ WellFormed(c) /\ c \in CallRecord
  BY <1>1, OwnCall, Zenon DEF Acting
<1>3. c.op = "create" \/ (c.op = "snapshot" /\ c.id \in Snaps)
  BY <1>1, <1>2, Zenon DEF WellFormed, CallSound, CallRecord
<1>4. Steady
  BY <1>0, LossesBounded, ZenonT(30) DEF Add, Steady
<1> DEFINE from == IF c.op = "snapshot" THEN VolumeOf[c.id] ELSE source[c.id]
           n == IF c.op = "snapshot" THEN disk[from] ELSE FormatBytes(c.size)
           Execute == /\ disk[c.id] = None /\ ~(from # None /\ disk[from] = None)
                      /\ disk' = [disk EXCEPT ![c.id] = n] /\ file' = file \cup {c.id}
<1>5. \/ Execute /\ (Goto(t, c, "verify") \/ Retry(t))
      \/ Retry(t) /\ UNCHANGED rdsVars
      \/ Fail(t, c) /\ UNCHANGED rdsVars
  BY DEF Add
<1>6. CASE Execute /\ (Goto(t, c, "verify") \/ Retry(t))
  <2>1. CASE c.op = "create"
    <3>1. FormatBytes(c.size) \in Nat
      BY <1>2, FormatCuts DEF CallRecord
    <3>2. PICK m \in Nat : m = FormatBytes(c.size)
      BY <3>1
    <3>3. m # None
      BY RdsAssumption
    <3>4. disk' = [disk EXCEPT ![c.id] = m] /\ file' = file \cup {c.id} /\ disk[c.id] = None
      BY <1>6, <2>1, <3>2
    <3>5. \/ c.op = "create" /\ m = FormatBytes(c.size)
          \/ c.op = "snapshot" /\ \E x \in Slots : m = disk[x]
      BY <2>1, <3>2, Zenon
    <3>6. Goto(t, c, "verify") \/ Retry(t)
      BY <1>6
    <3> HIDE DEF Execute
    <3> QED
      BY <1>1, <1>4, <3>3, <3>4, <3>5, <3>6, AddExecutes, Zenon
  <2>2. CASE c.op = "snapshot" /\ c.id \in Snaps
    <3>1. from \in Slots /\ from = VolumeOf[c.id] /\ from # None
      BY <2>2, RdsAssumption DEF Slots
    <3>2. PICK m : m = disk[from]
      OBVIOUS
    <3>3. m # None
      BY <1>6, <3>1, <3>2
    <3>4. disk' = [disk EXCEPT ![c.id] = m] /\ file' = file \cup {c.id} /\ disk[c.id] = None
      BY <1>6, <2>2, <3>2
    <3>5. \/ c.op = "create" /\ m = FormatBytes(c.size)
          \/ c.op = "snapshot" /\ \E x \in Slots : m = disk[x]
      BY <2>2, <3>1, <3>2, Zenon
    <3>6. Goto(t, c, "verify") \/ Retry(t)
      BY <1>6
    <3> HIDE DEF Execute
    <3> QED
      BY <1>1, <1>4, <3>3, <3>4, <3>5, <3>6, AddExecutes, Zenon
  <2> QED
    BY <1>3, <2>1, <2>2
<1>7. CASE Retry(t) /\ UNCHANGED rdsVars
  BY <1>1, <1>4, <1>7, Retries, Zenon
<1>8. CASE Fail(t, c) /\ UNCHANGED rdsVars
  BY <1>2, <1>4, <1>8, FailEnds, Zenon
<1> QED
  BY <1>5, <1>6, <1>7, <1>8, Zenon

(* VerifyVolumeExists, for what creates and for what expands.              *)
LEMMA VerifyStep ==
  ASSUME StorageInv, NEW t \in Threads, Verify(t), UNCHANGED passVars
  PROVE  StorageInv'
<1>0. TypeOK
  BY DEF StorageInv, PassTypeOK
<1> PICK c : c = call[t]
  OBVIOUS
<1>1. c.stage = "verify" /\ c.op # "none" /\ CallSound(t)
  BY BusyCall, Zenon DEF Verify
<1>2. Acting(t, c) /\ SizesKnown(c) /\ c \in CallRecord
  BY <1>1, OwnCall, ZenonT(30) DEF Acting
<1>3. Steady /\ UNCHANGED rdsVars
  BY <1>0, LossesBounded DEF Verify, Query, Steady
<1>4. \/ disk[c.id] # None /\ Answer(t, c, TRUE, c.size)
      \/ Fail(t, c)
  BY Zenon DEF Verify, Query, Succeed
<1>5. CASE disk[c.id] # None /\ Answer(t, c, TRUE, c.size)
  <2>1. c.size \in Nat
    BY <1>2 DEF CallRecord
  <2>2. c.op \in {"create", "expand"} /\ c.id \notin swept \cup late
          => disk[c.id] >= FormatBytes(c.size)
    BY <1>1, <1>2, RdsAssumption DEF SizesKnown, Acting
  <2> QED
    BY <1>2, <1>3, <1>5, <2>1, <2>2, Ends, Zenon
<1>6. CASE Fail(t, c)
  BY <1>2, <1>3, <1>6, FailEnds, Zenon
<1> QED
  BY <1>4, <1>5, <1>6, Zenon

-----------------------------------------------------------------------------
(* DeleteVolume and DeleteSnapshot.                                        *)
LEMMA RemoveGetStep ==
  ASSUME StorageInv, NEW t \in Threads, NEW c, Acting(t, c), c.op \in {"delete", "delsnap"},
         NEW s \in {"rm_get", "rm_disk"}, s = "rm_get" => c.op = "delete",
         Query(c.id, Goto(t, c, s), Succeed(t, c, 0), Fail(t, c)), UNCHANGED passVars
  PROVE  StorageInv'
<1>0. TypeOK /\ c \in CallRecord
  BY DEF StorageInv, PassTypeOK, Acting
<1>1. Steady /\ UNCHANGED rdsVars
  BY <1>0, LossesBounded DEF Query, Steady
<1>2. Goto(t, c, s) \/ Answer(t, c, TRUE, 0) \/ Fail(t, c)
  BY Zenon DEF Query, Succeed
<1>3. CASE Goto(t, c, s)
  <2>1. WellFormed([c EXCEPT !.stage = s, !.tries = 0])
    BY <1>0 DEF WellFormed, CallRecord, Acting
  <2>2. SizesKnown([c EXCEPT !.stage = s, !.tries = 0])
    BY <1>0 DEF SizesKnown, CallRecord
  <2> QED
    BY <1>0, <1>1, <1>3, <2>1, <2>2, Moves, Zenon
<1>4. CASE Answer(t, c, TRUE, 0)
  BY <1>1, <1>4, Ends, Zenon
<1>5. CASE Fail(t, c)
  BY <1>1, <1>5, FailEnds, Zenon
<1> QED
  BY <1>2, <1>3, <1>4, <1>5, Zenon


LEMMA DeletesStart ==
  ASSUME StorageInv, NEW t \in Threads, UNCHANGED passVars,
         \/ \E v \in Volumes : DeleteVolume(t, v)
         \/ \E s \in Snaps : DeleteSnapshot(t, s)
         \/ call[t].stage = "rm_get" /\ RemoveGet(t, call[t])
  PROVE  StorageInv'
<1>1. ASSUME NEW v \in Volumes, DeleteVolume(t, v) PROVE StorageInv'
  <2> PICK c : c = Call("delete", v, 0)
    BY Zenon
  <2>1. /\ MayCall(t, v) /\ pv[v] = "released"
        /\ Query(v, Goto(t, c, "rm_get"), Succeed(t, c, 0), Fail(t, c))
    BY <1>1 DEF DeleteVolume
  <2>2. c.op = "delete" /\ c.id = v
    BY DEF Call
  <2>3. Acting(t, c)
    BY <2>1, NewCall DEF Slots
  <2> QED
    BY <2>1, <2>2, <2>3, RemoveGetStep, Zenon
<1>2. ASSUME NEW s \in Snaps, DeleteSnapshot(t, s) PROVE StorageInv'
  <2> PICK c : c = Call("delsnap", s, 0)
    BY Zenon
  <2>1. /\ MayCall(t, s)
        /\ Query(c.id, Goto(t, c, "rm_disk"), Succeed(t, c, 0), Fail(t, c))
    BY <1>2 DEF DeleteSnapshot, RemoveGet
  <2>2. c.op = "delsnap" /\ c.id = s
    BY DEF Call
  <2>3. Acting(t, c)
    BY <2>1, NewCall DEF Slots
  <2> QED
    BY <2>1, <2>2, <2>3, RemoveGetStep, Zenon
<1>3. ASSUME call[t].stage = "rm_get", RemoveGet(t, call[t]) PROVE StorageInv'
  <2> PICK c : c = call[t]
    BY Zenon
  <2>1. c.op = "delete"
    BY <1>3 DEF StorageInv, PassTypeOK, TypeOK, CallRecord, Procs, CallSound, WellFormed, Idle
  <2>2. Acting(t, c)
    BY <2>1, OwnCall, Zenon
  <2>3. Query(c.id, Goto(t, c, "rm_disk"), Succeed(t, c, 0), Fail(t, c))
    BY <1>3 DEF RemoveGet
  <2> QED
    BY <2>1, <2>2, <2>3, RemoveGetStep, Zenon
<1> QED
  BY <1>1, <1>2, <1>3

(* No call to delete is for a volume that is wanted or bound.              *)
LEMMA RemoveDiskStep ==
  ASSUME StorageInv, NEW t \in Threads, RemoveDisk(t), UNCHANGED passVars
  PROVE  StorageInv'
<1>0. TypeOK
  BY DEF StorageInv, PassTypeOK
<1> PICK c : c = call[t]
  OBVIOUS
<1>1. c.stage = "rm_disk" /\ c.op # "none" /\ CallSound(t) /\ WellFormed(c)
  BY BusyCall, Zenon DEF RemoveDisk
<1>2. c.op \in {"delete", "delsnap"}
  BY <1>0, <1>1 DEF WellFormed, CallSound, CallRecord, TypeOK, Procs
<1>3. Steady
  BY <1>0, LossesBounded DEF RemoveDisk, Steady
<1>4. \/ Retry(t) /\ UNCHANGED rdsVars
      \/ /\ disk' = [disk EXCEPT ![c.id] = None] /\ file' = file
         /\ Goto(t, c, "rm_file") \/ Retry(t)
  BY DEF RemoveDisk
<1>5. CASE Retry(t) /\ UNCHANGED rdsVars
  BY <1>1, <1>3, <1>5, Retries, Zenon
<1>6. CASE /\ disk' = [disk EXCEPT ![c.id] = None] /\ file' = file
           /\ Goto(t, c, "rm_file") \/ Retry(t)
  <2>1. Acting(t, c) /\ c \in CallRecord /\ UNCHANGED kubeVars
    BY <1>1, <1>6, Executes, Zenon
  <2>2. PICK d : /\ Outcome(t, c, d) /\ call'[t] = d
                 /\ \/ d = Idle
                    \/ /\ d.op = c.op /\ d.id = c.id /\ d.size = c.size /\ d.live = c.live
                       /\ d.stage \in {c.stage, "rm_file"}
    BY <1>1, <1>6, Executes
  <2>3. OwnSlot(c) /\ disk'[c.id] = None
    BY <1>0, <1>6, <2>1 DEF OwnSlot, TypeOK, Acting
  <2>4. CASE d = Idle
    <3>1. CallSound(t)'
      BY <2>2, <2>4, IdleSound
    <3>2. ASSUME c.id \in Volumes PROVE VolumeSound(c.id)'
      BY <1>2, <2>1, <3>2, RdsAssumption, Zenon DEF VolumeSound, Acting, Entitled, kubeVars
    <3> QED
      BY <1>3, <2>1, <2>2, <2>3, <3>1, <3>2, HandlerStep, Zenon
  <2>5. CASE d # Idle
    <3>1. CallSound(t)'
      BY <1>1, <1>2, <1>3, <2>1, <2>2, <2>5, Zenon DEF CallSound, WellFormed, Entitled, SizesKnown, Acting,
         kubeVars, Steady
    <3>2. ASSUME c.id \in Volumes PROVE VolumeSound(c.id)'
      BY <1>2, <2>1, <3>2, RdsAssumption DEF VolumeSound, Acting, Entitled, kubeVars
    <3> QED
      BY <1>3, <2>1, <2>2, <2>3, <3>1, <3>2, HandlerStep, Zenon
  <2> QED
    BY <2>4, <2>5
<1> QED
  BY <1>4, <1>5, <1>6, Zenon

LEMMA RemoveFileStep ==
  ASSUME StorageInv, NEW t \in Threads, RemoveFile(t), UNCHANGED passVars
  PROVE  StorageInv'
<1>0. TypeOK
  BY DEF StorageInv, PassTypeOK
<1> PICK c : c = call[t]
  OBVIOUS
<1>1. c.stage = "rm_file" /\ c.op # "none" /\ CallSound(t) /\ WellFormed(c)
  BY BusyCall, Zenon DEF RemoveFile
<1>2. c.op \in {"delete", "delsnap"} /\ Acting(t, c)
  BY <1>0, <1>1, OwnCall DEF WellFormed, CallSound, CallRecord, TypeOK, Procs
<1>3. Steady
  BY <1>0, LossesBounded DEF RemoveFile, Steady
<1>4. Answer(t, c, TRUE, 0) /\ disk' = disk /\ (file' = file \ {c.id} \/ file' = file)
  BY Zenon DEF RemoveFile, Succeed
<1>5. Outcome(t, c, Idle)
  BY <1>0, <1>2, <1>4, AnswerOutcome, Zenon
<1>6. OwnSlot(c)
  BY <1>0, <1>2, <1>4, Zenon DEF StorageInv, TypeOK, DiskWhole, OwnSlot, Acting
<1>7. CallSound(t)'
  <2>1. call'[t] = Idle
    BY <1>0, <1>5, Zenon DEF Outcome, TypeOK, Procs
  <2> QED
    BY <2>1, IdleSound
<1>8. ASSUME c.id \in Volumes PROVE VolumeSound(c.id)'
  BY <1>2, <1>5, <1>8, RdsAssumption DEF VolumeSound, Acting, Entitled, Outcome
<1> QED
  BY <1>2, <1>3, <1>5, <1>6, <1>7, <1>8, HandlerStep, Zenon
=============================================================================
