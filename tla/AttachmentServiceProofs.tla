----------------------- MODULE AttachmentServiceProofs -----------------------
(***************************************************************************)
(* The safety theorems of AttachmentService, for any sets of volumes,      *)
(* nodes and handlers: SafetyInv is an invariant, a locked entry is        *)
(* changed only by the lock holder, and the migration timeout never reads  *)
(* through nil.                                                            *)
(***************************************************************************)
EXTENDS AttachmentService, FiniteSetTheorems, TLAPS

(* A set of one or two nodes: what Cardinality says of it. *)
LEMMA CardinalityFacts ==
  ASSUME NEW S \in SUBSET Node
  PROVE  /\ IsFiniteSet(S) /\ Cardinality(S) \in Nat
         /\ Cardinality(S) = 0 <=> S = {}
         /\ Cardinality(S) = 1 <=> \E m \in Node : S = {m}
         /\ \A n \in Node : n \notin S => Cardinality(S \cup {n}) = Cardinality(S) + 1
         /\ \A n \in S : Cardinality(S \ {n}) = Cardinality(S) - 1
<1>1. IsFiniteSet(S) /\ Cardinality(S) \in Nat
  BY ConstantsAssumption, FS_Subset, FS_CardinalityType
<1>2. Cardinality(S) = 0 <=> S = {}
  BY <1>1, FS_EmptySet
<1>3. Cardinality(S) = 1 <=> \E m \in Node : S = {m}
  BY <1>1, FS_Singleton, Zenon
<1>4. \A n \in Node : n \notin S => Cardinality(S \cup {n}) = Cardinality(S) + 1
  BY <1>1, FS_AddElement, Zenon
<1>5. \A n \in S : Cardinality(S \ {n}) = Cardinality(S) - 1
  BY <1>1, FS_RemoveElement, Zenon
<1> QED
  BY <1>1, <1>2, <1>3, <1>4, <1>5

(* What TrackAttachmentWithMode inserts is a well-formed record. *)
LEMMA NewRecordSound ==
  ASSUME NEW n \in Node, NEW mode \in AccessModes
  PROVE  /\ NewRecord(n, mode) \in AttachmentRecord
         /\ NewRecord(n, mode).Nodes = {n}
         /\ WellFormed(NewRecord(n, mode))
<1>1. NewRecord(n, mode) \in AttachmentRecord
  BY DEF NewRecord, AttachmentRecord, Instants
<1>2. Cardinality({n}) = 1
  BY CardinalityFacts
<1> QED
  BY <1>1, <1>2 DEF NewRecord, WellFormed

(* AddSecondaryAttachment, where it changes a record, keeps it well formed. *)
LEMMA WithSecondarySound ==
  ASSUME NEW s \in AttachmentRecord, WellFormed(s), NEW n \in Node,
         n \notin s.Nodes, Cardinality(s.Nodes) < 2
  PROVE  /\ WithSecondary(s, n) \in AttachmentRecord
         /\ WithSecondary(s, n).Nodes = s.Nodes \cup {n}
         /\ WellFormed(WithSecondary(s, n))
<1>1. s.Nodes \in SUBSET Node
  BY DEF AttachmentRecord
<1>2. WithSecondary(s, n) \in AttachmentRecord
  BY Zenon DEF WithSecondary, AttachmentRecord, Instants
<1>3. Cardinality(s.Nodes \cup {n}) = 2
  BY <1>1, CardinalityFacts DEF WellFormed
<1>4. /\ WithSecondary(s, n).Nodes = s.Nodes \cup {n}
      /\ WithSecondary(s, n).NodeID = s.NodeID
      /\ WithSecondary(s, n).MigrationStartedAt = "recent"
  BY DEF WithSecondary, AttachmentRecord
<1> QED
  BY <1>2, <1>3, <1>4 DEF WellFormed

(* RemoveNodeAttachment deletes the record of the last node and keeps any  *)
(* other one well formed.                                                  *)
LEMMA WithoutNodeSound ==
  ASSUME NEW s \in AttachmentRecord, WellFormed(s), NEW n \in s.Nodes
  PROVE  /\ s.Nodes = {n} <=> WithoutNode(s, n) = Nil
         /\ s.Nodes # {n} => /\ WithoutNode(s, n) \in AttachmentRecord
                             /\ WithoutNode(s, n).Nodes = s.Nodes \ {n}
                             /\ WellFormed(WithoutNode(s, n))
<1> DEFINE rest == s.Nodes \ {n}
           r    == WithoutNode(s, n)
<1>1. s.Nodes \in SUBSET Node /\ rest \in SUBSET Node
  BY DEF AttachmentRecord
<1>2. CASE rest = {}
  BY <1>2, <1>1 DEF WithoutNode
<1>3. CASE rest # {}
  <2>1. PICK m \in Node : rest = {m}
    <3>1. Cardinality(rest) = Cardinality(s.Nodes) - 1
      BY <1>1, CardinalityFacts
    <3>2. Cardinality(rest) = 1
      BY <3>1, <1>1, <1>3, CardinalityFacts DEF WellFormed
    <3> QED
      BY <3>2, <1>1, CardinalityFacts, Zenon
  <2>2. (CHOOSE x \in rest : TRUE) = m
    BY <2>1
  <2>3. Cardinality({m}) = 1
    BY CardinalityFacts
  <2>4. s.NodeID # n => s.NodeID = m
    BY <2>1 DEF WellFormed
  <2>5. r = [NodeID |-> m, Nodes |-> {m}, AccessMode |-> s.AccessMode,
             MigrationStartedAt |-> "nil", MigrationTimeout |-> FALSE]
    BY <1>3, <2>1, <2>2, <2>4, Zenon DEF WithoutNode, AttachmentRecord
  <2>6. r \in AttachmentRecord /\ r.Nodes = {m} /\ r.NodeID = m
        /\ r.MigrationStartedAt = "nil"
    BY <2>5 DEF AttachmentRecord, Instants
  <2>7. r # Nil
    BY <2>6, ConstantsAssumption
  <2> QED
    BY <1>3, <2>1, <2>3, <2>6, <2>7 DEF WellFormed
<1> QED
  BY <1>2, <1>3

(* What a restart rebuilds from VolumeAttachments is well formed. *)
LEMMA RebuiltSound ==
  ASSUME NEW vas \in SUBSET Node, vas # {}, NEW mode \in AccessModes,
         NEW s \in RebuiltRecords(vas, mode)
  PROVE  /\ s \in AttachmentRecord
         /\ WellFormed(s)
         /\ s.Nodes \subseteq vas
         /\ Cardinality(vas) <= 2 => s.Nodes = vas
<1>1. /\ s.NodeID \in vas /\ s.Nodes \in KeptAttachments(vas)
      /\ s.NodeID \in s.Nodes
      /\ s.MigrationStartedAt \in IF Cardinality(vas) = 1 THEN {"nil"}
                                  ELSE {"recent", "past"}
  BY DEF RebuiltRecords
<1>2. Cardinality(vas) \in Nat /\ Cardinality(vas) # 0
  BY CardinalityFacts
<1>3. s.Nodes \subseteq vas /\ (Cardinality(vas) <= 2 => s.Nodes = vas)
  BY <1>1, <1>2 DEF KeptAttachments
<1>4. Cardinality(s.Nodes) \in {1, 2} /\ (Cardinality(s.Nodes) = 1 <=> Cardinality(vas) = 1)
  BY <1>1, <1>2 DEF KeptAttachments
<1>5. s \in AttachmentRecord
  BY <1>1, <1>3, Zenon DEF RebuiltRecords, AttachmentRecord, Instants
<1> QED
  BY <1>1, <1>3, <1>4, <1>5 DEF WellFormed
-----------------------------------------------------------------------------
(* The safety properties that hold whatever fails, together: each needs    *)
(* the others to be inductive.                                             *)
SafetyInv ==
  TypeOK /\ RecordWellFormed /\ RollbackIsOwn /\ LockReleased /\ HeldPointerSound

(* The request of a handler that serves one. *)
LEMMA RequestFacts ==
  ASSUME TypeOK, NEW t \in Threads, pc[t] # "idle"
  PROVE  /\ req[t] \in Request /\ req[t] # Nil
         /\ req[t].vol \in Volumes
         /\ req[t].node \in Node \cup {Nil}
         /\ req[t].lost \in BOOLEAN
         /\ pc[t] \in PublishPc => req[t].node \in Node
<1>1. req[t] \in Request /\ req[t] # Nil
  BY DEF TypeOK
<1> QED
  BY <1>1 DEF TypeOK, Request

LEMMA InitSafety == Init => SafetyInv
<1> SUFFICES ASSUME Init PROVE SafetyInv
  OBVIOUS
<1>1. TypeOK
  BY ConstantsAssumption DEF Init, TypeOK, Instants, Pointer, PublishPc
<1>2. RecordWellFormed /\ RollbackIsOwn /\ LockReleased /\ HeldPointerSound
  BY ConstantsAssumption DEF Init, RecordWellFormed, RollbackIsOwn, LockReleased,
     HeldPointerSound, PointerSound, HoldingPc
<1> QED
  BY <1>1, <1>2 DEF SafetyInv

(* UntrackAttachment drops a map entry whose lock is free: the pointers to *)
(* it keep the object it was.                                              *)
LEMMA EntryDropped ==
  ASSUME SafetyInv, NEW v \in Volumes, volumeLocks[v] = Nil,
         attachments' = [attachments EXCEPT ![v] = Nil],
         existing' = OrphanExisting(v), UNCHANGED <<volumeLocks, req>>,
         \A u \in Threads : /\ pc'[u] = "persist" <=> pc[u] = "persist"
                            /\ pc'[u] \in HoldingPc <=> pc[u] \in HoldingPc
  PROVE  /\ RecordWellFormed' /\ RollbackIsOwn' /\ LockReleased'
         /\ existing' \in [Threads -> Pointer]
         /\ \A u \in Threads : /\ pc'[u] \in HoldingPc <=> existing'[u] # Nil
                               /\ PointerSound(existing[u], req[u].vol)'
<1> USE DEF SafetyInv
<1>1. RecordWellFormed'
  BY DEF TypeOK, RecordWellFormed
<1>2. RollbackIsOwn'
  <2>1. ASSUME NEW u \in Threads, pc[u] = "persist"
        PROVE  req[u].vol \in Volumes /\ req[u].vol # v
    BY <2>1, RequestFacts, ConstantsAssumption DEF RollbackIsOwn
  <2> QED
    BY <2>1 DEF TypeOK, RollbackIsOwn
<1>3. LockReleased'
  BY DEF TypeOK, LockReleased
<1>4. ASSUME NEW u \in Threads
      PROVE  /\ existing'[u] \in Pointer
             /\ pc'[u] \in HoldingPc <=> existing'[u] # Nil
             /\ PointerSound(existing[u], req[u].vol)'
  <2>1. existing'[u] = IF existing[u] = Alias /\ req[u].vol = v
                         THEN attachments[v] ELSE existing[u]
    BY DEF OrphanExisting
  <2>2. CASE existing[u] = Nil
    BY <2>1, <2>2, ConstantsAssumption DEF HeldPointerSound, PointerSound, Pointer
  <2>3. CASE existing[u] # Nil
    <3>1. req[u].vol \in Volumes
      BY <2>3, RequestFacts DEF HeldPointerSound, HoldingPc
    <3>2. attachments[v] \in AttachmentRecord \cup {Nil} /\ existing[u] \in Pointer
      BY DEF TypeOK
    <3>3. CASE existing[u] = Alias /\ req[u].vol = v
      BY <2>1, <2>3, <3>2, <3>3, ConstantsAssumption
         DEF HeldPointerSound, PointerSound, Deref, Pointer
    <3>4. CASE ~(existing[u] = Alias /\ req[u].vol = v)
      BY <2>1, <2>3, <3>1, <3>2, <3>4, ConstantsAssumption
         DEF TypeOK, HeldPointerSound, PointerSound, Deref
    <3> QED
      BY <3>3, <3>4
  <2> QED
    BY <2>2, <2>3
<1> QED
  BY <1>1, <1>2, <1>3, <1>4 DEF OrphanExisting

LEMMA UntrackSafety ==
  ASSUME SafetyInv, NEW t \in Threads, PublishHandoff(t) \/ PublishHeal(t)
  PROVE  SafetyInv'
<1> USE DEF SafetyInv
<1>1. PICK label \in {"clear", "track"} :
        /\ pc[t] \in {"handoff", "heal"} /\ pc' = [pc EXCEPT ![t] = label]
        /\ UntrackAttachment(req[t].vol)
        /\ listed' = OrphanListed(req[t].vol)
        /\ UNCHANGED <<req, recPc, recVol, cluster>>
  BY DEF PublishHandoff, PublishHeal, Goto
<1>2. PICK v \in Volumes : v = req[t].vol
  BY <1>1, RequestFacts
<1>3. /\ volumeLocks[v] = Nil
      /\ attachments' = [attachments EXCEPT ![v] = Nil]
      /\ detachTimestamps' \in {detachTimestamps, [detachTimestamps EXCEPT ![v] = "recent"]}
      /\ existing' = OrphanExisting(v)
      /\ UNCHANGED volumeLocks
  BY <1>1, <1>2 DEF UntrackAttachment
<1>4. \A u \in Threads : /\ pc'[u] = "persist" <=> pc[u] = "persist"
                         /\ pc'[u] \in HoldingPc <=> pc[u] \in HoldingPc
  BY <1>1 DEF TypeOK, HoldingPc
<1>5. /\ RecordWellFormed' /\ RollbackIsOwn' /\ LockReleased'
      /\ existing' \in [Threads -> Pointer]
      /\ \A u \in Threads : /\ pc'[u] \in HoldingPc <=> existing'[u] # Nil
                            /\ PointerSound(existing[u], req[u].vol)'
  BY <1>1, <1>3, <1>4, EntryDropped, Zenon
<1>6. ASSUME NEW w \in Volumes
      PROVE  /\ listed'[w] # Nil <=> listed[w] # Nil
             /\ listed'[w] \in Pointer
             /\ PointerSound(listed[w], w)'
  <2>1. /\ listed'[w] = IF w = v /\ listed[w] = Alias THEN attachments[w] ELSE listed[w]
        /\ attachments'[w] = IF w = v THEN Nil ELSE attachments[w]
        /\ attachments[w] \in AttachmentRecord \cup {Nil} /\ listed[w] \in Pointer
    BY <1>1, <1>2, <1>3 DEF TypeOK, OrphanListed
  <2>2. PointerSound(listed[w], w)
    BY DEF HeldPointerSound
  <2> QED
    BY <2>1, <2>2, ConstantsAssumption DEF PointerSound, Deref, Pointer
<1>7. TypeOK'
  <2>1. attachments' \in [Volumes -> AttachmentRecord \cup {Nil}]
    BY <1>3 DEF TypeOK
  <2>2. detachTimestamps' \in [Volumes -> Instants]
    BY <1>3 DEF TypeOK, Instants
  <2>3. listed' \in [Volumes -> Pointer]
    BY <1>1, <1>2, <1>6 DEF OrphanListed, TypeOK
  <2>4. /\ pc' \in [Threads -> PublishPc \cup {"idle", "remove"}]
        /\ \A u \in Threads : /\ pc'[u] = "idle" <=> req'[u] = Nil
                              /\ pc'[u] \in PublishPc => req'[u].node \in Node
    BY <1>1 DEF TypeOK, PublishPc
  <2> QED
    BY <1>1, <1>3, <1>5, <2>1, <2>2, <2>3, <2>4 DEF TypeOK, cluster
<1>8. HeldPointerSound'
  BY <1>1, <1>5, <1>6 DEF HeldPointerSound, TypeOK
<1> QED
  BY <1>5, <1>7, <1>8

(* A call ends and map entries only change to other well-formed records:   *)
(* every held pointer stays sound.                                         *)
LEMMA PointersKept ==
  ASSUME TypeOK, HeldPointerSound, NEW t \in Threads,
         \A w \in Volumes : attachments[w] # Nil =>
           attachments'[w] # Nil /\ WellFormed(attachments'[w]),
         pc' = [pc EXCEPT ![t] = "idle"], req' = [req EXCEPT ![t] = Nil],
         existing' = [existing EXCEPT ![t] = Nil],
         UNCHANGED rec
  PROVE  HeldPointerSound'
<1>1. \A u \in Threads : pc'[u] \in HoldingPc <=> existing'[u] # Nil
  BY DEF TypeOK, HeldPointerSound, HoldingPc
<1>2. ASSUME NEW u \in Threads PROVE PointerSound(existing[u], req[u].vol)'
  <2>1. CASE u = t
    BY <2>1 DEF TypeOK, PointerSound
  <2>2. CASE u # t /\ existing[u] # Nil
    <3>1. req'[u] = req[u] /\ existing'[u] = existing[u] /\ req[u].vol \in Volumes
      BY <2>2, RequestFacts DEF TypeOK, HeldPointerSound, HoldingPc
    <3> QED
      BY <2>2, <3>1, ConstantsAssumption DEF HeldPointerSound, PointerSound, Deref
  <2>3. CASE u # t /\ existing[u] = Nil
    BY <2>3 DEF TypeOK, PointerSound
  <2> QED
    BY <2>1, <2>2, <2>3
<1>3. ASSUME NEW w \in Volumes PROVE PointerSound(listed[w], w)'
  BY ConstantsAssumption DEF HeldPointerSound, PointerSound, Deref, rec
<1> QED
  BY <1>1, <1>2, <1>3 DEF HeldPointerSound, rec

(* A call ends and drops the entry of v: the pointers to it keep the       *)
(* object, the others are not touched.                                     *)
LEMMA PointersOrphaned ==
  ASSUME TypeOK, RecordWellFormed, HeldPointerSound,
         NEW t \in Threads, NEW v \in Volumes,
         attachments' = [attachments EXCEPT ![v] = Nil],
         pc' = [pc EXCEPT ![t] = "idle"], req' = [req EXCEPT ![t] = Nil],
         existing' = [OrphanExisting(v) EXCEPT ![t] = Nil],
         listed' = OrphanListed(v), UNCHANGED <<recPc, recVol>>
  PROVE  HeldPointerSound' /\ existing' \in [Threads -> Pointer]
                           /\ listed' \in [Volumes -> Pointer]
<1>1. ASSUME NEW u \in Threads
      PROVE  /\ pc'[u] \in HoldingPc <=> existing'[u] # Nil
             /\ existing'[u] \in Pointer
             /\ PointerSound(existing[u], req[u].vol)'
  <2>1. CASE u = t
    BY <2>1 DEF TypeOK, PointerSound, HoldingPc, OrphanExisting, Pointer
  <2>2. CASE u # t /\ existing[u] = Nil
    BY <2>2, ConstantsAssumption
       DEF TypeOK, HeldPointerSound, PointerSound, OrphanExisting, Pointer
  <2>3. CASE u # t /\ existing[u] # Nil
    <3>1. req'[u] = req[u] /\ pc'[u] = pc[u] /\ req[u].vol \in Volumes
      BY <2>3, RequestFacts DEF TypeOK, HeldPointerSound, HoldingPc
    <3>2. existing'[u] = IF existing[u] = Alias /\ req[u].vol = v
                           THEN attachments[v] ELSE existing[u]
      BY <2>3 DEF OrphanExisting
    <3>3. attachments[v] \in AttachmentRecord \cup {Nil}
      BY DEF TypeOK
    <3> QED
      BY <2>3, <3>1, <3>2, <3>3, ConstantsAssumption
         DEF TypeOK, HeldPointerSound, PointerSound, Deref, Pointer
  <2> QED
    BY <2>1, <2>2, <2>3
<1>2. ASSUME NEW w \in Volumes
      PROVE  /\ listed'[w] # Nil <=> listed[w] # Nil
             /\ listed'[w] \in Pointer
             /\ PointerSound(listed[w], w)'
  BY ConstantsAssumption
     DEF TypeOK, HeldPointerSound, PointerSound, Deref, OrphanListed, Pointer
<1>3. /\ existing' \in [Threads -> Pointer] /\ listed' \in [Volumes -> Pointer]
  BY <1>1, <1>2, Zenon DEF OrphanExisting, OrphanListed, TypeOK
<1> QED
  BY <1>1, <1>2, <1>3, ZenonT(40) DEF HeldPointerSound, TypeOK

(* A call that ends without holding, or giving back, the lock of v, the    *)
(* only volume whose entry it changes.                                     *)
LEMMA LocksKept ==
  ASSUME TypeOK, RollbackIsOwn, LockReleased,
         NEW t \in Threads, NEW v \in Volumes,
         \A w \in Volumes \ {v} : attachments'[w] = attachments[w],
         pc' = [pc EXCEPT ![t] = "idle"], req' = [req EXCEPT ![t] = Nil],
         volumeLocks' = [volumeLocks EXCEPT ![v] = Nil],
         volumeLocks[v] \in {Nil, t}, pc[t] = "persist" => req[t].vol = v
  PROVE  RollbackIsOwn' /\ LockReleased'
<1>1. ASSUME NEW u \in Threads, pc'[u] = "persist"
      PROVE  /\ volumeLocks'[req'[u].vol] = u
             /\ attachments'[req'[u].vol] = NewRecord(req'[u].node, ModeOf[req'[u].vol])
  <2>1. u # t /\ pc[u] = "persist" /\ req'[u] = req[u] /\ req[u].vol \in Volumes
    BY <1>1, RequestFacts DEF TypeOK
  <2>2. volumeLocks[req[u].vol] = u /\ req[u].vol # v
    BY <2>1, ConstantsAssumption DEF RollbackIsOwn
  <2> QED
    BY <2>1, <2>2 DEF TypeOK, RollbackIsOwn
<1>2. ASSUME NEW w \in Volumes, volumeLocks'[w] # Nil
      PROVE  /\ pc'[volumeLocks'[w]] = "persist"
             /\ req'[volumeLocks'[w]].vol = w
  <2>1. w # v /\ volumeLocks'[w] = volumeLocks[w] /\ volumeLocks[w] \in Threads
    BY <1>2 DEF TypeOK
  <2>2. volumeLocks[w] # t
    BY <2>1, ConstantsAssumption DEF LockReleased
  <2> QED
    BY <2>1, <2>2, ConstantsAssumption DEF TypeOK, LockReleased
<1> QED
  BY <1>1, <1>2 DEF RollbackIsOwn, LockReleased

(* Nothing that concerns a persisting call changes. *)
LEMMA LocksUndisturbed ==
  ASSUME TypeOK, RollbackIsOwn, LockReleased, UNCHANGED volumeLocks,
         \A u \in Threads : pc'[u] = "persist" <=> pc[u] = "persist",
         \A u \in Threads : pc[u] = "persist" =>
           req'[u].vol = req[u].vol /\ req'[u].node = req[u].node,
         \A w \in Volumes : volumeLocks[w] # Nil => attachments'[w] = attachments[w]
  PROVE  RollbackIsOwn' /\ LockReleased'
<1>1. ASSUME NEW u \in Threads, pc[u] = "persist"
      PROVE  /\ volumeLocks[req[u].vol] = u
             /\ attachments'[req[u].vol] = NewRecord(req[u].node, ModeOf[req[u].vol])
  <2>1. req[u].vol \in Volumes /\ volumeLocks[req[u].vol] = u /\ u # Nil
    BY <1>1, RequestFacts, ConstantsAssumption DEF RollbackIsOwn
  <2> QED
    BY <1>1, <2>1 DEF RollbackIsOwn
<1>2. ASSUME NEW w \in Volumes, volumeLocks[w] # Nil
      PROVE  pc'[volumeLocks[w]] = "persist" /\ req'[volumeLocks[w]].vol = w
  <2>1. PICK u \in Threads : u = volumeLocks[w]
    BY <1>2 DEF TypeOK
  <2>2. pc[u] = "persist" /\ req[u].vol = w
    BY <1>2, <2>1 DEF LockReleased
  <2> QED
    BY <2>1, <2>2
<1>3. RollbackIsOwn'
  BY <1>1 DEF RollbackIsOwn
<1>4. LockReleased'
  BY <1>2 DEF LockReleased
<1> QED
  BY <1>3, <1>4

(* A handler goes on without touching the map: it moves, perhaps takes or  *)
(* drops a pointer, and no time a volume was detached matters here.        *)
LEMMA MoveSafety ==
  ASSUME SafetyInv, NEW t \in Threads, NEW label \in PublishPc \ {"persist"}, NEW p \in Pointer,
         pc[t] \in PublishPc \ {"persist"},
         pc' = [pc EXCEPT ![t] = label], existing' = [existing EXCEPT ![t] = p],
         label \in HoldingPc <=> p # Nil, PointerSound(p, req[t].vol),
         detachTimestamps' \in [Volumes -> Instants],
         UNCHANGED <<attachments, volumeLocks, req, rec, cluster>>
  PROVE  SafetyInv'
<1> USE DEF SafetyInv
<1>1. "idle" \notin PublishPc /\ "remove" \notin PublishPc /\ "persist" \notin HoldingPc
  BY DEF PublishPc, HoldingPc
<1>2. /\ pc' \in [Threads -> PublishPc \cup {"idle", "remove"}]
      /\ existing' \in [Threads -> Pointer]
  BY DEF TypeOK
<1>3. ASSUME NEW u \in Threads
      PROVE  /\ pc'[u] = "idle" <=> req'[u] = Nil
             /\ pc'[u] \in PublishPc => req'[u].node \in Node
             /\ pc'[u] = "persist" <=> pc[u] = "persist"
             /\ pc'[u] \in HoldingPc <=> existing'[u] # Nil
  <2>1. CASE u = t
    BY <1>1, <2>1 DEF TypeOK
  <2>2. CASE u # t
    BY <2>2 DEF TypeOK, HeldPointerSound
  <2> QED
    BY <2>1, <2>2
<1>4. TypeOK'
  BY <1>2, <1>3 DEF TypeOK, rec, cluster
<1>5. RecordWellFormed'
  BY DEF RecordWellFormed
<1>6. RollbackIsOwn' /\ LockReleased'
  BY <1>3, LocksUndisturbed
<1>7. ASSUME NEW u \in Threads PROVE PointerSound(existing[u], req[u].vol)'
  <2>1. existing'[u] = IF u = t THEN p ELSE existing[u]
    BY DEF TypeOK
  <2> QED
    BY <2>1 DEF HeldPointerSound, PointerSound, Deref
<1>8. HeldPointerSound'
  BY <1>3, <1>7 DEF HeldPointerSound, PointerSound, Deref, rec
<1> QED
  BY <1>4, <1>5, <1>6, <1>8

(* A handler that holds no lock answers without touching the map. *)
LEMMA AnswerSafety ==
  ASSUME SafetyInv, NEW t \in Threads, NEW published \in BOOLEAN,
         pc[t] \in PublishPc \ {"persist"}, Return(t, published, existing),
         UNCHANGED <<am, rec, nodes, nodeCache, va>>
  PROVE  SafetyInv'
<1> USE DEF SafetyInv
<1>1. req[t].vol \in Volumes /\ req[t].node \in Node
  BY RequestFacts DEF PublishPc
<1>2. /\ pc' = [pc EXCEPT ![t] = "idle"] /\ req' = [req EXCEPT ![t] = Nil]
      /\ existing' = [existing EXCEPT ![t] = Nil]
      /\ granted' \in {granted, [granted EXCEPT ![req[t].vol] = @ \cup {req[t].node}]}
      /\ UNCHANGED <<attachments, detachTimestamps, volumeLocks, rec, nodes, nodeCache, va>>
  BY DEF Return, Goto, am
<1>3. TypeOK'
  <2>1. granted' \in [Volumes -> SUBSET Node]
    BY <1>1, <1>2 DEF TypeOK
  <2>2. /\ pc' \in [Threads -> PublishPc \cup {"idle", "remove"}]
        /\ req' \in [Threads -> Request \cup {Nil}]
        /\ existing' \in [Threads -> Pointer]
        /\ \A u \in Threads : /\ pc'[u] = "idle" <=> req'[u] = Nil
                              /\ pc'[u] \in PublishPc => req'[u].node \in Node
    BY <1>2 DEF TypeOK, PublishPc, Pointer
  <2> QED
    BY <1>2, <2>1, <2>2 DEF TypeOK, rec
<1>4. RecordWellFormed'
  BY <1>2 DEF RecordWellFormed
<1>5. RollbackIsOwn' /\ LockReleased'
  <2>1. ASSUME NEW u \in Threads
        PROVE  pc'[u] = "persist" <=> pc[u] = "persist"
    BY <1>2 DEF TypeOK
  <2>2. \A u \in Threads : pc[u] = "persist" => req'[u] = req[u]
    BY <1>2 DEF TypeOK
  <2> QED
    BY <1>2, <2>1, <2>2, LocksUndisturbed
<1>6. HeldPointerSound'
  BY <1>2, <1>4, PointersKept, Zenon DEF RecordWellFormed
<1> QED
  BY <1>3, <1>4, <1>5, <1>6

(* The steps of ControllerPublishVolume that leave the map alone either    *)
(* answer or move on.                                                      *)
Answers(t) ==
  /\ pc[t] \in PublishPc \ {"persist"}
  /\ \E published \in BOOLEAN : Return(t, published, existing)
  /\ UNCHANGED <<am, rec, nodes, nodeCache, va>>

Moves(t, label, p) ==
  /\ pc[t] \in PublishPc \ {"persist"}
  /\ pc' = [pc EXCEPT ![t] = label]
  /\ existing' = [existing EXCEPT ![t] = p]
  /\ label \in HoldingPc <=> p # Nil
  /\ p \in {existing[t], Nil} \/ (p = Alias /\ attachments[req[t].vol] # Nil)
  /\ detachTimestamps' \in {detachTimestamps, [detachTimestamps EXCEPT ![req[t].vol] = "nil"]}
  /\ UNCHANGED <<attachments, volumeLocks, req, rec, cluster>>

LEMMA PublishReadSafety ==
  ASSUME SafetyInv, NEW t \in Threads,
         \/ PublishCheck(t) \/ PublishGet(t) \/ PublishAttached(t)
         \/ PublishCount(t) \/ PublishMigration(t)
         \/ PublishGrace(t) \/ PublishValidate(t) \/ ClearDetachTimestamp(t)
  PROVE  SafetyInv'
<1>1. Answers(t) => SafetyInv'
  BY AnswerSafety DEF Answers
<1>2. ASSUME NEW label \in PublishPc \ {"persist"}, NEW p, Moves(t, label, p) PROVE SafetyInv'
  <2>1. /\ detachTimestamps \in [Volumes -> Instants] /\ existing[t] \in Pointer
        /\ PointerSound(existing[t], req[t].vol)
    BY DEF SafetyInv, TypeOK, HeldPointerSound
  <2>2. req[t].vol \in Volumes
    BY <1>2, RequestFacts, ZenonT(30) DEF Moves, SafetyInv, PublishPc
  <2>3. PointerSound(p, req[t].vol) /\ p \in Pointer
    BY <1>2, <2>1, <2>2, ZenonT(30) DEF Moves, SafetyInv, RecordWellFormed, PointerSound, Deref, Pointer
  <2>4. detachTimestamps' \in [Volumes -> Instants]
    BY <1>2, <2>1 DEF Moves, Instants
  <2> QED
    BY <1>2, <2>3, <2>4, MoveSafety, ZenonT(40) DEF Moves
<1>3. /\ existing = [existing EXCEPT ![t] = existing[t]]
      /\ pc[t] \in HoldingPc <=> existing[t] # Nil
  BY DEF SafetyInv, TypeOK, HeldPointerSound
<1>4. {"get", "track", "attached", "count", "grace", "migration", "timedout", "add",
       "handoff", "validate", "heal"} \subseteq PublishPc \ {"persist"}
  BY DEF PublishPc
<1> USE <1>3 DEF Answers, Moves, Goto, Forget, am, handlers, cluster, PublishPc, HoldingPc
<1>5. CASE PublishCheck(t)
  <2>1. Answers(t) \/ Moves(t, "get", existing[t])
    BY <1>5, Zenon DEF PublishCheck
  <2> QED
    BY ONLY <1>1, <1>2, <1>4, <2>1
<1>6. CASE PublishGet(t)
  <2>1. Moves(t, "track", existing[t]) \/ Moves(t, "attached", Alias)
    BY <1>6, ConstantsAssumption DEF PublishGet
  <2> QED
    BY ONLY <1>1, <1>2, <1>4, <2>1
<1>7. CASE PublishAttached(t)
  <2>1. Answers(t) \/ Moves(t, "count", existing[t]) \/ Moves(t, "grace", existing[t])
    BY <1>7, Zenon DEF PublishAttached
  <2> QED
    BY ONLY <1>1, <1>2, <1>4, <2>1
<1>8. CASE PublishCount(t)
  <2>1. Answers(t) \/ Moves(t, "migration", existing[t])
    BY <1>8, Zenon DEF PublishCount
  <2> QED
    BY ONLY <1>1, <1>2, <1>4, <2>1
<1>9. CASE PublishMigration(t)
  <2>1. Answers(t) \/ Moves(t, "timedout", existing[t]) \/ Moves(t, "add", Nil)
    BY <1>9, Zenon DEF PublishMigration
  <2> QED
    BY ONLY <1>1, <1>2, <1>4, <2>1
<1>10. CASE PublishGrace(t)
  <2>1. Moves(t, "handoff", Nil) \/ Moves(t, "validate", existing[t])
    BY <1>10 DEF PublishGrace
  <2> QED
    BY ONLY <1>1, <1>2, <1>4, <2>1
<1>11. CASE PublishValidate(t)
  <2>1. Answers(t) \/ Moves(t, "heal", Nil)
    BY <1>11, Zenon DEF PublishValidate
  <2> QED
    BY ONLY <1>1, <1>2, <1>4, <2>1
<1>12. CASE ClearDetachTimestamp(t)
  <2>1. Moves(t, "track", existing[t])
    BY <1>12 DEF ClearDetachTimestamp
  <2> QED
    BY ONLY <1>1, <1>2, <1>4, <2>1, Zenon
<1> QED
  BY <1>5, <1>6, <1>7, <1>8, <1>9, <1>10, <1>11, <1>12

(* AddSecondaryAttachment needs the lock, so no entry that a persisting    *)
(* call may roll back gets a second node.                                  *)
LEMMA AddSecondarySafety ==
  ASSUME SafetyInv, NEW t \in Threads, AddSecondaryAttachment(t)
  PROVE  SafetyInv'
<1> DEFINE v == req[t].vol
           n == req[t].node
           s == attachments[v]
<1> USE DEF SafetyInv
<1>1. /\ pc[t] = "add" /\ volumeLocks[v] = Nil
      /\ v \in Volumes /\ n \in Node /\ req[t].lost \in BOOLEAN
  BY RequestFacts, ZenonT(30) DEF AddSecondaryAttachment, PublishPc
<1>2. /\ pc' = [pc EXCEPT ![t] = "idle"] /\ req' = [req EXCEPT ![t] = Nil]
      /\ existing' = [existing EXCEPT ![t] = Nil]
      /\ granted' \in {granted, [granted EXCEPT ![v] = @ \cup {n}]}
      /\ UNCHANGED <<detachTimestamps, volumeLocks, rec, nodes, nodeCache, va>>
  BY DEF AddSecondaryAttachment, Return, Goto
<1>3. \/ UNCHANGED attachments
      \/ /\ s # Nil /\ WithSecondary(s, n) \in AttachmentRecord
         /\ WellFormed(WithSecondary(s, n))
         /\ attachments' = [attachments EXCEPT ![v] = WithSecondary(s, n)]
  <2>1. CASE s # Nil /\ n \notin s.Nodes /\ NodeCount(s) < 2
    <3>1. s \in AttachmentRecord /\ WellFormed(s) /\ Cardinality(s.Nodes) < 2
      BY <1>1, <2>1 DEF TypeOK, RecordWellFormed, NodeCount
    <3> QED
      BY <1>1, <2>1, <3>1, WithSecondarySound, Zenon DEF AddSecondaryAttachment
  <2> QED
    BY <2>1, Zenon DEF AddSecondaryAttachment
<1>4. TypeOK'
  <2>1. attachments' \in [Volumes -> AttachmentRecord \cup {Nil}]
    BY <1>1, <1>3 DEF TypeOK
  <2>2. granted' \in [Volumes -> SUBSET Node]
    BY <1>1, <1>2 DEF TypeOK
  <2>3. /\ pc' \in [Threads -> PublishPc \cup {"idle", "remove"}]
        /\ req' \in [Threads -> Request \cup {Nil}]
        /\ existing' \in [Threads -> Pointer]
        /\ \A u \in Threads : /\ pc'[u] = "idle" <=> req'[u] = Nil
                              /\ pc'[u] \in PublishPc => req'[u].node \in Node
    BY <1>2 DEF TypeOK, PublishPc, Pointer
  <2> QED
    BY <1>2, <2>1, <2>2, <2>3 DEF TypeOK, rec
<1>5. RecordWellFormed'
  BY <1>1, <1>3 DEF TypeOK, RecordWellFormed
<1>6. RollbackIsOwn' /\ LockReleased'
  <2>1. volumeLocks' = [volumeLocks EXCEPT ![v] = Nil]
    BY <1>1, <1>2 DEF TypeOK
  <2>2. \A w \in Volumes \ {v} : attachments'[w] = attachments[w]
    BY <1>3 DEF TypeOK
  <2> QED
    BY <1>1, <1>2, <2>1, <2>2, LocksKept, Zenon
<1>7. HeldPointerSound'
  <2>1. \A w \in Volumes : attachments[w] # Nil => attachments'[w] # Nil
    BY <1>1, <1>3, ConstantsAssumption DEF TypeOK
  <2> QED
    BY <1>2, <1>5, <2>1, PointersKept, ZenonT(40) DEF RecordWellFormed
<1> QED
  BY <1>4, <1>5, <1>6, <1>7, ZenonT(30)

-----------------------------------------------------------------------------
(* The steps that write: the entry and its VolumeAttachment, the calls, the *)
(* reconciler and the environment.                                         *)

(* TrackAttachmentWithMode up to the API call: the entry it inserts and    *)
(* the lock it keeps are what RollbackIsOwn speaks of.                     *)
LEMMA TrackSafety ==
  ASSUME SafetyInv, NEW t \in Threads, TrackAttachment(t)
  PROVE  SafetyInv'
<1> DEFINE v == req[t].vol
           n == req[t].node
           s == NewRecord(n, ModeOf[v])
<1> USE DEF SafetyInv
<1>1. /\ pc[t] = "track" /\ volumeLocks[v] = Nil
      /\ v \in Volumes /\ n \in Node
  BY RequestFacts DEF TrackAttachment, PublishPc
<1>2. CASE attachments[v] # Nil
  <2>1. (n \in attachments[v].Nodes) \in BOOLEAN
    OBVIOUS
  <2>2. PICK published \in BOOLEAN : /\ Return(t, published, existing)
                                    /\ UNCHANGED <<am, rec, nodes, nodeCache, va>>
    BY <1>2, <2>1, ZenonT(40) DEF TrackAttachment, am
  <2>3. pc[t] \in PublishPc \ {"persist"}
    BY <1>1 DEF PublishPc
  <2> QED
    BY <2>2, <2>3, AnswerSafety
<1>3. CASE attachments[v] = Nil
  <2>1. s \in AttachmentRecord /\ WellFormed(s) /\ s # Nil
    <3>1. ModeOf[v] \in AccessModes
      BY <1>1, ConstantsAssumption, Zenon
    <3> QED
      BY <1>1, <3>1, NewRecordSound, ConstantsAssumption, Zenon
  <2>2. /\ attachments' = [attachments EXCEPT ![v] = s]
        /\ volumeLocks' = [volumeLocks EXCEPT ![v] = t]
        /\ pc' = [pc EXCEPT ![t] = "persist"]
        /\ UNCHANGED <<req, existing, detachTimestamps, rec, cluster>>
    BY <1>3 DEF TrackAttachment, Goto, cluster
  <2>3. TypeOK'
    BY <1>1, <2>1, <2>2 DEF TypeOK, PublishPc, rec, cluster
  <2>4. RecordWellFormed'
    BY <1>1, <2>1, <2>2, Zenon DEF TypeOK, RecordWellFormed
  <2>5. RollbackIsOwn' /\ LockReleased'
    <3>1. ASSUME NEW u \in Threads, pc'[u] = "persist"
          PROVE  /\ volumeLocks'[req[u].vol] = u
                 /\ attachments'[req[u].vol] = NewRecord(req[u].node, ModeOf[req[u].vol])
      <4>1. CASE u = t
        BY <1>1, <2>2, <4>1 DEF TypeOK
      <4>2. CASE u # t
        <5>1. pc[u] = "persist" /\ req[u].vol \in Volumes
          BY <2>2, <3>1, <4>2, RequestFacts DEF TypeOK
        <5>2. volumeLocks[req[u].vol] = u /\ req[u].vol # v
          BY <1>1, <5>1, ConstantsAssumption DEF RollbackIsOwn
        <5> QED
          BY <2>2, <5>1, <5>2 DEF TypeOK, RollbackIsOwn
      <4> QED
        BY <4>1, <4>2
    <3>2. ASSUME NEW w \in Volumes, volumeLocks'[w] # Nil
          PROVE  pc'[volumeLocks'[w]] = "persist" /\ req[volumeLocks'[w]].vol = w
      <4>1. CASE w = v
        BY <1>1, <2>2, <4>1 DEF TypeOK
      <4>2. CASE w # v
        <5>1. PICK u \in Threads : u = volumeLocks[w] /\ u = volumeLocks'[w]
          BY <2>2, <3>2, <4>2 DEF TypeOK
        <5>2. pc[u] = "persist" /\ req[u].vol = w
          BY <5>1, <3>2, Zenon DEF LockReleased
        <5> QED
          BY <2>2, <5>1, <5>2 DEF TypeOK
      <4> QED
        BY <4>1, <4>2, ZenonT(30)
    <3> QED
      BY <2>2, <3>1, <3>2 DEF RollbackIsOwn, LockReleased
  <2>6. HeldPointerSound'
    BY <1>1, <1>3, <2>2, RequestFacts, ConstantsAssumption, ZenonT(40)
       DEF TypeOK, HeldPointerSound, PointerSound, Deref, HoldingPc, rec
  <2> QED
    BY <2>3, <2>4, <2>5, <2>6
<1> QED
  BY <1>2, <1>3, ZenonT(30)

(* The end of TrackAttachmentWithMode, with or without the rollback. *)
LEMMA PersistSafety ==
  ASSUME SafetyInv, NEW t \in Threads, PersistAttachment(t)
  PROVE  SafetyInv'
<1> DEFINE v == req[t].vol
           n == req[t].node
<1> USE DEF SafetyInv
<1>1. pc[t] = "persist" /\ v \in Volumes /\ n \in Node /\ volumeLocks[v] = t
  BY RequestFacts DEF PersistAttachment, PublishPc, RollbackIsOwn
<1>2. /\ pc' = [pc EXCEPT ![t] = "idle"] /\ req' = [req EXCEPT ![t] = Nil]
      /\ volumeLocks' = [volumeLocks EXCEPT ![v] = Nil]
      /\ granted' \in {granted, [granted EXCEPT ![v] = @ \cup {n}]}
      /\ UNCHANGED <<detachTimestamps, recPc, recVol, nodes, nodeCache, va>>
  BY DEF PersistAttachment, Return, Goto
<1>3. \/ /\ UNCHANGED <<attachments, listed>>
         /\ existing' = [existing EXCEPT ![t] = Nil]
      \/ /\ attachments' = [attachments EXCEPT ![v] = Nil]
         /\ listed' = OrphanListed(v)
         /\ existing' = [OrphanExisting(v) EXCEPT ![t] = Nil]
  BY DEF PersistAttachment, Return
<1>4. RecordWellFormed'
  BY <1>1, <1>3 DEF TypeOK, RecordWellFormed
<1>5. /\ HeldPointerSound'
      /\ existing' \in [Threads -> Pointer] /\ listed' \in [Volumes -> Pointer]
  <2>1. CASE UNCHANGED <<attachments, listed>> /\ existing' = [existing EXCEPT ![t] = Nil]
    BY <1>2, <1>4, <2>1, PointersKept, Zenon DEF TypeOK, RecordWellFormed, rec, Pointer
  <2> QED
    BY <1>1, <1>2, <1>3, <2>1, PointersOrphaned, Zenon
<1>6. TypeOK'
  <2>1. attachments' \in [Volumes -> AttachmentRecord \cup {Nil}]
    BY <1>1, <1>3, Zenon DEF TypeOK
  <2>2. /\ pc' \in [Threads -> PublishPc \cup {"idle", "remove"}]
        /\ req' \in [Threads -> Request \cup {Nil}]
        /\ \A u \in Threads : /\ pc'[u] = "idle" <=> req'[u] = Nil
                              /\ pc'[u] \in PublishPc => req'[u].node \in Node
    BY <1>2 DEF TypeOK, PublishPc
  <2>3. /\ volumeLocks' \in [Volumes -> Threads \cup {Nil}]
        /\ detachTimestamps' \in [Volumes -> Instants]
        /\ granted' \in [Volumes -> SUBSET Node] /\ va' \in [Volumes -> SUBSET Node]
    BY <1>1, <1>2 DEF TypeOK
  <2> QED
    BY <1>2, <1>5, <2>1, <2>2, <2>3 DEF TypeOK
<1>7. RollbackIsOwn' /\ LockReleased'
  <2>1. \A w \in Volumes \ {v} : attachments'[w] = attachments[w]
    BY <1>3, ZenonT(30) DEF TypeOK
  <2> QED
    BY <1>1, <1>2, <2>1, LocksKept, ZenonT(40)
<1> QED
  BY <1>4, <1>5, <1>6, <1>7

(* RemoveNodeAttachment, for one of two nodes, the last one, or a node the *)
(* volume is not tracked for.                                              *)
LEMMA RemoveSafety ==
  ASSUME SafetyInv, NEW t \in Threads, RemoveNodeAttachment(t)
  PROVE  SafetyInv'
<1> DEFINE v == req[t].vol
           n == req[t].node
           s == attachments[v]
<1> USE DEF SafetyInv
<1>1. /\ pc[t] = "remove" /\ volumeLocks[v] = Nil
      /\ v \in Volumes /\ n \in Node \cup {Nil}
  BY RequestFacts DEF RemoveNodeAttachment
<1>2. /\ pc' = [pc EXCEPT ![t] = "idle"] /\ req' = [req EXCEPT ![t] = Nil]
      /\ UNCHANGED <<volumeLocks, recPc, recVol, nodes, nodeCache, granted>>
      /\ detachTimestamps' \in {detachTimestamps, [detachTimestamps EXCEPT ![v] = "recent"]}
      /\ va' \in {va, [va EXCEPT ![v] = {}], [va EXCEPT ![v] = @ \ {n}]}
  BY ZenonT(40) DEF RemoveNodeAttachment, Return, Goto
<1>3. \/ /\ attachments' = [attachments EXCEPT ![v] = Nil]
         /\ listed' = OrphanListed(v)
         /\ existing' = [OrphanExisting(v) EXCEPT ![t] = Nil]
      \/ /\ UNCHANGED listed
         /\ existing' = [existing EXCEPT ![t] = Nil]
         /\ \/ UNCHANGED attachments
            \/ /\ s # Nil /\ WithoutNode(s, n) \in AttachmentRecord
               /\ WellFormed(WithoutNode(s, n))
               /\ attachments' = [attachments EXCEPT ![v] = WithoutNode(s, n)]
  <2>1. CASE ~IsAttachedToNode(s, n)
    BY <2>1, Zenon DEF RemoveNodeAttachment, Return, IsAttachedToNode
  <2>2. CASE IsAttachedToNode(s, n)
    <3>1. s # Nil /\ s \in AttachmentRecord /\ WellFormed(s) /\ n \in s.Nodes
      BY <1>1, <2>2, ZenonT(30) DEF TypeOK, RecordWellFormed, IsAttachedToNode
    <3> QED
      BY <2>2, <3>1, WithoutNodeSound, Zenon DEF RemoveNodeAttachment, Return
  <2> QED
    BY <2>1, <2>2
<1>4. RecordWellFormed'
  BY <1>1, <1>3 DEF TypeOK, RecordWellFormed
<1>5. /\ HeldPointerSound'
      /\ existing' \in [Threads -> Pointer] /\ listed' \in [Volumes -> Pointer]
  <2>1. CASE /\ attachments' = [attachments EXCEPT ![v] = Nil]
             /\ listed' = OrphanListed(v)
             /\ existing' = [OrphanExisting(v) EXCEPT ![t] = Nil]
    BY <1>1, <1>2, <2>1, PointersOrphaned, Zenon
  <2>2. CASE /\ UNCHANGED listed
             /\ existing' = [existing EXCEPT ![t] = Nil]
             /\ \A w \in Volumes : attachments[w] # Nil => attachments'[w] # Nil
    BY <1>2, <1>4, <2>2, PointersKept, ZenonT(40) DEF TypeOK, RecordWellFormed, rec, Pointer
  <2>3. CASE UNCHANGED attachments \/ \E r \in AttachmentRecord : attachments' = [attachments EXCEPT ![v] = r]
    <3>1. \A w \in Volumes : attachments[w] # Nil => attachments'[w] # Nil
      BY <1>1, <2>3, ConstantsAssumption DEF TypeOK
    <3> QED
      BY <1>3, <2>1, <2>2, <3>1, Zenon
  <2> QED
    BY <1>3, <2>1, <2>3
<1>6. TypeOK'
  <2>1. attachments' \in [Volumes -> AttachmentRecord \cup {Nil}]
    BY <1>1, <1>3 DEF TypeOK
  <2>2. /\ pc' \in [Threads -> PublishPc \cup {"idle", "remove"}]
        /\ req' \in [Threads -> Request \cup {Nil}]
        /\ \A u \in Threads : /\ pc'[u] = "idle" <=> req'[u] = Nil
                              /\ pc'[u] \in PublishPc => req'[u].node \in Node
    BY <1>2 DEF TypeOK, PublishPc
  <2>3. /\ volumeLocks' \in [Volumes -> Threads \cup {Nil}]
        /\ detachTimestamps' \in [Volumes -> Instants]
        /\ granted' \in [Volumes -> SUBSET Node] /\ va' \in [Volumes -> SUBSET Node]
    BY <1>1, <1>2 DEF TypeOK, Instants
  <2> QED
    BY <1>2, <1>5, <2>1, <2>2, <2>3, Zenon DEF TypeOK
<1>7. RollbackIsOwn' /\ LockReleased'
  <2>1. volumeLocks' = [volumeLocks EXCEPT ![v] = Nil]
    BY <1>1, <1>2 DEF TypeOK
  <2>2. \A w \in Volumes \ {v} : attachments'[w] = attachments[w]
    BY <1>3 DEF TypeOK
  <2> QED
    BY <1>1, <1>2, <2>1, <2>2, LocksKept, Zenon
<1> QED
  BY <1>4, <1>5, <1>6, <1>7

(* A new call disturbs nothing that is tracked.                            *)
LEMMA CallSafety ==
  ASSUME SafetyInv, NEW t \in Threads, NEW v \in Volumes,
         \/ \E n \in Node : PublishStart(t, v, n)
         \/ \E n \in Node \cup {Nil} : UnpublishStart(t, v, n)
  PROVE  SafetyInv'
<1> USE DEF SafetyInv
<1>1. PICK n \in Node \cup {Nil}, label \in {"check", "remove"} :
        /\ pc[t] = "idle" /\ pc' = [pc EXCEPT ![t] = label]
        /\ label = "check" => n \in Node
        /\ req' = [req EXCEPT ![t] = [vol |-> v, node |-> n, lost |-> FALSE]]
        /\ UNCHANGED <<existing, am, rec, nodes, nodeCache, va>>
        /\ granted' \in {granted, [granted EXCEPT ![v] = {}], [granted EXCEPT ![v] = @ \ {n}]}
  BY ZenonT(30) DEF PublishStart, UnpublishStart, MayCall, Call, Goto
<1>2. [vol |-> v, node |-> n, lost |-> FALSE] \in Request
  BY DEF Request
<1>3. [vol |-> v, node |-> n, lost |-> FALSE] # Nil
  BY ConstantsAssumption, <1>2, ZenonT(40)
<1>4. TypeOK'
  <2>1. granted' \in [Volumes -> SUBSET Node]
    BY <1>1 DEF TypeOK
  <2>2. /\ pc' \in [Threads -> PublishPc \cup {"idle", "remove"}]
        /\ req' \in [Threads -> Request \cup {Nil}]
    BY <1>1, <1>2, ZenonT(30) DEF TypeOK, PublishPc
  <2>3. \A u \in Threads : /\ pc'[u] = "idle" <=> req'[u] = Nil
                           /\ pc'[u] \in PublishPc => req'[u].node \in Node
    BY <1>1, <1>3 DEF TypeOK, PublishPc
  <2> QED
    BY <1>1, <2>1, <2>2, <2>3 DEF TypeOK, am, rec
<1>5. RecordWellFormed'
  BY <1>1, Zenon DEF RecordWellFormed, am
<1>6. RollbackIsOwn' /\ LockReleased'
  <2>1. ASSUME NEW u \in Threads
        PROVE  /\ pc'[u] = "persist" <=> pc[u] = "persist"
               /\ pc[u] = "persist" => req'[u] = req[u]
    BY <1>1 DEF TypeOK
  <2>2. UNCHANGED <<attachments, volumeLocks>>
    BY <1>1 DEF am
  <2> QED
    BY <2>1, <2>2, LocksUndisturbed
<1>7. HeldPointerSound'
  <2>1. existing[t] = Nil
    BY <1>1, ZenonT(40) DEF HeldPointerSound, HoldingPc
  <2> QED
    BY <1>1, <2>1 DEF TypeOK, HeldPointerSound, PointerSound, HoldingPc, Deref, am, rec
<1> QED
  BY <1>4, <1>5, <1>6, <1>7

(* The reconciler's pass: it reads the map through the pointers of its     *)
(* list, and drops entries whose lock is free.                             *)
LEMMA ReconcileSafety ==
  ASSUME SafetyInv, ReconcileList \/ ReconcileStep
  PROVE  SafetyInv'
<1> USE DEF SafetyInv
<1>1. CASE /\ UNCHANGED <<am, handlers, cluster>>
           /\ \/ ReconcileList \/ \E v \in Volumes : ReconcileNodeExists(v)
              \/ ReconcileGrace \/ ReconcileDone
  <2>1. RecordWellFormed' /\ RollbackIsOwn' /\ LockReleased'
    BY <1>1 DEF am, handlers, RecordWellFormed, RollbackIsOwn, LockReleased
  <2>2. /\ recPc' \in {"idle", "scan", "grace", "untrack"}
        /\ recVol' \in Volumes \cup {Nil} /\ listed' \in [Volumes -> Pointer]
        /\ recPc' \in {"grace", "untrack"} <=> recVol' # Nil
        /\ recVol' # Nil => listed'[recVol'] # Nil
        /\ \A v \in Volumes : listed'[v] \in {Nil, listed[v]} \/ (listed'[v] = Alias /\ attachments[v] # Nil)
    <3>1. CASE ReconcileList
      BY <3>1 DEF ReconcileList, TypeOK, Pointer, HeldPointerSound
    <3>2. ASSUME NEW v \in Volumes, ReconcileNodeExists(v)
          PROVE  /\ listed' \in {listed, [listed EXCEPT ![v] = Nil]}
                 /\ \/ recPc' = "scan" /\ recVol' = Nil
                    \/ recPc' = "grace" /\ recVol' = v /\ listed'[v] # Nil
      BY <3>2 DEF ReconcileNodeExists, TypeOK, HeldPointerSound
    <3>3. CASE ReconcileGrace
      BY <3>3, ConstantsAssumption DEF ReconcileGrace, TypeOK, Pointer, HeldPointerSound
    <3>4. CASE ReconcileDone
      BY <3>4 DEF ReconcileDone, TypeOK, HeldPointerSound
    <3>5. CASE \E v \in Volumes : ReconcileNodeExists(v)
      <4>1. PICK v \in Volumes : ReconcileNodeExists(v)
        BY <3>5
      <4>2. listed' \in [Volumes -> Pointer] /\ \A w \in Volumes : listed'[w] \in {Nil, listed[w]}
        BY <3>2, <4>1 DEF TypeOK, Pointer
      <4> QED
        BY <3>2, <4>1, <4>2, ConstantsAssumption
    <3> QED
      BY <1>1, <3>1, <3>3, <3>4, <3>5
  <2>3. TypeOK'
    BY <1>1, <2>2, Zenon DEF TypeOK, am, handlers, cluster
  <2>4. HeldPointerSound'
    BY <1>1, <2>2, ConstantsAssumption, Zenon DEF HeldPointerSound, PointerSound, Deref, am, handlers, RecordWellFormed
  <2> QED
    BY <2>1, <2>3, <2>4, ZenonT(30)
<1>2. CASE ReconcileUntrack
  <2>1. /\ recVol \in Volumes /\ volumeLocks[recVol] = Nil
        /\ attachments' = [attachments EXCEPT ![recVol] = Nil]
        /\ detachTimestamps' \in {detachTimestamps, [detachTimestamps EXCEPT ![recVol] = "recent"]}
        /\ existing' = OrphanExisting(recVol)
        /\ listed' = [listed EXCEPT ![recVol] = Nil]
        /\ recPc' = "scan" /\ recVol' = Nil
        /\ UNCHANGED <<volumeLocks, pc, req, cluster>>
    BY <1>2 DEF ReconcileUntrack, UntrackAttachment, TypeOK, HeldPointerSound
  <2>2. /\ RecordWellFormed' /\ RollbackIsOwn' /\ LockReleased'
        /\ existing' \in [Threads -> Pointer]
        /\ \A u \in Threads : /\ pc'[u] \in HoldingPc <=> existing'[u] # Nil
                              /\ PointerSound(existing[u], req[u].vol)'
    BY <2>1, EntryDropped, Zenon
  <2>5. ASSUME NEW w \in Volumes
        PROVE  listed'[w] \in Pointer /\ PointerSound(listed[w], w)'
    BY <2>1, ZenonT(30) DEF TypeOK, HeldPointerSound, PointerSound, Deref, Pointer
  <2>6. TypeOK'
    <3>1. attachments' \in [Volumes -> AttachmentRecord \cup {Nil}]
      BY <2>1 DEF TypeOK
    <3>2. detachTimestamps' \in [Volumes -> Instants] /\ listed' \in [Volumes -> Pointer]
      BY <2>1, <2>5, Zenon DEF TypeOK, Instants
    <3> QED
      BY <2>1, <2>2, <3>1, <3>2 DEF TypeOK, cluster
  <2>7. HeldPointerSound'
    BY <2>1, <2>2, <2>5 DEF HeldPointerSound
  <2> QED
    BY <2>2, <2>6, <2>7, Zenon
<1> QED
  BY <1>1, <1>2 DEF ReconcileList, ReconcileStep, ReconcileNodeExists, ReconcileGrace, ReconcileDone

(* A new process starts from what the VolumeAttachments say.               *)
LEMMA RebootSafety ==
  ASSUME SafetyInv, Reboot
  PROVE  SafetyInv'
<1> USE DEF SafetyInv
<1>1. ASSUME NEW v \in Volumes
      PROVE  attachments'[v] = Nil \/ ( /\ attachments'[v] \in AttachmentRecord
                                        /\ WellFormed(attachments'[v]) )
  <2>1. va[v] \in SUBSET Node /\ ModeOf[v] \in AccessModes /\ "RWO" \in AccessModes
    BY ConstantsAssumption DEF TypeOK, AccessModes
  <2>2. CASE attachments'[v] \in RebuildStateFromVolumeAttachments(v) /\ va[v] # {}
    <3>1. \E mode \in AccessModes : attachments'[v] \in RebuiltRecords(va[v], mode)
      BY <2>1, <2>2 DEF RebuildStateFromVolumeAttachments
    <3> QED
      BY <2>1, <2>2, <3>1, RebuiltSound, ZenonT(40)
  <2>3. CASE attachments'[v] \in RebuildStateFromVolumeAttachments(v) /\ va[v] = {}
    BY <2>3 DEF RebuildStateFromVolumeAttachments
  <2> QED
    BY <2>2, <2>3, ZenonT(30) DEF Reboot
<1>2. attachments' \in [Volumes -> AttachmentRecord \cup {Nil}]
  <2>1. attachments' = [v \in Volumes |-> attachments'[v]]
    BY DEF Reboot
  <2> QED
    BY <1>1, <2>1
<1>3. TypeOK'
  BY <1>2 DEF Reboot, TypeOK, Instants, Pointer, PublishPc
<1>4. RecordWellFormed'
  BY <1>1 DEF RecordWellFormed
<1>5. RollbackIsOwn' /\ LockReleased' /\ HeldPointerSound'
  BY ConstantsAssumption
     DEF Reboot, RollbackIsOwn, LockReleased, HeldPointerSound, PointerSound, HoldingPc
<1> QED
  BY <1>3, <1>4, <1>5

LEMMA TimedOutSafety ==
  ASSUME SafetyInv, NEW t \in Threads, PublishTimedOut(t)
  PROVE  SafetyInv'
<1>1. CASE Reboot
  BY <1>1, RebootSafety
<1>2. CASE pc[t] = "timedout" /\ Return(t, FALSE, existing) /\ UNCHANGED <<am, rec, nodes, nodeCache, va>>
  BY <1>2, AnswerSafety, Zenon DEF PublishPc
<1> QED
  BY <1>1, <1>2, Zenon DEF PublishTimedOut

(* The cluster and the clock.  Only MigrationExpires and Restart change    *)
(* the map.                                                                *)
LEMMA EnvironmentSafety ==
  ASSUME SafetyInv, Environment
  PROVE  SafetyInv'
<1> USE DEF SafetyInv
<1>1. CASE /\ UNCHANGED <<attachments, volumeLocks, handlers, rec>>
           /\ detachTimestamps' \in [Volumes -> Instants]
           /\ nodes' \subseteq Node /\ nodeCache' \subseteq Node
           /\ va' \in [Volumes -> SUBSET Node] /\ granted' \in [Volumes -> SUBSET Node]
  <2>1. TypeOK'
    BY <1>1 DEF TypeOK, handlers, rec
  <2>2. RecordWellFormed' /\ RollbackIsOwn' /\ LockReleased' /\ HeldPointerSound'
    BY <1>1, Zenon DEF RecordWellFormed, RollbackIsOwn, LockReleased, HeldPointerSound,
                PointerSound, Deref, handlers, rec
  <2> QED
    BY <2>1, <2>2
<1>2. ASSUME NEW v \in Volumes, MarkAttached(v) \/ GraceExpires(v) PROVE SafetyInv'
  <2>1. /\ UNCHANGED <<attachments, volumeLocks, handlers, rec>>
        /\ detachTimestamps' \in [Volumes -> Instants]
        /\ nodes' \subseteq Node /\ nodeCache' \subseteq Node
        /\ va' \in [Volumes -> SUBSET Node] /\ granted' \in [Volumes -> SUBSET Node]
    BY <1>2 DEF MarkAttached, GraceExpires, TypeOK, Instants, am, cluster
  <2> QED
    BY <1>1, <2>1
<1>3. ASSUME NEW n \in Node, NodeDelete(n) \/ NodeCreate(n) PROVE SafetyInv'
  <2>1. /\ UNCHANGED <<attachments, volumeLocks, handlers, rec>>
        /\ detachTimestamps' \in [Volumes -> Instants]
        /\ nodes' \subseteq Node /\ nodeCache' \subseteq Node
        /\ va' \in [Volumes -> SUBSET Node] /\ granted' \in [Volumes -> SUBSET Node]
    BY <1>3 DEF NodeDelete, NodeCreate, TypeOK, am
  <2> QED
    BY <1>1, <2>1
<1>4. CASE InformerSync
  <2>1. /\ UNCHANGED <<attachments, volumeLocks, handlers, rec>>
        /\ detachTimestamps' \in [Volumes -> Instants]
        /\ nodes' \subseteq Node /\ nodeCache' \subseteq Node
        /\ va' \in [Volumes -> SUBSET Node] /\ granted' \in [Volumes -> SUBSET Node]
    BY <1>4 DEF InformerSync, TypeOK, am
  <2> QED
    BY <1>1, <2>1
<1>5. ASSUME NEW t \in Threads, CallTimeout(t) PROVE SafetyInv'
  <2>1. /\ pc[t] # "idle" /\ req[t] \in Request /\ req[t] # Nil
        /\ req' = [req EXCEPT ![t].lost = TRUE]
        /\ UNCHANGED <<pc, existing, am, rec, cluster>>
    BY <1>5, RequestFacts DEF CallTimeout, PublishPc
  <2>2. /\ req'[t] \in Request /\ req'[t] # Nil
        /\ req'[t].vol = req[t].vol /\ req'[t].node = req[t].node
        /\ \A u \in Threads \ {t} : req'[u] = req[u]
    <3>1. /\ req'[t] = [req[t] EXCEPT !.lost = TRUE]
          /\ \A u \in Threads \ {t} : req'[u] = req[u]
      BY <2>1 DEF TypeOK
    <3>2. /\ [req[t] EXCEPT !.lost = TRUE] \in Request
          /\ [req[t] EXCEPT !.lost = TRUE].vol = req[t].vol
          /\ [req[t] EXCEPT !.lost = TRUE].node = req[t].node
      BY <2>1, Zenon DEF Request
    <3> QED
      BY <3>1, <3>2, ConstantsAssumption, Zenon
  <2>3. TypeOK'
    BY <2>1, <2>2 DEF TypeOK, am, rec, cluster
  <2>4. RecordWellFormed' /\ RollbackIsOwn' /\ LockReleased'
    <3>1. UNCHANGED <<attachments, volumeLocks, pc>>
      BY <2>1 DEF am
    <3>2. \A u \in Threads : req'[u].vol = req[u].vol /\ req'[u].node = req[u].node
      BY <2>2
    <3> QED
      BY <3>1, <3>2, LocksUndisturbed DEF RecordWellFormed
  <2>5. HeldPointerSound'
    BY <2>1, <2>2 DEF HeldPointerSound, PointerSound, Deref, am, rec
  <2> QED
    BY <2>3, <2>4, <2>5
<1>6. ASSUME NEW v \in Volumes, MigrationExpires(v) PROVE SafetyInv'
  <2> DEFINE s == attachments[v]
             x == [s EXCEPT !.MigrationStartedAt = "past"]
  <2>1. /\ s # Nil /\ s.MigrationStartedAt = "recent" /\ attachments' = [attachments EXCEPT ![v] = x]
        /\ UNCHANGED <<detachTimestamps, volumeLocks, handlers, rec, cluster>>
    BY <1>6 DEF MigrationExpires, TypeOK
  <2>2. s \in AttachmentRecord /\ WellFormed(s)
    BY <1>6, <2>1 DEF TypeOK, RecordWellFormed
  <2>3. x \in AttachmentRecord /\ WellFormed(x) /\ x # Nil
    <3>1. x \in AttachmentRecord
      BY <2>2 DEF AttachmentRecord, Instants
    <3>2. WellFormed(x)
      BY <2>1, <2>2 DEF AttachmentRecord, WellFormed
    <3> QED
      BY <3>1, <3>2, ConstantsAssumption
  <2> HIDE DEF x
  <2>4. TypeOK'
    BY <1>6, <2>1, <2>3 DEF TypeOK, handlers, rec, cluster
  <2>5. RecordWellFormed'
    BY <1>6, <2>1, <2>3 DEF TypeOK, RecordWellFormed
  <2>6. RollbackIsOwn' /\ LockReleased'
    <3>1. \A n, mode : s # NewRecord(n, mode)
      BY <2>1 DEF NewRecord
    <3>2. volumeLocks[v] = Nil
      <4>1. SUFFICES ASSUME volumeLocks[v] # Nil PROVE FALSE
        OBVIOUS
      <4>2. PICK u \in Threads : u = volumeLocks[v]
        BY <1>6, <4>1 DEF TypeOK
      <4>3. pc[u] = "persist" /\ req[u].vol = v
        BY <1>6, <4>1, <4>2 DEF LockReleased
      <4> QED
        BY <3>1, <4>3 DEF RollbackIsOwn
    <3>3. \A w \in Volumes : volumeLocks[w] # Nil => attachments'[w] = attachments[w]
      BY <2>1, <3>2 DEF TypeOK
    <3>4. UNCHANGED <<volumeLocks, pc, req>>
      BY <2>1 DEF handlers
    <3> QED
      BY <3>3, <3>4, LocksUndisturbed
  <2>7. HeldPointerSound'
    <3>1. ASSUME NEW p, NEW w, PointerSound(p, w), w \in Volumes \/ p = Nil
          PROVE  PointerSound(p, w)'
      <4>1. p = Alias => attachments'[w] = IF w = v THEN x ELSE attachments[w]
        BY <2>1, <3>1, ConstantsAssumption, ZenonT(30) DEF TypeOK
      <4> QED
        BY <2>3, <3>1, <4>1, ZenonT(30) DEF PointerSound, Deref
    <3>2. \A u \in Threads : req[u].vol \in Volumes \/ existing[u] = Nil
      BY RequestFacts DEF HeldPointerSound, HoldingPc
    <3>3. UNCHANGED <<pc, req, existing, recPc, recVol, listed>>
      BY <2>1 DEF handlers, rec
    <3> QED
      BY <3>1, <3>2, <3>3 DEF HeldPointerSound
  <2> QED
    BY <2>4, <2>5, <2>6, <2>7
<1>7. CASE Restart
  BY <1>7, RebootSafety DEF Restart
<1> QED
  BY <1>2, <1>3, <1>4, <1>5, <1>6, <1>7 DEF Environment

(* Whatever fails in the cluster, every state the controller reaches is    *)
(* type correct, has only well-formed records, rolls back only what the    *)
(* failing call inserted, has every lock held by a persisting call, and    *)
(* leaves no goroutine with a pointer it must not follow.                  *)
THEOREM Safety == Spec => []SafetyInv
<1>1. SafetyInv /\ [Next]_vars => SafetyInv'
  <2> SUFFICES ASSUME SafetyInv, [Next]_vars PROVE SafetyInv'
    OBVIOUS
  <2>1. CASE UNCHANGED vars
    BY <2>1, ZenonT(30) DEF vars, am, handlers, rec, cluster, SafetyInv, TypeOK, RecordWellFormed,
       RollbackIsOwn, LockReleased, HeldPointerSound, PointerSound, Deref
  <2>2. ASSUME NEW t \in Threads, HandlerStep(t) PROVE SafetyInv'
    BY <2>2, PublishReadSafety, TimedOutSafety, UntrackSafety, AddSecondarySafety, TrackSafety,
       PersistSafety, RemoveSafety DEF HandlerStep, PublishStep
  <2> QED
    BY <2>1, <2>2, CallSafety, ReconcileSafety, EnvironmentSafety DEF Next
<1> QED
  BY InitSafety, <1>1, PTL DEF Spec

(* The type invariant: no interleaving of calls, reconciler passes,        *)
(* timeouts and restarts leaves a handler or the manager in a state that   *)
(* has no meaning for the code.                                            *)
THEOREM TypeCorrect == Spec => []TypeOK
  BY Safety, PTL DEF SafetyInv

(* TrackAttachmentWithMode, AddSecondaryAttachment, RemoveNodeAttachment   *)
(* and rebuildVolumeState keep every record well formed.                   *)
THEOREM RecordsStayWellFormed == Spec => []RecordWellFormed
  BY Safety, PTL DEF SafetyInv

(* The rollback of TrackAttachmentWithMode deletes only what the failing   *)
(* call inserted.                                                          *)
THEOREM RollbackOnlyOwn == Spec => []RollbackIsOwn
  BY Safety, PTL DEF SafetyInv

(* No path through the manager leaves a per-volume lock behind.            *)
THEOREM LocksReleased == Spec => []LockReleased
  BY Safety, PTL DEF SafetyInv

(* ControllerPublishVolume and the reconciler never follow a nil pointer,  *)
(* nor one to a record without nodes.                                      *)
THEOREM HeldPointersSound == Spec => []HeldPointerSound
  BY Safety, PTL DEF SafetyInv

(* The steps that change the map. *)
LEMMA MapSteps ==
  ASSUME Next
  PROVE  \/ UNCHANGED attachments
         \/ \E t \in Threads :
              \/ AddSecondaryAttachment(t) \/ PublishHandoff(t) \/ PublishHeal(t)
              \/ TrackAttachment(t) \/ RemoveNodeAttachment(t) \/ PersistAttachment(t)
         \/ ReconcileUntrack \/ Reboot
         \/ \E w \in Volumes : MigrationExpires(w)
<1>1. ASSUME NEW t \in Threads,
             \/ PublishCheck(t) \/ PublishGet(t) \/ PublishAttached(t) \/ PublishCount(t)
             \/ PublishMigration(t) \/ PublishGrace(t) \/ PublishValidate(t)
             \/ ClearDetachTimestamp(t) \/ PublishTimedOut(t)
      PROVE  UNCHANGED attachments \/ Reboot
  BY <1>1, ZenonT(40) DEF PublishTimedOut, PublishCheck, PublishGet, PublishAttached, PublishCount, PublishMigration,
              PublishGrace, PublishValidate, ClearDetachTimestamp, am
<1>2. ASSUME \/ \E t \in Threads, w \in Volumes, n \in Node : PublishStart(t, w, n)
             \/ \E t \in Threads, w \in Volumes, n \in Node \cup {Nil} :
                  UnpublishStart(t, w, n)
             \/ ReconcileList \/ ReconcileGrace \/ ReconcileDone
             \/ \E w \in Volumes : ReconcileNodeExists(w)
      PROVE  UNCHANGED attachments
  BY <1>2, Zenon DEF PublishStart, UnpublishStart, Call, ReconcileList, ReconcileGrace,
              ReconcileDone, ReconcileNodeExists, am
<1>3. ASSUME \/ \E w \in Volumes : MarkAttached(w) \/ GraceExpires(w)
             \/ \E t \in Threads : CallTimeout(t)
             \/ \E n \in Node : NodeDelete(n) \/ NodeCreate(n)
             \/ InformerSync
      PROVE  UNCHANGED attachments
  BY <1>3 DEF MarkAttached, GraceExpires, CallTimeout, NodeDelete, NodeCreate,
              InformerSync, am
<1> QED
  BY <1>1, <1>2, <1>3, ZenonT(40) DEF Next, HandlerStep, PublishStep, ReconcileStep, Environment, Restart

(* Only the holder of the per-volume lock changes the volume's entry; the  *)
(* migration clock cannot run in an entry that is still being persisted.   *)
THEOREM LockedEntriesStable == Spec => LockedEntryStable
<1> DEFINE Stable == \A v \in Volumes :
             volumeLocks[v] # Nil /\ volumeLocks'[v] = volumeLocks[v]
               => attachments'[v] = attachments[v]
<1>1. SafetyInv /\ [Next]_vars => [Stable]_vars
  <2> SUFFICES ASSUME SafetyInv, Next, NEW v \in Volumes,
                      volumeLocks[v] # Nil, volumeLocks'[v] = volumeLocks[v]
               PROVE  attachments'[v] = attachments[v]
    OBVIOUS
  <2>1. CASE UNCHANGED attachments
    BY <2>1
  <2>2. ASSUME NEW t \in Threads,
               AddSecondaryAttachment(t) \/ PublishHandoff(t) \/ PublishHeal(t)
               \/ TrackAttachment(t) \/ RemoveNodeAttachment(t)
        PROVE  attachments'[v] = attachments[v]
    <3>1. volumeLocks[req[t].vol] = Nil
      BY <2>2, ZenonT(40) DEF AddSecondaryAttachment, PublishHandoff, PublishHeal, TrackAttachment,
                  RemoveNodeAttachment, UntrackAttachment
    <3>2. \A w \in Volumes : w # req[t].vol => attachments'[w] = attachments[w]
      BY <2>2, ZenonT(40) DEF AddSecondaryAttachment, PublishHandoff, PublishHeal, TrackAttachment,
                  RemoveNodeAttachment, UntrackAttachment, SafetyInv, TypeOK
    <3> QED
      BY <3>1, <3>2
  <2>3. ASSUME NEW t \in Threads, PersistAttachment(t)
        PROVE  attachments'[v] = attachments[v]
    BY <2>3, Zenon DEF PersistAttachment, SafetyInv, TypeOK, RollbackIsOwn
  <2>4. CASE ReconcileUntrack
    BY <2>4 DEF ReconcileUntrack, UntrackAttachment, SafetyInv, TypeOK
  <2>5. ASSUME NEW w \in Volumes, MigrationExpires(w)
        PROVE  attachments'[v] = attachments[v]
    <3>1. attachments[v].MigrationStartedAt = "nil"
      <4>1. PICK t \in Threads : t = volumeLocks[v]
        BY DEF SafetyInv, TypeOK
      <4>2. attachments[v] = NewRecord(req[t].node, ModeOf[v])
        BY <4>1 DEF SafetyInv, LockReleased, RollbackIsOwn
      <4> QED
        BY ONLY <4>2 DEF NewRecord
    <3>2. w # v
      BY <2>5, <3>1 DEF MigrationExpires
    <3> QED
      BY <2>5, <3>2, ZenonT(30) DEF MigrationExpires, SafetyInv, TypeOK
  <2>6. CASE Reboot
    BY <2>6 DEF Reboot
  <2> QED
    BY <2>1, <2>2, <2>3, <2>4, <2>5, <2>6, MapSteps, Zenon
<1> QED
  BY <1>1, Safety, PTL DEF Spec, LockedEntryStable

(* A handler's step leaves the other handlers where they are; their        *)
(* pointers at most lose the map.                                          *)
PointerFrame(t) ==
  /\ pc'[t] = pc[t] /\ req'[t].vol = req[t].vol
  /\ \/ existing'[t] = existing[t]
     \/ existing[t] = Alias /\ existing'[t] = attachments[req[t].vol]

LEMMA HandlerFrames ==
  ASSUME SafetyInv, ~Reboot, NEW u \in Threads, HandlerStep(u), NEW t \in Threads \ {u}
  PROVE  PointerFrame(t)
<1> USE DEF PointerFrame, Goto, Return, Forget
<1>0. /\ pc \in [Threads -> PublishPc \cup {"idle", "remove"}]
      /\ req \in [Threads -> Request \cup {Nil}] /\ existing \in [Threads -> Pointer]
  BY DEF SafetyInv, TypeOK
<1>1. CASE PublishCheck(u)
  BY <1>0, <1>1, Zenon DEF PublishCheck
<1>2. CASE PublishGet(u)
  BY <1>0, <1>2, Zenon DEF PublishGet
<1>3. CASE PublishAttached(u)
  BY <1>0, <1>3 DEF PublishAttached
<1>4. CASE PublishCount(u)
  BY <1>0, <1>4, Zenon DEF PublishCount
<1>5. CASE PublishMigration(u)
  BY <1>0, <1>5, Zenon DEF PublishMigration
<1>6. CASE PublishTimedOut(u)
  BY <1>0, <1>6 DEF PublishTimedOut
<1>7. CASE PublishGrace(u)
  BY <1>0, <1>7, ZenonT(30) DEF PublishGrace
<1>8. CASE PublishValidate(u)
  BY <1>0, <1>8 DEF PublishValidate
<1>9. CASE ClearDetachTimestamp(u)
  BY <1>0, <1>9 DEF ClearDetachTimestamp
<1>10. CASE AddSecondaryAttachment(u)
  BY <1>0, <1>10, ZenonT(40) DEF AddSecondaryAttachment
<1>11. CASE PublishHandoff(u)
  BY <1>0, <1>11, ZenonT(40) DEF PublishHandoff, UntrackAttachment, OrphanExisting
<1>12. CASE PublishHeal(u)
  BY <1>0, <1>12, Zenon DEF PublishHeal, UntrackAttachment, OrphanExisting
<1>13. CASE TrackAttachment(u)
  BY <1>0, <1>13 DEF TrackAttachment
<1>14. CASE PersistAttachment(u)
  BY <1>0, <1>14, ZenonT(40) DEF PersistAttachment, OrphanExisting
<1>15. CASE RemoveNodeAttachment(u)
  BY <1>0, <1>15, Zenon DEF RemoveNodeAttachment, OrphanExisting
<1> QED
  BY <1>1, <1>2, <1>3, <1>4, <1>5, <1>6, <1>7, <1>8, <1>9,
     <1>10, <1>11, <1>12, <1>13, <1>14, <1>15, ZenonT(40) DEF HandlerStep, PublishStep

LEMMA TimeoutEntry ==
  ASSUME SafetyInv, ~Reboot, NEW t \in Threads, HandlerStep(t),
         pc'[t] \in {"migration", "timedout"}
  PROVE  PublishCount(t) \/ PublishMigration(t)
<1>1. pc \in [Threads -> PublishPc \cup {"idle", "remove"}]
  BY DEF SafetyInv, TypeOK
<1> QED
  BY <1>1, Zenon DEF HandlerStep, PublishStep, Goto, Return, PublishCheck, PublishGet, PublishAttached,
     PublishTimedOut, PublishGrace, PublishValidate, ClearDetachTimestamp,
     AddSecondaryAttachment, PublishHandoff, PublishHeal, TrackAttachment, PersistAttachment,
     RemoveNodeAttachment

LEMMA OtherFrames ==
  ASSUME SafetyInv, ~Reboot, NEW t \in Threads, pc'[t] \in {"migration", "timedout"},
         \/ \E u \in Threads, v \in Volumes, n \in Node : PublishStart(u, v, n)
         \/ \E u \in Threads, v \in Volumes, n \in Node \cup {Nil} : UnpublishStart(u, v, n)
         \/ ReconcileList \/ ReconcileStep \/ Environment
  PROVE  PointerFrame(t)
<1>0. /\ pc \in [Threads -> PublishPc \cup {"idle", "remove"}]
      /\ req \in [Threads -> Request \cup {Nil}] /\ existing \in [Threads -> Pointer]
  BY DEF SafetyInv, TypeOK
<1>1. ASSUME NEW u \in Threads, NEW v \in Volumes, NEW n,
             PublishStart(u, v, n) \/ UnpublishStart(u, v, n)
      PROVE  PointerFrame(t)
  <2>1. t # u
    BY <1>0, <1>1, ZenonT(40) DEF PublishStart, UnpublishStart, Call, Goto
  <2> QED
    BY <1>0, <1>1, <2>1, ZenonT(40) DEF PublishStart, UnpublishStart, Call, Goto, PointerFrame
<1>2. CASE ReconcileUntrack
  BY <1>0, <1>2 DEF ReconcileUntrack, UntrackAttachment, OrphanExisting, PointerFrame
<1>3. CASE UNCHANGED handlers
  BY <1>3, ZenonT(40) DEF handlers, PointerFrame
<1>4. CASE ReconcileList \/ (ReconcileStep /\ ~ReconcileUntrack)
  BY <1>3, <1>4, Zenon DEF ReconcileList, ReconcileStep, ReconcileNodeExists, ReconcileGrace, ReconcileDone
<1>5. ASSUME NEW u \in Threads, CallTimeout(u) PROVE PointerFrame(t)
  <2>1. req'[t].vol = req[t].vol
    <3>1. req[u] \in Request /\ req' = [req EXCEPT ![u].lost = TRUE]
      BY <1>5, RequestFacts DEF CallTimeout, PublishPc, SafetyInv
    <3>2. [req[u] EXCEPT !.lost = TRUE].vol = req[u].vol
      BY <3>1 DEF Request
    <3> QED
      BY <1>0, <3>1, <3>2
  <2> QED
    BY <1>5, <2>1 DEF CallTimeout, PointerFrame
<1>6. CASE Environment /\ ~\E u \in Threads : CallTimeout(u)
  BY <1>3, <1>6 DEF Environment, Restart, MarkAttached, GraceExpires, MigrationExpires,
     NodeDelete, NodeCreate, InformerSync
<1> QED
  BY <1>1, <1>2, <1>4, <1>5, <1>6

(* Only the migration clock makes a migration start "past".                *)
LEMMA StartNotPast ==
  ASSUME SafetyInv, ~Reboot, Next, NEW v \in Volumes, ~MigrationExpires(v)
  PROVE  \/ attachments'[v] = attachments[v] \/ attachments'[v] = Nil
         \/ attachments'[v].MigrationStartedAt # "past"
<1>0. attachments \in [Volumes -> AttachmentRecord \cup {Nil}]
  BY DEF SafetyInv, TypeOK
<1>1. CASE UNCHANGED attachments
  BY <1>1
<1>2. ASSUME NEW t \in Threads,
             PublishHandoff(t) \/ PublishHeal(t) \/ PersistAttachment(t)
      PROVE  attachments'[v] \in {attachments[v], Nil}
  BY <1>0, <1>2, ZenonT(40) DEF PublishHandoff, PublishHeal, PersistAttachment, UntrackAttachment
<1>3. CASE ReconcileUntrack
  BY <1>0, <1>3 DEF ReconcileUntrack, UntrackAttachment
<1>4. ASSUME NEW t \in Threads, AddSecondaryAttachment(t)
      PROVE  attachments'[v] = attachments[v] \/ attachments'[v].MigrationStartedAt # "past"
  <2>1. ASSUME attachments[v] # Nil
        PROVE  WithSecondary(attachments[v], req[t].node).MigrationStartedAt = "recent"
    BY <1>0, <2>1 DEF AttachmentRecord, WithSecondary
  <2> QED
    BY <1>0, <1>4, <2>1, Zenon DEF AddSecondaryAttachment
<1>5. ASSUME NEW t \in Threads, TrackAttachment(t)
      PROVE  attachments'[v] = attachments[v] \/ attachments'[v].MigrationStartedAt # "past"
  <2>1. NewRecord(req[t].node, ModeOf[v]).MigrationStartedAt = "nil"
    BY DEF NewRecord
  <2> QED
    BY <1>0, <1>5, <2>1, ZenonT(40) DEF TrackAttachment
<1>6. ASSUME NEW t \in Threads, RemoveNodeAttachment(t)
      PROVE  \/ attachments'[v] = attachments[v] \/ attachments'[v] = Nil
             \/ attachments'[v].MigrationStartedAt # "past"
  <2> DEFINE n == req[t].node
             s == attachments[v]
  <2>1. CASE req[t].vol = v /\ IsAttachedToNode(s, n)
    <3>1. s \in AttachmentRecord /\ WellFormed(s) /\ n \in s.Nodes
      BY <1>0, <2>1 DEF IsAttachedToNode, SafetyInv, RecordWellFormed
    <3>2. attachments'[v] = WithoutNode(s, n)
      BY <1>0, <1>6, <2>1, Zenon DEF RemoveNodeAttachment
    <3>3. \/ WithoutNode(s, n) = Nil
          \/ WithoutNode(s, n).MigrationStartedAt = "nil"
      <4>1. \/ WithoutNode(s, n) = Nil
            \/ /\ WellFormed(WithoutNode(s, n))
               /\ WithoutNode(s, n).Nodes = s.Nodes \ {n}
        BY <3>1, WithoutNodeSound
      <4>2. Cardinality(s.Nodes \ {n}) = Cardinality(s.Nodes) - 1 /\ Cardinality(s.Nodes) \in {1, 2}
        <5>1. PICK S \in SUBSET Node : S = s.Nodes /\ n \in S
          BY <3>1, Zenon DEF AttachmentRecord
        <5>2. Cardinality(S \ {n}) = Cardinality(S) - 1
          BY <5>1, CardinalityFacts
        <5>3. Cardinality(s.Nodes) \in {1, 2}
          BY <3>1 DEF WellFormed
        <5> QED
          BY <5>1, <5>2, <5>3, Zenon
      <4>3. CASE WithoutNode(s, n) # Nil
        <5>1. Cardinality(WithoutNode(s, n).Nodes) = Cardinality(s.Nodes \ {n})
          BY <4>1, <4>3, Zenon
        <5>2. PICK c, d : c = Cardinality(WithoutNode(s, n).Nodes) /\ d = Cardinality(s.Nodes)
          OBVIOUS
        <5>3. c \in {1, 2} /\ (WithoutNode(s, n).MigrationStartedAt = "nil" <=> c = 1)
          BY <4>1, <4>3, <5>2, Zenon DEF WellFormed
        <5>4. c = d - 1 /\ d \in {1, 2}
          BY <4>2, <5>1, <5>2, Zenon
        <5>5. c = 1
          BY ONLY <5>3, <5>4
        <5> QED
          BY <5>3, <5>5, Zenon
      <4> QED
        BY <4>3
    <3> QED
      BY <3>2, <3>3
  <2>2. CASE ~(req[t].vol = v /\ IsAttachedToNode(s, n))
    BY <1>0, <1>6, <2>2, Zenon DEF RemoveNodeAttachment
  <2> QED
    BY <2>1, <2>2
<1>7. ASSUME NEW w \in Volumes, MigrationExpires(w)
      PROVE  attachments'[v] = attachments[v]
  BY <1>0, <1>7, ZenonT(40) DEF MigrationExpires
<1> QED
  BY <1>1, <1>2, <1>3, <1>4, <1>5, <1>6, <1>7, MapSteps, ZenonT(40)

(* Between the count and the second read of MigrationStartedAt, the record *)
(* a publish holds is not one whose running migration has timed out.       *)
THEOREM TimeoutReads == Spec => []TimeoutReadInv
<1>1. Init => TimeoutReadInv
  BY DEF Init, TimeoutReadInv
<1>2. SafetyInv /\ SafetyInv' /\ TimeoutReadInv /\ [Next]_vars => TimeoutReadInv'
  <2> SUFFICES ASSUME SafetyInv, SafetyInv', TimeoutReadInv, [Next]_vars,
                      "stall" \notin Faults, NEW t \in Threads
               PROVE  /\ pc'[t] = "migration" /\ existing'[t] = Alias
                           => attachments'[req'[t].vol].MigrationStartedAt # "past"
                      /\ pc'[t] = "timedout"
                           => existing'[t] # Alias /\ existing'[t].MigrationStartedAt # "nil"
    BY DEF TimeoutReadInv
  <2>1. CASE UNCHANGED vars
    BY <2>1 DEF vars, am, handlers, TimeoutReadInv
  <2>2. CASE Reboot
    BY <2>2 DEF Reboot
  <2>3. CASE Next /\ ~Reboot /\ pc'[t] \in {"migration", "timedout"}
    <3>1. PointerFrame(t) \/ PublishCount(t) \/ PublishMigration(t)
      BY <2>3, HandlerFrames, TimeoutEntry, OtherFrames, ZenonT(30) DEF Next
    <3>2. CASE PointerFrame(t)
      <4>1. req[t].vol \in Volumes
        BY <2>3, <3>2, RequestFacts DEF PointerFrame, PublishPc, SafetyInv
      <4>2. CASE pc'[t] = "migration" /\ existing'[t] = Alias
        <5>1. existing[t] = Alias /\ pc[t] = "migration" /\ req'[t].vol = req[t].vol
          BY <3>2, <4>1, <4>2, ConstantsAssumption, Zenon DEF PointerFrame, SafetyInv, TypeOK
        <5>2. ~MigrationExpires(req[t].vol)
          BY <5>1, Zenon DEF MigrationExpires
        <5>3. attachments'[req[t].vol] # Nil
          BY <4>2, <5>1 DEF SafetyInv, HeldPointerSound, PointerSound, Deref, HoldingPc
        <5>4. attachments[req[t].vol].MigrationStartedAt # "past"
          BY <5>1 DEF TimeoutReadInv
        <5> QED
          BY <2>3, <4>1, <4>2, <5>1, <5>2, <5>3, <5>4, StartNotPast, ZenonT(40)
      <4>3. CASE pc'[t] = "timedout"
        BY <3>2, <4>3, ZenonT(40) DEF PointerFrame, TimeoutReadInv
      <4> QED
        BY <2>3, <4>2, <4>3
    <3>3. CASE PublishCount(t)
      <4>1. /\ pc[t] = "count" /\ UNCHANGED attachments
            /\ req[t].vol \in Volumes
        BY <3>3, RequestFacts, ZenonT(40) DEF PublishCount, am, PublishPc, SafetyInv
      <4>2. pc'[t] = "migration" /\ UNCHANGED <<req, existing>> /\ ~(NodeCount(attachments[req[t].vol]) >= 2)
        BY <2>3, <3>3, Zenon DEF PublishCount, Return, Goto, SafetyInv, TypeOK
      <4>3. ASSUME existing[t] = Alias PROVE attachments[req[t].vol].MigrationStartedAt = "nil"
        <5>1. attachments[req[t].vol] # Nil /\ WellFormed(attachments[req[t].vol])
          BY <4>1, <4>3, ZenonT(40) DEF SafetyInv, HeldPointerSound, PointerSound, Deref, HoldingPc
        <5>2. PICK c : c = Cardinality(attachments[req[t].vol].Nodes)
          OBVIOUS
        <5>3. c \in {1, 2} /\ (attachments[req[t].vol].MigrationStartedAt = "nil" <=> c = 1)
          BY <5>1, <5>2, Zenon DEF WellFormed
        <5>4. ~(c >= 2)
          BY <4>2, <5>1, <5>2 DEF NodeCount
        <5> QED
          BY ONLY <5>3, <5>4
      <4> QED
        BY <4>1, <4>2, <4>3
    <3>4. CASE PublishMigration(t)
      <4>1. /\ pc[t] = "migration" /\ pc'[t] = "timedout" /\ UNCHANGED existing
            /\ Deref(existing[t], req[t].vol).MigrationStartedAt = "past"
        BY <2>3, <3>4, ZenonT(40) DEF PublishMigration, Return, Goto, IsMigrationTimedOut, SafetyInv, TypeOK
      <4> QED
        BY <4>1, ZenonT(40) DEF TimeoutReadInv, Deref
    <3> QED
      BY <3>1, <3>2, <3>3, <3>4
  <2> QED
    BY <2>1, <2>2, <2>3, Zenon
<1> QED
  BY <1>1, <1>2, Safety, PTL DEF Spec

(* A rejected publish never follows a nil MigrationStartedAt, unless a     *)
(* handler stalls for a whole migration timeout between two statements.    *)
THEOREM NoNilDereferences ==
  ASSUME "stall" \notin Faults
  PROVE  Spec => []NoNilDereference
<1>1. TimeoutReadInv => NoNilDereference
  BY Zenon DEF TimeoutReadInv, NoNilDereference, Deref
<1> QED
  BY <1>1, TimeoutReads, PTL

==============================================================================
