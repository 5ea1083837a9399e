---------------------- MODULE AttachmentExclusionProofs ----------------------
(***************************************************************************)
(* In a benign environment attachments are exclusive: the handlers and the *)
(* reconciler implement AttachmentRegistry, so that no volume is in use by *)
(* more nodes than its access mode allows.                                 *)
(***************************************************************************)
EXTENDS AttachmentServiceProofs

LEMMA InitExclusion == Init => ExclusionInv
<1>1. Cardinality({}) = 0
  BY FS_EmptySet
<1> QED
  BY <1>1 DEF Init, ExclusionInv, VolumeExclusive, Tracked

(* What a held pointer names as primary is a node, and nodes stay. *)
LEMMA PrimaryIsNode ==
  ASSUME SafetyInv, ExclusionInv, NEW t \in Threads, pc[t] = "validate"
  PROVE  Deref(existing[t], req[t].vol).NodeID \in nodes
<1>1. existing[t] # Nil /\ req[t].vol \in Volumes
  BY RequestFacts DEF SafetyInv, HeldPointerSound, HoldingPc
<1>2. Deref(existing[t], req[t].vol) \in AttachmentRecord
  BY <1>1 DEF SafetyInv, HeldPointerSound, PointerSound, TypeOK, Pointer, Deref
<1> QED
  BY <1>2 DEF AttachmentRecord, ExclusionInv

(* While a first attachment is persisted its node alone is tracked, and no *)
(* other call speaks for that node: nobody else is granted the volume.     *)
LEMMA PersistingAlone ==
  ASSUME SafetyInv, ExclusionInv, NEW t \in Threads, NEW u \in Threads \ {t},
         pc[t] # "idle", pc[u] = "persist",
         req[t].node \in Tracked(req[t].vol)
  PROVE  req[u].vol # req[t].vol
<1>1. SUFFICES ASSUME req[u].vol = req[t].vol PROVE FALSE
  OBVIOUS
<1>2. Tracked(req[t].vol) \subseteq {req[u].node}
  <2>1. attachments[req[t].vol] = NewRecord(req[u].node, ModeOf[req[t].vol])
    BY <1>1 DEF SafetyInv, RollbackIsOwn
  <2>2. NewRecord(req[u].node, ModeOf[req[t].vol]).Nodes = {req[u].node}
    BY ZenonT(30) DEF NewRecord
  <2> QED
    BY <2>1, <2>2 DEF Tracked
<1> QED
  BY <1>1, <1>2 DEF ExclusionInv, CallExclusive

(* The steps of ControllerPublishVolume that leave the map alone: an       *)
(* idempotent success grants only a node that is tracked.                  *)
LEMMA ReadEffect ==
  ASSUME BenignEnvironment, SafetyInv, TimeoutReadInv, ExclusionInv, NEW t \in Threads,
         \/ PublishCheck(t) \/ PublishGet(t) \/ PublishAttached(t)
         \/ PublishCount(t) \/ PublishMigration(t) \/ PublishTimedOut(t)
         \/ PublishGrace(t) \/ PublishValidate(t) \/ ClearDetachTimestamp(t)
  PROVE  /\ pc[t] # "idle" /\ pc[t] \notin {"persist", "remove"}
         /\ req[t].vol \in Volumes /\ req[t].node \in Node
         /\ UNCHANGED <<attachments, rec, nodes, nodeCache, va>>
         /\ \/ granted' = granted
            \/ /\ req[t].node \in Tracked(req[t].vol)
               /\ granted' = [granted EXCEPT ![req[t].vol] = @ \cup {req[t].node}]
         /\ \/ pc' = [pc EXCEPT ![t] = "idle"]
            \/ /\ UNCHANGED req
               /\ \E l \in PublishPc \ {"persist", "handoff", "clear", "heal"} :
                    /\ pc' = [pc EXCEPT ![t] = l]
                    /\ l \in {"count", "migration", "add"} => ModeOf[req[t].vol] = "RWX"
                    /\ l \in {"grace", "validate"} => ModeOf[req[t].vol] = "RWO"
         /\ \A u \in Threads \ {t} : req'[u] = req[u]
<1>1. /\ pc[t] # "idle" /\ pc[t] \notin {"persist", "remove"}
      /\ req[t].vol \in Volumes /\ req[t].node \in Node
  <2>1. pc[t] # "idle" /\ pc[t] \notin {"persist", "remove"} /\ pc[t] \in PublishPc
    BY Zenon DEF PublishCheck, PublishGet, PublishAttached, PublishCount, PublishMigration,
           PublishTimedOut, PublishGrace, PublishValidate, ClearDetachTimestamp, PublishPc
  <2> QED
    BY <2>1, RequestFacts DEF SafetyInv
<1>2. CASE PublishCheck(t)
  BY <1>1, <1>2, ZenonT(30) DEF PublishCheck, Return, Goto, PublishPc, am, rec, SafetyInv, TypeOK
<1>3. CASE PublishGet(t)
  BY <1>1, <1>3 DEF PublishGet, Goto, PublishPc, am, rec, cluster
<1>4. CASE PublishAttached(t)
  BY <1>1, <1>4, ConstantsAssumption DEF PublishAttached, Return, Goto, PublishPc, am, rec, SafetyInv, TypeOK,
     IsAttachedToNode, Tracked, AccessModes
<1>5. CASE PublishCount(t)
  BY <1>1, <1>5 DEF PublishCount, Return, Goto, PublishPc, am, rec, SafetyInv, TypeOK, ExclusionInv, CallExclusive
<1>6. CASE PublishMigration(t)
  BY <1>1, <1>6 DEF PublishMigration, Return, Goto, PublishPc, am, rec, SafetyInv, TypeOK, ExclusionInv, CallExclusive
<1>7. CASE PublishGrace(t)
  BY <1>1, <1>7, Zenon DEF PublishGrace, Goto, PublishPc, am, rec, cluster, ExclusionInv, CallExclusive, BenignEnvironment
<1>8. CASE PublishValidate(t)
  BY <1>1, <1>8, PrimaryIsNode, Zenon DEF PublishValidate, Return, Goto, PublishPc, am, rec, SafetyInv, TypeOK,
     NodeIDTorn, BenignEnvironment
<1>9. CASE ClearDetachTimestamp(t)
  BY <1>1, <1>9 DEF ClearDetachTimestamp, ExclusionInv, CallExclusive
<1>10. CASE PublishTimedOut(t)
  <2>1. Deref(existing[t], req[t].vol).MigrationStartedAt # "nil"
    BY <1>10, Zenon DEF PublishTimedOut, TimeoutReadInv, BenignEnvironment, Deref
  <2> QED
    BY <1>1, <1>10, <2>1, Zenon DEF PublishTimedOut, Return, Goto, am, rec, SafetyInv, TypeOK
<1> QED
  BY <1>2, <1>3, <1>4, <1>5, <1>6, <1>7, <1>8, <1>9, <1>10, ZenonT(30)

LEMMA ReadExclusion ==
  ASSUME BenignEnvironment, SafetyInv, TimeoutReadInv, ExclusionInv, NEW t \in Threads,
         \/ PublishCheck(t) \/ PublishGet(t) \/ PublishAttached(t)
         \/ PublishCount(t) \/ PublishMigration(t) \/ PublishTimedOut(t)
         \/ PublishGrace(t) \/ PublishValidate(t) \/ ClearDetachTimestamp(t)
  PROVE  ExclusionInv'
<1>1. /\ pc[t] # "idle" /\ pc[t] \notin {"persist", "remove"}
      /\ req[t].vol \in Volumes /\ req[t].node \in Node
  BY ReadEffect
<1>2. /\ UNCHANGED <<attachments, rec, nodes, nodeCache, va>>
      /\ \/ granted' = granted
         \/ /\ req[t].node \in Tracked(req[t].vol)
            /\ granted' = [granted EXCEPT ![req[t].vol] = @ \cup {req[t].node}]
      /\ \/ pc' = [pc EXCEPT ![t] = "idle"]
         \/ /\ UNCHANGED req
            /\ \E l \in PublishPc \ {"persist", "handoff", "clear", "heal"} :
                 /\ pc' = [pc EXCEPT ![t] = l]
                 /\ l \in {"count", "migration", "add"} => ModeOf[req[t].vol] = "RWX"
                 /\ l \in {"grace", "validate"} => ModeOf[req[t].vol] = "RWO"
      /\ \A u \in Threads \ {t} : req'[u] = req[u]
  BY ReadEffect
<1>3. ASSUME NEW u \in Threads, pc'[u] # "idle" PROVE CallExclusive(u)'
  <2>1. CASE u = t
    <3>1. CallExclusive(t) /\ t \in DOMAIN pc
      BY <1>1, Zenon DEF SafetyInv, TypeOK, ExclusionInv
    <3>2. UNCHANGED req
      BY <1>2, <1>3, <2>1, <3>1, Zenon
    <3>3. PICK l \in PublishPc \ {"persist", "handoff", "clear", "heal"} :
            /\ pc' = [pc EXCEPT ![t] = l]
            /\ l \in {"count", "migration", "add"} => ModeOf[req[t].vol] = "RWX"
            /\ l \in {"grace", "validate"} => ModeOf[req[t].vol] = "RWO"
      BY <1>2, <1>3, <2>1, <3>1, Zenon
    <3>4. pc'[t] = l /\ (\A w \in Threads \ {t} : pc'[w] = pc[w]) /\ l # "remove"
      BY <3>1, <3>3 DEF PublishPc, SafetyInv, TypeOK
    <3> QED
      BY <2>1, <3>1, <3>2, <3>3, <3>4, Zenon DEF CallExclusive
  <2>2. CASE u # t
    <3>1. /\ pc[u] # "idle" /\ CallExclusive(u) /\ pc'[u] = pc[u] /\ req'[u] = req[u]
          /\ req[u].vol \in Volumes
      BY <1>2, <1>3, <2>2, RequestFacts DEF SafetyInv, TypeOK, ExclusionInv
    <3>2. /\ pc[u] = "persist" => granted'[req[u].vol] = {}
          /\ pc[u] = "remove" => req[u].node \notin granted'[req[u].vol]
      BY <1>1, <1>2, <2>2, <3>1, PersistingAlone DEF SafetyInv, TypeOK, CallExclusive
    <3>3. \A w \in Threads \ {u} : pc'[w] # "idle" =>
            req'[w].vol # req[u].vol \/ req'[w].node # req[u].node
      BY <1>1, <1>2, <2>2, <3>1 DEF SafetyInv, TypeOK, CallExclusive
    <3> QED
      BY <1>2, <3>1, <3>2, <3>3 DEF CallExclusive
  <2> QED
    BY <2>1, <2>2
<1>4. ASSUME NEW v \in Volumes PROVE VolumeExclusive(v)'
  BY <1>1, <1>2 DEF SafetyInv, TypeOK, ExclusionInv, VolumeExclusive, Tracked
<1> QED
  BY <1>2, <1>3, <1>4, Zenon DEF ExclusionInv, rec

(* A call starts for a volume and node no other call speaks for. *)
LEMMA CallExclusion ==
  ASSUME BenignEnvironment, SafetyInv, ExclusionInv, NEW t \in Threads, NEW v \in Volumes,
         \/ \E n \in Node : PublishStart(t, v, n)
         \/ \E n \in Node \cup {Nil} : UnpublishStart(t, v, n)
  PROVE  ExclusionInv'
<1>1. PICK n \in Node \cup {Nil}, label \in {"check", "remove"} :
        /\ MayCall(t, v, n) /\ pc' = [pc EXCEPT ![t] = label]
        /\ req' = [req EXCEPT ![t] = [vol |-> v, node |-> n, lost |-> FALSE]]
        /\ UNCHANGED <<attachments, recPc, nodes, nodeCache, va>>
        /\ \/ label = "check" /\ granted' = granted
           \/ /\ label = "remove"
              /\ granted' = [granted EXCEPT ![v] = IF n = Nil THEN {} ELSE @ \ {n}]
  BY DEF PublishStart, UnpublishStart, Call, Goto, am, rec
<1>2. pc[t] = "idle" /\ (label = "remove" => n \notin granted'[v])
  BY <1>1, ConstantsAssumption DEF MayCall, SafetyInv, TypeOK
<1>3. \A u \in Threads \ {t} : pc[u] # "idle" =>
        /\ CallExclusive(u) /\ pc'[u] = pc[u] /\ req'[u] = req[u]
        /\ req[u].vol \in Volumes /\ (req[u].vol # v \/ req[u].node # n)
  BY <1>1, RequestFacts DEF MayCall, SafetyInv, TypeOK, ExclusionInv, CallExclusive
<1>4. \A w \in Volumes : granted'[w] \subseteq granted[w]
  BY <1>1 DEF SafetyInv, TypeOK
<1>5. ASSUME NEW u \in Threads, pc'[u] # "idle" PROVE CallExclusive(u)'
  <2>1. CASE u = t
    <3>1. /\ pc'[t] = label /\ req'[t].vol = v /\ req'[t].node = n /\ req'[t].lost = FALSE
      BY <1>1 DEF SafetyInv, TypeOK
    <3>2. \A w \in Threads \ {t} : pc'[w] = pc[w]
      BY <1>1 DEF SafetyInv, TypeOK
    <3> QED
      BY <1>2, <1>3, <2>1, <3>1, <3>2 DEF CallExclusive
  <2>2. CASE u # t
    <3>1. pc[u] # "idle"
      BY <1>1, <1>5, <2>2 DEF SafetyInv, TypeOK
    <3>2. \A w \in Threads \ {u} : pc'[w] # "idle" =>
            req'[w].vol # req[u].vol \/ req'[w].node # req[u].node
      BY <1>1, <1>3, <2>2, <3>1 DEF SafetyInv, TypeOK, CallExclusive
    <3>3. /\ CallExclusive(u) /\ pc'[u] = pc[u] /\ req'[u] = req[u]
          /\ req[u].vol \in Volumes /\ granted'[req[u].vol] \subseteq granted[req[u].vol]
      BY <1>3, <1>4, <2>2, <3>1, Zenon
    <3>4. /\ pc[u] = "persist" => granted'[req[u].vol] = {} /\ va'[req[u].vol] = {}
          /\ pc[u] = "remove" => req[u].node \notin granted'[req[u].vol]
      BY <1>1, <3>1, <3>3 DEF CallExclusive
    <3> QED
      BY <3>1, <3>2, <3>3, <3>4 DEF CallExclusive
  <2> QED
    BY <2>1, <2>2
<1>6. ASSUME NEW w \in Volumes PROVE VolumeExclusive(w)'
  BY <1>1, <1>4, Zenon DEF ExclusionInv, VolumeExclusive, Tracked
<1> QED
  BY <1>1, <1>5, <1>6 DEF ExclusionInv

(* A call ends: the other calls keep what they rely on if no grant reaches *)
(* a volume they persist or a node they remove, and no VolumeAttachment    *)
(* appears.                                                                *)
LEMMA EndExclusion ==
  ASSUME SafetyInv, ExclusionInv, NEW t \in Threads, pc[t] # "idle",
         pc' = [pc EXCEPT ![t] = "idle"], req' = [req EXCEPT ![t] = Nil],
         \A v \in Volumes : va'[v] \subseteq va[v],
         \/ granted' = granted
         \/ /\ req[t].node \in Tracked(req[t].vol) \/ volumeLocks[req[t].vol] \in {Nil, t}
            /\ granted' = [granted EXCEPT ![req[t].vol] = @ \cup {req[t].node}],
         NEW u \in Threads, pc'[u] # "idle"
  PROVE  CallExclusive(u)'
<1>1. u # t
  BY DEF SafetyInv, TypeOK
<1>2. /\ pc[u] # "idle" /\ CallExclusive(u) /\ pc'[u] = pc[u] /\ req'[u] = req[u]
      /\ req[u].vol \in Volumes /\ req[t].vol \in Volumes
  BY <1>1, RequestFacts, Zenon DEF SafetyInv, TypeOK, ExclusionInv
<1>3. \A w \in Threads \ {u} : pc'[w] # "idle" =>
        req'[w].vol # req[u].vol \/ req'[w].node # req[u].node
  BY <1>2, Zenon DEF SafetyInv, TypeOK, CallExclusive
<1>4. pc[u] = "persist" /\ req[u].vol = req[t].vol => granted' = granted
  BY <1>1, <1>2, PersistingAlone, ConstantsAssumption, ZenonT(30) DEF SafetyInv, RollbackIsOwn
<1>5. req[u].vol = req[t].vol => req[u].node # req[t].node
  BY <1>1, <1>2, Zenon DEF CallExclusive
<1>6. /\ pc[u] = "persist" => granted'[req[u].vol] = {}
      /\ pc[u] = "remove" => req[u].node \notin granted'[req[u].vol]
  BY <1>2, <1>4, <1>5 DEF SafetyInv, TypeOK, CallExclusive
<1>7. pc[u] = "persist" => va'[req[u].vol] = {}
  BY <1>2 DEF CallExclusive
<1> QED
  BY <1>2, <1>3, <1>6, <1>7 DEF CallExclusive

(* Where the map entry of v changes, and nowhere else, VolumeExclusive     *)
(* follows from what it changes to.                                        *)
LEMMA VolumesExclusive ==
  ASSUME ExclusionInv, NEW v \in Volumes,
         \A w \in Volumes \ {v} : /\ attachments'[w] = attachments[w]
                                 /\ granted'[w] = granted[w] /\ va'[w] = va[w],
         granted'[v] \subseteq Tracked(v)', va'[v] \subseteq Tracked(v)',
         ModeOf[v] = "RWO" => Cardinality(Tracked(v)') <= 1
  PROVE  \A w \in Volumes : VolumeExclusive(w)'
<1> SUFFICES ASSUME NEW w \in Volumes PROVE VolumeExclusive(w)'
  OBVIOUS
<1>1. CASE w = v
  BY <1>1 DEF VolumeExclusive
<1>2. CASE w # v
  <2>1. Tracked(w)' = Tracked(w)
    BY <1>2 DEF Tracked
  <2> QED
    BY <1>2, <2>1 DEF ExclusionInv, VolumeExclusive
<1> QED
  BY <1>1, <1>2

(* AddSecondaryAttachment adds the node to the volume's, or grants it the  *)
(* volume only if it is one of them.                                       *)
LEMMA AddSecondaryEffect ==
  ASSUME SafetyInv, NEW t \in Threads, AddSecondaryAttachment(t),
         NEW v \in Volumes, NEW n \in Node, v = req[t].vol, n = req[t].node
  PROVE  /\ \A w \in Volumes \ {v} : attachments'[w] = attachments[w]
         /\ \/ Tracked(v)' = Tracked(v) /\ (granted' = granted \/ n \in Tracked(v))
            \/ Tracked(v)' = Tracked(v) \cup {n}
<1> DEFINE s == attachments[v]
<1>1. CASE s # Nil /\ n \notin s.Nodes /\ NodeCount(s) < 2
  <2>1. s \in AttachmentRecord /\ WellFormed(s) /\ Cardinality(s.Nodes) < 2
    BY <1>1 DEF SafetyInv, TypeOK, RecordWellFormed, NodeCount
  <2>2. WithSecondary(s, n) # Nil /\ WithSecondary(s, n).Nodes = s.Nodes \cup {n}
    BY <1>1, <2>1, WithSecondarySound, ConstantsAssumption
  <2>3. ~(NodeCount(s) >= 2) /\ ~IsAttachedToNode(s, n)
    <3>1. Cardinality(s.Nodes) \in Nat
      BY <2>1, CardinalityFacts DEF AttachmentRecord
    <3> QED
      BY <1>1, <2>1, <3>1 DEF NodeCount, IsAttachedToNode
  <2>4. attachments' = [attachments EXCEPT ![v] = WithSecondary(s, n)]
    BY <1>1, <2>3, Zenon DEF AddSecondaryAttachment
  <2> QED
    BY <1>1, <2>2, <2>4 DEF SafetyInv, TypeOK, Tracked
<1>2. CASE IsAttachedToNode(s, n)
  BY <1>2, Zenon DEF AddSecondaryAttachment, IsAttachedToNode, Tracked
<1>3. CASE s = Nil
  BY <1>3 DEF AddSecondaryAttachment, IsAttachedToNode, Return, Tracked
<1>4. CASE s # Nil /\ n \notin s.Nodes /\ ~(NodeCount(s) < 2)
  BY <1>4, Zenon DEF AddSecondaryAttachment, IsAttachedToNode, Return, Tracked
<1> QED
  BY <1>1, <1>2, <1>3, <1>4, Zenon DEF IsAttachedToNode

(* The same of the request that the call serves.                           *)
LEMMA AddSecondaryServed ==
  ASSUME SafetyInv, NEW t \in Threads, AddSecondaryAttachment(t)
  PROVE  \E v \in Volumes, n \in Node :
           /\ granted' \in {granted, [granted EXCEPT ![v] = @ \cup {n}]}
           /\ \A w \in Volumes \ {v} : attachments'[w] = attachments[w]
           /\ \/ Tracked(v)' = Tracked(v) /\ (granted' = granted \/ n \in Tracked(v))
              \/ Tracked(v)' = Tracked(v) \cup {n}
<1>1. PICK v \in Volumes, n \in Node : v = req[t].vol /\ n = req[t].node
  BY RequestFacts, Zenon DEF AddSecondaryAttachment, PublishPc, SafetyInv
<1>2. granted' \in {granted, [granted EXCEPT ![v] = @ \cup {n}]}
  BY <1>1, Zenon DEF AddSecondaryAttachment, Return
<1>3. /\ \A w \in Volumes \ {v} : attachments'[w] = attachments[w]
      /\ \/ Tracked(v)' = Tracked(v) /\ (granted' = granted \/ n \in Tracked(v))
         \/ Tracked(v)' = Tracked(v) \cup {n}
  BY <1>1, AddSecondaryEffect
<1> QED
  BY <1>2, <1>3, Zenon

(* A call that persists has its own record in the map.                     *)
LEMMA PersistServed ==
  ASSUME SafetyInv, NEW t \in Threads, PersistAttachment(t)
  PROVE  \E v \in Volumes, n \in Node :
           /\ v = req[t].vol /\ n = req[t].node
           /\ attachments[v] = NewRecord(n, ModeOf[v]) /\ n \in Tracked(v)
<1>1. PICK v \in Volumes, n \in Node : v = req[t].vol /\ n = req[t].node
  BY RequestFacts, Zenon DEF PersistAttachment, PublishPc, SafetyInv
<1>2. attachments[v] = NewRecord(n, ModeOf[v])
  BY <1>1, Zenon DEF PersistAttachment, SafetyInv, RollbackIsOwn
<1>3. ModeOf[v] \in AccessModes
  BY ConstantsAssumption, Zenon
<1>4. NewRecord(n, ModeOf[v]) # Nil /\ NewRecord(n, ModeOf[v]).Nodes = {n}
  BY <1>3, NewRecordSound, ConstantsAssumption, Zenon
<1> QED
  BY <1>1, <1>2, <1>4, Zenon DEF Tracked

(* AddSecondaryAttachment, reached for RWX volumes only. *)
LEMMA AddSecondaryExclusion ==
  ASSUME BenignEnvironment, SafetyInv, ExclusionInv, NEW t \in Threads, AddSecondaryAttachment(t)
  PROVE  ExclusionInv'
<1>1. PICK v \in Volumes, n \in Node :
        /\ v = req[t].vol /\ n = req[t].node
        /\ pc[t] = "add" /\ volumeLocks[v] = Nil /\ ModeOf[v] = "RWX"
  BY RequestFacts, Zenon DEF AddSecondaryAttachment, PublishPc, SafetyInv, ExclusionInv, CallExclusive
<1>2. /\ pc' = [pc EXCEPT ![t] = "idle"] /\ req' = [req EXCEPT ![t] = Nil]
      /\ UNCHANGED <<recPc, nodes, nodeCache, va>>
      /\ granted' \in {granted, [granted EXCEPT ![v] = @ \cup {n}]}
  BY <1>1 DEF AddSecondaryAttachment, Return, Goto, rec
<1>3. \A u \in Threads : pc'[u] # "idle" => CallExclusive(u)'
  BY <1>1, <1>2, EndExclusion, Zenon DEF SafetyInv, TypeOK
<1>4. /\ \A w \in Volumes \ {v} : attachments'[w] = attachments[w]
      /\ Tracked(v) \subseteq Tracked(v)'
      /\ granted' = granted \/ n \in Tracked(v)'
  BY <1>1, AddSecondaryEffect, Zenon
<1>5. \A w \in Volumes : VolumeExclusive(w)'
  BY <1>1, <1>2, <1>4, VolumesExclusive DEF SafetyInv, TypeOK, ExclusionInv, VolumeExclusive
<1> QED
  BY <1>2, <1>3, <1>5, Zenon DEF ExclusionInv

-----------------------------------------------------------------------------
(* A first attachment: the volume was tracked for nobody, so it is granted *)
(* to nobody and has no VolumeAttachment.                                  *)
LEMMA TrackExclusion ==
  ASSUME BenignEnvironment, SafetyInv, ExclusionInv, NEW t \in Threads, TrackAttachment(t)
  PROVE  ExclusionInv'
<1>1. PICK v \in Volumes, n \in Node :
        /\ v = req[t].vol /\ n = req[t].node
        /\ pc[t] = "track" /\ volumeLocks[v] = Nil
  BY RequestFacts DEF TrackAttachment, PublishPc, SafetyInv
<1> DEFINE s == NewRecord(n, ModeOf[v])
<1>2. CASE attachments[v] # Nil
  <2>1. /\ pc' = [pc EXCEPT ![t] = "idle"] /\ req' = [req EXCEPT ![t] = Nil]
        /\ \/ granted' = granted
           \/ n \in Tracked(v) /\ granted' = [granted EXCEPT ![v] = @ \cup {n}]
        /\ UNCHANGED <<attachments, recPc, nodes, nodeCache, va>>
    BY <1>1, <1>2 DEF TrackAttachment, Return, Goto, rec, Tracked
  <2>2. \A u \in Threads : pc'[u] # "idle" => CallExclusive(u)'
    BY <1>1, <2>1, EndExclusion, Zenon DEF SafetyInv, TypeOK
  <2>3. \A w \in Volumes : VolumeExclusive(w)'
    <3>1. Tracked(v)' = Tracked(v)
      BY <2>1 DEF Tracked
    <3>2. /\ granted[v] \subseteq Tracked(v) /\ va[v] \subseteq Tracked(v)
          /\ ModeOf[v] = "RWO" => Cardinality(Tracked(v)) <= 1
      BY DEF ExclusionInv, VolumeExclusive
    <3>3. /\ granted'[v] \subseteq Tracked(v) /\ va' = va /\ attachments' = attachments
          /\ \A w \in Volumes \ {v} : granted'[w] = granted[w]
      BY <2>1, <3>2 DEF SafetyInv, TypeOK
    <3> QED
      BY <3>1, <3>2, <3>3, VolumesExclusive
  <2> QED
    BY <2>1, <2>2, <2>3, ZenonT(30) DEF ExclusionInv
<1>3. CASE attachments[v] = Nil
  <2>1. s # Nil /\ s.Nodes = {n} /\ Cardinality({n}) = 1
    <3>1. ModeOf[v] \in AccessModes
      BY ConstantsAssumption, Zenon
    <3>2. s # Nil /\ s.Nodes = {n}
      BY <3>1, NewRecordSound, ConstantsAssumption, Zenon
    <3>3. {n} \in SUBSET Node
      BY Zenon
    <3> QED
      BY <3>2, <3>3, CardinalityFacts, Zenon
  <2>2. /\ attachments' = [attachments EXCEPT ![v] = s]
        /\ pc' = [pc EXCEPT ![t] = "persist"]
        /\ UNCHANGED <<req, recPc, nodes, nodeCache, va, granted>>
    BY <1>1, <1>3 DEF TrackAttachment, Goto, rec
  <2>3. granted[v] = {} /\ va[v] = {}
    BY <1>1, <1>3, Zenon DEF ExclusionInv, VolumeExclusive, Tracked
  <2>4. ASSUME NEW u \in Threads, pc'[u] # "idle" PROVE CallExclusive(u)'
    <3>1. /\ pc[u] # "idle" /\ CallExclusive(u)
          /\ \A w \in Threads : pc'[w] # "idle" => pc[w] # "idle"
      BY <1>1, <2>2, <2>4 DEF SafetyInv, TypeOK, ExclusionInv
    <3>2. pc'[u] = IF u = t THEN "persist" ELSE pc[u]
      BY <2>2 DEF SafetyInv, TypeOK
    <3> QED
      BY <1>1, <2>2, <2>3, <3>1, <3>2 DEF CallExclusive
  <2>5. \A w \in Volumes : VolumeExclusive(w)'
    <3>1. Tracked(v)' = {n}
      BY <1>1, <2>1, <2>2 DEF SafetyInv, TypeOK, Tracked
    <3>2. Cardinality(Tracked(v)') = 1
      BY <2>1, <3>1, Zenon
    <3>3. granted'[v] = {} /\ va'[v] = {}
      BY <2>2, <2>3
    <3>4. Cardinality(Tracked(v)') <= 1
      BY <3>2
    <3>5. \A w \in Volumes \ {v} : attachments'[w] = attachments[w]
      BY <2>2 DEF SafetyInv, TypeOK
    <3> QED
      BY <2>2, <3>3, <3>4, <3>5, VolumesExclusive, Zenon
  <2> QED
    BY <2>2, <2>4, <2>5, Zenon DEF ExclusionInv
<1> QED
  BY <1>2, <1>3, Zenon

(* Its end: the node is granted a volume tracked for it, or the rollback   *)
(* removes an entry nobody was granted.                                    *)
LEMMA PersistExclusion ==
  ASSUME BenignEnvironment, SafetyInv, ExclusionInv, NEW t \in Threads, PersistAttachment(t)
  PROVE  ExclusionInv'
<1>1. PICK v \in Volumes, n \in Node :
        /\ v = req[t].vol /\ n = req[t].node
        /\ pc[t] = "persist" /\ volumeLocks[v] = t
        /\ granted[v] = {} /\ va[v] = {}
  BY RequestFacts DEF PersistAttachment, PublishPc, SafetyInv, RollbackIsOwn, ExclusionInv, CallExclusive
<1>2. Tracked(v) = {n} /\ Cardinality({n}) = 1 /\ Cardinality({}) = 0
  <2>1. attachments[v] = NewRecord(n, ModeOf[v])
    BY <1>1 DEF SafetyInv, RollbackIsOwn
  <2>2. NewRecord(n, ModeOf[v]) # Nil /\ NewRecord(n, ModeOf[v]).Nodes = {n}
    BY <1>1, NewRecordSound, ConstantsAssumption
  <2> QED
    BY <2>1, <2>2, CardinalityFacts, FS_EmptySet DEF Tracked
<1>3. /\ pc' = [pc EXCEPT ![t] = "idle"] /\ req' = [req EXCEPT ![t] = Nil]
      /\ UNCHANGED <<recPc, nodes, nodeCache, va>>
      /\ \/ /\ UNCHANGED attachments
            /\ granted' \in {granted, [granted EXCEPT ![v] = @ \cup {n}]}
         \/ /\ attachments' = [attachments EXCEPT ![v] = Nil]
            /\ granted' = granted
  BY <1>1 DEF PersistAttachment, Return, Goto
<1>4. \A u \in Threads : pc'[u] # "idle" => CallExclusive(u)'
  BY <1>1, <1>3, EndExclusion, ZenonT(40) DEF SafetyInv, TypeOK
<1>5. \/ UNCHANGED attachments /\ Tracked(v)' = {n}
      \/ Tracked(v)' = {} /\ UNCHANGED granted
  BY <1>1, <1>2, <1>3 DEF SafetyInv, TypeOK, Tracked
<1>6. Cardinality(Tracked(v)') <= 1
  <2>1. Cardinality(Tracked(v)') \in {Cardinality({n}), Cardinality({})}
    BY <1>5, Zenon
  <2> QED
    BY <1>2, <2>1
<1>7. \A w \in Volumes : VolumeExclusive(w)'
  BY <1>1, <1>3, <1>5, <1>6, VolumesExclusive, Zenon DEF SafetyInv, TypeOK
<1> QED
  BY <1>3, <1>4, <1>7, Zenon DEF ExclusionInv

(* RemoveNodeAttachment forgets a node that gave the volume up. *)
LEMMA RemoveTracked ==
  ASSUME SafetyInv, NEW t \in Threads, RemoveNodeAttachment(t), NEW v \in Volumes,
         v = req[t].vol
  PROVE  /\ \A w \in Volumes \ {v} : attachments'[w] = attachments[w]
         /\ Tracked(v)' = Tracked(v) \ {req[t].node}
<1>1. PICK n \in Node \cup {Nil} : n = req[t].node
  BY RequestFacts DEF RemoveNodeAttachment, SafetyInv
<1> DEFINE s == attachments[v]
<1>2. CASE ~IsAttachedToNode(s, n)
  <2>1. UNCHANGED attachments
    BY <1>1, <1>2, Zenon DEF RemoveNodeAttachment
  <2> QED
    BY <1>1, <1>2, <2>1, Zenon DEF IsAttachedToNode, Tracked
<1>3. CASE IsAttachedToNode(s, n)
  <2>1. s # Nil /\ s \in AttachmentRecord /\ WellFormed(s) /\ n \in s.Nodes
    BY <1>1, <1>3, Zenon DEF SafetyInv, TypeOK, RecordWellFormed, IsAttachedToNode
  <2>2. attachments' = [attachments EXCEPT ![v] = WithoutNode(s, n)]
    BY <1>1, <1>3 DEF RemoveNodeAttachment
  <2>3. \/ WithoutNode(s, n) = Nil /\ s.Nodes = {n}
        \/ WithoutNode(s, n) # Nil /\ WithoutNode(s, n).Nodes = s.Nodes \ {n}
    BY <2>1, WithoutNodeSound
  <2> QED
    BY <1>1, <2>1, <2>2, <2>3 DEF SafetyInv, TypeOK, Tracked
<1> QED
  BY <1>2, <1>3, Zenon

LEMMA RemoveExclusion ==
  ASSUME BenignEnvironment, SafetyInv, ExclusionInv, NEW t \in Threads, RemoveNodeAttachment(t)
  PROVE  ExclusionInv'
<1>1. PICK v \in Volumes, n \in Node \cup {Nil} :
        /\ v = req[t].vol /\ n = req[t].node /\ pc[t] = "remove"
        /\ n \notin granted[v] /\ ~req[t].lost
  BY RequestFacts, ZenonT(30) DEF RemoveNodeAttachment, SafetyInv, ExclusionInv, CallExclusive
<1>2. /\ pc' = [pc EXCEPT ![t] = "idle"] /\ req' = [req EXCEPT ![t] = Nil]
      /\ UNCHANGED <<recPc, nodes, nodeCache, granted>>
      /\ va' = [va EXCEPT ![v] = IF n = Nil THEN {} ELSE @ \ {n}]
  BY <1>1 DEF RemoveNodeAttachment, Return, Goto
<1>3. \A u \in Threads : pc'[u] # "idle" => CallExclusive(u)'
  BY <1>1, <1>2, EndExclusion, Zenon DEF SafetyInv, TypeOK
<1>4. /\ \A w \in Volumes \ {v} : attachments'[w] = attachments[w]
      /\ Tracked(v)' = Tracked(v) \ {n}
  BY <1>1, RemoveTracked
<1>5. ModeOf[v] = "RWO" => Cardinality(Tracked(v) \ {n}) <= 1
  <2>1. Tracked(v) \in SUBSET Node
    BY <1>1 DEF SafetyInv, TypeOK, AttachmentRecord, Tracked
  <2>2. n \in Tracked(v) => Cardinality(Tracked(v) \ {n}) = Cardinality(Tracked(v)) - 1
    BY <2>1, CardinalityFacts
  <2>3. ASSUME n \notin Tracked(v)
        PROVE  Cardinality(Tracked(v) \ {n}) = Cardinality(Tracked(v))
    <3>1. Tracked(v) \ {n} = Tracked(v)
      BY <2>3
    <3> QED
      BY <3>1, Zenon
  <2>4. Cardinality(Tracked(v)) \in Nat
    BY <2>1, CardinalityFacts
  <2> QED
    BY <1>1, <2>2, <2>3, <2>4 DEF ExclusionInv, VolumeExclusive
<1>6. \A w \in Volumes : VolumeExclusive(w)'
  BY <1>1, <1>2, <1>4, <1>5, VolumesExclusive, Zenon
     DEF SafetyInv, TypeOK, ExclusionInv, VolumeExclusive
<1> QED
  BY <1>2, <1>3, <1>6, Zenon DEF ExclusionInv

(* Steps of no handler: the calls are as they were. *)
LEMMA CallsKept ==
  ASSUME SafetyInv, ExclusionInv, UNCHANGED <<pc, req, granted>>,
         \A v \in Volumes : granted[v] = {} => va'[v] = va[v]
  PROVE  \A t \in Threads : pc'[t] # "idle" => CallExclusive(t)'
<1> SUFFICES ASSUME NEW t \in Threads, pc'[t] # "idle" PROVE CallExclusive(t)'
  OBVIOUS
<1>1. CallExclusive(t) /\ req[t].vol \in Volumes
  BY RequestFacts DEF ExclusionInv, SafetyInv
<1> QED
  BY <1>1, Zenon DEF CallExclusive

LEMMA MapKept ==
  ASSUME ExclusionInv, UNCHANGED <<granted, va>>,
         \A v \in Volumes : Tracked(v)' = Tracked(v)
  PROVE  \A v \in Volumes : VolumeExclusive(v)'
<1> SUFFICES ASSUME NEW v \in Volumes PROVE VolumeExclusive(v)'
  OBVIOUS
<1>1. Tracked(v)' = Tracked(v) /\ VolumeExclusive(v)
  BY DEF ExclusionInv
<1> QED
  BY <1>1, Zenon DEF VolumeExclusive

(* The reconciler finds the primary node of every volume and untracks      *)
(* nothing.                                                                *)
LEMMA ReconcileEffect ==
  ASSUME BenignEnvironment, SafetyInv, ExclusionInv, ReconcileList \/ ReconcileStep
  PROVE  /\ recPc' \notin {"grace", "untrack"}
         /\ UNCHANGED <<am, handlers, cluster>>
<1>1. CASE ReconcileList
  BY <1>1 DEF ReconcileList
<1>2. ASSUME NEW v \in Volumes, ReconcileNodeExists(v)
      PROVE  /\ recPc' \notin {"grace", "untrack"}
             /\ UNCHANGED <<am, handlers, cluster>>
  <2>1. Deref(listed[v], v) \in AttachmentRecord
    BY <1>2 DEF ReconcileNodeExists, SafetyInv, HeldPointerSound, PointerSound, TypeOK,
                Pointer, Deref
  <2>2. Deref(listed[v], v).NodeID \in nodeCache
    BY <2>1 DEF AttachmentRecord, ExclusionInv
  <2> QED
    BY <1>2, <2>2 DEF ReconcileNodeExists, NodeIDTorn, BenignEnvironment
<1>3. CASE ReconcileGrace \/ ReconcileUntrack
  BY <1>3 DEF ReconcileGrace, ReconcileUntrack, ExclusionInv
<1>4. CASE ReconcileDone
  BY <1>4 DEF ReconcileDone
<1> QED
  BY <1>1, <1>2, <1>3, <1>4 DEF ReconcileStep

LEMMA ReconcileExclusion ==
  ASSUME BenignEnvironment, SafetyInv, ExclusionInv, ReconcileList \/ ReconcileStep
  PROVE  ExclusionInv'
<1>1. /\ recPc' \notin {"grace", "untrack"}
      /\ UNCHANGED <<am, handlers, cluster>>
  BY ReconcileEffect
<1>2. UNCHANGED <<attachments, pc, req, granted, va, nodes, nodeCache>>
  BY <1>1 DEF am, handlers, cluster
<1>3. \A v \in Volumes : Tracked(v)' = Tracked(v)
  BY <1>2 DEF Tracked
<1> QED
  BY <1>1, <1>2, <1>3, CallsKept, MapKept DEF ExclusionInv

(* No volume is tracked for more nodes than its access mode allows. *)
LEMMA TrackedLimit ==
  ASSUME SafetyInv, ExclusionInv, NEW v \in Volumes
  PROVE  /\ Tracked(v) \in SUBSET Node
         /\ Cardinality(Tracked(v)) <= NodeLimit(ModeOf[v])
         /\ Cardinality(Tracked(v)) <= 2
<1>1. CASE attachments[v] = Nil
  <2>1. Tracked(v) = {}
    BY <1>1 DEF Tracked
  <2>2. Cardinality(Tracked(v)) = 0
    BY <2>1, FS_EmptySet, Zenon
  <2> QED
    BY <2>1, <2>2 DEF NodeLimit
<1>2. CASE attachments[v] # Nil
  <2>1. attachments[v] \in AttachmentRecord /\ WellFormed(attachments[v])
    BY <1>2 DEF SafetyInv, TypeOK, RecordWellFormed
  <2>2. Tracked(v) \in SUBSET Node /\ Cardinality(Tracked(v)) <= 2
    BY <1>2, <2>1 DEF Tracked, AttachmentRecord, WellFormed
  <2> QED
    BY <2>2, ConstantsAssumption DEF NodeLimit, ExclusionInv, VolumeExclusive, AccessModes
<1> QED
  BY <1>1, <1>2

(* A restart rebuilds exactly what the VolumeAttachments say, and they say *)
(* all that was granted: of the at most two of a volume none is dropped.   *)
LEMMA RestartTracked ==
  ASSUME BenignEnvironment, SafetyInv, ExclusionInv, Restart, NEW v \in Volumes
  PROVE  granted[v] \subseteq va[v] /\ Tracked(v)' = va[v]
<1>1. granted[v] \subseteq va[v] /\ attachments'[v] \in RebuildStateFromVolumeAttachments(v)
  BY DEF Restart, Reboot, BenignEnvironment
<1>2. va[v] \in SUBSET Node /\ Cardinality(va[v]) <= 2
  <2>1. va[v] \in SUBSET Node /\ va[v] \subseteq Tracked(v)
    BY DEF SafetyInv, TypeOK, ExclusionInv, VolumeExclusive
  <2>2. Tracked(v) \in SUBSET Node /\ Cardinality(Tracked(v)) <= 2
    BY TrackedLimit
  <2>3. Cardinality(va[v]) <= Cardinality(Tracked(v))
    BY <2>1, <2>2, CardinalityFacts, FS_Subset
  <2> QED
    BY <2>1, <2>2, <2>3, CardinalityFacts
<1>3. CASE va[v] = {}
  BY <1>1, <1>3, ZenonT(30) DEF RebuildStateFromVolumeAttachments, Tracked
<1>4. CASE va[v] # {}
  <2>1. PICK mode \in AccessModes : attachments'[v] \in RebuiltRecords(va[v], mode)
    BY <1>1, <1>4, ConstantsAssumption DEF RebuildStateFromVolumeAttachments, AccessModes
  <2>2. attachments'[v] \in AttachmentRecord /\ attachments'[v].Nodes = va[v]
    BY <1>2, <1>4, <2>1, RebuiltSound
  <2> QED
    BY <1>1, <2>2, ConstantsAssumption DEF Tracked
<1> QED
  BY <1>3, <1>4

LEMMA RestartExclusion ==
  ASSUME BenignEnvironment, SafetyInv, ExclusionInv, Restart
  PROVE  ExclusionInv'
<1>1. /\ pc' = [t \in Threads |-> "idle"] /\ recPc' = "idle" /\ nodeCache' = nodes
      /\ UNCHANGED <<nodes, va, granted>>
  BY DEF Restart, Reboot
<1>2. ASSUME NEW v \in Volumes PROVE VolumeExclusive(v)'
  <2>1. granted[v] \subseteq va[v] /\ Tracked(v)' = va[v]
    BY RestartTracked
  <2>2. va[v] \subseteq Tracked(v) /\ (ModeOf[v] = "RWO" => Cardinality(Tracked(v)) <= 1)
    BY DEF ExclusionInv, VolumeExclusive
  <2>3. va[v] \in SUBSET Node /\ Tracked(v) \in SUBSET Node
    BY DEF SafetyInv, TypeOK, Tracked, AttachmentRecord
  <2>4. Cardinality(va[v]) <= Cardinality(Tracked(v))
    BY <2>2, <2>3, CardinalityFacts, FS_Subset, ZenonT(30)
  <2>5. ModeOf[v] = "RWO" => Cardinality(va[v]) <= 1
    BY <2>2, <2>3, <2>4, CardinalityFacts
  <2>6. ModeOf[v] = "RWO" => Cardinality(Tracked(v)') <= 1
    BY <2>1, <2>5, Zenon
  <2> QED
    BY <1>1, <2>1, <2>6 DEF VolumeExclusive
<1> QED
  BY <1>1, <1>2 DEF ExclusionInv

(* Time that passes changes no volume's nodes. *)
LEMMA ExpiryTracked ==
  ASSUME SafetyInv, NEW v \in Volumes, GraceExpires(v) \/ MigrationExpires(v)
  PROVE  \A w \in Volumes : Tracked(w)' = Tracked(w)
<1>1. CASE GraceExpires(v)
  BY <1>1 DEF GraceExpires, Tracked
<1>2. CASE MigrationExpires(v)
  <2>1. /\ attachments' = [attachments EXCEPT ![v].MigrationStartedAt = "past"]
        /\ attachments[v] # Nil
    BY <1>2 DEF MigrationExpires
  <2>2. attachments[v] \in AttachmentRecord
    BY <2>1 DEF SafetyInv, TypeOK
  <2>3. attachments'[v] = [attachments[v] EXCEPT !.MigrationStartedAt = "past"]
    BY <2>1 DEF SafetyInv, TypeOK
  <2>4. attachments'[v] # Nil /\ attachments'[v].Nodes = attachments[v].Nodes
    <3>1. attachments'[v] \in AttachmentRecord
      BY <2>2, <2>3 DEF AttachmentRecord, Instants
    <3> QED
      BY <2>2, <2>3, <3>1, ConstantsAssumption DEF AttachmentRecord
  <2>5. \A w \in Volumes \ {v} : attachments'[w] = attachments[w]
    BY <2>1 DEF SafetyInv, TypeOK
  <2> QED
    BY <2>1, <2>4, <2>5 DEF Tracked
<1> QED
  BY <1>1, <1>2

(* In a benign environment nodes stay and no call is lost. *)
LEMMA EnvironmentExclusion ==
  ASSUME BenignEnvironment, SafetyInv, ExclusionInv, Environment
  PROVE  ExclusionInv'
<1>1. CASE \E v \in Volumes : MarkAttached(v)
  <2>1. PICK v \in Volumes : MarkAttached(v)
    BY <1>1
  <2>2. /\ va' = [va EXCEPT ![v] = @ \cup granted[v]]
        /\ UNCHANGED <<attachments, pc, req, recPc, granted, nodes, nodeCache>>
    BY <2>1 DEF MarkAttached, am, handlers, rec
  <2>3. Tracked(v)' = Tracked(v)
    BY <2>2 DEF Tracked
  <2>4. ModeOf[v] = "RWO" => Cardinality(Tracked(v)') <= 1
    <3>1. ModeOf[v] = "RWO" => Cardinality(Tracked(v)) <= 1
      BY DEF ExclusionInv, VolumeExclusive
    <3> QED
      BY <2>3, <3>1, Zenon
  <2>5. /\ \A w \in Volumes \ {v} : va'[w] = va[w]
        /\ va'[v] = va[v] \cup granted[v]
    BY <2>2, ZenonT(30) DEF SafetyInv, TypeOK
  <2>6. \A w \in Volumes : VolumeExclusive(w)'
    BY <2>2, <2>3, <2>4, <2>5, VolumesExclusive, Zenon DEF ExclusionInv, VolumeExclusive
  <2>7. \A w \in Volumes : granted[w] = {} => va'[w] = va[w]
    BY <2>5, Zenon
  <2> QED
    BY <2>2, <2>6, <2>7, CallsKept, ZenonT(40) DEF ExclusionInv
<1>2. CASE \E v \in Volumes : GraceExpires(v) \/ MigrationExpires(v)
  <2>1. PICK v \in Volumes : GraceExpires(v) \/ MigrationExpires(v)
    BY <1>2
  <2>2. UNCHANGED <<pc, req, recPc, granted, va, nodes, nodeCache>>
    BY <2>1 DEF GraceExpires, MigrationExpires, handlers, rec, cluster
  <2>3. \A w \in Volumes : Tracked(w)' = Tracked(w)
    BY <2>1, ExpiryTracked
  <2> QED
    BY <2>2, <2>3, CallsKept, MapKept DEF ExclusionInv
<1>3. ~(\E t \in Threads : CallTimeout(t)) /\ ~(\E n \in Node : NodeDelete(n) \/ NodeCreate(n))
      /\ ~InformerSync
  BY DEF BenignEnvironment, CallTimeout, NodeDelete, NodeCreate, InformerSync, ExclusionInv
<1> QED
  BY <1>1, <1>2, <1>3, RestartExclusion DEF Environment

(* In a benign environment, for every number of volumes, nodes and calls:  *)
(* calls of ControllerPublishVolume and ControllerUnpublishVolume that     *)
(* interleave in any way keep ExclusionInv, across failing API calls,      *)
(* force-detaches and restarts.                                            *)
THEOREM Exclusion ==
  ASSUME BenignEnvironment
  PROVE  Spec => []ExclusionInv
<1>1. SafetyInv /\ TimeoutReadInv /\ ExclusionInv /\ [Next]_vars => ExclusionInv'
  <2> SUFFICES ASSUME SafetyInv, TimeoutReadInv, ExclusionInv, [Next]_vars
               PROVE  ExclusionInv'
    BY ZenonT(30)
  <2>1. CASE UNCHANGED vars
    <3>1. UNCHANGED <<attachments, pc, req, recPc, granted, va, nodes, nodeCache>>
      BY <2>1 DEF vars, am, handlers, rec, cluster
    <3>2. \A v \in Volumes : Tracked(v)' = Tracked(v)
      BY <3>1 DEF Tracked
    <3> QED
      BY <3>1, <3>2, CallsKept, MapKept DEF ExclusionInv
  <2>2. ASSUME NEW t \in Threads, HandlerStep(t) PROVE ExclusionInv'
    <3>1. ~PublishHandoff(t) /\ ~PublishHeal(t)
      BY DEF PublishHandoff, PublishHeal, ExclusionInv, CallExclusive
    <3> QED
      BY <2>2, <3>1, ReadExclusion, AddSecondaryExclusion, TrackExclusion,
         PersistExclusion, RemoveExclusion, Zenon DEF HandlerStep, PublishStep
  <2> QED
    BY <2>1, <2>2, CallExclusion, ReconcileExclusion, EnvironmentExclusion DEF Next
<1> QED
  BY InitExclusion, Safety, TimeoutReads, <1>1, PTL DEF Spec

(* So every node that was told it may use a volume is tracked for it:      *)
(* neither a rollback nor an untrack nor a rebuild loses it.               *)
THEOREM GrantsTracked ==
  ASSUME BenignEnvironment
  PROVE  Spec => []GrantedTracked
<1>1. ExclusionInv => GrantedTracked
  BY DEF ExclusionInv, VolumeExclusive, GrantedTracked, Tracked, IsAttachedToNode
<1> QED
  BY <1>1, Exclusion, PTL

(* And ControllerPublishVolume enforces the access mode: an RWO volume is  *)
(* in use by one node at most, an RWX volume by two.                       *)
THEOREM NodeLimits ==
  ASSUME BenignEnvironment
  PROVE  Spec => []NodeLimitRespected
<1>1. SafetyInv /\ ExclusionInv => NodeLimitRespected
  <2> SUFFICES ASSUME SafetyInv, ExclusionInv, NEW v \in Volumes
               PROVE  Cardinality(granted[v]) <= NodeLimit(ModeOf[v])
    BY DEF NodeLimitRespected
  <2>1. /\ Tracked(v) \in SUBSET Node
        /\ Cardinality(Tracked(v)) <= NodeLimit(ModeOf[v])
    BY TrackedLimit
  <2>2. granted[v] \in SUBSET Node /\ granted[v] \subseteq Tracked(v)
    BY DEF SafetyInv, TypeOK, ExclusionInv, VolumeExclusive
  <2>3. /\ Cardinality(granted[v]) <= Cardinality(Tracked(v))
        /\ Cardinality(granted[v]) \in Nat /\ Cardinality(Tracked(v)) \in Nat
    BY <2>1, <2>2, CardinalityFacts, FS_Subset
  <2> QED
    BY <2>1, <2>3 DEF NodeLimit
<1> QED
  BY <1>1, Safety, Exclusion, PTL

-----------------------------------------------------------------------------
(* The refinement: the nodes a volume is tracked for are its owners, and   *)
(* every step reserves, grants, withdraws, releases or stutters.           *)

Owners == [v \in Volumes |-> Tracked(v)]

Stutter == UNCHANGED <<Owners, granted>>

LEMMA InitRegistry == Init => Registry!Init
  BY DEF Init, Registry!Init, Tracked

LEMMA StutterMaps ==
  ASSUME UNCHANGED granted, \A v \in Volumes : Tracked(v)' = Tracked(v)
  PROVE  Stutter
<1>1. Owners' = Owners
  BY DEF Owners
<1> QED
  BY <1>1 DEF Stutter

TrackedWithinLimit ==
  \A v \in Volumes : /\ Tracked(v) \in SUBSET Node
                     /\ Cardinality(Tracked(v)) <= NodeLimit(ModeOf[v])

(* A node joins, or already is among, the nodes of a volume.               *)
LEMMA OwningMaps ==
  ASSUME TrackedWithinLimit', NEW v \in Volumes, NEW n \in Node,
         Tracked(v)' = Tracked(v) \cup {n},
         \A w \in Volumes \ {v} : Tracked(w)' = Tracked(w),
         granted' \in {granted, [granted EXCEPT ![v] = @ \cup {n}]}
  PROVE  Registry!Next
<1>1. Owners' = [Owners EXCEPT ![v] = @ \cup {n}]
  BY Zenon DEF Owners
<1>2. Tracked(v)' \in {S \in SUBSET Node : Cardinality(S) <= NodeLimit(ModeOf[v])}
  BY DEF TrackedWithinLimit
<1>3. Owners[v] \cup {n} \in
        [w \in Volumes |-> {S \in SUBSET Node : Cardinality(S) <= NodeLimit(ModeOf[w])}][v]
  BY <1>2, Zenon DEF Owners
<1>4. Registry!Owning(v, n)
  BY <1>1, <1>3, Zenon DEF Registry!Owning, Owners
<1>5. Registry!Reserve(v, n) \/ Registry!Grant(v, n)
  BY <1>4 DEF Registry!Reserve, Registry!Grant
<1> QED
  BY <1>5 DEF Registry!Next

(* A call starts: at most the node it unpublishes stops using the volume.  *)
LEMMA WithdrawMaps ==
  ASSUME TypeOK, NEW v \in Volumes, NEW S \in SUBSET granted[v],
         granted' = [granted EXCEPT ![v] = S],
         \A w \in Volumes : Tracked(w)' = Tracked(w)
  PROVE  Registry!Next
<1>1. Owners' = Owners
  BY DEF Owners
<1>2. Registry!Withdraw(v)
  BY <1>1, Zenon DEF Registry!Withdraw, Owners
<1> QED
  BY <1>2 DEF Registry!Next

(* Nodes that do not use a volume are forgotten.                           *)
LEMMA ReleaseMaps ==
  ASSUME ExclusionInv', TrackedWithinLimit', UNCHANGED granted,
         \A v \in Volumes : Tracked(v)' \subseteq Tracked(v)
  PROVE  Registry!Next
<1>1. Registry!Release
  BY DEF Registry!Release, ExclusionInv, VolumeExclusive, TrackedWithinLimit
<1> QED
  BY <1>1 DEF Registry!Next

(* Every step of a call takes one of these forms. *)
LEMMA HandlerMaps ==
  ASSUME BenignEnvironment, SafetyInv, TimeoutReadInv, ExclusionInv,
         ExclusionInv', TrackedWithinLimit', NEW t \in Threads, HandlerStep(t)
  PROVE  Registry!Next \/ Stutter
<1>1. CASE \/ PublishCheck(t) \/ PublishGet(t) \/ PublishAttached(t)
           \/ PublishCount(t) \/ PublishMigration(t) \/ PublishTimedOut(t)
           \/ PublishGrace(t) \/ PublishValidate(t) \/ ClearDetachTimestamp(t)
  <2>1. PICK v \in Volumes, n \in Node :
          \/ granted' = granted
          \/ n \in Tracked(v) /\ granted' = [granted EXCEPT ![v] = @ \cup {n}]
    BY <1>1, ReadEffect, Zenon
  <2>2. UNCHANGED attachments
    BY <1>1, ReadEffect, Zenon
  <2>3. \A w \in Volumes : Tracked(w)' = Tracked(w)
    BY <2>2, Zenon DEF Tracked
  <2> QED
    BY <2>1, <2>3, StutterMaps, OwningMaps, ZenonT(30)
<1>2. CASE AddSecondaryAttachment(t)
  <2>1. PICK v \in Volumes, n \in Node :
          /\ granted' \in {granted, [granted EXCEPT ![v] = @ \cup {n}]}
          /\ \A w \in Volumes \ {v} : attachments'[w] = attachments[w]
          /\ \/ Tracked(v)' = Tracked(v) /\ (granted' = granted \/ n \in Tracked(v))
             \/ Tracked(v)' = Tracked(v) \cup {n}
    BY <1>2, AddSecondaryServed, Zenon
  <2>2. \A w \in Volumes \ {v} : Tracked(w)' = Tracked(w)
    BY <2>1, Zenon DEF Tracked
  <2>3. CASE Tracked(v)' = Tracked(v) /\ granted' = granted
    <3>1. \A w \in Volumes : Tracked(w)' = Tracked(w)
      BY <2>2, <2>3, Zenon
    <3> QED
      BY <2>3, <3>1, StutterMaps, Zenon
  <2>4. CASE Tracked(v)' = Tracked(v) \cup {n}
    BY <2>1, <2>2, <2>4, OwningMaps, Zenon
  <2>5. ASSUME n \in Tracked(v) PROVE Tracked(v) = Tracked(v) \cup {n}
    BY <2>5, Zenon
  <2> QED
    BY <2>1, <2>3, <2>4, <2>5, Zenon
<1>3. CASE TrackAttachment(t)
  <2>1. PICK v \in Volumes, n \in Node : v = req[t].vol /\ n = req[t].node
    BY <1>3, RequestFacts, Zenon DEF TrackAttachment, PublishPc, SafetyInv
  <2>2. CASE attachments[v] = Nil
    <3>1. /\ attachments' = [attachments EXCEPT ![v] = NewRecord(n, ModeOf[v])]
          /\ UNCHANGED granted
      BY <1>3, <2>1, <2>2, Zenon DEF TrackAttachment
    <3>2. NewRecord(n, ModeOf[v]) # Nil /\ NewRecord(n, ModeOf[v]).Nodes = {n}
      BY NewRecordSound, ConstantsAssumption, Zenon
    <3>3. Tracked(v)' = Tracked(v) \cup {n}
      BY <2>2, <3>1, <3>2, Zenon DEF Tracked, SafetyInv, TypeOK
    <3>4. \A w \in Volumes \ {v} : Tracked(w)' = Tracked(w)
      BY <3>1 DEF Tracked, SafetyInv, TypeOK
    <3> QED
      BY <3>1, <3>3, <3>4, OwningMaps, Zenon
  <2>3. CASE attachments[v] # Nil
    <3>1. /\ UNCHANGED attachments
          /\ \/ granted' = granted
             \/ n \in Tracked(v) /\ granted' = [granted EXCEPT ![v] = @ \cup {n}]
      BY <1>3, <2>1, <2>3, Zenon DEF TrackAttachment, Return, Tracked
    <3>2. \A w \in Volumes : Tracked(w)' = Tracked(w)
      BY <3>1 DEF Tracked
    <3>3. CASE granted' = granted
      BY <3>2, <3>3, StutterMaps, Zenon
    <3>4. CASE n \in Tracked(v) /\ granted' = [granted EXCEPT ![v] = @ \cup {n}]
      <4>1. Tracked(v)' = Tracked(v) \cup {n}
        BY <3>2, <3>4, Zenon
      <4> QED
        BY <3>2, <3>4, <4>1, OwningMaps, Zenon
    <3> QED
      BY <3>1, <3>3, <3>4, Zenon
  <2> QED
    BY <2>2, <2>3, Zenon
<1>4. CASE PersistAttachment(t)
  <2>1. PICK v \in Volumes, n \in Node :
          /\ v = req[t].vol /\ n = req[t].node
          /\ attachments[v] = NewRecord(n, ModeOf[v]) /\ n \in Tracked(v)
    BY <1>4, PersistServed, Zenon
  <2>3. CASE UNCHANGED attachments /\ granted' \in {granted, [granted EXCEPT ![v] = @ \cup {n}]}
    <3>1. \A w \in Volumes : Tracked(w)' = Tracked(w)
      BY <2>3, Zenon DEF Tracked
    <3>2. Tracked(v)' = Tracked(v) \cup {n}
      BY <2>1, <3>1, Zenon
    <3> QED
      BY <2>3, <3>1, <3>2, OwningMaps, Zenon
  <2>4. CASE attachments' = [attachments EXCEPT ![v] = Nil] /\ granted' = granted
    <3>1. \A w \in Volumes : Tracked(w)' \subseteq Tracked(w)
      BY <2>4 DEF Tracked, SafetyInv, TypeOK
    <3> QED
      BY <2>4, <3>1, ReleaseMaps, Zenon
  <2> QED
    BY <1>4, <2>1, <2>3, <2>4, ZenonT(30) DEF PersistAttachment, Return
<1>5. CASE RemoveNodeAttachment(t)
  <2>1. PICK v \in Volumes : v = req[t].vol
    BY <1>5, RequestFacts, Zenon DEF RemoveNodeAttachment, SafetyInv
  <2>2. UNCHANGED granted
    BY <1>5, Zenon DEF RemoveNodeAttachment, Return
  <2>3. /\ \A w \in Volumes \ {v} : attachments'[w] = attachments[w]
        /\ Tracked(v)' \subseteq Tracked(v)
    BY <1>5, <2>1, RemoveTracked
  <2>4. \A w \in Volumes : Tracked(w)' \subseteq Tracked(w)
    BY <2>3, ZenonT(30) DEF Tracked
  <2> QED
    BY <2>2, <2>4, ReleaseMaps, ZenonT(30)
<1>6. ~PublishHandoff(t) /\ ~PublishHeal(t)
  BY Zenon DEF PublishHandoff, PublishHeal, ExclusionInv, CallExclusive
<1> QED
  BY <1>1, <1>2, <1>3, <1>4, <1>5, <1>6 DEF HandlerStep, PublishStep

LEMMA CallMaps ==
  ASSUME SafetyInv, NEW t \in Threads, NEW v \in Volumes,
         \/ \E n \in Node : PublishStart(t, v, n)
         \/ \E n \in Node \cup {Nil} : UnpublishStart(t, v, n)
  PROVE  Registry!Next \/ Stutter
<1>1. UNCHANGED attachments
  BY DEF PublishStart, UnpublishStart, Call, am
<1>2. \A w \in Volumes : Tracked(w)' = Tracked(w)
  BY <1>1 DEF Tracked
<1>3. CASE UNCHANGED granted
  BY <1>2, <1>3, StutterMaps
<1>4. CASE \E S \in SUBSET granted[v] : granted' = [granted EXCEPT ![v] = S]
  BY <1>2, <1>4, WithdrawMaps, Zenon DEF SafetyInv
<1>5. UNCHANGED granted \/ \E S \in SUBSET granted[v] : granted' = [granted EXCEPT ![v] = S]
  BY DEF PublishStart, UnpublishStart
<1> QED
  BY <1>3, <1>4, <1>5

LEMMA EnvironmentMaps ==
  ASSUME BenignEnvironment, SafetyInv, ExclusionInv, ExclusionInv', TrackedWithinLimit',
         ReconcileList \/ ReconcileStep \/ Environment
  PROVE  Registry!Next \/ Stutter
<1>1. CASE ReconcileList \/ ReconcileStep
  <2>1. UNCHANGED <<attachments, granted>>
    BY <1>1, ReconcileEffect, ZenonT(30) DEF am, cluster
  <2> QED
    BY <2>1, StutterMaps DEF Tracked
<1>2. CASE \E v \in Volumes : MarkAttached(v)
  <2>1. UNCHANGED <<attachments, granted>>
    BY <1>2 DEF MarkAttached, am
  <2> QED
    BY <2>1, StutterMaps DEF Tracked
<1>3. CASE \E v \in Volumes : GraceExpires(v) \/ MigrationExpires(v)
  <2>1. UNCHANGED granted
    BY <1>3 DEF GraceExpires, MigrationExpires, cluster
  <2> QED
    BY <1>3, <2>1, ExpiryTracked, StutterMaps
<1>4. CASE Restart
  <2>1. UNCHANGED granted
    BY <1>4, ZenonT(30) DEF Restart, Reboot
  <2>2. \A v \in Volumes : Tracked(v)' \subseteq Tracked(v)
    BY <1>4, RestartTracked DEF ExclusionInv, VolumeExclusive
  <2> QED
    BY <2>1, <2>2, ReleaseMaps
<1>5. ~(\E t \in Threads : CallTimeout(t)) /\ ~(\E n \in Node : NodeDelete(n) \/ NodeCreate(n))
      /\ ~InformerSync
  BY DEF BenignEnvironment, CallTimeout, NodeDelete, NodeCreate, InformerSync, ExclusionInv
<1> QED
  BY <1>1, <1>2, <1>3, <1>4, <1>5, Zenon DEF Environment

(* In a benign environment, for every number of volumes, nodes and calls,  *)
(* ControllerPublishVolume, ControllerUnpublishVolume, the reconciler and  *)
(* the rebuild after a restart together implement AttachmentRegistry.      *)
THEOREM Refinement ==
  ASSUME BenignEnvironment
  PROVE  Spec => ImplementsRegistry
<1>1. SafetyInv /\ ExclusionInv => TrackedWithinLimit
  BY TrackedLimit DEF TrackedWithinLimit
<1>2. SafetyInv /\ TimeoutReadInv /\ ExclusionInv /\ ExclusionInv' /\ TrackedWithinLimit' /\ [Next]_vars
        => [Registry!Next]_<<[v \in Volumes |-> Tracked(v)], granted>>
  <2> SUFFICES ASSUME SafetyInv, TimeoutReadInv, ExclusionInv, ExclusionInv',
                      TrackedWithinLimit', [Next]_vars
               PROVE  Registry!Next \/ Stutter
    BY DEF Stutter, Owners
  <2>1. CASE UNCHANGED vars
    <3>1. UNCHANGED <<attachments, granted>>
      BY <2>1 DEF vars, am, cluster
    <3> QED
      BY <3>1, StutterMaps DEF Tracked
  <2> QED
    BY <2>1, HandlerMaps, CallMaps, EnvironmentMaps DEF Next
<1> QED
  BY <1>1, <1>2, InitRegistry, Safety, TimeoutReads, Exclusion, PTL DEF Spec, ImplementsRegistry, Registry!Spec

==============================================================================
