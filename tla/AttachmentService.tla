-------------------------- MODULE AttachmentService --------------------------
(***************************************************************************)
(* The attachment bookkeeping of the controller: the gRPC handlers         *)
(* ControllerPublishVolume and ControllerUnpublishVolume                   *)
(* (pkg/driver/controller.go) running concurrently over one                *)
(* AttachmentManager (pkg/attachment/manager.go), the background           *)
(* AttachmentReconciler (reconciler.go) and the rebuild of the in-memory   *)
(* state at start-up (rebuild.go), against a cluster that loses nodes,     *)
(* fails API calls, restarts the controller and stops waiting for calls.   *)
(*                                                                         *)
(* One action is one critical section: what a handler does between two     *)
(* moments at which another goroutine can run.  am.mu protects single      *)
(* sections and has no variable; the per-volume lock is held across the    *)
(* API call of persistAttachment and has one.                              *)
(*                                                                         *)
(* GetAttachment and ListAttachments return pointers into the map.  A held *)
(* pointer is Alias while its object is still the volume's map entry, and  *)
(* the object's last value once the entry was deleted or replaced.         *)
(***************************************************************************)
EXTENDS AttachmentState

CONSTANTS
  Volumes,    \* volume IDs
  Threads,    \* concurrent gRPC handlers
  ModeOf,     \* access mode of each volume, as its PV and its requests say
  Alias,      \* a pointer whose object is still in the map
  EnableAttachmentReconciler,  \* DriverConfig; also turns the grace period on
  Faults      \* which failures of the environment occur, see FaultKinds

FaultKinds ==
  { "persist",           \* the PV annotation cannot be written
    "api",               \* another API call fails
    "node_delete",       \* Node objects are deleted
    "node_create",       \* ... and created again under the same name
    "publish_timeout",   \* the caller stops waiting for a publish
    "unpublish_timeout", \* the caller stops waiting for an unpublish
    "force_detach",      \* unpublish with an empty node ID
    "crash",             \* the controller restarts
    "early_crash",       \* ... before external-attacher wrote status.attached
    "rebuild_fail",      \* VolumeAttachments cannot be listed at start-up
    "lookup_fail",       \* the PV cannot be read during the rebuild
    "stall",             \* a handler stalls for a whole migration timeout
    "torn_read" }        \* a string read during its assignment mixes two names

(* A request: node is Nil for the empty node ID; lost says that the caller *)
(* stopped waiting while the handler goes on.                              *)
Request == [vol : Volumes, node : Node \cup {Nil}, lost : BOOLEAN]

ASSUME ConstantsAssumption ==
  /\ ModeOf \in [Volumes -> AccessModes]
  /\ EnableAttachmentReconciler \in BOOLEAN
  /\ Faults \subseteq FaultKinds
  /\ IsFiniteSet(Node)
  /\ Nil \notin Node /\ Nil \notin Threads /\ Nil \notin Volumes
  /\ Nil \notin AttachmentRecord /\ Alias \notin AttachmentRecord
  /\ Nil \notin Request /\ Alias # Nil

VARIABLES
  attachments,       \* am.attachments
  detachTimestamps,  \* am.detachTimestamps
  volumeLocks,       \* holder of each per-volume lock
  pc,                \* where each handler is
  req,               \* the request each handler serves
  existing,          \* the pointer ControllerPublishVolume holds
  recPc,             \* where the reconciler is
  recVol,            \* the volume its loop body is at
  listed,            \* the pointers its ListAttachments returned
  nodes,             \* Node objects of the API server
  nodeCache,         \* the informer's view of them
  va,                \* nodes whose VolumeAttachment has status.attached
  granted            \* nodes told they may use the volume

am       == <<attachments, detachTimestamps, volumeLocks>>
handlers == <<pc, req, existing>>
rec      == <<recPc, recVol, listed>>
cluster  == <<nodes, nodeCache, va, granted>>
vars     == <<am, handlers, rec, cluster>>

Pointer == AttachmentRecord \cup {Nil, Alias}

PublishPc == {"check", "get", "attached", "count", "migration", "timedout", "add",
              "grace", "validate", "handoff", "clear", "heal", "track", "persist"}

(* Where existing is still to be read. *)
HoldingPc == {"attached", "count", "migration", "timedout", "grace", "validate"}

TypeOK ==
  /\ attachments \in [Volumes -> AttachmentRecord \cup {Nil}]
  /\ detachTimestamps \in [Volumes -> Instants]
  /\ volumeLocks \in [Volumes -> Threads \cup {Nil}]
  /\ pc \in [Threads -> PublishPc \cup {"idle", "remove"}]
  /\ req \in [Threads -> Request \cup {Nil}]
  /\ \A t \in Threads : /\ pc[t] = "idle" <=> req[t] = Nil
                        /\ pc[t] \in PublishPc => req[t].node \in Node
  /\ existing \in [Threads -> Pointer]
  /\ recPc \in {"idle", "scan", "grace", "untrack"}
  /\ recVol \in Volumes \cup {Nil}
  /\ listed \in [Volumes -> Pointer]
  /\ nodes \subseteq Node /\ nodeCache \subseteq Node
  /\ va \in [Volumes -> SUBSET Node]
  /\ granted \in [Volumes -> SUBSET Node]

Init ==
  /\ attachments = [v \in Volumes |-> Nil]
  /\ detachTimestamps = [v \in Volumes |-> "nil"]
  /\ volumeLocks = [v \in Volumes |-> Nil]
  /\ pc = [t \in Threads |-> "idle"]
  /\ req = [t \in Threads |-> Nil]
  /\ existing = [t \in Threads |-> Nil]
  /\ recPc = "idle"
  /\ recVol = Nil
  /\ listed = [v \in Volumes |-> Nil]
  /\ nodes = Node /\ nodeCache = Node
  /\ va = [v \in Volumes |-> {}]
  /\ granted = [v \in Volumes |-> {}]
-----------------------------------------------------------------------------
(* Mutant: the record's nodes are cut from the shared object before the    *)
(* entry is deleted.                                                       *)
OrphanExistingEmptied(v) ==
  [t \in Threads |-> IF existing[t] = Alias /\ req[t].vol = v
                       THEN [attachments[v] EXCEPT !.Nodes = {}] ELSE existing[t]]

(* The map entry of v is deleted or replaced: pointers to it keep the object. *)
OrphanExisting(v) ==
  [t \in Threads |-> IF existing[t] = Alias /\ req[t].vol = v
                       THEN attachments[v] ELSE existing[t]]

OrphanListed(v) ==
  [listed EXCEPT ![v] = IF @ = Alias THEN attachments[v] ELSE @]

Deref(p, v) == IF p = Alias THEN attachments[v] ELSE p

(* NodeID is read through p, without am.mu, while a RemoveNodeAttachment   *)
(* assigns it: pointer and length of the string may be of different names. *)
NodeIDTorn(p, v) ==
  /\ "torn_read" \in Faults
  /\ p = Alias /\ volumeLocks[v] = Nil
  /\ \E u \in Threads : /\ pc[u] = "remove" /\ req[u].vol = v
                        /\ req[u].node = attachments[v].NodeID
                        /\ NodeCount(attachments[v]) > 1

Goto(t, label) == pc' = [pc EXCEPT ![t] = label]

(* The held pointer is not read again. *)
Forget(t) == existing' = [existing EXCEPT ![t] = Nil]

(* The handler of t answers.  A successful publish lets the node use the   *)
(* volume, unless nobody waits for the answer any more or the node is      *)
(* gone; ptrs is what the step leaves of the held pointers.                *)
Return(t, published, ptrs) ==
  /\ Goto(t, "idle")
  /\ req' = [req EXCEPT ![t] = Nil]
  /\ existing' = [ptrs EXCEPT ![t] = Nil]
  /\ granted' = IF published /\ ~req[t].lost /\ req[t].node \in nodes
                  THEN [granted EXCEPT ![req[t].vol] = @ \cup {req[t].node}]
                  ELSE granted

(* An API call of t fails: by itself, or because t's context is cancelled  *)
(* once its caller has stopped waiting.                                    *)
CallFails(t, kind) == kind \in Faults \/ req[t].lost

(* external-attacher has at most one call per volume and node outstanding. *)
MayCall(t, v, n) ==
  /\ pc[t] = "idle"
  /\ \A u \in Threads :
       pc[u] # "idle" /\ ~req[u].lost => req[u].vol # v \/ req[u].node # n

Call(t, v, n, label) ==
  /\ Goto(t, label)
  /\ req' = [req EXCEPT ![t] = [vol |-> v, node |-> n, lost |-> FALSE]]
  /\ UNCHANGED <<existing, am, rec, nodes, nodeCache, va>>
-----------------------------------------------------------------------------
(* The process dies and starts again.  Initialize rebuilds the map from    *)
(* the VolumeAttachments before any goroutine runs; when the list cannot   *)
(* be read, Run goes on with an empty map.                                 *)
RebuildStateFromVolumeAttachments(v) ==
  IF va[v] = {} THEN {Nil}
  ELSE RebuiltRecords(va[v], ModeOf[v]) \cup
       IF "lookup_fail" \in Faults THEN RebuiltRecords(va[v], "RWO") ELSE {}

Reboot ==
  /\ \/ attachments' \in
          {a \in [Volumes -> UNION {RebuildStateFromVolumeAttachments(v) : v \in Volumes}] :
             \A v \in Volumes : a[v] \in RebuildStateFromVolumeAttachments(v)}
     \/ /\ "rebuild_fail" \in Faults
        /\ attachments' = [v \in Volumes |-> Nil]
  /\ detachTimestamps' = [v \in Volumes |-> "nil"]
  /\ volumeLocks' = [v \in Volumes |-> Nil]
  /\ pc' = [t \in Threads |-> "idle"]
  /\ req' = [t \in Threads |-> Nil]
  /\ existing' = [t \in Threads |-> Nil]
  /\ recPc' = "idle" /\ recVol' = Nil
  /\ listed' = [v \in Volumes |-> Nil]
  /\ nodeCache' = nodes
  /\ UNCHANGED <<nodes, va, granted>>
-----------------------------------------------------------------------------
(* ControllerPublishVolume *)

PublishStart(t, v, n) ==
  /\ MayCall(t, v, n)
  /\ Call(t, v, n, "check")
  /\ UNCHANGED granted

(* The requesting node is looked up in the API server, then the volume on  *)
(* the RDS; any error of either ends the call with NotFound.               *)
PublishCheck(t) ==
  /\ pc[t] = "check"
  /\ \/ /\ req[t].node \in nodes
        /\ Goto(t, "get")
        /\ UNCHANGED <<req, existing, granted>>
     \/ /\ req[t].node \notin nodes \/ CallFails(t, "api")
        /\ Return(t, FALSE, existing)
  /\ UNCHANGED <<am, rec, nodes, nodeCache, va>>

PublishGet(t) ==
  /\ pc[t] = "get"
  /\ IF attachments[req[t].vol] = Nil
       THEN Goto(t, "track") /\ UNCHANGED existing
       ELSE Goto(t, "attached") /\ existing' = [existing EXCEPT ![t] = Alias]
  /\ UNCHANGED <<req, am, rec, cluster>>

PublishAttached(t) ==
  LET v == req[t].vol IN
  /\ pc[t] = "attached"
  /\ IF IsAttachedToNode(attachments[v], req[t].node)
       THEN Return(t, TRUE, existing)
       ELSE /\ Goto(t, IF ModeOf[v] = "RWX" THEN "count" ELSE "grace")
            /\ UNCHANGED <<req, existing, granted>>
  /\ UNCHANGED <<am, rec, nodes, nodeCache, va>>

PublishCountIgnored(t) ==   \* mutant: the count is read but not compared
  /\ pc[t] = "count"
  /\ Goto(t, "migration")
  /\ UNCHANGED <<req, existing, am, rec, cluster>>

(* RWX: the two-node limit ... *)
PublishCount(t) ==
  /\ pc[t] = "count"
  /\ IF NodeCount(attachments[req[t].vol]) >= 2
       THEN Return(t, FALSE, existing)
       ELSE Goto(t, "migration") /\ UNCHANGED <<req, existing, granted>>
  /\ UNCHANGED <<am, rec, nodes, nodeCache, va>>

(* ... the timeout of a migration under way, and the check against an      *)
(* empty node list, read through the held pointer without am.mu ...        *)
PublishMigration(t) ==
  LET s == Deref(existing[t], req[t].vol) IN
  /\ pc[t] = "migration"
  /\ \/ /\ IsMigrationTimedOut(s)
        /\ Goto(t, "timedout")
        /\ UNCHANGED <<req, existing, granted>>
     \/ /\ ~IsMigrationTimedOut(s) /\ s.Nodes = {}
        /\ Return(t, FALSE, existing)
     \/ /\ ~IsMigrationTimedOut(s) /\ s.Nodes # {}
        /\ Goto(t, "add")
        /\ Forget(t)
        /\ UNCHANGED <<req, granted>>
  /\ UNCHANGED <<am, rec, nodes, nodeCache, va>>

(* ... and, to reject the call, *existing.MigrationStartedAt once more: if *)
(* the migration has ended in between, the dereference panics.             *)
PublishTimedOut(t) ==
  LET started == Deref(existing[t], req[t].vol).MigrationStartedAt IN
  /\ pc[t] = "timedout"
  /\ \/ /\ started # "nil"
        /\ Return(t, FALSE, existing)
        /\ UNCHANGED <<am, rec, nodes, nodeCache, va>>
     \/ started = "nil" /\ Reboot

AddSecondaryAnyCount(t) ==   \* mutant: no limit under the lock
  LET v == req[t].vol
      s == attachments[v]
  IN
  /\ pc[t] = "add"
  /\ volumeLocks[v] = Nil
  /\ attachments' = IF s = Nil THEN attachments
                    ELSE [attachments EXCEPT ![v] = WithSecondary(s, req[t].node)]
  /\ Return(t, s # Nil, existing)
  /\ UNCHANGED <<detachTimestamps, volumeLocks, rec, nodes, nodeCache, va>>

AddSecondaryAttachment(t) ==
  LET v == req[t].vol
      s == attachments[v]
      n == req[t].node
  IN
  /\ pc[t] = "add"
  /\ volumeLocks[v] = Nil
  /\ \/ /\ s = Nil
        /\ Return(t, FALSE, existing) /\ UNCHANGED attachments
     \/ /\ IsAttachedToNode(s, n)
        /\ Return(t, TRUE, existing) /\ UNCHANGED attachments
     \/ /\ s # Nil /\ n \notin s.Nodes /\ NodeCount(s) >= 2
        /\ Return(t, FALSE, existing) /\ UNCHANGED attachments
     \/ /\ s # Nil /\ n \notin s.Nodes /\ NodeCount(s) < 2
        /\ attachments' = [attachments EXCEPT ![v] = WithSecondary(s, n)]
        /\ Return(t, TRUE, existing)
  /\ UNCHANGED <<detachTimestamps, volumeLocks, rec, nodes, nodeCache, va>>

(* RWO: a volume detached within the grace period is handed over. *)
PublishGrace(t) ==
  /\ pc[t] = "grace"
  /\ IF EnableAttachmentReconciler /\ detachTimestamps[req[t].vol] = "recent"
       THEN Goto(t, "handoff") /\ Forget(t)
       ELSE Goto(t, "validate") /\ UNCHANGED existing
  /\ UNCHANGED <<req, am, rec, cluster>>

(* Otherwise the node the volume is attached to is looked up: an error and *)
(* an existing node end the call, a deleted one is healed.                 *)
PublishValidate(t) ==
  LET blocking == Deref(existing[t], req[t].vol).NodeID IN
  /\ pc[t] = "validate"
  /\ \/ /\ blocking \in nodes \/ CallFails(t, "api")
        /\ Return(t, FALSE, existing)
     \/ /\ blocking \notin nodes \/ NodeIDTorn(existing[t], req[t].vol)
        /\ Goto(t, "heal")
        /\ Forget(t)
        /\ UNCHANGED <<req, granted>>
  /\ UNCHANGED <<am, rec, nodes, nodeCache, va>>

UntrackUnlocked(v) ==   \* mutant: the per-volume lock is not taken
  /\ attachments' = [attachments EXCEPT ![v] = Nil]
  /\ detachTimestamps' = IF attachments[v] = Nil THEN detachTimestamps
                         ELSE [detachTimestamps EXCEPT ![v] = "recent"]
  /\ existing' = OrphanExisting(v)
  /\ UNCHANGED volumeLocks

(* UntrackAttachment, called by the publish handler and by the reconciler. *)
UntrackAttachment(v) ==
  /\ volumeLocks[v] = Nil
  /\ attachments' = [attachments EXCEPT ![v] = Nil]
  /\ detachTimestamps' = IF attachments[v] = Nil THEN detachTimestamps
                         ELSE [detachTimestamps EXCEPT ![v] = "recent"]
  /\ existing' = OrphanExisting(v)
  /\ UNCHANGED volumeLocks

PublishHandoff(t) ==
  /\ pc[t] = "handoff"
  /\ UntrackAttachment(req[t].vol)
  /\ listed' = OrphanListed(req[t].vol)
  /\ Goto(t, "clear")
  /\ UNCHANGED <<req, recPc, recVol, cluster>>

ClearDetachTimestamp(t) ==
  /\ pc[t] = "clear"
  /\ detachTimestamps' = [detachTimestamps EXCEPT ![req[t].vol] = "nil"]
  /\ Goto(t, "track")
  /\ UNCHANGED <<attachments, volumeLocks, req, existing, rec, cluster>>

PublishHeal(t) ==
  /\ pc[t] = "heal"
  /\ UntrackAttachment(req[t].vol)
  /\ listed' = OrphanListed(req[t].vol)
  /\ Goto(t, "track")
  /\ UNCHANGED <<req, recPc, recVol, cluster>>

(* TrackAttachmentWithMode up to the API call of persistAttachment. *)
TrackAttachment(t) ==
  LET v == req[t].vol
      s == attachments[v]
      n == req[t].node
  IN
  /\ pc[t] = "track"
  /\ volumeLocks[v] = Nil
  /\ \/ /\ s # Nil
        /\ Return(t, n \in s.Nodes, existing)
        /\ UNCHANGED <<attachments, volumeLocks>>
     \/ /\ s = Nil
        /\ attachments' = [attachments EXCEPT ![v] = NewRecord(n, ModeOf[v])]
        /\ volumeLocks' = [volumeLocks EXCEPT ![v] = t]
        /\ Goto(t, "persist")
        /\ UNCHANGED <<req, existing, granted>>
  /\ UNCHANGED <<detachTimestamps, rec, nodes, nodeCache, va>>

(* Mutants: the error path keeps the lock, or rolls back and still answers *)
(* with success.                                                           *)
PersistKeepsLock(t) ==
  LET v == req[t].vol IN
  /\ pc[t] = "persist"
  /\ \/ /\ Return(t, TRUE, existing) /\ UNCHANGED <<attachments, listed>>
        /\ volumeLocks' = [volumeLocks EXCEPT ![v] = Nil]
     \/ /\ CallFails(t, "persist")
        /\ attachments' = [attachments EXCEPT ![v] = Nil]
        /\ listed' = OrphanListed(v)
        /\ Return(t, FALSE, OrphanExisting(v))
        /\ UNCHANGED volumeLocks
  /\ UNCHANGED <<detachTimestamps, recPc, recVol, nodes, nodeCache, va>>

(* The rest of it: an error rolls the new entry back. *)
PersistAttachment(t) ==
  LET v == req[t].vol IN
  /\ pc[t] = "persist"
  /\ volumeLocks' = [volumeLocks EXCEPT ![v] = Nil]
  /\ \/ Return(t, TRUE, existing) /\ UNCHANGED <<attachments, listed>>
     \/ /\ CallFails(t, "persist")
        /\ attachments' = [attachments EXCEPT ![v] = Nil]
        /\ listed' = OrphanListed(v)
        /\ Return(t, FALSE, OrphanExisting(v))
  /\ UNCHANGED <<detachTimestamps, recPc, recVol, nodes, nodeCache, va>>
-----------------------------------------------------------------------------
(* ControllerUnpublishVolume *)

(* The caller unpublishes a node that has stopped using the volume. *)
UnpublishStart(t, v, n) ==
  /\ MayCall(t, v, n)
  /\ n = Nil => "force_detach" \in Faults
  /\ Call(t, v, n, "remove")
  /\ granted' = [granted EXCEPT ![v] = IF n = Nil THEN {} ELSE @ \ {n}]

RemoveUnlocked(t) ==   \* mutant: the per-volume lock is not taken
  LET v == req[t].vol
      n == req[t].node
      s == attachments[v]
      last == s # Nil /\ s.Nodes = {n}
  IN
  /\ pc[t] = "remove"
  /\ attachments' = IF IsAttachedToNode(s, n)
                      THEN [attachments EXCEPT ![v] = WithoutNode(s, n)]
                      ELSE attachments
  /\ detachTimestamps' = IF last
                           THEN [detachTimestamps EXCEPT ![v] = "recent"]
                           ELSE detachTimestamps
  /\ listed' = IF last THEN OrphanListed(v) ELSE listed
  /\ Return(t, FALSE, IF last THEN OrphanExisting(v) ELSE existing)
  /\ va' = IF req[t].lost THEN va
           ELSE [va EXCEPT ![v] = IF n = Nil THEN {} ELSE @ \ {n}]
  /\ UNCHANGED <<volumeLocks, recPc, recVol, nodes, nodeCache>>

(* RemoveNodeAttachment, and the answer, which is always success: the      *)
(* caller, if it still waits, deletes the VolumeAttachment.                *)
RemoveNodeAttachment(t) ==
  LET v == req[t].vol
      n == req[t].node
      s == attachments[v]
      last == s # Nil /\ s.Nodes = {n}
  IN
  /\ pc[t] = "remove"
  /\ volumeLocks[v] = Nil
  /\ attachments' = IF IsAttachedToNode(s, n)
                      THEN [attachments EXCEPT ![v] = WithoutNode(s, n)]
                      ELSE attachments
  /\ detachTimestamps' = IF last
                           THEN [detachTimestamps EXCEPT ![v] = "recent"]
                           ELSE detachTimestamps
  /\ listed' = IF last THEN OrphanListed(v) ELSE listed
  /\ Return(t, FALSE, IF last THEN OrphanExisting(v) ELSE existing)
  /\ va' = IF req[t].lost THEN va
           ELSE [va EXCEPT ![v] = IF n = Nil THEN {} ELSE @ \ {n}]
  /\ UNCHANGED <<volumeLocks, recPc, recVol, nodes, nodeCache>>
-----------------------------------------------------------------------------
(* AttachmentReconciler.reconcile *)

ReconcileList ==
  /\ EnableAttachmentReconciler
  /\ recPc = "idle"
  /\ recPc' = "scan"
  /\ listed' = [v \in Volumes |-> IF attachments[v] = Nil THEN Nil ELSE Alias]
  /\ UNCHANGED <<recVol, am, handlers, cluster>>

(* One volume of the list: only the node in NodeID is looked up. *)
ReconcileNodeExists(v) ==
  /\ recPc = "scan" /\ listed[v] # Nil
  /\ \/ /\ Deref(listed[v], v).NodeID \in nodeCache \/ "api" \in Faults
        /\ listed' = [listed EXCEPT ![v] = Nil]
        /\ UNCHANGED <<recPc, recVol>>
     \/ /\ Deref(listed[v], v).NodeID \notin nodeCache \/ NodeIDTorn(listed[v], v)
        /\ recPc' = "grace" /\ recVol' = v
        /\ UNCHANGED listed
  /\ UNCHANGED <<am, handlers, cluster>>

ReconcileGraceNil ==   \* mutant: a volume never detached counts as just detached
  /\ recPc = "grace"
  /\ IF detachTimestamps[recVol] \in {"recent", "nil"}
       THEN /\ recPc' = "scan" /\ recVol' = Nil
            /\ listed' = [listed EXCEPT ![recVol] = Nil]
       ELSE recPc' = "untrack" /\ UNCHANGED <<recVol, listed>>
  /\ UNCHANGED <<am, handlers, cluster>>

ReconcileGrace ==
  /\ recPc = "grace"
  /\ IF detachTimestamps[recVol] = "recent"
       THEN /\ recPc' = "scan" /\ recVol' = Nil
            /\ listed' = [listed EXCEPT ![recVol] = Nil]
       ELSE recPc' = "untrack" /\ UNCHANGED <<recVol, listed>>
  /\ UNCHANGED <<am, handlers, cluster>>

ReconcileUntrack ==
  /\ recPc = "untrack"
  /\ UntrackAttachment(recVol)
  /\ listed' = [listed EXCEPT ![recVol] = Nil]
  /\ recPc' = "scan" /\ recVol' = Nil
  /\ UNCHANGED <<pc, req, cluster>>

ReconcileDone ==
  /\ recPc = "scan"
  /\ \A v \in Volumes : listed[v] = Nil
  /\ recPc' = "idle"
  /\ UNCHANGED <<recVol, listed, am, handlers, cluster>>
-----------------------------------------------------------------------------
(* The cluster around the controller *)

(* external-attacher records an answered publish in the VolumeAttachment;  *)
(* only a restart reads it.                                                *)
MarkAttached(v) ==
  /\ Faults \cap {"crash", "early_crash"} # {}
  /\ ~(granted[v] \subseteq va[v])
  /\ va' = [va EXCEPT ![v] = @ \cup granted[v]]
  /\ UNCHANGED <<am, handlers, rec, nodes, nodeCache, granted>>

(* The caller's deadline passes; the handler keeps running. *)
CallTimeout(t) ==
  /\ \/ pc[t] \in PublishPc /\ "publish_timeout" \in Faults
     \/ pc[t] = "remove" /\ "unpublish_timeout" \in Faults
  /\ ~req[t].lost
  /\ req' = [req EXCEPT ![t].lost = TRUE]
  /\ UNCHANGED <<pc, existing, am, rec, cluster>>

(* A deleted node is gone: it uses no volume any more. *)
NodeDelete(n) ==
  /\ "node_delete" \in Faults
  /\ n \in nodes
  /\ nodes' = nodes \ {n}
  /\ granted' = [v \in Volumes |-> granted[v] \ {n}]
  /\ UNCHANGED <<am, handlers, rec, nodeCache, va>>

NodeCreate(n) ==
  /\ "node_create" \in Faults
  /\ n \notin nodes
  /\ nodes' = nodes \cup {n}
  /\ UNCHANGED <<am, handlers, rec, nodeCache, va, granted>>

InformerSync ==
  /\ nodeCache # nodes
  /\ nodeCache' = nodes
  /\ UNCHANGED <<am, handlers, rec, nodes, va, granted>>

(* Time passes: the grace period, or the migration timeout, is over.  No   *)
(* handler takes that long (30 s at least) from reading the node count to  *)
(* reading the migration start, unless it stalls.                          *)
GraceExpires(v) ==
  /\ detachTimestamps[v] = "recent"
  /\ detachTimestamps' = [detachTimestamps EXCEPT ![v] = "past"]
  /\ UNCHANGED <<attachments, volumeLocks, handlers, rec, cluster>>

MigrationExpires(v) ==
  /\ attachments[v] # Nil
  /\ attachments[v].MigrationStartedAt = "recent"
  /\ \/ "stall" \in Faults
     \/ \A t \in Threads : pc[t] = "migration" => req[t].vol # v
  /\ attachments' = [attachments EXCEPT ![v].MigrationStartedAt = "past"]
  /\ UNCHANGED <<detachTimestamps, volumeLocks, handlers, rec, cluster>>

Restart ==
  /\ \/ "early_crash" \in Faults
     \/ "crash" \in Faults /\ \A v \in Volumes : granted[v] \subseteq va[v]
  /\ Reboot
-----------------------------------------------------------------------------
PublishStep(t) ==
  \/ PublishCheck(t) \/ PublishGet(t) \/ PublishAttached(t)
  \/ PublishCount(t) \/ PublishMigration(t) \/ PublishTimedOut(t)
  \/ AddSecondaryAttachment(t)
  \/ PublishGrace(t) \/ PublishValidate(t) \/ PublishHandoff(t)
  \/ ClearDetachTimestamp(t) \/ PublishHeal(t)
  \/ TrackAttachment(t) \/ PersistAttachment(t)

HandlerStep(t) == PublishStep(t) \/ RemoveNodeAttachment(t)

ReconcileStep ==
  \/ \E v \in Volumes : ReconcileNodeExists(v)
  \/ ReconcileGrace \/ ReconcileUntrack \/ ReconcileDone

Environment ==
  \/ \E v \in Volumes : MarkAttached(v) \/ GraceExpires(v) \/ MigrationExpires(v)
  \/ \E t \in Threads : CallTimeout(t)
  \/ \E n \in Node : NodeDelete(n) \/ NodeCreate(n)
  \/ InformerSync
  \/ Restart

Next ==
  \/ \E t \in Threads, v \in Volumes, n \in Node : PublishStart(t, v, n)
  \/ \E t \in Threads, v \in Volumes, n \in Node \cup {Nil} : UnpublishStart(t, v, n)
  \/ \E t \in Threads : HandlerStep(t)
  \/ ReconcileList \/ ReconcileStep
  \/ Environment

Spec == Init /\ [][Next]_vars

(* Steps that wait for the per-volume lock.  A sync.Mutex hands over to a  *)
(* waiter that has waited for 1 ms, so a waiting goroutine gets the lock   *)
(* if it is free again and again: strong fairness.                         *)
LockStep(t) ==
  \/ AddSecondaryAttachment(t) \/ PublishHandoff(t) \/ PublishHeal(t)
  \/ TrackAttachment(t) \/ RemoveNodeAttachment(t)

(* Goroutines run, API calls end, the reconciler's ticker fires, informers *)
(* catch up and time passes.  Nobody has to call, and nothing has to fail. *)
Fairness ==
  /\ \A t \in Threads : WF_vars(PublishStep(t)) /\ SF_vars(LockStep(t))
  /\ WF_vars(ReconcileList)
  /\ WF_vars(ReconcileStep) /\ SF_vars(ReconcileUntrack)
  /\ WF_vars(InformerSync)
  /\ \A v \in Volumes : WF_vars(GraceExpires(v)) /\ WF_vars(MigrationExpires(v))

FairSpec == Spec /\ Fairness
-----------------------------------------------------------------------------
(* Every record in the map is well formed, whatever mix of first and       *)
(* secondary attachments, partial detaches, rollbacks and rebuilds made    *)
(* it: IsMigrationTimedOut, GetNodeCount and the primary-only checks of    *)
(* publish and reconciler rely on it.                                      *)
RecordWellFormed ==
  \A v \in Volumes : attachments[v] # Nil => WellFormed(attachments[v])

(* The entry that a failed persistAttachment rolls back is the one this    *)
(* very call inserted, and it still has no other node: delete(attachments) *)
(* in TrackAttachmentWithMode never drops the attachment of another call.  *)
RollbackIsOwn ==
  \A t \in Threads : pc[t] = "persist" =>
    /\ volumeLocks[req[t].vol] = t
    /\ attachments[req[t].vol] = NewRecord(req[t].node, ModeOf[req[t].vol])

(* The per-volume lock is held by nobody but a call that is persisting:    *)
(* every early return and every error path of the manager releases it.     *)
LockReleased ==
  \A v \in Volumes : volumeLocks[v] # Nil =>
    /\ pc[volumeLocks[v]] = "persist"
    /\ req[volumeLocks[v]].vol = v

(* While a call holds the per-volume lock nobody else changes the volume's *)
(* entry (lock.go: "serialize operations on individual volumes").          *)
LockedEntryStable ==
  [][\A v \in Volumes :
       volumeLocks[v] # Nil /\ volumeLocks'[v] = volumeLocks[v]
         => attachments'[v] = attachments[v]]_vars

(* The pointers ControllerPublishVolume and the reconciler keep from       *)
(* GetAttachment and ListAttachments are never nil where they are read,    *)
(* and the object behind one stays well formed even after other goroutines *)
(* removed it from the map: no empty node list ("corrupted state"), no     *)
(* primary outside it.                                                     *)
PointerSound(p, v) ==
  p # Nil => Deref(p, v) # Nil /\ WellFormed(Deref(p, v))

HeldPointerSound ==
  /\ \A t \in Threads :
       /\ pc[t] \in HoldingPc <=> existing[t] # Nil
       /\ PointerSound(existing[t], req[t].vol)
  /\ \A v \in Volumes : PointerSound(listed[v], v)
  /\ recPc \in {"grace", "untrack"} <=> recVol # Nil
  /\ recVol # Nil => listed[recVol] # Nil

(* The rejection of a timed-out migration never dereferences a nil         *)
(* MigrationStartedAt, although RemoveNodeAttachment may clear it at any   *)
(* moment: the count read under am.mu rules a running migration out, and   *)
(* an object that has left the map is not changed any more.                *)
NoNilDereference ==
  \A t \in Threads : pc[t] = "timedout" =>
    Deref(existing[t], req[t].vol).MigrationStartedAt # "nil"

(* Why it does not, as an inductive invariant, as long as no handler       *)
(* stalls.                                                                 *)
TimeoutReadInv ==
  "stall" \notin Faults => \A t \in Threads :
    /\ pc[t] = "migration" /\ existing[t] = Alias
         => attachments[req[t].vol].MigrationStartedAt # "past"
    /\ pc[t] = "timedout"
         => existing[t] # Alias /\ existing[t].MigrationStartedAt # "nil"

(* Every node that was told it may use a volume is tracked for it.         *)
GrantedTracked ==
  \A v \in Volumes : \A n \in granted[v] : IsAttachedToNode(attachments[v], n)

(* ControllerPublishVolume "enforces RWO semantics": an RWO volume is in   *)
(* use by one node at a time, an RWX volume by at most two.                *)
NodeLimitRespected ==
  \A v \in Volumes : Cardinality(granted[v]) <= NodeLimit(ModeOf[v])

(* The environment in which attachments are exclusive: calls are waited    *)
(* for, nodes stay, a restart finds every answered publish in the          *)
(* VolumeAttachments, and no RWO volume is subject to the grace period.    *)
BenignEnvironment ==
  /\ Faults \subseteq {"persist", "api", "force_detach", "crash", "lookup_fail"}
  /\ EnableAttachmentReconciler => \A v \in Volumes : ModeOf[v] = "RWX"

(* The nodes a volume is tracked for, and the registry they are the owners *)
(* of.                                                                     *)
Tracked(v) == IF attachments[v] = Nil THEN {} ELSE attachments[v].Nodes

Registry == INSTANCE AttachmentRegistry WITH
  MayShare <- [v \in Volumes |->
                 {S \in SUBSET Node : Cardinality(S) <= NodeLimit(ModeOf[v])}],
  owners   <- [v \in Volumes |-> Tracked(v)],
  grants   <- granted

(* The handlers over the AttachmentManager implement the registry: a node  *)
(* is tracked before its publish succeeds, stays tracked until it is       *)
(* unpublished, across restarts too, and the node limit is never exceeded. *)
ImplementsRegistry == Registry!Spec

(* Why it does, as an inductive invariant: no two calls for the same       *)
(* volume and node, no path that untracks a volume behind its node's back, *)
(* nobody granted a volume that is being persisted or detached, and every  *)
(* VolumeAttachment tracked.                                               *)
CallExclusive(t) ==
  /\ ~req[t].lost
  /\ pc[t] \notin {"handoff", "clear", "heal"}
  /\ pc[t] \in {"count", "migration", "add"} => ModeOf[req[t].vol] = "RWX"
  /\ pc[t] \in {"grace", "validate"} => ModeOf[req[t].vol] = "RWO"
  /\ pc[t] = "persist" => granted[req[t].vol] = {} /\ va[req[t].vol] = {}
  /\ pc[t] = "remove" => req[t].node \notin granted[req[t].vol]
  /\ \A u \in Threads \ {t} : pc[u] # "idle" =>
       req[u].vol # req[t].vol \/ req[u].node # req[t].node

VolumeExclusive(v) ==
  /\ granted[v] \subseteq Tracked(v) /\ va[v] \subseteq Tracked(v)
  /\ ModeOf[v] = "RWO" => Cardinality(Tracked(v)) <= 1

ExclusionInv ==
  /\ nodes = Node /\ nodeCache = Node
  /\ recPc \notin {"grace", "untrack"}
  /\ \A t \in Threads : pc[t] # "idle" => CallExclusive(t)
  /\ \A v \in Volumes : VolumeExclusive(v)

(* Every call is answered: no handler waits for ever for a per-volume      *)
(* lock, whatever other calls and the reconciler do.                       *)
CallReturns ==
  \A t \in Threads : pc[t] # "idle" ~> pc[t] = "idle"

(* An attachment whose primary node is gone does not stay (CAPABILITIES.md:*)
(* "automatically cleans up stale attachments"): the reconciler, a publish *)
(* or an unpublish removes it, unless the node comes back.                 *)
PrimaryStale(v, n) ==
  attachments[v] # Nil /\ attachments[v].NodeID = n /\ n \notin nodes

StaleCleared ==
  \A v \in Volumes, n \in Node : PrimaryStale(v, n) ~> ~PrimaryStale(v, n)
=============================================================================
