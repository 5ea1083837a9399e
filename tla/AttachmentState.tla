--------------------------- MODULE AttachmentState ---------------------------
(***************************************************************************)
(* The attachment record of one volume (pkg/attachment/types.go) and what  *)
(* each method of AttachmentManager does to it (manager.go, rebuild.go).   *)
(*                                                                         *)
(* The Nodes slice is modelled as a set together with NodeID, its first    *)
(* element: the code never keeps more than two nodes, so the pair          *)
(* determines the order.  A timestamp is kept only as far as the code      *)
(* compares it with its period: "recent" (within the period), "past"       *)
(* (longer ago) or "nil" (not set).                                        *)
(***************************************************************************)
EXTENDS Naturals, FiniteSets

CONSTANTS
  Node,     \* Kubernetes node names
  Nil       \* an absent map entry, a nil pointer, a free lock

AccessModes == {"RWO", "RWX"}

Instants == {"nil", "recent", "past"}

AttachmentRecord ==
  [NodeID             : Node,
   Nodes              : SUBSET Node,
   AccessMode         : AccessModes,
   MigrationStartedAt : Instants,
   MigrationTimeout   : BOOLEAN]   \* FALSE: zero, the timeout is disabled

(* The node limit of a volume: one for RWO, two while an RWX volume migrates. *)
NodeLimit(mode) == IF mode = "RWX" THEN 2 ELSE 1

IsAttachedToNode(s, n) == s # Nil /\ n \in s.Nodes

NodeCount(s) == IF s = Nil THEN 0 ELSE Cardinality(s.Nodes)

IsMigrationTimedOut(s) == s.MigrationStartedAt = "past" /\ s.MigrationTimeout

(* A record has its primary among its nodes, one or two nodes, and a       *)
(* migration start exactly while it has two (types.go: "nil if not         *)
(* currently in migration state").                                         *)
WellFormed(s) ==
  /\ s.NodeID \in s.Nodes
  /\ Cardinality(s.Nodes) \in {1, 2}
  /\ s.MigrationStartedAt = "nil" <=> Cardinality(s.Nodes) = 1

(* TrackAttachmentWithMode: the record of a first attachment. *)
NewRecord(n, mode) ==
  [NodeID |-> n, Nodes |-> {n}, AccessMode |-> mode,
   MigrationStartedAt |-> "nil", MigrationTimeout |-> FALSE]

(* AddSecondaryAttachment: the record once the migration target n joins. *)
WithSecondary(s, n) ==
  [s EXCEPT !.Nodes = @ \cup {n},
            !.MigrationStartedAt = "recent",
            !.MigrationTimeout = TRUE]

(* Mutants of WithoutNode: the primary is blanked instead of replaced, the *)
(* migration is not ended, or the whole entry goes with one of its nodes.  *)
WithoutNodeBlankPrimary(s, n) ==
  LET rest == s.Nodes \ {n} IN
  IF rest = {} THEN Nil
  ELSE [s EXCEPT !.Nodes = rest, !.NodeID = IF @ = n THEN Nil ELSE @,
                 !.MigrationStartedAt = "nil", !.MigrationTimeout = FALSE]

WithoutNodeStillMigrating(s, n) ==
  LET rest == s.Nodes \ {n} IN
  IF rest = {} THEN Nil
  ELSE [s EXCEPT !.Nodes = rest, !.NodeID = IF @ = n THEN CHOOSE m \in rest : TRUE ELSE @]

WithoutNodeDropsAll(s, n) == Nil

(* RemoveNodeAttachment: the record once n, one of its nodes, has left. *)
WithoutNode(s, n) ==
  LET rest   == s.Nodes \ {n}
      single == \E m \in rest : rest = {m}
  IN  IF rest = {} THEN Nil
      ELSE [s EXCEPT
              !.Nodes  = rest,
              !.NodeID = IF @ = n THEN CHOOSE m \in rest : TRUE ELSE @,
              !.MigrationStartedAt = IF single THEN "nil" ELSE @,
              !.MigrationTimeout   = IF single THEN FALSE ELSE @]

(* rebuildVolumeState: the records that the attached VolumeAttachments vas *)
(* of a volume may give.  Only two are kept when there are more, in the    *)
(* order of the list; the migration start is the older creation time, and  *)
(* no timeout is set.                                                      *)
KeptOnlyOne(vas) == {{n} : n \in vas}   \* mutant

KeptAttachments(vas) ==
  IF Cardinality(vas) <= 2 THEN {vas}
  ELSE {S \in SUBSET vas : Cardinality(S) = 2}

RebuiltRecords(vas, mode) ==
  { s \in [NodeID             : vas,
           Nodes              : KeptAttachments(vas),
           AccessMode         : {mode},
           MigrationStartedAt : IF Cardinality(vas) = 1 THEN {"nil"}
                                ELSE {"recent", "past"},
           MigrationTimeout   : {FALSE}] : s.NodeID \in s.Nodes }
=============================================================================
