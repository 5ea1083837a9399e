------------------------- MODULE AttachmentRegistry -------------------------
(***************************************************************************)
(* What attachment tracking promises, without handlers, locks or restarts: *)
(* a node owns a volume before it may use it, the owners of a volume are   *)
(* nodes that may share it, and an owner keeps the volume for as long as   *)
(* it may use it.                                                          *)
(***************************************************************************)
CONSTANTS
  Volumes,
  Node,
  MayShare  \* for each volume, the sets of nodes that may own it together

VARIABLES
  owners,   \* the nodes each volume is reserved for
  grants    \* the nodes that may use it

Init ==
  /\ owners = [v \in Volumes |-> {}]
  /\ grants = [v \in Volumes |-> {}]

Owning(v, n) ==
  /\ owners[v] \cup {n} \in MayShare[v]
  /\ owners' = [owners EXCEPT ![v] = @ \cup {n}]

Reserve(v, n) == Owning(v, n) /\ UNCHANGED grants

(* The node is, or becomes, an owner and learns it. *)
Grant(v, n) ==
  /\ Owning(v, n)
  /\ grants' = [grants EXCEPT ![v] = @ \cup {n}]

(* Nodes stop using the volume ... *)
Withdraw(v) ==
  /\ grants' \in {[grants EXCEPT ![v] = S] : S \in SUBSET grants[v]}
  /\ UNCHANGED owners

(* ... and owners that do not use it are forgotten. *)
Release ==
  /\ owners' \in [Volumes -> SUBSET Node]
  /\ \A v \in Volumes : grants[v] \subseteq owners'[v] /\ owners'[v] \subseteq owners[v]
  /\ UNCHANGED grants

Next ==
  \/ \E v \in Volumes, n \in Node : Reserve(v, n) \/ Grant(v, n)
  \/ \E v \in Volumes : Withdraw(v)
  \/ Release

Spec == Init /\ [][Next]_<<owners, grants>>
=============================================================================
