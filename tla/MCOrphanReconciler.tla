---------------------------- MODULE MCOrphanReconciler -----------------------
(***************************************************************************)
(* OrphanReconciler for TLC: a volume, new or restored from a snapshot,    *)
(* and a snapshot of it.  Sizes are in units of 512 MiB: GB is 2.          *)
(***************************************************************************)
EXTENDS OrphanReconciler, TLC

CONSTANTS v1

Claims == [v \in Volumes |-> 2]
Taken == [s \in Snaps |-> v1]
=============================================================================
