---------------------------- MODULE MCNodeVolumes ----------------------------
(***************************************************************************)
(* Instances of NodeVolumes for TLC.  node.cfg: one filesystem volume and  *)
(* two faults, with liveness.  node_devices.cfg: a filesystem volume and a *)
(* block volume that share the device numbers, and one fault.              *)
(***************************************************************************)
EXTENDS NodeVolumes

CONSTANTS v1, v2
=============================================================================
