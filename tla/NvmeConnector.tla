---------------------------- MODULE NvmeConnector ----------------------------
(***************************************************************************)
(* NVMe/TCP connections of a node and the resolver that maps an NQN to a   *)
(* device path (pkg/nvme/nvme.go, resolver.go, sysfs.go).                  *)
(*                                                                         *)
(* A volume has one NQN.  A device path is a number: the kernel (external) *)
(* gives a new connection the smallest number that no connection has and   *)
(* that no mount or open device holds.  A cache entry past its TTL and no  *)
(* entry are the same.                                                     *)
(***************************************************************************)
EXTENDS Naturals, FiniteSets, FiniteSetsExt

CONSTANTS
  Volumes,
  Devices,    \* device numbers
  Orphaned,   \* a subsystem without a device
  None

ASSUME DevicesAssumption ==
  /\ Devices \subseteq Nat /\ IsFiniteSet(Devices)
  /\ Orphaned \notin Devices /\ None \notin Devices /\ None # Orphaned

VARIABLES
  conn,       \* each volume's connection: a number, Orphaned or None
  cache       \* DeviceResolver.cache

nvmeVars == <<conn, cache>>

NvmeTypeOK ==
  /\ conn \in [Volumes -> Devices \cup {Orphaned, None}]
  /\ cache \in [Volumes -> Devices \cup {None}]

NvmeInit ==
  /\ conn = [v \in Volumes |-> None]
  /\ cache = [v \in Volumes |-> None]

(* The numbers that have a device, and the volume behind one.              *)
Present == {d \in Devices : \E v \in Volumes : conn[v] = d}
OwnerOf(d) == CHOOSE v \in Volumes : conn[v] = d

(* The numbers that a new connection can get while some are held.          *)
Free(held) == Devices \ (Present \cup held)

(* FindDeviceByNQN: the scan of /sys/class/nvme.                           *)
FindDeviceByNQN(v) == IF conn[v] \in Devices THEN conn[v] ELSE None

(* ResolveDevicePath: a cached path answers as long as such a device       *)
(* exists, whoever it belongs to by now; else the scan does.               *)
ResolveDevicePath(v) ==
  IF cache[v] \in Present THEN cache[v] ELSE FindDeviceByNQN(v)

Resolve(v) ==
  cache' = IF ResolveDevicePath(v) = None THEN cache
           ELSE [cache EXCEPT ![v] = ResolveDevicePath(v)]

Invalidate(v) == cache' = [cache EXCEPT ![v] = None]

(* IsConnected: the subsystem is listed, with or without a device.         *)
IsConnected(v) == conn[v] # None

IsOrphanedSubsystem(v) == IsConnected(v) /\ FindDeviceByNQN(v) = None

(* "nvme connect" and "nvme disconnect".  Devices bounds the connections:  *)
(* one is made only if a number is free.                                   *)
Connect(v, held) ==
  \E d \in Free(held) : /\ \A e \in Free(held) : d <= e
                        /\ conn' = [conn EXCEPT ![v] = d]

DisconnectKeepsCache(v) ==   \* mutant: the resolver is not invalidated
  conn' = [conn EXCEPT ![v] = None] /\ UNCHANGED cache

Disconnect(v) == conn' = [conn EXCEPT ![v] = None] /\ Invalidate(v)

CleanupConnections ==   \* mutant: every connection counts as orphaned
  conn' = [v \in Volumes |-> None]

(* CleanupOrphanedConnections, when the plugin starts.                     *)
CleanupOrphanedConnections ==
  conn' = [v \in Volumes |-> IF IsOrphanedSubsystem(v) THEN None ELSE conn[v]]
=============================================================================
