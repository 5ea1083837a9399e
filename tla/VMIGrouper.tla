----------------------------- MODULE VMIGrouper -----------------------------
(***************************************************************************)
(* Per-VMI serialization of ControllerPublishVolume                        *)
(* (pkg/driver/vmi_grouper.go): a publish looks up the virtual machine     *)
(* instance (VMI) that owns its PVC, through a cache with a TTL, and holds *)
(* a mutex of that VMI until it returns.  The mutexes are made on demand   *)
(* and leave the map when their reference count drops to zero.             *)
(*                                                                         *)
(* A mutex is an object with an identity: a goroutine keeps the one it was *)
(* given, whatever the map says later.  g.mu and g.cacheMu protect single  *)
(* sections and have no variable.                                          *)
(***************************************************************************)
EXTENDS Naturals, FiniteSets

CONSTANTS
  Threads,   \* concurrent publishes
  PVC,       \* claims they are for
  VMI,       \* VMI keys, "namespace/vmi-name"
  Locks,     \* vmiLock objects; one that nobody refers to can be allocated
  None,      \* the empty key, the nil pointer, the absent entry
  Faults     \* "api": listing the pods fails; "pods": pods come and go

ASSUME VMIAssumption ==
  /\ IsFiniteSet(Threads)
  /\ None \notin Threads /\ None \notin VMI /\ None \notin Locks
  /\ Faults \subseteq {"api", "pods"}

VARIABLES
  owner,     \* the VMI whose pod mounts the PVC, as the API server has it
  cache,     \* g.cache
  locks,     \* g.locks: the object of each VMI, None if it has none
  refCount,  \* lock.refCount of each object
  mu,        \* the goroutine that holds lock.mu of each object
  pc,        \* where each publish is
  pvc,       \* its PVC
  vmiKey,    \* the key resolveVMIForPVC returned
  lock       \* the object getOrCreateLock returned

vars == <<owner, cache, locks, refCount, mu, pc, pvc, vmiKey, lock>>

CacheEntry == [vmiKey : VMI \cup {None}, expired : BOOLEAN]

(* A publish between getOrCreateLock and the end of releaseLock.           *)
Uses(t) == pc[t] \in {"lock", "serialized", "release"}

TypeOK ==
  /\ owner \in [PVC -> VMI \cup {None}]
  /\ cache \in [PVC -> CacheEntry \cup {None}]
  /\ locks \in [VMI -> Locks \cup {None}]
  /\ refCount \in [Locks -> Nat]
  /\ mu \in [Locks -> Threads \cup {None}]
  /\ pc \in [Threads -> {"idle", "get_cached", "lookup", "set_cache",
                         "get_lock", "lock", "serialized", "free", "release"}]
  /\ pvc \in [Threads -> PVC]
  /\ vmiKey \in [Threads -> VMI \cup {None}]
  /\ lock \in [Threads -> Locks \cup {None}]
  /\ \A t \in Threads : (Uses(t) \/ pc[t] = "get_lock") => vmiKey[t] \in VMI

Init ==
  /\ owner \in [PVC -> VMI \cup {None}]
  /\ cache = [p \in PVC |-> None]
  /\ locks = [v \in VMI |-> None]
  /\ refCount = [l \in Locks |-> 0]
  /\ mu = [l \in Locks |-> None]
  /\ pc = [t \in Threads |-> "idle"]
  /\ pvc \in [Threads -> PVC]
  /\ vmiKey = [t \in Threads |-> None]
  /\ lock = [t \in Threads |-> None]

Goto(t, place) == pc' = [pc EXCEPT ![t] = place]

(* ControllerPublishVolume calls LockVMI for the PVC of its request.       *)
LockVMI(t) ==
  /\ pc[t] = "idle"
  /\ \E p \in PVC : pvc' = [pvc EXCEPT ![t] = p]
  /\ vmiKey' = [vmiKey EXCEPT ![t] = None]
  /\ lock' = [lock EXCEPT ![t] = None]
  /\ Goto(t, "get_cached")
  /\ UNCHANGED <<owner, cache, locks, refCount, mu>>

(* getCached: an entry that has not expired answers, found or not.  A PVC  *)
(* without a VMI is published without serialization.                       *)
GetCached(t) ==
  LET entry == cache[pvc[t]]
      hit   == entry # None /\ ~entry.expired
  IN /\ pc[t] = "get_cached"
     /\ \/ ~hit /\ Goto(t, "lookup") /\ UNCHANGED vmiKey
        \/ /\ hit /\ entry.vmiKey # None
           /\ vmiKey' = [vmiKey EXCEPT ![t] = entry.vmiKey]
           /\ Goto(t, "get_lock")
        \/ hit /\ entry.vmiKey = None /\ Goto(t, "free") /\ UNCHANGED vmiKey
     /\ UNCHANGED <<owner, cache, locks, refCount, mu, pvc, lock>>

(* lookupVMIFromAPI: the pods of the namespace are listed and searched for *)
(* one that mounts the PVC and belongs to a VMI; a failing call reads as   *)
(* "not found".                                                            *)
LookupVMIFromAPI(t) ==
  /\ pc[t] = "lookup"
  /\ \/ vmiKey' = [vmiKey EXCEPT ![t] = owner[pvc[t]]]
     \/ "api" \in Faults /\ vmiKey' = [vmiKey EXCEPT ![t] = None]
  /\ Goto(t, "set_cache")
  /\ UNCHANGED <<owner, cache, locks, refCount, mu, pvc, lock>>

(* Now and then setCache first removes the expired entries.                *)
CleanExpiredLocked(c) ==
  [p \in PVC |-> IF c[p] # None /\ c[p].expired THEN None ELSE c[p]]

SetCache(t) ==
  LET entry == [vmiKey |-> vmiKey[t], expired |-> FALSE]
  IN /\ pc[t] = "set_cache"
     /\ \E c \in {cache, CleanExpiredLocked(cache)} :
          cache' = [c EXCEPT ![pvc[t]] = entry]
     /\ Goto(t, IF vmiKey[t] = None THEN "free" ELSE "get_lock")
     /\ UNCHANGED <<owner, locks, refCount, mu, pvc, vmiKey, lock>>

Fresh(l) ==
  /\ \A v \in VMI : locks[v] # l
  /\ \A t \in Threads : Uses(t) => lock[t] # l

GetLockUncounted(t) ==   \* mutant: an existing lock is handed out without a reference
  LET v == vmiKey[t]
  IN /\ pc[t] = "get_lock"
     /\ \/ /\ locks[v] # None
           /\ lock' = [lock EXCEPT ![t] = locks[v]]
           /\ UNCHANGED <<locks, refCount, mu>>
        \/ /\ locks[v] = None
           /\ \E l \in Locks :
                /\ Fresh(l)
                /\ locks' = [locks EXCEPT ![v] = l]
                /\ lock' = [lock EXCEPT ![t] = l]
                /\ refCount' = [refCount EXCEPT ![l] = 1]
                /\ mu' = [mu EXCEPT ![l] = None]
     /\ Goto(t, "lock")
     /\ UNCHANGED <<owner, cache, pvc, vmiKey>>

GetOrCreateLock(t) ==
  LET v == vmiKey[t]
  IN /\ pc[t] = "get_lock"
     /\ \/ /\ locks[v] # None
           /\ lock' = [lock EXCEPT ![t] = locks[v]]
           /\ refCount' = [refCount EXCEPT ![locks[v]] = @ + 1]
           /\ UNCHANGED <<locks, mu>>
        \/ /\ locks[v] = None
           /\ \E l \in Locks :
                /\ Fresh(l)
                /\ locks' = [locks EXCEPT ![v] = l]
                /\ lock' = [lock EXCEPT ![t] = l]
                /\ refCount' = [refCount EXCEPT ![l] = 1]
                /\ mu' = [mu EXCEPT ![l] = None]
     /\ Goto(t, "lock")
     /\ UNCHANGED <<owner, cache, pvc, vmiKey>>

LockShared(t) ==   \* mutant: RLock of an RWMutex
  /\ pc[t] = "lock"
  /\ mu' = [mu EXCEPT ![lock[t]] = t]
  /\ Goto(t, "serialized")
  /\ UNCHANGED <<owner, cache, locks, refCount, pvc, vmiKey, lock>>

(* lock.mu.Lock()                                                          *)
Lock(t) ==
  /\ pc[t] = "lock"
  /\ mu[lock[t]] = None
  /\ mu' = [mu EXCEPT ![lock[t]] = t]
  /\ Goto(t, "serialized")
  /\ UNCHANGED <<owner, cache, locks, refCount, pvc, vmiKey, lock>>

UnlockForgotten(t) ==   \* mutant: the reference is dropped, the mutex stays locked
  /\ pc[t] = "serialized"
  /\ Goto(t, "release")
  /\ UNCHANGED <<owner, cache, locks, refCount, mu, pvc, vmiKey, lock>>

(* The handler returns: the deferred unlock function unlocks the object ...*)
Unlock(t) ==
  /\ pc[t] = "serialized"
  /\ mu' = [mu EXCEPT ![lock[t]] = None]
  /\ Goto(t, "release")
  /\ UNCHANGED <<owner, cache, locks, refCount, pvc, vmiKey, lock>>

(* ... and drops a reference from the object that the map has for the key. *)
ReleaseLock(t) ==
  LET v == vmiKey[t]
  IN /\ pc[t] = "release"
     /\ \/ locks[v] = None /\ UNCHANGED <<locks, refCount>>
        \/ /\ locks[v] # None
           /\ refCount' = [refCount EXCEPT ![locks[v]] = @ - 1]
           /\ locks' = IF refCount[locks[v]] <= 1
                       THEN [locks EXCEPT ![v] = None] ELSE locks
     /\ Goto(t, "idle")
     /\ UNCHANGED <<owner, cache, mu, pvc, vmiKey, lock>>

(* The handler of a PVC without a VMI returns.                             *)
ReturnFree(t) ==
  /\ pc[t] = "free"
  /\ Goto(t, "idle")
  /\ UNCHANGED <<owner, cache, locks, refCount, mu, pvc, vmiKey, lock>>

Step(t) ==
  \/ GetCached(t)
  \/ LookupVMIFromAPI(t)
  \/ SetCache(t)
  \/ GetOrCreateLock(t)
  \/ Unlock(t)
  \/ ReleaseLock(t)
  \/ ReturnFree(t)

(* The TTL of an entry passes.                                             *)
Expire(p) ==
  /\ cache[p] # None /\ ~cache[p].expired
  /\ cache' = [cache EXCEPT ![p].expired = TRUE]
  /\ UNCHANGED <<owner, locks, refCount, mu, pc, pvc, vmiKey, lock>>

(* Pods are created and deleted.                                           *)
PodsChange(p) ==
  /\ "pods" \in Faults
  /\ \E v \in VMI \cup {None} : owner' = [owner EXCEPT ![p] = v]
  /\ UNCHANGED <<cache, locks, refCount, mu, pc, pvc, vmiKey, lock>>

Next ==
  \/ \E t \in Threads : LockVMI(t) \/ Step(t) \/ Lock(t)
  \/ \E p \in PVC : Expire(p) \/ PodsChange(p)

Spec == Init /\ [][Next]_vars

(* Goroutines run and API calls end; a sync.Mutex that is free again and   *)
(* again goes to each of its waiters.  No publish is ever forced.          *)
Fairness ==
  /\ \A t \in Threads : WF_vars(Step(t)) /\ SF_vars(Lock(t))
  /\ \A p \in PVC : WF_vars(Expire(p))

FairSpec == Spec /\ Fairness

-----------------------------------------------------------------------------
(* vmi_grouper.go: operations are serialized per VMI.  No two publishes    *)
(* that resolved to the same VMI are past LockVMI at a time, although the  *)
(* mutex they contend for leaves the map and is made anew between them.    *)
SerializedPerVMI ==
  \A t, u \in Threads :
    pc[t] = "serialized" /\ pc[u] = "serialized" /\ vmiKey[t] = vmiKey[u]
      => t = u

(* The reference count of a mutex in the map is the number of publishes    *)
(* between getOrCreateLock and releaseLock, all of which have that very    *)
(* object; a VMI without such a publish has no mutex in the map.           *)
Users(v) == {t \in Threads : Uses(t) /\ vmiKey[t] = v}

RefCountExact ==
  \A v \in VMI :
    /\ locks[v] = None <=> Users(v) = {}
    /\ locks[v] # None => refCount[locks[v]] = Cardinality(Users(v))
    /\ \A t \in Users(v) : lock[t] = locks[v]

(* Why both hold, as an inductive invariant: besides the exact counts, no  *)
(* two VMIs share a mutex, and the holder of a mutex is the publish that   *)
(* is past LockVMI with it.                                                *)
OwnLock ==
  \A v, w \in VMI : locks[v] # None /\ locks[v] = locks[w] => v = w

HolderInside ==
  \A l \in Locks, t \in Threads : mu[l] = t <=> pc[t] = "serialized" /\ lock[t] = l

LockInv == TypeOK /\ RefCountExact /\ OwnLock /\ HolderInside

(* LockVMI returns, and the publish that called it does: nobody waits for  *)
(* a mutex for ever.                                                       *)
PublishReturns == \A t \in Threads : pc[t] # "idle" ~> pc[t] = "idle"
=============================================================================
