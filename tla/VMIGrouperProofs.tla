-------------------------- MODULE VMIGrouperProofs --------------------------
(***************************************************************************)
(* Proofs about VMIGrouper, for any number of publishes, claims, VMIs and  *)
(* mutex objects.                                                          *)
(***************************************************************************)
EXTENDS VMIGrouper, FiniteSetTheorems, TLAPS

Holding == {"lock", "serialized", "release"}

(* The users of a VMI are finitely many.                                   *)
LEMMA UsersFinite ==
  ASSUME NEW v \in VMI
  PROVE  IsFiniteSet(Users(v)) /\ Cardinality(Users(v)) \in Nat
<1>1. Users(v) \subseteq Threads
  BY DEF Users
<1>2. IsFiniteSet(Users(v))
  BY <1>1, VMIAssumption, FS_Subset
<1> QED
  BY <1>2, FS_CardinalityType

(* A publish with a mutex has the one the map has for its VMI.             *)
LEMMA UsesTracked ==
  ASSUME LockInv, NEW t \in Threads, Uses(t)
  PROVE  /\ vmiKey[t] \in VMI /\ t \in Users(vmiKey[t])
         /\ lock[t] \in Locks /\ lock[t] = locks[vmiKey[t]]
<1>1. vmiKey[t] \in VMI /\ t \in Users(vmiKey[t])
  BY DEF LockInv, TypeOK, Users
<1> QED
  BY <1>1 DEF LockInv, TypeOK, RefCountExact

(* The initial states satisfy the inductive invariant.                     *)
LEMMA InitLockInv == Init => LockInv
<1> SUFFICES ASSUME Init PROVE LockInv
  OBVIOUS
<1> USE DEF Init
<1>1. TypeOK
  BY DEF TypeOK, Uses, CacheEntry
<1>2. ASSUME NEW v \in VMI PROVE Users(v) = {}
  BY DEF Users, Uses
<1>3. RefCountExact
  BY <1>2, VMIAssumption DEF RefCountExact
<1>4. OwnLock /\ HolderInside
  BY VMIAssumption DEF OwnLock, HolderInside
<1> QED
  BY <1>1, <1>3, <1>4 DEF LockInv

(* Every step preserves the type invariant.  A reference count does not go *)
(* below zero, because it is exact.                                        *)
LEMMA TypePreserved == LockInv /\ [Next]_vars => TypeOK'
<1> SUFFICES ASSUME LockInv, [Next]_vars PROVE TypeOK'
  OBVIOUS
<1> USE DEF LockInv
<1>1. ASSUME NEW t \in Threads, LockVMI(t) PROVE TypeOK'
  BY <1>1 DEF LockVMI, Goto, TypeOK, Uses
<1>2. ASSUME NEW t \in Threads, GetCached(t) PROVE TypeOK'
  BY <1>2 DEF GetCached, Goto, TypeOK, Uses, CacheEntry
<1>3. ASSUME NEW t \in Threads, LookupVMIFromAPI(t) PROVE TypeOK'
  BY <1>3 DEF LookupVMIFromAPI, Goto, TypeOK, Uses
<1>4. ASSUME NEW t \in Threads, SetCache(t) PROVE TypeOK'
  BY <1>4 DEF SetCache, CleanExpiredLocked, Goto, TypeOK, Uses, CacheEntry
<1>5. ASSUME NEW t \in Threads, GetOrCreateLock(t) PROVE TypeOK'
  BY <1>5, VMIAssumption DEF GetOrCreateLock, Goto, TypeOK, Uses
<1>6. ASSUME NEW t \in Threads, Lock(t) PROVE TypeOK'
  BY <1>6, Zenon DEF Lock, Goto, TypeOK, Uses
<1>7. ASSUME NEW t \in Threads, Unlock(t) PROVE TypeOK'
  BY <1>7, Zenon DEF Unlock, Goto, TypeOK, Uses
<1>8. ASSUME NEW t \in Threads, ReleaseLock(t) PROVE TypeOK'
  <2> DEFINE v == vmiKey[t]
  <2>0. v \in VMI /\ t \in Users(v)
    BY <1>8 DEF ReleaseLock, TypeOK, Uses, Users
  <2>1. v \in VMI /\ t \in Users(v) /\ locks[v] \in Locks
    BY <2>0 DEF TypeOK, RefCountExact
  <2>2. Cardinality(Users(v)) # 0
    BY <2>1, UsersFinite, FS_EmptySet
  <2>3. refCount[locks[v]] - 1 \in Nat
    BY <2>1, <2>2, UsersFinite, VMIAssumption DEF RefCountExact
  <2>4. refCount' \in [Locks -> Nat] /\ locks' \in [VMI -> Locks \cup {None}]
    BY <1>8, <2>1, <2>3 DEF ReleaseLock, TypeOK
  <2> QED
    BY <1>8, <2>4 DEF ReleaseLock, Goto, TypeOK, Uses
<1>9. ASSUME NEW t \in Threads, ReturnFree(t) PROVE TypeOK'
  BY <1>9 DEF ReturnFree, Goto, TypeOK, Uses
<1>10. ASSUME NEW p \in PVC, Expire(p) PROVE TypeOK'
  BY <1>10, Zenon DEF Expire, TypeOK, Uses, CacheEntry
<1>11. ASSUME NEW p \in PVC, PodsChange(p) PROVE TypeOK'
  BY <1>11 DEF PodsChange, TypeOK, Uses
<1>12. CASE UNCHANGED vars
  BY <1>12 DEF vars, TypeOK, Uses
<1> QED
  BY <1>1, <1>2, <1>3, <1>4, <1>5, <1>6, <1>7, <1>8, <1>9, <1>10, <1>11, <1>12
  DEF Next, Step

(* A publish that moves between places without a mutex, leaving the map    *)
(* and the mutexes alone, preserves what is said of them.                  *)
LEMMA OutsideFrame ==
  ASSUME LockInv, NEW t \in Threads, NEW place, ~Uses(t), place \notin Holding,
         pc' = [pc EXCEPT ![t] = place],
         \A u \in Threads \ {t} : vmiKey'[u] = vmiKey[u] /\ lock'[u] = lock[u],
         UNCHANGED <<locks, refCount, mu>>
  PROVE  RefCountExact' /\ OwnLock' /\ HolderInside'
<1> USE DEF LockInv, Holding
<1>1. \A u \in Threads : pc'[u] = IF u = t THEN place ELSE pc[u]
  BY DEF TypeOK
<1>2. ASSUME NEW v \in VMI PROVE Users(v)' = Users(v)
  BY <1>1 DEF Users, Uses
<1>3. RefCountExact'
  <2> SUFFICES ASSUME NEW v \in VMI
               PROVE  /\ locks'[v] = None <=> Users(v)' = {}
                      /\ locks'[v] # None => refCount'[locks'[v]] = Cardinality(Users(v)')
                      /\ \A u \in Users(v)' : lock'[u] = locks'[v]
    BY DEF RefCountExact
  <2>1. \A u \in Users(v) : u \in Threads \ {t}
    BY DEF Users
  <2> QED
    BY <1>2, <2>1 DEF RefCountExact
<1>4. OwnLock'
  BY DEF OwnLock
<1>5. HolderInside'
  BY <1>1 DEF HolderInside, Uses
<1> QED
  BY <1>3, <1>4, <1>5

(* So does one that moves between places with a mutex; who holds it is     *)
(* shown for each step.                                                    *)
LEMMA InsideFrame ==
  ASSUME LockInv, NEW t \in Threads, NEW place, Uses(t), place \in Holding,
         pc' = [pc EXCEPT ![t] = place], UNCHANGED <<vmiKey, lock, locks, refCount>>
  PROVE  RefCountExact' /\ OwnLock'
<1> USE DEF LockInv, Holding
<1>1. \A u \in Threads : pc'[u] = IF u = t THEN place ELSE pc[u]
  BY DEF TypeOK
<1>2. ASSUME NEW v \in VMI PROVE Users(v)' = Users(v)
  BY <1>1 DEF Users, Uses
<1>3. RefCountExact'
  BY <1>2 DEF RefCountExact
<1> QED
  BY <1>3 DEF OwnLock

(* lock.mu.Lock and lock.mu.Unlock.                                        *)
LEMMA LockPreserves ==
  ASSUME LockInv, NEW t \in Threads, Lock(t)
  PROVE  RefCountExact' /\ OwnLock' /\ HolderInside'
<1> USE DEF LockInv
<1>1. Uses(t) /\ RefCountExact' /\ OwnLock'
  BY InsideFrame, Zenon DEF Lock, Goto, Uses, Holding
<1>2. lock[t] \in Locks
  BY <1>1, UsesTracked
<1>3. \A u \in Threads : pc'[u] = IF u = t THEN "serialized" ELSE pc[u]
  BY DEF TypeOK, Lock, Goto
<1>4. \A l \in Locks : mu'[l] = IF l = lock[t] THEN t ELSE mu[l]
  BY DEF TypeOK, Lock
<1>5. HolderInside'
  BY <1>2, <1>3, <1>4, VMIAssumption DEF HolderInside, Lock
<1> QED
  BY <1>1, <1>5

LEMMA UnlockPreserves ==
  ASSUME LockInv, NEW t \in Threads, Unlock(t)
  PROVE  RefCountExact' /\ OwnLock' /\ HolderInside'
<1> USE DEF LockInv
<1>1. Uses(t) /\ RefCountExact' /\ OwnLock'
  BY InsideFrame, Zenon DEF Unlock, Goto, Uses, Holding
<1>2. lock[t] \in Locks
  BY <1>1, UsesTracked
<1>3. \A u \in Threads : pc'[u] = IF u = t THEN "release" ELSE pc[u]
  BY DEF TypeOK, Unlock, Goto
<1>4. \A l \in Locks : mu'[l] = IF l = lock[t] THEN None ELSE mu[l]
  BY DEF TypeOK, Unlock
<1>5. HolderInside'
  BY <1>2, <1>3, <1>4, VMIAssumption DEF HolderInside, Unlock
<1> QED
  BY <1>1, <1>5

(* getOrCreateLock: the VMI has one user more, with the mutex of the map   *)
(* or with a new one.                                                      *)
LEMMA GetPreserves ==
  ASSUME LockInv, NEW t \in Threads, GetOrCreateLock(t)
  PROVE  RefCountExact' /\ OwnLock' /\ HolderInside'
<1> DEFINE l == lock'[t]
<1> USE DEF LockInv
<1>0. PICK v \in VMI : v = vmiKey[t]
  BY DEF TypeOK, GetOrCreateLock
<1>1. v \in VMI /\ v = vmiKey[t] /\ vmiKey' = vmiKey /\ ~Uses(t)
  BY <1>0 DEF TypeOK, GetOrCreateLock, Uses
<1>2. \A u \in Threads : pc'[u] = IF u = t THEN "lock" ELSE pc[u]
  BY DEF TypeOK, GetOrCreateLock, Goto
<1>3. \A u \in Threads \ {t} : lock'[u] = lock[u]
  BY DEF TypeOK, GetOrCreateLock
<1>4. Users(v)' = Users(v) \cup {t} /\ t \notin Users(v)
  BY <1>1, <1>2 DEF Users, Uses, GetOrCreateLock
<1>5. \A w \in VMI \ {v} : Users(w)' = Users(w)
  BY <1>1, <1>2 DEF Users, Uses, GetOrCreateLock
<1>6. Cardinality(Users(v)') = Cardinality(Users(v)) + 1
  BY <1>1, <1>4, UsersFinite, FS_AddElement, Zenon
<1>7. /\ l \in Locks /\ l # None
      /\ \A w \in VMI : locks'[w] = IF w = v THEN l ELSE locks[w]
      /\ \A w \in VMI \ {v} : locks[w] # l
      /\ refCount'[l] = Cardinality(Users(v)')
      /\ \A k \in Locks \ {l} : refCount'[k] = refCount[k]
      /\ \A u \in Users(v) : lock[u] = l
      /\ \A k \in Locks : mu'[k] = IF k = l /\ locks[v] = None THEN None ELSE mu[k]
  <2>1. CASE locks[v] # None
    <3>1. l = locks[v] /\ locks[v] \in Locks
      BY <1>1, <2>1 DEF TypeOK, GetOrCreateLock
    <3>2. refCount' = [refCount EXCEPT ![l] = @ + 1] /\ UNCHANGED <<locks, mu>>
      BY <1>1, <2>1, <3>1 DEF GetOrCreateLock
    <3>3. refCount[l] = Cardinality(Users(v))
      BY <1>1, <2>1, <3>1 DEF RefCountExact
    <3>4. refCount'[l] = Cardinality(Users(v)')
      BY <1>6, <3>1, <3>2, <3>3 DEF TypeOK
    <3>5. \A w \in VMI \ {v} : locks[w] # l
      BY <1>1, <2>1, <3>1 DEF OwnLock
    <3>6. \A u \in Users(v) : lock[u] = l
      BY <1>1, <3>1 DEF RefCountExact
    <3> QED
      BY <2>1, <3>1, <3>2, <3>4, <3>5, <3>6, VMIAssumption DEF TypeOK
  <2>2. CASE locks[v] = None
    <3>1. PICK k \in Locks : /\ Fresh(k)
                             /\ locks' = [locks EXCEPT ![v] = k]
                             /\ lock' = [lock EXCEPT ![t] = k]
                             /\ refCount' = [refCount EXCEPT ![k] = 1]
                             /\ mu' = [mu EXCEPT ![k] = None]
      BY <1>1, <2>2 DEF GetOrCreateLock
    <3>2. l = k
      BY <3>1 DEF TypeOK
    <3>3. Users(v) = {}
      BY <1>1, <2>2 DEF RefCountExact
    <3>4. Cardinality(Users(v)') = 1
      BY <1>6, <3>3, FS_EmptySet
    <3>5. refCount'[l] = 1 /\ \A j \in Locks \ {l} : refCount'[j] = refCount[j]
      BY <3>1, <3>2 DEF TypeOK
    <3>6. /\ \A w \in VMI : locks'[w] = IF w = v THEN l ELSE locks[w]
          /\ \A j \in Locks : mu'[j] = IF j = l THEN None ELSE mu[j]
      BY <3>1, <3>2 DEF TypeOK
    <3>7. \A w \in VMI \ {v} : locks[w] # l
      BY <3>1, <3>2 DEF Fresh
    <3> QED
      BY <2>2, <3>2, <3>3, <3>4, <3>5, <3>6, <3>7, VMIAssumption
  <2> QED
    BY <2>1, <2>2
<1>8. RefCountExact'
  <2> SUFFICES ASSUME NEW w \in VMI
               PROVE  /\ locks'[w] = None <=> Users(w)' = {}
                      /\ locks'[w] # None => refCount'[locks'[w]] = Cardinality(Users(w)')
                      /\ \A u \in Users(w)' : lock'[u] = locks'[w]
    BY DEF RefCountExact
  <2>1. CASE w = v
    <3>1. \A u \in Users(v) : u \in Threads \ {t}
      BY <1>4 DEF Users
    <3>2. locks'[w] = l /\ l # None /\ Users(w)' # {}
      BY <1>4, <1>7, <2>1
    <3>3. refCount'[locks'[w]] = Cardinality(Users(w)')
      BY <1>7, <2>1, <3>2
    <3>4. ASSUME NEW u \in Users(w)' PROVE lock'[u] = locks'[w]
      <4>1. u \in Users(v) \/ u = t
        BY <1>4, <2>1
      <4> QED
        BY <1>3, <1>7, <3>1, <3>2, <4>1
    <3> QED
      BY <3>2, <3>3, <3>4
  <2>2. CASE w # v
    <3>1. Users(w)' = Users(w) /\ locks'[w] = locks[w] /\ locks[w] # l
      BY <1>5, <1>7, <2>2
    <3>2. locks[w] # None => locks[w] \in Locks \ {l}
      BY <3>1 DEF TypeOK
    <3>3. \A u \in Users(w) : u \in Threads \ {t}
      BY <1>1 DEF Users
    <3> QED
      BY <1>3, <1>7, <3>1, <3>2, <3>3 DEF RefCountExact
  <2> QED
    BY <2>1, <2>2
<1>9. OwnLock'
  BY <1>7 DEF OwnLock
<1>10. HolderInside'
  <2> SUFFICES ASSUME NEW k \in Locks, NEW u \in Threads
               PROVE  mu'[k] = u <=> pc'[u] = "serialized" /\ lock'[u] = k
    BY DEF HolderInside
  <2>1. mu[k] = u <=> pc[u] = "serialized" /\ lock[u] = k
    BY DEF HolderInside
  <2>2. pc'[u] = "serialized" /\ lock'[u] = k <=> pc[u] = "serialized" /\ lock[u] = k
    BY <1>1, <1>2, <1>3 DEF Uses
  <2>3. CASE k = l /\ locks[v] = None
    <3>1. ~(pc[u] = "serialized" /\ lock[u] = k)
      <4>1. PICK j \in Locks : Fresh(j) /\ lock' = [lock EXCEPT ![t] = j]
        BY <1>1, <2>3 DEF GetOrCreateLock
      <4>2. j = k
        BY <2>3, <4>1 DEF TypeOK
      <4> QED
        BY <4>1, <4>2 DEF Fresh, Uses
    <3> QED
      BY <1>7, <2>2, <2>3, <3>1, VMIAssumption
  <2>4. CASE ~(k = l /\ locks[v] = None)
    BY <1>7, <2>1, <2>2, <2>4
  <2> QED
    BY <2>3, <2>4
<1> QED
  BY <1>8, <1>9, <1>10

(* releaseLock: the VMI has one user less; the mutex of the last one       *)
(* leaves the map.                                                         *)
LEMMA ReleasePreserves ==
  ASSUME LockInv, NEW t \in Threads, ReleaseLock(t)
  PROVE  RefCountExact' /\ OwnLock' /\ HolderInside'
<1> USE DEF LockInv
<1>1. Uses(t)
  BY DEF ReleaseLock, Uses
<1>0. PICK v \in VMI : v = vmiKey[t]
  BY <1>1, UsesTracked
<1> DEFINE l == locks[v]
           rest == Users(v) \ {t}
<1>2. /\ v \in VMI /\ v = vmiKey[t] /\ vmiKey' = vmiKey
      /\ t \in Users(v) /\ l \in Locks /\ l # None
  BY <1>0, <1>1, UsesTracked, VMIAssumption DEF ReleaseLock
<1>3. \A u \in Threads : pc'[u] = IF u = t THEN "idle" ELSE pc[u]
  BY DEF TypeOK, ReleaseLock, Goto
<1>4. Users(v)' = rest
  BY <1>2, <1>3 DEF Users, Uses, ReleaseLock
<1>5. \A w \in VMI \ {v} : Users(w)' = Users(w)
  BY <1>2, <1>3 DEF Users, Uses, ReleaseLock
<1>6. /\ IsFiniteSet(rest) /\ Cardinality(rest) = Cardinality(Users(v)) - 1
      /\ Cardinality(rest) \in Nat /\ (rest = {} <=> Cardinality(rest) = 0)
  <2>1. IsFiniteSet(rest) /\ Cardinality(rest) = Cardinality(Users(v)) - 1
    BY <1>2, UsersFinite, FS_RemoveElement
  <2> QED
    BY <2>1, FS_CardinalityType, FS_EmptySet, Zenon
<1>7. refCount[l] = Cardinality(rest) + 1
  <2>1. refCount[l] = Cardinality(Users(v)) /\ Cardinality(Users(v)) \in Nat
    BY <1>2, UsersFinite DEF RefCountExact
  <2> QED
    BY <1>6, <2>1
<1>8. /\ refCount'[l] = Cardinality(rest)
      /\ \A k \in Locks \ {l} : refCount'[k] = refCount[k]
  BY <1>2, <1>6, <1>7 DEF ReleaseLock, TypeOK
<1>9. \A w \in VMI : locks'[w] = IF w = v /\ rest = {} THEN None ELSE locks[w]
  <2> DEFINE n == Cardinality(rest)
  <2>0. n \in Nat /\ refCount[l] = n + 1 /\ (rest = {} <=> n = 0)
    BY <1>6, <1>7
  <2> HIDE DEF n, rest, l
  <2>1. refCount[l] <= 1 <=> rest = {}
    BY <2>0
  <2> USE DEF l
  <2>2. locks' = IF refCount[l] <= 1 THEN [locks EXCEPT ![v] = None] ELSE locks
    BY <1>2 DEF ReleaseLock
  <2>3. locks' = IF rest = {} THEN [locks EXCEPT ![v] = None] ELSE locks
    BY <2>1, <2>2
  <2> HIDE DEF rest
  <2> QED
    BY <1>2, <2>3 DEF TypeOK
<1>10. RefCountExact'
  <2> SUFFICES ASSUME NEW w \in VMI
               PROVE  /\ locks'[w] = None <=> Users(w)' = {}
                      /\ locks'[w] # None => refCount'[locks'[w]] = Cardinality(Users(w)')
                      /\ \A u \in Users(w)' : lock'[u] = locks'[w]
    BY DEF RefCountExact
  <2>0. lock' = lock
    BY DEF ReleaseLock
  <2>1. CASE w = v
    <3>1. locks'[w] = None <=> Users(w)' = {}
      BY <1>2, <1>4, <1>9, <2>1
    <3>2. locks'[w] # None => refCount'[locks'[w]] = Cardinality(Users(w)')
      BY <1>4, <1>8, <1>9, <2>1
    <3>3. ASSUME NEW u \in Users(w)' PROVE lock'[u] = locks'[w]
      <4>1. u \in Users(v) /\ rest # {}
        BY <1>4, <2>1
      <4> QED
        BY <1>2, <1>9, <2>0, <2>1, <4>1 DEF RefCountExact
    <3> QED
      BY <3>1, <3>2, <3>3
  <2>2. CASE w # v
    <3>1. Users(w)' = Users(w) /\ locks'[w] = locks[w]
      BY <1>5, <1>9, <2>2
    <3>2. locks[w] # None => locks[w] \in Locks \ {l}
      BY <1>2, <2>2 DEF TypeOK, OwnLock
    <3> QED
      BY <1>8, <2>0, <3>1, <3>2 DEF RefCountExact
  <2> QED
    BY <2>1, <2>2
<1>11. OwnLock'
  BY <1>9 DEF OwnLock
<1>12. HolderInside'
  BY <1>3 DEF HolderInside, ReleaseLock
<1> QED
  BY <1>10, <1>11, <1>12

(* Every step preserves the inductive invariant.                           *)
LEMMA LockInvPreserved == LockInv /\ [Next]_vars => LockInv'
<1> SUFFICES ASSUME LockInv, [Next]_vars PROVE LockInv'
  OBVIOUS
<1>0. TypeOK'
  BY TypePreserved
<1> DEFINE Rest == RefCountExact' /\ OwnLock' /\ HolderInside'
<1>1. ASSUME NEW t \in Threads,
             LockVMI(t) \/ GetCached(t) \/ LookupVMIFromAPI(t) \/ SetCache(t) \/ ReturnFree(t)
      PROVE  Rest
  <2>1. LockInv /\ ~Uses(t) /\ UNCHANGED <<locks, refCount, mu>>
    BY <1>1 DEF LockVMI, GetCached, LookupVMIFromAPI, SetCache, ReturnFree, Uses
  <2>2. \A u \in Threads \ {t} : vmiKey'[u] = vmiKey[u] /\ lock'[u] = lock[u]
    BY <1>1 DEF LockInv, TypeOK, LockVMI, GetCached, LookupVMIFromAPI, SetCache, ReturnFree
  <2>3. \E place \in {"get_cached", "lookup", "get_lock", "free", "set_cache", "idle"} :
          pc' = [pc EXCEPT ![t] = place]
    BY <1>1 DEF LockVMI, GetCached, LookupVMIFromAPI, SetCache, ReturnFree, Goto
  <2>4. PICK place \in {"get_cached", "lookup", "get_lock", "free", "set_cache", "idle"} :
          pc' = [pc EXCEPT ![t] = place]
    BY <2>3, Zenon
  <2>5. place \notin Holding
    BY DEF Holding
  <2> QED
    BY <2>1, <2>2, <2>4, <2>5, OutsideFrame, Zenon
<1>2. ASSUME NEW t \in Threads, Lock(t) \/ Unlock(t) \/ GetOrCreateLock(t) \/ ReleaseLock(t)
      PROVE  Rest
  BY <1>2, LockPreserves, UnlockPreserves, GetPreserves, ReleasePreserves
<1>3. ASSUME UNCHANGED <<locks, refCount, mu, pc, vmiKey, lock>> PROVE Rest
  BY <1>3 DEF LockInv, RefCountExact, Users, Uses, OwnLock, HolderInside
<1>4. ASSUME NEW p \in PVC, Expire(p) \/ PodsChange(p) PROVE Rest
  BY <1>3, <1>4 DEF Expire, PodsChange
<1>5. ASSUME UNCHANGED vars PROVE Rest
  BY <1>3, <1>5 DEF vars
<1>6. Rest
  BY <1>1, <1>2, <1>4, <1>5 DEF Next, Step
<1> QED
  BY <1>0, <1>6 DEF LockInv

(* The inductive invariant holds in every reachable state.                 *)
THEOREM LockInvariant == Spec => []LockInv
  BY InitLockInv, LockInvPreserved, PTL DEF Spec

(* The map of mutexes counts its users exactly, and never lets go of a     *)
(* mutex that a publish has.                                               *)
THEOREM ReferencesCounted == Spec => []RefCountExact
<1>1. LockInv => RefCountExact
  BY DEF LockInv
<1> QED
  BY <1>1, LockInvariant, PTL

(* Publishes of one VMI are serialized, for any number of publishes.       *)
THEOREM PublishesSerialized == Spec => []SerializedPerVMI
<1>1. LockInv => SerializedPerVMI
  <2> SUFFICES ASSUME LockInv, NEW t \in Threads, NEW u \in Threads,
                      pc[t] = "serialized", pc[u] = "serialized", vmiKey[t] = vmiKey[u]
               PROVE  t = u
    BY DEF SerializedPerVMI
  <2>1. Uses(t) /\ Uses(u)
    BY DEF Uses
  <2>2. lock[t] \in Locks /\ lock[t] = lock[u]
    BY <2>1, UsesTracked
  <2> QED
    BY <2>2 DEF LockInv, HolderInside
<1> QED
  BY <1>1, LockInvariant, PTL
=============================================================================
