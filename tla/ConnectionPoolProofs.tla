------------------------ MODULE ConnectionPoolProofs ------------------------
(***************************************************************************)
(* Proofs about ConnectionPool, for any number of callers and any MaxSize, *)
(* MaxIdle and Threshold.                                                  *)
(***************************************************************************)
EXTENDS ConnectionPool, FiniteSetTheorems, SequenceTheorems, TLAPS

(* The slots in use are finitely many.                                     *)
LEMMA SlotsFinite == IsFiniteSet(Slots) /\ Cardinality(Slots) \in Nat
<1>1. Slots \subseteq Callers
  BY DEF Slots
<1>2. IsFiniteSet(Slots)
  BY <1>1, PoolAssumption, FS_Subset
<1> QED
  BY <1>2, FS_CardinalityType

(* A caller that moves to a place with a slot or without one.              *)
LEMMA SlotsMove ==
  ASSUME TypeOK, NEW c \in Callers, NEW place, pc' = [pc EXCEPT ![c] = place]
  PROVE  Slots' = IF place \in SlotPlaces THEN Slots \cup {c} ELSE Slots \ {c}
<1>1. \A d \in Callers : pc'[d] = IF d = c THEN place ELSE pc[d]
  BY DEF TypeOK
<1> QED
  BY <1>1 DEF Slots

(* It takes a slot, ...                                                    *)
LEMMA SlotTaken ==
  ASSUME TypeOK, NEW c \in Callers, NEW place, pc' = [pc EXCEPT ![c] = place],
         pc[c] \notin SlotPlaces, place \in SlotPlaces
  PROVE  Cardinality(Slots') = Cardinality(Slots) + 1
<1>1. Slots' = Slots \cup {c} /\ c \notin Slots
  BY SlotsMove, Zenon DEF Slots
<1> QED
  BY <1>1, SlotsFinite, FS_AddElement, Zenon

(* ... frees one, ...                                                      *)
LEMMA SlotFreed ==
  ASSUME TypeOK, NEW c \in Callers, NEW place, pc' = [pc EXCEPT ![c] = place],
         pc[c] \in SlotPlaces, place \notin SlotPlaces
  PROVE  /\ Cardinality(Slots') = Cardinality(Slots) - 1
         /\ Cardinality(Slots) - 1 \in Nat
<1>1. Slots' = Slots \ {c} /\ c \in Slots
  BY SlotsMove, Zenon DEF Slots
<1>2. Cardinality(Slots') = Cardinality(Slots) - 1
  BY <1>1, SlotsFinite, FS_RemoveElement, Zenon
<1>3. IsFiniteSet(Slots')
  BY <1>1, SlotsFinite, FS_Subset
<1> QED
  BY <1>2, <1>3, FS_CardinalityType

(* ... or stays with or without one.                                       *)
LEMMA SlotKept ==
  ASSUME TypeOK, NEW c \in Callers, NEW place, pc' = [pc EXCEPT ![c] = place],
         pc[c] \in SlotPlaces <=> place \in SlotPlaces
  PROVE  Slots' = Slots
  BY SlotsMove DEF Slots

(* The initial states satisfy the inductive invariant.                     *)
LEMMA InitPoolInv == Init => PoolInv
<1> SUFFICES ASSUME Init PROVE PoolInv
  OBVIOUS
<1> USE DEF Init
<1>0. idle \in Seq(Conns) /\ active \in Nat /\ failures \in Nat
  OBVIOUS
<1>1. TypeOK
  BY <1>0, Zenon DEF TypeOK, Places
<1>2. PoolBound /\ BreakerTrips
  BY PoolAssumption DEF PoolBound, BreakerTrips
<1>3. Slots = {}
  BY DEF Slots, SlotPlaces
<1>4. ActiveExact /\ Cardinality(Slots) <= active
  BY <1>3, FS_EmptySet DEF ActiveExact
<1>5. OneUser
  BY DEF OneUser, Idle
<1>6. \A c \in Callers : conn[c] # None <=> pc[c] \in HasConn
  BY DEF HasConn
<1> QED
  BY <1>1, <1>2, <1>4, <1>5, <1>6 DEF PoolInv

(* The stack: what popping and pushing leave in it.                        *)
LEMMA Popped ==
  ASSUME idle \in Seq(Conns), idle # << >>,
         idle' = SubSeq(idle, 1, Len(idle) - 1)
  PROVE  /\ idle' \in Seq(Conns) /\ Len(idle') = Len(idle) - 1 /\ Len(idle') \in Nat
         /\ idle[Len(idle)] \in Conns
         /\ \A i \in 1 .. Len(idle') : idle'[i] = idle[i]
<1>1. Len(idle) \in Nat \ {0}
  BY EmptySeq, LenProperties
<1> DEFINE n == Len(idle) - 1
<1>2. n \in 0 .. Len(idle) /\ 1 \in 1 .. n + 1
  BY <1>1
<1>3. /\ idle' \in Seq(Conns) /\ Len(idle') = IF 1 <= n THEN n - 1 + 1 ELSE 0
      /\ \A i \in 1 .. n - 1 + 1 : idle'[i] = idle[1 + i - 1]
  BY <1>2, SubSeqProperties
<1>4. Len(idle') = n /\ \A i \in 1 .. n : idle'[i] = idle[i]
  <2>1. n \in Nat
    BY <1>1
  <2> HIDE DEF n
  <2>2. ASSUME NEW i \in 1 .. n PROVE i \in 1 .. n - 1 + 1 /\ 1 + i - 1 = i
    BY <2>1
  <2>3. ASSUME NEW i \in 1 .. n PROVE idle'[i] = idle[i]
    BY <1>3, <2>2, Zenon
  <2> QED
    BY <1>3, <2>1, <2>3
<1>5. idle[Len(idle)] \in Conns
  BY <1>1, ElementOfSeq
<1> QED
  BY <1>1, <1>3, <1>4, <1>5

LEMMA Pushed ==
  ASSUME idle \in Seq(Conns), NEW x \in Conns, idle' = Append(idle, x)
  PROVE  /\ idle' \in Seq(Conns) /\ Len(idle') = Len(idle) + 1
         /\ \A i \in 1 .. Len(idle') : idle'[i] = IF i = Len(idle) + 1 THEN x ELSE idle[i]
  OBVIOUS

(* A caller with a slot is counted.                                        *)
LEMMA SlotHeld ==
  ASSUME PoolInv, NEW c \in Callers, pc[c] \in SlotPlaces
  PROVE  active - 1 \in Nat
<1> DEFINE n == Cardinality(Slots)
<1>1. Slots # {}
  BY DEF Slots
<1>2. n \in Nat \ {0}
  BY <1>1, SlotsFinite, FS_EmptySet
<1>3. n <= active /\ active \in Nat
  BY DEF PoolInv, TypeOK
<1> HIDE DEF n
<1> QED
  BY <1>2, <1>3

(* Every step preserves the type invariant: p.active does not go below     *)
(* zero, because it counts the slots.                                      *)
LEMMA PoolTypePreserved == PoolInv /\ [Next]_vars => TypeOK'
<1> SUFFICES ASSUME PoolInv, [Next]_vars PROVE TypeOK'
  OBVIOUS
<1> USE DEF PoolInv
<1>1. ASSUME NEW c \in Callers, Get(c) \/ Allow(c) \/ Wait(c) PROVE TypeOK'
  BY <1>1 DEF Get, Allow, Wait, Goto, TypeOK, Places, poolVars, linkVars, breakerVars
<1>2. ASSUME NEW c \in Callers, Search(c) PROVE TypeOK'
  <2>1. idle' \in Seq(Conns) /\ conn' \in [Callers -> Conns \cup {None}]
    BY <1>2, Popped DEF Search, SetConn, TypeOK
  <2>2. active' \in Nat /\ pc' \in [Callers -> Places]
    BY <1>2 DEF Search, Goto, TypeOK, Places
  <2> QED
    BY <1>2, <2>1, <2>2 DEF Search, TypeOK, linkVars, breakerVars
<1>3. ASSUME NEW c \in Callers, CloseStale(c) \/ Factory(c) PROVE TypeOK'
  BY <1>3 DEF CloseStale, Factory, SetConn, Goto, TypeOK, Places, poolVars, linkVars, breakerVars
<1>4. ASSUME NEW c \in Callers, Failed(c) PROVE TypeOK'
  <2>1. active - 1 \in Nat
    BY <1>4, SlotHeld DEF Failed, SlotPlaces
  <2> QED
    BY <1>4, <2>1 DEF Failed, Goto, TypeOK, Places, linkVars, breakerVars
<1>5. ASSUME NEW c \in Callers, RecordFailure(c) \/ RecordSuccess(c) PROVE TypeOK'
  <2>1. failures' \in Nat /\ breaker' \in {"closed", "open", "half_open"}
    BY <1>5 DEF RecordFailure, RecordSuccess, TypeOK
  <2>2. pc' \in [Callers -> Places] /\ cooled' \in BOOLEAN
    BY <1>5, Zenon DEF RecordFailure, RecordSuccess, Goto, TypeOK, Places
  <2>3. UNCHANGED <<closed, active, idle, open, connected, conn>>
    BY <1>5 DEF RecordFailure, RecordSuccess, poolVars, linkVars
  <2> QED
    BY <2>1, <2>2, <2>3 DEF TypeOK
<1>6. ASSUME NEW c \in Callers, Put(c) PROVE TypeOK'
  <2>1. active - 1 \in Nat
    BY <1>6, SlotHeld DEF Put, SlotPlaces
  <2>2. conn[c] \in Conns
    BY <1>6 DEF Put, TypeOK, HasConn
  <2>3. idle' \in Seq(Conns) /\ active' \in Nat
    BY <1>6, <2>1, <2>2, Pushed DEF Put, TypeOK
  <2>4. conn' \in [Callers -> Conns \cup {None}] /\ pc' \in [Callers -> Places]
    BY <1>6 DEF Put, SetConn, Goto, TypeOK, Places
  <2>5. open' \subseteq Conns /\ connected' \subseteq open'
    BY <1>6 DEF Put, TypeOK, linkVars
  <2> QED
    BY <1>6, <2>3, <2>4, <2>5 DEF Put, TypeOK, breakerVars
<1>7. ASSUME Close PROVE TypeOK'
  BY <1>7 DEF Close, TypeOK, breakerVars
<1>8. ASSUME NEW x \in Conns, LinkLost(x) PROVE TypeOK'
  BY <1>8 DEF LinkLost, TypeOK, poolVars, breakerVars
<1>9. ASSUME CoolDown \/ UNCHANGED vars PROVE TypeOK'
  BY <1>9, Zenon DEF CoolDown, vars, TypeOK, poolVars, linkVars, breakerVars
<1> QED
  BY <1>1, <1>2, <1>3, <1>4, <1>5, <1>6, <1>7, <1>8, <1>9 DEF Next, Step

(* p.active counts the slots, exactly while the pool is open.              *)
Counted == ActiveExact /\ Cardinality(Slots) <= active

LEMMA CountPreserved == PoolInv /\ [Next]_vars => Counted'
<1> SUFFICES ASSUME PoolInv, [Next]_vars PROVE Counted'
  OBVIOUS
<1> USE DEF PoolInv
<1>0. Cardinality(Slots) \in Nat /\ active \in Nat /\ TypeOK
  BY SlotsFinite DEF TypeOK
<1>1. ASSUME UNCHANGED <<closed, active>>, Slots' = Slots PROVE Counted'
  BY <1>1 DEF Counted, ActiveExact
<1>2. ASSUME NEW c \in Callers, Get(c) \/ Allow(c) \/ Wait(c) \/ RecordFailure(c)
      PROVE  Counted'
  <2>1. UNCHANGED <<closed, active>>
    BY <1>2 DEF Get, Allow, Wait, RecordFailure, poolVars
  <2>2. Slots' = Slots
    BY <1>0, <1>2, SlotKept DEF Get, Allow, Wait, RecordFailure, Goto, SlotPlaces
  <2> QED
    BY <1>1, <2>1, <2>2
<1>3. ASSUME NEW c \in Callers, CloseStale(c) \/ Factory(c) \/ RecordSuccess(c)
      PROVE  Counted'
  <2>1. UNCHANGED <<closed, active>>
    BY <1>3 DEF CloseStale, Factory, RecordSuccess, poolVars
  <2>2. Slots' = Slots
    BY <1>0, <1>3, SlotKept DEF CloseStale, Factory, RecordSuccess, Goto, SlotPlaces
  <2> QED
    BY <1>1, <2>1, <2>2
<1>4. ASSUME NEW c \in Callers, Search(c) PROVE Counted'
  <2>1. CASE UNCHANGED active /\ (Goto(c, "close_stale") \/ Goto(c, "out"))
    <3>1. Slots' = Slots
      BY <1>0, <1>4, <2>1, SlotKept, Zenon DEF Search, Goto, SlotPlaces
    <3> QED
      BY <1>1, <1>4, <2>1, <3>1 DEF Search
  <2>2. CASE active' = active + 1 /\ (Goto(c, "using") \/ Goto(c, "factory"))
    <3>1. Cardinality(Slots') = Cardinality(Slots) + 1
      BY <1>0, <1>4, <2>2, SlotTaken, Zenon DEF Search, Goto, SlotPlaces
    <3>2. closed' = closed
      BY <1>4 DEF Search
    <3> QED
      BY <1>0, <2>2, <3>1, <3>2 DEF Counted, ActiveExact
  <2> QED
    BY <1>4, <2>1, <2>2 DEF Search
<1>5. ASSUME NEW c \in Callers, Failed(c) \/ Put(c) PROVE Counted'
  <2>1. /\ Cardinality(Slots') = Cardinality(Slots) - 1
        /\ Cardinality(Slots) - 1 \in Nat
    BY <1>0, <1>5, SlotFreed, Zenon DEF Failed, Put, Goto, SlotPlaces
  <2>2. /\ closed' = closed
        /\ active' = active - 1 \/ (closed /\ active' = active)
    BY <1>5 DEF Failed, Put
  <2> QED
    BY <1>0, <2>1, <2>2 DEF Counted, ActiveExact
<1>6. ASSUME Close \/ CoolDown \/ UNCHANGED vars \/ \E x \in Conns : LinkLost(x)
      PROVE  Counted'
  <2>1. UNCHANGED <<pc, active>> /\ (closed' \/ closed' = closed)
    BY <1>6 DEF Close, CoolDown, LinkLost, vars, poolVars
  <2>2. Slots' = Slots
    BY <2>1 DEF Slots
  <2> QED
    BY <2>1, <2>2 DEF Counted, ActiveExact
<1> QED
  BY <1>2, <1>3, <1>4, <1>5, <1>6 DEF Next, Step

(* The bound of the pool and the threshold of the breaker.                 *)
LEMMA BoundPreserved == PoolInv /\ [Next]_vars => PoolBound'
<1> SUFFICES ASSUME PoolInv, [Next]_vars PROVE PoolBound'
  OBVIOUS
<1> USE DEF PoolInv
<1>0. /\ active \in Nat /\ idle \in Seq(Conns) /\ Len(idle) \in Nat
      /\ MaxSize \in Nat /\ MaxIdle \in Nat /\ Len(<< >>) = 0
  BY PoolAssumption, LenProperties DEF TypeOK
<1>1. ASSUME UNCHANGED <<active, idle>> PROVE PoolBound'
  BY <1>1 DEF PoolBound
<1>2. ASSUME NEW c \in Callers, Search(c) PROVE PoolBound'
  <2>1. CASE idle # << >>
    <3>1. Len(idle') = Len(idle) - 1 /\ (active' = active + 1 \/ active' = active)
      BY <1>0, <1>2, <2>1, Popped DEF Search
    <3> QED
      BY <1>0, <3>1 DEF PoolBound
  <2>2. CASE idle = << >>
    <3>1. idle' = idle /\ (active' = active \/ (active < MaxSize /\ active' = active + 1))
      BY <1>2, <2>2 DEF Search
    <3> QED
      BY <1>0, <2>2, <3>1 DEF PoolBound
  <2> QED
    BY <2>1, <2>2
<1>3. ASSUME NEW c \in Callers, Failed(c) PROVE PoolBound'
  BY <1>0, <1>3 DEF Failed, PoolBound
<1>4. ASSUME NEW c \in Callers, Put(c) PROVE PoolBound'
  <2>1. conn[c] \in Conns
    BY <1>4 DEF Put, TypeOK, HasConn
  <2>2. \/ UNCHANGED <<active, idle>>
        \/ active' = active - 1 /\ idle' = idle
        \/ active' = active - 1 /\ Len(idle) < MaxIdle /\ Len(idle') = Len(idle) + 1
    BY <1>0, <1>4, <2>1, Pushed DEF Put
  <2> QED
    BY <1>0, <1>1, <2>2 DEF PoolBound
<1>5. ASSUME Close PROVE PoolBound'
  BY <1>0, <1>5 DEF Close, PoolBound
<1>6. ASSUME NEW c \in Callers,
             \/ Get(c) \/ Allow(c) \/ Wait(c) \/ CloseStale(c) \/ Factory(c)
             \/ RecordFailure(c) \/ RecordSuccess(c)
      PROVE  PoolBound'
  BY <1>1, <1>6 DEF Get, Allow, Wait, CloseStale, Factory, RecordFailure, RecordSuccess, poolVars
<1>7. ASSUME CoolDown \/ UNCHANGED vars \/ \E x \in Conns : LinkLost(x) PROVE PoolBound'
  BY <1>1, <1>7 DEF CoolDown, LinkLost, vars, poolVars
<1> QED
  BY <1>2, <1>3, <1>4, <1>5, <1>6, <1>7 DEF Next, Step

LEMMA BreakerPreserved == PoolInv /\ [Next]_vars => BreakerTrips'
<1> SUFFICES ASSUME PoolInv, [Next]_vars PROVE BreakerTrips'
  OBVIOUS
<1>0. BreakerTrips /\ failures \in Nat /\ Threshold \in Nat \ {0}
  BY PoolAssumption DEF PoolInv, TypeOK
<1>1. ASSUME UNCHANGED <<breaker, failures>> PROVE BreakerTrips'
  BY <1>0, <1>1 DEF BreakerTrips
<1>2. ASSUME NEW c \in Callers, Allow(c) \/ RecordFailure(c) \/ RecordSuccess(c)
      PROVE  BreakerTrips'
  BY <1>0, <1>2 DEF Allow, RecordFailure, RecordSuccess, BreakerTrips, breakerVars
<1>3. ASSUME NEW c \in Callers,
             \/ Get(c) \/ Wait(c) \/ Search(c) \/ CloseStale(c) \/ Factory(c)
             \/ Failed(c) \/ Put(c)
      PROVE  BreakerTrips'
  BY <1>1, <1>3 DEF Get, Wait, Search, CloseStale, Factory, Failed, Put, breakerVars
<1>4. ASSUME Close \/ CoolDown \/ UNCHANGED vars \/ \E x \in Conns : LinkLost(x)
      PROVE  BreakerTrips'
  BY <1>1, <1>4 DEF Close, CoolDown, LinkLost, vars, breakerVars
<1> QED
  BY <1>2, <1>3, <1>4 DEF Next, Step

(* Who has which connection.                                               *)
HeldWhere == \A c \in Callers : conn[c] # None <=> pc[c] \in HasConn

LEMMA HeldPreserved == PoolInv /\ [Next]_vars => HeldWhere'
<1> SUFFICES ASSUME PoolInv, [Next]_vars PROVE HeldWhere'
  OBVIOUS
<1>0. HeldWhere /\ pc \in [Callers -> Places] /\ conn \in [Callers -> Conns \cup {None}]
  BY DEF PoolInv, TypeOK, HeldWhere
<1>1. ASSUME UNCHANGED conn, NEW c \in Callers, NEW place, pc' = [pc EXCEPT ![c] = place],
             pc[c] \in HasConn <=> place \in HasConn
      PROVE  HeldWhere'
  BY <1>0, <1>1 DEF HeldWhere
<1>2. ASSUME NEW c \in Callers, NEW x, NEW place, conn' = [conn EXCEPT ![c] = x],
             pc' = [pc EXCEPT ![c] = place], x # None <=> place \in HasConn
      PROVE  HeldWhere'
  BY <1>0, <1>2 DEF HeldWhere
<1>3. ASSUME NEW c \in Callers,
             \/ Get(c) \/ Allow(c) \/ Wait(c) \/ Failed(c)
             \/ RecordFailure(c) \/ RecordSuccess(c)
      PROVE  HeldWhere'
  BY <1>1, <1>3
  DEF Get, Allow, Wait, Failed, RecordFailure, RecordSuccess, Goto, HasConn
<1>4. ASSUME NEW c \in Callers, Search(c) PROVE HeldWhere'
  <2>1. CASE idle # << >>
    <3>1. idle[Len(idle)] # None
      BY <1>4, <2>1, Popped, PoolAssumption DEF Search, PoolInv, TypeOK
    <3> QED
      BY <1>2, <1>4, <2>1, <3>1, Zenon DEF Search, SetConn, Goto, HasConn
  <2>2. CASE idle = << >>
    BY <1>1, <1>4, <2>2 DEF Search, Goto, HasConn
  <2> QED
    BY <2>1, <2>2
<1>5. ASSUME NEW c \in Callers, CloseStale(c) \/ Put(c) PROVE HeldWhere'
  BY <1>2, <1>5, Zenon DEF CloseStale, Put, SetConn, Goto, HasConn
<1>6. ASSUME NEW c \in Callers, Factory(c) PROVE HeldWhere'
  BY <1>1, <1>2, <1>6, PoolAssumption DEF Factory, SetConn, Goto, HasConn
<1>7. ASSUME Close \/ CoolDown \/ UNCHANGED vars \/ \E x \in Conns : LinkLost(x)
      PROVE  HeldWhere'
  BY <1>0, <1>7 DEF Close, CoolDown, LinkLost, vars, HeldWhere
<1> QED
  BY <1>3, <1>4, <1>5, <1>6, <1>7 DEF Next, Step

(* A connection that a caller closes or keeps, and has no more.            *)
LEMMA ConnDropped ==
  ASSUME PoolInv, NEW c \in Callers, conn[c] # None, conn' = [conn EXCEPT ![c] = None],
         open' = open \ {conn[c]}, idle' = idle
  PROVE  OneUser'
<1>1. \A d \in Callers : conn'[d] = IF d = c THEN None ELSE conn[d]
  BY DEF PoolInv, TypeOK
<1>2. Idle' = Idle
  BY DEF Idle
<1> QED
  BY <1>1, <1>2 DEF PoolInv, OneUser

LEMMA OneUserPreserved == PoolInv /\ [Next]_vars => OneUser'
<1> SUFFICES ASSUME PoolInv, [Next]_vars PROVE OneUser'
  OBVIOUS
<1> USE DEF PoolInv
<1>0. /\ idle \in Seq(Conns) /\ Len(idle) \in Nat /\ OneUser
      /\ conn \in [Callers -> Conns \cup {None}]
  BY LenProperties DEF TypeOK
<1>1. ASSUME UNCHANGED <<conn, idle, open>> PROVE OneUser'
  BY <1>1 DEF OneUser, Idle
<1>2. ASSUME NEW c \in Callers, Search(c), idle # << >> PROVE OneUser'
  <2> DEFINE n == Len(idle)
             top == idle[n]
  <2>1. /\ \A i \in 1 .. Len(idle') : idle'[i] = idle[i]
        /\ Len(idle') = n - 1 /\ n \in Nat /\ n - 1 \in Nat
    BY <1>0, <1>2, Popped DEF Search
  <2>2. top \in Idle /\ Idle' \subseteq Idle /\ top \notin Idle'
    BY <2>1 DEF Idle, OneUser
  <2>3. \A d \in Callers : conn'[d] = IF d = c THEN top ELSE conn[d]
    BY <1>0, <1>2 DEF Search, SetConn
  <2>4. open' = open
    BY <1>2 DEF Search, linkVars
  <2>5. \A i, j \in 1 .. Len(idle') : idle'[i] = idle'[j] => i = j
    BY <2>1 DEF OneUser
  <2> HIDE DEF top
  <2> QED
    BY <2>2, <2>3, <2>4, <2>5 DEF OneUser
<1>3. ASSUME NEW c \in Callers, Search(c), idle = << >> PROVE OneUser'
  BY <1>1, <1>3 DEF Search, linkVars
<1>4. ASSUME NEW c \in Callers, CloseStale(c) PROVE OneUser'
  BY <1>4, ConnDropped, Zenon DEF CloseStale, SetConn, HasConn, poolVars
<1>5. ASSUME NEW c \in Callers, Factory(c) PROVE OneUser'
  <2>1. CASE UNCHANGED <<linkVars, conn>>
    BY <1>1, <1>5, <2>1 DEF Factory, poolVars, linkVars
  <2>2. CASE \E x \in Conns \ open : open' = open \cup {x} /\ SetConn(c, x)
    <3>1. PICK x \in Conns \ open : open' = open \cup {x} /\ SetConn(c, x)
      BY <2>2
    <3>2. \A d \in Callers : conn'[d] = IF d = c THEN x ELSE conn[d]
      BY <1>0, <3>1 DEF SetConn
    <3>3. idle' = idle /\ Idle' = Idle
      BY <1>5 DEF Factory, poolVars, Idle
    <3> QED
      BY <3>1, <3>2, <3>3 DEF OneUser
  <2> QED
    BY <1>5, <2>1, <2>2 DEF Factory
<1>6. ASSUME NEW c \in Callers, Put(c) PROVE OneUser'
  <2>0. conn[c] # None /\ conn[c] \in Conns
    BY <1>6, <1>0 DEF Put, HasConn
  <2>1. CASE open' = open \ {conn[c]} /\ idle' = idle
    BY <1>6, <2>0, <2>1, ConnDropped, Zenon DEF Put, SetConn
  <2>2. CASE idle' = Append(idle, conn[c]) /\ UNCHANGED linkVars
    <3>1. /\ Len(idle') = Len(idle) + 1
          /\ \A i \in 1 .. Len(idle') :
               idle'[i] = IF i = Len(idle) + 1 THEN conn[c] ELSE idle[i]
      BY <1>0, <2>0, <2>2, Pushed
    <3>2. conn[c] \notin Idle /\ conn[c] \in open
      BY <2>0 DEF OneUser
    <3>3. Idle' = Idle \cup {conn[c]}
      BY <1>0, <3>1 DEF Idle
    <3>4. \A i, j \in 1 .. Len(idle') : idle'[i] = idle'[j] => i = j
      BY <1>0, <3>1, <3>2 DEF OneUser, Idle
    <3>5. \A d \in Callers : conn'[d] = IF d = c THEN None ELSE conn[d]
      BY <1>0, <1>6 DEF Put, SetConn
    <3>6. open' = open
      BY <2>2 DEF linkVars
    <3>7. \A d \in Callers : conn'[d] # None => conn'[d] \in open' \ Idle'
      BY <2>0, <3>3, <3>5, <3>6 DEF OneUser
    <3>8. \A d, e \in Callers : conn'[d] # None /\ conn'[d] = conn'[e] => d = e
      BY <3>5 DEF OneUser
    <3> QED
      BY <3>2, <3>3, <3>4, <3>6, <3>7, <3>8 DEF OneUser
  <2> QED
    BY <1>6, <2>1, <2>2 DEF Put
<1>7. ASSUME Close PROVE OneUser'
  <2>1. Idle' = {} /\ idle' = << >> /\ open' = open \ Idle /\ conn' = conn
    BY <1>7 DEF Close, Idle
  <2> QED
    BY <2>1 DEF OneUser
<1>8. ASSUME NEW c \in Callers,
             \/ Get(c) \/ Allow(c) \/ Wait(c) \/ Failed(c)
             \/ RecordFailure(c) \/ RecordSuccess(c)
      PROVE  OneUser'
  BY <1>1, <1>8
  DEF Get, Allow, Wait, Failed, RecordFailure, RecordSuccess, poolVars, linkVars
<1>9. ASSUME CoolDown \/ UNCHANGED vars \/ \E x \in Conns : LinkLost(x) PROVE OneUser'
  BY <1>1, <1>9 DEF CoolDown, LinkLost, vars, poolVars, linkVars
<1> QED
  BY <1>2, <1>3, <1>4, <1>5, <1>6, <1>7, <1>8, <1>9 DEF Next, Step

(* The inductive invariant holds in every reachable state.                 *)
THEOREM PoolInvariant == Spec => []PoolInv
<1>1. PoolInv /\ [Next]_vars => PoolInv'
  BY PoolTypePreserved, CountPreserved, BoundPreserved, BreakerPreserved,
     HeldPreserved, OneUserPreserved
  DEF PoolInv, Counted, HeldWhere
<1> QED
  BY InitPoolInv, <1>1, PTL DEF Spec

(* MaxSize bounds the connections in use, being dialled and idle.          *)
THEOREM PoolBounded == Spec => []PoolBound
<1>1. PoolInv => PoolBound
  BY DEF PoolInv
<1> QED
  BY <1>1, PoolInvariant, PTL

(* p.active counts the callers that hold or dial a connection, neither     *)
(* more nor fewer, so that PoolBound bounds real connections.              *)
THEOREM ActiveIsExact == Spec => []ActiveExact
<1>1. PoolInv => ActiveExact
  BY DEF PoolInv
<1> QED
  BY <1>1, PoolInvariant, PTL

(* No connection has two users, whatever the callers interleave.           *)
THEOREM ConnectionsUnshared == Spec => []OneUser
<1>1. PoolInv => OneUser
  BY DEF PoolInv
<1> QED
  BY <1>1, PoolInvariant, PTL

(* The breaker is open once Threshold failures are counted.                *)
THEOREM BreakerOpens == Spec => []BreakerTrips
<1>1. PoolInv => BreakerTrips
  BY DEF PoolInv
<1> QED
  BY <1>1, PoolInvariant, PTL

(* An open breaker is open until its timeout has passed.                   *)
THEOREM BreakerStaysOpen == Spec => OpenUntilCooled
<1>1. [Next]_vars => [breaker = "open" /\ ~cooled => breaker' = "open"]_vars
  <2> SUFFICES ASSUME [Next]_vars, breaker = "open", ~cooled PROVE breaker' = "open"
    OBVIOUS
  <2>1. ASSUME NEW c \in Callers, Get(c) \/ Step(c) PROVE breaker' = "open"
    BY <2>1 DEF Step, Get, Allow, Wait, Search, CloseStale, Factory, Failed,
                RecordFailure, RecordSuccess, Put, breakerVars
  <2>2. ASSUME Close \/ CoolDown \/ UNCHANGED vars \/ \E x \in Conns : LinkLost(x)
        PROVE  breaker' = "open"
    BY <2>2 DEF Close, CoolDown, LinkLost, vars, breakerVars
  <2> QED
    BY <2>1, <2>2 DEF Next
<1> QED
  BY <1>1, PTL DEF Spec, OpenUntilCooled
=============================================================================
