--------------------------- MODULE ConnectionPool ---------------------------
(***************************************************************************)
(* The SSH connection pool and the circuit breaker in front of it          *)
(* (pkg/rds/pool.go).  Callers Get a client, use it and Put it back, while *)
(* the pool may be closed and connections may be lost at any time.         *)
(*                                                                         *)
(* Get is several critical sections: the closed check, the breaker, the    *)
(* rate limiter, the search of the idle stack (which unlocks to close a    *)
(* stale connection), the factory, and the records after it.  The counters *)
(* of PoolMetrics are left out.                                            *)
(***************************************************************************)
EXTENDS Naturals, Sequences, FiniteSets

CONSTANTS
  Callers,    \* goroutines that use the pool
  Conns,      \* client objects the factory can return
  MaxSize, MaxIdle, Threshold,
  None

ASSUME PoolAssumption ==
  /\ IsFiniteSet(Callers)
  /\ MaxSize \in Nat \ {0} /\ MaxIdle \in 1 .. MaxSize
  /\ Threshold \in Nat \ {0}
  /\ None \notin Conns

VARIABLES
  closed,     \* p.closed
  active,     \* p.active
  idle,       \* p.idle, the top of the stack last
  open,       \* connections that were made and not closed
  connected,  \* those whose link is up
  breaker,    \* p.breaker.state
  failures,   \* p.breaker.failures
  cooled,     \* timeout has passed since p.breaker.lastFailTime
  pc,         \* where each caller is
  conn        \* the connection each caller is working with

poolVars == <<closed, active, idle>>
linkVars == <<open, connected>>
breakerVars == <<breaker, failures, cooled>>
vars == <<poolVars, linkVars, breakerVars, pc, conn>>

Places == {"out", "allow", "wait", "search", "close_stale", "factory",
           "failed", "record_failure", "record_success", "using"}

TypeOK ==
  /\ closed \in BOOLEAN /\ cooled \in BOOLEAN
  /\ active \in Nat
  /\ idle \in Seq(Conns)
  /\ open \subseteq Conns /\ connected \subseteq open
  /\ breaker \in {"closed", "open", "half_open"}
  /\ failures \in Nat
  /\ pc \in [Callers -> Places]
  /\ conn \in [Callers -> Conns \cup {None}]

Init ==
  /\ closed = FALSE /\ active = 0 /\ idle = << >>
  /\ open = {} /\ connected = {}
  /\ breaker = "closed" /\ failures = 0 /\ cooled = TRUE
  /\ pc = [c \in Callers |-> "out"]
  /\ conn = [c \in Callers |-> None]

Goto(c, place) == pc' = [pc EXCEPT ![c] = place]
SetConn(c, x) == conn' = [conn EXCEPT ![c] = x]

-----------------------------------------------------------------------------
(* Get looks at p.closed once, at the start.                               *)
Get(c) ==
  /\ pc[c] = "out"
  /\ ~closed
  /\ Goto(c, "allow")
  /\ UNCHANGED <<poolVars, linkVars, breakerVars, conn>>

(* breaker.Allow: a closed or half-open breaker lets every caller through, *)
(* an open one does when its timeout has passed, and is then half-open.    *)
Allow(c) ==
  /\ pc[c] = "allow"
  /\ \/ /\ breaker \in {"closed", "half_open"}
        /\ Goto(c, "wait")
        /\ UNCHANGED breakerVars
     \/ /\ breaker = "open" /\ cooled
        /\ breaker' = "half_open" /\ failures' = 0
        /\ Goto(c, "wait")
        /\ UNCHANGED cooled
     \/ /\ breaker = "open" /\ ~cooled
        /\ Goto(c, "out")                                  \* ErrCircuitOpen
        /\ UNCHANGED breakerVars
  /\ UNCHANGED <<poolVars, linkVars, conn>>

(* limiter.Wait ends, or the context does.                                 *)
Wait(c) ==
  /\ pc[c] = "wait"
  /\ Goto(c, "search") \/ Goto(c, "out")
  /\ UNCHANGED <<poolVars, linkVars, breakerVars, conn>>

SearchOffByOne(c) ==   \* mutant: active <= MaxSize
  LET top == idle[Len(idle)]
      rest == SubSeq(idle, 1, Len(idle) - 1)
  IN /\ pc[c] = "search"
     /\ \/ /\ idle # << >>
           /\ idle' = rest
           /\ SetConn(c, top)
           /\ \/ Goto(c, "close_stale") /\ UNCHANGED active
              \/ top \in connected /\ active' = active + 1 /\ Goto(c, "using")
        \/ /\ idle = << >> /\ active >= MaxSize + 1
           /\ Goto(c, "out")
           /\ UNCHANGED <<active, idle, conn>>
        \/ /\ idle = << >> /\ active < MaxSize + 1
           /\ active' = active + 1
           /\ Goto(c, "factory")
           /\ UNCHANGED <<idle, conn>>
     /\ UNCHANGED <<closed, linkVars, breakerVars>>

(* One round of the loop over the idle stack, under p.mu.  The top of the  *)
(* stack is stale when it has been idle for too long or its link is down.  *)
Search(c) ==
  LET top == idle[Len(idle)]
      rest == SubSeq(idle, 1, Len(idle) - 1)
  IN /\ pc[c] = "search"
     /\ \/ /\ idle # << >>
           /\ idle' = rest
           /\ SetConn(c, top)
           /\ \/ Goto(c, "close_stale") /\ UNCHANGED active
              \/ top \in connected /\ active' = active + 1 /\ Goto(c, "using")
        \/ /\ idle = << >> /\ active >= MaxSize
           /\ Goto(c, "out")                               \* ErrPoolExhausted
           /\ UNCHANGED <<active, idle, conn>>
        \/ /\ idle = << >> /\ active < MaxSize
           /\ active' = active + 1
           /\ Goto(c, "factory")
           /\ UNCHANGED <<idle, conn>>
     /\ UNCHANGED <<closed, linkVars, breakerVars>>

(* The stale connection is closed without p.mu, then the loop goes on.     *)
CloseStale(c) ==
  /\ pc[c] = "close_stale"
  /\ open' = open \ {conn[c]} /\ connected' = connected \ {conn[c]}
  /\ SetConn(c, None)
  /\ Goto(c, "search")
  /\ UNCHANGED <<poolVars, breakerVars>>

(* p.factory() dials, without any lock.                                    *)
Factory(c) ==
  /\ pc[c] = "factory"
  /\ \/ \E x \in Conns \ open :
          /\ open' = open \cup {x} /\ connected' = connected \cup {x}
          /\ SetConn(c, x)
          /\ Goto(c, "record_success")
     \/ Goto(c, "failed") /\ UNCHANGED <<linkVars, conn>>
  /\ UNCHANGED <<poolVars, breakerVars>>

FailedKeepsSlot(c) ==   \* mutant: a failed dial keeps its slot
  /\ pc[c] = "failed"
  /\ Goto(c, "record_failure")
  /\ UNCHANGED <<poolVars, linkVars, breakerVars, conn>>

Failed(c) ==
  /\ pc[c] = "failed"
  /\ active' = active - 1
  /\ Goto(c, "record_failure")
  /\ UNCHANGED <<closed, idle, linkVars, breakerVars, conn>>

RecordFailure(c) ==
  /\ pc[c] = "record_failure"
  /\ failures' = failures + 1
  /\ cooled' = FALSE
  /\ breaker' = IF failures' >= Threshold THEN "open" ELSE breaker
  /\ Goto(c, "out")
  /\ UNCHANGED <<poolVars, linkVars, conn>>

RecordSuccessCloses(c) ==   \* mutant: any success closes the breaker
  /\ pc[c] = "record_success"
  /\ breaker' = "closed" /\ failures' = 0
  /\ Goto(c, "using")
  /\ UNCHANGED <<poolVars, linkVars, cooled, conn>>

RecordSuccess(c) ==
  /\ pc[c] = "record_success"
  /\ breaker' = IF breaker = "half_open" THEN "closed" ELSE breaker
  /\ failures' = 0
  /\ Goto(c, "using")
  /\ UNCHANGED <<poolVars, linkVars, cooled, conn>>

PutKeepsTwo(c) ==   \* mutant: a surplus connection is closed and kept in the stack
  /\ pc[c] = "using"
  /\ idle' = IF closed THEN idle ELSE Append(idle, conn[c])
  /\ active' = IF closed THEN active ELSE active - 1
  /\ open' = open \ {conn[c]} /\ connected' = connected \ {conn[c]}
  /\ SetConn(c, None)
  /\ Goto(c, "out")
  /\ UNCHANGED <<closed, breakerVars>>

PutIgnoresClosed(c) ==   \* mutant: p.closed is not checked
  LET keep == Len(idle) < MaxIdle /\ conn[c] \in connected
  IN /\ pc[c] = "using"
     /\ active' = active - 1
     /\ \/ keep /\ idle' = Append(idle, conn[c]) /\ UNCHANGED linkVars
        \/ /\ ~keep /\ UNCHANGED idle
           /\ open' = open \ {conn[c]} /\ connected' = connected \ {conn[c]}
     /\ SetConn(c, None)
     /\ Goto(c, "out")
     /\ UNCHANGED <<closed, breakerVars>>

(* Put: after Close the connection is only closed, p.active stays.         *)
Put(c) ==
  LET keep == Len(idle) < MaxIdle /\ conn[c] \in connected
      Drop == /\ open' = open \ {conn[c]}
              /\ connected' = connected \ {conn[c]}
  IN /\ pc[c] = "using"
     /\ \/ closed /\ Drop /\ UNCHANGED <<active, idle>>
        \/ /\ ~closed /\ keep
           /\ active' = active - 1
           /\ idle' = Append(idle, conn[c])
           /\ UNCHANGED linkVars
        \/ /\ ~closed /\ ~keep
           /\ active' = active - 1
           /\ Drop
           /\ UNCHANGED idle
     /\ SetConn(c, None)
     /\ Goto(c, "out")
     /\ UNCHANGED <<closed, breakerVars>>

Idle == {idle[i] : i \in 1 .. Len(idle)}

Close ==
  /\ ~closed
  /\ closed' = TRUE
  /\ open' = open \ Idle /\ connected' = connected \ Idle
  /\ idle' = << >>
  /\ UNCHANGED <<active, breakerVars, pc, conn>>

(* A link is lost; time passes.                                            *)
LinkLost(x) ==
  /\ x \in connected
  /\ connected' = connected \ {x}
  /\ UNCHANGED <<poolVars, open, breakerVars, pc, conn>>

CoolDown ==
  /\ ~cooled /\ cooled' = TRUE
  /\ UNCHANGED <<poolVars, linkVars, breaker, failures, pc, conn>>

Step(c) ==
  \/ Allow(c) \/ Wait(c) \/ Search(c) \/ CloseStale(c) \/ Factory(c)
  \/ Failed(c) \/ RecordFailure(c) \/ RecordSuccess(c) \/ Put(c)

Next ==
  \/ \E c \in Callers : Get(c) \/ Step(c)
  \/ Close
  \/ \E x \in Conns : LinkLost(x)
  \/ CoolDown

Spec == Init /\ [][Next]_vars

(* Calls end and callers put back what they got; nobody has to call.       *)
FairSpec == Spec /\ \A c \in Callers : WF_vars(Step(c))

-----------------------------------------------------------------------------
(* pool.go: MaxSize bounds the connections that are in use, being dialled  *)
(* or idle, although a caller that reuses an idle one does not look at the *)
(* bound.                                                                  *)
PoolBound == active + Len(idle) <= MaxSize /\ Len(idle) <= MaxIdle

(* While the pool is open, p.active counts the callers that have a         *)
(* connection or are dialling: no path loses a slot or frees one twice.    *)
SlotPlaces == {"factory", "failed", "record_success", "using"}
Slots == {c \in Callers : pc[c] \in SlotPlaces}

ActiveExact == ~closed => active = Cardinality(Slots)

(* A connection has one user: it is never with two callers, nor with a     *)
(* caller and in the idle stack, nor twice in the stack; and it is open.   *)
OneUser ==
  /\ \A c, d \in Callers : conn[c] # None /\ conn[c] = conn[d] => c = d
  /\ \A c \in Callers : conn[c] # None => conn[c] \in open \ Idle
  /\ \A i, j \in 1 .. Len(idle) : idle[i] = idle[j] => i = j
  /\ Idle \subseteq open

(* The breaker opens when Threshold failures are counted, whatever the     *)
(* order in which the callers of the failed dials report them.             *)
BreakerTrips == breaker # "open" => failures < Threshold

(* Why all of these hold, as an inductive invariant: the slots are counted *)
(* in a closed pool too, from above, and a caller has a connection exactly *)
(* between the search and the end of Put.                                  *)
HasConn == {"close_stale", "record_success", "using"}

PoolInv ==
  /\ TypeOK /\ PoolBound /\ ActiveExact /\ OneUser /\ BreakerTrips
  /\ Cardinality(Slots) <= active
  /\ \A c \in Callers : conn[c] # None <=> pc[c] \in HasConn

(* An open breaker stays so until its timeout has passed: neither a late   *)
(* success nor a late failure of a caller admitted before changes it.      *)
OpenUntilCooled == [][breaker = "open" /\ ~cooled => breaker' = "open"]_vars

(* A closed pool ends with every connection closed, those included that    *)
(* callers took or dialled while Close ran.                                *)
ClosedPoolDrains == closed ~> open = {}
=============================================================================
