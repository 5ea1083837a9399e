------------------------ MODULE DriverLifecycleProofs ------------------------
(***************************************************************************)
(* Proofs about DriverLifecycle, for any number of faults and node events. *)
(***************************************************************************)
EXTENDS DriverLifecycle, TLAPS

(* The initial state satisfies the inductive invariant.                    *)
LEMMA InitLifecycleInv == Init => LifecycleInv
  BY DEF Init, LifecycleInv, PassInv, StopInv

(* A step that leaves the loop and its channels alone.                     *)
LEMMA PassFrame ==
  ASSUME PassInv, UNCHANGED <<fields, loop, deaf, latePasses>>
  PROVE  PassInv'
  BY DEF PassInv

(* The steps of the attachment loop.                                       *)
LEMMA PassSteps ==
  ASSUME PassInv, LoopStep \/ TickStep
  PROVE  PassInv'
<1>0. fields' = fields
  BY DEF LoopStep, TickStep, channelVars
<1>1. CASE Capture
  BY <1>0, <1>1 DEF Capture, BeginPass, PassInv
<1>2. CASE PassEnds
  BY <1>0, <1>2 DEF PassEnds, Hears, PassInv
<1>3. CASE TakeTrigger
  BY <1>0, <1>3 DEF TakeTrigger, BeginPass, PassInv
<1>4. CASE TakeStop
  BY <1>0, <1>4 DEF TakeStop, Hears, PassInv
<1>5. CASE Tick
  BY <1>0, <1>5 DEF Tick, BeginPass, PassInv
<1> QED
  BY <1>1, <1>2, <1>3, <1>4, <1>5 DEF LoopStep, TickStep

(* Every step preserves what is said of the passes.                        *)
LEMMA PassInvPreserved == LifecycleInv /\ [Next]_vars => PassInv'
<1> SUFFICES ASSUME PassInv, StopInv, [Next]_vars PROVE PassInv'
  BY DEF LifecycleInv
<1>1. CASE LoopStep \/ TickStep
  BY <1>1, PassSteps
<1>2. ASSUME RunStep PROVE PassInv'
  <2>1. CASE Start
    BY <2>1 DEF Start, Advance, PassInv, StopInv
  <2>2. CASE ~Start
    BY <1>2, <2>2, PassFrame
    DEF RunStep, Prepare, NewConnectionManager, StartMonitor, StartupTrigger, StartOrphan,
        Serve, channelVars, loopVars
  <2> QED
    BY <2>1, <2>2
<1>3. ASSUME StopStep PROVE PassInv'
  <2>1. UNCHANGED <<loop, deaf, latePasses>>
    BY <1>3 DEF StopStep, loopVars
  <2>2. fields' = fields \/ (fields = "running" /\ fields' = "stopped")
    BY <1>3 DEF StopStep, StopAttach, AwaitAttach, StopManager, AwaitManager, StopOrphan,
                AwaitOrphan, CloseClient, channelVars
  <2> QED
    BY <2>1, <2>2 DEF PassInv
<1>4. CASE NodeChanges \/ LinkLost \/ CommandStep
  BY <1>4, PassFrame, Zenon DEF NodeChanges, LinkLost, CommandStep, channelVars, loopVars
<1>5. CASE MonitorStep \/ CallbackStep \/ MonitorStopStep
  BY <1>5, PassFrame
  DEF MonitorStep, CallbackStep, MonitorStopStep, LinkFrame, channelVars
<1>6. CASE OrphanPassEnds \/ OrphanTick \/ OrphanStops
  BY <1>6, PassFrame
  DEF OrphanPassEnds, OrphanTick, OrphanStops, OrphanFrame, channelVars, loopVars
<1>7. CASE Signal \/ ShutdownDone \/ ShutdownTimeout \/ RunFailed
  BY <1>7, PassFrame
  DEF Signal, ShutdownDone, ShutdownTimeout, RunFailed, Exit, MainFrame, channelVars, loopVars
<1>8. CASE UNCHANGED vars
  BY <1>8, PassFrame DEF vars, channelVars, loopVars
<1> QED
  BY <1>1, <1>2, <1>3, <1>4, <1>5, <1>6, <1>7, <1>8 DEF Next

(* Run is past the start of each loop before it is up, so every step of    *)
(* Run after a signal that was not early is excluded.                      *)
LEMMA StopRunStep ==
  ASSUME PassInv, StopInv, RunStep
  PROVE  StopInv'
<1>0. UNCHANGED <<main, stop, early>>
  BY DEF RunStep
<1>1. CASE Prepare
  BY <1>0, <1>1 DEF Prepare, Advance, StopInv, channelVars, loopVars, linkVars
<1>2. CASE Start
  BY <1>0, <1>2 DEF Start, Advance, StopInv, linkVars
<1>3. CASE NewConnectionManager
  BY <1>0, <1>3 DEF NewConnectionManager, Advance, StopInv, channelVars, loopVars
<1>4. CASE StartMonitor
  BY <1>0, <1>4 DEF StartMonitor, Advance, StopInv, channelVars, loopVars
<1>5. CASE StartupTrigger
  BY <1>0, <1>5 DEF StartupTrigger, Advance, StopInv, channelVars, linkVars
<1>6. CASE StartOrphan
  BY <1>0, <1>6 DEF StartOrphan, Advance, StopInv, channelVars, loopVars, linkVars
<1>7. CASE Serve
  BY <1>0, <1>7 DEF Serve, Advance, StopInv, channelVars, loopVars, linkVars
<1> QED
  BY <1>1, <1>2, <1>3, <1>4, <1>5, <1>6, <1>7 DEF RunStep

(* Each step of Stop waits for the loop it has stopped.                    *)
LEMMA StopStopStep ==
  ASSUME PassInv, StopInv, StopStep, Alive
  PROVE  StopInv'
<1>0. UNCHANGED <<main, run, early, loop, orphan, monitor>>
  BY DEF StopStep, loopVars
<1>1. CASE StopAttach
  BY <1>0, <1>1 DEF StopAttach, StopInv, PassInv, Alive
<1>2. CASE AwaitAttach
  BY <1>0, <1>2 DEF AwaitAttach, StopInv, channelVars, Alive
<1>3. CASE StopManager
  BY <1>0, <1>3 DEF StopManager, StopInv, Alive
<1>4. CASE AwaitManager
  BY <1>0, <1>4 DEF AwaitManager, StopInv, channelVars, Alive
<1>5. CASE StopOrphan
  BY <1>0, <1>5 DEF StopOrphan, StopInv, Alive
<1>6. CASE AwaitOrphan
  BY <1>0, <1>6 DEF AwaitOrphan, StopInv, channelVars, Alive
<1>7. CASE CloseClient
  BY <1>0, <1>7 DEF CloseClient, StopInv, channelVars, Alive
<1> QED
  BY <1>1, <1>2, <1>3, <1>4, <1>5, <1>6, <1>7 DEF StopStep

(* Every step preserves what is said of Run and Stop.                      *)
LEMMA StopInvPreserved == LifecycleInv /\ [Next]_vars => StopInv'
<1> SUFFICES ASSUME PassInv, StopInv, [Next]_vars PROVE StopInv'
  BY DEF LifecycleInv
<1>1. CASE RunStep
  BY <1>1, StopRunStep
<1>2. CASE StopStep /\ Alive
  BY <1>2, StopStopStep
<1>3. ASSUME UNCHANGED <<main, run, stop, early, fields>>,
             loop' = loop \/ loop # "done",
             monitor' = monitor \/ (monitor \notin {"none", "done"} /\ monitor' # "none"),
             orphan' = orphan \/ (orphan \notin {"none", "done"} /\ orphan' # "none")
      PROVE  StopInv'
  BY <1>3 DEF StopInv
<1>4. CASE LoopStep \/ TickStep
  <2>1. UNCHANGED <<main, run, stop, early, fields, monitor, orphan>>
    BY <1>4 DEF LoopStep, TickStep, mainVars, channelVars, linkVars
  <2>2. loop' = loop \/ loop # "done"
    BY <1>4 DEF LoopStep, TickStep, Capture, PassEnds, TakeTrigger, TakeStop, Tick
  <2> QED
    BY <1>3, <2>1, <2>2
<1>5. CASE NodeChanges \/ LinkLost \/ CommandStep
  BY <1>3, <1>5, Zenon DEF NodeChanges, LinkLost, CommandStep, mainVars, channelVars, loopVars, linkVars
<1>6. CASE MonitorStep \/ CallbackStep \/ MonitorStopStep
  <2>1. UNCHANGED <<main, run, stop, early, fields, loop, orphan>>
    BY <1>6 DEF MonitorStep, CallbackStep, MonitorStopStep, LinkFrame, mainVars, channelVars
  <2>2. monitor' = monitor \/ (monitor \notin {"none", "done"} /\ monitor' # "none")
    BY <1>6 DEF MonitorStep, CallbackStep, MonitorStopStep, Poll, IsConnected, Attempt, Dial,
                Backoff, OnReconnect, MonitorStops
  <2> QED
    BY <1>3, <2>1, <2>2
<1>7. CASE OrphanPassEnds \/ OrphanTick \/ OrphanStops
  BY <1>3, <1>7 DEF OrphanPassEnds, OrphanTick, OrphanStops, OrphanFrame, mainVars, channelVars,
                    loopVars, linkVars
<1>8. CASE Signal
  BY <1>8, Zenon DEF Signal, MainFrame, StopInv, channelVars, loopVars, linkVars
<1>9. CASE ShutdownDone \/ ShutdownTimeout \/ RunFailed
  BY <1>9 DEF ShutdownDone, ShutdownTimeout, RunFailed, Exit, MainFrame, StopInv, channelVars,
              loopVars, linkVars
<1>10. CASE UNCHANGED vars
  BY <1>3, <1>10 DEF vars, mainVars, channelVars, loopVars, linkVars
<1> QED
  BY <1>1, <1>2, <1>4, <1>5, <1>6, <1>7, <1>8, <1>9, <1>10 DEF Next

(* The inductive invariant holds in every reachable state.                 *)
THEOREM LifecycleInvariant == Spec => []LifecycleInv
<1>1. LifecycleInv /\ [Next]_vars => LifecycleInv'
  BY PassInvPreserved, StopInvPreserved DEF LifecycleInv
<1> QED
  BY InitLifecycleInv, <1>1, PTL DEF Spec

(* A stopped attachment loop begins one more pass at most.                 *)
THEOREM StopPrecedesWork == Spec => []OnePassAfterStop
<1>1. LifecycleInv => OnePassAfterStop
  BY DEF LifecycleInv, PassInv, OnePassAfterStop
<1> QED
  BY <1>1, LifecycleInvariant, PTL

(* "Driver stopped gracefully" means that every background loop has ended. *)
THEOREM GracefulStopIsQuiet == Spec => []GracefulIsQuiet
<1>1. LifecycleInv => GracefulIsQuiet
  BY DEF LifecycleInv, StopInv, GracefulIsQuiet
<1> QED
  BY <1>1, LifecycleInvariant, PTL

-----------------------------------------------------------------------------
(* Type correctness.  An OnReconnect goroutine is paid for by a fault, or  *)
(* by the close of the client at the end of Stop, which a monitor made     *)
(* after Stop had passed it can take for a lost link: the monitor dials on *)
(* a change from connected to not connected only.                          *)
One(b) == IF b THEN 1 ELSE 0
Retrying == monitor \in {"attempt", "dial", "backoff"}
Unnoticed == client = "down" /\ connected

CallbacksPaid ==
  /\ callbacks + One(Retrying) + One(Unnoticed) <= faults + One(stop = "done")
  /\ Retrying => ~connected
  /\ run \in {"informers", "initialize", "start", "manager"} => monitor = "none"
  /\ run = "monitor" => monitor = "made"

TypeInv == TypeOK /\ CallbacksPaid

(* TypeOK, for the provers.                                                *)
Mains == {"waiting", "shutting", "graceful", "timeout", "fatal"}
Runs == {"informers", "initialize", "start", "manager", "monitor", "trigger", "orphan", "serve",
         "up", "failed"}
Stops == {"none", "attach", "attach_wait", "manager", "manager_wait", "orphan", "orphan_wait",
          "close", "done"}
Closable == {"manager", "orphan"}
FieldStates == {"new", "running", "stopped"}
Loops == {"none", "spawned", "pass", "wait", "done"}
Orphans == {"none", "pass", "wait", "done"}
Monitors == {"none", "made", "select", "attempt", "dial", "backoff", "done"}
Links == {"up", "down"}
Commands == {"idle", "reconnect"}
Nodes == {"ready", "notready", "gone"}

Places ==
  /\ main \in Mains /\ run \in Runs /\ stop \in Stops
  /\ fields \in FieldStates /\ closed \subseteq Closable
  /\ loop \in Loops /\ orphan \in Orphans /\ monitor \in Monitors
  /\ client \in Links /\ command \in Commands /\ node \in Nodes

Flags == /\ deaf \in BOOLEAN /\ token \in BOOLEAN /\ connected \in BOOLEAN
         /\ unserved \in BOOLEAN /\ seen \in BOOLEAN /\ early \in BOOLEAN

Counters == /\ callbacks \in 0 .. MaxFaults + 1 /\ events \in 0 .. MaxEvents
            /\ faults \in 0 .. MaxFaults /\ latePasses \in 0 .. 2

LEMMA TypeParts == TypeOK <=> Places /\ Flags /\ Counters
<1>1. {deaf, token, connected, unserved, seen, early} \subseteq BOOLEAN <=> Flags
  BY Zenon DEF Flags
<1> QED
  BY <1>1, Zenon DEF TypeOK, Places, Counters, Mains, Runs, Stops, Closable, FieldStates, Loops,
     Orphans, Monitors, Links, Commands, Nodes

LEMMA TypePartsNext == Places' /\ Flags' /\ Counters' => TypeOK'
<1>1. Flags' => {deaf', token', connected', unserved', seen', early'} \subseteq BOOLEAN
  BY Zenon DEF Flags
<1> QED
  BY <1>1, Zenon DEF TypeOK, Places, Counters, Mains, Runs, Stops, Closable, FieldStates, Loops,
     Orphans, Monitors, Links, Commands, Nodes

LEMMA InitTypeInv == Init => TypeInv
<1> SUFFICES ASSUME Init PROVE TypeInv
  OBVIOUS
<1>1. TypeOK
  <2>1. Places
    BY DEF Init, Places, Mains, Runs, Stops, Closable, FieldStates, Loops, Orphans, Monitors,
       Links, Commands, Nodes
  <2>2. Flags
    BY Zenon DEF Init, Flags
  <2>3. Counters
    BY LifecycleAssumption DEF Init, Counters
  <2> QED
    BY <2>1, <2>2, <2>3, TypeParts
<1>2. CallbacksPaid
  BY DEF Init, CallbacksPaid, One, Retrying, Unnoticed
<1> QED
  BY <1>1, <1>2 DEF TypeInv

LEMMA FaultsCounted ==
  ASSUME TypeOK, Works \/ Fault
  PROVE  faults' \in 0 .. MaxFaults /\ (faults' = faults \/ faults' = faults + 1)
  BY LifecycleAssumption, TypeParts DEF Counters, Works, Fault

(* The flags and the places of each part.                                  *)
LEMMA PlacesKept ==
  ASSUME Places, [Next]_vars
  PROVE  Places'
<1> USE DEF Places, mainVars, channelVars, loopVars, linkVars, nodeVars
<1>1. CASE RunStep
  <2>1. UNCHANGED <<main, stop, node>>
    BY <1>1 DEF RunStep
  <2>2. CASE Prepare
    BY <2>1, <2>2 DEF Prepare, Advance, Runs
  <2>3. CASE Start
    BY <2>1, <2>3 DEF Start, Advance, Runs, FieldStates, Loops
  <2>4. CASE StartupTrigger \/ StartOrphan
    BY <2>1, <2>4 DEF StartupTrigger, StartOrphan, Advance, Runs, Orphans
  <2>5. CASE Serve
    BY <2>1, <2>5 DEF Serve, Advance, Runs
  <2>6. CASE NewConnectionManager \/ StartMonitor
    BY <2>1, <2>6 DEF NewConnectionManager, StartMonitor, Advance, Runs, Monitors
  <2> QED
    BY <1>1, <2>2, <2>3, <2>4, <2>5, <2>6, Zenon DEF RunStep
<1>2. CASE StopStep
  <2>1. UNCHANGED <<main, run, loop, orphan, monitor, command, node>>
    BY <1>2 DEF StopStep
  <2>2. CASE StopAttach
    BY <2>1, <2>2 DEF StopAttach, FieldStates, Stops
  <2>3. CASE AwaitAttach \/ AwaitManager \/ AwaitOrphan
    BY <2>1, <2>3, Zenon DEF AwaitAttach, AwaitManager, AwaitOrphan, Stops
  <2>4. CASE StopManager
    BY <2>1, <2>4 DEF StopManager, Stops, Closable
  <2>5. CASE StopOrphan \/ CloseClient
    BY <2>1, <2>5, Zenon DEF StopOrphan, CloseClient, Stops, Closable, Links
  <2> QED
    BY <1>2, <2>2, <2>3, <2>4, <2>5, Zenon DEF StopStep
<1>3. CASE LoopStep \/ TickStep
  BY <1>3, Zenon DEF LoopStep, TickStep, Capture, PassEnds, TakeTrigger, TakeStop, Tick,
     BeginPass, Loops
<1>4. CASE NodeChanges
  <2>1. node' \in Nodes
    BY <1>4, Zenon DEF NodeChanges, Nodes
  <2>2. UNCHANGED <<mainVars, channelVars, loop, orphan, linkVars>>
    BY <1>4 DEF NodeChanges
  <2> QED
    BY <2>1, <2>2
<1>5. CASE LinkLost \/ CommandStep
  BY <1>5, Zenon DEF LinkLost, CommandStep, IsConnected, Links, Commands
<1>6. CASE MonitorStep \/ CallbackStep \/ MonitorStopStep
  <2>1. UNCHANGED <<main, run, stop, fields, closed, loop, orphan, command, node>>
    BY <1>6 DEF MonitorStep, CallbackStep, MonitorStopStep, LinkFrame
  <2>2. monitor' \in Monitors /\ client' \in Links
    BY <1>6, Zenon DEF MonitorStep, CallbackStep, MonitorStopStep, Poll, IsConnected, Attempt,
       Dial, Backoff, OnReconnect, MonitorStops, Monitors, Links
  <2> QED
    BY <2>1, <2>2
<1>7. CASE OrphanPassEnds \/ OrphanTick \/ OrphanStops
  BY <1>7 DEF OrphanPassEnds, OrphanTick, OrphanStops, OrphanFrame, Orphans
<1>8. CASE Signal \/ ShutdownDone \/ ShutdownTimeout \/ RunFailed
  BY <1>8 DEF Signal, ShutdownDone, ShutdownTimeout, RunFailed, Exit, MainFrame, Mains, Stops
<1>9. CASE UNCHANGED vars
  BY <1>9 DEF vars
<1> QED
  BY <1>1, <1>2, <1>3, <1>4, <1>5, <1>6, <1>7, <1>8, <1>9, Zenon DEF Next

LEMMA FlagsKept ==
  ASSUME Flags, [Next]_vars
  PROVE  Flags'
<1> USE DEF Flags, mainVars, channelVars, loopVars, linkVars, nodeVars
<1>1. CASE RunStep
  BY <1>1, Zenon DEF RunStep, Prepare, Start, NewConnectionManager, StartMonitor, StartupTrigger,
     StartOrphan, Serve, IsConnected, TriggerReconcile
<1>2. CASE StopStep
  BY <1>2, Zenon DEF StopStep
<1>3. CASE LoopStep \/ TickStep
  BY <1>3, Zenon DEF LoopStep, TickStep, Capture, PassEnds, TakeTrigger, TakeStop, Tick, BeginPass
<1>4. CASE NodeChanges
  BY <1>4, Zenon DEF NodeChanges, CallsForPass, TriggerReconcile
<1>5. CASE LinkLost \/ CommandStep
  BY <1>5, Zenon DEF LinkLost, CommandStep
<1>6. CASE MonitorStep \/ CallbackStep \/ MonitorStopStep
  <2>1. UNCHANGED <<deaf, early>>
    BY <1>6, Zenon DEF MonitorStep, CallbackStep, MonitorStopStep, LinkFrame
  <2> QED
    BY <1>6, <2>1, Zenon DEF MonitorStep, CallbackStep, MonitorStopStep, Poll, IsConnected,
       Attempt, Dial, Backoff, OnReconnect, MonitorStops, CallsForPass, TriggerReconcile
<1>7. CASE OrphanPassEnds \/ OrphanTick \/ OrphanStops
  BY <1>7, Zenon DEF OrphanPassEnds, OrphanTick, OrphanStops, OrphanFrame
<1>8. CASE Signal \/ ShutdownDone \/ ShutdownTimeout \/ RunFailed
  BY <1>8, Zenon DEF Signal, ShutdownDone, ShutdownTimeout, RunFailed, Exit, MainFrame
<1>9. CASE UNCHANGED vars
  BY <1>9, Zenon DEF vars
<1> QED
  BY <1>1, <1>2, <1>3, <1>4, <1>5, <1>6, <1>7, <1>8, <1>9, Zenon DEF Next


(* The balance of callbacks and faults.                                    *)
Balance == callbacks + One(Retrying) + One(Unnoticed) <= faults + One(stop = "done")

LEMMA BalanceKept ==
  ASSUME callbacks \in Nat, faults \in Nat, Balance,
         callbacks' = callbacks, faults' = faults \/ faults' = faults + 1,
         Retrying' => Retrying, Unnoticed' => Unnoticed, stop = "done" => stop' = "done"
  PROVE  Balance'
  BY DEF Balance, One

LEMMA PaidKept ==
  ASSUME TypeOK, CallbacksPaid, StopInv, [Next]_vars
  PROVE  CallbacksPaid' /\ callbacks' \in Nat
<1> DEFINE RunClause == /\ run \in {"informers", "initialize", "start", "manager"} => monitor = "none"
                        /\ run = "monitor" => monitor = "made"
<1>0. /\ callbacks \in Nat /\ faults \in Nat /\ Balance /\ connected \in BOOLEAN
      /\ (Retrying => ~connected) /\ RunClause
  BY LifecycleAssumption, TypeParts DEF Counters, Flags, CallbacksPaid, Balance
<1> SUFFICES Balance' /\ (Retrying => ~connected)' /\ RunClause' /\ callbacks' \in Nat
  BY DEF CallbacksPaid, Balance
<1> USE DEF mainVars, channelVars, loopVars, linkVars, nodeVars
<1>1. ASSUME UNCHANGED <<monitor, client, connected, callbacks, run>>,
             faults' = faults \/ faults' = faults + 1, stop = "done" => stop' = "done"
      PROVE  Balance' /\ (Retrying => ~connected)' /\ RunClause' /\ callbacks' \in Nat
  BY <1>0, <1>1, BalanceKept DEF Retrying, Unnoticed
<1>2. CASE RunStep
  <2>1. stop' = stop /\ callbacks' = callbacks /\ client' = client
    BY <1>2 DEF RunStep, Prepare, Start, NewConnectionManager, StartMonitor, StartupTrigger,
       StartOrphan, Serve
  <2>2. faults' = faults \/ faults' = faults + 1
    BY <1>2, FaultsCounted DEF RunStep, Prepare, Start, NewConnectionManager, StartMonitor,
       StartupTrigger, StartOrphan, Serve, IsConnected
  <2>3. CASE NewConnectionManager
    <3>1. monitor' = "made" /\ run' = "monitor"
      BY <2>3 DEF NewConnectionManager, Advance
    <3>2. ~Unnoticed'
      BY <2>1, <2>3, Zenon DEF NewConnectionManager, IsConnected, Unnoticed
    <3>3. ~Retrying'
      BY <3>1 DEF Retrying
    <3>4. Balance'
      BY <1>0, <2>1, <2>2, <3>2, <3>3, BalanceKept
    <3> QED
      BY <1>0, <2>1, <3>1, <3>3, <3>4
  <2>4. CASE StartMonitor
    <3>1. monitor' = "select" /\ run' = "trigger" /\ connected' = connected
      BY <2>4 DEF StartMonitor, Advance
    <3>2. ~Retrying' /\ Unnoticed' = Unnoticed
      BY <2>1, <3>1 DEF Retrying, Unnoticed
    <3>3. Balance'
      BY <1>0, <2>1, <2>2, <3>2, BalanceKept
    <3> QED
      BY <1>0, <2>1, <3>1, <3>2, <3>3
  <2>5. CASE Prepare \/ Start \/ StartupTrigger \/ StartOrphan \/ Serve
    <3>1. monitor' = monitor /\ connected' = connected
      BY <2>5 DEF Prepare, Start, StartupTrigger, StartOrphan, Serve
    <3>2. RunClause'
      BY <1>0, <2>5, <3>1 DEF Prepare, Start, StartupTrigger, StartOrphan, Serve, Advance
    <3>3. Retrying' = Retrying /\ Unnoticed' = Unnoticed
      BY <2>1, <3>1 DEF Retrying, Unnoticed
    <3>4. Balance'
      BY <1>0, <2>1, <2>2, <3>3, BalanceKept
    <3> QED
      BY <1>0, <2>1, <3>1, <3>2, <3>3, <3>4
  <2> QED
    BY <1>2, <2>3, <2>4, <2>5, Zenon DEF RunStep
<1>3. CASE StopStep
  <2>1. UNCHANGED <<run, monitor, connected, callbacks, faults>>
    BY <1>3 DEF StopStep
  <2>2. CASE CloseClient
    <3>1. stop # "done" /\ stop' = "done" /\ Retrying' = Retrying
      BY <2>1, <2>2 DEF CloseClient, Retrying
    <3>2. Balance'
      BY <1>0, <2>1, <3>1 DEF Balance, One
    <3> QED
      BY <1>0, <2>1, <3>1, <3>2
  <2>3. CASE ~CloseClient
    <3>1. client' = client /\ stop # "done"
      BY <1>3, <2>3 DEF StopStep, StopAttach, AwaitAttach, StopManager, AwaitManager, StopOrphan,
         AwaitOrphan
    <3> QED
      BY <1>1, <2>1, <3>1
  <2> QED
    BY <2>2, <2>3
<1>4. CASE LoopStep \/ TickStep \/ NodeChanges
  BY <1>1, <1>4, Zenon DEF LoopStep, TickStep, NodeChanges
<1>5. CASE LinkLost
  <2>1. /\ faults' = faults + 1 /\ client = "up"
        /\ UNCHANGED <<run, stop, monitor, connected, callbacks>>
    BY <1>5 DEF LinkLost, Fault
  <2>2. ~Unnoticed /\ Retrying' = Retrying
    BY <2>1 DEF Unnoticed, Retrying
  <2>3. Balance'
    BY <1>0, <2>1, <2>2 DEF Balance, One
  <2> QED
    BY <1>0, <2>1, <2>2, <2>3
<1>6. CASE CommandStep
  <2>1. UNCHANGED <<run, stop, monitor, connected, callbacks>>
    BY <1>6 DEF CommandStep
  <2>2. client' = client \/ client' = "up"
    BY <1>6 DEF CommandStep
  <2>3. faults' = faults \/ faults' = faults + 1
    BY <1>6, FaultsCounted, Zenon DEF CommandStep, IsConnected
  <2>4. Retrying' = Retrying /\ (Unnoticed' => Unnoticed)
    BY <2>1, <2>2 DEF Unnoticed, Retrying
  <2>5. Balance'
    BY <1>0, <2>1, <2>3, <2>4, BalanceKept
  <2> QED
    BY <1>0, <2>1, <2>4, <2>5
<1>7. CASE MonitorStep
  <2>1. run' = run /\ stop' = stop
    BY <1>7, Zenon DEF MonitorStep, LinkFrame
  <2>2. CASE Poll
    <3>1. monitor = "select" /\ client' = client /\ callbacks' = callbacks /\ monitor' \in {"select", "attempt"}
      BY <2>2, Zenon DEF Poll, IsConnected
    <3>2. CASE Works /\ client = "up" /\ monitor' = monitor
      <4>1. faults' = faults /\ ~Retrying' /\ ~Unnoticed'
        BY <3>1, <3>2 DEF Works, Retrying, Unnoticed
      <4>2. Balance'
        BY <1>0, <2>1, <3>1, <4>1, BalanceKept
      <4> QED
        BY <1>0, <2>1, <3>1, <4>1, <4>2
    <3>3. CASE Works /\ client = "down" /\ connected' = FALSE
      <4>1. faults' = faults /\ ~Unnoticed' /\ ~Retrying /\ (monitor' = "attempt" => Unnoticed)
        BY <2>2, <3>1, <3>3 DEF Works, Poll, IsConnected, Retrying, Unnoticed
      <4>2. Balance'
        BY <1>0, <2>1, <3>1, <4>1 DEF Balance, One, Retrying
      <4> QED
        BY <1>0, <2>1, <3>1, <3>3, <4>2
    <3>4. CASE client = "up" /\ Fault /\ connected' = FALSE
      <4>1. faults' = faults + 1 /\ ~Unnoticed' /\ ~Retrying /\ ~Unnoticed
        BY <3>1, <3>4 DEF Fault, Retrying, Unnoticed
      <4>2. Balance'
        BY <1>0, <2>1, <3>1, <4>1 DEF Balance, One
      <4> QED
        BY <1>0, <2>1, <3>1, <3>4, <4>2
    <3> QED
      BY <2>2, <3>2, <3>3, <3>4, Zenon DEF Poll, IsConnected
  <2>3. CASE Attempt \/ Backoff
    <3>1. /\ Retrying /\ ~connected /\ UNCHANGED <<connected, callbacks, faults>>
      BY <1>0, <2>3 DEF Attempt, Backoff, Retrying
    <3>2. monitor \notin {"none", "made"} /\ ~Unnoticed'
      BY <3>1 DEF Retrying, Unnoticed
    <3>3. Balance'
      BY <1>0, <2>1, <3>1, <3>2, BalanceKept
    <3> QED
      BY <1>0, <2>1, <3>1, <3>2, <3>3
  <2>4. CASE Dial
    <3>1. monitor = "dial" /\ Retrying /\ ~connected
      BY <1>0, <2>4 DEF Dial, Retrying
    <3>2. CASE /\ Works /\ client' = "up" /\ callbacks' = callbacks + 1 /\ monitor' = "select"
      <4>1. faults' = faults /\ ~Retrying' /\ ~Unnoticed' /\ ~Unnoticed
        BY <3>1, <3>2 DEF Works, Retrying, Unnoticed
      <4>2. Balance'
        BY <1>0, <2>1, <3>1, <3>2, <4>1 DEF Balance, One
      <4> QED
        BY <1>0, <2>1, <3>1, <3>2, <4>1, <4>2
    <3>3. CASE Fault /\ UNCHANGED <<client, connected, callbacks>>
      <4>1. faults' = faults + 1 /\ ~Unnoticed'
        BY <3>1, <3>3 DEF Fault, Unnoticed
      <4>2. Balance'
        BY <1>0, <2>1, <3>1, <3>3, <4>1, BalanceKept
      <4> QED
        BY <1>0, <2>1, <3>1, <3>3, <4>2
    <3> QED
      BY <2>4, <3>2, <3>3, Zenon DEF Dial
  <2> QED
    BY <1>7, <2>2, <2>3, <2>4, Zenon DEF MonitorStep
<1>8. CASE CallbackStep
  <2>1. /\ callbacks > 0 /\ callbacks' = callbacks - 1
        /\ UNCHANGED <<run, stop, monitor, connected, client, faults>>
    BY <1>8 DEF CallbackStep, OnReconnect, LinkFrame
  <2>2. Retrying' = Retrying /\ Unnoticed' = Unnoticed
    BY <2>1 DEF Retrying, Unnoticed
  <2>3. Balance'
    BY <1>0, <2>1, <2>2 DEF Balance, One
  <2> QED
    BY <1>0, <2>1, <2>2, <2>3
<1>9. CASE MonitorStopStep
  <2>1. /\ UNCHANGED <<run, stop, callbacks, connected, client, faults>>
        /\ monitor = "select" /\ monitor' = "done"
    BY <1>9 DEF MonitorStopStep, MonitorStops, LinkFrame
  <2>2. ~Retrying' /\ Unnoticed' = Unnoticed
    BY <2>1 DEF Retrying, Unnoticed
  <2>3. Balance'
    BY <1>0, <2>1, <2>2, BalanceKept
  <2> QED
    BY <1>0, <2>1, <2>2, <2>3
<1>10. CASE OrphanPassEnds \/ OrphanTick \/ OrphanStops
  BY <1>1, <1>10, Zenon DEF OrphanPassEnds, OrphanTick, OrphanStops, OrphanFrame
<1>11. CASE ShutdownDone \/ ShutdownTimeout \/ RunFailed
  BY <1>1, <1>11, Zenon DEF ShutdownDone, ShutdownTimeout, RunFailed, Exit, MainFrame
<1>12. CASE Signal
  <2>1. stop # "done" /\ MainFrame /\ run' = run
    BY <1>12 DEF Signal, MainFrame, StopInv
  <2> QED
    BY <1>1, <2>1, Zenon DEF MainFrame
<1>13. CASE UNCHANGED vars
  BY <1>1, <1>13, Zenon DEF vars
<1> QED
  BY <1>2, <1>3, <1>4, <1>5, <1>6, <1>7, <1>8, <1>9, <1>10, <1>11, <1>12, <1>13, Zenon DEF Next


LEMMA BalanceBounds ==
  ASSUME MaxFaults \in Nat, faults' \in 0 .. MaxFaults, callbacks' \in Nat, Balance'
  PROVE  callbacks' \in 0 .. MaxFaults + 1
<1>1. faults' \in Nat /\ faults' <= MaxFaults
  OBVIOUS
<1>2. callbacks' <= faults' + 1
  <2>1. PICK r, u, d \in {0, 1} : r = One(Retrying)' /\ u = One(Unnoticed)' /\ d = One(stop = "done")'
    BY Zenon DEF Retrying, Unnoticed, One
  <2>2. callbacks' + r + u <= faults' + d
    BY <2>1, Zenon DEF Balance
  <2>3. \A c, f \in Nat : c + r + u <= f + d => c <= f + 1
    OBVIOUS
  <2> QED
    BY <1>1, <2>2, <2>3, Zenon
<1>3. \A c, f, m \in Nat : f <= m /\ c <= f + 1 => c \in 0 .. m + 1
  OBVIOUS
<1> QED
  BY <1>1, <1>2, <1>3, Zenon

LEMMA CountersKept ==
  ASSUME TypeOK, CallbacksPaid', callbacks' \in Nat, [Next]_vars
  PROVE  Counters'
<1> USE DEF mainVars, channelVars, loopVars, linkVars, nodeVars
<1>0. Counters
  BY TypeParts
<1>1. faults' \in 0 .. MaxFaults
  <2>1. CASE faults' = faults
    BY <1>0, <2>1 DEF Counters
  <2>2. CASE Works \/ Fault
    BY <2>2, FaultsCounted
  <2> QED
    BY <2>1, <2>2, Zenon DEF Next, vars, RunStep, Prepare, Start, NewConnectionManager, StartMonitor,
       StartupTrigger, StartOrphan, Serve, IsConnected, StopStep, LoopStep, TickStep, NodeChanges,
       LinkLost, CommandStep, MonitorStep, Poll, Attempt, Dial, Backoff, CallbackStep, OnReconnect,
       MonitorStopStep, MonitorStops, OrphanPassEnds, OrphanTick, OrphanStops, OrphanFrame,
       ShutdownDone, ShutdownTimeout, RunFailed, Exit, Signal, MainFrame
<1>2. events' \in 0 .. MaxEvents
  <2>1. CASE NodeChanges
    <3>1. events < MaxEvents /\ events' = events + 1
      BY <2>1, Zenon DEF NodeChanges
    <3> QED
      BY <1>0, <3>1, LifecycleAssumption DEF Counters
  <2>2. CASE events' = events
    BY <1>0, <2>2 DEF Counters
  <2> QED
    BY <2>1, <2>2, Zenon DEF Next, vars, RunStep, StopStep, LoopStep, TickStep, LinkLost,
       CommandStep, MonitorStep, LinkFrame, CallbackStep, MonitorStopStep, OrphanPassEnds,
       OrphanTick, OrphanStops, OrphanFrame, ShutdownDone, ShutdownTimeout, RunFailed, Exit,
       Signal, MainFrame
<1>3. latePasses' \in 0 .. 2
  <2>1. CASE BeginPass
    BY <1>0, <2>1 DEF Counters, BeginPass
  <2>2. CASE latePasses' = latePasses
    BY <1>0, <2>2 DEF Counters
  <2> QED
    BY <2>1, <2>2, Zenon DEF Next, vars, RunStep, Prepare, Start, NewConnectionManager,
       StartMonitor, StartupTrigger, StartOrphan, Serve, StopStep, LoopStep, Capture, PassEnds,
       TakeTrigger, TakeStop, TickStep, Tick, NodeChanges, LinkLost, CommandStep, MonitorStep,
       LinkFrame, CallbackStep, MonitorStopStep, OrphanPassEnds, OrphanTick, OrphanStops,
       OrphanFrame, ShutdownDone, ShutdownTimeout, RunFailed, Exit, Signal, MainFrame
<1>4. callbacks' \in 0 .. MaxFaults + 1
  BY <1>1, LifecycleAssumption, BalanceBounds DEF CallbacksPaid, Balance
<1> QED
  BY <1>1, <1>2, <1>3, <1>4 DEF Counters

(* The type of every variable.  A callback of the connection manager is    *)
(* paid for: each one that is started follows a connection lost by a fault *)
(* or by Stop's Close, so no more than MaxFaults + 1 ever wait.            *)
THEOREM LifecycleTypes == Spec => []TypeOK
<1>1. Init => TypeInv
  BY InitTypeInv
<1>2. TypeInv /\ LifecycleInv /\ [Next]_vars => TypeInv'
  <2> SUFFICES ASSUME TypeOK, CallbacksPaid, LifecycleInv, [Next]_vars PROVE TypeInv'
    BY DEF TypeInv
  <2>1. CallbacksPaid' /\ callbacks' \in Nat
    BY PaidKept DEF LifecycleInv
  <2>2. Places /\ Flags
    BY TypeParts
  <2>3. Places' /\ Flags' /\ Counters'
    BY <2>1, <2>2, PlacesKept, FlagsKept, CountersKept, Zenon
  <2>4. TypeOK'
    BY <2>3, TypePartsNext
  <2> QED
    BY <2>1, <2>4 DEF TypeInv
<1>3. TypeInv => TypeOK
  BY DEF TypeInv
<1> QED
  BY <1>1, <1>2, <1>3, LifecycleInvariant, PTL DEF Spec
=============================================================================
