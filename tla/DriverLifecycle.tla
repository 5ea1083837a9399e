--------------------------- MODULE DriverLifecycle ---------------------------
(***************************************************************************)
(* The controller plugin from start to exit: Driver.Run and Driver.Stop    *)
(* (pkg/driver/driver.go), main, and the goroutines they start and stop:   *)
(* the loop of the attachment reconciler (pkg/attachment/reconciler.go)    *)
(* and its triggers (node_watcher.go), the monitor of the connection       *)
(* manager (pkg/rds/connection_manager.go) and the loop of the orphan      *)
(* reconciler (pkg/reconciler/orphan_reconciler.go).                       *)
(*                                                                         *)
(* What a pass does is in AttachmentService and OrphanReconciler; here it  *)
(* begins and ends.  Node events and the RDS are external.                 *)
(***************************************************************************)
EXTENDS Naturals

CONSTANTS
  MaxFaults,   \* bound: lost links, failed dials, failed session tests, a failed listen
  MaxEvents    \* bound: changes of the node

ASSUME LifecycleAssumption == MaxFaults \in Nat /\ MaxEvents \in Nat

VARIABLES
  main,        \* main(): waits for a signal, shuts down, or how it exited
  run,         \* where Driver.Run is
  stop,        \* where Driver.Stop is
  fields,      \* the reconciler's channels: "new", "running" (stopCh set), "stopped" (all nil)
  closed,      \* whose stopCh is closed: of "manager" and "orphan"
  loop,        \* the attachment loop
  deaf,        \* the loop captured channels that were nil
  token,       \* triggerCh holds a trigger
  orphan,      \* the orphan loop
  monitor,     \* the connection monitor
  connected,   \* ConnectionManager.connected
  client,      \* the SSH client: "up" or "down"
  command,     \* a call's command, which can reconnect too (runCommandWithRetry)
  callbacks,   \* OnReconnect goroutines
  node,        \* a node, as the informer has it
  events, faults,
  unserved,    \* something called for a pass and none has begun since
  latePasses,  \* attachment passes begun after stopCh was closed, up to 2
  seen,        \* the monitor has found the client connected
  early        \* the signal came before Run was done

channelVars == <<fields, closed>>
loopVars == <<loop, deaf, token, unserved, latePasses>>
linkVars == <<monitor, connected, client, command, callbacks, seen>>
nodeVars == <<node, events>>
mainVars == <<main, run, stop, early>>
vars == <<mainVars, channelVars, loopVars, orphan, linkVars, nodeVars, faults>>

TypeOK ==
  /\ main \in {"waiting", "shutting", "graceful", "timeout", "fatal"}
  /\ run \in {"informers", "initialize", "start", "manager", "monitor", "trigger", "orphan",
              "serve", "up", "failed"}
  /\ stop \in {"none", "attach", "attach_wait", "manager", "manager_wait", "orphan",
               "orphan_wait", "close", "done"}
  /\ fields \in {"new", "running", "stopped"} /\ closed \subseteq {"manager", "orphan"}
  /\ loop \in {"none", "spawned", "pass", "wait", "done"}
  /\ orphan \in {"none", "pass", "wait", "done"}
  /\ monitor \in {"none", "made", "select", "attempt", "dial", "backoff", "done"}
  /\ {deaf, token, connected, unserved, seen, early} \subseteq BOOLEAN
  /\ client \in {"up", "down"} /\ command \in {"idle", "reconnect"}
  /\ callbacks \in 0 .. MaxFaults + 1 /\ node \in {"ready", "notready", "gone"}
  /\ events \in 0 .. MaxEvents /\ faults \in 0 .. MaxFaults /\ latePasses \in 0 .. 2

(* NewDriver has connected the client.                                     *)
Init ==
  /\ main = "waiting" /\ run = "informers" /\ stop = "none" /\ early = FALSE
  /\ fields = "new" /\ closed = {}
  /\ loop = "none" /\ deaf = FALSE /\ token = FALSE /\ unserved = FALSE /\ latePasses = 0
  /\ orphan = "none"
  /\ monitor = "none" /\ connected = FALSE /\ client = "up" /\ command = "idle"
  /\ callbacks = 0 /\ seen = FALSE
  /\ node = "ready" /\ events = 0 /\ faults = 0

Works == UNCHANGED faults
Fault == faults < MaxFaults /\ faults' = faults + 1

Alive == main \in {"waiting", "shutting"}

-----------------------------------------------------------------------------
TriggerUnbuffered ==   \* mutant: triggerCh has no buffer
  token' = (token \/ (fields # "stopped" /\ loop = "wait"))

(* AttachmentReconciler.  TriggerReconcile leaves at most one trigger in   *)
(* the channel, and none once the reconciler is stopped.                   *)
TriggerReconcile == token' = (token \/ fields # "stopped")

(* Something that calls for a pass happens while there is a reconciler.    *)
CallsForPass == unserved' = (unserved \/ fields # "stopped")

BeginPass ==
  /\ loop' = "pass" /\ unserved' = FALSE
  /\ latePasses' = IF fields = "stopped" /\ latePasses < 2 THEN latePasses + 1 ELSE latePasses

Hears == fields = "stopped" /\ ~deaf

(* run: capture the channels and make the first pass.                      *)
Capture ==
  /\ loop = "spawned"
  /\ deaf' = (fields = "stopped")
  /\ BeginPass
  /\ UNCHANGED token

PassEndsUnchecked ==   \* mutant: no priority check
  /\ loop = "pass" /\ loop' = "wait"
  /\ UNCHANGED <<deaf, token, unserved, latePasses>>

(* After a pass a stop takes precedence over a trigger and the ticker.     *)
PassEnds ==
  /\ loop = "pass"
  /\ loop' = IF Hears THEN "done" ELSE "wait"
  /\ UNCHANGED <<deaf, token, unserved, latePasses>>

(* The select of the loop takes any of what is ready.                      *)
TakeTrigger ==
  /\ loop = "wait" /\ token /\ ~deaf
  /\ token' = FALSE
  /\ BeginPass
  /\ UNCHANGED deaf

TakeStop ==
  /\ loop = "wait" /\ Hears
  /\ loop' = "done"
  /\ UNCHANGED <<deaf, token, unserved, latePasses>>

Tick == loop = "wait" /\ BeginPass /\ UNCHANGED <<deaf, token>>

LoopStep ==
  /\ Capture \/ PassEnds \/ TakeTrigger \/ TakeStop
  /\ UNCHANGED <<mainVars, channelVars, orphan, linkVars, nodeVars, faults>>

TickStep == Tick /\ UNCHANGED <<mainVars, channelVars, orphan, linkVars, nodeVars, faults>>

(* NodeWatcher: a node that stops being ready and one that is deleted      *)
(* trigger a pass, once the handlers are registered.                       *)
Watching == run # "informers"

NodeChanges ==
  /\ events < MaxEvents /\ events' = events + 1
  /\ \E new \in {"ready", "notready", "gone"} \ {node} :
       LET calls == new = "gone" \/ (node = "ready" /\ new = "notready")
       IN /\ node' = new
          /\ IF calls THEN CallsForPass ELSE UNCHANGED unserved
          /\ IF calls /\ Watching THEN TriggerReconcile ELSE UNCHANGED token
  /\ UNCHANGED <<mainVars, channelVars, loop, deaf, latePasses, orphan, linkVars, faults>>

-----------------------------------------------------------------------------
(* The SSH client.  IsConnected opens a session, which can fail on a       *)
(* client that is up.                                                      *)
IsConnected(Yes, No) ==
  \/ Works /\ client = "up" /\ Yes
  \/ Works /\ client = "down" /\ No
  \/ client = "up" /\ Fault /\ No

LinkLost ==
  /\ client = "up" /\ Fault /\ client' = "down"
  /\ UNCHANGED <<mainVars, channelVars, loopVars, orphan, monitor, connected, command, callbacks,
                 seen, nodeVars>>

(* runCommandWithRetry reconnects without asking the manager.              *)
CommandStep ==
  /\ run = "up"
  /\ \/ /\ command = "idle"
        /\ IsConnected(FALSE, command' = "reconnect")
        /\ UNCHANGED client
     \/ /\ command = "reconnect" /\ command' = "idle"
        /\ (Works /\ client' = "up") \/ (Fault /\ UNCHANGED client)
  /\ UNCHANGED <<mainVars, channelVars, loopVars, orphan, monitor, connected, callbacks, seen,
                 nodeVars>>

PollReconnects ==   \* mutant: every poll reconnects
  /\ monitor = "select"
  /\ monitor' = "attempt"
  /\ UNCHANGED <<connected, seen, client, callbacks, token, unserved, faults>>

(* monitorLoop: only a change from connected to not connected starts       *)
(* attemptReconnection.                                                    *)
Poll ==
  /\ monitor = "select"
  /\ IsConnected(/\ connected' = TRUE /\ seen' = TRUE /\ UNCHANGED monitor,
                 /\ connected' = FALSE /\ UNCHANGED seen
                 /\ monitor' = IF connected THEN "attempt" ELSE "select")
  /\ UNCHANGED <<client, callbacks, token, unserved>>

(* attemptReconnection, until it succeeds: close the old connection, dial, *)
(* wait.                                                                   *)
Attempt ==
  /\ monitor = "attempt"
  /\ \/ "manager" \in closed /\ monitor' = "select" /\ UNCHANGED client
     \/ "manager" \notin closed /\ monitor' = "dial" /\ client' = "down"
  /\ UNCHANGED <<connected, callbacks, seen, token, unserved, faults>>

Dial ==
  /\ monitor = "dial"
  /\ \/ /\ Works /\ client' = "up" /\ connected' = TRUE /\ seen' = TRUE
        /\ callbacks' = callbacks + 1 /\ CallsForPass
        /\ monitor' = "select"
     \/ /\ Fault /\ monitor' = "backoff"
        /\ UNCHANGED <<client, connected, seen, callbacks, unserved>>
  /\ UNCHANGED token

BackoffGivesUp ==   \* mutant: the reconnection gives up
  /\ monitor = "backoff" /\ monitor' = "select"
  /\ UNCHANGED <<connected, client, callbacks, seen, token, unserved, faults>>

Backoff ==
  /\ monitor = "backoff"
  /\ monitor' = IF "manager" \in closed THEN "select" ELSE "attempt"
  /\ UNCHANGED <<connected, client, callbacks, seen, token, unserved, faults>>

OnReconnect ==
  /\ callbacks > 0 /\ callbacks' = callbacks - 1
  /\ TriggerReconcile
  /\ UNCHANGED <<monitor, connected, client, seen, unserved, faults>>

MonitorStops ==
  /\ monitor = "select" /\ "manager" \in closed
  /\ monitor' = "done"
  /\ UNCHANGED <<connected, client, callbacks, seen, token, unserved, faults>>

LinkFrame == UNCHANGED <<mainVars, channelVars, loop, deaf, latePasses, orphan, command, nodeVars>>
MonitorStep == (Poll \/ Attempt \/ Dial \/ Backoff) /\ LinkFrame
CallbackStep == OnReconnect /\ LinkFrame
MonitorStopStep == MonitorStops /\ LinkFrame

-----------------------------------------------------------------------------
(* The loop of the orphan reconciler.                                      *)
OrphanFrame == UNCHANGED <<mainVars, channelVars, loopVars, linkVars, nodeVars, faults>>
OrphanPassEnds == orphan = "pass" /\ orphan' = "wait" /\ OrphanFrame
OrphanTick == orphan = "wait" /\ orphan' = "pass" /\ OrphanFrame
OrphanStops == orphan = "wait" /\ "orphan" \in closed /\ orphan' = "done" /\ OrphanFrame

-----------------------------------------------------------------------------
(* Driver.Run                                                              *)
Advance(from, to) == run = from /\ run' = to

(* Sync the caches, register the node watcher, initialize the manager.     *)
Prepare ==
  /\ Advance("informers", "initialize") \/ Advance("initialize", "start")
  /\ UNCHANGED <<channelVars, loopVars, orphan, linkVars, faults>>

Start ==
  /\ Advance("start", "manager")
  /\ fields' = "running" /\ loop' = "spawned"
  /\ UNCHANGED <<closed, deaf, token, unserved, latePasses, orphan, linkVars, faults>>

NewConnectionManager ==
  /\ Advance("manager", "monitor")
  /\ monitor' = "made"
  /\ IsConnected(connected' = TRUE /\ seen' = TRUE, connected' = FALSE /\ UNCHANGED seen)
  /\ UNCHANGED <<channelVars, loopVars, orphan, client, command, callbacks>>

StartMonitor ==
  /\ Advance("monitor", "trigger")
  /\ monitor' = "select"
  /\ UNCHANGED <<channelVars, loopVars, orphan, connected, client, command, callbacks, seen, faults>>

StartupTrigger ==
  /\ Advance("trigger", "orphan")
  /\ TriggerReconcile
  /\ UNCHANGED <<channelVars, loop, deaf, unserved, latePasses, orphan, linkVars, faults>>

StartOrphan ==
  /\ Advance("orphan", "serve")
  /\ orphan' = "pass"
  /\ UNCHANGED <<channelVars, loopVars, linkVars, faults>>

Serve ==
  /\ \/ Works /\ Advance("serve", "up")
     \/ Fault /\ Advance("serve", "failed")
  /\ UNCHANGED <<channelVars, loopVars, orphan, linkVars>>

RunStep ==
  /\ \/ Prepare \/ Start \/ NewConnectionManager \/ StartMonitor \/ StartupTrigger
     \/ StartOrphan \/ Serve
  /\ UNCHANGED <<main, stop, early, nodeVars>>

-----------------------------------------------------------------------------
(* Driver.Stop: each part in turn, then the SSH client.                    *)
StopAttach ==
  /\ stop = "attach"
  /\ \/ fields = "running" /\ fields' = "stopped" /\ stop' = "attach_wait"
     \/ fields # "running" /\ UNCHANGED fields /\ stop' = "manager"
  /\ UNCHANGED <<closed, client>>

AwaitAttach ==
  /\ stop = "attach_wait" /\ loop = "done"
  /\ stop' = "manager"
  /\ UNCHANGED <<channelVars, client>>

StopManager ==
  /\ stop = "manager"
  /\ \/ monitor # "none" /\ closed' = closed \cup {"manager"} /\ stop' = "manager_wait"
     \/ monitor = "none" /\ UNCHANGED closed /\ stop' = "orphan"
  /\ UNCHANGED <<fields, client>>

AwaitManagerNot ==   \* mutant: doneCh is not awaited
  /\ stop = "manager_wait"
  /\ stop' = "orphan"
  /\ UNCHANGED <<channelVars, client>>

AwaitManager ==
  /\ stop = "manager_wait" /\ monitor = "done"
  /\ stop' = "orphan"
  /\ UNCHANGED <<channelVars, client>>

StopOrphanUnheard ==   \* mutant: stopCh is not closed
  /\ stop = "orphan"
  /\ stop' = "orphan_wait"
  /\ UNCHANGED <<channelVars, client>>

StopOrphan ==
  /\ stop = "orphan"
  /\ closed' = closed \cup {"orphan"} /\ stop' = "orphan_wait"
  /\ UNCHANGED <<fields, client>>

AwaitOrphan ==
  /\ stop = "orphan_wait" /\ orphan \in {"none", "done"}
  /\ stop' = "close"
  /\ UNCHANGED <<channelVars, client>>

CloseClient ==
  /\ stop = "close"
  /\ client' = "down" /\ stop' = "done"
  /\ UNCHANGED channelVars

StopStep ==
  /\ \/ StopAttach \/ AwaitAttach \/ StopManager \/ AwaitManager \/ StopOrphan \/ AwaitOrphan
     \/ CloseClient
  /\ UNCHANGED <<main, run, early, loopVars, orphan, monitor, connected, command, callbacks, seen,
                 nodeVars, faults>>

(* main and ShutdownWithContext                                            *)
MainFrame == UNCHANGED <<run, channelVars, loopVars, orphan, linkVars, nodeVars, faults>>

Signal ==
  /\ main = "waiting"
  /\ main' = "shutting" /\ stop' = "attach" /\ early' = (run # "up")
  /\ MainFrame

Exit(from, how) == main = from /\ main' = how /\ UNCHANGED <<stop, early>> /\ MainFrame

ShutdownDone == stop = "done" /\ Exit("shutting", "graceful")
ShutdownTimeout == Exit("shutting", "timeout")
RunFailed == run = "failed" /\ Exit("waiting", "fatal")

Next ==
  /\ Alive
  /\ \/ RunStep \/ StopStep \/ LoopStep \/ TickStep \/ NodeChanges
     \/ LinkLost \/ CommandStep \/ MonitorStep \/ CallbackStep \/ MonitorStopStep
     \/ OrphanPassEnds \/ OrphanTick \/ OrphanStops
     \/ Signal \/ ShutdownDone \/ ShutdownTimeout \/ RunFailed

Spec == Init /\ [][Next]_vars

(* Goroutines run, passes and dials end, the monitor polls.  A select that *)
(* finds its stop channel ready again and again takes it.  Nothing is      *)
(* assumed of the reconcilers' tickers, of commands, or of the timeout.    *)
Fairness ==
  /\ WF_vars(Alive /\ RunStep) /\ WF_vars(Alive /\ StopStep) /\ WF_vars(Alive /\ LoopStep)
  /\ WF_vars(Alive /\ MonitorStep) /\ WF_vars(Alive /\ CallbackStep)
  /\ WF_vars(Alive /\ OrphanPassEnds)
  /\ SF_vars(Alive /\ MonitorStopStep) /\ SF_vars(Alive /\ OrphanStops)
  /\ WF_vars(ShutdownDone)

FairSpec == Spec /\ Fairness

-----------------------------------------------------------------------------
(* reconciler.go, run: "stop signals take precedence over work".  Once     *)
(* Stop has closed the channel the loop begins one more pass at most,      *)
(* unless Stop came before the loop had captured its channels.             *)
OnePassAfterStop == latePasses > 1 => deaf

(* main: "Driver stopped gracefully" means that no background loop runs,   *)
(* if the signal came after Run was done.                                  *)
GracefulIsQuiet ==
  main = "graceful" /\ ~early => loop = "done" /\ monitor = "done" /\ orphan = "done"

(* Why both hold, as an inductive invariant: where the loop can be after   *)
(* its stop, and what is started and stopped when Run and Stop are past    *)
(* each of their steps.                                                    *)
PassInv ==
  /\ latePasses \in Nat /\ fields \in {"new", "running", "stopped"}
  /\ latePasses > 0 => fields = "stopped"
  /\ loop \in {"none", "spawned"} => latePasses = 0
  /\ latePasses > 0 /\ ~deaf => latePasses = 1 /\ loop \in {"pass", "done"}

StopInv ==
  /\ run \in {"informers", "initialize", "start"} => fields = "new"
  /\ run \in {"manager", "monitor", "trigger", "orphan", "serve", "up"} => fields # "new"
  /\ run \in {"monitor", "trigger", "orphan", "serve", "up"} => monitor # "none"
  /\ run \in {"serve", "up"} => orphan # "none"
  /\ fields = "stopped" => stop \notin {"none", "attach"}
  /\ main = "waiting" => stop = "none"
  /\ main = "graceful" => stop = "done"
  /\ stop # "none" /\ ~early =>
       /\ run = "up"
       /\ stop \notin {"attach", "attach_wait"} => loop = "done"
       /\ stop \notin {"attach", "attach_wait", "manager", "manager_wait"} => monitor = "done"
       /\ stop \in {"close", "done"} => orphan = "done"

LifecycleInv == PassInv /\ StopInv

(* reconciler.go, node_watcher.go, driver.go: a node that goes or fails,   *)
(* and a reconnection, are followed by a pass that begins after them,      *)
(* without the ticker, whether the watcher is registered and the loop is   *)
(* running yet or not, and though triggers are dropped while one is        *)
(* pending.                                                                *)
TriggerServed == unserved ~> ~unserved \/ fields = "stopped" \/ ~Alive

(* driver.go, Stop: it returns, without the timeout, wherever Run and the  *)
(* loops were, unless the attachment loop missed its channels.             *)
StopReturns == main = "shutting" ~> main # "shutting" \/ deaf

(* connection_manager.go, monitorLoop: a lost connection is restored while *)
(* the monitor runs, unless the monitor, which acts on the change only,    *)
(* has never seen a connection.                                            *)
Blind == monitor = "select" /\ ~connected /\ ~seen /\ "manager" \notin closed

LinkRestored ==
  client = "down" /\ monitor \notin {"none", "done"} ~> client = "up" \/ Blind \/ main # "waiting"
=============================================================================
