-------------------------- MODULE OrphanReconciler --------------------------
(***************************************************************************)
(* The orphan reconciler (pkg/reconciler/orphan_reconciler.go) beside the  *)
(* handlers of RdsVolumes: a cycle lists the volumes' disks, the PVs and   *)
(* the image files, and deletes what no PV refers to.                      *)
(***************************************************************************)
EXTENDS RdsVolumes

CONSTANTS
  DryRun,    \* -orphan-dry-run
  BasePath   \* -rds-volume-base-path is given

VARIABLES
  pass,      \* the cycle: its stage, the lists it took, what is left to delete
  swept,     \* volumes the cycles removed something of ...
  oldBound   \* ... except those bound since the cycle began

passVars == <<pass, swept, oldBound>>
vars == <<controllerVars, passVars>>

NoPass == [stage |-> "idle", disks |-> {}, active |-> {}, todo |-> {}]

PassTypeOK ==
  /\ TypeOK
  /\ pass.stage \in {"idle", "pvs", "disks", "files"}
  /\ pass.disks \subseteq Volumes /\ pass.active \subseteq Volumes /\ pass.todo \subseteq Slots
  /\ swept \subseteq Volumes /\ oldBound \subseteq Volumes

Init == ControllerInit /\ pass = NoPass /\ swept = {} /\ oldBound = {}

EndPass == pass' = NoPass /\ oldBound' = {}
Sweep(x) == swept' = IF x \in Volumes \ oldBound THEN swept \cup {x} ELSE swept

(* reconcile: list the disks of volumes (ListVolumes) ...                  *)
ListVolumes ==
  /\ pass.stage = "idle"
  /\ \/ /\ Arrives
        /\ pass' = [NoPass EXCEPT !.stage = "pvs",
                                 !.disks = {v \in Volumes : disk[v] # None}]
        /\ oldBound' = {v \in Volumes : pv[v] = "bound"}
     \/ Fault /\ UNCHANGED <<pass, oldBound>>
  /\ UNCHANGED <<rdsVars, call, kubeVars, late, swept>>

ListPVsMissed ==   \* mutant: no PV is recognized as one of this driver
  /\ pass.stage = "pvs" /\ Arrives
  /\ pass' = [pass EXCEPT !.stage = "disks", !.todo = IF DryRun THEN {} ELSE pass.disks]
  /\ UNCHANGED <<rdsVars, call, kubeVars, late, swept, oldBound>>

ListPVsDryRun ==   \* mutant: DryRun is always on
  /\ pass.stage = "pvs" /\ Arrives
  /\ pass' = [pass EXCEPT !.stage = "disks", !.todo = {},
                         !.active = {v \in Volumes : pv[v] \in {"bound", "released"}}]
  /\ UNCHANGED <<rdsVars, call, kubeVars, late, swept, oldBound>>

(* ... then the PVs.                                                       *)
ListPVs ==
  LET active == {v \in Volumes : pv[v] \in {"bound", "released"}}
  IN /\ pass.stage = "pvs"
     /\ \/ /\ Arrives
           /\ pass' = [pass EXCEPT !.stage = "disks", !.active = active,
                                  !.todo = IF DryRun THEN {} ELSE pass.disks \ active]
           /\ UNCHANGED oldBound
        \/ Fault /\ EndPass
     /\ UNCHANGED <<rdsVars, call, kubeVars, late, swept>>

(* reconcileOrphanedDisks: every listed disk without a PV is deleted with  *)
(* its file.  Its age is taken as twice the grace period, so the grace     *)
(* period spares none.  An error goes to the log.                          *)
DeleteOrphanedVolume ==
  /\ pass.stage = "disks"
  /\ \/ /\ call[Orphan] = Idle
        /\ \E v \in pass.todo :
             /\ pass' = [pass EXCEPT !.todo = @ \ {v}]
             /\ RemoveGet(Orphan, [Call("orphan", v, 0) EXCEPT !.live = FALSE])
        /\ UNCHANGED swept
     \/ (RemoveDisk(Orphan) \/ RemoveFile(Orphan)) /\ Sweep(call[Orphan].id) /\ UNCHANGED pass
  /\ UNCHANGED oldBound

(* reconcileOrphanedFiles: every image file without one of the listed      *)
(* disks and without a PV.                                                 *)
ListFiles ==
  LET orphans == {x \in file : x \notin pass.disks /\ x \notin pass.active}
  IN /\ pass.stage = "disks" /\ pass.todo = {} /\ call[Orphan] = Idle
     /\ \/ /\ Arrives /\ BasePath /\ ~DryRun /\ orphans # {}
           /\ pass' = [pass EXCEPT !.stage = "files", !.todo = orphans]
           /\ UNCHANGED oldBound
        \/ Arrives /\ (~BasePath \/ DryRun \/ orphans = {}) /\ EndPass
        \/ Fault /\ EndPass
     /\ UNCHANGED <<rdsVars, call, kubeVars, late, swept>>

DeleteOrphanedFile ==
  /\ pass.stage = "files"
  /\ \E x \in pass.todo :
       /\ \/ pass.todo = {x} /\ EndPass
          \/ pass.todo # {x} /\ pass' = [pass EXCEPT !.todo = @ \ {x}] /\ UNCHANGED oldBound
       /\ \/ Arrives /\ file' = file \ {x}
          \/ Fault /\ (file' = file \ {x} \/ UNCHANGED file)
       /\ Sweep(x)
  /\ UNCHANGED <<disk, call, kubeVars, late>>

Reconcile ==
  \/ ListVolumes \/ ListPVs \/ DeleteOrphanedVolume \/ ListFiles \/ DeleteOrphanedFile

Next ==
  \/ Calls /\ UNCHANGED passVars
  \/ \E v \in Volumes :
       ReleaseVolume(v) /\ oldBound' = oldBound \ {v} /\ UNCHANGED <<pass, swept>>
  \/ Crash /\ EndPass /\ UNCHANGED swept
  \/ Reconcile

Spec == Init /\ [][Next]_vars

(* Handlers and the reconciler run, the ticker fires again and again, and  *)
(* the sidecars repeat a call until it succeeds.                           *)
Fairness ==
  /\ \A t \in Threads : WF_vars(Step(t) /\ UNCHANGED passVars)
  /\ WF_vars(Reconcile)
  /\ \A v \in Volumes :
       SF_vars(/\ \E t \in Threads : CreateVolume(t, v) \/ DeleteVolume(t, v)
               /\ UNCHANGED passVars)

FairSpec == Spec /\ Fairness

-----------------------------------------------------------------------------
(* A bound volume keeps its disk entry and its backing file, whatever      *)
(* commands are lost and repeated and whichever calls run late, until it   *)
(* is released.  Only the orphan reconciler can break that, and only for a *)
(* volume that was not bound throughout its cycle.                         *)
BoundIntact ==
  \A v \in Volumes : pv[v] = "bound" /\ v \notin swept => disk[v] # None /\ v \in file

(* The capacity a PV records is there, up to the units that formatBytes    *)
(* cuts off, when no call for the volume was given up.                     *)
CapacityHonoured ==
  \A v \in Volumes :
    pv[v] = "bound" /\ v \notin swept \cup late => disk[v] >= FormatBytes(cap[v])

(* commands.go, ResizeVolume: shrinking is not supported, and what was     *)
(* deleted stays deleted.  That holds of every slot as long as no caller   *)
(* has given up a call for it, so that two calls ran side by side.         *)
Deleted(x) == \/ x \in Volumes /\ pv[x] = "gone"
              \/ x \in Snaps /\ vsc[x] = "gone"

OnlyLateCallsUndo ==
  [][\A x \in Slots :
       \/ disk[x] # None /\ disk'[x] # None /\ disk'[x] < disk[x]
       \/ Deleted(x) /\ disk[x] = None /\ disk'[x] # None
       => x \in late]_vars

(* What was deleted, or abandoned before it had a PV, ends without disk    *)
(* and file, for good: what a crash, a lost command or a late call leaves  *)
(* behind is collected by the orphan reconciler.                           *)
GoneIsCollected ==
  \A v \in Volumes :
    pv[v] \in {"gone", "abandoned"} ~> [](disk[v] = None /\ v \notin file)

(* A claim of a whole size, for a new volume, is provisioned in the end    *)
(* unless it is given up: repeating CreateVolume after any failure works,  *)
(* as long as the orphan reconciler does not delete the volume in between. *)
ProvisioningEnds ==
  \A v \in Volumes :
    pv[v] = "wanted" /\ source[v] = None /\ Whole(SizeOf[v])
      ~> pv[v] # "wanted" \/ v \in swept

(* orphan_reconciler.go, reconcileOrphanedFiles: an orphaned file is one   *)
(* "without disk objects AND without PVs".                                 *)
OrphanFileHasNoDisk ==
  [][\A x \in Slots :
       pass.stage = "files" /\ x \in pass.todo /\ x \in file /\ x \notin file' => disk[x] = None]_vars
=============================================================================
