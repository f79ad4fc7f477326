-------------------------- MODULE ManagedLifecycle ---------------------------
(***************************************************************************)
(* The life of the managed scenario's one component: runs of               *)
(* acceptance-managed one after the other (the lock, see ClusterRuns), or  *)
(* teardown-managed called by hand, with the cluster, the Flux             *)
(* Kustomization that applies the Terraform object, tofu-controller, and   *)
(* the branch, which outlives all of them.  The object and its branch are  *)
(* ManagedBranch's.  Deleting a cluster loses the OpenTofu state: its      *)
(* branch is then an orphan, known by its name only.  A kubectl or curl    *)
(* command may fail at any time, and whether a failure ends the script is  *)
(* what the script says.  An operator <name>_<bug> is <name> with a bug    *)
(* that a property has to notice.                                          *)
(***************************************************************************)
EXTENDS Naturals

CONSTANTS
    Faulty,     \* may commands fail?
    MaxRuns     \* bound: runs of either kind

ASSUME FaultyAssumption == Faulty \in BOOLEAN
ASSUME MaxRunsAssumption == MaxRuns \in Nat

VARIABLES
    pc,         \* the next command of the run under way
    keyed,      \* it has NEON_API_KEY and a project id for its leak check
    failed,     \* what it did before its EXIT trap has failed
    status,     \* $status of teardown-managed
    exit,       \* how the last run has ended
    runs,       \* runs begun so far
    cluster,    \* the kind cluster exists
    ks,         \* the app Kustomization is applied to it
    object,     \* the Terraform object and its branch: see ManagedBranch
    connected,
    permitted,
    branch,
    planned,    \* status.observedGeneration of the object has advanced
    orphan,     \* a branch of that name that no OpenTofu state knows
    later,      \* history: a branch was being made at this run's check, or since
    misread,    \* history: a kubectl get of this teardown failed and was believed
    toreDown    \* history: this run reached the deletion of the cluster

script == <<keyed, failed, status, exit, runs, misread, toreDown>>
kube == <<cluster, ks, object, connected, permitted, planned>>
cloud == <<branch, orphan, later>>
vars == <<pc, script, kube, cloud>>

B == INSTANCE ManagedBranch

Work == {"up", "create", "apply", "await", "probe"}
Teardown == {"look", "generation", "drop", "permit", "delete", "wait", "list", "remedy", "down"}
PC == {"idle", "ended"} \cup Work \cup Teardown

Init ==
    /\ pc = "idle"
    /\ keyed = FALSE /\ failed = FALSE /\ status = 0 /\ exit = "none" /\ runs = 0
    /\ cluster = FALSE /\ ks = FALSE /\ planned = FALSE
    /\ orphan = FALSE /\ later = FALSE /\ misread = FALSE /\ toreDown = FALSE
    /\ B!Init

Present == object \in {"live", "deleting"}

-----------------------------------------------------------------------------
(* The cluster: Flux, tofu-controller and its runner *)

\* Flux applies what the Kustomization lists and the cluster lacks, a new object whose
\* OpenTofu state is empty; it is never suspended.
FluxApplies ==
    /\ cluster /\ ks /\ ~Present
    /\ object' = "live"
    /\ connected' = FALSE /\ permitted' = FALSE /\ planned' = FALSE
    /\ orphan' = (orphan \/ branch # "absent")
    /\ branch' = "absent"
    /\ UNCHANGED <<pc, script, cluster, ks, later>>

Plans ==
    /\ cluster /\ object = "live" /\ ~planned
    /\ planned' = TRUE
    /\ UNCHANGED <<pc, script, cluster, ks, object, connected, permitted, cloud>>

Runs ==
    /\ cluster /\ planned
    /\ B!Grow \/ B!Shrink \/ B!Connect \/ B!Disconnect
    /\ later' = (later \/ (branch = "absent" /\ branch' # "absent"))
    /\ UNCHANGED <<pc, script, cluster, ks, planned, orphan>>

Finalizes ==
    /\ cluster /\ B!Vanish
    /\ UNCHANGED <<pc, script, cluster, ks, planned, orphan, later>>

Controllers == FluxApplies \/ Plans \/ Runs \/ Finalizes

\* kind delete: the objects go, the branch stays; one that was being made may stay.
ClusterGoes ==
    /\ cluster' = FALSE /\ ks' = FALSE /\ planned' = FALSE
    /\ object' = "none" /\ connected' = FALSE /\ permitted' = FALSE
    /\ orphan' \in {orphan \/ branch # "absent", orphan \/ branch = "whole"}
    /\ branch' = "absent"
    /\ UNCHANGED later

-----------------------------------------------------------------------------
(* A run up to its EXIT trap *)

Goto(p) == pc' = p
Start(key) ==
    /\ pc \in {"idle", "ended"} /\ runs < MaxRuns
    /\ runs' = runs + 1
    /\ keyed' = key
    /\ failed' = FALSE /\ status' = 0 /\ misread' = FALSE /\ toreDown' = FALSE
    /\ UNCHANGED <<exit, kube, cloud>>

\* acceptance-managed refuses to begin without both, and exports them ...
Orchestrate == Start(TRUE) /\ Goto("up")
\* ... teardown-managed called by itself has them or not, and goes on either way.
TearDownByHand == \E key \in BOOLEAN : Start(key) /\ Goto("look")

\* cluster-up: kind delete || true, which takes what an earlier run left, and create.
ClusterUp ==
    /\ pc = "up"
    /\ \/ ClusterGoes
       \/ Faulty /\ UNCHANGED <<kube, cloud>>
    /\ Goto("create")
    /\ UNCHANGED script

Trapped == failed' = TRUE /\ Goto("look")

Create ==
    /\ pc = "create"
    /\ IF cluster
       THEN Trapped /\ UNCHANGED cluster
       ELSE cluster' = TRUE /\ Goto("apply") /\ UNCHANGED failed
    /\ UNCHANGED <<keyed, status, exit, runs, misread, toreDown,
                   ks, object, connected, permitted, planned, cloud>>

\* deliver-managed applies the Kustomization, and polls the Terraform object.
ApplyKustomization ==
    /\ pc = "apply"
    /\ ks' = TRUE
    /\ Goto("await")
    /\ UNCHANGED <<script, cluster, object, connected, permitted, planned, cloud>>

Await ==
    /\ pc = "await"
    /\ \/ connected /\ Goto("probe") /\ UNCHANGED failed
       \/ Trapped \* the poll's attempts are over
    /\ UNCHANGED <<keyed, status, exit, runs, misread, toreDown, kube, cloud>>

\* pin-managed and probe-managed read the branch's secret and use it.
Probe ==
    /\ pc = "probe"
    /\ Goto("look")
    /\ UNCHANGED <<script, kube, cloud>>

Fail ==
    /\ Faulty /\ pc \in Work
    /\ Trapped
    /\ UNCHANGED <<keyed, status, exit, runs, misread, toreDown, kube, cloud>>

\* Killed, at any command: no trap, and everything stays.
Kill ==
    /\ Faulty /\ pc \in Work \cup Teardown
    /\ Goto("ended") /\ exit' = "killed"
    /\ UNCHANGED <<keyed, failed, status, runs, misread, toreDown, kube, cloud>>

-----------------------------------------------------------------------------
(* teardown-managed *)

\* A command that nothing guards fails: errexit ends the script, and the trap with it.
Abort ==
    /\ Goto("ended") /\ exit' = "failed"
    /\ UNCHANGED <<keyed, failed, status, runs, misread, toreDown, kube, cloud>>
\* A wait is over: noted, and the script goes on.
Note(next) ==
    /\ status' = 1 /\ Goto(next)
    /\ UNCHANGED <<keyed, failed, exit, runs, misread, toreDown, kube, cloud>>
\* It goes on, having read what is so, or having taken a failed read for an absence.
GoOn(next) == Goto(next) /\ UNCHANGED <<script, kube, cloud>>
Believe(next) ==
    /\ misread' = TRUE /\ Goto(next)
    /\ UNCHANGED <<keyed, failed, status, exit, runs, toreDown, kube, cloud>>

\* if kubectl get terraform ...
Look ==
    /\ pc = "look"
    /\ GoOn(IF Present THEN "generation" ELSE "list")

\* observedGeneration, or nothing if the command fails.
Generation ==
    /\ pc = "generation"
    /\ GoOn(IF Present /\ planned THEN "permit" ELSE "drop")

\* The object never planned: its finalizer is taken off (|| true) and it is deleted.
Drop ==
    /\ pc = "drop"
    /\ \/ /\ IF Present THEN object' \in {"deleting", "gone"} ELSE UNCHANGED object
          /\ Goto("wait")
          /\ UNCHANGED <<script, cluster, ks, connected, permitted, planned, cloud>>
       \/ Faulty /\ Abort

\* The operator act: kubectl patch destroyResourcesOnDeletion ...
Permit ==
    /\ pc = "permit"
    /\ \/ /\ Present
          /\ permitted' = TRUE
          /\ Goto("delete")
          /\ UNCHANGED <<script, cluster, ks, object, connected, planned, cloud>>
       \/ ~Present /\ Abort
       \/ Faulty /\ Abort

\* ... and kubectl delete --ignore-not-found --wait=false.
DeleteObject_noWait ==
    /\ pc = "delete"
    /\ \/ /\ object' = IF Present THEN "deleting" ELSE object
          /\ Goto("list")
          /\ UNCHANGED <<script, cluster, ks, connected, permitted, planned, cloud>>
       \/ Faulty /\ Abort
DeleteObject ==
    /\ pc = "delete"
    /\ \/ /\ object' = IF Present THEN "deleting" ELSE object
          /\ Goto("wait")
          /\ UNCHANGED <<script, cluster, ks, connected, permitted, planned, cloud>>
       \/ Faulty /\ Abort

\* poll until kubectl get fails; when the attempts are over, note it.
Wait_unbounded ==
    /\ pc = "wait" /\ ~Present
    /\ GoOn("list")
Wait ==
    /\ pc = "wait"
    /\ \/ ~Present /\ GoOn("list")
       \/ Note("list")

\* A kubectl get that fails, with its errors discarded, reads as no object.
Misread ==
    /\ Faulty /\ Present
    /\ \/ pc = "look" /\ Believe("list")
       \/ pc = "generation" /\ planned /\ Believe("drop")
       \/ pc = "wait" /\ Believe("list")

(***************************************************************************)
(* The leak check asks Neon for branches of the component's name.  One     *)
(* that is being made or destroyed may be listed or not.                   *)
(***************************************************************************)
Leaked == orphan \/ branch = "whole"
MayBeListed == Leaked \/ branch = "partial"

List_failedIsClean ==
    /\ pc = "list"
    /\ \/ ~keyed /\ Goto("down") /\ UNCHANGED status
       \/ keyed /\ MayBeListed /\ Goto("remedy") /\ UNCHANGED status
       \/ keyed /\ (Faulty \/ ~Leaked) /\ Goto("down") /\ UNCHANGED status
    /\ later' = (branch = "partial")
    /\ UNCHANGED <<keyed, failed, exit, runs, misread, toreDown, kube, branch, orphan>>
List ==
    /\ pc = "list"
    /\ \/ ~keyed /\ Goto("down") /\ UNCHANGED status
       \/ keyed /\ MayBeListed /\ Goto("remedy") /\ UNCHANGED status
       \/ keyed /\ ~Leaked /\ Goto("down") /\ UNCHANGED status
       \/ keyed /\ Faulty /\ Goto("down") /\ status' = 1
    /\ later' = (branch = "partial")
    /\ UNCHANGED <<keyed, failed, exit, runs, misread, toreDown, kube, branch, orphan>>

\* What was found is deleted, if the API allows, and reported.
Remedy_counts ==
    /\ pc = "remedy"
    /\ status' = status + 1 /\ Goto("down")
    /\ \/ orphan' = FALSE /\ branch' = "absent"
       \/ Faulty /\ UNCHANGED <<orphan, branch>>
    /\ UNCHANGED <<keyed, failed, exit, runs, misread, toreDown, kube, later>>
Remedy ==
    /\ pc = "remedy"
    /\ status' = 1 /\ Goto("down")
    /\ \/ orphan' = FALSE /\ branch' = "absent"
       \/ Faulty /\ UNCHANGED <<orphan, branch>>
    /\ UNCHANGED <<keyed, failed, exit, runs, misread, toreDown, kube, later>>

\* teardown: kind delete || true; then exit $status, which a failed run overrides.
Outcome_ofRun == IF failed THEN "failed" ELSE "ok"
Outcome == IF failed \/ status = 1 THEN "failed" ELSE "ok"
Down ==
    /\ pc = "down"
    /\ \/ ClusterGoes
       \/ Faulty /\ UNCHANGED <<kube, cloud>>
    /\ toreDown' = TRUE
    /\ exit' = Outcome
    /\ Goto("ended")
    /\ UNCHANGED <<keyed, failed, status, runs, misread>>

Step ==
    \/ ClusterUp \/ Create \/ ApplyKustomization \/ Await \/ Probe
    \/ Look \/ Generation \/ Drop \/ Permit \/ DeleteObject \/ Wait
    \/ List \/ Remedy \/ Down

\* Nothing has to happen after the last run.
Rest == pc = "ended" /\ UNCHANGED vars

Next ==
    \/ Orchestrate \/ TearDownByHand \/ Step
    \/ Misread \/ Fail \/ Kill
    \/ Controllers \/ Rest

Spec == Init /\ [][Next]_vars
\* A script goes on; the cluster's controllers may be slow, or stuck, for ever.
FairSpec == Spec /\ WF_vars(Step)

-----------------------------------------------------------------------------
(* Properties *)

StepsOK == pc \in PC /\ status \in {0, 1} /\ runs \in 0..MaxRuns
ScriptOK ==
    /\ keyed \in BOOLEAN /\ failed \in BOOLEAN
    /\ misread \in BOOLEAN /\ toreDown \in BOOLEAN
    /\ exit \in {"none", "ok", "failed", "killed"}
KubeOK ==
    /\ cluster \in BOOLEAN /\ ks \in BOOLEAN /\ planned \in BOOLEAN
    /\ object \in B!Objects /\ connected \in BOOLEAN /\ permitted \in BOOLEAN
CloudOK ==
    /\ branch \in B!Branches /\ orphan \in BOOLEAN /\ later \in BOOLEAN
    /\ ~cluster => object = "none" /\ branch = "absent" /\ ~ks

\* The type invariant.
TypeOK == StepsOK /\ ScriptOK /\ KubeOK /\ CloudOK

\* A run that exits 0 with the key leaves no branch of the component's name, neither its
\* own nor one that a crashed or failed run before it left, unless one was being made at
\* its check or has been begun since (teardown-managed.sh:8-17, 94-122): whichever
\* commands fail, and however Flux and the controller interleave.
CheckTruthful ==
    pc = "ended" /\ exit = "ok" /\ keyed => ~(orphan \/ branch # "absent") \/ later

\* The cluster is torn down with a destroy pending only after the wait for it has run
\* out, which fails the run, or a failed kubectl get passed for the object's absence
\* (teardown-managed.sh:22-27).
DestroyNotCutShort ==
    [][pc = "down" /\ cluster /\ ~cluster' /\ object = "deleting" /\ permitted =>
         status = 1 \/ misread]_vars

\* Every run ends, also when the branch is never ready or the finalizer never finishes:
\* all waits are bounded (common.sh:169-194, teardown-managed.sh:81).
EveryRunEnds == pc # "ended" /\ runs > 0 ~> pc = "ended"

\* teardown-managed.sh:23-25: "`teardown' (kind cluster deletion) always runs LAST, no
\* matter what happened above it".
TeardownAlways == pc = "ended" /\ exit # "killed" => toreDown

\* teardown-managed.sh:5-6: "A leaked branch is a harness defect", so a run that exits 0
\* has left none.
NoSilentLeak == pc = "ended" /\ exit = "ok" /\ keyed => ~(orphan \/ branch # "absent")
=============================================================================
