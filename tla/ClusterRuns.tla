----------------------------- MODULE ClusterRuns -----------------------------
(***************************************************************************)
(* Acceptance runs on kind clusters (scripts/actions/acceptance.sh,        *)
(* acceptance-managed.sh, cluster-up.sh, teardown.sh, common.sh).  A run   *)
(* is an orchestrator and the unit it waits for, a process of its own that *)
(* has inherited the lock's descriptor; killing the orchestrator leaves    *)
(* the unit running.  The kind clusters are known by name, and the Neon    *)
(* branches of all runs bear one name, the component's.  Units that change *)
(* neither are one step.  An operator <name>_<bug> is <name> with a bug    *)
(* that a property has to notice.                                          *)
(***************************************************************************)
EXTENDS Naturals, FiniteSets

CONSTANTS
    Run,        \* the orchestrators started
    Managed,    \* those of acceptance-managed
    Name,       \* cluster names
    Nobody,     \* no cluster, or no lock holder
    Hand,       \* who calls cluster-up and teardown piecemeal
    MaxByHand   \* bound: such calls

ASSUME ManagedAssumption == Managed \subseteq Run
ASSUME NobodyAssumption == Nobody \notin Run /\ Hand \notin Run /\ Nobody # Hand
ASSUME MaxByHandAssumption == MaxByHand \in Nat

VARIABLES
    pc,         \* what each run is doing
    alive,      \* its orchestrator is there
    name,       \* its CLUSTER_NAME
    lock,       \* whose open file holds the flock of a name
    cluster,    \* who made the kind cluster of a name
    branches,   \* the runs whose Neon branch exists
    byHand,     \* piecemeal calls so far
    disturbed,  \* history: a piecemeal call changed the cluster of a run under way
    spoiled     \* history: it was killed, or a kind or teardown command of it failed

vars == <<pc, alive, name, lock, cluster, branches, byHand, disturbed, spoiled>>
outside == <<byHand, disturbed>>

Units == {"compile", "delete", "create", "deliver", "probe", "destroy", "down"}
Holding == {"locked"} \cup Units
PC == {"start", "refused", "ended"} \cup Holding

Init ==
    /\ pc = [r \in Run |-> "start"]
    /\ alive = [r \in Run |-> TRUE]
    /\ name \in [Run -> Name]
    /\ lock = [n \in Name |-> Nobody]
    /\ cluster = [n \in Name |-> Nobody]
    /\ branches = {}
    /\ byHand = 0
    /\ disturbed = [r \in Run |-> FALSE]
    /\ spoiled = [r \in Run |-> FALSE]

Goto(r, p) == pc' = [pc EXCEPT ![r] = p]
SetCluster(r, owner) == cluster' = [cluster EXCEPT ![name[r]] = owner]
Spoil(r) == spoiled' = [spoiled EXCEPT ![r] = TRUE]

\* The kernel drops the lock with the last descriptor, the orchestrator's or its unit's.
Release(r) ==
    lock' = IF lock[name[r]] = r THEN [lock EXCEPT ![name[r]] = Nobody] ELSE lock
Leave(r) == Goto(r, "ended") /\ Release(r)

(***************************************************************************)
(* The end of a unit: the orchestrator goes on to the next one, or to the  *)
(* EXIT trap; without an orchestrator nothing follows.                     *)
(***************************************************************************)
Trap(r) == IF r \in Managed THEN "destroy" ELSE "down"
Return(r, next) ==
    IF alive[r] THEN Goto(r, next) /\ UNCHANGED lock ELSE Leave(r)

-----------------------------------------------------------------------------
\* acquire_cluster_lock: flock -n on the file of the name ...
Acquire(r) ==
    /\ pc[r] = "start"
    /\ lock[name[r]] = Nobody
    /\ lock' = [lock EXCEPT ![name[r]] = r]
    /\ Goto(r, "locked")
    /\ UNCHANGED <<alive, name, cluster, branches, outside, spoiled>>

\* ... or exit 1, before there is a trap.
Refuse(r) ==
    /\ pc[r] = "start"
    /\ lock[name[r]] # Nobody
    /\ Goto(r, "refused")
    /\ UNCHANGED <<alive, name, lock, cluster, branches, outside, spoiled>>

\* mktemp, trap ... EXIT, and the first unit.
SetTrap(r) ==
    /\ pc[r] = "locked"
    /\ Goto(r, "compile")
    /\ UNCHANGED <<alive, name, lock, cluster, branches, outside, spoiled>>

Compile(r) ==
    /\ pc[r] = "compile"
    /\ Return(r, "delete")
    /\ UNCHANGED <<alive, name, cluster, branches, outside, spoiled>>

\* cluster-up: kind delete || true, kind create.
DeleteOld_skipped(r) ==
    /\ pc[r] = "delete"
    /\ Goto(r, "create")
    /\ UNCHANGED <<alive, name, lock, cluster, branches, outside, spoiled>>
DeleteOld(r) ==
    /\ pc[r] = "delete"
    /\ Goto(r, "create")
    /\ \/ SetCluster(r, Nobody) /\ UNCHANGED spoiled
       \/ Spoil(r) /\ UNCHANGED cluster
    /\ UNCHANGED <<alive, name, lock, branches, outside>>

Create(r) ==
    /\ pc[r] = "create"
    /\ IF cluster[name[r]] = Nobody
       THEN SetCluster(r, r) /\ Return(r, "deliver")
       ELSE Return(r, Trap(r)) /\ UNCHANGED cluster
    /\ UNCHANGED <<alive, name, branches, outside, spoiled>>

\* The units up to deliver or deliver-managed, with which a branch appears ...
Deliver_everyRun(r) ==
    /\ pc[r] = "deliver"
    /\ branches' = branches \cup {r}
    /\ Return(r, "probe")
    /\ UNCHANGED <<alive, name, cluster, outside, spoiled>>
Deliver(r) ==
    /\ pc[r] = "deliver"
    /\ branches' = branches \cup ({r} \cap Managed)
    /\ Return(r, "probe")
    /\ UNCHANGED <<alive, name, cluster, outside, spoiled>>

\* ... and those that use it, up to the end of the script.
Probe_noTrap(r) ==
    /\ pc[r] = "probe"
    /\ Leave(r)
    /\ UNCHANGED <<alive, name, cluster, branches, outside, spoiled>>
Probe(r) ==
    /\ pc[r] = "probe"
    /\ Return(r, Trap(r))
    /\ UNCHANGED <<alive, name, cluster, branches, outside, spoiled>>

\* A command before the trap fails under errexit; deliver may have made a branch.
Fail(r) ==
    /\ pc[r] \in {"compile", "create", "deliver", "probe"}
    /\ Return(r, Trap(r))
    /\ branches' = IF pc[r] = "deliver" THEN branches \cup ({r} \cap Managed) ELSE branches
    /\ UNCHANGED <<alive, name, cluster, outside, spoiled>>

FailUntrapped(r) ==
    /\ pc[r] = "locked"
    /\ Leave(r)
    /\ UNCHANGED <<alive, name, cluster, branches, outside, spoiled>>

(***************************************************************************)
(* teardown-managed: its own branch goes by the finalizer, or not; then    *)
(* the one branch that still bears the component's name is deleted (with   *)
(* several the request names none of them).  It exits early when one of    *)
(* its unguarded commands fails.                                           *)
(***************************************************************************)
Remediated(left) == IF Cardinality(left) = 1 THEN {} ELSE left
Destroy(r) ==
    /\ pc[r] = "destroy"
    /\ \E left \in {branches, branches \ {r}} : branches' \in {left, Remediated(left)}
    /\ \/ Goto(r, "down") /\ UNCHANGED <<lock, spoiled>>
       \/ Leave(r) /\ Spoil(r)
    /\ UNCHANGED <<alive, name, cluster, outside>>

\* teardown: kind delete || true; with it the trap and the script end.
Down(r) ==
    /\ pc[r] = "down"
    /\ \/ SetCluster(r, Nobody) /\ UNCHANGED spoiled
       \/ Spoil(r) /\ UNCHANGED cluster
    /\ Leave(r)
    /\ UNCHANGED <<alive, name, branches, outside>>

(***************************************************************************)
(* A signal that no trap sees.  It takes the orchestrator, and its unit    *)
(* goes on; or it takes both.                                              *)
(***************************************************************************)
Kill_unlocks(r) ==
    /\ alive[r] /\ pc[r] \in Units
    /\ alive' = [alive EXCEPT ![r] = FALSE]
    /\ Spoil(r)
    /\ Release(r)
    /\ UNCHANGED <<pc, name, cluster, branches, outside>>
Kill(r) ==
    /\ alive[r] /\ pc[r] \in Units
    /\ alive' = [alive EXCEPT ![r] = FALSE]
    /\ Spoil(r)
    /\ UNCHANGED <<pc, name, lock, cluster, branches, outside>>

KillAll_wedges(r) ==
    /\ alive[r] /\ pc[r] \in Holding
    /\ alive' = [alive EXCEPT ![r] = FALSE]
    /\ Spoil(r)
    /\ Goto(r, "ended")
    /\ UNCHANGED <<name, lock, cluster, branches, outside>>
KillAll(r) ==
    /\ alive[r] /\ pc[r] \in Holding
    /\ alive' = [alive EXCEPT ![r] = FALSE]
    /\ Spoil(r)
    /\ Leave(r)
    /\ UNCHANGED <<name, cluster, branches, outside>>

\* cluster-up or teardown called by themselves: no lock.
ByHand(n) ==
    /\ byHand < MaxByHand
    /\ byHand' = byHand + 1
    /\ \E owner \in {Nobody, Hand} : cluster' = [cluster EXCEPT ![n] = owner]
    /\ disturbed' = [r \in Run |-> disturbed[r] \/ (name[r] = n /\ pc[r] \in Holding)]
    /\ UNCHANGED <<pc, alive, name, lock, branches, spoiled>>

Step(r) ==
    \/ Acquire(r) \/ Refuse(r) \/ SetTrap(r)
    \/ Compile(r) \/ DeleteOld(r) \/ Create(r) \/ Deliver(r) \/ Probe(r)
    \/ Destroy(r) \/ Down(r)

AllEnded == (\A r \in Run : pc[r] \in {"ended", "refused"}) /\ UNCHANGED vars

Next ==
    \/ \E r \in Run : Step(r) \/ Fail(r) \/ FailUntrapped(r) \/ Kill(r) \/ KillAll(r)
    \/ \E n \in Name : ByHand(n)
    \/ AllEnded

Spec == Init /\ [][Next]_vars
\* A process that can run runs, and every wait of the scripts is bounded.
FairSpec == Spec /\ \A r \in Run : WF_vars(Step(r))

-----------------------------------------------------------------------------
(* Properties *)

\* The type invariant.
TypeOK ==
    /\ pc \in [Run -> PC]
    /\ alive \in [Run -> BOOLEAN]
    /\ name \in [Run -> Name]
    /\ lock \in [Name -> Run \cup {Nobody}]
    /\ cluster \in [Name -> Run \cup {Nobody, Hand}]
    /\ branches \subseteq Managed
    /\ byHand \in 0..MaxByHand
    /\ disturbed \in [Run -> BOOLEAN]
    /\ spoiled \in [Run -> BOOLEAN]

\* From its creation to its teardown a run's cluster is the one it made, whatever other
\* runs of the name do: start, fail, are refused, or are killed and leave a unit behind
\* that still deletes and creates (common.sh:231-249, found live).  A piecemeal call is
\* the one thing that can take it.
OwnCluster ==
    \A r \in Run : pc[r] \in {"deliver", "probe"} /\ ~disturbed[r] => cluster[name[r]] = r

\* cluster-up creates on a clean slate, whatever a killed run has left under the name
\* (cluster-up.sh:1-2): kind create fails only if kind delete has, or after a piecemeal
\* call.
CleanSlate ==
    \A r \in Run : pc[r] = "create" /\ ~disturbed[r] /\ ~spoiled[r] => cluster[name[r]] = Nobody

\* A run that ends, passed or failed at any command, leaves no cluster of its own
\* (teardown.sh:1-3), unless it was killed or a command of its teardown failed.
CleansUp ==
    \A r \in Run, n \in Name : pc[r] = "ended" /\ ~spoiled[r] => cluster[n] # r

\* A crashed run never wedges the next one (common.sh:238-240): what is left of it ends,
\* and the lock with it.
NeverWedged == \A r \in Run : ~alive[r] /\ lock[name[r]] = r ~> lock[name[r]] # r

\* A managed run on a cluster of its own keeps its branch while it probes it.  The remedy
\* that the lock's refusal names, a unique MANAGED_CLUSTER_NAME (common.sh:244), gives a
\* run such a cluster, but no branch of its own.
OwnBranch ==
    \A r \in Managed :
      pc[r] = "probe" /\ (\A q \in Run \ {r} : name[q] # name[r]) => r \in branches
=============================================================================
