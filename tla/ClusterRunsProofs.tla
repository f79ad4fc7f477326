------------------------- MODULE ClusterRunsProofs ---------------------------
(***************************************************************************)
(* Proofs about ClusterRuns, for any number of runs and names: type        *)
(* correctness, that a run keeps its cluster, begins on a clean slate and  *)
(* leaves none.                                                            *)
(***************************************************************************)
EXTENDS ClusterRuns, TLAPS

\* The lock of a name belongs to the run that is between taking it and its last unit,
\* also when its orchestrator is dead.
LockHeld == \A r \in Run : pc[r] \in Holding => lock[name[r]] = r

\* A run makes a cluster of its own name only, in Create and not before.
Before == {"start", "refused", "locked", "compile", "delete", "create"}
OwnName == \A r \in Run, n \in Name : cluster[n] = r => n = name[r] /\ pc[r] \notin Before

DeadIsSpoiled == \A r \in Run : ~alive[r] => spoiled[r]

IInv ==
    /\ TypeOK /\ LockHeld /\ OwnName /\ DeadIsSpoiled
    /\ OwnCluster /\ CleanSlate /\ CleansUp

-----------------------------------------------------------------------------
LEMMA InvariantInit == Init => IInv
  BY ManagedAssumption, NobodyAssumption, MaxByHandAssumption
  DEF Init, IInv, TypeOK, PC, Holding, Units, LockHeld, OwnName, Before, DeadIsSpoiled,
      OwnCluster, CleanSlate, CleansUp

\* No two runs of one name are both between taking the lock and their last unit.
LEMMA Alone ==
  ASSUME LockHeld, NEW r \in Run, NEW q \in Run,
         pc[r] \in Holding, pc[q] \in Holding, name[r] = name[q]
  PROVE  r = q
  BY DEF LockHeld

LEMMA InvariantStep == IInv /\ [Next]_vars => IInv'
<1> SUFFICES ASSUME IInv, [Next]_vars PROVE IInv'
  OBVIOUS
<1> USE ManagedAssumption, NobodyAssumption, MaxByHandAssumption
<1> USE DEF IInv, TypeOK, PC, Holding, Units, outside
<1>1. ASSUME NEW r \in Run, Acquire(r) PROVE IInv'
  BY <1>1 DEF Acquire, Goto, LockHeld, OwnName, Before, DeadIsSpoiled, OwnCluster, CleanSlate, CleansUp
<1>2. ASSUME NEW r \in Run, Refuse(r) PROVE IInv'
  BY <1>2 DEF Refuse, Goto, LockHeld, OwnName, Before, DeadIsSpoiled, OwnCluster, CleanSlate, CleansUp
<1>3. ASSUME NEW r \in Run, SetTrap(r) PROVE IInv'
  BY <1>3 DEF SetTrap, Goto, LockHeld, OwnName, Before, DeadIsSpoiled, OwnCluster, CleanSlate, CleansUp
<1>4. ASSUME NEW r \in Run, Compile(r) PROVE IInv'
  BY <1>4 DEF Compile, Return, Leave, Release, Goto, LockHeld, OwnName, Before, DeadIsSpoiled, OwnCluster, CleanSlate, CleansUp
<1>5. ASSUME NEW r \in Run, DeleteOld(r) PROVE IInv'
  <2> /\ pc[r] = "delete" /\ pc' = [pc EXCEPT ![r] = "create"]
      /\ UNCHANGED <<alive, name, lock, branches, byHand, disturbed>>
    BY <1>5 DEF DeleteOld, Goto
  <2>1. CASE cluster' = [cluster EXCEPT ![name[r]] = Nobody] /\ UNCHANGED spoiled
    <3>1. TypeOK' /\ LockHeld' /\ OwnName' /\ DeadIsSpoiled' /\ CleansUp'
      BY <2>1 DEF LockHeld, OwnName, Before, DeadIsSpoiled, CleansUp
    <3>2. OwnCluster' /\ CleanSlate'
      BY <2>1, Alone DEF OwnCluster, CleanSlate
    <3>3. QED
      BY <3>1, <3>2
  <2>2. CASE UNCHANGED cluster /\ spoiled' = [spoiled EXCEPT ![r] = TRUE]
    <3>1. TypeOK' /\ LockHeld' /\ OwnName' /\ DeadIsSpoiled' /\ CleansUp'
      BY <2>2 DEF LockHeld, OwnName, Before, DeadIsSpoiled, CleansUp
    <3>2. OwnCluster' /\ CleanSlate'
      BY <2>2 DEF OwnCluster, CleanSlate
    <3>3. QED
      BY <3>1, <3>2
  <2>3. QED
    BY <1>5, <2>1, <2>2 DEF DeleteOld, SetCluster, Spoil
<1>6. ASSUME NEW r \in Run, Create(r) PROVE IInv'
  BY <1>6, Alone DEF Create, SetCluster, Trap, Return, Leave, Release, Goto, LockHeld, OwnName, Before, DeadIsSpoiled, OwnCluster, CleanSlate, CleansUp
<1>7. ASSUME NEW r \in Run, Deliver(r) PROVE IInv'
  BY <1>7 DEF Deliver, Return, Leave, Release, Goto, LockHeld, OwnName, Before, DeadIsSpoiled, OwnCluster, CleanSlate, CleansUp
<1>8. ASSUME NEW r \in Run, Probe(r) PROVE IInv'
  BY <1>8 DEF Probe, Trap, Return, Leave, Release, Goto, LockHeld, OwnName, Before, DeadIsSpoiled, OwnCluster, CleanSlate, CleansUp
<1>9. ASSUME NEW r \in Run, Destroy(r) PROVE IInv'
  <2> /\ pc[r] = "destroy" /\ branches' \subseteq Managed
      /\ UNCHANGED <<alive, name, cluster, byHand, disturbed>>
    BY <1>9 DEF Destroy, Remediated
  <2>1. CASE Goto(r, "down") /\ UNCHANGED <<lock, spoiled>>
    BY <2>1 DEF Goto, LockHeld, OwnName, Before, DeadIsSpoiled, OwnCluster, CleanSlate, CleansUp
  <2>2. CASE Leave(r) /\ Spoil(r)
    BY <2>2 DEF Leave, Release, Goto, Spoil, LockHeld, OwnName, Before, DeadIsSpoiled,
                OwnCluster, CleanSlate, CleansUp
  <2>3. QED
    BY <1>9, <2>1, <2>2 DEF Destroy
<1>10. ASSUME NEW r \in Run, Down(r) PROVE IInv'
  <2> /\ pc[r] = "down" /\ pc' = [pc EXCEPT ![r] = "ended"]
      /\ lock' = IF lock[name[r]] = r THEN [lock EXCEPT ![name[r]] = Nobody] ELSE lock
      /\ UNCHANGED <<alive, name, branches, byHand, disturbed>>
    BY <1>10 DEF Down, Leave, Release, Goto
  <2>1. CASE cluster' = [cluster EXCEPT ![name[r]] = Nobody] /\ UNCHANGED spoiled
    <3>1. TypeOK' /\ LockHeld' /\ OwnName' /\ DeadIsSpoiled' /\ CleansUp'
      BY <2>1 DEF LockHeld, OwnName, Before, DeadIsSpoiled, CleansUp
    <3>2. OwnCluster' /\ CleanSlate'
      BY <2>1, Alone DEF OwnCluster, CleanSlate
    <3>3. QED
      BY <3>1, <3>2
  <2>2. CASE UNCHANGED cluster /\ spoiled' = [spoiled EXCEPT ![r] = TRUE]
    <3>1. TypeOK' /\ LockHeld' /\ OwnName' /\ DeadIsSpoiled' /\ CleansUp'
      BY <2>2 DEF LockHeld, OwnName, Before, DeadIsSpoiled, CleansUp
    <3>2. OwnCluster' /\ CleanSlate'
      BY <2>2 DEF OwnCluster, CleanSlate
    <3>3. QED
      BY <3>1, <3>2
  <2>3. QED
    BY <1>10, <2>1, <2>2 DEF Down, SetCluster, Spoil
<1>11. ASSUME NEW r \in Run, Fail(r) PROVE IInv'
  BY <1>11 DEF Fail, Trap, Return, Leave, Release, Goto, LockHeld, OwnName, Before, DeadIsSpoiled, OwnCluster, CleanSlate, CleansUp
<1>12. ASSUME NEW r \in Run, FailUntrapped(r) PROVE IInv'
  BY <1>12 DEF FailUntrapped, Leave, Release, Goto, LockHeld, OwnName, Before, DeadIsSpoiled, OwnCluster, CleanSlate, CleansUp
<1>13. ASSUME NEW r \in Run, Kill(r) PROVE IInv'
  BY <1>13 DEF Kill, Spoil, LockHeld, OwnName, Before, DeadIsSpoiled, OwnCluster, CleanSlate, CleansUp
<1>14. ASSUME NEW r \in Run, KillAll(r) PROVE IInv'
  BY <1>14 DEF KillAll, Spoil, Leave, Release, Goto, LockHeld, OwnName, Before, DeadIsSpoiled, OwnCluster, CleanSlate, CleansUp
<1>15. ASSUME NEW n \in Name, ByHand(n) PROVE IInv'
  BY <1>15 DEF ByHand, LockHeld, OwnName, Before, DeadIsSpoiled, OwnCluster, CleanSlate, CleansUp
<1>16. CASE UNCHANGED vars
  BY <1>16 DEF vars, LockHeld, OwnName, Before, DeadIsSpoiled, OwnCluster, CleanSlate, CleansUp
<1>17. QED
  BY <1>1, <1>2, <1>3, <1>4, <1>5, <1>6, <1>7, <1>8, <1>9, <1>10, <1>11, <1>12, <1>13, <1>14,
     <1>15, <1>16 DEF Next, Step, AllEnded

LEMMA InvariantHolds == Spec => []IInv
  BY InvariantInit, InvariantStep, PTL DEF Spec

\* Type correctness of any number of runs over any number of cluster names.
THEOREM RunsTypeCorrect == Spec => []TypeOK
<1>1. IInv => TypeOK
  BY DEF IInv
<1>2. QED
  BY <1>1, InvariantHolds, PTL

\* common.sh:232-247: whatever the runs of a name do, and whichever are killed and leave
\* a unit behind, a run keeps the cluster it made until it tears it down itself, unless
\* somebody calls cluster-up or teardown by hand.
THEOREM ClusterIsOwn == Spec => []OwnCluster
<1>1. IInv => OwnCluster
  BY DEF IInv
<1>2. QED
  BY <1>1, InvariantHolds, PTL

\* cluster-up.sh:1-2: between its delete and its create nobody puts a cluster there.
THEOREM SlateIsClean == Spec => []CleanSlate
<1>1. IInv => CleanSlate
  BY DEF IInv
<1>2. QED
  BY <1>1, InvariantHolds, PTL

\* acceptance.sh:31: a run that was not killed, and whose kind delete and teardown
\* commands did not fail, leaves no cluster under any name, wherever it failed.
THEOREM RunsCleanUp == Spec => []CleansUp
<1>1. IInv => CleansUp
  BY DEF IInv
<1>2. QED
  BY <1>1, InvariantHolds, PTL
=============================================================================
