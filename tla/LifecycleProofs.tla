-------------------------- MODULE LifecycleProofs ----------------------------
(***************************************************************************)
(* Proofs about ManagedLifecycle, for any number of runs, with commands    *)
(* that fail and without: type correctness, that an exit of 0 says what is *)
(* so, and that no destroy is cut short unnoticed.                         *)
(***************************************************************************)
EXTENDS ManagedLifecycle, TLAPS

\* The commands after `kind create' have a cluster.
Up == pc \in {"apply", "await", "probe"} => cluster

\* From the leak check to the next run, what the run may still say of the branch is so.
Unaccounted == (orphan \/ branch # "absent") /\ ~later
Checked == pc = "down" /\ keyed /\ status = 0 => ~Unaccounted
Truthful == pc = "ended" /\ exit = "ok" /\ keyed => ~Unaccounted

\* After the wait an object is still being deleted only if that was noted or misread.
Waited == pc \in {"list", "remedy", "down"} /\ object = "deleting" => status = 1 \/ misread

IInv == TypeOK /\ Up /\ Checked /\ Truthful /\ Waited

-----------------------------------------------------------------------------
LEMMA InvariantInit == Init => IInv
<1> SUFFICES ASSUME Init PROVE IInv
  OBVIOUS
<1> USE MaxRunsAssumption DEF Init, TypeOK, B!Init
<1>1. StepsOK
  BY DEF StepsOK, PC
<1>2. ScriptOK
  BY DEF ScriptOK
<1>3. KubeOK
  BY DEF KubeOK, B!Objects
<1>4. CloudOK
  BY DEF CloudOK, B!Branches
<1>5. Up /\ Checked /\ Truthful /\ Waited
  BY DEF Up, Checked, Truthful, Waited
<1>6. QED
  BY <1>1, <1>2, <1>3, <1>4, <1>5 DEF IInv

\* The type invariant, one lemma for each of its parts.
LEMMA StepsKept == TypeOK /\ [Next]_vars => StepsOK'
<1> SUFFICES ASSUME TypeOK, [Next]_vars PROVE StepsOK'
  OBVIOUS
<1> USE MaxRunsAssumption, FaultyAssumption
<1> USE DEF TypeOK, StepsOK, ScriptOK, KubeOK, CloudOK, PC, Work, Teardown, script, kube, cloud,
            Goto, Present, B!Objects, B!Branches
<1>1. CASE Orchestrate \/ TearDownByHand
  BY <1>1 DEF Orchestrate, TearDownByHand, Start
<1>2. CASE ClusterUp
  BY <1>2 DEF ClusterUp, ClusterGoes
<1>3. CASE Create \/ ApplyKustomization \/ Await \/ Probe
  BY <1>3 DEF Create, ApplyKustomization, Await, Probe, Trapped
<1>4. CASE Look \/ Generation \/ Wait
  BY <1>4 DEF Look, Generation, Wait, GoOn, Note
<1>5. CASE Drop \/ Permit \/ DeleteObject
  BY <1>5 DEF Drop, Permit, DeleteObject, Abort
<1>6. CASE List
  BY <1>6 DEF List, MayBeListed, Leaked
<1>7. CASE Remedy
  BY <1>7 DEF Remedy
<1>8. CASE Down
  BY <1>8 DEF Down, Outcome, ClusterGoes
<1>9. CASE Misread \/ Fail \/ Kill
  BY <1>9 DEF Misread, Fail, Kill, Believe, Trapped
<1>10. CASE FluxApplies \/ Plans \/ Finalizes
  BY <1>10 DEF FluxApplies, Plans, Finalizes, B!Vanish
<1>11. CASE Runs
  BY <1>11 DEF Runs, B!Grow, B!Shrink, B!Connect, B!Disconnect
<1>12. CASE UNCHANGED vars
  BY <1>12 DEF vars
<1>13. QED
  BY <1>1, <1>2, <1>3, <1>4, <1>5, <1>6, <1>7, <1>8, <1>9, <1>10, <1>11, <1>12 DEF Next, Step, Rest, Controllers

LEMMA ScriptKept == TypeOK /\ [Next]_vars => ScriptOK'
<1> SUFFICES ASSUME TypeOK, [Next]_vars PROVE ScriptOK'
  OBVIOUS
<1> USE MaxRunsAssumption, FaultyAssumption
<1> USE DEF TypeOK, StepsOK, ScriptOK, KubeOK, CloudOK, PC, Work, Teardown, script, kube, cloud,
            Goto, Present, B!Objects, B!Branches
<1>1. CASE Orchestrate \/ TearDownByHand
  BY <1>1 DEF Orchestrate, TearDownByHand, Start
<1>2. CASE ClusterUp
  BY <1>2 DEF ClusterUp, ClusterGoes
<1>3. CASE Create \/ ApplyKustomization \/ Await \/ Probe
  BY <1>3 DEF Create, ApplyKustomization, Await, Probe, Trapped
<1>4. CASE Look \/ Generation \/ Wait
  BY <1>4 DEF Look, Generation, Wait, GoOn, Note
<1>5. CASE Drop \/ Permit \/ DeleteObject
  BY <1>5 DEF Drop, Permit, DeleteObject, Abort
<1>6. CASE List
  BY <1>6 DEF List, MayBeListed, Leaked
<1>7. CASE Remedy
  BY <1>7 DEF Remedy
<1>8. CASE Down
  BY <1>8 DEF Down, Outcome, ClusterGoes
<1>9. CASE Misread \/ Fail \/ Kill
  BY <1>9 DEF Misread, Fail, Kill, Believe, Trapped
<1>10. CASE FluxApplies \/ Plans \/ Finalizes
  BY <1>10 DEF FluxApplies, Plans, Finalizes, B!Vanish
<1>11. CASE Runs
  BY <1>11 DEF Runs, B!Grow, B!Shrink, B!Connect, B!Disconnect
<1>12. CASE UNCHANGED vars
  BY <1>12 DEF vars
<1>13. QED
  BY <1>1, <1>2, <1>3, <1>4, <1>5, <1>6, <1>7, <1>8, <1>9, <1>10, <1>11, <1>12 DEF Next, Step, Rest, Controllers

LEMMA KubeKept == TypeOK /\ [Next]_vars => KubeOK'
<1> SUFFICES ASSUME TypeOK, [Next]_vars PROVE KubeOK'
  OBVIOUS
<1> USE MaxRunsAssumption, FaultyAssumption
<1> USE DEF TypeOK, StepsOK, ScriptOK, KubeOK, CloudOK, PC, Work, Teardown, script, kube, cloud,
            Goto, Present, B!Objects, B!Branches
<1>1. CASE Orchestrate \/ TearDownByHand
  BY <1>1 DEF Orchestrate, TearDownByHand, Start
<1>2. CASE ClusterUp
  BY <1>2 DEF ClusterUp, ClusterGoes
<1>3. CASE Create \/ ApplyKustomization \/ Await \/ Probe
  BY <1>3 DEF Create, ApplyKustomization, Await, Probe, Trapped
<1>4. CASE Look \/ Generation \/ Wait
  BY <1>4 DEF Look, Generation, Wait, GoOn, Note
<1>5. CASE Drop \/ Permit \/ DeleteObject
  BY <1>5 DEF Drop, Permit, DeleteObject, Abort
<1>6. CASE List
  BY <1>6 DEF List, MayBeListed, Leaked
<1>7. CASE Remedy
  BY <1>7 DEF Remedy
<1>8. CASE Down
  BY <1>8 DEF Down, Outcome, ClusterGoes
<1>9. CASE Misread \/ Fail \/ Kill
  BY <1>9 DEF Misread, Fail, Kill, Believe, Trapped
<1>10. CASE FluxApplies \/ Plans \/ Finalizes
  BY <1>10 DEF FluxApplies, Plans, Finalizes, B!Vanish
<1>11. CASE Runs
  BY <1>11 DEF Runs, B!Grow, B!Shrink, B!Connect, B!Disconnect
<1>12. CASE UNCHANGED vars
  BY <1>12 DEF vars
<1>13. QED
  BY <1>1, <1>2, <1>3, <1>4, <1>5, <1>6, <1>7, <1>8, <1>9, <1>10, <1>11, <1>12 DEF Next, Step, Rest, Controllers

LEMMA CloudKept == TypeOK /\ Up /\ [Next]_vars => CloudOK'
<1> SUFFICES ASSUME TypeOK /\ Up, [Next]_vars PROVE CloudOK'
  OBVIOUS
<1> USE MaxRunsAssumption, FaultyAssumption
<1> USE DEF TypeOK, StepsOK, ScriptOK, KubeOK, CloudOK, PC, Work, Teardown, script, kube, cloud,
            Goto, Present, B!Objects, B!Branches, Up
<1>1. CASE Orchestrate \/ TearDownByHand
  BY <1>1 DEF Orchestrate, TearDownByHand, Start
<1>2. CASE ClusterUp
  BY <1>2 DEF ClusterUp, ClusterGoes
<1>3. CASE Create \/ ApplyKustomization \/ Await \/ Probe
  BY <1>3 DEF Create, ApplyKustomization, Await, Probe, Trapped
<1>4. CASE Look \/ Generation \/ Wait
  BY <1>4 DEF Look, Generation, Wait, GoOn, Note
<1>5. CASE Drop \/ Permit \/ DeleteObject
  BY <1>5 DEF Drop, Permit, DeleteObject, Abort
<1>6. CASE List
  BY <1>6 DEF List, MayBeListed, Leaked
<1>7. CASE Remedy
  BY <1>7 DEF Remedy
<1>8. CASE Down
  BY <1>8 DEF Down, Outcome, ClusterGoes
<1>9. CASE Misread \/ Fail \/ Kill
  BY <1>9 DEF Misread, Fail, Kill, Believe, Trapped
<1>10. CASE FluxApplies \/ Plans \/ Finalizes
  BY <1>10 DEF FluxApplies, Plans, Finalizes, B!Vanish
<1>11. CASE Runs
  BY <1>11 DEF Runs, B!Grow, B!Shrink, B!Connect, B!Disconnect
<1>12. CASE UNCHANGED vars
  BY <1>12 DEF vars
<1>13. QED
  BY <1>1, <1>2, <1>3, <1>4, <1>5, <1>6, <1>7, <1>8, <1>9, <1>10, <1>11, <1>12 DEF Next, Step, Rest, Controllers

\* Nothing takes the cluster away between `kind create' and the teardown.
LEMMA UpKept == TypeOK /\ Up /\ [Next]_vars => Up'
<1> SUFFICES ASSUME TypeOK /\ Up, [Next]_vars PROVE Up'
  OBVIOUS
<1> USE MaxRunsAssumption, FaultyAssumption
<1> USE DEF TypeOK, StepsOK, ScriptOK, KubeOK, CloudOK, PC, Work, Teardown, script, kube, cloud,
            Goto, Present, B!Objects, B!Branches, Up
<1>1. CASE Orchestrate \/ TearDownByHand
  BY <1>1 DEF Orchestrate, TearDownByHand, Start
<1>2. CASE ClusterUp
  BY <1>2 DEF ClusterUp, ClusterGoes
<1>3. CASE Create \/ ApplyKustomization \/ Await \/ Probe
  BY <1>3 DEF Create, ApplyKustomization, Await, Probe, Trapped
<1>4. CASE Look \/ Generation \/ Wait
  BY <1>4 DEF Look, Generation, Wait, GoOn, Note
<1>5. CASE Drop \/ Permit \/ DeleteObject
  BY <1>5 DEF Drop, Permit, DeleteObject, Abort
<1>6. CASE List
  BY <1>6 DEF List, MayBeListed, Leaked
<1>7. CASE Remedy
  BY <1>7 DEF Remedy
<1>8. CASE Down
  BY <1>8 DEF Down, Outcome, ClusterGoes
<1>9. CASE Misread \/ Fail \/ Kill
  BY <1>9 DEF Misread, Fail, Kill, Believe, Trapped
<1>10. CASE FluxApplies \/ Plans \/ Finalizes
  BY <1>10 DEF FluxApplies, Plans, Finalizes, B!Vanish
<1>11. CASE Runs
  BY <1>11 DEF Runs, B!Grow, B!Shrink, B!Connect, B!Disconnect
<1>12. CASE UNCHANGED vars
  BY <1>12 DEF vars
<1>13. QED
  BY <1>1, <1>2, <1>3, <1>4, <1>5, <1>6, <1>7, <1>8, <1>9, <1>10, <1>11, <1>12 DEF Next, Step, Rest, Controllers

\* The leak check and the remedy account for what there is, the controllers for what they do.
LEMMA CheckedKept == TypeOK /\ Checked /\ [Next]_vars => Checked'
<1> SUFFICES ASSUME TypeOK /\ Checked, [Next]_vars PROVE Checked'
  OBVIOUS
<1> USE MaxRunsAssumption, FaultyAssumption
<1> USE DEF TypeOK, StepsOK, ScriptOK, KubeOK, CloudOK, PC, Work, Teardown, script, kube, cloud,
            Goto, Present, B!Objects, B!Branches, Checked, Unaccounted
<1>1. CASE Orchestrate \/ TearDownByHand
  BY <1>1 DEF Orchestrate, TearDownByHand, Start
<1>2. CASE ClusterUp
  BY <1>2 DEF ClusterUp, ClusterGoes
<1>3. CASE Create \/ ApplyKustomization \/ Await \/ Probe
  BY <1>3 DEF Create, ApplyKustomization, Await, Probe, Trapped
<1>4. CASE Look \/ Generation \/ Wait
  BY <1>4 DEF Look, Generation, Wait, GoOn, Note
<1>5. CASE Drop \/ Permit \/ DeleteObject
  BY <1>5 DEF Drop, Permit, DeleteObject, Abort
<1>6. CASE List
  BY <1>6 DEF List, MayBeListed, Leaked
<1>7. CASE Remedy
  BY <1>7 DEF Remedy
<1>8. CASE Down
  BY <1>8 DEF Down, Outcome, ClusterGoes
<1>9. CASE Misread \/ Fail \/ Kill
  BY <1>9 DEF Misread, Fail, Kill, Believe, Trapped
<1>10. CASE FluxApplies \/ Plans \/ Finalizes
  BY <1>10 DEF FluxApplies, Plans, Finalizes, B!Vanish
<1>11. CASE Runs
  BY <1>11 DEF Runs, B!Grow, B!Shrink, B!Connect, B!Disconnect
<1>12. CASE UNCHANGED vars
  BY <1>12 DEF vars
<1>13. QED
  BY <1>1, <1>2, <1>3, <1>4, <1>5, <1>6, <1>7, <1>8, <1>9, <1>10, <1>11, <1>12 DEF Next, Step, Rest, Controllers

\* Only the last command of the teardown exits 0, and the deletion of the cluster makes no branch.
LEMMA TruthfulKept == TypeOK /\ Checked /\ Truthful /\ [Next]_vars => Truthful'
<1> SUFFICES ASSUME TypeOK /\ Checked /\ Truthful, [Next]_vars PROVE Truthful'
  OBVIOUS
<1> USE MaxRunsAssumption, FaultyAssumption
<1> USE DEF TypeOK, StepsOK, ScriptOK, KubeOK, CloudOK, PC, Work, Teardown, script, kube, cloud,
            Goto, Present, B!Objects, B!Branches, Checked, Truthful, Unaccounted
<1>1. CASE Orchestrate \/ TearDownByHand
  BY <1>1 DEF Orchestrate, TearDownByHand, Start
<1>2. CASE ClusterUp
  BY <1>2 DEF ClusterUp, ClusterGoes
<1>3. CASE Create \/ ApplyKustomization \/ Await \/ Probe
  BY <1>3 DEF Create, ApplyKustomization, Await, Probe, Trapped
<1>4. CASE Look \/ Generation \/ Wait
  BY <1>4 DEF Look, Generation, Wait, GoOn, Note
<1>5. CASE Drop \/ Permit \/ DeleteObject
  BY <1>5 DEF Drop, Permit, DeleteObject, Abort
<1>6. CASE List
  BY <1>6 DEF List, MayBeListed, Leaked
<1>7. CASE Remedy
  BY <1>7 DEF Remedy
<1>8. CASE Down
  BY <1>8 DEF Down, Outcome, ClusterGoes
<1>9. CASE Misread \/ Fail \/ Kill
  BY <1>9 DEF Misread, Fail, Kill, Believe, Trapped
<1>10. CASE FluxApplies \/ Plans \/ Finalizes
  BY <1>10 DEF FluxApplies, Plans, Finalizes, B!Vanish
<1>11. CASE Runs
  BY <1>11 DEF Runs, B!Grow, B!Shrink, B!Connect, B!Disconnect
<1>12. CASE UNCHANGED vars
  BY <1>12 DEF vars
<1>13. QED
  BY <1>1, <1>2, <1>3, <1>4, <1>5, <1>6, <1>7, <1>8, <1>9, <1>10, <1>11, <1>12 DEF Next, Step, Rest, Controllers

\* An object that is being deleted is waited for; Flux makes live ones only.
LEMMA WaitedKept == TypeOK /\ Waited /\ [Next]_vars => Waited'
<1> SUFFICES ASSUME TypeOK /\ Waited, [Next]_vars PROVE Waited'
  OBVIOUS
<1> USE MaxRunsAssumption, FaultyAssumption
<1> USE DEF TypeOK, StepsOK, ScriptOK, KubeOK, CloudOK, PC, Work, Teardown, script, kube, cloud,
            Goto, Present, B!Objects, B!Branches, Waited
<1>1. CASE Orchestrate \/ TearDownByHand
  BY <1>1 DEF Orchestrate, TearDownByHand, Start
<1>2. CASE ClusterUp
  BY <1>2 DEF ClusterUp, ClusterGoes
<1>3. CASE Create \/ ApplyKustomization \/ Await \/ Probe
  BY <1>3 DEF Create, ApplyKustomization, Await, Probe, Trapped
<1>4. CASE Look \/ Generation \/ Wait
  BY <1>4 DEF Look, Generation, Wait, GoOn, Note
<1>5. CASE Drop \/ Permit \/ DeleteObject
  BY <1>5 DEF Drop, Permit, DeleteObject, Abort
<1>6. CASE List
  BY <1>6 DEF List, MayBeListed, Leaked
<1>7. CASE Remedy
  BY <1>7 DEF Remedy
<1>8. CASE Down
  BY <1>8 DEF Down, Outcome, ClusterGoes
<1>9. CASE Misread \/ Fail \/ Kill
  BY <1>9 DEF Misread, Fail, Kill, Believe, Trapped
<1>10. CASE FluxApplies \/ Plans \/ Finalizes
  BY <1>10 DEF FluxApplies, Plans, Finalizes, B!Vanish
<1>11. CASE Runs
  BY <1>11 DEF Runs, B!Grow, B!Shrink, B!Connect, B!Disconnect
<1>12. CASE UNCHANGED vars
  BY <1>12 DEF vars
<1>13. QED
  BY <1>1, <1>2, <1>3, <1>4, <1>5, <1>6, <1>7, <1>8, <1>9, <1>10, <1>11, <1>12 DEF Next, Step, Rest, Controllers

-----------------------------------------------------------------------------
LEMMA InvariantStep == IInv /\ [Next]_vars => IInv'
<1>1. IInv /\ [Next]_vars => TypeOK'
  BY StepsKept, ScriptKept, KubeKept, CloudKept DEF IInv, TypeOK
<1>2. IInv /\ [Next]_vars => (Up /\ Checked /\ Truthful /\ Waited)'
  BY UpKept, CheckedKept, TruthfulKept, WaitedKept DEF IInv
<1>3. QED
  BY <1>1, <1>2 DEF IInv

LEMMA InvariantHolds == Spec => []IInv
  BY InvariantInit, InvariantStep, PTL DEF Spec

\* Type correctness of any number of runs, failing or not; without a cluster there is
\* neither an object nor a branch that an OpenTofu state knows.
THEOREM LifecycleTypeCorrect == Spec => []TypeOK
<1>1. IInv => TypeOK
  BY DEF IInv
<1>2. QED
  BY <1>1, InvariantHolds, PTL

\* teardown-managed.sh:94-122: an exit of 0 with the key means that no branch of the
\* component's name is left, of this run or of any before it, but for one that was being
\* made at the check or begun since.
THEOREM ExitIsTruthful == Spec => []CheckTruthful
<1>1. IInv => CheckTruthful
  BY DEF IInv, Truthful, Unaccounted, CheckTruthful
<1>2. QED
  BY <1>1, InvariantHolds, PTL

\* teardown-managed.sh:22-27: the cluster is not deleted under a pending destroy unless
\* the wait has run out and been noted, or a failed kubectl get was believed.
THEOREM DestroyHasItsTime == Spec => DestroyNotCutShort
<1>1. IInv /\ [Next]_vars =>
        [pc = "down" /\ cluster /\ ~cluster' /\ object = "deleting" /\ permitted =>
           status = 1 \/ misread]_vars
  BY DEF IInv, Waited
<1>2. QED
  BY <1>1, InvariantHolds, PTL DEF Spec, DestroyNotCutShort
=============================================================================
