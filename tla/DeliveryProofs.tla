---------------------------- MODULE DeliveryProofs ----------------------------
(***************************************************************************)
(* Proofs about Delivery, for any number of deliveries to one cluster: the *)
(* type invariant, the order of the operator and the workload, that no     *)
(* script fails through its own order, and that a first delivery which     *)
(* passes has delivered what it published last.                            *)
(***************************************************************************)
EXTENDS Delivery, SequenceTheorems, TLAPS

\* The publishes that the script has behind it.
Copies == IF at > 13 THEN 2 ELSE IF at > 2 THEN 1 ELSE 0

\* No attempt publishes more than twice, so that the revisions are within their bound.
Budget == published <= 2 * (attempt - 1) + Copies

\* A revision goes from the publish to the git server, the source and the layers, and
\* no step takes the cluster back to an older one.
Lineage ==
    /\ source.artifact <= published
    /\ served <= published
    /\ served # 0 => source.artifact <= served
    /\ \A l \in Layer : applied[l] <= source.artifact

\* What Ready says of a layer, at least.
ReadyMeans ==
    /\ ready["infra"] => operator
    /\ ready["app"] => applied["app"] # 0

\* What the script's waits have established for the steps that come after them.
AppAwaited == IF SelfHosted THEN at > 8 ELSE at > 7
WorkloadAwaited == IF SelfHosted THEN at > 11 ELSE at > 9
Established ==
    /\ AppAwaited => applied["app"] # 0
    /\ WorkloadAwaited => workload

\* The publishes of a first attempt: what is served, and which of them is pinned.
FirstPublishes ==
    /\ published = Copies
    /\ at \in {2, 13} => served = 0
    /\ at \in {3, 14} => torn
    /\ at \in (4..12) \cup (15..17) => served = published
    /\ out = IF at > 10 /\ ~SelfHosted THEN "pinned" ELSE "unpinned"
    /\ pinned = IF at > 13 THEN {2} ELSE {}
    /\ at = 17 => applied["app"] = 2
FirstAttempt == attempt = 1 => FirstPublishes

IInv ==
    /\ TypeOK
    /\ Budget /\ Lineage /\ ReadyMeans /\ Established /\ FirstAttempt
    /\ OperatorFirst /\ FailsOnlyByFault

-----------------------------------------------------------------------------
(* The scripts, step by step *)

StepName ==
    {"remove", "copy", "copied", "register", "awaitSource", "applyInfra", "applyApp", "awaitApp",
     "credentials", "backups", "neon-api-key", "awaitWorkload", "pin", "readRevision",
     "awaitRevision", "awaitEntry"}

SelfHostedScript ==
    <<"remove", "copy", "copied", "register", "awaitSource", "applyInfra", "applyApp",
      "awaitApp", "credentials", "backups", "awaitWorkload">>
ManagedScript ==
    <<"remove", "copy", "copied", "register", "awaitSource", "applyApp", "awaitApp",
      "neon-api-key", "awaitWorkload", "pin", "readRevision", "remove", "copy", "copied",
      "awaitRevision", "awaitEntry">>

\* c is s with t after it.
Joined(c, s, t) ==
    /\ Len(c) = Len(s) + Len(t)
    /\ \A i \in 1..Len(s) : c[i] = s[i]
    /\ \A i \in 1..Len(t) : c[Len(s) + i] = t[i]

LEMMA Concatenation ==
  ASSUME NEW S, NEW s \in Seq(S), NEW t \in Seq(S)
  PROVE  s \o t \in Seq(S) /\ Joined(s \o t, s, t)
  BY ConcatProperties DEF Joined

LEMMA PublishRegister ==
    Publish \o Register = <<"remove", "copy", "copied", "register", "awaitSource">>
<1>1. Publish \in Seq(StepName) /\ Register \in Seq(StepName)
  BY DEF Publish, Register, StepName
<1>2. Publish \o Register \in Seq(StepName) /\ Joined(Publish \o Register, Publish, Register)
  BY <1>1, Concatenation
<1> DEFINE steps == <<"remove", "copy", "copied", "register", "awaitSource">>
<1>3. steps \in Seq(StepName)
  BY DEF StepName
<1>4. Len(Publish \o Register) = Len(steps)
  BY <1>2 DEF Joined, Publish, Register
<1>5. \A i \in 1..5 : (Publish \o Register)[i] = steps[i]
  BY <1>2 DEF Joined, Publish, Register
<1>6. QED
  BY <1>2, <1>3, <1>4, <1>5, SeqEqual

LEMMA SelfHostedSteps == (Publish \o Register) \o Deliver = SelfHostedScript
<1> DEFINE pr == <<"remove", "copy", "copied", "register", "awaitSource">>
<1>1. pr \in Seq(StepName) /\ Deliver \in Seq(StepName) /\ SelfHostedScript \in Seq(StepName)
  BY DEF Deliver, SelfHostedScript, StepName
<1>2. pr \o Deliver \in Seq(StepName) /\ Joined(pr \o Deliver, pr, Deliver)
  BY <1>1, Concatenation
<1>3. Len(pr \o Deliver) = Len(SelfHostedScript)
  BY <1>2 DEF Joined, Deliver, SelfHostedScript
<1>4. \A i \in 1..11 : (pr \o Deliver)[i] = SelfHostedScript[i]
  BY <1>2 DEF Joined, Deliver, SelfHostedScript
<1>5. pr \o Deliver = SelfHostedScript
  BY <1>1, <1>2, <1>3, <1>4, SeqEqual DEF SelfHostedScript
<1>6. QED
  BY <1>5, PublishRegister

LEMMA PinSteps ==
    Pin = <<"pin", "readRevision", "remove", "copy", "copied", "awaitRevision", "awaitEntry">>
<1> DEFINE read == <<"pin", "readRevision">>
           await == <<"awaitRevision", "awaitEntry">>
           publishing == <<"pin", "readRevision", "remove", "copy", "copied">>
           steps == <<"pin", "readRevision", "remove", "copy", "copied", "awaitRevision",
                      "awaitEntry">>
<1>1. /\ read \in Seq(StepName) /\ await \in Seq(StepName) /\ Publish \in Seq(StepName)
      /\ publishing \in Seq(StepName) /\ steps \in Seq(StepName)
  BY DEF Publish, StepName
<1>2. read \o Publish \in Seq(StepName) /\ Joined(read \o Publish, read, Publish)
  BY <1>1, Concatenation
<1>3. Len(read \o Publish) = 5 /\ \A i \in 1..5 : (read \o Publish)[i] = publishing[i]
  BY <1>2 DEF Joined, Publish
<1>4. read \o Publish = publishing
  <2>1. Len(publishing) = 5
    OBVIOUS
  <2> HIDE DEF read, publishing
  <2>2. QED
    BY <1>1, <1>2, <1>3, <2>1, SeqEqual
<1>5. publishing \o await \in Seq(StepName) /\ Joined(publishing \o await, publishing, await)
  BY <1>1, Concatenation
<1>6. Len(publishing \o await) = 7 /\ \A i \in 1..7 : (publishing \o await)[i] = steps[i]
  BY <1>5 DEF Joined
<1>7. publishing \o await = steps
  BY <1>1, <1>5, <1>6, SeqEqual
<1>8. QED
  BY <1>4, <1>7 DEF Pin

LEMMA ManagedSteps == (Publish \o Register) \o (DeliverManaged \o Pin) = ManagedScript
<1> DEFINE pr == <<"remove", "copy", "copied", "register", "awaitSource">>
           pin == <<"pin", "readRevision", "remove", "copy", "copied", "awaitRevision",
                    "awaitEntry">>
           rest == <<"applyApp", "awaitApp", "neon-api-key", "awaitWorkload", "pin",
                     "readRevision", "remove", "copy", "copied", "awaitRevision", "awaitEntry">>
<1>1. /\ pr \in Seq(StepName) /\ DeliverManaged \in Seq(StepName) /\ pin \in Seq(StepName)
      /\ rest \in Seq(StepName) /\ ManagedScript \in Seq(StepName)
  BY DEF DeliverManaged, ManagedScript, StepName
<1>2. /\ DeliverManaged \o pin \in Seq(StepName)
      /\ Joined(DeliverManaged \o pin, DeliverManaged, pin)
  BY <1>1, Concatenation
<1>3. Len(DeliverManaged \o pin) = 11 /\ \A i \in 1..11 : (DeliverManaged \o pin)[i] = rest[i]
  BY <1>2 DEF Joined, DeliverManaged
<1>4. DeliverManaged \o pin = rest
  <2>1. Len(rest) = 11
    OBVIOUS
  <2> HIDE DEF pin, rest
  <2>2. QED
    BY <1>1, <1>2, <1>3, <2>1, SeqEqual
<1>5. pr \o rest \in Seq(StepName) /\ Joined(pr \o rest, pr, rest)
  BY <1>1, Concatenation
<1>6. Len(pr \o rest) = 16 /\ \A i \in 1..16 : (pr \o rest)[i] = ManagedScript[i]
  BY <1>5 DEF Joined, ManagedScript
<1>7. pr \o rest = ManagedScript
  BY <1>1, <1>5, <1>6, SeqEqual DEF ManagedScript
<1>8. QED
  BY <1>4, <1>7, PublishRegister, PinSteps

LEMMA ScriptSteps == Script = IF SelfHosted THEN SelfHostedScript ELSE ManagedScript
  BY SelfHostedSteps, ManagedSteps DEF Script

LEMMA ScriptLength == Len(Script) = IF SelfHosted THEN 11 ELSE 16
  BY ScriptSteps DEF SelfHostedScript, ManagedScript

\* Where the script is when it does a step.
LEMMA Turn ==
  ASSUME at \in 1..(Len(Script) + 1)
  PROVE  /\ at \in 1..17 /\ (SelfHosted => at \in 1..12)
         /\ Passed <=> at = IF SelfHosted THEN 12 ELSE 17
         /\ Doing("remove") => at = 1 \/ (~SelfHosted /\ at = 12)
         /\ Doing("copy") => at = 2 \/ (~SelfHosted /\ at = 13)
         /\ Doing("copied") => at = 3 \/ (~SelfHosted /\ at = 14)
         /\ Doing("register") => at = 4
         /\ Doing("awaitSource") => at = 5
         /\ Doing("applyInfra") => SelfHosted /\ at = 6
         /\ Doing("applyApp") => at = IF SelfHosted THEN 7 ELSE 6
         /\ Doing("awaitApp") => at = IF SelfHosted THEN 8 ELSE 7
         /\ Doing("credentials") => SelfHosted /\ at = 9
         /\ Doing("backups") => SelfHosted /\ at = 10
         /\ Doing("neon-api-key") => ~SelfHosted /\ at = 8
         /\ Doing("awaitWorkload") => at = IF SelfHosted THEN 11 ELSE 9
         /\ Doing("pin") => ~SelfHosted /\ at = 10
         /\ Doing("readRevision") => ~SelfHosted /\ at = 11
         /\ Doing("awaitRevision") => ~SelfHosted /\ at = 15
         /\ Doing("awaitEntry") => ~SelfHosted /\ at = 16
<1>1. /\ at \in 1..17 /\ (SelfHosted => at \in 1..12)
      /\ Passed <=> at = IF SelfHosted THEN 12 ELSE 17
  BY ScriptLength DEF Passed
<1>2. CASE SelfHosted
  <2>1. Passed \/ \/ at = 1 /\ Script[at] = "remove"
                  \/ at = 2 /\ Script[at] = "copy"
                  \/ at = 3 /\ Script[at] = "copied"
                  \/ at = 4 /\ Script[at] = "register"
                  \/ at = 5 /\ Script[at] = "awaitSource"
                  \/ at = 6 /\ Script[at] = "applyInfra"
                  \/ at = 7 /\ Script[at] = "applyApp"
                  \/ at = 8 /\ Script[at] = "awaitApp"
                  \/ at = 9 /\ Script[at] = "credentials"
                  \/ at = 10 /\ Script[at] = "backups"
                  \/ at = 11 /\ Script[at] = "awaitWorkload"
    BY <1>1, <1>2, ScriptSteps DEF SelfHostedScript
  <2>2. QED
    BY <1>1, <1>2, <2>1 DEF Doing
<1>3. CASE ~SelfHosted
  <2>1. Passed \/ \/ at \in {1, 12} /\ Script[at] = "remove"
                  \/ at \in {2, 13} /\ Script[at] = "copy"
                  \/ at \in {3, 14} /\ Script[at] = "copied"
                  \/ at = 4 /\ Script[at] = "register"
                  \/ at = 5 /\ Script[at] = "awaitSource"
                  \/ at = 6 /\ Script[at] = "applyApp"
                  \/ at = 7 /\ Script[at] = "awaitApp"
                  \/ at = 8 /\ Script[at] = "neon-api-key"
                  \/ at = 9 /\ Script[at] = "awaitWorkload"
                  \/ at = 10 /\ Script[at] = "pin"
                  \/ at = 11 /\ Script[at] = "readRevision"
                  \/ at = 15 /\ Script[at] = "awaitRevision"
                  \/ at = 16 /\ Script[at] = "awaitEntry"
    BY <1>1, <1>3, ScriptSteps DEF ManagedScript
  <2>2. QED
    BY <1>1, <1>3, <2>1 DEF Doing
<1>4. QED
  BY <1>2, <1>3
-----------------------------------------------------------------------------
(* The steps of the system, one case each, for the lemmas about all of them *)

LEMMA Cases ==
  ASSUME [Next]_vars
  PROVE  \/ Remove \/ Copy \/ Copied \/ RegisterSource
         \/ \E l \in Layer : ApplyKustomization(l)
         \/ \E s \in Required : CreateSecret(s)
         \/ PinHost \/ ReadRevision \/ \E p \in Polls : Poll(p)
         \/ Fault \/ Again \/ Fetch \/ \E l \in Layer : Reconcile(l)
         \/ InstallOperator \/ BecomeHealthy \/ UNCHANGED vars
  BY DEF Next, Step, Controllers, Ended

LEMMA PlacementConstant ==
  ASSUME [Next]_vars
  PROVE  placement' = placement /\ SelfHosted' = SelfHosted /\ Script' = Script
<1>1. placement' = placement
  BY Cases DEF Remove, Copy, Copied, RegisterSource, ApplyKustomization, CreateSecret, PinHost,
     ReadRevision, Poll, Fault, Again, Fetch, Reconcile, InstallOperator, BecomeHealthy, vars,
     Proceed, Refuse, script
<1>2. QED
  BY <1>1 DEF SelfHosted, Script

\* How the script goes: to its next step, into failure, or back to the first one.
Onward == at' = at + 1 /\ ~Passed /\ UNCHANGED <<attempt, failed, fault>>
Failing == failed' = TRUE /\ UNCHANGED <<attempt, at>>
Restarting ==
    /\ attempt < MaxAttempts /\ attempt' = attempt + 1 /\ at' = 1
    /\ failed' = FALSE /\ fault' = FALSE /\ out' = "unpinned"
Standing == UNCHANGED <<attempt, at, failed, fault>>

LEMMA ScriptGoes == ASSUME [Next]_vars PROVE Onward \/ Failing \/ (Again /\ Restarting) \/ Standing
<1> USE DEF Onward, Failing, Restarting, Standing, Proceed, Refuse, Doing
<1>1. CASE Remove \/ Copy \/ Copied \/ RegisterSource \/ \E l \in Layer : ApplyKustomization(l)
  BY <1>1 DEF Remove, Copy, Copied, RegisterSource, ApplyKustomization
<1>2. CASE PinHost \/ ReadRevision \/ (\E p \in Polls : Poll(p)) \/ \E s \in Required : CreateSecret(s)
  BY <1>2 DEF PinHost, ReadRevision, Poll, CreateSecret
<1>3. CASE Fault \/ Again
  BY <1>3 DEF Fault, Again
<1>4. CASE Fetch \/ (\E l \in Layer : Reconcile(l)) \/ InstallOperator \/ BecomeHealthy \/ UNCHANGED vars
  BY <1>4 DEF Fetch, Reconcile, InstallOperator, BecomeHealthy, vars, script
<1>5. QED
  BY <1>1, <1>2, <1>3, <1>4, Cases

-----------------------------------------------------------------------------
(* The type invariant, one lemma for each of its parts *)

ScriptOK ==
    /\ placement \in {"self-hosted", "managed"}
    /\ attempt \in 1..MaxAttempts
    /\ at \in 1..(Len(Script) + 1)
FlagsOK == failed \in BOOLEAN /\ fault \in BOOLEAN
MemoryOK == out \in {"unpinned", "pinned"} /\ pre \in Revision /\ secrets \subseteq Required
RepositoryOK ==
    /\ published \in Revision /\ served \in Revision /\ pinned \subseteq Revision
    /\ torn \in BOOLEAN
SourceOK == source \in [registered : BOOLEAN, ready : BOOLEAN, artifact : Revision]
LayersOK ==
    /\ layers \subseteq Layer
    /\ applied \in [Layer -> Revision]
    /\ ready \in [Layer -> BOOLEAN]
HealthOK == operator \in BOOLEAN /\ workload \in BOOLEAN

LEMMA TypeParts ==
    TypeOK <=> /\ ScriptOK /\ FlagsOK /\ MemoryOK /\ RepositoryOK
               /\ SourceOK /\ LayersOK /\ HealthOK
  BY DEF TypeOK, ScriptOK, FlagsOK, MemoryOK, RepositoryOK, SourceOK, LayersOK, HealthOK

LEMMA ScriptKept == ASSUME ScriptOK, [Next]_vars PROVE ScriptOK'
<1>1. /\ attempt \in Nat /\ attempt <= MaxAttempts /\ attempt >= 1 /\ MaxAttempts \in Nat
      /\ at \in 1..(Len(Script) + 1) /\ Len(Script) \in {11, 16}
  BY MaxAttemptsAssumption, ScriptLength DEF ScriptOK
<1>2. attempt' \in 1..MaxAttempts
  <2>1. CASE Onward \/ Failing \/ Standing
    BY <1>1, <2>1 DEF Onward, Failing, Standing
  <2>2. CASE Restarting
    BY <1>1, <2>2 DEF Restarting
  <2>3. QED
    BY <2>1, <2>2, ScriptGoes
<1>3. at' \in 1..(Len(Script) + 1)
  <2>1. CASE Onward
    BY <1>1, <2>1 DEF Onward, Passed
  <2>2. CASE Failing \/ Standing \/ Restarting
    BY <1>1, <2>2 DEF Failing, Standing, Restarting
  <2>3. QED
    BY <2>1, <2>2, ScriptGoes
<1>4. QED
  BY <1>2, <1>3, PlacementConstant DEF ScriptOK

LEMMA FlagsKept == ASSUME FlagsOK, [Next]_vars PROVE FlagsOK'
<1> USE DEF FlagsOK, Proceed, Refuse, script
<1>1. CASE Remove \/ Copy \/ Copied \/ RegisterSource \/ \E l \in Layer : ApplyKustomization(l)
  BY <1>1 DEF Remove, Copy, Copied, RegisterSource, ApplyKustomization
<1>2. CASE PinHost \/ ReadRevision \/ (\E p \in Polls : Poll(p)) \/ \E s \in Required : CreateSecret(s)
  BY <1>2 DEF PinHost, ReadRevision, Poll, CreateSecret
<1>3. CASE Fault \/ Again
  BY <1>3 DEF Fault, Again
<1>4. CASE Fetch \/ (\E l \in Layer : Reconcile(l)) \/ InstallOperator \/ BecomeHealthy \/ UNCHANGED vars
  BY <1>4 DEF Fetch, Reconcile, InstallOperator, BecomeHealthy, vars
<1>5. QED
  BY <1>1, <1>2, <1>3, <1>4, Cases

LEMMA MemoryKept == ASSUME MemoryOK, SourceOK, [Next]_vars PROVE MemoryOK'
<1>1. Required' = Required
  BY PlacementConstant DEF Required
<1> USE <1>1 DEF MemoryOK, script
<1>2. CASE Remove \/ Copy \/ Copied \/ RegisterSource \/ \E l \in Layer : ApplyKustomization(l)
  BY <1>2 DEF Remove, Copy, Copied, RegisterSource, ApplyKustomization
<1>3. CASE PinHost \/ ReadRevision \/ (\E p \in Polls : Poll(p)) \/ \E s \in Required : CreateSecret(s)
  BY <1>3 DEF PinHost, ReadRevision, Poll, CreateSecret, SourceOK
<1>4. CASE Fault \/ Again
  BY <1>4 DEF Fault, Again
<1>5. CASE Fetch \/ (\E l \in Layer : Reconcile(l)) \/ InstallOperator \/ BecomeHealthy \/ UNCHANGED vars
  BY <1>5 DEF Fetch, Reconcile, InstallOperator, BecomeHealthy, vars
<1>6. QED
  BY <1>2, <1>3, <1>4, <1>5, Cases

LEMMA BudgetKept == ASSUME ScriptOK, RepositoryOK, Budget, [Next]_vars
                    PROVE  RepositoryOK' /\ Budget'
<1>1. attempt \in Nat /\ attempt <= MaxAttempts /\ MaxAttempts \in Nat /\ at \in 1..17
  BY MaxAttemptsAssumption, ScriptLength DEF ScriptOK
<1> USE <1>1 DEF RepositoryOK, Budget, Revision, Copies, repository
<1>2. CASE Copy
  <2>1. at \in {2, 13} /\ at' = at + 1 /\ attempt' = attempt /\ published' = published + 1
    BY <1>2, Turn DEF Copy, ScriptOK, Proceed
  <2>2. Budget' /\ published' \in Revision
    BY <2>1
  <2>3. QED
    BY <1>2, <2>2 DEF Copy
<1>3. CASE Copied
  <2>1. at \in {3, 14} /\ at' = at + 1 /\ attempt' = attempt /\ published' = published
    BY <1>3, Turn DEF Copied, ScriptOK, Proceed
  <2>2. Budget' /\ published' \in Revision
    BY <2>1
  <2>3. QED
    BY <1>3, <2>2 DEF Copied
<1>4. CASE Remove
  <2>1. at \in {1, 12} /\ at' = at + 1 /\ attempt' = attempt /\ published' = published
    BY <1>4, Turn DEF Remove, ScriptOK, Proceed
  <2>2. Budget' /\ published' \in Revision
    BY <2>1
  <2>3. served' = 0 /\ torn' = FALSE /\ pinned' = pinned
    BY <1>4 DEF Remove
  <2>4. served' \in Revision
    BY <1>1, <2>3
  <2>5. QED
    BY <2>2, <2>3, <2>4
<1>5. CASE Again
  BY <1>5 DEF Again
<1>6. CASE ~(Copy \/ Copied \/ Remove \/ Again)
  <2>1. UNCHANGED repository
    <3>1. CASE RegisterSource \/ (\E l \in Layer : ApplyKustomization(l)) \/ PinHost \/ ReadRevision
      BY <3>1 DEF RegisterSource, ApplyKustomization, PinHost, ReadRevision
    <3>2. CASE (\E p \in Polls : Poll(p)) \/ (\E s \in Required : CreateSecret(s)) \/ Fault
      BY <3>2 DEF Poll, CreateSecret, Fault
    <3>3. CASE Fetch \/ (\E l \in Layer : Reconcile(l)) \/ InstallOperator \/ BecomeHealthy \/ UNCHANGED vars
      BY <3>3 DEF Fetch, Reconcile, InstallOperator, BecomeHealthy, vars
    <3>4. QED
      BY <1>6, <3>1, <3>2, <3>3, Cases
  <2>2. attempt' = attempt /\ at' \in {at, at + 1}
    BY <1>6, ScriptGoes, Cases DEF Onward, Failing, Standing
  <2>3. QED
    BY <2>1, <2>2
<1>7. QED
  BY <1>2, <1>3, <1>4, <1>5, <1>6
\* What the cluster is made of changes by the controllers and by two of the commands.
LEMMA ClusterGoes ==
  ASSUME [Next]_vars, ~RegisterSource, ~(\E l \in Layer : ApplyKustomization(l)),
         ~Fetch, ~(\E l \in Layer : Reconcile(l)), ~InstallOperator, ~BecomeHealthy
  PROVE  UNCHANGED cluster
<1>1. CASE Remove \/ Copy \/ Copied \/ PinHost \/ ReadRevision
  BY <1>1 DEF Remove, Copy, Copied, PinHost, ReadRevision
<1>2. CASE (\E p \in Polls : Poll(p)) \/ (\E s \in Required : CreateSecret(s)) \/ Fault \/ Again
  BY <1>2 DEF Poll, CreateSecret, Fault, Again
<1>3. CASE UNCHANGED vars
  BY <1>3 DEF vars
<1>4. QED
  BY <1>1, <1>2, <1>3, Cases

LEMMA SourceKept == ASSUME SourceOK, RepositoryOK, [Next]_vars PROVE SourceOK'
<1> USE DEF SourceOK, RepositoryOK, Revision, kustomizations
<1>1. CASE RegisterSource
  BY <1>1 DEF RegisterSource
<1>2. CASE Fetch
  BY <1>2 DEF Fetch
<1>3. CASE (\E l \in Layer : ApplyKustomization(l)) \/ (\E l \in Layer : Reconcile(l))
  BY <1>3 DEF ApplyKustomization, Reconcile
<1>4. CASE InstallOperator \/ BecomeHealthy
  BY <1>4 DEF InstallOperator, BecomeHealthy
<1>5. QED
  BY <1>1, <1>2, <1>3, <1>4, ClusterGoes DEF cluster

LEMMA HealthKept == ASSUME HealthOK, [Next]_vars PROVE HealthOK'
<1> USE DEF HealthOK, kustomizations
<1>1. CASE RegisterSource \/ Fetch
  BY <1>1 DEF RegisterSource, Fetch
<1>2. CASE (\E l \in Layer : ApplyKustomization(l)) \/ (\E l \in Layer : Reconcile(l))
  BY <1>2 DEF ApplyKustomization, Reconcile
<1>3. CASE InstallOperator \/ BecomeHealthy
  BY <1>3 DEF InstallOperator, BecomeHealthy
<1>4. QED
  BY <1>1, <1>2, <1>3, ClusterGoes DEF cluster

\* The checks of a layer are conditions, whatever the layer.
LEMMA HealthyValue ==
  ASSUME HealthOK, NEW l \in Layer
  PROVE  /\ (\A h \in HealthChecks[l] : Healthy(h)) \in BOOLEAN
         /\ l = "infra" => ((\A h \in HealthChecks[l] : Healthy(h)) <=> operator)
  BY DEF HealthOK, HealthChecks, Healthy, Layer

LEMMA LayersKept == ASSUME LayersOK, SourceOK, HealthOK, [Next]_vars PROVE LayersOK'
<1> USE DEF LayersOK, SourceOK, kustomizations
<1>1. CASE RegisterSource \/ Fetch
  BY <1>1 DEF RegisterSource, Fetch
<1>2. ASSUME NEW l \in Layer, ApplyKustomization(l) PROVE LayersOK'
  BY <1>2 DEF ApplyKustomization
<1>3. ASSUME NEW l \in Layer, Reconcile(l) PROVE LayersOK'
  <2>1. PICK b \in BOOLEAN : ready' = [ready EXCEPT ![l] = b]
    BY <1>3, HealthyValue DEF Reconcile
  <2>2. QED
    BY <1>3, <2>1 DEF Reconcile
<1>4. CASE InstallOperator \/ BecomeHealthy
  BY <1>4 DEF InstallOperator, BecomeHealthy
<1>5. QED
  BY <1>1, <1>2, <1>3, <1>4, ClusterGoes DEF cluster
\* The git server changes by the three steps of a publish.
LEMMA RepositoryGoes ==
  ASSUME [Next]_vars, ~Remove, ~Copy, ~Copied
  PROVE  UNCHANGED repository
<1>1. CASE RegisterSource \/ (\E l \in Layer : ApplyKustomization(l)) \/ PinHost \/ ReadRevision
  BY <1>1 DEF RegisterSource, ApplyKustomization, PinHost, ReadRevision
<1>2. CASE (\E p \in Polls : Poll(p)) \/ (\E s \in Required : CreateSecret(s)) \/ Fault \/ Again
  BY <1>2 DEF Poll, CreateSecret, Fault, Again
<1>3. CASE Fetch \/ (\E l \in Layer : Reconcile(l)) \/ InstallOperator \/ BecomeHealthy
  BY <1>3 DEF Fetch, Reconcile, InstallOperator, BecomeHealthy
<1>4. CASE UNCHANGED vars
  BY <1>4 DEF vars
<1>5. QED
  BY <1>1, <1>2, <1>3, <1>4, Cases

-----------------------------------------------------------------------------
(* The invariant *)

LEMMA LineageKept ==
  ASSUME RepositoryOK, SourceOK, LayersOK, Lineage, [Next]_vars
  PROVE  Lineage'
<1>1. /\ published \in Nat /\ served \in Nat /\ source.artifact \in Nat
      /\ \A l \in Layer : applied[l] \in Nat
  BY MaxAttemptsAssumption DEF RepositoryOK, SourceOK, LayersOK, Revision
<1> USE <1>1 DEF Lineage
<1>2. CASE Remove \/ Copy \/ Copied
  <2>1. UNCHANGED <<source, applied>>
    BY <1>2 DEF Remove, Copy, Copied, cluster, kustomizations
  <2>2. \/ served' = 0 /\ published' = published
        \/ served' = served /\ published' \in {published, published + 1}
        \/ served' = published /\ published' = published
    BY <1>2 DEF Remove, Copy, Copied
  <2>3. QED
    BY <2>1, <2>2
<1>3. CASE RegisterSource \/ (\E l \in Layer : ApplyKustomization(l)) \/ InstallOperator \/ BecomeHealthy
  <2>1. UNCHANGED <<repository, applied>> /\ source'.artifact = source.artifact
    BY <1>3 DEF RegisterSource, ApplyKustomization, InstallOperator, BecomeHealthy,
       kustomizations, SourceOK
  <2>2. QED
    BY <2>1 DEF repository
<1>4. CASE Fetch
  <2>1. UNCHANGED <<repository, applied>>
    BY <1>4 DEF Fetch, kustomizations
  <2>2. source'.artifact = source.artifact \/ (served # 0 /\ source'.artifact = served)
    BY <1>4 DEF Fetch, SourceOK
  <2>3. QED
    BY <2>1, <2>2 DEF repository
<1>5. ASSUME NEW l \in Layer, Reconcile(l) PROVE Lineage'
  <2>1. UNCHANGED <<repository, source>> /\ applied' = [applied EXCEPT ![l] = source.artifact]
    BY <1>5 DEF Reconcile
  <2>2. \A k \in Layer : applied'[k] \in {applied[k], source.artifact}
    BY <2>1 DEF LayersOK
  <2>3. QED
    BY <2>1, <2>2 DEF repository
<1>6. CASE ~(Remove \/ Copy \/ Copied) /\ UNCHANGED cluster
  BY <1>6, RepositoryGoes DEF repository, cluster, kustomizations
<1>7. CASE ~(Remove \/ Copy \/ Copied) /\ ~UNCHANGED cluster
  BY <1>3, <1>4, <1>5, <1>7, ClusterGoes
<1>8. QED
  BY <1>2, <1>6, <1>7

\* No step takes back that the app layer is applied, that the operator serves or that
\* the workload works.
LEMMA Lasting ==
  ASSUME LayersOK, SourceOK, [Next]_vars
  PROVE  /\ applied["app"] # 0 => applied'["app"] # 0
         /\ applied["app"] = 0 /\ applied'["app"] # 0 => Reconcile("app")
         /\ operator => operator'
         /\ workload => workload'
<1> USE DEF Layer, kustomizations
<1>1. CASE RegisterSource \/ Fetch \/ \E l \in Layer : ApplyKustomization(l)
  BY <1>1 DEF RegisterSource, Fetch, ApplyKustomization
<1>2. CASE Reconcile("app")
  BY <1>2 DEF Reconcile, LayersOK, SourceOK
<1>3. CASE Reconcile("infra")
  BY <1>3 DEF Reconcile, LayersOK
<1>4. CASE InstallOperator \/ BecomeHealthy
  BY <1>4 DEF InstallOperator, BecomeHealthy
<1>5. QED
  BY <1>1, <1>2, <1>3, <1>4, ClusterGoes DEF cluster

LEMMA ReadyMeansKept ==
  ASSUME LayersOK, SourceOK, HealthOK, ReadyMeans, [Next]_vars
  PROVE  ReadyMeans'
<1> USE DEF ReadyMeans, kustomizations
<1>1. CASE UNCHANGED ready
  BY <1>1, Lasting
<1>2. ASSUME NEW l \in Layer, Reconcile(l) PROVE ReadyMeans'
  <2>1. /\ operator' = operator /\ source.artifact # 0
        /\ applied' = [applied EXCEPT ![l] = source.artifact]
    BY <1>2 DEF Reconcile
  <2>2. CASE l = "infra"
    <3>1. ready' = [ready EXCEPT !["infra"] = \A h \in HealthChecks["infra"] : Healthy(h)]
      BY <1>2, <2>2 DEF Reconcile
    <3>2. ready'["infra"] => operator
      BY <3>1, <2>2, HealthyValue DEF LayersOK
    <3>3. ready'["app"] = ready["app"]
      BY <3>1 DEF LayersOK, Layer
    <3>4. QED
      BY <2>1, <3>2, <3>3, Lasting
  <2>3. CASE l = "app"
    BY <1>2, <2>1, <2>3 DEF Reconcile, LayersOK, Layer
  <2>4. QED
    BY <2>2, <2>3 DEF Layer
<1>3. CASE UNCHANGED cluster
  BY <1>3 DEF cluster
<1>4. CASE RegisterSource \/ Fetch \/ (\E l \in Layer : ApplyKustomization(l)) \/ InstallOperator \/ BecomeHealthy
  BY <1>1, <1>4 DEF RegisterSource, Fetch, ApplyKustomization, InstallOperator, BecomeHealthy
<1>5. QED
  BY <1>2, <1>3, <1>4, ClusterGoes

LEMMA OperatorFirstKept ==
  ASSUME LayersOK, SourceOK, ReadyMeans, OperatorFirst, [Next]_vars
  PROVE  OperatorFirst'
<1>1. SelfHosted /\ Reconcile("app") => operator
  <2>1. SelfHosted => DependsOn["app"] = {"infra"}
    BY DEF DependsOn
  <2>2. QED
    BY <2>1 DEF Reconcile, ReadyMeans
<1>2. QED
  BY <1>1, Lasting, PlacementConstant DEF OperatorFirst
AppPoll == IF SelfHosted THEN 8 ELSE 7
WorkloadPoll == IF SelfHosted THEN 11 ELSE 9

\* What the step that the script has just done leaves behind, and where.
LEMMA Done ==
  ASSUME ScriptOK, [Next]_vars, Onward
  PROVE  /\ at = AppPoll => ready["app"]
         /\ at = WorkloadPoll => workload
         /\ at = 10 /\ ~SelfHosted => out' = "pinned"
         /\ at = 16 => applied["app"] \in pinned
         /\ at \in {1, 12} => Remove
         /\ at \in {2, 13} => Copy
         /\ at \in {3, 14} => Copied
<1>1. at \in 1..17 /\ at' = at + 1 /\ at' # at /\ (SelfHosted => at \in 1..11)
  BY Turn DEF ScriptOK, Onward
<1> USE <1>1 DEF ScriptOK, AppPoll, WorkloadPoll
<1>2. CASE Remove
  <2>1. at = 1 \/ (~SelfHosted /\ at = 12)
    BY <1>2, Turn DEF Remove
  <2>2. QED
    BY <1>2, <2>1
<1>3. CASE Copy
  <2>1. at = 2 \/ (~SelfHosted /\ at = 13)
    BY <1>3, Turn DEF Copy
  <2>2. QED
    BY <1>3, <2>1
<1>4. CASE Copied
  <2>1. at = 3 \/ (~SelfHosted /\ at = 14)
    BY <1>4, Turn DEF Copied
  <2>2. QED
    BY <1>4, <2>1
<1>5. CASE RegisterSource
  <2>1. at = 4
    BY <1>5, Turn DEF RegisterSource
  <2>2. QED
    BY <2>1
<1>6. ASSUME NEW l \in Layer, ApplyKustomization(l)
      PROVE  at \in {6, 7} /\ at # AppPoll
  <2>1. CASE l = "infra"
    BY <1>6, <2>1, Turn DEF ApplyKustomization
  <2>2. CASE l = "app"
    BY <1>6, <2>2, Turn DEF ApplyKustomization
  <2>3. QED
    BY <2>1, <2>2 DEF Layer
<1>7. ASSUME NEW s \in Required, CreateSecret(s)
      PROVE  at = IF SelfHosted THEN IF s = "credentials" THEN 9 ELSE 10 ELSE 8
  BY <1>7, Turn DEF CreateSecret, Required
<1>8. CASE PinHost
  <2>1. at = 10 /\ ~SelfHosted /\ (workload => out' = "pinned") /\ (~workload => at' = at)
    BY <1>8, Turn DEF PinHost, Refuse
  <2>2. QED
    BY <2>1
<1>9. CASE ReadRevision
  <2>1. at = 11 /\ ~SelfHosted
    BY <1>9, Turn DEF ReadRevision
  <2>2. QED
    BY <2>1
<1>10. CASE Poll("awaitSource")
  <2>1. at = 5
    BY <1>10, Turn DEF Poll
  <2>2. QED
    BY <2>1
<1>11. CASE Poll("awaitApp")
  <2>1. at = AppPoll
    BY <1>11, Turn DEF Poll
  <2>2. ready["app"]
    BY <1>11 DEF Poll, Awaited
  <2>3. QED
    BY <2>1, <2>2
<1>12. CASE Poll("awaitWorkload")
  <2>1. at = WorkloadPoll
    BY <1>12, Turn DEF Poll
  <2>2. workload
    BY <1>12 DEF Poll, Awaited
  <2>3. QED
    BY <2>1, <2>2
<1>13. CASE Poll("awaitRevision")
  <2>1. at = 15
    BY <1>13, Turn DEF Poll
  <2>2. QED
    BY <2>1
<1>14. CASE Poll("awaitEntry")
  <2>1. at = 16
    BY <1>14, Turn DEF Poll
  <2>2. applied["app"] \in pinned
    BY <1>14 DEF Poll, Awaited
  <2>3. QED
    BY <2>1, <2>2
<1>15. CASE Fault \/ Fetch \/ (\E l \in Layer : Reconcile(l)) \/ InstallOperator \/ BecomeHealthy \/ UNCHANGED vars
  <2>1. at' = at
    BY <1>15 DEF Fault, Fetch, Reconcile, InstallOperator, BecomeHealthy, vars, script
  <2>2. QED
    BY <2>1
<1>16. CASE Again
  <2>1. attempt' = attempt + 1 /\ attempt \in Nat
    BY <1>16, MaxAttemptsAssumption DEF Again
  <2>2. QED
    BY <2>1 DEF Onward
<1>17. \A p \in Polls : Poll(p) => p \in {"awaitSource", "awaitApp", "awaitWorkload", "awaitRevision", "awaitEntry"}
  BY DEF Polls
<1>18. QED
  BY <1>2, <1>3, <1>4, <1>5, <1>6, <1>7, <1>8, <1>9, <1>10, <1>11, <1>12, <1>13, <1>14, <1>15,
     <1>16, <1>17, Cases
LEMMA EstablishedKept ==
  ASSUME ScriptOK, LayersOK, SourceOK, ReadyMeans, Established, [Next]_vars
  PROVE  Established'
<1>1. at \in 1..17
  BY Turn DEF ScriptOK
<1> USE <1>1 DEF Established, AppAwaited, WorkloadAwaited
<1>2. CASE Onward
  BY <1>2, Done, Lasting, PlacementConstant DEF Onward, AppPoll, WorkloadPoll, ReadyMeans
<1>3. CASE Failing \/ Standing
  BY <1>3, Lasting, PlacementConstant DEF Failing, Standing
<1>4. CASE Restarting
  BY <1>4 DEF Restarting
<1>5. QED
  BY <1>2, <1>3, <1>4, ScriptGoes

LEMMA FailsOnlyByFaultKept ==
  ASSUME ScriptOK, Established, FailsOnlyByFault, [Next]_vars
  PROVE  FailsOnlyByFault'
<1>1. at \in 1..17
  BY Turn DEF ScriptOK
<1> USE DEF FailsOnlyByFault
<1>2. CASE UNCHANGED <<failed, fault>>
  BY <1>2
<1>3. CASE Fault \/ Again
  BY <1>3 DEF Fault, Again
<1>4. ASSUME NEW s \in Required, CreateSecret(s) PROVE FailsOnlyByFault'
  <2>1. AppAwaited
    BY <1>1, <1>4, Turn DEF CreateSecret, Required, ScriptOK, AppAwaited
  <2>2. UNCHANGED <<failed, fault>>
    BY <1>4, <2>1 DEF CreateSecret, Established, Proceed
  <2>3. QED
    BY <2>2
<1>5. CASE PinHost
  <2>1. WorkloadAwaited
    BY <1>1, <1>5, Turn DEF PinHost, ScriptOK, WorkloadAwaited
  <2>2. UNCHANGED <<failed, fault>>
    BY <1>5, <2>1 DEF PinHost, Established, Proceed
  <2>3. QED
    BY <2>2
<1>6. CASE Remove \/ Copy \/ Copied \/ RegisterSource \/ ReadRevision
  BY <1>2, <1>6 DEF Remove, Copy, Copied, RegisterSource, ReadRevision, Proceed
<1>7. CASE (\E l \in Layer : ApplyKustomization(l)) \/ (\E p \in Polls : Poll(p))
  BY <1>2, <1>7 DEF ApplyKustomization, Poll, Proceed
<1>8. CASE Fetch \/ (\E l \in Layer : Reconcile(l)) \/ InstallOperator \/ BecomeHealthy \/ UNCHANGED vars
  BY <1>2, <1>8 DEF Fetch, Reconcile, InstallOperator, BecomeHealthy, vars, script
<1>9. QED
  BY <1>3, <1>4, <1>5, <1>6, <1>7, <1>8, Cases

LEMMA AppliedGoes ==
  ASSUME LayersOK, [Next]_vars
  PROVE  applied'["app"] \in {applied["app"], source.artifact}
<1> USE DEF Layer, LayersOK, kustomizations
<1>1. CASE RegisterSource \/ Fetch \/ (\E l \in Layer : ApplyKustomization(l)) \/ InstallOperator \/ BecomeHealthy
  BY <1>1 DEF RegisterSource, Fetch, ApplyKustomization, InstallOperator, BecomeHealthy
<1>2. ASSUME NEW l \in Layer, Reconcile(l) PROVE applied'["app"] \in {applied["app"], source.artifact}
  BY <1>2 DEF Reconcile
<1>3. QED
  BY <1>1, <1>2, ClusterGoes DEF cluster

LEMMA OutGoes ==
  ASSUME ScriptOK, [Next]_vars, ~Again
  PROVE  out' = out \/ (Onward /\ at = 10 /\ ~SelfHosted /\ out' = "pinned")
<1>1. CASE Remove \/ Copy \/ Copied \/ RegisterSource \/ ReadRevision \/ Fault
  BY <1>1 DEF Remove, Copy, Copied, RegisterSource, ReadRevision, Fault
<1>2. CASE (\E l \in Layer : ApplyKustomization(l)) \/ (\E p \in Polls : Poll(p)) \/ \E s \in Required : CreateSecret(s)
  BY <1>2 DEF ApplyKustomization, Poll, CreateSecret
<1>3. CASE Fetch \/ (\E l \in Layer : Reconcile(l)) \/ InstallOperator \/ BecomeHealthy \/ UNCHANGED vars
  BY <1>3 DEF Fetch, Reconcile, InstallOperator, BecomeHealthy, vars, script
<1>4. CASE PinHost
  <2>1. at = 10 /\ ~SelfHosted /\ ~Passed
    BY <1>4, Turn DEF PinHost, ScriptOK, Doing
  <2>2. QED
    BY <1>4, <2>1 DEF PinHost, Proceed, Onward
<1>5. QED
  BY <1>1, <1>2, <1>3, <1>4, Cases

LEMMA FirstAttemptKept ==
  ASSUME ScriptOK, RepositoryOK, SourceOK, LayersOK, Lineage, FirstAttempt, [Next]_vars
  PROVE  FirstAttempt'
<1> SUFFICES ASSUME attempt' = 1 PROVE FirstPublishes'
  BY DEF FirstAttempt
<1>1. attempt \in Nat /\ attempt >= 1 /\ at \in 1..17 /\ (SelfHosted => at \in 1..12)
  BY MaxAttemptsAssumption, Turn DEF ScriptOK
<1>2. ~Again /\ attempt = 1 /\ FirstPublishes
  <2>1. ~Again
    BY <1>1 DEF Again
  <2>2. attempt = 1
    BY <2>1, ScriptGoes DEF Onward, Failing, Standing
  <2>3. QED
    BY <2>1, <2>2 DEF FirstAttempt
<1>3. Onward \/ at' = at
  BY <1>2, ScriptGoes DEF Failing, Standing
<1>4. SelfHosted' = SelfHosted
  BY PlacementConstant
<1>5. out' = IF at' > 10 /\ ~SelfHosted' THEN "pinned" ELSE "unpinned"
  BY <1>1, <1>2, <1>3, <1>4, OutGoes, Done DEF FirstPublishes, Onward
<1>6. at' = 17 => applied'["app"] = 2
  <2>1. /\ applied["app"] <= source.artifact /\ source.artifact <= published
        /\ source.artifact \in Nat /\ applied["app"] \in Nat
    BY MaxAttemptsAssumption DEF Lineage, Layer, SourceOK, LayersOK, Revision
  <2>2. SUFFICES ASSUME at' = 17 PROVE applied["app"] = 2 /\ published = 2
    BY <2>1, <2>2, AppliedGoes
  <2>3. at = 17 \/ (at = 16 /\ Onward)
    BY <1>1, <1>3, <2>2 DEF Onward
  <2>4. published = 2 /\ pinned = {2}
    BY <1>2, <2>3 DEF FirstPublishes, Copies
  <2>5. QED
    BY <1>2, <2>3, <2>4, Done DEF FirstPublishes
<1>7. CASE Onward /\ at \in {1, 12}
  <2>1. Remove /\ at' = at + 1
    BY <1>7, Done DEF Onward
  <2>2. served' = 0 /\ published' = published /\ pinned' = pinned
    BY <2>1 DEF Remove
  <2>3. QED
    BY <1>2, <1>5, <1>6, <1>7, <2>1, <2>2 DEF FirstPublishes, Copies
<1>8. CASE Onward /\ at \in {2, 13}
  <2>1. Copy /\ at' = at + 1
    BY <1>8, Done DEF Onward
  <2>2. /\ published' = published + 1 /\ torn' = (served = 0)
        /\ pinned' = IF out = "pinned" THEN pinned \cup {published'} ELSE pinned
    BY <2>1 DEF Copy
  <2>3. served = 0 /\ (at = 2 => published = 0 /\ pinned = {} /\ out = "unpinned")
        /\ (at = 13 => published = 1 /\ pinned = {} /\ out = "pinned")
    BY <1>1, <1>2, <1>8 DEF FirstPublishes, Copies
  <2>4. torn' /\ published' = Copies' /\ pinned' = IF at' > 13 THEN {2} ELSE {}
    <3>1. torn'
      BY <2>2, <2>3
    <3>2. CASE at = 2
      BY <2>1, <2>2, <2>3, <3>1, <3>2 DEF Copies
    <3>3. CASE at = 13
      <4>1. published' = 2 /\ pinned' = {} \cup {published'}
        BY <2>2, <2>3, <3>3
      <4>2. QED
        BY <2>1, <3>1, <3>3, <4>1 DEF Copies
    <3>4. QED
      BY <1>8, <3>2, <3>3
  <2>5. QED
    BY <1>5, <1>6, <1>8, <2>1, <2>4 DEF FirstPublishes
<1>9. CASE Onward /\ at \in {3, 14}
  <2>1. Copied /\ at' = at + 1
    BY <1>9, Done DEF Onward
  <2>2. served' = published /\ published' = published /\ pinned' = pinned
    BY <1>2, <1>9, <2>1 DEF Copied, FirstPublishes
  <2>3. QED
    BY <1>2, <1>5, <1>6, <1>9, <2>1, <2>2 DEF FirstPublishes, Copies
<1>10. CASE Onward /\ at \notin {1, 2, 3, 12, 13, 14}
  <2>1. at' = at + 1
    BY <1>10 DEF Onward
  <2>2. ~Remove /\ ~Copy /\ ~Copied
    BY <1>1, <1>10, Turn DEF Remove, Copy, Copied, ScriptOK
  <2>3. UNCHANGED <<published, pinned, served, torn>>
    BY <2>2, RepositoryGoes DEF repository
  <2>4. QED
    BY <1>1, <1>2, <1>5, <1>6, <1>10, <2>1, <2>3 DEF FirstPublishes, Copies
<1>11. CASE at' = at
  <2>1. ~Remove /\ ~Copy /\ ~Copied
    BY <1>1, <1>11 DEF Remove, Copy, Copied, Proceed
  <2>2. UNCHANGED <<published, pinned, served, torn>>
    BY <2>1, RepositoryGoes DEF repository
  <2>3. QED
    BY <1>1, <1>2, <1>5, <1>6, <1>11, <2>2 DEF FirstPublishes, Copies
<1>12. QED
  BY <1>3, <1>7, <1>8, <1>9, <1>10, <1>11

-----------------------------------------------------------------------------
LEMMA InvariantInit == Init => IInv
<1> SUFFICES ASSUME Init PROVE IInv
  OBVIOUS
<1>1. 0 \in Revision /\ 1 \in 1..MaxAttempts /\ 1 \in 1..(Len(Script) + 1)
  BY MaxAttemptsAssumption, ScriptLength DEF Revision
<1>2. TypeOK
  BY <1>1 DEF Init, TypeOK, Layer
<1>3. Budget /\ Lineage /\ ReadyMeans
  BY DEF Init, Budget, Copies, Lineage, ReadyMeans, Layer
<1>4. Established /\ OperatorFirst /\ FailsOnlyByFault
  BY DEF Init, Established, AppAwaited, WorkloadAwaited, OperatorFirst, FailsOnlyByFault, Layer
<1>5. FirstAttempt
  BY DEF Init, FirstAttempt, FirstPublishes, Copies
<1>6. QED
  BY <1>2, <1>3, <1>4, <1>5 DEF IInv

LEMMA InvariantStep == IInv /\ [Next]_vars => IInv'
<1> SUFFICES ASSUME IInv, [Next]_vars PROVE IInv'
  OBVIOUS
<1>1. /\ ScriptOK /\ FlagsOK /\ MemoryOK /\ RepositoryOK /\ SourceOK /\ LayersOK /\ HealthOK
      /\ Budget /\ Lineage /\ ReadyMeans /\ Established /\ FirstAttempt
      /\ OperatorFirst /\ FailsOnlyByFault
  BY TypeParts DEF IInv
<1>2. /\ ScriptOK' /\ FlagsOK' /\ MemoryOK' /\ RepositoryOK' /\ SourceOK' /\ LayersOK'
      /\ HealthOK' /\ Budget'
  BY <1>1, ScriptKept, FlagsKept, MemoryKept, BudgetKept, SourceKept, LayersKept, HealthKept
<1>3. TypeOK'
  BY <1>2 DEF TypeOK, ScriptOK, FlagsOK, MemoryOK, RepositoryOK, SourceOK, LayersOK, HealthOK
<1>4. Lineage' /\ ReadyMeans' /\ Established' /\ FirstAttempt'
  BY <1>1, LineageKept, ReadyMeansKept, EstablishedKept, FirstAttemptKept
<1>5. OperatorFirst' /\ FailsOnlyByFault'
  BY <1>1, OperatorFirstKept, FailsOnlyByFaultKept
<1>6. QED
  BY <1>2, <1>3, <1>4, <1>5 DEF IInv

LEMMA Invariance == Spec => []IInv
  BY InvariantInit, InvariantStep, PTL DEF Spec

\* Every variable keeps its type: a script never leaves its steps, and it takes no more
\* than two revisions for a delivery.
THEOREM DeliveryTypeCorrect == Spec => []TypeOK
  BY Invariance, PTL DEF IInv

\* However often the stack is delivered to one cluster, and whatever commands fail, the
\* Cluster object never gets there before the operator (flux.go:476-487).
THEOREM OperatorServesFirst == Spec => []OperatorFirst
  BY Invariance, PTL DEF IInv

\* No script fails through its own order, also one that starts on what the last one left
\* (deliver.sh:63-78, pin-managed.sh:21).
THEOREM OnlyFaultsFail == Spec => []FailsOnlyByFault
  BY Invariance, PTL DEF IInv

\* The first delivery to a cluster that passes has delivered what it published last, both
\* publishes of the managed scenario included (deliver.sh:80, pin-managed.sh:44-48).
THEOREM FirstDeliveryDelivers == Spec => []PassedMeansDelivered
<1>1. IInv => PassedMeansDelivered
  <2> SUFFICES ASSUME IInv, Passed, attempt = 1
               PROVE  workload /\ served = published /\ applied["app"] = published
    BY DEF PassedMeansDelivered
  <2>1. ScriptOK /\ SourceOK /\ LayersOK /\ Lineage /\ Established /\ FirstPublishes
    BY TypeParts DEF IInv, FirstAttempt
  <2>2. at = IF SelfHosted THEN 12 ELSE 17
    BY <2>1, Turn DEF ScriptOK
  <2>3. workload /\ served = published /\ applied["app"] # 0
    BY <2>1, <2>2 DEF Established, AppAwaited, WorkloadAwaited, FirstPublishes
  <2>4. CASE SelfHosted
    <3>1. published = 1
      BY <2>1, <2>2, <2>4 DEF FirstPublishes, Copies
    <3>2. applied["app"] \in Nat /\ source.artifact \in Nat /\ applied["app"] <= source.artifact
      BY <2>1, MaxAttemptsAssumption DEF LayersOK, SourceOK, Lineage, Layer, Revision
    <3>3. QED
      BY <2>1, <2>3, <3>1, <3>2 DEF Lineage
  <2>5. CASE ~SelfHosted
    BY <2>1, <2>2, <2>3, <2>5 DEF FirstPublishes, Copies
  <2>6. QED
    BY <2>4, <2>5
<1>2. QED
  BY <1>1, Invariance, PTL
=============================================================================
