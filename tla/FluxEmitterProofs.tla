-------------------------- MODULE FluxEmitterProofs --------------------------
(***************************************************************************)
(* For every set of documents: the emitter's checks "this is a defect" are *)
(* dead code behind Stack.Validate, and a managed component reaches the    *)
(* emit functions only as Validate lets it through.                        *)
(***************************************************************************)
EXTENDS FluxEmitter, TLAPS

\* Once Compile has validated the document, it stays valid.
PastValidate == pc \notin {"load", "validate", "refused"}
Valid == PastValidate => Validate(doc) = {}
IInv == TypeOK /\ Valid /\ NoDefectReached

\* The kinds of error are disjoint by their first component.
LEMMA WhenKind ==
  ASSUME NEW cond, NEW kind, kind # "defect", NEW name
  PROVE  \A e \in When(cond, kind, name) : e[1] # "defect"
  BY DEF When

LEMMA LoadKinds == ASSUME NEW d PROVE \A e \in LoadErrors(d) : e[1] # "defect"
<1> DEFINE components == {<<"component", c.name>> : c \in {x \in Elements(d.components) : ComponentLoadErrors(x)}}
<1>1. \A e \in When(~d.apiVersion, "apiVersion", NoName) \cup When(~d.kind, "kind", NoName) : e[1] # "defect"
  BY DEF When
<1>2. \A e \in components : e[1] # "defect"
  OBVIOUS
<1>3. \A e \in {<<"parse", NoName>>} : e[1] # "defect"
  OBVIOUS
<1>4. QED
  BY <1>1, <1>2, <1>3, Zenon DEF LoadErrors

LEMMA PostgresKinds == ASSUME NEW pg \in Postgres PROVE \A e \in PostgresErrors(pg) : e[1] # "defect"
<1>1. EndpointHostError(pg) \in {"ok", "onlyManaged", "isURL", "hasPort", "notNeon"}
  BY DEF EndpointHostError, Postgres, EndpointHost, HostForm
<1>2. SUFFICES ASSUME NEW e \in PostgresErrors(pg)
               PROVE  \E kind \in {"nameRequired", "placementRequired", "unknownPlacement", "credentialsRequired",
                                   "backupToRequired", "managedMTLS", "managedRPO", "consumersWithoutMTLS",
                                   "serviceAccountRequired", "onlyManaged", "isURL", "hasPort", "notNeon",
                                   "unpinnedConsumers"} : e = <<kind, pg.name>>
  OBVIOUS
<1>3. QED
  BY <1>1 DEF PostgresErrors, GuaranteeErrors, ManagedGuaranteeErrors, When

LEMMA ExternalKinds == ASSUME NEW x PROVE \A e \in ExternalErrors(x) : e[1] # "defect"
  BY DEF ExternalErrors, When

LEMMA ValidateKinds == ASSUME NEW d \in Document PROVE \A e \in Validate(d) : e[1] # "defect"
<1>1. \A c \in Elements(d.components) : c \in Postgres
  BY DEF Document, Elements, Indices
<1>2. \A e \in UNION {PostgresErrors(c) : c \in Elements(d.components)} : e[1] # "defect"
  BY <1>1, PostgresKinds
<1>3. \A e \in UNION {ExternalErrors(x) : x \in Elements(d.externals)} : e[1] # "defect"
  BY ExternalKinds
<1>4. \A e \in When(d.name = NoName, "stackNameRequired", NoName)
               \cup When(d.components = <<>>, "noComponent", NoName) : e[1] # "defect"
  BY DEF When
<1>5. \A e \in {<<"duplicateComponent", n>> : n \in Repeated(d.components)}
               \cup {<<"duplicateExternal", n>> : n \in Repeated(d.externals)}
               \cup {<<"undeclaredExternal", c.name>> : c \in UndeclaredRefs(d)} : e[1] # "defect"
  OBVIOUS
<1>6. QED
  BY <1>2, <1>3, <1>4, <1>5, Zenon DEF Validate

-----------------------------------------------------------------------------
(* What validation gives the emitter                                       *)

\* domain/postgres.go: a valid document places every component, and pins the
\* endpoint of a managed one that declares consumers.
LEMMA ValidComponents ==
  ASSUME NEW d \in Document, Validate(d) = {}, NEW c \in Elements(d.components)
  PROVE  /\ c \in Postgres
         /\ c.placement \in {SelfHosted, Managed}
         /\ c.placement = Managed => /\ ~c.mtls
                                     /\ ~c.rpo.declared
                                     /\ c.allowedConsumers # {} => c.endpointHost.form # "none"
<1>1. c \in Postgres
  BY DEF Document, Elements, Indices
<1>2. PostgresErrors(c) = {}
  BY DEF Validate
<1>3. QED
  BY <1>1, <1>2 DEF PostgresErrors, GuaranteeErrors, ManagedGuaranteeErrors, When, Postgres, SelfHosted, Managed

\* domain/stack.go: a valid document's RPO names an external it declares, with a
\* store.
LEMMA ValidReferences ==
  ASSUME NEW d \in Document, Validate(d) = {}, NEW c \in Elements(d.components), c.rpo.declared
  PROVE  \E x \in Elements(d.externals) : x.name = c.rpo.backupTo
<1>1. c.rpo.backupTo # NoName
  <2>1. PostgresErrors(c) = {}
    BY DEF Validate
  <2>2. QED
    BY <2>1 DEF PostgresErrors, GuaranteeErrors, ManagedGuaranteeErrors, When
<1>2. UndeclaredRefs(d) = {}
  <2>1. {<<"undeclaredExternal", x.name>> : x \in UndeclaredRefs(d)} = {}
    BY DEF Validate
  <2>2. QED
    BY <2>1
<1>3. c.rpo.backupTo \in DeclaredExternals(d)
  BY <1>1, <1>2 DEF UndeclaredRefs, ExternalRefs
<1>4. QED
  BY <1>3 DEF DeclaredExternals

LEMMA ValidExternals ==
  ASSUME NEW d \in Document, Validate(d) = {}, NEW x \in Elements(d.externals)
  PROVE  x.objectStore.declared
<1>1. ExternalErrors(x) = {}
  BY DEF Validate
<1>2. QED
  BY <1>1 DEF ExternalErrors

\* So every lookup of the emitter finds its external, and a store in it.
LEMMA Resolved ==
  ASSUME IInv, PastValidate, NEW c \in Elements(doc.components), c.rpo.declared
  PROVE  Resolves(c.rpo.backupTo) /\ externalsByName(c.rpo.backupTo).objectStore.declared
<1>1. doc \in Document /\ Validate(doc) = {}
  BY DocumentsAssumption DEF IInv, TypeOK, Valid
<1>2. PICK x \in Elements(doc.externals) : x.name = c.rpo.backupTo
  BY <1>1, ValidReferences
<1>3. externalsByName(c.rpo.backupTo) \in Elements(doc.externals)
  BY <1>2 DEF externalsByName
<1>4. QED
  BY <1>1, <1>2, <1>3, ValidExternals DEF Resolves

LEMMA PartMembers ==
  ASSUME IInv
  PROVE  /\ \A k \in Indices(selfHosted) : selfHosted[k] \in Elements(doc.components)
         /\ \A k \in Indices(managed) : managed[k] \in Elements(doc.components) /\ managed[k].placement = Managed
  BY DEF IInv, TypeOK, OfPlacement, Indices

-----------------------------------------------------------------------------
(* The invariant                                                           *)

\* A refusal whose report holds no defect keeps the invariant.
LEMMA RefuseKeeps ==
  ASSUME IInv, NEW report, Refuse(report), \A e \in report : e[1] # "defect"
  PROVE  IInv'
  BY DEF IInv, TypeOK, OfPlacement, Valid, PastValidate, NoDefectReached, Refuse, Goto, Calls, Ended

\* So does a call past validation that goes on to another.
Onward == Calls \cup {"done"}
LEMMA EmittedKeeps ==
  ASSUME IInv, PastValidate, NEW next \in Onward, NEW result, Emitted(result, next)
  PROVE  IInv'
  BY DEF IInv, TypeOK, OfPlacement, Valid, PastValidate, NoDefectReached, Emitted, Goto, Calls, Ended, Onward

LEMMA TurnKeeps ==
  ASSUME IInv, PastValidate, NEW result, Turn(result),
         conditionals' \in Seq({Notice(c) : c \in Elements(doc.components)})
  PROVE  IInv'
  BY DEF IInv, TypeOK, OfPlacement, Valid, PastValidate, NoDefectReached, Turn, Calls, Ended

LEMMA EndLoopKeeps ==
  ASSUME IInv, NEW at, NEW over, NEW next \in Onward, PastValidate, EndLoop(at, over, next)
  PROVE  IInv'
  BY DEF IInv, TypeOK, OfPlacement, Valid, PastValidate, NoDefectReached, EndLoop, Goto, Calls, Ended, Onward

\* No check of the emitter that calls itself a defect finds one.
LEMMA NoPartitionDefect ==
  ASSUME IInv, PastValidate
  PROVE  \A e \in PartitionErrors : e[1] # "defect"
<1>1. doc \in Document /\ Validate(doc) = {}
  BY DocumentsAssumption DEF IInv, TypeOK, Valid
<1>2. \A c \in Elements(doc.components) : c.placement \in {SelfHosted, Managed}
  BY <1>1, ValidComponents
<1>3. QED
  BY <1>2 DEF PartitionErrors

LEMMA NoSelfHostedDefect ==
  ASSUME IInv, PastValidate, NEW k \in Indices(selfHosted)
  PROVE  ~SelfHostedError(selfHosted[k])
  BY PartMembers, Resolved DEF SelfHostedError

LEMMA NoTargetDefect ==
  ASSUME IInv, PastValidate
  PROVE  \A e \in TargetErrors : e[1] # "defect"
<1>1. ASSUME NEW k \in Indices(selfHosted), selfHosted[k].rpo.declared
      PROVE  LET name == selfHosted[k].rpo.backupTo
             IN  Resolves(name) /\ externalsByName(name).objectStore.declared
  BY <1>1, PartMembers, Resolved
<1>2. QED
  BY <1>1 DEF TargetErrors, When

LEMMA NoNeonDefect ==
  ASSUME IInv, PastValidate, NEW k \in Indices(managed)
  PROVE  ~(neonTarget(managed[k]) /\ managed[k].endpointHost.form = "none")
<1>1. doc \in Document /\ Validate(doc) = {}
  BY DocumentsAssumption DEF IInv, TypeOK, Valid
<1>2. QED
  BY <1>1, PartMembers, ValidComponents DEF neonTarget

LEMMA InvariantInit == Init => IInv
  BY DocumentsAssumption DEF Init, IInv, TypeOK, OfPlacement, Valid, PastValidate, NoDefectReached, Calls

LEMMA InvariantStep == IInv /\ [Next]_vars => IInv'
<1> SUFFICES ASSUME IInv, [Next]_vars PROVE IInv'
  OBVIOUS
<1>1. CASE Load
  <2>1. CASE LoadErrors(doc) # {}
    BY <1>1, <2>1, LoadKinds, RefuseKeeps DEF Load
  <2>2. CASE LoadErrors(doc) = {}
    BY <1>1, <2>2 DEF Load, IInv, TypeOK, OfPlacement, Valid, PastValidate, NoDefectReached, Emitted, Goto, Calls
  <2>3. QED
    BY <2>1, <2>2
<1>2. CASE Compile
  <2>1. CASE Validate(doc) # {}
    <3>1. doc \in Document
      BY DocumentsAssumption DEF IInv, TypeOK
    <3>2. QED
      BY <1>2, <2>1, <3>1, ValidateKinds, RefuseKeeps DEF Compile
  <2>2. CASE Validate(doc) = {}
    BY <1>2, <2>2 DEF Compile, IInv, TypeOK, OfPlacement, Valid, PastValidate, NoDefectReached, Emitted, Goto, Calls
  <2>3. QED
    BY <2>1, <2>2
<1>3. CASE PartitionComponents
  <2> DEFINE c == doc.components[i]
  <2>1. c \in Elements(doc.components)
    <3>1. doc.components \in Seq(Postgres)
      BY DocumentsAssumption DEF IInv, TypeOK, Document
    <3>2. i \in Nat \ {0} /\ i <= Len(doc.components)
      BY <1>3 DEF PartitionComponents, IInv, TypeOK
    <3>3. i \in Indices(doc.components)
      BY <3>1, <3>2 DEF Indices
    <3>4. QED
      BY <3>3 DEF Elements
  <2>2. selfHosted' \in Seq(OfPlacement(SelfHosted)) /\ managed' \in Seq(OfPlacement(Managed))
    <3>1. c.placement = SelfHosted => Append(selfHosted, c) \in Seq(OfPlacement(SelfHosted))
      BY <2>1 DEF IInv, TypeOK, OfPlacement
    <3>2. c.placement = Managed => Append(managed, c) \in Seq(OfPlacement(Managed))
      BY <2>1 DEF IInv, TypeOK, OfPlacement
    <3>3. QED
      BY <1>3, <3>1, <3>2 DEF PartitionComponents, Joins, IInv, TypeOK, OfPlacement
  <2>3. UNCHANGED <<doc, pc, errs, conditionals>> /\ i' = i + 1
    BY <1>3 DEF PartitionComponents
  <2>4. QED
    BY <2>2, <2>3 DEF IInv, TypeOK, OfPlacement, Valid, PastValidate, NoDefectReached
<1>4. CASE Partitioned
  <2>1. PastValidate
    BY <1>4 DEF Partitioned, PastValidate
  <2>2. "operator" \in Onward
    BY DEF Onward, Calls
  <2>3. QED
    BY <1>4, <2>1, <2>2, NoPartitionDefect, RefuseKeeps, EmittedKeeps DEF Partitioned
<1>5. CASE CNPGOperator \/ AppNamespace \/ ManagedRunnerRBAC \/ ControlPlaneEgress \/ RunnerControlPlane \/ AppKustomization
  <2>1. PastValidate /\ \E result : \E next \in Onward : Emitted(result, next)
    BY <1>5 DEF CNPGOperator, AppNamespace, ManagedRunnerRBAC, ControlPlaneEgress, RunnerControlPlane,
                AppKustomization, PastValidate, Onward, Calls
  <2>2. QED
    BY <2>1, EmittedKeeps
<1>6. CASE SelfHostedPostgres
  <2>1. PastValidate /\ i \in Indices(selfHosted)
    BY <1>6 DEF SelfHostedPostgres, PastValidate, IInv, TypeOK, Indices
  <2>2. /\ \E result : Turn(result)
        /\ conditionals' = conditionals \o Conditional(selfHosted[i])
    BY <1>6, <2>1, NoSelfHostedDefect DEF SelfHostedPostgres
  <2>3. Conditional(selfHosted[i]) \in Seq({Notice(c) : c \in Elements(doc.components)})
    <3>1. Notice(selfHosted[i]) \in {Notice(c) : c \in Elements(doc.components)}
      BY <2>1, PartMembers
    <3>2. \A S : \A n \in S : <<n>> \in Seq(S) /\ <<>> \in Seq(S)
      OBVIOUS
    <3>3. QED
      BY <3>1, <3>2 DEF Conditional
  <2>4. conditionals' \in Seq({Notice(c) : c \in Elements(doc.components)})
    BY <2>2, <2>3 DEF IInv, TypeOK
  <2>5. QED
    BY <2>1, <2>2, <2>4, TurnKeeps
<1>7. CASE ManagedPostgres \/ BackupEgress \/ CNPGControlPlane \/ DeclaredEgress
  <2>1. PastValidate /\ conditionals' = conditionals /\ \E result : Turn(result)
    BY <1>7 DEF ManagedPostgres, BackupEgress, CNPGControlPlane, DeclaredEgress, PastValidate
  <2>2. QED
    BY <2>1, TurnKeeps DEF IInv, TypeOK
<1>8. CASE EgressTargets
  <2>1. PastValidate
    BY <1>8 DEF EgressTargets, PastValidate
  <2>2. CASE TargetErrors # {}
    BY <1>8, <2>1, <2>2, NoTargetDefect, RefuseKeeps DEF EgressTargets
  <2>3. CASE TargetErrors = {}
    <3>1. \E result : \E next \in Onward : Emitted(result, next)
      BY <1>8, <2>3 DEF EgressTargets, Onward, Calls
    <3>2. QED
      BY <2>1, <3>1, EmittedKeeps
  <2>4. QED
    BY <2>2, <2>3
<1>9. CASE NeonEgress
  <2>1. PastValidate /\ i \in Indices(managed)
    BY <1>9 DEF NeonEgress, PastValidate, IInv, TypeOK, Indices
  <2>2. conditionals' = conditionals /\ \E result : Turn(result)
    BY <1>9, <2>1, NoNeonDefect DEF NeonEgress
  <2>3. QED
    BY <2>1, <2>2, TurnKeeps DEF IInv, TypeOK
<1>10. CASE Floor
  <2>1. PastValidate /\ \E result : \E next \in Onward : Emitted(result, next)
    BY <1>10 DEF Floor, PastValidate, Onward, Calls
  <2>2. QED
    BY <2>1, EmittedKeeps
<1>11. CASE EndOfLoops
  <2>1. \E at : \E over : \E next \in Onward : PastValidate /\ EndLoop(at, over, next)
    BY <1>11 DEF EndOfLoops, EndLoop, PastValidate, Onward, Calls
  <2>2. QED
    BY <2>1, EndLoopKeeps
<1>12. CASE Exited \/ UNCHANGED vars
  BY <1>12 DEF Exited, vars, IInv, TypeOK, OfPlacement, Valid, PastValidate, NoDefectReached
<1>13. QED
  BY <1>1, <1>2, <1>3, <1>4, <1>5, <1>6, <1>7, <1>8, <1>9, <1>10, <1>11, <1>12 DEF Next

\* Every variable keeps its type: Emit's partition never moves a component to the
\* other side, and no notice is about something the document does not declare.
THEOREM EmitterTypeCorrect == Spec => []TypeOK
<1>1. IInv => TypeOK
  BY DEF IInv
<1>2. QED
  BY <1>1, InvariantInit, InvariantStep, PTL DEF Spec

\* flux.go, egress.go, durability.go: the six checks that call themselves a
\* defect are unreachable, for every document the loader can produce.
THEOREM EmitterDefectsUnreachable == Spec => []NoDefectReached
<1>1. IInv => NoDefectReached
  BY DEF IInv
<1>2. QED
  BY <1>1, InvariantInit, InvariantStep, PTL DEF Spec
=============================================================================
