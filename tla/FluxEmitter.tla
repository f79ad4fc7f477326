----------------------------- MODULE FluxEmitter -----------------------------
(***************************************************************************)
(* One compile, from the document to the Manifests: yaml.Loader.Load, then *)
(* Compiler.Compile, which validates and drives flux.Emit.  Emit is a      *)
(* sequence of emit calls on one file map; each is an action here, in the  *)
(* order of the code, and each loop of the code steps through `i`.         *)
(***************************************************************************)
EXTENDS Manifests

CONSTANT Documents        \* the documents the compiler may be given

ASSUME DocumentsAssumption == Documents \subseteq Document

VARIABLES
    doc,                  \* the document, never changed
    pc,                   \* the next call, or how the compile ended
    i,                    \* the index of the loop pc is in
    selfHosted, managed,  \* Emit's partition of the components
    files,                \* the map of path to object being built
    conditionals,         \* the CONDITIONAL notices, in order
    errs                  \* the report of a compile that did not succeed

vars == <<doc, pc, i, selfHosted, managed, files, conditionals, errs>>

Calls == {"load", "validate", "partition", "operator", "namespace", "rbac", "selfHosted",
          "managed", "targets", "backupEgress", "neonEgress", "controlPlane", "floor",
          "cnpgControlPlane", "runnerControlPlane", "declaredEgress", "kustomization"}
Ended == {"done", "refused"}

stackName == doc.name

Init ==
    /\ doc \in Documents
    /\ pc = "load"
    /\ i = 1
    /\ selfHosted = <<>>
    /\ managed = <<>>
    /\ files = NoFiles
    /\ conditionals = <<>>
    /\ errs = {}

-----------------------------------------------------------------------------
(* What Emit derives from the declaration                                  *)

externalsByName(name) == CHOOSE e \in Elements(doc.externals) : e.name = name
Resolves(name) == name \in {e.name : e \in Elements(doc.externals)}

\* neonEgressTargets: the managed components that declare consumers.
neonTarget(pg) == pg.allowedConsumers # {}

mtlsEnabled == \E pg \in Elements(selfHosted) : pg.mtls
egressNeeded_byConsumers ==
    (\E pg \in Elements(managed) : neonTarget(pg)) \/ \E pg \in Elements(selfHosted) : pg.rpo.declared
egressNeeded == managed # <<>> \/ \E pg \in Elements(selfHosted) : pg.rpo.declared
appMeshEnabled == mtlsEnabled \/ egressNeeded

meshBackupTarget_byHost(k) ==
    LET host(j) == externalsByName(selfHosted[j].rpo.backupTo).objectStore.host
    IN  /\ FirstUse(selfHosted, k)
        /\ ~ClusterLocal(host(k))
        /\ \A j \in 1 .. k - 1 : selfHosted[j].rpo.declared => host(j) # host(k)
meshBackupTarget(k) ==
    /\ FirstUse(selfHosted, k)
    /\ ~ClusterLocal(externalsByName(selfHosted[k].rpo.backupTo).objectStore.host)

\* emitEgress emits nothing, and no waypoint, when no edge leaves the cluster.
waypointPresent ==
    \/ \E k \in Indices(selfHosted) : meshBackupTarget(k)
    \/ \E pg \in Elements(managed) : neonTarget(pg)
    \/ managed # <<>>

checkRPOSatisfiable(pg) == ~(pg.rpo.declared /\ pg.rpo.target = "under5m")

\* The errors of Emit's first loop; "defect" is the code's word for an error
\* that domain validation should have made impossible.
PartitionErrors ==
    {<<"rpoTooShort", c.name>> : c \in {d \in Elements(doc.components) : ~checkRPOSatisfiable(d)}}
    \cup {<<"defect", c.name>> :
            c \in {d \in Elements(doc.components) :
                     checkRPOSatisfiable(d) /\ d.placement \notin {SelfHosted, Managed}}}

\* emitSelfHostedPostgres: an unresolved reference, or an external with no store.
SelfHostedError(pg) ==
    /\ pg.rpo.declared
    /\ \/ ~Resolves(pg.rpo.backupTo)
       \/ ~externalsByName(pg.rpo.backupTo).objectStore.declared

\* objectStoreHostPort, for each external a component refers to.
TargetErrors ==
    UNION {LET name == selfHosted[k].rpo.backupTo
               store == externalsByName(name).objectStore
           IN  IF ~Resolves(name) \/ ~store.declared THEN {<<"defect", name>>}
               ELSE When(store.host = <<>> \/ store.port = 0, "noHostPort", name) :
           k \in {j \in Indices(selfHosted) : selfHosted[j].rpo.declared}}

-----------------------------------------------------------------------------
(* Ways to go on                                                           *)

Goto(next) == pc' = next /\ i' = 1

\* An error ends the compile and returns the zero Manifests.
Refuse(report) ==
    /\ Goto("refused")
    /\ errs' = report
    /\ files' = NoFiles
    /\ conditionals' = <<>>
    /\ UNCHANGED <<doc, selfHosted, managed>>

\* The call at pc turned the file map into `result`.
Emitted(result, next) ==
    /\ files' = result
    /\ Goto(next)
    /\ UNCHANGED <<doc, selfHosted, managed, conditionals, errs>>

\* One turn of the loop at pc.
Turn(result) ==
    /\ files' = result
    /\ i' = i + 1
    /\ UNCHANGED <<doc, pc, selfHosted, managed, errs>>

EndLoop(at, over, next) ==
    /\ pc = at
    /\ i > Len(over)
    /\ Goto(next)
    /\ UNCHANGED <<doc, selfHosted, managed, files, conditionals, errs>>

-----------------------------------------------------------------------------
(* The calls                                                               *)

Load ==
    /\ pc = "load"
    /\ IF LoadErrors(doc) # {}
       THEN Refuse(LoadErrors(doc))
       ELSE Emitted(files, "validate")

Compile ==
    /\ pc = "validate"
    /\ IF Validate(doc) # {}
       THEN Refuse(Validate(doc))
       ELSE Emitted(files, "partition")

Joins_rpoOnly(c, placement) == checkRPOSatisfiable(c)
Joins(c, placement) == checkRPOSatisfiable(c) /\ c.placement = placement

PartitionComponents ==
    /\ pc = "partition"
    /\ i <= Len(doc.components)
    /\ LET c == doc.components[i]
       IN  /\ selfHosted' = IF Joins(c, SelfHosted) THEN Append(selfHosted, c) ELSE selfHosted
           /\ managed' = IF Joins(c, Managed) THEN Append(managed, c) ELSE managed
    /\ i' = i + 1
    /\ UNCHANGED <<doc, pc, files, conditionals, errs>>

Partitioned ==
    /\ pc = "partition"
    /\ i > Len(doc.components)
    /\ IF PartitionErrors # {}
       THEN Refuse(PartitionErrors)
       ELSE Emitted(files, "operator")

CNPGOperator ==
    /\ pc = "operator"
    /\ Emitted(IF selfHosted # <<>> THEN EmitCNPGOperator(files, mtlsEnabled) ELSE files, "namespace")

AppNamespace ==
    /\ pc = "namespace"
    /\ Emitted(EmitAppNamespace(files, stackName, appMeshEnabled), "rbac")

ManagedRunnerRBAC ==
    /\ pc = "rbac"
    /\ Emitted(IF managed # <<>> THEN EmitManagedRunnerRBAC(files, stackName) ELSE files, "selfHosted")

\* The notice repeats, for whoever ran the compile, the annotation on the
\* Cluster and the ScheduledBackup.
Notice(pg) == [component |-> pg.name, external |-> pg.rpo.backupTo]
Conditional(pg) == IF pg.rpo.declared THEN <<Notice(pg)>> ELSE <<>>

SelfHostedPostgres ==
    /\ pc = "selfHosted"
    /\ i <= Len(selfHosted)
    /\ LET pg == selfHosted[i]
       IN  IF SelfHostedError(pg)
           THEN Refuse({<<"defect", pg.name>>})
           ELSE /\ Turn(EmitSelfHostedPostgres(files, stackName, pg, externalsByName(pg.rpo.backupTo)))
                /\ conditionals' = conditionals \o Conditional(pg)

ManagedPostgres ==
    /\ pc = "managed"
    /\ i <= Len(managed)
    /\ Turn(EmitManagedPostgres(files, stackName, managed[i]))
    /\ UNCHANGED conditionals

\* emitEgress up to the waypoint.
EgressTargets ==
    /\ pc = "targets"
    /\ IF TargetErrors # {}
       THEN Refuse(TargetErrors)
       ELSE IF waypointPresent
            THEN Emitted(EmitWaypoint(files, stackName), "backupEgress")
            ELSE Emitted(files, "floor")

BackupEgress ==
    /\ pc = "backupEgress"
    /\ i <= Len(selfHosted)
    /\ LET name == selfHosted[i].rpo.backupTo
       IN  Turn(IF meshBackupTarget(i)
                THEN EmitBackupEgress(files, stackName, externalsByName(name), Consumers(selfHosted, name))
                ELSE files)
    /\ UNCHANGED conditionals

NeonEgress ==
    /\ pc = "neonEgress"
    /\ i <= Len(managed)
    /\ IF neonTarget(managed[i]) /\ managed[i].endpointHost.form = "none"
       THEN Refuse({<<"defect", managed[i].name>>})
       ELSE /\ Turn(IF neonTarget(managed[i]) THEN EmitNeonEgress(files, stackName, managed[i]) ELSE files)
            /\ UNCHANGED conditionals

ControlPlaneEgress ==
    /\ pc = "controlPlane"
    /\ Emitted(IF managed # <<>> THEN EmitNeonControlPlaneEgress(files, stackName) ELSE files, "floor")

\* emitNetworkPolicies up to its first loop.
Floor ==
    /\ pc = "floor"
    /\ IF ~appMeshEnabled
       THEN Emitted(files, "kustomization")
       ELSE LET base == EmitAllowClusterEgress(EmitDefaultDenyEgress(files, stackName), stackName)
            IN  Emitted(IF waypointPresent THEN EmitAllowWaypointEgress(base, stackName) ELSE base,
                        "cnpgControlPlane")

CNPGControlPlane ==
    /\ pc = "cnpgControlPlane"
    /\ i <= Len(selfHosted)
    /\ Turn(EmitCNPGControlPlaneEgress(files, stackName, selfHosted[i]))
    /\ UNCHANGED conditionals

RunnerControlPlane ==
    /\ pc = "runnerControlPlane"
    /\ Emitted(IF managed # <<>> THEN EmitManagedControlPlaneEgress(files, stackName) ELSE files, "declaredEgress")

DeclaredEgress ==
    /\ pc = "declaredEgress"
    /\ i <= Len(selfHosted)
    /\ LET name == selfHosted[i].rpo.backupTo
       IN  Turn(IF FirstUse(selfHosted, i)
                THEN EmitDeclaredExternalEgress(files, stackName, externalsByName(name), Consumers(selfHosted, name))
                ELSE files)
    /\ UNCHANGED conditionals

AppKustomization_meshOnly ==
    /\ pc = "kustomization"
    /\ Emitted(EmitAppKustomization(files, stackName, mtlsEnabled), "done")
AppKustomization ==
    /\ pc = "kustomization"
    /\ Emitted(EmitAppKustomization(files, stackName, selfHosted # <<>>), "done")

EndOfLoops ==
    \/ EndLoop("selfHosted", selfHosted, "managed")
    \/ EndLoop("managed", managed, "targets")
    \/ EndLoop("backupEgress", selfHosted, "neonEgress")
    \/ EndLoop("neonEgress", managed, "controlPlane")
    \/ EndLoop("cnpgControlPlane", selfHosted, "runnerControlPlane")
    \/ EndLoop("declaredEgress", selfHosted, "kustomization")

\* The process has printed its summary or its report and exited.
Exited == pc \in Ended /\ UNCHANGED vars

Next ==
    \/ Load
    \/ Compile
    \/ PartitionComponents
    \/ Partitioned
    \/ CNPGOperator
    \/ AppNamespace
    \/ ManagedRunnerRBAC
    \/ SelfHostedPostgres
    \/ ManagedPostgres
    \/ EgressTargets
    \/ BackupEgress
    \/ NeonEgress
    \/ ControlPlaneEgress
    \/ Floor
    \/ CNPGControlPlane
    \/ RunnerControlPlane
    \/ DeclaredEgress
    \/ AppKustomization
    \/ EndOfLoops
    \/ Exited

Spec == Init /\ [][Next]_vars

-----------------------------------------------------------------------------
(* Properties                                                              *)

Objects == {files[p] : p \in DOMAIN files}
OfKind(kind) == {o \in Objects : o.kind = kind}

\* The type invariant; the partition keeps every component on the side of its
\* placement, and a notice is about a component of the document.
OfPlacement(placement) == {c \in Elements(doc.components) : c.placement = placement}
TypeOK ==
    /\ doc \in Document
    /\ pc \in Calls \cup Ended
    /\ i \in Nat \ {0}
    /\ selfHosted \in Seq(OfPlacement(SelfHosted))
    /\ managed \in Seq(OfPlacement(Managed))
    /\ conditionals \in Seq({Notice(c) : c \in Elements(doc.components)})
    /\ pc # "refused" => errs = {}

\* "This is a defect": six checks of the emitter repeat what Validate must
\* already have refused, each with that comment (flux.go:106, 269, egress.go:264,
\* 300, 520, durability.go:125).  No document reaches one of them.
NoDefectReached == \A e \in errs : e[1] # "defect"

\* guarantees.go:9: a declared guarantee ships or the compile refuses; there is
\* no best-effort tier.  Of a compile that succeeds, whatever the placement: mtls has
\* its policy, an RPO its schedule and its archive, a consumer a policy that names it.
GuaranteesHonoured ==
    pc = "done" =>
      \A c \in Elements(doc.components) :
        LET about(kind) == {o \in OfKind(kind) : o.name = c.name}
        IN  /\ c.mtls => \E ap \in about("AuthorizationPolicy") : ap.spec.selects = c.name
            /\ c.rpo.declared =>
                 /\ about("ScheduledBackup") # {}
                 /\ \E k \in about("Cluster") : k.spec.backup = {c.rpo.backupTo}
            /\ \A consumer \in c.allowedConsumers :
                 \E ap \in OfKind("AuthorizationPolicy") : \E r \in ap.spec.rules :
                   Principal(stackName, consumer) \in r.principals

\* ports/emitter.go: a guarantee that crosses the trust boundary compiles
\* labelled, never silently.  Once the compile succeeds, the notices printed name
\* exactly the components whose Cluster archives to an external, each once; each such
\* Cluster and its ScheduledBackup carry the annotation, and no other does.
ConditionalNeverSilent ==
    pc = "done" =>
      LET noticed == {conditionals[n].component : n \in Indices(conditionals)}
          archived == {o.name : o \in {c \in OfKind("Cluster") : c.spec.backup # {}}}
      IN  /\ noticed = archived
          /\ \A m, n \in Indices(conditionals) : conditionals[m].component = conditionals[n].component => m = n
          /\ noticed = {o.name : o \in {c \in OfKind("Cluster") : c.spec.conditional}}
          /\ noticed = {o.spec.cluster : o \in {b \in OfKind("ScheduledBackup") : b.spec.conditional}}

\* The file map is written once per path: no `set` replaces an object by a
\* different one (flux.go:617 would not notice).
NoOverwrite == [][pc' # "refused" => \A p \in DOMAIN files : files'[p] = files[p]]_vars

\* The cluster has one object per kind, namespace and name: two files that
\* declare the same identity would be applied over one another.
UniqueIdentities ==
    \A p, q \in DOMAIN files :
      (/\ files[p].kind = files[q].kind
       /\ files[p].ns = files[q].ns
       /\ files[p].name = files[q].name) => p = q

\* Nothing dangles (golden rule 24): a ServiceEntry bound to the waypoint
\* has the waypoint, the ambient namespace that redirects into it and the floor
\* that lets its pods out; the floor's waypoint policy has a waypoint; a
\* policy's target exists.
MeshComplete ==
    pc = "done" =>
      LET names(kind) == {o.name : o \in OfKind(kind)}
          ambient == {o.name : o \in {n \in OfKind("Namespace") : n.spec.ambient}}
      IN  /\ OfKind("ServiceEntry") # {} <=> Waypoint \in names("Gateway")
          /\ Waypoint \in names("Gateway") <=> <<"allow", "waypoint", "egress">> \in names("NetworkPolicy")
          /\ \A ap \in OfKind("AuthorizationPolicy") :
               ap.spec.targetRef = NoName \/ ap.spec.targetRef \in names("ServiceEntry")
          /\ stackName \in ambient <=> <<"default", "deny", "egress">> \in names("NetworkPolicy")
          /\ OfKind("ServiceEntry") # {} => stackName \in ambient
          /\ OfKind("PeerAuthentication") # {} => {stackName, CnpgSystem} \subseteq ambient

\* The ordering that flux.go:569 compiles: when the app layer holds a
\* resource of the CNPG operator, its Kustomization waits for the one that
\* installs and health-checks the operator; every Kustomization waits only for
\* ones this compile emits, and none for itself.
LayersOrdered ==
    pc = "done" =>
      LET ks == OfKind("Kustomization")
          operators == {k \in ks : CnpgOperator \in k.spec.healthChecks /\ OfKind("HelmRelease") # {}}
      IN  /\ \A k \in ks : k.spec.dependsOn \subseteq {l.name : l \in ks} \ {k.name}
          /\ OfKind("Cluster") \cup OfKind("ScheduledBackup") # {} =>
               \A k \in ks : k.spec.path = "apps" =>
                 k.spec.dependsOn \cap {o.name : o \in operators} # {}
=============================================================================
