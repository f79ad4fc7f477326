----------------------------- MODULE EmittedProofs -----------------------------
(***************************************************************************)
(* What a compile has written when it ends, for every document, and what   *)
(* that lets through on a cluster.                                         *)
(*                                                                         *)
(*   - Origin(p, o): which emit function writes object o at path p, and    *)
(*     under which condition.  Traced says that each file has one.         *)
(*   - Written(paths): what is there after each call of Emit.  Files are   *)
(*     not taken away again before the compile ends or is refused.         *)
(*   - EInv, the inductive invariant: both, the partition of the           *)
(*     components, and the notices.                                        *)
(*   - From an object's kind, or its path, back to the function that wrote *)
(*     it (ByKind, ByPath), and from there the properties one by one.      *)
(*                                                                         *)
(* Names that are joined with hyphens may meet, and then a path has two    *)
(* objects that may be written there.  The theorems that depend on one     *)
(* object for each path say so: NamesApart.                                *)
(***************************************************************************)
EXTENDS Wiring, FluxEmitterProofs, SequenceTheorems, WellFoundedInduction

-----------------------------------------------------------------------------
(* The calls from a given one on, in the order of Emit                     *)

FromKustomization == {"kustomization", "done"}
FromDeclaredEgress == {"declaredEgress"} \cup FromKustomization
FromRunnerControlPlane == {"runnerControlPlane"} \cup FromDeclaredEgress
FromCNPGControlPlane == {"cnpgControlPlane"} \cup FromRunnerControlPlane
FromFloor == {"floor"} \cup FromCNPGControlPlane
FromControlPlane == {"controlPlane"} \cup FromFloor
FromNeonEgress == {"neonEgress"} \cup FromControlPlane
FromBackupEgress == {"backupEgress"} \cup FromNeonEgress
FromTargets == {"targets"} \cup FromBackupEgress
FromManaged == {"managed"} \cup FromTargets
FromSelfHosted == {"selfHosted"} \cup FromManaged
FromRBAC == {"rbac"} \cup FromSelfHosted
FromNamespace == {"namespace"} \cup FromRBAC
FromOperator == {"operator"} \cup FromNamespace

\* The k-th turn of the loop `call` is over; `from` are the calls after it.
Turned(call, from, k) == (pc = call /\ k < i) \/ pc \in from

-----------------------------------------------------------------------------
(* The edges that leave the cluster through the waypoint                   *)

Edge(name, host, port, principals) ==
    [name |-> name, host |-> host, port |-> port, principals |-> principals]
BackupExternal(k) == externalsByName(selfHosted[k].rpo.backupTo)
BackupEdge(k) ==
    Edge(BackupExternal(k).name, BackupExternal(k).objectStore.host, BackupExternal(k).objectStore.port,
         {ServiceAccountOf(stackName, c) : c \in Consumers(selfHosted, selfHosted[k].rpo.backupTo)})
NeonEdge(k) ==
    Edge(managed[k].name \o <<"neon">>, managed[k].endpointHost.host, PostgresPort,
         {Principal(stackName, c) : c \in managed[k].allowedConsumers})
ControlPlaneEdge == Edge(NeonControlPlane, NeonControlPlaneHost, 443, {ServiceAccountOf(stackName, TfRunner)})

IsEdge(e) ==
    \/ \E k \in Indices(selfHosted) : meshBackupTarget(k) /\ e = BackupEdge(k)
    \/ \E k \in Indices(managed) : neonTarget(managed[k]) /\ e = NeonEdge(k)
    \/ managed # <<>> /\ e = ControlPlaneEdge

EntryPath(name) == App(name, "serviceentry")
PolicyPath(name) == App(name, "authorizationpolicy")
EntryOf(e) ==
    Object("ServiceEntry", stackName, e.name, [host |-> e.host, port |-> e.port, waypoint |-> Waypoint])
EdgePolicyOf(e) ==
    Object("AuthorizationPolicy", stackName, e.name \o <<"egress">>,
           [selects |-> NoName, targetRef |-> e.name, rules |-> {Rule(e.principals, {}, {})}])
ZeroTrustPolicyOf(pg) ==
    Object("AuthorizationPolicy", stackName, pg.name,
           [selects |-> pg.name, targetRef |-> NoName,
            rules |-> ConsumerRules(stackName, pg) \cup {Rule({}, {CnpgSystem}, {CnpgStatusPort})}])

-----------------------------------------------------------------------------
(* Origin: the call that wrote object o at path p                          *)

InfraPath(suffix) == Path("infra", NoName, suffix)
OperatorKustomizationPath == Path("flux", NoName, "infra-cnpg-operator")
AppKustomizationPath == Path("flux", stackName, "apps")
AppKustomizationObject ==
    Kustomization(stackName, "apps", IF selfHosted # <<>> THEN {CnpgOperator} ELSE {}, {})

InfraOrigin(p, o) ==
    /\ selfHosted # <<>>
    /\ \/ /\ p = InfraPath("namespace")
          /\ o = Object("Namespace", NoName, CnpgSystem, [ambient |-> mtlsEnabled])
       \/ /\ p = InfraPath("helmrepository")
          /\ o = Object("HelmRepository", CnpgSystem, <<"cloudnative", "pg">>, Plain)
       \/ /\ p = InfraPath("helmrelease")
          /\ o = Object("HelmRelease", CnpgSystem, CnpgOperator, Plain)
       \/ /\ p = OperatorKustomizationPath
          /\ o = Kustomization(CnpgOperator, "infra", {}, {CnpgOperator})

StackOrigin(p, o) ==
    \/ /\ p = App(NoName, "namespace")
       /\ o = Object("Namespace", NoName, stackName, [ambient |-> appMeshEnabled])
    \/ /\ managed # <<>>
       /\ \/ /\ p = App(NoName, "tf-runner-serviceaccount")
             /\ o = Object("ServiceAccount", stackName, TfRunner, Plain)
          \/ /\ p = App(NoName, "tf-runner-rolebinding")
             /\ o = Object("RoleBinding", stackName, TfRunner, Plain)
    \/ p = AppKustomizationPath /\ o = AppKustomizationObject

ClusterOf(pg) ==
    Object("Cluster", stackName, pg.name,
           [secret |-> pg.credentials,
            backup |-> IF pg.rpo.declared THEN barmanObjectStore(externalsByName(pg.rpo.backupTo)) ELSE {},
            conditional |-> pg.rpo.declared])

SelfHostedOrigin(pg, p, o) ==
    \/ p = App(pg.name, "cluster") /\ o = ClusterOf(pg)
    \/ /\ pg.mtls
       /\ \/ /\ p = App(NoName, "peerauthentication")
             /\ o = Object("PeerAuthentication", stackName, <<"default">>, [mode |-> "STRICT"])
          \/ p = PolicyPath(pg.name) /\ o = ZeroTrustPolicyOf(pg)
    \/ /\ pg.rpo.declared
       /\ p = App(pg.name, "scheduledbackup")
       /\ o = Object("ScheduledBackup", stackName, pg.name, [cluster |-> pg.name, conditional |-> TRUE])

ManagedOrigin(pg, p, o) ==
    \/ /\ p = App(pg.name, "managed/main.tf")
       /\ o = Object("tofu", NoName, pg.name, Plain)
    \/ /\ p = App(pg.name, "terraform")
       /\ o = Object("Terraform", stackName, pg.name,
                     [path |-> App(pg.name, "managed/main.tf"), writeOutputsToSecret |-> pg.credentials])

EdgeOrigin(e, p, o) ==
    \/ p = EntryPath(e.name) /\ o = EntryOf(e)
    \/ p = PolicyPath(e.name \o <<"egress">>) /\ o = EdgePolicyOf(e)

DatabaseOrigin(p, o) ==
    \/ \E k \in Indices(selfHosted) : SelfHostedOrigin(selfHosted[k], p, o)
    \/ \E k \in Indices(managed) : ManagedOrigin(managed[k], p, o)

EgressOrigin(p, o) ==
    \/ /\ waypointPresent
       /\ p = App(NoName, "waypoint")
       /\ o = Object("Gateway", stackName, Waypoint, Plain)
    \/ \E e : IsEdge(e) /\ EdgeOrigin(e, p, o)

FloorPath(suffix) == App(NoName, suffix)
FloorPolicies(p, o) ==
    \/ p = FloorPath("networkpolicy-default-deny-egress")
       /\ o = NetworkPolicy(stackName, <<"default", "deny", "egress">>, AllPods, {})
    \/ p = FloorPath("networkpolicy-allow-cluster-egress")
       /\ o = NetworkPolicy(stackName, <<"allow", "cluster", "egress">>, AllPods,
                {EgressRule(KubeSystem, {DNSPort}), EgressRule(IstioSystem, {IstiodXDSPort}),
                 EgressRule(stackName, {}), EgressRule(AnyPeer, {HbonePort})})
    \/ /\ waypointPresent
       /\ p = FloorPath("networkpolicy-allow-waypoint-egress")
       /\ o = NetworkPolicy(stackName, <<"allow", "waypoint", "egress">>, WaypointPods, {EgressRule(AnyPeer, {})})
    \/ /\ managed # <<>>
       /\ p = FloorPath("networkpolicy-tf-runner-controlplane-egress")
       /\ o = NetworkPolicy(stackName, TfRunner \o <<"controlplane", "egress">>, RunnerPods,
                {EgressRule(AnyPeer, ControlPlanePorts)})

ControlPlanePolicy(pg, p, o) ==
    /\ p = App(pg.name, "networkpolicy-controlplane-egress")
    /\ o = NetworkPolicy(stackName, pg.name \o <<"controlplane", "egress">>, ClusterPods(pg.name),
             {EgressRule(AnyPeer, ControlPlanePorts)})

DeclaredPolicy(k, p, o) ==
    \E c \in Consumers(selfHosted, selfHosted[k].rpo.backupTo) :
      /\ p = DeclaredEgressPath(c, BackupExternal(k).name)
      /\ o = DeclaredEgressPolicy(stackName, c, BackupExternal(k))

FloorOrigin(p, o) ==
    /\ appMeshEnabled
    /\ \/ FloorPolicies(p, o)
       \/ \E k \in Indices(selfHosted) : ControlPlanePolicy(selfHosted[k], p, o)
       \/ \E k \in Indices(selfHosted) : selfHosted[k].rpo.declared /\ DeclaredPolicy(k, p, o)

Origin(p, o) ==
    InfraOrigin(p, o) \/ StackOrigin(p, o) \/ DatabaseOrigin(p, o) \/ EgressOrigin(p, o) \/ FloorOrigin(p, o)

-----------------------------------------------------------------------------
(* The invariant                                                           *)

Distinct(s) == \A j, k \in Indices(s) : s[j].name = s[k].name => j = k
Placed(c) ==
    /\ c.placement = SelfHosted => c \in Elements(selfHosted)
    /\ c.placement = Managed => c \in Elements(managed)
Before(c) == \E m \in Indices(doc.components) : m < i /\ c = doc.components[m]

\* The partition has read the components before index i, and at its end all.
PartitionInv ==
    /\ pc \in {"load", "validate"} => selfHosted = <<>> /\ managed = <<>>
    /\ pc = "partition" =>
         /\ \A k \in Indices(doc.components) :
              k < i /\ checkRPOSatisfiable(doc.components[k]) => Placed(doc.components[k])
         /\ \A k \in Indices(selfHosted) : Before(selfHosted[k])
         /\ \A k \in Indices(managed) : Before(managed[k])
    /\ pc \in FromOperator => \A c \in Elements(doc.components) : Placed(c)
    /\ Distinct(selfHosted)
    /\ Distinct(managed)

NothingYet == pc \notin FromNamespace => files = NoFiles

\* Every object comes from a call, and a policy about an entry comes after it.
Aimed(f, o) ==
    o.kind = "AuthorizationPolicy" =>
      o.spec.targetRef = NoName \/ EntryPath(o.spec.targetRef) \in DOMAIN f
SoundMap(f) == \A p \in DOMAIN f : Origin(p, f[p]) /\ Aimed(f, f[p])
Traced == SoundMap(files)

Written(paths) == paths \subseteq DOMAIN files
EdgePaths(name) == {EntryPath(name), PolicyPath(name \o <<"egress">>)}
SelfHostedPaths(pg) ==
    {App(pg.name, "cluster")}
    \cup (IF pg.mtls THEN {App(NoName, "peerauthentication"), PolicyPath(pg.name)} ELSE {})
    \cup (IF pg.rpo.declared THEN {App(pg.name, "scheduledbackup")} ELSE {})

DeclaredPaths(k) ==
    {DeclaredEgressPath(c, BackupExternal(k).name) : c \in Consumers(selfHosted, selfHosted[k].rpo.backupTo)}

\* The loops of emitNetworkPolicies run only under its first condition.
FloorWanted == pc \in {"cnpgControlPlane", "runnerControlPlane", "declaredEgress"} => appMeshEnabled

\* Which paths are there after each call.
LayersWritten ==
    /\ pc \in FromNamespace /\ selfHosted # <<>> =>
         Written({InfraPath("namespace"), InfraPath("helmrelease"), OperatorKustomizationPath})
    /\ pc \in FromRBAC => Written({App(NoName, "namespace")})
    /\ pc = "done" => Written({AppKustomizationPath})
DatabasesWritten ==
    \A k \in Indices(selfHosted) :
      Turned("selfHosted", FromManaged, k) => Written(SelfHostedPaths(selfHosted[k]))
EdgesWritten ==
    /\ pc \in FromBackupEgress /\ waypointPresent => Written({App(NoName, "waypoint")})
    /\ \A k \in Indices(selfHosted) :
         meshBackupTarget(k) /\ Turned("backupEgress", FromNeonEgress, k) => Written(EdgePaths(BackupEdge(k).name))
    /\ \A k \in Indices(managed) :
         neonTarget(managed[k]) /\ Turned("neonEgress", FromControlPlane, k) => Written(EdgePaths(NeonEdge(k).name))
    /\ pc \in FromFloor /\ managed # <<>> => Written(EdgePaths(NeonControlPlane))
FloorWritten ==
    /\ pc \in FromCNPGControlPlane /\ appMeshEnabled =>
         Written({FloorPath("networkpolicy-default-deny-egress"), FloorPath("networkpolicy-allow-cluster-egress")})
    /\ pc \in FromCNPGControlPlane /\ waypointPresent => Written({FloorPath("networkpolicy-allow-waypoint-egress")})
    /\ pc \in FromDeclaredEgress /\ managed # <<>> =>
         Written({FloorPath("networkpolicy-tf-runner-controlplane-egress")})
    /\ \A k \in Indices(selfHosted) :
         FirstUse(selfHosted, k) /\ Turned("declaredEgress", FromKustomization, k) => Written(DeclaredPaths(k))

\* A notice for each component with an RPO the loop has passed, and one only.
NoticesInv ==
    /\ pc \notin FromSelfHosted => conditionals = <<>>
    /\ \A n \in Indices(conditionals) :
         \E k \in Indices(selfHosted) :
           /\ selfHosted[k].rpo.declared
           /\ Turned("selfHosted", FromManaged, k)
           /\ conditionals[n] = Notice(selfHosted[k])
    /\ \A k \in Indices(selfHosted) :
         selfHosted[k].rpo.declared /\ Turned("selfHosted", FromManaged, k) =>
           \E n \in Indices(conditionals) : conditionals[n] = Notice(selfHosted[k])
    /\ \A m, n \in Indices(conditionals) : conditionals[m].component = conditionals[n].component => m = n

EInv ==
    /\ IInv
    /\ PartitionInv
    /\ NothingYet
    /\ Traced
    /\ LayersWritten
    /\ DatabasesWritten
    /\ EdgesWritten
    /\ FloorWanted
    /\ FloorWritten
    /\ NoticesInv

-----------------------------------------------------------------------------
(* What the emit functions do to a sound file map                          *)

LEMMA SetSound ==
  ASSUME NEW f, SoundMap(f), NEW path, NEW o, Origin(path, o), Aimed(f, o)
  PROVE  SoundMap(Set(f, path, o)) /\ DOMAIN Set(f, path, o) = DOMAIN f \cup {path}
<1> DEFINE g == Set(f, path, o)
<1>1. DOMAIN g = DOMAIN f \cup {path}
  BY DEF Set
<1>2. \A p \in DOMAIN g : g[p] = IF p = path THEN o ELSE f[p]
  BY DEF Set
<1>3. \A x : Aimed(f, x) => Aimed(g, x)
  BY <1>1 DEF Aimed
<1>4. ASSUME NEW p \in DOMAIN g PROVE Origin(p, g[p]) /\ Aimed(g, g[p])
  <2>1. CASE p = path
    BY <2>1, <1>2, <1>3
  <2>2. CASE p # path
    BY <2>2, <1>1, <1>2, <1>3 DEF SoundMap
  <2>3. QED
    BY <2>1, <2>2
<1>5. QED
  BY <1>1, <1>4 DEF SoundMap

\* Only the policy of an edge is about an entry.
LEMMA OtherKinds ==
  ASSUME NEW f, NEW kind, kind # "AuthorizationPolicy", NEW ns, NEW name, NEW spec
  PROVE  Aimed(f, Object(kind, ns, name, spec))
  BY DEF Aimed, Object

LEMMA OperatorSound ==
  ASSUME NEW f, SoundMap(f), selfHosted # <<>>
  PROVE  LET g == EmitCNPGOperator(f, mtlsEnabled)
         IN  /\ SoundMap(g)
             /\ DOMAIN f \subseteq DOMAIN g
             /\ {InfraPath("namespace"), InfraPath("helmrelease"), OperatorKustomizationPath} \subseteq DOMAIN g
<1> DEFINE o1 == Object("Namespace", NoName, CnpgSystem, [ambient |-> mtlsEnabled])
           o2 == Object("HelmRepository", CnpgSystem, <<"cloudnative", "pg">>, Plain)
           o3 == Object("HelmRelease", CnpgSystem, CnpgOperator, Plain)
           o4 == Kustomization(CnpgOperator, "infra", {}, {CnpgOperator})
           f1 == Set(f, InfraPath("namespace"), o1)
           f2 == Set(f1, InfraPath("helmrepository"), o2)
           f3 == Set(f2, InfraPath("helmrelease"), o3)
           f4 == Set(f3, OperatorKustomizationPath, o4)
<1>1. \A g : Aimed(g, o1) /\ Aimed(g, o2) /\ Aimed(g, o3) /\ Aimed(g, o4)
  BY OtherKinds DEF Kustomization
<1>2. /\ Origin(InfraPath("namespace"), o1)
      /\ Origin(InfraPath("helmrepository"), o2)
      /\ Origin(InfraPath("helmrelease"), o3)
      /\ Origin(OperatorKustomizationPath, o4)
  BY Zenon DEF Origin, InfraOrigin
<1>3. SoundMap(f1) /\ DOMAIN f1 = DOMAIN f \cup {InfraPath("namespace")}
  BY <1>1, <1>2, SetSound
<1>4. SoundMap(f2) /\ DOMAIN f2 = DOMAIN f1 \cup {InfraPath("helmrepository")}
  BY <1>1, <1>2, <1>3, SetSound
<1>5. SoundMap(f3) /\ DOMAIN f3 = DOMAIN f2 \cup {InfraPath("helmrelease")}
  BY <1>1, <1>2, <1>4, SetSound
<1>6. SoundMap(f4) /\ DOMAIN f4 = DOMAIN f3 \cup {OperatorKustomizationPath}
  BY <1>1, <1>2, <1>5, SetSound
<1>7. EmitCNPGOperator(f, mtlsEnabled) = f4
  BY DEF EmitCNPGOperator, InfraPath, OperatorKustomizationPath
<1>8. QED
  BY <1>3, <1>4, <1>5, <1>6, <1>7

LEMMA NamespaceSound ==
  ASSUME NEW f, SoundMap(f)
  PROVE  LET g == EmitAppNamespace(f, stackName, appMeshEnabled)
         IN  SoundMap(g) /\ DOMAIN f \subseteq DOMAIN g /\ App(NoName, "namespace") \in DOMAIN g
<1> DEFINE o == Object("Namespace", NoName, stackName, [ambient |-> appMeshEnabled])
<1>1. Aimed(f, o)
  BY OtherKinds
<1>2. Origin(App(NoName, "namespace"), o)
  BY Zenon DEF Origin, StackOrigin
<1>3. LET g == Set(f, App(NoName, "namespace"), o)
      IN  SoundMap(g) /\ DOMAIN g = DOMAIN f \cup {App(NoName, "namespace")}
  BY <1>1, <1>2, SetSound
<1>4. QED
  BY <1>3 DEF EmitAppNamespace

LEMMA RunnerSound ==
  ASSUME NEW f, SoundMap(f), managed # <<>>
  PROVE  LET g == EmitManagedRunnerRBAC(f, stackName) IN SoundMap(g) /\ DOMAIN f \subseteq DOMAIN g
<1> DEFINE o1 == Object("ServiceAccount", stackName, TfRunner, Plain)
           o2 == Object("RoleBinding", stackName, TfRunner, Plain)
           f1 == Set(f, App(NoName, "tf-runner-serviceaccount"), o1)
           f2 == Set(f1, App(NoName, "tf-runner-rolebinding"), o2)
<1>1. \A g : Aimed(g, o1) /\ Aimed(g, o2)
  BY OtherKinds
<1>2. Origin(App(NoName, "tf-runner-serviceaccount"), o1) /\ Origin(App(NoName, "tf-runner-rolebinding"), o2)
  BY Zenon DEF Origin, StackOrigin
<1>3. SoundMap(f1) /\ DOMAIN f1 = DOMAIN f \cup {App(NoName, "tf-runner-serviceaccount")}
  BY <1>1, <1>2, SetSound
<1>4. SoundMap(f2) /\ DOMAIN f2 = DOMAIN f1 \cup {App(NoName, "tf-runner-rolebinding")}
  BY <1>1, <1>2, <1>3, SetSound
<1>5. QED
  BY <1>3, <1>4 DEF EmitManagedRunnerRBAC

\* EmitSelfHostedPostgres: the Cluster, then what each guarantee adds.
LEMMA SelfHostedSound ==
  ASSUME NEW f, SoundMap(f), NEW k \in Indices(selfHosted)
  PROVE  LET pg == selfHosted[k]
             g == EmitSelfHostedPostgres(f, stackName, pg, externalsByName(pg.rpo.backupTo))
         IN  SoundMap(g) /\ DOMAIN f \subseteq DOMAIN g /\ SelfHostedPaths(pg) \subseteq DOMAIN g
<1> DEFINE pg == selfHosted[k]
           ext == externalsByName(pg.rpo.backupTo)
           peer == Object("PeerAuthentication", stackName, <<"default">>, [mode |-> "STRICT"])
           schedule == Object("ScheduledBackup", stackName, pg.name, [cluster |-> pg.name, conditional |-> TRUE])
           f1 == EmitCluster(f, stackName, pg, ext)
           f2 == EmitZeroTrust(f1, stackName, pg)
           f3 == EmitDurability(f2, stackName, pg)
<1>1. \A p, o : SelfHostedOrigin(pg, p, o) => Origin(p, o)
  BY Zenon DEF Origin, DatabaseOrigin
<1>2. SoundMap(f1) /\ DOMAIN f1 = DOMAIN f \cup {App(pg.name, "cluster")}
  <2>1. Origin(App(pg.name, "cluster"), ClusterOf(pg))
    BY <1>1, Zenon DEF SelfHostedOrigin
  <2>2. Aimed(f, ClusterOf(pg))
    BY OtherKinds DEF ClusterOf
  <2>3. f1 = Set(f, App(pg.name, "cluster"), ClusterOf(pg))
    BY DEF EmitCluster, ClusterOf
  <2>4. QED
    BY <2>1, <2>2, <2>3, SetSound
<1>3. /\ SoundMap(f2)
      /\ DOMAIN f1 \subseteq DOMAIN f2
      /\ pg.mtls => {App(NoName, "peerauthentication"), PolicyPath(pg.name)} \subseteq DOMAIN f2
  <2>1. CASE ~pg.mtls
    BY <1>2, <2>1 DEF EmitZeroTrust
  <2>2. CASE pg.mtls
    <3> DEFINE h == Set(f1, App(NoName, "peerauthentication"), peer)
               z == Set(h, PolicyPath(pg.name), ZeroTrustPolicyOf(pg))
    <3>1. Origin(App(NoName, "peerauthentication"), peer) /\ Origin(PolicyPath(pg.name), ZeroTrustPolicyOf(pg))
      BY <1>1, <2>2, Zenon DEF SelfHostedOrigin
    <3>2. \A m : Aimed(m, peer) /\ Aimed(m, ZeroTrustPolicyOf(pg))
      BY OtherKinds DEF Aimed, ZeroTrustPolicyOf, Object
    <3>3. SoundMap(h) /\ DOMAIN h = DOMAIN f1 \cup {App(NoName, "peerauthentication")}
      BY <1>2, <3>1, <3>2, SetSound
    <3>4. SoundMap(z) /\ DOMAIN z = DOMAIN h \cup {PolicyPath(pg.name)}
      BY <3>1, <3>2, <3>3, SetSound
    <3>5. f2 = z
      BY <2>2 DEF EmitZeroTrust, PolicyPath, ZeroTrustPolicyOf
    <3>6. QED
      BY <3>3, <3>4, <3>5
  <2>3. QED
    BY <2>1, <2>2
<1>4. /\ SoundMap(f3)
      /\ DOMAIN f2 \subseteq DOMAIN f3
      /\ pg.rpo.declared => App(pg.name, "scheduledbackup") \in DOMAIN f3
  <2>1. CASE ~pg.rpo.declared
    BY <1>3, <2>1 DEF EmitDurability
  <2>2. CASE pg.rpo.declared
    <3>1. Origin(App(pg.name, "scheduledbackup"), schedule)
      BY <1>1, <2>2, Zenon DEF SelfHostedOrigin
    <3>2. Aimed(f2, schedule)
      BY OtherKinds
    <3>3. LET g == Set(f2, App(pg.name, "scheduledbackup"), schedule)
          IN  SoundMap(g) /\ DOMAIN g = DOMAIN f2 \cup {App(pg.name, "scheduledbackup")}
      BY <1>3, <3>1, <3>2, SetSound
    <3>4. f3 = Set(f2, App(pg.name, "scheduledbackup"), schedule)
      BY <2>2 DEF EmitDurability
    <3>5. QED
      BY <3>3, <3>4
  <2>3. QED
    BY <2>1, <2>2
<1>5. EmitSelfHostedPostgres(f, stackName, pg, ext) = f3
  BY DEF EmitSelfHostedPostgres
<1>6. SelfHostedPaths(pg) \subseteq DOMAIN f3
  BY <1>2, <1>3, <1>4 DEF SelfHostedPaths
<1>7. QED
  BY <1>2, <1>3, <1>4, <1>5, <1>6

LEMMA ManagedSound ==
  ASSUME NEW f, SoundMap(f), NEW k \in Indices(managed)
  PROVE  LET g == EmitManagedPostgres(f, stackName, managed[k]) IN SoundMap(g) /\ DOMAIN f \subseteq DOMAIN g
<1> DEFINE pg == managed[k]
           o1 == Object("tofu", NoName, pg.name, Plain)
           o2 == Object("Terraform", stackName, pg.name,
                        [path |-> App(pg.name, "managed/main.tf"), writeOutputsToSecret |-> pg.credentials])
           f1 == Set(f, App(pg.name, "managed/main.tf"), o1)
           f2 == Set(f1, App(pg.name, "terraform"), o2)
<1>1. \A g : Aimed(g, o1) /\ Aimed(g, o2)
  BY OtherKinds
<1>2. \A p, o : ManagedOrigin(pg, p, o) => Origin(p, o)
  BY Zenon DEF Origin, DatabaseOrigin
<1>3. Origin(App(pg.name, "managed/main.tf"), o1) /\ Origin(App(pg.name, "terraform"), o2)
  BY <1>2, Zenon DEF ManagedOrigin
<1>4. SoundMap(f1) /\ DOMAIN f1 = DOMAIN f \cup {App(pg.name, "managed/main.tf")}
  BY <1>1, <1>3, SetSound
<1>5. SoundMap(f2) /\ DOMAIN f2 = DOMAIN f1 \cup {App(pg.name, "terraform")}
  BY <1>1, <1>3, <1>4, SetSound
<1>6. QED
  BY <1>4, <1>5 DEF EmitManagedPostgres

LEMMA WaypointSound ==
  ASSUME NEW f, SoundMap(f), waypointPresent
  PROVE  LET g == EmitWaypoint(f, stackName)
         IN  SoundMap(g) /\ DOMAIN f \subseteq DOMAIN g /\ App(NoName, "waypoint") \in DOMAIN g
<1> DEFINE o == Object("Gateway", stackName, Waypoint, Plain)
<1>1. Aimed(f, o)
  BY OtherKinds
<1>2. Origin(App(NoName, "waypoint"), o)
  BY Zenon DEF Origin, EgressOrigin
<1>3. LET g == Set(f, App(NoName, "waypoint"), o)
      IN  SoundMap(g) /\ DOMAIN g = DOMAIN f \cup {App(NoName, "waypoint")}
  BY <1>1, <1>2, SetSound
<1>4. QED
  BY <1>3 DEF EmitWaypoint

\* The entry is written before the policy that names it.
LEMMA EdgeSound ==
  ASSUME NEW f, SoundMap(f), NEW e, IsEdge(e)
  PROVE  LET g == EmitEgressPair(f, stackName, e.name, e.host, e.port, e.principals)
         IN  SoundMap(g) /\ DOMAIN f \subseteq DOMAIN g /\ EdgePaths(e.name) \subseteq DOMAIN g
<1> DEFINE f1 == Set(f, EntryPath(e.name), EntryOf(e))
           f2 == Set(f1, PolicyPath(e.name \o <<"egress">>), EdgePolicyOf(e))
<1>1. Origin(EntryPath(e.name), EntryOf(e)) /\ Origin(PolicyPath(e.name \o <<"egress">>), EdgePolicyOf(e))
  BY Zenon DEF Origin, EgressOrigin, EdgeOrigin
<1>2. Aimed(f, EntryOf(e))
  BY OtherKinds DEF EntryOf
<1>3. SoundMap(f1) /\ DOMAIN f1 = DOMAIN f \cup {EntryPath(e.name)}
  BY <1>1, <1>2, SetSound
<1>4. Aimed(f1, EdgePolicyOf(e))
  BY <1>3 DEF Aimed, EdgePolicyOf, Object
<1>5. SoundMap(f2) /\ DOMAIN f2 = DOMAIN f1 \cup {PolicyPath(e.name \o <<"egress">>)}
  BY <1>1, <1>3, <1>4, SetSound
<1>6. EmitEgressPair(f, stackName, e.name, e.host, e.port, e.principals) = f2
  BY DEF EmitEgressPair, EntryPath, PolicyPath, EntryOf, EdgePolicyOf
<1>7. QED
  BY <1>3, <1>5, <1>6 DEF EdgePaths

LEMMA BackupSound ==
  ASSUME NEW f, SoundMap(f), NEW k \in Indices(selfHosted), meshBackupTarget(k)
  PROVE  LET name == selfHosted[k].rpo.backupTo
             g == EmitBackupEgress(f, stackName, externalsByName(name), Consumers(selfHosted, name))
         IN  SoundMap(g) /\ DOMAIN f \subseteq DOMAIN g /\ EdgePaths(BackupEdge(k).name) \subseteq DOMAIN g
<1> DEFINE e == BackupEdge(k)
           name == selfHosted[k].rpo.backupTo
<1>1. IsEdge(e)
  BY DEF IsEdge
<1>2. LET g == EmitEgressPair(f, stackName, e.name, e.host, e.port, e.principals)
      IN  SoundMap(g) /\ DOMAIN f \subseteq DOMAIN g /\ EdgePaths(e.name) \subseteq DOMAIN g
  BY <1>1, EdgeSound
<1>3. EmitBackupEgress(f, stackName, externalsByName(name), Consumers(selfHosted, name))
        = EmitEgressPair(f, stackName, e.name, e.host, e.port, e.principals)
  BY DEF EmitBackupEgress, BackupEdge, BackupExternal, Edge
<1>4. QED
  BY <1>2, <1>3

LEMMA NeonSound ==
  ASSUME NEW f, SoundMap(f), NEW k \in Indices(managed), neonTarget(managed[k])
  PROVE  LET g == EmitNeonEgress(f, stackName, managed[k])
         IN  SoundMap(g) /\ DOMAIN f \subseteq DOMAIN g /\ EdgePaths(NeonEdge(k).name) \subseteq DOMAIN g
<1> DEFINE e == NeonEdge(k)
<1>1. IsEdge(e)
  BY DEF IsEdge
<1>2. LET g == EmitEgressPair(f, stackName, e.name, e.host, e.port, e.principals)
      IN  SoundMap(g) /\ DOMAIN f \subseteq DOMAIN g /\ EdgePaths(e.name) \subseteq DOMAIN g
  BY <1>1, EdgeSound
<1>3. EmitNeonEgress(f, stackName, managed[k])
        = EmitEgressPair(f, stackName, e.name, e.host, e.port, e.principals)
  BY DEF EmitNeonEgress, NeonEdge, Edge
<1>4. QED
  BY <1>2, <1>3

LEMMA ControlPlaneSound ==
  ASSUME NEW f, SoundMap(f), managed # <<>>
  PROVE  LET g == EmitNeonControlPlaneEgress(f, stackName)
         IN  SoundMap(g) /\ DOMAIN f \subseteq DOMAIN g /\ EdgePaths(NeonControlPlane) \subseteq DOMAIN g
<1> DEFINE e == ControlPlaneEdge
<1>1. IsEdge(e) /\ e.name = NeonControlPlane
  BY DEF IsEdge, ControlPlaneEdge, Edge
<1>2. LET g == EmitEgressPair(f, stackName, e.name, e.host, e.port, e.principals)
      IN  SoundMap(g) /\ DOMAIN f \subseteq DOMAIN g /\ EdgePaths(e.name) \subseteq DOMAIN g
  BY <1>1, EdgeSound
<1>3. EmitNeonControlPlaneEgress(f, stackName)
        = EmitEgressPair(f, stackName, e.name, e.host, e.port, e.principals)
  BY DEF EmitNeonControlPlaneEgress, ControlPlaneEdge, Edge
<1>4. QED
  BY <1>1, <1>2, <1>3

\* One of the floor's own policies, written at its path.
LEMMA FloorPolicySound ==
  ASSUME NEW f, SoundMap(f), appMeshEnabled, NEW path, NEW o,
         FloorPolicies(path, o) \/ \E k \in Indices(selfHosted) : ControlPlanePolicy(selfHosted[k], path, o)
  PROVE  SoundMap(Set(f, path, o)) /\ DOMAIN Set(f, path, o) = DOMAIN f \cup {path}
<1>1. Origin(path, o)
  BY Zenon DEF Origin, FloorOrigin
<1>2. Aimed(f, o)
  BY DEF FloorPolicies, ControlPlanePolicy, NetworkPolicy, Object, Aimed
<1>3. QED
  BY <1>1, <1>2, SetSound

LEMMA BaseSound ==
  ASSUME NEW f, SoundMap(f), appMeshEnabled
  PROVE  LET g == EmitAllowClusterEgress(EmitDefaultDenyEgress(f, stackName), stackName)
         IN  /\ SoundMap(g)
             /\ DOMAIN f \subseteq DOMAIN g
             /\ {FloorPath("networkpolicy-default-deny-egress"), FloorPath("networkpolicy-allow-cluster-egress")}
                  \subseteq DOMAIN g
<1> DEFINE cluster == {EgressRule(KubeSystem, {DNSPort}), EgressRule(IstioSystem, {IstiodXDSPort}),
                       EgressRule(stackName, {}), EgressRule(AnyPeer, {HbonePort})}
           deny == FloorPath("networkpolicy-default-deny-egress")
           allow == FloorPath("networkpolicy-allow-cluster-egress")
           o1 == NetworkPolicy(stackName, <<"default", "deny", "egress">>, AllPods, {})
           o2 == NetworkPolicy(stackName, <<"allow", "cluster", "egress">>, AllPods, cluster)
           f1 == Set(f, deny, o1)
           f2 == Set(f1, allow, o2)
<1>1. FloorPolicies(deny, o1) /\ FloorPolicies(allow, o2)
  BY Zenon DEF FloorPolicies
<1>2. SoundMap(f1) /\ DOMAIN f1 = DOMAIN f \cup {deny}
  BY <1>1, FloorPolicySound
<1>3. SoundMap(f2) /\ DOMAIN f2 = DOMAIN f1 \cup {allow}
  BY <1>1, <1>2, FloorPolicySound
<1>4. EmitAllowClusterEgress(EmitDefaultDenyEgress(f, stackName), stackName) = f2
  BY DEF EmitAllowClusterEgress, EmitDefaultDenyEgress, FloorPath
<1>5. QED
  BY <1>2, <1>3, <1>4

LEMMA WaypointFloorSound ==
  ASSUME NEW f, SoundMap(f), appMeshEnabled, waypointPresent
  PROVE  LET g == EmitAllowWaypointEgress(f, stackName)
         IN  /\ SoundMap(g)
             /\ DOMAIN f \subseteq DOMAIN g
             /\ FloorPath("networkpolicy-allow-waypoint-egress") \in DOMAIN g
<1> DEFINE path == FloorPath("networkpolicy-allow-waypoint-egress")
           o == NetworkPolicy(stackName, <<"allow", "waypoint", "egress">>, WaypointPods, {EgressRule(AnyPeer, {})})
<1>1. FloorPolicies(path, o)
  BY Zenon DEF FloorPolicies
<1>2. SoundMap(Set(f, path, o)) /\ DOMAIN Set(f, path, o) = DOMAIN f \cup {path}
  BY <1>1, FloorPolicySound
<1>3. QED
  BY <1>2 DEF EmitAllowWaypointEgress, FloorPath

LEMMA CNPGSound ==
  ASSUME NEW f, SoundMap(f), appMeshEnabled, NEW k \in Indices(selfHosted)
  PROVE  LET g == EmitCNPGControlPlaneEgress(f, stackName, selfHosted[k])
         IN  SoundMap(g) /\ DOMAIN g = DOMAIN f \cup {App(selfHosted[k].name, "networkpolicy-controlplane-egress")}
<1> DEFINE path == App(selfHosted[k].name, "networkpolicy-controlplane-egress")
           o == NetworkPolicy(stackName, selfHosted[k].name \o <<"controlplane", "egress">>,
                              ClusterPods(selfHosted[k].name), {EgressRule(AnyPeer, ControlPlanePorts)})
<1>1. ControlPlanePolicy(selfHosted[k], path, o)
  BY Zenon DEF ControlPlanePolicy
<1>2. SoundMap(Set(f, path, o)) /\ DOMAIN Set(f, path, o) = DOMAIN f \cup {path}
  BY <1>1, FloorPolicySound
<1>3. QED
  BY <1>2 DEF EmitCNPGControlPlaneEgress

LEMMA RunnerFloorSound ==
  ASSUME NEW f, SoundMap(f), appMeshEnabled, managed # <<>>
  PROVE  LET g == EmitManagedControlPlaneEgress(f, stackName)
         IN  /\ SoundMap(g)
             /\ DOMAIN g = DOMAIN f \cup {FloorPath("networkpolicy-tf-runner-controlplane-egress")}
<1> DEFINE path == FloorPath("networkpolicy-tf-runner-controlplane-egress")
           o == NetworkPolicy(stackName, TfRunner \o <<"controlplane", "egress">>, RunnerPods,
                              {EgressRule(AnyPeer, ControlPlanePorts)})
<1>1. FloorPolicies(path, o)
  BY Zenon DEF FloorPolicies
<1>2. SoundMap(Set(f, path, o)) /\ DOMAIN Set(f, path, o) = DOMAIN f \cup {path}
  BY <1>1, FloorPolicySound
<1>3. QED
  BY <1>2 DEF EmitManagedControlPlaneEgress, FloorPath

\* One write per consumer, at once: each path holds the policy of a consumer
\* whose path it is.
LEMMA DeclaredSound ==
  ASSUME NEW f, SoundMap(f), appMeshEnabled, NEW k \in Indices(selfHosted), selfHosted[k].rpo.declared
  PROVE  LET consumers == Consumers(selfHosted, selfHosted[k].rpo.backupTo)
             g == EmitDeclaredExternalEgress(f, stackName, BackupExternal(k), consumers)
         IN  /\ SoundMap(g)
             /\ DOMAIN g = DOMAIN f \cup {DeclaredEgressPath(c, BackupExternal(k).name) : c \in consumers}
<1> DEFINE ext == BackupExternal(k)
           consumers == Consumers(selfHosted, selfHosted[k].rpo.backupTo)
           g == EmitDeclaredExternalEgress(f, stackName, ext, consumers)
           chosen(p) == CHOOSE c \in consumers : p = DeclaredEgressPath(c, ext.name)
           ours(p) == \E c \in consumers : p = DeclaredEgressPath(c, ext.name)
<1>1. DOMAIN g = DOMAIN f \cup {DeclaredEgressPath(c, ext.name) : c \in consumers}
  BY DEF EmitDeclaredExternalEgress
<1>2. \A p \in DOMAIN g : g[p] = IF ours(p) THEN DeclaredEgressPolicy(stackName, chosen(p), ext) ELSE f[p]
  BY <1>1 DEF EmitDeclaredExternalEgress
<1>3. \A x : Aimed(f, x) => Aimed(g, x)
  BY <1>1, Zenon DEF Aimed
<1>4. ASSUME NEW p \in DOMAIN g PROVE Origin(p, g[p]) /\ Aimed(g, g[p])
  <2>1. CASE ours(p)
    <3>1. chosen(p) \in consumers /\ p = DeclaredEgressPath(chosen(p), ext.name)
      BY <2>1
    <3>2. g[p] = DeclaredEgressPolicy(stackName, chosen(p), ext)
      BY <1>2, <2>1
    <3>3. DeclaredPolicy(k, p, g[p])
      BY <3>1, <3>2, Zenon DEF DeclaredPolicy
    <3>4. Origin(p, g[p])
      BY <3>3, Zenon DEF Origin, FloorOrigin
    <3>5. Aimed(g, g[p])
      BY <3>2, OtherKinds DEF DeclaredEgressPolicy, NetworkPolicy
    <3>6. QED
      BY <3>4, <3>5
  <2>2. CASE ~ours(p)
    <3>1. p \in DOMAIN f /\ g[p] = f[p]
      BY <1>1, <1>2, <2>2
    <3>2. QED
      BY <3>1, <1>3 DEF SoundMap
  <2>3. QED
    BY <2>1, <2>2
<1>5. QED
  BY <1>1, <1>4 DEF SoundMap

LEMMA KustomizationSound ==
  ASSUME NEW f, SoundMap(f)
  PROVE  LET g == EmitAppKustomization(f, stackName, selfHosted # <<>>)
         IN  SoundMap(g) /\ DOMAIN g = DOMAIN f \cup {AppKustomizationPath}
<1>1. Aimed(f, AppKustomizationObject)
  BY OtherKinds DEF AppKustomizationObject, Kustomization
<1>2. Origin(AppKustomizationPath, AppKustomizationObject)
  BY Zenon DEF Origin, StackOrigin
<1>3. LET g == Set(f, AppKustomizationPath, AppKustomizationObject)
      IN  SoundMap(g) /\ DOMAIN g = DOMAIN f \cup {AppKustomizationPath}
  BY <1>1, <1>2, SetSound
<1>4. EmitAppKustomization(f, stackName, selfHosted # <<>>) = Set(f, AppKustomizationPath, AppKustomizationObject)
  BY DEF EmitAppKustomization, AppKustomizationPath, AppKustomizationObject
<1>5. QED
  BY <1>3, <1>4

-----------------------------------------------------------------------------
(* What the partition settles                                              *)

\* Everything derived from the document and its partition stays with them.
LEMMA OriginKept ==
  ASSUME UNCHANGED <<doc, selfHosted, managed>>, NEW p, NEW o
  PROVE  Origin(p, o)' <=> Origin(p, o)
<1>1. InfraOrigin(p, o)' <=> InfraOrigin(p, o)
  BY DEF InfraOrigin, mtlsEnabled
<1>2. StackOrigin(p, o)' <=> StackOrigin(p, o)
  BY DEF StackOrigin, appMeshEnabled, mtlsEnabled, egressNeeded, stackName, AppKustomizationPath,
         AppKustomizationObject
<1>3. DatabaseOrigin(p, o)' <=> DatabaseOrigin(p, o)
  BY DEF DatabaseOrigin, SelfHostedOrigin, ManagedOrigin, ClusterOf, ZeroTrustPolicyOf, stackName, externalsByName
<1>4. (\A k : meshBackupTarget(k)' <=> meshBackupTarget(k)) /\ (waypointPresent' <=> waypointPresent)
  BY DEF meshBackupTarget, waypointPresent, neonTarget, externalsByName
<1>5. \A e : IsEdge(e)' <=> IsEdge(e)
  <2>1. \A k : BackupEdge(k)' = BackupEdge(k)
    BY DEF BackupEdge, BackupExternal, externalsByName, stackName
  <2>2. \A k : NeonEdge(k)' = NeonEdge(k)
    BY DEF NeonEdge, stackName
  <2>3. ControlPlaneEdge' = ControlPlaneEdge
    BY DEF ControlPlaneEdge, stackName
  <2>4. QED
    BY <1>4, <2>1, <2>2, <2>3 DEF IsEdge, neonTarget
<1>6. \A e : EdgeOrigin(e, p, o)' <=> EdgeOrigin(e, p, o)
  BY DEF EdgeOrigin, EntryOf, EdgePolicyOf, stackName
<1>7. EgressOrigin(p, o)' <=> EgressOrigin(p, o)
  BY <1>4, <1>5, <1>6 DEF EgressOrigin, stackName
<1>8. FloorOrigin(p, o)' <=> FloorOrigin(p, o)
  BY <1>4 DEF FloorOrigin, FloorPolicies, ControlPlanePolicy, DeclaredPolicy, BackupExternal, externalsByName,
              stackName, appMeshEnabled, mtlsEnabled, egressNeeded
<1>9. QED
  BY <1>1, <1>2, <1>3, <1>7, <1>8 DEF Origin

LEMMA TracedNext ==
  ASSUME UNCHANGED <<doc, selfHosted, managed>>, SoundMap(files')
  PROVE  Traced'
  BY OriginKept DEF Traced, SoundMap, Aimed

\* No edge without the mesh: the waypoint's condition implies the floor's.
LEMMA EdgesNeedTheMesh ==
  /\ waypointPresent => appMeshEnabled
  /\ managed # <<>> => appMeshEnabled /\ waypointPresent
  /\ \A k \in Indices(selfHosted) : selfHosted[k].mtls \/ selfHosted[k].rpo.declared => appMeshEnabled
  /\ \A k \in Indices(selfHosted) : selfHosted[k].mtls => mtlsEnabled
  /\ \A k \in Indices(selfHosted) : FirstUse(selfHosted, k) => appMeshEnabled
<1>1. \A k \in Indices(selfHosted) : selfHosted[k] \in Elements(selfHosted)
  BY DEF Elements
<1>2. \A k \in Indices(selfHosted) : meshBackupTarget(k) \/ FirstUse(selfHosted, k) => selfHosted[k].rpo.declared
  BY DEF meshBackupTarget, FirstUse
<1>3. (\E pg \in Elements(managed) : neonTarget(pg)) => managed # <<>>
  BY DEF Elements, Indices
<1>4. QED
  BY <1>1, <1>2, <1>3 DEF waypointPresent, appMeshEnabled, egressNeeded, mtlsEnabled

-----------------------------------------------------------------------------
(* Each call keeps every path, and adds its own                            *)

Grows == UNCHANGED <<doc, selfHosted, managed>> /\ DOMAIN files \subseteq DOMAIN files'
Adds(paths) == Traced' /\ Grows /\ paths \subseteq DOMAIN files'

LEMMA AddsBy ==
  ASSUME UNCHANGED <<doc, selfHosted, managed>>, NEW g, files' = g, SoundMap(g), DOMAIN files \subseteq DOMAIN g,
         NEW paths, paths \subseteq DOMAIN g
  PROVE  Adds(paths)
  BY TracedNext DEF Adds, Grows

LEMMA OperatorAdds ==
  ASSUME EInv, CNPGOperator
  PROVE  Adds(IF selfHosted # <<>>
              THEN {InfraPath("namespace"), InfraPath("helmrelease"), OperatorKustomizationPath} ELSE {})
<1>1. SoundMap(files)
  BY DEF EInv, Traced
<1>2. UNCHANGED <<doc, selfHosted, managed>>
  BY DEF CNPGOperator, Emitted
<1>3. CASE selfHosted # <<>>
  <2>1. files' = EmitCNPGOperator(files, mtlsEnabled)
    BY <1>3 DEF CNPGOperator, Emitted
  <2>2. QED
    BY <1>1, <1>2, <1>3, <2>1, OperatorSound, AddsBy
<1>4. CASE selfHosted = <<>>
  <2>1. files' = files
    BY <1>4 DEF CNPGOperator, Emitted
  <2>2. QED
    BY <1>1, <1>2, <1>4, <2>1, AddsBy
<1>5. QED
  BY <1>3, <1>4

LEMMA NamespaceAdds ==
  ASSUME EInv, AppNamespace
  PROVE  Adds({App(NoName, "namespace")})
<1>1. SoundMap(files)
  BY DEF EInv, Traced
<1>2. UNCHANGED <<doc, selfHosted, managed>> /\ files' = EmitAppNamespace(files, stackName, appMeshEnabled)
  BY DEF AppNamespace, Emitted
<1>3. QED
  BY <1>1, <1>2, NamespaceSound, AddsBy

LEMMA RunnerAdds ==
  ASSUME EInv, ManagedRunnerRBAC
  PROVE  Adds({})
<1>1. SoundMap(files)
  BY DEF EInv, Traced
<1>2. UNCHANGED <<doc, selfHosted, managed>>
  BY DEF ManagedRunnerRBAC, Emitted
<1>3. managed # <<>> => files' = EmitManagedRunnerRBAC(files, stackName)
  BY DEF ManagedRunnerRBAC, Emitted
<1>4. managed = <<>> => files' = files
  BY DEF ManagedRunnerRBAC, Emitted
<1>5. QED
  BY <1>1, <1>2, <1>3, <1>4, RunnerSound, AddsBy

LEMMA SelfHostedAdds ==
  ASSUME EInv, SelfHostedPostgres
  PROVE  /\ i \in Indices(selfHosted)
         /\ Adds(SelfHostedPaths(selfHosted[i]))
         /\ conditionals' = conditionals \o Conditional(selfHosted[i])
         /\ pc' = pc /\ i' = i + 1
<1>1. SoundMap(files) /\ IInv /\ PastValidate
  BY DEF EInv, Traced, SelfHostedPostgres, PastValidate
<1>2. i \in Indices(selfHosted)
  BY <1>1 DEF SelfHostedPostgres, IInv, TypeOK, Indices
<1>3. ~SelfHostedError(selfHosted[i])
  BY <1>1, <1>2, NoSelfHostedDefect
<1>4. /\ Turn(EmitSelfHostedPostgres(files, stackName, selfHosted[i], externalsByName(selfHosted[i].rpo.backupTo)))
      /\ conditionals' = conditionals \o Conditional(selfHosted[i])
  BY <1>3 DEF SelfHostedPostgres
<1>5. QED
  BY <1>1, <1>2, <1>4, SelfHostedSound, AddsBy DEF Turn

LEMMA ManagedAdds ==
  ASSUME EInv, ManagedPostgres
  PROVE  Adds({})
<1>1. SoundMap(files) /\ i \in Indices(managed)
  BY DEF EInv, Traced, ManagedPostgres, IInv, TypeOK, Indices
<1>2. UNCHANGED <<doc, selfHosted, managed>> /\ files' = EmitManagedPostgres(files, stackName, managed[i])
  BY DEF ManagedPostgres, Turn
<1>3. QED
  BY <1>1, <1>2, ManagedSound, AddsBy

LEMMA TargetsAdds ==
  ASSUME EInv, EgressTargets, TargetErrors = {}
  PROVE  Adds(IF waypointPresent THEN {App(NoName, "waypoint")} ELSE {})
<1>1. SoundMap(files)
  BY DEF EInv, Traced
<1>2. UNCHANGED <<doc, selfHosted, managed>>
  BY DEF EgressTargets, Emitted
<1>3. waypointPresent => files' = EmitWaypoint(files, stackName)
  BY DEF EgressTargets, Emitted
<1>4. ~waypointPresent => files' = files
  BY DEF EgressTargets, Emitted
<1>5. QED
  BY <1>1, <1>2, <1>3, <1>4, WaypointSound, AddsBy

LEMMA BackupAdds ==
  ASSUME EInv, BackupEgress
  PROVE  i \in Indices(selfHosted) /\ Adds(IF meshBackupTarget(i) THEN EdgePaths(BackupEdge(i).name) ELSE {})
<1>1. SoundMap(files) /\ i \in Indices(selfHosted)
  BY DEF EInv, Traced, BackupEgress, IInv, TypeOK, Indices
<1>2. UNCHANGED <<doc, selfHosted, managed>>
  BY DEF BackupEgress, Turn
<1>3. CASE meshBackupTarget(i)
  <2> DEFINE name == selfHosted[i].rpo.backupTo
  <2>1. files' = EmitBackupEgress(files, stackName, externalsByName(name), Consumers(selfHosted, name))
    BY <1>3 DEF BackupEgress, Turn
  <2>2. QED
    BY <1>1, <1>2, <1>3, <2>1, BackupSound, AddsBy
<1>4. CASE ~meshBackupTarget(i)
  <2>1. files' = files
    BY <1>4 DEF BackupEgress, Turn
  <2>2. QED
    BY <1>1, <1>2, <1>4, <2>1, AddsBy
<1>5. QED
  BY <1>3, <1>4

LEMMA NeonAdds ==
  ASSUME EInv, NeonEgress
  PROVE  /\ i \in Indices(managed)
         /\ Adds(IF neonTarget(managed[i]) THEN EdgePaths(NeonEdge(i).name) ELSE {})
         /\ pc' = pc /\ i' = i + 1
<1>1. SoundMap(files) /\ IInv /\ PastValidate /\ i \in Indices(managed)
  BY DEF EInv, Traced, NeonEgress, PastValidate, IInv, TypeOK, Indices
<1>2. ~(neonTarget(managed[i]) /\ managed[i].endpointHost.form = "none")
  BY <1>1, NoNeonDefect
<1>3. Turn(IF neonTarget(managed[i]) THEN EmitNeonEgress(files, stackName, managed[i]) ELSE files)
  BY <1>2 DEF NeonEgress
<1>4. CASE neonTarget(managed[i])
  <2>1. UNCHANGED <<doc, selfHosted, managed>> /\ files' = EmitNeonEgress(files, stackName, managed[i])
    BY <1>3, <1>4 DEF Turn
  <2>2. QED
    BY <1>1, <1>3, <1>4, <2>1, NeonSound, AddsBy DEF Turn
<1>5. CASE ~neonTarget(managed[i])
  <2>1. UNCHANGED <<doc, selfHosted, managed>> /\ files' = files
    BY <1>3, <1>5 DEF Turn
  <2>2. QED
    BY <1>1, <1>3, <1>5, <2>1, AddsBy DEF Turn
<1>6. QED
  BY <1>4, <1>5

LEMMA ControlPlaneAdds ==
  ASSUME EInv, ControlPlaneEgress
  PROVE  Adds(IF managed # <<>> THEN EdgePaths(NeonControlPlane) ELSE {})
<1>1. SoundMap(files)
  BY DEF EInv, Traced
<1>2. UNCHANGED <<doc, selfHosted, managed>>
  BY DEF ControlPlaneEgress, Emitted
<1>3. managed # <<>> => files' = EmitNeonControlPlaneEgress(files, stackName)
  BY DEF ControlPlaneEgress, Emitted
<1>4. managed = <<>> => files' = files
  BY DEF ControlPlaneEgress, Emitted
<1>5. QED
  BY <1>1, <1>2, <1>3, <1>4, ControlPlaneSound, AddsBy

\* The floor, when there is a mesh: its two policies, and the waypoint's if there is one.
BasePaths == {FloorPath("networkpolicy-default-deny-egress"), FloorPath("networkpolicy-allow-cluster-egress")}
LEMMA FloorAdds ==
  ASSUME EInv, Floor
  PROVE  /\ Adds(IF appMeshEnabled THEN BasePaths ELSE {})
         /\ waypointPresent => FloorPath("networkpolicy-allow-waypoint-egress") \in DOMAIN files'
<1>1. SoundMap(files)
  BY DEF EInv, Traced
<1>2. UNCHANGED <<doc, selfHosted, managed>>
  BY DEF Floor, Emitted
<1>3. CASE ~appMeshEnabled
  <2>1. files' = files
    BY <1>3 DEF Floor, Emitted
  <2>2. QED
    BY <1>1, <1>2, <1>3, <2>1, EdgesNeedTheMesh, AddsBy
<1>4. CASE appMeshEnabled
  <2> DEFINE base == EmitAllowClusterEgress(EmitDefaultDenyEgress(files, stackName), stackName)
  <2>1. SoundMap(base) /\ DOMAIN files \subseteq DOMAIN base /\ BasePaths \subseteq DOMAIN base
    BY <1>1, <1>4, BaseSound DEF BasePaths
  <2>2. CASE waypointPresent
    <3> DEFINE all == EmitAllowWaypointEgress(base, stackName)
    <3>1. files' = all
      BY <1>4, <2>2 DEF Floor, Emitted
    <3>2. /\ SoundMap(all)
          /\ DOMAIN base \subseteq DOMAIN all
          /\ FloorPath("networkpolicy-allow-waypoint-egress") \in DOMAIN all
      BY <1>4, <2>1, <2>2, WaypointFloorSound
    <3> HIDE DEF base, all
    <3>3. Adds(BasePaths)
      BY <1>2, <2>1, <3>1, <3>2, AddsBy
    <3>4. QED
      BY <1>4, <3>1, <3>2, <3>3
  <2>3. CASE ~waypointPresent
    <3>1. files' = base
      BY <1>4, <2>3 DEF Floor, Emitted
    <3> HIDE DEF base
    <3>2. QED
      BY <1>2, <1>4, <2>1, <2>3, <3>1, AddsBy
  <2>4. QED
    BY <2>2, <2>3
<1>5. QED
  BY <1>3, <1>4

LEMMA CNPGAdds ==
  ASSUME EInv, CNPGControlPlane
  PROVE  Adds({})
<1>1. SoundMap(files) /\ i \in Indices(selfHosted) /\ appMeshEnabled
  BY DEF EInv, Traced, CNPGControlPlane, IInv, TypeOK, Indices, FloorWanted
<1>2. UNCHANGED <<doc, selfHosted, managed>> /\ files' = EmitCNPGControlPlaneEgress(files, stackName, selfHosted[i])
  BY DEF CNPGControlPlane, Turn
<1>3. QED
  BY <1>1, <1>2, CNPGSound, AddsBy

LEMMA RunnerFloorAdds ==
  ASSUME EInv, RunnerControlPlane
  PROVE  Adds(IF managed # <<>> THEN {FloorPath("networkpolicy-tf-runner-controlplane-egress")} ELSE {})
<1>1. SoundMap(files) /\ appMeshEnabled
  BY DEF EInv, Traced, RunnerControlPlane, FloorWanted
<1>2. UNCHANGED <<doc, selfHosted, managed>>
  BY DEF RunnerControlPlane, Emitted
<1>3. managed # <<>> => files' = EmitManagedControlPlaneEgress(files, stackName)
  BY DEF RunnerControlPlane, Emitted
<1>4. managed = <<>> => files' = files
  BY DEF RunnerControlPlane, Emitted
<1>5. QED
  BY <1>1, <1>2, <1>3, <1>4, RunnerFloorSound, AddsBy

LEMMA DeclaredAdds ==
  ASSUME EInv, DeclaredEgress
  PROVE  i \in Indices(selfHosted) /\ Adds(IF FirstUse(selfHosted, i) THEN DeclaredPaths(i) ELSE {})
<1>1. SoundMap(files) /\ i \in Indices(selfHosted) /\ appMeshEnabled
  BY DEF EInv, Traced, DeclaredEgress, IInv, TypeOK, Indices, FloorWanted
<1>2. UNCHANGED <<doc, selfHosted, managed>>
  BY DEF DeclaredEgress, Turn
<1>3. CASE FirstUse(selfHosted, i)
  <2> DEFINE g == EmitDeclaredExternalEgress(files, stackName, BackupExternal(i),
                                            Consumers(selfHosted, selfHosted[i].rpo.backupTo))
  <2>1. files' = g
    BY <1>3 DEF DeclaredEgress, Turn, BackupExternal
  <2>2. selfHosted[i].rpo.declared
    BY <1>3 DEF FirstUse
  <2>3. SoundMap(g) /\ DOMAIN g = DOMAIN files \cup DeclaredPaths(i)
    BY <1>1, <2>2, DeclaredSound DEF DeclaredPaths
  <2> HIDE DEF g
  <2>4. QED
    BY <1>1, <1>2, <1>3, <2>1, <2>3, AddsBy
<1>4. CASE ~FirstUse(selfHosted, i)
  <2>1. files' = files
    BY <1>4 DEF DeclaredEgress, Turn
  <2>2. QED
    BY <1>1, <1>2, <1>4, <2>1, AddsBy
<1>5. QED
  BY <1>3, <1>4

LEMMA KustomizationAdds ==
  ASSUME EInv, AppKustomization
  PROVE  Adds({AppKustomizationPath})
<1>1. SoundMap(files)
  BY DEF EInv, Traced
<1>2. UNCHANGED <<doc, selfHosted, managed>> /\ files' = EmitAppKustomization(files, stackName, selfHosted # <<>>)
  BY DEF AppKustomization, Emitted
<1>3. QED
  BY <1>1, <1>2, KustomizationSound, AddsBy

-----------------------------------------------------------------------------
(* One step past the partition, unless it refuses                          *)

Walks ==
    \/ UNCHANGED <<pc, i, files>>
    \/ CNPGOperator /\ pc = "operator" /\ pc' = "namespace"
    \/ AppNamespace /\ pc = "namespace" /\ pc' = "rbac"
    \/ pc = "rbac" /\ pc' = "selfHosted" /\ i' = 1
    \/ SelfHostedPostgres /\ pc = "selfHosted" /\ pc' = "selfHosted" /\ i' = i + 1
    \/ pc = "selfHosted" /\ pc' = "managed" /\ i > Len(selfHosted)
    \/ pc = "managed" /\ pc' \in {"managed", "targets"}
    \/ EgressTargets /\ TargetErrors = {} /\ pc = "targets" /\ waypointPresent /\ pc' = "backupEgress" /\ i' = 1
    \/ pc = "targets" /\ ~waypointPresent /\ pc' = "floor"
    \/ BackupEgress /\ pc = "backupEgress" /\ pc' = "backupEgress" /\ i' = i + 1
    \/ pc = "backupEgress" /\ pc' = "neonEgress" /\ i > Len(selfHosted) /\ i' = 1
    \/ NeonEgress /\ pc = "neonEgress" /\ pc' = "neonEgress" /\ i' = i + 1
    \/ pc = "neonEgress" /\ pc' = "controlPlane" /\ i > Len(managed)
    \/ ControlPlaneEgress /\ pc = "controlPlane" /\ pc' = "floor"
    \/ Floor /\ pc = "floor" /\ appMeshEnabled /\ pc' = "cnpgControlPlane"
    \/ pc = "floor" /\ ~appMeshEnabled /\ pc' = "kustomization"
    \/ pc = "cnpgControlPlane" /\ pc' \in {"cnpgControlPlane", "runnerControlPlane"}
    \/ RunnerControlPlane /\ pc = "runnerControlPlane" /\ pc' = "declaredEgress" /\ i' = 1
    \/ DeclaredEgress /\ pc = "declaredEgress" /\ pc' = "declaredEgress" /\ i' = i + 1
    \/ pc = "declaredEgress" /\ pc' = "kustomization" /\ i > Len(selfHosted)
    \/ AppKustomization /\ pc = "kustomization" /\ pc' = "done"

Walked ==
    /\ pc \in FromOperator
    /\ Traced' /\ Grows
    /\ Walks
    /\ SelfHostedPostgres \/ conditionals' = conditionals

\* All that follows changes no object of the file map.
LEMMA SameFiles ==
  ASSUME EInv, UNCHANGED <<doc, selfHosted, managed, files>>
  PROVE  Traced' /\ Grows
<1>1. SoundMap(files')
  BY DEF EInv, Traced
<1>2. QED
  BY <1>1, TracedNext DEF Grows

LEMMA CallsWalk ==
  ASSUME EInv, pc' # "refused",
         \/ CNPGOperator \/ AppNamespace \/ ManagedRunnerRBAC \/ SelfHostedPostgres \/ ManagedPostgres
         \/ EgressTargets \/ BackupEgress \/ NeonEgress \/ ControlPlaneEgress \/ Floor \/ CNPGControlPlane
         \/ RunnerControlPlane \/ DeclaredEgress \/ AppKustomization
  PROVE  Walked
<1> USE DEF FromOperator, FromNamespace, FromRBAC, FromSelfHosted, FromManaged, FromTargets, FromBackupEgress,
            FromNeonEgress, FromControlPlane, FromFloor, FromCNPGControlPlane, FromRunnerControlPlane,
            FromDeclaredEgress, FromKustomization
<1>1. CASE CNPGOperator
  BY <1>1, OperatorAdds DEF Adds, CNPGOperator, Emitted, Goto, Walked, Walks
<1>2. CASE AppNamespace
  BY <1>2, NamespaceAdds DEF Adds, AppNamespace, Emitted, Goto, Walked, Walks
<1>3. CASE ManagedRunnerRBAC
  BY <1>3, RunnerAdds DEF Adds, ManagedRunnerRBAC, Emitted, Goto, Walked, Walks
<1>4. CASE SelfHostedPostgres
  BY <1>4, SelfHostedAdds DEF Adds, SelfHostedPostgres, Walked, Walks
<1>5. CASE ManagedPostgres
  BY <1>5, ManagedAdds DEF Adds, ManagedPostgres, Turn, Walked, Walks
<1>6. CASE EgressTargets
  <2>1. TargetErrors = {}
    BY <1>6 DEF EgressTargets, Refuse, Goto
  <2>2. Traced' /\ Grows
    BY <1>6, <2>1, TargetsAdds DEF Adds
  <2>3. /\ pc = "targets" /\ conditionals' = conditionals /\ i' = 1
        /\ waypointPresent => pc' = "backupEgress"
        /\ ~waypointPresent => pc' = "floor"
    BY <1>6, <2>1 DEF EgressTargets, Emitted, Goto
  <2>4. QED
    BY <1>6, <2>1, <2>2, <2>3 DEF Walked, Walks
<1>7. CASE BackupEgress
  BY <1>7, BackupAdds DEF Adds, BackupEgress, Turn, Walked, Walks
<1>8. CASE NeonEgress
  <2>1. pc = "neonEgress" /\ conditionals' = conditionals
    BY <1>8 DEF NeonEgress, Refuse, Goto
  <2>2. QED
    BY <1>8, <2>1, NeonAdds DEF Adds, Walked, Walks
<1>9. CASE ControlPlaneEgress
  BY <1>9, ControlPlaneAdds DEF Adds, ControlPlaneEgress, Emitted, Goto, Walked, Walks
<1>10. CASE Floor
  <2>1. Traced' /\ Grows
    BY <1>10, FloorAdds DEF Adds
  <2>2. /\ pc = "floor" /\ conditionals' = conditionals
        /\ appMeshEnabled => pc' = "cnpgControlPlane"
        /\ ~appMeshEnabled => pc' = "kustomization"
    BY <1>10 DEF Floor, Emitted, Goto
  <2>3. QED
    BY <1>10, <2>1, <2>2 DEF Walked, Walks
<1>11. CASE CNPGControlPlane
  BY <1>11, CNPGAdds DEF Adds, CNPGControlPlane, Turn, Walked, Walks
<1>12. CASE RunnerControlPlane
  BY <1>12, RunnerFloorAdds DEF Adds, RunnerControlPlane, Emitted, Goto, Walked, Walks
<1>13. CASE DeclaredEgress
  BY <1>13, DeclaredAdds DEF Adds, DeclaredEgress, Turn, Walked, Walks
<1>14. CASE AppKustomization
  BY <1>14, KustomizationAdds DEF Adds, AppKustomization, Emitted, Goto, Walked, Walks
<1>15. QED
  BY <1>1, <1>2, <1>3, <1>4, <1>5, <1>6, <1>7, <1>8, <1>9, <1>10, <1>11, <1>12, <1>13, <1>14

LEMMA LoopsWalk ==
  ASSUME EInv, EndOfLoops
  PROVE  Walked
<1> USE DEF FromOperator, FromNamespace, FromRBAC, FromSelfHosted, FromManaged, FromTargets, FromBackupEgress,
            FromNeonEgress, FromControlPlane, FromFloor, FromCNPGControlPlane, FromRunnerControlPlane,
            FromDeclaredEgress, FromKustomization
<1>1. UNCHANGED <<doc, selfHosted, managed, files, conditionals>>
  BY DEF EndOfLoops, EndLoop
<1>2. Traced' /\ Grows
  BY <1>1, SameFiles
<1>3. pc \in FromOperator /\ Walks
  BY DEF EndOfLoops, EndLoop, Goto, Walks
<1>4. QED
  BY <1>1, <1>2, <1>3 DEF Walked

-----------------------------------------------------------------------------
(* The partition                                                           *)

LEMMA NamesOnce ==
  ASSUME NEW d \in Document, Validate(d) = {}
  PROVE  Distinct(d.components) /\ Distinct(d.externals)
<1>1. ASSUME NEW s, Repeated(s) = {}, NEW j \in Indices(s), NEW k \in Indices(s), s[j].name = s[k].name, Len(s) \in Nat
      PROVE  j = k
  <2>1. ASSUME NEW m \in Indices(s), NEW n \in Indices(s), m < n PROVE s[m].name # s[n].name
    <3>1. m \in 1 .. n - 1
      BY <1>1, <2>1 DEF Indices
    <3>2. QED
      BY <1>1, <3>1 DEF Repeated
  <2>2. j \in Int /\ k \in Int
    BY DEF Indices
  <2>3. QED
    BY <1>1, <2>1, <2>2
<1>2. Len(d.components) \in Nat /\ Len(d.externals) \in Nat
  BY DEF Document
<1>3. Repeated(d.components) = {} /\ Repeated(d.externals) = {}
  <2>1. /\ {<<"duplicateComponent", n>> : n \in Repeated(d.components)} = {}
        /\ {<<"duplicateExternal", n>> : n \in Repeated(d.externals)} = {}
    BY DEF Validate
  <2>2. QED
    BY <2>1
<1>4. QED
  BY <1>1, <1>2, <1>3 DEF Distinct

Lengthened(t, s, c) ==
    /\ \A k \in Indices(t) : \/ k \in Indices(s) /\ t[k] = s[k]
                             \/ k = Len(s) + 1 /\ t[k] = c
    /\ \A x \in Elements(s) : x \in Elements(t)
    /\ c \in Elements(t)
LEMMA AppendFacts ==
  ASSUME NEW S, NEW s \in Seq(S), NEW c \in S, NEW t, t = Append(s, c)
  PROVE  Lengthened(t, s, c)
<1>1. Len(t) = Len(s) + 1 /\ Len(s) \in Nat
  OBVIOUS
<1>2. Indices(t) = Indices(s) \cup {Len(s) + 1}
  BY <1>1 DEF Indices
<1>3. (\A k \in Indices(s) : t[k] = s[k]) /\ t[Len(s) + 1] = c
  BY DEF Indices
<1>4. \A x \in Elements(s) : x \in Elements(t)
  BY <1>2, <1>3 DEF Elements
<1>5. c \in Elements(t)
  BY <1>2, <1>3 DEF Elements
<1>6. QED
  BY <1>2, <1>3, <1>4, <1>5 DEF Lengthened

\* One turn of Emit's first loop, for the side `side` the component joins or not.
Grown(side, grown) ==
    /\ Distinct(grown)
    /\ Elements(side) \subseteq Elements(grown)
    /\ grown = Append(side, doc.components[i]) => doc.components[i] \in Elements(grown)
    /\ \A k \in Indices(grown) : \E m \in Indices(doc.components) : m < i + 1 /\ grown[k] = doc.components[m]
LEMMA SideGrows ==
  ASSUME EInv, pc = "partition", i \in Indices(doc.components),
         NEW side \in Seq(Elements(doc.components)), Distinct(side), \A k \in Indices(side) : Before(side[k]),
         NEW grown, grown = side \/ grown = Append(side, doc.components[i])
  PROVE  Grown(side, grown)
<1> DEFINE c == doc.components[i]
<1> c \in Elements(doc.components)
  BY DEF Elements
<1>1. Distinct(doc.components)
  BY NamesOnce, DocumentsAssumption DEF EInv, IInv, TypeOK, Valid, PastValidate
<1>2. i \in Nat /\ \A m \in Indices(doc.components) : m \in Int
  BY DEF EInv, IInv, TypeOK, Indices
<1>3. CASE grown = side
  <2>1. grown # Append(side, c)
    <3>1. Len(Append(side, c)) = Len(side) + 1 /\ Len(side) \in Nat
      OBVIOUS
    <3>2. QED
      BY <1>3, <3>1
  <2>2. QED
    BY <1>2, <1>3, <2>1 DEF Before, Grown
<1>4. CASE grown = Append(side, c)
  <2>1. Lengthened(grown, side, c)
    BY <1>4, AppendFacts
  <2>2. ASSUME NEW k \in Indices(side) PROVE side[k].name # c.name
    <3>1. PICK m \in Indices(doc.components) : m < i /\ side[k] = doc.components[m]
      BY DEF Before
    <3>2. m # i
      BY <1>2, <3>1
    <3>3. QED
      BY <1>1, <3>1, <3>2 DEF Distinct
  <2>3. Distinct(grown)
    BY <2>1, <2>2 DEF Distinct, Lengthened
  <2>4. ASSUME NEW k \in Indices(grown)
        PROVE  \E m \in Indices(doc.components) : m < i + 1 /\ grown[k] = doc.components[m]
    BY <1>2, <2>1 DEF Before, Lengthened
  <2>5. Elements(side) \subseteq Elements(grown) /\ c \in Elements(grown)
    BY <2>1 DEF Lengthened
  <2>6. QED
    BY <2>3, <2>4, <2>5 DEF Grown
<1>5. QED
  BY <1>3, <1>4

LEMMA PartitionTurn ==
  ASSUME EInv, PartitionComponents
  PROVE  PartitionInv'
<1> DEFINE c == doc.components[i]
<1>1. /\ pc = "partition" /\ pc' = "partition" /\ i' = i + 1 /\ doc' = doc
      /\ selfHosted' = IF Joins(c, SelfHosted) THEN Append(selfHosted, c) ELSE selfHosted
      /\ managed' = IF Joins(c, Managed) THEN Append(managed, c) ELSE managed
  BY DEF PartitionComponents
<1>2. i \in Nat /\ i \in Indices(doc.components) /\ c \in Elements(doc.components)
  <2>1. doc.components \in Seq(Postgres)
    BY DocumentsAssumption DEF EInv, IInv, TypeOK, Document
  <2>2. i \in Nat \ {0} /\ i <= Len(doc.components)
    BY DEF PartitionComponents, EInv, IInv, TypeOK
  <2>3. QED
    BY <2>1, <2>2 DEF Indices, Elements
<1>3. /\ Distinct(selfHosted) /\ \A k \in Indices(selfHosted) : Before(selfHosted[k])
      /\ Distinct(managed) /\ \A k \in Indices(managed) : Before(managed[k])
      /\ \A k \in Indices(doc.components) :
           k < i /\ checkRPOSatisfiable(doc.components[k]) => Placed(doc.components[k])
  BY <1>1 DEF EInv, PartitionInv
<1>4. selfHosted \in Seq(Elements(doc.components)) /\ managed \in Seq(Elements(doc.components))
  BY DEF EInv, IInv, TypeOK, OfPlacement
<1>5. /\ Distinct(selfHosted')
      /\ Elements(selfHosted) \subseteq Elements(selfHosted')
      /\ Joins(c, SelfHosted) => c \in Elements(selfHosted')
      /\ \A k \in Indices(selfHosted') :
           \E m \in Indices(doc.components) : m < i + 1 /\ selfHosted'[k] = doc.components[m]
  <2>1. selfHosted' = selfHosted \/ selfHosted' = Append(selfHosted, doc.components[i])
    BY <1>1
  <2>2. Grown(selfHosted, selfHosted')
    BY <1>1, <1>2, <1>3, <1>4, <2>1, SideGrows
  <2>3. QED
    BY <1>1, <2>2 DEF Grown
<1>6. /\ Distinct(managed')
      /\ Elements(managed) \subseteq Elements(managed')
      /\ Joins(c, Managed) => c \in Elements(managed')
      /\ \A k \in Indices(managed') :
           \E m \in Indices(doc.components) : m < i + 1 /\ managed'[k] = doc.components[m]
  <2>1. managed' = managed \/ managed' = Append(managed, doc.components[i])
    BY <1>1
  <2>2. Grown(managed, managed')
    BY <1>1, <1>2, <1>3, <1>4, <2>1, SideGrows
  <2>3. QED
    BY <1>1, <2>2 DEF Grown
<1>7. ASSUME NEW k \in Indices(doc.components), k < i + 1, checkRPOSatisfiable(doc.components[k])
      PROVE  Placed(doc.components[k])'
  <2>1. CASE k < i
    BY <1>1, <1>3, <1>5, <1>6, <1>7, <2>1 DEF Placed
  <2>2. CASE k = i
    BY <1>1, <1>5, <1>6, <1>7, <2>2 DEF Placed, Joins
  <2>3. k \in Int
    BY DEF Indices
  <2>4. QED
    BY <1>2, <1>7, <2>1, <2>2, <2>3
<1>8. \A k \in Indices(selfHosted') : Before(selfHosted[k])'
  BY <1>1, <1>5 DEF Before
<1>9. \A k \in Indices(managed') : Before(managed[k])'
  BY <1>1, <1>6 DEF Before
<1>10. pc' \notin {"load", "validate"} /\ pc' \notin FromOperator
  BY <1>1 DEF FromOperator, FromNamespace, FromRBAC, FromSelfHosted, FromManaged, FromTargets, FromBackupEgress,
            FromNeonEgress, FromControlPlane, FromFloor, FromCNPGControlPlane, FromRunnerControlPlane,
            FromDeclaredEgress, FromKustomization
<1>11. QED
  BY <1>1, <1>5, <1>6, <1>7, <1>8, <1>9, <1>10 DEF PartitionInv, Distinct, checkRPOSatisfiable

\* The partition ends without an error: every component is on its side.
LEMMA PartitionEnd ==
  ASSUME EInv, Partitioned, pc' # "refused"
  PROVE  PartitionInv'
<1>1. /\ pc = "partition" /\ pc' = "operator" /\ UNCHANGED <<doc, selfHosted, managed>>
      /\ PartitionErrors = {} /\ i > Len(doc.components)
  BY DEF Partitioned, Refuse, Emitted, Goto
<1>2. ASSUME NEW c \in Elements(doc.components) PROVE Placed(c)'
  <2>1. PICK k \in Indices(doc.components) : c = doc.components[k]
    BY DEF Elements
  <2>2. k < i
    <3>1. doc.components \in Seq(Postgres) /\ i \in Nat
      BY DocumentsAssumption DEF EInv, IInv, TypeOK, Document
    <3>2. QED
      BY <1>1, <3>1 DEF Indices
  <2>3. checkRPOSatisfiable(c)
    BY <1>1 DEF PartitionErrors
  <2>4. Placed(c)
    BY <1>1, <2>1, <2>2, <2>3 DEF EInv, PartitionInv
  <2>5. QED
    BY <1>1, <2>4 DEF Placed
<1>3. Distinct(selfHosted)' /\ Distinct(managed)'
  BY <1>1 DEF EInv, PartitionInv, Distinct
<1>4. QED
  BY <1>1, <1>2, <1>3 DEF PartitionInv

LEMMA PartitionKept ==
  ASSUME EInv, UNCHANGED <<doc, selfHosted, managed>>,
         \/ pc' = "refused"
         \/ pc \in FromOperator /\ pc' \notin {"load", "validate", "partition"}
         \/ pc \in {"load", "validate"} /\ pc' \in {"validate", "partition"} /\ i' = 1
         \/ UNCHANGED <<pc, i>>
  PROVE  PartitionInv'
<1> USE DEF FromOperator, FromNamespace, FromRBAC, FromSelfHosted, FromManaged, FromTargets, FromBackupEgress,
            FromNeonEgress, FromControlPlane, FromFloor, FromCNPGControlPlane, FromRunnerControlPlane,
            FromDeclaredEgress, FromKustomization
<1>1. Distinct(selfHosted)' /\ Distinct(managed)'
  BY DEF EInv, PartitionInv, Distinct
<1>2. CASE pc' = "refused"
  BY <1>1, <1>2 DEF PartitionInv
<1>3. CASE pc \in FromOperator /\ pc' \notin {"load", "validate", "partition"}
  BY <1>1, <1>3 DEF EInv, PartitionInv, Placed
<1>4. CASE pc \in {"load", "validate"} /\ pc' \in {"validate", "partition"} /\ i' = 1
  <2>1. selfHosted = <<>> /\ managed = <<>>
    BY <1>4 DEF EInv, PartitionInv
  <2>2. Indices(<<>>) = {} /\ \A k \in Indices(doc.components) : ~ k < 1
    BY DEF Indices
  <2>3. QED
    BY <1>1, <1>4, <2>1, <2>2 DEF PartitionInv
<1>5. CASE UNCHANGED <<pc, i>>
  BY <1>1, <1>5 DEF EInv, PartitionInv, Placed, Before
<1>6. QED
  BY <1>2, <1>3, <1>4, <1>5

-----------------------------------------------------------------------------
(* What is written after each step                                         *)

\* The conditions and paths of a settled partition stay what they are.
LEMMA SettledTerms ==
  ASSUME UNCHANGED <<doc, selfHosted, managed>>
  PROVE  /\ waypointPresent' = waypointPresent
         /\ appMeshEnabled' = appMeshEnabled
         /\ \A k : meshBackupTarget(k)' = meshBackupTarget(k)
         /\ \A k : BackupEdge(k)' = BackupEdge(k)
         /\ \A k : NeonEdge(k)' = NeonEdge(k)
         /\ \A k : DeclaredPaths(k)' = DeclaredPaths(k)
         /\ AppKustomizationPath' = AppKustomizationPath
<1>1. \A k : meshBackupTarget(k)' = meshBackupTarget(k)
  BY DEF meshBackupTarget, externalsByName
<1>2. waypointPresent' = waypointPresent
  BY DEF waypointPresent, neonTarget, meshBackupTarget, externalsByName
<1>3. appMeshEnabled' = appMeshEnabled
  BY DEF appMeshEnabled, mtlsEnabled, egressNeeded
<1>4. \A k : BackupEdge(k)' = BackupEdge(k)
  BY DEF BackupEdge, BackupExternal, externalsByName, stackName
<1>5. \A k : NeonEdge(k)' = NeonEdge(k)
  BY DEF NeonEdge, stackName
<1>6. \A k : DeclaredPaths(k)' = DeclaredPaths(k)
  BY DEF DeclaredPaths, BackupExternal, externalsByName
<1>7. AppKustomizationPath' = AppKustomizationPath
  BY DEF AppKustomizationPath, stackName
<1>8. QED
  BY <1>1, <1>2, <1>3, <1>4, <1>5, <1>6, <1>7

LEMMA LayersStep ==
  ASSUME EInv, Walked
  PROVE  LayersWritten' /\ FloorWanted'
<1> USE DEF FromOperator, FromNamespace, FromRBAC, FromSelfHosted, FromManaged, FromTargets, FromBackupEgress,
            FromNeonEgress, FromControlPlane, FromFloor, FromCNPGControlPlane, FromRunnerControlPlane,
            FromDeclaredEgress, FromKustomization
<1>1. UNCHANGED <<doc, selfHosted, managed>> /\ DOMAIN files \subseteq DOMAIN files' /\ Walks
  BY DEF Walked, Grows
<1>2. ASSUME pc' \in FromNamespace, selfHosted # <<>>
      PROVE  {InfraPath("namespace"), InfraPath("helmrelease"), OperatorKustomizationPath} \subseteq DOMAIN files'
  <2>1. pc \in FromNamespace \/ CNPGOperator
    BY <1>1, <1>2 DEF Walked, Walks
  <2>2. QED
    BY <1>1, <1>2, <2>1, OperatorAdds DEF Adds, EInv, LayersWritten, Written
<1>3. ASSUME pc' \in FromRBAC PROVE App(NoName, "namespace") \in DOMAIN files'
  <2>1. pc \in FromRBAC \/ AppNamespace
    BY <1>1, <1>3 DEF Walked, Walks
  <2>2. QED
    BY <1>1, <1>3, <2>1, NamespaceAdds DEF Adds, EInv, LayersWritten, Written
<1>4. ASSUME pc' = "done" PROVE AppKustomizationPath \in DOMAIN files'
  <2>1. pc = "done" \/ AppKustomization
    BY <1>1, <1>4 DEF Walked, Walks
  <2>2. QED
    BY <1>1, <1>4, <2>1, KustomizationAdds DEF Adds, EInv, LayersWritten, Written
<1>5. FloorWanted'
  BY <1>1, SettledTerms DEF Walks, EInv, FloorWanted
<1>6. QED
  BY <1>1, <1>2, <1>3, <1>4, <1>5, SettledTerms DEF LayersWritten, Written

LEMMA DatabasesStep ==
  ASSUME EInv, Walked
  PROVE  DatabasesWritten'
<1> USE DEF FromOperator, FromNamespace, FromRBAC, FromSelfHosted, FromManaged, FromTargets, FromBackupEgress,
            FromNeonEgress, FromControlPlane, FromFloor, FromCNPGControlPlane, FromRunnerControlPlane,
            FromDeclaredEgress, FromKustomization
<1>1. UNCHANGED <<doc, selfHosted, managed>> /\ DOMAIN files \subseteq DOMAIN files' /\ Walks
  BY DEF Walked, Grows
<1>2. i \in Nat \ {0}
  BY DEF EInv, IInv, TypeOK
<1>3. ASSUME NEW k \in Indices(selfHosted), Turned("selfHosted", FromManaged, k)'
      PROVE  SelfHostedPaths(selfHosted[k]) \subseteq DOMAIN files'
  <2>1. k \in 1 .. Len(selfHosted)
    BY DEF Indices
  <2>2. Turned("selfHosted", FromManaged, k) \/ (SelfHostedPostgres /\ k = i)
    BY <1>1, <1>2, <1>3, <2>1 DEF Walks, Turned
  <2>3. QED
    BY <1>1, <2>2, SelfHostedAdds DEF Adds, EInv, DatabasesWritten, Written
<1>4. QED
  BY <1>1, <1>3 DEF DatabasesWritten, Written

LEMMA EdgesStep ==
  ASSUME EInv, Walked
  PROVE  EdgesWritten'
<1> USE DEF FromOperator, FromNamespace, FromRBAC, FromSelfHosted, FromManaged, FromTargets, FromBackupEgress,
            FromNeonEgress, FromControlPlane, FromFloor, FromCNPGControlPlane, FromRunnerControlPlane,
            FromDeclaredEgress, FromKustomization
<1>1. UNCHANGED <<doc, selfHosted, managed>> /\ DOMAIN files \subseteq DOMAIN files' /\ Walks
  BY DEF Walked, Grows
<1>2. i \in Nat \ {0}
  BY DEF EInv, IInv, TypeOK
<1>3. ASSUME pc' \in FromBackupEgress, waypointPresent
      PROVE  App(NoName, "waypoint") \in DOMAIN files'
  <2>1. pc \in FromBackupEgress \/ (EgressTargets /\ TargetErrors = {})
    BY <1>1, <1>3 DEF Walks
  <2>2. QED
    BY <1>1, <1>3, <2>1, TargetsAdds DEF Adds, EInv, EdgesWritten, Written
<1>4. ASSUME NEW k \in Indices(selfHosted), meshBackupTarget(k), Turned("backupEgress", FromNeonEgress, k)'
      PROVE  EdgePaths(BackupEdge(k).name) \subseteq DOMAIN files'
  <2>1. waypointPresent
    BY <1>4 DEF waypointPresent
  <2>2. k \in 1 .. Len(selfHosted)
    BY DEF Indices
  <2>3. Turned("backupEgress", FromNeonEgress, k) \/ (BackupEgress /\ k = i)
    BY <1>1, <1>2, <1>4, <2>1, <2>2 DEF Walks, Turned
  <2>4. QED
    BY <1>1, <1>4, <2>3, BackupAdds DEF Adds, EInv, EdgesWritten, Written
<1>5. ASSUME NEW k \in Indices(managed), neonTarget(managed[k]), Turned("neonEgress", FromControlPlane, k)'
      PROVE  EdgePaths(NeonEdge(k).name) \subseteq DOMAIN files'
  <2>1. k \in 1 .. Len(managed)
    BY DEF Indices
  <2>2. waypointPresent
    BY <1>5 DEF waypointPresent, Elements
  <2>3. Turned("neonEgress", FromControlPlane, k) \/ (NeonEgress /\ k = i)
    BY <1>1, <1>2, <1>5, <2>1, <2>2 DEF Walks, Turned
  <2>4. QED
    BY <1>1, <1>5, <2>3, NeonAdds DEF Adds, EInv, EdgesWritten, Written
<1>6. ASSUME pc' \in FromFloor, managed # <<>> PROVE EdgePaths(NeonControlPlane) \subseteq DOMAIN files'
  <2>1. pc \in FromFloor \/ ControlPlaneEgress
    BY <1>1, <1>6, EdgesNeedTheMesh DEF Walks
  <2>2. QED
    BY <1>1, <1>6, <2>1, ControlPlaneAdds DEF Adds, EInv, EdgesWritten, Written
<1>7. QED
  BY <1>1, <1>3, <1>4, <1>5, <1>6, SettledTerms DEF EdgesWritten, Written

LEMMA FloorStep ==
  ASSUME EInv, Walked
  PROVE  FloorWritten'
<1> USE DEF FromOperator, FromNamespace, FromRBAC, FromSelfHosted, FromManaged, FromTargets, FromBackupEgress,
            FromNeonEgress, FromControlPlane, FromFloor, FromCNPGControlPlane, FromRunnerControlPlane,
            FromDeclaredEgress, FromKustomization
<1>1. UNCHANGED <<doc, selfHosted, managed>> /\ DOMAIN files \subseteq DOMAIN files' /\ Walks
  BY DEF Walked, Grows
<1>2. i \in Nat \ {0}
  BY DEF EInv, IInv, TypeOK
<1>3. ASSUME pc' \in FromCNPGControlPlane, appMeshEnabled
      PROVE  /\ BasePaths \subseteq DOMAIN files'
             /\ waypointPresent => FloorPath("networkpolicy-allow-waypoint-egress") \in DOMAIN files'
  <2>1. pc \in FromCNPGControlPlane \/ Floor
    BY <1>1, <1>3 DEF Walks
  <2>2. CASE pc \in FromCNPGControlPlane
    BY <1>1, <1>3, <2>2 DEF EInv, FloorWritten, Written, BasePaths
  <2>3. CASE Floor
    BY <1>3, <2>3, FloorAdds DEF Adds
  <2>4. QED
    BY <2>1, <2>2, <2>3
<1>4. ASSUME pc' \in FromDeclaredEgress, managed # <<>>
      PROVE  FloorPath("networkpolicy-tf-runner-controlplane-egress") \in DOMAIN files'
  <2>1. pc \in FromDeclaredEgress \/ RunnerControlPlane
    BY <1>1, <1>4, EdgesNeedTheMesh DEF Walks
  <2>2. QED
    BY <1>1, <1>4, <2>1, RunnerFloorAdds DEF Adds, EInv, FloorWritten, Written
<1>5. ASSUME NEW k \in Indices(selfHosted), FirstUse(selfHosted, k), Turned("declaredEgress", FromKustomization, k)'
      PROVE  DeclaredPaths(k) \subseteq DOMAIN files'
  <2>1. k \in 1 .. Len(selfHosted)
    BY DEF Indices
  <2>2. appMeshEnabled
    BY <1>5, EdgesNeedTheMesh
  <2>3. Turned("declaredEgress", FromKustomization, k) \/ (DeclaredEgress /\ k = i)
    BY <1>1, <1>2, <1>5, <2>1, <2>2 DEF Walks, Turned
  <2>4. QED
    BY <1>1, <1>5, <2>3, DeclaredAdds DEF Adds, EInv, FloorWritten, Written
<1>6. waypointPresent => appMeshEnabled
  BY EdgesNeedTheMesh
<1>7. QED
  BY <1>1, <1>3, <1>4, <1>5, <1>6, SettledTerms DEF FloorWritten, Written, BasePaths

\* The loop over the self-hosted components turns once per component, and only
\* that turn adds a notice.
LEMMA TurnsOnce ==
  ASSUME EInv, Walked, NEW k \in Indices(selfHosted)
  PROVE  Turned("selfHosted", FromManaged, k)' <=> Turned("selfHosted", FromManaged, k) \/ (SelfHostedPostgres /\ k = i)
<1> USE DEF FromOperator, FromNamespace, FromRBAC, FromSelfHosted, FromManaged, FromTargets, FromBackupEgress,
            FromNeonEgress, FromControlPlane, FromFloor, FromCNPGControlPlane, FromRunnerControlPlane,
            FromDeclaredEgress, FromKustomization
<1>1. Walks
  BY DEF Walked
<1>2. i \in Nat \ {0} /\ k \in 1 .. Len(selfHosted)
  BY DEF EInv, IInv, TypeOK, Indices
<1>3. SelfHostedPostgres => pc = "selfHosted" /\ pc' = "selfHosted" /\ i' = i + 1
  BY SelfHostedAdds DEF SelfHostedPostgres
<1>4. CASE SelfHostedPostgres
  BY <1>2, <1>3, <1>4 DEF Turned
<1>5. CASE ~SelfHostedPostgres
  BY <1>1, <1>2, <1>5 DEF Turned, Walks
<1>6. QED
  BY <1>4, <1>5

LEMMA NoticesKept ==
  ASSUME EInv, Walked, conditionals' = conditionals,
         SelfHostedPostgres => ~selfHosted[i].rpo.declared
  PROVE  NoticesInv'
<1> USE DEF FromOperator, FromNamespace, FromRBAC, FromSelfHosted, FromManaged, FromTargets, FromBackupEgress,
            FromNeonEgress, FromControlPlane, FromFloor, FromCNPGControlPlane, FromRunnerControlPlane,
            FromDeclaredEgress, FromKustomization
<1>1. UNCHANGED <<doc, selfHosted, managed>> /\ Walks
  BY DEF Walked, Grows
<1>2. pc' \notin FromSelfHosted => pc \notin FromSelfHosted
  BY <1>1 DEF Walks
<1>3. ASSUME NEW n \in Indices(conditionals)
      PROVE  \E k \in Indices(selfHosted) :
               /\ selfHosted[k].rpo.declared
               /\ Turned("selfHosted", FromManaged, k)'
               /\ conditionals[n] = Notice(selfHosted[k])
  BY TurnsOnce DEF EInv, NoticesInv
<1>4. ASSUME NEW k \in Indices(selfHosted), selfHosted[k].rpo.declared, Turned("selfHosted", FromManaged, k)'
      PROVE  \E n \in Indices(conditionals) : conditionals[n] = Notice(selfHosted[k])
  BY <1>4, TurnsOnce DEF EInv, NoticesInv
<1>5. /\ pc' \notin FromSelfHosted => conditionals = <<>>
      /\ \A m, n \in Indices(conditionals) : conditionals[m].component = conditionals[n].component => m = n
  BY <1>2 DEF EInv, NoticesInv
<1>6. QED
  BY <1>1, <1>3, <1>4, <1>5 DEF NoticesInv

LEMMA NoticeAdded ==
  ASSUME EInv, Walked, SelfHostedPostgres, selfHosted[i].rpo.declared
  PROVE  NoticesInv'
<1> DEFINE S == {Notice(c) : c \in Elements(doc.components)}
           pg == selfHosted[i]
<1>1. /\ i \in Indices(selfHosted) /\ pc = "selfHosted" /\ pc' = "selfHosted" /\ UNCHANGED selfHosted
      /\ conditionals' = conditionals \o <<Notice(pg)>>
  BY SelfHostedAdds DEF SelfHostedPostgres, Conditional, Adds, Grows
<1>2. conditionals \in Seq(S) /\ Notice(pg) \in S
  BY <1>1, PartMembers DEF EInv, IInv, TypeOK
<1>3. conditionals' = Append(conditionals, Notice(pg))
  BY <1>1, <1>2
<1>4. Lengthened(conditionals', conditionals, Notice(pg))
  BY <1>2, <1>3, AppendFacts
<1>5. \A k \in Indices(selfHosted) : Turned("selfHosted", FromManaged, k) <=> k < i
  BY <1>1 DEF Turned, FromManaged, FromTargets, FromBackupEgress, FromNeonEgress, FromControlPlane, FromFloor,
              FromCNPGControlPlane, FromRunnerControlPlane, FromDeclaredEgress, FromKustomization
<1>6. \A k \in Indices(selfHosted) : Turned("selfHosted", FromManaged, k)' <=> k < i \/ k = i
  BY <1>5, TurnsOnce
<1>7. pc' \in FromSelfHosted
  BY <1>1 DEF FromSelfHosted
<1>8. ASSUME NEW n \in Indices(conditionals')
      PROVE  \E k \in Indices(selfHosted) :
               /\ selfHosted[k].rpo.declared
               /\ Turned("selfHosted", FromManaged, k)'
               /\ conditionals'[n] = Notice(selfHosted[k])
  <2>1. CASE n \in Indices(conditionals) /\ conditionals'[n] = conditionals[n]
    BY <1>5, <1>6, <2>1 DEF EInv, NoticesInv
  <2>2. CASE conditionals'[n] = Notice(pg)
    BY <1>1, <1>6, <2>2
  <2>3. QED
    BY <1>4, <2>1, <2>2 DEF Lengthened
<1>9. ASSUME NEW k \in Indices(selfHosted), selfHosted[k].rpo.declared, Turned("selfHosted", FromManaged, k)'
      PROVE  \E n \in Indices(conditionals') : conditionals'[n] = Notice(selfHosted[k])
  <2>1. CASE k < i
    <3>1. PICK n \in Indices(conditionals) : conditionals[n] = Notice(selfHosted[k])
      BY <1>5, <1>9, <2>1 DEF EInv, NoticesInv
    <3>2. conditionals[n] \in Elements(conditionals')
      BY <1>4 DEF Lengthened, Elements
    <3>3. QED
      BY <3>1, <3>2 DEF Elements
  <2>2. CASE k = i
    BY <1>4, <2>2 DEF Lengthened, Elements
  <2>3. QED
    BY <1>6, <1>9, <2>1, <2>2
<1>10. ASSUME NEW n \in Indices(conditionals) PROVE conditionals[n].component # pg.name
  <2>1. PICK k \in Indices(selfHosted) : k < i /\ conditionals[n] = Notice(selfHosted[k])
    BY <1>5 DEF EInv, NoticesInv
  <2>2. k # i
    BY <1>1, <2>1 DEF Indices
  <2>3. selfHosted[k].name # pg.name
    BY <1>1, <2>2 DEF EInv, PartitionInv, Distinct
  <2>4. QED
    BY <2>1, <2>3 DEF Notice
<1>11. \A m, n \in Indices(conditionals') : conditionals'[m].component = conditionals'[n].component => m = n
  <2>1. Notice(pg).component = pg.name
    BY DEF Notice
  <2>2. \A m, n \in Indices(conditionals) : conditionals[m].component = conditionals[n].component => m = n
    BY DEF EInv, NoticesInv
  <2>3. QED
    BY <1>4, <1>10, <2>1, <2>2 DEF Lengthened
<1>12. /\ pc' \notin FromSelfHosted => conditionals' = <<>>
       /\ \A n \in Indices(conditionals') :
            \E k \in Indices(selfHosted') :
              /\ selfHosted'[k].rpo.declared
              /\ Turned("selfHosted", FromManaged, k)'
              /\ conditionals'[n] = Notice(selfHosted'[k])
       /\ \A k \in Indices(selfHosted') :
            selfHosted'[k].rpo.declared /\ Turned("selfHosted", FromManaged, k)' =>
              \E n \in Indices(conditionals') : conditionals'[n] = Notice(selfHosted'[k])
  BY <1>1, <1>7, <1>8, <1>9
<1>13. QED
  BY <1>11, <1>12, Zenon DEF NoticesInv

LEMMA NoticesStep ==
  ASSUME EInv, Walked
  PROVE  NoticesInv'
<1>1. CASE SelfHostedPostgres /\ selfHosted[i].rpo.declared
  BY <1>1, NoticeAdded
<1>2. CASE SelfHostedPostgres /\ ~selfHosted[i].rpo.declared
  <2>1. conditionals' = conditionals \o <<>>
    BY <1>2, SelfHostedAdds DEF Conditional
  <2>2. conditionals' = conditionals
    BY <2>1 DEF EInv, IInv, TypeOK
  <2>3. QED
    BY <1>2, <2>2, NoticesKept
<1>3. CASE ~SelfHostedPostgres
  BY <1>3, NoticesKept DEF Walked
<1>4. QED
  BY <1>1, <1>2, <1>3

-----------------------------------------------------------------------------
(* The invariant                                                           *)

\* A refusal leaves nothing written and nothing announced.
LEMMA RefusedKeeps ==
  ASSUME EInv, IInv', pc' = "refused", files' = NoFiles, conditionals' = <<>>, UNCHANGED <<doc, selfHosted, managed>>
  PROVE  EInv'
<1> USE DEF FromOperator, FromNamespace, FromRBAC, FromSelfHosted, FromManaged, FromTargets, FromBackupEgress,
            FromNeonEgress, FromControlPlane, FromFloor, FromCNPGControlPlane, FromRunnerControlPlane,
            FromDeclaredEgress, FromKustomization
<1>1. PartitionInv'
  BY PartitionKept
<1>2. NothingYet' /\ Traced'
  BY DEF NothingYet, Traced, SoundMap, NoFiles
<1>3. LayersWritten' /\ DatabasesWritten' /\ EdgesWritten' /\ FloorWanted' /\ FloorWritten'
  BY DEF LayersWritten, DatabasesWritten, EdgesWritten, FloorWanted, FloorWritten, Turned
<1>4. Indices(<<>>) = {}
  BY DEF Indices
<1>5. NoticesInv'
  BY <1>4 DEF NoticesInv, Turned
<1>6. QED
  BY <1>1, <1>2, <1>3, <1>5 DEF EInv

\* Before the first emit call nothing is written or announced.
LEMMA EarlyKeeps ==
  ASSUME EInv, IInv', PartitionInv', pc \in {"load", "validate", "partition"},
         pc' \in {"load", "validate", "partition", "operator"}, UNCHANGED <<files, conditionals>>
  PROVE  EInv'
<1> USE DEF FromOperator, FromNamespace, FromRBAC, FromSelfHosted, FromManaged, FromTargets, FromBackupEgress,
            FromNeonEgress, FromControlPlane, FromFloor, FromCNPGControlPlane, FromRunnerControlPlane,
            FromDeclaredEgress, FromKustomization
<1>1. files' = NoFiles /\ conditionals' = <<>>
  BY DEF EInv, NothingYet, NoticesInv
<1>2. NothingYet' /\ Traced'
  BY <1>1 DEF NothingYet, Traced, SoundMap, NoFiles
<1>3. LayersWritten' /\ DatabasesWritten' /\ EdgesWritten' /\ FloorWanted' /\ FloorWritten'
  BY DEF LayersWritten, DatabasesWritten, EdgesWritten, FloorWanted, FloorWritten, Turned
<1>4. Indices(<<>>) = {}
  BY DEF Indices
<1>5. NoticesInv'
  BY <1>1, <1>4 DEF NoticesInv, Turned
<1>6. QED
  BY <1>2, <1>3, <1>5 DEF EInv

LEMMA WalkedKeeps ==
  ASSUME EInv, IInv', Walked
  PROVE  EInv'
<1> USE DEF FromOperator, FromNamespace, FromRBAC, FromSelfHosted, FromManaged, FromTargets, FromBackupEgress,
            FromNeonEgress, FromControlPlane, FromFloor, FromCNPGControlPlane, FromRunnerControlPlane,
            FromDeclaredEgress, FromKustomization
<1>1. UNCHANGED <<doc, selfHosted, managed>> /\ pc \in FromOperator /\ Walks /\ Traced'
  BY DEF Walked, Grows
<1>2. pc' \notin {"load", "validate", "partition"}
  BY <1>1 DEF Walks
<1>3. PartitionInv'
  BY <1>1, <1>2, PartitionKept
<1>4. NothingYet'
  <2>1. pc' \in FromNamespace \/ UNCHANGED <<pc, files>>
    BY <1>1 DEF Walks
  <2>2. QED
    BY <2>1 DEF EInv, NothingYet
<1>5. QED
  BY <1>1, <1>3, <1>4, LayersStep, DatabasesStep, EdgesStep, FloorStep, NoticesStep DEF EInv

LEMMA EmittedInit == Init => EInv
<1> SUFFICES ASSUME Init PROVE EInv
  OBVIOUS
<1> USE DEF FromOperator, FromNamespace, FromRBAC, FromSelfHosted, FromManaged, FromTargets, FromBackupEgress,
            FromNeonEgress, FromControlPlane, FromFloor, FromCNPGControlPlane, FromRunnerControlPlane,
            FromDeclaredEgress, FromKustomization
<1>1. IInv
  BY InvariantInit
<1>2. pc = "load" /\ selfHosted = <<>> /\ managed = <<>> /\ files = NoFiles /\ conditionals = <<>>
  BY DEF Init
<1>3. Indices(<<>>) = {}
  BY DEF Indices
<1>4. PartitionInv
  BY <1>2, <1>3 DEF PartitionInv, Distinct
<1>5. NothingYet /\ Traced
  BY <1>2 DEF NothingYet, Traced, SoundMap, NoFiles
<1>6. LayersWritten /\ DatabasesWritten /\ EdgesWritten /\ FloorWanted /\ FloorWritten
  BY <1>2 DEF LayersWritten, DatabasesWritten, EdgesWritten, FloorWanted, FloorWritten, Turned
<1>7. NoticesInv
  BY <1>2, <1>3 DEF NoticesInv, Turned
<1>8. QED
  BY <1>1, <1>4, <1>5, <1>6, <1>7 DEF EInv

LEMMA EmittedStep == EInv /\ [Next]_vars => EInv'
<1> SUFFICES ASSUME EInv, [Next]_vars PROVE EInv'
  OBVIOUS
<1>1. IInv'
  BY InvariantStep DEF EInv
<1>2. CASE pc' = "refused" /\ pc # "refused"
  <2>1. ASSUME NEW report, Refuse(report) PROVE EInv'
    BY <1>1, <2>1, RefusedKeeps DEF Refuse, Goto
  <2>2. \E report : Refuse(report)
    <3>1. Load \/ Compile \/ Partitioned \/ SelfHostedPostgres \/ EgressTargets \/ NeonEgress
      BY <1>2 DEF Next, PartitionComponents, CNPGOperator, AppNamespace, ManagedRunnerRBAC, ManagedPostgres,
                  BackupEgress, ControlPlaneEgress, Floor, CNPGControlPlane, RunnerControlPlane, DeclaredEgress,
                  AppKustomization, EndOfLoops, EndLoop, Exited, vars, Emitted, Turn, Goto
    <3>2. QED
      BY <1>2, <3>1 DEF Load, Compile, Partitioned, SelfHostedPostgres, EgressTargets, NeonEgress, Emitted, Turn, Goto
  <2>3. QED
    BY <2>1, <2>2
<1>3. CASE pc' # "refused" \/ pc = "refused"
  <2>1. CASE Load \/ Compile
    <3>1. /\ pc \in {"load", "validate"} /\ pc' \in {"validate", "partition"} /\ i' = 1
          /\ UNCHANGED <<doc, selfHosted, managed, files, conditionals>>
      BY <1>3, <2>1 DEF Load, Compile, Emitted, Refuse, Goto
    <3>2. PartitionInv'
      BY <3>1, PartitionKept
    <3>3. QED
      BY <1>1, <3>1, <3>2, EarlyKeeps
  <2>2. CASE PartitionComponents
    <3>1. pc = "partition" /\ pc' = "partition" /\ UNCHANGED <<files, conditionals>>
      BY <2>2 DEF PartitionComponents
    <3>2. QED
      BY <1>1, <2>2, <3>1, PartitionTurn, EarlyKeeps
  <2>3. CASE Partitioned
    <3>1. pc = "partition" /\ pc' = "operator" /\ UNCHANGED <<files, conditionals>>
      BY <1>3, <2>3 DEF Partitioned, Emitted, Refuse, Goto
    <3>2. QED
      BY <1>1, <2>3, <3>1, PartitionEnd, EarlyKeeps
  <2>4. CASE \/ CNPGOperator \/ AppNamespace \/ ManagedRunnerRBAC \/ SelfHostedPostgres \/ ManagedPostgres
             \/ EgressTargets \/ BackupEgress \/ NeonEgress \/ ControlPlaneEgress \/ Floor \/ CNPGControlPlane
             \/ RunnerControlPlane \/ DeclaredEgress \/ AppKustomization
    <3>1. pc # "refused"
      BY <2>4 DEF CNPGOperator, AppNamespace, ManagedRunnerRBAC, SelfHostedPostgres, ManagedPostgres, EgressTargets,
                  BackupEgress, NeonEgress, ControlPlaneEgress, Floor, CNPGControlPlane, RunnerControlPlane,
                  DeclaredEgress, AppKustomization
    <3>2. QED
      BY <1>1, <1>3, <2>4, <3>1, CallsWalk, WalkedKeeps
  <2>5. CASE EndOfLoops
    BY <1>1, <2>5, LoopsWalk, WalkedKeeps
  <2>6. CASE Exited \/ UNCHANGED vars
    <3>1. UNCHANGED vars
      BY <2>6 DEF Exited
    <3>2. CASE pc \in FromOperator
      <4>1. Traced' /\ Grows
        BY <3>1, SameFiles DEF vars
      <4>2. Walked
        BY <3>1, <3>2, <4>1 DEF vars, Walked, Walks
      <4>3. QED
        BY <1>1, <4>2, WalkedKeeps
    <3>3. CASE pc = "refused"
      <4>1. files = NoFiles /\ conditionals = <<>>
        BY <3>3 DEF EInv, NothingYet, NoticesInv, FromNamespace, FromRBAC, FromSelfHosted, FromManaged, FromTargets,
                    FromBackupEgress, FromNeonEgress, FromControlPlane, FromFloor, FromCNPGControlPlane,
                    FromRunnerControlPlane, FromDeclaredEgress, FromKustomization
      <4>2. QED
        BY <1>1, <3>1, <3>3, <4>1, RefusedKeeps DEF vars
    <3>4. CASE pc \in {"load", "validate", "partition"}
      <4>1. PartitionInv'
        BY <3>1, PartitionKept DEF vars
      <4>2. QED
        BY <1>1, <3>1, <3>4, <4>1, EarlyKeeps DEF vars
    <3>5. pc \in FromOperator \cup {"refused", "load", "validate", "partition"}
      BY DEF EInv, IInv, TypeOK, Calls, Ended, FromOperator, FromNamespace, FromRBAC, FromSelfHosted, FromManaged,
             FromTargets, FromBackupEgress, FromNeonEgress, FromControlPlane, FromFloor, FromCNPGControlPlane,
             FromRunnerControlPlane, FromDeclaredEgress, FromKustomization
    <3>6. QED
      BY <3>2, <3>3, <3>4, <3>5
  <2>7. QED
    BY <2>1, <2>2, <2>3, <2>4, <2>5, <2>6 DEF Next
<1>4. QED
  BY <1>2, <1>3

LEMMA Emission == Spec => []EInv
  BY EmittedInit, EmittedStep, PTL DEF Spec

-----------------------------------------------------------------------------
(* Where the objects of a kind come from                                   *)

LEMMA NetworkPolicies ==
  ASSUME NEW p, NEW o, FloorOrigin(p, o)
  PROVE  o.kind = "NetworkPolicy" /\ appMeshEnabled
<1>1. appMeshEnabled
  BY DEF FloorOrigin
<1>2. CASE FloorPolicies(p, o)
  BY <1>1, <1>2 DEF FloorPolicies, NetworkPolicy, Object
<1>3. ASSUME NEW k \in Indices(selfHosted), ControlPlanePolicy(selfHosted[k], p, o) PROVE o.kind = "NetworkPolicy"
  BY <1>3 DEF ControlPlanePolicy, NetworkPolicy, Object
<1>4. ASSUME NEW k \in Indices(selfHosted), DeclaredPolicy(k, p, o) PROVE o.kind = "NetworkPolicy"
  BY <1>4 DEF DeclaredPolicy, DeclaredEgressPolicy, NetworkPolicy, Object
<1>5. QED
  BY <1>1, <1>2, <1>3, <1>4 DEF FloorOrigin

KindDecides(p, o) ==
    /\ o.kind = "Kustomization" =>
         \/ /\ selfHosted # <<>>
            /\ p = OperatorKustomizationPath
            /\ o = Kustomization(CnpgOperator, "infra", {}, {CnpgOperator})
         \/ p = AppKustomizationPath /\ o = AppKustomizationObject
    /\ o.kind = "Namespace" =>
         \/ /\ selfHosted # <<>>
            /\ p = InfraPath("namespace")
            /\ o = Object("Namespace", NoName, CnpgSystem, [ambient |-> mtlsEnabled])
         \/ /\ p = App(NoName, "namespace")
            /\ o = Object("Namespace", NoName, stackName, [ambient |-> appMeshEnabled])
    /\ o.kind = "Cluster" =>
         \E k \in Indices(selfHosted) : p = App(selfHosted[k].name, "cluster") /\ o = ClusterOf(selfHosted[k])
    /\ o.kind = "ScheduledBackup" =>
         \E k \in Indices(selfHosted) :
           /\ selfHosted[k].rpo.declared
           /\ p = App(selfHosted[k].name, "scheduledbackup")
           /\ o = Object("ScheduledBackup", stackName, selfHosted[k].name,
                         [cluster |-> selfHosted[k].name, conditional |-> TRUE])
    /\ o.kind = "PeerAuthentication" => \E k \in Indices(selfHosted) : selfHosted[k].mtls
    /\ o.kind = "AuthorizationPolicy" =>
         \/ \E k \in Indices(selfHosted) :
              selfHosted[k].mtls /\ p = PolicyPath(selfHosted[k].name) /\ o = ZeroTrustPolicyOf(selfHosted[k])
         \/ \E e : IsEdge(e) /\ p = PolicyPath(e.name \o <<"egress">>) /\ o = EdgePolicyOf(e)
    /\ o.kind = "ServiceEntry" => \E e : IsEdge(e) /\ p = EntryPath(e.name) /\ o = EntryOf(e)
    /\ o.kind = "Gateway" =>
         /\ waypointPresent
         /\ p = App(NoName, "waypoint")
         /\ o = Object("Gateway", stackName, Waypoint, Plain)
    /\ o.kind = "NetworkPolicy" => FloorOrigin(p, o)

LEMMA ByKind ==
  ASSUME NEW p, NEW o, Origin(p, o)
  PROVE  KindDecides(p, o)
<1> USE DEF KindDecides
<1>1. CASE InfraOrigin(p, o)
  BY <1>1 DEF InfraOrigin, Kustomization, Object
<1>2. CASE StackOrigin(p, o)
  BY <1>2 DEF StackOrigin, AppKustomizationObject, Kustomization, Object
<1>3. ASSUME NEW k \in Indices(selfHosted), SelfHostedOrigin(selfHosted[k], p, o)
      PROVE  \/ p = App(selfHosted[k].name, "cluster") /\ o = ClusterOf(selfHosted[k]) /\ o.kind = "Cluster"
             \/ selfHosted[k].mtls /\ o.kind = "PeerAuthentication"
             \/ /\ selfHosted[k].mtls /\ p = PolicyPath(selfHosted[k].name)
                /\ o = ZeroTrustPolicyOf(selfHosted[k]) /\ o.kind = "AuthorizationPolicy"
             \/ /\ selfHosted[k].rpo.declared
                /\ p = App(selfHosted[k].name, "scheduledbackup")
                /\ o = Object("ScheduledBackup", stackName, selfHosted[k].name,
                              [cluster |-> selfHosted[k].name, conditional |-> TRUE])
                /\ o.kind = "ScheduledBackup"
  <2>1. /\ ClusterOf(selfHosted[k]).kind = "Cluster"
        /\ ZeroTrustPolicyOf(selfHosted[k]).kind = "AuthorizationPolicy"
        /\ \A kind, ns, name, spec : Object(kind, ns, name, spec).kind = kind
    BY DEF ClusterOf, ZeroTrustPolicyOf, Object
  <2>2. QED
    BY <1>3, <2>1 DEF SelfHostedOrigin
<1>4. ASSUME NEW k \in Indices(managed), ManagedOrigin(managed[k], p, o) PROVE o.kind \in {"tofu", "Terraform"}
  BY <1>4 DEF ManagedOrigin, Object
<1>5. ASSUME NEW e, IsEdge(e), EdgeOrigin(e, p, o)
      PROVE  \/ p = EntryPath(e.name) /\ o = EntryOf(e) /\ o.kind = "ServiceEntry"
             \/ p = PolicyPath(e.name \o <<"egress">>) /\ o = EdgePolicyOf(e) /\ o.kind = "AuthorizationPolicy"
  <2>1. EntryOf(e).kind = "ServiceEntry" /\ EdgePolicyOf(e).kind = "AuthorizationPolicy"
    BY DEF EntryOf, EdgePolicyOf, Object
  <2>2. QED
    BY <1>5, <2>1 DEF EdgeOrigin
<1>6. CASE DatabaseOrigin(p, o)
  <2>1. CASE \E k \in Indices(selfHosted) : SelfHostedOrigin(selfHosted[k], p, o)
    <3>1. PICK k \in Indices(selfHosted) : SelfHostedOrigin(selfHosted[k], p, o)
      BY <2>1
    <3>2. QED
      BY <1>3, <3>1
  <2>2. CASE \E k \in Indices(managed) : ManagedOrigin(managed[k], p, o)
    BY <1>4, <2>2
  <2>3. QED
    BY <1>6, <2>1, <2>2 DEF DatabaseOrigin
<1>7. CASE EgressOrigin(p, o)
  <2>1. CASE /\ waypointPresent
             /\ p = App(NoName, "waypoint")
             /\ o = Object("Gateway", stackName, Waypoint, Plain)
    BY <2>1 DEF Object
  <2>2. CASE \E e : IsEdge(e) /\ EdgeOrigin(e, p, o)
    BY <1>5, <2>2
  <2>3. QED
    BY <1>7, <2>1, <2>2 DEF EgressOrigin
<1>8. CASE FloorOrigin(p, o)
  BY <1>8, NetworkPolicies
<1>9. QED
  BY <1>1, <1>2, <1>6, <1>7, <1>8 DEF Origin

\* The suffix of a path decides the kind of what is written there.
SuffixDecides(p, o) ==
    /\ p.suffix \in {"infra-cnpg-operator", "apps"} => o.kind = "Kustomization"
    /\ p.suffix = "namespace" => o.kind = "Namespace"
    /\ p.suffix = "helmrelease" => o.kind = "HelmRelease"
    /\ p.suffix = "cluster" => o.kind = "Cluster"
    /\ p.suffix = "scheduledbackup" => o.kind = "ScheduledBackup"
    /\ p.suffix = "authorizationpolicy" => o.kind = "AuthorizationPolicy"
    /\ p.suffix = "serviceentry" => o.kind = "ServiceEntry"
    /\ p.suffix = "waypoint" => o.kind = "Gateway"
    /\ p.suffix \in {"networkpolicy-default-deny-egress", "networkpolicy-allow-cluster-egress",
                     "networkpolicy-allow-waypoint-egress"} => FloorPolicies(p, o)

LEMMA BySuffix ==
  ASSUME NEW p, NEW o, Origin(p, o)
  PROVE  SuffixDecides(p, o)
<1> USE DEF InfraPath, EntryPath, PolicyPath, FloorPath, OperatorKustomizationPath, AppKustomizationPath, App, Path
<1>1. CASE InfraOrigin(p, o)
  BY <1>1 DEF InfraOrigin, Kustomization, Object, SuffixDecides
<1>2. CASE StackOrigin(p, o)
  BY <1>2 DEF StackOrigin, AppKustomizationObject, Kustomization, Object, SuffixDecides
<1>3. ASSUME NEW k \in Indices(selfHosted), SelfHostedOrigin(selfHosted[k], p, o) PROVE SuffixDecides(p, o)
  BY <1>3 DEF SelfHostedOrigin, ClusterOf, ZeroTrustPolicyOf, Object, SuffixDecides
<1>4. ASSUME NEW k \in Indices(managed), ManagedOrigin(managed[k], p, o) PROVE SuffixDecides(p, o)
  BY <1>4 DEF ManagedOrigin, SuffixDecides
<1>5. ASSUME NEW e, IsEdge(e), EdgeOrigin(e, p, o) PROVE SuffixDecides(p, o)
  BY <1>5 DEF EdgeOrigin, EntryOf, EdgePolicyOf, Object, SuffixDecides
<1>6. CASE DatabaseOrigin(p, o)
  BY <1>3, <1>4, <1>6 DEF DatabaseOrigin
<1>7. CASE EgressOrigin(p, o)
  <2>1. CASE p = App(NoName, "waypoint") /\ o = Object("Gateway", stackName, Waypoint, Plain)
    BY <2>1 DEF Object, SuffixDecides
  <2>2. QED
    BY <1>5, <1>7, <2>1 DEF EgressOrigin
<1>8. CASE FloorOrigin(p, o)
  <2>1. CASE FloorPolicies(p, o)
    BY <2>1 DEF FloorPolicies, SuffixDecides
  <2>2. ASSUME NEW k \in Indices(selfHosted), ControlPlanePolicy(selfHosted[k], p, o) PROVE SuffixDecides(p, o)
    BY <2>2 DEF ControlPlanePolicy, SuffixDecides
  <2>3. ASSUME NEW k \in Indices(selfHosted), DeclaredPolicy(k, p, o) PROVE SuffixDecides(p, o)
    BY <2>3 DEF DeclaredPolicy, DeclaredEgressPath, SuffixDecides
  <2>4. QED
    BY <1>8, <2>1, <2>2, <2>3 DEF FloorOrigin
<1>9. QED
  BY <1>1, <1>2, <1>6, <1>7, <1>8 DEF Origin

\* What OfKind ranges over.
LEMMA KindMembers ==
  ASSUME NEW kind, NEW o \in OfKind(kind)
  PROVE  o.kind = kind /\ \E p \in DOMAIN files : o = files[p]
  BY DEF OfKind, Objects
LEMMA MembersOfKind ==
  ASSUME NEW p \in DOMAIN files
  PROVE  files[p] \in OfKind(files[p].kind)
  BY DEF OfKind, Objects

-----------------------------------------------------------------------------
(* The properties of a finished compile                                    *)

\* At the end of a compile: the object at a path that was written.
LEMMA AtPath ==
  ASSUME EInv, NEW p \in DOMAIN files
  PROVE  Origin(p, files[p]) /\ SuffixDecides(p, files[p]) /\ files[p] \in OfKind(files[p].kind)
  BY BySuffix, MembersOfKind DEF EInv, Traced, SoundMap

LEMMA OfAKind ==
  ASSUME EInv, NEW kind, NEW o \in OfKind(kind)
  PROVE  o.kind = kind /\ \E p \in DOMAIN files : o = files[p] /\ Origin(p, o)
  BY KindMembers DEF EInv, Traced, SoundMap

OperatorKustomization == Kustomization(CnpgOperator, "infra", {}, {CnpgOperator})

LEMMA KustomizationsAre ==
  ASSUME EInv, pc = "done"
  PROVE  /\ \A k \in OfKind("Kustomization") : k \in {OperatorKustomization, AppKustomizationObject}
         /\ selfHosted # <<>> => OperatorKustomization \in OfKind("Kustomization") /\ OfKind("HelmRelease") # {}
<1>1. ASSUME NEW k \in OfKind("Kustomization") PROVE k \in {OperatorKustomization, AppKustomizationObject}
  <2>1. PICK p \in DOMAIN files : Origin(p, k)
    BY OfAKind
  <2>2. k.kind = "Kustomization"
    BY OfAKind
  <2>3. \/ /\ selfHosted # <<>>
           /\ p = OperatorKustomizationPath
           /\ k = Kustomization(CnpgOperator, "infra", {}, {CnpgOperator})
        \/ p = AppKustomizationPath /\ k = AppKustomizationObject
    <3>1. KindDecides(p, k)
      BY <2>1, ByKind
    <3>2. QED
      BY <2>2, <3>1, Zenon DEF KindDecides
  <2>4. QED
    BY <2>3 DEF OperatorKustomization
<1>2. ASSUME selfHosted # <<>>
      PROVE  OperatorKustomization \in OfKind("Kustomization") /\ OfKind("HelmRelease") # {}
  <2>1. {InfraPath("helmrelease"), OperatorKustomizationPath} \subseteq DOMAIN files
    BY <1>2 DEF EInv, LayersWritten, Written, FromNamespace, FromRBAC, FromSelfHosted, FromManaged, FromTargets,
                FromBackupEgress, FromNeonEgress, FromControlPlane, FromFloor, FromCNPGControlPlane,
                FromRunnerControlPlane, FromDeclaredEgress, FromKustomization
  <2>2. OfKind("HelmRelease") # {}
    <3>1. InfraPath("helmrelease").suffix = "helmrelease"
      BY DEF InfraPath, Path
    <3>2. files[InfraPath("helmrelease")].kind = "HelmRelease"
      BY <2>1, <3>1, AtPath DEF SuffixDecides
    <3>3. QED
      BY <2>1, <3>2, AtPath
  <2>3. files[OperatorKustomizationPath] = OperatorKustomization
    <3>1. OperatorKustomizationPath.suffix = "infra-cnpg-operator" /\ AppKustomizationPath.suffix = "apps"
      BY DEF OperatorKustomizationPath, AppKustomizationPath, Path
    <3>2. files[OperatorKustomizationPath].kind = "Kustomization"
      BY <2>1, <3>1, AtPath DEF SuffixDecides
    <3>3. OperatorKustomizationPath # AppKustomizationPath
      BY <3>1
    <3>4. QED
      BY <2>1, <3>2, <3>3, AtPath, ByKind DEF KindDecides, OperatorKustomization
  <2>4. OperatorKustomization.kind = "Kustomization"
    BY DEF OperatorKustomization, Kustomization, Object
  <2>5. QED
    BY <2>1, <2>2, <2>3, <2>4, AtPath
<1>3. QED
  BY <1>1, <1>2

LEMMA LayersHold ==
  ASSUME EInv, stackName # CnpgOperator
  PROVE  LayersOrdered
<1> SUFFICES ASSUME pc = "done" PROVE LayersOrdered
  BY DEF LayersOrdered
<1> DEFINE ks == OfKind("Kustomization")
           operators == {k \in ks : CnpgOperator \in k.spec.healthChecks /\ OfKind("HelmRelease") # {}}
<1>1. /\ OperatorKustomization.name = CnpgOperator
      /\ OperatorKustomization.spec.dependsOn = {}
      /\ OperatorKustomization.spec.healthChecks = {CnpgOperator}
      /\ OperatorKustomization.spec.path = "infra"
      /\ AppKustomizationObject.name = stackName
      /\ AppKustomizationObject.spec.dependsOn = IF selfHosted # <<>> THEN {CnpgOperator} ELSE {}
  BY DEF OperatorKustomization, AppKustomizationObject, Kustomization, Object
<1>2. ASSUME NEW k \in ks PROVE k.spec.dependsOn \subseteq {l.name : l \in ks} \ {k.name}
  <2>1. CASE k = OperatorKustomization
    BY <1>1, <2>1
  <2>2. CASE k = AppKustomizationObject /\ selfHosted # <<>>
    <3>1. CnpgOperator \in {l.name : l \in ks}
      BY <1>1, <2>2, KustomizationsAre
    <3>2. QED
      BY <1>1, <2>2, <3>1
  <2>3. CASE k = AppKustomizationObject /\ selfHosted = <<>>
    BY <1>1, <2>3
  <2>4. QED
    BY <2>1, <2>2, <2>3, KustomizationsAre
<1>3. ASSUME OfKind("Cluster") \cup OfKind("ScheduledBackup") # {} PROVE selfHosted # <<>>
  <2>1. PICK o : o \in OfKind("Cluster") \/ o \in OfKind("ScheduledBackup")
    BY <1>3
  <2>2. PICK p : Origin(p, o) /\ o.kind \in {"Cluster", "ScheduledBackup"}
    BY <2>1, OfAKind
  <2>3. \E k : k \in Indices(selfHosted)
    BY <2>2, ByKind DEF KindDecides
  <2>4. Indices(<<>>) = {}
    BY DEF Indices
  <2>5. QED
    BY <2>3, <2>4
<1>4. ASSUME selfHosted # <<>>, NEW k \in ks, k.spec.path = "apps"
      PROVE  k.spec.dependsOn \cap {o.name : o \in operators} # {}
  <2>1. k = AppKustomizationObject
    BY <1>1, <1>4, KustomizationsAre
  <2>2. OperatorKustomization \in operators
    BY <1>1, <1>4, KustomizationsAre
  <2>3. CnpgOperator \in {o.name : o \in operators}
    BY <1>1, <2>2
  <2>4. QED
    BY <1>1, <1>4, <2>1, <2>3
<1>5. QED
  BY <1>2, <1>3, <1>4 DEF LayersOrdered

\* flux.go:569: for every document whose stack does not bear the operator's own
\* name, the app layer waits for the operator exactly when it needs it, and no
\* Kustomization waits for one that is not emitted, or for itself.
THEOREM LayersAreOrdered == Spec => [](stackName # CnpgOperator => LayersOrdered)
<1>1. EInv => (stackName # CnpgOperator => LayersOrdered)
  BY LayersHold
<1>2. QED
  BY <1>1, Emission, PTL

ScheduleOf(pg) ==
    Object("ScheduledBackup", stackName, pg.name, [cluster |-> pg.name, conditional |-> TRUE])

LEMMA AllTurned ==
  ASSUME pc = "done", NEW k
  PROVE  /\ Turned("selfHosted", FromManaged, k)
         /\ Turned("backupEgress", FromNeonEgress, k)
         /\ Turned("neonEgress", FromControlPlane, k)
         /\ Turned("declaredEgress", FromKustomization, k)
  BY DEF Turned, FromManaged, FromTargets, FromBackupEgress, FromNeonEgress, FromControlPlane, FromFloor,
         FromCNPGControlPlane, FromRunnerControlPlane, FromDeclaredEgress, FromKustomization

\* Component names are distinct, so each component has its own Cluster and schedule.
LEMMA DatabasesAre ==
  ASSUME EInv, pc = "done", NEW k \in Indices(selfHosted)
  PROVE  /\ ClusterOf(selfHosted[k]) \in OfKind("Cluster")
         /\ selfHosted[k].rpo.declared => ScheduleOf(selfHosted[k]) \in OfKind("ScheduledBackup")
<1> DEFINE pg == selfHosted[k]
           cluster == App(pg.name, "cluster")
           schedule == App(pg.name, "scheduledbackup")
<1>1. SelfHostedPaths(pg) \subseteq DOMAIN files
  BY AllTurned DEF EInv, DatabasesWritten, Written
<1>2. Distinct(selfHosted)
  BY DEF EInv, PartitionInv
<1>3. ClusterOf(pg) \in OfKind("Cluster")
  <2>1. cluster \in DOMAIN files /\ cluster.suffix = "cluster"
    BY <1>1 DEF SelfHostedPaths, App, Path
  <2>2. files[cluster].kind = "Cluster"
    BY <2>1, AtPath DEF SuffixDecides
  <2>3. PICK j \in Indices(selfHosted) :
          cluster = App(selfHosted[j].name, "cluster") /\ files[cluster] = ClusterOf(selfHosted[j])
    BY <2>1, <2>2, AtPath, ByKind DEF KindDecides
  <2>4. selfHosted[j].name = pg.name
    BY <2>3 DEF App, Path
  <2>5. QED
    BY <1>2, <2>1, <2>2, <2>3, <2>4, AtPath DEF Distinct
<1>4. ASSUME pg.rpo.declared PROVE ScheduleOf(pg) \in OfKind("ScheduledBackup")
  <2>1. schedule \in DOMAIN files /\ schedule.suffix = "scheduledbackup"
    BY <1>1, <1>4 DEF SelfHostedPaths, App, Path
  <2>2. files[schedule].kind = "ScheduledBackup"
    BY <2>1, AtPath DEF SuffixDecides
  <2>3. PICK j \in Indices(selfHosted) :
          schedule = App(selfHosted[j].name, "scheduledbackup") /\ files[schedule] = ScheduleOf(selfHosted[j])
    BY <2>1, <2>2, AtPath, ByKind DEF KindDecides, ScheduleOf
  <2>4. selfHosted[j].name = pg.name
    BY <2>3 DEF App, Path
  <2>5. QED
    BY <1>2, <2>1, <2>2, <2>3, <2>4, AtPath DEF Distinct
<1>5. QED
  BY <1>3, <1>4

LEMMA DatabasesOnly ==
  ASSUME EInv
  PROVE  /\ \A o \in OfKind("Cluster") : \E k \in Indices(selfHosted) : o = ClusterOf(selfHosted[k])
         /\ \A o \in OfKind("ScheduledBackup") :
              \E k \in Indices(selfHosted) : selfHosted[k].rpo.declared /\ o = ScheduleOf(selfHosted[k])
<1>1. ASSUME NEW o \in OfKind("Cluster") PROVE \E k \in Indices(selfHosted) : o = ClusterOf(selfHosted[k])
  <2>1. PICK p \in DOMAIN files : Origin(p, o)
    BY OfAKind
  <2>2. o.kind = "Cluster"
    BY OfAKind
  <2>3. QED
    BY <2>1, <2>2, ByKind DEF KindDecides
<1>2. ASSUME NEW o \in OfKind("ScheduledBackup")
      PROVE  \E k \in Indices(selfHosted) : selfHosted[k].rpo.declared /\ o = ScheduleOf(selfHosted[k])
  <2>1. PICK p \in DOMAIN files : Origin(p, o)
    BY OfAKind
  <2>2. o.kind = "ScheduledBackup"
    BY OfAKind
  <2>3. QED
    BY <2>1, <2>2, ByKind DEF KindDecides, ScheduleOf
<1>3. QED
  BY <1>1, <1>2

LEMMA ConditionalsHold == ASSUME EInv PROVE ConditionalNeverSilent
<1> SUFFICES ASSUME pc = "done" PROVE ConditionalNeverSilent
  BY DEF ConditionalNeverSilent
<1> DEFINE durable == {selfHosted[k].name : k \in {j \in Indices(selfHosted) : selfHosted[j].rpo.declared}}
           noticed == {conditionals[n].component : n \in Indices(conditionals)}
<1>1. ASSUME NEW k \in Indices(selfHosted)
      PROVE  /\ ClusterOf(selfHosted[k]).name = selfHosted[k].name
             /\ ClusterOf(selfHosted[k]).spec.conditional = selfHosted[k].rpo.declared
             /\ selfHosted[k].rpo.declared => ClusterOf(selfHosted[k]).spec.backup # {}
             /\ ~selfHosted[k].rpo.declared => ClusterOf(selfHosted[k]).spec.backup = {}
             /\ ScheduleOf(selfHosted[k]).spec.cluster = selfHosted[k].name
             /\ ScheduleOf(selfHosted[k]).spec.conditional
             /\ Notice(selfHosted[k]).component = selfHosted[k].name
  BY DEF ClusterOf, ScheduleOf, Notice, Object, barmanObjectStore
<1>2. noticed = durable
  <2>1. ASSUME NEW n \in Indices(conditionals) PROVE conditionals[n].component \in durable
    <3>1. PICK k \in Indices(selfHosted) : selfHosted[k].rpo.declared /\ conditionals[n] = Notice(selfHosted[k])
      BY DEF EInv, NoticesInv
    <3>2. conditionals[n].component = selfHosted[k].name
      BY <1>1, <3>1
    <3>3. QED
      BY <3>1, <3>2
  <2>2. ASSUME NEW k \in Indices(selfHosted), selfHosted[k].rpo.declared PROVE selfHosted[k].name \in noticed
    <3>1. PICK n \in Indices(conditionals) : conditionals[n] = Notice(selfHosted[k])
      BY <2>2, AllTurned DEF EInv, NoticesInv
    <3>2. conditionals[n].component = selfHosted[k].name
      BY <1>1, <3>1
    <3>3. QED
      BY <3>2
  <2>3. QED
    BY <2>1, <2>2
<1>3. ASSUME NEW o \in OfKind("Cluster")
      PROVE  /\ o.spec.backup # {} => o.name \in durable
             /\ o.spec.conditional => o.name \in durable
  <2>1. PICK k \in Indices(selfHosted) : o = ClusterOf(selfHosted[k])
    BY DatabasesOnly
  <2>2. o.spec.backup # {} \/ o.spec.conditional => selfHosted[k].rpo.declared
    BY <1>1, <2>1
  <2>3. o.name = selfHosted[k].name
    BY <1>1, <2>1
  <2>4. QED
    BY <2>2, <2>3
<1>4. ASSUME NEW o \in OfKind("ScheduledBackup") PROVE o.spec.cluster \in durable
  <2>1. PICK k \in Indices(selfHosted) : selfHosted[k].rpo.declared /\ o = ScheduleOf(selfHosted[k])
    BY DatabasesOnly
  <2>2. o.spec.cluster = selfHosted[k].name
    BY <1>1, <2>1
  <2>3. QED
    BY <2>1, <2>2
<1>5. ASSUME NEW k \in Indices(selfHosted), selfHosted[k].rpo.declared
      PROVE  /\ \E o \in OfKind("Cluster") :
                  o.name = selfHosted[k].name /\ o.spec.backup # {} /\ o.spec.conditional
             /\ \E o \in OfKind("ScheduledBackup") : o.spec.cluster = selfHosted[k].name /\ o.spec.conditional
  BY <1>1, <1>5, DatabasesAre
<1>6. \A m, n \in Indices(conditionals) : conditionals[m].component = conditionals[n].component => m = n
  BY DEF EInv, NoticesInv
<1>7. {o.name : o \in {c \in OfKind("Cluster") : c.spec.backup # {}}} = durable
  BY <1>3, <1>5
<1>8. {o.name : o \in {c \in OfKind("Cluster") : c.spec.conditional}} = durable
  BY <1>3, <1>5
<1>9. {o.spec.cluster : o \in {b \in OfKind("ScheduledBackup") : b.spec.conditional}} = durable
  BY <1>4, <1>5
<1>10. QED
  BY <1>2, <1>6, <1>7, <1>8, <1>9 DEF ConditionalNeverSilent

\* ports/emitter.go:32, durability.go: for every document, the notices of a compile that
\* succeeds, the annotated Clusters and the annotated ScheduledBackups are the
\* components that archive to an external, each noticed once.
THEOREM ConditionalsAreLabelled == Spec => []ConditionalNeverSilent
<1>1. EInv => ConditionalNeverSilent
  BY ConditionalsHold
<1>2. QED
  BY <1>1, Emission, PTL

-----------------------------------------------------------------------------
(* The mesh                                                                *)

\* A hyphenated name ends in the segments it was joined with.
NextToLast(t, b) == Len(t) >= 2 /\ t[Len(t) - 1] = b
LEMMA JoinedEnd ==
  ASSUME NEW S, NEW s \in Seq(S), NEW b
  PROVE  NextToLast(s \o <<b, "egress">>, b)
  BY DEF NextToLast

LEMMA NamesTyped ==
  ASSUME EInv, PastValidate, NEW k \in Indices(selfHosted)
  PROVE  /\ selfHosted[k].name \in Name
         /\ selfHosted[k].rpo.declared =>
              BackupExternal(k) \in Elements(doc.externals) /\ BackupExternal(k).name \in Name
         /\ selfHosted[k].rpo.declared => BackupExternal(k).name = selfHosted[k].rpo.backupTo
<1>1. doc \in Document /\ selfHosted[k] \in Elements(doc.components)
  BY PartMembers, DocumentsAssumption DEF EInv, IInv, TypeOK
<1>2. \A c \in Elements(doc.components) : c \in Postgres
  BY <1>1 DEF Document, Elements, Indices
<1>3. \A x \in Elements(doc.externals) : x \in External
  BY <1>1 DEF Document, Elements, Indices
<1>4. ASSUME selfHosted[k].rpo.declared
      PROVE  BackupExternal(k) \in Elements(doc.externals) /\ BackupExternal(k).name = selfHosted[k].rpo.backupTo
  <2>1. Resolves(selfHosted[k].rpo.backupTo)
    BY <1>1, <1>4, Resolved DEF EInv
  <2>2. PICK x \in Elements(doc.externals) : x.name = selfHosted[k].rpo.backupTo
    BY <2>1 DEF Resolves
  <2>3. QED
    BY <2>2 DEF BackupExternal, externalsByName
<1>5. QED
  BY <1>1, <1>2, <1>3, <1>4 DEF Postgres, External

\* No policy of a component or of a pair is called like one of the floor's own.
LEMMA FloorNamed ==
  ASSUME EInv, PastValidate, NEW p, NEW o, FloorOrigin(p, o),
         NEW a, NEW b, b \notin {"controlplane", "declared"}, o.name = <<a, b, "egress">>
  PROVE  FloorPolicies(p, o)
<1>1. Len(o.name) = 3 /\ o.name[2] = b
  OBVIOUS
<1>2. ASSUME NEW k \in Indices(selfHosted), ControlPlanePolicy(selfHosted[k], p, o) PROVE FALSE
  <2>1. o.name = selfHosted[k].name \o <<"controlplane", "egress">>
    BY <1>2 DEF ControlPlanePolicy, NetworkPolicy, Object
  <2>2. selfHosted[k].name \in Name
    BY NamesTyped
  <2>3. NextToLast(o.name, "controlplane")
    BY <2>1, <2>2, JoinedEnd DEF Name
  <2>4. QED
    BY <1>1, <2>3 DEF NextToLast
<1>3. ASSUME NEW k \in Indices(selfHosted), selfHosted[k].rpo.declared, DeclaredPolicy(k, p, o) PROVE FALSE
  <2>1. PICK c \in Consumers(selfHosted, selfHosted[k].rpo.backupTo) :
          o = DeclaredEgressPolicy(stackName, c, BackupExternal(k))
    BY <1>3 DEF DeclaredPolicy
  <2>2. o.name = c \o BackupExternal(k).name \o <<"declared", "egress">>
    BY <2>1 DEF DeclaredEgressPolicy, NetworkPolicy, Object
  <2>3. c \in Name
    <3>1. PICK pg \in Elements(selfHosted) : c = pg.name
      BY DEF Consumers
    <3>2. QED
      BY <3>1, NamesTyped DEF Elements
  <2>4. c \o BackupExternal(k).name \in Name
    BY <1>3, <2>3, NamesTyped DEF Name
  <2>5. NextToLast(o.name, "declared")
    <3>1. o.name = (c \o BackupExternal(k).name) \o <<"declared", "egress">>
      BY <2>2
    <3>2. QED
      BY <3>1, <2>4, JoinedEnd DEF Name
  <2>6. QED
    BY <1>1, <2>5 DEF NextToLast
<1>4. QED
  BY <1>2, <1>3 DEF FloorOrigin

LEMMA EdgeNeedsWaypoint == ASSUME NEW e, IsEdge(e) PROVE waypointPresent
<1>1. \A k \in Indices(managed) : managed[k] \in Elements(managed)
  BY DEF Elements
<1>2. QED
  BY <1>1 DEF IsEdge, waypointPresent

DonePC ==
    /\ pc \in FromNamespace /\ pc \in FromRBAC /\ pc \in FromBackupEgress /\ pc \in FromFloor
    /\ pc \in FromCNPGControlPlane /\ pc \in FromDeclaredEgress
LEMMA DoneIsLast == pc = "done" => DonePC /\ PastValidate
  BY DEF DonePC, PastValidate, FromNamespace, FromRBAC, FromSelfHosted, FromManaged, FromTargets, FromBackupEgress,
         FromNeonEgress, FromControlPlane, FromFloor, FromCNPGControlPlane, FromRunnerControlPlane,
         FromDeclaredEgress, FromKustomization

LEMMA EntriesAre ==
  ASSUME EInv, pc = "done"
  PROVE  /\ OfKind("ServiceEntry") # {} <=> waypointPresent
         /\ \A name : EntryPath(name) \in DOMAIN files => \E se \in OfKind("ServiceEntry") : se.name = name
<1>1. ASSUME OfKind("ServiceEntry") # {} PROVE waypointPresent
  <2>1. PICK o : o \in OfKind("ServiceEntry")
    BY <1>1
  <2>2. PICK p \in DOMAIN files : Origin(p, o)
    BY <2>1, OfAKind
  <2>3. o.kind = "ServiceEntry"
    BY <2>1, OfAKind
  <2>4. \E e : IsEdge(e)
    BY <2>2, <2>3, ByKind DEF KindDecides
  <2>5. QED
    BY <2>4, EdgeNeedsWaypoint
<1>2. ASSUME NEW name, EntryPath(name) \in DOMAIN files PROVE \E se \in OfKind("ServiceEntry") : se.name = name
  <2> DEFINE o == files[EntryPath(name)]
  <2>1. EntryPath(name).suffix = "serviceentry"
    BY DEF EntryPath, App, Path
  <2>2. o.kind = "ServiceEntry" /\ o \in OfKind("ServiceEntry") /\ Origin(EntryPath(name), o)
    BY <1>2, <2>1, AtPath DEF SuffixDecides
  <2>3. PICK e : IsEdge(e) /\ EntryPath(name) = EntryPath(e.name) /\ o = EntryOf(e)
    BY <2>2, ByKind DEF KindDecides
  <2>4. o.name = name
    BY <2>3 DEF EntryPath, App, Path, EntryOf, Object
  <2>5. QED
    BY <2>2, <2>4
<1>3. ASSUME waypointPresent PROVE \E name : EntryPath(name) \in DOMAIN files
  <2>1. CASE \E k \in Indices(selfHosted) : meshBackupTarget(k)
    BY <2>1, AllTurned DEF EInv, EdgesWritten, Written, EdgePaths
  <2>2. CASE managed # <<>>
    BY <2>2, DoneIsLast DEF DonePC, EInv, EdgesWritten, Written, EdgePaths
  <2>3. (\E pg \in Elements(managed) : neonTarget(pg)) => managed # <<>>
    BY DEF Elements, Indices
  <2>4. QED
    BY <1>3, <2>1, <2>2, <2>3 DEF waypointPresent
<1>4. QED
  BY <1>1, <1>2, <1>3

LEMMA WaypointIs ==
  ASSUME EInv, pc = "done"
  PROVE  Waypoint \in {o.name : o \in OfKind("Gateway")} <=> waypointPresent
<1>1. ASSUME NEW o \in OfKind("Gateway") PROVE waypointPresent
  <2>1. PICK p \in DOMAIN files : Origin(p, o)
    BY OfAKind
  <2>2. o.kind = "Gateway"
    BY OfAKind
  <2>3. QED
    BY <2>1, <2>2, ByKind DEF KindDecides
<1>2. ASSUME waypointPresent PROVE \E o \in OfKind("Gateway") : o.name = Waypoint
  <2> DEFINE p == App(NoName, "waypoint")
  <2>1. p \in DOMAIN files /\ p.suffix = "waypoint"
    BY <1>2, DoneIsLast DEF DonePC, EInv, EdgesWritten, Written, App, Path
  <2>2. files[p].kind = "Gateway" /\ files[p] \in OfKind("Gateway") /\ Origin(p, files[p])
    BY <2>1, AtPath DEF SuffixDecides
  <2>3. files[p] = Object("Gateway", stackName, Waypoint, Plain)
    BY <2>2, ByKind DEF KindDecides
  <2>4. QED
    BY <2>2, <2>3 DEF Object
<1>3. QED
  BY <1>1, <1>2

\* The floor's own policies are there exactly under their conditions.
LEMMA FloorIs ==
  ASSUME EInv, pc = "done"
  PROVE  /\ <<"allow", "waypoint", "egress">> \in {o.name : o \in OfKind("NetworkPolicy")} <=> waypointPresent
         /\ <<"default", "deny", "egress">> \in {o.name : o \in OfKind("NetworkPolicy")} <=> appMeshEnabled
<1> DEFINE waypoint == FloorPath("networkpolicy-allow-waypoint-egress")
           deny == FloorPath("networkpolicy-default-deny-egress")
           kinds == OfKind("NetworkPolicy")
<1>1. ASSUME NEW o \in kinds
      PROVE  /\ o.name = <<"allow", "waypoint", "egress">> => waypointPresent
             /\ o.name = <<"default", "deny", "egress">> => appMeshEnabled
  <2>1. PICK p \in DOMAIN files : Origin(p, o)
    BY OfAKind
  <2>2. FloorOrigin(p, o)
    BY <2>1, OfAKind, ByKind DEF KindDecides
  <2>3. ASSUME o.name = <<"allow", "waypoint", "egress">> PROVE waypointPresent
    <3>1. FloorPolicies(p, o)
      BY <2>2, <2>3, FloorNamed, DoneIsLast
    <3>2. TfRunner \in Seq({"tf", "runner"})
      BY DEF TfRunner
    <3>3. NextToLast(TfRunner \o <<"controlplane", "egress">>, "controlplane")
      BY <3>2, JoinedEnd
    <3>4. o.name # TfRunner \o <<"controlplane", "egress">>
      BY <2>3, <3>3 DEF NextToLast
    <3>5. QED
      BY <2>3, <3>1, <3>4 DEF FloorPolicies, NetworkPolicy, Object
  <2>4. QED
    BY <2>2, <2>3, NetworkPolicies
<1>2. ASSUME waypointPresent PROVE \E o \in kinds : o.name = <<"allow", "waypoint", "egress">>
  <2>1. waypoint \in DOMAIN files /\ waypoint.suffix = "networkpolicy-allow-waypoint-egress"
    BY <1>2, DoneIsLast DEF DonePC, EInv, FloorWritten, Written, FloorPath, App, Path
  <2>2. FloorPolicies(waypoint, files[waypoint])
    BY <2>1, AtPath DEF SuffixDecides
  <2>3. files[waypoint].name = <<"allow", "waypoint", "egress">> /\ files[waypoint].kind = "NetworkPolicy"
    BY <2>1, <2>2 DEF FloorPolicies, FloorPath, App, Path, NetworkPolicy, Object
  <2>4. QED
    BY <2>1, <2>3, AtPath
<1>3. ASSUME appMeshEnabled PROVE \E o \in kinds : o.name = <<"default", "deny", "egress">>
  <2>1. deny \in DOMAIN files /\ deny.suffix = "networkpolicy-default-deny-egress"
    BY <1>3, DoneIsLast DEF DonePC, EInv, FloorWritten, Written, FloorPath, App, Path
  <2>2. FloorPolicies(deny, files[deny])
    BY <2>1, AtPath DEF SuffixDecides
  <2>3. files[deny].name = <<"default", "deny", "egress">> /\ files[deny].kind = "NetworkPolicy"
    BY <2>1, <2>2 DEF FloorPolicies, FloorPath, App, Path, NetworkPolicy, Object
  <2>4. QED
    BY <2>1, <2>3, AtPath
<1>4. QED
  BY <1>1, <1>2, <1>3

\* The namespaces the mesh redirects, by name.
AmbientNames == {o.name : o \in {n \in OfKind("Namespace") : n.spec.ambient}}
LEMMA AmbientIs ==
  ASSUME EInv, pc = "done"
  PROVE  /\ stackName \in AmbientNames <=> appMeshEnabled
         /\ mtlsEnabled => CnpgSystem \in AmbientNames
<1> DEFINE stack == Object("Namespace", NoName, stackName, [ambient |-> appMeshEnabled])
           operator == Object("Namespace", NoName, CnpgSystem, [ambient |-> mtlsEnabled])
<1>1. /\ stack.name = stackName /\ stack.spec.ambient = appMeshEnabled
      /\ operator.name = CnpgSystem /\ operator.spec.ambient = mtlsEnabled
  BY Zenon DEF Object
<1>2. ASSUME NEW o \in OfKind("Namespace") PROVE o = stack \/ o = operator
  <2>1. PICK p \in DOMAIN files : Origin(p, o)
    BY OfAKind
  <2>2. o.kind = "Namespace"
    BY OfAKind
  <2>3. QED
    BY <2>1, <2>2, ByKind DEF KindDecides
<1>3. mtlsEnabled => appMeshEnabled
  BY DEF appMeshEnabled
<1>4. App(NoName, "namespace") # InfraPath("namespace")
  BY DEF App, InfraPath, Path
<1>5. stack \in OfKind("Namespace")
  <2> DEFINE p == App(NoName, "namespace")
  <2>1. p \in DOMAIN files /\ p.suffix = "namespace"
    BY DoneIsLast DEF DonePC, EInv, LayersWritten, Written, App, Path
  <2>2. files[p].kind = "Namespace" /\ files[p] \in OfKind("Namespace") /\ Origin(p, files[p])
    BY <2>1, AtPath DEF SuffixDecides
  <2>3. files[p] = stack
    BY <1>4, <2>2, ByKind DEF KindDecides
  <2>4. QED
    BY <2>2, <2>3
<1>6. ASSUME mtlsEnabled PROVE operator \in OfKind("Namespace")
  <2> DEFINE p == InfraPath("namespace")
  <2>1. selfHosted # <<>>
    BY <1>6 DEF mtlsEnabled, Elements, Indices
  <2>2. p \in DOMAIN files /\ p.suffix = "namespace"
    BY <2>1, DoneIsLast DEF DonePC, EInv, LayersWritten, Written, InfraPath, Path
  <2>3. files[p].kind = "Namespace" /\ files[p] \in OfKind("Namespace") /\ Origin(p, files[p])
    BY <2>2, AtPath DEF SuffixDecides
  <2>4. files[p] = operator
    BY <1>4, <2>3, ByKind DEF KindDecides
  <2>5. QED
    BY <2>3, <2>4
<1> HIDE DEF stack, operator
<1>7. ASSUME stackName \in AmbientNames PROVE appMeshEnabled
  <2>1. PICK o \in OfKind("Namespace") : o.spec.ambient /\ o.name = stackName
    BY <1>7 DEF AmbientNames
  <2>2. QED
    BY <1>1, <1>2, <1>3, <2>1
<1>8. QED
  BY <1>1, <1>5, <1>6, <1>7 DEF AmbientNames

LEMMA MeshHolds == ASSUME EInv PROVE MeshComplete
<1> SUFFICES ASSUME pc = "done" PROVE MeshComplete
  BY DEF MeshComplete
<1> DEFINE entries == {o.name : o \in OfKind("ServiceEntry")}
<1>1. ASSUME NEW ap \in OfKind("AuthorizationPolicy")
      PROVE  ap.spec.targetRef = NoName \/ ap.spec.targetRef \in entries
  <2>1. PICK p \in DOMAIN files : ap = files[p]
    BY OfAKind
  <2>2. ap.kind = "AuthorizationPolicy"
    BY OfAKind
  <2>3. ap.spec.targetRef = NoName \/ EntryPath(ap.spec.targetRef) \in DOMAIN files
    BY <2>1, <2>2 DEF EInv, Traced, SoundMap, Aimed
  <2>4. QED
    BY <2>3, EntriesAre
<1>2. ASSUME OfKind("PeerAuthentication") # {} PROVE mtlsEnabled
  <2>1. PICK o : o \in OfKind("PeerAuthentication")
    BY <1>2
  <2>2. PICK p \in DOMAIN files : Origin(p, o)
    BY <2>1, OfAKind
  <2>3. o.kind = "PeerAuthentication"
    BY <2>1, OfAKind
  <2>4. \E k \in Indices(selfHosted) : selfHosted[k].mtls
    BY <2>2, <2>3, ByKind DEF KindDecides
  <2>5. QED
    BY <2>4, EdgesNeedTheMesh
<1>3. mtlsEnabled \/ waypointPresent => appMeshEnabled
  BY EdgesNeedTheMesh DEF appMeshEnabled
<1>4. /\ OfKind("ServiceEntry") # {} <=> Waypoint \in {o.name : o \in OfKind("Gateway")}
      /\ Waypoint \in {o.name : o \in OfKind("Gateway")}
           <=> <<"allow", "waypoint", "egress">> \in {o.name : o \in OfKind("NetworkPolicy")}
  BY EntriesAre, WaypointIs, FloorIs
<1>5. stackName \in AmbientNames <=> <<"default", "deny", "egress">> \in {o.name : o \in OfKind("NetworkPolicy")}
  BY AmbientIs, FloorIs
<1>6. OfKind("ServiceEntry") # {} => stackName \in AmbientNames
  BY <1>3, AmbientIs, EntriesAre
<1>7. OfKind("PeerAuthentication") # {} => {stackName, CnpgSystem} \subseteq AmbientNames
  BY <1>2, <1>3, AmbientIs
<1>8. QED
  BY <1>1, <1>4, <1>5, <1>6, <1>7, Zenon DEF MeshComplete, AmbientNames

\* Golden rule 24, egress.go, networkpolicy.go: for every document, nothing the mesh
\* needs dangles when the compile ends.  Entries, the waypoint, its floor policy and
\* the ambient namespace come and go together, although four functions decide them.
THEOREM MeshIsComplete == Spec => []MeshComplete
<1>1. EInv => MeshComplete
  BY MeshHolds
<1>2. QED
  BY <1>1, Emission, PTL

-----------------------------------------------------------------------------
(* Names kept apart                                                        *)

(***************************************************************************)
(* The emitters join declared names with hyphens and do not check the      *)
(* result.  What a document has to avoid for that, and no more: a          *)
(* component with mtls called like an edge's policy, an external called    *)
(* like an edge of the emitter's own, and two pairs of a component and an  *)
(* external that join to one name.  Names of one segment are always apart. *)
(***************************************************************************)
EdgeNames ==
    {x.name : x \in Elements(doc.externals)}
    \cup {c.name \o <<"neon">> : c \in OfPlacement(Managed)}
    \cup {NeonControlPlane}
Joined(c, x) == c.name \o x.name
NamesApart ==
    /\ \A c \in Elements(doc.components) : c.mtls => \A n \in EdgeNames : c.name # n \o <<"egress">>
    /\ \A x \in Elements(doc.externals) :
         /\ x.name # NeonControlPlane
         /\ \A c \in OfPlacement(Managed) : x.name # c.name \o <<"neon">>
    /\ \A c, d \in Elements(doc.components), x, y \in Elements(doc.externals) :
         Joined(c, x) = Joined(d, y) => c.name = d.name /\ x.name = y.name

\* The last segments of joined names, and what is before them.
EndsIn(t, b) == Len(t) > 0 /\ t[Len(t)] = b
LEMMA JoinedLast ==
  ASSUME NEW S, NEW s \in Seq(S), NEW b
  PROVE  EndsIn(s \o <<b>>, b)
  BY DEF EndsIn
LEMMA JoinedAlike ==
  ASSUME NEW S, NEW s \in Seq(S), NEW t \in Seq(S), NEW b, s \o <<b>> = t \o <<b>>
  PROVE  s = t
<1>1. Len(s) = Len(t)
  <2>1. Len(s \o <<b>>) = Len(s) + 1 /\ Len(t \o <<b>>) = Len(t) + 1
    OBVIOUS
  <2>2. QED
    BY <2>1, LenProperties
<1>2. \A n \in 1 .. Len(s) : s[n] = (s \o <<b>>)[n] /\ t[n] = (t \o <<b>>)[n]
  BY <1>1
<1>3. QED
  BY <1>1, <1>2, SeqEqual
LEMMA JoinedAlikeTwice ==
  ASSUME NEW S, NEW s \in Seq(S), NEW t \in Seq(S), NEW b, NEW c, s \o <<b, c>> = t \o <<b, c>>
  PROVE  s = t
<1>1. Len(s) = Len(t)
  <2>1. Len(s \o <<b, c>>) = Len(s) + 2 /\ Len(t \o <<b, c>>) = Len(t) + 2
    OBVIOUS
  <2>2. QED
    BY <2>1, LenProperties
<1>2. \A n \in 1 .. Len(s) : s[n] = (s \o <<b, c>>)[n] /\ t[n] = (t \o <<b, c>>)[n]
  BY <1>1
<1>3. QED
  BY <1>1, <1>2, SeqEqual

\* Declared segments and those of the emitter's own edge.
Segment == STRING \cup {"neon", "control", "plane"}
LEMMA NamesSegmented == ASSUME NEW n \in Name PROVE n \in Seq(Segment)
  BY SeqMonotonic DEF Name, Segment

LEMMA ManagedTyped ==
  ASSUME EInv, NEW k \in Indices(managed)
  PROVE  managed[k] \in OfPlacement(Managed) /\ managed[k].name \in Name /\ managed[k].name \in Seq(Segment)
<1>1. doc \in Document /\ managed[k] \in Elements(doc.components) /\ managed[k].placement = Managed
  BY PartMembers, DocumentsAssumption DEF EInv, IInv, TypeOK
<1>2. managed[k] \in Postgres
  BY <1>1 DEF Document, Elements, Indices
<1>3. managed[k].name \in Name
  BY <1>2 DEF Postgres
<1>4. QED
  BY <1>1, <1>3, NamesSegmented DEF OfPlacement

LEMMA EdgeNamed ==
  ASSUME EInv, PastValidate, NEW e, IsEdge(e)
  PROVE  e.name \in EdgeNames /\ e.name \in Seq(Segment)
<1>1. ASSUME NEW k \in Indices(selfHosted), meshBackupTarget(k), e = BackupEdge(k)
      PROVE  e.name \in EdgeNames /\ e.name \in Seq(Segment)
  <2>1. selfHosted[k].rpo.declared /\ e.name = BackupExternal(k).name
    BY <1>1 DEF meshBackupTarget, FirstUse, BackupEdge, Edge
  <2>2. BackupExternal(k) \in Elements(doc.externals) /\ BackupExternal(k).name \in Name
    BY <2>1, NamesTyped
  <2>3. QED
    BY <2>1, <2>2, NamesSegmented DEF EdgeNames
<1>2. ASSUME NEW k \in Indices(managed), e = NeonEdge(k)
      PROVE  e.name \in EdgeNames /\ e.name \in Seq(Segment)
  <2>1. e.name = managed[k].name \o <<"neon">>
    BY <1>2 DEF NeonEdge, Edge
  <2>2. <<"neon">> \in Seq(Segment)
    BY DEF Segment
  <2>3. managed[k].name \o <<"neon">> \in Seq(Segment)
    BY <2>2, ManagedTyped
  <2>4. QED
    BY <2>1, <2>3, ManagedTyped DEF EdgeNames
<1>3. ASSUME e = ControlPlaneEdge PROVE e.name \in EdgeNames /\ e.name \in Seq(Segment)
  BY <1>3 DEF ControlPlaneEdge, Edge, EdgeNames, NeonControlPlane, Segment
<1>4. QED
  BY <1>1, <1>2, <1>3 DEF IsEdge

\* Two edges of one name are one edge.
LEMMA EdgesApart ==
  ASSUME EInv, PastValidate, NamesApart, NEW e, IsEdge(e), NEW f, IsEdge(f), e.name = f.name
  PROVE  e = f
<1>1. ASSUME NEW k \in Indices(selfHosted), meshBackupTarget(k)
      PROVE  /\ BackupEdge(k).name = selfHosted[k].rpo.backupTo
             /\ BackupEdge(k).name # NeonControlPlane
             /\ \A c \in OfPlacement(Managed) : BackupEdge(k).name # c.name \o <<"neon">>
  <2>1. selfHosted[k].rpo.declared /\ BackupEdge(k).name = BackupExternal(k).name
    BY <1>1 DEF meshBackupTarget, FirstUse, BackupEdge, Edge
  <2>2. BackupExternal(k) \in Elements(doc.externals) /\ BackupExternal(k).name = selfHosted[k].rpo.backupTo
    BY <2>1, NamesTyped
  <2>3. \A x \in Elements(doc.externals) :
          x.name # NeonControlPlane /\ \A c \in OfPlacement(Managed) : x.name # c.name \o <<"neon">>
    BY Zenon DEF NamesApart
  <2>4. QED
    BY <2>1, <2>2, <2>3
<1>2. ASSUME NEW k \in Indices(selfHosted), NEW j \in Indices(selfHosted),
             selfHosted[k].rpo.backupTo = selfHosted[j].rpo.backupTo
      PROVE  BackupEdge(k) = BackupEdge(j)
  BY <1>2 DEF BackupEdge, BackupExternal
<1>3. ASSUME NEW k \in Indices(managed)
      PROVE  NeonEdge(k).name = managed[k].name \o <<"neon">> /\ NeonEdge(k).name # NeonControlPlane
  <2>1. NeonEdge(k).name = managed[k].name \o <<"neon">>
    BY DEF NeonEdge, Edge
  <2>2. EndsIn(NeonEdge(k).name, "neon")
    BY <2>1, ManagedTyped, JoinedLast
  <2>3. ~EndsIn(NeonControlPlane, "neon")
    BY DEF EndsIn, NeonControlPlane
  <2>4. QED
    BY <2>1, <2>2, <2>3
<1>4. ASSUME NEW k \in Indices(managed), NEW j \in Indices(managed), NeonEdge(k).name = NeonEdge(j).name
      PROVE  k = j
  <2>1. PICK s, t : s = managed[k].name /\ t = managed[j].name
    OBVIOUS
  <2>2. s \in Seq(Segment) /\ t \in Seq(Segment)
    BY <2>1, ManagedTyped
  <2>3. s \o <<"neon">> = t \o <<"neon">>
    BY <1>3, <1>4, <2>1
  <2>4. s = t
    BY <2>2, <2>3, JoinedAlike
  <2>5. QED
    BY <2>1, <2>4 DEF EInv, PartitionInv, Distinct
<1>5. ControlPlaneEdge.name = NeonControlPlane
  BY DEF ControlPlaneEdge, Edge
<1>6. \A k \in Indices(managed) : managed[k] \in OfPlacement(Managed)
  BY ManagedTyped
<1>7. CASE \E k \in Indices(selfHosted) : meshBackupTarget(k) /\ e = BackupEdge(k)
  <2>1. PICK k \in Indices(selfHosted) : meshBackupTarget(k) /\ e = BackupEdge(k)
    BY <1>7
  <2>2. PICK j \in Indices(selfHosted) : meshBackupTarget(j) /\ f = BackupEdge(j)
    BY <1>1, <1>3, <1>5, <1>6, <2>1 DEF IsEdge
  <2>3. QED
    BY <1>1, <1>2, <2>1, <2>2
<1>8. CASE \E k \in Indices(managed) : e = NeonEdge(k)
  <2>1. PICK k \in Indices(managed) : e = NeonEdge(k)
    BY <1>8
  <2>2. PICK j \in Indices(managed) : f = NeonEdge(j)
    BY <1>1, <1>3, <1>5, <1>6, <2>1 DEF IsEdge
  <2>3. QED
    BY <1>4, <2>1, <2>2
<1>9. CASE e = ControlPlaneEdge
  BY <1>1, <1>3, <1>5, <1>9 DEF IsEdge
<1>10. QED
  BY <1>7, <1>8, <1>9 DEF IsEdge

-----------------------------------------------------------------------------
(* A path is written with one object                                       *)

TofuOf(pg) == Object("tofu", NoName, pg.name, Plain)
TerraformOf(pg) ==
    Object("Terraform", stackName, pg.name,
           [path |-> App(pg.name, "managed/main.tf"), writeOutputsToSecret |-> pg.credentials])

\* The paths that no declared name is part of, each with what is written there.
FixedDecides(p, o) ==
    /\ p.suffix = "namespace" =>
         \/ p = InfraPath("namespace") /\ o = Object("Namespace", NoName, CnpgSystem, [ambient |-> mtlsEnabled])
         \/ p = App(NoName, "namespace") /\ o = Object("Namespace", NoName, stackName, [ambient |-> appMeshEnabled])
    /\ p.suffix = "helmrepository" => o = Object("HelmRepository", CnpgSystem, <<"cloudnative", "pg">>, Plain)
    /\ p.suffix = "helmrelease" => o = Object("HelmRelease", CnpgSystem, CnpgOperator, Plain)
    /\ p.suffix = "infra-cnpg-operator" => o = OperatorKustomization
    /\ p.suffix = "apps" => o = AppKustomizationObject
    /\ p.suffix = "tf-runner-serviceaccount" => o = Object("ServiceAccount", stackName, TfRunner, Plain)
    /\ p.suffix = "tf-runner-rolebinding" => o = Object("RoleBinding", stackName, TfRunner, Plain)
    /\ p.suffix = "peerauthentication" =>
         o = Object("PeerAuthentication", stackName, <<"default">>, [mode |-> "STRICT"])
    /\ p.suffix = "waypoint" => o = Object("Gateway", stackName, Waypoint, Plain)
FloorSuffixes ==
    {"networkpolicy-default-deny-egress", "networkpolicy-allow-cluster-egress",
     "networkpolicy-allow-waypoint-egress", "networkpolicy-tf-runner-controlplane-egress"}
FixedSuffixes ==
    {"namespace", "helmrepository", "helmrelease", "infra-cnpg-operator", "apps", "tf-runner-serviceaccount",
     "tf-runner-rolebinding", "peerauthentication", "waypoint"}
NamedDecides(p, o) ==
    /\ p.suffix = "cluster" =>
         \E k \in Indices(selfHosted) : p = App(selfHosted[k].name, "cluster") /\ o = ClusterOf(selfHosted[k])
    /\ p.suffix = "scheduledbackup" =>
         \E k \in Indices(selfHosted) :
           p = App(selfHosted[k].name, "scheduledbackup") /\ o = ScheduleOf(selfHosted[k])
    /\ p.suffix = "managed/main.tf" =>
         \E k \in Indices(managed) : p = App(managed[k].name, "managed/main.tf") /\ o = TofuOf(managed[k])
    /\ p.suffix = "terraform" =>
         \E k \in Indices(managed) : p = App(managed[k].name, "terraform") /\ o = TerraformOf(managed[k])
    /\ p.suffix = "authorizationpolicy" =>
         \/ \E k \in Indices(selfHosted) :
              selfHosted[k].mtls /\ p = PolicyPath(selfHosted[k].name) /\ o = ZeroTrustPolicyOf(selfHosted[k])
         \/ \E e : IsEdge(e) /\ p = PolicyPath(e.name \o <<"egress">>) /\ o = EdgePolicyOf(e)
    /\ p.suffix = "serviceentry" => \E e : IsEdge(e) /\ p = EntryPath(e.name) /\ o = EntryOf(e)
    /\ p.suffix \in FloorSuffixes => FloorPolicies(p, o)
    /\ p.suffix = "networkpolicy-controlplane-egress" =>
         \E k \in Indices(selfHosted) : ControlPlanePolicy(selfHosted[k], p, o)
    /\ p.suffix = "networkpolicy-declared-egress" =>
         \E k \in Indices(selfHosted) : selfHosted[k].rpo.declared /\ DeclaredPolicy(k, p, o)
NamedSuffixes ==
    {"cluster", "scheduledbackup", "managed/main.tf", "terraform", "authorizationpolicy", "serviceentry",
     "networkpolicy-controlplane-egress", "networkpolicy-declared-egress"} \cup FloorSuffixes
PathDecides(p, o) == FixedDecides(p, o) /\ NamedDecides(p, o) /\ p.suffix \in FixedSuffixes \cup NamedSuffixes

LEMMA ByPath ==
  ASSUME NEW p, NEW o, Origin(p, o)
  PROVE  PathDecides(p, o)
<1> USE DEF InfraPath, EntryPath, PolicyPath, FloorPath, OperatorKustomizationPath, AppKustomizationPath, App, Path,
            PathDecides, FixedDecides, NamedDecides, FixedSuffixes, NamedSuffixes, FloorSuffixes
<1>1. CASE InfraOrigin(p, o)
  BY <1>1 DEF InfraOrigin, OperatorKustomization
<1>2. CASE StackOrigin(p, o)
  BY <1>2 DEF StackOrigin
<1>3. ASSUME NEW k \in Indices(selfHosted), SelfHostedOrigin(selfHosted[k], p, o) PROVE PathDecides(p, o)
  <2>1. CASE p = App(selfHosted[k].name, "cluster") /\ o = ClusterOf(selfHosted[k])
    <3>1. p.suffix = "cluster"
      BY <2>1
    <3>2. QED
      BY <2>1, <3>1
  <2>2. CASE /\ p = App(NoName, "peerauthentication")
             /\ o = Object("PeerAuthentication", stackName, <<"default">>, [mode |-> "STRICT"])
    BY <2>2
  <2>3. CASE selfHosted[k].mtls /\ p = PolicyPath(selfHosted[k].name) /\ o = ZeroTrustPolicyOf(selfHosted[k])
    <3>1. p.suffix = "authorizationpolicy"
      BY <2>3
    <3>2. QED
      BY <2>3, <3>1
  <2>4. CASE p = App(selfHosted[k].name, "scheduledbackup") /\ o = ScheduleOf(selfHosted[k])
    <3>1. p.suffix = "scheduledbackup"
      BY <2>4
    <3>2. QED
      BY <2>4, <3>1
  <2>5. QED
    BY <1>3, <2>1, <2>2, <2>3, <2>4 DEF SelfHostedOrigin, ScheduleOf
<1>4. ASSUME NEW k \in Indices(managed), ManagedOrigin(managed[k], p, o) PROVE PathDecides(p, o)
  BY <1>4 DEF ManagedOrigin, TofuOf, TerraformOf
<1>5. ASSUME NEW e, IsEdge(e), EdgeOrigin(e, p, o) PROVE PathDecides(p, o)
  BY <1>5 DEF EdgeOrigin
<1>6. CASE DatabaseOrigin(p, o)
  BY <1>3, <1>4, <1>6 DEF DatabaseOrigin
<1>7. CASE EgressOrigin(p, o)
  <2>1. CASE p = App(NoName, "waypoint") /\ o = Object("Gateway", stackName, Waypoint, Plain)
    BY <2>1
  <2>2. QED
    BY <1>5, <1>7, <2>1 DEF EgressOrigin
<1>8. CASE FloorOrigin(p, o)
  <2>1. CASE FloorPolicies(p, o)
    BY <2>1 DEF FloorPolicies
  <2>2. ASSUME NEW k \in Indices(selfHosted), ControlPlanePolicy(selfHosted[k], p, o) PROVE PathDecides(p, o)
    BY <2>2 DEF ControlPlanePolicy
  <2>3. ASSUME NEW k \in Indices(selfHosted), selfHosted[k].rpo.declared, DeclaredPolicy(k, p, o)
        PROVE  PathDecides(p, o)
    <3>1. p.suffix = "networkpolicy-declared-egress"
      BY <2>3 DEF DeclaredPolicy, DeclaredEgressPath
    <3>2. QED
      BY <2>3, <3>1
  <2>4. QED
    BY <1>8, <2>1, <2>2, <2>3 DEF FloorOrigin
<1>9. QED
  BY <1>1, <1>2, <1>6, <1>7, <1>8 DEF Origin

\* A path with a fixed name holds one thing.
LEMMA FixedOnce ==
  ASSUME NEW p, NEW o, NEW r, FixedDecides(p, o), FixedDecides(p, r), p.suffix \in FixedSuffixes
  PROVE  o = r
<1>1. InfraPath("namespace") # App(NoName, "namespace")
  BY DEF InfraPath, App, Path
<1>2. QED
  BY <1>1, Zenon DEF FixedDecides, FixedSuffixes

\* A policy of the floor's own, at its path.
LEMMA FloorOnce ==
  ASSUME NEW p, NEW o, NEW r, FloorPolicies(p, o), FloorPolicies(p, r)
  PROVE  o = r
<1>1. /\ FloorPath("networkpolicy-default-deny-egress").suffix = "networkpolicy-default-deny-egress"
      /\ FloorPath("networkpolicy-allow-cluster-egress").suffix = "networkpolicy-allow-cluster-egress"
      /\ FloorPath("networkpolicy-allow-waypoint-egress").suffix = "networkpolicy-allow-waypoint-egress"
      /\ FloorPath("networkpolicy-tf-runner-controlplane-egress").suffix
           = "networkpolicy-tf-runner-controlplane-egress"
  BY DEF FloorPath, App, Path
<1>2. QED
  BY <1>1 DEF FloorPolicies

LEMMA PairsApart ==
  ASSUME NamesApart, NEW c \in Elements(doc.components), NEW d \in Elements(doc.components),
         NEW x \in Elements(doc.externals), NEW y \in Elements(doc.externals),
         Joined(c, x) = Joined(d, y)
  PROVE  c.name = d.name /\ x.name = y.name
  BY DEF NamesApart

\* A policy of a consumer and the external it is wired to.
LEMMA DeclaredOnce ==
  ASSUME EInv, PastValidate, NamesApart, NEW p, NEW o, NEW r,
         NEW k \in Indices(selfHosted), selfHosted[k].rpo.declared, DeclaredPolicy(k, p, o),
         NEW j \in Indices(selfHosted), selfHosted[j].rpo.declared, DeclaredPolicy(j, p, r)
  PROVE  o = r
<1> DEFINE x == BackupExternal(k)
           y == BackupExternal(j)
<1>1. PICK c \in Consumers(selfHosted, selfHosted[k].rpo.backupTo) :
        p = DeclaredEgressPath(c, x.name) /\ o = DeclaredEgressPolicy(stackName, c, x)
  BY DEF DeclaredPolicy
<1>2. PICK d \in Consumers(selfHosted, selfHosted[j].rpo.backupTo) :
        p = DeclaredEgressPath(d, y.name) /\ r = DeclaredEgressPolicy(stackName, d, y)
  BY DEF DeclaredPolicy
<1>3. c \o x.name = d \o y.name
  <2>1. App(c \o x.name, "networkpolicy-declared-egress") = App(d \o y.name, "networkpolicy-declared-egress")
    BY <1>1, <1>2, Zenon DEF DeclaredEgressPath
  <2>2. QED
    BY <2>1 DEF App, Path
<1>4. \A name, e : e \in Consumers(selfHosted, name) => \E pg \in Elements(doc.components) : e = pg.name
  <2>1. Elements(selfHosted) \subseteq Elements(doc.components)
    BY PartMembers DEF EInv, Elements
  <2>2. QED
    BY <2>1 DEF Consumers
<1>5. x \in Elements(doc.externals) /\ y \in Elements(doc.externals)
  BY NamesTyped
<1>6. c = d /\ x.name = y.name
  <2>1. PICK pg \in Elements(doc.components) : c = pg.name
    BY <1>1, <1>4
  <2>2. PICK qg \in Elements(doc.components) : d = qg.name
    BY <1>2, <1>4
  <2>3. Joined(pg, x) = Joined(qg, y)
    BY <1>3, <2>1, <2>2, Zenon DEF Joined
  <2>4. pg.name = qg.name /\ x.name = y.name
    BY <1>5, <2>3, PairsApart
  <2>5. QED
    BY <2>1, <2>2, <2>4, Zenon
<1>7. x.name = selfHosted[k].rpo.backupTo /\ y.name = selfHosted[j].rpo.backupTo
  BY NamesTyped
<1>8. x = y
  BY <1>6, <1>7 DEF BackupExternal
<1>9. QED
  BY <1>1, <1>2, <1>6, <1>8

\* A policy of the mesh.
LEMMA PolicyOnce ==
  ASSUME EInv, PastValidate, NamesApart, NEW p, NEW o, NEW r, p.suffix = "authorizationpolicy",
         NamedDecides(p, o), NamedDecides(p, r)
  PROVE  o = r
<1> DEFINE ofComponent(k, x) ==
             selfHosted[k].mtls /\ p = PolicyPath(selfHosted[k].name) /\ x = ZeroTrustPolicyOf(selfHosted[k])
           ofEdge(e, x) == IsEdge(e) /\ p = PolicyPath(e.name \o <<"egress">>) /\ x = EdgePolicyOf(e)
<1>1. /\ (\E k \in Indices(selfHosted) : ofComponent(k, o)) \/ \E e : ofEdge(e, o)
      /\ (\E k \in Indices(selfHosted) : ofComponent(k, r)) \/ \E e : ofEdge(e, r)
  BY Zenon DEF NamedDecides
<1>2. \A s, t : PolicyPath(s) = PolicyPath(t) => s = t
  BY DEF PolicyPath, App, Path
<1>3. ASSUME NEW k \in Indices(selfHosted), selfHosted[k].mtls, NEW e, IsEdge(e)
      PROVE  selfHosted[k].name # e.name \o <<"egress">>
  BY <1>3, EdgeNamed, PartMembers DEF NamesApart, EInv
<1>4. ASSUME NEW k \in Indices(selfHosted), NEW j \in Indices(selfHosted), selfHosted[k].name = selfHosted[j].name
      PROVE  k = j
  BY <1>4 DEF EInv, PartitionInv, Distinct
<1>5. ASSUME NEW e, IsEdge(e), NEW f, IsEdge(f), e.name \o <<"egress">> = f.name \o <<"egress">>
      PROVE  e = f
  <2>1. e.name = f.name
    BY <1>5, EdgeNamed, JoinedAlike
  <2>2. QED
    BY <1>5, <2>1, EdgesApart
<1>6. CASE \E k \in Indices(selfHosted) : ofComponent(k, o)
  <2>1. PICK k \in Indices(selfHosted) : ofComponent(k, o)
    BY <1>6
  <2>2. PICK j \in Indices(selfHosted) : ofComponent(j, r)
    BY <1>1, <1>2, <1>3, <2>1
  <2>3. QED
    BY <1>2, <1>4, <2>1, <2>2
<1>7. CASE \E e : ofEdge(e, o)
  <2>1. PICK e : ofEdge(e, o)
    BY <1>7
  <2>2. PICK f : ofEdge(f, r)
    BY <1>1, <1>2, <1>3, <2>1
  <2>3. QED
    BY <1>2, <1>5, <2>1, <2>2
<1>8. QED
  BY <1>1, <1>6, <1>7

LEMMA NamedOnce ==
  ASSUME EInv, PastValidate, NamesApart, NEW p, NEW o, NEW r, NamedDecides(p, o), NamedDecides(p, r),
         p.suffix \in NamedSuffixes
  PROVE  o = r
<1>1. /\ \A j, k \in Indices(selfHosted) : selfHosted[j].name = selfHosted[k].name => j = k
      /\ \A j, k \in Indices(managed) : managed[j].name = managed[k].name => j = k
  BY DEF EInv, PartitionInv, Distinct
<1>2. \A s, t, suffix : App(s, suffix) = App(t, suffix) => s = t
  BY DEF App, Path
<1>3. CASE p.suffix = "cluster"
  <2>1. PICK k \in Indices(selfHosted) : p = App(selfHosted[k].name, "cluster") /\ o = ClusterOf(selfHosted[k])
    BY <1>3 DEF NamedDecides
  <2>2. PICK j \in Indices(selfHosted) : p = App(selfHosted[j].name, "cluster") /\ r = ClusterOf(selfHosted[j])
    BY <1>3 DEF NamedDecides
  <2>3. selfHosted[k].name = selfHosted[j].name
    BY <1>2, <2>1, <2>2, Zenon
  <2>4. QED
    BY <1>1, <2>1, <2>2, <2>3
<1>4. CASE p.suffix = "scheduledbackup"
  <2>1. PICK k \in Indices(selfHosted) : p = App(selfHosted[k].name, "scheduledbackup") /\ o = ScheduleOf(selfHosted[k])
    BY <1>4 DEF NamedDecides
  <2>2. PICK j \in Indices(selfHosted) : p = App(selfHosted[j].name, "scheduledbackup") /\ r = ScheduleOf(selfHosted[j])
    BY <1>4 DEF NamedDecides
  <2>3. selfHosted[k].name = selfHosted[j].name
    BY <1>2, <2>1, <2>2, Zenon
  <2>4. QED
    BY <1>1, <2>1, <2>2, <2>3
<1>5. CASE p.suffix = "managed/main.tf"
  <2>1. PICK k \in Indices(managed) : p = App(managed[k].name, "managed/main.tf") /\ o = TofuOf(managed[k])
    BY <1>5 DEF NamedDecides
  <2>2. PICK j \in Indices(managed) : p = App(managed[j].name, "managed/main.tf") /\ r = TofuOf(managed[j])
    BY <1>5 DEF NamedDecides
  <2>3. managed[k].name = managed[j].name
    BY <1>2, <2>1, <2>2, Zenon
  <2>4. QED
    BY <1>1, <2>1, <2>2, <2>3
<1>6. CASE p.suffix = "terraform"
  <2>1. PICK k \in Indices(managed) : p = App(managed[k].name, "terraform") /\ o = TerraformOf(managed[k])
    BY <1>6 DEF NamedDecides
  <2>2. PICK j \in Indices(managed) : p = App(managed[j].name, "terraform") /\ r = TerraformOf(managed[j])
    BY <1>6 DEF NamedDecides
  <2>3. managed[k].name = managed[j].name
    BY <1>2, <2>1, <2>2, Zenon
  <2>4. QED
    BY <1>1, <2>1, <2>2, <2>3
<1>7. CASE p.suffix = "authorizationpolicy"
  BY <1>7, PolicyOnce
<1>8. CASE p.suffix = "serviceentry"
  <2>1. PICK e : IsEdge(e) /\ p = EntryPath(e.name) /\ o = EntryOf(e)
    BY <1>8 DEF NamedDecides
  <2>2. PICK f : IsEdge(f) /\ p = EntryPath(f.name) /\ r = EntryOf(f)
    BY <1>8 DEF NamedDecides
  <2>3. e.name = f.name
    BY <1>2, <2>1, <2>2 DEF EntryPath
  <2>4. QED
    BY <2>1, <2>2, <2>3, EdgesApart
<1>9. CASE p.suffix \in FloorSuffixes
  BY <1>9, FloorOnce DEF NamedDecides
<1>10. CASE p.suffix = "networkpolicy-controlplane-egress"
  <2>1. PICK k \in Indices(selfHosted) : ControlPlanePolicy(selfHosted[k], p, o)
    BY <1>10 DEF NamedDecides
  <2>2. PICK j \in Indices(selfHosted) : ControlPlanePolicy(selfHosted[j], p, r)
    BY <1>10 DEF NamedDecides
  <2>3. QED
    BY <1>1, <1>2, <2>1, <2>2, Zenon DEF ControlPlanePolicy
<1>11. CASE p.suffix = "networkpolicy-declared-egress"
  <2>1. PICK k \in Indices(selfHosted) : selfHosted[k].rpo.declared /\ DeclaredPolicy(k, p, o)
    BY <1>11 DEF NamedDecides
  <2>2. PICK j \in Indices(selfHosted) : selfHosted[j].rpo.declared /\ DeclaredPolicy(j, p, r)
    BY <1>11 DEF NamedDecides
  <2>3. QED
    BY <2>1, <2>2, DeclaredOnce
<1>12. QED
  BY <1>3, <1>4, <1>5, <1>6, <1>7, <1>8, <1>9, <1>10, <1>11 DEF NamedSuffixes

LEMMA OriginOnce ==
  ASSUME EInv, PastValidate, NamesApart, NEW p, NEW o, NEW r, Origin(p, o), Origin(p, r)
  PROVE  o = r
<1>1. PathDecides(p, o) /\ PathDecides(p, r)
  BY ByPath
<1>2. QED
  BY <1>1, FixedOnce, NamedOnce DEF PathDecides

\* So what is written at a path is what any call writes there.
LEMMA WrittenIs ==
  ASSUME EInv, PastValidate, NamesApart, NEW p \in DOMAIN files, NEW o, Origin(p, o)
  PROVE  files[p] = o /\ o \in OfKind(o.kind)
<1>1. files[p] = o
  BY AtPath, OriginOnce
<1>2. QED
  BY <1>1, MembersOfKind

-----------------------------------------------------------------------------
(* Guarantees                                                              *)

LEMMA ConsumersNeedMTLS ==
  ASSUME NEW d \in Document, Validate(d) = {}, NEW c \in Elements(d.components),
         c.placement = SelfHosted, c.allowedConsumers # {}
  PROVE  c.mtls
<1>1. PostgresErrors(c) = {}
  BY DEF Validate
<1>2. QED
  BY <1>1 DEF PostgresErrors, When

\* The policy of a component with mtls is the one written at its path.
LEMMA ZeroTrustPolicyWritten ==
  ASSUME EInv, pc = "done", NamesApart, NEW k \in Indices(selfHosted), selfHosted[k].mtls
  PROVE  ZeroTrustPolicyOf(selfHosted[k]) \in OfKind("AuthorizationPolicy")
<1> DEFINE pg == selfHosted[k]
           o == ZeroTrustPolicyOf(pg)
<1>1. PolicyPath(pg.name) \in DOMAIN files
  BY AllTurned DEF EInv, DatabasesWritten, Written, SelfHostedPaths
<1>2. Origin(PolicyPath(pg.name), o)
  BY Zenon DEF Origin, DatabaseOrigin, SelfHostedOrigin
<1>3. o.kind = "AuthorizationPolicy"
  BY DEF ZeroTrustPolicyOf, Object
<1>4. QED
  BY <1>1, <1>2, <1>3, DoneIsLast, WrittenIs

\* And so is the policy of each edge.
LEMMA EdgePathsWritten ==
  ASSUME EInv, pc = "done", NEW e, IsEdge(e)
  PROVE  Written(EdgePaths(e.name))
<1>1. ASSUME NEW k \in Indices(selfHosted), meshBackupTarget(k) PROVE Written(EdgePaths(BackupEdge(k).name))
  BY <1>1, AllTurned DEF EInv, EdgesWritten
<1>2. ASSUME NEW k \in Indices(managed), neonTarget(managed[k]) PROVE Written(EdgePaths(NeonEdge(k).name))
  BY <1>2, AllTurned DEF EInv, EdgesWritten
<1>3. ASSUME managed # <<>> PROVE Written(EdgePaths(ControlPlaneEdge.name))
  BY <1>3, DoneIsLast DEF DonePC, EInv, EdgesWritten, ControlPlaneEdge, Edge
<1>4. QED
  BY <1>1, <1>2, <1>3 DEF IsEdge

LEMMA EdgeWritten ==
  ASSUME EInv, pc = "done", NamesApart, NEW e, IsEdge(e)
  PROVE  EntryOf(e) \in OfKind("ServiceEntry") /\ EdgePolicyOf(e) \in OfKind("AuthorizationPolicy")
<1>1. EntryPath(e.name) \in DOMAIN files /\ PolicyPath(e.name \o <<"egress">>) \in DOMAIN files
  BY EdgePathsWritten DEF Written, EdgePaths
<1>2. Origin(EntryPath(e.name), EntryOf(e)) /\ Origin(PolicyPath(e.name \o <<"egress">>), EdgePolicyOf(e))
  BY Zenon DEF Origin, EgressOrigin, EdgeOrigin
<1>3. EntryOf(e).kind = "ServiceEntry" /\ EdgePolicyOf(e).kind = "AuthorizationPolicy"
  BY DEF EntryOf, EdgePolicyOf, Object
<1>4. QED
  BY <1>1, <1>2, <1>3, DoneIsLast, WrittenIs

\* Every component of the document is on its side of the partition.
LEMMA OnItsSide ==
  ASSUME EInv, pc = "done", NEW c \in Elements(doc.components)
  PROVE  /\ doc \in Document /\ Validate(doc) = {}
         /\ \/ c.placement = SelfHosted /\ \E k \in Indices(selfHosted) : c = selfHosted[k]
            \/ c.placement = Managed /\ \E k \in Indices(managed) : c = managed[k]
<1>1. doc \in Document /\ Validate(doc) = {}
  BY DoneIsLast, DocumentsAssumption DEF EInv, IInv, TypeOK, Valid
<1>2. c.placement \in {SelfHosted, Managed}
  BY <1>1, ValidComponents
<1>3. pc \in FromOperator
  BY DoneIsLast DEF DonePC, FromOperator
<1>4. Placed(c)
  BY <1>3 DEF EInv, PartitionInv
<1>5. QED
  BY <1>1, <1>2, <1>4 DEF Placed, Elements

\* A policy whose rules name the principal, for each consumer of a component.
LEMMA ConsumerRulesAre ==
  ASSUME NEW stack, NEW pg, NEW c \in pg.allowedConsumers
  PROVE  \E r \in ConsumerRules(stack, pg) : Principal(stack, c) \in r.principals
<1>1. Rule({Principal(stack, c)}, {}, {PostgresPort}) \in ConsumerRules(stack, pg)
  BY DEF ConsumerRules
<1>2. Rule({Principal(stack, c)}, {}, {PostgresPort}).principals = {Principal(stack, c)}
  BY DEF Rule
<1>3. QED
  BY <1>1, <1>2

Named(consumer) ==
    \E ap \in OfKind("AuthorizationPolicy") : \E r \in ap.spec.rules : Principal(stackName, consumer) \in r.principals
LEMMA ConsumersNamed ==
  ASSUME EInv, pc = "done", NamesApart, NEW c \in Elements(doc.components), NEW consumer \in c.allowedConsumers
  PROVE  Named(consumer)
<1>1. CASE c.placement = SelfHosted /\ \E k \in Indices(selfHosted) : c = selfHosted[k]
  <2>1. PICK k \in Indices(selfHosted) : c = selfHosted[k]
    BY <1>1
  <2>2. c.mtls
    BY <1>1, OnItsSide, ConsumersNeedMTLS
  <2>3. ZeroTrustPolicyOf(c) \in OfKind("AuthorizationPolicy")
    BY <2>1, <2>2, ZeroTrustPolicyWritten
  <2>4. ConsumerRules(stackName, c) \subseteq ZeroTrustPolicyOf(c).spec.rules
    BY DEF ZeroTrustPolicyOf, Object
  <2>5. QED
    BY <2>3, <2>4, ConsumerRulesAre DEF Named
<1>2. CASE c.placement = Managed /\ \E k \in Indices(managed) : c = managed[k]
  <2>1. PICK k \in Indices(managed) : c = managed[k]
    BY <1>2
  <2>2. neonTarget(managed[k])
    BY <2>1 DEF neonTarget
  <2>3. EdgePolicyOf(NeonEdge(k)) \in OfKind("AuthorizationPolicy")
    BY <2>2, EdgeWritten DEF IsEdge
  <2>4. EdgePolicyOf(NeonEdge(k)).spec.rules = {Rule(NeonEdge(k).principals, {}, {})}
    BY DEF EdgePolicyOf, Object
  <2>5. Rule(NeonEdge(k).principals, {}, {}).principals = {Principal(stackName, x) : x \in c.allowedConsumers}
    BY <2>1 DEF Rule, NeonEdge, Edge
  <2>6. QED
    BY <2>3, <2>4, <2>5 DEF Named
<1>3. QED
  BY <1>1, <1>2, OnItsSide

LEMMA GuaranteesHold == ASSUME EInv, NamesApart PROVE GuaranteesHonoured
<1> SUFFICES ASSUME pc = "done", NEW c \in Elements(doc.components)
             PROVE  LET about(kind) == {o \in OfKind(kind) : o.name = c.name}
                    IN  /\ c.mtls => \E ap \in about("AuthorizationPolicy") : ap.spec.selects = c.name
                        /\ c.rpo.declared =>
                             /\ about("ScheduledBackup") # {}
                             /\ \E k \in about("Cluster") : k.spec.backup = {c.rpo.backupTo}
                        /\ \A consumer \in c.allowedConsumers : Named(consumer)
  BY DEF GuaranteesHonoured, Named
<1> DEFINE about(kind) == {o \in OfKind(kind) : o.name = c.name}
<1>1. ASSUME c.mtls \/ c.rpo.declared PROVE \E k \in Indices(selfHosted) : c = selfHosted[k]
  BY <1>1, OnItsSide, ValidComponents
<1>2. ASSUME c.mtls PROVE \E ap \in about("AuthorizationPolicy") : ap.spec.selects = c.name
  <2>1. ZeroTrustPolicyOf(c) \in OfKind("AuthorizationPolicy")
    BY <1>1, <1>2, ZeroTrustPolicyWritten
  <2>2. ZeroTrustPolicyOf(c).name = c.name /\ ZeroTrustPolicyOf(c).spec.selects = c.name
    BY DEF ZeroTrustPolicyOf, Object
  <2>3. QED
    BY <2>1, <2>2
<1>3. ASSUME c.rpo.declared PROVE about("ScheduledBackup") # {}
  <2>1. ScheduleOf(c) \in OfKind("ScheduledBackup")
    BY <1>1, <1>3, DatabasesAre
  <2>2. ScheduleOf(c).name = c.name
    BY DEF ScheduleOf, Object
  <2>3. QED
    BY <2>1, <2>2
<1>4. ASSUME c.rpo.declared PROVE \E k \in about("Cluster") : k.spec.backup = {c.rpo.backupTo}
  <2>1. PICK k \in Indices(selfHosted) : c = selfHosted[k]
    BY <1>1, <1>4
  <2>2. ClusterOf(c) \in OfKind("Cluster")
    BY <2>1, DatabasesAre
  <2>3. externalsByName(c.rpo.backupTo).name = c.rpo.backupTo
    BY <1>4, <2>1, DoneIsLast, NamesTyped DEF BackupExternal
  <2>4. ClusterOf(c).name = c.name /\ ClusterOf(c).spec.backup = {c.rpo.backupTo}
    BY <1>4, <2>3 DEF ClusterOf, Object, barmanObjectStore
  <2>5. QED
    BY <2>2, <2>4
<1>5. \A consumer \in c.allowedConsumers : Named(consumer)
  BY ConsumersNamed
<1>6. QED
  BY <1>2, <1>3, <1>4, <1>5

\* guarantees.go:9: for every document that keeps its names apart, what is declared
\* ships: the policy of mtls, the schedule and the archive of an RPO, a policy that
\* names each consumer, all still there when the compile ends.
THEOREM GuaranteesShip == Spec => [](NamesApart => GuaranteesHonoured)
<1>1. EInv => (NamesApart => GuaranteesHonoured)
  BY GuaranteesHold
<1>2. QED
  BY <1>1, Emission, PTL

-----------------------------------------------------------------------------
(* Nothing is overwritten                                                  *)

\* After the partition, a step that does not refuse only adds paths.
LEMMA StepGrows ==
  ASSUME EInv, Next, pc \in FromNamespace, pc' # "refused"
  PROVE  Grows
<1>1. pc \notin {"load", "validate", "partition"}
  BY DEF FromNamespace, FromRBAC, FromSelfHosted, FromManaged, FromTargets, FromBackupEgress, FromNeonEgress,
         FromControlPlane, FromFloor, FromCNPGControlPlane, FromRunnerControlPlane, FromDeclaredEgress,
         FromKustomization
<1>2. ~(Load \/ Compile \/ PartitionComponents \/ Partitioned)
  BY <1>1 DEF Load, Compile, PartitionComponents, Partitioned
<1>3. CASE Exited
  BY <1>3 DEF Exited, vars, Grows
<1>4. CASE EndOfLoops
  BY <1>4, LoopsWalk DEF Walked
<1>5. CASE \/ CNPGOperator \/ AppNamespace \/ ManagedRunnerRBAC \/ SelfHostedPostgres \/ ManagedPostgres
           \/ EgressTargets \/ BackupEgress \/ NeonEgress \/ ControlPlaneEgress \/ Floor \/ CNPGControlPlane
           \/ RunnerControlPlane \/ DeclaredEgress \/ AppKustomization
  BY <1>5, CallsWalk DEF Walked
<1>6. QED
  BY <1>2, <1>3, <1>4, <1>5 DEF Next

Kept == \A p \in DOMAIN files : files'[p] = files[p]
LEMMA StepKeeps ==
  ASSUME EInv, EInv', NamesApart, Next, pc' # "refused"
  PROVE  Kept
<1> SUFFICES ASSUME NEW p \in DOMAIN files PROVE files'[p] = files[p]
  BY DEF Kept
<1>1. pc \in FromNamespace
  BY DEF EInv, NothingYet, NoFiles
<1>2. UNCHANGED <<doc, selfHosted, managed>> /\ p \in DOMAIN files'
  BY <1>1, StepGrows DEF Grows
<1>3. Origin(p, files[p])
  BY AtPath
<1>4. Origin(p, files'[p])
  <2>1. SoundMap(files)'
    BY DEF EInv, Traced
  <2>2. Origin(p, files[p])'
    BY <1>2, <2>1 DEF SoundMap
  <2>3. QED
    BY <1>2, <2>2, OriginKept
<1>5. PastValidate
  BY <1>1 DEF PastValidate, FromNamespace, FromRBAC, FromSelfHosted, FromManaged, FromTargets, FromBackupEgress,
              FromNeonEgress, FromControlPlane, FromFloor, FromCNPGControlPlane, FromRunnerControlPlane,
              FromDeclaredEgress, FromKustomization
<1>6. QED
  BY <1>3, <1>4, <1>5, OriginOnce

LEMMA DocumentKept == ASSUME [Next]_vars PROVE UNCHANGED doc
<1>1. ASSUME NEW report, Refuse(report) PROVE UNCHANGED doc
  BY <1>1 DEF Refuse
<1>2. ASSUME NEW result, NEW next, Emitted(result, next) PROVE UNCHANGED doc
  BY <1>2 DEF Emitted
<1>3. ASSUME NEW result, Turn(result) PROVE UNCHANGED doc
  BY <1>3 DEF Turn
<1>4. EndOfLoops \/ Exited \/ PartitionComponents \/ UNCHANGED vars => UNCHANGED doc
  BY DEF EndOfLoops, EndLoop, Exited, PartitionComponents, vars
<1>5. QED
  BY <1>1, <1>2, <1>3, <1>4 DEF Next, Load, Compile, Partitioned, CNPGOperator, AppNamespace, ManagedRunnerRBAC,
     SelfHostedPostgres, ManagedPostgres, EgressTargets, BackupEgress, NeonEgress, ControlPlaneEgress, Floor,
     CNPGControlPlane, RunnerControlPlane, DeclaredEgress, AppKustomization

LEMMA ApartKept == ASSUME NamesApart, [Next]_vars PROVE NamesApart'
<1>1. doc' = doc
  BY DocumentKept
<1>2. \A placement : OfPlacement(placement)' = OfPlacement(placement)
  BY <1>1 DEF OfPlacement
<1>3. EdgeNames' = EdgeNames
  BY <1>1, <1>2 DEF EdgeNames
<1>4. QED
  BY <1>1, <1>2, <1>3 DEF NamesApart

\* flux.go:617: for every document that keeps its names apart, no call of the compile
\* replaces what an earlier one, or an earlier turn of a loop, wrote at a path.
THEOREM NothingOverwritten == Spec /\ NamesApart => NoOverwrite
<1>1. EInv /\ EInv' /\ NamesApart /\ [Next]_vars =>
        [pc' # "refused" => \A p \in DOMAIN files : files'[p] = files[p]]_vars
  BY StepKeeps DEF Kept
<1>2. NamesApart /\ [Next]_vars => NamesApart'
  BY ApartKept
<1>3. QED
  BY <1>1, <1>2, Emission, PTL DEF Spec, NoOverwrite

-----------------------------------------------------------------------------
(* Identities                                                              *)

(***************************************************************************)
(* What the stack and its components may not be called: the namespace of   *)
(* the operator, the operator, the runner of the managed components.       *)
(***************************************************************************)
NamesFree ==
    /\ stackName \notin {CnpgOperator, CnpgSystem}
    /\ \A c \in Elements(doc.components) : c.name # TfRunner

\* Where an object of a kind and a name is written, the floor's kind aside.
LivesAt(p, kind, name) ==
    /\ kind = "Namespace" => p = IF name = CnpgSystem THEN InfraPath("namespace") ELSE App(NoName, "namespace")
    /\ kind = "HelmRepository" => p = InfraPath("helmrepository")
    /\ kind = "HelmRelease" => p = InfraPath("helmrelease")
    /\ kind = "Kustomization" => p = IF name = CnpgOperator THEN OperatorKustomizationPath ELSE AppKustomizationPath
    /\ kind = "ServiceAccount" => p = App(NoName, "tf-runner-serviceaccount")
    /\ kind = "RoleBinding" => p = App(NoName, "tf-runner-rolebinding")
    /\ kind = "Cluster" => p = App(name, "cluster")
    /\ kind = "PeerAuthentication" => p = App(NoName, "peerauthentication")
    /\ kind = "ScheduledBackup" => p = App(name, "scheduledbackup")
    /\ kind = "tofu" => p = App(name, "managed/main.tf")
    /\ kind = "Terraform" => p = App(name, "terraform")
    /\ kind = "Gateway" => p = App(NoName, "waypoint")
    /\ kind = "ServiceEntry" => p = EntryPath(name)
    /\ kind = "AuthorizationPolicy" => p = PolicyPath(name)
MeshKinds ==
    {"Namespace", "HelmRepository", "HelmRelease", "Kustomization", "ServiceAccount", "RoleBinding", "Cluster",
     "PeerAuthentication", "ScheduledBackup", "tofu", "Terraform", "Gateway", "ServiceEntry", "AuthorizationPolicy"}
Housed(p, o) == o.kind \in MeshKinds /\ LivesAt(p, o.kind, o.name)

LEMMA ObjectFields ==
  ASSUME NEW kind, NEW ns, NEW name, NEW spec
  PROVE  Object(kind, ns, name, spec).kind = kind /\ Object(kind, ns, name, spec).name = name
  BY DEF Object

LEMMA OriginHoused ==
  ASSUME NamesFree, NEW p, NEW o, Origin(p, o)
  PROVE  Housed(p, o) \/ FloorOrigin(p, o)
<1> USE DEF Housed, LivesAt, MeshKinds
<1>1. stackName # CnpgOperator /\ stackName # CnpgSystem
  BY DEF NamesFree
<1>2. CASE InfraOrigin(p, o)
  BY <1>2, ObjectFields DEF InfraOrigin, Kustomization
<1>3. CASE StackOrigin(p, o)
  BY <1>1, <1>3, ObjectFields DEF StackOrigin, AppKustomizationObject, Kustomization
<1>4. ASSUME NEW pg, SelfHostedOrigin(pg, p, o) PROVE Housed(p, o)
  BY <1>4, ObjectFields DEF SelfHostedOrigin, ClusterOf, ZeroTrustPolicyOf
<1>5. ASSUME NEW pg, ManagedOrigin(pg, p, o) PROVE Housed(p, o)
  BY <1>5, ObjectFields DEF ManagedOrigin
<1>6. ASSUME NEW e, EdgeOrigin(e, p, o) PROVE Housed(p, o)
  BY <1>6, ObjectFields DEF EdgeOrigin, EntryOf, EdgePolicyOf
<1>7. CASE DatabaseOrigin(p, o)
  BY <1>4, <1>5, <1>7, Zenon DEF DatabaseOrigin
<1>8. CASE EgressOrigin(p, o)
  <2>1. CASE p = App(NoName, "waypoint") /\ o = Object("Gateway", stackName, Waypoint, Plain)
    BY <2>1, ObjectFields
  <2>2. QED
    BY <1>6, <1>8, <2>1, Zenon DEF EgressOrigin
<1>9. QED
  BY <1>2, <1>3, <1>7, <1>8 DEF Origin

LEMMA HousedOnce ==
  ASSUME NEW p, NEW o, NEW q, NEW r, Housed(p, o), Housed(q, r), o.kind = r.kind, o.name = r.name
  PROVE  p = q
<1>1. LivesAt(p, o.kind, o.name) /\ LivesAt(q, o.kind, o.name) /\ o.kind \in MeshKinds
  BY DEF Housed
<1>2. ASSUME NEW kind \in MeshKinds, NEW name, LivesAt(p, kind, name), LivesAt(q, kind, name) PROVE p = q
  BY <1>2 DEF LivesAt, MeshKinds
<1>3. QED
  BY <1>1, <1>2


LEMMA OwnNames ==
  ASSUME NEW p, NEW o, FloorPolicies(p, o)
  PROVE  \/ /\ p = FloorPath("networkpolicy-default-deny-egress")
            /\ o.name = <<"default", "deny", "egress">>
         \/ /\ p = FloorPath("networkpolicy-allow-cluster-egress")
            /\ o.name = <<"allow", "cluster", "egress">>
         \/ /\ p = FloorPath("networkpolicy-allow-waypoint-egress")
            /\ o.name = <<"allow", "waypoint", "egress">>
         \/ /\ p = FloorPath("networkpolicy-tf-runner-controlplane-egress")
            /\ o.name = TfRunner \o <<"controlplane", "egress">>
  BY DEF FloorPolicies, NetworkPolicy, Object

\* The names of the floor's policies tell its families apart.
LEMMA OwnNamed ==
  ASSUME NEW p, NEW o, FloorPolicies(p, o)
  PROVE  \/ /\ p = FloorPath("networkpolicy-tf-runner-controlplane-egress")
            /\ o.name = TfRunner \o <<"controlplane", "egress">>
         \/ /\ p \in {FloorPath("networkpolicy-default-deny-egress"), FloorPath("networkpolicy-allow-cluster-egress"),
                      FloorPath("networkpolicy-allow-waypoint-egress")}
            /\ ~NextToLast(o.name, "controlplane") /\ ~NextToLast(o.name, "declared")
<1>1. o.name \in {<<"default", "deny", "egress">>, <<"allow", "cluster", "egress">>, <<"allow", "waypoint", "egress">>}
        => ~NextToLast(o.name, "controlplane") /\ ~NextToLast(o.name, "declared")
  BY DEF NextToLast
<1>2. QED
  BY <1>1, OwnNames

LEMMA OwnOnce ==
  ASSUME NEW p, NEW o, FloorPolicies(p, o), NEW q, NEW r, FloorPolicies(q, r), o.name = r.name
  PROVE  p = q
<1> DEFINE runner == FloorPath("networkpolicy-tf-runner-controlplane-egress")
<1>1. TfRunner \in Seq({"tf", "runner"})
  BY DEF TfRunner
<1>2. NextToLast(TfRunner \o <<"controlplane", "egress">>, "controlplane")
  BY <1>1, JoinedEnd
<1>3. /\ runner # FloorPath("networkpolicy-default-deny-egress")
      /\ runner # FloorPath("networkpolicy-allow-cluster-egress")
      /\ runner # FloorPath("networkpolicy-allow-waypoint-egress")
  BY DEF FloorPath, App, Path
<1>4. p = runner <=> NextToLast(o.name, "controlplane")
  BY <1>2, <1>3, OwnNamed
<1>5. q = runner <=> NextToLast(o.name, "controlplane")
  BY <1>2, <1>3, OwnNamed
<1>6. CASE p # runner /\ q # runner
  <2>1. /\ <<"default", "deny", "egress">> # <<"allow", "cluster", "egress">>
        /\ <<"default", "deny", "egress">> # <<"allow", "waypoint", "egress">>
        /\ <<"allow", "cluster", "egress">> # <<"allow", "waypoint", "egress">>
    OBVIOUS
  <2>2. QED
    BY <1>6, <2>1, OwnNames
<1>7. QED
  BY <1>4, <1>5, <1>6

LEMMA ControlPlaneNamed ==
  ASSUME EInv, PastValidate, NEW k \in Indices(selfHosted), NEW p, NEW o, ControlPlanePolicy(selfHosted[k], p, o)
  PROVE  /\ selfHosted[k].name \in Name
         /\ p = App(selfHosted[k].name, "networkpolicy-controlplane-egress")
         /\ o.name = selfHosted[k].name \o <<"controlplane", "egress">>
         /\ NextToLast(o.name, "controlplane")
<1>1. o.name = selfHosted[k].name \o <<"controlplane", "egress">>
  BY DEF ControlPlanePolicy, NetworkPolicy, Object
<1>2. selfHosted[k].name \in Name
  BY NamesTyped
<1>3. NextToLast(o.name, "controlplane")
  BY <1>1, <1>2, JoinedEnd DEF Name
<1>4. QED
  BY <1>1, <1>2, <1>3 DEF ControlPlanePolicy

LEMMA DeclaredNamed ==
  ASSUME EInv, PastValidate, NEW k \in Indices(selfHosted), selfHosted[k].rpo.declared,
         NEW p, NEW o, DeclaredPolicy(k, p, o)
  PROVE  /\ NextToLast(o.name, "declared")
         /\ \E pair \in Name :
              p = App(pair, "networkpolicy-declared-egress") /\ o.name = pair \o <<"declared", "egress">>
<1>1. PICK c \in Consumers(selfHosted, selfHosted[k].rpo.backupTo) :
        /\ p = DeclaredEgressPath(c, BackupExternal(k).name)
        /\ o = DeclaredEgressPolicy(stackName, c, BackupExternal(k))
  BY DEF DeclaredPolicy
<1> DEFINE pair == c \o BackupExternal(k).name
<1>2. c \in Name
  <2>1. PICK pg \in Elements(selfHosted) : c = pg.name
    BY DEF Consumers
  <2>2. QED
    BY <2>1, NamesTyped DEF Elements
<1>3. pair \in Name
  BY <1>2, NamesTyped DEF Name
<1>4. o.name = pair \o <<"declared", "egress">>
  BY <1>1 DEF DeclaredEgressPolicy, NetworkPolicy, Object
<1>5. p = App(pair, "networkpolicy-declared-egress")
  BY <1>1 DEF DeclaredEgressPath
<1> HIDE DEF pair
<1>6. NextToLast(o.name, "declared")
  BY <1>3, <1>4, JoinedEnd DEF Name
<1>7. QED
  BY <1>3, <1>4, <1>5, <1>6

\* Two policies of the floor with one name were written at one path.
LEMMA FloorIdentified ==
  ASSUME EInv, PastValidate, NamesFree, NEW p, NEW o, FloorOrigin(p, o), NEW q, NEW r, FloorOrigin(q, r),
         o.name = r.name
  PROVE  p = q
<1> DEFINE own(x, y) == FloorPolicies(x, y)
           controlPlane(x, y) == \E k \in Indices(selfHosted) : ControlPlanePolicy(selfHosted[k], x, y)
           declared(x, y) == \E k \in Indices(selfHosted) : selfHosted[k].rpo.declared /\ DeclaredPolicy(k, x, y)
<1>1. /\ own(p, o) \/ controlPlane(p, o) \/ declared(p, o)
      /\ own(q, r) \/ controlPlane(q, r) \/ declared(q, r)
  BY DEF FloorOrigin
<1>2. ASSUME NEW x, NEW y, NEW k \in Indices(selfHosted), ControlPlanePolicy(selfHosted[k], x, y),
             NEW w, NEW z, own(w, z)
      PROVE  y.name # z.name
  <2>1. selfHosted[k].name \in Name /\ y.name = selfHosted[k].name \o <<"controlplane", "egress">>
    BY <1>2, ControlPlaneNamed
  <2>2. NextToLast(y.name, "controlplane")
    BY <1>2, ControlPlaneNamed
  <2>3. selfHosted[k].name # TfRunner
    BY PartMembers DEF NamesFree, EInv
  <2>4. selfHosted[k].name \in Seq(STRING \cup {"tf", "runner"}) /\ TfRunner \in Seq(STRING \cup {"tf", "runner"})
    <3>1. selfHosted[k].name \in Seq(STRING \cup {"tf", "runner"})
      BY <2>1, SeqMonotonic DEF Name
    <3>2. QED
      BY <3>1 DEF TfRunner
  <2>5. y.name # TfRunner \o <<"controlplane", "egress">>
    <3>1. PICK s : s = selfHosted[k].name
      OBVIOUS
    <3>2. s \in Seq(STRING \cup {"tf", "runner"}) /\ s # TfRunner /\ y.name = s \o <<"controlplane", "egress">>
      BY <2>1, <2>3, <2>4, <3>1
    <3>3. PICK t : t = TfRunner
      OBVIOUS
    <3>4. t \in Seq(STRING \cup {"tf", "runner"})
      BY <2>4, <3>3
    <3>5. s \o <<"controlplane", "egress">> # t \o <<"controlplane", "egress">>
      <4>1. PICK S : S = STRING \cup {"tf", "runner"}
        OBVIOUS
      <4>2. s \in Seq(S) /\ t \in Seq(S)
        BY <3>2, <3>4, <4>1
      <4>3. s \o <<"controlplane", "egress">> = t \o <<"controlplane", "egress">> => s = t
        BY <4>2, JoinedAlikeTwice
      <4>4. QED
        BY <3>2, <3>3, <4>3
    <3>6. QED
      BY <3>2, <3>3, <3>5
  <2>6. QED
    BY <1>2, <2>2, <2>5, OwnNamed
<1>3. ASSUME NEW x, NEW y, declared(x, y), NEW w, NEW z, own(w, z) \/ controlPlane(w, z)
      PROVE  y.name # z.name
  <2>1. NextToLast(y.name, "declared")
    BY <1>3, DeclaredNamed
  <2>2. ASSUME own(w, z) PROVE ~NextToLast(z.name, "declared")
    <3>1. TfRunner \in Seq({"tf", "runner"})
      BY DEF TfRunner
    <3>2. NextToLast(TfRunner \o <<"controlplane", "egress">>, "controlplane")
      BY <3>1, JoinedEnd
    <3>3. NextToLast(z.name, "controlplane") \/ ~NextToLast(z.name, "declared")
      BY <2>2, <3>2, OwnNamed
    <3>4. QED
      BY <3>3 DEF NextToLast
  <2>3. ASSUME controlPlane(w, z) PROVE ~NextToLast(z.name, "declared")
    <3>1. NextToLast(z.name, "controlplane")
      BY <2>3, ControlPlaneNamed
    <3>2. QED
      BY <3>1 DEF NextToLast
  <2>4. QED
    BY <1>3, <2>1, <2>2, <2>3
<1>4. CASE own(p, o) /\ own(q, r)
  BY <1>4, OwnOnce
<1>5. CASE controlPlane(p, o) /\ controlPlane(q, r)
  <2>1. PICK k \in Indices(selfHosted) : ControlPlanePolicy(selfHosted[k], p, o)
    BY <1>5
  <2>2. PICK j \in Indices(selfHosted) : ControlPlanePolicy(selfHosted[j], q, r)
    BY <1>5
  <2>3. PICK s \in Name : p = App(s, "networkpolicy-controlplane-egress") /\ o.name = s \o <<"controlplane", "egress">>
    BY <2>1, ControlPlaneNamed
  <2>4. PICK t \in Name : q = App(t, "networkpolicy-controlplane-egress") /\ r.name = t \o <<"controlplane", "egress">>
    BY <2>2, ControlPlaneNamed
  <2>5. s \o <<"controlplane", "egress">> = t \o <<"controlplane", "egress">>
    BY <2>3, <2>4
  <2>6. s = t
    BY <2>5, JoinedAlikeTwice DEF Name
  <2>7. QED
    BY <2>3, <2>4, <2>6
<1>6. CASE declared(p, o) /\ declared(q, r)
  <2>1. PICK s \in Name : p = App(s, "networkpolicy-declared-egress") /\ o.name = s \o <<"declared", "egress">>
    BY <1>6, DeclaredNamed
  <2>2. PICK t \in Name : q = App(t, "networkpolicy-declared-egress") /\ r.name = t \o <<"declared", "egress">>
    BY <1>6, DeclaredNamed
  <2>3. s \o <<"declared", "egress">> = t \o <<"declared", "egress">>
    BY <2>1, <2>2
  <2>4. s = t
    BY <2>3, JoinedAlikeTwice DEF Name
  <2>5. QED
    BY <2>1, <2>2, <2>4
<1>7. QED
  BY <1>1, <1>2, <1>3, <1>4, <1>5, <1>6

LEMMA IdentitiesHold == ASSUME EInv, NamesFree PROVE UniqueIdentities
<1> SUFFICES ASSUME NEW p \in DOMAIN files, NEW q \in DOMAIN files,
                    files[p].kind = files[q].kind, files[p].name = files[q].name
             PROVE  p = q
  BY Zenon DEF UniqueIdentities
<1>1. pc \in FromNamespace
  BY DEF EInv, NothingYet, NoFiles
<1>2. PastValidate
  BY <1>1 DEF PastValidate, FromNamespace, FromRBAC, FromSelfHosted, FromManaged, FromTargets, FromBackupEgress,
              FromNeonEgress, FromControlPlane, FromFloor, FromCNPGControlPlane, FromRunnerControlPlane,
              FromDeclaredEgress, FromKustomization
<1>3. /\ Housed(p, files[p]) \/ FloorOrigin(p, files[p])
      /\ Housed(q, files[q]) \/ FloorOrigin(q, files[q])
  BY AtPath, OriginHoused
<1>4. /\ FloorOrigin(p, files[p]) => files[p].kind = "NetworkPolicy"
      /\ FloorOrigin(q, files[q]) => files[q].kind = "NetworkPolicy"
  BY NetworkPolicies
<1>5. /\ Housed(p, files[p]) => files[p].kind # "NetworkPolicy"
      /\ Housed(q, files[q]) => files[q].kind # "NetworkPolicy"
  BY DEF Housed, MeshKinds
<1>6. QED
  BY <1>2, <1>3, <1>4, <1>5, HousedOnce, FloorIdentified

\* flux.go: for every document whose stack and components leave the platform's
\* names alone, no two files ever declare one object, at any point of a compile.
THEOREM IdentitiesAreUnique == Spec => [](NamesFree => UniqueIdentities)
<1>1. EInv => (NamesFree => UniqueIdentities)
  BY IdentitiesHold
<1>2. QED
  BY <1>1, Emission, PTL

-----------------------------------------------------------------------------
(* What NamesApart asks is little                                          *)

\* Names without a hyphen are always apart.
LEMMA OneSegmentApart ==
  ASSUME doc \in Document,
         \A c \in Elements(doc.components) : Len(c.name) = 1,
         \A x \in Elements(doc.externals) : Len(x.name) = 1
  PROVE  NamesApart
<1>1. \A c \in Elements(doc.components) : c.name \in Name
  <2>1. \A c \in Elements(doc.components) : c \in Postgres
    BY DEF Document, Elements, Indices
  <2>2. QED
    BY <2>1 DEF Postgres
<1>2. \A x \in Elements(doc.externals) : x.name \in Name
  <2>1. \A x \in Elements(doc.externals) : x \in External
    BY DEF Document, Elements, Indices
  <2>2. QED
    BY <2>1 DEF External
<1>3. ASSUME NEW S, NEW n \in Seq(S), NEW b PROVE Len(n \o <<b>>) = Len(n) + 1
  OBVIOUS
<1>4. ASSUME NEW n \in EdgeNames PROVE n \in Seq(Segment) /\ Len(n) > 0
  <2>1. CASE \E x \in Elements(doc.externals) : n = x.name
    BY <1>2, <2>1, NamesSegmented
  <2>2. CASE \E c \in OfPlacement(Managed) : n = c.name \o <<"neon">>
    <3>1. PICK c \in Elements(doc.components) : n = c.name \o <<"neon">>
      BY <2>2 DEF OfPlacement
    <3>2. c.name \in Seq(Segment) /\ <<"neon">> \in Seq(Segment)
      BY <1>1, NamesSegmented DEF Segment
    <3>3. QED
      BY <3>1, <3>2
  <2>3. CASE n = NeonControlPlane
    BY <2>3 DEF NeonControlPlane, Segment
  <2>4. QED
    BY <2>1, <2>2, <2>3 DEF EdgeNames
<1>5. ASSUME NEW c \in Elements(doc.components), NEW n \in EdgeNames PROVE c.name # n \o <<"egress">>
  BY <1>3, <1>4
<1>6. ASSUME NEW x \in Elements(doc.externals) PROVE x.name # NeonControlPlane
  <2>1. Len(NeonControlPlane) = 3
    BY DEF NeonControlPlane
  <2>2. QED
    BY <2>1
<1>7. ASSUME NEW x \in Elements(doc.externals), NEW c \in OfPlacement(Managed) PROVE x.name # c.name \o <<"neon">>
  <2>1. c.name \in Name /\ Len(c.name) = 1
    BY <1>1 DEF OfPlacement
  <2>2. Len(c.name \o <<"neon">>) = 2
    <3>1. c.name \in Seq(STRING)
      BY <2>1 DEF Name
    <3>2. Len(c.name \o <<"neon">>) = Len(c.name) + 1
      BY <1>3, <3>1, Zenon
    <3>3. QED
      BY <2>1, <3>2
  <2>3. QED
    BY <2>2
<1>8. ASSUME NEW c \in Elements(doc.components), NEW d \in Elements(doc.components),
             NEW x \in Elements(doc.externals), NEW y \in Elements(doc.externals), Joined(c, x) = Joined(d, y)
      PROVE  c.name = d.name /\ x.name = y.name
  <2>1. ASSUME NEW s \in Name, NEW t \in Name, Len(s) = 1, Len(t) = 1
        PROVE  (s \o t)[1] = s[1] /\ (s \o t)[2] = t[1]
    BY <2>1 DEF Name
  <2>2. /\ c.name \in Name /\ d.name \in Name /\ x.name \in Name /\ y.name \in Name
        /\ Len(c.name) = 1 /\ Len(d.name) = 1 /\ Len(x.name) = 1 /\ Len(y.name) = 1
    BY <1>1, <1>2
  <2>3. /\ Joined(c, x)[1] = c.name[1] /\ Joined(c, x)[2] = x.name[1]
        /\ Joined(d, y)[1] = d.name[1] /\ Joined(d, y)[2] = y.name[1]
    BY <2>1, <2>2, Zenon DEF Joined
  <2>4. c.name[1] = d.name[1] /\ x.name[1] = y.name[1]
    BY <1>8, <2>3
  <2>5. ASSUME NEW s \in Name, NEW t \in Name, Len(s) = 1, Len(t) = 1, s[1] = t[1] PROVE s = t
    BY <2>5, SeqEqual DEF Name
  <2>6. QED
    BY <2>2, <2>4, <2>5
<1>9. QED
  BY <1>5, <1>6, <1>7, <1>8, Zenon DEF NamesApart

-----------------------------------------------------------------------------
(* What the policies let in                                                *)

\* The one policy that selects a component's pods is its own.
LEMMA OwnPolicyOnly ==
  ASSUME EInv, pc = "done", NamesApart, NEW k \in Indices(selfHosted), selfHosted[k].mtls
  PROVE  {ap \in OfKind("AuthorizationPolicy") : ap.spec.selects = selfHosted[k].name}
           = {ZeroTrustPolicyOf(selfHosted[k])}
<1> DEFINE pg == selfHosted[k]
           selecting == {ap \in OfKind("AuthorizationPolicy") : ap.spec.selects = pg.name}
<1>1. \A c : ZeroTrustPolicyOf(c).spec.selects = c.name
  BY DEF ZeroTrustPolicyOf, Object
<1>2. \A e : EdgePolicyOf(e).spec.selects = NoName
  BY DEF EdgePolicyOf, Object
<1>3. pg.name # NoName
  <2>1. doc \in Document /\ Validate(doc) = {} /\ pg \in Elements(doc.components)
    BY DoneIsLast, DocumentsAssumption, PartMembers DEF EInv, IInv, TypeOK, Valid
  <2>2. PostgresErrors(pg) = {}
    BY <2>1 DEF Validate
  <2>3. QED
    BY <2>2 DEF PostgresErrors, When
<1>4. ZeroTrustPolicyOf(pg) \in selecting
  BY <1>1, ZeroTrustPolicyWritten
<1>5. ASSUME NEW ap \in selecting PROVE ap = ZeroTrustPolicyOf(pg)
  <2>1. PICK p \in DOMAIN files : Origin(p, ap)
    BY OfAKind
  <2>2. ap.kind = "AuthorizationPolicy"
    BY OfAKind
  <2>3. (\E j \in Indices(selfHosted) : ap = ZeroTrustPolicyOf(selfHosted[j])) \/ \E e : ap = EdgePolicyOf(e)
    BY <2>1, <2>2, ByKind DEF KindDecides
  <2>4. PICK j \in Indices(selfHosted) : ap = ZeroTrustPolicyOf(selfHosted[j])
    BY <1>2, <1>3, <2>3
  <2>5. selfHosted[j].name = pg.name
    BY <1>1, <2>4
  <2>6. j = k
    BY <2>5 DEF EInv, PartitionInv, Distinct
  <2>7. QED
    BY <2>4, <2>6
<1>6. QED
  BY <1>4, <1>5

LEMMA PortsDiffer == PostgresPort # CnpgStatusPort
  BY DEF PostgresPort, CnpgStatusPort

\* A rule of a component's policy that matches on the database port.
LEMMA ConsumerRulesMatch ==
  ASSUME NEW pg, NEW identity
  PROVE  (\E r \in ZeroTrustPolicyOf(pg).spec.rules : RuleMatches(r, identity, PostgresPort))
           <=> \E c \in pg.allowedConsumers : Principal(stackName, c) = identity
<1>1. ZeroTrustPolicyOf(pg).spec.rules = ConsumerRules(stackName, pg) \cup {Rule({}, {CnpgSystem}, {CnpgStatusPort})}
  BY DEF ZeroTrustPolicyOf, Object
<1>2. ~RuleMatches(Rule({}, {CnpgSystem}, {CnpgStatusPort}), identity, PostgresPort)
  BY PortsDiffer DEF RuleMatches, Rule
<1>3. \A c : RuleMatches(Rule({Principal(stackName, c)}, {}, {PostgresPort}), identity, PostgresPort)
               <=> Principal(stackName, c) = identity
  BY DEF RuleMatches, Rule
<1>4. QED
  BY <1>1, <1>2, <1>3 DEF ConsumerRules

LEMMA StatusRuleMatches ==
  ASSUME NEW pg, NEW sa
  PROVE  \E r \in ZeroTrustPolicyOf(pg).spec.rules : RuleMatches(r, [ns |-> CnpgSystem, sa |-> sa], CnpgStatusPort)
<1>1. Rule({}, {CnpgSystem}, {CnpgStatusPort}) \in ZeroTrustPolicyOf(pg).spec.rules
  BY DEF ZeroTrustPolicyOf, Object
<1>2. RuleMatches(Rule({}, {CnpgSystem}, {CnpgStatusPort}), [ns |-> CnpgSystem, sa |-> sa], CnpgStatusPort)
  BY DEF RuleMatches, Rule
<1>3. QED
  BY <1>1, <1>2

LEMMA MeshIsOn ==
  ASSUME EInv, pc = "done"
  PROVE  /\ appMeshEnabled <=> Ambient(stackName)
         /\ mtlsEnabled => Ambient(stackName) /\ Ambient(CnpgSystem)
<1>1. \A ns : Ambient(ns) <=> ns \in AmbientNames
  BY DEF Ambient, AmbientNames
<1>2. mtlsEnabled => appMeshEnabled
  BY DEF appMeshEnabled
<1>3. QED
  BY <1>1, <1>2, AmbientIs

LEMMA ZeroTrustHolds == ASSUME EInv, NamesApart PROVE ZeroTrust
<1> SUFFICES ASSUME pc = "done", NEW pg \in Elements(selfHosted), pg.mtls
             PROVE  /\ \A pod \in Pods :
                         Accepts(pg.name, Identity(pod), PostgresPort) =>
                           \E c \in pg.allowedConsumers : Principal(stackName, c) = Identity(pod)
                    /\ \A c \in LocalConsumers(pg) : Accepts(pg.name, Principal(stackName, c), PostgresPort)
                    /\ Accepts(pg.name, [ns |-> CnpgSystem, sa |-> CnpgOperator], CnpgStatusPort)
  BY DEF ZeroTrust
<1> DEFINE policy == ZeroTrustPolicyOf(pg)
<1>1. PICK k \in Indices(selfHosted) : pg = selfHosted[k]
  BY DEF Elements
<1>2. {ap \in OfKind("AuthorizationPolicy") : ap.spec.selects = pg.name} = {policy}
  BY <1>1, OwnPolicyOnly
<1>3. Ambient(stackName) /\ Ambient(CnpgSystem)
  BY MeshIsOn DEF mtlsEnabled
<1>4. \A identity, port :
        PoliciesAllow({policy}, identity, port) <=> \E r \in policy.spec.rules : RuleMatches(r, identity, port)
  BY DEF PoliciesAllow
<1> HIDE DEF policy
<1>5. \A identity, port :
        Accepts(pg.name, identity, port) <=> /\ Strict => Ambient(identity.ns)
                                             /\ \E r \in policy.spec.rules : RuleMatches(r, identity, port)
  BY <1>2, <1>4 DEF Accepts
<1> USE DEF policy
<1>6. ASSUME NEW pod \in Pods, Accepts(pg.name, Identity(pod), PostgresPort)
      PROVE  \E c \in pg.allowedConsumers : Principal(stackName, c) = Identity(pod)
  BY <1>5, <1>6, ConsumerRulesMatch
<1>7. ASSUME NEW c \in LocalConsumers(pg) PROVE Accepts(pg.name, Principal(stackName, c), PostgresPort)
  <2>1. c \in pg.allowedConsumers /\ Principal(stackName, c).ns = stackName
    BY DEF LocalConsumers
  <2>2. \E r \in policy.spec.rules : RuleMatches(r, Principal(stackName, c), PostgresPort)
    BY <2>1, ConsumerRulesMatch
  <2>3. QED
    BY <1>3, <1>5, <2>1, <2>2
<1>8. Accepts(pg.name, [ns |-> CnpgSystem, sa |-> CnpgOperator], CnpgStatusPort)
  <2>1. \E r \in policy.spec.rules : RuleMatches(r, [ns |-> CnpgSystem, sa |-> CnpgOperator], CnpgStatusPort)
    BY StatusRuleMatches
  <2>2. [ns |-> CnpgSystem, sa |-> CnpgOperator].ns = CnpgSystem
    OBVIOUS
  <2>3. QED
    BY <1>3, <1>5, <2>1, <2>2
<1>9. QED
  BY <1>6, <1>7, <1>8

\* flux.go:296, 340: for every document that keeps its names apart, the pods of a
\* component with mtls take PostgreSQL from exactly the consumers it declares, the
\* operator's status polling gets through, and no edge's policy opens them further.
THEOREM ZeroTrustEnforced == Spec => [](NamesApart => ZeroTrust)
<1>1. EInv => (NamesApart => ZeroTrust)
  BY ZeroTrustHolds
<1>2. QED
  BY <1>1, Emission, PTL

-----------------------------------------------------------------------------
(* What the floor lets out                                                 *)

LEMMA Smallest ==
  ASSUME NEW T \in SUBSET Nat, T # {}
  PROVE  \E m \in T : \A n \in T : ~(n < m)
<1>1. PICK R : R = OpToRel(<, Nat)
  OBVIOUS
<1>2. IsWellFoundedOn(R, Nat)
  BY <1>1, NatLessThanWellFounded
<1>3. PICK m \in T : \A n \in T : <<n, m>> \notin R
  BY <1>2, WFMin
<1>4. \A n \in T : n < m => <<n, m>> \in R
  BY <1>1 DEF OpToRel
<1>5. QED
  BY <1>3, <1>4

\* emitEgress and emitNetworkPolicies visit an external once, at its first use; every
\* use has one.
LEMMA FirstUseExists ==
  ASSUME EInv, NEW k \in Indices(selfHosted), selfHosted[k].rpo.declared
  PROVE  \E j \in Indices(selfHosted) :
           FirstUse(selfHosted, j) /\ selfHosted[j].rpo.backupTo = selfHosted[k].rpo.backupTo
<1> DEFINE uses == {j \in Indices(selfHosted) :
                      selfHosted[j].rpo.declared /\ selfHosted[j].rpo.backupTo = selfHosted[k].rpo.backupTo}
<1>1. Len(selfHosted) \in Nat
  BY DEF EInv, IInv, TypeOK
<1>2. uses \in SUBSET Nat /\ k \in uses
  BY <1>1 DEF Indices
<1>3. PICK m \in uses : \A n \in uses : ~(n < m)
  BY <1>2, Smallest
<1>4. \A j \in 1 .. m - 1 : j \in Indices(selfHosted) /\ j < m
  BY <1>1, <1>2, <1>3 DEF Indices
<1>5. FirstUse(selfHosted, m)
  BY <1>3, <1>4 DEF FirstUse
<1>6. QED
  BY <1>3, <1>5

LEMMA FloorLets ==
  ASSUME NEW np \in OfKind("NetworkPolicy"), NEW pod, Selects(np, pod), NEW r \in np.spec.egress, NEW ns, NEW port,
         r.to \in {AnyPeer, ns}, r.ports = {} \/ port \in r.ports
  PROVE  FloorAllows(pod, ns, port)
  BY DEF FloorAllows

\* Any pod may go to the waypoint, and the waypoint anywhere.
LEMMA ThroughTheWaypoint ==
  ASSUME EInv, pc = "done", waypointPresent
  PROVE  /\ \A pod, ns : FloorAllows(pod, ns, HbonePort)
         /\ \A ns, port : FloorAllows(WaypointPod, ns, port)
<1> DEFINE cluster == FloorPath("networkpolicy-allow-cluster-egress")
           waypoint == FloorPath("networkpolicy-allow-waypoint-egress")
<1>1. appMeshEnabled
  BY EdgesNeedTheMesh
<1>2. /\ cluster \in DOMAIN files /\ waypoint \in DOMAIN files
      /\ cluster.suffix = "networkpolicy-allow-cluster-egress"
      /\ waypoint.suffix = "networkpolicy-allow-waypoint-egress"
  BY <1>1, DoneIsLast DEF DonePC, EInv, FloorWritten, Written, FloorPath, App, Path
<1>3. FloorPolicies(cluster, files[cluster]) /\ FloorPolicies(waypoint, files[waypoint])
  BY <1>2, AtPath DEF SuffixDecides
<1>4. files[cluster] = NetworkPolicy(stackName, <<"allow", "cluster", "egress">>, AllPods,
                {EgressRule(KubeSystem, {DNSPort}), EgressRule(IstioSystem, {IstiodXDSPort}),
                 EgressRule(stackName, {}), EgressRule(AnyPeer, {HbonePort})})
  BY <1>3 DEF FloorPolicies, FloorPath, App, Path
<1>5. files[waypoint] = NetworkPolicy(stackName, <<"allow", "waypoint", "egress">>, WaypointPods,
                                      {EgressRule(AnyPeer, {})})
  BY <1>3 DEF FloorPolicies, FloorPath, App, Path
<1>6. \A name, selector, egress :
        LET np == NetworkPolicy(stackName, name, selector, egress)
        IN  np.kind = "NetworkPolicy" /\ np.spec.podSelector = selector /\ np.spec.egress = egress
  BY DEF NetworkPolicy, Object
<1>7. files[cluster] \in OfKind("NetworkPolicy") /\ files[waypoint] \in OfKind("NetworkPolicy")
  BY <1>2, <1>4, <1>5, <1>6, MembersOfKind
<1>8. \A to, ports : EgressRule(to, ports).to = to /\ EgressRule(to, ports).ports = ports
  BY DEF EgressRule
<1>9. ASSUME NEW pod, NEW ns PROVE FloorAllows(pod, ns, HbonePort)
  <2>1. Selects(files[cluster], pod)
    BY <1>4, <1>6 DEF Selects
  <2>2. EgressRule(AnyPeer, {HbonePort}) \in files[cluster].spec.egress
    <3>1. \A a, b, c, d : d \in {a, b, c, d}
      OBVIOUS
    <3>2. PICK egress :
            /\ egress = {EgressRule(KubeSystem, {DNSPort}), EgressRule(IstioSystem, {IstiodXDSPort}),
                          EgressRule(stackName, {}), EgressRule(AnyPeer, {HbonePort})}
            /\ files[cluster] = NetworkPolicy(stackName, <<"allow", "cluster", "egress">>, AllPods, egress)
      BY <1>4
    <3>3. files[cluster].spec.egress = egress
      <4>1. files[cluster] = NetworkPolicy(stackName, <<"allow", "cluster", "egress">>, AllPods, egress)
        BY <3>2
      <4>2. QED
        BY <4>1 DEF NetworkPolicy, Object
    <3>4. EgressRule(AnyPeer, {HbonePort}) \in egress
      BY <3>1, <3>2
    <3>5. QED
      BY <3>3, <3>4
  <2>3. QED
    BY <1>7, <1>8, <2>1, <2>2, FloorLets
<1>10. ASSUME NEW ns, NEW port PROVE FloorAllows(WaypointPod, ns, port)
  <2>1. WaypointPod.label = WaypointPods
    BY DEF WaypointPod, Pod
  <2>2. Selects(files[waypoint], WaypointPod)
    BY <1>5, <1>6, <2>1 DEF Selects
  <2>3. EgressRule(AnyPeer, {}) \in files[waypoint].spec.egress
    BY <1>5, <1>6
  <2>4. QED
    BY <1>7, <1>8, <2>2, <2>3, FloorLets
<1>11. QED
  BY <1>9, <1>10

\* Each use of an external has its own way through the floor.
LEMMA DeclaredPolicyWritten ==
  ASSUME EInv, pc = "done", NamesApart, NEW k \in Indices(selfHosted), selfHosted[k].rpo.declared
  PROVE  DeclaredEgressPolicy(stackName, selfHosted[k].name, BackupExternal(k)) \in OfKind("NetworkPolicy")
<1>1. PICK j \in Indices(selfHosted) :
        FirstUse(selfHosted, j) /\ selfHosted[j].rpo.backupTo = selfHosted[k].rpo.backupTo
  BY FirstUseExists
<1> DEFINE ext == BackupExternal(j)
           path == DeclaredEgressPath(selfHosted[k].name, ext.name)
           o == DeclaredEgressPolicy(stackName, selfHosted[k].name, ext)
<1>2. ext = BackupExternal(k)
  BY <1>1 DEF BackupExternal
<1>3. selfHosted[k].name \in Consumers(selfHosted, selfHosted[j].rpo.backupTo)
  BY <1>1 DEF Consumers, Elements
<1>4. path \in DOMAIN files
  BY <1>1, <1>3, AllTurned DEF EInv, FloorWritten, Written, DeclaredPaths
<1>5. Origin(path, o)
  <2>1. DeclaredPolicy(j, path, o)
    BY <1>3, Zenon DEF DeclaredPolicy
  <2>2. selfHosted[j].rpo.declared /\ appMeshEnabled
    BY <1>1, EdgesNeedTheMesh DEF FirstUse
  <2>3. FloorOrigin(path, o)
    BY <2>1, <2>2, Zenon DEF FloorOrigin
  <2>4. QED
    BY <2>3, Zenon DEF Origin
<1>6. o.kind = "NetworkPolicy"
  BY DEF DeclaredEgressPolicy, NetworkPolicy, Object
<1> HIDE DEF path, o
<1>7. o \in OfKind("NetworkPolicy")
  BY <1>4, <1>5, <1>6, DoneIsLast, WrittenIs
<1>8. QED
  BY <1>2, <1>7 DEF o

-----------------------------------------------------------------------------
(* What the mesh lets out                                                  *)

LEMMA MeshDestinations ==
  ASSUME EInv, pc = "done", NEW e, IsEdge(e)
  PROVE  ~ClusterLocal(e.host) /\ e.name # NoName
<1>1. doc \in Document /\ Validate(doc) = {} /\ PastValidate
  BY DoneIsLast, DocumentsAssumption DEF EInv, IInv, TypeOK, Valid
<1>2. ASSUME NEW k \in Indices(selfHosted), meshBackupTarget(k), e = BackupEdge(k)
      PROVE  ~ClusterLocal(e.host) /\ e.name # NoName
  <2>1. selfHosted[k].rpo.declared /\ ~ClusterLocal(BackupExternal(k).objectStore.host)
    BY <1>2 DEF meshBackupTarget, FirstUse, BackupExternal
  <2>2. e.name = BackupExternal(k).name /\ e.host = BackupExternal(k).objectStore.host
    BY <1>2 DEF BackupEdge, Edge
  <2>3. BackupExternal(k) \in Elements(doc.externals)
    BY <1>1, <2>1, NamesTyped
  <2>4. ExternalErrors(BackupExternal(k)) = {}
    BY <1>1, <2>3 DEF Validate
  <2>5. BackupExternal(k).name # NoName
    BY <2>4 DEF ExternalErrors, When
  <2>6. QED
    BY <2>1, <2>2, <2>5
<1>3. ASSUME NEW k \in Indices(managed), neonTarget(managed[k]), e = NeonEdge(k)
      PROVE  ~ClusterLocal(e.host) /\ e.name # NoName
  <2> DEFINE pg == managed[k]
             host == pg.endpointHost.host
  <2>1. pg \in Elements(doc.components) /\ pg.placement = Managed
    BY PartMembers DEF EInv
  <2>2. pg \in Postgres /\ pg.endpointHost.form # "none" /\ PostgresErrors(pg) = {}
    <3>1. pg.allowedConsumers # {}
      BY <1>3 DEF neonTarget
    <3>2. PostgresErrors(pg) = {}
      BY <1>1, <2>1 DEF Validate
    <3>3. QED
      BY <1>1, <2>1, <3>1, <3>2, ValidComponents
  <2>3. EndpointHostError(pg) = "ok"
    BY <2>2 DEF PostgresErrors, When
  <2>4. host \in Host /\ pg.endpointHost.form \in HostForm
    BY <2>2 DEF Postgres, EndpointHost
  <2>5. HasSuffix(host, EndpointHostSuffix)
    BY <2>1, <2>2, <2>3, <2>4 DEF EndpointHostError, HostForm, Managed
  <2>6. EndsIn(host, "tech") /\ Len(host) \in Nat /\ Len(host) >= 2
    <3>1. Len(EndpointHostSuffix) = 2 /\ EndpointHostSuffix[2] = "tech"
      BY DEF EndpointHostSuffix
    <3>2. PICK h : h = host
      OBVIOUS
    <3>3. PICK n : n = Len(h)
      OBVIOUS
    <3>4. h \in Seq(STRING) /\ n \in Nat
      BY <2>4, <3>2, <3>3, LenProperties DEF Host
    <3>5. n >= 2 /\ SubSeq(h, n - 2 + 1, n) = EndpointHostSuffix
      BY <2>5, <3>1, <3>2, <3>3 DEF HasSuffix
    <3>6. n - 2 + 1 = n - 1
      BY <3>4
    <3>7. SubSeq(h, n - 1, n) = EndpointHostSuffix
      BY <3>5, <3>6
    <3>8. SubSeq(h, n - 1, n)[2] = h[n]
      BY <3>3, <3>4, <3>5, SubSeqProperties
    <3>9. h[Len(h)] = "tech"
      BY <3>1, <3>3, <3>7, <3>8
    <3>10. EndsIn(h, "tech")
      BY <3>3, <3>4, <3>5, <3>9 DEF EndsIn
    <3>11. QED
      BY <3>2, <3>3, <3>4, <3>5, <3>10
  <2>7. ~ClusterLocal(host)
    BY <2>6 DEF ClusterLocal, EndsIn
  <2>8. e.host = host /\ e.name = pg.name \o <<"neon">>
    BY <1>3 DEF NeonEdge, Edge
  <2>9. EndsIn(e.name, "neon")
    BY <2>8, ManagedTyped, JoinedLast
  <2>10. QED
    BY <2>7, <2>8, <2>9 DEF EndsIn, NoName
<1>4. ASSUME e = ControlPlaneEdge PROVE ~ClusterLocal(e.host) /\ e.name # NoName
  <2>1. e.host = NeonControlPlaneHost /\ e.name = NeonControlPlane
    BY <1>4 DEF ControlPlaneEdge, Edge
  <2>2. QED
    BY <2>1 DEF ClusterLocal, NeonControlPlaneHost, NeonControlPlane, NoName
<1>5. QED
  BY <1>2, <1>3, <1>4 DEF IsEdge

\* The one policy about an entry is that of its edge.
LEMMA EdgePolicyOnly ==
  ASSUME EInv, pc = "done", NamesApart, NEW e, IsEdge(e)
  PROVE  {ap \in OfKind("AuthorizationPolicy") : ap.spec.targetRef = e.name} = {EdgePolicyOf(e)}
<1> DEFINE about == {ap \in OfKind("AuthorizationPolicy") : ap.spec.targetRef = e.name}
<1>1. \A c : ZeroTrustPolicyOf(c).spec.targetRef = NoName
  BY DEF ZeroTrustPolicyOf, Object
<1>2. \A f : EdgePolicyOf(f).spec.targetRef = f.name
  BY DEF EdgePolicyOf, Object
<1>3. EdgePolicyOf(e) \in about
  BY <1>2, EdgeWritten
<1>4. ASSUME NEW ap \in about PROVE ap = EdgePolicyOf(e)
  <2>1. PICK p \in DOMAIN files : Origin(p, ap)
    BY OfAKind
  <2>2. ap.kind = "AuthorizationPolicy"
    BY OfAKind
  <2>3. (\E j \in Indices(selfHosted) : ap = ZeroTrustPolicyOf(selfHosted[j]))
          \/ \E f : IsEdge(f) /\ ap = EdgePolicyOf(f)
    BY <2>1, <2>2, ByKind DEF KindDecides
  <2>4. PICK f : IsEdge(f) /\ ap = EdgePolicyOf(f)
    BY <1>1, <2>3, MeshDestinations
  <2>5. f.name = e.name
    BY <1>2, <2>4
  <2>6. QED
    BY <2>4, <2>5, DoneIsLast, EdgesApart
<1>5. QED
  BY <1>3, <1>4

\* An entry lets its principals through.
LEMMA EntryLets ==
  ASSUME EInv, pc = "done", NamesApart, NEW e, IsEdge(e), NEW pod, Identity(pod) \in e.principals
  PROVE  RouteAllows(EntryOf(e), pod, e.port)
<1>1. EntryOf(e).spec.host = e.host /\ EntryOf(e).spec.waypoint = Waypoint /\ EntryOf(e).name = e.name
  BY DEF EntryOf, Object
<1>2. ~ClusterLocal(e.host)
  BY MeshDestinations
<1>3. waypointPresent
  BY EdgeNeedsWaypoint
<1>4. \E gw \in OfKind("Gateway") : gw.name = Waypoint
  BY <1>3, WaypointIs
<1>5. FloorAllows(pod, stackName, HbonePort) /\ FloorAllows(WaypointPod, NoName, e.port)
  BY <1>3, ThroughTheWaypoint
<1>6. PoliciesAllow({EdgePolicyOf(e)}, Identity(pod), e.port)
  <2>1. EdgePolicyOf(e).spec.rules = {Rule(e.principals, {}, {})}
    BY DEF EdgePolicyOf, Object
  <2>2. RuleMatches(Rule(e.principals, {}, {}), Identity(pod), e.port)
    BY DEF RuleMatches, Rule
  <2>3. QED
    BY <2>1, <2>2 DEF PoliciesAllow
<1>7. QED
  BY <1>1, <1>2, <1>4, <1>5, <1>6, EdgePolicyOnly DEF RouteAllows

\* The routes to a destination are the entries of the edges that lead there.
LEMMA RoutesAre ==
  ASSUME EInv, pc = "done", NamesApart, NEW host, NEW port
  PROVE  /\ \A se \in Routes(host, port) : \E e : IsEdge(e) /\ se = EntryOf(e) /\ e.host = host /\ e.port = port
         /\ \A e : IsEdge(e) /\ e.host = host /\ e.port = port => EntryOf(e) \in Routes(host, port)
<1>1. \A e : EntryOf(e).spec.host = e.host /\ EntryOf(e).spec.port = e.port
  BY DEF EntryOf, Object
<1>2. ASSUME NEW se \in Routes(host, port)
      PROVE  \E e : IsEdge(e) /\ se = EntryOf(e) /\ e.host = host /\ e.port = port
  <2>1. se \in OfKind("ServiceEntry") /\ se.spec.host = host /\ se.spec.port = port
    BY DEF Routes
  <2>2. PICK p \in DOMAIN files : Origin(p, se)
    BY <2>1, OfAKind
  <2>3. se.kind = "ServiceEntry"
    BY <2>1, OfAKind
  <2>4. PICK e : IsEdge(e) /\ se = EntryOf(e)
    BY <2>2, <2>3, ByKind DEF KindDecides
  <2>5. QED
    BY <1>1, <2>1, <2>4
<1>3. ASSUME NEW e, IsEdge(e), e.host = host, e.port = port PROVE EntryOf(e) \in Routes(host, port)
  <2>1. Ambient(stackName)
    BY <1>3, EdgeNeedsWaypoint, EdgesNeedTheMesh, MeshIsOn
  <2>2. EntryOf(e) \in OfKind("ServiceEntry")
    BY <1>3, EdgeWritten
  <2>3. QED
    BY <1>1, <1>3, <2>1, <2>2 DEF Routes
<1>4. QED
  BY <1>2, <1>3

\* What carries a flow: an edge of the mesh that names its pod, or, for a store
\* in the cluster, the floor.
Carries(e, f) == IsEdge(e) /\ e.host = f.host /\ e.port = f.port /\ Identity(f.pod) \in e.principals
BackupFlow(k) ==
    Flow(Pod(selfHosted[k].name, ClusterPods(selfHosted[k].name)),
         BackupExternal(k).objectStore.host, BackupExternal(k).objectStore.port)
NeonFlow(k, c) == Flow(Pod(c.serviceAccount, NoLabel), managed[k].endpointHost.host, PostgresPort)
ProvisionerFlow == Flow(RunnerPod, NeonControlPlaneHost, 443)

\* The declared flows, by the component each belongs to.
LEMMA FlowsAre ==
  ASSUME NEW f
  PROVE  f \in DeclaredFlows <=>
           \/ \E k \in Indices(selfHosted) : selfHosted[k].rpo.declared /\ f = BackupFlow(k)
           \/ \E k \in Indices(managed) : \E c \in LocalConsumers(managed[k]) : f = NeonFlow(k, c)
           \/ managed # <<>> /\ f = ProvisionerFlow
<1>1. f \in BackupFlows <=> \E k \in Indices(selfHosted) : selfHosted[k].rpo.declared /\ f = BackupFlow(k)
  BY DEF BackupFlows, Elements, StoreOf, BackupFlow, BackupExternal
<1>2. f \in NeonFlows <=> \E k \in Indices(managed) : \E c \in LocalConsumers(managed[k]) : f = NeonFlow(k, c)
  BY DEF NeonFlows, Elements, NeonFlow
<1>3. f \in ProvisionerFlows <=> managed # <<>> /\ f = ProvisionerFlow
  BY DEF ProvisionerFlows, ProvisionerFlow
<1>4. QED
  BY <1>1, <1>2, <1>3 DEF DeclaredFlows

LEMMA IdentityIs ==
  ASSUME NEW sa, NEW label
  PROVE  Identity(Pod(sa, label)) = [ns |-> stackName, sa |-> sa]
  BY DEF Identity, Pod

LEMMA BackupCarried ==
  ASSUME EInv, pc = "done", NEW k \in Indices(selfHosted), selfHosted[k].rpo.declared,
         ~ClusterLocal(BackupExternal(k).objectStore.host)
  PROVE  \E e : Carries(e, BackupFlow(k))
<1>1. PICK j \in Indices(selfHosted) :
        FirstUse(selfHosted, j) /\ selfHosted[j].rpo.backupTo = selfHosted[k].rpo.backupTo
  BY FirstUseExists
<1>2. BackupExternal(j) = BackupExternal(k)
  BY <1>1 DEF BackupExternal
<1>3. meshBackupTarget(j)
  BY <1>1, <1>2 DEF meshBackupTarget, BackupExternal
<1>4. IsEdge(BackupEdge(j))
  BY <1>3 DEF IsEdge
<1>5. selfHosted[k].name \in Consumers(selfHosted, selfHosted[j].rpo.backupTo)
  BY <1>1 DEF Consumers, Elements
<1>6. ServiceAccountOf(stackName, selfHosted[k].name) \in BackupEdge(j).principals
  BY <1>5 DEF BackupEdge, Edge
<1>7. ServiceAccountOf(stackName, selfHosted[k].name) = [ns |-> stackName, sa |-> selfHosted[k].name]
  BY DEF ServiceAccountOf, Principal
<1>8. BackupEdge(j).host = BackupExternal(k).objectStore.host /\ BackupEdge(j).port = BackupExternal(k).objectStore.port
  BY <1>2 DEF BackupEdge, Edge
<1>9. Identity(BackupFlow(k).pod) = [ns |-> stackName, sa |-> selfHosted[k].name]
  BY IdentityIs DEF BackupFlow, Flow
<1>10. QED
  BY <1>4, <1>6, <1>7, <1>8, <1>9 DEF Carries, BackupFlow, Flow

LEMMA NeonCarried ==
  ASSUME NEW k \in Indices(managed), NEW c \in LocalConsumers(managed[k])
  PROVE  Carries(NeonEdge(k), NeonFlow(k, c))
<1>1. c \in managed[k].allowedConsumers /\ Principal(stackName, c).ns = stackName
  BY DEF LocalConsumers
<1>2. neonTarget(managed[k]) /\ IsEdge(NeonEdge(k))
  BY <1>1 DEF neonTarget, IsEdge
<1>3. Principal(stackName, c) = [ns |-> stackName, sa |-> c.serviceAccount]
  BY <1>1 DEF Principal
<1>4. Principal(stackName, c) \in NeonEdge(k).principals
  BY <1>1 DEF NeonEdge, Edge
<1>5. Identity(NeonFlow(k, c).pod) = [ns |-> stackName, sa |-> c.serviceAccount]
  BY IdentityIs DEF NeonFlow, Flow
<1>6. QED
  BY <1>2, <1>3, <1>4, <1>5 DEF Carries, NeonFlow, NeonEdge, Edge, Flow

LEMMA ProvisionerCarried ==
  ASSUME managed # <<>>
  PROVE  Carries(ControlPlaneEdge, ProvisionerFlow)
<1>1. IsEdge(ControlPlaneEdge)
  BY DEF IsEdge
<1>2. ServiceAccountOf(stackName, TfRunner) = [ns |-> stackName, sa |-> TfRunner]
  BY DEF ServiceAccountOf, Principal
<1>3. Identity(ProvisionerFlow.pod) = [ns |-> stackName, sa |-> TfRunner]
  BY IdentityIs DEF ProvisionerFlow, RunnerPod, Flow
<1>4. QED
  BY <1>1, <1>2, <1>3 DEF Carries, ControlPlaneEdge, ProvisionerFlow, Edge, Flow

\* A store in the cluster is reached through the floor: no entry routes it.
LEMMA InClusterPasses ==
  ASSUME EInv, pc = "done", NamesApart, NEW k \in Indices(selfHosted), selfHosted[k].rpo.declared,
         ClusterLocal(BackupExternal(k).objectStore.host)
  PROVE  /\ SurelyReaches(BackupFlow(k).pod, BackupFlow(k).host, BackupFlow(k).port)
         /\ MayReach(BackupFlow(k).pod, BackupFlow(k).host, BackupFlow(k).port)
<1> DEFINE ext == BackupExternal(k)
           store == ext.objectStore
           pod == Pod(selfHosted[k].name, ClusterPods(selfHosted[k].name))
           np == DeclaredEgressPolicy(stackName, selfHosted[k].name, ext)
           r == DeclaredEgressRule(ext)
<1>1. BackupFlow(k).pod = pod /\ BackupFlow(k).host = store.host /\ BackupFlow(k).port = store.port
  BY DEF BackupFlow, Flow
<1>2. Routes(store.host, store.port) = {}
  BY RoutesAre, MeshDestinations
<1>3. np \in OfKind("NetworkPolicy")
  BY DeclaredPolicyWritten
<1>4. np.spec.podSelector = ClusterPods(selfHosted[k].name) /\ np.spec.egress = {r}
  BY DEF DeclaredEgressPolicy, NetworkPolicy, Object
<1>5. Selects(np, pod)
  BY <1>4 DEF Selects, Pod
<1>6. r.to = ClusterLocalNamespace(store.host) /\ r.ports = {store.port}
  BY DEF DeclaredEgressRule, EgressRule
<1> HIDE DEF np, r, pod
<1>7. FloorAllows(pod, ClusterLocalNamespace(store.host), store.port)
  BY <1>3, <1>4, <1>5, <1>6, FloorLets
<1>8. QED
  BY <1>1, <1>2, <1>7 DEF SurelyReaches, MayReach, DirectAllows

\* The destination of the declaration that an edge was compiled for.
NameFor(d) ==
    CASE d.kind = "store" -> d.name
      [] d.kind = "branch" -> d.name \o <<"neon">>
      [] OTHER -> NeonControlPlane
Leads(e, d) ==
    /\ d \in RemoteStores \cup Branches \cup ControlPlanes
    /\ d.host = e.host /\ d.port = e.port
    /\ e.name = NameFor(d)

LEMMA EdgesLead ==
  ASSUME EInv, pc = "done", NEW e, IsEdge(e)
  PROVE  \E d : Leads(e, d)
<1>1. ASSUME NEW k \in Indices(selfHosted), meshBackupTarget(k), e = BackupEdge(k)
      PROVE  \E d : Leads(e, d)
  <2> DEFINE ext == BackupExternal(k)
             d == Destination("store", selfHosted[k].rpo.backupTo, ext.objectStore.host, ext.objectStore.port)
  <2>1. selfHosted[k].rpo.declared /\ ~ClusterLocal(ext.objectStore.host)
    BY <1>1 DEF meshBackupTarget, FirstUse, BackupExternal
  <2>2. ext.name = selfHosted[k].rpo.backupTo
    BY <2>1, DoneIsLast, NamesTyped
  <2>3. d \in RemoteStores
    BY <2>1 DEF RemoteStores, Elements, StoreOf, BackupExternal
  <2>4. NameFor(d) = ext.name /\ d.host = ext.objectStore.host /\ d.port = ext.objectStore.port
    BY <2>2 DEF NameFor, Destination
  <2>5. e.name = ext.name /\ e.host = ext.objectStore.host /\ e.port = ext.objectStore.port
    BY <1>1 DEF BackupEdge, Edge
  <2>6. QED
    BY <2>3, <2>4, <2>5 DEF Leads
<1>2. ASSUME NEW k \in Indices(managed), neonTarget(managed[k]), e = NeonEdge(k)
      PROVE  \E d : Leads(e, d)
  <2> DEFINE d == Destination("branch", managed[k].name, managed[k].endpointHost.host, PostgresPort)
  <2>1. d \in Branches
    BY <1>2 DEF Branches, Elements, neonTarget
  <2>2. NameFor(d) = managed[k].name \o <<"neon">>
    BY DEF NameFor, Destination
  <2>3. d.host = managed[k].endpointHost.host /\ d.port = PostgresPort
    BY DEF Destination
  <2>4. /\ e.name = managed[k].name \o <<"neon">>
        /\ e.host = managed[k].endpointHost.host /\ e.port = PostgresPort
    BY <1>2 DEF NeonEdge, Edge
  <2>5. QED
    BY <2>1, <2>2, <2>3, <2>4 DEF Leads
<1>3. ASSUME managed # <<>>, e = ControlPlaneEdge
      PROVE  \E d : Leads(e, d)
  <2> DEFINE d == Destination("controlplane", NoName, NeonControlPlaneHost, 443)
  <2>1. d \in ControlPlanes
    BY <1>3 DEF ControlPlanes
  <2>2. NameFor(d) = NeonControlPlane /\ d.host = NeonControlPlaneHost /\ d.port = 443
    BY DEF NameFor, Destination
  <2>3. e.name = NeonControlPlane /\ e.host = NeonControlPlaneHost /\ e.port = 443
    BY <1>3 DEF ControlPlaneEdge, Edge
  <2>4. QED
    BY <2>1, <2>2, <2>3 DEF Leads
<1>4. QED
  BY <1>1, <1>2, <1>3 DEF IsEdge

\* Only one edge leads to a host and port that no two destinations share.
LEMMA UncontestedEdge ==
  ASSUME EInv, pc = "done", NamesApart, NEW e, IsEdge(e), NEW f, IsEdge(f),
         e.host = f.host, e.port = f.port, ~Contested(e.host, e.port)
  PROVE  e = f
<1>1. PICK c : Leads(e, c)
  BY EdgesLead
<1>2. PICK d : Leads(f, d)
  BY EdgesLead
<1>3. c = d
  BY <1>1, <1>2 DEF Leads, Contested
<1>4. e.name = f.name
  BY <1>1, <1>2, <1>3 DEF Leads
<1>5. QED
  BY <1>4, DoneIsLast, EdgesApart

LEMMA CarriedPasses ==
  ASSUME EInv, pc = "done", NamesApart, NEW e, NEW f, Carries(e, f)
  PROVE  /\ ~Contested(f.host, f.port) => SurelyReaches(f.pod, f.host, f.port)
         /\ MayReach(f.pod, f.host, f.port)
<1>1. IsEdge(e) /\ e.host = f.host /\ e.port = f.port /\ Identity(f.pod) \in e.principals
  BY DEF Carries
<1>2. EntryOf(e) \in Routes(f.host, f.port)
  BY <1>1, RoutesAre
<1>3. RouteAllows(EntryOf(e), f.pod, f.port)
  BY <1>1, EntryLets
<1>4. MayReach(f.pod, f.host, f.port)
  BY <1>2, <1>3 DEF MayReach
<1>5. ASSUME ~Contested(f.host, f.port), NEW se \in Routes(f.host, f.port) PROVE se = EntryOf(e)
  <2>1. PICK g : IsEdge(g) /\ se = EntryOf(g) /\ g.host = f.host /\ g.port = f.port
    BY RoutesAre
  <2>2. QED
    BY <1>1, <1>5, <2>1, UncontestedEdge
<1>6. QED
  BY <1>2, <1>3, <1>4, <1>5 DEF SurelyReaches

LEMMA DeclaredFlowsHold == ASSUME EInv, NamesApart PROVE DeclaredFlowsPass
<1> DEFINE passes(f) == /\ ~Contested(f.host, f.port) => SurelyReaches(f.pod, f.host, f.port)
                        /\ Contested(f.host, f.port) => MayReach(f.pod, f.host, f.port)
<1> SUFFICES ASSUME pc = "done", NEW f \in DeclaredFlows
             PROVE  passes(f)
  BY DEF DeclaredFlowsPass
<1>1. CASE \E k \in Indices(selfHosted) : selfHosted[k].rpo.declared /\ f = BackupFlow(k)
  <2>1. PICK k \in Indices(selfHosted) : selfHosted[k].rpo.declared /\ f = BackupFlow(k)
    BY <1>1
  <2>2. CASE ClusterLocal(BackupExternal(k).objectStore.host)
    BY <2>1, <2>2, InClusterPasses
  <2>3. CASE ~ClusterLocal(BackupExternal(k).objectStore.host)
    BY <2>1, <2>3, BackupCarried, CarriedPasses
  <2>4. QED
    BY <2>2, <2>3
<1>2. CASE \E k \in Indices(managed) : \E c \in LocalConsumers(managed[k]) : f = NeonFlow(k, c)
  BY <1>2, NeonCarried, CarriedPasses
<1>3. CASE managed # <<>> /\ f = ProvisionerFlow
  BY <1>3, ProvisionerCarried, CarriedPasses
<1>4. QED
  BY <1>1, <1>2, <1>3, FlowsAre

\* networkpolicy.go:393 and egress.go:364: for every document whose names keep apart,
\* every flow it wires gets through the floor and the mesh together; where it wires one
\* host and port under several names, each flow has an entry that lets it through.
THEOREM DeclaredFlowsGetThrough == Spec => [](NamesApart => DeclaredFlowsPass)
<1>1. EInv => (NamesApart => DeclaredFlowsPass)
  BY DeclaredFlowsHold
<1>2. QED
  BY <1>1, Emission, PTL

-----------------------------------------------------------------------------
(* Whom the mesh lets out                                                  *)

\* One service account, one kind of pod: the mesh knows a caller by nothing else.
AccountsApart == \A p, q \in Pods : p.sa = q.sa => p = q

\* A remote destination has an edge that carries its flow.
LEMMA RemoteCarried ==
  ASSUME EInv, pc = "done", NEW f \in DeclaredFlows, ~ClusterLocal(f.host)
  PROVE  \E e : Carries(e, f)
<1>1. CASE \E k \in Indices(selfHosted) : selfHosted[k].rpo.declared /\ f = BackupFlow(k)
  <2>1. PICK k \in Indices(selfHosted) : selfHosted[k].rpo.declared /\ f = BackupFlow(k)
    BY <1>1
  <2>2. f.host = BackupExternal(k).objectStore.host
    BY <2>1 DEF BackupFlow, Flow
  <2>3. QED
    BY <2>1, <2>2, BackupCarried
<1>2. CASE \E k \in Indices(managed) : \E c \in LocalConsumers(managed[k]) : f = NeonFlow(k, c)
  BY <1>2, NeonCarried
<1>3. CASE managed # <<>> /\ f = ProvisionerFlow
  BY <1>3, ProvisionerCarried
<1>4. QED
  BY <1>1, <1>2, <1>3, FlowsAre

\* An entry lets nobody through but its principals, and there is always one.
LEMMA EntryLetsOnly ==
  ASSUME EInv, pc = "done", NamesApart, NEW e, IsEdge(e), NEW pod, NEW port, RouteAllows(EntryOf(e), pod, port)
  PROVE  Identity(pod) \in e.principals
<1>1. EntryOf(e).name = e.name
  BY DEF EntryOf, Object
<1>2. PoliciesAllow({EdgePolicyOf(e)}, Identity(pod), port)
  BY <1>1, EdgePolicyOnly DEF RouteAllows
<1>3. EdgePolicyOf(e).spec.rules = {Rule(e.principals, {}, {})}
  BY DEF EdgePolicyOf, Object
<1>4. RuleMatches(Rule(e.principals, {}, {}), Identity(pod), port)
  BY <1>2, <1>3 DEF PoliciesAllow
<1>5. e.principals = {} \/ Identity(pod) \in e.principals
  BY <1>4 DEF RuleMatches, Rule
<1>6. e.principals # {}
  <2>1. ASSUME NEW k \in Indices(selfHosted), meshBackupTarget(k), e = BackupEdge(k) PROVE e.principals # {}
    <3>1. selfHosted[k].name \in Consumers(selfHosted, selfHosted[k].rpo.backupTo)
      BY <2>1 DEF meshBackupTarget, FirstUse, Consumers, Elements
    <3>2. QED
      BY <2>1, <3>1 DEF BackupEdge, Edge
  <2>2. ASSUME NEW k \in Indices(managed), neonTarget(managed[k]), e = NeonEdge(k) PROVE e.principals # {}
    BY <2>2 DEF neonTarget, NeonEdge, Edge
  <2>3. ASSUME e = ControlPlaneEdge PROVE e.principals # {}
    BY <2>3 DEF ControlPlaneEdge, Edge
  <2>4. QED
    BY <2>1, <2>2, <2>3 DEF IsEdge
<1>7. QED
  BY <1>5, <1>6

\* A pod an edge names has the flow of that edge declared.
LEMMA NamedIsDeclared ==
  ASSUME EInv, pc = "done", AccountsApart, NEW e, IsEdge(e), NEW pod \in Pods, Identity(pod) \in e.principals
  PROVE  Flow(pod, e.host, e.port) \in DeclaredFlows
<1>1. Identity(pod) = [ns |-> stackName, sa |-> pod.sa]
  BY DEF Identity
<1>2. \A sa : ServiceAccountOf(stackName, sa) = [ns |-> stackName, sa |-> sa]
  BY DEF ServiceAccountOf, Principal
<1>3. \A sa, label : Pod(sa, label).sa = sa
  BY DEF Pod
<1>4. ASSUME NEW j \in Indices(selfHosted), meshBackupTarget(j), e = BackupEdge(j)
      PROVE  Flow(pod, e.host, e.port) \in DeclaredFlows
  <2>1. /\ e.host = BackupExternal(j).objectStore.host /\ e.port = BackupExternal(j).objectStore.port
        /\ e.principals = {ServiceAccountOf(stackName, c) : c \in Consumers(selfHosted, selfHosted[j].rpo.backupTo)}
    BY <1>4 DEF BackupEdge, Edge
  <2>2. PICK c \in Consumers(selfHosted, selfHosted[j].rpo.backupTo) : Identity(pod) = ServiceAccountOf(stackName, c)
    BY <2>1
  <2>3. pod.sa = c
    BY <1>1, <1>2, <2>2
  <2>4. PICK k \in Indices(selfHosted) :
          /\ selfHosted[k].rpo.declared /\ selfHosted[k].rpo.backupTo = selfHosted[j].rpo.backupTo
          /\ selfHosted[k].name = c
    BY <2>2 DEF Consumers, Elements
  <2>5. BackupExternal(k) = BackupExternal(j)
    BY <2>4 DEF BackupExternal
  <2>6. Pod(c, ClusterPods(c)) \in Pods
    BY <2>4 DEF Pods, DatabasePods, Elements
  <2>7. pod = Pod(c, ClusterPods(c))
    BY <1>3, <2>3, <2>6 DEF AccountsApart
  <2>8. Flow(pod, e.host, e.port) = BackupFlow(k)
    BY <2>1, <2>4, <2>5, <2>7 DEF BackupFlow
  <2>9. QED
    BY <2>4, <2>8, FlowsAre
<1>5. ASSUME NEW k \in Indices(managed), neonTarget(managed[k]), e = NeonEdge(k)
      PROVE  Flow(pod, e.host, e.port) \in DeclaredFlows
  <2>1. /\ e.host = managed[k].endpointHost.host /\ e.port = PostgresPort
        /\ e.principals = {Principal(stackName, c) : c \in managed[k].allowedConsumers}
    BY <1>5 DEF NeonEdge, Edge
  <2>2. PICK c \in managed[k].allowedConsumers : Identity(pod) = Principal(stackName, c)
    BY <2>1
  <2>3. pod.sa = c.serviceAccount /\ c \in LocalConsumers(managed[k])
    BY <1>1, <2>2 DEF LocalConsumers, Principal
  <2>4. managed[k] \in Elements(doc.components)
    BY PartMembers DEF EInv
  <2>5. Pod(c.serviceAccount, NoLabel) \in Pods
    BY <2>3, <2>4 DEF Pods, ConsumerPods
  <2>6. pod = Pod(c.serviceAccount, NoLabel)
    BY <1>3, <2>3, <2>5 DEF AccountsApart
  <2>7. Flow(pod, e.host, e.port) = NeonFlow(k, c)
    BY <2>1, <2>6 DEF NeonFlow
  <2>8. QED
    BY <2>3, <2>7, FlowsAre
<1>6. ASSUME managed # <<>>, e = ControlPlaneEdge PROVE Flow(pod, e.host, e.port) \in DeclaredFlows
  <2>1. e.host = NeonControlPlaneHost /\ e.port = 443 /\ e.principals = {ServiceAccountOf(stackName, TfRunner)}
    BY <1>6 DEF ControlPlaneEdge, Edge
  <2>2. pod.sa = TfRunner
    BY <1>1, <1>2, <2>1
  <2>3. RunnerPod \in Pods /\ RunnerPod.sa = TfRunner
    BY <1>3 DEF Pods, RunnerPod
  <2>4. pod = RunnerPod
    BY <2>2, <2>3 DEF AccountsApart
  <2>5. QED
    BY <1>6, <2>1, <2>4, FlowsAre DEF ProvisionerFlow
<1>7. QED
  BY <1>4, <1>5, <1>6 DEF IsEdge

LEMMA RemoteGoverned ==
  ASSUME EInv, pc = "done", NamesApart, AccountsApart, NEW f \in DeclaredFlows, ~ClusterLocal(f.host),
         NEW pod \in Pods, MayReach(pod, f.host, f.port)
  PROVE  Flow(pod, f.host, f.port) \in DeclaredFlows
<1>1. PICK e : Carries(e, f)
  BY RemoteCarried
<1>2. Routes(f.host, f.port) # {}
  BY <1>1, RoutesAre DEF Carries
<1>3. PICK se \in Routes(f.host, f.port) : RouteAllows(se, pod, f.port)
  BY <1>2 DEF MayReach
<1>4. PICK g : IsEdge(g) /\ se = EntryOf(g) /\ g.host = f.host /\ g.port = f.port
  BY RoutesAre
<1>5. Identity(pod) \in g.principals
  BY <1>3, <1>4, EntryLetsOnly
<1>6. QED
  BY <1>4, <1>5, NamedIsDeclared

(***************************************************************************)
(* The floor lets through by namespace and port alone.  It is as precise   *)
(* as the declaration when no wired store in the cluster is on a port that *)
(* the floor opens to everybody, no two of them are told apart by their    *)
(* host only, and no namespace is called like the wildcard peer.           *)
(***************************************************************************)
Wired(k) == selfHosted[k].rpo.declared
StoreHost(k) == BackupExternal(k).objectStore.host
StorePort(k) == BackupExternal(k).objectStore.port
InCluster(k) == Wired(k) /\ ClusterLocal(StoreHost(k))
StoreNamespace(k) == ClusterLocalNamespace(StoreHost(k))
OpenToAll(ns, port) ==
    \/ port = HbonePort
    \/ ns = KubeSystem /\ port = DNSPort
    \/ ns = IstioSystem /\ port = IstiodXDSPort
StoresApart ==
    /\ stackName # AnyPeer
    /\ \A k \in Indices(selfHosted) : InCluster(k) =>
         StoreNamespace(k) # AnyPeer /\ ~OpenToAll(StoreNamespace(k), StorePort(k))
    /\ \A j, k \in Indices(selfHosted) :
         /\ InCluster(j) /\ InCluster(k)
         /\ StoreNamespace(j) = StoreNamespace(k) /\ StorePort(j) = StorePort(k)
         => StoreHost(j) = StoreHost(k)

\* Labels are told apart by their keys; a database's pods by their cluster's name.
LEMMA PodLabels ==
  ASSUME NEW pod \in Pods
  PROVE  /\ pod.label # WaypointPods
         /\ \A name : pod.label = ClusterPods(name) => pod = Pod(name, ClusterPods(name))
<1>1. /\ pod.label = NoLabel \/ pod.label = RunnerPods \/ \E n : pod = Pod(n, ClusterPods(n))
      /\ \A n : Pod(n, ClusterPods(n)).label = ClusterPods(n)
  BY DEF Pods, DatabasePods, ConsumerPods, Bystander, RunnerPod, Pod
<1>2. /\ NoLabel.key = "none" /\ RunnerPods.key = "app.kubernetes.io/name" /\ WaypointPods.key = "gateway-name"
      /\ \A n : ClusterPods(n).key = "cnpg.io/cluster" /\ ClusterPods(n).value = n
  BY DEF NoLabel, RunnerPods, WaypointPods, ClusterPods, PodLabel
<1>3. QED
  BY <1>1, <1>2

FloorRule(r) ==
    \/ r = EgressRule(KubeSystem, {DNSPort})
    \/ r = EgressRule(IstioSystem, {IstiodXDSPort})
    \/ r = EgressRule(stackName, {})
    \/ r = EgressRule(AnyPeer, {HbonePort})
    \/ r = EgressRule(AnyPeer, ControlPlanePorts)
DeclaredRule(pod, r) ==
    \E k \in Indices(selfHosted) :
      /\ Wired(k)
      /\ pod = Pod(selfHosted[k].name, ClusterPods(selfHosted[k].name))
      /\ r = DeclaredEgressRule(BackupExternal(k))

\* What the policies that select a pod of the namespace let out: the floor's own
\* rules, and the stores declared for that pod.
LEMMA FloorRules ==
  ASSUME EInv, NEW pod \in Pods, NEW np \in OfKind("NetworkPolicy"), Selects(np, pod), NEW r \in np.spec.egress
  PROVE  FloorRule(r) \/ DeclaredRule(pod, r)
<1>1. \A name, selector, egress :
        LET o == NetworkPolicy(stackName, name, selector, egress)
        IN  o.spec.podSelector = selector /\ o.spec.egress = egress
  BY DEF NetworkPolicy, Object
<1>2. PICK p \in DOMAIN files : Origin(p, np)
  BY OfAKind
<1>3. FloorOrigin(p, np)
  BY <1>2, OfAKind, ByKind DEF KindDecides
<1>4. CASE FloorPolicies(p, np)
  <2>1. CASE np = NetworkPolicy(stackName, <<"default", "deny", "egress">>, AllPods, {})
    BY <1>1, <2>1
  <2>2. CASE np = NetworkPolicy(stackName, <<"allow", "cluster", "egress">>, AllPods,
                    {EgressRule(KubeSystem, {DNSPort}), EgressRule(IstioSystem, {IstiodXDSPort}),
                     EgressRule(stackName, {}), EgressRule(AnyPeer, {HbonePort})})
    <3>1. PICK egress :
            /\ egress = {EgressRule(KubeSystem, {DNSPort}), EgressRule(IstioSystem, {IstiodXDSPort}),
                         EgressRule(stackName, {}), EgressRule(AnyPeer, {HbonePort})}
            /\ np = NetworkPolicy(stackName, <<"allow", "cluster", "egress">>, AllPods, egress)
      BY <2>2
    <3>2. r \in egress
      <4>1. np = NetworkPolicy(stackName, <<"allow", "cluster", "egress">>, AllPods, egress)
        BY <3>1
      <4>2. QED
        BY <1>1, <4>1
    <3>3. QED
      BY <3>1, <3>2 DEF FloorRule
  <2>3. CASE np = NetworkPolicy(stackName, <<"allow", "waypoint", "egress">>, WaypointPods, {EgressRule(AnyPeer, {})})
    <3>1. np.spec.podSelector = WaypointPods
      BY <1>1, <2>3
    <3>2. WaypointPods # AllPods
      BY DEF WaypointPods, AllPods, PodLabel
    <3>3. QED
      BY <3>1, <3>2, PodLabels DEF Selects
  <2>4. CASE np = NetworkPolicy(stackName, TfRunner \o <<"controlplane", "egress">>, RunnerPods,
                    {EgressRule(AnyPeer, ControlPlanePorts)})
    BY <1>1, <2>4 DEF FloorRule
  <2>5. QED
    BY <1>4, <2>1, <2>2, <2>3, <2>4 DEF FloorPolicies
<1>5. ASSUME NEW k \in Indices(selfHosted), ControlPlanePolicy(selfHosted[k], p, np) PROVE FloorRule(r)
  BY <1>1, <1>5 DEF ControlPlanePolicy, FloorRule
<1>6. ASSUME NEW j \in Indices(selfHosted), DeclaredPolicy(j, p, np) PROVE DeclaredRule(pod, r)
  <2>1. PICK c \in Consumers(selfHosted, selfHosted[j].rpo.backupTo) :
          np = DeclaredEgressPolicy(stackName, c, BackupExternal(j))
    BY <1>6 DEF DeclaredPolicy
  <2>2. np.spec.podSelector = ClusterPods(c) /\ np.spec.egress = {DeclaredEgressRule(BackupExternal(j))}
    BY <1>1, <2>1 DEF DeclaredEgressPolicy
  <2>3. PICK k \in Indices(selfHosted) :
          /\ selfHosted[k].rpo.declared /\ selfHosted[k].rpo.backupTo = selfHosted[j].rpo.backupTo
          /\ selfHosted[k].name = c
    BY DEF Consumers, Elements
  <2>4. BackupExternal(k) = BackupExternal(j)
    BY <2>3 DEF BackupExternal
  <2>5. ClusterPods(c) # AllPods
    BY DEF ClusterPods, AllPods, PodLabel
  <2>6. pod = Pod(c, ClusterPods(c))
    BY <2>2, <2>5, PodLabels DEF Selects
  <2>7. QED
    BY <2>2, <2>3, <2>4, <2>6 DEF DeclaredRule, Wired
<1>7. QED
  BY <1>3, <1>4, <1>5, <1>6 DEF FloorOrigin

\* Once the mesh is on, the default-deny policy selects every pod.
LEMMA DenySelects ==
  ASSUME EInv, pc = "done", appMeshEnabled
  PROVE  \E np \in OfKind("NetworkPolicy") : \A pod : Selects(np, pod)
<1> DEFINE deny == FloorPath("networkpolicy-default-deny-egress")
<1>1. deny \in DOMAIN files /\ deny.suffix = "networkpolicy-default-deny-egress"
  BY DoneIsLast DEF DonePC, EInv, FloorWritten, Written, FloorPath, App, Path
<1>2. FloorPolicies(deny, files[deny])
  BY <1>1, AtPath DEF SuffixDecides
<1>3. files[deny].spec.podSelector = AllPods /\ files[deny].kind = "NetworkPolicy"
  BY <1>2 DEF FloorPolicies, FloorPath, App, Path, NetworkPolicy, Object
<1>4. files[deny] \in OfKind("NetworkPolicy")
  BY <1>1, <1>3, MembersOfKind
<1>5. QED
  BY <1>3, <1>4 DEF Selects

\* A rule that lets a pod of the namespace through to a store in the cluster is the
\* one declared for that pod and that store.
LEMMA StoreRule ==
  ASSUME EInv, pc = "done", StoresApart, NEW k \in Indices(selfHosted), InCluster(k),
         StorePort(k) \notin UnpinnedPorts, StoreNamespace(k) # stackName, NEW r,
         r.to \in {AnyPeer, StoreNamespace(k)}, r.ports = {} \/ StorePort(k) \in r.ports
  PROVE  /\ ~FloorRule(r)
         /\ \A j \in Indices(selfHosted) :
              Wired(j) /\ r = DeclaredEgressRule(BackupExternal(j))
              => StoreHost(j) = StoreHost(k) /\ StorePort(j) = StorePort(k)
<1>1. \A to, ports : EgressRule(to, ports).to = to /\ EgressRule(to, ports).ports = ports
  BY DEF EgressRule
<1>2. /\ stackName # AnyPeer /\ StoreNamespace(k) # AnyPeer
      /\ ~OpenToAll(StoreNamespace(k), StorePort(k))
  BY DEF StoresApart
<1>3. StorePort(k) \notin ControlPlanePorts
  BY DEF UnpinnedPorts
<1>4. KubeSystem # AnyPeer /\ IstioSystem # AnyPeer
  BY DEF KubeSystem, IstioSystem, AnyPeer
<1>5. ~FloorRule(r)
  <2>1. r # EgressRule(KubeSystem, {DNSPort})
    BY <1>1, <1>2, <1>4 DEF OpenToAll
  <2>2. r # EgressRule(IstioSystem, {IstiodXDSPort})
    BY <1>1, <1>2, <1>4 DEF OpenToAll
  <2>3. r # EgressRule(stackName, {})
    BY <1>1, <1>2
  <2>4. r # EgressRule(AnyPeer, {HbonePort})
    BY <1>1, <1>2 DEF OpenToAll
  <2>5. r # EgressRule(AnyPeer, ControlPlanePorts)
    BY <1>1, <1>3 DEF ControlPlanePorts
  <2>6. QED
    BY <2>1, <2>2, <2>3, <2>4, <2>5 DEF FloorRule
<1>6. ASSUME NEW j \in Indices(selfHosted), Wired(j), r = DeclaredEgressRule(BackupExternal(j))
      PROVE  StoreHost(j) = StoreHost(k) /\ StorePort(j) = StorePort(k)
  <2>1. /\ r.to = IF ClusterLocal(StoreHost(j)) THEN StoreNamespace(j) ELSE AnyPeer
        /\ r.ports = {StorePort(j)}
    BY <1>1, <1>6 DEF DeclaredEgressRule, StoreHost, StorePort, StoreNamespace
  <2>2. StorePort(j) = StorePort(k)
    BY <2>1
  <2>3. BackupFlow(j) \in BackupFlows
    BY <1>6 DEF Wired, BackupFlows, Elements, StoreOf, BackupFlow, BackupExternal
  <2>4. BackupFlow(j).host = StoreHost(j) /\ BackupFlow(j).port = StorePort(j)
    BY DEF BackupFlow, Flow, StoreHost, StorePort
  <2>5. ClusterLocal(StoreHost(j))
    BY <2>2, <2>3, <2>4 DEF UnpinnedPorts
  <2>6. InCluster(j) /\ StoreNamespace(j) # AnyPeer
    BY <1>6, <2>5 DEF InCluster, StoresApart
  <2>7. StoreNamespace(j) = StoreNamespace(k)
    BY <2>1, <2>5, <2>6
  <2>8. QED
    BY <2>2, <2>6, <2>7 DEF StoresApart
<1>7. QED
  BY <1>5, <1>6

LEMMA InClusterGoverned ==
  ASSUME EInv, pc = "done", NamesApart, StoresApart, NEW f \in DeclaredFlows, ClusterLocal(f.host), Governed(f),
         NEW pod \in Pods, MayReach(pod, f.host, f.port)
  PROVE  Flow(pod, f.host, f.port) \in DeclaredFlows
<1>1. PICK k \in Indices(selfHosted) : Wired(k) /\ f = BackupFlow(k)
  <2>1. ASSUME NEW e, Carries(e, f) PROVE FALSE
    BY <2>1, MeshDestinations DEF Carries
  <2>2. QED
    BY <2>1, FlowsAre, NeonCarried, ProvisionerCarried DEF Wired
<1>2. f.host = StoreHost(k) /\ f.port = StorePort(k)
  BY <1>1 DEF BackupFlow, Flow, StoreHost, StorePort
<1>3. InCluster(k) /\ StorePort(k) \notin UnpinnedPorts /\ StoreNamespace(k) # stackName
  BY <1>1, <1>2 DEF InCluster, Governed, StoreNamespace
<1>4. Routes(f.host, f.port) = {}
  BY RoutesAre, MeshDestinations
<1>5. FloorAllows(pod, StoreNamespace(k), StorePort(k))
  BY <1>2, <1>4 DEF MayReach, DirectAllows, StoreNamespace
<1>6. appMeshEnabled
  BY <1>1, EdgesNeedTheMesh DEF Wired
<1>7. PICK np \in OfKind("NetworkPolicy") : /\ Selects(np, pod)
                                            /\ \E r \in np.spec.egress :
                                                 /\ r.to \in {AnyPeer, StoreNamespace(k)}
                                                 /\ r.ports = {} \/ StorePort(k) \in r.ports
  BY <1>5, <1>6, DenySelects DEF FloorAllows
<1>8. PICK r \in np.spec.egress : /\ r.to \in {AnyPeer, StoreNamespace(k)}
                                  /\ r.ports = {} \/ StorePort(k) \in r.ports
  BY <1>7
<1>9. DeclaredRule(pod, r)
  BY <1>3, <1>7, <1>8, FloorRules, StoreRule
<1>10. PICK j \in Indices(selfHosted) :
         /\ Wired(j)
         /\ pod = Pod(selfHosted[j].name, ClusterPods(selfHosted[j].name))
         /\ r = DeclaredEgressRule(BackupExternal(j))
  BY <1>9 DEF DeclaredRule
<1>11. StoreHost(j) = f.host /\ StorePort(j) = f.port
  BY <1>2, <1>3, <1>8, <1>10, StoreRule
<1>12. Flow(pod, f.host, f.port) = BackupFlow(j)
  BY <1>10, <1>11 DEF BackupFlow, StoreHost, StorePort
<1>13. QED
  BY <1>10, <1>12, FlowsAre DEF Wired

\* networkpolicy.go:380 and egress.go:364: for every document whose names keep apart,
\* whose service accounts each run one kind of pod and whose stores in the cluster
\* the floor can tell apart, no pod of the namespace reaches a destination that is
\* wired for others only.
THEOREM NothingElseGetsThrough ==
  Spec => [](NamesApart /\ AccountsApart /\ StoresApart => OnlyDeclaredFlowsPass)
<1>1. EInv => (NamesApart /\ AccountsApart /\ StoresApart => OnlyDeclaredFlowsPass)
  BY RemoteGoverned, InClusterGoverned DEF OnlyDeclaredFlowsPass
<1>2. QED
  BY <1>1, Emission, PTL
=============================================================================
