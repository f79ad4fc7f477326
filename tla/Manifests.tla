------------------------------ MODULE Manifests ------------------------------
(***************************************************************************)
(* The emit functions of internal/adapters/flux, each an operator from a   *)
(* file map to a file map in the order of its calls to `set`.  A path is   *)
(* kept as its directory, its stem and its suffix: <stem>-<suffix>.yaml,   *)
(* with an empty stem for a file named after nothing declared.  `set`      *)
(* overwrites, so two different stems that join to one name share a path.  *)
(* Objects keep what the cluster tells apart: kind, namespace, name, and   *)
(* the fields of the spec that decide traffic, ordering or labelling.      *)
(***************************************************************************)
EXTENDS Declaration

CnpgSystem == <<"cnpg", "system">>
FluxSystem == <<"flux", "system">>
KubeSystem == <<"kube", "system">>
IstioSystem == <<"istio", "system">>
CnpgOperator == <<"cnpg", "operator">>
TfRunner == <<"tf", "runner">>
Waypoint == <<"waypoint">>
NeonControlPlane == <<"neon", "control", "plane">>
NeonControlPlaneHost == <<"console", "neon", "tech">>

PostgresPort == 5432
CnpgStatusPort == 8000
DNSPort == 53
IstiodXDSPort == 15012
HbonePort == 15008
ControlPlanePorts == {6443, 443}

NoFiles == [p \in {} |-> p]
Path(dir, stem, suffix) == [dir |-> dir, stem |-> stem, suffix |-> suffix]
App(stem, suffix) == Path("apps", stem, suffix)
Object(kind, ns, name, spec) == [kind |-> kind, ns |-> ns, name |-> name, spec |-> spec]
Plain == [plain |-> TRUE]

\* Go's `set`: the last write of a path wins, and nothing says so.
Set(files, path, object) ==
    [p \in DOMAIN files \cup {path} |-> IF p = path THEN object ELSE files[p]]

Principal(stackName, consumer) ==
    [ns |-> IF consumer.namespace = NoName THEN stackName ELSE consumer.namespace,
     sa |-> consumer.serviceAccount]
ServiceAccountOf(stackName, sa) == Principal(stackName, [serviceAccount |-> sa, namespace |-> NoName])

-----------------------------------------------------------------------------
(* flux.go and terraform.go: namespaces, operator, RBAC, databases         *)

Kustomization(name, path, dependsOn, healthChecks) ==
    Object("Kustomization", FluxSystem, name,
           [path |-> path, dependsOn |-> dependsOn, healthChecks |-> healthChecks])

EmitCNPGOperator(files, meshEnabled) ==
    LET infra(suffix) == Path("infra", NoName, suffix)
        f1 == Set(files, infra("namespace"), Object("Namespace", NoName, CnpgSystem, [ambient |-> meshEnabled]))
        f2 == Set(f1, infra("helmrepository"), Object("HelmRepository", CnpgSystem, <<"cloudnative", "pg">>, Plain))
        f3 == Set(f2, infra("helmrelease"), Object("HelmRelease", CnpgSystem, CnpgOperator, Plain))
    IN  Set(f3, Path("flux", NoName, "infra-cnpg-operator"),
            Kustomization(CnpgOperator, "infra", {}, {CnpgOperator}))

EmitAppNamespace(files, stackName, meshEnabled) ==
    Set(files, App(NoName, "namespace"), Object("Namespace", NoName, stackName, [ambient |-> meshEnabled]))

EmitManagedRunnerRBAC(files, stackName) ==
    Set(Set(files, App(NoName, "tf-runner-serviceaccount"), Object("ServiceAccount", stackName, TfRunner, Plain)),
        App(NoName, "tf-runner-rolebinding"), Object("RoleBinding", stackName, TfRunner, Plain))

\* The archive: its endpoint, bucket and credentials are those declared for the external.
barmanObjectStore(ext) == {ext.name}
\* conditional: the d7s CONDITIONAL annotation.
EmitCluster(files, stackName, pg, ext) ==
    Set(files, App(pg.name, "cluster"),
        Object("Cluster", stackName, pg.name,
               [secret |-> pg.credentials,
                backup |-> IF pg.rpo.declared THEN barmanObjectStore(ext) ELSE {},
                conditional |-> pg.rpo.declared]))

\* A rule's empty set of principals, namespaces or ports constrains nothing.
Rule(principals, namespaces, ports) ==
    [principals |-> principals, namespaces |-> namespaces, ports |-> ports]

ConsumerRules_oneRule(stackName, pg) ==
    {Rule({Principal(stackName, c) : c \in pg.allowedConsumers}, {}, {PostgresPort})}
ConsumerRules(stackName, pg) ==
    {Rule({Principal(stackName, c)}, {}, {PostgresPort}) : c \in pg.allowedConsumers}

EmitZeroTrust(files, stackName, pg) ==
    IF ~pg.mtls THEN files
    ELSE Set(Set(files, App(NoName, "peerauthentication"),
                 Object("PeerAuthentication", stackName, <<"default">>, [mode |-> "STRICT"])),
             App(pg.name, "authorizationpolicy"),
             Object("AuthorizationPolicy", stackName, pg.name,
                    [selects |-> pg.name, targetRef |-> NoName,
                     rules |-> ConsumerRules(stackName, pg) \cup {Rule({}, {CnpgSystem}, {CnpgStatusPort})}]))

EmitDurability_unlabelled(files, stackName, pg) ==
    IF ~pg.rpo.declared THEN files
    ELSE Set(files, App(pg.name, "scheduledbackup"),
             Object("ScheduledBackup", stackName, pg.name, [cluster |-> pg.name, conditional |-> FALSE]))
EmitDurability(files, stackName, pg) ==
    IF ~pg.rpo.declared THEN files
    ELSE Set(files, App(pg.name, "scheduledbackup"),
             Object("ScheduledBackup", stackName, pg.name, [cluster |-> pg.name, conditional |-> TRUE]))

EmitSelfHostedPostgres(files, stackName, pg, ext) ==
    EmitDurability(EmitZeroTrust(EmitCluster(files, stackName, pg, ext), stackName, pg), stackName, pg)

EmitManagedPostgres(files, stackName, pg) ==
    Set(Set(files, App(pg.name, "managed/main.tf"), Object("tofu", NoName, pg.name, Plain)),
        App(pg.name, "terraform"),
        Object("Terraform", stackName, pg.name,
               [path |-> App(pg.name, "managed/main.tf"), writeOutputsToSecret |-> pg.credentials]))

EmitAppKustomization(files, stackName, dependsOnCNPGOperator) ==
    Set(files, Path("flux", stackName, "apps"),
        Kustomization(stackName, "apps", IF dependsOnCNPGOperator THEN {CnpgOperator} ELSE {}, {}))

-----------------------------------------------------------------------------
(* egress.go                                                               *)

\* <svc>.<ns>.svc or <svc>.<ns>.svc.cluster.local
ClusterLocal(host) ==
    /\ Len(host) \in {3, 5}
    /\ host[3] = "svc"
    /\ Len(host) = 5 => host[4] = "cluster" /\ host[5] = "local"
\* The namespace a cluster-local host names, a label without hyphens here.
ClusterLocalNamespace(host) == IF ClusterLocal(host) THEN <<host[2]>> ELSE NoName

\* The self-hosted components wired to external `name`, and whether the i-th
\* component is the first of them: the walk that dedupes targets by name.
Consumers(selfHosted, name) ==
    {pg.name : pg \in {c \in Elements(selfHosted) : c.rpo.declared /\ c.rpo.backupTo = name}}

FirstUse(selfHosted, i) ==
    /\ selfHosted[i].rpo.declared
    /\ \A j \in 1 .. i - 1 :
         ~(selfHosted[j].rpo.declared /\ selfHosted[j].rpo.backupTo = selfHosted[i].rpo.backupTo)

EmitWaypoint(files, stackName) ==
    Set(files, App(NoName, "waypoint"), Object("Gateway", stackName, Waypoint, Plain))

\* Every egress edge is a ServiceEntry bound to the waypoint and the
\* AuthorizationPolicy that names it.
EmitEgressPair(files, stackName, name, host, port, principals) ==
    Set(Set(files, App(name, "serviceentry"),
            Object("ServiceEntry", stackName, name, [host |-> host, port |-> port, waypoint |-> Waypoint])),
        App(name \o <<"egress">>, "authorizationpolicy"),
        Object("AuthorizationPolicy", stackName, name \o <<"egress">>,
               [selects |-> NoName, targetRef |-> name, rules |-> {Rule(principals, {}, {})}]))

EmitBackupEgress(files, stackName, ext, consumers) ==
    EmitEgressPair(files, stackName, ext.name, ext.objectStore.host, ext.objectStore.port,
                   {ServiceAccountOf(stackName, c) : c \in consumers})

EmitNeonEgress(files, stackName, pg) ==
    EmitEgressPair(files, stackName, pg.name \o <<"neon">>, pg.endpointHost.host, PostgresPort,
                   {Principal(stackName, c) : c \in pg.allowedConsumers})

EmitNeonControlPlaneEgress(files, stackName) ==
    EmitEgressPair(files, stackName, NeonControlPlane, NeonControlPlaneHost, 443,
                   {ServiceAccountOf(stackName, TfRunner)})

-----------------------------------------------------------------------------
(* networkpolicy.go                                                        *)

\* A peer is a namespace or AnyPeer; no ports means every port.
AnyPeer == <<"*">>
EgressRule(to, ports) == [to |-> to, ports |-> ports]
PodLabel(key, value) == [key |-> key, value |-> value]
AllPods == PodLabel("all", NoName)
ClusterPods(name) == PodLabel("cnpg.io/cluster", name)
WaypointPods == PodLabel("gateway-name", Waypoint)
RunnerPods == PodLabel("app.kubernetes.io/name", TfRunner)

NetworkPolicy(stackName, name, selector, egress) ==
    Object("NetworkPolicy", stackName, name, [podSelector |-> selector, egress |-> egress])

EmitDefaultDenyEgress(files, stackName) ==
    Set(files, App(NoName, "networkpolicy-default-deny-egress"),
        NetworkPolicy(stackName, <<"default", "deny", "egress">>, AllPods, {}))

EmitAllowClusterEgress(files, stackName) ==
    Set(files, App(NoName, "networkpolicy-allow-cluster-egress"),
        NetworkPolicy(stackName, <<"allow", "cluster", "egress">>, AllPods,
            {EgressRule(KubeSystem, {DNSPort}), EgressRule(IstioSystem, {IstiodXDSPort}),
             EgressRule(stackName, {}), EgressRule(AnyPeer, {HbonePort})}))

EmitAllowWaypointEgress(files, stackName) ==
    Set(files, App(NoName, "networkpolicy-allow-waypoint-egress"),
        NetworkPolicy(stackName, <<"allow", "waypoint", "egress">>, WaypointPods, {EgressRule(AnyPeer, {})}))

EmitCNPGControlPlaneEgress_onePath(files, stackName, pg) ==
    Set(files, App(NoName, "networkpolicy-controlplane-egress"),
        NetworkPolicy(stackName, pg.name \o <<"controlplane", "egress">>, ClusterPods(pg.name),
                      {EgressRule(AnyPeer, ControlPlanePorts)}))
EmitCNPGControlPlaneEgress(files, stackName, pg) ==
    Set(files, App(pg.name, "networkpolicy-controlplane-egress"),
        NetworkPolicy(stackName, pg.name \o <<"controlplane", "egress">>, ClusterPods(pg.name),
                      {EgressRule(AnyPeer, ControlPlanePorts)}))

EmitManagedControlPlaneEgress(files, stackName) ==
    Set(files, App(NoName, "networkpolicy-tf-runner-controlplane-egress"),
        NetworkPolicy(stackName, TfRunner \o <<"controlplane", "egress">>, RunnerPods,
                      {EgressRule(AnyPeer, ControlPlanePorts)}))

\* One policy per consumer of one target; within a target the consumers'
\* names, and so their paths, are distinct.
DeclaredEgressPath(consumer, extName) == App(consumer \o extName, "networkpolicy-declared-egress")

DeclaredEgressRule(ext) ==
    EgressRule(IF ClusterLocal(ext.objectStore.host)
               THEN ClusterLocalNamespace(ext.objectStore.host) ELSE AnyPeer,
               {ext.objectStore.port})
DeclaredEgressPolicy_oneName(stackName, consumer, ext) ==
    NetworkPolicy(stackName, ext.name \o <<"declared", "egress">>, ClusterPods(consumer), {DeclaredEgressRule(ext)})
DeclaredEgressPolicy_allPods(stackName, consumer, ext) ==
    NetworkPolicy(stackName, consumer \o ext.name \o <<"declared", "egress">>, AllPods, {DeclaredEgressRule(ext)})
DeclaredEgressPolicy(stackName, consumer, ext) ==
    NetworkPolicy(stackName, consumer \o ext.name \o <<"declared", "egress">>, ClusterPods(consumer),
                  {DeclaredEgressRule(ext)})

EmitDeclaredExternalEgress(files, stackName, ext, consumers) ==
    [p \in DOMAIN files \cup {DeclaredEgressPath(c, ext.name) : c \in consumers} |->
       IF \E c \in consumers : p = DeclaredEgressPath(c, ext.name)
       THEN LET c == CHOOSE c \in consumers : p = DeclaredEgressPath(c, ext.name)
            IN  DeclaredEgressPolicy(stackName, c, ext)
       ELSE files[p]]
=============================================================================
