------------------------------- MODULE Wiring --------------------------------
(***************************************************************************)
(* What the emitted objects let through once a cluster enforces them, and  *)
(* what the declaration wired.  The enforcement is Kubernetes'             *)
(* NetworkPolicy and Istio's ambient mesh, as the comments of              *)
(* networkpolicy.go and egress.go rely on them.                            *)
(***************************************************************************)
EXTENDS FluxEmitter

(***************************************************************************)
(* Pods of the stack's namespace: the database pods of each component,     *)
(* the pods of the declared consumers, a bystander, the runner and the     *)
(* waypoint.  CNPG runs a component's pods under a ServiceAccount of its   *)
(* name.                                                                   *)
(***************************************************************************)
Pod(sa, label) == [sa |-> sa, label |-> label]
NoLabel == PodLabel("none", NoName)
Bystander == Pod(<<"bystander">>, NoLabel)
DatabasePods == {Pod(pg.name, ClusterPods(pg.name)) : pg \in Elements(selfHosted)}
LocalConsumers(pg) ==
    {c \in pg.allowedConsumers : Principal(stackName, c).ns = stackName}
ConsumerPods == {Pod(c.serviceAccount, NoLabel) : c \in UNION {LocalConsumers(pg) : pg \in Elements(doc.components)}}
RunnerPod == Pod(TfRunner, RunnerPods)
WaypointPod == Pod(Waypoint, WaypointPods)
Pods == DatabasePods \cup ConsumerPods \cup {Bystander, RunnerPod}

Identity(pod) == [ns |-> stackName, sa |-> pod.sa]

\* Kubernetes: a pod no policy selects may send anything; otherwise some rule
\* of some policy that selects it must match.
Selects(np, pod) == np.spec.podSelector \in {AllPods, pod.label}
FloorAllows(pod, ns, port) ==
    LET policies == {np \in OfKind("NetworkPolicy") : Selects(np, pod)}
    IN  \/ policies = {}
        \/ \E np \in policies : \E r \in np.spec.egress :
             r.to \in {AnyPeer, ns} /\ (r.ports = {} \/ port \in r.ports)

\* Istio: with no policy on a target everything is allowed; otherwise some
\* rule of some policy must match.
RuleMatches(r, identity, port) ==
    /\ r.principals = {} \/ identity \in r.principals
    /\ r.namespaces = {} \/ identity.ns \in r.namespaces
    /\ r.ports = {} \/ port \in r.ports
PoliciesAllow(policies, identity, port) ==
    policies = {} \/ \E ap \in policies : \E r \in ap.spec.rules : RuleMatches(r, identity, port)

Ambient(ns) == \E n \in OfKind("Namespace") : n.name = ns /\ n.spec.ambient

\* An ambient pod's connection to a ServiceEntry's host and port is sent to the
\* waypoint; istiod prunes an entry whose host is a Service of the cluster.
Routes(host, port) ==
    IF ~Ambient(stackName) THEN {}
    ELSE {se \in OfKind("ServiceEntry") : se.spec.host = host /\ se.spec.port = port}

DirectAllows(pod, host, port) == FloorAllows(pod, ClusterLocalNamespace(host), port)
RouteAllows(se, pod, port) ==
    /\ ~ClusterLocal(se.spec.host)
    /\ \E gw \in OfKind("Gateway") : gw.name = se.spec.waypoint
    /\ FloorAllows(pod, stackName, HbonePort)
    /\ PoliciesAllow({ap \in OfKind("AuthorizationPolicy") : ap.spec.targetRef = se.name}, Identity(pod), port)
    /\ FloorAllows(WaypointPod, NoName, port)

\* Which of two entries for one host is in force is istiod's choice: a
\* connection surely works when each of them lets it through.
SurelyReaches(pod, host, port) ==
    LET routes == Routes(host, port)
    IN  IF routes = {} THEN DirectAllows(pod, host, port) ELSE \A se \in routes : RouteAllows(se, pod, port)
MayReach(pod, host, port) ==
    LET routes == Routes(host, port)
    IN  IF routes = {} THEN DirectAllows(pod, host, port) ELSE \E se \in routes : RouteAllows(se, pod, port)

\* A connection into the pods of component `name`, from an identity in an
\* ambient namespace or from a plain one.
Strict == OfKind("PeerAuthentication") # {}
Accepts(name, identity, port) ==
    /\ Strict => Ambient(identity.ns)
    /\ PoliciesAllow({ap \in OfKind("AuthorizationPolicy") : ap.spec.selects = name}, identity, port)

-----------------------------------------------------------------------------
(* What the declaration wired                                              *)

Flow(pod, host, port) == [pod |-> pod, host |-> host, port |-> port]
StoreOf(pg) == externalsByName(pg.rpo.backupTo).objectStore

BackupFlows ==
    {Flow(Pod(pg.name, ClusterPods(pg.name)), StoreOf(pg).host, StoreOf(pg).port) :
       pg \in {c \in Elements(selfHosted) : c.rpo.declared}}
NeonFlows ==
    UNION {{Flow(Pod(c.serviceAccount, NoLabel), pg.endpointHost.host, PostgresPort) : c \in LocalConsumers(pg)} :
           pg \in Elements(managed)}
ProvisionerFlows ==
    IF managed = <<>> THEN {} ELSE {Flow(RunnerPod, NeonControlPlaneHost, 443)}
DeclaredFlows == BackupFlows \cup NeonFlows \cup ProvisionerFlows

\* The destinations outside the cluster that the declaration wires, by what it calls
\* them.  Nothing keeps two of them from being one host and port, and the compile then
\* has an entry for each.
Destination(kind, name, host, port) == [kind |-> kind, name |-> name, host |-> host, port |-> port]
RemoteStores ==
    {Destination("store", pg.rpo.backupTo, StoreOf(pg).host, StoreOf(pg).port) :
       pg \in {c \in Elements(selfHosted) : c.rpo.declared /\ ~ClusterLocal(StoreOf(c).host)}}
Branches ==
    {Destination("branch", pg.name, pg.endpointHost.host, PostgresPort) :
       pg \in {c \in Elements(managed) : c.allowedConsumers # {}}}
ControlPlanes ==
    IF managed = <<>> THEN {} ELSE {Destination("controlplane", NoName, NeonControlPlaneHost, 443)}
Contested(host, port) ==
    \E d, e \in RemoteStores \cup Branches \cup ControlPlanes :
      d # e /\ d.host = host /\ d.port = port /\ e.host = host /\ e.port = port

-----------------------------------------------------------------------------
(* Properties                                                              *)

\* Every flow the declaration wires gets through the floor and the mesh
\* together: the backup of each component, each declared consumer of a managed
\* component, the provisioner's own call (networkpolicy.go:393, egress.go:364).
\* Where several destinations share a host and port (egress.go:250), each flow
\* has at least one entry that lets it through.
DeclaredFlowsPass ==
    pc = "done" => \A f \in DeclaredFlows :
      IF Contested(f.host, f.port)
      THEN MayReach(f.pod, f.host, f.port)
      ELSE SurelyReaches(f.pod, f.host, f.port)

\* And only those: no other pod of the namespace reaches a destination that the
\* declaration wires for somebody.  A remote destination is governed by the mesh.
\* An in-cluster one is governed by the floor alone, which names no destination on
\* the ports of the control plane and of a wired remote store (the precision limit
\* networkpolicy.go:380 discloses), nor inside the stack's own namespace.
UnpinnedPorts == ControlPlanePorts \cup {f.port : f \in {g \in BackupFlows : ~ClusterLocal(g.host)}}
Governed(f) ==
    \/ ~ClusterLocal(f.host)
    \/ f.port \notin UnpinnedPorts /\ ClusterLocalNamespace(f.host) # stackName
OnlyDeclaredFlowsPass ==
    pc = "done" =>
      \A f \in DeclaredFlows : Governed(f) =>
        \A pod \in Pods : MayReach(pod, f.host, f.port) => Flow(pod, f.host, f.port) \in DeclaredFlows

\* flux.go:296: a component with guarantees.mtls accepts PostgreSQL only from the
\* consumers it declares, whatever else the stack declares; and the operator's
\* status polling survives (flux.go:340).
ZeroTrust ==
    pc = "done" =>
      \A pg \in {c \in Elements(selfHosted) : c.mtls} :
        /\ \A pod \in Pods :
             Accepts(pg.name, Identity(pod), PostgresPort) =>
               \E c \in pg.allowedConsumers : Principal(stackName, c) = Identity(pod)
        /\ \A c \in LocalConsumers(pg) : Accepts(pg.name, Principal(stackName, c), PostgresPort)
        /\ Accepts(pg.name, [ns |-> CnpgSystem, sa |-> CnpgOperator], CnpgStatusPort)
=============================================================================
