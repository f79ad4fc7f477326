------------------------------ MODULE Delivery -------------------------------
(***************************************************************************)
(* From $OUT to a working component: git-source.sh publishes the compiled  *)
(* tree, deliver.sh or deliver-managed.sh registers it and applies the     *)
(* emitted Kustomizations, Flux does the rest in the order compiled into   *)
(* them (flux.go), and in the managed scenario pin-managed.sh publishes a  *)
(* second time.  The scripts go on only through polls, which are bounded:  *)
(* that a poll gives up and that a command fails are both Fault here.  The *)
(* units may be called again on the same cluster, where what the last      *)
(* attempt left is still Ready.  An operator <name>_<bug> is <name> with a *)
(* bug that a property has to notice.                                      *)
(***************************************************************************)
EXTENDS Naturals, Sequences

CONSTANT MaxAttempts    \* bound: deliveries to one cluster

ASSUME MaxAttemptsAssumption == MaxAttempts \in Nat \ {0}

(***************************************************************************)
(* A publish is a commit of its own, with no history: revisions are the    *)
(* numbers of the publishes, and 0 is none.                                *)
(***************************************************************************)
VARIABLES
    placement,  \* of the stack's component; it does not change
    attempt,    \* the delivery under way
    at,         \* index of the script's next step
    failed,     \* the script has failed
    out,        \* the compile that $OUT holds: unpinned or pinned
    published,  \* the last revision published
    pinned,     \* the revisions that are pinned compiles
    served,     \* the revision at the git server's path, or what it was before ...
    torn,       \* ... the copy that is under way, or was interrupted
    source,     \* the GitRepository: registered, Ready, and its artifact's revision
    pre,        \* PRE_PIN_REVISION
    layers,     \* the Kustomizations on the cluster
    applied,    \* the revision each has applied
    ready,      \* the Ready condition of each
    operator,   \* the CNPG operator serves
    secrets,    \* the secrets that the scripts have made
    workload,   \* the Cluster is healthy, or the Terraform object Ready
    fault       \* history: a command failed or a poll gave up

repository == <<published, pinned, served, torn>>
kustomizations == <<layers, applied, ready>>
cluster == <<source, kustomizations, operator, workload>>
script == <<placement, attempt, at, failed, out, pre, secrets, fault>>
vars == <<repository, cluster, script>>

Layer == {"infra", "app"}
Revision == 0..(2 * MaxAttempts)
SelfHosted == placement = "self-hosted"

-----------------------------------------------------------------------------
(* What the emitter compiles into the Kustomizations *)

DependsOn == [infra |-> {}, app |-> IF SelfHosted THEN {"infra"} ELSE {}]

HealthChecks_none == [infra |-> {}, app |-> {}]
HealthChecks_workload == [infra |-> {"operator"}, app |-> {"workload"}]
HealthChecks == [infra |-> {"operator"}, app |-> {}]

Healthy(check) == IF check = "operator" THEN operator ELSE workload

\* The secrets the component's objects name and the compile does not contain.
Required == IF SelfHosted THEN {"credentials", "backups"} ELSE {"neon-api-key"}

-----------------------------------------------------------------------------
(* The scripts *)

Publish_overlay == <<"copy", "copied">>
Publish == <<"remove", "copy", "copied">>
Register == <<"register", "awaitSource">>

Deliver_secretsEarly ==
    <<"applyInfra", "applyApp", "credentials", "backups", "awaitApp", "awaitWorkload">>
Deliver ==
    <<"applyInfra", "applyApp", "awaitApp", "credentials", "backups", "awaitWorkload">>
DeliverManaged == <<"applyApp", "awaitApp", "neon-api-key", "awaitWorkload">>

Pin_lateRevision == <<"pin">> \o Publish \o <<"readRevision", "awaitRevision", "awaitEntry">>
Pin_noEntry == <<"pin", "readRevision">> \o Publish \o <<"awaitRevision">>
Pin == <<"pin", "readRevision">> \o Publish \o <<"awaitRevision", "awaitEntry">>

Script ==
    Publish \o Register \o (IF SelfHosted THEN Deliver ELSE DeliverManaged \o Pin)

Passed == at > Len(Script)
Doing(step) == ~failed /\ ~Passed /\ Script[at] = step

Init ==
    /\ placement \in {"self-hosted", "managed"}
    /\ attempt = 1 /\ at = 1 /\ failed = FALSE /\ fault = FALSE
    /\ out = "unpinned" /\ pre = 0
    /\ published = 0 /\ pinned = {} /\ served = 0 /\ torn = FALSE
    /\ source = [registered |-> FALSE, ready |-> FALSE, artifact |-> 0]
    /\ layers = {}
    /\ applied = [l \in Layer |-> 0]
    /\ ready = [l \in Layer |-> FALSE]
    /\ operator = FALSE /\ workload = FALSE /\ secrets = {}

Proceed == at' = at + 1 /\ UNCHANGED <<placement, attempt, failed, fault>>
Refuse == failed' = TRUE /\ UNCHANGED <<placement, attempt, at, fault>>

\* git-source: what was served goes first ...
Remove ==
    /\ Doing("remove")
    /\ served' = 0 /\ torn' = FALSE
    /\ Proceed
    /\ UNCHANGED <<published, pinned, out, pre, secrets, cluster>>

\* ... and kubectl cp merges the new commit into what is there, whose refs win.
Copy ==
    /\ Doing("copy")
    /\ published' = published + 1
    /\ pinned' = IF out = "pinned" THEN pinned \cup {published'} ELSE pinned
    /\ torn' = (served = 0)
    /\ Proceed
    /\ UNCHANGED <<served, out, pre, secrets, cluster>>
Copied ==
    /\ Doing("copied")
    /\ served' = IF torn THEN published ELSE served
    /\ torn' = FALSE
    /\ Proceed
    /\ UNCHANGED <<published, pinned, out, pre, secrets, cluster>>

RegisterSource ==
    /\ Doing("register")
    /\ source' = [source EXCEPT !.registered = TRUE]
    /\ Proceed
    /\ UNCHANGED <<repository, kustomizations, operator, workload, out, pre, secrets>>

ApplyKustomization(l) ==
    /\ Doing(IF l = "infra" THEN "applyInfra" ELSE "applyApp")
    /\ layers' = layers \cup {l}
    /\ Proceed
    /\ UNCHANGED <<repository, source, applied, ready, operator, workload, out, pre, secrets>>

\* The namespace of the secrets is part of the app layer.
CreateSecret_allOfThem(s) ==
    /\ Doing(s)
    /\ IF applied["app"] # 0
       THEN secrets' = secrets \cup {"credentials", "backups", "neon-api-key"} /\ Proceed
       ELSE Refuse /\ UNCHANGED secrets
    /\ UNCHANGED <<repository, cluster, out, pre>>
CreateSecret(s) ==
    /\ Doing(s)
    /\ IF applied["app"] # 0
       THEN secrets' = secrets \cup {s} /\ Proceed
       ELSE Refuse /\ UNCHANGED secrets
    /\ UNCHANGED <<repository, cluster, out, pre>>

\* pin-managed: the host out of the written secret, and the compile of the pinned stack.
PinHost ==
    /\ Doing("pin")
    /\ IF workload THEN out' = "pinned" /\ Proceed ELSE Refuse /\ UNCHANGED out
    /\ UNCHANGED <<repository, cluster, pre, secrets>>
ReadRevision ==
    /\ Doing("readRevision")
    /\ pre' = source.artifact
    /\ Proceed
    /\ UNCHANGED <<repository, cluster, out, secrets>>

\* What the polls wait for.
Awaited(step) ==
    CASE step = "awaitSource" -> source.ready
      [] step = "awaitApp" -> ready["app"]
      [] step = "awaitWorkload" -> workload
      [] step = "awaitRevision" -> source.artifact # pre
      [] step = "awaitEntry" -> applied["app"] \in pinned
Polls == {"awaitSource", "awaitApp", "awaitWorkload", "awaitRevision", "awaitEntry"}
Poll(step) ==
    /\ Doing(step) /\ Awaited(step)
    /\ Proceed
    /\ UNCHANGED <<repository, cluster, out, pre, secrets>>

\* A command fails under errexit, or the attempts of a poll are over.
Fault ==
    /\ ~failed /\ ~Passed
    /\ failed' = TRUE /\ fault' = TRUE
    /\ UNCHANGED <<repository, cluster, placement, attempt, at, out, pre, secrets>>

\* The units are called again, from the compile on.
Again ==
    /\ failed \/ Passed
    /\ attempt < MaxAttempts
    /\ attempt' = attempt + 1 /\ at' = 1 /\ failed' = FALSE /\ fault' = FALSE
    /\ out' = "unpinned"
    /\ UNCHANGED <<repository, cluster, placement, pre, secrets>>

Step ==
    \/ Remove \/ Copy \/ Copied \/ RegisterSource
    \/ \E l \in Layer : ApplyKustomization(l)
    \/ \E s \in Required : CreateSecret(s)
    \/ PinHost \/ ReadRevision
    \/ \E p \in Polls : Poll(p)

-----------------------------------------------------------------------------
(* Flux and the operators *)

\* source-controller: a fetch in the middle of a publish fails and keeps the artifact.
Fetch ==
    /\ source.registered
    /\ source' = IF served # 0 /\ ~torn
                 THEN [source EXCEPT !.ready = TRUE, !.artifact = served]
                 ELSE [source EXCEPT !.ready = FALSE]
    /\ UNCHANGED <<repository, kustomizations, operator, workload, script>>

\* kustomize-controller: nothing before its dependencies are Ready, and Ready itself when
\* the health checks pass.
Reconcile(l) ==
    /\ l \in layers
    /\ source.artifact # 0
    /\ \A d \in DependsOn[l] : ready[d]
    /\ applied' = [applied EXCEPT ![l] = source.artifact]
    /\ ready' = [ready EXCEPT ![l] = \A h \in HealthChecks[l] : Healthy(h)]
    /\ UNCHANGED <<repository, script, source, layers, operator, workload>>

\* helm-controller: the HelmRelease of the infra layer.
InstallOperator ==
    /\ applied["infra"] # 0
    /\ operator' = TRUE
    /\ UNCHANGED <<repository, script, source, kustomizations, workload>>

\* The CNPG operator, or tofu-controller, with the secrets their objects name.
BecomeHealthy ==
    /\ applied["app"] # 0
    /\ SelfHosted => operator
    /\ Required \subseteq secrets
    /\ workload' = TRUE
    /\ UNCHANGED <<repository, script, source, kustomizations, operator>>

Controllers == Fetch \/ (\E l \in Layer : Reconcile(l)) \/ InstallOperator \/ BecomeHealthy

Ended == (failed \/ Passed) /\ UNCHANGED vars

Next == Step \/ Fault \/ Again \/ Controllers \/ Ended

Spec == Init /\ [][Next]_vars

\* The script goes on and each controller reconciles again and again; nothing has to fail.
FairSpec ==
    /\ Spec
    /\ WF_vars(Step) /\ WF_vars(Fetch)
    /\ \A l \in Layer : WF_vars(Reconcile(l))
    /\ WF_vars(InstallOperator) /\ WF_vars(BecomeHealthy)

-----------------------------------------------------------------------------
(* Properties *)

\* The type invariant.
TypeOK ==
    /\ placement \in {"self-hosted", "managed"}
    /\ attempt \in 1..MaxAttempts
    /\ at \in 1..(Len(Script) + 1)
    /\ failed \in BOOLEAN /\ fault \in BOOLEAN
    /\ out \in {"unpinned", "pinned"}
    /\ published \in Revision /\ served \in Revision /\ pinned \subseteq Revision
    /\ torn \in BOOLEAN
    /\ source \in [registered : BOOLEAN, ready : BOOLEAN, artifact : Revision]
    /\ pre \in Revision
    /\ layers \subseteq Layer
    /\ applied \in [Layer -> Revision]
    /\ ready \in [Layer -> BOOLEAN]
    /\ operator \in BOOLEAN /\ workload \in BOOLEAN
    /\ secrets \subseteq Required

\* The Cluster object reaches the cluster only when the operator that defines its kind
\* serves, by what is compiled into the two Kustomizations and not by a step of the
\* script (flux.go:476-487, deliver.sh:8-22).
OperatorFirst == SelfHosted /\ applied["app"] # 0 => operator

\* On a fresh cluster, a script that has passed has delivered what it published last: the
\* component works, with the objects of that compile (deliver.sh:80, pin-managed.sh:44-48).
PassedMeansDelivered ==
    Passed /\ attempt = 1 => workload /\ served = published /\ applied["app"] = published

\* No script fails through its own order: what a step needs is there when its turn comes
\* (deliver.sh:63-78, neon-secret.sh:8-10, pin-managed.sh:21).
FailsOnlyByFault == failed => fault

\* With enough patience every attempt passes: no two of its waits, nor a wait and a health
\* check, wait for each other (flux.go:576-591), and the revision that is awaited is one
\* that can still come (pin-managed.sh:39).
Delivers == at = 1 ~> Passed \/ failed

\* What has been published last, whole, ends up applied, also when the polls of a later
\* attempt were satisfied by what an earlier one had left Ready (git-source.sh:113-119).
Converges ==
    <>[](served # 0 /\ ~torn /\ source.registered /\ "app" \in layers
           => applied["app"] = published)
=============================================================================
