# Verification of d7s

`d7s` compiles a declaration (a YAML document that lists PostgreSQL components, the
guarantees they want and the external object stores they use) to Kubernetes objects that
Flux applies. A declared guarantee is compiled or the compile refuses; what crosses the
trust boundary is labelled; only declared wiring may pass the network. Shell actions drive
the compiled output through a cluster, from `kind create` to the destruction of the cloud
branch. The modules here model the program that compiles, what its output does, and the
scripts that carry it through.

## The system

| part | state it keeps | operations | what is hard | what makes it correct |
|---|---|---|---|---|
| `internal/adapters/yaml`, `internal/domain` | none: a document in, errors or a `Stack` out | `Load`, `Validate` | two stages refuse, a third (the emitter) trusts them | everything the emitter relies on is refused before it |
| `internal/compiler`, `internal/adapters/flux` | the file map one compile builds, the CONDITIONAL notices | `Emit` and some twenty emit functions | they write one map under names joined with hyphens; five features are switched on by separately computed conditions | no object lost, nothing dangling, every guarantee emitted, exactly the declared flows pass |
| `cmd/d7s` | the output directory | `run`, `runCompile`, `writeManifests` | the tree is removed and rewritten file by file; processes share directories | an exit 0 leaves the whole tree, a refusal leaves the old one |
| `scripts/actions`, `scripts/lib` (orchestrators) | the kind cluster, a `flock`, files in `/tmp` | `acceptance`, `acceptance-managed`, `cluster-up`, `teardown`, `compile-and-verify` | concurrent runs, piecemeal actions without the lock, EXIT traps, killed orchestrators whose unit lives on | a run keeps what it made until it tears it down, and tears it down; a verification that passes is true |
| `scripts/actions` (delivery) | the git server's repository, Flux objects and their readiness | `git-source`, `deliver`, `deliver-managed` | reconciliation in dependency order, bounded polls, secrets created after what uses them | the script's order and Flux's never wait for each other; what was published last is what ends up applied |
| `scripts/actions` (managed lifecycle) | the Terraform object, its finalizer, the Neon branch, the pinned host | `pin-managed`, `teardown-managed` | a destroy that may outlast its wait, an object that Flux may apply again, a leak check that may be skipped | an exit of 0 says what is so of the branch; no destroy is cut short unnoticed |
| installers and probes | none of their own | `*-install`, `*-probe` | | |

The parts meet in a line: the loader hands the emitter a validated `Stack`; the emitter's
map becomes the output directory; `git-source` publishes the directory; Flux applies it;
the teardown takes it back.
`PROJECT.json` lists the hazards of each part at the line where they bite, and the
properties that cover them.

## The modules

### The compiler

`Declaration` is the document, `Load` and `Validate`. It has no variables: both are
functions from a document to a set of errors. A name is the sequence of its
hyphen-separated segments: emitters build names by joining with hyphens, and keeping
segments makes that join the concatenation `\o`, so that what it confuses (`a` + `b-c` and
`a-b` + `c`) is confused in the model too. A host is the sequence of its labels, and a URL
without a host or port is `<<>>` or `0`. Strings that are only compared with one threshold
(the RPO target) are kept as the side they fall on.

`Manifests` holds the emit functions, each from a file map to a file map with its calls to
`set` in order. `Set` overwrites, as the code's does. An object keeps its kind, namespace,
name and the part of its spec that decides traffic, ordering or labelling.

`FluxEmitter` is one compile as a state machine. `pc` names the next call and `i` the
index of the loop it is in; the actions follow `runCompile`, `Compile`, `Emit`,
`emitEgress` and `emitNetworkPolicies` call by call. An error empties the file map, as the
code returns the zero `Manifests`. The code's `total > 0` guards are left out: validation
refuses a document without components, so the guard never decides anything.

`Wiring` extends `FluxEmitter` with what enforces the objects: a NetworkPolicy applies to
the pods it selects and allows the union of its rules; an ambient pod's connection to a
ServiceEntry goes through the waypoint, whose AuthorizationPolicy must allow it; istiod
prunes an entry whose host is a Service. None of this is in the repository; the comments
of `networkpolicy.go` and `egress.go` describe what they rely on, and the model takes it
from there. On the other side it has the flows the declaration wires, read off the
document alone. The two are then compared. Nothing keeps two declared destinations from
being one host and port (`Contested`). The compile then has a ServiceEntry for each, and
which of them is in force is istiod's choice: `DeclaredFlowsPass` asks of a flow there
that some entry lets it through, and of every other flow that each of its entries does.

### The output directory

`OutputDir` has any number of `d7s compile` processes and directories. A compile is one
step, since it touches only memory; removal and writing are one step per file operation.
`os.WriteFile` is two steps, truncation and bytes, because two writers of one file meet
there; a file is therefore the set of documents whose bytes it holds. Processes may fail
or be killed at any point. `touched` is a history variable that no action reads.

`CompileAndVerify` extends it with runs of `compile-and-verify.sh`. Each script is a
`step` and two processes of `OutputDir`: the compile into its `$OUT` and the one into
`/tmp/d7s-out-2`, which all runs share (`Scratch`), as they share the declaration and the
message of the probe. The script's two refusal probes have one form, and one is modelled.
`diff` is one step, and so is `test -f`. `faulted` and `crowded` are history variables.
`/tmp/d7s`, the binary that every run builds and executes, is left out: runs from one
checkout build the same program.

### The managed branch

`ManagedBranch` is an abstract specification: a Terraform object, its Ready condition,
whether it may destroy, and what Neon has of the branch (absent, partial, whole). It
promises that an object is made Ready only on a whole branch, that a whole branch shrinks
only if that was permitted, and that an object that was to destroy its branch goes only
after it.

`NeonGraph` is what the Terraform objects do outside the cluster. The emitter's part is
data: the edges of the OpenTofu configuration (`References`, `DependsOn`), what the
outputs are read from, and that `destroyResourcesOnDeletion` is not set. What Neon itself
asks for is stated apart from these edges (`StandsOn`, `MadeThrough`), so that
`NothingDangles` fails when the emitter leaves out a reference. OpenTofu and
tofu-controller, which run it, are not in the repository. The model takes from the code's
comments what they do: what no edge orders goes on in parallel, a failed call stops what
depends on it, a run that failed is repeated, the finalizer destroys only if it was told
to. A call is two steps (`Begin...` and `Done` or `Fail`), because the edges are about
calls that overlap. The OpenTofu state is taken to agree with Neon: a runner killed inside
a call is not modelled. `asked` is a history variable that no action reads. Each component
implements `ManagedBranch` under the refinement mapping `Branch(c)`: `cr`, `ready` and
`destroys` as they are, and `Extent(c)` for its four resources.

`ManagedLifecycle` is built on the actions of `ManagedBranch` and adds what surrounds
the object: runs of `acceptance-managed`, or `teardown-managed` called by hand, one after
the other; the cluster; the Kustomization, which is never suspended, so that Flux applies
a deleted object again; and Neon, which outlives the cluster. Deleting the cluster loses
the OpenTofu state, and a branch is then an `orphan` known by its name only. Every command
may fail, and each has the consequence the script gives it: errexit, `|| true`, a failed
condition that is believed (`Misread`), a status that is noted. `Kill` may come at any
command. Up to its EXIT trap a run is five steps; the teardown is modelled command by
command. `later`, `misread` and `toreDown` are history variables.

### Delivery and runs

`Delivery` takes a compiled tree to a working component: `git-source.sh` removes, copies
and finishes the served repository (three steps, and source-controller may fetch between
any two); the script of either placement is a sequence of step names (`Script`), with
`pin-managed.sh`'s second publish in the managed one; Flux reconciles the Kustomizations
by the `dependsOn` and health checks that the emitter compiles; the operators make the
workload healthy once their secrets exist. The units may be called again on the same
cluster, where conditions are still Ready from before. A poll that gives up and a command
that fails are both `Fault`. The diagnostics printed on failure and the checks of
prerequisites before the first step are left out.

`ClusterRuns` is the concurrent half of the orchestrators: a run is an orchestrator and
the unit that it waits for, which has inherited the lock's descriptor. Killing the
orchestrator leaves the unit running, and the lock held. Clusters are known by name;
`MANAGED_CLUSTER_NAME` and `CLUSTER_NAME` are the run's `name`. `ByHand` is `cluster-up` or
`teardown` called without the lock. Managed runs also have a Neon branch each, all of one
name, of which `teardown-managed` deletes what it finds. `disturbed` and `spoiled` are
history variables.

`MCWiring`, `MCOutputDir`, `MCCompileAndVerify` and `MCNeonGraph` give the instances. The
theorems are in a module for each part: `FluxEmitterProofs` (the compile itself),
`EmittedProofs` (what it has written, and `Wiring`), `OutputDirProofs`,
`CompileAndVerifyProofs`, `NeonGraphProofs`, `LifecycleProofs`, `DeliveryProofs` and
`ClusterRunsProofs`. Operators called `<name>_<bug>` are mutated
forms: for each property there is one that breaks it under the property's own run.

## What the runs check

| run | instance | states | shows |
|---|---|---|---|
| `wiring` | every pair of valid component shapes (self-hosted with and without mtls, rpo to either of two stores, consumers; managed with and without a pinned host and consumers), the first store remote or in the cluster, on its own port or on 443; three components over two stores, which are two hosts, one host on two ports, or one host and port under two names; two managed components pinned to one host; one component with each field valid or invalid; broken documents | 81,427 | a document is refused or its compile ends with every declared guarantee and every object distinct, present and in order; the declared flows pass, and only those; no check that calls itself a defect ever refuses |
| `output` | two processes over two directories, together or apart; three documents of which two share a file and one is refused; fair | 59,184 | an exit 0 without interference leaves the whole tree; a refusal costs nobody's tree; every compile ends |
| `verify` | an unmanaged and a managed verification at once, two compiles each, three files | 40,576 | a pass means a whole `$OUT`, whatever the other does in `/tmp`; a run alone there fails only by a fault of its own |
| `neon` | two managed components with a secret each, two failing calls, fair | 27,691 | the compiled edges are those Neon needs; calls never meet on a branch; Ready means connected; nothing is destroyed unasked; each component implements `ManagedBranch`; both directions end |
| `lifecycle` | three runs, any command failing or killed, fair | 30,613 | an exit 0 is truthful about the branch; no destroy is cut short unnoticed; every run ends |
| `delivery` | both placements, two attempts, fair | 1,665 | the operator before its objects; a pass means delivered; a script fails only by a fault; each attempt gets there with patience; the last publish wins |
| `cluster_runs` | three runs, one of them managed, two cluster names, one piecemeal call, fair | 573,852 | a run keeps its cluster, begins on a clean slate and leaves none; a crashed one wedges nobody |

Two components and two externals are enough for every interaction of the emitters that is
pairwise (two components on one external, one external each, a name of each), and the
third component is there for the walk that deduplicates, whose second and third use of an
external differ from the first. Names have no hyphens in these instances: with hyphens
several properties fail (see "Known limits"). In `neon`, two failures can hit one resource
twice, two resources of one component, or both components, in an apply or in a destroy.
In `lifecycle`, three runs are a run that leaves a branch, one that meets it, and one that
meets what that one left. In `delivery`, the second attempt meets every state in which the
first can have stopped. In `cluster_runs`, three runs are one that was killed, its
surviving unit's successor and a third on the same name or another. In `verify`, the two
scripts meet at every pair of steps, and a third would be one more neighbour of the same kind.

The runs below find their property violated, and each property is a sentence of the
repository.

| run | the code | the sentence |
|---|---|---|
| `alias_zerotrust` | the egress policy of external `s` overwrites the AuthorizationPolicy of a component named `s-egress` | `flux.go:296`, allow rules come only from declared wiring |
| `teardown_skipped` | the `kubectl patch` and the `kubectl delete`s of `teardown-managed.sh:68-80` are unguarded under errexit: one that fails ends the script before the teardown | `teardown-managed.sh:23-25`, the one part that must never be skippable |
| `reapplied_leak` | Flux applies the deleted object again; a branch begun after the leak check outlives a run that exits 0 | `teardown-managed.sh:5-6`, a leaked branch is a harness defect |
| `parallel_verify` | two runs with different cluster names share `/tmp/d7s-out-2` and the probe's files, and one fails the other | `common.sh:244`, a unique name is the remedy for a parallel cluster |
| `parallel_neon` | two runs with different cluster names have branches of one name; the teardown of one deletes the branch the other is probing | `common.sh:244`, the same |

`OnlyDeclaredFlowsPass` excepts, by the definition `Governed`, what the repository
discloses: destinations in the cluster on the control plane's ports or on the port of a
wired remote store, and destinations in the stack's own namespace.

### Fairness

Failures, kills, commands by hand and the deletion of an object are never forced. What is
assumed:

- `output`: weak fairness of each process's own steps, a scheduler that runs what can run.
  `RemoveAll` still ends although another process adds files, because that one has
  finitely many to add.
- `neon`: weak fairness of the controller's steps for each object: it repeats a run at the
  interval and after a failure, and a call to Neon returns. `MaxFailures` bounds the calls
  that fail: with a call that always fails, neither liveness property would hold.
- `cluster_runs`: weak fairness of each run's steps, orchestrator or unit. Every wait of
  the scripts is bounded, so a unit without its orchestrator ends, and `NeverWedged` rests
  on that.
- `lifecycle`: weak fairness of the script only. Flux and tofu-controller may be slow or
  stuck for ever: that its `EveryRunEnds` holds all the same is what the bounds of
  `common.sh:169-194` and `teardown-managed.sh:81` are for.
- `delivery`: weak fairness of the script and of each controller, which reconciles at its
  interval. The polls of this module are patient: giving up is `Fault`, which may happen
  at any time and never has to. `Delivers` therefore says that an attempt gets there if it
  waits long enough, that is, that no cycle of waiting exists, and not that the attempts
  of the code suffice; how long things take is outside the model.

## Known limits the instances stay clear of

These were met while modelling. The instances above avoid them where a property would
otherwise fail, and the theorems that depend on them carry the hypothesis.

- Names joined with hyphens meet: `a` wired to `b-c` and `a-b` wired to `c` share one
  policy file, and one policy is lost (`networkpolicy.go:427`, against `:364`).
- Two externals on one host get two ServiceEntries, although `egress.go:235` promises
  never two competing declarations of a host (`egress.go:274` deduplicates by name). The
  `wiring` run has such documents; of a flow to a host and port that two destinations
  share it shows only that one of the entries lets it through.
- A later delivery to a cluster may pass on conditions that an earlier one left Ready
  (`deliver.sh:60`): `PassedMeansDelivered` is about the first delivery, and `Converges`
  says that Flux applies the last publish in the end, whatever a poll accepted.
- Two compiles into one directory may mix their trees and both exit 0 (`main.go:101`):
  `CompleteTree` leaves out a process that another disturbed, and only
  `EveryCompileEnds` speaks of both.
- A stack named `cnpg-operator` gets a Kustomization that depends on itself
  (`flux.go:600`), although `golden-rules.md:597` makes cycles "a compile-time hard error";
  this is the hypothesis of `LayersAreOrdered`. A stack named `cnpg-system` declares the operator's namespace a second
  time, and a component named `tf-runner` the runner's control-plane policy
  (`networkpolicy.go`). None of these names is refused.
- The mesh knows a caller by its service account. A pod that runs under a component's
  name, or under `tf-runner`, has that component's, or the runner's, way out.
- Consumers on a managed component do reach the emitter, although `flux.go:82` says they
  never do; `egress.go` relies on them.
- A port-only rule for a remote store also opens an in-cluster store on that port
  (`networkpolicy.go:399`; the comment at `:384` counts on the mesh, which does not see
  in-cluster hosts). The floor also cannot tell two stores of one namespace and port
  apart, and a store in the cluster on port 15008 is open to every pod.
- Two managed components that declare one credentials secret are both Ready with one
  component's credentials (`terraform.go:413`): the hypothesis of `ReadyConnects`.
- `domain/secret.go:7` wants secrets to exist beforehand; `deliver.sh:63-78` creates them
  after Flux has applied what names them, because their namespace is part of it.
  `FailsOnlyByFault` and `Delivers` show that this order works.

## What is proved

For every set of documents, of processes, of directories and of files:

- `FluxEmitterProofs!EmitterTypeCorrect` and `EmitterDefectsUnreachable`. The inductive
  invariant is `TypeOK`, `NoDefectReached`, and `Valid`: past validation the document has no
  error. `TypeOK` is needed because it says that each side of the partition holds
  components of that placement. The lemmas `ValidComponents`, `ValidReferences` and
  `ValidExternals` say what an empty `Validate` gives the emitter; `Resolved` turns that
  into successful lookups; the kinds of errors of `Load` and `Validate` are shown to be none
  that call themselves a defect.
- `OutputDirProofs!TypeCorrect`, and `TreeIsComplete` (`CompleteTree`). The invariant
  `Progress` says how far an undisturbed process has got: while it writes, the directory
  holds exactly the files it no longer has to write, each with its document only, the open
  one empty and its own. `OwnProgress` shows its own steps keep that, `OthersProgress` that
  another's step keeps it or marks it disturbed.
- `OutputDirProofs!RefusalIsHarmless` (`RefusalKeepsOutput`), an action property, from the
  invariant that only a compiled document gets a process as far as its directory.

For any number of components, secrets and failing calls:

- `NeonGraphProofs!NeonTypeCorrect`, `GraphHolds` (`NothingDangles`), `CallsNeverMeet`
  (`OneCallPerBranch`), `NothingIsLeft` (`DestroyIsComplete`), `NothingDestroyedUnasked`
  (`RetainedByDefault`) and `ReadyConnects` (`ReadyMeansConnected`). The invariant `IInv`
  says of each component that its resources stand in the order of the graph, that a Ready
  one is whole, that a destroy was asked for, and that a gone one is idle. `OrderKept`
  says that the walk respects the graph, whatever it is; `EdgesCoverNeon`,
  `OrderMeansOneCall`, `AppliedIsWhole` and `DestroyedIsEmpty` are where the edges of this
  one are used. `ReadyConnects` has the hypothesis that no two
  components declare one secret.
- `NeonGraphProofs!GraphImplementsBranch` (`ImplementsBranch`), the refinement. It needs
  `IInv` and that OpenTofu runs only for an object that exists and destroys only for one
  that is deleted (`RInv`). `CallMoves` maps a call to `Grow` or `Shrink`; the end of an
  apply is `Connect` because of `AppliedIsWhole`, the end of a destroy `Vanish` because of
  `DestroyedIsEmpty`; a step of another component is a stutter.

For any number of runs and cluster names:

- `ClusterRunsProofs!RunsTypeCorrect`, `ClusterIsOwn` (`OwnCluster`), `SlateIsClean`
  (`CleanSlate`) and `RunsCleanUp` (`CleansUp`). The invariant that carries them is
  `LockHeld`, that a run between its lock and its end holds the lock of its name, a dead
  orchestrator's unit included; with `OwnName`, that a cluster bears the name of the run
  that made it, two runs never touch one cluster.
- `LifecycleProofs!LifecycleTypeCorrect`, `ExitIsTruthful` (`CheckTruthful`) and
  `DestroyHasItsTime` (`DestroyNotCutShort`). `CheckTruthful` is not inductive: `Checked`
  carries what the leak check saw to the end of the script, over whatever Flux and
  tofu-controller do meanwhile, and `Waited` does the same for what the wait saw of the
  object. `Up` is there for the type: without a cluster there is no Kustomization.

For any number of deliveries, of both placements, on one cluster:

- `DeliveryProofs!DeliveryTypeCorrect`, `OperatorServesFirst` (`OperatorFirst`),
  `OnlyFaultsFail` (`FailsOnlyByFault`) and `FirstDeliveryDelivers`
  (`PassedMeansDelivered`). The invariant has six parts besides the properties. `Lineage`
  says that a revision travels in one direction, from the publish to the git server, the
  source and the layers; `ReadyMeans` and `Established` carry what a wait of the script has
  seen to the steps that rely on it; `Budget` bounds the revisions; `FirstAttempt` says, for
  each step of a first delivery, what is published, served, pinned and applied by then. The
  last is needed because a Ready condition alone does not say for which revision:
  `PassedMeansDelivered` is about a first delivery for that reason.

For any number of verifications over any documents:

- `CompileAndVerifyProofs!VerdictIsSound` (`VerdictSound`) and `LeftoversAreHarmless`
  (`LeftoversHarmless`). The compiles run inside the script, so the lemmas of
  `OutputDirProofs` (`OwnProgress`, `OthersProgress`) are used again: `OwnTree` says that
  nobody disturbs the first compile, `SecondTree` that nobody disturbs the second while the
  script is alone. `Seen`, that two scripts which are in `/tmp` at once are both marked
  `crowded`, makes the history variable mean what the property needs.

For every set of documents, about what a finished compile has written
(`EmittedProofs`). The inductive invariant `EInv` adds to that of `FluxEmitterProofs`:
each file has an `Origin`, an emit function and the condition under which it is called
(`Traced`); after each call its paths are there (`...Written`); every component is on one
side, once (`PartitionInv`); a notice for each conditional guarantee that the loop has
passed (`NoticesInv`). The first gives "only" and the second "all" in the properties, and
neither is inductive without the partition. The properties follow from `EInv` at the end of
the compile:

| theorem | property | hypothesis |
|---|---|---|
| `ConditionalsAreLabelled` | `ConditionalNeverSilent` | none |
| `MeshIsComplete` | `MeshComplete` | none |
| `LayersAreOrdered` | `LayersOrdered` | the stack is not called `cnpg-operator` |
| `IdentitiesAreUnique` | `UniqueIdentities` | `NamesFree` |
| `NothingOverwritten` | `NoOverwrite` | `NamesApart` |
| `GuaranteesShip` | `GuaranteesHonoured` | `NamesApart` |
| `ZeroTrustEnforced` | `ZeroTrust` | `NamesApart` |
| `DeclaredFlowsGetThrough` | `DeclaredFlowsPass` | `NamesApart` |
| `NothingElseGetsThrough` | `OnlyDeclaredFlowsPass` | `NamesApart`, `AccountsApart`, `StoresApart` |

Each hypothesis is a limit of the code, not of the proof: a document outside it is accepted
by `Validate`.

- `NamesFree`: the stack is called neither `cnpg-operator` nor `cnpg-system`, and no
  component `tf-runner`.
- `NamesApart`: no component with mtls is called like the policy of an edge
  (`alias_zerotrust` shows what happens otherwise), no external like an edge that the
  emitter names itself, and no two pairs of a component and an external join to one name.
  `OneSegmentApart` proves it of every document whose names have no hyphen.
- `AccountsApart`: two kinds of pod of the namespace never share a service account.
- `StoresApart`: the floor can tell the wired stores in the cluster apart by namespace and
  port, and none is on a port that it opens to everybody.

Every document of the `wiring` run that compiles satisfies all four, so that TLC checks the
same properties there without them.

The key lemmas: `OriginOnce` (with `NamesApart`, a path is written with one object only), from
which `WrittenIs` (what an emit function wrote is what is there at the end); `EdgesApart`
(edges of one name are one edge); `EdgePolicyOnly` and `OwnPolicyOnly` (the policies about an
entry, or about a component, are the one compiled for it); `FirstUseExists` (deduplication
loses no store); `FloorRules` (what the union of the policies that select a pod lets out).
`DeclaredFlowsGetThrough` then follows a flow to an edge that names its pod, or to its own
policy of the floor, and `UncontestedEdge` says that no other edge leads there unless the
declaration sends two destinations to one host and port; `NothingElseGetsThrough` goes the other way, from an open connection to
the edge or rule that opens it, and from there to the declaration.

The assumptions are those on the constants, each with the module that declares it:
documents are of the type `Document`, `Files` maps documents to sets of files, `NoFile` is
no file, `Credentials` gives each component a secret, `Nobody` and `Hand` are no
component or run, `Managed` is a set of runs, each script has its own `$OUT`, and the
bounds are numbers.

Every invariant and every action property of the passing runs is stated by one of these
theorems. Model-checked only is liveness (`EveryCompileEnds`, `EveryRunEnds`, `BecomesReady`,
`DeletionEnds`, `NeverWedged`, `Delivers`, `Converges`), which is beyond the prover under
fairness.

## What is not modelled

- Labels, YAML formatting and the wording of errors: no property is about them.
- The installers (`flux-install`, `istio-install`, `minio-install`, `tofu-install`) and the
  probes. They are sequences of `kubectl`, `helm` and `curl` calls without state of their
  own; what they leave behind is the environment of `Delivery`, and what a probe asserts of
  traffic is what `Wiring` states for every pod. The two units that create secrets are
  steps of `Delivery`.
- `guard.sh`, which reads the field managers of the delivered objects, and `check.sh`,
  which runs the `go` tools.
- A tofu runner killed inside a call to Neon (its state would not know a branch that was
  made), and the time anything takes.

## What comes next

Weaker hypotheses: `NamesApart` and `StoresApart` speak of every declared name or wired
store, where some pairs could not meet. The progress that the liveness properties rest on (for
each step of a script or a run, what has to be the case for the next one to be enabled) as
invariants of their own.
