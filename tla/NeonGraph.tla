----------------------------- MODULE NeonGraph ------------------------------
(***************************************************************************)
(* What the compiled Terraform objects do to Neon (flux/terraform.go).     *)
(* The emitter fixes the graph of resources of a managed component and the *)
(* fields of its Terraform object; tofu-controller and OpenTofu, which are *)
(* not in the repository, run it: whatever the edges of the graph do not   *)
(* order happens in parallel, and any call to Neon may fail.  A run that   *)
(* failed is repeated, with the state that it reached.  An operator        *)
(* <name>_<bug> is <name> with a bug that a property has to notice.        *)
(***************************************************************************)
EXTENDS Naturals

CONSTANTS
    Component,      \* the managed components, of one or several stacks
    Secret,         \* Kubernetes Secrets
    Credentials,    \* credentials.secretRef.name of each component
    Nobody,         \* a secret that has not been written
    MaxFailures     \* bound: calls to Neon that fail

ASSUME CredentialsAssumption == Credentials \in [Component -> Secret]
ASSUME NobodyAssumption == Nobody \notin Component
ASSUME MaxFailuresAssumption == MaxFailures \in Nat

VARIABLES
    cr,         \* the Terraform object of each component
    destroys,   \* its destroyResourcesOnDeletion
    ready,      \* its Ready condition
    run,        \* what OpenTofu is doing for it
    neon,       \* its resources, as Neon and the OpenTofu state have them
    failed,     \* resources whose call failed in this run
    secret,     \* whose outputs each secret holds
    failures,   \* calls that have failed so far
    asked       \* history: components an operator has asked to destroy

vars == <<cr, destroys, ready, run, neon, failed, secret, failures, asked>>
object == <<cr, destroys, ready>>
world == <<secret, failures, asked>>

-----------------------------------------------------------------------------
(* The configuration that neonConfigTemplate renders *)

Resource == {"branch", "endpoint", "role", "database"}

\* Edges OpenTofu infers from references to another resource's attributes.
References_literalOwner ==
    [branch   |-> {},
     endpoint |-> {"branch"},
     role     |-> {"branch"},
     database |-> {"branch"}]
References ==
    [branch   |-> {},
     endpoint |-> {"branch"},
     role     |-> {"branch"},
     database |-> {"branch", "role"}]

\* Edges that are declared because no attribute implies them.
DependsOn_none == [r \in Resource |-> {}]
DependsOn ==
    [branch |-> {}, endpoint |-> {}, role |-> {"endpoint"}, database |-> {}]

Needs(r) == References[r] \cup DependsOn[r]
Dependents(r) == {d \in Resource : r \in Needs(d)}

\* What Neon itself asks for, whatever the configuration says: everything lives on a
\* branch, a database has an owner, and the password of a role is made through a
\* read-write endpoint of the branch.
StandsOn ==
    [branch   |-> {},
     endpoint |-> {"branch"},
     role     |-> {"branch"},
     database |-> {"branch", "role"}]
MadeThrough ==
    [branch |-> {}, endpoint |-> {}, role |-> {"endpoint"}, database |-> {}]

\* What each output that lands in the credentials secret is read from.
Outputs ==
    [host     |-> {"endpoint"},
     port     |-> {},
     database |-> {"database"},
     username |-> {"role"},
     password |-> {"role"}]

\* The emitter never sets destroyResourcesOnDeletion.
DestroyResourcesOnDeletion_set == TRUE
DestroyResourcesOnDeletion == FALSE

-----------------------------------------------------------------------------
Init ==
    /\ cr = [c \in Component |-> "none"]
    /\ destroys = [c \in Component |-> DestroyResourcesOnDeletion]
    /\ ready = [c \in Component |-> FALSE]
    /\ run = [c \in Component |-> "idle"]
    /\ neon = [c \in Component |-> [r \in Resource |-> "absent"]]
    /\ failed = [c \in Component |-> {}]
    /\ secret = [s \in Secret |-> Nobody]
    /\ failures = 0
    /\ asked = {}

InFlight(c, r) == neon[c][r] \in {"creating", "destroying"}
Become(c, r, from, to) ==
    /\ neon[c][r] = from
    /\ neon' = [neon EXCEPT ![c][r] = to]

(***************************************************************************)
(* The object: Flux applies it, an operator may ask for destruction, and   *)
(* somebody deletes it.                                                    *)
(***************************************************************************)
Apply(c) ==
    /\ cr[c] = "none"
    /\ cr' = [cr EXCEPT ![c] = "live"]
    /\ UNCHANGED <<destroys, ready, run, neon, failed, world>>

EnableDestroy(c) ==
    /\ cr[c] = "live"
    /\ destroys' = [destroys EXCEPT ![c] = TRUE]
    /\ asked' = asked \cup {c}
    /\ UNCHANGED <<cr, ready, run, neon, failed, secret, failures>>

Delete(c) ==
    /\ cr[c] = "live"
    /\ cr' = [cr EXCEPT ![c] = "deleting"]
    /\ UNCHANGED <<destroys, ready, run, neon, failed, world>>

(***************************************************************************)
(* The controller: one run at a time for an object, at every interval and  *)
(* after every failure.                                                    *)
(***************************************************************************)
Start(c, what) ==
    /\ run[c] = "idle"
    /\ run' = [run EXCEPT ![c] = what]
    /\ failed' = [failed EXCEPT ![c] = {}]
    /\ UNCHANGED <<cr, destroys, neon, world>>

StartApply_noRetry(c) ==
    /\ cr[c] = "live"
    /\ failed[c] = {}
    /\ Start(c, "apply")
    /\ UNCHANGED ready
StartApply(c) ==
    /\ cr[c] = "live"
    /\ Start(c, "apply")
    /\ UNCHANGED ready

StartDestroy_noRetry(c) ==
    /\ cr[c] = "deleting" /\ destroys[c]
    /\ failed[c] = {}
    /\ Start(c, "destroy")
    /\ ready' = [ready EXCEPT ![c] = FALSE]
StartDestroy(c) ==
    /\ cr[c] = "deleting" /\ destroys[c]
    /\ Start(c, "destroy")
    /\ ready' = [ready EXCEPT ![c] = FALSE]

\* Without destroyResourcesOnDeletion the finalizer leaves Neon alone.
Retain(c) ==
    /\ cr[c] = "deleting" /\ ~destroys[c]
    /\ run[c] = "idle"
    /\ cr' = [cr EXCEPT ![c] = "gone"]
    /\ ready' = [ready EXCEPT ![c] = FALSE]
    /\ UNCHANGED <<destroys, run, neon, failed, world>>

(***************************************************************************)
(* OpenTofu walks the graph: forwards to create, backwards to destroy.  A  *)
(* failure stops what depends on it and nothing else.                      *)
(***************************************************************************)
CanCreate(c, r) ==
    /\ run[c] = "apply"
    /\ neon[c][r] = "absent"
    /\ r \notin failed[c]
    /\ \A n \in Needs(r) : neon[c][n] = "present"

CanDestroy(c, r) ==
    /\ run[c] = "destroy"
    /\ neon[c][r] = "present"
    /\ r \notin failed[c]
    /\ \A d \in Dependents(r) : neon[c][d] = "absent"

BeginCreate(c, r) ==
    /\ CanCreate(c, r)
    /\ Become(c, r, "absent", "creating")
    /\ UNCHANGED <<object, run, failed, world>>

BeginDestroy(c, r) ==
    /\ CanDestroy(c, r)
    /\ Become(c, r, "present", "destroying")
    /\ UNCHANGED <<object, run, failed, world>>

Done(c, r) ==
    /\ \/ Become(c, r, "creating", "present")
       \/ Become(c, r, "destroying", "absent")
    /\ UNCHANGED <<object, run, failed, world>>

Fail(c, r) ==
    /\ failures < MaxFailures
    /\ \/ Become(c, r, "creating", "absent")
       \/ Become(c, r, "destroying", "present")
    /\ failed' = [failed EXCEPT ![c] = @ \cup {r}]
    /\ failures' = failures + 1
    /\ UNCHANGED <<object, run, secret, asked>>

\* Nothing is in flight and nothing more can begin.
Settled_early(c) == \A r \in Resource : ~CanCreate(c, r) /\ ~CanDestroy(c, r)
Settled(c) ==
    \A r \in Resource : ~InFlight(c, r) /\ ~CanCreate(c, r) /\ ~CanDestroy(c, r)

End(c) ==
    /\ Settled(c)
    /\ run' = [run EXCEPT ![c] = "idle"]
    /\ UNCHANGED <<destroys, neon, failed, failures, asked>>

\* A successful apply writes the outputs to the declared secret.
EndApply_partial(c) ==
    /\ run[c] = "apply"
    /\ End(c)
    /\ ready' = [ready EXCEPT ![c] = TRUE]
    /\ secret' = [secret EXCEPT ![Credentials[c]] = c]
    /\ UNCHANGED cr
EndApply(c) ==
    /\ run[c] = "apply" /\ failed[c] = {}
    /\ End(c)
    /\ ready' = [ready EXCEPT ![c] = TRUE]
    /\ secret' = [secret EXCEPT ![Credentials[c]] = c]
    /\ UNCHANGED cr

EndFailed(c) ==
    /\ run[c] # "idle" /\ failed[c] # {}
    /\ End(c)
    /\ ready' = [ready EXCEPT ![c] = FALSE]
    /\ UNCHANGED <<cr, secret>>

\* The finalizer goes when the destroy has succeeded.
EndDestroy_partial(c) ==
    /\ run[c] = "destroy"
    /\ End(c)
    /\ cr' = [cr EXCEPT ![c] = "gone"]
    /\ UNCHANGED <<ready, secret>>
EndDestroy(c) ==
    /\ run[c] = "destroy" /\ failed[c] = {}
    /\ End(c)
    /\ cr' = [cr EXCEPT ![c] = "gone"]
    /\ UNCHANGED <<ready, secret>>

Operator(c) == Apply(c) \/ EnableDestroy(c) \/ Delete(c)
Controller(c) ==
    \/ StartApply(c) \/ StartDestroy(c) \/ Retain(c)
    \/ EndApply(c) \/ EndFailed(c) \/ EndDestroy(c)
    \/ \E r \in Resource : BeginCreate(c, r) \/ BeginDestroy(c, r) \/ Done(c, r)

\* What has been deleted stays so: the end of a behaviour, not a deadlock.
AllGone == (\A c \in Component : cr[c] = "gone") /\ UNCHANGED vars

Next ==
    \/ \E c \in Component : \/ Operator(c)
                            \/ Controller(c)
                            \/ \E r \in Resource : Fail(c, r)
    \/ AllGone

Spec == Init /\ [][Next]_vars

\* The controller and its runner pods get to run; nobody has to delete anything.
FairSpec == Spec /\ \A c \in Component : WF_vars(Controller(c))

-----------------------------------------------------------------------------
(* Properties *)

\* Each variable has its type, and a call is only in flight in a run of its kind
\* (a run that ended with a call in flight would meet it in the next).
TypeOK ==
    /\ cr \in [Component -> {"none", "live", "deleting", "gone"}]
    /\ destroys \in [Component -> BOOLEAN]
    /\ ready \in [Component -> BOOLEAN]
    /\ run \in [Component -> {"idle", "apply", "destroy"}]
    /\ neon \in [Component -> [Resource -> {"absent", "creating", "present", "destroying"}]]
    /\ failed \in [Component -> SUBSET Resource]
    /\ secret \in [Secret -> Component \cup {Nobody}]
    /\ failures \in 0..MaxFailures
    /\ asked \subseteq Component
    /\ \A c \in Component, r \in Resource :
         /\ neon[c][r] = "creating" => run[c] = "apply"
         /\ neon[c][r] = "destroying" => run[c] = "destroy"

\* The edges that are compiled are those Neon needs: whatever fails, a resource exists or
\* has a call in flight only while what Neon has it stand on is there, and is made only
\* while what Neon makes it through is ("no read-write endpoint for branch",
\* terraform.go:231-267).
NothingDangles ==
    \A c \in Component, r \in Resource :
      /\ neon[c][r] # "absent" => \A n \in StandsOn[r] : neon[c][n] = "present"
      /\ neon[c][r] = "creating" => \A n \in MadeThrough[r] : neon[c][n] = "present"

\* Two calls never meet on one branch, in particular not those for the role and for
\* the endpoint, which broke both creation and destruction (terraform.go:243-253).
OneCallPerBranch ==
    \A c \in Component, r, q \in Resource : InFlight(c, r) /\ InFlight(c, q) => r = q

\* When the Terraform object of a component is Ready, what its outputs are read from
\* exists, and the secret it declares holds these outputs (terraform.go:352-359,
\* deliver-managed.sh:46).
ReadyMeansConnected ==
    \A c \in Component : ready[c] =>
      /\ \A o \in DOMAIN Outputs : \A r \in Outputs[o] : neon[c][r] = "present"
      /\ secret[Credentials[c]] = c

\* An object that was to take its branch with it is gone only when the branch is
\* (teardown-managed.sh:75-83).
DestroyIsComplete ==
    \A c \in Component : cr[c] = "gone" /\ destroys[c] =>
      \A r \in Resource : neon[c][r] = "absent"

\* Deleting an object destroys nothing unless an operator has asked for it
\* (terraform.go:115-119, retain by default).
RetainedByDefault ==
    [][\A c \in Component :
         (\E r \in Resource : neon[c][r] = "present" /\ neon'[c][r] # "present") =>
           c \in asked]_vars

\* What OpenTofu has made for a component, as ManagedBranch sees it.
Extent(c) ==
    CASE \A r \in Resource : neon[c][r] = "absent" -> "absent"
      [] \A r \in Resource : neon[c][r] = "present" -> "whole"
      [] OTHER -> "partial"
Branch(c) ==
    INSTANCE ManagedBranch WITH
        object <- cr[c], connected <- ready[c], permitted <- destroys[c], branch <- Extent(c)

\* Resources, runs, retries and failing calls come to no more than the promise of
\* ManagedBranch, for each component whatever the others do: Ready only on a whole
\* branch, no shrinking that was not permitted, no object gone before a branch it had
\* to destroy (terraform.go:115-119, teardown-managed.sh:1-17).
ImplementsBranch ==
    /\ \A c \in Component : Branch(c)!Init
    /\ [][\A c \in Component : [Branch(c)!Next]_(Branch(c)!vars)]_vars

\* An object that is left alone becomes Ready, whichever calls failed on the way.
BecomesReady ==
    \A c \in Component : cr[c] = "live" ~> ready[c] \/ cr[c] # "live"

\* An object that is deleted goes, whichever calls failed on the way.
DeletionEnds ==
    \A c \in Component : cr[c] = "deleting" ~> cr[c] = "gone"
=============================================================================
