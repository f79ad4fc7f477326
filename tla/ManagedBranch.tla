---------------------------- MODULE ManagedBranch ----------------------------
(***************************************************************************)
(* What the Terraform object of one managed component promises about the   *)
(* branch behind it, without resources, runs or failing calls: NeonGraph   *)
(* implements it, ManagedLifecycle is built on it.  The object is Ready    *)
(* (`connected') only on a whole branch; a whole branch shrinks only if an *)
(* operator has permitted it; an object that may destroy its branch goes   *)
(* only after the branch.                                                  *)
(***************************************************************************)

VARIABLES
    object,     \* the Terraform object
    connected,  \* its Ready condition
    permitted,  \* its destroyResourcesOnDeletion
    branch      \* what Neon has of the branch, its endpoint, role and database

vars == <<object, connected, permitted, branch>>

Objects == {"none", "live", "deleting", "gone"}
Branches == {"absent", "partial", "whole"}

Init ==
    /\ object = "none"
    /\ connected = FALSE
    /\ permitted = FALSE
    /\ branch = "absent"

Apply ==
    /\ object = "none"
    /\ object' = "live"
    /\ UNCHANGED <<connected, permitted, branch>>

Permit ==
    /\ object = "live"
    /\ permitted' = TRUE
    /\ UNCHANGED <<object, connected, branch>>

Delete ==
    /\ object = "live"
    /\ object' = "deleting"
    /\ UNCHANGED <<connected, permitted, branch>>

\* An apply makes the branch, and a call that fails may take back what it began;
\* one that was under way when the object was deleted is finished.
Grow ==
    /\ object \in {"live", "deleting"}
    /\ branch # "whole"
    /\ branch' \in Branches
    /\ UNCHANGED <<object, connected, permitted>>

Shrink ==
    /\ object = "deleting" /\ permitted /\ ~connected
    /\ branch # "absent"
    /\ branch' \in Branches
    /\ UNCHANGED <<object, connected, permitted>>

Connect ==
    /\ object \in {"live", "deleting"}
    /\ branch = "whole"
    /\ connected' = TRUE
    /\ UNCHANGED <<object, permitted, branch>>

Disconnect ==
    /\ connected' = FALSE
    /\ UNCHANGED <<object, permitted, branch>>

\* The finalizer is gone, and the object with it.
Vanish ==
    /\ object = "deleting"
    /\ permitted => branch = "absent"
    /\ object' = "gone"
    /\ connected' = FALSE
    /\ UNCHANGED <<permitted, branch>>

Next == Apply \/ Permit \/ Delete \/ Grow \/ Shrink \/ Connect \/ Disconnect \/ Vanish

Spec == Init /\ [][Next]_vars
=============================================================================
