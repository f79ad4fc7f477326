-------------------------- MODULE NeonGraphProofs ---------------------------
(***************************************************************************)
(* What NeonGraph promises, for every set of components and secrets and    *)
(* any number of failed calls.  The inductive invariant adds to TypeOK,    *)
(* for each component, that its resources stand in the order of the graph  *)
(* and what its Ready condition, its run and its object say about them.    *)
(***************************************************************************)
EXTENDS NeonGraph, TLAPS

InOrder(c) ==
    \A r \in Resource : neon[c][r] # "absent" => \A n \in Needs(r) : neon[c][n] = "present"

AllAre(c, s) == \A r \in Resource : neon[c][r] = s

\* While an object is Ready its component is whole, and it is not being destroyed.
ReadyIsWhole(c) == ready[c] => run[c] # "destroy" /\ AllAre(c, "present")

\* A run only destroys for an object that wants it, because somebody asked.
DestroyIsAsked(c) ==
    /\ run[c] = "destroy" => destroys[c]
    /\ destroys[c] => c \in asked

\* An object that is gone is idle, and has taken its resources if it was to.
GoneIsDone(c) ==
    cr[c] = "gone" => run[c] = "idle" /\ (destroys[c] => AllAre(c, "absent"))

Sound(c) == InOrder(c) /\ ReadyIsWhole(c) /\ DestroyIsAsked(c) /\ GoneIsDone(c)

IInv == TypeOK /\ \A c \in Component : Sound(c)

-----------------------------------------------------------------------------
(* The graph *)

\* The edges of neonConfigTemplate, those of depends_on included.
LEMMA Edges ==
    /\ Needs("branch") = {}
    /\ Needs("endpoint") = {"branch"}
    /\ Needs("role") = {"branch", "endpoint"}
    /\ Needs("database") = {"branch", "role"}
  BY DEF Needs, References, DependsOn, Resource

\* Need is need of a resource.
LEMMA NeedsType == ASSUME NEW r \in Resource PROVE Needs(r) \subseteq Resource
  BY Edges DEF Resource

\* Resources in order have at most one call in flight: the edges order all of them.
LEMMA OrderMeansOneCall ==
  ASSUME NEW c \in Component, InOrder(c), NEW r \in Resource, NEW q \in Resource,
         InFlight(c, r), InFlight(c, q)
  PROVE  r = q
<1>1. /\ neon[c]["endpoint"] # "absent" => neon[c]["branch"] = "present"
      /\ neon[c]["role"] # "absent" =>
           neon[c]["branch"] = "present" /\ neon[c]["endpoint"] = "present"
      /\ neon[c]["database"] # "absent" =>
           neon[c]["branch"] = "present" /\ neon[c]["role"] = "present"
  BY Edges DEF InOrder, Resource
<1>2. QED
  BY <1>1 DEF InFlight, Resource

\* What a walk forwards leaves when nothing failed and nothing more can begin.
LEMMA AppliedIsWhole ==
  ASSUME TypeOK, NEW c \in Component, run[c] = "apply", failed[c] = {}, Settled(c)
  PROVE  AllAre(c, "present")
<1>1. ASSUME NEW r \in Resource, \A n \in Needs(r) : neon[c][n] = "present"
      PROVE  neon[c][r] = "present"
  <2>1. neon[c][r] \in {"absent", "creating", "present", "destroying"}
    BY DEF TypeOK
  <2>2. neon[c][r] # "absent"
    BY <1>1 DEF Settled, CanCreate
  <2>3. QED
    BY <2>1, <2>2 DEF Settled, InFlight
<1>2. neon[c]["branch"] = "present"
  BY <1>1, Edges DEF Resource
<1>3. neon[c]["endpoint"] = "present"
  BY <1>1, <1>2, Edges DEF Resource
<1>4. neon[c]["role"] = "present"
  BY <1>1, <1>2, <1>3, Edges DEF Resource
<1>5. neon[c]["database"] = "present"
  BY <1>1, <1>2, <1>4, Edges DEF Resource
<1>6. QED
  BY <1>2, <1>3, <1>4, <1>5 DEF AllAre, Resource

\* What a walk backwards leaves when nothing failed and nothing more can begin.
LEMMA DestroyedIsEmpty ==
  ASSUME TypeOK, NEW c \in Component, run[c] = "destroy", failed[c] = {}, Settled(c)
  PROVE  AllAre(c, "absent")
<1>1. ASSUME NEW r \in Resource, \A d \in Dependents(r) : neon[c][d] = "absent"
      PROVE  neon[c][r] = "absent"
  <2>1. neon[c][r] \in {"absent", "creating", "present", "destroying"}
    BY DEF TypeOK
  <2>2. neon[c][r] # "present"
    BY <1>1 DEF Settled, CanDestroy
  <2>3. QED
    BY <2>1, <2>2 DEF Settled, InFlight
<1>2. /\ Dependents("database") = {}
      /\ Dependents("role") = {"database"}
      /\ Dependents("endpoint") = {"role"}
      /\ Dependents("branch") = {"endpoint", "role", "database"}
  BY Edges DEF Dependents, Resource
<1>3. neon[c]["database"] = "absent"
  BY <1>1, <1>2 DEF Resource
<1>4. neon[c]["role"] = "absent"
  BY <1>1, <1>2, <1>3 DEF Resource
<1>5. neon[c]["endpoint"] = "absent"
  BY <1>1, <1>2, <1>4 DEF Resource
<1>6. neon[c]["branch"] = "absent"
  BY <1>1, <1>2, <1>3, <1>4, <1>5 DEF Resource
<1>7. QED
  BY <1>3, <1>4, <1>5, <1>6 DEF AllAre, Resource

-----------------------------------------------------------------------------
(* Steps *)

\* A call changes its own resource and no other.
LEMMA BecomeValues ==
  ASSUME TypeOK, NEW c \in Component, NEW r \in Resource, NEW from,
         NEW to \in {"absent", "creating", "present", "destroying"}, Become(c, r, from, to)
  PROVE  /\ neon' \in [Component -> [Resource -> {"absent", "creating", "present", "destroying"}]]
         /\ neon[c][r] = from
         /\ neon'[c][r] = to
         /\ \A q \in Resource \ {r} : neon'[c][q] = neon[c][q]
         /\ \A b \in Component \ {c} : neon'[b] = neon[b]
  BY DEF Become, TypeOK

\* A call keeps the order if nothing stands on what it takes away, and if what it
\* adds has all it needs.
LEMMA OrderKept ==
  ASSUME TypeOK, NEW c \in Component, NEW r \in Resource, NEW from,
         NEW to \in {"absent", "creating", "present", "destroying"}, Become(c, r, from, to),
         InOrder(c),
         from # "present" \/ \A d \in Dependents(r) : neon[c][d] = "absent",
         to = "absent" \/ \A n \in Needs(r) : neon[c][n] = "present"
  PROVE  InOrder(c)'
<1> SUFFICES ASSUME NEW q \in Resource, neon'[c][q] # "absent", NEW n \in Needs(q)
             PROVE  neon'[c][n] = "present"
  BY DEF InOrder, Needs
<1>1. n \in Resource
  BY NeedsType
<1>2. neon[c][n] = "present"
  <2>1. CASE q = r
    BY <2>1, BecomeValues
  <2>2. CASE q # r
    BY <2>2, BecomeValues DEF InOrder
  <2>3. QED
    BY <2>1, <2>2
<1>3. n # r
  <2>1. CASE q = r
    BY <2>1, Edges DEF Resource
  <2>2. ASSUME q # r, n = r
        PROVE  FALSE
    <3>1. neon[c][q] # "absent"
      BY <2>2, BecomeValues
    <3>2. q \in Dependents(r)
      BY <2>2 DEF Dependents
    <3>3. neon[c][r] = from
      BY BecomeValues
    <3>4. QED
      BY <1>2, <2>2, <3>1, <3>2, <3>3
  <2>3. QED
    BY <2>1, <2>2
<1>4. QED
  BY <1>1, <1>2, <1>3, BecomeValues

\* A step of one component leaves what is known of another.
LEMMA OthersKept ==
  ASSUME NEW b \in Component, Sound(b),
         neon'[b] = neon[b], run'[b] = run[b], cr'[b] = cr[b], ready'[b] = ready[b],
         destroys'[b] = destroys[b], b \in asked => b \in asked'
  PROVE  Sound(b)'
<1>1. InOrder(b)'
  BY DEF Sound, InOrder, Needs
<1>2. ReadyIsWhole(b)'
  BY DEF Sound, ReadyIsWhole, AllAre
<1>3. DestroyIsAsked(b)'
  BY DEF Sound, DestroyIsAsked
<1>4. GoneIsDone(b)'
  BY DEF Sound, GoneIsDone, AllAre
<1>5. QED
  BY <1>1, <1>2, <1>3, <1>4 DEF Sound

\* Steps that leave the resources alone keep their order.
LEMMA SameOrder ==
  ASSUME NEW c \in Component, InOrder(c), neon' = neon
  PROVE  InOrder(c)'
  BY DEF InOrder, Needs

LEMMA SoundInit == Init => IInv
<1> SUFFICES ASSUME Init PROVE IInv
  OBVIOUS
<1>1. TypeOK
  BY NobodyAssumption, MaxFailuresAssumption, CredentialsAssumption
  DEF Init, TypeOK, DestroyResourcesOnDeletion
<1>2. ASSUME NEW c \in Component PROVE Sound(c)
  BY DEF Init, Sound, InOrder, ReadyIsWhole, DestroyIsAsked, GoneIsDone, AllAre,
         DestroyResourcesOnDeletion
<1>3. QED
  BY <1>1, <1>2 DEF IInv

\* The calls of OpenTofu, as what they do to the resources.
LEMMA TypeOfCall ==
  ASSUME TypeOK, NEW c \in Component, NEW r \in Resource, NEW from,
         NEW to \in {"absent", "creating", "present", "destroying"}, Become(c, r, from, to),
         to = "creating" => run[c] = "apply",
         to = "destroying" => run[c] = "destroy",
         run' = run, cr' = cr, destroys' = destroys, ready' = ready, secret' = secret,
         asked' = asked, failed' \in [Component -> SUBSET Resource],
         failures' \in 0..MaxFailures
  PROVE  TypeOK'
<1>1. neon' \in [Component -> [Resource -> {"absent", "creating", "present", "destroying"}]]
  BY BecomeValues
<1>2. ASSUME NEW b \in Component, NEW q \in Resource
      PROVE  /\ neon'[b][q] = "creating" => run'[b] = "apply"
             /\ neon'[b][q] = "destroying" => run'[b] = "destroy"
  <2>1. CASE b = c /\ q = r
    BY <2>1, BecomeValues
  <2>2. CASE b = c /\ q # r
    BY <2>2, BecomeValues DEF TypeOK
  <2>3. CASE b # c
    BY <2>3, BecomeValues DEF TypeOK
  <2>4. QED
    BY <2>1, <2>2, <2>3
<1>3. QED
  BY <1>1, <1>2 DEF TypeOK

LEMMA TypeStep == ASSUME TypeOK, Next PROVE TypeOK'
<1>1. ASSUME NEW c \in Component, Operator(c) PROVE TypeOK'
  <2>1. CASE Apply(c)
    BY <2>1 DEF Apply, TypeOK, world
  <2>2. CASE EnableDestroy(c)
    BY <2>2 DEF EnableDestroy, TypeOK
  <2>3. CASE Delete(c)
    BY <2>3 DEF Delete, TypeOK, world
  <2>4. QED
    BY <1>1, <2>1, <2>2, <2>3 DEF Operator
<1>2. ASSUME NEW c \in Component, StartApply(c) \/ StartDestroy(c) PROVE TypeOK'
  <2>1. \A r \in Resource : neon[c][r] \notin {"creating", "destroying"}
    BY <1>2 DEF StartApply, StartDestroy, Start, TypeOK
  <2>2. CASE StartApply(c)
    BY <2>1, <2>2 DEF StartApply, Start, TypeOK, world
  <2>3. CASE StartDestroy(c)
    BY <2>1, <2>3 DEF StartDestroy, Start, TypeOK, world
  <2>4. QED
    BY <1>2, <2>2, <2>3
<1>3. ASSUME NEW c \in Component, Retain(c) PROVE TypeOK'
  BY <1>3 DEF Retain, TypeOK, world
<1>4. ASSUME NEW c \in Component, EndApply(c) \/ EndFailed(c) \/ EndDestroy(c) PROVE TypeOK'
  <2>1. \A r \in Resource : neon[c][r] \notin {"creating", "destroying"}
    BY <1>4 DEF EndApply, EndFailed, EndDestroy, End, Settled, InFlight
  <2>2. Credentials[c] \in Secret
    BY CredentialsAssumption
  <2>3. CASE EndApply(c)
    BY <2>1, <2>2, <2>3 DEF EndApply, End, TypeOK
  <2>4. CASE EndFailed(c)
    BY <2>1, <2>4 DEF EndFailed, End, TypeOK
  <2>5. CASE EndDestroy(c)
    BY <2>1, <2>5 DEF EndDestroy, End, TypeOK
  <2>6. QED
    BY <1>4, <2>3, <2>4, <2>5
<1>5. ASSUME NEW c \in Component, NEW r \in Resource, BeginCreate(c, r) PROVE TypeOK'
  BY <1>5, TypeOfCall DEF BeginCreate, CanCreate, TypeOK, object, world
<1>6. ASSUME NEW c \in Component, NEW r \in Resource, BeginDestroy(c, r) PROVE TypeOK'
  BY <1>6, TypeOfCall DEF BeginDestroy, CanDestroy, TypeOK, object, world
<1>7. ASSUME NEW c \in Component, NEW r \in Resource, Done(c, r) PROVE TypeOK'
  BY <1>7, TypeOfCall DEF Done, TypeOK, object, world
<1>8. ASSUME NEW c \in Component, NEW r \in Resource, Fail(c, r) PROVE TypeOK'
  <2>1. failed' \in [Component -> SUBSET Resource]
    BY <1>8 DEF Fail, TypeOK
  <2>2. failures' \in 0..MaxFailures
    BY <1>8, MaxFailuresAssumption DEF Fail, TypeOK
  <2>3. QED
    BY <1>8, <2>1, <2>2, TypeOfCall DEF Fail, object
<1>9. CASE AllGone
  BY <1>9 DEF AllGone, vars, TypeOK
<1>10. QED
  BY <1>1, <1>2, <1>3, <1>4, <1>5, <1>6, <1>7, <1>8, <1>9 DEF Next, Controller

\* What a call does to its own component: it is not Ready, not gone, and stays in order.
LEMMA SoundCall ==
  ASSUME TypeOK, NEW c \in Component, Sound(c), NEW r \in Resource, NEW from,
         NEW to \in {"absent", "creating", "present", "destroying"}, Become(c, r, from, to),
         from # "present" \/ \A d \in Dependents(r) : neon[c][d] = "absent",
         to = "absent" \/ \A n \in Needs(r) : neon[c][n] = "present",
         from # "present" \/ run[c] = "destroy", run[c] # "idle",
         run' = run, cr' = cr, destroys' = destroys, ready' = ready, asked' = asked
  PROVE  Sound(c)'
<1>1. InOrder(c)'
  BY OrderKept DEF Sound
<1>2. ~ready[c]
  BY BecomeValues DEF Sound, ReadyIsWhole, AllAre
<1>3. cr[c] # "gone"
  BY DEF Sound, GoneIsDone
<1>4. QED
  BY <1>1, <1>2, <1>3 DEF Sound, ReadyIsWhole, DestroyIsAsked, GoneIsDone

LEMMA SoundStep == ASSUME IInv, Next PROVE \A c \in Component : Sound(c)'
<1> USE DEF IInv
<1>1. ASSUME NEW c \in Component, Apply(c) \/ EnableDestroy(c) \/ Delete(c)
      PROVE  \A b \in Component : Sound(b)'
  <2>1. neon' = neon /\ run' = run /\ ready' = ready /\ asked \subseteq asked'
    BY <1>1 DEF Apply, EnableDestroy, Delete, world
  <2>2. cr'[c] # "gone" /\ (destroys'[c] => c \in asked')
    BY <1>1 DEF Apply, EnableDestroy, Delete, world, TypeOK, Sound, DestroyIsAsked
  <2>3. run[c] = "destroy" => destroys'[c]
    BY <1>1 DEF Apply, EnableDestroy, Delete, world, TypeOK, Sound, DestroyIsAsked
  <2>4. Sound(c)'
    BY <2>1, <2>2, <2>3, SameOrder
    DEF Sound, ReadyIsWhole, AllAre, DestroyIsAsked, GoneIsDone
  <2>5. ASSUME NEW b \in Component \ {c} PROVE Sound(b)'
    <3>1. cr'[b] = cr[b] /\ destroys'[b] = destroys[b]
      BY <1>1, <2>5 DEF Apply, EnableDestroy, Delete, world, TypeOK
    <3>2. QED
      BY <2>1, <3>1, OthersKept
  <2>6. QED
    BY <2>4, <2>5
<1>2. ASSUME NEW c \in Component, StartApply(c) \/ StartDestroy(c) \/ Retain(c)
      PROVE  \A b \in Component : Sound(b)'
  <2>1. neon' = neon /\ destroys' = destroys /\ asked' = asked
    BY <1>2 DEF StartApply, StartDestroy, Retain, Start, world
  <2>2. ready'[c] => ready[c] /\ run'[c] # "destroy"
    BY <1>2 DEF StartApply, StartDestroy, Retain, Start, world, TypeOK
  <2>3. run'[c] = "destroy" => destroys[c]
    BY <1>2 DEF StartApply, StartDestroy, Retain, Start, world, TypeOK
  <2>4. cr'[c] = "gone" => run'[c] = "idle" /\ ~destroys[c]
    BY <1>2 DEF StartApply, StartDestroy, Retain, Start, world, TypeOK
  <2>5. Sound(c)'
    BY <2>1, <2>2, <2>3, <2>4, SameOrder
    DEF Sound, ReadyIsWhole, AllAre, DestroyIsAsked, GoneIsDone
  <2>6. ASSUME NEW b \in Component \ {c} PROVE Sound(b)'
    <3>1. cr'[b] = cr[b] /\ run'[b] = run[b] /\ ready'[b] = ready[b]
      BY <1>2, <2>6 DEF StartApply, StartDestroy, Retain, Start, world, TypeOK
    <3>2. QED
      BY <2>1, <3>1, OthersKept
  <2>7. QED
    BY <2>5, <2>6
<1>3. ASSUME NEW c \in Component, EndApply(c) \/ EndFailed(c) \/ EndDestroy(c)
      PROVE  \A b \in Component : Sound(b)'
  <2>1. /\ neon' = neon /\ destroys' = destroys /\ asked' = asked
        /\ run' = [run EXCEPT ![c] = "idle"]
    BY <1>3 DEF EndApply, EndFailed, EndDestroy, End
  <2>2. run'[c] = "idle"
    BY <2>1 DEF TypeOK
  <2>3. ready'[c] => AllAre(c, "present")
    BY <1>3, AppliedIsWhole
    DEF EndApply, EndFailed, EndDestroy, End, TypeOK, Sound, ReadyIsWhole
  <2>4. cr'[c] = "gone" => (destroys[c] => AllAre(c, "absent"))
    BY <1>3, DestroyedIsEmpty
    DEF EndApply, EndFailed, EndDestroy, End, TypeOK, Sound, GoneIsDone
  <2>5. Sound(c)'
    BY <2>1, <2>2, <2>3, <2>4, SameOrder
    DEF Sound, ReadyIsWhole, AllAre, DestroyIsAsked, GoneIsDone
  <2>6. ASSUME NEW b \in Component \ {c} PROVE Sound(b)'
    <3>1. cr'[b] = cr[b] /\ run'[b] = run[b] /\ ready'[b] = ready[b]
      BY <1>3, <2>1, <2>6 DEF EndApply, EndFailed, EndDestroy, TypeOK
    <3>2. QED
      BY <2>1, <3>1, OthersKept
  <2>7. QED
    BY <2>5, <2>6
<1>4. ASSUME NEW c \in Component, NEW r \in Resource,
             BeginCreate(c, r) \/ BeginDestroy(c, r) \/ Done(c, r) \/ Fail(c, r)
      PROVE  \A b \in Component : Sound(b)'
  <2>1. run' = run /\ cr' = cr /\ destroys' = destroys /\ ready' = ready /\ asked' = asked
    BY <1>4 DEF BeginCreate, BeginDestroy, Done, Fail, object, world
  <2>2. PICK from, to \in {"absent", "creating", "present", "destroying"} :
             /\ Become(c, r, from, to)
             /\ from # "present" \/ (run[c] = "destroy" /\ \A d \in Dependents(r) : neon[c][d] = "absent")
             /\ to = "absent" \/ \A n \in Needs(r) : neon[c][n] = "present"
             /\ run[c] # "idle"
    <3>1. CASE BeginCreate(c, r)
      BY <3>1 DEF BeginCreate, CanCreate
    <3>2. CASE BeginDestroy(c, r)
      BY <3>2 DEF BeginDestroy, CanDestroy, Sound, InOrder
    <3>3. CASE Done(c, r) \/ Fail(c, r)
      BY <3>3 DEF Done, Fail, Become, Sound, InOrder, TypeOK
    <3>4. QED
      BY <1>4, <3>1, <3>2, <3>3
  <2>3. Sound(c)'
    BY <2>1, <2>2, SoundCall
  <2>4. ASSUME NEW b \in Component \ {c} PROVE Sound(b)'
    BY <2>1, <2>2, BecomeValues, OthersKept
  <2>5. QED
    BY <2>3, <2>4
<1>5. CASE AllGone
  BY <1>5, OthersKept DEF AllGone, vars
<1>6. QED
  BY <1>1, <1>2, <1>3, <1>4, <1>5 DEF Next, Operator, Controller

\* IInv is inductive.
THEOREM IInvHolds == Spec => []IInv
<1>1. IInv /\ [Next]_vars => IInv'
  <2> SUFFICES ASSUME IInv, [Next]_vars PROVE IInv'
    OBVIOUS
  <2>1. CASE Next
    BY <2>1, TypeStep, SoundStep DEF IInv
  <2>2. CASE UNCHANGED vars
    <3>1. TypeOK'
      BY <2>2 DEF IInv, TypeOK, vars
    <3>2. QED
      BY <2>2, <3>1, OthersKept DEF IInv, vars
  <2>3. QED
    BY <2>1, <2>2
<1>2. QED
  BY <1>1, SoundInit, PTL DEF Spec

-----------------------------------------------------------------------------
(* Results *)

\* Type correctness: calls are only in flight in a run of their kind.
THEOREM NeonTypeCorrect == Spec => []TypeOK
  BY IInvHolds, PTL DEF IInv

\* The edges of the configuration cover all that Neon asks for.
LEMMA EdgesCoverNeon ==
  ASSUME NEW r \in Resource
  PROVE  StandsOn[r] \subseteq Needs(r) /\ MadeThrough[r] \subseteq Needs(r)
  BY Edges DEF StandsOn, MadeThrough, Resource

\* Nothing stands without what Neon has it stand on, and nothing is made without what
\* Neon makes it through, whichever calls fail (terraform.go:231-267).
THEOREM GraphHolds == Spec => []NothingDangles
<1>1. IInv => NothingDangles
  BY EdgesCoverNeon DEF IInv, Sound, InOrder, NothingDangles
<1>2. QED
  BY <1>1, IInvHolds, PTL

\* The edges of the configuration are enough to keep any two calls apart on a branch
\* (terraform.go:243-253).
THEOREM CallsNeverMeet == Spec => []OneCallPerBranch
<1>1. IInv => OneCallPerBranch
  BY OrderMeansOneCall DEF IInv, Sound, OneCallPerBranch
<1>2. QED
  BY <1>1, IInvHolds, PTL

\* No branch is left by an object that was to take it with it
\* (teardown-managed.sh:75-83).
THEOREM NothingIsLeft == Spec => []DestroyIsComplete
<1>1. IInv => DestroyIsComplete
  BY DEF IInv, Sound, GoneIsDone, AllAre, DestroyIsComplete
<1>2. QED
  BY <1>1, IInvHolds, PTL

\* Only an operator's wish destroys (terraform.go:115-119).
THEOREM NothingDestroyedUnasked == Spec => RetainedByDefault
<1> DEFINE Asked(c) == (\E r \in Resource : neon[c][r] = "present" /\ neon'[c][r] # "present")
                         => c \in asked
<1>1. ASSUME IInv, Next PROVE \A c \in Component : Asked(c)
  <2>1. ASSUME neon' = neon PROVE \A c \in Component : Asked(c)
    BY <2>1
  <2>2. ASSUME NEW c \in Component, NEW r \in Resource, BeginDestroy(c, r)
        PROVE  \A b \in Component : Asked(b)
    <3>1. c \in asked
      BY <1>1, <2>2 DEF BeginDestroy, CanDestroy, IInv, Sound, DestroyIsAsked
    <3>2. \A b \in Component \ {c} : neon'[b] = neon[b]
      BY <1>1, <2>2, BecomeValues DEF BeginDestroy, IInv
    <3>3. QED
      BY <3>1, <3>2
  <2>3. ASSUME NEW c \in Component, NEW r \in Resource,
               BeginCreate(c, r) \/ Done(c, r) \/ Fail(c, r)
        PROVE  \A b \in Component : Asked(b)
    <3>1. PICK from, to \in {"absent", "creating", "present", "destroying"} :
               Become(c, r, from, to) /\ from # "present"
      BY <2>3 DEF BeginCreate, Done, Fail
    <3>2. /\ \A q \in Resource : neon[c][q] = "present" => neon'[c][q] = "present"
          /\ \A b \in Component \ {c} : neon'[b] = neon[b]
      BY <1>1, <3>1, BecomeValues DEF IInv
    <3>3. QED
      BY <3>2
  <2>4. QED
    BY <1>1, <2>1, <2>2, <2>3
    DEF Next, Operator, Controller, Apply, EnableDestroy, Delete, StartApply, StartDestroy,
        Start, Retain, EndApply, EndFailed, EndDestroy, End, AllGone, vars
<1>2. IInv /\ [Next]_vars => [\A c \in Component : Asked(c)]_vars
  BY <1>1
<1>3. QED
  BY <1>2, IInvHolds, PTL DEF Spec, RetainedByDefault

\* No two components declare one credentials secret.
OwnSecret == \A b, c \in Component : Credentials[b] = Credentials[c] => b = c

\* If no two components declare one secret, a Ready component's secret holds what it
\* takes to connect to it, and all of that exists (terraform.go:352-359).
THEOREM ReadyConnects == OwnSecret => (Spec => []ReadyMeansConnected)
<1> DEFINE Holds(c) == ready[c] => secret[Credentials[c]] = c
           SInv == \A c \in Component : Holds(c)
<1> SUFFICES ASSUME OwnSecret PROVE Spec => []ReadyMeansConnected
  OBVIOUS
<1>1. Init => SInv
  BY DEF Init
<1>2. ASSUME IInv, SInv, Next PROVE SInv'
  <2>1. ASSUME secret' = secret, \A c \in Component : ready'[c] => ready[c] PROVE SInv'
    BY <1>2, <2>1
  <2>2. ASSUME NEW c \in Component, EndApply(c) PROVE SInv'
    <3>1. secret' = [secret EXCEPT ![Credentials[c]] = c]
      BY <2>2 DEF EndApply
    <3>2. \A b \in Component : Credentials[b] \in Secret
      BY CredentialsAssumption
    <3>3. ASSUME NEW b \in Component \ {c}, ready'[b] PROVE secret'[Credentials[b]] = b
      <4>1. ready[b]
        BY <1>2, <2>2, <3>3 DEF EndApply, IInv, TypeOK
      <4>2. Credentials[b] # Credentials[c]
        BY DEF OwnSecret
      <4>3. QED
        BY <1>2, <3>1, <3>2, <4>1, <4>2 DEF IInv, TypeOK
    <3>4. secret'[Credentials[c]] = c
      BY <1>2, <3>1, <3>2 DEF IInv, TypeOK
    <3>5. QED
      BY <3>3, <3>4
  <2>3. ASSUME NEW c \in Component, StartDestroy(c) \/ Retain(c) \/ EndFailed(c) PROVE SInv'
    <3>1. secret' = secret
      BY <2>3 DEF StartDestroy, Start, Retain, EndFailed, world
    <3>2. ready' = [ready EXCEPT ![c] = FALSE]
      BY <2>3 DEF StartDestroy, Retain, EndFailed
    <3>3. QED
      BY <1>2, <2>1, <3>1, <3>2 DEF IInv, TypeOK
  <2>4. ASSUME secret' = secret, ready' = ready PROVE SInv'
    BY <2>1, <2>4
  <2>5. QED
    BY <1>2, <2>2, <2>3, <2>4
    DEF Next, Operator, Controller, Apply, EnableDestroy, Delete, StartApply, Start,
        EndDestroy, BeginCreate, BeginDestroy, Done, Fail, AllGone, vars, object, world
<1>3. IInv /\ SInv /\ [Next]_vars => SInv'
  BY <1>2 DEF vars
<1>4. IInv /\ SInv => ReadyMeansConnected
  <2>1. \A o \in DOMAIN Outputs : Outputs[o] \subseteq Resource
    BY DEF Outputs, Resource
  <2>2. QED
    BY <2>1 DEF IInv, Sound, ReadyIsWhole, AllAre, ReadyMeansConnected
<1>5. QED
  BY <1>1, <1>3, <1>4, IInvHolds, PTL DEF Spec
-----------------------------------------------------------------------------
(* The refinement *)

\* OpenTofu runs for an object that exists, and destroys for one that is deleted.
RunIsFor(c) ==
    /\ run[c] = "apply" => cr[c] \in {"live", "deleting"}
    /\ run[c] = "destroy" => cr[c] = "deleting"

RInv == \A c \in Component : RunIsFor(c)

LEMMA RunsAreFor == Spec => []RInv
<1>1. Init => RInv
  BY DEF Init, RInv, RunIsFor
<1>2. ASSUME IInv, RInv, [Next]_vars PROVE RInv'
  <2>1. ASSUME NEW c \in Component,
               \/ Apply(c) \/ EnableDestroy(c) \/ Delete(c)
               \/ StartApply(c) \/ StartDestroy(c) \/ Retain(c)
        PROVE  RInv'
    BY <1>2, <2>1
    DEF Apply, EnableDestroy, Delete, StartApply, StartDestroy, Start, Retain, world,
        IInv, TypeOK, RInv, RunIsFor
  <2>2. ASSUME NEW c \in Component, EndApply(c) \/ EndFailed(c) \/ EndDestroy(c)
        PROVE  RInv'
    BY <1>2, <2>2 DEF EndApply, EndFailed, EndDestroy, End, IInv, TypeOK, RInv, RunIsFor
  <2>3. ASSUME cr' = cr, run' = run PROVE RInv'
    BY <1>2, <2>3 DEF RInv, RunIsFor
  <2>4. QED
    BY <1>2, <2>1, <2>2, <2>3
    DEF Next, Operator, Controller, BeginCreate, BeginDestroy, Done, Fail, AllGone, vars, object
<1>3. QED
  BY <1>1, <1>2, IInvHolds, PTL DEF Spec

\* Extent is one of ManagedBranch's, and says what it is meant to.
LEMMA ExtentValues ==
  ASSUME NEW c \in Component
  PROVE  /\ Extent(c) \in {"absent", "partial", "whole"}
         /\ Extent(c) = "absent" <=> AllAre(c, "absent")
         /\ Extent(c) = "whole" <=> AllAre(c, "present")
<1>1. ~(AllAre(c, "absent") /\ AllAre(c, "present"))
  BY DEF AllAre, Resource
<1>2. QED
  BY <1>1 DEF Extent, AllAre

LEMMA ExtentKept ==
  ASSUME NEW c \in Component, neon'[c] = neon[c]
  PROVE  Extent(c)' = Extent(c)
  BY DEF Extent

LEMMA ExtentTyped == ASSUME NEW c \in Component PROVE Extent(c)' \in {"absent", "partial", "whole"}
  BY DEF Extent

\* A step that leaves a component alone is a stutter of its branch.
LEMMA OthersStutter ==
  ASSUME NEW b \in Component, neon'[b] = neon[b], cr'[b] = cr[b], ready'[b] = ready[b],
         destroys'[b] = destroys[b]
  PROVE  [Branch(b)!Next]_(Branch(b)!vars)
  BY ExtentKept DEF Branch!vars

\* What a call does to the branch: an apply makes it grow, a destroy makes it shrink.
LEMMA CallMoves ==
  ASSUME IInv, RInv, NEW c \in Component, NEW r \in Resource,
         BeginCreate(c, r) \/ BeginDestroy(c, r) \/ Done(c, r) \/ Fail(c, r)
  PROVE  Branch(c)!Next
<1>1. cr' = cr /\ destroys' = destroys /\ ready' = ready
  BY DEF BeginCreate, BeginDestroy, Done, Fail, object
<1>2. \/ run[c] = "apply" /\ neon[c][r] # "present"
      \/ run[c] = "destroy" /\ neon[c][r] # "absent"
  BY DEF BeginCreate, CanCreate, BeginDestroy, CanDestroy, Done, Fail, Become, IInv, TypeOK
<1>3. CASE run[c] = "apply" /\ neon[c][r] # "present"
  <2>1. Extent(c) # "whole"
    BY <1>3, ExtentValues DEF AllAre
  <2>2. Branch(c)!Grow
    BY <1>1, <1>3, <2>1, ExtentTyped DEF Branch!Grow, Branch!Branches, RInv, RunIsFor
  <2>3. QED
    BY <2>2 DEF Branch!Next
<1>4. CASE run[c] = "destroy" /\ neon[c][r] # "absent"
  <2>1. Extent(c) # "absent"
    BY <1>4, ExtentValues DEF AllAre
  <2>2. destroys[c] /\ ready[c] = FALSE
    BY <1>4 DEF IInv, TypeOK, Sound, DestroyIsAsked, ReadyIsWhole
  <2>3. Branch(c)!Shrink
    BY <1>1, <1>4, <2>1, <2>2, ExtentTyped DEF Branch!Shrink, Branch!Branches, RInv, RunIsFor
  <2>4. QED
    BY <2>3 DEF Branch!Next
<1>5. QED
  BY <1>2, <1>3, <1>4

LEMMA BranchStep ==
  ASSUME IInv, RInv, [Next]_vars, NEW b \in Component
  PROVE  [Branch(b)!Next]_(Branch(b)!vars)
<1> USE DEF IInv
<1>1. ASSUME NEW c \in Component, Apply(c) \/ EnableDestroy(c) \/ Delete(c)
      PROVE  [Branch(b)!Next]_(Branch(b)!vars)
  <2>1. neon' = neon /\ ready' = ready
    BY <1>1 DEF Apply, EnableDestroy, Delete, world
  <2>2. CASE b = c
    <3>1. Extent(c)' = Extent(c)
      BY <2>1, ExtentKept
    <3>2. Branch(c)!Apply \/ Branch(c)!Permit \/ Branch(c)!Delete
      BY <1>1, <2>1, <3>1
      DEF Apply, EnableDestroy, Delete, world, TypeOK, Branch!Apply, Branch!Permit, Branch!Delete
    <3>3. QED
      BY <2>2, <3>2 DEF Branch!Next
  <2>3. CASE b # c
    <3>1. cr'[b] = cr[b] /\ destroys'[b] = destroys[b]
      BY <1>1, <2>3 DEF Apply, EnableDestroy, Delete, world, TypeOK
    <3>2. QED
      BY <2>1, <3>1, OthersStutter
  <2>4. QED
    BY <2>2, <2>3
<1>2. ASSUME NEW c \in Component, StartApply(c) \/ StartDestroy(c) \/ EndApply(c) \/ EndFailed(c)
      PROVE  [Branch(b)!Next]_(Branch(b)!vars)
  <2>1. neon' = neon /\ cr' = cr /\ destroys' = destroys
    BY <1>2 DEF StartApply, StartDestroy, Start, EndApply, EndFailed, End, world
  <2>2. CASE b = c
    <3>1. Extent(c)' = Extent(c)
      BY <2>1, ExtentKept
    <3>2. CASE StartApply(c)
      BY <2>1, <2>2, <3>2, OthersStutter DEF StartApply
    <3>3. CASE StartDestroy(c) \/ EndFailed(c)
      <4>1. ready'[c] = FALSE
        BY <3>3 DEF StartDestroy, EndFailed, TypeOK
      <4>2. Branch(c)!Disconnect
        BY <2>1, <3>1, <4>1 DEF Branch!Disconnect
      <4>3. QED
        BY <2>2, <4>2 DEF Branch!Next
    <3>4. CASE EndApply(c)
      <4>1. Extent(c) = "whole"
        BY <3>4, AppliedIsWhole, ExtentValues DEF EndApply, End
      <4>2. ready'[c] = TRUE /\ cr[c] \in {"live", "deleting"}
        BY <3>4 DEF EndApply, TypeOK, RInv, RunIsFor
      <4>3. Branch(c)!Connect
        BY <2>1, <3>1, <4>1, <4>2 DEF Branch!Connect
      <4>4. QED
        BY <2>2, <4>3 DEF Branch!Next
    <3>5. QED
      BY <1>2, <3>2, <3>3, <3>4
  <2>3. CASE b # c
    <3>1. ready'[b] = ready[b]
      BY <1>2, <2>3 DEF StartApply, StartDestroy, EndApply, EndFailed, TypeOK
    <3>2. QED
      BY <2>1, <3>1, OthersStutter
  <2>4. QED
    BY <2>2, <2>3
<1>3. ASSUME NEW c \in Component, Retain(c) \/ EndDestroy(c)
      PROVE  [Branch(b)!Next]_(Branch(b)!vars)
  <2>1. neon' = neon /\ destroys' = destroys
    BY <1>3 DEF Retain, EndDestroy, End
  <2>2. CASE b = c
    <3>1. Extent(c)' = Extent(c)
      BY <2>1, ExtentKept
    <3>2. cr[c] = "deleting" /\ cr'[c] = "gone"
      BY <1>3 DEF Retain, EndDestroy, TypeOK, RInv, RunIsFor
    <3>3. ready'[c] = FALSE
      BY <1>3 DEF Retain, EndDestroy, TypeOK, Sound, ReadyIsWhole
    <3>4. destroys[c] => Extent(c) = "absent"
      BY <1>3, DestroyedIsEmpty, ExtentValues DEF Retain, EndDestroy, End
    <3>5. Branch(c)!Vanish
      BY <2>1, <3>1, <3>2, <3>3, <3>4 DEF Branch!Vanish
    <3>6. QED
      BY <2>2, <3>5 DEF Branch!Next
  <2>3. CASE b # c
    <3>1. cr'[b] = cr[b] /\ ready'[b] = ready[b]
      BY <1>3, <2>3 DEF Retain, EndDestroy, TypeOK
    <3>2. QED
      BY <2>1, <3>1, OthersStutter
  <2>4. QED
    BY <2>2, <2>3
<1>4. ASSUME NEW c \in Component, NEW r \in Resource,
             BeginCreate(c, r) \/ BeginDestroy(c, r) \/ Done(c, r) \/ Fail(c, r)
      PROVE  [Branch(b)!Next]_(Branch(b)!vars)
  <2>1. CASE b = c
    BY <1>4, <2>1, CallMoves
  <2>2. CASE b # c
    <3>1. cr' = cr /\ destroys' = destroys /\ ready' = ready
      BY <1>4 DEF BeginCreate, BeginDestroy, Done, Fail, object
    <3>2. neon'[b] = neon[b]
      BY <1>4, <2>2 DEF BeginCreate, BeginDestroy, Done, Fail, Become, TypeOK
    <3>3. QED
      BY <3>1, <3>2, OthersStutter
  <2>3. QED
    BY <2>1, <2>2
<1>5. CASE UNCHANGED vars
  BY <1>5, OthersStutter DEF vars
<1>6. QED
  BY <1>1, <1>2, <1>3, <1>4, <1>5 DEF Next, Operator, Controller, AllGone

\* NeonGraph implements ManagedBranch for each of its components, however many there are
\* and whichever calls fail (terraform.go:115-119, teardown-managed.sh:1-17).
THEOREM GraphImplementsBranch == Spec => ImplementsBranch
<1>1. Init => \A c \in Component : Branch(c)!Init
  <2> SUFFICES ASSUME Init, NEW c \in Component PROVE Branch(c)!Init
    OBVIOUS
  <2>1. Extent(c) = "absent"
    BY ExtentValues DEF Init, AllAre
  <2>2. QED
    BY <2>1 DEF Init, DestroyResourcesOnDeletion, Branch!Init
<1>2. IInv /\ RInv /\ [Next]_vars =>
        [\A c \in Component : [Branch(c)!Next]_(Branch(c)!vars)]_vars
  BY BranchStep
<1>3. QED
  BY <1>1, <1>2, IInvHolds, RunsAreFor, PTL DEF Spec, ImplementsBranch
=============================================================================
