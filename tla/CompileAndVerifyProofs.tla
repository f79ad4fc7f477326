------------------------ MODULE CompileAndVerifyProofs -------------------------
(***************************************************************************)
(* Proofs about CompileAndVerify, for any number of scripts and any        *)
(* documents: that a verdict is sound whoever else is running, and that a  *)
(* script which has /tmp for itself fails only by a fault of its own.      *)
(* The compiles make the progress that OutputDirProofs shows, except that  *)
(* a script takes the second one's output away when it cleans.             *)
(***************************************************************************)
EXTENDS CompileAndVerify, OutputDirProofs, FiniteSetTheorems

JobOf(r) == [doc |-> Stack[r[1]], dir |-> IF r = First(r[1]) THEN Out[r[1]] ELSE Scratch]

ScriptTypeOK ==
    /\ step \in [Script -> Steps]
    /\ declaration \in BOOLEAN /\ message \in BOOLEAN
    /\ faulted \in [Script -> BOOLEAN]
    /\ crowded \in [Script -> BOOLEAN]

Jobs == job = [r \in Run |-> JobOf(r)]

\* The compiles of a script run while it waits for them.
InOrder(s) ==
    /\ step[s] # "first" => ~(phase[First(s)] \in Active \cup {"idle"})
    /\ step[s] \in {"first", "expect"} => phase[Second(s)] = "idle"
    /\ phase[Second(s)] \in Active => step[s] = "second"
    /\ step[s] \notin {"first", "failed"} => phase[First(s)] = "ok"
    /\ step[s] \in InTmp \ {"second"} => phase[Second(s)] = "ok"

\* A compile fails by a fault: the document of every script compiles.
Faulted(s) == \A r \in {First(s), Second(s)} : phase[r] \in {"error", "killed"} => faulted[s]

\* $OUT is the script's own.
OwnTree(s) == Undisturbed(First(s)) /\ ProgressOf(First(s))

\* What the second compile has done stays until the script cleans, if it is alone.
SecondTree(s) ==
    /\ step[s] \in {"first", "expect", "second", "diff"} => ProgressOf(Second(s))
    /\ phase[Second(s)] \in {"idle", "compile"} => Undisturbed(Second(s))
    /\ step[s] \in InTmp /\ ~crowded[s] => Undisturbed(Second(s))

\* So do the files of the probe.
Probe(s) ==
    /\ step[s] = "refuse" /\ ~crowded[s] => declaration
    /\ step[s] = "match" /\ ~crowded[s] => message

\* Two scripts are never in /tmp together without the history saying so.
Seen == \A s, q \in Script : s # q /\ step[s] \in InTmp /\ step[q] \in InTmp => crowded[s]

ScriptInv(s) == InOrder(s) /\ Faulted(s) /\ OwnTree(s) /\ SecondTree(s) /\ Probe(s)

VInv ==
    /\ TypeOK /\ ScriptTypeOK /\ Jobs /\ Seen
    /\ \A s \in Script : ScriptInv(s)
    /\ LeftoversHarmless
-----------------------------------------------------------------------------
(* The runs of the scripts, and their directories *)

LEMMA Runs ==
    /\ \A s \in Script : /\ First(s) \in Run /\ Second(s) \in Run /\ First(s)[1] = s /\ Second(s)[1] = s
    /\ \A s, q \in Script : /\ First(s) # Second(q)
                            /\ s # q => First(s) # First(q) /\ Second(s) # Second(q)
    /\ \A r \in Run : \E s \in Script : r = First(s) \/ r = Second(s)
  BY RunAssumption DEF First, Second

LEMMA JobValues ==
  ASSUME Jobs, NEW s \in Script
  PROVE  /\ job[First(s)].dir = Out[s] /\ job[First(s)].doc = Stack[s]
         /\ job[Second(s)].dir = Scratch /\ job[Second(s)].doc = Stack[s]
         /\ Out[s] # Scratch /\ Stack[s] \in Doc
<1>1. First(s) \in Run /\ Second(s) \in Run /\ First(s)[1] = s /\ Second(s)[1] = s /\ First(s) # Second(s)
  BY Runs
<1>2. job[First(s)] = JobOf(First(s)) /\ job[Second(s)] = JobOf(Second(s))
  BY <1>1 DEF Jobs
<1>3. QED
  BY <1>1, <1>2, OutAssumption, StackAssumption DEF JobOf

\* No other run has the directory of a first compile; all of the second ones have one.
LEMMA SameDirectory ==
  ASSUME Jobs, NEW r \in Run, NEW q \in Run, q # r, job[q].dir = job[r].dir
  PROVE  \E s, t \in Script : s # t /\ q = Second(s) /\ r = Second(t)
<1>1. PICK s \in Script : q = First(s) \/ q = Second(s)
  BY Runs
<1>2. PICK t \in Script : r = First(t) \/ r = Second(t)
  BY Runs
<1>3. /\ job[First(s)].dir = Out[s] /\ job[Second(s)].dir = Scratch /\ Out[s] # Scratch
      /\ job[First(t)].dir = Out[t] /\ job[Second(t)].dir = Scratch /\ Out[t] # Scratch
  BY JobValues
<1>4. CASE q = First(s) /\ r = First(t)
  BY <1>3, <1>4, OutAssumption
<1>5. CASE q = First(s) /\ r = Second(t)
  BY <1>3, <1>5
<1>6. CASE q = Second(s) /\ r = First(t)
  BY <1>3, <1>6
<1>7. CASE q = Second(s) /\ r = Second(t)
  BY <1>7
<1>8. QED
  BY <1>1, <1>2, <1>4, <1>5, <1>6, <1>7

-----------------------------------------------------------------------------
(* What a step of a script is to the compiles and to the scripts *)

\* A compile takes a step, while its script waits for it.
CompileStep(s, r) ==
    /\ Step(r) \/ (Stop(r) /\ faulted'[s])
    /\ (r = First(s) /\ step[s] = "first") \/ (r = Second(s) /\ step[s] = "second")
    /\ UNCHANGED <<step, declaration, message>>
    /\ \A q \in Script : faulted[q] => faulted'[q]

\* An entry of the scratch directory goes.
Cleaning(s) ==
    /\ step[s] = "clean"
    /\ \E f \in DOMAIN disk[Scratch] :
         SetDir(Second(s), [g \in DOMAIN disk[Scratch] \ {f} |-> disk[Scratch][g]])
    /\ Touch(Second(s))
    /\ UNCHANGED <<phase, job, todo, writing, step, declaration, message, faulted>>

\* The script goes on, and touches no compile.
Goes(s, from, to) == step[s] = from /\ step' = [step EXCEPT ![s] = to]
Control(s) ==
    /\ UNCHANGED vars
    /\ \/ /\ Goes(s, "first", IF phase[First(s)] = "ok" THEN "expect" ELSE "failed")
          /\ phase[First(s)] \in {"ok", "error", "killed"}
          /\ UNCHANGED <<declaration, message, faulted>>
       \/ /\ Goes(s, "second", IF phase[Second(s)] = "ok" THEN "diff" ELSE "failed")
          /\ phase[Second(s)] \in {"ok", "error", "killed"}
          /\ UNCHANGED <<declaration, message, faulted>>
       \/ /\ Goes(s, "expect", IF Expected[s] \in DOMAIN disk[Out[s]] THEN "second" ELSE "failed")
          /\ UNCHANGED <<declaration, message, faulted>>
       \/ /\ Goes(s, "diff", IF Same(Out[s], Scratch) THEN "clean" ELSE "failed")
          /\ UNCHANGED <<declaration, message, faulted>>
       \/ Goes(s, "clean", "write") /\ UNCHANGED <<declaration, message, faulted>>
       \/ Goes(s, "write", "refuse") /\ declaration' = TRUE /\ UNCHANGED <<message, faulted>>
       \/ Goes(s, "refuse", "match") /\ message' = declaration /\ UNCHANGED <<declaration, faulted>>
       \/ /\ Goes(s, "match", IF message THEN "tidy" ELSE "failed")
          /\ UNCHANGED <<declaration, message, faulted>>
       \/ Goes(s, "tidy", "passed") /\ declaration' = FALSE /\ message' = FALSE /\ UNCHANGED faulted
       \/ /\ step[s] \in {"expect", "diff", "clean", "write", "refuse", "match", "tidy"}
          /\ step' = [step EXCEPT ![s] = "failed"]
          /\ faulted' = [faulted EXCEPT ![s] = TRUE]
          /\ UNCHANGED <<declaration, message>>

LEMMA Kinds ==
  ASSUME ScriptTypeOK, TypeOK, NEW s \in Script, InOrder(s),
         ScriptStep(s) \/ CompileFails(s) \/ Fault(s)
  PROVE  (\E r \in {First(s), Second(s)} : CompileStep(s, r)) \/ Cleaning(s) \/ Control(s)
<1>1. /\ First(s) \in Run /\ Second(s) \in Run /\ phase[First(s)] \in Phases /\ phase[Second(s)] \in Phases
  BY Runs DEF TypeOK
<1>2. ASSUME NEW r \in {First(s), Second(s)}, Step(r)
      PROVE  phase[r] \in Active \cup {"idle"}
  BY <1>2 DEF Step, Start, Refuse, Compiled, RemoveEntry, Cleared, OpenFile, FillFile, Written, At, Active
<1>3. ASSUME NEW r \in {First(s), Second(s)}, Compiling(r)
      PROVE  CompileStep(s, r)
  BY <1>2, <1>3 DEF Compiling, CompileStep, scripts, InOrder, At
<1>4. ASSUME Launch(s, First(s), "first") PROVE CompileStep(s, First(s))
  BY <1>4 DEF Launch, CompileStep, Step, scripts
<1>5. ASSUME Launch(s, Second(s), "second") PROVE CompileStep(s, Second(s))
  BY <1>5 DEF Launch, CompileStep, Step, scripts
<1>6. ASSUME CompileFails(s) PROVE \E r \in {First(s), Second(s)} : CompileStep(s, r)
  <2>1. PICK r \in {First(s), Second(s)} : Stop(r)
    BY <1>6 DEF CompileFails
  <2>2. phase[r] \in Active
    BY <2>1 DEF Stop
  <2>3. \A q \in Script : faulted'[q] = (q = s \/ faulted[q])
    BY <1>6 DEF CompileFails, ScriptTypeOK
  <2>4. CompileStep(s, r)
    BY <1>6, <2>1, <2>2, <2>3 DEF CompileFails, CompileStep, InOrder
  <2>5. QED
    BY <2>4
<1>7. ASSUME Collect(s, First(s), "first", "expect") PROVE Control(s)
  BY <1>7, Zenon DEF Collect, Check, Go, Control, Goes
<1>8. ASSUME Collect(s, Second(s), "second", "diff") PROVE Control(s)
  BY <1>8, Zenon DEF Collect, Check, Go, Control, Goes
<1>9. ASSUME Expect(s) \/ Diff(s) \/ Write(s) \/ Refused(s) \/ Match(s) \/ Tidy(s) \/ Fault(s)
      PROVE  Control(s)
  BY <1>9, Zenon DEF Expect, Diff, Write, Refused, Match, Tidy, Fault, Check, Go, Control, Goes
<1>10. ASSUME Clean(s) PROVE Cleaning(s) \/ Control(s)
  BY <1>10, Zenon DEF Clean, Go, Cleaning, Control, Goes, vars
<1>11. QED
  BY <1>3, <1>4, <1>5, <1>6, <1>7, <1>8, <1>9, <1>10 DEF ScriptStep
\* The history only grows, and says of every state who is in /tmp with whom.
LEMMA Observed ==
  ASSUME ScriptTypeOK, Observe
  PROVE  /\ crowded' \in [Script -> BOOLEAN]
         /\ \A s \in Script : crowded[s] => crowded'[s]
         /\ Seen'
  BY Zenon DEF ScriptTypeOK, Observe, Seen

-----------------------------------------------------------------------------
(* Types *)

LEMMA CleaningType ==
  ASSUME TypeOK, Jobs, NEW s \in Script, Cleaning(s)
  PROVE  TypeOK'
<1>1. Second(s) \in Run /\ job[Second(s)].dir = Scratch
  BY Runs, JobValues
<1>2. PICK f \in DOMAIN disk[Scratch] :
        SetDir(Second(s), [g \in DOMAIN disk[Scratch] \ {f} |-> disk[Scratch][g]])
  BY DEF Cleaning
<1>3. DOMAIN disk[Scratch] \subseteq File /\ disk[Scratch] \in [DOMAIN disk[Scratch] -> Entry]
  BY <1>1, DirType DEF DirOf
<1>4. [g \in DOMAIN disk[Scratch] \ {f} |-> disk[Scratch][g]] \in [DOMAIN disk[Scratch] \ {f} -> Entry]
  BY <1>3
<1>5. DiskOK'
  BY <1>1, <1>2, <1>3, <1>4, SetDirType
<1>6. QED
  BY <1>1, <1>5, TouchType DEF Cleaning, TypeOK

LEMMA TypesKept ==
  ASSUME TypeOK, ScriptTypeOK, Jobs, NEW s \in Script, InOrder(s),
         ScriptStep(s) \/ CompileFails(s) \/ Fault(s)
  PROVE  TypeOK' /\ Jobs'
<1>1. ASSUME NEW r \in {First(s), Second(s)}, CompileStep(s, r)
      PROVE  TypeOK' /\ Jobs'
  <2>1. r \in Run
    BY Runs
  <2>2. Next
    BY <1>1, <2>1 DEF CompileStep, Next
  <2>3. QED
    BY <2>2, TypeStep, JobConstant DEF Jobs, JobOf
<1>2. ASSUME Cleaning(s) PROVE TypeOK' /\ Jobs'
  BY <1>2, CleaningType DEF Cleaning, Jobs
<1>3. ASSUME Control(s) PROVE TypeOK' /\ Jobs'
  BY <1>3 DEF Control, vars, TypeOK, DiskOK, Jobs
<1>4. QED
  BY <1>1, <1>2, <1>3, Kinds

LEMMA ScriptTypeKept ==
  ASSUME ScriptTypeOK, NEW s \in Script, ScriptStep(s) \/ CompileFails(s) \/ Fault(s), Observe
  PROVE  ScriptTypeOK'
<1>1. crowded' \in [Script -> BOOLEAN]
  BY Observed
<1> USE DEF ScriptTypeOK, Steps, InTmp
<1>2. step' \in [Script -> Steps]
  <2>1. CASE UNCHANGED step
    BY <2>1
  <2>2. CASE Collect(s, First(s), "first", "expect") \/ Collect(s, Second(s), "second", "diff")
    BY <2>2 DEF Collect, Check, Go
  <2>3. CASE Expect(s) \/ Diff(s) \/ Match(s)
    BY <2>3 DEF Expect, Diff, Match, Check, Go
  <2>4. CASE Clean(s) \/ Write(s) \/ Refused(s) \/ Tidy(s) \/ Fault(s)
    BY <2>4 DEF Clean, Write, Refused, Tidy, Fault, Go
  <2>5. QED
    BY <2>1, <2>2, <2>3, <2>4 DEF ScriptStep, Launch, Compiling, CompileFails, scripts
<1>3. faulted' \in [Script -> BOOLEAN]
  <2>1. CASE UNCHANGED faulted
    BY <2>1
  <2>2. CASE CompileFails(s) \/ Fault(s)
    BY <2>2 DEF CompileFails, Fault
  <2>3. QED
    BY <2>1, <2>2 DEF ScriptStep, Launch, Compiling, Collect, Expect, Diff, Clean, Write, Refused,
                      Match, Tidy, scripts
<1>4. declaration' \in BOOLEAN /\ message' \in BOOLEAN
  <2>1. CASE UNCHANGED <<declaration, message>>
    BY <2>1
  <2>2. CASE Write(s) \/ Refused(s) \/ Tidy(s)
    BY <2>2 DEF Write, Refused, Tidy
  <2>3. QED
    BY <2>1, <2>2 DEF ScriptStep, Launch, Compiling, Collect, Expect, Diff, Clean, Match,
                      CompileFails, Fault, scripts
<1>5. QED
  BY <1>1, <1>2, <1>3, <1>4
-----------------------------------------------------------------------------
(* A step of a compile *)

\* What changes a directory leaves a mark on the other runs that use it.
LEMMA Marks ==
  ASSUME TypeOK, Jobs, NEW r \in Run, NEW q \in Run, q # r, Touch(r), touched'[q] # touched[q]
  PROVE  /\ phase[q] \in {"clear", "write", "ok"}
         /\ \E s, t \in Script : s # t /\ q = Second(s) /\ r = Second(t)
<1>1. phase[q] \in {"clear", "write", "ok"} /\ job[q].dir = job[r].dir
  BY Zenon DEF Touch, TypeOK
<1>2. QED
  BY <1>1, SameDirectory

LEMMA OwnMark ==
  ASSUME TypeOK, NEW r \in Run, Touch(r)
  PROVE  touched'[r] = touched[r]
  BY Zenon DEF Touch, TypeOK

LEMMA StepMarks ==
  ASSUME NEW r \in Run, Step(r) \/ Stop(r)
  PROVE  Touch(r) \/ touched' = touched
  BY Zenon DEF Step, Stop, Start, Refuse, Compiled, RemoveEntry, Cleared, OpenFile, FillFile, Written

LEMMA CompileProgress ==
  ASSUME TypeOK, NEW r \in Run, NEW q \in Run, Step(r) \/ Stop(r), ProgressOf(q)
  PROVE  ProgressOf(q)'
  BY OwnProgress, OthersProgress, StepLeaves

\* Where a step of a compile takes it.
LEMMA CompilePhase ==
  ASSUME TypeOK, Jobs, NEW s \in Script, NEW r \in {First(s), Second(s)}, CompileStep(s, r)
  PROVE  /\ \A q \in Run \ {r} : phase'[q] = phase[q]
         /\ phase[r] \in Active \cup {"idle"}
         /\ phase'[r] \in Phases \ {"idle"}
         /\ phase'[r] = "compile" => phase[r] = "idle"
         /\ phase'[r] \in {"error", "killed"} => faulted'[s]
<1>1. r \in Run /\ phase[r] \in Phases /\ job[r].doc = Stack[s]
  BY Runs, JobValues DEF TypeOK
<1>2. Files[Stack[s]] # {}
  BY StackAssumption
<1>3. CASE Step(r)
  <2>1. ~Refuse(r)
    BY <1>1, <1>2 DEF Refuse
  <2>2. CASE Start(r) \/ Compiled(r) \/ Cleared(r) \/ Written(r)
    BY <1>1, <2>2 DEF Start, Compiled, Cleared, Written, At, Goto, TypeOK, Active, Phases
  <2>3. CASE RemoveEntry(r) \/ OpenFile(r) \/ FillFile(r)
    BY <1>1, <2>3 DEF RemoveEntry, OpenFile, FillFile, At, Active, Phases
  <2>4. QED
    BY <1>3, <2>1, <2>2, <2>3 DEF Step
<1>4. CASE Stop(r) /\ faulted'[s]
  <2>1. PICK p \in {"error", "killed"} : phase' = [phase EXCEPT ![r] = p]
    BY <1>4 DEF Stop, Goto
  <2>2. QED
    BY <1>1, <1>4, <2>1 DEF Stop, TypeOK, Phases
<1>5. QED
  BY <1>3, <1>4 DEF CompileStep

LEMMA CompileKeeps ==
  ASSUME TypeOK, ScriptTypeOK, Jobs, NEW s \in Script, NEW r \in {First(s), Second(s)},
         CompileStep(s, r), Observe, NEW q \in Script, ScriptInv(q)
  PROVE  ScriptInv(q)'
<1>1. /\ r \in Run /\ First(q) \in Run /\ Second(q) \in Run /\ First(q) # Second(q)
      /\ Step(r) \/ Stop(r)
  BY Runs DEF CompileStep
<1>2. step' = step /\ declaration' = declaration /\ message' = message
  BY DEF CompileStep
<1>3. InOrder(q)'
  <2>1. CASE r = First(q)
    <3>1. step[q] = "first" /\ phase'[Second(q)] = phase[Second(q)]
      BY <1>1, <2>1, Runs, CompilePhase DEF CompileStep
    <3>2. QED
      BY <1>2, <3>1 DEF ScriptInv, InOrder, InTmp
  <2>2. CASE r = Second(q)
    <3>1. step[q] = "second" /\ phase'[First(q)] = phase[First(q)]
      BY <1>1, <2>2, Runs, CompilePhase DEF CompileStep
    <3>2. QED
      BY <1>2, <3>1 DEF ScriptInv, InOrder, InTmp
  <2>3. CASE r # First(q) /\ r # Second(q)
    BY <1>1, <1>2, <2>3, CompilePhase DEF ScriptInv, InOrder
  <2>4. QED
    BY <2>1, <2>2, <2>3
<1>4. Faulted(q)'
  <2> SUFFICES ASSUME NEW u \in {First(q), Second(q)}, phase'[u] \in {"error", "killed"}
               PROVE  faulted'[q]
    BY DEF Faulted
  <2>1. CASE u = r
    BY <2>1, Runs, CompilePhase
  <2>2. CASE u # r
    BY <1>1, <2>2, CompilePhase DEF CompileStep, ScriptInv, Faulted
  <2>3. QED
    BY <2>1, <2>2
<1>5. OwnTree(q)'
  <2>1. ProgressOf(First(q))'
    BY <1>1, CompileProgress DEF ScriptInv, OwnTree
  <2>2. touched'[First(q)] = touched[First(q)]
    BY <1>1, StepMarks, Marks, OwnMark, Runs
  <2>3. QED
    BY <2>1, <2>2 DEF ScriptInv, OwnTree, Undisturbed
<1>6. SecondTree(q)'
  <2>1. ProgressOf(Second(q)) => ProgressOf(Second(q))'
    BY <1>1, CompileProgress
  <2>2. phase'[Second(q)] \in {"idle", "compile"} => phase[Second(q)] \in {"idle", "compile"}
    BY <1>1, CompilePhase
  <2>3. CASE touched'[Second(q)] = touched[Second(q)]
    BY <1>2, <2>1, <2>2, <2>3, Observed DEF ScriptInv, SecondTree, Undisturbed
  <2>4. CASE touched'[Second(q)] # touched[Second(q)]
    <3>1. r # Second(q) /\ Touch(r)
      BY <1>1, <2>4, StepMarks, OwnMark
    <3>2. phase[Second(q)] \in {"clear", "write", "ok"} /\ s # q /\ r = Second(s)
      BY <1>1, <2>4, <3>1, Marks, Runs
    <3>3. step[s] = "second" /\ phase'[Second(q)] = phase[Second(q)]
      BY <1>1, <3>1, <3>2, Runs, CompilePhase DEF CompileStep
    <3>4. step[q] \in InTmp => crowded'[q]
      BY <1>2, <3>2, <3>3, Observed DEF Seen, InTmp
    <3>5. QED
      BY <1>2, <2>1, <3>2, <3>3, <3>4 DEF ScriptInv, SecondTree
  <2>5. QED
    BY <2>3, <2>4
<1>7. Probe(q)'
  BY <1>2, Observed DEF ScriptInv, Probe
<1>8. QED
  BY <1>3, <1>4, <1>5, <1>6, <1>7 DEF ScriptInv

-----------------------------------------------------------------------------
(* The removal of the scratch directory *)

LEMMA CleaningKeeps ==
  ASSUME TypeOK, ScriptTypeOK, Jobs, NEW s \in Script, Cleaning(s), Observe,
         NEW q \in Script, ScriptInv(q)
  PROVE  ScriptInv(q)'
<1>1. /\ Second(s) \in Run /\ First(q) \in Run /\ Second(q) \in Run /\ First(q) # Second(s)
      /\ (s # q => Second(q) # Second(s))
  BY Runs
<1>2. UNCHANGED <<phase, job, todo, writing, step, declaration, message, faulted>> /\ Touch(Second(s))
  BY DEF Cleaning
<1>3. \A u \in Run : u # Second(s) => Leaves(Second(s), u)
  BY <1>2 DEF Cleaning, Leaves
<1>4. InOrder(q)' /\ Faulted(q)'
  BY <1>2 DEF ScriptInv, InOrder, Faulted
<1>5. OwnTree(q)'
  <2>1. ProgressOf(First(q))'
    BY <1>1, <1>3, OthersProgress DEF ScriptInv, OwnTree
  <2>2. touched'[First(q)] = touched[First(q)]
    BY <1>1, <1>2, Marks, Runs
  <2>3. QED
    BY <2>1, <2>2 DEF ScriptInv, OwnTree, Undisturbed
<1>6. SecondTree(q)'
  <2>1. CASE q = s
    <3>1. step[q] = "clean" /\ touched'[Second(q)] = touched[Second(q)]
      BY <1>1, <1>2, <2>1, OwnMark DEF Cleaning
    <3>2. QED
      BY <1>2, <3>1, Observed DEF ScriptInv, SecondTree, Undisturbed
  <2>2. CASE q # s
    <3>1. ProgressOf(Second(q)) => ProgressOf(Second(q))'
      BY <1>1, <1>3, <2>2, OthersProgress
    <3>2. step[q] \in InTmp => crowded'[q]
      BY <1>2, <2>2, Observed DEF Cleaning, Seen, InTmp
    <3>3. touched'[Second(q)] # touched[Second(q)] => phase[Second(q)] \in {"clear", "write", "ok"}
      BY <1>1, <1>2, <2>2, Marks
    <3>4. QED
      BY <1>2, <3>1, <3>2, <3>3 DEF ScriptInv, SecondTree, Undisturbed
  <2>3. QED
    BY <2>1, <2>2
<1>7. Probe(q)'
  BY <1>2, Observed DEF ScriptInv, Probe
<1>8. QED
  BY <1>4, <1>5, <1>6, <1>7 DEF ScriptInv
-----------------------------------------------------------------------------
(* The other steps of a script *)

LEMMA ProgressStays == ASSUME UNCHANGED vars, NEW r \in Run, ProgressOf(r) PROVE ProgressOf(r)'
  BY DEF vars, ProgressOf, Undisturbed, At, ClearProgress, WriteProgress, Holds, DirOf

\* Where a step of the script alone takes it.
LEMMA ControlStep ==
  ASSUME ScriptTypeOK, NEW s \in Script, Control(s)
  PROVE  /\ \A q \in Script \ {s} : step'[q] = step[q] /\ faulted'[q] = faulted[q]
         /\ faulted[s] => faulted'[s]
         /\ \/ step[s] = "first" /\ step'[s] = "failed" /\ phase[First(s)] \in {"error", "killed"}
            \/ step[s] = "first" /\ step'[s] = "expect" /\ phase[First(s)] = "ok"
            \/ step[s] = "second" /\ step'[s] = "failed" /\ phase[Second(s)] \in {"error", "killed"}
            \/ step[s] = "second" /\ step'[s] = "diff" /\ phase[Second(s)] = "ok"
            \/ step[s] = "expect" /\ step'[s] \in {"second", "failed"}
            \/ step[s] \in InTmp \ {"second"} /\ step'[s] \in (InTmp \ {"second"}) \cup {"passed", "failed"}
         /\ step'[s] \in {"expect", "second"} => step[s] # "diff"
         /\ step'[s] = "diff" => step[s] = "second"
         /\ step'[s] = "refuse" => declaration'
         /\ step'[s] = "match" => message' = declaration /\ step[s] = "refuse"
         /\ declaration' = declaration \/ declaration' = TRUE \/ step[s] = "tidy"
         /\ message' = message \/ step[s] \in {"refuse", "tidy"}
  BY DEF Control, Goes, ScriptTypeOK, InTmp, Steps
LEMMA ControlKeeps ==
  ASSUME TypeOK, ScriptTypeOK, Jobs, Seen, NEW s \in Script, Control(s), Observe,
         NEW q \in Script, ScriptInv(q)
  PROVE  ScriptInv(q)'
<1>1. /\ UNCHANGED <<phase, job, todo, writing, disk, touched>> /\ UNCHANGED vars
      /\ First(q) \in Run /\ Second(q) \in Run
  BY Runs DEF Control, vars
<1>2. /\ ProgressOf(First(q)) => ProgressOf(First(q))'
      /\ ProgressOf(Second(q)) => ProgressOf(Second(q))'
  BY <1>1, ProgressStays
<1>3. crowded[q] => crowded'[q]
  BY Observed
<1>4. faulted[q] => faulted'[q]
  BY ControlStep
<1>5. Faulted(q)' /\ OwnTree(q)'
  BY <1>1, <1>2, <1>4 DEF ScriptInv, Faulted, OwnTree, Undisturbed
<1>6. CASE q = s
  <2>1. InOrder(q)'
    BY <1>1, <1>6, ControlStep DEF ScriptInv, InOrder, InTmp, Active
  <2>2. SecondTree(q)'
    BY <1>1, <1>2, <1>3, <1>6, ControlStep DEF ScriptInv, InOrder, SecondTree, Undisturbed, InTmp
  <2>3. Probe(q)'
    BY <1>3, <1>6, ControlStep DEF ScriptInv, Probe
  <2>4. QED
    BY <1>5, <2>1, <2>2, <2>3 DEF ScriptInv
<1>7. CASE q # s
  <2>1. step'[q] = step[q]
    BY <1>7, ControlStep
  <2>2. InOrder(q)' /\ SecondTree(q)'
    BY <1>1, <1>2, <1>3, <2>1 DEF ScriptInv, InOrder, SecondTree, Undisturbed
  <2>3. step[s] \in InTmp /\ step[q] \in InTmp => crowded[q]
    BY <1>7 DEF Seen
  <2>4. Probe(q)'
    BY <1>3, <2>1, <2>3, ControlStep DEF ScriptInv, Probe, InTmp
  <2>5. QED
    BY <1>5, <2>2, <2>4 DEF ScriptInv
<1>8. QED
  BY <1>6, <1>7

-----------------------------------------------------------------------------
(* The two properties *)

\* Two directories with the compile of one document are the same to diff.
LEMMA HeldIsSame ==
  ASSUME NEW d, NEW e, NEW x, Holds(d, x), Holds(e, x)
  PROVE  Same(d, e)
<1>1. Cardinality({x}) = 1
  BY FS_Singleton, Zenon
<1>2. DOMAIN disk[d] = Files[x] /\ DOMAIN disk[e] = Files[x]
  BY DEF Holds
<1>3. ASSUME NEW f \in Files[x]
      PROVE  disk[d][f].data = disk[e][f].data /\ Cardinality(disk[d][f].data) <= 1
  <2>1. disk[d][f].data = {x} /\ disk[e][f].data = {x}
    BY DEF Holds
  <2>2. Cardinality(disk[d][f].data) = 1
    BY <1>1, <2>1
  <2>3. QED
    BY <2>1, <2>2
<1>4. QED
  BY <1>2, <1>3 DEF Same

LEMMA OwnOutput ==
  ASSUME TypeOK, Jobs, NEW s \in Script, ScriptInv(s), step[s] \notin {"first", "failed"}
  PROVE  Holds(Out[s], Stack[s])
<1>1. phase[First(s)] = "ok" /\ Undisturbed(First(s)) /\ ProgressOf(First(s))
  BY DEF ScriptInv, InOrder, OwnTree
<1>2. QED
  BY <1>1, JobValues DEF ProgressOf, At

LEMMA HarmlessKept ==
  ASSUME TypeOK, ScriptTypeOK, Jobs, NEW s \in Script, Control(s), Observe,
         ScriptInv(s), step'[s] = "failed", step[s] # "failed", ~crowded'[s]
  PROVE  faulted'[s]
<1>1. ~crowded[s] /\ First(s) \in Run /\ Second(s) \in Run
  BY Observed, Runs
<1>2. CASE step[s] \in {"first", "second"}
  BY <1>2, ControlStep DEF ScriptInv, Faulted, InTmp
<1>3. CASE step[s] = "expect"
  <2>1. Expected[s] \in DOMAIN disk[Out[s]]
    BY <1>3, OwnOutput, StackAssumption DEF Holds
  <2>2. QED
    BY <1>3, <2>1 DEF Control, Goes, ScriptTypeOK
<1>4. CASE step[s] = "diff"
  <2>1. Holds(Scratch, Stack[s])
    <3>1. phase[Second(s)] = "ok" /\ Undisturbed(Second(s)) /\ ProgressOf(Second(s))
      BY <1>1, <1>4 DEF ScriptInv, InOrder, SecondTree, InTmp
    <3>2. QED
      BY <3>1, JobValues DEF ProgressOf, At
  <2>2. Same(Out[s], Scratch)
    BY <1>4, <2>1, OwnOutput, HeldIsSame
  <2>3. QED
    BY <1>4, <2>2 DEF Control, Goes, ScriptTypeOK
<1>5. CASE step[s] = "match"
  <2>1. message
    BY <1>1, <1>5 DEF ScriptInv, Probe
  <2>2. QED
    BY <1>5, <2>1 DEF Control, Goes, ScriptTypeOK
<1>6. CASE step[s] \in {"clean", "write", "refuse", "tidy"}
  BY <1>6 DEF Control, Goes, ScriptTypeOK
<1>7. QED
  BY <1>2, <1>3, <1>4, <1>5, <1>6, ControlStep DEF InTmp

LEMMA VInvInit == ScriptInit => VInv
<1> SUFFICES ASSUME ScriptInit PROVE VInv
  OBVIOUS
<1>1. TypeOK /\ Progress
  BY TypeInit, ProgressInit DEF ScriptInit
<1>2. Jobs
  BY DEF ScriptInit, Jobs, JobOf
<1>3. ScriptTypeOK /\ Seen /\ LeftoversHarmless
  BY DEF ScriptInit, ScriptTypeOK, Steps, Seen, InTmp, LeftoversHarmless
<1>4. ASSUME NEW s \in Script PROVE ScriptInv(s)
  <2>1. /\ First(s) \in Run /\ Second(s) \in Run /\ step[s] = "first"
        /\ phase[First(s)] = "idle" /\ phase[Second(s)] = "idle"
        /\ ~touched[First(s)] /\ ~touched[Second(s)]
    BY Runs DEF ScriptInit, Init
  <2>2. InOrder(s) /\ Faulted(s) /\ Probe(s)
    BY <2>1 DEF InOrder, Faulted, Probe, InTmp, Active
  <2>3. OwnTree(s) /\ SecondTree(s)
    BY <1>1, <2>1 DEF OwnTree, SecondTree, Progress, Undisturbed, InTmp
  <2>4. QED
    BY <2>2, <2>3 DEF ScriptInv
<1>5. QED
  BY <1>1, <1>2, <1>3, <1>4 DEF VInv

LEMMA VInvStep == VInv /\ [ScriptNext]_allVars => VInv'
<1> SUFFICES ASSUME VInv, [ScriptNext]_allVars PROVE VInv'
  OBVIOUS
<1>1. /\ TypeOK /\ ScriptTypeOK /\ Jobs /\ Seen /\ LeftoversHarmless
      /\ \A s \in Script : ScriptInv(s)
  BY DEF VInv
<1>2. ASSUME NEW s \in Script, ScriptStep(s) \/ CompileFails(s) \/ Fault(s), Observe
      PROVE  VInv'
  <2>1. (\E r \in {First(s), Second(s)} : CompileStep(s, r)) \/ Cleaning(s) \/ Control(s)
    BY <1>1, <1>2, Kinds DEF ScriptInv
  <2>2. TypeOK' /\ Jobs' /\ ScriptTypeOK' /\ Seen'
    BY <1>1, <1>2, TypesKept, ScriptTypeKept, Observed DEF ScriptInv
  <2>3. \A q \in Script : ScriptInv(q)'
    BY <1>1, <1>2, <2>1, CompileKeeps, CleaningKeeps, ControlKeeps
  <2>4. LeftoversHarmless'
    <3> SUFFICES ASSUME NEW q \in Script, step'[q] = "failed", ~crowded'[q]
                 PROVE  faulted'[q]
      BY DEF LeftoversHarmless
    <3>1. faulted[q] => faulted'[q]
      BY <1>1, <2>1, ControlStep DEF CompileStep, Cleaning
    <3>2. CASE step[q] = "failed"
      BY <1>1, <1>2, <3>1, <3>2, Observed DEF LeftoversHarmless
    <3>3. CASE step[q] # "failed"
      <4>1. step' # step
        BY <3>3
      <4>2. Control(s) /\ q = s
        BY <1>1, <2>1, <3>3, <4>1, ControlStep DEF CompileStep, Cleaning
      <4>3. QED
        BY <1>1, <1>2, <3>3, <4>2, HarmlessKept
    <3>4. QED
      BY <3>2, <3>3
  <2>5. QED
    BY <2>2, <2>3, <2>4 DEF VInv
<1>3. CASE UNCHANGED allVars
  <2>1. UNCHANGED <<step, declaration, message, faulted, crowded, phase, job, touched, vars>>
    BY <1>3 DEF allVars, scripts, vars
  <2>2. TypeOK' /\ ScriptTypeOK' /\ Jobs' /\ Seen' /\ LeftoversHarmless'
    BY <1>1, <2>1 DEF vars, TypeOK, DiskOK, ScriptTypeOK, Jobs, Seen, LeftoversHarmless
  <2>3. ASSUME NEW s \in Script PROVE ScriptInv(s)'
    <3>1. /\ ProgressOf(First(s)) => ProgressOf(First(s))'
          /\ ProgressOf(Second(s)) => ProgressOf(Second(s))'
      BY <2>1, ProgressStays, Runs
    <3>2. QED
      BY <1>1, <2>1, <3>1 DEF ScriptInv, InOrder, Faulted, OwnTree, SecondTree, Probe, Undisturbed
  <2>4. QED
    BY <2>2, <2>3 DEF VInv
<1>4. QED
  BY <1>2, <1>3 DEF ScriptNext, AllScriptsEnded

LEMMA VInvariance == ScriptSpec => []VInv
  BY VInvInit, VInvStep, PTL DEF ScriptSpec

\* A verification that passes has left $OUT as the compile of its stack, however many
\* others use /tmp at the same time (compile-and-verify.sh:7-8, git-source.sh:94).
THEOREM VerdictIsSound == ScriptSpec => []VerdictSound
<1>1. VInv => VerdictSound
  BY OwnOutput DEF VInv, VerdictSound
<1>2. QED
  BY <1>1, VInvariance, PTL

\* One that is alone in /tmp fails only by a fault of its own, whatever earlier ones
\* have left there (compile-and-verify.sh:24-26, 45-51).
THEOREM LeftoversAreHarmless == ScriptSpec => []LeftoversHarmless
  BY VInvariance, PTL DEF VInv
=============================================================================
