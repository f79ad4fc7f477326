--------------------------- MODULE OutputDirProofs ---------------------------
(***************************************************************************)
(* What OutputDir promises, for every set of processes, directories and    *)
(* documents: the type invariant, and CompleteTree from the inductive      *)
(* invariant Progress, which says how far a process nobody disturbed has   *)
(* got.                                                                    *)
(***************************************************************************)
EXTENDS OutputDir, TLAPS

Undisturbed(r) == ~touched[r]

\* A process that clears has all of its files to write.
ClearProgress(r) ==
    /\ todo[r] = Files[job[r].doc]
    /\ writing[r] = NoFile

\* A process that writes has written the files it no longer has to, and the one it
\* has open is empty and its own.
WriteProgress(r) ==
    /\ todo[r] \subseteq Files[job[r].doc]
    /\ DOMAIN DirOf(r) = Files[job[r].doc] \ todo[r]
    /\ \A f \in DOMAIN DirOf(r) : f # writing[r] => DirOf(r)[f].data = {job[r].doc}
    /\ writing[r] # NoFile =>
         /\ writing[r] \in DOMAIN DirOf(r)
         /\ DirOf(r)[writing[r]].data = {}
         /\ r \in DirOf(r)[writing[r]].open

ProgressOf(r) ==
    Undisturbed(r) =>
      /\ phase[r] \in {"idle", "compile"} => writing[r] = NoFile
      /\ At(r, "clear") => ClearProgress(r)
      /\ At(r, "write") => WriteProgress(r)
      /\ At(r, "ok") => Holds(job[r].dir, job[r].doc)
Progress == \A r \in Run : ProgressOf(r)

IInv == TypeOK /\ Progress

\* A process never writes but to its job's directory, with its arguments unchanged.
LEMMA JobConstant == ASSUME Next PROVE job' = job
  BY DEF Next, Step, Start, Refuse, Compiled, RemoveEntry, Cleared, OpenFile, FillFile,
         Written, Stop, AllEnded, vars

-----------------------------------------------------------------------------

LEMMA TypeInit == Init => TypeOK
  BY DEF Init, TypeOK, DiskOK, Phases

\* A write to one directory of a map of the right type keeps DiskOK.
LEMMA SetDirType ==
  ASSUME TypeOK, NEW r \in Run, NEW S \in SUBSET File, NEW content \in [S -> Entry],
         SetDir(r, content)
  PROVE  DiskOK'
<1>1. job[r].dir \in Dir
  BY DEF TypeOK
<1>2. disk' = [disk EXCEPT ![job[r].dir] = content]
  BY DEF SetDir
<1>3. \A d \in Dir : disk'[d] = IF d = job[r].dir THEN content ELSE disk[d]
  BY <1>1, <1>2 DEF TypeOK, DiskOK
<1>4. disk' = [d \in Dir |-> disk'[d]]
  BY <1>2, <1>3 DEF TypeOK, DiskOK
<1>5. DOMAIN content = S
  OBVIOUS
<1>6. ASSUME NEW d \in Dir
      PROVE  DOMAIN disk'[d] \subseteq File /\ disk'[d] \in [DOMAIN disk'[d] -> Entry]
  <2>1. CASE d = job[r].dir
    BY <1>3, <1>5, <2>1
  <2>2. CASE d # job[r].dir
    BY <1>3, <2>2 DEF TypeOK, DiskOK
  <2>3. QED
    BY <2>1, <2>2
<1>7. QED
  BY <1>4, <1>6 DEF DiskOK

LEMMA TouchType == ASSUME TypeOK, NEW r \in Run, Touch(r) PROVE touched' \in [Run -> BOOLEAN]
  BY Zenon DEF Touch

LEMMA DirType == ASSUME TypeOK, NEW r \in Run
                 PROVE  DOMAIN DirOf(r) \subseteq File /\ DirOf(r) \in [DOMAIN DirOf(r) -> Entry]
<1>1. job[r].dir \in Dir
  BY DEF TypeOK
<1>2. QED
  BY <1>1 DEF TypeOK, DiskOK, DirOf

\* Filling a file adds the writer's document, closes it, and leaves the others.
LEMMA FilledType ==
  ASSUME TypeOK, NEW r \in Run, Holding(r)
  PROVE  /\ Filled(r) \in [DOMAIN DirOf(r) -> Entry]
         /\ Filled(r)[writing[r]].data = DirOf(r)[writing[r]].data \cup {job[r].doc}
         /\ \A g \in DOMAIN DirOf(r) : g # writing[r] => Filled(r)[g] = DirOf(r)[g]
<1>1. DirOf(r)[writing[r]] \in Entry /\ job[r].doc \in Doc
  BY DirType DEF Holding, TypeOK
<1>2. QED
  BY <1>1, DirType DEF Filled, Holding, Entry

LEMMA TypeStep == TypeOK /\ [Next]_vars => TypeOK'
<1> SUFFICES ASSUME TypeOK, [Next]_vars PROVE TypeOK'
  OBVIOUS
<1> USE FilesAssumption, NoFileAssumption
<1>1. ASSUME NEW r \in Run, Start(r) PROVE TypeOK'
  BY <1>1 DEF Start, At, Goto, Phases, TypeOK, DiskOK
<1>2. ASSUME NEW r \in Run, Refuse(r) PROVE TypeOK'
  BY <1>2 DEF Refuse, At, Goto, Phases, TypeOK, DiskOK
<1>3. ASSUME NEW r \in Run, Compiled(r) PROVE TypeOK'
  BY <1>3 DEF Compiled, At, Goto, Phases, TypeOK, DiskOK
<1>4. ASSUME NEW r \in Run, RemoveEntry(r) PROVE TypeOK'
  <2>1. PICK f \in DOMAIN DirOf(r) : SetDir(r, [g \in DOMAIN DirOf(r) \ {f} |-> DirOf(r)[g]])
    BY <1>4 DEF RemoveEntry
  <2>2. [g \in DOMAIN DirOf(r) \ {f} |-> DirOf(r)[g]] \in [DOMAIN DirOf(r) \ {f} -> Entry]
    BY DirType
  <2>3. DiskOK'
    BY <2>1, <2>2, SetDirType, DirType
  <2>4. QED
    BY <1>4, <2>3, TouchType DEF RemoveEntry, TypeOK
<1>5. ASSUME NEW r \in Run, Cleared(r) PROVE TypeOK'
  BY <1>5 DEF Cleared, At, Goto, Phases, TypeOK, DiskOK
<1>6. ASSUME NEW r \in Run, OpenFile(r) PROVE TypeOK'
  <2>1. PICK f \in todo[r] : /\ SetDir(r, Opened(r, f))
                             /\ writing' = [writing EXCEPT ![r] = f]
                             /\ todo' = [todo EXCEPT ![r] = @ \ {f}]
    BY <1>6, Zenon DEF OpenFile
  <2>2. f \in File
    BY DEF TypeOK
  <2>3. DOMAIN DirOf(r) \cup {f} \in SUBSET File
    BY <2>2, DirType
  <2>4. Opened(r, f) \in [DOMAIN DirOf(r) \cup {f} -> Entry]
    BY DirType DEF Opened, Entry
  <2>5. DiskOK'
    BY <2>1, <2>3, <2>4, SetDirType
  <2>6. QED
    BY <1>6, <2>1, <2>2, <2>5, TouchType DEF OpenFile, TypeOK
<1>7. ASSUME NEW r \in Run, FillFile(r) PROVE TypeOK'
  <2>1. phase' = phase /\ job' = job /\ todo' = todo /\ writing' = [writing EXCEPT ![r] = NoFile]
    BY <1>7 DEF FillFile
  <2>2. CASE ~Holding(r)
    BY <1>7, <2>1, <2>2 DEF FillFile, TypeOK, DiskOK
  <2>3. CASE Holding(r)
    <3>1. SetDir(r, Filled(r)) /\ Touch(r)
      BY <1>7, <2>3, Zenon DEF FillFile
    <3>2. Filled(r) \in [DOMAIN DirOf(r) -> Entry]
      BY <2>3, FilledType
    <3>3. DOMAIN DirOf(r) \in SUBSET File
      BY DirType
    <3>4. DiskOK'
      BY <3>1, <3>2, <3>3, SetDirType
    <3>5. QED
      BY <2>1, <3>1, <3>4, TouchType DEF TypeOK
  <2>4. QED
    BY <2>2, <2>3
<1>8. ASSUME NEW r \in Run, Written(r) PROVE TypeOK'
  BY <1>8 DEF Written, At, Goto, Phases, TypeOK, DiskOK
<1>9. ASSUME NEW r \in Run, Stop(r) PROVE TypeOK'
  BY <1>9 DEF Stop, Goto, Phases, TypeOK, DiskOK
<1>10. CASE UNCHANGED vars
  BY <1>10 DEF vars, TypeOK, DiskOK
<1>11. QED
  BY <1>1, <1>2, <1>3, <1>4, <1>5, <1>6, <1>7, <1>8, <1>9, <1>10 DEF Next, Step, AllEnded

\* Every variable keeps its type (the state of cmd/d7s/main.go's processes and of
\* the directories they share).
THEOREM TypeCorrect == Spec => []TypeOK
<1>1. QED
  BY TypeInit, TypeStep, PTL DEF Spec

-----------------------------------------------------------------------------

\* What r does to the directories, in whatever action, is a change of its own
\* directory that Touch records, or nothing; and the rest of q's state is q's.
Leaves(r, q) ==
    /\ phase'[q] = phase[q]
    /\ todo'[q] = todo[q]
    /\ writing'[q] = writing[q]
    /\ job' = job
    /\ \/ disk' = disk /\ touched' = touched
       \/ Touch(r) /\ \E content : SetDir(r, content)

\* A step of r leaves the progress of another process, or marks it disturbed.
LEMMA OthersProgress ==
  ASSUME TypeOK, NEW r \in Run, NEW q \in Run, q # r, ProgressOf(q), Leaves(r, q)
  PROVE  ProgressOf(q)'
<1> SUFFICES ASSUME Undisturbed(q)'
             PROVE  ProgressOf(q)'
  BY DEF ProgressOf
<1>1. CASE disk' = disk /\ touched' = touched
  BY <1>1 DEF Leaves, ProgressOf, Undisturbed, At, ClearProgress, WriteProgress, Holds, DirOf
<1>2. CASE Touch(r) /\ \E content : SetDir(r, content)
  <2>1. ~touched[q] /\ ~(job[q].dir = job[r].dir /\ phase[q] \in {"clear", "write", "ok"})
    BY <1>2, Zenon DEF Touch, Undisturbed
  <2>2. CASE phase[q] \in {"clear", "write", "ok"}
    <3>1. disk'[job[q].dir] = disk[job[q].dir]
      BY <1>2, <2>1, <2>2 DEF SetDir, TypeOK, DiskOK
    <3>2. QED
      BY <2>1, <2>2, <3>1 DEF Leaves, ProgressOf, Undisturbed, At, ClearProgress,
                              WriteProgress, Holds, DirOf
  <2>3. CASE phase[q] \notin {"clear", "write", "ok"}
    BY <2>1, <2>3 DEF Leaves, ProgressOf, Undisturbed, At
  <2>4. QED
    BY <2>2, <2>3
<1>3. QED
  BY <1>1, <1>2 DEF Leaves

\* A step of r leaves the others alone in that sense.
LEMMA StepLeaves ==
  ASSUME TypeOK, NEW r \in Run, Step(r) \/ Stop(r), NEW q \in Run, q # r
  PROVE  Leaves(r, q)
<1> USE DEF TypeOK
<1>1. CASE Start(r) \/ Refuse(r) \/ Compiled(r) \/ Cleared(r) \/ Written(r) \/ Stop(r)
  BY <1>1 DEF Start, Refuse, Compiled, Cleared, Written, Stop, Goto, Leaves
<1>2. CASE RemoveEntry(r)
  BY <1>2, Zenon DEF RemoveEntry, Leaves
<1>3. CASE OpenFile(r)
  <2>1. phase' = phase /\ job' = job /\ Touch(r) /\ \E content : SetDir(r, content)
    BY <1>3, Zenon DEF OpenFile
  <2>2. todo'[q] = todo[q] /\ writing'[q] = writing[q]
    BY <1>3 DEF OpenFile
  <2>3. QED
    BY <2>1, <2>2 DEF Leaves
<1>4. CASE FillFile(r)
  <2>1. /\ phase' = phase /\ job' = job /\ todo' = todo
        /\ \/ disk' = disk /\ touched' = touched
           \/ Touch(r) /\ \E content : SetDir(r, content)
    BY <1>4, Zenon DEF FillFile
  <2>2. writing'[q] = writing[q]
    BY <1>4 DEF FillFile
  <2>3. QED
    BY <2>1, <2>2 DEF Leaves
<1>5. QED
  BY <1>1, <1>2, <1>3, <1>4 DEF Step

\* A process that changes only its directory is its own witness: it is disturbed
\* after the step only if it was before.
LEMMA OwnDisturbance ==
  ASSUME TypeOK, NEW r \in Run, Touch(r) \/ touched' = touched, Undisturbed(r)'
  PROVE  Undisturbed(r)
  BY Zenon DEF Touch, Undisturbed

LEMMA OwnDirectory ==
  ASSUME TypeOK, NEW r \in Run, NEW content, SetDir(r, content), job' = job
  PROVE  DirOf(r)' = content
  BY DEF TypeOK, DiskOK, SetDir, DirOf

\* A step of r, undisturbed, is progress.
LEMMA OwnProgress ==
  ASSUME TypeOK, NEW r \in Run, ProgressOf(r), Step(r) \/ Stop(r)
  PROVE  ProgressOf(r)'
<1> SUFFICES ASSUME Undisturbed(r)'
             PROVE  ProgressOf(r)'
  BY DEF ProgressOf
<1> USE FilesAssumption, NoFileAssumption
<1>0. Undisturbed(r) /\ ProgressOf(r) /\ TypeOK
  <2>1. Touch(r) \/ touched' = touched
    BY Zenon DEF Step, Stop, Start, Refuse, Compiled, RemoveEntry, Cleared, OpenFile, FillFile, Written
  <2>2. QED
    BY <2>1, OwnDisturbance
<1>1. CASE Start(r)
  BY <1>0, <1>1 DEF Start, At, Goto, ProgressOf, TypeOK
<1>2. CASE Refuse(r)
  BY <1>0, <1>2 DEF Refuse, At, Goto, ProgressOf, TypeOK
<1>3. CASE Compiled(r)
  BY <1>0, <1>3 DEF Compiled, At, Goto, ProgressOf, ClearProgress, TypeOK
<1>4. CASE RemoveEntry(r)
  BY <1>0, <1>4 DEF RemoveEntry, At, ProgressOf, ClearProgress
<1>5. CASE Cleared(r)
  <2>1. WriteProgress(r)'
    BY <1>0, <1>5 DEF Cleared, At, ProgressOf, ClearProgress, WriteProgress, DirOf
  <2>2. QED
    BY <1>0, <1>5, <2>1 DEF Cleared, At, Goto, ProgressOf, TypeOK
<1>6. CASE OpenFile(r)
  <2>1. PICK f \in todo[r] : /\ SetDir(r, Opened(r, f))
                             /\ writing' = [writing EXCEPT ![r] = f]
                             /\ todo' = [todo EXCEPT ![r] = @ \ {f}]
    BY <1>6, Zenon DEF OpenFile
  <2>2. /\ phase' = phase /\ job' = job /\ At(r, "write") /\ writing[r] = NoFile
        /\ writing'[r] = f /\ todo'[r] = todo[r] \ {f}
    BY <1>0, <1>6, <2>1 DEF OpenFile, TypeOK
  <2>3. DirOf(r)' = Opened(r, f)
    BY <2>1, <2>2, OwnDirectory
  <2>4. WriteProgress(r)
    BY <1>0, <2>2 DEF ProgressOf
  <2>5. f \in Files[job[r].doc] /\ f # NoFile
    BY <1>0, <2>4 DEF WriteProgress, TypeOK
  <2>6. DOMAIN Opened(r, f) = Files[job[r].doc] \ (todo[r] \ {f})
    BY <2>4, <2>5 DEF Opened, WriteProgress
  <2>7. \A g \in DOMAIN Opened(r, f) : g # f => Opened(r, f)[g].data = {job[r].doc}
    <3>1. NoFile \notin DOMAIN DirOf(r)
      BY <1>0, <2>4 DEF WriteProgress, TypeOK
    <3>2. QED
      BY <2>2, <2>4, <3>1 DEF Opened, WriteProgress
  <2>8. f \in DOMAIN Opened(r, f) /\ Opened(r, f)[f].data = {} /\ r \in Opened(r, f)[f].open
    BY DEF Opened
  <2>9. WriteProgress(r)'
    BY <2>2, <2>3, <2>4, <2>6, <2>7, <2>8 DEF WriteProgress
  <2>10. QED
    BY <2>2, <2>9 DEF ProgressOf, At
<1>7. CASE FillFile(r)
  <2>1. WriteProgress(r) /\ writing[r] # NoFile
    BY <1>0, <1>7 DEF FillFile, ProgressOf
  <2>2. Holding(r) /\ DirOf(r)[writing[r]].data = {}
    BY <2>1 DEF WriteProgress, Holding
  <2>3. SetDir(r, Filled(r)) /\ phase' = phase /\ job' = job /\ todo' = todo
    BY <1>7, <2>2, Zenon DEF FillFile
  <2>4. writing'[r] = NoFile
    BY <1>0, <1>7 DEF FillFile, TypeOK
  <2>5. DirOf(r)' = Filled(r)
    BY <2>3, OwnDirectory
  <2>6. /\ DOMAIN Filled(r) = DOMAIN DirOf(r)
        /\ \A g \in DOMAIN Filled(r) : Filled(r)[g].data = {job[r].doc}
    BY <1>0, <2>1, <2>2, FilledType DEF WriteProgress
  <2>7. WriteProgress(r)'
    BY <2>1, <2>3, <2>4, <2>5, <2>6 DEF WriteProgress
  <2>8. QED
    BY <1>7, <2>3, <2>7 DEF ProgressOf, At, FillFile
<1>8. CASE Written(r)
  <2>1. WriteProgress(r) /\ todo[r] = {} /\ writing[r] = NoFile
    BY <1>0, <1>8 DEF Written, ProgressOf
  <2>2. NoFile \notin Files[job[r].doc]
    BY <1>0 DEF TypeOK
  <2>3. Holds(job[r].dir, job[r].doc)
    BY <2>1, <2>2 DEF WriteProgress, Holds, DirOf
  <2>4. QED
    BY <1>0, <1>8, <2>3 DEF Written, At, Goto, ProgressOf, Holds, TypeOK
<1>9. CASE Stop(r)
  BY <1>0, <1>9 DEF Stop, At, Goto, ProgressOf, TypeOK
<1>10. QED
  BY <1>1, <1>2, <1>3, <1>4, <1>5, <1>6, <1>7, <1>8, <1>9 DEF Step

LEMMA ProgressStep == IInv /\ [Next]_vars => Progress'
<1> SUFFICES ASSUME IInv, [Next]_vars PROVE Progress'
  OBVIOUS
<1>1. ASSUME NEW r \in Run, Step(r) \/ Stop(r) PROVE Progress'
  <2>1. \A q \in Run : q # r => ProgressOf(q)'
    BY <1>1, StepLeaves, OthersProgress DEF IInv, Progress
  <2>2. ProgressOf(r)'
    BY <1>1, OwnProgress DEF IInv, Progress
  <2>3. QED
    BY <2>1, <2>2 DEF Progress
<1>2. CASE UNCHANGED vars
  BY <1>2 DEF vars, IInv, Progress, ProgressOf, Undisturbed, At, ClearProgress, WriteProgress, Holds, DirOf
<1>3. QED
  BY <1>1, <1>2 DEF Next, AllEnded

LEMMA ProgressInit == Init => Progress
  BY DEF Init, Progress, ProgressOf, At

\* main.go's writeManifests: a compile that exits 0 with its directory to itself
\* leaves exactly its document's files, whatever earlier compiles, failed ones and
\* killed ones left there, and however many of them there are.
THEOREM TreeIsComplete == Spec => []CompleteTree
<1>1. Init => IInv
  BY TypeInit, ProgressInit DEF IInv
<1>2. IInv /\ [Next]_vars => IInv'
  BY TypeStep, ProgressStep DEF IInv
<1>3. IInv => CompleteTree
  BY DEF IInv, Progress, ProgressOf, Undisturbed, CompleteTree
<1>4. QED
  BY <1>1, <1>2, <1>3, PTL DEF Spec

-----------------------------------------------------------------------------

\* A process gets as far as its directory only with a document that compiled.
OnlyCompiledWork == \A r \in Run : phase[r] \in {"clear", "write"} => Files[job[r].doc] # {}
WInv == TypeOK /\ OnlyCompiledWork

LEMMA WorkStep == WInv /\ [Next]_vars => OnlyCompiledWork'
<1> SUFFICES ASSUME WInv, [Next]_vars PROVE OnlyCompiledWork'
  OBVIOUS
<1>1. ASSUME NEW r \in Run, Step(r) \/ Stop(r), NEW q \in Run
      PROVE  phase'[q] \in {"clear", "write"} => Files[job'[q].doc] # {}
  BY <1>1 DEF WInv, OnlyCompiledWork, TypeOK, Step, Stop, Start, Refuse, Compiled, RemoveEntry, Cleared,
              OpenFile, FillFile, Written, At, Goto
<1>2. CASE UNCHANGED vars
  BY <1>2 DEF vars, WInv, OnlyCompiledWork
<1>3. QED
  BY <1>1, <1>2 DEF OnlyCompiledWork, Next, AllEnded

\* A directory changes only by the hand of a process that clears or writes it.
LEMMA WhoChanges ==
  ASSUME WInv, [Next]_vars, NEW d \in Dir, disk'[d] # disk[d]
  PROVE  \E r \in Run : job[r].dir = d /\ phase[r] \in {"clear", "write"}
<1>1. ASSUME NEW r \in Run, NEW content, SetDir(r, content)
      PROVE  job[r].dir = d
  BY <1>1 DEF SetDir, WInv, TypeOK, DiskOK
<1>2. PICK r \in Run : RemoveEntry(r) \/ OpenFile(r) \/ FillFile(r)
  BY DEF Next, Step, Start, Refuse, Compiled, Cleared, Written, Stop, AllEnded, vars
<1>3. At(r, "clear") \/ At(r, "write")
  BY <1>2 DEF RemoveEntry, OpenFile, FillFile
<1>4. \E content : SetDir(r, content)
  BY <1>2, Zenon DEF RemoveEntry, OpenFile, FillFile
<1>5. QED
  BY <1>1, <1>3, <1>4 DEF At

\* main.go's order of Load, Compile and writeManifests: however many compiles share
\* a directory, a complete tree is lost only to one whose document compiled.
THEOREM RefusalIsHarmless == Spec => RefusalKeepsOutput
<1>1. Init => WInv
  BY TypeInit DEF Init, WInv, OnlyCompiledWork
<1>2. WInv /\ [Next]_vars => WInv'
  BY TypeStep, WorkStep DEF WInv
<1> DEFINE Kept ==
      \A d \in Dir : \A x \in Doc :
        Files[x] # {} /\ Holds(d, x) /\ ~Holds(d, x)' =>
          \E r \in Run : job[r].dir = d /\ phase[r] \in {"clear", "write"} /\ Files[job[r].doc] # {}
<1>3. WInv /\ [Next]_vars => [Kept]_vars
  <2> SUFFICES ASSUME WInv, [Next]_vars, NEW d \in Dir, NEW x \in Doc, Holds(d, x), ~Holds(d, x)'
               PROVE  \E r \in Run : job[r].dir = d /\ phase[r] \in {"clear", "write"} /\ Files[job[r].doc] # {}
    OBVIOUS
  <2>1. disk'[d] # disk[d]
    BY DEF Holds
  <2>2. QED
    BY <2>1, WhoChanges DEF WInv, OnlyCompiledWork
<1>4. QED
  BY <1>1, <1>2, <1>3, PTL DEF Spec, RefusalKeepsOutput
=============================================================================
