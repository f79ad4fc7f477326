------------------------------ MODULE OutputDir ------------------------------
(***************************************************************************)
(* Processes `d7s compile <file> -o <dir>` that share a file system        *)
(* (cmd/d7s/main.go).  The compile itself touches nothing but the          *)
(* process's memory, so it is one step here (FluxEmitter opens it up);     *)
(* writeManifests then removes the directory and writes the files one by   *)
(* one, in the order of a Go map, with no lock and no rename.  An operator *)
(* <name>_<bug> is <name> with a bug that a property has to notice.        *)
(***************************************************************************)
EXTENDS Naturals, FiniteSets

CONSTANTS
    Run,        \* the processes
    Dir,        \* output directories
    Doc,        \* documents
    File,       \* paths below an output directory
    NoFile,     \* a process has no file open
    Files       \* the paths the compile of a document emits; {} if it is refused

ASSUME FilesAssumption == Files \in [Doc -> SUBSET File]
ASSUME NoFileAssumption == NoFile \notin File

VARIABLES
    phase,      \* of each process
    job,        \* its arguments: the document and the directory
    todo,       \* the files it has still to write
    writing,    \* the file it has open, if any
    disk,       \* the files of each directory
    touched     \* history: has another process changed the directory since
                \* this one began to clear it?

vars == <<phase, job, todo, writing, disk, touched>>

(***************************************************************************)
(* A file is the processes that hold it open and the documents whose       *)
(* output it holds: WriteFile truncates what exists, so two writers of one *)
(* file mix their bytes, and the one that truncates last need not be the   *)
(* last to write.                                                          *)
(***************************************************************************)
Entry == [open : SUBSET Run, data : SUBSET Doc]

Phases == {"idle", "compile", "clear", "write", "ok", "error", "killed"}
Active == {"compile", "clear", "write"}

Init ==
    /\ phase = [r \in Run |-> "idle"]
    /\ job \in [Run -> [doc : Doc, dir : Dir]]
    /\ todo = [r \in Run |-> {}]
    /\ writing = [r \in Run |-> NoFile]
    /\ disk = [d \in Dir |-> [f \in {} |-> f]]
    /\ touched = [r \in Run |-> FALSE]

At(r, p) == phase[r] = p
Goto(r, p) == phase' = [phase EXCEPT ![r] = p]
DirOf(r) == disk[job[r].dir]

\* What a change of r's directory means to the other processes.
Touch(r) ==
    touched' = [q \in Run |->
                  \/ touched[q]
                  \/ /\ q # r
                     /\ job[q].dir = job[r].dir
                     /\ phase[q] \in {"clear", "write", "ok"}]
SetDir(r, content) == disk' = [disk EXCEPT ![job[r].dir] = content]

-----------------------------------------------------------------------------
\* run, runCompile: arguments, ReadFile.
Start(r) ==
    /\ At(r, "idle")
    /\ Goto(r, "compile")
    /\ UNCHANGED <<job, todo, writing, disk, touched>>

\* Load or Compile refused: exit 1 before any side effect.
Refuse(r) ==
    /\ At(r, "compile")
    /\ Files[job[r].doc] = {}
    /\ Goto(r, "error")
    /\ UNCHANGED <<job, todo, writing, disk, touched>>

Compiled_unchecked(r) ==
    /\ At(r, "compile")
    /\ Goto(r, "clear")
    /\ todo' = [todo EXCEPT ![r] = Files[job[r].doc]]
    /\ UNCHANGED <<job, writing, disk, touched>>
Compiled(r) ==
    /\ At(r, "compile")
    /\ Files[job[r].doc] # {}
    /\ Goto(r, "clear")
    /\ todo' = [todo EXCEPT ![r] = Files[job[r].doc]]
    /\ UNCHANGED <<job, writing, disk, touched>>

\* os.RemoveAll: unlinks entry by entry, and returns once it finds none.
RemoveEntry(r) ==
    /\ At(r, "clear")
    /\ \E f \in DOMAIN DirOf(r) :
         SetDir(r, [g \in DOMAIN DirOf(r) \ {f} |-> DirOf(r)[g]])
    /\ Touch(r)
    /\ UNCHANGED <<phase, job, todo, writing>>

Cleared_early(r) ==
    /\ At(r, "clear")
    /\ Goto(r, "write")
    /\ UNCHANGED <<job, todo, writing, disk, touched>>
Cleared(r) ==
    /\ At(r, "clear")
    /\ DOMAIN DirOf(r) = {}
    /\ Goto(r, "write")
    /\ UNCHANGED <<job, todo, writing, disk, touched>>

\* os.WriteFile opens the file, creating or truncating it ...
Opened(r, f) ==
    LET holders == IF f \in DOMAIN DirOf(r) THEN DirOf(r)[f].open ELSE {}
    IN  [g \in DOMAIN DirOf(r) \cup {f} |->
           IF g = f THEN [open |-> holders \cup {r}, data |-> {}] ELSE DirOf(r)[g]]

OpenFile_again(r) ==
    /\ At(r, "write")
    /\ writing[r] = NoFile
    /\ \E f \in todo[r] :
         /\ SetDir(r, Opened(r, f))
         /\ writing' = [writing EXCEPT ![r] = f]
    /\ Touch(r)
    /\ UNCHANGED <<phase, job, todo>>
OpenFile(r) ==
    /\ At(r, "write")
    /\ writing[r] = NoFile
    /\ \E f \in todo[r] :
         /\ SetDir(r, Opened(r, f))
         /\ writing' = [writing EXCEPT ![r] = f]
         /\ todo' = [todo EXCEPT ![r] = @ \ {f}]
    /\ Touch(r)
    /\ UNCHANGED <<phase, job>>

\* ... and writes it; an unlinked file takes the bytes with it.
Holding(r) == writing[r] \in DOMAIN DirOf(r) /\ r \in DirOf(r)[writing[r]].open
Filled_wholeJob(r) ==
    [DirOf(r) EXCEPT ![writing[r]] = [open |-> @.open \ {r}, data |-> @.data \cup {job[r]}]]
Filled(r) ==
    [DirOf(r) EXCEPT ![writing[r]] = [open |-> @.open \ {r}, data |-> @.data \cup {job[r].doc}]]

FillFile(r) ==
    /\ At(r, "write")
    /\ writing[r] # NoFile
    /\ IF Holding(r)
       THEN SetDir(r, Filled(r)) /\ Touch(r)
       ELSE UNCHANGED <<disk, touched>>
    /\ writing' = [writing EXCEPT ![r] = NoFile]
    /\ UNCHANGED <<phase, job, todo>>

Written(r) ==
    /\ At(r, "write")
    /\ writing[r] = NoFile
    /\ todo[r] = {}
    /\ Goto(r, "ok")
    /\ UNCHANGED <<job, todo, writing, disk, touched>>

\* ReadFile, RemoveAll, MkdirAll or WriteFile fails, or the process is killed; what
\* it had done stays.
Stop(r) ==
    /\ phase[r] \in Active
    /\ \E p \in {"error", "killed"} : Goto(r, p)
    /\ UNCHANGED <<job, todo, writing, disk, touched>>

Step(r) ==
    \/ Start(r)
    \/ Refuse(r)
    \/ Compiled(r)
    \/ RemoveEntry(r)
    \/ Cleared(r)
    \/ OpenFile(r)
    \/ FillFile(r)
    \/ Written(r)

AllEnded == (\A r \in Run : phase[r] \in {"ok", "error", "killed"}) /\ UNCHANGED vars

Next == (\E r \in Run : Step(r) \/ Stop(r)) \/ AllEnded

Spec == Init /\ [][Next]_vars
\* The scheduler runs every process that can run.
FairSpec == Spec /\ \A r \in Run : WF_vars(Step(r))

-----------------------------------------------------------------------------
(* Properties                                                              *)

\* The type invariant.
DiskOK ==
    /\ disk = [d \in Dir |-> disk[d]]
    /\ \A d \in Dir : DOMAIN disk[d] \subseteq File /\ disk[d] \in [DOMAIN disk[d] -> Entry]
TypeOK ==
    /\ phase \in [Run -> Phases]
    /\ job \in [Run -> [doc : Doc, dir : Dir]]
    /\ todo \in [Run -> SUBSET File]
    /\ writing \in [Run -> File \cup {NoFile}]
    /\ DiskOK
    /\ touched \in [Run -> BOOLEAN]

\* The directory holds exactly the output of document x.
Holds(d, x) ==
    /\ DOMAIN disk[d] = Files[x]
    /\ \A f \in Files[x] : disk[d][f].data = {x}

\* A compile that exits 0 leaves exactly its document's files, whatever an earlier,
\* failed or killed compile left there, as long as no other process used the
\* directory meanwhile.
CompleteTree ==
    \A r \in Run : At(r, "ok") /\ ~touched[r] => Holds(job[r].dir, job[r].doc)

\* A refused document never costs the output of an earlier one: a complete tree is
\* lost only to a process whose own document compiled.
RefusalKeepsOutput ==
    [][\A d \in Dir : \A x \in Doc :
         Files[x] # {} /\ Holds(d, x) /\ ~Holds(d, x)' =>
           \E r \in Run : job[r].dir = d /\ phase[r] \in {"clear", "write"} /\ Files[job[r].doc] # {}]_vars

\* No compile hangs, whatever the others do to its directory.
EveryCompileEnds == \A r \in Run : At(r, "idle") ~> phase[r] \in {"ok", "error", "killed"}
=============================================================================
