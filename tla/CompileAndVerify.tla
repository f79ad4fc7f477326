-------------------------- MODULE CompileAndVerify ---------------------------
(***************************************************************************)
(* Runs of scripts/actions/compile-and-verify.sh, each over two compiles   *)
(* of OutputDir: the documented one into its $OUT, and a second one into a *)
(* directory below /tmp that all runs share, as they share the files of    *)
(* the probes.  The two probes have one form; one is modelled.  diff is    *)
(* one step.  An operator <name>_<bug> is <name> with a bug that a         *)
(* property has to notice.                                                 *)
(***************************************************************************)
EXTENDS OutputDir

CONSTANTS
    Script,     \* the runs of compile-and-verify
    Stack,      \* the document each compiles: its $STACK ...
    Out,        \* ... into its $OUT
    Scratch,    \* /tmp/d7s-out-2
    Expected    \* EXPECT_FILE, one of the files of each run's document

First(s) == <<s, 1>>
Second(s) == <<s, 2>>

ASSUME RunAssumption == Run = Script \X {1, 2}
ASSUME StackAssumption == Stack \in [Script -> Doc] /\ \A s \in Script : Expected[s] \in Files[Stack[s]]
ASSUME OutAssumption ==
    /\ Out \in [Script -> Dir \ {Scratch}]
    /\ \A s, q \in Script : s # q => Out[s] # Out[q]

VARIABLES
    step,       \* of each script
    declaration,\* /tmp/d7s-bad-rpo.yaml is there and whole
    message,    \* /tmp/d7s-bad-rpo.err is there and holds the refusal
    faulted,    \* history: a command failed or the script was killed
    crowded     \* history: another script used /tmp while this one did

scripts == <<step, declaration, message, faulted>>
allVars == <<vars, scripts, crowded>>

InTmp == {"second", "diff", "clean", "write", "refuse", "match", "tidy"}
Steps == {"first", "expect", "passed", "failed"} \cup InTmp

ScriptInit ==
    /\ Init
    /\ job = [r \in Run |-> [doc |-> Stack[r[1]],
                             dir |-> IF r = First(r[1]) THEN Out[r[1]] ELSE Scratch]]
    /\ step = [s \in Script |-> "first"]
    /\ declaration = FALSE /\ message = FALSE
    /\ faulted = [s \in Script |-> FALSE]
    /\ crowded = [s \in Script |-> FALSE]

Go(s, to) == step' = [step EXCEPT ![s] = to]
\* What errexit makes of a command that found what it should not have.
Check(s, holds, to) == Go(s, IF holds THEN to ELSE "failed")

\* A compile that has been started takes its steps.
Compiling(r) == Step(r) /\ ~At(r, "idle") /\ UNCHANGED scripts

Launch(s, r, during) ==
    /\ step[s] = during
    /\ Start(r)
    /\ UNCHANGED scripts
Collect_anyway(s, r, during, to) ==
    /\ step[s] = during
    /\ phase[r] \in {"ok", "error", "killed"}
    /\ Go(s, to)
    /\ UNCHANGED <<vars, declaration, message, faulted>>
Collect(s, r, during, to) ==
    /\ step[s] = during
    /\ phase[r] \in {"ok", "error", "killed"}
    /\ Check(s, phase[r] = "ok", to)
    /\ UNCHANGED <<vars, declaration, message, faulted>>

\* test -f "$EXPECT_FILE"
Expect(s) ==
    /\ step[s] = "expect"
    /\ Check(s, Expected[s] \in DOMAIN disk[Out[s]], "second")
    /\ UNCHANGED <<vars, declaration, message, faulted>>

\* diff -rq: the same paths with the same bytes, those of one document.
Same(d, e) ==
    /\ DOMAIN disk[d] = DOMAIN disk[e]
    /\ \A f \in DOMAIN disk[d] :
         disk[d][f].data = disk[e][f].data /\ Cardinality(disk[d][f].data) <= 1
Diff(s) ==
    /\ step[s] = "diff"
    /\ Check(s, Same(Out[s], Scratch), "clean")
    /\ UNCHANGED <<vars, declaration, message, faulted>>

\* rm -rf /tmp/d7s-out-2
Clean(s) ==
    /\ step[s] = "clean"
    /\ IF DOMAIN disk[Scratch] = {}
       THEN Go(s, "write") /\ UNCHANGED <<disk, touched>>
       ELSE /\ \E f \in DOMAIN disk[Scratch] :
                 SetDir(Second(s), [g \in DOMAIN disk[Scratch] \ {f} |-> disk[Scratch][g]])
            /\ Touch(Second(s))
            /\ UNCHANGED step
    /\ UNCHANGED <<phase, job, todo, writing, declaration, message, faulted>>

\* The probe: a declaration that must be refused, with the message that says why.
Write(s) ==
    /\ step[s] = "write"
    /\ declaration' = TRUE
    /\ Go(s, "refuse")
    /\ UNCHANGED <<vars, message, faulted>>
Refused(s) ==
    /\ step[s] = "refuse"
    /\ message' = declaration
    /\ Go(s, "match")
    /\ UNCHANGED <<vars, declaration, faulted>>
Match(s) ==
    /\ step[s] = "match"
    /\ Check(s, message, "tidy")
    /\ UNCHANGED <<vars, declaration, message, faulted>>
Tidy(s) ==
    /\ step[s] = "tidy"
    /\ declaration' = FALSE /\ message' = FALSE
    /\ Go(s, "passed")
    /\ UNCHANGED <<vars, faulted>>

\* A compile fails or is killed; any other command fails, or the script is killed there.
CompileFails(s) ==
    /\ \E r \in {First(s), Second(s)} : Stop(r)
    /\ faulted' = [faulted EXCEPT ![s] = TRUE]
    /\ UNCHANGED <<step, declaration, message>>
Fault(s) ==
    /\ step[s] \in {"expect", "diff", "clean", "write", "refuse", "match", "tidy"}
    /\ Go(s, "failed")
    /\ faulted' = [faulted EXCEPT ![s] = TRUE]
    /\ UNCHANGED <<vars, declaration, message>>

ScriptStep(s) ==
    \/ Launch(s, First(s), "first") \/ Collect(s, First(s), "first", "expect")
    \/ Launch(s, Second(s), "second") \/ Collect(s, Second(s), "second", "diff")
    \/ \E r \in {First(s), Second(s)} : Compiling(r)
    \/ Expect(s) \/ Diff(s) \/ Clean(s)
    \/ Write(s) \/ Refused(s) \/ Match(s) \/ Tidy(s)

Observe ==
    crowded' = [s \in Script |->
                  \/ crowded[s]
                  \/ step'[s] \in InTmp /\ \E q \in Script \ {s} : step'[q] \in InTmp]

Ended(s) == step[s] \in {"passed", "failed"}
AllScriptsEnded == (\A s \in Script : Ended(s)) /\ UNCHANGED allVars

ScriptNext ==
    \/ \E s \in Script : (ScriptStep(s) \/ CompileFails(s) \/ Fault(s)) /\ Observe
    \/ AllScriptsEnded

ScriptSpec == ScriptInit /\ [][ScriptNext]_allVars

-----------------------------------------------------------------------------
(* Properties *)

\* A verification that passes has left $OUT as the compile of its stack, whole, whatever
\* other verifications did to the directory they share with it meanwhile
\* (compile-and-verify.sh:7-8, git-source.sh:94 copies it).
VerdictSound == \A s \in Script : step[s] = "passed" => Holds(Out[s], Stack[s])

\* A verification that has /tmp for itself fails only by a fault of its own, whatever
\* others that failed or were killed have left there (compile-and-verify.sh:24-26, 45-51).
LeftoversHarmless ==
    \A s \in Script : step[s] = "failed" => faulted[s] \/ crowded[s]

\* common.sh:244: "set CLUSTER_NAME/MANAGED_CLUSTER_NAME to a unique value for a parallel
\* cluster": a run that does, with an $OUT of its own, fails only by a fault of its own.
ParallelRunsPass == \A s \in Script : step[s] = "failed" => faulted[s]
=============================================================================
