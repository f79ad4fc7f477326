----------------------------- MODULE MCOutputDir -----------------------------
(***************************************************************************)
(* Instances of OutputDir: two documents that share a file, and a refused  *)
(* one.                                                                    *)
(***************************************************************************)
EXTENDS OutputDir, TLC

CONSTANTS x, y, bad, f, g, h

MCDoc == {x, y, bad}
MCFile == {f, g, h}
MCFiles == x :> {f, g} @@ y :> {g, h} @@ bad :> {}
=============================================================================
