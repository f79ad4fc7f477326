------------------------ MODULE MCCompileAndVerify ---------------------------
(***************************************************************************)
(* Instances of CompileAndVerify: a self-hosted and a managed run, whose   *)
(* stacks compile to one common file and one file each.                    *)
(***************************************************************************)
EXTENDS CompileAndVerify, TLC

CONSTANTS acceptance, managed, x, y, f, g, h, out, outManaged, tmp

MCRun == Script \X {1, 2}
MCFiles == x :> {f, g} @@ y :> {g, h}
MCStack == acceptance :> x @@ managed :> y
MCOut == acceptance :> out @@ managed :> outManaged
MCExpected == acceptance :> f @@ managed :> h
=============================================================================
