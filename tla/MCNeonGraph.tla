---------------------------- MODULE MCNeonGraph -----------------------------
(***************************************************************************)
(* An instance of NeonGraph: two components, each with a secret of its     *)
(* own.                                                                    *)
(***************************************************************************)
EXTENDS NeonGraph, TLC

CONSTANTS c1, c2, s1, s2

MCComponent == {c1, c2}
MCSecret == {s1, s2}
OwnSecrets == c1 :> s1 @@ c2 :> s2
=============================================================================
