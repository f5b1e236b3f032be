-------------------------- MODULE MCModuleManager --------------------------
(***************************************************************************)
(* ModuleManager for TLC: three plugin files, two of which are versions of *)
(* one module, and two commands.                                           *)
(***************************************************************************)
EXTENDS ModuleManager

CONSTANTS x1, x2, y, X, Y, go, stop

MCNameOf     == x1 :> X @@ x2 :> X @@ y :> Y
MCCommandsOf == x1 :> {go} @@ x2 :> {go, stop} @@ y :> {go, stop}

\* The threads are alike.
ThreadSymmetry == Permutations(Threads)
=============================================================================
