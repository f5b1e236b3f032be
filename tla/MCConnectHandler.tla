-------------------------- MODULE MCConnectHandler --------------------------
(* ConnectHandler for TLC. *)
EXTENDS ConnectHandler, TLC
HandlerSymmetry == Permutations(Handlers)
=============================================================================
