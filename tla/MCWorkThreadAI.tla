--------------------------- MODULE MCWorkThreadAI ---------------------------
(* WorkThreadAI for TLC. *)
EXTENDS WorkThreadAI
=============================================================================
