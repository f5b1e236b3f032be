------------------------------ MODULE MCFraming ------------------------------
(* Framing for TLC: every bound is given in the configuration. *)
EXTENDS Framing, TLC
=============================================================================
