----------------------------- MODULE MCCardLoop -----------------------------
(* CardLoop for TLC: the bounds are given by the configurations. *)
EXTENDS CardLoop
=============================================================================
