---------------------------- MODULE MCGateSteps ----------------------------
(* GateSteps on bounds given in the configurations.                        *)
EXTENDS GateSteps, TLC
=============================================================================
