------------------------------ MODULE MCLoopRuns ------------------------------
(* LoopRuns for TLC.  Run numbers order runs, but the cards can be          *)
(* exchanged: it is enough to look at the behaviours in which run 1, if it  *)
(* starts at all, is about the first of them.  (No fairness is about a      *)
(* start, so none is cut short by it.)                                      *)
EXTENDS LoopRuns, TLC

FirstAboutFirst == card[1] \in {"c1", NoCard}
=============================================================================
