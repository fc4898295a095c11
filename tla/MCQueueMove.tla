---------------------------- MODULE MCQueueMove ----------------------------
(* QueueMove with processes as model values, which are interchangeable.    *)
EXTENDS QueueMove, TLC

Symmetry == Permutations(Process)
=============================================================================
