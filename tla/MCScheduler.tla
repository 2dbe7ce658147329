---------------------------- MODULE MCScheduler ----------------------------
(* Scheduler for TLC: threads and operations are interchangeable.          *)
EXTENDS Scheduler, TLC

Symmetry == Permutations(Threads) \cup Permutations(Ops)
=============================================================================
