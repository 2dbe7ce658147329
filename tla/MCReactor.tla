----------------------------- MODULE MCReactor -----------------------------
(* Reactor for TLC: timers and waits are interchangeable.                  *)
EXTENDS Reactor, TLC

Symmetry == Permutations(Timers) \cup Permutations(Waits)
=============================================================================
