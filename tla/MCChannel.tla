----------------------------- MODULE MCChannel -----------------------------
(* Channel for TLC: channels, puts and gets are interchangeable.           *)
EXTENDS Channel, TLC

Symmetry == Permutations(Chans) \cup Permutations(Puts) \cup Permutations(Gets)
=============================================================================
