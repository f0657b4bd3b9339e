------------------------------ MODULE MCJournal ------------------------------
(* Instances of Journal for TLC: its blocks and its threads are alike. *)
EXTENDS Journal, TLC

Alike == Permutations(Blocks) \cup Permutations(Threads)
=============================================================================
