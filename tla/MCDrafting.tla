----------------------------- MODULE MCDrafting -----------------------------
(* Drafting for TLC: requests of a kind are interchangeable. *)
EXTENDS Drafting, TLC

Interchangeable == Permutations(Changing) \cup Permutations(Deciders)
=============================================================================
