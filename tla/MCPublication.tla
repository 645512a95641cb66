--------------------------- MODULE MCPublication ---------------------------
(* Publication for TLC: relay requests are interchangeable.                *)
EXTENDS Publication, TLC

Interchangeable == Permutations(Relays)
=============================================================================
