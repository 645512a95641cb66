---------------------------- MODULE MCMastering ----------------------------
(* Up to three contents: a and b need a reviewer, b and c too, and a       *)
(* contradicts c; equal contents link automatically.                       *)
EXTENDS Mastering, TLC

CONSTANTS a, b, c

MCContradicts == (Values \X Values) \cap {<<a, c>>, <<c, a>>}
MCDecision ==
    [p \in Values \X Values |->
        IF p[1] = p[2] THEN "auto_link"
        ELSE IF p \in MCContradicts THEN "no_link" ELSE "review"]
\* Exchanging a and c changes neither decision nor contradiction.
Interchangeable ==
    Permutations(Objects) \cup Permutations(Principals) \cup Permutations(Values \cap {a, c})

=============================================================================
