-------------------------- MODULE MCConfiguration --------------------------
(* Instances of Configuration for TLC. *)
EXTENDS Configuration, TLC

CONSTANTS d1, d2, p0, p1

\* One domain's policy, and both domains'.
TwoDocuments == {d1 :> p1, (d1 :> p0) @@ (d2 :> p1)}

\* A bundle that replaces a policy, and one that changes a source's priority:
\* with the second ActivatedAsPreviewed fails.
PolicyBundle == {[domains |-> d1 :> p1, priority |-> 0, documents |-> {d1 :> p1}]}
SourceBundle == {[domains |-> << >>, priority |-> 1, documents |-> {}]}

=============================================================================
