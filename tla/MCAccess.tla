------------------------------ MODULE MCAccess ------------------------------
(* Instances of Access for TLC. *)
EXTENDS Access, TLC

CONSTANTS u1, u2, ws, steward

\* The grants of a user or a group.
Some == {{ws}, {ws, steward}}

Op(op, members) == [op |-> op, users |-> members]
\* A PATCH removes all members, adds one, or does both.
SomePatches ==
    {<<Op("remove", {})>>} \cup {<<Op("add", {u})>> : u \in Users}
        \cup {<<Op("remove", {}), Op("add", {u})>> : u \in Users}

Symmetry == Permutations(Users) \cup Permutations(Logins) \cup Permutations(Slots)

=============================================================================
