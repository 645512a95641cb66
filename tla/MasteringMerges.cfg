SPECIFICATION Spec
SYMMETRY Interchangeable
CONSTANTS
    a = a
    b = b
    c = c
    None = None
    Objects = {o1, o2}
    Entities = {1, 2, 3}
    Principals = {p1, p2}
    Values = {a, b}
    Decision <- MCDecision
    Contradicts <- MCContradicts
    MaxDrafts = 4
    MaxProposals = 1
    MaxRelationships = 1
INVARIANTS  LedgerMatchesMembership
 
CHECK_DEADLOCK FALSE
