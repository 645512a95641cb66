SPECIFICATION Spec
SYMMETRY Interchangeable
CONSTANTS
    a = a
    b = b
    c = c
    None = None
    Objects = {o1, o2, o3}
    Entities = {1, 2, 3}
    Principals = {p1}
    Values = {a, b, c}
    Decision <- MCDecision
    Contradicts <- MCContradicts
    MaxDrafts = 5
    MaxProposals = 0
    MaxRelationships = 0
INVARIANTS OpenApprovalIsNewest
PROPERTIES ApprovalIsCurrent 
CHECK_DEADLOCK FALSE
