SPECIFICATION FairSpec
CONSTANTS
    Writers = {i1, m1}
    Changing = {i1}
    Deciders = {d1, d2}
    Proposers = {q1}
    None = None
    MaxDrafts = 2
    MaxProposals = 1
INVARIANTS OpenApprovalIsCurrent DraftNumbersDiffer
PROPERTIES ApprovedIsCurrent Finishes
CHECK_DEADLOCK FALSE
