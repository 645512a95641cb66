SPECIFICATION FairSpec
CONSTANTS
    d1 = d1
    d2 = d2
    p0 = p0
    p1 = p1
    Domains = {d1, d2}
    Policies = {p0, p1}
    InitialPolicy = p0
    Documents <- TwoDocuments
    Bundles <- PolicyBundle
    Users = {u1, u2}
    Requests = {r1}
    Workers = {r1}
    MaxConfigs = 2
    MaxSimulations = 2
    MaxTasks = 2
    MaxData = 1
INVARIANTS TypeOK OneActive ActiveInForce 
PROPERTIES ActivatedAsPreviewed 
CHECK_DEADLOCK FALSE
