SPECIFICATION Spec
CONSTANTS
    u1 = u1
    u2 = u2
    ws = ws
    steward = steward
    Users = {u1, u2}
    Groups = {g1}
    Roles = {steward}
    Workspace = ws
    Claims = {{steward}}
    GrantSets <- Some
    Logins = {l1}
    Slots = {q1, q2}
    Patches <- SomePatches
    AutoProvision = TRUE
    Crashes = TRUE
    MaxSessions = 1
SYMMETRY Symmetry
INVARIANTS TypeOK  
CHECK_DEADLOCK FALSE
