SPECIFICATION Spec
CONSTANTS
    None = None
    a = a
    b = b
    Objects = {a, b}
    Versions = {1, 2, 3}
    Feed <- SequencedFeed
    Pushed <- PushedFeed
    Pages <- SequencedPages
    Runs = {f}
    Requests = {q1}
    MaxCursor = 1
INVARIANTS NewestWins ContributionConsistent IncompleteNeverRetires
PROPERTIES SweepSparesSeen

