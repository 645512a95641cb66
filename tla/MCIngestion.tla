---------------------------- MODULE MCIngestion ----------------------------
(* Ingestion for TLC: small feeds of observations.                         *)
EXTENDS Ingestion, TLC

CONSTANTS a, b

Observation(o, v, n) ==
    [object |-> o, version |-> v, sequence |-> n, effective |-> 0,
     partial |-> FALSE, invalid |-> FALSE, deleted |-> FALSE]
Invalid(i) == [i EXCEPT !.invalid = TRUE]
Partial(i) == [i EXCEPT !.partial = TRUE]
Deleted(i) == [i EXCEPT !.deleted = TRUE]
Effective(i, t) == [i EXCEPT !.effective = t]

PagesOf(S, n) == UNION {[1 .. k -> S] : k \in 1 .. n}

\* Every observation carries a sequence number, and two claim the same version.
SequencedFeed ==
    {Observation(a, 1, 1), Deleted(Observation(a, 2, 2)), Invalid(Observation(a, 3, 3)),
     Partial(Observation(a, 3, 4)), Observation(b, 1, 1)}
SequencedPages ==
    PagesOf(SequencedFeed, 1) \cup {<<>>, <<Observation(a, 1, 1), Deleted(Observation(a, 2, 2))>>}
PushedFeed == {Observation(b, 1, 1)}

\* Two requests at once, with a version in dispute.
ConcurrentFeed == {Observation(a, 1, 1), Invalid(Observation(a, 1, 1))}
ConcurrentPages == PagesOf(ConcurrentFeed, 1) \cup {<<>>}
InterchangeableRequests == Permutations(Requests)

\* A source that numbers some of its observations: NewestWins fails.
MixedFeed == {Observation(a, 1, 2), Effective(Observation(a, 2, 0), 1), Observation(a, 3, 1)}
MixedPages == PagesOf(MixedFeed, 1)

\* A source whose observations are all numbered: NewestWins and
\* ContributionConsistent fail for two requests at once.
RacingFeed == {Observation(a, 1, 1), Deleted(Observation(a, 2, 2)), Observation(a, 3, 3)}
RacingPages == PagesOf(RacingFeed, 1)
=============================================================================
