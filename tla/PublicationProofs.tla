------------------------- MODULE PublicationProofs -------------------------
(***************************************************************************)
(* Proofs about publication, for any number of events, relay requests,     *)
(* reconcile requests and faults.                                          *)
(***************************************************************************)
EXTENDS Publication, FiniteSetTheorems, WellFoundedInduction, TLAPS

\* The event a relay request is at.
At(r) == Head1(batch[r])

\* A request that runs has an event to process.
BatchesHold == \A r \in Relays : pc[r] = "idle" <=> batch[r] = {}

\* An answer belongs to the event its relay waits for, and so does a POST that
\* can still be answered.
AnswersMatch ==
    /\ \A r \in Relays : answer[r] # "none" => pc[r] = "waiting"
    /\ \A r \in Relays : answer[r] = "accepted" => Applied(At(r))
    /\ \A m \in wire : \A r \in Relays :
          m.to = r => pc[r] = "waiting" /\ answer[r] = "none" /\ m.event = At(r)

\* A reconcile request concludes delivery only from the consumer's table.
VerdictsHold ==
    \A c \in Reconcilers : \A e \in Events :
        verdict[c][e] = "delivered" => Applied(e)

\* An attempt belongs to the relay that inserted its row, until it is POSTed.
AttemptsOwned ==
    /\ posts \subseteq rows
    /\ \A r \in Relays : pc[r] \in {"marked", "waiting"} =>
          <<At(r), loaded[r][At(r)]>> \in rows
    /\ \A r \in Relays : pc[r] = "marked" =>
          <<At(r), loaded[r][At(r)]>> \notin posts
    /\ \A r, s \in Relays :
          /\ r # s
          /\ pc[r] \in {"marked", "waiting"} /\ pc[s] \in {"marked", "waiting"}
          /\ At(r) = At(s)
          => loaded[r][At(r)] # loaded[s][At(s)]

\* An event with an attempt, on the wire or in the consumer's table looks
\* touched, and has an attempt.
RowsTouch ==
    /\ \A row \in rows : status[row[1]] \notin {"absent", "pending"}
    /\ \A m \in wire : \E row \in rows : row[1] = m.event
    /\ \A i \in DOMAIN applied : \E row \in rows : row[1] = applied[i]

Inductive ==
    /\ TypeOK
    /\ BatchesHold
    /\ AnswersMatch
    /\ VerdictsHold
    /\ DeliveredMeansApplied
    /\ AttemptsOwned
    /\ RowsTouch

-----------------------------------------------------------------------------
\* A set of events that is not empty has a first one, and Head1 is it.
LEMMA HeadIn ==
  ASSUME NEW S, S \subseteq Events, S # {}
  PROVE  Head1(S) \in S /\ \A f \in S : Head1(S) <= f
  <1> DEFINE R == OpToRel(<, Nat)
  <1>1. \A y \in S : y \in Nat
    BY EventsAssumption
  <1>2. IsWellFoundedOn(R, Nat)
    BY NatLessThanWellFounded
  <1>3. \A x, y \in Nat : y < x => <<y, x>> \in R
    BY DEF OpToRel
  <1> HIDE DEF R
  <1>4. PICK x \in S : \A y \in S : ~ (<<y, x>> \in R)
    BY <1>1, <1>2, WFMin
  <1>5. \A y \in S : ~ (y < x)
    BY <1>1, <1>3, <1>4, Zenon
  <1>6. \A y \in S : x <= y
    BY <1>1, <1>5
  <1>q. QED BY <1>6 DEF Head1

\* The batch a request loads is part of what there is, and is not empty.
LEMMA FirstOfHolds ==
  ASSUME NEW S, S \subseteq Events, S # {}
  PROVE  FirstOf(S) \subseteq S /\ FirstOf(S) # {}
  <1> DEFINE h == Head1(S)
  <1>1. h \in S /\ \A f \in S : h <= f
    BY HeadIn
  <1> HIDE DEF h
  <1>2. {f \in S : f < h} = {}
    <2>1. \A f \in S : f \in Nat
      BY EventsAssumption
    <2>2. \A f \in S : ~ (f < h)
      BY <1>1, <2>1
    <2>q. QED BY <2>2
  <1>3. Cardinality({f \in S : f < h}) = 0
    BY <1>2, FS_EmptySet
  <1>4. h \in FirstOf(S)
    BY <1>1, <1>3, PublicationBounds DEF FirstOf
  <1>q. QED BY <1>4 DEF FirstOf

\* The event of a request that runs.
LEMMA AtEvent ==
  ASSUME Inductive, NEW r \in Relays, pc[r] # "idle"
  PROVE  At(r) \in Events /\ At(r) \in batch[r]
  BY HeadIn DEF Inductive, TypeOK, BatchesHold, At

\* The POSTs of a relay that stops waiting keep their event and lose their
\* addressee; the others stay as they are.
LEMMA OrphanEffect ==
  ASSUME TypeOK, NEW r \in Relays, Orphan(r)
  PROVE  /\ wire' \subseteq [event : Events, to : Relays \cup {None}]
         /\ \A w \in wire' : \E m \in wire :
               w.event = m.event /\ w.to # r /\ w.to \in {m.to, None}
  <1> SUFFICES ASSUME NEW w \in wire'
               PROVE  /\ w \in [event : Events, to : Relays \cup {None}]
                      /\ \E m \in wire :
                            w.event = m.event /\ w.to # r /\ w.to \in {m.to, None}
    OBVIOUS
  <1>1. PICK m \in wire : w = IF m.to = r THEN [m EXCEPT !.to = None] ELSE m
    BY DEF Orphan
  <1>2. m \in [event : Events, to : Relays \cup {None}]
    BY DEF TypeOK
  <1>3. r # None
    BY EventsAssumption
  <1>4. CASE m.to = r
    BY <1>1, <1>2, <1>3, <1>4
  <1>5. CASE m.to # r
    BY <1>1, <1>2, <1>5
  <1>q. QED BY <1>4, <1>5

\* The consumer's table only grows.
LEMMA AppliedGrows ==
  ASSUME TypeOK, NEW m \in wire, ConsumerApplies(m)
  PROVE  /\ applied' \in Seq(Events)
         /\ \A e : Applied(e) => Applied(e)'
         /\ Applied(m.event)'
         /\ \A i \in DOMAIN applied' : 
               applied'[i] = m.event \/ (i \in DOMAIN applied /\ applied'[i] = applied[i])
  <1>1. m.event \in Events /\ applied \in Seq(Events)
    BY DEF TypeOK
  <1>2. CASE Applied(m.event)
    BY <1>1, <1>2 DEF ConsumerApplies, Inserted, Applied
  <1>3. CASE ~Applied(m.event)
    <2>1. applied' = Append(applied, m.event)
      BY <1>3 DEF ConsumerApplies, Inserted
    <2>2. /\ DOMAIN applied' = 1 .. Len(applied) + 1
          /\ DOMAIN applied = 1 .. Len(applied)
          /\ Len(applied) \in Nat
      BY <1>1, <2>1
    <2>3. /\ applied' \in Seq(Events)
          /\ \A i \in 1 .. Len(applied) : applied'[i] = applied[i]
          /\ applied'[Len(applied) + 1] = m.event
      BY <1>1, <2>1
    <2>4. /\ Len(applied) + 1 \in DOMAIN applied'
          /\ \A i \in DOMAIN applied : i \in DOMAIN applied'
      BY <2>2
    <2>5. \A i \in DOMAIN applied' : i \in DOMAIN applied \/ i = Len(applied) + 1
      BY <2>2
    <2>6. \A e : Applied(e) => Applied(e)'
      BY <2>2, <2>3, <2>4 DEF Applied
    <2>7. Applied(m.event)'
      BY <2>3, <2>4 DEF Applied
    <2>q. QED BY <2>2, <2>3, <2>5, <2>6, <2>7
  <1>q. QED BY <1>2, <1>3

\* Nothing has happened yet.
LEMMA InitInductive == Init => Inductive
  BY DEF Init, Inductive, TypeOK, BatchesHold, AnswersMatch, VerdictsHold,
         DeliveredMeansApplied, AttemptsOwned, RowsTouch, Applied, At, Statuses

\* A new event has no attempt yet.
LEMMA EnqueueKeeps ==
  ASSUME Inductive, NEW e \in Events, Enqueue(e)
  PROVE  Inductive'
  <1>1. TypeOK'
    BY DEF Enqueue, Inductive, TypeOK, Statuses, relays, consumer, reconcilers
  <1>2. BatchesHold'
    BY DEF Enqueue, Inductive, TypeOK, BatchesHold, relays
  <1>3. AnswersMatch'
    BY DEF Enqueue, Inductive, TypeOK, AnswersMatch, Applied, At, relays,
       consumer
  <1>4. VerdictsHold'
    BY DEF Enqueue, Inductive, TypeOK, VerdictsHold, Applied, consumer,
       reconcilers
  <1>5. DeliveredMeansApplied'
    BY DEF Enqueue, Inductive, TypeOK, DeliveredMeansApplied, Applied, consumer
  <1>6. AttemptsOwned'
    BY DEF Enqueue, Inductive, TypeOK, AttemptsOwned, At, relays
  <1>7. RowsTouch'
    BY DEF Enqueue, Inductive, TypeOK, RowsTouch, consumer
  <1>q. QED BY <1>1, <1>2, <1>3, <1>4, <1>5, <1>6, <1>7 DEF Inductive

\* A relay that loads owns no attempt.
LEMMA RelayLoadKeeps ==
  ASSUME Inductive, NEW r \in Relays, RelayLoad(r)
  PROVE  Inductive'
  <1>1. TypeOK'
    BY FirstOfHolds DEF RelayLoad, Inductive, TypeOK, Statuses, Relayable,
       outbox, consumer, reconcilers
  <1>2. BatchesHold'
    BY FirstOfHolds DEF RelayLoad, Inductive, TypeOK, BatchesHold, Relayable
  <1>3. AnswersMatch'
    <2>1. (\A s \in Relays : answer[s] # "none" => pc[s] = "waiting")'
      BY DEF RelayLoad, Inductive, TypeOK, At, consumer, AnswersMatch
    <2>2. (\A s \in Relays : answer[s] = "accepted" => Applied(At(s)))'
      BY DEF RelayLoad, Inductive, TypeOK, At, consumer, AnswersMatch, Applied
    <2>3. (\A w \in wire : \A s \in Relays :
             w.to = s => pc[s] = "waiting" /\ answer[s] = "none" /\ w.event = At(s))'
      <3>1. wire' = wire /\ answer' = answer
        BY DEF RelayLoad, consumer
      <3>2. \A s \in Relays : s # r => pc'[s] = pc[s] /\ batch'[s] = batch[s]
        BY DEF RelayLoad, Inductive, TypeOK
      <3>3. \A w \in wire : w.to # r
        BY DEF RelayLoad, Inductive, AnswersMatch
      <3>q. QED BY <3>1, <3>2, <3>3 DEF Inductive, AnswersMatch, At
    <2>q. QED BY <2>1, <2>2, <2>3 DEF AnswersMatch
  <1>4. VerdictsHold'
    BY DEF RelayLoad, Inductive, TypeOK, VerdictsHold, Applied, consumer,
       reconcilers
  <1>5. DeliveredMeansApplied'
    BY DEF RelayLoad, Inductive, TypeOK, DeliveredMeansApplied, Applied, outbox,
       consumer
  <1>6. AttemptsOwned'
    BY DEF RelayLoad, Inductive, TypeOK, AttemptsOwned, At, Relayable, outbox
  <1>7. RowsTouch'
    BY DEF RelayLoad, Inductive, TypeOK, RowsTouch, outbox, consumer
  <1>q. QED BY <1>1, <1>2, <1>3, <1>4, <1>5, <1>6, <1>7 DEF Inductive

\* The new row makes the attempt this relay's own.
LEMMA RelayMarkKeeps ==
  ASSUME Inductive, NEW r \in Relays, RelayMark(r)
  PROVE  Inductive'
  <1>0. At(r) \in Events /\ At(r) \in batch[r]
    BY AtEvent DEF RelayMark
  <1>1. TypeOK'
    BY <1>0 DEF RelayMark, Inductive, TypeOK, Statuses, At, Unattempted, Marker,
       consumer, reconcilers
  <1>2. BatchesHold'
    BY <1>0 DEF RelayMark, Inductive, TypeOK, BatchesHold, At
  <1>3. AnswersMatch'
    BY <1>0 DEF RelayMark, Inductive, TypeOK, AnswersMatch, Applied, At,
       consumer
  <1>4. VerdictsHold'
    BY <1>0 DEF RelayMark, Inductive, TypeOK, VerdictsHold, Applied, At,
       consumer, reconcilers
  <1>5. DeliveredMeansApplied'
    BY <1>0 DEF RelayMark, Inductive, TypeOK, DeliveredMeansApplied, Applied,
       At, Marker, consumer
  <1>6. AttemptsOwned'
    <2> DEFINE new == <<At(r), loaded[r][At(r)] + 1>>
    <2>1. new \notin rows /\ rows' = rows \cup {new} /\ posts' = posts
      BY DEF RelayMark, Unattempted, At
    <2>2. At(r)' = At(r) /\ loaded'[r][At(r)] = loaded[r][At(r)] + 1 /\ pc'[r] = "marked"
      BY <1>0 DEF RelayMark, At, Inductive, TypeOK
    <2>3. \A s \in Relays : s # r =>
            At(s)' = At(s) /\ loaded'[s] = loaded[s] /\ pc'[s] = pc[s]
      BY DEF RelayMark, At, Inductive, TypeOK
    <2>4. <<At(r)', loaded'[r][At(r)']>> = new
      BY <2>2
    <2>5. posts \subseteq rows
      BY DEF Inductive, AttemptsOwned
    <2> HIDE DEF new
    <2>6. (\A s \in Relays : pc[s] \in {"marked", "waiting"} =>
             <<At(s), loaded[s][At(s)]>> \in rows)'
      BY <2>1, <2>3, <2>4 DEF Inductive, AttemptsOwned
    <2>7. (\A s \in Relays : pc[s] = "marked" =>
             <<At(s), loaded[s][At(s)]>> \notin posts)'
      BY <2>1, <2>3, <2>4, <2>5 DEF Inductive, AttemptsOwned
    <2>8. \A s \in Relays : s # r /\ pc'[s] \in {"marked", "waiting"} =>
            <<At(s)', loaded'[s][At(s)']>> # new
      BY <2>1, <2>3 DEF Inductive, AttemptsOwned
    <2>9. \A s, t \in Relays :
            /\ s # t
            /\ pc'[s] \in {"marked", "waiting"} /\ pc'[t] \in {"marked", "waiting"}
            /\ At(s)' = At(t)'
            => loaded'[s][At(s)'] # loaded'[t][At(t)']
      BY <2>3, <2>4, <2>8 DEF Inductive, AttemptsOwned
    <2>q. QED BY <2>1, <2>5, <2>6, <2>7, <2>9 DEF AttemptsOwned
  <1>7. RowsTouch'
    BY <1>0 DEF RelayMark, Inductive, TypeOK, RowsTouch, At, Unattempted,
       Marker, consumer
  <1>q. QED BY <1>1, <1>2, <1>3, <1>4, <1>5, <1>6, <1>7 DEF Inductive

\* A relay that lost the attempt leaves nothing behind.
LEMMA RelayConflictKeeps ==
  ASSUME Inductive, NEW r \in Relays, RelayConflict(r)
  PROVE  Inductive'
  <1>0. At(r) \in Events /\ At(r) \in batch[r]
    BY AtEvent DEF RelayConflict
  <1>1. TypeOK'
    BY <1>0 DEF RelayConflict, Inductive, TypeOK, Statuses, At, Reset, outbox,
       consumer, reconcilers
  <1>2. BatchesHold'
    BY <1>0 DEF RelayConflict, Inductive, TypeOK, BatchesHold, At, Reset
  <1>3. AnswersMatch'
    BY <1>0 DEF RelayConflict, Inductive, TypeOK, AnswersMatch, Applied, At,
       Reset, consumer
  <1>4. VerdictsHold'
    BY <1>0 DEF RelayConflict, Inductive, TypeOK, VerdictsHold, Applied, At,
       consumer, reconcilers
  <1>5. DeliveredMeansApplied'
    BY <1>0 DEF RelayConflict, Inductive, TypeOK, DeliveredMeansApplied,
       Applied, At, outbox, consumer
  <1>6. AttemptsOwned'
    BY <1>0 DEF RelayConflict, Inductive, TypeOK, AttemptsOwned, At, Reset,
       outbox
  <1>7. RowsTouch'
    BY <1>0 DEF RelayConflict, Inductive, TypeOK, RowsTouch, At, outbox,
       consumer
  <1>q. QED BY <1>1, <1>2, <1>3, <1>4, <1>5, <1>6, <1>7 DEF Inductive

\* The attempt of a marked relay has not been POSTed.
LEMMA RelayPostKeeps ==
  ASSUME Inductive, NEW r \in Relays, RelayPost(r)
  PROVE  Inductive'
  <1>0. At(r) \in Events /\ At(r) \in batch[r]
    BY AtEvent DEF RelayPost
  <1>1. TypeOK'
    BY <1>0 DEF RelayPost, Inductive, TypeOK, AttemptsOwned, Statuses, At,
       outbox, reconcilers
  <1>2. BatchesHold'
    BY <1>0 DEF RelayPost, Inductive, TypeOK, BatchesHold, At
  <1>3. AnswersMatch'
    BY <1>0 DEF RelayPost, Inductive, TypeOK, AnswersMatch, Applied, At
  <1>4. VerdictsHold'
    BY <1>0 DEF RelayPost, Inductive, TypeOK, VerdictsHold, Applied, At,
       reconcilers
  <1>5. DeliveredMeansApplied'
    BY <1>0 DEF RelayPost, Inductive, TypeOK, DeliveredMeansApplied, Applied,
       At, outbox
  <1>6. AttemptsOwned'
    BY <1>0 DEF RelayPost, Inductive, TypeOK, AttemptsOwned, At, outbox
  <1>7. RowsTouch'
    <2>1. <<At(r), loaded[r][At(r)]>> \in rows
      BY DEF RelayPost, Inductive, AttemptsOwned
    <2>2. \A w \in wire' : w \in wire \/ w.event = At(r)
      BY DEF RelayPost, At
    <2>3. \E row \in rows : row[1] = At(r)
      BY <2>1
    <2>4. rows' = rows /\ status' = status /\ applied' = applied
      BY DEF RelayPost, outbox
    <2>q. QED BY <2>2, <2>3, <2>4 DEF Inductive, RowsTouch
  <1>q. QED BY <1>1, <1>2, <1>3, <1>4, <1>5, <1>6, <1>7 DEF Inductive

\* An accepted answer is backed by the consumer's table.
LEMMA RelayAcceptedKeeps ==
  ASSUME Inductive, NEW r \in Relays, RelayAccepted(r)
  PROVE  Inductive'
  <1>0. At(r) \in Events /\ At(r) \in batch[r]
    BY AtEvent DEF RelayAccepted
  <1>1. TypeOK'
    BY <1>0 DEF RelayAccepted, Inductive, TypeOK, Statuses, At, Advance,
       consumer, reconcilers
  <1>2. BatchesHold'
    BY <1>0 DEF RelayAccepted, Inductive, TypeOK, BatchesHold, At, Advance
  <1>3. AnswersMatch'
    BY <1>0 DEF RelayAccepted, Inductive, TypeOK, AnswersMatch, Applied, At,
       Advance, consumer
  <1>4. VerdictsHold'
    BY <1>0 DEF RelayAccepted, Inductive, TypeOK, VerdictsHold, Applied, At,
       consumer, reconcilers
  <1>5. DeliveredMeansApplied'
    BY <1>0 DEF RelayAccepted, Inductive, TypeOK, DeliveredMeansApplied,
       AnswersMatch, Applied, At, consumer
  <1>6. AttemptsOwned'
    BY <1>0 DEF RelayAccepted, Inductive, TypeOK, AttemptsOwned, At, Advance
  <1>7. RowsTouch'
    BY <1>0 DEF RelayAccepted, Inductive, TypeOK, RowsTouch, At, consumer
  <1>q. QED BY <1>1, <1>2, <1>3, <1>4, <1>5, <1>6, <1>7 DEF Inductive

\* A failure never claims delivery.
LEMMA RelayRejectedKeeps ==
  ASSUME Inductive, NEW r \in Relays, RelayRejected(r)
  PROVE  Inductive'
  <1>0. At(r) \in Events /\ At(r) \in batch[r]
    BY AtEvent DEF RelayRejected
  <1>1. TypeOK'
    BY <1>0 DEF RelayRejected, Inductive, TypeOK, Statuses, At, Advance,
       FailedStatus, consumer, reconcilers
  <1>2. BatchesHold'
    BY <1>0 DEF RelayRejected, Inductive, TypeOK, BatchesHold, At, Advance
  <1>3. AnswersMatch'
    BY <1>0 DEF RelayRejected, Inductive, TypeOK, AnswersMatch, Applied, At,
       Advance, consumer
  <1>4. VerdictsHold'
    BY <1>0 DEF RelayRejected, Inductive, TypeOK, VerdictsHold, Applied, At,
       consumer, reconcilers
  <1>5. DeliveredMeansApplied'
    BY <1>0 DEF RelayRejected, Inductive, TypeOK, DeliveredMeansApplied,
       Applied, At, FailedStatus, consumer
  <1>6. AttemptsOwned'
    BY <1>0 DEF RelayRejected, Inductive, TypeOK, AttemptsOwned, At, Advance
  <1>7. RowsTouch'
    BY <1>0 DEF RelayRejected, Inductive, TypeOK, RowsTouch, At, FailedStatus,
       consumer
  <1>q. QED BY <1>1, <1>2, <1>3, <1>4, <1>5, <1>6, <1>7 DEF Inductive

\* Giving up the wait changes no row.
LEMMA RelayAmbiguousKeeps ==
  ASSUME Inductive, NEW r \in Relays, RelayAmbiguous(r)
  PROVE  Inductive'
  <1>0. At(r) \in Events /\ At(r) \in batch[r]
    BY AtEvent DEF RelayAmbiguous
  <1>1. TypeOK'
    <2>1. wire' \subseteq [event : Events, to : Relays \cup {None}]
      BY OrphanEffect DEF RelayAmbiguous, Inductive
    <2>2. /\ pc' \in [Relays -> {"idle", "next", "marked", "waiting"}]
          /\ batch' \in [Relays -> SUBSET Events]
          /\ loaded' \in [Relays -> [Events -> Nat]]
          /\ answer' \in [Relays -> {"none", "accepted", "rejected"}]
      BY <1>0 DEF RelayAmbiguous, Advance, At, Inductive, TypeOK
    <2>q. QED BY <2>1, <2>2 DEF RelayAmbiguous, Inductive, TypeOK, outbox, reconcilers
  <1>2. BatchesHold'
    BY <1>0 DEF RelayAmbiguous, Inductive, TypeOK, BatchesHold, At, Advance
  <1>3. AnswersMatch'
    <2>1. (\A s \in Relays : answer[s] # "none" => pc[s] = "waiting")'
      BY <1>0 DEF RelayAmbiguous, Advance, Inductive, TypeOK, At, AnswersMatch
    <2>2. (\A s \in Relays : answer[s] = "accepted" => Applied(At(s)))'
      BY <1>0 DEF RelayAmbiguous, Advance, Inductive, TypeOK, At, AnswersMatch,
         Applied
    <2>3. (\A w \in wire : \A s \in Relays :
             w.to = s => pc[s] = "waiting" /\ answer[s] = "none" /\ w.event = At(s))'
      <3> SUFFICES ASSUME NEW w \in wire', NEW s \in Relays, w.to = s
                   PROVE  (pc[s] = "waiting" /\ answer[s] = "none" /\ w.event = At(s))'
        OBVIOUS
      <3>1. PICK x \in wire : w.event = x.event /\ w.to # r /\ w.to \in {x.to, None}
        BY OrphanEffect DEF RelayAmbiguous, Inductive
      <3>2. s # r /\ x.to = s
        BY <3>1, EventsAssumption
      <3>3. pc'[s] = pc[s] /\ batch'[s] = batch[s] /\ answer'[s] = answer[s]
        BY <3>2 DEF RelayAmbiguous, Advance, Inductive, TypeOK
      <3>q. QED BY <3>1, <3>2, <3>3 DEF Inductive, AnswersMatch, At
    <2>q. QED BY <2>1, <2>2, <2>3 DEF AnswersMatch
  <1>4. VerdictsHold'
    BY <1>0 DEF RelayAmbiguous, Inductive, TypeOK, VerdictsHold, Applied, At,
       reconcilers
  <1>5. DeliveredMeansApplied'
    BY <1>0 DEF RelayAmbiguous, Inductive, TypeOK, DeliveredMeansApplied,
       Applied, At, outbox
  <1>6. AttemptsOwned'
    BY <1>0 DEF RelayAmbiguous, Inductive, TypeOK, AttemptsOwned, At, Advance,
       outbox
  <1>7. RowsTouch'
    BY <1>0, OrphanEffect DEF RelayAmbiguous, Inductive, TypeOK, RowsTouch, At,
       outbox
  <1>q. QED BY <1>1, <1>2, <1>3, <1>4, <1>5, <1>6, <1>7 DEF Inductive

\* A broken exchange never claims delivery.
LEMMA RelayBrokenKeeps ==
  ASSUME Inductive, NEW r \in Relays, RelayBroken(r)
  PROVE  Inductive'
  <1>0. At(r) \in Events /\ At(r) \in batch[r]
    BY AtEvent DEF RelayBroken
  <1>1. TypeOK'
    <2>1. wire' \subseteq [event : Events, to : Relays \cup {None}]
      BY OrphanEffect DEF RelayBroken, Inductive
    <2>2. /\ pc' \in [Relays -> {"idle", "next", "marked", "waiting"}]
          /\ batch' \in [Relays -> SUBSET Events]
          /\ loaded' \in [Relays -> [Events -> Nat]]
          /\ answer' \in [Relays -> {"none", "accepted", "rejected"}]
      BY <1>0 DEF RelayBroken, Advance, At, Inductive, TypeOK
    <2>3. status' \in [Events -> Statuses]
      BY <1>0 DEF RelayBroken, FailedStatus, At, Inductive, TypeOK, Statuses
    <2>q. QED BY <2>1, <2>2, <2>3 DEF RelayBroken, Inductive, TypeOK, reconcilers
  <1>2. BatchesHold'
    BY <1>0 DEF RelayBroken, Inductive, TypeOK, BatchesHold, At, Advance
  <1>3. AnswersMatch'
    <2>1. (\A s \in Relays : answer[s] # "none" => pc[s] = "waiting")'
      BY <1>0 DEF RelayBroken, Advance, Inductive, TypeOK, At, AnswersMatch
    <2>2. (\A s \in Relays : answer[s] = "accepted" => Applied(At(s)))'
      BY <1>0 DEF RelayBroken, Advance, Inductive, TypeOK, At, AnswersMatch,
         Applied
    <2>3. (\A w \in wire : \A s \in Relays :
             w.to = s => pc[s] = "waiting" /\ answer[s] = "none" /\ w.event = At(s))'
      <3> SUFFICES ASSUME NEW w \in wire', NEW s \in Relays, w.to = s
                   PROVE  (pc[s] = "waiting" /\ answer[s] = "none" /\ w.event = At(s))'
        OBVIOUS
      <3>1. PICK x \in wire : w.event = x.event /\ w.to # r /\ w.to \in {x.to, None}
        BY OrphanEffect DEF RelayBroken, Inductive
      <3>2. s # r /\ x.to = s
        BY <3>1, EventsAssumption
      <3>3. pc'[s] = pc[s] /\ batch'[s] = batch[s] /\ answer'[s] = answer[s]
        BY <3>2 DEF RelayBroken, Advance, Inductive, TypeOK
      <3>q. QED BY <3>1, <3>2, <3>3 DEF Inductive, AnswersMatch, At
    <2>q. QED BY <2>1, <2>2, <2>3 DEF AnswersMatch
  <1>4. VerdictsHold'
    BY <1>0 DEF RelayBroken, Inductive, TypeOK, VerdictsHold, Applied, At,
       reconcilers
  <1>5. DeliveredMeansApplied'
    BY <1>0 DEF RelayBroken, Inductive, TypeOK, DeliveredMeansApplied, Applied,
       At, FailedStatus
  <1>6. AttemptsOwned'
    BY <1>0 DEF RelayBroken, Inductive, TypeOK, AttemptsOwned, At, Advance
  <1>7. RowsTouch'
    BY <1>0, OrphanEffect DEF RelayBroken, Inductive, TypeOK, RowsTouch, At,
       FailedStatus
  <1>q. QED BY <1>1, <1>2, <1>3, <1>4, <1>5, <1>6, <1>7 DEF Inductive

\* A crash loses the request and keeps its row.
LEMMA RelayCrashKeeps ==
  ASSUME Inductive, NEW r \in Relays, RelayCrash(r)
  PROVE  Inductive'
  <1>0. At(r) \in Events /\ At(r) \in batch[r]
    BY AtEvent DEF RelayCrash
  <1>1. TypeOK'
    <2>1. wire' \subseteq [event : Events, to : Relays \cup {None}]
      BY OrphanEffect DEF RelayCrash, Inductive
    <2>2. /\ pc' \in [Relays -> {"idle", "next", "marked", "waiting"}]
          /\ batch' \in [Relays -> SUBSET Events]
          /\ loaded' \in [Relays -> [Events -> Nat]]
          /\ answer' \in [Relays -> {"none", "accepted", "rejected"}]
      BY <1>0 DEF RelayCrash, Reset, At, Inductive, TypeOK
    <2>q. QED BY <2>1, <2>2 DEF RelayCrash, Inductive, TypeOK, outbox, reconcilers
  <1>2. BatchesHold'
    BY <1>0 DEF RelayCrash, Inductive, TypeOK, BatchesHold, At, Reset
  <1>3. AnswersMatch'
    <2>1. (\A s \in Relays : answer[s] # "none" => pc[s] = "waiting")'
      BY <1>0 DEF RelayCrash, Reset, Inductive, TypeOK, At, AnswersMatch
    <2>2. (\A s \in Relays : answer[s] = "accepted" => Applied(At(s)))'
      BY <1>0 DEF RelayCrash, Reset, Inductive, TypeOK, At, AnswersMatch,
         Applied
    <2>3. (\A w \in wire : \A s \in Relays :
             w.to = s => pc[s] = "waiting" /\ answer[s] = "none" /\ w.event = At(s))'
      BY <1>0, OrphanEffect, EventsAssumption DEF RelayCrash, Reset, Inductive,
         TypeOK, At, AnswersMatch
    <2>q. QED BY <2>1, <2>2, <2>3 DEF AnswersMatch
  <1>4. VerdictsHold'
    BY <1>0 DEF RelayCrash, Inductive, TypeOK, VerdictsHold, Applied, At,
       reconcilers
  <1>5. DeliveredMeansApplied'
    BY <1>0 DEF RelayCrash, Inductive, TypeOK, DeliveredMeansApplied, Applied,
       At, outbox
  <1>6. AttemptsOwned'
    BY <1>0 DEF RelayCrash, Inductive, TypeOK, AttemptsOwned, At, Reset, outbox
  <1>7. RowsTouch'
    BY <1>0, OrphanEffect DEF RelayCrash, Inductive, TypeOK, RowsTouch, At,
       outbox
  <1>q. QED BY <1>1, <1>2, <1>3, <1>4, <1>5, <1>6, <1>7 DEF Inductive

\* The consumer only adds events that have an attempt.
LEMMA ConsumerAppliesKeeps ==
  ASSUME Inductive, NEW m \in wire, ConsumerApplies(m)
  PROVE  Inductive'
  <1>1. TypeOK'
    BY AppliedGrows DEF ConsumerApplies, Inductive, TypeOK, Statuses, Answered,
       outbox, reconcilers
  <1>2. BatchesHold'
    BY DEF ConsumerApplies, Inductive, TypeOK, BatchesHold
  <1>3. AnswersMatch'
    <2>1. (\A s \in Relays : answer[s] # "none" => pc[s] = "waiting")'
      BY DEF ConsumerApplies, Answered, Inductive, TypeOK, At, AnswersMatch
    <2>2. (\A s \in Relays : answer[s] = "accepted" => Applied(At(s)))'
      <3> SUFFICES ASSUME NEW s \in Relays, answer'[s] = "accepted"
                   PROVE  Applied(At(s))'
        OBVIOUS
      <3>1. At(s)' = At(s) /\ batch' = batch
        BY DEF ConsumerApplies, At
      <3>2. CASE m.to = s
        <4>1. At(s) = m.event
          BY <3>2 DEF Inductive, AnswersMatch
        <4>2. Applied(m.event)'
          BY AppliedGrows DEF Inductive
        <4>q. QED BY <3>1, <4>1, <4>2 DEF Applied
      <3>3. CASE m.to # s
        <4>1. Applied(At(s))
          BY <3>3 DEF ConsumerApplies, Answered, Inductive, AnswersMatch
        <4>2. \E i \in DOMAIN applied' : applied'[i] = At(s)
          BY <4>1, AppliedGrows DEF Inductive, Applied
        <4>q. QED BY <3>1, <4>2 DEF Applied
      <3>q. QED BY <3>2, <3>3
    <2>3. (\A w \in wire : \A s \in Relays :
             w.to = s => pc[s] = "waiting" /\ answer[s] = "none" /\ w.event = At(s))'
      <3> SUFFICES ASSUME NEW w \in wire', NEW s \in Relays, w.to = s
                   PROVE  (pc[s] = "waiting" /\ answer[s] = "none" /\ w.event = At(s))'
        BY DEF ConsumerApplies
      <3>1. w \in wire /\ w # m /\ pc' = pc /\ batch' = batch
        BY DEF ConsumerApplies
      <3>2. pc[s] = "waiting" /\ answer[s] = "none" /\ w.event = At(s)
        BY <3>1 DEF Inductive, AnswersMatch
      <3>3. w = [event |-> w.event, to |-> w.to] /\ m = [event |-> m.event, to |-> m.to]
        BY <3>1 DEF Inductive, TypeOK
      <3>4. m.to # s
        BY <3>1, <3>2, <3>3 DEF Inductive, AnswersMatch
      <3>5. answer'[s] = answer[s]
        BY <3>4 DEF ConsumerApplies, Answered
      <3>q. QED BY <3>1, <3>2, <3>5 DEF At
    <2>q. QED BY <2>1, <2>2, <2>3 DEF AnswersMatch
  <1>4. VerdictsHold'
    BY AppliedGrows DEF ConsumerApplies, Inductive, TypeOK, VerdictsHold,
       reconcilers
  <1>5. DeliveredMeansApplied'
    BY AppliedGrows DEF ConsumerApplies, Inductive, TypeOK,
       DeliveredMeansApplied, outbox
  <1>6. AttemptsOwned'
    BY DEF ConsumerApplies, Inductive, TypeOK, AttemptsOwned, At, outbox
  <1>7. RowsTouch'
    <2>1. rows' = rows /\ status' = status /\ wire' \subseteq wire
      BY DEF ConsumerApplies, outbox
    <2>2. \A i \in DOMAIN applied' :
            \/ applied'[i] = m.event
            \/ i \in DOMAIN applied /\ applied'[i] = applied[i]
      BY AppliedGrows DEF Inductive
    <2>3. \E row \in rows : row[1] = m.event
      BY DEF Inductive, RowsTouch
    <2>q. QED BY <2>1, <2>2, <2>3 DEF Inductive, RowsTouch
  <1>q. QED BY <1>1, <1>2, <1>3, <1>4, <1>5, <1>6, <1>7 DEF Inductive

\* A rejection changes no table.
LEMMA ConsumerRejectsKeeps ==
  ASSUME Inductive, NEW m \in wire, ConsumerRejects(m)
  PROVE  Inductive'
  <1>1. TypeOK'
    BY DEF ConsumerRejects, Inductive, TypeOK, Statuses, Answered, outbox,
       reconcilers
  <1>2. BatchesHold'
    BY DEF ConsumerRejects, Inductive, TypeOK, BatchesHold
  <1>3. AnswersMatch'
    <2>1. (\A s \in Relays : answer[s] # "none" => pc[s] = "waiting")'
      BY DEF ConsumerRejects, Answered, Inductive, TypeOK, At, AnswersMatch
    <2>2. (\A s \in Relays : answer[s] = "accepted" => Applied(At(s)))'
      BY DEF ConsumerRejects, Answered, Inductive, TypeOK, At, AnswersMatch,
         Applied
    <2>3. (\A w \in wire : \A s \in Relays :
             w.to = s => pc[s] = "waiting" /\ answer[s] = "none" /\ w.event = At(s))'
      <3> SUFFICES ASSUME NEW w \in wire', NEW s \in Relays, w.to = s
                   PROVE  (pc[s] = "waiting" /\ answer[s] = "none" /\ w.event = At(s))'
        BY DEF ConsumerRejects
      <3>1. w \in wire /\ w # m /\ pc' = pc /\ batch' = batch
        BY DEF ConsumerRejects
      <3>2. pc[s] = "waiting" /\ answer[s] = "none" /\ w.event = At(s)
        BY <3>1 DEF Inductive, AnswersMatch
      <3>3. w = [event |-> w.event, to |-> w.to] /\ m = [event |-> m.event, to |-> m.to]
        BY <3>1 DEF Inductive, TypeOK
      <3>4. m.to # s
        BY <3>1, <3>2, <3>3 DEF Inductive, AnswersMatch
      <3>5. answer'[s] = answer[s]
        BY <3>4 DEF ConsumerRejects, Answered
      <3>q. QED BY <3>1, <3>2, <3>5 DEF At
    <2>q. QED BY <2>1, <2>2, <2>3 DEF AnswersMatch
  <1>4. VerdictsHold'
    BY DEF ConsumerRejects, Inductive, TypeOK, VerdictsHold, Applied,
       reconcilers
  <1>5. DeliveredMeansApplied'
    BY DEF ConsumerRejects, Inductive, TypeOK, DeliveredMeansApplied, Applied,
       outbox
  <1>6. AttemptsOwned'
    BY DEF ConsumerRejects, Inductive, TypeOK, AttemptsOwned, At, outbox
  <1>7. RowsTouch'
    BY DEF ConsumerRejects, Inductive, TypeOK, RowsTouch, outbox
  <1>q. QED BY <1>1, <1>2, <1>3, <1>4, <1>5, <1>6, <1>7 DEF Inductive

\* A lost POST changes no table.
LEMMA WireLosesKeeps ==
  ASSUME Inductive, NEW m \in wire, WireLoses(m)
  PROVE  Inductive'
  <1>1. TypeOK'
    BY DEF WireLoses, Inductive, TypeOK, Statuses, outbox, relays, reconcilers
  <1>2. BatchesHold'
    BY DEF WireLoses, Inductive, TypeOK, BatchesHold, relays
  <1>3. AnswersMatch'
    BY DEF WireLoses, Inductive, TypeOK, AnswersMatch, Applied, At, relays
  <1>4. VerdictsHold'
    BY DEF WireLoses, Inductive, TypeOK, VerdictsHold, Applied, reconcilers
  <1>5. DeliveredMeansApplied'
    BY DEF WireLoses, Inductive, TypeOK, DeliveredMeansApplied, Applied, outbox
  <1>6. AttemptsOwned'
    BY DEF WireLoses, Inductive, TypeOK, AttemptsOwned, At, outbox, relays
  <1>7. RowsTouch'
    BY DEF WireLoses, Inductive, TypeOK, RowsTouch, outbox
  <1>q. QED BY <1>1, <1>2, <1>3, <1>4, <1>5, <1>6, <1>7 DEF Inductive

\* A reconcile request that loads has concluded nothing.
LEMMA ReconcileLoadKeeps ==
  ASSUME Inductive, NEW c \in Reconcilers, ReconcileLoad(c)
  PROVE  Inductive'
  <1>1. TypeOK'
    BY DEF ReconcileLoad, Inductive, TypeOK, Statuses, Ambiguous, FirstOf,
       outbox, relays, consumer
  <1>2. BatchesHold'
    BY DEF ReconcileLoad, Inductive, TypeOK, BatchesHold, relays
  <1>3. AnswersMatch'
    BY DEF ReconcileLoad, Inductive, TypeOK, AnswersMatch, Applied, At, relays,
       consumer
  <1>4. VerdictsHold'
    BY DEF ReconcileLoad, Inductive, TypeOK, VerdictsHold, Applied, consumer
  <1>5. DeliveredMeansApplied'
    BY DEF ReconcileLoad, Inductive, TypeOK, DeliveredMeansApplied, Applied,
       outbox, consumer
  <1>6. AttemptsOwned'
    BY DEF ReconcileLoad, Inductive, TypeOK, AttemptsOwned, At, outbox, relays
  <1>7. RowsTouch'
    BY DEF ReconcileLoad, Inductive, TypeOK, RowsTouch, outbox, consumer
  <1>q. QED BY <1>1, <1>2, <1>3, <1>4, <1>5, <1>6, <1>7 DEF Inductive

\* A verdict of delivery was read from the consumer's table.
LEMMA ReconcileAskKeeps ==
  ASSUME Inductive, NEW c \in Reconcilers, ReconcileAsk(c)
  PROVE  Inductive'
  <1>1. TypeOK'
    BY HeadIn DEF ReconcileAsk, Inductive, TypeOK, Statuses, Judge, outbox,
       relays, consumer
  <1>2. BatchesHold'
    BY DEF ReconcileAsk, Inductive, TypeOK, BatchesHold, relays
  <1>3. AnswersMatch'
    BY DEF ReconcileAsk, Inductive, TypeOK, AnswersMatch, Applied, At, relays,
       consumer
  <1>4. VerdictsHold'
    BY HeadIn DEF ReconcileAsk, Inductive, TypeOK, VerdictsHold, Applied, Judge,
       consumer
  <1>5. DeliveredMeansApplied'
    BY DEF ReconcileAsk, Inductive, TypeOK, DeliveredMeansApplied, Applied,
       outbox, consumer
  <1>6. AttemptsOwned'
    BY DEF ReconcileAsk, Inductive, TypeOK, AttemptsOwned, At, outbox, relays
  <1>7. RowsTouch'
    BY DEF ReconcileAsk, Inductive, TypeOK, RowsTouch, outbox, consumer
  <1>q. QED BY <1>1, <1>2, <1>3, <1>4, <1>5, <1>6, <1>7 DEF Inductive

\* A failed GET concludes nothing.
LEMMA ReconcileFailsKeeps ==
  ASSUME Inductive, NEW c \in Reconcilers, ReconcileFails(c)
  PROVE  Inductive'
  <1>1. TypeOK'
    BY DEF ReconcileFails, Inductive, TypeOK, Statuses, outbox, relays, consumer
  <1>2. BatchesHold'
    BY DEF ReconcileFails, Inductive, TypeOK, BatchesHold, relays
  <1>3. AnswersMatch'
    BY DEF ReconcileFails, Inductive, TypeOK, AnswersMatch, Applied, At, relays,
       consumer
  <1>4. VerdictsHold'
    BY DEF ReconcileFails, Inductive, TypeOK, VerdictsHold, Applied, consumer
  <1>5. DeliveredMeansApplied'
    BY DEF ReconcileFails, Inductive, TypeOK, DeliveredMeansApplied, Applied,
       outbox, consumer
  <1>6. AttemptsOwned'
    BY DEF ReconcileFails, Inductive, TypeOK, AttemptsOwned, At, outbox, relays
  <1>7. RowsTouch'
    BY DEF ReconcileFails, Inductive, TypeOK, RowsTouch, outbox, consumer
  <1>q. QED BY <1>1, <1>2, <1>3, <1>4, <1>5, <1>6, <1>7 DEF Inductive

\* The commit claims delivery only for verdicts that do.
LEMMA ReconcileCommitKeeps ==
  ASSUME Inductive, NEW c \in Reconcilers, ReconcileCommit(c)
  PROVE  Inductive'
  <1>1. TypeOK'
    BY DEF ReconcileCommit, Inductive, TypeOK, Statuses, Forget, relays,
       consumer
  <1>2. BatchesHold'
    BY DEF ReconcileCommit, Inductive, TypeOK, BatchesHold, relays
  <1>3. AnswersMatch'
    BY DEF ReconcileCommit, Inductive, TypeOK, AnswersMatch, Applied, At,
       relays, consumer
  <1>4. VerdictsHold'
    BY DEF ReconcileCommit, Inductive, TypeOK, VerdictsHold, Applied, Forget,
       consumer
  <1>5. DeliveredMeansApplied'
    BY DEF ReconcileCommit, Inductive, TypeOK, DeliveredMeansApplied,
       VerdictsHold, Applied, consumer
  <1>6. AttemptsOwned'
    BY DEF ReconcileCommit, Inductive, TypeOK, AttemptsOwned, At, relays
  <1>7. RowsTouch'
    <2>1. rows' = rows /\ wire' = wire /\ applied' = applied
      BY DEF ReconcileCommit, consumer
    <2>2. \A e \in Events : status'[e] = status[e] \/ status'[e] \in {"retry", "delivered"}
      BY DEF ReconcileCommit, Inductive, TypeOK
    <2>3. \A row \in rows : row[1] \in Events
      BY DEF Inductive, TypeOK
    <2>4. (\A row \in rows : status[row[1]] \notin {"absent", "pending"})'
      BY <2>1, <2>2, <2>3 DEF Inductive, RowsTouch
    <2>q. QED BY <2>1, <2>4 DEF Inductive, RowsTouch
  <1>q. QED BY <1>1, <1>2, <1>3, <1>4, <1>5, <1>6, <1>7 DEF Inductive

\* A crash loses the verdicts.
LEMMA ReconcileCrashKeeps ==
  ASSUME Inductive, NEW c \in Reconcilers, ReconcileCrash(c)
  PROVE  Inductive'
  <1>1. TypeOK'
    BY DEF ReconcileCrash, Inductive, TypeOK, Statuses, Forget, outbox, relays,
       consumer
  <1>2. BatchesHold'
    BY DEF ReconcileCrash, Inductive, TypeOK, BatchesHold, relays
  <1>3. AnswersMatch'
    BY DEF ReconcileCrash, Inductive, TypeOK, AnswersMatch, Applied, At, relays,
       consumer
  <1>4. VerdictsHold'
    BY DEF ReconcileCrash, Inductive, TypeOK, VerdictsHold, Applied, Forget,
       consumer
  <1>5. DeliveredMeansApplied'
    BY DEF ReconcileCrash, Inductive, TypeOK, DeliveredMeansApplied, Applied,
       outbox, consumer
  <1>6. AttemptsOwned'
    BY DEF ReconcileCrash, Inductive, TypeOK, AttemptsOwned, At, outbox, relays
  <1>7. RowsTouch'
    BY DEF ReconcileCrash, Inductive, TypeOK, RowsTouch, outbox, consumer
  <1>q. QED BY <1>1, <1>2, <1>3, <1>4, <1>5, <1>6, <1>7 DEF Inductive

-----------------------------------------------------------------------------
\* The invariant is inductive.
THEOREM InductiveInvariant == Spec => []Inductive
  <1>1. Inductive /\ UNCHANGED vars => Inductive'
    BY DEF vars, outbox, relays, consumer, reconcilers, Inductive, TypeOK,
           BatchesHold, AnswersMatch, VerdictsHold, DeliveredMeansApplied,
           AttemptsOwned, RowsTouch, Applied, At
  <1>2. Inductive /\ Next => Inductive'
    <2> SUFFICES ASSUME Inductive, Next PROVE Inductive'
      OBVIOUS
    <2>1. CASE \E e \in Events : Enqueue(e)
      BY <2>1, EnqueueKeeps
    <2>2. CASE \E r \in Relays : Relay(r)
      BY <2>2, RelayLoadKeeps, RelayMarkKeeps, RelayConflictKeeps, RelayPostKeeps,
         RelayAcceptedKeeps, RelayRejectedKeeps DEF Relay
    <2>3. CASE \E c \in Reconcilers : Reconcile(c)
      BY <2>3, ReconcileLoadKeeps, ReconcileAskKeeps, ReconcileCommitKeeps
         DEF Reconcile
    <2>4. CASE \E m \in wire : Answer(m) \/ WireLoses(m)
      BY <2>4, ConsumerAppliesKeeps, ConsumerRejectsKeeps, WireLosesKeeps DEF Answer
    <2>5. CASE Fault
      BY <2>5, RelayAmbiguousKeeps, RelayBrokenKeeps, RelayCrashKeeps,
         ReconcileFailsKeeps, ReconcileCrashKeeps DEF Fault
    <2>q. QED BY <2>1, <2>2, <2>3, <2>4, <2>5 DEF Next
  <1>q. QED BY InitInductive, <1>1, <1>2, PTL DEF Spec

\* Every variable of relay_events, reconcile_events and the consumer keeps its
\* type.
THEOREM TypeCorrect == Spec => []TypeOK
  BY InductiveInvariant, PTL DEF Inductive

\* A delivered status and a receipt are backed by the consumer's table
\* (relay_events, reconcile_events), whatever is lost, late or interleaved.
THEOREM DeliveryIsBacked == Spec => []DeliveredMeansApplied
  BY InductiveInvariant, PTL DEF Inductive

\* relay_events commits its marker before the POST: the consumer never knows an
\* event that still looks untouched.
THEOREM PostsAreMarked == Spec => []MarkedBeforePost
  <1>1. Inductive => MarkedBeforePost
    <2> SUFFICES ASSUME Inductive, NEW e \in Events,
                        Applied(e) \/ \E m \in wire : m.event = e
                 PROVE  status[e] \notin {"absent", "pending"}
      BY DEF MarkedBeforePost
    <2>1. PICK row \in rows : row[1] = e
      BY DEF Inductive, RowsTouch, Applied
    <2>q. QED BY <2>1 DEF Inductive, RowsTouch
  <1>q. QED BY InductiveInvariant, <1>1, PTL

\* No attempt is POSTed twice by relay_events, however many requests loaded the
\* same event: the unique attempt row is the lock.
THEOREM AttemptsPostedOnce == Spec => OnePostPerAttempt
  <1>1. Inductive /\ [Next]_vars =>
          [\A r \in Relays : RelayPost(r) =>
              LET e == Head1(batch[r]) IN <<e, loaded[r][e]>> \notin posts]_vars
    BY DEF Inductive, AttemptsOwned, RelayPost, At
  <1>q. QED BY InductiveInvariant, <1>1, PTL DEF Spec, OnePostPerAttempt

-----------------------------------------------------------------------------
(* Refinement: with produced, the consumer's table and the receipts as its *)
(* state, each step is a step of OutboxContract or changes none of them.   *)

\* The three variables of the contract.
Hidden == Produced' = Produced /\ applied' = applied /\ receipts' = receipts

\* Receipts are added for events the consumer has kept.
LEMMA ConfirmStep ==
  ASSUME NEW S \in SUBSET Events, \A e \in S : Applied(e),
         receipts' = receipts \cup S, applied' = applied, Produced' = Produced
  PROVE  Contract!Next
  <1>1. S \subseteq Contract!Kept
    BY DEF Applied, Contract!Kept
  <1>2. Contract!Confirm(S)
    BY <1>1 DEF Contract!Confirm
  <1>q. QED BY <1>2 DEF Contract!Next

\* A status that changes to one other than "absent" leaves Produced alone.
LEMMA ProducedStays ==
  ASSUME NEW e \in Events, NEW s, s # "absent", status[e] # "absent", TypeOK,
         status' = [status EXCEPT ![e] = s]
  PROVE  Produced' = Produced
  BY DEF Produced, TypeOK

\* An event that has an attempt, or that a request has loaded, is produced.
LoadedProduced ==
    /\ \A r \in Relays : \A e \in batch[r] : status[e] # "absent"
    /\ \A c \in Reconcilers : \A e \in asking[c] : status[e] # "absent"
    /\ \A c \in Reconcilers : \A e \in Events :
          verdict[c][e] # "none" => status[e] # "absent"

\* What a step leaves of these facts when no status becomes "absent".
LEMMA LoadedStays ==
  ASSUME LoadedProduced, \A e \in Events : status[e] # "absent" => status'[e] # "absent",
         TypeOK, \A r \in Relays : batch'[r] \subseteq batch[r],
         \A c \in Reconcilers : asking'[c] \subseteq asking[c], verdict' = verdict
  PROVE  LoadedProduced'
  BY DEF LoadedProduced, TypeOK

\* The steps of a relay request map to a receipt, or to nothing.
LEMMA RelayRefines ==
  ASSUME Inductive, LoadedProduced, NEW r \in Relays,
         Relay(r) \/ RelayAmbiguous(r) \/ RelayBroken(r) \/ RelayCrash(r)
  PROVE  LoadedProduced' /\ (Contract!Next \/ Hidden)
  <1> DEFINE e == At(r)
  <1>1. ASSUME batch[r] # {}
        PROVE  e \in batch[r] /\ e \in Events /\ status[e] # "absent"
    BY <1>1, HeadIn DEF Inductive, TypeOK, LoadedProduced, At
  <1>2. pc[r] # "idle" => batch[r] # {}
    BY DEF Inductive, BatchesHold
  <1>3. \A n : FailedStatus(n) # "absent"
    BY DEF FailedStatus
  <1> HIDE DEF e
  <1>4. CASE RelayLoad(r)
    <2>1. batch' = [batch EXCEPT ![r] = FirstOf(Relayable)]
          /\ UNCHANGED <<status, receipts, applied, asking, verdict>>
      BY <1>4 DEF RelayLoad, outbox, consumer, reconcilers
    <2>2. \A f \in FirstOf(Relayable) : status[f] # "absent"
      BY DEF FirstOf, Relayable
    <2>q. QED BY <2>1, <2>2 DEF LoadedProduced, Hidden, Produced, Inductive, TypeOK
  <1>5. CASE RelayMark(r)
    <2>1. /\ pc[r] = "next" /\ status' = [status EXCEPT ![e] = "reconcile"]
          /\ UNCHANGED <<receipts, applied, batch, asking, verdict>>
      BY <1>5 DEF RelayMark, Marker, consumer, reconcilers, e, At
    <2>2. e \in Events /\ status[e] # "absent"
      BY <1>1, <1>2, <2>1
    <2>3. Produced' = Produced
      BY <2>1, <2>2, ProducedStays DEF Inductive
    <2>4. LoadedProduced'
      BY <2>1, <2>2, LoadedStays DEF Inductive, TypeOK
    <2>q. QED BY <2>1, <2>3, <2>4 DEF Hidden
  <1>6. CASE RelayConflict(r) \/ RelayCrash(r)
    <2>1. /\ batch' = [batch EXCEPT ![r] = {}]
          /\ UNCHANGED <<status, receipts, applied, asking, verdict>>
      BY <1>6 DEF RelayConflict, RelayCrash, Reset, outbox, consumer, reconcilers
    <2>2. LoadedProduced'
      BY <2>1, LoadedStays DEF Inductive, TypeOK
    <2>q. QED BY <2>1, <2>2 DEF Hidden, Produced
  <1>7. CASE RelayPost(r)
    <2>1. UNCHANGED <<status, receipts, applied, batch, asking, verdict>>
      BY <1>7 DEF RelayPost, outbox, reconcilers
    <2>2. LoadedProduced'
      BY <2>1, LoadedStays DEF Inductive, TypeOK
    <2>q. QED BY <2>1, <2>2 DEF Hidden, Produced
  <1>8. CASE RelayAccepted(r)
    <2>1. /\ pc[r] = "waiting" /\ answer[r] = "accepted"
          /\ status' = [status EXCEPT ![e] = "delivered"]
          /\ receipts' = receipts \cup {e}
          /\ batch' = [batch EXCEPT ![r] = @ \ {e}]
          /\ UNCHANGED <<applied, asking, verdict>>
      BY <1>8 DEF RelayAccepted, Advance, consumer, reconcilers, e, At
    <2>2. e \in Events /\ status[e] # "absent"
      BY <1>1, <1>2, <2>1
    <2>3. Produced' = Produced
      BY <2>1, <2>2, ProducedStays DEF Inductive
    <2>4. LoadedProduced'
      BY <2>1, <2>2, LoadedStays DEF Inductive, TypeOK
    <2>5. Applied(e)
      BY <2>1 DEF Inductive, AnswersMatch, e
    <2>6. Contract!Next
      <3>1. {e} \in SUBSET Events /\ \A f \in {e} : Applied(f)
        BY <2>2, <2>5
      <3>2. receipts' = receipts \cup {e} /\ applied' = applied
        BY <2>1
      <3>q. QED BY <2>3, <3>1, <3>2, ConfirmStep, Zenon
    <2>q. QED BY <2>4, <2>6
  <1>9. CASE RelayRejected(r) \/ RelayBroken(r)
    <2>1. /\ pc[r] = "waiting"
          /\ status' = [status EXCEPT ![e] = FailedStatus(loaded[r][e])]
          /\ batch' = [batch EXCEPT ![r] = @ \ {e}]
          /\ UNCHANGED <<receipts, applied, asking, verdict>>
      BY <1>9 DEF RelayRejected, RelayBroken, Advance, consumer, reconcilers, e, At
    <2>2. e \in Events /\ status[e] # "absent"
      BY <1>1, <1>2, <2>1
    <2>3. Produced' = Produced
      BY <1>3, <2>1, <2>2, ProducedStays DEF Inductive
    <2>4. LoadedProduced'
      BY <1>3, <2>1, <2>2, LoadedStays DEF Inductive, TypeOK
    <2>q. QED BY <2>1, <2>3, <2>4 DEF Hidden
  <1>10. CASE RelayAmbiguous(r)
    <2>1. /\ batch' = [batch EXCEPT ![r] = @ \ {e}]
          /\ UNCHANGED <<status, receipts, applied, asking, verdict>>
      BY <1>10 DEF RelayAmbiguous, Advance, outbox, reconcilers, e, At
    <2>2. LoadedProduced'
      BY <2>1, LoadedStays DEF Inductive, TypeOK
    <2>q. QED BY <2>1, <2>2 DEF Hidden, Produced
  <1>q. QED BY <1>4, <1>5, <1>6, <1>7, <1>8, <1>9, <1>10 DEF Relay

\* The steps of a reconcile request map to receipts, or to nothing.
LEMMA ReconcileRefines ==
  ASSUME Inductive, LoadedProduced, NEW c \in Reconcilers,
         Reconcile(c) \/ ReconcileFails(c) \/ ReconcileCrash(c)
  PROVE  LoadedProduced' /\ (Contract!Next \/ Hidden)
  <1>1. CASE ReconcileLoad(c)
    <2>1. /\ asking' = [asking EXCEPT ![c] = FirstOf(Ambiguous)]
          /\ UNCHANGED <<status, receipts, applied, batch, verdict>>
      BY <1>1 DEF ReconcileLoad, outbox, relays, consumer
    <2>2. \A f \in FirstOf(Ambiguous) : status[f] # "absent"
      BY DEF FirstOf, Ambiguous
    <2>q. QED BY <2>1, <2>2 DEF LoadedProduced, Hidden, Produced, Inductive, TypeOK
  <1>2. CASE ReconcileAsk(c)
    <2> DEFINE e == Head1(asking[c])
               j == Judge(e)
    <2>1. e \in asking[c] /\ e \in Events
      BY <1>2, HeadIn DEF ReconcileAsk, Inductive, TypeOK
    <2> HIDE DEF j, e
    <2>2. /\ asking' = [asking EXCEPT ![c] = @ \ {e}]
          /\ verdict' = [verdict EXCEPT ![c][e] = j]
          /\ UNCHANGED <<status, receipts, applied, batch>>
      BY <1>2 DEF ReconcileAsk, outbox, relays, consumer, e, j
    <2>3. status[e] # "absent"
      BY <2>1 DEF LoadedProduced
    <2>q. QED BY <2>1, <2>2, <2>3 DEF LoadedProduced, Hidden, Produced, Inductive, TypeOK
  <1>3. CASE ReconcileFails(c)
    <2>1. /\ asking' = [asking EXCEPT ![c] = @ \ {Head1(@)}]
          /\ UNCHANGED <<status, receipts, applied, batch, verdict>>
      BY <1>3 DEF ReconcileFails, outbox, relays, consumer
    <2>q. QED BY <2>1 DEF LoadedProduced, Hidden, Produced, Inductive, TypeOK
  <1>4. CASE ReconcileCommit(c)
    <2> DEFINE S == {e \in Events : verdict[c][e] = "delivered"}
    <2>1. /\ status' = [e \in Events |-> IF verdict[c][e] = "none" THEN status[e]
                                         ELSE verdict[c][e]]
          /\ receipts' = receipts \cup S
          /\ asking' = [asking EXCEPT ![c] = {}]
          /\ verdict' = [verdict EXCEPT ![c] = [e \in Events |-> "none"]]
          /\ UNCHANGED <<applied, batch>>
      BY <1>4 DEF ReconcileCommit, Forget, relays, consumer
    <2>2. \A e \in Events : status'[e] # "absent" <=> status[e] # "absent"
      BY <2>1 DEF LoadedProduced, Inductive, TypeOK
    <2>3. Produced' = Produced
      BY <2>2 DEF Produced
    <2>4. LoadedProduced'
      BY <2>1, <2>2 DEF LoadedProduced, Inductive, TypeOK
    <2>5. \A e \in S : Applied(e)
      BY DEF Inductive, VerdictsHold
    <2>6. Contract!Next
      BY <2>1, <2>3, <2>5, ConfirmStep
    <2>q. QED BY <2>4, <2>6
  <1>5. CASE ReconcileCrash(c)
    <2>1. /\ asking' = [asking EXCEPT ![c] = {}]
          /\ verdict' = [verdict EXCEPT ![c] = [e \in Events |-> "none"]]
          /\ UNCHANGED <<status, receipts, applied, batch>>
      BY <1>5 DEF ReconcileCrash, Forget, outbox, relays, consumer
    <2>q. QED BY <2>1 DEF LoadedProduced, Hidden, Produced, Inductive, TypeOK
  <1>q. QED BY <1>1, <1>2, <1>3, <1>4, <1>5 DEF Reconcile

\* A POST that arrives is a delivery the first time, and nothing after it.
LEMMA WireRefines ==
  ASSUME Inductive, LoadedProduced, NEW m \in wire, Answer(m) \/ WireLoses(m)
  PROVE  LoadedProduced' /\ (Contract!Next \/ Hidden)
  <1>1. UNCHANGED <<status, receipts, batch, asking, verdict>>
    BY DEF Answer, ConsumerApplies, ConsumerRejects, WireLoses, outbox, relays, reconcilers
  <1>2. LoadedProduced' /\ Produced' = Produced
    BY <1>1, LoadedStays DEF Inductive, TypeOK, Produced
  <1>3. CASE applied' = applied
    BY <1>1, <1>2, <1>3 DEF Hidden
  <1>4. CASE applied' # applied
    <2>1. ConsumerApplies(m)
      BY <1>4 DEF Answer, ConsumerRejects, WireLoses
    <2>2. ~Applied(m.event) /\ applied' = Append(applied, m.event)
      BY <1>4, <2>1 DEF ConsumerApplies, Inserted
    <2>3. m.event \in Events
      BY DEF Inductive, TypeOK
    <2>4. PICK row \in rows : row[1] = m.event
      BY DEF Inductive, RowsTouch
    <2>5. m.event \in Produced
      BY <2>3, <2>4 DEF Inductive, RowsTouch, Produced
    <2>6. m.event \notin Contract!Kept
      BY <2>2 DEF Applied, Contract!Kept
    <2>7. Contract!Deliver(m.event)
      BY <1>1, <1>2, <2>2, <2>5, <2>6 DEF Contract!Deliver
    <2>q. QED BY <1>2, <2>3, <2>7 DEF Contract!Next
  <1>q. QED BY <1>3, <1>4

\* An insert into the outbox produces its event.
LEMMA EnqueueRefines ==
  ASSUME Inductive, LoadedProduced, NEW e \in Events, Enqueue(e)
  PROVE  LoadedProduced' /\ (Contract!Next \/ Hidden)
  <1>1. /\ status[e] = "absent" /\ status' = [status EXCEPT ![e] = "pending"]
        /\ UNCHANGED <<receipts, applied, batch, asking, verdict>>
    BY DEF Enqueue, relays, consumer, reconcilers
  <1>2. LoadedProduced'
    BY <1>1, LoadedStays DEF Inductive, TypeOK
  <1>3. e \notin Produced /\ Produced' = Produced \cup {e}
    BY <1>1 DEF Produced, Inductive, TypeOK
  <1>4. Contract!Produce(e)
    BY <1>1, <1>3 DEF Contract!Produce
  <1>q. QED BY <1>2, <1>4 DEF Contract!Next

\* Publication implements the contract: whatever relays, reconcile requests,
\* the consumer and the network do, it amounts to events that are produced, kept
\* once and then confirmed (relay_events, reconcile_events, receive_event).
THEOREM PublicationImplementsContract == Spec => ContractKept
  <1>1. Init => LoadedProduced /\ Contract!Init
    BY DEF Init, LoadedProduced, Contract!Init, Produced
  <1>2. Inductive /\ LoadedProduced /\ [Next]_vars =>
          LoadedProduced' /\ [Contract!Next]_(Contract!vars)
    <2> SUFFICES ASSUME Inductive, LoadedProduced, [Next]_vars
                 PROVE  LoadedProduced' /\ [Contract!Next]_(Contract!vars)
      OBVIOUS
    <2>1. CASE UNCHANGED vars
      BY <2>1 DEF vars, outbox, relays, consumer, reconcilers, LoadedProduced,
                  Contract!vars, Produced
    <2>2. CASE Next
      <3>1. LoadedProduced' /\ (Contract!Next \/ Hidden)
        BY <2>2, EnqueueRefines, RelayRefines, ReconcileRefines, WireRefines
           DEF Next, Fault
      <3>q. QED BY <3>1 DEF Hidden, Contract!vars
    <2>q. QED BY <2>1, <2>2
  <1>q. QED BY <1>1, <1>2, InductiveInvariant, PTL DEF Spec, ContractKept, Contract!Spec

=============================================================================
