-------------------------- MODULE IngestionProofs --------------------------
(***************************************************************************)
(* Proofs about ingestion, for any feed, any number of objects and runs    *)
(* and any number of requests that are served at the same time.            *)
(***************************************************************************)
EXTENDS Ingestion, TLAPS

Items(S) == {x.item : x \in S}

\* The items of an open request are still to come, or stored, or stored once
\* it commits.  What it adds has keys of its own.
Progress(t) ==
    /\ t.phase = "open" =>
          Elements(t.page.items) \subseteq Elements(t.rest) \cup Items(records \cup t.fresh)
    /\ t.phase = "remember" =>
          t.page.webhook /\ Elements(t.page.items) \subseteq Items(records)
    /\ t.page.webhook => Elements(t.page.items) \subseteq Pushed
    /\ \A x, y \in t.fresh :
          x.item.object = y.item.object /\ x.item.version = y.item.version => x = y

\* Only the completing page of a full run sweeps, and the run a request works
\* on keeps the mode it was read with.
Evidence(t) ==
    /\ \A x \in t.fresh : x.item.version \in Runs =>
          x.item.version = t.page.run /\ t.page.complete
    /\ t.sweep # {} => t.page.run \in Runs /\ t.page.complete
    /\ t.page.complete => t.page.mode = "full"
    /\ t.page.run \in Runs /\ t.read.mode # "absent" =>
          t.read.mode = t.page.mode /\ runs[t.page.run].mode = t.page.mode
    /\ t.page.handoff # None =>
          /\ t.page.mode = "delta"
          /\ runs[t.page.handoff].mode = "full"
          /\ runs[t.page.handoff].status = "complete"

Inductive ==
    /\ TypeOK
    /\ OneRecordPerVersion
    /\ AcknowledgedStored
    /\ RememberedStored
    /\ IncompleteNeverRetires
    /\ HandoffFollowsSnapshot
    /\ \A q \in Requests : Progress(tx[q]) /\ Evidence(tx[q])

-----------------------------------------------------------------------------
\* The elements of a list are its first one and those of the rest.
LEMMA ElementsStep ==
  ASSUME NEW S, NEW s \in Seq(S), s # <<>>
  PROVE  /\ Head(s) \in S /\ Tail(s) \in Seq(S)
         /\ Elements(s) \subseteq {Head(s)} \cup Elements(Tail(s))
  <1>1. Head(s) \in S /\ Tail(s) \in Seq(S)
    OBVIOUS
  <1>2. ASSUME NEW k \in DOMAIN s, s[k] # Head(s)
        PROVE  k - 1 \in DOMAIN Tail(s) /\ Tail(s)[k - 1] = s[k]
    BY <1>2
  <1>q. QED BY <1>1, <1>2 DEF Elements

\* The elements of a list over a set belong to it.
LEMMA ElementsIn ==
  ASSUME NEW S, NEW s \in Seq(S)
  PROVE  Elements(s) \subseteq S
  BY DEF Elements

LEMMA ElementsOfEmpty == Elements(<<>>) = {}
  BY DEF Elements

\* A transaction has its type at its start.
LEMMA BegunTyped ==
  ASSUME TypeOK, NEW f \in {"idle", "open", "remember"}, NEW p \in Page,
         NEW read \in Run, NEW sweep \in SUBSET Objects,
         NEW held \in SUBSET Objects
  PROVE  Begun(f, p, read, sweep, held) \in Transaction
  <1>1. NoObject \in Row
    BY DEF NoObject, Row, VersionOrNone
  <1>2. [o \in Objects |-> IF o \in held THEN objects[o] ELSE NoObject] \in [Objects -> Row]
    BY <1>1 DEF TypeOK
  <1>3. p.items \in Seq(Feed)
    BY DEF Page
  <1>q. QED BY <1>2, <1>3 DEF Begun, Transaction

\* The arguments of a request outside any run.
LEMMA BatchTyped ==
  ASSUME NEW s \in Seq(Feed), NEW w \in BOOLEAN
  PROVE  /\ Batch(s, w) \in Page
         /\ Batch(s, w).items = s /\ Batch(s, w).webhook = w
         /\ Batch(s, w).run = None /\ Batch(s, w).handoff = None
         /\ Batch(s, w).complete = FALSE
  BY IngestionAssumption DEF Batch, Page, Modes, Cursors, NoCursor

LEMMA NoRunTyped == NoRun \in Run
  BY IngestionAssumption DEF NoRun, Run, Modes, Cursors, NoCursor

\* A transaction outside any run, at its start, claims only its items.
LEMMA BatchHolds ==
  ASSUME TypeOK, NEW s \in Seq(Feed), NEW w \in BOOLEAN,
         NEW f \in {"idle", "open"}, w => Elements(s) \subseteq Pushed
  PROVE  LET t == Begun(f, Batch(s, w), NoRun, {}, {})
         IN  t \in Transaction /\ Progress(t) /\ Evidence(t)
  <1> DEFINE p == Batch(s, w)
             t == Begun(f, p, NoRun, {}, {})
  <1>1. /\ p \in Page /\ p.items = s /\ p.webhook = w /\ p.run = None
        /\ p.handoff = None /\ p.complete = FALSE
    BY BatchTyped
  <1> HIDE DEF p
  <1>2. t \in Transaction
    BY <1>1, BegunTyped, NoRunTyped
  <1>3. /\ t.phase = f /\ t.page = p /\ t.read = NoRun /\ t.rest = s
        /\ t.sweep = {} /\ t.fresh = {}
    BY <1>1 DEF Begun
  <1> HIDE DEF t
  <1>4. Progress(t)
    BY <1>1, <1>3 DEF Progress
  <1>5. Evidence(t)
    BY <1>1, <1>3, IngestionAssumption DEF Evidence
  <1>q. QED BY <1>2, <1>4, <1>5 DEF t, p

LEMMA ClosedHolds ==
  ASSUME TypeOK
  PROVE  Closed \in Transaction /\ Progress(Closed) /\ Evidence(Closed)
  <1>1. <<>> \in Seq(Feed)
    OBVIOUS
  <1>q. QED BY <1>1, BatchHolds DEF Closed

\* A step that changes only the transaction of q, to one that holds.
LEMMA TransactionStep ==
  ASSUME Inductive, NEW q \in Requests, NEW t \in Transaction,
         tx' = [tx EXCEPT ![q] = t], Progress(t), Evidence(t),
         UNCHANGED <<records, objects, drafts, runs, events, acked, present>>
  PROVE  Inductive'
  <1>1. TypeOK'
    BY DEF Inductive, TypeOK
  <1>2. /\ OneRecordPerVersion' /\ AcknowledgedStored' /\ RememberedStored'
        /\ IncompleteNeverRetires' /\ HandoffFollowsSnapshot'
    BY DEF Inductive, OneRecordPerVersion, AcknowledgedStored, RememberedStored,
           IncompleteNeverRetires, HandoffFollowsSnapshot
  <1>3. ASSUME NEW p \in Requests PROVE (Progress(tx[p]) /\ Evidence(tx[p]))'
    <2>1. tx'[p] = IF p = q THEN t ELSE tx[p]
      BY DEF Inductive, TypeOK
    <2>2. Progress(tx'[p]) /\ Evidence(tx'[p])
      BY <2>1 DEF Inductive
    <2>q. QED BY <2>2 DEF Progress, Evidence
  <1>q. QED BY <1>1, <1>2, <1>3 DEF Inductive

LEMMA InitHolds == Init => Inductive
  <1> SUFFICES ASSUME Init PROVE Inductive
    OBVIOUS
  <1>1. NoObject \in Row
    BY DEF NoObject, Row, VersionOrNone
  <1>2. Closed \in Transaction
    <2>0. <<>> \in Seq(Feed)
      OBVIOUS
    <2>1. Batch(<<>>, FALSE) \in Page
      BY <2>0, BatchTyped
    <2>2. [o \in Objects |-> IF o \in {} THEN objects[o] ELSE NoObject] \in [Objects -> Row]
      BY <1>1
    <2>3. Batch(<<>>, FALSE).items = <<>>
      BY DEF Batch
    <2> DEFINE b == Batch(<<>>, FALSE)
    <2>4. Closed = Begun("idle", b, NoRun, {}, {})
      BY DEF Closed
    <2> HIDE DEF b
    <2>5. b \in Page /\ b.items \in Seq(Feed)
      BY <2>0, <2>1, <2>3 DEF b
    <2>q. QED BY <2>2, <2>4, <2>5, NoRunTyped DEF Begun, Transaction
  <1>3. TypeOK
    BY <1>1, <1>2, NoRunTyped DEF Init, TypeOK, VersionOrNone
  <1>4. /\ OneRecordPerVersion /\ AcknowledgedStored /\ RememberedStored
        /\ IncompleteNeverRetires
    BY DEF Init, OneRecordPerVersion, AcknowledgedStored, RememberedStored,
           IncompleteNeverRetires
  <1>5. HandoffFollowsSnapshot
    BY DEF Init, HandoffFollowsSnapshot, NoRun
  <1>q. QED BY <1>3, <1>4, <1>5, ClosedHolds DEF Init, Inductive

-----------------------------------------------------------------------------
\* The requests PageRequest makes are pages.
LEMMA PageRequestTyped ==
  ASSUME NEW r \in Runs, NEW s \in Pages, NEW p \in PageRequest(r, s)
  PROVE  /\ p \in Page /\ p.run = r /\ p.items = s /\ p.webhook = FALSE
         /\ p.handoff \in Runs \cup {None}
  <1>1. s \in Seq(Feed)
    BY IngestionAssumption
  <1>q. QED BY <1>1 DEF PageRequest, Page

LEMMA BeginPageStep ==
  ASSUME Inductive, NEW q \in Requests, NEW r \in Runs, NEW s \in Pages,
         NEW p \in PageRequest(r, s), BeginPage(q, p)
  PROVE  Inductive'
  <1> DEFINE sweep == IF Sweeps(p) THEN Active \ Seen(p) ELSE {}
             held == IF Sweeps(p) THEN Active ELSE {}
             t == Begun("open", p, runs[r], sweep, held)
  <1>1. /\ p \in Page /\ p.run = r /\ p.items = s /\ p.webhook = FALSE
        /\ p.handoff \in Runs \cup {None}
    BY PageRequestTyped
  <1>2. /\ t.phase = "open" /\ t.page = p /\ t.read = runs[r] /\ t.rest = s
        /\ t.fresh = {} /\ t.sweep = sweep
    BY <1>1 DEF Begun
  <1>3. sweep \subseteq Objects /\ held \subseteq Objects
        /\ (sweep # {} => p.complete)
    BY DEF Active, Sweeps
  <1>4. tx' = [tx EXCEPT ![q] = t]
    BY <1>1 DEF BeginPage
  <1>5. t \in Transaction
    <2>1. TypeOK /\ runs[r] \in Run
      BY DEF Inductive, TypeOK
    <2> HIDE DEF sweep, held
    <2>q. QED BY <1>1, <1>3, <2>1, BegunTyped
  <1> HIDE DEF t, sweep, held
  <1>6. Progress(t)
    BY <1>1, <1>2 DEF Progress
  <1>7. Evidence(t)
    <2>1. p.complete => p.mode = "full"
      BY DEF BeginPage
    <2>2. runs[r].mode # "absent" => runs[r].mode = p.mode
      BY <1>1 DEF BeginPage, PageExpected
    <2>3. p.handoff # None => /\ p.mode = "delta"
                              /\ runs[p.handoff].mode = "full"
                              /\ runs[p.handoff].status = "complete"
      BY <1>1 DEF BeginPage, HandoffReady, Page, Modes
    <2>q. QED BY <1>1, <1>2, <1>3, <2>1, <2>2, <2>3 DEF Evidence
  <1>8. UNCHANGED <<records, objects, drafts, runs, events, acked, present>>
    BY DEF BeginPage
  <1>q. QED BY <1>4, <1>5, <1>6, <1>7, <1>8, TransactionStep

LEMMA BeginBatchStep ==
  ASSUME Inductive, NEW q \in Requests, NEW s \in Pages, BeginBatch(q, s)
  PROVE  Inductive'
  <1>1. TypeOK /\ s \in Seq(Feed)
    BY IngestionAssumption DEF Inductive
  <1> DEFINE t == Begun("open", Batch(s, FALSE), NoRun, {}, {})
  <1>2. t \in Transaction /\ Progress(t) /\ Evidence(t)
    BY <1>1, BatchHolds
  <1>3. /\ tx' = [tx EXCEPT ![q] = t]
        /\ UNCHANGED <<records, objects, drafts, runs, events, acked, present>>
    BY DEF BeginBatch
  <1> HIDE DEF t
  <1>q. QED BY <1>2, <1>3, TransactionStep

LEMMA BeginEventStep ==
  ASSUME Inductive, NEW q \in Requests, NEW i \in Pushed, BeginEvent(q, i)
  PROVE  Inductive'
  <1>1. TypeOK /\ <<i>> \in Seq(Feed) /\ Elements(<<i>>) \subseteq Pushed
    BY IngestionAssumption DEF Inductive, Elements
  <1> DEFINE t == Begun("open", Batch(<<i>>, TRUE), NoRun, {}, {})
  <1>2. t \in Transaction /\ Progress(t) /\ Evidence(t)
    BY <1>1, BatchHolds
  <1>3. /\ tx' = [tx EXCEPT ![q] = t]
        /\ UNCHANGED <<records, objects, drafts, runs, events, acked, present>>
    BY DEF BeginEvent
  <1> HIDE DEF t
  <1>q. QED BY <1>2, <1>3, TransactionStep

\* A request that ends without a commit.
LEMMA ClosingStep ==
  ASSUME Inductive, NEW q \in Requests, tx' = [tx EXCEPT ![q] = Closed],
         UNCHANGED <<records, objects, drafts, runs, events, acked, present>>
  PROVE  Inductive'
  <1>1. TypeOK
    BY DEF Inductive
  <1>q. QED BY <1>1, ClosedHolds, TransactionStep

-----------------------------------------------------------------------------
\* What an object becomes keeps its type, and so does a record's state.
LEMMA ObservedTyped ==
  ASSUME NEW row \in Row, NEW i \in Item
  PROVE  Observed(row, i) \in Row /\ State(row, i) \in States
  <1>1. State(row, i) \in States
    BY DEF State, States, Item
  <1>2. LatestOnly(row, i) \in Row
    BY DEF LatestOnly, Row, Item, VersionOrNone
  <1>3. CASE Applies(row, i)
    BY <1>1, <1>3 DEF Observed, Row, Item, VersionOrNone
  <1>4. CASE ~Applies(row, i)
    BY <1>1, <1>2, <1>4 DEF Observed
  <1>q. QED BY <1>3, <1>4

LEMMA RowOfTyped ==
  ASSUME TypeOK, NEW q \in Requests, NEW o \in Objects
  PROVE  RowOf(q, o) \in Row
  BY DEF TypeOK, Transaction, RowOf

\* An item of a request, or the tombstone of its sweep, is processed.
LEMMA StepHolds ==
  ASSUME Inductive, NEW q \in Requests, tx[q].phase = "open",
         NEW i \in Item, NEW rest \in Seq(Feed), NEW sweep \in SUBSET Objects,
         Elements(tx[q].rest) \subseteq {i} \cup Elements(rest),
         i.version \in Runs => i.version = tx[q].page.run /\ tx[q].page.complete,
         sweep # {} => tx[q].page.run \in Runs /\ tx[q].page.complete,
         Step(q, i, rest, sweep)
  PROVE  Inductive'
  <1> DEFINE t == tx[q]
             row == RowOf(q, i.object)
             x == [item |-> i, state |-> State(row, i)]
             done == Processed(t, i, row, rest, sweep)
             same == Skipped(t, i, row, rest, sweep)
  <1>1. t \in Transaction /\ Progress(t) /\ Evidence(t) /\ TypeOK
    BY DEF Inductive, TypeOK
  <1>2. i.object \in Objects /\ row \in Row
    BY <1>1, RowOfTyped DEF Item
  <1>3. x \in Record /\ x.item = i
    BY <1>2, ObservedTyped DEF Record
  <1>4. CASE SameVersion(q, i) = {}
    <2>1. tx' = [tx EXCEPT ![q] = done]
      BY <1>4 DEF Step, After
    <2>2. /\ done.phase = "open" /\ done.page = t.page /\ done.read = t.read
          /\ done.rest = rest /\ done.sweep = sweep
          /\ done.fresh = t.fresh \cup {x}
      BY DEF Processed
    <2>3. done \in Transaction
      <3>1. Observed(row, i) \in Row
        BY <1>2, ObservedTyped
      <3>2. [t.rows EXCEPT ![i.object] = Observed(row, i)] \in [Objects -> Row]
        BY <1>1, <1>2, <3>1 DEF Transaction
      <3>3. [t.dirty EXCEPT ![i.object] =
                @ \cup {c \in Columns : Observed(row, i)[c] # row[c]}]
              \in [Objects -> SUBSET Columns]
        BY <1>1, <1>2 DEF Transaction
      <3>4. Observed(row, i).current \in VersionOrNone
        BY <3>1 DEF Row
      <3>5. [t.draft EXCEPT ![i.object] = <<Observed(row, i).current>>]
              \in [Objects -> Seq(VersionOrNone)]
        BY <1>1, <1>2, <3>4 DEF Transaction
      <3>6. t.fresh \cup {x} \in SUBSET Record /\ t.held \cup {i.object} \in SUBSET Objects
        BY <1>1, <1>2, <1>3 DEF Transaction
      <3>7. t.page \in Page /\ t.read \in Run /\ t.draft \in [Objects -> Seq(VersionOrNone)]
        BY <1>1 DEF Transaction
      <3> HIDE DEF t, row, x
      <3>q. QED BY <3>2, <3>3, <3>5, <3>6, <3>7 DEF Processed, Transaction, x
    <2>4. \A y \in t.fresh : ~(y.item.object = i.object /\ y.item.version = i.version)
      BY <1>4 DEF SameVersion
    <2> HIDE DEF done, x
    <2>5. Progress(done)
      <3>1. Elements(t.page.items) \subseteq Elements(rest) \cup Items(records \cup done.fresh)
        BY <1>1, <1>3, <2>2 DEF Progress, Items
      <3>q. QED BY <1>1, <1>3, <2>2, <2>4, <3>1 DEF Progress
    <2>6. Evidence(done)
      BY <1>1, <1>3, <2>2 DEF Evidence
    <2>q. QED BY <2>1, <2>3, <2>5, <2>6, TransactionStep DEF Step
  <1>5. CASE SameVersion(q, i) # {} /\ \E y \in SameVersion(q, i) : y.item = i
    <2>1. tx' = [tx EXCEPT ![q] = same]
      BY <1>5 DEF Step, After
    <2>2. /\ same.phase = "open" /\ same.page = t.page /\ same.read = t.read
          /\ same.rest = rest /\ same.sweep = sweep /\ same.fresh = t.fresh
      BY DEF Skipped
    <2>3. same \in Transaction
      <3>1. [t.rows EXCEPT ![i.object] = row] \in [Objects -> Row]
        BY <1>1, <1>2 DEF Transaction
      <3>2. t.held \cup {i.object} \in SUBSET Objects
        BY <1>1, <1>2 DEF Transaction
      <3>3. /\ t.page \in Page /\ t.read \in Run /\ t.fresh \in SUBSET Record
            /\ t.draft \in [Objects -> Seq(VersionOrNone)]
            /\ t.dirty \in [Objects -> SUBSET Columns]
        BY <1>1 DEF Transaction
      <3> HIDE DEF t, row
      <3>q. QED BY <3>1, <3>2, <3>3 DEF Skipped, Transaction
    <2>4. i \in Items(records \cup t.fresh)
      BY <1>5 DEF SameVersion, Items
    <2> HIDE DEF same
    <2>5. Progress(same)
      BY <1>1, <2>2, <2>4 DEF Progress
    <2>6. Evidence(same)
      BY <1>1, <2>2 DEF Evidence
    <2>q. QED BY <2>1, <2>3, <2>5, <2>6, TransactionStep DEF Step
  <1>6. CASE SameVersion(q, i) # {} /\ ~\E y \in SameVersion(q, i) : y.item = i
    <2>1. tx' = [tx EXCEPT ![q] = Closed]
      BY <1>6 DEF Step, After, Conflicting
    <2>q. QED BY <2>1, ClosingStep DEF Step
  <1>q. QED BY <1>4, <1>5, <1>6

LEMMA IngestItemStep ==
  ASSUME Inductive, NEW q \in Requests, IngestItem(q)
  PROVE  Inductive'
  <1>1. /\ tx[q].rest \in Seq(Feed) /\ tx[q].sweep \in SUBSET Objects
        /\ Evidence(tx[q])
    BY DEF Inductive, TypeOK, Transaction
  <1>2. /\ Head(tx[q].rest) \in Feed /\ Tail(tx[q].rest) \in Seq(Feed)
        /\ Elements(tx[q].rest) \subseteq {Head(tx[q].rest)} \cup Elements(Tail(tx[q].rest))
    BY <1>1, ElementsStep DEF IngestItem
  <1>3. Head(tx[q].rest) \in Item /\ Head(tx[q].rest).version \notin Runs
    BY <1>2, IngestionAssumption
  <1>q. QED BY <1>1, <1>2, <1>3, StepHolds DEF IngestItem, Evidence

LEMMA SweepObjectStep ==
  ASSUME Inductive, NEW q \in Requests, SweepObject(q)
  PROVE  Inductive'
  <1>1. tx[q].sweep \in SUBSET Objects /\ Evidence(tx[q])
    BY DEF Inductive, TypeOK, Transaction
  <1>2. PICK o \in tx[q].sweep :
            Step(q, SnapshotDelete(o, tx[q].page.run), <<>>, tx[q].sweep \ {o})
    BY DEF SweepObject
  <1>3. tx[q].page.run \in Runs /\ tx[q].page.complete
    BY <1>1, <1>2 DEF Evidence
  <1> DEFINE i == SnapshotDelete(o, tx[q].page.run)
  <1>4. i \in Item /\ i.version = tx[q].page.run
    BY <1>1, <1>2, <1>3 DEF SnapshotDelete, Item
  <1>5. <<>> \in Seq(Feed) /\ Elements(tx[q].rest) = {}
    BY ElementsOfEmpty DEF SweepObject
  <1>6. tx[q].phase = "open" /\ Step(q, i, <<>>, tx[q].sweep \ {o})
    BY <1>2 DEF SweepObject
  <1>7. tx[q].sweep \ {o} \in SUBSET Objects
    BY <1>1
  <1> HIDE DEF i
  <1>q. QED BY <1>3, <1>4, <1>5, <1>6, <1>7, StepHolds

LEMMA CrashStep ==
  ASSUME Inductive, NEW q \in Requests, CommitRefused(q) \/ Crash(q)
  PROVE  Inductive'
  BY ClosingStep DEF CommitRefused, Crash

-----------------------------------------------------------------------------
\* The commit: the run advances, and what was complete stays complete.
LEMMA RunsAdvance ==
  ASSUME Inductive, NEW q \in Requests, Commit(q)
  PROVE  /\ runs' \in [Runs -> Run]
         /\ \A r \in Runs : runs[r].mode # "absent" => runs'[r].mode = runs[r].mode
         /\ \A r \in Runs : runs[r].status = "complete" => runs'[r].status = "complete"
         /\ tx[q].page.run \in Runs /\ tx[q].page.complete =>
               /\ runs'[tx[q].page.run].mode = "full"
               /\ runs'[tx[q].page.run].status = "complete"
         /\ \A r \in Runs : runs'[r].handoff # runs[r].handoff =>
               /\ r = tx[q].page.run
               /\ tx[q].read.mode = "absent"
               /\ runs'[r].handoff = tx[q].page.handoff
               /\ runs'[r].mode = tx[q].page.mode
  <1> DEFINE t == tx[q]
             p == tx[q].page
  <1>1. t \in Transaction /\ p \in Page /\ t.read \in Run /\ Evidence(t)
        /\ runs \in [Runs -> Run]
    BY DEF Inductive, TypeOK, Transaction
  <1>2. \A r \in Runs : runs'[r] = IF r = p.run THEN Advanced(runs[r], t.read, p)
                                    ELSE runs[r]
    BY DEF Commit
  <1>3. p.run \in Runs /\ t.read.mode = "absent" => runs[p.run].mode = "absent"
    BY IngestionAssumption DEF Commit, KeyTaken
  <1>4. Named(p) \subseteq Objects
    <2>1. Elements(p.items) \subseteq Item
      BY <1>1, ElementsIn, IngestionAssumption DEF Page
    <2>q. QED BY <2>1 DEF Named, Item
  <1>5. ASSUME NEW run \in Run PROVE Advanced(run, t.read, p) \in Run
    <2> HIDE DEF t, p
    <2>q. QED BY <1>1, <1>4 DEF Advanced, Run, Page
  <1>6. runs' \in [Runs -> Run]
    <2>1. runs' = [r \in Runs |-> IF r = p.run THEN Advanced(runs[r], t.read, p) ELSE runs[r]]
      BY DEF Commit
    <2>q. QED BY <1>1, <1>5, <2>1
  <1>7. /\ p.run \in Runs => runs'[p.run].mode = p.mode
        /\ p.run \in Runs /\ p.complete => runs'[p.run].status = "complete"
        /\ p.run \in Runs /\ runs[p.run].status = "complete" =>
              runs'[p.run].status = "complete"
        /\ p.run \in Runs /\ t.read.mode # "absent" =>
              runs'[p.run].handoff = runs[p.run].handoff
        /\ p.run \in Runs /\ t.read.mode = "absent" => runs'[p.run].handoff = p.handoff
    <2> DEFINE a(run) == Advanced(run, t.read, p)
    <2>1. ASSUME NEW run
          PROVE  /\ a(run).mode = p.mode
                 /\ p.complete => a(run).status = "complete"
                 /\ run.status = "complete" => a(run).status = "complete"
                 /\ t.read.mode # "absent" => a(run).handoff = run.handoff
                 /\ t.read.mode = "absent" => a(run).handoff = p.handoff
      <3> HIDE DEF t, p
      <3>q. QED BY DEF Advanced
    <2> HIDE DEF a
    <2>2. p.run \in Runs => runs'[p.run] = a(runs[p.run])
      BY <1>2 DEF a
    <2> HIDE DEF t, p
    <2>q. QED BY <2>1, <2>2
  <1>8. p.complete => p.mode = "full"
    BY <1>1 DEF Evidence
  <1>9. p.run \in Runs /\ t.read.mode # "absent" => runs[p.run].mode = p.mode
    BY <1>1 DEF Evidence
  <1> HIDE DEF t, p
  <1>q. QED BY <1>2, <1>3, <1>6, <1>7, <1>8, <1>9 DEF t, p

LEMMA CommitTyped ==
  ASSUME Inductive, NEW q \in Requests, Commit(q)
  PROVE  TypeOK'
  <1>1. tx[q] \in Transaction /\ TypeOK
    BY DEF Inductive, TypeOK
  <1> DEFINE t == tx[q]
             p == t.page
  <1>2. records' \subseteq Record
    BY <1>1 DEF Commit, TypeOK, Transaction
  <1>3. objects' \in [Objects -> Row]
    <2>1. ASSUME NEW old \in Row, NEW new \in Row, NEW dirty \in SUBSET Columns
          PROVE  Written(old, new, dirty) \in Row
      BY DEF Written, Row
    <2>2. t.rows \in [Objects -> Row] /\ t.dirty \in [Objects -> SUBSET Columns]
      BY <1>1 DEF Transaction
    <2>3. objects' = [o \in Objects |-> Written(objects[o], t.rows[o], t.dirty[o])]
      BY DEF Commit
    <2> HIDE DEF t
    <2>q. QED BY <1>1, <2>1, <2>2, <2>3 DEF TypeOK
  <1>4. drafts' \in [Objects -> VersionOrNone]
    <2>1. t.draft \in [Objects -> Seq(VersionOrNone)]
      BY <1>1 DEF Transaction
    <2>2. drafts' = [o \in Objects |->
                       IF t.draft[o] = <<>> THEN drafts[o] ELSE Head(t.draft[o])]
      BY DEF Commit
    <2> HIDE DEF t
    <2>3. ASSUME NEW o \in Objects, t.draft[o] # <<>>
          PROVE  Head(t.draft[o]) \in VersionOrNone
      BY <2>1, <2>3
    <2>q. QED BY <1>1, <2>2, <2>3 DEF TypeOK
  <1>5. runs' \in [Runs -> Run]
    BY RunsAdvance
  <1>6. events' \subseteq Pushed
    BY <1>1 DEF Commit, TypeOK
  <1>7. p \in Page /\ p.items \in Seq(Feed)
    BY <1>1 DEF Transaction, Page
  <1>8. acked' \subseteq Feed
    BY <1>1, <1>7, ElementsIn DEF Commit, TypeOK
  <1>9. present' \in [Runs -> SUBSET Objects]
    BY <1>1 DEF Commit, TypeOK, Active
  <1>10. tx' \in [Requests -> Transaction]
    <2>1. Closed \in Transaction
      BY <1>1, ClosedHolds
    <2>2. Begun("remember", p, NoRun, {}, {}) \in Transaction
      <3> HIDE DEF p
      <3>q. QED BY <1>1, <1>7, BegunTyped, NoRunTyped
    <2>3. tx' = [tx EXCEPT ![q] = IF p.webhook THEN Begun("remember", p, NoRun, {}, {})
                                  ELSE Closed]
      BY DEF Commit
    <2> HIDE DEF p
    <2>q. QED BY <1>1, <2>1, <2>2, <2>3 DEF TypeOK
  <1>q. QED BY <1>2, <1>3, <1>4, <1>5, <1>6, <1>8, <1>9, <1>10 DEF TypeOK

LEMMA CommitStep ==
  ASSUME Inductive, NEW q \in Requests, Commit(q)
  PROVE  Inductive'
  <1> DEFINE t == tx[q]
             p == tx[q].page
  <1>1. t \in Transaction /\ p \in Page /\ Progress(t) /\ Evidence(t) /\ TypeOK
    BY DEF Inductive, TypeOK, Transaction
  <1>2. TypeOK'
    BY CommitTyped
  <1>3. records' = records \cup t.fresh /\ t.phase = "open"
    BY DEF Commit
  <1>4. Elements(p.items) \subseteq Items(records')
    BY <1>1, <1>3, ElementsOfEmpty DEF Commit, Progress
  <1>5. OneRecordPerVersion'
    <2>1. \A x \in t.fresh, y \in records :
            ~(x.item.object = y.item.object /\ x.item.version = y.item.version)
      BY DEF Commit, KeyTaken
    <2>q. QED BY <1>1, <1>3, <2>1 DEF OneRecordPerVersion, Inductive, Progress
  <1>6. AcknowledgedStored'
    BY <1>3, <1>4 DEF AcknowledgedStored, Inductive, Commit, Items
  <1>7. RememberedStored'
    BY <1>3 DEF RememberedStored, Inductive, Commit
  <1>8. IncompleteNeverRetires'
    <2>1. ASSUME NEW x \in records', x.item.version \in Runs
          PROVE  /\ runs'[x.item.version].mode = "full"
                 /\ runs'[x.item.version].status = "complete"
      <3>1. CASE x \in records
        BY <2>1, <3>1, RunsAdvance DEF Inductive, IncompleteNeverRetires
      <3>2. CASE x \in t.fresh
        BY <1>1, <2>1, <3>2, RunsAdvance DEF Evidence
      <3>q. QED BY <1>3, <3>1, <3>2
    <2>q. QED BY <2>1 DEF IncompleteNeverRetires
  <1>9. HandoffFollowsSnapshot'
    <2>1. ASSUME NEW r \in Runs, runs'[r].handoff # None
          PROVE  /\ runs'[r].mode = "delta"
                 /\ runs'[runs'[r].handoff].mode = "full"
                 /\ runs'[runs'[r].handoff].status = "complete"
      <3>1. CASE runs'[r].handoff = runs[r].handoff
        <4>1. runs[r].handoff \in Runs
          BY <1>1, <2>1, <3>1 DEF TypeOK, Run
        <4>q. QED BY <2>1, <3>1, <4>1, RunsAdvance DEF Inductive, HandoffFollowsSnapshot
      <3>2. CASE runs'[r].handoff # runs[r].handoff
        <4>1. runs'[r].handoff = p.handoff /\ runs'[r].mode = p.mode
          BY <3>2, RunsAdvance
        <4>2. p.handoff \in Runs
          BY <1>1, <2>1, <4>1 DEF Page
        <4>q. QED BY <1>1, <2>1, <4>1, <4>2, RunsAdvance DEF Evidence
      <3>q. QED BY <3>1, <3>2
    <2>q. QED BY <2>1 DEF HandoffFollowsSnapshot
  <1>10. ASSUME NEW s \in Requests PROVE (Progress(tx[s]) /\ Evidence(tx[s]))'
    <2>1. CASE s # q
      <3>1. tx'[s] = tx[s] /\ tx[s] \in Transaction /\ Progress(tx[s]) /\ Evidence(tx[s])
            /\ tx[s].page \in Page
        BY <2>1 DEF Commit, Inductive, TypeOK, Transaction
      <3>2. Progress(tx[s])'
        BY <1>3, <3>1 DEF Progress, Items
      <3>3. /\ tx[s].page.run \in Runs /\ tx[s].read.mode # "absent" =>
                  runs'[tx[s].page.run].mode = tx[s].page.mode
            /\ tx[s].page.handoff # None =>
                  /\ runs'[tx[s].page.handoff].mode = "full"
                  /\ runs'[tx[s].page.handoff].status = "complete"
        BY <3>1, RunsAdvance DEF Evidence, Page, Modes
      <3>q. QED BY <3>1, <3>2, <3>3 DEF Evidence
    <2>2. CASE s = q /\ ~p.webhook
      <3>1. tx'[s] = Closed
        BY <1>1, <2>2 DEF Commit, TypeOK
      <3> DEFINE b == Batch(<<>>, FALSE)
                 c == Begun("idle", b, NoRun, {}, {})
      <3>2. <<>> \in Seq(Feed) /\ tx'[s] = c
        BY <3>1 DEF Closed
      <3>3. b.webhook = FALSE /\ b.run = None /\ b.handoff = None /\ b.complete = FALSE
        BY <3>2, BatchTyped
      <3> HIDE DEF b
      <3>4. c.phase = "idle" /\ c.page = b /\ c.fresh = {} /\ c.sweep = {}
        BY DEF Begun
      <3> HIDE DEF c
      <3>5. Progress(tx[s])'
        BY <3>2, <3>3, <3>4 DEF Progress
      <3>6. Evidence(tx[s])'
        BY <3>2, <3>3, <3>4, IngestionAssumption DEF Evidence
      <3>q. QED BY <3>5, <3>6
    <2>3. CASE s = q /\ p.webhook
      <3> DEFINE c == Begun("remember", p, NoRun, {}, {})
      <3>1. tx'[s] = c
        BY <1>1, <2>3 DEF Commit, TypeOK
      <3>2. c.phase = "remember" /\ c.page = p /\ c.fresh = {} /\ c.sweep = {}
            /\ c.read = NoRun
        BY DEF Begun
      <3>3. NoRun.mode = "absent" /\ p.handoff \in Runs \cup {None}
        BY <1>1 DEF NoRun, Page
      <3> HIDE DEF c, p
      <3>4. tx'[s].phase = "remember" /\ tx'[s].page = p /\ tx'[s].fresh = {}
            /\ tx'[s].sweep = {} /\ tx'[s].read.mode = "absent"
        BY <3>1, <3>2, <3>3
      <3>5. p.webhook => Elements(p.items) \subseteq Pushed
        BY <1>1 DEF Progress, p
      <3>6. Progress(tx[s])'
        BY <1>4, <2>3, <3>4, <3>5 DEF Progress, p
      <3>7. p.handoff # None => /\ p.mode = "delta"
                                /\ runs'[p.handoff].mode = "full"
                                /\ runs'[p.handoff].status = "complete"
        BY <1>1, <3>3, RunsAdvance DEF Evidence, p
      <3>8. p.complete => p.mode = "full"
        BY <1>1 DEF Evidence, p
      <3>q. QED BY <3>4, <3>6, <3>7, <3>8 DEF Evidence
    <2>q. QED BY <2>1, <2>2, <2>3
  <1>q. QED BY <1>2, <1>5, <1>6, <1>7, <1>8, <1>9, <1>10 DEF Inductive

LEMMA RememberStep ==
  ASSUME Inductive, NEW q \in Requests, Remember(q)
  PROVE  Inductive'
  <1> DEFINE items == tx[q].page.items
  <1>1. Progress(tx[q]) /\ TypeOK /\ tx[q].phase = "remember"
    BY DEF Inductive, Remember
  <1>2. Elements(items) \subseteq Items(records)
    BY <1>1 DEF Progress
  <1>3. Elements(items) \subseteq Pushed
    BY <1>1 DEF Progress
  <1>4. Closed \in Transaction /\ Progress(Closed) /\ Evidence(Closed)
    BY <1>1, ClosedHolds
  <1>5. TypeOK'
    BY <1>1, <1>3, <1>4 DEF TypeOK, Remember
  <1>6. RememberedStored'
    BY <1>2 DEF Inductive, RememberedStored, Remember, Items
  <1>7. /\ OneRecordPerVersion' /\ AcknowledgedStored'
        /\ IncompleteNeverRetires' /\ HandoffFollowsSnapshot'
    BY DEF Inductive, OneRecordPerVersion, AcknowledgedStored,
           IncompleteNeverRetires, HandoffFollowsSnapshot, Remember
  <1>8. ASSUME NEW s \in Requests PROVE (Progress(tx[s]) /\ Evidence(tx[s]))'
    <2>1. tx'[s] = IF s = q THEN Closed ELSE tx[s]
      BY <1>1 DEF Remember, TypeOK
    <2>2. Progress(tx'[s]) /\ Evidence(tx'[s])
      BY <1>4, <2>1 DEF Inductive
    <2>3. runs' = runs /\ records' = records
      BY DEF Remember
    <2>q. QED BY <2>2, <2>3 DEF Progress, Evidence
  <1>q. QED BY <1>5, <1>6, <1>7, <1>8 DEF Inductive

LEMMA NextHolds == Inductive /\ [Next]_vars => Inductive'
  <1> SUFFICES ASSUME Inductive, [Next]_vars PROVE Inductive'
    OBVIOUS
  <1>1. CASE Next
    <2>1. PICK q \in Requests :
            \/ \E r \in Runs, s \in Pages : \E p \in PageRequest(r, s) :
                  Sendable(p) /\ BeginPage(q, p)
            \/ \E s \in Pages : BeginBatch(q, s)
            \/ \E i \in Pushed : BeginEvent(q, i)
            \/ IngestItem(q) \/ SweepObject(q) \/ Commit(q)
            \/ CommitRefused(q) \/ Remember(q) \/ Crash(q)
      BY <1>1 DEF Next
    <2>2. CASE \E r \in Runs, s \in Pages : \E p \in PageRequest(r, s) :
                  Sendable(p) /\ BeginPage(q, p)
      BY <2>2, BeginPageStep
    <2>3. CASE \E s \in Pages : BeginBatch(q, s)
      BY <2>3, BeginBatchStep
    <2>4. CASE \E i \in Pushed : BeginEvent(q, i)
      BY <2>4, BeginEventStep
    <2>5. CASE IngestItem(q)
      BY <2>5, IngestItemStep
    <2>6. CASE SweepObject(q)
      BY <2>6, SweepObjectStep
    <2>7. CASE Commit(q)
      BY <2>7, CommitStep
    <2>8. CASE CommitRefused(q) \/ Crash(q)
      BY <2>8, CrashStep
    <2>9. CASE Remember(q)
      BY <2>9, RememberStep
    <2>q. QED BY <2>1, <2>2, <2>3, <2>4, <2>5, <2>6, <2>7, <2>8, <2>9
  <1>2. CASE UNCHANGED vars
    <2>1. /\ TypeOK' /\ OneRecordPerVersion' /\ AcknowledgedStored'
          /\ RememberedStored' /\ IncompleteNeverRetires' /\ HandoffFollowsSnapshot'
      BY <1>2 DEF vars, Inductive, TypeOK, OneRecordPerVersion, AcknowledgedStored,
             RememberedStored, IncompleteNeverRetires, HandoffFollowsSnapshot
    <2>2. ASSUME NEW q \in Requests PROVE (Progress(tx[q]) /\ Evidence(tx[q]))'
      BY <1>2 DEF vars, Inductive, Progress, Evidence
    <2>q. QED BY <2>1, <2>2 DEF Inductive
  <1>q. QED BY <1>1, <1>2

\* The inductive invariant holds in every reachable state.
THEOREM IngestionInductive == Spec => []Inductive
  BY InitHolds, NextHolds, PTL DEF Spec

\* Ingestion keeps the types of its rows, its runs and its transactions.
THEOREM IngestionTyped == Spec => []TypeOK
  <1>1. Inductive => TypeOK
    BY DEF Inductive
  <1>q. QED BY <1>1, IngestionInductive, PTL

\* (local_id, source_version) names one observation, however many requests
\* bring it at the same time.
THEOREM VersionsAreUnique == Spec => []OneRecordPerVersion
  <1>1. Inductive => OneRecordPerVersion
    BY DEF Inductive
  <1>q. QED BY <1>1, IngestionInductive, PTL

\* No acknowledged observation is lost, for any interleaving of requests,
\* repetitions, crashes and refused commits.
THEOREM AcknowledgedIsStored == Spec => []AcknowledgedStored
  <1>1. Inductive => AcknowledgedStored
    BY DEF Inductive
  <1>q. QED BY <1>1, IngestionInductive, PTL

\* The webhook remembers an event only after it is stored: a crash between its
\* two transactions repeats an event and loses none.
THEOREM RememberedIsStored == Spec => []RememberedStored
  <1>1. Inductive => RememberedStored
    BY DEF Inductive
  <1>q. QED BY <1>1, IngestionInductive, PTL

\* A run that is not complete has retired nothing.
THEOREM OnlyCompleteRunsRetire == Spec => []IncompleteNeverRetires
  <1>1. Inductive => IncompleteNeverRetires
    BY DEF Inductive
  <1>q. QED BY <1>1, IngestionInductive, PTL

\* A delta that continues a snapshot continues a complete one, also when the
\* snapshot's pages are sent again afterwards.
THEOREM HandoffIsComplete == Spec => []HandoffFollowsSnapshot
  <1>1. Inductive => HandoffFollowsSnapshot
    BY DEF Inductive
  <1>q. QED BY <1>1, IngestionInductive, PTL

-----------------------------------------------------------------------------
(* What the objects show, when requests that are open at once have read     *)
(* different objects.                                                      *)

\* No two open requests have read the same object.
OwnObjects ==
    \A p, q \in Requests : p # q => tx[p].held \cap tx[q].held = {}

\* The source numbers every observation, and one number of an object is one
\* version of it.
Numbered ==
    \A i, j \in Feed :
        /\ i.sequence # 0
        /\ i.object = j.object /\ i.sequence = j.sequence => i.version = j.version

\* What ContributionConsistent says of object o, for its row, the version it
\* was redrafted with and the records S.
Shows(o, row, draft, S) ==
    /\ row.current # None =>
          \E x \in S : /\ x.item.object = o
                       /\ x.item.version = row.current
                       /\ x.state = "valid"
    /\ row.retired => row.current = None
    /\ row.member => draft = row.current

\* What NewestWins says of object o; its number is that of an observation.
Swept(o, S) == \E y \in S : y.item.object = o /\ y.item.version \in Runs
Counts(x, o) == x.item.object = o /\ x.item.sequence # 0 /\ x.state # "quarantine"
Sourced(o, row, S) ==
    row.sequence # 0 =>
        \E y \in S : /\ y.item \in Feed /\ y.item.object = o
                     /\ y.item.sequence = row.sequence
Leads(o, row, S) ==
    ~Swept(o, S) =>
        \A x \in S : Counts(x, o) =>
            /\ x.item.sequence <= row.sequence
            /\ x.item.sequence = row.sequence =>
                  row.current = IF x.item.deleted THEN None ELSE x.item.version
Newest(o, row, S) == Sourced(o, row, S) /\ Leads(o, row, S)

\* What an open request sees: its own copies and what it adds.
ViewOf(t, o) == IF o \in t.held THEN t.rows[o] ELSE objects[o]
DraftOf(t, o) == IF t.draft[o] = <<>> THEN drafts[o] ELSE Head(t.draft[o])

\* Its commit writes every column in which its copy differs from the row.
WritesBack(t) ==
    \A o \in Objects :
        /\ o \notin t.held => t.dirty[o] = {}
        /\ o \in t.held =>
              /\ \A c \in Columns \ t.dirty[o] : t.rows[o][c] = objects[o][c]
              /\ "exists" \in t.dirty[o] => t.rows[o].exists

\* It redrafts, and adds records of, objects it has read.
Local(t) ==
    /\ \A o \in Objects \ t.held : t.draft[o] = <<>>
    /\ \A x \in t.fresh : x.item.object \in t.held

Faithful(t) ==
    t.phase = "open" =>
        /\ WritesBack(t)
        /\ Local(t)
        /\ \A o \in Objects : Shows(o, ViewOf(t, o), DraftOf(t, o), records \cup t.fresh)
        /\ Numbered => \A o \in Objects : Newest(o, ViewOf(t, o), records \cup t.fresh)

Ordered ==
    /\ Inductive
    /\ \A o \in Objects : Shows(o, objects[o], drafts[o], records)
    /\ Numbered => \A o \in Objects : Newest(o, objects[o], records)
    /\ \A q \in Requests : Faithful(tx[q])

-----------------------------------------------------------------------------
\* The columns of a row that an observation sets, and those it leaves.
LEMMA AppliedRow ==
  ASSUME NEW row \in Row, NEW i \in Item, Applies(row, i)
  PROVE  /\ Observed(row, i).exists = TRUE
         /\ Observed(row, i).current = IF i.deleted THEN None ELSE i.version
         /\ Observed(row, i).sequence = i.sequence
         /\ Observed(row, i).retired = i.deleted
  BY DEF Observed

LEMMA OtherRow ==
  ASSUME NEW row \in Row, NEW i \in Item, ~Applies(row, i)
  PROVE  /\ Observed(row, i).exists = TRUE
         /\ Observed(row, i).current = row.current
         /\ Observed(row, i).sequence = row.sequence
         /\ Observed(row, i).retired = row.retired
         /\ Observed(row, i).member = row.member
  BY DEF Observed, LatestOnly

\* An observation that passes the policy and is current is valid; its entity is
\* redrafted with it.
LEMMA ProcessedShows ==
  ASSUME NEW row \in Row, NEW i \in Item, NEW S, NEW draft,
         Shows(i.object, row, draft, S),
         NEW x, x = [item |-> i, state |-> State(row, i)],
         NEW new, new = Observed(row, i),
         NEW redraft, redraft = IF Applies(row, i) /\ new.member THEN new.current ELSE draft
  PROVE  Shows(i.object, new, redraft, S \cup {x})
  <1>1. x.item = i /\ x.state = State(row, i)
    OBVIOUS
  <1>2. CASE Applies(row, i)
    <2>1. /\ new.current = IF i.deleted THEN None ELSE i.version
          /\ new.retired = i.deleted
      BY <1>2, AppliedRow
    <2>2. ~i.deleted => x.state = "valid"
      BY <1>1, <1>2 DEF Applies, State
    <2>3. new.member => redraft = new.current
      BY <1>2
    <2>q. QED BY <1>1, <2>1, <2>2, <2>3 DEF Shows
  <1>3. CASE ~Applies(row, i)
    <2>1. /\ new.current = row.current /\ new.retired = row.retired
          /\ new.member = row.member
      BY <1>3, OtherRow
    <2>2. redraft = draft
      BY <1>3
    <2>q. QED BY <2>1, <2>2 DEF Shows
  <1>q. QED BY <1>2, <1>3

\* A number that is as high as the highest one is that of the same version,
\* which is not received twice.
LEMMA ProcessedNewest ==
  ASSUME Numbered, NEW row \in Row, NEW i \in Item, NEW S \in SUBSET Record,
         Newest(i.object, row, S),
         i \in Feed \/ (i.version \in Runs /\ i.sequence = 0),
         \A y \in S : ~(y.item.object = i.object /\ y.item.version = i.version),
         NEW x, x = [item |-> i, state |-> State(row, i)],
         NEW new, new = Observed(row, i)
  PROVE  Newest(i.object, new, S \cup {x})
  <1>1. x.item = i /\ x.state = State(row, i)
    OBVIOUS
  <1>2. /\ i.sequence \in Nat /\ row.sequence \in Nat
        /\ \A y \in S : y.item.sequence \in Nat
    BY DEF Item, Row, Record
  <1>3. Sourced(i.object, new, S \cup {x})
    <2>1. CASE Applies(row, i)
      <3>1. new.sequence = i.sequence
        BY <2>1, AppliedRow
      <3>q. QED BY <1>1, <3>1 DEF Sourced
    <2>2. CASE ~Applies(row, i)
      <3>1. new.sequence = row.sequence
        BY <2>2, OtherRow
      <3>q. QED BY <3>1 DEF Sourced, Newest
    <2>q. QED BY <2>1, <2>2
  <1>4. CASE i.version \in Runs
    <2>1. Swept(i.object, S \cup {x})
      BY <1>1, <1>4 DEF Swept
    <2>q. QED BY <1>3, <2>1 DEF Newest, Leads
  <1>5. CASE i \in Feed
    <2>1. i.sequence # 0
      BY <1>5 DEF Numbered
    <2>2. SUFFICES ASSUME ~Swept(i.object, S \cup {x}),
                          NEW y \in S \cup {x}, Counts(y, i.object)
                   PROVE  /\ y.item.sequence <= new.sequence
                          /\ y.item.sequence = new.sequence =>
                               new.current = IF y.item.deleted THEN None ELSE y.item.version
      BY <1>3 DEF Newest, Leads
    <2>3. y \in S => /\ y.item.sequence <= row.sequence
                     /\ y.item.sequence = row.sequence =>
                          row.current = IF y.item.deleted THEN None ELSE y.item.version
      BY <2>2 DEF Newest, Leads, Swept
    <2>4. y.item.sequence # 0 /\ y.state # "quarantine"
      BY <2>2 DEF Counts
    <2>5. CASE Applies(row, i)
      <3>1. /\ new.sequence = i.sequence
            /\ new.current = IF i.deleted THEN None ELSE i.version
        BY <2>5, AppliedRow
      <3>2. row.sequence # 0 => i.sequence > row.sequence
        BY <2>1, <2>5 DEF Applies, ObservationIsCurrent
      <3>3. CASE y = x
        BY <1>1, <1>2, <3>1, <3>3
      <3>4. CASE y \in S
        BY <1>2, <2>3, <2>4, <3>1, <3>2, <3>4
      <3>q. QED BY <3>3, <3>4
    <2>6. CASE ~Applies(row, i)
      <3>1. new.sequence = row.sequence /\ new.current = row.current
        BY <2>6, OtherRow
      <3>2. CASE y = x
        <4>1. ~Quarantined(row, i)
          BY <1>1, <2>4, <3>2 DEF State, Quarantined
        <4>2. row.sequence # 0 /\ i.sequence <= row.sequence
          BY <1>2, <2>1, <2>6, <4>1 DEF Applies, ObservationIsCurrent
        <4>3. PICK z \in S : /\ z.item \in Feed /\ z.item.object = i.object
                             /\ z.item.sequence = row.sequence
          BY <4>2 DEF Newest, Sourced
        <4>4. i.sequence # row.sequence
          BY <1>5, <4>3 DEF Numbered
        <4>q. QED BY <1>1, <1>2, <3>1, <3>2, <4>2, <4>4
      <3>3. CASE y \in S
        BY <2>3, <3>1, <3>3
      <3>q. QED BY <3>2, <3>3
    <2>q. QED BY <2>5, <2>6
  <1>q. QED BY <1>4, <1>5

\* Records of other objects change nothing.
LEMMA OthersShow ==
  ASSUME NEW o, NEW row, NEW draft, NEW S, NEW T, Shows(o, row, draft, S)
  PROVE  Shows(o, row, draft, S \cup T)
  BY DEF Shows

LEMMA OthersNewest ==
  ASSUME NEW o, NEW row, NEW S, NEW T, \A x \in T : x.item.object # o,
         Newest(o, row, S)
  PROVE  Newest(o, row, S \cup T)
  <1>1. Sourced(o, row, S \cup T)
    BY DEF Newest, Sourced
  <1>2. Leads(o, row, S \cup T)
    BY DEF Newest, Leads, Swept, Counts
  <1>q. QED BY <1>1, <1>2 DEF Newest

\* The columns that are written make the row what the request saw.
LEMMA WrittenIsView ==
  ASSUME NEW old \in Row, NEW new \in Row, NEW dirty \in SUBSET Columns,
         \A c \in Columns \ dirty : new[c] = old[c],
         "exists" \in dirty => new.exists
  PROVE  Written(old, new, dirty) = new
  <1>1. /\ "exists" \notin dirty => new.exists = old.exists
        /\ "current" \notin dirty => new.current = old.current
        /\ "latest" \notin dirty => new.latest = old.latest
        /\ "sequence" \notin dirty => new.sequence = old.sequence
        /\ "effective" \notin dirty => new.effective = old.effective
        /\ "retired" \notin dirty => new.retired = old.retired
        /\ "member" \notin dirty => new.member = old.member
    BY DEF Columns
  <1>2. ("exists" \in dirty \/ old.exists) = new.exists
    BY <1>1 DEF Row
  <1>q. QED BY <1>1, <1>2 DEF Written, Row

LEMMA NothingWritten ==
  ASSUME NEW old \in Row, NEW new
  PROVE  Written(old, new, {}) = old
  BY DEF Written, Row

-----------------------------------------------------------------------------
\* A step that changes only one transaction.
LEMMA TransactionOrdered ==
  ASSUME Ordered, Inductive', NEW q \in Requests, NEW t \in Transaction,
         tx' = [tx EXCEPT ![q] = t], Faithful(t),
         UNCHANGED <<records, objects, drafts>>
  PROVE  Ordered'
  <1>1. /\ \A o \in Objects : Shows(o, objects'[o], drafts'[o], records')
        /\ Numbered => \A o \in Objects : Newest(o, objects'[o], records')
    BY DEF Ordered
  <1>2. ASSUME NEW p \in Requests PROVE Faithful(tx[p])'
    <2>1. tx'[p] = IF p = q THEN t ELSE tx[p]
      BY DEF Ordered, Inductive, TypeOK
    <2>2. Faithful(tx'[p])
      BY <2>1 DEF Ordered
    <2>3. /\ \A o \in Objects : ViewOf(tx[p], o)' = ViewOf(tx'[p], o)
          /\ \A o \in Objects : DraftOf(tx[p], o)' = DraftOf(tx'[p], o)
          /\ WritesBack(tx[p])' = WritesBack(tx'[p])
          /\ Local(tx[p])' = Local(tx'[p])
      BY DEF WritesBack, Local, ViewOf, DraftOf
    <2>q. QED BY <2>2, <2>3 DEF Faithful
  <1>q. QED BY <1>1, <1>2 DEF Ordered

\* A request starts with the rows as they are.
LEMMA BegunFaithful ==
  ASSUME Ordered, NEW f, NEW p, NEW read, NEW sweep \in SUBSET Objects,
         NEW held \in SUBSET Objects
  PROVE  Faithful(Begun(f, p, read, sweep, held))
  <1> DEFINE t == Begun(f, p, read, sweep, held)
  <1>1. /\ t.page = p /\ t.sweep = sweep /\ t.held = held /\ t.fresh = {}
        /\ t.rows = [o \in Objects |-> IF o \in held THEN objects[o] ELSE NoObject]
        /\ t.dirty = [o \in Objects |-> {}] /\ t.draft = [o \in Objects |-> <<>>]
    BY DEF Begun
  <1> HIDE DEF t
  <1>2. WritesBack(t)
    BY <1>1 DEF WritesBack
  <1>3. Local(t)
    BY <1>1 DEF Local
  <1>4. \A o \in Objects : ViewOf(t, o) = objects[o] /\ DraftOf(t, o) = drafts[o]
    BY <1>1 DEF ViewOf, DraftOf
  <1>5. records \cup t.fresh = records
    BY <1>1
  <1>6. /\ \A o \in Objects : Shows(o, ViewOf(t, o), DraftOf(t, o), records \cup t.fresh)
        /\ Numbered => \A o \in Objects : Newest(o, ViewOf(t, o), records \cup t.fresh)
    BY <1>4, <1>5 DEF Ordered
  <1>q. QED BY <1>2, <1>3, <1>6 DEF Faithful, t

LEMMA ClosedFaithful ==
  ASSUME Ordered
  PROVE  Faithful(Closed)
  <1>1. Closed.phase = "idle"
    BY DEF Closed, Begun
  <1>q. QED BY <1>1 DEF Faithful

\* An observation that is new: the view of its object follows it.
LEMMA ProcessedFaithful ==
  ASSUME Ordered, NEW q \in Requests, tx[q].phase = "open", NEW i \in Item,
         NEW rest, NEW sweep \in SUBSET tx[q].sweep,
         i \in Feed \/ (i.version \in Runs /\ i.sequence = 0),
         SameVersion(q, i) = {}
  PROVE  Faithful(Processed(tx[q], i, RowOf(q, i.object), rest, sweep))
  <1> DEFINE t == tx[q]
             row == RowOf(q, i.object)
             new == Observed(row, i)
             x == [item |-> i, state |-> State(row, i)]
             done == Processed(t, i, row, rest, sweep)
  <1>1. t \in Transaction /\ TypeOK /\ Faithful(t)
    BY DEF Ordered, Inductive, TypeOK
  <1>2. i.object \in Objects /\ row \in Row /\ row = ViewOf(t, i.object)
    BY <1>1, RowOfTyped DEF Item, RowOf, ViewOf
  <1>3. new \in Row
    BY <1>2, ObservedTyped
  <1>4. /\ done.page = t.page /\ done.sweep = sweep
        /\ done.held = t.held \cup {i.object}
        /\ done.rows = [t.rows EXCEPT ![i.object] = new]
        /\ done.dirty = [t.dirty EXCEPT ![i.object] =
                            @ \cup {c \in Columns : new[c] # row[c]}]
        /\ done.fresh = t.fresh \cup {x}
        /\ done.draft = IF Applies(row, i) /\ new.member
                        THEN [t.draft EXCEPT ![i.object] = <<new.current>>]
                        ELSE t.draft
    BY DEF Processed
  <1>5. /\ t.rows \in [Objects -> Row] /\ t.dirty \in [Objects -> SUBSET Columns]
        /\ t.draft \in [Objects -> Seq(VersionOrNone)] /\ t.held \subseteq Objects
        /\ t.fresh \subseteq Record /\ records \subseteq Record
    BY <1>1 DEF Transaction, TypeOK
  <1>6. /\ WritesBack(t) /\ Local(t)
        /\ \A o \in Objects : Shows(o, ViewOf(t, o), DraftOf(t, o), records \cup t.fresh)
        /\ Numbered => \A o \in Objects : Newest(o, ViewOf(t, o), records \cup t.fresh)
    BY <1>1 DEF Faithful
  <1>7. x.item = i /\ x = [item |-> i, state |-> State(row, i)]
    OBVIOUS
  <1>8. \A y \in records \cup t.fresh :
           ~(y.item.object = i.object /\ y.item.version = i.version)
    BY DEF SameVersion
  <1>9. new = Observed(row, i) /\ new.exists
    BY DEF Observed, LatestOnly
  <1>10. Numbered => Newest(i.object, new, (records \cup t.fresh) \cup {x})
    <2>1. (records \cup t.fresh) \in SUBSET Record
      BY <1>5
    <2> HIDE DEF t, row, new, x
    <2>q. QED BY <1>2, <1>6, <1>7, <1>8, <1>9, <2>1, ProcessedNewest
  <1> DEFINE redraft == IF Applies(row, i) /\ new.member THEN new.current
                        ELSE DraftOf(t, i.object)
  <1>11. Shows(i.object, new, redraft, (records \cup t.fresh) \cup {x})
    <2>1. redraft = IF Applies(row, i) /\ new.member THEN new.current
                    ELSE DraftOf(t, i.object)
      OBVIOUS
    <2> HIDE DEF t, row, new, x, redraft
    <2>q. QED BY <1>2, <1>6, <1>7, <1>9, <2>1, ProcessedShows
  <1> HIDE DEF done, x, new, row, t
  <1>12. /\ ViewOf(done, i.object) = new
         /\ \A o \in Objects : o # i.object => ViewOf(done, o) = ViewOf(t, o)
    BY <1>2, <1>4, <1>5 DEF ViewOf
  <1>13. /\ DraftOf(done, i.object) = redraft
         /\ \A o \in Objects : o # i.object => DraftOf(done, o) = DraftOf(t, o)
    <2>1. <<new.current>> # <<>> /\ Head(<<new.current>>) = new.current
      OBVIOUS
    <2>2. CASE Applies(row, i) /\ new.member
      BY <1>2, <1>4, <1>5, <2>1, <2>2 DEF DraftOf
    <2>3. CASE ~(Applies(row, i) /\ new.member)
      BY <1>4, <2>3 DEF DraftOf
    <2>q. QED BY <2>2, <2>3
  <1>14. records \cup done.fresh = (records \cup t.fresh) \cup {x}
    BY <1>4
  <1>15. WritesBack(done)
    <2>1. ASSUME NEW o \in Objects, o # i.object
          PROVE  /\ o \notin done.held => done.dirty[o] = {}
                 /\ o \in done.held =>
                       /\ \A c \in Columns \ done.dirty[o] : done.rows[o][c] = objects[o][c]
                       /\ "exists" \in done.dirty[o] => done.rows[o].exists
      <3>1. done.dirty[o] = t.dirty[o] /\ done.rows[o] = t.rows[o]
        BY <1>4, <1>5, <2>1
      <3>q. QED BY <1>4, <1>6, <2>1, <3>1 DEF WritesBack
    <2>2. /\ done.rows[i.object] = new
          /\ done.dirty[i.object] = t.dirty[i.object] \cup {c \in Columns : new[c] # row[c]}
          /\ i.object \in done.held
      BY <1>2, <1>4, <1>5
    <2>3. \A c \in Columns \ t.dirty[i.object] : row[c] = objects[i.object][c]
      BY <1>2, <1>6 DEF WritesBack, ViewOf
    <2>4. \A c \in Columns \ done.dirty[i.object] : new[c] = objects[i.object][c]
      BY <2>2, <2>3
    <2>5. "exists" \in done.dirty[i.object] => done.rows[i.object].exists
      BY <1>9, <2>2
    <2>6. /\ i.object \in done.held
          /\ \A c \in Columns \ done.dirty[i.object] :
                done.rows[i.object][c] = objects[i.object][c]
      BY <2>2, <2>4
    <2>q. QED BY <2>1, <2>5, <2>6 DEF WritesBack
  <1>16. Local(done)
    BY <1>2, <1>4, <1>5, <1>6, <1>7 DEF Local
  <1>17. ASSUME NEW o \in Objects, o # i.object
         PROVE  /\ Shows(o, ViewOf(t, o), DraftOf(t, o), (records \cup t.fresh) \cup {x})
                /\ Numbered => Newest(o, ViewOf(t, o), (records \cup t.fresh) \cup {x})
    <2>1. \A z \in {x} : z.item.object # o
      BY <1>7, <1>17
    <2>q. QED BY <1>6, <2>1, OthersShow, OthersNewest
  <1>18. \A o \in Objects :
            /\ Shows(o, ViewOf(done, o), DraftOf(done, o), records \cup done.fresh)
            /\ Numbered => Newest(o, ViewOf(done, o), records \cup done.fresh)
    BY <1>10, <1>11, <1>12, <1>13, <1>14, <1>17
  <1>19. Faithful(done)
    BY <1>15, <1>16, <1>18 DEF Faithful
  <1>q. QED BY <1>19 DEF done, t, row

\* An observation that is repeated changes no view.
LEMMA SkippedFaithful ==
  ASSUME Ordered, NEW q \in Requests, tx[q].phase = "open", NEW i \in Item,
         NEW rest, NEW sweep \in SUBSET tx[q].sweep
  PROVE  Faithful(Skipped(tx[q], i, RowOf(q, i.object), rest, sweep))
  <1> DEFINE t == tx[q]
             row == RowOf(q, i.object)
             same == Skipped(t, i, row, rest, sweep)
  <1>1. t \in Transaction /\ TypeOK /\ Faithful(t)
    BY DEF Ordered, Inductive, TypeOK
  <1>2. i.object \in Objects /\ row = ViewOf(t, i.object)
    BY DEF Item, RowOf, ViewOf
  <1>3. /\ same.page = t.page /\ same.sweep = sweep
        /\ same.held = t.held \cup {i.object}
        /\ same.rows = [t.rows EXCEPT ![i.object] = row]
        /\ same.dirty = t.dirty /\ same.fresh = t.fresh /\ same.draft = t.draft
    BY DEF Skipped
  <1>4. t.rows \in [Objects -> Row] /\ t.dirty \in [Objects -> SUBSET Columns]
    BY <1>1 DEF Transaction
  <1>5. /\ WritesBack(t) /\ Local(t)
        /\ \A o \in Objects : Shows(o, ViewOf(t, o), DraftOf(t, o), records \cup t.fresh)
        /\ Numbered => \A o \in Objects : Newest(o, ViewOf(t, o), records \cup t.fresh)
    BY <1>1 DEF Faithful
  <1> HIDE DEF same, row, t
  <1>6. \A o \in Objects : ViewOf(same, o) = ViewOf(t, o) /\ DraftOf(same, o) = DraftOf(t, o)
    BY <1>2, <1>3, <1>4 DEF ViewOf, DraftOf
  <1>7. WritesBack(same)
    <2>1. ASSUME NEW o \in Objects
          PROVE  /\ o \notin same.held => same.dirty[o] = {}
                 /\ o \in same.held =>
                       /\ \A c \in Columns \ same.dirty[o] : same.rows[o][c] = objects[o][c]
                       /\ "exists" \in same.dirty[o] => same.rows[o].exists
      <3>1. CASE o \in t.held
        <4>1. same.rows[o] = t.rows[o]
          BY <1>2, <1>3, <1>4, <3>1 DEF ViewOf
        <4>q. QED BY <1>3, <1>5, <3>1, <4>1 DEF WritesBack
      <3>2. CASE o \notin t.held
        <4>1. t.dirty[o] = {} /\ ViewOf(t, o) = objects[o]
          BY <1>5, <3>2 DEF WritesBack, ViewOf
        <4>2. o \in same.held => same.rows[o] = objects[o]
          BY <1>2, <1>3, <1>4, <3>2, <4>1
        <4>q. QED BY <1>3, <4>1, <4>2
      <3>q. QED BY <3>1, <3>2
    <2>q. QED BY <2>1 DEF WritesBack
  <1>8. Local(same)
    BY <1>3, <1>5 DEF Local
  <1>9. Faithful(same)
    BY <1>3, <1>5, <1>6, <1>7, <1>8 DEF Faithful
  <1>q. QED BY <1>9 DEF same, t, row

LEMMA StepOrdered ==
  ASSUME Ordered, Inductive', NEW q \in Requests, tx[q].phase = "open",
         NEW i \in Item, NEW rest, NEW sweep \in SUBSET tx[q].sweep,
         i \in Feed \/ (i.version \in Runs /\ i.sequence = 0),
         Step(q, i, rest, sweep)
  PROVE  Ordered'
  <1>1. Faithful(After(q, i, rest, sweep))
    <2>1. CASE SameVersion(q, i) = {}
      BY <2>1, ProcessedFaithful DEF After
    <2>2. CASE SameVersion(q, i) # {} /\ \E x \in SameVersion(q, i) : x.item = i
      BY <2>2, SkippedFaithful DEF After
    <2>3. CASE SameVersion(q, i) # {} /\ ~\E x \in SameVersion(q, i) : x.item = i
      BY <2>3, ClosedFaithful DEF After, Conflicting
    <2>q. QED BY <2>1, <2>2, <2>3
  <1>2. tx \in [Requests -> Transaction] /\ tx' \in [Requests -> Transaction]
    BY DEF Ordered, Inductive, TypeOK
  <1> DEFINE t == After(q, i, rest, sweep)
  <1>3. tx' = [tx EXCEPT ![q] = t]
    BY DEF Step
  <1>4. UNCHANGED <<records, objects, drafts, runs, events, acked, present>>
    BY DEF Step
  <1>5. Faithful(t)
    BY <1>1
  <1> HIDE DEF t
  <1>6. tx'[q] = t
    BY <1>2, <1>3
  <1>7. t \in Transaction
    BY <1>2, <1>6
  <1>q. QED BY <1>3, <1>4, <1>5, <1>7, TransactionOrdered

LEMMA IngestItemOrdered ==
  ASSUME Ordered, Inductive', NEW q \in Requests, IngestItem(q)
  PROVE  Ordered'
  <1>1. tx[q].rest \in Seq(Feed) /\ tx[q].rest # <<>>
    BY DEF Ordered, Inductive, TypeOK, Transaction, IngestItem
  <1> DEFINE i == Head(tx[q].rest)
  <1>2. i \in Feed
    BY <1>1, ElementsStep
  <1>3. i \in Item /\ i.version \notin Runs
    BY <1>2, IngestionAssumption
  <1>4. /\ tx[q].phase = "open" /\ tx[q].sweep \in SUBSET tx[q].sweep
        /\ Step(q, i, Tail(tx[q].rest), tx[q].sweep)
    BY DEF IngestItem
  <1> HIDE DEF i
  <1>q. QED BY <1>2, <1>3, <1>4, StepOrdered

LEMMA SweepObjectOrdered ==
  ASSUME Ordered, Inductive', NEW q \in Requests, SweepObject(q)
  PROVE  Ordered'
  <1>1. tx[q].sweep \in SUBSET Objects /\ Evidence(tx[q]) /\ tx[q].phase = "open"
    BY DEF Ordered, Inductive, TypeOK, Transaction, SweepObject
  <1>2. PICK o \in tx[q].sweep :
            Step(q, SnapshotDelete(o, tx[q].page.run), <<>>, tx[q].sweep \ {o})
    BY DEF SweepObject
  <1>3. tx[q].page.run \in Runs /\ o \in Objects
    BY <1>1, <1>2 DEF Evidence
  <1> DEFINE i == SnapshotDelete(o, tx[q].page.run)
  <1>4. i \in Item /\ i.version \in Runs /\ i.sequence = 0
    BY <1>3 DEF SnapshotDelete, Item
  <1>5. Step(q, i, <<>>, tx[q].sweep \ {o}) /\ tx[q].sweep \ {o} \in SUBSET tx[q].sweep
    BY <1>2
  <1> HIDE DEF i
  <1>q. QED BY <1>1, <1>4, <1>5, StepOrdered

\* What a request t commits to the objects it has read changes nothing that a
\* request u sees which has read others.
LEMMA OthersFaithful ==
  ASSUME NEW t \in Transaction, NEW u \in Transaction,
         t.phase = "open", Faithful(t), Faithful(u), t.held \cap u.held = {},
         records' = records \cup t.fresh,
         \A o \in Objects : objects'[o] = ViewOf(t, o) /\ drafts'[o] = DraftOf(t, o)
  PROVE  Faithful(u)'
  <1> SUFFICES ASSUME u.phase = "open"
               PROVE  /\ WritesBack(u)' /\ Local(u)
                      /\ \A o \in Objects :
                            /\ Shows(o, ViewOf(u, o)', DraftOf(u, o)', records' \cup u.fresh)
                            /\ Numbered => Newest(o, ViewOf(u, o)', records' \cup u.fresh)
    BY DEF Faithful, Local
  <1>1. /\ WritesBack(t) /\ Local(t) /\ WritesBack(u) /\ Local(u)
        /\ \A o \in Objects :
              /\ Shows(o, ViewOf(t, o), DraftOf(t, o), records \cup t.fresh)
              /\ Shows(o, ViewOf(u, o), DraftOf(u, o), records \cup u.fresh)
              /\ Numbered => /\ Newest(o, ViewOf(t, o), records \cup t.fresh)
                             /\ Newest(o, ViewOf(u, o), records \cup u.fresh)
    BY DEF Faithful
  <1>2. \A o \in Objects \ t.held : objects'[o] = objects[o] /\ drafts'[o] = drafts[o]
    BY <1>1 DEF Local, ViewOf, DraftOf
  <1>3. WritesBack(u)'
    <2>1. ASSUME NEW o \in Objects
          PROVE  /\ o \notin u.held => u.dirty[o] = {}
                 /\ o \in u.held =>
                       /\ \A c \in Columns \ u.dirty[o] : u.rows[o][c] = objects'[o][c]
                       /\ "exists" \in u.dirty[o] => u.rows[o].exists
      BY <1>1, <1>2 DEF WritesBack
    <2>q. QED BY <2>1 DEF WritesBack
  <1>4. /\ records' \cup u.fresh = (records \cup t.fresh) \cup u.fresh
        /\ records' \cup u.fresh = (records \cup u.fresh) \cup t.fresh
    OBVIOUS
  <1>5. ASSUME NEW o \in Objects
        PROVE  /\ Shows(o, ViewOf(u, o)', DraftOf(u, o)', records' \cup u.fresh)
               /\ Numbered => Newest(o, ViewOf(u, o)', records' \cup u.fresh)
    <2>1. CASE o \in t.held
      <3>1. ViewOf(u, o)' = ViewOf(t, o) /\ DraftOf(u, o)' = DraftOf(t, o)
        BY <1>1, <2>1 DEF Local, ViewOf, DraftOf
      <3>2. \A x \in u.fresh : x.item.object # o
        BY <1>1, <2>1 DEF Local
      <3>3. Shows(o, ViewOf(t, o), DraftOf(t, o), (records \cup t.fresh) \cup u.fresh)
        BY <1>1, OthersShow
      <3>4. Numbered => Newest(o, ViewOf(t, o), (records \cup t.fresh) \cup u.fresh)
        BY <1>1, <3>2, OthersNewest
      <3>q. QED BY <1>4, <3>1, <3>3, <3>4
    <2>2. CASE o \notin t.held
      <3>1. ViewOf(u, o)' = ViewOf(u, o) /\ DraftOf(u, o)' = DraftOf(u, o)
        BY <1>2, <2>2 DEF ViewOf, DraftOf
      <3>2. \A x \in t.fresh : x.item.object # o
        BY <1>1, <2>2 DEF Local
      <3>3. Shows(o, ViewOf(u, o), DraftOf(u, o), (records \cup u.fresh) \cup t.fresh)
        BY <1>1, OthersShow
      <3>4. Numbered => Newest(o, ViewOf(u, o), (records \cup u.fresh) \cup t.fresh)
        BY <1>1, <3>2, OthersNewest
      <3>q. QED BY <1>4, <3>1, <3>3, <3>4
    <2>q. QED BY <2>1, <2>2
  <1>q. QED BY <1>1, <1>3, <1>5

\* The rows become what the request saw.
LEMMA CommitOrdered ==
  ASSUME OwnObjects, Ordered, Inductive', NEW q \in Requests, Commit(q)
  PROVE  Ordered'
  <1> DEFINE t == tx[q]
  <1>1. t \in Transaction /\ TypeOK /\ Faithful(t) /\ t.phase = "open"
    BY DEF Ordered, Inductive, TypeOK, Commit
  <1>2. /\ records' = records \cup t.fresh
        /\ objects' = [o \in Objects |-> Written(objects[o], t.rows[o], t.dirty[o])]
        /\ drafts' = [o \in Objects |-> DraftOf(t, o)]
    BY DEF Commit, DraftOf
  <1>3. tx'[q].phase # "open"
    <2>1. tx \in [Requests -> Transaction]
      BY <1>1 DEF TypeOK
    <2>2. Begun("remember", t.page, NoRun, {}, {}).phase = "remember"
          /\ Closed.phase = "idle"
      BY DEF Begun, Closed
    <2>3. tx'[q] = IF t.page.webhook THEN Begun("remember", t.page, NoRun, {}, {}) ELSE Closed
      BY <2>1 DEF Commit
    <2>q. QED BY <2>2, <2>3
  <1>4. \A p \in Requests : p # q => tx'[p] = tx[p]
    BY DEF Commit, Ordered, Inductive, TypeOK
  <1>5. /\ WritesBack(t)
        /\ \A o \in Objects : Shows(o, ViewOf(t, o), DraftOf(t, o), records \cup t.fresh)
        /\ Numbered => \A o \in Objects : Newest(o, ViewOf(t, o), records \cup t.fresh)
    BY <1>1 DEF Faithful
  <1>6. /\ t.rows \in [Objects -> Row] /\ t.dirty \in [Objects -> SUBSET Columns]
        /\ objects \in [Objects -> Row]
    BY <1>1 DEF Transaction, TypeOK
  <1> HIDE DEF t
  <1>7. ASSUME NEW o \in Objects
        PROVE  objects'[o] = ViewOf(t, o) /\ drafts'[o] = DraftOf(t, o)
    <2>1. objects'[o] = Written(objects[o], t.rows[o], t.dirty[o])
      BY <1>2
    <2>2. objects[o] \in Row /\ t.rows[o] \in Row /\ t.dirty[o] \in SUBSET Columns
      BY <1>6
    <2>3. CASE o \in t.held
      <3>1. /\ \A c \in Columns \ t.dirty[o] : t.rows[o][c] = objects[o][c]
            /\ "exists" \in t.dirty[o] => t.rows[o].exists
        BY <1>5, <2>3 DEF WritesBack
      <3>q. QED BY <1>2, <2>1, <2>2, <2>3, <3>1, WrittenIsView DEF ViewOf
    <2>4. CASE o \notin t.held
      <3>1. t.dirty[o] = {}
        BY <1>5, <2>4 DEF WritesBack
      <3>q. QED BY <1>2, <2>1, <2>2, <2>4, <3>1, NothingWritten DEF ViewOf
    <2>q. QED BY <2>3, <2>4
  <1>8. /\ \A o \in Objects : Shows(o, objects'[o], drafts'[o], records')
        /\ Numbered => \A o \in Objects : Newest(o, objects'[o], records')
    BY <1>2, <1>5, <1>7
  <1>9. ASSUME NEW p \in Requests
        PROVE  Faithful(tx[p])'
    <2>1. CASE p = q
      BY <1>3, <2>1 DEF Faithful
    <2>2. CASE p # q
      <3>1. PICK u \in Transaction : u = tx[p]
        BY <1>1 DEF TypeOK
      <3>2. PICK v \in Transaction : v = t
        BY <1>1
      <3>3. t.held \cap tx[p].held = {}
        BY <2>2 DEF OwnObjects, t
      <3>4. Faithful(tx[p])
        BY DEF Ordered
      <3>5. Faithful(u)'
        BY <1>1, <1>2, <1>7, <3>1, <3>2, <3>3, <3>4, OthersFaithful
      <3>6. tx'[p] = u
        BY <1>4, <2>2, <3>1
      <3>7. /\ \A o \in Objects : ViewOf(tx[p], o)' = ViewOf(u, o)'
            /\ \A o \in Objects : DraftOf(tx[p], o)' = DraftOf(u, o)'
            /\ WritesBack(tx[p])' = WritesBack(u)'
            /\ Local(tx[p])' = Local(u)'
        BY <3>6 DEF WritesBack, Local, ViewOf, DraftOf
      <3>q. QED BY <3>5, <3>6, <3>7 DEF Faithful
    <2>q. QED BY <2>1, <2>2
  <1>q. QED BY <1>8, <1>9 DEF Ordered

\* A request that starts, is refused, or is lost.
LEMMA BegunOrdered ==
  ASSUME Ordered, Inductive', NEW q \in Requests, NEW f, NEW p, NEW read,
         NEW sweep \in SUBSET Objects, NEW held \in SUBSET Objects,
         tx' = [tx EXCEPT ![q] = Begun(f, p, read, sweep, held)],
         UNCHANGED <<records, objects, drafts, runs, events, acked, present>>
  PROVE  Ordered'
  <1> DEFINE t == Begun(f, p, read, sweep, held)
  <1>1. Faithful(t)
    BY BegunFaithful
  <1>2. tx' = [tx EXCEPT ![q] = t]
    OBVIOUS
  <1>3. tx \in [Requests -> Transaction] /\ tx' \in [Requests -> Transaction]
    BY DEF Ordered, Inductive, TypeOK
  <1> HIDE DEF t
  <1>4. t \in Transaction
    BY <1>2, <1>3
  <1>q. QED BY <1>1, <1>2, <1>4, TransactionOrdered

LEMMA BeginsOrdered ==
  ASSUME Ordered, Inductive', NEW q \in Requests,
         \/ \E r \in Runs, s \in Pages : \E p \in PageRequest(r, s) :
               Sendable(p) /\ BeginPage(q, p)
         \/ \E s \in Pages : BeginBatch(q, s)
         \/ \E i \in Pushed : BeginEvent(q, i)
  PROVE  Ordered'
  <1>1. ASSUME NEW p, BeginPage(q, p)
        PROVE  Ordered'
    <2> DEFINE sweep == IF Sweeps(p) THEN Active \ Seen(p) ELSE {}
               held == IF Sweeps(p) THEN Active ELSE {}
    <2>1. sweep \in SUBSET Objects /\ held \in SUBSET Objects
      BY DEF Active
    <2>2. /\ tx' = [tx EXCEPT ![q] = Begun("open", p, runs[p.run], sweep, held)]
          /\ UNCHANGED <<records, objects, drafts, runs, events, acked, present>>
      BY <1>1 DEF BeginPage
    <2> HIDE DEF sweep, held
    <2>q. QED BY <2>1, <2>2, BegunOrdered
  <1>2. ASSUME NEW items, NEW w,
               tx' = [tx EXCEPT ![q] = Begun("open", Batch(items, w), NoRun, {}, {})],
               UNCHANGED <<records, objects, drafts, runs, events, acked, present>>
        PROVE  Ordered'
    <2> DEFINE p == Batch(items, w)
    <2>1. tx' = [tx EXCEPT ![q] = Begun("open", p, NoRun, {}, {})]
      BY <1>2
    <2> HIDE DEF p
    <2>2. PICK none \in SUBSET Objects : none = {}
      OBVIOUS
    <2>3. tx' = [tx EXCEPT ![q] = Begun("open", p, NoRun, none, none)]
      BY <2>1, <2>2
    <2>4. UNCHANGED <<records, objects, drafts, runs, events, acked, present>>
      BY <1>2
    <2>q. QED BY <2>3, <2>4, BegunOrdered
  <1>3. ASSUME NEW s, BeginBatch(q, s)
        PROVE  Ordered'
    BY <1>2, <1>3 DEF BeginBatch
  <1>4. ASSUME NEW i, BeginEvent(q, i)
        PROVE  Ordered'
    BY <1>2, <1>4 DEF BeginEvent
  <1>q. QED BY <1>1, <1>3, <1>4

LEMMA EndsOrdered ==
  ASSUME Ordered, Inductive', NEW q \in Requests,
         CommitRefused(q) \/ Remember(q) \/ Crash(q)
  PROVE  Ordered'
  <1>1. /\ tx' = [tx EXCEPT ![q] = Closed]
        /\ UNCHANGED <<records, objects, drafts, runs, acked, present>>
    BY DEF CommitRefused, Remember, Crash
  <1>2. tx \in [Requests -> Transaction] /\ tx' \in [Requests -> Transaction]
    BY DEF Ordered, Inductive, TypeOK
  <1>3. Closed \in Transaction
    BY <1>1, <1>2
  <1>q. QED BY <1>1, <1>3, ClosedFaithful, TransactionOrdered

LEMMA InitOrdered ==
  ASSUME Init
  PROVE  Ordered
  <1>1. Inductive
    BY InitHolds
  <1>2. records = {} /\ objects = [o \in Objects |-> NoObject]
        /\ drafts = [o \in Objects |-> None] /\ tx = [q \in Requests |-> Closed]
    BY DEF Init
  <1>3. NoObject.current = None /\ NoObject.retired = FALSE /\ NoObject.sequence = 0
    BY DEF NoObject
  <1>4. \A o \in Objects : Shows(o, NoObject, None, {}) /\ Newest(o, NoObject, {})
    BY <1>3 DEF Shows, Newest, Sourced, Leads
  <1>5. Closed.phase = "idle"
    BY DEF Closed, Begun
  <1>6. \A q \in Requests : Faithful(tx[q])
    BY <1>2, <1>5 DEF Faithful
  <1>q. QED BY <1>1, <1>2, <1>4, <1>6 DEF Ordered

LEMMA NextOrdered ==
  ASSUME OwnObjects, Ordered, [Next]_vars
  PROVE  Ordered'
  <1>1. Inductive'
    BY NextHolds DEF Ordered
  <1>2. CASE UNCHANGED vars
    <2>1. ASSUME NEW q \in Requests PROVE Faithful(tx[q])'
      <3>1. Faithful(tx[q])
        BY DEF Ordered
      <3>q. QED BY <1>2, <3>1 DEF vars, Faithful, WritesBack, Local, ViewOf, DraftOf
    <2>q. QED BY <1>1, <1>2, <2>1 DEF vars, Ordered
  <1>3. CASE Next
    <2>1. PICK q \in Requests :
            \/ \E r \in Runs, s \in Pages : \E p \in PageRequest(r, s) :
                  Sendable(p) /\ BeginPage(q, p)
            \/ \E s \in Pages : BeginBatch(q, s)
            \/ \E i \in Pushed : BeginEvent(q, i)
            \/ IngestItem(q) \/ SweepObject(q) \/ Commit(q)
            \/ CommitRefused(q) \/ Remember(q) \/ Crash(q)
      BY <1>3 DEF Next
    <2>q. QED
      BY <1>1, <2>1, BeginsOrdered, IngestItemOrdered, SweepObjectOrdered,
         CommitOrdered, EndsOrdered
  <1>q. QED BY <1>2, <1>3

LEMMA AlwaysOrdered == Spec /\ []OwnObjects => []Ordered
  <1>1. Init => Ordered
    BY InitOrdered
  <1>2. OwnObjects /\ Ordered /\ [Next]_vars => Ordered'
    BY NextOrdered
  <1>q. QED BY <1>1, <1>2, PTL DEF Spec

\* As long as requests that are open at once have read different objects, the
\* contribution an object shows is a valid record of it, a retired object shows
\* none, and its entity was redrafted with what it shows, whatever is invalid,
\* partial, repeated, deleted, interrupted or swept (the loop of ingest).
THEOREM ContributionsAreConsistent ==
  Spec /\ []OwnObjects => []ContributionConsistent
  <1>1. Ordered => ContributionConsistent
    BY DEF Ordered, Shows, ContributionConsistent
  <1>q. QED BY <1>1, AlwaysOrdered, PTL

\* When, besides, the source numbers every observation and no two versions of
\* an object alike, the highest number wins, whatever order the observations
\* arrive in (_observation_is_current).
THEOREM TheNewestWins ==
  ASSUME Numbered
  PROVE  Spec /\ []OwnObjects => []NewestWins
  <1>1. Ordered => NewestWins
    <2>1. SUFFICES ASSUME Ordered, NEW x \in records,
                          x.item.sequence # 0, x.state # "quarantine",
                          ~\E y \in records : /\ y.item.object = x.item.object
                                              /\ y.item.version \in Runs
                   PROVE  LET row == objects[x.item.object]
                          IN  /\ x.item.sequence <= row.sequence
                              /\ x.item.sequence = row.sequence =>
                                    row.current = IF x.item.deleted THEN None
                                                  ELSE x.item.version
      BY DEF NewestWins
    <2>2. PICK o \in Objects : o = x.item.object
      BY <2>1 DEF Ordered, Inductive, TypeOK, Record, Item
    <2>3. Leads(o, objects[o], records)
      BY <2>1 DEF Ordered, Newest
    <2>4. ~Swept(o, records) /\ Counts(x, o)
      BY <2>1, <2>2 DEF Swept, Counts
    <2>q. QED BY <2>1, <2>2, <2>3, <2>4 DEF Leads
  <1>q. QED BY <1>1, AlwaysOrdered, PTL

-----------------------------------------------------------------------------
(* What a sweep retires, when no two open requests work on one run.        *)

\* No two open requests bring pages of the same run.
OwnRuns ==
    \A p, q \in Requests :
        /\ tx[p].phase = "open" /\ tx[q].phase = "open"
        /\ tx[p].page.run = tx[q].page.run /\ tx[p].page.run \in Runs
        => p = q

\* An open request sweeps nothing that its run has seen.
SweepsUnseen(t) ==
    t.phase = "open" =>
        /\ \A o \in t.sweep : o \notin runs[t.page.run].seen
        /\ \A x \in t.fresh :
              x.item.version \in Runs => x.item.object \notin runs[t.page.run].seen

Sparing == Inductive /\ \A q \in Requests : SweepsUnseen(tx[q])

LEMMA SparingStays ==
  ASSUME Sparing, Inductive', NEW q \in Requests, NEW t,
         tx' = [tx EXCEPT ![q] = t], SweepsUnseen(t), runs' = runs
  PROVE  Sparing'
  <1>1. \A p \in Requests : tx'[p] = IF p = q THEN t ELSE tx[p]
    BY DEF Sparing, Inductive, TypeOK
  <1>2. \A p \in Requests : SweepsUnseen(tx[p])'
    BY <1>1 DEF Sparing, SweepsUnseen
  <1>q. QED BY <1>2 DEF Sparing

\* The sweep is read when the request starts: the active objects its run has
\* not seen, on earlier pages or on this one.
LEMMA BeginsSparing ==
  ASSUME Sparing, Inductive', NEW q \in Requests,
         \/ \E p : BeginPage(q, p)
         \/ \E s : BeginBatch(q, s)
         \/ \E i : BeginEvent(q, i)
  PROVE  Sparing'
  <1>1. ASSUME NEW f, NEW p, NEW read, NEW sweep, NEW held,
               \A o \in sweep : o \notin runs[p.run].seen,
               tx' = [tx EXCEPT ![q] = Begun(f, p, read, sweep, held)], runs' = runs
        PROVE  Sparing'
    <2> DEFINE t == Begun(f, p, read, sweep, held)
    <2>1. t.page = p /\ t.sweep = sweep /\ t.fresh = {}
      BY DEF Begun
    <2>2. tx' = [tx EXCEPT ![q] = t]
      BY <1>1
    <2> HIDE DEF t
    <2>3. SweepsUnseen(t)
      BY <1>1, <2>1 DEF SweepsUnseen
    <2>q. QED BY <1>1, <2>2, <2>3, SparingStays
  <1>2. ASSUME NEW p, BeginPage(q, p)
        PROVE  Sparing'
    <2> DEFINE sweep == IF Sweeps(p) THEN Active \ Seen(p) ELSE {}
               held == IF Sweeps(p) THEN Active ELSE {}
    <2>1. \A o \in sweep : o \notin runs[p.run].seen
      BY DEF Seen
    <2>2. /\ tx' = [tx EXCEPT ![q] = Begun("open", p, runs[p.run], sweep, held)]
          /\ runs' = runs
      BY <1>2 DEF BeginPage
    <2> HIDE DEF sweep, held
    <2>q. QED BY <1>1, <2>1, <2>2
  <1>3. ASSUME NEW p, tx' = [tx EXCEPT ![q] = Begun("open", p, NoRun, {}, {})], runs' = runs
        PROVE  Sparing'
    <2>1. PICK none \in SUBSET Objects : none = {}
      OBVIOUS
    <2>2. \A o \in none : o \notin runs[p.run].seen
      BY <2>1
    <2>3. /\ tx' = [tx EXCEPT ![q] = Begun("open", p, NoRun, none, none)]
          /\ runs' = runs
      BY <1>3, <2>1
    <2>q. QED BY <1>1, <2>2, <2>3
  <1>4. (\E s : BeginBatch(q, s)) \/ (\E i : BeginEvent(q, i)) => Sparing'
    BY <1>3 DEF BeginBatch, BeginEvent
  <1>q. QED BY <1>2, <1>4

LEMMA ClosedSparing ==
  SweepsUnseen(Closed)
  <1>1. Closed.phase = "idle"
    BY DEF Closed, Begun
  <1>q. QED BY <1>1 DEF SweepsUnseen

\* An observation is not of the sweep, or it is of an object in it.
LEMMA StepSparing ==
  ASSUME Sparing, Inductive', NEW q \in Requests, tx[q].phase = "open",
         NEW i, NEW rest, NEW sweep \in SUBSET tx[q].sweep,
         i.version \in Runs => i.object \in tx[q].sweep,
         Step(q, i, rest, sweep)
  PROVE  Sparing'
  <1>1. SweepsUnseen(tx[q])
    BY DEF Sparing
  <1>2. SweepsUnseen(After(q, i, rest, sweep))
    <2> DEFINE row == RowOf(q, i.object)
               done == Processed(tx[q], i, row, rest, sweep)
               same == Skipped(tx[q], i, row, rest, sweep)
    <2>1. /\ done.page = tx[q].page /\ done.sweep = sweep
          /\ done.fresh = tx[q].fresh \cup {[item |-> i, state |-> State(row, i)]}
          /\ same.page = tx[q].page /\ same.sweep = sweep
          /\ same.fresh = tx[q].fresh
      BY DEF Processed, Skipped
    <2>2. After(q, i, rest, sweep) \in {done, same, Closed}
      BY DEF After, Conflicting
    <2> HIDE DEF done, same
    <2>3. SweepsUnseen(done) /\ SweepsUnseen(same)
      BY <1>1, <2>1 DEF SweepsUnseen
    <2>q. QED BY <2>2, <2>3, ClosedSparing
  <1> DEFINE t == After(q, i, rest, sweep)
  <1>3. tx' = [tx EXCEPT ![q] = t] /\ runs' = runs /\ SweepsUnseen(t)
    BY <1>2 DEF Step
  <1> HIDE DEF t
  <1>q. QED BY <1>3, SparingStays

LEMMA StepsSparing ==
  ASSUME Sparing, Inductive', NEW q \in Requests, IngestItem(q) \/ SweepObject(q)
  PROVE  Sparing'
  <1>1. CASE IngestItem(q)
    <2> DEFINE i == Head(tx[q].rest)
    <2>1. tx[q].rest \in Seq(Feed) /\ tx[q].rest # <<>>
      BY <1>1 DEF Sparing, Inductive, TypeOK, Transaction, IngestItem
    <2>2. i \in Feed
      BY <2>1, ElementsStep
    <2>3. i.version \notin Runs
      BY <2>2, IngestionAssumption
    <2>4. /\ tx[q].phase = "open" /\ tx[q].sweep \in SUBSET tx[q].sweep
          /\ Step(q, i, Tail(tx[q].rest), tx[q].sweep)
      BY <1>1 DEF IngestItem
    <2> HIDE DEF i
    <2>q. QED BY <2>3, <2>4, StepSparing
  <1>2. CASE SweepObject(q)
    <2>1. PICK o \in tx[q].sweep :
             Step(q, SnapshotDelete(o, tx[q].page.run), <<>>, tx[q].sweep \ {o})
      BY <1>2 DEF SweepObject
    <2> DEFINE i == SnapshotDelete(o, tx[q].page.run)
    <2>2. i.object = o
      BY DEF SnapshotDelete
    <2>3. /\ tx[q].phase = "open" /\ tx[q].sweep \ {o} \in SUBSET tx[q].sweep
          /\ Step(q, i, <<>>, tx[q].sweep \ {o})
      BY <1>2, <2>1 DEF SweepObject
    <2> HIDE DEF i
    <2>q. QED BY <2>2, <2>3, StepSparing
  <1>q. QED BY <1>1, <1>2

\* A page that is committed changes what its own run has seen.
LEMMA CommitSparing ==
  ASSUME OwnRuns, Sparing, Inductive', NEW q \in Requests, Commit(q)
  PROVE  Sparing'
  <1>1. /\ tx \in [Requests -> Transaction]
        /\ \A r \in Runs : r # tx[q].page.run => runs'[r] = runs[r]
        /\ tx[q].phase = "open"
    BY DEF Sparing, Inductive, TypeOK, Commit
  <1>2. tx'[q].phase # "open"
    <2>1. Begun("remember", tx[q].page, NoRun, {}, {}).phase = "remember"
          /\ Closed.phase = "idle"
      BY DEF Begun, Closed
    <2>2. tx'[q] = IF tx[q].page.webhook THEN Begun("remember", tx[q].page, NoRun, {}, {})
                   ELSE Closed
      BY <1>1 DEF Commit
    <2>q. QED BY <2>1, <2>2
  <1>3. ASSUME NEW p \in Requests
        PROVE  SweepsUnseen(tx[p])'
    <2>1. CASE p = q
      BY <1>2, <2>1 DEF SweepsUnseen
    <2>2. CASE p # q /\ tx[p].phase = "open"
      <3>1. tx'[p] = tx[p]
        BY <1>1, <2>2 DEF Commit
      <3>2. SweepsUnseen(tx[p]) /\ Evidence(tx[p])
        BY <2>2 DEF Sparing, Inductive
      <3>3. tx[p].page.run \in Runs => runs'[tx[p].page.run] = runs[tx[p].page.run]
        BY <1>1, <2>2 DEF OwnRuns
      <3>q. QED BY <2>2, <3>1, <3>2, <3>3 DEF SweepsUnseen, Evidence
    <2>3. CASE p # q /\ tx[p].phase # "open"
      <3>1. tx'[p] = tx[p]
        BY <1>1, <2>3 DEF Commit
      <3>q. QED BY <2>3, <3>1 DEF SweepsUnseen
    <2>q. QED BY <2>1, <2>2, <2>3
  <1>q. QED BY <1>3 DEF Sparing

LEMMA SparingStep ==
  ASSUME OwnRuns, Sparing, [Next]_vars
  PROVE  Sparing'
  <1>1. Inductive'
    BY NextHolds DEF Sparing
  <1>2. CASE UNCHANGED vars
    BY <1>1, <1>2 DEF vars, Sparing, SweepsUnseen
  <1>3. CASE Next
    <2>1. PICK q \in Requests :
            \/ \E p : BeginPage(q, p)
            \/ \E s : BeginBatch(q, s)
            \/ \E i : BeginEvent(q, i)
            \/ IngestItem(q) \/ SweepObject(q) \/ Commit(q)
            \/ CommitRefused(q) \/ Remember(q) \/ Crash(q)
      BY <1>3 DEF Next
    <2>2. CASE CommitRefused(q) \/ Remember(q) \/ Crash(q)
      <3>1. tx' = [tx EXCEPT ![q] = Closed] /\ runs' = runs
        BY <2>2 DEF CommitRefused, Remember, Crash
      <3>q. QED BY <1>1, <3>1, ClosedSparing, SparingStays
    <2>q. QED BY <1>1, <2>1, <2>2, BeginsSparing, StepsSparing, CommitSparing
  <1>q. QED BY <1>2, <1>3

LEMMA AlwaysSparing == Spec /\ []OwnRuns => []Sparing
  <1>1. Init => Sparing
    <2>1. ASSUME Init, NEW q \in Requests PROVE SweepsUnseen(tx[q])
      BY <2>1, ClosedSparing DEF Init
    <2>q. QED BY <2>1, InitHolds DEF Sparing
  <1>2. OwnRuns /\ Sparing /\ [Next]_vars => Sparing'
    BY SparingStep
  <1>q. QED BY <1>1, <1>2, PTL DEF Spec

\* As long as no two open requests bring pages of the same run, the sweep that
\* ends a full run retires no object that any page of the run has brought,
\* whatever other requests do to the objects meanwhile (ingest reads what the
\* run has seen before it sweeps).
THEOREM SweepSpares == Spec /\ []OwnRuns => SweepSparesSeen
  <1>1. ASSUME Sparing, [Next]_vars, NEW o \in Objects, NEW r \in Runs,
               NEW x \in records' \ records, x.item = SnapshotDelete(o, r)
        PROVE  o \notin runs[r].seen
    <2>1. PICK q \in Requests : Commit(q)
      BY <1>1
         DEF Next, vars, BeginPage, BeginBatch, BeginEvent, IngestItem, SweepObject,
             Step, CommitRefused, Remember, Crash
    <2>2. x \in tx[q].fresh /\ tx[q].phase = "open"
      BY <1>1, <2>1 DEF Commit
    <2>3. Evidence(tx[q]) /\ SweepsUnseen(tx[q])
      BY <1>1, <2>2 DEF Sparing, Inductive
    <2>4. x.item.object = o /\ x.item.version = r
      BY <1>1 DEF SnapshotDelete
    <2>5. r = tx[q].page.run
      BY <2>2, <2>3, <2>4 DEF Evidence
    <2>q. QED BY <1>1, <2>2, <2>3, <2>4, <2>5 DEF SweepsUnseen
  <1>2. Sparing /\ [Next]_vars =>
          [\A o \in Objects, r \in Runs :
             (\E x \in records' \ records : x.item = SnapshotDelete(o, r))
                => o \notin runs[r].seen]_vars
    BY <1>1
  <1>q. QED BY <1>2, AlwaysSparing, PTL DEF Spec, SweepSparesSeen

=============================================================================
