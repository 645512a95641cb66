----------------------------- MODULE Ingestion -----------------------------
(***************************************************************************)
(* Ingestion (MasteringService.ingest): requests that bring pages of       *)
(* observations of one source and domain, alone or as pages of an          *)
(* extraction run, the sweep that ends a full run, and the inbound webhook *)
(* that brings one observation and then remembers the event.               *)
(*                                                                         *)
(* A request is one READ COMMITTED transaction.  It reads a source object  *)
(* once, when it first needs it, and its commit writes the columns it has  *)
(* changed over whatever the row has become; nothing locks the row.        *)
(***************************************************************************)
EXTENDS Naturals, Sequences

CONSTANTS
    Objects,     \* local ids of the source in the domain
    Versions,    \* source versions of observations
    Feed,        \* the observations the source may send
    Pushed,      \* those it sends to the webhook
    Pages,       \* the lists of observations a request may carry
    Runs,        \* ids of extraction runs
    Requests,    \* requests that are served at the same time
    MaxCursor,   \* largest page cursor
    None

NoCursor == 0                        \* no cursor, or an empty one
FirstCursor == 1                     \* the cursor "0"
Cursors == 0 .. MaxCursor
Modes == {"full", "delta"}

\* IncomingRecord; a sequence or an effective_from of 0 stands for none.
\* invalid: its values fail the policy; partial: they are not complete.
Item == [object : Objects, version : Versions \cup Runs, sequence : Nat,
         effective : Nat, partial : BOOLEAN, invalid : BOOLEAN,
         deleted : BOOLEAN]

ASSUME IngestionAssumption ==
    /\ Feed \subseteq Item
    /\ Pushed \subseteq Feed
    /\ Pages \subseteq Seq(Feed)
    /\ \A i \in Feed : i.version \in Versions
    /\ Versions \cap Runs = {}
    /\ None \notin Versions \cup Runs
    /\ MaxCursor \in Nat \ {0}

VARIABLES
    records,     \* SourceRecord rows with their observation metadata
    objects,     \* SourceObject rows
    drafts,      \* the version each object's entity was last redrafted with
    runs,        \* IngestionRun rows
    events,      \* IdempotencyRecord rows of the webhook: events remembered
    tx,          \* the open transaction of each request
    acked,       \* history: observations of acknowledged requests
    present      \* history: the active objects when each run started

vars == <<records, objects, drafts, runs, events, tx, acked, present>>

\* --- rows -----------------------------------------------------------------

States == {"valid", "quarantine", "superseded", "deleted"}
VersionOrNone == Versions \cup Runs \cup {None}
Columns == {"exists", "current", "latest", "sequence", "effective", "retired",
            "member"}

NoObject == [exists |-> FALSE, current |-> None, latest |-> None,
             sequence |-> 0, effective |-> 0, retired |-> FALSE,
             member |-> FALSE]

NoRun == [mode |-> "absent", status |-> "running", pages |-> {},
          next |-> NoCursor, seen |-> {}, complete |-> FALSE,
          handoff |-> None]

\* The arguments of a request outside any run.
Batch(items, webhook) ==
    [run |-> None, mode |-> "delta", cursor |-> NoCursor, next |-> NoCursor,
     complete |-> FALSE, handoff |-> None, items |-> items, webhook |-> webhook]

\* A transaction at its start.  page: the request; read: its run as it was
\* read; rest: items to process; sweep: objects to retire after them; held,
\* rows, dirty: the objects read, their state in the transaction and the
\* columns it has changed; fresh, draft: rows it adds.
Begun(phase, p, read, sweep, held) ==
    [phase |-> phase, page |-> p, read |-> read, rest |-> p.items,
     sweep |-> sweep, held |-> held,
     rows |-> [o \in Objects |-> IF o \in held THEN objects[o] ELSE NoObject],
     dirty |-> [o \in Objects |-> {}],
     fresh |-> {},
     draft |-> [o \in Objects |-> <<>>]]

Closed == Begun("idle", Batch(<<>>, FALSE), NoRun, {}, {})

Init ==
    /\ records = {}
    /\ objects = [o \in Objects |-> NoObject]
    /\ drafts = [o \in Objects |-> None]
    /\ runs = [r \in Runs |-> NoRun]
    /\ events = {}
    /\ tx = [q \in Requests |-> Closed]
    /\ acked = {}
    /\ present = [r \in Runs |-> {}]

Elements(s) == {s[k] : k \in DOMAIN s}
Active == {o \in Objects : objects[o].exists /\ ~objects[o].retired}

\* --- the start of a request -----------------------------------------------

\* The page may be processed: it starts a run, or it is the page the run's
\* checkpoint names.  A page that was processed returns the checkpoint.
PageExpected(p) ==
    LET run == runs[p.run]
    IN  IF run.mode = "absent" THEN p.cursor \in {NoCursor, FirstCursor}
        ELSE /\ run.mode = p.mode
             /\ p.cursor \notin run.pages
             /\ run.pages # {} => p.cursor = run.next

\* A delta may continue a full run that is complete, with evidence.
HandoffReady(p) ==
    /\ p.mode = "full" => p.handoff = None
    /\ p.handoff # None => /\ runs[p.handoff].mode = "full"
                           /\ runs[p.handoff].status = "complete"
                           /\ runs[p.handoff].complete

Named(p) == {i.object : i \in {j \in Elements(p.items) : ~j.deleted}}

SeenOnPage(p) == Named(p)
Seen(p) == runs[p.run].seen \cup Named(p)

\* The request ends its run and retires what the run has not seen.
EveryFullPage(p) == p.mode = "full"
Sweeps(p) == p.complete

\* ingest up to its loop.  The objects a completing full run has not seen are
\* read here and retired after the page's own items.
BeginPage(q, p) ==
    /\ tx[q].phase = "idle"
    /\ PageExpected(p)
    /\ HandoffReady(p)
    /\ p.complete => p.mode = "full"
    /\ tx' = [tx EXCEPT ![q] =
                IF Sweeps(p) THEN Begun("open", p, runs[p.run], Active \ Seen(p), Active)
                ELSE Begun("open", p, runs[p.run], {}, {})]
    /\ UNCHANGED <<records, objects, drafts, runs, events, acked, present>>

BeginBatch(q, items) ==
    /\ tx[q].phase = "idle"
    /\ tx' = [tx EXCEPT ![q] = Begun("open", Batch(items, FALSE), NoRun, {}, {})]
    /\ UNCHANGED <<records, objects, drafts, runs, events, acked, present>>

\* inbound_webhook: an event that is not remembered is ingested by itself.
BeginEvent(q, i) ==
    /\ tx[q].phase = "idle"
    /\ i \notin events
    /\ tx' = [tx EXCEPT ![q] = Begun("open", Batch(<<i>>, TRUE), NoRun, {}, {})]
    /\ UNCHANGED <<records, objects, drafts, runs, events, acked, present>>

\* --- one observation ------------------------------------------------------

\* _observation_is_current; 0 is no sequence and no effective_from.
ArrivalOrder(row, i) == TRUE
ObservationIsCurrent(row, i) ==
    IF i.sequence # 0
    THEN row.sequence # 0 => i.sequence > row.sequence
    ELSE i.effective # 0 /\ row.effective # 0 => i.effective > row.effective

\* A partial update starts from the current record; without one it lacks what
\* the policy requires.  A tombstone is not validated.
Quarantined(row, i) == ~i.deleted /\ (i.invalid \/ (i.partial /\ row.current = None))

State(row, i) ==
    IF i.deleted THEN "deleted"
    ELSE IF Quarantined(row, i) THEN "quarantine"
    ELSE IF ObservationIsCurrent(row, i) THEN "valid" ELSE "superseded"

\* The observation becomes the object's contribution, or retires it.
Unvalidated(row, i) == ObservationIsCurrent(row, i)
Applies(row, i) == ~Quarantined(row, i) /\ ObservationIsCurrent(row, i)

LatestOnly(row, i) ==
    [exists |-> TRUE, latest |-> i.version, current |-> row.current,
     sequence |-> row.sequence, effective |-> row.effective,
     retired |-> row.retired, member |-> row.member]
Observed(row, i) ==
    IF Applies(row, i)
    THEN [exists |-> TRUE, latest |-> i.version,
          current |-> IF i.deleted THEN None ELSE i.version,
          sequence |-> i.sequence, effective |-> i.effective,
          retired |-> i.deleted, member |-> row.member \/ ~i.deleted]
    ELSE LatestOnly(row, i)

\* What the transaction sees of an object: its own copy once it has one.
RowOf(q, o) == IF o \in tx[q].held THEN tx[q].rows[o] ELSE objects[o]

\* Rows with the key (local_id, version) that the transaction sees.
SameVersion(q, i) ==
    {x \in records \cup tx[q].fresh :
        x.item.object = i.object /\ x.item.version = i.version}

\* The transaction t after item i of an object it sees as row: the part of the
\* loop's body behind the duplicate check.
Processed(t, i, row, rest, sweep) ==
    LET new == Observed(row, i)
    IN  [phase |-> "open", page |-> t.page, read |-> t.read, rest |-> rest,
         sweep |-> sweep, held |-> t.held \cup {i.object},
         rows |-> [t.rows EXCEPT ![i.object] = new],
         dirty |-> [t.dirty EXCEPT ![i.object] =
                      @ \cup {c \in Columns : new[c] # row[c]}],
         fresh |-> t.fresh \cup {[item |-> i, state |-> State(row, i)]},
         draft |-> IF Applies(row, i) /\ new.member
                   THEN [t.draft EXCEPT ![i.object] = <<new.current>>]
                   ELSE t.draft]

\* An observation that was received before, with the same content.
Skipped(t, i, row, rest, sweep) ==
    [phase |-> "open", page |-> t.page, read |-> t.read, rest |-> rest,
     sweep |-> sweep, held |-> t.held \cup {i.object},
     rows |-> [t.rows EXCEPT ![i.object] = row], dirty |-> t.dirty,
     fresh |-> t.fresh, draft |-> t.draft]

\* The key exists with other content: 409, and the request is rolled back.
FirstWins(t, i, row, rest, sweep) == Skipped(t, i, row, rest, sweep)
Conflicting(t, i, row, rest, sweep) == Closed

After(q, i, rest, sweep) ==
    LET t == tx[q]
        row == RowOf(q, i.object)
    IN  IF SameVersion(q, i) = {} THEN Processed(t, i, row, rest, sweep)
        ELSE IF \E x \in SameVersion(q, i) : x.item = i
        THEN Skipped(t, i, row, rest, sweep)
        ELSE Conflicting(t, i, row, rest, sweep)

Step(q, i, rest, sweep) ==
    /\ tx' = [tx EXCEPT ![q] = After(q, i, rest, sweep)]
    /\ UNCHANGED <<records, objects, drafts, runs, events, acked, present>>

IngestItem(q) ==
    /\ tx[q].phase = "open"
    /\ tx[q].rest # <<>>
    /\ Step(q, Head(tx[q].rest), Tail(tx[q].rest), tx[q].sweep)

\* The synthetic tombstone of a completing run.
SnapshotDelete(o, r) ==
    [object |-> o, version |-> r, sequence |-> 0, effective |-> 0,
     partial |-> TRUE, invalid |-> FALSE, deleted |-> TRUE]

SweepObject(q) ==
    /\ tx[q].phase = "open"
    /\ tx[q].rest = <<>>
    /\ \E o \in tx[q].sweep :
          Step(q, SnapshotDelete(o, tx[q].page.run), <<>>, tx[q].sweep \ {o})

\* --- the end of a request -------------------------------------------------

\* UNIQUE: (local_id, source_version) of a record, (local_id) of an object and
\* (external_id) of a run.
KeyTaken(q) ==
    \/ \E x \in tx[q].fresh, y \in records :
          x.item.object = y.item.object /\ x.item.version = y.item.version
    \/ \E o \in tx[q].held : objects[o].exists /\ "exists" \in tx[q].dirty[o]
    \/ /\ tx[q].page.run # None
       /\ tx[q].read.mode = "absent"
       /\ runs[tx[q].page.run].mode # "absent"

\* The UPDATE of an object writes the columns the transaction has changed.
Written(old, new, dirty) ==
    [exists |-> "exists" \in dirty \/ old.exists,
     current |-> IF "current" \in dirty THEN new.current ELSE old.current,
     latest |-> IF "latest" \in dirty THEN new.latest ELSE old.latest,
     sequence |-> IF "sequence" \in dirty THEN new.sequence ELSE old.sequence,
     effective |-> IF "effective" \in dirty THEN new.effective ELSE old.effective,
     retired |-> IF "retired" \in dirty THEN new.retired ELSE old.retired,
     member |-> IF "member" \in dirty THEN new.member ELSE old.member]

\* The run after page p, from the run as the request had read it.
Advanced(run, read, p) ==
    [mode |-> p.mode,
     status |-> IF p.complete \/ (p.mode = "delta" /\ p.next = NoCursor)
                THEN "complete" ELSE run.status,
     pages |-> read.pages \cup {p.cursor},
     next |-> p.next,
     seen |-> read.seen \cup Named(p),
     complete |-> IF p.complete # read.complete THEN p.complete ELSE run.complete,
     handoff |-> IF read.mode = "absent" THEN p.handoff ELSE run.handoff]

Commit(q) ==
    LET t == tx[q]
        p == t.page
    IN  /\ t.phase = "open"
        /\ t.rest = <<>>
        /\ t.sweep = {}
        /\ ~KeyTaken(q)
        /\ records' = records \cup t.fresh
        /\ objects' = [o \in Objects |-> Written(objects[o], t.rows[o], t.dirty[o])]
        /\ drafts' = [o \in Objects |->
                        IF t.draft[o] = <<>> THEN drafts[o] ELSE Head(t.draft[o])]
        /\ runs' = [r \in Runs |-> IF r = p.run THEN Advanced(runs[r], t.read, p)
                                   ELSE runs[r]]
        /\ present' = [r \in Runs |-> IF r = p.run /\ t.read.mode = "absent"
                                      THEN Active ELSE present[r]]
        /\ acked' = acked \cup Elements(p.items)
        /\ tx' = [tx EXCEPT ![q] =
                    IF p.webhook THEN Begun("remember", p, NoRun, {}, {}) ELSE Closed]
        /\ UNCHANGED events

\* A constraint refuses the commit: the request is rolled back.
CommitRefused(q) ==
    /\ tx[q].phase = "open"
    /\ KeyTaken(q)
    /\ tx' = [tx EXCEPT ![q] = Closed]
    /\ UNCHANGED <<records, objects, drafts, runs, events, acked, present>>

\* The webhook stores its answer in a second transaction.
RememberFirst(q) ==
    /\ tx[q].phase = "open" /\ tx[q].page.webhook
    /\ events' = events \cup Elements(tx[q].page.items)
    /\ UNCHANGED <<records, objects, drafts, runs, tx, acked, present>>
Remember(q) ==
    /\ tx[q].phase = "remember"
    /\ events' = events \cup Elements(tx[q].page.items)
    /\ tx' = [tx EXCEPT ![q] = Closed]
    /\ UNCHANGED <<records, objects, drafts, runs, acked, present>>

\* The process dies, or the request fails: what is not committed is lost.
Crash(q) ==
    /\ tx[q].phase # "idle"
    /\ tx' = [tx EXCEPT ![q] = Closed]
    /\ UNCHANGED <<records, objects, drafts, runs, events, acked, present>>

\* --- specification --------------------------------------------------------

\* A client names a cursor after the page's own as the next one, or none.
PageRequest(r, s) ==
    [run : {r}, mode : Modes, cursor : Cursors, next : Cursors,
     complete : BOOLEAN, handoff : Runs \cup {None}, items : {s},
     webhook : {FALSE}]
Sendable(p) == p.next = NoCursor \/ p.next > p.cursor

Next ==
    \E q \in Requests :
        \/ \E r \in Runs, s \in Pages : \E p \in PageRequest(r, s) :
              Sendable(p) /\ BeginPage(q, p)
        \/ \E s \in Pages : BeginBatch(q, s)
        \/ \E i \in Pushed : BeginEvent(q, i)
        \/ IngestItem(q)
        \/ SweepObject(q)
        \/ Commit(q)
        \/ CommitRefused(q)
        \/ Remember(q)
        \/ Crash(q)

Spec == Init /\ [][Next]_vars

-----------------------------------------------------------------------------
(* Properties.                                                             *)

Record == [item : Item, state : States]
Row == [exists : BOOLEAN, current : VersionOrNone, latest : VersionOrNone,
        sequence : Nat, effective : Nat, retired : BOOLEAN, member : BOOLEAN]
Run == [mode : Modes \cup {"absent"}, status : {"running", "complete"},
        pages : SUBSET Cursors, next : Cursors, seen : SUBSET Objects,
        complete : BOOLEAN, handoff : Runs \cup {None}]
Page == [run : Runs \cup {None}, mode : Modes, cursor : Cursors, next : Cursors,
         complete : BOOLEAN, handoff : Runs \cup {None}, items : Seq(Feed),
         webhook : BOOLEAN]
Transaction ==
    [phase : {"idle", "open", "remember"}, page : Page, read : Run,
     rest : Seq(Feed), sweep : SUBSET Objects, held : SUBSET Objects,
     rows : [Objects -> Row], dirty : [Objects -> SUBSET Columns],
     fresh : SUBSET Record, draft : [Objects -> Seq(VersionOrNone)]]

\* Every variable keeps its type.
TypeOK ==
    /\ records \subseteq Record
    /\ objects \in [Objects -> Row]
    /\ drafts \in [Objects -> VersionOrNone]
    /\ runs \in [Runs -> Run]
    /\ events \subseteq Pushed
    /\ tx \in [Requests -> Transaction]
    /\ acked \subseteq Feed
    /\ present \in [Runs -> SUBSET Objects]

\* A source version names one observation of its object, whichever requests
\* bring it and in whatever order they commit: the check for a duplicate runs
\* before other transactions commit, the constraint behind it after.
OneRecordPerVersion ==
    \A x, y \in records :
        x.item.object = y.item.object /\ x.item.version = y.item.version => x = y

\* An observation of a request that was acknowledged is stored: neither an
\* interrupted run, a page sent again nor a concurrent request loses one.
AcknowledgedStored == acked \subseteq {x.item : x \in records}

\* An event the webhook remembers, and will not ingest again, is stored.
RememberedStored == events \subseteq {x.item : x \in records}

\* Only a full run that is complete retires objects it has not seen: no crash
\* or error between the pages or within the sweep leaves a tombstone behind.
IncompleteNeverRetires ==
    \A x \in records : x.item.version \in Runs =>
        /\ runs[x.item.version].mode = "full"
        /\ runs[x.item.version].status = "complete"

\* A run retires no object that any of its pages has brought.
SweepSparesSeen ==
    [][\A o \in Objects, r \in Runs :
         (\E x \in records' \ records : x.item = SnapshotDelete(o, r))
            => o \notin runs[r].seen]_vars

\* A delta run that continues a snapshot continues one that is complete.
HandoffFollowsSnapshot ==
    \A r \in Runs : runs[r].handoff # None =>
        /\ runs[r].mode = "delta"
        /\ runs[runs[r].handoff].mode = "full"
        /\ runs[runs[r].handoff].status = "complete"

\* The object's contribution is the observation with the highest sequence
\* number among those that passed validation, a tombstone included, whatever
\* the order they arrived in, were repeated in or were interrupted in.  (The
\* tombstone of a sweep has no number: whatever comes next wins over it.)
NewestWins ==
    \A x \in records :
        /\ x.item.sequence # 0
        /\ x.state # "quarantine"
        /\ ~\E y \in records : y.item.object = x.item.object /\ y.item.version \in Runs
        => LET row == objects[x.item.object]
           IN  /\ x.item.sequence <= row.sequence
               /\ x.item.sequence = row.sequence =>
                     row.current = IF x.item.deleted THEN None ELSE x.item.version

\* The contribution an object shows is a valid record of it, a retired object
\* shows none, and its entity was redrafted with what it shows.
ContributionConsistent ==
    \A o \in Objects :
        LET row == objects[o]
        IN  /\ row.current # None =>
                  \E x \in records : /\ x.item.object = o
                                     /\ x.item.version = row.current
                                     /\ x.state = "valid"
            /\ row.retired => row.current = None
            /\ row.member => drafts[o] = row.current

\* A snapshot retires only objects that were there when its run started: what
\* a delta brought meanwhile is no evidence of removal.  It fails: the page
\* that completes the run retires every active object it has not seen.
SnapshotSparesNewcomers ==
    [][\A o \in Objects, r \in Runs :
         (\E x \in records' \ records : x.item = SnapshotDelete(o, r))
            => o \in present'[r]]_vars

=============================================================================
