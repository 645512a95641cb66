----------------------------- MODULE Migration -----------------------------
(***************************************************************************)
(* The migration runner.  An invocation is one transaction: it takes the   *)
(* advisory lock, applies the revisions that the ledger lacks, in order,   *)
(* and records each.  Deployments start several of them, of the same or of *)
(* different releases, on an empty database, on one that an earlier        *)
(* release has migrated, or on an alpha database, which has no ledger.     *)
(***************************************************************************)
EXTENDS Naturals, Sequences, FiniteSets

CONSTANTS
    Migrators,   \* invocations
    Release,     \* the last revision each of them knows
    Editions,    \* sets of pairs of a migrator and a revision it has another
                 \* text of
    Databases,   \* what the migrators may find: [alpha, histories], where
                 \* histories has the states of the observations of each
                 \* source object, oldest first
    None

Revisions == 1 .. 10
States == {"valid", "quarantine", "deleted"}

ASSUME MigrationAssumption ==
    /\ Release \in [Migrators -> Revisions]
    /\ Editions \subseteq SUBSET (Migrators \X Revisions)
    /\ \A f \in Databases :
          /\ f.alpha \in BOOLEAN
          /\ \A k \in DOMAIN f.histories : f.histories[k] \in Seq(States) \ {<<>>}
          /\ ~f.alpha => DOMAIN f.histories = {}
    /\ None \notin Migrators

\* The revision that creates a table; each table stands for those that are
\* treated like it.
Since ==
    [workspaces |-> 1, sources |-> 1, source_objects |-> 2, browser_sessions |-> 3,
     delivery_attempts |-> 6, ingestion_runs |-> 7, identity_groups |-> 8,
     service_accounts |-> 10]
TablesOf(r) == {t \in DOMAIN Since : Since[t] = r}
TablesUpTo(r) == {t \in DOMAIN Since : Since[t] <= r}

\* Tables with a workspace_id that _create_workspace_rls does not except.
WorkspaceOwned == {"workspaces", "sources", "source_objects", "delivery_attempts",
                   "ingestion_runs", "service_accounts"}

VARIABLES
    db,     \* the committed database
    lock,   \* the migrator that holds the advisory lock
    tx,     \* each migrator's step, the database as its transaction has it,
            \* and how its last invocation ended
    edited  \* the revisions a migrator has another text of

vars == <<db, lock, tx, edited>>

\* ledger: the checksum of each revision, 0 if it is not recorded; admin: the
\* policy of workspaces admits administrators; config: sources has the column;
\* histories and objects: Observation and SourceObject rows by key.
Fresh(f) ==
    [tables |-> IF f.alpha THEN TablesOf(1) ELSE {},
     protected |-> {}, admin |-> FALSE, config |-> FALSE,
     histories |-> f.histories, objects |-> <<>>,
     ledger |-> [r \in Revisions |-> 0]]

Init ==
    /\ db \in {Fresh(f) : f \in Databases}
    /\ lock = None
    /\ tx = [m \in Migrators |-> [next |-> 0, db |-> db, ended |-> "never"]]
    /\ edited \in Editions

ByRelease(m, r) == IF r = Release[m] THEN 2 ELSE 1
Checksum(m, r) == IF <<m, r>> \in edited THEN 2 ELSE 1

\* --- revisions ------------------------------------------------------------

\* The object of a legacy history: its last valid observation is current.
\* Objects that exist already are kept.
Valid(h) == {k \in DOMAIN h : h[k] = "valid"}
Backfilled(h) ==
    [latest |-> Len(h),
     current |-> IF Valid(h) = {} THEN 0 ELSE CHOOSE k \in Valid(h) : \A j \in Valid(h) : j <= k,
     retired |-> Valid(h) = {} /\ h[Len(h)] = "deleted"]

OnlyUsable(d) ==
    [k \in {j \in DOMAIN d.histories : Valid(d.histories[j]) # {}} |->
        Backfilled(d.histories[k])]
StableIdentity(d) ==
    [k \in DOMAIN d.histories |->
        IF k \in DOMAIN d.objects THEN d.objects[k] ELSE Backfilled(d.histories[k])]

\* _create_workspace_rls protects every table that exists, but those it
\* excepts; two revisions protect the tables they create themselves.
EveryTable(tables) == tables
WorkspaceRls(tables) == tables \cap WorkspaceOwned
Unprotected(r) == {}
OwnTables(r) == IF r \in {6, 7} THEN TablesOf(r) ELSE {}
RefreshesAll(r) == r \in {4, 10}

\* Revision r applied to d.  The tables of the first are there already; a
\* policy of workspaces that is created anew does not admit administrators.
Effect(d, r) ==
    LET tables == d.tables \cup TablesOf(r)
    IN  [tables |-> tables,
         protected |-> d.protected \cup OwnTables(r) \cup
                          (IF RefreshesAll(r) THEN WorkspaceRls(tables) ELSE {}),
         admin |-> r = 9 \/ (d.admin /\ ~RefreshesAll(r)),
         config |-> d.config \/ r = 5,
         histories |-> d.histories,
         objects |-> IF r = 2 THEN StableIdentity(d) ELSE d.objects,
         ledger |-> d.ledger]

Recorded(d, r, m) == [d EXCEPT !.ledger = [d.ledger EXCEPT ![r] = Checksum(m, r)]]

\* --- an invocation --------------------------------------------------------

\* A fresh install creates all the tables its release knows.
CreateAll(d, m) ==
    [d EXCEPT !.tables = TablesUpTo(Release[m]), !.config = Release[m] >= 5]

\* An alpha database has the first revision.
Adopted(d, m) ==
    IF \A r \in Revisions : d.ledger[r] = 0 THEN Recorded(d, 1, m) ELSE d

\* The transaction of m goes on at revision r with the database d.
GoesOn(m, r, d) == tx' = [tx EXCEPT ![m] = [next |-> r, ended |-> tx[m].ended, db |-> d]]

NoLock(m) == TRUE
LockFree(m) == lock = None
Begin(m) ==
    /\ tx[m].next = 0
    /\ LockFree(m)
    /\ lock' = m
    /\ GoesOn(m, 1, IF "workspaces" \in db.tables THEN Adopted(db, m)
                    ELSE CreateAll(db, m))
    /\ UNCHANGED <<db, edited>>

Missing(m, r) == tx[m].db.ledger[r] = 0

Apply(m) ==
    LET r == tx[m].next
    IN  /\ r \in 1 .. Release[m]
        /\ Missing(m, r)
        /\ GoesOn(m, r + 1, Recorded(Effect(tx[m].db, r), r, m))
        /\ UNCHANGED <<db, lock, edited>>

Skip(m) ==
    LET r == tx[m].next
    IN  /\ r \in 1 .. Release[m]
        /\ ~Missing(m, r)
        /\ tx[m].db.ledger[r] = Checksum(m, r)
        /\ GoesOn(m, r + 1, tx[m].db)
        /\ UNCHANGED <<db, lock, edited>>

\* The transaction is rolled back and the lock released.
Rollback(m, how) ==
    /\ tx' = [tx EXCEPT ![m] = [next |-> 0, db |-> db, ended |-> how]]
    /\ lock' = None
    /\ UNCHANGED <<db, edited>>

\* The ledger has another checksum: the invocation fails.
ChecksumChanged(m) ==
    LET r == tx[m].next
    IN  /\ r \in 1 .. Release[m]
        /\ ~Missing(m, r)
        /\ tx[m].db.ledger[r] # Checksum(m, r)
        /\ Rollback(m, "failed")

Crash(m) == tx[m].next # 0 /\ Rollback(m, "died")

Commit(m) ==
    /\ tx[m].next = Release[m] + 1
    /\ db' = tx[m].db
    /\ lock' = None
    /\ tx' = [tx EXCEPT ![m] = [next |-> 0, db |-> tx[m].db, ended |-> "committed"]]
    /\ UNCHANGED edited

Next ==
    \E m \in Migrators :
        Begin(m) \/ Apply(m) \/ Skip(m) \/ ChecksumChanged(m) \/ Crash(m) \/ Commit(m)

Spec == Init /\ [][Next]_vars

\* A deployment starts its migrator again until it succeeds, and the database
\* grants the lock to each that waits; an invocation goes on unless it dies.
Continue(m) == Apply(m) \/ Skip(m) \/ ChecksumChanged(m) \/ Commit(m)
FairSpec == Spec /\ \A m \in Migrators : SF_vars(Begin(m)) /\ WF_vars(Continue(m))

\* schema_is_current, for the API of a release.
SchemaIsCurrent(m) ==
    /\ db.tables # {}
    /\ \A r \in 1 .. Release[m] : db.ledger[r] = Checksum(m, r)

-----------------------------------------------------------------------------
(* Properties.                                                             *)

\* The committed database and the lock keep their types.
TypeOK ==
    /\ db.tables \subseteq TablesUpTo(10)
    /\ db.protected \subseteq WorkspaceOwned
    /\ db.admin \in BOOLEAN /\ db.config \in BOOLEAN
    /\ db.ledger \in [Revisions -> 0 .. 2]
    /\ DOMAIN db.objects \subseteq DOMAIN db.histories
    /\ edited \in Editions
    /\ lock \in Migrators \cup {None}
    /\ \A m \in Migrators : /\ tx[m].next \in 0 .. 11
                            /\ tx[m].ended \in {"never", "committed", "failed", "died"}

\* A committed revision stays, with its tables: no invocation takes back what
\* another one has committed meanwhile.
LedgerGrows ==
    [][/\ \A r \in Revisions : db.ledger[r] # 0 => db'.ledger[r] = db.ledger[r]
       /\ db.tables \subseteq db'.tables]_vars

\* An API that finds its schema current finds every table it knows, the source
\* objects of every alpha observation, and workspace isolation on every table
\* a workspace owns: on whichever path the database came to its revision.
ReadyMeansComplete ==
    \A m \in Migrators : SchemaIsCurrent(m) =>
        /\ TablesUpTo(Release[m]) \subseteq db.tables
        /\ Release[m] >= 2 => DOMAIN db.objects = DOMAIN db.histories
        /\ Release[m] >= 4 => db.tables \cap WorkspaceOwned \subseteq db.protected
        /\ Release[m] >= 5 => db.config

\* Revision 9 lets administrators provision workspaces, and it stays in force.
\* It fails: revision 10 creates the policies of all tables anew.
AdministratorsProvision == db.ledger[9] # 0 => db.admin

\* Every release gets its schema, whichever release comes first, unless
\* invocations are interrupted for ever or another release has a different
\* text of one of its revisions.
Agreed(m) ==
    \A n \in Migrators, r \in 1 .. Release[m] :
        r <= Release[n] => (<<m, r>> \in edited <=> <<n, r>> \in edited)
Migrated ==
    \/ []<><<\E m \in Migrators : Crash(m)>>_vars
    \/ \A m \in Migrators : <>(Agreed(m) => SchemaIsCurrent(m))

=============================================================================
