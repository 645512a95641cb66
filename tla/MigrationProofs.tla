--------------------------- MODULE MigrationProofs ---------------------------
(***************************************************************************)
(* For any migrators, releases, texts of revisions and databases they find *)
(* (TLC needs small ones): what a release takes for current is complete,   *)
(* and nothing committed is taken back.                                    *)
(***************************************************************************)
EXTENDS Migration, TLAPS

\* A database: its parts have their types.
WellFormed(d) ==
    /\ d = [tables |-> d.tables, protected |-> d.protected, admin |-> d.admin,
            config |-> d.config, histories |-> d.histories, objects |-> d.objects,
            ledger |-> d.ledger]
    /\ d.tables \subseteq DOMAIN Since
    /\ d.protected \subseteq WorkspaceOwned
    /\ d.admin \in BOOLEAN /\ d.config \in BOOLEAN
    /\ d.ledger \in [Revisions -> 0 .. 2]
    /\ DOMAIN d.objects \subseteq DOMAIN d.histories

\* The ledger has no gap.
Ordered(d) ==
    \A r, k \in Revisions : k <= r /\ d.ledger[r] # 0 => d.ledger[k] # 0

\* Without the first tables there are none.
Installed(d) == d.tables = {} \/ TablesOf(1) \subseteq d.tables

\* What a recorded revision has left behind is still there, in the tables that
\* came later too.
CompleteAt(d, r) ==
    /\ TablesUpTo(r) \subseteq d.tables
    /\ r >= 2 => DOMAIN d.objects = DOMAIN d.histories
    /\ r >= 4 => d.tables \cap WorkspaceOwned \subseteq d.protected
    /\ r >= 5 => d.config
Complete(d) == \A r \in Revisions : d.ledger[r] # 0 => CompleteAt(d, r)

Sound(d) == WellFormed(d) /\ Ordered(d) /\ Installed(d) /\ Complete(d)

\* e has what d has.
Keeps(d, e) ==
    /\ \A r \in Revisions : d.ledger[r] # 0 => e.ledger[r] = d.ledger[r]
    /\ d.tables \subseteq e.tables

\* An invocation holds the lock, keeps what is committed, and has recorded the
\* revisions it is past.
Working(m) ==
    /\ lock = m
    /\ Sound(tx[m].db)
    /\ Keeps(db, tx[m].db)
    /\ \A r \in Revisions : r < tx[m].next => tx[m].db.ledger[r] # 0

Typed ==
    /\ lock \in Migrators \cup {None}
    /\ edited \in Editions
    /\ tx = [m \in Migrators |-> tx[m]]
    /\ \A m \in Migrators :
          /\ tx[m].next \in 0 .. Release[m] + 1
          /\ tx[m].ended \in {"never", "committed", "failed", "died"}

Inductive ==
    /\ Typed
    /\ Sound(db)
    /\ \A m \in Migrators : tx[m].next # 0 => Working(m)

-----------------------------------------------------------------------------
(* Revisions.                                                              *)

\* Which tables belong to whom.
LEMMA TableFacts ==
    /\ \A r \in {5, 8, 9} : TablesOf(r) \cap WorkspaceOwned = {}
    /\ \A r \in {6, 7} : TablesOf(r) \subseteq WorkspaceOwned
    /\ TablesUpTo(10) = DOMAIN Since
    /\ TablesOf(1) = TablesUpTo(1)
    /\ "workspaces" \in TablesOf(1)
    /\ \A r \in Revisions : TablesOf(1) \subseteq TablesUpTo(r)
  BY DEF TablesOf, TablesUpTo, Since, WorkspaceOwned, Revisions

\* The tables up to r are those before r and those of r.
LEMMA UpToNext ==
    ASSUME NEW r \in Revisions, NEW k \in 1 .. r
    PROVE  /\ TablesUpTo(k) \subseteq TablesUpTo(r - 1) \cup TablesOf(r)
           /\ r = 1 => TablesUpTo(r - 1) = {}
  <1>1. \A t \in DOMAIN Since : Since[t] \in Nat /\ Since[t] >= 1
    BY DEF Since
  <1>q. QED BY <1>1 DEF TablesOf, TablesUpTo, Revisions

\* A checksum is recorded as one.
LEMMA ChecksumTyped ==
    ASSUME NEW m, NEW r
    PROVE  Checksum(m, r) \in {1, 2}
  BY DEF Checksum

\* Recording changes the ledger only.
OnlyLedger(d, e, r, m) ==
    /\ e.tables = d.tables /\ e.protected = d.protected /\ e.admin = d.admin
    /\ e.config = d.config /\ e.histories = d.histories /\ e.objects = d.objects
    /\ \A k \in Revisions : e.ledger[k] = IF k = r THEN Checksum(m, r) ELSE d.ledger[k]
    /\ WellFormed(e)

LEMMA RecordedFields ==
    ASSUME NEW d, WellFormed(d), NEW r \in Revisions, NEW m \in Migrators
    PROVE  OnlyLedger(d, Recorded(d, r, m), r, m)
  <1> DEFINE l == [d.ledger EXCEPT ![r] = Checksum(m, r)]
             e == Recorded(d, r, m)
  <1>1. l \in [Revisions -> 0 .. 2]
    BY ChecksumTyped DEF WellFormed
  <1>2. \A k \in Revisions : l[k] = IF k = r THEN Checksum(m, r) ELSE d.ledger[k]
    BY DEF WellFormed
  <1> HIDE DEF l
  <1>3. e = [d EXCEPT !.ledger = l]
    BY DEF Recorded, l
  <1>4. e = [tables |-> d.tables, protected |-> d.protected, admin |-> d.admin,
             config |-> d.config, histories |-> d.histories, objects |-> d.objects,
             ledger |-> l]
    BY <1>3 DEF WellFormed
  <1> HIDE DEF e
  <1>5. /\ e.tables = d.tables /\ e.protected = d.protected /\ e.admin = d.admin
        /\ e.config = d.config /\ e.histories = d.histories /\ e.objects = d.objects
        /\ e.ledger = l
    BY <1>4
  <1>6. WellFormed(e)
    BY <1>1, <1>4, <1>5 DEF WellFormed
  <1>q. QED BY <1>2, <1>5, <1>6 DEF e, OnlyLedger

\* A revision gives a database.
LEMMA EffectFields ==
    ASSUME NEW d, WellFormed(d), NEW r \in Revisions
    PROVE  LET e == Effect(d, r)
           IN  /\ WellFormed(e)
               /\ e.ledger = d.ledger /\ e.histories = d.histories
               /\ e.tables = d.tables \cup TablesOf(r)
               /\ e.protected = d.protected \cup OwnTables(r) \cup
                     (IF RefreshesAll(r) THEN WorkspaceRls(e.tables) ELSE {})
               /\ e.config = (d.config \/ r = 5)
               /\ e.objects = IF r = 2 THEN StableIdentity(d) ELSE d.objects
  <1> DEFINE e == Effect(d, r)
  <1>1. /\ e = [tables |-> e.tables, protected |-> e.protected, admin |-> e.admin,
                config |-> e.config, histories |-> e.histories, objects |-> e.objects,
                ledger |-> e.ledger]
        /\ e.ledger = d.ledger /\ e.histories = d.histories
        /\ e.tables = d.tables \cup TablesOf(r)
        /\ e.protected = d.protected \cup OwnTables(r) \cup
              (IF RefreshesAll(r) THEN WorkspaceRls(e.tables) ELSE {})
        /\ e.admin = (r = 9 \/ (d.admin /\ ~RefreshesAll(r)))
        /\ e.config = (d.config \/ r = 5)
        /\ e.objects = IF r = 2 THEN StableIdentity(d) ELSE d.objects
    BY DEF Effect
  <1> HIDE DEF e
  <1>2. e.tables \subseteq DOMAIN Since
    BY <1>1 DEF WellFormed, TablesOf
  <1>3. e.protected \subseteq WorkspaceOwned
    BY <1>1, TableFacts DEF WellFormed, OwnTables, WorkspaceRls
  <1>4. e.admin \in BOOLEAN /\ e.config \in BOOLEAN
    BY <1>1 DEF WellFormed
  <1>5. DOMAIN StableIdentity(d) = DOMAIN d.histories
    BY DEF StableIdentity
  <1>6. DOMAIN e.objects \subseteq DOMAIN e.histories
    BY <1>1, <1>5 DEF WellFormed
  <1>7. WellFormed(e)
    BY <1>1, <1>2, <1>3, <1>4, <1>6 DEF WellFormed
  <1>q. QED BY <1>1, <1>7 DEF e

\* What a sound database has when r is its next revision.
Before(d, r) ==
    /\ TablesUpTo(r - 1) \subseteq d.tables
    /\ r >= 3 => DOMAIN d.objects = DOMAIN d.histories
    /\ r >= 5 => d.tables \cap WorkspaceOwned \subseteq d.protected
    /\ r >= 6 => d.config

LEMMA BeforeHolds ==
    ASSUME NEW d, Sound(d), NEW r \in Revisions,
           \A k \in Revisions : k < r => d.ledger[k] # 0
    PROVE  Before(d, r)
  <1>1. CASE r = 1
    BY <1>1, UpToNext DEF Before, Revisions
  <1>2. CASE r # 1
    <2>1. r - 1 \in Revisions /\ r - 1 < r
      BY <1>2 DEF Revisions
    <2>2. CompleteAt(d, r - 1)
      BY <2>1 DEF Sound, Complete
    <2>q. QED BY <2>1, <2>2 DEF CompleteAt, Before, Revisions
  <1>q. QED BY <1>1, <1>2

\* The next revision of a sound database gives a sound one that has more.
LEMMA EffectSound ==
    ASSUME NEW d, Sound(d), NEW r \in Revisions, NEW m \in Migrators,
           d.ledger[r] = 0, \A k \in Revisions : k < r => d.ledger[k] # 0
    PROVE  LET e == Recorded(Effect(d, r), r, m)
           IN  /\ Sound(e) /\ Keeps(d, e)
               /\ \A k \in Revisions : k < r + 1 => e.ledger[k] # 0
  <1> DEFINE f == Effect(d, r)
             e == Recorded(f, r, m)
  <1>1. WellFormed(d)
    BY DEF Sound
  <1>2. /\ WellFormed(f)
        /\ f.ledger = d.ledger /\ f.histories = d.histories
        /\ f.tables = d.tables \cup TablesOf(r)
        /\ f.protected = d.protected \cup OwnTables(r) \cup
              (IF RefreshesAll(r) THEN WorkspaceRls(f.tables) ELSE {})
        /\ f.config = (d.config \/ r = 5)
        /\ f.objects = IF r = 2 THEN StableIdentity(d) ELSE d.objects
    BY <1>1, EffectFields
  <1>2a. OnlyLedger(f, e, r, m)
    <2>1. WellFormed(f)
      BY <1>2
    <2> HIDE DEF f
    <2>q. QED BY <2>1, RecordedFields
  <1> HIDE DEF e, f
  <1>3. /\ e.tables = f.tables /\ e.protected = f.protected
        /\ e.config = f.config /\ e.histories = f.histories /\ e.objects = f.objects
        /\ \A k \in Revisions : e.ledger[k] = IF k = r THEN Checksum(m, r) ELSE f.ledger[k]
        /\ WellFormed(e)
    BY <1>2a DEF OnlyLedger
  <1>4. \A k \in Revisions : e.ledger[k] = IF k = r THEN Checksum(m, r) ELSE d.ledger[k]
    BY <1>2, <1>3
  <1>5. \A k \in Revisions : e.ledger[k] # 0 <=> k <= r
    <2>1. Checksum(m, r) # 0
      BY ChecksumTyped
    <2>2. \A k \in Revisions : k > r => d.ledger[k] = 0
      BY DEF Sound, Ordered, Revisions
    <2>3. \A k \in Revisions : k = r \/ k < r \/ k > r
      BY DEF Revisions
    <2>4. \A k \in Revisions : k <= r <=> k = r \/ k < r
      BY DEF Revisions
    <2>q. QED BY <1>4, <2>1, <2>2, <2>3, <2>4
  <1>6. Ordered(e)
    BY <1>5 DEF Ordered, Revisions
  <1>7. Keeps(d, e)
    BY <1>2, <1>3, <1>4 DEF Keeps
  <1>8. Before(d, r)
    BY BeforeHolds
  <1>9. \A k \in 1 .. r : TablesUpTo(k) \subseteq e.tables
    BY <1>2, <1>3, <1>8, UpToNext DEF Before
  <1>10. Installed(e)
    BY <1>3, <1>9, TableFacts DEF Installed, Revisions
  <1>11. r >= 2 => DOMAIN e.objects = DOMAIN e.histories
    <2>1. DOMAIN StableIdentity(d) = DOMAIN d.histories
      BY DEF StableIdentity
    <2>q. QED BY <1>2, <1>3, <1>8, <2>1 DEF Before, Revisions
  <1>12. r >= 4 => e.tables \cap WorkspaceOwned \subseteq e.protected
    <2>1. CASE r \in {4, 10}
      BY <1>2, <1>3, <2>1 DEF RefreshesAll, WorkspaceRls
    <2>2. CASE r \in {6, 7}
      BY <1>2, <1>3, <1>8, <2>2 DEF OwnTables, Before
    <2>3. CASE r \in {5, 8, 9}
      BY <1>2, <1>3, <1>8, <2>3, TableFacts DEF Before
    <2>q. QED BY <2>1, <2>2, <2>3 DEF Revisions
  <1>13. r >= 5 => e.config
    <2>1. r >= 5 => r = 5 \/ r >= 6
      BY DEF Revisions
    <2>2. e.config = (d.config \/ r = 5)
      BY <1>2, <1>3
    <2>q. QED BY <1>8, <2>1, <2>2, Zenon DEF Before
  <1>14. Complete(e)
    BY <1>5, <1>9, <1>11, <1>12, <1>13 DEF Complete, CompleteAt, Revisions
  <1>15. Sound(e)
    BY <1>3, <1>6, <1>10, <1>14 DEF Sound
  <1>16. \A k \in Revisions : k < r + 1 => e.ledger[k] # 0
    BY <1>5 DEF Revisions
  <1>q. QED BY <1>7, <1>15, <1>16 DEF e, f

-----------------------------------------------------------------------------
(* Steps.                                                                  *)

\* What a migrator may find is sound: it has no ledger.
LEMMA InitInductive == Init => Inductive
  <1> SUFFICES ASSUME Init PROVE Inductive
    OBVIOUS
  <1>1. PICK f \in Databases : db = Fresh(f)
    BY DEF Init
  <1>2. /\ db.tables = (IF f.alpha THEN TablesOf(1) ELSE {})
        /\ db.protected = {} /\ db.admin = FALSE /\ db.config = FALSE
        /\ db.histories = f.histories /\ db.objects = <<>>
        /\ db.ledger = [r \in Revisions |-> 0]
        /\ db = [tables |-> db.tables, protected |-> db.protected, admin |-> db.admin,
                 config |-> db.config, histories |-> db.histories, objects |-> db.objects,
                 ledger |-> db.ledger]
    BY <1>1 DEF Fresh
  <1>3. DOMAIN db.objects = {}
    BY <1>2
  <1>4. db.tables \subseteq DOMAIN Since
    BY <1>2 DEF TablesOf
  <1>5. WellFormed(db)
    <2>1. db.ledger \in [Revisions -> 0 .. 2]
      BY <1>2
    <2>2. DOMAIN db.objects \subseteq DOMAIN db.histories /\ db.protected \subseteq WorkspaceOwned
      BY <1>2, <1>3
    <2>3. db.admin \in BOOLEAN /\ db.config \in BOOLEAN
      BY <1>2
    <2>q. QED BY <1>2, <1>4, <2>1, <2>2, <2>3, Zenon DEF WellFormed
  <1>6. Sound(db)
    BY <1>2, <1>5 DEF Sound, Ordered, Installed, Complete
  <1>7. Typed
    <2>1. \A m \in Migrators : tx[m].next = 0 /\ tx[m].ended = "never"
      BY DEF Init
    <2>2. tx = [m \in Migrators |-> tx[m]]
      BY DEF Init
    <2>q. QED BY <2>1, <2>2, MigrationAssumption DEF Init, Typed, Revisions
  <1>8. \A m \in Migrators : tx[m].next = 0
    BY DEF Init
  <1>q. QED BY <1>6, <1>7, <1>8 DEF Inductive

\* A transaction that goes on with a sound database that has more.
LEMMA GoesOnKeeps ==
    ASSUME Inductive, NEW m \in Migrators, NEW r \in 1 .. Release[m] + 1, NEW d,
           Sound(d), Keeps(db, d), lock' = m,
           \A k \in Revisions : k < r => d.ledger[k] # 0,
           GoesOn(m, r, d), \A n \in Migrators : n # m => tx[n].next = 0,
           UNCHANGED <<db, edited>>
    PROVE  Inductive'
  <1> DEFINE t == [next |-> r, ended |-> tx[m].ended, db |-> d]
  <1>1. tx' = [tx EXCEPT ![m] = t]
    BY DEF GoesOn
  <1>2. t.next = r /\ t.ended = tx[m].ended /\ t.db = d
    OBVIOUS
  <1> HIDE DEF t
  <1>3. /\ tx' = [n \in Migrators |-> tx'[n]]
        /\ \A n \in Migrators : tx'[n] = IF n = m THEN t ELSE tx[n]
    BY <1>1 DEF Inductive, Typed
  <1>4. Release[m] \in Nat
    BY MigrationAssumption DEF Revisions
  <1>5. Typed'
    BY <1>2, <1>3, <1>4 DEF Inductive, Typed
  <1>6. Sound(db)'
    BY DEF Inductive, Sound, WellFormed, Ordered, Installed, Complete, CompleteAt
  <1>7. ASSUME NEW n \in Migrators, tx'[n].next # 0
        PROVE  Working(n)'
    <2>1. n = m
      BY <1>3, <1>7
    <2>2. tx'[n].db = d /\ tx'[n].next = r /\ lock' = n /\ db' = db
      BY <1>2, <1>3, <2>1
    <2>q. QED BY <2>2 DEF Working, Sound, WellFormed, Ordered, Installed, Complete,
         CompleteAt, Keeps
  <1>q. QED BY <1>5, <1>6, <1>7 DEF Inductive

\* Only the holder of the lock has a transaction.
LEMMA OneTransaction ==
    ASSUME Inductive, NEW m \in Migrators
    PROVE  /\ lock = None => \A n \in Migrators : tx[n].next = 0
           /\ tx[m].next # 0 => lock = m /\ \A n \in Migrators : n # m => tx[n].next = 0
  BY MigrationAssumption DEF Inductive, Working

\* What a migrator begins with is sound and has what is committed.
LEMMA BeginKeeps ==
    ASSUME Inductive, NEW m \in Migrators, Begin(m)
    PROVE  Inductive'
  <1> DEFINE d == IF "workspaces" \in db.tables THEN Adopted(db, m) ELSE CreateAll(db, m)
  <1>1. lock = None /\ lock' = m /\ GoesOn(m, 1, d) /\ UNCHANGED <<db, edited>>
    BY DEF Begin, LockFree
  <1>2. Sound(db) /\ WellFormed(db)
    BY DEF Inductive, Sound
  <1>3. Release[m] \in Revisions
    BY MigrationAssumption
  <1>4. Sound(d) /\ Keeps(db, d)
    <2>1. CASE "workspaces" \notin db.tables
      <3>1. db.tables = {}
        BY <1>2, <2>1, TableFacts DEF Sound, Installed
      <3>2. \A r \in Revisions : db.ledger[r] = 0
        BY <1>2, <2>1, TableFacts DEF Sound, Complete, CompleteAt
      <3> DEFINE e == CreateAll(db, m)
      <3>3. /\ e = [tables |-> TablesUpTo(Release[m]), protected |-> db.protected,
                    admin |-> db.admin, config |-> (Release[m] >= 5),
                    histories |-> db.histories, objects |-> db.objects, ledger |-> db.ledger]
        <4> DEFINE all == TablesUpTo(Release[m])
                   has == Release[m] >= 5
        <4>1. e = [db EXCEPT !.tables = all, !.config = has]
          BY DEF CreateAll
        <4>2. db = [tables |-> db.tables, protected |-> db.protected, admin |-> db.admin,
                    config |-> db.config, histories |-> db.histories, objects |-> db.objects,
                    ledger |-> db.ledger]
          BY <1>2 DEF WellFormed
        <4> HIDE DEF e, all, has
        <4>3. e = [tables |-> all, protected |-> db.protected, admin |-> db.admin,
                   config |-> has, histories |-> db.histories, objects |-> db.objects,
                   ledger |-> db.ledger]
          BY <4>1, <4>2
        <4>q. QED BY <4>3 DEF all, has
      <3> HIDE DEF e
      <3>4. /\ e.tables = TablesUpTo(Release[m]) /\ e.protected = db.protected
            /\ e.admin = db.admin /\ e.config = (Release[m] >= 5)
            /\ e.histories = db.histories /\ e.objects = db.objects /\ e.ledger = db.ledger
        BY <3>3
      <3>5. WellFormed(e)
        <4>1. TablesUpTo(Release[m]) \subseteq DOMAIN Since
          BY DEF TablesUpTo
        <4>2. (Release[m] >= 5) \in BOOLEAN
          OBVIOUS
        <4>q. QED BY <1>2, <3>3, <3>4, <4>1, <4>2 DEF WellFormed
      <3>6. Installed(e)
        BY <1>3, <3>4, TableFacts DEF Installed
      <3>7. Ordered(e) /\ Complete(e)
        BY <3>2, <3>4 DEF Ordered, Complete
      <3>8. Keeps(db, e)
        BY <3>1, <3>4 DEF Keeps
      <3>9. d = e
        BY <2>1 DEF e
      <3>q. QED BY <3>5, <3>6, <3>7, <3>8, <3>9 DEF Sound
    <2>2. CASE /\ "workspaces" \in db.tables
               /\ \A r \in Revisions : db.ledger[r] = 0
      <3> DEFINE e == Recorded(db, 1, m)
      <3>1. 1 \in Revisions
        BY DEF Revisions
      <3>2. OnlyLedger(db, e, 1, m)
        BY <1>2, <3>1, RecordedFields
      <3>3. d = e
        BY <2>2 DEF Adopted
      <3> HIDE DEF e, d
      <3>4. /\ e.tables = db.tables /\ e.objects = db.objects /\ e.histories = db.histories
            /\ e.protected = db.protected /\ e.config = db.config
            /\ \A k \in Revisions : e.ledger[k] # 0 => k = 1
            /\ WellFormed(e)
        BY <2>2, <3>2 DEF OnlyLedger
      <3>5. TablesOf(1) \subseteq e.tables
        BY <1>2, <2>2, <3>4 DEF Sound, Installed
      <3>6. Complete(e)
        BY <3>4, <3>5, TableFacts DEF Complete, CompleteAt
      <3>7. Ordered(e)
        <4>1. e.ledger[1] # 0
          BY <3>1, <3>2, ChecksumTyped DEF OnlyLedger
        <4>q. QED BY <3>4, <4>1 DEF Ordered, Revisions
      <3>8. Keeps(db, e)
        BY <2>2, <3>4 DEF Keeps
      <3>q. QED BY <3>3, <3>4, <3>5, <3>6, <3>7, <3>8 DEF Sound, Installed
    <2>3. CASE "workspaces" \in db.tables /\ ~\A r \in Revisions : db.ledger[r] = 0
      BY <1>2, <2>3 DEF Adopted, Keeps
    <2>q. QED BY <2>1, <2>2, <2>3
  <1>5. \A k \in Revisions : ~(k < 1)
    BY DEF Revisions
  <1>6. 1 \in 1 .. Release[m] + 1
    BY <1>3 DEF Revisions
  <1> HIDE DEF d
  <1>q. QED BY <1>1, <1>4, <1>5, <1>6, GoesOnKeeps, OneTransaction

\* A revision is applied, or found applied.
LEMMA ReviseKeeps ==
    ASSUME Inductive, NEW m \in Migrators, Apply(m) \/ Skip(m)
    PROVE  Inductive'
  <1> DEFINE r == tx[m].next
             d == tx[m].db
             e == Recorded(Effect(d, r), r, m)
  <1>1. r \in 1 .. Release[m] /\ r # 0 /\ r \in Revisions /\ r + 1 \in 1 .. Release[m] + 1
    BY MigrationAssumption DEF Apply, Skip, Revisions
  <1>2. /\ lock = m /\ Sound(d) /\ Keeps(db, d)
        /\ \A k \in Revisions : k < r => d.ledger[k] # 0
        /\ \A n \in Migrators : n # m => tx[n].next = 0
    BY <1>1, OneTransaction DEF Inductive, Working
  <1>3. CASE Apply(m)
    <2>1. d.ledger[r] = 0 /\ GoesOn(m, r + 1, e) /\ UNCHANGED <<db, lock, edited>>
      BY <1>3 DEF Apply, Missing
    <2>2. /\ Sound(e) /\ Keeps(d, e)
          /\ \A k \in Revisions : k < r + 1 => e.ledger[k] # 0
      <3> HIDE DEF d, r
      <3>q. QED BY <1>1, <1>2, <2>1, EffectSound
    <2>3. Keeps(db, e)
      BY <1>2, <2>2 DEF Keeps
    <2> HIDE DEF e, d, r
    <2>q. QED BY <1>1, <1>2, <2>1, <2>2, <2>3, GoesOnKeeps
  <1>4. CASE Skip(m)
    <2>1. d.ledger[r] # 0 /\ GoesOn(m, r + 1, d) /\ UNCHANGED <<db, lock, edited>>
      BY <1>4 DEF Skip, Missing
    <2>2. \A k \in Revisions : k < r + 1 => d.ledger[k] # 0
      BY <1>1, <1>2, <2>1 DEF Revisions
    <2> HIDE DEF e, d, r
    <2>q. QED BY <1>1, <1>2, <2>1, <2>2, GoesOnKeeps
  <1>q. QED BY <1>3, <1>4

\* The transaction of m ends, and the lock is free.
LEMMA EndKeeps ==
    ASSUME Inductive, NEW m \in Migrators, NEW d, NEW e, Sound(e),
           NEW how \in {"committed", "failed", "died"}, tx[m].next # 0,
           tx' = [tx EXCEPT ![m] = [next |-> 0, db |-> d, ended |-> how]],
           lock' = None, db' = e, edited' = edited
    PROVE  Inductive'
  <1> DEFINE t == [next |-> 0, db |-> d, ended |-> how]
  <1>1. t.next = 0 /\ t.ended = how
    OBVIOUS
  <1>2. tx' = [tx EXCEPT ![m] = t]
    OBVIOUS
  <1> HIDE DEF t
  <1>3. /\ tx' = [n \in Migrators |-> tx'[n]]
        /\ \A n \in Migrators : tx'[n] = IF n = m THEN t ELSE tx[n]
    BY <1>2 DEF Inductive, Typed
  <1>4. \A n \in Migrators : tx'[n].next = 0
    BY <1>1, <1>3, OneTransaction
  <1>5. Release[m] \in Nat
    BY MigrationAssumption DEF Revisions
  <1>6. Typed'
    BY <1>1, <1>3, <1>5 DEF Inductive, Typed
  <1>7. Sound(db)'
    BY DEF Sound, WellFormed, Ordered, Installed, Complete, CompleteAt
  <1>q. QED BY <1>4, <1>6, <1>7 DEF Inductive

\* A rolled back invocation leaves the database.
LEMMA RollbackKeeps ==
    ASSUME Inductive, NEW m \in Migrators, ChecksumChanged(m) \/ Crash(m)
    PROVE  Inductive'
  <1>1. tx[m].next # 0 /\ (Rollback(m, "failed") \/ Rollback(m, "died"))
    BY DEF ChecksumChanged, Crash
  <1>2. Sound(db)
    BY DEF Inductive
  <1>q. QED BY <1>1, <1>2, EndKeeps DEF Rollback

\* What is committed has what was.
LEMMA CommitKeeps ==
    ASSUME Inductive, NEW m \in Migrators, Commit(m)
    PROVE  Inductive' /\ Keeps(db, db')
  <1>1. tx[m].next # 0
    BY MigrationAssumption DEF Commit, Revisions
  <1>2. Sound(tx[m].db) /\ Keeps(db, tx[m].db)
    BY <1>1 DEF Inductive, Working
  <1>3. Keeps(db, db')
    BY <1>2 DEF Commit
  <1>4. /\ tx' = [tx EXCEPT ![m] = [next |-> 0, db |-> tx[m].db, ended |-> "committed"]]
        /\ lock' = None /\ db' = tx[m].db /\ edited' = edited
    BY DEF Commit
  <1>q. QED BY <1>1, <1>2, <1>3, <1>4, EndKeeps

-----------------------------------------------------------------------------
(* Theorems.                                                               *)

\* Every step keeps the invariant and what is committed.
LEMMA NextKeeps ==
    ASSUME Inductive, [Next]_vars
    PROVE  /\ Inductive'
           /\ \A r \in Revisions : db.ledger[r] # 0 => db'.ledger[r] = db.ledger[r]
           /\ db.tables \subseteq db'.tables
  <1>1. ASSUME NEW m \in Migrators, Begin(m)
        PROVE  Inductive' /\ db' = db
    BY <1>1, BeginKeeps DEF Begin
  <1>2. ASSUME NEW m \in Migrators, Apply(m) \/ Skip(m)
        PROVE  Inductive' /\ db' = db
    BY <1>2, ReviseKeeps DEF Apply, Skip
  <1>3. ASSUME NEW m \in Migrators, ChecksumChanged(m) \/ Crash(m)
        PROVE  Inductive' /\ db' = db
    BY <1>3, RollbackKeeps DEF ChecksumChanged, Crash, Rollback
  <1>4. ASSUME NEW m \in Migrators, Commit(m)
        PROVE  Inductive' /\ Keeps(db, db')
    BY <1>4, CommitKeeps
  <1>5. CASE UNCHANGED vars
    <2>1. db' = db /\ lock' = lock /\ tx' = tx /\ edited' = edited
      BY <1>5 DEF vars
    <2>q. QED BY <2>1 DEF Inductive, Typed, Working, Keeps, Sound, WellFormed, Ordered,
         Installed, Complete, CompleteAt
  <1>q. QED BY <1>1, <1>2, <1>3, <1>4, <1>5 DEF Next, Keeps

\* The invariant holds always.
THEOREM MigrationInductive == Spec => []Inductive
  <1>1. Inductive /\ [Next]_vars => Inductive'
    BY NextKeeps
  <1>q. QED BY <1>1, InitInductive, PTL DEF Spec

\* The committed database and the lock keep their types.
THEOREM MigrationTypeOK == Spec => []TypeOK
  <1>1. Inductive => TypeOK
    <2> SUFFICES ASSUME Inductive PROVE TypeOK
      OBVIOUS
    <2>1. WellFormed(db) /\ Typed
      BY DEF Inductive, Sound
    <2>2. \A m \in Migrators : tx[m].next \in 0 .. 11
      BY <2>1, MigrationAssumption DEF Typed, Revisions
    <2>q. QED BY <2>1, <2>2, TableFacts DEF WellFormed, Typed, TypeOK
  <1>q. QED BY <1>1, MigrationInductive, PTL

\* What a release takes for current is complete, on whichever path the
\* database came to it.
THEOREM ReadyIsComplete == Spec => []ReadyMeansComplete
  <1>1. Inductive => ReadyMeansComplete
    <2> SUFFICES ASSUME Inductive, NEW m \in Migrators, SchemaIsCurrent(m)
                 PROVE  CompleteAt(db, Release[m])
      BY DEF ReadyMeansComplete, CompleteAt
    <2>1. Release[m] \in Revisions /\ Release[m] \in 1 .. Release[m]
      BY MigrationAssumption DEF Revisions
    <2>2. db.ledger[Release[m]] # 0
      BY <2>1, ChecksumTyped DEF SchemaIsCurrent
    <2>q. QED BY <2>1, <2>2 DEF Inductive, Sound, Complete
  <1>q. QED BY <1>1, MigrationInductive, PTL

\* No invocation takes back what another one has committed.
THEOREM NothingTakenBack == Spec => LedgerGrows
  <1>1. Inductive /\ [Next]_vars =>
           [/\ \A r \in Revisions : db.ledger[r] # 0 => db'.ledger[r] = db.ledger[r]
            /\ db.tables \subseteq db'.tables]_vars
    BY NextKeeps
  <1>q. QED BY <1>1, MigrationInductive, PTL DEF Spec, LedgerGrows

=============================================================================
