------------------------------ MODULE Drafting ------------------------------
(***************************************************************************)
(* Concurrent transactions on ONE entity, at the grain of row locks: the   *)
(* requests that Mastering takes for atomic.  Ingestion requests and       *)
(* remaster jobs redraft the entity (_draft_master), reviewers decide its  *)
(* tasks (decide_task), operators propose splits and merges of it.         *)
(*                                                                         *)
(* READ COMMITTED on PostgreSQL.  entity.version += 1 writes the value     *)
(* read before, plus one; the UPDATE is flushed, and the entity's row      *)
(* locked, by the first query of _draft_master.  decide_task locks its     *)
(* task first and the entity next.  A drafting transaction has the entity  *)
(* first and needs the row of the old approval next: they can deadlock,    *)
(* and PostgreSQL then aborts one of the two.                              *)
(***************************************************************************)
EXTENDS Naturals, Sequences, FiniteSets

CONSTANTS
    Writers,     \* requests and jobs that redraft the entity
    Changing,    \* those that bring a new value of a member (the others remaster)
    Deciders,    \* decide_task requests
    Proposers,   \* propose_split and propose_merge requests
    None,
    MaxDrafts, MaxProposals    \* bounds

Processes == Writers \cup Deciders \cup Proposers

ASSUME DraftingAssumption ==
    /\ Changing \subseteq Writers
    /\ Writers \cap Deciders = {} /\ Writers \cap Proposers = {}
    /\ Deciders \cap Proposers = {}
    /\ None \notin Processes
    /\ MaxDrafts \in Nat /\ MaxProposals \in Nat

VARIABLES
    version,   \* Entity.version
    values,    \* the current contribution of each writer's member, a revision
    drafts,    \* MasterVersion rows: [number, values]
    approved,  \* numbers of the approved ones
    tasks,     \* ReviewTask rows: the approvals and the proposals
    owner,     \* the transaction that has locked the entity's row, or None
    pc,        \* where each transaction is
    seen,      \* the entity's version as it read it
    task,      \* the task a decider has locked, or that a writer will close; 0
    number     \* the number of a writer's draft

rows == <<version, values, drafts, approved, tasks>>
vars == <<rows, owner, pc, seen, task, number>>

Approval(n, bound, vals) ==
    [kind |-> "approval", draft |-> n, bound |-> bound, reviewed |-> vals, status |-> "open"]
Proposal(bound, vals) ==
    [kind |-> "proposal", draft |-> 0, bound |-> bound, reviewed |-> vals, status |-> "open"]

\* The entity after its first ingestion.
Init ==
    /\ version = 1
    /\ values = [w \in Writers |-> 0]
    /\ drafts = {[number |-> 1, values |-> [w \in Writers |-> 0]]}
    /\ approved = {}
    /\ tasks = <<Approval(1, 1, [w \in Writers |-> 0])>>
    /\ owner = None
    /\ pc = [p \in Processes |-> "idle"]
    /\ seen = [p \in Processes |-> 0]
    /\ task = [p \in Processes |-> 0]
    /\ number = [p \in Processes |-> 0]

-----------------------------------------------------------------------------
Numbers == {d.number : d \in drafts}
IsMax(n, S) == n \in S /\ \A k \in S : k <= n

OpenApprovals == {t \in DOMAIN tasks : tasks[t].kind = "approval" /\ tasks[t].status = "open"}

\* The row of task t is locked by a request that decides it.
LockedTask(t) == \E d \in Deciders : task[d] = t

\* The tasks after t, if any, got the status s.
WithStatus(r, s) ==
    [kind |-> r.kind, draft |-> r.draft, bound |-> r.bound, reviewed |-> r.reviewed,
     status |-> s]
Marked(t, s) ==
    [i \in DOMAIN tasks |-> IF i = t THEN WithStatus(tasks[i], s) ELSE tasks[i]]

Ends(p) ==
    /\ pc' = [pc EXCEPT ![p] = "idle"]
    /\ seen' = [seen EXCEPT ![p] = 0]
    /\ task' = [task EXCEPT ![p] = 0]
    /\ number' = [number EXCEPT ![p] = 0]
    /\ owner' = IF owner = p THEN None ELSE owner

-----------------------------------------------------------------------------
(* ingest, remaster_domain.                                                *)

\* db.get(Entity), or the job's list of entities.
ReadEntity(w) ==
    /\ pc[w] = "idle"
    /\ \A d \in drafts : d.number < MaxDrafts
    /\ pc' = [pc EXCEPT ![w] = "read"]
    /\ seen' = [seen EXCEPT ![w] = version]
    /\ UNCHANGED <<rows, owner, task, number>>

\* The flush of entity.version waits for the row.
Unlocked == TRUE
EntityFree == owner = None

FlushEntity(w) ==
    /\ pc[w] = "read"
    /\ EntityFree
    /\ owner' = w
    /\ pc' = [pc EXCEPT ![w] = "flushed"]
    /\ UNCHANGED <<rows, seen, task, number>>

\* max(version) + 1, and the open approval, if there is one.
DraftMaster(w) ==
    /\ pc[w] = "flushed"
    /\ \E n \in Numbers : IsMax(n, Numbers) /\ number' = [number EXCEPT ![w] = n + 1]
    /\ \/ OpenApprovals = {} /\ task' = task
       \/ \E t \in OpenApprovals : task' = [task EXCEPT ![w] = t]
    /\ pc' = [pc EXCEPT ![w] = "drafted"]
    /\ UNCHANGED <<rows, owner, seen>>

\* What _master_values makes of the members, w's new value included.
MasterValues(w) == [v \in Writers |-> IF v = w /\ w \in Changing THEN values[v] + 1 ELSE values[v]]

\* What becomes of the approval w has found open.
LeftOpen(t) == tasks
Closed(t) == Marked(t, "stale")

\* The UPDATE of the old approval waits for a request that decides it.
CommitDraft(w) ==
    /\ pc[w] = "drafted"
    /\ task[w] = 0 \/ ~LockedTask(task[w])
    /\ version' = seen[w] + 1
    /\ values' = MasterValues(w)
    /\ drafts' = drafts \cup {[number |-> number[w], values |-> MasterValues(w)]}
    /\ tasks' = Append(Closed(task[w]), Approval(number[w], seen[w] + 1, MasterValues(w)))
    /\ UNCHANGED approved
    /\ Ends(w)

-----------------------------------------------------------------------------
(* propose_split, propose_merge.                                           *)

ReadProposal(q) ==
    /\ pc[q] = "idle"
    /\ Cardinality({t \in DOMAIN tasks : tasks[t].kind = "proposal"}) < MaxProposals
    /\ pc' = [pc EXCEPT ![q] = "read"]
    /\ seen' = [seen EXCEPT ![q] = version]
    /\ UNCHANGED <<rows, owner, task, number>>

\* The members are read and the task is inserted; its foreign key waits for a
\* FOR UPDATE lock of the entity (and not for an UPDATE of its version).
Propose(q) ==
    /\ pc[q] = "read"
    /\ owner \notin Deciders
    /\ tasks' = Append(tasks, Proposal(seen[q], values))
    /\ UNCHANGED <<version, values, drafts, approved>>
    /\ Ends(q)

-----------------------------------------------------------------------------
(* decide_task.                                                            *)

\* SELECT ... FOR UPDATE of the task; a decided one is refused.
AnyTask(t) == TRUE
Open(t) == tasks[t].status = "open"
LockTask(d, t) ==
    /\ pc[d] = "idle"
    /\ ~LockedTask(t)
    /\ Open(t)
    /\ task' = [task EXCEPT ![d] = t]
    /\ pc' = [pc EXCEPT ![d] = "task"]
    /\ UNCHANGED <<rows, owner, seen, number>>

\* SELECT ... FOR UPDATE of the entity.
LockEntity(d) ==
    /\ pc[d] = "task"
    /\ EntityFree
    /\ owner' = d
    /\ seen' = [seen EXCEPT ![d] = version]
    /\ pc' = [pc EXCEPT ![d] = "entity"]
    /\ UNCHANGED <<rows, task, number>>

Bound(d) == tasks[task[d]].bound = seen[d]

Stale(d) ==
    /\ pc[d] = "entity"
    /\ ~Bound(d)
    /\ tasks' = Marked(task[d], "stale")
    /\ UNCHANGED <<version, values, drafts, approved>>
    /\ Ends(d)

Reject(d) ==
    /\ pc[d] = "entity"
    /\ Bound(d)
    /\ tasks' = Marked(task[d], "rejected")
    /\ UNCHANGED <<version, values, drafts, approved>>
    /\ Ends(d)

Approve(d) ==
    LET t == tasks[task[d]] IN
    /\ pc[d] = "entity"
    /\ Bound(d)
    /\ t.kind = "approval"
    /\ t.draft \in Numbers \ approved
    /\ approved' = approved \cup {t.draft}
    /\ tasks' = Marked(task[d], "approved")
    /\ UNCHANGED <<version, values, drafts>>
    /\ Ends(d)

\* A proposer may not decide what is sensitive, the draft is gone, or the
\* members of a split have changed.
Refuse(d) ==
    /\ pc[d] = "entity"
    /\ Bound(d)
    /\ UNCHANGED rows
    /\ Ends(d)

\* The proposal is decided and the entity's open approval closed.
Applied(t) ==
    [i \in DOMAIN tasks |->
        IF i = t THEN WithStatus(tasks[i], "approved")
        ELSE IF i \in OpenApprovals THEN WithStatus(tasks[i], "stale")
        ELSE tasks[i]]

\* _apply_split, _apply_merge: redraft the entity, and wait for the row of its
\* open approval.  What the entity gains or loses is not told apart.
Apply(d) ==
    /\ pc[d] = "entity"
    /\ Bound(d)
    /\ tasks[task[d]].kind = "proposal"
    /\ \A t \in OpenApprovals : ~LockedTask(t)
    /\ version' = seen[d] + 1
    /\ \E n \in Numbers :
          /\ IsMax(n, Numbers)
          /\ drafts' = drafts \cup {[number |-> n + 1, values |-> values]}
          /\ tasks' = Append(Applied(task[d]), Approval(n + 1, seen[d] + 1, values))
    /\ UNCHANGED <<values, approved>>
    /\ Ends(d)

-----------------------------------------------------------------------------
(* PostgreSQL: one transaction of a cycle of waits is aborted.             *)

WaitsFor(p, q) ==
    \/ pc[p] = "task" /\ owner = q
    \/ pc[p] = "drafted" /\ q \in Deciders /\ task[p] # 0 /\ task[q] = task[p]
    \/ /\ pc[p] = "entity" /\ tasks[task[p]].kind = "proposal" /\ Bound(p)
       /\ q \in Deciders \ {p} /\ task[q] \in OpenApprovals

NeverAborts(p) == FALSE
Deadlocked(p) == \E q \in Processes : WaitsFor(p, q) /\ WaitsFor(q, p)

Abort(p) ==
    /\ Deadlocked(p)
    /\ UNCHANGED rows
    /\ Ends(p)

-----------------------------------------------------------------------------
Writer(w) == FlushEntity(w) \/ DraftMaster(w) \/ CommitDraft(w)
Decider(d) == LockEntity(d) \/ Stale(d) \/ Reject(d) \/ Approve(d) \/ Refuse(d) \/ Apply(d)

Next ==
    \/ \E w \in Writers : ReadEntity(w) \/ Writer(w)
    \/ \E q \in Proposers : ReadProposal(q) \/ Propose(q)
    \/ \E d \in Deciders : (\E t \in DOMAIN tasks : LockTask(d, t)) \/ Decider(d)
    \/ \E p \in Processes : Abort(p)

Spec == Init /\ [][Next]_vars

\* A request that has started goes on; one that waits for a lock is queued for
\* it and gets its turn; and deadlocks are detected.
FairSpec ==
    /\ Spec
    /\ \A w \in Writers : SF_vars(Writer(w))
    /\ \A q \in Proposers : SF_vars(Propose(q))
    /\ \A d \in Deciders : SF_vars(Decider(d))
    /\ \A p \in Processes : WF_vars(Abort(p))

-----------------------------------------------------------------------------
(* Properties.                                                             *)

Revisions == [Writers -> Nat]
TaskStatuses == {"open", "stale", "approved", "rejected"}
Tasks == [kind : {"approval", "proposal"}, draft : Nat, bound : Nat,
          reviewed : Revisions, status : TaskStatuses]

\* The type invariant.
TypeOK ==
    /\ version \in Nat
    /\ values \in Revisions
    /\ drafts \subseteq [number : Nat, values : Revisions]
    /\ approved \subseteq Nat
    /\ tasks \in Seq(Tasks)
    /\ owner \in Writers \cup Deciders \cup {None}
    /\ pc \in [Processes -> {"idle", "read", "flushed", "drafted", "task", "entity"}]
    /\ seen \in [Processes -> Nat]
    /\ task \in [Processes -> Nat]
    /\ number \in [Processes -> Nat]

\* However drafts and decisions interleave, the entity has at most one open
\* approval and it is of the newest draft, with the members' current values
\* (_draft_master reads the old approval without a lock of its own).
OpenApprovalIsCurrent ==
    \A t \in OpenApprovals :
        /\ IsMax(tasks[t].draft, Numbers)
        /\ tasks[t].reviewed = values
        /\ \A u \in OpenApprovals : u = t

\* Two transactions never compute the same draft number: the UNIQUE constraint
\* of master_versions is never what decides between them.
DraftNumbersDiffer ==
    \A w \in Writers : pc[w] = "drafted" => number[w] \notin Numbers

\* A draft is approved only while its values are the members' current ones,
\* whatever arrives while the reviewer's request runs (decide_task).
ApprovedIsCurrent ==
    [][\A n \in approved' \ approved :
          \E d \in drafts : d.number = n /\ d.values = values]_vars

\* Every request and job on the entity ends, in spite of the deadlocks between
\* drafting and deciding.
Finishes == \A p \in Processes : pc[p] # "idle" ~> pc[p] = "idle"

\* What the specification demands of decisions: a proposal is applied only to
\* the entity that was reviewed.  It fails: of two redrafts that read the same
\* version the second writes the version of the first, and a proposal bound to
\* it survives a change of the members.
AppliedAsReviewed ==
    [][\A t \in DOMAIN tasks :
          (tasks[t].kind = "proposal" /\ tasks[t].status = "open"
             /\ tasks'[t].status = "approved") => tasks[t].reviewed = values]_vars
=============================================================================
