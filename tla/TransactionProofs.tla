------------------------- MODULE TransactionProofs -------------------------
(***************************************************************************)
(* Proofs about what concurrent READ COMMITTED transactions of the         *)
(* mastering service keep: on the row of one entity and its drafts         *)
(* (Drafting), for any number of writers, deciders, proposers and drafts,  *)
(* and on the trail they append to (AuditChain), for any number of         *)
(* workspaces, appenders and entries.                                      *)
(***************************************************************************)
EXTENDS Drafting, AuditChain, TLAPS

-----------------------------------------------------------------------------
(* Drafting.                                                               *)

\* Each kind of transaction has its own states.
Roles ==
    /\ \A w \in Writers : pc[w] \in {"idle", "read", "flushed", "drafted"}
    /\ \A q \in Proposers : pc[q] \in {"idle", "read"}
    /\ \A d \in Deciders : pc[d] \in {"idle", "task", "entity"}

\* The lock of the entity's row and the state of its owner agree.
Locks ==
    /\ \A w \in Writers : owner = w <=> pc[w] \in {"flushed", "drafted"}
    /\ \A d \in Deciders : owner = d <=> pc[d] = "entity"

\* A decider's task is open and its own.
Held ==
    /\ \A d \in Deciders :
          IF pc[d] = "idle" THEN task[d] = 0
          ELSE task[d] \in DOMAIN tasks /\ tasks[task[d]].status = "open"
    /\ \A c, d \in Deciders : c # d /\ task[c] = task[d] => task[c] = 0

\* The draft of an open approval exists.
Backed ==
    \A t \in OpenApprovals :
        [number |-> tasks[t].draft, values |-> tasks[t].reviewed] \in drafts

\* What a drafted transaction has read is still so.
Pending ==
    \A w \in Writers : pc[w] = "drafted" =>
        /\ \E n \in Numbers : IsMax(n, Numbers) /\ number[w] = n + 1
        /\ OpenApprovals \subseteq {task[w]}

Inductive ==
    TypeOK /\ Roles /\ Locks /\ Held /\ OpenApprovalIsCurrent /\ Backed /\ Pending

-----------------------------------------------------------------------------
\* A sequence of tasks is a function on an interval.
LEMMA TasksDomain ==
  ASSUME TypeOK
  PROVE  /\ DOMAIN tasks = 1 .. Len(tasks)
         /\ Len(tasks) \in Nat
         /\ \A i \in DOMAIN tasks : i \in Nat /\ i # 0 /\ tasks[i] \in Tasks
  BY DEF TypeOK

\* A task with another status is a task.
LEMMA WithStatusType ==
  ASSUME NEW r \in Tasks, NEW s \in TaskStatuses
  PROVE  /\ WithStatus(r, s) \in Tasks
         /\ WithStatus(r, s).status = s
         /\ WithStatus(r, s).kind = r.kind
         /\ WithStatus(r, s).draft = r.draft
         /\ WithStatus(r, s).reviewed = r.reviewed
  BY DEF WithStatus, Tasks

\* What Marked changes and what it keeps.
LEMMA MarkedEffect ==
  ASSUME TypeOK, NEW t, NEW s \in TaskStatuses
  PROVE  /\ Marked(t, s) \in Seq(Tasks)
         /\ DOMAIN Marked(t, s) = DOMAIN tasks
         /\ \A i \in DOMAIN tasks : i # t => Marked(t, s)[i] = tasks[i]
         /\ \A i \in DOMAIN tasks : i = t => Marked(t, s)[i].status = s
  <1> DEFINE f == Marked(t, s)
  <1>1. /\ DOMAIN f = 1 .. Len(tasks)
        /\ \A i \in 1 .. Len(tasks) :
              f[i] = IF i = t THEN WithStatus(tasks[i], s) ELSE tasks[i]
    BY TasksDomain DEF Marked
  <1>2. \A i \in 1 .. Len(tasks) : f[i] \in Tasks /\ (i = t => f[i].status = s)
    BY <1>1, TasksDomain, WithStatusType
  <1>3. f = [i \in 1 .. Len(tasks) |-> f[i]]
    BY TasksDomain DEF Marked
  <1> HIDE DEF f
  <1>4. f \in [1 .. Len(tasks) -> Tasks]
    BY <1>2, <1>3
  <1>5. f \in Seq(Tasks)
    BY <1>4, TasksDomain
  <1>q. QED BY <1>1, <1>2, <1>5, TasksDomain DEF f

\* The same of Applied.
LEMMA AppliedEffect ==
  ASSUME TypeOK, NEW t
  PROVE  /\ Applied(t) \in Seq(Tasks)
         /\ DOMAIN Applied(t) = DOMAIN tasks
         /\ \A i \in DOMAIN tasks :
               i # t /\ i \notin OpenApprovals => Applied(t)[i] = tasks[i]
         /\ \A i \in DOMAIN tasks :
               i = t \/ i \in OpenApprovals => Applied(t)[i].status # "open"
  <1> DEFINE f == Applied(t)
  <1>1. /\ DOMAIN f = 1 .. Len(tasks)
        /\ \A i \in 1 .. Len(tasks) :
              f[i] = IF i = t THEN WithStatus(tasks[i], "approved")
                     ELSE IF i \in OpenApprovals THEN WithStatus(tasks[i], "stale")
                     ELSE tasks[i]
    BY TasksDomain DEF Applied
  <1>2. \A i \in 1 .. Len(tasks) :
           f[i] \in Tasks /\ (i = t \/ i \in OpenApprovals => f[i].status # "open")
    <2>1. "approved" \in TaskStatuses /\ "stale" \in TaskStatuses
      BY DEF TaskStatuses
    <2>q. QED BY <1>1, <2>1, TasksDomain, WithStatusType
  <1>3. f = [i \in 1 .. Len(tasks) |-> f[i]]
    BY TasksDomain DEF Applied
  <1> HIDE DEF f
  <1>4. f \in [1 .. Len(tasks) -> Tasks]
    BY <1>2, <1>3
  <1>5. f \in Seq(Tasks)
    BY <1>4, TasksDomain
  <1>q. QED BY <1>1, <1>2, <1>5, TasksDomain DEF f

\* What an insert adds to a sequence of tasks.
LEMMA AppendEffect ==
  ASSUME NEW f \in Seq(Tasks), NEW x \in Tasks
  PROVE  /\ Append(f, x) \in Seq(Tasks)
         /\ \A i \in DOMAIN Append(f, x) :
               \/ i \in DOMAIN f /\ Append(f, x)[i] = f[i]
               \/ i \notin DOMAIN f /\ i = Len(f) + 1 /\ Append(f, x)[i] = x
         /\ \A i \in DOMAIN f : i \in DOMAIN Append(f, x) /\ Append(f, x)[i] = f[i]
  OBVIOUS

\* New tasks are well-formed.
LEMMA NewTasks ==
  ASSUME NEW n \in Nat, NEW b \in Nat, NEW v \in Revisions
  PROVE  /\ Approval(n, b, v) \in Tasks /\ Proposal(b, v) \in Tasks
         /\ Approval(n, b, v).kind = "approval" /\ Approval(n, b, v).draft = n
         /\ Approval(n, b, v).reviewed = v /\ Proposal(b, v).kind = "proposal"
  BY DEF Approval, Proposal, Tasks, TaskStatuses

-----------------------------------------------------------------------------
(* The steps that change no table.                                         *)

\* Reading the tables changes none of the facts about them.
LEMMA RowsSame ==
  ASSUME Inductive, UNCHANGED rows
  PROVE  /\ OpenApprovals' = OpenApprovals /\ Numbers' = Numbers
         /\ OpenApprovalIsCurrent' /\ Backed'
  BY DEF Inductive, rows, OpenApprovals, Numbers, OpenApprovalIsCurrent, Backed, IsMax

\* The start of a transaction that redrafts or proposes.
LEMMA ReadKeeps ==
  ASSUME Inductive, NEW p \in Writers \cup Proposers, pc[p] = "idle",
         pc' = [pc EXCEPT ![p] = "read"], seen' = [seen EXCEPT ![p] = version],
         UNCHANGED <<rows, owner, task, number>>
  PROVE  Inductive'
  <1> USE DEF Processes
  <1>1. TypeOK'
    BY DEF Inductive, TypeOK, rows
  <1>2. Roles' /\ Locks'
    BY DraftingAssumption DEF Inductive, TypeOK, Roles, Locks
  <1>3. Held'
    BY DraftingAssumption DEF Inductive, TypeOK, Held, rows
  <1>4. Pending'
    BY RowsSame DEF Inductive, TypeOK, Pending, IsMax
  <1>q. QED BY <1>1, <1>2, <1>3, <1>4, RowsSame DEF Inductive

\* The writer gets the lock of the entity's row.
LEMMA FlushKeeps ==
  ASSUME Inductive, NEW w \in Writers, FlushEntity(w)
  PROVE  Inductive'
  <1> USE DEF Processes, FlushEntity
  <1>0. owner = None /\ None # w /\ \A d \in Deciders : d # w /\ d # None
    BY DraftingAssumption DEF EntityFree
  <1>1. TypeOK'
    BY DEF Inductive, TypeOK, rows
  <1>2. Roles'
    BY <1>0, DraftingAssumption DEF Inductive, TypeOK, Roles
  <1>3. Locks'
    <2>1. (\A v \in Writers : owner = v <=> pc[v] \in {"flushed", "drafted"})'
      BY <1>0, DraftingAssumption DEF Inductive, TypeOK, Locks
    <2>2. (\A d \in Deciders : owner = d <=> pc[d] = "entity")'
      BY <1>0 DEF Inductive, TypeOK, Locks
    <2>q. QED BY <2>1, <2>2 DEF Locks
  <1>4. Held'
    BY <1>0 DEF Inductive, TypeOK, Held, rows
  <1>5. Pending'
    BY RowsSame DEF Inductive, TypeOK, Pending, IsMax
  <1>q. QED BY <1>1, <1>2, <1>3, <1>4, <1>5, RowsSame DEF Inductive

\* The writer computes the number of its draft and finds the open approval.
LEMMA DraftMasterKeeps ==
  ASSUME Inductive, NEW w \in Writers, DraftMaster(w)
  PROVE  Inductive'
  <1> USE DEF Processes
  <1>0. PICK n \in Numbers : IsMax(n, Numbers) /\ number' = [number EXCEPT ![w] = n + 1]
    BY DEF DraftMaster
  <1>1. n \in Nat
    BY DEF Inductive, TypeOK, Numbers
  <1>2. PICK t \in Nat : task' = [task EXCEPT ![w] = t] /\ OpenApprovals \subseteq {t}
    <2>1. CASE OpenApprovals = {} /\ task' = task
      <3>1. task[w] \in Nat /\ task' = [task EXCEPT ![w] = task[w]]
        BY <2>1 DEF Inductive, TypeOK
      <3>q. QED BY <2>1, <3>1
    <2>2. CASE \E u \in OpenApprovals : task' = [task EXCEPT ![w] = u]
      <3>1. PICK u \in OpenApprovals : task' = [task EXCEPT ![w] = u]
        BY <2>2
      <3>2. u \in Nat
        BY TasksDomain DEF OpenApprovals, Inductive
      <3>3. OpenApprovals \subseteq {u}
        BY DEF Inductive, OpenApprovalIsCurrent
      <3>q. QED BY <3>1, <3>2, <3>3
    <2>q. QED BY <2>1, <2>2 DEF DraftMaster
  <1>3. pc[w] = "flushed" /\ pc' = [pc EXCEPT ![w] = "drafted"] /\ UNCHANGED <<rows, owner, seen>>
    BY DEF DraftMaster
  <1>4. TypeOK'
    BY <1>0, <1>1, <1>2, <1>3 DEF Inductive, TypeOK, rows
  <1>5. Roles' /\ Locks'
    BY <1>3, DraftingAssumption DEF Inductive, TypeOK, Roles, Locks
  <1>6. Held'
    BY <1>2, <1>3, DraftingAssumption DEF Inductive, TypeOK, Held, rows
  <1>7. Pending'
    <2> SUFFICES ASSUME NEW v \in Writers, pc'[v] = "drafted"
                 PROVE  /\ \E k \in Numbers' : IsMax(k, Numbers') /\ number'[v] = k + 1
                        /\ OpenApprovals' \subseteq {task'[v]}
      BY DEF Pending
    <2>1. v = w
      BY <1>3 DEF Inductive, TypeOK, Locks
    <2>2. number'[w] = n + 1 /\ task'[w] = t
      BY <1>0, <1>2 DEF Inductive, TypeOK
    <2>q. QED BY <1>0, <1>2, <1>3, <2>1, <2>2, RowsSame
  <1>q. QED BY <1>3, <1>4, <1>5, <1>6, <1>7, RowsSame DEF Inductive

\* The decider gets the lock of an open task.
LEMMA LockTaskKeeps ==
  ASSUME Inductive, NEW d \in Deciders, NEW t \in DOMAIN tasks, LockTask(d, t)
  PROVE  Inductive'
  <1> USE DEF Processes, LockTask
  <1>0. t \in Nat /\ t # 0 /\ tasks[t].status = "open" /\ \A c \in Deciders : task[c] # t
    BY TasksDomain DEF Inductive, Open, LockedTask
  <1>1. TypeOK'
    BY <1>0 DEF Inductive, TypeOK, rows
  <1>2. Roles' /\ Locks'
    BY DraftingAssumption DEF Inductive, TypeOK, Roles, Locks
  <1>3. Held'
    BY <1>0 DEF Inductive, TypeOK, Held, rows
  <1>4. Pending'
    BY RowsSame, DraftingAssumption DEF Inductive, TypeOK, Pending, IsMax
  <1>q. QED BY <1>1, <1>2, <1>3, <1>4, RowsSame DEF Inductive

\* The decider gets the lock of the entity's row.
LEMMA LockEntityKeeps ==
  ASSUME Inductive, NEW d \in Deciders, LockEntity(d)
  PROVE  Inductive'
  <1> USE DEF Processes, LockEntity
  <1>0. owner = None /\ None # d /\ \A w \in Writers : d # w /\ w # None
    BY DraftingAssumption DEF EntityFree
  <1>1. TypeOK'
    BY DEF Inductive, TypeOK, rows
  <1>2. Roles'
    BY <1>0, DraftingAssumption DEF Inductive, TypeOK, Roles
  <1>3. Locks'
    <2>1. (\A v \in Writers : owner = v <=> pc[v] \in {"flushed", "drafted"})'
      BY <1>0 DEF Inductive, TypeOK, Locks
    <2>2. (\A c \in Deciders : owner = c <=> pc[c] = "entity")'
      BY <1>0, DraftingAssumption DEF Inductive, TypeOK, Locks
    <2>q. QED BY <2>1, <2>2 DEF Locks
  <1>4. Held'
    BY <1>0 DEF Inductive, TypeOK, Held, rows
  <1>5. Pending'
    BY <1>0, RowsSame DEF Inductive, TypeOK, Pending, IsMax
  <1>q. QED BY <1>1, <1>2, <1>3, <1>4, <1>5, RowsSame DEF Inductive

-----------------------------------------------------------------------------
(* The steps that end a transaction.                                       *)

\* The locals of a transaction that has ended, and its locks.
LEMMA EndsEffect ==
  ASSUME Inductive, NEW p \in Processes, Ends(p)
  PROVE  /\ owner' \in Writers \cup Deciders \cup {None}
         /\ pc' \in [Processes -> {"idle", "read", "flushed", "drafted", "task", "entity"}]
         /\ seen' \in [Processes -> Nat] /\ task' \in [Processes -> Nat]
         /\ number' \in [Processes -> Nat]
         /\ pc'[p] = "idle" /\ task'[p] = 0
         /\ \A q \in Processes : q # p =>
               pc'[q] = pc[q] /\ task'[q] = task[q] /\ number'[q] = number[q]
         /\ Roles' /\ Locks'
  <1>1. owner' = IF owner = p THEN None ELSE owner
    BY DEF Ends
  <1>2. None \notin Processes
    BY DraftingAssumption
  <1>3. /\ owner' \in Writers \cup Deciders \cup {None}
        /\ pc' \in [Processes -> {"idle", "read", "flushed", "drafted", "task", "entity"}]
        /\ seen' \in [Processes -> Nat] /\ task' \in [Processes -> Nat]
        /\ number' \in [Processes -> Nat]
    BY DEF Ends, Inductive, TypeOK
  <1>4. /\ pc'[p] = "idle" /\ task'[p] = 0
        /\ \A q \in Processes : q # p =>
               pc'[q] = pc[q] /\ task'[q] = task[q] /\ number'[q] = number[q]
    BY DEF Ends, Inductive, TypeOK
  <1>5. \A q \in Processes : pc'[q] = IF q = p THEN "idle" ELSE pc[q]
    BY <1>4
  <1>6. Writers \subseteq Processes /\ Deciders \subseteq Processes /\ Proposers \subseteq Processes
    BY DEF Processes
  <1>7. Roles'
    BY <1>5, <1>6 DEF Inductive, Roles
  <1>8. Locks'
    BY <1>1, <1>2, <1>5, <1>6 DEF Inductive, Locks
  <1>q. QED BY <1>3, <1>4, <1>7, <1>8

\* The other deciders' tasks, if the step leaves them open.
LEMMA HeldStays ==
  ASSUME Inductive, NEW p \in Processes, Ends(p),
         \A d \in Deciders : d # p /\ pc[d] # "idle" =>
            task[d] \in DOMAIN tasks' /\ tasks'[task[d]].status = "open"
  PROVE  Held'
  <1>1. \A d \in Deciders : d # p => pc'[d] = pc[d] /\ task'[d] = task[d]
    BY EndsEffect DEF Processes
  <1>2. pc'[p] = "idle" /\ task'[p] = 0
    BY EndsEffect
  <1>3. \A d \in Deciders :
           IF pc'[d] = "idle" THEN task'[d] = 0
           ELSE task'[d] \in DOMAIN tasks' /\ tasks'[task'[d]].status = "open"
    <2> SUFFICES ASSUME NEW d \in Deciders
                 PROVE  IF pc'[d] = "idle" THEN task'[d] = 0
                        ELSE task'[d] \in DOMAIN tasks' /\ tasks'[task'[d]].status = "open"
      OBVIOUS
    <2>1. CASE d = p
      BY <1>2, <2>1
    <2>2. CASE d # p
      BY <1>1, <2>2 DEF Inductive, Held
    <2>q. QED BY <2>1, <2>2
  <1>4. \A c, d \in Deciders : c # d /\ task'[c] = task'[d] => task'[c] = 0
    BY <1>1, <1>2 DEF Inductive, Held
  <1>q. QED BY <1>3, <1>4 DEF Held

\* A rolled-back transaction leaves everything else as it was.
LEMMA RollbackKeeps ==
  ASSUME Inductive, NEW p \in Processes, Ends(p), UNCHANGED rows
  PROVE  Inductive'
  <1>1. TypeOK'
    BY EndsEffect DEF Inductive, TypeOK, rows
  <1>2. Held'
    <2>1. \A d \in Deciders : d # p /\ pc[d] # "idle" =>
              task[d] \in DOMAIN tasks' /\ tasks'[task[d]].status = "open"
      BY DEF Inductive, Held, rows
    <2>q. QED BY <2>1, HeldStays
  <1>3. Pending'
    BY EndsEffect, RowsSame DEF Inductive, Pending, Processes
  <1>q. QED BY <1>1, <1>2, <1>3, EndsEffect, RowsSame DEF Inductive

\* A decision that only changes the status of the decider's own task.
LEMMA DecidedKeeps ==
  ASSUME Inductive, NEW d \in Deciders, pc[d] = "entity", NEW s \in TaskStatuses \ {"open"},
         tasks' = Marked(task[d], s), UNCHANGED <<version, values, drafts>>,
         approved' \subseteq Nat, Ends(d)
  PROVE  Inductive'
  <1>0. d \in Processes /\ Deciders \subseteq Processes /\ Writers \subseteq Processes
    BY DEF Processes
  <1>1. /\ tasks' \in Seq(Tasks) /\ DOMAIN tasks' = DOMAIN tasks
        /\ \A i \in DOMAIN tasks : i # task[d] => tasks'[i] = tasks[i]
        /\ \A i \in DOMAIN tasks : i = task[d] => tasks'[i].status # "open"
    BY MarkedEffect DEF Inductive
  <1>2. TypeOK'
    BY <1>0, <1>1, EndsEffect DEF Inductive, TypeOK
  <1>3. Held'
    <2>1. task[d] # 0
      BY TasksDomain DEF Inductive, Held
    <2>2. \A c \in Deciders : c # d => task[c] # task[d]
      BY <2>1 DEF Inductive, Held
    <2>3. \A c \in Deciders : c # d /\ pc[c] # "idle" =>
              task[c] \in DOMAIN tasks' /\ tasks'[task[c]].status = "open"
      BY <1>1, <2>2 DEF Inductive, Held
    <2>q. QED BY <1>0, <2>3, HeldStays
  <1>4. OpenApprovals' \subseteq OpenApprovals /\ Numbers' = Numbers
        /\ \A t \in OpenApprovals' : tasks'[t] = tasks[t]
    BY <1>1 DEF OpenApprovals, Numbers
  <1>5. OpenApprovalIsCurrent' /\ Backed'
    BY <1>4 DEF Inductive, OpenApprovalIsCurrent, Backed, IsMax
  <1>6. \A w \in Writers : pc[w] # "drafted" /\ w # d
    BY DraftingAssumption DEF Inductive, Locks
  <1>7. Pending'
    BY <1>0, <1>6, EndsEffect DEF Pending
  <1>q. QED BY <1>0, <1>2, <1>3, <1>5, <1>7, EndsEffect DEF Inductive

\* The insert of a proposal: no approval is concerned.
LEMMA ProposeKeeps ==
  ASSUME Inductive, NEW q \in Proposers, Propose(q)
  PROVE  Inductive'
  <1>0. q \in Processes /\ Deciders \subseteq Processes /\ Writers \subseteq Processes
    BY DEF Processes
  <1> DEFINE x == Proposal(seen[q], values)
  <1>1. x \in Tasks /\ x.kind = "proposal"
    BY <1>0, NewTasks DEF Inductive, TypeOK
  <1>2. tasks' = Append(tasks, x) /\ UNCHANGED <<version, values, drafts, approved>> /\ Ends(q)
    BY DEF Propose
  <1> HIDE DEF x
  <1>3. /\ tasks' \in Seq(Tasks)
        /\ \A i \in DOMAIN tasks' : (i \in DOMAIN tasks /\ tasks'[i] = tasks[i]) \/ tasks'[i] = x
        /\ \A i \in DOMAIN tasks : i \in DOMAIN tasks' /\ tasks'[i] = tasks[i]
    BY <1>1, <1>2, AppendEffect DEF Inductive, TypeOK
  <1>4. TypeOK'
    BY <1>0, <1>2, <1>3, EndsEffect DEF Inductive, TypeOK
  <1>5. q \notin Deciders /\ q \notin Writers
    BY DraftingAssumption
  <1>6. Held'
    <2>1. \A d \in Deciders : d # q /\ pc[d] # "idle" =>
              task[d] \in DOMAIN tasks' /\ tasks'[task[d]].status = "open"
      BY <1>3 DEF Inductive, Held
    <2>q. QED BY <1>0, <1>2, <2>1, HeldStays
  <1>7. OpenApprovals' = OpenApprovals /\ Numbers' = Numbers
        /\ \A t \in OpenApprovals : tasks'[t] = tasks[t]
    BY <1>1, <1>2, <1>3 DEF OpenApprovals, Numbers
  <1>8. OpenApprovalIsCurrent' /\ Backed'
    BY <1>2, <1>7 DEF Inductive, OpenApprovalIsCurrent, Backed, IsMax
  <1>9. Pending'
    BY <1>0, <1>2, <1>5, <1>7, EndsEffect DEF Inductive, Pending
  <1>q. QED BY <1>0, <1>2, <1>4, <1>6, <1>8, <1>9, EndsEffect DEF Inductive

\* A new draft with its approval, after the old one was closed: the same for a
\* writer's commit and for the application of a proposal.
LEMMA RedraftKeeps ==
  ASSUME Inductive, NEW p \in Writers \cup Deciders, owner = p, Ends(p),
         NEW n \in Numbers, IsMax(n, Numbers), NEW b \in Nat, NEW f \in Seq(Tasks),
         DOMAIN f = DOMAIN tasks,
         \A i \in DOMAIN f : i \in OpenApprovals => f[i].status # "open",
         \A i \in DOMAIN f : f[i] = tasks[i] \/ f[i].status # "open",
         \A d \in Deciders : d # p /\ pc[d] # "idle" => f[task[d]] = tasks[task[d]],
         version' \in Nat, values' \in Revisions, UNCHANGED approved,
         drafts' = drafts \cup {[number |-> n + 1, values |-> values']},
         tasks' = Append(f, Approval(n + 1, b, values'))
  PROVE  Inductive'
  <1>0. /\ p \in Processes /\ Deciders \subseteq Processes /\ Writers \subseteq Processes
        /\ n \in Nat
    BY DEF Processes, Numbers, Inductive, TypeOK
  <1> DEFINE x == Approval(n + 1, b, values')
  <1>1. /\ x \in Tasks /\ x.kind = "approval" /\ x.draft = n + 1 /\ x.reviewed = values'
    BY <1>0, NewTasks
  <1>2. tasks' = Append(f, x)
    OBVIOUS
  <1> HIDE DEF x
  <1>3. /\ tasks' \in Seq(Tasks)
        /\ \A i \in DOMAIN tasks' :
              \/ i \in DOMAIN f /\ tasks'[i] = f[i]
              \/ i \notin DOMAIN f /\ i = Len(f) + 1 /\ tasks'[i] = x
        /\ \A i \in DOMAIN f : i \in DOMAIN tasks' /\ tasks'[i] = f[i]
    BY <1>1, <1>2, AppendEffect
  <1>4. TypeOK'
    <2>1. [number |-> n + 1, values |-> values'] \in [number : Nat, values : Revisions]
      BY <1>0
    <2>2. drafts' \subseteq [number : Nat, values : Revisions]
      BY <2>1 DEF Inductive, TypeOK
    <2>q. QED BY <1>0, <1>3, <2>2, EndsEffect DEF Inductive, TypeOK
  <1>5. \A w \in Writers : w # p => pc[w] # "drafted"
    BY DEF Inductive, Locks
  <1>6. Pending'
    BY <1>0, <1>5, EndsEffect DEF Pending
  <1>7. Held'
    <2>1. \A d \in Deciders : d # p /\ pc[d] # "idle" =>
              task[d] \in DOMAIN f /\ f[task[d]].status = "open"
      BY DEF Inductive, Held
    <2>2. \A d \in Deciders : d # p /\ pc[d] # "idle" =>
              task[d] \in DOMAIN tasks' /\ tasks'[task[d]].status = "open"
      BY <1>3, <2>1
    <2>q. QED BY <1>0, <2>2, HeldStays
  <1>8. \A t \in OpenApprovals' : t \notin DOMAIN f /\ t = Len(f) + 1 /\ tasks'[t] = x
    <2> SUFFICES ASSUME NEW t \in OpenApprovals', t \in DOMAIN f PROVE FALSE
      BY <1>3 DEF OpenApprovals
    <2>1. f[t].kind = "approval" /\ f[t].status = "open"
      BY <1>3 DEF OpenApprovals
    <2>2. t \in OpenApprovals
      BY <2>1 DEF OpenApprovals
    <2>q. QED BY <2>1, <2>2
  <1>9. Numbers' = Numbers \cup {n + 1}
    <2>1. Numbers' = {d.number : d \in drafts'}
      BY DEF Numbers
    <2>2. [number |-> n + 1, values |-> values'].number = n + 1
      OBVIOUS
    <2>q. QED BY <2>1, <2>2, Zenon DEF Numbers
  <1>10. IsMax(n + 1, Numbers')
    <2>1. \A k \in Numbers : k \in Nat /\ k <= n
      BY DEF IsMax, Numbers, Inductive, TypeOK
    <2>2. \A k \in Numbers' : k <= n + 1
      BY <1>0, <1>9, <2>1
    <2>q. QED BY <1>9, <2>2 DEF IsMax
  <1>11. OpenApprovalIsCurrent'
    BY <1>1, <1>8, <1>10 DEF OpenApprovalIsCurrent
  <1>12. Backed'
    BY <1>1, <1>8 DEF Backed
  <1>q. QED BY <1>0, <1>4, <1>6, <1>7, <1>11, <1>12, EndsEffect DEF Inductive

\* The commit of an ingestion or of a remaster job.
LEMMA CommitKeeps ==
  ASSUME Inductive, NEW w \in Writers, CommitDraft(w)
  PROVE  Inductive'
  <1>0. w \in Processes /\ w \notin Deciders /\ Deciders \subseteq Processes
    BY DraftingAssumption DEF Processes
  <1> DEFINE f == Closed(task[w])
  <1>1. /\ f \in Seq(Tasks) /\ DOMAIN f = DOMAIN tasks
        /\ \A i \in DOMAIN tasks : i # task[w] => f[i] = tasks[i]
        /\ \A i \in DOMAIN tasks : i = task[w] => f[i].status = "stale"
    BY MarkedEffect DEF Inductive, Closed, TaskStatuses
  <1>2. PICK n \in Numbers : IsMax(n, Numbers) /\ number[w] = n + 1
    BY DEF Inductive, Pending, CommitDraft
  <1>3. OpenApprovals \subseteq {task[w]} /\ owner = w
    BY DEF Inductive, Pending, Locks, CommitDraft
  <1>4. /\ values' = MasterValues(w)
        /\ drafts' = drafts \cup {[number |-> n + 1, values |-> values']}
        /\ tasks' = Append(f, Approval(n + 1, seen[w] + 1, values'))
        /\ version' = seen[w] + 1 /\ UNCHANGED approved /\ Ends(w)
        /\ task[w] = 0 \/ ~LockedTask(task[w])
    BY <1>2 DEF CommitDraft
  <1>5. values' \in Revisions /\ seen[w] + 1 \in Nat
    BY <1>0, <1>4 DEF Inductive, TypeOK, MasterValues, Revisions
  <1>6. \A d \in Deciders : pc[d] # "idle" => f[task[d]] = tasks[task[d]]
    <2> SUFFICES ASSUME NEW d \in Deciders, pc[d] # "idle" PROVE f[task[d]] = tasks[task[d]]
      OBVIOUS
    <2>1. task[d] \in DOMAIN tasks /\ task[d] # 0
      BY TasksDomain DEF Inductive, Held
    <2>2. task[d] # task[w]
      BY <1>4, <2>1 DEF LockedTask
    <2>q. QED BY <1>1, <2>1, <2>2
  <1> HIDE DEF f
  <1>7. /\ \A i \in DOMAIN f : i \in OpenApprovals => f[i].status # "open"
        /\ \A i \in DOMAIN f : f[i] = tasks[i] \/ f[i].status # "open"
    BY <1>1, <1>3
  <1>q. QED BY <1>1, <1>2, <1>3, <1>4, <1>5, <1>6, <1>7, RedraftKeeps

\* The application of a split or of a merge.
LEMMA ApplyKeeps ==
  ASSUME Inductive, NEW d \in Deciders, Apply(d)
  PROVE  Inductive'
  <1>0. d \in Processes
    BY DEF Processes
  <1> DEFINE f == Applied(task[d])
  <1>1. PICK n \in Numbers :
          /\ IsMax(n, Numbers)
          /\ drafts' = drafts \cup {[number |-> n + 1, values |-> values]}
          /\ tasks' = Append(f, Approval(n + 1, seen[d] + 1, values))
    BY DEF Apply
  <1>2. /\ pc[d] = "entity" /\ \A t \in OpenApprovals : ~LockedTask(t)
        /\ version' = seen[d] + 1 /\ values' = values /\ UNCHANGED approved /\ Ends(d)
    BY DEF Apply
  <1>3. /\ f \in Seq(Tasks) /\ DOMAIN f = DOMAIN tasks
        /\ \A i \in DOMAIN tasks : i # task[d] /\ i \notin OpenApprovals => f[i] = tasks[i]
        /\ \A i \in DOMAIN tasks : i = task[d] \/ i \in OpenApprovals => f[i].status # "open"
    BY AppliedEffect DEF Inductive
  <1> HIDE DEF f
  <1>4. owner = d /\ seen[d] + 1 \in Nat /\ values' \in Revisions
    BY <1>0, <1>2 DEF Inductive, TypeOK, Locks
  <1>5. \A c \in Deciders : c # d /\ pc[c] # "idle" => f[task[c]] = tasks[task[c]]
    <2> SUFFICES ASSUME NEW c \in Deciders, c # d, pc[c] # "idle"
                 PROVE  f[task[c]] = tasks[task[c]]
      OBVIOUS
    <2>1. task[c] \in DOMAIN tasks /\ task[c] # 0
      BY TasksDomain DEF Inductive, Held
    <2>2. task[c] # task[d]
      BY <2>1 DEF Inductive, Held
    <2>3. task[c] \notin OpenApprovals
      BY <1>2 DEF LockedTask
    <2>q. QED BY <1>3, <2>1, <2>2, <2>3
  <1>6. /\ \A i \in DOMAIN f : i \in OpenApprovals => f[i].status # "open"
        /\ \A i \in DOMAIN f : f[i] = tasks[i] \/ f[i].status # "open"
    BY <1>3
  <1>7. /\ drafts' = drafts \cup {[number |-> n + 1, values |-> values']}
        /\ tasks' = Append(f, Approval(n + 1, seen[d] + 1, values'))
    BY <1>1, <1>2
  <1>q. QED BY <1>1, <1>2, <1>3, <1>4, <1>5, <1>6, <1>7, RedraftKeeps

-----------------------------------------------------------------------------
\* The entity after its first ingestion.
LEMMA InitInductive == Init => Inductive
  <1> SUFFICES ASSUME Init PROVE Inductive
    OBVIOUS
  <1> DEFINE zero == [w \in Writers |-> 0]
             first == Approval(1, 1, zero)
  <1>1. zero \in Revisions
    BY DEF Revisions
  <1> HIDE DEF zero
  <1>2. first \in Tasks /\ first.kind = "approval" /\ first.draft = 1 /\ first.reviewed = zero
    BY <1>1, NewTasks
  <1>3. tasks = <<first>> /\ drafts = {[number |-> 1, values |-> zero]} /\ values = zero
    BY DEF Init, zero
  <1> HIDE DEF first
  <1>4. tasks \in Seq(Tasks) /\ DOMAIN tasks = {1} /\ tasks[1] = first
    BY <1>2, <1>3
  <1>5. Numbers = {1}
    BY <1>3 DEF Numbers
  <1>6. TypeOK
    BY <1>1, <1>3, <1>4 DEF Init, TypeOK
  <1>7. Roles /\ Locks /\ Held /\ Pending
    BY DraftingAssumption DEF Init, Roles, Locks, Held, Pending, Processes
  <1>8. OpenApprovalIsCurrent /\ Backed
    BY <1>2, <1>3, <1>4, <1>5 DEF OpenApprovalIsCurrent, Backed, OpenApprovals, IsMax
  <1>q. QED BY <1>6, <1>7, <1>8 DEF Inductive

\* The steps of a decider.
LEMMA DeciderKeeps ==
  ASSUME Inductive, NEW d \in Deciders, Decider(d)
  PROVE  Inductive'
  <1>0. d \in Processes /\ {"stale", "rejected", "approved"} \subseteq TaskStatuses \ {"open"}
    BY DEF Processes, TaskStatuses
  <1>1. CASE LockEntity(d)
    BY <1>1, LockEntityKeeps
  <1>2. CASE Stale(d)
    BY <1>0, <1>2, DecidedKeeps DEF Stale, Inductive, TypeOK
  <1>3. CASE Reject(d)
    BY <1>0, <1>3, DecidedKeeps DEF Reject, Inductive, TypeOK
  <1>4. CASE Approve(d)
    <2>1. \A k \in Numbers : k \in Nat
      BY DEF Numbers, Inductive, TypeOK
    <2>2. approved' \subseteq Nat
      BY <1>4, <2>1 DEF Approve, Inductive, TypeOK
    <2>q. QED BY <1>0, <1>4, <2>2, DecidedKeeps DEF Approve
  <1>5. CASE Refuse(d)
    BY <1>0, <1>5, RollbackKeeps DEF Refuse
  <1>6. CASE Apply(d)
    BY <1>6, ApplyKeeps
  <1>q. QED BY <1>1, <1>2, <1>3, <1>4, <1>5, <1>6 DEF Decider

\* The invariant is inductive.
THEOREM InductiveInvariant == Spec => []Inductive
  <1>1. Inductive /\ UNCHANGED vars => Inductive'
    <2> SUFFICES ASSUME Inductive, UNCHANGED vars PROVE Inductive'
      OBVIOUS
    <2>1. UNCHANGED rows /\ UNCHANGED <<owner, pc, seen, task, number>>
      BY DEF vars
    <2>2. TypeOK' /\ Roles' /\ Locks' /\ Held'
      BY <2>1 DEF rows, Inductive, TypeOK, Roles, Locks, Held
    <2>3. Pending'
      BY <2>1, RowsSame DEF Inductive, Pending, IsMax
    <2>q. QED BY <2>1, <2>2, <2>3, RowsSame DEF Inductive
  <1>2. Inductive /\ Next => Inductive'
    <2> SUFFICES ASSUME Inductive, Next PROVE Inductive'
      OBVIOUS
    <2>1. CASE \E w \in Writers : ReadEntity(w) \/ Writer(w)
      <3> SUFFICES ASSUME NEW w \in Writers, ReadEntity(w) \/ Writer(w) PROVE Inductive'
        BY <2>1
      <3>1. CASE ReadEntity(w)
        BY <3>1, ReadKeeps DEF ReadEntity
      <3>2. CASE Writer(w)
        BY <3>2, FlushKeeps, DraftMasterKeeps, CommitKeeps DEF Writer
      <3>q. QED BY <3>1, <3>2
    <2>2. CASE \E q \in Proposers : ReadProposal(q) \/ Propose(q)
      <3> SUFFICES ASSUME NEW q \in Proposers, ReadProposal(q) \/ Propose(q) PROVE Inductive'
        BY <2>2
      <3>1. CASE ReadProposal(q)
        BY <3>1, ReadKeeps DEF ReadProposal
      <3>2. CASE Propose(q)
        BY <3>2, ProposeKeeps
      <3>q. QED BY <3>1, <3>2
    <2>3. CASE \E d \in Deciders : (\E t \in DOMAIN tasks : LockTask(d, t)) \/ Decider(d)
      BY <2>3, LockTaskKeeps, DeciderKeeps
    <2>4. CASE \E p \in Processes : Abort(p)
      BY <2>4, RollbackKeeps DEF Abort
    <2>q. QED BY <2>1, <2>2, <2>3, <2>4 DEF Next
  <1>q. QED BY InitInductive, <1>1, <1>2, PTL DEF Spec

\* The tables and the transactions of ingest, decide_task and the proposals keep
\* their types.
THEOREM TypeCorrect == Spec => []TypeOK
  BY InductiveInvariant, PTL DEF Inductive

\* However _draft_master and decide_task interleave, the entity has at most one
\* open approval, of its newest draft and of the members' current values.
THEOREM OpenApprovalsAreCurrent == Spec => []OpenApprovalIsCurrent
  BY InductiveInvariant, PTL DEF Inductive

\* The row lock that the flush of entity.version takes makes draft numbers
\* unique before the UNIQUE constraint is asked.
THEOREM DraftNumbersAreUnique == Spec => []DraftNumbersDiffer
  <1>1. Inductive => DraftNumbersDiffer
    <2> SUFFICES ASSUME Inductive, NEW w \in Writers, pc[w] = "drafted"
                 PROVE  number[w] \notin Numbers
      BY DEF DraftNumbersDiffer
    <2>1. PICK n \in Numbers : IsMax(n, Numbers) /\ number[w] = n + 1
      BY DEF Inductive, Pending
    <2>2. n \in Nat
      BY DEF Numbers, Inductive, TypeOK
    <2>q. QED BY <2>1, <2>2 DEF IsMax
  <1>q. QED BY InductiveInvariant, <1>1, PTL

\* decide_task approves a draft only while it shows the members' current values,
\* for any number of concurrent ingestions, remaster jobs and reviewers.
THEOREM ApprovalsAreCurrent == Spec => ApprovedIsCurrent
  <1>1. Inductive /\ [Next]_vars =>
          [\A n \in approved' \ approved :
              \E d \in drafts : d.number = n /\ d.values = values]_vars
    <2> SUFFICES ASSUME Inductive, Next, NEW n \in approved' \ approved
                 PROVE  \E d \in drafts : d.number = n /\ d.values = values
      OBVIOUS
    <2>1. PICK d \in Deciders : Approve(d)
      BY DEF Next, ReadEntity, Writer, FlushEntity, DraftMaster, CommitDraft, ReadProposal,
             Propose, LockTask, Decider, LockEntity, Stale, Reject, Refuse, Apply, Abort, rows
    <2>2. n = tasks[task[d]].draft /\ tasks[task[d]].kind = "approval" /\ pc[d] = "entity"
      BY <2>1 DEF Approve
    <2>3. task[d] \in OpenApprovals
      BY <2>2 DEF Inductive, Held, OpenApprovals
    <2>4. [number |-> n, values |-> values] \in drafts
      BY <2>2, <2>3 DEF Inductive, Backed, OpenApprovalIsCurrent
    <2>q. QED BY <2>4
  <1>q. QED BY InductiveInvariant, <1>1, PTL DEF Spec, ApprovedIsCurrent

-----------------------------------------------------------------------------
(* Redrafts that do not overlap.                                           *)

\* Whoever redrafts the entity has read its current version: no two redrafts, of
\* writers or of an applied proposal, overlap.  The code takes no lock to this
\* end before it flushes; where it fails, a version stands for two contents.
ReadsStayCurrent == \A w \in Writers : pc[w] # "idle" => seen[w] = version

\* A version determines what was reviewed: a proposal bound to the current one
\* shows the current values; a request has not read a version to come, and a
\* decider that has locked the entity has read the current one.
Dated ==
    /\ \A t \in DOMAIN tasks : tasks[t].kind = "proposal" =>
          /\ tasks[t].bound <= version
          /\ tasks[t].bound = version => tasks[t].reviewed = values
    /\ \A q \in Proposers : pc[q] = "read" => seen[q] <= version
    /\ \A d \in Deciders : pc[d] = "entity" => seen[d] = version

-----------------------------------------------------------------------------
\* Deciding tasks changes nothing of them but their status.
LEMMA DecidingKeeps ==
  ASSUME NEW t, NEW s
  PROVE  /\ DOMAIN Marked(t, s) = DOMAIN tasks /\ DOMAIN Applied(t) = DOMAIN tasks
         /\ \A i \in DOMAIN tasks :
               /\ Marked(t, s)[i].kind = tasks[i].kind
               /\ Marked(t, s)[i].bound = tasks[i].bound
               /\ Marked(t, s)[i].reviewed = tasks[i].reviewed
               /\ Applied(t)[i].kind = tasks[i].kind
               /\ Applied(t)[i].bound = tasks[i].bound
               /\ Applied(t)[i].reviewed = tasks[i].reviewed
  BY DEF Marked, Applied, WithStatus

\* A transaction's end touches nothing of the others.
LEMMA EndsAlone ==
  ASSUME Inductive, NEW p \in Processes, Ends(p)
  PROVE  /\ pc'[p] = "idle"
         /\ \A q \in Processes : q # p => pc'[q] = pc[q] /\ seen'[q] = seen[q]
  BY DEF Ends, Inductive, TypeOK

\* A step that leaves the version, and the tasks or adds one that is dated.
LEMMA DatedStays ==
  ASSUME Dated, UNCHANGED <<version, values>>,
         \A t \in DOMAIN tasks' :
            \/ /\ t \in DOMAIN tasks /\ tasks'[t].kind = tasks[t].kind
               /\ tasks'[t].bound = tasks[t].bound /\ tasks'[t].reviewed = tasks[t].reviewed
            \/ /\ tasks'[t].bound <= version
               /\ tasks'[t].bound = version => tasks'[t].reviewed = values,
         \A q \in Proposers : pc'[q] = "read" =>
            seen'[q] = version \/ (pc[q] = "read" /\ seen'[q] = seen[q]),
         \A d \in Deciders : pc'[d] = "entity" =>
            seen'[d] = version \/ (pc[d] = "entity" /\ seen'[d] = seen[d]),
         version \in Nat
  PROVE  Dated'
  <1>1. ASSUME NEW t \in DOMAIN tasks', tasks'[t].kind = "proposal"
        PROVE  /\ tasks'[t].bound <= version
               /\ tasks'[t].bound = version => tasks'[t].reviewed = values
    BY <1>1, Zenon DEF Dated
  <1>2. version <= version
    OBVIOUS
  <1>3. ASSUME NEW q \in Proposers, pc'[q] = "read" PROVE seen'[q] <= version
    <2>1. CASE seen'[q] = version
      BY <1>2, <2>1, Zenon
    <2>2. CASE pc[q] = "read" /\ seen'[q] = seen[q]
      BY <2>2, Zenon DEF Dated
    <2>q. QED BY <1>3, <2>1, <2>2, Zenon
  <1>4. \A d \in Deciders : pc'[d] = "entity" => seen'[d] = version
    BY DEF Dated
  <1>q. QED BY <1>1, <1>3, <1>4, Zenon DEF Dated

\* A redraft ends: the version is a new one, to which no task is bound yet.
LEMMA DatedRedraft ==
  ASSUME Inductive, Dated, NEW p \in Processes, owner = p, Ends(p), version' = version + 1,
         NEW f, DOMAIN f = DOMAIN tasks, f \in Seq(Tasks),
         \A i \in DOMAIN tasks : f[i].kind = tasks[i].kind /\ f[i].bound = tasks[i].bound,
         NEW x \in Tasks, x.kind = "approval", tasks' = Append(f, x)
  PROVE  Dated'
  <1>1. version \in Nat /\ Proposers \subseteq Processes /\ Deciders \subseteq Processes
    BY DEF Inductive, TypeOK, Processes
  <1>2. ASSUME NEW t \in DOMAIN tasks', tasks'[t].kind = "proposal"
        PROVE  tasks'[t].bound < version'
    <2>1. t \in DOMAIN f /\ tasks'[t] = f[t]
      BY <1>2, AppendEffect
    <2>2. tasks[t].kind = "proposal" /\ tasks'[t].bound = tasks[t].bound
      BY <1>2, <2>1
    <2>3. tasks[t].bound <= version /\ tasks[t].bound \in Nat
      BY <2>1, <2>2, TasksDomain DEF Dated, Inductive, Tasks
    <2>q. QED BY <1>1, <2>2, <2>3
  <1>3. \A t \in DOMAIN tasks' : tasks'[t] \in Tasks
    BY AppendEffect
  <1>4. \A t \in DOMAIN tasks' : tasks'[t].kind = "proposal" =>
           tasks'[t].bound <= version' /\ tasks'[t].bound # version'
    BY <1>1, <1>2, <1>3 DEF Tasks
  <1>5. ASSUME NEW q \in Proposers, pc'[q] = "read" PROVE seen'[q] <= version'
    <2>1. pc[q] = "read" /\ seen'[q] = seen[q]
      <3>1. q # p
        BY <1>5, EndsAlone
      <3>q. QED BY <1>1, <1>5, <3>1, EndsAlone
    <2>2. seen[q] <= version /\ seen[q] \in Nat
      BY <1>1, <2>1 DEF Dated, Inductive, TypeOK
    <2>q. QED BY <1>1, <2>1, <2>2
  <1>6. ASSUME NEW d \in Deciders PROVE pc'[d] # "entity"
    <2>1. CASE d = p
      BY <2>1, EndsAlone
    <2>2. CASE d # p
      BY <1>1, <2>2, EndsAlone DEF Inductive, Locks
    <2>q. QED BY <2>1, <2>2
  <1>q. QED BY <1>4, <1>5, <1>6, Zenon DEF Dated

\* A step that starts a transaction, or moves one on, without a new version.
LEMMA DatedMoves ==
  ASSUME Inductive, Dated, UNCHANGED rows, NEW p \in Processes,
         \A q \in Processes : q # p => pc'[q] = pc[q] /\ seen'[q] = seen[q],
         p \in Proposers /\ pc'[p] = "read" => seen'[p] = version,
         p \in Deciders /\ pc'[p] = "entity" => seen'[p] = version
  PROVE  Dated'
  <1>1. version \in Nat /\ Proposers \subseteq Processes /\ Deciders \subseteq Processes
    BY DEF Inductive, TypeOK, Processes
  <1>q. QED BY <1>1, DatedStays DEF rows

\* A decision, or the proposal of a task, that redrafts nothing.
LEMMA DatedDecides ==
  ASSUME Inductive, Dated, NEW p \in Processes, Ends(p), UNCHANGED <<version, values>>,
         \/ \E t, s : tasks' = Marked(t, s)
         \/ \E x \in Tasks : /\ tasks' = Append(tasks, x) /\ x.bound <= version
                             /\ x.bound = version => x.reviewed = values
  PROVE  Dated'
  <1>1. version \in Nat /\ Proposers \subseteq Processes /\ Deciders \subseteq Processes
    BY DEF Inductive, TypeOK, Processes
  <1>2. \A t \in DOMAIN tasks' :
            \/ /\ t \in DOMAIN tasks /\ tasks'[t].kind = tasks[t].kind
               /\ tasks'[t].bound = tasks[t].bound /\ tasks'[t].reviewed = tasks[t].reviewed
            \/ /\ tasks'[t].bound <= version
               /\ tasks'[t].bound = version => tasks'[t].reviewed = values
    <2>1. CASE \E t, s : tasks' = Marked(t, s)
      BY <2>1, DecidingKeeps
    <2>2. CASE \E x \in Tasks : /\ tasks' = Append(tasks, x) /\ x.bound <= version
                                /\ x.bound = version => x.reviewed = values
      <3>1. PICK x \in Tasks : /\ tasks' = Append(tasks, x) /\ x.bound <= version
                               /\ x.bound = version => x.reviewed = values
        BY <2>2
      <3>2. tasks \in Seq(Tasks)
        BY DEF Inductive, TypeOK
      <3>3. \A t \in DOMAIN tasks' : (t \in DOMAIN tasks /\ tasks'[t] = tasks[t]) \/ tasks'[t] = x
        BY <3>1, <3>2, AppendEffect
      <3>q. QED BY <3>1, <3>3, Zenon
    <2>q. QED BY <2>1, <2>2
  <1>3. \A q \in Proposers : pc'[q] = "read" => pc[q] = "read" /\ seen'[q] = seen[q]
    BY <1>1, EndsAlone
  <1>4. \A d \in Deciders : pc'[d] = "entity" => pc[d] = "entity" /\ seen'[d] = seen[d]
    BY <1>1, EndsAlone
  <1>q. QED BY <1>1, <1>2, <1>3, <1>4, DatedStays

\* A writer's steps.
LEMMA DatedWriter ==
  ASSUME Inductive, Dated, ReadsStayCurrent, NEW w \in Writers, ReadEntity(w) \/ Writer(w)
  PROVE  Dated'
  <1>0. w \in Processes /\ w \notin Proposers /\ w \notin Deciders
    BY DraftingAssumption DEF Processes
  <1>1. CASE ReadEntity(w) \/ FlushEntity(w) \/ DraftMaster(w)
    <2>1. UNCHANGED rows /\ \A q \in Processes : q # w => pc'[q] = pc[q] /\ seen'[q] = seen[q]
      BY <1>1 DEF ReadEntity, FlushEntity, DraftMaster, Inductive, TypeOK
    <2>q. QED BY <1>0, <2>1, DatedMoves
  <1>2. CASE CommitDraft(w)
    <2> DEFINE x == Approval(number[w], seen[w] + 1, MasterValues(w))
               f == Closed(task[w])
    <2>1. version' = version + 1 /\ owner = w /\ Ends(w) /\ tasks' = Append(f, x)
      BY <1>2 DEF CommitDraft, ReadsStayCurrent, Inductive, Locks
    <2>2. x \in Tasks /\ x.kind = "approval"
      <3>1. number[w] \in Nat /\ seen[w] + 1 \in Nat
        BY <1>0 DEF Inductive, TypeOK
      <3>2. MasterValues(w) \in Revisions
        BY DEF MasterValues, Revisions, Inductive, TypeOK
      <3>q. QED BY <3>1, <3>2, NewTasks
    <2>3. /\ f \in Seq(Tasks) /\ DOMAIN f = DOMAIN tasks
          /\ \A i \in DOMAIN tasks : f[i].kind = tasks[i].kind /\ f[i].bound = tasks[i].bound
      BY MarkedEffect, DecidingKeeps DEF Closed, TaskStatuses, Inductive
    <2> HIDE DEF x, f
    <2>q. QED BY <1>0, <2>1, <2>2, <2>3, DatedRedraft
  <1>q. QED BY <1>1, <1>2 DEF Writer

\* A proposer's steps: it reads the version before the members.
LEMMA DatedProposer ==
  ASSUME Inductive, Dated, NEW q \in Proposers, ReadProposal(q) \/ Propose(q)
  PROVE  Dated'
  <1>0. q \in Processes /\ q \notin Deciders
    BY DraftingAssumption DEF Processes
  <1>1. CASE ReadProposal(q)
    <2>1. /\ UNCHANGED rows /\ seen'[q] = version
          /\ \A p \in Processes : p # q => pc'[p] = pc[p] /\ seen'[p] = seen[p]
      BY <1>0, <1>1 DEF ReadProposal, Inductive, TypeOK
    <2>q. QED BY <1>0, <2>1, DatedMoves
  <1>2. CASE Propose(q)
    <2> DEFINE x == Proposal(seen[q], values)
    <2>1. x \in Tasks /\ x.bound = seen[q] /\ x.reviewed = values
      BY <1>0, NewTasks DEF Inductive, TypeOK, Proposal
    <2>2. seen[q] <= version
      BY <1>2 DEF Propose, Dated
    <2>3. tasks' = Append(tasks, x) /\ Ends(q) /\ UNCHANGED <<version, values>>
      BY <1>2 DEF Propose
    <2> HIDE DEF x
    <2>q. QED BY <1>0, <2>1, <2>2, <2>3, DatedDecides
  <1>q. QED BY <1>1, <1>2

\* An applied proposal redrafts the entity it has locked.
LEMMA DatedApply ==
  ASSUME Inductive, Dated, NEW d \in Deciders, Apply(d)
  PROVE  Dated'
  <1>0. d \in Processes
    BY DEF Processes
  <1>1. PICK n \in Numbers :
           tasks' = Append(Applied(task[d]), Approval(n + 1, seen[d] + 1, values))
    BY DEF Apply
  <1> DEFINE x == Approval(n + 1, seen[d] + 1, values)
             f == Applied(task[d])
  <1>2. tasks' = Append(f, x) /\ Ends(d) /\ owner = d /\ version' = version + 1
    BY <1>1 DEF Apply, Dated, Inductive, Locks
  <1>3. x \in Tasks /\ x.kind = "approval"
    <2>1. n + 1 \in Nat /\ seen[d] + 1 \in Nat /\ values \in Revisions
      BY <1>0 DEF Inductive, TypeOK, Numbers
    <2>q. QED BY <2>1, NewTasks
  <1>4. /\ f \in Seq(Tasks) /\ DOMAIN f = DOMAIN tasks
        /\ \A i \in DOMAIN tasks : f[i].kind = tasks[i].kind /\ f[i].bound = tasks[i].bound
    BY AppliedEffect, DecidingKeeps DEF Inductive
  <1> HIDE DEF x, f
  <1>q. QED BY <1>0, <1>2, <1>3, <1>4, DatedRedraft

\* A decider's steps.
LEMMA DatedDecider ==
  ASSUME Inductive, Dated, NEW d \in Deciders,
         (\E t \in DOMAIN tasks : LockTask(d, t)) \/ Decider(d)
  PROVE  Dated'
  <1>0. d \in Processes /\ d \notin Proposers
    BY DraftingAssumption DEF Processes
  <1>1. CASE \E t \in DOMAIN tasks : LockTask(d, t)
    <2>1. /\ UNCHANGED rows /\ pc'[d] = "task"
          /\ \A p \in Processes : p # d => pc'[p] = pc[p] /\ seen'[p] = seen[p]
      BY <1>0, <1>1 DEF LockTask, Inductive, TypeOK
    <2>q. QED BY <1>0, <2>1, DatedMoves
  <1>2. CASE LockEntity(d)
    <2>1. /\ UNCHANGED rows /\ seen'[d] = version
          /\ \A p \in Processes : p # d => pc'[p] = pc[p] /\ seen'[p] = seen[p]
      BY <1>0, <1>2 DEF LockEntity, Inductive, TypeOK
    <2>q. QED BY <1>0, <2>1, DatedMoves
  <1>3. CASE Stale(d) \/ Reject(d) \/ Approve(d)
    <2>1. Ends(d) /\ UNCHANGED <<version, values>> /\ \E t, s : tasks' = Marked(t, s)
      BY <1>3 DEF Stale, Reject, Approve
    <2>q. QED BY <1>0, <2>1, DatedDecides
  <1>4. CASE Refuse(d)
    BY <1>0, <1>4, EndsAlone, DatedMoves DEF Refuse
  <1>q. QED BY <1>1, <1>2, <1>3, <1>4, DatedApply DEF Decider

\* Without overlapping redrafts a proposal is applied only to the members that
\* were reviewed: the version it is bound to (decide_task) stands for them.
THEOREM AppliedIsAsReviewed == Spec /\ []ReadsStayCurrent => AppliedAsReviewed
  <1>1. Init => Dated
    BY DraftingAssumption DEF Init, Dated, Processes, Approval
  <1>2. Dated /\ UNCHANGED vars => Dated'
    BY DEF vars, rows, Dated
  <1>3. Inductive /\ Dated /\ ReadsStayCurrent /\ Next => Dated'
    <2> SUFFICES ASSUME Inductive, Dated, ReadsStayCurrent, Next PROVE Dated'
      OBVIOUS
    <2>1. CASE \E p \in Processes : Abort(p)
      <3>1. PICK p \in Processes : Abort(p)
        BY <2>1
      <3>q. QED BY <3>1, EndsAlone, DatedMoves DEF Abort
    <2>q. QED BY <2>1, DatedWriter, DatedProposer, DatedDecider DEF Next
  <1>4. Inductive /\ Dated /\ [Next]_vars =>
          [\A t \in DOMAIN tasks :
              (tasks[t].kind = "proposal" /\ tasks[t].status = "open"
                 /\ tasks'[t].status = "approved") => tasks[t].reviewed = values]_vars
    <2> SUFFICES ASSUME Inductive, Dated, Next, NEW t \in DOMAIN tasks,
                        tasks[t].kind = "proposal", tasks[t].status = "open",
                        tasks'[t].status = "approved"
                 PROVE  tasks[t].reviewed = values
      OBVIOUS
    <2>0. /\ tasks \in Seq(Tasks) /\ TypeOK /\ {"stale", "rejected"} \subseteq TaskStatuses
          /\ "stale" # "approved" /\ "rejected" # "approved" /\ "open" # "approved"
      BY DEF Inductive, TypeOK, TaskStatuses
    <2>1. \A u : \A s \in {"stale", "rejected"} : Marked(u, s)[t].status # "approved"
      BY <2>0 DEF Marked, WithStatus
    <2>2. ASSUME NEW w \in Writers, ReadEntity(w) \/ Writer(w) PROVE FALSE
      <3>1. CASE CommitDraft(w)
        <4> DEFINE x == Approval(number[w], seen[w] + 1, MasterValues(w))
                   f == Closed(task[w])
        <4>1. tasks' = Append(f, x)
          BY <3>1 DEF CommitDraft
        <4>2. f \in Seq(Tasks) /\ DOMAIN f = DOMAIN tasks /\ f[t].status # "approved"
          BY <2>0, <2>1, MarkedEffect DEF Closed
        <4> HIDE DEF x, f
        <4>3. tasks'[t] = f[t]
          BY <4>1, <4>2
        <4>q. QED BY <4>2, <4>3
      <3>2. CASE ReadEntity(w) \/ FlushEntity(w) \/ DraftMaster(w)
        BY <2>0, <3>2 DEF ReadEntity, FlushEntity, DraftMaster, rows
      <3>q. QED BY <2>2, <3>1, <3>2 DEF Writer
    <2>3. ASSUME NEW q \in Proposers, ReadProposal(q) \/ Propose(q) PROVE FALSE
      <3>1. UNCHANGED rows \/ \E x : tasks' = Append(tasks, x)
        BY <2>3 DEF ReadProposal, Propose
      <3>2. tasks'[t] = tasks[t]
        BY <2>0, <3>1 DEF rows
      <3>q. QED BY <2>0, <3>2
    <2>4. ASSUME NEW d \in Deciders, Approve(d) PROVE FALSE
      <3>1. tasks[task[d]].kind = "approval" /\ tasks' = Marked(task[d], "approved")
        BY <2>4 DEF Approve
      <3>2. t # task[d]
        BY <3>1
      <3>3. tasks'[t] = tasks[t]
        BY <3>1, <3>2 DEF Marked
      <3>q. QED BY <2>0, <3>3
    <2>5. ASSUME NEW d \in Deciders, Apply(d) PROVE tasks[t].reviewed = values
      <3>1. tasks[task[d]].bound = version
        BY <2>5 DEF Apply, Bound, Dated
      <3>2. PICK x : tasks' = Append(Applied(task[d]), x)
        BY <2>5 DEF Apply
      <3>3. tasks'[t] = Applied(task[d])[t]
        <4>1. Applied(task[d]) \in Seq(Tasks) /\ t \in DOMAIN Applied(task[d])
          BY <2>0, AppliedEffect
        <4> DEFINE f == Applied(task[d])
        <4> HIDE DEF f
        <4>2. f \in Seq(Tasks) /\ t \in DOMAIN f => Append(f, x)[t] = f[t]
          OBVIOUS
        <4>q. QED BY <3>2, <4>1, <4>2 DEF f
      <3>4. t = task[d]
        BY <2>0, <3>3 DEF Applied, WithStatus
      <3>q. QED BY <3>1, <3>4 DEF Dated
    <2>6. ASSUME NEW d \in Deciders, Stale(d) \/ Reject(d) PROVE FALSE
      BY <2>1, <2>6 DEF Stale, Reject
    <2>7. UNCHANGED rows => FALSE
      BY <2>0 DEF rows
    <2>8. ASSUME NEW d \in Deciders,
                 (\E u \in DOMAIN tasks : LockTask(d, u)) \/ LockEntity(d) \/ Refuse(d)
          PROVE  FALSE
      BY <2>7, <2>8 DEF LockTask, LockEntity, Refuse
    <2>9. (\E p \in Processes : Abort(p)) => FALSE
      BY <2>7 DEF Abort
    <2>q. QED BY <2>2, <2>3, <2>4, <2>5, <2>6, <2>8, <2>9 DEF Next, Decider
  <1>q. QED BY InductiveInvariant, <1>1, <1>2, <1>3, <1>4, PTL DEF Spec, AppliedAsReviewed

-----------------------------------------------------------------------------
(* The audit trail.                                                        *)

\* e rests on an older entry of S in its workspace, or starts a trail.
RestsOn(e, S) ==
    \/ e.previous = <<>>
    \/ \E f \in S : f.ws = e.ws /\ f.hash = e.previous /\ f.at < e.at

\* A transaction's rows are of its workspace and rest on committed entries and
\* on each other; its pending entry will, since any insert is later.
SoundTx(t, E, c) ==
    /\ \A e \in t.rows : e.ws = t.ws /\ e.at <= c /\ RestsOn(e, E \cup t.rows)
    /\ Len(t.pending) \in {0, 1}
    /\ \A i \in DOMAIN t.pending :
          \/ t.pending[i].previous = <<>>
          \/ \E f \in E \cup t.rows :
                f.ws = t.ws /\ f.hash = t.pending[i].previous /\ f.at <= c
    /\ t # NoTx => t.ws \in Workspaces

Transactions == \A w \in Appenders : SoundTx(tx[w], entries, clock)

Past == \A e \in entries : e.at <= clock

AuditInductive == AuditTypeOK /\ Past /\ Anchored /\ Transactions

-----------------------------------------------------------------------------
\* The elements of a sequence.
LEMMA SeqElements ==
  ASSUME NEW S, NEW s \in Seq(S)
  PROVE  \A i \in DOMAIN s : s[i] \in S
  OBVIOUS

\* What the flush of w's transaction makes of its rows.
LEMMA FlushedRests ==
  ASSUME AuditInductive, NEW w \in Appenders, tx[w] # NoTx
  PROVE  /\ Flushed(w) \subseteq Entries
         /\ tx[w].rows \subseteq Flushed(w)
         /\ clock + Len(tx[w].pending) \in Nat /\ clock <= clock + Len(tx[w].pending)
         /\ \A e \in Flushed(w) :
               /\ e.ws = tx[w].ws /\ e.at <= clock + Len(tx[w].pending)
               /\ RestsOn(e, entries \cup Flushed(w))
  <1> DEFINE p == tx[w].pending
             x == [ws |-> tx[w].ws, previous |-> p[1].previous, hash |-> p[1].hash,
                   at |-> clock + 1]
  <1>1. /\ p \in Seq([previous : Hashes, hash : Hashes]) /\ Len(p) \in {0, 1}
        /\ tx[w].ws \in Workspaces /\ tx[w].rows \subseteq Entries /\ clock \in Nat
    BY DEF AuditInductive, AuditTypeOK, Transactions, SoundTx
  <1>2. \A e \in tx[w].rows :
           /\ e.ws = tx[w].ws /\ e.at <= clock /\ e.at \in Nat
           /\ RestsOn(e, entries \cup tx[w].rows)
    BY <1>1 DEF AuditInductive, Transactions, SoundTx, Entries
  <1>3. CASE Len(p) = 0
    <2>1. DOMAIN p = {}
      BY <1>1, <1>3
    <2>2. Flushed(w) = tx[w].rows
      BY <2>1 DEF Flushed
    <2>3. /\ clock + Len(tx[w].pending) = clock /\ clock + Len(tx[w].pending) \in Nat
          /\ clock <= clock + Len(tx[w].pending)
      BY <1>1, <1>3
    <2>4. Flushed(w) \subseteq Entries /\ tx[w].rows \subseteq Flushed(w)
      BY <1>1, <2>2, Zenon
    <2>5. \A e \in Flushed(w) :
             /\ e.ws = tx[w].ws /\ e.at <= clock + Len(tx[w].pending)
             /\ RestsOn(e, entries \cup Flushed(w))
      BY <1>2, <2>2, <2>3, Zenon
    <2>q. QED BY <2>3, <2>4, <2>5, Zenon
  <1>4. CASE Len(p) = 1
    <2>1. DOMAIN p = {1} /\ p[1] \in [previous : Hashes, hash : Hashes]
      <3>1. DOMAIN p = 1 .. 1 /\ 1 \in 1 .. 1
        BY <1>1, <1>4
      <3>2. 1 .. 1 = {1}
        OBVIOUS
      <3>3. \A i \in DOMAIN p : p[i] \in [previous : Hashes, hash : Hashes]
        BY <1>1, SeqElements, Zenon
      <3>q. QED BY <3>1, <3>2, <3>3, Zenon
    <2>2. Flushed(w) = tx[w].rows \cup {x}
      BY <2>1 DEF Flushed
    <2>3. x \in Entries
      BY <1>1, <2>1 DEF Entries
    <2>4. RestsOn(x, entries \cup tx[w].rows)
      <3>1. CASE p[1].previous = <<>>
        BY <3>1 DEF RestsOn
      <3>2. CASE \E f \in entries \cup tx[w].rows :
                    f.ws = tx[w].ws /\ f.hash = p[1].previous /\ f.at <= clock
        <4>1. PICK f \in entries \cup tx[w].rows :
                    f.ws = tx[w].ws /\ f.hash = p[1].previous /\ f.at <= clock
          BY <3>2
        <4>2. f.at \in Nat
          BY <1>1 DEF AuditInductive, AuditTypeOK, Entries
        <4>3. f.at < clock + 1
          BY <1>1, <4>1, <4>2
        <4>q. QED BY <4>1, <4>3 DEF RestsOn
      <3>q. QED BY <2>1, <3>1, <3>2 DEF AuditInductive, Transactions, SoundTx
    <2>5. \A e, S, T : RestsOn(e, S) /\ S \subseteq T => RestsOn(e, T)
      BY DEF RestsOn
    <2>6. \A e \in Flushed(w) : RestsOn(e, entries \cup Flushed(w))
      BY <1>2, <2>2, <2>4, <2>5
    <2>7. x.ws = tx[w].ws /\ x.at = clock + 1
      OBVIOUS
    <2> HIDE DEF x
    <2>8. \A e \in Flushed(w) : e.ws = tx[w].ws /\ e.at <= clock + 1
      BY <1>1, <1>2, <2>2, <2>7
    <2>9. /\ clock + Len(tx[w].pending) = clock + 1 /\ clock + Len(tx[w].pending) \in Nat
          /\ clock <= clock + Len(tx[w].pending)
      BY <1>1, <1>4
    <2>10. Flushed(w) \subseteq Entries /\ tx[w].rows \subseteq Flushed(w)
      BY <1>1, <2>2, <2>3, Zenon
    <2>q. QED BY <2>6, <2>8, <2>9, <2>10, Zenon
  <1>q. QED BY <1>1, <1>3, <1>4

\* A transaction that is not concerned stays well-founded when others commit.
LEMMA OthersStay ==
  ASSUME AuditInductive, NEW w \in Appenders, entries \subseteq entries',
         clock' \in Nat, clock <= clock'
  PROVE  SoundTx(tx[w], entries', clock')
  <1>1. \A e \in entries \cup tx[w].rows : e.at \in Nat
    BY DEF AuditInductive, AuditTypeOK, Entries
  <1>2. clock \in Nat
    BY DEF AuditInductive, AuditTypeOK
  <1>3. \A e \in entries \cup tx[w].rows : e.at <= clock => e.at <= clock'
    BY <1>1, <1>2
  <1>4. SoundTx(tx[w], entries, clock)
    BY DEF AuditInductive, Transactions
  <1>q. QED BY <1>3, <1>4 DEF SoundTx, RestsOn

\* A transaction without entries is sound.
LEMMA EmptySound ==
  ASSUME NEW t, t.rows = {}, t.pending = <<>>, t # NoTx => t.ws \in Workspaces, NEW E, NEW c
  PROVE  SoundTx(t, E, c)
  <1>1. Len(t.pending) = 0 /\ DOMAIN t.pending = {}
    OBVIOUS
  <1>q. QED BY <1>1 DEF SoundTx

\* An ended transaction has nothing.
LEMMA NoTxHolds ==
  /\ NoTx.rows = {} /\ NoTx.pending = <<>>
  /\ NoTx \in [ws : Workspaces \cup {"none"}, rows : SUBSET Entries,
                pending : Seq([previous : Hashes, hash : Hashes])]
  BY DEF NoTx

\* A new entry carries the hash of the latest one the transaction sees.
LEMMA AuditKeeps ==
  ASSUME AuditInductive, NEW w \in Appenders, NEW a \in Actions, Audit(w, a)
  PROVE  AuditInductive'
  <1>1. PICK previous \in Priors(Visible(w)) :
          tx' = [tx EXCEPT ![w] =
                    [ws |-> tx[w].ws, rows |-> Flushed(w),
                     pending |-> <<[previous |-> previous,
                                    hash |-> Hash(tx[w].ws, a, previous)]>>]]
    BY DEF Audit
  <1>2. /\ tx[w] # NoTx /\ clock' = clock + Len(tx[w].pending) /\ entries' = entries
        /\ tx[w].ws \in Workspaces
    BY DEF Audit, AuditInductive, Transactions, SoundTx
  <1> DEFINE x == [previous |-> previous, hash |-> Hash(tx[w].ws, a, previous)]
  <1>3. \/ previous = <<>>
        \/ \E f \in entries \cup Flushed(w) :
              f.ws = tx[w].ws /\ f.hash = previous /\ f.at <= clock'
    <2>1. CASE Visible(w) = {}
      BY <2>1 DEF Priors
    <2>2. CASE Visible(w) # {}
      <3>1. PICK f \in Visible(w) : f.hash = previous
        BY <2>2 DEF Priors, LatestOf
      <3>2. f \in entries \cup Flushed(w) /\ f.ws = tx[w].ws
        BY <3>1 DEF Visible
      <3>3. f.at <= clock'
        <4>1. CASE f \in Flushed(w)
          BY <1>2, <4>1, FlushedRests
        <4>2. CASE f \in entries
          BY <1>2, <4>2, FlushedRests DEF AuditInductive, AuditTypeOK, Past, Entries
        <4>q. QED BY <3>2, <4>1, <4>2
      <3>q. QED BY <3>1, <3>2, <3>3
    <2>q. QED BY <2>1, <2>2
  <1>4. previous \in Hashes
    <2>1. CASE previous = <<>>
      BY <2>1 DEF Hashes
    <2>2. CASE \E f \in entries \cup Flushed(w) : f.hash = previous
      <3>1. PICK f \in entries \cup Flushed(w) : f.hash = previous
        BY <2>2
      <3>2. Flushed(w) \subseteq Entries /\ entries \subseteq Entries
        BY <1>2, FlushedRests DEF AuditInductive, AuditTypeOK
      <3>q. QED BY <3>1, <3>2 DEF Entries
    <2>q. QED BY <1>3, <2>1, <2>2
  <1>5. x \in [previous : Hashes, hash : Hashes] /\ x.previous = previous
    BY <1>2, <1>4 DEF Hash, Hashes
  <1> HIDE DEF x
  <1>6. /\ tx'[w] = [ws |-> tx[w].ws, rows |-> Flushed(w), pending |-> <<x>>]
        /\ \A v \in Appenders : v # w => tx'[v] = tx[v]
    BY <1>1 DEF AuditInductive, AuditTypeOK, x
  <1>7. AuditTypeOK'
    <2>1. <<x>> \in Seq([previous : Hashes, hash : Hashes])
      BY <1>5
    <2>2. tx'[w] \in [ws : Workspaces \cup {"none"}, rows : SUBSET Entries,
                      pending : Seq([previous : Hashes, hash : Hashes])]
      <3>1. Flushed(w) \in SUBSET Entries
        BY <1>2, FlushedRests
      <3>q. QED BY <1>2, <1>6, <2>1, <3>1
    <2>3. tx' = [tx EXCEPT ![w] = tx'[w]]
      BY <1>1 DEF AuditInductive, AuditTypeOK
    <2>q. QED BY <1>2, <2>2, <2>3, FlushedRests DEF AuditInductive, AuditTypeOK
  <1>8. Past' /\ Anchored'
    BY <1>2, FlushedRests DEF AuditInductive, AuditTypeOK, Past, Anchored, Entries
  <1>9. Transactions'
    <2>1. clock' \in Nat /\ clock <= clock' /\ entries \subseteq entries'
      BY <1>2, FlushedRests
    <2>2. /\ tx'[w].ws = tx[w].ws /\ tx'[w].rows = Flushed(w) /\ tx'[w].pending = <<x>>
          /\ Len(tx'[w].pending) = 1 /\ DOMAIN tx'[w].pending = {1}
          /\ tx'[w].pending[1].previous = previous
      BY <1>5, <1>6
    <2>3. \A e \in Flushed(w) :
             e.ws = tx[w].ws /\ e.at <= clock' /\ RestsOn(e, entries \cup Flushed(w))
      BY <1>2, FlushedRests
    <2>4. SoundTx(tx'[w], entries', clock')
      BY <1>2, <1>3, <2>2, <2>3 DEF SoundTx
    <2>5. \A v \in Appenders : v # w => SoundTx(tx'[v], entries', clock')
      BY <1>6, <2>1, OthersStay
    <2>q. QED BY <2>4, <2>5 DEF Transactions
  <1>q. QED BY <1>7, <1>8, <1>9 DEF AuditInductive

\* A transaction's entries are committed together.
LEMMA AuditCommitKeeps ==
  ASSUME AuditInductive, NEW w \in Appenders, Commit(w)
  PROVE  AuditInductive'
  <1>1. /\ tx[w] # NoTx /\ entries' = entries \cup Flushed(w)
        /\ clock' = clock + Len(tx[w].pending) /\ tx' = [tx EXCEPT ![w] = NoTx]
    BY DEF Commit
  <1>2. tx'[w] = NoTx /\ \A v \in Appenders : v # w => tx'[v] = tx[v]
    BY <1>1 DEF AuditInductive, AuditTypeOK
  <1>3. clock' \in Nat /\ clock <= clock' /\ entries \subseteq entries'
    BY <1>1, FlushedRests
  <1>4. AuditTypeOK'
    BY <1>1, <1>2, <1>3, FlushedRests, NoTxHolds DEF AuditInductive, AuditTypeOK
  <1>5. Past'
    <2>1. \A e \in Flushed(w) : e.at <= clock'
      BY <1>1, FlushedRests
    <2>2. \A e \in entries : e.at <= clock'
      BY <1>3 DEF AuditInductive, AuditTypeOK, Past, Entries
    <2>q. QED BY <1>1, <2>1, <2>2 DEF Past
  <1>6. Anchored'
    <2>1. \A e \in entries : RestsOn(e, entries')
      BY <1>3 DEF AuditInductive, Anchored, RestsOn
    <2>2. \A e \in Flushed(w) : RestsOn(e, entries')
      BY <1>1, FlushedRests
    <2>q. QED BY <1>1, <2>1, <2>2 DEF Anchored, RestsOn
  <1>7. Transactions'
    <2>1. SoundTx(tx'[w], entries', clock')
      BY <1>2, NoTxHolds, EmptySound
    <2>2. \A v \in Appenders : v # w => SoundTx(tx'[v], entries', clock')
      BY <1>2, <1>3, OthersStay
    <2>q. QED BY <2>1, <2>2 DEF Transactions
  <1>q. QED BY <1>4, <1>5, <1>6, <1>7 DEF AuditInductive

\* A transaction that begins, or is rolled back, has no entries.
LEMMA AuditBeginKeeps ==
  ASSUME AuditInductive, NEW w \in Appenders, UNCHANGED <<entries, clock>>, NEW t,
         tx' = [tx EXCEPT ![w] = t], t.rows = {}, t.pending = <<>>,
         t \in [ws : Workspaces \cup {"none"}, rows : SUBSET Entries,
                pending : Seq([previous : Hashes, hash : Hashes])],
         t # NoTx => t.ws \in Workspaces
  PROVE  AuditInductive'
  <1>1. tx'[w] = t /\ \A v \in Appenders : v # w => tx'[v] = tx[v]
    BY DEF AuditInductive, AuditTypeOK
  <1>2. AuditTypeOK' /\ Past' /\ Anchored'
    BY DEF AuditInductive, AuditTypeOK, Past, Anchored
  <1>3. clock' \in Nat /\ clock <= clock'
    BY DEF AuditInductive, AuditTypeOK
  <1>4. Transactions'
    <2>1. SoundTx(tx'[w], entries', clock')
      BY <1>1, EmptySound
    <2>2. \A v \in Appenders : v # w => SoundTx(tx'[v], entries', clock')
      BY <1>1, <1>3, OthersStay
    <2>q. QED BY <2>1, <2>2 DEF Transactions
  <1>q. QED BY <1>2, <1>4 DEF AuditInductive

\* The invariant is inductive.
THEOREM AuditInductiveInvariant == AuditSpec => []AuditInductive
  <1>1. AuditInit => AuditInductive
    <2> SUFFICES ASSUME AuditInit PROVE AuditInductive
      OBVIOUS
    <2>1. AuditTypeOK /\ Past /\ Anchored
      BY NoTxHolds DEF AuditInit, AuditTypeOK, Past, Anchored
    <2>2. Transactions
      BY NoTxHolds, EmptySound DEF AuditInit, Transactions
    <2>q. QED BY <2>1, <2>2 DEF AuditInductive
  <1>2. AuditInductive /\ UNCHANGED auditVars => AuditInductive'
    <2> SUFFICES ASSUME AuditInductive, UNCHANGED auditVars PROVE AuditInductive'
      OBVIOUS
    <2>1. entries' = entries /\ tx' = tx /\ clock' = clock
      BY DEF auditVars
    <2>2. AuditTypeOK' /\ Past' /\ Anchored'
      BY <2>1 DEF AuditInductive, AuditTypeOK, Past, Anchored
    <2>3. Transactions'
      BY <2>1 DEF AuditInductive, Transactions
    <2>q. QED BY <2>2, <2>3 DEF AuditInductive
  <1>3. AuditInductive /\ AuditNext => AuditInductive'
    <2> SUFFICES ASSUME AuditInductive, NEW w \in Appenders,
                        \/ \E ws \in Workspaces : Begin(w, ws)
                        \/ \E a \in Actions : Audit(w, a)
                        \/ Commit(w)
                        \/ Rollback(w)
                 PROVE  AuditInductive'
      BY DEF AuditNext
    <2>1. ASSUME NEW ws \in Workspaces, Begin(w, ws) PROVE AuditInductive'
      <3> DEFINE t == [ws |-> ws, rows |-> {}, pending |-> <<>>]
      <3>1. /\ t.rows = {} /\ t.pending = <<>> /\ t.ws \in Workspaces
            /\ t \in [ws : Workspaces \cup {"none"}, rows : SUBSET Entries,
                      pending : Seq([previous : Hashes, hash : Hashes])]
        OBVIOUS
      <3>2. tx' = [tx EXCEPT ![w] = t] /\ UNCHANGED <<entries, clock>>
        BY <2>1 DEF Begin
      <3> HIDE DEF t
      <3>q. QED BY <3>1, <3>2, AuditBeginKeeps
    <2>2. CASE Rollback(w)
      BY <2>2, NoTxHolds, AuditBeginKeeps DEF Rollback
    <2>q. QED BY <2>1, <2>2, AuditKeeps, AuditCommitKeeps
  <1>q. QED BY <1>1, <1>2, <1>3, PTL DEF AuditSpec

\* Audit rows and open transactions keep their types.
THEOREM AuditTypeCorrect == AuditSpec => []AuditTypeOK
  BY AuditInductiveInvariant, PTL DEF AuditInductive

\* Whatever audit() calls interleave or are rolled back, every committed entry
\* rests on an older committed entry of its workspace or starts a trail.
THEOREM TrailIsAnchored == AuditSpec => []Anchored
  BY AuditInductiveInvariant, PTL DEF AuditInductive

-----------------------------------------------------------------------------
(* The trail of writers that take turns.                                   *)

\* No two transactions of a workspace append at a time.  audit() takes no lock
\* to this end: where it fails, the trail forks.
TakingTurns ==
    \A v, w \in Appenders :
        tx[v] # NoTx /\ tx[w] # NoTx /\ tx[v].ws = tx[w].ws => v = w

\* h is the hash of the latest entry of S, or nothing if there is none.
LastIs(h, S) ==
    IF S = {} THEN h = <<>>
    ELSE \E f \in S : f.hash = h /\ \A g \in S : g.at <= f.at

\* e carries the hash of the entry of S right before it in its workspace.
Follows(e, S) == LastIs(e.previous, {f \in S : f.ws = e.ws /\ f.at < e.at})

\* What w sees of its workspace is one chain, and its pending entry goes on
\* from the last of it.
Chained(w) ==
    /\ \A e \in entries \cup tx[w].rows :
          e.ws = tx[w].ws => Follows(e, entries \cup tx[w].rows)
    /\ \A i \in DOMAIN tx[w].pending :
          LastIs(tx[w].pending[i].previous,
               {f \in entries \cup tx[w].rows : f.ws = tx[w].ws})

AuditChains ==
    /\ \A e \in entries : Follows(e, entries)
    /\ \A w \in Appenders : tx[w] # NoTx => Chained(w)

\* A flush makes the pending entry the last of the chain.
LEMMA FlushedFollows ==
  ASSUME AuditInductive, NEW w \in Appenders, tx[w] # NoTx, Chained(w)
  PROVE  \A e \in entries \cup Flushed(w) :
            e.ws = tx[w].ws => Follows(e, entries \cup Flushed(w))
  <1> DEFINE p == tx[w].pending
             x == [ws |-> tx[w].ws, previous |-> p[1].previous, hash |-> p[1].hash,
                   at |-> clock + 1]
             S == entries \cup tx[w].rows
  <1>1. /\ p \in Seq([previous : Hashes, hash : Hashes]) /\ Len(p) \in {0, 1}
        /\ clock \in Nat
    BY DEF AuditInductive, AuditTypeOK, Transactions, SoundTx
  <1>2. \A f \in S : f.at \in Nat /\ f.at <= clock
    <2>1. tx[w].rows \subseteq Entries /\ entries \subseteq Entries
      BY DEF AuditInductive, AuditTypeOK
    <2>2. \A f \in tx[w].rows : f.at <= clock
      BY DEF AuditInductive, Transactions, SoundTx
    <2>3. \A f \in entries : f.at <= clock
      BY DEF AuditInductive, Past
    <2>q. QED BY <2>1, <2>2, <2>3 DEF Entries
  <1>3. CASE Len(p) = 0
    <2>1. DOMAIN p = {}
      BY <1>1, <1>3
    <2>2. Flushed(w) = tx[w].rows
      BY <2>1 DEF Flushed
    <2>q. QED BY <2>2 DEF Chained
  <1>4. CASE Len(p) = 1
    <2>1. DOMAIN p = {1}
      <3>1. DOMAIN p = 1 .. 1
        BY <1>1, <1>4
      <3>2. 1 .. 1 = {1}
        OBVIOUS
      <3>q. QED BY <3>1, <3>2, Zenon
    <2>2. entries \cup Flushed(w) = S \cup {x}
      BY <2>1 DEF Flushed
    <2>3. x.ws = tx[w].ws /\ x.at = clock + 1 /\ x.previous = p[1].previous
      OBVIOUS
    <2>4. LastIs(p[1].previous, {f \in S : f.ws = tx[w].ws})
      BY <2>1 DEF Chained
    <2>5. \A e \in S : e.ws = tx[w].ws => Follows(e, S)
      BY DEF Chained
    <2> HIDE DEF x, S, p
    <2>6. Follows(x, S \cup {x})
      <3>1. \A f \in S : f.at < clock + 1
        BY <1>1, <1>2
      <3>2. ~(clock + 1 < clock + 1)
        BY <1>1
      <3>3. {f \in S \cup {x} : f.ws = x.ws /\ f.at < x.at} = {f \in S : f.ws = tx[w].ws}
        BY <2>3, <3>1, <3>2
      <3>q. QED BY <2>3, <2>4, <3>3, Zenon DEF Follows
    <2>7. ASSUME NEW e \in S, e.ws = tx[w].ws PROVE Follows(e, S \cup {x})
      <3>1. ~(x.at < e.at)
        BY <1>1, <1>2, <2>3
      <3>2. {f \in S \cup {x} : f.ws = e.ws /\ f.at < e.at}
              = {f \in S : f.ws = e.ws /\ f.at < e.at}
        BY <3>1
      <3>q. QED BY <2>5, <2>7, <3>2, Zenon DEF Follows
    <2>q. QED BY <2>2, <2>6, <2>7
  <1>q. QED BY <1>1, <1>3, <1>4

\* What is added to other workspaces does not matter.
LEMMA FollowsElsewhere ==
  ASSUME NEW e, NEW S, NEW T, \A f \in T : f.ws = e.ws => f \in S, S \subseteq T
  PROVE  Follows(e, S) <=> Follows(e, T)
  <1>1. {f \in S : f.ws = e.ws /\ f.at < e.at} = {f \in T : f.ws = e.ws /\ f.at < e.at}
    OBVIOUS
  <1>q. QED BY <1>1 DEF Follows

\* A commit to another workspace leaves w's chain as it is.
LEMMA ChainedElsewhere ==
  ASSUME NEW w \in Appenders, Chained(w), tx'[w] = tx[w], entries \subseteq entries',
         \A f \in entries' : f.ws = tx[w].ws => f \in entries
  PROVE  Chained(w)'
  <1> DEFINE S == entries \cup tx[w].rows
             T == entries' \cup tx[w].rows
  <1>1. S \subseteq T /\ \A f \in T : f.ws = tx[w].ws => f \in S
    OBVIOUS
  <1>2. \A e \in T : e.ws = tx[w].ws => Follows(e, T)
    <2>1. \A e \in S : e.ws = tx[w].ws => Follows(e, S)
      BY DEF Chained
    <2> HIDE DEF S, T
    <2>q. QED BY <1>1, <2>1, FollowsElsewhere
  <1>3. {f \in T : f.ws = tx[w].ws} = {f \in S : f.ws = tx[w].ws}
    BY <1>1
  <1>4. \A i \in DOMAIN tx[w].pending :
           LastIs(tx[w].pending[i].previous, {f \in T : f.ws = tx[w].ws})
    BY <1>3 DEF Chained
  <1>q. QED BY <1>2, <1>4 DEF Chained

\* A new entry goes on from the last one its transaction sees.
LEMMA AuditChained ==
  ASSUME AuditInductive, AuditChains, NEW w \in Appenders, NEW a \in Actions, Audit(w, a)
  PROVE  AuditChains'
  <1>1. PICK previous \in Priors(Visible(w)) :
          tx' = [tx EXCEPT ![w] =
                    [ws |-> tx[w].ws, rows |-> Flushed(w),
                     pending |-> <<[previous |-> previous,
                                    hash |-> Hash(tx[w].ws, a, previous)]>>]]
    BY DEF Audit
  <1>2. tx[w] # NoTx /\ entries' = entries /\ Chained(w)
    BY DEF Audit, AuditChains
  <1>3. /\ tx'[w].ws = tx[w].ws /\ tx'[w].rows = Flushed(w)
        /\ \A i \in DOMAIN tx'[w].pending : tx'[w].pending[i].previous = previous
        /\ \A v \in Appenders : v # w => tx'[v] = tx[v]
    BY <1>1 DEF AuditInductive, AuditTypeOK
  <1>4. LastIs(previous, Visible(w))
    BY DEF Priors, LatestOf, LastIs
  <1>5. Chained(w)'
    <2>1. \A e \in entries \cup Flushed(w) :
             e.ws = tx[w].ws => Follows(e, entries \cup Flushed(w))
      BY <1>2, FlushedFollows
    <2>q. QED BY <1>2, <1>3, <1>4, <2>1 DEF Chained, Visible
  <1>6. ASSUME NEW v \in Appenders, v # w, tx'[v] # NoTx PROVE Chained(v)'
    <2>1. tx'[v] = tx[v] /\ Chained(v)
      BY <1>3, <1>6 DEF AuditChains
    <2>q. QED BY <1>2, <2>1, ChainedElsewhere
  <1>q. QED BY <1>2, <1>5, <1>6 DEF AuditChains

\* A commit adds to the chain of its workspace, and to no other.
LEMMA CommitChained ==
  ASSUME AuditInductive, AuditChains, TakingTurns, NEW w \in Appenders, Commit(w)
  PROVE  AuditChains'
  <1>1. /\ tx[w] # NoTx /\ entries' = entries \cup Flushed(w) /\ Chained(w)
        /\ tx' = [tx EXCEPT ![w] = NoTx]
    BY DEF Commit, AuditChains
  <1>2. tx'[w] = NoTx /\ \A v \in Appenders : v # w => tx'[v] = tx[v]
    BY <1>1 DEF AuditInductive, AuditTypeOK
  <1>3. \A e \in Flushed(w) : e.ws = tx[w].ws
    BY <1>1, FlushedRests
  <1>4. ASSUME NEW e \in entries' PROVE Follows(e, entries')
    <2>1. CASE e.ws = tx[w].ws
      BY <1>1, <2>1, FlushedFollows
    <2>2. CASE e.ws # tx[w].ws
      <3>1. e \in entries /\ Follows(e, entries)
        BY <1>1, <1>3, <2>2 DEF AuditChains
      <3>2. entries \subseteq entries' /\ \A f \in entries' : f.ws = e.ws => f \in entries
        BY <1>1, <1>3, <2>2
      <3>q. QED BY <3>1, <3>2, FollowsElsewhere
    <2>q. QED BY <2>1, <2>2
  <1>5. ASSUME NEW v \in Appenders, tx'[v] # NoTx PROVE Chained(v)'
    <2>1. v # w /\ tx'[v] = tx[v] /\ Chained(v) /\ tx[v].ws # tx[w].ws
      BY <1>1, <1>2, <1>5 DEF AuditChains, TakingTurns
    <2>2. entries \subseteq entries' /\ \A f \in entries' : f.ws = tx[v].ws => f \in entries
      BY <1>1, <1>3, <2>1
    <2>q. QED BY <2>1, <2>2, ChainedElsewhere
  <1>q. QED BY <1>4, <1>5 DEF AuditChains

\* A transaction that begins has added nothing to the chain.
LEMMA BeginChained ==
  ASSUME AuditInductive, AuditChains, NEW w \in Appenders, UNCHANGED entries, NEW t,
         tx' = [tx EXCEPT ![w] = t], t.rows = {}, t.pending = <<>>
  PROVE  AuditChains'
  <1>1. tx'[w] = t /\ \A v \in Appenders : v # w => tx'[v] = tx[v]
    BY DEF AuditInductive, AuditTypeOK
  <1>2. Chained(w)'
    <2>1. DOMAIN t.pending = {} /\ entries' \cup t.rows = entries
      OBVIOUS
    <2>2. \A e \in entries : Follows(e, entries)
      BY DEF AuditChains
    <2>q. QED BY <1>1, <2>1, <2>2 DEF Chained
  <1>3. ASSUME NEW v \in Appenders, v # w, tx'[v] # NoTx PROVE Chained(v)'
    <2>1. tx'[v] = tx[v] /\ Chained(v)
      BY <1>1, <1>3 DEF AuditChains
    <2>q. QED BY <2>1, ChainedElsewhere
  <1>q. QED BY <1>2, <1>3 DEF AuditChains

\* While the transactions of a workspace append one after another, its trail is
\* one chain in the order of created_at, whatever is rolled back (audit): the
\* continuity that is verified after a restore.
THEOREM TrailIsContinuous == AuditSpec /\ []TakingTurns => []Continuous
  <1>1. AuditInit => AuditChains
    BY DEF AuditInit, AuditChains
  <1>2. AuditInductive /\ AuditChains /\ UNCHANGED auditVars => AuditChains'
    BY DEF auditVars, AuditChains, Chained
  <1>3. AuditInductive /\ AuditChains /\ TakingTurns /\ AuditNext => AuditChains'
    <2> SUFFICES ASSUME AuditInductive, AuditChains, TakingTurns, NEW w \in Appenders,
                        \/ \E ws \in Workspaces : Begin(w, ws)
                        \/ \E a \in Actions : Audit(w, a)
                        \/ Commit(w)
                        \/ Rollback(w)
                 PROVE  AuditChains'
      BY DEF AuditNext
    <2>1. ASSUME NEW ws \in Workspaces, Begin(w, ws) PROVE AuditChains'
      <3> DEFINE t == [ws |-> ws, rows |-> {}, pending |-> <<>>]
      <3>1. t.rows = {} /\ t.pending = <<>>
        OBVIOUS
      <3>2. tx' = [tx EXCEPT ![w] = t] /\ UNCHANGED entries
        BY <2>1 DEF Begin
      <3> HIDE DEF t
      <3>q. QED BY <3>1, <3>2, BeginChained
    <2>2. CASE Rollback(w)
      BY <2>2, NoTxHolds, BeginChained DEF Rollback
    <2>q. QED BY <2>1, <2>2, AuditChained, CommitChained
  <1>4. AuditChains => Continuous
    <2> SUFFICES ASSUME AuditChains, NEW e \in entries PROVE LastIs(e.previous, Before(e))
      BY DEF Continuous, LastIs
    <2>1. Follows(e, entries)
      BY DEF AuditChains
    <2>q. QED BY <2>1 DEF Follows, Before
  <1>q. QED BY AuditInductiveInvariant, <1>1, <1>2, <1>3, <1>4, PTL DEF AuditSpec
=============================================================================
