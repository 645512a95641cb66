--------------------------- MODULE Configuration ---------------------------
(***************************************************************************)
(* Configuration changes: a draft is simulated on the current data,        *)
(* proposed with the simulation's snapshot hash, and activated by an       *)
(* approval that compares the hash again.  Activation replaces the         *)
(* policies of the domains the draft names and queues the jobs that        *)
(* recompute ("remaster") these domains.                                   *)
(*                                                                         *)
(* A slot of Requests serves one request at a time as one READ COMMITTED   *)
(* transaction: it reads in one step and commits in a later one.  With one *)
(* slot, requests are served one after another.                            *)
(***************************************************************************)
EXTENDS Naturals, Sequences, FiniteSets, Functions

CONSTANTS
    Domains,
    Policies,
    InitialPolicy,
    Documents,    \* what a draft may say: a policy for some of the domains
    Bundles,      \* workspace bundles that are imported with replace_existing
    Users,
    Requests,     \* slots
    Workers,      \* the slots that may run a job
    MaxConfigs, MaxSimulations, MaxTasks, MaxData

Priorities == {0, 1}
PartialPolicies == UNION {[S -> Policies] : S \in SUBSET Domains}

ASSUME ConfigurationAssumption ==
    /\ IsFiniteSet(Domains)
    /\ InitialPolicy \in Policies
    /\ Documents \subseteq PartialPolicies
    /\ Bundles \subseteq [domains : PartialPolicies, priority : Priorities,
                          documents : {{}} \cup {{d} : d \in Documents}]
    /\ Workers \subseteq Requests
    /\ {MaxConfigs, MaxSimulations, MaxTasks, MaxData} \subseteq Nat

VARIABLES
    configs,      \* ConfigurationVersion rows; the index is the version
    simulations,  \* Simulation rows
    tasks,        \* ReviewTask rows of kind configuration_approval
    jobs,         \* DurableJob rows of kind remaster_domain
    definition,   \* Domain.definition
    mastered,     \* the policy each domain's projections were computed with
    data,         \* revision of source objects, entities and constraints
    priority,     \* Source.priority
    tx,           \* the open transaction of each slot
    imported      \* history: the domains whose policy a bundle set last

vars == <<configs, simulations, tasks, jobs, definition, mastered, data,
          priority, tx, imported>>

Idle == [op |-> "idle", ref |-> 0, read |-> {}, basis |-> <<>>]

Init ==
    /\ configs = <<>>
    /\ simulations = <<>>
    /\ tasks = <<>>
    /\ jobs = <<>>
    /\ definition = [d \in Domains |-> InitialPolicy]
    /\ mastered = definition
    /\ data = 0
    /\ priority = 0
    /\ tx = [q \in Requests |-> Idle]
    /\ imported = {}

\* What a simulation computes its impact from, and the part of it that
\* _snapshot_hash covers.
Basis == <<data, definition, priority>>
DataOnly(basis) == <<basis[1]>>
SnapshotHash(basis) == <<basis[1], basis[2]>>

Free(q) == tx[q] = Idle
Begin(q, op, ref, read) ==
    /\ Free(q)
    /\ tx' = [tx EXCEPT ![q] = [op |-> op, ref |-> ref, read |-> read, basis |-> Basis]]
End(q, op) ==
    /\ tx[q].op = op
    /\ tx' = [tx EXCEPT ![q] = Idle]

\* --- drafts and simulations -----------------------------------------------

\* create_config.  (workspace_id, version) is UNIQUE: of two that read the same
\* highest version one is refused, so the insert is one step.
Draft(document) == [status |-> "draft", document |-> document]
CreateConfig(q, document) ==
    /\ Free(q)
    /\ Len(configs) < MaxConfigs
    /\ configs' = Append(configs, Draft(document))
    /\ UNCHANGED <<simulations, tasks, jobs, definition, mastered, data, priority, tx, imported>>

\* revert_config: an earlier document as a new draft.
RevertConfig(q, c) == CreateConfig(q, configs[c].document)

\* simulate computes the impact first and the hash when it is done.
BeginSimulate(q, c) ==
    /\ Len(simulations) < MaxSimulations
    /\ Begin(q, "simulate", c, {})
    /\ UNCHANGED <<configs, simulations, tasks, jobs, definition, mastered, data, priority, imported>>

EndSimulate(q) ==
    /\ End(q, "simulate")
    /\ Len(simulations) < MaxSimulations
    /\ simulations' = Append(simulations,
                             [config |-> tx[q].ref, hash |-> SnapshotHash(Basis),
                              basis |-> tx[q].basis])
    /\ UNCHANGED <<configs, tasks, jobs, definition, mastered, data, priority, imported>>

Fresh(s) == simulations[s].hash = SnapshotHash(Basis)

\* --- proposal -------------------------------------------------------------

OpenTasks == {t \in DOMAIN tasks : tasks[t].status = "open"}
Locked(t) == \E q \in Requests : tx[q].op = "activate" /\ tx[q].ref = t

\* propose_config; it reads one open proposal, if there is any.
BeginPropose(q, s) ==
    /\ Len(tasks) < MaxTasks
    /\ configs[simulations[s].config].status = "draft"
    /\ Fresh(s)
    /\ \/ OpenTasks = {} /\ Begin(q, "propose", s, {})
       \/ \E t \in OpenTasks : Begin(q, "propose", s, {t})
    /\ UNCHANGED <<configs, simulations, tasks, jobs, definition, mastered, data, priority, imported>>

\* The proposal that was read becomes stale, whatever it is by now.
KeepsOpen(old) == tasks
Superseded(old) ==
    [t \in DOMAIN tasks |-> IF t \in old THEN [tasks[t] EXCEPT !.status = "stale"]
                            ELSE tasks[t]]
EndPropose(q, user) ==
    /\ End(q, "propose")
    /\ Len(tasks) < MaxTasks
    /\ \A t \in tx[q].read : ~Locked(t)
    /\ tasks' = Append(Superseded(tx[q].read),
                       [simulation |-> tx[q].ref, proposer |-> user, status |-> "open"])
    /\ UNCHANGED <<configs, simulations, jobs, definition, mastered, data, priority, imported>>

\* --- decision -------------------------------------------------------------

\* decide_task locks the task; its proposer may not decide it.
Decidable(t, user) ==
    /\ tasks[t].status = "open"
    /\ ~Locked(t)
    /\ tasks[t].proposer # user

RejectTask(q, t, user) ==
    /\ Free(q)
    /\ Decidable(t, user)
    /\ tasks' = [tasks EXCEPT ![t].status = "rejected"]
    /\ UNCHANGED <<configs, simulations, jobs, definition, mastered, data, priority, tx, imported>>

ConfigOf(t) == simulations[tasks[t].simulation].config

\* An approval of an outdated simulation: the task becomes stale.
ApproveStale(q, t, user) ==
    /\ Free(q)
    /\ Decidable(t, user)
    /\ configs[ConfigOf(t)].status = "draft"
    /\ ~Fresh(tasks[t].simulation)
    /\ tasks' = [tasks EXCEPT ![t].status = "stale"]
    /\ UNCHANGED <<configs, simulations, jobs, definition, mastered, data, priority, tx, imported>>

\* The approval reads the draft, compares the hash and reads what is active.
AnyHash(t) == TRUE
HashMatches(t) == Fresh(tasks[t].simulation)
BeginApprove(q, t, user) ==
    /\ Decidable(t, user)
    /\ configs[ConfigOf(t)].status = "draft"
    /\ HashMatches(t)
    /\ Begin(q, "activate", t, {c \in DOMAIN configs : configs[c].status = "active"})
    /\ UNCHANGED <<configs, simulations, tasks, jobs, definition, mastered, data, priority, imported>>

\* The configurations after the activation of c, with old read as active.
NotRetired(c, old) == [configs EXCEPT ![c].status = "active"]
Activated(c, old) ==
    [k \in DOMAIN configs |->
        IF k = c THEN [configs[k] EXCEPT !.status = "active"]
        ELSE IF k \in old THEN [configs[k] EXCEPT !.status = "retired"]
        ELSE configs[k]]

\* The policies of document replace those of the domains it names.
Unapplied(document) == definition
Applied(document) ==
    [d \in Domains |-> IF d \in DOMAIN document THEN document[d] ELSE definition[d]]

Job(d, policy) == [domain |-> d, policy |-> policy, status |-> "queued"]
NoJob(document, order) == <<>>
RemasterJobs(document, order) ==
    [k \in 1 .. Len(order) |-> Job(order[k], document[order[k]])]

\* order: the domains of the document, in some order.
Orders(document) ==
    {o \in [1 .. Cardinality(DOMAIN document) -> DOMAIN document] : IsInjective(o)}

EndApprove(q) ==
    LET t == tx[q].ref
        c == ConfigOf(t)
        document == configs[c].document
    IN  /\ End(q, "activate")
        /\ configs' = Activated(c, tx[q].read)
        /\ definition' = Applied(document)
        /\ \E order \in Orders(document) : jobs' = jobs \o RemasterJobs(document, order)
        /\ tasks' = [tasks EXCEPT ![t].status = "approved"]
        /\ imported' = imported \ DOMAIN document
        /\ UNCHANGED <<simulations, mastered, data, priority>>

\* --- remastering ----------------------------------------------------------

\* remaster_domain, with the policy it reads first.  A job for another policy
\* than the domain's fails.
Claimed(j) == [jobs EXCEPT ![j].status = "running"]
InOrder(q, j) ==
    /\ jobs[j].status = "queued"
    /\ \A k \in 1 .. j - 1 : jobs[k].status = "complete"
    /\ definition[jobs[j].domain] = jobs[j].policy
    /\ Begin(q, "remaster", j, {})
    /\ jobs' = Claimed(j)
    /\ UNCHANGED <<configs, simulations, tasks, definition, mastered, data, priority, imported>>
BeginRemaster(q, j) ==
    /\ jobs[j].status = "queued"
    /\ definition[jobs[j].domain] = jobs[j].policy
    /\ Begin(q, "remaster", j, {})
    /\ jobs' = Claimed(j)
    /\ UNCHANGED <<configs, simulations, tasks, definition, mastered, data, priority, imported>>

FailRemaster(q, j) ==
    /\ Free(q)
    /\ jobs[j].status = "queued"
    /\ definition[jobs[j].domain] # jobs[j].policy
    /\ jobs' = [jobs EXCEPT ![j].status = "failed"]
    /\ UNCHANGED <<configs, simulations, tasks, definition, mastered, data, priority, tx, imported>>

\* Every entity of the domain gets a new revision.
EndRemaster(q) ==
    LET j == tx[q].ref
    IN  /\ End(q, "remaster")
        /\ jobs' = [jobs EXCEPT ![j].status = "complete"]
        /\ mastered' = [mastered EXCEPT ![jobs[j].domain] = jobs[j].policy]
        /\ data' = data + 1
        /\ UNCHANGED <<configs, simulations, tasks, definition, priority, imported>>

\* --- other requests -------------------------------------------------------

\* Ingestion or stewardship changes an object, an entity or a constraint.
ChangeData(q) ==
    /\ Free(q)
    /\ data < MaxData
    /\ data' = data + 1
    /\ UNCHANGED <<configs, simulations, tasks, jobs, definition, mastered, priority, tx, imported>>

\* import_workspace_bundle: domains and sources are replaced, and documents
\* that no configuration has become drafts.
ImportBundle(q, b) ==
    LET new == b.documents \ {configs[c].document : c \in DOMAIN configs}
    IN  /\ Free(q)
        /\ definition' = Applied(b.domains)
        /\ priority' = b.priority
        /\ imported' = imported \cup DOMAIN b.domains
        /\ \/ new = {} /\ configs' = configs
           \/ /\ Len(configs) < MaxConfigs
              /\ \E document \in new : configs' = Append(configs, Draft(document))
        /\ UNCHANGED <<simulations, tasks, jobs, mastered, data, tx>>

\* The process dies: the transaction is lost, and the lease of a job expires.
Crash(q) ==
    /\ ~Free(q)
    /\ tx' = [tx EXCEPT ![q] = Idle]
    /\ jobs' = IF tx[q].op = "remaster" THEN [jobs EXCEPT ![tx[q].ref].status = "queued"]
               ELSE jobs
    /\ UNCHANGED <<configs, simulations, tasks, definition, mastered, data, priority, imported>>

\* --- specification --------------------------------------------------------

RunJob(q) ==
    \/ \E j \in DOMAIN jobs : BeginRemaster(q, j) \/ FailRemaster(q, j)
    \/ EndRemaster(q)

Next ==
    \E q \in Requests :
        \/ \E document \in Documents : CreateConfig(q, document)
        \/ \E c \in DOMAIN configs : RevertConfig(q, c) \/ BeginSimulate(q, c)
        \/ EndSimulate(q)
        \/ \E s \in DOMAIN simulations : BeginPropose(q, s)
        \/ \E user \in Users : EndPropose(q, user)
        \/ \E t \in DOMAIN tasks, user \in Users :
              \/ RejectTask(q, t, user)
              \/ ApproveStale(q, t, user)
              \/ BeginApprove(q, t, user)
        \/ EndApprove(q)
        \/ q \in Workers /\ RunJob(q)
        \/ ChangeData(q)
        \/ \E b \in Bundles : ImportBundle(q, b)
        \/ Crash(q)

Spec == Init /\ [][Next]_vars

\* A request ends.  A worker polls for jobs as long as it lives, and a process
\* does not die in every transaction.
Finish(q) ==
    \/ EndSimulate(q) \/ EndApprove(q) \/ EndRemaster(q) \/ Crash(q)
    \/ \E user \in Users : EndPropose(q, user)

FairSpec ==
    /\ Spec
    /\ \A q \in Requests : WF_vars(Finish(q))
    /\ \A q \in Workers : SF_vars(RunJob(q)) /\ SF_vars(EndRemaster(q))

-----------------------------------------------------------------------------
(* Properties.                                                             *)

BasisSet == Nat \X [Domains -> Policies] \X Priorities
HashSet == Nat \X [Domains -> Policies]

Configs == [status : {"draft", "active", "retired"}, document : Documents]
Simulations == [config : Nat, hash : HashSet, basis : BasisSet]
Tasks == [simulation : Nat, proposer : Users,
          status : {"open", "approved", "rejected", "stale"}]
Jobs == [domain : Domains, policy : Policies,
         status : {"queued", "running", "complete", "failed"}]
Transactions == [op : {"idle", "simulate", "propose", "activate", "remaster"},
                 ref : Nat, read : SUBSET Nat, basis : {<<>>} \cup BasisSet]

\* Every variable keeps its type, and references name rows that exist.
TypeOK ==
    /\ configs \in Seq(Configs)
    /\ simulations \in Seq(Simulations)
    /\ \A s \in DOMAIN simulations : simulations[s].config \in DOMAIN configs
    /\ tasks \in Seq(Tasks)
    /\ \A t \in DOMAIN tasks : tasks[t].simulation \in DOMAIN simulations
    /\ jobs \in Seq(Jobs)
    /\ definition \in [Domains -> Policies]
    /\ mastered \in [Domains -> Policies]
    /\ data \in Nat /\ priority \in Priorities /\ imported \subseteq Domains
    /\ tx \in [Requests -> Transactions]

\* A configuration is activated only if what its approved preview was computed
\* from is what the system holds at that moment: data, policies and whatever
\* else the preview depends on.
ActivatedAsPreviewed ==
    [][\A q \in Requests :
         EndApprove(q) => simulations[tasks[tx[q].ref].simulation].basis = Basis]_vars

\* At most one configuration is active and at most one proposal is open.
OneActive ==
    /\ \A c, k \in DOMAIN configs :
          configs[c].status = "active" /\ configs[k].status = "active" => c = k
    /\ \A t, u \in OpenTasks : t = u

\* The active configuration is the one in force, except where a bundle has
\* replaced a policy since: a later activation has retired it.
ActiveInForce ==
    \A c \in DOMAIN configs : configs[c].status = "active" =>
        \A d \in DOMAIN configs[c].document \ imported :
            definition[d] = configs[c].document[d]

\* A domain is computed with the policy an activation gave it, or a job that
\* will do it is there: no crash, obsolete job or later activation leaves a
\* domain behind.  (import_workspace_bundle queues no job.)
MasteredOrQueued ==
    \A d \in Domains \ imported : mastered[d] # definition[d] =>
        \E j \in DOMAIN jobs : /\ jobs[j].status \in {"queued", "running"}
                               /\ jobs[j].domain = d
                               /\ jobs[j].policy = definition[d]

\* Every domain is in the end computed with its policy, or a bundle replaces it.
Remastered ==
    \A d \in Domains : (mastered[d] # definition[d])
                            ~> (mastered[d] = definition[d] \/ d \in imported)

=============================================================================
