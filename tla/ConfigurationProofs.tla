------------------------ MODULE ConfigurationProofs ------------------------
(***************************************************************************)
(* Proofs about configuration changes, for any domains, policies, drafts   *)
(* and bundles and any number of requests at once.  Where the code relies  *)
(* on requests that do not meet, the theorem names the meeting it excludes *)
(* as a hypothesis about the behaviour.                                    *)
(***************************************************************************)
EXTENDS Configuration, FiniteSetTheorems, TLAPS

\* What is known of an open transaction, whatever others do: the row it is at
\* exists, and only a worker remasters.
TxSound(q) ==
    /\ tx[q].op = "idle" => tx[q] = Idle
    /\ tx[q].op # "idle" => tx[q].basis \in BasisSet
    /\ tx[q].op = "simulate" => tx[q].ref \in DOMAIN configs
    /\ tx[q].op = "propose" => tx[q].ref \in DOMAIN simulations
    /\ tx[q].op = "activate" => tx[q].ref \in DOMAIN tasks
    /\ tx[q].op = "remaster" => tx[q].ref \in DOMAIN jobs /\ q \in Workers

References == \A q \in Requests : TxSound(q)

\* Job j will compute its domain with the policy p of domain d.
Pending(j, d, p) ==
    /\ jobs[j].status \in {"queued", "running"}
    /\ jobs[j].domain = d
    /\ jobs[j].policy = p
Awaited(d) == \E j \in DOMAIN jobs : Pending(j, d, definition[d])

\* While a worker computes a domain with a policy that an activation has
\* replaced, the job of that activation waits.
RunAwaited(q) ==
    tx[q].op = "remaster" =>
        \A d \in Domains :
            jobs[tx[q].ref].domain = d =>
                \/ d \in imported
                \/ definition[d] = jobs[tx[q].ref].policy
                \/ Awaited(d)
ReplacedAwaited == \A q \in Requests : RunAwaited(q)

-----------------------------------------------------------------------------
(* The rows of a table.                                                    *)

\* A table is a function on an interval.
LEMMA RowsAre ==
  ASSUME NEW R, NEW rows \in Seq(R)
  PROVE  /\ DOMAIN rows = 1 .. Len(rows) /\ Len(rows) \in Nat
         /\ \A i \in DOMAIN rows : rows[i] \in R /\ i \in Nat
  OBVIOUS

\* INSERT of a row.
LEMMA Inserted ==
  ASSUME NEW R, NEW rows \in Seq(R), NEW r \in R, NEW new, new = Append(rows, r)
  PROVE  /\ new \in Seq(R)
         /\ DOMAIN new = DOMAIN rows \cup {Len(rows) + 1}
         /\ Len(rows) + 1 \notin DOMAIN rows /\ Len(rows) + 1 \in Nat
         /\ new[Len(rows) + 1] = r
         /\ \A i \in DOMAIN rows : new[i] = rows[i]
  OBVIOUS

\* UPDATE of the status of a row.
LEMMA Restated ==
  ASSUME NEW R, NEW rows \in Seq(R), NEW i \in DOMAIN rows, NEW s,
         [rows[i] EXCEPT !.status = s] \in R,
         NEW new, new = [rows EXCEPT ![i].status = s]
  PROVE  /\ new \in Seq(R)
         /\ DOMAIN new = DOMAIN rows
         /\ new[i] = [rows[i] EXCEPT !.status = s]
         /\ \A k \in DOMAIN rows : k # i => new[k] = rows[k]
  <1>1. new = [rows EXCEPT ![i] = [rows[i] EXCEPT !.status = s]]
    OBVIOUS
  <1> DEFINE r == [rows[i] EXCEPT !.status = s]
  <1>2. r \in R
    OBVIOUS
  <1> HIDE DEF r
  <1>3. new = [rows EXCEPT ![i] = r]
    BY <1>1 DEF r
  <1>4. /\ new \in Seq(R) /\ DOMAIN new = DOMAIN rows /\ new[i] = r
        /\ \A k \in DOMAIN rows : k # i => new[k] = rows[k]
    BY <1>2, <1>3
  <1>q. QED BY <1>4 DEF r

\* UPDATE of the status leaves the other columns.
LEMMA JobColumns ==
  ASSUME NEW r \in Jobs, NEW s \in {"queued", "running", "complete", "failed"}
  PROVE  LET new == [r EXCEPT !.status = s]
         IN  /\ new \in Jobs /\ new.status = s
             /\ new.domain = r.domain /\ new.policy = r.policy
  BY DEF Jobs

LEMMA TaskColumns ==
  ASSUME NEW r \in Tasks, NEW s \in {"open", "approved", "rejected", "stale"}
  PROVE  LET new == [r EXCEPT !.status = s]
         IN  new \in Tasks /\ new.status = s /\ new.simulation = r.simulation
  BY DEF Tasks

LEMMA ConfigColumns ==
  ASSUME NEW r \in Configs, NEW s \in {"draft", "active", "retired"}
  PROVE  LET new == [r EXCEPT !.status = s]
         IN  new \in Configs /\ new.status = s /\ new.document = r.document
  BY DEF Configs

\* A job whose status changes is otherwise the same.
LEMMA JobRestated ==
  ASSUME jobs \in Seq(Jobs), NEW j \in DOMAIN jobs,
         NEW s \in {"queued", "running", "complete", "failed"},
         NEW new, new = [jobs EXCEPT ![j].status = s]
  PROVE  /\ new \in Seq(Jobs) /\ DOMAIN new = DOMAIN jobs
         /\ \A k \in DOMAIN jobs :
               /\ new[k].domain = jobs[k].domain /\ new[k].policy = jobs[k].policy
               /\ new[k].status = IF k = j THEN s ELSE jobs[k].status
  <1>1. /\ jobs[j] \in Jobs /\ [jobs[j] EXCEPT !.status = s] \in Jobs
        /\ [jobs[j] EXCEPT !.status = s].domain = jobs[j].domain
        /\ [jobs[j] EXCEPT !.status = s].policy = jobs[j].policy
        /\ [jobs[j] EXCEPT !.status = s].status = s
    <2>1. jobs[j] \in Jobs
      OBVIOUS
    <2>q. QED BY <2>1, JobColumns
  <1>2. /\ new \in Seq(Jobs) /\ DOMAIN new = DOMAIN jobs
        /\ new[j] = [jobs[j] EXCEPT !.status = s]
        /\ \A k \in DOMAIN jobs : k # j => new[k] = jobs[k]
    BY <1>1, Restated
  <1>q. QED BY <1>1, <1>2

\* ... and so is a task.
LEMMA TaskRestated ==
  ASSUME tasks \in Seq(Tasks), NEW t \in DOMAIN tasks,
         NEW s \in {"open", "approved", "rejected", "stale"},
         NEW new, new = [tasks EXCEPT ![t].status = s]
  PROVE  /\ new \in Seq(Tasks) /\ DOMAIN new = DOMAIN tasks
         /\ \A k \in DOMAIN tasks :
               /\ new[k].simulation = tasks[k].simulation
               /\ new[k].status = IF k = t THEN s ELSE tasks[k].status
  <1>1. /\ tasks[t] \in Tasks /\ [tasks[t] EXCEPT !.status = s] \in Tasks
        /\ [tasks[t] EXCEPT !.status = s].simulation = tasks[t].simulation
        /\ [tasks[t] EXCEPT !.status = s].status = s
    <2>1. tasks[t] \in Tasks
      OBVIOUS
    <2>q. QED BY <2>1, TaskColumns
  <1>2. /\ new \in Seq(Tasks) /\ DOMAIN new = DOMAIN tasks
        /\ new[t] = [tasks[t] EXCEPT !.status = s]
        /\ \A k \in DOMAIN tasks : k # t => new[k] = tasks[k]
    BY <1>1, Restated
  <1>q. QED BY <1>1, <1>2

\* A new proposal makes the one that was read stale and changes no other.
LEMMA SupersededRows ==
  ASSUME tasks \in Seq(Tasks), NEW old
  PROVE  /\ Superseded(old) \in Seq(Tasks)
         /\ DOMAIN Superseded(old) = DOMAIN tasks
         /\ Len(Superseded(old)) = Len(tasks)
         /\ \A t \in DOMAIN tasks :
               /\ Superseded(old)[t].simulation = tasks[t].simulation
               /\ Superseded(old)[t].status =
                     IF t \in old THEN "stale" ELSE tasks[t].status
  <1>1. \A t \in DOMAIN tasks :
           /\ tasks[t] \in Tasks /\ [tasks[t] EXCEPT !.status = "stale"] \in Tasks
           /\ [tasks[t] EXCEPT !.status = "stale"].simulation = tasks[t].simulation
           /\ [tasks[t] EXCEPT !.status = "stale"].status = "stale"
    <2>1. \A t \in DOMAIN tasks : tasks[t] \in Tasks
      OBVIOUS
    <2>q. QED BY <2>1, TaskColumns
  <1>2. DOMAIN tasks = 1 .. Len(tasks) /\ Len(tasks) \in Nat
    OBVIOUS
  <1>3. \A t \in DOMAIN tasks : Superseded(old)[t] =
           IF t \in old THEN [tasks[t] EXCEPT !.status = "stale"] ELSE tasks[t]
    BY DEF Superseded
  <1>4. Superseded(old) = [t \in 1 .. Len(tasks) |-> Superseded(old)[t]]
    BY <1>2 DEF Superseded
  <1>5. \A t \in 1 .. Len(tasks) : Superseded(old)[t] \in Tasks
    BY <1>1, <1>2, <1>3
  <1>6. Superseded(old) \in [1 .. Len(tasks) -> Tasks]
    BY <1>4, <1>5
  <1>7. Superseded(old) \in Seq(Tasks) /\ Len(Superseded(old)) = Len(tasks)
    BY <1>2, <1>6
  <1>q. QED BY <1>1, <1>2, <1>3, <1>6, <1>7

\* The activation of c retires what was read as active and changes no other.
LEMMA ActivatedRows ==
  ASSUME configs \in Seq(Configs), NEW c \in DOMAIN configs, NEW old
  PROVE  /\ Activated(c, old) \in Seq(Configs)
         /\ DOMAIN Activated(c, old) = DOMAIN configs
         /\ \A k \in DOMAIN configs :
               /\ Activated(c, old)[k].document = configs[k].document
               /\ Activated(c, old)[k].status =
                     IF k = c THEN "active"
                     ELSE IF k \in old THEN "retired" ELSE configs[k].status
  <1>1. \A k \in DOMAIN configs, s \in {"active", "retired"} :
           /\ configs[k] \in Configs /\ [configs[k] EXCEPT !.status = s] \in Configs
           /\ [configs[k] EXCEPT !.status = s].document = configs[k].document
           /\ [configs[k] EXCEPT !.status = s].status = s
    <2> SUFFICES ASSUME NEW k \in DOMAIN configs, NEW s \in {"active", "retired"}
                 PROVE  /\ configs[k] \in Configs
                        /\ [configs[k] EXCEPT !.status = s] \in Configs
                        /\ [configs[k] EXCEPT !.status = s].document = configs[k].document
                        /\ [configs[k] EXCEPT !.status = s].status = s
      OBVIOUS
    <2>1. configs[k] \in Configs
      OBVIOUS
    <2>q. QED BY <2>1, ConfigColumns
  <1>2. DOMAIN configs = 1 .. Len(configs) /\ Len(configs) \in Nat
    OBVIOUS
  <1>3. \A k \in DOMAIN configs : Activated(c, old)[k] =
           IF k = c THEN [configs[k] EXCEPT !.status = "active"]
           ELSE IF k \in old THEN [configs[k] EXCEPT !.status = "retired"]
           ELSE configs[k]
    BY DEF Activated
  <1>4. Activated(c, old) = [k \in 1 .. Len(configs) |-> Activated(c, old)[k]]
    BY <1>2 DEF Activated
  <1>5. \A k \in 1 .. Len(configs) : Activated(c, old)[k] \in Configs
    BY <1>1, <1>2, <1>3
  <1>6. Activated(c, old) \in [1 .. Len(configs) -> Configs]
    BY <1>4, <1>5
  <1>7. Activated(c, old) \in Seq(Configs)
    BY <1>2, <1>6
  <1>q. QED BY <1>1, <1>2, <1>3, <1>6, <1>7

\* A draft says only what is in Documents, and applying it keeps a policy for
\* every domain.
LEMMA AppliedType ==
  ASSUME definition \in [Domains -> Policies], NEW document \in PartialPolicies
  PROVE  /\ DOMAIN document \subseteq Domains
         /\ \A d \in DOMAIN document : document[d] \in Policies
         /\ Applied(document) \in [Domains -> Policies]
         /\ \A d \in Domains : Applied(document)[d] =
               IF d \in DOMAIN document THEN document[d] ELSE definition[d]
  BY DEF PartialPolicies, Applied

\* One job is queued for each domain of an activated document.
LEMMA JobsQueued ==
  ASSUME jobs \in Seq(Jobs), NEW document \in PartialPolicies,
         NEW order \in Orders(document),
         jobs' = jobs \o RemasterJobs(document, order)
  PROVE  /\ jobs' \in Seq(Jobs)
         /\ \A j \in DOMAIN jobs : j \in DOMAIN jobs' /\ jobs'[j] = jobs[j]
         /\ \A d \in DOMAIN document :
               \E j \in DOMAIN jobs' : jobs'[j] = Job(d, document[d])
  <1> DEFINE D == DOMAIN document
             n == Cardinality(D)
             add == RemasterJobs(document, order)
  <1>1. D \subseteq Domains /\ \A d \in D : document[d] \in Policies
    BY DEF PartialPolicies
  <1>2. IsFiniteSet(D) /\ n \in Nat
    BY <1>1, ConfigurationAssumption, FS_Subset, FS_CardinalityType
  <1>3. order \in [1 .. n -> D] /\ order \in Injection(1 .. n, D)
    BY DEF Orders, Injection, IsInjective
  <1>4. Cardinality(1 .. n) = n
    BY <1>2, FS_Interval
  <1>5. \A d \in D : \E i \in 1 .. n : order[i] = d
    BY <1>2, <1>3, <1>4, FS_Injection DEF Surjection
  <1>6. Len(order) = n
    BY <1>2, <1>3
  <1>7. /\ add \in Seq(Jobs) /\ Len(add) = n
        /\ \A i \in 1 .. n : add[i] = Job(order[i], document[order[i]])
    <2>1. \A d \in D : Job(d, document[d]) \in Jobs
      BY <1>1 DEF Job, Jobs
    <2>2. \A i \in 1 .. n : order[i] \in D
      BY <1>3
    <2>3. add = [i \in 1 .. n |-> Job(order[i], document[order[i]])]
      BY <1>6 DEF RemasterJobs
    <2>q. QED BY <1>2, <2>1, <2>2, <2>3
  <1> HIDE DEF add, n, D
  <1>8. jobs' = jobs \o add
    BY DEF add
  <1>9. /\ jobs' \in Seq(Jobs) /\ Len(jobs') = Len(jobs) + n
        /\ \A j \in 1 .. Len(jobs) : jobs'[j] = jobs[j]
        /\ \A i \in 1 .. n : jobs'[Len(jobs) + i] = add[i]
    <2>1. jobs \in Seq(Jobs) /\ add \in Seq(Jobs)
      BY <1>7
    <2>2. /\ jobs' \in Seq(Jobs) /\ Len(jobs') = Len(jobs) + Len(add)
          /\ \A i \in 1 .. Len(jobs) : jobs'[i] = jobs[i]
          /\ \A i \in 1 .. Len(add) : jobs'[Len(jobs) + i] = add[i]
      BY <1>8, <2>1
    <2>3. Len(add) = n
      BY <1>7
    <2>q. QED BY <2>2, <2>3
  <1>10. DOMAIN jobs = 1 .. Len(jobs) /\ DOMAIN jobs' = 1 .. Len(jobs')
    BY <1>9
  <1>11. \A d \in D : \E j \in DOMAIN jobs' : jobs'[j] = Job(d, document[d])
    <2> SUFFICES ASSUME NEW d \in D
                 PROVE  \E j \in DOMAIN jobs' : jobs'[j] = Job(d, document[d])
      OBVIOUS
    <2>1. PICK i \in 1 .. n : order[i] = d
      BY <1>5
    <2>2. Len(jobs) + i \in DOMAIN jobs' /\ jobs'[Len(jobs) + i] = Job(d, document[d])
      BY <1>2, <1>7, <1>9, <1>10, <2>1
    <2>q. QED BY <2>2
  <1>q. QED BY <1>2, <1>9, <1>10, <1>11 DEF D

-----------------------------------------------------------------------------
(* Every step keeps the types and the references, for any number of        *)
(* requests at once.                                                       *)

Sound == TypeOK /\ References

\* No step deletes a row.
Grows ==
    /\ DOMAIN configs \subseteq DOMAIN configs'
    /\ DOMAIN simulations \subseteq DOMAIN simulations'
    /\ DOMAIN tasks \subseteq DOMAIN tasks'
    /\ DOMAIN jobs \subseteq DOMAIN jobs'

\* The rows an open transaction refers to stay.
LEMMA ReferencesStay ==
  ASSUME References, Grows,
         \A r \in Requests : tx'[r] = tx[r] \/ TxSound(r)'
  PROVE  References'
  <1> SUFFICES ASSUME NEW r \in Requests PROVE TxSound(r)'
    BY DEF References
  <1>1. CASE tx'[r] = tx[r]
    BY <1>1 DEF References, TxSound, Grows
  <1>q. QED BY <1>1

\* The rows that exist, by their numbers.
LEMMA RowNumbers ==
  ASSUME TypeOK
  PROVE  /\ DOMAIN configs \subseteq Nat /\ DOMAIN simulations \subseteq Nat
         /\ DOMAIN tasks \subseteq Nat /\ DOMAIN jobs \subseteq Nat
  BY DEF TypeOK

\* A transaction starts.
LEMMA BeginTx ==
  ASSUME TypeOK, NEW q \in Requests,
         NEW op \in {"simulate", "propose", "activate", "remaster"},
         NEW ref \in Nat, NEW read \in SUBSET Nat, Begin(q, op, ref, read)
  PROVE  /\ tx' \in [Requests -> Transactions]
         /\ tx[q] = Idle
         /\ tx'[q].op = op /\ tx'[q].ref = ref /\ tx'[q].read = read
         /\ tx'[q].basis = Basis /\ Basis \in BasisSet
         /\ \A r \in Requests : r # q => tx'[r] = tx[r]
  <1> DEFINE t == [op |-> op, ref |-> ref, read |-> read, basis |-> Basis]
  <1>1. Basis \in BasisSet
    BY DEF TypeOK, Basis, BasisSet
  <1>2. t \in Transactions
    BY <1>1 DEF Transactions
  <1>3. tx' = [tx EXCEPT ![q] = t] /\ tx[q] = Idle
    BY DEF Begin, Free
  <1>4. t.op = op /\ t.ref = ref /\ t.read = read /\ t.basis = Basis
    OBVIOUS
  <1> HIDE DEF t
  <1>q. QED BY <1>1, <1>2, <1>3, <1>4 DEF TypeOK

\* A transaction ends.
LEMMA EndTx ==
  ASSUME TypeOK, NEW q \in Requests, tx' = [tx EXCEPT ![q] = Idle]
  PROVE  /\ tx' \in [Requests -> Transactions]
         /\ tx'[q] = Idle /\ tx'[q].op = "idle" /\ TxSound(q)'
         /\ \A r \in Requests : r # q => tx'[r] = tx[r]
  <1>1. Idle \in Transactions /\ Idle.op = "idle"
    BY DEF Idle, Transactions
  <1>2. tx' \in [Requests -> Transactions] /\ tx'[q] = Idle
    BY <1>1 DEF TypeOK
  <1>3. \A r \in Requests : r # q => tx'[r] = tx[r]
    BY DEF TypeOK
  <1>4. TxSound(q)'
    BY <1>1, <1>2 DEF TxSound, Idle
  <1>q. QED BY <1>1, <1>2, <1>3, <1>4

\* The active configurations are among those that were.
ActiveStay ==
    \A c \in DOMAIN configs' :
        configs'[c].status = "active" => c \in DOMAIN configs /\ configs'[c] = configs[c]

LEMMA CreateSound ==
  ASSUME Sound, NEW q \in Requests, NEW document \in Documents,
         CreateConfig(q, document)
  PROVE  Sound' /\ ActiveStay
  <1>1. Draft(document) \in Configs /\ Draft(document).status = "draft"
    BY DEF Draft, Configs
  <1>2. configs \in Seq(Configs) /\ configs' = Append(configs, Draft(document))
    BY DEF CreateConfig, Sound, TypeOK
  <1>3. /\ configs' \in Seq(Configs)
        /\ DOMAIN configs' = DOMAIN configs \cup {Len(configs) + 1}
        /\ configs'[Len(configs) + 1] = Draft(document)
        /\ \A c \in DOMAIN configs : configs'[c] = configs[c]
    BY <1>1, <1>2, Inserted
  <1>4. TypeOK'
    BY <1>3 DEF CreateConfig, Sound, TypeOK
  <1>5. References'
    BY <1>3, ReferencesStay DEF CreateConfig, Sound, Grows
  <1>6. ActiveStay
    BY <1>1, <1>3 DEF ActiveStay
  <1>q. QED BY <1>4, <1>5, <1>6 DEF Sound

LEMMA BeginSimulateSound ==
  ASSUME Sound, NEW q \in Requests, NEW c \in DOMAIN configs, BeginSimulate(q, c)
  PROVE  Sound'
  <1>1. Begin(q, "simulate", c, {}) /\ c \in Nat
    BY RowNumbers DEF BeginSimulate, Sound
  <1>2. /\ tx' \in [Requests -> Transactions]
        /\ tx'[q].op = "simulate" /\ tx'[q].ref = c /\ tx'[q].basis \in BasisSet
        /\ \A r \in Requests : r # q => tx'[r] = tx[r]
    BY <1>1, BeginTx DEF Sound
  <1>3. TypeOK'
    BY <1>2 DEF BeginSimulate, Sound, TypeOK
  <1>4. TxSound(q)'
    BY <1>2 DEF TxSound, BeginSimulate
  <1>5. References'
    BY <1>2, <1>4, ReferencesStay DEF BeginSimulate, Sound, Grows
  <1>q. QED BY <1>3, <1>5 DEF Sound

LEMMA EndSimulateSound ==
  ASSUME Sound, NEW q \in Requests, EndSimulate(q)
  PROVE  /\ Sound'
         /\ DOMAIN simulations' = DOMAIN simulations \cup {Len(simulations) + 1}
         /\ simulations'[Len(simulations) + 1].hash = SnapshotHash(Basis)
         /\ simulations'[Len(simulations) + 1].basis = tx[q].basis
         /\ \A s \in DOMAIN simulations : simulations'[s] = simulations[s]
  <1> DEFINE s == [config |-> tx[q].ref, hash |-> SnapshotHash(Basis),
                   basis |-> tx[q].basis]
  <1>1. tx[q].op = "simulate" /\ tx' = [tx EXCEPT ![q] = Idle]
    BY DEF EndSimulate, End
  <1>2. tx[q].ref \in DOMAIN configs /\ tx[q].basis \in BasisSet
    BY <1>1 DEF Sound, References, TxSound
  <1>3. SnapshotHash(Basis) \in HashSet
    BY DEF Sound, TypeOK, SnapshotHash, Basis, HashSet
  <1>4. s \in Simulations /\ s.config \in DOMAIN configs
    BY <1>2, <1>3, RowNumbers DEF Simulations, Sound
  <1>5. s.hash = SnapshotHash(Basis) /\ s.basis = tx[q].basis
    OBVIOUS
  <1>6. simulations \in Seq(Simulations) /\ simulations' = Append(simulations, s)
    BY DEF EndSimulate, Sound, TypeOK
  <1> HIDE DEF s
  <1>7. /\ simulations' \in Seq(Simulations)
        /\ DOMAIN simulations' = DOMAIN simulations \cup {Len(simulations) + 1}
        /\ simulations'[Len(simulations) + 1] = s
        /\ \A i \in DOMAIN simulations : simulations'[i] = simulations[i]
    BY <1>4, <1>6, Inserted
  <1>8. \A i \in DOMAIN simulations' : simulations'[i].config \in DOMAIN configs
    BY <1>4, <1>7 DEF Sound, TypeOK
  <1>9. /\ tx' \in [Requests -> Transactions] /\ TxSound(q)'
        /\ \A r \in Requests : r # q => tx'[r] = tx[r]
    BY <1>1, EndTx DEF Sound
  <1>10. TypeOK'
    BY <1>7, <1>8, <1>9 DEF EndSimulate, Sound, TypeOK
  <1>11. References'
    BY <1>7, <1>9, ReferencesStay DEF EndSimulate, Sound, Grows
  <1>q. QED BY <1>5, <1>7, <1>10, <1>11 DEF Sound

LEMMA BeginProposeSound ==
  ASSUME Sound, NEW q \in Requests, NEW s \in DOMAIN simulations, BeginPropose(q, s)
  PROVE  /\ Sound'
         /\ tx[q] = Idle /\ tx'[q].op = "propose"
         /\ OpenTasks = {} => tx'[q].read = {}
         /\ OpenTasks # {} => \E t \in OpenTasks : tx'[q].read = {t}
         /\ \A r \in Requests : r # q => tx'[r] = tx[r]
  <1>1. PICK read \in SUBSET DOMAIN tasks :
          /\ Begin(q, "propose", s, read)
          /\ OpenTasks = {} => read = {}
          /\ OpenTasks # {} => \E t \in OpenTasks : read = {t}
    BY DEF BeginPropose, OpenTasks
  <1>2. s \in Nat /\ read \in SUBSET Nat
    BY RowNumbers DEF Sound
  <1>3. /\ tx' \in [Requests -> Transactions] /\ tx[q] = Idle
        /\ tx'[q].op = "propose" /\ tx'[q].ref = s /\ tx'[q].basis \in BasisSet
        /\ tx'[q].read = read
        /\ \A r \in Requests : r # q => tx'[r] = tx[r]
    BY <1>1, <1>2, BeginTx DEF Sound
  <1>4. TypeOK'
    BY <1>3 DEF BeginPropose, Sound, TypeOK
  <1>5. TxSound(q)'
    BY <1>3 DEF TxSound, BeginPropose
  <1>6. References'
    BY <1>3, <1>5, ReferencesStay DEF BeginPropose, Sound, Grows
  <1>q. QED BY <1>1, <1>3, <1>4, <1>6 DEF Sound

LEMMA EndProposeSound ==
  ASSUME Sound, NEW q \in Requests, NEW user \in Users, EndPropose(q, user)
  PROVE  /\ Sound'
         /\ \A t \in DOMAIN tasks' :
               tasks'[t].status = "open" =>
                  t = Len(tasks) + 1 \/ t \in OpenTasks \ tx[q].read
         /\ \A t \in DOMAIN tasks :
               t \in DOMAIN tasks' /\ tasks'[t].simulation = tasks[t].simulation
  <1> DEFINE old == tx[q].read
             new == [simulation |-> tx[q].ref, proposer |-> user, status |-> "open"]
  <1>1. tx[q].op = "propose" /\ tx' = [tx EXCEPT ![q] = Idle]
    BY DEF EndPropose, End
  <1>2. tx[q].ref \in DOMAIN simulations
    BY <1>1 DEF Sound, References, TxSound
  <1>3. new \in Tasks /\ new.simulation \in DOMAIN simulations
    BY <1>2, RowNumbers DEF Tasks, Sound
  <1>4. tasks' = Append(Superseded(old), new) /\ tasks \in Seq(Tasks)
    BY DEF EndPropose, Sound, TypeOK
  <1> HIDE DEF new, old
  <1>5. /\ Superseded(old) \in Seq(Tasks)
        /\ DOMAIN Superseded(old) = DOMAIN tasks
        /\ Len(Superseded(old)) = Len(tasks)
        /\ \A t \in DOMAIN tasks :
              /\ Superseded(old)[t].simulation = tasks[t].simulation
              /\ Superseded(old)[t].status =
                    IF t \in old THEN "stale" ELSE tasks[t].status
    BY <1>4, SupersededRows
  <1>6. /\ tasks' \in Seq(Tasks)
        /\ DOMAIN tasks' = DOMAIN tasks \cup {Len(tasks) + 1}
        /\ tasks'[Len(tasks) + 1] = new
        /\ \A t \in DOMAIN tasks : tasks'[t] = Superseded(old)[t]
    BY <1>3, <1>4, <1>5, Inserted
  <1>7. \A t \in DOMAIN tasks' : tasks'[t].simulation \in DOMAIN simulations
    BY <1>3, <1>5, <1>6 DEF Sound, TypeOK
  <1>8. /\ tx' \in [Requests -> Transactions] /\ TxSound(q)'
        /\ \A r \in Requests : r # q => tx'[r] = tx[r]
    BY <1>1, EndTx DEF Sound
  <1>9. TypeOK'
    BY <1>6, <1>7, <1>8 DEF EndPropose, Sound, TypeOK
  <1>10. References'
    BY <1>6, <1>8, ReferencesStay DEF EndPropose, Sound, Grows
  <1>11. \A t \in DOMAIN tasks' :
           tasks'[t].status = "open" => t = Len(tasks) + 1 \/ t \in OpenTasks \ old
    BY <1>5, <1>6 DEF OpenTasks
  <1>12. \A t \in DOMAIN tasks :
            t \in DOMAIN tasks' /\ tasks'[t].simulation = tasks[t].simulation
    BY <1>5, <1>6
  <1>q. QED BY <1>9, <1>10, <1>11, <1>12 DEF Sound, old

\* The status of a task changes and nothing else.
LEMMA TaskSound ==
  ASSUME Sound, NEW t \in DOMAIN tasks, NEW s \in {"rejected", "stale"},
         tasks' = [tasks EXCEPT ![t].status = s],
         UNCHANGED <<configs, simulations, jobs, definition, mastered, data,
                     priority, tx, imported>>
  PROVE  /\ Sound'
         /\ DOMAIN tasks' = DOMAIN tasks
         /\ \A k \in DOMAIN tasks :
               /\ tasks'[k].simulation = tasks[k].simulation
               /\ tasks'[k].status = IF k = t THEN s ELSE tasks[k].status
  <1>1. tasks \in Seq(Tasks)
    BY DEF Sound, TypeOK
  <1>2. /\ tasks' \in Seq(Tasks) /\ DOMAIN tasks' = DOMAIN tasks
        /\ \A k \in DOMAIN tasks :
              /\ tasks'[k].simulation = tasks[k].simulation
              /\ tasks'[k].status = IF k = t THEN s ELSE tasks[k].status
    BY <1>1, TaskRestated
  <1>3. TypeOK'
    BY <1>2 DEF Sound, TypeOK
  <1>4. References'
    BY <1>2, ReferencesStay DEF Sound, Grows
  <1>q. QED BY <1>2, <1>3, <1>4 DEF Sound

LEMMA BeginApproveSound ==
  ASSUME Sound, NEW q \in Requests, NEW t \in DOMAIN tasks, NEW user,
         BeginApprove(q, t, user)
  PROVE  /\ Sound'
         /\ tx[q] = Idle /\ tx'[q].op = "activate" /\ tx'[q].ref = t
         /\ tx'[q].read = {c \in DOMAIN configs : configs[c].status = "active"}
         /\ \A r \in Requests : r # q => tx'[r] = tx[r]
  <1> DEFINE read == {c \in DOMAIN configs : configs[c].status = "active"}
  <1>1. Begin(q, "activate", t, read) /\ t \in Nat /\ read \in SUBSET Nat
    BY RowNumbers DEF BeginApprove, Sound
  <1> HIDE DEF read
  <1>2. /\ tx' \in [Requests -> Transactions] /\ tx[q] = Idle
        /\ tx'[q].op = "activate" /\ tx'[q].ref = t /\ tx'[q].read = read
        /\ tx'[q].basis \in BasisSet
        /\ \A r \in Requests : r # q => tx'[r] = tx[r]
    BY <1>1, BeginTx DEF Sound
  <1>3. TypeOK'
    BY <1>2 DEF BeginApprove, Sound, TypeOK
  <1>4. TxSound(q)'
    BY <1>2 DEF TxSound, BeginApprove
  <1>5. References'
    BY <1>2, <1>4, ReferencesStay DEF BeginApprove, Sound, Grows
  <1>q. QED BY <1>2, <1>3, <1>5 DEF Sound, read

\* What an activation does: to the configurations, the proposals, the policies
\* of the domains its document names, and the queue.
Approval(q, t, c, document) ==
    /\ tx[q].op = "activate" /\ t = tx[q].ref /\ c = ConfigOf(t)
    /\ document = configs[c].document
    /\ DOMAIN configs' = DOMAIN configs
    /\ \A k \in DOMAIN configs :
          /\ configs'[k].document = configs[k].document
          /\ configs'[k].status = IF k = c THEN "active"
                                  ELSE IF k \in tx[q].read THEN "retired"
                                  ELSE configs[k].status
    /\ DOMAIN document \subseteq Domains
    /\ \A d \in Domains : definition'[d] =
          IF d \in DOMAIN document THEN document[d] ELSE definition[d]
    /\ \A j \in DOMAIN jobs : j \in DOMAIN jobs' /\ jobs'[j] = jobs[j]
    /\ \A d \in DOMAIN document : \E j \in DOMAIN jobs' : jobs'[j] = Job(d, document[d])
    /\ DOMAIN tasks' = DOMAIN tasks
    /\ \A k \in DOMAIN tasks :
          /\ tasks'[k].simulation = tasks[k].simulation
          /\ tasks'[k].status = IF k = t THEN "approved" ELSE tasks[k].status
    /\ imported' = imported \ DOMAIN document

LEMMA EndApproveSound ==
  ASSUME Sound, NEW q \in Requests, EndApprove(q)
  PROVE  /\ Sound'
         /\ \E t \in DOMAIN tasks, c \in DOMAIN configs, document \in PartialPolicies :
               Approval(q, t, c, document)
         /\ tx'[q].op = "idle" /\ \A r \in Requests : r # q => tx'[r] = tx[r]
  <1>1. tx[q].op = "activate" /\ tx' = [tx EXCEPT ![q] = Idle]
    BY DEF EndApprove, End
  <1>2. PICK t \in DOMAIN tasks : t = tx[q].ref
    BY <1>1 DEF Sound, References, TxSound
  <1>3. PICK c \in DOMAIN configs : c = ConfigOf(t)
    BY DEF Sound, TypeOK, ConfigOf
  <1>4. PICK document \in PartialPolicies : document = configs[c].document
    <2>1. configs[c] \in Configs
      BY DEF Sound, TypeOK
    <2>q. QED BY <2>1, ConfigurationAssumption DEF Configs
  <1>5. /\ configs' = Activated(c, tx[q].read)
        /\ definition' = Applied(document)
        /\ \E order \in Orders(document) : jobs' = jobs \o RemasterJobs(document, order)
        /\ tasks' = [tasks EXCEPT ![t].status = "approved"]
        /\ imported' = imported \ DOMAIN document
        /\ UNCHANGED <<simulations, mastered, data, priority>>
    BY <1>2, <1>3, <1>4 DEF EndApprove
  <1>6. /\ configs \in Seq(Configs) /\ jobs \in Seq(Jobs) /\ tasks \in Seq(Tasks)
        /\ definition \in [Domains -> Policies]
    BY DEF Sound, TypeOK
  <1>7. /\ configs' \in Seq(Configs) /\ DOMAIN configs' = DOMAIN configs
        /\ \A k \in DOMAIN configs :
              /\ configs'[k].document = configs[k].document
              /\ configs'[k].status =
                    IF k = c THEN "active"
                    ELSE IF k \in tx[q].read THEN "retired" ELSE configs[k].status
    BY <1>5, <1>6, ActivatedRows
  <1>8. /\ DOMAIN document \subseteq Domains
        /\ definition' \in [Domains -> Policies]
        /\ \A d \in Domains : definition'[d] =
              IF d \in DOMAIN document THEN document[d] ELSE definition[d]
    BY <1>5, <1>6, AppliedType
  <1>9. /\ jobs' \in Seq(Jobs)
        /\ \A j \in DOMAIN jobs : j \in DOMAIN jobs' /\ jobs'[j] = jobs[j]
        /\ \A d \in DOMAIN document :
              \E j \in DOMAIN jobs' : jobs'[j] = Job(d, document[d])
    <2>1. PICK order \in Orders(document) : jobs' = jobs \o RemasterJobs(document, order)
      BY <1>5
    <2>2. jobs \in Seq(Jobs)
      BY <1>6
    <2>q. QED BY <2>1, <2>2, JobsQueued
  <1>10. /\ tasks' \in Seq(Tasks) /\ DOMAIN tasks' = DOMAIN tasks
         /\ \A k \in DOMAIN tasks :
               /\ tasks'[k].simulation = tasks[k].simulation
               /\ tasks'[k].status = IF k = t THEN "approved" ELSE tasks[k].status
    <2>1. tasks \in Seq(Tasks) /\ tasks' = [tasks EXCEPT ![t].status = "approved"]
      BY <1>5, <1>6
    <2>q. QED BY <2>1, TaskRestated
  <1>11. /\ tx' \in [Requests -> Transactions] /\ TxSound(q)' /\ tx'[q].op = "idle"
         /\ \A r \in Requests : r # q => tx'[r] = tx[r]
    BY <1>1, EndTx DEF Sound
  <1>12. TypeOK'
    BY <1>5, <1>7, <1>8, <1>9, <1>10, <1>11 DEF Sound, TypeOK
  <1>13. References'
    BY <1>5, <1>7, <1>9, <1>10, <1>11, ReferencesStay DEF Sound, Grows
  <1>14. Approval(q, t, c, document)
    BY <1>1, <1>2, <1>3, <1>4, <1>5, <1>7, <1>8, <1>9, <1>10 DEF Approval
  <1>q. QED BY <1>11, <1>12, <1>13, <1>14 DEF Sound

\* The status of a job changes and, at most, a transaction and what is computed.
LEMMA JobSound ==
  ASSUME Sound, NEW j \in DOMAIN jobs,
         NEW s \in {"queued", "running", "complete", "failed"},
         jobs' = [jobs EXCEPT ![j].status = s],
         tx' \in [Requests -> Transactions],
         \A r \in Requests : tx'[r] = tx[r] \/ TxSound(r)',
         mastered' \in [Domains -> Policies], data' \in Nat,
         UNCHANGED <<configs, simulations, tasks, definition, priority, imported>>
  PROVE  /\ Sound'
         /\ DOMAIN jobs' = DOMAIN jobs
         /\ \A k \in DOMAIN jobs :
               /\ jobs'[k].domain = jobs[k].domain /\ jobs'[k].policy = jobs[k].policy
               /\ jobs'[k].status = IF k = j THEN s ELSE jobs[k].status
  <1>1. jobs \in Seq(Jobs)
    BY DEF Sound, TypeOK
  <1>2. /\ jobs' \in Seq(Jobs) /\ DOMAIN jobs' = DOMAIN jobs
        /\ \A k \in DOMAIN jobs :
              /\ jobs'[k].domain = jobs[k].domain /\ jobs'[k].policy = jobs[k].policy
              /\ jobs'[k].status = IF k = j THEN s ELSE jobs[k].status
    BY <1>1, JobRestated
  <1>3. TypeOK'
    BY <1>2 DEF Sound, TypeOK
  <1>4. References'
    BY <1>2, ReferencesStay DEF Sound, Grows
  <1>q. QED BY <1>2, <1>3, <1>4 DEF Sound

LEMMA BeginRemasterSound ==
  ASSUME Sound, NEW q \in Workers, NEW j \in DOMAIN jobs, BeginRemaster(q, j)
  PROVE  /\ Sound'
         /\ DOMAIN jobs' = DOMAIN jobs
         /\ \A k \in DOMAIN jobs :
               /\ jobs'[k].domain = jobs[k].domain /\ jobs'[k].policy = jobs[k].policy
               /\ jobs'[k].status = IF k = j THEN "running" ELSE jobs[k].status
         /\ tx[q] = Idle /\ tx'[q].op = "remaster" /\ tx'[q].ref = j
         /\ \A r \in Requests : r # q => tx'[r] = tx[r]
  <1>1. q \in Requests
    BY ConfigurationAssumption
  <1>2. Begin(q, "remaster", j, {}) /\ j \in Nat
    BY RowNumbers DEF BeginRemaster, Sound
  <1>3. /\ tx' \in [Requests -> Transactions] /\ tx[q] = Idle
        /\ tx'[q].op = "remaster" /\ tx'[q].ref = j /\ tx'[q].basis \in BasisSet
        /\ \A r \in Requests : r # q => tx'[r] = tx[r]
    BY <1>1, <1>2, BeginTx DEF Sound
  <1>4. jobs' = [jobs EXCEPT ![j].status = "running"]
    BY DEF BeginRemaster, Claimed
  <1>5. jobs \in Seq(Jobs)
    BY DEF Sound, TypeOK
  <1>6. DOMAIN jobs' = DOMAIN jobs
    BY <1>4, <1>5, JobRestated
  <1>7. TxSound(q)'
    BY <1>3, <1>6 DEF TxSound
  <1>8. /\ mastered' \in [Domains -> Policies] /\ data' \in Nat
        /\ UNCHANGED <<configs, simulations, tasks, definition, priority, imported>>
    BY DEF BeginRemaster, Sound, TypeOK
  <1>9. /\ Sound'
        /\ \A k \in DOMAIN jobs :
              /\ jobs'[k].domain = jobs[k].domain /\ jobs'[k].policy = jobs[k].policy
              /\ jobs'[k].status = IF k = j THEN "running" ELSE jobs[k].status
    <2>1. \A r \in Requests : tx'[r] = tx[r] \/ TxSound(r)'
      BY <1>3, <1>7
    <2>q. QED BY <1>3, <1>4, <1>8, <2>1, JobSound
  <1>q. QED BY <1>3, <1>6, <1>9

LEMMA FailRemasterSound ==
  ASSUME Sound, NEW q, NEW j \in DOMAIN jobs, FailRemaster(q, j)
  PROVE  /\ Sound'
         /\ DOMAIN jobs' = DOMAIN jobs
         /\ \A k \in DOMAIN jobs :
               /\ jobs'[k].domain = jobs[k].domain /\ jobs'[k].policy = jobs[k].policy
               /\ jobs'[k].status = IF k = j THEN "failed" ELSE jobs[k].status
  <1>1. /\ jobs' = [jobs EXCEPT ![j].status = "failed"]
        /\ UNCHANGED <<configs, simulations, tasks, definition, mastered, data,
                       priority, tx, imported>>
    BY DEF FailRemaster
  <1>2. /\ tx' \in [Requests -> Transactions] /\ \A r \in Requests : tx'[r] = tx[r]
        /\ mastered' \in [Domains -> Policies] /\ data' \in Nat
    BY <1>1 DEF Sound, TypeOK
  <1>q. QED BY <1>1, <1>2, JobSound

LEMMA EndRemasterSound ==
  ASSUME Sound, NEW q \in Requests, EndRemaster(q)
  PROVE  /\ Sound'
         /\ \E j \in DOMAIN jobs :
               /\ tx[q].op = "remaster" /\ j = tx[q].ref
               /\ DOMAIN jobs' = DOMAIN jobs
               /\ \A k \in DOMAIN jobs :
                     /\ jobs'[k].domain = jobs[k].domain
                     /\ jobs'[k].policy = jobs[k].policy
                     /\ jobs'[k].status = IF k = j THEN "complete" ELSE jobs[k].status
               /\ jobs[j].domain \in Domains
               /\ \A d \in Domains : mastered'[d] =
                     IF d = jobs[j].domain THEN jobs[j].policy ELSE mastered[d]
         /\ tx'[q].op = "idle" /\ \A r \in Requests : r # q => tx'[r] = tx[r]
  <1>1. tx[q].op = "remaster" /\ tx' = [tx EXCEPT ![q] = Idle]
    BY DEF EndRemaster, End
  <1>2. PICK j \in DOMAIN jobs : j = tx[q].ref
    BY <1>1 DEF Sound, References, TxSound
  <1>3. jobs[j].domain \in Domains /\ jobs[j].policy \in Policies
    <2>1. jobs[j] \in Jobs
      BY DEF Sound, TypeOK
    <2>q. QED BY <2>1 DEF Jobs
  <1>4. /\ jobs' = [jobs EXCEPT ![j].status = "complete"]
        /\ mastered' = [mastered EXCEPT ![jobs[j].domain] = jobs[j].policy]
        /\ data' = data + 1
        /\ UNCHANGED <<configs, simulations, tasks, definition, priority, imported>>
    BY <1>2 DEF EndRemaster
  <1>5. /\ mastered' \in [Domains -> Policies] /\ data' \in Nat
        /\ \A d \in Domains : mastered'[d] =
              IF d = jobs[j].domain THEN jobs[j].policy ELSE mastered[d]
    BY <1>3, <1>4 DEF Sound, TypeOK
  <1>6. /\ tx' \in [Requests -> Transactions] /\ TxSound(q)' /\ tx'[q].op = "idle"
        /\ \A r \in Requests : r # q => tx'[r] = tx[r]
    BY <1>1, EndTx DEF Sound
  <1>7. /\ Sound' /\ DOMAIN jobs' = DOMAIN jobs
        /\ \A k \in DOMAIN jobs :
              /\ jobs'[k].domain = jobs[k].domain /\ jobs'[k].policy = jobs[k].policy
              /\ jobs'[k].status = IF k = j THEN "complete" ELSE jobs[k].status
    BY <1>4, <1>5, <1>6, JobSound
  <1>q. QED BY <1>1, <1>2, <1>3, <1>5, <1>6, <1>7

\* Data change, and nothing else.
LEMMA ChangeDataSound ==
  ASSUME Sound, NEW q, ChangeData(q)
  PROVE  Sound'
  <1>1. TypeOK'
    BY DEF ChangeData, Sound, TypeOK
  <1>2. References'
    BY ReferencesStay DEF ChangeData, Sound, Grows
  <1>q. QED BY <1>1, <1>2 DEF Sound

\* A bundle replaces policies, remembers which, and may bring one draft.
LEMMA ImportSound ==
  ASSUME Sound, NEW q, NEW b \in Bundles, ImportBundle(q, b)
  PROVE  /\ Sound'
         /\ ActiveStay
         /\ \A d \in Domains : d \in imported' \/ definition'[d] = definition[d]
         /\ imported \subseteq imported'
         /\ b.priority \in Priorities /\ priority' = b.priority
         /\ UNCHANGED <<simulations, tasks, jobs, mastered, data, tx>>
  <1>1. /\ b.domains \in PartialPolicies /\ b.priority \in Priorities
        /\ b.documents \in {{}} \cup {{d} : d \in Documents}
    BY ConfigurationAssumption
  <1>2. b.documents \subseteq Documents
    BY <1>1
  <1>3. /\ definition' = Applied(b.domains) /\ priority' = b.priority
        /\ imported' = imported \cup DOMAIN b.domains
        /\ UNCHANGED <<simulations, tasks, jobs, mastered, data, tx>>
    BY DEF ImportBundle
  <1>4. /\ DOMAIN b.domains \subseteq Domains /\ definition' \in [Domains -> Policies]
        /\ \A d \in Domains : definition'[d] =
              IF d \in DOMAIN b.domains THEN b.domains[d] ELSE definition[d]
    BY <1>1, <1>3, AppliedType DEF Sound, TypeOK
  <1>5. configs \in Seq(Configs)
    BY DEF Sound, TypeOK
  <1>6. /\ configs' \in Seq(Configs)
        /\ \A c \in DOMAIN configs : c \in DOMAIN configs' /\ configs'[c] = configs[c]
        /\ \A c \in DOMAIN configs' \ DOMAIN configs : configs'[c].status = "draft"
    <2>1. CASE configs' = configs
      BY <1>5, <2>1
    <2>2. ASSUME NEW document \in Documents, configs' = Append(configs, Draft(document))
          PROVE  <1>6!1 /\ <1>6!2 /\ <1>6!3
      <3>1. Draft(document) \in Configs /\ Draft(document).status = "draft"
        BY DEF Draft, Configs
      <3>q. QED BY <1>5, <2>2, <3>1, Inserted
    <2>q. QED BY <1>2, <2>1, <2>2 DEF ImportBundle
  <1>7. TypeOK'
    BY <1>1, <1>3, <1>4, <1>6 DEF Sound, TypeOK
  <1>8. References'
    BY <1>3, <1>6, ReferencesStay DEF Sound, Grows
  <1>9. ActiveStay
    BY <1>6 DEF ActiveStay
  <1>q. QED BY <1>1, <1>3, <1>4, <1>7, <1>8, <1>9 DEF Sound

\* A transaction is lost, and the job it ran is queued again.
LEMMA CrashSound ==
  ASSUME Sound, NEW q \in Requests, Crash(q)
  PROVE  /\ Sound'
         /\ DOMAIN jobs' = DOMAIN jobs
         /\ \A k \in DOMAIN jobs :
               /\ jobs'[k].domain = jobs[k].domain /\ jobs'[k].policy = jobs[k].policy
               /\ jobs'[k].status =
                     IF tx[q].op = "remaster" /\ k = tx[q].ref THEN "queued"
                     ELSE jobs[k].status
         /\ tx'[q].op = "idle" /\ \A r \in Requests : r # q => tx'[r] = tx[r]
  <1>1. /\ tx' = [tx EXCEPT ![q] = Idle]
        /\ UNCHANGED <<configs, simulations, tasks, definition, mastered, data,
                       priority, imported>>
    BY DEF Crash
  <1>2. /\ tx' \in [Requests -> Transactions] /\ TxSound(q)' /\ tx'[q].op = "idle"
        /\ \A r \in Requests : r # q => tx'[r] = tx[r]
    BY <1>1, EndTx DEF Sound
  <1>3. mastered' \in [Domains -> Policies] /\ data' \in Nat
    BY <1>1 DEF Sound, TypeOK
  <1>4. CASE tx[q].op = "remaster"
    <2>1. PICK j \in DOMAIN jobs : j = tx[q].ref
      BY <1>4 DEF Sound, References, TxSound
    <2>2. jobs' = [jobs EXCEPT ![j].status = "queued"]
      BY <1>4, <2>1 DEF Crash
    <2>3. /\ Sound' /\ DOMAIN jobs' = DOMAIN jobs
          /\ \A k \in DOMAIN jobs :
                /\ jobs'[k].domain = jobs[k].domain /\ jobs'[k].policy = jobs[k].policy
                /\ jobs'[k].status = IF k = j THEN "queued" ELSE jobs[k].status
      BY <1>1, <1>2, <1>3, <2>2, JobSound
    <2>q. QED BY <1>2, <1>4, <2>1, <2>3
  <1>5. CASE tx[q].op # "remaster"
    <2>1. jobs' = jobs
      BY <1>5 DEF Crash
    <2>2. TypeOK'
      BY <1>1, <1>2, <2>1 DEF Sound, TypeOK
    <2>3. References'
      BY <1>1, <1>2, <2>1, ReferencesStay DEF Sound, Grows
    <2>q. QED BY <1>2, <1>5, <2>1, <2>2, <2>3 DEF Sound
  <1>q. QED BY <1>4, <1>5

-----------------------------------------------------------------------------
(* Types and references.                                                   *)

LEMMA InitSound ==
  ASSUME Init
  PROVE  Sound
  <1>1. /\ configs = <<>> /\ simulations = <<>> /\ tasks = <<>> /\ jobs = <<>>
        /\ definition = [d \in Domains |-> InitialPolicy] /\ mastered = definition
        /\ data = 0 /\ priority = 0 /\ imported = {}
        /\ tx = [q \in Requests |-> Idle]
    BY DEF Init
  <1>2. Idle \in Transactions
    BY DEF Idle, Transactions
  <1>3. TypeOK
    BY <1>1, <1>2, ConfigurationAssumption DEF TypeOK, Priorities
  <1>4. References
    BY <1>1 DEF References, TxSound, Idle
  <1>q. QED BY <1>3, <1>4 DEF Sound

LEMMA StutterSound ==
  ASSUME Sound, UNCHANGED vars
  PROVE  Sound'
  <1>1. TypeOK'
    BY DEF Sound, TypeOK, vars
  <1>2. References'
    BY DEF Sound, References, TxSound, vars
  <1>q. QED BY <1>1, <1>2 DEF Sound

LEMMA RevertConfigSound ==
  ASSUME Sound, NEW q \in Requests, NEW c \in DOMAIN configs, RevertConfig(q, c)
  PROVE  \E document \in Documents : CreateConfig(q, document)
  <1>1. configs[c] \in Configs
    BY DEF Sound, TypeOK
  <1>2. configs[c].document \in Documents
    BY <1>1 DEF Configs
  <1>q. QED BY <1>2 DEF RevertConfig

\* Every request keeps the types and the references.
LEMMA NextSound ==
  ASSUME Sound, [Next]_vars
  PROVE  Sound'
  <1>1. CASE UNCHANGED vars
    BY <1>1, StutterSound
  <1>2. ASSUME NEW q \in Requests, NEW document \in Documents,
               CreateConfig(q, document)
        PROVE  Sound'
    BY <1>2, CreateSound
  <1>3. ASSUME NEW q \in Requests, NEW c \in DOMAIN configs,
               RevertConfig(q, c) \/ BeginSimulate(q, c)
        PROVE  Sound'
    BY <1>2, <1>3, RevertConfigSound, BeginSimulateSound
  <1>4. ASSUME NEW q \in Requests, EndSimulate(q)
        PROVE  Sound'
    BY <1>4, EndSimulateSound
  <1>5. ASSUME NEW q \in Requests, NEW s \in DOMAIN simulations, BeginPropose(q, s)
        PROVE  Sound'
    BY <1>5, BeginProposeSound
  <1>6. ASSUME NEW q \in Requests, NEW user \in Users, EndPropose(q, user)
        PROVE  Sound'
    BY <1>6, EndProposeSound
  <1>7. ASSUME NEW q \in Requests, NEW t \in DOMAIN tasks, NEW user \in Users,
               RejectTask(q, t, user)
        PROVE  Sound'
    <2>1. tasks' = [tasks EXCEPT ![t].status = "rejected"]
      BY <1>7 DEF RejectTask
    <2>2. UNCHANGED <<configs, simulations, jobs, definition, mastered, data,
                      priority, tx, imported>>
      BY <1>7 DEF RejectTask
    <2>q. QED BY <2>1, <2>2, TaskSound
  <1>8. ASSUME NEW q \in Requests, NEW t \in DOMAIN tasks, NEW user \in Users,
               ApproveStale(q, t, user)
        PROVE  Sound'
    <2>1. tasks' = [tasks EXCEPT ![t].status = "stale"]
      BY <1>8 DEF ApproveStale
    <2>2. UNCHANGED <<configs, simulations, jobs, definition, mastered, data,
                      priority, tx, imported>>
      BY <1>8 DEF ApproveStale
    <2>q. QED BY <2>1, <2>2, TaskSound
  <1>9. ASSUME NEW q \in Requests, NEW t \in DOMAIN tasks, NEW user \in Users,
               BeginApprove(q, t, user)
        PROVE  Sound'
    BY <1>9, BeginApproveSound
  <1>10. ASSUME NEW q \in Requests, EndApprove(q)
         PROVE  Sound'
    BY <1>10, EndApproveSound
  <1>11. ASSUME NEW q \in Workers, NEW j \in DOMAIN jobs,
                BeginRemaster(q, j) \/ FailRemaster(q, j)
         PROVE  Sound'
    BY <1>11, BeginRemasterSound, FailRemasterSound
  <1>12. ASSUME NEW q \in Requests, EndRemaster(q)
         PROVE  Sound'
    BY <1>12, EndRemasterSound
  <1>13. ASSUME NEW q \in Requests, ChangeData(q)
         PROVE  Sound'
    BY <1>13, ChangeDataSound
  <1>14. ASSUME NEW q \in Requests, NEW b \in Bundles, ImportBundle(q, b)
         PROVE  Sound'
    BY <1>14, ImportSound
  <1>15. ASSUME NEW q \in Requests, Crash(q)
         PROVE  Sound'
    BY <1>15, CrashSound
  <1>q. QED
    BY <1>1, <1>2, <1>3, <1>4, <1>5, <1>6, <1>7, <1>8, <1>9, <1>10, <1>11, <1>12,
       <1>13, <1>14, <1>15 DEF Next, RunJob

\* The invariant of every behaviour: types, and the rows that transactions
\* refer to.
LEMMA AlwaysSound == Spec => []Sound
  <1>1. Init => Sound
    BY InitSound
  <1>2. Sound /\ [Next]_vars => Sound'
    BY NextSound
  <1>q. QED BY <1>1, <1>2, PTL DEF Spec

\* Whatever number of requests interleave their reads and their commits, every
\* row keeps its type and every reference, from a simulation to its
\* configuration and from a proposal to its simulation, names a row
\* (core.configurations).
THEOREM TypeCorrect == Spec => []TypeOK
  <1>1. Sound => TypeOK
    BY DEF Sound
  <1>q. QED BY <1>1, AlwaysSound, PTL

-----------------------------------------------------------------------------
(* Remastering.                                                            *)

\* Two workers do not remaster one domain at once.
OneJobPerDomain ==
    \A q, r \in Requests :
        /\ tx[q].op = "remaster" /\ tx[r].op = "remaster"
        /\ jobs[tx[q].ref].domain = jobs[tx[r].ref].domain
        => q = r

Remastering == Sound /\ MasteredOrQueued /\ ReplacedAwaited

\* The jobs that are waited for stay: a row stays, and its status with it
\* unless its policy is obsolete.
JobsStay ==
    \A j \in DOMAIN jobs :
        /\ j \in DOMAIN jobs'
        /\ jobs'[j].domain = jobs[j].domain /\ jobs'[j].policy = jobs[j].policy
        /\ \/ jobs'[j].status \in {"queued", "running"}
           \/ jobs'[j].status = jobs[j].status
           \/ definition[jobs[j].domain] # jobs[j].policy

LEMMA AwaitedStays ==
  ASSUME JobsStay, NEW d, definition'[d] = definition[d], Awaited(d)
  PROVE  Awaited(d)'
  <1>1. PICK j \in DOMAIN jobs : Pending(j, d, definition[d])
    BY DEF Awaited
  <1>2. j \in DOMAIN jobs' /\ Pending(j, d, definition[d])'
    BY <1>1 DEF Pending, JobsStay
  <1>q. QED BY <1>2 DEF Awaited

\* A job names a domain.
LEMMA JobAt ==
  ASSUME Sound, NEW r \in Requests, tx[r].op = "remaster"
  PROVE  /\ tx[r].ref \in DOMAIN jobs /\ r \in Workers
         /\ jobs[tx[r].ref].domain \in Domains
  <1>1. tx[r].ref \in DOMAIN jobs /\ r \in Workers
    BY DEF Sound, References, TxSound
  <1>2. jobs[tx[r].ref] \in Jobs
    BY <1>1 DEF Sound, TypeOK
  <1>q. QED BY <1>1, <1>2 DEF Jobs

\* A step that computes no domain and gives none a policy for which no job
\* waits, other than by a bundle, leaves no domain behind.
LEMMA PoliciesAwaited ==
  ASSUME Remastering, JobsStay, mastered' = mastered,
         \A d \in Domains :
            \/ d \in imported'
            \/ d \notin imported /\ definition'[d] = definition[d]
            \/ Awaited(d)',
         \A r \in Requests :
            \/ tx'[r] = tx[r]
            \/ tx'[r].op # "remaster"
            \/ definition'[jobs'[tx'[r].ref].domain] = jobs'[tx'[r].ref].policy
  PROVE  MasteredOrQueued' /\ ReplacedAwaited'
  <1>1. ASSUME NEW d \in Domains \ imported', mastered'[d] # definition'[d]
        PROVE  Awaited(d)'
    <2>1. CASE Awaited(d)'
      BY <2>1
    <2>2. CASE d \notin imported /\ definition'[d] = definition[d]
      <3>1. Awaited(d)
        BY <1>1, <2>2 DEF Remastering, MasteredOrQueued, Awaited, Pending
      <3>q. QED BY <2>2, <3>1, AwaitedStays
    <2>q. QED BY <1>1, <2>1, <2>2
  <1>2. MasteredOrQueued'
    BY <1>1 DEF MasteredOrQueued, Awaited, Pending
  <1>3. ASSUME NEW r \in Requests
        PROVE  RunAwaited(r)'
    <2>1. CASE tx'[r] = tx[r] /\ tx[r].op = "remaster"
      <3>1. PICK j : j = tx[r].ref /\ j \in DOMAIN jobs
        BY <2>1, JobAt DEF Remastering
      <3>2. /\ tx'[r].ref = j /\ jobs'[j].domain = jobs[j].domain
            /\ jobs'[j].policy = jobs[j].policy
        BY <2>1, <3>1 DEF JobsStay
      <3>3. ASSUME NEW d \in Domains, jobs[j].domain = d
            PROVE  d \in imported' \/ definition'[d] = jobs[j].policy \/ Awaited(d)'
        <4>1. d \in imported \/ definition[d] = jobs[j].policy \/ Awaited(d)
          BY <2>1, <3>1, <3>3 DEF Remastering, ReplacedAwaited, RunAwaited
        <4>2. CASE d \notin imported /\ definition'[d] = definition[d]
          BY <4>1, <4>2, AwaitedStays
        <4>q. QED BY <4>2
      <3>q. QED BY <3>2, <3>3 DEF RunAwaited
    <2>2. CASE tx'[r].op # "remaster"
      BY <2>2 DEF RunAwaited
    <2>3. CASE definition'[jobs'[tx'[r].ref].domain] = jobs'[tx'[r].ref].policy
      BY <2>3 DEF RunAwaited
    <2>q. QED BY <2>1, <2>2, <2>3
  <1>4. ReplacedAwaited'
    BY <1>3 DEF ReplacedAwaited
  <1>q. QED BY <1>2, <1>4

\* An activation queues a job for every domain it gives a policy to.
LEMMA EndApproveAwaits ==
  ASSUME Remastering, NEW q \in Requests, EndApprove(q)
  PROVE  MasteredOrQueued' /\ ReplacedAwaited'
  <1>1. PICK t \in DOMAIN tasks, c \in DOMAIN configs, document \in PartialPolicies :
           Approval(q, t, c, document)
    BY EndApproveSound DEF Remastering
  <1>2. tx'[q].op = "idle" /\ \A r \in Requests : r # q => tx'[r] = tx[r]
    BY EndApproveSound DEF Remastering
  <1>3. JobsStay
    BY <1>1 DEF Approval, JobsStay
  <1>4. ASSUME NEW d \in Domains, d \in DOMAIN document
        PROVE  Awaited(d)'
    <2>1. PICK j \in DOMAIN jobs' : jobs'[j] = Job(d, document[d])
      BY <1>1, <1>4 DEF Approval
    <2>2. definition'[d] = document[d]
      BY <1>1, <1>4 DEF Approval
    <2>3. Pending(j, d, definition[d])'
      BY <2>1, <2>2 DEF Pending, Job
    <2>q. QED BY <2>3 DEF Awaited
  <1>5. \A d \in Domains : \/ d \in imported'
                           \/ d \notin imported /\ definition'[d] = definition[d]
                           \/ Awaited(d)'
    BY <1>1, <1>4 DEF Approval
  <1>6. mastered' = mastered
    BY DEF EndApprove
  <1>7. \A r \in Requests : tx'[r] = tx[r] \/ tx'[r].op # "remaster"
    BY <1>2
  <1>q. QED BY <1>3, <1>5, <1>6, <1>7, PoliciesAwaited

\* A worker has computed a domain.  If an activation replaced the policy
\* meanwhile, its job waits.
LEMMA EndRemasterAwaits ==
  ASSUME OneJobPerDomain, Remastering, NEW q \in Requests, EndRemaster(q)
  PROVE  MasteredOrQueued' /\ ReplacedAwaited'
  <1>1. PICK j \in DOMAIN jobs :
          /\ tx[q].op = "remaster" /\ j = tx[q].ref
          /\ DOMAIN jobs' = DOMAIN jobs
          /\ \A k \in DOMAIN jobs :
                /\ jobs'[k].domain = jobs[k].domain
                /\ jobs'[k].policy = jobs[k].policy
                /\ jobs'[k].status = IF k = j THEN "complete" ELSE jobs[k].status
          /\ jobs[j].domain \in Domains
          /\ \A d \in Domains : mastered'[d] =
                IF d = jobs[j].domain THEN jobs[j].policy ELSE mastered[d]
    BY EndRemasterSound DEF Remastering
  <1>2. tx'[q].op = "idle" /\ \A r \in Requests : r # q => tx'[r] = tx[r]
    BY EndRemasterSound DEF Remastering
  <1>3. definition' = definition /\ imported' = imported
    BY DEF EndRemaster
  <1>4. ASSUME NEW d \in Domains, Awaited(d),
               d # jobs[j].domain \/ definition[d] # jobs[j].policy
        PROVE  Awaited(d)'
    <2>1. PICK k \in DOMAIN jobs : Pending(k, d, definition[d])
      BY <1>4 DEF Awaited
    <2>2. k # j
      BY <1>4, <2>1 DEF Pending
    <2>3. k \in DOMAIN jobs' /\ Pending(k, d, definition[d])'
      BY <1>1, <1>3, <2>1, <2>2 DEF Pending
    <2>q. QED BY <2>3 DEF Awaited
  <1>5. ASSUME NEW d \in Domains \ imported', mastered'[d] # definition'[d]
        PROVE  Awaited(d)'
    <2>1. CASE d = jobs[j].domain
      <3>1. Awaited(d) /\ definition[d] # jobs[j].policy
        BY <1>1, <1>3, <1>5, <2>1 DEF Remastering, ReplacedAwaited, RunAwaited
      <3>q. QED BY <1>4, <3>1
    <2>2. CASE d # jobs[j].domain
      <3>1. Awaited(d)
        BY <1>1, <1>3, <1>5, <2>2 DEF Remastering, MasteredOrQueued, Awaited, Pending
      <3>q. QED BY <1>4, <2>2, <3>1
    <2>q. QED BY <2>1, <2>2
  <1>6. MasteredOrQueued'
    BY <1>5 DEF MasteredOrQueued, Awaited, Pending
  <1>7. ASSUME NEW r \in Requests
        PROVE  RunAwaited(r)'
    <2>1. CASE tx'[r].op # "remaster"
      BY <2>1 DEF RunAwaited
    <2>2. CASE tx'[r].op = "remaster"
      <3>1. r # q /\ tx'[r] = tx[r] /\ tx[r].op = "remaster"
        BY <1>2, <2>2
      <3>2. PICK k \in DOMAIN jobs : k = tx[r].ref
        BY <3>1, JobAt DEF Remastering
      <3>3. jobs[k].domain # jobs[j].domain
        BY <1>1, <3>1, <3>2 DEF OneJobPerDomain
      <3>4. /\ tx'[r].ref = k /\ jobs'[k].domain = jobs[k].domain
            /\ jobs'[k].policy = jobs[k].policy
        BY <1>1, <3>1, <3>2
      <3>5. ASSUME NEW d \in Domains, jobs[k].domain = d
            PROVE  d \in imported' \/ definition'[d] = jobs[k].policy \/ Awaited(d)'
        <4>1. d \in imported \/ definition[d] = jobs[k].policy \/ Awaited(d)
          BY <3>1, <3>2, <3>5 DEF Remastering, ReplacedAwaited, RunAwaited
        <4>q. QED BY <1>3, <1>4, <3>3, <3>5, <4>1
      <3>q. QED BY <3>4, <3>5 DEF RunAwaited
    <2>q. QED BY <2>1, <2>2
  <1>8. ReplacedAwaited'
    BY <1>7 DEF ReplacedAwaited
  <1>q. QED BY <1>6, <1>8

\* What is neither an activation, nor a bundle, nor remastering.
LEMMA OthersAwait ==
  ASSUME Remastering, UNCHANGED <<jobs, definition, mastered, imported>>,
         \A r \in Requests : tx'[r] = tx[r] \/ tx'[r].op # "remaster"
  PROVE  MasteredOrQueued' /\ ReplacedAwaited'
  <1>1. JobsStay
    BY DEF JobsStay
  <1>2. \A d \in Domains : d \in imported' \/ (d \notin imported /\ definition'[d] = definition[d])
    OBVIOUS
  <1>3. mastered' = mastered
    OBVIOUS
  <1>q. QED BY <1>1, <1>2, <1>3, PoliciesAwaited

\* A job starts, fails or is lost: it, or another one, is still there for a
\* domain that waits.
LEMMA JobAwaits ==
  ASSUME Remastering, NEW q \in Requests,
         \/ q \in Workers /\ \E j \in DOMAIN jobs : BeginRemaster(q, j) \/ FailRemaster(q, j)
         \/ Crash(q)
  PROVE  MasteredOrQueued' /\ ReplacedAwaited'
  <1>1. Sound
    BY DEF Remastering
  <1>2. UNCHANGED <<definition, mastered, imported>>
    BY DEF BeginRemaster, FailRemaster, Crash
  <1>3. \A d \in Domains : d \in imported' \/ (d \notin imported /\ definition'[d] = definition[d])
    BY <1>2
  <1>4. ASSUME NEW j \in DOMAIN jobs, q \in Workers, BeginRemaster(q, j)
        PROVE  MasteredOrQueued' /\ ReplacedAwaited'
    <2>1. /\ DOMAIN jobs' = DOMAIN jobs
          /\ \A k \in DOMAIN jobs :
                /\ jobs'[k].domain = jobs[k].domain /\ jobs'[k].policy = jobs[k].policy
                /\ jobs'[k].status = IF k = j THEN "running" ELSE jobs[k].status
          /\ tx'[q].op = "remaster" /\ tx'[q].ref = j
          /\ \A r \in Requests : r # q => tx'[r] = tx[r]
      BY <1>1, <1>4, BeginRemasterSound
    <2>2. JobsStay
      BY <2>1 DEF JobsStay
    <2>3. definition'[jobs'[tx'[q].ref].domain] = jobs'[tx'[q].ref].policy
      BY <1>2, <1>4, <2>1 DEF BeginRemaster
    <2>4. \A r \in Requests :
            \/ tx'[r] = tx[r]
            \/ tx'[r].op # "remaster"
            \/ definition'[jobs'[tx'[r].ref].domain] = jobs'[tx'[r].ref].policy
      BY <2>1, <2>3
    <2>q. QED BY <1>2, <1>3, <2>2, <2>4, PoliciesAwaited
  <1>5. ASSUME NEW j \in DOMAIN jobs, FailRemaster(q, j)
        PROVE  MasteredOrQueued' /\ ReplacedAwaited'
    <2>1. /\ DOMAIN jobs' = DOMAIN jobs
          /\ \A k \in DOMAIN jobs :
                /\ jobs'[k].domain = jobs[k].domain /\ jobs'[k].policy = jobs[k].policy
                /\ jobs'[k].status = IF k = j THEN "failed" ELSE jobs[k].status
      BY <1>1, <1>5, FailRemasterSound
    <2>2. definition[jobs[j].domain] # jobs[j].policy /\ tx' = tx
      BY <1>5 DEF FailRemaster
    <2>3. JobsStay
      BY <2>1, <2>2 DEF JobsStay
    <2>4. \A r \in Requests : tx'[r] = tx[r]
      BY <2>2
    <2>q. QED BY <1>2, <1>3, <2>3, <2>4, PoliciesAwaited
  <1>6. CASE Crash(q)
    <2>1. /\ DOMAIN jobs' = DOMAIN jobs
          /\ \A k \in DOMAIN jobs :
                /\ jobs'[k].domain = jobs[k].domain /\ jobs'[k].policy = jobs[k].policy
                /\ jobs'[k].status =
                      IF tx[q].op = "remaster" /\ k = tx[q].ref THEN "queued"
                      ELSE jobs[k].status
          /\ tx'[q].op = "idle" /\ \A r \in Requests : r # q => tx'[r] = tx[r]
      BY <1>1, <1>6, CrashSound
    <2>2. JobsStay
      BY <2>1 DEF JobsStay
    <2>3. \A r \in Requests : tx'[r] = tx[r] \/ tx'[r].op # "remaster"
      BY <2>1
    <2>q. QED BY <1>2, <1>3, <2>2, <2>3, PoliciesAwaited
  <1>q. QED BY <1>4, <1>5, <1>6

\* A bundle is remembered for every policy it replaces.
LEMMA ImportAwaits ==
  ASSUME Remastering, NEW q, NEW b \in Bundles, ImportBundle(q, b)
  PROVE  MasteredOrQueued' /\ ReplacedAwaited'
  <1>1. /\ \A d \in Domains : d \in imported' \/ definition'[d] = definition[d]
        /\ imported \subseteq imported'
        /\ UNCHANGED <<jobs, mastered, tx>>
    BY ImportSound DEF Remastering
  <1>2. JobsStay
    BY <1>1 DEF JobsStay
  <1>3. \A d \in Domains : d \in imported' \/ (d \notin imported /\ definition'[d] = definition[d])
    BY <1>1
  <1>4. \A r \in Requests : tx'[r] = tx[r]
    BY <1>1
  <1>5. mastered' = mastered
    BY <1>1
  <1>q. QED BY <1>2, <1>3, <1>4, <1>5, PoliciesAwaited

\* The requests that OthersAwait is about.
Others(q) ==
    \/ \E document \in Documents : CreateConfig(q, document)
    \/ \E c \in DOMAIN configs : RevertConfig(q, c) \/ BeginSimulate(q, c)
    \/ EndSimulate(q)
    \/ \E s \in DOMAIN simulations : BeginPropose(q, s)
    \/ \E user \in Users : EndPropose(q, user)
    \/ \E t \in DOMAIN tasks, user \in Users :
          \/ RejectTask(q, t, user)
          \/ ApproveStale(q, t, user)
          \/ BeginApprove(q, t, user)
    \/ ChangeData(q)

LEMMA OthersFrame ==
  ASSUME Sound, NEW q \in Requests, Others(q)
  PROVE  /\ UNCHANGED <<jobs, definition, mastered, imported>>
         /\ \A r \in Requests : tx'[r] = tx[r] \/ tx'[r].op # "remaster"
  <1>1. UNCHANGED <<jobs, definition, mastered, imported>>
    BY DEF Others, CreateConfig, RevertConfig, BeginSimulate, EndSimulate, BeginPropose,
           EndPropose, RejectTask, ApproveStale, BeginApprove, ChangeData
  <1>2. tx \in [Requests -> Transactions]
    BY DEF Sound, TypeOK
  <1>3. ASSUME NEW t, t.op # "remaster", tx' = [tx EXCEPT ![q] = t]
        PROVE  \A r \in Requests : tx'[r] = tx[r] \/ tx'[r].op # "remaster"
    BY <1>2, <1>3
  <1>4. Idle.op # "remaster"
    BY DEF Idle
  <1>5. ASSUME NEW op \in {"simulate", "propose", "activate"}, NEW ref, NEW read,
               Begin(q, op, ref, read)
        PROVE  \A r \in Requests : tx'[r] = tx[r] \/ tx'[r].op # "remaster"
    <2> DEFINE t == [op |-> op, ref |-> ref, read |-> read, basis |-> Basis]
    <2>1. t.op # "remaster"
      OBVIOUS
    <2>2. tx' = [tx EXCEPT ![q] = t]
      BY <1>5 DEF Begin
    <2> HIDE DEF t
    <2>q. QED BY <1>3, <2>1, <2>2
  <1>6. \/ tx' = tx
        \/ tx' = [tx EXCEPT ![q] = Idle]
        \/ \E op \in {"simulate", "propose", "activate"} : \E ref, read :
              Begin(q, op, ref, read)
    BY DEF Others, CreateConfig, RevertConfig, BeginSimulate, EndSimulate, BeginPropose,
           EndPropose, RejectTask, ApproveStale, BeginApprove, ChangeData, End
  <1>q. QED BY <1>1, <1>3, <1>4, <1>5, <1>6

\* Every step is one of these.
LEMMA Requested ==
  ASSUME Next
  PROVE  \E q \in Requests :
            \/ Others(q)
            \/ EndApprove(q)
            \/ q \in Workers /\ \E j \in DOMAIN jobs : BeginRemaster(q, j) \/ FailRemaster(q, j)
            \/ q \in Workers /\ EndRemaster(q)
            \/ \E b \in Bundles : ImportBundle(q, b)
            \/ Crash(q)
  <1>1. PICK q \in Requests :
          \/ Others(q)
          \/ EndApprove(q)
          \/ q \in Workers /\ RunJob(q)
          \/ \E b \in Bundles : ImportBundle(q, b)
          \/ Crash(q)
    BY DEF Next, Others
  <1>q. QED BY <1>1 DEF RunJob

LEMMA RemasteringStep ==
  ASSUME OneJobPerDomain, Remastering, [Next]_vars
  PROVE  Remastering'
  <1>1. Sound'
    BY NextSound DEF Remastering
  <1>2. CASE UNCHANGED vars
    <2>1. /\ UNCHANGED <<jobs, definition, mastered, imported>>
          /\ \A r \in Requests : tx'[r] = tx[r]
      BY <1>2 DEF vars
    <2>q. QED BY <1>1, <2>1, OthersAwait DEF Remastering
  <1>3. CASE Next
    <2>1. PICK q \in Requests :
            \/ Others(q)
            \/ EndApprove(q)
            \/ q \in Workers /\ \E j \in DOMAIN jobs : BeginRemaster(q, j) \/ FailRemaster(q, j)
            \/ q \in Workers /\ EndRemaster(q)
            \/ \E b \in Bundles : ImportBundle(q, b)
            \/ Crash(q)
      BY <1>3, Requested
    <2>2. CASE Others(q)
      <3>1. /\ UNCHANGED <<jobs, definition, mastered, imported>>
            /\ \A r \in Requests : tx'[r] = tx[r] \/ tx'[r].op # "remaster"
        BY <2>2, OthersFrame DEF Remastering
      <3>q. QED BY <1>1, <3>1, OthersAwait DEF Remastering
    <2>3. CASE EndApprove(q)
      BY <1>1, <2>3, EndApproveAwaits DEF Remastering
    <2>4. CASE EndRemaster(q)
      BY <1>1, <2>4, EndRemasterAwaits DEF Remastering
    <2>5. ASSUME NEW b \in Bundles, ImportBundle(q, b)
          PROVE  Remastering'
      BY <1>1, <2>5, ImportAwaits DEF Remastering
    <2>6. ASSUME \/ q \in Workers /\ \E j \in DOMAIN jobs :
                                        BeginRemaster(q, j) \/ FailRemaster(q, j)
                 \/ Crash(q)
          PROVE  Remastering'
      BY <1>1, <2>6, JobAwaits DEF Remastering
    <2>q. QED BY <2>1, <2>2, <2>3, <2>4, <2>5, <2>6
  <1>q. QED BY <1>2, <1>3

\* As long as no two workers remaster one domain at once, whatever requests
\* simulate, propose, approve and import meanwhile, no domain is left behind:
\* where the policy in force is not the one its projections were computed
\* with, a job for that policy is queued or running (approve and
\* remaster_domain).
THEOREM NoDomainLeftBehind == Spec /\ []OneJobPerDomain => []MasteredOrQueued
  <1>1. Init => Remastering
    <2>1. ASSUME Init PROVE MasteredOrQueued /\ ReplacedAwaited
      BY <2>1 DEF Init, MasteredOrQueued, ReplacedAwaited, RunAwaited, Idle
    <2>q. QED BY <2>1, InitSound DEF Remastering
  <1>2. OneJobPerDomain /\ Remastering /\ [Next]_vars => Remastering'
    BY RemasteringStep
  <1>3. Remastering => MasteredOrQueued
    BY DEF Remastering
  <1>q. QED BY <1>1, <1>2, <1>3, PTL DEF Spec

-----------------------------------------------------------------------------
(* What a step may change, for the promises about approvals.               *)

Active == {c \in DOMAIN configs : configs[c].status = "active"}

\* A transaction starts and changes nothing: a simulation notes the data, a
\* proposal one of the open ones, an activation what is active, once the hash
\* has matched.
Reads(r) ==
    /\ UNCHANGED <<configs, simulations, tasks, definition, data, priority, imported>>
    /\ tx'[r].op = "simulate" => tx'[r].basis = Basis
    /\ tx'[r].op = "propose" =>
          \/ OpenTasks = {}
          \/ \E t \in OpenTasks : tx'[r].read = {t}
    /\ tx'[r].op = "activate" =>
          /\ tx'[r].read = Active
          /\ tx'[r].ref \in DOMAIN tasks
          /\ Fresh(tasks[tx'[r].ref].simulation)

\* A transaction stays, is over, runs a job, or starts by reading.
TxStays(r) == tx'[r] = tx[r] \/ tx'[r].op \in {"idle", "remaster"} \/ Reads(r)

LEMMA TxStep ==
  ASSUME Sound, [Next]_vars
  PROVE  \A r \in Requests : TxStays(r)
  <1>1. ASSUME NEW q \in Requests, \A r \in Requests : r # q => tx'[r] = tx[r],
               tx'[q].op \in {"idle", "remaster"} \/ Reads(q)
        PROVE  \A r \in Requests : TxStays(r)
    BY <1>1 DEF TxStays
  <1>2. CASE tx' = tx
    BY <1>2 DEF TxStays
  <1>3. ASSUME NEW q \in Requests, tx' = [tx EXCEPT ![q] = Idle]
        PROVE  \A r \in Requests : TxStays(r)
    BY <1>1, <1>3, EndTx DEF Sound
  <1>4. ASSUME NEW q \in Requests, NEW c \in DOMAIN configs, BeginSimulate(q, c)
        PROVE  \A r \in Requests : TxStays(r)
    <2>1. Begin(q, "simulate", c, {}) /\ c \in Nat
      BY <1>4, RowNumbers DEF BeginSimulate, Sound
    <2>2. /\ tx'[q].op = "simulate" /\ tx'[q].basis = Basis
          /\ \A r \in Requests : r # q => tx'[r] = tx[r]
      BY <2>1, BeginTx DEF Sound
    <2>3. Reads(q)
      BY <1>4, <2>2 DEF Reads, BeginSimulate
    <2>q. QED BY <1>1, <2>2, <2>3
  <1>5. ASSUME NEW q \in Requests, NEW s \in DOMAIN simulations, BeginPropose(q, s)
        PROVE  \A r \in Requests : TxStays(r)
    <2>1. /\ tx'[q].op = "propose"
          /\ OpenTasks # {} => \E t \in OpenTasks : tx'[q].read = {t}
          /\ \A r \in Requests : r # q => tx'[r] = tx[r]
      BY <1>5, BeginProposeSound
    <2>2. Reads(q)
      BY <1>5, <2>1 DEF Reads, BeginPropose
    <2>q. QED BY <1>1, <2>1, <2>2
  <1>6. ASSUME NEW q \in Requests, NEW t \in DOMAIN tasks, NEW user \in Users,
               BeginApprove(q, t, user)
        PROVE  \A r \in Requests : TxStays(r)
    <2>1. /\ tx'[q].op = "activate" /\ tx'[q].ref = t /\ tx'[q].read = Active
          /\ \A r \in Requests : r # q => tx'[r] = tx[r]
      BY <1>6, BeginApproveSound DEF Active
    <2>2. Fresh(tasks[t].simulation)
      BY <1>6 DEF BeginApprove, HashMatches
    <2>3. UNCHANGED <<configs, simulations, tasks, definition, data, priority, imported>>
      BY <1>6 DEF BeginApprove
    <2>4. Reads(q)
      BY <2>1, <2>2, <2>3 DEF Reads
    <2>q. QED BY <1>1, <2>1, <2>4
  <1>7. ASSUME NEW q \in Workers, NEW j \in DOMAIN jobs, BeginRemaster(q, j)
        PROVE  \A r \in Requests : TxStays(r)
    <2>1. q \in Requests
      BY ConfigurationAssumption
    <2>2. tx'[q].op = "remaster" /\ \A r \in Requests : r # q => tx'[r] = tx[r]
      BY <1>7, BeginRemasterSound
    <2>q. QED BY <1>1, <2>1, <2>2
  <1>8. CASE Next
    <2>1. PICK q \in Requests :
            \/ Others(q)
            \/ EndApprove(q)
            \/ q \in Workers /\ \E j \in DOMAIN jobs : BeginRemaster(q, j) \/ FailRemaster(q, j)
            \/ q \in Workers /\ EndRemaster(q)
            \/ \E b \in Bundles : ImportBundle(q, b)
            \/ Crash(q)
      BY <1>8, Requested
    <2>2. \/ tx' = tx
          \/ tx' = [tx EXCEPT ![q] = Idle]
          \/ \E c \in DOMAIN configs : BeginSimulate(q, c)
          \/ \E s \in DOMAIN simulations : BeginPropose(q, s)
          \/ \E t \in DOMAIN tasks, user \in Users : BeginApprove(q, t, user)
          \/ q \in Workers /\ \E j \in DOMAIN jobs : BeginRemaster(q, j)
      BY <2>1 DEF Others, CreateConfig, RevertConfig, EndSimulate, EndPropose, RejectTask,
                  ApproveStale, ChangeData, EndApprove, FailRemaster, EndRemaster,
                  ImportBundle, Crash, End
    <2>q. QED BY <2>2, <1>2, <1>3, <1>4, <1>5, <1>6, <1>7
  <1>9. CASE UNCHANGED vars
    BY <1>2, <1>9 DEF vars
  <1>q. QED BY <1>8, <1>9

\* Only an approval activates a configuration, and policies change with an
\* approval or a bundle.
PoliciesStay ==
    /\ ActiveStay
    /\ \A d \in Domains : d \in imported' \/ definition'[d] = definition[d]
    /\ imported \subseteq imported'

LEMMA PolicyStep ==
  ASSUME Sound, [Next]_vars
  PROVE  (\E q \in Requests : EndApprove(q)) \/ PoliciesStay
  <1>1. CASE UNCHANGED <<configs, definition, imported>>
    BY <1>1 DEF PoliciesStay, ActiveStay
  <1>2. ASSUME NEW q \in Requests, NEW document \in Documents, CreateConfig(q, document)
        PROVE  PoliciesStay
    <2>1. ActiveStay
      BY <1>2, CreateSound
    <2>2. UNCHANGED <<definition, imported>>
      BY <1>2 DEF CreateConfig
    <2>q. QED BY <2>1, <2>2 DEF PoliciesStay
  <1>3. ASSUME NEW q \in Requests, NEW c \in DOMAIN configs, RevertConfig(q, c)
        PROVE  PoliciesStay
    BY <1>2, <1>3, RevertConfigSound
  <1>4. ASSUME NEW q \in Requests, NEW b \in Bundles, ImportBundle(q, b)
        PROVE  PoliciesStay
    BY <1>4, ImportSound DEF PoliciesStay
  <1>q. QED
    BY <1>1, <1>2, <1>3, <1>4
       DEF Next, vars, BeginSimulate, EndSimulate, BeginPropose, EndPropose, RejectTask,
           ApproveStale, BeginApprove, RunJob, BeginRemaster, FailRemaster,
           EndRemaster, ChangeData, Crash

\* Only a proposal opens a task, no task changes its simulation, and no task is
\* deleted.
LEMMA TaskStep ==
  ASSUME Sound, [Next]_vars
  PROVE  /\ \A t \in DOMAIN tasks :
               t \in DOMAIN tasks' /\ tasks'[t].simulation = tasks[t].simulation
         /\ \/ \E q \in Requests, user \in Users : EndPropose(q, user)
            \/ OpenTasks' \subseteq OpenTasks
  <1> DEFINE Kept == \A t \in DOMAIN tasks :
                        t \in DOMAIN tasks' /\ tasks'[t].simulation = tasks[t].simulation
  <1>1. CASE tasks' = tasks
    BY <1>1 DEF OpenTasks
  <1>2. ASSUME NEW q \in Requests, NEW user \in Users, EndPropose(q, user)
        PROVE  Kept
    BY <1>2, EndProposeSound
  <1>3. ASSUME NEW q \in Requests, NEW t \in DOMAIN tasks, NEW user \in Users,
               RejectTask(q, t, user) \/ ApproveStale(q, t, user)
        PROVE  Kept /\ OpenTasks' \subseteq OpenTasks
    <2>1. PICK s \in {"rejected", "stale"} : tasks' = [tasks EXCEPT ![t].status = s]
      BY <1>3 DEF RejectTask, ApproveStale
    <2>2. UNCHANGED <<configs, simulations, jobs, definition, mastered, data,
                      priority, tx, imported>>
      BY <1>3 DEF RejectTask, ApproveStale
    <2>3. /\ DOMAIN tasks' = DOMAIN tasks
          /\ \A k \in DOMAIN tasks :
                /\ tasks'[k].simulation = tasks[k].simulation
                /\ tasks'[k].status = IF k = t THEN s ELSE tasks[k].status
      BY <2>1, <2>2, TaskSound
    <2>q. QED BY <2>3 DEF OpenTasks
  <1>4. ASSUME NEW q \in Requests, EndApprove(q)
        PROVE  Kept /\ OpenTasks' \subseteq OpenTasks
    <2>1. PICK t \in DOMAIN tasks, c \in DOMAIN configs, document \in PartialPolicies :
             Approval(q, t, c, document)
      BY <1>4, EndApproveSound
    <2>q. QED BY <2>1 DEF Approval, OpenTasks
  <1> HIDE DEF Kept
  <1>q. QED
    <2>1. \/ tasks' = tasks
          \/ \E q \in Requests, user \in Users : EndPropose(q, user)
          \/ \E q \in Requests, t \in DOMAIN tasks, user \in Users :
                RejectTask(q, t, user) \/ ApproveStale(q, t, user)
          \/ \E q \in Requests : EndApprove(q)
      BY DEF Next, vars, CreateConfig, RevertConfig, BeginSimulate, EndSimulate,
             BeginPropose, BeginApprove, RunJob, BeginRemaster, FailRemaster,
             EndRemaster, ChangeData, ImportBundle, Crash
    <2>q. QED BY <2>1, <1>1, <1>2, <1>3, <1>4 DEF Kept

\* A simulation is stored with the hash of the end and the basis of the start,
\* and stays as it is.
LEMMA SimulationStep ==
  ASSUME Sound, [Next]_vars
  PROVE  /\ \A s \in DOMAIN simulations :
               s \in DOMAIN simulations' /\ simulations'[s] = simulations[s]
         /\ \A s \in DOMAIN simulations' \ DOMAIN simulations :
               /\ simulations'[s].hash = SnapshotHash(Basis)
               /\ \E q \in Requests : /\ tx[q].op = "simulate"
                                      /\ simulations'[s].basis = tx[q].basis
  <1>1. CASE simulations' = simulations
    BY <1>1
  <1>2. ASSUME NEW q \in Requests, EndSimulate(q)
        PROVE  /\ \A s \in DOMAIN simulations :
                     s \in DOMAIN simulations' /\ simulations'[s] = simulations[s]
               /\ \A s \in DOMAIN simulations' \ DOMAIN simulations :
                     /\ simulations'[s].hash = SnapshotHash(Basis)
                     /\ tx[q].op = "simulate" /\ simulations'[s].basis = tx[q].basis
    <2>1. tx[q].op = "simulate"
      BY <1>2 DEF EndSimulate, End
    <2>2. /\ DOMAIN simulations' = DOMAIN simulations \cup {Len(simulations) + 1}
          /\ simulations'[Len(simulations) + 1].hash = SnapshotHash(Basis)
          /\ simulations'[Len(simulations) + 1].basis = tx[q].basis
          /\ \A s \in DOMAIN simulations : simulations'[s] = simulations[s]
      BY <1>2, EndSimulateSound
    <2>q. QED BY <2>1, <2>2
  <1>3. simulations' = simulations \/ \E q \in Requests : EndSimulate(q)
    BY DEF Next, vars, CreateConfig, RevertConfig, BeginSimulate, BeginPropose,
           EndPropose, RejectTask, ApproveStale, BeginApprove, EndApprove, RunJob,
           BeginRemaster, FailRemaster, EndRemaster, ChangeData, ImportBundle, Crash
  <1>q. QED BY <1>1, <1>2, <1>3

-----------------------------------------------------------------------------
(* One active configuration, and it is in force.                           *)

\* No two approvals activate at once.
OneApproval ==
    \A q, r \in Requests : tx[q].op = "activate" /\ tx[r].op = "activate" => q = r

\* What an approval has read still covers every active configuration.
ReadActive ==
    \A q \in Requests : tx[q].op = "activate" => Active \subseteq tx[q].read

OneConfig ==
    \A c, k \in DOMAIN configs :
        configs[c].status = "active" /\ configs[k].status = "active" => c = k

Activation == Sound /\ ReadActive /\ OneConfig /\ ActiveInForce

\* A step that activates no configuration and changes policies only as a
\* bundle does.
LEMMA InForceStays ==
  ASSUME Sound, OneConfig, ActiveInForce, PoliciesStay
  PROVE  OneConfig' /\ ActiveInForce'
  <1>1. OneConfig'
    BY DEF OneConfig, PoliciesStay, ActiveStay
  <1>2. ASSUME NEW c \in DOMAIN configs', configs'[c].status = "active",
               NEW d \in DOMAIN configs'[c].document \ imported'
        PROVE  definition'[d] = configs'[c].document[d]
    <2>1. c \in DOMAIN configs /\ configs'[c] = configs[c]
      BY <1>2 DEF PoliciesStay, ActiveStay
    <2>2. configs[c] \in Configs
      BY <2>1 DEF Sound, TypeOK
    <2>3. configs[c].document \in PartialPolicies
      BY <2>2, ConfigurationAssumption DEF Configs
    <2>4. d \in Domains
      BY <1>2, <2>1, <2>3 DEF PartialPolicies
    <2>5. imported \subseteq imported' /\ (d \in imported' \/ definition'[d] = definition[d])
      BY <2>4 DEF PoliciesStay
    <2>6. definition[d] = configs[c].document[d]
      BY <1>2, <2>1, <2>5 DEF ActiveInForce
    <2>q. QED BY <1>2, <2>1, <2>5, <2>6
  <1>3. ActiveInForce'
    BY <1>2 DEF ActiveInForce
  <1>q. QED BY <1>1, <1>3

\* The activation retires every other active configuration, and its document
\* is in force.
LEMMA EndApproveActivates ==
  ASSUME Activation, NEW q \in Requests, EndApprove(q)
  PROVE  OneConfig' /\ ActiveInForce'
  <1>1. PICK t \in DOMAIN tasks, c \in DOMAIN configs, document \in PartialPolicies :
           Approval(q, t, c, document)
    BY EndApproveSound DEF Activation
  <1>2. Active \subseteq tx[q].read
    BY <1>1 DEF Approval, Activation, ReadActive
  <1>3. \A k \in DOMAIN configs' : configs'[k].status = "active" => k = c
    BY <1>1, <1>2 DEF Approval, Active
  <1>4. OneConfig'
    BY <1>3 DEF OneConfig
  <1>5. \A d \in DOMAIN document : definition'[d] = document[d]
    BY <1>1 DEF Approval
  <1>6. configs'[c].document = document
    BY <1>1 DEF Approval
  <1>7. ActiveInForce'
    BY <1>3, <1>5, <1>6 DEF ActiveInForce
  <1>q. QED BY <1>4, <1>7

LEMMA ActivationStep ==
  ASSUME OneApproval, Activation, [Next]_vars
  PROVE  Activation'
  <1>1. Sound'
    BY NextSound DEF Activation
  <1>2. \A r \in Requests : TxStays(r)
    BY TxStep DEF Activation
  <1>3. CASE PoliciesStay
    <2>1. OneConfig' /\ ActiveInForce'
      BY <1>3, InForceStays DEF Activation
    <2>2. Active' \subseteq Active
      BY <1>3 DEF PoliciesStay, ActiveStay, Active
    <2>3. ASSUME NEW r \in Requests, tx'[r].op = "activate"
          PROVE  Active' \subseteq tx'[r].read
      <3>1. Active \subseteq tx'[r].read
        BY <1>2, <2>3 DEF TxStays, Reads, Activation, ReadActive
      <3>q. QED BY <2>2, <3>1
    <2>4. ReadActive'
      BY <2>3 DEF ReadActive
    <2>q. QED BY <1>1, <2>1, <2>4 DEF Activation
  <1>4. ASSUME NEW q \in Requests, EndApprove(q)
        PROVE  Activation'
    <2>1. OneConfig' /\ ActiveInForce'
      BY <1>4, EndApproveActivates
    <2>2. /\ tx[q].op = "activate" /\ tx'[q].op = "idle"
          /\ \A r \in Requests : r # q => tx'[r] = tx[r]
      BY <1>4, EndApproveSound DEF Activation, EndApprove, End
    <2>3. ReadActive'
      BY <2>2 DEF OneApproval, ReadActive
    <2>q. QED BY <1>1, <2>1, <2>3 DEF Activation
  <1>q. QED BY <1>3, <1>4, PolicyStep DEF Activation

LEMMA AlwaysActivation == Spec /\ []OneApproval => []Activation
  <1>1. Init => Activation
    <2>1. ASSUME Init PROVE ReadActive /\ OneConfig /\ ActiveInForce
      BY <2>1 DEF Init, ReadActive, OneConfig, ActiveInForce, Idle
    <2>q. QED BY <2>1, InitSound DEF Activation
  <1>2. OneApproval /\ Activation /\ [Next]_vars => Activation'
    BY ActivationStep
  <1>q. QED BY <1>1, <1>2, PTL DEF Spec

\* As long as no two approvals activate at once, whatever is drafted, proposed,
\* imported and computed meanwhile, the active configuration is the one in
\* force, except where a bundle has replaced the policy of a domain since (the
\* approval in decide_task locks its own task and reads what it retires without
\* a lock).
THEOREM TheActiveIsInForce == Spec /\ []OneApproval => []ActiveInForce
  <1>1. Activation => ActiveInForce
    BY DEF Activation
  <1>q. QED BY <1>1, AlwaysActivation, PTL

-----------------------------------------------------------------------------
(* One open proposal.                                                      *)

\* No two requests propose at once.
OneProposer ==
    \A q, r \in Requests : tx[q].op = "propose" /\ tx[r].op = "propose" => q = r

\* What a proposal has read still covers every open one.
ReadOpen ==
    \A q \in Requests : tx[q].op = "propose" => OpenTasks \subseteq tx[q].read

OneProposal == \A t, u \in OpenTasks : t = u

Proposals == Sound /\ ReadOpen /\ OneProposal

LEMMA ProposalsStep ==
  ASSUME OneProposer, Proposals, [Next]_vars
  PROVE  Proposals'
  <1>1. Sound'
    BY NextSound DEF Proposals
  <1>2. \A r \in Requests : TxStays(r)
    BY TxStep DEF Proposals
  <1>3. CASE OpenTasks' \subseteq OpenTasks
    <2>1. OneProposal'
      BY <1>3 DEF Proposals, OneProposal
    <2>2. ASSUME NEW r \in Requests, tx'[r].op = "propose"
          PROVE  OpenTasks \subseteq tx'[r].read
      BY <1>2, <2>2 DEF TxStays, Reads, Proposals, ReadOpen, OneProposal
    <2>3. ReadOpen'
      BY <1>3, <2>2 DEF ReadOpen
    <2>q. QED BY <1>1, <2>1, <2>3 DEF Proposals
  <1>4. ASSUME NEW q \in Requests, NEW user \in Users, EndPropose(q, user)
        PROVE  Proposals'
    <2>1. tx[q].op = "propose" /\ tx' = [tx EXCEPT ![q] = Idle]
      BY <1>4 DEF EndPropose, End
    <2>2. OpenTasks \subseteq tx[q].read
      BY <2>1 DEF Proposals, ReadOpen
    <2>3. \A t \in OpenTasks' : t = Len(tasks) + 1
      BY <1>4, <2>2, EndProposeSound DEF Proposals, OpenTasks
    <2>4. OneProposal'
      BY <2>3 DEF OneProposal
    <2>5. tx'[q].op = "idle" /\ \A r \in Requests : r # q => tx'[r] = tx[r]
      BY <2>1, EndTx DEF Proposals, Sound
    <2>6. ReadOpen'
      BY <2>1, <2>5 DEF OneProposer, ReadOpen
    <2>q. QED BY <1>1, <2>4, <2>6 DEF Proposals
  <1>q. QED BY <1>3, <1>4, TaskStep DEF Proposals

\* As long as no two approvals activate and no two requests propose at once, at
\* most one configuration is active and at most one proposal is open
\* (propose_config and the approval in decide_task).
THEOREM OneAtATime == Spec /\ [](OneApproval /\ OneProposer) => []OneActive
  <1>1. Init => Proposals
    <2>1. ASSUME Init PROVE ReadOpen /\ OneProposal
      BY <2>1 DEF Init, ReadOpen, OneProposal, OpenTasks, Idle
    <2>q. QED BY <2>1, InitSound DEF Proposals
  <1>2. OneProposer /\ Proposals /\ [Next]_vars => Proposals'
    BY ProposalsStep
  <1>3. Activation /\ Proposals => OneActive
    BY DEF Activation, OneConfig, Proposals, OneProposal, OneActive
  <1>q. QED BY <1>1, <1>2, <1>3, AlwaysActivation, PTL DEF Spec

-----------------------------------------------------------------------------
(* What was previewed is what is activated.                                *)

\* Nothing a preview depends on changes within a simulation or an activation,
\* and no bundle changes the priority of a source.
BasisKept(q) ==
    tx[q].op \in {"simulate", "activate"} /\ tx'[q] = tx[q] => Basis' = Basis
Undisturbed == [][\A q \in Requests : BasisKept(q)]_vars
PriorityKept == priority' = priority
PrioritiesStay == [][PriorityKept]_vars

\* A simulation is of the data there is; its hash is that of what it was
\* computed from, with the priority there is; an activation is of a simulation
\* whose hash matches.
SimulatesBasis ==
    \A q \in Requests : tx[q].op = "simulate" => tx[q].basis = Basis
HashesCover ==
    \A s \in DOMAIN simulations :
        /\ simulations[s].hash = SnapshotHash(simulations[s].basis)
        /\ simulations[s].basis[3] = priority
ActivatesFresh ==
    \A q \in Requests :
        tx[q].op = "activate" => Fresh(tasks[tx[q].ref].simulation)

Previewed == Sound /\ SimulatesBasis /\ HashesCover /\ ActivatesFresh

LEMMA PreviewedStep ==
  ASSUME Previewed, [Next]_vars,
         [\A q \in Requests : BasisKept(q)]_vars, [PriorityKept]_vars
  PROVE  Previewed'
  <1>1. Sound'
    BY NextSound DEF Previewed
  <1>2. \A r \in Requests : TxStays(r) /\ BasisKept(r)
    BY TxStep DEF Previewed, BasisKept, Basis, vars
  <1>3. priority' = priority
    BY DEF PriorityKept, vars
  <1>4. /\ \A s \in DOMAIN simulations :
              s \in DOMAIN simulations' /\ simulations'[s] = simulations[s]
        /\ \A s \in DOMAIN simulations' \ DOMAIN simulations :
              /\ simulations'[s].hash = SnapshotHash(Basis)
              /\ \E q \in Requests : /\ tx[q].op = "simulate"
                                     /\ simulations'[s].basis = tx[q].basis
    BY SimulationStep DEF Previewed
  <1>5. \A t \in DOMAIN tasks :
           t \in DOMAIN tasks' /\ tasks'[t].simulation = tasks[t].simulation
    BY TaskStep DEF Previewed
  <1>6. SimulatesBasis'
    <2> SUFFICES ASSUME NEW r \in Requests, tx'[r].op = "simulate"
                 PROVE  tx'[r].basis = Basis'
      BY DEF SimulatesBasis
    <2>1. CASE tx'[r] = tx[r]
      BY <1>2, <2>1 DEF BasisKept, Previewed, SimulatesBasis
    <2>2. CASE Reads(r)
      BY <2>2 DEF Reads, Basis
    <2>q. QED BY <1>2, <2>1, <2>2 DEF TxStays
  <1>7. HashesCover'
    <2> SUFFICES ASSUME NEW s \in DOMAIN simulations'
                 PROVE  /\ simulations'[s].hash = SnapshotHash(simulations'[s].basis)
                        /\ simulations'[s].basis[3] = priority'
      BY DEF HashesCover, SnapshotHash
    <2>1. CASE s \in DOMAIN simulations
      BY <1>3, <1>4, <2>1 DEF Previewed, HashesCover
    <2>2. CASE s \notin DOMAIN simulations
      <3>1. simulations'[s].hash = SnapshotHash(Basis) /\ simulations'[s].basis = Basis
        BY <1>4, <2>2 DEF Previewed, SimulatesBasis
      <3>2. Basis[3] = priority
        BY DEF Basis
      <3>q. QED BY <1>3, <3>1, <3>2
    <2>q. QED BY <2>1, <2>2
  <1>8. ActivatesFresh'
    <2> SUFFICES ASSUME NEW r \in Requests, tx'[r].op = "activate"
                 PROVE  simulations'[tasks'[tx'[r].ref].simulation].hash = SnapshotHash(Basis')
      BY DEF ActivatesFresh, Fresh, SnapshotHash
    <2>1. CASE tx'[r] = tx[r]
      <3>1. PICK t \in DOMAIN tasks : t = tx[r].ref
        BY <2>1 DEF Previewed, Sound, References, TxSound
      <3>2. PICK s \in DOMAIN simulations : s = tasks[t].simulation
        BY DEF Previewed, Sound, TypeOK
      <3>3. simulations[s].hash = SnapshotHash(Basis)
        BY <2>1, <3>1, <3>2 DEF Previewed, ActivatesFresh, Fresh
      <3>4. Basis' = Basis
        BY <1>2, <2>1 DEF BasisKept
      <3>5. tasks'[t].simulation = s /\ simulations'[s] = simulations[s]
        BY <1>4, <1>5, <3>2
      <3>q. QED BY <2>1, <3>1, <3>3, <3>4, <3>5
    <2>2. CASE Reads(r)
      BY <2>2 DEF Reads, Basis, Fresh
    <2>q. QED BY <1>2, <2>1, <2>2 DEF TxStays
  <1>q. QED BY <1>1, <1>6, <1>7, <1>8 DEF Previewed

LEMMA InitPreviewed ==
  ASSUME Init
  PROVE  Previewed
  <1>1. simulations = <<>> /\ tx = [q \in Requests |-> Idle]
    BY DEF Init
  <1>2. SimulatesBasis /\ HashesCover /\ ActivatesFresh
    BY <1>1 DEF SimulatesBasis, HashesCover, ActivatesFresh, Idle
  <1>q. QED BY <1>2, InitSound DEF Previewed

\* When nothing a preview depends on changes within a simulation or within an
\* activation, and no bundle changes the priority of a source, a configuration
\* is activated only on the preview that was approved, whatever changes between
\* the requests: the data, policies and priorities it was computed from are
\* still what the system holds (the comparison of the snapshot hash in
\* decide_task).
THEOREM ApprovedAsPreviewed ==
  Spec /\ Undisturbed /\ PrioritiesStay => ActivatedAsPreviewed
  <1>1. Init => Previewed
    BY InitPreviewed
  <1>2. /\ Previewed /\ [Next]_vars
        /\ [\A q \in Requests : BasisKept(q)]_vars /\ [PriorityKept]_vars
        => Previewed'
    BY PreviewedStep
  <1>3. ASSUME Previewed, NEW q \in Requests, EndApprove(q)
        PROVE  simulations[tasks[tx[q].ref].simulation].basis = Basis
    <2>1. PICK t \in DOMAIN tasks : t = tx[q].ref /\ tx[q].op = "activate"
      BY <1>3 DEF EndApprove, End, Previewed, Sound, References, TxSound
    <2>2. PICK s \in DOMAIN simulations : s = tasks[t].simulation
      BY <1>3 DEF Previewed, Sound, TypeOK
    <2>3. Fresh(s)
      BY <1>3, <2>1, <2>2 DEF Previewed, ActivatesFresh
    <2>4. simulations[s].basis \in BasisSet
      <3>1. simulations[s] \in Simulations
        BY <1>3 DEF Previewed, Sound, TypeOK
      <3>q. QED BY <3>1 DEF Simulations
    <2>5. SnapshotHash(simulations[s].basis) = SnapshotHash(Basis)
      BY <1>3, <2>3 DEF Previewed, HashesCover, Fresh
    <2>6. simulations[s].basis[3] = priority
      BY <1>3 DEF Previewed, HashesCover
    <2>7. simulations[s].basis = Basis
      BY <2>4, <2>5, <2>6 DEF SnapshotHash, Basis, BasisSet
    <2>q. QED BY <2>1, <2>2, <2>7
  <1>4. Previewed /\ [Next]_vars =>
          [\A q \in Requests :
             EndApprove(q) => simulations[tasks[tx[q].ref].simulation].basis = Basis]_vars
    BY <1>3
  <1>q. QED BY <1>1, <1>2, <1>4, PTL DEF Spec, ActivatedAsPreviewed, Undisturbed, PrioritiesStay

=============================================================================
