------------------------------ MODULE JobLease ------------------------------
(***************************************************************************)
(* The durable job queue: the rows of durable_jobs, the worker processes   *)
(* that claim, run and settle them under a lease and a fence (jobs/        *)
(* worker.py), and the cancel endpoint of the API (api/routes.py).         *)
(*                                                                         *)
(* A database transaction of the code that reads and then writes with an   *)
(* unconditional ORM flush is two steps here, because the default          *)
(* isolation level lets another transaction commit in between; a single    *)
(* conditional UPDATE, or a SELECT .. FOR UPDATE, is one step.             *)
(***************************************************************************)
EXTENDS Naturals

CONSTANTS
    Jobs,          \* job identifiers; the number is the rank by created_at
    Workers,       \* worker processes
    Ids,           \* values of WORKER_ID (hostname:pid), which may collide
    WorkerId,      \* the WORKER_ID of each process
    None,          \* SQL NULL
    UnknownKind,   \* the jobs whose kind has no entry in HANDLERS
    MAX_ATTEMPTS,  \* failures after which a job is not retried
    MaxCrashes,    \* bound on process kills
    MaxStalls      \* bound on leases lost by a process that is still alive

ASSUME JobsAssumption == Jobs \subseteq Nat
ASSUME WorkerIdAssumption == WorkerId \in [Workers -> Ids] /\ None \notin Ids
ASSUME BoundsAssumption ==
    MAX_ATTEMPTS \in Nat /\ MaxCrashes \in Nat /\ MaxStalls \in Nat
ASSUME UnknownKindAssumption == UnknownKind \subseteq Jobs

VARIABLES
    status,            \* column status of each row; "absent" before INSERT
    attempts,          \* column attempts
    lease_owner,       \* column lease_owner
    lease_version,     \* column lease_version: the fence of the last claim
    lease_expires_at,  \* "none" | "live" | "past": NULL, or against the clock
    cancel_requested,  \* column cancel_requested
    cancelling,        \* cancel requests that read the row and have not written
    pc,                \* where each worker process is in run_once
    job,               \* the job_id each process works on
    fence,             \* the fence each process got from claim_one
    heartbeat,         \* the heartbeat thread: "off" | "on" | "lost"
    seen,              \* attempts as read by the except branch
    results,           \* history: how many results were committed per job
    result_fence,      \* history: the fence of the last committed result
    crashes, stalls    \* faults so far

rows == <<status, attempts, lease_owner, lease_version, lease_expires_at,
          cancel_requested>>
threads == <<pc, job, fence, heartbeat, seen>>
history == <<results, result_fence>>
faults == <<crashes, stalls>>
vars == <<rows, cancelling, threads, history, faults>>

Terminal == {"complete", "failed", "cancelled"}
Statuses == {"absent", "queued", "retry", "running"} \cup Terminal
Places == {"idle", "claimed", "executing", "handled", "aborting", "rejecting",
           "raised", "recovering"}

\* The type invariant: every column and every local keeps its declared type
\* (models/tables.py, DurableJob).
TypeOK ==
    /\ status \in [Jobs -> Statuses]
    /\ attempts \in [Jobs -> Nat]
    /\ lease_owner \in [Jobs -> Ids \cup {None}]
    /\ lease_version \in [Jobs -> Nat]
    /\ lease_expires_at \in [Jobs -> {"none", "live", "past"}]
    /\ cancel_requested \in [Jobs -> BOOLEAN]
    /\ cancelling \in SUBSET Jobs
    /\ pc \in [Workers -> Places]
    /\ job \in [Workers -> Jobs \cup {None}]
    /\ fence \in [Workers -> Nat]
    /\ heartbeat \in [Workers -> {"off", "on", "lost"}]
    /\ seen \in [Workers -> Nat]
    /\ results \in [Jobs -> Nat]
    /\ result_fence \in [Jobs -> Nat]
    /\ crashes \in Nat
    /\ stalls \in Nat

Init ==
    /\ status = [j \in Jobs |-> "absent"]
    /\ attempts = [j \in Jobs |-> 0]
    /\ lease_owner = [j \in Jobs |-> None]
    /\ lease_version = [j \in Jobs |-> 0]
    /\ lease_expires_at = [j \in Jobs |-> "none"]
    /\ cancel_requested = [j \in Jobs |-> FALSE]
    /\ cancelling = {}
    /\ pc = [w \in Workers |-> "idle"]
    /\ job = [w \in Workers |-> None]
    /\ fence = [w \in Workers |-> 0]
    /\ heartbeat = [w \in Workers |-> "off"]
    /\ seen = [w \in Workers |-> 0]
    /\ results = [j \in Jobs |-> 0]
    /\ result_fence = [j \in Jobs |-> 0]
    /\ crashes = 0
    /\ stalls = 0

-----------------------------------------------------------------------------
(* The producer and the API.                                               *)

\* Activation of a configuration inserts a remaster_domain job; jobs are
\* created in the order of created_at.
Enqueue(j) ==
    /\ status[j] = "absent"
    /\ \A i \in Jobs : i < j => status[i] # "absent"
    /\ status' = [status EXCEPT ![j] = "queued"]
    /\ UNCHANGED <<attempts, lease_owner, lease_version, lease_expires_at,
                   cancel_requested, cancelling, threads, history, faults>>

\* cancel_job reads the row and refuses a terminal job ...
CancelRead(j) ==
    /\ status[j] \notin Terminal \cup {"absent"}
    /\ ~cancel_requested[j]
    /\ j \notin cancelling
    /\ cancelling' = cancelling \cup {j}
    /\ UNCHANGED <<rows, threads, history, faults>>

\* ... and then writes the flag, whatever the row has become meanwhile.
CancelWrite(j) ==
    /\ j \in cancelling
    /\ cancelling' = cancelling \ {j}
    /\ cancel_requested' = [cancel_requested EXCEPT ![j] = TRUE]
    /\ UNCHANGED <<status, attempts, lease_owner, lease_version,
                   lease_expires_at, threads, history, faults>>

-----------------------------------------------------------------------------
(* Claiming.                                                               *)

SameFence(v) == v
NextFence(v) == v + 1

ClaimableUnlessRunning(j) == status[j] \in {"queued", "retry"}
Claimable(j) ==
    /\ status[j] \in {"queued", "retry", "running"}
    /\ lease_expires_at[j] # "live"

\* A transaction that is about to flush a change of the row may hold its lock.
MayBeLocked(j) ==
    \/ j \in cancelling
    \/ \E w \in Workers :
          job[w] = j /\ pc[w] \in {"aborting", "rejecting", "recovering"}

\* ORDER BY created_at LIMIT 1 FOR UPDATE SKIP LOCKED
FirstUnlocked(j) ==
    /\ Claimable(j)
    /\ \A i \in Jobs : Claimable(i) /\ i < j => MayBeLocked(i)

\* claim_one finds a cancelled job and settles it; run_once returns False.
ClaimCancelled(w) ==
    \E j \in Jobs :
        /\ pc[w] = "idle"
        /\ FirstUnlocked(j)
        /\ cancel_requested[j]
        /\ status' = [status EXCEPT ![j] = "cancelled"]
        /\ lease_owner' = [lease_owner EXCEPT ![j] = None]
        /\ lease_expires_at' = [lease_expires_at EXCEPT ![j] = "none"]
        /\ UNCHANGED <<attempts, lease_version, cancel_requested, cancelling,
                       threads, history, faults>>

\* claim_one takes the job under a new fence, and run_once starts the
\* heartbeat thread.
Claim(w) ==
    \E j \in Jobs :
        /\ pc[w] = "idle"
        /\ FirstUnlocked(j)
        /\ ~cancel_requested[j]
        /\ status' = [status EXCEPT ![j] = "running"]
        /\ lease_owner' = [lease_owner EXCEPT ![j] = WorkerId[w]]
        /\ lease_version' =
              [lease_version EXCEPT ![j] = NextFence(lease_version[j])]
        /\ lease_expires_at' = [lease_expires_at EXCEPT ![j] = "live"]
        /\ attempts' = [attempts EXCEPT ![j] = attempts[j] + 1]
        /\ pc' = [pc EXCEPT ![w] = "claimed"]
        /\ job' = [job EXCEPT ![w] = j]
        /\ fence' = [fence EXCEPT ![w] = lease_version'[j]]
        /\ heartbeat' = [heartbeat EXCEPT ![w] = "on"]
        /\ UNCHANGED <<cancel_requested, cancelling, seen, history, faults>>

-----------------------------------------------------------------------------
(* The heartbeat thread.                                                   *)

\* The fence check of run_once and of its except branch; JobLease has it in
\* one place because the code repeats the same comparison.
OwnsAnyFence(w) == lease_owner[job[w]] = WorkerId[w]
OwnsFence(w) ==
    /\ lease_owner[job[w]] = WorkerId[w]
    /\ lease_version[job[w]] = fence[w]

\* The WHERE clause of renew_lease.
Renewable(w) ==
    /\ OwnsFence(w)
    /\ status[job[w]] = "running"
    /\ ~cancel_requested[job[w]]

\* renew_lease updated one row.  A renewal does not look at the old expiry: it
\* revives a lease that is past as long as nobody has claimed the job.
Renew(w) ==
    /\ heartbeat[w] = "on"
    /\ Renewable(w)
    /\ lease_expires_at' = [lease_expires_at EXCEPT ![job[w]] = "live"]
    /\ UNCHANGED <<status, attempts, lease_owner, lease_version,
                   cancel_requested, cancelling, threads, history, faults>>

\* renew_lease updated no row: the thread sets `lost` and ends.
LoseLease(w) ==
    /\ heartbeat[w] = "on"
    /\ ~Renewable(w)
    /\ heartbeat' = [heartbeat EXCEPT ![w] = "lost"]
    /\ UNCHANGED <<rows, cancelling, pc, job, fence, seen, history, faults>>

-----------------------------------------------------------------------------
(* Running a job.                                                          *)

\* The locals of a process that left run_once.
Leave(w) ==
    /\ pc' = [pc EXCEPT ![w] = "idle"]
    /\ job' = [job EXCEPT ![w] = None]
    /\ fence' = [fence EXCEPT ![w] = 0]
    /\ heartbeat' = [heartbeat EXCEPT ![w] = "off"]
    /\ seen' = [seen EXCEPT ![w] = 0]

\* The execution transaction opens and reads the row: the fence is gone.
ReadSuperseded(w) ==
    /\ pc[w] = "claimed"
    /\ ~OwnsFence(w)
    /\ Leave(w)
    /\ UNCHANGED <<rows, cancelling, history, faults>>

\* The execution transaction reads the row and branches: cancellation first,
\* then an unknown kind, else the handler starts.
ReadJob(w) ==
    /\ pc[w] = "claimed"
    /\ OwnsFence(w)
    /\ pc' = [pc EXCEPT ![w] =
                 CASE cancel_requested[job[w]] -> "aborting"
                   [] ~cancel_requested[job[w]] /\ job[w] \in UnknownKind
                        -> "rejecting"
                   [] OTHER -> "executing"]
    /\ UNCHANGED <<rows, cancelling, job, fence, heartbeat, seen, history,
                   faults>>

\* The unconditional flush of a status with both lease columns cleared.
Settle(j, s) ==
    /\ status' = [status EXCEPT ![j] = s]
    /\ lease_owner' = [lease_owner EXCEPT ![j] = None]
    /\ lease_expires_at' = [lease_expires_at EXCEPT ![j] = "none"]
    /\ UNCHANGED <<attempts, lease_version, cancel_requested>>

\* The transaction that read cancel_requested commits "cancelled".
Abort(w) ==
    /\ pc[w] = "aborting"
    /\ Settle(job[w], "cancelled")
    /\ Leave(w)
    /\ UNCHANGED <<cancelling, history, faults>>

\* The status of a job whose kind has no handler.
SkippedAsDone == "complete"
UnknownKindStatus == "failed"

\* The transaction that found no handler commits its status.
Reject(w) ==
    /\ pc[w] = "rejecting"
    /\ Settle(job[w], UnknownKindStatus)
    /\ Leave(w)
    /\ UNCHANGED <<cancelling, history, faults>>

\* The handler returned; the heartbeat is stopped and joined; a lost lease is
\* an exception.
HandlerReturns(w) ==
    /\ pc[w] = "executing"
    /\ pc' = [pc EXCEPT ![w] =
                 IF heartbeat[w] = "lost" THEN "raised" ELSE "handled"]
    /\ heartbeat' = [heartbeat EXCEPT ![w] = "off"]
    /\ UNCHANGED <<rows, cancelling, job, fence, seen, history, faults>>

\* The handler raised; its transaction is rolled back.
HandlerRaises(w) ==
    /\ pc[w] = "executing"
    /\ pc' = [pc EXCEPT ![w] = "raised"]
    /\ heartbeat' = [heartbeat EXCEPT ![w] = "off"]
    /\ UNCHANGED <<rows, cancelling, job, fence, seen, history, faults>>

\* The WHERE clause of the completing UPDATE.
CompletableIgnoringCancel(w) == OwnsFence(w)
Completable(w) ==
    /\ OwnsFence(w)
    /\ ~cancel_requested[job[w]]

\* The completing UPDATE matches one row, and commits the handler's effects
\* with it.
Complete(w) ==
    /\ pc[w] = "handled"
    /\ Completable(w)
    /\ Settle(job[w], "complete")
    /\ results' = [results EXCEPT ![job[w]] = @ + 1]
    /\ result_fence' = [result_fence EXCEPT ![job[w]] = fence[w]]
    /\ Leave(w)
    /\ UNCHANGED <<cancelling, faults>>

\* The completing UPDATE matches no row: rollback and exception.
CompletionRefused(w) ==
    /\ pc[w] = "handled"
    /\ ~Completable(w)
    /\ pc' = [pc EXCEPT ![w] = "raised"]
    /\ UNCHANGED <<rows, cancelling, job, fence, heartbeat, seen, history,
                   faults>>

\* The except branch reads the row in a new transaction: still the owner.
RecoverRead(w) ==
    /\ pc[w] = "raised"
    /\ OwnsFence(w)
    /\ pc' = [pc EXCEPT ![w] = "recovering"]
    /\ seen' = [seen EXCEPT ![w] = attempts[job[w]]]
    /\ UNCHANGED <<rows, cancelling, job, fence, heartbeat, history, faults>>

\* The except branch finds another owner and leaves the row alone.
RecoverSkip(w) ==
    /\ pc[w] = "raised"
    /\ ~OwnsFence(w)
    /\ Leave(w)
    /\ UNCHANGED <<rows, cancelling, history, faults>>

\* The status an exception leaves, by the attempts counted so far.
FailureStatus(n) == IF n >= MAX_ATTEMPTS THEN "failed" ELSE "retry"

\* The except branch flushes what it decided from the row it read.
RecoverWrite(w) ==
    /\ pc[w] = "recovering"
    /\ Settle(job[w], FailureStatus(seen[w]))
    /\ Leave(w)
    /\ UNCHANGED <<cancelling, history, faults>>

-----------------------------------------------------------------------------
(* Faults and time.                                                        *)

\* A process is killed: its open transaction is rolled back, its heartbeat
\* dies with it.
Crash(w) ==
    /\ pc[w] # "idle"
    /\ crashes < MaxCrashes
    /\ crashes' = crashes + 1
    /\ Leave(w)
    /\ UNCHANGED <<rows, cancelling, history, stalls>>

\* Some live process keeps (or is about to settle) the current lease of j.
Attended(j) ==
    \E w \in Workers :
        /\ pc[w] # "idle"
        /\ job[w] = j
        /\ fence[w] = lease_version[j]
        /\ heartbeat[w] # "lost"

\* LEASE_SECONDS pass and nobody renewed.
LeaseExpires(j) ==
    /\ lease_expires_at[j] = "live"
    /\ ~Attended(j)
    /\ lease_expires_at' = [lease_expires_at EXCEPT ![j] = "past"]
    /\ UNCHANGED <<status, attempts, lease_owner, lease_version,
                   cancel_requested, cancelling, threads, history, faults>>

\* LEASE_SECONDS pass although a process is alive: it was paused, or its
\* heartbeat kept failing against the database.
Stall(j) ==
    /\ lease_expires_at[j] = "live"
    /\ Attended(j)
    /\ stalls < MaxStalls
    /\ stalls' = stalls + 1
    /\ lease_expires_at' = [lease_expires_at EXCEPT ![j] = "past"]
    /\ UNCHANGED <<status, attempts, lease_owner, lease_version,
                   cancel_requested, cancelling, threads, history, crashes>>

-----------------------------------------------------------------------------
RunOnce(w) ==
    \/ ReadSuperseded(w) \/ ReadJob(w) \/ Abort(w) \/ Reject(w)
    \/ HandlerReturns(w) \/ HandlerRaises(w)
    \/ Complete(w) \/ CompletionRefused(w)
    \/ RecoverRead(w) \/ RecoverSkip(w) \/ RecoverWrite(w)

Next ==
    \/ \E j \in Jobs : Enqueue(j) \/ CancelRead(j) \/ CancelWrite(j)
    \/ \E w \in Workers : Claim(w) \/ ClaimCancelled(w)
    \/ \E w \in Workers : Renew(w) \/ LoseLease(w)
    \/ \E w \in Workers : RunOnce(w)
    \/ \E w \in Workers : Crash(w)
    \/ \E j \in Jobs : LeaseExpires(j) \/ Stall(j)

Spec == Init /\ [][Next]_vars

\* main() loops for ever, a handler returns or raises, and time passes; no
\* fault, no heartbeat and no cancellation has to happen.
Fairness ==
    /\ \A j \in Jobs : WF_vars(LeaseExpires(j))
    /\ \A w \in Workers : WF_vars(Claim(w) \/ ClaimCancelled(w))
    /\ \A w \in Workers : WF_vars(RunOnce(w))

FairSpec == Spec /\ Fairness

-----------------------------------------------------------------------------
(* Properties.                                                             *)

\* Two processes never hold the same fence of the same job, and nobody holds a
\* fence that claim_one has not issued (lease_version += 1 in claim_one).
FencesUnique ==
    \A w, x \in Workers :
        /\ pc[w] # "idle" => fence[w] <= lease_version[job[w]]
        /\ (w # x /\ pc[w] # "idle" /\ pc[x] # "idle" /\ job[w] = job[x])
              => fence[w] # fence[x]

\* A result that commits carries a fence newer than every result before it, and
\* the newest one issued: a superseded worker never commits (run_once's
\* completing UPDATE), even when two processes share a WORKER_ID.
ResultsFenced ==
    [][\A j \in Jobs : results'[j] # results[j]
          => /\ result_fence'[j] > result_fence[j]
             /\ result_fence'[j] = lease_version[j]]_vars

\* Once cancel_job has committed, no result of that job is committed any more:
\* the flag is part of the completing UPDATE and not only of the early read.
CancelHonoured ==
    [][\A j \in Jobs : cancel_requested[j] => results'[j] = results[j]]_vars

\* A row shown complete has its handler's effects, those of the newest claim
\* ever made, and nobody holds its lease: the status and the effects are one
\* transaction, and neither a rolled back handler nor a job without a handler
\* leaves "complete" behind (run_once).
CompleteHasResult ==
    \A j \in Jobs : status[j] = "complete" =>
        /\ results[j] > 0
        /\ result_fence[j] = lease_version[j]
        /\ lease_owner[j] = None

\* Finitely many faults cannot keep a queued job from settling: crashed claims
\* expire, failures are counted, cancellations are picked up.
EventuallySettled ==
    \A j \in Jobs : status[j] = "queued" ~> [](status[j] \in Terminal)

\* What the runbook asks of a reclaimed job: the row is not written by a worker
\* whose fence claim_one has superseded.  It fails: the early returns and the
\* except branch of run_once check the fence on the row they read, and flush
\* without it in the WHERE clause.
ObsoleteFenceRejected ==
    [][\A w \in Workers :
          (pc[w] # "idle" /\ pc'[w] = "idle" /\ status'[job[w]] # status[job[w]])
             => fence[w] = lease_version[job[w]]]_vars
=============================================================================
