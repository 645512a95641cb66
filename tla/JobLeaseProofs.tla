--------------------------- MODULE JobLeaseProofs ---------------------------
(***************************************************************************)
(* Proofs about the durable job queue, for any number of jobs, workers and *)
(* faults.  The safety of a completion rests on the fence: Inductive ties  *)
(* each process's fence to the row it was issued from, and each committed  *)
(* result to the fences issued so far.                                     *)
(***************************************************************************)
EXTENDS JobLease, TLAPS

\* A process inside run_once works on a real row, under a fence claim_one
\* issued for it.
Holding ==
    \A w \in Workers : pc[w] # "idle" =>
        /\ job[w] \in Jobs
        /\ fence[w] <= lease_version[job[w]]

\* Processes on the same job hold different fences.
Distinct ==
    \A w, x \in Workers :
        (w # x /\ pc[w] # "idle" /\ pc[x] # "idle" /\ job[w] = job[x])
            => fence[w] # fence[x]

\* An owned row is running and waits for a result newer than all before it.
OwnedAwaits ==
    \A j \in Jobs :
        /\ result_fence[j] <= lease_version[j]
        /\ lease_owner[j] # None =>
              status[j] = "running" /\ result_fence[j] < lease_version[j]

Inductive == TypeOK /\ Holding /\ Distinct /\ OwnedAwaits /\ CompleteHasResult

-----------------------------------------------------------------------------
\* The empty queue satisfies the invariant.
LEMMA InitInductive == Init => Inductive
  BY JobsAssumption, WorkerIdAssumption
  DEF Init, Inductive, TypeOK, Holding, Distinct, OwnedAwaits,
      CompleteHasResult, Statuses, Terminal, Places

\* What the statuses written by run_once and claim_one are.
LEMMA StatusesDeclared ==
  /\ UnknownKindStatus = "failed"
  /\ \A n \in Nat : FailureStatus(n) \in {"failed", "retry"}
  BY DEF UnknownKindStatus, FailureStatus

\* A process leaving run_once changes only its own locals.
LEMMA LeaveLocals ==
  ASSUME TypeOK, NEW w \in Workers, Leave(w)
  PROVE  /\ pc' \in [Workers -> Places]
         /\ job' \in [Workers -> Jobs \cup {None}]
         /\ fence' \in [Workers -> Nat]
         /\ heartbeat' \in [Workers -> {"off", "on", "lost"}]
         /\ seen' \in [Workers -> Nat]
         /\ pc'[w] = "idle"
         /\ \A x \in Workers : x # w =>
               pc'[x] = pc[x] /\ job'[x] = job[x] /\ fence'[x] = fence[x]
  BY DEF TypeOK, Leave, Places

\* A flush that settles a row with a status other than "complete" keeps the
\* rows' part of the invariant.
LEMMA SettleRows ==
  ASSUME Inductive, NEW j \in Jobs,
         NEW s \in {"failed", "cancelled", "retry"},
         Settle(j, s), UNCHANGED history
  PROVE  /\ status' \in [Jobs -> Statuses]
         /\ lease_owner' \in [Jobs -> Ids \cup {None}]
         /\ lease_expires_at' \in [Jobs -> {"none", "live", "past"}]
         /\ attempts' = attempts /\ lease_version' = lease_version
         /\ cancel_requested' = cancel_requested
         /\ OwnedAwaits' /\ CompleteHasResult'
  BY DEF Inductive, TypeOK, Settle, OwnedAwaits, CompleteHasResult, Statuses,
         Terminal, history

\* A process that leaves run_once, settling its row with a status other than
\* "complete", keeps the invariant.
LEMMA SettleAndLeave ==
  ASSUME Inductive, NEW w \in Workers, pc[w] # "idle",
         NEW s \in {"failed", "cancelled", "retry"},
         Settle(job[w], s), Leave(w), UNCHANGED <<cancelling, history, faults>>
  PROVE  Inductive'
  <1>0. job[w] \in Jobs
    BY DEF Inductive, Holding
  <1>1. TypeOK'
    BY <1>0, SettleRows, LeaveLocals DEF Inductive, TypeOK, history, faults
  <1>2. OwnedAwaits' /\ CompleteHasResult'
    BY <1>0, SettleRows
  <1>3. Holding' /\ Distinct'
    BY <1>0, SettleRows, LeaveLocals DEF Inductive, Holding, Distinct
  <1>q. QED BY <1>1, <1>2, <1>3 DEF Inductive

\* Leaving run_once without writing the row keeps the invariant.
LEMMA LeaveOnly ==
  ASSUME Inductive, NEW w \in Workers, Leave(w),
         UNCHANGED <<rows, cancelling, history>>,
         crashes' \in Nat, stalls' \in Nat
  PROVE  Inductive'
  <1>1. TypeOK'
    BY LeaveLocals DEF Inductive, TypeOK, history, rows
  <1>2. OwnedAwaits' /\ CompleteHasResult'
    BY DEF Inductive, OwnedAwaits, CompleteHasResult, rows, history
  <1>3. Holding' /\ Distinct'
    BY LeaveLocals DEF Inductive, Holding, Distinct, rows
  <1>q. QED BY <1>1, <1>2, <1>3 DEF Inductive

\* The rows a process writes when it claims a job: the fence moves past every
\* fence held and every result committed.
LEMMA ClaimKeeps ==
  ASSUME Inductive, NEW w \in Workers, Claim(w)
  PROVE  Inductive'
  <1>1. PICK j \in Jobs :
          /\ pc[w] = "idle"
          /\ status' = [status EXCEPT ![j] = "running"]
          /\ lease_owner' = [lease_owner EXCEPT ![j] = WorkerId[w]]
          /\ lease_version' = [lease_version EXCEPT ![j] = lease_version[j] + 1]
          /\ lease_expires_at' = [lease_expires_at EXCEPT ![j] = "live"]
          /\ attempts' = [attempts EXCEPT ![j] = attempts[j] + 1]
          /\ pc' = [pc EXCEPT ![w] = "claimed"]
          /\ job' = [job EXCEPT ![w] = j]
          /\ fence' = [fence EXCEPT ![w] = lease_version'[j]]
          /\ heartbeat' = [heartbeat EXCEPT ![w] = "on"]
          /\ UNCHANGED <<cancel_requested, cancelling, seen, history, faults>>
    BY DEF Claim, NextFence
  <1>2. TypeOK'
    <2>1. lease_version' \in [Jobs -> Nat] /\ lease_version'[j] \in Nat
      BY <1>1 DEF Inductive, TypeOK
    <2>2. lease_owner' \in [Jobs -> Ids \cup {None}]
      BY <1>1, WorkerIdAssumption DEF Inductive, TypeOK
    <2>3. /\ job' \in [Workers -> Jobs \cup {None}]
          /\ fence' \in [Workers -> Nat]
          /\ pc' \in [Workers -> Places]
      BY <1>1, <2>1 DEF Inductive, TypeOK, Places
    <2>4. status' \in [Jobs -> Statuses] /\ attempts' \in [Jobs -> Nat]
      BY <1>1 DEF Inductive, TypeOK, Statuses
    <2>q. QED
      BY <1>1, <2>1, <2>2, <2>3, <2>4 DEF Inductive, TypeOK, history, faults
  <1>3. OwnedAwaits' /\ CompleteHasResult'
    BY <1>1 DEF Inductive, TypeOK, OwnedAwaits, CompleteHasResult, history
  <1>4. Holding' /\ Distinct'
    <2>1. \A x \in Workers : x # w =>
            pc'[x] = pc[x] /\ job'[x] = job[x] /\ fence'[x] = fence[x]
      BY <1>1 DEF Inductive, TypeOK
    <2>2. job'[w] = j /\ fence'[w] = lease_version[j] + 1
          /\ lease_version'[j] = lease_version[j] + 1
      BY <1>1 DEF Inductive, TypeOK
    <2>3. \A i \in Jobs : lease_version[i] \in Nat /\ lease_version'[i] \in Nat
                          /\ lease_version[i] <= lease_version'[i]
      BY <1>1 DEF Inductive, TypeOK
    <2>4. \A x \in Workers : fence[x] \in Nat
      BY DEF Inductive, TypeOK
    <2>q. QED BY <2>1, <2>2, <2>3, <2>4 DEF Inductive, Holding, Distinct
  <1>q. QED BY <1>2, <1>3, <1>4 DEF Inductive

\* Completion commits a result under the newest fence of an owned row.
LEMMA CompleteKeeps ==
  ASSUME Inductive, NEW w \in Workers, Complete(w)
  PROVE  Inductive'
  <1>1. job[w] \in Jobs /\ pc[w] # "idle" /\ fence[w] = lease_version[job[w]]
    BY DEF Inductive, Holding, Complete, Completable, OwnsFence
  <1>2. TypeOK'
    BY <1>1, LeaveLocals
    DEF Inductive, TypeOK, Complete, Settle, faults, Statuses, Terminal
  <1>3. OwnedAwaits' /\ CompleteHasResult'
    BY <1>1 DEF Inductive, TypeOK, OwnedAwaits, CompleteHasResult, Complete,
                Settle
  <1>4. Holding' /\ Distinct'
    BY <1>1, LeaveLocals
    DEF Inductive, Holding, Distinct, Complete, Settle
  <1>q. QED BY <1>2, <1>3, <1>4 DEF Inductive

\* A step inside run_once that only moves the process keeps the invariant.
LEMMA MoveKeeps ==
  ASSUME Inductive, NEW w \in Workers, pc[w] # "idle",
         NEW p \in Places, pc' = [pc EXCEPT ![w] = p],
         heartbeat' \in [Workers -> {"off", "on", "lost"}],
         seen' \in [Workers -> Nat],
         UNCHANGED <<rows, cancelling, job, fence, history, faults>>
  PROVE  Inductive'
  <1>1. TypeOK'
    BY DEF Inductive, TypeOK, rows, history, faults
  <1>2. OwnedAwaits' /\ CompleteHasResult'
    BY DEF Inductive, OwnedAwaits, CompleteHasResult, rows, history
  <1>3. \A x \in Workers : pc'[x] # "idle" => pc[x] # "idle"
    BY DEF Inductive, TypeOK
  <1>4. Holding' /\ Distinct'
    BY <1>3 DEF Inductive, Holding, Distinct, rows
  <1>q. QED BY <1>1, <1>2, <1>4 DEF Inductive

\* A step that touches neither the fences nor the results, and settles no row
\* as complete.
LEMMA OtherKeeps ==
  ASSUME Inductive, TypeOK',
         UNCHANGED <<lease_version, pc, job, fence, history>>,
         \A j \in Jobs :
            \/ status'[j] = status[j] /\ lease_owner'[j] = lease_owner[j]
            \/ status'[j] # "complete" /\ lease_owner'[j] = None
  PROVE  Inductive'
  <1>1. OwnedAwaits' /\ CompleteHasResult'
    BY DEF Inductive, OwnedAwaits, CompleteHasResult, history
  <1>2. Holding' /\ Distinct'
    BY DEF Inductive, Holding, Distinct
  <1>q. QED BY <1>1, <1>2 DEF Inductive

\* Every step of the producer, the API, the workers, the heartbeats, the clock
\* and the faults preserves the invariant.
LEMMA NextInductive == Inductive /\ [Next]_vars => Inductive'
  <1> SUFFICES ASSUME Inductive, [Next]_vars PROVE Inductive'
    OBVIOUS
  <1> USE DEF Places
  <1>1. CASE UNCHANGED vars
    <2>1. TypeOK'
      BY <1>1 DEF Inductive, TypeOK, vars, rows, threads, history, faults
    <2>q. QED
      BY <1>1, <2>1, OtherKeeps DEF vars, rows, threads, history, faults
  <1>2. ASSUME NEW j \in Jobs, Enqueue(j) PROVE Inductive'
    <2>1. TypeOK'
      BY <1>2 DEF Inductive, TypeOK, Enqueue, Statuses, threads, history, faults
    <2>2. \A i \in Jobs :
            \/ status'[i] = status[i] /\ lease_owner'[i] = lease_owner[i]
            \/ status'[i] # "complete" /\ lease_owner'[i] = None
      BY <1>2 DEF Inductive, TypeOK, OwnedAwaits, Enqueue
    <2>q. QED BY <1>2, <2>1, <2>2, OtherKeeps DEF Enqueue, threads
  <1>3. ASSUME NEW j \in Jobs, CancelRead(j) PROVE Inductive'
    <2>1. TypeOK'
      BY <1>3 DEF Inductive, TypeOK, CancelRead, rows, threads, history, faults
    <2>q. QED BY <1>3, <2>1, OtherKeeps DEF CancelRead, rows, threads
  <1>4. ASSUME NEW j \in Jobs, CancelWrite(j) PROVE Inductive'
    <2>1. TypeOK'
      BY <1>4 DEF Inductive, TypeOK, CancelWrite, threads, history, faults
    <2>q. QED BY <1>4, <2>1, OtherKeeps DEF CancelWrite, threads
  <1>5. ASSUME NEW w \in Workers, ClaimCancelled(w) PROVE Inductive'
    <2>1. TypeOK'
      BY <1>5 DEF Inductive, TypeOK, ClaimCancelled, Statuses, Terminal,
                  threads, history, faults
    <2>2. \A i \in Jobs :
            \/ status'[i] = status[i] /\ lease_owner'[i] = lease_owner[i]
            \/ status'[i] # "complete" /\ lease_owner'[i] = None
      BY <1>5 DEF Inductive, TypeOK, ClaimCancelled
    <2>q. QED BY <1>5, <2>1, <2>2, OtherKeeps DEF ClaimCancelled, threads
  <1>6. ASSUME NEW w \in Workers, Renew(w) PROVE Inductive'
    <2>1. TypeOK'
      BY <1>6 DEF Inductive, TypeOK, Renew, threads, history, faults
    <2>q. QED BY <1>6, <2>1, OtherKeeps DEF Renew, threads
  <1>7. ASSUME NEW w \in Workers, LoseLease(w) PROVE Inductive'
    <2>1. TypeOK'
      BY <1>7 DEF Inductive, TypeOK, LoseLease, rows, history, faults
    <2>q. QED BY <1>7, <2>1, OtherKeeps DEF LoseLease, rows
  <1>8. ASSUME NEW j \in Jobs, LeaseExpires(j) \/ Stall(j) PROVE Inductive'
    <2>1. TypeOK'
      BY <1>8 DEF Inductive, TypeOK, LeaseExpires, Stall, threads, history,
                  faults
    <2>q. QED BY <1>8, <2>1, OtherKeeps DEF LeaseExpires, Stall, threads
  <1>9. ASSUME NEW w \in Workers, RunOnce(w) PROVE Inductive'
    <2>1. CASE ReadSuperseded(w) \/ RecoverSkip(w)
      BY <2>1, LeaveOnly
      DEF ReadSuperseded, RecoverSkip, faults, Inductive, TypeOK
    <2>2. CASE ReadJob(w)
      <3>1. PICK p \in Places : pc' = [pc EXCEPT ![w] = p]
        BY <2>2 DEF ReadJob
      <3>2. heartbeat' \in [Workers -> {"off", "on", "lost"}]
            /\ seen' \in [Workers -> Nat]
        BY <2>2 DEF ReadJob, Inductive, TypeOK
      <3>q. QED BY <2>2, <3>1, <3>2, MoveKeeps DEF ReadJob
    <2>3. CASE Abort(w)
      BY <2>3, SettleAndLeave DEF Abort
    <2>4. CASE Reject(w)
      BY <2>4, SettleAndLeave, StatusesDeclared DEF Reject
    <2>5. CASE HandlerReturns(w) \/ HandlerRaises(w)
      <3>1. PICK p \in Places : pc' = [pc EXCEPT ![w] = p]
        BY <2>5 DEF HandlerReturns, HandlerRaises
      <3>2. heartbeat' \in [Workers -> {"off", "on", "lost"}]
            /\ seen' \in [Workers -> Nat]
        BY <2>5 DEF HandlerReturns, HandlerRaises, Inductive, TypeOK
      <3>q. QED
        BY <2>5, <3>1, <3>2, MoveKeeps DEF HandlerReturns, HandlerRaises
    <2>6. CASE Complete(w)
      BY <2>6, CompleteKeeps
    <2>7. CASE CompletionRefused(w)
      <3>1. heartbeat' \in [Workers -> {"off", "on", "lost"}]
            /\ seen' \in [Workers -> Nat]
        BY <2>7 DEF CompletionRefused, Inductive, TypeOK
      <3>q. QED BY <2>7, <3>1, MoveKeeps DEF CompletionRefused
    <2>8. CASE RecoverRead(w)
      <3>1. job[w] \in Jobs
        BY <2>8 DEF RecoverRead, Inductive, Holding
      <3>2. heartbeat' \in [Workers -> {"off", "on", "lost"}]
            /\ seen' \in [Workers -> Nat]
        BY <2>8, <3>1 DEF RecoverRead, Inductive, TypeOK
      <3>q. QED BY <2>8, <3>2, MoveKeeps DEF RecoverRead
    <2>9. CASE RecoverWrite(w)
      <3>1. FailureStatus(seen[w]) \in {"failed", "retry"}
        BY StatusesDeclared DEF Inductive, TypeOK
      <3>q. QED BY <2>9, <3>1, SettleAndLeave DEF RecoverWrite
    <2>q. QED
      BY <1>9, <2>1, <2>2, <2>3, <2>4, <2>5, <2>6, <2>7, <2>8, <2>9
      DEF RunOnce
  <1>10. ASSUME NEW w \in Workers, Crash(w) PROVE Inductive'
    BY <1>10, LeaveOnly DEF Crash, Inductive, TypeOK
  <1>q. QED
    BY <1>1, <1>2, <1>3, <1>4, <1>5, <1>6, <1>7, <1>8, <1>9, <1>10, ClaimKeeps
    DEF Next

-----------------------------------------------------------------------------
\* The inductive invariant holds in every reachable state.
THEOREM InductiveInvariant == Spec => []Inductive
  BY InitInductive, NextInductive, PTL DEF Spec

\* Every column of durable_jobs and every local of a worker keeps its type.
THEOREM TypeCorrect == Spec => []TypeOK
  <1>1. Inductive => TypeOK
    BY DEF Inductive
  <1>q. QED BY <1>1, InductiveInvariant, PTL

\* claim_one never issues a fence twice: two live processes on one job hold
\* different fences, even with equal WORKER_IDs.
THEOREM FencesAreUnique == Spec => []FencesUnique
  <1>1. Inductive => FencesUnique
    BY DEF Inductive, Holding, Distinct, FencesUnique
  <1>q. QED BY <1>1, InductiveInvariant, PTL

\* A job shown complete carries the effects of its newest claim.
THEOREM CompleteJobsHaveResults == Spec => []CompleteHasResult
  <1>1. Inductive => CompleteHasResult
    BY DEF Inductive
  <1>q. QED BY <1>1, InductiveInvariant, PTL

\* Only the completing UPDATE commits a result.
LEMMA ResultSteps ==
  ASSUME Inductive, [Next]_vars, NEW j \in Jobs, results'[j] # results[j]
  PROVE  \E w \in Workers : Complete(w) /\ job[w] = j
  <1>1. CASE \E w \in Workers : Complete(w)
    <2>1. PICK w \in Workers : Complete(w)
      BY <1>1
    <2>2. job[w] = j
      BY <2>1 DEF Complete, Inductive, TypeOK
    <2>q. QED BY <2>1, <2>2
  <1>2. CASE ~ \E w \in Workers : Complete(w)
    <2>1. results' = results
      BY <1>2 DEF Next, vars, history, Enqueue, CancelRead, CancelWrite, Claim,
           ClaimCancelled, Renew, LoseLease, RunOnce, ReadSuperseded, ReadJob,
           Abort, Reject, HandlerReturns, HandlerRaises, CompletionRefused,
           RecoverRead, RecoverSkip, RecoverWrite, Crash, LeaseExpires, Stall
    <2>q. QED BY <2>1
  <1>q. QED BY <1>1, <1>2

\* A superseded worker never commits a result: each result carries the newest
\* fence issued, newer than the fence of every result before it.
THEOREM ResultsAreFenced == Spec => ResultsFenced
  <1>1. Inductive /\ [Next]_vars =>
          [\A j \in Jobs : results'[j] # results[j]
             => /\ result_fence'[j] > result_fence[j]
                /\ result_fence'[j] = lease_version[j]]_vars
    <2> SUFFICES ASSUME Inductive, [Next]_vars, NEW j \in Jobs,
                        results'[j] # results[j]
                 PROVE  /\ result_fence'[j] > result_fence[j]
                        /\ result_fence'[j] = lease_version[j]
      OBVIOUS
    <2>1. PICK w \in Workers : Complete(w) /\ job[w] = j
      BY ResultSteps
    <2>2. lease_owner[j] # None /\ fence[w] = lease_version[j]
      BY <2>1, WorkerIdAssumption DEF Complete, Completable, OwnsFence
    <2>3. result_fence'[j] = fence[w]
      BY <2>1 DEF Complete, Inductive, TypeOK
    <2>q. QED BY <2>2, <2>3 DEF Inductive, OwnedAwaits, TypeOK
  <1>q. QED BY <1>1, InductiveInvariant, PTL DEF Spec, ResultsFenced

\* After cancel_job has committed its flag, no result of the job commits.
THEOREM CancellationIsHonoured == Spec => CancelHonoured
  <1>1. Inductive /\ [Next]_vars =>
          [\A j \in Jobs : cancel_requested[j] => results'[j] = results[j]]_vars
    <2> SUFFICES ASSUME Inductive, [Next]_vars, NEW j \in Jobs,
                        cancel_requested[j], results'[j] # results[j]
                 PROVE  FALSE
      OBVIOUS
    <2>q. QED BY ResultSteps DEF Complete, Completable
  <1>q. QED BY <1>1, InductiveInvariant, PTL DEF Spec, CancelHonoured
=============================================================================
