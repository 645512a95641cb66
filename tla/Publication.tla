---------------------------- MODULE Publication ----------------------------
(***************************************************************************)
(* At-least-once publication of the outbox (publication/service.py): relay *)
(* requests that POST events to the consumer, reconcile requests that ask  *)
(* it for receipts, the consumer's event table (demo_services.py), and a   *)
(* network that loses, delays and cuts off exchanges.                      *)
(*                                                                         *)
(* Requests run concurrently on rows they loaded earlier: sessions keep    *)
(* loaded rows over a commit (expire_on_commit=False), and a flush writes  *)
(* only the columns the request changed, whatever the row has become.  A   *)
(* flushed row stays locked until its transaction commits; a relay commits *)
(* right after its flush, a reconcile request flushes early (autoflush).   *)
(***************************************************************************)
EXTENDS Naturals, FiniteSets, Sequences

CONSTANTS
    Events,         \* outbox events of one entity; the number is the rank by
                    \* occurred_at and the entity_version
    Versioned,      \* the events whose payload carries their entity_version
    Relays,         \* concurrent relay requests
    Reconcilers,    \* concurrent reconcile requests
    None,           \* no event, or a request nobody waits for
    DEAD_AFTER,     \* attempts after which a failure is final
    LIMIT,          \* rows a request loads
    MaxFaults       \* bound on crashes, broken exchanges and rejections

ASSUME EventsAssumption ==
    Events \subseteq Nat /\ Versioned \subseteq Events /\ None \notin Relays
ASSUME PublicationBounds ==
    DEAD_AFTER \in Nat \ {0} /\ LIMIT \in Nat \ {0} /\ MaxFaults \in Nat

VARIABLES
    status,      \* OutboxEvent.status; "absent" before INSERT
    attempts,    \* OutboxEvent.attempts
    rows,        \* DeliveryAttempt rows: <<event, attempt>>
    receipts,    \* events with a PublicationReceipt row
    pc,          \* "idle" | "next" | "marked" | "waiting", of each relay
    batch,       \* the events a relay has loaded and not processed
    loaded,      \* attempts as each relay loaded them
    answer,      \* the response a waiting relay has got: "none" | code class
    wire,        \* POSTs on their way: [event, to]
    applied,     \* events in the consumer's table, in order of insertion
    asking,      \* the events a reconcile request has loaded and not asked for
    verdict,     \* its uncommitted changes: event -> "none" | new status
    rpc,         \* "idle" | "asking", of each reconcile request
    posts,       \* history: the attempts that were POSTed: <<event, attempt>>
    faults       \* faults so far

outbox == <<status, attempts, rows, receipts>>
relays == <<pc, batch, loaded, answer>>
consumer == <<wire, applied>>
reconcilers == <<asking, verdict, rpc>>
vars == <<outbox, relays, consumer, reconcilers, posts, faults>>

Applied(e) == \E i \in DOMAIN applied : applied[i] = e

\* ORDER BY occurred_at LIMIT
FirstOf(S) == {e \in S : Cardinality({f \in S : f < e}) < LIMIT}
Head1(S) == CHOOSE e \in S : \A f \in S : e <= f

Init ==
    /\ status = [e \in Events |-> "absent"]
    /\ attempts = [e \in Events |-> 0]
    /\ rows = {}
    /\ receipts = {}
    /\ pc = [r \in Relays |-> "idle"]
    /\ batch = [r \in Relays |-> {}]
    /\ loaded = [r \in Relays |-> [e \in Events |-> 0]]
    /\ answer = [r \in Relays |-> "none"]
    /\ wire = {}
    /\ applied = <<>>
    /\ asking = [c \in Reconcilers |-> {}]
    /\ verdict = [c \in Reconcilers |-> [e \in Events |-> "none"]]
    /\ rpc = [c \in Reconcilers |-> "idle"]
    /\ posts = {}
    /\ faults = 0

-----------------------------------------------------------------------------
(* The row locks of reconcile transactions.  A verdict "delivered" looks for *)
(* its receipt row, and that SELECT first flushes every verdict so far.      *)

Locked(c) ==
    {e \in Events : verdict[c][e] # "none"
                    /\ \E f \in Events : e <= f /\ verdict[c][f] = "delivered"}

Writable(e) == \A c \in Reconcilers : e \notin Locked(c)

-----------------------------------------------------------------------------
(* The outbox INSERT of a decision.                                        *)

Enqueue(e) ==
    /\ status[e] = "absent"
    /\ \A f \in Events : f < e => status[f] # "absent"
    /\ status' = [status EXCEPT ![e] = "pending"]
    /\ UNCHANGED <<attempts, rows, receipts, relays, consumer, reconcilers,
                   posts, faults>>

-----------------------------------------------------------------------------
(* relay_events.                                                           *)

PendingOnly == {e \in Events : status[e] = "pending"}
Relayable == {e \in Events : status[e] \in {"pending", "retry"}}

RelayLoad(r) ==
    /\ pc[r] = "idle"
    /\ Relayable # {}
    /\ pc' = [pc EXCEPT ![r] = "next"]
    /\ batch' = [batch EXCEPT ![r] = FirstOf(Relayable)]
    /\ loaded' = [loaded EXCEPT ![r] =
                     [e \in Events |-> IF e \in FirstOf(Relayable) THEN attempts[e] ELSE 0]]
    /\ UNCHANGED <<outbox, answer, consumer, reconcilers, posts, faults>>

Reset(r) ==
    /\ pc' = [pc EXCEPT ![r] = "idle"]
    /\ batch' = [batch EXCEPT ![r] = {}]
    /\ loaded' = [loaded EXCEPT ![r] = [e \in Events |-> 0]]
    /\ answer' = [answer EXCEPT ![r] = "none"]

\* UNIQUE (event_id, consumer_key, attempt)
Unchecked(e, n) == TRUE
Unattempted(e, n) == <<e, n>> \notin rows

\* The status an event has while its POST is under way.
NoMarker == "pending"
Marker == "reconcile"

\* The attempt row and the marker are committed before the POST.
RelayMark(r) ==
    LET e == Head1(batch[r])
        n == loaded[r][e] + 1
    IN  /\ pc[r] = "next"
        /\ Writable(e)
        /\ Unattempted(e, n)
        /\ rows' = rows \cup {<<e, n>>}
        /\ attempts' = [attempts EXCEPT ![e] = n]
        /\ status' = [status EXCEPT ![e] = Marker]
        /\ pc' = [pc EXCEPT ![r] = "marked"]
        /\ loaded' = [loaded EXCEPT ![r][e] = n]
        /\ UNCHANGED <<receipts, batch, answer, consumer, reconcilers, posts,
                       faults>>

\* Another relay made this attempt: the commit fails and ends the request.
RelayConflict(r) ==
    LET e == Head1(batch[r])
    IN  /\ pc[r] = "next"
        /\ Writable(e)
        /\ ~Unattempted(e, loaded[r][e] + 1)
        /\ Reset(r)
        /\ UNCHANGED <<outbox, consumer, reconcilers, posts, faults>>

\* The POST leaves.
RelayPost(r) ==
    LET e == Head1(batch[r])
    IN  /\ pc[r] = "marked"
        /\ wire' = wire \cup {[event |-> e, to |-> r]}
        /\ posts' = posts \cup {<<e, loaded[r][e]>>}
        /\ pc' = [pc EXCEPT ![r] = "waiting"]
        /\ UNCHANGED <<outbox, batch, loaded, answer, applied, reconcilers,
                       faults>>

\* The request goes on with the next event of its batch, if there is one.
Advance(r) ==
    LET e == Head1(batch[r])
    IN  /\ pc' = [pc EXCEPT ![r] = IF batch[r] = {e} THEN "idle" ELSE "next"]
        /\ batch' = [batch EXCEPT ![r] = @ \ {e}]
        /\ loaded' = [loaded EXCEPT ![r][e] = 0]
        /\ answer' = [answer EXCEPT ![r] = "none"]

\* 2xx: delivered, with a receipt.
RelayAccepted(r) ==
    LET e == Head1(batch[r])
    IN  /\ pc[r] = "waiting" /\ answer[r] = "accepted"
        /\ Writable(e)
        /\ status' = [status EXCEPT ![e] = "delivered"]
        /\ receipts' = receipts \cup {e}
        /\ Advance(r)
        /\ UNCHANGED <<attempts, rows, consumer, reconcilers, posts, faults>>

\* The status a failure leaves, by the attempts of the row as this request has
\* them.
FailedStatus(n) == IF n >= DEAD_AFTER THEN "dead_letter" ELSE "retry"

\* Any other 4xx: a definite rejection.
RelayRejected(r) ==
    LET e == Head1(batch[r])
    IN  /\ pc[r] = "waiting" /\ answer[r] = "rejected"
        /\ Writable(e)
        /\ status' = [status EXCEPT ![e] = FailedStatus(loaded[r][e])]
        /\ Advance(r)
        /\ UNCHANGED <<attempts, rows, receipts, consumer, reconcilers, posts,
                       faults>>

\* The relay stops waiting: a POST still on its way has nobody to answer to.
Orphan(r) ==
    wire' = {IF m.to = r THEN [m EXCEPT !.to = None] ELSE m : m \in wire}

\* 429, 5xx, a read timeout, a read or a write error: the status stays
\* "reconcile", unless a concurrent request has changed it.
RelayAmbiguous(r) ==
    /\ pc[r] = "waiting"
    /\ faults < MaxFaults
    /\ faults' = faults + 1
    /\ Orphan(r)
    /\ Advance(r)
    /\ UNCHANGED <<outbox, applied, reconcilers, posts>>

\* Any other transport error (no connection, the peer closed without a
\* response): treated as a failure.
RelayBroken(r) ==
    LET e == Head1(batch[r])
    IN  /\ pc[r] = "waiting"
        /\ Writable(e)
        /\ faults < MaxFaults
        /\ faults' = faults + 1
        /\ status' = [status EXCEPT ![e] = FailedStatus(loaded[r][e])]
        /\ Orphan(r)
        /\ Advance(r)
        /\ UNCHANGED <<attempts, rows, receipts, applied, reconcilers, posts>>

\* The process dies with the request.
RelayCrash(r) ==
    /\ pc[r] # "idle"
    /\ faults < MaxFaults
    /\ faults' = faults + 1
    /\ Orphan(r)
    /\ Reset(r)
    /\ UNCHANGED <<outbox, applied, reconcilers, posts>>

-----------------------------------------------------------------------------
(* The consumer and the network.                                           *)

\* The consumer has answered the relay that waits for message m, if any.
Answered(m, code) ==
    answer' = [r \in Relays |-> IF m.to = r THEN code ELSE answer[r]]

\* INSERT OR IGNORE by event_id.
InsertedAgain(e) == Append(applied, e)
Inserted(e) == IF Applied(e) THEN applied ELSE Append(applied, e)

\* receive_event.
ConsumerApplies(m) ==
    /\ applied' = Inserted(m.event)
    /\ wire' = wire \ {m}
    /\ Answered(m, "accepted")
    /\ UNCHANGED <<outbox, pc, batch, loaded, reconcilers, posts, faults>>

\* The consumer refuses the request (an expired or invalid signature).
ConsumerRejects(m) ==
    /\ faults < MaxFaults
    /\ faults' = faults + 1
    /\ wire' = wire \ {m}
    /\ Answered(m, "rejected")
    /\ UNCHANGED <<outbox, pc, batch, loaded, applied, reconcilers, posts>>

\* A request nobody waits for is lost.
WireLoses(m) ==
    /\ m.to = None
    /\ wire' = wire \ {m}
    /\ UNCHANGED <<outbox, relays, applied, reconcilers, posts, faults>>

-----------------------------------------------------------------------------
(* reconcile_events.                                                       *)

Ambiguous == {e \in Events : status[e] = "reconcile"}

ReconcileLoad(c) ==
    /\ rpc[c] = "idle"
    /\ Ambiguous # {}
    /\ rpc' = [rpc EXCEPT ![c] = "asking"]
    /\ asking' = [asking EXCEPT ![c] = FirstOf(Ambiguous)]
    /\ UNCHANGED <<outbox, relays, consumer, verdict, posts, faults>>

\* What the consumer's receipt means: absent, matching, or of no version.
JudgeUnseen(e) == "delivered"
Judge(e) ==
    CASE ~Applied(e) -> "retry"
      [] Applied(e) /\ e \in Versioned -> "delivered"
      [] OTHER -> "none"

\* The rows c would write are not locked by another reconcile request.
Unblocked(c, v) ==
    \A d \in Reconcilers \ {c} : \A e \in Locked(d) : v[e] = "none"

\* One GET; nothing is committed yet.
ReconcileAsk(c) ==
    LET e == Head1(asking[c])
    IN  /\ rpc[c] = "asking" /\ asking[c] # {}
        /\ asking' = [asking EXCEPT ![c] = @ \ {e}]
        /\ verdict' = [verdict EXCEPT ![c][e] = Judge(e)]
        /\ Judge(e) = "delivered" => Unblocked(c, verdict'[c])
        /\ UNCHANGED <<outbox, relays, consumer, rpc, posts, faults>>

\* The GET fails: unresolved.
ReconcileFails(c) ==
    /\ rpc[c] = "asking" /\ asking[c] # {}
    /\ faults < MaxFaults
    /\ faults' = faults + 1
    /\ asking' = [asking EXCEPT ![c] = @ \ {Head1(@)}]
    /\ UNCHANGED <<outbox, relays, consumer, verdict, rpc, posts>>

Forget(c) ==
    /\ rpc' = [rpc EXCEPT ![c] = "idle"]
    /\ asking' = [asking EXCEPT ![c] = {}]
    /\ verdict' = [verdict EXCEPT ![c] = [e \in Events |-> "none"]]

\* The one commit at the end writes every verdict, with a receipt for each
\* delivered event that has none (the lock on the event's row keeps others from
\* inserting it meanwhile).
ReconcileCommit(c) ==
    /\ rpc[c] = "asking" /\ asking[c] = {}
    /\ Unblocked(c, verdict[c])
    /\ status' = [e \in Events |-> IF verdict[c][e] = "none" THEN status[e]
                                   ELSE verdict[c][e]]
    /\ receipts' = receipts \cup {e \in Events : verdict[c][e] = "delivered"}
    /\ Forget(c)
    /\ UNCHANGED <<attempts, rows, relays, consumer, posts, faults>>

ReconcileCrash(c) ==
    /\ rpc[c] # "idle"
    /\ faults < MaxFaults
    /\ faults' = faults + 1
    /\ Forget(c)
    /\ UNCHANGED <<outbox, relays, consumer, posts>>

-----------------------------------------------------------------------------
Relay(r) ==
    \/ RelayLoad(r) \/ RelayMark(r) \/ RelayConflict(r) \/ RelayPost(r)
    \/ RelayAccepted(r) \/ RelayRejected(r)

Reconcile(c) == ReconcileLoad(c) \/ ReconcileAsk(c) \/ ReconcileCommit(c)

Answer(m) == ConsumerApplies(m) \/ ConsumerRejects(m)

Fault ==
    \/ \E r \in Relays : RelayAmbiguous(r) \/ RelayBroken(r) \/ RelayCrash(r)
    \/ \E c \in Reconcilers : ReconcileFails(c) \/ ReconcileCrash(c)

Next ==
    \/ \E e \in Events : Enqueue(e)
    \/ \E r \in Relays : Relay(r)
    \/ \E c \in Reconcilers : Reconcile(c)
    \/ \E m \in wire : Answer(m) \/ WireLoses(m)
    \/ Fault

Spec == Init /\ [][Next]_vars

\* Relay and reconcile requests keep being made and are served, and the
\* consumer answers a request somebody waits for.
Fairness ==
    /\ \A r \in Relays : WF_vars(Relay(r))
    /\ \A c \in Reconcilers : WF_vars(Reconcile(c))
    /\ \A r \in Relays : WF_vars(\E m \in wire : m.to = r /\ Answer(m))

FairSpec == Spec /\ Fairness

-----------------------------------------------------------------------------
(* Properties.                                                             *)

Statuses == {"absent", "pending", "retry", "reconcile", "delivered",
             "dead_letter"}

\* The type invariant.
TypeOK ==
    /\ status \in [Events -> Statuses]
    /\ attempts \in [Events -> Nat]
    /\ rows \subseteq Events \X (Nat \ {0})
    /\ receipts \subseteq Events
    /\ pc \in [Relays -> {"idle", "next", "marked", "waiting"}]
    /\ batch \in [Relays -> SUBSET Events]
    /\ loaded \in [Relays -> [Events -> Nat]]
    /\ answer \in [Relays -> {"none", "accepted", "rejected"}]
    /\ wire \subseteq [event : Events, to : Relays \cup {None}]
    /\ applied \in Seq(Events)
    /\ asking \in [Reconcilers -> SUBSET Events]
    /\ verdict \in [Reconcilers -> [Events -> {"none", "retry", "delivered"}]]
    /\ rpc \in [Reconcilers -> {"idle", "asking"}]
    /\ posts \subseteq Events \X (Nat \ {0})
    /\ faults \in Nat

\* An event shown delivered, and every receipt, is backed by the consumer's
\* table, whatever crashed, timed out or raced before (relay_events,
\* reconcile_events).
DeliveredMeansApplied ==
    \A e \in Events : (status[e] = "delivered" \/ e \in receipts) => Applied(e)

\* Two requests never POST the same attempt: the attempt row committed before
\* the POST is the lock between relays that loaded the same event.
OnePostPerAttempt ==
    [][\A r \in Relays :
          RelayPost(r) => LET e == Head1(batch[r]) IN <<e, loaded[r][e]>> \notin posts]_vars

\* The marker is committed before the network is touched: the consumer never
\* knows an event that still looks untouched.
MarkedBeforePost ==
    \A e \in Events :
        (Applied(e) \/ \E m \in wire : m.event = e) =>
            status[e] \notin {"absent", "pending"}

\* Requests, attempts and statuses hidden, publication is the contract of
\* OutboxContract: a relayed or reconciled event gets a receipt only after the
\* consumer kept it, the consumer keeps only what the outbox holds and each
\* event once, and no step takes any of this back.
Produced == {e \in Events : status[e] # "absent"}
Contract == INSTANCE OutboxContract WITH produced <- Produced, confirmed <- receipts
ContractKept == Contract!Spec

\* When faults stop, every event ends delivered or dead-lettered, and stays so.
EventuallySettled ==
    \A e \in Events :
        status[e] = "pending" ~> [](status[e] \in {"delivered", "dead_letter"})

\* What relay_events says of itself: an uncertain write enters reconciliation
\* and never a retry.  It fails: the other transport errors, and a reconcile
\* request that asked too early, send an applied event back to "retry".
NoFalseRetry ==
    [][\A e \in Events :
          (status'[e] = "retry" /\ status[e] # "retry") => ~Applied(e)]_vars

\* What /operations says of ordering: the consumer sees the events of one
\* entity in the order of their versions.  It fails: an event in doubt, or
\* waiting for its retry, does not hold back the next one.
EntityOrder ==
    \A i, j \in DOMAIN applied : i < j => applied[i] < applied[j]
=============================================================================
