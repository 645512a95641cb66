----------------------------- MODULE AuditChain -----------------------------
(***************************************************************************)
(* The audit trail (MasteringService.audit): each entry carries the hash   *)
(* of the entry before it in its workspace.  Requests and workers append   *)
(* inside the transaction of the operation they record.                    *)
(*                                                                         *)
(* audit() reads the latest entry and only adds its own to the session; it *)
(* is inserted, and gets created_at, when the session flushes: by the      *)
(* query of the transaction's next audit(), or at the commit.              *)
(***************************************************************************)
EXTENDS Naturals, Sequences, FiniteSets

CONSTANTS
    Workspaces,
    Actions,      \* what an entry records (actor, action, object and detail)
    Appenders,    \* requests and workers with a transaction of their own
    MaxEntries    \* bound on the inserts, rolled back ones included

ASSUME AuditBounds == MaxEntries \in Nat

VARIABLES
    entries,   \* committed AuditEntry rows
    tx,        \* the open transaction of each writer
    clock      \* created_at of the newest insert

auditVars == <<entries, tx, clock>>

NoTx == [ws |-> "none", rows |-> {}, pending |-> <<>>]

AuditInit ==
    /\ entries = {}
    /\ tx = [w \in Appenders |-> NoTx]
    /\ clock = 0

\* canonical_hash of the payload, which holds the previous hash: without
\* collisions it stands for the chain that ends in the entry.
Hash(ws, a, previous) == Append(previous, <<ws, a>>)

-----------------------------------------------------------------------------
Begin(w, ws) ==
    /\ tx[w] = NoTx
    /\ tx' = [tx EXCEPT ![w] = [ws |-> ws, rows |-> {}, pending |-> <<>>]]
    /\ UNCHANGED <<entries, clock>>

\* The rows of w's transaction once its pending entry is inserted.
Flushed(w) ==
    tx[w].rows \cup
        {[ws |-> tx[w].ws, previous |-> tx[w].pending[i].previous,
          hash |-> tx[w].pending[i].hash, at |-> clock + 1] : i \in DOMAIN tx[w].pending}

\* SELECT ... WHERE workspace_id: READ COMMITTED, and the transaction's own.
EveryWorkspace(w) == entries \cup Flushed(w)
Visible(w) == {e \in entries \cup Flushed(w) : e.ws = tx[w].ws}

\* ORDER BY created_at DESC LIMIT 1
LatestOf(S) == {e \in S : \A f \in S : f.at <= e.at}
Priors(S) == IF S = {} THEN {<<>>} ELSE {e.hash : e \in LatestOf(S)}

Audit(w, a) ==
    /\ tx[w] # NoTx
    /\ clock + Len(tx[w].pending) < MaxEntries
    /\ \E previous \in Priors(Visible(w)) :
          tx' = [tx EXCEPT ![w] =
                    [ws |-> tx[w].ws, rows |-> Flushed(w),
                     pending |-> <<[previous |-> previous,
                                    hash |-> Hash(tx[w].ws, a, previous)]>>]]
    /\ clock' = clock + Len(tx[w].pending)
    /\ UNCHANGED entries

Commit(w) ==
    /\ tx[w] # NoTx
    /\ entries' = entries \cup Flushed(w)
    /\ clock' = clock + Len(tx[w].pending)
    /\ tx' = [tx EXCEPT ![w] = NoTx]

\* The operation is refused or fails, or its process dies.
Rollback(w) ==
    /\ tx[w] # NoTx
    /\ tx' = [tx EXCEPT ![w] = NoTx]
    /\ UNCHANGED <<entries, clock>>

AuditNext ==
    \E w \in Appenders :
        \/ \E ws \in Workspaces : Begin(w, ws)
        \/ \E a \in Actions : Audit(w, a)
        \/ Commit(w)
        \/ Rollback(w)

AuditSpec == AuditInit /\ [][AuditNext]_auditVars

-----------------------------------------------------------------------------
(* Properties.                                                             *)

Hashes == Seq(Workspaces \X Actions)
Entries == [ws : Workspaces, previous : Hashes, hash : Hashes, at : Nat]

\* The type invariant.
AuditTypeOK ==
    /\ entries \subseteq Entries
    /\ clock \in Nat
    /\ tx \in [Appenders -> [ws : Workspaces \cup {"none"}, rows : SUBSET Entries,
                             pending : Seq([previous : Hashes, hash : Hashes])]]

\* Every committed entry rests on an older committed entry of its own
\* workspace, or starts the trail, whatever was rolled back or interleaved:
\* deleting or changing an entry others rest on shows (audit).
Anchored ==
    \A e \in entries :
        \/ e.previous = <<>>
        \/ \E f \in entries : f.ws = e.ws /\ f.hash = e.previous /\ f.at < e.at

Before(e) == {f \in entries : f.ws = e.ws /\ f.at < e.at}

\* The trail of a workspace is one chain in the order of created_at: each entry
\* carries the hash of the entry right before it (the continuity an operator
\* verifies after a restore).  It holds when writers take turns and fails when
\* two transactions read the same latest entry: the chain forks.
Continuous ==
    \A e \in entries :
        IF Before(e) = {}
        THEN e.previous = <<>>
        ELSE \E f \in Before(e) :
                f.hash = e.previous /\ \A g \in Before(e) : g.at <= f.at
=============================================================================
