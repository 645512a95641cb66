--------------------------- MODULE OutboxContract ---------------------------
(***************************************************************************)
(* What publication promises, without requests, attempts and faults: each  *)
(* event a decision produces may reach the consumer, which keeps it once,  *)
(* and Recordlane may then, and only then, hold a receipt for it.  Nothing *)
(* that was produced, kept or confirmed is forgotten.                      *)
(***************************************************************************)
EXTENDS Sequences

CONSTANT Events

VARIABLES
    produced,    \* events in the outbox
    applied,     \* events in the consumer's table, in order of insertion
    confirmed    \* events with a receipt

vars == <<produced, applied, confirmed>>

Kept == {applied[i] : i \in DOMAIN applied}

Init ==
    /\ produced = {}
    /\ applied = <<>>
    /\ confirmed = {}

Produce(e) ==
    /\ e \notin produced
    /\ produced' = produced \cup {e}
    /\ UNCHANGED <<applied, confirmed>>

Deliver(e) ==
    /\ e \in produced \ Kept
    /\ applied' = Append(applied, e)
    /\ UNCHANGED <<produced, confirmed>>

Confirm(S) ==
    /\ S \subseteq Kept
    /\ confirmed' = confirmed \cup S
    /\ UNCHANGED <<produced, applied>>

Next ==
    \/ \E e \in Events : Produce(e) \/ Deliver(e)
    \/ \E S \in SUBSET Events : Confirm(S)

Spec == Init /\ [][Next]_vars
=============================================================================
