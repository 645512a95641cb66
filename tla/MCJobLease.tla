----------------------------- MODULE MCJobLease -----------------------------
(* Two processes that share one WORKER_ID, two jobs of which the second    *)
(* has a kind no handler knows.                                            *)
EXTENDS JobLease

CONSTANTS w1, w2, host

MCJobs == {1, 2}
MCWorkers == {w1, w2}
MCIds == {host}
MCWorkerId == [w \in MCWorkers |-> host]
MCUnknownKind == {2}
=============================================================================
