---------------------------- MODULE MCMigration ----------------------------
(* Instances of Migration for TLC. *)
EXTENDS Migration, TLC

CONSTANTS m1, m2, m3

\* Releases before and after workspace isolation, and the last one.
Releases == m1 :> 10 @@ m2 :> 7 @@ m3 :> 3
LegacyHistories ==
    "a" :> <<"valid", "quarantine">> @@ "b" :> <<"quarantine">> @@ "c" :> <<"quarantine", "deleted">>
EmptyOrAlpha ==
    {[alpha |-> FALSE, histories |-> << >>], [alpha |-> TRUE, histories |-> LegacyHistories]}
EditedRevision == {{}, {<<m2, 4>>}}

=============================================================================
