----------------------------- MODULE Mastering -----------------------------
(***************************************************************************)
(* Identity resolution and governed mastering in one domain of one         *)
(* workspace (mastering/service.py): source objects are resolved to        *)
(* entities, every change of an entity drafts a master version with its    *)
(* approval task, and reviewers link, keep separate, merge, split and      *)
(* approve.  Each request is one database transaction and one step here;   *)
(* a request that raises is rolled back and is no step.                    *)
(*                                                                         *)
(* Of the review task rows only the open ones are kept, in one set for     *)
(* each kind: the code never reads a closed one again.                     *)
(***************************************************************************)
EXTENDS Naturals, Sequences, FiniteSets

CONSTANTS
    Objects,           \* source objects
    Entities,          \* entity identifiers, taken in ascending order
    Values,            \* normalized contents of a source record
    Principals,        \* subjects that propose and decide
    None,              \* SQL NULL
    Decision,          \* the decision of compare() on two contents; "no_link"
                       \* also when they share no block key
    Contradicts,       \* the pairs of contents with a hard identifier conflict
    MaxDrafts,         \* bound on MasterVersion rows
    MaxProposals,      \* bound on merge and split proposals
    MaxRelationships   \* bound on relationship rows

ASSUME EntitiesAssumption == Entities \subseteq Nat
ASSUME NoneAssumption == None \notin Entities \cup Values
ASSUME DecisionAssumption ==
    /\ Decision \in [Values \X Values -> {"auto_link", "review", "no_link"}]
    /\ Contradicts \subseteq Values \X Values
    /\ \A p \in Contradicts : Decision[p] = "no_link" /\ <<p[2], p[1]>> \in Contradicts
ASSUME MasteringBounds ==
    MaxDrafts \in Nat /\ MaxProposals \in Nat /\ MaxRelationships \in Nat

VARIABLES
    entity_id,       \* SourceObject.entity_id
    current,         \* content of SourceObject.current_record_id, None without
    open_rows,       \* MembershipHistory rows with valid_to NULL, by valid_from
    reason,          \* reason of the newest MembershipHistory row
    status,          \* Entity.status; "absent" before INSERT
    version,         \* Entity.version
    latest,          \* highest MasterVersion.version of an entity
    approved,        \* MasterVersion rows with status "approved", not "draft"
    approvals,       \* open master_approval tasks
    matches,         \* open duplicate_match tasks
    proposals,       \* open merge_approval and split_approval tasks
    cannot_link,     \* SourceObjectCannotLink rows
    relationships,   \* Relationship rows
    repairs,         \* entities with a downstream_repair task
    announced        \* entity_version of the newest outbox event of an entity

membership == <<entity_id, current, open_rows, reason>>
entities == <<status, version, latest, approvals>>
others == <<matches, proposals, repairs>>
vars == <<membership, entities, approved, others, cannot_link, relationships,
          announced>>

Members(e) == {o \in Objects : entity_id[o] = e}
Exists(e) == status[e] # "absent"
Live(e) == status[e] \notin {"absent", "merged"}

\* INSERT of an entity takes the next identifier.
Fresh(e) == ~Exists(e) /\ \A f \in Entities : f < e => Exists(f)

-----------------------------------------------------------------------------
(* Shared pieces of the service.                                           *)

\* _current_records of entity e, when objects belong to entities as in `of` and
\* have the current contents `now`; _master_values is a function of it.
Contributions(e, of, now) ==
    {<<o, now[o]>> : o \in {x \in Objects : of[x] = e /\ now[x] # None}}

\* The open master_approval tasks of e.
OpenOf(e) == {t \in approvals : t.entity = e}

\* _draft_master closes one open approval of each entity it drafts ...
NothingClosed(S) == {}
Closed(S) == {CHOOSE t \in OpenOf(e) : TRUE : e \in {f \in S : OpenOf(f) # {}}}

\* ... and adds version latest + 1 with an approval bound to entity version v.
Approval(e, v, values) ==
    [entity |-> e, master_version |-> latest[e] + 1, bound |-> v,
     values |-> values]

\* entity.version += 1
LostBump(v) == v
Bump(v) == v + 1

\* entity.version += 1 and _draft_master, for every entity of S, with the
\* memberships and contents the transaction leaves behind.
Redraft(S, of, now) ==
    /\ version' = [e \in Entities |-> IF e \in S THEN Bump(version[e])
                                                 ELSE version[e]]
    /\ latest' = [e \in Entities |-> IF e \in S THEN latest[e] + 1
                                                ELSE latest[e]]
    /\ approvals' = (approvals \ Closed(S)) \cup
          {Approval(e, version'[e], Contributions(e, of, now)) : e \in S}

\* Room for n more master versions.
Drafts == UNION {{e} \X (1..latest[e]) : e \in Entities}
RoomFor(n) == Cardinality(Drafts) + n <= MaxDrafts

\* _set_membership closes the newest open row and opens one for e.
AlsoOpen(rows, e) == Append(rows, e)
Reopen(rows, e) ==
    IF rows = <<>> THEN <<e>> ELSE [rows EXCEPT ![Len(rows)] = e]

\* _set_membership of every object of S to e; an object already there is left
\* alone.
SetMembership(S, e, why) ==
    LET moved == {o \in S : entity_id[o] # e}
    IN  /\ entity_id' = [o \in Objects |-> IF o \in moved THEN e ELSE entity_id[o]]
        /\ open_rows' = [o \in Objects |-> IF o \in moved
                                           THEN Reopen(open_rows[o], e)
                                           ELSE open_rows[o]]
        /\ reason' = [o \in Objects |-> IF o \in moved THEN why ELSE reason[o]]

-----------------------------------------------------------------------------
(* Initial state.                                                          *)

Init ==
    /\ entity_id = [o \in Objects |-> None]
    /\ current = [o \in Objects |-> None]
    /\ open_rows = [o \in Objects |-> <<>>]
    /\ reason = [o \in Objects |-> "none"]
    /\ status = [e \in Entities |-> "absent"]
    /\ version = [e \in Entities |-> 0]
    /\ latest = [e \in Entities |-> 0]
    /\ approved = {}
    /\ approvals = {}
    /\ matches = {}
    /\ proposals = {}
    /\ cannot_link = {}
    /\ relationships = {}
    /\ repairs = {}
    /\ announced = [e \in Entities |-> 0]

-----------------------------------------------------------------------------
(* Ingestion of one record that is valid and current.                      *)

\* A new observation of an object that has an entity.
IngestUpdate(o, v) ==
    LET e == entity_id[o]
        now == [current EXCEPT ![o] = v]
    IN  /\ e # None
        /\ RoomFor(1)
        /\ current' = now
        /\ Redraft({e}, entity_id, now)
        /\ UNCHANGED <<entity_id, open_rows, reason, status, approved, others,
                       cannot_link, relationships, announced>>

\* A tombstone: the contribution is withdrawn, the membership stays.
RetiresSilently(o) == {}
RetireAffects(o) == {entity_id[o]}
IngestRetire(o) ==
    LET now == [current EXCEPT ![o] = None]
    IN  /\ entity_id[o] # None
        /\ RoomFor(1)
        /\ current' = now
        /\ Redraft(RetireAffects(o), entity_id, now)
        /\ UNCHANGED <<entity_id, open_rows, reason, status, approved, others,
                       cannot_link, relationships, announced>>

\* compare() of two contents: its decision, and its hard identifier conflicts.
compare(v, w) == Decision[<<v, w>>]
Contradicting(v, w) == <<v, w>> \in Contradicts

\* _is_cannot_link: a reviewer has kept the two objects apart.
IsCannotLink(o, x) == {o, x} \in cannot_link

\* A content contradicts the current record of some member of e.
ClusterConflict(e, v) ==
    \E m \in Members(e) : current[m] # None /\ Contradicting(v, current[m])

\* The candidates of _resolve that survive the constraints: linkable, not
\* separated by a reviewer, and without a contradiction in the whole cluster.
Candidates(o, v) ==
    {x \in Objects \ {o} :
        /\ current[x] # None /\ entity_id[x] # None
        /\ compare(v, current[x]) # "no_link"
        /\ ~IsCannotLink(o, x)
        /\ ~ClusterConflict(entity_id[x], v)}

\* The candidates with the best score; an auto_link scores above any review.
AutoLinks(o, v) == {x \in Candidates(o, v) : compare(v, current[x]) = "auto_link"}
Reviews(o, v) == IF AutoLinks(o, v) = {} THEN Candidates(o, v) ELSE {}

\* The first observation of an object joins the entity of its best candidate.
IngestLinked(o, v) ==
    \E x \in AutoLinks(o, v) :
        LET e == entity_id[x]
            now == [current EXCEPT ![o] = v]
        IN  /\ entity_id[o] = None
            /\ RoomFor(1)
            /\ current' = now
            /\ SetMembership({o}, e, "initial_resolution")
            /\ Redraft({e}, entity_id', now)
            /\ UNCHANGED <<status, approved, others, cannot_link,
                           relationships, announced>>

\* A new entity for o: version 1, one draft.
NewEntity(o, v, e) ==
    LET now == [current EXCEPT ![o] = v]
    IN  /\ entity_id[o] = None
        /\ Fresh(e)
        /\ RoomFor(1)
        /\ current' = now
        /\ SetMembership({o}, e, "initial_resolution")
        /\ status' = [status EXCEPT ![e] = "candidate"]
        /\ Redraft({e}, entity_id', now)
        /\ UNCHANGED <<approved, proposals, repairs, cannot_link, relationships,
                       announced>>

\* The first observation of an object without a candidate.
IngestCreated(o, v) ==
    /\ Candidates(o, v) = {}
    /\ \E e \in Entities : NewEntity(o, v, e)
    /\ UNCHANGED matches

\* The first observation of an object whose best candidate needs a reviewer.
IngestReview(o, v) ==
    \E x \in Reviews(o, v), e \in Entities :
        /\ NewEntity(o, v, e)
        /\ matches' = matches \cup
              {[entity |-> e, left |-> o, right |-> x, left_values |-> v,
                right_values |-> current[x], target |-> entity_id[x],
                bound_target |-> version[entity_id[x]], bound |-> version'[e]]}

-----------------------------------------------------------------------------
(* decide_task.                                                            *)

\* The version check of decide_task; a task that fails it is closed as stale.
Bound(t) == t.bound = version[t.entity]

\* master_approval: an approval of the exact version publishes it.
DecideMaster(t, decision) ==
    LET e == t.entity
        row == <<e, t.master_version>>
        publish == Bound(t) /\ decision = "approve"
    IN  /\ publish => row \notin approved
        /\ approvals' = approvals \ {t}
        /\ approved' = IF publish THEN approved \cup {row} ELSE approved
        /\ status' = [status EXCEPT ![e] = IF publish THEN "approved" ELSE @]
        /\ announced' = [announced EXCEPT ![e] =
                            IF publish THEN t.master_version ELSE @]
        /\ UNCHANGED <<membership, version, latest, others, cannot_link,
                       relationships>>

\* duplicate_match of an entity that has changed since.
MatchStale(m) ==
    /\ ~Bound(m)
    /\ matches' = matches \ {m}
    /\ UNCHANGED <<membership, entities, approved, proposals, repairs,
                   cannot_link, relationships, announced>>

\* The checks of _link_match.
LinkableUnbound(m) ==
    /\ ~IsCannotLink(m.left, m.right)
    /\ ~Contradicting(m.left_values, m.right_values)
Linkable(m) ==
    /\ version[m.target] = m.bound_target
    /\ ~IsCannotLink(m.left, m.right)
    /\ ~Contradicting(m.left_values, m.right_values)

\* duplicate_match / link: _link_match moves the members to the target.
MatchLink(m) ==
    /\ Bound(m)
    /\ Linkable(m)
    /\ RoomFor(1)
    /\ SetMembership(Members(m.entity), m.target, "approved_match")
    /\ status' = [status EXCEPT ![m.entity] = "merged"]
    /\ Redraft({m.target}, entity_id', current)
    /\ matches' = matches \ {m}
    /\ UNCHANGED <<current, approved, proposals, repairs, cannot_link,
                   relationships, announced>>

\* duplicate_match / keep_separate or reject: a lasting constraint.
MatchSeparate(m) ==
    /\ Bound(m)
    /\ cannot_link' = cannot_link \cup {{m.left, m.right}}
    /\ matches' = matches \ {m}
    /\ UNCHANGED <<membership, entities, approved, proposals, repairs,
                   relationships, announced>>

-----------------------------------------------------------------------------
(* Merges and splits.                                                      *)

\* propose_merge of the list <<p, q>>, which may name an entity twice.
ProposeMerge(by, p, q) ==
    /\ Cardinality(proposals) < MaxProposals
    /\ Live(p) /\ Live(q)
    /\ proposals' = proposals \cup
          {[kind |-> "merge", entity |-> p, merged |-> q, objects |-> {},
            bound |-> version[p], bound_merged |-> version[q],
            proposed_by |-> by]}
    /\ UNCHANGED <<membership, entities, approved, matches, repairs,
                   cannot_link, relationships, announced>>

\* propose_split of some current contributions of e.
ProposeSplit(by, e, S) ==
    /\ Cardinality(proposals) < MaxProposals
    /\ Live(e)
    /\ S # {} /\ S \subseteq Members(e) /\ \A o \in S : current[o] # None
    /\ proposals' = proposals \cup
          {[kind |-> "split", entity |-> e, merged |-> e, objects |-> S,
            bound |-> version[e], bound_merged |-> version[e],
            proposed_by |-> by]}
    /\ UNCHANGED <<membership, entities, approved, matches, repairs,
                   cannot_link, relationships, announced>>

\* A proposal decided after its entity has changed.
ProposalStale(t) ==
    /\ ~Bound(t)
    /\ proposals' = proposals \ {t}
    /\ UNCHANGED <<membership, entities, approved, matches, repairs,
                   cannot_link, relationships, announced>>

\* A proposal on the version it was made for, decided by someone else: merges
\* and splits are sensitive.
Decidable(t, by) == Bound(t) /\ t.proposed_by # by

ProposalReject(t, by) ==
    /\ Decidable(t, by)
    /\ proposals' = proposals \ {t}
    /\ UNCHANGED <<membership, entities, approved, matches, repairs,
                   cannot_link, relationships, announced>>

\* The relationships of q follow it into p.
Repoint(q, p) ==
    {<<IF r[1] = q THEN p ELSE r[1], IF r[2] = q THEN p ELSE r[2]>> :
        r \in relationships}

\* merge_approval / approve: _apply_merge.  identity.merged carries the number
\* of the new draft.
ApplyMerge(t, by) ==
    LET p == t.entity
        q == t.merged
    IN  /\ t.kind = "merge"
        /\ Decidable(t, by)
        /\ status[q] # "merged"
        /\ version[q] = t.bound_merged
        /\ RoomFor(1)
        /\ SetMembership(Members(q), p, "approved_merge")
        /\ relationships' = Repoint(q, p)
        /\ status' = [status EXCEPT ![q] = "merged"]
        /\ Redraft({p}, entity_id', current)
        /\ announced' = [announced EXCEPT ![p] = latest'[p]]
        /\ proposals' = proposals \ {t}
        /\ UNCHANGED <<current, approved, matches, repairs, cannot_link>>

\* The entity_version of identity.split is the entity's version, where every
\* other event carries a draft number.
SplitEventOfNewEntity(original, split) == version'[split]
SplitEvent(original, split) == version'[original]

\* split_approval / approve: _apply_split.
ApplySplit(t, by) ==
    \E split \in Entities :
        /\ t.kind = "split"
        /\ Decidable(t, by)
        /\ Fresh(split)
        /\ t.objects \subseteq Members(t.entity)
        /\ RoomFor(2)
        /\ SetMembership(t.objects, split, "approved_split")
        /\ status' = [status EXCEPT ![split] = "candidate"]
        /\ Redraft({t.entity, split}, entity_id', current)
        /\ announced' = [announced EXCEPT ![t.entity] = SplitEvent(t.entity, split)]
        /\ repairs' = repairs \cup {t.entity}
        /\ proposals' = proposals \ {t}
        /\ UNCHANGED <<current, approved, matches, cannot_link, relationships>>

-----------------------------------------------------------------------------
(* Other writers of this state.                                            *)

\* The remaster_domain job redrafts every entity that is not merged.
RemasterDomain ==
    LET S == {e \in Entities : Live(e)}
    IN  /\ S # {}
        /\ RoomFor(Cardinality(S))
        /\ Redraft(S, entity_id, current)
        /\ UNCHANGED <<membership, status, approved, others, cannot_link,
                       relationships, announced>>

\* create_relationship between two different entities.
CreateRelationship(e, f) ==
    /\ Exists(e) /\ Exists(f) /\ e # f
    /\ Cardinality(relationships) < MaxRelationships
    /\ relationships' = relationships \cup {<<e, f>>}
    /\ UNCHANGED <<membership, entities, approved, others, cannot_link,
                   announced>>

-----------------------------------------------------------------------------
Ingest ==
    \E o \in Objects :
        \/ IngestRetire(o)
        \/ \E v \in Values :
              IngestUpdate(o, v) \/ IngestLinked(o, v)
                \/ IngestCreated(o, v) \/ IngestReview(o, v)

Decide ==
    \/ \E t \in approvals, d \in {"approve", "reject"} : DecideMaster(t, d)
    \/ \E m \in matches : MatchStale(m) \/ MatchLink(m) \/ MatchSeparate(m)
    \/ \E t \in proposals : ProposalStale(t)
    \/ \E t \in proposals, by \in Principals :
          ProposalReject(t, by) \/ ApplyMerge(t, by) \/ ApplySplit(t, by)

Propose ==
    \/ \E by \in Principals, p, q \in Entities : ProposeMerge(by, p, q)
    \/ \E by \in Principals, e \in Entities, S \in SUBSET Objects :
          ProposeSplit(by, e, S)
    \/ \E e, f \in Entities : CreateRelationship(e, f)

Next == Ingest \/ Decide \/ Propose \/ RemasterDomain

Spec == Init /\ [][Next]_vars

-----------------------------------------------------------------------------
(* Properties.                                                             *)

Reasons == {"none", "initial_resolution", "approved_match", "approved_merge",
            "approved_split"}
ApprovalTasks == [entity : Entities, master_version : Nat \ {0},
                  bound : Nat \ {0}, values : SUBSET (Objects \X Values)]
MatchTasks == [entity : Entities, left : Objects, right : Objects,
               left_values : Values, right_values : Values, target : Entities,
               bound_target : Nat, bound : Nat]
ProposalTasks == [kind : {"merge", "split"}, entity : Entities,
                  merged : Entities, objects : SUBSET Objects, bound : Nat,
                  bound_merged : Nat, proposed_by : Principals]

\* The type invariant: every column keeps its declared type (models/tables.py).
TypeOK ==
    /\ entity_id \in [Objects -> Entities \cup {None}]
    /\ current \in [Objects -> Values \cup {None}]
    /\ open_rows \in [Objects -> Seq(Entities)]
    /\ reason \in [Objects -> Reasons]
    /\ status \in [Entities -> {"absent", "candidate", "approved", "merged"}]
    /\ version \in [Entities -> Nat]
    /\ latest \in [Entities -> Nat]
    /\ approved \subseteq Entities \X Nat
    /\ approvals \subseteq ApprovalTasks
    /\ matches \subseteq MatchTasks
    /\ proposals \subseteq ProposalTasks
    /\ cannot_link \subseteq SUBSET Objects
    /\ relationships \subseteq Entities \X Entities
    /\ repairs \subseteq Entities
    /\ announced \in [Entities -> Nat]

\* Entity.version counts the drafts: every code path that bumps the version
\* drafts exactly once, so the two counters that outbox events mix stay equal.
VersionTracksDrafts ==
    \A e \in Entities : version[e] = latest[e]

\* A reviewer is never offered an outdated draft, nor two drafts of an entity:
\* an open approval belongs to the newest draft, is bound to the entity's
\* version, and is the only one (_draft_master).
OpenApprovalIsNewest ==
    \A t \in approvals :
        /\ t.master_version = latest[t.entity]
        /\ Bound(t)
        /\ OpenOf(t.entity) = {t}

\* The membership history agrees with the membership: the open row of an object
\* is the one of its entity, and there is no second one (_set_membership).
LedgerMatchesMembership ==
    \A o \in Objects :
        open_rows[o] = IF entity_id[o] = None THEN <<>> ELSE <<entity_id[o]>>

\* The step approves the draft of task t.
Publishes(t) ==
    LET row == <<t.entity, t.master_version>>
    IN  row \in approved' /\ row \notin approved

ShowsCurrent(t) == t.values = Contributions(t.entity, entity_id, current)

\* Approving the draft of an entity that is not merged publishes exactly the
\* current contributions of its members, however ingestion, merges, splits and
\* remastering interleaved with the review (decide_task's version check).
ApprovalIsCurrent ==
    [][\A t \in approvals :
          (Publishes(t) /\ status[t.entity] # "merged") => ShowsCurrent(t)]_vars

\* No automatic link and no approved match brings an object into a cluster with
\* a record that contradicts its own, although _link_match compares only the
\* two records of the task: the bound versions stand for the rest.
LinkKeepsCluster ==
    [][\A o \in Objects :
          (/\ entity_id'[o] # entity_id[o]
           /\ reason'[o] \in {"initial_resolution", "approved_match"})
             => \A m \in Objects \ {o} :
                   (entity_id'[m] = entity_id'[o] /\ current'[m] # None
                      /\ current'[o] # None)
                      => <<current'[o], current'[m]>> \notin Contradicts]_vars

\* The entity_version an entity's outbox events carry never goes back, so a
\* consumer can order them (decide_task, _apply_merge, _apply_split).
EventVersionsMonotone ==
    [][\A e \in Entities : announced'[e] >= announced[e]]_vars

\* What the specification asks of every approval: the version that becomes
\* approved shows the current contributions of its entity.  It fails for an
\* entity that was merged away, whose approval task stays open and bound.
ApprovalNeverStale ==
    [][\A t \in approvals : Publishes(t) => ShowsCurrent(t)]_vars

\* What version protection of a cluster should give: no object belongs to an
\* entity that was merged away.  It fails: neither _link_match nor _apply_merge
\* looks at the status of the entity it moves members to.
MembersLive ==
    \A o \in Objects : entity_id[o] # None => status[entity_id[o]] # "merged"

\* What create_relationship enforces: no entity is related to itself.  It fails
\* after a merge of two related entities (_apply_merge).
NoSelfRelationship ==
    \A r \in relationships : r[1] # r[2]
=============================================================================
