-------------------------- MODULE MasteringProofs --------------------------
(***************************************************************************)
(* Proofs about governed mastering, for any number of objects, entities    *)
(* and reviewers.  Every change of an entity goes through Redraft, so the  *)
(* argument is made once: RedraftKeeps shows that drafting leaves exactly  *)
(* one open approval, of the newest draft and of the contributions the     *)
(* transaction leaves behind.                                              *)
(***************************************************************************)
EXTENDS Mastering, TLAPS

\* The open approval of an entity that is not merged shows its current
\* contributions.
DraftsCurrent ==
    \A t \in approvals : status[t.entity] # "merged" => ShowsCurrent(t)

\* No event carries a version that has not been drafted.
AnnouncedDrafted == \A e \in Entities : announced[e] <= latest[e]

Inductive ==
    /\ TypeOK
    /\ VersionTracksDrafts
    /\ OpenApprovalIsNewest
    /\ LedgerMatchesMembership
    /\ DraftsCurrent
    /\ AnnouncedDrafted

\* The columns Redraft does not write, as TypeOK has them.
OtherColumns ==
    /\ entity_id \in [Objects -> Entities \cup {None}]
    /\ current \in [Objects -> Values \cup {None}]
    /\ open_rows \in [Objects -> Seq(Entities)]
    /\ reason \in [Objects -> Reasons]
    /\ status \in [Entities -> {"absent", "candidate", "approved", "merged"}]
    /\ approved \subseteq Entities \X Nat
    /\ matches \subseteq MatchTasks
    /\ proposals \subseteq ProposalTasks
    /\ cannot_link \subseteq SUBSET Objects
    /\ relationships \subseteq Entities \X Entities
    /\ repairs \subseteq Entities
    /\ announced \in [Entities -> Nat]

-----------------------------------------------------------------------------
\* The empty workspace satisfies the invariant.
LEMMA InitInductive == Init => Inductive
  <1> SUFFICES ASSUME Init PROVE Inductive
    OBVIOUS
  <1>1. TypeOK
    BY DEF Init, TypeOK, Reasons
  <1>2. VersionTracksDrafts /\ OpenApprovalIsNewest /\ DraftsCurrent
        /\ AnnouncedDrafted
    BY DEF Init, VersionTracksDrafts, OpenApprovalIsNewest, DraftsCurrent,
           AnnouncedDrafted
  <1>3. LedgerMatchesMembership
    BY DEF Init, LedgerMatchesMembership
  <1>q. QED BY <1>1, <1>2, <1>3 DEF Inductive

\* What an entity contributes is a set of its objects with their contents.
LEMMA ContributionsType ==
  ASSUME NEW e, NEW of, NEW now \in [Objects -> Values \cup {None}]
  PROVE  Contributions(e, of, now) \in SUBSET (Objects \X Values)
  BY DEF Contributions

\* _set_membership closes the only open row and opens one.
LEMMA ReopenOne ==
  ASSUME NEW x, NEW e
  PROVE  Reopen(<<x>>, e) = <<e>> /\ Reopen(<<>>, e) = <<e>>
  BY DEF Reopen

\* With one open approval per entity, _draft_master closes every open approval
\* of the entities it drafts.
LEMMA ClosedIsAll ==
  ASSUME OpenApprovalIsNewest, NEW S
  PROVE  Closed(S) = {t \in approvals : t.entity \in S}
  <1>1. \A t \in approvals : OpenOf(t.entity) = {t}
    BY DEF OpenApprovalIsNewest
  <1>2. \A t \in approvals : (CHOOSE u \in OpenOf(t.entity) : TRUE) = t
    BY <1>1
  <1>3. \A e : OpenOf(e) # {} =>
          \E t \in approvals : t.entity = e /\ (CHOOSE u \in OpenOf(e) : TRUE) = t
    BY <1>2 DEF OpenOf
  <1>4. \A t \in approvals : OpenOf(t.entity) # {}
    BY DEF OpenOf
  <1>5. Closed(S) \subseteq {t \in approvals : t.entity \in S}
    <2> SUFFICES ASSUME NEW t \in Closed(S)
                 PROVE  t \in approvals /\ t.entity \in S
      OBVIOUS
    <2>1. PICK e \in {f \in S : OpenOf(f) # {}} :
            t = (CHOOSE u \in OpenOf(e) : TRUE)
      BY Zenon DEF Closed
    <2>2. PICK u \in approvals : u.entity = e /\ t = u
      BY <1>3, <2>1
    <2>q. QED BY <2>1, <2>2
  <1>6. ASSUME NEW t \in approvals, t.entity \in S PROVE t \in Closed(S)
    <2>1. t.entity \in {f \in S : OpenOf(f) # {}}
      BY <1>4, <1>6
    <2>2. (CHOOSE u \in OpenOf(t.entity) : TRUE) \in Closed(S)
      BY <2>1, Zenon DEF Closed
    <2>q. QED BY <1>2, <2>2
  <1>q. QED BY <1>5, <1>6

\* Redraft of S from a state of the invariant, when no other entity changes its
\* contributions.
LEMMA RedraftKeeps ==
  ASSUME Inductive, OtherColumns',
         NEW S \in SUBSET Entities, Redraft(S, entity_id', current'),
         \A e \in Entities \ S : status'[e] # "merged" =>
            /\ status[e] # "merged"
            /\ Contributions(e, entity_id', current')
                 = Contributions(e, entity_id, current)
  PROVE  TypeOK' /\ VersionTracksDrafts' /\ OpenApprovalIsNewest'
         /\ DraftsCurrent'
  <1> DEFINE added(e) == Approval(e, version'[e],
                                  Contributions(e, entity_id', current'))
  <1>1. /\ version \in [Entities -> Nat] /\ latest \in [Entities -> Nat]
        /\ approvals \subseteq ApprovalTasks
    BY DEF Inductive, TypeOK
  <1>2. /\ version' = [e \in Entities |-> IF e \in S THEN version[e] + 1
                                                     ELSE version[e]]
        /\ latest' = [e \in Entities |-> IF e \in S THEN latest[e] + 1
                                                    ELSE latest[e]]
    BY DEF Redraft, Bump
  <1>3. approvals' = {t \in approvals : t.entity \notin S}
                       \cup {added(e) : e \in S}
    BY ClosedIsAll DEF Redraft, Inductive
  <1>4. \A e \in Entities : added(e).entity = e
          /\ added(e).master_version = latest[e] + 1
          /\ added(e).bound = version'[e]
          /\ added(e).values = Contributions(e, entity_id', current')
    BY DEF Approval
  <1>5. \A e \in S : added(e) \in ApprovalTasks
    <2>1. \A e \in S : Contributions(e, entity_id', current')
                         \in SUBSET (Objects \X Values)
      BY ContributionsType DEF OtherColumns
    <2>2. \A e \in S : latest[e] + 1 \in Nat \ {0} /\ version'[e] \in Nat \ {0}
      BY <1>1, <1>2
    <2>q. QED BY <2>1, <2>2 DEF Approval, ApprovalTasks
  <1>6. TypeOK'
    <2>1. version' \in [Entities -> Nat] /\ latest' \in [Entities -> Nat]
      BY <1>1, <1>2
    <2>2. approvals' \subseteq ApprovalTasks
      BY <1>1, <1>3, <1>5
    <2>q. QED BY <2>1, <2>2 DEF TypeOK, OtherColumns
  <1>7. VersionTracksDrafts'
    BY <1>1, <1>2 DEF Inductive, VersionTracksDrafts
  <1>8. ASSUME NEW t \in approvals'
        PROVE  /\ t.master_version = latest'[t.entity]
               /\ t.bound = version'[t.entity]
               /\ \A u \in approvals' : u.entity = t.entity => u = t
               /\ status'[t.entity] # "merged" =>
                     t.values = Contributions(t.entity, entity_id', current')
    <2>1. CASE t \in approvals /\ t.entity \notin S
      <3>1. t.entity \in Entities
        BY <1>1, <2>1 DEF ApprovalTasks
      <3>2. t.master_version = latest[t.entity] /\ t.bound = version[t.entity]
            /\ OpenOf(t.entity) = {t}
        BY <2>1 DEF Inductive, OpenApprovalIsNewest, Bound
      <3>3. \A u \in approvals' : u.entity = t.entity => u = t
        BY <1>3, <1>4, <2>1, <3>2 DEF OpenOf
      <3>4. status'[t.entity] # "merged" =>
              t.values = Contributions(t.entity, entity_id', current')
        BY <2>1, <3>1 DEF Inductive, DraftsCurrent, ShowsCurrent
      <3>q. QED BY <1>2, <2>1, <3>1, <3>2, <3>3, <3>4
    <2>2. CASE \E e \in S : t = added(e)
      <3>1. PICK e \in S : t = added(e)
        BY <2>2
      <3>2. t.entity = e /\ t.master_version = latest[e] + 1
            /\ t.bound = version'[e]
            /\ t.values = Contributions(e, entity_id', current')
        BY <1>4, <3>1
      <3>3. \A u \in approvals' : u.entity = t.entity => u = t
        BY <1>3, <1>4, <3>1, <3>2
      <3>q. QED BY <1>1, <1>2, <3>2, <3>3
    <2>q. QED BY <1>3, <2>1, <2>2
  <1>9. OpenApprovalIsNewest'
    BY <1>8 DEF OpenApprovalIsNewest, Bound, OpenOf
  <1>10. DraftsCurrent'
    BY <1>8 DEF DraftsCurrent, ShowsCurrent
  <1>q. QED BY <1>6, <1>7, <1>9, <1>10

\* Entities whose objects neither move nor change contribute the same.
LEMMA SameContributions ==
  ASSUME NEW e \in Entities, TypeOK, OtherColumns',
         \A o \in Objects : (entity_id[o] = e \/ entity_id'[o] = e) =>
            entity_id'[o] = entity_id[o] /\ current'[o] = current[o]
  PROVE  Contributions(e, entity_id', current')
           = Contributions(e, entity_id, current)
  <1>1. {x \in Objects : entity_id'[x] = e /\ current'[x] # None}
          = {x \in Objects : entity_id[x] = e /\ current[x] # None}
    OBVIOUS
  <1>2. \A o \in {x \in Objects : entity_id[x] = e /\ current[x] # None} :
          current'[o] = current[o]
    OBVIOUS
  <1>q. QED BY <1>1, <1>2 DEF Contributions

\* _set_membership keeps the history in step with the membership.
LEMMA SetMembershipKeeps ==
  ASSUME Inductive, NEW S \in SUBSET Objects, NEW e \in Entities,
         NEW why \in Reasons, SetMembership(S, e, why)
  PROVE  /\ entity_id' \in [Objects -> Entities \cup {None}]
         /\ open_rows' \in [Objects -> Seq(Entities)]
         /\ reason' \in [Objects -> Reasons]
         /\ LedgerMatchesMembership'
         /\ \A o \in Objects : o \in S => entity_id'[o] = e
         /\ \A o \in Objects : o \notin S => entity_id'[o] = entity_id[o]
  <1>1. /\ entity_id \in [Objects -> Entities \cup {None}]
        /\ open_rows \in [Objects -> Seq(Entities)]
        /\ reason \in [Objects -> Reasons]
    BY DEF Inductive, TypeOK
  <1>2. \A o \in Objects : entity_id'[o] = IF o \in S THEN e ELSE entity_id[o]
    BY DEF SetMembership
  <1>3. \A o \in Objects :
          open_rows'[o] = IF o \in S /\ entity_id[o] # e
                          THEN Reopen(open_rows[o], e) ELSE open_rows[o]
    BY DEF SetMembership
  <1>4. \A o \in Objects : Reopen(open_rows[o], e) = <<e>>
    BY ReopenOne DEF Inductive, LedgerMatchesMembership
  <1>5. e # None
    BY NoneAssumption
  <1>6. \A o \in Objects :
          open_rows'[o] = IF entity_id'[o] = None THEN <<>>
                                                  ELSE <<entity_id'[o]>>
    BY <1>2, <1>3, <1>4, <1>5 DEF Inductive, LedgerMatchesMembership
  <1>7. entity_id' \in [Objects -> Entities \cup {None}]
    BY <1>1 DEF SetMembership
  <1>8. <<e>> \in Seq(Entities)
    OBVIOUS
  <1>9. open_rows' \in [Objects -> Seq(Entities)]
    BY <1>1, <1>4, <1>8 DEF SetMembership
  <1>10. reason' \in [Objects -> Reasons]
    BY <1>1 DEF SetMembership
  <1>q. QED BY <1>2, <1>6, <1>7, <1>9, <1>10 DEF LedgerMatchesMembership

\* Redraft moves the highest draft number up by one, or not at all.
LEMMA RedraftLatest ==
  ASSUME TypeOK, NEW S, NEW of, NEW now, Redraft(S, of, now)
  PROVE  \A e \in Entities :
           /\ latest[e] \in Nat
           /\ latest'[e] = IF e \in S THEN latest[e] + 1 ELSE latest[e]
           /\ version'[e] = IF e \in S THEN version[e] + 1 ELSE version[e]
  BY DEF Redraft, TypeOK, Bump

\* A step that redrafts without an event keeps AnnouncedDrafted.
LEMMA AnnouncedKept ==
  ASSUME Inductive, announced' = announced,
         NEW S, NEW of, NEW now, Redraft(S, of, now)
  PROVE  AnnouncedDrafted'
  <1>1. \A e \in Entities :
          /\ latest[e] \in Nat
          /\ latest'[e] = IF e \in S THEN latest[e] + 1 ELSE latest[e]
    BY RedraftLatest DEF Inductive
  <1>2. \A e \in Entities : announced[e] \in Nat /\ announced[e] <= latest[e]
    BY DEF Inductive, TypeOK, AnnouncedDrafted
  <1>q. QED BY <1>1, <1>2 DEF AnnouncedDrafted

\* The columns that Redraft leaves alone have their types before the step.
LEMMA OtherColumnsNow ==
  ASSUME TypeOK PROVE OtherColumns
  BY DEF TypeOK, OtherColumns

\* An update or a tombstone of an object redrafts its entity.
LEMMA ContentKeeps ==
  ASSUME Inductive, NEW o \in Objects, NEW c \in Values \cup {None},
         entity_id[o] # None,
         current' = [current EXCEPT ![o] = c],
         Redraft({entity_id[o]}, entity_id, [current EXCEPT ![o] = c]),
         UNCHANGED <<entity_id, open_rows, reason, status, approved, others,
                     cannot_link, relationships, announced>>
  PROVE  Inductive'
  <1>1. OtherColumns'
    BY OtherColumnsNow DEF Inductive, TypeOK, OtherColumns, others
  <1>2. entity_id[o] \in Entities
    BY DEF Inductive, TypeOK
  <1>3. \A e \in Entities \ {entity_id[o]} :
          Contributions(e, entity_id', current')
            = Contributions(e, entity_id, current)
    <2> SUFFICES ASSUME NEW e \in Entities \ {entity_id[o]}
                 PROVE  Contributions(e, entity_id', current')
                          = Contributions(e, entity_id, current)
      OBVIOUS
    <2>1. \A x \in Objects : (entity_id[x] = e \/ entity_id'[x] = e) =>
            entity_id'[x] = entity_id[x] /\ current'[x] = current[x]
      BY DEF Inductive, TypeOK
    <2>q. QED BY <1>1, <2>1, SameContributions DEF Inductive
  <1>4. Redraft({entity_id[o]}, entity_id', current')
    BY DEF Redraft
  <1>5. TypeOK' /\ VersionTracksDrafts' /\ OpenApprovalIsNewest'
        /\ DraftsCurrent'
    BY <1>1, <1>2, <1>3, <1>4, RedraftKeeps
  <1>6. LedgerMatchesMembership'
    BY DEF Inductive, LedgerMatchesMembership
  <1>7. AnnouncedDrafted'
    BY AnnouncedKept
  <1>q. QED BY <1>5, <1>6, <1>7 DEF Inductive

\* The first observation of an object puts it into an entity, new or not.
LEMMA JoinKeeps ==
  ASSUME Inductive, NEW o \in Objects, NEW v \in Values, NEW e \in Entities,
         entity_id[o] = None,
         current' = [current EXCEPT ![o] = v],
         SetMembership({o}, e, "initial_resolution"),
         Redraft({e}, entity_id', [current EXCEPT ![o] = v]),
         \/ status' = status
         \/ status' = [status EXCEPT ![e] = "candidate"],
         matches' \subseteq MatchTasks,
         UNCHANGED <<approved, proposals, repairs, cannot_link, relationships,
                     announced>>
  PROVE  Inductive'
  <1>0. "initial_resolution" \in Reasons
    BY DEF Reasons
  <1>1. OtherColumns'
    BY <1>0, OtherColumnsNow, SetMembershipKeeps
    DEF Inductive, TypeOK, OtherColumns
  <1>2. \A f \in Entities \ {e} : status'[f] = status[f] /\
          Contributions(f, entity_id', current')
            = Contributions(f, entity_id, current)
    <2> SUFFICES ASSUME NEW f \in Entities \ {e}
                 PROVE  status'[f] = status[f] /\
                        Contributions(f, entity_id', current')
                          = Contributions(f, entity_id, current)
      OBVIOUS
    <2>1. \A x \in Objects : (entity_id[x] = f \/ entity_id'[x] = f) =>
            entity_id'[x] = entity_id[x] /\ current'[x] = current[x]
      <3>1. /\ \A x \in Objects : x \in {o} => entity_id'[x] = e
            /\ \A x \in Objects : x \notin {o} => entity_id'[x] = entity_id[x]
        <4>1. {o} \in SUBSET Objects
          OBVIOUS
        <4>q. QED BY <1>0, <4>1, SetMembershipKeeps
      <3>2. \A x \in Objects : x # o => current'[x] = current[x]
        BY DEF Inductive, TypeOK
      <3>q. QED BY <3>1, <3>2, NoneAssumption
    <2>2. status'[f] = status[f]
      BY DEF Inductive, TypeOK
    <2>q. QED BY <1>1, <2>1, <2>2, SameContributions DEF Inductive
  <1>3. Redraft({e}, entity_id', current')
    BY DEF Redraft
  <1>4. TypeOK' /\ VersionTracksDrafts' /\ OpenApprovalIsNewest'
        /\ DraftsCurrent'
    BY <1>1, <1>2, <1>3, RedraftKeeps
  <1>5. LedgerMatchesMembership'
    BY <1>0, SetMembershipKeeps
  <1>6. AnnouncedDrafted'
    BY AnnouncedKept
  <1>q. QED BY <1>4, <1>5, <1>6 DEF Inductive

\* Moving all members of `from` to `to` (an approved match or merge), where
\* `from` becomes merged and `to` is redrafted.
LEMMA AbsorbKeeps ==
  ASSUME Inductive, NEW from \in Entities, NEW to \in Entities,
         NEW why \in Reasons,
         SetMembership(Members(from), to, why),
         status' = [status EXCEPT ![from] = "merged"],
         Redraft({to}, entity_id', current),
         \/ announced' = announced
         \/ announced' = [announced EXCEPT ![to] = latest'[to]],
         matches' \subseteq matches, proposals' \subseteq proposals,
         relationships' \subseteq Entities \X Entities,
         UNCHANGED <<current, approved, repairs, cannot_link>>
  PROVE  Inductive' /\ \A e \in Entities : announced'[e] >= announced[e]
  <1>0. Members(from) \in SUBSET Objects
    BY DEF Members
  <1>1. /\ latest'[to] = latest[to] + 1 /\ latest'[to] \in Nat
        /\ \A e \in Entities : announced[e] \in Nat /\ latest[e] \in Nat
                               /\ announced[e] <= latest[e]
        /\ \A e \in Entities \ {to} : latest'[e] = latest[e]
    <2>1. \A e \in Entities :
            /\ latest[e] \in Nat
            /\ latest'[e] = IF e \in {to} THEN latest[e] + 1 ELSE latest[e]
      BY RedraftLatest DEF Inductive
    <2>2. \A e \in Entities : announced[e] \in Nat /\ announced[e] <= latest[e]
      BY DEF Inductive, TypeOK, AnnouncedDrafted
    <2>q. QED BY <2>1, <2>2
  <1>2. announced' \in [Entities -> Nat]
    BY <1>1 DEF Inductive, TypeOK
  <1>3. OtherColumns'
    BY <1>0, <1>2, SetMembershipKeeps DEF Inductive, TypeOK, OtherColumns
  <1>4. \A f \in Entities \ {to} : status'[f] # "merged" =>
          /\ status[f] # "merged"
          /\ Contributions(f, entity_id', current')
               = Contributions(f, entity_id, current)
    <2> SUFFICES ASSUME NEW f \in Entities \ {to}, status'[f] # "merged"
                 PROVE  /\ status[f] # "merged"
                        /\ Contributions(f, entity_id', current')
                             = Contributions(f, entity_id, current)
      OBVIOUS
    <2>1. f # from /\ status[f] # "merged"
      BY DEF Inductive, TypeOK
    <2>2. \A x \in Objects : (entity_id[x] = f \/ entity_id'[x] = f) =>
            entity_id'[x] = entity_id[x] /\ current'[x] = current[x]
      <3>1. /\ \A x \in Objects : x \in Members(from) => entity_id'[x] = to
            /\ \A x \in Objects : x \notin Members(from) =>
                  entity_id'[x] = entity_id[x]
        BY <1>0, SetMembershipKeeps
      <3>q. QED BY <2>1, <3>1 DEF Members
    <2>q. QED BY <1>3, <2>1, <2>2, SameContributions DEF Inductive
  <1>5. Redraft({to}, entity_id', current')
    BY DEF Redraft
  <1>6. TypeOK' /\ VersionTracksDrafts' /\ OpenApprovalIsNewest'
        /\ DraftsCurrent'
    BY <1>3, <1>4, <1>5, RedraftKeeps
  <1>7. LedgerMatchesMembership'
    BY <1>0, SetMembershipKeeps
  <1>8. \A e \in Entities : announced'[e] <= latest'[e]
                            /\ announced'[e] >= announced[e]
    <2>1. CASE announced' = announced
      BY <1>1, <2>1
    <2>2. CASE announced' = [announced EXCEPT ![to] = latest'[to]]
      <3>1. announced'[to] = latest'[to]
            /\ \A e \in Entities \ {to} : announced'[e] = announced[e]
        BY <2>2 DEF Inductive, TypeOK
      <3>q. QED BY <1>1, <3>1
    <2>q. QED BY <2>1, <2>2
  <1>q. QED BY <1>6, <1>7, <1>8 DEF Inductive, AnnouncedDrafted

\* An approved split moves some members of an entity to a new one, redrafts
\* both, and announces the entity's new version.
LEMMA SplitKeeps ==
  ASSUME Inductive, NEW e \in Entities, NEW split \in Entities,
         NEW S \in SUBSET Objects, S \subseteq Members(e),
         SetMembership(S, split, "approved_split"),
         status' = [status EXCEPT ![split] = "candidate"],
         Redraft({e, split}, entity_id', current),
         announced' = [announced EXCEPT ![e] = version'[e]],
         repairs' \subseteq Entities, proposals' \subseteq proposals,
         UNCHANGED <<current, approved, matches, cannot_link, relationships>>
  PROVE  Inductive' /\ \A f \in Entities : announced'[f] >= announced[f]
  <1>0. "approved_split" \in Reasons
    BY DEF Reasons
  <1>1. /\ \A f \in Entities : latest[f] \in Nat /\ announced[f] \in Nat
             /\ announced[f] <= latest[f] /\ version[f] = latest[f]
        /\ \A f \in Entities \ {e, split} : latest'[f] = latest[f]
        /\ \A f \in {e, split} : latest'[f] = latest[f] + 1
        /\ version'[e] = latest[e] + 1
    <2>1. \A f \in Entities :
            /\ latest[f] \in Nat
            /\ latest'[f] = IF f \in {e, split} THEN latest[f] + 1 ELSE latest[f]
            /\ version'[f] = IF f \in {e, split} THEN version[f] + 1
                                                 ELSE version[f]
      BY RedraftLatest DEF Inductive
    <2>2. \A f \in Entities : announced[f] \in Nat /\ announced[f] <= latest[f]
                              /\ version[f] = latest[f]
      BY DEF Inductive, TypeOK, AnnouncedDrafted, VersionTracksDrafts
    <2>q. QED BY <2>1, <2>2
  <1>2. announced' \in [Entities -> Nat]
    BY <1>1 DEF Inductive, TypeOK
  <1>3. OtherColumns'
    BY <1>0, <1>2, SetMembershipKeeps DEF Inductive, TypeOK, OtherColumns
  <1>4. \A f \in Entities \ {e, split} : status'[f] = status[f] /\
          Contributions(f, entity_id', current')
            = Contributions(f, entity_id, current)
    <2> SUFFICES ASSUME NEW f \in Entities \ {e, split}
                 PROVE  status'[f] = status[f] /\
                        Contributions(f, entity_id', current')
                          = Contributions(f, entity_id, current)
      OBVIOUS
    <2>1. status'[f] = status[f]
      BY DEF Inductive, TypeOK
    <2>2. \A x \in Objects : (entity_id[x] = f \/ entity_id'[x] = f) =>
            entity_id'[x] = entity_id[x] /\ current'[x] = current[x]
      <3>1. /\ \A x \in Objects : x \in S => entity_id'[x] = split
            /\ \A x \in Objects : x \notin S => entity_id'[x] = entity_id[x]
        BY <1>0, SetMembershipKeeps
      <3>q. QED BY <3>1 DEF Members
    <2>q. QED BY <1>3, <2>1, <2>2, SameContributions DEF Inductive
  <1>5. Redraft({e, split}, entity_id', current')
    BY DEF Redraft
  <1>6. TypeOK' /\ VersionTracksDrafts' /\ OpenApprovalIsNewest'
        /\ DraftsCurrent'
    BY <1>3, <1>4, <1>5, RedraftKeeps
  <1>7. LedgerMatchesMembership'
    BY <1>0, SetMembershipKeeps
  <1>8. \A f \in Entities : announced'[f] <= latest'[f]
                            /\ announced'[f] >= announced[f]
    <2>1. announced'[e] = latest[e] + 1
          /\ \A f \in Entities \ {e} : announced'[f] = announced[f]
      BY <1>1 DEF Inductive, TypeOK
    <2>q. QED BY <1>1, <2>1
  <1>q. QED BY <1>6, <1>7, <1>8 DEF Inductive, AnnouncedDrafted

\* Remastering redrafts every entity that is not merged.
LEMMA RemasterKeeps ==
  ASSUME Inductive, RemasterDomain
  PROVE  Inductive'
  <1> DEFINE S == {e \in Entities : Live(e)}
  <1>1. Redraft(S, entity_id, current) /\ announced' = announced
        /\ UNCHANGED <<membership, status>>
    BY DEF RemasterDomain
  <1>2. Redraft(S, entity_id', current')
    BY <1>1 DEF Redraft, membership
  <1>3. OtherColumns'
    BY DEF Inductive, TypeOK, OtherColumns, RemasterDomain, membership, others
  <1>4. \A e \in Entities : status'[e] = status[e] /\
          Contributions(e, entity_id', current')
            = Contributions(e, entity_id, current)
    BY <1>1 DEF membership, Contributions
  <1>5. TypeOK' /\ VersionTracksDrafts' /\ OpenApprovalIsNewest'
        /\ DraftsCurrent'
    <2>1. S \in SUBSET Entities
      OBVIOUS
    <2> HIDE DEF S
    <2>q. QED BY <1>2, <1>3, <1>4, <2>1, RedraftKeeps
  <1>6. LedgerMatchesMembership'
    BY <1>1 DEF Inductive, LedgerMatchesMembership, membership
  <1>7. AnnouncedDrafted'
    BY <1>1, AnnouncedKept
  <1>q. QED BY <1>5, <1>6, <1>7 DEF Inductive

\* Deciding a master approval closes the only open one of its entity.
LEMMA DecideMasterKeeps ==
  ASSUME Inductive, NEW t \in approvals, NEW decision, DecideMaster(t, decision)
  PROVE  Inductive' /\ \A e \in Entities : announced'[e] >= announced[e]
  <1>1. /\ t.entity \in Entities /\ t.master_version \in Nat
        /\ t.master_version = latest[t.entity]
        /\ OpenOf(t.entity) = {t}
    BY DEF Inductive, TypeOK, OpenApprovalIsNewest, ApprovalTasks
  <1>2. TypeOK'
    BY <1>1 DEF Inductive, TypeOK, DecideMaster, membership, others
  <1>3. VersionTracksDrafts' /\ LedgerMatchesMembership'
    BY DEF Inductive, VersionTracksDrafts, LedgerMatchesMembership,
           DecideMaster, membership
  <1>4. OpenApprovalIsNewest'
    BY DEF Inductive, OpenApprovalIsNewest, DecideMaster, Bound, OpenOf
  <1>5. DraftsCurrent'
    <2> SUFFICES ASSUME NEW u \in approvals', status'[u.entity] # "merged"
                 PROVE  ShowsCurrent(u)'
      BY DEF DraftsCurrent
    <2>1. u \in approvals /\ u # t
      BY DEF DecideMaster
    <2>2. u.entity # t.entity
      BY <1>1, <2>1 DEF OpenOf
    <2>3. u.entity \in Entities
      BY <2>1 DEF Inductive, TypeOK, ApprovalTasks
    <2>4. status'[u.entity] = status[u.entity]
      BY <2>2, <2>3 DEF DecideMaster, Inductive, TypeOK
    <2>5. ShowsCurrent(u)
      BY <2>1, <2>4 DEF Inductive, DraftsCurrent
    <2>q. QED BY <2>5 DEF ShowsCurrent, DecideMaster, membership, Contributions
  <1>6. \A e \in Entities : announced'[e] <= latest'[e]
                            /\ announced'[e] >= announced[e]
    BY <1>1 DEF Inductive, TypeOK, AnnouncedDrafted, DecideMaster
  <1>q. QED BY <1>2, <1>3, <1>4, <1>5, <1>6 DEF Inductive, AnnouncedDrafted

\* A step that leaves memberships, entities, drafts and events alone.
LEMMA QuietKeeps ==
  ASSUME Inductive, TypeOK', UNCHANGED <<membership, entities, announced>>
  PROVE  Inductive'
  <1>1. VersionTracksDrafts' /\ LedgerMatchesMembership' /\ AnnouncedDrafted'
    BY DEF Inductive, VersionTracksDrafts, LedgerMatchesMembership,
           AnnouncedDrafted, membership, entities
  <1>2. OpenApprovalIsNewest'
    BY DEF Inductive, OpenApprovalIsNewest, Bound, OpenOf, entities
  <1>3. DraftsCurrent'
    BY DEF Inductive, DraftsCurrent, ShowsCurrent, Contributions, membership,
           entities
  <1>q. QED BY <1>1, <1>2, <1>3 DEF Inductive

\* Ingestion of a record preserves the invariant and announces nothing.
LEMMA IngestKeeps ==
  ASSUME Inductive, Ingest
  PROVE  Inductive' /\ announced' = announced
  <1>1. ASSUME NEW o \in Objects, IngestRetire(o)
        PROVE  Inductive' /\ announced' = announced
    BY <1>1, ContentKeeps DEF IngestRetire, RetireAffects
  <1>2. ASSUME NEW o \in Objects, NEW v \in Values, IngestUpdate(o, v)
        PROVE  Inductive' /\ announced' = announced
    BY <1>2, ContentKeeps DEF IngestUpdate
  <1>3. ASSUME NEW o \in Objects, NEW v \in Values, IngestLinked(o, v)
        PROVE  Inductive' /\ announced' = announced
    <2>1. PICK x \in AutoLinks(o, v) :
            /\ entity_id[o] = None
            /\ current' = [current EXCEPT ![o] = v]
            /\ SetMembership({o}, entity_id[x], "initial_resolution")
            /\ Redraft({entity_id[x]}, entity_id', [current EXCEPT ![o] = v])
            /\ UNCHANGED <<status, approved, others, cannot_link,
                           relationships, announced>>
      BY <1>3 DEF IngestLinked
    <2>2. entity_id[x] \in Entities
      BY DEF AutoLinks, Candidates, Inductive, TypeOK
    <2>3. matches' \subseteq MatchTasks
      BY <2>1 DEF others, Inductive, TypeOK
    <2>q. QED BY <2>1, <2>2, <2>3, JoinKeeps DEF others
  <1>4. ASSUME NEW o \in Objects, NEW v \in Values, IngestCreated(o, v)
        PROVE  Inductive' /\ announced' = announced
    <2>1. PICK e \in Entities : NewEntity(o, v, e)
      BY <1>4 DEF IngestCreated
    <2>2. matches' \subseteq MatchTasks
      BY <1>4 DEF IngestCreated, Inductive, TypeOK
    <2>q. QED BY <2>1, <2>2, JoinKeeps DEF NewEntity
  <1>5. ASSUME NEW o \in Objects, NEW v \in Values, IngestReview(o, v)
        PROVE  Inductive' /\ announced' = announced
    <2>1. PICK x \in Reviews(o, v), e \in Entities :
            /\ NewEntity(o, v, e)
            /\ matches' = matches \cup
                 {[entity |-> e, left |-> o, right |-> x, left_values |-> v,
                   right_values |-> current[x], target |-> entity_id[x],
                   bound_target |-> version[entity_id[x]],
                   bound |-> version'[e]]}
      BY <1>5 DEF IngestReview
    <2>2. x \in Objects /\ current[x] \in Values /\ entity_id[x] \in Entities
      BY DEF Reviews, Candidates, Inductive, TypeOK
    <2>3. version[entity_id[x]] \in Nat /\ version'[e] \in Nat
      <3>1. version'[e] = version[e] + 1
        BY <2>1 DEF NewEntity, Redraft, Bump
      <3>q. QED BY <2>2, <3>1 DEF Inductive, TypeOK
    <2>4. matches' \subseteq MatchTasks
      BY <2>1, <2>2, <2>3 DEF MatchTasks, Inductive, TypeOK
    <2>q. QED BY <2>1, <2>4, JoinKeeps DEF NewEntity
  <1>q. QED BY <1>1, <1>2, <1>3, <1>4, <1>5 DEF Ingest

\* Proposals and relationships touch no entity.
LEMMA ProposeKeeps ==
  ASSUME Inductive, Propose
  PROVE  Inductive' /\ announced' = announced
  <1>1. ASSUME NEW by \in Principals, NEW p \in Entities, NEW q \in Entities,
               ProposeMerge(by, p, q)
        PROVE  Inductive' /\ announced' = announced
    <2>1. proposals' \subseteq ProposalTasks
      BY <1>1 DEF ProposeMerge, ProposalTasks, Inductive, TypeOK
    <2>2. TypeOK'
      BY <1>1, <2>1 DEF ProposeMerge, Inductive, TypeOK, membership, entities
    <2>q. QED BY <1>1, <2>2, QuietKeeps DEF ProposeMerge
  <1>2. ASSUME NEW by \in Principals, NEW e \in Entities,
               NEW S \in SUBSET Objects, ProposeSplit(by, e, S)
        PROVE  Inductive' /\ announced' = announced
    <2>1. proposals' \subseteq ProposalTasks
      BY <1>2 DEF ProposeSplit, ProposalTasks, Inductive, TypeOK
    <2>2. TypeOK'
      BY <1>2, <2>1 DEF ProposeSplit, Inductive, TypeOK, membership, entities
    <2>q. QED BY <1>2, <2>2, QuietKeeps DEF ProposeSplit
  <1>3. ASSUME NEW e \in Entities, NEW f \in Entities, CreateRelationship(e, f)
        PROVE  Inductive' /\ announced' = announced
    <2>0. relationships' \subseteq Entities \X Entities
      BY <1>3 DEF CreateRelationship, Inductive, TypeOK
    <2>1. TypeOK'
      BY <1>3, <2>0 DEF CreateRelationship, Inductive, TypeOK, membership,
                        entities, others
    <2>q. QED BY <1>3, <2>1, QuietKeeps DEF CreateRelationship
  <1>q. QED BY <1>1, <1>2, <1>3 DEF Propose

\* Decisions preserve the invariant, and announce versions in order.
LEMMA DecideKeeps ==
  ASSUME Inductive, Decide
  PROVE  Inductive' /\ \A e \in Entities : announced'[e] >= announced[e]
  <1>0. \A e \in Entities : announced[e] \in Nat
    BY DEF Inductive, TypeOK
  <1>1. ASSUME NEW t \in approvals, NEW d, DecideMaster(t, d)
        PROVE  Inductive' /\ \A e \in Entities : announced'[e] >= announced[e]
    BY <1>1, DecideMasterKeeps
  <1>2. ASSUME NEW m \in matches, MatchStale(m) \/ MatchSeparate(m)
        PROVE  Inductive' /\ \A e \in Entities : announced'[e] >= announced[e]
    <2>1. m \in MatchTasks
      BY DEF Inductive, TypeOK
    <2>2. {m.left, m.right} \in SUBSET Objects
      BY <2>1 DEF MatchTasks
    <2>3. TypeOK'
      BY <1>2, <2>2 DEF MatchStale, MatchSeparate, Inductive, TypeOK,
                        membership, entities
    <2>4. UNCHANGED <<membership, entities, announced>>
      BY <1>2 DEF MatchStale, MatchSeparate
    <2>q. QED BY <1>0, <2>3, <2>4, QuietKeeps
  <1>3. ASSUME NEW m \in matches, MatchLink(m)
        PROVE  Inductive' /\ \A e \in Entities : announced'[e] >= announced[e]
    <2>1. m.entity \in Entities /\ m.target \in Entities
      BY DEF Inductive, TypeOK, MatchTasks
    <2>2. "approved_match" \in Reasons
      BY DEF Reasons
    <2>3. relationships' \subseteq Entities \X Entities
      BY <1>3 DEF MatchLink, Inductive, TypeOK
    <2>q. QED BY <1>3, <2>1, <2>2, <2>3, AbsorbKeeps DEF MatchLink
  <1>4. ASSUME NEW t \in proposals, NEW by \in Principals, ProposalReject(t, by)
        PROVE  Inductive' /\ \A e \in Entities : announced'[e] >= announced[e]
    <2>1. TypeOK'
      BY <1>4 DEF ProposalReject, Inductive, TypeOK, membership, entities
    <2>2. UNCHANGED <<membership, entities, announced>>
      BY <1>4 DEF ProposalReject
    <2>q. QED BY <1>0, <2>1, <2>2, QuietKeeps
  <1>5. ASSUME NEW t \in proposals, NEW by \in Principals, ApplyMerge(t, by)
        PROVE  Inductive' /\ \A e \in Entities : announced'[e] >= announced[e]
    <2>1. t.entity \in Entities /\ t.merged \in Entities
      BY DEF Inductive, TypeOK, ProposalTasks
    <2>2. "approved_merge" \in Reasons
      BY DEF Reasons
    <2>3. relationships' \subseteq Entities \X Entities
      BY <1>5, <2>1 DEF ApplyMerge, Repoint, Inductive, TypeOK
    <2>q. QED BY <1>5, <2>1, <2>2, <2>3, AbsorbKeeps DEF ApplyMerge
  <1>6. ASSUME NEW t \in proposals, NEW by \in Principals, ApplySplit(t, by)
        PROVE  Inductive' /\ \A e \in Entities : announced'[e] >= announced[e]
    <2>1. t.entity \in Entities /\ t.objects \in SUBSET Objects
      BY DEF Inductive, TypeOK, ProposalTasks
    <2>2. PICK split \in Entities :
            /\ t.objects \subseteq Members(t.entity)
            /\ SetMembership(t.objects, split, "approved_split")
            /\ status' = [status EXCEPT ![split] = "candidate"]
            /\ Redraft({t.entity, split}, entity_id', current)
            /\ announced' = [announced EXCEPT ![t.entity] = version'[t.entity]]
      BY <1>6 DEF ApplySplit, SplitEvent
    <2>3. /\ repairs' \subseteq Entities /\ proposals' \subseteq proposals
          /\ UNCHANGED <<current, approved, matches, cannot_link, relationships>>
      BY <1>6, <2>1 DEF ApplySplit, Inductive, TypeOK
    <2>q. QED BY <2>1, <2>2, <2>3, SplitKeeps
  <1>7. ASSUME NEW t \in proposals, ProposalStale(t)
        PROVE  Inductive' /\ \A e \in Entities : announced'[e] >= announced[e]
    <2>1. TypeOK'
      BY <1>7 DEF ProposalStale, Inductive, TypeOK, membership, entities
    <2>2. UNCHANGED <<membership, entities, announced>>
      BY <1>7 DEF ProposalStale
    <2>q. QED BY <1>0, <2>1, <2>2, QuietKeeps
  <1>q. QED BY <1>1, <1>2, <1>3, <1>4, <1>5, <1>6, <1>7 DEF Decide

\* Every step preserves the invariant and announces versions in order.
LEMMA NextKeeps ==
  ASSUME Inductive, [Next]_vars
  PROVE  Inductive' /\ \A e \in Entities : announced'[e] >= announced[e]
  <1>0. \A e \in Entities : announced[e] \in Nat
    BY DEF Inductive, TypeOK
  <1>1. CASE UNCHANGED vars
    <2>1. TypeOK'
      BY <1>1 DEF Inductive, TypeOK, vars, membership, entities, others
    <2>q. QED BY <1>0, <1>1, <2>1, QuietKeeps DEF vars
  <1>2. CASE Ingest
    BY <1>0, <1>2, IngestKeeps
  <1>3. CASE Decide
    BY <1>3, DecideKeeps
  <1>4. CASE Propose
    BY <1>0, <1>4, ProposeKeeps
  <1>5. CASE RemasterDomain
    BY <1>0, <1>5, RemasterKeeps DEF RemasterDomain
  <1>q. QED BY <1>1, <1>2, <1>3, <1>4, <1>5 DEF Next

-----------------------------------------------------------------------------
(* Links.  While the versions of an offered match are those it was made      *)
(* for, the cluster of its object is that object alone with the content that *)
(* was compared, and nobody in the other cluster contradicts it.             *)

\* What a match was offered for still holds while its versions do.
MatchSound(m) ==
    /\ Exists(m.target)
    /\ m.bound <= version[m.entity] /\ m.bound_target <= version[m.target]
    /\ version[m.entity] = m.bound =>
          \A o \in Objects :
             entity_id[o] = m.entity => o = m.left /\ current[o] = m.left_values
    /\ version[m.target] = m.bound_target =>
          \A o \in Objects :
             entity_id[o] = m.target /\ current[o] # None =>
                ~Contradicting(m.left_values, current[o])

MembersExist == \A o \in Objects : entity_id[o] # None => Exists(entity_id[o])

Offered ==
    /\ MembersExist
    /\ \A m \in matches : MatchSound(m)
    /\ \A t \in proposals : Exists(t.entity)

\* A step that leaves the version of an entity brings nobody into it and
\* changes the content of none of its members.
Guarded ==
    \A e \in Entities :
        /\ version'[e] >= version[e]
        /\ version'[e] = version[e] =>
              \A o \in Objects :
                 entity_id'[o] = e => entity_id[o] = e /\ current'[o] = current[o]

\* The step that LinkKeepsCluster asks for.
LinkSafe ==
    \A o \in Objects :
        (/\ entity_id'[o] # entity_id[o]
         /\ reason'[o] \in {"initial_resolution", "approved_match"})
           => \A m \in Objects \ {o} :
                 (entity_id'[m] = entity_id'[o] /\ current'[m] # None
                    /\ current'[o] # None)
                    => <<current'[o], current'[m]>> \notin Contradicts

\* Entities do not vanish.
Lasting == \A e \in Entities : Exists(e) => Exists(e)'

\* Redraft guards whatever happens to the entities it drafts.
LEMMA RedraftGuards ==
  ASSUME TypeOK, NEW S, NEW of, NEW now, Redraft(S, of, now),
         \A o \in Objects : entity_id'[o] \in Entities \ S =>
            entity_id'[o] = entity_id[o] /\ current'[o] = current[o]
  PROVE  Guarded
  <1>1. \A e \in Entities : version'[e] = IF e \in S THEN version[e] + 1 ELSE version[e]
    BY RedraftLatest
  <1>2. \A e \in Entities : version[e] \in Nat
    BY DEF TypeOK
  <1>q. QED BY <1>1, <1>2 DEF Guarded

\* A guarded step keeps every match sound.
LEMMA MatchKept ==
  ASSUME TypeOK, TypeOK', Guarded, Lasting, NEW m \in matches, MatchSound(m)
  PROVE  MatchSound(m)'
  <1>1. /\ m.entity \in Entities /\ m.target \in Entities
        /\ m.bound \in Nat /\ m.bound_target \in Nat
    BY DEF TypeOK, MatchTasks
  <1>2. \A e \in Entities : version[e] \in Nat /\ version'[e] \in Nat
    BY DEF TypeOK
  <1>3. Exists(m.target)'
    BY <1>1 DEF MatchSound, Lasting
  <1>4. m.bound <= version'[m.entity] /\ m.bound_target <= version'[m.target]
    BY <1>1, <1>2 DEF MatchSound, Guarded
  <1>5. /\ version'[m.entity] = m.bound => version'[m.entity] = version[m.entity]
        /\ version'[m.target] = m.bound_target => version'[m.target] = version[m.target]
    BY <1>1, <1>2 DEF MatchSound, Guarded
  <1>6. version'[m.entity] = m.bound =>
          \A o \in Objects :
             entity_id'[o] = m.entity => o = m.left /\ current'[o] = m.left_values
    BY <1>1, <1>5 DEF MatchSound, Guarded
  <1>7. version'[m.target] = m.bound_target =>
          \A o \in Objects :
             entity_id'[o] = m.target /\ current'[o] # None =>
                ~Contradicting(m.left_values, current'[o])
    BY <1>1, <1>5 DEF MatchSound, Guarded
  <1>q. QED BY <1>3, <1>4, <1>6, <1>7 DEF MatchSound, Contradicting

\* ... and with sound additions the whole.
LEMMA OfferedKept ==
  ASSUME TypeOK, TypeOK', Offered, Guarded, Lasting, MembersExist',
         \A m \in matches' : m \in matches \/ MatchSound(m)',
         \A t \in proposals' : t \in proposals \/ Exists(t.entity)'
  PROVE  Offered'
  <1>1. \A m \in matches' : MatchSound(m)'
    BY MatchKept DEF Offered
  <1>2. \A t \in proposals' : Exists(t.entity)'
    BY DEF Offered, Lasting, TypeOK, ProposalTasks
  <1>q. QED BY <1>1, <1>2 DEF Offered

\* A step that moves nobody.
LEMMA NobodyMoved ==
  ASSUME TypeOK, TypeOK', Offered, entity_id' = entity_id, Guarded, Lasting,
         matches' \subseteq matches,
         \A t \in proposals' : t \in proposals \/ Exists(t.entity)'
  PROVE  Offered' /\ LinkSafe
  <1>1. MembersExist'
    BY DEF Offered, MembersExist, Lasting, TypeOK
  <1>2. LinkSafe
    BY DEF LinkSafe
  <1>q. QED BY <1>1, <1>2, OfferedKept

\* Whom _set_membership moves, and why.
LEMMA Moved ==
  ASSUME TypeOK, NEW S, NEW e, NEW why, SetMembership(S, e, why)
  PROVE  \A o \in Objects :
           /\ entity_id'[o] = IF o \in S THEN e ELSE entity_id[o]
           /\ entity_id'[o] # entity_id[o] => reason'[o] = why
  BY DEF SetMembership, TypeOK

\* A step that moves S to e and redrafts e: guarded, and nobody is lost.
LEMMA MoveGuards ==
  ASSUME TypeOK, Offered, NEW S, NEW e \in Entities, NEW why, SetMembership(S, e, why),
         NEW T, e \in T, NEW of, NEW now, Redraft(T, of, now),
         \A o \in Objects \ S : current'[o] = current[o],
         Lasting, Exists(e)'
  PROVE  Guarded /\ MembersExist'
  <1>1. \A o \in Objects : entity_id'[o] = IF o \in S THEN e ELSE entity_id[o]
    BY Moved
  <1>2. Guarded
    BY <1>1, RedraftGuards
  <1>3. MembersExist'
    BY <1>1 DEF Offered, MembersExist, Lasting, TypeOK
  <1>q. QED BY <1>2, <1>3

\* A new observation of an object that has an entity, and remastering.
LEMMA ContentOffers ==
  ASSUME TypeOK, TypeOK', Offered, NEW S, NEW now, Redraft(S, entity_id, now),
         \A o \in Objects : entity_id[o] \in Entities \ S => current'[o] = current[o],
         UNCHANGED <<entity_id, status, matches, proposals>>
  PROVE  Offered' /\ LinkSafe
  <1>1. Guarded
    BY RedraftGuards
  <1>2. Lasting
    BY DEF Lasting, Exists
  <1>q. QED BY <1>1, <1>2, NobodyMoved

\* An automatic link joins a cluster that the object does not contradict.
LEMMA LinkedOffers ==
  ASSUME TypeOK, TypeOK', Offered, NEW o \in Objects, NEW v \in Values,
         IngestLinked(o, v)
  PROVE  Offered' /\ LinkSafe
  <1>1. PICK x \in AutoLinks(o, v) :
          /\ current' = [current EXCEPT ![o] = v]
          /\ SetMembership({o}, entity_id[x], "initial_resolution")
          /\ Redraft({entity_id[x]}, entity_id', [current EXCEPT ![o] = v])
          /\ UNCHANGED <<status, approved, others, cannot_link,
                         relationships, announced>>
    BY DEF IngestLinked
  <1>2. PICK e \in Entities :
          /\ e = entity_id[x] /\ Exists(e) /\ ~ClusterConflict(e, v)
          /\ SetMembership({o}, e, "initial_resolution")
          /\ Redraft({e}, entity_id', [current EXCEPT ![o] = v])
    <2>1. /\ x \in Objects /\ entity_id[x] \in Entities /\ entity_id[x] # None
          /\ ~ClusterConflict(entity_id[x], v)
      BY DEF AutoLinks, Candidates, TypeOK
    <2>2. Exists(entity_id[x])
      BY <2>1 DEF Offered, MembersExist
    <2>q. QED BY <1>1, <2>1, <2>2
  <1>3. \A k \in Objects : current'[k] = IF k = o THEN v ELSE current[k]
    BY <1>1 DEF TypeOK
  <1>4. Exists(e)'
    BY <1>1, <1>2 DEF Exists
  <1>5. Lasting
    BY <1>1 DEF Lasting, Exists
  <1>6. \A k \in Objects : entity_id'[k] = IF k = o THEN e ELSE entity_id[k]
    BY <1>2, Moved
  <1>7. Guarded /\ MembersExist'
    BY <1>2, <1>3, <1>4, <1>5, MoveGuards
  <1>8. Offered'
    BY <1>1, <1>5, <1>7, OfferedKept DEF others
  <1>9. LinkSafe
    <2>1. \A k \in Objects \ {o} :
            entity_id[k] = e /\ current[k] # None => ~Contradicting(v, current[k])
      BY <1>2 DEF ClusterConflict, Members
    <2>q. QED BY <1>3, <1>6, <2>1 DEF LinkSafe, Contradicting
  <1>q. QED BY <1>8, <1>9

\* A new entity has its object only, and the match it is offered with is sound.
LEMMA CreatedOffers ==
  ASSUME TypeOK, TypeOK', Offered, NEW o \in Objects, NEW v \in Values,
         NEW e \in Entities, NewEntity(o, v, e)
  PROVE  /\ Guarded /\ Lasting /\ MembersExist' /\ LinkSafe
         /\ \A k \in Objects : /\ entity_id'[k] = e <=> k = o
                               /\ k # o => entity_id'[k] = entity_id[k]
                               /\ current'[k] = IF k = o THEN v ELSE current[k]
         /\ \A f \in Entities \ {e} : version'[f] = version[f]
  <1>1. /\ current' = [current EXCEPT ![o] = v]
        /\ SetMembership({o}, e, "initial_resolution")
        /\ status' = [status EXCEPT ![e] = "candidate"]
        /\ Redraft({e}, entity_id', [current EXCEPT ![o] = v])
        /\ ~Exists(e)
    BY DEF NewEntity, Fresh
  <1>2. \A k \in Objects : current'[k] = IF k = o THEN v ELSE current[k]
    BY <1>1 DEF TypeOK
  <1>3. \A f \in Entities : Exists(f) => Exists(f)'
    BY <1>1 DEF Exists, TypeOK
  <1>4. Exists(e)'
    BY <1>1 DEF Exists, TypeOK
  <1>5. \A k \in Objects : entity_id[k] # e
    BY <1>1, NoneAssumption DEF Offered, MembersExist
  <1>6. \A k \in Objects : entity_id'[k] = IF k = o THEN e ELSE entity_id[k]
    BY <1>1, Moved
  <1>7. Guarded /\ MembersExist'
    BY <1>1, <1>2, <1>3, <1>4, MoveGuards DEF Lasting
  <1>8. LinkSafe
    BY <1>5, <1>6 DEF LinkSafe
  <1>9. \A f \in Entities \ {e} : version'[f] = version[f]
    BY <1>1, RedraftLatest
  <1>q. QED BY <1>2, <1>3, <1>5, <1>6, <1>7, <1>8, <1>9 DEF Lasting

\* An object without a candidate has an entity of its own.
LEMMA FirstOffers ==
  ASSUME TypeOK, TypeOK', Offered, NEW o \in Objects, NEW v \in Values,
         IngestCreated(o, v)
  PROVE  Offered' /\ LinkSafe
  <1>1. PICK e \in Entities : NewEntity(o, v, e)
    BY DEF IngestCreated
  <1>2. Guarded /\ Lasting /\ MembersExist' /\ LinkSafe
    BY <1>1, CreatedOffers
  <1>3. UNCHANGED <<matches, proposals>>
    BY <1>1 DEF IngestCreated, NewEntity
  <1>q. QED BY <1>2, <1>3, OfferedKept

\* The match a new entity is offered with is sound.
LEMMA ReviewOffers ==
  ASSUME TypeOK, TypeOK', Offered, NEW o \in Objects, NEW v \in Values,
         IngestReview(o, v)
  PROVE  Offered' /\ LinkSafe
  <1>1. PICK x \in Candidates(o, v), e \in Entities :
          /\ NewEntity(o, v, e)
          /\ matches' = matches \cup
                {[entity |-> e, left |-> o, right |-> x, left_values |-> v,
                  right_values |-> current[x], target |-> entity_id[x],
                  bound_target |-> version[entity_id[x]], bound |-> version'[e]]}
    BY DEF IngestReview, Reviews
  <1>2. PICK f \in Entities :
          /\ f = entity_id[x] /\ Exists(f) /\ ~ClusterConflict(f, v)
    BY <1>1 DEF Candidates, TypeOK, Offered, MembersExist
  <1>3. PICK m :
          /\ m = [entity |-> e, left |-> o, right |-> x, left_values |-> v,
                  right_values |-> current[x], target |-> f,
                  bound_target |-> version[f], bound |-> version'[e]]
          /\ matches' = matches \cup {m}
    BY <1>1, <1>2
  <1>4. /\ Guarded /\ Lasting /\ MembersExist' /\ LinkSafe
        /\ \A k \in Objects : /\ entity_id'[k] = e <=> k = o
                              /\ k # o => entity_id'[k] = entity_id[k]
                              /\ current'[k] = IF k = o THEN v ELSE current[k]
        /\ \A g \in Entities \ {e} : version'[g] = version[g]
    BY <1>1, CreatedOffers
  <1>5. e # f /\ Exists(f)'
    BY <1>1, <1>2, <1>4 DEF NewEntity, Fresh, Lasting
  <1>6. version'[e] \in Nat /\ version[f] \in Nat /\ version'[f] = version[f]
    BY <1>4, <1>5 DEF TypeOK
  <1>7. MatchSound(m)'
    <2>1. \A k \in Objects :
            entity_id'[k] = e => k = o /\ current'[k] = v
      BY <1>4
    <2>2. \A k \in Objects :
            entity_id'[k] = f /\ current'[k] # None => <<v, current'[k]>> \notin Contradicts
      BY <1>2, <1>4, <1>5 DEF ClusterConflict, Members, Contradicting
    <2>q. QED BY <1>3, <1>5, <1>6, <2>1, <2>2 DEF MatchSound, Contradicting
  <1>8. proposals' = proposals
    BY <1>1 DEF NewEntity
  <1>q. QED BY <1>3, <1>4, <1>7, <1>8, OfferedKept

\* An approved match moves one object, with the content that was compared, into
\* a cluster that is still the one it was compared with.
LEMMA MatchLinkOffers ==
  ASSUME TypeOK, TypeOK', Offered, NEW m \in matches, MatchLink(m)
  PROVE  Offered' /\ LinkSafe
  <1>1. /\ SetMembership(Members(m.entity), m.target, "approved_match")
        /\ status' = [status EXCEPT ![m.entity] = "merged"]
        /\ Redraft({m.target}, entity_id', current)
        /\ matches' \subseteq matches
        /\ UNCHANGED <<current, proposals>>
        /\ version[m.entity] = m.bound /\ version[m.target] = m.bound_target
    BY DEF MatchLink, Linkable, Bound
  <1>2. m.entity \in Entities /\ m.target \in Entities
    BY DEF TypeOK, MatchTasks
  <1>3. MatchSound(m)
    BY DEF Offered
  <1>4. Lasting
    BY <1>1 DEF Lasting, Exists, TypeOK
  <1>5. Exists(m.target)'
    BY <1>2, <1>3, <1>4 DEF MatchSound, Lasting
  <1>6. Guarded /\ MembersExist'
    BY <1>1, <1>2, <1>4, <1>5, MoveGuards
  <1>7. Offered'
    BY <1>1, <1>4, <1>6, OfferedKept
  <1>8. LinkSafe
    <2>1. \A o \in Objects :
            entity_id'[o] = IF entity_id[o] = m.entity THEN m.target
                                                       ELSE entity_id[o]
      BY <1>1, Moved DEF Members
    <2>2. \A o \in Objects :
            entity_id[o] = m.entity => o = m.left /\ current[o] = m.left_values
      BY <1>1, <1>3 DEF MatchSound
    <2>3. \A k \in Objects :
            entity_id[k] = m.target /\ current[k] # None =>
               <<m.left_values, current[k]>> \notin Contradicts
      BY <1>1, <1>3 DEF MatchSound, Contradicting
    <2>4. current' = current
      BY <1>1
    <2>q. QED BY <2>1, <2>2, <2>3, <2>4 DEF LinkSafe
  <1>q. QED BY <1>7, <1>8

\* A merge moves its members for a reason of its own.
LEMMA MergeOffers ==
  ASSUME TypeOK, TypeOK', Offered, NEW t \in proposals, NEW by, ApplyMerge(t, by)
  PROVE  Offered' /\ LinkSafe
  <1>1. /\ SetMembership(Members(t.merged), t.entity, "approved_merge")
        /\ status' = [status EXCEPT ![t.merged] = "merged"]
        /\ Redraft({t.entity}, entity_id', current)
        /\ proposals' \subseteq proposals
        /\ UNCHANGED <<current, matches>>
    BY DEF ApplyMerge
  <1>2. t.entity \in Entities /\ Exists(t.entity)
    BY DEF Offered, TypeOK, ProposalTasks
  <1>3. Lasting
    BY <1>1 DEF Lasting, Exists, TypeOK
  <1>4. Guarded /\ MembersExist'
    BY <1>1, <1>2, <1>3, MoveGuards DEF Lasting
  <1>5. Offered'
    BY <1>1, <1>3, <1>4, OfferedKept
  <1>6. LinkSafe
    BY <1>1, Moved DEF LinkSafe
  <1>q. QED BY <1>5, <1>6

\* ... and so does a split.
LEMMA SplitOffers ==
  ASSUME TypeOK, TypeOK', Offered, NEW t \in proposals, NEW by, ApplySplit(t, by)
  PROVE  Offered' /\ LinkSafe
  <1>1. PICK split \in Entities :
          /\ SetMembership(t.objects, split, "approved_split")
          /\ status' = [status EXCEPT ![split] = "candidate"]
          /\ Redraft({t.entity, split}, entity_id', current)
          /\ proposals' \subseteq proposals
          /\ UNCHANGED <<current, matches>>
    BY DEF ApplySplit
  <1>2. Lasting /\ Exists(split)'
    BY <1>1 DEF Lasting, Exists, TypeOK
  <1>3. Guarded /\ MembersExist'
    BY <1>1, <1>2, MoveGuards
  <1>4. Offered'
    BY <1>1, <1>2, <1>3, OfferedKept
  <1>5. LinkSafe
    BY <1>1, Moved DEF LinkSafe
  <1>q. QED BY <1>4, <1>5

\* Every other decision and every proposal leaves versions, contents and
\* memberships alone.
LEMMA QuietOffers ==
  ASSUME TypeOK, TypeOK', Offered, Lasting,
         UNCHANGED <<entity_id, current, version>>,
         matches' \subseteq matches,
         \A t \in proposals' : t \in proposals \/ Exists(t.entity)'
  PROVE  Offered' /\ LinkSafe
  <1>1. Guarded
    BY DEF Guarded, TypeOK
  <1>q. QED BY <1>1, NobodyMoved

\* A proposal names an entity that exists.
LEMMA ProposeOffers ==
  ASSUME TypeOK, TypeOK', Offered, Propose
  PROVE  Offered' /\ LinkSafe
  <1>1. /\ UNCHANGED <<entity_id, current, version, status, matches>>
        /\ \A t \in proposals' : t \in proposals \/ Exists(t.entity)
    <2>1. ASSUME NEW by \in Principals, NEW p \in Entities, NEW q \in Entities,
                 ProposeMerge(by, p, q)
          PROVE  <1>1!1 /\ <1>1!2
      BY <2>1 DEF ProposeMerge, Live, Exists, membership, entities
    <2>2. ASSUME NEW by \in Principals, NEW e \in Entities,
                 NEW S \in SUBSET Objects, ProposeSplit(by, e, S)
          PROVE  <1>1!1 /\ <1>1!2
      BY <2>2 DEF ProposeSplit, Live, Exists, membership, entities
    <2>3. ASSUME NEW e \in Entities, NEW f \in Entities, CreateRelationship(e, f)
          PROVE  <1>1!1 /\ <1>1!2
      BY <2>3 DEF CreateRelationship, membership, entities, others
    <2>q. QED BY <2>1, <2>2, <2>3 DEF Propose
  <1>2. Lasting
    BY <1>1 DEF Lasting, Exists
  <1>3. \A t \in proposals' : t \in proposals \/ Exists(t.entity)'
    BY <1>1 DEF Exists
  <1>q. QED BY <1>1, <1>2, <1>3, QuietOffers

\* Ingestion: an object with an entity, then the three ways to get one.
LEMMA IngestOffers ==
  ASSUME TypeOK, TypeOK', Offered, Ingest
  PROVE  Offered' /\ LinkSafe
  <1>1. PICK o \in Objects :
          \/ IngestRetire(o)
          \/ \E v \in Values :
                IngestUpdate(o, v) \/ IngestLinked(o, v)
                  \/ IngestCreated(o, v) \/ IngestReview(o, v)
    BY DEF Ingest
  <1>2. CASE IngestRetire(o)
    <2>1. /\ Redraft({entity_id[o]}, entity_id, [current EXCEPT ![o] = None])
          /\ current' = [current EXCEPT ![o] = None]
          /\ UNCHANGED <<entity_id, status, matches, proposals>>
      BY <1>2 DEF IngestRetire, RetireAffects, others
    <2>2. \A k \in Objects : entity_id[k] \in Entities \ {entity_id[o]} =>
             current'[k] = current[k]
      BY <2>1 DEF TypeOK
    <2>q. QED BY <2>1, <2>2, ContentOffers
  <1>3. ASSUME NEW v \in Values, IngestUpdate(o, v)
        PROVE  Offered' /\ LinkSafe
    <2>1. /\ Redraft({entity_id[o]}, entity_id, [current EXCEPT ![o] = v])
          /\ current' = [current EXCEPT ![o] = v]
          /\ UNCHANGED <<entity_id, status, matches, proposals>>
      BY <1>3 DEF IngestUpdate, others
    <2>2. \A k \in Objects : entity_id[k] \in Entities \ {entity_id[o]} =>
             current'[k] = current[k]
      BY <2>1 DEF TypeOK
    <2>q. QED BY <2>1, <2>2, ContentOffers
  <1>q. QED
    BY <1>1, <1>2, <1>3, LinkedOffers, FirstOffers, ReviewOffers

\* decide_task: only a link, a merge and a split move members.
LEMMA DecideOffers ==
  ASSUME TypeOK, TypeOK', Offered, Decide
  PROVE  Offered' /\ LinkSafe
  <1>1. ASSUME NEW t \in approvals, NEW d, DecideMaster(t, d)
        PROVE  Offered' /\ LinkSafe
    <2>1. /\ UNCHANGED <<entity_id, current, version, matches, proposals>>
          /\ status' = [status EXCEPT ![t.entity] =
                IF Bound(t) /\ d = "approve" THEN "approved" ELSE @]
      BY <1>1 DEF DecideMaster, membership, others
    <2>2. Lasting
      BY <2>1 DEF Lasting, Exists, TypeOK
    <2>q. QED BY <2>1, <2>2, QuietOffers
  <1>2. ASSUME UNCHANGED <<entity_id, current, version, status>>,
               matches' \subseteq matches, proposals' \subseteq proposals
        PROVE  Offered' /\ LinkSafe
    <2>1. Lasting
      BY <1>2 DEF Lasting, Exists
    <2>q. QED BY <1>2, <2>1, QuietOffers
  <1>3. ASSUME NEW m \in matches, MatchStale(m) \/ MatchSeparate(m)
        PROVE  Offered' /\ LinkSafe
    <2>1. /\ UNCHANGED <<entity_id, current, version, status>>
          /\ matches' \subseteq matches /\ proposals' \subseteq proposals
      BY <1>3 DEF MatchStale, MatchSeparate, membership, entities
    <2>q. QED BY <1>2, <2>1
  <1>4. ASSUME NEW t \in proposals, NEW by, ProposalStale(t) \/ ProposalReject(t, by)
        PROVE  Offered' /\ LinkSafe
    <2>1. /\ UNCHANGED <<entity_id, current, version, status>>
          /\ matches' \subseteq matches /\ proposals' \subseteq proposals
      BY <1>4 DEF ProposalStale, ProposalReject, membership, entities
    <2>q. QED BY <1>2, <2>1
  <1>q. QED
    BY <1>1, <1>3, <1>4, MatchLinkOffers, MergeOffers, SplitOffers DEF Decide

\* Every step keeps what matches were offered for, and links safely.
LEMMA NextOffers ==
  ASSUME TypeOK, TypeOK', Offered, [Next]_vars
  PROVE  Offered' /\ LinkSafe
  <1>1. CASE UNCHANGED vars
    <2>1. UNCHANGED <<entity_id, current, version, status, matches, proposals>>
      BY <1>1 DEF vars, membership, entities, others
    <2>2. Lasting
      BY <2>1 DEF Lasting, Exists
    <2>q. QED BY <2>1, <2>2, QuietOffers
  <1>2. CASE RemasterDomain
    BY <1>2, ContentOffers DEF RemasterDomain, membership, others
  <1>q. QED BY <1>1, <1>2, IngestOffers, DecideOffers, ProposeOffers DEF Next

-----------------------------------------------------------------------------
\* The inductive invariant holds in every reachable state.
THEOREM InductiveInvariant == Spec => []Inductive
  <1>1. Inductive /\ [Next]_vars => Inductive'
    BY NextKeeps
  <1>q. QED BY <1>1, InitInductive, PTL DEF Spec

\* Every column and every open task keeps its type.
THEOREM TypeCorrect == Spec => []TypeOK
  <1>1. Inductive => TypeOK
    BY DEF Inductive
  <1>q. QED BY <1>1, InductiveInvariant, PTL

\* Every bump of an entity's version comes with exactly one draft, on every
\* path through ingest, decide_task and remaster_domain.
THEOREM VersionsTrackDrafts == Spec => []VersionTracksDrafts
  <1>1. Inductive => VersionTracksDrafts
    BY DEF Inductive
  <1>q. QED BY <1>1, InductiveInvariant, PTL

\* A reviewer is offered at most one approval per entity, the newest.
THEOREM OpenApprovalsAreNewest == Spec => []OpenApprovalIsNewest
  <1>1. Inductive => OpenApprovalIsNewest
    BY DEF Inductive
  <1>q. QED BY <1>1, InductiveInvariant, PTL

\* The open row of the membership history is always the membership.
THEOREM LedgerIsExact == Spec => []LedgerMatchesMembership
  <1>1. Inductive => LedgerMatchesMembership
    BY DEF Inductive
  <1>q. QED BY <1>1, InductiveInvariant, PTL

\* No approval of a live entity publishes anything but its current
\* contributions.
THEOREM ApprovalsAreCurrent == Spec => ApprovalIsCurrent
  <1>1. Inductive => [\A t \in approvals :
          (Publishes(t) /\ status[t.entity] # "merged") => ShowsCurrent(t)]_vars
    BY DEF Inductive, DraftsCurrent
  <1>q. QED BY <1>1, InductiveInvariant, PTL DEF ApprovalIsCurrent

\* The version numbers an entity's events carry never go back.
THEOREM EventVersionsAreMonotone == Spec => EventVersionsMonotone
  <1>1. Inductive /\ [Next]_vars =>
          [\A e \in Entities : announced'[e] >= announced[e]]_vars
    BY NextKeeps
  <1>q. QED
    BY <1>1, InductiveInvariant, PTL DEF Spec, EventVersionsMonotone

\* No automatic link and no approved match brings contradicting records into a
\* cluster: _resolve looks at the whole cluster, and the versions _link_match
\* checks stand for what it does not look at again.
THEOREM LinksKeepClusters == Spec => LinkKeepsCluster
  <1>1. Init => Offered
    BY NoneAssumption DEF Init, Offered, MembersExist
  <1>2. Inductive /\ Inductive' /\ Offered /\ [Next]_vars => Offered' /\ LinkSafe
    BY NextOffers DEF Inductive
  <1>q. QED
    BY <1>1, <1>2, InductiveInvariant, PTL DEF Spec, LinkKeepsCluster, LinkSafe
=============================================================================
