---------------------------- MODULE AccessProofs ----------------------------
(***************************************************************************)
(* For any users, groups, logins, requests at the same time and sessions:  *)
(* whom a session serves, and what it confers.                             *)
(***************************************************************************)
EXTENDS Access, SequenceTheorems, TLAPS

\* The parts of TypeOK that a step relates.
RowsTyped ==
    /\ users \in [Users -> [exists : BOOLEAN, active : BOOLEAN, grants : SUBSET Grants]]
    /\ groups \in [Groups -> [exists : BOOLEAN, grants : SUBSET Grants, members : SUBSET Users]]
    /\ logins \in [Logins -> {"none", "started", "consumed", "expired"}]
    /\ sessions \in Seq(Session)

Request ==
    [op : {"idle", "callback", "revoke"}, revoke : SUBSET Users,
     session : {<<>>} \cup Session, new : BOOLEAN]

RequestsTyped ==
    /\ tx \in [Slots -> Request]
    /\ missed \subseteq Users

\* Only a request that revokes owes a revocation; a callback has its session.
Owing ==
    \A q \in Slots :
        /\ tx[q].op # "revoke" => tx[q].revoke = {}
        /\ tx[q].op = "callback" => tx[q].session \in Session

\* The last step admitted sessions that exist, of active users.
ServedTyped == served \subseteq DOMAIN sessions

Inductive ==
    /\ RowsTyped
    /\ RequestsTyped
    /\ Owing
    /\ ServedTyped
    /\ InactiveNotServed
    /\ SessionsReflectGroups

-----------------------------------------------------------------------------
(* Lemmas.                                                                 *)

\* A row of sessions is a session.
LEMMA SessionTyped ==
    ASSUME RowsTyped, NEW s \in DOMAIN sessions
    PROVE  sessions[s] \in Session /\ sessions[s].user \in Users
  <1>1. sessions[s] \in Session
    BY DEF RowsTyped
  <1>q. QED BY <1>1 DEF Session

\* What groups confer has its type.
LEMMA ConferredTyped ==
    ASSUME RowsTyped, NEW u \in Users
    PROVE  Conferred(u) \in SUBSET (Groups \X SUBSET Grants)
  BY DEF RowsTyped, Conferred, GroupsOf

\* A callback opens a session of its type.
LEMMA OpenedTyped ==
    ASSUME RowsTyped, NEW l \in Logins, NEW u \in Users, NEW claimed \in Claims
    PROVE  [login |-> l, user |-> u, status |-> "live",
            roles |-> SessionRoles(u, claimed), conferred |-> Conferred(u)] \in Session
  <1>1. claimed \subseteq Roles
    BY AccessAssumption
  <1>2. SessionRoles(u, claimed) \subseteq Roles
    BY <1>1 DEF SessionRoles
  <1>q. QED BY <1>2, ConferredTyped DEF Session

\* A change of group g confers the same on the users it does not affect.
LEMMA OthersKeep ==
    ASSUME RowsTyped, NEW g \in Groups, NEW row, NEW u \in Users,
           groups' = [groups EXCEPT ![g] = row],
           u \notin groups[g].members, u \notin row.members
    PROVE  Conferred(u)' = Conferred(u)
  <1>1. \A h \in Groups : groups'[h] = IF h = g THEN row ELSE groups[h]
    BY DEF RowsTyped
  <1>2. \A h \in Groups : u \in groups'[h].members <=> u \in groups[h].members
    BY <1>1
  <1>3. GroupsOf(u)' = GroupsOf(u)
    BY <1>2 DEF GroupsOf
  <1>4. \A h \in GroupsOf(u) : groups'[h] = groups[h]
    BY <1>1 DEF GroupsOf
  <1>q. QED BY <1>3, <1>4 DEF Conferred

\* A request owes the revocations it is given.
LEMMA OwesTyped ==
    ASSUME NEW affected \in SUBSET Users
    PROVE  /\ Owes(affected) \in Request /\ Owes(affected).revoke = affected
           /\ Owes(affected).op # "callback"
           /\ Owes(affected).op # "revoke" => affected = {}
  BY DEF Owes, Idle, Request

\* A request that starts to revoke keeps the types.
LEMMA RevokeTyped ==
    ASSUME Inductive, NEW q \in Slots, NEW affected \in SUBSET Users,
           ThenRevoke(q, affected), missed' = missed
    PROVE  /\ RequestsTyped' /\ Owing'
           /\ \A p \in Slots : tx[p].revoke \subseteq tx'[p].revoke
           /\ affected \subseteq tx'[q].revoke
  <1>1. tx[q] = Idle /\ tx[q].revoke = {} /\ tx' = [tx EXCEPT ![q] = Owes(affected)]
    BY DEF ThenRevoke, Idle
  <1>2. \A p \in Slots : tx'[p] = IF p = q THEN Owes(affected) ELSE tx[p]
    BY <1>1 DEF Inductive, RequestsTyped
  <1>q. QED BY <1>1, <1>2, OwesTyped DEF Inductive, RequestsTyped, Owing

\* A change of users leaves the sessions and what their groups confer alone.
LEMMA UserChangeKeeps ==
    ASSUME Inductive, NEW q \in Slots, NEW affected \in SUBSET Users,
           ThenRevoke(q, affected),
           users' \in [Users -> [exists : BOOLEAN, active : BOOLEAN, grants : SUBSET Grants]],
           UNCHANGED <<groups, logins, sessions, missed>>
    PROVE  Inductive'
  <1>1. RowsTyped'
    BY DEF Inductive, RowsTyped
  <1>2. /\ RequestsTyped' /\ Owing'
        /\ \A p \in Slots : tx[p].revoke \subseteq tx'[p].revoke
    BY RevokeTyped
  <1>3. ServedTyped' /\ InactiveNotServed'
    BY DEF ThenRevoke, ServedTyped, InactiveNotServed
  <1>4. \A u : Conferred(u)' = Conferred(u)
    BY DEF Conferred, GroupsOf
  <1>5. SessionsReflectGroups'
    BY <1>2, <1>4 DEF Inductive, SessionsReflectGroups
  <1>q. QED BY <1>1, <1>2, <1>3, <1>5 DEF Inductive

\* A change of a group owes a revocation to its members before and after it.
LEMMA GroupChangeKeeps ==
    ASSUME Inductive, NEW q \in Slots, NEW g \in Groups,
           NEW row \in [exists : BOOLEAN, grants : SUBSET Grants, members : SUBSET Users],
           NEW affected \in SUBSET Users,
           groups[g].members \subseteq affected, row.members \subseteq affected,
           groups' = [groups EXCEPT ![g] = row],
           ThenRevoke(q, affected),
           UNCHANGED <<users, logins, sessions, missed>>
    PROVE  Inductive'
  <1>1. RowsTyped'
    BY DEF Inductive, RowsTyped
  <1>2. /\ RequestsTyped' /\ Owing'
        /\ \A p \in Slots : tx[p].revoke \subseteq tx'[p].revoke
        /\ affected \subseteq tx'[q].revoke
    BY RevokeTyped
  <1>3. ServedTyped' /\ InactiveNotServed'
    BY DEF ThenRevoke, ServedTyped, InactiveNotServed
  <1>4. SUFFICES ASSUME NEW s \in DOMAIN sessions, sessions[s].status = "live"
                 PROVE  (\/ sessions[s].conferred = Conferred(sessions[s].user)
                         \/ sessions[s].user \in missed
                         \/ \E p \in Slots : sessions[s].user \in tx[p].revoke)'
    BY <1>1, <1>2, <1>3 DEF Inductive, SessionsReflectGroups
  <1>5. PICK u \in Users : u = sessions[s].user
    BY SessionTyped DEF Inductive
  <1>6. CASE u \in affected
    BY <1>2, <1>5, <1>6
  <1>7. CASE u \notin affected
    <2>1. Conferred(u)' = Conferred(u)
      BY <1>7, OthersKeep DEF Inductive
    <2>2. \/ sessions[s].conferred = Conferred(u)
          \/ u \in missed
          \/ \E p \in Slots : u \in tx[p].revoke
      BY <1>4, <1>5 DEF Inductive, SessionsReflectGroups
    <2>3. sessions'[s].user = u /\ sessions'[s].conferred = sessions[s].conferred
      BY <1>5
    <2>q. QED BY <1>2, <2>1, <2>2, <2>3
  <1>q. QED BY <1>6, <1>7

\* A step that only ends sessions.
LEMMA EndingKeeps ==
    ASSUME Inductive, sessions' \in Seq(Session), DOMAIN sessions' = DOMAIN sessions,
           \A s \in DOMAIN sessions :
              sessions'[s].status = "live" =>
                 /\ sessions[s].status = "live"
                 /\ sessions'[s].user = sessions[s].user
                 /\ sessions'[s].conferred = sessions[s].conferred,
           UNCHANGED <<users, groups, tx, missed>>
    PROVE  SessionsReflectGroups' /\ RequestsTyped' /\ Owing'
  <1>1. \A u : Conferred(u)' = Conferred(u)
    BY DEF Conferred, GroupsOf
  <1>2. SessionsReflectGroups'
    BY <1>1 DEF Inductive, SessionsReflectGroups
  <1>q. QED BY <1>2 DEF Inductive, RequestsTyped, Owing

\* A step after which no session is live that was not, and live ones are as
\* they were.
SomeEnded ==
    /\ sessions' \in Seq(Session)
    /\ DOMAIN sessions' = DOMAIN sessions
    /\ \A k \in DOMAIN sessions :
          sessions'[k].status = "live" =>
             /\ sessions[k].status = "live"
             /\ sessions'[k].user = sessions[k].user
             /\ sessions'[k].conferred = sessions[k].conferred

\* A session gets a final status.
LEMMA EndedStatus ==
    ASSUME Inductive, NEW s \in DOMAIN sessions, NEW status \in {"revoked", "expired"},
           sessions' = [sessions EXCEPT ![s].status = status]
    PROVE  SomeEnded
  <1>1. sessions \in Seq(Session) /\ sessions[s] \in Session
    BY SessionTyped DEF Inductive, RowsTyped
  <1>2. DOMAIN sessions' = DOMAIN sessions
    OBVIOUS
  <1>3. \A k \in DOMAIN sessions :
           sessions'[k] = IF k = s THEN [sessions[s] EXCEPT !.status = status]
                          ELSE sessions[k]
    OBVIOUS
  <1>4. [sessions[s] EXCEPT !.status = status] \in Session
    BY <1>1 DEF Session
  <1>5. [sessions[s] EXCEPT !.status = status].status = status
    BY <1>1 DEF Session
  <1>6. sessions' \in Seq(Session)
    BY <1>1, <1>3, <1>4
  <1>q. QED BY <1>2, <1>3, <1>5, <1>6 DEF SomeEnded

-----------------------------------------------------------------------------
(* Steps.                                                                  *)

\* Initially there are no sessions.
LEMMA InitInductive == Init => Inductive
  <1> SUFFICES ASSUME Init PROVE Inductive
    OBVIOUS
  <1>1. RowsTyped
    BY DEF Init, RowsTyped, NoUser, NoGroup
  <1>2. Idle \in Request
    BY DEF Idle, Request
  <1>3. RequestsTyped /\ Owing
    BY <1>2 DEF Init, RequestsTyped, Owing, Idle
  <1>4. DOMAIN sessions = {}
    BY DEF Init
  <1>q. QED BY <1>1, <1>3, <1>4 DEF Init, Inductive, ServedTyped, InactiveNotServed,
       SessionsReflectGroups

\* A login starts, expires or is used up: no session notices.
LEMMA LoginKeeps ==
    ASSUME Inductive, NEW l \in Logins,
           Login(l) \/ ExpireLogin(l) \/ ExchangeFails(l)
    PROVE  Inductive'
  <1>1. /\ logins' \in [Logins -> {"none", "started", "consumed", "expired"}]
        /\ served' = {} /\ UNCHANGED <<users, groups, sessions, tx, missed>>
    BY DEF Login, ExpireLogin, ExchangeFails, Inductive, RowsTyped
  <1>2. SessionsReflectGroups' /\ RequestsTyped' /\ Owing'
    BY <1>1, EndingKeeps DEF Inductive, RowsTyped
  <1>q. QED BY <1>1, <1>2 DEF Inductive, RowsTyped, ServedTyped, InactiveNotServed

\* A callback remembers what it has read.
LEMMA BeginCallbackKeeps ==
    ASSUME Inductive, NEW q \in Slots, NEW l \in Logins, NEW u \in Users,
           NEW claimed \in Claims, BeginCallback(q, l, u, claimed)
    PROVE  Inductive'
  <1> DEFINE t == [op |-> "callback", revoke |-> {}, new |-> ~users[u].exists,
                   session |-> [login |-> l, user |-> u, status |-> "live",
                                roles |-> SessionRoles(u, claimed),
                                conferred |-> Conferred(u)]]
  <1>1. t.session \in Session
    BY OpenedTyped DEF Inductive
  <1>2. users[u].exists \in BOOLEAN
    BY DEF Inductive, RowsTyped
  <1>3. t \in Request /\ t.op = "callback" /\ t.revoke = {}
    BY <1>1, <1>2 DEF Request
  <1>4. \A p \in Slots : tx'[p] = IF p = q THEN t ELSE tx[p]
    BY DEF BeginCallback, Inductive, RequestsTyped
  <1>5. tx' = [tx EXCEPT ![q] = t]
    BY DEF BeginCallback
  <1>6. tx[q].revoke = {}
    BY DEF BeginCallback, Idle
  <1>7. served' = {} /\ UNCHANGED <<users, groups, logins, sessions, missed>>
    BY DEF BeginCallback
  <1> HIDE DEF t
  <1>8. RequestsTyped' /\ Owing'
    BY <1>1, <1>3, <1>4, <1>5, <1>7 DEF Inductive, RequestsTyped, Owing
  <1>9. \A v : Conferred(v)' = Conferred(v)
    BY <1>7 DEF Conferred, GroupsOf
  <1>10. \A p \in Slots : tx'[p].revoke = tx[p].revoke
    BY <1>3, <1>4, <1>6
  <1>11. SessionsReflectGroups'
    BY <1>7, <1>9, <1>10 DEF Inductive, SessionsReflectGroups
  <1>q. QED BY <1>7, <1>8, <1>11 DEF Inductive, RowsTyped, ServedTyped, InactiveNotServed

\* A request that ends without a revocation.
LEMMA IdleTyped ==
    ASSUME Inductive, NEW q \in Slots, tx' = [tx EXCEPT ![q] = Idle],
           missed' \in SUBSET Users
    PROVE  /\ RequestsTyped' /\ Owing'
           /\ \A p \in Slots : tx'[p] = IF p = q THEN Idle ELSE tx[p]
  <1>1. Idle \in Request /\ Idle.op = "idle" /\ Idle.revoke = {}
    BY DEF Idle, Request
  <1>2. \A p \in Slots : tx'[p] = IF p = q THEN Idle ELSE tx[p]
    BY DEF Inductive, RequestsTyped
  <1>q. QED BY <1>1, <1>2 DEF Inductive, RequestsTyped, Owing

\* The session of a callback has what groups confer, or is missed.
LEMMA EndCallbackKeeps ==
    ASSUME Inductive, NEW q \in Slots, EndCallback(q)
    PROVE  Inductive'
  <1> DEFINE s == tx[q].session
  <1>1. s \in Session /\ s.user \in Users /\ tx[q].revoke = {}
    BY DEF EndCallback, Inductive, Owing, Session
  <1>2. served' = {} /\ UNCHANGED groups /\ tx' = [tx EXCEPT ![q] = Idle]
    BY DEF EndCallback
  <1>3. missed \subseteq missed' /\ missed' \in SUBSET Users
    BY <1>1 DEF EndCallback, Inductive, RequestsTyped
  <1>4. /\ RequestsTyped' /\ Owing'
        /\ \A p \in Slots : tx'[p] = IF p = q THEN Idle ELSE tx[p]
    BY <1>2, <1>3, IdleTyped
  <1>5. \A p \in Slots : tx[p].revoke = tx'[p].revoke
    <2>1. Idle.revoke = {}
      BY DEF Idle
    <2>q. QED BY <1>1, <1>4, <2>1
  <1>6. \A u : Conferred(u)' = Conferred(u)
    BY <1>2 DEF Conferred, GroupsOf
  <1>7. CASE UNCHANGED <<logins, sessions, users, missed>>
    <2>1. SessionsReflectGroups'
      BY <1>5, <1>6, <1>7 DEF Inductive, SessionsReflectGroups
    <2>q. QED BY <1>2, <1>4, <1>7, <2>1 DEF Inductive, RowsTyped, ServedTyped,
         InactiveNotServed
  <1>8. CASE ~UNCHANGED <<logins, sessions, users, missed>>
    <2>1. /\ logins' = Consumed(s.login)
          /\ sessions' = Append(sessions, s)
          /\ users' = IF tx[q].new
                      THEN [users EXCEPT ![s.user] =
                              [exists |-> TRUE, active |-> TRUE,
                               grants |-> s.roles \cup {Workspace}]]
                      ELSE users
          /\ missed' = IF s.conferred = Conferred(s.user) THEN missed
                       ELSE missed \cup {s.user}
      BY <1>8 DEF EndCallback
    <2>2. s.roles \cup {Workspace} \subseteq Grants
      BY <1>1 DEF Session, Grants
    <2>3. users' \in [Users -> [exists : BOOLEAN, active : BOOLEAN, grants : SUBSET Grants]]
      BY <2>1, <2>2 DEF Inductive, RowsTyped
    <2>4. logins' \in [Logins -> {"none", "started", "consumed", "expired"}]
      BY <2>1 DEF Consumed, Inductive, RowsTyped
    <2>5. sessions \in Seq(Session)
      BY DEF Inductive, RowsTyped
    <2> HIDE DEF s
    <2>6. /\ sessions' \in Seq(Session)
          /\ DOMAIN sessions' = DOMAIN sessions \cup {Len(sessions) + 1}
          /\ \A k \in DOMAIN sessions : sessions'[k] = sessions[k]
          /\ sessions'[Len(sessions) + 1] = s
      BY <1>1, <2>1, <2>5, AppendProperties
    <2>7. RowsTyped'
      BY <1>2, <2>3, <2>4, <2>6 DEF Inductive, RowsTyped
    <2>8. SUFFICES ASSUME NEW k \in DOMAIN sessions', sessions'[k].status = "live"
                   PROVE  (\/ sessions[k].conferred = Conferred(sessions[k].user)
                           \/ sessions[k].user \in missed
                           \/ \E p \in Slots : sessions[k].user \in tx[p].revoke)'
      BY <1>2, <1>4, <2>7 DEF Inductive, SessionsReflectGroups, ServedTyped,
         InactiveNotServed
    <2>9. CASE k \in DOMAIN sessions
      BY <1>3, <1>5, <1>6, <2>6, <2>8, <2>9 DEF Inductive, SessionsReflectGroups
    <2>10. CASE k = Len(sessions) + 1
      BY <1>6, <2>1, <2>6, <2>10
    <2>q. QED BY <2>6, <2>9, <2>10
  <1>q. QED BY <1>7, <1>8

\* A session is admitted only while its user is active.
LEMMA UseSessionKeeps ==
    ASSUME Inductive, NEW s \in DOMAIN sessions, UseSession(s)
    PROVE  Inductive'
  <1>1. CASE Admitted(s) /\ served' = {s} /\ sessions' = sessions
    <2>1. SessionsReflectGroups' /\ RequestsTyped' /\ Owing'
      BY <1>1, EndingKeeps DEF UseSession, Inductive, RowsTyped
    <2>q. QED BY <1>1, <2>1 DEF UseSession, Admitted, Inductive, RowsTyped, ServedTyped,
         InactiveNotServed
  <1>2. CASE served' = {} /\ sessions' = [sessions EXCEPT ![s].status = "revoked"]
    <2>1. UNCHANGED <<users, groups, tx, missed, logins>>
      BY DEF UseSession
    <2>2. SomeEnded
      BY <1>2, EndedStatus
    <2>3. SessionsReflectGroups' /\ RequestsTyped' /\ Owing'
      BY <2>1, <2>2, EndingKeeps DEF SomeEnded
    <2>q. QED BY <1>2, <2>1, <2>2, <2>3 DEF SomeEnded, Inductive, RowsTyped, ServedTyped,
         InactiveNotServed
  <1>q. QED BY <1>1, <1>2 DEF UseSession

\* A session ends by itself or by a logout.
LEMMA EndSessionKeeps ==
    ASSUME Inductive, NEW s \in DOMAIN sessions, Logout(s) \/ ExpireSession(s)
    PROVE  Inductive'
  <1>1. /\ served' = {}
        /\ UNCHANGED <<users, groups, tx, missed, logins>>
        /\ \/ sessions' = [sessions EXCEPT ![s].status = "revoked"]
           \/ sessions' = [sessions EXCEPT ![s].status = "expired"]
    BY DEF Logout, ExpireSession
  <1>2. SomeEnded
    BY <1>1, EndedStatus
  <1>3. SessionsReflectGroups' /\ RequestsTyped' /\ Owing'
    BY <1>1, <1>2, EndingKeeps DEF SomeEnded
  <1>q. QED BY <1>1, <1>2, <1>3 DEF SomeEnded, Inductive, RowsTyped, ServedTyped,
       InactiveNotServed

\* Whose sessions are revoked is not owed a revocation any more.
LEMMA RevokeSessionsKeeps ==
    ASSUME Inductive, NEW q \in Slots, RevokeSessions(q)
    PROVE  Inductive'
  <1>1. PICK u \in tx[q].revoke :
           /\ sessions' = Revoked(u)
           /\ tx' = [tx EXCEPT ![q] = Owes(tx[q].revoke \ {u})]
           /\ missed' = missed \ {u}
    BY DEF RevokeSessions
  <1>2. served' = {} /\ UNCHANGED <<users, groups, logins>>
    BY DEF RevokeSessions
  <1>3. tx[q].revoke \ {u} \in SUBSET Users
    BY DEF Inductive, RequestsTyped, Request
  <1> DEFINE t == Owes(tx[q].revoke \ {u})
  <1>4. t \in Request /\ t.revoke = tx[q].revoke \ {u}
        /\ (t.op # "revoke" => t.revoke = {}) /\ t.op # "callback"
    BY <1>3, OwesTyped
  <1>5. tx' = [tx EXCEPT ![q] = t]
    BY <1>1
  <1> HIDE DEF t
  <1>6. \A p \in Slots : tx'[p] = IF p = q THEN t ELSE tx[p]
    BY <1>5 DEF Inductive, RequestsTyped
  <1>7. RequestsTyped' /\ Owing'
    <2>1. missed' \subseteq Users
      BY <1>1 DEF Inductive, RequestsTyped
    <2>2. tx' \in [Slots -> Request]
      BY <1>4, <1>5 DEF Inductive, RequestsTyped
    <2>3. ASSUME NEW p \in Slots
          PROVE  (/\ tx[p].op # "revoke" => tx[p].revoke = {}
                  /\ tx[p].op = "callback" => tx[p].session \in Session)'
      BY <1>4, <1>6 DEF Inductive, Owing
    <2>q. QED BY <2>1, <2>2, <2>3 DEF RequestsTyped, Owing
  <1>8. /\ DOMAIN sessions' = DOMAIN sessions
        /\ \A k \in DOMAIN sessions :
              sessions'[k] = IF sessions[k].user = u /\ sessions[k].status # "revoked"
                             THEN [sessions[k] EXCEPT !.status = "revoked"]
                             ELSE sessions[k]
    BY <1>1 DEF Revoked
  <1>9. \A k \in DOMAIN sessions :
           /\ sessions'[k] \in Session
           /\ sessions'[k].status = "live" => sessions'[k] = sessions[k] /\ sessions[k].user # u
    <2> SUFFICES ASSUME NEW k \in DOMAIN sessions
                 PROVE  /\ sessions'[k] \in Session
                        /\ sessions'[k].status = "live" =>
                              sessions'[k] = sessions[k] /\ sessions[k].user # u
      OBVIOUS
    <2>1. sessions[k] \in Session
      BY SessionTyped DEF Inductive
    <2>2. /\ [sessions[k] EXCEPT !.status = "revoked"] \in Session
          /\ [sessions[k] EXCEPT !.status = "revoked"].status = "revoked"
      BY <2>1 DEF Session
    <2>q. QED BY <1>8, <2>1, <2>2
  <1>10. sessions' \in Seq(Session)
    <2>1. sessions \in Seq(Session)
      BY DEF Inductive, RowsTyped
    <2>2. Len(sessions) \in Nat /\ DOMAIN sessions = 1 .. Len(sessions)
      BY <2>1
    <2>3. sessions' \in [1 .. Len(sessions) -> Session]
      BY <1>1, <1>9, <2>2 DEF Revoked
    <2>q. QED BY <2>2, <2>3, SeqDef
  <1>11. \A v : Conferred(v)' = Conferred(v)
    BY <1>2 DEF Conferred, GroupsOf
  <1>12. \A p \in Slots : tx[p].revoke \ {u} \subseteq tx'[p].revoke
    BY <1>4, <1>6
  <1>13. SessionsReflectGroups'
    <2> SUFFICES ASSUME NEW k \in DOMAIN sessions, sessions'[k].status = "live"
                 PROVE  (\/ sessions[k].conferred = Conferred(sessions[k].user)
                         \/ sessions[k].user \in missed
                         \/ \E p \in Slots : sessions[k].user \in tx[p].revoke)'
      BY <1>8 DEF SessionsReflectGroups
    <2>1. sessions'[k] = sessions[k] /\ sessions[k].user # u /\ sessions[k].status = "live"
      BY <1>9
    <2>2. \/ sessions[k].conferred = Conferred(sessions[k].user)
          \/ sessions[k].user \in missed
          \/ \E p \in Slots : sessions[k].user \in tx[p].revoke
      BY <2>1 DEF Inductive, SessionsReflectGroups
    <2>q. QED BY <1>1, <1>11, <1>12, <2>1, <2>2
  <1>q. QED BY <1>2, <1>7, <1>10, <1>13 DEF Inductive, RowsTyped, ServedTyped,
       InactiveNotServed

\* A crash misses the revocations that its request owed.
LEMMA CrashKeeps ==
    ASSUME Inductive, NEW q \in Slots, Crash(q)
    PROVE  Inductive'
  <1>1. /\ served' = {} /\ tx' = [tx EXCEPT ![q] = Idle]
        /\ missed' = missed \cup tx[q].revoke
        /\ UNCHANGED <<users, groups, logins, sessions>>
    BY DEF Crash
  <1>2. tx[q].revoke \subseteq Users
    BY DEF Inductive, RequestsTyped, Request
  <1>3. missed' \in SUBSET Users
    BY <1>1, <1>2 DEF Inductive, RequestsTyped
  <1>4. /\ RequestsTyped' /\ Owing'
        /\ \A p \in Slots : tx'[p] = IF p = q THEN Idle ELSE tx[p]
    BY <1>1, <1>3, IdleTyped
  <1>5. \A u : Conferred(u)' = Conferred(u)
    BY <1>1 DEF Conferred, GroupsOf
  <1>6. SessionsReflectGroups'
    BY <1>1, <1>4, <1>5 DEF Inductive, SessionsReflectGroups
  <1>q. QED BY <1>1, <1>4, <1>6 DEF Inductive, RowsTyped, ServedTyped, InactiveNotServed

\* The rows of users change, and a deactivation owes a revocation.
LEMMA UserStepKeeps ==
    ASSUME Inductive, NEW q \in Slots, NEW u \in Users,
           \/ DeleteUser(q, u)
           \/ \E active \in BOOLEAN, grants \in GrantSets :
                 CreateUser(q, u, active, grants) \/ ChangeUser(q, u, active, grants)
    PROVE  Inductive'
  <1>1. CASE DeleteUser(q, u)
    <2>1. users' \in [Users -> [exists : BOOLEAN, active : BOOLEAN, grants : SUBSET Grants]]
      BY <1>1 DEF DeleteUser, Inductive, RowsTyped
    <2>2. ThenRevoke(q, {u}) /\ UNCHANGED <<groups, logins, sessions, missed>>
      BY <1>1 DEF DeleteUser
    <2>q. QED BY <2>1, <2>2, UserChangeKeeps
  <1>2. CASE \E active \in BOOLEAN, grants \in GrantSets :
                CreateUser(q, u, active, grants) \/ ChangeUser(q, u, active, grants)
    <2>1. PICK active \in BOOLEAN, grants \in GrantSets :
             CreateUser(q, u, active, grants) \/ ChangeUser(q, u, active, grants)
      BY <1>2
    <2>2. grants \subseteq Grants
      BY AccessAssumption
    <2>3. /\ users' = [users EXCEPT ![u] = [exists |-> TRUE, active |-> active, grants |-> grants]]
          /\ UNCHANGED <<groups, logins, sessions, missed>>
      BY <2>1 DEF CreateUser, ChangeUser
    <2>4. users' \in [Users -> [exists : BOOLEAN, active : BOOLEAN, grants : SUBSET Grants]]
      BY <2>2, <2>3 DEF Inductive, RowsTyped
    <2>5. ThenRevoke(q, {}) \/ ThenRevoke(q, {u})
      BY <2>1 DEF CreateUser, ChangeUser
    <2>q. QED BY <2>3, <2>4, <2>5, UserChangeKeeps
  <1>q. QED BY <1>1, <1>2

\* The request to create or replace a group affects its members before and after.
LEMMA PutGroupKeeps ==
    ASSUME Inductive, NEW q \in Slots, NEW g \in Groups, NEW grants \in GrantSets,
           NEW members \in SUBSET Users, PutGroup(q, g, grants, members)
    PROVE  Inductive'
  <1> DEFINE row == [exists |-> TRUE, grants |-> grants, members |-> members]
             affected == Affected(groups[g].members, members)
  <1>1. row \in [exists : BOOLEAN, grants : SUBSET Grants, members : SUBSET Users]
    BY AccessAssumption
  <1>2. affected \in SUBSET Users
    BY DEF Affected, Inductive, RowsTyped
  <1>3. groups[g].members \subseteq affected /\ row.members \subseteq affected
    BY DEF Affected
  <1>4. /\ groups' = [groups EXCEPT ![g] = row] /\ ThenRevoke(q, affected)
        /\ UNCHANGED <<users, logins, sessions, missed>>
    BY DEF PutGroup
  <1> HIDE DEF row, affected
  <1>q. QED BY <1>1, <1>2, <1>3, <1>4, GroupChangeKeeps

\* Every element of a sequence of T is in T.
LEMMA Elements ==
    ASSUME NEW T, NEW ops \in Seq(T)
    PROVE  \A k \in DOMAIN ops : ops[k] \in T
  OBVIOUS

\* A PATCH collects the members before it and those after it.
LEMMA PatchGroupKeeps ==
    ASSUME Inductive, NEW q \in Slots, NEW g \in Groups, NEW grants \in GrantSets,
           NEW ops \in Patches, PatchGroup(q, g, grants, ops)
    PROVE  Inductive'
  <1> DEFINE row == [exists |-> TRUE, grants |-> grants, members |-> MembersAfter(g, ops)]
             affected == Collected(g, ops)
  <1>1. ops \in Seq([op : {"add", "replace", "remove"}, users : SUBSET Users])
    BY AccessAssumption
  <1>2. \A k \in DOMAIN ops : Given(ops[k]) \subseteq Users
    <2>1. \A k \in DOMAIN ops :
             ops[k] \in [op : {"add", "replace", "remove"}, users : SUBSET Users]
      BY <1>1, Elements
    <2>q. QED BY <2>1 DEF Given
  <1>3. groups[g].members \subseteq Users
    BY DEF Inductive, RowsTyped
  <1>4. affected \in SUBSET Users /\ groups[g].members \subseteq affected
    BY <1>2, <1>3 DEF Collected
  <1>5. MembersAfter(g, ops) \subseteq affected
    <2>1. CASE ops = <<>>
      BY <2>1, <1>4 DEF MembersAfter
    <2>2. CASE ops # <<>>
      <3>1. Len(ops) \in DOMAIN ops
        BY <1>1, <2>2
      <3>2. Given(ops[Len(ops)]) \subseteq affected
        BY <3>1 DEF Collected
      <3>q. QED BY <2>2, <3>2 DEF MembersAfter
    <2>q. QED BY <2>1, <2>2
  <1>6. grants \subseteq Grants
    BY AccessAssumption
  <1>7. row \in [exists : BOOLEAN, grants : SUBSET Grants, members : SUBSET Users]
    BY <1>4, <1>5, <1>6
  <1>8. row.members \subseteq affected
    BY <1>5
  <1>9. /\ groups' = [groups EXCEPT ![g] = row] /\ ThenRevoke(q, affected)
        /\ UNCHANGED <<users, logins, sessions, missed>>
    BY DEF PatchGroup
  <1> HIDE DEF row, affected
  <1>q. QED BY <1>4, <1>7, <1>8, <1>9, GroupChangeKeeps

\* The members of a deleted group lose what it conferred.
LEMMA DeleteGroupKeeps ==
    ASSUME Inductive, NEW q \in Slots, NEW g \in Groups, DeleteGroup(q, g)
    PROVE  Inductive'
  <1>1. /\ NoGroup \in [exists : BOOLEAN, grants : SUBSET Grants, members : SUBSET Users]
        /\ NoGroup.members = {}
    BY DEF NoGroup
  <1>2. groups[g].members \in SUBSET Users
    BY DEF Inductive, RowsTyped
  <1>3. /\ groups' = [groups EXCEPT ![g] = NoGroup] /\ ThenRevoke(q, groups[g].members)
        /\ UNCHANGED <<users, logins, sessions, missed>>
    BY DEF DeleteGroup
  <1>q. QED BY <1>1, <1>2, <1>3, GroupChangeKeeps

-----------------------------------------------------------------------------
(* Theorems.                                                               *)

\* Every step keeps the invariant.
LEMMA NextKeeps == Inductive /\ [Next]_vars => Inductive'
  <1> SUFFICES ASSUME Inductive, [Next]_vars PROVE Inductive'
    OBVIOUS
  <1>1. CASE \E l \in Logins : Login(l) \/ ExpireLogin(l) \/ ExchangeFails(l)
    BY <1>1, LoginKeeps
  <1>2. CASE \E s \in DOMAIN sessions : UseSession(s) \/ Logout(s) \/ ExpireSession(s)
    BY <1>2, UseSessionKeeps, EndSessionKeeps
  <1>3. ASSUME NEW q \in Slots,
               \E l \in Logins, u \in Users, claimed \in Claims : BeginCallback(q, l, u, claimed)
        PROVE  Inductive'
    BY <1>3, BeginCallbackKeeps
  <1>4. ASSUME NEW q \in Slots, EndCallback(q) \/ RevokeSessions(q) \/ Crash(q)
        PROVE  Inductive'
    BY <1>4, EndCallbackKeeps, RevokeSessionsKeeps, CrashKeeps
  <1>5. ASSUME NEW q \in Slots,
               \/ \E u \in Users, active \in BOOLEAN, grants \in GrantSets :
                     CreateUser(q, u, active, grants) \/ ChangeUser(q, u, active, grants)
               \/ \E u \in Users : DeleteUser(q, u)
        PROVE  Inductive'
    BY <1>5, UserStepKeeps
  <1>6. ASSUME NEW q \in Slots,
               \/ \E g \in Groups, grants \in GrantSets, members \in SUBSET Users :
                     PutGroup(q, g, grants, members)
               \/ \E g \in Groups, grants \in GrantSets, ops \in Patches :
                     PatchGroup(q, g, grants, ops)
               \/ \E g \in Groups : DeleteGroup(q, g)
        PROVE  Inductive'
    BY <1>6, PutGroupKeeps, PatchGroupKeeps, DeleteGroupKeeps
  <1>7. CASE UNCHANGED vars
    <2>1. \A u : Conferred(u)' = Conferred(u)
      BY <1>7 DEF vars, Conferred, GroupsOf
    <2>2. SessionsReflectGroups'
      BY <1>7, <2>1 DEF vars, Inductive, SessionsReflectGroups
    <2>q. QED BY <1>7, <2>2 DEF vars, Inductive, RowsTyped, RequestsTyped, Owing,
         ServedTyped, InactiveNotServed
  <1>q. QED BY <1>1, <1>2, <1>3, <1>4, <1>5, <1>6, <1>7 DEF Next

\* The invariant holds always.
THEOREM AccessInductive == Spec => []Inductive
  BY InitInductive, NextKeeps, PTL DEF Spec

\* Every variable keeps its type.
THEOREM AccessTypeOK == Spec => []TypeOK
  <1>1. Inductive => TypeOK
    BY DEF Inductive, RowsTyped, RequestsTyped, Request, ServedTyped, TypeOK
  <1>q. QED BY <1>1, AccessInductive, PTL

\* A session that is admitted belongs to an active user, whenever the user was
\* deactivated and whether or not the revocation got that far.
THEOREM OnlyActiveServed == Spec => []InactiveNotServed
  <1>1. Inductive => InactiveNotServed
    BY DEF Inductive
  <1>q. QED BY <1>1, AccessInductive, PTL

\* A live session has what its user's groups confer now, or a request owes its
\* revocation, or a crash or a callback in flight has missed it.
THEOREM GroupsReflected == Spec => []SessionsReflectGroups
  <1>1. Inductive => SessionsReflectGroups
    BY DEF Inductive
  <1>q. QED BY <1>1, AccessInductive, PTL

=============================================================================
