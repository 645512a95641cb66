------------------------------- MODULE Access -------------------------------
(***************************************************************************)
(* Browser sessions and the SCIM provisioning of users and groups.  A      *)
(* callback of the identity provider ends a login and opens a session with *)
(* the roles its user has then.  A SCIM request commits its change first   *)
(* and revokes the sessions of the users it affects afterwards, each in a  *)
(* transaction of its own; in between the process may die.                 *)
(***************************************************************************)
EXTENDS Naturals, Sequences, FiniteSets, SequencesExt

CONSTANTS
    Users,
    Groups,
    Roles,
    Workspace,      \* the workspace that the identity provider claims
    Claims,         \* the sets of roles it may claim
    GrantSets,      \* what SCIM may grant a user or a group
    Logins,
    Slots,          \* requests that are served at the same time
    Patches,        \* lists of member operations that a PATCH may carry
    AutoProvision,  \* settings.oidc_auto_provision
    Crashes,        \* whether processes die
    MaxSessions

Grants == Roles \cup {Workspace}

ASSUME AccessAssumption ==
    /\ Workspace \notin Roles
    /\ Claims \subseteq SUBSET Roles
    /\ GrantSets \subseteq SUBSET Grants
    /\ Patches \subseteq Seq([op : {"add", "replace", "remove"}, users : SUBSET Users])
    /\ AutoProvision \in BOOLEAN /\ Crashes \in BOOLEAN
    /\ MaxSessions \in Nat

VARIABLES
    users,      \* IdentityUser rows
    groups,     \* IdentityGroup rows with their members
    logins,     \* OidcLogin rows
    sessions,   \* BrowserSession rows
    tx,         \* what each slot is doing
    served,     \* history: the session that was admitted by the last step
    missed      \* history: the users with a session that a revocation missed

vars == <<users, groups, logins, sessions, tx, served, missed>>

NoUser == [exists |-> FALSE, active |-> FALSE, grants |-> {}]
NoGroup == [exists |-> FALSE, grants |-> {}, members |-> {}]
Idle == [op |-> "idle", revoke |-> {}, session |-> <<>>, new |-> FALSE]

Init ==
    /\ users = [u \in Users |-> NoUser]
    /\ groups = [g \in Groups |-> NoGroup]
    /\ logins = [l \in Logins |-> "none"]
    /\ sessions = <<>>
    /\ tx = [q \in Slots |-> Idle]
    /\ served = {}
    /\ missed = {}

\* --- logins ---------------------------------------------------------------

GroupsOf(u) == {g \in Groups : u \in groups[g].members}

\* provisioned_entitlements
Entitlements(u) == users[u].grants \cup UNION {groups[g].grants : g \in GroupsOf(u)}

\* What the user's groups confer: the part of a session's roles that a group
\* change makes obsolete.
Conferred(u) == {<<g, groups[g].grants>> : g \in GroupsOf(u)}

Widened(u, claimed) == claimed \cup Entitlements(u)
SessionRoles(u, claimed) ==
    IF ~users[u].exists \/ Entitlements(u) \cap Roles = {} THEN claimed
    ELSE claimed \cap Entitlements(u)

Login(l) ==
    /\ logins[l] = "none"
    /\ logins' = [logins EXCEPT ![l] = "started"]
    /\ served' = {}
    /\ UNCHANGED <<users, groups, sessions, tx, missed>>

\* A login is valid for ten minutes.
ExpireLogin(l) ==
    /\ logins[l] = "started"
    /\ logins' = [logins EXCEPT ![l] = "expired"]
    /\ served' = {}
    /\ UNCHANGED <<users, groups, sessions, tx, missed>>

\* The code exchange fails: the login is used up.
ExchangeFails(l) ==
    /\ logins[l] = "started"
    /\ logins' = [logins EXCEPT ![l] = "consumed"]
    /\ served' = {}
    /\ UNCHANGED <<users, groups, sessions, tx, missed>>

\* callback, up to its commit: an inactive user, and one without the workspace,
\* is refused and leaves the login as it was.
BeginCallback(q, l, u, claimed) ==
    /\ tx[q] = Idle
    /\ logins[l] = "started"
    /\ IF users[u].exists THEN users[u].active /\ Workspace \in Entitlements(u)
       ELSE AutoProvision
    /\ tx' = [tx EXCEPT ![q] =
                [op |-> "callback", revoke |-> {}, new |-> ~users[u].exists,
                 session |-> [login |-> l, user |-> u, status |-> "live",
                              roles |-> SessionRoles(u, claimed),
                              conferred |-> Conferred(u)]]]
    /\ served' = {}
    /\ UNCHANGED <<users, groups, logins, sessions, missed>>

\* Its commit.  (issuer, subject) of a new user is UNIQUE.
Consumed(l) == [logins EXCEPT ![l] = "consumed"]
EndCallback(q) ==
    LET s == tx[q].session
    IN  /\ tx[q].op = "callback"
        /\ tx' = [tx EXCEPT ![q] = Idle]
        /\ served' = {}
        /\ \/ /\ Len(sessions) < MaxSessions
              /\ ~(tx[q].new /\ users[s.user].exists)
              /\ logins' = Consumed(s.login)
              /\ sessions' = Append(sessions, s)
              /\ users' = IF tx[q].new
                          THEN [users EXCEPT ![s.user] =
                                  [exists |-> TRUE, active |-> TRUE,
                                   grants |-> s.roles \cup {Workspace}]]
                          ELSE users
              /\ missed' = IF s.conferred = Conferred(s.user) THEN missed
                           ELSE missed \cup {s.user}
           \/ /\ tx[q].new /\ users[s.user].exists
              /\ UNCHANGED <<logins, sessions, users, missed>>
        /\ UNCHANGED groups

\* --- sessions -------------------------------------------------------------

AnyUser(s) == TRUE
Admitted(s) == users[sessions[s].user].active

\* session_principal: the session of an inactive user is revoked on sight.
UseSession(s) ==
    /\ sessions[s].status = "live"
    /\ \/ Admitted(s) /\ served' = {s} /\ sessions' = sessions
       \/ /\ ~Admitted(s)
          /\ served' = {}
          /\ sessions' = [sessions EXCEPT ![s].status = "revoked"]
    /\ UNCHANGED <<users, groups, logins, tx, missed>>

Logout(s) ==
    /\ sessions[s].status # "revoked"
    /\ sessions' = [sessions EXCEPT ![s].status = "revoked"]
    /\ served' = {}
    /\ UNCHANGED <<users, groups, logins, tx, missed>>

ExpireSession(s) ==
    /\ sessions[s].status = "live"
    /\ sessions' = [sessions EXCEPT ![s].status = "expired"]
    /\ served' = {}
    /\ UNCHANGED <<users, groups, logins, tx, missed>>

\* --- SCIM -----------------------------------------------------------------

\* The request goes on with the revocation of these users' sessions.
Owes(affected) ==
    IF affected = {} THEN Idle
    ELSE [op |-> "revoke", revoke |-> affected, session |-> <<>>, new |-> FALSE]
ThenRevoke(q, affected) ==
    /\ tx[q] = Idle
    /\ tx' = [tx EXCEPT ![q] = Owes(affected)]
    /\ served' = {}

CreateUser(q, u, active, grants) ==
    /\ ~users[u].exists
    /\ users' = [users EXCEPT ![u] = [exists |-> TRUE, active |-> active, grants |-> grants]]
    /\ ThenRevoke(q, {})
    /\ UNCHANGED <<groups, logins, sessions, missed>>

\* replace_user and patch_user: only a deactivation revokes.
ChangeUser(q, u, active, grants) ==
    /\ users[u].exists
    /\ users' = [users EXCEPT ![u] = [exists |-> TRUE, active |-> active, grants |-> grants]]
    /\ ThenRevoke(q, IF users[u].active /\ ~active THEN {u} ELSE {})
    /\ UNCHANGED <<groups, logins, sessions, missed>>

\* delete_user keeps the row.
DeleteUser(q, u) ==
    /\ users[u].exists
    /\ users' = [users EXCEPT ![u].active = FALSE]
    /\ ThenRevoke(q, {u})
    /\ UNCHANGED <<groups, logins, sessions, missed>>

\* Whom a group's change from the members old to new affects.
OnlyNew(old, new) == new
Affected(old, new) == old \cup new

\* create_group and replace_group; the members exist.
PutGroup(q, g, grants, members) ==
    /\ \A u \in members : users[u].exists
    /\ groups' = [groups EXCEPT ![g] = [exists |-> TRUE, grants |-> grants, members |-> members]]
    /\ ThenRevoke(q, Affected(groups[g].members, members))
    /\ UNCHANGED <<users, logins, sessions, missed>>

\* patch_group collects for revocation the members at its start and those that
\* its operations give.  An addition starts from all it has collected, so the
\* last operation decides who is a member.
Given(op) == IF op.op = "remove" THEN {} ELSE op.users
Collected(g, ops) ==
    groups[g].members \cup UNION {Given(ops[k]) : k \in DOMAIN ops}
MembersAfter(g, ops) ==
    IF ops = <<>> THEN groups[g].members
    ELSE IF ops[Len(ops)].op = "add" THEN Collected(g, ops)
    ELSE Given(ops[Len(ops)])

PatchGroup(q, g, grants, ops) ==
    /\ groups[g].exists
    /\ \A k \in DOMAIN ops : \A u \in Given(ops[k]) : users[u].exists
    /\ groups' = [groups EXCEPT ![g] = [exists |-> TRUE, grants |-> grants,
                                        members |-> MembersAfter(g, ops)]]
    /\ ThenRevoke(q, Collected(g, ops))
    /\ UNCHANGED <<users, logins, sessions, missed>>

DeleteGroup(q, g) ==
    /\ groups[g].exists
    /\ groups' = [groups EXCEPT ![g] = NoGroup]
    /\ ThenRevoke(q, groups[g].members)
    /\ UNCHANGED <<users, logins, sessions, missed>>

\* revoke_identity_sessions, for one user after the other.
Revoked(u) ==
    [s \in DOMAIN sessions |->
        IF sessions[s].user = u /\ sessions[s].status # "revoked"
        THEN [sessions[s] EXCEPT !.status = "revoked"] ELSE sessions[s]]
RevokeSessions(q) ==
    /\ tx[q].op = "revoke"
    /\ \E u \in tx[q].revoke :
          /\ sessions' = Revoked(u)
          /\ tx' = [tx EXCEPT ![q] = Owes(tx[q].revoke \ {u})]
          /\ missed' = missed \ {u}
    /\ served' = {}
    /\ UNCHANGED <<users, groups, logins>>

\* The process dies: what it has committed stays.
Crash(q) ==
    /\ Crashes
    /\ tx[q] # Idle
    /\ tx' = [tx EXCEPT ![q] = Idle]
    /\ served' = {}
    /\ missed' = missed \cup tx[q].revoke
    /\ UNCHANGED <<users, groups, logins, sessions>>

\* --- specification --------------------------------------------------------

Next ==
    \/ \E l \in Logins : Login(l) \/ ExpireLogin(l) \/ ExchangeFails(l)
    \/ \E s \in DOMAIN sessions : UseSession(s) \/ Logout(s) \/ ExpireSession(s)
    \/ \E q \in Slots :
          \/ \E l \in Logins, u \in Users, claimed \in Claims : BeginCallback(q, l, u, claimed)
          \/ EndCallback(q)
          \/ \E u \in Users, active \in BOOLEAN, grants \in GrantSets :
                CreateUser(q, u, active, grants) \/ ChangeUser(q, u, active, grants)
          \/ \E u \in Users : DeleteUser(q, u)
          \/ \E g \in Groups, grants \in GrantSets, members \in SUBSET Users :
                PutGroup(q, g, grants, members)
          \/ \E g \in Groups, grants \in GrantSets, ops \in Patches :
                PatchGroup(q, g, grants, ops)
          \/ \E g \in Groups : DeleteGroup(q, g)
          \/ RevokeSessions(q)
          \/ Crash(q)

Spec == Init /\ [][Next]_vars

-----------------------------------------------------------------------------
(* Properties.                                                             *)

Session ==
    [login : Logins, user : Users, status : {"live", "revoked", "expired"},
     roles : SUBSET Roles, conferred : SUBSET (Groups \X SUBSET Grants)]

\* Every variable keeps its type.
TypeOK ==
    /\ users \in [Users -> [exists : BOOLEAN, active : BOOLEAN, grants : SUBSET Grants]]
    /\ groups \in [Groups -> [exists : BOOLEAN, grants : SUBSET Grants, members : SUBSET Users]]
    /\ logins \in [Logins -> {"none", "started", "consumed", "expired"}]
    /\ sessions \in Seq(Session)
    /\ tx \in [Slots -> [op : {"idle", "callback", "revoke"}, revoke : SUBSET Users,
                         session : {<<>>} \cup Session, new : BOOLEAN]]
    /\ served \subseteq DOMAIN sessions
    /\ missed \subseteq Users

\* A session that is admitted belongs to an active user, also if the process
\* died before it revoked the session, or the session was opened by a callback
\* that had read the user before the deactivation.
InactiveNotServed == \A s \in served : users[sessions[s].user].active

\* A live session has what its user's groups confer now: any change of a group
\* or of its members ends the sessions of the members before and after it, or
\* is about to.  What a crash or a callback in flight kept from being revoked,
\* the next change that affects the user ends.
SessionsReflectGroups ==
    \A s \in DOMAIN sessions : sessions[s].status = "live" =>
        \/ sessions[s].conferred = Conferred(sessions[s].user)
        \/ sessions[s].user \in missed
        \/ \E q \in Slots : sessions[s].user \in tx[q].revoke

\* The operations of a PATCH apply one after another: what a removal took away
\* a later addition does not bring back.  It fails: patch_group adds to all
\* the users it has collected for revocation.
InOrder(members, op) ==
    CASE op.op = "add" -> members \cup op.users
      [] op.op = "replace" -> op.users
      [] op.op = "remove" -> {}
PatchAppliesInOrder ==
    [][\A q \in Slots, g \in Groups, grants \in GrantSets, ops \in Patches :
         PatchGroup(q, g, grants, ops) =>
            groups'[g].members = FoldLeft(InOrder, groups[g].members, ops)]_vars

=============================================================================
