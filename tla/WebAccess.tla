------------------------------- MODULE WebAccess -------------------------------
(***************************************************************************)
(* Browser access of a trusted-team installation                           *)
(* (apps/server/src/security/trusted-web-access-service.ts, auth-service): *)
(* setup and recovery of the installation owner, replacement of the        *)
(* recovery key, invitations, recovery codes for members, and Web          *)
(* sessions.  Requests may be repeated when their response is lost.        *)
(***************************************************************************)
EXTENDS Naturals, FiniteSets

CONSTANTS Users, Teams,
          Sessions,     \* Web session ids
          Invitations, Recoveries,
          Keys,         \* recovery keys; FirstKey is the configured one
          FirstKey,
          MaxRevision,  \* bound on replacements of the key
          Installs      \* the users and memberships an installation may start with

None == "none"

AccessAssumption ==
  /\ FirstKey \in Keys /\ MaxRevision \in Nat /\ None \notin Users \cup Teams
  /\ \A i \in Installs : i.users \subseteq Users /\ i.owns \subseteq i.users \X Teams

VARIABLES users,    \* web_users
          members,  \* team_members: <<user, team, role>>
          owner,    \* system_metadata: the installation owner
          key,      \* web_owner_recovery_credentials
          session,  \* web_sessions
          invite, recovery,
          sent,     \* replacements whose response may be lost
          late      \* invitations and recoveries whose time is up

vars == <<users, members, owner, key, session, invite, recovery, sent, late>>

Live(x) == session[x].state = "live"
requireFullWebSession(x) == Live(x) /\ session[x].by # "client"
isInstallationOwner(u) == u = owner
roleIn(u, t, role) == <<u, t, role>> \in members

-----------------------------------------------------------------------------
(* Sessions. *)

\* issueWebSession, after the sessions of the users in revoke were revoked; by is
\* the recovery key or the kind of entry
issueWebSession(u, revoke, by) ==
  LET free == {x \in Sessions : session[x].state = "free"}
      new == CHOOSE x \in free : TRUE
  IN /\ free # {}
     /\ session' = [y \in Sessions |->
          IF y = new THEN [state |-> "live", user |-> u, by |-> by]
          ELSE IF Live(y) /\ session[y].user \in revoke THEN [session[y] EXCEPT !.state = "revoked"]
          ELSE session[y]]

SignOut(x) ==
  /\ Live(x) /\ session' = [session EXCEPT ![x].state = "revoked"]
  /\ UNCHANGED <<users, members, owner, key, invite, recovery, sent, late>>

\* A ticket from a paired Device of the user.
ClientEntry(u) ==
  /\ u \in users /\ issueWebSession(u, {}, "client")
  /\ UNCHANGED <<users, members, owner, key, invite, recovery, sent, late>>

\* Thirty days.
SessionExpires(x) ==
  /\ Live(x) /\ session' = [session EXCEPT ![x].state = "expired"]
  /\ UNCHANGED <<users, members, owner, key, invite, recovery, sent, late>>

-----------------------------------------------------------------------------
(* The installation owner. *)

\* Mutant: the owner key of an earlier revision is accepted as well.
requireRecoveryTokenAny(k) == k \in {key.hash, FirstKey}

requireRecoveryToken(k) == k = key.hash

\* The one owner there is, the one user nobody added to a Team, or a new user.
ownerCandidates ==
  LET owners == {u \in users : \E t \in Teams : roleIn(u, t, "owner")} IN
  CASE Cardinality(owners) = 1 -> owners
    [] owners = {} /\ Cardinality(users) = 1 /\ members = {} -> users
    [] owners = {} /\ users = {} /\ members = {} -> {CHOOSE u \in Users : TRUE}
    [] OTHER -> {}

setupOpen == owner = None

\* Mutant: the user is not kept.
SetupUnkept(k) ==
  /\ requireRecoveryToken(k) /\ setupOpen
  /\ \E u \in ownerCandidates : owner' = u /\ issueWebSession(u, {u}, k)
  /\ UNCHANGED <<users, members, key, invite, recovery, sent, late>>

Setup(k) ==
  /\ requireRecoveryToken(k) /\ setupOpen
  /\ \E u \in ownerCandidates :
       /\ users' = users \cup {u} /\ owner' = u
       /\ issueWebSession(u, {u}, k)
  /\ UNCHANGED <<members, key, invite, recovery, sent, late>>

Recover(k) ==
  /\ requireRecoveryToken(k) /\ owner # None
  /\ issueWebSession(owner, {owner}, k)
  /\ UNCHANGED <<users, members, owner, key, invite, recovery, sent, late>>

\* The owner asks for a new key; the revision is the one the page shows.
SendReplace(x, k) ==
  /\ requireFullWebSession(x) /\ isInstallationOwner(session[x].user) /\ k # key.hash
  /\ key.revision < MaxRevision
  /\ sent' = sent \cup {[session |-> x, key |-> k, expected |-> key.revision]}
  /\ UNCHANGED <<users, members, owner, key, session, invite, recovery, late>>

revokeOtherWebSessionsForUser(x) ==
  [y \in Sessions |-> IF y # x /\ Live(y) /\ session[y].user = session[x].user
                      THEN [session[y] EXCEPT !.state = "revoked"] ELSE session[y]]

\* Mutant: a repeated replacement is carried out again.
replacedBeforeRevokes(r) ==
  /\ key.revision = r.expected + 1 /\ key.hash = r.key
  /\ session' = revokeOtherWebSessionsForUser(r.session)

\* The exact request again: nothing changes.
replacedBefore(r) ==
  /\ key.revision = r.expected + 1 /\ key.hash = r.key
  /\ UNCHANGED session

\* replaceOwnerRecovery
Replace(r) ==
  /\ requireFullWebSession(r.session) /\ isInstallationOwner(session[r.session].user)
  /\ \/ replacedBefore(r) /\ UNCHANGED key
     \/ /\ key.revision = r.expected /\ key.hash # r.key
        /\ key' = [hash |-> r.key, revision |-> r.expected + 1]
        /\ session' = revokeOtherWebSessionsForUser(r.session)
  /\ UNCHANGED <<users, members, owner, invite, recovery, sent, late>>

-----------------------------------------------------------------------------
(* Teams, invitations and recovery codes. *)

\* A signed-in user creates a Team and owns it.
CreateTeam(x, t) ==
  /\ requireFullWebSession(x) /\ \A u \in Users, role \in {"owner", "member"} : ~roleIn(u, t, role)
  /\ members' = members \cup {<<session[x].user, t, "owner">>}
  /\ UNCHANGED <<users, owner, key, session, invite, recovery, sent, late>>

requireRecoveryOwner(x, t) == requireFullWebSession(x) /\ roleIn(session[x].user, t, "owner")

\* createMemberInvitation
Invite(i, x, t) ==
  /\ invite[i].state = "free" /\ requireRecoveryOwner(x, t)
  /\ invite' = [invite EXCEPT ![i] = [state |-> "open", team |-> t]]
  /\ UNCHANGED <<users, members, owner, key, session, recovery, sent, late>>

\* Mutant: a claimed invitation can be claimed again.
claimableAgain(i) == invite[i].state \in {"open", "claimed"} /\ i \notin late

claimable(i) == invite[i].state = "open" /\ i \notin late

\* claimMemberInvitation: a new user, the membership and a session.
ClaimInvitation(i) ==
  /\ claimable(i) /\ users # Users
  /\ LET u == CHOOSE u \in Users : u \notin users IN
       /\ users' = users \cup {u}
       /\ members' = members \cup {<<u, invite[i].team, "member">>}
       /\ invite' = [invite EXCEPT ![i].state = "claimed"]
       /\ issueWebSession(u, {}, "invitation")
  /\ UNCHANGED <<owner, key, recovery, sent, late>>

\* An ordinary member of this Team alone, and not the installation owner.
recoverableMember(u, t) ==
  /\ roleIn(u, t, "member") /\ u # owner
  /\ {m \in members : m[1] = u} = {<<u, t, "member">>}

\* Mutant: earlier codes stay good.
openRecoveriesKept(u) == {}

openRecoveries(u) == {r \in Recoveries : recovery[r].state = "open" /\ recovery[r].user = u}

\* createMemberRecovery: earlier codes of the user are revoked.
CreateRecovery(r, x, u, t) ==
  /\ recovery[r].state = "free" /\ requireRecoveryOwner(x, t) /\ recoverableMember(u, t)
  /\ recovery' = [q \in Recoveries |->
       IF q = r THEN [state |-> "open", user |-> u, team |-> t, by |-> session[x].user]
       ELSE IF q \in openRecoveries(u) THEN [recovery[q] EXCEPT !.state = "revoked"]
       ELSE recovery[q]]
  /\ UNCHANGED <<users, members, owner, key, session, invite, sent, late>>

RevokeRecovery(r, x) ==
  /\ recovery[r].state = "open" /\ requireRecoveryOwner(x, recovery[r].team)
  /\ recovery' = [recovery EXCEPT ![r].state = "revoked"]
  /\ UNCHANGED <<users, members, owner, key, session, invite, sent, late>>

\* Mutant: who may be recovered is only checked when the code is made.
stillRecoverableAsMade(q) == TRUE

stillRecoverable(q) == recoverableMember(q.user, q.team) /\ roleIn(q.by, q.team, "owner")

\* claimMemberRecovery
ClaimRecovery(r) ==
  LET q == recovery[r] IN
  /\ q.state = "open" /\ r \notin late /\ stillRecoverable(q)
  /\ recovery' = [recovery EXCEPT ![r].state = "consumed"]
  /\ issueWebSession(q.user, {q.user}, "recovery")
  /\ UNCHANGED <<users, members, owner, key, invite, sent, late>>

TimePasses(x) ==
  /\ x \notin late
  /\ \/ x \in Invitations /\ invite[x].state = "open"
     \/ x \in Recoveries /\ recovery[x].state = "open"
  /\ late' = late \cup {x}
  /\ UNCHANGED <<users, members, owner, key, session, invite, recovery, sent>>

Init ==
  /\ \E i \in Installs : users = i.users /\ members = {<<p[1], p[2], "owner">> : p \in i.owns}
  /\ owner = None /\ key = [hash |-> FirstKey, revision |-> 0]
  /\ session = [x \in Sessions |-> [state |-> "free", user |-> None, by |-> None]]
  /\ invite = [i \in Invitations |-> [state |-> "free", team |-> None]]
  /\ recovery = [r \in Recoveries |-> [state |-> "free", user |-> None, team |-> None, by |-> None]]
  /\ sent = {} /\ late = {}

Next ==
  \/ \E k \in Keys : Setup(k) \/ Recover(k)
  \/ \E u \in Users : ClientEntry(u)
  \/ \E x \in Sessions :
       \/ SignOut(x) \/ SessionExpires(x)
       \/ \E k \in Keys : SendReplace(x, k)
       \/ \E t \in Teams :
            \/ CreateTeam(x, t)
            \/ \E i \in Invitations : Invite(i, x, t)
            \/ \E r \in Recoveries, u \in Users : CreateRecovery(r, x, u, t)
       \/ \E r \in Recoveries : RevokeRecovery(r, x)
  \/ \E r \in sent : Replace(r)
  \/ \E i \in Invitations : ClaimInvitation(i)
  \/ \E r \in Recoveries : ClaimRecovery(r)
  \/ \E x \in Invitations \cup Recoveries : TimePasses(x)

Spec == Init /\ [][Next]_vars

-----------------------------------------------------------------------------
(* Properties. *)

AccessTypeOK ==
  /\ users \subseteq Users /\ members \subseteq users \X Teams \X {"owner", "member"}
  /\ owner \in users \cup {None} /\ key.hash \in Keys /\ key.revision \in 0..MaxRevision
  /\ \A x \in Sessions : session[x].state # "free" => session[x].user \in users

\* Repeating a replacement whose response was lost signs nobody out: sessions end
\* by themselves, by a new key or by a session that is issued in their place.
RetryKeepsSessionsStep ==
  \A x \in Sessions :
    Live(x) /\ session'[x].state = "revoked" =>
    \/ \A y \in Sessions \ {x} : session'[y] = session[y]
    \/ key' # key
    \/ \E y \in Sessions : session[y].state = "free" /\ session'[y].state = "live"
RetryKeepsSessions == [][RetryKeepsSessionsStep]_vars

\* Every full session the owner has was opened with the key as it is now, or is
\* the one that replaced it.
OldKeyOpensNothing ==
  \A x \in Sessions : requireFullWebSession(x) /\ session[x].user = owner =>
    \/ session[x].by = key.hash
    \/ \E r \in sent : r.session = x /\ r.expected + 1 = key.revision

\* At most one recovery code of a user is good at any time.
OneRecoveryCode ==
  \A q, r \in Recoveries :
    recovery[q].state = "open" /\ recovery[r].state = "open" /\ recovery[q].user = recovery[r].user
      => q = r

\* A recovery code opens a session for nobody who has come to own a Team or belongs
\* to a second one since it was made, for a session covers the whole user.
RecoveryStaysInTeamStep ==
  \A r \in Recoveries :
    recovery[r].state = "open" /\ recovery'[r].state = "consumed" =>
    {m \in members : m[1] = recovery[r].user} =
      {<<recovery[r].user, recovery[r].team, "member">>}
RecoveryStaysInTeam == [][RecoveryStaysInTeamStep]_vars

\* An invitation makes one member.
OneMemberPerInvitation ==
  Cardinality({m \in members : m[3] = "member"}) <=
    Cardinality({i \in Invitations : invite[i].state = "claimed"})
=============================================================================
