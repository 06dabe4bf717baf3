------------------------------- MODULE Lobby -------------------------------
(***************************************************************************)
(* Parties, the matchmaking queue and the connections of the players       *)
(* (party/, pvp/ and the Blaze handlers that use them).                    *)
(*                                                                         *)
(* A party outlives the profiles and connections of its members; a profile *)
(* that is logged in carries a copy of its member's party and game.        *)
(* Handlers of Blaze frames, the cleanup after a connection, the bot fill  *)
(* and a kick hold partyLifecycle while they touch parties and the queue:  *)
(* IsGateFree.  Connections, gameplay and the logout that ends a kick do   *)
(* not, and a job that has steps between which they matter holds the gate  *)
(* as "work".                                                              *)
(*                                                                         *)
(* The queue is for one set of criteria: Expected players in two teams of  *)
(* TeamSize, or, with TeamSize 0, a campaign.  A party's leader is the     *)
(* first of its members, who are in the order they joined.  Parties and    *)
(* the queue each come with an index by user.  Of the games, those that    *)
(* matches make are here.                                                  *)
(***************************************************************************)
EXTENDS Naturals, FiniteSets, SequencesExt

CONSTANTS
  Users,
  Nobody,           \* not a user
  Expected,         \* ExpectedPlayerCount
  TeamSize,
  IsRanked,
  MaximumMembers,   \* of a party
  MaxParties,       \* (bound) parties created
  MaxReservations,  \* (bound) reservations made
  Leavers           \* (bound) players who log out, lose their connection or are kicked

ASSUME LobbyAssumption ==
  /\ Expected \in Nat \ {0} /\ TeamSize \in Nat /\ IsRanked \in BOOLEAN
  /\ MaximumMembers \in Nat \ {0} /\ MaxParties \in Nat /\ MaxReservations \in Nat
  /\ Nobody \notin Users /\ Leavers \subseteq Users

VARIABLES
  active,    \* users whose profile is logged in
  group,     \* the party their profile names, or 0
  game,      \* users whose profile is in a game
  session,   \* the Blaze connection of each user
  preserved, \* pendingPlaygroupLeave: the party of a leave put off, or 0
  cleanup,   \* connections whose end is still to be cleaned up
  parties,   \* the members of each party
  partyIDByUser,
  queue,     \* the reservations
  sessionByUsers, \* the ID of each user's reservation, or 0
  made,      \* how many parties and reservations there have been
  fills,     \* IDs of reservations with a bot fill to come
  work,      \* the job that holds the gate between two steps
  kick       \* the kick in progress, if any

vars == <<active, group, game, session, preserved, cleanup, parties, partyIDByUser,
          queue, sessionByUsers, made, fills, work, kick>>

NoParty == <<>>
NoCleanup == [isDue |-> FALSE, party |-> 0]
NoWork == [kind |-> "none", user |-> Nobody, party |-> 0, roster |-> {}, isFill |-> FALSE]
NoKick == [user |-> Nobody, pc |-> "none", isLive |-> FALSE]

Init ==
  /\ active = {} /\ group = [u \in Users |-> 0] /\ game = {}
  /\ session = [u \in Users |-> "none"] /\ preserved = [u \in Users |-> 0]
  /\ cleanup = [u \in Users |-> NoCleanup]
  /\ parties = [p \in 1 .. MaxParties |-> NoParty] /\ partyIDByUser = [u \in Users |-> 0]
  /\ queue = {} /\ sessionByUsers = [u \in Users |-> 0]
  /\ made = [parties |-> 0, reservations |-> 0]
  /\ fills = {} /\ work = NoWork /\ kick = NoKick

-----------------------------------------------------------------------------
\* Bug variant: nothing serializes the handlers.
IsGateIgnored == TRUE
\* Whether partyLifecycle can be had.
IsGateFree == work = NoWork

\* The request stage of a user's connection is taken by a handler.
IsAtWork(u) == work.user = u /\ work.kind \in {"login", "form", "roster"}
\* requestUser; a stale connection has a profile that is logged out.
HasUser(u) == session[u] \in {"bound", "stale"}
IsInGame(u) == session[u] = "bound" /\ u \in game

Members(p) == ToSet(parties[p])
\* PartyForMember.
PartyOf(u) ==
  LET p == partyIDByUser[u]
  IN  IF p # 0 /\ parties[p] # NoParty THEN p ELSE 0

IsOf(r, u) == u \in ToSet(r.users)
IsQueued(u) == sessionByUsers[u] # 0
\* authenticatedHumanCount.
OnlineCount == Cardinality({u \in Users : session[u] # "none"})

KeepProfiles == UNCHANGED <<active, group, game>>
KeepConnections == UNCHANGED <<session, preserved, cleanup>>
KeepParties == UNCHANGED <<parties, partyIDByUser>>
KeepQueue == UNCHANGED <<queue, sessionByUsers, fills>>

\* Users are taken from an index.
Unindexed(index, users) == [u \in Users |-> IF u \in users THEN 0 ELSE index[u]]

-----------------------------------------------------------------------------
(***************************************************************************)
(* party.Service, with the projection on the profiles.                     *)
(***************************************************************************)
CanClaim(u, p) == u \in active /\ group[u] \in {0, p}
Claimed(u, p) == [group EXCEPT ![u] = p]
\* Bug variant: the profile is not told.
KeptGroups(gone, p) == group
Released(gone, p) ==
  [u \in Users |-> IF u \in gone /\ group[u] = p THEN 0 ELSE group[u]]

IsMember(u, p) == p # 0 /\ u \in Members(p)
PlaceOf(u, p) == CHOOSE i \in DOMAIN parties[p] : parties[p][i] = u
\* completePlaygroupLeave; the next member in line is the leader.
Leave(u, p) ==
  /\ group' = Released({u}, p)
  /\ parties' = [parties EXCEPT ![p] = RemoveAt(@, PlaceOf(u, p))]
  /\ partyIDByUser' = Unindexed(partyIDByUser, {u})
LeaveIfMember(u, p) ==
  IF IsMember(u, p) THEN Leave(u, p) ELSE UNCHANGED group /\ KeepParties

CreateParty(u) ==
  LET p == made.parties + 1
  IN  /\ IsGateFree /\ HasUser(u)
      /\ preserved' = [preserved EXCEPT ![u] = 0]
      /\ \/ /\ PartyOf(u) = 0 /\ CanClaim(u, p) /\ p <= MaxParties
            /\ parties' = [parties EXCEPT ![p] = <<u>>]
            /\ partyIDByUser' = [partyIDByUser EXCEPT ![u] = p]
            /\ group' = Claimed(u, p) /\ made' = [made EXCEPT !.parties = p]
         \/ /\ PartyOf(u) = 0 /\ ~CanClaim(u, p)
            /\ partyIDByUser' = Unindexed(partyIDByUser, {u})
            /\ UNCHANGED <<group, parties, made>>
         \/ PartyOf(u) # 0 /\ UNCHANGED <<group, made>> /\ KeepParties
      /\ KeepQueue /\ UNCHANGED <<active, game, session, cleanup, work, kick>>

\* Bug variant: the limit is found when it has been passed.
IsFullLate(p) == Len(parties[p]) > MaximumMembers
IsFull(p) == Len(parties[p]) >= MaximumMembers
\* Invitations are sent, and expire, at any time: any player may hold one.
JoinParty(u, p) ==
  /\ IsGateFree /\ HasUser(u) /\ parties[p] # NoParty
  /\ preserved' = [preserved EXCEPT ![u] = 0]
  /\ \/ /\ partyIDByUser[u] = 0 /\ u \notin Members(p) /\ ~IsFull(p) /\ CanClaim(u, p)
        /\ parties' = [parties EXCEPT ![p] = Append(@, u)]
        /\ partyIDByUser' = [partyIDByUser EXCEPT ![u] = p]
        /\ group' = Claimed(u, p)
     \/ UNCHANGED group /\ KeepParties
  /\ KeepQueue /\ UNCHANGED <<active, game, session, cleanup, made, work, kick>>

\* A leave on the way into a game, or while the others wait for one, is put off.
LeaveParty(u) ==
  LET p == PartyOf(u)
      isTheirs == session[u] = "stale" \/ group[u] = p
      areOthersQueued == \E m \in Members(p) \ {u} : IsQueued(m)
  IN  /\ IsGateFree /\ HasUser(u) /\ p # 0
      /\ IF isTheirs /\ (IsInGame(u) \/ areOthersQueued)
         THEN /\ preserved' = [preserved EXCEPT ![u] = p]
              /\ UNCHANGED group /\ KeepParties
         ELSE LeaveIfMember(u, p) /\ UNCHANGED preserved
      /\ KeepQueue /\ UNCHANGED <<active, game, session, cleanup, made, work, kick>>

DestroyParty(u, p) ==
  /\ IsGateFree /\ HasUser(u) /\ parties[p] # NoParty /\ Head(parties[p]) = u
  /\ parties' = [parties EXCEPT ![p] = NoParty]
  /\ partyIDByUser' = Unindexed(partyIDByUser, Members(p))
  /\ group' = Released(Members(p), p)
  /\ KeepConnections /\ KeepQueue
  /\ UNCHANGED <<active, game, made, work, kick>>

-----------------------------------------------------------------------------
(***************************************************************************)
(* Connections.                                                            *)
(***************************************************************************)
\* Profiles that are logged out are given up, with what they know.
Closed(gone) ==
  /\ active' = active \ gone /\ game' = game \ gone
  /\ group' = [u \in Users |-> IF u \in gone THEN 0 ELSE group[u]]

\* The profile is logged in if it is not, and the party it is in is looked up.
Login(u) ==
  /\ IsGateFree /\ session[u] \in {"none", "stale"}
  /\ active' = active \union {u}
  /\ session' = [session EXCEPT ![u] = "none"]
  /\ work' = [NoWork EXCEPT !.kind = "login", !.user = u,
                            !.party = IF IsMember(u, PartyOf(u)) THEN PartyOf(u) ELSE 0]
  /\ KeepParties /\ KeepQueue /\ UNCHANGED <<group, game, preserved, cleanup, made, kick>>

\* ReconcileMember claims the party it found; the connection is bound.
Reconcile(u) ==
  /\ work.kind = "login" /\ work.user = u /\ work' = NoWork
  /\ group' = IF work.party # 0 /\ CanClaim(u, work.party)
              THEN Claimed(u, work.party) ELSE group
  /\ session' = [session EXCEPT ![u] = IF u \in active THEN "bound" ELSE "stale"]
  /\ KeepParties /\ KeepQueue
  /\ UNCHANGED <<active, game, preserved, cleanup, made, kick>>

\* The connection stays open, and may be used to log in again.
Logout(u) ==
  /\ IsGateFree /\ HasUser(u)
  /\ Closed({u} \intersect {v \in Users : session[v] = "bound"})
  /\ session' = [session EXCEPT ![u] = "none"]
  /\ kick' = IF kick.user = u /\ session[u] = "bound"
             THEN [kick EXCEPT !.isLive = FALSE] ELSE kick
  /\ KeepParties /\ KeepQueue /\ UNCHANGED <<preserved, cleanup, made, work>>

\* The connection ends; what it leaves behind is cleaned up with the gate.
Disconnect(u) ==
  /\ session[u] # "none" /\ ~IsAtWork(u) /\ ~cleanup[u].isDue
  /\ session' = [session EXCEPT ![u] = "none"]
  /\ cleanup' = [cleanup EXCEPT ![u] = [isDue |-> HasUser(u), party |-> preserved[u]]]
  /\ preserved' = [preserved EXCEPT ![u] = 0]
  /\ KeepProfiles /\ KeepParties /\ KeepQueue /\ UNCHANGED <<made, work, kick>>

IsIdle(u) == u \in active /\ u \notin game /\ ~IsQueued(u)
\* Bug variant: a player who has come back is not looked for.
ShouldLeaveEagerly(u) ==
  LET p == PartyOf(u)
  IN  /\ p # 0 /\ cleanup[u].party \in {0, p}
      /\ \A m \in Members(p) : IsIdle(m)
\* The player is gone, and no member of the party is busy.
ShouldLeave(u) ==
  LET p == PartyOf(u)
  IN  /\ p # 0 /\ cleanup[u].party \in {0, p} /\ session[u] = "none"
      /\ \A m \in Members(p) : IsIdle(m)

\* prepareDisconnectedPlaygroupLeave, or the gate could not be had in time.
CleanUp(u) ==
  /\ cleanup[u].isDue /\ cleanup' = [cleanup EXCEPT ![u] = NoCleanup]
  /\ \/ /\ IsGateFree
        /\ work' = IF ShouldLeave(u)
                   THEN [NoWork EXCEPT !.kind = "leave", !.user = u, !.party = PartyOf(u)]
                   ELSE work
     \/ ~IsGateFree /\ UNCHANGED work
  /\ KeepProfiles /\ KeepParties /\ KeepQueue
  /\ UNCHANGED <<session, preserved, made, kick>>

CleanUpLeave ==
  /\ work.kind = "leave" /\ work' = NoWork
  /\ LeaveIfMember(work.user, work.party)
  /\ KeepConnections /\ KeepQueue /\ UNCHANGED <<active, game, made, kick>>

-----------------------------------------------------------------------------
(***************************************************************************)
(* Games, as far as parties and the queue see them.                        *)
(***************************************************************************)
\* The member's own RemovePlayer also completes a leave that was put off;
\* clients ask to leave a game they are in.
RemovePlayer(u) ==
  /\ IsGateFree /\ IsInGame(u)
  /\ game' = game \ {u}
  /\ preserved' = [preserved EXCEPT ![u] = 0]
  /\ LeaveIfMember(u, preserved[u])
  /\ KeepQueue /\ UNCHANGED <<active, session, cleanup, made, work, kick>>

\* Gameplay, a teammate or a host removes the player; this takes no gate.
GameEnds(u) ==
  /\ u \in game /\ game' = game \ {u}
  /\ KeepParties /\ KeepConnections /\ KeepQueue
  /\ UNCHANGED <<active, group, made, work, kick>>

-----------------------------------------------------------------------------
(***************************************************************************)
(* pvp.Matchmaking.                                                        *)
(***************************************************************************)
Ids(rs) == {r.id : r \in rs}
PlayersOf(rs) == {u \in Users : \E r \in rs : IsOf(r, u)}
\* How many players the reservations have that come up to an ID and still fit.
Packed(rs) ==
  LET packed[id \in 0 .. MaxReservations] ==
        IF id = 0 THEN 0
        ELSE LET n == packed[id - 1]
                 sizes == {Len(r.users) : r \in {s \in rs : s.id = id}}
             IN  IF \E size \in sizes : n + size <= Expected
                 THEN n + (CHOOSE size \in sizes : TRUE) ELSE n
  IN  packed
\* compatibleSessions: in the order of IDs, each reservation that still fits.
Compatible(rs) == {r \in rs : Packed(rs)[r.id - 1] + Len(r.users) <= Expected}
First(rs) == CHOOSE r \in rs : \A s \in rs : r.id <= s.id

\* Reservations are taken from the queue, and users from its index; a fill
\* whose reservation is gone finds nothing to do.
Dequeue(gone, users, timers) ==
  /\ queue' = queue \ gone /\ sessionByUsers' = Unindexed(sessionByUsers, users)
  /\ fills' = timers \ Ids(gone)
Enqueued(r) == [u \in Users |-> IF IsOf(r, u) THEN r.id ELSE sessionByUsers[u]]
FormWith(u, rs, isFill) ==
  work' = [NoWork EXCEPT !.kind = "form", !.user = u, !.roster = PlayersOf(rs), !.isFill = isFill]

IsArenaPartySizeAllowed(count) ==
  \/ count <= TeamSize
  \/ ~IsRanked /\ Expected = 2 /\ TeamSize = 1 /\ count = 2
\* matchmakingUsers: an arena party enters with its leader.
EntersAsTeam(u) == TeamSize > 0 /\ PartyOf(u) # 0 /\ Len(parties[PartyOf(u)]) > 1
IsTeamReady(u, users) ==
  EntersAsTeam(u) => /\ u = Head(users) /\ IsArenaPartySizeAllowed(Len(users))
                     /\ ToSet(users) \subseteq active \ game
\* Bug variant: a player may be in two reservations.
CanEnterWithTwice(u, users) == IsTeamReady(u, users) /\ ~IsQueued(u)
CanEnterWith(u, users) == IsTeamReady(u, users) /\ \A m \in ToSet(users) : ~IsQueued(m)

\* Enter; a player who is alone online is filled up at once, others are to wait.
Enter(u, r) ==
  LET waiting == queue \union {r}
      fit == Compatible(waiting)
      isFull == Cardinality(PlayersOf(fit)) = Expected
      isAlone == OnlineCount = 1
  IN  /\ made' = [made EXCEPT !.reservations = r.id]
      /\ \/ /\ isFull \/ (~IsRanked /\ isAlone /\ r \in fit)
            /\ queue' = waiting \ fit /\ sessionByUsers' = Unindexed(Enqueued(r), PlayersOf(fit))
            /\ fills' = fills \ Ids(fit) /\ FormWith(u, fit, ~isFull)
         \/ /\ ~isFull /\ (IsRanked \/ ~isAlone \/ r \notin fit)
            /\ queue' = waiting /\ sessionByUsers' = Enqueued(r)
            /\ fills' = IF IsRanked \/ isAlone THEN fills ELSE fills \union {r.id}
            /\ UNCHANGED work

\* startMatchmakingHandler; a request may also be refused for maintenance.
StartMatch(u) ==
  LET users == IF EntersAsTeam(u) THEN parties[PartyOf(u)] ELSE <<u>>
      id == made.reservations + 1
  IN  /\ IsGateFree /\ HasUser(u) /\ ~IsInGame(u)
      /\ preserved' = [preserved EXCEPT ![u] = 0]
      /\ \/ /\ id <= MaxReservations /\ CanEnterWith(u, users)
            /\ Enter(u, [id |-> id, users |-> users])
         \/ KeepQueue /\ UNCHANGED <<made, work>>
      /\ KeepProfiles /\ KeepParties /\ UNCHANGED <<session, cleanup, kick>>

CancelMatch(u) ==
  /\ IsGateFree /\ HasUser(u)
  /\ \E r \in queue : Head(r.users) = u /\ Dequeue({r}, PlayersOf({r}), fills)
  /\ KeepProfiles /\ KeepConnections /\ KeepParties /\ UNCHANGED <<made, work, kick>>

IsAvailable(r) ==
  \A u \in ToSet(r.users) : u \in active /\ u \notin game /\ session[u] # "none"

\* Bug variant: only a full roster is claimed.
ClaimableOnlyFull(rs, id) ==
  id \in Ids(Compatible(rs)) /\ Cardinality(PlayersOf(Compatible(rs))) = Expected
\* ClaimPartial claims a roster that its reservation is in.
Claimable(rs, id) == id \in Ids(Compatible(rs))

\* matchmakingBotFill.complete: reservations that would be matched but whose
\* players are not there are cancelled, then what fits is claimed.
Fill(id) ==
  LET gone == {r \in Compatible(queue) : ~IsAvailable(r)}
      fit == Compatible(queue \ gone)
  IN  /\ IsGateFree /\ id \in fills
      /\ \/ /\ Claimable(queue \ gone, id)
            /\ Dequeue(gone \union fit, PlayersOf(gone \union fit), fills)
            /\ IF session[Head(First(fit).users)] = "none"
               THEN UNCHANGED work ELSE FormWith(Nobody, fit, TRUE)
         \/ /\ ~Claimable(queue \ gone, id) /\ UNCHANGED work
            /\ Dequeue(gone, PlayersOf(gone), fills \ {id})
      /\ KeepProfiles /\ KeepConnections /\ KeepParties /\ UNCHANGED <<made, kick>>

\* Maintenance has closed the gate: the reservation is cancelled.
FillRefused(id) ==
  LET gone == {r \in queue : r.id = id}
  IN  /\ IsGateFree /\ id \in fills
      /\ Dequeue(gone, PlayersOf(gone), fills)
      /\ KeepProfiles /\ KeepConnections /\ KeepParties /\ UNCHANGED <<made, work, kick>>

\* queueMatchmakingFormation: the game is formed, or the owners are told that
\* it could not be.
Form ==
  /\ work.kind = "form"
  /\ IF /\ work.roster \subseteq active \ game
        /\ work.isFill => Cardinality(work.roster) < Expected
     THEN game' = game \union work.roster /\ work' = [work EXCEPT !.kind = "roster"]
     ELSE work' = NoWork /\ UNCHANGED game
  /\ KeepConnections /\ KeepParties /\ KeepQueue
  /\ UNCHANGED <<active, group, made, kick>>

\* queueGameSetupRoster: the game is removed if a player's connection is gone.
Announce ==
  /\ work.kind = "roster" /\ work' = NoWork
  /\ game' = IF \A u \in work.roster : session[u] # "none" THEN game ELSE game \ work.roster
  /\ KeepConnections /\ KeepParties /\ KeepQueue
  /\ UNCHANGED <<active, group, made, kick>>

-----------------------------------------------------------------------------
(***************************************************************************)
(* A kick (runtime/moderation.go, blaze/account_disconnect.go).            *)
(***************************************************************************)
KickBegin(u) ==
  /\ kick = NoKick
  /\ kick' = [user |-> u, pc |-> "close", isLive |-> u \in active]
  /\ game' = game \ {u}
  /\ KeepConnections /\ KeepParties /\ KeepQueue /\ UNCHANGED <<active, group, made, work>>

\* The connection forgets its user, who is indexed until it has ended.
KickClose ==
  LET u == kick.user
  IN  /\ kick.pc = "close" /\ ~IsAtWork(u)
      /\ kick' = [kick EXCEPT !.pc = "force"]
      /\ session' = IF HasUser(u) THEN [session EXCEPT ![u] = "forgotten"] ELSE session
      /\ preserved' = IF HasUser(u) THEN [preserved EXCEPT ![u] = 0] ELSE preserved
      /\ KeepProfiles /\ KeepParties /\ KeepQueue /\ UNCHANGED <<cleanup, made, work>>

KickForce ==
  LET u == kick.user
      gone == {r \in queue : r.id = sessionByUsers[u]}
  IN  /\ kick.pc = "force" /\ IsGateFree
      /\ kick' = [kick EXCEPT !.pc = "logout"]
      /\ Dequeue(gone, IF gone = {} THEN {u} ELSE PlayersOf(gone), fills)
      /\ LeaveIfMember(u, PartyOf(u))
      /\ KeepConnections /\ UNCHANGED <<active, game, made, work>>

\* The profile the kick began with is logged out, without the gate.
KickEnd ==
  LET u == kick.user
  IN  /\ kick.pc = "logout" /\ kick' = NoKick
      /\ Closed(IF kick.isLive THEN {u} ELSE {})
      /\ session' = IF kick.isLive /\ session[u] = "bound"
                    THEN [session EXCEPT ![u] = "stale"] ELSE session
      /\ KeepParties /\ KeepQueue /\ UNCHANGED <<preserved, cleanup, made, work>>

-----------------------------------------------------------------------------
Job == (\E u \in Users : Reconcile(u)) \/ CleanUpLeave \/ Form \/ Announce

Next ==
  \/ \E u \in Users :
       \/ CreateParty(u) \/ LeaveParty(u)
       \/ \E p \in DOMAIN parties : JoinParty(u, p) \/ DestroyParty(u, p)
       \/ Login(u) \/ RemovePlayer(u) \/ GameEnds(u)
       \/ StartMatch(u) \/ CancelMatch(u)
  \/ \E u \in Leavers :
       Logout(u) \/ Disconnect(u) \/ CleanUp(u) \/ KickBegin(u)
  \/ \E id \in fills : Fill(id) \/ FillRefused(id)
  \/ KickClose \/ KickForce \/ KickEnd \/ Job

Spec == Init /\ [][Next]_vars

\* A job that holds the gate goes on; a fill that polls for the gate gets it.
Fairness ==
  /\ WF_vars(Job)
  /\ \A id \in 1 .. MaxReservations : SF_vars(id \in fills /\ (Fill(id) \/ FillRefused(id)))
FairSpec == Spec /\ Fairness

-----------------------------------------------------------------------------
TypeOK ==
  /\ active \subseteq Users /\ game \subseteq Users
  /\ {group, preserved, partyIDByUser} \subseteq [Users -> 0 .. MaxParties]
  /\ session \in [Users -> {"none", "bound", "stale", "forgotten"}]
  /\ cleanup \in [Users -> [isDue : BOOLEAN, party : 0 .. MaxParties]]
  /\ parties \in [1 .. MaxParties -> Seq(Users)]
  /\ \A p \in DOMAIN parties : Len(parties[p]) <= MaximumMembers
  /\ made \in [parties : 0 .. MaxParties, reservations : 0 .. MaxReservations]
  /\ \A r \in queue : r \in [id : 1 .. made.reservations, users : Seq(Users)]
  /\ sessionByUsers \in [Users -> 0 .. MaxReservations] /\ fills \subseteq Ids(queue)
  /\ work \in [kind : {"none", "login", "leave", "form", "roster"}, user : Users \union {Nobody},
               party : 0 .. MaxParties, roster : SUBSET Users, isFill : BOOLEAN]
  /\ kick \in [user : Users \union {Nobody}, pc : {"none", "close", "force", "logout"},
               isLive : BOOLEAN]

(* However players connect, leave and are kicked, the parties and the index *)
(* of their members say the same, so nobody is in two; a profile names no   *)
(* party that its user is not a member of, and that of a connected player   *)
(* names the one it is (party.Service, ReconcileMember).                    *)
PartyAgrees ==
  /\ \A u \in Users, p \in DOMAIN parties : u \in Members(p) <=> partyIDByUser[u] = p
  /\ \A u \in active : group[u] \in {0, PartyOf(u)}
  /\ \A u \in Users : session[u] = "bound" => u \in active /\ group[u] = PartyOf(u)

(* The reservations and the index of their players say the same, so nobody  *)
(* waits twice; and who waits is in no game and in no roster that a game is *)
(* being formed of (pvp.Matchmaking, matchmakingUsers).                     *)
QueueAgrees ==
  /\ \A u \in Users, r \in queue : IsOf(r, u) <=> sessionByUsers[u] = r.id
  /\ \A u \in Users : IsQueued(u) =>
       /\ sessionByUsers[u] \in Ids(queue) /\ u \notin game
       /\ work.kind \in {"form", "roster"} => u \notin work.roster

(* The cleanup after a lost connection takes nobody out of a party who has  *)
(* come back, and takes no party apart that waits for a match or is in one  *)
(* (prepareDisconnectedPlaygroupLeave).                                     *)
LeaveOnlyGone ==
  [][work.kind = "leave" /\ work' # work =>
       /\ session[work.user] = "none" /\ work.user \in Members(work.party)
       /\ \A m \in Members(work.party) : m \notin game /\ ~IsQueued(m)]_vars

(* A reservation that fits and has a fill to come does not wait for ever:   *)
(* it is matched, filled up or cancelled (matchmakingBotFill).              *)
FillServes ==
  \A id \in 1 .. MaxReservations :
    (id \in fills /\ id \in Ids(Compatible(queue))) ~> id \notin Ids(queue)
=============================================================================
