----------------------------- MODULE LobbyProofs -----------------------------
(***************************************************************************)
(* Proofs about Lobby, for any users, queue, limits and bounds: parties    *)
(* and their index agree with each other and with the profiles             *)
(* (PartyAgrees), the queue and its index agree and nobody waits and plays *)
(* (QueueAgrees), and the cleanup after a lost connection takes nobody out *)
(* who is back (LeaveOnlyGone).                                            *)
(*                                                                         *)
(* What makes it work is the gate: what a job looked up before it took a   *)
(* step still holds when it goes on, although connections end, gameplay    *)
(* removes players and a kick logs them out meanwhile (WorkInv).           *)
(***************************************************************************)
EXTENDS Lobby, SequenceTheorems, TLAPS

Distinct(s) == \A i, j \in DOMAIN s : s[i] = s[j] => i = j

\* Parties that are yet to come are empty, and nobody is in one twice.
PartyInv ==
  /\ \A p \in DOMAIN parties : Distinct(parties[p])
  /\ \A p \in DOMAIN parties : p > made.parties => parties[p] = NoParty
  /\ \A u \in Users, p \in DOMAIN parties : u \in Members(p) <=> partyIDByUser[u] = p

\* A profile that is logged out has no party and no game.
GroupInv ==
  /\ game \subseteq active
  /\ \A u \in Users : u \notin active => group[u] = 0
  /\ \A u \in Users : group[u] \in {0, partyIDByUser[u]}
  /\ \A u \in Users : session[u] = "bound" => u \in active /\ group[u] = partyIDByUser[u]
  /\ \A u \in Users : session[u] = "stale" => u \notin active

\* What a job that has the gate has looked up is still so.
WorkInv ==
  /\ work.kind \in {"login", "leave"} =>
       work.user \in Users /\ work.party = partyIDByUser[work.user]
  /\ work.kind = "leave" =>
       /\ session[work.user] = "none" /\ work.party # 0
       /\ \A m \in Members(work.party) : m \notin game /\ ~IsQueued(m)
  /\ kick.pc # "none" => kick.user \in Users

QueueInv == QueueAgrees /\ \A r, s \in queue : r.id = s.id => r = s

IInv == TypeOK /\ PartyInv /\ GroupInv /\ WorkInv /\ QueueInv

\* The types of what party.Service keeps.
PartyTyped ==
  /\ parties \in [1 .. MaxParties -> Seq(Users)]
  /\ \A p \in DOMAIN parties : Len(parties[p]) <= MaximumMembers
  /\ partyIDByUser \in [Users -> 0 .. MaxParties]
\* Whose index changes is out of every party, or is told which one it is in.
Told ==
  /\ group' \in [Users -> 0 .. MaxParties]
  /\ \A u \in Users :
       \/ group'[u] = group[u] /\ partyIDByUser'[u] = partyIDByUser[u]
       \/ group'[u] = 0 /\ partyIDByUser'[u] = 0
       \/ u \in active /\ group'[u] = partyIDByUser'[u]

-----------------------------------------------------------------------------
(***************************************************************************)
(* Sequences without repetitions.                                          *)
(***************************************************************************)
\* Who joins is the last of the members.
LEMMA Appended ==
  ASSUME NEW S, NEW s \in Seq(S), NEW x \in S
  PROVE  /\ Append(s, x) \in Seq(S) /\ Len(Append(s, x)) = Len(s) + 1
         /\ ToSet(Append(s, x)) = ToSet(s) \union {x}
         /\ Distinct(s) /\ x \notin ToSet(s) => Distinct(Append(s, x))
<1>1. /\ Append(s, x) \in Seq(S) /\ Len(Append(s, x)) = Len(s) + 1
      /\ DOMAIN s = 1 .. Len(s) /\ DOMAIN Append(s, x) = 1 .. Len(s) + 1
      /\ \A i \in 1 .. Len(s) : Append(s, x)[i] = s[i]
      /\ Append(s, x)[Len(s) + 1] = x
      /\ Len(s) \in Nat
  OBVIOUS
<1>2. ToSet(Append(s, x)) = ToSet(s) \union {x}
  BY <1>1 DEF ToSet
<1>3. Distinct(s) /\ x \notin ToSet(s) => Distinct(Append(s, x))
  BY <1>1 DEF ToSet, Distinct
<1>4. QED
  BY <1>1, <1>2, <1>3

\* Who leaves is gone, and the others stay in their order.
LEMMA Removed ==
  ASSUME NEW S, NEW s \in Seq(S), NEW k \in DOMAIN s, Distinct(s)
  PROVE  /\ RemoveAt(s, k) \in Seq(S) /\ Len(RemoveAt(s, k)) = Len(s) - 1
         /\ ToSet(RemoveAt(s, k)) = ToSet(s) \ {s[k]}
         /\ Distinct(RemoveAt(s, k))
<1> DEFINE t == RemoveAt(s, k)
           a == SubSeq(s, 1, k - 1)
           b == SubSeq(s, k + 1, Len(s))
<1>1. DOMAIN s = 1 .. Len(s) /\ Len(s) \in Nat /\ k \in 1 .. Len(s)
  OBVIOUS
<1>2. /\ a \in Seq(S) /\ Len(a) = k - 1
      /\ \A i \in 1 .. k - 1 : a[i] = s[i]
  BY <1>1
<1>3. /\ b \in Seq(S) /\ Len(b) = Len(s) - k
      /\ \A i \in 1 .. Len(s) - k : b[i] = s[k + i]
  BY <1>1
<1>4. t = a \o b
  BY DEF RemoveAt
<1> HIDE DEF t, a, b
<1>5. /\ t \in Seq(S) /\ Len(t) = Len(s) - 1 /\ DOMAIN t = 1 .. Len(s) - 1
      /\ \A i \in 1 .. Len(s) - 1 : i < k => t[i] = s[i]
      /\ \A i \in 1 .. Len(s) - 1 : i >= k => t[i] = s[i + 1]
  <2>1. /\ t \in Seq(S) /\ Len(t) = Len(a) + Len(b)
        /\ \A i \in 1 .. Len(a) + Len(b) :
             t[i] = IF i <= Len(a) THEN a[i] ELSE b[i - Len(a)]
    BY <1>2, <1>3, <1>4, ConcatProperties
  <2>2. Len(t) = Len(s) - 1 /\ DOMAIN t = 1 .. Len(s) - 1
    BY <2>1, <1>1, <1>2, <1>3
  <2>3. ASSUME NEW i \in 1 .. Len(s) - 1, i < k PROVE t[i] = s[i]
    <3>1. i \in 1 .. Len(a) + Len(b) /\ i <= Len(a) /\ i \in 1 .. k - 1
      BY <2>3, <1>1, <1>2, <1>3
    <3>2. t[i] = a[i]
      BY <3>1, <2>1
    <3>3. QED
      BY <3>1, <3>2, <1>2
  <2>4. ASSUME NEW i \in 1 .. Len(s) - 1, i >= k PROVE t[i] = s[i + 1]
    <3>1. /\ i \in 1 .. Len(a) + Len(b) /\ ~(i <= Len(a))
          /\ i - Len(a) \in 1 .. Len(s) - k /\ k + (i - Len(a)) = i + 1
      BY <2>4, <1>1, <1>2, <1>3
    <3>2. t[i] = b[i - Len(a)]
      BY <3>1, <2>1
    <3>3. QED
      BY <3>1, <3>2, <1>3
  <2>5. QED
    BY <2>1, <2>2, <2>3, <2>4
\* Where an index of what is left was before.
<1> DEFINE Was(i) == IF i < k THEN i ELSE i + 1
<1>6. /\ \A i \in 1 .. Len(s) - 1 : Was(i) \in 1 .. Len(s) /\ Was(i) # k /\ t[i] = s[Was(i)]
      /\ \A i, j \in 1 .. Len(s) - 1 : Was(i) = Was(j) => i = j
      /\ \A i \in 1 .. Len(s) : i # k => \E j \in 1 .. Len(s) - 1 : Was(j) = i
  <2>1. ASSUME NEW i \in 1 .. Len(s) - 1
        PROVE  Was(i) \in 1 .. Len(s) /\ Was(i) # k /\ t[i] = s[Was(i)]
    BY <1>1, <1>5
  <2>2. ASSUME NEW i \in 1 .. Len(s), i # k PROVE \E j \in 1 .. Len(s) - 1 : Was(j) = i
    <3>1. CASE i < k
      BY <3>1, <1>1
    <3>2. CASE i > k
      <4>1. i - 1 \in 1 .. Len(s) - 1 /\ Was(i - 1) = i
        BY <3>2, <1>1
      <4>2. QED
        BY <4>1
    <3>3. QED
      BY <2>2, <3>1, <3>2, <1>1
  <2>3. \A i, j \in 1 .. Len(s) - 1 : Was(i) = Was(j) => i = j
    BY <1>1
  <2>4. QED
    BY <2>1, <2>2, <2>3
<1> HIDE DEF Was
<1>7. ToSet(t) = ToSet(s) \ {s[k]}
  <2>1. ASSUME NEW x \in ToSet(t) PROVE x \in ToSet(s) \ {s[k]}
    <3>1. PICK i \in 1 .. Len(s) - 1 : x = t[i]
      BY <2>1, <1>5 DEF ToSet
    <3>2. x = s[Was(i)] /\ Was(i) \in 1 .. Len(s) /\ Was(i) # k
      BY <3>1, <1>6
    <3>3. QED
      BY <3>2, <1>1 DEF ToSet, Distinct
  <2>2. ASSUME NEW x \in ToSet(s) \ {s[k]} PROVE x \in ToSet(t)
    <3>1. PICK i \in 1 .. Len(s) : x = s[i] /\ i # k
      BY <2>2, <1>1 DEF ToSet
    <3>2. PICK j \in 1 .. Len(s) - 1 : Was(j) = i
      BY <3>1, <1>6
    <3>3. t[j] = x
      BY <3>1, <3>2, <1>6
    <3>4. QED
      BY <3>3, <1>5 DEF ToSet
  <2>3. QED
    BY <2>1, <2>2
<1>8. Distinct(t)
  <2>1. SUFFICES ASSUME NEW i \in 1 .. Len(s) - 1, NEW j \in 1 .. Len(s) - 1, t[i] = t[j]
                 PROVE  i = j
    BY <1>5 DEF Distinct
  <2>2. s[Was(i)] = s[Was(j)] /\ Was(i) \in 1 .. Len(s) /\ Was(j) \in 1 .. Len(s)
    BY <2>1, <1>6
  <2>3. Was(i) = Was(j)
    BY <2>2, <1>1 DEF Distinct
  <2>4. QED
    BY <2>3, <1>6
<1>9. QED
  BY <1>5, <1>7, <1>8 DEF t

-----------------------------------------------------------------------------
(***************************************************************************)
(* What the operations on parties do.                                      *)
(***************************************************************************)
LEMMA Typed == TypeOK => /\ PartyTyped /\ made.parties \in 0 .. MaxParties
                         /\ made.reservations \in 0 .. MaxReservations
                         /\ group \in [Users -> 0 .. MaxParties]
                         /\ preserved \in [Users -> 0 .. MaxParties]
  BY DEF TypeOK, PartyTyped

\* The party that is found for a user is the one the index names.
LEMMA Found == TypeOK /\ PartyInv => \A u \in Users : PartyOf(u) = partyIDByUser[u]
<1>1. SUFFICES ASSUME TypeOK, PartyInv, NEW u \in Users, partyIDByUser[u] # 0
               PROVE  parties[partyIDByUser[u]] # NoParty
  BY DEF PartyOf
<1>2. partyIDByUser[u] \in DOMAIN parties
  BY <1>1, Typed DEF PartyTyped
<1>3. u \in Members(partyIDByUser[u])
  BY <1>1, <1>2 DEF PartyInv
<1>4. QED
  BY <1>3 DEF Members, ToSet, NoParty

\* Service.Leave: the member is gone, from the index and the profile, too.
LEMMA LeaveEffect ==
  ASSUME TypeOK, PartyInv, GroupInv, NEW u \in Users, NEW p \in DOMAIN parties,
         u \in Members(p), Leave(u, p), made'.parties = made.parties
  PROVE  PartyTyped' /\ PartyInv' /\ Told
<1> DEFINE k == PlaceOf(u, p)
<1>1. PartyTyped /\ group \in [Users -> 0 .. MaxParties]
  BY Typed
<1>2. k \in DOMAIN parties[p] /\ parties[p][k] = u
  <2>1. \E i \in DOMAIN parties[p] : parties[p][i] = u
    BY DEF Members, ToSet
  <2>2. QED
    BY <2>1 DEF PlaceOf
<1>3. /\ parties' = [parties EXCEPT ![p] = RemoveAt(parties[p], k)]
      /\ partyIDByUser' = [v \in Users |-> IF v = u THEN 0 ELSE partyIDByUser[v]]
      /\ group' = [v \in Users |-> IF v = u /\ group[v] = p THEN 0 ELSE group[v]]
  BY DEF Leave, Unindexed, Released
<1> HIDE DEF k
<1>4. /\ RemoveAt(parties[p], k) \in Seq(Users)
      /\ Len(RemoveAt(parties[p], k)) = Len(parties[p]) - 1
      /\ ToSet(RemoveAt(parties[p], k)) = Members(p) \ {u}
      /\ Distinct(RemoveAt(parties[p], k))
  <2>1. parties[p] \in Seq(Users) /\ Distinct(parties[p])
    BY <1>1 DEF PartyTyped, PartyInv
  <2>2. QED
    BY <2>1, <1>2, Removed DEF Members
<1>5. parties' \in [1 .. MaxParties -> Seq(Users)] /\ DOMAIN parties' = DOMAIN parties
  BY <1>1, <1>3, <1>4 DEF PartyTyped
<1>6. \A q \in DOMAIN parties : Len(parties'[q]) <= MaximumMembers
  <2>1. \A q \in DOMAIN parties : Len(parties[q]) \in Nat
    BY <1>1 DEF PartyTyped
  <2>2. QED
    BY <2>1, <1>1, <1>3, <1>4, LobbyAssumption DEF PartyTyped
<1>7. PartyTyped'
  BY <1>1, <1>3, <1>5, <1>6, LobbyAssumption DEF PartyTyped
<1>8. \A q \in DOMAIN parties' : Distinct(parties'[q])
  BY <1>3, <1>4, <1>5 DEF PartyInv
<1>9. \A q \in DOMAIN parties' : q > made'.parties => parties'[q] = NoParty
  <2>1. ~(p > made.parties)
    BY DEF PartyInv, Members, ToSet, NoParty
  <2>2. QED
    BY <2>1, <1>3, <1>5 DEF PartyInv
<1>10. \A v \in Users, q \in DOMAIN parties' : v \in ToSet(parties'[q]) <=> partyIDByUser'[v] = q
  <2> SUFFICES ASSUME NEW v \in Users, NEW q \in DOMAIN parties
               PROVE  v \in ToSet(parties'[q]) <=> partyIDByUser'[v] = q
    BY <1>5
  <2>1. /\ v \in ToSet(parties[q]) <=> partyIDByUser[v] = q
        /\ u \in ToSet(parties[q]) <=> partyIDByUser[u] = q
        /\ q # 0 /\ partyIDByUser[u] = p
    BY <1>1 DEF PartyInv, Members, PartyTyped
  <2>2. ToSet(parties'[q]) = IF q = p THEN ToSet(parties[q]) \ {u} ELSE ToSet(parties[q])
    BY <1>3, <1>4 DEF Members
  <2>3. QED
    BY <2>1, <2>2, <1>3
<1>11. PartyInv'
  BY <1>8, <1>9, <1>10 DEF PartyInv, Members
<1>12. Told
  <2>1. partyIDByUser[u] = p
    BY DEF PartyInv
  <2>2. QED
    BY <2>1, <1>1, <1>3, LobbyAssumption DEF GroupInv, Told, PartyTyped
<1>13. QED
  BY <1>7, <1>11, <1>12

LEMMA LeaveIfMemberEffect ==
  ASSUME TypeOK, PartyInv, GroupInv, NEW u \in Users, NEW p \in 0 .. MaxParties,
         LeaveIfMember(u, p), made'.parties = made.parties
  PROVE  PartyTyped' /\ PartyInv' /\ Told
<1>1. CASE IsMember(u, p)
  <2>1. p \in DOMAIN parties /\ u \in Members(p) /\ Leave(u, p)
    BY <1>1, Typed DEF IsMember, LeaveIfMember, PartyTyped
  <2>2. QED
    BY <2>1, LeaveEffect
<1>2. CASE ~IsMember(u, p)
  BY <1>2, Typed DEF LeaveIfMember, KeepParties, PartyTyped, PartyInv, Told, Members
<1>3. QED
  BY <1>1, <1>2

\* Service.Destroy: every member is gone at once.
LEMMA DestroyEffect ==
  ASSUME TypeOK, PartyInv, GroupInv, NEW u \in Users, NEW p \in DOMAIN parties,
         DestroyParty(u, p)
  PROVE  PartyTyped' /\ PartyInv' /\ Told
<1>1. PartyTyped /\ group \in [Users -> 0 .. MaxParties]
  BY Typed
<1>2. /\ parties' = [parties EXCEPT ![p] = <<>>]
      /\ partyIDByUser' = [v \in Users |-> IF v \in Members(p) THEN 0 ELSE partyIDByUser[v]]
      /\ group' = [v \in Users |-> IF v \in Members(p) /\ group[v] = p THEN 0 ELSE group[v]]
      /\ made' = made
  BY DEF DestroyParty, Unindexed, Released, NoParty
<1>3. <<>> \in Seq(Users) /\ Len(<<>>) = 0 /\ ToSet(<<>>) = {} /\ Distinct(<<>>)
  BY DEF ToSet, Distinct
<1>4. parties' \in [1 .. MaxParties -> Seq(Users)] /\ DOMAIN parties' = DOMAIN parties
  BY <1>1, <1>2, <1>3 DEF PartyTyped
<1>5. PartyTyped'
  BY <1>1, <1>2, <1>3, <1>4, LobbyAssumption DEF PartyTyped
<1>6. \A q \in DOMAIN parties' : Distinct(parties'[q]) /\ (q > made'.parties => parties'[q] = NoParty)
  BY <1>2, <1>3, <1>4 DEF PartyInv, NoParty
<1>7. \A v \in Users, q \in DOMAIN parties' : v \in ToSet(parties'[q]) <=> partyIDByUser'[v] = q
  <2> SUFFICES ASSUME NEW v \in Users, NEW q \in DOMAIN parties
               PROVE  v \in ToSet(parties'[q]) <=> partyIDByUser'[v] = q
    BY <1>4
  <2>1. /\ v \in Members(q) <=> partyIDByUser[v] = q
        /\ v \in Members(p) <=> partyIDByUser[v] = p
        /\ q # 0
    BY <1>1 DEF PartyInv, PartyTyped
  <2>2. ToSet(parties'[q]) = IF q = p THEN {} ELSE Members(q)
    BY <1>2, <1>3 DEF Members
  <2>3. QED
    BY <2>1, <2>2, <1>2
<1>8. PartyInv'
  BY <1>6, <1>7 DEF PartyInv, Members
<1>9. Told
  <2>1. \A v \in Users : v \in Members(p) <=> partyIDByUser[v] = p
    BY DEF PartyInv
  <2>2. QED
    BY <2>1, <1>1, <1>2, LobbyAssumption DEF GroupInv, Told, PartyTyped
<1>10. QED
  BY <1>5, <1>8, <1>9

\* Service.Create: the party is new, and so has no other members.
LEMMA CreateEffect ==
  ASSUME TypeOK, PartyInv, GroupInv, NEW u \in Users, CreateParty(u)
  PROVE  PartyTyped' /\ PartyInv' /\ Told
<1> DEFINE p == made.parties + 1
<1>1. /\ PartyTyped /\ group \in [Users -> 0 .. MaxParties]
      /\ made \in [parties : 0 .. MaxParties, reservations : 0 .. MaxReservations]
      /\ PartyOf(u) = partyIDByUser[u]
  BY Typed, Found DEF TypeOK
<1>2. CASE /\ PartyOf(u) = 0 /\ CanClaim(u, p) /\ p <= MaxParties
           /\ parties' = [parties EXCEPT ![p] = <<u>>]
           /\ partyIDByUser' = [partyIDByUser EXCEPT ![u] = p]
           /\ group' = Claimed(u, p) /\ made' = [made EXCEPT !.parties = p]
  <2>1. p \in 1 .. MaxParties /\ p \in DOMAIN parties /\ parties[p] = <<>> /\ made'.parties = p
    BY <1>1, <1>2, LobbyAssumption DEF PartyTyped, PartyInv, NoParty
  <2> HIDE DEF p
  <2>2. /\ <<u>> \in Seq(Users) /\ Len(<<u>>) = 1
        /\ ToSet(<<u>>) = {u} /\ Distinct(<<u>>) /\ ToSet(<<>>) = {}
    BY DEF ToSet, Distinct
  <2>3. parties' \in [1 .. MaxParties -> Seq(Users)] /\ DOMAIN parties' = DOMAIN parties
    BY <1>1, <1>2, <2>1, <2>2 DEF PartyTyped
  <2>4. PartyTyped'
    BY <1>1, <1>2, <2>1, <2>2, <2>3, LobbyAssumption DEF PartyTyped
  <2>5. \A q \in DOMAIN parties' :
          Distinct(parties'[q]) /\ (q > made'.parties => parties'[q] = NoParty)
    BY SMTT(30), <1>1, <1>2, <2>1, <2>2, <2>3 DEF PartyInv, NoParty, p, PartyTyped
  <2>6. \A v \in Users, q \in DOMAIN parties' : v \in ToSet(parties'[q]) <=> partyIDByUser'[v] = q
    <3> SUFFICES ASSUME NEW v \in Users, NEW q \in DOMAIN parties
                 PROVE  v \in ToSet(parties'[q]) <=> partyIDByUser'[v] = q
      BY <2>3
    <3>1. /\ v \in ToSet(parties[q]) <=> partyIDByUser[v] = q
          /\ v \in ToSet(parties[p]) <=> partyIDByUser[v] = p
          /\ q # 0
      BY <1>1, <2>1 DEF PartyInv, PartyTyped, Members
    <3>2. ToSet(parties'[q]) = IF q = p THEN {u} ELSE ToSet(parties[q])
      BY <1>2, <2>1, <2>2
    <3>3. partyIDByUser'[v] = IF v = u THEN p ELSE partyIDByUser[v]
      BY <1>1, <1>2 DEF PartyTyped
    <3>4. QED
      BY <3>1, <3>2, <3>3, <2>1, <2>2, <1>1, <1>2
  <2>7. PartyInv'
    BY <2>5, <2>6 DEF PartyInv, Members
  <2>8. Told
    BY <1>1, <1>2, <2>1 DEF Told, Claimed, CanClaim, PartyTyped
  <2>9. QED
    BY <2>4, <2>7, <2>8
<1>3. CASE partyIDByUser[u] = 0 /\ partyIDByUser' = Unindexed(partyIDByUser, {u})
           /\ UNCHANGED <<group, parties, made>>
  <2>1. partyIDByUser' = partyIDByUser
    BY <1>1, <1>3 DEF Unindexed, PartyTyped
  <2>2. QED
    BY <1>1, <1>3, <2>1 DEF PartyTyped, PartyInv, Told, Members
<1>4. CASE UNCHANGED <<group, made>> /\ KeepParties
  BY <1>1, <1>4 DEF KeepParties, PartyTyped, PartyInv, Told, Members
<1>5. QED
  BY <1>1, <1>2, <1>3, <1>4 DEF CreateParty

\* Service.Join: who joins was in no party.
LEMMA JoinEffect ==
  ASSUME TypeOK, PartyInv, GroupInv, NEW u \in Users, NEW p \in DOMAIN parties,
         JoinParty(u, p)
  PROVE  PartyTyped' /\ PartyInv' /\ Told
<1>1. PartyTyped /\ group \in [Users -> 0 .. MaxParties] /\ made' = made
  BY Typed DEF JoinParty
<1>2. CASE /\ partyIDByUser[u] = 0 /\ u \notin Members(p) /\ ~IsFull(p) /\ CanClaim(u, p)
           /\ parties' = [parties EXCEPT ![p] = Append(@, u)]
           /\ partyIDByUser' = [partyIDByUser EXCEPT ![u] = p]
           /\ group' = Claimed(u, p)
  <2>1. parties[p] \in Seq(Users) /\ Distinct(parties[p]) /\ p \in 1 .. MaxParties
    BY <1>1 DEF PartyTyped, PartyInv
  <2>2. /\ Append(parties[p], u) \in Seq(Users)
        /\ Len(Append(parties[p], u)) = Len(parties[p]) + 1
        /\ ToSet(Append(parties[p], u)) = Members(p) \union {u}
        /\ Distinct(Append(parties[p], u))
    BY <1>2, <2>1, Appended DEF Members
  <2>3. parties' = [parties EXCEPT ![p] = Append(parties[p], u)]
    BY <1>2
  <2>4. parties' \in [1 .. MaxParties -> Seq(Users)] /\ DOMAIN parties' = DOMAIN parties
    BY <1>1, <2>2, <2>3 DEF PartyTyped
  <2>5. Len(parties[p]) + 1 <= MaximumMembers
    BY <1>2, <2>1, LobbyAssumption DEF IsFull
  <2>6. \A q \in DOMAIN parties' : Len(parties'[q]) <= MaximumMembers
    BY <1>1, <2>2, <2>3, <2>4, <2>5 DEF PartyTyped
  <2>7. PartyTyped'
    BY <1>1, <1>2, <2>1, <2>4, <2>6 DEF PartyTyped
  <2>8. \A q \in DOMAIN parties' :
          Distinct(parties'[q]) /\ (q > made'.parties => parties'[q] = NoParty)
    <3>1. ~(p > made.parties)
      BY DEF PartyInv, JoinParty
    <3>2. QED
      BY <1>1, <2>2, <2>3, <2>4, <3>1 DEF PartyInv
  <2>9. \A v \in Users, q \in DOMAIN parties' : v \in ToSet(parties'[q]) <=> partyIDByUser'[v] = q
    <3> SUFFICES ASSUME NEW v \in Users, NEW q \in DOMAIN parties
                 PROVE  v \in ToSet(parties'[q]) <=> partyIDByUser'[v] = q
      BY <2>4
    <3>1. /\ v \in Members(q) <=> partyIDByUser[v] = q
          /\ v \in Members(p) <=> partyIDByUser[v] = p
          /\ q # 0
      BY <1>1 DEF PartyInv, PartyTyped
    <3>2. ToSet(parties'[q]) = IF q = p THEN Members(p) \union {u} ELSE Members(q)
      BY <2>2, <2>3 DEF Members
    <3>3. partyIDByUser'[v] = IF v = u THEN p ELSE partyIDByUser[v]
      BY <1>1, <1>2 DEF PartyTyped
    <3>4. QED
      BY <3>1, <3>2, <3>3, <1>2
  <2>10. PartyInv'
    BY <2>8, <2>9 DEF PartyInv, Members
  <2>11. Told
    BY <1>1, <1>2, <2>1 DEF Told, Claimed, CanClaim, PartyTyped
  <2>12. QED
    BY <2>7, <2>10, <2>11
<1>3. CASE UNCHANGED group /\ KeepParties
  BY <1>1, <1>3 DEF KeepParties, PartyTyped, PartyInv, Told, Members
<1>4. QED
  BY <1>2, <1>3 DEF JoinParty

-----------------------------------------------------------------------------
(***************************************************************************)
(* Parties and profiles.                                                   *)
(***************************************************************************)
PartyAction ==
  \/ \E u \in Users :
       \/ CreateParty(u) \/ LeaveParty(u) \/ RemovePlayer(u)
       \/ \E p \in DOMAIN parties : JoinParty(u, p) \/ DestroyParty(u, p)
  \/ CleanUpLeave \/ KickForce
OtherAction ==
  \/ \E u \in Users :
       \/ Login(u) \/ GameEnds(u) \/ StartMatch(u) \/ CancelMatch(u) \/ Reconcile(u)
       \/ Logout(u) \/ Disconnect(u) \/ CleanUp(u) \/ KickBegin(u)
  \/ \E id \in fills : Fill(id) \/ FillRefused(id)
  \/ KickClose \/ KickEnd \/ Form \/ Announce

LEMMA Actions == Next => PartyAction \/ OtherAction
  BY LobbyAssumption DEF Next, Job, PartyAction, OtherAction

\* Whatever touches a party keeps them in order; nobody is logged in or out.
LEMMA PartyActionStep ==
  ASSUME IInv, PartyAction
  PROVE  /\ PartyTyped' /\ PartyInv' /\ Told
         /\ active' = active /\ session' = session /\ game' \subseteq game
<1>1. TypeOK /\ PartyInv /\ GroupInv
  BY DEF IInv
<1>2. ASSUME NEW u \in Users, CreateParty(u)
      PROVE  /\ PartyTyped' /\ PartyInv' /\ Told
             /\ active' = active /\ session' = session /\ game' \subseteq game
  BY <1>1, <1>2, CreateEffect DEF CreateParty
<1>3. ASSUME NEW u \in Users, LeaveParty(u)
      PROVE  /\ PartyTyped' /\ PartyInv' /\ Told
             /\ active' = active /\ session' = session /\ game' \subseteq game
  <2>1. active' = active /\ session' = session /\ game' = game /\ made' = made
    BY <1>3 DEF LeaveParty
  <2>2. PartyOf(u) \in 0 .. MaxParties
    BY <1>1, Found, Typed DEF PartyTyped
  <2>3. CASE LeaveIfMember(u, PartyOf(u))
    BY <1>1, <2>1, <2>2, <2>3, LeaveIfMemberEffect
  <2>4. CASE UNCHANGED group /\ KeepParties
    BY <1>1, <2>1, <2>4, Typed DEF KeepParties, PartyTyped, PartyInv, Told, Members
  <2>5. QED
    BY <1>3, <2>1, <2>3, <2>4 DEF LeaveParty
<1>4. ASSUME NEW u \in Users, RemovePlayer(u)
      PROVE  /\ PartyTyped' /\ PartyInv' /\ Told
             /\ active' = active /\ session' = session /\ game' \subseteq game
  <2>1. /\ active' = active /\ session' = session /\ game' \subseteq game /\ made' = made
        /\ LeaveIfMember(u, preserved[u])
    BY <1>4 DEF RemovePlayer
  <2>2. preserved[u] \in 0 .. MaxParties
    BY <1>1, Typed
  <2>3. QED
    BY <1>1, <2>1, <2>2, LeaveIfMemberEffect
<1>5. ASSUME NEW u \in Users, NEW p \in DOMAIN parties, JoinParty(u, p) \/ DestroyParty(u, p)
      PROVE  /\ PartyTyped' /\ PartyInv' /\ Told
             /\ active' = active /\ session' = session /\ game' \subseteq game
  <2>1. active' = active /\ session' = session /\ game' = game
    BY <1>5 DEF JoinParty, DestroyParty, KeepConnections
  <2>2. CASE JoinParty(u, p)
    BY <1>1, <2>1, <2>2, JoinEffect
  <2>3. CASE DestroyParty(u, p)
    BY <1>1, <2>1, <2>3, DestroyEffect
  <2>4. QED
    BY <1>5, <2>2, <2>3
<1>6. CASE CleanUpLeave
  <2>1. /\ active' = active /\ session' = session /\ game' = game /\ made' = made
        /\ LeaveIfMember(work.user, work.party)
        /\ work.user \in Users
    BY <1>6 DEF CleanUpLeave, KeepConnections, IInv, WorkInv
  <2>2. work.party \in 0 .. MaxParties
    BY <1>1 DEF TypeOK
  <2>3. QED
    BY <1>1, <2>1, <2>2, LeaveIfMemberEffect
<1>7. CASE KickForce
  <2>1. /\ active' = active /\ session' = session /\ game' = game /\ made' = made
        /\ LeaveIfMember(kick.user, PartyOf(kick.user))
        /\ kick.user \in Users
    BY <1>7 DEF KickForce, KeepConnections, IInv, WorkInv
  <2>2. PartyOf(kick.user) \in 0 .. MaxParties
    BY <1>1, <2>1, Found, Typed DEF PartyTyped
  <2>3. QED
    BY <1>1, <2>1, <2>2, LeaveIfMemberEffect
<1>8. QED
  BY <1>2, <1>3, <1>4, <1>5, <1>6, <1>7 DEF PartyAction

LEMMA OtherActionStep ==
  ASSUME TypeOK, OtherAction
  PROVE  /\ parties' = parties /\ partyIDByUser' = partyIDByUser
         /\ made'.parties = made.parties
         /\ PartyTyped' /\ (PartyInv => PartyInv')
<1>1. ASSUME NEW u \in Users, StartMatch(u)
      PROVE  KeepParties /\ made'.parties = made.parties
  BY <1>1 DEF TypeOK, StartMatch, Enter
<1>2. ASSUME NEW u \in Users,
             \/ Login(u) \/ GameEnds(u) \/ CancelMatch(u) \/ Reconcile(u)
             \/ Logout(u) \/ Disconnect(u) \/ CleanUp(u) \/ KickBegin(u)
      PROVE  KeepParties /\ made' = made
  BY <1>2 DEF Login, GameEnds, CancelMatch, Reconcile, Logout, Disconnect, CleanUp, KickBegin
<1>3. ASSUME NEW id \in fills, Fill(id) \/ FillRefused(id)
      PROVE  KeepParties /\ made' = made
  BY <1>3 DEF Fill, FillRefused
<1>4. KickClose \/ KickEnd \/ Form \/ Announce => KeepParties /\ made' = made
  BY DEF KickClose, KickEnd, Form, Announce
<1>5. KeepParties /\ made'.parties = made.parties
  BY <1>1, <1>2, <1>3, <1>4 DEF OtherAction
<1>6. QED
  BY <1>5, Typed DEF KeepParties, PartyTyped, PartyInv, Members

LEMMA GroupStep ==
  ASSUME IInv, Next
  PROVE  GroupInv'
<1> USE DEF GroupInv
<1>1. /\ TypeOK /\ GroupInv
      /\ session \in [Users -> {"none", "bound", "stale", "forgotten"}]
      /\ group \in [Users -> 0 .. MaxParties] /\ active \subseteq Users
  BY Typed DEF IInv, TypeOK
<1>2. CASE PartyAction
  <2>1. Told /\ active' = active /\ session' = session /\ game' \subseteq game
    BY <1>2, PartyActionStep
  <2>2. QED
    BY <1>1, <2>1 DEF Told
<1>3. CASE OtherAction
  <2>1. partyIDByUser' = partyIDByUser
    BY <1>1, <1>3, OtherActionStep
  <2>2. ASSUME NEW u \in Users, Login(u) PROVE GroupInv'
    BY <1>1, <2>1, <2>2 DEF Login
  <2>3. ASSUME NEW u \in Users, Reconcile(u) PROVE GroupInv'
    <3>1. work.party = partyIDByUser[u]
      BY <2>3 DEF Reconcile, IInv, WorkInv
    <3>2. /\ active' = active /\ game' = game
          /\ group' = IF work.party # 0 /\ CanClaim(u, work.party)
                      THEN [group EXCEPT ![u] = work.party] ELSE group
          /\ session' = [session EXCEPT ![u] = IF u \in active THEN "bound" ELSE "stale"]
      BY <2>3 DEF Reconcile, Claimed
    <3>3. u \in active => group'[u] = partyIDByUser[u]
      BY <1>1, <3>1, <3>2 DEF CanClaim
    <3>4. u \notin active => group' = group
      BY <3>2 DEF CanClaim
    <3>5. \A v \in Users : v # u => group'[v] = group[v] /\ session'[v] = session[v]
      BY <1>1, <3>2
    <3>6. session'[u] = IF u \in active THEN "bound" ELSE "stale"
      BY <1>1, <3>2
    <3>7. QED
      BY <1>1, <2>1, <3>2, <3>3, <3>4, <3>5, <3>6
  <2>4. ASSUME NEW u \in Users, Logout(u) PROVE GroupInv'
    BY <1>1, <2>1, <2>4 DEF Logout, Closed
  <2>5. ASSUME NEW u \in Users, Disconnect(u) PROVE GroupInv'
    BY <1>1, <2>1, <2>5 DEF Disconnect, KeepProfiles
  <2>6. ASSUME NEW u \in Users, GameEnds(u) \/ KickBegin(u) PROVE GroupInv'
    BY <1>1, <2>1, <2>6 DEF GameEnds, KickBegin, KeepConnections
  <2>7. ASSUME NEW u \in Users, StartMatch(u) \/ CancelMatch(u) \/ CleanUp(u) PROVE GroupInv'
    BY <1>1, <2>1, <2>7 DEF StartMatch, CancelMatch, CleanUp, KeepProfiles, KeepConnections
  <2>8. ASSUME NEW id \in fills, Fill(id) \/ FillRefused(id) PROVE GroupInv'
    BY <1>1, <2>1, <2>8 DEF Fill, FillRefused, KeepProfiles, KeepConnections
  <2>9. CASE KickClose
    BY <1>1, <2>1, <2>9 DEF KickClose, KeepProfiles
  <2>10. CASE KickEnd
    BY <1>1, <2>1, <2>10 DEF KickEnd, Closed
  <2>11. CASE Form \/ Announce
    BY <1>1, <2>1, <2>11 DEF Form, Announce, KeepConnections
  <2>12. QED
    BY <1>3, <2>2, <2>3, <2>4, <2>5, <2>6, <2>7, <2>8, <2>9, <2>10, <2>11 DEF OtherAction
<1>4. QED
  BY <1>2, <1>3, Actions

-----------------------------------------------------------------------------
(***************************************************************************)
(* The gate: what a job looked up is still so when it goes on.             *)
(***************************************************************************)
LEMMA WorkStep ==
  ASSUME IInv, Next
  PROVE  WorkInv'
<1>1. /\ session \in [Users -> {"none", "bound", "stale", "forgotten"}]
      /\ work \in [kind : {"none", "login", "leave", "form", "roster"},
                   user : Users \union {Nobody}, party : 0 .. MaxParties,
                   roster : SUBSET Users, isFill : BOOLEAN]
      /\ kick \in [user : Users \union {Nobody}, pc : {"none", "close", "force", "logout"},
                   isLive : BOOLEAN]
      /\ NoWork.kind = "none" /\ NoKick.pc = "none"
  BY DEF IInv, TypeOK, NoWork, NoKick
<1>2. WorkInv
  BY DEF IInv
\* Nothing but a look-up makes a job that WorkInv is about.
<1>3. ASSUME work'.kind \notin {"login", "leave"}, kick'.pc # "none" => kick'.user \in Users
      PROVE  WorkInv'
  BY <1>3 DEF WorkInv
\* Without the gate nobody joins or leaves, plays or queues.
<1>4. ASSUME work' = work, parties' = parties, partyIDByUser' = partyIDByUser,
             game' \subseteq game, sessionByUsers' = sessionByUsers,
             \A u \in Users : session[u] = "none" => session'[u] = "none",
             kick'.pc # "none" => kick'.user \in Users
      PROVE  WorkInv'
  BY <1>2, <1>4 DEF WorkInv, Members, IsQueued
<1>5. ASSUME NEW u \in Users,
             \/ CreateParty(u) \/ LeaveParty(u) \/ RemovePlayer(u)
             \/ \E p \in DOMAIN parties : JoinParty(u, p) \/ DestroyParty(u, p)
      PROVE  WorkInv'
  <2>1. work' = work /\ work.kind = "none" /\ kick' = kick
    BY <1>1, <1>5 DEF CreateParty, LeaveParty, RemovePlayer, JoinParty, DestroyParty, IsGateFree
  <2>2. QED
    BY <1>2, <1>3, <2>1 DEF WorkInv
<1>6. ASSUME NEW u \in Users, Login(u) PROVE WorkInv'
  <2>1. PartyOf(u) = partyIDByUser[u] /\ partyIDByUser[u] \in 0 .. MaxParties
    BY Found, Typed DEF IInv, PartyTyped
  <2>2. IsMember(u, PartyOf(u)) \/ PartyOf(u) = 0
    BY <2>1, Typed DEF IsMember, IInv, PartyInv, PartyTyped
  <2>3. /\ work'.kind = "login" /\ work'.user = u /\ work'.party = partyIDByUser[u]
        /\ partyIDByUser' = partyIDByUser /\ kick' = kick
    BY <1>6, <2>1, <2>2 DEF Login, KeepParties, NoWork
  <2>4. QED
    BY <1>2, <2>3 DEF WorkInv
<1>7. ASSUME NEW u \in Users, CleanUp(u) PROVE WorkInv'
  <2>1. /\ parties' = parties /\ partyIDByUser' = partyIDByUser /\ game' = game
        /\ sessionByUsers' = sessionByUsers /\ session' = session /\ kick' = kick
    BY <1>7 DEF CleanUp, KeepProfiles, KeepParties, KeepQueue
  <2>2. CASE work' = work
    BY <1>2, <1>4, <2>1, <2>2 DEF WorkInv
  <2>3. CASE /\ ShouldLeave(u)
             /\ work' = [NoWork EXCEPT !.kind = "leave", !.user = u, !.party = PartyOf(u)]
    <3>1. PartyOf(u) = partyIDByUser[u]
      BY Found DEF IInv
    <3>2. work'.kind = "leave" /\ work'.user = u /\ work'.party = partyIDByUser[u]
      BY <2>3, <3>1 DEF NoWork
    <3>3. QED
      BY <1>2, <2>1, <2>3, <3>1, <3>2 DEF WorkInv, ShouldLeave, IsIdle, Members, IsQueued
  <2>4. QED
    BY <1>7, <2>2, <2>3 DEF CleanUp
<1>8. ASSUME NEW u \in Users, Reconcile(u) PROVE WorkInv'
  BY <1>1, <1>2, <1>3, <1>8 DEF Reconcile, WorkInv
<1>9. ASSUME NEW u \in Users, StartMatch(u) PROVE WorkInv'
  <2>1. work.kind = "none" /\ kick' = kick
    BY <1>1, <1>9 DEF StartMatch, IsGateFree
  <2>2. work' = work \/ work'.kind = "form"
    BY <1>9 DEF StartMatch, Enter, FormWith, NoWork
  <2>3. QED
    BY <1>2, <1>3, <2>1, <2>2 DEF WorkInv
<1>10. ASSUME NEW u \in Users, CancelMatch(u) \/ Logout(u) PROVE WorkInv'
  <2>1. work.kind = "none" /\ work' = work /\ kick'.user = kick.user /\ kick'.pc = kick.pc
    BY <1>1, <1>10 DEF CancelMatch, Logout, IsGateFree
  <2>2. QED
    BY <1>2, <1>3, <2>1 DEF WorkInv
<1>11. ASSUME NEW u \in Users, GameEnds(u) \/ Disconnect(u) PROVE WorkInv'
  BY <1>1, <1>2, <1>4, <1>11 DEF GameEnds, Disconnect, KeepParties, KeepQueue, KeepProfiles,
     KeepConnections, WorkInv
<1>12. ASSUME NEW u \in Users, KickBegin(u) PROVE WorkInv'
  BY <1>1, <1>2, <1>4, <1>12 DEF KickBegin, KeepParties, KeepQueue, KeepConnections, WorkInv
<1>13. ASSUME NEW id \in fills, Fill(id) \/ FillRefused(id) PROVE WorkInv'
  <2>1. work.kind = "none" /\ kick' = kick
    BY <1>1, <1>13 DEF Fill, FillRefused, IsGateFree
  <2>2. work' = work \/ work'.kind = "form"
    BY <1>13 DEF Fill, FillRefused, FormWith, NoWork
  <2>3. QED
    BY <1>2, <1>3, <2>1, <2>2 DEF WorkInv
<1>14. CASE KickClose
  BY <1>1, <1>2, <1>4, <1>14 DEF KickClose, KeepParties, KeepQueue, KeepProfiles, HasUser, WorkInv
<1>15. CASE KickForce
  <2>1. work.kind = "none" /\ work' = work /\ kick'.user = kick.user /\ kick.user \in Users
    BY <1>1, <1>2, <1>15 DEF KickForce, IsGateFree, WorkInv
  <2>2. QED
    BY <1>3, <2>1
<1>16. CASE KickEnd
  BY <1>1, <1>2, <1>4, <1>16 DEF KickEnd, Closed, KeepParties, KeepQueue, WorkInv
<1>17. CASE CleanUpLeave \/ Form \/ Announce
  BY <1>1, <1>2, <1>3, <1>17 DEF CleanUpLeave, Form, Announce, WorkInv
<1>18. QED
  BY <1>5, <1>6, <1>7, <1>8, <1>9, <1>10, <1>11, <1>12, <1>13, <1>14, <1>15, <1>16, <1>17,
     Actions DEF PartyAction, OtherAction

-----------------------------------------------------------------------------
(***************************************************************************)
(* The queue and its index.                                                *)
(***************************************************************************)
Matches(rs, index) ==
  /\ \A u \in Users, r \in rs : IsOf(r, u) <=> index[u] = r.id
  /\ \A u \in Users : index[u] # 0 => index[u] \in Ids(rs)
  /\ \A r, s \in rs : r.id = s.id => r = s

\* Who waits plays no game, and is in no roster that one is being formed of.
NobodyTwice ==
  \A u \in Users : IsQueued(u) =>
    /\ u \notin game
    /\ work.kind \in {"form", "roster"} => u \notin work.roster

LEMMA QueueParts == QueueInv <=> Matches(queue, sessionByUsers) /\ NobodyTwice
  BY DEF QueueInv, QueueAgrees, Matches, NobodyTwice, IsQueued

\* Reservations leave the queue with all of their players.
LEMMA Dequeued ==
  ASSUME NEW rs, NEW index \in [Users -> Nat], NEW gone \in SUBSET rs,
         Matches(rs, index), \A r \in rs : r.id # 0
  PROVE  Matches(rs \ gone, Unindexed(index, PlayersOf(gone)))
<1> DEFINE after == Unindexed(index, PlayersOf(gone))
<1>1. \A u \in Users : after[u] = IF \E r \in gone : IsOf(r, u) THEN 0 ELSE index[u]
  BY DEF Unindexed, PlayersOf
<1> HIDE DEF after
<1>2. ASSUME NEW u \in Users, NEW r \in rs \ gone PROVE IsOf(r, u) <=> after[u] = r.id
  <2>1. r.id # 0 /\ (IsOf(r, u) <=> index[u] = r.id)
    BY DEF Matches
  <2>2. ASSUME NEW g \in gone, IsOf(g, u) PROVE ~IsOf(r, u)
    BY <2>2, <2>1 DEF Matches
  <2>3. QED
    BY <1>1, <2>1, <2>2
<1>3. ASSUME NEW u \in Users, after[u] # 0 PROVE after[u] \in Ids(rs \ gone)
  <2>1. after[u] = index[u] /\ ~\E r \in gone : IsOf(r, u)
    BY <1>1, <1>3
  <2>2. PICK r \in rs : index[u] = r.id
    BY <1>3, <2>1 DEF Matches, Ids
  <2>3. r \notin gone
    BY <2>1, <2>2 DEF Matches
  <2>4. QED
    BY <2>1, <2>2, <2>3 DEF Ids
<1>4. QED
  BY <1>2, <1>3 DEF Matches, after

\* A reservation enters the queue with players who did not wait.
LEMMA Entered ==
  ASSUME NEW r, sessionByUsers \in [Users -> Nat], Matches(queue, sessionByUsers),
         r.id # 0, \A s \in queue : s.id # 0 /\ s.id # r.id,
         \A u \in Users : IsOf(r, u) => ~IsQueued(u)
  PROVE  Matches(queue \union {r}, Enqueued(r))
<1>1. \A u \in Users : Enqueued(r)[u] = IF IsOf(r, u) THEN r.id ELSE sessionByUsers[u]
  BY DEF Enqueued
<1>2. \A u \in Users : sessionByUsers[u] # r.id
  BY DEF Matches, Ids
<1>3. ASSUME NEW u \in Users, NEW s \in queue PROVE IsOf(s, u) <=> Enqueued(r)[u] = s.id
  <2>1. (IsOf(s, u) <=> sessionByUsers[u] = s.id) /\ s.id # r.id
    BY DEF Matches
  <2>2. IsOf(r, u) => ~IsOf(s, u)
    BY <2>1 DEF IsQueued
  <2>3. QED
    BY <1>1, <2>1, <2>2
<1>4. QED
  BY <1>1, <1>2, <1>3 DEF Matches, Ids

\* Dequeue, whatever else the step does with games that end.
LEMMA DequeueStep ==
  ASSUME TypeOK, QueueInv, NEW gone \in SUBSET queue, NEW timers,
         Dequeue(gone, PlayersOf(gone), timers)
  PROVE  /\ Matches(queue, sessionByUsers)'
         /\ \A u \in Users : IsQueued(u)' => IsQueued(u) /\ u \notin PlayersOf(gone)
<1>1. sessionByUsers \in [Users -> Nat] /\ (\A r \in queue : r.id # 0)
  BY SMTT(30), LobbyAssumption DEF TypeOK
<1>2. queue' = queue \ gone /\ sessionByUsers' = Unindexed(sessionByUsers, PlayersOf(gone))
  BY DEF Dequeue
<1>3. Matches(queue', sessionByUsers')
  BY <1>1, <1>2, QueueParts, Dequeued
<1>4. Matches(queue, sessionByUsers)'
  BY <1>3 DEF Matches, Ids, IsOf
<1>5. QED
  BY <1>2, <1>4 DEF Unindexed, IsQueued

\* The players of a reservation about to enter are in no game.
LEMMA NotPlaying ==
  ASSUME IInv, NEW u \in Users, HasUser(u), ~IsInGame(u),
         NEW users, users = IF EntersAsTeam(u) THEN parties[PartyOf(u)] ELSE <<u>>,
         CanEnterWith(u, users)
  PROVE  \A v \in ToSet(users) : v \notin game /\ ~IsQueued(v)
<1>1. \A v \in ToSet(users) : ~IsQueued(v)
  BY DEF CanEnterWith
<1>2. CASE EntersAsTeam(u)
  BY <1>1, <1>2 DEF CanEnterWith, IsTeamReady
<1>3. CASE ~EntersAsTeam(u)
  <2>1. u \notin game
    BY DEF HasUser, IsInGame, IInv, GroupInv
  <2>2. ToSet(users) = {u}
    BY <1>3 DEF ToSet
  <2>3. QED
    BY <1>1, <2>1, <2>2
<1>4. QED
  BY <1>2, <1>3

LEMMA EnterStep ==
  ASSUME IInv, work.kind = "none", NEW u \in Users, NEW r,
         r.id = made.reservations + 1,
         \A v \in Users : IsOf(r, v) => v \notin game /\ ~IsQueued(v),
         Enter(u, r), game' = game
  PROVE  QueueInv'
<1> DEFINE waiting == queue \union {r}
           fit == Compatible(waiting)
           isFull == Cardinality(PlayersOf(fit)) = Expected
<1>1. /\ sessionByUsers \in [Users -> Nat] /\ r.id \in Nat /\ r.id # 0
      /\ \A s \in queue : s.id # 0 /\ s.id # r.id
  <2>1. made.reservations \in Nat
    BY Typed, LobbyAssumption DEF IInv
  <2>2. \A s \in queue : s.id \in 1 .. made.reservations
    BY DEF IInv, TypeOK
  <2>3. sessionByUsers \in [Users -> Nat]
    BY LobbyAssumption DEF IInv, TypeOK
  <2>4. QED
    BY <2>1, <2>2, <2>3
<1>2. Matches(queue, sessionByUsers) /\ NobodyTwice
  BY QueueParts DEF IInv
<1>3. Matches(waiting, Enqueued(r))
  BY <1>1, <1>2, Entered
<1>4. \A v \in Users : Enqueued(r)[v] # 0 => v \notin game
  BY <1>2 DEF Enqueued, NobodyTwice, IsQueued
<1>5. CASE /\ queue' = waiting \ fit /\ sessionByUsers' = Unindexed(Enqueued(r), PlayersOf(fit))
           /\ FormWith(u, fit, ~isFull)
  <2>1. fit \subseteq waiting
    BY DEF Compatible
  <2>2. Enqueued(r) \in [Users -> Nat] /\ (\A s \in waiting : s.id # 0)
    BY <1>1 DEF Enqueued
  <2> HIDE DEF fit, waiting
  <2>3. Matches(queue', sessionByUsers')
    BY <1>3, <1>5, <2>1, <2>2, Dequeued
  <2>4. Matches(queue, sessionByUsers)'
    BY <2>3 DEF Matches, Ids, IsOf
  <2>5. work'.roster = PlayersOf(fit)
    BY <1>5 DEF FormWith, NoWork
  <2>6. NobodyTwice'
    BY <1>4, <1>5, <2>5 DEF NobodyTwice, IsQueued, Unindexed
  <2>7. QED
    BY <2>4, <2>6, QueueParts, PTL
<1>6. CASE queue' = waiting /\ sessionByUsers' = Enqueued(r) /\ UNCHANGED work
  <2>1. Matches(queue, sessionByUsers)'
    BY <1>3, <1>6 DEF Matches, Ids, IsOf
  <2>2. NobodyTwice'
    BY <1>4, <1>6 DEF NobodyTwice, IsQueued
  <2>3. QED
    BY <2>1, <2>2, QueueParts, PTL
<1>7. QED
  BY <1>5, <1>6 DEF Enter

LEMMA QueueStep ==
  ASSUME IInv, Next
  PROVE  QueueInv'
<1>1. TypeOK /\ QueueInv /\ Matches(queue, sessionByUsers) /\ NobodyTwice
  BY QueueParts DEF IInv
<1>2. /\ work \in [kind : {"none", "login", "leave", "form", "roster"},
                   user : Users \union {Nobody}, party : 0 .. MaxParties,
                   roster : SUBSET Users, isFill : BOOLEAN]
      /\ NoWork.kind = "none"
  BY <1>1 DEF TypeOK, NoWork
\* Most steps leave the queue alone, and no one starts to play.
<1>3. ASSUME KeepQueue, game' \subseteq game,
             work' = work \/ work'.kind \in {"none", "login", "leave"}
      PROVE  QueueInv'
  BY <1>1, <1>3 DEF KeepQueue, QueueInv, QueueAgrees, IsQueued, NobodyTwice, Ids, IsOf
<1>4. ASSUME NEW u \in Users,
             \/ CreateParty(u) \/ LeaveParty(u) \/ RemovePlayer(u)
             \/ \E p \in DOMAIN parties : JoinParty(u, p) \/ DestroyParty(u, p)
      PROVE  QueueInv'
  BY <1>3, <1>4 DEF CreateParty, LeaveParty, RemovePlayer, JoinParty, DestroyParty
<1>5. ASSUME NEW u \in Users,
             \/ Login(u) \/ GameEnds(u) \/ Reconcile(u) \/ Logout(u)
             \/ Disconnect(u) \/ CleanUp(u) \/ KickBegin(u)
      PROVE  QueueInv'
  <2>1. KeepQueue
    BY <1>5 DEF Login, GameEnds, Reconcile, Logout, Disconnect, CleanUp, KickBegin
  <2>2. game' \subseteq game
    BY <1>5 DEF Login, GameEnds, Reconcile, Logout, Disconnect, CleanUp, KickBegin,
       KeepProfiles, Closed
  <2>3. work' = work \/ work'.kind \in {"none", "login", "leave"}
    <3>1. Login(u) => work'.kind = "login"
      BY DEF Login, NoWork
    <3>2. Reconcile(u) => work'.kind = "none"
      BY DEF Reconcile, NoWork
    <3>3. CleanUp(u) => work' = work \/ work'.kind = "leave"
      BY DEF CleanUp, NoWork
    <3>4. GameEnds(u) \/ Logout(u) \/ Disconnect(u) \/ KickBegin(u) => work' = work
      BY DEF GameEnds, Logout, Disconnect, KickBegin
    <3>5. QED
      BY <1>5, <3>1, <3>2, <3>3, <3>4
  <2>4. QED
    BY <1>3, <2>1, <2>2, <2>3
<1>6. ASSUME KickClose \/ KickEnd \/ CleanUpLeave PROVE QueueInv'
  BY <1>3, <1>6 DEF KickClose, KickEnd, CleanUpLeave, KeepProfiles, Closed, NoWork
<1>7. ASSUME NEW u \in Users, StartMatch(u) PROVE QueueInv'
  <2> DEFINE users == IF EntersAsTeam(u) THEN parties[PartyOf(u)] ELSE <<u>>
             r == [id |-> made.reservations + 1, users |-> users]
  <2>1. HasUser(u) /\ ~IsInGame(u) /\ game' = game /\ work.kind = "none"
    BY <1>2, <1>7 DEF StartMatch, KeepProfiles, IsGateFree
  <2>2. CASE CanEnterWith(u, users) /\ Enter(u, r)
    <3>1. \A v \in ToSet(users) : v \notin game /\ ~IsQueued(v)
      BY <2>1, <2>2, NotPlaying
    <3>2. \A v \in Users : IsOf(r, v) => v \notin game /\ ~IsQueued(v)
      BY <3>1 DEF IsOf
    <3>3. r.id = made.reservations + 1
      OBVIOUS
    <3> HIDE DEF r, users
    <3>4. QED
      BY <2>1, <2>2, <3>2, <3>3, EnterStep
  <2>3. CASE KeepQueue /\ UNCHANGED work
    BY <1>3, <2>1, <2>3
  <2>4. QED
    BY <1>7, <2>2, <2>3 DEF StartMatch
\* Reservations leave, and perhaps a game is to be formed of some.
<1>8. ASSUME NEW gone \in SUBSET queue, NEW timers, Dequeue(gone, PlayersOf(gone), timers),
             game' = game,
             \/ work' = work
             \/ \E fit \in SUBSET gone : work'.roster = PlayersOf(fit)
      PROVE  QueueInv'
  <2>1. /\ Matches(queue, sessionByUsers)'
        /\ \A u \in Users : IsQueued(u)' => IsQueued(u) /\ u \notin PlayersOf(gone)
    BY <1>1, <1>8, DequeueStep
  <2>2. NobodyTwice'
    BY <1>1, <1>8, <2>1 DEF NobodyTwice, PlayersOf
  <2>3. QED
    BY <2>1, <2>2, QueueParts, PTL
<1>9. ASSUME NEW u \in Users, CancelMatch(u) PROVE QueueInv'
  BY <1>8, <1>9 DEF CancelMatch, KeepProfiles
<1>10. ASSUME NEW id \in fills, FillRefused(id) PROVE QueueInv'
  BY <1>8, <1>10 DEF FillRefused, KeepProfiles
<1>11. ASSUME NEW id \in fills, Fill(id) PROVE QueueInv'
  <2> DEFINE gone == {r \in Compatible(queue) : ~IsAvailable(r)}
             fit == Compatible(queue \ gone)
  <2>1. gone \subseteq queue /\ fit \subseteq queue /\ game' = game
    BY <1>11 DEF Compatible, Fill, KeepProfiles
  <2>2. CASE /\ Dequeue(gone \union fit, PlayersOf(gone \union fit), fills)
             /\ work' = work \/ FormWith(Nobody, fit, TRUE)
    <3>1. work' = work \/ work'.roster = PlayersOf(fit)
      BY <2>2 DEF FormWith, NoWork
    <3> HIDE DEF fit, gone
    <3>2. QED
      BY <1>8, <2>1, <2>2, <3>1
  <2>3. CASE work' = work /\ Dequeue(gone, PlayersOf(gone), fills \ {id})
    <3> HIDE DEF gone
    <3>1. QED
      BY <1>8, <2>1, <2>3
  <2>4. QED
    BY <1>11, <2>2, <2>3 DEF Fill
<1>12. CASE KickForce
  <2> DEFINE u == kick.user
             gone == {r \in queue : r.id = sessionByUsers[u]}
  <2>1. /\ game' = game /\ work' = work
        /\ Dequeue(gone, IF gone = {} THEN {u} ELSE PlayersOf(gone), fills)
    BY <1>12 DEF KickForce
  <2>2. u \in Users
    BY <1>12 DEF KickForce, IInv, WorkInv
  <2>3. CASE gone # {}
    <3>1. gone \subseteq queue /\ Dequeue(gone, PlayersOf(gone), fills)
      BY <2>1, <2>3
    <3> HIDE DEF gone
    <3>2. QED
      BY <1>8, <2>1, <3>1
  <2>4. CASE gone = {}
    <3>1. sessionByUsers[u] = 0
      BY <1>1, <2>2, <2>4 DEF Matches, Ids
    <3>2. queue' = queue /\ sessionByUsers' = sessionByUsers /\ game' = game
      BY <1>1, <2>1, <2>4, <3>1 DEF Dequeue, Unindexed, TypeOK
    <3>3. QED
      BY <1>1, <2>1, <3>2 DEF QueueInv, QueueAgrees, IsQueued, NobodyTwice, Ids, IsOf
  <2>5. QED
    BY <2>3, <2>4
<1>13. CASE Form
  <2>1. queue' = queue /\ sessionByUsers' = sessionByUsers
    BY <1>13 DEF Form, KeepQueue
  <2>2. CASE game' = game \union work.roster /\ work' = [work EXCEPT !.kind = "roster"]
    <3>1. work'.kind = "roster" /\ work'.roster = work.roster /\ work.kind = "form"
      BY <1>2, <1>13, <2>2 DEF Form
    <3>2. NobodyTwice'
      BY <1>1, <2>1, <2>2, <3>1 DEF NobodyTwice, IsQueued
    <3>3. QED
      BY <1>1, <2>1, <3>2 DEF QueueInv, QueueAgrees, IsQueued, NobodyTwice, Ids, IsOf
  <2>3. CASE work' = NoWork /\ UNCHANGED game
    BY <1>2, <1>3, <1>13, <2>3 DEF Form
  <2>4. QED
    BY <1>13, <2>2, <2>3 DEF Form
<1>14. CASE Announce
  BY <1>2, <1>3, <1>14 DEF Announce
<1>15. QED
  BY <1>4, <1>5, <1>6, <1>7, <1>9, <1>10, <1>11, <1>12, <1>13, <1>14, Actions
  DEF PartyAction, OtherAction

-----------------------------------------------------------------------------
(***************************************************************************)
(* Types, and the theorems.                                                *)
(***************************************************************************)
Profiles == active \subseteq Users /\ game \subseteq Users /\ group \in [Users -> 0 .. MaxParties]
Connections ==
  /\ session \in [Users -> {"none", "bound", "stale", "forgotten"}]
  /\ preserved \in [Users -> 0 .. MaxParties]
  /\ cleanup \in [Users -> [isDue : BOOLEAN, party : 0 .. MaxParties]]
Queue ==
  /\ made \in [parties : 0 .. MaxParties, reservations : 0 .. MaxReservations]
  /\ \A r \in queue : r \in [id : 1 .. made.reservations, users : Seq(Users)]
  /\ sessionByUsers \in [Users -> 0 .. MaxReservations] /\ fills \subseteq Ids(queue)
Jobs ==
  /\ work \in [kind : {"none", "login", "leave", "form", "roster"}, user : Users \union {Nobody},
               party : 0 .. MaxParties, roster : SUBSET Users, isFill : BOOLEAN]
  /\ kick \in [user : Users \union {Nobody}, pc : {"none", "close", "force", "logout"},
               isLive : BOOLEAN]

LEMMA TypeParts == TypeOK <=> PartyTyped /\ Profiles /\ Connections /\ Queue /\ Jobs
  BY DEF TypeOK, PartyTyped, Profiles, Connections, Queue, Jobs

LEMMA ProfilesStep == ASSUME IInv, Next PROVE Profiles'
<1>1. Profiles /\ work.party \in 0 .. MaxParties /\ work.roster \subseteq Users
  BY TypeParts DEF IInv, Jobs
<1>2. CASE PartyAction
  BY <1>1, <1>2, PartyActionStep DEF Profiles, Told
<1>3. ASSUME NEW u \in Users, Login(u) \/ GameEnds(u) \/ KickBegin(u) PROVE Profiles'
  BY <1>1, <1>3 DEF Login, GameEnds, KickBegin, Profiles
<1>4. ASSUME NEW u \in Users, Reconcile(u) PROVE Profiles'
  BY <1>1, <1>4 DEF Reconcile, Claimed, Profiles
<1>5. ASSUME (\E u \in Users : Logout(u)) \/ KickEnd PROVE Profiles'
  BY <1>1, <1>5, LobbyAssumption DEF Logout, KickEnd, Closed, Profiles
<1>6. ASSUME \/ \E u \in Users : StartMatch(u) \/ CancelMatch(u) \/ Disconnect(u) \/ CleanUp(u)
             \/ \E id \in fills : Fill(id) \/ FillRefused(id)
             \/ KickClose
      PROVE  Profiles'
  BY <1>1, <1>6 DEF StartMatch, CancelMatch, Disconnect, CleanUp, Fill, FillRefused, KickClose,
     KeepProfiles, Profiles
<1>7. CASE Form \/ Announce
  BY <1>1, <1>7 DEF Form, Announce, Profiles
<1>8. QED
  BY <1>2, <1>3, <1>4, <1>5, <1>6, <1>7, Actions DEF OtherAction

LEMMA ConnectionsStep == ASSUME IInv, Next PROVE Connections'
<1>1. Connections
  BY TypeParts DEF IInv
<1>2. ASSUME NEW u \in Users, CreateParty(u) \/ RemovePlayer(u) \/ StartMatch(u)
      PROVE  Connections'
  BY <1>1, <1>2, LobbyAssumption DEF CreateParty, RemovePlayer, StartMatch, Connections
<1>3. ASSUME NEW u \in Users, LeaveParty(u) PROVE Connections'
  <2>1. PartyOf(u) \in 0 .. MaxParties
    BY Found, Typed DEF IInv, PartyTyped
  <2>2. QED
    BY <1>1, <1>3, <2>1 DEF LeaveParty, Connections
<1>4. ASSUME NEW u \in Users, NEW p \in DOMAIN parties, JoinParty(u, p) \/ DestroyParty(u, p)
      PROVE  Connections'
  <2>1. CASE JoinParty(u, p)
    BY <1>1, <2>1, LobbyAssumption DEF JoinParty, Connections
  <2>2. CASE DestroyParty(u, p)
    BY <1>1, <2>2 DEF DestroyParty, KeepConnections, Connections
  <2>3. QED
    BY <1>4, <2>1, <2>2
<1>5. ASSUME NEW u \in Users, Login(u) \/ Reconcile(u) \/ Logout(u) PROVE Connections'
  BY <1>1, <1>5 DEF Login, Reconcile, Logout, Connections
<1>6. ASSUME NEW u \in Users, Disconnect(u) PROVE Connections'
  BY <1>1, <1>6, LobbyAssumption DEF Disconnect, HasUser, Connections
<1>7. ASSUME NEW u \in Users, CleanUp(u) PROVE Connections'
  BY <1>1, <1>7, LobbyAssumption DEF CleanUp, NoCleanup, Connections
<1>8. ASSUME NEW u \in Users, GameEnds(u) \/ CancelMatch(u) \/ KickBegin(u) PROVE Connections'
  BY <1>1, <1>8 DEF GameEnds, CancelMatch, KickBegin, KeepConnections, Connections
<1>9. ASSUME \/ \E id \in fills : Fill(id) \/ FillRefused(id)
             \/ CleanUpLeave \/ Form \/ Announce \/ KickForce
      PROVE  Connections'
  BY <1>1, <1>9 DEF Fill, FillRefused, CleanUpLeave, Form, Announce, KickForce,
     KeepConnections, Connections
<1>10. CASE KickClose \/ KickEnd
  BY <1>1, <1>10, LobbyAssumption DEF KickClose, KickEnd, Connections
<1>11. QED
  BY <1>2, <1>3, <1>4, <1>5, <1>6, <1>7, <1>8, <1>9, <1>10, Actions DEF PartyAction, OtherAction

LEMMA QueueTypes ==
  ASSUME IInv, Next
  PROVE  Queue'
<1>1. Queue /\ (\A r \in queue : r.id \in 1 .. made.reservations)
  BY TypeParts DEF IInv, Queue
<1>2. ASSUME KeepQueue, made' = made PROVE Queue'
  BY <1>1, <1>2 DEF KeepQueue, Queue, Ids
\* Reservations leave with their fills.
<1>3. ASSUME NEW gone, NEW users, NEW timers \in SUBSET fills, Dequeue(gone, users, timers),
             made' = made
      PROVE  Queue'
  <2>1. sessionByUsers' \in [Users -> 0 .. MaxReservations]
    BY <1>1, <1>3, LobbyAssumption DEF Dequeue, Unindexed, Queue
  <2>2. fills' \subseteq Ids(queue)'
    BY <1>1, <1>3 DEF Dequeue, Queue, Ids
  <2>3. \A r \in queue' : r \in queue
    BY <1>3 DEF Dequeue
  <2>4. QED
    BY <1>1, <1>3, <2>1, <2>2, <2>3 DEF Queue
<1>4. ASSUME NEW u \in Users,
             \/ LeaveParty(u) \/ RemovePlayer(u)
             \/ \E p \in DOMAIN parties : JoinParty(u, p) \/ DestroyParty(u, p)
             \/ Login(u) \/ GameEnds(u) \/ Reconcile(u) \/ Logout(u)
             \/ Disconnect(u) \/ CleanUp(u) \/ KickBegin(u)
      PROVE  Queue'
  BY <1>2, <1>4 DEF LeaveParty, RemovePlayer, JoinParty, DestroyParty, Login, GameEnds,
     Reconcile, Logout, Disconnect, CleanUp, KickBegin
<1>5. ASSUME KickClose \/ KickEnd \/ CleanUpLeave \/ Form \/ Announce PROVE Queue'
  BY <1>2, <1>5 DEF KickClose, KickEnd, CleanUpLeave, Form, Announce
<1>6. ASSUME NEW u \in Users, CreateParty(u) PROVE Queue'
  <2>1. KeepQueue
    BY <1>6 DEF CreateParty
  <2>2. \/ made' = made
        \/ /\ made.parties + 1 <= MaxParties
           /\ made' = [made EXCEPT !.parties = made.parties + 1]
    BY <1>6 DEF CreateParty
  <2>3. /\ made' \in [parties : 0 .. MaxParties, reservations : 0 .. MaxReservations]
        /\ made'.reservations = made.reservations
    BY <1>1, <2>2, LobbyAssumption DEF Queue
  <2>4. QED
    BY <1>1, <2>1, <2>3 DEF KeepQueue, Queue, Ids
<1>7. ASSUME NEW u \in Users, StartMatch(u) PROVE Queue'
  <2> DEFINE users == IF EntersAsTeam(u) THEN parties[PartyOf(u)] ELSE <<u>>
             id == made.reservations + 1
             r == [id |-> id, users |-> users]
             waiting == queue \union {r}
             fit == Compatible(waiting)
  <2>1. CASE KeepQueue /\ UNCHANGED <<made, work>>
    BY <1>2, <2>1
  <2>2. CASE id <= MaxReservations /\ Enter(u, r)
    <3>1. users \in Seq(Users)
      <4>1. EntersAsTeam(u) => PartyOf(u) \in DOMAIN parties
        BY Found, Typed DEF EntersAsTeam, IInv, PartyTyped
      <4>2. QED
        BY <4>1, Typed DEF IInv, PartyTyped
    <3>2. /\ made' = [made EXCEPT !.reservations = id]
          /\ made' \in [parties : 0 .. MaxParties, reservations : 0 .. MaxReservations]
          /\ made'.reservations = id /\ id \in 1 .. MaxReservations
      BY <1>1, <2>2, LobbyAssumption DEF Queue, Enter
    <3>3. \A s \in waiting : s \in [id : 1 .. made'.reservations, users : Seq(Users)]
      <4>1. r \in [id : 1 .. made'.reservations, users : Seq(Users)]
        BY <3>1, <3>2
      <4>2. \A s \in queue : s \in [id : 1 .. made'.reservations, users : Seq(Users)]
        BY <1>1, <3>2, LobbyAssumption DEF Queue
      <4>3. QED
        BY <4>1, <4>2
    <3>4. Enqueued(r) \in [Users -> 0 .. MaxReservations]
      BY <1>1, <3>2 DEF Enqueued, Queue
    <3>5. CASE /\ queue' = waiting \ fit /\ fills' = fills \ Ids(fit)
               /\ sessionByUsers' = Unindexed(Enqueued(r), PlayersOf(fit))
      <4> HIDE DEF r, id, users
      <4>1. sessionByUsers' \in [Users -> 0 .. MaxReservations]
        BY <3>4, <3>5, LobbyAssumption DEF Unindexed
      <4>2. fills' \subseteq Ids(queue)'
        BY <1>1, <3>5 DEF Queue, Ids
      <4>3. QED
        BY <3>2, <3>3, <3>5, <4>1, <4>2 DEF Queue
    <3>6. CASE /\ queue' = waiting /\ sessionByUsers' = Enqueued(r)
               /\ fills' \subseteq fills \union {r.id}
      <4>1. fills' \subseteq Ids(queue)'
        BY <1>1, <3>6 DEF Queue, Ids
      <4>2. QED
        BY <3>2, <3>3, <3>4, <3>6, <4>1 DEF Queue
    <3>7. QED
      BY <2>2, <3>5, <3>6 DEF Enter
  <2>3. QED
    BY <1>7, <2>1, <2>2 DEF StartMatch
<1>8. ASSUME NEW u \in Users, CancelMatch(u) PROVE Queue'
  BY <1>3, <1>8 DEF CancelMatch
<1>9. ASSUME NEW id \in fills, Fill(id) \/ FillRefused(id) PROVE Queue'
  BY <1>3, <1>9 DEF Fill, FillRefused
<1>10. CASE KickForce
  BY <1>3, <1>10 DEF KickForce
<1>11. QED
  BY <1>4, <1>5, <1>6, <1>7, <1>8, <1>9, <1>10, Actions DEF PartyAction, OtherAction

LEMMA JobsStep == ASSUME IInv, Next PROVE Jobs'
<1>1. /\ Jobs /\ NoKick.user = Nobody
      /\ NoWork \in [kind : {"none", "login", "leave", "form", "roster"},
                     user : Users \union {Nobody}, party : 0 .. MaxParties,
                     roster : SUBSET Users, isFill : BOOLEAN]
      /\ NoKick \in [user : Users \union {Nobody}, pc : {"none", "close", "force", "logout"},
                     isLive : BOOLEAN]
  BY TypeParts, LobbyAssumption DEF IInv, NoWork, NoKick
<1>2. \A u \in Users : PartyOf(u) \in 0 .. MaxParties
  BY Found, Typed DEF IInv, PartyTyped
<1> DEFINE Works == [kind : {"none", "login", "leave", "form", "roster"},
                     user : Users \union {Nobody}, party : 0 .. MaxParties,
                     roster : SUBSET Users, isFill : BOOLEAN]
<1>3. ASSUME NEW u \in Users \union {Nobody}, NEW rs, NEW isFill \in BOOLEAN,
             FormWith(u, rs, isFill)
      PROVE  work' \in Works
  <2>1. PlayersOf(rs) \in SUBSET Users
    BY DEF PlayersOf
  <2>2. work' = [kind |-> "form", user |-> u, party |-> 0, roster |-> PlayersOf(rs),
                 isFill |-> isFill]
    BY <1>3 DEF FormWith, NoWork
  <2>3. QED
    BY <2>1, <2>2, LobbyAssumption
<1>4. ASSUME NEW u \in Users,
             \/ CreateParty(u) \/ LeaveParty(u) \/ RemovePlayer(u)
             \/ \E p \in DOMAIN parties : JoinParty(u, p) \/ DestroyParty(u, p)
             \/ GameEnds(u) \/ Disconnect(u) \/ CancelMatch(u)
      PROVE  Jobs'
  BY <1>1, <1>4 DEF CreateParty, LeaveParty, RemovePlayer, JoinParty, DestroyParty, GameEnds,
     Disconnect, CancelMatch, Jobs
<1>5. ASSUME NEW u \in Users, Login(u) \/ Reconcile(u) PROVE Jobs'
  <2>1. CASE Login(u)
    <3> DEFINE p == IF IsMember(u, PartyOf(u)) THEN PartyOf(u) ELSE 0
    <3>1. work' = [kind |-> "login", user |-> u, party |-> p, roster |-> {}, isFill |-> FALSE]
      BY <2>1 DEF Login, NoWork
    <3>2. p \in 0 .. MaxParties
      BY <1>2, LobbyAssumption
    <3> HIDE DEF p
    <3>3. work' \in Works
      BY <3>1, <3>2
    <3>4. QED
      BY <1>1, <2>1, <3>3 DEF Login, Jobs
  <2>2. CASE Reconcile(u)
    BY <1>1, <2>2 DEF Reconcile, Jobs
  <2>3. QED
    BY <1>5, <2>1, <2>2
<1>6. ASSUME NEW u \in Users, CleanUp(u) PROVE Jobs'
  BY ZenonT(40), <1>1, <1>2, <1>6 DEF CleanUp, Jobs
<1>7. ASSUME NEW u \in Users, Logout(u) \/ KickBegin(u) PROVE Jobs'
  <2>1. CASE Logout(u)
    <3>1. kick' = kick \/ kick' = [kick EXCEPT !.isLive = FALSE]
      BY <2>1 DEF Logout
    <3>2. QED
      BY <1>1, <2>1, <3>1 DEF Logout, Jobs
  <2>2. CASE KickBegin(u)
    <3>1. (u \in active) \in BOOLEAN
      OBVIOUS
    <3>2. kick' = [user |-> u, pc |-> "close", isLive |-> u \in active] /\ work' = work
      BY <2>2 DEF KickBegin
    <3>3. kick' \in [user : Users \union {Nobody}, pc : {"none", "close", "force", "logout"},
                     isLive : BOOLEAN]
      BY <3>1, <3>2
    <3>4. QED
      BY <1>1, <3>2, <3>3 DEF Jobs
  <2>3. QED
    BY <1>7, <2>1, <2>2
<1>8. ASSUME NEW u \in Users, StartMatch(u) PROVE Jobs'
  <2>1. work' = work \/ \E rs : \E isFill \in BOOLEAN : FormWith(u, rs, isFill)
    <3>1. ASSUME NEW r, Enter(u, r)
          PROVE  work' = work \/ \E rs : \E isFill \in BOOLEAN : FormWith(u, rs, isFill)
      <4> DEFINE fit == Compatible(queue \union {r})
                 isFill == ~(Cardinality(PlayersOf(fit)) = Expected)
      <4>1. work' = work \/ FormWith(u, fit, isFill)
        BY <3>1 DEF Enter
      <4>2. isFill \in BOOLEAN
        OBVIOUS
      <4> HIDE DEF fit, isFill
      <4>3. QED
        BY <4>1, <4>2
    <3>2. QED
      BY <1>8, <3>1 DEF StartMatch
  <2>2. kick' = kick
    BY <1>8 DEF StartMatch
  <2>3. QED
    BY <1>1, <1>3, <2>1, <2>2 DEF Jobs
<1>9. ASSUME NEW id \in fills, Fill(id) \/ FillRefused(id) PROVE Jobs'
  <2>1. \/ work' = work
        \/ \E rs : FormWith(Nobody, rs, TRUE)
    BY <1>9 DEF Fill, FillRefused
  <2>2. kick' = kick
    BY <1>9 DEF Fill, FillRefused
  <2>3. QED
    BY <1>1, <1>3, <2>1, <2>2 DEF Jobs
<1>10. CASE KickClose \/ KickForce \/ KickEnd
  BY <1>1, <1>10 DEF KickClose, KickForce, KickEnd, Jobs
<1>11. CASE CleanUpLeave \/ Form \/ Announce
  BY <1>1, <1>11 DEF CleanUpLeave, Form, Announce, Jobs
<1>12. QED
  BY <1>4, <1>5, <1>6, <1>7, <1>8, <1>9, <1>10, <1>11, Actions DEF PartyAction, OtherAction

LEMMA InitInv == Init => IInv
<1> SUFFICES ASSUME Init PROVE IInv
  OBVIOUS
<1> USE LobbyAssumption DEF Init
<1>1. <<>> \in Seq(Users) /\ Len(<<>>) = 0 /\ ToSet(<<>>) = {} /\ Distinct(<<>>)
  BY DEF ToSet, Distinct
<1>2. /\ NoCleanup \in [isDue : BOOLEAN, party : 0 .. MaxParties]
      /\ made \in [parties : 0 .. MaxParties, reservations : 0 .. MaxReservations]
      /\ Jobs /\ work.kind = "none" /\ kick.pc = "none"
  BY DEF NoCleanup, Jobs, NoWork, NoKick
<1>3. PartyTyped /\ Profiles /\ Connections /\ Queue
  BY <1>1, <1>2 DEF PartyTyped, Profiles, Connections, Queue, NoParty, Ids
<1>4. PartyInv
  BY <1>1 DEF PartyInv, NoParty, Members
<1>5. GroupInv /\ WorkInv /\ QueueInv
  BY <1>2 DEF GroupInv, WorkInv, QueueInv, QueueAgrees, IsQueued
<1>6. QED
  BY <1>2, <1>3, <1>4, <1>5, TypeParts DEF IInv

LEMMA NextInv == IInv /\ [Next]_vars => IInv'
<1>1. ASSUME IInv, Next PROVE IInv'
  <2>1. TypeOK /\ PartyInv
    BY <1>1 DEF IInv
  <2>2. PartyTyped' /\ PartyInv'
    <3>1. CASE PartyAction
      BY <1>1, <3>1, PartyActionStep
    <3>2. CASE OtherAction
      BY <2>1, <3>2, OtherActionStep
    <3>3. QED
      BY <1>1, <3>1, <3>2, Actions
  <2>3. Profiles' /\ Connections' /\ Queue' /\ Jobs'
    BY <1>1, ProfilesStep, ConnectionsStep, QueueTypes, JobsStep
  <2>4. TypeOK'
    BY <2>2, <2>3, TypeParts, PTL
  <2>5. GroupInv' /\ WorkInv' /\ QueueInv'
    BY <1>1, GroupStep, WorkStep, QueueStep
  <2>6. QED
    BY <2>2, <2>4, <2>5 DEF IInv
<1>2. ASSUME IInv, UNCHANGED vars PROVE IInv'
  BY SMTT(30), <1>2 DEF vars, IInv, TypeOK, PartyInv, GroupInv, WorkInv, QueueInv, QueueAgrees, Members,
     IsQueued, Ids, IsOf
<1>3. QED
  BY <1>1, <1>2

LEMMA Inductive == Spec => []IInv
  BY InitInv, NextInv, PTL DEF Spec

\* For any users and bounds, the state keeps its types, and no party has more
\* members than it may have.
THEOREM TypeCorrect == Spec => []TypeOK
<1>1. IInv => TypeOK
  BY DEF IInv
<1>2. QED
  BY <1>1, Inductive, PTL

\* However many parties there are and whoever leaves, is kicked or comes back:
\* parties, their index and the profiles of their members agree, so nobody is
\* in two parties.
THEOREM PartiesAgree == Spec => []PartyAgrees
<1>1. IInv => PartyAgrees
  <2>1. SUFFICES ASSUME IInv PROVE PartyAgrees
    OBVIOUS
  <2>2. \A u \in Users : PartyOf(u) = partyIDByUser[u]
    BY <2>1, Found DEF IInv
  <2>3. QED
    BY <2>1, <2>2 DEF IInv, PartyInv, GroupInv, PartyAgrees, TypeOK
<1>2. QED
  BY <1>1, Inductive, PTL

\* For any queue: reservations and their index agree, so nobody waits twice,
\* and who waits neither plays nor is about to.
THEOREM QueuesAgree == Spec => []QueueAgrees
<1>1. IInv => QueueAgrees
  BY DEF IInv, QueueInv
<1>2. QED
  BY <1>1, Inductive, PTL

\* A leave that a cleanup has found to be due is still due when it happens:
\* the player is gone and a member, and no member plays or waits.
THEOREM OnlyGoneLeave == Spec => LeaveOnlyGone
<1> DEFINE Due == /\ session[work.user] = "none" /\ work.user \in Members(work.party)
                  /\ \A m \in Members(work.party) : m \notin game /\ ~IsQueued(m)
<1>1. IInv /\ work.kind = "leave" => Due
  <2>1. SUFFICES ASSUME IInv, work.kind = "leave" PROVE Due
    OBVIOUS
  <2>2. /\ work.user \in Users /\ work.party = partyIDByUser[work.user] /\ work.party # 0
        /\ session[work.user] = "none"
        /\ \A m \in Members(work.party) : m \notin game /\ ~IsQueued(m)
    BY <2>1 DEF IInv, WorkInv
  <2>3. work.party \in DOMAIN parties
    BY <2>1, <2>2, Typed DEF IInv, PartyTyped
  <2>4. QED
    BY <2>1, <2>2, <2>3 DEF IInv, PartyInv
<1>2. IInv => (work.kind = "leave" /\ work' # work => Due)
  BY <1>1
<1>3. QED
  BY <1>2, Inductive, PTL DEF LeaveOnlyGone
=============================================================================
