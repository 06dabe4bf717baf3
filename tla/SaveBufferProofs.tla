-------------------------- MODULE SaveBufferProofs --------------------------
(***************************************************************************)
(* Proofs about SaveBuffer, for any accounts, viewers and bounds.          *)
(*                                                                         *)
(* The safety properties follow from one inductive invariant, IInv: who    *)
(* holds the per-account gate (GateInv), what an account's map entry is to *)
(* its row (RowInv), what the version being written is to both (WriteInv), *)
(* what a read in progress may still return (ReadInv) and what Close knows *)
(* (CloseInv).  One lemma per action shows that it keeps IInv; the         *)
(* properties of states are consequences of IInv, and the two properties   *)
(* of steps (RowsAdvance, and the refinement of ProfileLedger) are proved  *)
(* action by action under it.                                              *)
(***************************************************************************)
EXTENDS SaveBuffer, TLAPS

-----------------------------------------------------------------------------
(* The parts of the inductive invariant that are not properties themselves. *)

IsHolding(c) == op[c] # None /\ op[c].step # "shown"

\* Who holds the gate, and what it does with it.
GateInv ==
    /\ \A c \in Clients : gate = c <=> IsHolding(c)
    /\ \A u \in Users : op[u] # None => op[u].user = u /\ op[u].step # "shown" /\ session[u] = None
    /\ \A c \in Viewers : op[c] # None => op[c].step \in {"load", "shown"}
    /\ writing # None <=> gate = Worker \/ (gate \in Users /\ op[gate].step = "flush")

\* The map and the row of an account.
RowOK(u) ==
    /\ u \notin dirty => snapshots[u] = NoSnapshot
    /\ snapshots[u].revision <= revision /\ snapshots[u].profileRevision <= revision
    /\ snapshots[u].record # None => snapshots[u].record.credential = store[u].credential
    /\ u \in archived => u \notin dirty /\ session[u] = None
    /\ op[u] # None /\ op[u].step \in {"apply", "settle"} => u \notin dirty
    /\ store[u].profile <= accepted[u].profile /\ accepted[u].profile <= revision
    /\ store[u].stats <= accepted[u].stats /\ accepted[u].stats <= revision

RowInv == \A u \in Users : RowOK(u)

\* The version being written against the version in the map and the row.
WriteOK(u, p, isOk) ==
    /\ u \in dirty
    /\ gate \in Users => u = gate /\ snapshots[u].revision = p.revision
    /\ p.revision <= revision /\ p.profileRevision <= revision
    /\ snapshots[u].revision = p.revision =>
          snapshots[u].stats = p.stats /\ snapshots[u].record = p.record
    /\ snapshots[u].profileRevision = p.profileRevision => snapshots[u].record = p.record
    /\ p.record # None => snapshots[u].record # None
    /\ store[u].stats <= p.stats /\ p.stats <= accepted[u].stats
    /\ p.record # None => /\ store[u].profile <= p.record.profile
                          /\ p.record.profile <= accepted[u].profile
    /\ isOk => /\ store[u].stats = p.stats
               /\ p.record # None => store[u].profile = p.record.profile

WriteInv == writing # None => WriteOK(writing.user, writing.pending, writing.state = "ok")

\* What a reader that holds the gate has in hand.
ReadOK(o) ==
    /\ o.row = store[o.user]
    /\ o.user \notin archived
    /\ o.floor.profile <= accepted[o.user].profile
    /\ o.floor.stats <= accepted[o.user].stats
    /\ o.floor.credential <= store[o.user].credential

ReadInv == \A c \in Clients : op[c] # None /\ op[c].step = "load" => ReadOK(op[c])

CloseInv == /\ worker.pc \in {"draining", "stopped"} => isClosed
            /\ worker.pc = "stopped" /\ ~closeErr => dirty = {}

-----------------------------------------------------------------------------
IInv == /\ TypeOK
        /\ GateInv
        /\ RowInv
        /\ WriteInv
        /\ ReadInv
        /\ CloseInv
        /\ NoLostAccept
        /\ SessionCurrent
        /\ ReadFresh
        /\ FailuresPending

-----------------------------------------------------------------------------
(* Acceptance. *)

\* An accepted snapshot (admit, buffer.go:127-144) keeps the invariant: it raises the
\* revisions and the accepted version of one account together, whatever is in flight.
LEMMA AcceptStep ==
    ASSUME IInv, NEW u \in Users, session[u] # None,
           NEW new \in View, NEW snapshot \in Snapshot,
           Accept(u, new, snapshot),
           session' = [session EXCEPT ![u] = new] \/ session' = [session EXCEPT ![u] = None],
           new.stats = revision + 1, new.credential = session[u].credential,
           snapshot.stats = revision + 1, snapshot.revision = revision + 1,
           \/ /\ new.profile = revision + 1
              /\ snapshot.record = [profile |-> new.profile, credential |-> new.credential]
              /\ snapshot.profileRevision = revision + 1
           \/ /\ new.profile = session[u].profile
              /\ snapshot.record = snapshots[u].record
              /\ snapshot.profileRevision = snapshots[u].profileRevision
    PROVE  IInv'
<1>1. TypeOK /\ GateInv /\ RowInv /\ WriteInv /\ ReadInv /\ CloseInv
      /\ NoLostAccept /\ SessionCurrent /\ ReadFresh /\ FailuresPending
  BY DEF IInv
<1>2. /\ revision' = revision + 1
      /\ revision \in Nat
      /\ dirty' = dirty \cup {u}
      /\ snapshots' = [snapshots EXCEPT ![u] = snapshot]
      /\ accepted' = [accepted EXCEPT ![u] = [profile |-> new.profile, stats |-> new.stats]]
      /\ UNCHANGED <<isClosed, failures, closeErr, gate, writing, worker, store, archived, op>>
      /\ ~isClosed
  BY <1>1 DEF Accept, CanAdmit, TypeOK, disk
<1>3. /\ snapshots \in [Users -> Snapshot] /\ store \in [Users -> View]
      /\ session \in [Users -> View \cup {None}]
      /\ accepted \in [Users -> Version]
  BY <1>1 DEF TypeOK
<1>4. /\ session[u] \in View
      /\ session[u].profile = accepted[u].profile /\ session[u].stats = accepted[u].stats
      /\ session[u].credential = store[u].credential
      /\ op[u] = None /\ u \notin archived
  BY <1>1, <1>3 DEF SessionCurrent, Latest, GateInv, RowInv, RowOK
<1>5. /\ accepted'[u] = [profile |-> new.profile, stats |-> revision + 1]
      /\ accepted[u].profile <= new.profile /\ new.profile <= revision + 1
      /\ accepted[u].stats <= revision + 1
      /\ \A v \in Users \ {u} : accepted'[v] = accepted[v]
  BY <1>1, <1>2, <1>3, <1>4 DEF RowInv, RowOK, View
<1>6. /\ snapshots'[u] = snapshot
      /\ \A v \in Users \ {u} : snapshots'[v] = snapshots[v]
      /\ session'[u] \in {new, None}
      /\ \A v \in Users \ {u} : session'[v] = session[v]
  BY <1>2, <1>3
<1>7. snapshot.record = None \/ snapshot.record.credential = store[u].credential
  BY <1>1, <1>4 DEF RowInv, RowOK
<1>8. snapshot.record = None => snapshots[u].record = None /\ new.profile = accepted[u].profile
  BY <1>4, NoneAssumption DEF Record, View
<1>9. snapshot.record # None => snapshot.record.profile = new.profile
  BY <1>1, <1>4 DEF RowInv, RowOK, NoLostAccept, IsKept, Current, Overlaid, NoSnapshot
<1>10. TypeOK'
  BY <1>1, <1>2, <1>3 DEF TypeOK, View, Version
<1>11. GateInv'
  BY <1>1, <1>2, <1>4, <1>6 DEF GateInv, IsHolding
<1>12. RowInv'
  <2> SUFFICES ASSUME NEW v \in Users PROVE RowOK(v)'
    BY DEF RowInv
  <2>1. RowOK(v)
    BY <1>1 DEF RowInv
  <2>2. CASE v = u
    BY <2>1, <2>2, <1>2, <1>3, <1>4, <1>5, <1>6, <1>7 DEF RowOK, Snapshot, View
  <2>3. CASE v # u
    BY <2>1, <2>3, <1>2, <1>3, <1>5, <1>6 DEF RowOK, Snapshot, View, Version
  <2> QED
    BY <2>2, <2>3
<1>13. WriteInv'
  <2> SUFFICES ASSUME writing # None
               PROVE  WriteOK(writing.user, writing.pending, writing.state = "ok")'
    BY <1>2 DEF WriteInv
  <2>1. PICK v \in Users, p \in Snapshot, isOk \in BOOLEAN :
          v = writing.user /\ p = writing.pending /\ isOk = (writing.state = "ok")
    BY <1>1 DEF TypeOK, Write
  <2>2. WriteOK(v, p, isOk)
    BY <1>1, <2>1 DEF WriteInv
  <2>3. /\ p.revision \in Nat /\ p.profileRevision \in Nat /\ p.stats \in Nat
        /\ p.record # None => p.record.profile \in Nat
        /\ store[v].stats \in Nat /\ store[v].profile \in Nat
        /\ snapshots[v].revision \in Nat /\ snapshots[v].profileRevision \in Nat
        /\ accepted[v].profile \in Nat /\ accepted[v].stats \in Nat
    BY <1>3 DEF Snapshot, View, Record, Version
  <2>4. CASE v = u
    <3>1. gate \notin Users
      BY <1>1, <1>4, <2>1, <2>2, <2>4 DEF GateInv, IsHolding, Clients, WriteOK
    <3>2. snapshots[u].revision <= revision /\ snapshots[u].profileRevision <= revision
      BY <1>1 DEF RowInv, RowOK
    <3>3. /\ p.revision # snapshot.revision
          /\ snapshot.profileRevision = p.profileRevision => snapshot.record = snapshots[u].record
      <4>1. p.revision <= revision /\ p.profileRevision <= revision
        BY <2>2 DEF WriteOK
      <4>2. p.revision # revision + 1 /\ p.profileRevision # revision + 1
        BY <4>1, <2>3, <1>2
      <4> QED
        BY <4>2
    <3>4. p.record # None => snapshot.record # None
      BY <2>2, <2>4, <1>8 DEF WriteOK
    <3>5. WriteOK(u, p, isOk)'
      BY <2>2, <2>3, <2>4, <3>1, <3>3, <3>4, <1>2, <1>5, <1>6 DEF WriteOK, View
    <3> QED
      BY <3>5, <2>1, <2>4, <1>2
  <2>5. CASE v # u
    <3>1. snapshots'[v] = snapshots[v] /\ accepted'[v] = accepted[v]
      BY <2>5, <1>5, <1>6
    <3>2. WriteOK(v, p, isOk)'
      BY <2>2, <2>3, <3>1, <1>2 DEF WriteOK
    <3> QED
      BY <3>2, <2>1, <1>2
  <2> QED
    BY <2>4, <2>5
<1>14. ReadInv'
  <2> SUFFICES ASSUME NEW c \in Clients, op[c] # None, op[c].step = "load"
               PROVE  ReadOK(op[c])'
    BY <1>2 DEF ReadInv
  <2>1. ReadOK(op[c]) /\ op[c] \in Operation
    BY <1>1 DEF ReadInv, TypeOK
  <2>2. op[c].user \in Users /\ op[c].floor \in View
    BY <2>1 DEF Operation
  <2> QED
    BY <2>1, <2>2, <1>2, <1>3, <1>5 DEF ReadOK, View, Version
<1>15. CloseInv'
  BY <1>1, <1>2 DEF CloseInv
<1>16. NoLostAccept'
  <2> SUFFICES ASSUME NEW v \in Users PROVE IsKept(v)'
    BY DEF NoLostAccept
  <2>1. IsKept(v)
    BY <1>1 DEF NoLostAccept
  <2>2. CASE v = u
    <3>1. u \in dirty' /\ store'[u] = store[u]
      BY <1>2
    <3>2. CASE snapshot.record = None
      <4>1. store[u].profile = accepted[u].profile
        BY <2>1, <2>2, <3>2, <1>8 DEF IsKept, Current, Overlaid
      <4> QED
        BY <4>1, <2>2, <3>1, <3>2, <1>3, <1>5, <1>6, <1>8 DEF IsKept, Current, Overlaid
    <3>3. CASE snapshot.record # None
      BY <2>1, <2>2, <3>1, <3>3, <1>3, <1>5, <1>6, <1>9 DEF IsKept, Current, Overlaid
    <3> QED
      BY <3>2, <3>3
  <2>3. CASE v # u
    BY <2>1, <2>3, <1>2, <1>3, <1>5, <1>6 DEF IsKept, Current, Overlaid
  <2> QED
    BY <2>2, <2>3
<1>17. SessionCurrent'
  BY <1>1, <1>2, <1>3, <1>4, <1>5, <1>6 DEF SessionCurrent, Latest, View
<1>18. ReadFresh'
  BY <1>1, <1>2 DEF ReadFresh
<1>19. FailuresPending'
  BY <1>1, <1>2 DEF FailuresPending
<1> QED
  BY <1>10, <1>11, <1>12, <1>13, <1>14, <1>15, <1>16, <1>17, <1>18, <1>19 DEF IInv


\* Repository.Save by a playing session keeps the invariant.
LEMMA SaveStep == ASSUME IInv, NEW u \in Users, Save(u) PROVE IInv'
<1>1. /\ session[u] \in View /\ snapshots[u] \in Snapshot /\ revision \in Nat
      /\ session[u] # None
  BY DEF IInv, TypeOK, Save
<1>2. /\ Changed(u) \in View
      /\ Changed(u).profile = revision + 1 /\ Changed(u).stats = revision + 1
      /\ Changed(u).credential = session[u].credential
  BY <1>1 DEF Changed, View
<1>3. Accept(u, Changed(u), SavedSnapshot(u, Changed(u)))
      /\ session' = [session EXCEPT ![u] = Changed(u)]
  BY DEF Save
<1>4. /\ SavedSnapshot(u, Changed(u)) \in Snapshot
      /\ SavedSnapshot(u, Changed(u)).stats = revision + 1
      /\ SavedSnapshot(u, Changed(u)).revision = revision + 1
      /\ SavedSnapshot(u, Changed(u)).profileRevision = revision + 1
      /\ SavedSnapshot(u, Changed(u)).record
           = [profile |-> Changed(u).profile, credential |-> Changed(u).credential]
  BY <1>1, <1>2 DEF SavedSnapshot, Admitted, Snapshot, View, Record, Ages
<1>5. PICK new \in View, snapshot \in Snapshot :
        new = Changed(u) /\ snapshot = SavedSnapshot(u, Changed(u))
  BY <1>2, <1>4
<1> QED
  BY <1>1, <1>2, <1>3, <1>4, <1>5, AcceptStep

\* UserManager.Logout, whose final Save is accepted before the session ends.
LEMMA LogoutStep == ASSUME IInv, NEW u \in Users, Logout(u) PROVE IInv'
<1>1. /\ session[u] \in View /\ snapshots[u] \in Snapshot /\ revision \in Nat
      /\ session[u] # None
  BY DEF IInv, TypeOK, Logout
<1>2. /\ Changed(u) \in View
      /\ Changed(u).profile = revision + 1 /\ Changed(u).stats = revision + 1
      /\ Changed(u).credential = session[u].credential
  BY <1>1 DEF Changed, View
<1>3. Accept(u, Changed(u), SavedSnapshot(u, Changed(u)))
      /\ session' = [session EXCEPT ![u] = None]
  BY DEF Logout
<1>4. /\ SavedSnapshot(u, Changed(u)) \in Snapshot
      /\ SavedSnapshot(u, Changed(u)).stats = revision + 1
      /\ SavedSnapshot(u, Changed(u)).revision = revision + 1
      /\ SavedSnapshot(u, Changed(u)).profileRevision = revision + 1
      /\ SavedSnapshot(u, Changed(u)).record
           = [profile |-> Changed(u).profile, credential |-> Changed(u).credential]
  BY <1>1, <1>2 DEF SavedSnapshot, Admitted, Snapshot, View, Record, Ages
<1>5. PICK new \in View, snapshot \in Snapshot :
        new = Changed(u) /\ snapshot = SavedSnapshot(u, Changed(u))
  BY <1>2, <1>4
<1> QED
  BY <1>1, <1>2, <1>3, <1>4, <1>5, AcceptStep

\* The snapshot admit builds is a snapshot and keeps the revisions in order.
LEMMA AdmittedType ==
    ASSUME NEW u \in Users, snapshots[u] \in Snapshot, revision \in Nat
    PROVE  /\ Admitted(u) \in Snapshot
           /\ Admitted(u).revision = revision + 1
           /\ Admitted(u).profileRevision = snapshots[u].profileRevision
           /\ Admitted(u).record = snapshots[u].record
<1>1. PICK s \in Snapshot : s = snapshots[u]
  OBVIOUS
<1>2. PICK r \in Nat : r = revision + 1
  OBVIOUS
<1>3. PICK first \in Nat : first = IF u \in dirty THEN s.firstDirty ELSE revision + 1
  BY DEF Snapshot
<1>4. PICK age \in Ages : age = IF s.age = "idle" THEN "fresh" ELSE s.age
  BY DEF Snapshot, Ages
<1>5. [s EXCEPT !.revision = r, !.firstDirty = first, !.age = age] \in Snapshot
  BY DEF Snapshot
<1>6. Admitted(u) = [s EXCEPT !.revision = r, !.firstDirty = first, !.age = age]
  BY <1>1, <1>2, <1>3, <1>4 DEF Admitted
<1>7. /\ Admitted(u).revision = revision + 1
      /\ Admitted(u).profileRevision = s.profileRevision
      /\ Admitted(u).record = s.record
  BY <1>2, <1>6 DEF Snapshot
<1> QED
  BY <1>1, <1>5, <1>6, <1>7

\* A focused statistics write keeps the profile revision of what it merges into.
LEMMA SavePlayerStatsStep == ASSUME IInv, NEW u \in Users, SavePlayerStats(u) PROVE IInv'
<1> DEFINE new      == [session[u] EXCEPT !.stats = revision + 1]
           snapshot == [Admitted(u) EXCEPT !.stats = new.stats]
<1>1. /\ session[u] \in View /\ snapshots[u] \in Snapshot /\ revision \in Nat
      /\ session[u] # None
  BY DEF IInv, TypeOK, SavePlayerStats
<1>2. /\ new \in View
      /\ new.profile = session[u].profile /\ new.stats = revision + 1
      /\ new.credential = session[u].credential
  BY <1>1 DEF View
<1>3. Accept(u, new, snapshot) /\ session' = [session EXCEPT ![u] = new]
  BY DEF SavePlayerStats
<1>4. /\ snapshot \in Snapshot
      /\ snapshot.stats = revision + 1
      /\ snapshot.revision = revision + 1
      /\ snapshot.profileRevision = snapshots[u].profileRevision
      /\ snapshot.record = snapshots[u].record
  <2>1. /\ Admitted(u) \in Snapshot
        /\ Admitted(u).revision = revision + 1
        /\ Admitted(u).profileRevision = snapshots[u].profileRevision
        /\ Admitted(u).record = snapshots[u].record
    BY <1>1, AdmittedType
  <2>2. PICK admitted \in Snapshot : admitted = Admitted(u)
    BY <2>1
  <2>3. new.stats \in Nat
    BY <1>1, <1>2
  <2> HIDE DEF new
  <2>4. snapshot = [admitted EXCEPT !.stats = new.stats]
    BY <2>2
  <2> HIDE DEF snapshot
  <2> QED
    BY <1>1, <1>2, <2>1, <2>2, <2>3, <2>4 DEF Snapshot
<1> HIDE DEF new, snapshot
<1> QED
  BY <1>1, <1>2, <1>3, <1>4, AcceptStep

-----------------------------------------------------------------------------
(* Steps that leave what matters alone. *)

\* All the variables IInv reads, except that the snapshots may differ in what
\* only isDue looks at.
IsQuiet ==
    /\ UNCHANGED <<dirty, revision, failures, gate, writing, disk, session, op, accepted>>
    /\ snapshots' \in [Users -> Snapshot]
    /\ \A v \in dirty :
         /\ snapshots'[v].record = snapshots[v].record
         /\ snapshots'[v].stats = snapshots[v].stats
         /\ snapshots'[v].revision = snapshots[v].revision
         /\ snapshots'[v].profileRevision = snapshots[v].profileRevision
    /\ \A v \in Users \ dirty : snapshots'[v] = snapshots[v]

\* A step that changes neither maps, rows, revisions nor operations keeps the invariant.
LEMMA QuietStep == ASSUME IInv, IsQuiet, TypeOK', CloseInv' PROVE IInv'
<1>1. TypeOK /\ GateInv /\ RowInv /\ WriteInv /\ ReadInv /\ CloseInv
      /\ NoLostAccept /\ SessionCurrent /\ ReadFresh /\ FailuresPending
  BY DEF IInv
<1>2. /\ UNCHANGED <<dirty, revision, failures, gate, writing, store, archived, session, op, accepted>>
      /\ \A v \in Users : /\ snapshots'[v].record = snapshots[v].record
                          /\ snapshots'[v].stats = snapshots[v].stats
                          /\ snapshots'[v].revision = snapshots[v].revision
                          /\ snapshots'[v].profileRevision = snapshots[v].profileRevision
                          /\ v \notin dirty => snapshots'[v] = snapshots[v]
  BY DEF IsQuiet, disk
<1>3. GateInv'
  BY <1>1, <1>2 DEF GateInv, IsHolding
<1>4. RowInv'
  BY <1>1, <1>2 DEF RowInv, RowOK
<1>5. WriteInv'
  <2> SUFFICES ASSUME writing # None
               PROVE  WriteOK(writing.user, writing.pending, writing.state = "ok")'
    BY <1>2 DEF WriteInv
  <2>1. writing.user \in Users /\ WriteOK(writing.user, writing.pending, writing.state = "ok")
    BY <1>1 DEF TypeOK, Write, WriteInv
  <2> QED
    BY <2>1, <1>2 DEF WriteOK
<1>6. ReadInv'
  BY <1>1, <1>2 DEF ReadInv, ReadOK
<1>7. NoLostAccept'
  BY <1>1, <1>2 DEF NoLostAccept, IsKept, Current, Overlaid
<1>8. SessionCurrent'
  BY <1>1, <1>2 DEF SessionCurrent, Latest
<1>9. ReadFresh'
  BY <1>1, <1>2 DEF ReadFresh
<1>10. FailuresPending'
  BY <1>1, <1>2 DEF FailuresPending
<1> QED
  BY <1>3, <1>4, <1>5, <1>6, <1>7, <1>8, <1>9, <1>10 DEF IInv

\* The quiet steps: due times, budgets, closing, and the worker between two writes.
LEMMA QuietSteps ==
    ASSUME IInv,
           \/ \E u \in Users : RequestSave(u) \/ TimePasses(u)
           \/ StartFlush \/ FlushBreak \/ FlushDone \/ Close
    PROVE  IInv'
<1>1. /\ TypeOK /\ CloseInv
      /\ snapshots \in [Users -> Snapshot] /\ dirty \subseteq Users
  BY DEF IInv, TypeOK
<1>2. ASSUME NEW u \in Users, RequestSave(u) PROVE IInv'
  <2>1. snapshots[u] \in Snapshot
    BY <1>1
  <2>2. [snapshots[u] EXCEPT !.isReady = TRUE] \in Snapshot
    BY <2>1 DEF Snapshot
  <2>3. IsQuiet /\ TypeOK' /\ CloseInv'
    BY <1>1, <1>2, <2>1, <2>2 DEF IsQuiet, RequestSave, TypeOK, CloseInv, disk, Snapshot
  <2> QED
    BY <2>3, QuietStep
<1>3. ASSUME NEW u \in Users, TimePasses(u) PROVE IInv'
  <2>1. snapshots[u] \in Snapshot
    BY <1>1
  <2>2. PICK s \in Snapshot :
          /\ snapshots' = [snapshots EXCEPT ![u] = s]
          /\ s.record = snapshots[u].record /\ s.stats = snapshots[u].stats
          /\ s.revision = snapshots[u].revision
          /\ s.profileRevision = snapshots[u].profileRevision
    <3>1. /\ [snapshots[u] EXCEPT !.age = "idle"] \in Snapshot
          /\ [snapshots[u] EXCEPT !.age = "overdue"] \in Snapshot
          /\ [snapshots[u] EXCEPT !.isBackingOff = FALSE] \in Snapshot
      BY <2>1 DEF Snapshot, Ages
    <3> QED
      BY <1>1, <1>3, <2>1, <3>1 DEF TimePasses, Snapshot
  <2>3. u \in dirty /\ UNCHANGED <<dirty, revision, isClosed, failures, closeErr, gate, writing,
                   worker, store, archived, session, op, accepted>>
    BY <1>3 DEF TimePasses, disk
  <2>4. IsQuiet /\ TypeOK' /\ CloseInv'
    BY <1>1, <2>2, <2>3 DEF IsQuiet, TypeOK, CloseInv, disk
  <2> QED
    BY <2>4, QuietStep
<1>4. CASE StartFlush
  <2>1. worker'.candidates \in SUBSET Candidate
    BY <1>1, <1>4 DEF StartFlush, Candidate, Snapshot
  <2>2. IsQuiet /\ TypeOK' /\ CloseInv'
    BY <1>1, <1>4, <2>1 DEF IsQuiet, StartFlush, TypeOK, CloseInv, disk, buffer
  <2> QED
    BY <2>2, QuietStep
<1>5. CASE FlushBreak
  <2>1. IsQuiet /\ TypeOK' /\ CloseInv'
    BY <1>1, <1>5 DEF IsQuiet, FlushBreak, TypeOK, CloseInv, disk, buffer
  <2> QED
    BY <2>1, QuietStep
<1>6. CASE FlushDone
  <2>1. /\ closeErr' \in BOOLEAN
        /\ worker' \in [pc : {"waiting", "flushing", "draining", "stopped"},
                        candidates : SUBSET Candidate, isSpent : BOOLEAN]
    <3>1. /\ closeErr \in BOOLEAN /\ (dirty # {}) \in BOOLEAN
          /\ closeErr' = (dirty # {}) \/ closeErr' = closeErr
      BY <1>1, <1>6 DEF FlushDone, TypeOK
    <3>2. worker' \in {Stopped, Idle}
      BY <1>6 DEF FlushDone
    <3> QED
      <4>1. {Idle, Stopped} \subseteq
              [pc : {"waiting", "flushing", "draining", "stopped"},
               candidates : SUBSET Candidate, isSpent : BOOLEAN]
        BY DEF Idle, Stopped
      <4>2. closeErr' \in BOOLEAN
        BY <3>1, Zenon
      <4> QED
        BY <3>2, <4>1, <4>2
  <2>3. UNCHANGED <<dirty, snapshots, revision, isClosed, failures, gate, writing,
                    store, archived, session, op, accepted>>
    BY <1>6 DEF FlushDone, disk
  <2>4. IsQuiet /\ TypeOK'
    BY <1>1, <2>1, <2>3 DEF IsQuiet, TypeOK, disk
  <2>2. CloseInv'
    <3>1. CASE worker.pc = "draining"
      <4>1. isClosed' /\ dirty' = dirty
        BY <1>1, <1>6, <3>1 DEF FlushDone, CloseInv
      <4>2. closeErr' = (dirty # {})
        BY <1>6, <3>1 DEF FlushDone
      <4>3. ~closeErr' => dirty = {}
        BY <4>2, Zenon
      <4> QED
        BY <4>1, <4>3 DEF CloseInv
    <3>2. CASE worker.pc # "draining"
      BY <1>1, <1>6, <3>2 DEF FlushDone, CloseInv, Idle, Stopped
    <3> QED
      BY <3>1, <3>2
  <2> QED
    BY <2>2, <2>4, QuietStep
<1>7. CASE Close
  <2>1. IsQuiet /\ TypeOK' /\ CloseInv'
    BY <1>1, <1>7 DEF IsQuiet, Close, TypeOK, CloseInv, disk
  <2> QED
    BY <2>1, QuietStep
<1> QED
  BY <1>2, <1>3, <1>4, <1>5, <1>6, <1>7

-----------------------------------------------------------------------------
(* A durable write: the store's transaction and save's second half. *)

\* While a write is under way nobody reads the store.
LEMMA NoReaderInWrite ==
    ASSUME GateInv, writing # None
    PROVE  \A c \in Clients : op[c] # None => op[c].step # "load"
<1> SUFFICES ASSUME NEW c \in Clients, op[c] # None, op[c].step = "load" PROVE FALSE
  OBVIOUS
<1>1. gate = c
  BY DEF GateInv, IsHolding
<1>2. gate # Worker
  BY <1>1, UsersAssumption
<1> QED
  BY <1>1, <1>2 DEF GateInv

\* The store's transaction (committed or not) moves the row to the written version only.
LEMMA StoreWriteStep ==
    ASSUME IInv, NEW u \in Users, NEW state \in {"ok", "error"}, NEW isCommitted \in BOOLEAN,
           StoreWrite(u, state, isCommitted)
    PROVE  IInv'
<1>1. TypeOK /\ GateInv /\ RowInv /\ WriteInv /\ ReadInv /\ CloseInv
      /\ NoLostAccept /\ SessionCurrent /\ ReadFresh /\ FailuresPending
  BY DEF IInv
<1>2. /\ writing # None /\ writing.user = u /\ writing.state = "issued"
      /\ state = "ok" => isCommitted
      /\ writing' = [writing EXCEPT !.state = state]
      /\ store' = IF isCommitted THEN [store EXCEPT ![u] = WrittenRow(@, writing.pending)]
                                 ELSE store
      /\ UNCHANGED <<dirty, snapshots, revision, isClosed, failures, closeErr,
                     gate, worker, archived, session, op, accepted>>
  BY DEF StoreWrite, buffer
<1>3. /\ snapshots \in [Users -> Snapshot] /\ store \in [Users -> View]
      /\ accepted \in [Users -> Version]
      /\ writing \in Write
  BY <1>1, <1>2 DEF TypeOK
<1>4. PICK p \in Snapshot : p = writing.pending
  BY <1>3 DEF Write
<1>5. WriteOK(u, p, FALSE)
  BY <1>1, <1>2, <1>4 DEF WriteInv, WriteOK
<1>6. /\ writing' \in Write /\ writing' # None
      /\ writing'.user = u /\ writing'.pending = p /\ writing'.state = state
  BY <1>2, <1>3, <1>4, NoneAssumption DEF Write
<1>7. PICK row \in View :
        /\ store' = [store EXCEPT ![u] = row]
        /\ row.credential = store[u].credential
        /\ \/ ~isCommitted /\ row = store[u]
           \/ isCommitted /\ row.stats = p.stats
              /\ row.profile = IF p.record = None THEN store[u].profile ELSE p.record.profile
  <2>1. CASE isCommitted
    <3>1. PICK profile \in Nat :
            profile = IF p.record = None THEN store[u].profile ELSE p.record.profile
      BY <1>3, <1>4 DEF Snapshot, Record, View
    <3>2. PICK old \in View : old = store[u]
      BY <1>3
    <3>3. PICK stats \in Nat : stats = p.stats
      BY DEF Snapshot
    <3>4. WrittenRow(store[u], writing.pending)
            = [old EXCEPT !.profile = profile, !.stats = stats]
      BY <1>4, <3>1, <3>2, <3>3 DEF WrittenRow
    <3>5. [old EXCEPT !.profile = profile, !.stats = stats] \in View
      BY DEF View
    <3> QED
      BY <1>2, <2>1, <3>1, <3>2, <3>3, <3>4, <3>5 DEF View
  <2>2. CASE ~isCommitted
    BY <1>2, <1>3, <2>2
  <2> QED
    BY <2>1, <2>2
<1>8. /\ store'[u] = row
      /\ \A v \in Users \ {u} : store'[v] = store[v]
  BY <1>3, <1>7
<1>9. /\ row.profile <= accepted[u].profile /\ row.stats <= accepted[u].stats
  BY <1>1, <1>3, <1>5, <1>7 DEF RowInv, RowOK, WriteOK
<1>10. TypeOK'
  BY <1>1, <1>2, <1>3, <1>6, <1>7 DEF TypeOK
<1>11. GateInv'
  BY <1>1, <1>2, <1>6 DEF GateInv, IsHolding
<1>12. RowInv'
  <2> SUFFICES ASSUME NEW v \in Users PROVE RowOK(v)'
    BY DEF RowInv
  <2>1. RowOK(v)
    BY <1>1 DEF RowInv
  <2>2. CASE v = u
    BY <2>1, <2>2, <1>2, <1>7, <1>8, <1>9 DEF RowOK
  <2>3. CASE v # u
    BY <2>1, <2>3, <1>2, <1>8 DEF RowOK
  <2> QED
    BY <2>2, <2>3
<1>13. WriteInv'
  <2>1. /\ p.stats \in Nat /\ store[u].stats \in Nat /\ store[u].profile \in Nat
        /\ p.record # None => p.record.profile \in Nat
    BY <1>3 DEF Snapshot, View, Record
  <2>2. /\ row.stats <= p.stats
        /\ p.record # None => row.profile <= p.record.profile
        /\ state = "ok" => row.stats = p.stats /\ (p.record # None => row.profile = p.record.profile)
    BY <2>1, <1>2, <1>5, <1>7 DEF WriteOK
  <2>3. WriteOK(u, p, state = "ok")'
    BY <2>2, <1>2, <1>5, <1>8 DEF WriteOK
  <2> QED
    BY <2>3, <1>6 DEF WriteInv
<1>14. ReadInv'
  BY <1>1, <1>2, NoReaderInWrite DEF ReadInv
<1>15. CloseInv'
  BY <1>1, <1>2 DEF CloseInv
<1>16. NoLostAccept'
  <2> SUFFICES ASSUME NEW v \in Users PROVE IsKept(v)'
    BY DEF NoLostAccept
  <2>1. IsKept(v)
    BY <1>1 DEF NoLostAccept
  <2>2. CASE v = u
    <3>1. u \in dirty /\ (p.record # None => snapshots[u].record # None)
      BY <1>5 DEF WriteOK
    <3>2. snapshots[u].record = None => row.profile = store[u].profile
      BY <3>1, <1>7
    <3> QED
      BY <2>1, <2>2, <3>1, <3>2, <1>2, <1>8 DEF IsKept, Current, Overlaid
  <2>3. CASE v # u
    BY <2>1, <2>3, <1>2, <1>8 DEF IsKept, Current, Overlaid
  <2> QED
    BY <2>2, <2>3
<1>17. SessionCurrent'
  <2>1. \A v \in Users : store'[v].credential = store[v].credential
    BY <1>7, <1>8
  <2> QED
    BY <2>1, <1>1, <1>2 DEF SessionCurrent, Latest
<1>18. ReadFresh'
  BY <1>1, <1>2 DEF ReadFresh
<1>19. FailuresPending'
  BY <1>1, <1>2 DEF FailuresPending
<1> QED
  BY <1>10, <1>11, <1>12, <1>13, <1>14, <1>15, <1>16, <1>17, <1>18, <1>19 DEF IInv

\* What both callers of save have in common once the store has answered; they
\* differ in what becomes of the gate and of the client's operation.
LEMMA SaveEndStep ==
    ASSUME IInv, writing # None, writing.state # "issued", SaveEnd(writing.user),
           writing' = None,
           UNCHANGED <<revision, isClosed, closeErr, worker, disk, session, accepted>>,
           gate' \in Clients \cup {Worker, None},
           op' \in [Clients -> Operation \cup {None}],
           GateInv',
           \A v \in Users : op'[v] # None /\ op'[v].step \in {"apply", "settle"}
                                => v \notin dirty',
           \A c \in Clients : op'[c] # None /\ op'[c].step \in {"load", "shown"}
                                => op'[c] = op[c]
    PROVE  IInv'
<1>1. TypeOK /\ GateInv /\ RowInv /\ WriteInv /\ ReadInv /\ CloseInv
      /\ NoLostAccept /\ SessionCurrent /\ ReadFresh /\ FailuresPending
  BY DEF IInv
<1>2. UNCHANGED <<revision, isClosed, closeErr, worker, store, archived, session, accepted>>
  BY DEF disk
<1>3. /\ snapshots \in [Users -> Snapshot] /\ store \in [Users -> View]
      /\ accepted \in [Users -> Version]
      /\ writing \in Write /\ revision \in Nat /\ dirty \subseteq Users /\ failures \subseteq Users
  BY <1>1 DEF TypeOK
<1>4. PICK u \in Users, p \in Snapshot, isOk \in BOOLEAN :
        u = writing.user /\ p = writing.pending /\ isOk = (writing.state = "ok")
  BY <1>3 DEF Write
<1>5. WriteOK(u, p, isOk)
  BY <1>1, <1>4 DEF WriteInv
<1>6. isOk <=> writing.state # "error"
  BY <1>3, <1>4 DEF Write
<1>7. NoSnapshot \in Snapshot
  BY DEF NoSnapshot, Snapshot, Ages
\* The three outcomes: retained, retired, overtaken by a newer change.
<1>8. PICK s \in Snapshot :
        /\ snapshots' = [snapshots EXCEPT ![u] = s]
        /\ \/ /\ ~isOk
              /\ dirty' = dirty /\ failures' = failures \cup {u}
              /\ s.record = snapshots[u].record
              /\ s.stats = snapshots[u].stats /\ s.revision = snapshots[u].revision
              /\ s.profileRevision = snapshots[u].profileRevision
           \/ /\ isOk /\ snapshots[u].revision = p.revision
              /\ dirty' = dirty \ {u} /\ failures' = failures \ {u}
              /\ s = NoSnapshot
           \/ /\ isOk /\ snapshots[u].revision # p.revision
              /\ dirty' = dirty /\ failures' = failures \ {u}
              /\ s.record = IF snapshots[u].profileRevision = p.profileRevision
                            THEN None ELSE snapshots[u].record
              /\ s.stats = snapshots[u].stats /\ s.revision = snapshots[u].revision
              /\ s.profileRevision = snapshots[u].profileRevision
  <2>1. u \in dirty
    BY <1>5 DEF WriteOK
  <2>2. PICK old \in Snapshot : old = snapshots[u]
    BY <1>3
  <2>3. CASE ~isOk
    <3>1. [old EXCEPT !.isBackingOff = TRUE, !.isReady = TRUE] \in Snapshot
      BY DEF Snapshot
    <3>2. /\ snapshots' = [snapshots EXCEPT ![u] = [old EXCEPT !.isBackingOff = TRUE, !.isReady = TRUE]]
          /\ dirty' = dirty /\ failures' = failures \cup {u}
      BY ZenonT(40), <1>3, <1>4, <1>6, <2>1, <2>2, <2>3 DEF SaveEnd
    <3> QED
      BY <2>2, <2>3, <3>1, <3>2 DEF Snapshot
  <2>4. CASE isOk /\ snapshots[u].revision = p.revision
    BY <1>4, <1>6, <1>7, <2>4 DEF SaveEnd
  <2>5. CASE isOk /\ snapshots[u].revision # p.revision
    <3>1. PICK record \in Record \cup {None} :
            record = IF snapshots[u].profileRevision = p.profileRevision
                     THEN None ELSE snapshots[u].record
      BY <2>2 DEF Snapshot
    <3>2. PICK age \in Ages : age = IF old.age = "overdue" THEN "fresh" ELSE old.age
      BY DEF Snapshot, Ages
    <3>3. RetiredSnapshot(u, p) = [old EXCEPT !.record = record, !.firstDirty = revision,
                                              !.age = age, !.isBackingOff = FALSE]
      BY <2>2, <3>1, <3>2 DEF RetiredSnapshot
    <3>4. [old EXCEPT !.record = record, !.firstDirty = revision,
                      !.age = age, !.isBackingOff = FALSE] \in Snapshot
      BY <1>3 DEF Snapshot
    <3>5. /\ snapshots' = [snapshots EXCEPT ![u] = RetiredSnapshot(u, p)]
          /\ dirty' = dirty /\ failures' = failures \ {u}
      BY <1>4, <1>6, <2>1, <2>5 DEF SaveEnd
    <3> QED
      BY <2>2, <2>5, <3>1, <3>3, <3>4, <3>5 DEF Snapshot
  <2> QED
    BY <2>3, <2>4, <2>5
<1>9. /\ snapshots'[u] = s
      /\ \A v \in Users \ {u} : snapshots'[v] = snapshots[v] /\ (v \in dirty' <=> v \in dirty)
      /\ dirty' \subseteq dirty /\ failures' \subseteq Users
  BY <1>3, <1>8
<1>10. /\ s.revision <= revision /\ s.profileRevision <= revision
       /\ s.record # None => s.record = snapshots[u].record
  BY <1>1, <1>3, <1>8 DEF RowInv, RowOK, NoSnapshot
<1>11. TypeOK'
  BY <1>1, <1>2, <1>3, <1>8, <1>9 DEF TypeOK
<1>12. RowInv'
  <2> SUFFICES ASSUME NEW v \in Users PROVE RowOK(v)'
    BY DEF RowInv
  <2>1. RowOK(v)
    BY <1>1 DEF RowInv
  <2>2. CASE v = u
    <3>1. u \in dirty
      BY <1>5 DEF WriteOK
    <3>2. u \notin dirty' => s = NoSnapshot
      BY <3>1, <1>8
    <3> QED
      BY <2>1, <2>2, <3>1, <3>2, <1>2, <1>9, <1>10 DEF RowOK
  <2>3. CASE v # u
    BY <2>1, <2>3, <1>2, <1>9 DEF RowOK
  <2> QED
    BY <2>2, <2>3
<1>13. WriteInv'
  BY DEF WriteInv
<1>14. ReadInv'
  BY <1>1, <1>2 DEF ReadInv, ReadOK
<1>15. CloseInv'
  BY <1>1, <1>2, <1>5, <1>9 DEF CloseInv, WriteOK
<1>16. NoLostAccept'
  <2> SUFFICES ASSUME NEW v \in Users PROVE IsKept(v)'
    BY DEF NoLostAccept
  <2>1. IsKept(v)
    BY <1>1 DEF NoLostAccept
  <2>2. CASE v = u
    <3>1. u \in dirty
      BY <1>5 DEF WriteOK
    <3>2. CASE ~isOk
      BY <2>1, <2>2, <3>1, <3>2, <1>2, <1>8, <1>9 DEF IsKept, Current, Overlaid
    <3>3. CASE isOk /\ snapshots[u].revision = p.revision
      <4>1. u \notin dirty'
        BY <3>3, <1>8
      <4>2. /\ store[u].stats = snapshots[u].stats
            /\ snapshots[u].record # None => store[u].profile = snapshots[u].record.profile
        BY <3>3, <1>5 DEF WriteOK
      <4> QED
        BY <2>1, <2>2, <3>1, <4>1, <4>2, <1>2 DEF IsKept, Current, Overlaid
    <3>4. CASE isOk /\ snapshots[u].revision # p.revision
      <4>1. u \in dirty' /\ s.stats = snapshots[u].stats
        BY <3>1, <3>4, <1>8
      <4>2. s.record = None /\ snapshots[u].record # None
              => store[u].profile = snapshots[u].record.profile
        BY <3>4, <1>5, <1>8 DEF WriteOK
      <4> QED
        BY <2>1, <2>2, <3>1, <4>1, <4>2, <1>2, <1>9, <1>10 DEF IsKept, Current, Overlaid
    <3> QED
      BY <3>2, <3>3, <3>4
  <2>3. CASE v # u
    BY <2>1, <2>3, <1>2, <1>9 DEF IsKept, Current, Overlaid
  <2> QED
    BY <2>2, <2>3
<1>17. SessionCurrent'
  BY <1>1, <1>2 DEF SessionCurrent, Latest
<1>18. ReadFresh'
  BY <1>1 DEF ReadFresh, Clients
<1>19. FailuresPending'
  BY <1>1, <1>5, <1>8 DEF FailuresPending, WriteOK
<1> QED
  BY <1>11, <1>12, <1>13, <1>14, <1>15, <1>16, <1>17, <1>18, <1>19 DEF IInv

\* The worker's return from save.
LEMMA FlushWrittenStep == ASSUME IInv, FlushWritten PROVE IInv'
<1>1. TypeOK /\ GateInv
  BY DEF IInv
<1>2. GateInv'
  <2>1. \A c \in Clients : gate # c
    BY UsersAssumption DEF FlushWritten
  <2>2. \A c \in Clients : ~IsHolding(c)
    BY <1>1, <2>1 DEF GateInv
  <2>3. gate' = None /\ writing' = None /\ op' = op /\ session' = session
    BY DEF FlushWritten
  <2>4. gate' # Worker /\ gate' \notin Clients
    BY <2>3, NoneAssumption
  <2> QED
    BY <1>1, <2>2, <2>3, <2>4 DEF GateInv, IsHolding, Clients
<1>3. \A v \in Users : op[v] # None => op[v].step \notin {"apply", "settle"}
  BY <1>1, UsersAssumption DEF FlushWritten, GateInv, IsHolding, Clients
<1> QED
  BY <1>1, <1>2, <1>3, SaveEndStep DEF FlushWritten, TypeOK

\* An account operation's return from its own flush of the account.
LEMMA ControlFlushedStep == ASSUME IInv, NEW u \in Users, ControlFlushed(u) PROVE IInv'
<1>1. TypeOK /\ GateInv /\ WriteInv
  BY DEF IInv
<1>2. /\ gate = u /\ writing # None /\ writing.state # "issued" /\ writing' = None
      /\ SaveEnd(u)
      /\ UNCHANGED <<revision, isClosed, closeErr, worker, disk, session, accepted>>
      /\ \/ writing.state = "error" /\ gate' = None /\ op' = [op EXCEPT ![u] = None]
         \/ writing.state # "error" /\ gate' = gate /\ op' = [op EXCEPT ![u].step = "apply"]
  BY DEF ControlFlushed
<1>3. /\ writing.user = u
      /\ snapshots[u].revision = writing.pending.revision
  BY <1>1, <1>2 DEF WriteInv, WriteOK
<1>4. /\ op[u] # None /\ op[u] \in Operation /\ op[u].user = u
      /\ session[u] = None /\ op[u].step = "flush"
      /\ gate \in Clients /\ u \in Clients
  BY <1>1, <1>2, UsersAssumption DEF GateInv, IsHolding, TypeOK, Clients
<1>5. PICK o \in Operation \cup {None} :
        /\ op' = [op EXCEPT ![u] = o]
        /\ \/ writing.state = "error" /\ gate' = None /\ o = None
           \/ writing.state # "error" /\ gate' = u /\ o # None
              /\ o.user = u /\ o.step = "apply"
  <2>1. PICK old \in Operation : old = op[u]
    BY <1>4
  <2>2. [old EXCEPT !.step = "apply"] \in Operation
    BY DEF Operation, Steps
  <2>3. /\ [old EXCEPT !.step = "apply"].step = "apply"
        /\ [old EXCEPT !.step = "apply"].user = u
    BY <1>4, <2>1 DEF Operation
  <2> QED
    BY <1>2, <2>1, <2>2, <2>3, NoneAssumption
<1>6. /\ op' \in [Clients -> Operation \cup {None}]
      /\ op'[u] = o /\ \A c \in Clients \ {u} : op'[c] = op[c]
  BY <1>1, <1>4, <1>5 DEF TypeOK
<1>7. gate' \in Clients \cup {Worker, None}
  BY <1>4, <1>5
<1>8. GateInv'
  <2>1. \A c \in Clients : (gate' = c) <=> IsHolding(c)'
    <3>1. \A c \in Clients \ {u} : gate' # c /\ ~IsHolding(c)
      BY <1>1, <1>2, <1>5, NoneAssumption DEF GateInv
    <3> QED
      BY <3>1, <1>4, <1>5, <1>6, NoneAssumption DEF IsHolding
  <2>2. \A v \in Users : op'[v] # None
          => op'[v].user = v /\ op'[v].step # "shown" /\ session'[v] = None
    BY <1>1, <1>2, <1>4, <1>5, <1>6 DEF GateInv, Clients
  <2>3. \A c \in Viewers : op'[c] # None => op'[c].step \in {"load", "shown"}
    BY <1>1, <1>6, UsersAssumption DEF GateInv, Clients
  <2>4. ~(gate' = Worker \/ (gate' \in Users /\ op'[gate'].step = "flush"))
    BY <1>5, <1>6, UsersAssumption, NoneAssumption DEF Clients
  <2> QED
    BY <1>2, <2>1, <2>2, <2>3, <2>4 DEF GateInv
<1>9. \A v \in Users : op'[v] # None /\ op'[v].step \in {"apply", "settle"} => v \notin dirty'
  <2>1. writing.state # "error" => u \notin dirty'
    BY <1>2, <1>3 DEF SaveEnd
  <2>2. \A v \in Users \ {u} : op[v] = None
    BY <1>1, <1>2 DEF GateInv, IsHolding, Clients
  <2> QED
    BY <2>1, <2>2, <1>5, <1>6 DEF Clients
<1>10. \A c \in Clients : op'[c] # None /\ op'[c].step \in {"load", "shown"} => op'[c] = op[c]
  BY <1>5, <1>6
<1> QED
  BY <1>2, <1>3, <1>6, <1>7, <1>8, <1>9, <1>10, SaveEndStep

\* What both callers of save have in common before the store is asked.
LEMMA SaveBeginStep ==
    ASSUME IInv, NEW u \in Users, u \in dirty, SaveBegin(u),
           UNCHANGED <<dirty, revision, isClosed, failures, closeErr, disk, session, accepted>>,
           gate' \in {Worker, u},
           worker' \in [pc : {"waiting", "flushing", "draining", "stopped"},
                        candidates : SUBSET Candidate, isSpent : BOOLEAN],
           worker'.pc = worker.pc,
           op' \in [Clients -> Operation \cup {None}],
           GateInv',
           \A c \in Clients : op'[c] # None /\ op'[c].step # "flush" => op'[c] = op[c]
    PROVE  IInv'
<1>1. TypeOK /\ GateInv /\ RowInv /\ WriteInv /\ ReadInv /\ CloseInv
      /\ NoLostAccept /\ SessionCurrent /\ ReadFresh /\ FailuresPending
  BY DEF IInv
<1>2. UNCHANGED <<dirty, revision, isClosed, failures, closeErr, store, archived, session, accepted>>
  BY DEF disk
<1>3. /\ snapshots \in [Users -> Snapshot] /\ store \in [Users -> View]
      /\ accepted \in [Users -> Version] /\ revision \in Nat
  BY <1>1 DEF TypeOK
<1>4. PICK p \in Snapshot : p = snapshots[u]
  BY <1>3
<1>5. PICK s \in Snapshot :
        /\ snapshots' = [snapshots EXCEPT ![u] = s]
        /\ s.record = p.record /\ s.stats = p.stats
        /\ s.revision = p.revision /\ s.profileRevision = p.profileRevision
  <2>1. [p EXCEPT !.isReady = TRUE] \in Snapshot /\ [p EXCEPT !.isReady = FALSE] \in Snapshot
    BY DEF Snapshot
  <2> QED
    BY <1>3, <1>4, <2>1 DEF SaveBegin, Snapshot
<1>6. writing' = [user |-> u, pending |-> p, state |-> "issued"]
  BY <1>4 DEF SaveBegin
<1>7. /\ writing' \in Write /\ writing' # None
      /\ writing'.user = u /\ writing'.pending = p /\ writing'.state = "issued"
  BY <1>6, NoneAssumption DEF Write
<1>8. snapshots'[u] = s /\ \A v \in Users \ {u} : snapshots'[v] = snapshots[v]
  BY <1>3, <1>5
<1>9. TypeOK'
  BY <1>1, <1>2, <1>3, <1>5, <1>7 DEF TypeOK, Clients
<1>10. RowInv'
  <2> SUFFICES ASSUME NEW v \in Users PROVE RowOK(v)'
    BY DEF RowInv
  <2>1. RowOK(v)
    BY <1>1 DEF RowInv
  <2>2. v \in Clients
    BY DEF Clients
  <2>3. CASE v = u
    BY <2>1, <2>2, <2>3, <1>2, <1>4, <1>5, <1>8 DEF RowOK
  <2>4. CASE v # u
    BY <2>1, <2>2, <2>4, <1>2, <1>8 DEF RowOK
  <2> QED
    BY <2>3, <2>4
<1>11. WriteInv'
  <2>1. /\ p.stats = accepted[u].stats
        /\ p.record # None => p.record.profile = accepted[u].profile
    BY <1>1, <1>4 DEF NoLostAccept, IsKept, Current, Overlaid
  <2>2. /\ store[u].stats <= accepted[u].stats /\ store[u].profile <= accepted[u].profile
        /\ p.revision <= revision /\ p.profileRevision <= revision
    BY <1>1, <1>4 DEF RowInv, RowOK
  <2>3. /\ accepted[u].stats \in Nat /\ accepted[u].profile \in Nat
    BY <1>3 DEF Version
  <2>4. gate' \in Users => gate' = u
    BY UsersAssumption DEF Clients
  <2>5. PICK isOk \in BOOLEAN : isOk = (writing.state = "ok")' /\ ~isOk
    BY <1>7
  <2>6. WriteOK(u, p, isOk)'
    BY <2>1, <2>2, <2>3, <2>4, <2>5, <1>2, <1>5, <1>8 DEF WriteOK
  <2> QED
    BY <2>5, <2>6, <1>7 DEF WriteInv
<1>12. ReadInv'
  BY <1>1, <1>2 DEF ReadInv, ReadOK
<1>13. CloseInv'
  BY <1>1, <1>2 DEF CloseInv
<1>14. NoLostAccept'
  <2> SUFFICES ASSUME NEW v \in Users PROVE IsKept(v)'
    BY DEF NoLostAccept
  <2>1. IsKept(v)
    BY <1>1 DEF NoLostAccept
  <2>2. CASE v = u
    BY <2>1, <2>2, <1>2, <1>4, <1>5, <1>8 DEF IsKept, Current, Overlaid
  <2>3. CASE v # u
    BY <2>1, <2>3, <1>2, <1>8 DEF IsKept, Current, Overlaid
  <2> QED
    BY <2>2, <2>3
<1>15. SessionCurrent'
  BY <1>1, <1>2 DEF SessionCurrent, Latest
<1>16. ReadFresh'
  BY <1>1 DEF ReadFresh, Clients
<1>17. FailuresPending'
  BY <1>1, <1>2 DEF FailuresPending
<1> QED
  BY <1>9, <1>10, <1>11, <1>12, <1>13, <1>14, <1>15, <1>16, <1>17 DEF IInv

\* The worker takes the gate for the oldest candidate.
LEMMA FlushNextStep ==
    ASSUME IInv, NEW c \in worker.candidates, FlushNext(c) PROVE IInv'
<1>1. TypeOK /\ GateInv /\ CloseInv
  BY DEF IInv
<1>2. /\ worker \in [pc : {"waiting", "flushing", "draining", "stopped"},
                     candidates : SUBSET Candidate, isSpent : BOOLEAN]
      /\ c.user \in Users
  BY <1>1 DEF TypeOK, Candidate
<1>3. /\ gate = None
      /\ UNCHANGED <<dirty, revision, isClosed, failures, closeErr, disk, session, op, accepted>>
  BY DEF FlushNext
<1>4. PICK rest \in SUBSET Candidate : rest = worker.candidates \ {c}
  BY <1>2
<1>5. CASE c.user \in dirty /\ IsDue(c.user, worker.pc = "draining")
  <2>1. SaveBegin(c.user) /\ gate' = Worker
        /\ worker' = [worker EXCEPT !.candidates = rest, !.isSpent = TRUE]
    BY <1>4, <1>5 DEF FlushNext
  <2>2. /\ worker' \in [pc : {"waiting", "flushing", "draining", "stopped"},
                        candidates : SUBSET Candidate, isSpent : BOOLEAN]
        /\ worker'.pc = worker.pc
    BY <1>2, <2>1
  <2>3. GateInv'
    <3>1. \A d \in Clients : ~IsHolding(d) /\ gate' # d
      BY <1>1, <1>3, <2>1, NoneAssumption, UsersAssumption DEF GateInv
    <3>2. writing' # None
      <4>1. snapshots[c.user] \in Snapshot
        BY <1>1, <1>2 DEF TypeOK
      <4> QED
        BY <2>1, <1>2, <4>1, NoneAssumption DEF SaveBegin, Write
    <3> QED
      BY <1>1, <1>3, <2>1, <3>1, <3>2 DEF GateInv, IsHolding
  <2> QED
    BY <1>1, <1>2, <1>3, <1>5, <2>1, <2>2, <2>3, SaveBeginStep DEF TypeOK
<1>6. CASE ~(c.user \in dirty /\ IsDue(c.user, worker.pc = "draining"))
  <2>1. /\ worker' = [worker EXCEPT !.candidates = rest]
        /\ UNCHANGED <<gate, writing, snapshots>>
    BY <1>4, <1>6 DEF FlushNext
  <2>2. /\ worker' \in [pc : {"waiting", "flushing", "draining", "stopped"},
                        candidates : SUBSET Candidate, isSpent : BOOLEAN]
        /\ worker'.pc = worker.pc
    BY <1>2, <2>1
  <2>3. IsQuiet /\ TypeOK' /\ CloseInv'
    BY <1>1, <1>3, <2>1, <2>2 DEF IsQuiet, TypeOK, CloseInv, disk
  <2> QED
    BY <2>3, QuietStep
<1> QED
  BY <1>5, <1>6

-----------------------------------------------------------------------------
(* Reads. *)

\* Under the gate, with no write in flight, the overlaid row is the accepted version.
LEMMA CurrentIsLatest ==
    ASSUME IInv, NEW u \in Users
    PROVE  Current(u) = Latest(u) /\ Latest(u) \in View
<1>1. TypeOK /\ RowOK(u) /\ IsKept(u)
  BY DEF IInv, RowInv, NoLostAccept
<1>2. PICK row \in View : row = store[u]
  BY <1>1 DEF TypeOK
<1>3. PICK profile \in Nat, stats \in Nat, credential \in Nat :
        row = [profile |-> profile, stats |-> stats, credential |-> credential]
  BY DEF View
<1>4. Latest(u) = [profile |-> accepted[u].profile, stats |-> accepted[u].stats,
                   credential |-> credential]
  BY <1>2, <1>3 DEF Latest
<1>5. accepted[u].profile \in Nat /\ accepted[u].stats \in Nat
  BY <1>1 DEF TypeOK, Version
<1>6. CASE u \notin dirty
  BY <1>1, <1>2, <1>3, <1>4, <1>5, <1>6 DEF IsKept, Current, Overlaid, View
<1>7. CASE u \in dirty
  <2>1. PICK p \in Nat, s \in Nat, k \in Nat :
          /\ Current(u) = [profile |-> p, stats |-> s, credential |-> k]
          /\ k = credential
    <3>1. snapshots[u] \in Snapshot
      BY <1>1 DEF TypeOK
    <3>2. CASE snapshots[u].record = None
      <4>1. PICK s \in Nat : s = snapshots[u].stats
        BY <3>1 DEF Snapshot
      <4>2. Current(u) = [profile |-> row.profile, stats |-> s, credential |-> row.credential]
        BY <1>2, <1>7, <3>2, <4>1 DEF Current, Overlaid
      <4> QED
        BY <1>3, <4>2
    <3>3. CASE snapshots[u].record # None
      <4>1. snapshots[u].record.credential = credential
        BY <1>1, <1>2, <1>3, <3>3 DEF RowOK
      <4> QED
        BY <1>3, <1>7, <3>1, <3>3, <4>1 DEF Current, Overlaid, Snapshot, Record
    <3> QED
      BY <3>2, <3>3
  <2>2. p = accepted[u].profile /\ s = accepted[u].stats
    BY <1>1, <2>1 DEF IsKept
  <2> QED
    BY <1>4, <1>5, <2>1, <2>2 DEF View
<1> QED
  BY <1>6, <1>7

\* The end of a read, with or without the gate.
LEMMA ReturnStep ==
    ASSUME IInv, NEW c \in Clients, NEW u \in Users,
           NEW view \in View, NEW floor \in View,
           Return(c, u, view, floor), view = Current(u),
           floor.profile <= accepted[u].profile, floor.stats <= accepted[u].stats,
           floor.credential <= store[u].credential,
           UNCHANGED <<buffer, writing, worker, disk, accepted>>,
           \/ op[c] = None /\ gate' = gate
           \/ op[c] # None /\ op[c].step = "load" /\ gate' = None,
           c \in Viewers \/ (c = u /\ session[u] = None),
           u \notin archived
    PROVE  IInv'
<1>1. TypeOK /\ GateInv /\ RowInv /\ WriteInv /\ ReadInv /\ CloseInv
      /\ NoLostAccept /\ SessionCurrent /\ ReadFresh /\ FailuresPending
  BY DEF IInv
<1>2. UNCHANGED <<dirty, snapshots, revision, isClosed, failures, closeErr,
                  writing, worker, store, archived, accepted>>
  BY DEF buffer, disk
<1>3. view = Latest(u)
  BY CurrentIsLatest
<1>4. /\ op \in [Clients -> Operation \cup {None}]
      /\ session \in [Users -> View \cup {None}]
  BY <1>1 DEF TypeOK
<1>5. PICK o \in Operation \cup {None} :
        /\ op' = [op EXCEPT ![c] = o]
        /\ \/ c \in Viewers /\ o = Shown(u, view, floor) /\ session' = session
           \/ c = u /\ c \notin Viewers /\ o = None /\ session' = [session EXCEPT ![u] = view]
  <2>1. Shown(u, view, floor) \in Operation
    BY DEF Shown, Operation, Kinds, Steps
  <2> QED
    BY <2>1 DEF Return
<1>6. /\ op' \in [Clients -> Operation \cup {None}] /\ op'[c] = o
      /\ \A d \in Clients \ {c} : op'[d] = op[d]
      /\ o # None => /\ o.step = "shown" /\ o.user = u
                     /\ o.row = view /\ o.floor = floor
  BY <1>4, <1>5 DEF Shown
<1>7. /\ session' \in [Users -> View \cup {None}]
      /\ \A v \in Users : session'[v] # None => session[v] # None \/ (v = u /\ v = c)
      /\ \A v \in Users : session'[v] = session[v] \/ (v = u /\ session'[v] = view)
  BY <1>4, <1>5
<1>8. gate' \in Clients \cup {Worker, None}
  BY <1>1 DEF TypeOK
<1>9. op[c] # None => gate = c
  BY <1>1 DEF GateInv, IsHolding
<1>10. TypeOK'
  BY <1>1, <1>2, <1>6, <1>7, <1>8 DEF TypeOK
<1>11. GateInv'
  <2>1. \A d \in Clients : gate' = d <=> IsHolding(d)'
    <3>1. ~IsHolding(c)' /\ gate' # c
      BY <1>1, <1>6, NoneAssumption DEF IsHolding, GateInv
    <3>2. ASSUME NEW d \in Clients, d # c PROVE gate' = d <=> IsHolding(d)'
      BY <1>1, <1>6, <1>9, <3>2, NoneAssumption DEF IsHolding, GateInv
    <3> QED
      BY <3>1, <3>2
  <2>2. ASSUME NEW v \in Users, op'[v] # None
        PROVE  op'[v].user = v /\ op'[v].step # "shown" /\ session'[v] = None
    <3>1. v # c /\ v \in Clients
      BY <1>5, <1>6, <2>2, UsersAssumption DEF Clients
    <3> QED
      BY <1>1, <1>5, <1>6, <1>7, <2>2, <3>1 DEF GateInv
  <2>3. \A d \in Viewers : op'[d] # None => op'[d].step \in {"load", "shown"}
    BY <1>1, <1>6 DEF GateInv, Clients
  <2>4. (gate' = Worker \/ (gate' \in Users /\ op'[gate'].step = "flush"))
        <=> (gate = Worker \/ (gate \in Users /\ op[gate].step = "flush"))
    <3>1. CASE op[c] = None
      <4>1. gate' = gate /\ gate # c
        BY <1>1, <3>1 DEF GateInv, IsHolding
      <4> QED
        BY <1>6, <4>1 DEF Clients
    <3>2. CASE op[c] # None
      <4>1. gate = c /\ gate' = None /\ op[c].step = "load"
        BY <1>9, <3>2
      <4> QED
        BY <4>1, UsersAssumption, NoneAssumption DEF Clients
    <3> QED
      BY <3>1, <3>2
  <2> QED
    BY <1>1, <1>2, <2>1, <2>2, <2>3, <2>4 DEF GateInv
<1>12. RowInv'
  <2> SUFFICES ASSUME NEW v \in Users PROVE RowOK(v)'
    BY DEF RowInv
  <2>1. RowOK(v) /\ v \in Clients
    BY <1>1 DEF RowInv, Clients
  <2>2. v \in archived => session'[v] = None
    BY <2>1, <1>7 DEF RowOK
  <2>3. op'[v] # None /\ op'[v].step \in {"apply", "settle"} => op'[v] = op[v]
    BY <2>1, <1>6
  <2> QED
    BY <2>1, <2>2, <2>3, <1>2 DEF RowOK
<1>13. WriteInv'
  <2> SUFFICES ASSUME writing # None
               PROVE  WriteOK(writing.user, writing.pending, writing.state = "ok")'
    BY <1>2 DEF WriteInv
  <2>1. WriteOK(writing.user, writing.pending, writing.state = "ok")
    BY <1>1 DEF WriteInv
  <2>2. gate' \in Users => gate' = gate
    BY NoneAssumption DEF Clients
  <2> QED
    BY <2>1, <2>2, <1>2 DEF WriteOK
<1>14. ReadInv'
  BY <1>1, <1>2, <1>6 DEF ReadInv, ReadOK
<1>15. CloseInv'
  BY <1>1, <1>2 DEF CloseInv
<1>16. NoLostAccept'
  BY <1>1, <1>2 DEF NoLostAccept, IsKept, Current, Overlaid
<1>17. SessionCurrent'
  <2> SUFFICES ASSUME NEW v \in Users, session'[v] # None PROVE session'[v] = Latest(v)'
    BY DEF SessionCurrent
  <2>1. Latest(v)' = Latest(v)
    BY <1>2 DEF Latest
  <2> QED
    BY <2>1, <1>1, <1>3, <1>7 DEF SessionCurrent
<1>18. ReadFresh'
  <2>1. /\ view.profile = accepted[u].profile /\ view.stats = accepted[u].stats
        /\ view.credential = store[u].credential
    BY <1>3 DEF Latest
  <2>2. /\ view.profile >= floor.profile /\ view.stats >= floor.stats
        /\ view.credential >= floor.credential
    BY <2>1 DEF View
  <2> QED
    BY <1>1, <1>6, <2>2 DEF ReadFresh, Clients
<1>19. FailuresPending'
  BY <1>1, <1>2 DEF FailuresPending
<1> QED
  BY <1>10, <1>11, <1>12, <1>13, <1>14, <1>15, <1>16, <1>17, <1>18, <1>19 DEF IInv

\* A login or summary served from the map, without the gate.
LEMMA ReadCachedStep ==
    ASSUME IInv, NEW c \in Clients, NEW u \in Users, ReadCached(c, u) PROVE IInv'
<1>1. /\ MayRead(c, u) /\ HasProfile(u)
      /\ Return(c, u, Overlaid(store[u], u), Latest(u))
      /\ UNCHANGED <<buffer, gate, writing, worker, disk, accepted>>
  BY DEF ReadCached
<1>2. PICK view \in View, floor \in View : view = Current(u) /\ floor = Latest(u)
  BY CurrentIsLatest
<1>3. Return(c, u, view, floor)
  BY <1>1, <1>2 DEF Current
<1>4. u \notin archived
  BY <1>1 DEF IInv, RowInv, RowOK, HasProfile, NoSnapshot
<1>5. /\ floor.profile <= accepted[u].profile /\ floor.stats <= accepted[u].stats
      /\ floor.credential <= store[u].credential
  BY <1>2 DEF Latest, View
<1> QED
  BY <1>1, <1>2, <1>3, <1>4, <1>5, ReturnStep DEF MayRead

\* A login or summary served from the row and the map it re-reads.
LEMMA ReadOverlayStep ==
    ASSUME IInv, NEW c \in Clients, ReadOverlay(c) PROVE IInv'
<1>1. /\ op[c] # None /\ op[c].step = "load" /\ gate' = None
      /\ Return(c, op[c].user, Overlaid(op[c].row, op[c].user), op[c].floor)
      /\ UNCHANGED <<buffer, writing, worker, disk, accepted>>
  BY DEF ReadOverlay
<1>2. ReadOK(op[c]) /\ op[c] \in Operation
  BY <1>1 DEF IInv, ReadInv, TypeOK
<1>3. PICK u \in Users, floor \in View : u = op[c].user /\ floor = op[c].floor
  BY <1>2 DEF Operation
<1>4. PICK view \in View : view = Current(u)
  BY CurrentIsLatest
<1>5. Return(c, u, view, floor)
  BY <1>1, <1>2, <1>3, <1>4 DEF Current, ReadOK
<1>6. /\ floor.profile <= accepted[u].profile /\ floor.stats <= accepted[u].stats
      /\ floor.credential <= store[u].credential /\ u \notin archived
  BY <1>2, <1>3 DEF ReadOK
<1>7. c \in Viewers \/ (c = u /\ session[u] = None)
  BY <1>1, <1>3 DEF IInv, GateInv, Clients
<1> QED
  BY <1>1, <1>3, <1>4, <1>5, <1>6, <1>7, ReturnStep

-----------------------------------------------------------------------------
(* Steps of a client that change nothing but the gate and its operation. *)

\* A step that moves one client's operation and the gate keeps the invariant.
LEMMA ClientStep ==
    ASSUME IInv, NEW c \in Clients, NEW o \in Operation \cup {None},
           UNCHANGED <<buffer, writing, worker, disk, session, accepted>>,
           op' = [op EXCEPT ![c] = o],
           (gate \in {None, c} /\ gate' \in {None, c}) \/ (gate' = gate /\ gate # c),
           gate' = c <=> (o # None /\ o.step # "shown"),
           gate = c \/ gate' = c => writing = None,
           o # None => /\ o.step \in {"load", "apply"}
                       /\ o.step = "apply" => c \in Users /\ c \notin dirty
                       /\ o.step = "load" => ReadOK(o)
                       /\ c \in Users => o.user = c /\ session[c] = None
    PROVE  IInv'
<1>1. TypeOK /\ GateInv /\ RowInv /\ WriteInv /\ ReadInv /\ CloseInv
      /\ NoLostAccept /\ SessionCurrent /\ ReadFresh /\ FailuresPending
  BY DEF IInv
<1>2. UNCHANGED <<dirty, snapshots, revision, isClosed, failures, closeErr,
                  writing, worker, store, archived, session, accepted>>
  BY DEF buffer, disk
<1>3. /\ op' \in [Clients -> Operation \cup {None}] /\ op'[c] = o
      /\ \A d \in Clients \ {c} : op'[d] = op[d]
  BY <1>1 DEF TypeOK
<1>4. TypeOK'
  BY <1>1, <1>2, <1>3 DEF TypeOK
<1>5. GateInv'
  <2>1. \A d \in Clients : gate' = d <=> IsHolding(d)'
    BY <1>1, <1>3, NoneAssumption DEF IsHolding, GateInv
  <2>2. \A v \in Users : op'[v] # None
          => op'[v].user = v /\ op'[v].step # "shown" /\ session'[v] = None
    BY <1>1, <1>2, <1>3 DEF GateInv, Clients
  <2>3. \A d \in Viewers : op'[d] # None => op'[d].step \in {"load", "shown"}
    BY <1>1, <1>3, UsersAssumption DEF GateInv, Clients
  <2>4. (gate' = Worker \/ (gate' \in Users /\ op'[gate'].step = "flush"))
        <=> (gate = Worker \/ (gate \in Users /\ op[gate].step = "flush"))
    <3>1. CASE gate' = gate /\ gate # c
      BY <1>3, <3>1 DEF Clients
    <3>2. CASE gate = c
      <4>1. ~(gate = Worker \/ (gate \in Users /\ op[gate].step = "flush"))
        BY <1>1, <3>2 DEF GateInv
      <4>2. ~(gate' = Worker \/ (gate' \in Users /\ op'[gate'].step = "flush"))
        BY <1>3, <3>2, UsersAssumption, NoneAssumption DEF Clients
      <4> QED
        BY <4>1, <4>2
    <3>3. CASE gate = None /\ gate' \in {None, c}
      <4>1. ~(gate' = Worker \/ (gate' \in Users /\ op'[gate'].step = "flush"))
        BY <1>3, <3>3, UsersAssumption, NoneAssumption DEF Clients
      <4> QED
        BY <3>3, <4>1, NoneAssumption DEF Clients
    <3> QED
      BY <3>1, <3>2, <3>3
  <2> QED
    BY <1>1, <1>2, <2>1, <2>2, <2>3, <2>4 DEF GateInv
<1>6. RowInv'
  <2> SUFFICES ASSUME NEW v \in Users PROVE RowOK(v)'
    BY DEF RowInv
  <2>1. RowOK(v) /\ v \in Clients
    BY <1>1 DEF RowInv, Clients
  <2>2. op'[v] # None /\ op'[v].step \in {"apply", "settle"} => v \notin dirty
    BY <2>1, <1>3 DEF RowOK
  <2> QED
    BY <2>1, <2>2, <1>2 DEF RowOK
<1>7. WriteInv'
  <2> SUFFICES ASSUME writing # None
               PROVE  WriteOK(writing.user, writing.pending, writing.state = "ok")'
    BY <1>2 DEF WriteInv
  <2>1. WriteOK(writing.user, writing.pending, writing.state = "ok")
    BY <1>1 DEF WriteInv
  <2>2. gate' \in Users => gate' = gate
    BY NoneAssumption DEF Clients
  <2> QED
    BY <2>1, <2>2, <1>2 DEF WriteOK
<1>8. ReadInv'
  BY <1>1, <1>2, <1>3 DEF ReadInv, ReadOK
<1>9. NoLostAccept' /\ CloseInv' /\ FailuresPending'
  BY <1>1, <1>2 DEF NoLostAccept, IsKept, Current, Overlaid, CloseInv, FailuresPending
<1>10. SessionCurrent'
  BY <1>1, <1>2 DEF SessionCurrent, Latest
<1>11. ReadFresh'
  BY <1>1, <1>3 DEF ReadFresh, Clients
<1> QED
  BY <1>4, <1>5, <1>6, <1>7, <1>8, <1>9, <1>10, <1>11 DEF IInv

\* No write is in flight when the gate is free or a reader's.
LEMMA NoWriteWithoutGate ==
    ASSUME GateInv, gate = None \/ (gate \in Clients /\ op[gate].step # "flush")
    PROVE  writing = None
BY NoneAssumption, UsersAssumption DEF GateInv, Clients

\* A read takes the gate and the row.
LEMMA ReadLoadStep ==
    ASSUME IInv, NEW c \in Clients, NEW u \in Users, ReadLoad(c, u) PROVE IInv'
<1>1. /\ MayRead(c, u) /\ gate = None /\ gate' = c /\ u \notin archived
      /\ op' = [op EXCEPT ![c] = [kind |-> "read", user |-> u, step |-> "load",
                                  row |-> store[u], floor |-> Latest(u)]]
      /\ UNCHANGED <<buffer, writing, worker, disk, session, accepted>>
  BY DEF ReadLoad
<1>2. PICK row \in View, floor \in View : row = store[u] /\ floor = Latest(u)
  BY CurrentIsLatest DEF IInv, TypeOK
<1>3. PICK o \in Operation :
        o = [kind |-> "read", user |-> u, step |-> "load", row |-> row, floor |-> floor]
  BY DEF Operation, Kinds, Steps
<1>4. o.user = u /\ o.step = "load" /\ o.row = row /\ o.floor = floor
  BY <1>3
<1>5. ReadOK(o)
  <2>1. /\ floor.profile = accepted[u].profile /\ floor.stats = accepted[u].stats
        /\ floor.credential = store[u].credential
    BY <1>2 DEF Latest
  <2> QED
    BY <1>1, <1>2, <1>4, <2>1 DEF ReadOK, View
<1>6. writing = None
  BY <1>1, NoWriteWithoutGate DEF IInv
<1> QED
  BY <1>1, <1>2, <1>3, <1>4, <1>5, <1>6, NoneAssumption, UsersAssumption, ClientStep
  DEF MayRead, Clients

\* A viewer leaves with its summary.
LEMMA ViewerDoneStep ==
    ASSUME IInv, NEW c \in Clients, ViewerDone(c) PROVE IInv'
<1>1. /\ op[c] # None /\ op[c].step = "shown" /\ op' = [op EXCEPT ![c] = None]
      /\ gate' = gate
      /\ UNCHANGED <<buffer, writing, worker, disk, session, accepted>>
  BY DEF ViewerDone
<1>2. gate # c
  BY <1>1 DEF IInv, GateInv, IsHolding
<1> QED
  BY <1>1, <1>2, ClientStep

-----------------------------------------------------------------------------
(* Account operations. *)

\* The operation record of an account operation.
LEMMA ControlType ==
    ASSUME NEW u \in Users, NEW kind \in Kinds, NEW step \in Steps
    PROVE  /\ Control(u, kind, step) \in Operation
           /\ Control(u, kind, step).user = u /\ Control(u, kind, step).step = step
<1>1. NewView \in View
  BY DEF NewView, View
<1> QED
  BY <1>1 DEF Control, Operation

\* RestoreDeletedProfile takes the gate.
LEMMA RestoreBeginStep ==
    ASSUME IInv, NEW u \in Users, RestoreBegin(u) PROVE IInv'
<1>1. /\ session[u] = None /\ gate = None /\ gate' = u /\ u \in archived
      /\ op' = [op EXCEPT ![u] = Control(u, "restore", "apply")]
      /\ UNCHANGED <<buffer, writing, worker, disk, session, accepted>>
  BY DEF RestoreBegin
<1>2. PICK o \in Operation :
        o = Control(u, "restore", "apply") /\ o.user = u /\ o.step = "apply"
  BY ControlType DEF Kinds, Steps
<1>3. u \in Clients /\ u \notin dirty
  BY <1>1 DEF IInv, RowInv, RowOK, Clients
<1>4. writing = None
  BY <1>1, NoWriteWithoutGate DEF IInv
<1> QED
  BY <1>1, <1>2, <1>3, <1>4, NoneAssumption, ClientStep

\* A password change or a deletion takes the gate and flushes the account first.
LEMMA ControlBeginStep ==
    ASSUME IInv, NEW u \in Users, NEW kind \in {"password", "delete"}, ControlBegin(u, kind)
    PROVE  IInv'
<1>1. TypeOK /\ GateInv
  BY DEF IInv
<1>2. /\ op[u] = None /\ session[u] = None /\ gate = None /\ gate' = u
      /\ UNCHANGED <<dirty, revision, isClosed, failures, closeErr, worker, disk, session, accepted>>
      /\ u \in Clients
  BY DEF ControlBegin, Clients
<1>3. CASE u \in dirty
  <2>1. SaveBegin(u) /\ op' = [op EXCEPT ![u] = Control(u, kind, "flush")]
    BY <1>3 DEF ControlBegin
  <2>2. PICK o \in Operation : o = Control(u, kind, "flush") /\ o.user = u /\ o.step = "flush"
    BY ControlType DEF Kinds, Steps
  <2>3. /\ op' \in [Clients -> Operation \cup {None}] /\ op'[u] = o
        /\ \A c \in Clients \ {u} : op'[c] = op[c]
    BY <1>1, <1>2, <2>1, <2>2 DEF TypeOK
  <2>4. GateInv'
    <3>1. writing' # None
      <4>1. snapshots[u] \in Snapshot
        BY <1>1 DEF TypeOK
      <4> QED
        BY <2>1, <4>1, NoneAssumption DEF SaveBegin, Write
    <3>2. \A c \in Clients : gate' = c <=> IsHolding(c)'
      BY <1>1, <1>2, <2>2, <2>3, NoneAssumption DEF GateInv, IsHolding
    <3>3. \A v \in Users : op'[v] # None
            => op'[v].user = v /\ op'[v].step # "shown" /\ session'[v] = None
      BY <1>1, <1>2, <2>2, <2>3 DEF GateInv, Clients
    <3>4. \A c \in Viewers : op'[c] # None => op'[c].step \in {"load", "shown"}
      BY <1>1, <2>3, UsersAssumption DEF GateInv, Clients
    <3> QED
      BY <1>2, <2>2, <2>3, <3>1, <3>2, <3>3, <3>4 DEF GateInv
  <2>5. \A c \in Clients : op'[c] # None /\ op'[c].step # "flush" => op'[c] = op[c]
    BY <2>2, <2>3
  <2> QED
    BY <1>1, <1>2, <1>3, <2>1, <2>3, <2>4, <2>5, SaveBeginStep DEF TypeOK
<1>4. CASE u \notin dirty
  <2>1. /\ op' = [op EXCEPT ![u] = Control(u, kind, "apply")]
        /\ UNCHANGED <<buffer, writing, worker, disk, session, accepted>>
    BY <1>2, <1>4 DEF ControlBegin, buffer
  <2>2. PICK o \in Operation : o = Control(u, kind, "apply") /\ o.user = u /\ o.step = "apply"
    BY ControlType DEF Kinds, Steps
  <2>3. writing = None
    BY <1>1, <1>2, NoWriteWithoutGate
  <2> QED
    BY <1>2, <1>4, <2>1, <2>2, <2>3, NoneAssumption, ClientStep
<1> QED
  BY <1>3, <1>4

\* What an account operation does after the store answered.
LEMMA ControlSettleStep ==
    ASSUME IInv, NEW u \in Users, ControlSettle(u) PROVE IInv'
<1>1. TypeOK /\ GateInv /\ RowOK(u)
  BY DEF IInv, RowInv
<1>2. /\ op[u] # None /\ op[u].step = "settle"
      /\ gate' = None /\ op' = [op EXCEPT ![u] = None]
      /\ UNCHANGED <<revision, isClosed, failures, closeErr, writing, worker, disk, session, accepted>>
  BY DEF ControlSettle
<1>3. gate = u /\ u \in Clients
  BY <1>1, <1>2 DEF GateInv, IsHolding, Clients
<1>4. writing = None
  BY <1>1, <1>2, <1>3, NoWriteWithoutGate
<1>5. u \notin dirty /\ snapshots[u] = NoSnapshot
  BY <1>1, <1>2 DEF RowOK
<1>6. UNCHANGED buffer
  <2>1. snapshots' = snapshots
    <3>1. [snapshots EXCEPT ![u] = NoSnapshot] = snapshots
      BY <1>1, <1>5 DEF TypeOK
    <3>2. ~HasProfile(u)
      BY <1>5 DEF HasProfile, NoSnapshot
    <3>3. snapshots' = snapshots \/ snapshots' = [snapshots EXCEPT ![u] = NoSnapshot]
      BY <3>2, Zenon DEF ControlSettle
    <3> QED
      BY <3>1, <3>3
  <2>2. dirty' = dirty
    BY <1>5 DEF ControlSettle
  <2> QED
    BY <1>2, <2>1, <2>2 DEF buffer
<1>7. gate' # u
  BY <1>2, <1>3, NoneAssumption
<1> QED
  BY <1>2, <1>3, <1>4, <1>6, <1>7, ClientStep

\* The store's part of a password change, deletion or restoration.
LEMMA ControlApplyStep ==
    ASSUME IInv, NEW u \in Users, NEW isCommitted \in BOOLEAN, NEW isOk \in BOOLEAN,
           ControlApply(u, isCommitted, isOk)
    PROVE  IInv'
<1>1. TypeOK /\ GateInv /\ RowInv /\ WriteInv /\ ReadInv /\ CloseInv
      /\ NoLostAccept /\ SessionCurrent /\ ReadFresh /\ FailuresPending
  BY DEF IInv
<1>2. /\ op[u] # None /\ op[u].step = "apply"
      /\ UNCHANGED <<dirty, snapshots, revision, isClosed, failures, closeErr,
                     writing, worker, session, accepted>>
  BY DEF ControlApply, buffer
<1>3. gate = u /\ u \in Clients /\ op[u] \in Operation /\ op[u].user = u /\ session[u] = None
  BY <1>1, <1>2 DEF GateInv, IsHolding, Clients, TypeOK
<1>4. writing = None
  BY <1>1, <1>2, <1>3, NoWriteWithoutGate
<1>5. u \notin dirty /\ snapshots[u] = NoSnapshot
  BY <1>1, <1>2 DEF RowInv, RowOK
<1>6. PICK row \in View :
        /\ store' = [store EXCEPT ![u] = row]
        /\ row.profile = store[u].profile /\ row.stats = store[u].stats
  <2>1. PICK old \in View : old = store[u]
    BY <1>1 DEF TypeOK
  <2>2. [old EXCEPT !.credential = @ + 1] \in View
    BY DEF View
  <2>3. CASE isCommitted /\ op[u].kind = "password"
    BY <2>1, <2>2, <2>3 DEF ControlApply, View
  <2>4. CASE ~(isCommitted /\ op[u].kind = "password")
    BY <1>1, <2>1, <2>4 DEF ControlApply, TypeOK
  <2> QED
    BY <2>3, <2>4
<1>7. archived' \subseteq Users /\ \A v \in Users \ {u} : v \in archived' <=> v \in archived
  BY <1>1 DEF ControlApply, TypeOK
<1>8. PICK o \in Operation \cup {None} :
        /\ op' = [op EXCEPT ![u] = o]
        /\ \/ o = None /\ gate' = None
           \/ o # None /\ gate' = u /\ o.step = "settle" /\ o.user = u
  <2>1. PICK old \in Operation : old = op[u]
    BY <1>3
  <2>2. [old EXCEPT !.step = "settle"] \in Operation
    BY DEF Operation, Steps
  <2>3. /\ [old EXCEPT !.step = "settle"].step = "settle"
        /\ [old EXCEPT !.step = "settle"].user = u
    BY <1>3, <2>1 DEF Operation
  <2> QED
    BY <1>3, <2>1, <2>2, <2>3, NoneAssumption DEF ControlApply
<1>9. /\ op' \in [Clients -> Operation \cup {None}] /\ op'[u] = o
      /\ \A c \in Clients \ {u} : op'[c] = op[c]
      /\ store' \in [Users -> View] /\ store'[u] = row
      /\ \A v \in Users \ {u} : store'[v] = store[v]
  BY <1>1, <1>3, <1>6, <1>8 DEF TypeOK
<1>10. \A c \in Clients \ {u} : gate' # c /\ ~IsHolding(c)
  BY <1>1, <1>3, <1>8, NoneAssumption DEF GateInv
<1>11. TypeOK'
  BY <1>1, <1>2, <1>3, <1>7, <1>8, <1>9 DEF TypeOK
<1>12. GateInv'
  <2>1. \A c \in Clients : (gate' = c) <=> IsHolding(c)'
    BY <1>3, <1>8, <1>9, <1>10, NoneAssumption DEF IsHolding
  <2>2. \A v \in Users : op'[v] # None
          => op'[v].user = v /\ op'[v].step # "shown" /\ session'[v] = None
    BY <1>1, <1>2, <1>3, <1>8, <1>9 DEF GateInv, Clients
  <2>3. \A c \in Viewers : op'[c] # None => op'[c].step \in {"load", "shown"}
    BY <1>1, <1>9, UsersAssumption DEF GateInv, Clients
  <2>4. ~(gate' = Worker \/ (gate' \in Users /\ op'[gate'].step = "flush"))
    BY <1>3, <1>8, <1>9, UsersAssumption, NoneAssumption DEF Clients
  <2> QED
    BY <1>2, <1>4, <2>1, <2>2, <2>3, <2>4 DEF GateInv
<1>13. RowInv'
  <2> SUFFICES ASSUME NEW v \in Users PROVE RowOK(v)'
    BY DEF RowInv
  <2>1. RowOK(v) /\ v \in Clients
    BY <1>1 DEF RowInv, Clients
  <2>2. CASE v = u
    BY <2>1, <2>2, <1>2, <1>3, <1>5, <1>6, <1>9 DEF RowOK, NoSnapshot
  <2>3. CASE v # u
    BY <2>1, <2>3, <1>2, <1>7, <1>9 DEF RowOK
  <2> QED
    BY <2>2, <2>3
<1>14. WriteInv' /\ CloseInv' /\ FailuresPending'
  BY <1>1, <1>2, <1>4 DEF WriteInv, CloseInv, FailuresPending
<1>15. ReadInv'
  <2>1. \A c \in Clients \ {u} : op'[c] # None => op'[c].step = "shown"
    BY <1>9, <1>10 DEF IsHolding
  <2> QED
    BY <2>1, <1>8, <1>9 DEF ReadInv
<1>16. NoLostAccept'
  <2> SUFFICES ASSUME NEW v \in Users PROVE IsKept(v)'
    BY DEF NoLostAccept
  <2>1. IsKept(v)
    BY <1>1 DEF NoLostAccept
  <2>2. store'[v].profile = store[v].profile /\ store'[v].stats = store[v].stats
    BY <1>6, <1>9
  <2> QED
    BY <2>1, <2>2, <1>2 DEF IsKept, Current, Overlaid
<1>17. SessionCurrent'
  BY <1>1, <1>2, <1>3, <1>9 DEF SessionCurrent, Latest
<1>18. ReadFresh'
  BY <1>1, <1>3, <1>9, UsersAssumption DEF ReadFresh, Clients
<1> QED
  BY <1>11, <1>12, <1>13, <1>14, <1>15, <1>16, <1>17, <1>18 DEF IInv

-----------------------------------------------------------------------------
(* The first state, a restart, and every step. *)

IsEmpty ==
    /\ dirty = {} /\ snapshots = [u \in Users |-> NoSnapshot] /\ revision \in Nat
    /\ isClosed = FALSE /\ failures = {} /\ closeErr = FALSE
    /\ gate = None /\ writing = None /\ worker = Idle
    /\ store \in [Users -> View] /\ archived \subseteq Users
    /\ session = [u \in Users |-> None] /\ op = [c \in Clients |-> None]
    /\ accepted = [u \in Users |-> [profile |-> store[u].profile, stats |-> store[u].stats]]
    /\ \A u \in Users : store[u].profile <= revision /\ store[u].stats <= revision

\* A state with an empty map and rows that hold what was accepted satisfies the invariant.
LEMMA EmptyState == IsEmpty => IInv
<1> SUFFICES ASSUME IsEmpty PROVE IInv
  OBVIOUS
<1> USE DEF IsEmpty
<1>1. \A u \in Users : /\ accepted[u].profile = store[u].profile
                       /\ accepted[u].stats = store[u].stats
                       /\ store[u].profile \in Nat /\ store[u].stats \in Nat
  BY DEF View
<1>2. TypeOK
  <2>1. NoSnapshot \in Snapshot
    BY DEF NoSnapshot, Snapshot, Ages
  <2>2. accepted \in [Users -> Version]
    BY <1>1 DEF Version
  <2> QED
    BY <2>1, <2>2 DEF TypeOK, Idle
<1>3. GateInv
  BY NoneAssumption DEF GateInv, IsHolding, Clients
<1>4. RowInv
  <2> SUFFICES ASSUME NEW u \in Users PROVE RowOK(u)
    BY DEF RowInv
  <2>1. snapshots[u] = NoSnapshot /\ session[u] = None /\ op[u] = None
    BY DEF Clients
  <2> QED
    BY <1>1, <2>1 DEF RowOK, NoSnapshot
<1>5. WriteInv /\ ReadInv /\ CloseInv /\ SessionCurrent /\ FailuresPending
  BY DEF WriteInv, ReadInv, CloseInv, SessionCurrent, FailuresPending, Idle
<1>6. NoLostAccept
  BY <1>1 DEF NoLostAccept, IsKept, Current, Overlaid
<1>7. ReadFresh
  BY DEF ReadFresh, Clients
<1> QED
  BY <1>2, <1>3, <1>4, <1>5, <1>6, <1>7 DEF IInv

\* The initial state satisfies the invariant.
LEMMA InitIInv == Init => IInv
<1> SUFFICES ASSUME Init PROVE IsEmpty
  BY EmptyState
<1>1. store \in [Users -> View] /\ \A u \in Users : store[u].profile = 0 /\ store[u].stats = 0
  BY DEF Init, NewView, View
<1>2. accepted = [u \in Users |-> [profile |-> store[u].profile, stats |-> store[u].stats]]
  BY DEF Init, NewView
<1> QED
  BY <1>1, <1>2 DEF Init, IsEmpty

\* A restart forgets the map, and what it forgets is no longer accepted.
LEMMA RestartStep == IInv /\ Restart => IInv'
<1> SUFFICES ASSUME IInv, Restart PROVE IsEmpty'
  BY EmptyState, PTL
<1>1. TypeOK /\ RowInv
  BY DEF IInv
<1>2. \A u \in Users : store[u].profile <= revision /\ store[u].stats <= revision
  BY <1>1 DEF RowInv, RowOK, TypeOK, View, Version
<1>3. store' = store /\ archived' = archived /\ revision' = revision
  BY DEF Restart, disk
<1> QED
  BY <1>1, <1>2, <1>3 DEF Restart, TypeOK, IsEmpty

\* Every step keeps the invariant.
LEMMA NextStep == IInv /\ [Next]_vars => IInv'
<1> SUFFICES ASSUME IInv, [Next]_vars PROVE IInv'
  OBVIOUS
<1>1. CASE Gameplay
  BY <1>1, SaveStep, SavePlayerStatsStep, LogoutStep, QuietSteps DEF Gameplay
<1>2. CASE Storage
  BY <1>2, StoreWriteStep DEF Storage, StoreWriteOk, StoreWriteError
<1>3. CASE Flush
  BY <1>3, QuietSteps, FlushNextStep, FlushWrittenStep DEF Flush
<1>4. CASE Reads
  BY <1>4, ReadCachedStep, ReadLoadStep, ReadOverlayStep, ViewerDoneStep DEF Reads
<1>5. CASE Controls
  BY <1>5, ControlBeginStep, ControlFlushedStep, RestoreBeginStep, ControlSettleStep,
     ControlApplyStep DEF Controls
<1>6. CASE (\E u \in Users : TimePasses(u)) \/ Close
  BY <1>6, QuietSteps
<1>7. CASE Restart
  BY <1>7, RestartStep
<1>8. CASE UNCHANGED vars
  <2>1. UNCHANGED <<dirty, snapshots, revision, isClosed, failures, closeErr, gate, writing,
                    worker, store, archived, session, op, accepted>>
    BY <1>8 DEF vars, buffer, disk
  <2>2. TypeOK' /\ CloseInv' /\ IsQuiet
    BY <2>1 DEF IInv, TypeOK, CloseInv, IsQuiet, disk
  <2> QED
    BY <2>2, QuietStep
<1> QED
  BY <1>1, <1>2, <1>3, <1>4, <1>5, <1>6, <1>7, <1>8 DEF Next

-----------------------------------------------------------------------------
(* The theorems. *)

\* IInv holds in every reachable state: what the map, the rows, the gate, the write in
\* flight, the reads and Close are to each other in savebuffer, for any accounts and bounds.
THEOREM Invariance == Spec => []IInv
<1>1. Init => IInv
  BY InitIInv
<1>2. IInv /\ [Next]_vars => IInv'
  BY NextStep
<1> QED
  BY <1>1, <1>2, PTL DEF Spec

\* The type invariant: every variable of the buffer keeps its type.
THEOREM TypeCorrect == Spec => []TypeOK
<1>1. IInv => TypeOK
  BY DEF IInv
<1> QED
  BY <1>1, Invariance, PTL

\* No accepted change is lost: at every point of save, flush, Close and the account
\* operations the row or the map still holds it (buffer.go:81-144, worker.go:103-146).
THEOREM NothingAcceptedIsLost == Spec => []NoLostAccept
<1>1. IInv => NoLostAccept
  BY DEF IInv
<1> QED
  BY <1>1, Invariance, PTL

\* A playing session has been given every change accepted before it, so the account
\* operations never leave one behind a rewritten row (user.go:660-745, account_control.go).
THEOREM SessionsAreCurrent == Spec => []SessionCurrent
<1>1. IInv => SessionCurrent
  BY DEF IInv
<1> QED
  BY <1>1, Invariance, PTL

\* A login or summary never returns a version older than what was accepted when it
\* began, although the worker retires the map's entry meanwhile (read.go:129-143).
THEOREM ReadsAreFresh == Spec => []ReadFresh
<1>1. IInv => ReadFresh
  BY DEF IInv
<1> QED
  BY <1>1, Invariance, PTL

\* Every account health.go reports as failing still has its changes in the map.
THEOREM FailuresArePending == Spec => []FailuresPending
<1>1. IInv => FailuresPending
  BY DEF IInv
<1> QED
  BY <1>1, Invariance, PTL

\* A Close that reports no error has written every accepted change (worker.go:148-172).
THEOREM CloseIsTruthful == Spec => []CloseTruthful
<1>1. IInv => CloseTruthful
  BY DEF IInv, CloseTruthful, CloseInv, NoLostAccept, IsKept, Current, Overlaid
<1> QED
  BY <1>1, Invariance, PTL

\* No step but a restart's bookkeeping and a store write touches the rows.
LEMMA RowsAdvanceStep ==
    ASSUME IInv, [Next]_vars
    PROVE  \A u \in Users : store'[u].profile >= store[u].profile /\ store'[u].stats >= store[u].stats
<1>1. store \in [Users -> View]
  BY DEF IInv, TypeOK
<1>2. CASE store' = store
  BY <1>1, <1>2 DEF View
<1>3. ASSUME NEW u \in Users, NEW state \in {"ok", "error"}, NEW isCommitted \in BOOLEAN,
             StoreWrite(u, state, isCommitted)
      PROVE  \A v \in Users : store'[v].profile >= store[v].profile
                              /\ store'[v].stats >= store[v].stats
  <2>1. writing # None /\ writing.user = u /\ writing \in Write
    BY <1>3 DEF StoreWrite, IInv, TypeOK
  <2>2. PICK p \in Snapshot : p = writing.pending
    BY <2>1 DEF Write
  <2>3. /\ store[u].stats <= p.stats
        /\ p.record # None => store[u].profile <= p.record.profile
    BY <2>1, <2>2 DEF IInv, WriteInv, WriteOK
  <2>4. CASE isCommitted
    <3>1. PICK old \in View : old = store[u]
      BY <1>1
    <3>2. PICK profile \in Nat, stats \in Nat :
            /\ profile = IF p.record = None THEN old.profile ELSE p.record.profile
            /\ stats = p.stats
      BY DEF Snapshot, Record, View
    <3>3. PICK row \in View : row = [old EXCEPT !.profile = profile, !.stats = stats]
      BY DEF View
    <3>4. store' = [store EXCEPT ![u] = row]
      BY <1>3, <2>1, <2>2, <2>4, <3>1, <3>2, <3>3 DEF StoreWrite, WrittenRow
    <3>5. row.profile >= old.profile /\ row.stats >= old.stats
      BY <2>3, <3>1, <3>2, <3>3 DEF View
    <3> QED
      BY <1>1, <3>1, <3>4, <3>5 DEF View
  <2>5. CASE ~isCommitted
    BY <1>1, <1>3, <2>5 DEF StoreWrite, View
  <2> QED
    BY <2>4, <2>5
<1>4. ASSUME NEW u \in Users, NEW isCommitted \in BOOLEAN, NEW isOk \in BOOLEAN,
             ControlApply(u, isCommitted, isOk)
      PROVE  \A v \in Users : store'[v].profile = store[v].profile
                              /\ store'[v].stats = store[v].stats
  BY <1>1, <1>4 DEF ControlApply, View
<1>5. CASE Gameplay
  BY <1>2, <1>5 DEF Gameplay, Save, SavePlayerStats, Logout, RequestSave, Accept, disk
<1>6. CASE Storage
  BY <1>3, <1>6 DEF Storage, StoreWriteOk, StoreWriteError
<1>7. CASE Flush
  BY <1>2, <1>7 DEF Flush, StartFlush, FlushWritten, FlushBreak, FlushDone, FlushNext, disk
<1>8. CASE Reads
  BY <1>2, <1>8 DEF Reads, ReadCached, ReadLoad, ReadOverlay, ViewerDone, disk
<1>9. CASE Controls
  <2>1. CASE \E u \in Users : \/ ControlFlushed(u) \/ RestoreBegin(u) \/ ControlSettle(u)
                              \/ \E kind \in {"password", "delete"} : ControlBegin(u, kind)
    BY <1>2, <2>1 DEF ControlFlushed, RestoreBegin, ControlSettle, ControlBegin, disk
  <2>2. CASE \E u \in Users : \E isCommitted, isOk \in BOOLEAN : ControlApply(u, isCommitted, isOk)
    BY <1>1, <1>4, <2>2 DEF View
  <2> QED
    BY <1>9, <2>1, <2>2 DEF Controls
<1>10. CASE (\E u \in Users : TimePasses(u)) \/ Close \/ Restart \/ UNCHANGED vars
  BY <1>2, <1>10 DEF TimePasses, Close, Restart, vars, disk
<1> QED
  BY <1>5, <1>6, <1>7, <1>8, <1>9, <1>10 DEF Next

\* No write takes a row back: neither half of a row ever gets older, whatever is
\* in flight, retried or overtaken (worker.go:103-146).
THEOREM RowsOnlyAdvance == Spec => RowsAdvance
<1>1. IInv /\ [Next]_vars =>
        [\A u \in Users : /\ store'[u].profile >= store[u].profile
                          /\ store'[u].stats >= store[u].stats]_vars
  BY RowsAdvanceStep
<1> QED
  BY <1>1, Invariance, PTL DEF Spec, RowsAdvance

-----------------------------------------------------------------------------
(* The buffer implements the ledger. *)

\* A step that touches no row, no accepted version and no session is a stutter.
LEMMA LedgerStutter ==
    ASSUME accepted' = accepted, session' = session,
           \A u \in Users : store'[u].profile = store[u].profile
                            /\ store'[u].stats = store[u].stats
    PROVE  UNCHANGED Ledger!ledger
BY DEF Ledger!ledger, Written, Played

\* An accepted change is the ledger's Change.
LEMMA LedgerChange ==
    ASSUME IInv, NEW u \in Users, session[u] # None, NEW new \in View,
           accepted' = [accepted EXCEPT ![u] = [profile |-> new.profile, stats |-> new.stats]],
           session' = [session EXCEPT ![u] = new] \/ session' = [session EXCEPT ![u] = None],
           store' = store,
           new.profile >= accepted[u].profile, new.stats >= accepted[u].stats
    PROVE  Ledger!Change(u)
<1> DEFINE version == [profile |-> new.profile, stats |-> new.stats]
<1>1. accepted \in [Users -> Version] /\ session \in [Users -> View \cup {None}]
  BY DEF IInv, TypeOK
<1>2. accepted'[u] = version /\ version \in Version
  BY <1>1 DEF View, Version
<1>3. Ledger!IsUpTo(accepted[u], accepted'[u])
  BY <1>1, <1>2 DEF Ledger!IsUpTo, View, Version
<1>4. accepted' = [accepted EXCEPT ![u] = accepted'[u]]
  BY <1>1, <1>2
<1>5. Played(u) # None
  <2>1. session[u] \in View
    BY <1>1
  <2>2. [profile |-> session[u].profile, stats |-> session[u].stats] \in Version
    BY <2>1 DEF View, Version
  <2> QED
    BY <2>2, NoneAssumption DEF Played
<1>6. \A v \in Users \ {u} : Played(v)' = Played(v)
  BY <1>1 DEF Played
<1>7. Played(u)' = version \/ Played(u)' = None
  BY <1>1, NoneAssumption DEF Played
<1> HIDE DEF version
<1>8. \/ [v \in Users |-> Played(v)]' = [[v \in Users |-> Played(v)] EXCEPT ![u] = accepted'[u]]
      \/ [v \in Users |-> Played(v)]' = [[v \in Users |-> Played(v)] EXCEPT ![u] = None]
  BY <1>2, <1>6, <1>7
<1>9. [v \in Users |-> Written(v)]' = [v \in Users |-> Written(v)]
  BY DEF Written
<1> QED
  BY <1>3, <1>4, <1>5, <1>8, <1>9 DEF Ledger!Change

\* A committed write is the ledger's Persist, of a version between the old and the latest.
LEMMA LedgerPersist ==
    ASSUME IInv, IInv', NEW u \in Users, NEW row \in View,
           store' = [store EXCEPT ![u] = row],
           row.profile >= store[u].profile, row.stats >= store[u].stats,
           accepted' = accepted, session' = session
    PROVE  Ledger!Persist(u)
<1>1. store \in [Users -> View] /\ accepted \in [Users -> Version]
  BY DEF IInv, TypeOK
<1>2. store'[u] = row /\ \A v \in Users \ {u} : store'[v] = store[v]
  BY <1>1
<1>3. row.profile <= accepted[u].profile /\ row.stats <= accepted[u].stats
  BY <1>2 DEF IInv, RowInv, RowOK
<1>4. /\ Ledger!IsUpTo(Written(u), Written(u)')
      /\ Ledger!IsUpTo(Written(u)', accepted[u])
  BY <1>1, <1>2, <1>3 DEF Ledger!IsUpTo, Written, View
<1>5. \A v \in Users \ {u} : Written(v)' = Written(v)
  BY <1>2 DEF Written
<1>6. [v \in Users |-> Written(v)]' = [[v \in Users |-> Written(v)] EXCEPT ![u] = Written(u)']
  BY <1>5
<1>7. [v \in Users |-> Played(v)]' = [v \in Users |-> Played(v)]
  BY DEF Played
<1> QED
  BY <1>4, <1>6, <1>7 DEF Ledger!Persist

\* A login that returns is the ledger's Login at the latest version.
LEMMA LedgerLogin ==
    ASSUME IInv, IInv', NEW u \in Users, NEW view \in View, session[u] = None,
           session' = [session EXCEPT ![u] = view], UNCHANGED <<store, accepted>>
    PROVE  Ledger!Login(u)
<1>1. session \in [Users -> View \cup {None}] /\ accepted \in [Users -> Version]
  BY DEF IInv, TypeOK
<1>2. session'[u] = view /\ view # None
  BY <1>1, NoneAssumption
<1>3. view = Latest(u)'
  BY <1>2 DEF IInv, SessionCurrent
<1>4. Played(u) = None /\ Played(u)' = accepted[u]
  <2>1. view.profile = accepted[u].profile /\ view.stats = accepted[u].stats
    BY <1>3 DEF Latest
  <2>2. accepted[u] = [profile |-> accepted[u].profile, stats |-> accepted[u].stats]
    BY <1>1 DEF Version
  <2> QED
    BY <1>2, <2>1, <2>2 DEF Played
<1>5. \A v \in Users \ {u} : Played(v)' = Played(v)
  BY <1>1 DEF Played
<1>6. [v \in Users |-> Played(v)]' = [[v \in Users |-> Played(v)] EXCEPT ![u] = accepted[u]]
  BY <1>4, <1>5
<1>7. [v \in Users |-> Written(v)]' = [v \in Users |-> Written(v)]
  BY DEF Written
<1> QED
  BY <1>4, <1>6, <1>7 DEF Ledger!Login

\* The initial states map to the ledger's.
LEMMA LedgerInit == Init => Ledger!Init
BY DEF Init, Ledger!Init, Ledger!New, NewView, Written, Played

\* The end of a read is a Login, or a stutter for a viewer.
LEMMA LedgerReturn ==
    ASSUME IInv, IInv', NEW c \in Clients, NEW u \in Users, NEW view, NEW floor,
           Return(c, u, view, floor), c \in Viewers \/ (c = u /\ session[u] = None),
           UNCHANGED <<disk, accepted>>
    PROVE  [Ledger!Next]_Ledger!ledger
<1>1. store' = store /\ accepted' = accepted
  BY DEF disk
<1>2. CASE c \in Viewers
  BY <1>1, <1>2, LedgerStutter DEF Return
<1>3. CASE c \notin Viewers
  <2>1. session' = [session EXCEPT ![u] = view] /\ session[u] = None
    BY <1>3 DEF Return
  <2>2. PICK v \in View \cup {None} : v = view
    BY <2>1 DEF IInv, TypeOK
  <2>3. CASE v = None
    <3>1. session' = session
      BY <2>1, <2>2, <2>3 DEF IInv, TypeOK
    <3> QED
      BY <3>1, <1>1, LedgerStutter
  <2>4. CASE v \in View
    BY <1>1, <2>1, <2>2, <2>4, LedgerLogin DEF Ledger!Next
  <2> QED
    BY <2>2, <2>3, <2>4
<1> QED
  BY <1>2, <1>3

\* Every step maps to a step of the ledger or a stutter.
LEMMA LedgerStep ==
    ASSUME IInv, IInv', [Next]_vars PROVE [Ledger!Next]_Ledger!ledger
<1>1. /\ store \in [Users -> View] /\ accepted \in [Users -> Version]
      /\ session \in [Users -> View \cup {None}] /\ revision \in Nat
  BY DEF IInv, TypeOK
<1>2. CASE store' = store /\ accepted' = accepted /\ session' = session
  BY <1>2, LedgerStutter
<1>3. ASSUME NEW u \in Users, session[u] # None
      PROVE  /\ session[u] \in View /\ session[u].profile = accepted[u].profile
             /\ accepted[u].profile <= revision /\ accepted[u].stats <= revision
             /\ accepted[u].profile \in Nat /\ accepted[u].stats \in Nat
  BY <1>1, <1>3 DEF IInv, SessionCurrent, Latest, RowInv, RowOK, Version
<1>4. ASSUME NEW u \in Users, Save(u) \/ Logout(u) PROVE Ledger!Change(u)
  <2>1. session[u] # None /\ store' = store
    BY <1>4 DEF Save, Logout, Accept, disk
  <2>2. PICK new \in View : /\ new = Changed(u)
                            /\ new.profile = revision + 1 /\ new.stats = revision + 1
    <3>1. PICK n \in Nat, k \in Nat : n = revision + 1 /\ k = session[u].credential
      <4>1. session[u] \in View
        BY <1>3, <2>1
      <4>2. session[u].credential \in Nat
        BY <4>1 DEF View
      <4> QED
        BY <1>1, <4>2
    <3>2. Changed(u) = [profile |-> n, stats |-> n, credential |-> k]
      BY <3>1 DEF Changed
    <3> QED
      BY <3>1, <3>2 DEF View
  <2>3. new.profile >= accepted[u].profile /\ new.stats >= accepted[u].stats
    BY <1>1, <1>3, <2>1, <2>2
  <2>4. accepted' = [accepted EXCEPT ![u] = [profile |-> new.profile, stats |-> new.stats]]
    BY <1>4, <2>2 DEF Save, Logout, Accept
  <2>5. session' = [session EXCEPT ![u] = new] \/ session' = [session EXCEPT ![u] = None]
    BY <1>4, <2>2 DEF Save, Logout
  <2> QED
    BY <2>1, <2>3, <2>4, <2>5, LedgerChange
<1>5. ASSUME NEW u \in Users, SavePlayerStats(u) PROVE Ledger!Change(u)
  <2>1. session[u] # None /\ store' = store
    BY <1>5 DEF SavePlayerStats, Accept, disk
  <2>2. PICK new \in View : /\ new = [session[u] EXCEPT !.stats = revision + 1]
                            /\ new.profile = session[u].profile /\ new.stats = revision + 1
    <3>1. PICK old \in View, stats \in Nat : old = session[u] /\ stats = revision + 1
      BY <1>1, <1>3, <2>1
    <3>2. [old EXCEPT !.stats = stats] \in View
      BY DEF View
    <3> QED
      BY <3>1, <3>2 DEF View
  <2>3. new.profile >= accepted[u].profile /\ new.stats >= accepted[u].stats
    BY <1>1, <1>3, <2>1, <2>2
  <2>4. /\ accepted' = [accepted EXCEPT ![u] = [profile |-> new.profile, stats |-> new.stats]]
        /\ session' = [session EXCEPT ![u] = new]
    BY <1>5, <2>2 DEF SavePlayerStats, Accept
  <2> QED
    BY <2>1, <2>3, <2>4, LedgerChange
<1>6. ASSUME NEW u \in Users, NEW state \in {"ok", "error"}, NEW isCommitted \in BOOLEAN,
             StoreWrite(u, state, isCommitted)
      PROVE  [Ledger!Next]_Ledger!ledger
  <2>1. store' = [store EXCEPT ![u] = WrittenRow(@, writing.pending)] \/ store' = store
    BY <1>6 DEF StoreWrite
  <2>2. PICK row \in View : row = store'[u]
    BY DEF IInv, TypeOK
  <2>3. store' = [store EXCEPT ![u] = row]
    BY <1>1, <2>1, <2>2
  <2>4. StoreWriteOk(u) \/ StoreWriteError(u)
    BY <1>6 DEF StoreWriteOk, StoreWriteError, StoreWrite
  <2>5. row.profile >= store[u].profile /\ row.stats >= store[u].stats
    <3>1. [Next]_vars
      BY <2>4, Zenon DEF Next, Storage
    <3> QED
      BY <2>2, <3>1, RowsAdvanceStep
  <2>6. accepted' = accepted /\ session' = session
    BY <1>6 DEF StoreWrite
  <2> QED
    BY <2>3, <2>5, <2>6, LedgerPersist DEF Ledger!Next
<1>7. ASSUME NEW u \in Users, NEW isCommitted \in BOOLEAN, NEW isOk \in BOOLEAN,
             ControlApply(u, isCommitted, isOk)
      PROVE  [Ledger!Next]_Ledger!ledger
  <2>1. \A v \in Users : store'[v].profile = store[v].profile /\ store'[v].stats = store[v].stats
    BY <1>1, <1>7 DEF ControlApply, View
  <2> QED
    BY <1>7, <2>1, LedgerStutter DEF ControlApply
<1>8. CASE Restart
  <2>1. [u \in Users |-> Written(u)] = accepted' /\ store' = store
    BY <1>8 DEF Restart, Written, disk
  <2>2. /\ [u \in Users |-> Played(u)]' = [u \in Users |-> None]
        /\ [u \in Users |-> Written(u)]' = [u \in Users |-> Written(u)]
    BY <1>8, <2>1 DEF Restart, Played, Written
  <2> QED
    BY <2>1, <2>2 DEF Ledger!Next, Ledger!Restart
<1>9. CASE Gameplay
  BY <1>2, <1>4, <1>5, <1>9 DEF Gameplay, RequestSave, disk, Ledger!Next
<1>10. CASE Storage
  BY <1>6, <1>10 DEF Storage, StoreWriteOk, StoreWriteError
<1>11. CASE Flush
  BY <1>2, <1>11 DEF Flush, StartFlush, FlushWritten, FlushBreak, FlushDone, FlushNext, disk
<1>12. CASE Reads
  <2>1. ASSUME NEW c \in Clients, NEW u \in Users, ReadCached(c, u)
        PROVE  [Ledger!Next]_Ledger!ledger
    BY <2>1, LedgerReturn DEF ReadCached, MayRead
  <2>2. ASSUME NEW c \in Clients, ReadOverlay(c)
        PROVE  [Ledger!Next]_Ledger!ledger
    <3>1. op[c] # None /\ op[c].step = "load" /\ op[c] \in Operation
      BY <2>2 DEF ReadOverlay, IInv, TypeOK
    <3>2. PICK u \in Users : u = op[c].user
      BY <3>1 DEF Operation
    <3>3. c \in Viewers \/ (c = u /\ session[u] = None)
      BY <3>1, <3>2 DEF IInv, GateInv, Clients
    <3>4. PICK view, floor : Return(c, u, view, floor)
      BY <2>2, <3>2 DEF ReadOverlay
    <3> QED
      BY <2>2, <3>3, <3>4, LedgerReturn DEF ReadOverlay
  <2>3. CASE \E c \in Clients : ViewerDone(c) \/ \E u \in Users : ReadLoad(c, u)
    BY <1>2, <2>3 DEF ViewerDone, ReadLoad, disk
  <2> QED
    BY <1>12, <2>1, <2>2, <2>3 DEF Reads
<1>13. CASE Controls
  <2>1. CASE \E u \in Users : \/ ControlFlushed(u) \/ RestoreBegin(u) \/ ControlSettle(u)
                              \/ \E kind \in {"password", "delete"} : ControlBegin(u, kind)
    BY <1>2, <2>1 DEF ControlFlushed, RestoreBegin, ControlSettle, ControlBegin, disk
  <2>2. CASE \E u \in Users : \E isCommitted, isOk \in BOOLEAN : ControlApply(u, isCommitted, isOk)
    BY <1>7, <2>2
  <2> QED
    BY <1>13, <2>1, <2>2 DEF Controls
<1>14. CASE (\E u \in Users : TimePasses(u)) \/ Close \/ UNCHANGED vars
  BY <1>2, <1>14 DEF TimePasses, Close, vars, disk
<1> QED
  BY <1>8, <1>9, <1>10, <1>11, <1>12, <1>13, <1>14 DEF Next

\* The buffer implements ProfileLedger: seen through the refinement mapping, every
\* step of the worker, the sessions and the account operations is one of the ledger's.
THEOREM Refinement == Spec => ImplementsLedger
<1>1. IInv /\ IInv' /\ [Next]_vars => [Ledger!Next]_Ledger!ledger
  BY LedgerStep
<1> QED
  BY <1>1, LedgerInit, Invariance, PTL DEF Spec, ImplementsLedger, Ledger!Spec
=============================================================================
