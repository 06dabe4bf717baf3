------------------------------ MODULE SaveBuffer ------------------------------
(***************************************************************************)
(* The write-behind profile buffer, server/sporenet/savebuffer: gameplay   *)
(* hands it detached profile snapshots, one background worker writes them  *)
(* to the SQL store, and reads and account operations are merged with what *)
(* is still in memory.                                                     *)
(*                                                                         *)
(* Two locks are modelled.  `mutex` is held for one map access at a time:  *)
(* each such critical section is (part of) one atomic action.  The storage *)
(* gate is held across I/O and is the variable gate.  Every store call is  *)
(* an action of its own, so anything may happen while it is under way.     *)
(*                                                                         *)
(* Contents are abstracted to the revision of the change they came from:   *)
(* a profile, or a set of counters, is the number of the Save or           *)
(* SavePlayerStats that produced it.  Time is abstracted to what isDue     *)
(* asks of it; firstDirty is measured in revisions, which only order it.   *)
(***************************************************************************)
EXTENDS Integers, FiniteSets

CONSTANTS
    Users,          \* accounts; each has a row in the store
    Worker,         \* the goroutine that runs Repository.run
    Viewers,        \* readers without a session, e.g. public profile pages
    ControlKinds,   \* the account operations that are used
    None,           \* absence of a record, a session, an operation, a holder
    MaxPlayers,     \* maximumPlayers: bound on the dirty accounts
    MaxRevision,    \* bound on the changes gameplay makes
    MaxCredential   \* bound on the password changes

Record   == [profile : Nat, credential : Nat]
View     == [profile : Nat, stats : Nat, credential : Nat]
Version  == [profile : Nat, stats : Nat]
Ages     == {"fresh", "idle", "overdue"}
Snapshot == [record : Record \cup {None}, stats : Nat, revision : Nat,
             profileRevision : Nat, firstDirty : Nat, age : Ages,
             isBackingOff : BOOLEAN, isReady : BOOLEAN]
Candidate == [user : Users, firstDirty : Nat]
Clients   == Users \cup Viewers
Write     == [user : Users, pending : Snapshot, state : {"issued", "ok", "error"}]
Steps     == {"load", "shown", "flush", "apply", "settle"}
Kinds     == {"read", "password", "delete", "restore"}
Operation == [kind : Kinds, user : Users, step : Steps, row : View, floor : View]

ASSUME UsersAssumption == /\ Users # {}
                          /\ Worker \notin Clients
                          /\ Users \cap Viewers = {}
                          /\ ControlKinds \subseteq {"password", "delete", "restore"}
ASSUME NoneAssumption ==
    /\ None \notin Clients \cup {Worker}
    /\ None \notin Record
    /\ None \notin View \cup Version
    /\ None \notin Write
    /\ None \notin Operation
ASSUME BoundAssumption == /\ MaxPlayers \in Nat \ {0}
                          /\ MaxRevision \in Nat
                          /\ MaxCredential \in Nat

VARIABLES
    dirty,       \* the keys of Repository.snapshots
    snapshots,   \* their values; the zero snapshot where there is no key
    revision,    \* Repository.revision
    isClosed,    \* Repository.isClosed; the worker's context is cancelled with it
    failures,    \* the keys of Repository.failures
    closeErr,    \* Repository.closeErr # nil
    gate,        \* the holder of Repository.gate
    writing,     \* the save() under way between its two critical sections
    worker,      \* [pc, candidates, isSpent]: Repository.run and its flush
    store,       \* the committed row of each account
    archived,    \* accounts whose row has trmt_id = 1
    session,     \* the profile of each logged-in user, as the game holds it
    op,          \* what each client does under its session lock
    accepted     \* history: the latest profile and counters accepted

buffer == <<dirty, snapshots, revision, isClosed, failures, closeErr>>
disk   == <<store, archived>>
vars   == <<buffer, gate, writing, worker, disk, session, op, accepted>>

NoSnapshot == [record |-> None, stats |-> 0, revision |-> 0, profileRevision |-> 0,
               firstDirty |-> 0, age |-> "fresh", isBackingOff |-> FALSE, isReady |-> FALSE]
NewView == [profile |-> 0, stats |-> 0, credential |-> 0]
Idle    == [pc |-> "waiting", candidates |-> {}, isSpent |-> FALSE]
Stopped == [pc |-> "stopped", candidates |-> {}, isSpent |-> FALSE]

Init ==
    /\ dirty = {} /\ snapshots = [u \in Users |-> NoSnapshot] /\ revision = 0
    /\ isClosed = FALSE /\ failures = {} /\ closeErr = FALSE
    /\ gate = None /\ writing = None /\ worker = Idle
    /\ store = [u \in Users |-> NewView] /\ archived = {}
    /\ session = [u \in Users |-> None] /\ op = [c \in Clients |-> None]
    /\ accepted = [u \in Users |-> [profile |-> 0, stats |-> 0]]

-----------------------------------------------------------------------------
(* Acceptance: critical sections under mutex only. *)

CanAdmit(u) == /\ ~isClosed
               /\ u \in dirty \/ Cardinality(dirty) < MaxPlayers

Admitted(u) ==
    [snapshots[u] EXCEPT
        !.revision   = revision + 1,
        !.firstDirty = IF u \in dirty THEN @ ELSE revision + 1,
        !.age        = IF @ = "idle" THEN "fresh" ELSE @]

\* Bug variant: the record arrives without its counters.
SavedSnapshotNoStats(u, new) ==
    [Admitted(u) EXCEPT
        !.record          = [profile |-> new.profile, credential |-> new.credential],
        !.profileRevision = revision + 1]

\* What a full Save stores in the map: the record, its counters and the
\* revision both now belong to.
SavedSnapshot(u, new) ==
    [Admitted(u) EXCEPT
        !.record          = [profile |-> new.profile, credential |-> new.credential],
        !.stats           = new.stats,
        !.profileRevision = revision + 1]

Accept(u, new, snapshot) ==
    /\ CanAdmit(u)
    /\ revision < MaxRevision
    /\ revision' = revision + 1
    /\ dirty' = dirty \cup {u}
    /\ snapshots' = [snapshots EXCEPT ![u] = snapshot]
    /\ accepted' = [accepted EXCEPT ![u] = [profile |-> new.profile, stats |-> new.stats]]
    /\ UNCHANGED <<isClosed, failures, closeErr, gate, writing, worker, disk, op>>

Changed(u) == [profile |-> revision + 1, stats |-> revision + 1,
               credential |-> session[u].credential]

\* A reward, purchase or edit of the live profile; RecordPlayerStats; logout.
Save(u) ==
    /\ session[u] # None
    /\ session' = [session EXCEPT ![u] = Changed(u)]
    /\ Accept(u, Changed(u), SavedSnapshot(u, Changed(u)))

SavePlayerStats(u) ==
    /\ session[u] # None
    /\ LET new == [session[u] EXCEPT !.stats = revision + 1]
       IN  /\ session' = [session EXCEPT ![u] = new]
           /\ Accept(u, new, [Admitted(u) EXCEPT !.stats = new.stats])

Logout(u) ==
    /\ session[u] # None
    /\ session' = [session EXCEPT ![u] = None]
    /\ Accept(u, Changed(u), SavedSnapshot(u, Changed(u)))

RequestSave(u) ==
    /\ u \in dirty
    /\ snapshots' = [snapshots EXCEPT ![u].isReady = TRUE]
    /\ UNCHANGED <<dirty, revision, isClosed, failures, closeErr, gate, writing,
                   worker, disk, session, op, accepted>>

\* Five seconds without a change, five minutes since the first change, and the
\* end of the five-second retry delay.
TimePasses(u) ==
    /\ u \in dirty
    /\ \/ /\ snapshots[u].age = "fresh"
          /\ snapshots' = [snapshots EXCEPT ![u].age = "idle"]
       \/ /\ snapshots[u].age # "overdue"
          /\ snapshots' = [snapshots EXCEPT ![u].age = "overdue"]
       \/ /\ snapshots[u].isBackingOff
          /\ snapshots' = [snapshots EXCEPT ![u].isBackingOff = FALSE]
    /\ UNCHANGED <<dirty, revision, isClosed, failures, closeErr, gate, writing,
                   worker, disk, session, op, accepted>>

-----------------------------------------------------------------------------
(* One durable write: save(), run by whoever holds the gate. *)

\* Bug variant: only a requested save is due.
IsDueReadyOnly(u, isClosing) == isClosing \/ (~snapshots[u].isBackingOff /\ snapshots[u].isReady)

IsDue(u, isClosing) ==
    \/ isClosing
    \/ /\ ~snapshots[u].isBackingOff
       /\ snapshots[u].isReady \/ snapshots[u].age # "fresh"

\* First critical section: remember the version to write.
SaveBegin(u) ==
    /\ writing' = [user |-> u, pending |-> snapshots[u], state |-> "issued"]
    /\ snapshots' = [snapshots EXCEPT ![u].isReady = FALSE]

\* The row after a write: the full save carries the counters of the overlay and
\* leaves the password column alone, the focused one changes the counters only.
WrittenRow(row, pending) ==
    [row EXCEPT !.profile = IF pending.record = None THEN @ ELSE pending.record.profile,
                !.stats   = pending.stats]

\* The store transaction.  It commits and reports so, or fails, or (an expired
\* context at commit) commits and reports an error.  Archived rows match no
\* UPDATE, so the transaction fails.
StoreWrite(u, state, isCommitted) ==
    /\ writing # None
    /\ writing.user = u
    /\ writing.state = "issued"
    /\ state = "ok" => isCommitted
    /\ isCommitted => u \notin archived
    /\ writing' = [writing EXCEPT !.state = state]
    /\ store' = IF isCommitted THEN [store EXCEPT ![u] = WrittenRow(@, writing.pending)]
                               ELSE store
    /\ UNCHANGED <<buffer, gate, worker, archived, session, op, accepted>>

StoreWriteOk(u) == StoreWrite(u, "ok", TRUE)
StoreWriteError(u) == \E isCommitted \in BOOLEAN : StoreWrite(u, "error", isCommitted)

\* Bug variant: a write retires any profile, not the one it wrote.
RetiredSnapshotAny(u, pending) ==
    [snapshots[u] EXCEPT !.record = None, !.firstDirty = revision, !.isBackingOff = FALSE]

\* Second critical section.  Only the exact version written is retired.
RetiredSnapshot(u, pending) ==
    [snapshots[u] EXCEPT
        !.record       = IF snapshots[u].profileRevision = pending.profileRevision THEN None ELSE @,
        !.firstDirty   = revision,
        !.age          = IF @ = "overdue" THEN "fresh" ELSE @,
        !.isBackingOff = FALSE]

\* Bug variants: a write retires whatever is pending; a failed one does too.
SaveEndAnyVersion(u) ==
    IF writing.state = "error"
    THEN /\ snapshots' = [snapshots EXCEPT ![u] = [@ EXCEPT !.isBackingOff = TRUE, !.isReady = TRUE]]
         /\ failures' = failures \cup {u} /\ UNCHANGED dirty
    ELSE /\ failures' = failures \ {u} /\ dirty' = dirty \ {u}
         /\ snapshots' = [snapshots EXCEPT ![u] = NoSnapshot]

SaveEndForgets(u) ==
    /\ dirty' = dirty \ {u}
    /\ snapshots' = [snapshots EXCEPT ![u] = NoSnapshot]
    /\ failures' = IF writing.state = "error" THEN failures \cup {u} ELSE failures \ {u}

SaveEnd(u) ==
    IF writing.state = "error"
    THEN /\ snapshots' = [snapshots EXCEPT ![u] = [@ EXCEPT !.isBackingOff = TRUE, !.isReady = TRUE]]
         /\ dirty' = dirty \cup {u}
         /\ failures' = failures \cup {u}
    ELSE /\ failures' = failures \ {u}
         /\ IF snapshots[u].revision = writing.pending.revision
            THEN /\ dirty' = dirty \ {u}
                 /\ snapshots' = [snapshots EXCEPT ![u] = NoSnapshot]
            ELSE /\ dirty' = dirty \cup {u}
                 /\ snapshots' = [snapshots EXCEPT ![u] = RetiredSnapshot(u, writing.pending)]

-----------------------------------------------------------------------------
(* The worker: run, flush, drain. *)

\* Bug variant: the worker looks for work before it looks for Close.
StartFlushDirtyOnly ==
    LET due == {u \in dirty : IsDue(u, isClosed)}
    IN  /\ worker.pc = "waiting"
        /\ due # {}
        /\ worker' = [pc |-> IF isClosed THEN "draining" ELSE "flushing",
                      candidates |-> {[user |-> u, firstDirty |-> snapshots[u].firstDirty] : u \in due},
                      isSpent |-> FALSE]
        /\ UNCHANGED <<buffer, gate, writing, disk, session, op, accepted>>

StartFlush ==
    LET due == {u \in dirty : IsDue(u, isClosed)}
    IN  /\ worker.pc = "waiting"
        /\ due # {} \/ isClosed
        /\ worker' = [pc |-> IF isClosed THEN "draining" ELSE "flushing",
                      candidates |-> {[user |-> u, firstDirty |-> snapshots[u].firstDirty] : u \in due},
                      isSpent |-> FALSE]
        /\ UNCHANGED <<buffer, gate, writing, disk, session, op, accepted>>

Oldest(c) == \A d \in worker.candidates : c.firstDirty <= d.firstDirty

IsFlushing == worker.pc \in {"flushing", "draining"} /\ gate # Worker

\* acquire and the first half of save for the oldest remaining candidate.
FlushNext(c) ==
    /\ IsFlushing
    /\ worker.pc = "flushing" => ~isClosed
    /\ c \in worker.candidates
    /\ Oldest(c)
    /\ gate = None
    /\ IF c.user \in dirty /\ IsDue(c.user, worker.pc = "draining")
       THEN /\ SaveBegin(c.user)
            /\ gate' = Worker
            /\ worker' = [worker EXCEPT !.candidates = @ \ {c}, !.isSpent = TRUE]
       ELSE /\ worker' = [worker EXCEPT !.candidates = @ \ {c}]
            /\ UNCHANGED <<gate, writing, snapshots>>
    /\ UNCHANGED <<dirty, revision, isClosed, failures, closeErr, disk, session, op, accepted>>

FlushWritten ==
    /\ gate = Worker
    /\ writing # None
    /\ writing.state # "issued"
    /\ SaveEnd(writing.user)
    /\ writing' = None
    /\ gate' = None
    /\ UNCHANGED <<revision, isClosed, closeErr, worker, disk, session, op, accepted>>

\* The five-second budget of a flush is used up by a write or by waiting for the
\* gate; Close cancels the flush under way.
FlushBreak ==
    /\ IsFlushing
    /\ worker.candidates # {}
    /\ \/ worker.isSpent
       \/ gate # None
       \/ worker.pc = "flushing" /\ isClosed
    /\ worker' = [worker EXCEPT !.candidates = {}]
    /\ UNCHANGED <<buffer, gate, writing, disk, session, op, accepted>>

\* Bug variant: Close reports failed writes instead of what remains unsaved.
FlushDoneFailuresOnly ==
    /\ IsFlushing
    /\ worker.candidates = {}
    /\ IF worker.pc = "draining"
       THEN /\ worker' = Stopped
            /\ closeErr' = (failures # {})
       ELSE /\ worker' = Idle
            /\ UNCHANGED closeErr
    /\ UNCHANGED <<dirty, snapshots, revision, isClosed, failures, gate, writing,
                   disk, session, op, accepted>>

FlushDone ==
    /\ IsFlushing
    /\ worker.candidates = {}
    /\ IF worker.pc = "draining"
       THEN /\ worker' = Stopped
            /\ closeErr' = (dirty # {})
       ELSE /\ worker' = Idle
            /\ UNCHANGED closeErr
    /\ UNCHANGED <<dirty, snapshots, revision, isClosed, failures, gate, writing,
                   disk, session, op, accepted>>

Close ==
    /\ ~isClosed
    /\ isClosed' = TRUE
    /\ UNCHANGED <<dirty, snapshots, revision, failures, closeErr, gate, writing,
                   worker, disk, session, op, accepted>>

-----------------------------------------------------------------------------
(* Reads: LoadByID, LoadByLoginName, LoadProfileSummary. *)

\* Bug variant: the pending record answers without its counters.
OverlaidRecordOnly(row, u) ==
    IF u \notin dirty \/ snapshots[u].record = None THEN row ELSE snapshots[u].record

Overlaid(row, u) ==
    IF u \notin dirty THEN row
    ELSE [profile    |-> IF snapshots[u].record = None THEN row.profile
                         ELSE snapshots[u].record.profile,
          stats      |-> snapshots[u].stats,
          credential |-> IF snapshots[u].record = None THEN row.credential
                         ELSE snapshots[u].record.credential]

Latest(u) == [profile |-> accepted[u].profile, stats |-> accepted[u].stats,
              credential |-> store[u].credential]

MayRead(c, u) == /\ op[c] = None
                 /\ c \in Viewers \/ (c = u /\ session[u] = None)

Shown(u, view, floor) ==
    [kind |-> "read", user |-> u, step |-> "shown", row |-> view, floor |-> floor]

\* The result of a read: a login (under the session lock) starts the session
\* from it, a viewer keeps it for the properties to look at.
Return(c, u, view, floor) ==
    IF c \in Viewers
    THEN /\ op' = [op EXCEPT ![c] = Shown(u, view, floor)]
         /\ UNCHANGED session
    ELSE /\ op' = [op EXCEPT ![c] = None]
         /\ session' = [session EXCEPT ![u] = view]

HasProfile(u) == snapshots[u].record # None

\* A pending full profile answers without the gate, or again once it is held.
ReadCached(c, u) ==
    /\ MayRead(c, u)
    /\ HasProfile(u)
    /\ Return(c, u, Overlaid(store[u], u), Latest(u))
    /\ UNCHANGED <<buffer, gate, writing, worker, disk, accepted>>

ReadLoad(c, u) ==
    /\ MayRead(c, u)
    /\ gate = None
    /\ ~HasProfile(u)
    /\ u \notin archived
    /\ gate' = c
    /\ op' = [op EXCEPT ![c] = [kind |-> "read", user |-> u, step |-> "load",
                                row |-> store[u], floor |-> Latest(u)]]
    /\ UNCHANGED <<buffer, writing, worker, disk, session, accepted>>

\* Bug variant: the row alone answers a read that went to the store.
ReadOverlayRowOnly(c) ==
    /\ op[c] # None
    /\ op[c].step = "load"
    /\ gate' = None
    /\ Return(c, op[c].user, op[c].row, op[c].floor)
    /\ UNCHANGED <<buffer, writing, worker, disk, accepted>>

ReadOverlay(c) ==
    /\ op[c] # None
    /\ op[c].step = "load"
    /\ gate' = None
    /\ Return(c, op[c].user, Overlaid(op[c].row, op[c].user), op[c].floor)
    /\ UNCHANGED <<buffer, writing, worker, disk, accepted>>

ViewerDone(c) ==
    /\ op[c] # None
    /\ op[c].step = "shown"
    /\ op' = [op EXCEPT ![c] = None]
    /\ UNCHANGED <<buffer, gate, writing, worker, disk, session, accepted>>

-----------------------------------------------------------------------------
(* Account operations: an inactive user's own client holds its session lock. *)

Control(u, kind, step) ==
    [kind |-> kind, user |-> u, step |-> step, row |-> NewView, floor |-> NewView]

\* prepareAccountControl, and the first half of DeleteByLoginName: the pending
\* snapshot is written, due or not, before the account transaction.
ControlBegin(u, kind) ==
    /\ kind \in ControlKinds
    /\ op[u] = None
    /\ session[u] = None
    /\ gate = None
    /\ u \notin archived
    /\ gate' = u
    /\ IF u \in dirty
       THEN /\ SaveBegin(u)
            /\ op' = [op EXCEPT ![u] = Control(u, kind, "flush")]
       ELSE /\ op' = [op EXCEPT ![u] = Control(u, kind, "apply")]
            /\ UNCHANGED <<writing, snapshots>>
    /\ UNCHANGED <<dirty, revision, isClosed, failures, closeErr, worker, disk, session, accepted>>

ControlFlushed(u) ==
    /\ gate = u
    /\ writing # None
    /\ writing.state # "issued"
    /\ SaveEnd(u)
    /\ writing' = None
    /\ IF writing.state = "error"
       THEN gate' = None /\ op' = [op EXCEPT ![u] = None]
       ELSE op' = [op EXCEPT ![u].step = "apply"] /\ UNCHANGED gate
    /\ UNCHANGED <<revision, isClosed, closeErr, worker, disk, session, accepted>>

RestoreBegin(u) ==
    /\ "restore" \in ControlKinds
    /\ op[u] = None
    /\ session[u] = None
    /\ gate = None
    /\ u \in archived
    /\ gate' = u
    /\ op' = [op EXCEPT ![u] = Control(u, "restore", "apply")]
    /\ UNCHANGED <<buffer, writing, worker, disk, session, accepted>>

\* The account transaction; like a save it may commit and still report an error.
ControlApply(u, isCommitted, isOk) ==
    /\ op[u] # None
    /\ op[u].step = "apply"
    /\ isOk => isCommitted
    /\ isCommitted /\ op[u].kind = "password" => store[u].credential < MaxCredential
    /\ store' = IF isCommitted /\ op[u].kind = "password"
                THEN [store EXCEPT ![u].credential = @ + 1] ELSE store
    /\ archived' = CASE isCommitted /\ op[u].kind = "delete"  -> archived \cup {u}
                     [] isCommitted /\ op[u].kind = "restore" -> archived \ {u}
                     [] OTHER -> archived
    /\ IF isOk
       THEN op' = [op EXCEPT ![u].step = "settle"] /\ UNCHANGED gate
       ELSE op' = [op EXCEPT ![u] = None] /\ gate' = None
    /\ UNCHANGED <<buffer, writing, worker, session, accepted>>

\* Whatever is pending by then is brought in line with the row: the password is
\* patched into it, or it is dropped with the account.
ControlSettle(u) ==
    /\ op[u] # None
    /\ op[u].step = "settle"
    /\ IF op[u].kind = "password"
       THEN /\ snapshots' = IF HasProfile(u)
                            THEN [snapshots EXCEPT ![u].record.credential = store[u].credential]
                            ELSE snapshots
            /\ UNCHANGED dirty
       ELSE /\ dirty' = dirty \ {u}
            /\ snapshots' = [snapshots EXCEPT ![u] = NoSnapshot]
    /\ gate' = None
    /\ op' = [op EXCEPT ![u] = None]
    /\ UNCHANGED <<revision, isClosed, failures, closeErr, writing, worker, disk, session, accepted>>

\* The process dies, or has stopped, and starts again: the store is what is left.
\* The revision counter restarts too; only its order within a process matters,
\* so the model lets it run on and keeps contents distinct.
Restart ==
    /\ dirty' = {} /\ snapshots' = [u \in Users |-> NoSnapshot]
    /\ isClosed' = FALSE /\ failures' = {} /\ closeErr' = FALSE
    /\ gate' = None /\ writing' = None /\ worker' = Idle
    /\ session' = [u \in Users |-> None] /\ op' = [c \in Clients |-> None]
    /\ accepted' = [u \in Users |-> [profile |-> store[u].profile, stats |-> store[u].stats]]
    /\ UNCHANGED <<revision, disk>>

-----------------------------------------------------------------------------
Gameplay == \E u \in Users : Save(u) \/ SavePlayerStats(u) \/ Logout(u) \/ RequestSave(u)
Storage  == \E u \in Users : StoreWriteOk(u) \/ StoreWriteError(u)
Flush    == \/ StartFlush \/ FlushWritten \/ FlushBreak \/ FlushDone
            \/ \E c \in worker.candidates : FlushNext(c)
Reads    == \/ \E c \in Clients, u \in Users : ReadCached(c, u) \/ ReadLoad(c, u)
            \/ \E c \in Clients : ReadOverlay(c) \/ ViewerDone(c)
Controls == \E u \in Users :
              \/ \E kind \in {"password", "delete"} : ControlBegin(u, kind)
              \/ ControlFlushed(u) \/ RestoreBegin(u) \/ ControlSettle(u)
              \/ \E isCommitted, isOk \in BOOLEAN : ControlApply(u, isCommitted, isOk)

Next == \/ Gameplay \/ Storage \/ Flush \/ Reads \/ Controls
        \/ \E u \in Users : TimePasses(u)
        \/ Close \/ Restart

Spec == Init /\ [][Next]_vars

\* The worker runs, clocks advance, a client that holds the gate goes on and a
\* store call returns.  A store that is tried again and again for an account in
\* the end writes it, and the gate, a FIFO channel, does not pass the worker over
\* for ever.  Nothing obliges gameplay, clients or operators to act.
Fairness ==
    /\ WF_vars(Flush)
    /\ WF_vars(Storage)
    /\ \A u \in Users :
         /\ WF_vars(TimePasses(u))
         /\ SF_vars(StoreWriteOk(u))
         /\ SF_vars(\E c \in worker.candidates : c.user = u /\ FlushNext(c))
         /\ WF_vars(ControlFlushed(u) \/ ControlSettle(u)
                     \/ \E isCommitted, isOk \in BOOLEAN : ControlApply(u, isCommitted, isOk))
    /\ \A c \in Clients : WF_vars(ReadOverlay(c))

FairSpec == Spec /\ Fairness

-----------------------------------------------------------------------------
(* Properties. *)

TypeOK ==
    /\ dirty \subseteq Users
    /\ snapshots \in [Users -> Snapshot]
    /\ revision \in Nat
    /\ isClosed \in BOOLEAN /\ failures \subseteq Users /\ closeErr \in BOOLEAN
    /\ gate \in Clients \cup {Worker, None}
    /\ writing \in Write \cup {None}
    /\ worker \in [pc : {"waiting", "flushing", "draining", "stopped"},
                   candidates : SUBSET Candidate, isSpent : BOOLEAN]
    /\ store \in [Users -> View] /\ archived \subseteq Users
    /\ session \in [Users -> View \cup {None}]
    /\ op \in [Clients -> Operation \cup {None}]
    /\ accepted \in [Users -> Version]

\* What the process would answer for u now: the row under its pending overlay.
Current(u) == Overlaid(store[u], u)

\* Within a process, whatever was last accepted for an account is what its row
\* and its pending snapshot together hold: no write, retry, retirement, account
\* operation or full queue loses or reverts an accepted change.
IsKept(u) == /\ Current(u).profile = accepted[u].profile
             /\ Current(u).stats = accepted[u].stats
NoLostAccept == \A u \in Users : IsKept(u)

\* A session holds the latest accepted profile and the current password hash
\* from its login on, however the login raced the worker's retirement.
SessionCurrent ==
    \A u \in Users : session[u] # None => session[u] = Latest(u)

\* A viewer's read, gate and overlay included, is at least as new as what had
\* been accepted when its load began ("a completed flush cannot retire the
\* overlay between reading an older database row and applying its changes").
ReadFresh ==
    \A c \in Viewers :
        op[c] # None /\ op[c].step = "shown" =>
            /\ op[c].row.profile >= op[c].floor.profile
            /\ op[c].row.stats >= op[c].floor.stats
            /\ op[c].row.credential >= op[c].floor.credential

\* Committed rows never go back to an older profile or older counters, across
\* retries, ambiguous commits, account operations and restarts.
RowsAdvance ==
    [][\A u \in Users : /\ store'[u].profile >= store[u].profile
                        /\ store'[u].stats >= store[u].stats]_vars

\* A Close that reports no error has lost nothing.
CloseTruthful ==
    worker.pc = "stopped" /\ ~closeErr =>
        \A u \in Users : /\ store[u].profile = accepted[u].profile
                         /\ store[u].stats = accepted[u].stats

\* Health never counts an account as failing once nothing of it is pending.
FailuresPending == failures \subseteq dirty

\* Every accepted change leaves the buffer, and so by NoLostAccept is in the
\* store, unless the worker has stopped; Close always lets the worker stop.
EventuallyWritten ==
    \A u \in Users : u \in dirty ~> (u \notin dirty \/ worker.pc = "stopped")
CloseReturns == isClosed ~> (worker.pc = "stopped" \/ ~isClosed)

-----------------------------------------------------------------------------
(* The promise to gameplay, as an abstract specification. *)

Played(u) == IF session[u] = None THEN None
             ELSE [profile |-> session[u].profile, stats |-> session[u].stats]
Written(u) == [profile |-> store[u].profile, stats |-> store[u].stats]

Ledger == INSTANCE ProfileLedger WITH
    latest <- accepted, durable <- [u \in Users |-> Written(u)],
    playing <- [u \in Users |-> Played(u)]

\* The buffer, its worker, the store and the account operations together behave
\* as a ledger: a session starts from the latest accepted version, the durable
\* one follows it without going back, and only the end of the process reverts
\* the latest version, to the durable one.
ImplementsLedger == Ledger!Spec
=============================================================================
