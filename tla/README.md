# Verification of the darkspin server

darkspin emulates the online services of a game. `src/server` is one Go process: HTTP, Blaze
(TCP/TLS) and RakNet (UDP) front ends share a user manager, a game manager, parties and
matchmaking, a simulation per zone, an event scheduler and a write-behind profile buffer over an
SQL store. A maintenance controller closes admission, drains the matches and hands the process to
a supervisor, which backs up, updates and restarts it.

This directory holds TLA+ models of the parts whose correctness depends on interleavings, failed or
ambiguous writes, timeouts and restarts. TLC checks them on small instances; TLAPS proves the safety
properties that the passing runs check, all but one, for every value of the constants.
`PROJECT.json` maps each definition to the source lines it models and lists the runs, the hazards
and the theorems.

Six parts are modelled: the **save buffer**, **maintenance** (with the admission gate and the
supervisor's hand-over), the **scheduler**, the **zone checkpoints**, the **RakNet transport** and
the **lobby** (parties, matchmaking and the Blaze connections around them). The inventory and the
plan at the end say what is still outside.

## Inventory

Directories are under `src/server` unless given in full.

| Component | State and operations | What is hard | What makes it correct |
|---|---|---|---|
| Save buffer `sporenet/savebuffer` | pending snapshots, failures, a FIFO gate held across I/O; Save, SavePlayerStats, reads, account control, the worker, Close | saves and reads while a write is in flight, writes that commit and report an error, account operations beside the worker | nothing accepted is lost or reverted; a session plays the latest version; reads are not stale; Close tells the truth |
| Profile store `sporenet/sqlstore` | rows; one transaction per operation | a commit that reports an error, archived rows | each transaction is atomic; seen through the save buffer |
| Maintenance `maintenance` | the announced operation in memory and in a file; Request, Announce, Activate, Abort, Cancel, Resolve, advance, cleanup | `operationMu` is let go during the cleanup, the file and the memory may differ, operators race the countdown | an activated operation keeps the game closed until released; a stop is final |
| Admission gate `admission` | waiting writers, a read-write lock that is polled | writer starvation, a check that is stale after the lock | nobody is inside while an operation blocks admission |
| Maintenance adapter `runtime` | audit queue, the reconciler's memory, the end of the server | journal writes that fail or take effect twice, outcomes reported by several goroutines | the journal's outcome agrees with the operation |
| Supervisor `bootstrap` | request and result files, the child's health | a crash between any two files, the startup deadline against readiness | a request is about the current operation; a stopped operation gets its outcome |
| Scheduler `scheduler` | heap, active IDs, running callbacks; Add, Cancel, the dispatcher, Shutdown | the head is read and taken under different locks, lost wake-ups, callbacks that never return | in order, at most once, never after Cancel or Shutdown, none forgotten |
| Accounts and sessions `sporenet/user.go` and the account operations | active users by name, ID and token; the aggregate's mutation lock | an operation that waited for the lock of an aggregate whose session ended meanwhile | a retired aggregate never replaces a later session's changes |
| Matchmaking `pvp`, `blaze/matchmaking_fill.go` | reservations and the reservation of each user; Enter, PartialSessions, ClaimPartial, Cancel, the bot fill | a claim planned before a cancellation or a formation; packing; players who are gone | a user is in one reservation; a reservation that fits is served |
| Parties `party` and the Blaze handlers of playgroups | groups, members, invitations and their projection on profiles | reconciliation reads under the lock and claims after it; leaves that are put off; cleanup after a lost connection | membership and its projection agree; nobody who is back, and no party that plays, is taken apart |
| Zone checkpoints `zone/checkpoint` | pending snapshots, discards, declined members, forfeited equipment, one worker | a snapshot that is neither in memory nor in its row, deletes racing saves, retries | nothing discarded, declined or forfeited comes back; the newest accepted snapshot is resumed |
| RakNet `raknet` | per peer: receive windows, ordered and sequenced channels, split assemblies, datagrams awaiting acknowledgement | loss, duplication and reordering, 24-bit wrap-around, bounded windows and attempts | reliable messages at most once, ordered ones in order; what was acknowledged is not lost; owners hear of every departure |
| Games `game/manager.go` | instances, rosters, readiness, start publication | readiness and publication by several requests | a match starts once, with its whole roster |
| Gameplay, zones' abilities and loot, simulation, navigation | per-zone state changed under the zone's locks | large content tables, floating-point rules | numeric rules, not protocols |
| Blaze, web API, chat, account access, control panel | request handlers over the services above | admission leases, moderation while playing | the gate, the maintenance endpoint, the connections and handlers of the lobby and the kick are modelled |
| Activity, diagnostics, readiness, scenarios, transports, installer, content pipeline, launcher, client modules, deployment | records, reports, sockets, files, user interfaces | — | outside the models; `PROJECT.json` has the reason for each |

How they interact: front ends take a lease on the admission gate for each gameplay request, then
the session locks of the users concerned; the account operations change an aggregate under its own
lock and hand a copy to the save buffer, which answers at once and writes later; the checkpoint
manager asks the save buffer to write soon; maintenance takes the gate exclusively, then
`operationMu`, and its cleanup takes the owners that gameplay holds; games and zones register
their timers with the scheduler; the process and its supervisor talk through files only.

## The models

| Module | Role |
|---|---|
| `ProfileLedger` | what the save buffer promises: play the latest accepted version, persist it sooner or later, never go back |
| `SaveBuffer` | the buffer, its worker, the rows, sessions and account operations |
| `SaveBufferProofs` | its theorems |
| `AdmissionPolicy` | what maintenance promises the players: closed from activation to release |
| `Maintenance` | gate, countdown, cleanup, state file, journal, reconciler, schedule, shutdown, supervisor |
| `MaintenanceProofs`, `MaintenanceOperationProofs` | its theorems: entries; holds, stops, the refinement and the journal |
| `TaskBoard` | what the scheduler promises: the life of a task |
| `Scheduler` | heap, dispatcher, callbacks, Shutdown |
| `SchedulerProofs` | its theorems |
| `Checkpoint` | the checkpoint manager, its worker, the tables, the zones and the removal of a member |
| `CheckpointProofs` | its theorems: types and how a zone's snapshots move; what its row keeps |
| `ReceiveWindow` | what one datagram does to a peer's receive windows, as functions of the window |
| `ReceiveWindowProofs` | lemmas: what these functions keep, for any window and any packets |
| `Transport` | the dispatches of one remote address, its peer, acknowledgements, retransmission; uses `ReceiveWindow` |
| `TransportProofs` | the theorems about both |
| `Lobby` | parties, the queue, fills, connections, logins and kicks |
| `LobbyProofs` | its theorems |
| `MCMaintenance`, `MCTransport` | model-checking instances; the other runs need only a configuration |

Definitions marked `(mutant)` or "Bug variant" are wrong on purpose. Each is the form a plausible
bug would give the definition after it, is used by no specification, and is listed under `mutants`
with the property that fails when it is put in its place.

### Save buffer

*State.* `dirty` and `snapshots` are the repository's map; `revision`, `isClosed`, `failures` and
`closeErr` are its fields; `gate` is the holder of the storage gate and `writing` the version
between the two critical sections of `save`; `worker` is `run` with the candidates of one flush;
`store` and `archived` are the rows. `session` is the profile of each logged-in user and `op` what
a client does under its session lock. `accepted`, a history variable, is the version last accepted.
A profile's content is the number of the change that produced it, so "older" and "newer" are
comparisons. Two parts are told apart because lifetime counters are also saved without the rest.

*Actions.* One per critical section of `mutex` and one per store call, so that anything can happen
during I/O: `Save`, `SavePlayerStats`, `Logout`, `RequestSave` accept; `StartFlush`, `FlushNext`,
`FlushWritten`, `FlushBreak`, `FlushDone` are the worker's loop; `StoreWrite` is the transaction,
which commits, fails, or commits and reports an error; `ReadCached`, `ReadLoad`, `ReadOverlay` are
the loads; `ControlBegin` to `ControlSettle` and `RestoreBegin` are password change, deletion and
restoration, which flush first and settle the map afterwards; `Close` and `Restart` end the
process. `Restart` may come at any time: it is a crash as well as a clean end.

*Time* is what `isDue` asks of it: an account's age goes from fresh to idle to overdue, and its
retry delay ends.

### Maintenance

*State.* `state` and `disk` are the operation in memory and in `maintenance-state.json`; `isPast`
says that its deadline has passed. `writer`, `waiting` and `entry` are the gate. `proc` is what
each operator, the schedule's goroutine (`Runner`) and the reconciler are doing; its `pc` names
the points between which other goroutines can run. `journal`, `begun`, `completions` and
`reported` are the audit rows, the bounded queue of outcomes to journal again and the reconciler's
memory. `server`, `stopFor`, `isExternal`, `isHealthy`, `mayConsume`, `request`, `result` are the
life of the process and the two files it shares with the supervisor. `activated` and `released`
are history.

*Actions.* A handler of `Control` holds `operationMu` from start to end and is one action
(`RequestCommit`, `AnnounceCommit`, `Activate`, `Abort`, `CancelCommit`, `ReconcileResolve`).
`advance` looks at the matches twice under it and is `AdvanceLook` and `AdvanceDecide`; the cleanup
lets go of it and is `DrainUser` for each player and `DrainEnd`. `Commit` writes the file first; a
failed one may have left either version on disk. Journal writes (`CompleteLook`, `CompleteWrite`)
are separate from the state they report. `Shutdown`, `Crash`, `ConsumeRequest`, `Rollback`,
`Start`, `BecomeHealthy`, `StartupTimeout` are the end of one process and the start of the next;
after `Crash` only the files and the journal are left. A backup, a check or an update of files is
one choice between success and failure.

### Scheduler

*State.* The heap is the set `tasks`; its root is any task due first among those in it, because
the heap does not define an order among equal due times. `active` is the ID map, so that a
cancelled task stays in the heap until the dispatcher drops it. `wake` is the one-token channel,
`stop` and `done` the closed channels, `loop` the dispatcher with the task it looks at, `client`
the callers inside Add or Cancel, `closer` Shutdown, `running` the callbacks. IDs are numbers
modulo `MaxID + 1`, as wide as the code's when `MaxID` is 2^32 - 1, and skip zero when they wrap.

*Actions.* `AddBegin` (before the lock), `AddInsert` (under it) and `Notify` (after it) are Add;
`Cancel` and `Notify` are Cancel. `NextTask` reads the head under one lock, `Take` takes it under
another, `Begin` registers it under a third. `Detach` is the one-second limit after which the
dispatcher goes on beside a callback. `ShutdownLock` to `ShutdownGivesUp` are Shutdown with its
two waits.

### Zone checkpoints

*State.* `crew`, `stage` and `loot` are the live zones and `captures` what their saves have in
hand; `pendingSnapshots` to `pendingForfeits`,
`revision`, `isClosing`, `closeErr` the manager's fields; `row` and `memberRow` the two tables.
`worker` is `run` with the snapshot in hand, `remover` the one `RemoveMemberNow`; `storeMu` is a
variable because `mu` is free during a store call. `accepted`, `pruned`, `retired`,
`exposed` are history.

*Actions.* `SaveCheckpoint` is two steps, because it lets go of the zone's lock between them
(`zone.go:2486` to `2606`): `Capture` takes the mission as it stands into `captures`, and `Record`
hands that to the manager, or `GiveUp` drops it. Members lose their loot, leave or are removed in
between, and the zone ends or is played again from an older snapshot, so that a late `Record` must
strip what was lost since (`Taken`). What else a zone does (leave, defeat, forfeit, complete,
discard) is one critical section of `mu` each; a flush is taken apart at each store call, which
commits, fails, or commits and reports an error; a failed snapshot is put back under `mu` and merged
with what came between. `RemoveMemberNow` is its load, its critical section and its save. A crash
leaves only the tables; `Load` and the restored zone are the start of the next process.

*Taken as given.* `SavedAt`, stamped at the capture, orders snapshots as revisions do, which matters
only for a user with snapshots in two zones; the next process starts above the newest revision
stored. A live zone has one capture at a time (`questMutex`); of a zone that everybody left, late
captures that are alike count as one. A user has one mission per zone set. Gameplay is over before
the manager closes. All members of a loaded checkpoint restore the zone at once. One removal per
zone and process goes on from an older snapshot: the properties leave its zone out (`exposed`;
finding 3 is about exactly that).

### RakNet transport

*State.* `receive` is `receiveState`: the next datagram number, what came early, what is missing,
seen messages, ordered packets that wait, split packets being assembled. `outbound` holds the
numbered datagrams that wait for an acknowledgement; `peer` is the generation registered under the
address, `dispatch` the current dispatch and one abandoned one, each with its program counter, and
`loop` the retransmission loop. Which dispatch holds `applicationResponseMu` and `outboundMu`
follows from the program counters. Numbers are modulo `Modulus`, as windows are half of it.

*Actions.* `Receive...` gives the worker a datagram of data, an acknowledgement, an open request or
something that cannot be read as what it claims to be.
A dispatch locks, accepts the datagram, prepares packets, runs the handler, locks, encodes, checks
that its peer is still the one, writes and finishes; each is an action. `Replace`, `Adopt`,
`Create` are the open request, `Abandon` the timeout and the full queue, `Collect`, `Retransmit`,
`Send` the loop, `Expire` the end of a silent or exhausted peer. Some removals hold the peer's
`outboundMu` (a dispatch that failed while it answered, an acknowledgement that cannot be read,
`Expire`, a replacement). Others take no lock and may come while another dispatch writes for that
peer: `RemoveUnsent`, for the loop unlocks after a failed write and removes afterwards
(`retransmit.go:261-266`); `Fail`, for a dispatch that failed with nothing to answer
(`server.go:742`), as on unreadable data or an open request that is not of this protocol; a
retirement, and an abandoned dispatch that gives up. `unguarded` keeps the generations removed so.

*Taken as given.* Old datagrams are not read after a new open request; the client has at most
`ClientWindow` datagrams in flight. `TrafficFits` says what it sends in one connection: less than
half of the range of the numbers, so that late can be told from early; one packet under one message
number, the parts of a split packet under one name; and no message `ReliableWindow` or more ahead of
one that may still be under way, for the server forgets those. The code checks none of this; it is
what a RakNet client does. `StartFits` lets the first connection be met at any numbers, with nothing
waiting; the others start at zero. The handshake is part of the reply to the open request, so that a
window has its first number (`isDatagramInitialized`), and a peer that nobody speaks to again is
registered by an abandoned one. The name of a split packet stands for its ID and metadata. Limits in
bytes are counted in parts, and assemblies expire together. One abandoned dispatch is followed; one
more, still in a handler, is taken to stay there. The timeout cancels the dispatch and retires its
peer; these are one step, because whichever of the two removes the peer does so without its lock.
The client's disconnect packet is a retirement and left out. Properties leave out connections that
an abandoned dispatch has touched (`isTainted`) and, for `AckedNotLost`, those given up already
(`isLapsed`).

### Lobby

*State.* `parties` and `queue` are the two services, each with its index by user (`partyIDByUser`,
`sessionByUsers`); `active`, `group` and `game` are the profiles
that are logged in, with the party and game that they name; `session` is the Blaze connection of
each user, which may be `stale` (its profile was logged out under it) or `forgotten` (a kick took
its user away, and it is still indexed); `preserved` is its `pendingPlaygroupLeave`; `cleanup` is a
connection whose end is still to be cleaned up; `fills` the reservations with a timer. `work` is a
job that holds `partyLifecycle` from one step to another; `kick` is `DisconnectAccount`.

*Actions.* One per handler under the gate. Jobs between whose steps a player can be lost are three:
`Login` and `Reconcile`, `CleanUp` and `CleanUpLeave`, `StartMatch` or `Fill`, then `Form`, then
`Announce`. `Disconnect`, `GameEnds`, `KickBegin`, `KickClose` and `KickEnd` take no gate.

*Taken as given.* One set of criteria. A user has at most one connection and one cleanup to come.
Invitations are sent and expire at any time, so that any player may hold one. Refusals of a fill
for maintenance come at any time; refused logins are left out. Games are those that matches make;
a client asks to leave a game it is in, and which players share a game is not kept. A profile that
is logged out forgets its party and game, for nobody asks it again. A fill whose reservation is
gone is dropped. The HTTP logout, the end of the server, the network addresses of a party and all
notifications are left out.

## What is checked

| Run | Instance and size | Shows |
|---|---|---|
| `save_buffer_account` | 1 account, 1 viewer, all account operations, 2 changes, 1 password change; 609k states | types; `NoLostAccept`, `CloseTruthful`, `SessionCurrent`, `ReadFresh`; the buffer implements `ProfileLedger` |
| `save_buffer_live` | 1 account, deletion and restoration, 2 changes; 28k | `EventuallyWritten`, `CloseReturns` |
| `maintenance_hold` | 1 player, 2 operators (symmetric), 2 rows, a queue of 4, holds and announcements, failing state and journal writes; 1.6M | `ClosedToEntry`, `JournalAgrees`, `OutcomeKept` |
| `maintenance_restart` | 1 player, 1 operator and the schedule, 2 rows, 2 crashes or stops, failing state writes; 856k | `StaysClosed`, `StoppingIsFinal`; implements `AdmissionPolicy` |
| `maintenance_live` | 1 player, 1 operator, a hold or a restart, 1 row, all write failures, 1 crash; 36k | `WriterServed`, `HoldEnds`, `RestartResolves`, `OutcomeJournalled` |
| `maintenance_cleanup_cancel` | violation, see Findings | `NoCancelDuringCleanup` |
| `maintenance_hold_outcome` | violation, see Findings | `ObservedHoldKept` |
| `scheduler` | 2 tasks, 2 callers, IDs 1 and 2 with the counter at 1 so that it wraps, delays and time up to 2; 91k | types; implements `TaskBoard`; `TakenInOrder`, `TaskServed`, `ShutdownReturns` |
| `checkpoint` | 1 zone, 2 members (one may start fresh, the other has loot), 2 stages, 1 capture under way, 1 store fault, 1 crash, 1 restored mission; 1.0M | `AcceptedKept`, `RemovalStored`, `RetiredStays`, `ForfeitStored`, `CloseTruthful`, `RowsCatchUp` |
| `checkpoint_shared` | violation, see Findings | `SharedKept` |
| `transport` | 3 connections; the first sends 4 datagrams with ordered, split, sequenced and repeated packets across the wrap-around, modulo 10; 1 datagram pending, 2 attempts; 798k | types; `InOrder`, `AckedNotLost`, `DepartureTrue`, `NoStaleWrite`, `EventuallySettled` |
| `lobby` | 3 players, unranked 1v1, 1 party of 2, 2 reservations, 1 player who logs out, disconnects and is kicked; 320k | types; `PartyAgrees`, `QueueAgrees`, `LeaveOnlyGone`, `FillServes` |

**Why the bounds are enough.** The properties of the save buffer are about one account at a time;
accounts meet only in the candidate list and the gate, which the proofs cover, and in the map's
limit, which no run reaches: a refused save changes nothing, and the proofs hold for any limit. A
stale overwrite needs a version in the row, one in flight and one pending: the row begins with the
version loaded, and two changes are made after it; a pending version that is itself replaced, and
several accounts, are covered by the proofs only. In maintenance, two rows let an operation be
followed by its cancellation or by another operation, so that every "same operation?" check can
fail; two crashes allow one before the hand-over and one after it; two operators are needed for a
shared request and for a cancellation that races a journal write. `MaxCompletions` = 3 is the
smallest queue in which the code's reserve of two leaves room for an operation at all. In
`maintenance_hold` it is 4, so that an operation is accepted while the outcome of the one before it
only waits in the queue, and takes the state file from it: from then on only the queue has that
outcome, and `OutcomeKept` says that nobody drops it. `maintenance_live` has one row, because the
gate, a hold's end and a restart concern one operation; its outcomes that never were in the state
file (a request that was refused after its row was written) have the queue alone as well, and
`OutcomeJournalled` needs its retries. The queue's own limit (`panel_maintenance.go:359`) is reached
in no run, and cannot be in the code: nothing begins unless three places are free, and one operation
with its cancellation takes two. The scheduler's hazards need two tasks in one heap and two callers;
a third task adds only more of the same order. A checkpoint is lost between two snapshots, so two
stages do, with one fault between them and one restart after it; the second member is there to be
kept when the first is removed. One restored mission is enough for a capture of the first one to be
recorded late; that two captures of a zone, a late one and a new one, are recorded in either order
is left to the proofs, which do not bound `MaxCaptures`. The transport's four datagrams leave one
early, one missing and one across the wrap-around, one message refused by a full window, and one
repeated; the second connection is what a late write would reach. The third is for two open requests
that both find no peer. Three players are the fewest of whom one can stand before a party of two in
a queue for two, and one player who comes and goes meets every handler, since any of the three roles
may be that player's. The proofs remove the bounds from the safety properties of all parts; with one
party, that nobody is in two is shown by the proof only.

**Deadlock** is checked in the maintenance runs and the lobby's. In the others it is not: they may
stop for good, after Close or Shutdown, after the last change that a bound allows, or when the
client has no more to say.

**Fairness and why the code justifies it.**

- *Save buffer.* The worker, a client that holds the gate, and a store call go on (goroutines are
  scheduled, store calls have deadlines); clocks advance. Strong fairness: a write that is retried
  again and again succeeds in the end — without it no write-behind store can promise anything —
  and the FIFO gate does not pass the worker over for ever. Nobody is obliged to save, log out or
  close.
- *Maintenance.* Handlers, the one-second loops and the supervisor's steps go on; deadlines pass.
  Strong fairness for what the loops retry at each tick: the journal write of one row, a state
  write, and one player's disconnection. Operators, clients, crashes, and an operator's own timeout
  are under no obligation.
- *Scheduler.* Weak fairness of the dispatcher, of callers inside Add or Cancel, of Shutdown and
  of the clock. Strong fairness of `LoopStops`: Go's `select` picks at random among ready cases,
  so that a closed stop channel is not passed over for ever although somebody keeps waking the
  dispatcher. Callbacks may run for ever.
- *Checkpoints.* Weak fairness of the worker's and the remover's steps; the number of store faults
  is bounded, so that a retry succeeds. Zones and operators are under no obligation.
- *Transport.* Weak fairness of the steps of a dispatch, except the handler's end, for which there
  is the timeout; and of the loop and the passing of delays. The client and the network may stop.
- *Lobby.* Weak fairness of a job that holds the gate. Strong fairness of each fill: it polls for
  the gate until it has it. Players do what they like.

### Findings

1. **A hold can be cancelled while its cleanup runs.** `announcement.cancel` refuses a draining
   hold only after its deadline. `advance` also begins the cleanup before it, when its first look
   finds no match and its second finds one that has just started. A cancellation is then accepted
   and reopens admission while players are being disconnected, against the comment at
   `maintenance/operation.go:238` and the panel's message at `controlpanel/maintenance.go:223`.
2. **A successful hold can be journalled as cancelled.** `complete` looks for a pending outcome,
   then writes without looking again. A reconciler that read the cancelled phase before the
   operator's "held" was queued overwrites it, against the comment at
   `runtime/panel_maintenance.go:342`.
3. **A member who starts fresh can cost the others their newest checkpoint.** `RemoveMemberNow`
   goes on from the checkpoint it loaded: a snapshot that `Record` accepts after that, or that the
   flush has in hand at that time, is dropped or refused as older. The others resume an earlier
   stage, against "retaining the shared checkpoint for every member who still wants to resume"
   (`zone/checkpoint/manager.go:271`).
Met while modelling the window between a capture and its `Record`: **forfeited loot can come back
with a failed write.** A forfeiture strips the queued snapshot and the row, but not the snapshot that
the flush has in hand. When its write fails, that one is queued as it was
(`zone/checkpoint/manager.go:555`), and a member who takes the mission up again before the next flush
gets the loot back. Hence the second half of `ForfeitStored`, about the queue, is for processes in
which no write has failed; the row is stripped at every write.

Met while checking `OutcomeKept` and `OutcomeJournalled`: **some rows stay "accepted" for ever.**
Outcomes that could not be written are kept in memory. When the process dies after a later operation
has taken the state file, nothing remembers them; `OutcomeKept` is about one process. The same
happens when an operator's request replaces the restored operation before the reconciler's first
look at it (`panel_maintenance.go:440`), and when the process dies between the row and the state
file. Nothing in the repository promises otherwise; the properties leave these cases out.

Met while modelling the removals without `outboundMu`: a dispatch that passed its check may still
write for a peer that the loop, another dispatch or a retirement has just removed. The datagram
goes to the same address, at worst after a new connection's open reply; `NoStaleWrite` names the
exception (`unguarded`).

Met while proving `DepartureTrue` for any number of connections: **a peer can be replaced without
a word.** `legacyOpenReply` locks the peer that it replaces, and announces its departure. If it
finds none, it registers the new peer without another look (`raknet/server.go:563-581`): a peer
that a second open request of the address put there in between goes without its `outboundMu` and
unannounced, although the peer replaced handler "observes replacement of an existing transport
peer" (`raknet/server.go:294`). Dispatches of one address are serial, so that it takes one that
timed out at that point. TLC shows it with three connections; `DepartureTrue` and `NoStaleWrite`
name the exception (`Overrun`) and hold otherwise.

Met while modelling the lobby, with no document to hold them against (they are hazards in
`PROJECT.json`): a roster that has left the queue is lost when one of its players' connections is
gone, and the others are not told; a fill that meets a full roster, after a cancellation opened
the gap, claims it and is then refused the formation; a reservation that enters while its entry
matches two others, or is skipped when its fill fires, gets no other fill; ranked reservations of
players who have disconnected stay.

## What is proved

TLAPS checks every leaf; nothing is assumed but the constants' assumptions.

**Save buffer** (`SaveBufferProofs`), for any accounts, viewers and bounds: `TypeCorrect`,
`NothingAcceptedIsLost`, `SessionsAreCurrent`, `ReadsAreFresh`, `FailuresArePending`,
`CloseIsTruthful`, `RowsOnlyAdvance` and `Refinement` (of `ProfileLedger`). Assumed of the
constants: accounts, viewers, the worker and `None` are distinct, the bounds are numbers.
`FailuresArePending` and `RowsOnlyAdvance` state what no run checks.

The properties are not inductive alone: that a retired snapshot was the written one follows only
from what the version in flight is to the map and to the row. `IInv` adds

- `GateInv` — who holds the gate, what it does with it, and that a write is in flight exactly
  while the worker or a flushing operation holds it;
- `RowInv` — per account: no key means no snapshot, the row is not newer than what was accepted, a
  pending profile carries the current password hash, archived accounts have nothing pending;
- `WriteInv` — the version in flight is between the row and the accepted one, and is the pending
  one whenever their revisions are equal; after success the row equals it;
- `ReadInv` — a reader that holds the gate has in hand what the row still is, because every change
  of a row needs the gate;
- `CloseInv` — the worker drains only after Close, and a stop without error means an empty map.

One lemma per action shows that it keeps `IInv`; `RowsAdvance` and the refinement are proved
action by action under it.

**Scheduler** (`SchedulerProofs`), for any tasks, callers, delays and width of IDs: `TypeCorrect`,
`OrderKept` (`TakenInOrder`) and `Refinement` (of `TaskBoard`). `IInv` says that the two structures
agree although cancellation touches one of them only: IDs in use are distinct (`UniqueIDs`), an
active ID is that of a task in the heap (`ActiveInv`), a task is in one place (`PlaceInv`), what a
caller inserts is in none yet (`InsertInv`), the dispatcher's task is real and due where it is
taken (`LoopInv`), a stopped scheduler is empty (`StopInv`). That IDs are distinct rests on the
guard of `AddBegin`: fewer than 2^32 tasks are added in one life of a scheduler. The code does not
enforce it.

**Maintenance** (`MaintenanceProofs`, `MaintenanceOperationProofs`), for any players, operators,
actions, faults and bounds. Assumed: the names of writers differ, `None` is no
writer and no outcome (`WritersAssumption`), and the bounds and switches have their types.

- `TypeCorrect` (which no run repeats) and `EntryExclusion` (`ClosedToEntry`). `IInv` adds to the types who owns the gate
  between its first look at the state and its commit, that a player inside keeps every writer out
  (`GateInv`), and that what a writer carries from one step to the next is there (`CarryInv`).
  Without the first, a commit could be of a state that players have entered since.
- `OperationHolds` (`StaysClosed`), `StoppingNotTakenBack` (`StoppingIsFinal`) and `Refinement` (of
  `AdmissionPolicy`, step by step). A failed write of the state file leaves either state on disk,
  so that the invariant speaks of memory and file at once: identities are used once (`IdInv`),
  what was accepted is no announcement (`PromiseInv`), an activated operation holds in both until
  it is released (`HoldInv`), and a file says no less than a stopping memory (`StopInv`).
- `OutcomesAgree` (`JournalAgrees`). An outcome may be journalled, wait for the journal, or be in
  the hand of a writer that read the state before. `ClaimInv` says that each of these fits the
  state in memory and the one a restart would restore; it needs that rows to come are blank
  (`RowInv`), that what the supervisor reports on has stopped (`SettledInv`), and that the file
  says nothing older of an operation that has ended (`FollowInv`).

**Zone checkpoints** (`CheckpointProofs`), for any zones, users, stages,
faults and crashes, infinitely many zones and users included. Assumed: `None` is no zone, user or
snapshot, and the bounds are numbers. `Base` gives every place of a snapshot its type
(`TypeCorrect`, which no run repeats), and says that one goroutine at a time is at the store
(`MuInv`) and that no revision is past the manager's (`RevInv`). Then the ways in which a row, a
queue, a hand and a crew can change at all are proved once (`RowMoves`, `QueueMoves`,
`HandMoves`, `CrewMoves`, `CaptureMoves`), and
each theorem rests on an invariant about everything that may still reach the row:

- `RetiredStaysRetired` (`RetiredStays`): a retired zone is over in this process or unknown to it,
  and no save of it is past the check under `storeMu` (`RetiredInv`).
- `ForfeitsStayOut` (`ForfeitStored`): what is being written is without the loot that was
  forfeited when it was looked at, and the row is to be cleaned of what was forfeited since
  (`LootInv`). The queue stays clean because `Record` strips what was forfeited after the capture,
  and because nothing is put back before a write has failed (`FaultFree`, `IsClean`, `NextClean`).
- `PrunedStayOut` (`RemovalStored`): whatever still lists a removed member has a revision below
  the row's, or is stripped of the member when it is written (`DeclinedInv`, `PrunedInv`).
- `AcceptedStays` (`AcceptedKept`): no snapshot of a zone has a revision above that of the last one
  accepted, one that has it is that one, and it is among them (`OrderInv`). So the revision check of
  the store never prefers an older one. It is about revisions, and not about stages, because a late
  capture of a mission that is played again may be of a later stage than what is recorded after it.
- `CloseIsTruthful` (`CloseTruthful`): zones that are over lose their row before their deletion is
  forgotten (`DeleteInv`), and a worker that is done without an error has nothing queued
  (`DoneInv`); with `AcceptedKept`, the row is what is left.

**RakNet transport** (`ReceiveWindowProofs`, `TransportProofs`), for any number of connections, any
modulus, windows and limits, and any traffic. Assumed: `WindowsFit` (the gaps are less than half
of the numbers), `TrafficFits` and `StartFits`, as above.

- `WritesAreTheirs` (`NoStaleWrite`) and `DeparturesAreTold` (`DepartureTrue`). `IInv` says that
  two do not hold the `outboundMu` of one peer (`LockInv`), that a peer which someone holds it of
  is registered, was removed without that lock, or was replaced by an open request that had not found
  it (`WriteInv`), and that an abandoned dispatch was begun for a peer that is gone, so that giving it
  up removes no other (`AbandonInv`). An action moves one dispatch, or the loop, or makes or
  abandons something; the invariant is shown for these four. A dispatch removes its own peer only
  (`MayRemove`): while it has the lock or finds it free, or else the generation becomes
  `unguarded`. What is in a datagram does not matter.
- `TypeCorrect` (`TypeOK`). `DataInv` adds what a dispatch has in hand at each step and the limits
  of the windows, which `TypeOK` states in part: numbers, waiting packets and parts stay within
  them.
- `HandedInOrder` (`InOrder`). What the handler got, followed by what it is next to get, is a stream
  (`IsStream`): its ordered packets have consecutive indexes up to the one that is due, the
  sequenced ones rise, and a message that is still new to the window is nowhere yet, neither
  handed over nor waiting. `FlowInv` says so of a registered peer that no abandoned dispatch
  touched.
- `NothingAckedIsLost` (`AckedNotLost`). What was acknowledged has come, and every message of what
  has come was seen and is kept (`AllCame`, `KeepsAll`, `NothingLost`), unless the dispatch that saw
  it is to remove the peer. "Seen" is what the window remembers: that a message which it takes for
  old was seen, and not just forgotten, needs that the latest message is never `ReliableWindow`
  ahead of one under way (`Recent`, `TimelyPackets`), which the client's window gives.

The windows are the recursive part: the packets of a datagram are prepared one after another, and a
packet releases a run of others. `PreparedInSteps` shows what the fold of `Prepare` is step by step,
and `CountUp`, an induction up to a number over a set of numbers, which the provers can do where
the library's theorems take an operator, carries an invariant along it. Proving this showed
that two arms of a `CASE` in `AcceptDatagram` overlapped where the next number is among those that
came early. No window gets there, but which arm applies was open; the code looks at the next
number first, and the model now says so.

**Lobby** (`LobbyProofs`), for any users, queue, limits and bounds: `TypeCorrect`, `PartiesAgree`
(`PartyAgrees`), `QueuesAgree` (`QueueAgrees`) and `OnlyGoneLeave` (`LeaveOnlyGone`). Assumed: a
party may have a member, the leavers are users, `Nobody` is none. Parties and their index agree
because whoever joins was in none (`PartyInv`); so do the queue and its index (`QueueInv`), and
that none who waits is on the roster of a game to come rests on `Dequeue` taking all players of a
reservation. The gate is what makes the rest inductive: a job that has it finds what it looked up
(`WorkInv`), whatever connections, gameplay and kicks do meanwhile, for these only take players
away. That is also why `ReconcileMember` may claim for a profile after it has let go of the
service's lock. What the folds and recursive functions compute (`Packed`) is not needed: a match
takes some of the reservations.

**Only model-checked.** All liveness: `EventuallyWritten`, `CloseReturns`, `WriterServed`,
`HoldEnds`, `OutcomeJournalled`, `RestartResolves`, `TaskServed`, `ShutdownReturns`, `RowsCatchUp`,
`EventuallySettled`, `FillServes`, for fairness and `ENABLED` are outside the prover's reach. So is
`OutcomeKept`, the one safety property without a theorem. Every other property of a passing run is
one. No module uses a recursive operator.

## What the models leave out

- The text of messages, reminders, metrics, logs and SQL; the encoding of files and packets.
- Save buffer: the sorting and paging of summaries, display-name lookups, the metrics of
  `health.go`. The revision counter is not reset at a restart, where the code starts again at
  zero; it orders versions within one process only.
- Maintenance: reminders and broadcasts, the cron parser (the schedule asks whenever it may), the
  HTTP encoding of the panel, nested leases of one request, the legacy observation path of the
  supervisor, the contents of backups and updates.
- Scheduler: which of several tasks due at one time comes first, and anything a callback does
  except calling Add and Cancel.
- Checkpoints: what a snapshot holds beyond its stage, members and equipment; the encoding.
- Transport: publications at a scheduled time, polls and pings, the client's disconnect packet,
  attaching and closing of the socket, the content of negative acknowledgements.
- Sessions: `SaveBuffer` gives an account one session at a time and takes every change of it as
  made to that session. The account operations that wait for a retired aggregate are a hazard of
  their own (`sporenet/user_features.go:88`) and need the module planned below.

## Plan

In this order; each module with a TLC instance, mutants for its properties, and proofs where the
table says so.

| Module | Models | Properties aimed at | Proof |
|---|---|---|---|
| `UserSession` | login, logout, `RecordPlayerStats`, the account operations, over `ProfileLedger` | no retired aggregate replaces a later session's changes (`player_stats.go:89`) | safety |
| `GameStart` | readiness, the pre-game barrier and start publication of `game/manager.go` | a match starts once with its whole roster; a failed publication is retried | safety |
