----------------------------- MODULE Checkpoint -----------------------------
(***************************************************************************)
(* Zone checkpoints: the manager that keeps the newest safe snapshot of    *)
(* every live zone in memory and writes it to the player store off the     *)
(* gameplay path (server/zone/checkpoint), the store's transactions        *)
(* (checkpoint/sqlstore), the zones that record, forfeit and discard       *)
(* (server/zone) and the launcher's Start Fresh, which takes one member    *)
(* out of a checkpoint (server/runtime).                                   *)
(*                                                                         *)
(* A snapshot is the stage of the mission it captured, its revision, its   *)
(* members and those whose mission loot it still holds.  mu protects the   *)
(* manager's maps, so a critical section of mu is one step; storeMu is     *)
(* held around a store call and is a variable, because mu is free during   *)
(* that call; memberMu admits one removal at a time.  A zone's own lock is *)
(* free while SaveCheckpoint assembles what it took under it, so a capture *)
(* and its Record are two steps.  The clock that starts the revisions of a *)
(* process, and stamps SavedAt, is taken to go forward from one process to *)
(* the next, as the code does.                                             *)
(***************************************************************************)
EXTENDS Integers, FiniteSets, FiniteSetsExt

CONSTANTS
    Zones, Users,
    Decliners,    \* the users who may ask to start fresh
    Carriers,     \* the users who have collected mission equipment
    None,
    MaxStage,     \* bound: snapshots a zone captures
    MaxCaptures,  \* bound: captures of a zone at a time, late ones included
    MaxFaults,    \* bound: store calls that fail
    MaxCrashes,   \* bound: ends of the server process
    MaxRestores   \* bound: missions that are taken up again

ASSUME CheckpointAssumption ==
    /\ Decliners \subseteq Users /\ Carriers \subseteq Users
    /\ None \notin Zones \cup {"worker", "remover"}
    /\ {MaxStage, MaxCaptures, MaxFaults, MaxCrashes, MaxRestores} \subseteq Nat

VARIABLES
    \* The zones of this process.
    crew,             \* the members of an active zone; {} is a zone that is not live
    stage,            \* how far the mission has come
    loot,             \* members whose mission equipment is not forfeited
    captures,         \* what the SaveCheckpoint calls under way have taken of a zone
    \* Manager.
    pendingSnapshots, pendingDeletes, discardedZones,
    declinedMembers, forfeitedEquipments, pendingForfeits,
    revision, isClosing, closeErr,
    storeMu,          \* who is inside a store call: "worker", "remover" or None
    worker,           \* the goroutine run: where it is, and the zone and snapshot at hand
    remover,          \* the one RemoveMemberNow under memberMu
    \* The tables zone_checkpoint and zone_checkpoint_member.
    row, memberRow,
    \* Bookkeeping of the model.
    faults, crashes, restores,
    accepted,         \* the last snapshot Record took, of this process: its stage and revision
    exposed,          \* the zones a removal goes on from an older snapshot of
    pruned,           \* <<zone, user>>: RemoveMemberNow stored the shorter snapshot
    retired           \* the zones DiscardNow reported deleted

live     == <<crew, stage, loot, captures>>
queues   == <<pendingSnapshots, pendingDeletes, pendingForfeits>>
marks    == <<discardedZones, declinedMembers, forfeitedEquipments>>
closing  == <<isClosing, closeErr>>
tables   == <<row, memberRow>>
bounds   == <<faults, crashes, restores>>
history  == <<accepted, exposed, pruned, retired>>
vars == <<live, queues, marks, revision, closing, storeMu, worker, remover,
          tables, bounds, history>>

-----------------------------------------------------------------------------
Snapshot == [stage : 1..MaxStage, revision : Nat, members : (SUBSET Users) \ {{}},
             loot : SUBSET Users]

ASSUME NoneAssumption == None \notin Snapshot

\* isLive: taken of the zone that is live now, and not of one that all members
\* left and that was restored since.
Capturing == [zone : Zones, stage : 1..MaxStage, members : (SUBSET Users) \ {{}},
              loot : SUBSET Users, isLive : BOOLEAN]

Nothing == [stage |-> 0, revision |-> 0]

\* snapshot is flush's own, payload the copy save has taken the forfeits from.
Idle      == [pc |-> "idle", zone |-> None, snapshot |-> None, payload |-> None, isFinal |-> FALSE]
NoRemoval == [pc |-> "idle", zone |-> None, user |-> None, snapshot |-> None, remaining |-> 0]

WithoutEquipment(s, users) == [s EXCEPT !.loot = @ \ users]

\* Bug variant: nobody is pruned.
WithoutMembersKept(s, users) == s
WithoutMembers(s, users) == WithoutEquipment([s EXCEPT !.members = @ \ users], users)

Init ==
    /\ crew = [z \in Zones |-> Users] /\ stage = [z \in Zones |-> 0]
    /\ loot = [z \in Zones |-> Carriers] /\ captures = {}
    /\ pendingSnapshots = [z \in Zones |-> None] /\ pendingDeletes = {} /\ pendingForfeits = {}
    /\ discardedZones = {} /\ declinedMembers = [z \in Zones |-> {}]
    /\ forfeitedEquipments = [z \in Zones |-> {}]
    /\ revision = 0 /\ isClosing = FALSE /\ closeErr = FALSE
    /\ storeMu = None /\ worker = Idle /\ remover = NoRemoval
    /\ row = [z \in Zones |-> None] /\ memberRow = [u \in Users |-> None]
    /\ faults = 0 /\ crashes = 0 /\ restores = 0
    /\ accepted = [z \in Zones |-> Nothing] /\ exposed = {} /\ pruned = {} /\ retired = {}

-----------------------------------------------------------------------------
(* The store.  A transaction commits, fails, or commits and reports an      *)
(* error; the upsert keeps a row with a newer revision, and then leaves the *)
(* members alone.                                                           *)

Stores(s, z) == row[z] = None \/ s.revision >= row[z].revision

\* Save's transaction: the row, and the member index under its own condition.
Written(s, z) ==
    IF ~Stores(s, z) THEN UNCHANGED tables
    ELSE /\ row' = [row EXCEPT ![z] = s]
         /\ memberRow' = [u \in Users |->
                LET old == IF memberRow[u] # None /\ memberRow[u].zone = z
                           THEN None ELSE memberRow[u]
                IN  IF u \in s.members /\ (old = None \/ s.revision >= old.savedAt)
                    THEN [zone |-> z, savedAt |-> s.revision] ELSE old]

Deleted(z) ==
    /\ row' = [row EXCEPT ![z] = None]
    /\ memberRow' = [u \in Users |->
           IF memberRow[u] # None /\ memberRow[u].zone = z THEN None ELSE memberRow[u]]

Fails == faults < MaxFaults /\ faults' = faults + 1 /\ UNCHANGED <<crashes, restores>>
Works == UNCHANGED bounds

\* load and loadMember: the stored row without what was forfeited since.
Loaded(z) == IF row[z] = None THEN None ELSE WithoutEquipment(row[z], forfeitedEquipments[z])

-----------------------------------------------------------------------------
(* What a player is offered, and what a zone is restored from. *)

\* FindResume, as one look: the newest pending snapshot that lists the user,
\* else the row its index entry points to.
PendingOf(u) == {z \in Zones \ discardedZones :
                    pendingSnapshots[z] # None /\ u \in pendingSnapshots[z].members}
Resume(u) ==
    IF PendingOf(u) # {}
    THEN CHOOSE z \in PendingOf(u) : \A y \in PendingOf(u) :
             pendingSnapshots[y].revision <= pendingSnapshots[z].revision
    ELSE IF /\ memberRow[u] # None /\ memberRow[u].zone \notin discardedZones
            /\ Loaded(memberRow[u].zone) # None /\ u \in Loaded(memberRow[u].zone).members
         THEN memberRow[u].zone ELSE None

\* Load, as one look.
Load(z) == IF z \in discardedZones THEN None
           ELSE IF pendingSnapshots[z] # None THEN pendingSnapshots[z] ELSE Loaded(z)

-----------------------------------------------------------------------------
(* Zones.  SaveCheckpoint holds questMutex, which no other step needs, from *)
(* the capture to Record, and the zone's lock only at the capture and again  *)
(* at Record: in between members lose their loot or leave, a removal marks   *)
(* one of them, the zone ends.  A zone that ends is discarded, and one that  *)
(* everybody left stays active, so a late capture of it is recorded even if  *)
(* the mission is being played again.                                        *)

\* What SaveCheckpoint takes of the whole mission as it stands now.
Captured(z) == [zone |-> z, stage |-> stage[z] + 1, members |-> crew[z],
                loot |-> crew[z] \cap loot[z], isLive |-> TRUE]

Capture(z) ==
    /\ ~isClosing /\ crew[z] # {} /\ stage[z] < MaxStage
    /\ \A c \in captures : ~(c.zone = z /\ c.isLive)
    /\ Cardinality({c \in captures : c.zone = z}) < MaxCaptures
    /\ captures' = captures \cup {Captured(z)}
    /\ stage' = [stage EXCEPT ![z] = @ + 1]
    /\ UNCHANGED <<crew, loot, queues, marks, revision, closing, storeMu, worker, remover, tables,
                   bounds, history>>

\* The capture is given up: a death is not journalled yet, an entrance not
\* committed, or the encounter no longer safe.
GiveUp(c) ==
    /\ captures' = captures \ {c}
    /\ UNCHANGED <<crew, stage, loot, queues, marks, revision, closing, storeMu, worker, remover,
                   tables, bounds, history>>

\* Bug variant: the loot that was forfeited since the capture is recorded.
TakenWithLoot(c) ==
    WithoutMembers([stage |-> c.stage, revision |-> revision + 1, members |-> c.members,
                    loot |-> c.loot], declinedMembers[c.zone])

\* What Record makes of a capture: without those who declined or lost their loot since.
Taken(c) ==
    WithoutEquipment(
        WithoutMembers([stage |-> c.stage, revision |-> revision + 1, members |-> c.members,
                        loot |-> c.loot], declinedMembers[c.zone]),
        forfeitedEquipments[c.zone])

Record(c) ==
    /\ captures' = captures \ {c}
    /\ IF isClosing \/ c.zone \in discardedZones \/ Taken(c).members = {}
       THEN UNCHANGED <<revision, pendingSnapshots, accepted>>
       ELSE /\ revision' = revision + 1
            /\ pendingSnapshots' = [pendingSnapshots EXCEPT ![c.zone] = Taken(c)]
            /\ accepted' = [accepted EXCEPT ![c.zone] =
                                [stage |-> c.stage, revision |-> revision + 1]]
    /\ UNCHANGED <<crew, stage, loot, pendingDeletes, pendingForfeits, marks, closing, storeMu,
                   worker, remover, tables, bounds, exposed, pruned, retired>>

\* ForfeitEquipment: the loot of a defeated or departed member is lost in the
\* snapshots that were taken before as well.
Forfeited(z, u) ==
    IF u \notin loot[z]
    THEN UNCHANGED <<loot, forfeitedEquipments, pendingForfeits, pendingSnapshots>>
    ELSE /\ loot' = [loot EXCEPT ![z] = @ \ {u}]
         /\ forfeitedEquipments' = [forfeitedEquipments EXCEPT ![z] = @ \cup {u}]
         /\ pendingForfeits' = pendingForfeits \cup {z}
         /\ pendingSnapshots' = [pendingSnapshots EXCEPT ![z] =
                IF @ = None THEN None ELSE WithoutEquipment(@, forfeitedEquipments[z] \cup {u})]

\* SetCheckpointSquad with a defeated squad.  The gameplay services are closed
\* before the manager, so nothing of a zone happens once Close has begun.
Defeat(z, u) ==
    /\ ~isClosing /\ u \in crew[z] \cap loot[z]
    /\ Forfeited(z, u)
    /\ UNCHANGED <<crew, stage, captures, pendingDeletes, discardedZones, declinedMembers, revision, closing,
                   storeMu, worker, remover, tables, bounds, history>>

\* Zone.Leave; the zone whose last member left is retired, its checkpoint stays.
Leave(z, u) ==
    /\ ~isClosing /\ u \in crew[z]
    /\ crew' = [crew EXCEPT ![z] = @ \ {u}]
    /\ Forfeited(z, u)
    /\ UNCHANGED <<stage, captures, pendingDeletes, discardedZones, declinedMembers, revision, closing,
                   storeMu, worker, remover, tables, bounds, history>>

markDiscarded(z) ==
    /\ pendingSnapshots' = [pendingSnapshots EXCEPT ![z] = None]
    /\ discardedZones' = discardedZones \cup {z}
    /\ pendingDeletes' = pendingDeletes \cup {z}

\* Zone.Complete and Zone.Discard of an active zone.
Complete(z) ==
    /\ ~isClosing /\ crew[z] # {}
    /\ crew' = [crew EXCEPT ![z] = {}]
    /\ markDiscarded(z)
    /\ UNCHANGED <<stage, loot, captures, pendingForfeits, declinedMembers, forfeitedEquipments,
                   revision, closing, storeMu, worker, remover, tables, bounds, history>>

\* A member who is offered the mission joins: the zone is built from what Load
\* finds, which waits for a store call that is under way.
Restore(z, u) ==
    /\ ~isClosing /\ crew[z] = {} /\ storeMu = None
    /\ restores < MaxRestores /\ restores' = restores + 1
    /\ Resume(u) = z /\ Load(z) # None
    /\ u \in Load(z).members
    /\ crew' = [crew EXCEPT ![z] = Load(z).members]
    /\ stage' = [stage EXCEPT ![z] = Load(z).stage]
    /\ loot' = [loot EXCEPT ![z] = Load(z).loot]
    /\ captures' = {IF c.zone = z THEN [c EXCEPT !.isLive = FALSE] ELSE c : c \in captures}
    /\ UNCHANGED <<queues, marks, revision, closing, storeMu, worker, remover, tables, faults, crashes,
                   history>>

-----------------------------------------------------------------------------
(* The goroutine run: flush on a wake-up or every second, and until it      *)
(* succeeds or five seconds have passed once the manager is closing.        *)

Pending == pendingForfeits # {} \/ pendingDeletes # {} \/ \E z \in Zones : pendingSnapshots[z] # None

\* Bug variant: only the wake-up of a terminal zone starts a flush.
FlushBeginDeletes ==
    /\ worker.pc = "idle" /\ (pendingDeletes # {} \/ isClosing)
    /\ worker' = [worker EXCEPT !.pc = "forfeit", !.isFinal = isClosing]
    /\ UNCHANGED <<live, queues, marks, revision, closing, storeMu, remover, tables, bounds, history>>

FlushBegin ==
    /\ worker.pc = "idle" /\ (Pending \/ isClosing)
    /\ worker' = [worker EXCEPT !.pc = "forfeit", !.isFinal = isClosing]
    /\ UNCHANGED <<live, queues, marks, revision, closing, storeMu, remover, tables, bounds, history>>

Flushed ==
    /\ worker' = [worker EXCEPT !.pc = IF worker.isFinal THEN "done" ELSE "idle"]
    /\ UNCHANGED closing

\* Bug variant: the shutdown flush gives up without recording an error.
FlushFailedSilent ==
    /\ worker' = [worker EXCEPT !.pc = IF worker.isFinal THEN "done" ELSE "idle",
                                !.zone = None, !.snapshot = None, !.payload = None]
    /\ UNCHANGED closing

\* A flush that failed: the next one comes with the ticker, or, when closing,
\* until the deadline.
FlushFailed ==
    \/ worker' = [worker EXCEPT !.pc = "idle", !.zone = None, !.snapshot = None, !.payload = None] /\ UNCHANGED closing
    \/ /\ worker.isFinal
       /\ worker' = [worker EXCEPT !.pc = "done", !.zone = None, !.snapshot = None, !.payload = None]
       /\ closeErr' = TRUE /\ UNCHANGED isClosing

\* saveEquipmentForfeit: under storeMu from the load on, and under mu over the
\* save, which keeps the row's revision.
SaveForfeit(z) ==
    /\ worker.pc = "forfeit" /\ z \in pendingForfeits /\ storeMu = None
    /\ \/ /\ Works /\ UNCHANGED <<worker, closing>>
          /\ pendingForfeits' = pendingForfeits \ {z}
          /\ IF row[z] = None THEN UNCHANGED tables ELSE Written(Loaded(z), z)
       \/ /\ Fails /\ FlushFailed /\ UNCHANGED pendingForfeits
          /\ \/ UNCHANGED tables
             \/ row[z] # None /\ Written(Loaded(z), z)
    /\ UNCHANGED <<live, pendingSnapshots, pendingDeletes, marks, revision, storeMu, remover, history>>

\* One turn of the loop of flush: deletions first, then a snapshot, which leaves
\* the queue here and reaches the store later.
Picking == worker.pc = "pick" \/ (worker.pc = "forfeit" /\ pendingForfeits = {})

PickDelete(z) ==
    /\ Picking /\ z \in pendingDeletes
    /\ worker' = [worker EXCEPT !.pc = "delete", !.zone = z]
    /\ UNCHANGED <<live, queues, marks, revision, closing, storeMu, remover, tables, bounds, history>>

PickSnapshot(z) ==
    /\ Picking /\ pendingDeletes = {} /\ pendingSnapshots[z] # None
    /\ worker' = [worker EXCEPT !.pc = "save", !.zone = z, !.snapshot = pendingSnapshots[z]]
    /\ pendingSnapshots' = [pendingSnapshots EXCEPT ![z] = None]
    /\ UNCHANGED <<live, pendingDeletes, pendingForfeits, marks, revision, closing, storeMu, remover,
                   tables, bounds, history>>

PickNothing ==
    /\ Picking /\ pendingDeletes = {} /\ \A z \in Zones : pendingSnapshots[z] = None
    /\ Flushed
    /\ UNCHANGED <<live, queues, marks, revision, storeMu, remover, tables, bounds, history>>

\* The deletion, and its removal from the list: nothing another step reads
\* changes between the two.
FlushDelete ==
    /\ worker.pc = "delete" /\ storeMu = None
    /\ \/ /\ Works /\ Deleted(worker.zone)
          /\ pendingDeletes' = pendingDeletes \ {worker.zone}
          /\ worker' = [worker EXCEPT !.pc = "pick", !.zone = None] /\ UNCHANGED closing
       \/ /\ Fails /\ FlushFailed /\ UNCHANGED pendingDeletes
          /\ (UNCHANGED tables \/ Deleted(worker.zone))
    /\ UNCHANGED <<live, pendingSnapshots, pendingForfeits, marks, revision, storeMu, remover, history>>

\* save: storeMu, a look at the maps under mu, and the store call without mu.
\* Bug variant: the look at discardedZones is missing.
FlushSaveUnchecked ==
    /\ worker.pc = "save" /\ storeMu = None
    /\ storeMu' = "worker"
    /\ worker' = [worker EXCEPT !.pc = "saving", !.payload =
              WithoutEquipment(worker.snapshot, forfeitedEquipments[worker.zone])]
    /\ UNCHANGED <<live, queues, marks, revision, closing, remover, tables, bounds, history>>

FlushSave ==
    /\ worker.pc = "save" /\ storeMu = None
    /\ IF worker.zone \in discardedZones
       THEN /\ worker' = [worker EXCEPT !.pc = "pick", !.zone = None, !.snapshot = None, !.payload = None]
            /\ UNCHANGED storeMu
       ELSE /\ storeMu' = "worker"
            /\ worker' = [worker EXCEPT !.pc = "saving", !.payload =
                      WithoutEquipment(worker.snapshot, forfeitedEquipments[worker.zone])]
    /\ UNCHANGED <<live, queues, marks, revision, closing, remover, tables, bounds, history>>

FlushSaved ==
    /\ worker.pc = "saving"
    /\ storeMu' = None
    /\ \/ /\ Works /\ Written(worker.payload, worker.zone)
          /\ worker' = [worker EXCEPT !.pc = "pick", !.zone = None, !.snapshot = None, !.payload = None]
       \/ /\ Fails /\ worker' = [worker EXCEPT !.pc = "putback"]
          /\ (UNCHANGED tables \/ Written(worker.payload, worker.zone))
    /\ UNCHANGED <<live, queues, marks, revision, closing, remover, history>>

\* Bug variant: the snapshot whose write failed is dropped.
PutBackNothing ==
    /\ worker.pc = "putback"
    /\ FlushFailed
    /\ UNCHANGED <<live, queues, marks, revision, storeMu, remover, tables, bounds, history>>

\* A rejected snapshot is queued again unless the zone is being deleted or a
\* newer one has come.
PutBack ==
    /\ worker.pc = "putback"
    /\ LET z == worker.zone
           isReplaced == /\ pendingSnapshots[z] # None
                         /\ pendingSnapshots[z].revision >= worker.snapshot.revision
       IN  pendingSnapshots' = IF z \in pendingDeletes \/ isReplaced THEN pendingSnapshots
                               ELSE [pendingSnapshots EXCEPT ![z] = worker.snapshot]
    /\ FlushFailed
    /\ UNCHANGED <<live, pendingDeletes, pendingForfeits, marks, revision, storeMu, remover, tables,
                   bounds, history>>

Close ==
    /\ ~isClosing /\ isClosing' = TRUE /\ UNCHANGED closeErr
    /\ UNCHANGED <<live, queues, marks, revision, storeMu, worker, remover, tables, bounds, history>>

-----------------------------------------------------------------------------
(* Start Fresh: DiscardInterruptedMission finds the mission a player is     *)
(* offered, live or saved, has RemoveMemberNow take the player out of its   *)
(* checkpoint, and then takes the player out of the zone.                   *)

RemovalStays == UNCHANGED <<live, closing, worker, accepted, retired>>

Ends(answer) ==
    IF answer = None THEN remover' = NoRemoval
    ELSE remover' = [remover EXCEPT !.pc = "leave", !.snapshot = None, !.remaining = answer]

RemoveBegin(z, u) ==
    /\ remover.pc = "idle" /\ u \in Decliners /\ ~isClosing
    /\ z \notin exposed                \* bound: one removal of a zone in a process
    /\ u \in crew[z] \/ Resume(u) = z
    /\ remover' = [NoRemoval EXCEPT !.pc = "load", !.zone = z, !.user = u]
    /\ exposed' = exposed \cup {z}
    /\ RemovalStays
    /\ UNCHANGED <<queues, marks, revision, storeMu, tables, bounds, pruned>>

\* What RemoveMemberNow does with the snapshot that Load returned.
Proceed(s) ==
    IF s = None THEN Ends(0)
    ELSE IF remover.user \notin s.members THEN Ends(Cardinality(s.members))
    ELSE remover' = [remover EXCEPT !.pc = "mark", !.snapshot = s]

\* Load: the maps under mu, else the store under storeMu.
RemoveLoad ==
    /\ remover.pc = "load"
    /\ LET z == remover.zone
       IN  IF z \in discardedZones THEN Proceed(None)
           ELSE IF pendingSnapshots[z] # None THEN Proceed(pendingSnapshots[z])
           ELSE remover' = [remover EXCEPT !.pc = "read"]
    /\ RemovalStays
    /\ UNCHANGED <<queues, marks, revision, storeMu, tables, bounds, exposed, pruned>>

RemoveRead ==
    /\ remover.pc = "read" /\ storeMu = None
    /\ \/ Works /\ Proceed(Loaded(remover.zone))
       \/ Fails /\ Ends(None)
    /\ RemovalStays
    /\ UNCHANGED <<queues, marks, revision, storeMu, tables, exposed, pruned>>

\* The member is declined and the queued snapshot dropped; who is left decides.
RemoveMark ==
    /\ remover.pc = "mark"
    /\ LET z == remover.zone
           s == WithoutMembers(remover.snapshot, {remover.user})
       IN  /\ declinedMembers' = [declinedMembers EXCEPT ![z] = @ \cup {remover.user}]
           /\ pendingSnapshots' = [pendingSnapshots EXCEPT ![z] = None]
           /\ remover' = [remover EXCEPT !.snapshot = s,
                                         !.pc = IF s.members = {} THEN "discard" ELSE "stamp"]
    /\ RemovalStays
    /\ UNCHANGED <<pendingDeletes, pendingForfeits, discardedZones, forfeitedEquipments, revision,
                   storeMu, tables, bounds, exposed, pruned>>

RemoveStamp ==
    /\ remover.pc = "stamp"
    /\ revision' = revision + 1
    /\ remover' = [remover EXCEPT !.pc = "save", !.snapshot.revision = revision + 1]
    /\ RemovalStays
    /\ UNCHANGED <<queues, marks, storeMu, tables, bounds, exposed, pruned>>

restoreDeclinedMember ==
    declinedMembers' = [declinedMembers EXCEPT ![remover.zone] = @ \ {remover.user}]

\* Bug variant: the removal writes what it loaded, forfeited loot included.
RemoveSaveLoot ==
    /\ remover.pc = "save" /\ storeMu = None
    /\ IF remover.zone \in discardedZones
       THEN Ends(None) /\ restoreDeclinedMember /\ UNCHANGED storeMu
       ELSE /\ storeMu' = "remover"
            /\ remover' = [remover EXCEPT !.pc = "saving"]
            /\ UNCHANGED declinedMembers
    /\ RemovalStays
    /\ UNCHANGED <<queues, discardedZones, forfeitedEquipments, revision, tables, bounds, exposed,
                   pruned>>

RemoveSave ==
    /\ remover.pc = "save" /\ storeMu = None
    /\ IF remover.zone \in discardedZones
       THEN Ends(None) /\ restoreDeclinedMember /\ UNCHANGED storeMu
       ELSE /\ storeMu' = "remover"
            /\ remover' = [remover EXCEPT !.pc = "saving", !.snapshot =
                      WithoutEquipment(@, forfeitedEquipments[remover.zone])]
            /\ UNCHANGED declinedMembers
    /\ RemovalStays
    /\ UNCHANGED <<queues, discardedZones, forfeitedEquipments, revision, tables, bounds, exposed,
                   pruned>>

RemoveSaved ==
    /\ remover.pc = "saving"
    /\ storeMu' = None
    /\ \/ /\ Works /\ Written(remover.snapshot, remover.zone)
          /\ Ends(Cardinality(remover.snapshot.members))
          /\ pruned' = pruned \cup {<<remover.zone, remover.user>>}
          /\ UNCHANGED declinedMembers
       \/ /\ Fails /\ Ends(None) /\ restoreDeclinedMember /\ UNCHANGED pruned
          /\ (UNCHANGED tables \/ Written(remover.snapshot, remover.zone))
    /\ RemovalStays
    /\ UNCHANGED <<queues, discardedZones, forfeitedEquipments, revision, exposed>>

\* The last member: DiscardNow, which marks the zone and then deletes its rows.
RemoveDiscard ==
    /\ remover.pc = "discard"
    /\ markDiscarded(remover.zone)
    /\ remover' = [remover EXCEPT !.pc = "delete"]
    /\ RemovalStays
    /\ UNCHANGED <<pendingForfeits, declinedMembers, forfeitedEquipments, revision, storeMu, tables,
                   bounds, exposed, pruned>>

RemoveDelete ==
    /\ remover.pc = "delete" /\ storeMu = None
    /\ \/ /\ Works /\ Deleted(remover.zone)
          /\ pendingDeletes' = pendingDeletes \ {remover.zone}
          /\ retired' = retired \cup {remover.zone}
          /\ Ends(0) /\ UNCHANGED declinedMembers
       \/ /\ Fails /\ Ends(None) /\ restoreDeclinedMember
          /\ UNCHANGED <<pendingDeletes, retired>>
          /\ (UNCHANGED tables \/ Deleted(remover.zone))
    /\ UNCHANGED <<live, closing, worker, accepted, pendingSnapshots, pendingForfeits, discardedZones,
                   forfeitedEquipments, revision, storeMu, exposed, pruned>>

\* Back in the server: the player leaves the zone, and a zone nobody is left in
\* is discarded.
RemoveLeave ==
    /\ remover.pc = "leave"
    /\ LET z == remover.zone
           isEmpty == remover.remaining = 0 /\ crew[z] \ {remover.user} = {}
       IN  /\ crew' = [crew EXCEPT ![z] = @ \ {remover.user}]
           /\ IF isEmpty /\ crew[z] # {}
              THEN markDiscarded(z) /\ UNCHANGED <<loot, forfeitedEquipments, pendingForfeits>>
              ELSE /\ IF remover.user \in crew[z] THEN Forfeited(z, remover.user)
                      ELSE UNCHANGED <<loot, forfeitedEquipments, pendingForfeits, pendingSnapshots>>
                   /\ UNCHANGED <<discardedZones, pendingDeletes>>
    /\ remover' = NoRemoval
    /\ UNCHANGED <<stage, captures, declinedMembers, revision, closing, storeMu, worker, tables, bounds, history>>

-----------------------------------------------------------------------------
\* The process dies at any point, or has stopped, and another one starts: only
\* the rows are left.  Its revisions start from a later clock,
\* that is after every revision that was stored.
Restart ==
    /\ crashes < MaxCrashes /\ crashes' = crashes + 1 /\ UNCHANGED <<faults, restores, tables>>
    /\ crew' = [z \in Zones |-> {}] /\ stage' = [z \in Zones |-> 0] /\ loot' = [z \in Zones |-> {}]
    /\ captures' = {}
    /\ revision' = Max({0} \cup {row[z].revision : z \in {y \in Zones : row[y] # None}})
    /\ pendingSnapshots' = [z \in Zones |-> None] /\ pendingDeletes' = {} /\ pendingForfeits' = {}
    /\ discardedZones' = {} /\ declinedMembers' = [z \in Zones |-> {}]
    /\ forfeitedEquipments' = [z \in Zones |-> {}]
    /\ isClosing' = FALSE /\ closeErr' = FALSE
    /\ storeMu' = None /\ worker' = Idle /\ remover' = NoRemoval
    /\ accepted' = [z \in Zones |-> Nothing] /\ exposed' = {} /\ UNCHANGED <<pruned, retired>>

Worker ==
    \/ FlushBegin \/ PickNothing \/ FlushDelete \/ FlushSave \/ FlushSaved \/ PutBack
    \/ \E z \in Zones : SaveForfeit(z) \/ PickDelete(z) \/ PickSnapshot(z)

Remover ==
    \/ RemoveLoad \/ RemoveRead \/ RemoveMark \/ RemoveStamp \/ RemoveSave \/ RemoveSaved
    \/ RemoveDiscard \/ RemoveDelete \/ RemoveLeave

Next ==
    \/ Worker \/ Remover \/ Close \/ Restart
    \/ \E z \in Zones : Capture(z) \/ Complete(z)
    \/ \E c \in captures : Record(c) \/ GiveUp(c)
    \/ \E z \in Zones, u \in Users : Defeat(z, u) \/ Leave(z, u) \/ Restore(z, u) \/ RemoveBegin(z, u)

Spec == Init /\ [][Next]_vars
FairSpec == Spec /\ WF_vars(Worker) /\ WF_vars(Remover)

-----------------------------------------------------------------------------
\* Every variable has its type; no snapshot without a member is queued or stored.
TypeOK ==
    /\ crew \in [Zones -> SUBSET Users] /\ loot \in [Zones -> SUBSET Users]
    /\ stage \in [Zones -> 0..MaxStage] /\ captures \subseteq Capturing
    /\ accepted \in [Zones -> [stage : 0..MaxStage, revision : Nat]]
    /\ \A z \in Zones : pendingSnapshots[z] \in Snapshot \cup {None}
    /\ \A z \in Zones : row[z] \in Snapshot \cup {None}
    /\ pendingDeletes \subseteq discardedZones /\ discardedZones \subseteq Zones
    /\ pendingForfeits \subseteq Zones
    /\ declinedMembers \in [Zones -> SUBSET Users] /\ forfeitedEquipments \in [Zones -> SUBSET Users]
    /\ revision \in Nat /\ {isClosing, closeErr} \subseteq BOOLEAN
    /\ storeMu \in {None, "worker", "remover"}
    /\ worker.pc \in {"idle", "forfeit", "pick", "delete", "save", "saving", "putback", "done"}
    /\ worker.zone \in Zones \cup {None} /\ worker.snapshot \in Snapshot \cup {None}
    /\ remover.pc \in {"idle", "load", "read", "mark", "stamp", "save", "saving", "discard", "delete", "leave"}
    /\ remover.zone \in Zones \cup {None} /\ remover.user \in Users \cup {None}
    /\ \A u \in Users : memberRow[u] # None =>
           memberRow[u].zone \in Zones /\ memberRow[u].savedAt \in Nat

\* What the store of a zone holds, or is still going to hold.
Held(z) == {s \in {row[z], pendingSnapshots[z], IF worker.zone = z THEN worker.snapshot ELSE None} : s # None}

\* The snapshot is the last one that Record took of the zone.
IsLast(s, z) == s.revision = accepted[z].revision /\ s.stage = accepted[z].stage

\* Through failed, ambiguous and repeated writes, newer and late captures,
\* forfeitures and Close, the last snapshot that Record took is in the queue, with
\* the worker or in the row, unless the zone is over or a removal has begun.
AcceptedKept ==
    \A z \in Zones : \/ z \in exposed \cup discardedZones \/ accepted[z] = Nothing
                     \/ \E s \in Held(z) : IsLast(s, z)

\* A member whose removal was stored is in no later row of the zone, whatever was
\* queued or in flight then and whatever the zone records after.
RemovalStored == \A z \in Zones : row[z] # None => \A u \in row[z].members : <<z, u>> \notin pruned

\* A zone that DiscardNow reported deleted has no row again, from no write that
\* was under way and in no later process.
RetiredStays == \A z \in retired : row[z] = None

\* Loot that was forfeited, be it between a capture and its Record, is out of the
\* row once the forfeiture has left the queue, and stays out whatever older snapshot
\* is written afterwards; until a write fails, no queued snapshot holds it either.
ForfeitStored ==
    \A z \in Zones :
        /\ z \notin pendingForfeits /\ row[z] # None => row[z].loot \cap forfeitedEquipments[z] = {}
        /\ faults = 0 /\ pendingSnapshots[z] # None =>
               pendingSnapshots[z].loot \cap forfeitedEquipments[z] = {}

\* A Close without an error has written the last snapshot of every zone that no
\* removal touched, and deleted the ones that are over.
CloseTruthful ==
    worker.pc = "done" /\ ~closeErr =>
        \A z \in Zones \ exposed :
            IF z \in discardedZones THEN row[z] = None
            ELSE accepted[z] # Nothing => row[z] # None /\ IsLast(row[z], z)

\* What Record took reaches the row, and a zone that is over loses its row, unless
\* the process ends or a removal has taken over; a write may fail on the way.
IsBehind(z) ==
    IF z \in discardedZones THEN row[z] # None
    ELSE /\ z \notin exposed /\ accepted[z] # Nothing
         /\ row[z] = None \/ ~IsLast(row[z], z)
RowsCatchUp == \A z \in Zones : IsBehind(z) ~> ~IsBehind(z) \/ worker.pc = "done"

\* Start Fresh is "retaining the shared checkpoint for every member who still
\* wants to resume": the last snapshot that was accepted is not lost by it.
SharedKept ==
    \A z \in Zones : remover.pc = "idle" /\ z \notin discardedZones /\ accepted[z] # Nothing =>
        \E s \in Held(z) : s.stage >= accepted[z].stage
=============================================================================
