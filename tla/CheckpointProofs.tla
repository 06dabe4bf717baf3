--------------------------- MODULE CheckpointProofs ---------------------------
(***************************************************************************)
(* Proofs about Checkpoint, for any zones, users, stages, faults, crashes. *)
(*                                                                         *)
(* What is proved of a zone's row rests on where its snapshots can be: in  *)
(* the queue, in the worker's hand, in a removal's hand or in the row.     *)
(* The base invariant (Base) gives each place its type and says what the   *)
(* goroutines have in hand at each point (WorkInv), that storeMu admits    *)
(* one of them to the store (MuInv), and that no revision is ahead of the  *)
(* manager's (RevInv).  The others say what a snapshot in any of these     *)
(* places may still do to the row.                                         *)
(***************************************************************************)
EXTENDS Checkpoint, WellFoundedInduction, TLAPS

WorkerSteps == {"idle", "forfeit", "pick", "delete", "save", "saving", "putback", "done"}
RemoverSteps == {"idle", "load", "read", "mark", "stamp", "save", "saving", "discard", "delete", "leave"}

\* A removal may take the last member out of the snapshot it has in hand.
AnySnapshot == [stage : 1..MaxStage, revision : Nat, members : SUBSET Users, loot : SUBSET Users]

WorkerRecord == [pc : WorkerSteps, zone : Zones \cup {None}, snapshot : Snapshot \cup {None},
                 payload : Snapshot \cup {None}, isFinal : BOOLEAN]

IsRemoval(r) == r \in [pc : RemoverSteps, zone : Zones \cup {None}, user : Users \cup {None},
                       snapshot : AnySnapshot \cup {None}, remaining : {r.remaining}]

TypeInv ==
    /\ pendingSnapshots \in [Zones -> Snapshot \cup {None}]
    /\ row \in [Zones -> Snapshot \cup {None}]
    /\ worker \in WorkerRecord
    /\ IsRemoval(remover)

InHand == {"save", "saving", "putback"}
WorkInv ==
    /\ worker.pc \in InHand => worker.zone \in Zones /\ worker.snapshot \in Snapshot
    /\ worker.pc \notin InHand => worker.snapshot = None
    /\ worker.pc \notin InHand \cup {"delete"} => worker.zone = None
    /\ worker.pc = "delete" => worker.zone \in discardedZones
    /\ worker.pc = "saving" => /\ worker.payload \in Snapshot
                               /\ worker.payload.stage = worker.snapshot.stage
                               /\ worker.payload.revision = worker.snapshot.revision
                               /\ worker.payload.members = worker.snapshot.members
    /\ worker.isFinal \/ worker.pc = "done" => isClosing

RemovalInv ==
    /\ remover.pc # "idle" => remover.zone \in Zones \cap exposed /\ remover.user \in Users
    /\ remover.pc \in {"mark", "stamp", "save", "saving"} => remover.snapshot \in Snapshot
    /\ remover.pc = "delete" => remover.zone \in discardedZones

MuInv ==
    /\ storeMu \in {None, "worker", "remover"}
    /\ storeMu = "worker" <=> worker.pc = "saving"
    /\ storeMu = "remover" <=> remover.pc = "saving"

RevInv ==
    /\ \A z \in Zones : row[z] # None => row[z].revision <= revision
    /\ \A z \in Zones : pendingSnapshots[z] # None => pendingSnapshots[z].revision <= revision
    /\ worker.snapshot # None => worker.snapshot.revision <= revision
    /\ remover.pc \in {"mark", "stamp", "save", "saving"} => remover.snapshot.revision <= revision

\* The rest of TypeOK, in parts that one step seldom changes together.
ZoneTypes ==
    /\ crew \in [Zones -> SUBSET Users] /\ loot \in [Zones -> SUBSET Users]
    /\ stage \in [Zones -> 0..MaxStage] /\ captures \subseteq Capturing
    /\ accepted \in [Zones -> [stage : 0..MaxStage, revision : Nat]]

ManagerTypes ==
    /\ pendingDeletes \subseteq discardedZones /\ discardedZones \subseteq Zones
    /\ pendingForfeits \subseteq Zones
    /\ declinedMembers \in [Zones -> SUBSET Users] /\ forfeitedEquipments \in [Zones -> SUBSET Users]
    /\ revision \in Nat /\ isClosing \in BOOLEAN /\ closeErr \in BOOLEAN

MemberTypes == \A u \in Users : memberRow[u] # None =>
                   memberRow[u].zone \in Zones /\ memberRow[u].savedAt \in Nat

Base == TypeInv /\ ZoneTypes /\ ManagerTypes /\ MemberTypes /\ WorkInv /\ RemovalInv /\ MuInv /\ RevInv

\* A step of a SaveCheckpoint.
Saves == \/ \E z \in Zones : Capture(z)
         \/ \E c \in captures : Record(c) \/ GiveUp(c)

\* Somebody is in the store with a snapshot of the zone.
IsWriting(z) == \/ worker.pc = "saving" /\ worker.zone = z
                \/ remover.pc = "saving" /\ remover.zone = z

\* A zone that is over and needs no deletion any more has no row and gets none.
DeleteInv == \A z \in discardedZones \ pendingDeletes : row[z] = None /\ ~IsWriting(z)

-----------------------------------------------------------------------------
(* Snapshots, and what the store and the lookups return.                   *)

LEMMA SnapshotParts == ASSUME NEW s \in Snapshot
                       PROVE  /\ s \in AnySnapshot /\ s # None
                              /\ s.stage \in 1..MaxStage /\ s.revision \in Nat
                              /\ s.members \in SUBSET Users /\ s.members # {} /\ s.loot \in SUBSET Users
  BY NoneAssumption DEF Snapshot, AnySnapshot

LEMMA EquipmentGone == ASSUME NEW s \in AnySnapshot, NEW users
                       PROVE  /\ WithoutEquipment(s, users) \in AnySnapshot
                              /\ WithoutEquipment(s, users).stage = s.stage
                              /\ WithoutEquipment(s, users).revision = s.revision
                              /\ WithoutEquipment(s, users).members = s.members
                              /\ WithoutEquipment(s, users).loot = s.loot \ users
                              /\ s.members # {} => WithoutEquipment(s, users) \in Snapshot
<1>1. WithoutEquipment(s, users) =
          [stage |-> s.stage, revision |-> s.revision, members |-> s.members, loot |-> s.loot \ users]
  BY DEF AnySnapshot, WithoutEquipment
<1> QED BY <1>1 DEF AnySnapshot, Snapshot

LEMMA MembersGone == ASSUME NEW s \in AnySnapshot, NEW users
                     PROVE  /\ WithoutMembers(s, users) \in AnySnapshot
                            /\ WithoutMembers(s, users).stage = s.stage
                            /\ WithoutMembers(s, users).revision = s.revision
                            /\ WithoutMembers(s, users).members = s.members \ users
                            /\ WithoutMembers(s, users).loot = s.loot \ users
                            /\ WithoutMembers(s, users).members # {} => WithoutMembers(s, users) \in Snapshot
<1> DEFINE t == [s EXCEPT !.members = @ \ users]
<1>1. t = [stage |-> s.stage, revision |-> s.revision, members |-> s.members \ users, loot |-> s.loot]
  BY DEF AnySnapshot
<1>2. /\ t \in AnySnapshot /\ t.stage = s.stage /\ t.revision = s.revision
      /\ t.members = s.members \ users /\ t.loot = s.loot
  BY <1>1 DEF AnySnapshot
<1>3. WithoutMembers(s, users) = WithoutEquipment(t, users)
  BY DEF WithoutMembers
<1> HIDE DEF t
<1> QED BY <1>2, <1>3, EquipmentGone

LEMMA LoadedRow == ASSUME TypeInv, NEW z \in Zones
                   PROVE  /\ row[z] = None => Loaded(z) = None
                          /\ row[z] # None =>
                                /\ row[z] \in Snapshot
                                /\ Loaded(z) \in Snapshot /\ Loaded(z) # None
                                /\ Loaded(z).stage = row[z].stage
                                /\ Loaded(z).revision = row[z].revision
                                /\ Loaded(z).members = row[z].members
                                /\ Loaded(z).loot = row[z].loot \ forfeitedEquipments[z]
<1>1. row[z] = None => Loaded(z) = None
  BY DEF Loaded
<1>2. ASSUME row[z] # None PROVE row[z] \in Snapshot /\ Loaded(z) = WithoutEquipment(row[z], forfeitedEquipments[z])
  BY <1>2 DEF Loaded, TypeInv
<1> QED BY <1>1, <1>2, EquipmentGone, SnapshotParts

\* Load finds a snapshot only of a zone that is not over: the one in the queue, or the row.
LEMMA LoadFinds == ASSUME TypeInv, NEW z \in Zones, Load(z) # None
                   PROVE  /\ z \notin discardedZones /\ Load(z) \in Snapshot
                          /\ \/ pendingSnapshots[z] # None /\ Load(z) = pendingSnapshots[z]
                             \/ pendingSnapshots[z] = None /\ row[z] # None /\ Load(z) = Loaded(z)
<1>1. z \notin discardedZones
  BY DEF Load
<1>2. CASE pendingSnapshots[z] # None
  BY <1>1, <1>2 DEF Load, TypeInv
<1>3. CASE pendingSnapshots[z] = None
  BY <1>1, <1>3, LoadedRow DEF Load
<1> QED BY <1>2, <1>3

\* A set of numbers with a bound has a greatest one.
LEMMA Greatest == ASSUME NEW S \in SUBSET Nat, S # {}, NEW n \in Nat, \A x \in S : x <= n
                  PROVE  \E x \in S : \A y \in S : y <= x
<1> DEFINE T == {n - x : x \in S}
<1> DEFINE Less == {ss \in Nat \X Nat : ss[1] < ss[2]}
<1>1. T \in SUBSET Nat /\ T # {}
  <2>1. \A x \in S : n - x \in Nat
    OBVIOUS
  <2> QED BY <2>1
<1>2. PICK t \in T : \A u \in T : ~ (<<u, t>> \in Less)
  <2>1. IsWellFoundedOn(Less, Nat)
    BY NatLessThanWellFounded DEF OpToRel
  <2> QED BY <1>1, <2>1, WFMin
<1>3. \A u \in T : ~ (u < t)
  BY <1>1, <1>2
<1>4. PICK x \in S : t = n - x
  OBVIOUS
<1>5. ASSUME NEW y \in S PROVE y <= x
  <2>1. n - y \in T
    OBVIOUS
  <2>2. ~ (n - y < n - x)
    BY <1>3, <1>4, <2>1
  <2> QED BY <2>2
<1> QED BY <1>5

LEMMA WrittenRow == ASSUME TypeInv, MemberTypes, NEW z \in Zones, NEW s \in Snapshot, Written(s, z)
                    PROVE  /\ row' \in [Zones -> Snapshot \cup {None}]
                           /\ \A y \in Zones \ {z} : row'[y] = row[y]
                           /\ row'[z] # None /\ row'[z].revision >= s.revision
                           /\ \/ row'[z] = s
                              \/ row'[z] = row[z] /\ row[z] # None /\ row[z].revision > s.revision
                           /\ row[z] # None => row'[z].revision >= row[z].revision
                           /\ MemberTypes'
<1>1. CASE Stores(s, z)
  <2>1. row' = [row EXCEPT ![z] = s]
    BY <1>1 DEF Written
  <2>2. ASSUME NEW u \in Users, memberRow'[u] # None
        PROVE  memberRow'[u].zone \in Zones /\ memberRow'[u].savedAt \in Nat
    <3>1. s.revision \in Nat
      BY SnapshotParts
    <3>2. memberRow'[u] = [zone |-> z, savedAt |-> s.revision] \/ memberRow'[u] = memberRow[u]
      BY <1>1, <2>2 DEF Written
    <3> QED BY <2>2, <3>1, <3>2 DEF MemberTypes
  <2>3. row[z] # None => s.revision >= row[z].revision
    BY <1>1 DEF Stores
  <2>4. s.revision \in Nat /\ s # None
    BY SnapshotParts
  <2> QED BY <2>1, <2>2, <2>3, <2>4 DEF TypeInv, MemberTypes
<1>2. CASE ~Stores(s, z)
  <2>1. row' = row /\ memberRow' = memberRow
    BY <1>2 DEF Written, tables
  <2>2. row[z] # None /\ ~(s.revision >= row[z].revision)
    BY <1>2 DEF Stores
  <2>3. s.revision \in Nat /\ row[z].revision \in Nat
    BY <2>2, SnapshotParts DEF TypeInv
  <2> QED BY <2>1, <2>2, <2>3 DEF TypeInv, MemberTypes
<1> QED BY <1>1, <1>2

LEMMA DeletedRow == ASSUME TypeInv, MemberTypes, NEW z \in Zones, Deleted(z)
                    PROVE  /\ row' \in [Zones -> Snapshot \cup {None}]
                           /\ \A y \in Zones \ {z} : row'[y] = row[y]
                           /\ row'[z] = None
                           /\ MemberTypes'
<1>1. \A u \in Users : memberRow'[u] # None => memberRow'[u] = memberRow[u]
  BY DEF Deleted
<1> QED BY <1>1 DEF Deleted, TypeInv, MemberTypes

-----------------------------------------------------------------------------
(* The base invariant is inductive.                                        *)

LEMMA BaseTypes == Base => TypeOK
<1> SUFFICES ASSUME Base PROVE TypeOK
  OBVIOUS
<1>1. /\ \A z \in Zones : pendingSnapshots[z] \in Snapshot \cup {None}
      /\ \A z \in Zones : row[z] \in Snapshot \cup {None}
      /\ worker.pc \in WorkerSteps /\ worker.zone \in Zones \cup {None}
      /\ worker.snapshot \in Snapshot \cup {None}
      /\ remover.pc \in RemoverSteps /\ remover.zone \in Zones \cup {None}
      /\ remover.user \in Users \cup {None}
  BY DEF Base, TypeInv, WorkerRecord, IsRemoval
<1> QED BY <1>1 DEF Base, ZoneTypes, ManagerTypes, MemberTypes, MuInv, WorkerSteps, RemoverSteps, TypeOK

LEMMA InitBase == Init => Base
<1> SUFFICES ASSUME Init PROVE Base
  OBVIOUS
<1>1. TypeInv
  BY DEF Init, TypeInv, Idle, NoRemoval, WorkerRecord, IsRemoval, WorkerSteps, RemoverSteps
<1>2. ZoneTypes
  BY CheckpointAssumption DEF Init, ZoneTypes, Nothing
<1>6. ManagerTypes
  BY DEF Init, ManagerTypes
<1>7. MemberTypes
  BY DEF Init, MemberTypes
<1>3. WorkInv /\ RemovalInv
  BY DEF Init, WorkInv, RemovalInv, Idle, NoRemoval, InHand
<1>4. MuInv
  BY CheckpointAssumption DEF Init, MuInv, Idle, NoRemoval
<1>5. RevInv
  BY DEF Init, RevInv, Idle, NoRemoval
<1> QED BY <1>1, <1>2, <1>3, <1>4, <1>5, <1>6, <1>7 DEF Base

\* What a step of a zone, which leaves both goroutines and the tables alone, has
\* to keep.
LEMMA ZoneStepBase ==
    ASSUME Base, ZoneTypes', ManagerTypes',
           UNCHANGED <<storeMu, worker, remover, tables>>,
           pendingSnapshots' \in [Zones -> Snapshot \cup {None}],
           \A z \in Zones : pendingSnapshots'[z] # None => pendingSnapshots'[z].revision <= revision',
           revision <= revision',
           discardedZones \subseteq discardedZones', exposed \subseteq exposed',
           isClosing => isClosing'
    PROVE  Base'
<1>1. TypeInv'
  BY DEF Base, TypeInv, tables
<1>2. MemberTypes' /\ MuInv'
  BY DEF Base, MemberTypes, MuInv, tables
<1>3. WorkInv'
  BY DEF Base, WorkInv
<1>4. RemovalInv'
  BY DEF Base, RemovalInv
<1>5. RevInv'
  <2>1. \A n \in Nat : n <= revision => n <= revision'
    BY DEF Base, ManagerTypes
  <2>2. \A s \in Snapshot : s.revision \in Nat
    BY SnapshotParts
  <2>3. /\ \A z \in Zones : row[z] # None => row[z] \in Snapshot
        /\ worker.snapshot # None => worker.snapshot \in Snapshot
        /\ remover.pc \in {"mark", "stamp", "save", "saving"} => remover.snapshot \in Snapshot
    BY DEF Base, TypeInv, WorkerRecord, RemovalInv
  <2> QED BY <2>1, <2>2, <2>3 DEF Base, RevInv, tables
<1> QED BY <1>1, <1>2, <1>3, <1>4, <1>5 DEF Base

\* A snapshot that lost some loot is otherwise the same.
Same(s, t) == s.stage = t.stage /\ s.revision = t.revision /\ s.members = t.members

\* Revisions of the queue stay known when its snapshots only lose loot or leave it.
LEMMA QueueRevisions ==
    ASSUME Base, revision' = revision,
           \A z \in Zones : \/ pendingSnapshots'[z] = None
                            \/ pendingSnapshots[z] # None /\ Same(pendingSnapshots'[z], pendingSnapshots[z])
    PROVE  /\ revision <= revision'
           /\ \A z \in Zones : pendingSnapshots'[z] # None => pendingSnapshots'[z].revision <= revision'
<1>1. revision \in Nat
  BY DEF Base, ManagerTypes
<1> QED BY <1>1 DEF Base, RevInv, Same

LEMMA CaptureBase == ASSUME Base, NEW z \in Zones, Capture(z) PROVE Base'
<1>1. /\ stage[z] \in 0..MaxStage /\ stage[z] < MaxStage /\ crew[z] # {}
      /\ crew[z] \in SUBSET Users /\ loot[z] \in SUBSET Users
  BY DEF Capture, Base, ZoneTypes
<1>2. stage[z] + 1 \in 1..MaxStage /\ stage[z] + 1 \in 0..MaxStage
  BY <1>1, CheckpointAssumption
<1>3. Captured(z) \in Capturing
  BY <1>1, <1>2 DEF Captured, Capturing
<1>4. /\ captures' = captures \cup {Captured(z)} /\ stage' = [stage EXCEPT ![z] = stage[z] + 1]
      /\ UNCHANGED <<crew, loot, accepted, pendingSnapshots, pendingDeletes, pendingForfeits, revision>>
      /\ UNCHANGED <<discardedZones, declinedMembers, forfeitedEquipments>>
      /\ UNCHANGED <<isClosing, closeErr, storeMu, worker, remover, tables, exposed>>
  BY DEF Capture, queues, marks, closing, history
<1>5. ZoneTypes'
  BY <1>2, <1>3, <1>4 DEF Base, ZoneTypes
<1>6. ManagerTypes'
  BY <1>4 DEF Base, ManagerTypes
<1> QED BY <1>4, <1>5, <1>6, QueueRevisions, ZoneStepBase DEF Same, Base, TypeInv

LEMMA GiveUpBase == ASSUME Base, NEW c \in captures, GiveUp(c) PROVE Base'
<1>1. /\ captures' \subseteq captures
      /\ UNCHANGED <<crew, stage, loot, accepted, pendingSnapshots, pendingDeletes, pendingForfeits>>
      /\ UNCHANGED <<revision, discardedZones, declinedMembers, forfeitedEquipments>>
      /\ UNCHANGED <<isClosing, closeErr, storeMu, worker, remover, tables, exposed>>
  BY DEF GiveUp, queues, marks, closing, history
<1>2. ZoneTypes' /\ ManagerTypes'
  BY <1>1 DEF Base, ZoneTypes, ManagerTypes
<1> QED BY <1>1, <1>2, QueueRevisions, ZoneStepBase DEF Same, Base, TypeInv

\* What Record makes of a capture, whenever that was taken.
LEMMA TakenType ==
    ASSUME Base, NEW c \in captures
    PROVE  /\ c.zone \in Zones /\ c.stage \in 1..MaxStage
           /\ Taken(c).members = c.members \ declinedMembers[c.zone]
           /\ Taken(c).stage = c.stage /\ Taken(c).revision = revision + 1
           /\ Taken(c).members # {} => Taken(c) \in Snapshot
           /\ Taken(c).loot \cap forfeitedEquipments[c.zone] = {}
<1> DEFINE s == [stage |-> c.stage, revision |-> revision + 1, members |-> c.members, loot |-> c.loot]
           t == WithoutMembers(s, declinedMembers[c.zone])
<1>1. c \in Capturing /\ revision \in Nat
  BY DEF Base, ZoneTypes, ManagerTypes
<1>2. /\ c.zone \in Zones /\ c.stage \in 1..MaxStage
      /\ s \in AnySnapshot /\ s.stage = c.stage /\ s.revision = revision + 1 /\ s.members = c.members
  BY <1>1 DEF Capturing, AnySnapshot
<1> HIDE DEF s
<1>3. /\ t \in AnySnapshot /\ t.stage = c.stage /\ t.revision = revision + 1
      /\ t.members = c.members \ declinedMembers[c.zone]
  BY <1>2, MembersGone
<1> HIDE DEF t
<1>4. Taken(c) = WithoutEquipment(t, forfeitedEquipments[c.zone])
  BY DEF Taken, t, s
<1> QED BY <1>2, <1>3, <1>4, EquipmentGone

\* Record takes a capture over, or leaves the manager as it is.
LEMMA RecordParts ==
    ASSUME Base, NEW c \in captures, Record(c)
    PROVE  /\ captures' = captures \ {c}
           /\ UNCHANGED <<crew, loot, stage, pendingDeletes, pendingForfeits>>
           /\ UNCHANGED <<discardedZones, declinedMembers, forfeitedEquipments>>
           /\ UNCHANGED <<isClosing, closeErr, storeMu, worker, remover, tables>>
           /\ UNCHANGED <<bounds, exposed, pruned, retired>>
           /\ \/ UNCHANGED <<revision, pendingSnapshots, accepted>>
              \/ /\ Taken(c) \in Snapshot /\ ~isClosing /\ c.zone \notin discardedZones
                 /\ revision' = revision + 1
                 /\ pendingSnapshots' = [pendingSnapshots EXCEPT ![c.zone] = Taken(c)]
                 /\ accepted' = [accepted EXCEPT ![c.zone] =
                                     [stage |-> c.stage, revision |-> revision + 1]]
  BY TakenType DEF Record, marks, closing

LEMMA RecordBase == ASSUME Base, NEW c \in captures, Record(c) PROVE Base'
<1> DEFINE z == c.zone
           s == Taken(c)
<1>1. /\ z \in Zones /\ c.stage \in 0..MaxStage /\ s.revision = revision + 1 /\ revision \in Nat
  BY TakenType, CheckpointAssumption DEF Base, ManagerTypes
<1>2. /\ captures' \subseteq captures
      /\ UNCHANGED <<crew, loot, stage, pendingDeletes, pendingForfeits>>
      /\ UNCHANGED <<discardedZones, declinedMembers, forfeitedEquipments>>
      /\ UNCHANGED <<isClosing, closeErr, storeMu, worker, remover, tables, exposed>>
      /\ \/ UNCHANGED <<revision, pendingSnapshots, accepted>>
         \/ /\ s \in Snapshot /\ revision' = revision + 1
            /\ pendingSnapshots' = [pendingSnapshots EXCEPT ![z] = s]
            /\ accepted' = [accepted EXCEPT ![z] = [stage |-> c.stage, revision |-> revision + 1]]
  BY RecordParts
<1> HIDE DEF s, z
<1>3. ZoneTypes'
  <2>1. [stage |-> c.stage, revision |-> revision + 1] \in [stage : 0..MaxStage, revision : Nat]
    BY <1>1
  <2> QED BY SMTT(30), <1>1, <1>2, <2>1 DEF Base, ZoneTypes
<1>4. ManagerTypes'
  BY <1>1, <1>2 DEF Base, ManagerTypes
<1>5. pendingSnapshots' \in [Zones -> Snapshot \cup {None}]
  BY <1>1, <1>2 DEF Base, TypeInv
<1>6. revision <= revision'
  BY <1>1, <1>2
<1>7. \A y \in Zones : pendingSnapshots'[y] # None => pendingSnapshots'[y].revision <= revision'
  <2> SUFFICES ASSUME NEW y \in Zones, pendingSnapshots'[y] # None
               PROVE  pendingSnapshots'[y].revision <= revision'
    OBVIOUS
  <2>1. \/ pendingSnapshots'[y] = pendingSnapshots[y]
        \/ pendingSnapshots'[y] = s /\ revision' = revision + 1
    BY <1>2 DEF Base, TypeInv
  <2>2. ASSUME pendingSnapshots'[y] = pendingSnapshots[y] PROVE pendingSnapshots[y].revision <= revision'
    <3>1. pendingSnapshots[y].revision \in Nat /\ pendingSnapshots[y].revision <= revision
      BY <2>2, SnapshotParts DEF Base, TypeInv, RevInv
    <3> QED BY <3>1, <1>1, <1>6, <1>2
  <2> QED BY <1>1, <2>1, <2>2
<1> QED BY <1>2, <1>3, <1>4, <1>5, <1>6, <1>7, ZoneStepBase

LEMMA ForfeitedKeeps ==
    ASSUME Base, NEW z \in Zones, NEW u \in Users, Forfeited(z, u)
    PROVE  /\ loot' \in [Zones -> SUBSET Users]
           /\ forfeitedEquipments' \in [Zones -> SUBSET Users]
           /\ pendingForfeits \subseteq pendingForfeits' /\ pendingForfeits' \subseteq Zones
           /\ \A y \in Zones : forfeitedEquipments'[y] = forfeitedEquipments[y] \/ y \in pendingForfeits'
           /\ pendingSnapshots' \in [Zones -> Snapshot \cup {None}]
           /\ \A y \in Zones : pendingSnapshots[y] = None => pendingSnapshots'[y] = None
           /\ \A y \in Zones : pendingSnapshots[y] # None =>
                  pendingSnapshots'[y] # None /\ Same(pendingSnapshots'[y], pendingSnapshots[y])
<1> USE DEF Same
<1>1. CASE u \notin loot[z]
  BY <1>1 DEF Forfeited, Base, TypeInv, ZoneTypes, ManagerTypes
<1>2. CASE u \in loot[z]
  <2> DEFINE lost == forfeitedEquipments[z] \cup {u}
             cleaned == IF pendingSnapshots[z] = None THEN None
                        ELSE WithoutEquipment(pendingSnapshots[z], lost)
  <2>1. /\ loot' = [loot EXCEPT ![z] = loot[z] \ {u}]
        /\ forfeitedEquipments' = [forfeitedEquipments EXCEPT ![z] = lost]
        /\ pendingForfeits' = pendingForfeits \cup {z}
        /\ pendingSnapshots' = [pendingSnapshots EXCEPT ![z] = cleaned]
    BY <1>2 DEF Forfeited
  <2>2. pendingSnapshots[z] # None => pendingSnapshots[z] \in Snapshot
    BY DEF Base, TypeInv
  <2>3. pendingSnapshots[z] # None =>
            cleaned \in Snapshot /\ cleaned # None /\ Same(cleaned, pendingSnapshots[z])
    BY <2>2, SnapshotParts, EquipmentGone
  <2>4. pendingSnapshots[z] = None => cleaned = None
    OBVIOUS
  <2> HIDE DEF cleaned
  <2>5. pendingSnapshots' \in [Zones -> Snapshot \cup {None}]
    BY <2>1, <2>3, <2>4 DEF Base, TypeInv
  <2>6. ASSUME NEW y \in Zones
        PROVE  /\ pendingSnapshots[y] = None => pendingSnapshots'[y] = None
               /\ pendingSnapshots[y] # None =>
                      pendingSnapshots'[y] # None /\ Same(pendingSnapshots'[y], pendingSnapshots[y])
    BY <2>1, <2>3, <2>4 DEF Base, TypeInv
  <2>7. /\ loot' \in [Zones -> SUBSET Users] /\ forfeitedEquipments' \in [Zones -> SUBSET Users]
        /\ pendingForfeits' \subseteq Zones
        /\ \A y \in Zones : forfeitedEquipments'[y] = forfeitedEquipments[y] \/ y \in pendingForfeits'
    BY <2>1 DEF Base, ZoneTypes, ManagerTypes
  <2> QED BY <2>1, <2>5, <2>6, <2>7
<1> QED BY <1>1, <1>2

LEMMA DefeatBase == ASSUME Base, NEW z \in Zones, NEW u \in Users, Defeat(z, u) PROVE Base'
<1>1. /\ Forfeited(z, u)
      /\ UNCHANGED <<crew, stage, captures, accepted>>
      /\ UNCHANGED <<pendingDeletes, discardedZones, declinedMembers, revision>>
      /\ UNCHANGED <<isClosing, closeErr, storeMu, worker, remover, tables, exposed>>
  BY DEF Defeat, closing, history
<1>2. ZoneTypes' /\ ManagerTypes'
  BY <1>1, ForfeitedKeeps DEF Base, ZoneTypes, ManagerTypes
<1> QED BY <1>1, <1>2, ForfeitedKeeps, QueueRevisions, ZoneStepBase

LEMMA LeaveBase == ASSUME Base, NEW z \in Zones, NEW u \in Users, Leave(z, u) PROVE Base'
<1>1. /\ Forfeited(z, u) /\ crew' = [crew EXCEPT ![z] = crew[z] \ {u}]
      /\ UNCHANGED <<stage, captures, accepted, pendingDeletes, discardedZones, declinedMembers, revision>>
      /\ UNCHANGED <<isClosing, closeErr, storeMu, worker, remover, tables, exposed>>
  BY DEF Leave, closing, history
<1>2. ZoneTypes'
  BY <1>1, ForfeitedKeeps DEF Base, ZoneTypes
<1>3. ManagerTypes'
  BY <1>1, ForfeitedKeeps DEF Base, ManagerTypes
<1> QED BY <1>1, <1>2, <1>3, ForfeitedKeeps, QueueRevisions, ZoneStepBase

LEMMA MarkedKeeps ==
    ASSUME Base, NEW z \in Zones, markDiscarded(z)
    PROVE  /\ pendingSnapshots' \in [Zones -> Snapshot \cup {None}]
           /\ \A y \in Zones : pendingSnapshots'[y] = None \/ pendingSnapshots'[y] = pendingSnapshots[y]
           /\ pendingDeletes' \subseteq discardedZones' /\ discardedZones' \subseteq Zones
           /\ discardedZones \subseteq discardedZones'
  BY DEF markDiscarded, Base, TypeInv, ManagerTypes

LEMMA CompleteBase == ASSUME Base, NEW z \in Zones, Complete(z) PROVE Base'
<1>1. /\ markDiscarded(z) /\ crew' = [crew EXCEPT ![z] = {}]
      /\ UNCHANGED <<stage, loot, captures, accepted, pendingForfeits>>
      /\ UNCHANGED <<declinedMembers, forfeitedEquipments, revision>>
      /\ UNCHANGED <<isClosing, closeErr, storeMu, worker, remover, tables, exposed>>
  BY DEF Complete, closing, history
<1>2. ZoneTypes'
  BY <1>1 DEF Base, ZoneTypes
<1>3. ManagerTypes'
  BY <1>1, MarkedKeeps DEF Base, ManagerTypes
<1> QED BY <1>1, <1>2, <1>3, MarkedKeeps, QueueRevisions, ZoneStepBase DEF Same

LEMMA RestoreBase == ASSUME Base, NEW z \in Zones, NEW u \in Users, Restore(z, u) PROVE Base'
<1>1. /\ crew' = [crew EXCEPT ![z] = Load(z).members]
      /\ stage' = [stage EXCEPT ![z] = Load(z).stage]
      /\ loot' = [loot EXCEPT ![z] = Load(z).loot]
      /\ captures' = {IF c.zone = z THEN [c EXCEPT !.isLive = FALSE] ELSE c : c \in captures}
      /\ UNCHANGED <<accepted, pendingSnapshots, pendingDeletes, pendingForfeits, revision>>
      /\ UNCHANGED <<discardedZones, declinedMembers, forfeitedEquipments>>
      /\ UNCHANGED <<isClosing, closeErr, storeMu, worker, remover, tables, exposed>>
  BY DEF Restore, closing, queues, marks, history
<1>2. /\ Load(z).members \in SUBSET Users /\ Load(z).loot \in SUBSET Users
      /\ Load(z).stage \in 0..MaxStage
  <2>1. Load(z) # None /\ TypeInv
    BY DEF Restore, Base
  <2> QED BY <2>1, LoadFinds, SnapshotParts, CheckpointAssumption
<1>5. captures' \subseteq Capturing
  <2>1. \A c \in Capturing : [c EXCEPT !.isLive = FALSE] \in Capturing
    BY DEF Capturing
  <2> QED BY <1>1, <2>1 DEF Base, ZoneTypes
<1>3. ZoneTypes'
  BY <1>1, <1>2, <1>5 DEF Base, ZoneTypes
<1>4. ManagerTypes'
  BY <1>1 DEF Base, ManagerTypes
<1> QED BY <1>1, <1>3, <1>4, QueueRevisions, ZoneStepBase DEF Same, Base, TypeInv

LEMMA CloseBase == ASSUME Base, Close PROVE Base'
<1>1. /\ isClosing' = TRUE
      /\ UNCHANGED <<crew, stage, loot, captures, accepted>>
      /\ UNCHANGED <<pendingSnapshots, pendingDeletes, pendingForfeits>>
      /\ UNCHANGED <<discardedZones, declinedMembers, forfeitedEquipments, revision, closeErr>>
      /\ UNCHANGED <<storeMu, worker, remover, tables, exposed>>
  BY DEF Close, live, queues, marks, history
<1>2. ZoneTypes' /\ ManagerTypes'
  BY <1>1 DEF Base, ZoneTypes, ManagerTypes
<1> QED BY <1>1, <1>2, QueueRevisions, ZoneStepBase DEF Same, Base, TypeInv
\* What a step of the worker, which leaves the zones and the removal alone, has
\* to keep.
Known(s) == s # None => s.revision <= revision

LEMMA WorkerStepBase ==
    ASSUME Base,
           UNCHANGED <<live, marks, revision, isClosing, remover, history>>,
           pendingSnapshots' \in [Zones -> Snapshot \cup {None}],
           row' \in [Zones -> Snapshot \cup {None}],
           worker' \in WorkerRecord, MemberTypes', MuInv', WorkInv',
           pendingDeletes' \subseteq pendingDeletes, pendingForfeits' \subseteq pendingForfeits,
           closeErr' \in BOOLEAN,
           \A z \in Zones : Known(row'[z]) /\ Known(pendingSnapshots'[z]),
           Known(worker'.snapshot)
    PROVE  Base'
<1>1. TypeInv'
  BY DEF Base, TypeInv
<1>2. ZoneTypes'
  BY DEF Base, ZoneTypes, live, history
<1>3. ManagerTypes'
  BY DEF Base, ManagerTypes, marks
<1>4. RemovalInv'
  BY DEF Base, RemovalInv, history, marks
<1>5. RevInv'
  BY DEF Base, RevInv, Known
<1> QED BY <1>1, <1>2, <1>3, <1>4, <1>5 DEF Base

LEMMA KnownNow == ASSUME Base
                  PROVE  /\ \A z \in Zones : Known(row[z]) /\ Known(pendingSnapshots[z])
                         /\ Known(worker.snapshot)
  BY DEF Base, RevInv, Known

LEMMA KnownWritten ==
    ASSUME Base, NEW z \in Zones, NEW s \in Snapshot, s.revision <= revision, Written(s, z)
    PROVE  \A y \in Zones : Known(row'[y])
<1>1. \A y \in Zones \ {z} : row'[y] = row[y]
  BY WrittenRow DEF Base
<1>2. row'[z] = s \/ row'[z] = row[z]
  BY WrittenRow DEF Base
<1> QED BY <1>1, <1>2, KnownNow DEF Known

LEMMA KnownDeleted ==
    ASSUME Base, NEW z \in Zones, Deleted(z)
    PROVE  \A y \in Zones : Known(row'[y])
  BY DeletedRow, KnownNow DEF Known, Base

\* A flush that begins, or ends without a failure.
LEMMA FlushBeginBase == ASSUME Base, FlushBegin PROVE Base'
<1>1. /\ worker' = [worker EXCEPT !.pc = "forfeit", !.isFinal = isClosing]
      /\ worker.pc = "idle" /\ worker \in WorkerRecord /\ isClosing \in BOOLEAN
      /\ UNCHANGED <<live, queues, marks, revision, closing, storeMu, remover, tables, history>>
  BY DEF FlushBegin, Base, TypeInv, ManagerTypes
<1>2. worker' \in WorkerRecord /\ worker'.pc = "forfeit" /\ worker'.isFinal = isClosing
      /\ worker'.zone = worker.zone /\ worker'.snapshot = worker.snapshot
  BY <1>1 DEF WorkerRecord, WorkerSteps
<1>3. MuInv'
  BY <1>1, <1>2 DEF Base, MuInv
<1>4. WorkInv'
  BY <1>1, <1>2 DEF Base, WorkInv, InHand, marks, closing
<1>5. MemberTypes'
  BY <1>1 DEF Base, MemberTypes, tables
<1> QED BY <1>1, <1>2, <1>3, <1>4, <1>5, KnownNow, WorkerStepBase DEF Base, TypeInv, ManagerTypes, queues, closing, tables

LEMMA PickNothingBase == ASSUME Base, PickNothing PROVE Base'
<1>1. /\ worker' = [worker EXCEPT !.pc = IF worker.isFinal THEN "done" ELSE "idle"]
      /\ worker.pc \in {"pick", "forfeit"} /\ worker \in WorkerRecord
      /\ UNCHANGED <<live, queues, marks, revision, closing, storeMu, remover, tables, history>>
  BY DEF PickNothing, Flushed, Picking, Base, TypeInv
<1>2. /\ worker' \in WorkerRecord /\ worker'.pc \in {"done", "idle"}
      /\ worker'.pc = "done" => worker.isFinal
      /\ worker'.isFinal = worker.isFinal
      /\ worker'.zone = worker.zone /\ worker'.snapshot = worker.snapshot
  BY <1>1 DEF WorkerRecord, WorkerSteps
<1>3. MuInv'
  BY <1>1, <1>2 DEF Base, MuInv
<1>4. WorkInv'
  BY <1>1, <1>2 DEF Base, WorkInv, InHand, marks, closing
<1>5. MemberTypes'
  BY <1>1 DEF Base, MemberTypes, tables
<1> QED BY <1>1, <1>2, <1>3, <1>4, <1>5, KnownNow, WorkerStepBase DEF Base, TypeInv, ManagerTypes, queues, closing, tables

\* A flush that failed puts down what it had in hand.
LEMMA FailedWorker ==
    ASSUME Base, FlushFailed
    PROVE  /\ worker' \in WorkerRecord /\ worker'.pc \in {"idle", "done"}
           /\ worker'.zone = None /\ worker'.snapshot = None
           /\ worker'.isFinal = worker.isFinal
           /\ worker'.pc = "done" => worker.isFinal /\ closeErr'
           /\ closeErr' \in BOOLEAN /\ (closeErr => closeErr') /\ isClosing' = isClosing
<1>1. \/ /\ worker' = [worker EXCEPT !.pc = "idle", !.zone = None, !.snapshot = None, !.payload = None]
         /\ UNCHANGED closing
      \/ /\ worker.isFinal /\ closeErr' = TRUE /\ UNCHANGED isClosing
         /\ worker' = [worker EXCEPT !.pc = "done", !.zone = None, !.snapshot = None, !.payload = None]
  BY DEF FlushFailed
<1>2. worker \in WorkerRecord /\ closeErr \in BOOLEAN
  BY DEF Base, TypeInv, ManagerTypes
<1>3. CASE /\ worker' = [worker EXCEPT !.pc = "idle", !.zone = None, !.snapshot = None, !.payload = None]
           /\ UNCHANGED closing
  <2>1. /\ worker' \in WorkerRecord /\ worker'.pc = "idle"
        /\ worker'.zone = None /\ worker'.snapshot = None /\ worker'.isFinal = worker.isFinal
    BY <1>2, <1>3 DEF WorkerRecord, WorkerSteps
  <2> QED BY <1>2, <1>3, <2>1 DEF closing
<1>4. CASE /\ worker.isFinal /\ closeErr' = TRUE /\ UNCHANGED isClosing
           /\ worker' = [worker EXCEPT !.pc = "done", !.zone = None, !.snapshot = None, !.payload = None]
  <2>1. /\ worker' \in WorkerRecord /\ worker'.pc = "done"
        /\ worker'.zone = None /\ worker'.snapshot = None /\ worker'.isFinal = worker.isFinal
    BY <1>2, <1>4 DEF WorkerRecord, WorkerSteps
  <2> QED BY <1>4, <2>1
<1> QED BY <1>1, <1>3, <1>4

LEMMA FailedWork ==
    ASSUME Base, FlushFailed, storeMu' = storeMu, remover' = remover, worker.pc # "saving"
    PROVE  WorkInv' /\ MuInv'
<1>1. WorkInv'
  BY FailedWorker DEF Base, WorkInv, InHand
<1>2. MuInv'
  BY FailedWorker DEF Base, MuInv
<1> QED BY <1>1, <1>2

LEMMA PickDeleteBase == ASSUME Base, NEW z \in Zones, PickDelete(z) PROVE Base'
<1>1. /\ worker' = [worker EXCEPT !.pc = "delete", !.zone = z] /\ z \in pendingDeletes
      /\ worker.pc \in {"pick", "forfeit"} /\ worker \in WorkerRecord
      /\ UNCHANGED <<live, queues, marks, revision, closing, storeMu, remover, tables, history>>
  BY DEF PickDelete, Picking, Base, TypeInv
<1>2. /\ worker' \in WorkerRecord /\ worker'.pc = "delete" /\ worker'.zone = z
      /\ worker'.isFinal = worker.isFinal /\ worker'.snapshot = worker.snapshot
  BY <1>1 DEF WorkerRecord, WorkerSteps
<1>3. MuInv'
  BY <1>1, <1>2 DEF Base, MuInv
<1>4. WorkInv'
  BY <1>1, <1>2 DEF Base, WorkInv, InHand, marks, closing, ManagerTypes
<1>5. MemberTypes'
  BY <1>1 DEF Base, MemberTypes, tables
<1> QED BY <1>1, <1>2, <1>3, <1>4, <1>5, KnownNow, WorkerStepBase DEF Base, TypeInv, ManagerTypes, queues, closing, tables

LEMMA PickSnapshotBase == ASSUME Base, NEW z \in Zones, PickSnapshot(z) PROVE Base'
<1>1. /\ worker' = [worker EXCEPT !.pc = "save", !.zone = z, !.snapshot = pendingSnapshots[z]]
      /\ pendingSnapshots' = [pendingSnapshots EXCEPT ![z] = None]
      /\ pendingSnapshots[z] \in Snapshot
      /\ worker.pc \in {"pick", "forfeit"} /\ worker \in WorkerRecord
      /\ UNCHANGED <<live, pendingDeletes, pendingForfeits, marks, revision, closing, storeMu, remover>>
      /\ UNCHANGED <<tables, history>>
  BY DEF PickSnapshot, Picking, Base, TypeInv
<1>2. /\ worker' \in WorkerRecord /\ worker'.pc = "save" /\ worker'.zone = z
      /\ worker'.isFinal = worker.isFinal /\ worker'.snapshot = pendingSnapshots[z]
  BY <1>1 DEF WorkerRecord, WorkerSteps
<1>3. MuInv'
  BY <1>1, <1>2 DEF Base, MuInv
<1>4. WorkInv'
  BY <1>1, <1>2 DEF Base, WorkInv, InHand, marks, closing
<1>5. MemberTypes'
  BY <1>1 DEF Base, MemberTypes, tables
<1>6. pendingSnapshots' \in [Zones -> Snapshot \cup {None}]
  BY <1>1 DEF Base, TypeInv
<1>7. \A y \in Zones : Known(pendingSnapshots'[y])
  BY <1>1, KnownNow DEF Known, Base, TypeInv
<1>8. \A y \in Zones : Known(row'[y])
  BY <1>1, KnownNow DEF tables
<1>9. Known(worker'.snapshot)
  BY <1>2, KnownNow
<1> QED BY <1>1, <1>2, <1>3, <1>4, <1>5, <1>6, <1>7, <1>8, <1>9, WorkerStepBase
        DEF Base, TypeInv, ManagerTypes, closing, tables
LEMMA SaveForfeitBase == ASSUME Base, NEW z \in Zones, SaveForfeit(z) PROVE Base'
<1>1. /\ worker.pc = "forfeit" /\ storeMu = None
      /\ UNCHANGED <<live, pendingSnapshots, pendingDeletes, marks, revision, storeMu, remover, history>>
      /\ \/ /\ worker' = worker /\ UNCHANGED closing
            /\ pendingForfeits' = pendingForfeits \ {z}
         \/ FlushFailed /\ UNCHANGED pendingForfeits
      /\ UNCHANGED tables \/ (row[z] # None /\ Written(Loaded(z), z))
  BY DEF SaveForfeit
<1>2. /\ worker' \in WorkerRecord /\ MuInv' /\ WorkInv'
      /\ closeErr' \in BOOLEAN /\ isClosing' = isClosing /\ Known(worker'.snapshot)
  <2>1. CASE worker' = worker /\ UNCHANGED closing
    BY <1>1, <2>1, KnownNow DEF closing, Base, TypeInv, ManagerTypes, MuInv, WorkInv, marks
  <2>2. CASE FlushFailed
    BY <1>1, <2>2, FailedWorker, FailedWork DEF Known
  <2> QED BY <1>1, <2>1, <2>2
<1>3. row' \in [Zones -> Snapshot \cup {None}] /\ MemberTypes' /\ \A y \in Zones : Known(row'[y])
  <2>1. CASE UNCHANGED tables
    BY <2>1, KnownNow DEF tables, Base, TypeInv, MemberTypes
  <2>2. CASE row[z] # None /\ Written(Loaded(z), z)
    <3>1. Loaded(z) \in Snapshot /\ Loaded(z).revision <= revision
      BY <2>2, LoadedRow, KnownNow DEF Known, Base
    <3> QED BY <2>2, <3>1, WrittenRow, KnownWritten DEF Base
  <2> QED BY <1>1, <2>1, <2>2
<1>4. \A y \in Zones : Known(pendingSnapshots'[y])
  BY <1>1, KnownNow
<1> QED BY <1>1, <1>2, <1>3, <1>4, WorkerStepBase DEF Base, TypeInv, ManagerTypes

LEMMA FlushDeleteBase == ASSUME Base, FlushDelete PROVE Base'
<1> DEFINE z == worker.zone
<1>1. /\ worker.pc = "delete" /\ storeMu = None /\ worker \in WorkerRecord
      /\ UNCHANGED <<live, pendingSnapshots, pendingForfeits, marks, revision, storeMu, remover, history>>
      /\ \/ /\ worker' = [worker EXCEPT !.pc = "pick", !.zone = None]
            /\ UNCHANGED closing
            /\ pendingDeletes' = pendingDeletes \ {z}
         \/ FlushFailed /\ UNCHANGED pendingDeletes
      /\ UNCHANGED tables \/ Deleted(z)
  BY DEF FlushDelete, Base, TypeInv
<1>2. /\ worker' \in WorkerRecord /\ MuInv' /\ WorkInv'
      /\ closeErr' \in BOOLEAN /\ isClosing' = isClosing /\ Known(worker'.snapshot)
  <2>1. CASE worker' = [worker EXCEPT !.pc = "pick", !.zone = None] /\ UNCHANGED closing
    <3>1. /\ worker' \in WorkerRecord /\ worker'.pc = "pick" /\ worker'.zone = None
          /\ worker'.isFinal = worker.isFinal /\ worker'.snapshot = worker.snapshot
      BY <1>1, <2>1 DEF WorkerRecord, WorkerSteps
    <3>2. WorkInv'
      BY <1>1, <2>1, <3>1 DEF Base, WorkInv, InHand, closing
    <3>3. MuInv'
      BY <1>1, <3>1 DEF Base, MuInv
    <3> QED BY <2>1, <3>1, <3>2, <3>3, KnownNow DEF closing, Base, ManagerTypes
  <2>2. CASE FlushFailed
    BY <1>1, <2>2, FailedWorker, FailedWork DEF Known
  <2> QED BY <1>1, <2>1, <2>2
<1>3. row' \in [Zones -> Snapshot \cup {None}] /\ MemberTypes' /\ \A y \in Zones : Known(row'[y])
  <2>1. CASE UNCHANGED tables
    BY <2>1, KnownNow DEF tables, Base, TypeInv, MemberTypes
  <2>2. CASE Deleted(z)
    <3>1. z \in Zones
      BY <1>1 DEF Base, WorkInv, ManagerTypes
    <3> QED BY <2>2, <3>1, DeletedRow, KnownDeleted DEF Base
  <2> QED BY <1>1, <2>1, <2>2
<1>4. \A y \in Zones : Known(pendingSnapshots'[y])
  BY <1>1, KnownNow
<1> QED BY <1>1, <1>2, <1>3, <1>4, WorkerStepBase DEF Base, TypeInv, ManagerTypes

LEMMA FlushSaveBase == ASSUME Base, FlushSave PROVE Base'
<1> DEFINE z == worker.zone
           cleaned == WithoutEquipment(worker.snapshot, forfeitedEquipments[z])
<1>1. /\ worker.pc = "save" /\ storeMu = None /\ worker \in WorkerRecord
      /\ UNCHANGED <<live, queues, marks, revision, closing, remover, tables, history>>
      /\ \/ /\ worker' = [worker EXCEPT !.pc = "pick", !.zone = None, !.snapshot = None, !.payload = None]
            /\ UNCHANGED storeMu
         \/ /\ worker' = [worker EXCEPT !.pc = "saving", !.payload = cleaned]
            /\ storeMu' = "worker"
  BY DEF FlushSave, Base, TypeInv
<1>2. worker' \in WorkerRecord /\ MuInv' /\ WorkInv' /\ Known(worker'.snapshot)
  <2>1. CASE /\ worker' = [worker EXCEPT !.pc = "pick", !.zone = None, !.snapshot = None, !.payload = None]
             /\ UNCHANGED storeMu
    <3>1. /\ worker' \in WorkerRecord /\ worker'.pc = "pick" /\ worker'.zone = None
          /\ worker'.isFinal = worker.isFinal /\ worker'.snapshot = None
      BY <1>1, <2>1 DEF WorkerRecord, WorkerSteps
    <3>2. WorkInv'
      BY <1>1, <3>1 DEF Base, WorkInv, InHand, closing
    <3>3. MuInv'
      BY <1>1, <2>1, <3>1 DEF Base, MuInv
    <3> QED BY <3>1, <3>2, <3>3 DEF Known
  <2>2. CASE worker' = [worker EXCEPT !.pc = "saving", !.payload = cleaned] /\ storeMu' = "worker"
    <3>1. worker.snapshot \in Snapshot /\ z \in Zones
      BY <1>1 DEF Base, WorkInv, InHand
    <3>2. cleaned \in Snapshot /\ Same(cleaned, worker.snapshot)
      BY <3>1, SnapshotParts, EquipmentGone DEF Same
    <3> HIDE DEF cleaned
    <3>3. /\ worker' \in WorkerRecord /\ worker'.pc = "saving" /\ worker'.zone = z
          /\ worker'.payload = cleaned
          /\ worker'.isFinal = worker.isFinal /\ worker'.snapshot = worker.snapshot
      BY <1>1, <2>2, <3>2 DEF WorkerRecord, WorkerSteps
    <3>4. WorkInv'
      BY <1>1, <3>1, <3>2, <3>3 DEF Base, WorkInv, InHand, closing, Same
    <3>5. MuInv'
      BY <1>1, <2>2, <3>3, CheckpointAssumption DEF Base, MuInv
    <3> QED BY <3>3, <3>4, <3>5, KnownNow
  <2> QED BY <1>1, <2>1, <2>2
<1>3. MemberTypes'
  BY <1>1 DEF Base, MemberTypes, tables
<1> QED BY <1>1, <1>2, <1>3, KnownNow, WorkerStepBase DEF Base, TypeInv, ManagerTypes, queues, closing, tables

LEMMA FlushSavedBase == ASSUME Base, FlushSaved PROVE Base'
<1> DEFINE z == worker.zone
<1>1. /\ worker.pc = "saving" /\ storeMu' = None /\ worker \in WorkerRecord
      /\ UNCHANGED <<live, queues, marks, revision, closing, remover, history>>
      /\ \/ worker' = [worker EXCEPT !.pc = "pick", !.zone = None, !.snapshot = None, !.payload = None]
         \/ worker' = [worker EXCEPT !.pc = "putback"]
      /\ UNCHANGED tables \/ Written(worker.payload, z)
  BY DEF FlushSaved, Base, TypeInv
<1>2. /\ z \in Zones /\ worker.snapshot \in Snapshot /\ worker.payload \in Snapshot
      /\ worker.payload.revision = worker.snapshot.revision
  BY <1>1 DEF Base, WorkInv, InHand
<1>3. /\ worker' \in WorkerRecord /\ worker'.pc \in {"pick", "putback"}
      /\ worker'.isFinal = worker.isFinal
      /\ worker'.pc = "pick" => worker'.snapshot = None /\ worker'.zone = None
      /\ worker'.pc = "putback" => worker'.snapshot = worker.snapshot /\ worker'.zone = z
  BY <1>1 DEF WorkerRecord, WorkerSteps
<1>4. WorkInv'
  BY <1>1, <1>2, <1>3 DEF Base, WorkInv, InHand, closing
<1>5. MuInv'
  BY <1>1, <1>3, CheckpointAssumption DEF Base, MuInv
<1>6. row' \in [Zones -> Snapshot \cup {None}] /\ MemberTypes' /\ \A y \in Zones : Known(row'[y])
  <2>1. CASE UNCHANGED tables
    BY <2>1, KnownNow DEF tables, Base, TypeInv, MemberTypes
  <2>2. CASE Written(worker.payload, z)
    <3>1. worker.payload.revision <= revision
      BY <1>2, KnownNow, NoneAssumption DEF Known
    <3> QED BY <2>2, <3>1, <1>2, WrittenRow, KnownWritten DEF Base
  <2> QED BY <1>1, <2>1, <2>2
<1>7. Known(worker'.snapshot)
  BY <1>3, KnownNow DEF Known
<1> QED BY <1>1, <1>3, <1>4, <1>5, <1>6, <1>7, KnownNow, WorkerStepBase
        DEF Base, TypeInv, ManagerTypes, queues, closing

LEMMA PutBackBase == ASSUME Base, PutBack PROVE Base'
<1> DEFINE z == worker.zone
<1>1. /\ worker.pc = "putback" /\ FlushFailed
      /\ \/ pendingSnapshots' = pendingSnapshots
         \/ pendingSnapshots' = [pendingSnapshots EXCEPT ![z] = worker.snapshot]
      /\ UNCHANGED <<live, pendingDeletes, pendingForfeits, marks, revision, storeMu, remover>>
      /\ UNCHANGED <<tables, history>>
  BY DEF PutBack
<1>2. z \in Zones /\ worker.snapshot \in Snapshot
  BY <1>1 DEF Base, WorkInv, InHand
<1>3. pendingSnapshots' \in [Zones -> Snapshot \cup {None}]
  BY <1>1, <1>2 DEF Base, TypeInv
<1>4. \A y \in Zones : Known(pendingSnapshots'[y])
  BY <1>1, <1>2, KnownNow DEF Known, Base, TypeInv
<1>5. /\ worker' \in WorkerRecord /\ MuInv' /\ WorkInv'
      /\ closeErr' \in BOOLEAN /\ isClosing' = isClosing /\ Known(worker'.snapshot)
  BY <1>1, FailedWorker, FailedWork DEF Known
<1>6. MemberTypes'
  BY <1>1 DEF Base, MemberTypes, tables
<1>7. \A y \in Zones : Known(row'[y])
  BY <1>1, KnownNow DEF tables
<1> QED BY <1>1, <1>3, <1>4, <1>5, <1>6, <1>7, WorkerStepBase DEF Base, TypeInv, ManagerTypes, tables
\* What a step of a removal, which leaves the worker alone, has to keep.
LEMMA RemovalStepBase ==
    ASSUME Base, ZoneTypes', ManagerTypes', MemberTypes',
           UNCHANGED <<isClosing, worker>>,
           pendingSnapshots' \in [Zones -> Snapshot \cup {None}],
           row' \in [Zones -> Snapshot \cup {None}],
           IsRemoval(remover'), MuInv', RemovalInv',
           discardedZones \subseteq discardedZones', revision <= revision',
           \A z \in Zones : \/ Known(row'[z])
                            \/ row'[z].revision <= revision',
           \A z \in Zones : Known(pendingSnapshots'[z]),
           remover'.pc \in {"mark", "stamp", "save", "saving"} => remover'.snapshot.revision <= revision'
    PROVE  Base'
<1>1. TypeInv'
  BY DEF Base, TypeInv
<1>2. WorkInv'
  BY DEF Base, WorkInv
<1>3. RevInv'
  <2>1. \A n \in Nat : n <= revision => n <= revision'
    BY DEF Base, ManagerTypes
  <2>2. \A s \in Snapshot : s.revision \in Nat
    BY SnapshotParts
  <2>3. /\ \A z \in Zones : row'[z] # None => row'[z] \in Snapshot
        /\ \A z \in Zones : pendingSnapshots'[z] # None => pendingSnapshots'[z] \in Snapshot
        /\ worker.snapshot # None => worker.snapshot \in Snapshot
    BY DEF Base, TypeInv, WorkerRecord
  <2> QED BY <2>1, <2>2, <2>3, KnownNow DEF RevInv, Known
<1> QED BY <1>1, <1>2, <1>3 DEF Base

LEMMA Ended ==
    ASSUME Base, remover.pc # "idle", NEW answer, Ends(answer)
    PROVE  /\ IsRemoval(remover') /\ remover'.pc \in {"idle", "leave"}
           /\ remover'.pc = "idle" => remover'.zone = None
           /\ remover'.pc = "leave" => remover'.zone = remover.zone /\ remover'.user = remover.user
<1>1. CASE remover' = NoRemoval
  BY <1>1 DEF NoRemoval, IsRemoval, RemoverSteps
<1>2. CASE remover' = [remover EXCEPT !.pc = "leave", !.snapshot = None, !.remaining = answer]
  <2>1. IsRemoval(remover)
    BY DEF Base, TypeInv
  <2>2. /\ remover' = [pc |-> "leave", zone |-> remover.zone, user |-> remover.user,
                       snapshot |-> None, remaining |-> answer]
    BY <1>2, <2>1 DEF IsRemoval
  <2> QED BY <2>1, <2>2 DEF IsRemoval, RemoverSteps
<1> QED BY <1>1, <1>2 DEF Ends

LEMMA EndedRemoval ==
    ASSUME Base, remover.pc # "idle", NEW answer, Ends(answer), exposed' = exposed
    PROVE  RemovalInv'
<1>1. remover.zone \in Zones \cap exposed /\ remover.user \in Users
  BY DEF Base, RemovalInv
<1> QED BY <1>1, Ended DEF RemovalInv

LEMMA RemoveBeginBase == ASSUME Base, NEW z \in Zones, NEW u \in Users, RemoveBegin(z, u) PROVE Base'
<1>1. /\ remover' = [NoRemoval EXCEPT !.pc = "load", !.zone = z, !.user = u]
      /\ exposed' = exposed \cup {z} /\ remover.pc = "idle"
      /\ UNCHANGED <<live, closing, worker, accepted, queues, marks, revision, storeMu, tables>>
  BY DEF RemoveBegin, RemovalStays
<1>2. remover' = [pc |-> "load", zone |-> z, user |-> u, snapshot |-> None, remaining |-> 0]
  BY <1>1 DEF NoRemoval
<1>3. IsRemoval(remover') /\ RemovalInv'
  <2>1. IsRemoval(remover')
    BY <1>2 DEF IsRemoval, RemoverSteps
  <2>2. remover'.pc = "load" /\ remover'.zone = z /\ remover'.user = u /\ z \in exposed'
    BY <1>1, <1>2
  <2> QED BY <2>1, <2>2 DEF RemovalInv
<1>4. MuInv'
  BY <1>1, <1>2 DEF Base, MuInv
<1>5. ZoneTypes' /\ ManagerTypes' /\ MemberTypes'
  BY <1>1 DEF Base, ZoneTypes, ManagerTypes, MemberTypes, live, closing, queues, marks, tables
<1>6. revision \in Nat
  BY DEF Base, ManagerTypes
<1> QED BY <1>1, <1>2, <1>3, <1>4, <1>5, <1>6, KnownNow, RemovalStepBase
        DEF Base, TypeInv, closing, queues, marks, tables

\* RemoveLoad and RemoveRead: the removal goes on from a snapshot, or ends.
LEMMA Proceeded ==
    ASSUME Base, remover.pc # "idle", exposed' = exposed, NEW s \in Snapshot \cup {None}, Proceed(s)
    PROVE  /\ IsRemoval(remover') /\ RemovalInv'
           /\ remover'.pc \in {"mark", "idle", "leave"}
           /\ remover'.pc # "idle" => remover'.zone = remover.zone /\ remover'.user = remover.user
           /\ remover'.pc = "idle" => remover'.zone = None
           /\ remover'.pc = "mark" => /\ s # None /\ remover'.snapshot = s
                                      /\ remover.user \in s.members
<1>1. CASE Ends(0) \/ Ends(Cardinality(s.members))
  BY <1>1, Ended, EndedRemoval
<1>2. CASE /\ remover' = [remover EXCEPT !.pc = "mark", !.snapshot = s]
           /\ s # None /\ remover.user \in s.members
  <2>1. IsRemoval(remover) /\ remover.zone \in Zones \cap exposed /\ remover.user \in Users
    BY DEF Base, TypeInv, RemovalInv
  <2>2. s \in Snapshot /\ s \in AnySnapshot
    BY <1>2, SnapshotParts
  <2>3. /\ IsRemoval(remover') /\ remover'.pc = "mark" /\ remover'.snapshot = s
        /\ remover'.zone = remover.zone /\ remover'.user = remover.user
    <3>1. remover' = [pc |-> "mark", zone |-> remover.zone, user |-> remover.user,
                      snapshot |-> s, remaining |-> remover.remaining]
      BY <1>2, <2>1 DEF IsRemoval
    <3> QED BY <2>1, <2>2, <3>1 DEF IsRemoval, RemoverSteps
  <2> QED BY <1>2, <2>1, <2>2, <2>3 DEF RemovalInv
<1> QED BY <1>1, <1>2 DEF Proceed

LEMMA RemoveLoadBase == ASSUME Base, RemoveLoad PROVE Base'
<1> DEFINE z == remover.zone
<1>1. /\ remover.pc = "load" /\ IsRemoval(remover)
      /\ \/ Proceed(None)
         \/ pendingSnapshots[z] # None /\ Proceed(pendingSnapshots[z])
         \/ remover' = [remover EXCEPT !.pc = "read"]
      /\ UNCHANGED <<live, closing, worker, accepted, queues, marks, revision, storeMu, tables, exposed>>
  BY DEF RemoveLoad, RemovalStays, Base, TypeInv
<1>2. z \in Zones \cap exposed /\ remover.user \in Users
  BY <1>1 DEF Base, RemovalInv
<1>3. /\ IsRemoval(remover') /\ RemovalInv' /\ remover'.pc \notin {"stamp", "save", "saving"}
      /\ remover'.pc = "mark" => remover'.snapshot.revision <= revision
  <2>1. CASE Proceed(None)
    BY <1>1, <2>1, Proceeded
  <2>2. CASE pendingSnapshots[z] # None /\ Proceed(pendingSnapshots[z])
    <3>1. pendingSnapshots[z] \in Snapshot \cup {None} /\ Known(pendingSnapshots[z])
      BY <1>2, KnownNow DEF Base, TypeInv
    <3> QED BY <1>1, <2>2, <3>1, Proceeded DEF Known
  <2>3. CASE remover' = [remover EXCEPT !.pc = "read"]
    <3>1. remover' = [pc |-> "read", zone |-> remover.zone, user |-> remover.user,
                      snapshot |-> remover.snapshot, remaining |-> remover.remaining]
      BY <1>1, <2>3 DEF IsRemoval
    <3> QED BY <1>1, <1>2, <3>1 DEF IsRemoval, RemovalInv, RemoverSteps
  <2> QED BY <1>1, <2>1, <2>2, <2>3
<1>4. MuInv'
  BY <1>1, <1>3 DEF Base, MuInv
<1>5. ZoneTypes' /\ ManagerTypes' /\ MemberTypes'
  BY <1>1 DEF Base, ZoneTypes, ManagerTypes, MemberTypes, live, closing, queues, marks, tables
<1>6. revision \in Nat
  BY DEF Base, ManagerTypes
<1> QED BY <1>1, <1>3, <1>4, <1>5, <1>6, KnownNow, RemovalStepBase
        DEF Base, TypeInv, closing, queues, marks, tables

LEMMA RemoveReadBase == ASSUME Base, RemoveRead PROVE Base'
<1> DEFINE z == remover.zone
<1>1. /\ remover.pc = "read" /\ IsRemoval(remover)
      /\ Proceed(Loaded(z)) \/ Ends(None)
      /\ UNCHANGED <<live, closing, worker, accepted, queues, marks, revision, storeMu, tables, exposed>>
  BY DEF RemoveRead, RemovalStays, Base, TypeInv
<1>2. z \in Zones
  BY <1>1 DEF Base, RemovalInv
<1>3. /\ IsRemoval(remover') /\ RemovalInv' /\ remover'.pc \notin {"stamp", "save", "saving"}
      /\ remover'.pc = "mark" => remover'.snapshot.revision <= revision
  <2>1. CASE Proceed(Loaded(z))
    <3>1. Loaded(z) \in Snapshot \cup {None} /\ Known(Loaded(z))
      BY <1>2, LoadedRow, KnownNow DEF Base, Known
    <3> QED BY <1>1, <2>1, <3>1, Proceeded DEF Known
  <2>2. CASE Ends(None)
    BY <1>1, <2>2, Ended, EndedRemoval
  <2> QED BY <1>1, <2>1, <2>2
<1>4. MuInv'
  BY <1>1, <1>3 DEF Base, MuInv
<1>5. ZoneTypes' /\ ManagerTypes' /\ MemberTypes'
  BY <1>1 DEF Base, ZoneTypes, ManagerTypes, MemberTypes, live, closing, queues, marks, tables
<1>6. revision \in Nat
  BY DEF Base, ManagerTypes
<1> QED BY <1>1, <1>3, <1>4, <1>5, <1>6, KnownNow, RemovalStepBase
        DEF Base, TypeInv, closing, queues, marks, tables
\* The fields of a removal after a step that changes one or two of them.
LEMMA Stepped ==
    ASSUME Base, NEW pc \in RemoverSteps, NEW s \in AnySnapshot \cup {None},
           remover' = [remover EXCEPT !.pc = pc, !.snapshot = s]
    PROVE  /\ IsRemoval(remover') /\ remover'.pc = pc /\ remover'.snapshot = s
           /\ remover'.zone = remover.zone /\ remover'.user = remover.user
<1>1. IsRemoval(remover)
  BY DEF Base, TypeInv
<1>2. remover' = [pc |-> pc, zone |-> remover.zone, user |-> remover.user,
                  snapshot |-> s, remaining |-> remover.remaining]
  BY <1>1 DEF IsRemoval
<1> QED BY <1>1, <1>2 DEF IsRemoval

\* The step of a removal that takes the member out, or discards the zone.
LEMMA MarkedRemoval ==
    ASSUME Base, RemoveMark
    PROVE  LET s == WithoutMembers(remover.snapshot, {remover.user})
           IN  /\ remover.snapshot \in Snapshot
               /\ s \in AnySnapshot /\ s.revision = remover.snapshot.revision
               /\ s.members = remover.snapshot.members \ {remover.user}
               /\ IsRemoval(remover') /\ remover'.snapshot = s
               /\ remover'.zone = remover.zone /\ remover'.user = remover.user
               /\ \/ remover'.pc = "discard"
                  \/ remover'.pc = "stamp" /\ s \in Snapshot
<1> DEFINE s == WithoutMembers(remover.snapshot, {remover.user})
           pc == IF s.members = {} THEN "discard" ELSE "stamp"
<1>1. remover.snapshot \in Snapshot
  BY DEF RemoveMark, Base, RemovalInv
<1>2. /\ s \in AnySnapshot /\ s.revision = remover.snapshot.revision
      /\ s.members = remover.snapshot.members \ {remover.user}
      /\ s.members # {} => s \in Snapshot
  BY <1>1, SnapshotParts, MembersGone
<1>3. remover' = [remover EXCEPT !.snapshot = s, !.pc = pc]
  BY DEF RemoveMark
<1> HIDE DEF s
<1>4. IsRemoval(remover)
  BY DEF Base, TypeInv
<1>5. remover' = [pc |-> pc, zone |-> remover.zone, user |-> remover.user,
                  snapshot |-> s, remaining |-> remover.remaining]
  BY <1>3, <1>4 DEF IsRemoval
<1>6. /\ IsRemoval(remover') /\ remover'.snapshot = s /\ remover'.pc = pc
      /\ remover'.zone = remover.zone /\ remover'.user = remover.user
  BY <1>2, <1>4, <1>5 DEF IsRemoval, RemoverSteps
<1> QED BY <1>1, <1>2, <1>6 DEF s

LEMMA RemoveMarkBase == ASSUME Base, RemoveMark PROVE Base'
<1> DEFINE z == remover.zone
<1>1. /\ remover.pc = "mark"
      /\ declinedMembers' = [declinedMembers EXCEPT ![z] = declinedMembers[z] \cup {remover.user}]
      /\ pendingSnapshots' = [pendingSnapshots EXCEPT ![z] = None]
      /\ UNCHANGED <<live, closing, worker, accepted, pendingDeletes, pendingForfeits, discardedZones>>
      /\ UNCHANGED <<forfeitedEquipments, revision, storeMu, tables, exposed>>
  BY DEF RemoveMark, RemovalStays
<1>2. z \in Zones /\ z \in exposed /\ remover.user \in Users
  BY <1>1 DEF Base, RemovalInv
<1>3. /\ IsRemoval(remover') /\ remover'.zone = z /\ remover'.user = remover.user
      /\ remover'.snapshot.revision = remover.snapshot.revision
      /\ \/ remover'.pc = "discard"
         \/ remover'.pc = "stamp" /\ remover'.snapshot \in Snapshot
  BY MarkedRemoval
<1>4. MuInv'
  BY <1>1, <1>3 DEF Base, MuInv
<1>5. RemovalInv'
  BY <1>1, <1>2, <1>3 DEF RemovalInv
<1>6. ZoneTypes' /\ MemberTypes'
  BY <1>1 DEF Base, ZoneTypes, MemberTypes, live, tables
<1>7. ManagerTypes'
  BY <1>1, <1>2 DEF Base, ManagerTypes, closing
<1>8. pendingSnapshots' \in [Zones -> Snapshot \cup {None}] /\ \A y \in Zones : Known(pendingSnapshots'[y])
  BY <1>1, KnownNow DEF Base, TypeInv, Known
<1>9. revision \in Nat /\ remover.snapshot.revision <= revision
  BY <1>1 DEF Base, ManagerTypes, RevInv
<1> QED BY <1>1, <1>3, <1>4, <1>5, <1>6, <1>7, <1>8, <1>9, KnownNow, RemovalStepBase
        DEF Base, TypeInv, closing, tables

LEMMA StampedRemoval ==
    ASSUME Base, RemoveStamp
    PROVE  /\ IsRemoval(remover') /\ remover'.pc = "save" /\ remover'.snapshot \in Snapshot
           /\ remover'.zone = remover.zone /\ remover'.user = remover.user
           /\ remover'.snapshot.revision = revision + 1 /\ revision' = revision + 1
           /\ remover'.snapshot.members = remover.snapshot.members
<1>1. remover' = [remover EXCEPT !.pc = "save", !.snapshot.revision = revision + 1]
  BY DEF RemoveStamp
<1>2. remover.snapshot \in Snapshot /\ IsRemoval(remover) /\ revision \in Nat
  BY DEF RemoveStamp, Base, RemovalInv, TypeInv, ManagerTypes
<1> DEFINE s == [remover.snapshot EXCEPT !.revision = revision + 1]
<1>3. s = [stage |-> remover.snapshot.stage, revision |-> revision + 1,
           members |-> remover.snapshot.members, loot |-> remover.snapshot.loot]
  BY <1>2 DEF Snapshot
<1>4. s \in Snapshot /\ s.revision = revision + 1 /\ s.members = remover.snapshot.members
  BY <1>2, <1>3 DEF Snapshot
<1>5. remover' = [pc |-> "save", zone |-> remover.zone, user |-> remover.user,
                  snapshot |-> s, remaining |-> remover.remaining]
  BY <1>1, <1>2 DEF IsRemoval
<1> HIDE DEF s
<1>6. s \in AnySnapshot
  BY <1>4, SnapshotParts
<1>7. revision' = revision + 1
  BY DEF RemoveStamp
<1>8. remover'.pc = "save" /\ remover'.snapshot = s /\ remover'.zone = remover.zone
      /\ remover'.user = remover.user /\ remover'.remaining = remover.remaining
  BY <1>5
<1>9. IsRemoval(remover')
  BY <1>2, <1>5, <1>6, <1>8 DEF IsRemoval, RemoverSteps
<1> QED BY <1>4, <1>7, <1>8, <1>9

LEMMA RemoveStampBase == ASSUME Base, RemoveStamp PROVE Base'
<1>1. /\ remover.pc = "stamp"
      /\ UNCHANGED <<live, closing, worker, accepted, queues, marks, storeMu, tables, exposed>>
  BY DEF RemoveStamp, RemovalStays
<1>2. remover.zone \in Zones \cap exposed /\ remover.user \in Users /\ revision \in Nat
  BY <1>1 DEF Base, RemovalInv, ManagerTypes
<1>3. MuInv' /\ RemovalInv'
  BY <1>1, <1>2, StampedRemoval DEF Base, MuInv, RemovalInv
<1>4. ZoneTypes' /\ MemberTypes'
  BY <1>1 DEF Base, ZoneTypes, MemberTypes, live, tables
<1>5. ManagerTypes'
  BY <1>1, <1>2, StampedRemoval DEF Base, ManagerTypes, closing, queues, marks
<1>6. revision <= revision' /\ remover'.snapshot.revision <= revision'
  BY <1>2, StampedRemoval
<1> QED BY <1>1, <1>3, <1>4, <1>5, <1>6, StampedRemoval, KnownNow, RemovalStepBase
        DEF Base, TypeInv, closing, queues, marks, tables

\* A removal that fails gives the declined member back.
LEMMA Readmitted ==
    ASSUME Base, remover.pc # "idle", restoreDeclinedMember
    PROVE  declinedMembers' \in [Zones -> SUBSET Users]
  BY DEF restoreDeclinedMember, Base, RemovalInv, ManagerTypes

LEMMA SavingRemoval ==
    ASSUME Base, RemoveSave, remover.zone \notin discardedZones
    PROVE  /\ IsRemoval(remover') /\ remover'.pc = "saving" /\ remover'.snapshot \in Snapshot
           /\ remover'.zone = remover.zone /\ remover'.user = remover.user
           /\ remover'.snapshot.revision = remover.snapshot.revision
           /\ remover'.snapshot.members = remover.snapshot.members
           /\ remover'.snapshot.loot \cap forfeitedEquipments[remover.zone] = {}
           /\ storeMu' = "remover" /\ declinedMembers' = declinedMembers
<1> DEFINE s == WithoutEquipment(remover.snapshot, forfeitedEquipments[remover.zone])
<1>1. remover.snapshot \in Snapshot /\ IsRemoval(remover)
  BY DEF RemoveSave, Base, RemovalInv, TypeInv
<1>2. /\ s \in Snapshot /\ s.revision = remover.snapshot.revision
      /\ s.members = remover.snapshot.members
      /\ s.loot \cap forfeitedEquipments[remover.zone] = {}
  BY <1>1, SnapshotParts, EquipmentGone
<1>3. remover' = [remover EXCEPT !.pc = "saving", !.snapshot = s]
  BY DEF RemoveSave
<1> HIDE DEF s
<1>4. "saving" \in RemoverSteps /\ s \in AnySnapshot \cup {None}
  BY <1>2, SnapshotParts DEF RemoverSteps
<1> QED BY ZenonT(40), <1>2, <1>3, <1>4, Stepped DEF RemoveSave

LEMMA RemoveSaveBase == ASSUME Base, RemoveSave PROVE Base'
<1>1. /\ remover.pc = "save" /\ storeMu = None
      /\ UNCHANGED <<live, closing, worker, accepted, queues, discardedZones, forfeitedEquipments>>
      /\ UNCHANGED <<revision, tables, exposed>>
  BY DEF RemoveSave, RemovalStays
<1>2. /\ remover.zone \in Zones \cap exposed /\ remover.user \in Users
      /\ revision \in Nat /\ remover.snapshot.revision <= revision
  BY <1>1 DEF Base, RemovalInv, ManagerTypes, RevInv
<1>3. /\ IsRemoval(remover') /\ RemovalInv' /\ MuInv'
      /\ declinedMembers' \in [Zones -> SUBSET Users]
      /\ remover'.pc \notin {"mark", "stamp", "save"}
      /\ remover'.pc = "saving" => remover'.snapshot.revision <= revision
  <2>1. CASE remover.zone \in discardedZones
    <3>1. Ends(None) /\ restoreDeclinedMember /\ storeMu' = storeMu
      BY <2>1 DEF RemoveSave
    <3>2. MuInv'
      BY <1>1, <3>1, Ended DEF Base, MuInv
    <3> QED BY <1>1, <3>1, <3>2, Ended, EndedRemoval, Readmitted
  <2>2. CASE remover.zone \notin discardedZones
    <3>1. MuInv' /\ RemovalInv'
      BY <1>1, <1>2, <2>2, SavingRemoval, CheckpointAssumption DEF Base, MuInv, RemovalInv
    <3> QED BY <1>2, <2>2, <3>1, SavingRemoval DEF Base, ManagerTypes
  <2> QED BY <2>1, <2>2
<1>4. ZoneTypes' /\ MemberTypes'
  BY <1>1 DEF Base, ZoneTypes, MemberTypes, live, tables
<1>5. ManagerTypes'
  BY <1>1, <1>3 DEF Base, ManagerTypes, closing, queues
<1>6. revision <= revision'
  BY <1>1, <1>2
<1> QED BY <1>1, <1>2, <1>3, <1>4, <1>5, <1>6, KnownNow, RemovalStepBase
        DEF Base, TypeInv, closing, queues, tables
LEMMA RemoveSavedBase == ASSUME Base, RemoveSaved PROVE Base'
<1> DEFINE z == remover.zone
<1>1. /\ remover.pc = "saving" /\ storeMu' = None
      /\ Ends(Cardinality(remover.snapshot.members)) \/ Ends(None)
      /\ UNCHANGED declinedMembers \/ restoreDeclinedMember
      /\ UNCHANGED tables \/ Written(remover.snapshot, z)
      /\ UNCHANGED <<live, closing, worker, accepted, queues, discardedZones, forfeitedEquipments>>
      /\ UNCHANGED <<revision, exposed>>
  BY DEF RemoveSaved, RemovalStays
<1>2. /\ z \in Zones /\ remover.snapshot \in Snapshot
      /\ revision \in Nat /\ remover.snapshot.revision <= revision
  BY <1>1 DEF Base, RemovalInv, ManagerTypes, RevInv
<1>3. IsRemoval(remover') /\ RemovalInv' /\ remover'.pc \in {"idle", "leave"}
  BY <1>1, Ended, EndedRemoval
<1>4. MuInv'
  <2>1. worker.pc # "saving"
    BY <1>1 DEF Base, MuInv
  <2> QED BY <1>1, <1>3, <2>1, CheckpointAssumption DEF MuInv
<1>5. ZoneTypes'
  BY <1>1 DEF Base, ZoneTypes, live
<1>6. declinedMembers' \in [Zones -> SUBSET Users]
  BY <1>1, Readmitted DEF Base, ManagerTypes
<1>7. ManagerTypes'
  BY <1>1, <1>6 DEF Base, ManagerTypes, closing, queues
<1>8. row' \in [Zones -> Snapshot \cup {None}] /\ MemberTypes' /\ \A y \in Zones : Known(row'[y])
  <2>1. CASE UNCHANGED tables
    BY <2>1, KnownNow DEF tables, Base, TypeInv, MemberTypes
  <2>2. CASE Written(remover.snapshot, z)
    BY <1>2, <2>2, WrittenRow, KnownWritten DEF Base
  <2> QED BY <1>1, <2>1, <2>2
<1> QED BY <1>1, <1>2, <1>3, <1>4, <1>5, <1>7, <1>8, KnownNow, RemovalStepBase
        DEF Base, TypeInv, closing, queues

LEMMA RemoveDiscardBase == ASSUME Base, RemoveDiscard PROVE Base'
<1>1. /\ remover.pc = "discard" /\ markDiscarded(remover.zone)
      /\ remover' = [remover EXCEPT !.pc = "delete"]
      /\ UNCHANGED <<live, closing, worker, accepted, pendingForfeits, declinedMembers>>
      /\ UNCHANGED <<forfeitedEquipments, revision, storeMu, tables, exposed>>
  BY DEF RemoveDiscard, RemovalStays
<1>2. /\ remover.zone \in Zones /\ remover.zone \in exposed /\ remover.user \in Users
      /\ IsRemoval(remover) /\ revision \in Nat
  BY <1>1 DEF Base, RemovalInv, TypeInv, ManagerTypes
<1>3. /\ IsRemoval(remover') /\ remover'.pc = "delete"
      /\ remover'.zone = remover.zone /\ remover'.user = remover.user
  <2>1. remover' = [pc |-> "delete", zone |-> remover.zone, user |-> remover.user,
                    snapshot |-> remover.snapshot, remaining |-> remover.remaining]
    BY <1>1, <1>2 DEF IsRemoval
  <2> QED BY <1>2, <2>1 DEF IsRemoval, RemoverSteps
<1>4. MuInv' /\ RemovalInv'
  BY <1>1, <1>2, <1>3 DEF Base, MuInv, RemovalInv, markDiscarded
<1>5. ZoneTypes' /\ MemberTypes'
  BY <1>1 DEF Base, ZoneTypes, MemberTypes, live, tables
<1>6. ManagerTypes'
  BY <1>1, <1>2, MarkedKeeps DEF Base, ManagerTypes, closing
<1>7. \A y \in Zones : Known(pendingSnapshots'[y])
  BY <1>1, <1>2, MarkedKeeps, KnownNow DEF Known
<1> QED BY <1>1, <1>2, <1>3, <1>4, <1>5, <1>6, <1>7, MarkedKeeps, KnownNow, RemovalStepBase
        DEF Base, TypeInv, closing, tables

LEMMA RemoveDeleteBase == ASSUME Base, RemoveDelete PROVE Base'
<1> DEFINE z == remover.zone
<1>1. /\ remover.pc = "delete" /\ storeMu = None
      /\ Ends(0) \/ Ends(None)
      /\ UNCHANGED declinedMembers \/ restoreDeclinedMember
      /\ UNCHANGED pendingDeletes \/ pendingDeletes' = pendingDeletes \ {z}
      /\ UNCHANGED tables \/ Deleted(z)
      /\ UNCHANGED <<live, closing, worker, accepted, pendingSnapshots, pendingForfeits, discardedZones>>
      /\ UNCHANGED <<forfeitedEquipments, revision, storeMu, exposed>>
  BY DEF RemoveDelete
<1>2. z \in Zones /\ revision \in Nat
  BY <1>1 DEF Base, RemovalInv, ManagerTypes
<1>3. IsRemoval(remover') /\ RemovalInv' /\ remover'.pc \in {"idle", "leave"}
  BY <1>1, Ended, EndedRemoval
<1>4. MuInv'
  BY <1>1, <1>3 DEF Base, MuInv
<1>5. ZoneTypes'
  BY <1>1 DEF Base, ZoneTypes, live
<1>6. declinedMembers' \in [Zones -> SUBSET Users]
  BY <1>1, Readmitted DEF Base, ManagerTypes
<1>7. ManagerTypes'
  BY <1>1, <1>6 DEF Base, ManagerTypes, closing
<1>8. row' \in [Zones -> Snapshot \cup {None}] /\ MemberTypes' /\ \A y \in Zones : Known(row'[y])
  <2>1. CASE UNCHANGED tables
    BY <2>1, KnownNow DEF tables, Base, TypeInv, MemberTypes
  <2>2. CASE Deleted(z)
    BY <1>2, <2>2, DeletedRow, KnownDeleted DEF Base
  <2> QED BY <1>1, <2>1, <2>2
<1> QED BY <1>1, <1>2, <1>3, <1>4, <1>5, <1>7, <1>8, KnownNow, RemovalStepBase
        DEF Base, TypeInv, closing

LEMMA RemoveLeaveBase == ASSUME Base, RemoveLeave PROVE Base'
<1> DEFINE z == remover.zone
<1>1. /\ remover.pc = "leave" /\ remover' = NoRemoval
      /\ crew' = [crew EXCEPT ![z] = crew[z] \ {remover.user}]
      /\ \/ markDiscarded(z) /\ UNCHANGED <<loot, forfeitedEquipments, pendingForfeits>>
         \/ Forfeited(z, remover.user) /\ UNCHANGED <<discardedZones, pendingDeletes>>
         \/ /\ UNCHANGED <<loot, forfeitedEquipments, pendingForfeits, pendingSnapshots>>
            /\ UNCHANGED <<discardedZones, pendingDeletes>>
      /\ UNCHANGED <<stage, captures, declinedMembers, revision, closing, storeMu, worker, tables>>
      /\ UNCHANGED <<accepted, exposed>>
  BY DEF RemoveLeave, history
<1>2. z \in Zones /\ remover.user \in Users /\ revision \in Nat
  BY <1>1 DEF Base, RemovalInv, ManagerTypes
<1>3. IsRemoval(remover') /\ RemovalInv' /\ remover'.pc = "idle"
  BY <1>1 DEF NoRemoval, IsRemoval, RemovalInv, RemoverSteps
<1>4. MuInv' /\ MemberTypes'
  BY <1>1, <1>3 DEF Base, MuInv, MemberTypes, tables
<1>5. /\ loot' \in [Zones -> SUBSET Users]
      /\ ManagerTypes' /\ discardedZones \subseteq discardedZones'
      /\ pendingSnapshots' \in [Zones -> Snapshot \cup {None}]
      /\ \A y \in Zones : Known(pendingSnapshots'[y])
  <2>1. CASE markDiscarded(z) /\ UNCHANGED <<loot, forfeitedEquipments, pendingForfeits>>
    <3>1. ManagerTypes'
      BY <1>1, <1>2, <2>1, MarkedKeeps DEF Base, ManagerTypes, closing
    <3> QED BY <1>2, <2>1, <3>1, MarkedKeeps, KnownNow DEF Base, ZoneTypes, Known
  <2>2. CASE Forfeited(z, remover.user) /\ UNCHANGED <<discardedZones, pendingDeletes>>
    <3>1. ManagerTypes'
      BY <1>1, <1>2, <2>2, ForfeitedKeeps DEF Base, ManagerTypes, closing
    <3>2. \A y \in Zones : Known(pendingSnapshots'[y])
      BY <1>2, <2>2, ForfeitedKeeps, KnownNow DEF Same, Known
    <3> QED BY <1>2, <2>2, <3>1, <3>2, ForfeitedKeeps
  <2>3. CASE /\ UNCHANGED <<loot, forfeitedEquipments, pendingForfeits, pendingSnapshots>>
             /\ UNCHANGED <<discardedZones, pendingDeletes>>
    BY <1>1, <2>3, KnownNow DEF Base, ZoneTypes, ManagerTypes, TypeInv, closing
  <2> QED BY <1>1, <2>1, <2>2, <2>3
<1>6. ZoneTypes'
  BY <1>1, <1>5 DEF Base, ZoneTypes
<1> QED BY <1>1, <1>2, <1>3, <1>4, <1>5, <1>6, KnownNow, RemovalStepBase
        DEF Base, TypeInv, closing, tables

\* The revisions of a new process start at the newest stored one.
LEMMA RestartRevision ==
    ASSUME Base, Restart
    PROVE  revision' \in Nat /\ \A z \in Zones : row[z] # None => row[z].revision <= revision'
<1> DEFINE S == {0} \cup {row[z].revision : z \in {y \in Zones : row[y] # None}}
<1>1. revision \in Nat
  BY DEF Base, ManagerTypes
<1>2. \A z \in Zones : row[z] # None => row[z].revision \in Nat /\ row[z].revision <= revision
  BY SnapshotParts DEF Base, TypeInv, RevInv
<1>3. S \in SUBSET Nat /\ S # {} /\ \A x \in S : x <= revision
  BY <1>1, <1>2
<1>4. PICK m \in S : \A y \in S : y <= m
  <2> HIDE DEF S
  <2> QED BY <1>1, <1>3, Greatest
<1>5. revision' = Max(S)
  BY DEF Restart
<1>6. \A z \in Zones : row[z] # None => row[z].revision \in S
  OBVIOUS
<1> HIDE DEF S
<1>7. \E x \in S : \A y \in S : x >= y
  BY <1>3, <1>4
<1>8. Max(S) \in S /\ \A y \in S : Max(S) >= y
  BY <1>7 DEF Max
<1>9. \A y \in S : y <= revision' /\ revision' \in Nat
  BY <1>3, <1>5, <1>8
<1> QED BY <1>3, <1>6, <1>9

LEMMA RestartBase == ASSUME Base, Restart PROVE Base'
<1>1. TypeInv'
  <2>1. worker' \in WorkerRecord
    BY DEF Restart, Idle, WorkerRecord, WorkerSteps
  <2>2. IsRemoval(remover')
    BY DEF Restart, NoRemoval, IsRemoval, RemoverSteps
  <2>3. row' \in [Zones -> Snapshot \cup {None}] /\ pendingSnapshots' \in [Zones -> Snapshot \cup {None}]
    BY DEF Restart, tables, Base, TypeInv
  <2> QED BY <2>1, <2>2, <2>3 DEF TypeInv
<1>2. ZoneTypes'
  BY CheckpointAssumption DEF Restart, ZoneTypes, Nothing
<1>3. ManagerTypes'
  BY RestartRevision DEF Restart, ManagerTypes
<1>4. MemberTypes'
  BY DEF Restart, tables, Base, MemberTypes
<1>5. WorkInv' /\ RemovalInv'
  BY DEF Restart, WorkInv, RemovalInv, Idle, NoRemoval, InHand
<1>6. MuInv'
  BY CheckpointAssumption DEF Restart, MuInv, Idle, NoRemoval
<1>7. RevInv'
  <2>1. row' = row /\ worker'.snapshot = None /\ remover'.pc = "idle"
        /\ \A z \in Zones : pendingSnapshots'[z] = None
    BY DEF Restart, tables, Idle, NoRemoval
  <2> QED BY <2>1, RestartRevision DEF RevInv
<1> QED BY <1>1, <1>2, <1>3, <1>4, <1>5, <1>6, <1>7 DEF Base

LEMMA StutterBase == ASSUME Base, UNCHANGED vars PROVE Base'
  BY DEF Base, TypeInv, ZoneTypes, ManagerTypes, MemberTypes, WorkInv, RemovalInv, MuInv, RevInv,
         vars, live, queues, marks, closing, tables, history

LEMMA NextBase == Base /\ [Next]_vars => Base'
<1> SUFFICES ASSUME Base, [Next]_vars PROVE Base'
  OBVIOUS
<1>1. CASE Worker
  BY <1>1, FlushBeginBase, PickNothingBase, FlushDeleteBase, FlushSaveBase, FlushSavedBase, PutBackBase,
     SaveForfeitBase, PickDeleteBase, PickSnapshotBase DEF Worker
<1>2. CASE Remover
  BY <1>2, RemoveLoadBase, RemoveReadBase, RemoveMarkBase, RemoveStampBase, RemoveSaveBase,
     RemoveSavedBase, RemoveDiscardBase, RemoveDeleteBase, RemoveLeaveBase DEF Remover
<1>3. CASE Close \/ Restart
  BY <1>3, CloseBase, RestartBase
<1>4. CASE \/ \E z \in Zones : Capture(z) \/ Complete(z)
          \/ \E c \in captures : Record(c) \/ GiveUp(c)
  BY <1>4, CaptureBase, CompleteBase, RecordBase, GiveUpBase
<1>5. CASE \E z \in Zones, u \in Users : Defeat(z, u) \/ Leave(z, u) \/ Restore(z, u) \/ RemoveBegin(z, u)
  BY <1>5, DefeatBase, LeaveBase, RestoreBase, RemoveBeginBase
<1>6. CASE UNCHANGED vars
  BY <1>6, StutterBase
<1> QED BY <1>1, <1>2, <1>3, <1>4, <1>5, <1>6 DEF Next, Saves

LEMMA BaseInductive == Spec => []Base
  BY InitBase, NextBase, PTL DEF Spec

\* Every variable keeps its type, and no snapshot without a member is queued or
\* written, through failed writes, forfeitures, removals and restarts.
THEOREM TypeCorrect == Spec => []TypeOK
  BY BaseInductive, BaseTypes, PTL

-----------------------------------------------------------------------------
(* The ways a row changes.                                                 *)

Overwrites(z, s) == row'[z] = s /\ (row[z] # None => row[z].revision <= s.revision)

RowMove(z) ==
    \/ row'[z] = row[z]
    \/ row'[z] = None /\ z \in discardedZones /\ storeMu = None /\ storeMu' = None
    \/ row[z] # None /\ row'[z] = Loaded(z) /\ storeMu = None
    \/ worker.pc = "saving" /\ worker.zone = z /\ Overwrites(z, worker.payload)
    \/ remover.pc = "saving" /\ remover.zone = z /\ Overwrites(z, remover.snapshot)

\* A write has its effect, or is refused because of a newer row, or fails.
LEMMA WriteMoves ==
    ASSUME Base, NEW z \in Zones, NEW s \in Snapshot, Written(s, z)
    PROVE  /\ \A y \in Zones \ {z} : row'[y] = row[y]
           /\ \/ Overwrites(z, s)
              \/ row'[z] = row[z] /\ row[z] # None /\ row[z].revision > s.revision
<1>1. s.revision \in Nat /\ (row[z] # None => row[z].revision \in Nat)
  BY SnapshotParts DEF Base, TypeInv
<1>2. /\ \A y \in Zones \ {z} : row'[y] = row[y]
      /\ \/ row'[z] = s
         \/ row'[z] = row[z] /\ row[z] # None /\ row[z].revision > s.revision
      /\ row[z] # None => row'[z].revision >= row[z].revision
  BY WrittenRow DEF Base
<1> QED BY <1>1, <1>2 DEF Overwrites

LEMMA RowMoves == ASSUME Base, [Next]_vars PROVE \A z \in Zones : RowMove(z)
<1>1. CASE row' = row
  BY <1>1 DEF RowMove
<1>2. ASSUME NEW y \in Zones, SaveForfeit(y) PROVE \A z \in Zones : RowMove(z)
  <2>1. UNCHANGED tables \/ (row[y] # None /\ Written(Loaded(y), y))
    BY <1>2 DEF SaveForfeit
  <2>2. CASE row[y] # None /\ Written(Loaded(y), y)
    <3>1. Loaded(y) \in Snapshot /\ Loaded(y).revision = row[y].revision /\ row[y].revision \in Nat
      BY <2>2, LoadedRow, SnapshotParts DEF Base
    <3>2. row'[y] = Loaded(y) \/ row'[y] = row[y]
      BY <2>2, <3>1, WriteMoves DEF Overwrites
    <3> QED BY <1>2, <2>2, <3>1, <3>2, WriteMoves DEF RowMove, SaveForfeit
  <2> QED BY <1>1, <2>1, <2>2 DEF tables
<1>3. ASSUME FlushDelete PROVE \A z \in Zones : RowMove(z)
  <2>1. /\ worker.zone \in discardedZones /\ worker.zone \in Zones /\ MemberTypes /\ TypeInv
        /\ storeMu = None /\ storeMu' = None
    BY <1>3 DEF FlushDelete, Base, WorkInv, ManagerTypes
  <2>2. UNCHANGED tables \/ Deleted(worker.zone)
    BY <1>3 DEF FlushDelete
  <2> QED BY <1>1, <2>1, <2>2, DeletedRow DEF RowMove, tables
<1>4. ASSUME FlushSaved PROVE \A z \in Zones : RowMove(z)
  <2>1. worker.pc = "saving" /\ worker.zone \in Zones /\ worker.payload \in Snapshot
    BY <1>4 DEF FlushSaved, Base, WorkInv, InHand
  <2>2. UNCHANGED tables \/ Written(worker.payload, worker.zone)
    BY <1>4 DEF FlushSaved
  <2> QED BY <1>1, <2>1, <2>2, WriteMoves DEF RowMove, tables
<1>5. ASSUME RemoveSaved PROVE \A z \in Zones : RowMove(z)
  <2>1. remover.pc = "saving" /\ remover.zone \in Zones /\ remover.snapshot \in Snapshot
    BY <1>5 DEF RemoveSaved, Base, RemovalInv
  <2>2. UNCHANGED tables \/ Written(remover.snapshot, remover.zone)
    BY <1>5 DEF RemoveSaved
  <2> QED BY <1>1, <2>1, <2>2, WriteMoves DEF RowMove, tables
<1>6. ASSUME RemoveDelete PROVE \A z \in Zones : RowMove(z)
  <2>1. /\ remover.zone \in discardedZones /\ remover.zone \in Zones /\ MemberTypes /\ TypeInv
        /\ storeMu = None /\ storeMu' = None
    BY <1>6 DEF RemoveDelete, Base, RemovalInv, ManagerTypes
  <2>2. UNCHANGED tables \/ Deleted(remover.zone)
    BY <1>6 DEF RemoveDelete
  <2> QED BY <1>1, <2>1, <2>2, DeletedRow DEF RowMove, tables
<1>7. CASE Worker
  BY <1>1, <1>2, <1>3, <1>4, <1>7
     DEF Worker, FlushBegin, PickNothing, FlushSave, PutBack, PickDelete, PickSnapshot, tables
<1>8. CASE Remover
  BY <1>1, <1>5, <1>6, <1>8
     DEF Remover, RemoveLoad, RemoveRead, RemoveMark, RemoveStamp, RemoveSave, RemoveDiscard,
         RemoveLeave, tables
<1>9. CASE \/ Close \/ Restart \/ UNCHANGED vars
           \/ Saves \/ \E z \in Zones : Complete(z)
           \/ \E z \in Zones, u \in Users : Defeat(z, u) \/ Leave(z, u) \/ Restore(z, u) \/ RemoveBegin(z, u)
  <2>1. UNCHANGED tables
    BY <1>9 DEF Close, Restart, Saves, Capture, Record, GiveUp, Complete, Defeat, Leave, Restore, RemoveBegin, vars
  <2> QED BY <1>1, <2>1 DEF tables
<1> QED BY <1>7, <1>8, <1>9 DEF Next, Saves

-----------------------------------------------------------------------------
(* Who is in the store, and zones that are over.                           *)

LEMMA WritingMoves ==
    ASSUME Base, [Next]_vars
    PROVE  \A z \in Zones : IsWriting(z)' =>
               \/ IsWriting(z)
               \/ /\ z \notin discardedZones /\ z \notin discardedZones' /\ storeMu = None
                  /\ \/ worker.pc = "save" /\ worker.zone = z
                     \/ remover.pc = "save" /\ remover.zone = z
<1>1. MuInv /\ MuInv' /\ worker \in WorkerRecord /\ IsRemoval(remover)
  BY NextBase DEF Base, TypeInv
<1>2. CASE FlushSave
  <2>1. remover' = remover /\ UNCHANGED marks /\ storeMu = None /\ worker.pc = "save"
    BY <1>2 DEF FlushSave
  <2>2. CASE worker.zone \in discardedZones
    <3>1. worker'.pc = "pick"
      BY <1>1, <1>2, <2>2 DEF FlushSave, WorkerRecord
    <3> QED BY <2>1, <3>1 DEF IsWriting
  <2>3. CASE worker.zone \notin discardedZones
    <3>1. worker'.zone = worker.zone
      BY <1>1, <1>2, <2>3 DEF FlushSave, WorkerRecord
    <3> QED BY <2>1, <2>3, <3>1 DEF IsWriting, marks
  <2> QED BY <2>2, <2>3
<1>3. CASE RemoveSave
  <2>1. worker' = worker /\ discardedZones' = discardedZones /\ storeMu = None /\ remover.pc = "save"
    BY <1>3 DEF RemoveSave, RemovalStays
  <2>2. CASE remover.zone \in discardedZones
    <3>1. storeMu' = storeMu
      BY <1>3, <2>2 DEF RemoveSave
    <3> QED BY <1>1, <2>1, <3>1 DEF IsWriting, MuInv
  <2>3. CASE remover.zone \notin discardedZones
    <3>1. remover'.zone = remover.zone
      BY <1>3, <2>3, SavingRemoval
    <3> QED BY <2>1, <2>3, <3>1 DEF IsWriting
  <2> QED BY <2>2, <2>3
<1>4. CASE FlushSaved \/ RemoveSaved \/ Restart
  <2>1. storeMu' = None
    BY <1>4 DEF FlushSaved, RemoveSaved, Restart
  <2> QED BY <1>1, <2>1, CheckpointAssumption DEF IsWriting, MuInv
<1>5. ASSUME storeMu' = storeMu, worker.pc = "saving" => worker' = worker,
             remover.pc = "saving" => remover' = remover
      PROVE  \A z \in Zones : IsWriting(z)' => IsWriting(z)
  BY <1>1, <1>5 DEF IsWriting, MuInv
<1>6. CASE /\ Worker /\ ~FlushSave /\ ~FlushSaved
  <2>1. storeMu' = storeMu /\ remover' = remover
    BY <1>6 DEF Worker, FlushBegin, PickNothing, FlushDelete, PutBack, SaveForfeit, PickDelete, PickSnapshot
  <2>2. worker.pc # "saving"
    BY <1>6 DEF Worker, FlushBegin, PickNothing, FlushDelete, PutBack, SaveForfeit, PickDelete,
                PickSnapshot, Picking
  <2> QED BY <1>5, <2>1, <2>2
<1>7. CASE Remover /\ ~RemoveSave /\ ~RemoveSaved
  <2>1. storeMu' = storeMu /\ worker' = worker
    BY <1>7 DEF Remover, RemoveLoad, RemoveRead, RemoveMark, RemoveStamp, RemoveDiscard, RemoveDelete,
                RemoveLeave, RemovalStays
  <2>2. remover.pc # "saving"
    BY <1>7 DEF Remover, RemoveLoad, RemoveRead, RemoveMark, RemoveStamp, RemoveDiscard, RemoveDelete,
                RemoveLeave
  <2> QED BY <1>5, <2>1, <2>2
<1>8. CASE \/ Close \/ UNCHANGED vars
           \/ Saves \/ \E z \in Zones : Complete(z)
           \/ \E z \in Zones, u \in Users : Defeat(z, u) \/ Leave(z, u) \/ Restore(z, u) \/ RemoveBegin(z, u)
  <2>1. storeMu' = storeMu /\ worker' = worker /\ (remover.pc = "saving" => remover' = remover)
    BY <1>8 DEF Close, Saves, Capture, Record, GiveUp, Complete, Defeat, Leave, Restore, RemoveBegin, RemovalStays, vars
  <2> QED BY <1>5, <2>1
<1> QED BY <1>2, <1>3, <1>4, <1>6, <1>7, <1>8 DEF Next, Saves, Worker, Remover

\* A deletion leaves the list only once the row is gone and nobody is in the store.
LEMMA DiscardMoves ==
    ASSUME Base, [Next]_vars
    PROVE  \A z \in Zones :
               z \in discardedZones' \ pendingDeletes' =>
                   /\ z \in discardedZones
                   /\ z \in pendingDeletes => row'[z] = None /\ storeMu = None /\ storeMu' = None
<1>1. CASE UNCHANGED <<discardedZones, pendingDeletes>>
  BY <1>1
<1>2. ASSUME NEW y \in Zones, markDiscarded(y)
      PROVE  discardedZones' \ pendingDeletes' \subseteq discardedZones \ pendingDeletes
  BY <1>2 DEF markDiscarded
<1>3. TypeInv /\ MemberTypes
  BY DEF Base
<1>4. CASE FlushDelete
  <2>1. worker.zone \in Zones
    BY <1>4 DEF FlushDelete, Base, WorkInv, ManagerTypes
  <2> QED BY <1>3, <1>4, <2>1, DeletedRow DEF FlushDelete, marks
<1>5. CASE RemoveDelete
  <2>1. remover.zone \in Zones
    BY <1>5 DEF RemoveDelete, Base, RemovalInv
  <2> QED BY <1>3, <1>5, <2>1, DeletedRow DEF RemoveDelete
<1>6. CASE RemoveDiscard \/ RemoveLeave
  <2>1. remover.zone \in Zones
    BY <1>6 DEF RemoveDiscard, RemoveLeave, Base, RemovalInv
  <2>2. markDiscarded(remover.zone) \/ UNCHANGED <<discardedZones, pendingDeletes>>
    BY <1>6 DEF RemoveDiscard, RemoveLeave
  <2> QED BY <1>1, <1>2, <2>1, <2>2
<1>7. ASSUME NEW z \in Zones, Complete(z)
      PROVE  discardedZones' \ pendingDeletes' \subseteq discardedZones \ pendingDeletes
  BY <1>2, <1>7 DEF Complete
<1>8. CASE Restart
  BY <1>8 DEF Restart
<1>9. CASE Worker /\ ~FlushDelete
  BY <1>1, <1>9 DEF Worker, FlushBegin, PickNothing, FlushSave, FlushSaved, PutBack, SaveForfeit,
                    PickDelete, PickSnapshot, queues, marks
<1>10. CASE Remover /\ ~RemoveDiscard /\ ~RemoveDelete /\ ~RemoveLeave
  BY <1>1, <1>10 DEF Remover, RemoveLoad, RemoveRead, RemoveMark, RemoveStamp, RemoveSave, RemoveSaved,
                     queues, marks
<1>11. CASE \/ Close \/ UNCHANGED vars
            \/ Saves
            \/ \E z \in Zones, u \in Users : Defeat(z, u) \/ Leave(z, u) \/ Restore(z, u) \/ RemoveBegin(z, u)
  BY ZenonT(40), <1>1, <1>11 DEF Close, Saves, Capture, Record, GiveUp, Defeat, Leave, Restore, RemoveBegin, queues, marks, vars
<1> QED BY <1>4, <1>5, <1>6, <1>7, <1>8, <1>9, <1>10, <1>11 DEF Next, Saves, Worker, Remover

LEMMA NextDelete == ASSUME Base, DeleteInv, [Next]_vars PROVE DeleteInv'
<1> SUFFICES ASSUME NEW z \in Zones, z \in discardedZones' \ pendingDeletes'
             PROVE  row'[z] = None /\ ~IsWriting(z)'
  BY NextBase DEF DeleteInv, Base, ManagerTypes
<1>1. RowMove(z) /\ z \in discardedZones
  BY RowMoves, DiscardMoves
<1>2. MuInv /\ MuInv'
  BY NextBase DEF Base
<1>3. CASE z \in pendingDeletes
  <2>1. row'[z] = None /\ storeMu' = None
    BY <1>3, DiscardMoves
  <2> QED BY <1>2, <2>1, CheckpointAssumption DEF MuInv, IsWriting
<1>4. CASE z \notin pendingDeletes
  <2>1. row[z] = None /\ ~IsWriting(z)
    BY <1>1, <1>4 DEF DeleteInv
  <2>2. row'[z] = None
    BY <1>1, <2>1 DEF RowMove, IsWriting
  <2>3. ~IsWriting(z)'
    BY <1>1, <2>1, WritingMoves
  <2> QED BY <2>2, <2>3
<1> QED BY <1>3, <1>4

-----------------------------------------------------------------------------
(* The ways a snapshot moves between the queue and the worker, and a zone   *)
(* gets its members.                                                        *)

Takes(z) == \E c \in captures : /\ c.zone = z /\ Record(c) /\ ~isClosing /\ z \notin discardedZones
                                /\ Taken(c) \in Snapshot /\ pendingSnapshots'[z] = Taken(c)
                                /\ revision' = revision + 1
                                /\ accepted'[z] = [stage |-> c.stage, revision |-> revision + 1]

PutsBack(z) == /\ worker.pc = "putback" /\ worker.zone = z /\ z \notin pendingDeletes
               /\ pendingSnapshots'[z] = worker.snapshot
               /\ ~(/\ pendingSnapshots[z] # None
                    /\ pendingSnapshots[z].revision >= worker.snapshot.revision)

QueueMove(z) ==
    \/ pendingSnapshots'[z] = pendingSnapshots[z]
    \/ pendingSnapshots'[z] = None
    \/ /\ pendingSnapshots[z] # None /\ pendingSnapshots'[z] # None
       /\ Same(pendingSnapshots'[z], pendingSnapshots[z])
    \/ Takes(z)
    \/ PutsBack(z)

HandMove ==
    \/ worker'.zone = worker.zone /\ worker'.snapshot = worker.snapshot
    \/ worker'.snapshot = None
    \/ \E y \in Zones : /\ worker'.zone = y /\ worker'.snapshot = pendingSnapshots[y]
                        /\ pendingSnapshots[y] # None /\ pendingSnapshots'[y] = None

CrewMove(z) ==
    \/ crew'[z] \subseteq crew[z]
    \/ \E u \in Users : Restore(z, u)

LEMMA ForfeitMoves ==
    ASSUME Base, NEW y \in Zones, NEW u \in Users, Forfeited(y, u)
    PROVE  \A z \in Zones : QueueMove(z)
  BY ForfeitedKeeps DEF QueueMove

LEMMA MarkMoves ==
    ASSUME Base, NEW y \in Zones, markDiscarded(y)
    PROVE  \A z \in Zones : QueueMove(z)
  BY MarkedKeeps DEF QueueMove

LEMMA QueueMoves == ASSUME Base, [Next]_vars PROVE \A z \in Zones : QueueMove(z)
<1>1. CASE pendingSnapshots' = pendingSnapshots
  BY <1>1 DEF QueueMove
<1>2. /\ pendingSnapshots \in [Zones -> Snapshot \cup {None}]
      /\ accepted \in [Zones -> [stage : 0..MaxStage, revision : Nat]]
  BY DEF Base, TypeInv, ZoneTypes
<1>3. ASSUME NEW c \in captures, Record(c) PROVE \A z \in Zones : QueueMove(z)
  <2>1. CASE pendingSnapshots' # pendingSnapshots
    <3>1. /\ pendingSnapshots' = [pendingSnapshots EXCEPT ![c.zone] = Taken(c)]
          /\ accepted' = [accepted EXCEPT ![c.zone] = [stage |-> c.stage, revision |-> revision + 1]]
          /\ Taken(c) \in Snapshot /\ ~isClosing /\ c.zone \notin discardedZones
          /\ revision' = revision + 1 /\ c.zone \in Zones
      BY <1>3, <2>1, RecordParts, TakenType
    <3>2. Takes(c.zone)
      BY <1>2, <1>3, <3>1 DEF Takes
    <3>3. \A z \in Zones \ {c.zone} : pendingSnapshots'[z] = pendingSnapshots[z]
      BY <1>2, <3>1
    <3> QED BY <3>2, <3>3 DEF QueueMove
  <2> QED BY <1>1, <2>1
<1>4. ASSUME PutBack PROVE \A z \in Zones : QueueMove(z)
  <2>1. worker.pc = "putback" /\ worker.zone \in Zones
    BY <1>4 DEF PutBack, Base, WorkInv, InHand
  <2>2. CASE \/ worker.zone \in pendingDeletes
             \/ /\ pendingSnapshots[worker.zone] # None
                /\ pendingSnapshots[worker.zone].revision >= worker.snapshot.revision
    BY <1>1, <1>4, <2>2 DEF PutBack
  <2>3. CASE ~(\/ worker.zone \in pendingDeletes
               \/ /\ pendingSnapshots[worker.zone] # None
                  /\ pendingSnapshots[worker.zone].revision >= worker.snapshot.revision)
    <3>1. pendingSnapshots' = [pendingSnapshots EXCEPT ![worker.zone] = worker.snapshot]
      BY <1>4, <2>3 DEF PutBack
    <3>2. PutsBack(worker.zone)
      BY <1>2, <2>1, <2>3, <3>1 DEF PutsBack
    <3>3. \A z \in Zones \ {worker.zone} : pendingSnapshots'[z] = pendingSnapshots[z]
      BY <1>2, <3>1
    <3> QED BY <3>2, <3>3 DEF QueueMove
  <2> QED BY <2>2, <2>3
<1>5. ASSUME NEW y \in Zones, PickSnapshot(y) PROVE \A z \in Zones : QueueMove(z)
  BY <1>2, <1>5 DEF PickSnapshot, QueueMove
<1>6. CASE RemoveMark
  BY <1>2, <1>6 DEF RemoveMark, QueueMove
<1>7. CASE RemoveDiscard \/ RemoveLeave
  <2>1. remover.zone \in Zones /\ remover.user \in Users
    BY <1>7 DEF RemoveDiscard, RemoveLeave, Base, RemovalInv
  <2>2. \/ markDiscarded(remover.zone) \/ Forfeited(remover.zone, remover.user)
        \/ UNCHANGED pendingSnapshots
    BY <1>7 DEF RemoveDiscard, RemoveLeave
  <2> QED BY <1>1, <2>1, <2>2, ForfeitMoves, MarkMoves
<1>8. ASSUME NEW y \in Zones, NEW u \in Users, Defeat(y, u) \/ Leave(y, u) PROVE \A z \in Zones : QueueMove(z)
  BY <1>8, ForfeitMoves DEF Defeat, Leave
<1>9. ASSUME NEW y \in Zones, Complete(y) PROVE \A z \in Zones : QueueMove(z)
  BY <1>9, MarkMoves DEF Complete
<1>10. CASE Restart
  BY <1>10 DEF Restart, QueueMove
<1>11. CASE Worker
  BY <1>1, <1>4, <1>5, <1>11
     DEF Worker, FlushBegin, PickNothing, FlushDelete, FlushSave, FlushSaved, SaveForfeit, PickDelete, queues
<1>12. CASE Remover
  BY <1>1, <1>6, <1>7, <1>12
     DEF Remover, RemoveLoad, RemoveRead, RemoveStamp, RemoveSave, RemoveSaved, RemoveDelete, queues
<1>13. CASE \/ Close \/ UNCHANGED vars
            \/ \E z \in Zones, u \in Users : Restore(z, u) \/ RemoveBegin(z, u)
  BY <1>1, <1>13 DEF Close, Restore, RemoveBegin, queues, vars
<1>14. CASE (\E z \in Zones : Capture(z)) \/ \E c \in captures : GiveUp(c)
  BY <1>1, <1>14 DEF Capture, GiveUp, queues
<1> QED BY <1>3, <1>8, <1>9, <1>10, <1>11, <1>12, <1>13, <1>14 DEF Next

LEMMA HandMoves == ASSUME Base, [Next]_vars PROVE HandMove
<1>1. worker \in WorkerRecord /\ pendingSnapshots \in [Zones -> Snapshot \cup {None}]
  BY DEF Base, TypeInv
<1>2. CASE worker' = worker
  BY <1>2 DEF HandMove
<1>3. CASE FlushBegin \/ PickNothing
  BY <1>1, <1>3 DEF FlushBegin, PickNothing, Flushed, HandMove, WorkerRecord
<1>4. CASE FlushFailed
  BY <1>4, FailedWorker DEF HandMove
<1>5. CASE FlushDelete
  <2>1. worker.snapshot = None
    BY <1>5 DEF FlushDelete, Base, WorkInv, InHand
  <2>2. FlushFailed \/ worker' = [worker EXCEPT !.pc = "pick", !.zone = None]
    BY <1>5 DEF FlushDelete
  <2> QED BY <1>1, <1>4, <2>1, <2>2 DEF HandMove, WorkerRecord
<1>6. CASE FlushSave
  BY <1>1, <1>6 DEF FlushSave, HandMove, WorkerRecord
<1>7. CASE FlushSaved
  BY <1>1, <1>7 DEF FlushSaved, HandMove, WorkerRecord
<1>8. CASE PutBack
  BY <1>4, <1>8 DEF PutBack
<1>9. ASSUME NEW y \in Zones, SaveForfeit(y) PROVE HandMove
  BY <1>2, <1>4, <1>9 DEF SaveForfeit
<1>10. ASSUME NEW y \in Zones, PickDelete(y) PROVE HandMove
  <2>1. worker.snapshot = None
    BY <1>10 DEF PickDelete, Picking, Base, WorkInv, InHand
  <2> QED BY <1>1, <1>10, <2>1 DEF PickDelete, HandMove, WorkerRecord
<1>11. ASSUME NEW y \in Zones, PickSnapshot(y) PROVE HandMove
  <2>1. /\ worker'.zone = y /\ worker'.snapshot = pendingSnapshots[y]
        /\ pendingSnapshots[y] # None /\ pendingSnapshots'[y] = None
    BY <1>1, <1>11 DEF PickSnapshot, WorkerRecord
  <2> QED BY <2>1 DEF HandMove
<1>12. CASE Restart
  BY <1>12 DEF Restart, Idle, HandMove
<1>13. CASE Worker
  BY <1>3, <1>5, <1>6, <1>7, <1>8, <1>9, <1>10, <1>11, <1>13 DEF Worker
<1>14. CASE Remover
  BY <1>2, <1>14 DEF Remover, RemoveLoad, RemoveRead, RemoveMark, RemoveStamp, RemoveSave, RemoveSaved,
                     RemoveDiscard, RemoveDelete, RemoveLeave, RemovalStays
<1>15. CASE \/ Close \/ UNCHANGED vars
            \/ Saves \/ \E z \in Zones : Complete(z)
            \/ \E z \in Zones, u \in Users : Defeat(z, u) \/ Leave(z, u) \/ Restore(z, u) \/ RemoveBegin(z, u)
  BY <1>2, <1>15 DEF Close, Saves, Capture, Record, GiveUp, Complete, Defeat, Leave, Restore, RemoveBegin, RemovalStays, vars
<1> QED BY <1>12, <1>13, <1>14, <1>15 DEF Next, Saves

LEMMA CrewMoves == ASSUME Base, [Next]_vars PROVE \A z \in Zones : CrewMove(z)
<1>1. crew \in [Zones -> SUBSET Users]
  BY DEF Base, ZoneTypes
<1>2. CASE crew' = crew
  BY <1>2 DEF CrewMove
<1>3. ASSUME NEW y \in Zones, NEW u \in Users, Restore(y, u) PROVE \A z \in Zones : CrewMove(z)
  <2>1. \A z \in Zones \ {y} : crew'[z] = crew[z]
    BY <1>1, <1>3 DEF Restore
  <2> QED BY <1>3, <2>1 DEF CrewMove
<1>4. CASE RemoveLeave \/ \E z \in Zones : Complete(z) \/ \E u \in Users : Leave(z, u)
  BY <1>1, <1>4 DEF RemoveLeave, Complete, Leave, CrewMove
<1>5. CASE Restart
  BY <1>5 DEF Restart, CrewMove
<1>6. CASE Worker
  BY <1>2, <1>6 DEF Worker, FlushBegin, PickNothing, FlushDelete, FlushSave, FlushSaved, PutBack,
                    SaveForfeit, PickDelete, PickSnapshot, live
<1>7. CASE Remover /\ ~RemoveLeave
  BY <1>2, <1>7 DEF Remover, RemoveLoad, RemoveRead, RemoveMark, RemoveStamp, RemoveSave, RemoveSaved,
                     RemoveDiscard, RemoveDelete, RemovalStays, live
<1>8. CASE \/ Close \/ UNCHANGED vars
           \/ Saves
           \/ \E z \in Zones, u \in Users : Defeat(z, u) \/ RemoveBegin(z, u)
  BY <1>2, <1>8 DEF Close, Saves, Capture, Record, GiveUp, Defeat, RemoveBegin, RemovalStays, vars, live
<1> QED BY <1>3, <1>4, <1>5, <1>6, <1>7, <1>8 DEF Next, Saves, Remover

\* A capture is of a live zone's members, and keeps them while other steps come.
LEMMA CaptureMoves ==
    ASSUME Base, [Next]_vars, NEW c \in captures'
    PROVE  \/ \E d \in captures : c.zone = d.zone /\ c.members = d.members
           \/ crew[c.zone] # {} /\ c.members = crew[c.zone]
<1>1. CASE captures' \subseteq captures
  BY <1>1
<1>2. ASSUME NEW z \in Zones, Capture(z) PROVE c \in captures \/ (crew[c.zone] # {} /\ c.members = crew[c.zone])
  BY <1>2 DEF Capture, Captured
<1>3. ASSUME NEW z \in Zones, NEW u \in Users, Restore(z, u)
      PROVE  \E d \in captures : c.zone = d.zone /\ c.members = d.members
  <2>1. PICK d \in captures : c = IF d.zone = z THEN [d EXCEPT !.isLive = FALSE] ELSE d
    BY <1>3 DEF Restore
  <2>2. d \in Capturing
    BY DEF Base, ZoneTypes
  <2>3. c.zone = d.zone /\ c.members = d.members
    BY <2>1, <2>2 DEF Capturing
  <2> QED BY <2>3
<1>4. CASE Restart
  BY <1>4 DEF Restart
<1>5. CASE Worker
  BY <1>1, <1>5 DEF Worker, FlushBegin, PickNothing, FlushDelete, FlushSave, FlushSaved, PutBack,
                    SaveForfeit, PickDelete, PickSnapshot, live
<1>6. CASE Remover
  BY <1>1, <1>6 DEF Remover, RemoveLoad, RemoveRead, RemoveMark, RemoveStamp, RemoveSave, RemoveSaved,
                    RemoveDiscard, RemoveDelete, RemoveLeave, RemovalStays, live
<1>7. CASE \E d \in captures : Record(d) \/ GiveUp(d)
  BY <1>1, <1>7 DEF Record, GiveUp
<1>8. CASE \/ Close \/ UNCHANGED vars \/ \E z \in Zones : Complete(z)
           \/ \E z \in Zones, u \in Users : Defeat(z, u) \/ Leave(z, u) \/ RemoveBegin(z, u)
  BY <1>1, <1>8 DEF Close, Complete, Defeat, Leave, RemoveBegin, RemovalStays, vars, live
<1> QED BY <1>2, <1>3, <1>4, <1>5, <1>6, <1>7, <1>8 DEF Next

-----------------------------------------------------------------------------
(***************************************************************************)
(* What the store of a zone keeps, for any zones, users, stages, faults    *)
(* and crashes: that a deleted zone stays deleted, that forfeited loot and *)
(* removed members stay out of the row, that an accepted snapshot is kept, *)
(* and what a Close without an error has done.                             *)
(*                                                                         *)
(* Each rests on an invariant about everything that may still reach the    *)
(* row, proved over the ways a row, the queue, the worker's hand and the   *)
(* crew of a zone change, which come first in this module.                 *)
(***************************************************************************)

-----------------------------------------------------------------------------
(* Removals, and what only a restart takes back.                           *)

\* A member is offered only a zone that is not over and whose queued or stored
\* snapshot lists him.
LEMMA ResumeFinds ==
    ASSUME Base, NEW u \in Users, NEW z \in Zones, Resume(u) = z
    PROVE  /\ z \notin discardedZones
           /\ \/ pendingSnapshots[z] # None /\ u \in pendingSnapshots[z].members
              \/ row[z] # None /\ u \in row[z].members
<1>1. /\ \A y \in Zones : pendingSnapshots[y] \in Snapshot \cup {None}
      /\ \A y \in Zones : pendingSnapshots[y] # None => pendingSnapshots[y].revision <= revision
      /\ revision \in Nat /\ z # None
  BY CheckpointAssumption DEF Base, TypeInv, RevInv, ManagerTypes
<1>2. CASE PendingOf(u) # {}
  <2> DEFINE S == {pendingSnapshots[y].revision : y \in PendingOf(u)}
  <2>1. S \in SUBSET Nat /\ S # {} /\ \A x \in S : x <= revision
    BY <1>1, <1>2, SnapshotParts DEF PendingOf
  <2>2. \E x \in S : \A y \in S : y <= x
    BY <1>1, <2>1, Greatest
  <2>3. \E y \in PendingOf(u) : \A w \in PendingOf(u) :
            pendingSnapshots[w].revision <= pendingSnapshots[y].revision
    BY <2>2
  <2>4. Resume(u) \in PendingOf(u)
    BY <1>2, <2>3 DEF Resume
  <2> QED BY <2>4 DEF PendingOf
<1>3. CASE PendingOf(u) = {}
  <2>1. memberRow[u] # None /\ memberRow[u].zone = z /\ z \notin discardedZones
        /\ Loaded(z) # None /\ u \in Loaded(z).members
    BY <1>1, <1>3 DEF Resume
  <2> QED BY <2>1, LoadedRow DEF Base
<1> QED BY <1>2, <1>3

\* One removal at a time: it ends, goes on for the same member, or is begun.
RemovalMove ==
    \/ remover'.zone = remover.zone /\ remover'.user = remover.user /\ remover'.pc = remover.pc
    \/ remover'.pc = "idle" /\ remover'.zone = None
    \/ remover.pc \notin {"idle", "leave"} /\ remover'.zone = remover.zone /\ remover'.user = remover.user
    \/ \E z \in Zones, u \in Users : RemoveBegin(z, u)

LEMMA RemovalMoves == ASSUME Base, [Next]_vars PROVE RemovalMove
<1>1. CASE remover' = remover
  BY <1>1 DEF RemovalMove
<1>2. IsRemoval(remover)
  BY DEF Base, TypeInv
<1>3. CASE remover.pc \notin {"idle", "leave"} /\ \E answer : Ends(answer)
  BY <1>3, Ended DEF RemovalMove
<1>4. ASSUME NEW s, remover.pc \notin {"idle", "leave"}, Proceed(s) PROVE RemovalMove
  BY <1>2, <1>3, <1>4 DEF Proceed, RemovalMove, IsRemoval
<1>5. CASE RemoveLoad \/ RemoveRead
  <2>1. remover.pc \notin {"idle", "leave"}
    BY <1>5 DEF RemoveLoad, RemoveRead
  <2>2. \/ \E s : Proceed(s)
        \/ \E answer : Ends(answer)
        \/ remover' = [remover EXCEPT !.pc = "read"]
    BY <1>5 DEF RemoveLoad, RemoveRead
  <2> QED BY <1>2, <1>3, <1>4, <2>1, <2>2 DEF RemovalMove, IsRemoval
<1>6. CASE RemoveMark
  BY <1>6, MarkedRemoval DEF RemoveMark, RemovalMove
<1>7. CASE RemoveStamp
  BY <1>7, StampedRemoval DEF RemoveStamp, RemovalMove
<1>8. CASE RemoveSave
  BY <1>3, <1>8, SavingRemoval DEF RemoveSave, RemovalMove
<1>9. CASE RemoveSaved \/ RemoveDelete
  BY <1>3, <1>9 DEF RemoveSaved, RemoveDelete
<1>10. CASE RemoveDiscard
  BY <1>2, <1>10 DEF RemoveDiscard, RemovalMove, IsRemoval
<1>11. CASE RemoveLeave \/ Restart
  BY <1>11 DEF RemoveLeave, Restart, NoRemoval, RemovalMove
<1>12. CASE Worker
  BY <1>1, <1>12 DEF Worker, FlushBegin, PickNothing, FlushDelete, FlushSave, FlushSaved, PutBack,
                     SaveForfeit, PickDelete, PickSnapshot
<1>13. CASE \/ Close \/ UNCHANGED vars
            \/ Saves \/ \E z \in Zones : Complete(z)
            \/ \E z \in Zones, u \in Users : Defeat(z, u) \/ Leave(z, u) \/ Restore(z, u)
  BY <1>1, <1>13 DEF Close, Saves, Capture, Record, GiveUp, Complete, Defeat, Leave, Restore, vars
<1> QED BY <1>5, <1>6, <1>7, <1>8, <1>9, <1>10, <1>11, <1>12, <1>13 DEF Next, Saves, Remover, RemovalMove

\* Where the snapshot in a removal's hand comes from.
LEMMA RemovalHands ==
    ASSUME Base, [Next]_vars, remover'.pc \in {"mark", "stamp", "save", "saving"}
    PROVE  \/ remover' = remover
           \/ /\ remover'.pc = "mark" /\ remover.pc \in {"load", "read"}
              /\ remover'.zone = remover.zone /\ remover'.user = remover.user
              /\ \/ pendingSnapshots[remover.zone] # None /\ remover'.snapshot = pendingSnapshots[remover.zone]
                 \/ row[remover.zone] # None /\ remover'.snapshot = Loaded(remover.zone)
           \/ RemoveMark
           \/ RemoveStamp
           \/ RemoveSave /\ remover.zone \notin discardedZones
<1>1. IsRemoval(remover)
  BY DEF Base, TypeInv
<1>2. remover.pc # "idle" => ~ \E answer : Ends(answer)
  BY Ended
<1>3. CASE RemoveLoad
  <2>1. remover.zone \in Zones /\ exposed' = exposed /\ remover.pc = "load"
    BY <1>3 DEF RemoveLoad, Base, RemovalInv
  <2>2. CASE remover.zone \in discardedZones
    BY <1>2, <1>3, <2>1, <2>2 DEF RemoveLoad, Proceed
  <2>3. CASE remover.zone \notin discardedZones /\ pendingSnapshots[remover.zone] # None
    <3>1. Proceed(pendingSnapshots[remover.zone]) /\ pendingSnapshots[remover.zone] \in Snapshot \cup {None}
      BY <1>3, <2>1, <2>3 DEF RemoveLoad, Base, TypeInv
    <3> QED BY <2>1, <2>3, <3>1, Proceeded
  <2>4. CASE remover.zone \notin discardedZones /\ pendingSnapshots[remover.zone] = None
    BY <1>1, <1>3, <2>4 DEF RemoveLoad, IsRemoval
  <2> QED BY <2>2, <2>3, <2>4
<1>4. CASE RemoveRead
  <2>1. remover.zone \in Zones /\ exposed' = exposed /\ remover.pc = "read"
    BY <1>4 DEF RemoveRead, Base, RemovalInv
  <2>2. Proceed(Loaded(remover.zone))
    BY <1>2, <1>4, <2>1 DEF RemoveRead
  <2>3. Loaded(remover.zone) \in Snapshot \cup {None} /\ (Loaded(remover.zone) # None => row[remover.zone] # None)
    BY <2>1, LoadedRow DEF Base
  <2> QED BY <2>1, <2>2, <2>3, Proceeded
<1>5. CASE RemoveSave
  BY <1>2, <1>5 DEF RemoveSave
<1>6. CASE RemoveSaved \/ RemoveDelete
  BY <1>2, <1>6 DEF RemoveSaved, RemoveDelete
<1>7. CASE RemoveDiscard \/ RemoveLeave
  BY <1>1, <1>7 DEF RemoveDiscard, RemoveLeave, NoRemoval, IsRemoval
<1>8. CASE Remover
  BY <1>3, <1>4, <1>5, <1>6, <1>7, <1>8 DEF Remover
<1>9. CASE Worker
  BY <1>9 DEF Worker, FlushBegin, PickNothing, FlushDelete, FlushSave, FlushSaved, PutBack,
              SaveForfeit, PickDelete, PickSnapshot
<1>10. CASE Restart
  BY <1>10 DEF Restart, NoRemoval
<1>11. CASE \/ Close \/ UNCHANGED vars
            \/ Saves \/ \E z \in Zones : Complete(z)
            \/ \E z \in Zones, u \in Users : Defeat(z, u) \/ Leave(z, u) \/ Restore(z, u)
  BY <1>11 DEF Close, Saves, Capture, Record, GiveUp, Complete, Defeat, Leave, Restore, vars
<1>12. CASE \E z \in Zones, u \in Users : RemoveBegin(z, u)
  BY <1>12 DEF RemoveBegin, NoRemoval
<1> QED BY <1>8, <1>9, <1>10, <1>11, <1>12 DEF Next, Saves

\* Only a restart forgets which zones are over, and which a removal touched.
LEMMA Kept == ASSUME [Next]_vars, ~Restart
              PROVE  /\ discardedZones \subseteq discardedZones' /\ exposed \subseteq exposed'
                     /\ isClosing => isClosing'
<1>1. CASE Worker
  <2>1. FlushFailed \/ Flushed => isClosing' = isClosing
    BY DEF FlushFailed, Flushed, closing
  <2>2. discardedZones' = discardedZones /\ exposed' = exposed
    BY <1>1 DEF Worker, FlushBegin, PickNothing, FlushDelete, FlushSave, FlushSaved, PutBack,
                SaveForfeit, PickDelete, PickSnapshot, marks, history
  <2>3. isClosing' = isClosing
    BY <1>1, <2>1 DEF Worker, FlushBegin, PickNothing, FlushDelete, FlushSave, FlushSaved, PutBack,
                      SaveForfeit, PickDelete, PickSnapshot, closing
  <2> QED BY <2>2, <2>3
<1>2. CASE Remover
  BY <1>2 DEF Remover, RemoveLoad, RemoveRead, RemoveMark, RemoveStamp, RemoveSave, RemoveSaved,
              RemoveDiscard, RemoveDelete, RemoveLeave, RemovalStays, markDiscarded, marks, history, closing
<1>3. CASE \/ Close \/ UNCHANGED vars
           \/ Saves \/ \E z \in Zones : Complete(z)
           \/ \E z \in Zones, u \in Users : Defeat(z, u) \/ Leave(z, u) \/ Restore(z, u) \/ RemoveBegin(z, u)
  <2>1. CASE Close \/ UNCHANGED vars
    BY <2>1 DEF Close, vars, marks, history, closing
  <2>2. CASE Saves
    <3>1. CASE (\E z \in Zones : Capture(z)) \/ \E c \in captures : GiveUp(c)
      <4>1. UNCHANGED <<marks, closing, history>>
        BY <3>1 DEF Capture, GiveUp
      <4> QED BY <4>1 DEF marks, history, closing
    <3>2. CASE \E c \in captures : Record(c)
      BY <3>2 DEF Record, marks, closing
    <3> QED BY <2>2, <3>1, <3>2 DEF Saves
  <2>5. CASE \E z \in Zones : Complete(z)
    BY <2>5 DEF Complete, markDiscarded, history, closing
  <2>3. CASE \E z \in Zones, u \in Users : Defeat(z, u) \/ Leave(z, u)
    BY <2>3 DEF Defeat, Leave, history, closing
  <2>4. CASE \E z \in Zones, u \in Users : Restore(z, u) \/ RemoveBegin(z, u)
    BY <2>4 DEF Restore, RemoveBegin, RemovalStays, marks, closing, history
  <2> QED BY <1>3, <2>1, <2>2, <2>3, <2>4, <2>5
<1> QED BY <1>1, <1>2, <1>3 DEF Next, Saves
-----------------------------------------------------------------------------
(* A zone reported deleted stays deleted.                                  *)

\* The process has no part of the zone, nor of a snapshot of it.
IsUnknown(z) ==
    /\ crew[z] = {} /\ pendingSnapshots[z] = None /\ (worker.zone = z => worker.snapshot = None)
    /\ \A c \in captures : c.zone # z

\* A retired zone is over in this process, or unknown to it.
RetiredInv ==
    /\ retired \subseteq Zones
    /\ \A z \in retired :
        /\ row[z] = None /\ ~IsWriting(z)
        /\ remover.zone = z => remover.pc = "leave"
        /\ \/ z \in discardedZones \cap exposed
           \/ IsUnknown(z)

LEMMA RetiredGrows ==
    ASSUME [Next]_vars
    PROVE  \/ retired' = retired
           \/ RemoveDelete /\ retired' = retired \cup {remover.zone} /\ Works /\ Deleted(remover.zone) /\ Ends(0)
<1>1. CASE Worker
  BY <1>1 DEF Worker, FlushBegin, PickNothing, FlushDelete, FlushSave, FlushSaved, PutBack,
              SaveForfeit, PickDelete, PickSnapshot, history
<1>2. CASE Remover
  BY <1>2 DEF Remover, RemoveLoad, RemoveRead, RemoveMark, RemoveStamp, RemoveSave, RemoveSaved,
              RemoveDiscard, RemoveDelete, RemoveLeave, RemovalStays, history
<1>3. CASE \/ Close \/ Restart \/ UNCHANGED vars
           \/ Saves \/ \E z \in Zones : Complete(z)
           \/ \E z \in Zones, u \in Users : Defeat(z, u) \/ Leave(z, u) \/ Restore(z, u) \/ RemoveBegin(z, u)
  BY ZenonT(40), <1>3 DEF Close, Restart, Saves, Capture, Record, GiveUp, Complete, Defeat, Leave, Restore, RemoveBegin, RemovalStays, vars, history
<1> QED BY <1>1, <1>2, <1>3 DEF Next, Saves

\* A zone that is unknown to this process and has no row stays so.
LEMMA StaysUnknown ==
    ASSUME Base, [Next]_vars, NEW z \in Zones, row[z] = None, IsUnknown(z)
    PROVE  IsUnknown(z)'
<1> USE DEF IsUnknown
<1>1. ~ \E u \in Users : Restore(z, u)
  BY LoadFinds DEF Restore, Base
<1>2. crew'[z] = {}
  BY <1>1, CrewMoves DEF CrewMove
<1>3. worker.zone = z => worker.pc \notin InHand
  BY SnapshotParts DEF Base, WorkInv
<1>4. pendingSnapshots'[z] = None
  BY <1>3, QueueMoves DEF QueueMove, Takes, PutsBack, InHand
<1>5. worker'.zone = z => worker'.snapshot = None
  BY HandMoves DEF HandMove
<1>6. \A c \in captures' : c.zone # z
  BY CaptureMoves
<1> QED BY <1>2, <1>4, <1>5, <1>6

LEMMA NextRetired == ASSUME Base, RetiredInv, [Next]_vars PROVE RetiredInv'
<1>0. None \notin Zones
  BY CheckpointAssumption
<1>1. ASSUME NEW z \in retired
      PROVE  /\ row'[z] = None /\ ~IsWriting(z)'
             /\ remover'.zone = z => remover'.pc = "leave"
             /\ \/ z \in discardedZones' \cap exposed'
                \/ IsUnknown(z)'
  <2>1. /\ z \in Zones /\ row[z] = None /\ ~IsWriting(z)
        /\ remover.zone = z => remover.pc = "leave"
        /\ \/ z \in discardedZones \cap exposed
           \/ IsUnknown(z)
    BY DEF RetiredInv
  <2>2. row'[z] = None
    BY <2>1, RowMoves DEF RowMove, IsWriting
  <2>3. ~IsWriting(z)'
    <3>1. worker.pc = "save" => worker.snapshot # None
      BY SnapshotParts DEF Base, WorkInv, InHand
    <3> QED BY <2>1, <3>1, WritingMoves DEF IsUnknown
  <2>4. remover'.zone = z => remover'.pc = "leave"
    <3>1. ASSUME NEW y \in Zones, NEW u \in Users, RemoveBegin(y, u), y = z PROVE FALSE
      <4>1. z \notin exposed
        BY <3>1 DEF RemoveBegin
      <4>2. ~(u \in crew[z]) /\ Resume(u) = z
        BY <2>1, <3>1, <4>1 DEF RemoveBegin, IsUnknown
      <4> QED BY <2>1, <4>1, <4>2, ResumeFinds DEF IsUnknown
    <3>2. ASSUME NEW y \in Zones, NEW u \in Users, RemoveBegin(y, u) PROVE remover'.zone = y
      BY <3>2 DEF RemoveBegin, NoRemoval
    <3> QED BY <1>0, <2>1, <3>1, <3>2, RemovalMoves DEF RemovalMove
  <2>5. \/ z \in discardedZones' \cap exposed'
        \/ IsUnknown(z)'
    <3>1. CASE Restart
      BY <2>1, <3>1 DEF Restart, Idle, IsUnknown
    <3>2. CASE ~Restart /\ z \in discardedZones \cap exposed
      BY <3>2, Kept
    <3>3. CASE IsUnknown(z)
      BY <2>1, <3>3, StaysUnknown
    <3> QED BY <2>1, <3>1, <3>2, <3>3
  <2> QED BY <2>2, <2>3, <2>4, <2>5
<1>2. CASE retired' = retired
  BY <1>1, <1>2 DEF RetiredInv
<1>3. CASE /\ RemoveDelete /\ retired' = retired \cup {remover.zone} /\ Works
           /\ Deleted(remover.zone) /\ Ends(0)
  <2>0. PICK z \in Zones : z = remover.zone
    BY <1>3 DEF RemoveDelete, Base, RemovalInv
  <2>1. z \in Zones \cap exposed /\ z \in discardedZones /\ remover.pc = "delete" /\ storeMu = None
    BY <1>3, <2>0 DEF RemoveDelete, Base, RemovalInv
  <2>2. storeMu' = None /\ exposed' = exposed /\ discardedZones' = discardedZones
    BY <1>3 DEF RemoveDelete
  <2>3. row'[z] = None
    BY <1>3, <2>0, <2>1, DeletedRow DEF Base
  <2>4. ~IsWriting(z)'
    <3>1. MuInv'
      BY NextBase DEF Base
    <3> QED BY <2>2, <3>1, CheckpointAssumption DEF MuInv, IsWriting
  <2>5. remover'.zone = z => remover'.pc = "leave"
    BY <1>0, <1>3, <2>0, <2>1, Ended
  <2>6. /\ row'[z] = None /\ ~IsWriting(z)'
        /\ remover'.zone = z => remover'.pc = "leave"
        /\ z \in discardedZones' \cap exposed'
    BY <2>1, <2>2, <2>3, <2>4, <2>5
  <2>7. retired' \subseteq Zones
    BY <1>3, <2>0 DEF RetiredInv
  <2>8. \A y \in retired' : y \in retired \/ y = z
    BY <1>3, <2>0
  <2>9. ASSUME NEW y \in retired'
        PROVE  /\ row'[y] = None /\ ~IsWriting(y)'
               /\ remover'.zone = y => remover'.pc = "leave"
               /\ \/ y \in discardedZones' \cap exposed'
                  \/ IsUnknown(y)'
    <3>1. CASE y \in retired
      BY <1>1, <3>1
    <3>2. CASE y = z
      BY <2>6, <3>2 DEF IsWriting
    <3> QED BY <2>8, <3>1, <3>2
  <2> QED BY <2>7, <2>9 DEF RetiredInv
<1> QED BY <1>2, <1>3, RetiredGrows

LEMMA RetiredInductive == Spec => []RetiredInv
<1>1. Init => RetiredInv
  BY DEF Init, RetiredInv
<1>2. Base /\ RetiredInv /\ [Next]_vars => RetiredInv'
  BY NextRetired
<1> QED BY <1>1, <1>2, BaseInductive, PTL DEF Spec

\* Once DiscardNow has reported a zone deleted, no write that was under way, no
\* failed or repeated flush and no later process gives it a row again.
THEOREM RetiredStaysRetired == Spec => []RetiredStays
<1>1. RetiredInv => RetiredStays
  BY DEF RetiredInv, RetiredStays
<1> QED BY <1>1, RetiredInductive, PTL
-----------------------------------------------------------------------------
(* Forfeited loot stays out of the row.                                    *)

\* What is being written is without the loot forfeited when it was looked at, and
\* of what was forfeited after that the row is to be cleaned.
LootInv ==
    /\ worker.pc = "saving" /\ worker.zone \notin pendingForfeits =>
           worker.payload.loot \cap forfeitedEquipments[worker.zone] = {}
    /\ remover.pc = "saving" /\ remover.zone \notin pendingForfeits =>
           remover.snapshot.loot \cap forfeitedEquipments[remover.zone] = {}

\* The worker, or a removal, enters the store by one step only.
LEMMA WorkerEnters ==
    ASSUME Base, [Next]_vars, worker'.pc = "saving"
    PROVE  worker' = worker \/ (FlushSave /\ worker.zone \notin discardedZones)
<1>1. worker \in WorkerRecord
  BY DEF Base, TypeInv
<1>2. ~FlushFailed
  BY FailedWorker
<1>3. CASE Worker
  <2>1. CASE FlushBegin
    BY <1>1, <2>1 DEF FlushBegin, WorkerRecord
  <2>2. CASE PickNothing
    BY <1>1, <2>2 DEF PickNothing, Flushed, WorkerRecord
  <2>3. CASE FlushDelete
    BY <1>1, <1>2, <2>3 DEF FlushDelete, WorkerRecord
  <2>4. CASE FlushSave
    BY <1>1, <2>4 DEF FlushSave, WorkerRecord
  <2>5. CASE FlushSaved
    BY <1>1, <2>5 DEF FlushSaved, WorkerRecord
  <2>6. CASE \E z \in Zones : SaveForfeit(z) \/ PickDelete(z) \/ PickSnapshot(z)
    BY <1>1, <1>2, <2>6 DEF SaveForfeit, PickDelete, PickSnapshot, WorkerRecord
  <2> QED BY <1>2, <1>3, <2>1, <2>2, <2>3, <2>4, <2>5, <2>6 DEF Worker, PutBack
<1>4. CASE Remover
  BY <1>4 DEF Remover, RemoveLoad, RemoveRead, RemoveMark, RemoveStamp, RemoveSave, RemoveSaved,
              RemoveDiscard, RemoveDelete, RemoveLeave, RemovalStays
<1>5. CASE Restart
  BY <1>5 DEF Restart, Idle
<1>6. CASE \/ Close \/ UNCHANGED vars
           \/ Saves \/ \E z \in Zones : Complete(z)
           \/ \E z \in Zones, u \in Users : Defeat(z, u) \/ Leave(z, u) \/ Restore(z, u) \/ RemoveBegin(z, u)
  BY <1>6 DEF Close, Saves, Capture, Record, GiveUp, Complete, Defeat, Leave, Restore, RemoveBegin, RemovalStays, vars
<1> QED BY <1>3, <1>4, <1>5, <1>6 DEF Next, Saves

LEMMA RemovalEnters ==
    ASSUME Base, [Next]_vars, remover'.pc = "saving"
    PROVE  remover' = remover \/ (RemoveSave /\ remover.zone \notin discardedZones)
  BY RemovalHands, MarkedRemoval, StampedRemoval

LEMMA SavingWorker ==
    ASSUME Base, FlushSave, worker.zone \notin discardedZones
    PROVE  /\ worker'.pc = "saving" /\ worker'.zone = worker.zone
           /\ worker'.payload.loot \cap forfeitedEquipments[worker.zone] = {}
           /\ forfeitedEquipments' = forfeitedEquipments
<1> DEFINE s == WithoutEquipment(worker.snapshot, forfeitedEquipments[worker.zone])
<1>1. worker \in WorkerRecord /\ worker.snapshot \in Snapshot
  BY DEF FlushSave, Base, TypeInv, WorkInv, InHand
<1>2. s.loot \cap forfeitedEquipments[worker.zone] = {}
  BY <1>1, SnapshotParts, EquipmentGone
<1>3. worker' = [worker EXCEPT !.pc = "saving", !.payload = s]
  BY DEF FlushSave
<1> HIDE DEF s
<1>4. worker'.pc = "saving" /\ worker'.zone = worker.zone /\ worker'.payload = s
  BY <1>1, <1>3 DEF WorkerRecord
<1>5. forfeitedEquipments' = forfeitedEquipments
  BY DEF FlushSave, marks
<1> QED BY <1>2, <1>4, <1>5

\* What was forfeited of a zone stays forfeited until a restart, anything more
\* is to be cleaned out of the row, and is to be until the row is clean.
LEMMA LossMoves ==
    ASSUME Base, [Next]_vars, ~Restart
    PROVE  \A z \in Zones :
               /\ forfeitedEquipments'[z] = forfeitedEquipments[z] \/ z \in pendingForfeits'
               /\ z \in pendingForfeits /\ z \notin pendingForfeits' =>
                      /\ storeMu = None /\ storeMu' = None
                      /\ forfeitedEquipments'[z] = forfeitedEquipments[z]
                      /\ (row[z] = None /\ row'[z] = None) \/ (row[z] # None /\ row'[z] = Loaded(z))
<1>1. CASE UNCHANGED <<forfeitedEquipments, pendingForfeits>>
  BY <1>1
<1>2. ASSUME NEW y \in Zones, NEW u \in Users, Forfeited(y, u)
      PROVE  /\ pendingForfeits \subseteq pendingForfeits'
             /\ \A z \in Zones : forfeitedEquipments'[z] = forfeitedEquipments[z] \/ z \in pendingForfeits'
  BY <1>2, ForfeitedKeeps
<1>3. ASSUME NEW y \in Zones, SaveForfeit(y)
      PROVE  /\ forfeitedEquipments' = forfeitedEquipments /\ storeMu = None /\ storeMu' = None
             /\ pendingForfeits \subseteq pendingForfeits' \cup {y}
             /\ y \notin pendingForfeits' => (row[y] = None /\ row'[y] = None) \/ (row[y] # None /\ row'[y] = Loaded(y))
  <2>1. CASE ~Works \/ pendingForfeits' = pendingForfeits
    BY <1>3, <2>1 DEF SaveForfeit, marks
  <2>2. CASE pendingForfeits' = pendingForfeits \ {y} /\ row[y] = None
    BY <1>3, <2>2 DEF SaveForfeit, marks, tables
  <2>3. CASE pendingForfeits' = pendingForfeits \ {y} /\ row[y] # None
    <3>1. Written(Loaded(y), y)
      BY <1>3, <2>3 DEF SaveForfeit
    <3>2. Loaded(y) \in Snapshot /\ Loaded(y).revision = row[y].revision /\ row[y].revision \in Nat
      BY <2>3, LoadedRow, SnapshotParts DEF Base
    <3>3. Stores(Loaded(y), y)
      BY <3>2 DEF Stores
    <3>4. row'[y] = Loaded(y)
      BY <3>1, <3>2, <3>3 DEF Written, Base, TypeInv
    <3> QED BY <1>3, <2>3, <3>4 DEF SaveForfeit, marks
  <2> QED BY <1>3, <2>1, <2>2, <2>3 DEF SaveForfeit
<1>4. CASE Worker
  BY <1>1, <1>3, <1>4 DEF Worker, FlushBegin, PickNothing, FlushDelete, FlushSave, FlushSaved, PutBack,
                          PickDelete, PickSnapshot, queues, marks
<1>5. CASE RemoveLeave
  <2>1. remover.zone \in Zones /\ remover.user \in Users
    BY <1>5 DEF RemoveLeave, Base, RemovalInv
  <2> QED BY <1>1, <1>2, <1>5, <2>1 DEF RemoveLeave
<1>6. CASE Remover /\ ~RemoveLeave
  BY <1>1, <1>6 DEF Remover, RemoveLoad, RemoveRead, RemoveMark, RemoveStamp, RemoveSave, RemoveSaved,
                    RemoveDiscard, RemoveDelete, queues, marks
<1>7. CASE \E z \in Zones, u \in Users : Defeat(z, u) \/ Leave(z, u)
  BY <1>2, <1>7 DEF Defeat, Leave
<1>8. CASE \/ Close \/ UNCHANGED vars
           \/ Saves \/ \E z \in Zones : Complete(z)
           \/ \E z \in Zones, u \in Users : Restore(z, u) \/ RemoveBegin(z, u)
  BY <1>1, <1>8 DEF Close, Saves, Capture, Record, GiveUp, Complete, Restore, RemoveBegin, vars, queues, marks
<1> QED BY <1>4, <1>5, <1>6, <1>7, <1>8 DEF Next, Saves

\* Until a write fails nothing is put back.
FaultFree == faults \in Nat /\ (faults = 0 => worker.pc # "putback")

LEMMA NextFaultFree ==
    ASSUME Base, FaultFree, [Next]_vars
    PROVE  FaultFree' /\ (faults' = 0 => faults = 0)
<1>1. worker \in WorkerRecord
  BY DEF Base, TypeInv
<1>2. CASE Fails
  BY <1>2 DEF Fails, FaultFree
<1>3. CASE faults' = faults /\ (worker' = worker \/ worker'.pc # "putback")
  BY <1>3 DEF FaultFree
<1>4. CASE FlushFailed /\ (Fails \/ UNCHANGED bounds)
  BY <1>2, <1>3, <1>4, FailedWorker DEF bounds
<1>5. CASE FlushBegin \/ PickNothing
  BY <1>1, <1>3, <1>5 DEF FlushBegin, PickNothing, Flushed, WorkerRecord, bounds
<1>6. CASE FlushDelete \/ FlushSaved
  BY <1>1, <1>2, <1>3, <1>6 DEF FlushDelete, FlushSaved, WorkerRecord, Works, bounds
<1>7. CASE FlushSave
  BY <1>1, <1>3, <1>7 DEF FlushSave, WorkerRecord, bounds
<1>8. CASE \E z \in Zones : PickDelete(z) \/ PickSnapshot(z)
  BY <1>1, <1>3, <1>8 DEF PickDelete, PickSnapshot, WorkerRecord, bounds
<1>9. CASE PutBack \/ \E z \in Zones : SaveForfeit(z)
  BY <1>2, <1>3, <1>4, <1>9 DEF PutBack, SaveForfeit, Works, bounds
<1>10. CASE Worker
  BY <1>5, <1>6, <1>7, <1>8, <1>9, <1>10 DEF Worker
<1>11. CASE Remover
  BY <1>2, <1>3, <1>11 DEF Remover, RemoveLoad, RemoveRead, RemoveMark, RemoveStamp, RemoveSave, RemoveSaved,
                           RemoveDiscard, RemoveDelete, RemoveLeave, RemovalStays, Works, bounds
<1>12. CASE Restart
  BY <1>3, <1>12 DEF Restart, Idle
<1>13. CASE \/ Close \/ UNCHANGED vars \/ Saves \/ \E z \in Zones : Complete(z)
            \/ \E z \in Zones, u \in Users : Defeat(z, u) \/ Leave(z, u) \/ Restore(z, u) \/ RemoveBegin(z, u)
  BY ZenonT(40), <1>3, <1>13 DEF Close, Saves, Capture, Record, GiveUp, Complete, Defeat, Leave, Restore, RemoveBegin,
                     RemovalStays, vars, bounds
<1> QED BY <1>10, <1>11, <1>12, <1>13 DEF Next, Saves

\* The queue holds nothing that was forfeited.
IsClean(z) == pendingSnapshots[z] # None => pendingSnapshots[z].loot \cap forfeitedEquipments[z] = {}

LEMMA NextClean ==
    ASSUME Base, worker.pc # "putback", [Next]_vars, NEW z \in Zones, IsClean(z)
    PROVE  IsClean(z)'
<1> USE DEF IsClean
<1>1. CASE UNCHANGED <<pendingSnapshots, forfeitedEquipments>>
  BY <1>1
<1>2. CASE forfeitedEquipments' = forfeitedEquipments /\ pendingSnapshots'[z] \in {None, pendingSnapshots[z]}
  BY <1>2
<1>3. /\ pendingSnapshots \in [Zones -> Snapshot \cup {None}]
      /\ forfeitedEquipments \in [Zones -> SUBSET Users]
  BY DEF Base, TypeInv, ManagerTypes
<1>4. ASSUME NEW y \in Zones, NEW u \in Users, Forfeited(y, u) PROVE IsClean(z)'
  <2>1. CASE u \notin loot[y]
    BY <1>1, <1>4, <2>1 DEF Forfeited
  <2>2. CASE u \in loot[y]
    <3> DEFINE lost == forfeitedEquipments[y] \cup {u}
               cleaned == IF pendingSnapshots[y] = None THEN None
                          ELSE WithoutEquipment(pendingSnapshots[y], lost)
    <3>1. /\ forfeitedEquipments' = [forfeitedEquipments EXCEPT ![y] = lost]
          /\ pendingSnapshots' = [pendingSnapshots EXCEPT ![y] = cleaned]
      BY <1>4, <2>2 DEF Forfeited
    <3>2. cleaned # None => cleaned.loot \cap lost = {}
      BY <1>3, SnapshotParts, EquipmentGone
    <3> HIDE DEF cleaned, lost
    <3> QED BY <1>3, <3>1, <3>2
  <2> QED BY <2>1, <2>2
<1>5. ASSUME NEW y \in Zones, markDiscarded(y), forfeitedEquipments' = forfeitedEquipments PROVE IsClean(z)'
  BY <1>2, <1>5, MarkedKeeps
<1>6. ASSUME NEW c \in captures, Record(c) PROVE IsClean(z)'
  <2>1. CASE UNCHANGED pendingSnapshots
    BY <1>1, <1>6, <2>1, RecordParts
  <2>2. CASE pendingSnapshots' = [pendingSnapshots EXCEPT ![c.zone] = Taken(c)]
    <3>1. forfeitedEquipments' = forfeitedEquipments /\ Taken(c).loot \cap forfeitedEquipments[c.zone] = {}
      BY <1>6, RecordParts, TakenType
    <3>2. pendingSnapshots'[z] = pendingSnapshots[z] \/ (z = c.zone /\ pendingSnapshots'[z] = Taken(c))
      BY <1>3, <2>2
    <3> QED BY <3>1, <3>2
  <2> QED BY <1>6, <2>1, <2>2, RecordParts
<1>7. CASE Restart
  BY <1>7 DEF Restart
<1>8. CASE RemoveDiscard \/ RemoveLeave
  <2>1. remover.zone \in Zones /\ remover.user \in Users
    BY <1>8 DEF RemoveDiscard, RemoveLeave, Base, RemovalInv
  <2> QED BY <1>1, <1>4, <1>5, <1>8, <2>1 DEF RemoveDiscard, RemoveLeave
<1>9. CASE RemoveMark
  BY <1>2, <1>3, <1>9 DEF RemoveMark
<1>10. CASE Remover
  BY <1>1, <1>8, <1>9, <1>10 DEF Remover, RemoveLoad, RemoveRead, RemoveStamp, RemoveSave, RemoveSaved,
                                 RemoveDelete, queues, marks
<1>11. CASE \E y \in Zones : PickSnapshot(y)
  BY <1>2, <1>3, <1>11 DEF PickSnapshot, marks
<1>12. CASE Worker
  BY <1>1, <1>11, <1>12 DEF Worker, FlushBegin, PickNothing, FlushDelete, FlushSave, FlushSaved, PutBack,
                            SaveForfeit, PickDelete, queues, marks
<1>13. CASE Saves
  BY <1>1, <1>6, <1>13 DEF Saves, Capture, GiveUp, queues, marks
<1>14. CASE \E y \in Zones : Complete(y)
  BY <1>5, <1>14 DEF Complete
<1>15. CASE \E y \in Zones, u \in Users : Defeat(y, u) \/ Leave(y, u)
  BY <1>4, <1>15 DEF Defeat, Leave
<1>16. CASE \/ Close \/ UNCHANGED vars
            \/ \E y \in Zones, u \in Users : Restore(y, u) \/ RemoveBegin(y, u)
  BY <1>1, <1>16 DEF Close, Restore, RemoveBegin, queues, marks, vars
<1> QED BY <1>7, <1>10, <1>12, <1>13, <1>14, <1>15, <1>16 DEF Next, Saves

LEMMA NextLoot ==
    ASSUME Base, FaultFree, LootInv, ForfeitStored, [Next]_vars
    PROVE  FaultFree' /\ LootInv' /\ ForfeitStored'
<1>1. MuInv /\ MuInv' /\ Base'
  BY NextBase DEF Base
<1>4. FaultFree'
  BY NextFaultFree
<1>5. ASSUME NEW z \in Zones, faults' = 0 PROVE IsClean(z)'
  <2>1. faults = 0 /\ worker.pc # "putback"
    BY <1>5, NextFaultFree DEF FaultFree
  <2>2. IsClean(z)
    BY <2>1 DEF ForfeitStored, IsClean
  <2> QED BY <2>1, <2>2, NextClean
<1>2. CASE Restart
  BY <1>2, <1>4 DEF Restart, Idle, NoRemoval, LootInv, ForfeitStored, Base, ManagerTypes
<1>3. CASE ~Restart
  <2>1. ASSUME NEW z \in Zones, z \notin pendingForfeits', row'[z] # None
        PROVE  row'[z].loot \cap forfeitedEquipments'[z] = {}
    <3>1. CASE z \in pendingForfeits
      BY <1>3, <2>1, <3>1, LossMoves, LoadedRow DEF Base
    <3>2. CASE z \notin pendingForfeits
      <4>1. forfeitedEquipments'[z] = forfeitedEquipments[z]
        BY <1>3, <2>1, LossMoves
      <4>2. row[z] # None => /\ row[z].loot \cap forfeitedEquipments[z] = {}
                             /\ Loaded(z).loot = row[z].loot \ forfeitedEquipments[z]
        BY <3>2, LoadedRow DEF ForfeitStored, Base
      <4> QED BY <2>1, <3>2, <4>1, <4>2, RowMoves DEF RowMove, Overwrites, LootInv
    <3> QED BY <3>1, <3>2
  <2>2. ASSUME worker'.pc = "saving", worker'.zone \notin pendingForfeits'
        PROVE  worker'.payload.loot \cap forfeitedEquipments'[worker'.zone] = {}
    <3>1. worker'.zone \in Zones /\ storeMu' = "worker"
      BY <1>1, <2>2 DEF Base, WorkInv, InHand, MuInv
    <3>2. worker'.zone \notin pendingForfeits /\ forfeitedEquipments'[worker'.zone] = forfeitedEquipments[worker'.zone]
      BY <1>3, <2>2, <3>1, LossMoves, CheckpointAssumption
    <3> QED BY <2>2, <3>2, WorkerEnters, SavingWorker DEF LootInv
  <2>3. ASSUME remover'.pc = "saving", remover'.zone \notin pendingForfeits'
        PROVE  remover'.snapshot.loot \cap forfeitedEquipments'[remover'.zone] = {}
    <3>1. remover'.zone \in Zones /\ storeMu' = "remover"
      BY <1>1, <2>3 DEF Base, RemovalInv, MuInv
    <3>2. remover'.zone \notin pendingForfeits /\ forfeitedEquipments'[remover'.zone] = forfeitedEquipments[remover'.zone]
      BY <1>3, <2>3, <3>1, LossMoves, CheckpointAssumption
    <3> QED BY <2>3, <3>2, RemovalEnters, SavingRemoval DEF LootInv
  <2> QED BY <1>4, <1>5, <2>1, <2>2, <2>3 DEF LootInv, ForfeitStored, IsClean
<1> QED BY <1>2, <1>3

\* Loot a player has forfeited, even while a capture that holds it is under way,
\* leaves the row with the forfeiture's own write and comes back with no older
\* snapshot, be it captured, queued, in flight or in a removal's hand.
THEOREM ForfeitsStayOut == Spec => []ForfeitStored
<1>1. Init => FaultFree /\ LootInv /\ ForfeitStored
  BY DEF Init, FaultFree, LootInv, ForfeitStored, Idle, NoRemoval
<1>2. Base /\ FaultFree /\ LootInv /\ ForfeitStored /\ [Next]_vars => FaultFree' /\ LootInv' /\ ForfeitStored'
  BY NextLoot
<1> QED BY <1>1, <1>2, BaseInductive, PTL DEF Spec
-----------------------------------------------------------------------------
(* A member whose removal was stored stays out of the row.                 *)

\* A snapshot of the zone outside the store that lists the user.
Lists(z, u, s) == /\ s # None /\ u \in s.members
                  /\ \/ s = pendingSnapshots[z]
                     \/ worker.zone = z /\ s = worker.snapshot

\* The row lists the user.
RowLists(z, u) == row[z] # None /\ u \in row[z].members

\* While a member is being removed no new snapshot lists him, and those that do
\* are older than the one without him.
DeclinedInv ==
    /\ remover.pc \in {"stamp", "save", "saving"} =>
           /\ remover.user \in declinedMembers[remover.zone]
           /\ remover.user \notin remover.snapshot.members
    /\ remover.pc \in {"save", "saving"} =>
           /\ \A s \in Snapshot : Lists(remover.zone, remover.user, s) => s.revision < remover.snapshot.revision
           /\ RowLists(remover.zone, remover.user) => row[remover.zone].revision < remover.snapshot.revision

\* The zone is over and nobody is in the store for it, or its row is newer than
\* every snapshot that lists the user.
Outdated(z, u) ==
    \/ z \in discardedZones /\ ~IsWriting(z)
    \/ row[z] # None /\ \A s \in Snapshot : Lists(z, u, s) => s.revision < row[z].revision

\* A member whose removal was stored is either unknown to this process or declined
\* in it, and then what still lists him is older than the row.
IsPruned(z, u) ==
    /\ ~RowLists(z, u)
    /\ remover.pc \in {"mark", "stamp", "save", "saving"} /\ remover.zone = z => u \notin remover.snapshot.members
    /\ \/ /\ u \notin crew[z] /\ \A s \in Snapshot : ~Lists(z, u, s)
          /\ \A c \in captures : c.zone = z => u \notin c.members
       \/ /\ u \in declinedMembers[z] /\ z \in exposed
          /\ remover.zone = z => remover.pc = "leave"
          /\ Outdated(z, u)
PrunedInv == \A z \in Zones, u \in Users : <<z, u>> \in pruned => IsPruned(z, u)

\* What lists the user was queued or in hand before, but for what Record takes.
LEMMA ListMoves ==
    ASSUME Base, [Next]_vars, NEW z \in Zones, NEW u \in Users, NEW s \in Snapshot, Lists(z, u, s)'
    PROVE  \/ \E c \in captures : c.zone = z /\ u \in c.members /\ u \notin declinedMembers[z]
           \/ \E t \in Snapshot : Lists(z, u, t) /\ t.revision = s.revision
<1>1. \A y \in Zones : pendingSnapshots[y] # None => pendingSnapshots[y] \in Snapshot
  BY DEF Base, TypeInv
<1>2. worker.snapshot # None => worker.snapshot \in Snapshot
  BY DEF Base, TypeInv, WorkerRecord
<1>3. CASE s = pendingSnapshots'[z] /\ u \in s.members
  <2>1. CASE pendingSnapshots'[z] = pendingSnapshots[z]
    BY <1>3, <2>1 DEF Lists
  <2>2. CASE /\ pendingSnapshots[z] # None /\ Same(pendingSnapshots'[z], pendingSnapshots[z])
    BY <1>1, <1>3, <2>2 DEF Lists, Same
  <2>3. CASE Takes(z)
    BY <1>3, <2>3, TakenType DEF Takes
  <2>4. CASE PutsBack(z)
    BY <1>3, <2>4, SnapshotParts DEF PutsBack, Lists
  <2>5. s # None
    BY SnapshotParts
  <2> QED BY <1>3, <2>1, <2>2, <2>3, <2>4, <2>5, QueueMoves DEF QueueMove
<1>4. CASE worker'.zone = z /\ s = worker'.snapshot /\ u \in s.members
  <2>1. s # None
    BY SnapshotParts
  <2> QED BY <1>1, <1>2, <1>4, <2>1, HandMoves DEF HandMove, Lists
<1> QED BY <1>3, <1>4 DEF Lists

\* The row lists the user because it did, or because of the write in the store.
LEMMA RowListMoves ==
    ASSUME Base, [Next]_vars, NEW z \in Zones, NEW u \in Users, RowLists(z, u)'
    PROVE  \/ RowLists(z, u) /\ row'[z].revision = row[z].revision
           \/ /\ worker.pc = "saving" /\ worker.zone = z
              /\ row[z] # None => row[z].revision <= row'[z].revision
              /\ \E t \in Snapshot : Lists(z, u, t) /\ t.revision = row'[z].revision
           \/ remover.pc = "saving" /\ remover.zone = z /\ u \in remover.snapshot.members
<1>1. row'[z] # None /\ u \in row'[z].members
  BY DEF RowLists
<1>2. CASE row'[z] = row[z]
  BY <1>1, <1>2 DEF RowLists
<1>3. CASE row[z] # None /\ row'[z] = Loaded(z)
  BY <1>1, <1>3, LoadedRow DEF RowLists, Base
<1>4. CASE worker.pc = "saving" /\ worker.zone = z /\ Overwrites(z, worker.payload)
  <2>1. /\ worker.snapshot \in Snapshot /\ worker.snapshot # None
        /\ worker.payload.members = worker.snapshot.members
        /\ worker.payload.revision = worker.snapshot.revision
    BY <1>4, SnapshotParts DEF Base, WorkInv, InHand
  <2> QED BY <1>1, <1>4, <2>1 DEF Overwrites, Lists
<1>5. CASE remover.pc = "saving" /\ remover.zone = z /\ Overwrites(z, remover.snapshot)
  BY <1>1, <1>5 DEF Overwrites
<1> QED BY <1>1, <1>2, <1>3, <1>4, <1>5, RowMoves DEF RowMove

\* A declined member is given back only by the removal that ends, or a restart.
LEMMA DeclinedMoves ==
    ASSUME Base, [Next]_vars, ~Restart
    PROVE  \A z \in Zones :
               \/ declinedMembers[z] \subseteq declinedMembers'[z]
               \/ remover.zone = z /\ remover.pc \in {"save", "saving", "delete"} /\ remover'.pc = "idle"
<1>1. CASE declinedMembers' = declinedMembers
  BY <1>1
<1>2. declinedMembers \in [Zones -> SUBSET Users]
  BY DEF Base, ManagerTypes
<1>3. CASE restoreDeclinedMember /\ Ends(None) /\ remover.pc \in {"save", "saving", "delete"}
  BY <1>2, <1>3 DEF restoreDeclinedMember, Ends, NoRemoval
<1>4. CASE RemoveMark
  BY <1>2, <1>4 DEF RemoveMark
<1>5. CASE RemoveSave \/ RemoveSaved \/ RemoveDelete
  BY <1>1, <1>3, <1>5 DEF RemoveSave, RemoveSaved, RemoveDelete
<1>6. CASE Remover
  BY <1>1, <1>4, <1>5, <1>6 DEF Remover, RemoveLoad, RemoveRead, RemoveStamp, RemoveDiscard, RemoveLeave, marks
<1>7. CASE Worker
  BY <1>1, <1>7 DEF Worker, FlushBegin, PickNothing, FlushDelete, FlushSave, FlushSaved, PutBack,
                    SaveForfeit, PickDelete, PickSnapshot, marks
<1>8. CASE \/ Close \/ UNCHANGED vars
           \/ Saves \/ \E z \in Zones : Complete(z)
           \/ \E z \in Zones, u \in Users : Defeat(z, u) \/ Leave(z, u) \/ Restore(z, u) \/ RemoveBegin(z, u)
  BY <1>1, <1>8 DEF Close, Saves, Capture, Record, GiveUp, Complete, Defeat, Leave, Restore, RemoveBegin, vars, marks
<1> QED BY <1>6, <1>7, <1>8 DEF Next, Saves
LEMMA NextDeclined == ASSUME Base, DeclinedInv, [Next]_vars PROVE DeclinedInv'
<1>1. Base' /\ IsRemoval(remover) /\ revision \in Nat
  BY NextBase DEF Base, TypeInv, ManagerTypes
<1>2. ASSUME remover'.pc \in {"stamp", "save", "saving"}
      PROVE  /\ remover'.user \in declinedMembers'[remover'.zone]
             /\ remover'.user \notin remover'.snapshot.members
  <2>1. remover'.zone \in Zones /\ ~Restart
    BY <1>1, <1>2 DEF Base, RemovalInv, Restart, NoRemoval
  <2>2. CASE RemoveMark
    <3>1. /\ remover'.zone = remover.zone /\ remover'.user = remover.user
          /\ remover'.snapshot.members = remover.snapshot.members \ {remover.user}
      BY <2>2, MarkedRemoval
    <3>2. declinedMembers' = [declinedMembers EXCEPT ![remover.zone] = @ \cup {remover.user}]
      BY <2>2 DEF RemoveMark
    <3> QED BY <2>1, <3>1, <3>2 DEF Base, ManagerTypes
  <2>3. CASE remover' = remover \/ RemoveStamp \/ (RemoveSave /\ remover.zone \notin discardedZones)
    <3>1. /\ remover.pc \in {"stamp", "save", "saving"} /\ remover'.zone = remover.zone
          /\ remover'.user = remover.user /\ remover'.snapshot.members = remover.snapshot.members
      BY <1>2, <2>3, StampedRemoval, SavingRemoval DEF RemoveStamp, RemoveSave
    <3>2. declinedMembers[remover.zone] \subseteq declinedMembers'[remover.zone]
      BY <1>2, <2>1, <3>1, DeclinedMoves
    <3> QED BY <3>1, <3>2 DEF DeclinedInv
  <2> QED BY <1>2, <2>2, <2>3, RemovalHands
<1>3. ASSUME remover'.pc \in {"save", "saving"}, NEW z \in Zones, NEW u \in Users,
             z = remover'.zone, u = remover'.user
      PROVE  /\ \A s \in Snapshot : Lists(z, u, s)' => s.revision < remover'.snapshot.revision
             /\ RowLists(z, u)' => row'[z].revision < remover'.snapshot.revision
  <2>1. CASE RemoveStamp
    <3>1. remover'.snapshot.revision = revision + 1
      BY <2>1, StampedRemoval
    <3>2. UNCHANGED <<pendingSnapshots, worker, row>>
      BY <2>1 DEF RemoveStamp, RemovalStays, queues, tables
    <3>3. ASSUME NEW s \in Snapshot, Lists(z, u, s) PROVE s.revision < remover'.snapshot.revision
      <4>1. s.revision <= revision /\ s.revision \in Nat
        BY <3>3, SnapshotParts DEF Lists, Base, RevInv
      <4> QED BY <1>1, <3>1, <4>1
    <3>4. ASSUME RowLists(z, u) PROVE row[z].revision < remover'.snapshot.revision
      <4>1. row[z].revision <= revision /\ row[z].revision \in Nat
        BY <3>4, SnapshotParts DEF RowLists, Base, RevInv, TypeInv
      <4> QED BY <1>1, <3>1, <4>1
    <3> QED BY <3>2, <3>3, <3>4 DEF Lists, RowLists
  <2>2. CASE remover' = remover \/ (RemoveSave /\ remover.zone \notin discardedZones)
    <3>1. /\ remover.pc \in {"save", "saving"} /\ remover.zone = z /\ remover.user = u
          /\ remover'.snapshot.revision = remover.snapshot.revision
      BY <1>3, <2>2, SavingRemoval DEF RemoveSave
    <3>2. /\ \A s \in Snapshot : Lists(z, u, s) => s.revision < remover.snapshot.revision
          /\ RowLists(z, u) => row[z].revision < remover.snapshot.revision
          /\ u \in declinedMembers[z] /\ u \notin remover.snapshot.members
      BY <3>1 DEF DeclinedInv
    <3>3. ASSUME NEW s \in Snapshot, Lists(z, u, s)' PROVE s.revision < remover'.snapshot.revision
      BY <3>1, <3>2, <3>3, ListMoves
    <3>4. ASSUME RowLists(z, u)' PROVE row'[z].revision < remover'.snapshot.revision
      BY <3>1, <3>2, <3>4, RowListMoves
    <3> QED BY <3>3, <3>4
  <2> QED BY <1>3, <2>1, <2>2, MarkedRemoval, RemovalHands
<1>4. ASSUME remover'.pc \in {"save", "saving"}
      PROVE  /\ \A s \in Snapshot : Lists(remover.zone, remover.user, s)' => s.revision < remover'.snapshot.revision
             /\ RowLists(remover.zone, remover.user)' => row'[remover'.zone].revision < remover'.snapshot.revision
  <2>1. remover'.zone \in Zones /\ remover'.user \in Users
    BY <1>1, <1>4 DEF Base, RemovalInv
  <2>2. PICK z \in Zones, u \in Users : z = remover'.zone /\ u = remover'.user
    BY <2>1
  <2> QED BY <1>3, <1>4, <2>2 DEF Lists, RowLists
<1> QED BY <1>2, <1>4 DEF DeclinedInv

LEMMA PrunedGrows ==
    ASSUME [Next]_vars
    PROVE  \/ pruned' = pruned
           \/ /\ RemoveSaved /\ Works /\ Written(remover.snapshot, remover.zone)
              /\ Ends(Cardinality(remover.snapshot.members)) /\ UNCHANGED declinedMembers
              /\ pruned' = pruned \cup {<<remover.zone, remover.user>>}
<1>1. CASE Worker
  BY <1>1 DEF Worker, FlushBegin, PickNothing, FlushDelete, FlushSave, FlushSaved, PutBack,
              SaveForfeit, PickDelete, PickSnapshot, history
<1>2. CASE RemoveSaved
  BY <1>2 DEF RemoveSaved
<1>3. CASE Remover /\ ~RemoveSaved
  BY <1>3 DEF Remover, RemoveLoad, RemoveRead, RemoveMark, RemoveStamp, RemoveSave,
              RemoveDiscard, RemoveDelete, RemoveLeave, history
<1>4. CASE \/ Close \/ Restart \/ UNCHANGED vars
           \/ Saves \/ \E z \in Zones : Complete(z)
           \/ \E z \in Zones, u \in Users : Defeat(z, u) \/ Leave(z, u) \/ Restore(z, u) \/ RemoveBegin(z, u)
  BY <1>4 DEF Close, Restart, Saves, Capture, Record, GiveUp, Complete, Defeat, Leave, Restore, RemoveBegin, vars, history
<1> QED BY <1>1, <1>2, <1>3, <1>4 DEF Next, Saves

\* The removal that has just stored its snapshot.
LEMMA NewlyPruned ==
    ASSUME Base, DeclinedInv, RemoveSaved, NEW z \in Zones, NEW u \in Users,
           z = remover.zone, u = remover.user,
           Written(remover.snapshot, remover.zone),
           Ends(Cardinality(remover.snapshot.members)), UNCHANGED declinedMembers
    PROVE  IsPruned(z, u)'
<1> DEFINE mine == remover.snapshot
<1>1. /\ remover.pc = "saving" /\ z \in exposed /\ mine \in Snapshot /\ mine.revision \in Nat
  BY SnapshotParts DEF RemoveSaved, Base, RemovalInv
<1>2. /\ u \in declinedMembers[z] /\ u \notin mine.members
      /\ \A s \in Snapshot : Lists(z, u, s) => s.revision < mine.revision
      /\ RowLists(z, u) => row[z].revision < mine.revision
  BY <1>1 DEF DeclinedInv
<1>3. UNCHANGED <<pendingSnapshots, worker, exposed, declinedMembers>>
  BY DEF RemoveSaved, RemovalStays, queues
<1>4. /\ row'[z] # None /\ row'[z].revision >= mine.revision /\ row'[z] \in Snapshot
      /\ \/ row'[z] = mine
         \/ row'[z] = row[z] /\ row[z] # None /\ row[z].revision > mine.revision
  BY <1>1, WrittenRow DEF Base
<1>5. remover'.pc = "leave" \/ (remover'.pc = "idle" /\ remover'.zone = None)
  BY <1>1, Ended
<1>6. ~RowLists(z, u)'
  <2>1. row[z] # None => row[z].revision \in Nat
    BY SnapshotParts DEF Base, TypeInv
  <2> QED BY <1>1, <1>2, <1>4, <2>1 DEF RowLists
<1>7. Outdated(z, u)'
  <2>1. ASSUME NEW s \in Snapshot, Lists(z, u, s)' PROVE s.revision < row'[z].revision
    <3>1. Lists(z, u, s)
      BY <1>3, <2>1 DEF Lists
    <3>2. s.revision \in Nat /\ row'[z].revision \in Nat
      BY <1>4, SnapshotParts
    <3> QED BY <1>1, <1>2, <1>4, <3>1, <3>2
  <2> QED BY <1>4, <2>1 DEF Outdated, Lists
<1> HIDE DEF mine
<1> QED BY <1>1, <1>2, <1>3, <1>5, <1>6, <1>7, CheckpointAssumption DEF IsPruned
LEMMA PrunedHand ==
    ASSUME Base, [Next]_vars, NEW z \in Zones, NEW u \in Users, IsPruned(z, u),
           remover'.pc \in {"mark", "stamp", "save", "saving"}, remover'.zone = z
    PROVE  u \notin remover'.snapshot.members
<1>1. CASE RemoveMark
  BY <1>1, MarkedRemoval DEF RemoveMark, IsPruned
<1>2. CASE RemoveStamp
  BY <1>2, StampedRemoval DEF RemoveStamp, IsPruned
<1>3. CASE RemoveSave /\ remover.zone \notin discardedZones
  BY <1>3, SavingRemoval DEF RemoveSave, IsPruned
<1>4. CASE remover' = remover
  BY <1>4 DEF IsPruned
<1>5. CASE /\ remover.pc \in {"load", "read"} /\ remover.zone = z
           /\ pendingSnapshots[z] # None /\ remover'.snapshot = pendingSnapshots[z]
  <2>1. \A s \in Snapshot : ~Lists(z, u, s)
    BY <1>5 DEF IsPruned
  <2>2. pendingSnapshots[z] \in Snapshot
    BY <1>5 DEF Base, TypeInv
  <2> QED BY <1>5, <2>1, <2>2 DEF Lists
<1>6. CASE /\ remover.pc \in {"load", "read"} /\ remover.zone = z
           /\ row[z] # None /\ remover'.snapshot = Loaded(z)
  BY <1>6, LoadedRow DEF IsPruned, RowLists, Base
<1> QED BY <1>1, <1>2, <1>3, <1>4, <1>5, <1>6, RemovalHands

LEMMA StaysPruned ==
    ASSUME Base, [Next]_vars, NEW z \in Zones, NEW u \in Users, IsPruned(z, u)
    PROVE  IsPruned(z, u)'
<1>1. ~RowLists(z, u)'
  <2>1. ASSUME worker.pc = "saving", worker.zone = z, NEW t \in Snapshot, Lists(z, u, t),
               row[z] # None => row[z].revision <= t.revision
        PROVE  FALSE
    <3>1. row[z] # None /\ t.revision < row[z].revision
      BY <2>1 DEF IsPruned, Outdated, IsWriting
    <3>2. row[z].revision \in Nat /\ t.revision \in Nat
      BY <3>1, SnapshotParts DEF Base, TypeInv
    <3> QED BY <2>1, <3>1, <3>2
  <2> QED BY <2>1, RowListMoves DEF IsPruned
<1>2. remover'.pc \in {"mark", "stamp", "save", "saving"} /\ remover'.zone = z => u \notin remover'.snapshot.members
  BY PrunedHand
<1>3. \/ /\ u \notin crew'[z] /\ \A s \in Snapshot : ~Lists(z, u, s)'
         /\ \A c \in captures' : c.zone = z => u \notin c.members
      \/ /\ u \in declinedMembers'[z] /\ z \in exposed'
         /\ remover'.zone = z => remover'.pc = "leave"
         /\ Outdated(z, u)'
  <2>1. CASE Restart
    BY <2>1, SnapshotParts DEF Restart, Idle, Lists
  <2>2. CASE /\ u \notin crew[z] /\ \A s \in Snapshot : ~Lists(z, u, s)
             /\ \A c \in captures : c.zone = z => u \notin c.members
    <3>1. \A s \in Snapshot : ~Lists(z, u, s)'
      BY <2>2, ListMoves
    <3>2. ASSUME NEW v \in Users, Restore(z, v) PROVE u \notin crew'[z]
      <4>1. crew'[z] = Load(z).members /\ Load(z) # None
        BY <3>2 DEF Restore, Base, ZoneTypes
      <4>2. pendingSnapshots[z] # None => pendingSnapshots[z] \in Snapshot
        BY DEF Base, TypeInv
      <4> QED BY <2>2, <4>1, <4>2, LoadFinds, LoadedRow DEF Lists, IsPruned, RowLists, Base
    <3>3. \A c \in captures' : c.zone = z => u \notin c.members
      BY <2>2, CaptureMoves
    <3> QED BY <2>2, <3>1, <3>2, <3>3, CrewMoves DEF CrewMove
  <2>3. CASE /\ ~Restart
             /\ u \in declinedMembers[z] /\ z \in exposed
             /\ remover.zone = z => remover.pc = "leave"
             /\ Outdated(z, u)
    <3>1. u \in declinedMembers'[z] /\ z \in exposed'
      BY <2>3, DeclinedMoves, Kept
    <3>2. remover'.zone = z => remover'.pc = "leave"
      <4>1. ASSUME NEW y \in Zones, NEW v \in Users, RemoveBegin(y, v) PROVE remover'.zone # z
        BY <2>3, <4>1 DEF RemoveBegin, NoRemoval
      <4> QED BY <2>3, <4>1, RemovalMoves, CheckpointAssumption DEF RemovalMove
    <3>3. CASE z \in discardedZones /\ ~IsWriting(z)
      BY <2>3, <3>1, <3>2, <3>3, WritingMoves, Kept DEF Outdated
    <3>4. CASE row[z] # None /\ \A s \in Snapshot : Lists(z, u, s) => s.revision < row[z].revision
      <4>1. row[z].revision \in Nat /\ (row'[z] # None => row'[z].revision \in Nat)
        BY <3>4, NextBase, SnapshotParts DEF Base, TypeInv
      <4>2. \A s \in Snapshot : Lists(z, u, s)' => s.revision < row[z].revision
        BY <2>3, <3>4, ListMoves
      <4>3. CASE row'[z] = None
        <5>1. z \in discardedZones /\ storeMu' = None
          <6>1. worker.pc = "saving" => worker.payload # None
            BY SnapshotParts DEF Base, WorkInv
          <6>2. remover.pc = "saving" => remover.snapshot # None
            BY SnapshotParts DEF Base, RemovalInv
          <6> QED BY <3>4, <4>3, <6>1, <6>2, RowMoves, LoadedRow DEF RowMove, Overwrites, Base
        <5>2. ~IsWriting(z)'
          BY <5>1, NextBase, CheckpointAssumption DEF IsWriting, Base, MuInv
        <5> QED BY <2>3, <3>1, <3>2, <5>1, <5>2, Kept DEF Outdated
      <4>4. CASE row'[z] # None
        <5>1. row[z].revision <= row'[z].revision
          BY <3>4, <4>1, <4>4, RowMoves, LoadedRow DEF RowMove, Overwrites, Base
        <5>2. \A s \in Snapshot : Lists(z, u, s)' => s.revision < row'[z].revision
          <6>1. \A s \in Snapshot : s.revision \in Nat
            BY SnapshotParts
          <6> QED BY <4>1, <4>2, <4>4, <5>1, <6>1
        <5>3. Outdated(z, u)'
          BY <4>4, <5>2 DEF Outdated
        <5> QED BY <3>1, <3>2, <5>3
      <4> QED BY <4>3, <4>4
    <3> QED BY <2>3, <3>3, <3>4 DEF Outdated
  <2> QED BY <2>1, <2>2, <2>3 DEF IsPruned
<1> QED BY <1>1, <1>2, <1>3 DEF IsPruned

LEMMA NextPruned == ASSUME Base, DeclinedInv, PrunedInv, [Next]_vars PROVE PrunedInv'
<1> SUFFICES ASSUME NEW z \in Zones, NEW u \in Users, <<z, u>> \in pruned' PROVE IsPruned(z, u)'
  BY DEF PrunedInv
<1>1. CASE <<z, u>> \in pruned
  BY <1>1, StaysPruned DEF PrunedInv
<1>2. CASE <<z, u>> \notin pruned
  BY <1>2, PrunedGrows, NewlyPruned
<1> QED BY <1>1, <1>2

\* Start Fresh is final: a member whose removal was stored comes back into the row
\* with no snapshot that was queued or in flight then, nor with a later one.
THEOREM PrunedStayOut == Spec => []RemovalStored
<1>1. Init => DeclinedInv /\ PrunedInv
  BY DEF Init, DeclinedInv, PrunedInv, NoRemoval
<1>2. Base /\ DeclinedInv /\ PrunedInv /\ [Next]_vars => DeclinedInv' /\ PrunedInv'
  BY NextDeclined, NextPruned
<1>3. Base /\ PrunedInv => RemovalStored
  BY DEF Base, TypeInv, Snapshot, PrunedInv, IsPruned, RowLists, RemovalStored
<1> QED BY <1>1, <1>2, <1>3, BaseInductive, PTL DEF Spec
-----------------------------------------------------------------------------
(* The last accepted snapshot is kept.                                     *)

\* Nothing is held that is newer than the last snapshot Record took of the zone, or
\* as new and another one; before the first there is only the row.
IsOrdered(z) ==
    /\ accepted[z] = Nothing => pendingSnapshots[z] = None /\ (worker.zone = z => worker.snapshot = None)
    /\ accepted[z] # Nothing => \A s \in Held(z) :
           /\ s.revision <= accepted[z].revision
           /\ s.revision = accepted[z].revision => IsLast(s, z)
OrderInv == \A z \in Zones \ exposed : IsOrdered(z)

LEMMA HeldParts ==
    ASSUME NEW z \in Zones
    PROVE  /\ row[z] # None => row[z] \in Held(z)
           /\ pendingSnapshots[z] # None => pendingSnapshots[z] \in Held(z)
           /\ worker.zone = z /\ worker.snapshot # None => worker.snapshot \in Held(z)
           /\ \A s \in Held(z) : /\ s # None
                                 /\ \/ s = row[z] \/ s = pendingSnapshots[z]
                                    \/ worker.zone = z /\ s = worker.snapshot
  BY DEF Held

LEMMA HeldType ==
    ASSUME Base, NEW z \in Zones, NEW s \in Held(z)
    PROVE  s \in Snapshot /\ s.revision \in Nat /\ s.revision <= revision
<1>1. s \in Snapshot /\ s.revision <= revision
  BY HeldParts DEF Base, TypeInv, WorkerRecord, RevInv
<1> QED BY <1>1, SnapshotParts

\* What a zone that no removal touched holds was held before, or is what Record takes.
LEMMA HeldMoves ==
    ASSUME Base, [Next]_vars, NEW z \in Zones \ exposed, NEW s, s \in Held(z)'
    PROVE  \/ \E t \in Held(z) : Same(s, t)
           \/ /\ Takes(z) /\ s = pendingSnapshots'[z] /\ s.revision = accepted'[z].revision
              /\ s.stage = accepted'[z].stage
<1>1. s # None /\ (s = row'[z] \/ s = pendingSnapshots'[z] \/ (worker'.zone = z /\ s = worker'.snapshot))
  BY DEF Held
<1>2. remover.pc = "saving" => remover.zone # z
  BY DEF Base, RemovalInv
<1>3. CASE s = row'[z]
  <2>1. CASE row'[z] = row[z]
    BY <1>1, <1>3, <2>1, HeldParts DEF Same
  <2>2. CASE row[z] # None /\ row'[z] = Loaded(z)
    BY <1>1, <1>3, <2>2, HeldParts, LoadedRow DEF Same, Base
  <2>3. CASE worker.pc = "saving" /\ worker.zone = z /\ row'[z] = worker.payload
    <3>1. /\ worker.snapshot # None /\ Same(worker.payload, worker.snapshot)
      BY <2>3, SnapshotParts DEF Base, WorkInv, InHand, Same
    <3> QED BY <1>3, <2>3, <3>1, HeldParts
  <2> QED BY <1>1, <1>2, <1>3, <2>1, <2>2, <2>3, RowMoves DEF RowMove, Overwrites
<1>4. CASE s = pendingSnapshots'[z]
  <2>1. CASE PutsBack(z)
    BY <1>1, <1>4, <2>1, HeldParts DEF PutsBack, Same
  <2>2. CASE Takes(z)
    BY <1>4, <2>2, TakenType DEF Takes
  <2> QED BY <1>1, <1>4, <2>1, <2>2, QueueMoves, HeldParts DEF QueueMove, Same
<1>5. CASE worker'.zone = z /\ s = worker'.snapshot
  BY <1>1, <1>5, HandMoves, HeldParts DEF HandMove, Same
<1> QED BY <1>1, <1>3, <1>4, <1>5

\* Only Record, and a restart, change what is the last snapshot that was accepted.
LEMMA AcceptedMoves ==
    ASSUME Base, [Next]_vars, ~Restart
    PROVE  \A z \in Zones : accepted'[z] = accepted[z] \/ Takes(z)
<1>1. CASE UNCHANGED accepted
  BY <1>1
<1>2. ASSUME NEW c \in captures, Record(c) PROVE \A z \in Zones : accepted'[z] = accepted[z] \/ Takes(z)
  <2>1. CASE /\ Taken(c) \in Snapshot /\ ~isClosing /\ c.zone \notin discardedZones
             /\ revision' = revision + 1
             /\ pendingSnapshots' = [pendingSnapshots EXCEPT ![c.zone] = Taken(c)]
             /\ accepted' = [accepted EXCEPT ![c.zone] = [stage |-> c.stage, revision |-> revision + 1]]
    BY <1>2, <2>1 DEF Takes, Base, TypeInv, ZoneTypes
  <2> QED BY <1>1, <1>2, <2>1, RecordParts
<1>3. CASE \E c \in captures : Record(c)
  BY <1>2, <1>3
<1>4. CASE \/ \E z \in Zones : Capture(z) \/ Complete(z)
          \/ \E c \in captures : GiveUp(c)
  BY <1>1, <1>4 DEF Capture, GiveUp, Complete, history
<1>5. CASE Worker
  BY <1>1, <1>5 DEF Worker, FlushBegin, PickNothing, FlushDelete, FlushSave, FlushSaved, PutBack,
                    SaveForfeit, PickDelete, PickSnapshot, history
<1>6. CASE Remover
  BY <1>1, <1>6 DEF Remover, RemoveLoad, RemoveRead, RemoveMark, RemoveStamp, RemoveSave, RemoveSaved,
                    RemoveDiscard, RemoveDelete, RemoveLeave, RemovalStays, history
<1>7. CASE \/ Close \/ UNCHANGED vars
           \/ \E z \in Zones, u \in Users : Defeat(z, u) \/ Leave(z, u) \/ Restore(z, u) \/ RemoveBegin(z, u)
  BY <1>1, <1>7 DEF Close, Defeat, Leave, Restore, RemoveBegin, RemovalStays, vars, history
<1> QED BY <1>3, <1>4, <1>5, <1>6, <1>7 DEF Next

\* The queue lets go of a snapshot only to the worker, or to make place for a newer
\* one, unless the zone is over or a removal has touched it.
LEMMA QueueLeaves ==
    ASSUME Base, [Next]_vars, ~Restart, NEW z \in Zones \ exposed, z \notin discardedZones',
           pendingSnapshots[z] # None, pendingSnapshots'[z] = None
    PROVE  worker'.zone = z /\ worker'.snapshot = pendingSnapshots[z]
<1>1. ASSUME NEW y \in Zones, PickSnapshot(y) PROVE worker'.zone = z /\ worker'.snapshot = pendingSnapshots[z]
  BY <1>1 DEF PickSnapshot, Base, TypeInv, WorkerRecord
<1>2. ASSUME NEW y \in Zones, markDiscarded(y) PROVE FALSE
  BY <1>2 DEF markDiscarded, Base, TypeInv
<1>3. ASSUME NEW y \in Zones, NEW u \in Users, Forfeited(y, u) PROVE FALSE
  BY <1>3, ForfeitedKeeps
<1>4. ASSUME NEW c \in captures, Record(c) PROVE FALSE
  <2>1. pendingSnapshots' = [pendingSnapshots EXCEPT ![c.zone] = Taken(c)] /\ Taken(c) # None
    BY <1>4, RecordParts, SnapshotParts
  <2> QED BY <2>1 DEF Base, TypeInv
<1>5. CASE RemoveMark
  BY <1>5 DEF RemoveMark, Base, TypeInv, RemovalInv
<1>6. CASE RemoveDiscard \/ RemoveLeave
  <2>1. remover.zone \in Zones /\ remover.user \in Users
    BY <1>6 DEF RemoveDiscard, RemoveLeave, Base, RemovalInv
  <2> QED BY <1>2, <1>3, <1>6, <2>1 DEF RemoveDiscard, RemoveLeave
<1>7. CASE PutBack
  <2>1. worker.snapshot # None
    BY <1>7, SnapshotParts DEF PutBack, Base, WorkInv, InHand
  <2> QED BY <1>7, <2>1 DEF PutBack, Base, TypeInv
<1>8. CASE Worker
  BY <1>1, <1>7, <1>8 DEF Worker, FlushBegin, PickNothing, FlushDelete, FlushSave, FlushSaved, SaveForfeit,
                          PickDelete, queues
<1>9. CASE Remover
  BY <1>5, <1>6, <1>9 DEF Remover, RemoveLoad, RemoveRead, RemoveStamp, RemoveSave, RemoveSaved, RemoveDelete, queues
<1>10. CASE Saves \/ \E y \in Zones : Complete(y)
  BY <1>2, <1>4, <1>10 DEF Saves, Capture, GiveUp, Complete, queues
<1>11. CASE \E y \in Zones, u \in Users : Defeat(y, u) \/ Leave(y, u)
  BY <1>3, <1>11 DEF Defeat, Leave
<1>12. CASE \/ Close \/ UNCHANGED vars
            \/ \E y \in Zones, u \in Users : Restore(y, u) \/ RemoveBegin(y, u)
  BY <1>12 DEF Close, Restore, RemoveBegin, queues, vars
<1> QED BY <1>8, <1>9, <1>10, <1>11, <1>12 DEF Next, Saves
\* The worker lets go of a snapshot once it is written, or queued again, or one at
\* least as new is in the row or in the queue, unless the zone is over.
LEMMA HandLeaves ==
    ASSUME Base, [Next]_vars, ~Restart, NEW z \in Zones, z \notin discardedZones',
           worker.zone = z, worker.snapshot # None
    PROVE  \/ worker'.zone = z /\ worker'.snapshot = worker.snapshot
           \/ row'[z] = worker.payload /\ worker.pc = "saving"
           \/ row'[z] = row[z] /\ row[z] # None /\ row[z].revision > worker.snapshot.revision
           \/ pendingSnapshots'[z] = worker.snapshot
           \/ /\ pendingSnapshots'[z] = pendingSnapshots[z] /\ pendingSnapshots[z] # None
              /\ pendingSnapshots[z].revision >= worker.snapshot.revision
<1>1. worker.pc \in InHand /\ worker \in WorkerRecord /\ z \notin discardedZones
  BY Kept DEF Base, WorkInv, TypeInv
<1>2. CASE worker' = worker
  BY <1>2
<1>3. CASE FlushSave
  BY <1>1, <1>3 DEF FlushSave, WorkerRecord
<1>4. CASE FlushSaved
  <2>1. worker.payload \in Snapshot /\ worker.payload.revision = worker.snapshot.revision
    BY <1>4 DEF FlushSaved, Base, WorkInv
  <2>2. CASE Written(worker.payload, z)
    BY <2>1, <2>2, <1>4, WriteMoves DEF FlushSaved, Overwrites
  <2>3. CASE worker' = [worker EXCEPT !.pc = "putback"]
    BY <1>1, <2>3 DEF WorkerRecord
  <2> QED BY <1>4, <2>2, <2>3 DEF FlushSaved
<1>5. CASE PutBack
  <2>1. z \notin pendingDeletes
    BY <1>1 DEF Base, ManagerTypes
  <2>2. CASE pendingSnapshots[z] # None /\ pendingSnapshots[z].revision >= worker.snapshot.revision
    BY <1>5, <2>2 DEF PutBack
  <2>3. CASE ~(pendingSnapshots[z] # None /\ pendingSnapshots[z].revision >= worker.snapshot.revision)
    BY <1>5, <2>1, <2>3 DEF PutBack, Base, TypeInv
  <2> QED BY <2>2, <2>3
<1>6. CASE Worker
  BY <1>1, <1>3, <1>4, <1>5, <1>6 DEF Worker, FlushBegin, PickNothing, FlushDelete, SaveForfeit, PickDelete,
                                      PickSnapshot, Picking, InHand
<1>7. CASE Remover
  BY <1>2, <1>7 DEF Remover, RemoveLoad, RemoveRead, RemoveMark, RemoveStamp, RemoveSave, RemoveSaved,
                    RemoveDiscard, RemoveDelete, RemoveLeave, RemovalStays
<1>8. CASE \/ Close \/ UNCHANGED vars
           \/ Saves \/ \E y \in Zones : Complete(y)
           \/ \E y \in Zones, u \in Users : Defeat(y, u) \/ Leave(y, u) \/ Restore(y, u) \/ RemoveBegin(y, u)
  BY <1>2, <1>8 DEF Close, Saves, Capture, Record, GiveUp, Complete, Defeat, Leave, Restore, RemoveBegin, RemovalStays, vars
<1> QED BY <1>6, <1>7, <1>8 DEF Next, Saves

\* A snapshot of a zone that nobody took over is held on, or one at least as new is.
LEMMA HeldStays ==
    ASSUME Base, [Next]_vars, ~Restart, NEW z \in Zones \ exposed, z \notin discardedZones', ~Takes(z),
           NEW s \in Held(z)
    PROVE  \E t \in Snapshot : t \in Held(z)' /\ t.revision >= s.revision
<1>1. Base' /\ z \notin discardedZones
  BY NextBase, Kept
<1>2. /\ row'[z] # None => row'[z] \in Snapshot /\ row'[z] \in Held(z)'
      /\ pendingSnapshots'[z] # None => pendingSnapshots'[z] \in Snapshot /\ pendingSnapshots'[z] \in Held(z)'
      /\ worker'.zone = z /\ worker'.snapshot # None => worker'.snapshot \in Snapshot /\ worker'.snapshot \in Held(z)'
  BY <1>1 DEF Held, Base, TypeInv, WorkerRecord
<1>3. \A t \in Held(z) : t \in Snapshot /\ t # None /\ t.revision \in Nat
  BY HeldType, HeldParts
<1>4. /\ row[z] # None => row[z] \in Held(z)
      /\ pendingSnapshots[z] # None => pendingSnapshots[z] \in Held(z)
      /\ worker.zone = z /\ worker.snapshot # None => worker.snapshot \in Held(z)
  BY HeldParts
<1>5. worker.pc = "saving" => /\ worker.payload # None /\ worker.payload.stage = worker.snapshot.stage
                              /\ worker.payload.revision = worker.snapshot.revision
                              /\ worker.snapshot # None
  BY SnapshotParts DEF Base, WorkInv, InHand
<1>6. CASE s = row[z]
  <2>1. s \in Snapshot /\ row[z] # None
    BY <1>3, <1>6
  <2>2. row'[z] # None /\ row'[z].revision >= s.revision
    <3>1. CASE row'[z] = row[z]
      BY <1>3, <1>6, <3>1
    <3>2. CASE row'[z] = Loaded(z)
      BY <1>3, <1>6, <3>2, LoadedRow DEF Base
    <3>3. CASE worker.pc = "saving" /\ worker.zone = z /\ Overwrites(z, worker.payload)
      BY <1>3, <1>4, <1>5, <1>6, <3>3 DEF Overwrites
    <3>4. CASE remover.pc = "saving" /\ remover.zone = z
      BY <3>4 DEF Base, RemovalInv
    <3> QED BY <1>1, <3>1, <3>2, <3>3, <3>4, RowMoves DEF RowMove
  <2> QED BY <1>2, <2>2
<1>7. CASE s = pendingSnapshots[z]
  <2>1. CASE pendingSnapshots'[z] = pendingSnapshots[z]
    BY <1>2, <1>3, <1>7, <2>1
  <2>2. CASE pendingSnapshots'[z] = None
    BY <1>2, <1>3, <1>7, <2>2, QueueLeaves
  <2>3. CASE pendingSnapshots'[z] # None /\ Same(pendingSnapshots'[z], pendingSnapshots[z])
    BY <1>2, <1>3, <1>7, <2>3 DEF Same
  <2>4. CASE PutsBack(z)
    <3>1. worker.snapshot # None /\ worker.snapshot \in Held(z) /\ worker.snapshot.revision \in Nat
      BY <1>3, <1>4, <2>4, SnapshotParts DEF PutsBack, Base, WorkInv, InHand
    <3>2. s.revision <= worker.snapshot.revision
      BY <1>3, <1>7, <2>4, <3>1 DEF PutsBack
    <3> QED BY <1>2, <1>3, <2>4, <3>1, <3>2 DEF PutsBack
  <2> QED BY <2>1, <2>2, <2>3, <2>4, QueueMoves DEF QueueMove
<1>8. CASE worker.zone = z /\ s = worker.snapshot
  <2>1. CASE worker'.zone = z /\ worker'.snapshot = worker.snapshot
    BY <1>2, <1>3, <1>8, <2>1
  <2>2. CASE row'[z] = worker.payload /\ worker.pc = "saving"
    BY <1>2, <1>3, <1>5, <1>8, <2>2
  <2>3. CASE row'[z] = row[z] /\ row[z] # None /\ row[z].revision > worker.snapshot.revision
    BY <1>2, <1>3, <1>4, <1>8, <2>3
  <2>4. CASE pendingSnapshots'[z] = worker.snapshot
    BY <1>2, <1>3, <1>8, <2>4
  <2>5. CASE /\ pendingSnapshots'[z] = pendingSnapshots[z] /\ pendingSnapshots[z] # None
             /\ pendingSnapshots[z].revision >= worker.snapshot.revision
    BY <1>2, <1>3, <1>4, <1>8, <2>5
  <2> QED BY <1>3, <1>8, <2>1, <2>2, <2>3, <2>4, <2>5, HandLeaves
<1> QED BY <1>6, <1>7, <1>8, HeldParts
\* Record takes a snapshot that is newer than all that is held.
LEMMA TakenOrder ==
    ASSUME Base, [Next]_vars, NEW z \in Zones \ exposed, Takes(z)
    PROVE  IsOrdered(z)' /\ \E s \in Held(z)' : IsLast(s, z)'
<1>1. PICK c \in captures : /\ pendingSnapshots'[z] = Taken(c) /\ Taken(c) \in Snapshot
                            /\ accepted'[z] = [stage |-> c.stage, revision |-> revision + 1]
  BY DEF Takes
<1>2. revision \in Nat /\ Taken(c) # None /\ Taken(c).revision = revision + 1 /\ Taken(c).stage = c.stage
  BY <1>1, TakenType, SnapshotParts DEF Base, ManagerTypes
<1>3. accepted'[z] # Nothing /\ accepted'[z].revision = revision + 1 /\ accepted'[z].stage = c.stage
  BY <1>1, <1>2 DEF Nothing
<1>4. ASSUME NEW s \in Held(z)'
      PROVE  s.revision <= accepted'[z].revision /\ (s.revision = accepted'[z].revision => IsLast(s, z)')
  <2>1. CASE \E t \in Held(z) : Same(s, t)
    <3>1. s.revision <= revision /\ s.revision \in Nat
      BY <2>1, HeldType DEF Same
    <3> QED BY <1>2, <1>3, <3>1
  <2>2. CASE s.revision = accepted'[z].revision /\ s.stage = accepted'[z].stage
    BY <1>2, <1>3, <2>2 DEF IsLast
  <2> QED BY <2>1, <2>2, HeldMoves
<1>5. PICK s \in Snapshot : s = Taken(c)
  BY <1>1
<1>6. s \in Held(z)' /\ IsLast(s, z)'
  BY <1>1, <1>2, <1>3, <1>5 DEF Held, IsLast
<1>7. IsOrdered(z)'
  BY <1>3, <1>4 DEF IsOrdered, IsLast
<1> QED BY <1>6, <1>7

\* Nothing is taken: what is held was held before.
LEMMA UntakenOrder ==
    ASSUME Base, [Next]_vars, ~Restart, NEW z \in Zones \ exposed, ~Takes(z), IsOrdered(z)
    PROVE  IsOrdered(z)'
<1>1. accepted'[z] = accepted[z]
  BY AcceptedMoves
<1>2. \A s \in Held(z)' : \E t \in Held(z) : Same(s, t)
  BY HeldMoves
<1>3. ASSUME accepted[z] = Nothing
      PROVE  pendingSnapshots'[z] = None /\ (worker'.zone = z => worker'.snapshot = None)
  <2>1. pendingSnapshots[z] = None /\ (worker.zone = z => worker.snapshot = None)
    BY <1>3 DEF IsOrdered
  <2>2. worker.zone = z => worker.pc \notin InHand
    BY <2>1, SnapshotParts DEF Base, WorkInv
  <2> QED BY <2>1, <2>2, QueueMoves, HandMoves DEF QueueMove, HandMove, PutsBack, InHand
<1>4. ASSUME accepted[z] # Nothing, NEW s \in Held(z)'
      PROVE  s.revision <= accepted[z].revision /\ (s.revision = accepted[z].revision => IsLast(s, z)')
  <2>1. PICK t \in Held(z) : Same(s, t)
    BY <1>2
  <2>2. t.revision <= accepted[z].revision /\ (t.revision = accepted[z].revision => t.stage = accepted[z].stage)
    BY <1>4, <2>1 DEF IsOrdered, IsLast
  <2> QED BY <1>1, <2>1, <2>2 DEF Same, IsLast
<1> QED BY <1>1, <1>3, <1>4 DEF IsOrdered

LEMMA NextKept == ASSUME Base, OrderInv, AcceptedKept, [Next]_vars PROVE OrderInv' /\ AcceptedKept'
<1>1. CASE Restart
  <2>1. ASSUME NEW z \in Zones PROVE IsOrdered(z)' /\ accepted'[z] = Nothing
    BY <1>1 DEF Restart, Idle, IsOrdered
  <2> QED BY <2>1 DEF OrderInv, AcceptedKept
<1>2. CASE ~Restart
  <2>1. ASSUME NEW z \in Zones \ exposed'
        PROVE  /\ IsOrdered(z)'
               /\ z \in discardedZones' \/ accepted'[z] = Nothing \/ \E s \in Held(z)' : IsLast(s, z)'
    <3>1. z \in Zones \ exposed /\ IsOrdered(z)
      BY <1>2, <2>1, Kept DEF OrderInv
    <3>2. CASE Takes(z)
      BY <3>1, <3>2, TakenOrder
    <3>3. CASE ~Takes(z)
      <4>1. IsOrdered(z)' /\ accepted'[z] = accepted[z]
        BY <1>2, <3>1, <3>3, UntakenOrder, AcceptedMoves
      <4>2. ASSUME z \notin discardedZones', accepted'[z] # Nothing
            PROVE  \E s \in Held(z)' : IsLast(s, z)'
        <5>1. z \notin discardedZones
          BY <1>2, <4>2, Kept
        <5>2. PICK s \in Held(z) : IsLast(s, z)
          BY <3>1, <4>1, <4>2, <5>1 DEF AcceptedKept
        <5>3. PICK t \in Snapshot : t \in Held(z)' /\ t.revision >= s.revision
          BY <1>2, <3>1, <3>3, <4>2, HeldStays
        <5>4. t.revision \in Nat /\ s.revision \in Nat /\ s.revision = accepted[z].revision
          BY <3>1, <5>2, HeldType, SnapshotParts DEF IsLast
        <5>5. /\ t.revision <= accepted'[z].revision
              /\ t.revision = accepted'[z].revision => IsLast(t, z)'
          BY <4>1, <4>2, <5>3 DEF IsOrdered, IsLast
        <5> QED BY <4>1, <5>3, <5>4, <5>5
      <4> QED BY <4>1, <4>2
    <3> QED BY <3>2, <3>3
  <2> QED BY <2>1 DEF OrderInv, AcceptedKept
<1> QED BY <1>1, <1>2
\* The last snapshot Record took of a zone survives failed and ambiguous writes,
\* forfeitures, restorations and the closing, until a removal or the end of the
\* zone takes over.
THEOREM AcceptedStays == Spec => []AcceptedKept
<1>1. Init => OrderInv /\ AcceptedKept
  <2> SUFFICES ASSUME Init PROVE \A z \in Zones : IsOrdered(z) /\ accepted[z] = Nothing
    BY DEF OrderInv, AcceptedKept
  <2> QED BY DEF Init, Idle, IsOrdered
<1>2. Base /\ OrderInv /\ AcceptedKept /\ [Next]_vars => OrderInv' /\ AcceptedKept'
  BY NextKept
<1> QED BY <1>1, <1>2, BaseInductive, PTL DEF Spec

-----------------------------------------------------------------------------
(* A Close without an error has done its work.                             *)

\* A worker that is done without an error has nothing left to do.
IsDone == worker.pc = "done" /\ ~closeErr
DoneInv == IsDone => \A z \in Zones \ exposed : pendingSnapshots[z] = None /\ z \notin pendingDeletes

\* The worker is done without an error only when it has found nothing to do.
LEMMA Finishes ==
    ASSUME Base, [Next]_vars, IsDone'
    PROVE  (IsDone /\ ~Restart) \/ PickNothing
<1>1. worker \in WorkerRecord
  BY DEF Base, TypeInv
<1>2. FlushFailed => ~IsDone'
  BY FailedWorker DEF IsDone
<1>3. ~Restart
  BY DEF Restart, Idle, IsDone
<1>4. CASE FlushBegin
  BY <1>1, <1>4 DEF FlushBegin, WorkerRecord, IsDone
<1>5. CASE FlushDelete
  BY <1>1, <1>2, <1>5 DEF FlushDelete, WorkerRecord, IsDone
<1>6. CASE FlushSave \/ FlushSaved
  BY <1>1, <1>6 DEF FlushSave, FlushSaved, WorkerRecord, IsDone
<1>7. CASE PutBack
  BY <1>2, <1>7 DEF PutBack
<1>8. ASSUME NEW z \in Zones, SaveForfeit(z) PROVE FALSE
  <2>1. worker' = worker /\ worker.pc = "forfeit"
    BY <1>2, <1>8 DEF SaveForfeit
  <2> QED BY <2>1 DEF IsDone
<1>9. ASSUME NEW z \in Zones, PickDelete(z) \/ PickSnapshot(z) PROVE FALSE
  BY <1>1, <1>9 DEF PickDelete, PickSnapshot, WorkerRecord, IsDone
<1>10. CASE worker' = worker /\ closeErr' = closeErr
  BY <1>3, <1>10 DEF IsDone
<1>11. CASE Worker
  BY <1>4, <1>5, <1>6, <1>7, <1>8, <1>9, <1>11 DEF Worker
<1>12. CASE Remover
  BY <1>10, <1>12 DEF Remover, RemoveLoad, RemoveRead, RemoveMark, RemoveStamp, RemoveSave, RemoveSaved,
                      RemoveDiscard, RemoveDelete, RemoveLeave, RemovalStays, closing
<1>13. CASE \/ Close \/ UNCHANGED vars
            \/ Saves \/ \E z \in Zones : Complete(z)
            \/ \E z \in Zones, u \in Users : Defeat(z, u) \/ Leave(z, u) \/ Restore(z, u) \/ RemoveBegin(z, u)
  BY ZenonT(40), <1>10, <1>13 DEF Close, Saves, Capture, Record, GiveUp, Complete, Defeat, Leave, Restore, RemoveBegin, RemovalStays, closing, vars
<1> QED BY <1>3, <1>11, <1>12, <1>13 DEF Next, Saves

\* Once the worker is done only a removal gives a zone something to delete.
LEMMA DoneDeletes ==
    ASSUME Base, [Next]_vars, worker.pc = "done", ~Restart, NEW z \in Zones \ exposed, z \in pendingDeletes'
    PROVE  z \in pendingDeletes
<1>1. isClosing /\ worker.pc # "idle"
  BY DEF Base, WorkInv
<1>2. remover.pc # "idle" => remover.zone # z
  BY DEF Base, RemovalInv
<1>3. CASE Worker
  BY <1>3 DEF Worker, FlushBegin, PickNothing, FlushDelete, FlushSave, FlushSaved, PutBack,
              SaveForfeit, PickDelete, PickSnapshot, queues
<1>4. CASE Remover
  <2>1. CASE RemoveDiscard \/ RemoveLeave
    BY <1>2, <2>1 DEF RemoveDiscard, RemoveLeave, markDiscarded
  <2>2. CASE RemoveDelete
    BY <2>2 DEF RemoveDelete
  <2> QED BY <1>4, <2>1, <2>2 DEF Remover, RemoveLoad, RemoveRead, RemoveMark, RemoveStamp, RemoveSave,
                                  RemoveSaved, queues
<1>5. CASE \/ Close \/ UNCHANGED vars
           \/ Saves \/ \E y \in Zones : Complete(y)
           \/ \E y \in Zones, u \in Users : Defeat(y, u) \/ Leave(y, u) \/ Restore(y, u) \/ RemoveBegin(y, u)
  BY <1>1, <1>5 DEF Close, Saves, Capture, Record, GiveUp, Complete, Defeat, Leave, Restore, RemoveBegin, queues, vars
<1> QED BY <1>3, <1>4, <1>5 DEF Next, Saves

LEMMA NextDone == ASSUME Base, DoneInv, [Next]_vars PROVE DoneInv'
<1> SUFFICES ASSUME IsDone', NEW z \in Zones \ exposed'
             PROVE  pendingSnapshots'[z] = None /\ z \notin pendingDeletes'
  BY DEF DoneInv
<1>1. CASE PickNothing
  BY <1>1 DEF PickNothing, queues
<1>2. CASE IsDone /\ ~Restart
  <2>1. z \notin exposed /\ pendingSnapshots[z] = None /\ z \notin pendingDeletes
    BY <1>2, Kept DEF DoneInv
  <2>2. isClosing /\ worker.pc = "done"
    BY <1>2 DEF IsDone, Base, WorkInv
  <2>3. pendingSnapshots'[z] = None
    BY <2>1, <2>2, QueueMoves DEF QueueMove, Takes, PutsBack
  <2>4. z \notin pendingDeletes'
    BY <1>2, <2>1, <2>2, DoneDeletes
  <2> QED BY <2>3, <2>4
<1> QED BY <1>1, <1>2, Finishes

\* A Close that reports no error has left no zone behind: the row of every zone
\* that no removal touched has the last snapshot, or is gone if the zone is over.
THEOREM CloseIsTruthful == Spec => []CloseTruthful
<1>1. Init => DoneInv /\ DeleteInv
  BY DEF Init, DoneInv, IsDone, DeleteInv, Idle
<1>2. Base /\ DoneInv /\ DeleteInv /\ [Next]_vars => DoneInv' /\ DeleteInv'
  BY NextDone, NextDelete
<1>3. ASSUME Base, DoneInv, DeleteInv, AcceptedKept PROVE CloseTruthful
  <2> SUFFICES ASSUME worker.pc = "done" /\ ~closeErr, NEW z \in Zones \ exposed
               PROVE  /\ z \in discardedZones => row[z] = None
                      /\ z \notin discardedZones /\ accepted[z] # Nothing => row[z] # None /\ IsLast(row[z], z)
    BY DEF CloseTruthful
  <2>1. pendingSnapshots[z] = None /\ z \notin pendingDeletes
    BY <1>3 DEF DoneInv, IsDone
  <2>2. z \in discardedZones => row[z] = None
    BY <2>1, <1>3 DEF DeleteInv
  <2>3. ASSUME z \notin discardedZones, accepted[z] # Nothing PROVE row[z] # None /\ IsLast(row[z], z)
    <3>1. worker.snapshot = None
      BY <1>3 DEF Base, WorkInv, InHand
    <3>2. PICK s \in Held(z) : IsLast(s, z)
      BY <1>3, <2>3 DEF AcceptedKept
    <3> QED BY <2>1, <3>1, <3>2, HeldParts
  <2> QED BY <2>2, <2>3
<1> QED BY <1>1, <1>2, <1>3, BaseInductive, AcceptedStays, PTL DEF Spec
=============================================================================
