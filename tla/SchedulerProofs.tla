--------------------------- MODULE SchedulerProofs ---------------------------
(***************************************************************************)
(* Proofs about Scheduler, for any tasks, clients, ID width and bounds.    *)
(*                                                                         *)
(* The inductive invariant says that the board and the heap agree although *)
(* cancellation leaves a task in the heap and only the take clears it: the *)
(* IDs in use are distinct (UniqueIDs), an active ID is that of a task in  *)
(* the heap (ActiveInv), a task is in one place only (PlaceInv), what a    *)
(* client inserts is in none yet (InsertInv), the dispatcher knows a task  *)
(* wherever it needs one and a task it is about to take is due (LoopInv),  *)
(* and a stopped scheduler is empty (StopInv).                             *)
(***************************************************************************)
EXTENDS Scheduler, TLAPS

UniqueIDs == \A m, n \in Tasks : id[m] = id[n] /\ id[m] # 0 /\ Allocated(m) => m = n

ActiveInv == \A i \in IDs : active[i] # None => /\ active[i] \in tasks
                                                /\ id[active[i]] = i /\ i # 0

\* Where a task can be once its Add has returned.
PlaceInv ==
    /\ \A n \in tasks : Allocated(n) /\ id[n] # 0 /\ ~Inserting(n) /\ n \notin running
    /\ \A n \in running : Allocated(n) /\ id[n] # 0 /\ ~Inserting(n)
    /\ LoopAt("begin") => /\ Allocated(loop.task) /\ id[loop.task] # 0 /\ ~Inserting(loop.task)
                          /\ loop.task \notin tasks /\ loop.task \notin running

InsertInv ==
    \A c \in Clients : At(c, "insert") =>
        LET n == client[c].task IN
        /\ n \in Tasks /\ Allocated(n) /\ id[n] # 0
        /\ \A d \in Clients : At(d, "insert") /\ client[d].task = n => d = c

LoopInv ==
    /\ loop.pc \in {"timer", "take", "begin", "watch"} => loop.task \in Tasks
    /\ LoopAt("take") => due[loop.task] <= now /\ Allocated(loop.task) /\ ~Inserting(loop.task)
    /\ LoopAt("timer") => Allocated(loop.task) /\ ~Inserting(loop.task)

StopInv == /\ isStopped <=> closer # "idle"
           /\ isStopped => tasks = {} /\ \A i \in IDs : active[i] = None

IInv == TypeOK /\ UniqueIDs /\ ActiveInv /\ PlaceInv /\ InsertInv /\ LoopInv /\ StopInv

-----------------------------------------------------------------------------
(* The invariant is inductive.                                             *)

LEMMA ModRange == ASSUME NEW a \in Nat, NEW b \in Nat \ {0} PROVE a % b \in 0..(b - 1)
  OBVIOUS

LEMMA AfterType == ASSUME NEW i \in IDs PROVE After(i) \in IDs /\ After(i) # 0
<1>1. i + 1 \in Nat /\ MaxID + 1 \in Nat \ {0} /\ MaxID \in Nat \ {0}
  BY ConstantsAssumption DEF IDs
<1>2. (i + 1) % (MaxID + 1) \in 0..((MaxID + 1) - 1)
  BY <1>1, ModRange
<1>3. (MaxID + 1) - 1 = MaxID
  BY <1>1
<1> DEFINE r == (i + 1) % (MaxID + 1)
<1>4. r \in 0..MaxID
  BY <1>2, <1>3
<1>5. After(i) = IF r = 0 THEN 1 ELSE r
  BY DEF After
<1> HIDE DEF r
<1> QED BY <1>1, <1>4, <1>5 DEF IDs

LEMMA InitInv == Init => IInv
<1> SUFFICES ASSUME Init PROVE IInv
  OBVIOUS
<1>1. TypeOK
  <2>1. nextID \in IDs /\ id \in [Tasks -> IDs \cup {None}] /\ due \in [Tasks -> Nat]
    BY ConstantsAssumption DEF Init, IDs
  <2>2. active \in [IDs -> Tasks \cup {None}] /\ now \in Nat
    BY DEF Init
  <2>3. loop \in [pc : Pcs, task : Tasks \cup {None}]
    BY DEF Init, Pcs
  <2>4. client \in [Clients -> [pc : {"idle", "insert", "notify"}, task : Tasks \cup {None}]]
    BY DEF Init
  <2> QED BY <2>1, <2>2, <2>3, <2>4 DEF Init, TypeOK
<1>2. UniqueIDs /\ ActiveInv /\ StopInv
  BY DEF Init, UniqueIDs, Allocated, ActiveInv, StopInv
<1>3. PlaceInv /\ InsertInv /\ LoopInv
  BY DEF Init, PlaceInv, InsertInv, LoopInv, LoopAt, At
<1> QED BY <1>1, <1>2, <1>3 DEF IInv

LEMMA AddBeginInv ==
  ASSUME IInv, NEW c \in Clients, NEW n \in Tasks, NEW delay \in 0..MaxDelay, AddBegin(c, n, delay)
  PROVE  IInv'
<1> DEFINE i == After(nextID)
<1>1. i \in IDs /\ i # 0
  BY AfterType DEF IInv, TypeOK
<1> HIDE DEF i
<1>2. /\ ~Allocated(n) /\ (\A m \in Tasks : id[m] # i)
      /\ nextID' = i /\ id' = [id EXCEPT ![n] = i] /\ due' = [due EXCEPT ![n] = now + delay]
      /\ client' = [client EXCEPT ![c] = [pc |-> "insert", task |-> n]]
      /\ At(c, "idle")
      /\ UNCHANGED <<board, wake, ends, running, loop, now>>
  BY DEF AddBegin, Go, i
<1>3. i # None /\ delay \in Nat
  BY <1>1, ConstantsAssumption DEF IDs
<1>4. TypeOK'
  BY <1>1, <1>2, <1>3, SMTT(30) DEF IInv, TypeOK, board, ends, Pcs
<1>5. \A m \in Tasks : m # n => id'[m] = id[m] /\ due'[m] = due[m]
  BY <1>2 DEF IInv, TypeOK
<1>6. id'[n] = i /\ id[n] = None
  BY <1>2 DEF IInv, TypeOK, Allocated
<1>7. client'[c] = [pc |-> "insert", task |-> n] /\ \A d \in Clients : d # c => client'[d] = client[d]
  BY <1>2 DEF IInv, TypeOK
<1>8. ~Inserting(n)
  BY <1>6 DEF IInv, InsertInv, Inserting, Allocated
<1>9. \A m \in Tasks : m # n => (Inserting(m)' <=> Inserting(m))
  BY <1>2, <1>7 DEF Inserting, At
<1>10. UniqueIDs'
  BY <1>2, <1>3, <1>5, <1>6 DEF IInv, UniqueIDs, Allocated
<1>11. n \notin tasks /\ n \notin running /\ (LoopAt("begin") => loop.task # n)
       /\ (LoopAt("take") \/ LoopAt("timer") => loop.task # n)
  BY <1>6 DEF IInv, PlaceInv, LoopInv, Allocated, TypeOK, LoopAt
<1>12. ActiveInv'
  BY <1>2, <1>5, <1>11 DEF IInv, TypeOK, ActiveInv, board
<1>13. PlaceInv'
  BY <1>2, <1>5, <1>9, <1>11 DEF IInv, TypeOK, PlaceInv, LoopInv, board, Allocated, LoopAt
<1>14. InsertInv'
  BY <1>1, <1>2, <1>3, <1>5, <1>6, <1>7, <1>8 DEF IInv, InsertInv, Allocated, At, Inserting
<1>15. LoopInv'
  BY <1>2, <1>5, <1>9, <1>11 DEF IInv, LoopInv, LoopAt, Allocated
<1>16. StopInv'
  BY <1>2 DEF IInv, StopInv, board, ends
<1> QED BY <1>4, <1>10, <1>12, <1>13, <1>14, <1>15, <1>16 DEF IInv

LEMMA AddInsertInv == ASSUME IInv, NEW c \in Clients, AddInsert(c) PROVE IInv'
<1>0. PICK n \in Tasks : n = client[c].task
  BY DEF AddInsert, IInv, InsertInv
<1>1. /\ At(c, "insert") /\ Allocated(n) /\ id[n] # 0 /\ id[n] \in IDs /\ Inserting(n)
      /\ \A d \in Clients : At(d, "insert") /\ client[d].task = n => d = c
  BY <1>0 DEF AddInsert, IInv, InsertInv, TypeOK, Inserting, Allocated
<1>2. /\ n \notin tasks /\ n \notin running /\ (LoopAt("begin") => loop.task # n)
      /\ (LoopAt("take") \/ LoopAt("timer") => loop.task # n)
  BY <1>1 DEF IInv, PlaceInv, LoopInv
<1>3. UNCHANGED <<nextID, due, wake, ends, running, loop, now>>
  BY DEF AddInsert
<1>4. PICK k \in {"idle", "notify"} : client' = [client EXCEPT ![c] = [pc |-> k, task |-> None]]
  BY DEF AddInsert, Go
<1>5. client'[c].pc # "insert" /\ \A d \in Clients : d # c => client'[d] = client[d]
  BY <1>4 DEF IInv, TypeOK
<1>6. client' \in [Clients -> [pc : {"idle", "insert", "notify"}, task : Tasks \cup {None}]]
  BY <1>4 DEF IInv, TypeOK
<1>7. ~Inserting(n)' /\ \A m \in Tasks : m # n => (Inserting(m)' <=> Inserting(m))
  <2>1. \A d \in Clients : At(d, "insert")' => At(d, "insert") /\ client'[d] = client[d] /\ d # c
    BY <1>5 DEF At
  <2>2. \A d \in Clients : At(d, "insert") /\ d # c => At(d, "insert")' /\ client'[d] = client[d]
    BY <1>5 DEF At
  <2>3. ~Inserting(n)'
    <3>1. SUFFICES ASSUME NEW d \in Clients, At(d, "insert")', client'[d].task = n PROVE FALSE
      BY DEF Inserting
    <3> QED BY <1>1, <2>1, <3>1
  <2>4. \A m \in Tasks : m # n => (Inserting(m)' <=> Inserting(m))
    <3>1. ASSUME NEW m \in Tasks, Inserting(m)' PROVE Inserting(m)
      BY <2>1, <3>1 DEF Inserting
    <3>2. ASSUME NEW m \in Tasks, m # n, Inserting(m) PROVE Inserting(m)'
      BY <1>0, <2>2, <3>2 DEF Inserting
    <3> QED BY <3>1, <3>2
  <2> QED BY <2>3, <2>4
<1>8. CASE isStopped
  <2>1. id' = [id EXCEPT ![n] = 0] /\ UNCHANGED board
    BY <1>0, <1>8 DEF AddInsert
  <2>2. id'[n] = 0 /\ \A m \in Tasks : m # n => id'[m] = id[m]
    BY <1>1, <2>1 DEF IInv, TypeOK
  <2>3. 0 \in IDs /\ 0 # None
    BY ConstantsAssumption DEF IDs
  <2>4. TypeOK'
    BY <1>3, <1>6, <2>1, <2>3 DEF IInv, TypeOK, board, ends
  <2>5. UniqueIDs'
    BY <2>2 DEF IInv, UniqueIDs, Allocated
  <2>6. ActiveInv'
    BY <1>2, <2>1, <2>2 DEF IInv, TypeOK, ActiveInv, board
  <2>7. PlaceInv'
    BY <1>2, <1>3, <1>7, <2>1, <2>2 DEF IInv, TypeOK, PlaceInv, LoopInv, board, LoopAt, Allocated
  <2>8. InsertInv'
    <3>1. \A d \in Clients : At(d, "insert")' => /\ At(d, "insert") /\ client'[d] = client[d]
                                                 /\ client[d].task # n /\ client[d].task \in Tasks
      BY <1>1, <1>5 DEF IInv, InsertInv, At
    <3>2. \A d \in Clients : At(d, "insert")' => id'[client'[d].task] = id[client[d].task]
      BY <2>2, <3>1
    <3> QED BY <3>1, <3>2 DEF IInv, InsertInv, Allocated
  <2>9. LoopInv'
    BY <1>2, <1>3, <1>7, <2>2 DEF IInv, LoopInv, LoopAt, Allocated
  <2>10. StopInv'
    BY <1>3, <2>1 DEF IInv, StopInv, board, ends
  <2> QED BY <2>4, <2>5, <2>6, <2>7, <2>8, <2>9, <2>10 DEF IInv
<1>9. CASE ~isStopped
  <2>1. active' = [active EXCEPT ![id[n]] = n] /\ tasks' = tasks \cup {n} /\ UNCHANGED id
    BY <1>0, <1>9 DEF AddInsert
  <2>2. active'[id[n]] = n /\ \A i \in IDs : i # id[n] => active'[i] = active[i]
    BY <1>1, <2>1 DEF IInv, TypeOK
  <2>3. TypeOK'
    BY <1>1, <1>3, <1>6, <2>1 DEF IInv, TypeOK, ends
  <2>4. UniqueIDs'
    BY <2>1 DEF IInv, UniqueIDs, Allocated
  <2>5. ActiveInv'
    BY <1>1, <2>1, <2>2 DEF IInv, ActiveInv
  <2>6. PlaceInv'
    <3>1. \A m \in tasks' : Allocated(m)' /\ id'[m] # 0 /\ ~Inserting(m)' /\ m \notin running'
      BY <1>1, <1>2, <1>3, <1>7, <2>1 DEF IInv, TypeOK, PlaceInv, Allocated
    <3>2. \A m \in running' : Allocated(m)' /\ id'[m] # 0 /\ ~Inserting(m)'
      BY <1>2, <1>3, <1>7, <2>1 DEF IInv, TypeOK, PlaceInv, Allocated
    <3>3. LoopAt("begin") => loop.task \in Tasks /\ loop.task # n
      BY <1>2 DEF IInv, LoopInv, LoopAt
    <3>4. LoopAt("begin")' => /\ Allocated(loop.task)' /\ id'[loop'.task] # 0 /\ ~Inserting(loop.task)'
                              /\ loop'.task \notin tasks' /\ loop'.task \notin running'
      BY <1>3, <1>7, <2>1, <3>3 DEF IInv, PlaceInv, Allocated, LoopAt
    <3> QED BY <3>1, <3>2, <3>4 DEF PlaceInv
  <2>7. InsertInv'
    BY <1>1, <1>5, <2>1 DEF IInv, InsertInv, At, Allocated
  <2>8. LoopInv'
    BY <1>2, <1>3, <1>7, <2>1 DEF IInv, LoopInv, LoopAt, Allocated
  <2>9. StopInv'
    BY <1>3, <1>9 DEF IInv, StopInv, ends
  <2> QED BY <2>3, <2>4, <2>5, <2>6, <2>7, <2>8, <2>9 DEF IInv
<1> QED BY <1>8, <1>9

\* Notify and Cancel: the client was inserting nothing, and inserts nothing.
LEMMA ClientGoes ==
  ASSUME IInv, NEW c \in Clients, NEW k \in {"idle", "notify"}, ~At(c, "insert"), Go(c, k, None)
  PROVE  /\ client' \in [Clients -> [pc : {"idle", "insert", "notify"}, task : Tasks \cup {None}]]
         /\ \A d \in Clients : At(d, "insert")' <=> At(d, "insert")
         /\ \A d \in Clients : At(d, "insert") => client'[d] = client[d]
<1>1. /\ client' = [client EXCEPT ![c] = [pc |-> k, task |-> None]]
      /\ client \in [Clients -> [pc : {"idle", "insert", "notify"}, task : Tasks \cup {None}]]
  BY DEF IInv, TypeOK, Go
<1>2. client'[c].pc # "insert" /\ \A d \in Clients : d # c => client'[d] = client[d]
  BY <1>1
<1>3. client' \in [Clients -> [pc : {"idle", "insert", "notify"}, task : Tasks \cup {None}]]
  BY <1>1
<1> QED BY <1>2, <1>3 DEF At

LEMMA NotifyInv == ASSUME IInv, NEW c \in Clients, Notify(c) PROVE IInv'
<1>1. UNCHANGED <<names, board, ends, running, loop, now>> /\ wake' \in BOOLEAN
  BY DEF Notify
<1>2. /\ client' \in [Clients -> [pc : {"idle", "insert", "notify"}, task : Tasks \cup {None}]]
      /\ \A d \in Clients : At(d, "insert")' <=> At(d, "insert")
      /\ \A d \in Clients : At(d, "insert") => client'[d] = client[d]
  BY ClientGoes DEF Notify, At
<1>3. \A n \in Tasks : Inserting(n)' <=> Inserting(n)
  BY <1>2 DEF Inserting
<1>4. TypeOK' /\ UniqueIDs' /\ ActiveInv' /\ StopInv'
  BY <1>1, <1>2 DEF IInv, TypeOK, UniqueIDs, ActiveInv, StopInv, names, board, ends, Allocated
<1>5. PlaceInv' /\ LoopInv'
  BY <1>1, <1>3 DEF IInv, TypeOK, PlaceInv, LoopInv, names, board, LoopAt, Allocated
<1>6. InsertInv'
  BY <1>1, <1>2 DEF IInv, InsertInv, names, Allocated
<1> QED BY <1>4, <1>5, <1>6 DEF IInv

LEMMA CancelInv == ASSUME IInv, NEW c \in Clients, NEW n \in Tasks, Cancel(c, n) PROVE IInv'
<1>1. /\ UNCHANGED <<names, tasks, wake, ends, running, loop, now>>
      /\ active' = [active EXCEPT ![id[n]] = None]
  BY DEF Cancel
<1>2. /\ client' \in [Clients -> [pc : {"idle", "insert", "notify"}, task : Tasks \cup {None}]]
      /\ \A d \in Clients : At(d, "insert")' <=> At(d, "insert")
      /\ \A d \in Clients : At(d, "insert") => client'[d] = client[d]
  BY ClientGoes DEF Cancel, At
<1>3. \A m \in Tasks : Inserting(m)' <=> Inserting(m)
  BY <1>2 DEF Inserting
<1>4. \A i \in IDs : active'[i] # None => active'[i] = active[i]
  BY <1>1 DEF IInv, TypeOK
<1>5. TypeOK'
  BY <1>1, <1>2 DEF IInv, TypeOK, names, ends
<1>6. UniqueIDs' /\ ActiveInv' /\ StopInv'
  BY <1>1, <1>4 DEF IInv, UniqueIDs, ActiveInv, StopInv, names, ends, Allocated
<1>7. PlaceInv' /\ LoopInv'
  BY <1>1, <1>3 DEF IInv, TypeOK, PlaceInv, LoopInv, names, LoopAt, Allocated
<1>8. InsertInv'
  BY <1>1, <1>2 DEF IInv, InsertInv, names, Allocated
<1> QED BY <1>5, <1>6, <1>7, <1>8 DEF IInv

\* The dispatcher, Shutdown and the clock leave the clients and the names alone.
LEMMA OthersStay ==
  ASSUME UNCHANGED <<names, client>>
  PROVE  /\ \A n \in Tasks : (Inserting(n)' <=> Inserting(n)) /\ (Allocated(n)' <=> Allocated(n))
         /\ IInv => UniqueIDs' /\ InsertInv'
<1>1. \A n \in Tasks : (Inserting(n)' <=> Inserting(n)) /\ (Allocated(n)' <=> Allocated(n))
  BY DEF Inserting, Allocated, At, names
<1>2. IInv => UniqueIDs' /\ InsertInv'
  BY DEF IInv, UniqueIDs, InsertInv, Allocated, At, names
<1> QED BY <1>1, <1>2

LEMMA NextTaskInv == ASSUME IInv, NextTask PROVE IInv'
<1>1. UNCHANGED <<names, client>> /\ UNCHANGED <<active, wake, ends, running, now>>
  BY DEF NextTask
<1>2. PICK pc \in {"idle", "timer", "take"}, n \in Tasks \cup {None} :
         /\ loop' = [pc |-> pc, task |-> n]
         /\ pc # "idle" => n \in tasks
         /\ pc = "take" => due[n] <= now
         /\ tasks' \subseteq tasks /\ \A m \in tasks : IsActive(m) => m \in tasks'
  <2>1. CASE (\A m \in tasks : ~IsActive(m)) /\ tasks' = {} /\ LoopGo("idle", None)
    BY <2>1 DEF LoopGo
  <2>2. ASSUME NEW n \in Heads,
               tasks' = {m \in tasks : IsActive(m) \/ due[m] >= due[n]},
               LoopGo(IF due[n] > now THEN "timer" ELSE "take", n)
        PROVE  \E pc \in {"idle", "timer", "take"}, m \in Tasks \cup {None} :
                 /\ loop' = [pc |-> pc, task |-> m]
                 /\ pc # "idle" => m \in tasks
                 /\ pc = "take" => due[m] <= now
                 /\ tasks' \subseteq tasks /\ \A k \in tasks : IsActive(k) => k \in tasks'
    <3>1. n \in tasks /\ n \in Tasks /\ due[n] \in Nat /\ now \in Nat
      BY <2>2 DEF Heads, IInv, TypeOK
    <3>2. tasks' \subseteq tasks /\ \A k \in tasks : IsActive(k) => k \in tasks'
      BY <2>2
    <3>3. CASE due[n] > now
      BY <2>2, <3>1, <3>2, <3>3 DEF LoopGo
    <3>4. CASE ~(due[n] > now)
      BY <2>2, <3>1, <3>2, <3>4 DEF LoopGo
    <3> QED BY <3>3, <3>4
  <2> QED BY <2>1, <2>2 DEF NextTask
<1>3. LoopAt("begin") = FALSE
  BY DEF NextTask, LoopAt
<1>4. TypeOK'
  BY <1>1, <1>2 DEF IInv, TypeOK, names, ends, Pcs
<1>5. ActiveInv'
  <2>1. ASSUME NEW i \in IDs, active[i] # None PROVE active[i] \in tasks'
    BY <1>2, <2>1 DEF IInv, ActiveInv, IsActive
  <2> QED BY <1>1, <2>1 DEF IInv, ActiveInv, names
<1>6. UniqueIDs' /\ InsertInv' /\ \A m \in Tasks : (Inserting(m)' <=> Inserting(m)) /\ (Allocated(m)' <=> Allocated(m))
  BY <1>1, OthersStay
<1>7. PlaceInv'
  BY <1>1, <1>2, <1>6 DEF IInv, TypeOK, PlaceInv, LoopAt, names
<1>8. LoopInv'
  BY <1>1, <1>2, <1>6 DEF IInv, TypeOK, PlaceInv, LoopInv, LoopAt, names
<1>9. StopInv'
  BY <1>1, <1>2 DEF IInv, StopInv, ends
<1> QED BY <1>4, <1>5, <1>6, <1>7, <1>8, <1>9 DEF IInv

\* The other steps of the dispatcher's loop that leave the heap as it is.
LEMMA LoopStepInv ==
  ASSUME IInv, Woken \/ TimerFires \/ LoopStops \/ WatchEnds \/ Detach PROVE IInv'
<1>1. UNCHANGED <<names, client>> /\ UNCHANGED <<board, isStopped, stop, closer, running, now>>
      /\ wake' \in BOOLEAN /\ done' \in BOOLEAN
  BY DEF Woken, TimerFires, LoopStops, LoopReturns, WatchEnds, Detach, IInv, TypeOK, ends
<1>2. \/ loop' \in [pc : {"next", "returned"}, task : {None}]
      \/ /\ LoopAt("timer") /\ loop' = [pc |-> "take", task |-> loop.task] /\ now >= due[loop.task]
  BY DEF Woken, TimerFires, LoopStops, LoopReturns, WatchEnds, Detach, LoopGo
<1>3. UniqueIDs' /\ InsertInv' /\ \A m \in Tasks : (Inserting(m)' <=> Inserting(m)) /\ (Allocated(m)' <=> Allocated(m))
  BY <1>1, OthersStay
<1>4. TypeOK'
  <2>1. loop' \in [pc : Pcs, task : Tasks \cup {None}]
    BY <1>2 DEF IInv, TypeOK, LoopInv, LoopAt, Pcs
  <2> QED BY <1>1, <2>1 DEF IInv, TypeOK, names, board
<1>5. ActiveInv' /\ StopInv'
  BY <1>1 DEF IInv, ActiveInv, StopInv, names, board
<1>6. PlaceInv'
  BY <1>1, <1>2, <1>3 DEF IInv, TypeOK, PlaceInv, LoopAt, names, board
<1>7. LoopInv'
  BY <1>1, <1>2, <1>3 DEF IInv, TypeOK, LoopInv, LoopAt, names
<1> QED BY <1>3, <1>4, <1>5, <1>6, <1>7 DEF IInv

\* Under the invariant, the ID of a task is active only if the task is.
LEMMA ActiveIsOwn ==
  ASSUME IInv, NEW n \in Tasks, Allocated(n), id[n] # 0, IsActive(n) PROVE active[id[n]] = n
<1>1. id[n] \in IDs
  BY DEF IInv, TypeOK, Allocated
<1> QED BY <1>1 DEF IInv, TypeOK, ActiveInv, UniqueIDs, IsActive, Allocated

LEMMA TakeInv == ASSUME IInv, Take PROVE IInv'
<1>0. PICK n \in Tasks : n = loop.task /\ LoopAt("take") /\ Allocated(n) /\ ~Inserting(n)
  BY DEF IInv, LoopInv, Take, LoopAt
<1>1. UNCHANGED <<names, client>> /\ UNCHANGED <<wake, ends, running, now>>
  BY DEF Take
<1>2. UniqueIDs' /\ InsertInv' /\ \A m \in Tasks : (Inserting(m)' <=> Inserting(m)) /\ (Allocated(m)' <=> Allocated(m))
  BY <1>1, OthersStay
<1>3. CASE IsRoot(n) /\ IsActive(n)
  <2>1. tasks' = tasks \ {n} /\ active' = [active EXCEPT ![id[n]] = None] /\ loop' = [pc |-> "begin", task |-> n]
    BY <1>0, <1>3 DEF Take, LoopGo
  <2>2. id[n] # 0 /\ id[n] \in IDs /\ n \in tasks /\ n \notin running /\ active[id[n]] = n
    BY <1>0, <1>3, ActiveIsOwn DEF IInv, TypeOK, PlaceInv, IsRoot, Allocated
  <2>3. active'[id[n]] = None /\ \A i \in IDs : i # id[n] => active'[i] = active[i]
    BY <2>1, <2>2 DEF IInv, TypeOK
  <2>4. TypeOK'
    BY <1>0, <1>1, <2>1 DEF IInv, TypeOK, names, ends, Pcs
  <2>5. ActiveInv'
    BY <1>1, <2>1, <2>2, <2>3 DEF IInv, ActiveInv, names
  <2>6. PlaceInv'
    BY <1>0, <1>1, <1>2, <2>1, <2>2 DEF IInv, TypeOK, PlaceInv, names, LoopAt
  <2>7. LoopInv' /\ StopInv'
    BY <1>0, <1>1, <2>1, <2>2, <2>3 DEF IInv, LoopInv, StopInv, LoopAt, ends
  <2> QED BY <1>2, <2>4, <2>5, <2>6, <2>7 DEF IInv
<1>4. CASE ~(IsRoot(n) /\ IsActive(n))
  <2>1. /\ tasks' \subseteq tasks /\ \A m \in tasks : m # n => m \in tasks'
        /\ active' = active /\ loop' = [pc |-> "next", task |-> None]
        /\ n \in tasks /\ n \notin tasks' => ~IsActive(n)
    BY <1>0, <1>4 DEF Take, LoopGo
  <2>2. TypeOK'
    BY <1>1, <2>1 DEF IInv, TypeOK, names, ends, Pcs
  <2>3. ActiveInv'
    <3>1. ASSUME NEW i \in IDs, active[i] # None PROVE active[i] \in tasks'
      BY <2>1, <3>1 DEF IInv, ActiveInv, IsActive
    <3> QED BY <1>1, <2>1, <3>1 DEF IInv, ActiveInv, names
  <2>4. PlaceInv'
    BY <1>1, <1>2, <2>1 DEF IInv, TypeOK, PlaceInv, names, LoopAt
  <2>5. LoopInv' /\ StopInv'
    BY <1>1, <2>1 DEF IInv, LoopInv, StopInv, LoopAt, ends
  <2> QED BY <1>2, <2>2, <2>3, <2>4, <2>5 DEF IInv
<1> QED BY <1>3, <1>4

LEMMA BeginInv == ASSUME IInv, Begin PROVE IInv'
<1>0. PICK n \in Tasks : n = loop.task /\ LoopAt("begin")
  BY DEF IInv, LoopInv, Begin, LoopAt
<1>1. /\ UNCHANGED <<names, client>> /\ UNCHANGED <<board, wake, isStopped, stop, closer, now>>
      /\ done' \in BOOLEAN
      /\ \/ running' = running \cup {n} /\ loop' = [pc |-> "watch", task |-> n]
         \/ running' = running /\ loop' = [pc |-> "returned", task |-> None]
  BY <1>0 DEF Begin, LoopReturns, LoopGo, ends, IInv, TypeOK
<1>2. UniqueIDs' /\ InsertInv' /\ \A m \in Tasks : (Inserting(m)' <=> Inserting(m)) /\ (Allocated(m)' <=> Allocated(m))
  BY <1>1, OthersStay
<1>3. TypeOK'
  BY <1>1 DEF IInv, TypeOK, names, board, Pcs
<1>4. ActiveInv' /\ StopInv'
  BY <1>1 DEF IInv, ActiveInv, StopInv, names, board
<1>5. PlaceInv'
  BY <1>0, <1>1, <1>2 DEF IInv, TypeOK, PlaceInv, LoopAt, names, board
<1>6. LoopInv'
  BY <1>1 DEF LoopInv, LoopAt
<1> QED BY <1>2, <1>3, <1>4, <1>5, <1>6 DEF IInv

LEMMA EndInv == ASSUME IInv, NEW n \in Tasks, End(n) PROVE IInv'
<1>1. /\ UNCHANGED <<names, client>> /\ UNCHANGED <<board, wake, ends, loop, now>>
      /\ running' = running \ {n}
  BY DEF End
<1>2. UniqueIDs' /\ InsertInv' /\ \A m \in Tasks : (Inserting(m)' <=> Inserting(m)) /\ (Allocated(m)' <=> Allocated(m))
  BY <1>1, OthersStay
<1>3. TypeOK' /\ ActiveInv' /\ StopInv'
  BY <1>1 DEF IInv, TypeOK, ActiveInv, StopInv, names, board, ends
<1>4. PlaceInv' /\ LoopInv'
  BY <1>1, <1>2 DEF IInv, TypeOK, PlaceInv, LoopInv, LoopAt, names, board
<1> QED BY <1>2, <1>3, <1>4 DEF IInv

\* Shutdown empties the board, and closes it; the clock goes on.
LEMMA ShutdownInv ==
  ASSUME IInv, ShutdownLock \/ Shutdown \/ Tick PROVE IInv'
<1>1. /\ UNCHANGED <<names, client>> /\ UNCHANGED <<wake, done, running, loop>>
      /\ now' \in Nat /\ now <= now'
      /\ stop' \in BOOLEAN /\ closer' \in {"idle", "close", "wait", "drain", "returned"}
      /\ \/ isStopped' = TRUE /\ tasks' = {} /\ active' = [i \in IDs |-> None]
         \/ isStopped' = isStopped /\ UNCHANGED board
      /\ isStopped' <=> closer' # "idle"
  <2>1. CASE ShutdownLock
    BY <2>1 DEF ShutdownLock, IInv, TypeOK
  <2>2. CASE Shutdown
    <3>1. UNCHANGED <<names, client, board, wake, isStopped, done, running, loop, now>>
      BY <2>2 DEF Shutdown, ShutdownClose, ShutdownDone, ShutdownDrained, ShutdownGivesUp
    <3>2. stop' \in BOOLEAN
      BY <2>2 DEF Shutdown, ShutdownClose, ShutdownDone, ShutdownDrained, ShutdownGivesUp, IInv, TypeOK
    <3>3. closer' \in {"wait", "drain", "returned"} /\ closer # "idle"
      BY <2>2 DEF Shutdown, ShutdownClose, ShutdownDone, ShutdownDrained, ShutdownGivesUp
    <3>4. isStopped
      BY <3>3 DEF IInv, StopInv
    <3>5. UNCHANGED <<names, client>> /\ UNCHANGED <<wake, done, running, loop>> /\ UNCHANGED board
      BY <3>1
    <3>6. isStopped' = isStopped /\ now' \in Nat /\ now <= now'
      BY <3>1 DEF IInv, TypeOK
    <3> QED BY <3>2, <3>3, <3>4, <3>5, <3>6
  <2>3. CASE Tick
    BY <2>3 DEF Tick, ends, IInv, TypeOK, StopInv
  <2> QED BY <2>1, <2>2, <2>3
<1>2. UniqueIDs' /\ InsertInv' /\ \A m \in Tasks : (Inserting(m)' <=> Inserting(m)) /\ (Allocated(m)' <=> Allocated(m))
  BY <1>1, OthersStay
<1>3. tasks' \subseteq tasks
  BY <1>1 DEF board
<1>4. TypeOK'
  BY <1>1 DEF IInv, TypeOK, names, board
<1>5. ActiveInv' /\ StopInv'
  <2>1. CASE isStopped' = TRUE /\ tasks' = {} /\ active' = [i \in IDs |-> None]
    BY <1>1, <2>1 DEF ActiveInv, StopInv
  <2>2. CASE isStopped' = isStopped /\ UNCHANGED board
    BY <1>1, <2>2 DEF IInv, ActiveInv, StopInv, names, board
  <2> QED BY <1>1, <2>1, <2>2
<1>6. PlaceInv'
  <2>1. /\ \A m \in tasks' : Allocated(m)' /\ id'[m] # 0 /\ ~Inserting(m)' /\ m \notin running'
        /\ \A m \in running' : Allocated(m)' /\ id'[m] # 0 /\ ~Inserting(m)'
    BY <1>1, <1>2, <1>3 DEF IInv, TypeOK, PlaceInv, names
  <2>2. LoopAt("begin")' => /\ Allocated(loop.task)' /\ id'[loop'.task] # 0 /\ ~Inserting(loop.task)'
                            /\ loop'.task \notin tasks' /\ loop'.task \notin running'
    <3>1. LoopAt("begin") => loop.task \in Tasks
      BY DEF IInv, LoopInv, LoopAt
    <3>2. UNCHANGED <<id, client>>
      BY <1>1 DEF names
    <3> QED BY <1>1, <1>3, <3>1, <3>2 DEF IInv, PlaceInv, LoopAt, Allocated, Inserting, At
  <2> QED BY <2>1, <2>2 DEF PlaceInv
<1>7. LoopInv'
  BY <1>1, <1>2 DEF IInv, TypeOK, LoopInv, LoopAt, names
<1> QED BY <1>2, <1>4, <1>5, <1>6, <1>7 DEF IInv

LEMMA StutterInv == IInv /\ UNCHANGED vars => IInv'
<1> SUFFICES ASSUME IInv, UNCHANGED vars PROVE IInv'
  OBVIOUS
<1>1. UNCHANGED <<names, client>> /\ UNCHANGED <<board, wake, ends, running, loop, now>>
  BY DEF vars
<1>2. UniqueIDs' /\ InsertInv' /\ \A m \in Tasks : (Inserting(m)' <=> Inserting(m)) /\ (Allocated(m)' <=> Allocated(m))
  BY <1>1, OthersStay
<1>3. TypeOK' /\ ActiveInv' /\ StopInv'
  BY <1>1 DEF IInv, TypeOK, ActiveInv, StopInv, names, board, ends
<1>4. PlaceInv' /\ LoopInv'
  BY <1>1, <1>2 DEF IInv, TypeOK, PlaceInv, LoopInv, LoopAt, names, board
<1> QED BY <1>2, <1>3, <1>4 DEF IInv

LEMMA NextInv == IInv /\ Next => IInv'
<1> SUFFICES ASSUME IInv, Next PROVE IInv'
  OBVIOUS
<1>1. ASSUME NEW c \in Clients, Client(c) PROVE IInv'
  BY <1>1, AddInsertInv, NotifyInv DEF Client
<1>2. ASSUME NEW c \in Clients, NEW n \in Tasks, Cancel(c, n) PROVE IInv'
  BY <1>2, CancelInv
<1>3. ASSUME NEW c \in Clients, NEW n \in Tasks, NEW delay \in 0..MaxDelay, AddBegin(c, n, delay) PROVE IInv'
  BY <1>3, AddBeginInv
<1>4. CASE Dispatch
  BY <1>4, NextTaskInv, LoopStepInv, TakeInv, BeginInv DEF Dispatch
<1>5. ASSUME NEW n \in Tasks, End(n) PROVE IInv'
  BY <1>5, EndInv
<1>6. CASE ShutdownLock \/ Shutdown \/ Tick
  BY <1>6, ShutdownInv
<1> QED BY <1>1, <1>2, <1>3, <1>4, <1>5, <1>6 DEF Next

THEOREM Invariant == Spec => []IInv
<1>1. IInv /\ [Next]_vars => IInv'
  BY NextInv, StutterInv
<1> QED BY InitInv, <1>1, PTL DEF Spec

\* Every variable keeps its type.
THEOREM TypeCorrect == Spec => []TypeOK
<1>1. IInv => TypeOK
  BY DEF IInv
<1> QED BY Invariant, <1>1, PTL

-----------------------------------------------------------------------------
(* Where a task goes, step by step.                                        *)

LEMMA PendingInHeap ==
  ASSUME IInv, NEW n \in Tasks, StateOf(n) = "pending"
  PROVE  Allocated(n) /\ ~Inserting(n) /\ id[n] \in IDs /\ active[id[n]] = n /\ n \in tasks
<1>1. Allocated(n) /\ ~Inserting(n) /\ active[id[n]] = n
  BY DEF StateOf
<1>2. id[n] \in IDs /\ n # None
  BY <1>1, ConstantsAssumption DEF IInv, TypeOK, Allocated
<1>3. active[id[n]] \in tasks
  BY <1>1, <1>2 DEF IInv, ActiveInv
<1> QED BY <1>1, <1>2, <1>3

\* A claim is a take, of the root.
LEMMA ClaimIsTake ==
  ASSUME IInv, [Next]_vars, NEW n \in Tasks, StateOf(n) = "pending", StateOf(n)' = "claimed"
  PROVE  Take /\ n = loop.task /\ IsRoot(n)
<1>1. ~LoopAt("begin") \/ loop.task # n
  BY PendingInHeap DEF IInv, PlaceInv
<1>2. LoopAt("begin")' /\ loop'.task = n
  BY DEF StateOf
<1>3. loop' # loop
  BY <1>1, <1>2 DEF LoopAt
<1>4. Dispatch
  BY <1>3 DEF Next, Client, AddInsert, Notify, Cancel, AddBegin, End, ShutdownLock, Shutdown, ShutdownClose,
              ShutdownDone, ShutdownDrained, ShutdownGivesUp, Tick, vars
<1>5. Take
  BY <1>2, <1>4 DEF Dispatch, NextTask, Woken, TimerFires, LoopStops, LoopReturns, Begin, WatchEnds, Detach,
                    LoopGo, LoopAt
<1>6. n = loop.task /\ IsRoot(n)
  BY <1>2, <1>5 DEF Take, LoopGo, LoopAt
<1> QED BY <1>5, <1>6

\* A task is taken when it is due, and before every task that is due later.
THEOREM OrderKept == Spec => TakenInOrder
<1>1. ASSUME IInv, [Next]_vars, NEW n \in Tasks, StateOf(n) = "pending", StateOf(n)' = "claimed"
      PROVE  due[n] <= now /\ \A m \in Tasks : StateOf(m) = "pending" => due[n] <= due[m]
  <2>1. Take /\ n = loop.task /\ IsRoot(n)
    BY <1>1, ClaimIsTake
  <2>2. \A m \in Tasks : StateOf(m) = "pending" => m \in tasks
    BY <1>1, PendingInHeap
  <2> QED BY <1>1, <2>1, <2>2 DEF IInv, LoopInv, Take, LoopAt, IsRoot
<1>2. IInv /\ [Next]_vars =>
        [\A n \in Tasks : StateOf(n) = "pending" /\ StateOf(n)' = "claimed" =>
            /\ due[n] <= now
            /\ \A m \in Tasks : StateOf(m) = "pending" => due[n] <= due[m]]_vars
  BY <1>1
<1> QED BY Invariant, <1>2, PTL DEF Spec, TakenInOrder

-----------------------------------------------------------------------------
(* Every step of the scheduler is a step of the board or changes nothing.  *)

\* A step that moves one task, and one that moves none.
LEMMA MoveMaps ==
  ASSUME NEW n \in Tasks, NEW from, NEW to, StateOf(n) = from, StateOf(n)' = to,
         \A m \in Tasks : m # n => StateOf(m)' = StateOf(m), UNCHANGED isStopped
  PROVE  Board!Move(n, from, to)
  BY DEF Board!Move

LEMMA StayMaps ==
  ASSUME \A m \in Tasks : StateOf(m)' = StateOf(m), UNCHANGED isStopped
  PROVE  UNCHANGED Board!vars
  BY DEF Board!vars

LEMMA InitMaps == Init => Board!Init
<1> SUFFICES ASSUME Init PROVE Board!Init
  OBVIOUS
<1>1. \A n \in Tasks : StateOf(n) = "new"
  BY DEF Init, StateOf, Allocated
<1>2. isStopped = FALSE
  BY DEF Init
<1> QED BY <1>1, <1>2 DEF Board!Init

\* Where the others are depends on nothing that a step about n changes.
LEMMA AddBeginMaps ==
  ASSUME IInv, NEW c \in Clients, NEW n \in Tasks, NEW delay \in 0..MaxDelay, AddBegin(c, n, delay)
  PROVE  UNCHANGED Board!vars
<1>1. /\ id' = [id EXCEPT ![n] = After(nextID)] /\ ~Allocated(n) /\ At(c, "idle")
      /\ client' = [client EXCEPT ![c] = [pc |-> "insert", task |-> n]]
      /\ UNCHANGED <<board, ends, running, loop>>
  BY DEF AddBegin, Go
<1>2. client'[c] = [pc |-> "insert", task |-> n] /\ \A d \in Clients : d # c => client'[d] = client[d]
  BY <1>1 DEF IInv, TypeOK
<1>3. StateOf(n) = "new" /\ StateOf(n)' = "new"
  BY <1>1, <1>2 DEF StateOf, Inserting, At
<1>4. \A m \in Tasks : m # n => (Inserting(m)' <=> Inserting(m))
  BY <1>1, <1>2 DEF Inserting, At
<1>5. \A m \in Tasks : m # n => id'[m] = id[m]
  BY <1>1 DEF IInv, TypeOK
<1>6. \A m \in Tasks : m # n => StateOf(m)' = StateOf(m)
  BY <1>1, <1>4, <1>5 DEF StateOf, Allocated, board, LoopAt
<1> QED BY <1>1, <1>3, <1>6, StayMaps DEF ends

LEMMA AddInsertMaps ==
  ASSUME IInv, NEW c \in Clients, AddInsert(c) PROVE \E n \in Tasks : Board!Schedule(n) \/ Board!Refuse(n)
<1>0. PICK n \in Tasks : n = client[c].task /\ At(c, "insert") /\ Allocated(n) /\ id[n] # 0 /\ Inserting(n)
  BY DEF AddInsert, IInv, InsertInv, Inserting
<1>1. \A d \in Clients : At(d, "insert") /\ client[d].task = n => d = c
  BY <1>0 DEF IInv, InsertInv
<1>2. PICK k \in {"idle", "notify"} : client' = [client EXCEPT ![c] = [pc |-> k, task |-> None]]
  BY DEF AddInsert, Go
<1>3. client'[c].pc # "insert" /\ \A d \in Clients : d # c => client'[d] = client[d]
  BY <1>2 DEF IInv, TypeOK
<1>4. ~Inserting(n)'
  <2> SUFFICES ASSUME NEW d \in Clients, At(d, "insert")', client'[d].task = n PROVE FALSE
    BY DEF Inserting
  <2> QED BY <1>1, <1>3 DEF At
<1>5. \A m \in Tasks : m # n => (Inserting(m)' <=> Inserting(m))
  <2>1. ASSUME NEW m \in Tasks, Inserting(m)' PROVE Inserting(m)
    BY <1>3, <2>1 DEF Inserting, At
  <2>2. ASSUME NEW m \in Tasks, m # n, Inserting(m) PROVE Inserting(m)'
    BY <1>0, <1>3, <2>2 DEF Inserting, At
  <2> QED BY <2>1, <2>2
<1>6. n \notin running /\ ~(LoopAt("begin") /\ loop.task = n) /\ StateOf(n) = "new" /\ id[n] \in IDs /\ n # None
  BY <1>0, ConstantsAssumption DEF IInv, TypeOK, PlaceInv, StateOf, Allocated
<1>7. UNCHANGED <<ends, running, loop>>
  BY DEF AddInsert
<1>8. CASE isStopped
  <2>1. id' = [id EXCEPT ![n] = 0] /\ active' = active
    BY <1>0, <1>8 DEF AddInsert, board
  <2>2. id'[n] = 0 /\ \A m \in Tasks : m # n => id'[m] = id[m]
    BY <2>1 DEF IInv, TypeOK
  <2>3. 0 \in IDs /\ 0 # None
    BY ConstantsAssumption DEF IDs
  <2>4. active'[0] # n
    BY <1>6, <2>1, <2>3 DEF IInv, ActiveInv
  <2>5. StateOf(n)' = "gone"
    BY <1>4, <1>6, <1>7, <2>2, <2>3, <2>4 DEF StateOf, Allocated, LoopAt
  <2>6. \A m \in Tasks : m # n => StateOf(m)' = StateOf(m)
    BY <1>5, <1>7, <2>1, <2>2 DEF StateOf, Allocated, LoopAt
  <2> QED BY <1>6, <1>7, <1>8, <2>5, <2>6, MoveMaps DEF Board!Refuse, ends
<1>9. CASE ~isStopped
  <2>1. active' = [active EXCEPT ![id[n]] = n] /\ id' = id
    BY <1>0, <1>9 DEF AddInsert
  <2>2. active'[id[n]] = n /\ \A i \in IDs : i # id[n] => active'[i] = active[i]
    BY <1>6, <2>1 DEF IInv, TypeOK
  <2>3. StateOf(n)' = "pending"
    BY <1>0, <1>4, <2>1, <2>2 DEF StateOf, Allocated
  <2>4. ASSUME NEW m \in Tasks, m # n PROVE StateOf(m)' = StateOf(m)
    <3>1. CASE Allocated(m) /\ id[m] # id[n]
      <4>1. active'[id[m]] = active[id[m]]
        BY <2>2, <3>1 DEF IInv, TypeOK, Allocated
      <4> QED BY <1>5, <1>7, <2>1, <2>4, <4>1 DEF StateOf, Allocated, LoopAt
    <3>2. CASE ~Allocated(m)
      BY <2>1, <3>2 DEF StateOf, Allocated
    <3>3. Allocated(m) => id[m] # id[n]
      BY <1>0, <2>4 DEF IInv, UniqueIDs
    <3> QED BY <3>1, <3>2, <3>3
  <2> QED BY <1>6, <1>7, <1>9, <2>3, <2>4, MoveMaps DEF Board!Schedule, ends
<1> QED BY <1>8, <1>9

LEMMA CancelMaps ==
  ASSUME IInv, NEW c \in Clients, NEW n \in Tasks, Cancel(c, n)
  PROVE  Board!Cancel(n) \/ UNCHANGED Board!vars
<1>1. /\ UNCHANGED <<names, tasks, ends, running, loop>>
      /\ active' = [active EXCEPT ![id[n]] = None]
      /\ Allocated(n) /\ ~Inserting(n) /\ id[n] # 0 /\ id[n] \in IDs
  BY DEF Cancel, IsHeld, IInv, TypeOK, Allocated
<1>2. active'[id[n]] = None /\ \A i \in IDs : i # id[n] => active'[i] = active[i]
  BY <1>1 DEF IInv, TypeOK
<1>3. \A m \in Tasks : Inserting(m)' <=> Inserting(m)
  BY ClientGoes DEF Cancel, At, Inserting
<1>4. ASSUME NEW m \in Tasks, m # n PROVE StateOf(m)' = StateOf(m)
  <2>1. CASE Allocated(m)
    <3>1. id[m] # id[n] /\ id[m] \in IDs
      BY <1>1, <1>4, <2>1 DEF IInv, UniqueIDs, TypeOK, Allocated
    <3> QED BY <1>1, <1>2, <1>3, <3>1 DEF StateOf, names, Allocated, LoopAt
  <2>2. CASE ~Allocated(m)
    BY <1>1, <2>2 DEF StateOf, names, Allocated
  <2> QED BY <2>1, <2>2
<1>5. CASE StateOf(n) = "pending"
  <2>1. n \in tasks
    BY <1>5, PendingInHeap
  <2>2. n \notin running /\ ~(LoopAt("begin") /\ loop.task = n) /\ n # None
    BY <2>1, ConstantsAssumption DEF IInv, PlaceInv
  <2>3. StateOf(n)' = "gone"
    BY <1>1, <1>2, <1>3, <2>2 DEF StateOf, names, Allocated, LoopAt
  <2> QED BY <1>1, <1>4, <1>5, <2>3, MoveMaps DEF Board!Cancel, ends
<1>6. CASE StateOf(n) # "pending"
  <2>1. active[id[n]] # n /\ n # None
    BY <1>1, <1>6, ConstantsAssumption DEF StateOf
  <2>2. StateOf(n)' = StateOf(n)
    BY <1>1, <1>2, <1>3, <2>1 DEF StateOf, names, Allocated, LoopAt
  <2> QED BY <1>1, <1>4, <2>2, StayMaps DEF ends
<1> QED BY <1>5, <1>6

\* A step that changes neither the board nor what is claimed or runs.
LEMMA QuietMaps ==
  ASSUME UNCHANGED <<names, active, running, isStopped>>, \A n \in Tasks : Inserting(n)' <=> Inserting(n),
         \A n \in Tasks : (LoopAt("begin") /\ loop.task = n)' <=> (LoopAt("begin") /\ loop.task = n)
  PROVE  UNCHANGED Board!vars
<1>1. \A n \in Tasks : StateOf(n)' = StateOf(n)
  BY DEF StateOf, names, Allocated
<1> QED BY <1>1, StayMaps

LEMMA NotifyMaps == ASSUME IInv, NEW c \in Clients, Notify(c) PROVE UNCHANGED Board!vars
<1>1. \A n \in Tasks : Inserting(n)' <=> Inserting(n)
  BY ClientGoes DEF Notify, At, Inserting
<1> QED BY <1>1, QuietMaps DEF Notify, board, ends, LoopAt

LEMMA LoopMaps ==
  ASSUME NextTask \/ Woken \/ TimerFires \/ LoopStops \/ WatchEnds \/ Detach PROVE UNCHANGED Board!vars
<1>1. UNCHANGED <<names, active, running, isStopped, client>>
  BY DEF NextTask, Woken, TimerFires, LoopStops, LoopReturns, WatchEnds, Detach, board, ends
<1>2. ~LoopAt("begin") /\ ~LoopAt("begin")'
  BY DEF NextTask, Woken, TimerFires, LoopStops, LoopReturns, WatchEnds, Detach, LoopAt, LoopGo
<1>3. \A n \in Tasks : Inserting(n)' <=> Inserting(n)
  BY <1>1 DEF Inserting, At
<1> QED BY <1>1, <1>2, <1>3, QuietMaps

LEMMA TakeMaps == ASSUME IInv, Take PROVE (\E n \in Tasks : Board!Claim(n)) \/ UNCHANGED Board!vars
<1>0. PICK n \in Tasks : n = loop.task /\ LoopAt("take") /\ Allocated(n) /\ ~Inserting(n)
  BY DEF IInv, LoopInv, Take, LoopAt
<1>1. UNCHANGED <<names, client>> /\ UNCHANGED <<ends, running>>
  BY DEF Take
<1>2. \A m \in Tasks : (Inserting(m)' <=> Inserting(m)) /\ (Allocated(m)' <=> Allocated(m))
  BY <1>1, OthersStay
<1>3. CASE IsRoot(n) /\ IsActive(n)
  <2>1. active' = [active EXCEPT ![id[n]] = None] /\ loop' = [pc |-> "begin", task |-> n] /\ n \in tasks
    BY <1>0, <1>3 DEF Take, LoopGo, IsRoot
  <2>2. id[n] # 0 /\ id[n] \in IDs /\ active[id[n]] = n /\ n # None
    BY <1>0, <1>3, <2>1, ActiveIsOwn, ConstantsAssumption DEF IInv, TypeOK, PlaceInv, Allocated
  <2>3. active'[id[n]] = None /\ \A i \in IDs : i # id[n] => active'[i] = active[i]
    BY <2>1, <2>2 DEF IInv, TypeOK
  <2>4. ~isStopped
    BY <2>1 DEF IInv, StopInv
  <2>5. StateOf(n) = "pending" /\ StateOf(n)' = "claimed"
    BY <1>0, <1>1, <1>2, <2>1, <2>2, <2>3 DEF StateOf, names, LoopAt
  <2>6. ASSUME NEW m \in Tasks, m # n PROVE StateOf(m)' = StateOf(m)
    <3>1. CASE Allocated(m)
      <4>1. id[m] # id[n] /\ id[m] \in IDs
        BY <1>0, <2>2, <2>6, <3>1 DEF IInv, UniqueIDs, TypeOK, Allocated
      <4>2. ~(LoopAt("begin") /\ loop.task = m) /\ ~(LoopAt("begin") /\ loop.task = m)'
        BY <1>0, <2>1, <2>6 DEF LoopAt
      <4> QED BY <1>1, <1>2, <2>3, <4>1, <4>2 DEF StateOf, names
    <3>2. CASE ~Allocated(m)
      BY <1>2, <3>2 DEF StateOf
    <3> QED BY <3>1, <3>2
  <2> QED BY <1>1, <2>4, <2>5, <2>6, MoveMaps DEF Board!Claim, ends
<1>4. CASE ~(IsRoot(n) /\ IsActive(n))
  <2>1. active' = active /\ ~LoopAt("begin") /\ ~LoopAt("begin")'
    BY <1>0, <1>4 DEF Take, LoopGo, LoopAt
  <2> QED BY <1>1, <1>2, <2>1, QuietMaps DEF ends
<1> QED BY <1>3, <1>4

LEMMA BeginMaps == ASSUME IInv, Begin PROVE \E n \in Tasks : Board!Begin(n) \/ Board!Discard(n)
<1>0. PICK n \in Tasks : n = loop.task /\ LoopAt("begin")
  BY DEF IInv, LoopInv, Begin, LoopAt
<1>1. UNCHANGED <<names, client>> /\ UNCHANGED <<board, isStopped>>
  BY DEF Begin, LoopReturns, ends
<1>2. \A m \in Tasks : (Inserting(m)' <=> Inserting(m)) /\ (Allocated(m)' <=> Allocated(m))
  BY <1>1, OthersStay
<1>3. Allocated(n) /\ ~Inserting(n) /\ n \notin tasks /\ n \notin running /\ id[n] \in IDs /\ n # None
  BY <1>0, ConstantsAssumption DEF IInv, PlaceInv, TypeOK, Allocated
<1>4. active[id[n]] # n
  BY <1>3 DEF IInv, ActiveInv
<1>5. StateOf(n) = "claimed"
  BY <1>0, <1>3, <1>4 DEF StateOf
<1>6. LoopAt("begin")' = FALSE
  BY DEF Begin, LoopReturns, LoopGo, LoopAt
<1>7. running' \in {running, running \cup {n}}
  BY <1>0 DEF Begin, LoopReturns
<1>8. ASSUME NEW m \in Tasks, m # n PROVE StateOf(m)' = StateOf(m)
  BY <1>0, <1>1, <1>2, <1>6, <1>7, <1>8 DEF StateOf, names, board, LoopAt
<1>9. CASE MayBegin
  <2>1. running' = running \cup {n}
    BY <1>0, <1>9 DEF Begin
  <2>2. StateOf(n)' = "running"
    BY <1>1, <1>2, <1>3, <1>4, <1>6, <2>1 DEF StateOf, names, board
  <2> QED BY <1>1, <1>5, <1>8, <1>9, <2>2, MoveMaps DEF Board!Begin, MayBegin
<1>10. CASE ~MayBegin
  <2>1. running' = running
    BY <1>10 DEF Begin, LoopReturns
  <2>2. StateOf(n)' = "gone"
    BY <1>1, <1>2, <1>3, <1>4, <1>6, <2>1 DEF StateOf, names, board
  <2> QED BY <1>1, <1>5, <1>8, <1>10, <2>2, MoveMaps DEF Board!Discard, MayBegin
<1> QED BY <1>9, <1>10

LEMMA EndMaps == ASSUME IInv, NEW n \in Tasks, End(n) PROVE Board!End(n)
<1>1. /\ UNCHANGED <<names, client>> /\ UNCHANGED <<board, ends, loop>>
      /\ running' = running \ {n} /\ n \in running
  BY DEF End
<1>2. \A m \in Tasks : (Inserting(m)' <=> Inserting(m)) /\ (Allocated(m)' <=> Allocated(m))
  BY <1>1, OthersStay
<1>3. Allocated(n) /\ ~Inserting(n) /\ id[n] \in IDs /\ n \notin tasks /\ n # None
      /\ ~(LoopAt("begin") /\ loop.task = n)
  BY <1>1, ConstantsAssumption DEF IInv, PlaceInv, TypeOK, Allocated
<1>4. active[id[n]] # n
  BY <1>3 DEF IInv, ActiveInv
<1>5. StateOf(n) = "running" /\ StateOf(n)' = "gone"
  BY <1>1, <1>2, <1>3, <1>4 DEF StateOf, names, board, LoopAt
<1>6. \A m \in Tasks : m # n => StateOf(m)' = StateOf(m)
  BY <1>1, <1>2 DEF StateOf, names, board, LoopAt
<1> QED BY <1>1, <1>5, <1>6, MoveMaps DEF Board!End, ends

LEMMA ShutdownLockMaps == ASSUME IInv, ShutdownLock PROVE Board!Close
<1>1. /\ UNCHANGED <<names, client>> /\ UNCHANGED <<running, loop>>
      /\ isStopped' = TRUE /\ active' = [i \in IDs |-> None] /\ ~isStopped
  BY DEF ShutdownLock, IInv, StopInv
<1>2. \A m \in Tasks : (Inserting(m)' <=> Inserting(m)) /\ (Allocated(m)' <=> Allocated(m))
  BY <1>1, OthersStay
<1>3. ASSUME NEW n \in Tasks PROVE StateOf(n)' = IF StateOf(n) = "pending" THEN "gone" ELSE StateOf(n)
  <2>1. CASE ~Allocated(n) \/ Inserting(n)
    BY <1>2, <2>1 DEF StateOf
  <2>2. CASE Allocated(n) /\ ~Inserting(n)
    <3>1. active'[id'[n]] # n
      BY <1>1, <2>2, ConstantsAssumption DEF IInv, TypeOK, Allocated, names
    <3>2. StateOf(n) = "pending" => n \notin running /\ ~(LoopAt("begin") /\ loop.task = n)
      BY PendingInHeap DEF IInv, PlaceInv
    <3>3. CASE StateOf(n) = "pending"
      BY <1>1, <1>2, <2>2, <3>1, <3>2, <3>3 DEF StateOf, LoopAt
    <3>4. CASE StateOf(n) # "pending"
      BY <1>1, <1>2, <2>2, <3>1, <3>4 DEF StateOf, LoopAt
    <3> QED BY <3>3, <3>4
  <2> QED BY <2>1, <2>2
<1> QED BY <1>1, <1>3 DEF Board!Close

LEMMA ShutdownMaps == ASSUME Shutdown \/ Tick PROVE UNCHANGED Board!vars
<1>1. UNCHANGED <<names, active, running, isStopped, loop, client>>
  BY DEF Shutdown, ShutdownClose, ShutdownDone, ShutdownDrained, ShutdownGivesUp, Tick, board, ends
<1>2. \A n \in Tasks : Inserting(n)' <=> Inserting(n)
  BY <1>1 DEF Inserting, At
<1> QED BY <1>1, <1>2, QuietMaps DEF LoopAt

LEMMA StutterMaps == ASSUME UNCHANGED vars PROVE UNCHANGED Board!vars
<1>1. UNCHANGED <<names, active, running, isStopped, loop, client>>
  BY DEF vars, board, ends
<1>2. \A n \in Tasks : Inserting(n)' <=> Inserting(n)
  BY <1>1 DEF Inserting, At
<1> QED BY <1>1, <1>2, QuietMaps DEF LoopAt

LEMMA NextMaps == ASSUME IInv, [Next]_vars PROVE [Board!Next]_(Board!vars)
<1>1. ASSUME NEW c \in Clients, Client(c) PROVE [Board!Next]_(Board!vars)
  BY <1>1, AddInsertMaps, NotifyMaps DEF Client, Board!Next
<1>2. ASSUME NEW c \in Clients, NEW n \in Tasks, Cancel(c, n) PROVE [Board!Next]_(Board!vars)
  BY <1>2, CancelMaps DEF Board!Next
<1>3. ASSUME NEW c \in Clients, NEW n \in Tasks, NEW delay \in 0..MaxDelay, AddBegin(c, n, delay)
      PROVE  [Board!Next]_(Board!vars)
  BY <1>3, AddBeginMaps
<1>4. CASE Dispatch
  BY <1>4, LoopMaps, TakeMaps, BeginMaps DEF Dispatch, Board!Next
<1>5. ASSUME NEW n \in Tasks, End(n) PROVE [Board!Next]_(Board!vars)
  BY <1>5, EndMaps DEF Board!Next
<1>6. CASE ShutdownLock
  BY <1>6, ShutdownLockMaps DEF Board!Next
<1>7. CASE Shutdown \/ Tick
  BY <1>7, ShutdownMaps
<1>8. CASE UNCHANGED vars
  BY <1>8, StutterMaps
<1> QED BY <1>1, <1>2, <1>3, <1>4, <1>5, <1>6, <1>7, <1>8 DEF Next

\* The scheduler keeps what the board promises: a task begins at most once, never
\* after a Cancel that found it pending, and never after Shutdown.
THEOREM Refinement == Spec => ImplementsBoard
<1>1. IInv /\ [Next]_vars => [Board!Next]_(Board!vars)
  BY NextMaps
<1> QED BY Invariant, InitMaps, <1>1, PTL DEF Spec, ImplementsBoard, Board!Spec
=============================================================================
