------------------------------ MODULE Scheduler ------------------------------
(***************************************************************************)
(* The scheduler of server/scheduler/scheduler.go: a heap of delayed       *)
(* callbacks, one dispatcher goroutine, and any number of goroutines (the  *)
(* callbacks among them) that add and cancel tasks.  A callback runs in a  *)
(* goroutine of its own; the dispatcher waits for it, but detaches from    *)
(* one that takes longer than a second.                                    *)
(*                                                                         *)
(* A task is a constant: the *scheduledTask that one Add allocates.  The   *)
(* heap is the set of the tasks in it, and its root one that is due first: *)
(* the heap leaves open which of several with one due time.  Time passes   *)
(* in ticks.  Task IDs are w-bit numbers that wrap around and skip zero;   *)
(* the one assumption made of them is that fewer than 2^w tasks are added  *)
(* in one life of the scheduler, so that no ID is given twice.             *)
(***************************************************************************)
EXTENDS Naturals, FiniteSets

CONSTANTS
    Tasks,      \* the scheduled tasks there can be
    Clients,    \* the goroutines that call Add and Cancel
    MaxID,      \* the largest TaskID (2^32 - 1 in the code)
    FirstIDs,   \* where nextID may stand: {0} at New, any ID in a scheduler long in use
    MaxDelay,   \* the largest delay of a task, in ticks
    MaxTime,    \* bound: the clock stops here
    None

ASSUME ConstantsAssumption ==
    /\ None \notin Tasks \cup Nat
    /\ MaxID \in Nat \ {0} /\ FirstIDs \subseteq 0..MaxID
    /\ MaxDelay \in Nat /\ MaxTime \in Nat

VARIABLES
    nextID,     \* Scheduler.nextID
    id,         \* scheduledTask.id; None until it is allocated, 0 once Add refused it
    due,        \* scheduledTask.executeAt
    tasks,      \* Scheduler.tasks: the tasks in the heap
    active,     \* Scheduler.activeTasks: the task of an ID, or None
    wake,       \* the wake channel holds its one token
    isStopped,  \* Scheduler.isStopped
    stop,       \* the stop channel is closed
    done,       \* the done channel is closed: the dispatcher has returned
    running,    \* the tasks whose callbacks run; activeTaskCount is their number
    loop,       \* the dispatcher: where it is, and the task it is about
    client,     \* per client: where it is in Add or Cancel, and its task
    closer,     \* where Shutdown is
    now         \* the clock

board == <<tasks, active>>
names == <<nextID, id, due>>
ends  == <<isStopped, stop, done, closer>>
vars  == <<names, board, wake, ends, running, loop, client, now>>

IDs == 0..MaxID

Init ==
    /\ nextID \in FirstIDs
    /\ id = [n \in Tasks |-> None] /\ due = [n \in Tasks |-> 0]
    /\ tasks = {} /\ active = [i \in IDs |-> None]
    /\ wake = FALSE /\ isStopped = FALSE /\ stop = FALSE /\ done = FALSE
    /\ running = {} /\ now = 0
    /\ loop = [pc |-> "next", task |-> None]
    /\ client = [c \in Clients |-> [pc |-> "idle", task |-> None]]
    /\ closer = "idle"

At(c, pc)      == client[c].pc = pc
Go(c, pc, n)   == client' = [client EXCEPT ![c] = [pc |-> pc, task |-> n]]
LoopAt(pc)     == loop.pc = pc
LoopGo(pc, n)  == loop' = [pc |-> pc, task |-> n]

Allocated(n) == id[n] # None
Inserting(n) == \E c \in Clients : At(c, "insert") /\ client[c].task = n

-----------------------------------------------------------------------------
(* Add and Cancel.                                                         *)

\* (mutant) The counter is wider than a TaskID.
AfterUnwrapped(i) == i + 1

\* nextID.Add(1), once more when it comes to zero.
After(i) == IF (i + 1) % (MaxID + 1) = 0 THEN 1 ELSE (i + 1) % (MaxID + 1)

\* Add, before the lock: the ID and the due time are fixed.
AddBegin(c, n, delay) ==
    /\ At(c, "idle") /\ ~Allocated(n) /\ now + delay <= MaxTime
    /\ \A m \in Tasks : id[m] # After(nextID)       \* bound: no ID is given twice
    /\ nextID' = After(nextID)
    /\ id' = [id EXCEPT ![n] = After(nextID)]
    /\ due' = [due EXCEPT ![n] = now + delay]
    /\ Go(c, "insert", n)
    /\ UNCHANGED <<board, wake, ends, running, loop, now>>

\* Add, under the lock.  A stopped scheduler returns zero: the ID is lost.
AddInsert(c) ==
    LET n == client[c].task IN
    /\ At(c, "insert")
    /\ IF isStopped
       THEN Go(c, "idle", None) /\ id' = [id EXCEPT ![n] = 0] /\ UNCHANGED board
       ELSE /\ active' = [active EXCEPT ![id[n]] = n]
            /\ tasks' = tasks \cup {n}
            /\ Go(c, "notify", None) /\ UNCHANGED id
    /\ UNCHANGED <<nextID, due, wake, ends, running, loop, now>>

\* (mutant) The channel has no buffer: the token is lost unless the dispatcher
\* has reached its select.
NotifyUnbuffered(c) ==
    /\ At(c, "notify") /\ Go(c, "idle", None)
    /\ wake' \in {wake, TRUE}
    /\ UNCHANGED <<names, board, ends, running, loop, now>>

\* notify: the channel holds one token, another is dropped.
Notify(c) ==
    /\ At(c, "notify") /\ Go(c, "idle", None)
    /\ wake' = TRUE
    /\ UNCHANGED <<names, board, ends, running, loop, now>>

\* A task that the caller holds the ID of: its Add has returned.
IsHeld(n) == Allocated(n) /\ ~Inserting(n)

\* Cancel, under the lock.  Zero is never an ID.
Cancel(c, n) ==
    /\ At(c, "idle") /\ IsHeld(n) /\ id[n] # 0
    /\ active' = [active EXCEPT ![id[n]] = None]
    /\ Go(c, "notify", None)
    /\ UNCHANGED <<names, tasks, wake, ends, running, loop, now>>

-----------------------------------------------------------------------------
(* The dispatcher.                                                         *)

IsActive(n) == active[id[n]] # None
Heads == {n \in tasks : IsActive(n) /\ \A m \in tasks : IsActive(m) => due[n] <= due[m]}

\* nextTask: the cancelled tasks before the head leave the heap.  A due head is
\* taken at once, for another the timer is set; without one the loop waits.
NextTask ==
    /\ LoopAt("next")
    /\ \/ /\ \A n \in tasks : ~IsActive(n)
          /\ tasks' = {} /\ LoopGo("idle", None)
       \/ \E n \in Heads :
            /\ tasks' = {m \in tasks : IsActive(m) \/ due[m] >= due[n]}
            /\ LoopGo(IF due[n] > now THEN "timer" ELSE "take", n)
    /\ UNCHANGED <<names, active, wake, ends, running, client, now>>

Woken ==
    /\ LoopAt("idle") \/ LoopAt("timer")
    /\ wake /\ wake' = FALSE /\ LoopGo("next", None)
    /\ UNCHANGED <<names, board, ends, running, client, now>>

\* The timer was set to the head's due time when the head was read.
TimerFires ==
    /\ LoopAt("timer") /\ now >= due[loop.task]
    /\ LoopGo("take", loop.task)
    /\ UNCHANGED <<names, board, wake, ends, running, client, now>>

LoopReturns ==
    /\ LoopGo("returned", None) /\ done' = TRUE
    /\ UNCHANGED <<names, board, wake, isStopped, stop, closer, running, client, now>>

\* The stop channel is selected wherever the dispatcher waits.
LoopStops == stop /\ (LoopAt("idle") \/ LoopAt("timer") \/ LoopAt("watch")) /\ LoopReturns

\* (mutant) Whatever was read is taken.
IsRootStale(n) == n \in tasks

\* The task is still the root of the heap: nothing due earlier was added.
IsRoot(n) == n \in tasks /\ \A m \in tasks : due[n] <= due[m]

\* take: the expected task, if it is still the root and was not cancelled.
Take ==
    LET n == loop.task
        isTaken == IsRoot(n) /\ IsActive(n) IN
    /\ LoopAt("take")
    /\ tasks' = IF IsRoot(n) THEN tasks \ {n} ELSE tasks
    /\ active' = IF isTaken THEN [active EXCEPT ![id[n]] = None] ELSE active
    /\ IF isTaken THEN LoopGo("begin", n) ELSE LoopGo("next", None)
    /\ UNCHANGED <<names, wake, ends, running, client, now>>

\* (mutant) A task that was taken before the stop begins after it.
MayBeginStopped == TRUE

MayBegin == ~isStopped

\* beginTask, under the lock, and the callback's goroutine.
Begin ==
    /\ LoopAt("begin")
    /\ IF MayBegin
       THEN /\ running' = running \cup {loop.task} /\ LoopGo("watch", loop.task)
            /\ UNCHANGED <<names, board, wake, ends, client, now>>
       ELSE LoopReturns

\* endTask: the callback returned or panicked.
End(n) ==
    /\ n \in running /\ running' = running \ {n}
    /\ UNCHANGED <<names, board, wake, ends, loop, client, now>>

WatchEnds ==
    /\ LoopAt("watch") /\ loop.task \notin running
    /\ LoopGo("next", None)
    /\ UNCHANGED <<names, board, wake, ends, running, client, now>>

\* The callback has run for a second: later tasks go on beside it.
Detach ==
    /\ LoopAt("watch") /\ loop.task \in running
    /\ LoopGo("next", None)
    /\ UNCHANGED <<names, board, wake, ends, running, client, now>>

-----------------------------------------------------------------------------
(* Shutdown.                                                               *)

ShutdownLock ==
    /\ closer = "idle" /\ closer' = "close"
    /\ isStopped' = TRUE /\ tasks' = {} /\ active' = [i \in IDs |-> None]
    /\ UNCHANGED <<names, wake, stop, done, running, loop, client, now>>

ShutdownClose ==
    /\ closer = "close" /\ closer' = "wait" /\ stop' = TRUE
    /\ UNCHANGED <<names, board, wake, isStopped, done, running, loop, client, now>>

\* The dispatcher has returned; callbacks that still run are waited for.
ShutdownDone ==
    /\ closer = "wait" /\ done
    /\ closer' = IF running = {} THEN "returned" ELSE "drain"
    /\ UNCHANGED <<names, board, wake, isStopped, stop, done, running, loop, client, now>>

ShutdownDrained ==
    /\ closer = "drain" /\ running = {} /\ closer' = "returned"
    /\ UNCHANGED <<names, board, wake, isStopped, stop, done, running, loop, client, now>>

\* (mutant) Shutdown waits for the callbacks as long as they take.
ShutdownGivesUpNever == FALSE /\ UNCHANGED vars

\* taskShutdownWait is over.
ShutdownGivesUp ==
    /\ closer = "drain" /\ running # {} /\ closer' = "returned"
    /\ UNCHANGED <<names, board, wake, isStopped, stop, done, running, loop, client, now>>

Tick ==
    /\ now < MaxTime /\ now' = now + 1
    /\ UNCHANGED <<names, board, wake, ends, running, loop, client>>

-----------------------------------------------------------------------------
Client(c) == AddInsert(c) \/ Notify(c)

Dispatch == NextTask \/ Woken \/ TimerFires \/ LoopStops \/ Take \/ Begin \/ WatchEnds \/ Detach

Shutdown == ShutdownClose \/ ShutdownDone \/ ShutdownDrained \/ ShutdownGivesUp

Next ==
    \/ \E c \in Clients : \/ Client(c)
                          \/ \E n \in Tasks : Cancel(c, n) \/ \E delay \in 0..MaxDelay : AddBegin(c, n, delay)
    \/ Dispatch \/ \E n \in Tasks : End(n)
    \/ ShutdownLock \/ Shutdown \/ Tick

Spec == Init /\ [][Next]_vars

\* Goroutines that can go on do, time passes, and a select that finds the stop
\* channel closed each time it is reached does not always pick another case (Go
\* picks at random), however often somebody cancels and wakes it.  Nothing is assumed of the
\* callbacks: they may run for ever.  Nobody has to shut the scheduler down.
Fairness ==
    /\ \A c \in Clients : WF_vars(Client(c))
    /\ WF_vars(Dispatch) /\ SF_vars(LoopStops) /\ WF_vars(Shutdown) /\ WF_vars(Tick)

FairSpec == Spec /\ Fairness

-----------------------------------------------------------------------------
(* Properties.                                                             *)

Pcs == {"next", "idle", "timer", "take", "begin", "watch", "returned"}

\* Every variable has its type.
TypeOK ==
    /\ nextID \in IDs /\ id \in [Tasks -> IDs \cup {None}] /\ due \in [Tasks -> Nat]
    /\ tasks \subseteq Tasks /\ active \in [IDs -> Tasks \cup {None}]
    /\ wake \in BOOLEAN /\ isStopped \in BOOLEAN /\ stop \in BOOLEAN /\ done \in BOOLEAN
    /\ running \subseteq Tasks /\ now \in Nat
    /\ loop \in [pc : Pcs, task : Tasks \cup {None}]
    /\ client \in [Clients -> [pc : {"idle", "insert", "notify"}, task : Tasks \cup {None}]]
    /\ closer \in {"idle", "close", "wait", "drain", "returned"}

\* Where a task stands, as the board sees it.
StateOf(n) ==
    IF ~Allocated(n) \/ Inserting(n) THEN "new"
    ELSE IF active[id[n]] = n THEN "pending"
    ELSE IF LoopAt("begin") /\ loop.task = n THEN "claimed"
    ELSE IF n \in running THEN "running"
    ELSE "gone"

Board == INSTANCE TaskBoard WITH state <- [n \in Tasks |-> StateOf(n)], isOpen <- ~isStopped

\* However Add, Cancel, Shutdown, the dispatcher and detached callbacks interleave,
\* a task begins at most once, never after its Cancel found it pending, and never
\* after Shutdown.
ImplementsBoard == Board!Spec

\* The head is read under one lock and taken under another: the task taken is still
\* due, and no task that is pending by then is due before it.
TakenInOrder ==
    [][\A n \in Tasks : StateOf(n) = "pending" /\ StateOf(n)' = "claimed" =>
          /\ due[n] <= now
          /\ \A m \in Tasks : StateOf(m) = "pending" => due[n] <= due[m]]_vars

\* No wake-up is lost, and no callback holds the dispatcher: a pending task begins
\* in the end, unless it is cancelled or the scheduler is shut down.
TaskServed == \A n \in Tasks : (StateOf(n) = "pending") ~> (StateOf(n) \in {"running", "gone"})

\* Shutdown returns, even if a callback never does.
ShutdownReturns == (closer = "close") ~> (closer = "returned")
=============================================================================
