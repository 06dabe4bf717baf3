----------------------------- MODULE Maintenance -----------------------------
(***************************************************************************)
(* Maintenance of a running server: server/maintenance (the countdown and  *)
(* its state file), server/admission (the gate that players enter and      *)
(* maintenance changes), server/runtime (the operators' adapter, its audit *)
(* journal, the schedule, the shutdown) and the part of the supervisor,    *)
(* server/bootstrap, that hands an operation from one process to the next. *)
(*                                                                         *)
(* operationMu is held for one whole handler of Control, which is one      *)
(* action here, except by advance, which holds it across its two looks at  *)
(* the matches (OperationFree).  Writing the state file and the journal    *)
(* may fail, or take effect and still report an error.  An identity is the *)
(* number of its row in the journal; reasons, reminders and broadcasts are *)
(* left out.                                                               *)
(***************************************************************************)
EXTENDS Integers, FiniteSets, Sequences

CONSTANTS
    Players,        \* each with at most one game of its own
    Admins,         \* panel sessions and local consoles
    Runner,         \* the goroutine of runMaintenanceSchedule
    Reconciler,     \* the goroutine of runMaintenanceReconciliation
    None,
    Actions,        \* the actions that operators request
    IsManaged,      \* the server has a supervisor
    IsScheduled,    \* and a cron schedule of updates
    Faults,         \* "save", "journal": which writes may fail
    MaxOperations,  \* bound on the rows of the journal
    MaxCompletions, \* maximumMaintenanceCompletions
    MaxRestarts     \* bound on the processes that are started again

Operations == 1 .. MaxOperations
Writers    == Admins \cup {Runner, Reconciler}
Phases     == {"none", "preparing", "warning", "draining", "held", "stopping",
               "failed", "cancelled", "completed"}
Outcomes   == {"prepare_failed", "acceptance_not_flushed", "cancel_failed", "cancelled", "held",
               "maintenance_failed", "healthy", "update_failed", "rolled_back", "failed",
               "announced", "announcement_failed"}
State      == [id : Operations \cup {0}, action : {"none", "restart", "update", "hold", "announce"},
               phase : Phases, isDrainPending : BOOLEAN]
Completion == [id : Operations, outcome : Outcomes]
Process    == [pc : {"idle", "waiting", "request", "accepted", "cancel", "complete", "write",
                     "due", "drain", "stop", "done"},
               intent : {"none", "request", "activate", "abort", "cancel", "retry", "resolve"},
               action : {"none", "restart", "update", "hold", "announce"},
               id : Operations \cup {0}, was : Phases, todo : Seq(Completion)]
Result     == [id : Operations, phase : {"starting", "validating", "healthy", "rolled_back", "failed"},
               code : {"none", "failed", "rolled_back"}]

ASSUME BoundAssumption == /\ MaxOperations \in Nat \ {0}
                          /\ MaxCompletions \in Nat \ {0}
                          /\ MaxRestarts \in Nat
ASSUME WritersAssumption == /\ Runner # Reconciler
                            /\ Admins \cap {Runner, Reconciler} = {}
                            /\ None \notin Writers
                            /\ None \notin Outcomes
                            /\ None \notin Result
ASSUME ActionsAssumption == /\ Actions \subseteq {"restart", "update", "hold", "announce"}
                            /\ Faults \subseteq {"save", "journal"}
                            /\ IsManaged \in BOOLEAN /\ IsScheduled \in BOOLEAN

VARIABLES
    state,        \* announcement.state
    disk,         \* maintenance-state.json
    isPast,       \* the deadline of the operation has passed
    writer,       \* who owns the gate exclusively
    waiting,      \* whom waitingWriterCount counts
    entry,        \* how far each player's Gate.Enter is: "out", "trying", "in"
    game,         \* each player's game: "none", "lobby", "active"
    proc,         \* what each writer is doing
    draining,     \* the users ForceDrain has still to disconnect
    isDrainError, \* one of them could not be
    journal,      \* admin_event: what became of each operation
    begun,        \* the number of rows
    completions,  \* outcomes waiting to be journalled again
    reported,     \* the reconciler's completedID and completedPhase
    server,       \* "up", "closing", "down"
    stopFor,      \* maintenanceOperationID when isMaintenanceStop, or 0
    isExternal,   \* the server was told to stop from outside
    isHealthy,    \* the supervisor has seen this child ready
    mayConsume,   \* the supervisor will read update-request.json
    request,      \* update-request.json: an operation or 0
    result,       \* maintenance-result.json
    restarts,     \* processes started again
    activated,    \* history: the last operation an operator saw activated
    released      \* history: operations cancelled by an operator or finished

control   == <<state, disk>>
gate      == <<writer, waiting, entry>>
drain     == <<draining, isDrainError>>
audit     == <<journal, begun, completions, reported>>
lifecycle == <<server, stopFor, isExternal, isHealthy, mayConsume, restarts>>
boot      == <<request, result>>
history   == <<activated, released>>
vars == <<control, isPast, gate, game, proc, drain, audit, lifecycle, boot, history>>

NoState == [id |-> 0, action |-> "none", phase |-> "none", isDrainPending |-> FALSE]
Idle    == [pc |-> "idle", intent |-> "none", action |-> "none", id |-> 0, was |-> "none",
            todo |-> << >>]
Nothing == [id |-> 0, phase |-> "none"]

IsActive(s)  == s.phase \in {"preparing", "warning", "draining", "held", "stopping", "failed"}
IsBlocked(s) == IsActive(s) /\ s.action # "announce"

Init ==
    /\ state = NoState /\ disk = NoState /\ isPast = FALSE
    /\ writer = None /\ waiting = {} /\ entry = [p \in Players |-> "out"]
    /\ game = [p \in Players |-> "none"]
    /\ proc = [c \in Writers |-> Idle]
    /\ draining = {} /\ isDrainError = FALSE
    /\ journal = [o \in Operations |-> "none"] /\ begun = 0
    /\ completions = [o \in Operations |-> None] /\ reported = Nothing
    /\ server = "up" /\ stopFor = 0 /\ isExternal = FALSE /\ isHealthy = ~IsManaged
    /\ mayConsume = FALSE /\ request = 0 /\ result = None /\ restarts = 0
    /\ activated = 0 /\ released = {}

-----------------------------------------------------------------------------
(* Players at the gate, and their games. *)

inside == {p \in Players : entry[p] = "in"}

\* Between the end of its context and its Close the server still serves.
IsServing == server \in {"up", "closing"}

\* (mutant) Entries do not mind a waiting writer.
EnterLookImpolite(p) ==
    /\ entry[p] = "out"
    /\ IsServing
    /\ entry' = [entry EXCEPT ![p] = "trying"]
    /\ UNCHANGED <<control, isPast, writer, waiting, game, proc, drain, audit, lifecycle, boot, history>>

\* Gate.lock polls: it looks at waitingWriterCount, then tries the lock.
EnterLook(p) ==
    /\ entry[p] = "out"
    /\ IsServing
    /\ waiting = {}
    /\ entry' = [entry EXCEPT ![p] = "trying"]
    /\ UNCHANGED <<control, isPast, writer, waiting, game, proc, drain, audit, lifecycle, boot, history>>

IsClosed == ~IsServing \/ IsBlocked(state)

EnterTry(p) ==
    /\ entry[p] = "trying"
    /\ entry' = [entry EXCEPT ![p] = IF writer = None /\ ~IsClosed THEN "in" ELSE "out"]
    /\ UNCHANGED <<control, isPast, writer, waiting, game, proc, drain, audit, lifecycle, boot, history>>

\* What an admitted login or game-manager request does before it returns the lease.
EnterGame(p) ==
    /\ entry[p] = "in"
    /\ entry' = [entry EXCEPT ![p] = "out"]
    /\ game' \in {game, [game EXCEPT ![p] = IF @ = "none" THEN "lobby" ELSE @]}
    /\ UNCHANGED <<control, isPast, writer, waiting, proc, drain, audit, lifecycle, boot, history>>

\* The last player of an admitted game is ready: no gate is asked.
StartGame(p) ==
    /\ game[p] = "lobby"
    /\ game' = [game EXCEPT ![p] = "active"]
    /\ UNCHANGED <<control, isPast, gate, proc, drain, audit, lifecycle, boot, history>>

EndGame(p) ==
    /\ game[p] # "none"
    /\ game' = [game EXCEPT ![p] = "none"]
    /\ UNCHANGED <<control, isPast, gate, proc, drain, audit, lifecycle, boot, history>>

ActiveMatchCount == Cardinality({p \in Players : game[p] = "active"})

\* The deadline is wall-clock time.
TimePasses ==
    /\ ~isPast
    /\ IsActive(disk)
    /\ isPast' = TRUE
    /\ UNCHANGED <<control, gate, game, proc, drain, audit, lifecycle, boot, history>>

-----------------------------------------------------------------------------
(* Pieces of the writers. *)

\* commit: the file first, then the memory; a file that was renamed into place
\* may still be reported as an error when its directory cannot be synced.
Commit(s, isOk) ==
    /\ isOk \/ "save" \in Faults
    /\ state' = IF isOk THEN s ELSE state
    /\ disk' \in (IF isOk THEN {s} ELSE {s, disk})

OperationFree == proc[Runner].pc # "due"

\* Gate.Change: ask for the gate, have it when nobody is inside, let go of it.
Wait(c, intent, action, id) ==
    /\ waiting' = waiting \cup {c}
    /\ proc' = [proc EXCEPT ![c] = [Idle EXCEPT !.pc = "waiting", !.intent = intent,
                                                !.action = action, !.id = id]]

\* (mutant) The writer does not wait for the entries to leave.
HasGateEarly(c, intent) ==
    /\ server = "up" \/ (IsServing /\ c \in Admins)
    /\ proc[c].pc = "waiting" /\ proc[c].intent = intent
    /\ writer = None

HasGate(c, intent) ==
    /\ server = "up" \/ (IsServing /\ c \in Admins)
    /\ proc[c].pc = "waiting" /\ proc[c].intent = intent
    /\ writer = None /\ inside = {}

Become(c, p)  == proc' = [proc EXCEPT ![c] = p]
Keep(c, p)    == writer' = c /\ waiting' = waiting \ {c} /\ Become(c, p)
LetGo(c)      == writer' = IF writer = c THEN None ELSE writer
Finish(c, p)  == LetGo(c) /\ waiting' = waiting \ {c} /\ Become(c, p)

Row(id, outcome)      == [id |-> id, outcome |-> outcome]
Completing(p, todo)   == [p EXCEPT !.pc = "complete", !.todo = todo]
Accepted(id)          == [Idle EXCEPT !.pc = "accepted", !.id = id]

IsAuditBacklogged ==
    Cardinality({o \in Operations : completions[o] # None}) >= MaxCompletions - 2

\* BeginServerOperation: a new row, or an error and no operation, though the
\* row may have been committed; the bound is an error too.
Begin(c, p) ==
    \/ /\ begun < MaxOperations
       /\ begun' = begun + 1
       /\ journal' = [journal EXCEPT ![begun + 1] = "accepted"]
       /\ Keep(c, [p EXCEPT !.todo = <<Row(begun + 1, "prepare_failed")>>])
    \/ /\ "journal" \in Faults \/ begun = MaxOperations
       /\ Finish(c, Idle)
       /\ \/ UNCHANGED <<journal, begun>>
          \/ /\ begun < MaxOperations
             /\ begun' = begun + 1
             /\ journal' = [journal EXCEPT ![begun + 1] = "accepted"]

\* The context of a waiting writer expires.  An activation that fails in any
\* way is followed by an abort, except in the schedule.
GiveUp(c) == IF proc[c].intent = "activate" /\ c # Runner
             THEN LetGo(c) /\ Wait(c, "abort", "none", proc[c].id)
             ELSE Finish(c, Idle)

TimeOut(c) ==
    /\ proc[c].pc = "waiting"
    /\ c \in Admins \/ server # "up"
    /\ GiveUp(c)
    /\ UNCHANGED <<control, isPast, entry, game, drain, audit, lifecycle, boot, history>>

-----------------------------------------------------------------------------
(* Request, Announce, Activate, Abort, Cancel. *)

MayRequest(c, action) == \/ c \in Admins /\ action \in Actions
                         \/ c = Runner /\ IsScheduled /\ action = "update"

AskRequest(c, action) ==
    /\ server = "up" /\ proc[c].pc = "idle" /\ begun < MaxOperations
    /\ MayRequest(c, action)
    /\ Wait(c, "request", action, 0)
    /\ UNCHANGED <<control, isPast, writer, entry, game, drain, audit, lifecycle, boot, history>>

\* The adapter's part: an equal operation is shared, any other one refused.
RequestBegin(c) ==
    /\ HasGate(c, "request")
    /\ LET action == proc[c].action
           isShared == IsActive(state) /\ state.action = action /\ action # "announce" /\ c # Runner
           isRefused == \/ IsActive(state)
                        \/ action \in {"restart", "update"} /\ ~IsManaged
                        \/ IsAuditBacklogged
       IN  IF isShared \/ isRefused
           THEN /\ Finish(c, IF isShared THEN Accepted(state.id) ELSE Idle)
                /\ UNCHANGED <<journal, begun>>
           ELSE Begin(c, [Idle EXCEPT !.pc = "request", !.action = action, !.id = begun + 1])
    /\ UNCHANGED <<control, isPast, entry, game, drain, completions, reported, lifecycle, boot, history>>

New(c, phase) == [id |-> proc[c].id, action |-> proc[c].action, phase |-> phase,
                  isDrainPending |-> FALSE]

\* announcement.request; the warning may be of no minutes at all.
RequestCommit(c, isOk) ==
    /\ proc[c].pc = "request" /\ proc[c].action # "announce"
    /\ OperationFree
    /\ Commit(New(c, "preparing"), isOk)
    /\ IF isOk
       THEN Finish(c, Accepted(proc[c].id)) /\ isPast' \in BOOLEAN
       ELSE Keep(c, Completing(proc[c], <<Row(proc[c].id, "prepare_failed")>>)) /\ UNCHANGED isPast
    /\ UNCHANGED <<entry, game, drain, audit, lifecycle, boot, history>>

\* announcement.announce: the warning is committed, delivered, and committed again.
AnnounceCommit(c, isOk) ==
    /\ proc[c].pc = "request" /\ proc[c].action = "announce"
    /\ OperationFree
    /\ \/ /\ isOk
          /\ Commit(New(c, "warning"), TRUE)
       \/ /\ ~isOk
          /\ Commit(New(c, "warning"), FALSE) \/ Commit(New(c, "failed"), TRUE)
       \/ /\ ~isOk /\ "save" \in Faults
          /\ state' = New(c, "warning")
          /\ disk' \in {New(c, "warning"), New(c, "failed")}
    /\ Keep(c, Completing(proc[c], <<Row(proc[c].id, IF isOk THEN "announced" ELSE "announcement_failed")>>))
    /\ isPast' = FALSE
    /\ UNCHANGED <<entry, game, drain, audit, lifecycle, boot, history>>

\* The acceptance has reached the client, or could not be sent.
Answer(c, isFlushed) ==
    /\ proc[c].pc = "accepted"
    /\ isFlushed \/ c # Runner
    /\ Wait(c, IF isFlushed THEN "activate" ELSE "abort", "none", proc[c].id)
    /\ UNCHANGED <<control, isPast, writer, entry, game, drain, audit, lifecycle, boot, history>>

Activated(s) == [s EXCEPT !.phase = IF s.action = "hold" THEN "draining" ELSE "warning"]

Activate(c, isOk) ==
    /\ HasGate(c, "activate")
    /\ OperationFree
    /\ IF state.id = proc[c].id /\ state.phase = "preparing"
       THEN Commit(Activated(state), isOk)
       ELSE isOk = (state.id = proc[c].id /\ IsActive(state)) /\ UNCHANGED control
    /\ IF isOk
       THEN Finish(c, Idle) /\ activated' = proc[c].id
       ELSE GiveUp(c) /\ UNCHANGED activated
    /\ UNCHANGED <<isPast, entry, game, drain, audit, lifecycle, boot, released>>

Abort(c, isOk) ==
    /\ HasGate(c, "abort")
    /\ OperationFree
    /\ IF state.id = proc[c].id /\ state.phase = "preparing"
       THEN /\ Commit([state EXCEPT !.phase = "cancelled"], isOk)
            /\ IF isOk THEN Keep(c, Completing(proc[c], <<Row(proc[c].id, "acceptance_not_flushed")>>))
                       ELSE Finish(c, Idle)
       ELSE isOk /\ Finish(c, Idle) /\ UNCHANGED control
    /\ UNCHANGED <<isPast, entry, game, drain, audit, lifecycle, boot, history>>

AskCancel(c) ==
    /\ server = "up" /\ proc[c].pc = "idle" /\ begun < MaxOperations
    /\ c \in Admins /\ state.id # 0
    /\ Wait(c, "cancel", "none", state.id)
    /\ UNCHANGED <<control, isPast, writer, entry, game, drain, audit, lifecycle, boot, history>>

\* (mutant) A failed result is not taken for final.
IsFinalSuccess(r) == r.phase \in {"healthy", "rolled_back"}
IsFinal(r) == r.phase \in {"healthy", "rolled_back", "failed"}
\* (mutant) The result of an earlier operation matches, too.
MatchesAny(r, id) == r # None
Matches(r, id) == r # None /\ r.id = id

\* (mutant) Stopping can be cancelled.
CanCancelStopping(id) ==
    /\ state.id = id
    /\ ~(state.action = "hold" /\ state.phase = "draining" /\ isPast)

\* Stopping cannot be cancelled, nor can the cleanup at the deadline of a hold.
CanCancel(id) ==
    /\ state.id = id
    /\ state.phase # "stopping"
    /\ ~(state.action = "hold" /\ state.phase = "draining" /\ isPast)

CancelBegin(c) ==
    /\ HasGate(c, "cancel")
    /\ IF /\ CanCancel(proc[c].id) /\ IsActive(state) /\ ~IsAuditBacklogged
          /\ ~(IsManaged /\ state.phase = "failed" /\ Matches(result, state.id) /\ ~IsFinal(result))
       THEN Begin(c, [Idle EXCEPT !.pc = "cancel", !.id = state.id, !.was = state.phase])
       ELSE Finish(c, Idle) /\ UNCHANGED <<journal, begun>>
    /\ UNCHANGED <<control, isPast, entry, game, drain, completions, reported, lifecycle, boot, history>>

\* (mutant) The operation is journalled as cancelled whether it was or not.
CancelCommitUnchecked(c, isOk) ==
    /\ proc[c].pc = "cancel"
    /\ OperationFree
    /\ IF CanCancel(proc[c].id)
       THEN /\ Commit([state EXCEPT !.phase = "cancelled"], isOk)
            /\ released' = released \cup {proc[c].id}
       ELSE ~isOk /\ UNCHANGED <<control, released>>
    /\ Become(c, Completing(proc[c], <<Row(Head(proc[c].todo).id, "cancelled"),
                                       Row(proc[c].id, IF proc[c].was = "held" THEN "held" ELSE "cancelled")>>))
    /\ UNCHANGED <<isPast, gate, game, drain, audit, lifecycle, boot, activated>>

\* The cancellation and then the operation it cancelled are journalled.
CancelCommit(c, isOk) ==
    /\ proc[c].pc = "cancel"
    /\ OperationFree
    /\ LET own == Head(proc[c].todo).id
           outcome == IF proc[c].was = "held" THEN "held" ELSE "cancelled"
       IN  /\ IF CanCancel(proc[c].id)
              THEN /\ Commit([state EXCEPT !.phase = "cancelled"], isOk)
                   /\ released' = released \cup {proc[c].id}
              ELSE ~isOk /\ UNCHANGED <<control, released>>
           /\ Become(c, Completing(proc[c], IF isOk THEN <<Row(own, "cancelled"), Row(proc[c].id, outcome)>>
                                            ELSE <<Row(own, "cancel_failed")>>))
    /\ UNCHANGED <<isPast, gate, game, drain, audit, lifecycle, boot, activated>>

-----------------------------------------------------------------------------
(* The journal, and the reconciler. *)

\* CompleteServerOperation: the first terminal outcome stays.
Journalled(id, outcome) == IF journal[id] = "accepted" THEN [journal EXCEPT ![id] = outcome] ELSE journal

\* complete looks for a pending outcome, then writes.
CompleteLook(c) ==
    /\ proc[c].pc = "complete"
    /\ LET row == Head(proc[c].todo)
           pending == completions[row.id]
       IN  Become(c, [proc[c] EXCEPT !.pc = "write",
                          !.todo[1].outcome = IF pending = None THEN @ ELSE pending])
    /\ UNCHANGED <<control, isPast, gate, game, drain, audit, lifecycle, boot, history>>

\* (mutant) An outcome that could not be written is not kept.
CompleteWriteForgets(c, isOk) ==
    /\ proc[c].pc = "write"
    /\ isOk \/ "journal" \in Faults
    /\ LET row  == Head(proc[c].todo)
           rest == Tail(proc[c].todo)
       IN  /\ journal' \in (IF isOk THEN {} ELSE {journal}) \cup {Journalled(row.id, row.outcome)}
           /\ completions' = [completions EXCEPT ![row.id] = None]
           /\ IF rest # << >>
              THEN Become(c, Completing(proc[c], rest)) /\ UNCHANGED <<writer, waiting>>
              ELSE Finish(c, Idle)
           /\ reported' = IF isOk /\ c = Reconciler /\ proc[c].intent = "resolve"
                          THEN [id |-> row.id, phase |-> proc[c].was] ELSE reported
    /\ UNCHANGED <<control, isPast, entry, game, drain, begun, lifecycle, boot, history>>

CompleteWrite(c, isOk) ==
    /\ proc[c].pc = "write"
    /\ isOk \/ "journal" \in Faults
    /\ LET row  == Head(proc[c].todo)
           rest == Tail(proc[c].todo)
           hasRoom == Cardinality({o \in Operations : completions[o] # None}) < MaxCompletions
       IN  /\ journal' \in (IF isOk THEN {} ELSE {journal}) \cup {Journalled(row.id, row.outcome)}
           /\ completions' = IF isOk THEN [completions EXCEPT ![row.id] = None]
                             ELSE IF hasRoom THEN [completions EXCEPT ![row.id] = row.outcome]
                             ELSE completions
           /\ IF rest # << >>
              THEN Become(c, Completing(proc[c], rest)) /\ UNCHANGED <<writer, waiting>>
              ELSE Finish(c, Idle)
           /\ reported' = IF isOk /\ c = Reconciler /\ proc[c].intent = "resolve"
                          THEN [id |-> row.id, phase |-> proc[c].was] ELSE reported
    /\ UNCHANGED <<control, isPast, entry, game, drain, begun, lifecycle, boot, history>>

\* (mutant) Only the outcome of the current operation is tried again.
RetryCompletionCurrent(o) ==
    /\ server = "up" /\ proc[Reconciler].pc = "idle" /\ completions[o] # None /\ state.id = o
    /\ Become(Reconciler, Completing([Idle EXCEPT !.intent = "retry"], <<Row(o, completions[o])>>))
    /\ UNCHANGED <<control, isPast, gate, game, drain, audit, lifecycle, boot, history>>

RetryCompletion(o) ==
    /\ server = "up" /\ proc[Reconciler].pc = "idle" /\ completions[o] # None
    /\ Become(Reconciler, Completing([Idle EXCEPT !.intent = "retry"], <<Row(o, completions[o])>>))
    /\ UNCHANGED <<control, isPast, gate, game, drain, audit, lifecycle, boot, history>>

OutcomeOf(phase) == CASE phase = "held"      -> "held"
                      [] phase = "cancelled" -> "cancelled"
                      [] phase = "failed"    -> "maintenance_failed"
                      [] OTHER -> None
ResultOutcome(r) == IF r.phase = "healthy" /\ r.code # "none" THEN "update_failed" ELSE r.phase

Reporting(id, phase, outcome) ==
    [Completing(Idle, <<Row(id, outcome)>>) EXCEPT !.intent = "resolve", !.id = id, !.was = phase]

\* reconcile, up to the gate: an outcome of this process is journalled at once,
\* a final one of the supervisor's has to be resolved first.
ReconcileLook ==
    LET isReported == reported = [id |-> state.id, phase |-> state.phase]
        isSupervised == IsManaged /\ state.phase \in {"stopping", "failed", "completed"}
                                  /\ Matches(result, state.id)
    IN  /\ server = "up" /\ proc[Reconciler].pc = "idle" /\ state.id # 0
        /\ \/ /\ ~isSupervised /\ ~isReported /\ OutcomeOf(state.phase) # None
              /\ Become(Reconciler, Reporting(state.id, state.phase, OutcomeOf(state.phase)))
              /\ UNCHANGED waiting
           \/ /\ isSupervised /\ IsFinal(result)
              /\ ~isReported \/ (state.phase = "failed" /\ result.phase # "failed")
              /\ Wait(Reconciler, "resolve", "none", state.id)
        /\ UNCHANGED <<control, isPast, writer, entry, game, drain, audit, lifecycle, boot, history>>

\* (mutant) Every result reopens the server.
ResolvedOpen(s, phase) == [s EXCEPT !.phase = "completed"]

\* Control.Resolve under the gate, and what is journalled of it.
Resolved(s, phase) == [s EXCEPT !.phase = IF phase = "failed" THEN "failed" ELSE "completed"]

ReconcileResolve(isOk) ==
    /\ HasGate(Reconciler, "resolve")
    /\ OperationFree
    /\ LET id == proc[Reconciler].id
           s  == Resolved(state, result.phase)
       IN  /\ IF Matches(result, id) /\ state.id = id /\ state.phase \in {"stopping", "failed"} /\ state # s
              THEN Commit(s, isOk)
              ELSE isOk = (state.id = id /\ state = s) /\ UNCHANGED control
           /\ Finish(Reconciler, IF isOk THEN Reporting(id, s.phase, ResultOutcome(result)) ELSE Idle)
    /\ UNCHANGED <<isPast, entry, game, drain, audit, lifecycle, boot, history>>

-----------------------------------------------------------------------------
(* The schedule: Control.advance, and the end of the countdown. *)

\* (mutant) Only the end of the last match ends the countdown.
AdvanceLookNoDeadline ==
    /\ server = "up" /\ proc[Runner].pc = "idle"
    /\ IsBlocked(state) /\ state.phase \in {"warning", "draining"}
    /\ ActiveMatchCount = 0
    /\ Become(Runner, [Idle EXCEPT !.pc = "due"])
    /\ disk' \in {disk, state}
    /\ UNCHANGED <<state, isPast, gate, game, drain, audit, lifecycle, boot, history>>

\* The first look: advance finds the operation due at its deadline or without
\* matches, and keeps operationMu.  A reminder rewrites the state file.
AdvanceLook ==
    /\ server = "up" /\ proc[Runner].pc = "idle"
    /\ IsBlocked(state) /\ state.phase \in {"warning", "draining"}
    /\ isPast \/ ActiveMatchCount = 0
    /\ Become(Runner, [Idle EXCEPT !.pc = "due"])
    /\ disk' \in {disk, state}
    /\ UNCHANGED <<state, isPast, gate, game, drain, audit, lifecycle, boot, history>>

NeedsDrain == state.action = "hold" /\ (state.isDrainPending \/ ActiveMatchCount > 0)

Draining == [state EXCEPT !.isDrainPending = TRUE]
Ended(s) == [s EXCEPT !.phase = IF s.action = "hold" THEN "held" ELSE "stopping",
                      !.isDrainPending = FALSE]

\* The second look.  A hold with matches claims their cleanup and lets go of
\* operationMu for it; everything else is over.
AdvanceDecide(isOk) ==
    /\ proc[Runner].pc = "due"
    /\ IF server # "up"
       THEN isOk /\ Become(Runner, Idle) /\ UNCHANGED <<control, drain>>
       ELSE IF NeedsDrain
       THEN /\ IF state.isDrainPending THEN isOk /\ UNCHANGED control ELSE Commit(Draining, isOk)
            /\ IF isOk
               THEN /\ Become(Runner, [Idle EXCEPT !.pc = "drain", !.id = state.id, !.was = state.phase])
                    /\ draining' = Players /\ isDrainError' = FALSE
               ELSE Become(Runner, Idle) /\ UNCHANGED drain
       ELSE /\ Commit(Ended(state), isOk)
            /\ Become(Runner, [Idle EXCEPT !.pc = IF isOk /\ state.action # "hold" THEN "stop" ELSE "idle"])
            /\ UNCHANGED drain
    /\ UNCHANGED <<isPast, gate, game, audit, lifecycle, boot, history>>

\* DisconnectAccount waits for the user's request and ends their game, or fails.
DrainUser(p, isOk) ==
    /\ p \in draining
    /\ draining' = draining \ {p}
    /\ IF isOk
       THEN entry[p] # "in" /\ game' = [game EXCEPT ![p] = "none"] /\ UNCHANGED isDrainError
       ELSE game[p] # "none" /\ isDrainError' = TRUE /\ game' \in {game, [game EXCEPT ![p] = "none"]}
    /\ UNCHANGED <<control, isPast, gate, proc, audit, lifecycle, boot, history>>

\* operationMu again: the operation may have been cancelled meanwhile.
DrainEnd(isOk) ==
    /\ proc[Runner].pc = "drain"
    /\ draining = {}
    /\ IF /\ state.id = proc[Runner].id /\ IsActive(state) /\ state.phase = proc[Runner].was
          /\ ~isDrainError /\ server = "up" /\ ActiveMatchCount = 0
       THEN Commit(Ended(state), isOk)
       ELSE isOk /\ UNCHANGED control
    /\ Become(Runner, Idle)
    /\ UNCHANGED <<isPast, gate, game, drain, audit, lifecycle, boot, history>>

\* The countdown is over: the runner cancels the server's context and returns.
RunnerStop ==
    /\ proc[Runner].pc = "stop"
    /\ Become(Runner, [Idle EXCEPT !.pc = "done"])
    /\ IF server = "up" /\ state.phase = "stopping"
       THEN server' = "closing" /\ stopFor' = state.id
       ELSE UNCHANGED <<server, stopFor>>
    /\ UNCHANGED <<control, isPast, gate, game, drain, audit, isExternal, isHealthy, mayConsume,
                   restarts, boot, history>>

-----------------------------------------------------------------------------
(* The end of the process, and the supervisor. *)

\* What a process takes with it.
Exit(canConsume) ==
    /\ server' = "down" /\ stopFor' = 0 /\ isExternal' = FALSE /\ isHealthy' = ~IsManaged
    /\ mayConsume' = (canConsume /\ IsManaged)
    /\ state' = NoState
    /\ writer' = None /\ waiting' = {} /\ entry' = [p \in Players |-> "out"]
    /\ game' = [p \in Players |-> "none"] /\ proc' = [c \in Writers |-> Idle]
    /\ draining' = {} /\ isDrainError' = FALSE
    /\ completions' = [o \in Operations |-> None] /\ reported' = Nothing

IsPending(r) == r # None /\ r.phase \notin {"healthy", "rolled_back"}
Failed(r) == [r EXCEPT !.phase = "failed", !.code = IF @ = "none" THEN "failed" ELSE @]

\* auditResult: the supervisor journals a final result itself, if it can.
Audited(r) == /\ journal' \in {Journalled(r.id, ResultOutcome(r))}
                              \cup (IF "journal" \in Faults THEN {journal} ELSE {})
              /\ released' = IF r.phase = "failed" THEN released ELSE released \cup {r.id}

\* A child that ends before it was seen ready fails the operation in hand.  When
\* the supervisor ended too, the next one journals a final result it finds.
ChildEnded(isSupervisorGone) ==
    IF isSupervisorGone /\ result # None /\ IsFinal(result)
    THEN UNCHANGED result /\ Audited(result)
    ELSE IF ~isSupervisorGone /\ ~isHealthy /\ IsPending(result)
    THEN result' = Failed(result) /\ Audited(Failed(result))
    ELSE UNCHANGED <<result, journal, released>>

ExternalStop ==
    /\ server # "down" /\ ~isExternal /\ restarts < MaxRestarts
    /\ server' = "closing" /\ isExternal' = TRUE /\ restarts' = restarts + 1
    /\ UNCHANGED <<control, isPast, gate, game, proc, drain, audit, stopFor, isHealthy, mayConsume,
                   boot, history>>

\* The startup deadline: the supervisor fails the operation, then stops the child.
StartupTimeout ==
    /\ server = "up" /\ ~isHealthy
    /\ IsPending(result) /\ result.phase = "validating"
    /\ result' = Failed(result) /\ Audited(Failed(result))
    /\ UNCHANGED <<control, isPast, gate, game, proc, drain, begun, completions, reported, lifecycle,
                   request, activated>>

\* Server.Close has waited for the two goroutines; writeMaintenanceRequest.
\* With an error, or when the stop came from outside after all, the operation
\* is failed instead, though the request may have been installed; a listener's
\* error skips all of it.
Shutdown(isClean, isSupervisorGone) ==
    /\ server = "closing"
    /\ proc[Runner].pc \in {"idle", "done"} /\ proc[Reconciler].pc = "idle"
    /\ isSupervisorGone => isExternal
    /\ IF stopFor = 0
       THEN UNCHANGED <<disk, request>>
       ELSE IF isClean /\ ~isExternal
       THEN request' = stopFor /\ UNCHANGED disk
       ELSE \/ /\ request' \in {request} \cup (IF isClean THEN {stopFor} ELSE {})
               /\ disk' = [state EXCEPT !.phase = "failed"]
            \/ /\ ~isClean \/ "save" \in Faults
               /\ UNCHANGED <<disk, request>>
    /\ Exit(isSupervisorGone \/ (isClean /\ isHealthy))
    /\ ChildEnded(isSupervisorGone)
    /\ UNCHANGED <<isPast, begun, restarts, activated>>

\* The process alone dies, or the machine with it.
Crash(isPowerLoss) ==
    /\ server # "down" /\ restarts < MaxRestarts
    /\ restarts' = restarts + 1
    /\ Exit(isPowerLoss)
    /\ ChildEnded(isPowerLoss)
    /\ UNCHANGED <<disk, isPast, begun, request, activated>>

\* updateStopped: the request of a clean shutdown becomes the operation in hand,
\* unless the backup, the check or the installation fails at once.
ConsumeRequest(isOk) ==
    /\ server = "down" /\ mayConsume /\ request # 0
    /\ LET r == [id |-> request, phase |-> IF isOk THEN "starting" ELSE "failed",
                 code |-> IF isOk THEN "none" ELSE "failed"]
       IN result' = r /\ IF isOk THEN UNCHANGED <<journal, released>> ELSE Audited(r)
    /\ request' \in {0} \cup (IF isOk THEN {} ELSE {request})
    /\ mayConsume' = FALSE
    /\ UNCHANGED <<control, isPast, gate, game, proc, drain, begun, completions, reported, server,
                   stopFor, isExternal, isHealthy, restarts, activated>>

\* A first boot that failed: the previous executable and database are restored.
Rollback ==
    /\ server = "down" /\ IsPending(result) /\ result.phase = "failed" /\ result.code # "rolled_back"
    /\ result' = [result EXCEPT !.phase = "starting", !.code = "rolled_back"]
    /\ UNCHANGED <<control, isPast, gate, game, proc, drain, audit, lifecycle, request, history>>

\* restoreState: an operation that was never accepted is abandoned.
Restored(s) == IF s.phase = "preparing" THEN [s EXCEPT !.phase = "cancelled"] ELSE s

\* runChild, maintenance.Start and recoverRestoredMaintenance.  A start that
\* cannot save the state fails, and is tried again.
Start ==
    /\ server = "down" /\ ~(mayConsume /\ request # 0)
    /\ server' = "up" /\ mayConsume' = FALSE
    /\ request' = IF IsManaged THEN 0 ELSE request
    /\ result' = IF IsPending(result) THEN [result EXCEPT !.phase = "validating"] ELSE result
    /\ LET s == Restored(disk)
       IN state' = IF s.phase = "stopping" /\ ~Matches(result, s.id) THEN [s EXCEPT !.phase = "failed"] ELSE s
    /\ disk' = state'
    /\ UNCHANGED <<isPast, gate, game, proc, drain, audit, stopFor, isExternal, isHealthy, restarts, history>>

\* Three good probes: whatever operation is in hand has succeeded.
BecomeHealthy ==
    /\ server = "up" /\ ~isHealthy
    /\ result # None => result.phase # "failed"
    /\ isHealthy' = TRUE
    /\ IF IsPending(result)
       THEN LET r == [result EXCEPT !.phase = IF @ = "rolled_back" THEN @ ELSE "healthy"]
                final == IF result.code = "rolled_back" THEN [r EXCEPT !.phase = "rolled_back"] ELSE r
            IN result' = final /\ Audited(final)
       ELSE UNCHANGED <<result, journal, released>>
    /\ UNCHANGED <<control, isPast, gate, game, proc, drain, begun, completions, reported, server,
                   stopFor, isExternal, mayConsume, restarts, request, activated>>

-----------------------------------------------------------------------------
Play == \/ TimePasses
        \/ \E p \in Players : EnterLook(p) \/ EnterTry(p) \/ EnterGame(p) \/ StartGame(p) \/ EndGame(p)

Ask(c) == \/ \E action \in {"restart", "update", "hold", "announce"} : AskRequest(c, action)
          \/ \E isFlushed \in BOOLEAN : Answer(c, isFlushed)
          \/ AskCancel(c) \/ TimeOut(c)

Handle(c) == \/ RequestBegin(c) \/ CancelBegin(c) \/ CompleteLook(c)
             \/ \E isOk \in BOOLEAN : \/ RequestCommit(c, isOk) \/ AnnounceCommit(c, isOk)
                                      \/ Activate(c, isOk) \/ Abort(c, isOk)
                                      \/ CancelCommit(c, isOk) \/ CompleteWrite(c, isOk)

Reconcile == \/ ReconcileLook \/ \E isOk \in BOOLEAN : ReconcileResolve(isOk)
             \/ \E o \in Operations : RetryCompletion(o)

Advance == \/ AdvanceLook \/ RunnerStop
           \/ \E isOk \in BOOLEAN : \/ AdvanceDecide(isOk) \/ DrainEnd(isOk)
                                    \/ \E p \in Players : DrainUser(p, isOk)

Supervise == \/ \E isClean, isGone \in BOOLEAN : Shutdown(isClean, isGone)
             \/ \E isOk \in BOOLEAN : Crash(isOk) \/ ConsumeRequest(isOk)
             \/ ExternalStop \/ StartupTimeout \/ Rollback \/ Start \/ BecomeHealthy

Next == Play \/ Reconcile \/ Advance \/ Supervise \/ \E c \in Writers : Ask(c) \/ Handle(c)

Spec == Init /\ [][Next]_vars

\* A row of the journal is written.
WriteRow(o) == CompleteWrite(Reconciler, TRUE) /\ Head(proc[Reconciler].todo).id = o

\* What the scheduling of the code guarantees.  Handlers and loops go on; the
\* reconciler's tick (one second) takes up everything that is due, again and
\* again, and a row or a disconnection that is retried for ever is not refused
\* for ever; both end with the server's context.  Nothing is assumed of clients,
\* operators, their timeouts and crashes.
Fairness ==
    /\ \A c \in Writers : WF_vars(Handle(c))
    /\ SF_vars(ReconcileLook)
    /\ \A o \in Operations : SF_vars(RetryCompletion(o)) /\ SF_vars(WriteRow(o))
    /\ SF_vars(ReconcileResolve(TRUE))
    /\ WF_vars(TimeOut(Runner)) /\ WF_vars(TimeOut(Reconciler))
    /\ WF_vars(TimePasses) /\ WF_vars(AdvanceLook) /\ WF_vars(RunnerStop)
    /\ \A p \in Players : WF_vars(EnterTry(p)) /\ WF_vars(EnterGame(p)) /\ SF_vars(DrainUser(p, TRUE))
    /\ SF_vars(AdvanceDecide(TRUE)) /\ SF_vars(DrainEnd(TRUE))
    /\ WF_vars(\E isOk \in BOOLEAN : AdvanceDecide(isOk) \/ DrainEnd(isOk))
    /\ WF_vars(\E isClean, isGone \in BOOLEAN : Shutdown(isClean, isGone))
    /\ WF_vars(\E isOk \in BOOLEAN : ConsumeRequest(isOk)) /\ WF_vars(Start)
    /\ WF_vars(BecomeHealthy \/ StartupTimeout)

FairSpec == Spec /\ Fairness

-----------------------------------------------------------------------------
(* Properties. *)

\* Every variable has its type: rows and phases come from the code's vocabularies.
TypeOK ==
    /\ state \in State /\ disk \in State /\ isPast \in BOOLEAN
    /\ writer \in Writers \cup {None} /\ waiting \subseteq Writers
    /\ entry \in [Players -> {"out", "trying", "in"}]
    /\ game \in [Players -> {"none", "lobby", "active"}]
    /\ proc \in [Writers -> Process]
    /\ draining \subseteq Players /\ isDrainError \in BOOLEAN
    /\ journal \in [Operations -> Outcomes \cup {"none", "accepted"}] /\ begun \in 0 .. MaxOperations
    /\ completions \in [Operations -> Outcomes \cup {None}]
    /\ reported \in [id : Operations \cup {0}, phase : Phases]
    /\ server \in {"up", "closing", "down"} /\ stopFor \in Operations \cup {0}
    /\ isExternal \in BOOLEAN /\ isHealthy \in BOOLEAN /\ mayConsume \in BOOLEAN
    /\ restarts \in 0 .. MaxRestarts
    /\ request \in Operations \cup {0} /\ result \in Result \cup {None}
    /\ activated \in Operations \cup {0} /\ released \subseteq Operations

\* Nobody is inside an entry while an operation blocks admission: a player who
\* passed the gate before the operation has left it, one who comes later is
\* turned away, and no restart or recovery happens under an entry's feet.
ClosedToEntry == inside # {} => writer = None /\ ~IsBlocked(state)

\* The state a player meets, or would meet after the restart that is due.
Effective == IF server = "down" THEN Restored(disk) ELSE state

\* An operation that was activated keeps the game closed, through crashes,
\* ambiguous writes and restarts, until it is cancelled or the supervisor has
\* finished it ("A hold keeps admissions closed until explicitly cancelled").
StaysClosed ==
    activated # 0 /\ activated \notin released =>
        Effective.id = activated /\ IsBlocked(Effective)

\* A terminal outcome in the journal agrees with the operation it is about for
\* as long as that is the current one.
Agrees(outcome, phase) ==
    CASE outcome \in {"cancelled", "acceptance_not_flushed", "prepare_failed"} -> phase = "cancelled"
      [] outcome = "held" -> phase \in {"held", "cancelled"}
      [] outcome = "maintenance_failed" -> phase \in {"failed", "cancelled", "completed"}
      [] outcome \in {"healthy", "rolled_back", "update_failed", "failed"} ->
             phase \in {"stopping", "failed", "cancelled", "completed"}
      [] OTHER -> TRUE
JournalAgrees == Effective.id # 0 => Agrees(journal[Effective.id], Effective.phase)

\* Once the server stops for an operation nothing takes that back: it ends with
\* the supervisor's outcome or as failed, whatever is cancelled, lost or crashes.
StoppingIsFinal ==
    [][Effective.phase = "stopping" =>
          /\ Effective'.id = Effective.id
          /\ Effective'.phase \in {"stopping", "failed", "completed"}]_vars

\* A hold does come to its end: the matches that outlast the deadline are cleaned
\* up however often a disconnection fails (advance, ForceDrain).
HoldEnds == state.phase = "draining" ~> state.phase # "draining"

\* An operator who waits for the gate is not starved by players who come and go
\* (Gate.lock: a waiting writer keeps new entries out).
WriterServed == \A c \in Admins : proc[c].pc = "waiting" ~> proc[c].pc # "waiting"

\* A writer has the row in hand; its outcome is being journalled or waits for it.
IsCarried(o, c)  == \E i \in DOMAIN proc[c].todo : proc[c].todo[i].id = o
IsUnderWay(o)    == \/ completions[o] # None
                    \/ \E c \in Writers : proc[c].pc \in {"complete", "write"} /\ IsCarried(o, c)

\* While a process lives nobody drops an operation that is not journalled: it is
\* the current one, for the reconciler to look at, or a writer has it in hand, or
\* its outcome waits in the queue, although the journal refuses, a later operation
\* takes the state file and several operators complete rows (Request, Cancel,
\* complete).  The queue is memory: what only waits there dies with the process.
IsKept(o) == state.id = o \/ IsUnderWay(o) \/ \E c \in Writers : IsCarried(o, c)
OutcomeKept ==
    [][\A o \in Operations :
          IsKept(o) /\ server' # "down" => IsKept(o)' \/ journal'[o] # "accepted"]_vars

\* What is kept is journalled in the end.  An outcome that a process has set out
\* to journal, also that of an operation which was never the current one, reaches
\* the journal before that process stops, however often the journal refuses
\* (complete, retryCompletions); and the operation of the state file, in whatever
\* process it ended, unless another one replaces it (reconcile).
OutcomeJournalled ==
    \A o \in Operations :
        /\ IsUnderWay(o) ~> journal[o] # "accepted" \/ server # "up"
        /\ state.id = o /\ state.phase \in {"held", "cancelled", "failed"}
             ~> journal[o] # "accepted" \/ state.id \notin {0, o}

\* An operation that stopped the server gets its outcome, with a crash on the way
\* or a child that never becomes ready.
RestartResolves == Effective.phase = "stopping" ~> server = "up" /\ state.phase # "stopping"

\* What maintenance promises the players.
Policy == INSTANCE AdmissionPolicy WITH
    Open <- 0,
    holding <- IF IsBlocked(Effective) /\ Effective.phase # "preparing" THEN Effective.id ELSE 0
ImplementsPolicy == Policy!Spec

\* "Session cleanup or shutdown has begun. Cancellation is unavailable while it
\* is in progress." (controlpanel/maintenance.go, writeMaintenanceError)
NoCancelDuringCleanup ==
    [][proc[Runner].pc = "drain" /\ draining # {} /\ state.phase = "draining" /\ server' = "up"
         => state'.phase # "cancelled"]_vars

\* "A later cancellation cannot replace an already observed successful hold while
\* its terminal journal write is waiting for recovery." (panel_maintenance.go, complete)
ObservedHoldKept ==
    [][\A o \in Operations :
          completions[o] = "held" /\ journal[o] = "accepted" => journal'[o] # "cancelled"]_vars
=============================================================================
