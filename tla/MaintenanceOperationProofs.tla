--------------------- MODULE MaintenanceOperationProofs ---------------------
(***************************************************************************)
(* Proofs about Maintenance, for any players, operators, actions, faults   *)
(* and bounds, of what becomes of an operation.                            *)
(*                                                                         *)
(* First, an operation that was activated keeps the game closed until it   *)
(* is released (StaysClosed), an operation that stops the server is not    *)
(* taken back (StoppingIsFinal), and the whole implements AdmissionPolicy. *)
(* A write of the state file that fails leaves either state on disk, so    *)
(* the invariant speaks of both: as long as an operation holds and nobody  *)
(* released it, whatever the file can say holds, too (HoldInv); once the   *)
(* state is "stopping" the file says no less (StopInv).                    *)
(*                                                                         *)
(* Then, what the audit journal says of an operation agrees with what      *)
(* becomes of it (JournalAgrees), although the state is written first,     *)
(* either write may fail or only seem to, a writer may hold on to an       *)
(* outcome while others go on, outcomes wait in a map for the journal to   *)
(* recover, and the supervisor journals its own.  The invariant is about   *)
(* claims: outcomes that are journalled, that wait to be journalled again  *)
(* or that a writer is about to journal.  All of them fit the state in     *)
(* memory and the one a restart would restore (ClaimInv).  A new operation *)
(* starts without claims because its row is nobody else's (RowInv); the    *)
(* supervisor's outcome fits because it is about an operation that has     *)
(* stopped the server (SettledInv).                                        *)
(***************************************************************************)
EXTENDS MaintenanceProofs

\* Who was told that an operation is accepted, and may still activate it.
IsAccepted(c) == proc[c].pc = "accepted" \/ (proc[c].pc = "waiting" /\ proc[c].intent = "activate")

\* Identities are taken from the journal's rows; that of a request is nobody
\* else's, and no operation is active when it is committed.
IdInv ==
    /\ state.id <= begun /\ disk.id <= begun
    /\ \A c \in Writers : IsAccepted(c) => proc[c].id <= begun
    /\ \A c \in Writers : proc[c].pc = "request" =>
          /\ ~IsActive(state) /\ proc[c].id <= begun
          /\ \A d \in Writers : IsAccepted(d) => proc[d].id # proc[c].id

\* What was accepted is no announcement.
PromiseInv ==
    /\ \A c \in Writers : IsAccepted(c) /\ state.id = proc[c].id => state.action # "announce"
    /\ state.phase = "preparing" => state.action # "announce"
    /\ proc[Runner].pc = "drain" => proc[Runner].was \in {"warning", "draining"}

IsHolding(s, o) == s.id = o /\ IsBlocked(s) /\ s.phase # "preparing"

\* An activated operation holds in memory and on disk until it is released; the
\* supervisor's success is a release.
HoldInv ==
    /\ activated # 0 /\ activated \notin released =>
          IsHolding(disk, activated) /\ (server # "down" => IsHolding(state, activated))
    /\ IsActive(state) => disk.id = state.id
    /\ IsHolding(state, state.id) /\ state.id \notin released => IsHolding(disk, state.id)
    /\ result # None /\ result.phase \in {"healthy", "rolled_back"} => result.id \in released

\* Once the state is "stopping" in memory the file says no less.
StopInv ==
    /\ state.phase = "stopping" => disk.id = state.id /\ disk.phase \in {"stopping", "failed", "completed"}
    /\ stopFor # 0 => server = "closing" /\ state.id = stopFor /\ state.phase = "stopping"

HInv == IInv /\ IdInv /\ PromiseInv /\ HoldInv /\ StopInv

-----------------------------------------------------------------------------
(* Steps after which nobody is owed more than before. *)

NoNewPromise ==
    /\ begun' = begun
    /\ \A d \in Writers : IsAccepted(d)' => IsAccepted(d) /\ proc'[d].id = proc[d].id
    /\ \A d \in Writers : proc'[d].pc = "request" => proc[d].pc = "request" /\ proc'[d].id = proc[d].id
    /\ proc'[Runner].pc = "drain" => proc[Runner].pc = "drain" /\ proc'[Runner].was = proc[Runner].was

\* A writer that becomes neither accepted nor a request makes no promise.
LEMMA BecomePromise ==
    ASSUME TypeOK, NEW c \in Writers, NEW p \in Process, proc' = [proc EXCEPT ![c] = p], begun' = begun,
           p.pc \notin {"accepted", "request", "drain"}, p.pc = "waiting" => p.intent # "activate"
    PROVE  NoNewPromise
<1>1. proc'[c] = p /\ \A d \in Writers \ {c} : proc'[d] = proc[d]
  BY DEF TypeOK
<1>2. Runner \in Writers
  BY DEF Writers
<1> QED BY <1>1, <1>2 DEF NoNewPromise, IsAccepted

\* The operation stays the one it was, and an inactive one stays inactive.
LEMMA PromiseKept ==
    ASSUME HInv, NoNewPromise, state'.id = state.id, state'.action = state.action,
           IsActive(state') => IsActive(state), state'.phase = "preparing" => state.phase = "preparing",
           disk'.id \in {state.id, disk.id}
    PROVE  IdInv' /\ PromiseInv'
<1>1. IdInv'
  BY DEF HInv, IdInv, NoNewPromise
<1>2. PromiseInv'
  BY DEF HInv, PromiseInv, NoNewPromise
<1> QED BY <1>1, <1>2

\* Nothing happens to the operation; more may be released.
LEMMA QuietInv ==
    ASSUME HInv, IInv', NoNewPromise, UNCHANGED <<state, disk, activated, stopFor, result>>,
           released \subseteq released', server' = server \/ (server = "up" /\ server' = "closing")
    PROVE  HInv'
<1>1. IdInv' /\ PromiseInv'
  BY PromiseKept
<1>2. HoldInv'
  BY DEF HInv, HoldInv, IsHolding, IsBlocked, IsActive
<1>3. StopInv'
  BY DEF HInv, StopInv
<1> QED BY <1>1, <1>2, <1>3 DEF HInv

LEMMA WaitPromise ==
    ASSUME TypeOK, NEW c \in Writers, NEW intent \in Intents, NEW action \in ActionNames,
           NEW id \in Operations \cup {0}, Wait(c, intent, action, id), begun' = begun, intent # "activate"
    PROVE  NoNewPromise
<1> DEFINE p == [Idle EXCEPT !.pc = "waiting", !.intent = intent, !.action = action, !.id = id]
<1>1. p \in Process /\ p.pc = "waiting" /\ p.intent = intent
  BY WaitingType DEF Idle
<1>2. proc' = [proc EXCEPT ![c] = p]
  BY DEF Wait
<1> HIDE DEF p
<1> QED BY <1>1, <1>2, BecomePromise

LEMMA GiveUpPromise ==
    ASSUME IInv, NEW c \in Writers, GiveUp(c), begun' = begun PROVE NoNewPromise
<1>1. TypeOK /\ proc[c].id \in Operations \cup {0}
  BY ProcessFields DEF IInv, TypeOK
<1>2. Idle \in Process /\ Idle.pc = "idle"
  BY IdleType DEF Idle
<1>3. "abort" \in Intents /\ "none" \in ActionNames
  BY DEF Intents, ActionNames
<1>4. Wait(c, "abort", "none", proc[c].id) \/ proc' = [proc EXCEPT ![c] = Idle]
  BY DEF GiveUp, Finish, Become
<1> QED BY <1>1, <1>2, <1>3, <1>4, WaitPromise, BecomePromise

LEMMA PlayHold ==
    ASSUME HInv, IInv', Play \/ ExternalStop \/ \E p \in Players, isOk \in BOOLEAN : DrainUser(p, isOk)
    PROVE  HInv'
<1>1. /\ UNCHANGED <<state, disk, activated, released, stopFor, result, proc, begun>>
      /\ server' = server \/ (server = "up" /\ server' = "closing")
  <2>1. CASE Play
    BY <2>1 DEF Play, TimePasses, EnterLook, EnterTry, EnterGame, StartGame, EndGame,
                control, drain, audit, lifecycle, boot, history
  <2>2. CASE ExternalStop
    BY <2>2 DEF ExternalStop, HInv, IInv, TypeOK, control, audit, boot, history
  <2>3. ASSUME NEW p \in Players, NEW isOk \in BOOLEAN, DrainUser(p, isOk)
        PROVE  UNCHANGED <<state, disk, activated, released, stopFor, result, proc, begun, server>>
    BY <2>3 DEF DrainUser, control, audit, lifecycle, boot, history
  <2> QED BY <2>1, <2>2, <2>3
<1>2. NoNewPromise
  BY <1>1 DEF NoNewPromise, IsAccepted
<1> QED BY <1>1, <1>2, QuietInv

LEMMA AskHold == ASSUME HInv, IInv', NEW c \in Writers, Ask(c) PROVE HInv'
<1>1. TypeOK /\ IInv
  BY DEF HInv, IInv
<1>2. UNCHANGED <<state, disk, activated, released, stopFor, result, server, begun>>
  BY DEF Ask, AskRequest, Answer, AskCancel, TimeOut, control, audit, lifecycle, boot, history
<1>3. NoNewPromise
  <2>1. "request" \in Intents /\ "cancel" \in Intents /\ "abort" \in Intents /\ "none" \in ActionNames
    BY DEF Intents, ActionNames
  <2>2. ASSUME NEW action \in {"restart", "update", "hold", "announce"}, AskRequest(c, action)
        PROVE  NoNewPromise
    <3>1. action \in ActionNames
      BY DEF ActionNames
    <3> QED BY <1>1, <1>2, <2>1, <2>2, <3>1, WaitPromise DEF AskRequest
  <2>3. ASSUME NEW isFlushed \in BOOLEAN, Answer(c, isFlushed) PROVE NoNewPromise
    <3> DEFINE intent == IF isFlushed THEN "activate" ELSE "abort"
    <3>1. proc[c].id \in Operations \cup {0} /\ intent \in Intents /\ Wait(c, intent, "none", proc[c].id)
      BY <1>1, <2>3, ProcessFields DEF TypeOK, Intents, Answer
    <3>2. /\ proc'[c].pc = "waiting" /\ proc'[c].intent = intent /\ proc'[c].id = proc[c].id
          /\ \A d \in Writers \ {c} : proc'[d] = proc[d]
      BY <1>1, <2>1, <3>1, WaitType
    <3>3. proc[c].pc = "accepted" /\ Runner \in Writers
      BY <2>3 DEF Answer, Writers
    <3> QED BY <1>2, <3>2, <3>3 DEF NoNewPromise, IsAccepted
  <2>4. CASE AskCancel(c)
    <3>1. state.id \in Operations \cup {0}
      BY <1>1 DEF TypeOK, State
    <3> QED BY <1>1, <1>2, <2>1, <2>4, <3>1, WaitPromise DEF AskCancel
  <2>5. CASE TimeOut(c)
    BY <1>1, <1>2, <2>5, GiveUpPromise DEF TimeOut
  <2> QED BY <2>2, <2>3, <2>4, <2>5 DEF Ask
<1> QED BY <1>2, <1>3, QuietInv

\* The journal's part: rows are looked up, written and reported again.
LEMMA JournalHold ==
    ASSUME HInv, IInv',
           \/ \E c \in Writers : CompleteLook(c) \/ \E isOk \in BOOLEAN : CompleteWrite(c, isOk)
           \/ ReconcileLook \/ \E o \in Operations : RetryCompletion(o)
    PROVE  HInv'
<1>1. TypeOK /\ IInv /\ Reconciler \in Writers /\ Runner \in Writers /\ Runner # Reconciler
      /\ proc' \in [Writers -> Process]
  BY WritersAssumption DEF HInv, IInv, TypeOK, Writers
<1>2. UNCHANGED <<state, disk, activated, released, stopFor, result, server, begun>>
  BY DEF CompleteLook, CompleteWrite, ReconcileLook, RetryCompletion, control, audit, lifecycle, boot, history
<1>3. ASSUME NEW c \in Writers, NEW p, proc' = [proc EXCEPT ![c] = p],
             p.pc \in {"idle", "complete", "write"}
      PROVE  NoNewPromise
  <2>1. proc'[c] = p /\ \A d \in Writers \ {c} : proc'[d] = proc[d]
    BY <1>1, <1>3 DEF TypeOK
  <2> QED BY <1>1, <1>2, <1>3, <2>1 DEF NoNewPromise, IsAccepted
<1>4. NoNewPromise
  <2>1. ASSUME NEW c \in Writers, CompleteLook(c) PROVE NoNewPromise
    <3> DEFINE x == IF completions[Head(proc[c].todo).id] = None THEN proc[c].todo[1].outcome
                    ELSE completions[Head(proc[c].todo).id]
               p == [proc[c] EXCEPT !.pc = "write", !.todo[1].outcome = x]
    <3>1. proc' = [proc EXCEPT ![c] = p]
      BY <2>1 DEF CompleteLook, Become
    <3>2. proc[c] \in Process
      BY <1>1 DEF TypeOK
    <3>3. p.pc = "write"
      BY <3>2 DEF Process
    <3> QED BY <1>3, <3>1, <3>3
  <2>2. ASSUME NEW c \in Writers, NEW isOk \in BOOLEAN, CompleteWrite(c, isOk) PROVE NoNewPromise
    <3>1. proc[c] \in Process /\ Tail(proc[c].todo) \in Seq(Completion)
      BY <1>1, <2>2, HeadFacts DEF CompleteWrite
    <3>2. proc' = [proc EXCEPT ![c] = Completing(proc[c], Tail(proc[c].todo))]
          \/ proc' = [proc EXCEPT ![c] = Idle]
      BY <2>2 DEF CompleteWrite, Become, Finish
    <3>3. Completing(proc[c], Tail(proc[c].todo)).pc = "complete" /\ Idle.pc = "idle"
      BY <3>1 DEF Completing, Process, Idle
    <3> QED BY <1>3, <3>2, <3>3
  <2>3. CASE ReconcileLook
    <3>1. CASE Wait(Reconciler, "resolve", "none", state.id)
      <4>1. "resolve" \in Intents /\ "none" \in ActionNames /\ state.id \in Operations \cup {0}
        BY <1>1 DEF Intents, ActionNames, TypeOK, State
      <4> QED BY <1>1, <1>2, <3>1, <4>1, WaitPromise
    <3>2. CASE proc' = [proc EXCEPT ![Reconciler] = Reporting(state.id, state.phase, OutcomeOf(state.phase))]
      <4>1. Reporting(state.id, state.phase, OutcomeOf(state.phase)).pc = "complete"
        BY DEF Reporting, Completing, Idle
      <4> QED BY <1>1, <1>3, <3>2, <4>1
    <3> QED BY <2>3, <3>1, <3>2 DEF ReconcileLook, Become
  <2>4. ASSUME NEW o \in Operations, RetryCompletion(o) PROVE NoNewPromise
    <3> DEFINE p == Completing([Idle EXCEPT !.intent = "retry"], <<Row(o, completions[o])>>)
    <3>1. proc' = [proc EXCEPT ![Reconciler] = p] /\ p.pc = "complete"
      BY <2>4 DEF RetryCompletion, Become, Completing, Idle
    <3> QED BY <1>1, <1>3, <3>1
  <2> QED BY <2>1, <2>2, <2>3, <2>4
<1> QED BY <1>2, <1>4, QuietInv

-----------------------------------------------------------------------------
(* Requests. *)

LEMMA BeginShape ==
    ASSUME TypeOK, NEW c \in Writers, NEW p, Begin(c, p)
    PROVE  /\ \A d \in Writers \ {c} : proc'[d] = proc[d]
           /\ \/ proc'[c] = [p EXCEPT !.todo = <<Row(begun + 1, "prepare_failed")>>] /\ begun' = begun + 1
              \/ proc'[c] = Idle /\ begun' \in {begun, begun + 1}
  BY DEF Begin, Finish, Keep, Become, TypeOK

LEMMA RequestBeginHold == ASSUME HInv, IInv', NEW c \in Writers, RequestBegin(c) PROVE HInv'
<1>1. TypeOK /\ IInv /\ TypeOK' /\ begun \in Nat /\ begun' \in Nat
  BY DEF HInv, IInv, TypeOK
<1>2. UNCHANGED <<state, disk, activated, released, stopFor, result, server>> /\ Runner \in Writers
  BY DEF RequestBegin, control, lifecycle, boot, history, Writers
<1>3. \A d \in Writers : proc[d].pc \notin {"request", "cancel"}
  BY <1>1, HasGateFacts DEF RequestBegin, Intents
<1> DEFINE p == [Idle EXCEPT !.pc = "request", !.action = proc[c].action, !.id = begun + 1]
<1>4. /\ \A d \in Writers \ {c} : proc'[d] = proc[d]
      /\ \/ /\ Finish(c, Accepted(state.id)) /\ IsActive(state) /\ state.action # "announce"
            /\ proc'[c] = Accepted(state.id) /\ begun' = begun
         \/ proc'[c] = Idle /\ begun' \in {begun, begun + 1}
         \/ /\ proc'[c] = [p EXCEPT !.todo = <<Row(begun + 1, "prepare_failed")>>] /\ begun' = begun + 1
            /\ ~IsActive(state)
  <2>1. CASE Begin(c, p) /\ ~IsActive(state)
    BY <1>1, <2>1, BeginShape
  <2>2. CASE Finish(c, Accepted(state.id)) /\ IsActive(state) /\ state.action # "announce" /\ begun' = begun
    BY <1>1, <2>2 DEF Finish, Become, TypeOK
  <2>3. CASE Finish(c, Idle) /\ begun' = begun
    BY <1>1, <2>3 DEF Finish, Become, TypeOK
  <2> QED BY <2>1, <2>2, <2>3 DEF RequestBegin
<1>5. \/ /\ proc'[c] = Accepted(state.id) /\ IsActive(state) /\ state.action # "announce"
         /\ begun' = begun
      \/ proc'[c] = Idle /\ begun' \in {begun, begun + 1}
      \/ /\ proc'[c].pc = "request" /\ proc'[c].id = begun + 1 /\ begun' = begun + 1
         /\ ~IsActive(state)
  BY <1>4 DEF Idle
<1>6. begun <= begun'
  BY <1>1, <1>5
<1>7. /\ state.id <= begun /\ disk.id <= begun /\ state.id \in Nat /\ disk.id \in Nat
      /\ \A d \in Writers : IsAccepted(d) => proc[d].id <= begun /\ proc[d].id \in Nat
  BY SMTT(30), <1>1, ProcessFields DEF HInv, IdInv, TypeOK, State, Operations
<1>8. IdInv' /\ PromiseInv'
  <2>1. CASE proc'[c] = Accepted(state.id) /\ IsActive(state) /\ state.action # "announce" /\ begun' = begun
    <3>1. proc'[c].pc = "accepted" /\ proc'[c].id = state.id
      BY <2>1 DEF Accepted, Idle
    <3> QED BY <1>2, <1>3, <1>4, <1>7, <2>1, <3>1 DEF HInv, IdInv, PromiseInv, IsAccepted
  <2>2. CASE proc'[c] = Idle /\ begun' \in {begun, begun + 1}
    <3>1. proc'[c].pc = "idle"
      BY <2>2 DEF Idle
    <3> QED BY <1>1, <1>2, <1>3, <1>4, <1>7, <2>2, <3>1 DEF HInv, IdInv, PromiseInv, IsAccepted
  <2>3. CASE /\ proc'[c].pc = "request" /\ proc'[c].id = begun + 1 /\ begun' = begun + 1
             /\ ~IsActive(state)
    BY <1>1, <1>2, <1>3, <1>4, <1>7, <2>3 DEF HInv, IdInv, PromiseInv, IsAccepted
  <2> QED BY <1>5, <2>1, <2>2, <2>3
<1>9. HoldInv' /\ StopInv'
  BY <1>2 DEF HInv, HoldInv, StopInv, IsHolding, IsBlocked, IsActive
<1> QED BY <1>8, <1>9 DEF HInv

LEMMA CancelBeginHold == ASSUME HInv, IInv', NEW c \in Writers, CancelBegin(c) PROVE HInv'
<1>1. TypeOK /\ IInv /\ TypeOK' /\ begun \in Nat /\ begun' \in Nat
  BY DEF HInv, IInv, TypeOK
<1>2. UNCHANGED <<state, disk, activated, released, stopFor, result, server>> /\ Runner \in Writers
  BY DEF CancelBegin, control, lifecycle, boot, history, Writers
<1>3. /\ \A d \in Writers \ {c} : proc'[d] = proc[d]
      /\ proc'[c].pc \in {"idle", "cancel"}
      /\ begun' \in {begun, begun + 1}
  <2> DEFINE p == [Idle EXCEPT !.pc = "cancel", !.id = state.id, !.was = state.phase]
  <2>1. CASE Begin(c, p)
    <3>1. p.pc = "cancel" /\ [p EXCEPT !.todo = <<Row(begun + 1, "prepare_failed")>>].pc = "cancel"
          /\ Idle.pc = "idle"
      BY DEF Idle
    <3> QED BY <1>1, <2>1, <3>1, BeginShape
  <2>2. CASE Finish(c, Idle) /\ begun' = begun
    BY <1>1, <2>2 DEF Finish, Become, TypeOK, Idle
  <2> QED BY <2>1, <2>2 DEF CancelBegin
<1>4. /\ state.id \in Nat /\ disk.id \in Nat
      /\ \A d \in Writers : proc[d].id \in Nat
  BY <1>1, ProcessFields DEF TypeOK, State, Operations
<1>5. IdInv' /\ PromiseInv'
  BY <1>1, <1>2, <1>3, <1>4 DEF HInv, IdInv, PromiseInv, IsAccepted
<1>6. HoldInv' /\ StopInv'
  BY <1>2 DEF HInv, HoldInv, StopInv, IsHolding, IsBlocked, IsActive
<1> QED BY <1>5, <1>6 DEF HInv

-----------------------------------------------------------------------------
(* What becomes of the state. *)

\* Nothing holds when a request is committed, and what is committed is nobody else's.
LEMMA RequestFacts ==
    ASSUME HInv, NEW c \in Writers, proc[c].pc = "request"
    PROVE  /\ TypeOK /\ IInv /\ begun \in Nat /\ server # "down" /\ ~IsActive(state)
           /\ proc[c] \in Process /\ proc[c].id \in Nat /\ proc[c].id <= begun
           /\ state.id \in Nat /\ disk.id \in Nat /\ stopFor = 0 /\ Runner \in Writers
           /\ \A d \in Writers : proc[d].id \in Nat
           /\ \A d \in Writers \ {c} : proc[d].pc # "request"
           /\ activated # 0 => activated \in released
<1>1. TypeOK /\ IInv /\ server # "down" /\ proc[c] \in Process /\ Runner \in Writers
      /\ \A d \in Writers \ {c} : proc[d].pc # "request"
  BY OwnerFacts DEF HInv, IInv, Writers
<1>2. begun \in Nat /\ state.id \in Nat /\ disk.id \in Nat /\ \A d \in Writers : proc[d].id \in Nat
  <2>1. \A d \in Writers : proc[d].id \in Operations \cup {0}
    BY <1>1, ProcessFields DEF TypeOK
  <2>2. Operations \cup {0} \subseteq Nat
    BY DEF Operations
  <2> QED BY <1>1, <2>1, <2>2 DEF TypeOK, State
<1>3. ~IsActive(state) /\ proc[c].id <= begun
  BY DEF HInv, IdInv
<1>4. stopFor = 0
  BY <1>3 DEF HInv, StopInv, IsActive
<1>5. activated # 0 => activated \in released
  BY <1>1, <1>3 DEF HInv, HoldInv, IsHolding, IsBlocked
<1> QED BY <1>1, <1>2, <1>3, <1>4, <1>5

LEMMA RequestCommitHold ==
    ASSUME HInv, IInv', NEW c \in Writers, NEW isOk \in BOOLEAN, RequestCommit(c, isOk) PROVE HInv'
<1>1. /\ TypeOK /\ IInv /\ begun \in Nat /\ server # "down" /\ ~IsActive(state)
      /\ proc[c] \in Process /\ proc[c].id \in Nat /\ proc[c].id <= begun
      /\ state.id \in Nat /\ disk.id \in Nat /\ stopFor = 0 /\ Runner \in Writers
      /\ \A d \in Writers : proc[d].id \in Nat
      /\ \A d \in Writers \ {c} : proc[d].pc # "request"
      /\ activated # 0 => activated \in released
  BY RequestFacts DEF RequestCommit
<1>2. UNCHANGED <<activated, released, stopFor, result, server, begun>>
  BY DEF RequestCommit, audit, lifecycle, boot, history
<1>3. \A d \in Writers \ {c} : proc'[d] = proc[d]
  <2>1. \/ Become(c, Accepted(proc[c].id))
        \/ Become(c, Completing(proc[c], <<Row(proc[c].id, "prepare_failed")>>))
    BY DEF RequestCommit, Finish, Keep
  <2> QED BY <1>1, <2>1 DEF Become, TypeOK
<1>4. /\ disk' \in {New(c, "preparing"), disk} /\ state' = (IF isOk THEN New(c, "preparing") ELSE state)
      /\ isOk => disk' = New(c, "preparing")
  BY DEF RequestCommit, Commit
<1>5. /\ New(c, "preparing").id = proc[c].id /\ New(c, "preparing").action = proc[c].action
      /\ New(c, "preparing").phase = "preparing" /\ proc[c].action # "announce"
  BY DEF New, RequestCommit
<1>6. \/ proc'[c].pc = "accepted" /\ proc'[c].id = proc[c].id /\ isOk
      \/ proc'[c].pc = "complete" /\ ~isOk
  <2>1. CASE isOk
    <3>1. proc'[c] = Accepted(proc[c].id)
      BY <1>1, <2>1 DEF RequestCommit, Finish, Become, TypeOK
    <3> QED BY <2>1, <3>1 DEF Accepted, Idle
  <2>2. CASE ~isOk
    <3>1. proc'[c] = Completing(proc[c], <<Row(proc[c].id, "prepare_failed")>>)
      BY <1>1, <2>2 DEF RequestCommit, Keep, Become, TypeOK
    <3> QED BY <1>1, <2>2, <3>1 DEF Completing, Process
  <2> QED BY <2>1, <2>2
<1> HIDE DEF New
<1>7. IdInv'
  BY <1>1, <1>2, <1>3, <1>4, <1>5, <1>6 DEF HInv, IdInv, IsAccepted
<1>8. PromiseInv'
  <2>1. proc[Runner].pc = "drain" => proc[Runner].was \in {"warning", "draining"}
    BY DEF HInv, PromiseInv
  <2>2. proc'[Runner].pc = "drain" => proc'[Runner].was \in {"warning", "draining"}
    BY <1>1, <1>3, <1>6, <2>1
  <2>3. \A d \in Writers : IsAccepted(d)' /\ state'.id = proc'[d].id => state'.action # "announce"
    BY <1>1, <1>3, <1>4, <1>5, <1>6 DEF HInv, PromiseInv, IsAccepted
  <2> QED BY <1>4, <1>5, <2>2, <2>3 DEF HInv, PromiseInv
<1>9. HoldInv'
  <2>1. IsActive(state') => disk'.id = state'.id
    BY <1>1, <1>4
  <2>2. ~IsHolding(state', state'.id)
    BY <1>1, <1>4, <1>5 DEF IsHolding, IsBlocked
  <2> QED BY <1>1, <1>2, <2>1, <2>2 DEF HInv, HoldInv
<1>10. StopInv'
  BY <1>1, <1>2, <1>4, <1>5 DEF HInv, StopInv, IsActive
<1> QED BY <1>7, <1>8, <1>9, <1>10 DEF HInv

LEMMA AnnounceCommitHold ==
    ASSUME HInv, IInv', NEW c \in Writers, NEW isOk \in BOOLEAN, AnnounceCommit(c, isOk) PROVE HInv'
<1>1. /\ TypeOK /\ IInv /\ begun \in Nat /\ server # "down" /\ ~IsActive(state)
      /\ proc[c] \in Process /\ proc[c].id \in Nat /\ proc[c].id <= begun
      /\ state.id \in Nat /\ disk.id \in Nat /\ stopFor = 0 /\ Runner \in Writers
      /\ \A d \in Writers : proc[d].id \in Nat
      /\ \A d \in Writers \ {c} : proc[d].pc # "request"
      /\ activated # 0 => activated \in released
  BY RequestFacts DEF AnnounceCommit
<1>2. UNCHANGED <<activated, released, stopFor, result, server, begun>>
  BY DEF AnnounceCommit, audit, lifecycle, boot, history
<1> DEFINE todo == <<Row(proc[c].id, IF isOk THEN "announced" ELSE "announcement_failed")>>
<1>3. (\A d \in Writers \ {c} : proc'[d] = proc[d]) /\ proc'[c] = Completing(proc[c], todo)
  BY <1>1 DEF AnnounceCommit, Keep, Become, TypeOK
<1>4. proc'[c].pc = "complete"
  BY <1>1, <1>3 DEF Completing, Process
<1> DEFINE new == {New(c, "warning"), New(c, "failed")}
<1>5. disk' \in new \cup {disk} /\ state' \in new \cup {state}
  BY DEF AnnounceCommit, Commit
<1>6. state' = state \/ disk' \in new
  BY DEF AnnounceCommit, Commit
<1>7. \A s \in new : s.id = proc[c].id /\ s.action = "announce" /\ s.phase \in {"warning", "failed"}
  BY DEF New, AnnounceCommit
<1> HIDE DEF new, todo
<1>8. IdInv'
  BY <1>1, <1>2, <1>3, <1>4, <1>5, <1>7 DEF HInv, IdInv, IsAccepted
<1>9. PromiseInv'
  <2>1. \A d \in Writers : IsAccepted(d) => proc[d].id # proc[c].id
    BY DEF HInv, IdInv, AnnounceCommit
  <2> QED BY <1>1, <1>3, <1>4, <1>5, <1>7, <2>1 DEF HInv, PromiseInv, IsAccepted
<1>10. HoldInv'
  <2>1. IsActive(state') => disk'.id = state'.id
    BY <1>1, <1>5, <1>7, <1>6
  <2>2. ~IsHolding(state', state'.id)
    BY <1>1, <1>5, <1>7 DEF IsHolding, IsBlocked
  <2> QED BY <1>1, <1>2, <2>1, <2>2 DEF HInv, HoldInv
<1>11. StopInv'
  BY <1>1, <1>2, <1>5, <1>7 DEF HInv, StopInv, IsActive
<1> QED BY <1>8, <1>9, <1>10, <1>11 DEF HInv

LEMMA ActivateHold ==
    ASSUME HInv, IInv', NEW c \in Writers, NEW isOk \in BOOLEAN, Activate(c, isOk) PROVE HInv'
<1>1. /\ TypeOK /\ IInv /\ Runner \in Writers /\ server # "down" /\ proc[c].pc = "waiting"
      /\ proc[c].intent = "activate"
  BY HasGateFacts DEF Activate, Intents, HInv, IInv, Writers
<1>2. UNCHANGED <<released, stopFor, result, server, begun>>
  BY DEF Activate, audit, lifecycle, boot
<1>3. NoNewPromise
  <2>1. CASE isOk
    <3>1. proc' = [proc EXCEPT ![c] = Idle] /\ Idle.pc = "idle" /\ Idle \in Process
      BY <2>1, IdleType DEF Activate, Finish, Become, Idle
    <3> QED BY <1>1, <1>2, <3>1, BecomePromise
  <2>2. CASE ~isOk
    BY <1>1, <1>2, <2>2, GiveUpPromise DEF Activate
  <2> QED BY <2>1, <2>2
<1>4. state.id = proc[c].id => state.action # "announce"
  BY <1>1 DEF HInv, PromiseInv, IsAccepted
<1>5. /\ Activated(state).id = state.id /\ Activated(state).action = state.action
      /\ Activated(state).phase \in {"draining", "warning"}
  BY <1>1 DEF Activated, TypeOK, State
<1>6. \/ /\ state.phase = "preparing" /\ state.id = proc[c].id
         /\ state' = IF isOk THEN Activated(state) ELSE state
         /\ disk' \in {Activated(state), disk} /\ (isOk => disk' = state')
      \/ /\ UNCHANGED <<state, disk>>
         /\ isOk => state.id = proc[c].id /\ IsActive(state) /\ state.phase # "preparing"
  <2>1. CASE state.id = proc[c].id /\ state.phase = "preparing"
    <3>1. Commit(Activated(state), isOk)
      BY <2>1 DEF Activate
    <3> QED BY <2>1, <3>1 DEF Commit
  <2>2. CASE ~(state.id = proc[c].id /\ state.phase = "preparing")
    <3>1. UNCHANGED control
      BY <2>2 DEF Activate
    <3>2. isOk => state.id = proc[c].id /\ IsActive(state)
      BY <2>2 DEF Activate
    <3> QED BY <2>2, <3>1, <3>2 DEF control
  <2> QED BY <2>1, <2>2
<1>7. activated' = IF isOk THEN proc[c].id ELSE activated
  BY DEF Activate
<1>8. IdInv' /\ PromiseInv'
  BY <1>3, <1>5, <1>6, PromiseKept DEF IsActive
<1>9. HoldInv'
  <2>1. CASE state.phase = "preparing" /\ state.id = proc[c].id
    <3>1. CASE isOk
      <4>1. state' = Activated(state) /\ disk' = Activated(state) /\ activated' = state.id
        BY <1>6, <1>7, <2>1, <3>1
      <4>2. IsHolding(Activated(state), state.id)
        BY <1>4, <1>5, <2>1 DEF IsHolding, IsBlocked, IsActive
      <4> QED BY <1>2, <1>5, <4>1, <4>2 DEF HInv, HoldInv
    <3>2. CASE ~isOk
      <4>1. activated' = activated /\ state' = state /\ (activated # 0 => activated \in released)
            /\ disk'.id \in {state.id, disk.id}
        BY <1>1, <1>5, <1>6, <1>7, <2>1, <3>2 DEF HInv, HoldInv, IsHolding
      <4> QED BY <1>2, <2>1, <4>1 DEF HInv, HoldInv, IsHolding
    <3> QED BY <3>1, <3>2
  <2>2. CASE /\ UNCHANGED <<state, disk>>
             /\ isOk => state.id = proc[c].id /\ IsActive(state) /\ state.phase # "preparing"
    BY <1>2, <1>4, <1>7, <2>2 DEF HInv, HoldInv, IsHolding, IsBlocked, IsActive
  <2> QED BY <1>6, <2>1, <2>2
<1>10. StopInv'
  BY <1>2, <1>5, <1>6 DEF HInv, StopInv
<1> QED BY <1>8, <1>9, <1>10 DEF HInv

\* A state that is cancelled holds nothing.
LEMMA AbortHold ==
    ASSUME HInv, IInv', NEW c \in Writers, NEW isOk \in BOOLEAN, Abort(c, isOk) PROVE HInv'
<1>1. /\ TypeOK /\ IInv /\ Runner \in Writers /\ server # "down" /\ proc[c] \in Process
  BY HasGateFacts DEF Abort, Intents, HInv, IInv, Writers
<1>2. UNCHANGED <<released, activated, stopFor, result, server, begun>>
  BY DEF Abort, audit, lifecycle, boot, history
<1>3. NoNewPromise
  <2> DEFINE q == Completing(proc[c], <<Row(proc[c].id, "acceptance_not_flushed")>>)
  <2>1. proc' = [proc EXCEPT ![c] = q] \/ proc' = [proc EXCEPT ![c] = Idle]
    BY DEF Abort, Keep, Finish, Become
  <2>2. q.pc = "complete" /\ Idle.pc = "idle"
    BY <1>1 DEF Completing, Process, Idle
  <2> HIDE DEF q
  <2>3. \A d \in Writers : proc'[d] = proc[d] \/ (d = c /\ proc'[d] \in {q, Idle})
    BY <1>1, <2>1 DEF TypeOK
  <2> QED BY <1>1, <1>2, <2>2, <2>3 DEF NoNewPromise, IsAccepted
<1> DEFINE s == [state EXCEPT !.phase = "cancelled"]
<1>4. s.id = state.id /\ s.action = state.action /\ s.phase = "cancelled"
  BY <1>1 DEF TypeOK, State
<1>5. \/ state.phase = "preparing" /\ state' = (IF isOk THEN s ELSE state) /\ disk' \in {s, disk}
      \/ UNCHANGED <<state, disk>>
  BY DEF Abort, Commit, control
<1> HIDE DEF s
<1>6. IdInv' /\ PromiseInv'
  BY <1>3, <1>4, <1>5, PromiseKept DEF IsActive
<1>7. HoldInv'
  BY <1>1, <1>2, <1>4, <1>5 DEF HInv, HoldInv, IsHolding, IsBlocked, IsActive
<1>8. StopInv'
  BY <1>2, <1>4, <1>5 DEF HInv, StopInv
<1> QED BY <1>6, <1>7, <1>8 DEF HInv

\* A cancellation that may have reached the file is a release, whether it was
\* reported as failed or not.
LEMMA CancelCommitHold ==
    ASSUME HInv, IInv', NEW c \in Writers, NEW isOk \in BOOLEAN, CancelCommit(c, isOk) PROVE HInv'
<1>1. /\ TypeOK /\ IInv /\ Runner \in Writers /\ server # "down" /\ proc[c] \in Process
  BY OwnerFacts DEF CancelCommit, HInv, IInv, Writers
<1>2. UNCHANGED <<activated, stopFor, result, server, begun>>
  BY DEF CancelCommit, audit, lifecycle, boot
<1>3. NoNewPromise
  <2> DEFINE own == Head(proc[c].todo).id
             outcome == IF proc[c].was = "held" THEN "held" ELSE "cancelled"
             todo == IF isOk THEN <<Row(own, "cancelled"), Row(proc[c].id, outcome)>>
                             ELSE <<Row(own, "cancel_failed")>>
             q == Completing(proc[c], todo)
  <2>1. proc' = [proc EXCEPT ![c] = q]
    BY DEF CancelCommit, Become
  <2>2. q.pc = "complete"
    BY <1>1 DEF Completing, Process
  <2> HIDE DEF q
  <2>3. \A d \in Writers : proc'[d] = proc[d] \/ (d = c /\ proc'[d] = q)
    BY <1>1, <2>1 DEF TypeOK
  <2> QED BY <1>1, <1>2, <2>2, <2>3 DEF NoNewPromise, IsAccepted
<1> DEFINE s == [state EXCEPT !.phase = "cancelled"]
<1>4. s.id = state.id /\ s.action = state.action /\ s.phase = "cancelled"
  BY <1>1 DEF TypeOK, State
<1>5. \/ /\ state.phase # "stopping" /\ state' = (IF isOk THEN s ELSE state) /\ disk' \in {s, disk}
         /\ released' = released \cup {state.id} /\ (isOk => disk' = s)
      \/ UNCHANGED <<state, disk, released>>
  BY DEF CancelCommit, CanCancel, Commit, control
<1> HIDE DEF s
<1>6. IdInv' /\ PromiseInv'
  BY <1>3, <1>4, <1>5, PromiseKept DEF IsActive
<1>7. HoldInv'
  BY <1>1, <1>2, <1>4, <1>5 DEF HInv, HoldInv, IsHolding, IsBlocked, IsActive
<1>8. StopInv'
  BY <1>2, <1>4, <1>5 DEF HInv, StopInv
<1> QED BY <1>6, <1>7, <1>8 DEF HInv

LEMMA ReconcileResolveHold ==
    ASSUME HInv, IInv', NEW isOk \in BOOLEAN, ReconcileResolve(isOk) PROVE HInv'
<1> DEFINE id == proc[Reconciler].id
           s  == Resolved(state, result.phase)
<1>1. /\ TypeOK /\ IInv /\ Runner \in Writers /\ Reconciler \in Writers /\ Reconciler # Runner
      /\ server = "up" /\ proc[Reconciler].pc = "waiting" /\ proc[Reconciler].intent = "resolve"
  BY WritersAssumption DEF ReconcileResolve, HasGate, HInv, IInv, Writers
<1>2. UNCHANGED <<activated, released, stopFor, result, server, begun>>
  BY DEF ReconcileResolve, audit, lifecycle, boot, history
<1>3. NoNewPromise
  <2> DEFINE q == Reporting(id, s.phase, ResultOutcome(result))
  <2>1. proc' = [proc EXCEPT ![Reconciler] = q] \/ proc' = [proc EXCEPT ![Reconciler] = Idle]
    BY DEF ReconcileResolve, Finish, Become
  <2>2. q.pc = "complete" /\ Idle.pc = "idle"
    BY DEF Reporting, Completing, Idle
  <2> HIDE DEF q
  <2>3. \A d \in Writers : proc'[d] = proc[d] \/ (d = Reconciler /\ proc'[d] \in {q, Idle})
    BY <1>1, <2>1 DEF TypeOK
  <2> QED BY <1>1, <1>2, <2>2, <2>3 DEF NoNewPromise, IsAccepted
<1>4. /\ s.id = state.id /\ s.action = state.action
      /\ s.phase = IF result.phase = "failed" THEN "failed" ELSE "completed"
  BY <1>1 DEF TypeOK, State, Resolved
<1>5. \/ /\ state.phase \in {"stopping", "failed"} /\ result # None /\ state.id = result.id
         /\ state' = (IF isOk THEN s ELSE state) /\ disk' \in {s, disk} /\ (isOk => disk' = s)
      \/ UNCHANGED <<state, disk>>
  BY DEF ReconcileResolve, Matches, Commit, control
<1>6. result.phase # "failed" => result.phase \in {"healthy", "rolled_back"}
  BY <1>1 DEF IInv, CarryInv, IsFinal
<1>7. result # None /\ result.phase # "failed" => result.id \in released
  BY <1>6 DEF HInv, HoldInv
<1> HIDE DEF s, id
<1>8. IdInv' /\ PromiseInv'
  BY <1>3, <1>4, <1>5, PromiseKept DEF IsActive
<1>9. HoldInv'
  BY <1>1, <1>2, <1>4, <1>5, <1>7 DEF HInv, HoldInv, IsHolding, IsBlocked, IsActive
<1>10. StopInv'
  BY <1>1, <1>2, <1>4, <1>5 DEF HInv, StopInv
<1> QED BY <1>8, <1>9, <1>10 DEF HInv

-----------------------------------------------------------------------------
(* The schedule. *)

LEMMA AdvanceLookHold == ASSUME HInv, IInv', AdvanceLook PROVE HInv'
<1>1. TypeOK /\ IInv /\ Runner \in Writers /\ server # "down" /\ state.phase \in {"warning", "draining"}
      /\ [Idle EXCEPT !.pc = "due"] \in Process /\ [Idle EXCEPT !.pc = "due"].pc = "due"
  BY IdleType DEF AdvanceLook, HInv, IInv, Writers, Idle, Process
<1>2. UNCHANGED <<state, activated, released, stopFor, result, server, begun>> /\ disk' \in {disk, state}
  BY DEF AdvanceLook, audit, lifecycle, boot, history
<1>3. NoNewPromise
  BY <1>1, <1>2, BecomePromise DEF AdvanceLook, Become
<1>4. IdInv' /\ PromiseInv'
  BY <1>2, <1>3, PromiseKept
<1>5. HoldInv'
  BY <1>1, <1>2 DEF HInv, HoldInv, IsHolding, IsBlocked, IsActive
<1>6. StopInv'
  BY <1>1, <1>2 DEF HInv, StopInv
<1> QED BY <1>4, <1>5, <1>6 DEF HInv

LEMMA AdvanceDecideHold == ASSUME HInv, IInv', NEW isOk \in BOOLEAN, AdvanceDecide(isOk) PROVE HInv'
<1>1. /\ TypeOK /\ IInv /\ Runner \in Writers /\ server # "down"
      /\ state.phase \in {"warning", "draining"} /\ IsActive(state)
  BY DEF AdvanceDecide, HInv, IInv, GateInv, Writers, Idle, IsBlocked
<1>2. UNCHANGED <<activated, released, stopFor, result, server, begun>>
  BY DEF AdvanceDecide, audit, lifecycle, boot, history
<1>3. NoNewPromise \/ proc' = [proc EXCEPT ![Runner] = [Idle EXCEPT !.pc = "drain", !.id = state.id,
                                                                    !.was = state.phase]]
  <2>1. \/ Become(Runner, Idle) \/ Become(Runner, [Idle EXCEPT !.pc = "stop"])
        \/ Become(Runner, [Idle EXCEPT !.pc = "idle"])
        \/ Become(Runner, [Idle EXCEPT !.pc = "drain", !.id = state.id, !.was = state.phase])
    BY DEF AdvanceDecide
  <2>2. ASSUME NEW pc \in {"idle", "stop"} PROVE [Idle EXCEPT !.pc = pc] \in Process /\ [Idle EXCEPT !.pc = pc].pc = pc
    BY IdleType DEF Idle, Process
  <2>3. Idle = [Idle EXCEPT !.pc = "idle"]
    BY DEF Idle
  <2> QED BY ZenonT(40), <1>1, <1>2, <2>1, <2>2, <2>3, BecomePromise DEF Become
<1>4. PICK s \in {state, Draining, Ended(state)} :
         \/ state' = (IF isOk THEN s ELSE state) /\ disk' \in {s, disk} /\ (isOk => disk' = s)
         \/ UNCHANGED <<state, disk>>
  <2>1. Commit(Draining, isOk) \/ Commit(Ended(state), isOk) \/ UNCHANGED control
    BY DEF AdvanceDecide
  <2> QED BY <2>1 DEF Commit, control
<1>5. /\ s.id = state.id /\ s.action = state.action /\ s.phase \in {"warning", "draining", "held", "stopping"}
  BY <1>1, <1>4 DEF Draining, Ended, TypeOK, State
<1>6. IdInv' /\ PromiseInv'
  <2>1. CASE NoNewPromise
    BY <1>1, <1>4, <1>5, <2>1, PromiseKept
  <2>2. CASE proc' = [proc EXCEPT ![Runner] = [Idle EXCEPT !.pc = "drain", !.id = state.id, !.was = state.phase]]
    <3>1. /\ proc'[Runner].pc = "drain" /\ proc'[Runner].was = state.phase
          /\ \A d \in Writers \ {Runner} : proc'[d] = proc[d]
      BY <1>1, <2>2 DEF TypeOK, Idle
    <3>2. IdInv'
      BY <1>1, <1>2, <1>4, <1>5, <3>1 DEF HInv, IdInv, IsAccepted
    <3>3. PromiseInv'
      BY <1>1, <1>2, <1>4, <1>5, <3>1 DEF HInv, PromiseInv, IsAccepted
    <3> QED BY <3>2, <3>3
  <2> QED BY <1>3, <2>1, <2>2
<1>7. HoldInv'
  BY <1>1, <1>2, <1>4, <1>5 DEF HInv, HoldInv, IsHolding, IsBlocked, IsActive
<1>8. StopInv'
  BY <1>1, <1>2, <1>4, <1>5 DEF HInv, StopInv
<1> QED BY <1>6, <1>7, <1>8 DEF HInv

LEMMA DrainEndHold == ASSUME HInv, IInv', NEW isOk \in BOOLEAN, DrainEnd(isOk) PROVE HInv'
<1>1. TypeOK /\ IInv /\ Runner \in Writers /\ server # "down" /\ Idle \in Process /\ Idle.pc = "idle"
  BY IdleType DEF DrainEnd, HInv, IInv, GateInv, Writers, Idle
<1>2. UNCHANGED <<activated, released, stopFor, result, server, begun>>
  BY DEF DrainEnd, audit, lifecycle, boot, history
<1>3. NoNewPromise
  BY <1>1, <1>2, BecomePromise DEF DrainEnd, Become
<1>4. Ended(state).id = state.id /\ Ended(state).action = state.action /\ Ended(state).phase \in {"held", "stopping"}
  BY <1>1 DEF Ended, TypeOK, State
<1>5. \/ /\ state.phase \in {"warning", "draining"}
         /\ state' = (IF isOk THEN Ended(state) ELSE state) /\ disk' \in {Ended(state), disk}
         /\ isOk => disk' = Ended(state)
      \/ UNCHANGED <<state, disk>>
  <2>1. \/ Commit(Ended(state), isOk) /\ state.phase = proc[Runner].was
        \/ UNCHANGED control
    BY DEF DrainEnd
  <2>2. proc[Runner].was \in {"warning", "draining"}
    BY DEF DrainEnd, HInv, PromiseInv
  <2> QED BY <2>1, <2>2 DEF Commit, control
<1>6. IdInv' /\ PromiseInv'
  BY <1>3, <1>4, <1>5, PromiseKept DEF IsActive
<1>7. HoldInv'
  BY <1>1, <1>2, <1>4, <1>5 DEF HInv, HoldInv, IsHolding, IsBlocked, IsActive
<1>8. StopInv'
  BY <1>1, <1>2, <1>4, <1>5 DEF HInv, StopInv
<1> QED BY <1>6, <1>7, <1>8 DEF HInv

LEMMA RunnerStopHold == ASSUME HInv, IInv', RunnerStop PROVE HInv'
<1>1. /\ TypeOK /\ IInv /\ Runner \in Writers /\ server # "down"
      /\ [Idle EXCEPT !.pc = "done"] \in Process /\ [Idle EXCEPT !.pc = "done"].pc = "done"
  BY IdleType DEF RunnerStop, HInv, IInv, GateInv, Writers, Idle, Process
<1>2. UNCHANGED <<state, disk, activated, released, result, begun>>
  BY DEF RunnerStop, control, audit, boot, history
<1>3. NoNewPromise
  BY <1>1, <1>2, BecomePromise DEF RunnerStop, Become
<1>4. IdInv' /\ PromiseInv'
  BY <1>2, <1>3, PromiseKept
<1>5. HoldInv'
  BY <1>1, <1>2 DEF RunnerStop, HInv, HoldInv, IsHolding, IsBlocked, IsActive
<1>6. StopInv'
  BY <1>1, <1>2 DEF RunnerStop, HInv, StopInv
<1> QED BY <1>4, <1>5, <1>6 DEF HInv

-----------------------------------------------------------------------------
(* The end of the process, and the supervisor. *)

LEMMA AuditedHold ==
    ASSUME NEW r, Audited(r)
    PROVE  released \subseteq released' /\ (r.phase # "failed" => r.id \in released')
  BY DEF Audited

\* A process that ended leaves its promises and the result behind; what the file
\* says has to hold as the state did.
LEMMA ExitHold ==
    ASSUME HInv, IInv', NEW canConsume, Exit(canConsume), UNCHANGED <<activated, begun>>,
           released \subseteq released',
           disk' \in {disk, [state EXCEPT !.phase = "failed"]}, server # "down",
           result' # None /\ result'.phase \in {"healthy", "rolled_back"} => result'.id \in released'
    PROVE  HInv'
<1>1. TypeOK /\ IInv /\ state \in State /\ disk \in State /\ begun \in Nat
  BY DEF HInv, IInv, TypeOK
<1>2. /\ [state EXCEPT !.phase = "failed"].id = state.id /\ [state EXCEPT !.phase = "failed"].phase = "failed"
      /\ [state EXCEPT !.phase = "failed"].action = state.action
  BY <1>1 DEF State
<1>3. /\ state' = NoState /\ server' = "down" /\ stopFor' = 0
      /\ \A d \in Writers : proc'[d] = Idle
      /\ NoState.id = 0 /\ NoState.phase = "none" /\ Idle.pc = "idle" /\ Runner \in Writers
  <2>1. NoState.id = 0 /\ NoState.phase = "none" /\ Idle.pc = "idle"
    BY DEF NoState, Idle
  <2>2. Runner \in Writers
    BY DEF Writers
  <2>3. state' = NoState /\ server' = "down" /\ stopFor' = 0 /\ \A d \in Writers : proc'[d] = Idle
    BY DEF Exit
  <2> QED BY <2>1, <2>2, <2>3
<1>4. IdInv'
  <2>1. state.id <= begun /\ disk.id <= begun
    BY DEF HInv, IdInv
  <2>2. begun' = begun /\ 0 <= begun
    BY <1>1
  <2>3. disk'.id <= begun'
    BY <1>2, <2>1, <2>2
  <2>4. state'.id = 0
    BY <1>3
  <2>5. \A d \in Writers : ~IsAccepted(d)' /\ proc'[d].pc # "request"
    BY <1>3 DEF IsAccepted
  <2> QED BY <2>2, <2>3, <2>4, <2>5 DEF IdInv
<1>5. PromiseInv'
  BY <1>3 DEF PromiseInv, IsAccepted
<1>6. HoldInv'
  BY <1>2, <1>3 DEF HInv, HoldInv, IsHolding, IsBlocked, IsActive
<1>7. StopInv'
  BY <1>3 DEF StopInv
<1> QED BY <1>4, <1>5, <1>6, <1>7 DEF HInv

LEMMA ChildEndedHold ==
    ASSUME HInv, NEW isGone \in BOOLEAN, ChildEnded(isGone)
    PROVE  /\ released \subseteq released'
           /\ result' # None /\ result'.phase \in {"healthy", "rolled_back"} => result'.id \in released'
<1>1. result # None /\ result.phase \in {"healthy", "rolled_back"} => result.id \in released
  BY DEF HInv, HoldInv
<1>2. \/ UNCHANGED result /\ (released' = released \/ Audited(result))
      \/ result' = Failed(result) /\ Audited(Failed(result)) /\ result # None
  BY DEF ChildEnded, IsPending
<1>3. result # None => Failed(result).phase = "failed"
  BY FailedType DEF HInv, IInv, TypeOK
<1> QED BY <1>1, <1>2, <1>3, AuditedHold

LEMMA CrashHold == ASSUME HInv, IInv', NEW isPowerLoss \in BOOLEAN, Crash(isPowerLoss) PROVE HInv'
<1>1. ChildEnded(isPowerLoss) /\ Exit(isPowerLoss) /\ UNCHANGED <<disk, activated, begun>> /\ server # "down"
  BY DEF Crash
<1> QED BY <1>1, ChildEndedHold, ExitHold

LEMMA ShutdownHold ==
    ASSUME HInv, IInv', NEW isClean \in BOOLEAN, NEW isGone \in BOOLEAN, Shutdown(isClean, isGone) PROVE HInv'
<1>1. /\ ChildEnded(isGone) /\ Exit(isGone \/ (isClean /\ isHealthy)) /\ UNCHANGED <<activated, begun>>
      /\ server # "down" /\ disk' \in {disk, [state EXCEPT !.phase = "failed"]}
  BY DEF Shutdown
<1> QED BY <1>1, ChildEndedHold, ExitHold

\* The result moves on beside the state.
LEMMA ResultHold ==
    ASSUME HInv, IInv', UNCHANGED <<control, proc, server, stopFor, activated, begun>>,
           released \subseteq released',
           result' # None /\ result'.phase \in {"healthy", "rolled_back"} => result'.id \in released'
    PROVE  HInv'
<1>1. UNCHANGED <<state, disk>>
  BY DEF control
<1>2. NoNewPromise
  BY DEF NoNewPromise, IsAccepted
<1>3. IdInv' /\ PromiseInv'
  BY <1>1, <1>2, PromiseKept
<1>4. HoldInv'
  BY <1>1 DEF HInv, HoldInv, IsHolding, IsBlocked, IsActive
<1>5. StopInv'
  BY <1>1 DEF HInv, StopInv
<1> QED BY <1>3, <1>4, <1>5 DEF HInv

LEMMA SuperviseHold ==
    ASSUME HInv, IInv',
           \/ StartupTimeout \/ BecomeHealthy \/ Rollback
           \/ \E isOk \in BOOLEAN : ConsumeRequest(isOk)
    PROVE  HInv'
<1>1. UNCHANGED <<control, proc, server, stopFor, activated, begun>>
  BY DEF StartupTimeout, BecomeHealthy, Rollback, ConsumeRequest, audit, lifecycle, history
<1>2. result # None /\ result.phase \in {"healthy", "rolled_back"} => result.id \in released
  BY DEF HInv, HoldInv
<1>3. /\ released \subseteq released'
      /\ result' # None /\ result'.phase \in {"healthy", "rolled_back"} => result'.id \in released'
  <2>1. CASE StartupTimeout
    <3>1. result \in Result /\ result' = Failed(result) /\ Audited(Failed(result))
      BY <2>1 DEF StartupTimeout, IsPending, HInv, IInv, TypeOK
    <3> QED BY <3>1, FailedType, AuditedHold
  <2>2. CASE Rollback
    <3>1. result \in Result
      BY <2>2 DEF Rollback, IsPending, HInv, IInv, TypeOK
    <3> QED BY <2>2, <3>1 DEF Rollback, history, Result
  <2>3. ASSUME NEW isOk \in BOOLEAN, ConsumeRequest(isOk)
        PROVE  /\ released \subseteq released'
               /\ result' # None /\ result'.phase \in {"healthy", "rolled_back"} => result'.id \in released'
    <3>1. released \subseteq released'
      BY <2>3, AuditedHold DEF ConsumeRequest
    <3>2. result'.phase \in {"starting", "failed"}
      BY <2>3 DEF ConsumeRequest
    <3> QED BY <3>1, <3>2
  <2>4. CASE BecomeHealthy
    <3>1. CASE IsPending(result)
      <4> DEFINE r == [result EXCEPT !.phase = IF @ = "rolled_back" THEN @ ELSE "healthy"]
                 final == IF result.code = "rolled_back" THEN [r EXCEPT !.phase = "rolled_back"] ELSE r
      <4>1. result' = final /\ Audited(final) /\ result \in Result
        BY <2>4, <3>1 DEF BecomeHealthy, IsPending, HInv, IInv, TypeOK
      <4>2. final.phase \in {"healthy", "rolled_back"}
        BY <4>1 DEF Result
      <4> HIDE DEF final
      <4> QED BY <4>1, <4>2, AuditedHold
    <3>2. CASE ~IsPending(result)
      BY <1>2, <2>4, <3>2 DEF BecomeHealthy
    <3> QED BY <3>1, <3>2
  <2> QED BY <2>1, <2>2, <2>3, <2>4
<1> QED BY <1>1, <1>3, ResultHold

LEMMA StartHold == ASSUME HInv, IInv', Start PROVE HInv'
<1> DEFINE s == Restored(disk)
<1>1. TypeOK /\ IInv /\ TypeOK' /\ disk \in State /\ begun \in Nat
      /\ server = "down" /\ \A d \in Writers : proc[d] = Idle
  BY DEF HInv, IInv, TypeOK, Start, GateInv
<1>2. /\ s.id = disk.id /\ s.action = disk.action /\ s.phase # "preparing"
      /\ (disk.phase # "preparing" => s = disk) /\ (disk.phase = "preparing" => s.phase = "cancelled")
      /\ s \in State
  BY <1>1, RestoredFacts
<1>3. /\ disk' = state' /\ state' \in {s, [s EXCEPT !.phase = "failed"]}
      /\ server' = "up" /\ stopFor' = stopFor /\ proc' = proc /\ UNCHANGED <<activated, released, begun>>
  BY DEF Start, audit, history
<1>4. /\ [s EXCEPT !.phase = "failed"].id = s.id /\ [s EXCEPT !.phase = "failed"].action = s.action
      /\ [s EXCEPT !.phase = "failed"].phase = "failed"
  BY <1>2 DEF State
<1>5. \A d \in Writers : proc'[d].pc = "idle"
  BY <1>1, <1>3 DEF Idle
<1>6. stopFor = 0
  BY <1>1 DEF HInv, StopInv
<1> HIDE DEF s
<1>7. result' # None /\ result'.phase \in {"healthy", "rolled_back"} => result'.id \in released'
  <2>1. result # None /\ result.phase \in {"healthy", "rolled_back"} => result.id \in released
    BY DEF HInv, HoldInv
  <2>2. result' = result \/ (result \in Result /\ result' = [result EXCEPT !.phase = "validating"])
    BY <1>1 DEF Start, IsPending, TypeOK
  <2> QED BY <1>3, <2>1, <2>2 DEF Result
<1>8. IdInv'
  BY <1>1, <1>2, <1>3, <1>4, <1>5 DEF HInv, IdInv, IsAccepted
<1>9. PromiseInv'
  <2>1. Runner \in Writers
    BY DEF Writers
  <2> QED BY <1>2, <1>3, <1>4, <1>5, <2>1 DEF PromiseInv, IsAccepted
<1>10. HoldInv'
  BY <1>2, <1>3, <1>4, <1>7 DEF HInv, HoldInv, IsHolding, IsBlocked, IsActive
<1>11. StopInv'
  BY <1>3, <1>6 DEF StopInv
<1> QED BY <1>8, <1>9, <1>10, <1>11 DEF HInv

-----------------------------------------------------------------------------

LEMMA InitHold == Init => HInv
<1> SUFFICES ASSUME Init PROVE HInv
  OBVIOUS
<1>1. Idle.pc = "idle" /\ NoState.id = 0 /\ NoState.phase = "none" /\ NoState.action = "none"
      /\ Runner \in Writers
  BY DEF Idle, NoState, Writers
<1>2. IdInv /\ PromiseInv
  BY <1>1 DEF Init, IdInv, PromiseInv, IsAccepted
<1>3. HoldInv /\ StopInv
  BY <1>1 DEF Init, HoldInv, StopInv, IsHolding, IsBlocked, IsActive
<1> QED BY <1>2, <1>3, InitInv DEF HInv

LEMMA NextHold == HInv /\ [Next]_vars => HInv'
<1> SUFFICES ASSUME HInv, [Next]_vars PROVE HInv'
  OBVIOUS
<1>1. IInv'
  BY NextInv DEF HInv
<1>2. CASE Play
  BY <1>1, <1>2, PlayHold
<1>3. ASSUME NEW c \in Writers, Ask(c) PROVE HInv'
  BY <1>1, <1>3, AskHold
<1>4. ASSUME NEW c \in Writers, Handle(c) PROVE HInv'
  BY <1>1, <1>4, RequestBeginHold, CancelBeginHold, JournalHold, RequestCommitHold, AnnounceCommitHold,
     ActivateHold, AbortHold, CancelCommitHold DEF Handle
<1>5. CASE Reconcile
  BY <1>1, <1>5, JournalHold, ReconcileResolveHold DEF Reconcile
<1>6. CASE Advance
  BY <1>1, <1>6, AdvanceLookHold, RunnerStopHold, AdvanceDecideHold, DrainEndHold, PlayHold DEF Advance
<1>7. CASE Supervise
  BY <1>1, <1>7, ShutdownHold, CrashHold, SuperviseHold, PlayHold, StartHold DEF Supervise
<1>8. CASE UNCHANGED vars
  <2>1. UNCHANGED <<state, disk, activated, released, stopFor, result, proc, begun, server>>
    BY <1>8 DEF vars, control, audit, lifecycle, boot, history
  <2>2. NoNewPromise
    BY <2>1 DEF NoNewPromise, IsAccepted
  <2> QED BY <1>1, <2>1, <2>2, QuietInv
<1> QED BY <1>2, <1>3, <1>4, <1>5, <1>6, <1>7, <1>8 DEF Next

LEMMA HoldInductive == Spec => []HInv
  BY InitHold, NextHold, PTL DEF Spec

\* What an operator saw activated keeps the game closed until it is cancelled or
\* finished by the supervisor: through writes of the state file that fail or only
\* seem to, crashes, power losses and restarts.
THEOREM OperationHolds == Spec => []StaysClosed
<1>1. HInv => StaysClosed
  <2> SUFFICES ASSUME HInv, activated # 0, activated \notin released
               PROVE  Effective.id = activated /\ IsBlocked(Effective)
    BY DEF StaysClosed
  <2>1. CASE server = "down"
    BY <2>1 DEF HInv, HoldInv, IsHolding, Effective, Restored
  <2>2. CASE server # "down"
    BY <2>2 DEF HInv, HoldInv, IsHolding, Effective
  <2> QED BY <2>1, <2>2
<1> QED BY <1>1, HoldInductive, PTL

-----------------------------------------------------------------------------
(* StoppingIsFinal and the refinement of AdmissionPolicy, step by step. *)

HoldBy(s) == IF IsBlocked(s) /\ s.phase # "preparing" THEN s.id ELSE 0
Keeps == HoldBy(Effective)

\* What StoppingIsFinal asks of a step, and what AdmissionPolicy does.
Final == Effective.phase = "stopping" =>
             Effective'.id = Effective.id /\ Effective'.phase \in {"stopping", "failed", "completed"}
PolicyStep == [Policy!Next]_(Policy!policy)

LEMMA PolicyStays ==
    ASSUME Keeps' = Keeps, UNCHANGED <<released, inside>> PROVE PolicyStep
  BY DEF PolicyStep, Keeps, HoldBy, Policy!policy

LEMMA PolicyEnters ==
    ASSUME Keeps = 0, Keeps' = 0, NEW p \in Players, inside' = inside \cup {p}, released' = released
    PROVE  PolicyStep
  BY DEF PolicyStep, Keeps, HoldBy, Policy!Next, Policy!Enter

LEMMA PolicyLeaves ==
    ASSUME Keeps' = Keeps, NEW p \in Players, inside' = inside \ {p}, released' = released
    PROVE  PolicyStep
  BY DEF PolicyStep, Keeps, HoldBy, Policy!Next, Policy!Leave

LEMMA PolicyReleases ==
    ASSUME Keeps' = Keeps, NEW o \in Operations, inside' = inside, released' = released \cup {o}
    PROVE  PolicyStep
  BY DEF PolicyStep, Keeps, HoldBy, Policy!Next, Policy!Release

LEMMA PolicyHolds ==
    ASSUME Keeps = 0, Keeps' \in Operations, inside' = {}, released' = released
    PROVE  PolicyStep
<1>1. Policy!Hold(Keeps')
  BY DEF Keeps, HoldBy, Policy!Hold
<1> QED BY <1>1 DEF PolicyStep, Policy!Next

LEMMA PolicyReopens ==
    ASSUME Keeps \in released', Keeps' = 0, inside' \in {inside, {}},
           released' \in {released, released \cup {Keeps}}
    PROVE  PolicyStep
<1>1. Policy!Reopen
  BY DEF Keeps, HoldBy, Policy!Reopen
<1> QED BY <1>1 DEF PolicyStep, Policy!Next

LEMMA PolicyRestarts ==
    ASSUME Keeps' = Keeps, inside' = {}, released' = released PROVE PolicyStep
<1>1. Policy!Restart
  BY DEF Keeps, HoldBy, Policy!Restart
<1> QED BY <1>1 DEF PolicyStep, Policy!Next

\* The players meet the state as long as the server runs.
LEMMA EffectiveUp ==
    ASSUME server # "down", server' # "down"
    PROVE  Effective = state /\ Effective' = state' /\ Keeps = HoldBy(state) /\ Keeps' = HoldBy(state')
  BY DEF Effective, Keeps

\* A step that moves neither the state nor the server's end.
LEMMA EffectiveSame ==
    ASSUME HInv, UNCHANGED state, server' = "down" <=> server = "down",
           server = "down" => disk' = disk
    PROVE  Effective' = Effective /\ Keeps' = Keeps /\ Final
<1>1. Effective' = Effective
  BY DEF Effective, Restored
<1> QED BY <1>1 DEF Keeps, Final, HoldBy, IsBlocked, IsActive

Mapped == Final /\ PolicyStep

LEMMA QuietMaps ==
    ASSUME HInv, UNCHANGED <<state, entry, released>>, server' = "down" <=> server = "down",
           server = "down" => disk' = disk
    PROVE  Mapped
<1>1. inside' = inside
  BY DEF inside
<1> QED BY <1>1, EffectiveSame, PolicyStays DEF Mapped

LEMMA PlayMaps == ASSUME HInv, Play PROVE Mapped
<1>1. UNCHANGED <<state, disk, released, server>>
  BY DEF Play, TimePasses, EnterLook, EnterTry, EnterGame, StartGame, EndGame, control, lifecycle, history
<1>2. Effective' = Effective /\ Keeps' = Keeps /\ Final
  BY <1>1, EffectiveSame
<1>3. PolicyStep
  <2>1. ASSUME NEW p \in Players, EnterLook(p) PROVE inside' = inside
    BY <2>1 DEF EnterLook, inside, HInv, IInv, TypeOK
  <2>2. ASSUME NEW p \in Players, EnterTry(p) PROVE PolicyStep
    <3>1. CASE writer = None /\ ~IsClosed
      <4>1. inside' = inside \cup {p}
        BY <2>2, <3>1 DEF EnterTry, inside, HInv, IInv, TypeOK
      <4>2. Keeps = 0
        BY <3>1 DEF IsClosed, IsServing, Keeps, HoldBy, Effective
      <4> QED BY <1>1, <1>2, <4>1, <4>2, PolicyEnters
    <3>2. CASE ~(writer = None /\ ~IsClosed)
      <4>1. inside' = inside
        BY <2>2, <3>2 DEF EnterTry, inside, HInv, IInv, TypeOK
      <4> QED BY <1>1, <1>2, <4>1, PolicyStays
    <3> QED BY <3>1, <3>2
  <2>3. ASSUME NEW p \in Players, EnterGame(p) PROVE PolicyStep
    <3>1. inside' = inside \ {p}
      BY <2>3 DEF EnterGame, inside, HInv, IInv, TypeOK
    <3> QED BY <1>1, <1>2, <3>1, PolicyLeaves
  <2>4. CASE UNCHANGED entry
    BY <1>1, <1>2, <2>4, PolicyStays DEF inside
  <2> QED BY <1>1, <1>2, <2>1, <2>2, <2>3, <2>4, PolicyStays
          DEF Play, TimePasses, StartGame, EndGame, gate
<1> QED BY <1>2, <1>3 DEF Mapped

LEMMA RequestMaps ==
    ASSUME HInv, NEW c \in Writers, NEW isOk \in BOOLEAN, RequestCommit(c, isOk) \/ AnnounceCommit(c, isOk)
    PROVE  Mapped
<1>1. TypeOK /\ server # "down" /\ ~IsActive(state)
  BY RequestFacts DEF RequestCommit, AnnounceCommit
<1>2. UNCHANGED <<entry, released, server>>
  BY DEF RequestCommit, AnnounceCommit, lifecycle, history
<1>3. state' = state \/ (state'.phase = "preparing") \/ (state'.action = "announce")
  BY DEF RequestCommit, AnnounceCommit, Commit, New
<1>4. Effective = state /\ Keeps = HoldBy(state) /\ Keeps' = HoldBy(state')
  BY <1>1, <1>2, EffectiveUp
<1>5. Keeps = 0 /\ Keeps' = 0
  BY <1>1, <1>3, <1>4 DEF HoldBy, IsBlocked
<1>6. Final
  BY <1>1, <1>4 DEF Final, IsActive
<1> QED BY <1>2, <1>5, <1>6, PolicyStays DEF Mapped, inside

LEMMA ActivateMaps ==
    ASSUME HInv, NEW c \in Writers, NEW isOk \in BOOLEAN, Activate(c, isOk) PROVE Mapped
<1>1. IInv /\ TypeOK /\ server # "down" /\ inside = {} /\ proc[c].id \in Operations \cup {0}
  BY HasGateFacts DEF Activate, Intents, HInv, IInv
<1>2. UNCHANGED <<entry, released, server>>
  BY DEF Activate, lifecycle
<1>3. state' = state \/ (state.phase = "preparing" /\ state' = Activated(state))
  BY DEF Activate, Commit, control
<1>4. Activated(state).id = state.id /\ Activated(state).phase \in {"draining", "warning"}
      /\ state.id \in Operations \cup {0}
  BY <1>1 DEF Activated, TypeOK, State
<1>5. CASE state' = state
  BY <1>1, <1>2, <1>5, QuietMaps
<1>6. CASE state.phase = "preparing" /\ state' = Activated(state)
  <2>1. Effective = state /\ Keeps = HoldBy(state) /\ Keeps' = HoldBy(state')
    BY <1>1, <1>2, EffectiveUp
  <2>2. Keeps = 0 /\ Keeps' \in Operations \cup {0}
    BY <1>4, <1>6, <2>1 DEF HoldBy
  <2>3. inside' = {} /\ inside' = inside
    BY <1>1, <1>2 DEF inside
  <2>4. PolicyStep
    BY <1>2, <2>2, <2>3, PolicyHolds, PolicyStays
  <2>5. Final
    BY <1>6, <2>1 DEF Final
  <2> QED BY <2>4, <2>5 DEF Mapped
<1> QED BY <1>3, <1>5, <1>6

LEMMA AbortMaps == ASSUME HInv, NEW c \in Writers, NEW isOk \in BOOLEAN, Abort(c, isOk) PROVE Mapped
<1> DEFINE s == [state EXCEPT !.phase = "cancelled"]
<1>1. IInv /\ TypeOK /\ server # "down"
  BY HasGateFacts DEF Abort, Intents, HInv, IInv
<1>2. UNCHANGED <<entry, released, server>>
  BY DEF Abort, lifecycle, history
<1>3. state' = state \/ (state.phase = "preparing" /\ state' = s)
  BY DEF Abort, Commit, control
<1>4. s.phase = "cancelled"
  BY <1>1 DEF TypeOK, State
<1>5. CASE state' = state
  BY <1>1, <1>2, <1>5, QuietMaps
<1>6. CASE state.phase = "preparing" /\ state' = s
  <2>1. Effective = state /\ Keeps = HoldBy(state) /\ Keeps' = HoldBy(state')
    BY <1>1, <1>2, EffectiveUp
  <2> HIDE DEF s
  <2>2. Keeps = 0 /\ Keeps' = 0
    BY <1>4, <1>6, <2>1 DEF HoldBy, IsBlocked, IsActive
  <2>3. Final
    BY <1>6, <2>1 DEF Final
  <2> QED BY <1>2, <2>2, <2>3, PolicyStays DEF Mapped, inside
<1> QED BY <1>3, <1>5, <1>6

LEMMA CancelCommitMaps ==
    ASSUME HInv, HInv', NEW c \in Writers, NEW isOk \in BOOLEAN, CancelCommit(c, isOk) PROVE Mapped
<1> DEFINE s == [state EXCEPT !.phase = "cancelled"]
<1>1. TypeOK /\ server # "down" /\ state.id \in Operations \cup {0}
  BY OwnerFacts DEF CancelCommit, HInv, IInv, TypeOK, State
<1>2. UNCHANGED <<entry, server>> /\ inside' = inside
  BY DEF CancelCommit, lifecycle, gate, inside
<1>3. \/ UNCHANGED <<state, released>>
      \/ state.phase # "stopping" /\ state' \in {state, s} /\ released' = released \cup {state.id}
  BY DEF CancelCommit, CanCancel, Commit, control
<1>4. s.phase = "cancelled"
  BY <1>1 DEF TypeOK, State
<1>5. CASE UNCHANGED <<state, released>>
  BY <1>1, <1>2, <1>5, QuietMaps
<1>6. CASE state.phase # "stopping" /\ state' \in {state, s} /\ released' = released \cup {state.id}
  <2>1. Effective = state /\ Keeps = HoldBy(state) /\ Keeps' = HoldBy(state')
    BY <1>1, <1>2, EffectiveUp
  <2>2. Final
    BY <1>6, <2>1 DEF Final
  <2>3. state.id \in Operations
    BY <1>6 DEF HInv, IInv, TypeOK
  <2> HIDE DEF s
  <2>4. CASE Keeps' = Keeps
    BY <1>2, <1>6, <2>2, <2>3, <2>4, PolicyReleases DEF Mapped
  <2>5. CASE Keeps' # Keeps
    <3>1. Keeps = state.id /\ Keeps' = 0
      BY <1>4, <1>6, <2>1, <2>5 DEF HoldBy, IsBlocked, IsActive
    <3> QED BY <1>2, <1>6, <2>2, <3>1, PolicyReopens DEF Mapped
  <2> QED BY <2>4, <2>5
<1> QED BY <1>3, <1>5, <1>6

LEMMA ReconcileResolveMaps ==
    ASSUME HInv, NEW isOk \in BOOLEAN, ReconcileResolve(isOk) PROVE Mapped
<1> DEFINE s == Resolved(state, result.phase)
<1>1. TypeOK /\ server # "down" /\ Reconciler \in Writers
      /\ proc[Reconciler].pc = "waiting" /\ proc[Reconciler].intent = "resolve"
  BY DEF ReconcileResolve, HasGate, IsServing, HInv, IInv, Writers
<1>2. UNCHANGED <<entry, released, server>> /\ inside' = inside
  BY DEF ReconcileResolve, lifecycle, history, inside
<1>3. \/ state' = state
      \/ /\ state.phase \in {"stopping", "failed"} /\ result # None /\ result.id = state.id
         /\ state' = s
  BY DEF ReconcileResolve, Matches, Commit, control
<1>4. /\ s.id = state.id /\ s.action = state.action
      /\ s.phase = IF result.phase = "failed" THEN "failed" ELSE "completed"
  BY <1>1 DEF TypeOK, State, Resolved
<1>5. result # None /\ result.phase # "failed" => result.id \in released
  BY <1>1 DEF HInv, IInv, CarryInv, HoldInv, IsFinal
<1>6. CASE state' = state
  BY <1>1, <1>2, <1>6, QuietMaps
<1>7. CASE /\ state.phase \in {"stopping", "failed"} /\ result # None /\ result.id = state.id
           /\ state' = s
  <2>1. Effective = state /\ Effective' = state' /\ Keeps = HoldBy(state) /\ Keeps' = HoldBy(state')
    BY <1>1, <1>2, EffectiveUp
  <2> HIDE DEF s
  <2>2. Final
    BY <1>4, <1>7, <2>1 DEF Final
  <2>3. CASE Keeps' = Keeps
    BY <1>2, <2>2, <2>3, PolicyStays DEF Mapped
  <2>4. CASE Keeps' # Keeps
    <3>1. Keeps = state.id /\ Keeps' = 0 /\ result.phase # "failed"
      BY <1>4, <1>7, <2>1, <2>4 DEF HoldBy, IsBlocked, IsActive
    <3> QED BY <1>2, <1>5, <1>7, <2>2, <3>1, PolicyReopens DEF Mapped
  <2> QED BY <2>3, <2>4
<1> QED BY <1>3, <1>6, <1>7

\* The countdown goes on and its operation holds as before.
LEMMA AdvanceMaps ==
    ASSUME HInv, NEW isOk \in BOOLEAN, AdvanceDecide(isOk) \/ DrainEnd(isOk) PROVE Mapped
<1>1. TypeOK /\ server # "down" /\ Runner \in Writers
  BY DEF AdvanceDecide, DrainEnd, HInv, IInv, GateInv, Writers, Idle
<1>2. UNCHANGED <<entry, released, server>>
  BY DEF AdvanceDecide, DrainEnd, lifecycle, history, gate
<1>3. \/ state' = state
      \/ state.phase \in {"warning", "draining"} /\ state' \in {Draining, Ended(state)}
  <2>1. \/ state' = state
        \/ state' \in {Draining, Ended(state)} /\ proc[Runner].pc = "due"
        \/ state' = Ended(state) /\ proc[Runner].pc = "drain" /\ state.phase = proc[Runner].was
    BY DEF AdvanceDecide, DrainEnd, Commit, control
  <2> QED BY <2>1 DEF HInv, IInv, GateInv, PromiseInv
<1>4. /\ Draining.id = state.id /\ Draining.action = state.action /\ Draining.phase = state.phase
      /\ Ended(state).id = state.id /\ Ended(state).action = state.action
      /\ Ended(state).phase \in {"held", "stopping"}
  BY <1>1 DEF Draining, Ended, TypeOK, State
<1>5. CASE state' = state
  BY <1>1, <1>2, <1>5, QuietMaps
<1>6. CASE state.phase \in {"warning", "draining"} /\ state' \in {Draining, Ended(state)}
  <2>1. Effective = state /\ Effective' = state' /\ Keeps = HoldBy(state) /\ Keeps' = HoldBy(state')
    BY <1>1, <1>2, EffectiveUp
  <2>2. Final
    BY <1>6, <2>1 DEF Final
  <2>3. Keeps' = Keeps
    BY <1>4, <1>6, <2>1 DEF HoldBy, IsBlocked, IsActive
  <2> QED BY <1>2, <2>2, <2>3, PolicyStays DEF Mapped, inside
<1> QED BY <1>3, <1>5, <1>6

\* The result moves on; only a success releases.
LEMMA BesideMaps ==
    ASSUME HInv, HInv',
           \/ StartupTimeout \/ BecomeHealthy \/ Rollback
           \/ \E isOk \in BOOLEAN : ConsumeRequest(isOk)
    PROVE  Mapped
<1>1. UNCHANGED <<state, disk, entry, server>> /\ inside' = inside
  BY DEF StartupTimeout, BecomeHealthy, Rollback, ConsumeRequest, control, lifecycle, gate, inside
<1>2. Keeps' = Keeps /\ Final
  BY <1>1, EffectiveSame
<1>3. released' = released \/ \E o \in Operations : released' = released \cup {o}
  <2>1. CASE StartupTimeout
    <3>1. Audited(Failed(result)) /\ Failed(result).phase = "failed"
      BY <2>1, FailedType DEF StartupTimeout, IsPending, HInv, IInv, TypeOK
    <3> QED BY <3>1 DEF Audited
  <2>2. CASE Rollback
    BY <2>2 DEF Rollback, history
  <2>3. ASSUME NEW isOk \in BOOLEAN, ConsumeRequest(isOk) PROVE released' = released
    BY <2>3 DEF ConsumeRequest, Audited
  <2>4. CASE BecomeHealthy
    <3> DEFINE r == [result EXCEPT !.phase = IF @ = "rolled_back" THEN @ ELSE "healthy"]
               final == IF result.code = "rolled_back" THEN [r EXCEPT !.phase = "rolled_back"] ELSE r
    <3>1. CASE IsPending(result)
      <4>1. result \in Result
        BY <3>1 DEF IsPending, HInv, IInv, TypeOK
      <4>2. final.id \in Operations
        BY <4>1 DEF Result
      <4>3. Audited(final)
        BY <2>4, <3>1 DEF BecomeHealthy
      <4> HIDE DEF final
      <4> QED BY <4>2, <4>3 DEF Audited
    <3> QED BY <2>4, <3>1 DEF BecomeHealthy
  <2> QED BY <2>1, <2>2, <2>3, <2>4
<1> QED BY <1>1, <1>2, <1>3, PolicyStays, PolicyReleases DEF Mapped

LEMMA ChildEndedReleases ==
    ASSUME HInv, NEW isGone \in BOOLEAN, ChildEnded(isGone) PROVE released' = released
<1>1. CASE result # None /\ IsFinal(result) /\ Audited(result)
  <2>1. result.phase # "failed" => result.id \in released
    BY <1>1 DEF HInv, HoldInv, IsFinal
  <2> QED BY <1>1, <2>1 DEF Audited
<1>2. CASE IsPending(result) /\ Audited(Failed(result))
  <2>1. Failed(result).phase = "failed"
    BY <1>2, FailedType DEF IsPending, HInv, IInv, TypeOK
  <2> QED BY <1>2, <2>1 DEF Audited
<1> QED BY <1>1, <1>2 DEF ChildEnded

\* A process that ends leaves a file that holds what its state held, or more.
LEMMA ExitMaps ==
    ASSUME HInv, NEW canConsume, Exit(canConsume), released' = released, server # "down",
           \/ disk' = disk
           \/ disk' = [state EXCEPT !.phase = "failed"] /\ state.phase = "stopping"
    PROVE  Mapped
<1> DEFINE f == [state EXCEPT !.phase = "failed"]
<1>1. TypeOK /\ state \in State /\ disk \in State
  BY DEF HInv, IInv, TypeOK
<1>2. f \in State /\ f.id = state.id /\ f.action = state.action /\ f.phase = "failed"
  BY <1>1 DEF State, Phases
<1>3. Effective = state /\ Effective' = Restored(disk') /\ Keeps = HoldBy(state) /\ Keeps' = HoldBy(Restored(disk'))
  BY DEF Effective, Keeps, Exit, Restored
<1>4. inside' = {}
  BY DEF Exit, inside
<1> HIDE DEF f
<1>5. CASE disk' = f /\ state.phase = "stopping"
  <2>1. Restored(f) = f
    BY <1>2, RestoredFacts
  <2>2. Final
    BY <1>2, <1>3, <1>5, <2>1 DEF Final
  <2>3. Keeps' = Keeps
    BY <1>2, <1>3, <1>5, <2>1 DEF HoldBy, IsBlocked, IsActive
  <2> QED BY <1>4, <2>2, <2>3, PolicyRestarts DEF Mapped
<1>6. CASE disk' = disk
  <2> DEFINE s == Restored(disk)
  <2>1. /\ s.id = disk.id /\ s.action = disk.action /\ s.phase # "preparing"
        /\ (disk.phase # "preparing" => s = disk) /\ s.id \in Operations \cup {0}
    BY <1>1, RestoredFacts DEF State
  <2>2. Effective = state /\ Effective' = s /\ Keeps = HoldBy(state) /\ Keeps' = HoldBy(s)
    BY <1>3, <1>6
  <2> HIDE DEF s
  <2>3. Final
    BY <2>1, <2>2 DEF Final, HInv, StopInv
  <2>4. Keeps' \in Operations \cup {0}
    BY <2>1, <2>2 DEF HoldBy
  <2>5. CASE Keeps = 0
    BY <1>4, <2>3, <2>4, <2>5, PolicyHolds, PolicyRestarts DEF Mapped
  <2>6. CASE Keeps # 0
    <3>1. IsHolding(state, state.id) /\ Keeps = state.id /\ disk.id = state.id
      BY <2>2, <2>6 DEF HoldBy, IsHolding, IsBlocked, HInv, HoldInv
    <3>2. CASE state.id \in released
      <4>1. Keeps' = Keeps \/ Keeps' = 0
        BY <2>1, <2>2, <3>1 DEF HoldBy
      <4> QED BY <1>4, <2>3, <3>1, <3>2, <4>1, PolicyReopens, PolicyRestarts DEF Mapped
    <3>3. CASE state.id \notin released
      <4>1. IsHolding(disk, state.id)
        BY <3>1, <3>3 DEF HInv, HoldInv
      <4>2. Keeps' = Keeps
        BY <2>1, <2>2, <3>1, <4>1 DEF HoldBy, IsHolding
      <4> QED BY <1>4, <2>3, <4>2, PolicyRestarts DEF Mapped
    <3> QED BY <3>2, <3>3
  <2> QED BY <2>5, <2>6
<1> QED BY <1>5, <1>6 DEF f

LEMMA EndMaps ==
    ASSUME HInv,
           \/ \E isLost \in BOOLEAN : Crash(isLost)
           \/ \E isClean, isGone \in BOOLEAN : Shutdown(isClean, isGone)
    PROVE  Mapped
<1>1. ASSUME NEW isLost \in BOOLEAN, Crash(isLost) PROVE Mapped
  <2>1. Exit(isLost) /\ ChildEnded(isLost) /\ disk' = disk /\ server # "down"
    BY <1>1 DEF Crash
  <2> QED BY <2>1, ChildEndedReleases, ExitMaps
<1>2. ASSUME NEW isClean \in BOOLEAN, NEW isGone \in BOOLEAN, Shutdown(isClean, isGone) PROVE Mapped
  <2>1. Exit(isGone \/ (isClean /\ isHealthy)) /\ ChildEnded(isGone) /\ server # "down"
    BY <1>2 DEF Shutdown
  <2>2. \/ disk' = disk
        \/ disk' = [state EXCEPT !.phase = "failed"] /\ stopFor # 0
    BY <1>2 DEF Shutdown
  <2>3. stopFor # 0 => state.phase = "stopping"
    BY DEF HInv, StopInv
  <2> QED BY <2>1, <2>2, <2>3, ChildEndedReleases, ExitMaps
<1> QED BY <1>1, <1>2

LEMMA StartMaps == ASSUME HInv, Start PROVE Mapped
<1> DEFINE s == Restored(disk)
           f == [s EXCEPT !.phase = "failed"]
<1>1. TypeOK /\ disk \in State
  BY DEF HInv, IInv, TypeOK
<1>2. s \in State
  BY <1>1, RestoredFacts
<1>3. f.id = s.id /\ f.action = s.action /\ f.phase = "failed"
  BY <1>2 DEF State
<1>4. Effective = s /\ Effective' = state' /\ Keeps = HoldBy(s) /\ Keeps' = HoldBy(state')
  BY DEF Start, Effective, Keeps
<1>5. state' = s \/ (s.phase = "stopping" /\ state' = f)
  BY DEF Start
<1>6. released' = released /\ inside' = inside
  BY DEF Start, history, gate, inside
<1> HIDE DEF s, f
<1>7. Final
  BY <1>3, <1>4, <1>5 DEF Final
<1>8. Keeps' = Keeps
  BY <1>3, <1>4, <1>5 DEF HoldBy, IsBlocked, IsActive
<1> QED BY <1>6, <1>7, <1>8, PolicyStays DEF Mapped

\* Every other step of Next leaves the state alone.
LEMMA NextMaps == ASSUME HInv, HInv', [Next]_vars PROVE Mapped
<1>1. CASE Play
  BY <1>1, PlayMaps
<1>2. ASSUME NEW c \in Writers, Ask(c) PROVE Mapped
  <2>1. UNCHANGED <<state, disk, entry, released, server>>
    BY <1>2 DEF Ask, AskRequest, Answer, AskCancel, TimeOut, control, lifecycle, history
  <2> QED BY <2>1, QuietMaps
<1>3. ASSUME NEW c \in Writers,
             RequestBegin(c) \/ CancelBegin(c) \/ CompleteLook(c) \/ \E isOk \in BOOLEAN : CompleteWrite(c, isOk)
      PROVE  Mapped
  <2>1. UNCHANGED <<state, disk, entry, released, server>>
    BY <1>3 DEF RequestBegin, CancelBegin, CompleteLook, CompleteWrite, control, lifecycle, history, gate
  <2> QED BY <2>1, QuietMaps
<1>4. ASSUME NEW c \in Writers, Handle(c) PROVE Mapped
  BY <1>3, <1>4, RequestMaps, ActivateMaps, AbortMaps, CancelCommitMaps DEF Handle
<1>5. CASE Reconcile
  <2>1. CASE ReconcileLook \/ \E o \in Operations : RetryCompletion(o)
    <3>1. UNCHANGED <<state, disk, entry, released, server>>
      BY <2>1 DEF ReconcileLook, RetryCompletion, control, lifecycle, history, gate
    <3> QED BY <3>1, QuietMaps
  <2> QED BY <1>5, <2>1, ReconcileResolveMaps DEF Reconcile
<1>6. CASE Advance
  <2>1. CASE AdvanceLook \/ RunnerStop \/ \E p \in Players, isOk \in BOOLEAN : DrainUser(p, isOk)
    <3>1. UNCHANGED <<state, entry, released>> /\ (server' = "down" <=> server = "down")
      BY <2>1 DEF AdvanceLook, RunnerStop, DrainUser, control, lifecycle, history, gate
    <3>2. server = "down" => disk' = disk
      BY <2>1 DEF AdvanceLook, RunnerStop, DrainUser, control
    <3> QED BY <3>1, <3>2, QuietMaps
  <2> QED BY <1>6, <2>1, AdvanceMaps DEF Advance
<1>7. CASE Supervise
  <2>1. CASE ExternalStop
    <3>1. UNCHANGED <<state, disk, entry, released>> /\ server # "down" /\ server' # "down"
      BY <2>1 DEF ExternalStop, control, history, gate
    <3> QED BY <3>1, QuietMaps
  <2> QED BY <1>7, <2>1, BesideMaps, EndMaps, StartMaps DEF Supervise
<1>8. CASE UNCHANGED vars
  BY <1>8, QuietMaps DEF vars, control, gate, lifecycle, history
<1> QED BY <1>1, <1>2, <1>4, <1>5, <1>6, <1>7, <1>8 DEF Next

LEMMA InitMaps == Init => Policy!Init
  BY DEF Init, Policy!Init, Effective, NoState, IsBlocked, IsActive, inside

\* Once the server stops for an operation nothing takes that back, in memory or,
\* after a crash, in the file: no cancellation, no late write, no restart.
THEOREM StoppingNotTakenBack == Spec => StoppingIsFinal
<1>1. HInv /\ HInv' /\ [Next]_vars =>
        [Effective.phase = "stopping" =>
           /\ Effective'.id = Effective.id
           /\ Effective'.phase \in {"stopping", "failed", "completed"}]_vars
  BY NextMaps DEF Mapped, Final
<1> QED BY HoldInductive, <1>1, PTL DEF Spec, StoppingIsFinal

\* Maintenance keeps what it promises the players: every step of the server, its
\* operators, its schedule and its supervisor is one of AdmissionPolicy or none.
THEOREM Refinement == Spec => ImplementsPolicy
<1>1. HInv /\ HInv' /\ [Next]_vars => [Policy!Next]_(Policy!policy)
  BY NextMaps DEF Mapped, PolicyStep
<1> QED BY HoldInductive, InitMaps, <1>1, PTL DEF Spec, ImplementsPolicy, Policy!Spec

-----------------------------------------------------------------------------
(***************************************************************************)
(* The journal: what is said of an operation.                              *)
(***************************************************************************)
RowsOf(todo) == {todo[i] : i \in DOMAIN todo}
Names(c, o) == \E r \in RowsOf(proc[c].todo) : r.id = o
Claims(p) == IF p.pc \in {"complete", "write"} THEN RowsOf(p.todo) ELSE {}

\* An outcome that is journalled, or will be.
Claimed(o, x) == \/ journal[o] = x \/ completions[o] = x
                 \/ \E c \in Writers : Row(o, x) \in Claims(proc[c])

\* What memory and file say of an operation agrees with an outcome.
Fits(o, x) == /\ state.id = o => Agrees(x, state.phase)
              /\ disk.id = o => Agrees(x, Restored(disk).phase)

\* The row of a cancellation, or of an operation that is not yet one.
Unused(o) == /\ state.id # o /\ disk.id # o /\ stopFor # o /\ request # o
             /\ result # None => result.id # o

\* An operation that has stopped the server, and does not count down again.
SettledPhases == {"stopping", "failed", "cancelled", "completed"}
Settled(o) == /\ state.id = o => state.phase \in SettledPhases
              /\ disk.id = o => disk.phase \in SettledPhases

\* Rows to come are blank; that of a request is its own.
RowInv ==
    /\ \A o \in Operations : o > begun =>
          /\ Unused(o) /\ journal[o] = "none" /\ completions[o] = None
          /\ \A c \in Writers : ~Names(c, o)
    /\ \A c \in Writers : proc[c].pc = "request" =>
          /\ Unused(proc[c].id) /\ journal[proc[c].id] = "accepted" /\ completions[proc[c].id] = None
          /\ \A d \in Writers : Names(d, proc[c].id) => d = c
    /\ \A c \in Writers : proc[c].pc = "cancel" => Unused(Head(proc[c].todo).id)

SettledInv == /\ request # 0 => Settled(request)
              /\ result # None => Settled(result.id)

\* Of an operation that has ended in memory the file says nothing older.
FollowInv ==
    disk.id = state.id =>
        /\ state.phase = "held" => disk.phase \in {"held", "cancelled"}
        /\ state.phase = "cancelled" => disk.phase = "cancelled"
        /\ state.phase = "failed" => disk.phase \in {"failed", "completed", "cancelled"}

ClaimInv == \A o \in Operations : \A x \in Outcomes : Claimed(o, x) => Fits(o, x)

JInv == HInv /\ RowInv /\ SettledInv /\ FollowInv /\ ClaimInv

-----------------------------------------------------------------------------
(* How an operation goes on. *)

MayBecome(p, q) ==
    \/ q = p \/ q = "cancelled"
    \/ p = "preparing" /\ q \in {"warning", "draining"}
    \/ p \in {"warning", "draining"} /\ q \in {"held", "stopping"}
    \/ p \in {"stopping", "failed"} /\ q \in {"failed", "completed"}

\* What agrees with an operation goes on to agree with it.
LEMMA AgreesOn ==
    ASSUME NEW x \in Outcomes, NEW p, NEW q, MayBecome(p, q), Agrees(x, p)
    PROVE  Agrees(x, q)
<1>1. CASE x \in {"cancelled", "acceptance_not_flushed", "prepare_failed"}
  BY <1>1 DEF Agrees, MayBecome
<1>2. CASE x = "held"
  BY <1>2 DEF Agrees, MayBecome
<1>3. CASE x = "maintenance_failed"
  BY <1>3 DEF Agrees, MayBecome
<1>4. CASE x \in {"healthy", "rolled_back", "update_failed", "failed"}
  BY <1>4 DEF Agrees, MayBecome
<1>5. CASE x \in {"cancel_failed", "announced", "announcement_failed"}
  BY <1>5 DEF Agrees
<1> QED BY <1>1, <1>2, <1>3, <1>4, <1>5 DEF Outcomes

LEMMA AgreesCancelled == ASSUME NEW x \in Outcomes PROVE Agrees(x, "cancelled")
  BY DEF Agrees, Outcomes

LEMMA AgreesRestored ==
    ASSUME NEW x \in Outcomes, NEW s \in State, Agrees(x, s.phase) PROVE Agrees(x, Restored(s).phase)
  BY RestoredFacts, AgreesCancelled

\* The state and the file stay, or take a step together or one by one.
Moves == \E s \in State :
            /\ s.id = state.id /\ MayBecome(state.phase, s.phase)
            /\ state' \in {state, s} /\ disk' \in {disk, s}
            /\ state' = state \/ disk' = s

\* What has become of state and file is no news to the journal.
Kept ==
    /\ FollowInv'
    /\ \A o \in Operations : Settled(o) => Settled(o)'
    /\ \A o \in Operations : \A x \in Outcomes : Fits(o, x) => Fits(o, x)'
    /\ state'.id \in {0, state.id, disk.id} /\ disk'.id \in {0, state.id, disk.id}

LEMMA MovesKept == ASSUME JInv, Moves PROVE Kept
<1>1. PICK s \in State : /\ s.id = state.id /\ MayBecome(state.phase, s.phase)
                         /\ state' \in {state, s} /\ disk' \in {disk, s}
                         /\ state' = state \/ disk' = s
  BY DEF Moves
<1>2. state \in State /\ disk \in State
  BY DEF JInv, HInv, IInv, TypeOK
<1>3. FollowInv'
  <2>1. CASE disk' = s
    BY <1>1, <2>1 DEF FollowInv, MayBecome
  <2>2. CASE disk' = disk /\ state' = state
    BY <2>2 DEF JInv, FollowInv
  <2> QED BY <1>1, <2>1, <2>2
<1>4. ASSUME NEW o \in Operations, Settled(o) PROVE Settled(o)'
  BY <1>1, <1>4 DEF Settled, SettledPhases, MayBecome
<1>5. ASSUME NEW o \in Operations, NEW x \in Outcomes, Fits(o, x) PROVE Fits(o, x)'
  <2>1. state'.id = o => Agrees(x, state'.phase)
    BY <1>1, <1>5, AgreesOn DEF Fits
  <2>2. disk'.id = o => Agrees(x, Restored(disk').phase)
    <3>1. CASE disk' = disk
      BY <1>5, <3>1 DEF Fits
    <3>2. CASE disk' = s /\ s.id = o
      BY <1>1, <1>5, <3>2, AgreesOn, AgreesRestored DEF Fits
    <3> QED BY <1>1, <3>1, <3>2
  <2> QED BY <2>1, <2>2 DEF Fits
<1> QED BY <1>1, <1>3, <1>4, <1>5 DEF Kept

-----------------------------------------------------------------------------
(* A step that begins no row. *)

\* Rows that were put to use.
Known(o) == \/ completions[o] # None \/ ~Unused(o)
            \/ \E c \in Writers : proc[c].pc \in {"complete", "write"} /\ Names(c, o)

\* The supervisor's files are about the operation of the state or of each other.
BootStep ==
    /\ stopFor' \in {0, stopFor, state.id}
    /\ request' \in {0, request, stopFor}
    /\ result' # None => \/ result # None /\ result'.id = result.id
                         \/ request # 0 /\ result'.id = request

\* Nobody's request or cancellation changes except that it ends; only known rows are named.
ProcStep ==
    /\ \A d \in Writers : proc'[d].pc \in {"request", "cancel"} => proc'[d] = proc[d]
    /\ \A d \in Writers : \A o \in Operations : Names(d, o)' => Names(d, o) \/ Known(o)

LEMMA IdFacts ==
    ASSUME JInv
    PROVE  /\ TypeOK /\ IInv /\ state.id \in Operations \cup {0} /\ disk.id \in Operations \cup {0}
           /\ 0 \notin Operations /\ Operations \subseteq Nat /\ begun \in Nat
           /\ request \in Operations \cup {0} /\ stopFor \in Operations \cup {0}
           /\ result # None => result.id \in Operations
           /\ \A c \in Writers : proc[c] \in Process /\ proc[c].id \in Operations \cup {0}
           /\ \A c \in Writers : proc[c].pc = "request" => proc[c].id \in Operations /\ proc[c].id <= begun
           /\ \A c \in Writers : proc[c].pc = "cancel" => Head(proc[c].todo).id \in Operations
                                                          /\ Head(proc[c].todo) \in RowsOf(proc[c].todo)
<1>1. TypeOK /\ IInv
  BY DEF JInv, HInv, IInv
<1>2. state.id \in Operations \cup {0} /\ disk.id \in Operations \cup {0}
  BY <1>1 DEF TypeOK, State
<1>3. 0 \notin Operations /\ Operations \subseteq Nat /\ begun \in Nat
  BY <1>1 DEF TypeOK, Operations
<1>4. result # None => result.id \in Operations
  BY <1>1 DEF TypeOK, Result
<1>5. \A c \in Writers : proc[c] \in Process /\ proc[c].id \in Operations \cup {0}
  BY <1>1, ProcessFields DEF TypeOK
<1>6. ASSUME NEW c \in Writers, proc[c].pc = "request" PROVE proc[c].id \in Operations /\ proc[c].id <= begun
  BY <1>1, <1>5, <1>6, OwnerFacts DEF JInv, HInv, IdInv
<1>7. ASSUME NEW c \in Writers, proc[c].pc = "cancel"
      PROVE  Head(proc[c].todo).id \in Operations /\ Head(proc[c].todo) \in RowsOf(proc[c].todo)
  <2>1. /\ Head(proc[c].todo).id \in Operations /\ Head(proc[c].todo) = proc[c].todo[1]
        /\ 1 \in 1 .. Len(proc[c].todo) /\ proc[c].todo \in Seq(Completion)
    BY <1>1, <1>7, HeadFacts
  <2> QED BY <2>1 DEF RowsOf
<1> QED BY <1>1, <1>2, <1>3, <1>4, <1>5, <1>6, <1>7 DEF TypeOK

\* The identities in use only move along.
LEMMA UnusedKept ==
    ASSUME JInv, state'.id \in {0, state.id, disk.id}, disk'.id \in {0, state.id, disk.id}, BootStep,
           NEW o \in Operations, Unused(o)
    PROVE  Unused(o)'
<1>1. 0 \notin Operations
  BY IdFacts
<1> QED BY <1>1 DEF Unused, BootStep

LEMMA SettledKept == ASSUME JInv, Kept, BootStep PROVE SettledInv'
<1>1. /\ request \in Operations \cup {0} /\ stopFor \in Operations \cup {0}
      /\ result # None => result.id \in Operations
  BY IdFacts
<1>2. stopFor # 0 => Settled(stopFor)
  BY DEF JInv, HInv, StopInv, Settled, SettledPhases
<1>3. request # 0 => Settled(request)
  BY DEF JInv, SettledInv
<1>4. result # None => Settled(result.id)
  BY DEF JInv, SettledInv
<1>5. request' # 0 => Settled(request)'
  <2>1. request' = request \/ request' = stopFor \/ request' = 0
    BY DEF BootStep
  <2> QED BY <1>1, <1>2, <1>3, <2>1 DEF Kept, Settled
<1>6. result' # None => Settled(result.id)'
  <2>1. result' # None => \E o \in Operations : result'.id = o /\ Settled(o)
    BY <1>1, <1>3, <1>4 DEF BootStep
  <2> QED BY <2>1 DEF Kept, Settled
<1> QED BY <1>5, <1>6 DEF SettledInv, Settled

LEMMA StepInv ==
    ASSUME JInv, HInv', Kept, BootStep, ProcStep, begun' = begun,
           \A o \in Operations : (journal'[o] = journal[o] /\ completions'[o] = completions[o]) \/ Known(o),
           \A o \in Operations : \A x \in Outcomes : Claimed(o, x)' => Claimed(o, x) \/ Fits(o, x)'
    PROVE  JInv'
<1>1. \A o \in Operations : Unused(o) => Unused(o)'
  BY UnusedKept DEF Kept
<1>2. SettledInv'
  BY SettledKept
<1>3. RowInv'
  <2>1. ASSUME NEW o \in Operations, o > begun'
        PROVE  /\ Unused(o)' /\ journal'[o] = "none" /\ completions'[o] = None
               /\ \A c \in Writers : ~Names(c, o)'
    <3>1. /\ Unused(o) /\ journal[o] = "none" /\ completions[o] = None
          /\ \A c \in Writers : ~Names(c, o)
      BY <2>1 DEF JInv, RowInv
    <3>2. ~Known(o)
      BY <3>1 DEF Known
    <3> QED BY <1>1, <3>1, <3>2 DEF ProcStep
  <2>2. ASSUME NEW c \in Writers, proc'[c].pc = "request"
        PROVE  /\ Unused(proc[c].id)' /\ journal'[proc'[c].id] = "accepted" /\ completions'[proc'[c].id] = None
               /\ \A d \in Writers : Names(d, proc[c].id)' => d = c
    <3>1. proc'[c] = proc[c] /\ proc[c].pc = "request" /\ proc[c].id \in Operations
      BY <2>2, IdFacts DEF ProcStep
    <3>2. /\ Unused(proc[c].id) /\ journal[proc[c].id] = "accepted" /\ completions[proc[c].id] = None
          /\ \A d \in Writers : Names(d, proc[c].id) => d = c
      BY <3>1 DEF JInv, RowInv
    <3>3. ~Known(proc[c].id)
      BY <3>1, <3>2 DEF Known
    <3> DEFINE o == proc[c].id
    <3>4. Unused(o)' /\ journal'[o] = "accepted" /\ completions'[o] = None
      BY <1>1, <3>1, <3>2, <3>3
    <3>5. \A d \in Writers : Names(d, o)' => d = c
      BY <3>1, <3>2, <3>3 DEF ProcStep, Names
    <3> QED BY <3>1, <3>4, <3>5 DEF Unused, Names
  <2>3. ASSUME NEW c \in Writers, proc'[c].pc = "cancel" PROVE Unused(Head(proc[c].todo).id)'
    <3>1. proc'[c] = proc[c] /\ proc[c].pc = "cancel" /\ Head(proc[c].todo).id \in Operations
      BY <2>3, IdFacts DEF ProcStep
    <3>2. Unused(Head(proc[c].todo).id)
      BY <3>1 DEF JInv, RowInv
    <3> QED BY <1>1, <3>1, <3>2 DEF Unused
  <2> QED BY <2>1, <2>2, <2>3 DEF RowInv, Unused, Names
<1>4. ClaimInv'
  BY DEF JInv, ClaimInv, Kept
<1> QED BY <1>2, <1>3, <1>4 DEF JInv, Kept

LEMMA RowFacts ==
    /\ \A o, x : Row(o, x).id = o /\ Row(o, x).outcome = x
    /\ RowsOf(<< >>) = {}
    /\ \A r : RowsOf(<<r>>) = {r}
    /\ \A r, t : RowsOf(<<r, t>>) = {r, t}
<1>1. \A o, x : Row(o, x).id = o /\ Row(o, x).outcome = x
  BY DEF Row
<1>2. RowsOf(<< >>) = {}
  BY DEF RowsOf
<1>3. \A r : RowsOf(<<r>>) = {r}
  BY DEF RowsOf
<1>4. \A r, t : RowsOf(<<r, t>>) = {r, t}
  BY DEF RowsOf
<1> QED BY <1>1, <1>2, <1>3, <1>4

\* One writer goes on, and may take up rows that are known.
LEMMA TodoStep ==
    ASSUME JInv, HInv', Kept, BootStep, UNCHANGED <<journal, begun, completions>>,
           NEW c \in Writers, NEW p, proc' = [proc EXCEPT ![c] = p], p.pc \notin {"request", "cancel"},
           \A r \in RowsOf(p.todo) : r \in RowsOf(proc[c].todo) \/ Known(r.id),
           \A r \in RowsOf(p.todo) : Claimed(r.id, r.outcome) \/ Fits(r.id, r.outcome)'
    PROVE  JInv'
<1>1. proc'[c] = p /\ \A d \in Writers \ {c} : proc'[d] = proc[d]
  BY IdFacts DEF TypeOK
<1>2. ProcStep
  <2>1. ASSUME NEW o \in Operations, NEW d \in Writers, Names(d, o)' PROVE Names(d, o) \/ Known(o)
    BY <1>1, <2>1 DEF Names
  <2> QED BY <1>1, <2>1 DEF ProcStep
<1>3. ASSUME NEW o \in Operations, NEW x \in Outcomes, Claimed(o, x)' PROVE Claimed(o, x) \/ Fits(o, x)'
  <2>1. CASE journal[o] = x \/ completions[o] = x
    BY <2>1 DEF Claimed
  <2>2. ASSUME NEW d \in Writers, Row(o, x) \in Claims(proc'[d]) PROVE Claimed(o, x) \/ Fits(o, x)'
    <3>1. CASE d = c
      BY <1>1, <2>2, <3>1, RowFacts DEF Fits, Claims
    <3>2. CASE d # c
      BY <1>1, <2>2, <3>2 DEF Claimed
    <3> QED BY <3>1, <3>2
  <2>3. journal' = journal /\ completions' = completions
    OBVIOUS
  <2> QED BY <1>3, <2>1, <2>2, <2>3 DEF Claimed, Claims
<1> QED BY <1>2, <1>3, StepInv

\* A writer that has nothing to journal.
LEMMA BareStep ==
    ASSUME JInv, HInv', Kept, BootStep, UNCHANGED <<journal, begun, completions>>,
           NEW c \in Writers, NEW p, proc' = [proc EXCEPT ![c] = p], p.pc \notin {"request", "cancel"},
           p.todo = << >>
    PROVE  JInv'
<1>1. RowsOf(p.todo) = {}
  BY RowFacts
<1> QED BY <1>1, TodoStep

LEMMA StillKept == ASSUME JInv, UNCHANGED <<state, disk>> PROVE Kept
<1>1. state \in State
  BY IdFacts DEF TypeOK
<1> QED BY <1>1, MovesKept DEF Moves, MayBecome

LEMMA CommitKept ==
    ASSUME JInv, NEW s \in State, NEW isOk \in BOOLEAN, Commit(s, isOk), s.id = state.id,
           MayBecome(state.phase, s.phase)
    PROVE  Kept
<1>1. state' \in {state, s} /\ disk' \in {disk, s} /\ (state' = state \/ disk' = s)
  BY DEF Commit
<1>2. Moves
  BY <1>1 DEF Moves
<1> QED BY <1>2, MovesKept

LEMMA SameBoot == ASSUME UNCHANGED <<stopFor, request, result>> PROVE BootStep
  BY DEF BootStep

-----------------------------------------------------------------------------
(* The actions. *)

LEMMA PlayJournal ==
    ASSUME JInv, HInv', Play \/ ExternalStop \/ (\E p \in Players, isOk \in BOOLEAN : DrainUser(p, isOk))
                              \/ UNCHANGED vars
    PROVE  JInv'
<1>1. UNCHANGED <<state, disk, stopFor, request, result, proc, journal, completions, begun>>
  BY DEF Play, TimePasses, EnterLook, EnterTry, EnterGame, StartGame, EndGame, ExternalStop, DrainUser,
         control, audit, lifecycle, boot, vars
<1>2. Kept /\ BootStep
  BY <1>1, StillKept, SameBoot
<1>3. ProcStep
  BY <1>1 DEF ProcStep, Names
<1>4. \A o \in Operations : \A x \in Outcomes : Claimed(o, x)' => Claimed(o, x)
  BY <1>1 DEF Claimed
<1> QED BY <1>1, <1>2, <1>3, <1>4, StepInv

Bare(p) == p.pc \notin {"request", "cancel"} /\ p.todo = << >>

LEMMA BareFacts ==
    /\ Bare(Idle) /\ \A id : Bare(Accepted(id))
    /\ \A pc \in {"idle", "stop", "due", "done"} : Bare([Idle EXCEPT !.pc = pc])
    /\ \A id, was : Bare([Idle EXCEPT !.pc = "drain", !.id = id, !.was = was])
    /\ \A intent, action, id : Bare([Idle EXCEPT !.pc = "waiting", !.intent = intent, !.action = action, !.id = id])
  BY DEF Bare, Idle, Accepted

LEMMA WaitBare ==
    ASSUME NEW c, NEW intent, NEW action, NEW id, Wait(c, intent, action, id)
    PROVE  \E p : Bare(p) /\ proc' = [proc EXCEPT ![c] = p]
  BY BareFacts DEF Wait

LEMMA GiveUpBare ==
    ASSUME NEW c, GiveUp(c) PROVE \E p : Bare(p) /\ proc' = [proc EXCEPT ![c] = p]
  BY BareFacts, WaitBare DEF GiveUp, Finish, Become

LEMMA AskJournal == ASSUME JInv, HInv', NEW c \in Writers, Ask(c) PROVE JInv'
<1>1. UNCHANGED <<state, disk, stopFor, request, result, journal, completions, begun>>
  BY DEF Ask, AskRequest, Answer, AskCancel, TimeOut, control, audit, lifecycle, boot
<1>2. Kept /\ BootStep
  BY <1>1, StillKept, SameBoot
<1>3. PICK p : Bare(p) /\ proc' = [proc EXCEPT ![c] = p]
  BY WaitBare, GiveUpBare DEF Ask, AskRequest, Answer, AskCancel, TimeOut
<1> QED BY <1>1, <1>2, <1>3, BareStep DEF Bare

LEMMA ActivateJournal ==
    ASSUME JInv, HInv', NEW c \in Writers, NEW isOk \in BOOLEAN, Activate(c, isOk) PROVE JInv'
<1>1. UNCHANGED <<stopFor, request, result, journal, completions, begun>> /\ BootStep
  BY SameBoot DEF Activate, audit, lifecycle, boot
<1>2. Kept
  <2>1. CASE state.phase = "preparing" /\ Commit(Activated(state), isOk)
    <3>1. /\ Activated(state) \in State /\ Activated(state).id = state.id
          /\ Activated(state).phase \in {"draining", "warning"}
      BY IdFacts DEF Activated, TypeOK, State, Phases
    <3> QED BY <2>1, <3>1, CommitKept DEF MayBecome
  <2>2. CASE UNCHANGED control
    BY <2>2, StillKept DEF control
  <2> QED BY <2>1, <2>2 DEF Activate
<1>3. PICK p : Bare(p) /\ proc' = [proc EXCEPT ![c] = p]
  BY BareFacts, GiveUpBare DEF Activate, Finish, Become
<1> QED BY <1>1, <1>2, <1>3, BareStep DEF Bare

\* The current operation is known, with whatever fits it.
LEMMA CurrentKnown == ASSUME NEW o, state.id = o PROVE Known(o)
  BY DEF Known, Unused

LEMMA AbortJournal ==
    ASSUME JInv, HInv', NEW c \in Writers, NEW isOk \in BOOLEAN, Abort(c, isOk) PROVE JInv'
<1> DEFINE s == [state EXCEPT !.phase = "cancelled"]
           x == "acceptance_not_flushed"
           p == Completing(proc[c], <<Row(proc[c].id, x)>>)
<1>1. UNCHANGED <<stopFor, request, result, journal, completions, begun>> /\ BootStep
  BY SameBoot DEF Abort, audit, lifecycle, boot
<1>2. s \in State /\ s.id = state.id /\ s.phase = "cancelled" /\ proc[c] \in Process
  BY IdFacts DEF TypeOK, State, Phases
<1>3. \/ proc' = [proc EXCEPT ![c] = Idle] /\ (UNCHANGED control \/ Commit(s, isOk))
      \/ proc' = [proc EXCEPT ![c] = p] /\ isOk /\ Commit(s, isOk) /\ state.id = proc[c].id
  BY DEF Abort, Keep, Finish, Become
<1>4. p.pc = "complete" /\ p.todo = <<Row(proc[c].id, x)>>
  BY <1>2 DEF Completing, Process
<1> HIDE DEF s, p
<1>5. Kept
  BY <1>2, <1>3, CommitKept, StillKept DEF MayBecome, control
<1>6. CASE proc' = [proc EXCEPT ![c] = Idle]
  BY <1>1, <1>5, <1>6, BareFacts, BareStep DEF Bare
<1>7. CASE proc' = [proc EXCEPT ![c] = p] /\ isOk /\ Commit(s, isOk) /\ state.id = proc[c].id
  <2>1. RowsOf(p.todo) = {Row(proc[c].id, x)} /\ Known(proc[c].id)
    BY <1>4, <1>7, RowFacts, CurrentKnown
  <2>2. state' = s /\ disk' = s /\ Restored(s) = s
    BY <1>2, <1>7, RestoredFacts DEF Commit
  <2>3. \A o : Fits(o, x)'
    BY <1>2, <2>2 DEF Fits, Agrees, Restored
  <2>4. \A r \in RowsOf(p.todo) : Known(r.id) /\ Fits(r.id, r.outcome)'
    BY <2>1, <2>3, RowFacts
  <2> QED BY <1>1, <1>4, <1>5, <1>7, <2>4, TodoStep
<1> QED BY <1>3, <1>6, <1>7

LEMMA CancelCommitJournal ==
    ASSUME JInv, HInv', NEW c \in Writers, NEW isOk \in BOOLEAN, CancelCommit(c, isOk) PROVE JInv'
<1> DEFINE s == [state EXCEPT !.phase = "cancelled"]
           own == Head(proc[c].todo).id
           outcome == IF proc[c].was = "held" THEN "held" ELSE "cancelled"
           todo == IF isOk THEN <<Row(own, "cancelled"), Row(proc[c].id, outcome)>>
                           ELSE <<Row(own, "cancel_failed")>>
           p == Completing(proc[c], todo)
<1>1. UNCHANGED <<stopFor, request, result, journal, completions, begun>> /\ BootStep
  BY SameBoot DEF CancelCommit, audit, lifecycle, boot
<1>2. /\ s \in State /\ s.id = state.id /\ s.phase = "cancelled" /\ proc[c] \in Process
      /\ proc[c].pc = "cancel"
  BY IdFacts DEF TypeOK, State, Phases, CancelCommit
<1>3. proc' = [proc EXCEPT ![c] = p] /\ p.pc = "complete" /\ p.todo = todo
  BY <1>2 DEF CancelCommit, Become, Completing, Process
<1>4. /\ isOk => state' = s /\ disk' = s /\ state.id = proc[c].id
      /\ UNCHANGED control \/ Commit(s, isOk)
  BY DEF CancelCommit, CanCancel, Commit
<1>5. own \in Operations /\ Unused(own) /\ Head(proc[c].todo) \in RowsOf(proc[c].todo)
  BY <1>2, IdFacts DEF JInv, RowInv
<1> HIDE DEF s, p
<1>6. Kept
  BY <1>2, <1>4, CommitKept, StillKept DEF MayBecome, control
<1>7. ASSUME NEW r \in RowsOf(p.todo), r.id = own
      PROVE  (\E t \in RowsOf(proc[c].todo) : t.id = r.id) /\ Fits(r.id, r.outcome)'
  <2>1. Unused(r.id)'
    BY <1>1, <1>5, <1>6, <1>7, UnusedKept DEF Kept
  <2> QED BY <1>5, <1>7, <2>1 DEF Fits, Unused
<1>8. ASSUME NEW r \in RowsOf(p.todo), r.id = proc[c].id, r.outcome \in {"held", "cancelled"}, isOk
      PROVE  Known(r.id) /\ Fits(r.id, r.outcome)'
  <2>1. state' = s /\ disk' = s /\ Known(r.id)
    BY <1>4, <1>8, CurrentKnown
  <2> QED BY <1>2, <1>8, <2>1 DEF Fits, Agrees, Restored
<1>9. \A r \in RowsOf(p.todo) : r.id = own \/ (isOk /\ r.id = proc[c].id /\ r.outcome \in {"held", "cancelled"})
  BY <1>3, RowFacts
<1>10. ProcStep
  <2>1. proc'[c] = p /\ \A d \in Writers \ {c} : proc'[d] = proc[d]
    BY <1>3, IdFacts DEF TypeOK
  <2>2. ASSUME NEW o \in Operations, Names(c, o)' PROVE Names(c, o) \/ Known(o)
    BY <1>7, <1>8, <1>9, <2>1, <2>2 DEF Names
  <2> QED BY <1>3, <2>1, <2>2 DEF ProcStep, Names
<1>11. ASSUME NEW o \in Operations, NEW x \in Outcomes, Claimed(o, x)' PROVE Claimed(o, x) \/ Fits(o, x)'
  <2>1. proc'[c] = p /\ \A d \in Writers \ {c} : proc'[d] = proc[d]
    BY <1>3, IdFacts DEF TypeOK
  <2>2. Row(o, x) \in RowsOf(p.todo) => Fits(o, x)'
    BY <1>7, <1>8, <1>9, RowFacts
  <2> QED BY <1>1, <1>3, <1>11, <2>1, <2>2 DEF Claimed, Claims
<1> QED BY <1>1, <1>6, <1>10, <1>11, StepInv

\* The rows that a writer carries are its own or known.
LEMMA CompleteLookJournal ==
    ASSUME JInv, HInv', NEW c \in Writers, CompleteLook(c) PROVE JInv'
<1> DEFINE todo == proc[c].todo
           row  == Head(todo)
           x == IF completions[row.id] = None THEN todo[1].outcome ELSE completions[row.id]
           p == [proc[c] EXCEPT !.pc = "write", !.todo[1].outcome = x]
<1>1. /\ UNCHANGED <<state, disk, stopFor, request, result, journal, completions, begun>>
      /\ proc[c].pc = "complete" /\ proc' = [proc EXCEPT ![c] = p]
  BY DEF CompleteLook, Become, control, audit, lifecycle, boot
<1>2. /\ proc[c] \in Process /\ todo \in Seq(Completion) /\ todo # << >> /\ row = todo[1] /\ 1 \in 1 .. Len(todo)
      /\ row \in Completion
  BY <1>1, HeadFacts, IdFacts
<1>3. Kept /\ BootStep
  BY <1>1, StillKept, SameBoot
<1>4. p.pc = "write" /\ p.todo = [todo EXCEPT ![1].outcome = x]
  BY <1>2 DEF Process
<1>5. ASSUME NEW r \in RowsOf(p.todo)
      PROVE  r \in RowsOf(todo) \/ (r.id = row.id /\ r.outcome = x)
  <2>1. PICK i \in DOMAIN todo : r = [todo EXCEPT ![1].outcome = x][i]
    BY <1>4, <1>5 DEF RowsOf
  <2>2. CASE i = 1
    <3>1. r = [row EXCEPT !.outcome = x]
      BY <1>2, <2>1, <2>2
    <3> QED BY <1>2, <3>1 DEF Completion
  <2>3. CASE i # 1
    BY <2>1, <2>3 DEF RowsOf
  <2> QED BY <2>2, <2>3
<1>6. row \in RowsOf(todo)
  BY <1>2 DEF RowsOf
<1>7. \A r \in RowsOf(todo) : r \in Completion
  BY <1>2 DEF RowsOf
<1>8. \A r \in RowsOf(todo) : Claimed(r.id, r.outcome)
  <2>1. \A r \in RowsOf(todo) : Row(r.id, r.outcome) = r
    BY <1>7 DEF Row, Completion
  <2> QED BY <1>1, <2>1 DEF Claimed, Claims
<1>9. Claimed(row.id, x)
  <2>1. CASE completions[row.id] = None
    BY <1>2, <1>6, <1>8, <2>1
  <2>2. CASE completions[row.id] # None
    BY <2>2 DEF Claimed
  <2> QED BY <2>1, <2>2
<1>10. Known(row.id)
  BY <1>1, <1>6 DEF Known, Names
<1> HIDE DEF p, x, row
<1>11. \A r \in RowsOf(p.todo) : r \in RowsOf(todo) \/ Known(r.id)
  BY <1>5, <1>10
<1>12. \A r \in RowsOf(p.todo) : Claimed(r.id, r.outcome)
  BY <1>5, <1>8, <1>9
<1> QED BY <1>1, <1>3, <1>4, <1>11, <1>12, TodoStep

LEMMA RetryCompletionJournal ==
    ASSUME JInv, HInv', NEW o \in Operations, RetryCompletion(o) PROVE JInv'
<1> DEFINE p == Completing([Idle EXCEPT !.intent = "retry"], <<Row(o, completions[o])>>)
<1>1. /\ UNCHANGED <<state, disk, stopFor, request, result, journal, completions, begun>>
      /\ proc' = [proc EXCEPT ![Reconciler] = p] /\ completions[o] # None /\ Reconciler \in Writers
  BY DEF RetryCompletion, Become, control, audit, lifecycle, boot, Writers
<1>2. Kept /\ BootStep
  BY <1>1, StillKept, SameBoot
<1>3. p.pc = "complete" /\ p.todo = <<Row(o, completions[o])>>
  BY DEF Completing, Idle
<1> HIDE DEF p
<1>4. \A r \in RowsOf(p.todo) : Known(r.id) /\ Claimed(r.id, r.outcome)
  BY <1>1, <1>3, RowFacts DEF Known, Claimed
<1> QED BY <1>1, <1>2, <1>3, <1>4, TodoStep

\* What the reconciler reports of the state, the file says, too.
LEMMA ReconcileLookJournal == ASSUME JInv, HInv', ReconcileLook PROVE JInv'
<1>1. /\ UNCHANGED <<state, disk, stopFor, request, result, journal, completions, begun>>
      /\ Reconciler \in Writers
  BY DEF ReconcileLook, control, audit, lifecycle, boot, Writers
<1>2. Kept /\ BootStep
  BY <1>1, StillKept, SameBoot
<1>3. CASE Wait(Reconciler, "resolve", "none", state.id)
  <2>1. PICK p : Bare(p) /\ proc' = [proc EXCEPT ![Reconciler] = p]
    BY <1>3, WaitBare
  <2> QED BY <1>1, <1>2, <2>1, BareStep DEF Bare
<1>4. CASE /\ OutcomeOf(state.phase) # None
           /\ Become(Reconciler, Reporting(state.id, state.phase, OutcomeOf(state.phase)))
  <2> DEFINE x == OutcomeOf(state.phase)
             p == Reporting(state.id, state.phase, x)
  <2>1. proc' = [proc EXCEPT ![Reconciler] = p] /\ p.pc = "complete" /\ p.todo = <<Row(state.id, x)>>
    BY <1>4 DEF Become, Reporting, Completing, Idle
  <2>2. /\ state.phase \in {"held", "cancelled", "failed"}
        /\ x = IF state.phase = "held" THEN "held"
               ELSE IF state.phase = "cancelled" THEN "cancelled" ELSE "maintenance_failed"
    BY <1>4 DEF OutcomeOf
  <2> HIDE DEF p, x
  <2>3. Agrees(x, state.phase) /\ (disk.id = state.id => Agrees(x, Restored(disk).phase))
    <3>1. Restored(disk) = disk \/ Restored(disk).phase = "cancelled"
      BY IdFacts, RestoredFacts DEF TypeOK
    <3> QED BY <2>2, <3>1 DEF Agrees, JInv, FollowInv
  <2>4. ASSUME NEW o, NEW y, o = state.id, y = x PROVE Fits(o, y)'
    BY <1>1, <2>3, <2>4 DEF Fits, Restored
  <2>5. \A r \in RowsOf(p.todo) : Known(r.id) /\ r.id = state.id /\ r.outcome = x
    BY <2>1, RowFacts, CurrentKnown
  <2>6. \A r \in RowsOf(p.todo) : Fits(r.id, r.outcome)'
    BY <2>4, <2>5
  <2> QED BY <1>1, <1>2, <2>1, <2>5, <2>6, TodoStep
<1> QED BY <1>3, <1>4 DEF ReconcileLook

\* The supervisor's final outcome.
LEMMA ResultFits ==
    ASSUME NEW r \in Result, IsFinal(r), NEW p \in SettledPhases
    PROVE  ResultOutcome(r) \in Outcomes /\ Agrees(ResultOutcome(r), p)
<1>1. ResultOutcome(r) \in {"healthy", "rolled_back", "update_failed", "failed"}
  BY DEF ResultOutcome, Result, IsFinal
<1> QED BY <1>1 DEF Outcomes, Agrees, SettledPhases

LEMMA SettledFits ==
    ASSUME JInv, NEW r \in Result, IsFinal(r), Settled(r.id)
    PROVE  Fits(r.id, ResultOutcome(r))
<1>1. disk.phase \in SettledPhases => Restored(disk) = disk
  BY DEF SettledPhases, Restored
<1> QED BY <1>1, ResultFits DEF Fits, Settled

LEMMA ReconcileResolveJournal ==
    ASSUME JInv, HInv', NEW isOk \in BOOLEAN, ReconcileResolve(isOk) PROVE JInv'
<1> DEFINE id == proc[Reconciler].id
           s  == Resolved(state, result.phase)
           x  == ResultOutcome(result)
           p  == Reporting(id, s.phase, x)
<1>1. UNCHANGED <<stopFor, request, result, journal, completions, begun>> /\ BootStep /\ Reconciler \in Writers
  BY SameBoot DEF ReconcileResolve, audit, lifecycle, boot, Writers
<1>2. /\ s \in State /\ s.id = state.id /\ s.phase \in {"failed", "completed"}
  BY IdFacts DEF TypeOK, State, Phases, Resolved
<1>3. result \in Result /\ result.id = id /\ IsFinal(result) /\ id \in Operations
  <2>1. Matches(result, id) /\ IsFinal(result)
    BY <1>1, IdFacts DEF ReconcileResolve, HasGate, IInv, CarryInv
  <2> QED BY <2>1, IdFacts DEF Matches, TypeOK
<1>4. \/ proc' = [proc EXCEPT ![Reconciler] = Idle] /\ ~isOk
      \/ proc' = [proc EXCEPT ![Reconciler] = p] /\ isOk /\ state.id = id
  BY DEF ReconcileResolve, Finish, Become
<1>5. \/ Commit(s, isOk) /\ state.phase \in {"stopping", "failed"}
      \/ UNCHANGED control
  BY DEF ReconcileResolve
<1>6. p.pc = "complete" /\ p.todo = <<Row(id, x)>>
  BY DEF Reporting, Completing, Idle
<1> HIDE DEF s, p
<1>7. Kept
  BY <1>2, <1>5, CommitKept, StillKept DEF MayBecome, control
<1>8. CASE proc' = [proc EXCEPT ![Reconciler] = Idle]
  BY <1>1, <1>7, <1>8, BareFacts, BareStep DEF Bare
<1>9. CASE proc' = [proc EXCEPT ![Reconciler] = p] /\ isOk /\ state.id = id
  <2>1. PICK o \in Operations : o = id
    BY <1>3
  <2>2. \A r \in RowsOf(p.todo) : r.id = o /\ r.outcome = x /\ Known(r.id)
    BY <1>6, <1>9, <2>1, RowFacts, CurrentKnown
  <2>3. Settled(o)'
    BY <1>3, <1>7, <2>1, WritersAssumption DEF JInv, SettledInv, Kept
  <2>4. PICK y \in Outcomes : y = x /\ \A q \in SettledPhases : Agrees(y, q)
    BY <1>3, ResultFits DEF SettledPhases
  <2>5. Fits(o, y)'
    BY <2>3, <2>4 DEF Settled, Fits, Restored, SettledPhases
  <2>6. \A r \in RowsOf(p.todo) : Fits(r.id, r.outcome)'
    BY <2>2, <2>4, <2>5
  <2> QED BY <1>1, <1>6, <1>7, <1>9, <2>2, <2>6, TodoStep
<1> QED BY <1>4, <1>8, <1>9

-----------------------------------------------------------------------------
(* The schedule. *)

LEMMA AdvanceLookJournal == ASSUME JInv, HInv', AdvanceLook PROVE JInv'
<1>1. /\ UNCHANGED <<stopFor, request, result, journal, completions, begun>> /\ BootStep
      /\ state' = state /\ disk' \in {disk, state} /\ Runner \in Writers
  BY SameBoot DEF AdvanceLook, audit, lifecycle, boot, Writers
<1>2. Moves
  BY <1>1, IdFacts DEF Moves, MayBecome, TypeOK
<1>3. PICK p : Bare(p) /\ proc' = [proc EXCEPT ![Runner] = p]
  BY BareFacts DEF AdvanceLook, Become
<1> QED BY <1>1, <1>2, <1>3, MovesKept, BareStep DEF Bare

LEMMA AdvanceJournal ==
    ASSUME JInv, HInv', NEW isOk \in BOOLEAN, AdvanceDecide(isOk) \/ DrainEnd(isOk) PROVE JInv'
<1>1. UNCHANGED <<stopFor, request, result, journal, completions, begun>> /\ BootStep /\ Runner \in Writers
  BY SameBoot DEF AdvanceDecide, DrainEnd, audit, lifecycle, boot, Writers
<1>2. /\ Draining \in State /\ Draining.id = state.id /\ Draining.phase = state.phase
      /\ Ended(state) \in State /\ Ended(state).id = state.id /\ Ended(state).phase \in {"held", "stopping"}
  BY IdFacts DEF Draining, Ended, TypeOK, State, Phases
<1>3. \/ UNCHANGED control \/ Commit(Draining, isOk)
      \/ Commit(Ended(state), isOk) /\ state.phase \in {"warning", "draining"}
  <2>1. CASE AdvanceDecide(isOk)
    BY <2>1, IdFacts DEF AdvanceDecide, IInv, GateInv
  <2>2. CASE DrainEnd(isOk)
    BY <2>2 DEF DrainEnd, JInv, HInv, PromiseInv
  <2> QED BY <2>1, <2>2
<1>4. Kept
  BY <1>2, <1>3, CommitKept, StillKept DEF MayBecome, control
<1>5. PICK p : Bare(p) /\ proc' = [proc EXCEPT ![Runner] = p]
  BY BareFacts DEF AdvanceDecide, DrainEnd, Become
<1> QED BY <1>1, <1>4, <1>5, BareStep DEF Bare

LEMMA RunnerStopJournal == ASSUME JInv, HInv', RunnerStop PROVE JInv'
<1>1. /\ UNCHANGED <<state, disk, request, result, journal, completions, begun>>
      /\ stopFor' \in {stopFor, state.id} /\ Runner \in Writers
  BY DEF RunnerStop, control, audit, boot, Writers
<1>2. Kept /\ BootStep
  BY <1>1, StillKept DEF BootStep
<1>3. PICK p : Bare(p) /\ proc' = [proc EXCEPT ![Runner] = p]
  BY BareFacts DEF RunnerStop, Become
<1> QED BY <1>1, <1>2, <1>3, BareStep DEF Bare

-----------------------------------------------------------------------------
(* The journal. *)

LEMMA RowsOfTail ==
    ASSUME NEW todo \in Seq(Completion), todo # << >> PROVE RowsOf(Tail(todo)) \subseteq RowsOf(todo)
<1>1. Len(todo) \in Nat /\ DOMAIN todo = 1 .. Len(todo) /\ Len(todo) > 0
  BY EmptySeq, LenProperties
<1>2. Len(Tail(todo)) = Len(todo) - 1 /\ \A i \in 1 .. Len(todo) - 1 : Tail(todo)[i] = todo[i + 1]
  BY HeadTailProperties, <1>1
<1>3. DOMAIN Tail(todo) = 1 .. Len(todo) - 1
  BY <1>2, HeadTailProperties, LenProperties
<1>4. ASSUME NEW i \in DOMAIN Tail(todo) PROVE Tail(todo)[i] \in RowsOf(todo)
  <2>1. i \in 1 .. Len(todo) - 1 /\ i + 1 \in 1 .. Len(todo)
    BY <1>1, <1>3, <1>4
  <2> QED BY <1>1, <1>2, <2>1 DEF RowsOf
<1> QED BY <1>4 DEF RowsOf

LEMMA CompleteWriteJournal ==
    ASSUME JInv, HInv', NEW c \in Writers, NEW isOk \in BOOLEAN, CompleteWrite(c, isOk) PROVE JInv'
<1> DEFINE todo == proc[c].todo
           row  == Head(todo)
<1>1. /\ UNCHANGED <<state, disk, stopFor, request, result, begun>> /\ proc[c].pc = "write"
      /\ Kept /\ BootStep
  BY StillKept, SameBoot DEF CompleteWrite, control, lifecycle, boot
<1>2. /\ todo \in Seq(Completion) /\ todo # << >> /\ row \in Completion /\ row = todo[1] /\ 1 \in 1 .. Len(todo)
      /\ proc[c] \in Process /\ journal \in [Operations -> Outcomes \cup {"none", "accepted"}]
      /\ completions \in [Operations -> Outcomes \cup {None}] /\ row.id \in Operations
  BY <1>1, HeadFacts, IdFacts DEF TypeOK
<1>3. row \in RowsOf(todo) /\ Row(row.id, row.outcome) = row
  BY <1>2 DEF RowsOf, Row, Completion
<1>4. PICK p : /\ proc' = [proc EXCEPT ![c] = p] /\ p.pc \in {"complete", "idle"}
               /\ RowsOf(p.todo) \subseteq RowsOf(todo)
  <2>1. CASE proc' = [proc EXCEPT ![c] = Completing(proc[c], Tail(todo))]
    <3>1. Completing(proc[c], Tail(todo)).pc = "complete" /\ Completing(proc[c], Tail(todo)).todo = Tail(todo)
      BY <1>2 DEF Completing, Process
    <3> QED BY <1>2, <2>1, <3>1, RowsOfTail
  <2>2. CASE proc' = [proc EXCEPT ![c] = Idle]
    <3>1. Idle.pc = "idle" /\ RowsOf(Idle.todo) = {}
      BY RowFacts DEF Idle
    <3> QED BY <2>2, <3>1
  <2> QED BY <2>1, <2>2 DEF CompleteWrite, Become, Finish
<1>5. \A o \in Operations : journal'[o] = journal[o] \/ (o = row.id /\ journal'[o] = row.outcome)
  <2>1. journal' \in {journal, Journalled(row.id, row.outcome)}
    BY DEF CompleteWrite
  <2> QED BY <1>2, <2>1 DEF Journalled
<1>6. \A o \in Operations : completions'[o] = completions[o] \/ (o = row.id /\ completions'[o] \in {row.outcome, None})
  BY <1>2 DEF CompleteWrite
<1>7. proc'[c] = p /\ \A d \in Writers \ {c} : proc'[d] = proc[d]
  BY <1>4, IdFacts DEF TypeOK
<1>8. Known(row.id) /\ Claimed(row.id, row.outcome)
  BY <1>1, <1>3 DEF Known, Names, Claimed, Claims
<1>9. ProcStep
  BY <1>4, <1>7 DEF ProcStep, Names
<1> HIDE DEF row
<1>10. ASSUME NEW o \in Operations, NEW x \in Outcomes, Claimed(o, x)' PROVE Claimed(o, x)
  <2>1. CASE journal'[o] = x \/ completions'[o] = x
    BY <1>5, <1>6, <1>8, <2>1, WritersAssumption DEF Claimed
  <2>2. ASSUME NEW d \in Writers, Row(o, x) \in Claims(proc'[d]) PROVE Claimed(o, x)
    <3>1. Row(o, x) \in Claims(proc[d])
      BY <1>1, <1>4, <1>7, <2>2 DEF Claims
    <3> QED BY <3>1 DEF Claimed
  <2> QED BY <1>10, <2>1, <2>2 DEF Claimed, Claims
<1> QED BY <1>1, <1>5, <1>6, <1>8, <1>9, <1>10, StepInv

\* The supervisor journals a final result: it is settled.
LEMMA AuditedJournal ==
    ASSUME JInv, NEW r \in Result, IsFinal(r), Audited(r), Settled(r.id), Settled(r.id)'
    PROVE  /\ \A o \in Operations : journal'[o] = journal[o] \/ o = r.id
           /\ \A o \in Operations : \A x \in Outcomes :
                 journal'[o] = x => journal[o] = x \/ Fits(o, x)'
<1>1. journal \in [Operations -> Outcomes \cup {"none", "accepted"}] /\ r.id \in Operations
  BY IdFacts DEF TypeOK, Result
<1>2. journal' \in {journal, Journalled(r.id, ResultOutcome(r))}
  BY DEF Audited
<1>3. \A o \in Operations : journal'[o] = journal[o] \/ (o = r.id /\ journal'[o] = ResultOutcome(r))
  BY <1>1, <1>2 DEF Journalled
<1>4. ASSUME NEW x, x = ResultOutcome(r) PROVE Fits(r.id, x)'
  <2>1. \A q \in SettledPhases : Agrees(x, q)
    BY <1>4, ResultFits
  <2> QED BY <2>1 DEF Settled, Fits, Restored, SettledPhases
<1> QED BY <1>3, <1>4

-----------------------------------------------------------------------------
(* The end of the process, and the supervisor. *)

\* What the supervisor journals beside a step that the state survives.
LEMMA SupervisedStep ==
    ASSUME JInv, HInv', Kept, BootStep, ProcStep, begun' = begun,
           \A o \in Operations : completions'[o] \in {completions[o], None},
           \A d \in Writers : Claims(proc'[d]) \subseteq Claims(proc[d]),
           journal' = journal \/ \E r \in Result : /\ IsFinal(r) /\ Audited(r)
                                                   /\ \/ result # None /\ r.id = result.id
                                                      \/ request # 0 /\ r.id = request
    PROVE  JInv'
<1>1. CASE journal' = journal
  <2>1. \A o \in Operations : (journal'[o] = journal[o] /\ completions'[o] = completions[o]) \/ Known(o)
    BY <1>1 DEF Known
  <2>2. \A o \in Operations : \A x \in Outcomes : Claimed(o, x)' => Claimed(o, x)
    BY <1>1, WritersAssumption DEF Claimed, Claims
  <2> QED BY <2>1, <2>2, StepInv
<1>2. ASSUME NEW r \in Result, IsFinal(r), Audited(r),
             (result # None /\ r.id = result.id) \/ (request # 0 /\ r.id = request)
      PROVE  JInv'
  <2>1. Settled(r.id) /\ r.id \in Operations
    BY <1>2 DEF JInv, SettledInv, Result
  <2>2. Settled(r.id)' /\ Known(r.id)
    BY <1>2, <2>1 DEF Kept, Known, Unused
  <2>3. /\ \A o \in Operations : journal'[o] = journal[o] \/ o = r.id
        /\ \A o \in Operations : \A x \in Outcomes :
              journal'[o] = x => journal[o] = x \/ Fits(o, x)'
    BY <1>2, <2>1, <2>2, AuditedJournal
  <2>4. \A o \in Operations : (journal'[o] = journal[o] /\ completions'[o] = completions[o]) \/ Known(o)
    BY <2>2, <2>3 DEF Known
  <2>5. ASSUME NEW o \in Operations, NEW x \in Outcomes, Claimed(o, x)' PROVE Claimed(o, x) \/ Fits(o, x)'
    <3>1. CASE journal'[o] = x
      BY <2>3, <3>1 DEF Claimed
    <3>2. CASE completions'[o] = x
      BY <3>2, WritersAssumption DEF Claimed
    <3>3. CASE \E d \in Writers : Row(o, x) \in Claims(proc'[d])
      BY <3>3 DEF Claimed
    <3> QED BY <2>5, <3>1, <3>2, <3>3 DEF Claimed, Claims
  <2> QED BY <2>4, <2>5, StepInv
<1> QED BY <1>1, <1>2

LEMMA ChildEndedJournal ==
    ASSUME JInv, NEW isGone \in BOOLEAN, ChildEnded(isGone)
    PROVE  /\ result' # None => result # None /\ result'.id = result.id
           /\ journal' = journal \/ \E r \in Result : /\ IsFinal(r) /\ Audited(r)
                                                      /\ result # None /\ r.id = result.id
<1>1. result # None => result \in Result
  BY IdFacts DEF TypeOK
<1>2. CASE result # None /\ IsFinal(result) /\ UNCHANGED result /\ Audited(result)
  BY <1>1, <1>2
<1>3. CASE IsPending(result) /\ result' = Failed(result) /\ Audited(Failed(result))
  BY <1>1, <1>3, FailedType DEF IsPending
<1>4. CASE UNCHANGED <<result, journal, released>>
  BY <1>4
<1> QED BY <1>2, <1>3, <1>4 DEF ChildEnded

LEMMA ExitJournal ==
    ASSUME JInv, HInv', NEW canConsume, Exit(canConsume), NEW isGone \in BOOLEAN, ChildEnded(isGone),
           begun' = begun, request' \in {request, stopFor},
           \/ disk' = disk
           \/ disk' = [state EXCEPT !.phase = "failed"] /\ state.phase = "stopping"
    PROVE  JInv'
<1> DEFINE f == [state EXCEPT !.phase = "failed"]
<1>1. /\ state' = NoState /\ NoState.id = 0 /\ NoState.phase = "none" /\ stopFor' = 0
      /\ \A d \in Writers : proc'[d] = Idle
  BY DEF Exit, NoState
<1>2. f \in State /\ f.id = state.id /\ f.phase = "failed" /\ Restored(f) = f
  BY IdFacts DEF TypeOK, State, Phases, Restored
<1> HIDE DEF f
<1>3. Kept
  <2>1. FollowInv'
    BY <1>1 DEF FollowInv
  <2>2. 0 \notin Operations
    BY IdFacts
  <2>3. ASSUME NEW o \in Operations, Settled(o) PROVE Settled(o)'
    BY <1>1, <1>2, <2>2, <2>3 DEF Settled, SettledPhases, f
  <2>4. ASSUME NEW o \in Operations, NEW x \in Outcomes, Fits(o, x) PROVE Fits(o, x)'
    <3>1. CASE disk' = disk
      BY <1>1, <2>2, <2>4, <3>1 DEF Fits
    <3>2. CASE disk' = f /\ state.phase = "stopping"
      <4>1. state.id = o => Agrees(x, f.phase)
        BY <1>2, <2>4, <3>2, AgreesOn DEF Fits, MayBecome
      <4> QED BY <1>1, <1>2, <2>2, <3>2, <4>1 DEF Fits
    <3> QED BY <3>1, <3>2 DEF f
  <2> QED BY <1>1, <1>2, <2>1, <2>3, <2>4 DEF Kept, f
<1>4. BootStep
  BY <1>1, ChildEndedJournal DEF BootStep
<1>5. Idle.pc = "idle" /\ RowsOf(Idle.todo) = {}
  BY RowFacts DEF Idle
<1>6. ProcStep /\ \A d \in Writers : Claims(proc'[d]) \subseteq Claims(proc[d])
  BY <1>1, <1>5 DEF ProcStep, Names, Claims
<1>7. \A o \in Operations : completions'[o] \in {completions[o], None}
  BY DEF Exit
<1>8. journal' = journal \/ \E r \in Result : /\ IsFinal(r) /\ Audited(r)
                                             /\ result # None /\ r.id = result.id
  BY ChildEndedJournal
<1> QED BY <1>3, <1>4, <1>6, <1>7, <1>8, SupervisedStep

LEMMA EndJournal ==
    ASSUME JInv, HInv',
           \/ \E isLost \in BOOLEAN : Crash(isLost)
           \/ \E isClean, isGone \in BOOLEAN : Shutdown(isClean, isGone)
    PROVE  JInv'
<1>1. ASSUME NEW isLost \in BOOLEAN, Crash(isLost) PROVE JInv'
  <2>1. Exit(isLost) /\ ChildEnded(isLost) /\ UNCHANGED <<disk, begun, request>>
    BY <1>1 DEF Crash
  <2> QED BY <2>1, ExitJournal
<1>2. ASSUME NEW isClean \in BOOLEAN, NEW isGone \in BOOLEAN, Shutdown(isClean, isGone) PROVE JInv'
  <2>1. Exit(isGone \/ (isClean /\ isHealthy)) /\ ChildEnded(isGone) /\ begun' = begun
    BY <1>2 DEF Shutdown
  <2>2. \/ disk' = disk
        \/ disk' = [state EXCEPT !.phase = "failed"] /\ stopFor # 0
    BY <1>2 DEF Shutdown
  <2>3. request' \in {request, stopFor}
    BY <1>2 DEF Shutdown
  <2>4. stopFor # 0 => state.phase = "stopping"
    BY DEF JInv, HInv, StopInv
  <2> QED BY <2>1, <2>2, <2>3, <2>4, ExitJournal
<1> QED BY <1>1, <1>2

LEMMA BesideJournal ==
    ASSUME JInv, HInv',
           \/ StartupTimeout \/ BecomeHealthy \/ Rollback
           \/ \E isOk \in BOOLEAN : ConsumeRequest(isOk)
    PROVE  JInv'
<1>1. UNCHANGED <<state, disk, proc, begun, completions, stopFor>>
  BY DEF StartupTimeout, BecomeHealthy, Rollback, ConsumeRequest, control, lifecycle, audit
<1>2. Kept /\ ProcStep /\ \A d \in Writers : Claims(proc'[d]) \subseteq Claims(proc[d])
  BY <1>1, StillKept DEF ProcStep, Names
<1>3. CASE StartupTimeout
  <2>1. result \in Result /\ result # None /\ result' = Failed(result) /\ Audited(Failed(result)) /\ request' = request
    BY <1>3, IdFacts DEF StartupTimeout, IsPending, TypeOK
  <2>2. Failed(result) \in Result /\ IsFinal(Failed(result)) /\ Failed(result).id = result.id
    BY <2>1, FailedType
  <2>3. BootStep
    BY <1>1, <2>1, <2>2 DEF BootStep
  <2> QED BY <1>1, <1>2, <2>1, <2>2, <2>3, SupervisedStep
<1>4. CASE Rollback
  <2>1. result \in Result /\ result # None /\ result'.id = result.id /\ request' = request /\ journal' = journal
    BY <1>4, IdFacts DEF Rollback, IsPending, TypeOK, Result, audit
  <2>2. BootStep
    BY <1>1, <2>1 DEF BootStep
  <2> QED BY <1>1, <1>2, <2>1, <2>2, SupervisedStep
<1>5. CASE BecomeHealthy
  <2> DEFINE r == [result EXCEPT !.phase = IF @ = "rolled_back" THEN @ ELSE "healthy"]
             final == IF result.code = "rolled_back" THEN [r EXCEPT !.phase = "rolled_back"] ELSE r
  <2>1. CASE IsPending(result)
    <3>1. result \in Result /\ result # None /\ result' = final /\ Audited(final) /\ request' = request
      BY <1>5, <2>1, IdFacts DEF BecomeHealthy, IsPending, TypeOK
    <3>2. final \in Result /\ IsFinal(final) /\ final.id = result.id
      BY <3>1 DEF Result, IsFinal
    <3> HIDE DEF final
    <3>3. BootStep
      BY <1>1, <3>1, <3>2 DEF BootStep
    <3> QED BY <1>1, <1>2, <3>1, <3>2, <3>3, SupervisedStep
  <2>2. CASE ~IsPending(result)
    <3>1. UNCHANGED <<result, journal, request>> /\ BootStep
      BY <1>1, <1>5, <2>2 DEF BecomeHealthy, BootStep
    <3> QED BY <1>1, <1>2, <3>1, SupervisedStep
  <2> QED BY <2>1, <2>2
<1>6. ASSUME NEW isOk \in BOOLEAN, ConsumeRequest(isOk) PROVE JInv'
  <2> DEFINE r == [id |-> request, phase |-> IF isOk THEN "starting" ELSE "failed",
                   code |-> IF isOk THEN "none" ELSE "failed"]
  <2>1. /\ request # 0 /\ result' = r /\ request' \in {0, request}
        /\ IF isOk THEN journal' = journal ELSE Audited(r)
    BY <1>6 DEF ConsumeRequest
  <2>2. r \in Result /\ r.id = request /\ (~isOk => IsFinal(r))
    BY <2>1, IdFacts DEF Result, IsFinal
  <2> HIDE DEF r
  <2>3. BootStep
    BY <1>1, <2>1, <2>2 DEF BootStep
  <2> QED BY <1>1, <1>2, <2>1, <2>2, <2>3, SupervisedStep
<1> QED BY <1>3, <1>4, <1>5, <1>6

\* What a restart restores is what the outcomes had to fit.
LEMMA StartJournal == ASSUME JInv, HInv', Start PROVE JInv'
<1> DEFINE s == Restored(disk)
           f == [s EXCEPT !.phase = "failed"]
<1>1. /\ s \in State /\ s.id = disk.id /\ s.phase # "preparing"
      /\ s = disk \/ s.phase = "cancelled"
  BY IdFacts, RestoredFacts DEF TypeOK, Restored
<1>2. f \in State /\ f.id = s.id /\ f.phase = "failed" /\ Restored(f) = f /\ Restored(s) = s
  BY <1>1 DEF State, Phases, Restored
<1>3. /\ disk' = state' /\ (state' = s \/ (s.phase = "stopping" /\ state' = f))
      /\ UNCHANGED <<proc, journal, begun, completions, stopFor>>
  BY DEF Start, audit
<1>4. /\ request' \in {0, request}
      /\ result' # None => result # None /\ result'.id = result.id
  BY IdFacts DEF Start, IsPending, TypeOK, Result
<1> HIDE DEF f
<1>5. Kept
  <2>1. disk' = state'
    BY DEF Start
  <2>2. state' = s \/ (s.phase = "stopping" /\ state' = f)
    BY <1>3
  <2>3. FollowInv'
    BY <2>1 DEF FollowInv
  <2>4. ASSUME NEW o \in Operations, Settled(o) PROVE Settled(o)'
    BY <1>1, <1>2, <2>1, <2>2, <2>4 DEF Settled, SettledPhases
  <2>5. ASSUME NEW o \in Operations, NEW x \in Outcomes, Fits(o, x) PROVE Fits(o, x)'
    <3>1. disk.id = o => Agrees(x, s.phase)
      BY <2>5 DEF Fits
    <3> HIDE DEF s
    <3>2. state'.id = o => Agrees(x, state'.phase)
      BY <1>1, <1>2, <2>2, <3>1, AgreesOn DEF MayBecome
    <3>3. Restored(disk') = state'
      BY <1>2, <2>1, <2>2
    <3> QED BY <2>1, <3>2, <3>3 DEF Fits
  <2>6. state'.id = disk.id
    BY <1>1, <1>2, <2>2
  <2> QED BY <2>1, <2>3, <2>4, <2>5, <2>6 DEF Kept
<1>6. BootStep /\ ProcStep /\ \A d \in Writers : Claims(proc'[d]) \subseteq Claims(proc[d])
  BY <1>3, <1>4 DEF BootStep, ProcStep, Names
<1> QED BY <1>3, <1>5, <1>6, SupervisedStep

-----------------------------------------------------------------------------
(* New rows, and the operations they are about. *)

\* A row begins: it is nobody's yet.
LEMMA RowBegins ==
    ASSUME JInv, HInv', NEW c \in Writers, NEW p,
           p.pc \in {"request", "cancel"}, p.pc = "request" => p.id = begun + 1,
           Begin(c, p), server # "down", \A d \in Writers : proc[d].pc \notin {"request", "cancel"},
           begun < MaxOperations => p \in Process,
           UNCHANGED <<state, disk, stopFor, request, result, completions>>
    PROVE  JInv'
<1>1. /\ Kept /\ BootStep /\ begun \in Nat /\ MaxOperations \in Nat
      /\ journal \in [Operations -> Outcomes \cup {"none", "accepted"}]
  BY StillKept, SameBoot, IdFacts, BoundAssumption DEF TypeOK
<1>2. SettledInv' /\ FollowInv'
  BY <1>1, SettledKept DEF Kept
<1> DEFINE n == begun + 1
           q == [p EXCEPT !.todo = <<Row(n, "prepare_failed")>>]
<1>3. \/ /\ begun' = n /\ n \in Operations /\ proc' = [proc EXCEPT ![c] = q]
         /\ q.pc = p.pc /\ (q.pc = "request" => q.id = n) /\ q.todo = <<Row(n, "prepare_failed")>>
         /\ journal' = [journal EXCEPT ![n] = "accepted"]
      \/ /\ proc' = [proc EXCEPT ![c] = Idle]
         /\ \/ UNCHANGED <<journal, begun>>
            \/ begun' = n /\ n \in Operations /\ journal' = [journal EXCEPT ![n] = "accepted"]
  <2>1. begun < MaxOperations => n \in Operations
    BY <1>1 DEF Operations
  <2>2. CASE Keep(c, q) /\ begun < MaxOperations /\ begun' = n /\ journal' = [journal EXCEPT ![n] = "accepted"]
    <3>1. p \in Process
      BY <2>2
    <3>2. q.pc = p.pc /\ q.id = p.id /\ q.todo = <<Row(n, "prepare_failed")>>
      BY <3>1 DEF Process
    <3> HIDE DEF q
    <3> QED BY <2>1, <2>2, <3>2 DEF Keep, Become
  <2>3. CASE /\ Finish(c, Idle)
             /\ \/ UNCHANGED <<journal, begun>>
                \/ begun < MaxOperations /\ begun' = n /\ journal' = [journal EXCEPT ![n] = "accepted"]
    BY <2>1, <2>3 DEF Finish, Become
  <2> QED BY <2>2, <2>3 DEF Begin
<1>4. \A o \in Operations : Unused(o)' <=> Unused(o)
  BY DEF Unused
<1>5. \A o \in Operations : \A x \in Outcomes : Fits(o, x) => Fits(o, x)'
  BY <1>1 DEF Kept
<1>6. /\ \A o \in Operations : o > begun =>
            /\ Unused(o) /\ journal[o] = "none" /\ completions[o] = None
            /\ \A d \in Writers : ~Names(d, o)
  BY DEF JInv, RowInv
<1>7. "accepted" \notin Outcomes /\ "none" \notin Outcomes
  BY DEF Outcomes
<1> HIDE DEF n, q
<1>8. n \in Nat /\ n > begun /\ \A o \in Nat : o > n => o > begun
  BY <1>1 DEF n
<1>9. \A o \in Operations : journal'[o] = journal[o] \/ (o = n /\ journal'[o] = "accepted")
  BY <1>1, <1>3
<1>10. CASE /\ begun' = n /\ n \in Operations /\ proc' = [proc EXCEPT ![c] = q]
            /\ q.pc = p.pc /\ (q.pc = "request" => q.id = n) /\ q.todo = <<Row(n, "prepare_failed")>>
            /\ journal' = [journal EXCEPT ![n] = "accepted"]
  <2>1. proc'[c] = q /\ \A d \in Writers \ {c} : proc'[d] = proc[d]
    BY <1>10, IdFacts DEF TypeOK
  <2>2. RowsOf(q.todo) = {Row(n, "prepare_failed")} /\ Head(q.todo).id = n
    BY <1>10, RowFacts
  <2>3. \A o : Names(c, o)' <=> o = n
    BY <2>1, <2>2, RowFacts DEF Names
  <2>4. \A d \in Writers \ {c} : \A o : Names(d, o)' <=> Names(d, o)
    BY <2>1 DEF Names
  <2>5. journal'[n] = "accepted" /\ completions'[n] = None /\ (\A o : o = n => Unused(o)')
        /\ \A d \in Writers : ~Names(d, n)
    <3>1. Unused(n) /\ completions[n] = None /\ \A d \in Writers : ~Names(d, n)
      BY <1>6, <1>8, <1>10
    <3>2. \A o : o = n => Unused(o)'
      BY <1>4, <1>10, <3>1
    <3>3. journal'[n] = "accepted"
      BY <1>1, <1>10
    <3> QED BY <3>1, <3>2, <3>3
  <2>6. RowInv'
    <3>1. ASSUME NEW o \in Operations, o > begun'
          PROVE  /\ Unused(o)' /\ journal'[o] = "none" /\ completions'[o] = None
                 /\ \A d \in Writers : ~Names(d, o)'
      <4>1. o > begun /\ o # n
        BY <1>8, <1>10, <3>1 DEF Operations
      <4> QED BY <1>4, <1>6, <1>9, <2>3, <2>4, <4>1
    <3>2. ASSUME NEW d \in Writers, proc'[d].pc = "request"
          PROVE  /\ Unused(proc[d].id)' /\ journal'[proc'[d].id] = "accepted" /\ completions'[proc'[d].id] = None
                 /\ \A e \in Writers : Names(e, proc[d].id)' => e = d
      <4>1. d = c /\ proc'[d].id = n
        BY <1>10, <2>1, <3>2
      <4>2. \A e \in Writers : \A o : o = n /\ Names(e, o)' => e = c
        BY <2>4, <2>5
      <4> QED BY <2>5, <4>1, <4>2 DEF Unused, Names
    <3>3. ASSUME NEW d \in Writers, proc'[d].pc = "cancel" PROVE Unused(Head(proc[d].todo).id)'
      <4>1. d = c /\ Head(proc'[d].todo).id = n
        BY <2>1, <2>2, <3>3
      <4> QED BY <2>5, <4>1 DEF Unused
    <3> QED BY <3>1, <3>2, <3>3 DEF RowInv
  <2>7. ClaimInv'
    <3>1. Claims(q) = {}
      BY <1>10 DEF Claims
    <3>2. ASSUME NEW o \in Operations, NEW x \in Outcomes, Claimed(o, x)' PROVE Claimed(o, x)
      BY <1>7, <1>9, <2>1, <3>1, <3>2 DEF Claimed, Claims
    <3> QED BY <1>5, <3>2 DEF JInv, ClaimInv
  <2> QED BY <1>2, <2>6, <2>7 DEF JInv
<1>11. CASE /\ proc' = [proc EXCEPT ![c] = Idle]
            /\ \/ UNCHANGED <<journal, begun>>
               \/ begun' = n /\ n \in Operations /\ journal' = [journal EXCEPT ![n] = "accepted"]
  <2>1. proc'[c] = Idle /\ \A d \in Writers \ {c} : proc'[d] = proc[d]
    BY <1>11, IdFacts DEF TypeOK
  <2>2. Idle.pc = "idle" /\ RowsOf(Idle.todo) = {}
    BY RowFacts DEF Idle
  <2>3. \A d \in Writers : proc'[d].pc \notin {"request", "cancel"}
    BY <2>1, <2>2
  <2>4. \A d \in Writers : \A o : Names(d, o)' => Names(d, o)
    BY <2>1, <2>2 DEF Names
  <2>5. ASSUME NEW o \in Operations, o > begun'
        PROVE  o > begun /\ journal'[o] = journal[o]
    BY <1>1, <1>8, <1>9, <1>11, <2>5 DEF Operations
  <2>6. RowInv'
    BY <1>4, <1>6, <2>3, <2>4, <2>5 DEF RowInv
  <2>7. ClaimInv'
    <3>1. ASSUME NEW o \in Operations, NEW x \in Outcomes, Claimed(o, x)' PROVE Claimed(o, x)
      BY <1>7, <1>9, <2>1, <2>2, <3>1 DEF Claimed, Claims
    <3> QED BY <1>5, <3>1 DEF JInv, ClaimInv
  <2> QED BY <1>2, <2>6, <2>7 DEF JInv
<1> QED BY <1>3, <1>10, <1>11

LEMMA BeginJournal ==
    ASSUME JInv, HInv', NEW c \in Writers, RequestBegin(c) \/ CancelBegin(c) PROVE JInv'
<1>1. /\ UNCHANGED <<state, disk, stopFor, request, result, completions>>
      /\ server # "down" /\ \A d \in Writers : proc[d].pc \notin {"request", "cancel"}
  BY IdFacts, HasGateFacts DEF RequestBegin, CancelBegin, control, lifecycle, boot, Intents
<1>2. Kept /\ BootStep
  BY <1>1, StillKept, SameBoot
<1> DEFINE r == [Idle EXCEPT !.pc = "request", !.action = proc[c].action, !.id = begun + 1]
           k == [Idle EXCEPT !.pc = "cancel", !.id = state.id, !.was = state.phase]
<1>3. /\ r.pc = "request" /\ r.id = begun + 1 /\ (begun < MaxOperations => r \in Process)
      /\ k.pc = "cancel" /\ k \in Process
  <2>1. Idle \in Process /\ proc[c].action \in ActionNames /\ state.phase \in Phases /\ state.id \in Operations \cup {0}
    BY IdleType, IdFacts, ProcessFields DEF TypeOK, State
  <2>2. begun < MaxOperations => begun + 1 \in Operations
    BY IdFacts, BoundAssumption DEF Operations
  <2> QED BY <2>1, <2>2 DEF Process, Idle, ActionNames
<1>4. \/ Begin(c, r) \/ Begin(c, k)
      \/ UNCHANGED <<journal, begun>> /\ \E p : Bare(p) /\ proc' = [proc EXCEPT ![c] = p]
  BY BareFacts DEF RequestBegin, CancelBegin, Finish, Become
<1> HIDE DEF r, k
<1>5. CASE Begin(c, r)
  BY <1>1, <1>3, <1>5, RowBegins
<1>6. CASE Begin(c, k)
  BY <1>1, <1>3, <1>6, RowBegins
<1>7. CASE UNCHANGED <<journal, begun>> /\ \E p : Bare(p) /\ proc' = [proc EXCEPT ![c] = p]
  BY <1>1, <1>2, <1>7, BareStep DEF Bare
<1> QED BY <1>4, <1>5, <1>6, <1>7

\* A request is committed, or not: nobody has claimed an outcome of it.
LEMMA RowCommitted ==
    ASSUME JInv, HInv', NEW c \in Writers, proc[c].pc = "request",
           NEW p, proc' = [proc EXCEPT ![c] = p], p.pc \notin {"request", "cancel"},
           UNCHANGED <<stopFor, request, result, journal, begun, completions>>,
           state' = state \/ state'.id = proc[c].id, disk' = disk \/ disk'.id = proc[c].id, FollowInv',
           \A r \in RowsOf(p.todo) : r.id = proc[c].id /\ Fits(r.id, r.outcome)'
    PROVE  JInv'
<1>1. PICK n \in Operations : n = proc[c].id
  BY IdFacts
<1>2. /\ Unused(n) /\ journal[n] = "accepted" /\ completions[n] = None /\ n <= begun
      /\ \A d \in Writers : Names(d, n) => d = c
  BY <1>1, IdFacts DEF JInv, RowInv
<1>3. /\ proc'[c] = p /\ \A d \in Writers \ {c} : proc'[d] = proc[d]
      /\ \A d \in Writers \ {c} : proc[d].pc \notin {"request", "cancel"}
  BY IdFacts, OwnerFacts DEF TypeOK
<1>4. \A d \in Writers : proc'[d].pc \notin {"request", "cancel"}
  BY <1>3
<1>5. \A o \in Operations : Unused(o) /\ o # n => Unused(o)'
  BY <1>1 DEF Unused
<1>6. SettledInv'
  <2>1. \A o \in Operations : Settled(o) /\ o # n => Settled(o)'
    BY <1>1 DEF Settled
  <2>2. (request # 0 => request \in Operations /\ request # n) /\ (result # None => result.id \in Operations /\ result.id # n)
    BY <1>2, IdFacts DEF Unused
  <2>3. (request # 0 => Settled(request)) /\ (result # None => Settled(result.id))
    BY DEF JInv, SettledInv
  <2> QED BY <2>1, <2>2, <2>3 DEF SettledInv, Settled
<1>7. RowInv'
  <2>1. ASSUME NEW o \in Operations, o > begun'
        PROVE  /\ Unused(o)' /\ journal'[o] = "none" /\ completions'[o] = None
               /\ \A d \in Writers : ~Names(d, o)'
    <3>1. /\ Unused(o) /\ journal[o] = "none" /\ completions[o] = None
          /\ \A d \in Writers : ~Names(d, o)
      BY <2>1 DEF JInv, RowInv
    <3>2. o # n
      BY <1>2, <2>1, IdFacts
    <3>3. \A d \in Writers : ~Names(d, o)'
      BY <1>1, <1>3, <3>1, <3>2 DEF Names
    <3> QED BY <1>5, <3>1, <3>2, <3>3
  <2> QED BY <1>4, <2>1 DEF RowInv
<1>8. ASSUME NEW o \in Operations, NEW x \in Outcomes, Claimed(o, x)' PROVE Fits(o, x)'
  <2>1. CASE Row(o, x) \in RowsOf(p.todo)
    BY <2>1, RowFacts
  <2>2. CASE Row(o, x) \notin RowsOf(p.todo)
    <3>1. journal[o] = x \/ completions[o] = x \/ \E d \in Writers \ {c} : Row(o, x) \in Claims(proc[d])
      BY <1>3, <1>8, <2>2 DEF Claimed, Claims
    <3>2. o # n
      <4>1. "accepted" \notin Outcomes
        BY DEF Outcomes
      <4>2. ASSUME NEW d \in Writers \ {c}, Row(n, x) \in Claims(proc[d]) PROVE FALSE
        BY <1>2, <4>2, RowFacts DEF Claims, Names
      <4> QED BY <1>2, <3>1, <4>1, <4>2, WritersAssumption
    <3>3. Fits(o, x)
      BY <3>1 DEF JInv, ClaimInv, Claimed
    <3> QED BY <1>1, <3>2, <3>3 DEF Fits
  <2> QED BY <2>1, <2>2
<1> QED BY <1>6, <1>7, <1>8 DEF JInv, ClaimInv

LEMMA RequestCommitJournal ==
    ASSUME JInv, HInv', NEW c \in Writers, NEW isOk \in BOOLEAN, RequestCommit(c, isOk) PROVE JInv'
<1> DEFINE s == New(c, "preparing")
           p == Completing(proc[c], <<Row(proc[c].id, "prepare_failed")>>)
<1>1. /\ UNCHANGED <<stopFor, request, result, journal, begun, completions>> /\ proc[c].pc = "request"
      /\ disk' \in {s, disk} /\ state' = (IF isOk THEN s ELSE state) /\ (isOk => disk' = s)
  BY DEF RequestCommit, Commit, audit, lifecycle, boot
<1>2. s.id = proc[c].id /\ s.phase = "preparing" /\ Restored(s).phase = "cancelled"
  BY DEF New, Restored
<1>3. PICK n \in Operations : n = proc[c].id
  BY <1>1, IdFacts
<1>4. state.id # n /\ disk.id # n
  BY <1>1, <1>3 DEF JInv, RowInv, Unused
<1> HIDE DEF s
<1>5. FollowInv'
  BY <1>1, <1>2, <1>3, <1>4 DEF FollowInv, JInv
<1>6. CASE isOk
  <2>1. proc' = [proc EXCEPT ![c] = Accepted(proc[c].id)] /\ RowsOf(Accepted(proc[c].id).todo) = {}
        /\ Accepted(proc[c].id).pc = "accepted"
    BY <1>6, RowFacts DEF RequestCommit, Finish, Become, Accepted, Idle
  <2> QED BY <1>1, <1>2, <1>5, <2>1, RowCommitted
<1>7. CASE ~isOk
  <2>1. proc' = [proc EXCEPT ![c] = p] /\ p.pc = "complete" /\ p.todo = <<Row(proc[c].id, "prepare_failed")>>
    BY <1>1, <1>7, IdFacts DEF RequestCommit, Keep, Become, Completing, Process
  <2> HIDE DEF p
  <2>2. \A r \in RowsOf(p.todo) : r.id = n /\ r.outcome = "prepare_failed"
    BY <1>3, <2>1, RowFacts
  <2>3. Fits(n, "prepare_failed")'
    BY <1>1, <1>2, <1>4, <1>7 DEF Fits, Agrees
  <2>4. \A r \in RowsOf(p.todo) : r.id = proc[c].id /\ Fits(r.id, r.outcome)'
    BY <1>3, <2>2, <2>3
  <2> QED BY <1>1, <1>2, <1>5, <2>1, <2>4, RowCommitted
<1> QED BY <1>6, <1>7

LEMMA AnnounceCommitJournal ==
    ASSUME JInv, HInv', NEW c \in Writers, NEW isOk \in BOOLEAN, AnnounceCommit(c, isOk) PROVE JInv'
<1> DEFINE w == New(c, "warning")
           f == New(c, "failed")
           x == IF isOk THEN "announced" ELSE "announcement_failed"
           p == Completing(proc[c], <<Row(proc[c].id, x)>>)
<1>1. /\ UNCHANGED <<stopFor, request, result, journal, begun, completions>> /\ proc[c].pc = "request"
      /\ proc' = [proc EXCEPT ![c] = p]
  BY DEF AnnounceCommit, Keep, Become, audit, lifecycle, boot
<1>2. \/ state' = state /\ disk' \in {disk, w, f}
      \/ state' = w /\ disk' \in {w, f}
      \/ state' = f /\ disk' = f
  BY DEF AnnounceCommit, Commit
<1>3. w.id = proc[c].id /\ f.id = proc[c].id /\ w.phase = "warning" /\ f.phase = "failed"
  BY DEF New
<1>4. PICK n \in Operations : n = proc[c].id
  BY <1>1, IdFacts
<1>5. state.id # n /\ disk.id # n
  BY <1>1, <1>4 DEF JInv, RowInv, Unused
<1> HIDE DEF w, f
<1>6. FollowInv'
  BY <1>2, <1>3, <1>4, <1>5 DEF FollowInv, JInv
<1>7. p.pc = "complete" /\ p.todo = <<Row(proc[c].id, x)>>
  BY <1>1, IdFacts DEF Completing, Process
<1> HIDE DEF p
<1>8. ASSUME NEW r \in RowsOf(p.todo) PROVE r.id = proc[c].id /\ Fits(r.id, r.outcome)'
  <2>1. r.id = proc[c].id /\ r.outcome \in {"announced", "announcement_failed"}
    BY <1>7, <1>8, RowFacts
  <2> QED BY <2>1 DEF Fits, Agrees
<1> QED BY <1>1, <1>2, <1>3, <1>6, <1>7, <1>8, RowCommitted

-----------------------------------------------------------------------------

LEMMA InitJournal == Init => JInv
<1> SUFFICES ASSUME Init PROVE JInv
  OBVIOUS
<1>1. /\ Idle.pc = "idle" /\ RowsOf(Idle.todo) = {} /\ NoState.id = 0 /\ NoState.phase = "none"
      /\ 0 \notin Operations /\ \A c \in Writers : proc[c] = Idle
  BY RowFacts DEF Idle, NoState, Operations, Init
<1>2. RowInv
  BY <1>1 DEF Init, RowInv, Unused, Names
<1>3. SettledInv /\ FollowInv
  BY <1>1 DEF Init, SettledInv, FollowInv
<1>4. ClaimInv
  <2>1. "none" \notin Outcomes
    BY DEF Outcomes
  <2> QED BY <1>1, <2>1, WritersAssumption DEF Init, ClaimInv, Claimed, Claims
<1> QED BY <1>2, <1>3, <1>4, InitHold DEF JInv

LEMMA NextJournal == JInv /\ [Next]_vars => JInv'
<1> SUFFICES ASSUME JInv, [Next]_vars PROVE JInv'
  OBVIOUS
<1>1. HInv'
  BY NextHold DEF JInv
<1>2. CASE Play \/ UNCHANGED vars
  BY <1>1, <1>2, PlayJournal
<1>3. ASSUME NEW c \in Writers, Ask(c) PROVE JInv'
  BY <1>1, <1>3, AskJournal
<1>4. ASSUME NEW c \in Writers, Handle(c) PROVE JInv'
  BY <1>1, <1>4, BeginJournal, CompleteLookJournal, CompleteWriteJournal, RequestCommitJournal,
     AnnounceCommitJournal, ActivateJournal, AbortJournal, CancelCommitJournal DEF Handle
<1>5. CASE Reconcile
  BY <1>1, <1>5, ReconcileLookJournal, ReconcileResolveJournal, RetryCompletionJournal DEF Reconcile
<1>6. CASE Advance
  BY <1>1, <1>6, AdvanceLookJournal, RunnerStopJournal, AdvanceJournal, PlayJournal DEF Advance
<1>7. CASE Supervise
  BY <1>1, <1>7, EndJournal, BesideJournal, PlayJournal, StartJournal DEF Supervise
<1> QED BY <1>2, <1>3, <1>4, <1>5, <1>6, <1>7 DEF Next

LEMMA JournalInductive == Spec => []JInv
  BY InitJournal, NextJournal, PTL DEF Spec

\* Whatever the journal says became of an operation agrees with the operation, as
\* long as it is the current one: through refused and ambiguous writes of state
\* and journal, outcomes that wait, cancellations and the supervisor's result.
THEOREM OutcomesAgree == Spec => []JournalAgrees
<1>1. JInv => JournalAgrees
  <2> SUFFICES ASSUME JInv, Effective.id # 0 PROVE Agrees(journal[Effective.id], Effective.phase)
    BY DEF JournalAgrees
  <2>1. PICK o \in Operations : o = Effective.id
    BY IdFacts, RestoredFacts DEF Effective, TypeOK
  <2>2. CASE journal[o] \in Outcomes
    <3>1. Fits(o, journal[o])
      BY <2>2 DEF JInv, ClaimInv, Claimed
    <3>2. server = "down" => Effective = Restored(disk) /\ disk.id = o
      BY <2>1, IdFacts, RestoredFacts DEF Effective, TypeOK
    <3>3. server # "down" => Effective = state
      BY DEF Effective
    <3> QED BY <2>1, <3>1, <3>2, <3>3 DEF Fits
  <2>3. CASE journal[o] \in {"none", "accepted"}
    BY <2>1, <2>3 DEF Agrees
  <2> QED BY <2>1, <2>2, <2>3, IdFacts DEF TypeOK
<1> QED BY <1>1, JournalInductive, PTL
=============================================================================
