-------------------------- MODULE MaintenanceProofs --------------------------
(***************************************************************************)
(* Proofs about Maintenance, for any players, operators, actions, faults   *)
(* and bounds: type correctness, and that nobody is inside an entry while  *)
(* an operation blocks admission (ClosedToEntry).                          *)
(***************************************************************************)
EXTENDS Maintenance, SequenceTheorems, TLAPS

\* A player inside an entry keeps every writer out and meets no operation; only
\* the owner of the gate is between its first look at the state and its commit;
\* the runner knows a blocking operation while it decides; a server that is down
\* has nothing in hand.
GateInv ==
    /\ writer # None => inside = {}
    /\ inside # {} => ~IsBlocked(state)
    /\ \A c \in Writers : proc[c].pc \in {"request", "cancel"} => writer = c
    /\ proc[Runner].pc = "due" => IsBlocked(state) /\ state.phase \in {"warning", "draining"}
    /\ server = "down" => /\ \A c \in Writers : proc[c] = Idle
                          /\ inside = {} /\ writer = None /\ state = NoState

\* What a writer carries from one step to the next is there when it is used.
CarryInv ==
    /\ state.phase # "none" => state.id # 0
    /\ disk.phase # "none" => disk.id # 0
    /\ stopFor # 0 => state.id # 0
    /\ \A c \in Writers :
          /\ proc[c].pc \in {"cancel", "complete", "write"} => proc[c].todo # << >>
          /\ proc[c].pc \in {"request", "cancel", "accepted"} => proc[c].id # 0
          /\ proc[c].pc = "waiting" /\ proc[c].intent # "request" => proc[c].id # 0
          /\ proc[c].pc = "waiting" /\ proc[c].intent = "resolve" =>
                 Matches(result, proc[c].id) /\ IsFinal(result)

IInv == TypeOK /\ GateInv /\ CarryInv

-----------------------------------------------------------------------------
(* What writers carry has its type. *)

Intents == {"none", "request", "activate", "abort", "cancel", "retry", "resolve"}
ActionNames == {"none", "restart", "update", "hold", "announce"}

LEMMA RowType == ASSUME NEW id \in Operations, NEW outcome \in Outcomes
                 PROVE  /\ Row(id, outcome) \in Completion
                        /\ <<Row(id, outcome)>> \in Seq(Completion) /\ <<Row(id, outcome)>> # << >>
<1>1. Row(id, outcome) \in Completion
  BY DEF Row, Completion
<1> QED BY <1>1

LEMMA IdleType == Idle \in Process /\ NoState \in State
<1>1. << >> \in Seq(Completion)
  BY EmptySeq
<1> QED BY <1>1 DEF Idle, Process, NoState, State, Phases

\* The fields of a writer's record.
LEMMA ProcessFields ==
    ASSUME NEW p \in Process
    PROVE  /\ p.intent \in Intents /\ p.action \in ActionNames /\ p.id \in Operations \cup {0}
           /\ p.was \in Phases /\ p.todo \in Seq(Completion)
  BY DEF Process, Intents, ActionNames

LEMMA WaitingType ==
    ASSUME NEW intent \in Intents, NEW action \in ActionNames, NEW id \in Operations \cup {0}
    PROVE  [Idle EXCEPT !.pc = "waiting", !.intent = intent, !.action = action, !.id = id] \in Process
  BY IdleType DEF Idle, Process, Intents, ActionNames

LEMMA CompletingType ==
    ASSUME NEW p \in Process, NEW todo \in Seq(Completion)
    PROVE  Completing(p, todo) \in Process
  BY DEF Completing, Process

\* What Begin is given by a request, or by a cancellation.
LEMMA BegunType ==
    ASSUME NEW action \in ActionNames, NEW id \in Operations, NEW was \in Phases
    PROVE  /\ [Idle EXCEPT !.pc = "request", !.action = action, !.id = id] \in Process
           /\ [Idle EXCEPT !.pc = "cancel", !.id = id, !.was = was] \in Process
  BY IdleType DEF Idle, Process, ActionNames

LEMMA AcceptedType == ASSUME NEW id \in Operations \cup {0} PROVE Accepted(id) \in Process
  BY IdleType DEF Accepted, Idle, Process

-----------------------------------------------------------------------------
(* The invariant is inductive: the players, and the clock. *)

LEMMA EnterLookInv == ASSUME IInv, NEW p \in Players, EnterLook(p) PROVE IInv'
<1> USE DEF EnterLook, control, drain, audit, lifecycle, boot, history
<1>1. TypeOK'
  BY DEF IInv, TypeOK
<1>2. inside' = inside
  BY DEF IInv, TypeOK, inside
<1>3. GateInv'
  BY <1>2 DEF IInv, GateInv, IsServing, IsBlocked, IsActive
<1>4. CarryInv'
  BY DEF IInv, CarryInv, Matches, IsFinal
<1> QED BY <1>1, <1>3, <1>4 DEF IInv

LEMMA EnterTryInv == ASSUME IInv, NEW p \in Players, EnterTry(p) PROVE IInv'
<1> USE DEF EnterTry, control, drain, audit, lifecycle, boot, history
<1>1. TypeOK'
  BY DEF IInv, TypeOK
<1>2. inside' \subseteq inside \/ (writer = None /\ ~IsClosed)
  BY DEF IInv, TypeOK, inside
<1>3. GateInv'
  BY <1>2 DEF IInv, GateInv, IsClosed, IsServing, IsBlocked, IsActive
<1>4. CarryInv'
  BY DEF IInv, CarryInv, Matches, IsFinal
<1> QED BY <1>1, <1>3, <1>4 DEF IInv

LEMMA EnterGameInv == ASSUME IInv, NEW p \in Players, EnterGame(p) PROVE IInv'
<1> USE DEF EnterGame, control, drain, audit, lifecycle, boot, history
<1>1. TypeOK'
  BY DEF IInv, TypeOK
<1>2. inside' \subseteq inside
  BY DEF IInv, TypeOK, inside
<1>3. GateInv'
  BY <1>2 DEF IInv, GateInv, IsBlocked, IsActive
<1>4. CarryInv'
  BY DEF IInv, CarryInv, Matches, IsFinal
<1> QED BY <1>1, <1>3, <1>4 DEF IInv

\* A step that leaves the writers, the states and the gate alone.
LEMMA AsideInv ==
    ASSUME IInv, TypeOK', UNCHANGED <<control, gate, proc, server, stopFor, result>>
    PROVE  IInv'
<1> USE DEF control, gate
<1>1. GateInv'
  BY DEF IInv, GateInv, IsBlocked, IsActive, inside
<1>2. CarryInv'
  BY DEF IInv, CarryInv, Matches, IsFinal
<1> QED BY <1>1, <1>2 DEF IInv

LEMMA AsidePlayInv ==
    ASSUME IInv,
           \/ TimePasses
           \/ \E p \in Players : StartGame(p) \/ EndGame(p)
           \/ \E p \in Players, isOk \in BOOLEAN : DrainUser(p, isOk)
    PROVE  IInv'
<1> USE DEF control, gate, drain, audit, lifecycle, boot, history
<1>1. CASE TimePasses
  <2>1. TypeOK'
    BY <1>1 DEF TimePasses, IInv, TypeOK
  <2> QED BY <1>1, <2>1, AsideInv DEF TimePasses
<1>2. ASSUME NEW p \in Players, StartGame(p) \/ EndGame(p) PROVE IInv'
  <2>1. TypeOK'
    BY <1>2 DEF StartGame, EndGame, IInv, TypeOK
  <2> QED BY <1>2, <2>1, AsideInv DEF StartGame, EndGame
<1>3. ASSUME NEW p \in Players, NEW isOk \in BOOLEAN, DrainUser(p, isOk) PROVE IInv'
  <2>1. game' \in {game, [game EXCEPT ![p] = "none"]} /\ isDrainError' \in BOOLEAN
    BY <1>3 DEF DrainUser, IInv, TypeOK
  <2>2. TypeOK'
    BY <1>3, <2>1 DEF DrainUser, IInv, TypeOK
  <2> QED BY <1>3, <2>2, AsideInv DEF DrainUser
<1> QED BY <1>1, <1>2, <1>3

-----------------------------------------------------------------------------
(* A writer's step: what it becomes, and what is left of the others. *)

LEMMA BecomeType ==
    ASSUME TypeOK, NEW c \in Writers, NEW p \in Process, Become(c, p)
    PROVE  /\ proc' \in [Writers -> Process] /\ proc'[c] = p
           /\ \A d \in Writers \ {c} : proc'[d] = proc[d]
  BY DEF TypeOK, Become

LEMMA WaitType ==
    ASSUME TypeOK, NEW c \in Writers, NEW intent \in Intents, NEW action \in ActionNames,
           NEW id \in Operations \cup {0}, Wait(c, intent, action, id)
    PROVE  /\ waiting' \subseteq Writers
           /\ proc' \in [Writers -> Process]
           /\ proc'[c].pc = "waiting" /\ proc'[c].intent = intent /\ proc'[c].id = id
           /\ \A d \in Writers \ {c} : proc'[d] = proc[d]
<1> DEFINE p == [Idle EXCEPT !.pc = "waiting", !.intent = intent, !.action = action, !.id = id]
<1>1. p \in Process /\ p.pc = "waiting" /\ p.intent = intent /\ p.id = id
  BY WaitingType DEF Idle
<1>2. Become(c, p) /\ waiting' = waiting \cup {c}
  BY DEF Wait, Become
<1> HIDE DEF p
<1> QED BY <1>1, <1>2, BecomeType DEF TypeOK

LEMMA FinishType ==
    ASSUME TypeOK, NEW c \in Writers, NEW p \in Process, Finish(c, p)
    PROVE  /\ waiting' \subseteq Writers /\ writer' \in Writers \cup {None}
           /\ writer' \in {writer, None} /\ (writer = c => writer' = None)
           /\ (writer # c => writer' = writer)
           /\ proc' \in [Writers -> Process] /\ proc'[c] = p
           /\ \A d \in Writers \ {c} : proc'[d] = proc[d]
  BY BecomeType DEF Finish, LetGo, TypeOK

LEMMA KeepType ==
    ASSUME TypeOK, NEW c \in Writers, NEW p \in Process, Keep(c, p)
    PROVE  /\ waiting' \subseteq Writers /\ writer' = c
           /\ proc' \in [Writers -> Process] /\ proc'[c] = p
           /\ \A d \in Writers \ {c} : proc'[d] = proc[d]
  BY BecomeType DEF Keep, TypeOK

\* What a writer may make of the state and its file.
StateStep ==
    /\ state' \in State /\ disk' \in State
    /\ state'.phase # "none" => state'.id # 0
    /\ disk'.phase # "none" => disk'.id # 0
    /\ state.id # 0 => state'.id # 0
    /\ inside # {} => ~IsBlocked(state')
    /\ proc[Runner].pc = "due" => state' = state

LEMMA SameState == ASSUME IInv, control' = control PROVE StateStep
  BY DEF IInv, TypeOK, GateInv, CarryInv, control, StateStep

LEMMA CommitState ==
    ASSUME IInv, NEW s \in State, NEW isOk \in BOOLEAN, Commit(s, isOk), s.id # 0,
           inside = {} \/ ~IsBlocked(s), proc[Runner].pc # "due"
    PROVE  StateStep
  BY DEF IInv, TypeOK, GateInv, CarryInv, Commit, StateStep

\* A writer that waits, and lets go of the gate if it had it.
LEMMA WaitingInv ==
    ASSUME IInv, NEW c \in Writers, NEW intent \in Intents, NEW action \in ActionNames,
           NEW id \in Operations \cup {0}, Wait(c, intent, action, id),
           server # "down", proc[Runner].pc = "due" => c # Runner,
           intent # "request" => id # 0,
           intent = "resolve" => Matches(result, id) /\ IsFinal(result),
           writer' = writer \/ LetGo(c),
           UNCHANGED <<server, stopFor, result, entry>>, StateStep
    PROVE  GateInv' /\ CarryInv' /\ waiting' \subseteq Writers /\ writer' \in Writers \cup {None}
           /\ proc' \in [Writers -> Process]
<1>1. TypeOK
  BY DEF IInv
<1>2. /\ waiting' \subseteq Writers
      /\ proc' \in [Writers -> Process]
      /\ proc'[c].pc = "waiting" /\ proc'[c].intent = intent /\ proc'[c].id = id
      /\ \A d \in Writers \ {c} : proc'[d] = proc[d]
  BY <1>1, WaitType
<1>3. writer' \in {writer, None} /\ (writer # c => writer' = writer) /\ writer' \in Writers \cup {None}
  BY <1>1 DEF LetGo, TypeOK
<1>4. GateInv'
  BY <1>2, <1>3 DEF IInv, GateInv, StateStep, inside, Writers
<1>5. CarryInv'
  BY <1>2 DEF IInv, CarryInv, StateStep, Matches, IsFinal
<1> QED BY <1>2, <1>3, <1>4, <1>5

LEMMA AskRequestInv ==
    ASSUME IInv, NEW c \in Writers, NEW action \in {"restart", "update", "hold", "announce"},
           AskRequest(c, action)
    PROVE  IInv'
<1> USE DEF AskRequest, drain, audit, lifecycle, boot
<1>1. GateInv' /\ CarryInv' /\ waiting' \subseteq Writers /\ writer' \in Writers \cup {None}
      /\ proc' \in [Writers -> Process]
  BY WaitingInv, SameState DEF Intents, ActionNames
<1>2. TypeOK'
  BY <1>1 DEF IInv, TypeOK, control, history
<1> QED BY <1>1, <1>2 DEF IInv

LEMMA AnswerInv ==
    ASSUME IInv, NEW c \in Writers, NEW isFlushed \in BOOLEAN, Answer(c, isFlushed) PROVE IInv'
<1> USE DEF Answer, drain, audit, lifecycle, boot
<1> DEFINE intent == IF isFlushed THEN "activate" ELSE "abort"
<1>1. proc[c].id \in Operations /\ server # "down" /\ proc[c] \in Process
  BY DEF IInv, TypeOK, GateInv, CarryInv, Process, Idle
<1>2. GateInv' /\ CarryInv' /\ waiting' \subseteq Writers /\ writer' \in Writers \cup {None}
      /\ proc' \in [Writers -> Process]
  <2>1. intent \in Intents /\ intent \notin {"request", "resolve"} /\ Wait(c, intent, "none", proc[c].id)
    BY DEF Intents
  <2>2. proc[c].id # 0 /\ "none" \in ActionNames /\ (proc[Runner].pc = "due" => c # Runner)
    BY <1>1 DEF Operations, ActionNames
  <2> HIDE DEF intent
  <2> QED BY <1>1, <2>1, <2>2, WaitingInv, SameState
<1>3. TypeOK'
  BY <1>2 DEF IInv, TypeOK, control, history
<1> QED BY <1>2, <1>3 DEF IInv

LEMMA AskCancelInv == ASSUME IInv, NEW c \in Writers, AskCancel(c) PROVE IInv'
<1> USE DEF AskCancel, drain, audit, lifecycle, boot
<1>1. state.id \in Operations
  BY DEF IInv, TypeOK, State
<1>2. GateInv' /\ CarryInv' /\ waiting' \subseteq Writers /\ writer' \in Writers \cup {None}
      /\ proc' \in [Writers -> Process]
  <2>1. "cancel" \in Intents /\ "none" \in ActionNames
    BY DEF Intents, ActionNames
  <2> QED BY <1>1, <2>1, WaitingInv, SameState
<1>3. TypeOK'
  BY <1>2 DEF IInv, TypeOK, control, history
<1> QED BY <1>2, <1>3 DEF IInv

\* A writer that is done, or has been told of an acceptance.
LEMMA FinishInv ==
    ASSUME IInv, NEW c \in Writers, NEW p \in Process, Finish(c, p),
           server # "down", proc[Runner].pc = "due" => c # Runner,
           p.pc \in {"idle", "accepted", "complete"},
           p.pc = "accepted" => p.id # 0, p.pc = "complete" => p.todo # << >>,
           UNCHANGED <<server, stopFor, result, entry>>, StateStep
    PROVE  GateInv' /\ CarryInv' /\ waiting' \subseteq Writers /\ writer' \in Writers \cup {None}
           /\ proc' \in [Writers -> Process]
<1>1. TypeOK
  BY DEF IInv
<1>2. /\ waiting' \subseteq Writers /\ writer' \in Writers \cup {None}
      /\ writer' \in {writer, None} /\ (writer # c => writer' = writer)
      /\ proc' \in [Writers -> Process] /\ proc'[c] = p
      /\ \A d \in Writers \ {c} : proc'[d] = proc[d]
  BY <1>1, FinishType
<1>4. GateInv'
  BY <1>2 DEF IInv, GateInv, StateStep, inside, Writers
<1>5. CarryInv'
  BY <1>2 DEF IInv, CarryInv, StateStep, Matches, IsFinal
<1> QED BY <1>2, <1>4, <1>5

LEMMA GiveUpInv ==
    ASSUME IInv, NEW c \in Writers, proc[c].pc = "waiting", GiveUp(c),
           UNCHANGED <<server, stopFor, result, entry>>, StateStep
    PROVE  GateInv' /\ CarryInv' /\ waiting' \subseteq Writers /\ writer' \in Writers \cup {None}
           /\ proc' \in [Writers -> Process]
<1>1. server # "down" /\ (proc[Runner].pc = "due" => c # Runner)
  BY DEF IInv, GateInv, Idle
<1>2. CASE proc[c].intent = "activate" /\ c # Runner
  <2>1. LetGo(c) /\ Wait(c, "abort", "none", proc[c].id)
    BY <1>2 DEF GiveUp
  <2>2. proc[c].id \in Operations \cup {0} /\ proc[c].id # 0
    BY <1>2, ProcessFields DEF IInv, TypeOK, CarryInv
  <2>3. "abort" \in Intents /\ "none" \in ActionNames
    BY DEF Intents, ActionNames
  <2> QED BY <1>1, <2>1, <2>2, <2>3, WaitingInv
<1>3. CASE ~(proc[c].intent = "activate" /\ c # Runner)
  <2>1. Finish(c, Idle)
    BY <1>3 DEF GiveUp
  <2>2. Idle.pc = "idle"
    BY DEF Idle
  <2> QED BY <1>1, <2>1, <2>2, IdleType, FinishInv
<1> QED BY <1>2, <1>3

LEMMA TimeOutInv == ASSUME IInv, NEW c \in Writers, TimeOut(c) PROVE IInv'
<1>1. GateInv' /\ CarryInv' /\ waiting' \subseteq Writers /\ writer' \in Writers \cup {None}
      /\ proc' \in [Writers -> Process]
  BY GiveUpInv, SameState DEF TimeOut, drain, audit, lifecycle, boot, control
<1>2. TypeOK'
  BY <1>1 DEF TimeOut, IInv, TypeOK, control, drain, audit, lifecycle, boot, history
<1> QED BY <1>1, <1>2 DEF IInv

-----------------------------------------------------------------------------
(* Requests, activations, cancellations. *)

\* A writer that keeps the gate, which nobody is inside of.
LEMMA KeepInv ==
    ASSUME IInv, NEW c \in Writers, NEW p \in Process, Keep(c, p),
           server # "down", proc[Runner].pc = "due" => c # Runner, inside = {},
           \A d \in Writers \ {c} : proc[d].pc \notin {"request", "cancel"},
           p.pc \in {"request", "cancel", "complete"},
           p.pc \in {"request", "cancel"} => p.id # 0, p.pc \in {"cancel", "complete"} => p.todo # << >>,
           UNCHANGED <<server, stopFor, result, entry>>, StateStep
    PROVE  GateInv' /\ CarryInv' /\ waiting' \subseteq Writers /\ writer' \in Writers \cup {None}
           /\ proc' \in [Writers -> Process]
<1>1. TypeOK
  BY DEF IInv
<1>2. /\ waiting' \subseteq Writers /\ writer' = c
      /\ proc' \in [Writers -> Process] /\ proc'[c] = p
      /\ \A d \in Writers \ {c} : proc'[d] = proc[d]
  BY <1>1, KeepType
<1>4. GateInv'
  BY <1>2 DEF IInv, GateInv, StateStep, inside, Writers
<1>5. CarryInv'
  BY <1>2 DEF IInv, CarryInv, StateStep, Matches, IsFinal
<1> QED BY <1>2, <1>4, <1>5

\* The rows that the owner of the gate begins.
LEMMA BeginInv ==
    ASSUME IInv, NEW c \in Writers, NEW p, Begin(c, p),
           server # "down", proc[c].pc = "waiting", writer = None, inside = {},
           begun < MaxOperations => p \in Process /\ p.pc \in {"request", "cancel"} /\ p.id # 0,
           UNCHANGED <<server, stopFor, result, entry>>, control' = control
    PROVE  GateInv' /\ CarryInv' /\ waiting' \subseteq Writers /\ writer' \in Writers \cup {None}
           /\ proc' \in [Writers -> Process]
           /\ journal' \in [Operations -> Outcomes \cup {"none", "accepted"}] /\ begun' \in 0 .. MaxOperations
<1>1. StateStep /\ (proc[Runner].pc = "due" => c # Runner)
  BY SameState DEF IInv
<1>2. \A d \in Writers : proc[d].pc \notin {"request", "cancel"}
  BY WritersAssumption DEF IInv, GateInv
<1>3. begun \in 0 .. MaxOperations /\ MaxOperations \in Nat
      /\ journal \in [Operations -> Outcomes \cup {"none", "accepted"}]
  BY BoundAssumption DEF IInv, TypeOK
<1>4. CASE begun < MaxOperations /\ begun' = begun + 1
           /\ journal' = [journal EXCEPT ![begun + 1] = "accepted"]
           /\ Keep(c, [p EXCEPT !.todo = <<Row(begun + 1, "prepare_failed")>>])
  <2>1. begun + 1 \in Operations /\ begun + 1 # 0 /\ begun' \in 0 .. MaxOperations
    BY <1>3, <1>4 DEF Operations
  <2>2. <<Row(begun + 1, "prepare_failed")>> \in Seq(Completion) /\ <<Row(begun + 1, "prepare_failed")>> # << >>
    BY <2>1, RowType DEF Outcomes
  <2> DEFINE q == [p EXCEPT !.todo = <<Row(begun + 1, "prepare_failed")>>]
  <2>3. q \in Process /\ q.pc = p.pc /\ q.id = p.id /\ q.todo # << >>
    BY <1>4, <2>2 DEF Process
  <2>4. Keep(c, q)
    BY <1>4
  <2>5. q.id # 0
    BY <1>4, <2>3
  <2> HIDE DEF q
  <2>6. GateInv' /\ CarryInv' /\ waiting' \subseteq Writers /\ writer' \in Writers \cup {None}
        /\ proc' \in [Writers -> Process]
    BY <1>1, <1>2, <1>4, <2>3, <2>4, <2>5, KeepInv
  <2>7. journal' \in [Operations -> Outcomes \cup {"none", "accepted"}]
    BY <1>3, <1>4, <2>1
  <2> QED BY <2>1, <2>6, <2>7
<1>5. CASE Finish(c, Idle) /\ (UNCHANGED <<journal, begun>>
                               \/ (begun < MaxOperations /\ begun' = begun + 1
                                   /\ journal' = [journal EXCEPT ![begun + 1] = "accepted"]))
  <2>1. GateInv' /\ CarryInv' /\ waiting' \subseteq Writers /\ writer' \in Writers \cup {None}
        /\ proc' \in [Writers -> Process]
    BY <1>1, <1>5, FinishInv, IdleType DEF Idle
  <2>2. journal' \in [Operations -> Outcomes \cup {"none", "accepted"}] /\ begun' \in 0 .. MaxOperations
    BY <1>3, <1>5 DEF Operations
  <2> QED BY <2>1, <2>2
<1> QED BY <1>4, <1>5 DEF Begin

LEMMA HasGateFacts ==
    ASSUME IInv, NEW c \in Writers, NEW intent \in Intents, HasGate(c, intent)
    PROVE  /\ server # "down" /\ writer = None /\ inside = {}
           /\ proc[c].pc = "waiting" /\ proc[c].intent = intent
           /\ proc[Runner].pc = "due" => c # Runner
           /\ \A d \in Writers : proc[d].pc \notin {"request", "cancel"}
           /\ proc[c] \in Process /\ proc[c].id \in Operations \cup {0}
  BY WritersAssumption, ProcessFields DEF HasGate, IsServing, IInv, TypeOK, GateInv

LEMMA RequestBeginInv == ASSUME IInv, NEW c \in Writers, RequestBegin(c) PROVE IInv'
<1>1. /\ server # "down" /\ writer = None /\ inside = {} /\ proc[c].pc = "waiting"
      /\ proc[Runner].pc = "due" => c # Runner
      /\ proc[c] \in Process
  BY HasGateFacts DEF RequestBegin, Intents
<1>2. control' = control /\ UNCHANGED <<server, stopFor, result, entry>>
  BY DEF RequestBegin, lifecycle, boot
<1> DEFINE p == [Idle EXCEPT !.pc = "request", !.action = proc[c].action, !.id = begun + 1]
           Goal == /\ GateInv' /\ CarryInv' /\ waiting' \subseteq Writers /\ writer' \in Writers \cup {None}
                   /\ proc' \in [Writers -> Process]
                   /\ journal' \in [Operations -> Outcomes \cup {"none", "accepted"}]
                   /\ begun' \in 0 .. MaxOperations
<1>3. ASSUME (Finish(c, Accepted(state.id)) /\ IsActive(state)) \/ Finish(c, Idle),
             UNCHANGED <<journal, begun>>
      PROVE  Goal
  <2>1. state.id \in Operations \cup {0} /\ (IsActive(state) => state.id # 0)
    BY DEF IInv, TypeOK, CarryInv, State, IsActive
  <2>2. Accepted(state.id) \in Process /\ Accepted(state.id).pc = "accepted" /\ Accepted(state.id).id = state.id
    BY <2>1, AcceptedType DEF Accepted, Idle
  <2>3. Idle \in Process /\ Idle.pc = "idle"
    BY IdleType DEF Idle
  <2>4. StateStep
    BY <1>2, SameState
  <2>5. GateInv' /\ CarryInv' /\ waiting' \subseteq Writers /\ writer' \in Writers \cup {None}
        /\ proc' \in [Writers -> Process]
    BY <1>1, <1>2, <1>3, <2>1, <2>2, <2>3, <2>4, FinishInv
  <2> QED BY <1>3, <2>5 DEF IInv, TypeOK
<1>4. ASSUME Begin(c, p) PROVE Goal
  <2>1. begun < MaxOperations => p \in Process /\ p.pc = "request" /\ p.id # 0
    <3>1. proc[c].action \in ActionNames
      BY <1>1, ProcessFields
    <3>2. begun < MaxOperations => begun + 1 \in Operations /\ begun + 1 # 0
      BY BoundAssumption DEF IInv, TypeOK, Operations
    <3>3. p.pc = "request" /\ p.id = begun + 1
      BY DEF Idle
    <3>4. "none" \in Phases
      BY DEF Phases
    <3> QED BY <3>1, <3>2, <3>3, <3>4, BegunType
  <2> HIDE DEF p
  <2> QED BY <1>1, <1>2, <1>4, <2>1, BeginInv
<1>5. Goal
  BY <1>3, <1>4 DEF RequestBegin
<1>6. TypeOK'
  BY <1>5 DEF RequestBegin, IInv, TypeOK, control, drain, lifecycle, boot, history
<1> QED BY <1>5, <1>6 DEF IInv

LEMMA NewType ==
    ASSUME IInv, NEW c \in Writers, proc[c].pc = "request", NEW phase \in Phases
    PROVE  New(c, phase) \in State /\ New(c, phase).id # 0 /\ New(c, phase).action = proc[c].action
<1>1. proc[c].id \in Operations \cup {0} /\ proc[c].action \in ActionNames /\ proc[c].id # 0
  BY ProcessFields DEF IInv, TypeOK, CarryInv
<1> QED BY <1>1 DEF New, State, ActionNames

\* What the owner of the gate knows before it commits.
LEMMA OwnerFacts ==
    ASSUME IInv, NEW c \in Writers, proc[c].pc \in {"request", "cancel"}
    PROVE  /\ server # "down" /\ writer = c /\ inside = {}
           /\ proc[c] \in Process /\ proc[c].id \in Operations /\ proc[c].id # 0
           /\ \A d \in Writers \ {c} : proc[d].pc \notin {"request", "cancel"}
<1>1. proc[c] \in Process /\ proc[c].id \in Operations \cup {0}
  BY ProcessFields DEF IInv, TypeOK
<1>2. server # "down" /\ writer = c /\ inside = {} /\ proc[c].id # 0
  BY WritersAssumption DEF IInv, GateInv, CarryInv, Idle
<1> QED BY <1>1, <1>2 DEF IInv, GateInv

LEMMA RequestCommitInv ==
    ASSUME IInv, NEW c \in Writers, NEW isOk \in BOOLEAN, RequestCommit(c, isOk) PROVE IInv'
<1>1. /\ server # "down" /\ writer = c /\ inside = {} /\ proc[c] \in Process
      /\ proc[c].id \in Operations /\ proc[c].id # 0
      /\ \A d \in Writers \ {c} : proc[d].pc \notin {"request", "cancel"}
  BY OwnerFacts DEF RequestCommit
<1>2. UNCHANGED <<server, stopFor, result, entry>> /\ proc[Runner].pc # "due"
  BY DEF RequestCommit, OperationFree, lifecycle, boot
<1>3. StateStep
  <2>1. New(c, "preparing") \in State /\ New(c, "preparing").id # 0
    BY NewType DEF RequestCommit, Phases
  <2>2. Commit(New(c, "preparing"), isOk)
    BY DEF RequestCommit
  <2> QED BY <1>1, <1>2, <2>1, <2>2, CommitState
<1>4. /\ GateInv' /\ CarryInv' /\ waiting' \subseteq Writers /\ writer' \in Writers \cup {None}
      /\ proc' \in [Writers -> Process]
  <2>1. CASE isOk
    <3>1. Finish(c, Accepted(proc[c].id))
      BY <2>1 DEF RequestCommit
    <3>2. Accepted(proc[c].id) \in Process /\ Accepted(proc[c].id).pc = "accepted"
          /\ Accepted(proc[c].id).id # 0
      BY <1>1, AcceptedType DEF Accepted, Idle
    <3> QED BY <1>1, <1>2, <1>3, <3>1, <3>2, FinishInv
  <2>2. CASE ~isOk
    <3> DEFINE todo == <<Row(proc[c].id, "prepare_failed")>>
    <3>1. Keep(c, Completing(proc[c], todo))
      BY <2>2 DEF RequestCommit
    <3>2. todo \in Seq(Completion) /\ todo # << >>
      BY <1>1, RowType DEF Outcomes
    <3>3. Completing(proc[c], todo) \in Process /\ Completing(proc[c], todo).pc = "complete"
          /\ Completing(proc[c], todo).todo = todo
      BY <1>1, <3>2, CompletingType DEF Completing, Process
    <3> HIDE DEF todo
    <3> QED BY <1>1, <1>2, <1>3, <3>1, <3>2, <3>3, KeepInv
  <2> QED BY <2>1, <2>2
<1>5. TypeOK'
  BY <1>3, <1>4 DEF RequestCommit, StateStep, IInv, TypeOK, drain, audit, lifecycle, boot, history
<1> QED BY <1>4, <1>5 DEF IInv

LEMMA AnnounceCommitInv ==
    ASSUME IInv, NEW c \in Writers, NEW isOk \in BOOLEAN, AnnounceCommit(c, isOk) PROVE IInv'
<1>1. /\ server # "down" /\ writer = c /\ inside = {} /\ proc[c] \in Process
      /\ proc[c].id \in Operations /\ proc[c].id # 0
      /\ \A d \in Writers \ {c} : proc[d].pc \notin {"request", "cancel"}
  BY OwnerFacts DEF AnnounceCommit
<1>2. UNCHANGED <<server, stopFor, result, entry>> /\ proc[Runner].pc # "due"
  BY DEF AnnounceCommit, OperationFree, lifecycle, boot
<1>3. StateStep
  <2>1. /\ New(c, "warning") \in State /\ New(c, "warning").id # 0
        /\ New(c, "failed") \in State /\ New(c, "failed").id # 0
    BY NewType DEF AnnounceCommit, Phases
  <2>2. \/ Commit(New(c, "warning"), isOk) \/ Commit(New(c, "failed"), TRUE)
        \/ state' = New(c, "warning") /\ disk' \in {New(c, "warning"), New(c, "failed")}
    BY DEF AnnounceCommit
  <2>3. CASE state' = New(c, "warning") /\ disk' \in {New(c, "warning"), New(c, "failed")}
    BY <1>1, <1>2, <2>1, <2>3 DEF StateStep
  <2> QED BY <1>1, <1>2, <2>1, <2>2, <2>3, CommitState
<1> DEFINE todo == <<Row(proc[c].id, IF isOk THEN "announced" ELSE "announcement_failed")>>
<1>4. /\ GateInv' /\ CarryInv' /\ waiting' \subseteq Writers /\ writer' \in Writers \cup {None}
      /\ proc' \in [Writers -> Process]
  <2>1. Keep(c, Completing(proc[c], todo))
    BY DEF AnnounceCommit
  <2>2. todo \in Seq(Completion) /\ todo # << >>
    BY <1>1, RowType DEF Outcomes
  <2>3. Completing(proc[c], todo) \in Process /\ Completing(proc[c], todo).pc = "complete"
        /\ Completing(proc[c], todo).todo = todo
    BY <1>1, <2>2, CompletingType DEF Completing, Process
  <2> HIDE DEF todo
  <2> QED BY <1>1, <1>2, <1>3, <2>1, <2>2, <2>3, KeepInv
<1>5. TypeOK'
  BY ZenonT(40), <1>3, <1>4 DEF AnnounceCommit, StateStep, IInv, TypeOK, drain, audit, lifecycle, boot, history
<1> QED BY <1>4, <1>5 DEF IInv

LEMMA ActivateInv ==
    ASSUME IInv, NEW c \in Writers, NEW isOk \in BOOLEAN, Activate(c, isOk) PROVE IInv'
<1>1. /\ server # "down" /\ writer = None /\ inside = {} /\ proc[c].pc = "waiting"
      /\ proc[c] \in Process /\ proc[c].id \in Operations \cup {0}
  BY HasGateFacts DEF Activate, Intents
<1>2. UNCHANGED <<server, stopFor, result, entry>> /\ proc[Runner].pc # "due"
  BY DEF Activate, OperationFree, lifecycle, boot
<1>3. StateStep
  <2>1. Activated(state) \in State /\ Activated(state).id = state.id
        /\ (state.phase = "preparing" => state.id # 0)
    BY DEF IInv, TypeOK, CarryInv, Activated, State, Phases
  <2> QED BY <1>1, <1>2, <2>1, CommitState, SameState DEF Activate
<1>4. /\ GateInv' /\ CarryInv' /\ waiting' \subseteq Writers /\ writer' \in Writers \cup {None}
      /\ proc' \in [Writers -> Process]
  <2>1. CASE isOk
    <3>1. Finish(c, Idle) /\ Idle \in Process /\ Idle.pc = "idle"
      BY <2>1, IdleType DEF Activate, Idle
    <3> QED BY <1>1, <1>2, <1>3, <3>1, FinishInv
  <2>2. CASE ~isOk
    BY <1>1, <1>2, <1>3, <2>2, GiveUpInv DEF Activate
  <2> QED BY <2>1, <2>2
<1>5. activated' \in Operations \cup {0}
  BY <1>1 DEF Activate, IInv, TypeOK
<1>6. TypeOK'
  BY <1>3, <1>4, <1>5 DEF Activate, StateStep, IInv, TypeOK, drain, audit, lifecycle, boot
<1> QED BY <1>4, <1>6 DEF IInv

LEMMA AbortInv ==
    ASSUME IInv, NEW c \in Writers, NEW isOk \in BOOLEAN, Abort(c, isOk) PROVE IInv'
<1>1. /\ server # "down" /\ writer = None /\ inside = {} /\ proc[c].pc = "waiting"
      /\ \A d \in Writers : proc[d].pc \notin {"request", "cancel"}
      /\ proc[c] \in Process /\ proc[c].id \in Operations
  BY HasGateFacts DEF Abort, Intents, IInv, CarryInv, HasGate
<1>2. UNCHANGED <<server, stopFor, result, entry>> /\ proc[Runner].pc # "due"
  BY DEF Abort, OperationFree, lifecycle, boot
<1>3. StateStep
  <2> DEFINE s == [state EXCEPT !.phase = "cancelled"]
  <2>1. s \in State /\ s.id = state.id /\ (state.phase = "preparing" => state.id # 0)
    BY DEF IInv, TypeOK, CarryInv, State, Phases
  <2>2. (Commit(s, isOk) /\ state.phase = "preparing") \/ control' = control
    BY DEF Abort
  <2> HIDE DEF s
  <2> QED BY <1>1, <1>2, <2>1, <2>2, CommitState, SameState
<1> DEFINE todo == <<Row(proc[c].id, "acceptance_not_flushed")>>
<1>4. /\ GateInv' /\ CarryInv' /\ waiting' \subseteq Writers /\ writer' \in Writers \cup {None}
      /\ proc' \in [Writers -> Process]
  <2>1. Keep(c, Completing(proc[c], todo)) \/ Finish(c, Idle)
    BY DEF Abort
  <2>2. todo \in Seq(Completion) /\ todo # << >>
    BY <1>1, RowType DEF Outcomes
  <2>3. Completing(proc[c], todo) \in Process /\ Completing(proc[c], todo).pc = "complete"
        /\ Completing(proc[c], todo).todo = todo
    BY <1>1, <2>2, CompletingType DEF Completing, Process
  <2>4. Idle \in Process /\ Idle.pc = "idle"
    BY IdleType DEF Idle
  <2> HIDE DEF todo
  <2>5. CASE Keep(c, Completing(proc[c], todo))
    BY <1>1, <1>2, <1>3, <2>2, <2>3, <2>5, KeepInv
  <2>6. CASE Finish(c, Idle)
    BY <1>1, <1>2, <1>3, <2>4, <2>6, FinishInv
  <2> QED BY <2>1, <2>5, <2>6
<1>5. TypeOK'
  BY <1>3, <1>4 DEF Abort, StateStep, IInv, TypeOK, drain, audit, lifecycle, boot, history
<1> QED BY <1>4, <1>5 DEF IInv

LEMMA CancelBeginInv == ASSUME IInv, NEW c \in Writers, CancelBegin(c) PROVE IInv'
<1>1. /\ server # "down" /\ writer = None /\ inside = {} /\ proc[c].pc = "waiting"
      /\ proc[Runner].pc = "due" => c # Runner
      /\ proc[c].id # 0
  BY HasGateFacts DEF CancelBegin, Intents, IInv, CarryInv, HasGate
<1>2. control' = control /\ UNCHANGED <<server, stopFor, result, entry>>
  BY DEF CancelBegin, lifecycle, boot
<1> DEFINE p == [Idle EXCEPT !.pc = "cancel", !.id = state.id, !.was = state.phase]
           Goal == /\ GateInv' /\ CarryInv' /\ waiting' \subseteq Writers /\ writer' \in Writers \cup {None}
                   /\ proc' \in [Writers -> Process]
                   /\ journal' \in [Operations -> Outcomes \cup {"none", "accepted"}]
                   /\ begun' \in 0 .. MaxOperations
<1>3. ASSUME Finish(c, Idle), UNCHANGED <<journal, begun>> PROVE Goal
  <2>1. Idle \in Process /\ Idle.pc = "idle" /\ StateStep
    BY <1>2, IdleType, SameState DEF Idle
  <2>2. GateInv' /\ CarryInv' /\ waiting' \subseteq Writers /\ writer' \in Writers \cup {None}
        /\ proc' \in [Writers -> Process]
    BY <1>1, <1>2, <1>3, <2>1, FinishInv
  <2> QED BY <1>3, <2>2 DEF IInv, TypeOK
<1>4. ASSUME Begin(c, p), state.id = proc[c].id PROVE Goal
  <2>1. state.id \in Operations /\ state.phase \in Phases
    BY <1>1, <1>4 DEF IInv, TypeOK, State
  <2>2. p \in Process
    <3>1. "none" \in ActionNames
      BY DEF ActionNames
    <3> QED BY <2>1, <3>1, BegunType
  <2>3. p.pc = "cancel" /\ p.id = state.id
    BY DEF Idle
  <2> HIDE DEF p
  <2> QED BY <1>1, <1>2, <1>4, <2>1, <2>2, <2>3, BeginInv
<1>5. Goal
  BY <1>3, <1>4 DEF CancelBegin, CanCancel
<1>6. TypeOK'
  BY <1>5 DEF CancelBegin, IInv, TypeOK, control, drain, lifecycle, boot, history
<1> QED BY <1>5, <1>6 DEF IInv

\* A writer that goes on, with the gate as it was.
LEMMA BecomeInv ==
    ASSUME IInv, NEW c \in Writers, NEW p \in Process, Become(c, p),
           server # "down", proc[Runner].pc = "due" => c # Runner,
           p.pc \in {"idle", "complete", "write"}, p.pc # "idle" => p.todo # << >>,
           UNCHANGED <<server, stopFor, result, gate>>, StateStep
    PROVE  GateInv' /\ CarryInv' /\ proc' \in [Writers -> Process]
<1>1. TypeOK
  BY DEF IInv
<1>2. /\ proc' \in [Writers -> Process] /\ proc'[c] = p
      /\ \A d \in Writers \ {c} : proc'[d] = proc[d]
  BY <1>1, BecomeType
<1>3. GateInv'
  BY <1>2 DEF IInv, GateInv, StateStep, inside, Writers, gate
<1>4. CarryInv'
  BY <1>2 DEF IInv, CarryInv, StateStep, Matches, IsFinal
<1> QED BY <1>2, <1>3, <1>4

\* The row at hand.
LEMMA HeadFacts ==
    ASSUME IInv, NEW c \in Writers, proc[c].pc \in {"cancel", "complete", "write"}
    PROVE  /\ server # "down" /\ (proc[Runner].pc = "due" => c # Runner)
           /\ proc[c] \in Process /\ proc[c].id \in Operations \cup {0}
           /\ proc[c].todo \in Seq(Completion) /\ proc[c].todo # << >>
           /\ Head(proc[c].todo) \in Completion /\ Tail(proc[c].todo) \in Seq(Completion)
           /\ Head(proc[c].todo) = proc[c].todo[1] /\ 1 \in 1 .. Len(proc[c].todo)
           /\ Head(proc[c].todo).id \in Operations /\ Head(proc[c].todo).outcome \in Outcomes
<1>1. proc[c] \in Process /\ proc[c].id \in Operations \cup {0} /\ proc[c].todo \in Seq(Completion)
  BY ProcessFields DEF IInv, TypeOK
<1>2. server # "down" /\ proc[c].todo # << >> /\ (proc[Runner].pc = "due" => c # Runner)
  BY DEF IInv, GateInv, CarryInv, Idle
<1>3. Head(proc[c].todo) \in Completion /\ Tail(proc[c].todo) \in Seq(Completion)
      /\ Head(proc[c].todo) = proc[c].todo[1] /\ 1 \in 1 .. Len(proc[c].todo)
  BY <1>1, <1>2, HeadTailProperties, EmptySeq, LenProperties
<1> QED BY <1>1, <1>2, <1>3 DEF Completion

LEMMA CancelCommitInv ==
    ASSUME IInv, NEW c \in Writers, NEW isOk \in BOOLEAN, CancelCommit(c, isOk) PROVE IInv'
<1>1. /\ server # "down" /\ proc[c] \in Process /\ proc[c].id \in Operations /\ proc[c].id # 0
      /\ writer = c /\ inside = {} /\ Head(proc[c].todo).id \in Operations
  BY OwnerFacts, HeadFacts DEF CancelCommit
<1>2. UNCHANGED <<server, stopFor, result, entry, gate>> /\ proc[Runner].pc # "due"
  BY DEF CancelCommit, OperationFree, lifecycle, boot, gate
<1>3. StateStep /\ released' \subseteq Operations
  <2> DEFINE s == [state EXCEPT !.phase = "cancelled"]
  <2>1. s \in State /\ s.id = state.id
    BY DEF IInv, TypeOK, State, Phases
  <2>2. CASE CanCancel(proc[c].id)
    <3>1. Commit(s, isOk) /\ s.id # 0 /\ released' = released \cup {proc[c].id}
      BY <1>1, <2>1, <2>2 DEF CancelCommit, CanCancel
    <3> HIDE DEF s
    <3> QED BY <1>1, <1>2, <2>1, <3>1, CommitState DEF IInv, TypeOK
  <2>3. CASE ~CanCancel(proc[c].id)
    <3>1. control' = control /\ released' = released
      BY <2>3 DEF CancelCommit
    <3> QED BY <3>1, SameState DEF IInv, TypeOK
  <2> QED BY <2>2, <2>3
<1> DEFINE own == Head(proc[c].todo).id
           outcome == IF proc[c].was = "held" THEN "held" ELSE "cancelled"
           todo == IF isOk THEN <<Row(own, "cancelled"), Row(proc[c].id, outcome)>>
                           ELSE <<Row(own, "cancel_failed")>>
<1>4. todo \in Seq(Completion) /\ todo # << >>
  <2>1. /\ Row(own, "cancelled") \in Completion /\ Row(proc[c].id, outcome) \in Completion
        /\ Row(own, "cancel_failed") \in Completion
    BY <1>1, RowType DEF Outcomes
  <2> HIDE DEF own, outcome
  <2> QED BY <2>1
<1>5. GateInv' /\ CarryInv' /\ proc' \in [Writers -> Process]
  <2>1. Become(c, Completing(proc[c], todo))
    BY DEF CancelCommit
  <2> HIDE DEF todo
  <2>2. Completing(proc[c], todo) \in Process /\ Completing(proc[c], todo).pc = "complete"
        /\ Completing(proc[c], todo).todo = todo
    BY <1>1, <1>4, CompletingType DEF Completing, Process
  <2> QED BY <1>1, <1>2, <1>3, <1>4, <2>1, <2>2, BecomeInv
<1>6. TypeOK'
  BY <1>3, <1>5 DEF CancelCommit, StateStep, IInv, TypeOK, gate, drain, audit, lifecycle, boot
<1> QED BY <1>5, <1>6 DEF IInv

-----------------------------------------------------------------------------
(* The journal and the reconciler. *)

LEMMA CompleteLookInv == ASSUME IInv, NEW c \in Writers, CompleteLook(c) PROVE IInv'
<1> DEFINE todo == proc[c].todo
           row == Head(todo)
           x == IF completions[row.id] = None THEN todo[1].outcome ELSE completions[row.id]
           p == [proc[c] EXCEPT !.pc = "write", !.todo[1].outcome = x]
<1>1. /\ server # "down" /\ (proc[Runner].pc = "due" => c # Runner) /\ proc[c] \in Process
      /\ todo \in Seq(Completion) /\ todo # << >> /\ row = todo[1] /\ 1 \in 1 .. Len(todo)
      /\ row \in Completion /\ row.id \in Operations /\ row.outcome \in Outcomes
  BY HeadFacts DEF CompleteLook
<1>2. x \in Outcomes
  BY <1>1 DEF IInv, TypeOK
<1>3. Become(c, p)
  BY DEF CompleteLook
<1> HIDE DEF x, row
<1>4. [todo EXCEPT ![1].outcome = x] \in Seq(Completion) /\ [todo EXCEPT ![1].outcome = x] # << >>
  <2>1. [todo[1] EXCEPT !.outcome = x] \in Completion
    BY <1>1, <1>2 DEF Completion
  <2>2. [todo EXCEPT ![1].outcome = x] = [todo EXCEPT ![1] = [todo[1] EXCEPT !.outcome = x]]
    OBVIOUS
  <2> HIDE DEF todo
  <2>3. [todo EXCEPT ![1] = [todo[1] EXCEPT !.outcome = x]] \in Seq(Completion)
        /\ Len([todo EXCEPT ![1] = [todo[1] EXCEPT !.outcome = x]]) = Len(todo)
    BY <1>1, <2>1, ExceptSeq
  <2>4. Len(todo) # 0
    BY <1>1
  <2> QED BY <2>2, <2>3, <2>4
<1>5. p \in Process /\ p.pc = "write" /\ p.todo # << >>
  <2>1. p = [proc[c] EXCEPT !.pc = "write", !.todo = [todo EXCEPT ![1].outcome = x]]
    BY DEF Process
  <2> QED BY <1>1, <1>4, <2>1 DEF Process
<1>6. control' = control /\ UNCHANGED <<server, stopFor, result, gate>>
  BY DEF CompleteLook, lifecycle, boot
<1> HIDE DEF p
<1>7. GateInv' /\ CarryInv' /\ proc' \in [Writers -> Process]
  BY <1>1, <1>3, <1>5, <1>6, BecomeInv, SameState
<1>8. TypeOK'
  BY <1>7 DEF CompleteLook, IInv, TypeOK, control, gate, drain, audit, lifecycle, boot, history
<1> QED BY <1>7, <1>8 DEF IInv

LEMMA JournalledType ==
    ASSUME TypeOK, NEW id \in Operations, NEW outcome \in Outcomes
    PROVE  Journalled(id, outcome) \in [Operations -> Outcomes \cup {"none", "accepted"}]
  BY DEF TypeOK, Journalled

LEMMA CompleteWriteInv ==
    ASSUME IInv, NEW c \in Writers, NEW isOk \in BOOLEAN, CompleteWrite(c, isOk) PROVE IInv'
<1> DEFINE row  == Head(proc[c].todo)
           rest == Tail(proc[c].todo)
<1>1. /\ server # "down" /\ (proc[Runner].pc = "due" => c # Runner) /\ proc[c] \in Process
      /\ row.id \in Operations /\ row.outcome \in Outcomes /\ rest \in Seq(Completion)
  BY HeadFacts DEF CompleteWrite
<1>2. StateStep /\ UNCHANGED <<server, stopFor, result, entry>> /\ TypeOK
  BY SameState DEF CompleteWrite, lifecycle, boot, IInv
<1>3. /\ journal' \in [Operations -> Outcomes \cup {"none", "accepted"}]
      /\ completions' \in [Operations -> Outcomes \cup {None}]
      /\ reported' \in [id : Operations \cup {0}, phase : Phases]
  <2>1. journal' \in {journal, Journalled(row.id, row.outcome)}
    BY DEF CompleteWrite
  <2>2. proc[c].was \in Phases
    BY <1>1, ProcessFields
  <2>3. reported' \in {reported, [id |-> row.id, phase |-> proc[c].was]}
    BY DEF CompleteWrite
  <2>4. completions' \in {completions, [completions EXCEPT ![row.id] = None],
                          [completions EXCEPT ![row.id] = row.outcome]}
    BY DEF CompleteWrite
  <2>5. [id |-> row.id, phase |-> proc[c].was] \in [id : Operations \cup {0}, phase : Phases]
    BY <1>1, <2>2
  <2> HIDE DEF row
  <2>6. journal' \in [Operations -> Outcomes \cup {"none", "accepted"}]
    BY <1>1, <1>2, <2>1, JournalledType DEF TypeOK
  <2>7. completions' \in [Operations -> Outcomes \cup {None}]
    BY <1>1, <1>2, <2>4 DEF TypeOK
  <2> QED BY <1>2, <2>3, <2>5, <2>6, <2>7 DEF TypeOK
<1>4. GateInv' /\ CarryInv' /\ waiting' \subseteq Writers /\ writer' \in Writers \cup {None}
      /\ proc' \in [Writers -> Process]
  <2>1. CASE rest # << >>
    <3>1. Become(c, Completing(proc[c], rest)) /\ UNCHANGED gate
      BY <2>1 DEF CompleteWrite, gate
    <3> HIDE DEF rest
    <3>2. Completing(proc[c], rest) \in Process /\ Completing(proc[c], rest).pc = "complete"
          /\ Completing(proc[c], rest).todo = rest
      BY <1>1, CompletingType DEF Completing, Process
    <3> QED BY <1>1, <1>2, <2>1, <3>1, <3>2, BecomeInv DEF TypeOK, gate
  <2>2. CASE rest = << >>
    <3>1. Finish(c, Idle) /\ Idle \in Process /\ Idle.pc = "idle"
      BY <2>2, IdleType DEF CompleteWrite, Idle
    <3> QED BY <1>1, <1>2, <3>1, FinishInv
  <2> QED BY <2>1, <2>2
<1>5. TypeOK'
  BY <1>3, <1>4 DEF CompleteWrite, IInv, TypeOK, control, drain, lifecycle, boot, history
<1> QED BY <1>4, <1>5 DEF IInv

LEMMA RetryCompletionInv == ASSUME IInv, NEW o \in Operations, RetryCompletion(o) PROVE IInv'
<1> DEFINE todo == <<Row(o, completions[o])>>
           p == Completing([Idle EXCEPT !.intent = "retry"], todo)
<1>1. Reconciler \in Writers /\ Runner # Reconciler /\ server # "down"
  BY WritersAssumption DEF RetryCompletion, Writers
<1>2. todo \in Seq(Completion) /\ todo # << >>
  <2>1. completions[o] \in Outcomes
    BY DEF RetryCompletion, IInv, TypeOK
  <2> QED BY <2>1, RowType
<1>3. p \in Process /\ p.pc = "complete" /\ p.todo # << >>
  <2>1. [Idle EXCEPT !.intent = "retry"] \in Process
    BY IdleType DEF Process
  <2> HIDE DEF todo
  <2>2. p.pc = "complete" /\ p.todo = todo
    BY <2>1 DEF Completing, Process
  <2> QED BY <1>2, <2>1, <2>2, CompletingType
<1>4. Become(Reconciler, p) /\ control' = control /\ UNCHANGED <<server, stopFor, result, gate>>
  BY DEF RetryCompletion, lifecycle, boot
<1> HIDE DEF p
<1>5. GateInv' /\ CarryInv' /\ proc' \in [Writers -> Process]
  BY <1>1, <1>3, <1>4, BecomeInv, SameState
<1>6. TypeOK'
  BY <1>5 DEF RetryCompletion, IInv, TypeOK, control, gate, drain, audit, lifecycle, boot, history
<1> QED BY <1>5, <1>6 DEF IInv

LEMMA ReportingType ==
    ASSUME NEW id \in Operations, NEW phase \in Phases, NEW outcome \in Outcomes
    PROVE  /\ Reporting(id, phase, outcome) \in Process
           /\ Reporting(id, phase, outcome).pc = "complete" /\ Reporting(id, phase, outcome).todo # << >>
<1> DEFINE todo == <<Row(id, outcome)>>
<1>1. todo \in Seq(Completion) /\ todo # << >>
  BY RowType
<1> HIDE DEF todo
<1>2. Completing(Idle, todo) \in Process /\ Completing(Idle, todo).pc = "complete"
      /\ Completing(Idle, todo).todo = todo
  BY <1>1, IdleType, CompletingType DEF Completing, Process
<1>3. Reporting(id, phase, outcome) = [Completing(Idle, todo) EXCEPT !.intent = "resolve", !.id = id, !.was = phase]
  BY DEF Reporting, todo
<1> QED BY <1>1, <1>2, <1>3 DEF Process

LEMMA ReconcileLookInv == ASSUME IInv, ReconcileLook PROVE IInv'
<1>1. Reconciler \in Writers /\ Runner # Reconciler /\ server # "down"
  BY WritersAssumption DEF ReconcileLook, Writers
<1>2. state.id \in Operations /\ state.phase \in Phases /\ StateStep
      /\ UNCHANGED <<server, stopFor, result, entry, writer>>
  BY SameState DEF ReconcileLook, IInv, TypeOK, State, lifecycle, boot
<1> DEFINE p == Reporting(state.id, state.phase, OutcomeOf(state.phase))
<1>3. GateInv' /\ CarryInv' /\ waiting' \subseteq Writers /\ writer' \in Writers \cup {None}
      /\ proc' \in [Writers -> Process]
  <2>1. CASE OutcomeOf(state.phase) # None /\ Become(Reconciler, p) /\ UNCHANGED waiting
    <3>1. OutcomeOf(state.phase) \in Outcomes
      BY <2>1 DEF OutcomeOf, Outcomes
    <3>2. p \in Process /\ p.pc = "complete" /\ p.todo # << >>
      BY <1>2, <3>1, ReportingType
    <3> HIDE DEF p
    <3> QED BY <1>1, <1>2, <2>1, <3>2, BecomeInv DEF gate, IInv, TypeOK
  <2>2. CASE /\ Matches(result, state.id) /\ IsFinal(result)
             /\ Wait(Reconciler, "resolve", "none", state.id)
    <3>1. "resolve" \in Intents /\ "none" \in ActionNames /\ state.id # 0
      BY DEF Intents, ActionNames, ReconcileLook
    <3> QED BY <1>1, <1>2, <2>2, <3>1, WaitingInv
  <2> QED BY <2>1, <2>2 DEF ReconcileLook
<1>4. TypeOK'
  BY <1>3 DEF ReconcileLook, IInv, TypeOK, control, drain, audit, lifecycle, boot, history
<1> QED BY <1>3, <1>4 DEF IInv

LEMMA ReconcileResolveInv ==
    ASSUME IInv, NEW isOk \in BOOLEAN, ReconcileResolve(isOk) PROVE IInv'
<1> DEFINE id == proc[Reconciler].id
           s  == Resolved(state, result.phase)
<1>1. Reconciler \in Writers /\ Runner # Reconciler
  BY WritersAssumption DEF Writers
<1>2. /\ server # "down" /\ inside = {} /\ proc[Reconciler].pc = "waiting" /\ id \in Operations \cup {0}
      /\ proc[Reconciler].intent = "resolve"
  BY <1>1, HasGateFacts DEF ReconcileResolve, Intents
<1>3. id # 0 /\ result \in Result /\ IsFinal(result)
  BY <1>1, <1>2 DEF IInv, TypeOK, CarryInv, Matches
<1>4. s \in State /\ s.id = state.id /\ s.phase \in Phases
  BY DEF IInv, TypeOK, Resolved, State, Phases
<1>5. UNCHANGED <<server, stopFor, result, entry>> /\ proc[Runner].pc # "due"
  BY DEF ReconcileResolve, OperationFree, lifecycle, boot
<1>6. StateStep
  <2>1. (Commit(s, isOk) /\ state.id = id) \/ control' = control
    BY DEF ReconcileResolve
  <2> HIDE DEF s
  <2> QED BY <1>2, <1>3, <1>4, <1>5, <2>1, CommitState, SameState
<1>7. GateInv' /\ CarryInv' /\ waiting' \subseteq Writers /\ writer' \in Writers \cup {None}
      /\ proc' \in [Writers -> Process]
  <2> DEFINE p == IF isOk THEN Reporting(id, s.phase, ResultOutcome(result)) ELSE Idle
  <2>1. ResultOutcome(result) \in Outcomes
    BY <1>3 DEF ResultOutcome, IsFinal, Outcomes
  <2>2. /\ Reporting(id, s.phase, ResultOutcome(result)) \in Process
        /\ Reporting(id, s.phase, ResultOutcome(result)).pc = "complete"
        /\ Reporting(id, s.phase, ResultOutcome(result)).todo # << >>
    BY <1>2, <1>3, <1>4, <2>1, ReportingType
  <2>3. Finish(Reconciler, p)
    BY DEF ReconcileResolve
  <2>4. p \in Process /\ p.pc \in {"idle", "complete"} /\ (p.pc = "complete" => p.todo # << >>)
    BY <2>2, IdleType DEF Idle
  <2> HIDE DEF p
  <2> QED BY <1>1, <1>2, <1>5, <1>6, <2>3, <2>4, FinishInv
<1>8. TypeOK'
  BY <1>6, <1>7 DEF ReconcileResolve, StateStep, IInv, TypeOK, drain, audit, lifecycle, boot, history
<1> QED BY <1>7, <1>8 DEF IInv

-----------------------------------------------------------------------------
(* The schedule. *)

LEMMA AdvanceLookInv == ASSUME IInv, AdvanceLook PROVE IInv'
<1> DEFINE p == [Idle EXCEPT !.pc = "due"]
<1>1. Runner \in Writers /\ TypeOK
  BY DEF Writers, IInv
<1>2. p \in Process /\ p.pc = "due" /\ Become(Runner, p)
  BY IdleType DEF Idle, Process, AdvanceLook
<1>3. UNCHANGED <<state, gate, server, stopFor, result>> /\ disk' \in {disk, state} /\ server # "down"
  BY DEF AdvanceLook, lifecycle, boot
<1> HIDE DEF p
<1>4. proc' \in [Writers -> Process] /\ proc'[Runner] = p /\ \A d \in Writers \ {Runner} : proc'[d] = proc[d]
  BY <1>1, <1>2, BecomeType
<1>5. GateInv'
  BY <1>1, <1>2, <1>3, <1>4 DEF AdvanceLook, IInv, GateInv, gate, inside, IsBlocked, IsActive
<1>6. CarryInv'
  BY <1>1, <1>2, <1>3, <1>4 DEF IInv, CarryInv, Matches, IsFinal
<1>7. TypeOK'
  BY <1>3, <1>4 DEF AdvanceLook, IInv, TypeOK, gate, drain, audit, lifecycle, boot, history
<1> QED BY <1>5, <1>6, <1>7 DEF IInv

\* What advance makes of a state is still blocked.
LEMMA AdvanceState ==
    ASSUME IInv
    PROVE  /\ Draining \in State /\ Ended(state) \in State
           /\ Draining.id = state.id /\ Ended(state).id = state.id
           /\ IsActive(state) /\ ~IsBlocked(state) => ~IsBlocked(Ended(state))
           /\ IsActive(state) => IsActive(Ended(state)) /\ state.id # 0
  BY DEF IInv, TypeOK, CarryInv, Draining, Ended, State, Phases, IsBlocked, IsActive

\* The runner's step once it has looked: it holds no part of the gate.
LEMMA RunnerInv ==
    ASSUME IInv, NEW p \in Process, Become(Runner, p), p.pc \in {"idle", "drain", "stop", "done"},
           UNCHANGED <<gate, result>>, server # "down", server' # "down",
           stopFor' # 0 => state'.id # 0, state' \in State, disk' \in State,
           state'.phase # "none" => state'.id # 0, disk'.phase # "none" => disk'.id # 0,
           ~IsBlocked(state) => ~IsBlocked(state')
    PROVE  GateInv' /\ CarryInv' /\ proc' \in [Writers -> Process]
<1>1. Runner \in Writers /\ TypeOK
  BY DEF Writers, IInv
<1>2. proc' \in [Writers -> Process] /\ proc'[Runner] = p /\ \A d \in Writers \ {Runner} : proc'[d] = proc[d]
  BY <1>1, BecomeType
<1>3. GateInv'
  BY <1>1, <1>2 DEF IInv, GateInv, gate, inside
<1>4. CarryInv'
  BY <1>1, <1>2 DEF IInv, CarryInv, Matches, IsFinal
<1> QED BY <1>2, <1>3, <1>4

LEMMA AdvanceDecideInv == ASSUME IInv, NEW isOk \in BOOLEAN, AdvanceDecide(isOk) PROVE IInv'
<1>1. Runner \in Writers /\ TypeOK /\ server # "down" /\ IsBlocked(state) /\ IsActive(state)
  BY DEF Writers, IInv, GateInv, Idle, AdvanceDecide, IsBlocked
<1>2. UNCHANGED <<gate, result, server, stopFor>>
  BY DEF AdvanceDecide, lifecycle, boot
<1>3. /\ state' \in State /\ disk' \in State
      /\ (state'.phase # "none" => state'.id # 0) /\ (disk'.phase # "none" => disk'.id # 0)
      /\ (stopFor' # 0 => state'.id # 0)
  <2>1. \/ control' = control \/ Commit(Draining, isOk) \/ Commit(Ended(state), isOk)
    BY DEF AdvanceDecide
  <2>2. Draining.id = state.id /\ Ended(state).id = state.id /\ state.id # 0
    BY <1>1, AdvanceState
  <2> QED BY <1>1, <1>2, <2>1, <2>2, AdvanceState DEF control, Commit, TypeOK, IInv, CarryInv
<1>4. PICK p \in Process : Become(Runner, p) /\ p.pc \in {"idle", "drain", "stop"}
  <2>1. Idle \in Process /\ Idle.pc = "idle"
    BY IdleType DEF Idle
  <2>2. /\ [Idle EXCEPT !.pc = "stop"] \in Process /\ [Idle EXCEPT !.pc = "stop"].pc = "stop"
        /\ [Idle EXCEPT !.pc = "idle"] \in Process /\ [Idle EXCEPT !.pc = "idle"].pc = "idle"
    BY IdleType DEF Process, Idle
  <2>3. /\ [Idle EXCEPT !.pc = "drain", !.id = state.id, !.was = state.phase] \in Process
        /\ [Idle EXCEPT !.pc = "drain", !.id = state.id, !.was = state.phase].pc = "drain"
    BY <1>1, IdleType DEF Process, Idle, TypeOK, State
  <2>4. \/ Become(Runner, Idle)
        \/ Become(Runner, [Idle EXCEPT !.pc = "drain", !.id = state.id, !.was = state.phase])
        \/ Become(Runner, [Idle EXCEPT !.pc = "stop"]) \/ Become(Runner, [Idle EXCEPT !.pc = "idle"])
    BY DEF AdvanceDecide
  <2> QED BY <2>1, <2>2, <2>3, <2>4
<1>5. GateInv' /\ CarryInv' /\ proc' \in [Writers -> Process]
  BY <1>1, <1>2, <1>3, <1>4, RunnerInv
<1>6. draining' \subseteq Players /\ isDrainError' \in BOOLEAN
  BY <1>1 DEF AdvanceDecide, drain, TypeOK
<1>7. TypeOK'
  BY <1>3, <1>5, <1>6 DEF AdvanceDecide, IInv, TypeOK, gate, audit, lifecycle, boot, history
<1> QED BY <1>5, <1>7 DEF IInv

LEMMA DrainEndInv == ASSUME IInv, NEW isOk \in BOOLEAN, DrainEnd(isOk) PROVE IInv'
<1>1. Runner \in Writers /\ TypeOK /\ server # "down"
  BY DEF Writers, IInv, GateInv, Idle, DrainEnd
<1>2. UNCHANGED <<gate, result, server, stopFor>>
  BY DEF DrainEnd, lifecycle, boot
<1>3. \/ control' = control \/ (Commit(Ended(state), isOk) /\ IsActive(state))
  BY DEF DrainEnd
<1>4. /\ state' \in State /\ disk' \in State
      /\ (state'.phase # "none" => state'.id # 0) /\ (disk'.phase # "none" => disk'.id # 0)
      /\ (stopFor' # 0 => state'.id # 0) /\ (~IsBlocked(state) => ~IsBlocked(state'))
  BY <1>1, <1>2, <1>3, AdvanceState DEF control, Commit, TypeOK, IInv, CarryInv
<1>5. Idle \in Process /\ Idle.pc = "idle" /\ Become(Runner, Idle)
  BY IdleType DEF Idle, DrainEnd
<1>6. GateInv' /\ CarryInv' /\ proc' \in [Writers -> Process]
  BY <1>1, <1>2, <1>4, <1>5, RunnerInv
<1>7. TypeOK'
  BY <1>4, <1>6 DEF DrainEnd, IInv, TypeOK, gate, drain, audit, lifecycle, boot, history
<1> QED BY <1>6, <1>7 DEF IInv

LEMMA RunnerStopInv == ASSUME IInv, RunnerStop PROVE IInv'
<1> DEFINE p == [Idle EXCEPT !.pc = "done"]
<1>1. Runner \in Writers /\ TypeOK /\ server # "down"
  BY DEF Writers, IInv, GateInv, Idle, RunnerStop
<1>2. p \in Process /\ p.pc = "done" /\ Become(Runner, p)
  BY IdleType DEF Idle, Process, RunnerStop
<1>3. UNCHANGED <<control, gate, result>> /\ server' \in {"up", "closing"} /\ stopFor' \in {stopFor, state.id}
  BY <1>1 DEF RunnerStop, boot, TypeOK
<1>4. state' \in State /\ disk' \in State /\ UNCHANGED <<state, disk>> /\ (stopFor' # 0 => state'.id # 0)
      /\ (state'.phase # "none" => state'.id # 0) /\ (disk'.phase # "none" => disk'.id # 0)
  BY <1>1, <1>3 DEF control, TypeOK, IInv, CarryInv
<1> HIDE DEF p
<1>5. GateInv' /\ CarryInv' /\ proc' \in [Writers -> Process]
  BY <1>1, <1>2, <1>3, <1>4, RunnerInv
<1>6. stopFor' \in Operations \cup {0}
  BY <1>1, <1>3 DEF TypeOK, State
<1>7. TypeOK'
  BY <1>1, <1>3, <1>4, <1>5, <1>6 DEF RunnerStop, IInv, TypeOK, gate, drain, audit, boot, history
<1> QED BY <1>5, <1>7 DEF IInv

-----------------------------------------------------------------------------
(* The end of the process, and the supervisor. *)

LEMMA AuditedType ==
    ASSUME TypeOK, NEW r \in Result, IsFinal(r), Audited(r)
    PROVE  /\ journal' \in [Operations -> Outcomes \cup {"none", "accepted"}]
           /\ released' \subseteq Operations
<1>1. r.id \in Operations /\ ResultOutcome(r) \in Outcomes
  BY DEF Result, ResultOutcome, IsFinal, Outcomes
<1>2. journal' \in {journal, Journalled(r.id, ResultOutcome(r))} /\ released' \in {released, released \cup {r.id}}
  BY DEF Audited
<1> QED BY <1>1, <1>2, JournalledType DEF TypeOK

LEMMA FailedType ==
    ASSUME NEW r \in Result
    PROVE  Failed(r) \in Result /\ Failed(r).id = r.id /\ Failed(r).phase = "failed" /\ IsFinal(Failed(r))
  BY DEF Result, Failed, IsFinal

LEMMA ChildEndedType ==
    ASSUME TypeOK, NEW isGone \in BOOLEAN, ChildEnded(isGone)
    PROVE  /\ journal' \in [Operations -> Outcomes \cup {"none", "accepted"}]
           /\ released' \subseteq Operations /\ result' \in Result \cup {None}
<1>1. CASE result # None /\ IsFinal(result) /\ UNCHANGED result /\ Audited(result)
  <2>1. result \in Result
    BY <1>1 DEF TypeOK
  <2> QED BY <1>1, <2>1, AuditedType DEF TypeOK
<1>2. CASE IsPending(result) /\ result' = Failed(result) /\ Audited(Failed(result))
  <2>1. result \in Result
    BY <1>2 DEF TypeOK, IsPending
  <2>2. Failed(result) \in Result /\ IsFinal(Failed(result))
    BY <2>1, FailedType
  <2> QED BY <1>2, <2>2, AuditedType
<1>3. CASE UNCHANGED <<result, journal, released>>
  BY <1>3 DEF TypeOK
<1> QED BY <1>1, <1>2, <1>3 DEF ChildEnded

\* A process that ended leaves nothing but what is on disk.
LEMMA ExitInv ==
    ASSUME IInv, NEW canConsume, Exit(canConsume),
           disk' \in State, disk'.phase # "none" => disk'.id # 0
    PROVE  /\ GateInv' /\ CarryInv'
           /\ state' \in State /\ writer' \in Writers \cup {None} /\ waiting' \subseteq Writers
           /\ entry' \in [Players -> {"out", "trying", "in"}] /\ game' \in [Players -> {"none", "lobby", "active"}]
           /\ proc' \in [Writers -> Process] /\ draining' \subseteq Players /\ isDrainError' \in BOOLEAN
           /\ completions' \in [Operations -> Outcomes \cup {None}]
           /\ reported' \in [id : Operations \cup {0}, phase : Phases]
           /\ server' = "down" /\ stopFor' = 0 /\ isExternal' \in BOOLEAN /\ isHealthy' \in BOOLEAN
<1>1. GateInv'
  BY WritersAssumption DEF Exit, GateInv, inside, Idle, Writers
<1>2. CarryInv'
  BY DEF Exit, CarryInv, Idle, NoState
<1>3. Nothing \in [id : Operations \cup {0}, phase : Phases]
  BY DEF Nothing, Phases
<1> QED BY <1>1, <1>2, <1>3, IdleType DEF Exit

LEMMA CrashInv == ASSUME IInv, NEW isPowerLoss \in BOOLEAN, Crash(isPowerLoss) PROVE IInv'
<1>1. TypeOK /\ disk' = disk /\ disk' \in State /\ (disk'.phase # "none" => disk'.id # 0)
  BY DEF Crash, IInv, TypeOK, CarryInv
<1>2. Exit(isPowerLoss) /\ ChildEnded(isPowerLoss)
  BY DEF Crash
<1>3. restarts' \in 0 .. MaxRestarts
  BY <1>1, BoundAssumption DEF Crash, TypeOK
<1>4. mayConsume' \in BOOLEAN
  BY <1>2, ActionsAssumption DEF Exit
<1>5. TypeOK'
  BY <1>1, <1>2, <1>3, <1>4, ExitInv, ChildEndedType DEF Crash, TypeOK
<1> QED BY <1>1, <1>2, <1>5, ExitInv DEF IInv

LEMMA ShutdownInv ==
    ASSUME IInv, NEW isClean \in BOOLEAN, NEW isGone \in BOOLEAN, Shutdown(isClean, isGone) PROVE IInv'
<1>1. TypeOK
  BY DEF IInv
<1>2. /\ disk' \in State /\ (disk'.phase # "none" => disk'.id # 0)
      /\ request' \in Operations \cup {0}
  <2>1. disk' \in {disk, [state EXCEPT !.phase = "failed"]} /\ request' \in {request, stopFor}
    BY DEF Shutdown
  <2>2. disk' = disk \/ state.id # 0
    BY DEF Shutdown, IInv, CarryInv
  <2> QED BY <1>1, <2>1, <2>2 DEF TypeOK, State, Phases, IInv, CarryInv
<1>3. Exit(isGone \/ (isClean /\ isHealthy)) /\ ChildEnded(isGone)
  BY DEF Shutdown
<1>4. mayConsume' \in BOOLEAN
  BY <1>1, <1>3, ActionsAssumption DEF Exit
<1>5. TypeOK'
  BY <1>1, <1>2, <1>3, <1>4, ExitInv, ChildEndedType DEF Shutdown, TypeOK
<1> QED BY <1>2, <1>3, <1>5, ExitInv DEF IInv

LEMMA ExternalStopInv == ASSUME IInv, ExternalStop PROVE IInv'
<1> USE DEF ExternalStop, control, gate, drain, audit, boot, history
<1>1. TypeOK'
  BY BoundAssumption DEF IInv, TypeOK
<1>2. GateInv'
  BY DEF IInv, GateInv, inside, IsBlocked, IsActive
<1>3. CarryInv'
  BY DEF IInv, CarryInv, Matches, IsFinal
<1> QED BY <1>1, <1>2, <1>3 DEF IInv

\* The supervisor's steps beside a server that is up leave a final result final.
LEMMA BesideInv ==
    ASSUME IInv, TypeOK', UNCHANGED <<control, gate, proc, server, stopFor>>,
           result # None /\ IsFinal(result) =>
               result' # None /\ result'.id = result.id /\ IsFinal(result')
    PROVE  IInv'
<1> USE DEF control, gate
<1>1. GateInv'
  BY DEF IInv, GateInv, IsBlocked, IsActive, inside
<1>2. CarryInv'
  BY DEF IInv, CarryInv, Matches
<1> QED BY <1>1, <1>2 DEF IInv

LEMMA StartupTimeoutInv == ASSUME IInv, StartupTimeout PROVE IInv'
<1>1. result \in Result /\ TypeOK
  BY DEF StartupTimeout, IsPending, IInv, TypeOK
<1>2. Failed(result) \in Result /\ Failed(result).id = result.id /\ IsFinal(Failed(result))
  BY <1>1, FailedType
<1>3. result' = Failed(result) /\ Audited(result')
  BY DEF StartupTimeout
<1>4. TypeOK'
  BY <1>1, <1>2, <1>3, AuditedType DEF StartupTimeout, TypeOK, control, gate, drain, lifecycle
<1>5. result' # None
  BY <1>2, <1>3, WritersAssumption
<1> QED BY <1>2, <1>3, <1>4, <1>5, BesideInv DEF StartupTimeout, lifecycle

LEMMA BecomeHealthyInv == ASSUME IInv, BecomeHealthy PROVE IInv'
<1>1. TypeOK /\ UNCHANGED <<control, gate, proc, server, stopFor>>
  BY DEF IInv, BecomeHealthy
<1>2. CASE IsPending(result)
  <2>1. result \in Result /\ result.phase \notin {"failed", "healthy", "rolled_back"}
    BY <1>1, <1>2 DEF BecomeHealthy, IsPending, TypeOK
  <2> DEFINE r == [result EXCEPT !.phase = IF @ = "rolled_back" THEN @ ELSE "healthy"]
             final == IF result.code = "rolled_back" THEN [r EXCEPT !.phase = "rolled_back"] ELSE r
  <2>2. result' = final /\ Audited(final)
    BY <1>2 DEF BecomeHealthy
  <2>3. final \in Result /\ IsFinal(final)
    BY <2>1 DEF Result, IsFinal
  <2> HIDE DEF final
  <2>4. TypeOK'
    BY <1>1, <2>2, <2>3, AuditedType DEF BecomeHealthy, TypeOK, control, gate, drain
  <2>5. ~IsFinal(result)
    BY <2>1 DEF IsFinal
  <2> QED BY <1>1, <2>4, <2>5, BesideInv
<1>3. CASE ~IsPending(result)
  <2>1. UNCHANGED <<result, journal, released>>
    BY <1>3 DEF BecomeHealthy
  <2>2. TypeOK'
    BY <1>1, <2>1 DEF BecomeHealthy, TypeOK, control, gate, drain
  <2>3. result # None /\ IsFinal(result) => result' # None /\ result'.id = result.id /\ IsFinal(result')
    BY <2>1 DEF IsFinal
  <2> QED BY <1>1, <2>2, <2>3, BesideInv
<1> QED BY <1>2, <1>3

\* The supervisor's steps when nothing runs: the state is not touched.
LEMMA DownInv ==
    ASSUME IInv, TypeOK', UNCHANGED <<control, gate, proc, server, stopFor>>, server = "down"
    PROVE  IInv'
<1> USE DEF control, gate
<1>1. GateInv'
  BY DEF IInv, GateInv, IsBlocked, IsActive, inside
<1>2. CarryInv'
  BY DEF IInv, CarryInv, GateInv, Idle
<1> QED BY <1>1, <1>2 DEF IInv

LEMMA ConsumeRequestInv == ASSUME IInv, NEW isOk \in BOOLEAN, ConsumeRequest(isOk) PROVE IInv'
<1> DEFINE r == [id |-> request, phase |-> IF isOk THEN "starting" ELSE "failed",
                 code |-> IF isOk THEN "none" ELSE "failed"]
<1>1. r \in Result /\ (~isOk => IsFinal(r)) /\ TypeOK
  BY DEF ConsumeRequest, IInv, TypeOK, Result, IsFinal
<1>2. result' = r /\ (IF isOk THEN UNCHANGED <<journal, released>> ELSE Audited(r))
  BY DEF ConsumeRequest
<1>3. request' \in Operations \cup {0}
  BY <1>1 DEF ConsumeRequest, TypeOK
<1> HIDE DEF r
<1>4. TypeOK'
  BY ZenonT(40), <1>1, <1>2, <1>3, AuditedType DEF ConsumeRequest, TypeOK, control, gate, drain
<1> QED BY <1>4, DownInv DEF ConsumeRequest

LEMMA RollbackInv == ASSUME IInv, Rollback PROVE IInv'
<1>1. result \in Result /\ TypeOK
  BY DEF Rollback, IsPending, IInv, TypeOK
<1>2. result' \in Result
  BY <1>1 DEF Rollback, Result
<1>3. TypeOK'
  BY <1>1, <1>2 DEF Rollback, TypeOK, control, gate, drain, audit, lifecycle, history
<1> QED BY <1>3, DownInv DEF Rollback, lifecycle

\* restoreState gives back a state that was never accepted as a cancelled one.
LEMMA RestoredFacts ==
    ASSUME NEW s \in State
    PROVE  Restored(s) \in State /\ Restored(s).id = s.id /\ Restored(s).action = s.action
           /\ Restored(s).phase # "preparing"
           /\ (s.phase # "preparing" => Restored(s) = s) /\ (s.phase = "preparing" => Restored(s).phase = "cancelled")
  BY DEF Restored, State, Phases

LEMMA StartInv == ASSUME IInv, Start PROVE IInv'
<1> DEFINE s == Restored(disk)
<1>1. TypeOK /\ s \in State /\ s.id = disk.id /\ (s.phase # "none" => s.id # 0)
  <2>1. TypeOK /\ disk \in State /\ (disk.phase # "none" => disk.id # 0)
    BY DEF IInv, TypeOK, CarryInv
  <2> QED BY <2>1, RestoredFacts DEF Restored
<1>2. state' \in {s, [s EXCEPT !.phase = "failed"]} /\ disk' = state'
      /\ (state' # s => s.phase = "stopping")
  BY DEF Start
<1>3. state' \in State /\ disk' \in State /\ (state'.phase # "none" => state'.id # 0)
  BY <1>1, <1>2 DEF State, Phases
<1>4. result' \in Result \cup {None}
  BY <1>1 DEF Start, IsPending, TypeOK, Result
<1> HIDE DEF s
<1>5. TypeOK'
  BY <1>1, <1>3, <1>4 DEF Start, TypeOK, gate, drain, audit, history
<1>6. GateInv'
  BY WritersAssumption DEF Start, IInv, GateInv, Idle, gate, inside, Writers
<1>7. CarryInv'
  <2>1. \A c \in Writers : proc'[c] = Idle
    BY DEF Start, IInv, GateInv
  <2>2. stopFor' = 0
    BY DEF Start, IInv, GateInv, CarryInv, NoState
  <2> QED BY <1>2, <1>3, <2>1, <2>2 DEF CarryInv, Idle
<1> QED BY <1>5, <1>6, <1>7 DEF IInv

-----------------------------------------------------------------------------

LEMMA InitInv == Init => IInv
<1> SUFFICES ASSUME Init PROVE IInv
  OBVIOUS
<1>1. Nothing \in [id : Operations \cup {0}, phase : Phases]
  BY DEF Nothing, Phases
<1>2. /\ state \in State /\ disk \in State /\ proc \in [Writers -> Process]
      /\ reported \in [id : Operations \cup {0}, phase : Phases]
  BY <1>1, IdleType DEF Init
<1>3. isHealthy \in BOOLEAN /\ begun \in 0 .. MaxOperations /\ restarts \in 0 .. MaxRestarts
  BY BoundAssumption, ActionsAssumption DEF Init
<1>4. TypeOK
  BY <1>2, <1>3 DEF Init, TypeOK
<1>5. GateInv
  BY WritersAssumption DEF Init, GateInv, inside, Idle, Writers
<1>6. CarryInv
  BY DEF Init, CarryInv, Idle, NoState
<1> QED BY <1>4, <1>5, <1>6 DEF IInv

LEMMA NextInv == IInv /\ [Next]_vars => IInv'
<1> SUFFICES ASSUME IInv, [Next]_vars PROVE IInv'
  OBVIOUS
<1>1. CASE Play
  BY <1>1, AsidePlayInv, EnterLookInv, EnterTryInv, EnterGameInv DEF Play
<1>2. ASSUME NEW c \in Writers, Ask(c) PROVE IInv'
  BY <1>2, AskRequestInv, AnswerInv, AskCancelInv, TimeOutInv DEF Ask
<1>3. ASSUME NEW c \in Writers, Handle(c) PROVE IInv'
  BY <1>3, RequestBeginInv, CancelBeginInv, CompleteLookInv, RequestCommitInv, AnnounceCommitInv,
     ActivateInv, AbortInv, CancelCommitInv, CompleteWriteInv DEF Handle
<1>4. CASE Reconcile
  BY <1>4, ReconcileLookInv, ReconcileResolveInv, RetryCompletionInv DEF Reconcile
<1>5. CASE Advance
  BY <1>5, AdvanceLookInv, RunnerStopInv, AdvanceDecideInv, DrainEndInv, AsidePlayInv DEF Advance
<1>6. CASE Supervise
  BY <1>6, ShutdownInv, CrashInv, ConsumeRequestInv, ExternalStopInv, StartupTimeoutInv, RollbackInv,
     StartInv, BecomeHealthyInv DEF Supervise
<1>7. CASE UNCHANGED vars
  <2>1. TypeOK'
    BY <1>7 DEF IInv, TypeOK, vars, control, gate, drain, audit, lifecycle, boot, history
  <2> QED BY <1>7, <2>1, AsideInv DEF vars, lifecycle, boot
<1> QED BY <1>1, <1>2, <1>3, <1>4, <1>5, <1>6, <1>7 DEF Next

LEMMA Inductive == Spec => []IInv
  BY InitInv, NextInv, PTL DEF Spec

\* Every variable keeps its type, whatever is requested, fails, crashes or restarts.
THEOREM TypeCorrect == Spec => []TypeOK
<1>1. IInv => TypeOK
  BY DEF IInv
<1> QED BY <1>1, Inductive, PTL

\* Gate.Enter and Gate.Change exclude each other, and an entry that was admitted
\* is over before an operation blocks admission, through every restart.
THEOREM EntryExclusion == Spec => []ClosedToEntry
<1>1. IInv => ClosedToEntry
  BY DEF IInv, GateInv, ClosedToEntry
<1> QED BY <1>1, Inductive, PTL
=============================================================================
