----------------------------- MODULE Transport -----------------------------
(***************************************************************************)
(* The server's side of the RakNet connections of one remote address       *)
(* (raknet/server.go and retransmit.go, and the worker of the address in   *)
(* udp/server.go).                                                         *)
(*                                                                         *)
(* A peer is what the server keeps of one connection.  It is registered    *)
(* under the address and has a generation, the number of the open request  *)
(* that made it.  Datagrams of the address are dispatched one at a time; a *)
(* dispatch that takes too long is abandoned: the peer is retired and the  *)
(* next datagram dispatched beside it.  The retransmission loop runs       *)
(* beside both.  A peer's applicationResponseMu is held by a dispatch of   *)
(* data, its outboundMu by whoever writes to it; HoldsApplication and      *)
(* HoldsOutbound say between which steps.                                  *)
(*                                                                         *)
(* The client and the network are outside.  The client has at most         *)
(* ClientWindow datagrams in flight and numbers them anew when it opens a  *)
(* connection; datagrams are lost, repeated and reordered within one.      *)
(***************************************************************************)
EXTENDS ReceiveWindow

CONSTANTS
  Connections,   \* how many connections there are
  Traffic,       \* Traffic[g][k]: the packets of datagram k of connection g
  FirstNumber,   \* FirstNumber[g]: the number of its first datagram
  FirstMessage,  \* FirstMessage[g]: the number of its first message
  Start,         \* the receive state in which connection 1 is met
  ClientWindow,  \* datagrams the client sends beyond one not acknowledged
  MaxCopies,     \* MaxCopies[g][k]: (bound) how often a datagram arrives
  MaxPending,    \* maxPendingDatagram
  MaxAttempts    \* maxRetransmissionAttempt

VARIABLES
  peer,      \* the generation registered under the address, or none
  opened,    \* nextPeerGeneration
  isJoined,  \* the client has the open reply of the registered peer
  receive,   \* the registered peer's receive state
  outbound,  \* its next datagram number and the datagrams not acknowledged
  isSilent,  \* nothing came for peerIdleTimeout
  dispatch,  \* the dispatch of the worker, and one that was abandoned
  loop,      \* runRetransmission and what it collected
  departed,  \* generations whose departure was announced
  unguarded, \* generations that were removed without their outboundMu
  arrived,   \* how often each datagram of the connection arrived
  life       \* history of the registered peer

vars == <<peer, opened, isJoined, receive, outbound, isSilent, dispatch, loop,
          departed, unguarded, arrived, life>>

Generations == 1 .. Connections
None == 0
Slots == {"active", "abandoned"}
Datagrams(g) == DOMAIN Traffic[g]
NumberOf(g, k) == Advance(FirstNumber[g], k - 1)
PacketsOf(g) == UNION {{Traffic[g][k][i] : i \in DOMAIN Traffic[g][k]} : k \in Datagrams(g)}
AllPackets == UNION {PacketsOf(g) : g \in Generations}
Names == {p.name : p \in AllPackets}
\* The order index that is due first on a channel.
FirstOrder(g, channel) == IF g = 1 THEN Start.order[channel] ELSE 0

(***************************************************************************)
(* What the client sends.  Its datagrams, messages and ordered packets are *)
(* no more than can be told from late ones, as their numbers wrap around;  *)
(* a message has one packet, and a split packet one packet for each part;  *)
(* and it sends no message that is ReliableWindow ahead of one that may    *)
(* still be under way.                                                     *)
(***************************************************************************)
MessagePlace(g, p) == Forward(FirstMessage[g], p.message)

ASSUME TrafficFits ==
  /\ Connections \in Nat \ {0} /\ ClientWindow \in Nat
  /\ {MaxPending, MaxAttempts} \subseteq Nat \ {0}
  /\ \A g \in Generations :
       /\ Traffic[g] \in Seq(Seq(PacketsOf(g))) /\ Len(Traffic[g]) <= Half
       /\ FirstNumber[g] \in Numbers /\ FirstMessage[g] \in Numbers
       /\ \A p \in PacketsOf(g) :
            /\ IsPacket(p)
            /\ IsReliable(p) => MessagePlace(g, p) < Half - 1
            /\ p.kind = "ordered" => Forward(FirstOrder(g, p.channel), p.order) < Half
       /\ \A p, q \in PacketsOf(g) : AreOfOneClient(p, q)
       /\ \A j, k \in Datagrams(g) : j <= k + ClientWindow =>
            \A m \in DOMAIN Traffic[g][j], n \in DOMAIN Traffic[g][k] :
              LET ahead == Traffic[g][j][m]
                  behind == Traffic[g][k][n]
              IN  IsReliable(ahead) /\ IsReliable(behind)
                    => MessagePlace(g, ahead) < MessagePlace(g, behind) + ReliableWindow

\* A connection begins with nothing received; the first one is met with Start,
\* when all that came was in order.
ASSUME StartFits ==
  /\ \A g \in Generations : g # 1 => FirstNumber[g] = 0
  /\ Start = [Fresh EXCEPT !.next = FirstNumber[1], !.seen = Start.seen, !.latest = Start.latest,
                           !.order = Start.order, !.sequenced = Start.sequenced]
  /\ Start.order \in [{0, 1} -> Numbers]
  /\ Start.sequenced \in [{0, 1} -> Numbers \union {Unseen}]
  /\ Start.latest \in Numbers
  /\ Start.seen # {} => /\ Advance(Start.latest, 1) = FirstMessage[1]
                        /\ \A i \in Start.seen :
                             i \in Numbers /\ Forward(i, Start.latest) < ReliableWindow

Idle == [pc |-> "idle", kind |-> "none", captured |-> None, own |-> None, item |-> 0,
         ready |-> <<>>, answers |-> <<>>, out |-> {}, isFailed |-> FALSE]
NoSweep == [pc |-> "idle", gen |-> None, due |-> {}, at |-> Unseen, isExpiring |-> FALSE]
Unborn == [delivered |-> <<>>, acked |-> {},
           isLapsed |-> FALSE, isTainted |-> FALSE]
Empty == [next |-> 0, pending |-> {}]
NoneArrived(g) == [k \in Datagrams(g) |-> 0]

Init ==
  /\ peer = 1 /\ opened = 1 /\ isJoined = TRUE
  /\ receive = Start /\ outbound = Empty /\ isSilent = FALSE
  /\ dispatch = [s \in Slots |-> Idle] /\ loop = NoSweep
  /\ departed = {} /\ unguarded = {} /\ arrived = NoneArrived(1) /\ life = Unborn

-----------------------------------------------------------------------------
(***************************************************************************)
(* Locks, and removal of a peer.                                           *)
(***************************************************************************)
HoldsApplication(s, g) ==
  /\ dispatch[s].own = g /\ dispatch[s].kind \in {"data", "unreadable"}
  /\ dispatch[s].pc \notin {"idle", "lock"}
HoldsOutbound(s, g) ==
  dispatch[s].own = g /\ dispatch[s].pc \in {"create", "encode", "check", "write", "finish"}
IsApplicationFree(g) == \A s \in Slots : ~HoldsApplication(s, g)
IsOutboundFree(g) ==
  /\ \A s \in Slots : ~HoldsOutbound(s, g)
  /\ ~(loop.pc = "send" /\ loop.gen = g)

\* What was kept of a peer is not read again once it is not registered.
Unregister(g) ==
  /\ peer' = None /\ departed' = departed \union {g} /\ isJoined' = FALSE
  /\ receive' = Fresh /\ outbound' = Empty /\ isSilent' = FALSE /\ life' = Unborn

\* Bug variant: whatever peer the address has now is removed.
RemoveAnyPeer(g) ==
  IF peer # None
  THEN Unregister(g)
  ELSE UNCHANGED <<peer, departed, isJoined, receive, outbound, isSilent, life>>
\* removeExpectedPeer, with the notification of its callers.
RemovePeer(g) ==
  IF peer = g /\ g # None
  THEN Unregister(g)
  ELSE UNCHANGED <<peer, departed, isJoined, receive, outbound, isSilent, life>>

Go(s, d) == dispatch' = [dispatch EXCEPT ![s] = d]
To(s, pc) == Go(s, [dispatch[s] EXCEPT !.pc = pc])
Exit(s) == Go(s, Idle)
KeepPeer == UNCHANGED <<peer, departed, isJoined, receive, outbound, isSilent, life>>
KeepWorld == UNCHANGED <<opened, loop, unguarded, arrived>>

\* A removal that does not wait for who has the outboundMu of the peer.
RemoveUnguarded(g) ==
  /\ RemovePeer(g)
  /\ unguarded' = IF peer = g /\ g # None THEN unguarded \union {g} ELSE unguarded

-----------------------------------------------------------------------------
(***************************************************************************)
(* What the client and the network do: a datagram reaches the worker.      *)
(***************************************************************************)
Begin(kind, item, pc) ==
  /\ dispatch["active"] = Idle
  /\ Go("active", [Idle EXCEPT !.pc = pc, !.kind = kind, !.item = item,
                               !.own = peer, !.captured = peer])

ReceiveData(k) ==
  /\ peer # None /\ isJoined /\ k \in Datagrams(peer) /\ arrived[k] < MaxCopies[peer][k]
  /\ \A j \in 1 .. k - 1 - ClientWindow : j \in life.acked
  /\ Begin("data", k, "lock")
  /\ arrived' = [arrived EXCEPT ![k] = @ + 1]
  /\ UNCHANGED <<opened, loop, unguarded>> /\ KeepPeer

ReceiveAcknowledgement(p) ==
  /\ isJoined /\ p \in outbound.pending /\ p.isSent
  /\ \/ Begin("ack", p.number, "settle")
     \/ p.attempts < MaxAttempts /\ Begin("nack", p.number, "settle")
  /\ KeepPeer /\ KeepWorld

ReceiveOpen ==
  /\ opened + Cardinality({s \in Slots : dispatch[s].pc \in {"replace", "create"}})
       < Connections
  /\ Begin("open", 0, "replace")
  /\ KeepPeer /\ KeepWorld

\* One that cannot be read: as data, as an acknowledgement, or as an open
\* request of this protocol.  Without a peer it changes nothing.
ReceiveUnreadable ==
  /\ peer # None
  /\ \E pc \in {"lock", "settle", "fail"} : Begin("unreadable", 0, pc)
  /\ KeepPeer /\ KeepWorld

-----------------------------------------------------------------------------
(***************************************************************************)
(* Dispatch of a data datagram.                                            *)
(***************************************************************************)
LockApplication(s) ==
  LET d == dispatch[s]
  IN  /\ d.pc = "lock" /\ IsApplicationFree(d.own)
      /\ IF peer = d.own THEN To(s, IF d.kind = "data" THEN "accept" ELSE "fail") ELSE Exit(s)
      /\ KeepPeer /\ KeepWorld

Touched(l, d) == [l EXCEPT !.isTainted = @ \/ d.own # peer]

\* acceptIncomingDatagram, of the peer that the address has now.
Accept(s) ==
  LET d == dispatch[s]
      number == NumberOf(d.own, d.item)
      result == AcceptDatagram(receive, number)
      isSlid == Forward(receive.next, number) \in MaxGap + 1 .. Half - 1
  IN  /\ d.pc = "accept"
      /\ IF peer = None
         THEN Exit(s) /\ KeepPeer
         ELSE /\ receive' = result.receive /\ isSilent' = FALSE
              /\ life' = [Touched(life, d) EXCEPT !.isLapsed = @ \/ isSlid]
              /\ To(s, IF result.isAccepted THEN "prepare" ELSE "respond")
              /\ UNCHANGED <<peer, departed, isJoined, outbound>>
      /\ KeepWorld

\* prepareIncomingPackets; assemblies may have become too old.
PreparePackets(s) ==
  LET d == dispatch[s]
  IN  /\ d.pc = "prepare"
      /\ \E isLate \in {FALSE, receive.splits # {}} :
           LET kept == IF isLate THEN ExpireSplits(receive) ELSE receive
               result == Prepare(kept, Traffic[d.own][d.item])
           IN  IF peer = None
               THEN Go(s, [d EXCEPT !.pc = "respond", !.isFailed = TRUE]) /\ KeepPeer
               ELSE /\ receive' = result.receive
                    /\ life' = [Touched(life, d) EXCEPT !.isLapsed = @ \/ isLate]
                    /\ Go(s, [d EXCEPT !.pc = "handle", !.ready = result.ready,
                                       !.isFailed = result.isRefused])
                    /\ UNCHANGED <<peer, departed, isJoined, outbound, isSilent>>
      /\ KeepWorld

\* handleConnectedPayload: the handler gets the packet under the generation
\* that the address has now, and answers or fails.
Handle(s) ==
  LET d == dispatch[s]
      p == Head(d.ready)
      Failure == [d EXCEPT !.ready = Tail(@), !.isFailed = TRUE]
      Answer == [d EXCEPT !.ready = Tail(@),
                          !.answers = @ \o (IF p.isAsking THEN <<p.name>> ELSE <<>>)]
  IN  /\ d.pc = "handle" /\ d.ready # <<>>
      /\ IF isJoined
         THEN /\ Go(s, Failure) \/ Go(s, Answer)
              /\ life' = [Touched(life, d) EXCEPT !.delivered = Append(@, p)]
              /\ UNCHANGED <<peer, departed, isJoined, receive, outbound, isSilent>>
         ELSE Go(s, Failure) /\ KeepPeer
      /\ KeepWorld

Handled(s) ==
  /\ dispatch[s].pc = "handle" /\ dispatch[s].ready = <<>>
  /\ To(s, "respond") /\ KeepPeer /\ KeepWorld

\* A dispatch that failed before it had anything to answer removes its peer;
\* it has not taken the outboundMu.
Fail(s) ==
  /\ dispatch[s].pc = "fail" /\ Exit(s) /\ RemoveUnguarded(dispatch[s].own)
  /\ UNCHANGED <<opened, loop, arrived>>

-----------------------------------------------------------------------------
(***************************************************************************)
(* Publication of what a dispatch answers.                                 *)
(***************************************************************************)
LockOutbound(s) ==
  LET d == dispatch[s]
  IN  /\ d.pc = "respond" /\ IsOutboundFree(d.own)
      /\ IF peer # d.own THEN Exit(s)
         ELSE To(s, IF d.answers = <<>> THEN "check" ELSE "encode")
      /\ KeepPeer /\ KeepWorld

Retained(number, name) ==
  [number |-> number, to |-> name, attempts |-> 1, isDue |-> FALSE, isSent |-> FALSE]

\* encodeResponsePayloads retains the answers in the peer the address has now.
Encode(s) ==
  LET d == dispatch[s]
      count == Len(d.answers)
      fresh == {Retained(Advance(outbound.next, i - 1), d.answers[i]) : i \in 1 .. count}
      numbers == {p.number : p \in fresh}
      isFitting == /\ Cardinality(outbound.pending) + count <= MaxPending
                   /\ \A p \in outbound.pending : p.number \notin numbers
  IN  /\ d.pc = "encode"
      /\ IF peer = None \/ ~isFitting
         THEN RemovePeer(d.own) /\ Exit(s)
         ELSE /\ outbound' = [next |-> Advance(outbound.next, count),
                              pending |-> outbound.pending \union fresh]
              /\ life' = Touched(life, d)
              /\ Go(s, [d EXCEPT !.pc = "check", !.answers = <<>>, !.out = numbers])
              /\ UNCHANGED <<peer, departed, isJoined, receive, isSilent>>
      /\ KeepWorld

CheckPeer(s) ==
  /\ dispatch[s].pc = "check"
  /\ IF dispatch[s].own \notin {None, peer} THEN Exit(s) ELSE To(s, "write")
  /\ KeepPeer /\ KeepWorld

Sent(numbers) ==
  [outbound EXCEPT !.pending =
     {[p EXCEPT !.isSent = @ \/ p.number \in numbers] : p \in @}]

\* The acknowledgement and the answers are written; a failed write removes
\* the peer.
Write(s) ==
  LET d == dispatch[s]
  IN  /\ d.pc = "write"
      /\ \/ /\ IF d.isFailed THEN To(s, "finish") ELSE Exit(s)
            /\ IF peer \notin {d.own} \ {None} THEN KeepPeer
               ELSE /\ outbound' = Sent(d.out)
                    /\ life' = [life EXCEPT !.acked = IF d.kind = "data"
                                                      THEN @ \union {d.item} ELSE @]
                    /\ isJoined' = (isJoined \/ (d.kind = "open" /\ s = "active"))
                    /\ UNCHANGED <<peer, departed, receive, isSilent>>
         \/ Exit(s) /\ RemovePeer(d.own)
      /\ KeepWorld

\* Bug variant: the failure of a packet that was acknowledged is only reported.
FinishReports(s) ==
  dispatch[s].pc = "finish" /\ Exit(s) /\ KeepPeer /\ KeepWorld
\* A dispatch with a packet that was refused or failed removes the peer.
Finish(s) ==
  dispatch[s].pc = "finish" /\ Exit(s) /\ RemovePeer(dispatch[s].own) /\ KeepWorld

-----------------------------------------------------------------------------
(***************************************************************************)
(* Acknowledgements.                                                       *)
(***************************************************************************)
\* Bug variant: a negative acknowledgement is always answered.
SettledAlways(kind, number) ==
  {[p EXCEPT !.isDue = @ /\ p.number # number,
             !.attempts = IF p.number = number THEN @ + 1 ELSE @] :
     p \in {q \in outbound.pending : kind = "nack" \/ q.number # number}}
\* What is pending after an acknowledgement.
Settled(kind, number) ==
  LET isRepeated(p) == p.number = number /\ p.attempts < MaxAttempts
  IN  {IF isRepeated(p) THEN [p EXCEPT !.isDue = FALSE, !.attempts = @ + 1] ELSE p :
         p \in {q \in outbound.pending : kind = "nack" \/ q.number # number}}

\* handleAcknowledgement, with the peer's outboundMu; one that cannot be read
\* removes the peer.
Settle(s) ==
  LET d == dispatch[s]
      found == {p \in outbound.pending : p.number = d.item}
      repeated == {p \in found : d.kind = "nack" /\ p.attempts < MaxAttempts}
  IN  /\ d.pc = "settle" /\ IsOutboundFree(d.own)
      /\ IF peer # d.own
         THEN Exit(s) /\ KeepPeer
         ELSE IF d.kind = "unreadable" THEN Exit(s) /\ RemovePeer(d.own)
         ELSE /\ outbound' = [outbound EXCEPT !.pending = Settled(d.kind, d.item)]
              /\ isSilent' = FALSE
              /\ Go(s, [d EXCEPT !.pc = "check", !.out = {p.number : p \in repeated}])
              /\ UNCHANGED <<peer, departed, isJoined, receive, life>>
      /\ KeepWorld

-----------------------------------------------------------------------------
(***************************************************************************)
(* legacyOpenReply.                                                        *)
(***************************************************************************)
\* Bug variant: the replacement does not wait for the peer's writers.
ReplaceAtOnce(s) ==
  /\ dispatch[s].pc = "replace"
  /\ Go(s, [dispatch[s] EXCEPT !.pc = "create", !.own = peer])
  /\ KeepPeer /\ KeepWorld
\* lockPeerForReplacement: once no one writes to the peer that is replaced.
Replace(s) ==
  /\ dispatch[s].pc = "replace" /\ (peer = None \/ IsOutboundFree(peer))
  /\ Go(s, [dispatch[s] EXCEPT !.pc = "create", !.own = peer])
  /\ KeepPeer /\ KeepWorld

Create(s) ==
  LET d == dispatch[s]
      g == opened + 1
  IN  /\ d.pc = "create"
      /\ opened' = g /\ peer' = g /\ isJoined' = FALSE /\ isSilent' = FALSE
      /\ departed' = departed \union ({d.own} \ {None})
      /\ receive' = Fresh /\ outbound' = Empty
      /\ life' = [Unborn EXCEPT !.isTainted = s = "abandoned"]
      /\ arrived' = NoneArrived(g)
      /\ To(s, "adopt")
      /\ UNCHANGED <<loop, unguarded>>

\* The dispatch goes on for the peer that the address has by then.
Adopt(s) ==
  /\ dispatch[s].pc = "adopt"
  /\ Go(s, [dispatch[s] EXCEPT !.own = peer, !.pc = IF peer = None THEN "check" ELSE "respond"])
  /\ KeepPeer /\ KeepWorld

-----------------------------------------------------------------------------
(***************************************************************************)
(* A dispatch is abandoned: it timed out, and the peer it was begun for is *)
(* retired, or the queue behind it is full, and the peer of now is.  It    *)
(* goes on beside the next one, with its context cancelled.  One that was  *)
(* abandoned before and is still in a handler is taken to stay there.      *)
(***************************************************************************)
Abandon(g) ==
  LET d == dispatch["active"]
  IN  /\ d # Idle /\ dispatch["abandoned"].pc \in {"idle", "handle"}
      /\ dispatch' = [active |-> Idle, abandoned |-> d]
      /\ RemoveUnguarded(g)
      /\ UNCHANGED <<opened, loop, arrived>>

DispatchTimeout == Abandon(dispatch["active"].captured)
QueueFull == Abandon(peer)

\* A cancelled dispatch does not wait for a lock.
GiveUp ==
  LET d == dispatch["abandoned"]
  IN  /\ \/ d.pc \in {"respond", "settle"} /\ ~IsOutboundFree(d.own)
         \/ d.pc = "replace" /\ peer # None /\ ~IsOutboundFree(peer)
      /\ Exit("abandoned")
      /\ IF d.pc \in {"settle", "replace"}
         THEN RemoveUnguarded(d.own) ELSE KeepPeer /\ UNCHANGED unguarded
      /\ UNCHANGED <<opened, loop, arrived>>

-----------------------------------------------------------------------------
(***************************************************************************)
(* runRetransmission.                                                      *)
(***************************************************************************)
Overdue == {p \in outbound.pending : p.isDue}
IsExhausted(p) == p.attempts >= MaxAttempts
KeepDispatch == UNCHANGED <<opened, dispatch, unguarded, arrived>>

\* Bug variant: a peer that used up its attempts is only left alone.
CollectIgnores ==
  /\ loop.pc = "idle" /\ peer # None
  /\ isSilent \/ \E p \in Overdue : ~IsExhausted(p)
  /\ loop' = [NoSweep EXCEPT !.pc = "sweep", !.gen = peer, !.isExpiring = isSilent,
                !.due = {p.number : p \in {q \in Overdue : ~IsExhausted(q)}}]
  /\ KeepPeer /\ KeepDispatch
\* collectDueRetransmissions: the peer is to be expired, or has datagrams due.
Collect ==
  LET isExpiring == isSilent \/ \E p \in Overdue : IsExhausted(p)
  IN  /\ loop.pc = "idle" /\ peer # None /\ (isExpiring \/ Overdue # {})
      /\ loop' = [NoSweep EXCEPT !.pc = "sweep", !.gen = peer, !.isExpiring = isExpiring,
                    !.due = IF isExpiring THEN {} ELSE {p.number : p \in Overdue}]
      /\ KeepPeer /\ KeepDispatch

Remaining(due) ==
  IF due = {} THEN NoSweep ELSE [loop EXCEPT !.pc = "sweep", !.due = due, !.at = Unseen]

\* A datagram that is still due is stamped and sent with the peer's outboundMu;
\* one whose peer is busy is left for the next sweep.
Retransmit(number) ==
  LET g == loop.gen
      still == {p \in Overdue : p.number = number /\ ~IsExhausted(p)}
  IN  /\ loop.pc = "sweep" /\ number \in loop.due
      /\ IF IsOutboundFree(g) /\ peer = g /\ still # {}
         THEN /\ outbound' = [outbound EXCEPT !.pending = (@ \ still) \union
                   {[p EXCEPT !.attempts = @ + 1, !.isDue = FALSE] : p \in still}]
              /\ loop' = [loop EXCEPT !.pc = "send", !.at = number]
              /\ UNCHANGED <<peer, departed, isJoined, receive, isSilent, life>>
         ELSE loop' = Remaining(loop.due \ {number}) /\ KeepPeer
      /\ KeepDispatch

\* After a failed write the peer is left first, and removed in a step of its own.
Send ==
  /\ loop.pc = "send"
  /\ \/ /\ loop' = Remaining(loop.due \ {loop.at})
        /\ outbound' = IF peer = loop.gen THEN Sent({loop.at}) ELSE outbound
     \/ loop' = [loop EXCEPT !.pc = "remove"] /\ UNCHANGED outbound
  /\ UNCHANGED <<peer, departed, isJoined, receive, isSilent, life>> /\ KeepDispatch

RemoveUnsent ==
  /\ loop.pc = "remove" /\ loop' = Remaining(loop.due \ {loop.at})
  /\ RemoveUnguarded(loop.gen) /\ UNCHANGED <<opened, dispatch, arrived>>

\* removeExpiredPeer looks again, with the peer's outboundMu.
Expire ==
  /\ loop.pc = "sweep" /\ loop.isExpiring /\ loop' = NoSweep
  /\ IF /\ IsOutboundFree(loop.gen) /\ peer = loop.gen
        /\ isSilent \/ \E p \in outbound.pending : IsExhausted(p)
     THEN RemovePeer(loop.gen) ELSE KeepPeer
  /\ KeepDispatch

\* Time: a datagram's retransmission delay ends, or the idle timeout does.
Elapse(p) ==
  /\ p \in outbound.pending /\ ~p.isDue
  /\ outbound' = [outbound EXCEPT !.pending = (@ \ {p}) \union {[p EXCEPT !.isDue = TRUE]}]
  /\ UNCHANGED <<peer, departed, isJoined, receive, isSilent, life, loop>> /\ KeepDispatch
FallSilent ==
  /\ peer # None /\ ~isSilent /\ isSilent' = TRUE
  /\ UNCHANGED <<peer, departed, isJoined, receive, outbound, life, loop>> /\ KeepDispatch

-----------------------------------------------------------------------------
Environment ==
  \/ peer # None /\ \E k \in Datagrams(peer) : ReceiveData(k)
  \/ \E p \in outbound.pending : ReceiveAcknowledgement(p)
  \/ ReceiveOpen \/ ReceiveUnreadable \/ QueueFull \/ FallSilent

Step(s) ==
  \/ LockApplication(s) \/ Accept(s) \/ PreparePackets(s) \/ Handled(s) \/ Fail(s)
  \/ LockOutbound(s) \/ Encode(s) \/ CheckPeer(s) \/ Write(s) \/ Finish(s)
  \/ Settle(s) \/ Replace(s) \/ Create(s) \/ Adopt(s)

Sweep == Collect \/ (\E n \in loop.due : Retransmit(n)) \/ Send \/ RemoveUnsent \/ Expire

Next ==
  \/ Environment \/ DispatchTimeout \/ GiveUp \/ Sweep
  \/ \E s \in Slots : Step(s) \/ Handle(s)
  \/ \E p \in outbound.pending : Elapse(p)

Spec == Init /\ [][Next]_vars

\* Goroutines go on, except that a handler may hang; a dispatch that does is
\* timed out; retransmission delays end.
Progress == DispatchTimeout \/ \E s \in Slots : Step(s)
Fairness == WF_vars(Progress) /\ WF_vars(Sweep \/ \E p \in outbound.pending : Elapse(p))
FairSpec == Spec /\ Fairness

-----------------------------------------------------------------------------
TypeOK ==
  /\ peer \in {None, opened} /\ opened \in Generations /\ isJoined \in BOOLEAN
  /\ receive.next \in Numbers /\ receive.future \union receive.missing \subseteq Numbers
  /\ receive.waiting \subseteq AllPackets /\ Cardinality(receive.waiting) <= MaxWaiting
  /\ PartCount(receive) <= MaxParts
  /\ Cardinality(outbound.pending) <= MaxPending
  /\ \A p \in outbound.pending :
       p.number \in Numbers /\ p.to \in Names /\ p.attempts \in 1 .. MaxAttempts
  /\ departed \union unguarded \subseteq Generations
  /\ \A s \in Slots : dispatch[s].own \in {None} \union Generations
  /\ peer # None => life.acked \subseteq Datagrams(peer)

(* However datagrams of a connection are lost, repeated, reordered and sent *)
(* again, the handler gets its reliable packets at most once, the ordered   *)
(* ones of a channel one by one without a gap, from the one that is due     *)
(* first, and the sequenced ones never after a later one                    *)
(* (acceptDatagram, prepareIncomingPackets).                                *)
InOrder ==
  peer # None /\ ~life.isTainted =>
    LET got == life.delivered
    IN  /\ \A i, j \in DOMAIN got : i < j /\ IsReliable(got[i]) => got[i].name # got[j].name
        /\ \A c \in {0, 1} :
             LET ordered == PlacesOf(got, {"ordered"}, c)
                 sequenced == PlacesOf(got, {"sequenced", "reliableSequenced"}, c)
             IN  /\ \A i \in ordered : (\A j \in ordered : i <= j) => got[i].order = FirstOrder(peer, c)
                 /\ \A i, j \in ordered :
                      Follows(i, j, ordered) => got[j].order = Advance(got[i].order, 1)
                 /\ \A i, j \in sequenced :
                      Follows(i, j, sequenced) => Forward(got[i].order, got[j].order) \in 1 .. Half - 1

\* A dispatch of the registered peer that is going to remove it.
IsFailing == \E s \in Slots : dispatch[s].own = peer /\ dispatch[s].isFailed

(* A reliable packet in a datagram that the client was told has come is not *)
(* lost while the connection lasts: the handler has it or is next to get    *)
(* it, or it waits for an earlier one or for its other parts; a packet that *)
(* was refused after its message was marked as seen costs the peer its      *)
(* connection (receive.go:175, HandleAndWriteDatagrams).                    *)
AckedNotLost ==
  peer # None /\ ~life.isTainted /\ ~life.isLapsed /\ ~IsFailing =>
    \A k \in life.acked : \A i \in DOMAIN Traffic[peer][k] :
      LET p == Traffic[peer][k][i]
      IN  p.kind \in {"ordered", "reliable"} =>
            \/ \E j \in DOMAIN life.delivered : life.delivered[j].name = p.name
            \/ \E s \in Slots : \E j \in DOMAIN dispatch[s].ready :
                 dispatch[s].own = peer /\ dispatch[s].ready[j].name = p.name
            \/ \E w \in receive.waiting : w.name = p.name
            \/ \E a \in receive.splits : a.name = p.name /\ p.part \in a.came

(* The connections whose place an open request took that had not found them *)
(* there, as another open request registered them after it had looked: they *)
(* are not registered, and no one was told that they are gone.              *)
Overrun == {g \in 1 .. opened : g # peer /\ g \notin departed}

(* The owners of game state are told of every peer that goes, whichever of  *)
(* the dispatches, the loop and a replacement removed it, and of none that  *)
(* is or comes to be registered.  The one that is passed over is a peer     *)
(* that a replacement did not find when it looked (removeExpectedPeer,      *)
(* notifyExpiredPeers, legacyOpenReply).                                    *)
DepartureTrue ==
  [][/\ peer' \notin departed'
     /\ \/ Overrun' \subseteq Overrun
        \/ \E s \in Slots : /\ dispatch[s].pc = "create" /\ dispatch[s].own # peer
                            /\ dispatch'[s].pc = "adopt"]_vars

\* A dispatch that writes, which is not only abandoned while it does.
IsWriting(s) ==
  /\ dispatch[s].pc = "write" /\ dispatch'[s].pc # "write"
  /\ dispatch'["abandoned"] # dispatch["active"]
(* Whoever writes for a connection does so while it is the registered one,  *)
(* so that nothing of a connection that was replaced, expired or ended by   *)
(* another writer is written to the next.  The removals that do not wait    *)
(* for its writers are a retirement, that of the loop after a failed write, *)
(* and that of a dispatch which failed with nothing to answer; and an open  *)
(* request may not have found it (lockPeerForReplacement,                   *)
(* lockResponseTransport, removeExpectedPeer, RetirePeerGeneration).        *)
NoStaleWrite ==
  [][LET IsTheirs(g) == g \in {peer, None} \union unguarded \union Overrun
     IN  /\ loop.pc = "send" /\ loop' # loop => IsTheirs(loop.gen)
         /\ \A s \in Slots : IsWriting(s) => IsTheirs(dispatch[s].own)]_vars

(* What awaits its acknowledgement is acknowledged or ends the connection   *)
(* with all it keeps, even if the client falls silent, locks are busy or a  *)
(* handler hangs (runRetransmission, peerExpiry).                           *)
EventuallySettled == outbound.pending # {} ~> outbound.pending = {}
=============================================================================
