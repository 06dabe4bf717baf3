-------------------------- MODULE TransportProofs --------------------------
(***************************************************************************)
(* Proofs about Transport, for any number of connections, any windows and  *)
(* limits, and whatever a client sends that TrafficFits allows.            *)
(*                                                                         *)
(* First, which peer the address has, who may be writing for it, and who   *)
(* is told that it is gone: nothing there depends on the contents of       *)
(* datagrams.  A step moves at most one dispatch (SlotMoves), or the loop  *)
(* (LoopMoves), or makes or retires a peer (Create, Abandon).  The         *)
(* invariant IInv is shown for these four, and every action to be one of   *)
(* them.                                                                   *)
(*                                                                         *)
(* Then, what a dispatch has in hand at each step, the windows and what    *)
(* awaits its acknowledgement have their types (DataInv, TypeOK).          *)
(*                                                                         *)
(* Last, what goes on in a connection that no dispatch of another one      *)
(* touched (FlowInv): what the handler got and is next to get is a stream  *)
(* of its packets as ReceiveWindowProofs has it, and what came is kept,    *)
(* from which InOrder and AckedNotLost follow.                             *)
(***************************************************************************)
EXTENDS Transport, ReceiveWindowProofs, TLAPS

-----------------------------------------------------------------------------
(***************************************************************************)
(* The invariant.                                                          *)
(***************************************************************************)
\* The fields that a dispatch and the loop have.
IsDispatch(d) ==
  d = [f \in {"pc", "kind", "captured", "own", "item", "ready", "answers", "out", "isFailed"}
         |-> d[f]]
IsSweep(l) == l = [f \in {"pc", "gen", "due", "at", "isExpiring"} |-> l[f]]

\* A dispatch holds the outboundMu of its own peer, if it has one.
Holding(d) == d.pc \in {"create", "encode", "check", "write", "finish"}
\* Those for whom someone may be writing.
Writable == {peer, None} \union unguarded \union Overrun

TypeInv ==
  /\ opened \in Nat \ {0} /\ peer \in {None, opened}
  /\ departed \subseteq 1 .. opened /\ peer \notin departed
  /\ dispatch = [s \in Slots |-> dispatch[s]]
  /\ \A s \in Slots : /\ IsDispatch(dispatch[s])
                      /\ dispatch[s].own \in 0 .. opened
                      /\ dispatch[s].captured \in 0 .. opened
  /\ IsSweep(loop) /\ loop.gen \in 0 .. opened
  /\ loop.pc # "idle" => loop.gen # None

\* Two do not hold the outboundMu of one peer.
LockInv ==
  /\ \A s, t \in Slots :
       /\ s # t /\ Holding(dispatch[s]) /\ Holding(dispatch[t])
       /\ dispatch[s].own = dispatch[t].own
       => dispatch[s].own = None
  /\ loop.pc = "send" => \A s \in Slots : ~HoldsOutbound(s, loop.gen)

WriteInv ==
  /\ \A s \in Slots : Holding(dispatch[s]) => dispatch[s].own \in Writable
  /\ loop.pc = "send" => loop.gen \in Writable

\* The peer that an abandoned dispatch was begun for is gone, so that it does
\* not remove another one's when it gives up.
AbandonInv ==
  /\ \A s \in Slots : dispatch[s].pc \in {"settle", "replace"}
                        => dispatch[s].own = dispatch[s].captured
  /\ dispatch["abandoned"].pc # "idle"
       => dispatch["abandoned"].captured = None \/ dispatch["abandoned"].captured # peer

IInv == TypeInv /\ LockInv /\ WriteInv /\ AbandonInv

LEMMA InitHolds == Init => IInv
<1> SUFFICES ASSUME Init PROVE IInv
  OBVIOUS
<1>1. TypeInv
  BY DEF Init, TypeInv, IsDispatch, IsSweep, Idle, NoSweep, Slots, None, Unseen
<1>2. \A s \in Slots : dispatch[s].pc = "idle" /\ loop.pc = "idle"
  BY DEF Init, Idle, NoSweep
<1>3. LockInv /\ WriteInv /\ AbandonInv
  BY <1>2 DEF LockInv, WriteInv, AbandonInv, Holding, Slots
<1> QED
  BY <1>1, <1>3 DEF IInv

-----------------------------------------------------------------------------
(***************************************************************************)
(* What may happen to the peer while no new one is made.                   *)
(***************************************************************************)
PeerStays == peer' = peer /\ departed' = departed /\ opened' = opened
PeerGoes(g) ==
  /\ peer = g /\ g # None /\ peer' = None
  /\ departed' = departed \union {g} /\ opened' = opened

LEMMA RemovalMoves ==
  ASSUME NEW g, RemovePeer(g), opened' = opened
  PROVE  PeerStays \/ PeerGoes(g)
BY DEF RemovePeer, Unregister, PeerStays, PeerGoes

LEMMA KeepMoves ==
  ASSUME KeepPeer, opened' = opened
  PROVE  PeerStays
BY DEF KeepPeer, PeerStays

LEMMA OverrunStays ==
  ASSUME TypeInv, NEW g, PeerStays \/ PeerGoes(g)
  PROVE  Overrun' = Overrun
BY DEF TypeInv, PeerStays, PeerGoes, Overrun, None

LEMMA PeerTypes ==
  ASSUME TypeInv, NEW g, PeerStays \/ PeerGoes(g)
  PROVE  /\ (opened \in Nat \ {0})' /\ (peer \in {None, opened})'
         /\ (departed \subseteq 1 .. opened)' /\ (peer \notin departed)'
BY DEF TypeInv, PeerStays, PeerGoes, None

-----------------------------------------------------------------------------
(***************************************************************************)
(* A step of one dispatch: d is what becomes of it.                        *)
(***************************************************************************)
\* Those whose peer a dispatch may remove: its lock is held, or free, or the
\* removal takes none.
MayRemove(c) == Holding(c) \/ IsOutboundFree(c.own) \/ c.own \in unguarded'

SlotMoves(s, d) ==
  LET c == dispatch[s]
  IN  /\ Go(s, d) /\ IsDispatch(d)
      /\ loop' = loop /\ unguarded \subseteq unguarded'
      /\ PeerStays \/ (PeerGoes(c.own) /\ d = Idle /\ MayRemove(c))
      \* Its peer stays, is the one of now, or none; a lock is kept or taken.
      /\ d.own \in {c.own, peer, None}
      /\ Holding(d) => \/ Holding(c) /\ d.own = c.own
                       \/ d.own = peer /\ (peer = None \/ IsOutboundFree(peer))
      /\ d.pc \in {"settle", "replace"} => d.own = d.captured
      /\ \/ d.captured = c.captured \/ d = Idle
         \/ s = "active" /\ d.captured = peer
      /\ d.pc # "idle" => c.pc # "idle" \/ s = "active"

LEMMA SlotMovesKeep ==
  ASSUME IInv, NEW s \in Slots, NEW d, SlotMoves(s, d)
  PROVE  IInv'
<1> DEFINE c == dispatch[s]
<1>1. /\ Go(s, d) /\ IsDispatch(d) /\ loop' = loop /\ unguarded \subseteq unguarded'
      /\ PeerStays \/ (PeerGoes(c.own) /\ d = Idle /\ MayRemove(c))
  BY DEF SlotMoves
<1>2. TypeInv /\ LockInv /\ WriteInv /\ AbandonInv
  BY DEF IInv
<1>3. /\ c.own \in 0 .. opened /\ c.captured \in 0 .. opened
      /\ peer \in 0 .. opened /\ opened \in Nat /\ opened' = opened
  BY <1>1, <1>2 DEF TypeInv, PeerStays, PeerGoes, None
<1>4. dispatch' = [t \in Slots |-> IF t = s THEN d ELSE dispatch[t]]
  BY <1>1, <1>2 DEF Go, TypeInv
<1>5. Idle.own = 0 /\ Idle.captured = 0 /\ Idle.pc = "idle" /\ ~Holding(Idle)
  BY DEF Idle, None, Holding
<1>6. d.own \in 0 .. opened /\ d.captured \in 0 .. opened
  BY <1>3, <1>5 DEF SlotMoves, None
<1>7. Overrun' = Overrun
  BY <1>1, <1>2, OverrunStays
<1>8. TypeInv'
  <2>1. /\ (opened \in Nat \ {0})' /\ (peer \in {None, opened})'
        /\ (departed \subseteq 1 .. opened)' /\ (peer \notin departed)'
    BY <1>1, <1>2, PeerTypes
  <2>2. /\ dispatch' = [t \in Slots |-> dispatch'[t]]
        /\ \A t \in Slots : /\ IsDispatch(dispatch'[t])
                            /\ dispatch'[t].own \in 0 .. opened'
                            /\ dispatch'[t].captured \in 0 .. opened'
    BY <1>1, <1>2, <1>3, <1>4, <1>6 DEF TypeInv
  <2>3. /\ IsSweep(loop)' /\ (loop.gen \in 0 .. opened)'
        /\ (loop.pc # "idle" => loop.gen # None)'
    BY <1>1, <1>2, <1>3 DEF TypeInv, IsSweep
  <2> QED
    BY <2>1, <2>2, <2>3 DEF TypeInv, IsDispatch
<1>9. ASSUME NEW t \in Slots, t # s, Holding(d), Holding(dispatch[t]), d.own = dispatch[t].own
      PROVE  d.own = None
  <2>1. CASE Holding(c) /\ d.own = c.own
    BY <1>2, <1>9, <2>1 DEF LockInv
  <2>2. CASE d.own = peer /\ (peer = None \/ IsOutboundFree(peer))
    BY <1>9, <2>2 DEF IsOutboundFree, HoldsOutbound, Holding
  <2> QED
    BY <1>9, <2>1, <2>2 DEF SlotMoves
<1>10. LockInv'
  <2>1. ASSUME loop.pc = "send", NEW t \in Slots, Holding(dispatch'[t])
        PROVE  dispatch'[t].own # loop.gen
    <3>1. CASE t # s
      BY <1>2, <1>4, <2>1, <3>1 DEF LockInv, HoldsOutbound, Holding
    <3>2. CASE t = s /\ Holding(c) /\ d.own = c.own
      BY <1>2, <1>4, <2>1, <3>2 DEF LockInv, HoldsOutbound, Holding
    <3>3. CASE t = s /\ d.own = peer /\ (peer = None \/ IsOutboundFree(peer))
      BY <1>2, <1>4, <2>1, <3>3 DEF TypeInv, IsOutboundFree
    <3> QED
      BY <1>4, <2>1, <3>1, <3>2, <3>3 DEF SlotMoves
  <2>2. ASSUME NEW t \in Slots, NEW u \in Slots, t # u,
               Holding(dispatch'[t]), Holding(dispatch'[u]), dispatch'[t].own = dispatch'[u].own
        PROVE  dispatch'[t].own = None
    <3>1. CASE t = s
      BY <1>4, <1>9, <2>2, <3>1
    <3>2. CASE u = s
      BY <1>4, <1>9, <2>2, <3>2
    <3>3. CASE t # s /\ u # s
      BY <1>2, <1>4, <2>2, <3>3 DEF LockInv
    <3> QED
      BY <3>1, <3>2, <3>3
  <2> QED
    BY <1>1, <2>1, <2>2 DEF LockInv, HoldsOutbound, Holding
<1>11. ASSUME NEW g, g \in Writable, g # peer \/ PeerStays \/ g \in unguarded'
       PROVE  g \in Writable'
  BY <1>1, <1>7, <1>11 DEF Writable, PeerStays, PeerGoes
<1>12. WriteInv'
  <2>1. ASSUME loop.pc = "send"
        PROVE  loop'.gen \in Writable'
    <3>1. CASE PeerStays
      BY <1>1, <1>2, <1>11, <2>1, <3>1 DEF WriteInv, Writable
    <3>2. CASE PeerGoes(c.own) /\ MayRemove(c)
      <4>1. loop.gen # peer \/ loop.gen \in unguarded'
        BY <1>2, <2>1, <3>2 DEF LockInv, IsOutboundFree, HoldsOutbound, Holding, PeerGoes, MayRemove
      <4> QED
        BY <1>1, <1>2, <1>11, <2>1, <4>1 DEF WriteInv, Writable
    <3> QED
      BY <1>1, <3>1, <3>2
  <2>2. ASSUME NEW t \in Slots, Holding(dispatch'[t])
        PROVE  dispatch'[t].own \in Writable'
    <3>1. CASE t = s
      <4>1. PeerStays
        BY <1>1, <1>4, <1>5, <2>2, <3>1
      <4>2. d.own \in Writable
        BY <1>2, <1>4, <2>2, <3>1 DEF SlotMoves, WriteInv, Writable
      <4> QED
        BY <1>4, <1>11, <3>1, <4>1, <4>2 DEF Writable
    <3>2. CASE t # s
      <4>1. dispatch[t].own \in Writable /\ dispatch'[t] = dispatch[t]
        BY <1>2, <1>4, <2>2, <3>2 DEF WriteInv
      <4>2. CASE PeerStays
        BY <1>11, <4>1, <4>2 DEF Writable
      <4>3. CASE PeerGoes(c.own) /\ MayRemove(c)
        <5>1. dispatch[t].own # peer \/ dispatch[t].own \in unguarded'
          BY <1>2, <1>4, <2>2, <3>2, <4>3 DEF LockInv, PeerGoes, MayRemove, IsOutboundFree, HoldsOutbound, Holding
        <5> QED
          BY <1>11, <4>1, <5>1 DEF Writable
      <4> QED
        BY <1>1, <4>2, <4>3
    <3> QED
      BY <3>1, <3>2
  <2> QED
    BY <1>1, <2>1, <2>2 DEF WriteInv, Holding, Writable
<1>13. AbandonInv'
  <2>1. ASSUME NEW t \in Slots, dispatch'[t].pc \in {"settle", "replace"}
        PROVE  dispatch'[t].own = dispatch'[t].captured
    BY <1>2, <1>4, <2>1 DEF SlotMoves, AbandonInv
  <2>2. ASSUME dispatch'["abandoned"].pc # "idle", dispatch'["abandoned"].captured # None
        PROVE  dispatch'["abandoned"].captured # peer'
    <3>1. /\ dispatch["abandoned"].pc # "idle"
          /\ dispatch["abandoned"].captured = dispatch'["abandoned"].captured
      BY <1>4, <1>5, <2>2 DEF SlotMoves, Slots
    <3> QED
      BY <1>1, <1>2, <2>2, <3>1 DEF AbandonInv, PeerStays, PeerGoes, None
  <2> QED
    BY <2>1, <2>2 DEF AbandonInv
<1> QED
  BY <1>8, <1>10, <1>12, <1>13 DEF IInv

-----------------------------------------------------------------------------
(***************************************************************************)
(* A step of the loop.                                                     *)
(***************************************************************************)
LoopMoves(l) ==
  /\ loop' = l /\ IsSweep(l) /\ dispatch' = dispatch /\ unguarded \subseteq unguarded'
  /\ l.gen \in {loop.gen, peer, None}
  /\ l.pc # "idle" => l.gen # None
  /\ l.pc = "send" => l.gen = peer /\ IsOutboundFree(peer) /\ PeerStays
  /\ \/ PeerStays
     \/ \E g \in 1 .. opened :
          PeerGoes(g) /\ (g \in unguarded' \/ \A s \in Slots : ~HoldsOutbound(s, g))

LEMMA LoopMovesKeep ==
  ASSUME IInv, NEW l, LoopMoves(l)
  PROVE  IInv'
<1>1. TypeInv /\ LockInv /\ WriteInv /\ AbandonInv
  BY DEF IInv
<1>2. PICK g : \/ PeerStays
               \/ PeerGoes(g) /\ (g \in unguarded' \/ \A s \in Slots : ~HoldsOutbound(s, g))
  BY DEF LoopMoves
<1>3. Overrun' = Overrun
  BY <1>1, <1>2, OverrunStays
<1>4. loop' = l /\ dispatch' = dispatch /\ unguarded \subseteq unguarded'
  BY DEF LoopMoves
<1>5. TypeInv'
  <2>1. /\ (opened \in Nat \ {0})' /\ (peer \in {None, opened})'
        /\ (departed \subseteq 1 .. opened)' /\ (peer \notin departed)'
    BY <1>1, <1>2, PeerTypes
  <2>2. opened' = opened
    BY <1>2 DEF PeerStays, PeerGoes
  <2>3. /\ IsSweep(loop') /\ loop'.gen \in 0 .. opened
        /\ loop'.pc # "idle" => loop'.gen # None
    BY <1>1, <1>4 DEF LoopMoves, TypeInv, None
  <2> QED
    BY <1>1, <1>4, <2>1, <2>2, <2>3 DEF TypeInv, IsDispatch, IsSweep
<1>6. LockInv'
  BY <1>1, <1>4 DEF LockInv, LoopMoves, HoldsOutbound, Holding, IsOutboundFree
<1>7. WriteInv'
  <2>1. loop'.pc = "send" => loop'.gen \in Writable'
    BY <1>4 DEF LoopMoves, Writable, PeerStays
  <2>2. ASSUME NEW s \in Slots, Holding(dispatch[s])
        PROVE  dispatch[s].own \in Writable'
    <3>1. dispatch[s].own \in Writable
      BY <1>1, <2>2 DEF WriteInv
    <3>2. CASE PeerStays
      BY <1>3, <1>4, <3>1, <3>2 DEF Writable, PeerStays
    <3>3. CASE PeerGoes(g) /\ (g \in unguarded' \/ \A t \in Slots : ~HoldsOutbound(t, g))
      <4>1. dispatch[s].own # peer \/ dispatch[s].own \in unguarded'
        BY <2>2, <3>3 DEF HoldsOutbound, Holding, PeerGoes
      <4> QED
        BY <1>3, <1>4, <3>1, <4>1 DEF Writable
    <3> QED
      BY <1>2, <3>2, <3>3
  <2> QED
    BY <1>4, <2>1, <2>2 DEF WriteInv, Holding
<1>8. AbandonInv'
  BY <1>1, <1>2, <1>4 DEF AbandonInv, PeerStays, PeerGoes
<1> QED
  BY <1>5, <1>6, <1>7, <1>8 DEF IInv

-----------------------------------------------------------------------------
(***************************************************************************)
(* A new peer, and a dispatch that is abandoned.                           *)
(***************************************************************************)
LEMMA CreateOverruns ==
  ASSUME TypeInv, NEW s \in Slots, Create(s)
  PROVE  /\ opened' = opened + 1 /\ peer' = opened'
         /\ departed' \subseteq 1 .. opened
         /\ \A g \in 1 .. opened :
              (g = peer \/ g \in Overrun) /\ g # dispatch[s].own => g \in Overrun'
         /\ peer \in {None, dispatch[s].own} => Overrun' \subseteq Overrun
<1>1. /\ opened' = opened + 1 /\ peer' = opened'
      /\ departed' = departed \union ({dispatch[s].own} \ {None})
  BY DEF Create
<1>2. /\ opened \in Nat /\ peer \notin departed /\ departed \subseteq 1 .. opened
      /\ dispatch[s].own \in 0 .. opened
  BY DEF TypeInv
<1>3. departed' \subseteq 1 .. opened
  <2>1. ASSUME NEW g \in departed'
        PROVE  g \in 1 .. opened
    BY <1>1, <1>2, <2>1 DEF None
  <2> QED
    BY <2>1
<1>4. ASSUME NEW g \in 1 .. opened, g = peer \/ g \in Overrun, g # dispatch[s].own
      PROVE  g \in Overrun'
  BY <1>1, <1>2, <1>4 DEF Overrun
<1>5. ASSUME peer \in {None, dispatch[s].own}, NEW g \in Overrun'
      PROVE  g \in Overrun
  BY <1>1, <1>2, <1>5 DEF Overrun, None
<1> QED
  BY <1>1, <1>3, <1>4, <1>5

LEMMA CreateKeeps ==
  ASSUME IInv, NEW s \in Slots, Create(s)
  PROVE  IInv'
<1> DEFINE c == dispatch[s]
<1>1. TypeInv /\ LockInv /\ WriteInv /\ AbandonInv
  BY DEF IInv
<1>2. /\ opened' = opened + 1 /\ peer' = opened' /\ departed' \subseteq 1 .. opened
      /\ \A g \in 1 .. opened : (g = peer \/ g \in Overrun) /\ g # c.own => g \in Overrun'
  BY <1>1, CreateOverruns
<1>3. loop' = loop /\ unguarded' = unguarded /\ c.pc = "create"
  BY DEF Create
<1>4. dispatch' = [t \in Slots |-> IF t = s THEN [c EXCEPT !.pc = "adopt"] ELSE dispatch[t]]
  BY <1>1 DEF Create, To, Go, TypeInv
<1>5. /\ IsDispatch([c EXCEPT !.pc = "adopt"])
      /\ [c EXCEPT !.pc = "adopt"].pc = "adopt"
      /\ [c EXCEPT !.pc = "adopt"].own = c.own
      /\ [c EXCEPT !.pc = "adopt"].captured = c.captured
  BY <1>1 DEF TypeInv, IsDispatch
<1>6. /\ opened \in Nat /\ peer \in {None, opened} /\ loop.gen \in 0 .. opened
      /\ \A t \in Slots : /\ dispatch[t].own \in 0 .. opened
                          /\ dispatch[t].captured \in 0 .. opened
  BY <1>1 DEF TypeInv
<1>7. TypeInv'
  <2>1. /\ (opened \in Nat \ {0})' /\ (peer \in {None, opened})'
        /\ (departed \subseteq 1 .. opened)' /\ (peer \notin departed)'
    BY <1>2, <1>6
  <2>2. /\ dispatch' = [t \in Slots |-> dispatch'[t]]
        /\ \A t \in Slots : /\ IsDispatch(dispatch'[t])
                            /\ dispatch'[t].own \in 0 .. opened'
                            /\ dispatch'[t].captured \in 0 .. opened'
    BY <1>1, <1>2, <1>4, <1>5, <1>6 DEF TypeInv
  <2>3. /\ IsSweep(loop') /\ loop'.gen \in 0 .. opened'
        /\ loop'.pc # "idle" => loop'.gen # None
    BY <1>1, <1>2, <1>3, <1>6 DEF TypeInv
  <2> QED
    BY <2>1, <2>2, <2>3 DEF TypeInv, IsDispatch, IsSweep
<1>8. LockInv'
  BY <1>1, <1>3, <1>4, <1>5 DEF LockInv, HoldsOutbound, Holding
<1>9. ASSUME NEW g \in 0 .. opened, g \in Writable, g # c.own \/ g = None
      PROVE  g \in Writable'
  BY <1>2, <1>3, <1>6, <1>9 DEF Writable, None
<1>10. WriteInv'
  <2>1. ASSUME loop.pc = "send"
        PROVE  loop.gen \in Writable'
    <3>1. loop.gen # c.own
      BY <1>1, <1>3, <2>1 DEF LockInv, HoldsOutbound
    <3> QED
      BY <1>1, <1>6, <1>9, <2>1, <3>1 DEF WriteInv
  <2>2. ASSUME NEW t \in Slots, t # s, Holding(dispatch[t])
        PROVE  dispatch[t].own \in Writable'
    <3>1. Holding(c)
      BY <1>3 DEF Holding
    <3>2. dispatch[t].own # c.own \/ dispatch[t].own = None
      BY <1>1, <2>2, <3>1 DEF LockInv
    <3> QED
      BY <1>1, <1>6, <1>9, <2>2, <3>2 DEF WriteInv
  <2> QED
    BY <1>3, <1>4, <1>5, <2>1, <2>2 DEF WriteInv, Holding
<1>11. AbandonInv'
  BY <1>1, <1>2, <1>3, <1>4, <1>5, <1>6 DEF AbandonInv, Slots
<1> QED
  BY <1>7, <1>8, <1>10, <1>11 DEF IInv

\* The peer that is retired is not announced as overrun, and whoever writes
\* for it may go on.
LEMMA AbandonKeeps ==
  ASSUME IInv, NEW g, Abandon(g), g = peer \/ g = dispatch["active"].captured
  PROVE  IInv'
<1> DEFINE d == dispatch["active"]
<1>1. TypeInv /\ LockInv /\ WriteInv /\ AbandonInv
  BY DEF IInv
<1>2. /\ d # Idle /\ dispatch["abandoned"].pc \in {"idle", "handle"}
      /\ dispatch' = [active |-> Idle, abandoned |-> d]
      /\ RemovePeer(g) /\ opened' = opened /\ loop' = loop
      /\ unguarded' = IF peer = g /\ g # None THEN unguarded \union {g} ELSE unguarded
  BY DEF Abandon, RemoveUnguarded
<1>3. PeerStays \/ PeerGoes(g)
  BY <1>2, RemovalMoves
<1>4. Overrun' = Overrun
  BY <1>1, <1>3, OverrunStays
<1>5. /\ dispatch' = [t \in Slots |-> dispatch'[t]]
      /\ dispatch'["active"] = Idle /\ dispatch'["abandoned"] = d
      /\ \A t \in Slots : t \in {"active", "abandoned"}
      /\ "active" \in Slots /\ "abandoned" \in Slots
  BY <1>2 DEF Slots
<1>6. IsDispatch(Idle) /\ Idle.own = 0 /\ Idle.captured = 0 /\ Idle.pc = "idle" /\ ~Holding(Idle)
  BY DEF Idle, IsDispatch, None, Holding
<1>7. TypeInv'
  <2>1. /\ (opened \in Nat \ {0})' /\ (peer \in {None, opened})'
        /\ (departed \subseteq 1 .. opened)' /\ (peer \notin departed)'
    BY <1>1, <1>3, PeerTypes
  <2>2. \A t \in Slots : /\ IsDispatch(dispatch'[t])
                         /\ dispatch'[t].own \in 0 .. opened'
                         /\ dispatch'[t].captured \in 0 .. opened'
    BY <1>1, <1>2, <1>5, <1>6 DEF TypeInv
  <2> QED
    BY <1>1, <1>2, <1>5, <2>1, <2>2 DEF TypeInv, IsDispatch, IsSweep
<1>8. LockInv'
  <2>1. \A t \in Slots : Holding(dispatch'[t]) => dispatch'[t] = d /\ t = "abandoned"
    BY <1>5, <1>6
  <2> QED
    BY <1>1, <1>2, <1>5, <2>1 DEF LockInv, HoldsOutbound, Holding
<1>9. Writable \subseteq Writable'
  BY <1>2, <1>3, <1>4 DEF Writable, PeerStays, PeerGoes
<1>10. WriteInv'
  <2>1. \A t \in Slots : Holding(dispatch'[t]) => dispatch'[t].own \in Writable'
    BY <1>1, <1>5, <1>6, <1>9 DEF WriteInv
  <2> QED
    BY <1>1, <1>2, <1>9, <2>1 DEF WriteInv, Holding
<1>11. AbandonInv'
  <2>1. \A t \in Slots : dispatch'[t].pc \in {"settle", "replace"}
                           => dispatch'[t].own = dispatch'[t].captured
    BY <1>1, <1>5, <1>6 DEF AbandonInv
  <2>2. d.captured = None \/ d.captured # peer'
    <3>1. CASE g = d.captured
      BY <1>2, <3>1 DEF RemovePeer, Unregister
    <3>2. CASE g = peer
      BY <1>2, <3>2 DEF RemovePeer, Unregister
    <3> QED
      BY <3>1, <3>2
  <2> QED
    BY <1>5, <2>1, <2>2 DEF AbandonInv
<1> QED
  BY <1>7, <1>8, <1>10, <1>11 DEF IInv

-----------------------------------------------------------------------------
(***************************************************************************)
(* Which action is which of these.                                         *)
(***************************************************************************)
\* A dispatch whose peer, captured peer and lock are left as they were.
Onward(c, d) ==
  /\ IsDispatch(d) /\ d.own = c.own /\ d.captured = c.captured /\ c.pc # "idle"
  /\ Holding(d) => Holding(c)
  /\ d.pc \notin {"settle", "replace"}

LEMMA OnwardMoves ==
  ASSUME NEW s \in Slots, NEW d, Go(s, d), Onward(dispatch[s], d), KeepWorld, PeerStays
  PROVE  SlotMoves(s, d)
BY DEF SlotMoves, Onward, KeepWorld

LEMMA ExitMoves ==
  ASSUME NEW s \in Slots, Exit(s), loop' = loop, unguarded \subseteq unguarded',
         \/ PeerStays
         \/ PeerGoes(dispatch[s].own) /\ MayRemove(dispatch[s])
  PROVE  SlotMoves(s, Idle)
BY DEF SlotMoves, Exit, Idle, IsDispatch, Holding, None

LEMMA PassMoves ==
  ASSUME TypeInv, NEW s \in Slots, NEW step, dispatch[s].pc # "idle",
         step \notin {"settle", "replace"},
         Holding(dispatch[s]) \/ step \in {"idle", "lock", "accept", "prepare", "handle",
                                           "respond", "adopt", "fail"}
  PROVE  Onward(dispatch[s], [dispatch[s] EXCEPT !.pc = step])
BY DEF TypeInv, Onward, IsDispatch, Holding

LEMMA DataMoves ==
  ASSUME IInv, NEW s \in Slots,
         \/ LockApplication(s) \/ Accept(s) \/ PreparePackets(s) \/ Handle(s) \/ Handled(s)
  PROVE  \E d : SlotMoves(s, d)
<1> DEFINE c == dispatch[s]
<1>1. TypeInv /\ IsDispatch(c)
  BY DEF IInv, TypeInv
<1>2. KeepWorld /\ PeerStays
  BY DEF LockApplication, Accept, PreparePackets, Handle, Handled, KeepWorld, KeepPeer, PeerStays
<1>3. \/ Exit(s)
      \/ /\ c.pc # "idle"
         /\ \E step \in {"accept", "prepare", "handle", "respond", "fail"} : To(s, step)
      \/ /\ c.pc # "idle"
         /\ \E d : Go(s, d) /\ Onward(c, d)
  <2>1. CASE LockApplication(s)
    BY <2>1 DEF LockApplication
  <2>2. CASE Accept(s)
    BY <2>2 DEF Accept
  <2>3. CASE PreparePackets(s)
    <3>1. c.pc = "prepare"
      BY <2>3 DEF PreparePackets
    <3>2. \/ Go(s, [c EXCEPT !.pc = "respond", !.isFailed = TRUE])
          \/ \E x, y : Go(s, [c EXCEPT !.pc = "handle", !.ready = x, !.isFailed = y])
      BY <2>3 DEF PreparePackets
    <3>3. Onward(c, [c EXCEPT !.pc = "respond", !.isFailed = TRUE])
      BY <1>1, <3>1 DEF Onward, IsDispatch, Holding
    <3>4. \A x, y : Onward(c, [c EXCEPT !.pc = "handle", !.ready = x, !.isFailed = y])
      BY ZenonT(40), <1>1, <3>1 DEF Onward, IsDispatch, Holding
    <3> QED
      BY <3>1, <3>2, <3>3, <3>4
  <2>4. CASE Handle(s)
    <3>1. c.pc = "handle"
      BY <2>4 DEF Handle
    <3>2. \/ \E x : Go(s, [c EXCEPT !.ready = x, !.isFailed = TRUE])
          \/ \E x, y : Go(s, [c EXCEPT !.ready = x, !.answers = y])
      BY <2>4 DEF Handle
    <3>3. \A x : Onward(c, [c EXCEPT !.ready = x, !.isFailed = TRUE])
      BY <1>1, <3>1 DEF Onward, IsDispatch, Holding
    <3>4. \A x, y : Onward(c, [c EXCEPT !.ready = x, !.answers = y])
      BY ZenonT(40), <1>1, <3>1 DEF Onward, IsDispatch, Holding
    <3> QED
      BY <3>1, <3>2, <3>3, <3>4
  <2>5. CASE Handled(s)
    BY <2>5 DEF Handled
  <2> QED
    BY <2>1, <2>2, <2>3, <2>4, <2>5
<1> QED
  BY <1>1, <1>2, <1>3, ExitMoves, OnwardMoves, PassMoves DEF To, KeepWorld

\* Only a holder of the lock removes the peer of its dispatch.
LEMMA WritingMoves ==
  ASSUME IInv, NEW s \in Slots, Encode(s) \/ CheckPeer(s) \/ Write(s) \/ Finish(s)
  PROVE  \E d : SlotMoves(s, d)
<1> DEFINE c == dispatch[s]
<1>1. TypeInv /\ IsDispatch(c)
  BY DEF IInv, TypeInv
<1>2. KeepWorld /\ opened' = opened /\ Holding(c) /\ c.pc # "idle"
  BY DEF Encode, CheckPeer, Write, Finish, KeepWorld, Holding
<1>3. CASE Encode(s)
  <2>1. CASE RemovePeer(c.own) /\ Exit(s)
    BY <1>2, <2>1, RemovalMoves, ExitMoves DEF KeepWorld, MayRemove
  <2>2. CASE PeerStays /\ \E x : Go(s, [c EXCEPT !.pc = "check", !.answers = <<>>, !.out = x])
    <3>1. \A x : Onward(c, [c EXCEPT !.pc = "check", !.answers = <<>>, !.out = x])
      BY <1>1, <1>2 DEF Onward, IsDispatch
    <3> QED
      BY <1>2, <2>2, <3>1, OnwardMoves
  <2> QED
    BY <1>2, <1>3, <2>1, <2>2 DEF Encode, PeerStays
<1>4. CASE CheckPeer(s)
  <2>1. PeerStays /\ (Exit(s) \/ To(s, "write"))
    BY <1>2, <1>4, KeepMoves DEF CheckPeer
  <2> QED
    BY <1>1, <1>2, <2>1, ExitMoves, PassMoves, OnwardMoves DEF To, KeepWorld
<1>5. CASE Write(s)
  <2>1. CASE PeerStays /\ (To(s, "finish") \/ Exit(s))
    BY <1>1, <1>2, <2>1, ExitMoves, PassMoves, OnwardMoves DEF To, KeepWorld
  <2>2. CASE Exit(s) /\ RemovePeer(c.own)
    BY <1>2, <2>2, RemovalMoves, ExitMoves DEF KeepWorld, MayRemove
  <2> QED
    BY <1>2, <1>5, <2>1, <2>2 DEF Write, PeerStays, KeepPeer
<1>6. CASE Finish(s)
  BY <1>2, <1>6, RemovalMoves, ExitMoves DEF Finish, KeepWorld, MayRemove
<1> QED
  BY <1>3, <1>4, <1>5, <1>6

\* A dispatch that fails removes its peer without the lock.
LEMMA FailMoves ==
  ASSUME IInv, NEW s \in Slots, Fail(s)
  PROVE  SlotMoves(s, Idle)
<1> DEFINE g == dispatch[s].own
<1>1. Exit(s) /\ loop' = loop /\ opened' = opened /\ unguarded \subseteq unguarded'
  BY DEF Fail, RemoveUnguarded
<1>2. PeerStays \/ (PeerGoes(g) /\ g \in unguarded')
  BY DEF Fail, RemoveUnguarded, RemovePeer, Unregister, PeerStays, PeerGoes
<1> QED
  BY <1>1, <1>2, ExitMoves DEF MayRemove

\* A lock is taken for the registered peer only, and when no one has it; an
\* acknowledgement that cannot be read removes the peer with it.
LEMMA LockingMoves ==
  ASSUME IInv, NEW s \in Slots, LockOutbound(s) \/ Settle(s) \/ Replace(s) \/ Adopt(s)
  PROVE  \E d : SlotMoves(s, d)
<1> DEFINE c == dispatch[s]
<1>1. TypeInv /\ IsDispatch(c)
  BY DEF IInv, TypeInv
<1>2. KeepWorld /\ opened' = opened /\ c.pc # "idle"
  BY DEF LockOutbound, Settle, Replace, Adopt, KeepWorld
<1>3. CASE LockOutbound(s)
  <2> PeerStays
    BY <1>2, <1>3, KeepMoves DEF LockOutbound
  <2>1. CASE Exit(s)
    BY <1>2, <2>1, ExitMoves DEF KeepWorld
  <2>2. ASSUME NEW step \in {"check", "encode"}, To(s, step), peer = c.own
        PROVE  SlotMoves(s, [c EXCEPT !.pc = step])
    BY <1>1, <1>2, <1>3, <2>2 DEF SlotMoves, To, LockOutbound, KeepWorld, IsDispatch
  <2> QED
    BY <1>3, <2>1, <2>2 DEF LockOutbound
<1>4. CASE Settle(s)
  <2>1. CASE Exit(s) /\ PeerStays
    BY <1>2, <2>1, ExitMoves DEF KeepWorld
  <2>2. ASSUME NEW x, Go(s, [c EXCEPT !.pc = "check", !.out = x]), peer = c.own, PeerStays
        PROVE  SlotMoves(s, [c EXCEPT !.pc = "check", !.out = x])
    BY <1>1, <1>2, <1>4, <2>2 DEF SlotMoves, Settle, KeepWorld, IsDispatch
  <2>3. CASE Exit(s) /\ PeerGoes(c.own)
    BY <1>2, <1>4, <2>3, ExitMoves DEF Settle, KeepWorld, MayRemove
  <2> QED
    BY <1>2, <1>4, <2>1, <2>2, <2>3, RemovalMoves DEF Settle, PeerStays, KeepPeer
<1>5. CASE Replace(s)
  BY <1>1, <1>2, <1>5, KeepMoves DEF SlotMoves, Replace, KeepWorld, IsDispatch
<1>6. CASE Adopt(s)
  <2>1. PICK step \in {"check", "respond"} :
          /\ Go(s, [c EXCEPT !.own = peer, !.pc = step])
          /\ step = "check" => peer = None
    BY <1>6 DEF Adopt
  <2> QED
    BY <1>1, <1>2, <1>6, <2>1, KeepMoves DEF Adopt, SlotMoves, KeepWorld, IsDispatch, Holding
<1> QED
  BY <1>3, <1>4, <1>5, <1>6

\* One that gives up was begun for a peer that is gone.
LEMMA GiveUpMoves ==
  ASSUME IInv, GiveUp
  PROVE  SlotMoves("abandoned", Idle)
<1> DEFINE c == dispatch["abandoned"]
<1>1. /\ Exit("abandoned") /\ loop' = loop /\ opened' = opened /\ "abandoned" \in Slots
      /\ unguarded \subseteq unguarded'
      /\ c.pc \in {"respond", "settle", "replace"}
      /\ IF c.pc \in {"settle", "replace"} THEN RemovePeer(c.own) ELSE KeepPeer
  BY DEF GiveUp, RemoveUnguarded, Slots
<1>2. c.pc \in {"settle", "replace"} => c.own = None \/ c.own # peer
  BY <1>1 DEF IInv, AbandonInv, Slots
<1>3. PeerStays
  BY <1>1, <1>2, KeepMoves DEF RemovePeer, PeerStays
<1> QED
  BY <1>1, <1>3, ExitMoves

LEMMA BeginMoves ==
  ASSUME IInv, NEW kind, NEW item, NEW step \in {"lock", "settle", "replace", "fail"},
         Begin(kind, item, step), PeerStays, loop' = loop, unguarded' = unguarded
  PROVE  \E d : SlotMoves("active", d)
<1>1. PICK d : d = [Idle EXCEPT !.pc = step, !.kind = kind, !.item = item,
                                !.own = peer, !.captured = peer]
  OBVIOUS
<1>2. IsDispatch(d) /\ d.pc = step /\ d.own = peer /\ d.captured = peer
  BY <1>1 DEF Idle, IsDispatch
<1>3. Go("active", d)
  BY <1>1 DEF Begin
<1> QED
  BY <1>2, <1>3 DEF SlotMoves, Holding

LEMMA ReceiveMoves ==
  ASSUME IInv,
         \/ \E k \in Datagrams(peer) : ReceiveData(k)
         \/ \E p \in outbound.pending : ReceiveAcknowledgement(p)
         \/ ReceiveOpen \/ ReceiveUnreadable
  PROVE  \E d : SlotMoves("active", d)
<1>1. CASE \E k \in Datagrams(peer) : ReceiveData(k)
  <2>1. PICK k \in Datagrams(peer) : ReceiveData(k)
    BY <1>1
  <2> QED
    BY <2>1, BeginMoves DEF ReceiveData, KeepPeer, PeerStays
<1>2. CASE \E p \in outbound.pending : ReceiveAcknowledgement(p)
  <2>1. PICK p \in outbound.pending : ReceiveAcknowledgement(p)
    BY <1>2
  <2> QED
    BY <2>1, BeginMoves DEF ReceiveAcknowledgement, KeepPeer, KeepWorld, PeerStays
<1>3. CASE ReceiveOpen
  BY <1>3, BeginMoves DEF ReceiveOpen, KeepPeer, KeepWorld, PeerStays
<1>4. CASE ReceiveUnreadable
  <2>1. PICK step \in {"lock", "settle", "fail"} : Begin("unreadable", 0, step)
    BY <1>4 DEF ReceiveUnreadable
  <2> QED
    BY <1>4, <2>1, BeginMoves DEF ReceiveUnreadable, KeepPeer, KeepWorld, PeerStays
<1> QED
  BY <1>1, <1>2, <1>3, <1>4

\* The loop removes a peer that it has the lock of, or without any after a
\* failed write.
LEMMA SweepMoves ==
  ASSUME IInv, Sweep
  PROVE  \E l : LoopMoves(l)
<1>1. TypeInv /\ LockInv /\ IsSweep(loop) /\ loop.gen \in 0 .. opened
  BY DEF IInv, TypeInv
<1>2. opened' = opened /\ dispatch' = dispatch /\ unguarded \subseteq unguarded'
  BY DEF Sweep, Collect, Retransmit, Send, RemoveUnsent, Expire, KeepDispatch, RemoveUnguarded
<1>3. IsSweep(NoSweep) /\ NoSweep.pc = "idle" /\ NoSweep.gen = None
  BY DEF NoSweep, IsSweep
<1>4. ASSUME NEW due, loop.pc # "idle"
      PROVE  /\ IsSweep(Remaining(due)) /\ Remaining(due).gen \in {loop.gen, None}
             /\ Remaining(due).pc \in {"idle", "sweep"}
             /\ Remaining(due).pc # "idle" => Remaining(due).gen # None
  BY <1>1, <1>3, <1>4 DEF Remaining, IsSweep, TypeInv
<1>5. CASE Collect
  <2>1. PICK x, y : loop' = [NoSweep EXCEPT !.pc = "sweep", !.gen = peer,
                               !.isExpiring = x, !.due = y]
    BY <1>5 DEF Collect
  <2>2. IsSweep(loop') /\ loop'.pc = "sweep" /\ loop'.gen = peer
    BY <2>1 DEF NoSweep, IsSweep
  <2> QED
    BY <1>2, <1>5, <2>2, KeepMoves DEF Collect, LoopMoves
<1>6. ASSUME NEW n \in loop.due, Retransmit(n)
      PROVE  LoopMoves(loop')
  <2>1. loop.pc = "sweep" /\ PeerStays
    BY <1>2, <1>6 DEF Retransmit, KeepPeer, PeerStays
  <2>2. CASE loop' = Remaining(loop.due \ {n})
    BY <1>2, <1>4, <2>1, <2>2 DEF LoopMoves
  <2>3. CASE /\ loop' = [loop EXCEPT !.pc = "send", !.at = n]
             /\ IsOutboundFree(loop.gen) /\ peer = loop.gen
    <3>1. IsSweep(loop') /\ loop'.pc = "send" /\ loop'.gen = loop.gen /\ loop.gen # None
      BY <1>1, <2>1, <2>3 DEF IsSweep, TypeInv
    <3> QED
      BY <1>2, <2>1, <2>3, <3>1 DEF LoopMoves
  <2> QED
    BY <1>6, <2>2, <2>3 DEF Retransmit
<1>7. CASE Send
  <2>1. loop.pc = "send" /\ PeerStays
    BY <1>2, <1>7 DEF Send, PeerStays
  <2>2. CASE loop' = Remaining(loop.due \ {loop.at})
    BY <1>2, <1>4, <2>1, <2>2 DEF LoopMoves
  <2>3. CASE loop' = [loop EXCEPT !.pc = "remove"]
    <3>1. IsSweep(loop') /\ loop'.pc = "remove" /\ loop'.gen = loop.gen /\ loop.gen # None
      BY <1>1, <2>1, <2>3 DEF IsSweep, TypeInv
    <3> QED
      BY <1>2, <2>1, <3>1 DEF LoopMoves
  <2> QED
    BY <1>7, <2>2, <2>3 DEF Send
<1>8. CASE RemoveUnsent
  <2>1. loop.pc = "remove" /\ loop' = Remaining(loop.due \ {loop.at})
    BY <1>8 DEF RemoveUnsent
  <2>2. PeerStays \/ (PeerGoes(loop.gen) /\ loop.gen \in unguarded')
    BY <1>2, <1>8 DEF RemoveUnsent, RemoveUnguarded, RemovePeer, Unregister, PeerStays, PeerGoes
  <2>3. loop.gen \in 1 .. opened
    BY <1>1, <2>1 DEF TypeInv, None
  <2> QED
    BY <1>2, <1>4, <2>1, <2>2, <2>3 DEF LoopMoves
<1>9. CASE Expire
  <2>1. loop.pc = "sweep" /\ loop' = NoSweep
    BY <1>9 DEF Expire
  <2>2. PeerStays \/ (PeerGoes(loop.gen) /\ IsOutboundFree(loop.gen))
    BY <1>2, <1>9, RemovalMoves, KeepMoves DEF Expire
  <2>3. loop.gen \in 1 .. opened
    BY <1>1, <2>1 DEF TypeInv, None
  <2> QED
    BY <1>2, <1>3, <2>1, <2>2, <2>3 DEF LoopMoves, IsOutboundFree
<1> QED
  BY <1>5, <1>6, <1>7, <1>8, <1>9 DEF Sweep

\* What is left alone by what time does, and by a step that changes nothing.
LEMMA StayKeeps ==
  ASSUME IInv, PeerStays, loop' = loop, dispatch' = dispatch, unguarded' = unguarded
  PROVE  IInv'
<1>1. Overrun' = Overrun
  BY DEF PeerStays, Overrun
<1>2. TypeInv'
  BY DEF IInv, TypeInv, PeerStays, IsDispatch, IsSweep
<1>3. LockInv' /\ WriteInv' /\ AbandonInv'
  BY <1>1 DEF IInv, LockInv, WriteInv, AbandonInv, PeerStays, HoldsOutbound, Holding, Writable
<1> QED
  BY <1>2, <1>3 DEF IInv

-----------------------------------------------------------------------------
(***************************************************************************)
(* The theorems.                                                           *)
(***************************************************************************)
LEMMA NextKeeps ==
  ASSUME IInv, [Next]_vars
  PROVE  IInv'
<1>1. ASSUME Environment
      PROVE  IInv'
  <2>1. CASE \/ \E k \in Datagrams(peer) : ReceiveData(k)
             \/ \E p \in outbound.pending : ReceiveAcknowledgement(p)
             \/ ReceiveOpen \/ ReceiveUnreadable
    BY <2>1, ReceiveMoves, SlotMovesKeep DEF Slots
  <2>2. CASE QueueFull
    BY <2>2, AbandonKeeps DEF QueueFull
  <2>3. CASE FallSilent
    BY <2>3, StayKeeps DEF FallSilent, KeepDispatch, PeerStays
  <2> QED
    BY <1>1, <2>1, <2>2, <2>3 DEF Environment
<1>2. CASE DispatchTimeout
  BY <1>2, AbandonKeeps DEF DispatchTimeout
<1>3. CASE GiveUp
  BY <1>3, GiveUpMoves, SlotMovesKeep DEF Slots
<1>4. CASE Sweep
  BY <1>4, SweepMoves, LoopMovesKeep
<1>5. ASSUME NEW s \in Slots, Step(s) \/ Handle(s)
      PROVE  IInv'
  <2>1. CASE Create(s)
    BY <2>1, CreateKeeps
  <2>2. CASE \/ LockApplication(s) \/ Accept(s) \/ PreparePackets(s) \/ Handle(s) \/ Handled(s)
    BY <2>2, DataMoves, SlotMovesKeep
  <2>3. CASE Encode(s) \/ CheckPeer(s) \/ Write(s) \/ Finish(s)
    BY <2>3, WritingMoves, SlotMovesKeep
  <2>4. CASE LockOutbound(s) \/ Settle(s) \/ Replace(s) \/ Adopt(s)
    BY <2>4, LockingMoves, SlotMovesKeep
  <2>5. CASE Fail(s)
    BY <2>5, FailMoves, SlotMovesKeep
  <2> QED
    BY <1>5, <2>1, <2>2, <2>3, <2>4, <2>5 DEF Step
<1>6. CASE \E p \in outbound.pending : Elapse(p)
  BY <1>6, StayKeeps DEF Elapse, KeepDispatch, PeerStays
<1>7. CASE UNCHANGED vars
  BY <1>7, StayKeeps DEF vars, PeerStays
<1> QED
  BY <1>1, <1>2, <1>3, <1>4, <1>5, <1>6, <1>7 DEF Next

LEMMA Invariance == Spec => []IInv
<1>1. Init => IInv
  BY InitHolds
<1>2. IInv /\ [Next]_vars => IInv'
  BY NextKeeps
<1> QED
  BY <1>1, <1>2, PTL DEF Spec

(***************************************************************************)
(* NoStaleWrite: with any number of connections, and however dispatches    *)
(* are abandoned and open requests overtake one another, whoever writes    *)
(* for a connection has its outboundMu, and a connection that someone has  *)
(* the outboundMu of goes only by its own hand, by a removal that takes no *)
(* outboundMu (of a retirement, of the loop after a failed write, of a     *)
(* dispatch that failed with nothing to answer), or when an open request   *)
(* has not found it.                                                       *)
(***************************************************************************)
THEOREM WritesAreTheirs == Spec => NoStaleWrite
<1>1. ASSUME IInv
      PROVE  /\ loop.pc = "send" => loop.gen \in {peer, None} \union unguarded \union Overrun
             /\ \A s \in Slots : dispatch[s].pc = "write" =>
                  dispatch[s].own \in {peer, None} \union unguarded \union Overrun
  BY <1>1 DEF IInv, WriteInv, Writable, Holding
<1>2. IInv /\ [Next]_vars =>
        [LET IsTheirs(g) == g \in {peer, None} \union unguarded \union Overrun
         IN  /\ loop.pc = "send" /\ loop' # loop => IsTheirs(loop.gen)
             /\ \A s \in Slots : IsWriting(s) => IsTheirs(dispatch[s].own)]_vars
  BY <1>1 DEF IsWriting
<1> QED
  BY <1>2, Invariance, PTL DEF Spec, NoStaleWrite

LEMMA OnlyCreateOverruns ==
  ASSUME IInv, [Next]_vars
  PROVE  Overrun' \subseteq Overrun \/ \E s \in Slots : Create(s)
<1>1. TypeInv
  BY DEF IInv
<1>2. ASSUME NEW s \in Slots, NEW d, SlotMoves(s, d)
      PROVE  Overrun' = Overrun
  BY <1>1, <1>2, OverrunStays DEF SlotMoves
<1>3. ASSUME NEW g, Abandon(g)
      PROVE  Overrun' = Overrun
  BY <1>1, <1>3, RemovalMoves, OverrunStays DEF Abandon, RemoveUnguarded
<1>4. ASSUME PeerStays
      PROVE  Overrun' = Overrun
  BY <1>1, <1>4, OverrunStays
<1>5. ASSUME Environment
      PROVE  Overrun' = Overrun
  <2>1. CASE \/ \E k \in Datagrams(peer) : ReceiveData(k)
             \/ \E p \in outbound.pending : ReceiveAcknowledgement(p)
             \/ ReceiveOpen \/ ReceiveUnreadable
    BY <1>2, <2>1, ReceiveMoves DEF Slots
  <2>2. CASE QueueFull \/ FallSilent
    BY <1>3, <1>4, <2>2 DEF QueueFull, FallSilent, KeepDispatch, PeerStays
  <2> QED
    BY <1>5, <2>1, <2>2 DEF Environment
<1>6. ASSUME DispatchTimeout \/ GiveUp \/ Sweep
      PROVE  Overrun' = Overrun
  <2>1. CASE Sweep
    <3>1. PICK l : LoopMoves(l)
      BY <2>1, SweepMoves
    <3> QED
      BY <1>1, <3>1, OverrunStays DEF LoopMoves
  <2> QED
    BY <1>2, <1>3, <1>6, <2>1, GiveUpMoves DEF DispatchTimeout, Slots
<1>7. ASSUME NEW s \in Slots, Step(s) \/ Handle(s), ~Create(s)
      PROVE  Overrun' = Overrun
  BY <1>2, <1>7, DataMoves, FailMoves, WritingMoves, LockingMoves DEF Step
<1>8. ASSUME (\E p \in outbound.pending : Elapse(p)) \/ UNCHANGED vars
      PROVE  Overrun' = Overrun
  BY <1>4, <1>8 DEF Elapse, KeepDispatch, PeerStays, vars
<1> QED
  BY <1>5, <1>6, <1>7, <1>8 DEF Next

(***************************************************************************)
(* DepartureTrue: with any number of connections, a registered peer is     *)
(* never among those announced as gone, and a step that takes a peer from  *)
(* the address without announcing it is the registration of an open        *)
(* request that had locked another peer, or none.                          *)
(***************************************************************************)
THEOREM DeparturesAreTold == Spec => DepartureTrue
<1>1. ASSUME IInv, IInv', [Next]_vars
      PROVE  /\ peer' \notin departed'
             /\ \/ Overrun' \subseteq Overrun
                \/ \E s \in Slots : /\ dispatch[s].pc = "create" /\ dispatch[s].own # peer
                                    /\ dispatch'[s].pc = "adopt"
  <2>1. peer' \notin departed'
    BY <1>1 DEF IInv, TypeInv
  <2>2. ASSUME NEW s \in Slots, Create(s), ~(Overrun' \subseteq Overrun)
        PROVE  /\ dispatch[s].pc = "create" /\ dispatch[s].own # peer
               /\ dispatch'[s].pc = "adopt"
    <3>1. dispatch[s].own # peer
      BY <1>1, <2>2, CreateOverruns DEF IInv
    <3>2. dispatch[s].pc = "create" /\ To(s, "adopt")
      BY <2>2 DEF Create
    <3> QED
      BY <1>1, <3>1, <3>2 DEF IInv, TypeInv, To, Go, IsDispatch
  <2> QED
    BY <1>1, <2>1, <2>2, OnlyCreateOverruns
<1>2. IInv /\ IInv' /\ [Next]_vars =>
        [/\ peer' \notin departed'
         /\ \/ Overrun' \subseteq Overrun
            \/ \E s \in Slots : /\ dispatch[s].pc = "create" /\ dispatch[s].own # peer
                                /\ dispatch'[s].pc = "adopt"]_vars
  BY <1>1
<1> QED
  BY <1>2, Invariance, PTL DEF Spec, DepartureTrue

-----------------------------------------------------------------------------
(***************************************************************************)
(* What the client sends, as the receive windows see it.                   *)
(***************************************************************************)
\* The message number before the first one, and the order indexes due first.
Base(g) == Advance(FirstMessage[g], Modulus - 1)
First(g) == [c \in {0, 1} |-> FirstOrder(g, c)]
PlaceOf(g, number) == Forward(FirstNumber[g], number)

LEMMA GenerationsAre ==
  /\ Connections \in Nat \ {0} /\ ClientWindow \in Nat /\ 1 \in Generations
  /\ MaxPending \in Nat \ {0} /\ MaxAttempts \in Nat \ {0}
  /\ \A g : g \in Generations <=> g \in Nat /\ 1 <= g /\ g <= Connections
BY TrafficFits DEF Generations

LEMMA TrafficIs ==
  ASSUME NEW g \in Generations
  PROVE  /\ Traffic[g] \in Seq(Seq(PacketsOf(g))) /\ Datagrams(g) = 1 .. Len(Traffic[g])
         /\ Len(Traffic[g]) \in Nat /\ Len(Traffic[g]) <= Half
         /\ FirstNumber[g] \in Numbers /\ FirstMessage[g] \in Numbers
         /\ PacketsOf(g) \subseteq AllPackets
<1>1. Traffic[g] \in Seq(Seq(PacketsOf(g))) /\ Len(Traffic[g]) <= Half
      /\ FirstNumber[g] \in Numbers /\ FirstMessage[g] \in Numbers
  BY TrafficFits
<1>2. Len(Traffic[g]) \in Nat /\ DOMAIN Traffic[g] = 1 .. Len(Traffic[g])
  BY <1>1, LenProperties
<1>3. PacketsOf(g) \subseteq AllPackets
  BY DEF AllPackets
<1> QED
  BY <1>1, <1>2, <1>3 DEF Datagrams

LEMMA DatagramIs ==
  ASSUME NEW g \in Generations, NEW k \in Datagrams(g)
  PROVE  /\ Traffic[g][k] \in Seq(PacketsOf(g)) /\ Traffic[g][k] \in Seq(AllPackets)
         /\ k \in Nat /\ 1 <= k /\ k <= Len(Traffic[g])
         /\ \A i \in DOMAIN Traffic[g][k] : Traffic[g][k][i] \in PacketsOf(g)
         /\ NumberOf(g, k) \in Numbers /\ PlaceOf(g, NumberOf(g, k)) = k - 1
<1>1. /\ Traffic[g] \in Seq(Seq(PacketsOf(g))) /\ Datagrams(g) = 1 .. Len(Traffic[g])
      /\ Len(Traffic[g]) \in Nat /\ Len(Traffic[g]) <= Half /\ FirstNumber[g] \in Numbers
      /\ PacketsOf(g) \subseteq AllPackets
  BY TrafficIs
<1>2. Traffic[g][k] \in Seq(PacketsOf(g))
  BY <1>1, ElementOfSeq
<1>3. Traffic[g][k] \in Seq(AllPackets)
  BY <1>1, <1>2
<1>4. \A i \in DOMAIN Traffic[g][k] : Traffic[g][k][i] \in PacketsOf(g)
  BY DEF PacketsOf
<1>5. k - 1 \in Nat /\ k - 1 < Half /\ k - 1 \in Numbers
  BY <1>1, Sizes DEF Numbers
<1>6. NumberOf(g, k) \in Numbers /\ PlaceOf(g, NumberOf(g, k)) = k - 1
  BY <1>1, <1>5, AdvanceIs, ForwardAdvance DEF NumberOf, PlaceOf
<1> QED
  BY <1>1, <1>2, <1>3, <1>4, <1>6

LEMMA BaseIs ==
  ASSUME NEW g \in Generations
  PROVE  /\ Base(g) \in Numbers /\ Advance(Base(g), 1) = FirstMessage[g]
         /\ Forward(Base(g), FirstMessage[g]) = 1
         /\ \A n \in Numbers : Advance(n, 1) = FirstMessage[g] => Base(g) = n
<1> DEFINE F == FirstMessage[g]
<1>1. F \in Numbers /\ Modulus - 1 \in Nat /\ 1 \in Numbers /\ 1 \in Nat /\ Modulus \in Nat
  BY TrafficIs, Sizes DEF Numbers
<1>2. \A n \in Numbers : Advance(n, Modulus) = n
  BY <1>1, AdvanceIs, Sizes DEF Numbers
<1> HIDE DEF F
<1>3. Advance(F, Modulus - 1) \in Numbers
  BY <1>1, AdvanceIs
<1>4. Advance(Advance(F, Modulus - 1), 1) = F
  <2>1. Advance(Advance(F, Modulus - 1), 1) = Advance(F, (Modulus - 1) + 1)
    BY <1>1, AdvanceTwice
  <2>2. (Modulus - 1) + 1 = Modulus
    BY <1>1
  <2> QED
    BY <1>1, <1>2, <2>1, <2>2
<1>5. Forward(Advance(F, Modulus - 1), Advance(Advance(F, Modulus - 1), 1)) = 1
  BY <1>1, <1>3, ForwardAdvance
<1>6. ASSUME NEW n \in Numbers, Advance(n, 1) = F
      PROVE  Advance(F, Modulus - 1) = n
  <2>1. Advance(Advance(n, 1), Modulus - 1) = Advance(n, 1 + (Modulus - 1))
    BY <1>1, AdvanceTwice
  <2>2. 1 + (Modulus - 1) = Modulus
    BY <1>1
  <2> QED
    BY <1>2, <1>6, <2>1, <2>2
<1> QED
  BY <1>3, <1>4, <1>5, <1>6 DEF Base, F

LEMMA TrafficSends ==
  ASSUME NEW g \in Generations
  PROVE  Sends(PacketsOf(g), Base(g), First(g))
<1>1. /\ \A p \in PacketsOf(g) :
            /\ IsPacket(p)
            /\ IsReliable(p) => MessagePlace(g, p) < Half - 1
            /\ p.kind = "ordered" => Forward(FirstOrder(g, p.channel), p.order) < Half
      /\ \A p, q \in PacketsOf(g) : AreOfOneClient(p, q)
      /\ FirstMessage[g] \in Numbers
  BY TrafficFits
<1>2. Base(g) \in Numbers /\ Forward(Base(g), FirstMessage[g]) = 1
  BY BaseIs
<1>3. First(g) \in [{0, 1} -> Numbers]
  BY StartFits, NumbersAre DEF First, FirstOrder
<1>4. ASSUME NEW p \in PacketsOf(g), IsReliable(p)
      PROVE  Forward(Base(g), p.message) \in 1 .. Half - 1
  <2>1. p.message \in Numbers
    BY <1>1, PacketIs
  <2>2. Forward(FirstMessage[g], p.message) < Half - 1
    BY <1>1, <1>4 DEF MessagePlace
  <2>3. Forward(Base(g), p.message) \in Numbers
    BY <1>2, <2>1, ForwardIs
  <2> QED
    BY <1>1, <1>2, <2>1, <2>2, <2>3, ForwardOfPlaces, Sizes DEF Numbers
<1>5. ASSUME NEW p \in PacketsOf(g), p.kind = "ordered"
      PROVE  Forward(First(g)[p.channel], p.order) < Half
  BY <1>1, <1>5, PacketIs DEF First
<1> QED
  BY <1>1, <1>2, <1>3, <1>4, <1>5 DEF Sends, ArePackets

LEMMA AllArePackets == ArePackets(AllPackets)
BY TrafficFits DEF ArePackets, AllPackets

-----------------------------------------------------------------------------
(***************************************************************************)
(* How a connection begins.                                                *)
(***************************************************************************)
LEMMA EmptyLine ==
  ASSUME NEW S, ArePackets(S), NEW first, NEW order, NEW sequenced,
         order \in [{0, 1} -> Numbers], sequenced \in [{0, 1} -> Numbers \union {Unseen}],
         \A c \in {0, 1} : first[c] = order[c]
  PROVE  IsLine(S, first, <<>>, order, sequenced)
<1>1. DOMAIN <<>> = {} /\ <<>> \in Seq(S)
  OBVIOUS
<1>2. \A kinds, c : PlacesOf(<<>>, kinds, c) = {}
  BY <1>1 DEF PlacesOf
<1>3. \A n \in Numbers : Forward(n, n) = 0 /\ 0 <= Half
  BY ForwardIs, Sizes DEF Numbers
<1>4. ASSUME NEW c \in {0, 1}
      PROVE  OrderedSoFar(S, first[c], <<>>, c, order[c])
  <2>1. first[c] = order[c] /\ order[c] \in Numbers /\ Forward(first[c], order[c]) = 0
    BY <1>3
  <2>2. \A q \in S : ~ (Forward(first[c], q.order) < 0)
    <3>1. ASSUME NEW q \in S
          PROVE  Forward(first[c], q.order) \in Numbers
      BY <2>1, ForwardIs, PacketIs DEF ArePackets
    <3> QED
      BY <3>1, NumbersAre
  <2> QED
    BY <1>2, <1>3, <2>1, <2>2 DEF OrderedSoFar
<1>5. \A c \in {0, 1} : SequencedSoFar(<<>>, c, sequenced[c])
  BY <1>2 DEF SequencedSoFar
<1>6. ReliableOnce(<<>>)
  BY <1>1 DEF ReliableOnce
<1> QED
  BY <1>1, <1>4, <1>5, <1>6 DEF IsLine

LEMMA NothingKept ==
  ASSUME NEW S, NEW r, IsWindow(r), NumbersFit(r), r.waiting = {}, r.splits = {}
  PROVE  WindowFits(r, S) /\ PartsOf(r.splits) = {} /\ WaitingNames(r) = {}
<1>1. PartsOf(r.splits) = {} /\ WaitingNames(r) = {}
  BY DEF PartsOf, WaitingNames
<1>2. IsFiniteSet({}) /\ Cardinality({}) = 0
  BY FS_EmptySet
<1>3. 0 <= MaxWaiting /\ 0 <= MaxParts
  BY Sizes
<1>4. WaitingFits(r, S) /\ PartsFit(r)
  BY <1>1, <1>2, <1>3 DEF WaitingFits, PartsFit
<1> QED
  BY <1>1, <1>4 DEF WindowFits

LEMMA EmptyStream ==
  ASSUME NEW S, NEW base, NEW first, Sends(S, base, first),
         NEW r, IsWindow(r), NumbersFit(r), r.waiting = {}, r.splits = {},
         \A c \in {0, 1} : first[c] = r.order[c], SeenSoFar(base, r)
  PROVE  IsStream(S, base, first, <<>>, r)
<1>1. NamesIn(<<>>) = {}
  BY DEF NamesIn
<1>2. WindowFits(r, S) /\ PartsOf(r.splits) = {} /\ WaitingNames(r) = {}
  BY NothingKept
<1>3. IsLine(S, first, <<>>, r.order, r.sequenced)
  BY EmptyLine DEF NumbersFit, Sends
<1>4. HeldOnce(S, <<>>, r)
  BY <1>1, <1>2 DEF HeldOnce
<1> QED
  BY <1>2, <1>3, <1>4 DEF IsStream

LEMMA FreshStream ==
  ASSUME NEW g \in Generations, g # 1
  PROVE  /\ IsStream(PacketsOf(g), Base(g), First(g), <<>>, Fresh)
         /\ WindowFits(Fresh, AllPackets) /\ FirstNumber[g] = 0
<1>1. /\ IsWindow(Fresh) /\ Fresh.next = 0 /\ Fresh.future = {} /\ Fresh.missing = {}
      /\ Fresh.seen = {} /\ Fresh.latest = 0 /\ Fresh.waiting = {} /\ Fresh.splits = {}
      /\ Fresh.order = [c \in {0, 1} |-> 0] /\ Fresh.sequenced = [c \in {0, 1} |-> Unseen]
  BY DEF Fresh, IsWindow
<1>2. NumbersFit(Fresh)
  BY <1>1, NumbersAre DEF NumbersFit
<1>3. \A c \in {0, 1} : First(g)[c] = Fresh.order[c]
  BY <1>1 DEF First, FirstOrder
<1>4. WindowFits(Fresh, AllPackets)
  BY <1>1, <1>2, NothingKept
<1> QED
  BY <1>1, <1>2, <1>3, <1>4, EmptyStream, TrafficSends, StartFits DEF SeenSoFar

LEMMA StartIs ==
  /\ IsWindow(Start) /\ NumbersFit(Start) /\ Start.next = FirstNumber[1]
  /\ Start.future = {} /\ Start.waiting = {} /\ Start.splits = {}
  /\ Start.seen # {} => /\ Advance(Start.latest, 1) = FirstMessage[1]
                        /\ \A i \in Start.seen :
                             i \in Numbers /\ Forward(i, Start.latest) < ReliableWindow
<1>1. Start = [Fresh EXCEPT !.next = FirstNumber[1], !.seen = Start.seen, !.latest = Start.latest,
                            !.order = Start.order, !.sequenced = Start.sequenced]
  BY StartFits
<1>2. /\ IsWindow(Start) /\ Start.next = FirstNumber[1] /\ Start.future = {}
      /\ Start.missing = {} /\ Start.waiting = {} /\ Start.splits = {}
  BY <1>1 DEF Fresh, IsWindow
<1>3. FirstNumber[1] \in Numbers
  BY GenerationsAre, TrafficIs
<1>4. NumbersFit(Start)
  BY <1>2, <1>3, StartFits DEF NumbersFit
<1> QED
  BY <1>2, <1>4, StartFits

LEMMA StartStream ==
  /\ IsStream(PacketsOf(1), Base(1), First(1), <<>>, Start)
  /\ WindowFits(Start, AllPackets)
  /\ Start.seen # {} => Forward(Base(1), Start.latest) = 0
  /\ \A i \in Start.seen : ~ (Forward(Base(1), i) \in 1 .. Half - 1)
<1>1. Sends(PacketsOf(1), Base(1), First(1)) /\ Base(1) \in Numbers
  BY GenerationsAre, TrafficSends, BaseIs
<1>2. Start.seen # {} => Base(1) = Start.latest
  BY GenerationsAre, BaseIs, StartIs DEF NumbersFit
<1>3. ASSUME NEW i \in Start.seen
      PROVE  /\ Base(1) = Start.latest /\ i \in Numbers /\ Forward(Base(1), Base(1)) = 0
             /\ Forward(Base(1), i) = 0 \/ Forward(Base(1), i) > Half
  <2>1. Base(1) = Start.latest /\ i \in Numbers /\ Forward(i, Base(1)) < ReliableWindow
    BY <1>2, StartIs
  <2>2. \A a, b \in Numbers : Forward(a, b) = IF a <= b THEN b - a ELSE b - a + Modulus
    BY ForwardIs
  <2>3. Base(1) \in Nat /\ i \in Nat
    BY <1>1, <2>1, NumbersAre
  <2>4. Forward(Base(1), Base(1)) = 0
    BY <1>1, <2>2, <2>3
  <2> QED
    BY <1>1, <2>1, <2>2, <2>3, <2>4, Sizes
<1>4. SeenSoFar(Base(1), Start)
  <2>1. ASSUME Start.seen # {}
        PROVE  Forward(Base(1), Start.latest) = 0
    BY <1>3, <2>1
  <2>2. ASSUME NEW i \in Start.seen, Forward(Base(1), i) < Half
        PROVE  Forward(Base(1), i) <= Forward(Base(1), Start.latest)
    <3>1. Forward(Base(1), i) \in Nat
      BY <1>1, <1>3, ForwardIs, NumbersAre
    <3> QED
      BY <1>3, <2>1, <2>2, <3>1, Sizes
  <2> QED
    BY <2>1, <2>2, Sizes DEF SeenSoFar
<1>5. \A c \in {0, 1} : First(1)[c] = Start.order[c]
  BY DEF First, FirstOrder
<1>6. IsStream(PacketsOf(1), Base(1), First(1), <<>>, Start)
  BY <1>1, <1>4, <1>5, StartIs, EmptyStream
<1>7. WindowFits(Start, AllPackets)
  BY StartIs, NothingKept
<1>8. Start.seen # {} => Forward(Base(1), Start.latest) = 0
  BY <1>3
<1>9. \A i \in Start.seen : ~ (Forward(Base(1), i) \in 1 .. Half - 1)
  BY <1>3, Sizes
<1> QED
  BY <1>6, <1>7, <1>8, <1>9

-----------------------------------------------------------------------------
(***************************************************************************)
(* What a dispatch is at, of the generations up to n: only data is         *)
(* accepted and prepared, for the peer it was begun for, and what is ready *)
(* is with the dispatch only while it is handled.                          *)
(***************************************************************************)
DataSteps == {"lock", "accept", "prepare", "handle", "respond", "encode", "check", "write", "finish"}
OtherSteps == {"idle", "lock", "fail", "settle", "replace", "create", "adopt", "respond", "encode",
               "check", "write"}

DispatchFits(d, n) ==
  /\ IsDispatch(d)
  /\ d.kind = "data" => /\ d.own = d.captured /\ d.own \in 1 .. n /\ d.item \in Datagrams(d.own)
                        /\ d.pc \in DataSteps
  /\ d.kind # "data" => ~d.isFailed /\ d.answers = <<>> /\ d.ready = <<>> /\ d.pc \in OtherSteps
  /\ d.pc # "handle" => d.ready = <<>>
  /\ d.pc = "idle" => d = Idle
  /\ d.ready \in Seq(AllPackets) /\ d.answers \in Seq(Names)

\* An open request that is going to make a peer.
Opening(d) == IF d.pc \in {"replace", "create"} THEN 1 ELSE 0

DispatchInv ==
  /\ \A s \in Slots : DispatchFits(dispatch[s], opened)
  /\ opened + Opening(dispatch["active"]) + Opening(dispatch["abandoned"]) <= Connections

LEMMA OpeningsAre ==
  /\ \A d : Opening(d) \in {0, 1}
  /\ Cardinality({s \in Slots : dispatch[s].pc \in {"replace", "create"}})
       = Opening(dispatch["active"]) + Opening(dispatch["abandoned"])
<1> DEFINE P(s) == dispatch[s].pc \in {"replace", "create"}
           T == {s \in Slots : P(s)}
<1>1. \A x, y : Cardinality({}) = 0 /\ Cardinality({x}) = 1 /\ (x # y => Cardinality({x, y}) = 2)
  <2>1. ASSUME NEW x, NEW y, x # y
        PROVE  Cardinality({x, y}) = 2
    <3>1. IsFiniteSet({x}) /\ Cardinality({x}) = 1 /\ y \notin {x}
      BY <2>1, FS_Singleton
    <3>2. Cardinality({x} \union {y}) = Cardinality({x}) + 1
      BY <3>1, FS_AddElement
    <3>3. {x} \union {y} = {x, y}
      OBVIOUS
    <3> QED
      BY <3>1, <3>2, <3>3
  <2> QED
    BY <2>1, FS_EmptySet, FS_Singleton
<1>2. Cardinality(T) = Opening(dispatch["active"]) + Opening(dispatch["abandoned"])
  <2>1. CASE P("active") /\ P("abandoned")
    <3>1. T = {"active", "abandoned"}
      BY <2>1 DEF Slots
    <3>2. Cardinality({"active", "abandoned"}) = 2
      BY <1>1
    <3>3. Cardinality(T) = 2
      BY <3>1, <3>2
    <3> QED
      BY <2>1, <3>3 DEF Opening
  <2>2. CASE P("active") /\ ~P("abandoned")
    <3>1. T = {"active"}
      BY <2>2 DEF Slots
    <3>2. Cardinality({"active"}) = 1
      BY <1>1
    <3>3. Cardinality(T) = 1
      BY <3>1, <3>2
    <3> QED
      BY <2>2, <3>3 DEF Opening
  <2>3. CASE ~P("active") /\ P("abandoned")
    <3>1. T = {"abandoned"}
      BY <2>3 DEF Slots
    <3>2. Cardinality({"abandoned"}) = 1
      BY <1>1
    <3>3. Cardinality(T) = 1
      BY <3>1, <3>2
    <3> QED
      BY <2>3, <3>3 DEF Opening
  <2>4. CASE ~P("active") /\ ~P("abandoned")
    <3>1. T = {}
      BY <2>4 DEF Slots
    <3> QED
      BY <1>1, <2>4, <3>1 DEF Opening
  <2> QED
    BY <2>1, <2>2, <2>3, <2>4
<1> QED
  BY <1>2 DEF Opening

LEMMA IdleFits ==
  ASSUME NEW n
  PROVE  DispatchFits(Idle, n) /\ Opening(Idle) = 0
<1>1. /\ Idle.pc = "idle" /\ Idle.kind = "none" /\ Idle.ready = <<>> /\ Idle.answers = <<>>
      /\ ~Idle.isFailed /\ IsDispatch(Idle)
  BY DEF Idle, IsDispatch
<1> QED
  BY <1>1 DEF DispatchFits, Opening, OtherSteps

LEMMA PassFits ==
  ASSUME NEW n, NEW c, DispatchFits(c, n), c.pc # "idle", NEW step, step # "idle",
         c.kind = "data" => step \in DataSteps, c.kind # "data" => step \in OtherSteps,
         step = "handle" \/ c.ready = <<>>
  PROVE  LET d == [c EXCEPT !.pc = step]
         IN  DispatchFits(d, n) /\ d.pc = step
<1> DEFINE d == [c EXCEPT !.pc = step]
<1>1. /\ IsDispatch(d) /\ d.pc = step /\ d.kind = c.kind /\ d.captured = c.captured /\ d.own = c.own
      /\ d.item = c.item /\ d.ready = c.ready /\ d.answers = c.answers /\ d.isFailed = c.isFailed
  BY DEF DispatchFits, IsDispatch
<1> HIDE DEF d
<1> QED
  BY <1>1 DEF DispatchFits, d

\* A step of one dispatch.
LEMMA OneFits ==
  ASSUME TypeInv, DispatchInv, NEW s \in Slots, NEW d, Go(s, d), DispatchFits(d, opened),
         opened' = opened, Opening(d) <= Opening(dispatch[s])
  PROVE  DispatchInv'
<1>1. dispatch' = [t \in Slots |-> IF t = s THEN d ELSE dispatch[t]]
  BY DEF Go, TypeInv
<1>2. \A t \in Slots : DispatchFits(dispatch'[t], opened')
  BY <1>1 DEF DispatchInv
<1>3. opened' + Opening(dispatch'["active"]) + Opening(dispatch'["abandoned"]) <= Connections
  <2>1. /\ opened \in Nat /\ Connections \in Nat /\ Opening(d) \in {0, 1}
        /\ Opening(dispatch["active"]) \in {0, 1} /\ Opening(dispatch["abandoned"]) \in {0, 1}
    BY OpeningsAre, GenerationsAre DEF TypeInv
  <2>2. opened + Opening(dispatch["active"]) + Opening(dispatch["abandoned"]) <= Connections
    BY DEF DispatchInv
  <2>3. s = "active" \/ s = "abandoned"
    BY DEF Slots
  <2> HIDE DEF Opening
  <2> QED
    BY <1>1, <2>1, <2>2, <2>3 DEF Slots
<1> QED
  BY <1>2, <1>3 DEF DispatchInv, DispatchFits, IsDispatch, Opening, Idle, AllPackets, Names,
                    DataSteps, OtherSteps, Datagrams

-----------------------------------------------------------------------------
(***************************************************************************)
(* The dispatches keep what they are at.                                   *)
(***************************************************************************)
ReceiveFits == WindowFits(receive, AllPackets)

\* What becomes of a dispatch.
Becomes(s, d) == Go(s, d) /\ DispatchFits(d, opened) /\ Opening(d) <= Opening(dispatch[s])

LEMMA ExitBecomes ==
  ASSUME NEW s \in Slots, Exit(s)
  PROVE  \E d : Becomes(s, d)
<1>1. Opening(Idle) <= Opening(dispatch[s])
  BY IdleFits, OpeningsAre
<1> QED
  BY <1>1, IdleFits DEF Exit, Becomes

LEMMA PassBecomes ==
  ASSUME NEW s \in Slots, DispatchFits(dispatch[s], opened), dispatch[s].pc # "idle",
         NEW step, To(s, step), step \notin {"idle", "replace", "create"},
         dispatch[s].kind = "data" => step \in DataSteps,
         dispatch[s].kind # "data" => step \in OtherSteps,
         step = "handle" \/ dispatch[s].ready = <<>>
  PROVE  \E d : Becomes(s, d)
<1> DEFINE d == [dispatch[s] EXCEPT !.pc = step]
<1>1. DispatchFits(d, opened) /\ d.pc = step
  BY PassFits
<1>2. Opening(d) <= Opening(dispatch[s])
  BY <1>1, OpeningsAre DEF Opening
<1> QED
  BY <1>1, <1>2 DEF To, Becomes

\* The dispatch of a datagram.
LEMMA DataKinds ==
  ASSUME NEW n, NEW d, DispatchFits(d, n), d.pc \in {"accept", "prepare", "handle", "finish"}
  PROVE  /\ d.kind = "data" /\ d.own = d.captured /\ d.own \in 1 .. n /\ d.item \in Datagrams(d.own)
         /\ Opening(d) = 0
         /\ d.pc # "handle" => d.ready = <<>>
BY DEF DispatchFits, OtherSteps, Opening

LEMMA DataFits ==
  ASSUME NEW n, NEW c, DispatchFits(c, n), c.kind = "data", NEW d, IsDispatch(d),
         d.kind = c.kind, d.own = c.own, d.captured = c.captured, d.item = c.item,
         d.pc \in DataSteps, d.pc # "handle" => d.ready = <<>>,
         d.ready \in Seq(AllPackets), d.answers \in Seq(Names)
  PROVE  DispatchFits(d, n) /\ Opening(d) = 0
BY DEF DispatchFits, DataSteps, Opening

\* The generation of a dispatch of data, and its datagram.
LEMMA DataIs ==
  ASSUME TypeInv, DispatchInv, NEW s \in Slots, dispatch[s].kind = "data"
  PROVE  /\ dispatch[s].own \in Generations /\ dispatch[s].own # None
         /\ dispatch[s].item \in Datagrams(dispatch[s].own)
         /\ Traffic[dispatch[s].own][dispatch[s].item] \in Seq(AllPackets)
<1>1. /\ opened \in Nat /\ Connections \in Nat /\ Opening(dispatch["active"]) \in {0, 1}
      /\ Opening(dispatch["abandoned"]) \in {0, 1}
  BY OpeningsAre, GenerationsAre DEF TypeInv
<1>2. opened + Opening(dispatch["active"]) + Opening(dispatch["abandoned"]) <= Connections
  BY DEF DispatchInv
<1>3. opened <= Connections
  <2> HIDE DEF Opening
  <2> QED
    BY <1>1, <1>2
<1>4. dispatch[s].own \in 1 .. opened /\ dispatch[s].item \in Datagrams(dispatch[s].own)
  BY DEF DispatchInv, DispatchFits
<1>5. dispatch[s].own \in Generations
  BY <1>1, <1>3, <1>4 DEF Generations
<1> QED
  BY <1>4, <1>5, DatagramIs DEF None, Generations

LEMMA PreparedFits ==
  ASSUME TypeInv, DispatchInv, ReceiveFits, NEW s \in Slots, dispatch[s].kind = "data",
         NEW kept \in {receive, ExpireSplits(receive)}
  PROVE  OutcomeFits(Prepare(kept, Traffic[dispatch[s].own][dispatch[s].item]), AllPackets)
<1>1. WindowFits(kept, AllPackets)
  BY ExpireSplitsFits DEF ReceiveFits
<1> QED
  BY <1>1, DataIs, AllArePackets, PrepareFits

LEMMA LockBecomes ==
  ASSUME DispatchInv, NEW s \in Slots, LockApplication(s)
  PROVE  \E d : Becomes(s, d)
<1> DEFINE c == dispatch[s]
<1>1. DispatchFits(c, opened) /\ c.pc = "lock" /\ c.ready = <<>>
  BY DEF DispatchInv, DispatchFits, LockApplication
<1>2. \/ Exit(s)
      \/ c.kind = "data" /\ To(s, "accept")
      \/ c.kind # "data" /\ To(s, "fail")
  BY DEF LockApplication
<1> QED
  BY <1>1, <1>2, ExitBecomes, PassBecomes DEF DataSteps, OtherSteps

LEMMA DataBecomes ==
  ASSUME TypeInv, DispatchInv, ReceiveFits, NEW s \in Slots,
         \/ Accept(s) \/ PreparePackets(s) \/ Handle(s) \/ Handled(s)
  PROVE  \E d : Becomes(s, d)
<1> DEFINE c == dispatch[s]
<1>1. DispatchFits(c, opened) /\ IsDispatch(c)
  BY DEF DispatchInv, DispatchFits
<1>2. c.pc \in {"accept", "prepare", "handle"}
  BY DEF Accept, PreparePackets, Handle, Handled
<1>3. c.kind = "data" /\ (c.pc # "handle" => c.ready = <<>>)
  BY <1>1, <1>2, DataKinds
<1>4. c.ready \in Seq(AllPackets) /\ c.answers \in Seq(Names) /\ Opening(c) = 0
  BY <1>1, <1>2, DataKinds DEF DispatchFits
<1>5. CASE Accept(s)
  <2>1. c.ready = <<>> /\ (Exit(s) \/ \E step \in {"prepare", "respond"} : To(s, step))
    BY <1>1, <1>5, DataKinds DEF Accept
  <2> QED
    BY <1>1, <1>2, <1>3, <2>1, ExitBecomes, PassBecomes DEF DataSteps
<1>6. CASE PreparePackets(s)
  <2>1. c.ready = <<>>
    BY <1>1, <1>6, DataKinds DEF PreparePackets
  <2>2. CASE Go(s, [c EXCEPT !.pc = "respond", !.isFailed = TRUE])
    <3> DEFINE d == [c EXCEPT !.pc = "respond", !.isFailed = TRUE]
    <3>1. /\ IsDispatch(d) /\ d.kind = c.kind /\ d.own = c.own /\ d.captured = c.captured
          /\ d.item = c.item /\ d.pc = "respond" /\ d.ready = c.ready /\ d.answers = c.answers
      BY <1>1 DEF IsDispatch
    <3> HIDE DEF d
    <3>2. d.ready = <<>> /\ d.ready \in Seq(AllPackets) /\ d.answers \in Seq(Names) /\ d.pc \in DataSteps
      BY <1>4, <2>1, <3>1 DEF DataSteps
    <3>3. DispatchFits(d, opened) /\ Opening(d) = 0
      BY <1>1, <1>3, <3>1, <3>2, DataFits
    <3> QED
      BY <1>4, <2>2, <3>3 DEF Becomes, d
  <2>3. CASE \E kept \in {receive, ExpireSplits(receive)} :
                LET result == Prepare(kept, Traffic[c.own][c.item])
                IN  Go(s, [c EXCEPT !.pc = "handle", !.ready = result.ready, !.isFailed = result.isRefused])
    <3>1. PICK kept \in {receive, ExpireSplits(receive)} :
                LET result == Prepare(kept, Traffic[c.own][c.item])
                IN  Go(s, [c EXCEPT !.pc = "handle", !.ready = result.ready, !.isFailed = result.isRefused])
      BY <2>3
    <3> DEFINE result == Prepare(kept, Traffic[c.own][c.item])
    <3>2. result.ready \in Seq(AllPackets)
      BY <1>3, PreparedFits DEF OutcomeFits
    <3>3. Go(s, [c EXCEPT !.pc = "handle", !.ready = result.ready, !.isFailed = result.isRefused])
      BY <3>1
    <3> HIDE DEF result
    <3> DEFINE d == [c EXCEPT !.pc = "handle", !.ready = result.ready, !.isFailed = result.isRefused]
    <3>4. /\ IsDispatch(d) /\ d.kind = c.kind /\ d.own = c.own /\ d.captured = c.captured
          /\ d.item = c.item /\ d.pc = "handle" /\ d.ready = result.ready /\ d.answers = c.answers
      BY <1>1 DEF IsDispatch
    <3> HIDE DEF d
    <3>5. DispatchFits(d, opened) /\ Opening(d) = 0
      BY <1>1, <1>3, <1>4, <3>2, <3>4, DataFits DEF DataSteps
    <3> QED
      BY <1>4, <3>3, <3>5 DEF Becomes, d
  <2> QED
    BY <1>6, <2>2, <2>3 DEF PreparePackets
<1>7. CASE Handle(s)
  <2>1. c.pc = "handle" /\ c.ready # <<>>
    BY <1>7 DEF Handle
  <2>2. Head(c.ready) \in AllPackets /\ Tail(c.ready) \in Seq(AllPackets)
    BY <1>4, <2>1, HeadTailProperties
  <2>3. PICK answers, isFailed :
          /\ answers \in Seq(Names)
          /\ Go(s, [c EXCEPT !.ready = Tail(@), !.answers = answers, !.isFailed = isFailed])
    <3>1. CASE Go(s, [c EXCEPT !.ready = Tail(@), !.isFailed = TRUE])
      <4>1. [c EXCEPT !.ready = Tail(@), !.isFailed = TRUE]
              = [c EXCEPT !.ready = Tail(@), !.answers = c.answers, !.isFailed = TRUE]
        BY <1>1 DEF IsDispatch
      <4> QED
        BY <1>4, <3>1, <4>1
    <3>2. CASE Go(s, [c EXCEPT !.ready = Tail(@),
                               !.answers = @ \o (IF Head(c.ready).isAsking THEN <<Head(c.ready).name>> ELSE <<>>)])
      <4> DEFINE more == c.answers \o (IF Head(c.ready).isAsking THEN <<Head(c.ready).name>> ELSE <<>>)
      <4>1. Head(c.ready).name \in Names
        BY <2>2 DEF Names
      <4>2. more \in Seq(Names)
        <5>1. <<Head(c.ready).name>> \in Seq(Names) /\ <<>> \in Seq(Names)
          BY <4>1
        <5> QED
          BY <1>4, <5>1, ConcatProperties
      <4>3. [c EXCEPT !.ready = Tail(@), !.answers = more]
              = [c EXCEPT !.ready = Tail(@), !.answers = more, !.isFailed = c.isFailed]
        BY <1>1 DEF IsDispatch
      <4> QED
        BY <3>2, <4>2, <4>3
    <3> QED
      BY <1>7, <3>1, <3>2 DEF Handle
  <2> DEFINE d == [c EXCEPT !.ready = Tail(@), !.answers = answers, !.isFailed = isFailed]
  <2>4. /\ IsDispatch(d) /\ d.kind = c.kind /\ d.own = c.own /\ d.captured = c.captured
        /\ d.item = c.item /\ d.pc = "handle" /\ d.ready = Tail(c.ready) /\ d.answers = answers
    BY <1>1, <2>1 DEF IsDispatch
  <2> HIDE DEF d
  <2>5. DispatchFits(d, opened) /\ Opening(d) = 0
    BY <1>1, <1>3, <2>2, <2>3, <2>4, DataFits DEF DataSteps
  <2> QED
    BY <1>4, <2>3, <2>5 DEF Becomes, d
<1>8. CASE Handled(s)
  <2>1. c.pc = "handle" /\ c.ready = <<>> /\ To(s, "respond")
    BY <1>8 DEF Handled
  <2> QED
    BY <1>1, <1>3, <2>1, PassBecomes DEF DataSteps
<1> QED
  BY <1>5, <1>6, <1>7, <1>8

LEMMA PublishingBecomes ==
  ASSUME DispatchInv, NEW s \in Slots,
         \/ LockOutbound(s) \/ Encode(s) \/ CheckPeer(s) \/ Write(s) \/ Finish(s)
  PROVE  \E d : Becomes(s, d)
<1> DEFINE c == dispatch[s]
<1>1. DispatchFits(c, opened) /\ IsDispatch(c) /\ c.pc \notin {"idle", "handle"} /\ c.ready = <<>>
  BY DEF DispatchInv, DispatchFits, LockOutbound, Encode, CheckPeer, Write, Finish
<1>2. CASE LockOutbound(s) \/ CheckPeer(s) \/ Write(s) \/ Finish(s)
  <2>1. \/ Exit(s)
        \/ \E step \in {"check", "encode", "write"} : To(s, step)
        \/ c.kind = "data" /\ To(s, "finish")
    BY <1>1, <1>2 DEF DispatchFits, LockOutbound, CheckPeer, Write, Finish
  <2> QED
    BY <1>1, <2>1, ExitBecomes, PassBecomes DEF DataSteps, OtherSteps
<1>3. CASE Encode(s)
  <2>1. CASE Exit(s)
    BY <2>1, ExitBecomes
  <2>2. CASE \E x : Go(s, [c EXCEPT !.pc = "check", !.answers = <<>>, !.out = x])
    <3>1. PICK x : Go(s, [c EXCEPT !.pc = "check", !.answers = <<>>, !.out = x])
      BY <2>2
    <3> DEFINE d == [c EXCEPT !.pc = "check", !.answers = <<>>, !.out = x]
    <3>2. /\ IsDispatch(d) /\ d.kind = c.kind /\ d.own = c.own /\ d.captured = c.captured
          /\ d.item = c.item /\ d.pc = "check" /\ d.ready = c.ready /\ d.answers = <<>>
          /\ d.isFailed = c.isFailed
      BY <1>1 DEF IsDispatch
    <3> HIDE DEF d
    <3>3. DispatchFits(d, opened)
      BY <1>1, <3>2 DEF DispatchFits, DataSteps, OtherSteps
    <3>4. Opening(d) <= Opening(c)
      BY <3>2, OpeningsAre DEF Opening
    <3> QED
      BY <3>1, <3>3, <3>4 DEF Becomes, d
  <2> QED
    BY <1>3, <2>1, <2>2 DEF Encode
<1> QED
  BY <1>2, <1>3

LEMMA OtherBecomes ==
  ASSUME DispatchInv, NEW s \in Slots, Settle(s) \/ Replace(s) \/ Adopt(s)
  PROVE  \E d : Becomes(s, d)
<1> DEFINE c == dispatch[s]
<1>1. /\ DispatchFits(c, opened) /\ IsDispatch(c) /\ c.kind # "data"
      /\ c.pc \in {"settle", "replace", "adopt"}
  BY DEF DispatchInv, DispatchFits, Settle, Replace, Adopt, DataSteps
<1>2. \/ Exit(s)
      \/ \E x, step, out :
           /\ Go(s, [c EXCEPT !.pc = step, !.own = x, !.out = out])
           /\ step \in {"check", "respond"} \/ (c.pc = "replace" /\ step = "create")
  <2>1. CASE Settle(s)
    <3>1. Exit(s) \/ \E out : Go(s, [c EXCEPT !.pc = "check", !.out = out])
      BY <2>1 DEF Settle
    <3>2. \A out : [c EXCEPT !.pc = "check", !.out = out] = [c EXCEPT !.pc = "check", !.own = c.own, !.out = out]
      BY <1>1 DEF IsDispatch
    <3> QED
      BY <3>1, <3>2
  <2>2. CASE Replace(s) \/ Adopt(s)
    <3>1. \E x, step : /\ Go(s, [c EXCEPT !.pc = step, !.own = x])
                       /\ step \in {"check", "respond"} \/ (c.pc = "replace" /\ step = "create")
      <4>1. CASE Replace(s)
        <5>1. Go(s, [c EXCEPT !.pc = "create", !.own = peer]) /\ c.pc = "replace"
          BY <4>1 DEF Replace
        <5> QED
          BY <5>1
      <4>2. CASE Adopt(s)
        <5>1. PICK step \in {"check", "respond"} : Go(s, [c EXCEPT !.own = peer, !.pc = step])
          BY <4>2 DEF Adopt
        <5>2. [c EXCEPT !.own = peer, !.pc = step] = [c EXCEPT !.pc = step, !.own = peer]
          BY <1>1 DEF IsDispatch
        <5> QED
          BY <5>1, <5>2
      <4> QED
        BY <2>2, <4>1, <4>2
    <3>2. PICK x, step : /\ Go(s, [c EXCEPT !.pc = step, !.own = x])
                         /\ step \in {"check", "respond"} \/ (c.pc = "replace" /\ step = "create")
      BY <3>1
    <3>3. [c EXCEPT !.pc = step, !.own = x] = [c EXCEPT !.pc = step, !.own = x, !.out = c.out]
      BY <1>1 DEF IsDispatch
    <3> QED
      BY <3>2, <3>3
  <2> QED
    BY <2>1, <2>2
<1>3. ASSUME NEW x, NEW step, NEW out,
             step \in {"check", "respond"} \/ (c.pc = "replace" /\ step = "create"),
             Go(s, [c EXCEPT !.pc = step, !.own = x, !.out = out])
      PROVE  \E d : Becomes(s, d)
  <2> DEFINE d == [c EXCEPT !.pc = step, !.own = x, !.out = out]
  <2>1. /\ IsDispatch(d) /\ d.kind = c.kind /\ d.pc = step /\ d.ready = c.ready
        /\ d.answers = c.answers /\ d.isFailed = c.isFailed
    BY <1>1 DEF IsDispatch
  <2> HIDE DEF d
  <2>2. DispatchFits(d, opened)
    BY <1>1, <1>3, <2>1 DEF DispatchFits, OtherSteps
  <2>3. Opening(d) <= Opening(c)
    BY <1>1, <1>3, <2>1, OpeningsAre DEF Opening
  <2> QED
    BY <1>3, <2>2, <2>3 DEF Becomes, d
<1> QED
  BY <1>2, <1>3, ExitBecomes

LEMMA CreateFits ==
  ASSUME TypeInv, DispatchInv, NEW s \in Slots, Create(s)
  PROVE  DispatchInv' /\ opened' \in Generations /\ opened' # 1
<1> DEFINE c == dispatch[s]
           d == [c EXCEPT !.pc = "adopt"]
<1>1. /\ dispatch' = [t \in Slots |-> IF t = s THEN d ELSE dispatch[t]]
      /\ opened' = opened + 1 /\ c.pc = "create"
  BY DEF Create, To, Go, TypeInv
<1>2. DispatchFits(d, opened) /\ d.pc = "adopt"
  <2>1. DispatchFits(c, opened) /\ c.kind # "data" /\ c.ready = <<>>
    BY <1>1 DEF DispatchInv, DispatchFits, DataSteps
  <2> QED
    BY <1>1, <2>1, PassFits DEF OtherSteps
<1>3. Opening(d) = 0 /\ Opening(c) = 1
  BY <1>1, <1>2 DEF Opening
<1>4. /\ opened \in Nat /\ opened # 0 /\ Connections \in Nat
      /\ Opening(dispatch["active"]) \in {0, 1} /\ Opening(dispatch["abandoned"]) \in {0, 1}
  BY OpeningsAre, GenerationsAre DEF TypeInv
<1>5. opened + Opening(dispatch["active"]) + Opening(dispatch["abandoned"]) <= Connections
  BY DEF DispatchInv
<1>6. s = "active" \/ s = "abandoned"
  BY DEF Slots
<1> HIDE DEF d
<1>7. opened' + Opening(dispatch'["active"]) + Opening(dispatch'["abandoned"]) <= Connections
      /\ opened + 1 <= Connections
  <2> HIDE DEF Opening
  <2> QED
    BY <1>1, <1>3, <1>4, <1>5, <1>6 DEF Slots
<1>8. \A t \in Slots : DispatchFits(dispatch'[t], opened')
  <2>1. \A t \in Slots : DispatchFits(dispatch'[t], opened)
    BY <1>1, <1>2 DEF DispatchInv
  <2>2. \A x : x \in 1 .. opened => x \in 1 .. opened'
    BY <1>1, <1>4
  <2> QED
    BY <2>1, <2>2 DEF DispatchFits
<1>9. opened' \in Generations /\ opened' # 1
  BY <1>1, <1>4, <1>7 DEF Generations
<1>10. DispatchInv'
  BY <1>7, <1>8 DEF DispatchInv, DispatchFits, IsDispatch, Opening, Idle, AllPackets, Names,
                    DataSteps, OtherSteps, Datagrams
<1> QED
  BY <1>9, <1>10

LEMMA BeginFits ==
  ASSUME TypeInv, DispatchInv, NEW kind, NEW item, NEW step, Begin(kind, item, step),
         opened' = opened,
         \/ kind = "data" /\ step = "lock" /\ peer # None /\ item \in Datagrams(peer)
         \/ kind # "data" /\ step \in {"lock", "settle", "fail"}
         \/ /\ kind # "data" /\ step = "replace"
            /\ opened + Cardinality({s \in Slots : dispatch[s].pc \in {"replace", "create"}})
                 < Connections
  PROVE  DispatchInv'
<1> DEFINE d == [Idle EXCEPT !.pc = step, !.kind = kind, !.item = item,
                             !.own = peer, !.captured = peer]
<1>1. /\ IsDispatch(d) /\ d.pc = step /\ d.kind = kind /\ d.own = peer /\ d.captured = peer
      /\ d.item = item /\ d.ready = <<>> /\ d.answers = <<>> /\ ~d.isFailed
  BY DEF Idle, IsDispatch
<1>2. dispatch' = [t \in Slots |-> IF t = "active" THEN d ELSE dispatch[t]] /\ dispatch["active"] = Idle
  BY DEF Begin, Go, TypeInv
<1> HIDE DEF d
<1>3. peer # None => peer \in 1 .. opened
  BY DEF TypeInv, None
<1>4. DispatchFits(d, opened)
  BY <1>1, <1>3 DEF DispatchFits, DataSteps, OtherSteps
<1>5. \A t \in Slots : DispatchFits(dispatch'[t], opened')
  BY <1>2, <1>4 DEF DispatchInv
<1>6. opened' + Opening(dispatch'["active"]) + Opening(dispatch'["abandoned"]) <= Connections
  <2>1. /\ opened \in Nat /\ Connections \in Nat /\ Opening(d) \in {0, 1}
        /\ Opening(dispatch["active"]) = 0 /\ Opening(dispatch["abandoned"]) \in {0, 1}
    BY <1>2, IdleFits, OpeningsAre, GenerationsAre DEF TypeInv
  <2>2. opened + Opening(dispatch["active"]) + Opening(dispatch["abandoned"]) <= Connections
    BY DEF DispatchInv
  <2>3. \/ Opening(d) = 0
        \/ opened + Opening(dispatch["active"]) + Opening(dispatch["abandoned"]) < Connections
    <3>1. step # "replace" => Opening(d) = 0
      BY <1>1 DEF Opening
    <3>2. Cardinality({s \in Slots : dispatch[s].pc \in {"replace", "create"}})
            = Opening(dispatch["active"]) + Opening(dispatch["abandoned"])
      BY OpeningsAre
    <3> HIDE DEF Opening
    <3> QED
      BY <2>1, <3>1, <3>2
  <2>4. dispatch'["active"] = d /\ dispatch'["abandoned"] = dispatch["abandoned"]
    BY <1>2 DEF Slots
  <2> HIDE DEF Opening
  <2> QED
    BY <2>1, <2>2, <2>3, <2>4
<1> QED
  BY <1>5, <1>6 DEF DispatchInv, DispatchFits, IsDispatch, Opening, Idle, AllPackets, Names,
                    DataSteps, OtherSteps, Datagrams

LEMMA AbandonFits ==
  ASSUME TypeInv, DispatchInv, NEW g, Abandon(g)
  PROVE  DispatchInv'
<1> DEFINE d == dispatch["active"]
<1>1. /\ dispatch["abandoned"].pc \in {"idle", "handle"} /\ opened' = opened
      /\ dispatch'["active"] = Idle /\ dispatch'["abandoned"] = d
  BY DEF Abandon, RemovePeer, Unregister
<1>2. \A t \in Slots : DispatchFits(dispatch'[t], opened')
  BY <1>1, IdleFits DEF DispatchInv, Slots
<1>3. opened' + Opening(dispatch'["active"]) + Opening(dispatch'["abandoned"]) <= Connections
  <2>1. /\ opened \in Nat /\ Connections \in Nat /\ Opening(Idle) = 0
        /\ Opening(d) \in {0, 1} /\ Opening(dispatch["abandoned"]) = 0
    BY <1>1, IdleFits, OpeningsAre, GenerationsAre DEF TypeInv, Opening
  <2>2. opened + Opening(d) + Opening(dispatch["abandoned"]) <= Connections
    BY DEF DispatchInv
  <2> HIDE DEF Opening
  <2> QED
    BY <1>1, <2>1, <2>2
<1> QED
  BY <1>2, <1>3 DEF DispatchInv, DispatchFits, IsDispatch, Opening, Idle, AllPackets, Names,
                    DataSteps, OtherSteps, Datagrams

LEMMA SameFits ==
  ASSUME DispatchInv, dispatch' = dispatch, opened' = opened
  PROVE  DispatchInv'
BY DEF DispatchInv, DispatchFits, IsDispatch, Opening, Idle, AllPackets, Names,
       DataSteps, OtherSteps, Datagrams

LEMMA NextDispatches ==
  ASSUME TypeInv, DispatchInv, ReceiveFits, [Next]_vars
  PROVE  DispatchInv'
<1>1. ASSUME NEW s \in Slots, opened' = opened, \E d : Becomes(s, d)
      PROVE  DispatchInv'
  BY <1>1, OneFits DEF Becomes
<1>2. ASSUME Environment
      PROVE  DispatchInv'
  <2>1. ASSUME peer # None, NEW k \in Datagrams(peer), ReceiveData(k)
        PROVE  DispatchInv'
    BY <2>1, BeginFits DEF ReceiveData
  <2>2. ASSUME NEW p \in outbound.pending, ReceiveAcknowledgement(p)
        PROVE  DispatchInv'
    BY <2>2, BeginFits DEF ReceiveAcknowledgement, KeepWorld
  <2>3. CASE ReceiveOpen
    BY <2>3, BeginFits DEF ReceiveOpen, KeepWorld
  <2>6. CASE ReceiveUnreadable
    BY <2>6, BeginFits DEF ReceiveUnreadable, KeepWorld
  <2>4. CASE QueueFull
    BY <2>4, AbandonFits DEF QueueFull
  <2>5. CASE FallSilent
    BY <2>5, SameFits DEF FallSilent, KeepDispatch
  <2> QED
    BY <1>2, <2>1, <2>2, <2>3, <2>4, <2>5, <2>6 DEF Environment
<1>3. CASE DispatchTimeout
  BY <1>3, AbandonFits DEF DispatchTimeout
<1>4. CASE GiveUp
  <2>1. Exit("abandoned") /\ opened' = opened
    BY <1>4 DEF GiveUp
  <2> QED
    BY <1>1, <2>1, ExitBecomes DEF Slots
<1>5. CASE Sweep
  BY <1>5, SameFits DEF Sweep, Collect, Retransmit, Send, RemoveUnsent, Expire, KeepDispatch
<1>6. ASSUME NEW s \in Slots, Step(s) \/ Handle(s)
      PROVE  DispatchInv'
  <2>1. CASE Create(s)
    BY <2>1, CreateFits
  <2>2. CASE \/ LockApplication(s) \/ Accept(s) \/ PreparePackets(s) \/ Handle(s) \/ Handled(s)
    <3>1. opened' = opened
      BY <2>2 DEF LockApplication, Accept, PreparePackets, Handle, Handled, KeepWorld
    <3> QED
      BY <1>1, <2>2, <3>1, LockBecomes, DataBecomes
  <2>3. CASE \/ LockOutbound(s) \/ Encode(s) \/ CheckPeer(s) \/ Write(s) \/ Finish(s)
    <3>1. opened' = opened
      BY <2>3 DEF LockOutbound, Encode, CheckPeer, Write, Finish, KeepWorld
    <3> QED
      BY <1>1, <2>3, <3>1, PublishingBecomes
  <2>4. CASE Settle(s) \/ Replace(s) \/ Adopt(s)
    <3>1. opened' = opened
      BY <2>4 DEF Settle, Replace, Adopt, KeepWorld
    <3> QED
      BY <1>1, <2>4, <3>1, OtherBecomes
  <2>5. CASE Fail(s)
    BY <1>1, <2>5, ExitBecomes DEF Fail
  <2> QED
    BY <1>6, <2>1, <2>2, <2>3, <2>4, <2>5 DEF Step
<1>7. CASE (\E p \in outbound.pending : Elapse(p)) \/ UNCHANGED vars
  BY <1>7, SameFits DEF Elapse, KeepDispatch, vars
<1> QED
  BY <1>2, <1>3, <1>4, <1>5, <1>6, <1>7 DEF Next

-----------------------------------------------------------------------------
(***************************************************************************)
(* What is kept of the peer: the window that datagrams come in, what       *)
(* awaits its acknowledgement, and the history.                            *)
(***************************************************************************)
LEMMA GenerationOf ==
  ASSUME TypeInv, DispatchInv
  PROVE  /\ opened \in Generations /\ \A g : g \in 1 .. opened => g \in Generations
         /\ peer # None => peer \in Generations
<1>1. /\ opened \in Nat \ {0} /\ Connections \in Nat /\ Opening(dispatch["active"]) \in {0, 1}
      /\ Opening(dispatch["abandoned"]) \in {0, 1}
  BY OpeningsAre, GenerationsAre DEF TypeInv
<1>2. opened + Opening(dispatch["active"]) + Opening(dispatch["abandoned"]) <= Connections
  BY DEF DispatchInv
<1>3. opened <= Connections
  <2> HIDE DEF Opening
  <2> QED
    BY <1>1, <1>2
<1> QED
  BY <1>1, <1>3 DEF Generations, TypeInv

LEMMA NextReceives ==
  ASSUME TypeInv, DispatchInv, ReceiveFits, [Next]_vars
  PROVE  ReceiveFits'
<1>1. \/ receive' = receive \/ receive' = Fresh
      \/ \E s \in Slots : Accept(s) \/ PreparePackets(s)
  <2>1. CASE Environment \/ DispatchTimeout \/ GiveUp
    BY <2>1 DEF Environment, ReceiveData, ReceiveAcknowledgement, ReceiveOpen, ReceiveUnreadable,
                QueueFull, FallSilent, DispatchTimeout, Abandon, GiveUp, RemoveUnguarded, RemovePeer,
                Unregister, KeepPeer
  <2>2. CASE Sweep \/ (\E p \in outbound.pending : Elapse(p)) \/ UNCHANGED vars
    BY <2>2 DEF Sweep, Collect, Retransmit, Send, RemoveUnsent, Expire, Elapse, RemoveUnguarded,
                RemovePeer, Unregister, KeepPeer, vars
  <2>3. ASSUME NEW s \in Slots, Step(s) \/ Handle(s), ~Accept(s), ~PreparePackets(s)
        PROVE  receive' = receive \/ receive' = Fresh
    <3>1. CASE LockApplication(s) \/ Handle(s) \/ Handled(s) \/ LockOutbound(s) \/ Encode(s) \/ CheckPeer(s)
      BY <3>1 DEF LockApplication, Handle, Handled, LockOutbound, Encode, CheckPeer,
                  RemovePeer, Unregister, KeepPeer
    <3>2. CASE Write(s) \/ Finish(s) \/ Fail(s) \/ Settle(s) \/ Replace(s) \/ Create(s) \/ Adopt(s)
      BY <3>2 DEF Write, Finish, Fail, Settle, Replace, Create, Adopt, RemoveUnguarded, RemovePeer,
                  Unregister, KeepPeer
    <3> QED
      BY <2>3, <3>1, <3>2 DEF Step
  <2> QED
    BY <2>1, <2>2, <2>3 DEF Next
<1>2. AllPackets' = AllPackets
  BY DEF AllPackets
<1>3. ASSUME NEW r, receive' = r, WindowFits(r, AllPackets)
      PROVE  ReceiveFits'
  BY <1>2, <1>3 DEF ReceiveFits, WindowFits, IsWindow, NumbersFit, WaitingFits, PartsFit, PartsOf
<1>4. CASE receive' = receive
  BY <1>3, <1>4 DEF ReceiveFits
<1>5. WindowFits(Fresh, AllPackets)
  <2>1. IsWindow(Fresh) /\ NumbersFit(Fresh) /\ Fresh.waiting = {} /\ Fresh.splits = {}
    <3>1. /\ IsWindow(Fresh) /\ Fresh.next = 0 /\ Fresh.future = {} /\ Fresh.missing = {}
          /\ Fresh.seen = {} /\ Fresh.latest = 0 /\ Fresh.waiting = {} /\ Fresh.splits = {}
          /\ Fresh.order = [c \in {0, 1} |-> 0] /\ Fresh.sequenced = [c \in {0, 1} |-> Unseen]
      BY DEF Fresh, IsWindow
    <3> QED
      BY <3>1, NumbersAre DEF NumbersFit
  <2> QED
    BY <2>1, NothingKept
<1>6. CASE receive' = Fresh
  BY <1>3, <1>5, <1>6
<1>7. ASSUME NEW s \in Slots, Accept(s)
      PROVE  ReceiveFits'
  <2> DEFINE number == NumberOf(dispatch[s].own, dispatch[s].item)
             result == AcceptDatagram(receive, number)
  <2>1. receive' = receive \/ receive' = result.receive
    BY <1>7 DEF Accept, KeepPeer
  <2>2. dispatch[s].kind = "data"
    BY <1>7, DataKinds DEF Accept, DispatchInv
  <2>3. number \in Numbers
    BY <2>2, DataIs, DatagramIs
  <2>4. OnlyNumbers(receive, result.receive) /\ NumbersFit(result.receive)
    <3> HIDE DEF number
    <3> QED
      BY <2>3, AcceptDatagramFits DEF ReceiveFits, WindowFits
  <2> HIDE DEF result
  <2>5. WindowFits(result.receive, AllPackets)
    BY <2>4 DEF ReceiveFits, WindowFits, OnlyNumbers, WaitingFits, PartsFit
  <2> QED
    BY <1>3, <1>4, <2>1, <2>5
<1>8. ASSUME NEW s \in Slots, PreparePackets(s)
      PROVE  ReceiveFits'
  <2> DEFINE c == dispatch[s]
  <2>1. c.kind = "data"
    BY <1>8, DataKinds DEF PreparePackets, DispatchInv
  <2>2. \/ receive' = receive
        \/ \E kept \in {receive, ExpireSplits(receive)} : receive' = Prepare(kept, Traffic[c.own][c.item]).receive
    BY <1>8 DEF PreparePackets, KeepPeer
  <2> QED
    BY <1>3, <1>4, <2>1, <2>2, PreparedFits DEF OutcomeFits
<1> QED
  BY <1>1, <1>4, <1>6, <1>7, <1>8

\* The dispatch that writes is one of data only if it is for a datagram of its peer.
IsLife(l) == l = [f \in {"delivered", "acked", "isLapsed", "isTainted"} |-> l[f]]
LifeFits ==
  /\ IsLife(life) /\ isJoined \in BOOLEAN /\ unguarded \subseteq Generations
  /\ peer # None => life.acked \subseteq Datagrams(peer)

LEMMA TouchedIs ==
  ASSUME NEW l, IsLife(l), NEW d
  PROVE  LET t == Touched(l, d)
         IN  /\ IsLife(t) /\ t.delivered = l.delivered /\ t.acked = l.acked /\ t.isLapsed = l.isLapsed
             /\ d.own = peer => (t.isTainted <=> l.isTainted)
             /\ d.own # peer => t.isTainted
BY DEF Touched, IsLife

LEMMA NextLives ==
  ASSUME TypeInv, DispatchInv, LifeFits, [Next]_vars
  PROVE  LifeFits'
<1>1. ASSUME UNCHANGED <<peer, life, isJoined, unguarded>>
      PROVE  LifeFits'
  BY <1>1 DEF LifeFits, IsLife, Datagrams
<1>2. ASSUME NEW g, RemovePeer(g), \/ unguarded' = unguarded
                                    \/ unguarded' = IF peer = g /\ g # None THEN unguarded \union {g} ELSE unguarded
      PROVE  LifeFits'
  <2>1. unguarded' \subseteq Generations
    BY <1>2, GenerationOf DEF LifeFits
  <2>2. CASE peer = g /\ g # None
    <3>1. peer' = None /\ life' = Unborn /\ isJoined' = FALSE
      BY <1>2, <2>2 DEF RemovePeer, Unregister
    <3>2. IsLife(Unborn)
      BY DEF IsLife, Unborn
    <3> QED
      BY <2>1, <3>1, <3>2 DEF LifeFits, IsLife, Generations
  <2>3. CASE ~ (peer = g /\ g # None)
    BY <1>2, <2>1, <2>3 DEF RemovePeer, LifeFits, IsLife, Datagrams, Generations
  <2> QED
    BY <2>2, <2>3
<1>3. ASSUME peer' = peer, unguarded' = unguarded, isJoined' \in BOOLEAN, IsLife(life'),
             life'.acked = life.acked
      PROVE  LifeFits'
  BY <1>3 DEF LifeFits, IsLife, Datagrams, Generations
<1>4. ASSUME KeepPeer \/ UNCHANGED <<peer, isJoined, life>>, unguarded' = unguarded
      PROVE  LifeFits'
  BY <1>1, <1>4 DEF KeepPeer
<1>5. CASE Environment \/ DispatchTimeout \/ GiveUp
  <2>1. \/ UNCHANGED <<peer, life, isJoined, unguarded>>
        \/ \E g : RemovePeer(g) /\ \/ unguarded' = unguarded
                                   \/ unguarded' = IF peer = g /\ g # None THEN unguarded \union {g} ELSE unguarded
    BY <1>5 DEF Environment, ReceiveData, ReceiveAcknowledgement, ReceiveOpen, ReceiveUnreadable,
                QueueFull, FallSilent, DispatchTimeout, Abandon, GiveUp, RemoveUnguarded, KeepPeer,
                KeepWorld, KeepDispatch
  <2> QED
    BY <1>1, <1>2, <2>1
<1>6. CASE Sweep \/ (\E p \in outbound.pending : Elapse(p)) \/ UNCHANGED vars
  <2>1. \/ UNCHANGED <<peer, life, isJoined, unguarded>>
        \/ \E g : RemovePeer(g) /\ unguarded' = unguarded
        \/ \E g : RemoveUnguarded(g)
    BY <1>6 DEF Sweep, Collect, Retransmit, Send, RemoveUnsent, Expire, Elapse, KeepPeer, KeepDispatch, vars
  <2> QED
    BY <1>1, <1>2, <2>1 DEF RemoveUnguarded
<1>7. ASSUME NEW s \in Slots, Step(s) \/ Handle(s)
      PROVE  LifeFits'
  <2> DEFINE c == dispatch[s]
  <2>1. CASE LockApplication(s) \/ Handled(s) \/ LockOutbound(s) \/ CheckPeer(s) \/ Settle(s)
               \/ Replace(s) \/ Adopt(s)
    BY <1>2, <1>4, <2>1 DEF LockApplication, Handled, LockOutbound, CheckPeer, Settle, Replace, Adopt,
                      KeepPeer, KeepWorld
  <2>2. CASE Finish(s) \/ Fail(s)
    BY <1>1, <1>2, <2>2 DEF Finish, Fail, RemoveUnguarded, KeepWorld
  <2>3. CASE Accept(s)
    <3>1. unguarded' = unguarded
      BY <2>3 DEF Accept, KeepWorld
    <3>2. CASE KeepPeer
      BY <1>4, <3>1, <3>2
    <3>3. CASE ~KeepPeer
      <4>1. PICK x : /\ life' = [Touched(life, c) EXCEPT !.isLapsed = x]
                     /\ peer' = peer /\ isJoined' = isJoined
        BY <2>3, <3>3 DEF Accept
      <4>2. IsLife(Touched(life, c)) /\ Touched(life, c).acked = life.acked
        BY TouchedIs DEF LifeFits
      <4>3. IsLife(life') /\ life'.acked = life.acked
        BY <4>1, <4>2 DEF IsLife
      <4> QED
        BY <1>3, <3>1, <4>1, <4>3 DEF LifeFits
    <3> QED
      BY <3>2, <3>3
  <2>4. CASE PreparePackets(s)
    <3>1. unguarded' = unguarded
      BY <2>4 DEF PreparePackets, KeepWorld
    <3>2. CASE KeepPeer
      BY <1>4, <3>1, <3>2
    <3>3. CASE ~KeepPeer
      <4>1. PICK x : /\ life' = [Touched(life, c) EXCEPT !.isLapsed = x]
                     /\ peer' = peer /\ isJoined' = isJoined
        BY <2>4, <3>3 DEF PreparePackets
      <4>2. IsLife(Touched(life, c)) /\ Touched(life, c).acked = life.acked
        BY TouchedIs DEF LifeFits
      <4>3. IsLife(life') /\ life'.acked = life.acked
        BY <4>1, <4>2 DEF IsLife
      <4> QED
        BY <1>3, <3>1, <4>1, <4>3 DEF LifeFits
    <3> QED
      BY <3>2, <3>3
  <2>5. CASE Handle(s)
    <3>1. unguarded' = unguarded
      BY <2>5 DEF Handle, KeepWorld
    <3>2. CASE KeepPeer
      BY <1>4, <3>1, <3>2
    <3>3. CASE ~KeepPeer
      <4>1. PICK x : /\ life' = [Touched(life, c) EXCEPT !.delivered = x]
                     /\ peer' = peer /\ isJoined' = isJoined
        BY <2>5, <3>3 DEF Handle
      <4>2. IsLife(Touched(life, c)) /\ Touched(life, c).acked = life.acked
        BY TouchedIs DEF LifeFits
      <4>3. IsLife(life') /\ life'.acked = life.acked
        BY <4>1, <4>2 DEF IsLife
      <4> QED
        BY <1>3, <3>1, <4>1, <4>3 DEF LifeFits
    <3> QED
      BY <3>2, <3>3
  <2>6. CASE Encode(s)
    <3>1. unguarded' = unguarded
      BY <2>6 DEF Encode, KeepWorld
    <3>2. CASE RemovePeer(c.own)
      BY <1>2, <3>1, <3>2
    <3>3. CASE ~RemovePeer(c.own)
      <4>1. life' = Touched(life, c) /\ peer' = peer /\ isJoined' = isJoined
        BY <2>6, <3>3 DEF Encode
      <4>2. IsLife(life') /\ life'.acked = life.acked
        BY <4>1, TouchedIs DEF LifeFits
      <4> QED
        BY <1>3, <3>1, <4>1, <4>2 DEF LifeFits
    <3> QED
      BY <3>2, <3>3
  <2>7. CASE Write(s)
    <3>1. unguarded' = unguarded
      BY <2>7 DEF Write, KeepWorld
    <3>2. CASE RemovePeer(c.own)
      BY <1>2, <3>1, <3>2
    <3>3. CASE KeepPeer
      BY <1>4, <3>1, <3>3
    <3>4. CASE ~RemovePeer(c.own) /\ ~KeepPeer
      <4>1. /\ peer \in {c.own} \ {None} /\ peer' = peer
            /\ life' = [life EXCEPT !.acked = IF c.kind = "data" THEN @ \union {c.item} ELSE @]
            /\ isJoined' = (isJoined \/ (c.kind = "open" /\ s = "active"))
        BY <2>7, <3>4 DEF Write
      <4>2. /\ IsLife(life') /\ isJoined' \in BOOLEAN
            /\ life'.acked = IF c.kind = "data" THEN life.acked \union {c.item} ELSE life.acked
        BY <4>1 DEF LifeFits, IsLife
      <4>3. life'.acked \subseteq Datagrams(peer)
        BY <4>1, <4>2, DataIs DEF LifeFits
      <4> QED
        BY <3>1, <4>1, <4>2, <4>3 DEF LifeFits, IsLife, Datagrams, Generations
    <3> QED
      BY <3>2, <3>3, <3>4
  <2>8. CASE Create(s)
    <3>1. /\ isJoined' = FALSE /\ unguarded' = unguarded
          /\ life' = [Unborn EXCEPT !.isTainted = s = "abandoned"]
      BY <2>8 DEF Create
    <3>2. IsLife(life') /\ life'.acked = {}
      BY <3>1 DEF Unborn, IsLife
    <3> QED
      BY <3>1, <3>2 DEF LifeFits, IsLife, Datagrams, Generations
  <2> QED
    BY <1>7, <2>1, <2>2, <2>3, <2>4, <2>5, <2>6, <2>7, <2>8 DEF Step
<1> QED
  BY <1>5, <1>6, <1>7 DEF Next

-----------------------------------------------------------------------------
(***************************************************************************)
(* What awaits its acknowledgement.                                        *)
(***************************************************************************)
IsRetained(p) ==
  /\ p = [f \in {"number", "to", "attempts", "isDue", "isSent"} |-> p[f]]
  /\ p.number \in Numbers /\ p.to \in Names /\ p.attempts \in 1 .. MaxAttempts

PendingFits(P) ==
  IsFiniteSet(P) /\ Cardinality(P) <= MaxPending /\ \A p \in P : IsRetained(p)

OutboundFits ==
  /\ outbound = [f \in {"next", "pending"} |-> outbound[f]]
  /\ outbound.next \in Numbers /\ PendingFits(outbound.pending)

\* What is pending is replaced one by one.
LEMMA ReplacedFit ==
  ASSUME NEW P, PendingFits(P), NEW f, NEW Q, Q = {f[p] : p \in P},
         \A p \in P : IsRetained(f[p])
  PROVE  PendingFits(Q)
<1> DEFINE h == [p \in P |-> f[p]]
<1>1. IsFiniteSet(P) /\ Cardinality(P) \in Nat /\ MaxPending \in Nat
  BY FS_CardinalityType, GenerationsAre DEF PendingFits
<1>2. h \in Surjection(P, Q)
  BY DEF Surjection
<1>3. IsFiniteSet(Q) /\ Cardinality(Q) <= Cardinality(P)
  BY <1>1, <1>2, FS_Surjection
<1>4. Cardinality(Q) \in Nat
  BY <1>3, FS_CardinalityType
<1> QED
  BY <1>1, <1>3, <1>4 DEF PendingFits

LEMMA FewerPending ==
  ASSUME NEW P, PendingFits(P), NEW Q, Q \subseteq P
  PROVE  PendingFits(Q)
<1>1. IsFiniteSet(Q) /\ Cardinality(Q) <= Cardinality(P)
  BY FS_Subset DEF PendingFits
<1>2. Cardinality(Q) \in Nat /\ Cardinality(P) \in Nat /\ MaxPending \in Nat
  BY <1>1, FS_CardinalityType, GenerationsAre DEF PendingFits
<1> QED
  BY <1>1, <1>2 DEF PendingFits

\* A datagram is sent, becomes due, or is sent again.
LEMMA RetainedIs ==
  ASSUME NEW p, IsRetained(p), NEW b
  PROVE  /\ IsRetained([p EXCEPT !.isSent = b]) /\ IsRetained([p EXCEPT !.isDue = b])
         /\ p.attempts < MaxAttempts =>
              /\ IsRetained([p EXCEPT !.isDue = FALSE, !.attempts = @ + 1])
              /\ IsRetained([p EXCEPT !.attempts = @ + 1, !.isDue = FALSE])
<1>1. p.attempts \in Nat /\ MaxAttempts \in Nat
  BY GenerationsAre DEF IsRetained
<1>2. IsRetained([p EXCEPT !.isSent = b]) /\ IsRetained([p EXCEPT !.isDue = b])
  BY DEF IsRetained
<1>3. ASSUME p.attempts < MaxAttempts
      PROVE  /\ IsRetained([p EXCEPT !.isDue = FALSE, !.attempts = @ + 1])
             /\ IsRetained([p EXCEPT !.attempts = @ + 1, !.isDue = FALSE])
  <2> DEFINE d == [p EXCEPT !.isDue = FALSE, !.attempts = @ + 1]
  <2>1. /\ d = [f \in {"number", "to", "attempts", "isDue", "isSent"} |-> d[f]]
        /\ d.number = p.number /\ d.to = p.to /\ d.attempts = p.attempts + 1
        /\ [p EXCEPT !.attempts = @ + 1, !.isDue = FALSE] = d
    BY DEF IsRetained
  <2> HIDE DEF d
  <2>2. d.attempts \in 1 .. MaxAttempts
    BY <1>1, <1>3, <2>1
  <2>3. IsRetained(d)
    BY <2>1, <2>2 DEF IsRetained
  <2> QED
    BY <2>1, <2>3 DEF d
<1> QED
  BY <1>2, <1>3

LEMMA SentFits ==
  ASSUME OutboundFits, NEW numbers
  PROVE  LET o == Sent(numbers)
         IN  /\ o = [f \in {"next", "pending"} |-> o[f]] /\ o.next \in Numbers /\ PendingFits(o.pending)
<1> DEFINE P == outbound.pending
           Q == {[p EXCEPT !.isSent = @ \/ p.number \in numbers] : p \in P}
           h == [p \in P |-> [p EXCEPT !.isSent = @ \/ p.number \in numbers]]
<1>1. /\ Sent(numbers) = [f \in {"next", "pending"} |-> Sent(numbers)[f]]
      /\ Sent(numbers).next = outbound.next /\ Sent(numbers).pending = Q
  BY DEF OutboundFits, Sent
<1>2. Q = {h[p] : p \in P}
  OBVIOUS
<1>3. \A p \in P : IsRetained(h[p])
  BY RetainedIs DEF OutboundFits, PendingFits
<1> HIDE DEF h, Q
<1>4. PendingFits(Q)
  BY <1>2, <1>3, ReplacedFit DEF OutboundFits
<1> QED
  BY <1>1, <1>4 DEF OutboundFits

LEMMA SettledFits ==
  ASSUME OutboundFits, NEW kind, NEW number
  PROVE  PendingFits(Settled(kind, number))
<1> DEFINE P == {q \in outbound.pending : kind = "nack" \/ q.number # number}
           isRepeated(p) == p.number = number /\ p.attempts < MaxAttempts
           h == [p \in P |-> IF isRepeated(p) THEN [p EXCEPT !.isDue = FALSE, !.attempts = @ + 1] ELSE p]
<1>1. PendingFits(P)
  BY FewerPending DEF OutboundFits
<1>2. Settled(kind, number) = {h[p] : p \in P}
  BY DEF Settled
<1>3. \A p \in P : IsRetained(h[p])
  BY <1>1, RetainedIs DEF PendingFits
<1> HIDE DEF h, P
<1> QED
  BY <1>1, <1>2, <1>3, ReplacedFit

\* The answers of a dispatch that are new.
LEMMA FreshFits ==
  ASSUME OutboundFits, NEW answers \in Seq(Names),
         NEW fresh, fresh = {Retained(Advance(outbound.next, i - 1), answers[i]) : i \in 1 .. Len(answers)},
         Cardinality(outbound.pending) + Len(answers) <= MaxPending
  PROVE  PendingFits(outbound.pending \union fresh) /\ Advance(outbound.next, Len(answers)) \in Numbers
<1> DEFINE count == Len(answers)
           h == [i \in 1 .. count |-> Retained(Advance(outbound.next, i - 1), answers[i])]
           P == outbound.pending
<1>1. count \in Nat /\ DOMAIN answers = 1 .. count /\ outbound.next \in Numbers /\ PendingFits(P)
  BY LenProperties DEF OutboundFits
<1>2. IsFiniteSet(1 .. count) /\ Cardinality(1 .. count) = count
  <2>1. ASSUME NEW n \in Nat
        PROVE  IsFiniteSet(1 .. n) /\ Cardinality(1 .. n) = IF 1 > n THEN 0 ELSE n - 1 + 1
    BY FS_Interval
  <2>2. (IF 1 > count THEN 0 ELSE count - 1 + 1) = count
    BY <1>1
  <2> HIDE DEF count
  <2> QED
    BY <1>1, <2>1, <2>2
<1>3. h \in Surjection(1 .. count, fresh)
  BY DEF Surjection
<1>4. IsFiniteSet(fresh) /\ Cardinality(fresh) <= count
  BY <1>2, <1>3, FS_Surjection
<1>5. ASSUME NEW p \in fresh
      PROVE  IsRetained(p)
  <2>1. PICK i \in 1 .. count : p = Retained(Advance(outbound.next, i - 1), answers[i])
    OBVIOUS
  <2>2. Advance(outbound.next, i - 1) \in Numbers /\ answers[i] \in Names
    BY <1>1, AdvanceIs, ElementOfSeq
  <2>3. 1 \in 1 .. MaxAttempts
    BY GenerationsAre
  <2> QED
    BY <2>1, <2>2, <2>3 DEF Retained, IsRetained
<1>6. IsFiniteSet(P \union fresh) /\ Cardinality(P \union fresh) <= Cardinality(P) + Cardinality(fresh)
  <2>1. IsFiniteSet(P)
    BY <1>1 DEF PendingFits
  <2>2. /\ IsFiniteSet(P \union fresh) /\ IsFiniteSet(P \cap fresh)
        /\ Cardinality(P \union fresh) = Cardinality(P) + Cardinality(fresh) - Cardinality(P \cap fresh)
    BY <1>4, <2>1, FS_Union, FS_Intersection
  <2>3. Cardinality(P) \in Nat /\ Cardinality(fresh) \in Nat /\ Cardinality(P \cap fresh) \in Nat
    BY <1>4, <2>1, <2>2, FS_CardinalityType
  <2> QED
    BY <2>2, <2>3
<1>7. /\ Cardinality(P) \in Nat /\ Cardinality(fresh) \in Nat /\ Cardinality(P \union fresh) \in Nat
      /\ MaxPending \in Nat
  BY <1>1, <1>4, <1>6, FS_CardinalityType, GenerationsAre DEF PendingFits
<1>8. Cardinality(P \union fresh) <= MaxPending
  BY <1>1, <1>4, <1>6, <1>7
<1>9. \A p \in P \union fresh : IsRetained(p)
  BY <1>1, <1>5 DEF PendingFits
<1> QED
  BY <1>1, <1>6, <1>8, <1>9, AdvanceIs DEF PendingFits

LEMMA NextPending ==
  ASSUME TypeInv, DispatchInv, OutboundFits, [Next]_vars
  PROVE  OutboundFits'
<1>1. ASSUME NEW o, outbound' = o, o = [f \in {"next", "pending"} |-> o[f]],
             o.next \in Numbers, PendingFits(o.pending)
      PROVE  OutboundFits'
  BY <1>1 DEF OutboundFits, PendingFits, IsRetained, Names, AllPackets, PacketsOf, Datagrams, Generations,
              Numbers
<1>2. CASE outbound' = outbound
  BY <1>1, <1>2 DEF OutboundFits
<1>3. CASE outbound' = Empty
  <2>1. /\ Empty = [f \in {"next", "pending"} |-> Empty[f]] /\ Empty.next = 0 /\ Empty.pending = {}
    BY DEF Empty
  <2>2. PendingFits({})
    BY FS_EmptySet, GenerationsAre DEF PendingFits
  <2> QED
    BY <1>1, <1>3, <2>1, <2>2, NumbersAre
<1>4. ASSUME NEW g, RemovePeer(g)
      PROVE  OutboundFits'
  BY <1>2, <1>3, <1>4 DEF RemovePeer, Unregister
<1>5. ASSUME KeepPeer
      PROVE  OutboundFits'
  BY <1>2, <1>5 DEF KeepPeer
<1>6. ASSUME NEW numbers, outbound' = Sent(numbers)
      PROVE  OutboundFits'
  BY <1>1, <1>6, SentFits
<1>7. ASSUME NEW P, outbound' = [outbound EXCEPT !.pending = P], PendingFits(P)
      PROVE  OutboundFits'
  <2> DEFINE o == [outbound EXCEPT !.pending = P]
  <2>1. o = [f \in {"next", "pending"} |-> o[f]] /\ o.next = outbound.next /\ o.pending = P
    BY DEF OutboundFits
  <2> HIDE DEF o
  <2>2. outbound' = o /\ o.next \in Numbers
    BY <1>7, <2>1 DEF o, OutboundFits
  <2> QED
    BY <1>1, <1>7, <2>1, <2>2
<1>8. CASE Environment \/ DispatchTimeout \/ GiveUp
  <2>1. outbound' = outbound \/ \E g : RemovePeer(g)
    BY <1>8 DEF Environment, ReceiveData, ReceiveAcknowledgement, ReceiveOpen, ReceiveUnreadable,
                QueueFull, FallSilent, DispatchTimeout, Abandon, GiveUp, RemoveUnguarded, KeepPeer
  <2> QED
    BY <1>2, <1>4, <2>1
<1>9. CASE Sweep \/ (\E p \in outbound.pending : Elapse(p)) \/ UNCHANGED vars
  <2>1. CASE Collect \/ Expire \/ UNCHANGED vars
    BY <1>2, <1>4, <1>5, <2>1 DEF Collect, Expire, vars
  <2>2. CASE Send \/ RemoveUnsent
    BY <1>2, <1>4, <1>6, <2>2 DEF Send, RemoveUnsent, RemoveUnguarded
  <2>3. ASSUME NEW number \in loop.due, Retransmit(number)
        PROVE  OutboundFits'
    <3> DEFINE still == {p \in Overdue : p.number = number /\ ~IsExhausted(p)}
               again(p) == [p EXCEPT !.attempts = @ + 1, !.isDue = FALSE]
               P == (outbound.pending \ still) \union {again(p) : p \in still}
               h == [p \in outbound.pending |-> IF p \in still THEN again(p) ELSE p]
    <3>1. still \subseteq outbound.pending
      BY DEF Overdue
    <3>2. ASSUME NEW p \in outbound.pending
          PROVE  IsRetained(h[p])
      <4>1. IsRetained(p) /\ MaxAttempts \in Nat
        BY GenerationsAre DEF OutboundFits, PendingFits
      <4>2. p \in still => p.attempts < MaxAttempts
        BY <4>1 DEF IsRetained, IsExhausted
      <4> QED
        BY <4>1, <4>2, RetainedIs
    <3>3. P = {h[p] : p \in outbound.pending}
      BY <3>1
    <3>4. CASE KeepPeer
      BY <1>5, <3>4
    <3>5. CASE ~KeepPeer
      <4>1. outbound' = [outbound EXCEPT !.pending = P]
        BY <2>3, <3>5 DEF Retransmit
      <4> HIDE DEF h, P
      <4>2. PendingFits(P)
        BY <3>2, <3>3, ReplacedFit DEF OutboundFits
      <4> QED
        BY <1>7, <4>1, <4>2
    <3> QED
      BY <3>4, <3>5
  <2>4. ASSUME NEW p \in outbound.pending, Elapse(p)
        PROVE  OutboundFits'
    <3> DEFINE P == (outbound.pending \ {p}) \union {[p EXCEPT !.isDue = TRUE]}
               h == [q \in outbound.pending |-> IF q = p THEN [q EXCEPT !.isDue = TRUE] ELSE q]
    <3>1. outbound' = [outbound EXCEPT !.pending = P]
      BY <2>4 DEF Elapse
    <3>2. P = {h[q] : q \in outbound.pending}
      OBVIOUS
    <3>3. \A q \in outbound.pending : IsRetained(h[q])
      BY RetainedIs DEF OutboundFits, PendingFits
    <3> HIDE DEF h, P
    <3>4. PendingFits(P)
      BY <3>2, <3>3, ReplacedFit DEF OutboundFits
    <3> QED
      BY <1>7, <3>1, <3>4
  <2> QED
    BY <1>9, <2>1, <2>2, <2>3, <2>4 DEF Sweep
<1>10. ASSUME NEW s \in Slots, Step(s) \/ Handle(s)
       PROVE  OutboundFits'
  <2> DEFINE c == dispatch[s]
  <2>1. CASE LockApplication(s) \/ Accept(s) \/ PreparePackets(s) \/ Handle(s) \/ Handled(s)
    BY <1>2, <2>1 DEF LockApplication, Accept, PreparePackets, Handle, Handled, KeepPeer
  <2>2. CASE LockOutbound(s) \/ CheckPeer(s) \/ Finish(s) \/ Fail(s) \/ Replace(s) \/ Adopt(s)
    BY <1>2, <1>4, <2>2 DEF LockOutbound, CheckPeer, Finish, Fail, RemoveUnguarded, Replace, Adopt, KeepPeer
  <2>3. CASE Encode(s)
    <3> DEFINE count == Len(c.answers)
               fresh == {Retained(Advance(outbound.next, i - 1), c.answers[i]) : i \in 1 .. count}
    <3>1. CASE RemovePeer(c.own)
      BY <1>4, <3>1
    <3>2. CASE ~RemovePeer(c.own)
      <4>1. /\ Cardinality(outbound.pending) + count <= MaxPending
            /\ outbound' = [next |-> Advance(outbound.next, count),
                            pending |-> outbound.pending \union fresh]
        BY <2>3, <3>2 DEF Encode
      <4>2. c.answers \in Seq(Names)
        BY DEF DispatchInv, DispatchFits
      <4>3. PendingFits(outbound.pending \union fresh) /\ Advance(outbound.next, count) \in Numbers
        BY <4>1, <4>2, FreshFits
      <4> DEFINE o == [next |-> Advance(outbound.next, count), pending |-> outbound.pending \union fresh]
      <4>4. /\ o = [f \in {"next", "pending"} |-> o[f]] /\ o.next = Advance(outbound.next, count)
            /\ o.pending = outbound.pending \union fresh
        OBVIOUS
      <4> HIDE DEF fresh
      <4>5. o.next \in Numbers /\ PendingFits(o.pending) /\ outbound' = o
        BY <4>1, <4>3
      <4> HIDE DEF o
      <4> QED
        BY <1>1, <4>4, <4>5
    <3> QED
      BY <3>1, <3>2
  <2>4. CASE Write(s)
    BY <1>4, <1>5, <1>6, <2>4 DEF Write
  <2>5. CASE Settle(s)
    BY <1>4, <1>5, <1>7, <2>5, SettledFits DEF Settle
  <2>6. CASE Create(s)
    BY <1>3, <2>6 DEF Create
  <2> QED
    BY <1>10, <2>1, <2>2, <2>3, <2>4, <2>5, <2>6 DEF Step
<1> QED
  BY <1>8, <1>9, <1>10 DEF Next

-----------------------------------------------------------------------------
(***************************************************************************)
(* TypeOK.                                                                 *)
(***************************************************************************)
DataInv == IInv /\ DispatchInv /\ ReceiveFits /\ LifeFits /\ OutboundFits

LEMMA InitData == Init => DataInv
<1> SUFFICES ASSUME Init PROVE DataInv
  OBVIOUS
<1>1. /\ peer = 1 /\ opened = 1 /\ isJoined = TRUE /\ receive = Start /\ outbound = Empty
      /\ dispatch = [s \in Slots |-> Idle] /\ unguarded = {} /\ life = Unborn
  BY DEF Init
<1>2. DispatchInv
  <2>1. "active" \in Slots /\ "abandoned" \in Slots
    BY DEF Slots
  <2>2. Opening(dispatch["active"]) = 0 /\ Opening(dispatch["abandoned"]) = 0
    BY <1>1, <2>1, IdleFits
  <2>3. opened <= Connections /\ opened \in Nat
    BY <1>1, GenerationsAre
  <2>4. opened + Opening(dispatch["active"]) + Opening(dispatch["abandoned"]) <= Connections
    BY <2>2, <2>3
  <2> QED
    BY <1>1, <2>4, IdleFits DEF DispatchInv
<1>3. ReceiveFits
  BY <1>1, StartStream DEF ReceiveFits
<1>4. LifeFits
  BY <1>1 DEF LifeFits, IsLife, Unborn
<1>5. OutboundFits
  <2>1. /\ Empty = [f \in {"next", "pending"} |-> Empty[f]] /\ Empty.next = 0 /\ Empty.pending = {}
    BY DEF Empty
  <2>2. PendingFits({})
    BY FS_EmptySet, GenerationsAre DEF PendingFits
  <2> QED
    BY <1>1, <2>1, <2>2, NumbersAre DEF OutboundFits
<1> QED
  BY <1>2, <1>3, <1>4, <1>5, InitHolds DEF DataInv

LEMMA NextData ==
  ASSUME DataInv, [Next]_vars
  PROVE  DataInv'
<1>1. IInv /\ TypeInv /\ DispatchInv /\ ReceiveFits /\ LifeFits /\ OutboundFits
  BY DEF DataInv, IInv
<1> QED
  BY <1>1, NextKeeps, NextDispatches, NextReceives, NextLives, NextPending DEF DataInv

LEMMA DataInvariance == Spec => []DataInv
<1>1. Init => DataInv
  BY InitData
<1>2. DataInv /\ [Next]_vars => DataInv'
  BY NextData
<1> QED
  BY <1>1, <1>2, PTL DEF Spec

(***************************************************************************)
(* TypeOK: with any number of connections and for whatever the client      *)
(* sends, the windows hold numbers and packets of the client, no more wait *)
(* or are pending than the limits allow, however dispatches of the same    *)
(* address interleave, and what was acknowledged was a datagram of the     *)
(* peer.                                                                   *)
(***************************************************************************)
THEOREM TypeCorrect == Spec => []TypeOK
<1>1. ASSUME DataInv
      PROVE  TypeOK
  <2>1. TypeInv /\ DispatchInv /\ ReceiveFits /\ LifeFits /\ OutboundFits
    BY <1>1 DEF DataInv, IInv
  <2>2. /\ opened \in Generations /\ peer \in {None, opened}
        /\ \A g : g \in 1 .. opened => g \in Generations
    BY <2>1, GenerationOf DEF TypeInv
  <2>3. departed \union unguarded \subseteq Generations
    BY <2>1, <2>2 DEF TypeInv, LifeFits
  <2>4. \A s \in Slots : dispatch[s].own \in {None} \union Generations
    <3>1. \A s \in Slots : dispatch[s].own \in 0 .. opened
      BY <2>1 DEF TypeInv
    <3>2. \A x \in 0 .. opened : x = None \/ x \in 1 .. opened
      BY <2>1 DEF TypeInv, None
    <3> QED
      BY <2>2, <3>1, <3>2
  <2>5. /\ receive.next \in Numbers /\ receive.future \union receive.missing \subseteq Numbers
        /\ receive.waiting \subseteq AllPackets /\ Cardinality(receive.waiting) <= MaxWaiting
        /\ PartCount(receive) <= MaxParts
    BY <2>1 DEF ReceiveFits, WindowFits, NumbersFit, WaitingFits, PartsFit, PartsOf, PartCount
  <2>6. /\ Cardinality(outbound.pending) <= MaxPending
        /\ \A p \in outbound.pending :
             p.number \in Numbers /\ p.to \in Names /\ p.attempts \in 1 .. MaxAttempts
    BY <2>1 DEF OutboundFits, PendingFits, IsRetained
  <2> QED
    BY <2>1, <2>2, <2>3, <2>4, <2>5, <2>6 DEF TypeOK, LifeFits
<1>2. DataInv => TypeOK
  BY <1>1
<1> QED
  BY <1>2, DataInvariance, PTL

-----------------------------------------------------------------------------
(***************************************************************************)
(* Which datagrams of a connection have come, as long as the window did    *)
(* not slide past one.                                                     *)
(***************************************************************************)
InWindow(g, r) ==
  /\ PlaceOf(g, r.next) <= Len(Traffic[g])
  /\ \A n \in r.future : PlaceOf(g, r.next) < PlaceOf(g, n) /\ PlaceOf(g, n) < Len(Traffic[g])

HasCome(g, r, k) == k - 1 < PlaceOf(g, r.next) \/ NumberOf(g, k) \in r.future

LEMMA PlacesAre ==
  ASSUME NEW g \in Generations
  PROVE  /\ Len(Traffic[g]) \in Nat /\ Len(Traffic[g]) <= Half /\ Half < Modulus /\ Half \in Nat
         /\ 2 * Half <= Modulus /\ Modulus \in Nat
         /\ \A n \in Numbers : PlaceOf(g, n) \in Nat /\ PlaceOf(g, n) < Modulus
         /\ \A m, n \in Numbers : PlaceOf(g, m) = PlaceOf(g, n) => m = n
         /\ \A m, n \in Numbers : Forward(m, n) = IF PlaceOf(g, m) <= PlaceOf(g, n)
                                                  THEN PlaceOf(g, n) - PlaceOf(g, m)
                                                  ELSE PlaceOf(g, n) - PlaceOf(g, m) + Modulus
<1>1. FirstNumber[g] \in Numbers /\ Len(Traffic[g]) \in Nat /\ Len(Traffic[g]) <= Half
  BY TrafficIs
<1>2. ASSUME NEW m \in Numbers, NEW n \in Numbers
      PROVE  /\ PlaceOf(g, m) = PlaceOf(g, n) => m = n
             /\ Forward(m, n) = IF PlaceOf(g, m) <= PlaceOf(g, n)
                                THEN PlaceOf(g, n) - PlaceOf(g, m)
                                ELSE PlaceOf(g, n) - PlaceOf(g, m) + Modulus
  BY <1>1, SamePlace, ForwardOfPlaces DEF PlaceOf
<1>3. ASSUME NEW n \in Numbers
      PROVE  PlaceOf(g, n) \in Nat /\ PlaceOf(g, n) < Modulus
  BY <1>1, ForwardIs, NumbersAre DEF PlaceOf
<1> QED
  BY <1>1, <1>2, <1>3, Sizes

LEMMA PlaceAdvance ==
  ASSUME NEW g \in Generations, NEW n \in Numbers, NEW i \in Nat,
         PlaceOf(g, n) + i <= Len(Traffic[g])
  PROVE  Advance(n, i) \in Numbers /\ PlaceOf(g, Advance(n, i)) = PlaceOf(g, n) + i
<1> DEFINE at == PlaceOf(g, n)
<1>1. FirstNumber[g] \in Numbers /\ at \in Nat /\ at + i < Modulus /\ at + i \in Nat
  BY TrafficIs, PlacesAre
<1>2. Advance(FirstNumber[g], at) = n
  BY <1>1, AdvanceForward DEF PlaceOf
<1>3. Advance(n, i) = Advance(FirstNumber[g], at + i)
  <2>1. Advance(Advance(FirstNumber[g], at), i) = Advance(FirstNumber[g], at + i)
    <3>1. at + i <= Modulus
      BY <1>1, PlacesAre
    <3> HIDE DEF at
    <3> QED
      BY <1>1, <3>1, AdvanceTwice
  <2> QED
    BY <1>2, <2>1
<1>4. Forward(FirstNumber[g], Advance(FirstNumber[g], at + i)) = at + i
  <2>1. at + i \in Numbers
    BY <1>1, NumbersAre
  <2> HIDE DEF at
  <2> QED
    BY <1>1, <2>1, ForwardAdvance
<1> QED
  BY <1>1, <1>3, <1>4, AdvanceIs DEF PlaceOf

LEMMA AdvancedComes ==
  ASSUME NEW g \in Generations, NEW r, IsWindow(r), r.next \in Numbers, r.future \subseteq Numbers,
         PlaceOf(g, r.next) <= Len(Traffic[g]),
         \A n \in r.future : PlaceOf(g, r.next) <= PlaceOf(g, n) /\ PlaceOf(g, n) < Len(Traffic[g])
  PROVE  /\ InWindow(g, Advanced(r))
         /\ \A k \in Datagrams(g) : HasCome(g, Advanced(r), k) <=> HasCome(g, r, k)
<1> DEFINE s == Advanced(r)
           at == PlaceOf(g, r.next)
           length == Len(Traffic[g])
           count == RunLength(r.next, r.future)
           passed == {Advance(r.next, i) : i \in 0 .. count - 1}
<1>1. s.next = Advance(r.next, count) /\ s.future = r.future \ passed
  BY AdvancedIs
<1>2. /\ count \in 0 .. Modulus
      /\ count = Modulus \/ Advance(r.next, count) \notin r.future
      /\ \A i \in 0 .. count - 1 : Advance(r.next, i) \in r.future
  BY RunLengthIs
<1>3. /\ at \in Nat /\ length \in Nat /\ Modulus \in Nat /\ length < Modulus /\ at <= length
      /\ \A n \in Numbers : PlaceOf(g, n) \in Nat
      /\ \A m, n \in Numbers : PlaceOf(g, m) = PlaceOf(g, n) => m = n
  BY PlacesAre
<1>4. ASSUME NEW i \in Nat, at + i <= length
      PROVE  Advance(r.next, i) \in Numbers /\ PlaceOf(g, Advance(r.next, i)) = at + i
  BY <1>4, PlaceAdvance
<1> HIDE DEF s, at, length, count
<1>5. count \in Nat /\ at + count <= length /\ count # Modulus
  <2>1. CASE at + count > length
    <3>1. length - at \in Nat /\ length - at \in 0 .. count - 1 /\ at + (length - at) = length
      BY <1>2, <1>3, <2>1
    <3>2. PlaceOf(g, Advance(r.next, length - at)) = length
      BY <1>3, <1>4, <3>1
    <3>3. Advance(r.next, length - at) \in r.future
      BY <1>2, <3>1
    <3> QED
      BY <1>3, <3>2, <3>3 DEF length
  <2> QED
    BY <1>2, <1>3, <2>1
<1>6. /\ s.next \in Numbers /\ PlaceOf(g, s.next) = at + count /\ s.next \notin r.future
  BY <1>1, <1>2, <1>4, <1>5
<1>7. ASSUME NEW n \in Numbers, NEW i \in 0 .. count - 1, PlaceOf(g, n) = at + i
      PROVE  n = Advance(r.next, i) /\ n \in passed /\ n \in r.future
  <2>1. i \in Nat /\ at + i <= length
    BY <1>3, <1>5
  <2>2. Advance(r.next, i) \in Numbers /\ PlaceOf(g, Advance(r.next, i)) = at + i
    BY <1>4, <2>1
  <2> QED
    BY <1>2, <1>3, <1>7, <2>2
<1>8. ASSUME NEW n \in s.future
      PROVE  PlaceOf(g, s.next) < PlaceOf(g, n) /\ PlaceOf(g, n) < length
  <2>1. n \in Numbers /\ n \in r.future /\ n \notin passed /\ at <= PlaceOf(g, n) /\ PlaceOf(g, n) < length
    BY <1>1 DEF at, length
  <2>2. PlaceOf(g, n) # at + count
    BY <1>3, <1>6, <2>1
  <2>3. ~ (PlaceOf(g, n) < at + count)
    <3>1. SUFFICES ASSUME PlaceOf(g, n) < at + count PROVE FALSE
      OBVIOUS
    <3>2. PlaceOf(g, n) - at \in 0 .. count - 1 /\ PlaceOf(g, n) = at + (PlaceOf(g, n) - at)
      BY <1>3, <1>5, <2>1, <3>1
    <3> QED
      BY <1>7, <2>1, <3>2
  <2> QED
    BY <1>3, <1>5, <1>6, <2>1, <2>2, <2>3
<1>9. ASSUME NEW k \in Datagrams(g)
      PROVE  HasCome(g, s, k) <=> HasCome(g, r, k)
  <2> DEFINE number == NumberOf(g, k)
  <2>1. number \in Numbers /\ PlaceOf(g, number) = k - 1 /\ k - 1 \in Nat
    BY DatagramIs
  <2> HIDE DEF number
  <2>2. ASSUME k - 1 < at + count, ~ (k - 1 < at)
        PROVE  number \in r.future
    <3>1. (k - 1) - at \in 0 .. count - 1 /\ k - 1 = at + ((k - 1) - at)
      BY <1>3, <1>5, <2>1, <2>2
    <3> QED
      BY <1>7, <2>1, <3>1
  <2>3. ASSUME number \in passed
        PROVE  k - 1 < at + count
    <3>1. PICK i \in 0 .. count - 1 : number = Advance(r.next, i)
      BY <2>3
    <3>2. i \in Nat /\ at + i <= length
      BY <1>3, <1>5
    <3>3. k - 1 = at + i
      BY <1>4, <2>1, <3>1, <3>2
    <3> QED
      BY <1>3, <1>5, <3>3
  <2>4. k - 1 < at => k - 1 < at + count
    BY <1>3, <1>5, <2>1
  <2>5. HasCome(g, s, k) <=> k - 1 < at + count \/ number \in s.future
    BY <1>6 DEF HasCome, number
  <2>6. HasCome(g, r, k) <=> k - 1 < at \/ number \in r.future
    BY DEF HasCome, number, at
  <2> QED
    BY <1>1, <2>2, <2>3, <2>4, <2>5, <2>6
<1> QED
  BY <1>3, <1>5, <1>6, <1>8, <1>9 DEF InWindow, s, length

\* A datagram that was met has come, and is processed only if it had not.
LEMMA AcceptComes ==
  ASSUME NEW g \in Generations, NEW k \in Datagrams(g), NEW r, IsWindow(r), NumbersFit(r),
         InWindow(g, r), Forward(r.next, NumberOf(g, k)) \notin MaxGap + 1 .. Half - 1
  PROVE  LET a == AcceptDatagram(r, NumberOf(g, k))
         IN  /\ InWindow(g, a.receive) /\ HasCome(g, a.receive, k)
             /\ \A j \in Datagrams(g) : HasCome(g, r, j) => HasCome(g, a.receive, j)
             /\ \A j \in Datagrams(g) : HasCome(g, a.receive, j)
                                          => HasCome(g, r, j) \/ (j = k /\ a.isAccepted)
             /\ a.isAccepted => ~HasCome(g, r, k)
<1> DEFINE number == NumberOf(g, k)
           distance == Forward(r.next, number)
           w == IF distance > MaxGap THEN Slide(r, number) ELSE r
           a == AcceptDatagram(r, number)
           at == PlaceOf(g, r.next)
           length == Len(Traffic[g])
           Good(s, isAccepted) ==
             /\ InWindow(g, s) /\ HasCome(g, s, k)
             /\ \A j \in Datagrams(g) : HasCome(g, r, j) => HasCome(g, s, j)
             /\ \A j \in Datagrams(g) : HasCome(g, s, j) => HasCome(g, r, j) \/ (j = k /\ isAccepted)
             /\ isAccepted => ~HasCome(g, r, k)
<1>1. /\ number \in Numbers /\ PlaceOf(g, number) = k - 1 /\ k \in Nat /\ k - 1 \in Nat
      /\ k - 1 < length /\ length \in Nat
  BY DatagramIs, PlacesAre
<1>2. \A j \in Datagrams(g) : j \in Nat /\ NumberOf(g, j) \in Numbers /\ PlaceOf(g, NumberOf(g, j)) = j - 1
  BY DatagramIs
<1>3. r.next \in Numbers /\ r.future \subseteq Numbers
  BY DEF NumbersFit
<1>4. /\ length <= Half /\ Half < Modulus /\ Half \in Nat /\ Modulus \in Nat /\ 2 * Half <= Modulus
      /\ \A n \in Numbers : PlaceOf(g, n) \in Nat /\ PlaceOf(g, n) < Modulus
      /\ \A m, n \in Numbers : PlaceOf(g, m) = PlaceOf(g, n) => m = n
  BY PlacesAre
<1>5. at \in Nat /\ at <= length
  BY <1>3, <1>4 DEF InWindow
<1>6. distance = IF at <= k - 1 THEN k - 1 - at ELSE k - 1 - at + Modulus
  BY <1>1, <1>3, PlacesAre
<1>7. distance \in Nat /\ MaxGap \in Nat
  BY SMTT(30), <1>1, <1>4, <1>5, <1>6, Sizes
<1>8. \A n \in r.future : at < PlaceOf(g, n) /\ PlaceOf(g, n) < length
  BY DEF InWindow
<1>9. \A s, j : HasCome(g, s, j) <=> j - 1 < PlaceOf(g, s.next) \/ NumberOf(g, j) \in s.future
  BY DEF HasCome
<1>10. CASE distance >= Half
  <2>1. a.receive = r /\ a.isAccepted = FALSE
    <3>1. ~ (distance < Half)
      BY <1>4, <1>7, <1>10
    <3> QED
      BY <1>10, <3>1 DEF AcceptDatagram
  <2>2. k - 1 < at
    BY <1>1, <1>4, <1>5, <1>6, <1>10
  <2>3. HasCome(g, r, k)
    BY <1>9, <2>2
  <2> HIDE DEF a
  <2> QED
    BY <2>1, <2>3 DEF a
<1>11. CASE distance < Half
  <2>1. w = r /\ at <= k - 1 /\ distance = k - 1 - at
    BY <1>1, <1>4, <1>5, <1>6, <1>7, <1>11
  <2>2. CASE number = r.next
    <3>1. a.receive = AcceptExpected(r) /\ a.isAccepted = TRUE
      <4>1. ~ (distance >= Half)
        BY <1>4, <1>7, <1>11
      <4> QED
        <5>1. ~ (distance > MaxGap)
          BY <1>4, <1>7, <1>11
        <5> QED
          BY <1>11, <2>2, <4>1, <5>1 DEF AcceptDatagram
    <3>2. PICK s : /\ OnlyNumbers(r, s) /\ s.next = Advance(r.next, 1) /\ s.future = r.future
                   /\ AcceptExpected(r) = Advanced(s)
      BY AcceptExpectedIs
    <3>3. at = k - 1 /\ at + 1 <= length
      BY <1>1, <1>5, <2>2
    <3>4. s.next \in Numbers /\ PlaceOf(g, s.next) = at + 1
      BY <1>3, <3>2, <3>3, PlaceAdvance
    <3>5. /\ InWindow(g, Advanced(s))
          /\ \A j \in Datagrams(g) : HasCome(g, Advanced(s), j) <=> HasCome(g, s, j)
      <4>1. IsWindow(s)
        BY <3>2 DEF OnlyNumbers
      <4>2. \A n \in s.future : at + 1 <= PlaceOf(g, n) /\ PlaceOf(g, n) < length
        BY <1>3, <1>4, <1>5, <1>8, <3>2
      <4> QED
        BY <1>3, <3>2, <3>3, <3>4, <4>1, <4>2, AdvancedComes
    <3>6. HasCome(g, s, k)
      BY <1>1, <1>9, <3>3, <3>4
    <3>7. ASSUME NEW j \in Datagrams(g)
          PROVE  /\ HasCome(g, r, j) => HasCome(g, s, j)
                 /\ HasCome(g, s, j) => HasCome(g, r, j) \/ j = k
      <4>1. j \in Nat /\ k \in Nat
        BY <1>1, <1>2
      <4>2. j - 1 < at => j - 1 < at + 1
        BY <1>5, <4>1
      <4>3. j - 1 < at + 1 => j - 1 < at \/ j = k
        BY <1>5, <3>3, <4>1
      <4> QED
        BY <1>9, <3>2, <3>4, <4>2, <4>3
    <3>8. ~HasCome(g, r, k)
      <4>1. number \notin r.future
        BY <1>1, <1>8, <3>3, <1>5
      <4>2. ~ (k - 1 < at)
        BY <1>1, <3>3
      <4> QED
        BY <1>9, <4>1, <4>2
    <3> HIDE DEF a
    <3> QED
      BY <3>1, <3>2, <3>5, <3>6, <3>7, <3>8 DEF a
  <2>3. CASE number # r.next /\ number \in r.future
    <3>1. a.receive = r /\ a.isAccepted = FALSE
      <4>1. ~ (distance >= Half)
        BY <1>4, <1>7, <1>11
      <4> QED
        BY <1>11, <2>1, <2>3, <4>1 DEF AcceptDatagram
    <3>2. HasCome(g, r, k)
      BY <1>9, <2>3
    <3> HIDE DEF a
    <3> QED
      BY <3>1, <3>2 DEF a
  <2>4. CASE number # r.next /\ number \notin r.future
    <3> DEFINE s == AcceptAhead(r, number)
    <3>1. a.receive = s /\ a.isAccepted = TRUE
      <4>1. ~ (distance >= Half)
        BY <1>4, <1>7, <1>11
      <4> QED
        BY <1>11, <2>1, <2>4, <4>1 DEF AcceptDatagram
    <3>2. s.next = r.next /\ s.future = r.future \union {number}
      BY AcceptAheadIs
    <3> HIDE DEF s
    <3>3. at < k - 1
      <4>1. at # k - 1
        BY <1>1, <1>3, <1>4, <2>4
      <4> QED
        BY <1>1, <1>5, <2>1, <4>1
    <3>4. InWindow(g, s)
      BY <1>1, <1>5, <1>8, <3>2, <3>3 DEF InWindow
    <3>5. HasCome(g, s, k)
      BY <1>9, <3>2
    <3>6. ASSUME NEW j \in Datagrams(g)
          PROVE  /\ HasCome(g, r, j) => HasCome(g, s, j)
                 /\ HasCome(g, s, j) => HasCome(g, r, j) \/ j = k
      <4>1. NumberOf(g, j) = number => j = k
        BY <1>1, <1>2
      <4> QED
        BY <1>9, <3>2, <4>1
    <3>7. ~HasCome(g, r, k)
      <4>1. ~ (k - 1 < at)
        BY <1>1, <1>5, <3>3
      <4> QED
        BY <1>9, <2>4, <4>1
    <3> HIDE DEF a
    <3> QED
      BY <3>1, <3>4, <3>5, <3>6, <3>7 DEF a
  <2> QED
    BY <2>2, <2>3, <2>4
<1> QED
  BY <1>4, <1>7, <1>10, <1>11
-----------------------------------------------------------------------------
(***************************************************************************)
(* What goes on in a connection g that has not been touched by a dispatch  *)
(* of another: d is what the worker dispatches, r the receive window, l    *)
(* the history.                                                            *)
(***************************************************************************)
IsMine(g, d) == d.kind = "data" /\ d.own = g

\* What the handler is going to get, and the datagrams being prepared and answered.
Coming(g, d) == IF IsMine(g, d) THEN d.ready ELSE <<>>
Preparing(g, d) == IF IsMine(g, d) /\ d.pc = "prepare" THEN {d.item} ELSE {}
Answering(g, d) == IF IsMine(g, d) /\ d.pc \notin {"lock", "accept"} THEN {d.item} ELSE {}

\* It is going to remove the peer.
HasFailed(g, d) == IsMine(g, d) /\ d.isFailed /\ d.pc \notin {"lock", "accept", "prepare"}

\* The datagrams that the client may have sent, and their messages.
Reached(g, acked) == {k \in Datagrams(g) : \A j \in 1 .. k - 1 - ClientWindow : j \in acked}
Messages(g, k) ==
  {Forward(Base(g), p.message) : p \in {Traffic[g][k][i] : i \in {n \in DOMAIN Traffic[g][k] : IsReliable(Traffic[g][k][n])}}}
Places(g, acked) == {0} \union UNION {Messages(g, k) : k \in Reached(g, acked)}

AllKept(g, line, r, k) ==
  \A i \in DOMAIN Traffic[g][k] : MustKeep(Traffic[g][k][i]) => Kept(line, r, Traffic[g][k][i])

KeepsAll(g, line, r, acked, preparing) ==
  /\ Recent(Base(g), Places(g, acked), r) /\ NothingLost(PacketsOf(g), line, r)
  /\ \A k \in Datagrams(g) : HasCome(g, r, k) => k \in preparing \/ AllKept(g, line, r, k)

AllCame(g, d, r, acked) ==
  /\ InWindow(g, r) /\ \A k \in acked \union Answering(g, d) : k \in Datagrams(g) /\ HasCome(g, r, k)
  /\ \A k \in acked : k \notin Preparing(g, d)

Flow(g, d, r, l, joined) ==
  LET line == l.delivered \o Coming(g, d)
  IN  /\ IsMine(g, d) => joined /\ d.item \in Reached(g, l.acked)
      /\ l.delivered \in Seq(PacketsOf(g))
      /\ IsStream(PacketsOf(g), Base(g), First(g), line, r)
      /\ ~l.isLapsed => AllCame(g, d, r, l.acked)
      /\ ~l.isLapsed /\ ~HasFailed(g, d)
           => KeepsAll(g, line, r, l.acked, Preparing(g, d))

FlowInv ==
  peer # None /\ ~life.isTainted => Flow(peer, dispatch["active"], receive, life, isJoined)

-----------------------------------------------------------------------------
(***************************************************************************)
(* Steps that change neither the window nor what the handler got.          *)
(***************************************************************************)
\* What is prepared and failed stays so; d answers no other datagram than c.
Calm(g, c, d) ==
  /\ Preparing(g, d) = Preparing(g, c)
  /\ Answering(g, d) \subseteq Answering(g, c)
  /\ HasFailed(g, c) => HasFailed(g, d)

LEMMA ReachedGrows ==
  ASSUME NEW g, NEW some, NEW more, some \subseteq more
  PROVE  Reached(g, some) \subseteq Reached(g, more) /\ Places(g, some) \subseteq Places(g, more)
<1>1. Reached(g, some) \subseteq Reached(g, more)
  BY DEF Reached
<1> QED
  BY <1>1 DEF Places

LEMMA CalmFlow ==
  ASSUME NEW g, NEW c, NEW d, NEW r, NEW l, NEW m, NEW before, NEW after,
         Flow(g, c, r, l, before), Calm(g, c, d),
         m.delivered \in Seq(PacketsOf(g)),
         m.delivered \o Coming(g, d) = l.delivered \o Coming(g, c),
         l.isLapsed => m.isLapsed, l.acked \subseteq m.acked,
         m.acked \subseteq l.acked \union (Answering(g, c) \ Preparing(g, c)),
         IsMine(g, d) => after /\ d.item \in Reached(g, m.acked)
  PROVE  Flow(g, d, r, m, after)
<1> DEFINE line == l.delivered \o Coming(g, c)
<1>1. m.delivered \o Coming(g, d) = line
  OBVIOUS
<1>2. IsStream(PacketsOf(g), Base(g), First(g), line, r) /\ m.delivered \in Seq(PacketsOf(g))
  BY DEF Flow
<1>3. ASSUME ~m.isLapsed
      PROVE  AllCame(g, d, r, m.acked)
  <2>1. AllCame(g, c, r, l.acked)
    BY <1>3 DEF Flow
  <2> QED
    BY <2>1 DEF AllCame, Calm
<1>4. ASSUME ~m.isLapsed, ~HasFailed(g, d)
      PROVE  KeepsAll(g, line, r, m.acked, Preparing(g, d))
  <2>1. KeepsAll(g, line, r, l.acked, Preparing(g, c))
    BY <1>4 DEF Flow, Calm
  <2>2. Places(g, l.acked) \subseteq Places(g, m.acked)
    BY ReachedGrows
  <2>3. Preparing(g, d) = Preparing(g, c)
    BY DEF Calm
  <2> HIDE DEF line
  <2> QED
    BY <2>1, <2>2, <2>3 DEF KeepsAll, Recent
<1> HIDE DEF line
<1> QED
  BY <1>1, <1>2, <1>3, <1>4 DEF Flow

\* The same of a step.
LEMMA FlowStays ==
  ASSUME FlowInv, peer' = peer, receive' = receive, life'.delivered = life.delivered,
         life.isLapsed => life'.isLapsed, life.isTainted => life'.isTainted,
         life.acked \subseteq life'.acked,
         peer # None /\ ~ (life'.isTainted) =>
              /\ life'.acked \subseteq life.acked \union (Answering(peer, dispatch["active"])
                                               \ Preparing(peer, dispatch["active"]))
              /\ Calm(peer, dispatch["active"], dispatch'["active"])
              /\ Coming(peer, dispatch'["active"]) = Coming(peer, dispatch["active"])
              /\ IsMine(peer, dispatch'["active"])
                   => isJoined' /\ dispatch'["active"].item \in Reached(peer, life'.acked)
  PROVE  FlowInv'
<1> SUFFICES ASSUME peer # None, ~ (life'.isTainted)
             PROVE  Flow(peer, dispatch'["active"], receive, life', isJoined')
  BY DEF FlowInv
<1>1. Flow(peer, dispatch["active"], receive, life, isJoined)
  BY DEF FlowInv
<1>2. life.delivered \in Seq(PacketsOf(peer))
  BY <1>1 DEF Flow
<1>3. ASSUME NEW c, c = dispatch["active"], NEW d, d = dispatch'["active"],
             NEW m, m = life', NEW after, after <=> isJoined'
      PROVE  Flow(peer, d, receive, m, after)
  <2>1. /\ Calm(peer, c, d) /\ m.delivered \in Seq(PacketsOf(peer))
        /\ m.delivered \o Coming(peer, d) = life.delivered \o Coming(peer, c)
        /\ m.acked \subseteq life.acked \union (Answering(peer, c) \ Preparing(peer, c))
        /\ IsMine(peer, d) => after /\ d.item \in Reached(peer, m.acked)
        /\ life.isLapsed => m.isLapsed
        /\ life.acked \subseteq m.acked
    BY <1>2, <1>3
  <2>2. Flow(peer, c, receive, life, isJoined)
    BY <1>1, <1>3
  <2> QED
    BY <2>1, <2>2, CalmFlow
<1> QED
  BY <1>3

-----------------------------------------------------------------------------
(***************************************************************************)
(* A datagram is accepted, and its packets prepared and handled.           *)
(***************************************************************************)
LEMMA OnlyNumbersStream ==
  ASSUME NEW S, NEW base, NEW first, NEW line, NEW r, IsStream(S, base, first, line, r),
         NEW s, OnlyNumbers(r, s), NumbersFit(s)
  PROVE  /\ IsStream(S, base, first, line, s)
         /\ \A q : Kept(line, s, q) <=> Kept(line, r, q)
<1>1. /\ s.seen = r.seen /\ s.latest = r.latest /\ s.order = r.order /\ s.waiting = r.waiting
      /\ s.sequenced = r.sequenced /\ s.splits = r.splits /\ IsWindow(s)
  BY DEF OnlyNumbers
<1>2. WindowFits(s, S)
  BY <1>1 DEF IsStream, WindowFits, WaitingFits, PartsFit
<1>3. WaitingNames(s) = WaitingNames(r)
  BY <1>1 DEF WaitingNames
<1>4. \A m : IsNewMessage(s, m) <=> IsNewMessage(r, m)
  BY <1>1 DEF IsNewMessage
<1>5. HeldOnce(S, line, s)
  <2>1. HeldOnce(S, line, r)
    BY DEF IsStream
  <2> QED
    BY <1>1, <1>3, <1>4, <2>1 DEF HeldOnce
<1>6. SeenSoFar(base, s)
  BY <1>1 DEF IsStream, SeenSoFar
<1>7. IsLine(S, first, line, s.order, s.sequenced)
  BY <1>1 DEF IsStream
<1> QED
  BY <1>1, <1>2, <1>3, <1>5, <1>6, <1>7 DEF IsStream, Kept, Within

\* The datagram of c is accepted, or is not as it came before.
LEMMA AcceptFlow ==
  ASSUME NEW g \in Generations, NEW c, NEW r, NEW l, Flow(g, c, r, l, TRUE),
         IsMine(g, c), c.pc = "accept", c.ready = <<>>, c.item \in Datagrams(g),
         NEW d, IsMine(g, d), d.item = c.item, d.ready = <<>>,
         NEW m, m.delivered = l.delivered, m.acked = l.acked,
         NEW a, a = AcceptDatagram(r, NumberOf(g, c.item)),
         a.isAccepted => d.pc = "prepare", ~a.isAccepted => d.pc = "respond",
         m.isLapsed <=> l.isLapsed
              \/ Forward(r.next, NumberOf(g, c.item)) \in MaxGap + 1 .. Half - 1
  PROVE  Flow(g, d, a.receive, m, TRUE)
<1> DEFINE k == c.item
           s == a.receive
           line == l.delivered \o <<>>
           S == PacketsOf(g)
<1>1. Coming(g, c) = <<>> /\ Coming(g, d) = <<>> /\ m.delivered \o Coming(g, d) = line
  BY DEF Coming
<1>2. IsStream(S, Base(g), First(g), line, r) /\ m.delivered \in Seq(S)
  BY <1>1 DEF Flow
<1>3. IsWindow(r) /\ NumbersFit(r) /\ NumberOf(g, k) \in Numbers
  BY <1>2, DatagramIs DEF IsStream, WindowFits
<1>4. OnlyNumbers(r, s) /\ NumbersFit(s) /\ a.isAccepted \in BOOLEAN
  BY <1>3, AcceptDatagramFits
<1> HIDE DEF line, S
<1>5. /\ IsStream(S, Base(g), First(g), line, s)
      /\ \A q : Kept(line, s, q) <=> Kept(line, r, q)
  BY <1>2, <1>4, OnlyNumbersStream
<1>6. /\ Preparing(g, c) = {} /\ Answering(g, c) = {} /\ Answering(g, d) \subseteq {k}
      /\ Preparing(g, d) = IF a.isAccepted THEN {k} ELSE {}
  BY DEF Preparing, Answering
<1>7. ASSUME ~m.isLapsed
      PROVE  /\ AllCame(g, c, r, l.acked)
             /\ InWindow(g, s) /\ HasCome(g, s, k)
             /\ \A j \in Datagrams(g) : HasCome(g, r, j) => HasCome(g, s, j)
             /\ \A j \in Datagrams(g) : HasCome(g, s, j)
                                          => HasCome(g, r, j) \/ (j = k /\ a.isAccepted)
             /\ a.isAccepted => ~HasCome(g, r, k)
  <2>1. AllCame(g, c, r, l.acked)
    BY <1>7 DEF Flow
  <2>2. InWindow(g, r)
    BY <2>1 DEF AllCame
  <2>3. Forward(r.next, NumberOf(g, k)) \notin MaxGap + 1 .. Half - 1
    BY <1>7
  <2> QED
    BY <1>3, <2>1, <2>2, <2>3, AcceptComes
<1>8. ASSUME ~m.isLapsed
      PROVE  AllCame(g, d, s, m.acked)
  BY <1>6, <1>7, <1>8 DEF AllCame
<1>9. ASSUME ~m.isLapsed, ~HasFailed(g, d)
      PROVE  KeepsAll(g, line, s, m.acked, Preparing(g, d))
  <2>1. KeepsAll(g, line, r, l.acked, Preparing(g, c))
    BY <1>1, <1>9 DEF Flow, line, HasFailed
  <2>2. NothingLost(S, line, s) /\ Recent(Base(g), Places(g, m.acked), s)
    BY <1>4, <1>5, <2>1 DEF KeepsAll, NothingLost, Recent, OnlyNumbers, S
  <2>3. ASSUME NEW j \in Datagrams(g), HasCome(g, s, j)
        PROVE  j \in Preparing(g, d) \/ AllKept(g, line, s, j)
    <3>1. HasCome(g, r, j) \/ (j = k /\ a.isAccepted)
      BY <1>7, <1>9, <2>3
    <3>2. HasCome(g, r, j) => AllKept(g, line, s, j)
      BY <1>5, <1>6, <2>1 DEF KeepsAll, AllKept
    <3> QED
      BY <1>6, <3>1, <3>2
  <2> QED
    BY <2>2, <2>3 DEF KeepsAll, S
<1>10. d.item \in Reached(g, m.acked)
  BY DEF Flow
<1> QED
  BY <1>1, <1>2, <1>5, <1>8, <1>9, <1>10 DEF Flow, S

\* A message that may be under way is in reach of one that is prepared.
LEMMA TimelyPackets ==
  ASSUME NEW g \in Generations, NEW k \in Datagrams(g), NEW D, D \subseteq Datagrams(g), k \in D,
         \A j \in D : j <= k + ClientWindow, NEW i \in DOMAIN Traffic[g][k]
  PROVE  IsTimely(Base(g), {0} \union UNION {Messages(g, j) : j \in D}, Traffic[g][k][i])
<1> DEFINE p == Traffic[g][k][i]
           places == {0} \union UNION {Messages(g, j) : j \in D}
<1> SUFFICES ASSUME IsReliable(p)
             PROVE  /\ Forward(Base(g), p.message) \in places
                    /\ \A x \in places : x < Forward(Base(g), p.message) + ReliableWindow
  BY DEF IsTimely
<1>1. p \in PacketsOf(g)
  BY DatagramIs
<1>2. ASSUME NEW q \in PacketsOf(g), IsReliable(q)
      PROVE  /\ Forward(Base(g), q.message) = MessagePlace(g, q) + 1
             /\ MessagePlace(g, q) \in Nat
  <2>1. q.message \in Numbers /\ Base(g) \in Numbers /\ FirstMessage[g] \in Numbers
        /\ Forward(Base(g), FirstMessage[g]) = 1 /\ Forward(Base(g), q.message) \in 1 .. Half - 1
    BY <1>2, TrafficSends, SendsIs, BaseIs, TrafficIs
  <2>2. Forward(FirstMessage[g], q.message) =
          IF Forward(Base(g), FirstMessage[g]) <= Forward(Base(g), q.message)
          THEN Forward(Base(g), q.message) - Forward(Base(g), FirstMessage[g])
          ELSE Forward(Base(g), q.message) - Forward(Base(g), FirstMessage[g]) + Modulus
    BY <2>1, ForwardOfPlaces
  <2>3. 1 <= Forward(Base(g), q.message) /\ Forward(Base(g), q.message) \in Nat
    BY <2>1, Sizes
  <2> HIDE DEF p, places
  <2> QED
    BY <2>1, <2>2, <2>3 DEF MessagePlace
<1>3. Forward(Base(g), p.message) \in Messages(g, k)
  BY DEF Messages
<1>4. ASSUME NEW j \in D, NEW x \in Messages(g, j)
      PROVE  x < Forward(Base(g), p.message) + ReliableWindow
  <2>1. PICK n \in DOMAIN Traffic[g][j] :
             IsReliable(Traffic[g][j][n]) /\ x = Forward(Base(g), Traffic[g][j][n].message)
    BY DEF Messages
  <2> DEFINE q == Traffic[g][j][n]
  <2>2. j \in Datagrams(g) /\ j <= k + ClientWindow /\ q \in PacketsOf(g)
    BY DatagramIs
  <2>3. MessagePlace(g, q) < MessagePlace(g, p) + ReliableWindow
    BY <2>1, <2>2, TrafficFits
  <2>4. x = MessagePlace(g, q) + 1 /\ Forward(Base(g), p.message) = MessagePlace(g, p) + 1
        /\ MessagePlace(g, q) \in Nat /\ MessagePlace(g, p) \in Nat
    BY <1>1, <1>2, <2>1, <2>2
  <2> HIDE DEF p, q, places
  <2> QED
    BY <2>3, <2>4, Sizes
<1>5. 0 < Forward(Base(g), p.message) + ReliableWindow
  BY <1>1, <1>2, Sizes
<1> QED
  BY <1>3, <1>4, <1>5

\* The packets of the datagram are prepared, maybe after assemblies became too old.
LEMMA PrepareFlow ==
  ASSUME NEW g \in Generations, NEW c, NEW r, NEW l, Flow(g, c, r, l, TRUE),
         IsMine(g, c), c.pc = "prepare", c.ready = <<>>, c.item \in Datagrams(g),
         NEW isLate \in BOOLEAN, NEW kept, kept = IF isLate THEN ExpireSplits(r) ELSE r,
         NEW o, o = Prepare(kept, Traffic[g][c.item]),
         NEW d, IsMine(g, d), d.item = c.item, d.pc = "handle", d.ready = o.ready,
         d.isFailed <=> o.isRefused,
         NEW m, m.delivered = l.delivered, m.acked = l.acked, m.isLapsed <=> l.isLapsed \/ isLate
  PROVE  Flow(g, d, o.receive, m, TRUE)
<1> DEFINE k == c.item
           s == o.receive
           line == l.delivered
           all == line \o o.ready
           S == PacketsOf(g)
           packets == {Traffic[g][k][i] : i \in DOMAIN Traffic[g][k]}
<1>1. /\ m.delivered \o Coming(g, d) = all /\ l.delivered \o Coming(g, c) = line
      /\ m.delivered \in Seq(S)
  <2>1. l.delivered \in Seq(S)
    BY DEF Flow
  <2>2. Coming(g, d) = o.ready /\ Coming(g, c) = <<>>
    BY DEF Coming
  <2> QED
    BY <2>1, <2>2
<1>2. IsStream(S, Base(g), First(g), line, r)
  BY <1>1 DEF Flow
<1>3. IsStream(S, Base(g), First(g), line, kept)
  <2>1. WindowFits(r, S)
    BY <1>2 DEF IsStream
  <2>2. OnlySplits(r, ExpireSplits(r)) /\ PartsOf(ExpireSplits(r).splits) = {}
    BY <2>1, ExpireSplitsFits
  <2> HIDE DEF S, line
  <2>3. IsStream(S, Base(g), First(g), line, ExpireSplits(r))
    BY <1>2, <2>2, FewerPartsStream
  <2> QED
    BY <1>2, <2>3
<1>4. Sends(S, Base(g), First(g)) /\ Traffic[g][k] \in Seq(S) /\ k \in Nat
  BY TrafficSends, DatagramIs
<1>5. Preparing(g, c) = {k} /\ Preparing(g, d) = {} /\ Answering(g, c) = {k} /\ Answering(g, d) = {k}
  BY DEF Preparing, Answering
<1>6. ASSUME NEW places, \A i \in DOMAIN Traffic[g][k] : IsTimely(Base(g), places, Traffic[g][k][i])
      PROVE  DatagramGoesOn(S, Base(g), First(g), places, line, kept, packets, o)
  <2> HIDE DEF S, line
  <2> QED
    BY <1>3, <1>4, <1>6, PreparedStream
<1>7. IsStream(S, Base(g), First(g), all, s) /\ SameDatagrams(kept, s)
  <2> DEFINE places == {0} \union UNION {Messages(g, j) : j \in {k}}
  <2>1. \A j \in {k} : j <= k + ClientWindow
    BY <1>4, GenerationsAre
  <2>2. \A i \in DOMAIN Traffic[g][k] : IsTimely(Base(g), places, Traffic[g][k][i])
    BY <2>1, TimelyPackets
  <2>3. DatagramGoesOn(S, Base(g), First(g), places, line, kept, packets, o)
    BY <1>6, <2>2
  <2> HIDE DEF S, line, places, packets
  <2> QED
    BY <2>3 DEF DatagramGoesOn, all, s
<1>8. ASSUME ~m.isLapsed
      PROVE  kept = r /\ AllCame(g, c, r, l.acked) /\ \A j : HasCome(g, s, j) <=> HasCome(g, r, j)
  BY <1>7, <1>8 DEF Flow, SameDatagrams, HasCome
<1>9. ASSUME ~m.isLapsed
      PROVE  AllCame(g, d, s, m.acked)
  <2>1. InWindow(g, s)
    BY <1>7, <1>8, <1>9 DEF AllCame, InWindow, SameDatagrams
  <2> QED
    BY <1>5, <1>8, <1>9, <2>1 DEF AllCame
<1>10. d.item \in Reached(g, m.acked)
  BY DEF Flow
<1>11. ASSUME ~m.isLapsed, ~HasFailed(g, d)
       PROVE  KeepsAll(g, all, s, m.acked, Preparing(g, d))
  <2> DEFINE places == Places(g, l.acked)
  <2>1. KeepsAll(g, line, r, l.acked, {k}) /\ kept = r /\ ~o.isRefused
    BY <1>1, <1>5, <1>8, <1>11 DEF Flow, HasFailed
  <2>2. ASSUME NEW j \in Reached(g, l.acked)
        PROVE  j \in Datagrams(g) /\ j <= k + ClientWindow
    <3>1. k \notin l.acked
      BY <1>5, <1>8, <1>11 DEF AllCame
    <3>2. k \notin 1 .. j - 1 - ClientWindow
      BY <3>1 DEF Reached
    <3>3. k \in Nat /\ 1 <= k /\ j \in Nat /\ ClientWindow \in Nat
      BY DatagramIs, GenerationsAre DEF Reached
    <3> QED
      BY <3>2, <3>3 DEF Reached
  <2>3. k \in Reached(g, l.acked)
    BY DEF Flow
  <2>4. \A i \in DOMAIN Traffic[g][k] : IsTimely(Base(g), places, Traffic[g][k][i])
    BY <2>2, <2>3, TimelyPackets DEF Places
  <2>5. DatagramGoesOn(S, Base(g), First(g), places, line, r, packets, o)
    BY <1>6, <2>1, <2>4
  <2> HIDE DEF S, line, places, packets, all, s
  <2>6. /\ NothingLost(S, line, r) /\ Recent(Base(g), places, r)
        /\ \A j \in Datagrams(g) : HasCome(g, r, j) => j = k \/ AllKept(g, line, r, j)
    BY <2>1 DEF KeepsAll, S, places
  <2>7. /\ \A q \in S : MustKeep(q) /\ Kept(line, r, q) => Kept(all, s, q)
        /\ NothingLost(S, all, s) /\ Recent(Base(g), places, s)
        /\ \A p \in packets : MustKeep(p) => Kept(all, s, p)
    BY <2>1, <2>5, <2>6 DEF DatagramGoesOn, all, s
  <2>8. AllKept(g, all, s, k)
    BY <2>7 DEF AllKept, packets
  <2>9. ASSUME NEW j \in Datagrams(g), HasCome(g, s, j)
        PROVE  AllKept(g, all, s, j)
    <3>1. j = k \/ AllKept(g, line, r, j)
      BY <1>8, <1>11, <2>6, <2>9 DEF s
    <3>2. \A i \in DOMAIN Traffic[g][j] : Traffic[g][j][i] \in S
      BY DatagramIs DEF S
    <3> QED
      BY <2>7, <2>8, <3>1, <3>2 DEF AllKept
  <2> QED
    BY <2>7, <2>9 DEF KeepsAll, S, places
<1> QED
  BY <1>1, <1>7, <1>9, <1>10, <1>11 DEF Flow

\* The handler gets what was coming, and its answer fails or not.
LEMMA HandleFlow ==
  ASSUME NEW g, NEW c, NEW r, NEW l, Flow(g, c, r, l, TRUE),
         IsMine(g, c), c.pc = "handle", c.ready # <<>>, c.ready \in Seq(AllPackets),
         NEW d, IsMine(g, d), d.item = c.item, d.pc = "handle", d.ready = Tail(c.ready),
         c.isFailed => d.isFailed,
         NEW m, m.delivered = Append(l.delivered, Head(c.ready)), m.acked = l.acked,
         l.isLapsed => m.isLapsed
  PROVE  Flow(g, d, r, m, TRUE)
<1> DEFINE S == PacketsOf(g)
<1>1. /\ l.delivered \in Seq(S) /\ l.delivered \o c.ready \in Seq(S)
      /\ Coming(g, c) = c.ready /\ Coming(g, d) = Tail(c.ready)
  BY DEF Flow, Coming, IsStream, IsLine
<1>2. ASSUME NEW T, NEW some \in Seq(S), NEW rest \in Seq(T), rest # <<>>, some \o rest \in Seq(S)
      PROVE  Append(some, Head(rest)) \in Seq(S) /\ Append(some, Head(rest)) \o Tail(rest) = some \o rest
  <2> HIDE DEF S
  <2>1. /\ Len(some) + 1 \in 1 .. Len(some \o rest) /\ Head(rest) = rest[1] /\ Len(rest) \in Nat
        /\ Len(rest) >= 1 /\ Len(some) \in Nat
    BY <1>2
  <2>2. (some \o rest)[Len(some) + 1] = Head(rest)
    BY <1>2, <2>1
  <2>3. Head(rest) \in S
    BY <1>2, <2>1, <2>2
  <2>4. Append(some, Head(rest)) \in Seq(S)
    BY <1>2, <2>3
  <2>5. rest = <<Head(rest)>> \o Tail(rest)
    BY <1>2
  <2>6. Append(some, Head(rest)) = some \o <<Head(rest)>>
    BY <1>2, <2>3
  <2>7. Head(rest) \in T /\ Tail(rest) \in Seq(T)
    BY <1>2
  <2>8. (some \o <<Head(rest)>>) \o Tail(rest) = some \o (<<Head(rest)>> \o Tail(rest))
    BY <1>2, <2>7
  <2> QED
    BY <2>4, <2>5, <2>6, <2>8
<1> HIDE DEF S
<1>3. /\ m.delivered \in Seq(S)
      /\ m.delivered \o Coming(g, d) = l.delivered \o Coming(g, c)
  <2>1. /\ Append(l.delivered, Head(c.ready)) \in Seq(S)
        /\ Append(l.delivered, Head(c.ready)) \o Tail(c.ready) = l.delivered \o c.ready
    BY <1>1, <1>2
  <2> QED
    BY <1>1, <2>1
<1>4. Calm(g, c, d)
  BY DEF Calm, Preparing, Answering, HasFailed
<1>5. d.item \in Reached(g, m.acked)
  BY DEF Flow
<1> QED
  BY <1>3, <1>4, <1>5, CalmFlow DEF S

-----------------------------------------------------------------------------
(***************************************************************************)
(* Every step keeps what goes on.                                          *)
(***************************************************************************)
\* What becomes of the dispatch c does not matter to connection g.
Harmless(g, c, d) ==
  \/ ~IsMine(g, c) /\ ~IsMine(g, d)
  \/ /\ d.kind = c.kind /\ d.own = c.own /\ d.item = c.item /\ d.ready = c.ready
     /\ d.isFailed = c.isFailed
     /\ \/ c.pc = "lock" /\ d.pc = "accept"
        \/ c.pc \notin {"lock", "accept", "prepare"} /\ d.pc \notin {"lock", "accept", "prepare"}
  \/ ~IsMine(g, d) /\ c.ready = <<>> /\ c.pc # "prepare" /\ ~HasFailed(g, c)

LEMMA HarmlessIs ==
  ASSUME NEW g, NEW c, NEW d, d = c \/ Harmless(g, c, d)
  PROVE  /\ Calm(g, c, d) /\ Coming(g, d) = Coming(g, c)
         /\ IsMine(g, d) => IsMine(g, c) /\ d.item = c.item
<1>1. CASE d = c
  BY <1>1 DEF Calm
<1>2. CASE ~IsMine(g, c) /\ ~IsMine(g, d)
  BY <1>2 DEF Calm, Coming, Preparing, Answering, HasFailed
<1>3. CASE /\ d.kind = c.kind /\ d.own = c.own /\ d.item = c.item /\ d.ready = c.ready
           /\ d.isFailed = c.isFailed
           /\ \/ c.pc = "lock" /\ d.pc = "accept"
              \/ c.pc \notin {"lock", "accept", "prepare"} /\ d.pc \notin {"lock", "accept", "prepare"}
  BY <1>3 DEF Calm, Coming, Preparing, Answering, HasFailed, IsMine
<1>4. CASE ~IsMine(g, d) /\ c.ready = <<>> /\ c.pc # "prepare" /\ ~HasFailed(g, c)
  BY <1>4 DEF Calm, Coming, Preparing, Answering, HasFailed
<1> QED
  BY <1>1, <1>2, <1>3, <1>4 DEF Harmless

LEMMA FlowPasses ==
  ASSUME FlowInv, peer' = peer, receive' = receive, life'.delivered = life.delivered,
         life.isLapsed => life'.isLapsed, life.isTainted => life'.isTainted,
         life.acked \subseteq life'.acked, isJoined => isJoined',
         \/ life'.acked = life.acked
         \/ /\ IsMine(peer, dispatch["active"]) /\ dispatch["active"].pc = "write"
            /\ life'.acked = life.acked \union {dispatch["active"].item},
         \/ dispatch'["active"] = dispatch["active"]
         \/ Harmless(peer, dispatch["active"], dispatch'["active"])
  PROVE  FlowInv'
<1> DEFINE c == dispatch["active"]
           d == dispatch'["active"]
<1>1. /\ Calm(peer, c, d) /\ Coming(peer, d) = Coming(peer, c)
      /\ IsMine(peer, d) => IsMine(peer, c) /\ d.item = c.item
  <2> HIDE DEF c, d
  <2> QED
    BY HarmlessIs DEF c, d
<1>2. life'.acked \subseteq life.acked \union (Answering(peer, c) \ Preparing(peer, c))
  BY DEF Answering, Preparing
<1>3. ASSUME peer # None, ~ (life'.isTainted)
      PROVE  IsMine(peer, d) => isJoined' /\ d.item \in Reached(peer, life'.acked)
  <2>1. Flow(peer, c, receive, life, isJoined)
    BY <1>3 DEF FlowInv
  <2>2. IsMine(peer, c) => isJoined /\ c.item \in Reached(peer, life.acked)
    BY <2>1 DEF Flow
  <2>3. Reached(peer, life.acked) \subseteq Reached(peer, life'.acked)
    BY ReachedGrows
  <2> HIDE DEF c, d
  <2> QED
    BY <1>1, <2>2, <2>3
<1> QED
  BY <1>1, <1>2, <1>3, FlowStays

LEMMA FlowEnds ==
  ASSUME peer' = None \/ life'.isTainted
  PROVE  FlowInv'
BY DEF FlowInv

\* A removal, and a dispatch that does not matter to what is kept.
LEMMA RemovalPasses ==
  ASSUME FlowInv, NEW g, RemovePeer(g), peer # None =>
         \/ peer = g
         \/ dispatch'["active"] = dispatch["active"]
         \/ Harmless(peer, dispatch["active"], dispatch'["active"])
  PROVE  FlowInv'
<1>1. CASE peer = None \/ peer = g
  BY <1>1, FlowEnds DEF RemovePeer, Unregister
<1>2. CASE peer # None /\ peer # g
  BY <1>2, FlowPasses DEF RemovePeer
<1> QED
  BY <1>1, <1>2

LEMMA SlotGoes ==
  ASSUME TypeInv, NEW s \in Slots, NEW d, Go(s, d)
  PROVE  \/ s = "active" /\ dispatch'["active"] = d
         \/ s = "abandoned" /\ dispatch'["active"] = dispatch["active"]
BY DEF TypeInv, Go, Slots

\* The datagram of an abandoned dispatch is another peer's.
LEMMA AbandonedIsOther ==
  ASSUME DataInv
  PROVE  ~IsMine(peer, dispatch["abandoned"])
<1>1. DispatchFits(dispatch["abandoned"], opened) /\ opened \in Nat /\ AbandonInv
  BY DEF DataInv, DispatchInv, Slots, IInv, TypeInv
<1>2. ASSUME dispatch["abandoned"].kind = "data"
      PROVE  /\ dispatch["abandoned"].own = dispatch["abandoned"].captured
             /\ dispatch["abandoned"].own \in 1 .. opened /\ dispatch["abandoned"].pc # "idle"
  BY <1>1, <1>2 DEF DispatchFits, DataSteps
<1>3. dispatch["abandoned"].kind = "data" => dispatch["abandoned"].own # None
  BY <1>1, <1>2 DEF None
<1> QED
  BY <1>1, <1>2, <1>3 DEF AbandonInv, IsMine

\* A dispatch that is not of data is not in the way.
LEMMA OtherPasses ==
  ASSUME DataInv, FlowInv, NEW s \in Slots, NEW d, Go(s, d),
         s = "active" /\ peer # None => Harmless(peer, dispatch[s], d),
         peer' = peer, receive' = receive, life'.delivered = life.delivered,
         life.isLapsed => life'.isLapsed, life.isTainted => life'.isTainted,
         life'.acked = life.acked, isJoined => isJoined'
  PROVE  FlowInv'
<1>1. TypeInv
  BY DEF DataInv, IInv
<1>2. CASE peer = None
  BY <1>2, FlowEnds
<1>3. CASE peer # None
  <2>1. \/ dispatch'["active"] = dispatch["active"]
        \/ Harmless(peer, dispatch["active"], dispatch'["active"])
    BY <1>1, <1>3, SlotGoes
  <2> QED
    BY <1>3, <2>1, FlowPasses
<1> QED
  BY <1>2, <1>3

\* A dispatch that ends with the peer it is for.
LEMMA EndPasses ==
  ASSUME DataInv, FlowInv, NEW s \in Slots, Exit(s), RemovePeer(dispatch[s].own)
  PROVE  FlowInv'
<1>1. TypeInv
  BY DEF DataInv, IInv
<1>2. ~IsMine(peer, Idle)
  BY DEF IsMine, Idle
<1>3. ASSUME peer # None
      PROVE  \/ peer = dispatch[s].own
             \/ dispatch'["active"] = dispatch["active"]
             \/ Harmless(peer, dispatch["active"], dispatch'["active"])
  BY <1>1, <1>2, SlotGoes DEF Exit, Harmless, IsMine
<1> QED
  BY <1>3, RemovalPasses

LEMMA BeginFlows ==
  ASSUME DataInv, FlowInv, NEW kind, NEW item, NEW step, Begin(kind, item, step), KeepPeer,
         kind = "data" => /\ isJoined /\ item \in Reached(peer, life.acked) /\ step = "lock"
  PROVE  FlowInv'
<1> DEFINE d == [Idle EXCEPT !.pc = step, !.kind = kind, !.item = item,
                             !.own = peer, !.captured = peer]
<1>1. dispatch["active"] = Idle /\ dispatch'["active"] = d
  BY DEF Begin, Go, DataInv, IInv, TypeInv, Slots
<1>2. /\ d.kind = kind /\ d.item = item /\ d.pc = step /\ d.ready = <<>> /\ d.isFailed = FALSE
      /\ Idle.kind = "none" /\ Idle.ready = <<>>
  BY DEF Idle
<1> HIDE DEF d
<1>3. ~IsMine(peer, Idle)
  BY <1>2 DEF IsMine
<1>4. CASE kind # "data"
  <2>1. Harmless(peer, Idle, d)
    BY <1>2, <1>3, <1>4 DEF Harmless, IsMine
  <2> QED
    BY <1>1, <2>1, FlowPasses DEF KeepPeer
<1>5. CASE kind = "data"
  <2>1. /\ Coming(peer, d) = <<>> /\ Coming(peer, Idle) = <<>>
        /\ Preparing(peer, d) = {} /\ Preparing(peer, Idle) = {}
        /\ Answering(peer, d) = {} /\ Answering(peer, Idle) = {}
        /\ ~HasFailed(peer, d) /\ ~HasFailed(peer, Idle)
    BY <1>2, <1>3, <1>5 DEF Coming, Preparing, Answering, HasFailed
  <2>2. Calm(peer, Idle, d)
    BY <2>1 DEF Calm
  <2> QED
    BY <1>1, <1>2, <1>5, <2>1, <2>2, FlowStays DEF KeepPeer
<1> QED
  BY <1>4, <1>5

LEMMA ReceiveFlows ==
  ASSUME DataInv, FlowInv,
         \/ peer # None /\ \E k \in Datagrams(peer) : ReceiveData(k)
         \/ \E p \in outbound.pending : ReceiveAcknowledgement(p)
         \/ ReceiveOpen \/ ReceiveUnreadable
  PROVE  FlowInv'
<1>1. ASSUME NEW k \in Datagrams(peer), ReceiveData(k)
      PROVE  FlowInv'
  <2>1. k \in Reached(peer, life.acked) /\ isJoined
    BY <1>1 DEF ReceiveData, Reached
  <2> QED
    BY <1>1, <2>1, BeginFlows DEF ReceiveData
<1>2. ASSUME NEW p \in outbound.pending, ReceiveAcknowledgement(p)
      PROVE  FlowInv'
  BY <1>2, BeginFlows DEF ReceiveAcknowledgement
<1>3. ASSUME ReceiveOpen
      PROVE  FlowInv'
  BY <1>3, BeginFlows DEF ReceiveOpen
<1>4. ASSUME ReceiveUnreadable
      PROVE  FlowInv'
  BY <1>4, BeginFlows DEF ReceiveUnreadable
<1> QED
  BY <1>1, <1>2, <1>3, <1>4

\* Only the worker's dispatch is for a datagram of the peer.
LEMMA MineIsActive ==
  ASSUME DataInv, NEW s \in Slots, IsMine(peer, dispatch[s])
  PROVE  s = "active"
BY AbandonedIsOther DEF Slots

LEMMA MineIs ==
  ASSUME DataInv, FlowInv, peer # None, ~life.isTainted, IsMine(peer, dispatch["active"])
  PROVE  /\ peer \in Generations /\ dispatch["active"].item \in Datagrams(peer)
         /\ Flow(peer, dispatch["active"], receive, life, isJoined)
         /\ Flow(peer, dispatch["active"], receive, life, TRUE) /\ isJoined
<1> DEFINE c == dispatch["active"]
<1>1. Flow(peer, c, receive, life, isJoined)
  BY DEF FlowInv
<1>2. isJoined
  BY <1>1 DEF Flow
<1>3. Flow(peer, c, receive, life, TRUE)
  BY <1>1 DEF Flow
<1>4. c.item \in Datagrams(peer) /\ peer \in Generations
  BY DataIs DEF DataInv, IInv, Slots, IsMine
<1> QED
  BY <1>1, <1>2, <1>3, <1>4

\* What touches a peer is of a dispatch for it, or taints it.
LEMMA TouchedByMine ==
  ASSUME LifeFits, NEW s \in Slots, dispatch[s].kind = "data"
  PROVE  /\ Touched(life, dispatch[s]).isTainted \/ (IsMine(peer, dispatch[s]) /\ dispatch[s].own = peer)
         /\ Touched(life, dispatch[s]).delivered = life.delivered
         /\ Touched(life, dispatch[s]).acked = life.acked
         /\ Touched(life, dispatch[s]).isLapsed = life.isLapsed
         /\ life.isTainted => Touched(life, dispatch[s]).isTainted
BY TouchedIs DEF LifeFits, IsMine, Touched, IsLife

LEMMA LockFlows ==
  ASSUME DataInv, FlowInv, NEW s \in Slots, LockApplication(s)
  PROVE  FlowInv'
<1> DEFINE c == dispatch[s]
<1>1. IsDispatch(c) /\ ~IsMine(peer, Idle)
  BY DEF DataInv, IInv, TypeInv, IsMine, Idle
<1>2. \E d : Go(s, d) /\ Harmless(peer, c, d)
  <2>1. CASE peer = c.own
    <3> DEFINE d == [c EXCEPT !.pc = IF c.kind = "data" THEN "accept" ELSE "fail"]
    <3>1. /\ d.kind = c.kind /\ d.own = c.own /\ d.item = c.item /\ d.ready = c.ready
          /\ d.isFailed = c.isFailed /\ (c.kind = "data" => d.pc = "accept")
      BY <1>1 DEF IsDispatch
    <3>2. Harmless(peer, c, d)
      BY <3>1 DEF Harmless, LockApplication, IsMine
    <3>3. Go(s, d)
      BY <2>1 DEF LockApplication, To
    <3> QED
      BY <3>2, <3>3
  <2>2. CASE peer # c.own
    <3>1. Harmless(peer, c, Idle)
      BY <1>1, <2>2 DEF Harmless, IsMine
    <3> QED
      BY <2>2, <3>1 DEF LockApplication, Exit
  <2> QED
    BY <2>1, <2>2
<1> QED
  BY <1>2, OtherPasses DEF LockApplication, KeepPeer

LEMMA AcceptFlows ==
  ASSUME DataInv, FlowInv, NEW s \in Slots, Accept(s)
  PROVE  FlowInv'
<1> DEFINE c == dispatch[s]
           number == NumberOf(c.own, c.item)
           a == AcceptDatagram(receive, number)
           step == IF a.isAccepted THEN "prepare" ELSE "respond"
           d == [c EXCEPT !.pc = step]
           touched == Touched(life, c)
           isSlid == Forward(receive.next, number) \in MaxGap + 1 .. Half - 1
           m == [touched EXCEPT !.isLapsed = @ \/ isSlid]
<1> SUFFICES ASSUME peer # None, ~ (life'.isTainted)
             PROVE  FlowInv'
  BY FlowEnds DEF Accept, KeepPeer
<1>1. /\ c.pc = "accept" /\ receive' = a.receive /\ life' = m /\ Go(s, d)
      /\ peer' = peer /\ isJoined' = isJoined
  BY DEF Accept, To
<1>2. c.kind = "data" /\ c.ready = <<>>
  BY <1>1, DataKinds DEF DataInv, DispatchInv
<1>3. IsLife(life) /\ IsLife(touched)
  BY TouchedIs DEF DataInv, LifeFits
<1>4. /\ m.isTainted = touched.isTainted /\ m.delivered = life.delivered /\ m.acked = life.acked
      /\ m.isLapsed <=> life.isLapsed \/ isSlid
  <2> HIDE DEF isSlid
  <2>1. /\ touched.delivered = life.delivered /\ touched.acked = life.acked
        /\ touched.isLapsed = life.isLapsed
    BY <1>2, TouchedByMine DEF DataInv
  <2> HIDE DEF touched
  <2> QED
    BY <1>3, <2>1 DEF IsLife
<1>5. ~m.isTainted /\ ~touched.isTainted
  BY <1>1, <1>4
<1>6. IsMine(peer, c) /\ c.own = peer /\ ~life.isTainted
  BY <1>2, <1>5, TouchedByMine DEF DataInv
<1>7. s = "active"
  BY <1>6, MineIsActive
<1>8. /\ d.kind = c.kind /\ d.own = c.own /\ d.item = c.item /\ d.ready = c.ready /\ d.pc = step
  BY DEF DataInv, IInv, TypeInv, IsDispatch
<1>9. /\ peer \in Generations /\ c.item \in Datagrams(peer)
      /\ Flow(peer, c, receive, life, TRUE) /\ isJoined
  BY <1>6, <1>7, MineIs
<1>10. dispatch'["active"] = d
  BY <1>1, <1>7, SlotGoes DEF DataInv, IInv
<1>11. Flow(peer, d, a.receive, m, TRUE)
  <2>1. /\ IsMine(peer, d) /\ d.ready = <<>> /\ number = NumberOf(peer, c.item)
        /\ a.isAccepted => d.pc = "prepare"
        /\ ~a.isAccepted => d.pc = "respond"
    BY <1>2, <1>6, <1>8 DEF IsMine
  <2> HIDE DEF c, d, m
  <2> QED
    BY <1>1, <1>2, <1>4, <1>6, <1>8, <1>9, <2>1, AcceptFlow
<1> HIDE DEF d, m, a
<1>12. Flow(peer, d, a.receive, m, isJoined)
  BY <1>9, <1>11 DEF Flow
<1> QED
  BY <1>1, <1>10, <1>12, <1>9 DEF FlowInv

LEMMA PrepareFlows ==
  ASSUME DataInv, FlowInv, NEW s \in Slots, PreparePackets(s)
  PROVE  FlowInv'
<1> SUFFICES ASSUME peer # None, ~ (life'.isTainted)
             PROVE  FlowInv'
  BY FlowEnds DEF PreparePackets, KeepPeer
<1> DEFINE c == dispatch[s]
           touched == Touched(life, c)
<1>1. PICK isLate \in {FALSE, receive.splits # {}} :
        LET kept == IF isLate THEN ExpireSplits(receive) ELSE receive
            result == Prepare(kept, Traffic[c.own][c.item])
        IN  /\ receive' = result.receive
            /\ life' = [touched EXCEPT !.isLapsed = @ \/ isLate]
            /\ Go(s, [c EXCEPT !.pc = "handle", !.ready = result.ready,
                               !.isFailed = result.isRefused])
  BY DEF PreparePackets
<1> DEFINE kept == IF isLate THEN ExpireSplits(receive) ELSE receive
           o == Prepare(kept, Traffic[c.own][c.item])
           d == [c EXCEPT !.pc = "handle", !.ready = o.ready, !.isFailed = o.isRefused]
           m == [touched EXCEPT !.isLapsed = @ \/ isLate]
<1>2. /\ c.pc = "prepare" /\ receive' = o.receive /\ life' = m /\ Go(s, d)
      /\ peer' = peer /\ isJoined' = isJoined /\ isLate \in BOOLEAN
  BY <1>1 DEF PreparePackets
<1>3. c.kind = "data" /\ c.ready = <<>>
  BY <1>2, DataKinds DEF DataInv, DispatchInv
<1>4. IsLife(life) /\ IsLife(touched)
  BY TouchedIs DEF DataInv, LifeFits
<1>5. /\ m.isTainted = touched.isTainted /\ m.delivered = life.delivered /\ m.acked = life.acked
      /\ m.isLapsed <=> life.isLapsed \/ isLate
  <2>1. /\ touched.delivered = life.delivered /\ touched.acked = life.acked
        /\ touched.isLapsed = life.isLapsed
    BY <1>3, TouchedByMine DEF DataInv
  <2> HIDE DEF touched
  <2> QED
    BY <1>4, <2>1 DEF IsLife
<1>6. ~m.isTainted /\ ~touched.isTainted
  BY <1>2, <1>5
<1>7. IsMine(peer, c) /\ c.own = peer /\ ~life.isTainted
  BY <1>3, <1>6, TouchedByMine DEF DataInv
<1>8. s = "active"
  BY <1>7, MineIsActive
<1>9. /\ d.kind = c.kind /\ d.own = c.own /\ d.item = c.item /\ d.ready = o.ready
      /\ d.pc = "handle" /\ d.isFailed = o.isRefused
  <2>1. IsDispatch(c)
    BY DEF DataInv, IInv, TypeInv
  <2> HIDE DEF o, c
  <2> QED
    BY <2>1 DEF IsDispatch
<1>10. /\ peer \in Generations /\ c.item \in Datagrams(peer)
       /\ Flow(peer, c, receive, life, TRUE) /\ isJoined
  BY <1>7, <1>8, MineIs
<1>11. dispatch'["active"] = d
  BY <1>2, <1>8, SlotGoes DEF DataInv, IInv
<1>12. Flow(peer, d, o.receive, m, TRUE)
  <2>1. IsMine(peer, d) /\ o = Prepare(kept, Traffic[peer][c.item]) /\ (d.isFailed <=> o.isRefused)
    BY <1>7, <1>9 DEF IsMine
  <2>2. kept = IF isLate THEN ExpireSplits(receive) ELSE receive
    OBVIOUS
  <2>3. /\ peer \in Generations /\ Flow(peer, c, receive, life, TRUE)
        /\ IsMine(peer, c) /\ c.pc = "prepare" /\ c.ready = <<>> /\ c.item \in Datagrams(peer)
        /\ isLate \in BOOLEAN /\ kept = IF isLate THEN ExpireSplits(receive) ELSE receive
        /\ o = Prepare(kept, Traffic[peer][c.item])
        /\ IsMine(peer, d) /\ d.item = c.item /\ d.pc = "handle" /\ d.ready = o.ready
        /\ (d.isFailed <=> o.isRefused)
        /\ m.delivered = life.delivered /\ m.acked = life.acked
        /\ (m.isLapsed <=> life.isLapsed \/ isLate)
    BY <1>2, <1>3, <1>5, <1>7, <1>9, <1>10, <2>1, <2>2
  <2> HIDE DEF c, d, m, o, kept
  <2> QED
    BY <2>3, PrepareFlow
<1> HIDE DEF d, m, o
<1>13. Flow(peer, d, o.receive, m, isJoined)
  BY <1>10, <1>12 DEF Flow
<1> QED
  BY <1>2, <1>11, <1>13 DEF FlowInv

LEMMA HandleFlows ==
  ASSUME DataInv, FlowInv, NEW s \in Slots, Handle(s)
  PROVE  FlowInv'
<1> DEFINE c == dispatch[s]
           p == Head(c.ready)
           Failure == [c EXCEPT !.ready = Tail(@), !.isFailed = TRUE]
           Answer == [c EXCEPT !.ready = Tail(@),
                               !.answers = @ \o (IF p.isAsking THEN <<p.name>> ELSE <<>>)]
           touched == Touched(life, c)
           m == [touched EXCEPT !.delivered = Append(@, p)]
<1>1. c.pc = "handle" /\ c.ready # <<>> /\ peer' = peer /\ receive' = receive /\ isJoined' = isJoined
  BY DEF Handle, KeepPeer
<1>2. PICK d \in {Failure, Answer} : Go(s, d) /\ (~isJoined => d = Failure)
  BY DEF Handle
<1>3. IsDispatch(c) /\ c.kind = "data" /\ c.ready \in Seq(AllPackets)
  BY <1>1, DataKinds DEF DataInv, DispatchInv, DispatchFits
<1>4. /\ d.kind = c.kind /\ d.own = c.own /\ d.item = c.item /\ d.ready = Tail(c.ready)
      /\ d.pc = "handle" /\ (c.isFailed => d.isFailed)
  <2>1. /\ Failure.kind = c.kind /\ Failure.own = c.own /\ Failure.item = c.item
        /\ Failure.ready = Tail(c.ready) /\ Failure.pc = c.pc /\ Failure.isFailed = TRUE
    BY <1>3 DEF IsDispatch
  <2>2. /\ Answer.kind = c.kind /\ Answer.own = c.own /\ Answer.item = c.item
        /\ Answer.ready = Tail(c.ready) /\ Answer.pc = c.pc /\ Answer.isFailed = c.isFailed
    BY <1>3 DEF IsDispatch
  <2> HIDE DEF Failure, Answer
  <2>3. CASE d = Failure
    BY <1>1, <2>1, <2>3
  <2>4. CASE d = Answer
    BY <1>1, <2>2, <2>4
  <2> QED
    BY <1>2, <2>3, <2>4
<1> HIDE DEF Failure, Answer
<1>5. CASE ~IsMine(peer, c)
  <2>1. ~IsMine(peer, d)
    BY <1>4, <1>5 DEF IsMine
  <2>2. CASE isJoined
    <3>1. life' = m
      BY <2>2 DEF Handle
    <3>2. m.isTainted
      <4>1. touched.isTainted /\ IsLife(touched)
        BY <1>3, <1>5, TouchedByMine, TouchedIs DEF DataInv, LifeFits
      <4> HIDE DEF touched
      <4> QED
        BY <4>1 DEF IsLife
    <3> QED
      BY <3>1, <3>2, FlowEnds
  <2>3. CASE ~isJoined
    <3>1. KeepPeer
      BY <2>3 DEF Handle
    <3> HIDE DEF c
    <3>2. Harmless(peer, c, d)
      BY <1>5, <2>1 DEF Harmless
    <3> QED
      BY <1>2, <3>1, <3>2, OtherPasses DEF KeepPeer, c
  <2> QED
    BY <2>2, <2>3
<1>6. CASE IsMine(peer, c)
  <2> SUFFICES ASSUME peer # None, ~ (life'.isTainted)
               PROVE  FlowInv'
    BY <1>1, FlowEnds
  <2>1. s = "active"
    BY <1>6, MineIsActive
  <2>2. IsLife(life) /\ IsLife(touched)
    BY TouchedIs DEF DataInv, LifeFits
  <2>3. /\ touched.delivered = life.delivered /\ touched.acked = life.acked
        /\ touched.isLapsed = life.isLapsed /\ (life.isTainted => touched.isTainted)
    BY <1>3, TouchedByMine DEF DataInv
  <2> HIDE DEF touched, p
  <2>4. /\ m.delivered = Append(life.delivered, p) /\ m.acked = life.acked
        /\ m.isLapsed = life.isLapsed /\ m.isTainted = touched.isTainted
    BY <2>2, <2>3 DEF IsLife
  <2>5. life' = m \/ life' = life
    BY DEF Handle, KeepPeer, touched, p
  <2> HIDE DEF m
  <2>6. ~life.isTainted
    BY <2>3, <2>4, <2>5
  <2>7. /\ peer \in Generations /\ c.item \in Datagrams(peer)
        /\ Flow(peer, c, receive, life, TRUE) /\ isJoined
    BY <1>6, <2>1, <2>6, MineIs
  <2>8. life' = m
    BY <2>7 DEF Handle, m, touched, p
  <2>9. dispatch'["active"] = d
    BY <1>2, <2>1, SlotGoes DEF DataInv, IInv
  <2>10. Flow(peer, d, receive, m, TRUE)
    <3>1. IsMine(peer, d) /\ m.delivered = Append(life.delivered, Head(c.ready))
      BY <1>4, <1>6, <2>4 DEF IsMine, p
    <3> HIDE DEF c
    <3> QED
      BY <1>1, <1>3, <1>4, <1>6, <2>4, <2>7, <3>1, HandleFlow
  <2>11. Flow(peer, d, receive, m, isJoined)
    BY <2>7, <2>10 DEF Flow
  <2> QED
    BY <1>1, <2>7, <2>8, <2>9, <2>11 DEF FlowInv
<1> QED
  BY <1>5, <1>6

\* A dispatch that goes from one of the later steps to another.
LEMMA LaterIsHarmless ==
  ASSUME DataInv, NEW s \in Slots, NEW d, NEW c, c = dispatch[s],
         d.kind = c.kind, d.own = c.own, d.item = c.item, d.ready = c.ready, d.isFailed = c.isFailed,
         c.pc \notin {"lock", "accept", "prepare"}, d.pc \notin {"lock", "accept", "prepare"}
  PROVE  Harmless(peer, c, d)
BY DEF Harmless

LEMMA IdleIsOther ==
  ASSUME NEW g
  PROVE  ~IsMine(g, Idle)
BY DEF IsMine, Idle

LEMMA PassIsHarmless ==
  ASSUME DataInv, NEW s \in Slots, dispatch[s].pc \notin {"lock", "accept", "prepare"},
         NEW step, step \notin {"lock", "accept", "prepare"}
  PROVE  Harmless(peer, dispatch[s], [dispatch[s] EXCEPT !.pc = step])
<1>1. IsDispatch(dispatch[s])
  BY DEF DataInv, IInv, TypeInv
<1> DEFINE c == dispatch[s]
           d == [c EXCEPT !.pc = step]
<1>2. d.kind = c.kind /\ d.own = c.own /\ d.item = c.item /\ d.ready = c.ready
      /\ d.isFailed = c.isFailed /\ d.pc = step
  BY <1>1 DEF IsDispatch
<1> HIDE DEF d
<1> QED
  BY <1>2 DEF Harmless

LEMMA HandledFlows ==
  ASSUME DataInv, FlowInv, NEW s \in Slots, Handled(s) \/ LockOutbound(s) \/ CheckPeer(s)
  PROVE  FlowInv'
<1>1. KeepPeer /\ dispatch[s].pc \notin {"lock", "accept", "prepare"}
  BY DEF Handled, LockOutbound, CheckPeer
<1>2. PICK step \in {"respond", "check", "encode", "write"} :
           To(s, step) \/ (Exit(s) /\ dispatch[s].own # peer)
  BY DEF Handled, LockOutbound, CheckPeer
<1>3. Harmless(peer, dispatch[s], [dispatch[s] EXCEPT !.pc = step])
  BY <1>1, PassIsHarmless
<1>4. dispatch[s].own # peer => Harmless(peer, dispatch[s], Idle)
  BY IdleIsOther DEF Harmless, IsMine
<1> QED
  BY <1>1, <1>2, <1>3, <1>4, OtherPasses DEF KeepPeer, To, Exit

LEMMA EncodeFlows ==
  ASSUME DataInv, FlowInv, NEW s \in Slots, Encode(s)
  PROVE  FlowInv'
<1> DEFINE c == dispatch[s]
           touched == Touched(life, c)
<1>1. CASE RemovePeer(c.own) /\ Exit(s)
  BY <1>1, EndPasses
<1>2. CASE ~ (RemovePeer(c.own) /\ Exit(s))
  <2>1. PICK out : /\ Go(s, [c EXCEPT !.pc = "check", !.answers = <<>>, !.out = out])
                   /\ life' = touched /\ UNCHANGED <<peer, isJoined, receive>>
                   /\ c.pc = "encode"
    BY <1>2 DEF Encode
  <2> DEFINE d == [c EXCEPT !.pc = "check", !.answers = <<>>, !.out = out]
  <2>2. IsDispatch(c)
    BY DEF DataInv, IInv, TypeInv
  <2>3. d.kind = c.kind /\ d.own = c.own /\ d.item = c.item /\ d.ready = c.ready
        /\ d.isFailed = c.isFailed /\ d.pc = "check"
    BY <2>2 DEF IsDispatch
  <2>4. Go(s, d)
    BY <2>1
  <2> HIDE DEF d
  <2>5. Harmless(peer, c, d)
    BY <2>1, <2>3, LaterIsHarmless
  <2>6. /\ life'.delivered = life.delivered /\ life'.acked = life.acked
        /\ life'.isLapsed = life.isLapsed /\ (life.isTainted => life'.isTainted)
    <3>1. IsLife(life) /\ IsLife(touched)
      BY TouchedIs DEF DataInv, LifeFits
    <3>2. /\ touched.delivered = life.delivered /\ touched.acked = life.acked
          /\ touched.isLapsed = life.isLapsed /\ (life.isTainted => touched.isTainted)
      BY <3>1, TouchedIs DEF Touched, IsLife
    <3> HIDE DEF touched
    <3> QED
      BY <2>1, <3>2
  <2> QED
    BY <2>1, <2>4, <2>5, <2>6, OtherPasses
<1> QED
  BY <1>1, <1>2

LEMMA WriteFlows ==
  ASSUME DataInv, FlowInv, NEW s \in Slots, Write(s) \/ Finish(s)
  PROVE  FlowInv'
<1> DEFINE c == dispatch[s]
<1>1. CASE Exit(s) /\ RemovePeer(c.own)
  BY <1>1, EndPasses
<1>2. CASE ~ (Exit(s) /\ RemovePeer(c.own)) /\ Write(s)
  <2>1. /\ c.pc = "write"
        /\ IF c.isFailed THEN To(s, "finish") ELSE Exit(s)
        /\ IF peer \notin {c.own} \ {None} THEN KeepPeer
           ELSE /\ life' = [life EXCEPT !.acked = IF c.kind = "data"
                                                  THEN @ \union {c.item} ELSE @]
                /\ isJoined' = (isJoined \/ (c.kind = "open" /\ s = "active"))
                /\ UNCHANGED <<peer, departed, receive, isSilent>>
    BY <1>2 DEF Write
  <2>2. PICK d : Go(s, d) /\ Harmless(peer, c, d)
    <3>1. CASE c.isFailed
      BY <2>1, <3>1, PassIsHarmless DEF To
    <3>2. CASE ~c.isFailed
      <4>1. c.ready = <<>>
        BY <2>1 DEF DataInv, DispatchInv, DispatchFits
      <4>2. Harmless(peer, c, Idle)
        BY <2>1, <3>2, <4>1, IdleIsOther DEF Harmless, HasFailed
      <4> QED
        BY <2>1, <3>2, <4>2 DEF Exit
    <3> QED
      BY <3>1, <3>2
  <2>3. CASE peer \notin {c.own} \ {None}
    BY <2>1, <2>2, <2>3, OtherPasses DEF KeepPeer
  <2>4. CASE peer \in {c.own} \ {None}
    <3>1. IsLife(life)
      BY DEF DataInv, LifeFits
    <3>2. /\ life'.delivered = life.delivered /\ life'.isLapsed = life.isLapsed
          /\ life'.isTainted = life.isTainted
          /\ life'.acked = IF c.kind = "data" THEN life.acked \union {c.item} ELSE life.acked
          /\ peer' = peer /\ receive' = receive /\ (isJoined => isJoined')
      <4> HIDE DEF c
      <4>1. life' = [life EXCEPT !.acked = IF c.kind = "data" THEN @ \union {c.item} ELSE @]
            /\ isJoined' = (isJoined \/ (c.kind = "open" /\ s = "active"))
            /\ UNCHANGED <<peer, receive>>
        BY <2>1, <2>4
      <4> QED
        BY <3>1, <4>1 DEF IsLife
    <3>3. CASE c.kind # "data"
      BY <2>2, <3>2, <3>3, OtherPasses
    <3>4. CASE c.kind = "data"
      <4>1. s = "active"
        BY <2>4, <3>4, MineIsActive DEF IsMine
      <4>2. IsMine(peer, dispatch["active"]) /\ dispatch["active"].pc = "write"
            /\ life'.acked = life.acked \union {dispatch["active"].item}
        BY <2>1, <2>4, <3>2, <3>4, <4>1 DEF IsMine
      <4>3. dispatch'["active"] = d
        BY <2>2, <4>1, SlotGoes DEF DataInv, IInv
      <4>4. Harmless(peer, dispatch["active"], dispatch'["active"])
        BY <2>2, <4>1, <4>3
      <4> QED
        BY <3>2, <4>2, <4>4, FlowPasses
    <3> QED
      BY <3>3, <3>4
  <2> QED
    BY <2>3, <2>4
<1> QED
  BY <1>1, <1>2 DEF Finish

\* A dispatch that is not of data, before and after.
LEMMA OtherFlows ==
  ASSUME DataInv, FlowInv, NEW s \in Slots, Settle(s) \/ Replace(s) \/ Adopt(s)
  PROVE  FlowInv'
<1> DEFINE c == dispatch[s]
<1>1. IsDispatch(c) /\ c.kind # "data"
  BY DEF DataInv, IInv, TypeInv, DispatchInv, DispatchFits, DataSteps, Settle, Replace, Adopt
<1>2. PICK d : Go(s, d) /\ d.kind # "data"
  <2>1. /\ \A step, own : [c EXCEPT !.pc = step, !.own = own].kind = c.kind
        /\ \A own, step : [c EXCEPT !.own = own, !.pc = step].kind = c.kind
        /\ \A step, out : [c EXCEPT !.pc = step, !.out = out].kind = c.kind
        /\ Idle.kind # "data"
    BY <1>1 DEF IsDispatch, Idle
  <2> HIDE DEF c
  <2>2. CASE Settle(s)
    <3>1. \/ Go(s, Idle)
          \/ \E out : Go(s, [c EXCEPT !.pc = "check", !.out = out])
      BY <2>2 DEF Settle, Exit, c
    <3> QED
      BY <1>1, <2>1, <3>1
  <2>3. CASE Replace(s)
    <3>1. Go(s, [c EXCEPT !.pc = "create", !.own = peer])
      BY <2>3 DEF Replace, c
    <3> QED
      BY <1>1, <2>1, <3>1
  <2>4. CASE Adopt(s)
    <3>1. \E step : Go(s, [c EXCEPT !.own = peer, !.pc = step])
      BY <2>4 DEF Adopt, c
    <3> QED
      BY <1>1, <2>1, <3>1
  <2> QED
    BY <2>2, <2>3, <2>4
<1>3. Harmless(peer, c, d)
  BY <1>1, <1>2 DEF Harmless, IsMine
<1>4. CASE peer' = peer /\ receive' = receive /\ life' = life /\ isJoined' = isJoined
  BY <1>2, <1>3, <1>4, OtherPasses
<1>5. CASE Exit(s) /\ RemovePeer(c.own)
  BY <1>5, EndPasses
<1> QED
  BY <1>4, <1>5 DEF Settle, Replace, Adopt, KeepPeer

\* A new peer begins with nothing, unless an abandoned dispatch makes it.
LEMMA CreateFlows ==
  ASSUME DataInv, NEW s \in Slots, Create(s)
  PROVE  FlowInv'
<1> DEFINE g == opened + 1
           d == dispatch'["active"]
<1>1. opened \in Generations /\ opened' \in Generations /\ opened' # 1
  BY CreateFits, GenerationOf DEF DataInv, IInv
<1>2. /\ peer' = g /\ opened' = g /\ receive' = Fresh /\ isJoined' = FALSE
      /\ life' = [Unborn EXCEPT !.isTainted = s = "abandoned"] /\ dispatch[s].pc = "create"
  BY DEF Create
<1>3. CASE s = "abandoned"
  <2>1. life'.isTainted
    BY <1>2, <1>3 DEF Unborn
  <2> QED
    BY <2>1, FlowEnds
<1>4. CASE s = "active"
  <2>1. dispatch[s].kind # "data"
    BY <1>2 DEF DataInv, DispatchInv, DispatchFits, DataSteps
  <2>2. IsDispatch(dispatch[s])
    BY DEF DataInv, IInv, TypeInv
  <2>3. d = [dispatch[s] EXCEPT !.pc = "adopt"]
    BY <1>4, SlotGoes DEF Create, To, DataInv, IInv
  <2>4. d.kind # "data"
    BY <2>1, <2>2, <2>3 DEF IsDispatch
  <2> HIDE DEF d
  <2>5. /\ ~IsMine(g, d) /\ Coming(g, d) = <<>> /\ Preparing(g, d) = {} /\ Answering(g, d) = {}
    BY <2>4 DEF IsMine, Coming, Preparing, Answering
  <2>6. /\ life'.delivered = <<>> /\ life'.acked = {} /\ life'.delivered \o Coming(g, d) = <<>>
        /\ life'.delivered \in Seq(PacketsOf(g))
    BY <1>2, <2>5 DEF Unborn
  <2>7. /\ IsStream(PacketsOf(g), Base(g), First(g), <<>>, Fresh) /\ FirstNumber[g] = 0
        /\ g \in Generations
    BY <1>1, <1>2, FreshStream
  <2> HIDE DEF g
  <2>8. /\ Fresh.next = 0 /\ Fresh.future = {} /\ Fresh.seen = {}
    BY DEF Fresh
  <2>9. /\ Len(Traffic[g]) \in Nat /\ PlaceOf(g, 0) = 0
    BY <2>7, TrafficIs, ForwardIs, NumbersAre DEF PlaceOf
  <2>10. InWindow(g, Fresh) /\ \A k \in Datagrams(g) : ~HasCome(g, Fresh, k)
    <3>1. InWindow(g, Fresh)
      BY <2>8, <2>9 DEF InWindow
    <3>2. ASSUME NEW k \in Datagrams(g)
          PROVE  ~HasCome(g, Fresh, k)
      <4>1. k \in Nat /\ 1 <= k
        BY <2>7, DatagramIs
      <4> QED
        BY <2>8, <2>9, <4>1 DEF HasCome
    <3> QED
      BY <3>1, <3>2
  <2>11. AllCame(g, d, Fresh, {})
    BY <2>5, <2>10 DEF AllCame
  <2>12. KeepsAll(g, <<>>, Fresh, {}, {})
    BY <2>8, <2>10 DEF KeepsAll, Recent, NothingLost
  <2>13. Flow(g, d, Fresh, life', isJoined')
    BY <2>5, <2>6, <2>7, <2>11, <2>12 DEF Flow
  <2> QED
    BY <1>2, <2>13 DEF FlowInv, d, g
<1> QED
  BY <1>3, <1>4 DEF Slots

LEMMA AbandonFlows ==
  ASSUME DataInv, FlowInv, NEW g, Abandon(g), g = peer \/ g = dispatch["active"].captured
  PROVE  FlowInv'
<1> DEFINE c == dispatch["active"]
<1>1. dispatch'["active"] = Idle /\ RemovePeer(g)
  BY DEF Abandon, RemoveUnguarded
<1>2. IsMine(peer, c) => c.captured = peer
  BY DEF DataInv, DispatchInv, DispatchFits, Slots, IsMine
<1>3. ~IsMine(peer, c) => Harmless(peer, c, Idle)
  BY IdleIsOther DEF Harmless
<1> HIDE DEF c
<1> QED
  BY <1>1, <1>2, <1>3, RemovalPasses DEF c

LEMMA WaitingFlows ==
  ASSUME DataInv, FlowInv, \/ GiveUp \/ Sweep \/ FallSilent
                           \/ \E p \in outbound.pending : Elapse(p)
  PROVE  FlowInv'
<1>1. dispatch'["active"] = dispatch["active"]
  <2>1. CASE GiveUp
    BY <2>1, SlotGoes DEF GiveUp, Exit, Slots, DataInv, IInv
  <2>2. CASE \/ Sweep \/ FallSilent \/ \E p \in outbound.pending : Elapse(p)
    BY <2>2 DEF Sweep, Collect, Retransmit, Send, RemoveUnsent, Expire, FallSilent, Elapse, KeepDispatch
  <2> QED
    BY <2>1, <2>2
<1>2. \/ \E g : RemovePeer(g)
      \/ peer' = peer /\ receive' = receive /\ life' = life /\ isJoined' = isJoined
  BY DEF GiveUp, Sweep, Collect, Retransmit, Send, RemoveUnsent, Expire, FallSilent, Elapse,
         RemoveUnguarded, KeepPeer
<1>3. CASE \E g : RemovePeer(g)
  BY <1>1, <1>3, RemovalPasses
<1>4. CASE peer' = peer /\ receive' = receive /\ life' = life /\ isJoined' = isJoined
  BY <1>1, <1>4, FlowPasses
<1> QED
  BY <1>2, <1>3, <1>4

LEMMA NextFlows ==
  ASSUME DataInv, FlowInv, [Next]_vars
  PROVE  FlowInv'
<1>1. CASE UNCHANGED vars
  <2>1. peer' = peer /\ receive' = receive /\ life' = life /\ isJoined' = isJoined /\ dispatch' = dispatch
    BY <1>1 DEF vars
  <2> QED
    BY <2>1, FlowPasses
<1>2. CASE Environment
  <2>1. QueueFull => Abandon(peer)
    BY DEF QueueFull
  <2> QED
    BY <1>2, <2>1, ReceiveFlows, AbandonFlows, WaitingFlows DEF Environment
<1>3. CASE DispatchTimeout
  BY <1>3, AbandonFlows DEF DispatchTimeout
<1>4. CASE \/ GiveUp \/ Sweep \/ \E p \in outbound.pending : Elapse(p)
  BY <1>4, WaitingFlows
<1>5. ASSUME NEW s \in Slots, Step(s) \/ Handle(s)
      PROVE  FlowInv'
  <2>1. CASE Fail(s)
    BY <2>1, EndPasses DEF Fail, RemoveUnguarded
  <2> QED
    BY <1>5, <2>1, LockFlows, AcceptFlows, PrepareFlows, HandleFlows, HandledFlows, EncodeFlows,
       WriteFlows, OtherFlows, CreateFlows DEF Step
<1> QED
  BY <1>1, <1>2, <1>3, <1>4, <1>5 DEF Next

LEMMA InitFlows == Init => FlowInv
<1> SUFFICES ASSUME Init PROVE FlowInv
  OBVIOUS
<1> SUFFICES Flow(1, Idle, Start, Unborn, TRUE)
  <2>1. dispatch = [s \in Slots |-> Idle] /\ peer = 1 /\ receive = Start /\ life = Unborn
    BY DEF Init
  <2>2. dispatch["active"] = Idle
    BY <2>1 DEF Slots
  <2>3. isJoined
    BY DEF Init
  <2> QED
    BY <2>1, <2>2, <2>3 DEF FlowInv, Flow
<1>1. /\ ~IsMine(1, Idle) /\ Coming(1, Idle) = <<>> /\ Preparing(1, Idle) = {}
      /\ Answering(1, Idle) = {}
  BY IdleIsOther DEF Coming, Preparing, Answering
<1>2. /\ Unborn.delivered = <<>> /\ Unborn.acked = {} /\ Unborn.delivered \o <<>> = <<>>
      /\ Unborn.delivered \in Seq(PacketsOf(1))
  BY DEF Unborn
<1>3. 1 \in Generations
  BY GenerationsAre
<1>4. /\ Len(Traffic[1]) \in Nat /\ PlaceOf(1, Start.next) = 0 /\ Start.future = {}
  BY <1>3, StartIs, TrafficIs, ForwardIs, NumbersAre DEF PlaceOf
<1>5. InWindow(1, Start)
  BY <1>4 DEF InWindow
<1>6. ASSUME NEW k \in Datagrams(1)
      PROVE  ~HasCome(1, Start, k)
  <2>1. k \in Nat /\ 1 <= k
    BY <1>3, DatagramIs
  <2> QED
    BY <1>4, <2>1 DEF HasCome
<1>7. Recent(Base(1), Places(1, {}), Start)
  BY StartStream DEF Recent, Places
<1>8. NothingLost(PacketsOf(1), <<>>, Start)
  <2>1. ASSUME NEW q \in PacketsOf(1), MustKeep(q), q.message \in Start.seen
        PROVE  FALSE
    <3>1. IsReliable(q)
      BY <2>1 DEF MustKeep, IsReliable
    <3>2. Forward(Base(1), q.message) \in 1 .. Half - 1
      BY <1>3, <3>1, TrafficSends, SendsIs
    <3> QED
      BY <2>1, <3>2, StartStream
  <2> QED
    BY <2>1 DEF NothingLost
<1>9. AllCame(1, Idle, Start, {}) /\ KeepsAll(1, <<>>, Start, {}, {})
  BY <1>1, <1>5, <1>6, <1>7, <1>8 DEF AllCame, KeepsAll
<1> QED
  BY <1>1, <1>2, <1>9, StartStream DEF Flow

LEMMA FlowInvariance == Spec => [](DataInv /\ FlowInv)
<1>1. Init => DataInv /\ FlowInv
  BY InitData, InitFlows
<1>2. DataInv /\ FlowInv /\ [Next]_vars => (DataInv /\ FlowInv)'
  BY NextData, NextFlows
<1> QED
  BY <1>1, <1>2, PTL DEF Spec

-----------------------------------------------------------------------------
(***************************************************************************)
(* InOrder.                                                                *)
(***************************************************************************)
\* The first packets of a line are in order as the line is.
LEMMA PrefixInOrder ==
  ASSUME NEW S, NEW T, NEW got \in Seq(S), NEW rest \in Seq(T), NEW line, line = got \o rest
  PROVE  /\ ReliableOnce(line) => ReliableOnce(got)
         /\ \A kinds, c :
              LET before == PlacesOf(got, kinds, c)
                  all == PlacesOf(line, kinds, c)
              IN  /\ before \subseteq all /\ \A i \in before : got[i] = line[i]
                  /\ \A i \in before : (\A j \in before : i <= j) => \A j \in all : i <= j
                  /\ \A i, j \in before : Follows(i, j, before) => Follows(i, j, all)
<1> DEFINE n == Len(got)
<1>1. /\ n \in Nat /\ DOMAIN got = 1 .. n /\ Len(rest) \in Nat
      /\ DOMAIN line = 1 .. n + Len(rest)
      /\ \A i \in 1 .. n : got[i] = line[i]
  OBVIOUS
<1> HIDE DEF n
<1>2. DOMAIN got \subseteq DOMAIN line
  BY <1>1
<1>3. ReliableOnce(line) => ReliableOnce(got)
  BY <1>1, <1>2 DEF ReliableOnce
<1>4. ASSUME NEW kinds, NEW c
      PROVE  LET before == PlacesOf(got, kinds, c)
                 all == PlacesOf(line, kinds, c)
             IN  /\ before \subseteq all /\ \A i \in before : got[i] = line[i]
                 /\ \A i \in before : (\A j \in before : i <= j) => \A j \in all : i <= j
                 /\ \A i, j \in before : Follows(i, j, before) => Follows(i, j, all)
  <2> DEFINE before == PlacesOf(got, kinds, c)
             all == PlacesOf(line, kinds, c)
  <2>1. /\ before \subseteq 1 .. n /\ before \subseteq all /\ all \subseteq Nat
        /\ \A j \in all : j \in before \/ j > n
        /\ \A i \in before : got[i] = line[i]
    BY <1>1, <1>2 DEF PlacesOf
  <2> HIDE DEF before, all
  <2>2. \A i \in before, j \in all : j > n => i <= j
    BY <1>1, <2>1
  <2>3. \A i, j \in before : Follows(i, j, before) => Follows(i, j, all)
    BY <2>1, <2>2 DEF Follows
  <2> QED
    BY <2>1, <2>2, <2>3 DEF before, all
<1> QED
  BY <1>3, <1>4

LEMMA FlowIsInOrder == DataInv /\ FlowInv => InOrder
<1> SUFFICES ASSUME DataInv, FlowInv, peer # None, ~life.isTainted
             PROVE  LET got == life.delivered
                    IN  /\ \A i, j \in DOMAIN got : i < j /\ IsReliable(got[i]) => got[i].name # got[j].name
                        /\ \A c \in {0, 1} :
                             LET ordered == PlacesOf(got, {"ordered"}, c)
                                 sequenced == PlacesOf(got, {"sequenced", "reliableSequenced"}, c)
                             IN  /\ \A i \in ordered : (\A j \in ordered : i <= j)
                                                         => got[i].order = FirstOrder(peer, c)
                                 /\ \A i, j \in ordered :
                                      Follows(i, j, ordered) => got[j].order = Advance(got[i].order, 1)
                                 /\ \A i, j \in sequenced :
                                      Follows(i, j, sequenced)
                                        => Forward(got[i].order, got[j].order) \in 1 .. Half - 1
  BY DEF InOrder
<1> DEFINE got == life.delivered
           rest == Coming(peer, dispatch["active"])
           line == got \o rest
           S == PacketsOf(peer)
<1>1. /\ got \in Seq(S) /\ IsLine(S, First(peer), line, receive.order, receive.sequenced)
  BY DEF FlowInv, Flow, IsStream
<1>2. rest \in Seq(AllPackets)
  BY DEF Coming, DataInv, DispatchInv, DispatchFits, Slots
<1> HIDE DEF got, rest, line, S
<1>3. ReliableOnce(got)
  BY <1>1, <1>2, PrefixInOrder DEF IsLine, line
<1>4. ASSUME NEW c \in {0, 1}
      PROVE  LET ordered == PlacesOf(got, {"ordered"}, c)
                 sequenced == PlacesOf(got, {"sequenced", "reliableSequenced"}, c)
             IN  /\ \A i \in ordered : (\A j \in ordered : i <= j) => got[i].order = FirstOrder(peer, c)
                 /\ \A i, j \in ordered :
                      Follows(i, j, ordered) => got[j].order = Advance(got[i].order, 1)
                 /\ \A i, j \in sequenced :
                      Follows(i, j, sequenced) => Forward(got[i].order, got[j].order) \in 1 .. Half - 1
  <2>1. /\ OrderedSoFar(S, First(peer)[c], line, c, receive.order[c])
        /\ SequencedSoFar(line, c, receive.sequenced[c])
        /\ First(peer)[c] = FirstOrder(peer, c)
    BY <1>1 DEF IsLine, First
  <2> DEFINE Before(kinds) == PlacesOf(got, kinds, c)
             All(kinds) == PlacesOf(line, kinds, c)
  <2>2. ASSUME NEW kinds
        PROVE  /\ Before(kinds) \subseteq All(kinds) /\ \A i \in Before(kinds) : got[i] = line[i]
               /\ \A i \in Before(kinds) : (\A j \in Before(kinds) : i <= j)
                                             => \A j \in All(kinds) : i <= j
               /\ \A i, j \in Before(kinds) : Follows(i, j, Before(kinds)) => Follows(i, j, All(kinds))
    BY <1>1, <1>2, PrefixInOrder DEF line
  <2> DEFINE ordered == PlacesOf(got, {"ordered"}, c)
             sequenced == PlacesOf(got, {"sequenced", "reliableSequenced"}, c)
             allOrdered == PlacesOf(line, {"ordered"}, c)
             allSequenced == PlacesOf(line, {"sequenced", "reliableSequenced"}, c)
  <2>3. /\ ordered \subseteq allOrdered /\ \A i \in ordered : got[i] = line[i]
        /\ \A i \in ordered : (\A j \in ordered : i <= j) => \A j \in allOrdered : i <= j
        /\ \A i, j \in ordered : Follows(i, j, ordered) => Follows(i, j, allOrdered)
    BY <2>2
  <2>4. /\ sequenced \subseteq allSequenced /\ \A i \in sequenced : got[i] = line[i]
        /\ \A i, j \in sequenced : Follows(i, j, sequenced) => Follows(i, j, allSequenced)
    BY <2>2
  <2>5. /\ \A i \in allOrdered : (\A j \in allOrdered : i <= j) => line[i].order = FirstOrder(peer, c)
        /\ \A i, j \in allOrdered :
             Follows(i, j, allOrdered) => line[j].order = Advance(line[i].order, 1)
        /\ \A i, j \in allSequenced :
             Follows(i, j, allSequenced) => Forward(line[i].order, line[j].order) \in 1 .. Half - 1
    BY <2>1 DEF OrderedSoFar, SequencedSoFar
  <2> HIDE DEF ordered, sequenced, allOrdered, allSequenced
  <2>6. /\ \A i \in ordered : (\A j \in ordered : i <= j) => got[i].order = FirstOrder(peer, c)
        /\ \A i, j \in ordered :
             Follows(i, j, ordered) => got[j].order = Advance(got[i].order, 1)
        /\ \A i, j \in sequenced :
             Follows(i, j, sequenced) => Forward(got[i].order, got[j].order) \in 1 .. Half - 1
    BY <2>3, <2>4, <2>5
  <2> QED
    BY <2>6 DEF ordered, sequenced
<1> QED
  BY <1>3, <1>4 DEF ReliableOnce, got

(***************************************************************************)
(* InOrder: with any number of connections and windows of any size, for    *)
(* whatever the client sends and however its datagrams come, the handler   *)
(* gets reliable packets once and ordered ones without a gap, as long as   *)
(* no dispatch of another connection touched the one that is registered.   *)
(***************************************************************************)
THEOREM HandedInOrder == Spec => []InOrder
BY FlowInvariance, FlowIsInOrder, PTL

-----------------------------------------------------------------------------
(***************************************************************************)
(* AckedNotLost.                                                           *)
(***************************************************************************)
LEMMA FlowLosesNothing == DataInv /\ FlowInv => AckedNotLost
<1> SUFFICES ASSUME DataInv, FlowInv, peer # None, ~life.isTainted, ~life.isLapsed, ~IsFailing,
                    NEW k \in life.acked, NEW i \in DOMAIN Traffic[peer][k],
                    Traffic[peer][k][i].kind \in {"ordered", "reliable"}
             PROVE  LET p == Traffic[peer][k][i]
                    IN  \/ \E j \in DOMAIN life.delivered : life.delivered[j].name = p.name
                        \/ \E s \in Slots : \E j \in DOMAIN dispatch[s].ready :
                             dispatch[s].own = peer /\ dispatch[s].ready[j].name = p.name
                        \/ \E w \in receive.waiting : w.name = p.name
                        \/ \E a \in receive.splits : a.name = p.name /\ p.part \in a.came
  BY DEF AckedNotLost
<1> DEFINE c == dispatch["active"]
           got == life.delivered
           rest == Coming(peer, c)
           line == got \o rest
           p == Traffic[peer][k][i]
<1>1. Flow(peer, c, receive, life, isJoined)
  BY DEF FlowInv
<1>2. ~HasFailed(peer, c)
  BY DEF HasFailed, IsMine, IsFailing, Slots
<1>3. AllCame(peer, c, receive, life.acked) /\ KeepsAll(peer, line, receive, life.acked, Preparing(peer, c))
  BY <1>1, <1>2 DEF Flow
<1>4. k \in Datagrams(peer) /\ HasCome(peer, receive, k) /\ k \notin Preparing(peer, c)
  BY <1>3 DEF AllCame
<1>5. Kept(line, receive, p)
  BY <1>3, <1>4 DEF KeepsAll, AllKept, MustKeep
<1>6. got \in Seq(PacketsOf(peer)) /\ rest \in Seq(AllPackets)
  BY <1>1 DEF Flow, Coming, DataInv, DispatchInv, DispatchFits, Slots
<1>7. ASSUME NEW j \in DOMAIN line, line[j].name = p.name
      PROVE  \/ \E n \in DOMAIN got : got[n].name = p.name
             \/ \E s \in Slots : \E n \in DOMAIN dispatch[s].ready :
                             dispatch[s].own = peer /\ dispatch[s].ready[n].name = p.name
  <2> HIDE DEF got, rest, p
  <2>1. \/ j \in DOMAIN got /\ line[j] = got[j]
        \/ \E n \in DOMAIN rest : line[j] = rest[n]
    <3>1. /\ Len(got) \in Nat /\ Len(rest) \in Nat /\ DOMAIN got = 1 .. Len(got)
          /\ DOMAIN rest = 1 .. Len(rest) /\ DOMAIN line = 1 .. Len(got) + Len(rest)
          /\ \A n \in 1 .. Len(got) + Len(rest) :
               line[n] = IF n <= Len(got) THEN got[n] ELSE rest[n - Len(got)]
      BY <1>6
    <3>2. CASE j <= Len(got)
      BY <3>1, <3>2
    <3>3. CASE ~ (j <= Len(got))
      <4>1. j - Len(got) \in DOMAIN rest /\ line[j] = rest[j - Len(got)]
        BY <3>1, <3>3
      <4> QED
        BY <4>1
    <3> QED
      BY <3>2, <3>3
  <2>2. ASSUME NEW n \in DOMAIN rest
        PROVE  dispatch["active"].own = peer /\ rest = dispatch["active"].ready
    BY DEF rest, Coming, IsMine
  <2> QED
    BY <1>7, <2>1, <2>2 DEF Slots
<1>8. CASE p.name \in NamesIn(line)
  BY <1>7, <1>8 DEF NamesIn
<1>9. CASE p.name \in WaitingNames(receive)
  BY <1>9 DEF WaitingNames
<1>10. CASE <<p.name, p.part>> \in PartsOf(receive.splits)
  BY <1>10, InParts
<1> QED
  BY <1>5, <1>8, <1>9, <1>10 DEF Kept, Within

(***************************************************************************)
(* AckedNotLost: with any number of connections and windows of any size,   *)
(* for whatever a client sends that does not run further ahead of what was *)
(* acknowledged than the windows allow, and however its datagrams come, no *)
(* reliable packet of an acknowledged datagram is lost but by a dispatch   *)
(* that ends the connection.                                               *)
(***************************************************************************)
THEOREM NothingAckedIsLost == Spec => []AckedNotLost
BY FlowInvariance, FlowLosesNothing, PTL
=============================================================================
