--------------------------- MODULE ReceiveWindow ---------------------------
(***************************************************************************)
(* What a RakNet peer keeps of the datagrams that came in                  *)
(* (raknet/receive.go): the window of datagram numbers with the gaps in    *)
(* it, the messages seen, the ordered packets that wait for an earlier     *)
(* one, the latest sequenced packet and the split packets being put        *)
(* together.  Numbers wrap around at Modulus, which is 2^24 in the code.     *)
(*                                                                         *)
(* A packet is a record: its name, its kind, its message number, order     *)
(* index and channel, and the part of a split packet that it is.           *)
(***************************************************************************)
EXTENDS Integers, Sequences, FiniteSets

CONSTANTS
  Modulus,           \* how many datagram, message and order numbers there are
  MaxGap,          \* maxIncomingDatagramGap
  ReliableWindow,  \* reliableReceiveWindow
  MaxOrderGap,     \* maxOrderedPacketGap
  MaxWaiting,      \* maxPendingOrderPacket
  MaxSplits,       \* maxPendingSplit
  MaxParts         \* maxPendingSplitBytes, in parts

ASSUME WindowsFit ==
  /\ {Modulus, MaxGap, ReliableWindow, MaxOrderGap, MaxWaiting, MaxSplits, MaxParts}
       \subseteq Nat \ {0}
  /\ MaxGap < Modulus \div 2 /\ MaxOrderGap < Modulus \div 2
  /\ ReliableWindow <= Modulus \div 2

Half == Modulus \div 2
Numbers == 0 .. Modulus - 1
Unseen == -1
Forward(from, to) == (to - from) % Modulus
Advance(index, count) == (index + count) % Modulus

\* How many of the numbers from from on are in taken, up to the first that is not.
RunLength(from, taken) ==
  CHOOSE n \in 0 .. Modulus : /\ n = Modulus \/ Advance(from, n) \notin taken
                             /\ \A i \in 0 .. n - 1 : Advance(from, i) \in taken

Between(from, to) == {Advance(from, i) : i \in 0 .. Forward(from, to) - 1}

Fresh ==
  [next |-> 0, future |-> {}, missing |-> {}, seen |-> {}, latest |-> 0,
   order |-> [c \in {0, 1} |-> 0], waiting |-> {},
   sequenced |-> [c \in {0, 1} |-> Unseen], splits |-> {}]

-----------------------------------------------------------------------------
(***************************************************************************)
(* Datagrams.                                                              *)
(***************************************************************************)
Advanced(r) ==
  LET count == RunLength(r.next, r.future)
      passed == {Advance(r.next, i) : i \in 0 .. count - 1}
  IN  [r EXCEPT !.next = Advance(@, count), !.future = @ \ passed, !.missing = @ \ passed]

AcceptExpected(r) ==
  Advanced([r EXCEPT !.missing = @ \ {r.next}, !.next = Advance(@, 1)])

Slide(r, sequence) ==
  LET next == (sequence - MaxGap) % Modulus
      Within(S) == {i \in S : Forward(next, i) < MaxGap}
  IN  Advanced([r EXCEPT !.next = next, !.future = Within(@), !.missing = Within(@)])

AcceptAhead(r, sequence) ==
  [r EXCEPT !.future = @ \union {sequence},
            !.missing = ((@ \ {sequence}) \union Between(r.next, sequence)) \ r.future]

\* The state after a datagram number, and whether the datagram is processed.
AcceptDatagram(r, sequence) ==
  LET distance == Forward(r.next, sequence)
      isFar == distance > MaxGap
      w == IF isFar THEN Slide(r, sequence) ELSE r
      Answer(s, isAccepted) == [receive |-> s, isAccepted |-> isAccepted]
  IN  CASE distance >= Half -> Answer(r, FALSE)
        [] distance < Half /\ sequence = w.next -> Answer(AcceptExpected(w), TRUE)
        [] distance < Half /\ sequence \in w.future \ {w.next} -> Answer(w, FALSE)
        [] OTHER -> Answer(AcceptAhead(w, sequence), TRUE)

-----------------------------------------------------------------------------
(***************************************************************************)
(* Packets.  Each operator gives the state after the packet, the packets   *)
(* that are ready for the application, and whether it was refused.         *)
(***************************************************************************)
Outcome(r, ready) == [receive |-> r, ready |-> ready, isRefused |-> FALSE]
Refusal(r) == [receive |-> r, ready |-> <<>>, isRefused |-> TRUE]

IsReliable(p) == p.kind \in {"ordered", "reliableSequenced", "reliable"}

\* What a packet is, and what the packets of one client have in common: a message
\* is one packet, the parts of a split packet have its name, and an ordered packet
\* has an index of its own.
IsPacket(p) ==
  /\ p \in [name : {p.name}, kind : {"unreliable", "reliable", "ordered", "sequenced", "reliableSequenced"},
            message : Numbers, order : Numbers, channel : {0, 1},
            part : Nat, parts : Nat, isAsking : BOOLEAN]
  /\ p.part < p.parts

AreOfOneClient(p, q) ==
  /\ p.name = q.name => p.kind = q.kind /\ p.channel = q.channel /\ p.order = q.order /\ p.parts = q.parts
  /\ p.name = q.name /\ p.part = q.part => p = q
  /\ IsReliable(p) /\ IsReliable(q) /\ p.message = q.message => p = q
  /\ p.kind = "ordered" /\ q.kind = "ordered" /\ p.channel = q.channel /\ p.order = q.order
       => p.name = q.name

IsNewMessage(r, message) ==
  \/ r.seen = {}
  \/ /\ message \notin r.seen
     /\ \/ Forward(r.latest, message) \in 1 .. Half - 1
        \/ Forward(message, r.latest) < ReliableWindow

SawMessage(r, message) ==
  IF r.seen = {} \/ Forward(r.latest, message) \in 1 .. Half - 1
  THEN [r EXCEPT !.latest = message,
          !.seen = {i \in @ : Forward(i, message) < ReliableWindow} \union {message}]
  ELSE [r EXCEPT !.seen = @ \union {message}]

\* The packets of a channel that wait for their turn, and their order indexes.
WaitingOn(r, channel) == {w \in r.waiting : w.channel = channel}
WaitingFor(r, channel, order) == CHOOSE w \in WaitingOn(r, channel) : w.order = order

\* Bug variant: a packet ahead of its turn is handed over at once.
AcceptOrderedEagerly(r, p) ==
  IF Forward(r.order[p.channel], p.order) < Half
  THEN Outcome([r EXCEPT !.order[p.channel] = Advance(p.order, 1)], <<p>>)
  ELSE Outcome(r, <<>>)
AcceptOrdered(r, p) ==
  LET channel == p.channel
      expected == r.order[channel]
      distance == Forward(expected, p.order)
      indexes == {w.order : w \in WaitingOn(r, channel)}
      count == RunLength(Advance(expected, 1), indexes)
      released == [i \in 1 .. count |-> WaitingFor(r, channel, Advance(expected, i))]
      kept == r.waiting \ {released[i] : i \in 1 .. count}
  IN  CASE distance = 0 ->
             Outcome([r EXCEPT !.order[channel] = Advance(@, count + 1), !.waiting = kept],
                     <<p>> \o released)
        [] distance >= Half -> Outcome(r, <<>>)
        [] distance \in 1 .. Half - 1 /\ distance > MaxOrderGap -> Refusal(r)
        [] distance \in 1 .. MaxOrderGap /\ p.order \in indexes -> Outcome(r, <<>>)
        [] OTHER -> IF Cardinality(r.waiting) >= MaxWaiting
                    THEN Refusal(r)
                    ELSE Outcome([r EXCEPT !.waiting = @ \union {p}], <<>>)

AcceptSequenced(r, p) ==
  LET latest == r.sequenced[p.channel]
  IN  IF latest = Unseen \/ Forward(latest, p.order) \in 1 .. Half - 1
      THEN Outcome([r EXCEPT !.sequenced[p.channel] = p.order], <<p>>)
      ELSE Outcome(r, <<>>)

\* A whole packet goes where its kind says.
AcceptWhole(r, p) ==
  CASE p.kind = "ordered" -> AcceptOrdered(r, p)
    [] p.kind \in {"sequenced", "reliableSequenced"} -> AcceptSequenced(r, p)
    [] OTHER -> Outcome(r, <<p>>)

(***************************************************************************)
(* Split packets.  An assembly is the parts that came of one packet; the   *)
(* packet's name stands for the split ID and what its parts have in        *)
(* common.                                                                 *)
(***************************************************************************)
PartCount(r) == Cardinality(UNION {{a.name} \X a.came : a \in r.splits})

AcceptPart(r, p) ==
  LET open == {a \in r.splits : a.name = p.name}
      came == UNION {a.came : a \in open}
      rest == [r EXCEPT !.splits = @ \ open]
      Store(S) == [rest EXCEPT !.splits = @ \union {[name |-> p.name, came |-> S]}]
  IN  CASE open = {} /\ Cardinality(r.splits) >= MaxSplits -> Refusal(r)
        [] p.part \in came -> Outcome(r, <<>>)
        [] p.part \notin came /\ PartCount(r) >= MaxParts -> Refusal(rest)
        [] OTHER -> IF Cardinality(came) + 1 = p.parts
                    THEN AcceptWhole(rest, p)
                    ELSE Outcome(Store(came \union {p.part}), <<>>)

\* An assembly that nothing was added to for splitAssemblyLifetime is dropped.
ExpireSplits(r) == [r EXCEPT !.splits = {}]

\* A reliable packet is remembered before it is known whether it is refused.
AcceptPacket(r, p) ==
  LET s == IF IsReliable(p) THEN SawMessage(r, p.message) ELSE r
  IN  CASE IsReliable(p) /\ ~IsNewMessage(r, p.message) -> Outcome(r, <<>>)
        [] p.parts > 1 /\ (IsReliable(p) => IsNewMessage(r, p.message)) ->
             AcceptPart(s, p)
        [] OTHER -> AcceptWhole(s, p)

\* The packets of a datagram, in order, up to the first that is refused.
Prepare(r, packets) ==
  LET Prepared[n \in 0 .. Len(packets)] ==
        IF n = 0 THEN Outcome(r, <<>>)
        ELSE LET before == Prepared[n - 1]
                 next == AcceptPacket(before.receive, packets[n])
             IN  IF before.isRefused THEN before
                 ELSE [next EXCEPT !.ready = before.ready \o @]
  IN  Prepared[Len(packets)]

\* The places that packets of some kinds on a channel have in a sequence.
PlacesOf(line, kinds, channel) ==
  {i \in DOMAIN line : line[i].kind \in kinds /\ line[i].channel = channel}
Follows(i, j, places) == i < j /\ \A k \in places : k <= i \/ j <= k
=============================================================================
