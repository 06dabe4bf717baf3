---------------------------- MODULE MCTransport ----------------------------
(***************************************************************************)
(* Three connections of one address, for open requests that overtake one   *)
(* another.  The first is met after eight datagrams, with its next numbers *)
(* one or two before they wrap around; the third sends nothing.            *)
(***************************************************************************)
EXTENDS Transport

Packet(name, kind, message, order, channel, part, parts, isAsking) ==
  [name |-> name, kind |-> kind, message |-> message % Modulus, order |-> order % Modulus,
   channel |-> channel, part |-> part, parts |-> parts, isAsking |-> isAsking]

Ask == Packet("ask", "ordered", 9, 9, 0, 0, 1, TRUE)
Half1 == Packet("split", "ordered", 10, 10, 0, 0, 2, FALSE)
Half2 == Packet("split", "ordered", 11, 10, 0, 1, 2, FALSE)
Closing == Packet("closing", "ordered", 12, 11, 0, 0, 1, TRUE)
Old == Packet("old", "sequenced", 0, 9, 1, 0, 1, FALSE)
New == Packet("new", "sequenced", 0, 10, 1, 0, 1, FALSE)
Hello == Packet("hello", "ordered", 0, 0, 0, 0, 1, TRUE)

\* The last datagram sends a packet of the first again.
MCTraffic == << << <<Ask, Old>>, <<Half1>>, <<Half2, Closing>>, <<Ask, New>> >>,
                << <<Hello>> >>,
                <<>> >>
MCMaxCopies == << <<2, 1, 1, 1>>, <<1>>, <<>> >>
MCFirstNumber == <<8, 0, 0>>
MCFirstMessage == <<9, 0, 0>>
MCStart == [Fresh EXCEPT !.next = 8, !.seen = {6, 7, 8}, !.latest = 8, !.order[0] = 9]
=============================================================================
