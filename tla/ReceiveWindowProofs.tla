------------------------ MODULE ReceiveWindowProofs ------------------------
(***************************************************************************)
(* Lemmas about the receive windows: numbers that wrap around, the run of  *)
(* numbers that came early, the packets of a datagram one by one, and the  *)
(* type and the limits of what is kept, for windows of any size.           *)
(***************************************************************************)
EXTENDS ReceiveWindow, SequenceTheorems, FiniteSetTheorems, WellFoundedInduction, TLAPS

-----------------------------------------------------------------------------
(***************************************************************************)
(* Numbers.                                                                *)
(***************************************************************************)
LEMMA Sizes ==
  /\ Modulus \in Nat \ {0} /\ Half \in Nat /\ 2 * Half <= Modulus /\ Half < Modulus
  /\ MaxGap \in Nat \ {0} /\ MaxGap < Half /\ MaxOrderGap \in Nat \ {0} /\ MaxOrderGap < Half
  /\ ReliableWindow \in Nat \ {0} /\ ReliableWindow <= Half
  /\ {MaxWaiting, MaxSplits, MaxParts} \subseteq Nat \ {0}
BY WindowsFit DEF Half

LEMMA ModOf ==
  ASSUME NEW n \in Nat \ {0}, NEW x \in Int
  PROVE  /\ x % n \in 0 .. n - 1
         /\ 0 <= x /\ x < n => x % n = x
         /\ n <= x /\ x < n + n => x % n = x - n
         /\ -n <= x /\ x < 0 => x % n = x + n
OBVIOUS

LEMMA NumbersAre ==
  /\ Modulus \in Nat /\ 0 \in Numbers
  /\ \A n : n \in Numbers <=> n \in Nat /\ n < Modulus
BY Sizes DEF Numbers

LEMMA ForwardIs ==
  ASSUME NEW a \in Numbers, NEW b \in Numbers
  PROVE  /\ Forward(a, b) \in Numbers
         /\ Forward(a, b) = IF a <= b THEN b - a ELSE b - a + Modulus
<1>1. Modulus \in Nat \ {0} /\ b - a \in Int
  BY Sizes DEF Numbers
<1>2. -Modulus <= b - a /\ b - a < Modulus
  BY <1>1 DEF Numbers
<1>3. /\ (b - a) % Modulus \in 0 .. Modulus - 1
      /\ 0 <= b - a /\ b - a < Modulus => (b - a) % Modulus = b - a
      /\ -Modulus <= b - a /\ b - a < 0 => (b - a) % Modulus = b - a + Modulus
  BY <1>1, ModOf
<1>4. a \in Int /\ b \in Int
  BY <1>1 DEF Numbers
<1> QED
  BY <1>1, <1>2, <1>3, <1>4 DEF Forward, Numbers

LEMMA AdvanceIs ==
  ASSUME NEW a \in Numbers, NEW n \in Nat
  PROVE  /\ Advance(a, n) \in Numbers
         /\ n <= Modulus => Advance(a, n) = IF a + n < Modulus THEN a + n ELSE a + n - Modulus
<1>1. Modulus \in Nat \ {0} /\ a + n \in Int /\ 0 <= a + n
  BY Sizes DEF Numbers
<1>2. n <= Modulus => a + n < Modulus + Modulus
  BY <1>1 DEF Numbers
<1>3. PICK x \in Int : x = a + n
  BY <1>1
<1>5. /\ x % Modulus \in 0 .. Modulus - 1
      /\ 0 <= x /\ x < Modulus => x % Modulus = x
      /\ Modulus <= x /\ x < Modulus + Modulus => x % Modulus = x - Modulus
  BY <1>1, ModOf
<1>4. a \in Int
  BY <1>1 DEF Numbers
<1> QED
  BY <1>1, <1>2, <1>3, <1>4, <1>5 DEF Advance, Numbers

LEMMA AdvanceZero ==
  ASSUME NEW a \in Numbers
  PROVE  Advance(a, 0) = a
BY AdvanceIs, Sizes DEF Numbers

LEMMA AdvanceTwice ==
  ASSUME NEW a \in Numbers, NEW m \in Nat, NEW n \in Nat, m + n <= Modulus
  PROVE  Advance(Advance(a, m), n) = Advance(a, m + n)
<1>1. m <= Modulus /\ n <= Modulus /\ m + n \in Nat /\ Modulus \in Nat
  BY Sizes
<1>2. Advance(a, m) = IF a + m < Modulus THEN a + m ELSE a + m - Modulus
  BY <1>1, AdvanceIs
<1>3. Advance(a, m) \in Numbers
  BY AdvanceIs
<1>4. Advance(Advance(a, m), n) = IF Advance(a, m) + n < Modulus THEN Advance(a, m) + n
                                  ELSE Advance(a, m) + n - Modulus
  BY <1>1, <1>3, AdvanceIs
<1>5. Advance(a, m + n) = IF a + (m + n) < Modulus THEN a + (m + n) ELSE a + (m + n) - Modulus
  BY <1>1, AdvanceIs
<1> QED
  BY <1>1, <1>2, <1>4, <1>5 DEF Numbers

LEMMA ForwardAdvance ==
  ASSUME NEW a \in Numbers, NEW n \in Numbers
  PROVE  Forward(a, Advance(a, n)) = n
<1>1. n \in Nat /\ n < Modulus /\ Modulus \in Nat /\ a \in Nat /\ a < Modulus
  BY NumbersAre
<1>2. Advance(a, n) = IF a + n < Modulus THEN a + n ELSE a + n - Modulus
  BY <1>1, AdvanceIs
<1>3. Advance(a, n) \in Numbers
  BY <1>1, AdvanceIs
<1>4. Forward(a, Advance(a, n)) = IF a <= Advance(a, n) THEN Advance(a, n) - a
                                  ELSE Advance(a, n) - a + Modulus
  BY <1>3, ForwardIs
<1> QED
  BY <1>1, <1>2, <1>4

LEMMA AdvanceForward ==
  ASSUME NEW a \in Numbers, NEW b \in Numbers
  PROVE  Advance(a, Forward(a, b)) = b
<1>1. /\ Forward(a, b) \in Nat /\ Forward(a, b) <= Modulus /\ Modulus \in Nat
      /\ a \in Nat /\ a < Modulus /\ b \in Nat /\ b < Modulus
  BY NumbersAre, ForwardIs
<1>2. Forward(a, b) = IF a <= b THEN b - a ELSE b - a + Modulus
  BY ForwardIs
<1>3. Advance(a, Forward(a, b)) = IF a + Forward(a, b) < Modulus THEN a + Forward(a, b)
                                  ELSE a + Forward(a, b) - Modulus
  BY <1>1, AdvanceIs
<1> QED
  BY <1>1, <1>2, <1>3

\* The distance of two numbers from the places that they have after a third.
LEMMA ForwardOfPlaces ==
  ASSUME NEW base \in Numbers, NEW a \in Numbers, NEW b \in Numbers
  PROVE  Forward(a, b) = IF Forward(base, a) <= Forward(base, b)
                         THEN Forward(base, b) - Forward(base, a)
                         ELSE Forward(base, b) - Forward(base, a) + Modulus
<1>1. /\ Modulus \in Nat /\ base \in Nat /\ a \in Nat /\ b \in Nat
      /\ base < Modulus /\ a < Modulus /\ b < Modulus
  BY NumbersAre
<1>2. /\ Forward(a, b) = IF a <= b THEN b - a ELSE b - a + Modulus
      /\ Forward(base, a) = IF base <= a THEN a - base ELSE a - base + Modulus
      /\ Forward(base, b) = IF base <= b THEN b - base ELSE b - base + Modulus
  BY ForwardIs
<1> QED
  BY <1>1, <1>2

LEMMA SamePlace ==
  ASSUME NEW base \in Numbers, NEW a \in Numbers, NEW b \in Numbers,
         Forward(base, a) = Forward(base, b)
  PROVE  a = b
BY AdvanceForward

-----------------------------------------------------------------------------
(***************************************************************************)
(* Induction over an initial segment of the natural numbers.               *)
(***************************************************************************)
LEMMA Smallest ==
  ASSUME NEW T, T \subseteq Nat, T # {}
  PROVE  \E n \in T : \A m \in T : n <= m
<1> DEFINE Less == {ss \in Nat \X Nat : ss[1] < ss[2]}
<1>1. IsWellFoundedOn(Less, Nat)
  BY NatLessThanWellFounded DEF OpToRel
<1>2. T \in SUBSET Nat
  OBVIOUS
<1> HIDE DEF Less
<1>3. \E n \in T : \A m \in T : ~ (<<m, n>> \in Less)
  BY <1>1, <1>2, WFMin
<1> USE DEF Less
<1>4. PICK n \in T : \A m \in T : ~ (<<m, n>> \in Less)
  BY <1>3
<1>5. ASSUME NEW m \in T
      PROVE  n <= m
  <2>1. m \in Nat /\ n \in Nat
    OBVIOUS
  <2>2. ~ (m < n)
    BY <1>4, <2>1
  <2> QED
    BY <2>1, <2>2
<1> QED
  BY <1>5

LEMMA CountUp ==
  ASSUME NEW N \in Nat, NEW T, 0 \in T, \A n \in 1 .. N : n - 1 \in T => n \in T
  PROVE  0 .. N \subseteq T
<1> DEFINE Bad == (0 .. N) \ T
<1> SUFFICES ASSUME Bad # {} PROVE FALSE
  OBVIOUS
<1>0. Bad \subseteq Nat
  OBVIOUS
<1>1. PICK n \in Bad : \A m \in Bad : n <= m
  <2> HIDE DEF Bad
  <2> QED
    BY <1>0, Smallest
<1>2. n \in 1 .. N
  BY <1>1
<1>3. n - 1 \in 0 .. N /\ ~ (n <= n - 1)
  BY <1>2
<1>4. n - 1 \in T
  BY <1>1, <1>3
<1> QED
  BY <1>2, <1>4

LEMMA RunLengthIs ==
  ASSUME NEW from, NEW taken
  PROVE  LET n == RunLength(from, taken)
         IN  /\ n \in 0 .. Modulus
             /\ n = Modulus \/ Advance(from, n) \notin taken
             /\ \A i \in 0 .. n - 1 : Advance(from, i) \in taken
<1> DEFINE Free == {n \in 0 .. Modulus : n = Modulus \/ Advance(from, n) \notin taken}
<1>1. Free \subseteq Nat /\ Modulus \in Free
  BY Sizes
<1>2. PICK n \in Free : \A m \in Free : n <= m
  BY <1>1, Smallest
<1>3. \A i \in 0 .. n - 1 : i \in 0 .. Modulus /\ ~ (n <= i)
  BY <1>1, <1>2
<1>4. \A i \in 0 .. n - 1 : Advance(from, i) \in taken
  BY <1>2, <1>3
<1> QED
  BY <1>2, <1>4 DEF RunLength

-----------------------------------------------------------------------------
(***************************************************************************)
(* The packets of a datagram, one by one.                                  *)
(***************************************************************************)
Added(before, p) ==
  LET next == AcceptPacket(before.receive, p)
  IN  IF before.isRefused THEN before ELSE [next EXCEPT !.ready = before.ready \o @]

\* What is prepared after each packet.
IsPreparation(f, r, packets) ==
  /\ f[0] = Outcome(r, <<>>)
  /\ \A n \in 1 .. Len(packets) : f[n] = Added(f[n - 1], packets[n])

LEMMA PreparedInSteps ==
  ASSUME NEW r, NEW packets, Len(packets) \in Nat
  PROVE  \E f : IsPreparation(f, r, packets) /\ Prepare(r, packets) = f[Len(packets)]
<1> DEFINE N == Len(packets)
           Step(f, n) == IF n = 0 THEN Outcome(r, <<>>) ELSE Added(f[n - 1], packets[n])
           Upto(m) == \E f : f = [n \in 0 .. m |-> Step(f, n)]
           T == {m \in 0 .. N : Upto(m)}
<1>1. Upto(0)
  <2>1. PICK f : f = [n \in 0 .. 0 |-> Outcome(r, <<>>)]
    OBVIOUS
  <2>2. f = [n \in 0 .. 0 |-> Step(f, n)]
    BY <2>1
  <2> QED
    BY <2>2
<1>2. ASSUME NEW m \in 1 .. N, Upto(m - 1)
      PROVE  Upto(m)
  <2>1. PICK f : f = [n \in 0 .. m - 1 |-> Step(f, n)]
    BY <1>2
  <2>2. PICK h : h = [n \in 0 .. m |-> IF n < m THEN f[n] ELSE Added(f[m - 1], packets[m])]
    OBVIOUS
  <2>3. ASSUME NEW n \in 0 .. m
        PROVE  h[n] = Step(h, n)
    <3>1. CASE n = m
      BY <1>2, <2>2, <3>1
    <3>2. CASE n < m
      <4>1. h[n] = f[n] /\ f[n] = Step(f, n)
        BY <2>1, <2>2, <3>2
      <4>2. n # 0 => h[n - 1] = f[n - 1]
        BY <2>2, <3>2
      <4> QED
        BY <4>1, <4>2
    <3> QED
      BY <3>1, <3>2
  <2>4. h = [n \in 0 .. m |-> Step(h, n)]
    BY <2>2, <2>3
  <2> QED
    BY <2>4
<1>3. 0 .. N \subseteq T
  <2>1. N \in Nat /\ 0 \in T /\ \A n \in 1 .. N : n - 1 \in T => n \in T
    BY <1>1, <1>2
  <2> HIDE DEF T, N
  <2> QED
    BY <2>1, CountUp
<1>4. Upto(N)
  BY <1>3
<1> DEFINE Prepared == CHOOSE f : f = [n \in 0 .. N |-> Step(f, n)]
<1>5. Prepared = [n \in 0 .. N |-> Step(Prepared, n)]
  BY <1>4
<1>6. Prepare(r, packets) = Prepared[N]
  BY DEF Prepare, Added
<1>7. IsPreparation(Prepared, r, packets)
  <2>1. \A n \in 0 .. N : Prepared[n] = Step(Prepared, n)
    BY <1>5
  <2>2. \A n \in 1 .. N : n # 0 /\ n \in 0 .. N
    OBVIOUS
  <2> HIDE DEF Prepared
  <2> QED
    BY <2>1, <2>2 DEF IsPreparation
<1> QED
  BY <1>6, <1>7

-----------------------------------------------------------------------------
(***************************************************************************)
(* What is kept has its type and keeps its limits, whatever packets of S   *)
(* come.                                                                   *)
(***************************************************************************)
IsWindow(r) ==
  r = [f \in {"next", "future", "missing", "seen", "latest", "order", "waiting",
              "sequenced", "splits"} |-> r[f]]

\* The parts that came, with the names of their packets.
PartsOf(splits) == UNION {{a.name} \X a.came : a \in splits}

NumbersFit(r) ==
  /\ r.next \in Numbers /\ r.future \subseteq Numbers /\ r.missing \subseteq Numbers
  /\ r.seen \subseteq Numbers /\ r.latest \in Numbers
  /\ r.order \in [{0, 1} -> Numbers] /\ r.sequenced \in [{0, 1} -> Numbers \union {Unseen}]

WaitingFits(r, S) ==
  r.waiting \subseteq S /\ IsFiniteSet(r.waiting) /\ Cardinality(r.waiting) <= MaxWaiting

PartsFit(r) == IsFiniteSet(PartsOf(r.splits)) /\ Cardinality(PartsOf(r.splits)) <= MaxParts

WindowFits(r, S) == IsWindow(r) /\ NumbersFit(r) /\ WaitingFits(r, S) /\ PartsFit(r)

\* The datagram numbers of s are others than those of r, and nothing else is.
OnlyNumbers(r, s) ==
  /\ IsWindow(s) /\ s.seen = r.seen /\ s.latest = r.latest /\ s.order = r.order
  /\ s.waiting = r.waiting /\ s.sequenced = r.sequenced /\ s.splits = r.splits

LEMMA AdvancedIs ==
  ASSUME NEW r, IsWindow(r)
  PROVE  LET count == RunLength(r.next, r.future)
             passed == {Advance(r.next, i) : i \in 0 .. count - 1}
             s == Advanced(r)
         IN  /\ OnlyNumbers(r, s) /\ s.next = Advance(r.next, count)
             /\ s.future = r.future \ passed /\ s.missing = r.missing \ passed
BY DEF Advanced, OnlyNumbers, IsWindow

LEMMA AdvancedFits ==
  ASSUME NEW r, IsWindow(r), r.next \in Numbers, r.future \subseteq Numbers,
         r.missing \subseteq Numbers
  PROVE  LET s == Advanced(r)
         IN  s.next \in Numbers /\ s.future \subseteq Numbers /\ s.missing \subseteq Numbers
<1>1. RunLength(r.next, r.future) \in Nat
  BY RunLengthIs, Sizes
<1>2. Advance(r.next, RunLength(r.next, r.future)) \in Numbers
  BY <1>1, AdvanceIs
<1> QED
  BY <1>2, AdvancedIs

LEMMA AcceptExpectedIs ==
  ASSUME NEW r, IsWindow(r)
  PROVE  \E s : /\ OnlyNumbers(r, s) /\ s.next = Advance(r.next, 1)
                /\ s.future = r.future /\ s.missing = r.missing \ {r.next}
                /\ AcceptExpected(r) = Advanced(s)
BY DEF AcceptExpected, OnlyNumbers, IsWindow

LEMMA SlideIs ==
  ASSUME NEW r, IsWindow(r), NEW sequence
  PROVE  \E s : /\ OnlyNumbers(r, s) /\ s.next = (sequence - MaxGap) % Modulus
                /\ s.future \subseteq r.future /\ s.missing \subseteq r.missing
                /\ Slide(r, sequence) = Advanced(s)
<1> DEFINE Within(S) == {i \in S : Forward((sequence - MaxGap) % Modulus, i) < MaxGap}
           s == [r EXCEPT !.next = (sequence - MaxGap) % Modulus,
                          !.future = Within(@), !.missing = Within(@)]
<1>1. Slide(r, sequence) = Advanced(s)
  BY DEF Slide
<1>2. /\ OnlyNumbers(r, s) /\ s.next = (sequence - MaxGap) % Modulus
      /\ s.future \subseteq r.future /\ s.missing \subseteq r.missing
  BY DEF OnlyNumbers, IsWindow
<1> QED
  BY <1>1, <1>2

LEMMA BetweenIn ==
  ASSUME NEW a \in Numbers, NEW b
  PROVE  Between(a, b) \subseteq Numbers
<1>1. \A i \in 0 .. Forward(a, b) - 1 : i \in Nat
  OBVIOUS
<1> QED
  BY <1>1, AdvanceIs DEF Between

LEMMA AcceptAheadIs ==
  ASSUME NEW r, IsWindow(r), NEW sequence
  PROVE  LET s == AcceptAhead(r, sequence)
         IN  /\ OnlyNumbers(r, s) /\ s.next = r.next /\ s.future = r.future \union {sequence}
             /\ s.missing = ((r.missing \ {sequence}) \union Between(r.next, sequence)) \ r.future
BY DEF AcceptAhead, OnlyNumbers, IsWindow

LEMMA OnlyNumbersTwice ==
  ASSUME NEW r, NEW s, NEW t, OnlyNumbers(r, s), OnlyNumbers(s, t)
  PROVE  OnlyNumbers(r, t)
BY DEF OnlyNumbers

\* What comes of a datagram number.
LEMMA AcceptDatagramFits ==
  ASSUME NEW r, IsWindow(r), NumbersFit(r), NEW sequence \in Numbers
  PROVE  LET a == AcceptDatagram(r, sequence)
         IN  OnlyNumbers(r, a.receive) /\ NumbersFit(a.receive) /\ a.isAccepted \in BOOLEAN
<1> DEFINE distance == Forward(r.next, sequence)
           w == IF distance > MaxGap THEN Slide(r, sequence) ELSE r
           Good(s) == /\ OnlyNumbers(r, s) /\ s.next \in Numbers /\ s.future \subseteq Numbers
                      /\ s.missing \subseteq Numbers
           a == AcceptDatagram(r, sequence)
<1>1. Good(r)
  BY DEF NumbersFit, OnlyNumbers
<1>2. ASSUME NEW s, Good(s)
      PROVE  Good(Advanced(s)) /\ Good(AcceptExpected(s)) /\ Good(AcceptAhead(s, sequence))
  <2>1. IsWindow(s)
    BY <1>2 DEF OnlyNumbers
  <2>2. ASSUME NEW t, Good(t)
        PROVE  Good(Advanced(t))
    <3>1. IsWindow(t)
      BY <2>2 DEF OnlyNumbers
    <3> QED
      BY <2>2, <3>1, AdvancedIs, AdvancedFits, OnlyNumbersTwice
  <2>3. Good(AcceptExpected(s))
    <3>1. PICK t : /\ OnlyNumbers(s, t) /\ t.next = Advance(s.next, 1)
                   /\ t.future = s.future /\ t.missing = s.missing \ {s.next}
                   /\ AcceptExpected(s) = Advanced(t)
      BY <2>1, AcceptExpectedIs
    <3>2. Good(t)
      BY <1>2, <3>1, AdvanceIs, OnlyNumbersTwice
    <3> QED
      BY <2>2, <3>1, <3>2
  <2>4. Good(AcceptAhead(s, sequence))
    <3> DEFINE t == AcceptAhead(s, sequence)
    <3>1. /\ OnlyNumbers(s, t) /\ t.next = s.next /\ t.future = s.future \union {sequence}
          /\ t.missing = ((s.missing \ {sequence}) \union Between(s.next, sequence)) \ s.future
      BY <2>1, AcceptAheadIs
    <3>2. Between(s.next, sequence) \subseteq Numbers
      BY <1>2, BetweenIn
    <3> HIDE DEF t
    <3>3. OnlyNumbers(r, t)
      BY <1>2, <3>1, OnlyNumbersTwice
    <3>4. s.next \in Numbers /\ s.future \subseteq Numbers /\ s.missing \subseteq Numbers
      BY <1>2
    <3>5. t.next \in Numbers /\ t.future \subseteq Numbers /\ t.missing \subseteq Numbers
      BY <3>1, <3>2, <3>4
    <3> QED
      BY <3>3, <3>5 DEF t
  <2> QED
    BY <1>2, <2>2, <2>3, <2>4
<1>3. Good(w)
  <2>1. PICK s : /\ OnlyNumbers(r, s) /\ s.next = (sequence - MaxGap) % Modulus
                 /\ s.future \subseteq r.future /\ s.missing \subseteq r.missing
                 /\ Slide(r, sequence) = Advanced(s)
    BY SlideIs
  <2>2. (sequence - MaxGap) % Modulus \in Numbers
    <3>1. PICK x \in Int : x = sequence - MaxGap
      BY Sizes, NumbersAre
    <3> QED
      BY <3>1, Sizes, ModOf DEF Numbers
  <2>3. Good(s)
    BY <1>1, <2>1, <2>2
  <2> QED
    BY <1>1, <1>2, <2>1, <2>3
<1>4. \/ a = [receive |-> r, isAccepted |-> FALSE]
      \/ a = [receive |-> w, isAccepted |-> FALSE]
      \/ a = [receive |-> AcceptExpected(w), isAccepted |-> TRUE]
      \/ a = [receive |-> AcceptAhead(w, sequence), isAccepted |-> TRUE]
  <2>1. distance \in Int /\ Half \in Int
    BY ForwardIs, NumbersAre, Sizes DEF NumbersFit
  <2> HIDE DEF w, distance
  <2> QED
    BY <2>1 DEF AcceptDatagram, w, distance
<1>5. Good(a.receive) /\ a.isAccepted \in BOOLEAN
  <2>1. Good(AcceptExpected(w)) /\ Good(AcceptAhead(w, sequence))
    BY <1>2, <1>3
  <2>2. a.receive \in {r, w, AcceptExpected(w), AcceptAhead(w, sequence)}
    BY <1>4
  <2>3. a.isAccepted \in BOOLEAN
    <3>1. \A x : [receive |-> x, isAccepted |-> TRUE].isAccepted = TRUE
      OBVIOUS
    <3>2. \A x : [receive |-> x, isAccepted |-> FALSE].isAccepted = FALSE
      OBVIOUS
    <3> HIDE DEF a, w
    <3> QED
      BY <1>4, <3>1, <3>2, Zenon
  <2> HIDE DEF Good, w, a
  <2> QED
    BY <1>1, <1>3, <2>1, <2>2, <2>3
<1> QED
  BY <1>5 DEF NumbersFit, OnlyNumbers

-----------------------------------------------------------------------------
(***************************************************************************)
(* What becomes of the window with a packet, case by case.                 *)
(***************************************************************************)
\* All but the messages seen, the ordered packets, the sequenced ones and the
\* split ones is the same in s.
SameDatagrams(r, s) == IsWindow(s) /\ s.next = r.next /\ s.future = r.future /\ s.missing = r.missing
SameSeen(r, s) == s.seen = r.seen /\ s.latest = r.latest
SameOrdered(r, s) == s.order = r.order /\ s.waiting = r.waiting

OnlySeen(r, s) ==
  SameDatagrams(r, s) /\ SameOrdered(r, s) /\ s.sequenced = r.sequenced /\ s.splits = r.splits
OnlyOrdered(r, s) ==
  SameDatagrams(r, s) /\ SameSeen(r, s) /\ s.sequenced = r.sequenced /\ s.splits = r.splits
OnlySequenced(r, s) ==
  SameDatagrams(r, s) /\ SameSeen(r, s) /\ SameOrdered(r, s) /\ s.splits = r.splits
OnlySplits(r, s) ==
  SameDatagrams(r, s) /\ SameSeen(r, s) /\ SameOrdered(r, s) /\ s.sequenced = r.sequenced

LEMMA SawMessageIs ==
  ASSUME NEW r, IsWindow(r), NEW message
  PROVE  LET s == SawMessage(r, message)
             isNewest == r.seen = {} \/ Forward(r.latest, message) \in 1 .. Half - 1
         IN  /\ OnlySeen(r, s)
             /\ isNewest => /\ s.latest = message
                            /\ s.seen = {i \in r.seen : Forward(i, message) < ReliableWindow}
                                          \union {message}
             /\ ~isNewest => s.latest = r.latest /\ s.seen = r.seen \union {message}
BY DEF SawMessage, OnlySeen, SameDatagrams, SameOrdered, IsWindow

\* The packets that p releases on its channel, and the window s without them.
Releases(r, p, count, released, s) ==
  LET expected == r.order[p.channel]
  IN  /\ count \in 0 .. Modulus
      /\ released \in [1 .. count -> WaitingOn(r, p.channel)]
      /\ \A i \in 1 .. count : released[i].order = Advance(expected, i)
      /\ count = Modulus => \A i \in Numbers : \E w \in WaitingOn(r, p.channel) : w.order = Advance(Advance(expected, 1), i)
      /\ OnlyOrdered(r, s)
      /\ s.order = [r.order EXCEPT ![p.channel] = Advance(expected, count + 1)]
      /\ s.waiting = r.waiting \ {released[i] : i \in 1 .. count}

LEMMA AcceptOrderedIs ==
  ASSUME NEW r, IsWindow(r), NEW p, p.channel \in {0, 1}, p.order \in Numbers,
         r.order \in [{0, 1} -> Numbers]
  PROVE  LET o == AcceptOrdered(r, p)
             distance == Forward(r.order[p.channel], p.order)
         IN  \/ /\ p.order = r.order[p.channel]
                /\ \E count, released, s : /\ Releases(r, p, count, released, s)
                                           /\ o = Outcome(s, <<p>> \o released)
             \/ distance >= Half /\ o = Outcome(r, <<>>)
             \/ o = Refusal(r)
             \/ (\E w \in WaitingOn(r, p.channel) : w.order = p.order) /\ o = Outcome(r, <<>>)
             \/ /\ ~ (Cardinality(r.waiting) >= MaxWaiting)
                /\ \E s : /\ OnlyOrdered(r, s) /\ s.order = r.order
                          /\ s.waiting = r.waiting \union {p} /\ o = Outcome(s, <<>>)
<1> DEFINE channel == p.channel
           expected == r.order[channel]
           distance == Forward(expected, p.order)
           indexes == {w.order : w \in WaitingOn(r, channel)}
           count == RunLength(Advance(expected, 1), indexes)
           released == [i \in 1 .. count |-> WaitingFor(r, channel, Advance(expected, i))]
           kept == r.waiting \ {released[i] : i \in 1 .. count}
           s == [r EXCEPT !.order[channel] = Advance(@, count + 1), !.waiting = kept]
           o == AcceptOrdered(r, p)
<1>1. expected \in Numbers /\ distance \in Numbers /\ distance \in Int /\ Half \in Int
  BY ForwardIs, NumbersAre, Sizes
<1>2. distance = 0 => p.order = expected
  BY <1>1, AdvanceForward, AdvanceZero
<1>3. /\ count \in 0 .. Modulus
      /\ \A i \in 0 .. count - 1 : Advance(Advance(expected, 1), i) \in indexes
  BY RunLengthIs
<1>4. ASSUME NEW i \in 1 .. count
      PROVE  released[i] \in WaitingOn(r, channel) /\ released[i].order = Advance(expected, i)
  <2>1. i - 1 \in 0 .. count - 1 /\ 1 + (i - 1) = i /\ i - 1 \in Nat /\ i <= Modulus
    BY <1>3, Sizes
  <2>2. Advance(Advance(expected, 1), i - 1) = Advance(expected, i)
    BY <1>1, <2>1, AdvanceTwice
  <2>3. Advance(expected, i) \in indexes
    BY <1>3, <2>1, <2>2
  <2>4. \E w \in WaitingOn(r, channel) : w.order = Advance(expected, i)
    BY <2>3
  <2> QED
    BY <2>4 DEF WaitingFor
<1>5. count = Modulus => \A i \in Numbers : \E w \in WaitingOn(r, channel) : w.order = Advance(Advance(expected, 1), i)
  <2> HIDE DEF count
  <2> QED
    BY <1>3 DEF Numbers
<1>6. OnlyOrdered(r, s) /\ s.order = [r.order EXCEPT ![channel] = Advance(expected, count + 1)]
      /\ s.waiting = kept
  BY DEF OnlyOrdered, SameDatagrams, SameSeen, IsWindow
<1>7. Releases(r, p, count, released, s)
  <2>1. released \in [1 .. count -> WaitingOn(r, channel)]
    BY <1>4
  <2> HIDE DEF count, released, s
  <2> QED
    BY <1>3, <1>4, <1>5, <1>6, <2>1 DEF Releases
<1>8. /\ OnlyOrdered(r, [r EXCEPT !.waiting = @ \union {p}])
      /\ [r EXCEPT !.waiting = @ \union {p}].order = r.order
      /\ [r EXCEPT !.waiting = @ \union {p}].waiting = r.waiting \union {p}
  BY DEF OnlyOrdered, SameDatagrams, SameSeen, IsWindow
<1>9. \/ distance = 0 /\ o = Outcome(s, <<p>> \o released)
      \/ distance >= Half /\ o = Outcome(r, <<>>)
      \/ o = Refusal(r)
      \/ p.order \in indexes /\ o = Outcome(r, <<>>)
      \/ /\ ~ (Cardinality(r.waiting) >= MaxWaiting)
         /\ o = Outcome([r EXCEPT !.waiting = @ \union {p}], <<>>)
  <2>1. o = CASE distance = 0 -> Outcome(s, <<p>> \o released)
              [] distance >= Half -> Outcome(r, <<>>)
              [] distance \in 1 .. Half - 1 /\ distance > MaxOrderGap -> Refusal(r)
              [] distance \in 1 .. MaxOrderGap /\ p.order \in indexes -> Outcome(r, <<>>)
              [] OTHER -> IF Cardinality(r.waiting) >= MaxWaiting
                    THEN Refusal(r)
                    ELSE Outcome([r EXCEPT !.waiting = @ \union {p}], <<>>)
    BY DEF AcceptOrdered
  <2> HIDE DEF o, s, released, count, distance, indexes
  <2> QED
    BY <1>1, <2>1
<1> HIDE DEF o, s, released, count
<1> QED
  BY <1>2, <1>7, <1>8, <1>9 DEF o

LEMMA AcceptSequencedIs ==
  ASSUME NEW r, IsWindow(r), NEW p
  PROVE  LET o == AcceptSequenced(r, p)
             latest == r.sequenced[p.channel]
         IN  \/ /\ latest = Unseen \/ Forward(latest, p.order) \in 1 .. Half - 1
                /\ \E s : /\ OnlySequenced(r, s) /\ o = Outcome(s, <<p>>)
                          /\ s.sequenced = [r.sequenced EXCEPT ![p.channel] = p.order]
             \/ o = Outcome(r, <<>>)
<1> DEFINE s == [r EXCEPT !.sequenced[p.channel] = p.order]
<1>1. OnlySequenced(r, s) /\ s.sequenced = [r.sequenced EXCEPT ![p.channel] = p.order]
  BY DEF OnlySequenced, SameDatagrams, SameSeen, SameOrdered, IsWindow
<1> HIDE DEF s
<1> QED
  BY <1>1 DEF AcceptSequenced, s

LEMMA InParts ==
  ASSUME NEW splits, NEW x
  PROVE  x \in PartsOf(splits) <=> \E a \in splits : \E v \in a.came : x = <<a.name, v>>
BY DEF PartsOf

LEMMA AcceptPartIs ==
  ASSUME NEW r, IsWindow(r), NEW p
  PROVE  LET o == AcceptPart(r, p)
             came == UNION {a.came : a \in {b \in r.splits : b.name = p.name}}
         IN  /\ \A v : v \in came <=> <<p.name, v>> \in PartsOf(r.splits)
             /\ \/ o = Refusal(r)
                \/ p.part \in came /\ o = Outcome(r, <<>>)
                \/ \E s : /\ OnlySplits(r, s) /\ PartsOf(s.splits) \subseteq PartsOf(r.splits)
                          /\ o = Refusal(s)
                \/ \E s : /\ OnlySplits(r, s) /\ PartsOf(s.splits) \subseteq PartsOf(r.splits)
                          /\ \A x \in PartsOf(r.splits) : x[1] = p.name \/ x \in PartsOf(s.splits)
                          /\ p.part \notin came /\ Cardinality(came) + 1 = p.parts
                          /\ o = AcceptWhole(s, p)
                \/ \E s : /\ OnlySplits(r, s) /\ ~ (PartCount(r) >= MaxParts)
                          /\ PartsOf(s.splits) = PartsOf(r.splits) \union {<<p.name, p.part>>}
                          /\ o = Outcome(s, <<>>)
<1> DEFINE open == {a \in r.splits : a.name = p.name}
           came == UNION {a.came : a \in open}
           rest == [r EXCEPT !.splits = @ \ open]
           store == [rest EXCEPT !.splits = @ \union {[name |-> p.name, came |-> came \union {p.part}]}]
           o == AcceptPart(r, p)
<1>1. ASSUME NEW v
      PROVE  v \in came <=> <<p.name, v>> \in PartsOf(r.splits)
  BY InParts
<1>2. OnlySplits(r, rest) /\ rest.splits = r.splits \ open
  BY DEF OnlySplits, SameDatagrams, SameSeen, SameOrdered, IsWindow
<1>3. /\ OnlySplits(r, store)
      /\ store.splits = (r.splits \ open) \union {[name |-> p.name, came |-> came \union {p.part}]}
  BY DEF OnlySplits, SameDatagrams, SameSeen, SameOrdered, IsWindow
<1>4. /\ PartsOf(rest.splits) \subseteq PartsOf(r.splits)
      /\ \A x \in PartsOf(r.splits) : x[1] = p.name \/ x \in PartsOf(rest.splits)
  BY <1>2, InParts
<1>5. PartsOf(store.splits) = PartsOf(r.splits) \union {<<p.name, p.part>>}
  <2> DEFINE new == [name |-> p.name, came |-> came \union {p.part}]
  <2>1. ASSUME NEW x \in PartsOf(store.splits)
        PROVE  x \in PartsOf(r.splits) \union {<<p.name, p.part>>}
    <3>1. PICK a \in store.splits : \E v \in a.came : x = <<a.name, v>>
      BY <2>1, InParts
    <3>2. CASE a = new
      <4>1. a.name = p.name /\ \A v \in a.came : v \in came \/ v = p.part
        BY <3>2
      <4> HIDE DEF came
      <4> QED
        BY <1>1, <3>1, <4>1
    <3>3. CASE a \in r.splits
      BY <3>1, <3>3, InParts
    <3> QED
      BY <1>3, <3>1, <3>2, <3>3
  <2>2. ASSUME NEW x \in PartsOf(r.splits)
        PROVE  x \in PartsOf(store.splits)
    <3>1. PICK a \in r.splits : \E v \in a.came : x = <<a.name, v>>
      BY <2>2, InParts
    <3>2. CASE a \in open
      <4>1. a.came \subseteq new.came /\ new.name = a.name /\ new \in store.splits
        BY <1>3, <3>1, <3>2
      <4> HIDE DEF new, came
      <4> QED
        BY <3>1, <4>1, InParts
    <3>3. CASE a \notin open
      BY <1>3, <3>1, <3>3, InParts
    <3> QED
      BY <3>2, <3>3
  <2>3. <<p.name, p.part>> \in PartsOf(store.splits)
    <3>1. new \in store.splits /\ p.part \in new.came /\ new.name = p.name
      BY <1>3
    <3> QED
      BY <3>1, InParts
  <2> QED
    BY <2>1, <2>2, <2>3
<1>6. \/ o = Refusal(r)
      \/ p.part \in came /\ o = Outcome(r, <<>>)
      \/ o = Refusal(rest)
      \/ p.part \notin came /\ Cardinality(came) + 1 = p.parts /\ o = AcceptWhole(rest, p)
      \/ ~ (PartCount(r) >= MaxParts) /\ o = Outcome(store, <<>>)
  <2>1. o = CASE open = {} /\ Cardinality(r.splits) >= MaxSplits -> Refusal(r)
              [] p.part \in came -> Outcome(r, <<>>)
              [] p.part \notin came /\ PartCount(r) >= MaxParts -> Refusal(rest)
              [] OTHER -> IF Cardinality(came) + 1 = p.parts
                          THEN AcceptWhole(rest, p)
                          ELSE Outcome(store, <<>>)
    BY DEF AcceptPart
  <2> HIDE DEF o, rest, store, came, open
  <2> QED
    BY <2>1
<1> HIDE DEF o, rest, store, came
<1> QED
  BY <1>1, <1>2, <1>3, <1>4, <1>5, <1>6 DEF o, came

LEMMA OutcomeIs ==
  ASSUME NEW r, NEW ready
  PROVE  /\ Outcome(r, ready).receive = r /\ Outcome(r, ready).ready = ready
         /\ ~Outcome(r, ready).isRefused
         /\ Refusal(r).receive = r /\ Refusal(r).ready = <<>> /\ Refusal(r).isRefused
         /\ Outcome(r, ready).isRefused \in BOOLEAN /\ Refusal(r).isRefused \in BOOLEAN
BY DEF Outcome, Refusal

LEMMA PacketIs ==
  ASSUME NEW p, IsPacket(p)
  PROVE  /\ p.kind \in {"unreliable", "reliable", "ordered", "sequenced", "reliableSequenced"}
         /\ p.message \in Numbers /\ p.order \in Numbers /\ p.channel \in {0, 1}
         /\ p.part \in Nat /\ p.parts \in Nat /\ p.part < p.parts
<1>1. p \in [name : {p.name}, kind : {"unreliable", "reliable", "ordered", "sequenced", "reliableSequenced"},
             message : Numbers, order : Numbers, channel : {0, 1},
             part : Nat, parts : Nat, isAsking : BOOLEAN] /\ p.part < p.parts
  BY DEF IsPacket
<1> QED
  BY <1>1

-----------------------------------------------------------------------------
(***************************************************************************)
(* The type and the limits, packet by packet.                              *)
(***************************************************************************)
ArePackets(S) == \A p \in S : IsPacket(p)
OutcomeFits(o, S) == WindowFits(o.receive, S) /\ o.ready \in Seq(S) /\ o.isRefused \in BOOLEAN

LEMMA OutcomeDoesFit ==
  ASSUME NEW S, NEW r, WindowFits(r, S), NEW ready \in Seq(S)
  PROVE  OutcomeFits(Outcome(r, ready), S) /\ OutcomeFits(Refusal(r), S)
<1>1. <<>> \in Seq(S)
  OBVIOUS
<1>2. ASSUME NEW o, o.receive = r, o.ready \in Seq(S), o.isRefused \in BOOLEAN
      PROVE  OutcomeFits(o, S)
  BY <1>2 DEF OutcomeFits
<1>3. OutcomeFits(Outcome(r, ready), S)
  BY <1>2, OutcomeIs
<1>4. OutcomeFits(Refusal(r), S)
  BY <1>1, <1>2, OutcomeIs
<1> QED
  BY <1>3, <1>4

LEMMA NothingFits ==
  ASSUME NEW r, NEW S, WindowFits(r, S)
  PROVE  OutcomeFits(Outcome(r, <<>>), S) /\ OutcomeFits(Refusal(r), S)
<1>1. <<>> \in Seq(S)
  OBVIOUS
<1> QED
  BY <1>1, OutcomeDoesFit

LEMMA OnePacket ==
  ASSUME NEW S, NEW p \in S
  PROVE  <<p>> \in Seq(S)
OBVIOUS

LEMMA AcceptOrderedFits ==
  ASSUME NEW S, ArePackets(S), NEW r, WindowFits(r, S), NEW p \in S
  PROVE  OutcomeFits(AcceptOrdered(r, p), S)
<1> DEFINE o == AcceptOrdered(r, p)
<1>1. /\ IsWindow(r) /\ NumbersFit(r) /\ WaitingFits(r, S) /\ PartsFit(r)
      /\ p.channel \in {0, 1} /\ p.order \in Numbers
  BY PacketIs DEF WindowFits, ArePackets
<1>2. r.order \in [{0, 1} -> Numbers]
  BY <1>1 DEF NumbersFit
<1>3. ASSUME NEW count, NEW released, NEW s, Releases(r, p, count, released, s)
      PROVE  OutcomeFits(Outcome(s, <<p>> \o released), S)
  <2>1. /\ count \in Nat /\ count + 1 \in Nat /\ OnlyOrdered(r, s)
        /\ s.order = [r.order EXCEPT ![p.channel] = Advance(r.order[p.channel], count + 1)]
        /\ s.waiting \subseteq r.waiting
        /\ released \in [1 .. count -> WaitingOn(r, p.channel)]
    BY <1>3, Sizes DEF Releases
  <2>2. Advance(r.order[p.channel], count + 1) \in Numbers
    BY <1>1, <1>2, <2>1, AdvanceIs
  <2>3. s.order \in [{0, 1} -> Numbers]
    BY <1>2, <2>1, <2>2
  <2>4. NumbersFit(s)
    BY <1>1, <2>1, <2>3 DEF NumbersFit, OnlyOrdered, SameDatagrams, SameSeen
  <2>5. WaitingFits(s, S)
    <3>1. IsFiniteSet(s.waiting) /\ Cardinality(s.waiting) <= Cardinality(r.waiting)
      BY <1>1, <2>1, FS_Subset DEF WaitingFits
    <3>2. Cardinality(s.waiting) \in Nat /\ Cardinality(r.waiting) \in Nat
      BY <1>1, <3>1, FS_CardinalityType DEF WaitingFits
    <3> QED
      BY <1>1, <2>1, <3>1, <3>2, Sizes DEF WaitingFits
  <2>6. PartsFit(s) /\ IsWindow(s)
    BY <1>1, <2>1 DEF PartsFit, OnlyOrdered, SameDatagrams
  <2>7. released \in Seq(S)
    <3>1. WaitingOn(r, p.channel) \subseteq S
      BY <1>1 DEF WaitingOn, WaitingFits
    <3> QED
      BY <2>1, <3>1
  <2>8. <<p>> \o released \in Seq(S)
    BY <2>7, OnePacket, ConcatProperties
  <2> QED
    BY <2>4, <2>5, <2>6, <2>8, OutcomeDoesFit DEF WindowFits
<1>4. ASSUME NEW s, OnlyOrdered(r, s), s.order = r.order, s.waiting = r.waiting \union {p},
             ~ (Cardinality(r.waiting) >= MaxWaiting)
      PROVE  OutcomeFits(Outcome(s, <<>>), S)
  <2>1. NumbersFit(s) /\ PartsFit(s) /\ IsWindow(s)
    BY <1>1, <1>4 DEF NumbersFit, PartsFit, OnlyOrdered, SameDatagrams, SameSeen
  <2>2. IsFiniteSet(s.waiting) /\ Cardinality(s.waiting) <= MaxWaiting
    <3>1. IsFiniteSet(r.waiting) /\ Cardinality(r.waiting) \in Nat /\ MaxWaiting \in Nat
      BY <1>1, FS_CardinalityType, Sizes DEF WaitingFits
    <3>2. /\ IsFiniteSet(s.waiting)
          /\ Cardinality(s.waiting) = Cardinality(r.waiting) \/ Cardinality(s.waiting) = Cardinality(r.waiting) + 1
      BY <1>4, <3>1, FS_AddElement
    <3> QED
      BY <1>4, <3>1, <3>2
  <2>3. WaitingFits(s, S)
    BY <1>1, <1>4, <2>2 DEF WaitingFits
  <2> QED
    BY <2>1, <2>3, NothingFits DEF WindowFits
<1> HIDE DEF o
<1> QED
  BY <1>1, <1>2, <1>3, <1>4, NothingFits, AcceptOrderedIs DEF o

LEMMA AcceptWholeFits ==
  ASSUME NEW S, ArePackets(S), NEW r, WindowFits(r, S), NEW p \in S
  PROVE  OutcomeFits(AcceptWhole(r, p), S)
<1>1. /\ IsWindow(r) /\ NumbersFit(r) /\ WaitingFits(r, S) /\ PartsFit(r)
      /\ p.channel \in {0, 1} /\ p.order \in Numbers
  BY PacketIs DEF WindowFits, ArePackets
<1>2. ASSUME NEW s, OnlySequenced(r, s),
             s.sequenced = [r.sequenced EXCEPT ![p.channel] = p.order]
      PROVE  OutcomeFits(Outcome(s, <<p>>), S)
  <2>1. r.sequenced \in [{0, 1} -> Numbers \union {Unseen}]
    BY <1>1 DEF NumbersFit
  <2>2. s.sequenced \in [{0, 1} -> Numbers \union {Unseen}]
    BY <1>1, <1>2, <2>1
  <2>3. NumbersFit(s)
    BY <1>1, <1>2, <2>2 DEF NumbersFit, OnlySequenced, SameDatagrams, SameSeen, SameOrdered
  <2>4. WaitingFits(s, S) /\ PartsFit(s) /\ IsWindow(s)
    BY <1>1, <1>2 DEF WaitingFits, PartsFit, OnlySequenced, SameDatagrams, SameOrdered
  <2> QED
    BY <2>3, <2>4, OnePacket, OutcomeDoesFit DEF WindowFits
<1>3. OutcomeFits(AcceptSequenced(r, p), S)
  BY <1>1, <1>2, AcceptSequencedIs, NothingFits
<1>4. OutcomeFits(Outcome(r, <<p>>), S)
  BY OnePacket, OutcomeDoesFit
<1> QED
  BY <1>3, <1>4, AcceptOrderedFits DEF AcceptWhole

LEMMA OnlySplitsFits ==
  ASSUME NEW S, NEW r, WindowFits(r, S), NEW s, OnlySplits(r, s), PartsFit(s)
  PROVE  WindowFits(s, S)
BY DEF WindowFits, NumbersFit, WaitingFits, OnlySplits, SameDatagrams, SameSeen, SameOrdered

LEMMA FewerPartsFit ==
  ASSUME NEW r, PartsFit(r), NEW s, PartsOf(s.splits) \subseteq PartsOf(r.splits)
  PROVE  PartsFit(s)
<1>1. IsFiniteSet(PartsOf(s.splits)) /\ Cardinality(PartsOf(s.splits)) <= Cardinality(PartsOf(r.splits))
  BY FS_Subset DEF PartsFit
<1>2. Cardinality(PartsOf(s.splits)) \in Nat /\ Cardinality(PartsOf(r.splits)) \in Nat
  BY <1>1, FS_CardinalityType DEF PartsFit
<1> QED
  BY <1>1, <1>2, Sizes DEF PartsFit

LEMMA AcceptPartFits ==
  ASSUME NEW S, ArePackets(S), NEW r, WindowFits(r, S), NEW p \in S
  PROVE  OutcomeFits(AcceptPart(r, p), S)
<1>1. IsWindow(r) /\ PartsFit(r)
  BY DEF WindowFits
<1>2. ASSUME NEW s, OnlySplits(r, s), PartsOf(s.splits) \subseteq PartsOf(r.splits)
      PROVE  WindowFits(s, S)
  BY <1>1, <1>2, OnlySplitsFits, FewerPartsFit
<1>3. ASSUME NEW s, OnlySplits(r, s), ~ (PartCount(r) >= MaxParts),
             PartsOf(s.splits) = PartsOf(r.splits) \union {<<p.name, p.part>>}
      PROVE  WindowFits(s, S)
  <2> DEFINE before == PartsOf(r.splits)
             after == PartsOf(s.splits)
  <2>1. PartCount(r) = Cardinality(before)
    BY DEF PartCount, PartsOf
  <2>2. IsFiniteSet(before) /\ Cardinality(before) \in Nat /\ MaxParts \in Nat
    BY <1>1, FS_CardinalityType, Sizes DEF PartsFit
  <2> HIDE DEF before, after
  <2>3. /\ IsFiniteSet(after)
        /\ Cardinality(after) = Cardinality(before) \/ Cardinality(after) = Cardinality(before) + 1
    <3>1. after = before \union {<<p.name, p.part>>}
      BY <1>3 DEF before, after
    <3> QED
      BY <2>2, <3>1, FS_AddElement
  <2>4. Cardinality(after) <= MaxParts
    BY <1>3, <2>1, <2>2, <2>3
  <2>5. PartsFit(s)
    BY <2>3, <2>4 DEF PartsFit, after
  <2> QED
    BY <1>3, <2>5, OnlySplitsFits
<1>4. ASSUME NEW s, WindowFits(s, S)
      PROVE  OutcomeFits(Refusal(s), S) /\ OutcomeFits(Outcome(s, <<>>), S)
             /\ OutcomeFits(AcceptWhole(s, p), S)
  BY <1>4, NothingFits, AcceptWholeFits
<1>5. \E s : /\ WindowFits(s, S)
             /\ AcceptPart(r, p) \in {Refusal(s), Outcome(s, <<>>), AcceptWhole(s, p)}
  BY <1>1, <1>2, <1>3, AcceptPartIs
<1> QED
  BY <1>4, <1>5

LEMMA SawMessageFits ==
  ASSUME NEW S, NEW r, WindowFits(r, S), NEW message \in Numbers
  PROVE  WindowFits(SawMessage(r, message), S)
<1> DEFINE s == SawMessage(r, message)
<1>1. IsWindow(r) /\ NumbersFit(r) /\ WaitingFits(r, S) /\ PartsFit(r)
  BY DEF WindowFits
<1>2. OnlySeen(r, s) /\ s.latest \in {r.latest, message} /\ s.seen \subseteq r.seen \union {message}
  BY <1>1, SawMessageIs
<1> HIDE DEF s
<1>3. NumbersFit(s)
  BY <1>1, <1>2 DEF NumbersFit, OnlySeen, SameDatagrams, SameOrdered
<1>4. WaitingFits(s, S) /\ PartsFit(s) /\ IsWindow(s)
  BY <1>1, <1>2 DEF WaitingFits, PartsFit, OnlySeen, SameDatagrams, SameOrdered
<1> QED
  BY <1>3, <1>4 DEF WindowFits, s

LEMMA AcceptPacketFits ==
  ASSUME NEW S, ArePackets(S), NEW r, WindowFits(r, S), NEW p \in S
  PROVE  OutcomeFits(AcceptPacket(r, p), S)
<1>1. p.message \in Numbers
  BY PacketIs DEF ArePackets
<1> DEFINE s == IF IsReliable(p) THEN SawMessage(r, p.message) ELSE r
<1>2. WindowFits(s, S)
  BY <1>1, SawMessageFits
<1>3. AcceptPacket(r, p) \in {Outcome(r, <<>>), AcceptPart(s, p), AcceptWhole(s, p)}
  BY DEF AcceptPacket
<1> HIDE DEF s
<1> QED
  BY <1>2, <1>3, NothingFits, AcceptPartFits, AcceptWholeFits

LEMMA OutcomeShape ==
  ASSUME NEW r, NEW p
  PROVE  AcceptPacket(r, p) = [f \in {"receive", "ready", "isRefused"} |-> AcceptPacket(r, p)[f]]
<1> DEFINE Shaped(o) == o = [f \in {"receive", "ready", "isRefused"} |-> o[f]]
<1>1. \A s, x : Shaped(Outcome(s, x)) /\ Shaped(Refusal(s))
  BY DEF Outcome, Refusal
<1> HIDE DEF Shaped
<1>2. \A s : Shaped(AcceptOrdered(s, p)) /\ Shaped(AcceptSequenced(s, p))
  BY <1>1 DEF AcceptOrdered, AcceptSequenced
<1>3. \A s : Shaped(AcceptWhole(s, p))
  BY <1>1, <1>2 DEF AcceptWhole
<1>4. \A s : Shaped(AcceptPart(s, p))
  BY <1>1, <1>3 DEF AcceptPart
<1>5. Shaped(AcceptPacket(r, p))
  BY <1>1, <1>3, <1>4 DEF AcceptPacket
<1> QED
  BY <1>5 DEF Shaped

LEMMA AddedFits ==
  ASSUME NEW S, ArePackets(S), NEW o, OutcomeFits(o, S), NEW p \in S
  PROVE  OutcomeFits(Added(o, p), S)
<1> DEFINE next == AcceptPacket(o.receive, p)
<1>1. OutcomeFits(next, S) /\ o.ready \in Seq(S)
  BY AcceptPacketFits DEF OutcomeFits
<1>2. next = [f \in {"receive", "ready", "isRefused"} |-> next[f]]
  BY OutcomeShape
<1> HIDE DEF next
<1>3. o.ready \o next.ready \in Seq(S)
  BY <1>1, ConcatProperties DEF OutcomeFits
<1> DEFINE all == [next EXCEPT !.ready = o.ready \o @]
<1>4. /\ all.receive = next.receive /\ all.ready = o.ready \o next.ready
      /\ all.isRefused = next.isRefused
  BY <1>2
<1>5. OutcomeFits(all, S)
  <2> HIDE DEF all
  <2> QED
    BY <1>1, <1>3, <1>4 DEF OutcomeFits
<1> QED
  BY <1>5 DEF Added, next

LEMMA PrepareFits ==
  ASSUME NEW S, ArePackets(S), NEW r, WindowFits(r, S), NEW packets \in Seq(S)
  PROVE  OutcomeFits(Prepare(r, packets), S)
<1> DEFINE N == Len(packets)
<1>1. N \in Nat /\ \A n \in 1 .. N : packets[n] \in S
  OBVIOUS
<1>2. PICK f : IsPreparation(f, r, packets) /\ Prepare(r, packets) = f[N]
  BY PreparedInSteps
<1> DEFINE T == {n \in 0 .. N : OutcomeFits(f[n], S)}
<1>3. 0 \in T
  BY <1>1, <1>2, NothingFits DEF IsPreparation
<1>4. ASSUME NEW n \in 1 .. N, n - 1 \in T
      PROVE  n \in T
  BY <1>1, <1>2, <1>4, AddedFits DEF IsPreparation
<1>5. 0 .. N \subseteq T
  <2> HIDE DEF T, N
  <2> QED
    BY <1>1, <1>3, <1>4, CountUp
<1> QED
  BY <1>1, <1>2, <1>5

LEMMA ExpireSplitsFits ==
  ASSUME NEW S, NEW r, WindowFits(r, S)
  PROVE  LET s == ExpireSplits(r)
         IN  WindowFits(s, S) /\ OnlySplits(r, s) /\ PartsOf(s.splits) = {}
<1> DEFINE s == ExpireSplits(r)
<1>1. IsWindow(r) /\ PartsFit(r)
  BY DEF WindowFits
<1>2. OnlySplits(r, s) /\ s.splits = {}
  BY <1>1 DEF ExpireSplits, OnlySplits, SameDatagrams, SameSeen, SameOrdered, IsWindow
<1>3. PartsOf(s.splits) = {}
  BY <1>2, InParts
<1> HIDE DEF s
<1> QED
  BY <1>1, <1>2, <1>3, OnlySplitsFits, FewerPartsFit DEF s

-----------------------------------------------------------------------------
(***************************************************************************)
(* What a client sends on a connection: the packets S, with messages that  *)
(* follow base, and ordered packets from the index first on of a channel.  *)
(***************************************************************************)
Sends(S, base, first) ==
  /\ ArePackets(S) /\ base \in Numbers /\ first \in [{0, 1} -> Numbers]
  /\ \A p \in S : /\ IsReliable(p) => Forward(base, p.message) \in 1 .. Half - 1
                  /\ p.kind = "ordered" => Forward(first[p.channel], p.order) < Half
  /\ \A p, q \in S : AreOfOneClient(p, q)

(***************************************************************************)
(* The packets that the application gets, in a line.                       *)
(***************************************************************************)
NamesIn(line) == {line[i].name : i \in DOMAIN line}

\* The ordered packets on a channel, when the index next is due.
OrderedSoFar(S, start, line, c, next) ==
  LET ordered == PlacesOf(line, {"ordered"}, c)
  IN  /\ \A i \in ordered : (\A j \in ordered : i <= j) => line[i].order = start
      /\ \A i, j \in ordered : Follows(i, j, ordered) => line[j].order = Advance(line[i].order, 1)
      /\ \A i \in ordered : (\A j \in ordered : j <= i) => next = Advance(line[i].order, 1)
      /\ ordered = {} => next = start
      /\ Forward(start, next) <= Half
      /\ \A q \in S : /\ q.kind = "ordered" /\ q.channel = c
                      /\ Forward(start, q.order) < Forward(start, next)
                      => q.name \in NamesIn(line)

\* The sequenced packets on a channel, when latest is the last that was handed over.
SequencedSoFar(line, c, latest) ==
  LET sequenced == PlacesOf(line, {"sequenced", "reliableSequenced"}, c)
  IN  /\ \A i, j \in sequenced : Follows(i, j, sequenced)
                                   => Forward(line[i].order, line[j].order) \in 1 .. Half - 1
      /\ \A i \in sequenced : (\A j \in sequenced : j <= i) => latest = line[i].order

ReliableOnce(line) ==
  \A i, j \in DOMAIN line : i < j /\ IsReliable(line[i]) => line[i].name # line[j].name

IsLine(S, first, line, order, sequenced) ==
  /\ line \in Seq(S) /\ ReliableOnce(line)
  /\ order \in [{0, 1} -> Numbers] /\ sequenced \in [{0, 1} -> Numbers \union {Unseen}]
  /\ \A c \in {0, 1} : /\ OrderedSoFar(S, first[c], line, c, order[c])
                       /\ SequencedSoFar(line, c, sequenced[c])

LEMMA OneMore ==
  ASSUME NEW S, NEW line \in Seq(S), NEW p \in S
  PROVE  LET more == Append(line, p)
             n == Len(line) + 1
         IN  /\ more \in Seq(S) /\ DOMAIN line = 1 .. Len(line) /\ Len(line) \in Nat
             /\ DOMAIN more = 1 .. n /\ more[n] = p
             /\ \A i \in DOMAIN line : i \in DOMAIN more /\ i < n /\ i \in Nat /\ more[i] = line[i]
             /\ \A i \in DOMAIN more : i \in DOMAIN line \/ i = n
             /\ NamesIn(more) = NamesIn(line) \union {p.name}
             /\ \A kinds, c : PlacesOf(more, kinds, c) =
                   PlacesOf(line, kinds, c) \union (IF p.kind \in kinds /\ p.channel = c THEN {n} ELSE {})
<1> DEFINE more == Append(line, p)
           n == Len(line) + 1
<1>1. more \in Seq(S) /\ Len(more) = n /\ more[n] = p /\ Len(line) \in Nat
      /\ \A i \in 1 .. Len(line) : more[i] = line[i]
  BY AppendProperties
<1>2. DOMAIN line = 1 .. Len(line) /\ DOMAIN more = 1 .. n
  BY <1>1, LenProperties
<1> HIDE DEF more
<1>3. /\ \A i \in DOMAIN line : i \in DOMAIN more /\ i < n /\ i \in Nat /\ more[i] = line[i]
      /\ \A i \in DOMAIN more : i \in DOMAIN line \/ i = n
      /\ n \in DOMAIN more /\ n \notin DOMAIN line
  BY <1>1, <1>2
<1> HIDE DEF n
<1>4. NamesIn(more) = NamesIn(line) \union {p.name}
  BY <1>1, <1>3 DEF NamesIn
<1>5. ASSUME NEW kinds, NEW c
      PROVE  PlacesOf(more, kinds, c) =
                   PlacesOf(line, kinds, c) \union (IF p.kind \in kinds /\ p.channel = c THEN {n} ELSE {})
  BY <1>1, <1>3 DEF PlacesOf
<1> QED
  BY <1>1, <1>2, <1>3, <1>4, <1>5 DEF more, n

LEMMA OnceMore ==
  ASSUME NEW S, NEW line \in Seq(S), NEW p \in S, ReliableOnce(line),
         \A q \in S : q.name = p.name => q.kind = p.kind,
         IsReliable(p) => p.name \notin NamesIn(line)
  PROVE  ReliableOnce(Append(line, p))
<1> DEFINE more == Append(line, p)
           n == Len(line) + 1
<1>1. /\ DOMAIN more = 1 .. n /\ more[n] = p /\ Len(line) \in Nat
      /\ \A i \in DOMAIN line : i < n /\ i \in Nat /\ more[i] = line[i]
      /\ \A i \in DOMAIN more : i \in DOMAIN line \/ i = n
  BY OneMore
<1>2. \A i \in DOMAIN line : line[i] \in S
  BY ElementOfSeq, LenProperties
<1> HIDE DEF more, n
<1>3. ASSUME NEW i \in DOMAIN more, NEW j \in DOMAIN more, i < j, IsReliable(more[i])
      PROVE  more[i].name # more[j].name
  <2>1. i \in DOMAIN line
    BY <1>1, <1>3 DEF n
  <2>2. CASE j \in DOMAIN line
    BY <1>1, <1>3, <2>1, <2>2 DEF ReliableOnce
  <2>3. CASE j = n
    <3>1. more[i] = line[i] /\ more[j] = p /\ line[i] \in S
      BY <1>1, <1>2, <2>1, <2>3
    <3>2. line[i].name = p.name => IsReliable(p)
      BY <1>3, <3>1 DEF IsReliable
    <3>3. line[i].name \in NamesIn(line)
      BY <2>1 DEF NamesIn
    <3> QED
      BY <3>1, <3>2, <3>3
  <2> QED
    BY <1>1, <2>2, <2>3
<1> QED
  BY <1>3 DEF ReliableOnce, more

\* A packet of another kind or channel changes nothing for this one.
LEMMA OrderedOther ==
  ASSUME NEW S, NEW line \in Seq(S), NEW p \in S, NEW c, NEW start, NEW next,
         OrderedSoFar(S, start, line, c, next), p.kind # "ordered" \/ p.channel # c
  PROVE  OrderedSoFar(S, start, Append(line, p), c, next)
<1> DEFINE more == Append(line, p)
           ordered == PlacesOf(line, {"ordered"}, c)
<1>0. PlacesOf(more, {"ordered"}, c) = ordered
  <2>1. PlacesOf(more, {"ordered"}, c) = ordered \union (IF p.kind \in {"ordered"} /\ p.channel = c THEN {Len(line) + 1} ELSE {})
    BY OneMore
  <2> HIDE DEF ordered, more
  <2> QED
    BY <2>1
<1>1. /\ PlacesOf(more, {"ordered"}, c) = ordered
      /\ NamesIn(line) \subseteq NamesIn(more)
      /\ \A i \in DOMAIN line : more[i] = line[i]
  <2> HIDE DEF ordered
  <2> QED
    BY <1>0, OneMore
<1>2. \A i \in ordered : more[i] = line[i]
  BY <1>1 DEF PlacesOf
<1> HIDE DEF more
<1> QED
  BY ZenonT(40), <1>1, <1>2 DEF OrderedSoFar, more

LEMMA SequencedOther ==
  ASSUME NEW S, NEW line \in Seq(S), NEW p \in S, NEW c, NEW latest,
         SequencedSoFar(line, c, latest),
         p.kind \notin {"sequenced", "reliableSequenced"} \/ p.channel # c
  PROVE  SequencedSoFar(Append(line, p), c, latest)
<1> DEFINE more == Append(line, p)
           kinds == {"sequenced", "reliableSequenced"}
           places == PlacesOf(line, kinds, c)
<1>0. PlacesOf(more, kinds, c) = places
  <2>1. PlacesOf(more, kinds, c) = places \union (IF p.kind \in kinds /\ p.channel = c THEN {Len(line) + 1} ELSE {})
    BY OneMore
  <2> HIDE DEF places, more
  <2> QED
    BY <2>1
<1>1. /\ PlacesOf(more, kinds, c) = places
      /\ \A i \in DOMAIN line : more[i] = line[i]
  <2> HIDE DEF places, kinds
  <2> QED
    BY <1>0, OneMore
<1>2. \A i \in places : more[i] = line[i]
  BY <1>1 DEF PlacesOf
<1> HIDE DEF more
<1> QED
  BY <1>1, <1>2 DEF SequencedSoFar, more

LEMMA PlaceAfter ==
  ASSUME NEW start \in Numbers, NEW next \in Numbers, Forward(start, next) < Half
  PROVE  Advance(next, 1) \in Numbers /\ Forward(start, Advance(next, 1)) = Forward(start, next) + 1
<1>1. Forward(start, next) \in Nat /\ Forward(start, next) + 1 \in Numbers /\ Forward(start, next) + 1 <= Modulus
  BY ForwardIs, NumbersAre, Sizes
<1>2. next = Advance(start, Forward(start, next))
  BY AdvanceForward
<1>3. Advance(next, 1) = Advance(start, Forward(start, next) + 1)
  BY <1>1, <1>2, AdvanceTwice
<1> QED
  BY <1>1, <1>3, ForwardAdvance, AdvanceIs

\* The packet that is due comes next.
LEMMA OrderedNext ==
  ASSUME NEW S, NEW line \in Seq(S), NEW p \in S, NEW c, NEW start \in Numbers,
         OrderedSoFar(S, start, line, c, p.order), p.kind = "ordered", p.channel = c,
         p.order \in Numbers, Forward(start, p.order) < Half,
         \A q \in S : q.kind = "ordered" /\ q.channel = c
                        => q.order \in Numbers /\ (q.order = p.order => q.name = p.name)
  PROVE  OrderedSoFar(S, start, Append(line, p), c, Advance(p.order, 1))
<1> DEFINE more == Append(line, p)
           n == Len(line) + 1
           ordered == PlacesOf(line, {"ordered"}, c)
           places == PlacesOf(more, {"ordered"}, c)
           next == Advance(p.order, 1)
<1>1. /\ places = ordered \union {n} /\ more[n] = p
      /\ NamesIn(more) = NamesIn(line) \union {p.name}
      /\ \A i \in DOMAIN line : i < n /\ i \in Nat /\ more[i] = line[i]
      /\ n \in Nat
  BY OneMore
<1>2. \A i \in ordered : i < n /\ i \in Nat /\ more[i] = line[i]
  BY <1>1 DEF PlacesOf
<1>3. Forward(start, next) = Forward(start, p.order) + 1
  BY PlaceAfter
<1>4. Forward(start, p.order) \in Nat /\ Half \in Nat
  BY ForwardIs, NumbersAre, Sizes
<1> HIDE DEF more, ordered, places, n
<1>5. ASSUME NEW i \in places, \A j \in places : i <= j
      PROVE  more[i].order = start
  <2>1. CASE i \in ordered
    <3>1. \A j \in ordered : i <= j
      BY <1>1, <1>5
    <3> QED
      BY <1>2, <2>1, <3>1 DEF OrderedSoFar, ordered
  <2>2. CASE i = n
    <3>1. ordered = {}
      BY <1>1, <1>2, <1>5, <2>2
    <3> QED
      BY <1>1, <2>2, <3>1 DEF OrderedSoFar, ordered
  <2> QED
    BY <1>1, <2>1, <2>2
<1>6. ASSUME NEW i \in places, NEW j \in places, Follows(i, j, places)
      PROVE  more[j].order = Advance(more[i].order, 1)
  <2>1. i < j /\ \A k \in places : k <= i \/ j <= k
    BY <1>6 DEF Follows
  <2>2. i \in ordered
    BY <1>1, <1>2, <2>1
  <2>3. CASE j \in ordered
    <3>1. Follows(i, j, ordered)
      BY <1>1, <2>1 DEF Follows
    <3> QED
      BY <1>2, <2>2, <2>3, <3>1 DEF OrderedSoFar, ordered
  <2>4. CASE j = n
    <3>1. \A k \in ordered : k <= i
      BY <1>1, <1>2, <2>1, <2>4
    <3>2. p.order = Advance(line[i].order, 1)
      BY <2>2, <3>1 DEF OrderedSoFar, ordered
    <3> QED
      BY <1>1, <1>2, <2>2, <2>4, <3>2
  <2> QED
    BY <1>1, <2>3, <2>4
<1>7. ASSUME NEW i \in places, \A j \in places : j <= i
      PROVE  next = Advance(more[i].order, 1)
  <2>1. i = n
    BY <1>1, <1>2, <1>7
  <2> QED
    BY <1>1, <2>1
<1>8. ASSUME NEW q \in S, q.kind = "ordered", q.channel = c,
             Forward(start, q.order) < Forward(start, next)
      PROVE  q.name \in NamesIn(more)
  <2>1. q.order \in Numbers /\ Forward(start, q.order) \in Nat
    BY <1>8, ForwardIs, NumbersAre
  <2>2. CASE Forward(start, q.order) < Forward(start, p.order)
    BY <1>1, <1>8, <2>2 DEF OrderedSoFar
  <2>3. CASE Forward(start, q.order) = Forward(start, p.order)
    BY <1>1, <1>8, <2>1, <2>3, SamePlace
  <2> QED
    BY <1>3, <1>4, <1>8, <2>1, <2>2, <2>3
<1>9. places # {} /\ Forward(start, next) <= Half
  BY <1>1, <1>3, <1>4
<1> QED
  BY <1>5, <1>6, <1>7, <1>8, <1>9 DEF OrderedSoFar, places, more

LEMMA SequencedNext ==
  ASSUME NEW S, NEW line \in Seq(S), NEW p \in S, NEW c, NEW latest,
         SequencedSoFar(line, c, latest), \A q \in S : q.order \in Numbers,
         p.kind \in {"sequenced", "reliableSequenced"}, p.channel = c,
         latest = Unseen \/ Forward(latest, p.order) \in 1 .. Half - 1
  PROVE  SequencedSoFar(Append(line, p), c, p.order)
<1> DEFINE more == Append(line, p)
           n == Len(line) + 1
           kinds == {"sequenced", "reliableSequenced"}
           before == PlacesOf(line, kinds, c)
           places == PlacesOf(more, kinds, c)
<1>1. /\ places = before \union {n} /\ more[n] = p
      /\ \A i \in DOMAIN line : i < n /\ i \in Nat /\ more[i] = line[i]
      /\ n \in Nat
  BY OneMore
<1>2. \A i \in before : i < n /\ i \in Nat /\ more[i] = line[i] /\ line[i].order # Unseen
  <2>1. \A i \in DOMAIN line : line[i] \in S
    BY ElementOfSeq, LenProperties
  <2>2. Unseen \notin Numbers
    BY NumbersAre DEF Unseen
  <2> QED
    BY <1>1, <2>1, <2>2 DEF PlacesOf
<1> HIDE DEF more, before, places, n
<1>3. ASSUME NEW i \in places, NEW j \in places, Follows(i, j, places)
      PROVE  Forward(more[i].order, more[j].order) \in 1 .. Half - 1
  <2>1. i < j /\ \A k \in places : k <= i \/ j <= k
    BY <1>3 DEF Follows
  <2>2. i \in before
    BY <1>1, <1>2, <2>1
  <2>3. CASE j \in before
    <3>1. Follows(i, j, before)
      BY <1>1, <2>1 DEF Follows
    <3> QED
      BY <1>2, <2>2, <2>3, <3>1 DEF SequencedSoFar, before
  <2>4. CASE j = n
    <3>1. \A k \in before : k <= i
      BY <1>1, <1>2, <2>1, <2>4
    <3>2. latest = line[i].order
      BY <2>2, <3>1 DEF SequencedSoFar, before
    <3> QED
      BY <1>1, <1>2, <2>2, <2>4, <3>2
  <2> QED
    BY <1>1, <2>3, <2>4
<1>4. ASSUME NEW i \in places, \A j \in places : j <= i
      PROVE  p.order = more[i].order
  <2>1. i = n
    BY <1>1, <1>2, <1>4
  <2> QED
    BY <1>1, <2>1
<1> QED
  BY <1>3, <1>4 DEF SequencedSoFar, places, more

LEMMA SendsIs ==
  ASSUME NEW S, NEW base, NEW first, Sends(S, base, first), NEW p \in S
  PROVE  /\ p.message \in Numbers /\ p.order \in Numbers /\ p.channel \in {0, 1}
         /\ p.kind \in {"unreliable", "reliable", "ordered", "sequenced", "reliableSequenced"}
         /\ p.part \in Nat /\ p.parts \in Nat /\ p.part < p.parts
         /\ base \in Numbers /\ first[p.channel] \in Numbers
         /\ IsReliable(p) => Forward(base, p.message) \in 1 .. Half - 1
         /\ p.kind = "ordered" => Forward(first[p.channel], p.order) < Half
         /\ \A q \in S : AreOfOneClient(p, q) /\ AreOfOneClient(q, p)
<1>1. IsPacket(p)
  BY DEF Sends, ArePackets
<1>2. p.channel \in {0, 1}
  BY <1>1, PacketIs
<1> QED
  BY <1>1, <1>2, PacketIs DEF Sends

LEMMA HandOrdered ==
  ASSUME NEW S, NEW base, NEW first, Sends(S, base, first),
         NEW line, NEW order, NEW sequenced, IsLine(S, first, line, order, sequenced),
         NEW p \in S, p.kind = "ordered", p.order = order[p.channel], p.name \notin NamesIn(line)
  PROVE  IsLine(S, first, Append(line, p), [order EXCEPT ![p.channel] = Advance(p.order, 1)], sequenced)
<1> DEFINE more == Append(line, p)
           c == p.channel
           after == [order EXCEPT ![c] = Advance(p.order, 1)]
<1>1. /\ line \in Seq(S) /\ ReliableOnce(line) /\ order \in [{0, 1} -> Numbers]
      /\ sequenced \in [{0, 1} -> Numbers \union {Unseen}]
      /\ \A d \in {0, 1} : /\ OrderedSoFar(S, first[d], line, d, order[d])
                           /\ SequencedSoFar(line, d, sequenced[d])
  BY DEF IsLine
<1>2. /\ c \in {0, 1} /\ p.order \in Numbers /\ first[c] \in Numbers
      /\ Forward(first[c], p.order) < Half
      /\ \A q \in S : AreOfOneClient(q, p)
  BY SendsIs
<1>3. more \in Seq(S)
  BY <1>1, OneMore
<1>4. ReliableOnce(more)
  <2>1. \A q \in S : q.name = p.name => q.kind = p.kind
    BY <1>2 DEF AreOfOneClient
  <2> QED
    BY <1>1, <2>1, OnceMore
<1>5. OrderedSoFar(S, first[c], more, c, Advance(p.order, 1))
  <2>1. \A q \in S : q.kind = "ordered" /\ q.channel = c
                       => q.order \in Numbers /\ (q.order = p.order => q.name = p.name)
    BY <1>2, SendsIs DEF AreOfOneClient
  <2>2. OrderedSoFar(S, first[c], line, c, p.order)
    BY <1>1, <1>2
  <2> QED
    BY <1>1, <1>2, <2>1, <2>2, OrderedNext
<1>6. after \in [{0, 1} -> Numbers] /\ after[c] = Advance(p.order, 1)
      /\ \A d \in {0, 1} \ {c} : after[d] = order[d]
  <2>1. Advance(p.order, 1) \in Numbers
    BY <1>2, AdvanceIs
  <2> QED
    BY <1>1, <1>2, <2>1
<1> HIDE DEF more, after
<1>7. ASSUME NEW d \in {0, 1}
      PROVE  OrderedSoFar(S, first[d], more, d, after[d]) /\ SequencedSoFar(more, d, sequenced[d])
  <2>1. SequencedSoFar(more, d, sequenced[d])
    BY <1>1, SequencedOther DEF more
  <2>2. CASE d = c
    BY <1>5, <1>6, <2>1, <2>2
  <2>3. CASE d # c
    <3>1. OrderedSoFar(S, first[d], more, d, order[d])
      BY <1>1, <2>3, OrderedOther DEF more
    <3> QED
      BY <1>6, <2>1, <2>3, <3>1
  <2> QED
    BY <2>2, <2>3
<1> QED
  BY <1>1, <1>3, <1>4, <1>6, <1>7 DEF IsLine, more, after

LEMMA HandSequenced ==
  ASSUME NEW S, NEW base, NEW first, Sends(S, base, first),
         NEW line, NEW order, NEW sequenced, IsLine(S, first, line, order, sequenced),
         NEW p \in S, p.kind \in {"sequenced", "reliableSequenced"},
         sequenced[p.channel] = Unseen \/ Forward(sequenced[p.channel], p.order) \in 1 .. Half - 1,
         IsReliable(p) => p.name \notin NamesIn(line)
  PROVE  IsLine(S, first, Append(line, p), order, [sequenced EXCEPT ![p.channel] = p.order])
<1> DEFINE more == Append(line, p)
           c == p.channel
           after == [sequenced EXCEPT ![c] = p.order]
<1>1. /\ line \in Seq(S) /\ ReliableOnce(line) /\ order \in [{0, 1} -> Numbers]
      /\ sequenced \in [{0, 1} -> Numbers \union {Unseen}]
      /\ \A d \in {0, 1} : /\ OrderedSoFar(S, first[d], line, d, order[d])
                           /\ SequencedSoFar(line, d, sequenced[d])
  BY DEF IsLine
<1>2. c \in {0, 1} /\ p.order \in Numbers /\ \A q \in S : AreOfOneClient(q, p) /\ q.order \in Numbers
  BY SendsIs
<1>3. more \in Seq(S)
  BY <1>1, OneMore
<1>4. ReliableOnce(more)
  <2>1. \A q \in S : q.name = p.name => q.kind = p.kind
    BY <1>2 DEF AreOfOneClient
  <2> QED
    BY <1>1, <2>1, OnceMore
<1>5. SequencedSoFar(more, c, p.order)
  <2>1. SequencedSoFar(line, c, sequenced[c])
    BY <1>1, <1>2
  <2> QED
    BY <1>1, <1>2, <2>1, SequencedNext
<1>6. after \in [{0, 1} -> Numbers \union {Unseen}] /\ after[c] = p.order
      /\ \A d \in {0, 1} \ {c} : after[d] = sequenced[d]
  BY <1>1, <1>2
<1> HIDE DEF more, after
<1>7. ASSUME NEW d \in {0, 1}
      PROVE  OrderedSoFar(S, first[d], more, d, order[d]) /\ SequencedSoFar(more, d, after[d])
  <2>1. OrderedSoFar(S, first[d], more, d, order[d])
    BY <1>1, OrderedOther DEF more
  <2>2. CASE d = c
    BY <1>5, <1>6, <2>1, <2>2
  <2>3. CASE d # c
    <3>1. SequencedSoFar(more, d, sequenced[d])
      BY <1>1, <2>3, SequencedOther DEF more
    <3> QED
      BY <1>6, <2>1, <2>3, <3>1
  <2> QED
    BY <2>2, <2>3
<1> QED
  BY <1>1, <1>3, <1>4, <1>6, <1>7 DEF IsLine, more, after

LEMMA HandOther ==
  ASSUME NEW S, NEW base, NEW first, Sends(S, base, first),
         NEW line, NEW order, NEW sequenced, IsLine(S, first, line, order, sequenced),
         NEW p \in S, p.kind \in {"unreliable", "reliable"},
         IsReliable(p) => p.name \notin NamesIn(line)
  PROVE  IsLine(S, first, Append(line, p), order, sequenced)
<1> DEFINE more == Append(line, p)
<1>1. /\ line \in Seq(S) /\ ReliableOnce(line) /\ order \in [{0, 1} -> Numbers]
      /\ sequenced \in [{0, 1} -> Numbers \union {Unseen}]
      /\ \A d \in {0, 1} : /\ OrderedSoFar(S, first[d], line, d, order[d])
                           /\ SequencedSoFar(line, d, sequenced[d])
  BY DEF IsLine
<1>2. \A q \in S : AreOfOneClient(q, p)
  BY SendsIs
<1>3. more \in Seq(S)
  BY <1>1, OneMore
<1>4. ReliableOnce(more)
  <2>1. \A q \in S : q.name = p.name => q.kind = p.kind
    BY <1>2 DEF AreOfOneClient
  <2> QED
    BY <1>1, <2>1, OnceMore
<1>5. ASSUME NEW d \in {0, 1}
      PROVE  OrderedSoFar(S, first[d], more, d, order[d]) /\ SequencedSoFar(more, d, sequenced[d])
  BY <1>1, OrderedOther, SequencedOther
<1> HIDE DEF more
<1> QED
  BY <1>1, <1>3, <1>4, <1>5 DEF IsLine, more

\* A packet that is due and those that it releases, one after another.
LEMMA HandReleased ==
  ASSUME NEW S, NEW base, NEW first, Sends(S, base, first),
         NEW line, NEW order, NEW sequenced, IsLine(S, first, line, order, sequenced),
         NEW p \in S, p.kind = "ordered", p.order = order[p.channel], p.name \notin NamesIn(line),
         NEW count \in Nat, count < Modulus, NEW released \in [1 .. count -> S],
         \A i \in 1 .. count : /\ released[i].kind = "ordered" /\ released[i].channel = p.channel
                               /\ released[i].order = Advance(p.order, i)
                               /\ released[i].name \notin NamesIn(line) \union {p.name},
         \A i, j \in 1 .. count : i # j => released[i].name # released[j].name
  PROVE  LET all == line \o (<<p>> \o released)
         IN  /\ IsLine(S, first, all, [order EXCEPT ![p.channel] = Advance(p.order, count + 1)], sequenced)
             /\ NamesIn(all) = NamesIn(line) \union {p.name} \union {released[i].name : i \in 1 .. count}
<1> DEFINE c == p.channel
           Some(k) == line \o (<<p>> \o [i \in 1 .. k |-> released[i]])
           Order(k) == [order EXCEPT ![c] = Advance(p.order, k + 1)]
           Good(k) == /\ IsLine(S, first, Some(k), Order(k), sequenced)
                      /\ NamesIn(Some(k)) = NamesIn(line) \union {p.name} \union {released[i].name : i \in 1 .. k}
           T == {k \in 0 .. count : Good(k)}
<1>1. line \in Seq(S) /\ order \in [{0, 1} -> Numbers] /\ c \in {0, 1} /\ p.order \in Numbers
  BY SendsIs DEF IsLine
<1>2. ASSUME NEW k \in 0 .. count
      PROVE  /\ [i \in 1 .. k |-> released[i]] \in Seq(S)
             /\ Len([i \in 1 .. k |-> released[i]]) = k
  BY <1>2
<1>3. Some(0) = Append(line, p)
  <2>1. [i \in 1 .. 0 |-> released[i]] = <<>>
    OBVIOUS
  <2>2. <<p>> \o <<>> = <<p>>
    BY OnePacket, ConcatEmptySeq
  <2> QED
    BY <1>1, <2>1, <2>2, AppendIsConcat
<1>4. ASSUME NEW k \in 1 .. count
      PROVE  Some(k) = Append(Some(k - 1), released[k])
  <2> DEFINE short == [i \in 1 .. k - 1 |-> released[i]]
             long == [i \in 1 .. k |-> released[i]]
  <2>0. k - 1 \in 0 .. count /\ k \in 0 .. count /\ released[k] \in S
    BY <1>4
  <2>1. short \in Seq(S) /\ Len(short) = k - 1 /\ long \in Seq(S) /\ Len(long) = k
    BY <1>2, <2>0
  <2>2. long = Append(short, released[k])
    <3>1. /\ Append(short, released[k]) \in Seq(S) /\ Len(Append(short, released[k])) = k
          /\ \A i \in 1 .. k - 1 : Append(short, released[k])[i] = short[i]
          /\ Append(short, released[k])[k] = released[k]
      BY <1>4, <2>0, <2>1, AppendProperties
    <3>2. \A i \in 1 .. k : i \in 1 .. k - 1 \/ i = k
      BY <1>4
    <3>3. \A i \in 1 .. k : long[i] = Append(short, released[k])[i]
      BY <3>1, <3>2
    <3> HIDE DEF long, short
    <3> QED
      BY <2>1, <3>1, <3>3, SeqEqual
  <2> HIDE DEF short, long
  <2>3. long = short \o <<released[k]>> /\ <<released[k]>> \in Seq(S) /\ <<p>> \in Seq(S)
    BY <2>0, <2>1, <2>2, AppendIsConcat, OnePacket
  <2>4. <<p>> \o long = (<<p>> \o short) \o <<released[k]>> /\ <<p>> \o short \in Seq(S)
    BY <2>1, <2>3, ConcatAssociative, ConcatProperties
  <2>5. line \o (<<p>> \o long) = (line \o (<<p>> \o short)) \o <<released[k]>>
        /\ line \o (<<p>> \o short) \in Seq(S)
    BY <1>1, <2>3, <2>4, ConcatAssociative, ConcatProperties
  <2>6. line \o (<<p>> \o long) = Append(line \o (<<p>> \o short), released[k])
    <3>1. ASSUME NEW t \in Seq(S)
          PROVE  t \o <<released[k]>> = Append(t, released[k])
      BY <2>0, AppendIsConcat
    <3> QED
      BY <2>5, <3>1
  <2> QED
    BY <2>6 DEF short, long
<1>5. 0 \in T
  <2>1. Order(0) = [order EXCEPT ![c] = Advance(p.order, 1)]
    OBVIOUS
  <2>2. NamesIn(Append(line, p)) = NamesIn(line) \union {p.name}
    BY <1>1, OneMore
  <2>3. IsLine(S, first, Append(line, p), Order(0), sequenced)
    BY <2>1, HandOrdered
  <2>4. {released[i].name : i \in 1 .. 0} = {}
    OBVIOUS
  <2> HIDE DEF Some, Order
  <2>5. Good(0)
    BY <1>3, <2>2, <2>3, <2>4
  <2> HIDE DEF Good
  <2> QED
    BY <2>5
<1>6. ASSUME NEW k \in 1 .. count, k - 1 \in T
      PROVE  k \in T
  <2> DEFINE q == released[k]
             so == Some(k - 1)
  <2>1. /\ q \in S /\ q.kind = "ordered" /\ q.channel = c /\ q.order = Advance(p.order, k)
        /\ IsLine(S, first, so, Order(k - 1), sequenced) /\ k \in Nat /\ k < Modulus
        /\ NamesIn(so) = NamesIn(line) \union {p.name} \union {released[i].name : i \in 1 .. k - 1}
    <3>1. Good(k - 1)
      <4> HIDE DEF Good
      <4> QED
        BY <1>6
    <3>2. q \in S /\ q.kind = "ordered" /\ q.channel = c /\ q.order = Advance(p.order, k)
          /\ k \in Nat /\ k < Modulus
      <4>1. k \in 1 .. count /\ Modulus \in Nat
        BY <1>6, Sizes
      <4> HIDE DEF T
      <4> QED
        BY <4>1
    <3> HIDE DEF Some, Order, q
    <3> QED
      BY <3>1, <3>2
  <2>2. q.name \notin NamesIn(so)
    <3>1. \A i \in 1 .. k - 1 : i \in 1 .. count /\ i # k
      BY <1>6
    <3> QED
      BY <1>6, <2>1, <3>1
  <2>3. Order(k - 1)[c] = q.order
    <3>1. Order(k - 1)[c] = Advance(p.order, k - 1 + 1) /\ k - 1 + 1 = k
      BY <1>1, <2>1
    <3> QED
      BY <2>1, <3>1
  <2>4. [Order(k - 1) EXCEPT ![c] = Advance(q.order, 1)] = Order(k)
    <3>1. Advance(q.order, 1) = Advance(p.order, k + 1)
      <4>1. k + 1 <= Modulus /\ Modulus \in Nat
        BY <2>1, Sizes
      <4> QED
        BY <1>1, <2>1, <4>1, AdvanceTwice
    <3> QED
      BY <1>1, <3>1
  <2> HIDE DEF q, so, Order
  <2>5. IsLine(S, first, Append(so, q), [Order(k - 1) EXCEPT ![c] = Advance(q.order, 1)], sequenced)
    <3>1. q.order = Order(k - 1)[q.channel]
      BY <2>1, <2>3
    <3> QED
      BY <2>1, <2>2, <3>1, HandOrdered
  <2>6. NamesIn(Append(so, q)) = NamesIn(so) \union {q.name}
    BY <2>1, OneMore DEF IsLine
  <2>7. {released[i].name : i \in 1 .. k - 1} \union {q.name} = {released[i].name : i \in 1 .. k}
    <3>1. \A i \in 1 .. k : i \in 1 .. k - 1 \/ i = k
      BY <2>1
    <3>2. \A i \in 1 .. k - 1 : i \in 1 .. k
      BY <2>1
    <3>3. k \in 1 .. k
      BY <1>6
    <3> QED
      BY <3>1, <3>2, <3>3 DEF q
  <2>8. Some(k) = Append(so, q)
    BY <1>4 DEF so, q
  <2> HIDE DEF Some
  <2>9. Good(k)
    BY <2>1, <2>4, <2>5, <2>6, <2>7, <2>8
  <2> QED
    BY <1>6, <2>9
<1>7. 0 .. count \subseteq T
  <2> HIDE DEF T
  <2> QED
    BY <1>5, <1>6, CountUp
<1>8. Good(count)
  <2> HIDE DEF Good
  <2> QED
    BY <1>7
<1>9. [i \in 1 .. count |-> released[i]] = released
  OBVIOUS
<1> QED
  BY <1>8, <1>9

-----------------------------------------------------------------------------
(***************************************************************************)
(* A stream: the line, and the window beside it.                           *)
(***************************************************************************)
WaitingNames(r) == {w.name : w \in r.waiting}

\* What waits is in no other place, and a packet with a new message in none.
HeldOnce(S, line, r) ==
  /\ \A w \in r.waiting : w.kind = "ordered" /\ w.name \notin NamesIn(line)
  /\ \A w, v \in r.waiting : w.name = v.name => w = v
  /\ \A q \in S : IsReliable(q) /\ IsNewMessage(r, q.message)
       => /\ q.name \notin NamesIn(line) /\ q.name \notin WaitingNames(r)
          /\ <<q.name, q.part>> \notin PartsOf(r.splits)
  /\ \A x \in PartsOf(r.splits) : \E q \in S : x = <<q.name, q.part>>

\* No message that was seen, of those after base, is ahead of the latest.
SeenSoFar(base, r) ==
  r.seen # {} => /\ Forward(base, r.latest) < Half
                 /\ \A i \in r.seen : Forward(base, i) < Half
                                        => Forward(base, i) <= Forward(base, r.latest)

IsStream(S, base, first, line, r) ==
  /\ WindowFits(r, S) /\ SeenSoFar(base, r) /\ HeldOnce(S, line, r)
  /\ IsLine(S, first, line, r.order, r.sequenced)

\* All of a reliable packet has come, and it is not yet anywhere.
InHand(S, line, r, p) ==
  IsReliable(p) => /\ p.name \notin NamesIn(line) /\ p.name \notin WaitingNames(r)
                   /\ \A q \in S : q.name = p.name => ~IsNewMessage(r, q.message)

Within(line, r) == NamesIn(line) \union WaitingNames(r)

LEMMA NewIsSame ==
  ASSUME NEW r, NEW s, SameSeen(r, s), NEW message
  PROVE  IsNewMessage(s, message) <=> IsNewMessage(r, message)
BY DEF SameSeen, IsNewMessage

LEMMA WaitingIs ==
  ASSUME NEW S, NEW base, NEW first, NEW line, NEW r, IsStream(S, base, first, line, r), NEW w \in r.waiting
  PROVE  w \in S /\ w.kind = "ordered" /\ w.name \notin NamesIn(line) /\ w.name \in WaitingNames(r)
BY DEF IsStream, WindowFits, WaitingFits, HeldOnce, WaitingNames

\* Not every index is waited for.
LEMMA RunEnds ==
  ASSUME NEW S, NEW base, NEW first, Sends(S, base, first), NEW line, NEW r,
         IsStream(S, base, first, line, r), NEW p \in S,
         NEW count, NEW released, NEW s, Releases(r, p, count, released, s)
  PROVE  count \in Nat /\ count < Modulus
<1> DEFINE c == p.channel
           from == Advance(r.order[c], 1)
           beyond == Advance(first[c], Half)
<1>1. c \in {0, 1} /\ first[c] \in Numbers /\ r.order[c] \in Numbers
  BY SendsIs DEF IsStream, IsLine
<1>2. from \in Numbers /\ beyond \in Numbers /\ Forward(first[c], beyond) = Half
  BY <1>1, AdvanceIs, ForwardAdvance, NumbersAre, Sizes
<1>3. count \in 0 .. Modulus /\ Modulus \in Nat
  BY Sizes DEF Releases
<1>4. ASSUME count = Modulus
      PROVE  FALSE
  <2>1. Forward(from, beyond) \in Numbers /\ Advance(from, Forward(from, beyond)) = beyond
    BY <1>2, ForwardIs, AdvanceForward
  <2>2. PICK w \in WaitingOn(r, c) : w.order = beyond
    BY <1>4, <2>1 DEF Releases
  <2>3. w \in S /\ w.kind = "ordered" /\ w.channel = c
    BY <2>2, WaitingIs DEF WaitingOn
  <2>4. Forward(first[c], w.order) < Half
    BY <2>3, SendsIs
  <2> QED
    BY <1>2, <2>2, <2>4, Sizes
<1> QED
  BY <1>3, <1>4

LEMMA ReleasedStream ==
  ASSUME NEW S, NEW base, NEW first, Sends(S, base, first), NEW line, NEW r,
         IsStream(S, base, first, line, r), NEW p \in S, p.kind = "ordered", InHand(S, line, r, p),
         p.order = r.order[p.channel],
         NEW count, NEW released, NEW s, Releases(r, p, count, released, s), WindowFits(s, S)
  PROVE  LET all == line \o (<<p>> \o released)
         IN  /\ IsStream(S, base, first, all, s) /\ Within(line, r) \subseteq Within(all, s)
             /\ p.name \in Within(all, s)
<1> DEFINE c == p.channel
           all == line \o (<<p>> \o released)
           out == {released[i].name : i \in 1 .. count}
<1>1. count \in Nat /\ count < Modulus
  BY RunEnds
<1>2. /\ released \in [1 .. count -> WaitingOn(r, c)]
      /\ \A i \in 1 .. count : released[i].order = Advance(r.order[c], i)
      /\ OnlyOrdered(r, s) /\ s.order = [r.order EXCEPT ![c] = Advance(r.order[c], count + 1)]
      /\ s.waiting = r.waiting \ {released[i] : i \in 1 .. count}
  BY DEF Releases
<1>3. ASSUME NEW i \in 1 .. count
      PROVE  /\ released[i] \in r.waiting /\ released[i] \in S /\ released[i].channel = c
             /\ released[i].kind = "ordered" /\ released[i].order = Advance(p.order, i)
             /\ released[i].name \notin NamesIn(line) /\ released[i].name \in WaitingNames(r)
  <2>1. released[i] \in r.waiting /\ released[i].channel = c
    BY <1>2 DEF WaitingOn
  <2> QED
    BY <1>2, <2>1, WaitingIs
<1>4. IsReliable(p) /\ p.name \notin NamesIn(line) /\ p.name \notin WaitingNames(r)
      /\ \A q \in S : q.name = p.name => ~IsNewMessage(r, q.message)
  BY DEF InHand, IsReliable
<1>5. HeldOnce(S, line, r) /\ IsLine(S, first, line, r.order, r.sequenced) /\ SeenSoFar(base, r)
  BY DEF IsStream
<1>6. p.order \in Numbers /\ r.order[c] \in Numbers
  BY SendsIs
<1>7. ASSUME NEW i \in 1 .. count, NEW j \in 1 .. count, i # j
      PROVE  released[i].name # released[j].name
  <2>1. i \in Numbers /\ j \in Numbers
    BY <1>1, NumbersAre
  <2>2. Advance(p.order, i) # Advance(p.order, j)
    <3>1. Forward(p.order, Advance(p.order, i)) = i
      BY <1>6, <2>1, ForwardAdvance
    <3>2. Forward(p.order, Advance(p.order, j)) = j
      BY <1>6, <2>1, ForwardAdvance
    <3> QED
      BY <1>7, <3>1, <3>2
  <2>3. released[i] # released[j]
    BY <1>3, <2>2
  <2> QED
    BY <1>3, <1>5, <2>3 DEF HeldOnce
<1>8. /\ IsLine(S, first, all, s.order, s.sequenced)
      /\ NamesIn(all) = NamesIn(line) \union {p.name} \union out
  <2>1. released \in [1 .. count -> S]
    BY <1>2, <1>3
  <2>2. \A i \in 1 .. count : released[i].name \notin NamesIn(line) \union {p.name}
    BY <1>3, <1>4
  <2>3. s.sequenced = r.sequenced
    BY <1>2 DEF OnlyOrdered
  <2>4. /\ IsLine(S, first, all, [r.order EXCEPT ![c] = Advance(p.order, count + 1)], r.sequenced)
        /\ NamesIn(all) = NamesIn(line) \union {p.name} \union out
    BY <1>1, <1>3, <1>4, <1>5, <1>7, <2>1, <2>2, HandReleased
  <2> QED
    BY <1>2, <2>3, <2>4
<1> HIDE DEF all
<1>9. ASSUME NEW w \in s.waiting
      PROVE  w \in r.waiting /\ w.kind = "ordered" /\ w.name \notin NamesIn(all)
  <2>1. w \in r.waiting /\ \A i \in 1 .. count : w # released[i]
    BY <1>2
  <2>2. w.kind = "ordered" /\ w.name \notin NamesIn(line) /\ w.name \in WaitingNames(r)
    BY <2>1, WaitingIs
  <2>3. w.name \notin out
    BY <1>3, <1>5, <2>1 DEF HeldOnce
  <2> QED
    BY <1>4, <1>8, <2>1, <2>2, <2>3
<1>10. ASSUME NEW q \in S, IsReliable(q), IsNewMessage(s, q.message)
       PROVE  /\ q.name \notin NamesIn(all) /\ q.name \notin WaitingNames(s)
              /\ <<q.name, q.part>> \notin PartsOf(s.splits)
  <2>1. IsNewMessage(r, q.message)
    BY <1>2, <1>10, NewIsSame DEF OnlyOrdered
  <2>2. /\ q.name \notin NamesIn(line) /\ q.name \notin WaitingNames(r)
        /\ <<q.name, q.part>> \notin PartsOf(r.splits)
    BY <1>5, <1>10, <2>1 DEF HeldOnce
  <2>3. q.name # p.name /\ q.name \notin out
    BY <1>3, <1>4, <2>1, <2>2
  <2>4. WaitingNames(s) \subseteq WaitingNames(r) /\ s.splits = r.splits
    BY <1>2, <1>9 DEF WaitingNames, OnlyOrdered
  <2> QED
    BY <1>8, <2>2, <2>3, <2>4
<1>11. HeldOnce(S, all, s)
  <2>1. \A w, v \in s.waiting : w.name = v.name => w = v
    BY <1>5, <1>9 DEF HeldOnce
  <2>2. \A x \in PartsOf(s.splits) : \E q \in S : x = <<q.name, q.part>>
    BY <1>2, <1>5 DEF HeldOnce, OnlyOrdered
  <2> QED
    BY <1>9, <1>10, <2>1, <2>2 DEF HeldOnce
<1>12. SeenSoFar(base, s)
  BY <1>2, <1>5 DEF SeenSoFar, OnlyOrdered, SameSeen
<1>13. Within(line, r) \subseteq Within(all, s) /\ p.name \in Within(all, s)
  <2>1. \A w \in r.waiting : w \in s.waiting \/ w.name \in out
    BY <1>2
  <2> QED
    BY <1>8, <2>1 DEF Within, WaitingNames
<1> QED
  BY <1>8, <1>11, <1>12, <1>13 DEF IsStream, all

LEMMA WaitingStream ==
  ASSUME NEW S, NEW base, NEW first, Sends(S, base, first), NEW line, NEW r,
         IsStream(S, base, first, line, r), NEW p \in S, p.kind = "ordered", InHand(S, line, r, p),
         NEW s, OnlyOrdered(r, s), s.order = r.order, s.waiting = r.waiting \union {p}, WindowFits(s, S)
  PROVE  /\ IsStream(S, base, first, line, s)
         /\ Within(line, r) \subseteq Within(line, s) /\ p.name \in Within(line, s)
<1>1. HeldOnce(S, line, r) /\ IsLine(S, first, line, r.order, r.sequenced) /\ SeenSoFar(base, r)
  BY DEF IsStream
<1>2. p.name \notin NamesIn(line) /\ p.name \notin WaitingNames(r)
      /\ \A q \in S : q.name = p.name => ~IsNewMessage(r, q.message)
  BY DEF InHand, IsReliable
<1>3. /\ WaitingNames(s) = WaitingNames(r) \union {p.name} /\ s.splits = r.splits
      /\ s.sequenced = r.sequenced /\ SameSeen(r, s)
  BY DEF WaitingNames, OnlyOrdered
<1>4. \A w, v \in s.waiting : w.name = v.name => w = v
  BY <1>1, <1>2 DEF HeldOnce, WaitingNames
<1>5. ASSUME NEW q \in S, IsReliable(q), IsNewMessage(s, q.message)
      PROVE  /\ q.name \notin NamesIn(line) /\ q.name \notin WaitingNames(s)
             /\ <<q.name, q.part>> \notin PartsOf(s.splits)
  <2>1. IsNewMessage(r, q.message)
    BY <1>3, <1>5, NewIsSame
  <2> QED
    BY <1>1, <1>2, <1>3, <1>5, <2>1 DEF HeldOnce
<1>6. \A w \in s.waiting : w.kind = "ordered" /\ w.name \notin NamesIn(line)
  BY <1>1, <1>2 DEF HeldOnce
<1>7. HeldOnce(S, line, s)
  BY <1>1, <1>3, <1>4, <1>5, <1>6 DEF HeldOnce
<1>8. SeenSoFar(base, s)
  BY <1>1, <1>3 DEF SeenSoFar, SameSeen
<1> QED
  BY <1>1, <1>3, <1>7, <1>8 DEF IsStream, Within

LEMMA HandedStream ==
  ASSUME NEW S, NEW base, NEW first, Sends(S, base, first), NEW line, NEW r,
         IsStream(S, base, first, line, r), NEW p \in S, InHand(S, line, r, p),
         NEW s, SameSeen(r, s), SameOrdered(r, s), s.splits = r.splits, WindowFits(s, S),
         IsLine(S, first, Append(line, p), s.order, s.sequenced)
  PROVE  LET all == line \o <<p>>
         IN  /\ IsStream(S, base, first, all, s) /\ Within(line, r) \subseteq Within(all, s)
             /\ p.name \in Within(all, s)
<1> DEFINE all == Append(line, p)
<1>1. line \in Seq(S) /\ HeldOnce(S, line, r) /\ SeenSoFar(base, r)
  BY DEF IsStream, IsLine
<1>2. line \o <<p>> = all /\ NamesIn(all) = NamesIn(line) \union {p.name}
  BY <1>1, OneMore, AppendIsConcat
<1>3. WaitingNames(s) = WaitingNames(r) /\ s.waiting = r.waiting
  BY DEF SameOrdered, WaitingNames
<1>4. \A q \in S : q.name = p.name => q.kind = p.kind
  BY SendsIs DEF AreOfOneClient
<1> HIDE DEF all
<1>5. ASSUME NEW w \in s.waiting
      PROVE  w.kind = "ordered" /\ w.name \notin NamesIn(all)
  <2>1. w \in S /\ w.kind = "ordered" /\ w.name \notin NamesIn(line) /\ w.name \in WaitingNames(r)
    BY <1>3, WaitingIs
  <2>2. w.name # p.name
    BY <1>4, <2>1 DEF InHand, IsReliable
  <2> QED
    BY <1>2, <2>1, <2>2
<1>6. ASSUME NEW q \in S, IsReliable(q), IsNewMessage(s, q.message)
      PROVE  /\ q.name \notin NamesIn(all) /\ q.name \notin WaitingNames(s)
             /\ <<q.name, q.part>> \notin PartsOf(s.splits)
  <2>1. IsNewMessage(r, q.message)
    BY <1>6, NewIsSame
  <2>2. q.name # p.name
    BY <1>4, <1>6, <2>1 DEF InHand, IsReliable
  <2> QED
    BY <1>1, <1>2, <1>3, <1>6, <2>1, <2>2 DEF HeldOnce
<1>7. HeldOnce(S, all, s)
  BY <1>1, <1>3, <1>5, <1>6 DEF HeldOnce
<1>8. SeenSoFar(base, s)
  BY <1>1 DEF SeenSoFar, SameSeen
<1> QED
  BY <1>2, <1>3, <1>7, <1>8 DEF IsStream, Within, all

MustKeep(q) == q.kind \in {"ordered", "reliable"}

\* What is handed over, kept or dropped of a whole packet.
WholeIsTaken(S, base, first, line, r, p, o) ==
  LET all == line \o o.ready
  IN  /\ IsStream(S, base, first, all, o.receive)
      /\ SameDatagrams(r, o.receive) /\ SameSeen(r, o.receive) /\ o.receive.splits = r.splits
      /\ Within(line, r) \subseteq Within(all, o.receive)
      /\ ~o.isRefused /\ MustKeep(p) => p.name \in Within(all, o.receive)

LEMMA TakesWhole ==
  ASSUME NEW S, NEW base, NEW first, NEW line, NEW r, NEW p, NEW s, NEW ready,
         SameDatagrams(r, s), SameSeen(r, s), s.splits = r.splits,
         IsStream(S, base, first, line \o ready, s),
         Within(line, r) \subseteq Within(line \o ready, s)
  PROVE  /\ MustKeep(p) => p.name \in Within(line \o ready, s)
         => WholeIsTaken(S, base, first, line, r, p, Outcome(s, ready))
<1> DEFINE o == Outcome(s, ready)
<1>1. o.receive = s /\ o.ready = ready
  BY OutcomeIs
<1> HIDE DEF o
<1> QED
  BY <1>1 DEF WholeIsTaken, o

LEMMA NothingIsTaken ==
  ASSUME NEW S, NEW base, NEW first, NEW line, NEW r, NEW p, IsStream(S, base, first, line, r)
  PROVE  /\ WholeIsTaken(S, base, first, line, r, p, Refusal(r))
         /\ (MustKeep(p) => p.name \in Within(line, r))
              => WholeIsTaken(S, base, first, line, r, p, Outcome(r, <<>>))
<1>1. line \o <<>> = line
  BY ConcatEmptySeq DEF IsStream, IsLine
<1>2. SameDatagrams(r, r) /\ SameSeen(r, r)
  BY DEF SameDatagrams, SameSeen, IsStream, WindowFits
<1>3. (MustKeep(p) => p.name \in Within(line, r))
         => WholeIsTaken(S, base, first, line, r, p, Outcome(r, <<>>))
  BY <1>1, <1>2, TakesWhole
<1> DEFINE o == Refusal(r)
<1>4. o.receive = r /\ o.ready = <<>> /\ o.isRefused
  BY OutcomeIs
<1> HIDE DEF o
<1>5. WholeIsTaken(S, base, first, line, r, p, o)
  BY <1>1, <1>2, <1>4 DEF WholeIsTaken
<1> QED
  BY <1>3, <1>5 DEF o

LEMMA OrderedStream ==
  ASSUME NEW S, NEW base, NEW first, Sends(S, base, first), NEW line, NEW r,
         IsStream(S, base, first, line, r), NEW p \in S, p.kind = "ordered", InHand(S, line, r, p)
  PROVE  WholeIsTaken(S, base, first, line, r, p, AcceptOrdered(r, p))
<1> DEFINE c == p.channel
           Taken(o) == WholeIsTaken(S, base, first, line, r, p, o)
<1>1. /\ c \in {0, 1} /\ p.order \in Numbers /\ first[c] \in Numbers
      /\ Forward(first[c], p.order) < Half /\ \A q \in S : AreOfOneClient(q, p)
  BY SendsIs
<1>2. /\ IsWindow(r) /\ WindowFits(r, S) /\ r.order \in [{0, 1} -> Numbers]
      /\ OrderedSoFar(S, first[c], line, c, r.order[c]) /\ line \in Seq(S)
  BY <1>1 DEF IsStream, WindowFits, IsLine
<1>3. OutcomeFits(AcceptOrdered(r, p), S)
  BY <1>2, AcceptOrderedFits DEF Sends
<1>4. ASSUME p.order = r.order[c], NEW count, NEW released, NEW s, Releases(r, p, count, released, s),
             AcceptOrdered(r, p) = Outcome(s, <<p>> \o released)
      PROVE  Taken(Outcome(s, <<p>> \o released))
  <2>1. WindowFits(s, S)
    BY <1>3, <1>4, OutcomeIs DEF OutcomeFits
  <2>2. SameDatagrams(r, s) /\ SameSeen(r, s) /\ s.splits = r.splits
    BY <1>4 DEF Releases, OnlyOrdered
  <2> QED
    BY <1>4, <2>1, <2>2, ReleasedStream, TakesWhole
<1>5. ASSUME Forward(r.order[c], p.order) >= Half
      PROVE  Taken(Outcome(r, <<>>))
  <2>1. r.order[c] \in Numbers
    BY <1>1, <1>2
  <2>2. /\ Forward(first[c], p.order) \in Nat /\ Forward(first[c], r.order[c]) \in Nat
        /\ Half \in Nat
    BY <1>1, <2>1, ForwardIs, NumbersAre, Sizes
  <2>3. Forward(r.order[c], p.order) =
          IF Forward(first[c], r.order[c]) <= Forward(first[c], p.order)
          THEN Forward(first[c], p.order) - Forward(first[c], r.order[c])
          ELSE Forward(first[c], p.order) - Forward(first[c], r.order[c]) + Modulus
    BY <1>1, <2>1, ForwardOfPlaces
  <2>4. Forward(first[c], p.order) < Forward(first[c], r.order[c])
    BY <1>1, <1>5, <2>2, <2>3
  <2>5. p.name \in NamesIn(line)
    BY <1>2, <2>4 DEF OrderedSoFar
  <2> QED
    BY <2>5, NothingIsTaken DEF Within
<1>6. ASSUME NEW w \in WaitingOn(r, c), w.order = p.order
      PROVE  Taken(Outcome(r, <<>>))
  <2>1. w \in r.waiting /\ w.channel = c
    BY DEF WaitingOn
  <2>2. w \in S /\ w.kind = "ordered" /\ w.name \in WaitingNames(r)
    BY <2>1, WaitingIs
  <2>3. w.name = p.name
    BY <1>1, <1>6, <2>1, <2>2 DEF AreOfOneClient
  <2> QED
    BY <2>2, <2>3, NothingIsTaken DEF Within
<1>7. ASSUME NEW s, OnlyOrdered(r, s), s.order = r.order, s.waiting = r.waiting \union {p},
             AcceptOrdered(r, p) = Outcome(s, <<>>)
      PROVE  Taken(Outcome(s, <<>>))
  <2>1. WindowFits(s, S)
    BY <1>3, <1>7, OutcomeIs DEF OutcomeFits
  <2>2. SameDatagrams(r, s) /\ SameSeen(r, s) /\ s.splits = r.splits
    BY <1>7 DEF OnlyOrdered
  <2>3. line \o <<>> = line
    BY <1>2, ConcatEmptySeq
  <2> QED
    BY <1>7, <2>1, <2>2, <2>3, WaitingStream, TakesWhole
<1>8. Taken(Refusal(r))
  BY NothingIsTaken
<1> HIDE DEF Taken
<1>9. Taken(AcceptOrdered(r, p))
  BY <1>1, <1>2, <1>4, <1>5, <1>6, <1>7, <1>8, AcceptOrderedIs
<1> QED
  BY <1>9 DEF Taken

LEMMA WholeStream ==
  ASSUME NEW S, NEW base, NEW first, Sends(S, base, first), NEW line, NEW r,
         IsStream(S, base, first, line, r), NEW p \in S, InHand(S, line, r, p)
  PROVE  WholeIsTaken(S, base, first, line, r, p, AcceptWhole(r, p))
<1> DEFINE Taken(o) == WholeIsTaken(S, base, first, line, r, p, o)
<1>1. /\ IsWindow(r) /\ WindowFits(r, S) /\ IsLine(S, first, line, r.order, r.sequenced)
      /\ line \in Seq(S)
  BY DEF IsStream, WindowFits, IsLine
<1>2. p.kind \in {"unreliable", "reliable", "ordered", "sequenced", "reliableSequenced"}
  BY SendsIs
<1>3. IsReliable(p) => p.name \notin NamesIn(line)
  BY DEF InHand
<1>4. OutcomeFits(AcceptWhole(r, p), S)
  BY <1>1, AcceptWholeFits DEF Sends
<1>5. CASE p.kind = "ordered"
  <2>1. AcceptWhole(r, p) = AcceptOrdered(r, p)
    BY <1>5 DEF AcceptWhole
  <2> QED
    BY <1>5, <2>1, OrderedStream
<1>6. CASE p.kind \in {"sequenced", "reliableSequenced"}
  <2>1. AcceptWhole(r, p) = AcceptSequenced(r, p) /\ ~MustKeep(p)
    BY <1>6 DEF AcceptWhole, MustKeep
  <2>2. ASSUME r.sequenced[p.channel] = Unseen \/ Forward(r.sequenced[p.channel], p.order) \in 1 .. Half - 1,
               NEW s, OnlySequenced(r, s), AcceptSequenced(r, p) = Outcome(s, <<p>>),
               s.sequenced = [r.sequenced EXCEPT ![p.channel] = p.order]
        PROVE  Taken(AcceptSequenced(r, p))
    <3>1. WindowFits(s, S)
      BY <1>4, <2>1, <2>2, OutcomeIs DEF OutcomeFits
    <3>2. SameDatagrams(r, s) /\ SameSeen(r, s) /\ SameOrdered(r, s) /\ s.splits = r.splits
      BY <2>2 DEF OnlySequenced
    <3>3. IsLine(S, first, Append(line, p), s.order, s.sequenced)
      <4>1. IsLine(S, first, Append(line, p), r.order, [r.sequenced EXCEPT ![p.channel] = p.order])
        BY <1>1, <1>3, <1>6, <2>2, HandSequenced
      <4> QED
        BY <2>2, <3>2, <4>1 DEF SameOrdered
    <3> QED
      BY <2>2, <3>1, <3>2, <3>3, HandedStream, TakesWhole
  <2>3. Taken(Outcome(r, <<>>))
    BY <2>1, NothingIsTaken
  <2> HIDE DEF Taken
  <2>4. Taken(AcceptSequenced(r, p))
    BY <1>1, <2>2, <2>3, AcceptSequencedIs
  <2> QED
    BY <2>1, <2>4 DEF Taken
<1>7. CASE p.kind \in {"unreliable", "reliable"}
  <2>1. AcceptWhole(r, p) = Outcome(r, <<p>>)
    BY <1>7 DEF AcceptWhole
  <2>2. SameDatagrams(r, r) /\ SameSeen(r, r) /\ SameOrdered(r, r)
    BY <1>1 DEF SameDatagrams, SameSeen, SameOrdered
  <2>3. IsLine(S, first, Append(line, p), r.order, r.sequenced)
    BY <1>1, <1>3, <1>7, HandOther
  <2> QED
    BY <1>1, <2>1, <2>2, <2>3, HandedStream, TakesWhole
<1> QED
  BY <1>2, <1>5, <1>6, <1>7

-----------------------------------------------------------------------------
(***************************************************************************)
(* Split packets.                                                          *)
(***************************************************************************)
Kept(line, r, q) == q.name \in Within(line, r) \/ <<q.name, q.part>> \in PartsOf(r.splits)

\* What is handed over, kept or dropped of a packet that has a new message.
PacketIsTaken(S, base, first, line, r, p, o) ==
  LET all == line \o o.ready
  IN  /\ IsStream(S, base, first, all, o.receive)
      /\ SameDatagrams(r, o.receive) /\ SameSeen(r, o.receive)
      /\ ~o.isRefused =>
           /\ \A q \in S : MustKeep(q) /\ Kept(line, r, q) => Kept(all, o.receive, q)
           /\ MustKeep(p) => Kept(all, o.receive, p)

LEMMA FewerPartsStream ==
  ASSUME NEW S, NEW base, NEW first, NEW line, NEW r, IsStream(S, base, first, line, r),
         NEW s, OnlySplits(r, s), PartsOf(s.splits) \subseteq PartsOf(r.splits)
  PROVE  IsStream(S, base, first, line, s) /\ Within(line, s) = Within(line, r)
<1>1. /\ WindowFits(r, S) /\ SeenSoFar(base, r) /\ HeldOnce(S, line, r)
      /\ IsLine(S, first, line, r.order, r.sequenced)
  BY DEF IsStream
<1>2. WindowFits(s, S)
  BY <1>1, OnlySplitsFits, FewerPartsFit DEF WindowFits
<1>3. /\ SameSeen(r, s) /\ s.order = r.order /\ s.waiting = r.waiting /\ s.sequenced = r.sequenced
      /\ WaitingNames(s) = WaitingNames(r)
  BY DEF OnlySplits, SameOrdered, WaitingNames
<1>4. SeenSoFar(base, s)
  BY <1>1, <1>3 DEF SeenSoFar, SameSeen
<1>5. \A q \in S : IsNewMessage(s, q.message) => IsNewMessage(r, q.message)
  BY <1>3, NewIsSame
<1>6. HeldOnce(S, line, s)
  BY <1>1, <1>3, <1>5 DEF HeldOnce
<1> QED
  BY <1>1, <1>2, <1>3, <1>4, <1>6 DEF IsStream, Within

LEMMA MorePartsStream ==
  ASSUME NEW S, NEW base, NEW first, Sends(S, base, first), NEW line, NEW r,
         IsStream(S, base, first, line, r), NEW p \in S,
         IsReliable(p) => ~IsNewMessage(r, p.message), NEW s, OnlySplits(r, s), WindowFits(s, S),
         PartsOf(s.splits) = PartsOf(r.splits) \union {<<p.name, p.part>>}
  PROVE  IsStream(S, base, first, line, s) /\ Within(line, s) = Within(line, r)
<1>1. /\ SeenSoFar(base, r) /\ HeldOnce(S, line, r)
      /\ IsLine(S, first, line, r.order, r.sequenced)
  BY DEF IsStream
<1>2. /\ SameSeen(r, s) /\ s.order = r.order /\ s.waiting = r.waiting /\ s.sequenced = r.sequenced
      /\ WaitingNames(s) = WaitingNames(r)
  BY DEF OnlySplits, SameOrdered, WaitingNames
<1>3. SeenSoFar(base, s)
  BY <1>1, <1>2 DEF SeenSoFar, SameSeen
<1>4. ASSUME NEW q \in S, IsReliable(q), IsNewMessage(s, q.message)
      PROVE  /\ q.name \notin NamesIn(line) /\ q.name \notin WaitingNames(s)
             /\ <<q.name, q.part>> \notin PartsOf(s.splits)
  <2>1. IsNewMessage(r, q.message)
    BY <1>2, <1>4, NewIsSame
  <2>2. <<q.name, q.part>> # <<p.name, p.part>>
    <3>1. AreOfOneClient(q, p)
      BY SendsIs
    <3> QED
      BY <1>4, <2>1, <3>1 DEF AreOfOneClient
  <2> QED
    BY <1>1, <1>2, <1>4, <2>1, <2>2 DEF HeldOnce
<1>5. \A x \in PartsOf(s.splits) : \E q \in S : x = <<q.name, q.part>>
  BY <1>1 DEF HeldOnce
<1>6. HeldOnce(S, line, s)
  BY <1>1, <1>2, <1>4, <1>5 DEF HeldOnce
<1> QED
  BY <1>1, <1>2, <1>3, <1>6 DEF IsStream, Within

\* With the last part, all parts have come.
LEMMA AllPartsCame ==
  ASSUME NEW came, NEW part \in Nat, NEW parts \in Nat, part < parts, came \subseteq 0 .. parts - 1,
         part \notin came, Cardinality(came) + 1 = parts
  PROVE  came \union {part} = 0 .. parts - 1
<1> DEFINE places == 0 .. parts - 1
           all == came \union {part}
<1>1. IsFiniteSet(places) /\ Cardinality(places) = parts
  <2>1. ASSUME NEW last \in Int, last >= 0
        PROVE  IsFiniteSet(0 .. last) /\ Cardinality(0 .. last) = last + 1
    <3>1. ASSUME NEW a \in Int, NEW b \in Int
          PROVE  /\ IsFiniteSet(a .. b)
                 /\ Cardinality(a .. b) = IF a > b THEN 0 ELSE b - a + 1
      BY FS_Interval
    <3>2. 0 \in Int /\ ~ (0 > last) /\ last - 0 + 1 = last + 1
      BY <2>1
    <3>3. /\ IsFiniteSet(0 .. last)
          /\ Cardinality(0 .. last) = IF 0 > last THEN 0 ELSE last - 0 + 1
      BY <3>1, <3>2
    <3> QED
      BY <3>2, <3>3
  <2>2. parts - 1 \in Int /\ parts - 1 >= 0 /\ parts - 1 + 1 = parts
    OBVIOUS
  <2> QED
    BY <2>1, <2>2
<1>2. all \in SUBSET places /\ IsFiniteSet(came)
  <2>1. all \in SUBSET places /\ came \in SUBSET places
    OBVIOUS
  <2> HIDE DEF places
  <2> QED
    BY <1>1, <2>1, FS_Subset
<1>3. Cardinality(all) = Cardinality(came) + 1
  BY <1>2, FS_AddElement
<1> HIDE DEF places, all
<1>4. Cardinality(places) = Cardinality(all)
  BY <1>1, <1>3
<1>5. all = places
  BY <1>1, <1>2, <1>4, FS_Subset
<1> QED
  BY <1>5 DEF places, all

LEMMA PartStream ==
  ASSUME NEW S, NEW base, NEW first, Sends(S, base, first), NEW line, NEW r,
         IsStream(S, base, first, line, r), NEW p \in S,
         IsReliable(p) => /\ p.name \notin Within(line, r) /\ ~IsNewMessage(r, p.message)
                          /\ <<p.name, p.part>> \notin PartsOf(r.splits)
  PROVE  PacketIsTaken(S, base, first, line, r, p, AcceptPart(r, p))
<1> DEFINE Taken(o) == PacketIsTaken(S, base, first, line, r, p, o)
           came == UNION {a.came : a \in {b \in r.splits : b.name = p.name}}
<1>1. /\ IsWindow(r) /\ WindowFits(r, S) /\ HeldOnce(S, line, r) /\ line \o <<>> = line
      /\ ArePackets(S)
  BY ConcatEmptySeq DEF IsStream, WindowFits, IsLine, Sends
<1>2. /\ p.part \in Nat /\ p.parts \in Nat /\ p.part < p.parts
      /\ \A q \in S : AreOfOneClient(q, p)
  BY SendsIs
<1>3. \A v : v \in came <=> <<p.name, v>> \in PartsOf(r.splits)
  BY <1>1, AcceptPartIs
<1> HIDE DEF came
<1>4. ASSUME NEW s, OnlySplits(r, s), PartsOf(s.splits) \subseteq PartsOf(r.splits)
      PROVE  Taken(Refusal(s))
  <2> DEFINE o == Refusal(s)
  <2>1. o.receive = s /\ o.ready = <<>> /\ o.isRefused
    BY OutcomeIs
  <2>2. IsStream(S, base, first, line, s) /\ SameDatagrams(r, s) /\ SameSeen(r, s)
    BY <1>4, FewerPartsStream DEF OnlySplits
  <2> HIDE DEF o
  <2>3. PacketIsTaken(S, base, first, line, r, p, o)
    BY <1>1, <2>1, <2>2 DEF PacketIsTaken
  <2> QED
    BY <2>3 DEF o
<1>5. ASSUME NEW s, IsStream(S, base, first, line, s), SameDatagrams(r, s), SameSeen(r, s),
             \A q \in S : MustKeep(q) /\ Kept(line, r, q) => Kept(line, s, q),
             MustKeep(p) => Kept(line, s, p)
      PROVE  Taken(Outcome(s, <<>>))
  <2> DEFINE o == Outcome(s, <<>>)
  <2>1. o.receive = s /\ o.ready = <<>>
    BY OutcomeIs
  <2> HIDE DEF o
  <2>2. PacketIsTaken(S, base, first, line, r, p, o)
    BY <1>1, <1>5, <2>1 DEF PacketIsTaken
  <2> QED
    BY <2>2 DEF o
<1>6. OnlySplits(r, r)
  BY <1>1 DEF OnlySplits, SameDatagrams, SameSeen, SameOrdered
<1>7. Taken(Refusal(r))
  BY <1>4, <1>6
<1>8. ASSUME p.part \in came
      PROVE  Taken(Outcome(r, <<>>))
  <2>1. Kept(line, r, p)
    BY <1>3, <1>8 DEF Kept
  <2> QED
    BY <1>5, <1>6, <2>1 DEF OnlySplits
<1>9. ASSUME NEW s, OnlySplits(r, s), ~ (PartCount(r) >= MaxParts),
             PartsOf(s.splits) = PartsOf(r.splits) \union {<<p.name, p.part>>},
             AcceptPart(r, p) = Outcome(s, <<>>)
      PROVE  Taken(Outcome(s, <<>>))
  <2>1. OutcomeFits(AcceptPart(r, p), S)
    BY <1>1, AcceptPartFits
  <2>2. WindowFits(s, S)
    BY <1>9, <2>1, OutcomeIs DEF OutcomeFits
  <2>3. IsStream(S, base, first, line, s) /\ Within(line, s) = Within(line, r)
    BY <1>9, <2>2, MorePartsStream
  <2>4. Kept(line, s, p) /\ \A q \in S : Kept(line, r, q) => Kept(line, s, q)
    BY <1>9, <2>3 DEF Kept
  <2> QED
    BY <1>5, <1>9, <2>3, <2>4 DEF OnlySplits
<1>10. ASSUME NEW s, OnlySplits(r, s), PartsOf(s.splits) \subseteq PartsOf(r.splits),
              \A x \in PartsOf(r.splits) : x[1] = p.name \/ x \in PartsOf(s.splits),
              p.part \notin came, Cardinality(came) + 1 = p.parts
       PROVE  Taken(AcceptWhole(s, p))
  <2> DEFINE o == AcceptWhole(s, p)
             all == line \o o.ready
  <2>1. IsStream(S, base, first, line, s) /\ Within(line, s) = Within(line, r)
    BY <1>10, FewerPartsStream
  <2>2. SameSeen(r, s) /\ SameDatagrams(r, s)
    BY <1>10 DEF OnlySplits
  <2>3. came \subseteq 0 .. p.parts - 1
    <3>1. ASSUME NEW v \in came
          PROVE  v \in 0 .. p.parts - 1
      <4>1. PICK q \in S : <<p.name, v>> = <<q.name, q.part>>
        BY <1>1, <1>3, <3>1 DEF HeldOnce
      <4>2. q.name = p.name /\ q.part = v /\ q.part \in Nat /\ q.part < q.parts
        BY <4>1, SendsIs
      <4>3. q.parts = p.parts
        BY <1>2, <4>2 DEF AreOfOneClient
      <4> QED
        BY <1>2, <4>2, <4>3
    <3> QED
      BY <3>1
  <2>4. came \union {p.part} = 0 .. p.parts - 1
    BY <1>2, <1>10, <2>3, AllPartsCame
  <2>5. ASSUME IsReliable(p), NEW q \in S, q.name = p.name
        PROVE  ~IsNewMessage(s, q.message)
    <3>1. /\ q.parts = p.parts /\ q.kind = p.kind /\ (q.part = p.part => q = p)
          /\ q.part \in Nat /\ q.part < q.parts
      BY <1>2, <2>5, SendsIs DEF AreOfOneClient
    <3>2. q.part \in came \/ q = p
      BY <1>2, <2>4, <3>1
    <3>3. ~IsNewMessage(r, q.message)
      <4>1. CASE q = p
        BY <2>5, <4>1
      <4>2. CASE q.part \in came
        <5>1. <<q.name, q.part>> \in PartsOf(r.splits) /\ IsReliable(q)
          BY <1>3, <2>5, <3>1, <4>2 DEF IsReliable
        <5> QED
          BY <1>1, <5>1 DEF HeldOnce
      <4> QED
        BY <3>2, <4>1, <4>2
    <3> QED
      BY <2>2, <3>3, NewIsSame
  <2>6. InHand(S, line, s, p)
    BY <2>1, <2>5 DEF InHand, Within
  <2>7. WholeIsTaken(S, base, first, line, s, p, o)
    BY <2>1, <2>6, WholeStream
  <2> HIDE DEF o
  <2>8. /\ IsStream(S, base, first, all, o.receive)
        /\ SameDatagrams(s, o.receive) /\ SameSeen(s, o.receive) /\ o.receive.splits = s.splits
        /\ Within(line, s) \subseteq Within(all, o.receive)
        /\ ~o.isRefused /\ MustKeep(p) => p.name \in Within(all, o.receive)
    BY <2>7 DEF WholeIsTaken
  <2>9. SameDatagrams(r, o.receive) /\ SameSeen(r, o.receive)
    BY <2>2, <2>8 DEF SameDatagrams, SameSeen
  <2>10. ASSUME ~o.isRefused, NEW q \in S, MustKeep(q), Kept(line, r, q)
         PROVE  Kept(all, o.receive, q)
    <3>1. CASE q.name \in Within(line, r)
      BY <2>1, <2>8, <3>1 DEF Kept
    <3>2. CASE q.name = p.name
      <4>1. MustKeep(p)
        BY <1>2, <2>10, <3>2 DEF AreOfOneClient, MustKeep
      <4> QED
        BY <2>8, <2>10, <3>2, <4>1 DEF Kept
    <3>3. CASE q.name # p.name /\ <<q.name, q.part>> \in PartsOf(r.splits)
      <4>1. <<q.name, q.part>>[1] = q.name
        OBVIOUS
      <4>2. <<q.name, q.part>> \in PartsOf(s.splits)
        BY <1>10, <3>3, <4>1
      <4> QED
        BY <2>8, <4>2 DEF Kept
    <3> QED
      BY <2>10, <3>1, <3>2, <3>3 DEF Kept
  <2>11. ~o.isRefused /\ MustKeep(p) => Kept(all, o.receive, p)
    BY <2>8 DEF Kept
  <2> HIDE DEF all
  <2>12. PacketIsTaken(S, base, first, line, r, p, o)
    BY <2>8, <2>9, <2>10, <2>11 DEF PacketIsTaken, all
  <2> QED
    BY <2>12 DEF o
<1> HIDE DEF Taken
<1>11. Taken(AcceptPart(r, p))
  <2>1. \/ AcceptPart(r, p) = Refusal(r)
        \/ p.part \in came /\ AcceptPart(r, p) = Outcome(r, <<>>)
        \/ \E s : /\ OnlySplits(r, s) /\ PartsOf(s.splits) \subseteq PartsOf(r.splits)
                  /\ AcceptPart(r, p) = Refusal(s)
        \/ \E s : /\ OnlySplits(r, s) /\ PartsOf(s.splits) \subseteq PartsOf(r.splits)
                  /\ \A x \in PartsOf(r.splits) : x[1] = p.name \/ x \in PartsOf(s.splits)
                  /\ p.part \notin came /\ Cardinality(came) + 1 = p.parts
                  /\ AcceptPart(r, p) = AcceptWhole(s, p)
        \/ \E s : /\ OnlySplits(r, s) /\ ~ (PartCount(r) >= MaxParts)
                  /\ PartsOf(s.splits) = PartsOf(r.splits) \union {<<p.name, p.part>>}
                  /\ AcceptPart(r, p) = Outcome(s, <<>>)
    BY <1>1, AcceptPartIs DEF came
  <2> QED
    BY <1>4, <1>7, <1>8, <1>9, <1>10, <2>1
<1> QED
  BY <1>11 DEF Taken

-----------------------------------------------------------------------------
(***************************************************************************)
(* Messages: what is not new stays so, although the memory of messages is  *)
(* cut to a window behind the latest.                                      *)
(***************************************************************************)
\* The distances of messages from their places after base.
LEMMA MessageDistance ==
  ASSUME NEW base \in Numbers, NEW a \in Numbers, NEW b \in Numbers,
         Forward(base, a) < Half, Forward(base, b) < Half
  PROVE  /\ Forward(base, a) \in Nat /\ Forward(base, b) \in Nat
         /\ Forward(a, b) \in 1 .. Half - 1 <=> Forward(base, a) < Forward(base, b)
         /\ Forward(base, a) <= Forward(base, b)
              => Forward(a, b) = Forward(base, b) - Forward(base, a)
<1>1. /\ Forward(base, a) \in Nat /\ Forward(base, b) \in Nat /\ Modulus \in Nat /\ Half \in Nat
      /\ 2 * Half <= Modulus
  BY ForwardIs, NumbersAre, Sizes
<1>2. Forward(a, b) = IF Forward(base, a) <= Forward(base, b)
                      THEN Forward(base, b) - Forward(base, a)
                      ELSE Forward(base, b) - Forward(base, a) + Modulus
  BY ForwardOfPlaces
<1> QED
  BY <1>1, <1>2

LEMMA SawStaysSeen ==
  ASSUME NEW base \in Numbers, NEW r, IsWindow(r), SeenSoFar(base, r), r.seen \subseteq Numbers,
         r.latest \in Numbers,
         NEW new \in Numbers, Forward(base, new) \in 1 .. Half - 1
  PROVE  LET s == SawMessage(r, new)
         IN  /\ SeenSoFar(base, s) /\ new \in s.seen
             /\ \A m \in Numbers : Forward(base, m) \in 1 .. Half - 1 /\ IsNewMessage(s, m)
               => IsNewMessage(r, m)
<1> DEFINE s == SawMessage(r, new)
           Place(m) == Forward(base, m)
           isNewest == r.seen = {} \/ Forward(r.latest, new) \in 1 .. Half - 1
<1>1. /\ isNewest => /\ s.latest = new
                     /\ s.seen = {i \in r.seen : Forward(i, new) < ReliableWindow} \union {new}
      /\ ~isNewest => s.latest = r.latest /\ s.seen = r.seen \union {new}
  BY SawMessageIs
<1> HIDE DEF s
<1>2. Half \in Nat /\ Modulus \in Nat /\ 2 * Half <= Modulus /\ ReliableWindow \in Nat
  BY Sizes
<1>3. ASSUME NEW m \in Numbers
      PROVE  Place(m) \in Nat
  BY ForwardIs, NumbersAre
<1>4. r.seen # {} => Place(r.latest) < Half /\ (isNewest <=> Place(r.latest) < Place(new))
  <2>1. r.seen # {} => Place(r.latest) < Half
    BY DEF SeenSoFar
  <2> QED
    BY <1>2, <2>1, MessageDistance
<1>5. SeenSoFar(base, s)
  <2>1. CASE isNewest
    <3>1. ASSUME NEW i \in s.seen, Place(i) < Half
          PROVE  Place(i) <= Place(new)
      <4>1. CASE i = new
        BY <1>3, <4>1
      <4>2. CASE i \in r.seen
        <5>1. Place(i) <= Place(r.latest) /\ i \in Numbers
          BY <3>1, <4>2 DEF SeenSoFar
        <5>2. Place(r.latest) < Place(new)
          BY <1>4, <2>1, <4>2
        <5> QED
          BY <1>3, <5>1, <5>2
      <4> QED
        BY <1>1, <2>1, <3>1, <4>1, <4>2
    <3> QED
      BY <1>1, <1>2, <2>1, <3>1 DEF SeenSoFar
  <2>2. CASE ~isNewest
    <3>1. Place(new) <= Place(r.latest)
      BY <1>3, <1>4, <2>2
    <3> QED
      BY <1>1, <2>2, <3>1 DEF SeenSoFar
  <2> QED
    BY <2>1, <2>2
<1>6. new \in s.seen
  BY <1>1
<1>7. ASSUME NEW m \in Numbers, Place(m) \in 1 .. Half - 1, ~IsNewMessage(r, m)
      PROVE  ~IsNewMessage(s, m)
  <2>1. /\ r.seen # {} /\ (m \in r.seen \/ (/\ ~ (Forward(r.latest, m) \in 1 .. Half - 1)
                                            /\ ~ (Forward(m, r.latest) < ReliableWindow)))
    BY <1>7 DEF IsNewMessage
  <2>2. Place(m) < Half /\ Place(new) < Half /\ Place(r.latest) < Half /\ s.seen # {}
    BY <1>2, <1>4, <1>6, <1>7, <2>1
  <2>3. Place(m) \in Nat /\ Place(r.latest) \in Nat /\ Place(new) \in Nat
    BY <1>3
  <2>4. Place(m) <= Place(r.latest)
    <3>1. CASE m \in r.seen
      BY <2>2, <3>1 DEF SeenSoFar
    <3>2. CASE ~ (Forward(r.latest, m) \in 1 .. Half - 1)
      <4>1. ~ (Place(r.latest) < Place(m))
        BY <2>2, <3>2, MessageDistance
      <4> QED
        BY <2>3, <4>1
    <3> QED
      BY <2>1, <3>1, <3>2
  <2>5. CASE isNewest
    <3>1. Place(m) < Place(new)
      BY <1>4, <2>1, <2>3, <2>4, <2>5
    <3>2. ~ (Forward(new, m) \in 1 .. Half - 1)
      <4>1. ~ (Place(new) < Place(m))
        BY <2>3, <3>1
      <4> QED
        BY <2>2, <4>1, MessageDistance
    <3>3. Forward(m, new) = Place(new) - Place(m)
      <4>1. Place(m) <= Place(new)
        BY <2>3, <3>1
      <4> QED
        BY <2>2, <4>1, MessageDistance
    <3>4. m \in s.seen \/ ~ (Forward(m, new) < ReliableWindow)
      <4>1. CASE m \in r.seen
        BY <1>1, <2>5, <4>1
      <4>2. CASE ~ (Forward(m, r.latest) < ReliableWindow)
        <5>1. Forward(m, r.latest) = Place(r.latest) - Place(m)
          BY <2>2, <2>4, MessageDistance
        <5>2. Place(r.latest) < Place(new)
          BY <1>4, <2>1, <2>5
        <5> QED
          BY <1>2, <2>3, <3>3, <4>2, <5>1, <5>2
      <4> QED
        BY <2>1, <4>1, <4>2
    <3> QED
      BY <1>1, <2>2, <2>5, <3>2, <3>4 DEF IsNewMessage
  <2>6. CASE ~isNewest
    BY <1>1, <2>1, <2>2, <2>6 DEF IsNewMessage
  <2> QED
    BY <2>5, <2>6
<1>8. \A m \in Numbers : Forward(base, m) \in 1 .. Half - 1 /\ IsNewMessage(s, m)
               => IsNewMessage(r, m)
  BY <1>7, Zenon
<1> QED
  BY <1>5, <1>6, <1>8 DEF s

LEMMA SawStream ==
  ASSUME NEW S, NEW base, NEW first, Sends(S, base, first), NEW line, NEW r,
         IsStream(S, base, first, line, r), NEW p \in S, IsReliable(p)
  PROVE  LET s == SawMessage(r, p.message)
         IN  /\ IsStream(S, base, first, line, s) /\ Within(line, s) = Within(line, r)
             /\ ~IsNewMessage(s, p.message) /\ OnlySeen(r, s)
<1> DEFINE s == SawMessage(r, p.message)
<1>1. /\ WindowFits(r, S) /\ SeenSoFar(base, r) /\ HeldOnce(S, line, r)
      /\ IsLine(S, first, line, r.order, r.sequenced)
  BY DEF IsStream
<1>2. /\ IsWindow(r) /\ r.seen \subseteq Numbers /\ r.latest \in Numbers
  BY <1>1 DEF WindowFits, NumbersFit
<1>3. base \in Numbers /\ p.message \in Numbers /\ Forward(base, p.message) \in 1 .. Half - 1
  BY SendsIs
<1>4. /\ SeenSoFar(base, s) /\ p.message \in s.seen
      /\ \A m \in Numbers : Forward(base, m) \in 1 .. Half - 1 /\ IsNewMessage(s, m)
               => IsNewMessage(r, m)
  BY <1>1, <1>2, <1>3, SawStaysSeen
<1>5. WindowFits(s, S)
  BY <1>1, <1>3, SawMessageFits
<1>6. OnlySeen(r, s)
  BY <1>2, SawMessageIs
<1> HIDE DEF s
<1>7. /\ s.order = r.order /\ s.waiting = r.waiting /\ s.sequenced = r.sequenced
      /\ s.splits = r.splits /\ WaitingNames(s) = WaitingNames(r)
  BY <1>6 DEF OnlySeen, SameOrdered, WaitingNames
<1>8. \A q \in S : IsReliable(q) /\ IsNewMessage(s, q.message) => IsNewMessage(r, q.message)
  BY <1>4, SendsIs
<1>9. HeldOnce(S, line, s)
  BY <1>1, <1>7, <1>8 DEF HeldOnce
<1>10. ~IsNewMessage(s, p.message)
  BY <1>4 DEF IsNewMessage
<1> QED
  BY <1>1, <1>4, <1>5, <1>6, <1>7, <1>9, <1>10 DEF IsStream, Within, s

-----------------------------------------------------------------------------
(***************************************************************************)
(* A packet, and the packets of a datagram.                                *)
(***************************************************************************)
\* No message is forgotten while one that is as late may still come: the places
\* at which the latest may be are less than the window ahead of the packet's.
Recent(base, places, r) == r.seen # {} => Forward(base, r.latest) \in places
IsTimely(base, places, p) ==
  IsReliable(p) => /\ Forward(base, p.message) \in places
                   /\ \A x \in places : x < Forward(base, p.message) + ReliableWindow

NothingLost(S, line, r) ==
  \A q \in S : MustKeep(q) /\ q.message \in r.seen => Kept(line, r, q)

\* What a packet changes, and what it does not lose unless it is refused.
StreamGoesOn(S, base, first, places, line, r, p, o) ==
  LET all == line \o o.ready
  IN  /\ IsStream(S, base, first, all, o.receive) /\ SameDatagrams(r, o.receive)
      /\ ~o.isRefused =>
           /\ \A q \in S : MustKeep(q) /\ Kept(line, r, q) => Kept(all, o.receive, q)
           /\ NothingLost(S, line, r) /\ Recent(base, places, r) /\ IsTimely(base, places, p) =>
                /\ NothingLost(S, all, o.receive) /\ Recent(base, places, o.receive)
                /\ MustKeep(p) => Kept(all, o.receive, p)

LEMMA NotTooOld ==
  ASSUME NEW S, NEW base, NEW first, Sends(S, base, first), NEW line, NEW r,
         IsStream(S, base, first, line, r), NEW p \in S, IsReliable(p), ~IsNewMessage(r, p.message),
         NEW places, Recent(base, places, r), IsTimely(base, places, p)
  PROVE  p.message \in r.seen
<1>1. /\ r.seen # {} /\ (p.message \in r.seen \/ (/\ ~ (Forward(r.latest, p.message) \in 1 .. Half - 1)
                                                  /\ ~ (Forward(p.message, r.latest) < ReliableWindow)))
  BY DEF IsNewMessage
<1>2. base \in Numbers /\ p.message \in Numbers /\ Forward(base, p.message) \in 1 .. Half - 1 /\ Half \in Nat
      /\ ReliableWindow \in Nat
  BY SendsIs, Sizes
<1>3. r.latest \in Numbers /\ Forward(base, r.latest) < Half /\ Forward(base, r.latest) \in places
  BY <1>1 DEF IsStream, WindowFits, NumbersFit, SeenSoFar, Recent
<1>4. Forward(base, r.latest) \in Nat /\ Forward(base, r.latest) < Forward(base, p.message) + ReliableWindow
  BY <1>2, <1>3, ForwardIs, NumbersAre DEF IsTimely
<1>5. ASSUME ~ (Forward(r.latest, p.message) \in 1 .. Half - 1),
             ~ (Forward(p.message, r.latest) < ReliableWindow)
      PROVE  FALSE
  <2>1. Forward(base, p.message) < Half
    BY <1>2
  <2>2. ~ (Forward(base, r.latest) < Forward(base, p.message))
    BY <1>2, <1>3, <1>5, <2>1, MessageDistance
  <2>3. Forward(base, p.message) <= Forward(base, r.latest)
    BY <1>2, <1>4, <2>2
  <2>4. Forward(p.message, r.latest) = Forward(base, r.latest) - Forward(base, p.message)
    BY <1>2, <1>3, <2>1, <2>3, MessageDistance
  <2> QED
    BY <1>2, <1>4, <1>5, <2>4
<1> QED
  BY <1>1, <1>5

LEMMA PacketStream ==
  ASSUME NEW S, NEW base, NEW first, Sends(S, base, first), NEW places, NEW line, NEW r,
         IsStream(S, base, first, line, r), NEW p \in S
  PROVE  StreamGoesOn(S, base, first, places, line, r, p, AcceptPacket(r, p))
<1> DEFINE Good(o) == StreamGoesOn(S, base, first, places, line, r, p, o)
           s == IF IsReliable(p) THEN SawMessage(r, p.message) ELSE r
           new == IsReliable(p) => IsNewMessage(r, p.message)
<1>1. /\ WindowFits(r, S) /\ IsWindow(r) /\ HeldOnce(S, line, r) /\ line \o <<>> = line
  BY ConcatEmptySeq DEF IsStream, IsLine, WindowFits
<1>2. \A q \in S : AreOfOneClient(q, p)
  BY SendsIs
<1>3. /\ IsStream(S, base, first, line, s) /\ Within(line, s) = Within(line, r)
      /\ IsReliable(p) => ~IsNewMessage(s, p.message)
      /\ SameDatagrams(r, s) /\ s.splits = r.splits
      /\ s.seen \subseteq r.seen \union {p.message}
      /\ IsReliable(p) => s.latest \in {r.latest, p.message} /\ (r.seen = {} => s.latest = p.message)
      /\ ~IsReliable(p) => s.latest = r.latest /\ s.seen = r.seen
  <2>1. CASE IsReliable(p)
    <3>1. s = SawMessage(r, p.message)
      BY <2>1
    <3>2. IsStream(S, base, first, line, s) /\ Within(line, s) = Within(line, r)
          /\ ~IsNewMessage(s, p.message) /\ OnlySeen(r, s)
      BY <2>1, <3>1, SawStream
    <3>3. /\ s.seen \subseteq r.seen \union {p.message} /\ s.latest \in {r.latest, p.message}
          /\ r.seen = {} => s.latest = p.message
      BY <1>1, <3>1, SawMessageIs
    <3> HIDE DEF s
    <3> QED
      BY <2>1, <3>2, <3>3 DEF OnlySeen
  <2>2. CASE ~IsReliable(p)
    BY <1>1, <2>2 DEF SameDatagrams
  <2> QED
    BY <2>1, <2>2
<1> HIDE DEF s
<1>4. ASSUME NEW o, PacketIsTaken(S, base, first, line, s, p, o)
      PROVE  Good(o)
  <2> DEFINE all == line \o o.ready
  <2>1. /\ IsStream(S, base, first, all, o.receive)
        /\ SameDatagrams(s, o.receive) /\ o.receive.seen = s.seen /\ o.receive.latest = s.latest
        /\ ~o.isRefused =>
             /\ \A q \in S : MustKeep(q) /\ Kept(line, s, q) => Kept(all, o.receive, q)
             /\ MustKeep(p) => Kept(all, o.receive, p)
    BY <1>4 DEF PacketIsTaken, SameSeen
  <2> HIDE DEF all
  <2>2. SameDatagrams(r, o.receive)
    BY <1>3, <2>1 DEF SameDatagrams
  <2>3. \A q \in S : Kept(line, r, q) => Kept(line, s, q)
    BY <1>3 DEF Kept
  <2>4. ASSUME ~o.isRefused, NothingLost(S, line, r), NEW q \in S, MustKeep(q), q.message \in o.receive.seen
        PROVE  Kept(all, o.receive, q)
    <3>1. CASE q.message \in r.seen
      BY <2>1, <2>3, <2>4, <3>1 DEF NothingLost
    <3>2. CASE IsReliable(p) /\ q.message = p.message
      <4>1. q = p
        BY <1>2, <2>4, <3>2 DEF AreOfOneClient, MustKeep, IsReliable
      <4> QED
        BY <2>1, <2>4, <4>1
    <3> QED
      BY <1>3, <2>1, <2>4, <3>1, <3>2
  <2>5. ASSUME Recent(base, places, r), IsTimely(base, places, p)
        PROVE  Recent(base, places, o.receive)
    BY <1>3, <2>1, <2>5 DEF Recent, IsTimely
  <2>6. ~o.isRefused =>
           /\ \A q \in S : MustKeep(q) /\ Kept(line, r, q) => Kept(all, o.receive, q)
           /\ NothingLost(S, line, r) /\ Recent(base, places, r) /\ IsTimely(base, places, p) =>
                /\ NothingLost(S, all, o.receive) /\ Recent(base, places, o.receive)
                /\ MustKeep(p) => Kept(all, o.receive, p)
    BY <2>1, <2>3, <2>4, <2>5 DEF NothingLost
  <2> QED
    BY <2>1, <2>2, <2>6 DEF StreamGoesOn, all
<1>5. CASE ~new
  <2> DEFINE o == Outcome(r, <<>>)
  <2>1. AcceptPacket(r, p) = o
    BY <1>5 DEF AcceptPacket
  <2>2. o.receive = r /\ o.ready = <<>>
    BY OutcomeIs
  <2>3. SameDatagrams(r, r)
    BY <1>1 DEF SameDatagrams
  <2>4. ASSUME NothingLost(S, line, r), Recent(base, places, r), IsTimely(base, places, p), MustKeep(p)
        PROVE  Kept(line, r, p)
    <3>1. p.message \in r.seen
      BY <1>5, <2>4, NotTooOld
    <3> QED
      BY <2>4, <3>1 DEF NothingLost
  <2> HIDE DEF o
  <2>5. Good(o)
    BY <1>1, <2>2, <2>3, <2>4 DEF StreamGoesOn
  <2> QED
    BY <2>1, <2>5
<1>6. CASE new /\ p.parts > 1
  <2>1. AcceptPacket(r, p) = AcceptPart(s, p)
    BY <1>6 DEF AcceptPacket, s
  <2>2. IsReliable(p) => /\ p.name \notin Within(line, s) /\ ~IsNewMessage(s, p.message)
                         /\ <<p.name, p.part>> \notin PartsOf(s.splits)
    BY <1>1, <1>3, <1>6 DEF HeldOnce, Within
  <2>3. PacketIsTaken(S, base, first, line, s, p, AcceptPart(s, p))
    BY <1>3, <2>2, PartStream
  <2> QED
    BY <1>4, <2>1, <2>3
<1>7. CASE new /\ ~ (p.parts > 1)
  <2> DEFINE o == AcceptWhole(s, p)
             all == line \o o.ready
  <2>1. AcceptPacket(r, p) = o
    BY <1>7 DEF AcceptPacket, s
  <2>2. ASSUME IsReliable(p), NEW q \in S, q.name = p.name
        PROVE  ~IsNewMessage(s, q.message)
    <3>1. q.parts = p.parts /\ (q.part = p.part => q = p)
      BY <1>2, <2>2 DEF AreOfOneClient
    <3>2. /\ q.part \in Nat /\ p.part \in Nat /\ q.part < q.parts /\ p.part < p.parts
          /\ p.parts \in Nat
      BY SendsIs
    <3>3. q.part = p.part
      BY <1>7, <3>1, <3>2
    <3> QED
      BY <1>3, <2>2, <3>1, <3>3
  <2>3. InHand(S, line, s, p)
    <3>1. IsReliable(p) => p.name \notin Within(line, s)
      BY <1>1, <1>3, <1>7 DEF HeldOnce, Within
    <3> QED
      BY <2>2, <3>1 DEF InHand, Within
  <2>4. WholeIsTaken(S, base, first, line, s, p, o)
    BY <1>3, <2>3, WholeStream
  <2> HIDE DEF o
  <2>5. /\ IsStream(S, base, first, all, o.receive)
        /\ SameDatagrams(s, o.receive) /\ SameSeen(s, o.receive) /\ o.receive.splits = s.splits
        /\ Within(line, s) \subseteq Within(all, o.receive)
        /\ ~o.isRefused /\ MustKeep(p) => p.name \in Within(all, o.receive)
    BY <2>4 DEF WholeIsTaken
  <2> HIDE DEF all
  <2>6. \A q \in S : Kept(line, s, q) => Kept(all, o.receive, q)
    BY <2>5 DEF Kept
  <2>7. ~o.isRefused /\ MustKeep(p) => Kept(all, o.receive, p)
    BY <2>5 DEF Kept
  <2>8. PacketIsTaken(S, base, first, line, s, p, o)
    BY <2>5, <2>6, <2>7 DEF PacketIsTaken, all
  <2> QED
    BY <1>4, <2>1, <2>8
<1> HIDE DEF Good, new
<1>8. CASE p.parts > 1
  BY <1>5, <1>6, <1>8, Zenon
<1>9. CASE ~ (p.parts > 1)
  BY <1>5, <1>7, <1>9, Zenon
<1> QED
  BY <1>8, <1>9, Zenon

\* What a datagram changes, and what it does not lose unless a packet is refused.
DatagramGoesOn(S, base, first, places, line, r, packets, o) ==
  LET all == line \o o.ready
  IN  /\ IsStream(S, base, first, all, o.receive) /\ SameDatagrams(r, o.receive)
      /\ ~o.isRefused =>
           /\ \A q \in S : MustKeep(q) /\ Kept(line, r, q) => Kept(all, o.receive, q)
           /\ NothingLost(S, line, r) /\ Recent(base, places, r) =>
                /\ NothingLost(S, all, o.receive) /\ Recent(base, places, o.receive)
                /\ \A p \in packets : MustKeep(p) => Kept(all, o.receive, p)

LEMMA AddedStream ==
  ASSUME NEW S, NEW base, NEW first, Sends(S, base, first), NEW places, NEW line, NEW r,
         NEW packets \in SUBSET S, NEW o, OutcomeFits(o, S),
         IsStream(S, base, first, line, r),
         DatagramGoesOn(S, base, first, places, line, r, packets, o),
         NEW p \in S, IsTimely(base, places, p)
  PROVE  DatagramGoesOn(S, base, first, places, line, r, packets \union {p}, Added(o, p))
<1> DEFINE so == line \o o.ready
           next == AcceptPacket(o.receive, p)
           more == [next EXCEPT !.ready = o.ready \o @]
           all == line \o more.ready
<1>1. /\ IsStream(S, base, first, so, o.receive) /\ SameDatagrams(r, o.receive)
      /\ ~o.isRefused =>
           /\ \A q \in S : MustKeep(q) /\ Kept(line, r, q) => Kept(so, o.receive, q)
           /\ NothingLost(S, line, r) /\ Recent(base, places, r) =>
                /\ NothingLost(S, so, o.receive) /\ Recent(base, places, o.receive)
                /\ \A q \in packets : MustKeep(q) => Kept(so, o.receive, q)
  BY DEF DatagramGoesOn
<1>2. CASE o.isRefused
  <2>1. Added(o, p) = o
    BY <1>2 DEF Added
  <2>2. DatagramGoesOn(S, base, first, places, line, r, packets \union {p}, o)
    BY <1>1, <1>2 DEF DatagramGoesOn
  <2> QED
    BY <2>1, <2>2
<1>3. CASE ~o.isRefused
  <2>1. Added(o, p) = more
    BY <1>3 DEF Added
  <2>2. next = [f \in {"receive", "ready", "isRefused"} |-> next[f]]
    BY OutcomeShape
  <2>3. OutcomeFits(next, S) /\ next.ready \in Seq(S) /\ o.ready \in Seq(S) /\ line \in Seq(S)
    BY AcceptPacketFits DEF OutcomeFits, Sends, IsStream, IsLine
  <2>4. StreamGoesOn(S, base, first, places, so, o.receive, p, next)
    BY <1>1, PacketStream
  <2> HIDE DEF next
  <2>5. more.receive = next.receive /\ more.ready = o.ready \o next.ready
        /\ more.isRefused = next.isRefused
    BY <2>2
  <2> HIDE DEF more
  <2>6. all = so \o next.ready
    <3>1. ASSUME NEW u \in Seq(S), NEW v \in Seq(S), NEW w \in Seq(S)
          PROVE  u \o (v \o w) = (u \o v) \o w
      BY ConcatAssociative
    <3>2. line \o (o.ready \o next.ready) = (line \o o.ready) \o next.ready
      BY <2>3, <3>1
    <3> QED
      BY <2>5, <3>2, Zenon
  <2> HIDE DEF all, so
  <2>7. /\ IsStream(S, base, first, all, more.receive) /\ SameDatagrams(o.receive, more.receive)
        /\ ~more.isRefused =>
             /\ \A q \in S : MustKeep(q) /\ Kept(so, o.receive, q) => Kept(all, more.receive, q)
             /\ NothingLost(S, so, o.receive) /\ Recent(base, places, o.receive) =>
                  /\ NothingLost(S, all, more.receive) /\ Recent(base, places, more.receive)
                  /\ MustKeep(p) => Kept(all, more.receive, p)
    BY <2>4, <2>5, <2>6 DEF StreamGoesOn
  <2>8. SameDatagrams(r, more.receive)
    BY <1>1, <2>7 DEF SameDatagrams
  <2>9. \A q \in packets : q \in S
    OBVIOUS
  <2>10. ~more.isRefused =>
             /\ \A q \in S : MustKeep(q) /\ Kept(line, r, q) => Kept(all, more.receive, q)
             /\ NothingLost(S, line, r) /\ Recent(base, places, r) =>
                  /\ NothingLost(S, all, more.receive) /\ Recent(base, places, more.receive)
                  /\ \A q \in packets \union {p} : MustKeep(q) => Kept(all, more.receive, q)
    BY <1>1, <1>3, <2>7, <2>9
  <2>11. DatagramGoesOn(S, base, first, places, line, r, packets \union {p}, more)
    BY <2>7, <2>8, <2>10 DEF DatagramGoesOn, all
  <2> QED
    BY <2>1, <2>11
<1> QED
  BY <1>2, <1>3

LEMMA PreparedStream ==
  ASSUME NEW S, NEW base, NEW first, Sends(S, base, first), NEW places, NEW line, NEW r,
         IsStream(S, base, first, line, r), NEW packets \in Seq(S),
         \A i \in DOMAIN packets : IsTimely(base, places, packets[i])
  PROVE  DatagramGoesOn(S, base, first, places, line, r, {packets[i] : i \in DOMAIN packets},
                        Prepare(r, packets))
<1> DEFINE N == Len(packets)
           Upto(n) == {packets[i] : i \in 1 .. n}
<1>1. /\ N \in Nat /\ DOMAIN packets = 1 .. N /\ \A n \in 1 .. N : packets[n] \in S
  BY LenProperties, ElementOfSeq
<1>2. PICK f : IsPreparation(f, r, packets) /\ Prepare(r, packets) = f[N]
  BY <1>1, PreparedInSteps
<1>3. WindowFits(r, S) /\ line \o <<>> = line /\ SameDatagrams(r, r)
  BY ConcatEmptySeq DEF IsStream, IsLine, WindowFits, SameDatagrams
<1> DEFINE Good(n) == /\ OutcomeFits(f[n], S)
                      /\ DatagramGoesOn(S, base, first, places, line, r, Upto(n), f[n])
           T == {n \in 0 .. N : Good(n)}
<1>4. 0 \in T
  <2> DEFINE o == Outcome(r, <<>>)
  <2>1. f[0] = o /\ OutcomeFits(o, S) /\ o.receive = r /\ o.ready = <<>>
    BY <1>2, <1>3, NothingFits, OutcomeIs DEF IsPreparation
  <2>2. Upto(0) = {}
    OBVIOUS
  <2> HIDE DEF o, Upto
  <2>3. DatagramGoesOn(S, base, first, places, line, r, Upto(0), o)
    BY <1>3, <2>1, <2>2 DEF DatagramGoesOn
  <2> QED
    BY <1>1, <2>1, <2>3
<1>5. ASSUME NEW n \in 1 .. N, n - 1 \in T
      PROVE  n \in T
  <2>1. Good(n - 1) /\ n \in 0 .. N /\ packets[n] \in S /\ n \in DOMAIN packets
    BY <1>1, <1>5
  <2>2. f[n] = Added(f[n - 1], packets[n])
    BY <1>2 DEF IsPreparation
  <2>3. Upto(n) = Upto(n - 1) \union {packets[n]} /\ Upto(n - 1) \in SUBSET S
    <3>1. \A i \in 1 .. n : i \in 1 .. n - 1 \/ i = n
      BY <1>1
    <3>2. \A i \in 1 .. n - 1 : i \in 1 .. n /\ i \in 1 .. N
      BY <1>1
    <3>3. n \in 1 .. n
      BY <1>1
    <3> QED
      BY <1>1, <3>1, <3>2, <3>3
  <2>4. OutcomeFits(f[n], S)
    BY <2>1, <2>2, AddedFits DEF Sends
  <2> HIDE DEF Upto
  <2>5. DatagramGoesOn(S, base, first, places, line, r, Upto(n), f[n])
    BY <2>1, <2>2, <2>3, AddedStream
  <2> QED
    BY <2>1, <2>4, <2>5
<1>6. 0 .. N \subseteq T
  <2> HIDE DEF T, N
  <2> QED
    BY <1>1, <1>4, <1>5, CountUp
<1>7. Good(N)
  <2> HIDE DEF Good
  <2> QED
    BY <1>1, <1>6
<1>8. Upto(N) = {packets[i] : i \in DOMAIN packets}
  BY <1>1
<1> HIDE DEF Upto
<1> QED
  BY <1>2, <1>7, <1>8
=============================================================================
