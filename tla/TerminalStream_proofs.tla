------------------------ MODULE TerminalStream_proofs ------------------------
(* Theorems of TerminalStream: its types, that a closed connection holds    *)
(* nothing, that no screen skips output but what its snapshot lacked, and   *)
(* that at rest every view is in step with the session.                     *)
EXTENDS TerminalStream, TLAPS, SequenceTheorems, WellFoundedInduction

LiveType ==
  [att : [Sink -> Att], inputOwner : Sink \cup {None},
   sizeOwner : Sink \cup {None}, size : Size]

-----------------------------------------------------------------------------
(* The order of the attachments.                                           *)

\* A nonempty set of numbers has a least one.
LEMMA LeastExists ==
  ASSUME NEW T, T \subseteq Nat, T # {}
  PROVE  \E x \in T : \A y \in T : x <= y
<1>1. \E x \in T : \A y \in T : ~(<<y, x>> \in OpToRel(<, Nat))
  BY NatLessThanWellFounded, WFMin
<1>2. \A x, y \in T : ~(<<y, x>> \in OpToRel(<, Nat)) => x <= y
  BY DEF OpToRel
<1> QED BY <1>1, <1>2

\* The oldest of some attachments is one of them.
LEMMA FirstIn ==
  ASSUME NEW l \in LiveType, NEW S \in SUBSET Sink
  PROVE  /\ FirstOf(l, S) \in S \cup {None}
         /\ S # {} => FirstOf(l, S) \in S
<1>1. CASE S = {}
  BY <1>1 DEF FirstOf
<1>2. CASE S # {}
  <2> DEFINE T == {l.att[k].stream : k \in S}
  <2>1. T \subseteq Nat /\ T # {}
    BY <1>2 DEF LiveType, Att, NoAtt
  <2>2. PICK n \in T : \A y \in T : n <= y
    BY <2>1, LeastExists
  <2>3. \E k \in S : \A j \in S : l.att[k].stream <= l.att[j].stream
    BY <2>2
  <2> QED BY <1>2, <2>3 DEF FirstOf
<1> QED BY <1>1, <1>2

\* So is the newest, stream numbers being bounded.
LEMMA LastIn ==
  ASSUME NEW l \in LiveType, NEW S \in SUBSET Sink, NEW B \in Nat,
         \A k \in Sink : l.att[k].stream <= B
  PROVE  /\ LastOf(l, S) \in S \cup {None}
         /\ S # {} => LastOf(l, S) \in S
<1>1. CASE S = {}
  BY <1>1 DEF LastOf
<1>2. CASE S # {}
  <2> DEFINE T == {B - l.att[k].stream : k \in S}
  <2>1. \A k \in S : l.att[k].stream \in Nat /\ l.att[k].stream <= B
    BY DEF LiveType, Att, NoAtt
  <2>2. T \subseteq Nat /\ T # {}
    BY <1>2, <2>1
  <2>3. PICK n \in T : \A y \in T : n <= y
    BY <2>2, LeastExists
  <2>4. PICK k \in S : n = B - l.att[k].stream
    BY <2>3
  <2>5. \A j \in S : l.att[k].stream >= l.att[j].stream
    <3> TAKE j \in S
    <3>1. n <= B - l.att[j].stream
      BY <2>3
    <3> QED BY <2>1, <2>4, <3>1
  <2>6. \E i \in S : \A j \in S : l.att[i].stream >= l.att[j].stream
    BY <2>5
  <2> QED BY <1>2, <2>6 DEF LastOf
<1> QED BY <1>1, <1>2

-----------------------------------------------------------------------------
(* What becomes of a session.                                              *)

\* Pruning keeps exactly the attachments whose socket is open.
LEMMA PrunedOK ==
  ASSUME NEW l \in LiveType
  PROVE  /\ Pruned(l) \in LiveType
         /\ Attached(Pruned(l)) = {k \in Attached(l) : Open(k)}
         /\ \A k \in Attached(Pruned(l)) : Pruned(l).att[k] = l.att[k]
         /\ \A k \in Sink : Pruned(l).att[k].stream <= l.att[k].stream
         /\ Pruned(l).inputOwner \in {l.inputOwner, None}
         /\ Pruned(l).sizeOwner \in {l.sizeOwner, None}
         /\ Pruned(l).size = l.size
<1> DEFINE gone == {k \in Attached(l) : ~Open(k)}
           kept == [k \in Sink |-> IF k \in gone THEN NoAtt ELSE l.att[k]]
<1>1. /\ Pruned(l).att = kept
      /\ Pruned(l).sizeOwner = (IF l.sizeOwner \in gone THEN None ELSE l.sizeOwner)
      /\ Pruned(l).inputOwner = (IF l.inputOwner \in gone THEN None ELSE l.inputOwner)
      /\ Pruned(l).size = l.size
  BY DEF LiveType, Pruned
<1>2. kept \in [Sink -> Att]
  BY DEF LiveType, Att
<1>3. Pruned(l) \in LiveType
  <2> DEFINE o == IF l.sizeOwner \in gone THEN None ELSE l.sizeOwner
             p == IF l.inputOwner \in gone THEN None ELSE l.inputOwner
  <2>1. Pruned(l) = [l EXCEPT !.att = kept, !.sizeOwner = o, !.inputOwner = p]
    BY DEF LiveType, Pruned
  <2>2. o \in Sink \cup {None} /\ p \in Sink \cup {None}
    BY DEF LiveType
  <2> HIDE DEF gone, kept, o, p
  <2>3. Pruned(l) = [att |-> kept, inputOwner |-> p, sizeOwner |-> o,
                     size |-> l.size]
    BY <2>1 DEF LiveType
  <2> QED BY <1>2, <2>2, <2>3 DEF LiveType
<1>4. Attached(Pruned(l)) = {k \in Attached(l) : Open(k)}
  BY <1>1 DEF Attached, NoAtt
<1>5. \A k \in Attached(Pruned(l)) : Pruned(l).att[k] = l.att[k]
  BY <1>1, <1>4 DEF Attached
<1>6. \A k \in Sink : Pruned(l).att[k].stream <= l.att[k].stream
  BY <1>1 DEF LiveType, Att, NoAtt
<1> QED BY <1>1, <1>3, <1>4, <1>5, <1>6

\* Sizing changes nothing but the geometry, after it has pruned.
LEMMA AppliesOK ==
  ASSUME NEW l \in LiveType, NEW B \in Nat,
         \A k \in Sink : l.att[k].stream <= B
  PROVE  /\ AppliesSize(l) \in LiveType
         /\ AppliesSize(l) = [Pruned(l) EXCEPT !.size = AppliesSize(l).size]
<1> DEFINE q == Pruned(l)
           primaries == {k \in Attached(q) : q.att[k].primary}
<1>1. q \in LiveType /\ \A k \in Sink : q.att[k].stream \in Nat /\ q.att[k].stream <= B
  BY PrunedOK DEF LiveType, Att, NoAtt
<1>2. primaries \in SUBSET Sink
  BY DEF Attached
<1>3. Authority(q) \in primaries \cup {None}
  BY <1>1, <1>2, LastIn DEF Authority
<1>4. \A k \in primaries : q.att[k].size \in Size
  BY <1>1 DEF LiveType, Attached, Att, NoAtt
<1>5. CASE Authority(q) = None
  BY <1>1, <1>5 DEF AppliesSize, LiveType
<1>6. CASE Authority(q) # None
  BY <1>1, <1>3, <1>4, <1>6 DEF AppliesSize, LiveType
<1> QED BY <1>5, <1>6

\* A dropped attachment is gone from the map and owns nothing.
LEMMA DroppedOK ==
  ASSUME NEW l \in LiveType, NEW k \in Sink
  PROVE  /\ Dropped(l, k) \in LiveType
         /\ Dropped(l, k).att = [l.att EXCEPT ![k] = NoAtt]
         /\ Attached(Dropped(l, k)) = Attached(l) \ {k}
         /\ Dropped(l, k).inputOwner \in
              (({l.inputOwner} \cup Attached(l)) \ {k}) \cup {None}
         /\ Dropped(l, k).sizeOwner \in ({l.sizeOwner} \ {k}) \cup {None}
         /\ Dropped(l, k).size = l.size
<1> DEFINE rest == [l EXCEPT !.att[k] = NoAtt]
<1>1. rest \in LiveType /\ Attached(rest) = Attached(l) \ {k}
  BY DEF LiveType, Attached, Att, NoAtt
<1>2. FirstOf(rest, Attached(rest)) \in Attached(rest) \cup {None}
  BY <1>1, FirstIn DEF Attached
<1>3. Attached(rest) \subseteq Sink
  BY DEF Attached
<1> QED
  BY <1>1, <1>2, <1>3 DEF Dropped, LiveType, Attached, None, Sink

-----------------------------------------------------------------------------
(* Messages.                                                               *)

\* Messages sent keep the types of the connections.
LEMMA SendsOK ==
  ASSUME TypeOK, NEW msgs \in [Sink -> Seq(ToPage)], Sends(msgs)
  PROVE  down' \in [Sink -> Seq(ToPage)]
<1>1. \A k \in Sink : down[k] \o msgs[k] \in Seq(ToPage)
  BY ConcatProperties DEF TypeOK
<1> QED BY <1>1 DEF Sends, TypeOK

\* The session changes as said, and what it tells is well typed.
LEMMA BecomesOK ==
  ASSUME TypeOK, NEW l \in LiveType, Becomes(l)
  PROVE  live' = l /\ down' \in [Sink -> Seq(ToPage)]
<1> DEFINE msgs == [k \in Sink |->
             IF k \in Attached(l) /\ l.size # live.size
             THEN << [t |-> "size", size |-> l.size] >> ELSE <<>>]
<1>1. [t |-> "size", size |-> l.size] \in ToPage
  BY DEF LiveType, ToPage
<1>2. msgs \in [Sink -> Seq(ToPage)]
  BY <1>1
<1>3. Sends(msgs)
  BY DEF Becomes
<1> HIDE DEF msgs
<1> QED BY <1>2, <1>3, SendsOK DEF Becomes

\* A request of a page keeps the types of the connections.
LEMMA AsksOK ==
  ASSUME TypeOK, NEW p \in Page, NEW m \in ToServer, Asks(p, m)
  PROVE  up' \in [Sink -> Seq(ToServer)]
<1>1. CASE sock[p] = None
  BY <1>1 DEF Asks, TypeOK
<1>2. CASE sock[p] # None
  <2>1. sock[p] \in Sink /\ up[sock[p]] \in Seq(ToServer)
    BY <1>2 DEF TypeOK
  <2>2. Append(up[sock[p]], m) \in Seq(ToServer)
    BY <2>1
  <2> QED BY <1>2, <2>2 DEF Asks, TypeOK
<1> QED BY <1>1, <1>2

\* The chunks of a frame are chunks.
LEMMA ChunksOK ==
  ASSUME NEW a \in 0..MaxChunk, NEW n \in 0..MaxChunk
  PROVE  Chunks(a, n) \in Seq(1..MaxChunk)
<1>1. CASE a <= n
  <2>1. n - a \in Nat
    BY <1>1
  <2>2. \A i \in 1..(n - a) : a + i \in 1..MaxChunk
    BY <1>1, StreamAssumption
  <2>3. Chunks(a, n) \in [1..(n - a) -> 1..MaxChunk]
    BY <2>2 DEF Chunks
  <2> QED BY <2>1, <2>3, SeqDef
<1>2. CASE ~(a <= n)
  <2>1. 1..(n - a) = 1..0
    BY <1>2
  <2>2. Chunks(a, n) \in [1..0 -> 1..MaxChunk]
    BY <2>1 DEF Chunks
  <2> QED BY <2>2, SeqDef
<1> QED BY <1>1, <1>2

-----------------------------------------------------------------------------
(* A handler for sink k changes nothing of other sinks, but for pruning.   *)

Touches(l, k) ==
  /\ l \in LiveType
  /\ Attached(l) \subseteq Attached(live) \cup {k}
  /\ l.inputOwner \in {live.inputOwner, None, k}
  /\ l.sizeOwner \in {live.sizeOwner, None, k}

\* Taking the size: the owner is set, closed sockets pruned, the size applied.
LEMMA SizesOK ==
  ASSUME NEW l \in LiveType, NEW k \in Sink, NEW B \in Nat,
         \A j \in Sink : l.att[j].stream <= B,
         Touches(l, k)
  PROVE  LET r == AppliesSize([l EXCEPT !.sizeOwner = k])
         IN Touches(r, k) /\ \A j \in Sink : r.att[j].stream <= B
<1> DEFINE o == [l EXCEPT !.sizeOwner = k]
           q == Pruned(o)
           r == AppliesSize(o)
<1>1. o \in LiveType /\ o.att = l.att /\ o.inputOwner = l.inputOwner /\ o.sizeOwner = k
  BY DEF LiveType
<1>2. Attached(o) = Attached(l)
  BY <1>1 DEF Attached
<1>3. r \in LiveType /\ r = [q EXCEPT !.size = r.size]
  BY <1>1, AppliesOK
<1>4. /\ q \in LiveType
      /\ Attached(q) \subseteq Attached(o)
      /\ \A j \in Sink : q.att[j].stream <= o.att[j].stream
      /\ q.inputOwner \in {o.inputOwner, None}
      /\ q.sizeOwner \in {o.sizeOwner, None}
  BY <1>1, PrunedOK
<1> HIDE DEF o, q, r
<1>5. r.att = q.att /\ r.inputOwner = q.inputOwner /\ r.sizeOwner = q.sizeOwner
  BY <1>3, <1>4 DEF LiveType
<1>6. Attached(r) = Attached(q)
  BY <1>5 DEF Attached
<1>7. \A j \in Sink : q.att[j].stream \in Nat /\ o.att[j].stream \in Nat
  BY <1>1, <1>4 DEF LiveType, Att, NoAtt
<1>8. Touches(r, k)
  BY <1>1, <1>2, <1>3, <1>4, <1>5, <1>6 DEF Touches
<1>9. \A j \in Sink : r.att[j].stream <= B
  BY <1>1, <1>4, <1>5, <1>7
<1> QED BY <1>8, <1>9 DEF o, r

\* What every handler of a message on sink k leaves behind.
Handled(k) ==
  /\ Touches(live', k)
  /\ down' \in [Sink -> Seq(ToPage)]
  /\ nextStream' \in Nat \ {0}
  /\ answering' \in Seq([sink : Sink, stream : Nat, need : 0..MaxChunk])
  /\ InOrder'

\* The session has its type, and its stream numbers are numbers.
LEMMA LiveTyped ==
  ASSUME TypeOK
  PROVE  /\ live \in LiveType
         /\ \A k \in Sink : live.att[k].stream \in Nat
  BY DEF TypeOK, LiveType, Att, NoAtt

\* attach() enters sink k under an old number or under the next.
LEMMA AttachOK ==
  ASSUME IInv, NEW k \in Sink,
         NEW m \in [t : {"attach"}, size : Size, primary : BOOLEAN],
         HandlesAttach(k, m)
  PROVE  Handled(k)
<1> USE LiveTyped DEF IInv
<1> DEFINE s == IF live.att[k].stream = 0 THEN nextStream ELSE live.att[k].stream
           a == [stream |-> s, primary |-> m.primary, size |-> m.size]
           entered == [live EXCEPT !.att[k] = a]
           sized == IF m.primary
                    THEN AppliesSize([entered EXCEPT !.sizeOwner = k])
                    ELSE entered
           final == [sized EXCEPT !.inputOwner = IF @ = None THEN k ELSE @]
<1>1. s \in Nat \ {0} /\ s <= nextStream /\ nextStream \in Nat \ {0}
  BY DEF TypeOK, InOrder
<1>2. a \in Att
  BY <1>1 DEF Att
<1>3. entered \in LiveType
  BY <1>2 DEF LiveType
<1>4. /\ entered.att = [live.att EXCEPT ![k] = a]
      /\ entered.inputOwner = live.inputOwner
      /\ entered.sizeOwner = live.sizeOwner
  BY DEF LiveType
<1>5. a.stream = s
  OBVIOUS
<1> HIDE DEF a
<1>6. Attached(entered) \subseteq Attached(live) \cup {k}
  BY <1>4 DEF Attached, LiveType
<1>7. Touches(entered, k)
  BY <1>3, <1>4, <1>6 DEF Touches
<1>8. \A j \in Sink : live.att[j].stream <= nextStream
  BY <1>1 DEF InOrder
<1>9. \A j \in Sink : entered.att[j].stream <=
         (IF s = nextStream THEN nextStream ELSE nextStream - 1)
  BY <1>1, <1>4, <1>5 DEF InOrder, LiveType
<1> HIDE DEF entered, s
<1>10. Touches(sized, k) /\ \A j \in Sink : sized.att[j].stream <=
         (IF s = nextStream THEN nextStream ELSE nextStream - 1)
  <2>1. (IF s = nextStream THEN nextStream ELSE nextStream - 1) \in Nat
    BY <1>1
  <2> QED BY <1>3, <1>7, <1>9, <2>1, SizesOK
<1> HIDE DEF sized
<1>11. /\ final \in LiveType
       /\ final.att = sized.att
       /\ final.inputOwner \in {sized.inputOwner, k}
       /\ final.sizeOwner = sized.sizeOwner
  BY <1>10 DEF Touches, LiveType
<1>12. Touches(final, k)
  BY <1>10, <1>11 DEF Touches, Attached
<1>13. Becomes(final) /\ nextStream' = IF s = nextStream THEN s + 1 ELSE nextStream
  BY DEF HandlesAttach, a, entered, s, sized
<1> HIDE DEF final
<1>14. live' = final /\ down' \in [Sink -> Seq(ToPage)]
  BY <1>11, <1>13, BecomesOK
<1>15. InOrder'
  <2>1. \A j \in Sink : final.att[j].stream \in Nat
    BY <1>11 DEF LiveType, Att, NoAtt
  <2> QED BY <1>1, <1>10, <1>11, <1>13, <1>14, <2>1 DEF InOrder
<1>16. answering' \in Seq([sink : Sink, stream : Nat, need : 0..MaxChunk])
  <2>1. answering' = Append(answering, [sink |-> k, stream |-> s, need |-> produced])
    BY DEF HandlesAttach, s
  <2> QED BY <1>1, <2>1 DEF TypeOK
<1> QED BY <1>1, <1>12, <1>13, <1>14, <1>15, <1>16 DEF Handled

\* resize() and focus() share how a primary view takes the size.
LEMMA TakesSizeOK ==
  ASSUME IInv, NEW k \in Sink, NEW l \in LiveType,
         Touches(l, k),
         \A j \in Sink : l.att[j].stream = live.att[j].stream,
         Becomes(IF l.att[k].primary
                 THEN AppliesSize([l EXCEPT !.sizeOwner = k]) ELSE l),
         UNCHANGED <<nextStream, answering>>
  PROVE  Handled(k)
<1> USE LiveTyped DEF IInv
<1> DEFINE r == IF l.att[k].primary
                THEN AppliesSize([l EXCEPT !.sizeOwner = k]) ELSE l
<1> HIDE DEF r
<1>1. nextStream - 1 \in Nat /\ \A j \in Sink : l.att[j].stream <= nextStream - 1
  <2>1. nextStream \in Nat \ {0} /\ \A j \in Sink : live.att[j].stream < nextStream
    BY DEF TypeOK, InOrder
  <2>2. \A j \in Sink : live.att[j].stream \in Nat
    BY LiveTyped
  <2> QED BY <2>1, <2>2
<1> USE DEF r
<1>2. Touches(r, k) /\ \A j \in Sink : r.att[j].stream <= nextStream - 1
  BY <1>1, SizesOK
<1> HIDE DEF r
<1>3. r \in LiveType /\ \A j \in Sink : r.att[j].stream \in Nat
  BY <1>2 DEF Touches, LiveType, Att, NoAtt
<1>4. live' = r /\ down' \in [Sink -> Seq(ToPage)]
  BY <1>3, BecomesOK DEF r
<1>5. nextStream \in Nat \ {0} /\ answering \in Seq([sink : Sink, stream : Nat, need : 0..MaxChunk])
  BY DEF TypeOK
<1>6. InOrder'
  BY <1>1, <1>2, <1>3, <1>4, <1>5 DEF InOrder
<1> QED BY <1>2, <1>4, <1>5, <1>6 DEF Handled

\* A request of a sink that is not attached leaves nothing behind.
LEMMA UntouchedOK ==
  ASSUME IInv, NEW k \in Sink,
         UNCHANGED <<live, down, nextStream, answering>>
  PROVE  Handled(k)
  BY LiveTyped DEF Handled, Touches, IInv, TypeOK, InOrder

\* resize() touches only sink k, but for pruning.
LEMMA ResizeOK ==
  ASSUME IInv, NEW k \in Sink, NEW m \in [t : {"resize"}, size : Size],
         HandlesResize(k, m)
  PROVE  Handled(k)
<1> USE LiveTyped DEF IInv
<1>1. CASE k \notin Attached(live)
  BY <1>1, UntouchedOK DEF HandlesResize
<1>2. CASE k \in Attached(live)
  <2> DEFINE l == [live EXCEPT !.att[k].size = m.size]
  <2>1. [live.att[k] EXCEPT !.size = m.size] \in Att
    BY <1>2 DEF Attached, LiveType, Att, NoAtt
  <2>2. l \in LiveType
    BY <2>1 DEF LiveType
  <2>3. l.att = [live.att EXCEPT ![k] = [live.att[k] EXCEPT !.size = m.size]]
    BY DEF LiveType
  <2>4. [live.att[k] EXCEPT !.size = m.size].stream = live.att[k].stream
    BY <1>2 DEF Attached, LiveType, Att, NoAtt
  <2>5. l.inputOwner = live.inputOwner /\ l.sizeOwner = live.sizeOwner
    BY DEF LiveType
  <2>6. \A j \in Sink : l.att[j].stream = live.att[j].stream
    BY <2>3, <2>4 DEF LiveType
  <2>7. Becomes(IF l.att[k].primary
                THEN AppliesSize([l EXCEPT !.sizeOwner = k]) ELSE l)
    BY <1>2 DEF HandlesResize
  <2>8. UNCHANGED <<nextStream, answering>>
    BY DEF HandlesResize
  <2> HIDE DEF l
  <2>9. Touches(l, k)
    BY <2>2, <2>5, <2>6 DEF Touches, Attached
  <2> QED BY <2>2, <2>6, <2>7, <2>8, <2>9, TakesSizeOK
<1> QED BY <1>1, <1>2

\* focus() touches only sink k, but for pruning.
LEMMA FocusOK ==
  ASSUME IInv, NEW k \in Sink, HandlesFocus(k)
  PROVE  Handled(k)
<1> USE LiveTyped DEF IInv
<1>1. CASE k \notin Attached(live)
  BY <1>1, UntouchedOK DEF HandlesFocus
<1>2. CASE k \in Attached(live)
  <2> DEFINE l == [live EXCEPT !.inputOwner = k]
  <2>1. /\ l \in LiveType
        /\ l.att = live.att
        /\ l.inputOwner = k
        /\ l.sizeOwner = live.sizeOwner
    BY DEF LiveType
  <2>2. Becomes(IF l.att[k].primary
                THEN AppliesSize([l EXCEPT !.sizeOwner = k]) ELSE l)
    BY <1>2 DEF HandlesFocus
  <2>3. UNCHANGED <<nextStream, answering>>
    BY DEF HandlesFocus
  <2> HIDE DEF l
  <2>4. Touches(l, k)
    BY <2>1 DEF Touches, Attached
  <2> QED BY <2>1, <2>2, <2>3, <2>4, TakesSizeOK
<1> QED BY <1>1, <1>2

\* What a detach and the close of a connection leave of sink k.
Drops(k) == live' = Dropped(live, k) /\ nextStream' = nextStream

\* A dropped sink, on detach or on close.
LEMMA DropsOK ==
  ASSUME IInv, NEW k \in Sink, Drops(k)
  PROVE  /\ live' \in LiveType
         /\ InOrder'
         /\ \A j \in Sink : wire[j] = "closed" \/ j = k =>
              j \notin Attached(live') \cup {live'.inputOwner, live'.sizeOwner}
<1> USE LiveTyped DEF IInv
<1> DEFINE l == Dropped(live, k)
<1>1. /\ l \in LiveType
      /\ l.att = [live.att EXCEPT ![k] = NoAtt]
      /\ Attached(l) = Attached(live) \ {k}
      /\ l.inputOwner \in (({live.inputOwner} \cup Attached(live)) \ {k}) \cup {None}
      /\ l.sizeOwner \in ({live.sizeOwner} \ {k}) \cup {None}
  BY DroppedOK
<1>2. live' = l /\ nextStream' = nextStream
  BY DEF Drops
<1> HIDE DEF l
<1>3. \A j \in Sink : j # None
  BY DEF Sink, None
<1>4. \A j \in Sink : wire[j] = "closed" \/ j = k =>
        j \notin Attached(l) \cup {l.inputOwner, l.sizeOwner}
  BY <1>1, <1>3 DEF ClosedHoldsNothing
<1>5. InOrder'
  <2>1. nextStream \in Nat \ {0} /\ \A j \in Sink : live.att[j].stream < nextStream
    BY DEF TypeOK, InOrder
  <2>2. \A j \in Sink : l.att[j].stream < nextStream
    BY <1>1, <2>1 DEF NoAtt, LiveType
  <2> QED BY <1>2, <2>2 DEF InOrder
<1> QED BY <1>1, <1>2, <1>4, <1>5

-----------------------------------------------------------------------------
(* Every action keeps the invariant.                                       *)

\* What most steps leave alone.
LEMMA SameLive ==
  ASSUME IInv, UNCHANGED <<live, nextStream>>,
         \A k \in Sink : wire'[k] = "closed" => wire[k] = "closed"
  PROVE  InOrder' /\ ClosedHoldsNothing'
  BY DEF IInv, InOrder, ClosedHoldsNothing, Attached

\* A request of a sink that has not closed keeps the invariant.
LEMMA HandlesKeeps ==
  ASSUME IInv, NEW k \in Sink, Handles(k)
  PROVE  IInv'
<1> USE DEF IInv
<1> DEFINE m == Head(up[k])
<1>1. m \in ToServer /\ up' \in [Sink -> Seq(ToServer)]
  <2>1. up[k] \in Seq(ToServer) /\ up[k] # <<>>
    BY DEF TypeOK, Handles
  <2>2. m \in ToServer /\ Tail(up[k]) \in Seq(ToServer)
    BY <2>1, HeadTailProperties
  <2>3. up' = [up EXCEPT ![k] = Tail(up[k])]
    BY DEF Handles, TypeOK
  <2> QED BY <2>2, <2>3 DEF TypeOK
<1>2. k # None /\ wire' = wire /\ wire[k] # "closed"
  BY DEF Handles, Sink, None
<1>3. /\ UNCHANGED <<produced, flushed, short, wire, sock, streams>>
      /\ UNCHANGED <<mounted, painted, screen, at, wants, last, left>>
  BY DEF Handles, viewVars
<1>4. \/ m.t = "attach" /\ HandlesAttach(k, m)
      \/ m.t = "resize" /\ HandlesResize(k, m)
      \/ m.t = "focus" /\ HandlesFocus(k)
      \/ m.t = "detach" /\ HandlesDetach(k)
  BY DEF Handles
<1> HIDE DEF m
<1>5. CASE Handled(k)
  <2>1. ClosedHoldsNothing'
    <3>1. \A j \in Sink : wire[j] = "closed" =>
            j # k /\ j # None /\ j \notin Attached(live) \cup {live.inputOwner, live.sizeOwner}
      BY <1>2 DEF ClosedHoldsNothing, Sink, None
    <3>2. \A j \in Sink : wire[j] = "closed" =>
            j \notin Attached(live') \cup {live'.inputOwner, live'.sizeOwner}
      BY <1>5, <3>1 DEF Handled, Touches
    <3> QED BY <1>2, <3>2 DEF ClosedHoldsNothing, Attached
  <2>2. TypeOK'
    BY <1>1, <1>3, <1>5 DEF Handled, Touches, TypeOK, LiveType
  <2> QED BY <1>5, <2>1, <2>2 DEF Handled
<1>6. CASE HandlesDetach(k)
  <2>1. UNCHANGED <<down, nextStream, answering>> /\ Drops(k)
    BY <1>6 DEF HandlesDetach, Drops
  <2>2. /\ live' \in LiveType
        /\ InOrder'
        /\ \A j \in Sink : wire[j] = "closed" \/ j = k =>
             j \notin Attached(live') \cup {live'.inputOwner, live'.sizeOwner}
    BY <2>1, DropsOK
  <2>3. ClosedHoldsNothing'
    BY <1>2, <2>2 DEF ClosedHoldsNothing, Attached
  <2>4. TypeOK'
    BY <1>1, <1>3, <2>1, <2>2 DEF TypeOK, LiveType
  <2> QED BY <2>2, <2>3, <2>4
<1>7. CASE m.t = "attach" /\ HandlesAttach(k, m)
  <2>1. m \in [t : {"attach"}, size : Size, primary : BOOLEAN]
    BY <1>1, <1>7 DEF ToServer
  <2> QED BY <1>5, <1>7, <2>1, AttachOK
<1>8. CASE m.t = "resize" /\ HandlesResize(k, m)
  <2>1. m \in [t : {"resize"}, size : Size]
    BY <1>1, <1>8 DEF ToServer
  <2> QED BY <1>5, <1>8, <2>1, ResizeOK
<1>9. CASE m.t = "focus" /\ HandlesFocus(k)
  BY <1>5, <1>9, FocusOK
<1> QED BY <1>4, <1>6, <1>7, <1>8, <1>9

\* So does the snapshot that answers an attach,
LEMMA AnswersKeeps ==
  ASSUME IInv, Answers
  PROVE  IInv'
<1> USE DEF IInv
<1> DEFINE A == [sink : Sink, stream : Nat, need : 0..MaxChunk]
           a == Head(answering)
<1>1. a \in A /\ answering' \in Seq(A)
  <2>1. answering \in Seq(A) /\ answering # <<>> /\ answering' = Tail(answering)
    BY DEF TypeOK, Answers
  <2> HIDE DEF A
  <2> QED BY <2>1, HeadTailProperties
<1>2. PICK n \in a.need..produced :
        /\ Sends([k \in Sink |->
             IF k # a.sink THEN <<>>
             ELSE << [t |-> "attached", stream |-> a.stream,
                      size |-> live.size, upto |-> n] >>])
        /\ short' = IF flushed <= n THEN short
                    ELSE short \cup {[stream |-> a.stream, upto |-> n, sent |-> flushed]}
  BY DEF Answers
<1>3. n \in 0..MaxChunk
  BY <1>1, StreamAssumption DEF TypeOK
<1>4. /\ UNCHANGED <<live, nextStream, produced, flushed, wire, up, sock>>
      /\ UNCHANGED <<streams, mounted, painted, screen, at, wants, last, left>>
  BY DEF Answers, viewVars
<1>5. down' \in [Sink -> Seq(ToPage)]
  <2> DEFINE x == [t |-> "attached", stream |-> a.stream, size |-> live.size,
                   upto |-> n]
             msgs == [k \in Sink |-> IF k # a.sink THEN <<>> ELSE <<x>>]
  <2>1. a.stream \in Nat /\ live.size \in Size
    BY <1>1 DEF TypeOK
  <2>2. x \in ToPage
    BY <1>3, <2>1 DEF ToPage
  <2>3. Sends(msgs)
    BY <1>2
  <2> HIDE DEF x, a
  <2>4. msgs \in [Sink -> Seq(ToPage)]
    BY <2>2
  <2> HIDE DEF msgs
  <2> QED BY <2>3, <2>4, SendsOK
<1>6. short' \subseteq [stream : Nat, upto : 0..MaxChunk, sent : 0..MaxChunk]
  <2>1. a.stream \in Nat /\ flushed \in 0..MaxChunk
    BY <1>1, StreamAssumption DEF TypeOK
  <2> QED BY <1>2, <1>3, <2>1 DEF TypeOK
<1>7. TypeOK'
  BY <1>1, <1>4, <1>5, <1>6 DEF TypeOK
<1> QED BY <1>4, <1>7, SameLive

\* output of the session,
LEMMA ProducesKeeps ==
  ASSUME IInv, Produces
  PROVE  IInv'
<1> USE DEF IInv
<1>1. /\ UNCHANGED <<live, nextStream, answering, flushed, short, wire, up, down, sock>>
      /\ UNCHANGED <<streams, mounted, painted, screen, at, wants, last, left>>
  BY DEF Produces, viewVars
<1>2. produced' \in 0..MaxChunk /\ flushed' \in 0..produced'
  BY <1>1, StreamAssumption DEF Produces, TypeOK
<1>3. TypeOK'
  BY <1>1, <1>2 DEF TypeOK
<1> QED BY <1>1, <1>3, SameLive

\* and the frame that carries it.
LEMMA FlushesKeeps ==
  ASSUME IInv, Flushes
  PROVE  IInv'
<1> USE DEF IInv
<1>1. /\ UNCHANGED <<live, nextStream, answering, produced, short, wire, up, sock>>
      /\ UNCHANGED <<streams, mounted, painted, screen, at, wants, last, left>>
      /\ flushed' = produced
  BY DEF Flushes, viewVars
<1>2. flushed \in 0..MaxChunk /\ produced \in 0..MaxChunk /\ flushed' \in 0..produced
  BY <1>1, StreamAssumption DEF TypeOK
<1>3. down' \in [Sink -> Seq(ToPage)]
  <2> DEFINE msgs == [k \in Sink |->
               IF k \notin Attached(live) THEN <<>>
               ELSE << [t |-> "out", stream |-> live.att[k].stream,
                        after |-> flushed, upto |-> produced] >>]
  <2>1. \A k \in Sink :
          [t |-> "out", stream |-> live.att[k].stream,
           after |-> flushed, upto |-> produced] \in ToPage
    BY <1>2, LiveTyped DEF ToPage
  <2>2. msgs \in [Sink -> Seq(ToPage)]
    BY <2>1
  <2>3. Sends(msgs)
    BY <1>1 DEF Flushes
  <2> HIDE DEF msgs
  <2> QED BY <2>2, <2>3, SendsOK
<1>4. TypeOK'
  BY <1>1, <1>2, <1>3 DEF TypeOK
<1> QED BY <1>1, <1>4, SameLive

\* A connection that is closing is not closed yet.
LEMMA NoticesKeeps ==
  ASSUME IInv, NEW k \in Sink, Notices(k)
  PROVE  IInv'
<1> USE DEF IInv
<1>1. /\ UNCHANGED <<live, nextStream, answering, produced, flushed, short, up, down>>
      /\ UNCHANGED <<sock, streams, mounted, painted, screen, at, wants, last>>
      /\ wire' = [wire EXCEPT ![k] = "closing"]
  BY DEF Notices, serverVars, viewVars
<1>2. left' \in [Outside -> Nat]
  BY DEF Notices, Spends, Outside, TypeOK
<1>3. TypeOK'
  BY <1>1, <1>2 DEF TypeOK
<1>4. \A j \in Sink : wire'[j] = "closed" => wire[j] = "closed"
  BY <1>1 DEF TypeOK
<1> QED BY <1>1, <1>3, <1>4, SameLive

\* When it closes, detachAll has taken all it held.
LEMMA ClosesKeeps ==
  ASSUME IInv, NEW k \in Sink, Closes(k)
  PROVE  IInv'
<1> USE DEF IInv
<1>1. /\ UNCHANGED <<nextStream, answering, produced, flushed, short, down, sock>>
      /\ UNCHANGED <<streams, mounted, painted, screen, at, wants, last, left>>
      /\ wire' = [wire EXCEPT ![k] = "closed"]
      /\ up' = [up EXCEPT ![k] = <<>>]
      /\ Drops(k)
  BY DEF Closes, Drops, viewVars
<1>2. /\ live' \in LiveType
      /\ InOrder'
      /\ \A j \in Sink : wire[j] = "closed" \/ j = k =>
           j \notin Attached(live') \cup {live'.inputOwner, live'.sizeOwner}
  BY <1>1, DropsOK
<1>3. ClosedHoldsNothing'
  BY <1>1, <1>2 DEF ClosedHoldsNothing, Attached, TypeOK
<1>4. up' \in [Sink -> Seq(ToServer)]
  BY <1>1 DEF TypeOK
<1>5. TypeOK'
  BY <1>1, <1>2, <1>4 DEF TypeOK, LiveType
<1> QED BY <1>2, <1>3, <1>5

-----------------------------------------------------------------------------
(* The pages.                                                              *)

\* What a page asks for its views is a request the server understands.
LEMMA AttachMsgsOK ==
  ASSUME NEW V \in SUBSET View, wants' \in [View -> Size]
  PROVE  AttachMsgs(V) \subseteq ToServer
<1> DEFINE primaries == V \cap Primary
           W == IF primaries = {} THEN V ELSE primaries
<1>1. W \subseteq View
  OBVIOUS
<1>2. AttachMsgs(V) = {[t |-> "attach", size |-> wants'[v],
                        primary |-> primaries # {}] : v \in W}
  BY DEF AttachMsgs
<1>3. \A v \in W : [t |-> "attach", size |-> wants'[v],
                    primary |-> primaries # {}] \in ToServer
  <2> TAKE v \in W
  <2>1. wants'[v] \in Size /\ (primaries # {}) \in BOOLEAN
    BY <1>1
  <2> QED BY <2>1 DEF ToServer
<1> QED BY <1>2, <1>3

\* A new connection was not closed, and asks one attach.
LEMMA OpensKeeps ==
  ASSUME IInv, NEW p \in Page, NEW k \in Sink, Opens(p, k)
  PROVE  IInv'
<1> USE DEF IInv
<1>1. /\ UNCHANGED <<live, nextStream, answering, produced, flushed, short, down>>
      /\ UNCHANGED <<streams, mounted, screen, at, wants, last, left>>
      /\ wire' = [wire EXCEPT ![k] = "open"]
      /\ sock' = [sock EXCEPT ![p] = k]
      /\ painted' = painted \ Views(p)
  BY DEF Opens, serverVars
<1>2. up' \in [Sink -> Seq(ToServer)]
  <2>1. CASE UNCHANGED up
    BY <2>1 DEF TypeOK
  <2>2. CASE \E m \in AttachMsgs(Views(p)) : up' = [up EXCEPT ![k] = <<m>>]
    <3>1. PICK m \in AttachMsgs(Views(p)) : up' = [up EXCEPT ![k] = <<m>>]
      BY <2>2
    <3>2. Views(p) \in SUBSET View /\ wants' \in [View -> Size]
      BY <1>1 DEF Views, TypeOK
    <3>3. m \in ToServer
      BY <3>1, <3>2, AttachMsgsOK
    <3> QED BY <3>1, <3>3 DEF TypeOK
  <2> QED BY <2>1, <2>2 DEF Opens
<1>3. TypeOK'
  BY <1>1, <1>2 DEF TypeOK
<1>4. \A j \in Sink : wire'[j] = "closed" => wire[j] = "closed"
  BY <1>1 DEF TypeOK
<1> QED BY <1>1, <1>3, <1>4, SameLive

\* What a page does to its own views changes no attachment: losing its socket,
LEMMA LosesKeeps ==
  ASSUME IInv, NEW p \in Page, Loses(p)
  PROVE  IInv'
<1> USE DEF IInv
<1>1. /\ UNCHANGED <<live, nextStream, answering, produced, flushed, short, wire, up>>
      /\ UNCHANGED <<streams, mounted, painted, screen, at, wants, last>>
      /\ sock' = [sock EXCEPT ![p] = None]
      /\ down' = [down EXCEPT ![sock[p]] = <<>>]
  BY DEF Loses, serverVars, viewVars
<1>2. left' \in [Outside -> Nat]
  BY DEF Loses, Spends, Outside, TypeOK
<1>3. down' \in [Sink -> Seq(ToPage)]
  <2>1. down \in [Sink -> Seq(ToPage)] /\ <<>> \in Seq(ToPage)
    BY DEF TypeOK
  <2> QED BY <1>1, <2>1
<1>4. TypeOK'
  BY <1>1, <1>2, <1>3 DEF TypeOK
<1> QED BY <1>1, <1>4, SameLive

\* mounting a view,
LEMMA MountsKeeps ==
  ASSUME IInv, NEW v \in View, Mounts(v)
  PROVE  IInv'
<1> USE DEF IInv
<1>1. /\ UNCHANGED <<live, nextStream, answering, produced, flushed, short, wire, down>>
      /\ UNCHANGED <<sock, streams, painted, screen, at, wants, last>>
      /\ mounted' = mounted \cup {v}
  BY DEF Mounts, serverVars
<1>2. left' \in [Outside -> Nat]
  BY DEF Mounts, Spends, Outside, TypeOK
<1>3. PageOf[v] \in Page
  BY StreamAssumption
<1>4. up' \in [Sink -> Seq(ToServer)]
  <2> DEFINE V == Views(PageOf[v]) \cup {v}
  <2>1. PICK m \in AttachMsgs(V) : Asks(PageOf[v], m)
    BY DEF Mounts
  <2>2. V \in SUBSET View /\ wants' \in [View -> Size]
    BY <1>1 DEF Views, TypeOK
  <2> HIDE DEF V
  <2>3. m \in ToServer
    BY <2>2, AttachMsgsOK
  <2> QED BY <1>3, <2>1, <2>3, AsksOK
<1>5. TypeOK'
  BY <1>1, <1>2, <1>4 DEF TypeOK
<1> QED BY <1>1, <1>5, SameLive

\* unmounting one,
LEMMA UnmountsKeeps ==
  ASSUME IInv, NEW v \in View, Unmounts(v)
  PROVE  IInv'
<1> USE DEF IInv
<1> DEFINE rest == Views(PageOf[v]) \ {v}
<1>1. /\ UNCHANGED <<live, nextStream, answering, produced, flushed, short, wire, down>>
      /\ UNCHANGED <<sock, streams>>
      /\ Disposes(v)
      /\ last' \in {last, None}
  BY DEF Unmounts, serverVars
<1>2. left' \in [Outside -> Nat]
  BY DEF Unmounts, Spends, Outside, TypeOK
<1>3. PageOf[v] \in Page /\ Room[v] \in Size
  BY StreamAssumption
<1>4. /\ mounted' \subseteq View
      /\ painted' \subseteq mounted'
      /\ screen' \in [View -> Seq(1..MaxChunk)]
      /\ at' \in [View -> Size]
      /\ wants' \in [View -> Size]
  BY <1>1, <1>3 DEF Disposes, TypeOK
<1>5. up' \in [Sink -> Seq(ToServer)]
  <2>1. PICK m \in IF rest = {} THEN {[t |-> "detach"]} ELSE AttachMsgs(rest) :
          Asks(PageOf[v], m)
    BY DEF Unmounts
  <2>2. rest \in SUBSET View
    BY DEF Views, TypeOK
  <2> HIDE DEF rest
  <2>3. AttachMsgs(rest) \subseteq ToServer
    BY <1>4, <2>2, AttachMsgsOK
  <2>4. [t |-> "detach"] \in ToServer
    BY DEF ToServer
  <2>5. m \in ToServer
    BY <2>1, <2>3, <2>4
  <2> QED BY <1>3, <2>1, <2>5, AsksOK
<1>6. TypeOK'
  BY <1>1, <1>2, <1>4, <1>5 DEF TypeOK
<1> QED BY <1>1, <1>6, SameLive

\* resizing one,
LEMMA ResizesKeeps ==
  ASSUME IInv, NEW v \in View, NEW z \in Size, Resizes(v, z)
  PROVE  IInv'
<1> USE DEF IInv
<1>1. /\ UNCHANGED <<live, nextStream, answering, produced, flushed, short, wire, down>>
      /\ UNCHANGED <<sock, streams, mounted, painted, screen, last>>
      /\ at' = [at EXCEPT ![v] = z]
      /\ wants' = [wants EXCEPT ![v] = z]
  BY DEF Resizes, serverVars
<1>2. left' \in [Outside -> Nat]
  BY DEF Resizes, Spends, Outside, TypeOK
<1>3. up' \in [Sink -> Seq(ToServer)]
  <2>1. PageOf[v] \in Page
    BY StreamAssumption
  <2>2. [t |-> "resize", size |-> z] \in ToServer
    BY DEF ToServer
  <2>3. Asks(PageOf[v], [t |-> "resize", size |-> z])
    BY DEF Resizes
  <2> QED BY <2>1, <2>2, <2>3, AsksOK
<1>4. TypeOK'
  BY <1>1, <1>2, <1>3 DEF TypeOK
<1> QED BY <1>1, <1>4, SameLive

\* and focusing one.
LEMMA FocusesKeeps ==
  ASSUME IInv, NEW v \in View, Focuses(v)
  PROVE  IInv'
<1> USE DEF IInv
<1>1. /\ UNCHANGED <<live, nextStream, answering, produced, flushed, short, wire, down>>
      /\ UNCHANGED <<sock, streams, mounted, painted, screen, at, wants>>
      /\ last' = PageOf[v]
  BY DEF Focuses, serverVars, viewVars
<1>2. left' \in [Outside -> Nat]
  BY DEF Focuses, Spends, Outside, TypeOK
<1>3. PageOf[v] \in Page
  BY StreamAssumption
<1>4. up' \in [Sink -> Seq(ToServer)]
  <2>1. [t |-> "focus"] \in ToServer
    BY DEF ToServer
  <2>2. Asks(PageOf[v], [t |-> "focus"])
    BY DEF Focuses
  <2> QED BY <1>3, <2>1, <2>2, AsksOK
<1>5. TypeOK'
  BY <1>1, <1>2, <1>3, <1>4 DEF TypeOK
<1> QED BY <1>1, <1>5, SameLive

\* What the handler of a message leaves of a page's terminals.
Shown ==
  /\ streams' \in [Page -> SUBSET Nat]
  /\ painted' \subseteq mounted
  /\ screen' \in [View -> Seq(1..MaxChunk)]
  /\ at' \in [View -> Size]

\* A snapshot is painted in chunks that were printed.
LEMMA RepaintsOK ==
  ASSUME TypeOK, NEW p \in Page,
         NEW m \in [t : {"attached"}, stream : Nat, size : Size, upto : 0..MaxChunk],
         Repaints(p, m)
  PROVE  Shown
<1> DEFINE again == streams[p] \ {m.stream} # {}
           fresh == IF again THEN Views(p) ELSE Views(p) \ painted
<1>1. fresh \subseteq mounted
  BY DEF Views
<1>2. Chunks(0, m.upto) \in Seq(1..MaxChunk)
  BY ChunksOK, StreamAssumption
<1> HIDE DEF again
<1>3. /\ streams' = [streams EXCEPT ![p] = {m.stream}]
      /\ painted' = painted \cup fresh
      /\ screen' = [v \in View |-> IF v \in fresh THEN Chunks(0, m.upto)
                                                  ELSE screen[v]]
      /\ at' = [v \in View |-> IF v \in fresh THEN m.size ELSE at[v]]
  BY DEF Repaints, again
<1> HIDE DEF fresh
<1> QED BY <1>1, <1>2, <1>3 DEF Shown, TypeOK

\* So is output.
LEMMA WritesOK ==
  ASSUME TypeOK, NEW p \in Page,
         NEW m \in [t : {"out"}, stream : Nat, after : 0..MaxChunk,
                    upto : 0..MaxChunk],
         Writes(p, m)
  PROVE  Shown
<1>1. Chunks(m.after, m.upto) \in Seq(1..MaxChunk)
  BY ChunksOK
<1>2. \A v \in View : screen[v] \in Seq(1..MaxChunk)
  BY DEF TypeOK
<1> DEFINE c == Chunks(m.after, m.upto)
<1> HIDE DEF c
<1>3. \A v \in View : screen[v] \o c \in Seq(1..MaxChunk)
  BY <1>1, <1>2, ConcatProperties DEF c
<1>4. screen' \in [View -> Seq(1..MaxChunk)]
  BY <1>2, <1>3 DEF Writes, c
<1> QED BY <1>4 DEF Shown, TypeOK, Writes

\* A message to a page changes only its terminals.
LEMMA ReceivesKeeps ==
  ASSUME IInv, NEW p \in Page, Receives(p)
  PROVE  IInv'
<1> USE DEF IInv
<1> DEFINE m == Head(down[sock[p]])
<1>1. /\ UNCHANGED <<live, nextStream, answering, produced, flushed, short, wire, up>>
      /\ UNCHANGED <<sock, mounted, wants, last, left>>
      /\ down' = [down EXCEPT ![sock[p]] = Tail(down[sock[p]])]
  BY DEF Receives, serverVars, TypeOK
<1>2. sock[p] \in Sink /\ down[sock[p]] \in Seq(ToPage) /\ down[sock[p]] # <<>>
  BY DEF Receives, TypeOK
<1>3. m \in ToPage /\ Tail(down[sock[p]]) \in Seq(ToPage)
  BY <1>2, HeadTailProperties
<1>4. down' \in [Sink -> Seq(ToPage)]
  BY <1>1, <1>2, <1>3 DEF TypeOK
<1>5. \/ m.t = "attached" /\ Repaints(p, m)
      \/ m.t = "size" /\ Fits(p, m)
      \/ m.t = "out" /\ Writes(p, m)
  BY DEF Receives
<1> HIDE DEF m
<1>6. Shown
  <2>1. CASE m.t = "attached" /\ Repaints(p, m)
    <3>1. m \in [t : {"attached"}, stream : Nat, size : Size, upto : 0..MaxChunk]
      BY <1>3, <2>1 DEF ToPage
    <3> QED BY <2>1, <3>1, RepaintsOK
  <2>2. CASE m.t = "size" /\ Fits(p, m)
    <3>1. m.size \in Size
      BY <1>3, <2>2 DEF ToPage
    <3> QED BY <2>2, <3>1 DEF Shown, TypeOK, Fits
  <2>3. CASE m.t = "out" /\ Writes(p, m)
    <3>1. m \in [t : {"out"}, stream : Nat, after : 0..MaxChunk, upto : 0..MaxChunk]
      BY <1>3, <2>3 DEF ToPage
    <3> QED BY <2>3, <3>1, WritesOK
  <2> QED BY <1>5, <2>1, <2>2, <2>3
<1>7. TypeOK'
  BY <1>1, <1>4, <1>6 DEF TypeOK, Shown
<1> QED BY <1>1, <1>7, SameLive

-----------------------------------------------------------------------------
(* The theorems.                                                           *)

\* A session nobody has attached to satisfies the invariant.
LEMMA InitHolds == Init => IInv
<1> SUFFICES ASSUME Init PROVE IInv
  OBVIOUS
<1>1. FirstSize \in Size
  BY StreamAssumption DEF FirstSize
<1>2. live \in LiveType /\ Attached(live) = {}
      /\ live.inputOwner = None /\ live.sizeOwner = None
  BY <1>1 DEF Init, LiveType, Att, NoAtt, Attached
<1>3. sock \in [Page -> Sink \cup {None}]
  BY StreamAssumption DEF Init, Sink, None
<1>4. at \in [View -> Size] /\ wants \in [View -> Size] /\ left \in [Outside -> Nat]
  BY StreamAssumption DEF Init
<1>5. produced \in 0..MaxChunk /\ flushed \in 0..produced
  BY StreamAssumption DEF Init
<1>6. TypeOK
  BY <1>2, <1>3, <1>4, <1>5 DEF Init, TypeOK, LiveType
<1>7. InOrder
  BY DEF Init, InOrder, NoAtt
<1>8. ClosedHoldsNothing
  BY <1>2 DEF ClosedHoldsNothing, Sink, None
<1> QED BY <1>6, <1>7, <1>8 DEF IInv

\* Every step keeps it.
LEMMA StepKeeps == IInv /\ [Next]_vars => IInv'
<1> SUFFICES ASSUME IInv, [Next]_vars PROVE IInv'
  OBVIOUS
<1>1. CASE UNCHANGED vars
  BY <1>1 DEF IInv, TypeOK, InOrder, ClosedHoldsNothing, Attached, vars,
              serverVars, viewVars
<1>2. CASE Server
  BY <1>2, HandlesKeeps, NoticesKeeps, ClosesKeeps, AnswersKeeps,
     ProducesKeeps, FlushesKeeps DEF Server
<1>3. CASE Browser
  BY <1>3, LosesKeeps, ReceivesKeeps, OpensKeeps, MountsKeeps, UnmountsKeeps,
     FocusesKeeps, ResizesKeeps DEF Browser
<1> QED BY <1>1, <1>2, <1>3 DEF Next

\* The types, the order of the attachments and the silence of closed
\* connections hold whatever the numbers of pages, views, connections and
\* chunks.
THEOREM StreamInductive == Spec => []IInv
  BY InitHolds, StepKeeps, PTL DEF Spec

\* Every variable keeps its type.
THEOREM StreamTypeCorrect == Spec => []TypeOK
<1>1. IInv => TypeOK
  BY DEF IInv
<1> QED BY <1>1, StreamInductive, PTL

\* A connection that has closed holds nothing of the session, in whatever
\* order pruning, detachAll and the requests still on their way ran.
THEOREM ClosedHoldsNothingHolds == Spec => []ClosedHoldsNothing
<1>1. IInv => ClosedHoldsNothing
  BY DEF IInv
<1> QED BY <1>1, StreamInductive, PTL
-----------------------------------------------------------------------------
(***************************************************************************)
(* What is on its way to a page.                                           *)
(***************************************************************************)

Tagged(f) == f.t \in {"attached", "out"}
OutOf(f, s) == f.t = "out" /\ f.stream = s

\* What a snapshot of m chunks of one of the streams S lacked of what had been sent.
Hole(L, S, m, n) == \E z \in L : z.stream \in S /\ z.upto = m /\ n <= z.sent
Covers(L, s, n, a) == a <= n \/ Hole(L, {s}, n, a)

\* Who shows n chunks before frame i + 1 of d comes has those up to a before frame j does.
Reach(L, d, i, j, s, n, a) == Covers(L, s, n, a) \/ \E m \in i + 1 .. j - 1 : OutOf(d[m], s) /\ d[m].upto >= a

\* Who shows n chunks after frame i of d skips none.
Smooth(L, d, i, s, n) == \A j \in i + 1 .. Len(d) : OutOf(d[j], s) => Reach(L, d, i, j, s, n, d[j].after)
Ends(L, d, i, s, n, f) == Reach(L, d, i, Len(d) + 1, s, n, f)

\* Of the frames on their way, the numbers given out, the one in use and what is flushed.
FlowOK(L, d, next, s, f) ==
  \A i \in 1 .. Len(d) :
    /\ Tagged(d[i]) =>
         /\ d[i].stream \in 1 .. next - 1
         /\ Smooth(L, d, i, d[i].stream, d[i].upto)
         /\ d[i].stream = s => Ends(L, d, i, s, d[i].upto, f)
    /\ d[i].t = "out" => d[i].after < d[i].upto

\* Of a view that shows n chunks and knows the streams S.
ShowsOK(L, d, S, s, n, f) ==
  \A o \in S : Smooth(L, d, 0, o, n) /\ (o = s => Ends(L, d, 0, o, n, f))

\* A screen has every chunk up to its last, and skips none, but for holes.
Newest(c) == IF c = <<>> THEN 0 ELSE c[Len(c)]
Before(c, i) == IF i = 1 THEN 0 ELSE c[i - 1]
Whole(L, S, c) ==
  /\ \A i \in 1 .. Len(c) : c[i] <= Before(c, i) + 1 \/ Hole(L, S, Before(c, i), c[i] - 1)
  /\ \A n \in 1 .. Newest(c) : (\E i \in 1 .. Len(c) : c[i] = n) \/ \E m \in 0 .. n - 1 : Hole(L, S, m, n)

ScreensOK ==
  \A v \in View : Whole(short, streams[PageOf[v]], screen[v]) /\ (v \notin mounted => screen[v] = <<>>)

Reads(k) == Open(k) /\ Read(k)
Now(k) == IF Reads(k) THEN live.att[k].stream ELSE 0

WireOK ==
  /\ \A p \in Page : sock[p] # None => wire[sock[p]] # "new" /\ \A q \in Page : sock[p] = sock[q] => p = q
  /\ \A k \in Sink : ~Read(k) => down[k] = <<>>

GapOK ==
  /\ WireOK
  /\ \A k \in Sink : FlowOK(short, down[k], nextStream, Now(k), flushed)
  /\ \A i \in 1 .. Len(answering) : answering[i].stream \in 1 .. nextStream - 1
  /\ \A p \in Page : streams[p] \subseteq 1 .. nextStream - 1 /\ \A s, o \in streams[p] : s = o
  /\ \A v \in painted :
       /\ streams[PageOf[v]] # {}
       /\ sock[PageOf[v]] # None =>
            ShowsOK(short, down[sock[PageOf[v]]], streams[PageOf[v]], Now(sock[PageOf[v]]), Newest(screen[v]), flushed)
  /\ ScreensOK

-----------------------------------------------------------------------------
(* One frame more, and one less.                                           *)

LEMMA FrameOn ==
  ASSUME NEW S, NEW d \in Seq(S), NEW m \in S
  PROVE  /\ Append(d, m) \in Seq(S) /\ Len(Append(d, m)) = Len(d) + 1 /\ Len(d) \in Nat
         /\ Append(d, m)[Len(d) + 1] = m /\ \A i \in 1 .. Len(d) : Append(d, m)[i] = d[i]
  OBVIOUS

LEMMA FrameOff ==
  ASSUME NEW S, NEW d \in Seq(S), d # <<>>
  PROVE  /\ Tail(d) \in Seq(S) /\ Len(Tail(d)) = Len(d) - 1 /\ Len(d) \in Nat \ {0}
         /\ Head(d) = d[1] /\ d[1] \in S /\ \A i \in 1 .. Len(d) - 1 : Tail(d)[i] = d[i + 1]
  OBVIOUS

LEMMA ReachOn ==
  ASSUME NEW L, NEW d \in Seq(ToPage), NEW m \in ToPage, NEW i \in 0 .. Len(d), NEW j \in i .. Len(d) + 1,
         NEW s \in Nat, NEW n \in Nat, NEW a \in Nat
  PROVE  /\ Reach(L, Append(d, m), i, j, s, n, a) <=> Reach(L, d, i, j, s, n, a)
         /\ Reach(L, d, i, j, s, n, a) => Reach(L, Append(d, m), i, Len(d) + 2, s, n, a)
         /\ OutOf(m, s) /\ a <= m.upto => Reach(L, Append(d, m), i, Len(d) + 2, s, n, a)
<1> DEFINE w == Append(d, m)
<1>1. /\ w \in Seq(ToPage) /\ Len(w) = Len(d) + 1 /\ Len(d) \in Nat
      /\ w[Len(d) + 1] = m /\ \A h \in 1 .. Len(d) : w[h] = d[h]
  BY FrameOn
<1> HIDE DEF w
<1>2. \A h \in i + 1 .. j - 1 : h \in 1 .. Len(d) /\ w[h] = d[h]
  BY <1>1
<1>3. Reach(L, w, i, j, s, n, a) <=> Reach(L, d, i, j, s, n, a)
  BY <1>2 DEF Reach
<1>4. \A h \in i + 1 .. j - 1 : h \in i + 1 .. (Len(d) + 2) - 1
  BY <1>1
<1>5. Len(d) + 1 \in i + 1 .. (Len(d) + 2) - 1
  BY <1>1
<1>6. Reach(L, w, i, j, s, n, a) => Reach(L, w, i, Len(d) + 2, s, n, a)
  BY <1>4 DEF Reach
<1>7. OutOf(m, s) /\ a <= m.upto => Reach(L, w, i, Len(d) + 2, s, n, a)
  <2>1. OutOf(m, s) => m.upto \in Nat
    BY StreamAssumption DEF OutOf, ToPage
  <2> QED
    BY <1>1, <1>5, <2>1 DEF Reach
<1> QED
  BY <1>3, <1>6, <1>7 DEF w

LEMMA SmoothOn ==
  ASSUME NEW L, NEW d \in Seq(ToPage), NEW m \in ToPage, NEW i \in 0 .. Len(d), NEW s \in Nat, NEW n \in Nat,
         Smooth(L, d, i, s, n), OutOf(m, s) => Ends(L, d, i, s, n, m.after)
  PROVE  Smooth(L, Append(d, m), i, s, n)
<1> DEFINE w == Append(d, m)
<1>1. /\ Len(w) = Len(d) + 1 /\ Len(d) \in Nat
      /\ w[Len(d) + 1] = m /\ \A h \in 1 .. Len(d) : w[h] = d[h]
  BY FrameOn
<1> HIDE DEF w
<1> SUFFICES ASSUME NEW j \in i + 1 .. Len(w), OutOf(w[j], s) PROVE Reach(L, w, i, j, s, n, w[j].after)
  BY DEF Smooth, w
<1>2. w[j].after \in Nat
  <2>1. w[j] \in ToPage
    BY <1>1, FrameOn DEF w
  <2> QED
    BY <2>1, StreamAssumption DEF OutOf, ToPage
<1>3. j \in i .. Len(d) + 1
  BY <1>1
<1>4. Reach(L, w, i, j, s, n, w[j].after) <=> Reach(L, d, i, j, s, n, w[j].after)
  BY <1>2, <1>3, ReachOn DEF w
<1>5. CASE j = Len(d) + 1
  BY <1>1, <1>4, <1>5 DEF Ends
<1>6. CASE j # Len(d) + 1
  <2>1. j \in i + 1 .. Len(d) /\ w[j] = d[j]
    BY <1>1, <1>6
  <2> QED
    BY <1>4, <2>1 DEF Smooth
<1> QED
  BY <1>5, <1>6

LEMMA EndsOn ==
  ASSUME NEW L, NEW d \in Seq(ToPage), NEW m \in ToPage, NEW i \in 0 .. Len(d), NEW s \in Nat, NEW n \in Nat, NEW f \in Nat,
         Ends(L, d, i, s, n, f) \/ (OutOf(m, s) /\ f <= m.upto)
  PROVE  Ends(L, Append(d, m), i, s, n, f)
<1>1. Len(Append(d, m)) = Len(d) + 1 /\ Len(d) \in Nat
  BY FrameOn
<1>2. Len(d) + 1 \in i .. Len(d) + 1 /\ Len(Append(d, m)) + 1 = Len(d) + 2
  BY <1>1
<1> QED
  BY <1>2, ReachOn DEF Ends

LEMMA ReachOff ==
  ASSUME NEW L, NEW d \in Seq(ToPage), d # <<>>, NEW i \in Nat, NEW j \in Nat \ {0}, j <= Len(d),
         NEW s \in Nat, NEW n \in Nat, NEW a \in Nat
  PROVE  /\ Reach(L, d, i + 1, j + 1, s, n, a) => Reach(L, Tail(d), i, j, s, n, a)
         /\ i = 0 /\ ~OutOf(d[1], s) /\ Reach(L, d, 0, j + 1, s, n, a) => Reach(L, Tail(d), 0, j, s, n, a)
<1> DEFINE v == Tail(d)
<1>1. Len(v) = Len(d) - 1 /\ Len(d) \in Nat \ {0} /\ \A h \in 1 .. Len(d) - 1 : v[h] = d[h + 1]
  BY FrameOff
<1> HIDE DEF v
<1>2. \A h \in (i + 1) + 1 .. (j + 1) - 1 : h - 1 \in i + 1 .. j - 1 /\ v[h - 1] = d[h]
  BY <1>1
<1>3. \A h \in 0 + 1 .. (j + 1) - 1 : h = 1 \/ (h - 1 \in 0 + 1 .. j - 1 /\ v[h - 1] = d[h])
  BY <1>1
<1>4. Reach(L, d, i + 1, j + 1, s, n, a) => Reach(L, v, i, j, s, n, a)
  BY <1>2 DEF Reach
<1>5. ~OutOf(d[1], s) /\ Reach(L, d, 0, j + 1, s, n, a) => Reach(L, v, 0, j, s, n, a)
  BY <1>3 DEF Reach
<1> QED
  BY <1>4, <1>5 DEF v

LEMMA SmoothOff ==
  ASSUME NEW L, NEW d \in Seq(ToPage), d # <<>>, NEW i \in Nat, i < Len(d), NEW s \in Nat, NEW n \in Nat, NEW f \in Nat
  PROVE  /\ Smooth(L, d, i + 1, s, n) => Smooth(L, Tail(d), i, s, n)
         /\ Ends(L, d, i + 1, s, n, f) => Ends(L, Tail(d), i, s, n, f)
         /\ i = 0 /\ ~OutOf(d[1], s) /\ Smooth(L, d, 0, s, n) => Smooth(L, Tail(d), 0, s, n)
         /\ i = 0 /\ ~OutOf(d[1], s) /\ Ends(L, d, 0, s, n, f) => Ends(L, Tail(d), 0, s, n, f)
         /\ i = 0 /\ OutOf(d[1], s) /\ Smooth(L, d, 0, s, n) => Covers(L, s, n, d[1].after)
<1> DEFINE v == Tail(d)
<1>1. /\ Len(v) = Len(d) - 1 /\ Len(d) \in Nat \ {0} /\ \A h \in 1 .. Len(d) - 1 : v[h] = d[h + 1]
      /\ v \in Seq(ToPage)
  BY FrameOff
<1> HIDE DEF v
<1>2. ASSUME NEW j \in i + 1 .. Len(v), OutOf(v[j], s), i = 0 \/ i > 0,
             \/ Smooth(L, d, i + 1, s, n)
             \/ i = 0 /\ ~OutOf(d[1], s) /\ Smooth(L, d, 0, s, n)
      PROVE  Reach(L, v, i, j, s, n, v[j].after)
  <2>1. /\ j \in Nat \ {0} /\ j <= Len(d) /\ v[j] = d[j + 1] /\ v[j] \in ToPage
        /\ j + 1 \in (i + 1) + 1 .. Len(d) /\ j + 1 \in 0 + 1 .. Len(d)
    BY <1>1, <1>2
  <2>2. v[j].after \in Nat
    BY <1>2, <2>1, StreamAssumption DEF OutOf, ToPage
  <2>3. CASE Smooth(L, d, i + 1, s, n)
    <3>1. Reach(L, d, i + 1, j + 1, s, n, v[j].after)
      BY <1>2, <2>1, <2>3 DEF Smooth
    <3> QED
      BY <2>1, <2>2, <3>1, ReachOff DEF v
  <2>4. CASE i = 0 /\ ~OutOf(d[1], s) /\ Smooth(L, d, 0, s, n)
    <3>1. Reach(L, d, 0, j + 1, s, n, v[j].after)
      BY <1>2, <2>1, <2>4 DEF Smooth
    <3> QED
      BY <2>1, <2>2, <2>4, <3>1, ReachOff DEF v
  <2> QED
    BY <1>2, <2>3, <2>4
<1>3. /\ Smooth(L, d, i + 1, s, n) => Smooth(L, v, i, s, n)
      /\ i = 0 /\ ~OutOf(d[1], s) /\ Smooth(L, d, 0, s, n) => Smooth(L, v, 0, s, n)
  BY <1>2 DEF Smooth
<1>4. Len(v) + 1 \in Nat \ {0} /\ Len(v) + 1 <= Len(d) /\ (Len(v) + 1) + 1 = Len(d) + 1
  BY <1>1
<1>5. /\ Ends(L, d, i + 1, s, n, f) => Ends(L, v, i, s, n, f)
      /\ i = 0 /\ ~OutOf(d[1], s) /\ Ends(L, d, 0, s, n, f) => Ends(L, v, 0, s, n, f)
  BY <1>4, ReachOff DEF Ends, v
<1>6. OutOf(d[1], s) /\ Smooth(L, d, 0, s, n) => Covers(L, s, n, d[1].after)
  <2>1. 1 \in 0 + 1 .. Len(d) /\ ~\E h \in 0 + 1 .. 1 - 1 : TRUE
    BY <1>1
  <2> QED
    BY <2>1 DEF Smooth, Reach
<1> QED
  BY <1>3, <1>5, <1>6 DEF v

-----------------------------------------------------------------------------
(* The frames of a connection, and what is seen of them.                   *)

LEMMA FrameTyped ==
  ASSUME NEW d \in Seq(ToPage), NEW i \in 1 .. Len(d)
  PROVE  /\ d[i] \in ToPage
         /\ Tagged(d[i]) => d[i].stream \in Nat /\ d[i].upto \in Nat
         /\ d[i].t = "out" => d[i].after \in Nat
         /\ d[i].t = "out" \/ d[i].t = "attached" <=> Tagged(d[i])
         /\ d[i].t = "size" <=> ~Tagged(d[i])
         /\ d[i].t \in {"size", "attached"} => d[i].size \in Size
<1>1. d[i] \in ToPage
  OBVIOUS
<1> QED
  BY <1>1, StreamAssumption DEF ToPage, Tagged

\* A hole more excuses no less.
LEMMA HolesGrow ==
  ASSUME NEW L, NEW M, L \subseteq M, NEW d, NEW next, NEW S, NEW s, NEW n, NEW f, NEW c
  PROVE  /\ FlowOK(L, d, next, s, f) => FlowOK(M, d, next, s, f)
         /\ ShowsOK(L, d, S, s, n, f) => ShowsOK(M, d, S, s, n, f)
         /\ Whole(L, S, c) => Whole(M, S, c)
<1>1. \A T, k, b : Hole(L, T, k, b) => Hole(M, T, k, b)
  BY DEF Hole
<1>2. \A i, j, o, k, b : Reach(L, d, i, j, o, k, b) => Reach(M, d, i, j, o, k, b)
  BY <1>1 DEF Reach, Covers
<1>3. \A i, o, k, b : /\ Smooth(L, d, i, o, k) => Smooth(M, d, i, o, k)
                      /\ Ends(L, d, i, o, k, b) => Ends(M, d, i, o, k, b)
  BY <1>2 DEF Smooth, Ends
<1>4. FlowOK(L, d, next, s, f) => FlowOK(M, d, next, s, f)
  BY <1>3 DEF FlowOK
<1>5. ShowsOK(L, d, S, s, n, f) => ShowsOK(M, d, S, s, n, f)
  BY <1>3 DEF ShowsOK
<1>6. Whole(L, S, c) => Whole(M, S, c)
  BY <1>1 DEF Whole
<1> QED
  BY <1>4, <1>5, <1>6

\* Numbers given out later, and a number no longer in use, are in no frame.
LEMMA FlowSame ==
  ASSUME NEW L, NEW d \in Seq(ToPage), NEW next \in Nat, NEW then \in Nat, next <= then,
         NEW s \in Nat, NEW o \in Nat, o = s \/ o = 0 \/ o >= next, NEW f,
         FlowOK(L, d, next, s, f)
  PROVE  FlowOK(L, d, then, o, f)
  BY DEF FlowOK

LEMMA ShowsSame ==
  ASSUME NEW L, NEW d, NEW S, NEW next \in Nat, S \subseteq 1 .. next - 1,
         NEW s \in Nat, NEW o \in Nat, o = s \/ o = 0 \/ o >= next, NEW n, NEW f,
         ShowsOK(L, d, S, s, n, f)
  PROVE  ShowsOK(L, d, S, o, n, f)
  BY DEF ShowsOK

\* One frame more: a size, a snapshot, or output.
LEMMA FlowOn ==
  ASSUME NEW L, NEW d \in Seq(ToPage), NEW m \in ToPage, NEW next \in Nat, NEW s \in Nat, NEW f \in Nat, NEW g \in Nat,
         FlowOK(L, d, next, s, f),
         \/ m.t = "size" /\ g = f
         \/ m.t = "attached" /\ m.stream \in 1 .. next - 1 /\ Covers(L, m.stream, m.upto, f) /\ g = f
         \/ m.t = "out" /\ m.stream = s /\ s \in 1 .. next - 1 /\ m.after = f /\ f < m.upto /\ m.upto = g
  PROVE  FlowOK(L, Append(d, m), next, s, g)
<1> DEFINE w == Append(d, m)
<1>1. /\ w \in Seq(ToPage) /\ Len(w) = Len(d) + 1 /\ Len(d) \in Nat
      /\ w[Len(d) + 1] = m /\ \A h \in 1 .. Len(d) : w[h] = d[h]
  BY FrameOn
<1>2. OutOf(m, s) => m.after = f /\ g <= m.upto
  BY DEF OutOf
<1>3. ~OutOf(m, s) => g = f
  BY DEF OutOf
<1>4. ASSUME NEW i \in 1 .. Len(d), Tagged(d[i])
      PROVE  /\ d[i].stream \in 1 .. next - 1
             /\ Smooth(L, w, i, d[i].stream, d[i].upto)
             /\ d[i].stream = s => Ends(L, w, i, s, d[i].upto, g)
  <2>1. d[i].stream \in Nat /\ d[i].upto \in Nat /\ i \in 0 .. Len(d)
    BY <1>4, FrameTyped
  <2>2. d[i].stream \in 1 .. next - 1 /\ Smooth(L, d, i, d[i].stream, d[i].upto)
        /\ (d[i].stream = s => Ends(L, d, i, s, d[i].upto, f))
    BY <1>4 DEF FlowOK
  <2>3. OutOf(m, d[i].stream) => d[i].stream = s /\ m.after = f
    BY DEF OutOf
  <2>4. Smooth(L, w, i, d[i].stream, d[i].upto)
    BY <2>1, <2>2, <2>3, SmoothOn
  <2>5. d[i].stream = s => Ends(L, w, i, s, d[i].upto, g)
    BY <1>2, <1>3, <2>1, <2>2, EndsOn
  <2> QED
    BY <2>2, <2>4, <2>5
<1>5. ASSUME Tagged(m)
      PROVE  /\ m.stream \in 1 .. next - 1
             /\ Smooth(L, w, Len(w), m.stream, m.upto)
             /\ m.stream = s => Ends(L, w, Len(w), s, m.upto, g)
  <2>1. m.stream \in 1 .. next - 1 /\ (m.stream = s => Covers(L, s, m.upto, g))
    <3>1. CASE m.t = "attached" /\ m.stream \in 1 .. next - 1 /\ Covers(L, m.stream, m.upto, f) /\ g = f
      BY <3>1
    <3>2. CASE m.t = "out" /\ m.stream = s /\ s \in 1 .. next - 1 /\ m.after = f /\ f < m.upto /\ m.upto = g
      BY <3>2 DEF Covers
    <3> QED
      BY <1>5, <3>1, <3>2 DEF Tagged
  <2>2. \A j \in Len(w) + 1 .. Len(w) : FALSE
    BY <1>1
  <2> QED
    BY <2>1, <2>2 DEF Smooth, Ends, Reach
<1> HIDE DEF w
<1> SUFFICES ASSUME NEW i \in 1 .. Len(w) PROVE
      /\ Tagged(w[i]) =>
           /\ w[i].stream \in 1 .. next - 1
           /\ Smooth(L, w, i, w[i].stream, w[i].upto)
           /\ w[i].stream = s => Ends(L, w, i, s, w[i].upto, g)
      /\ w[i].t = "out" => w[i].after < w[i].upto
  BY DEF FlowOK, w
<1>6. CASE i \in 1 .. Len(d)
  BY <1>1, <1>4, <1>6 DEF FlowOK
<1>7. CASE i = Len(w)
  BY <1>1, <1>5, <1>7
<1> QED
  BY <1>1, <1>6, <1>7

LEMMA ShowsOn ==
  ASSUME NEW L, NEW d \in Seq(ToPage), NEW m \in ToPage, NEW S \in SUBSET Nat, NEW s \in Nat, NEW n \in Nat,
         NEW f \in Nat, NEW g \in Nat, ShowsOK(L, d, S, s, n, f),
         \/ m.t # "out" /\ g = f
         \/ m.t = "out" /\ m.stream = s /\ m.after = f /\ m.upto = g
  PROVE  ShowsOK(L, Append(d, m), S, s, n, g)
<1> SUFFICES ASSUME NEW o \in S PROVE Smooth(L, Append(d, m), 0, o, n) /\ (o = s => Ends(L, Append(d, m), 0, o, n, g))
  BY DEF ShowsOK
<1>1. 0 \in 0 .. Len(d) /\ o \in Nat
  OBVIOUS
<1>2. Smooth(L, d, 0, o, n) /\ (o = s => Ends(L, d, 0, o, n, f))
  BY DEF ShowsOK
<1>3. OutOf(m, o) => o = s /\ m.after = f /\ g <= m.upto
  BY DEF OutOf
<1>4. ~OutOf(m, s) => g = f
  BY DEF OutOf
<1>5. Smooth(L, Append(d, m), 0, o, n)
  BY <1>1, <1>2, <1>3, SmoothOn
<1>6. o = s => Ends(L, Append(d, m), 0, o, n, g)
  BY <1>1, <1>2, <1>3, <1>4, EndsOn
<1> QED
  BY <1>5, <1>6

\* The first frame is read.
LEMMA FlowOff ==
  ASSUME NEW L, NEW d \in Seq(ToPage), d # <<>>, NEW next \in Nat, NEW s \in Nat, NEW f \in Nat, FlowOK(L, d, next, s, f)
  PROVE  FlowOK(L, Tail(d), next, s, f)
<1> DEFINE v == Tail(d)
<1>1. /\ v \in Seq(ToPage) /\ Len(v) = Len(d) - 1 /\ Len(d) \in Nat \ {0}
      /\ \A h \in 1 .. Len(d) - 1 : v[h] = d[h + 1]
  BY FrameOff
<1> HIDE DEF v
<1> SUFFICES ASSUME NEW i \in 1 .. Len(v) PROVE
      /\ Tagged(v[i]) =>
           /\ v[i].stream \in 1 .. next - 1
           /\ Smooth(L, v, i, v[i].stream, v[i].upto)
           /\ v[i].stream = s => Ends(L, v, i, s, v[i].upto, f)
      /\ v[i].t = "out" => v[i].after < v[i].upto
  BY DEF FlowOK, v
<1>2. i + 1 \in 1 .. Len(d) /\ v[i] = d[i + 1] /\ i \in Nat /\ i < Len(d)
  BY <1>1
<1>3. v[i].t = "out" => v[i].after < v[i].upto
  BY <1>2 DEF FlowOK
<1>4. ASSUME Tagged(v[i])
      PROVE  /\ v[i].stream \in 1 .. next - 1
             /\ Smooth(L, v, i, v[i].stream, v[i].upto)
             /\ v[i].stream = s => Ends(L, v, i, s, v[i].upto, f)
  <2>1. /\ v[i].stream \in 1 .. next - 1
        /\ Smooth(L, d, i + 1, v[i].stream, v[i].upto)
        /\ v[i].stream = s => Ends(L, d, i + 1, s, v[i].upto, f)
    BY <1>2, <1>4 DEF FlowOK
  <2>2. v[i].stream \in Nat /\ v[i].upto \in Nat
    BY <1>1, <1>4, FrameTyped
  <2> QED
    BY <1>2, <2>1, <2>2, SmoothOff DEF v
<1> QED
  BY <1>3, <1>4

\* What a view that did not take it shows goes on as before,
LEMMA ShowsOff ==
  ASSUME NEW L, NEW d \in Seq(ToPage), d # <<>>, NEW S \in SUBSET Nat, NEW s \in Nat, NEW n \in Nat, NEW f \in Nat,
         ShowsOK(L, d, S, s, n, f), d[1].t # "out" \/ d[1].stream \notin S
  PROVE  ShowsOK(L, Tail(d), S, s, n, f)
<1>1. 0 < Len(d) /\ \A o \in S : o \in Nat /\ ~OutOf(d[1], o)
  <2>1. Len(d) \in Nat \ {0}
    BY FrameOff
  <2>2. \A o \in S : o \in Nat /\ ~OutOf(d[1], o)
    BY DEF OutOf
  <2> QED
    BY <2>1, <2>2
<1> QED
  BY <1>1, SmoothOff DEF ShowsOK

\* and one that has painted or written it shows what the frame brought.
LEMMA ShowsTaken ==
  ASSUME NEW L, NEW d \in Seq(ToPage), d # <<>>, NEW next \in Nat, NEW s \in Nat, NEW f \in Nat, FlowOK(L, d, next, s, f),
         Tagged(d[1])
  PROVE  /\ ShowsOK(L, Tail(d), {d[1].stream}, s, d[1].upto, f)
         /\ d[1].t = "out" => d[1].after < d[1].upto
         /\ d[1].stream \in 1 .. next - 1
<1>1. 1 \in 1 .. Len(d) /\ 0 < Len(d) /\ 0 + 1 = 1
  BY FrameOff
<1>2. d[1].stream \in Nat /\ d[1].upto \in Nat
  BY <1>1, FrameTyped
<1>3. /\ Smooth(L, d, 1, d[1].stream, d[1].upto)
      /\ d[1].stream = s => Ends(L, d, 1, s, d[1].upto, f)
      /\ d[1].stream \in 1 .. next - 1
      /\ d[1].t = "out" => d[1].after < d[1].upto
  BY <1>1 DEF FlowOK
<1>4. /\ Smooth(L, Tail(d), 0, d[1].stream, d[1].upto)
      /\ d[1].stream = s => Ends(L, Tail(d), 0, s, d[1].upto, f)
  BY <1>1, <1>2, <1>3, SmoothOff
<1> QED
  BY <1>3, <1>4 DEF ShowsOK

LEMMA ShowsFollows ==
  ASSUME NEW L, NEW d \in Seq(ToPage), d # <<>>, NEW S \in SUBSET Nat, NEW s \in Nat, NEW n \in Nat, NEW f \in Nat,
         ShowsOK(L, d, S, s, n, f), d[1].t = "out", d[1].stream \in S
  PROVE  Covers(L, d[1].stream, n, d[1].after)
<1>1. 0 < Len(d) /\ OutOf(d[1], d[1].stream) /\ d[1].stream \in Nat
  <2>1. Len(d) \in Nat \ {0}
    BY FrameOff
  <2>2. d[1].stream \in Nat
    OBVIOUS
  <2> QED
    BY <2>1, <2>2 DEF OutOf
<1>2. Smooth(L, d, 0, d[1].stream, n) /\ 0 \in Nat
  BY DEF ShowsOK
<1> QED
  BY <1>1, <1>2, SmoothOff

-----------------------------------------------------------------------------
(* A screen.                                                               *)

\* Painting a snapshot, and writing output that does not skip.
LEMMA PaintedWhole ==
  ASSUME NEW L, NEW S, NEW n \in 0 .. MaxChunk
  PROVE  Whole(L, S, Chunks(0, n)) /\ Newest(Chunks(0, n)) = n
<1> DEFINE c == Chunks(0, n)
<1>1. n \in Nat /\ c = [i \in 1 .. n |-> i]
  BY StreamAssumption DEF Chunks
<1>2. c \in Seq(Nat) /\ Len(c) = n /\ \A i \in 1 .. n : c[i] = i
  <2>1. c \in [1 .. n -> Nat]
    BY <1>1
  <2> QED
    BY <1>1, <2>1, SeqDef, LenProperties
<1> HIDE DEF c
<1>3. Newest(c) = n
  BY <1>1, <1>2 DEF Newest
<1> QED
  BY <1>1, <1>2, <1>3 DEF Whole, Before, c

LEMMA WrittenWhole ==
  ASSUME NEW L, L \subseteq [stream : Nat, upto : 0 .. MaxChunk, sent : 0 .. MaxChunk], NEW S, NEW s \in S,
         NEW c \in Seq(1 .. MaxChunk), NEW a \in 0 .. MaxChunk, NEW n \in 0 .. MaxChunk,
         Whole(L, S, c), Covers(L, s, Newest(c), a), a < n
  PROVE  Whole(L, S, c \o Chunks(a, n)) /\ Newest(c \o Chunks(a, n)) = n
<1> DEFINE e == Chunks(a, n)
           w == c \o e
<1>1. a \in Nat /\ n \in Nat /\ n - a \in Nat \ {0} /\ e = [i \in 1 .. n - a |-> a + i]
  BY StreamAssumption DEF Chunks
<1>2. e \in Seq(Nat) /\ Len(e) = n - a /\ \A i \in 1 .. n - a : e[i] = a + i
  <2>1. e \in [1 .. n - a -> Nat]
    BY <1>1
  <2> QED
    BY <1>1, <2>1, SeqDef, LenProperties
<1>3. c \in Seq(Nat) /\ Len(c) \in Nat /\ \A i \in 1 .. Len(c) : c[i] \in Nat
  BY StreamAssumption
<1> HIDE DEF e
<1>4. /\ w \in Seq(Nat) /\ Len(w) = Len(c) + (n - a)
      /\ \A i \in 1 .. Len(c) : w[i] = c[i]
      /\ \A i \in 1 .. n - a : w[Len(c) + i] = a + i
  BY <1>1, <1>2, <1>3
<1> HIDE DEF w
<1>5. \A i \in 1 .. Len(w) : i \in 1 .. Len(c) \/ (i - Len(c) \in 1 .. n - a /\ w[i] = a + (i - Len(c)))
  <2>1. \A i \in 1 .. Len(w) : i \in 1 .. Len(c) \/ (i - Len(c) \in 1 .. n - a /\ i = Len(c) + (i - Len(c)))
    BY <1>1, <1>3, <1>4
  <2> QED
    BY <1>4, <2>1
<1>6. Newest(w) = n
  <2>1. Len(w) # 0 /\ Len(w) - Len(c) = n - a /\ Len(w) \in 1 .. Len(w) /\ Len(w) \notin 1 .. Len(c)
    BY <1>1, <1>3, <1>4
  <2>2. w # <<>>
    BY <2>1
  <2>3. w[Len(w)] = a + (n - a)
    BY <1>5, <2>1
  <2> QED
    BY <1>1, <2>2, <2>3 DEF Newest
<1>7. Newest(c) = IF Len(c) = 0 THEN 0 ELSE c[Len(c)]
  BY DEF Newest
<1>8. Newest(c) \in Nat /\ (a <= Newest(c) \/ Hole(L, S, Newest(c), a))
  <2>1. Len(c) # 0 => Len(c) \in 1 .. Len(c)
    BY <1>3
  <2> QED
    BY <1>3, <1>7, <2>1 DEF Covers, Hole
<1>9. \A k \in Nat, x \in 0 .. a : Hole(L, S, k, a) => Hole(L, S, k, x)
  <2>1. \A z \in L : z.sent \in Nat
    BY StreamAssumption
  <2> QED
    BY <1>1, <2>1 DEF Hole
<1>10. ASSUME NEW i \in 1 .. Len(w) PROVE w[i] <= Before(w, i) + 1 \/ Hole(L, S, Before(w, i), w[i] - 1)
  <2>1. CASE i \in 1 .. Len(c)
    <3>1. c[i] <= Before(c, i) + 1 \/ Hole(L, S, Before(c, i), c[i] - 1)
      BY <2>1 DEF Whole
    <3>2. i # 1 => i - 1 \in 1 .. Len(c)
      BY <1>3, <2>1
    <3>3. Before(w, i) = Before(c, i) /\ w[i] = c[i]
      BY <1>4, <2>1, <3>2 DEF Before
    <3> QED
      BY <3>1, <3>3
  <2>2. CASE i = Len(c) + 1
    <3>1. w[i] = a + 1 /\ w[i] - 1 = a
      <4>1. 1 \in 1 .. n - a
        BY <1>1
      <4>2. w[i] = a + 1
        BY <1>4, <2>2, <4>1
      <4> QED
        BY <1>1, <4>2
    <3>2. Len(c) # 0 => i - 1 = Len(c) /\ Len(c) \in 1 .. Len(c) /\ i # 1
      BY <1>3, <2>2
    <3>3. Len(c) = 0 => i = 1
      BY <2>2
    <3>4. Before(w, i) = Newest(c)
      BY <1>4, <1>7, <3>2, <3>3 DEF Before
    <3>5. a <= Newest(c) => w[i] <= Before(w, i) + 1
      BY <1>1, <1>8, <3>1, <3>4
    <3> QED
      BY <1>8, <3>1, <3>4, <3>5
  <2>3. CASE i - Len(c) \in 2 .. n - a
    <3>1. i - Len(c) \in 1 .. n - a /\ (i - 1) - Len(c) \in 1 .. n - a /\ i # 1
      BY <1>1, <1>3, <2>3
    <3>2. w[i] = a + (i - Len(c)) /\ w[i - 1] = a + ((i - 1) - Len(c))
      <4>1. i = Len(c) + (i - Len(c)) /\ i - 1 = Len(c) + ((i - 1) - Len(c))
        BY <1>3
      <4> QED
        BY <1>4, <3>1, <4>1
    <3>3. Before(w, i) = w[i - 1]
      BY <3>1 DEF Before
    <3> QED
      BY <1>1, <1>3, <3>1, <3>2, <3>3
  <2> QED
    BY <1>1, <1>3, <1>5, <2>1, <2>2, <2>3
<1>11. ASSUME NEW x \in 1 .. n
       PROVE  (\E i \in 1 .. Len(w) : w[i] = x) \/ \E m \in 0 .. x - 1 : Hole(L, S, m, x)
  <2>1. CASE x <= Newest(c)
    <3>1. x \in 1 .. Newest(c)
      BY <1>1, <1>8, <2>1
    <3>2. (\E i \in 1 .. Len(c) : c[i] = x) \/ \E m \in 0 .. x - 1 : Hole(L, S, m, x)
      BY <3>1 DEF Whole
    <3>3. \A i \in 1 .. Len(c) : i \in 1 .. Len(w)
      BY <1>1, <1>3, <1>4
    <3> QED
      BY <1>4, <3>2, <3>3
  <2>2. CASE x <= a /\ ~(x <= Newest(c))
    <3>1. Hole(L, S, Newest(c), a) /\ x \in 0 .. a /\ Newest(c) \in 0 .. x - 1
      BY <1>1, <1>8, <2>2
    <3> QED
      BY <1>8, <1>9, <3>1
  <2>3. CASE x > a
    <3>1. x - a \in 1 .. n - a /\ Len(c) + (x - a) \in 1 .. Len(w) /\ a + (x - a) = x
      BY <1>1, <1>3, <1>4, <2>3
    <3>2. w[Len(c) + (x - a)] = a + (x - a)
      BY <1>4, <3>1
    <3> QED
      BY <3>1, <3>2
  <2> QED
    BY <1>1, <1>8, <2>1, <2>2, <2>3
<1> QED
  BY <1>6, <1>10, <1>11 DEF Whole, w, e

-----------------------------------------------------------------------------
(* What a handler does to the attachments and to the frames.               *)

\* What is sent is at the end of what is on its way, if a page reads it.
LEMMA SendsFrame ==
  ASSUME TypeOK, NEW msgs \in [Sink -> Seq(ToPage)], Sends(msgs), NEW k \in Sink
  PROVE  /\ ~Reads(k) => down'[k] = down[k]
         /\ msgs[k] = <<>> => down'[k] = down[k]
         /\ \A m \in ToPage : Reads(k) /\ msgs[k] = <<m>> => down'[k] = Append(down[k], m)
<1>1. down[k] \in Seq(ToPage)
  BY DEF TypeOK
<1>2. down'[k] = IF Reads(k) THEN down[k] \o msgs[k] ELSE down[k]
  BY DEF Sends, Reads
<1>3. down[k] \o <<>> = down[k] /\ \A m \in ToPage : down[k] \o <<m>> = Append(down[k], m)
  BY <1>1
<1> QED
  BY <1>2, <1>3

LEMMA BecomesFrame ==
  ASSUME TypeOK, NEW l \in LiveType, Becomes(l), NEW k \in Sink
  PROVE  /\ live' = l
         /\ IF l.size # live.size /\ k \in Attached(l) /\ Reads(k)
            THEN down'[k] = Append(down[k], [t |-> "size", size |-> l.size])
            ELSE down'[k] = down[k]
         /\ [t |-> "size", size |-> l.size] \in ToPage
<1> DEFINE f == [t |-> "size", size |-> l.size]
           msgs == [j \in Sink |-> IF j \in Attached(l) /\ l.size # live.size THEN << f >> ELSE <<>>]
<1>1. f \in ToPage
  BY DEF LiveType, ToPage
<1> HIDE DEF f
<1>2. msgs \in [Sink -> Seq(ToPage)]
  BY <1>1
<1>3. Sends(msgs) /\ live' = l
  BY DEF Becomes, f
<1>4. msgs[k] = IF k \in Attached(l) /\ l.size # live.size THEN << f >> ELSE <<>>
  OBVIOUS
<1> HIDE DEF msgs
<1> QED
  BY <1>1, <1>2, <1>3, <1>4, SendsFrame DEF f

\* Attachments stay as they are, but that closed sockets are pruned.
Spared(l, r, k) == r.att[k] = l.att[k] \/ (r.att[k].stream = 0 /\ ~Open(k))

LEMMA AppliesSpares ==
  ASSUME NEW l \in LiveType, NEW B \in Nat, \A j \in Sink : l.att[j].stream <= B
  PROVE  /\ \A j \in Sink : Spared(l, AppliesSize(l), j)
         /\ \A k \in Sink : Open(k) /\ l.att[k].stream # 0 /\ l.att[k].primary /\ l.sizeOwner = k
                            => AppliesSize(l).size = l.att[k].size
<1> DEFINE q == Pruned(l)
           r == AppliesSize(l)
           gone == {k \in Attached(l) : ~Open(k)}
<1>1. /\ q \in LiveType
      /\ Attached(q) = {k \in Attached(l) : Open(k)}
      /\ \A k \in Attached(q) : q.att[k] = l.att[k]
  BY PrunedOK
<1>2. r \in LiveType /\ r = [q EXCEPT !.size = r.size]
  BY AppliesOK
<1>3. r.att = q.att
  <2> HIDE DEF r, q
  <2> QED
    BY <1>1, <1>2 DEF LiveType
<1>4. q.att = [k \in Sink |-> IF k \in gone THEN NoAtt ELSE l.att[k]]
      /\ q.sizeOwner = IF l.sizeOwner \in gone THEN None ELSE l.sizeOwner
  BY DEF LiveType, Pruned
<1>5. ASSUME NEW j \in Sink PROVE Spared(l, r, j)
  BY <1>3, <1>4 DEF Spared, NoAtt
<1>6. ASSUME NEW k \in Sink, Open(k), l.att[k].stream # 0, l.att[k].primary, l.sizeOwner = k
      PROVE  r.size = l.att[k].size
  <2>1. k \notin gone /\ k \in Attached(q) /\ q.att[k] = l.att[k]
    BY <1>1, <1>6 DEF Attached
  <2>2. q.sizeOwner = k
    BY <1>4, <1>6, <2>1
  <2>3. Authority(q) = k
    BY <1>6, <2>1, <2>2 DEF Authority
  <2>4. k # None
    BY DEF Sink, None
  <2> HIDE DEF q
  <2>5. r = [q EXCEPT !.size = q.att[k].size]
    BY <2>3, <2>4 DEF AppliesSize, q
  <2> HIDE DEF r
  <2> QED
    BY <1>1, <2>1, <2>5 DEF LiveType
<1> QED
  BY <1>5, <1>6

\* What becomes of sink k's attachment when one of its requests is handled.
LEMMA AttachSpares ==
  ASSUME IInv, NEW k \in Sink, NEW m \in [t : {"attach"}, size : Size, primary : BOOLEAN],
         HandlesAttach(k, m)
  PROVE  \E l \in LiveType :
           LET s == IF live.att[k].stream = 0 THEN nextStream ELSE live.att[k].stream
           IN /\ Becomes(l)
              /\ \A j \in Sink : j # k => Spared(live, l, j)
              /\ \/ l.att[k] = [stream |-> s, primary |-> m.primary, size |-> m.size]
                 \/ l.att[k].stream = 0 /\ ~Open(k)
              /\ nextStream' = IF s = nextStream THEN s + 1 ELSE nextStream
              /\ answering' = Append(answering, [sink |-> k, stream |-> s, need |-> produced])
<1> USE LiveTyped DEF IInv
<1> DEFINE s == IF live.att[k].stream = 0 THEN nextStream ELSE live.att[k].stream
           a == [stream |-> s, primary |-> m.primary, size |-> m.size]
           entered == [live EXCEPT !.att[k] = a]
           asked == [entered EXCEPT !.sizeOwner = k]
           sized == IF m.primary THEN AppliesSize(asked) ELSE entered
           final == [sized EXCEPT !.inputOwner = IF @ = None THEN k ELSE @]
<1>1. s \in Nat \ {0} /\ s <= nextStream /\ nextStream \in Nat \ {0}
  BY DEF TypeOK, InOrder
<1>2. a \in Att /\ a.stream = s
  BY <1>1 DEF Att
<1>3. /\ Becomes(final) /\ nextStream' = IF s = nextStream THEN s + 1 ELSE nextStream
      /\ answering' = Append(answering, [sink |-> k, stream |-> s, need |-> produced])
  BY DEF HandlesAttach
<1> HIDE DEF a
<1>4. entered \in LiveType /\ entered.att = [live.att EXCEPT ![k] = a]
  BY <1>2 DEF LiveType
<1> HIDE DEF entered
<1>5. asked \in LiveType /\ asked.att = entered.att
  BY <1>4 DEF LiveType
<1>6. \A j \in Sink : live.att[j].stream < nextStream
  BY DEF InOrder
<1>7. \A j \in Sink : asked.att[j].stream <= nextStream
  BY <1>1, <1>2, <1>4, <1>5, <1>6 DEF LiveType
<1> HIDE DEF asked, s
<1>8. sized \in LiveType /\ \A j \in Sink : Spared(asked, sized, j)
  <2>1. CASE m.primary
    BY <1>1, <1>5, <1>7, <2>1, AppliesOK, AppliesSpares
  <2>2. CASE ~m.primary
    BY <1>4, <1>5, <2>2 DEF Spared
  <2> QED
    BY <2>1, <2>2
<1> HIDE DEF sized
<1>9. final \in LiveType /\ final.att = sized.att
  BY <1>8 DEF LiveType
<1> HIDE DEF final
<1>10. \A j \in Sink : j # k => Spared(live, final, j)
  BY <1>4, <1>5, <1>8, <1>9 DEF Spared, LiveType
<1>11. final.att[k] = a \/ (final.att[k].stream = 0 /\ ~Open(k))
  BY <1>4, <1>5, <1>8, <1>9 DEF Spared, LiveType
<1> QED
  BY <1>3, <1>9, <1>10, <1>11 DEF a, s

LEMMA ResizeSpares ==
  ASSUME IInv, NEW k \in Sink, NEW m \in [t : {"resize"}, size : Size], HandlesResize(k, m)
  PROVE  /\ UNCHANGED <<nextStream, answering>>
         /\ \/ UNCHANGED <<live, down>> /\ live.att[k].stream = 0
            \/ \E l \in LiveType :
                 /\ Becomes(l)
                 /\ \A j \in Sink : j # k => Spared(live, l, j)
                 /\ \/ l.att[k].stream = live.att[k].stream /\ l.att[k].primary = live.att[k].primary
                    \/ l.att[k].stream = 0 /\ ~Open(k)
                 /\ Open(k) /\ live.att[k].primary => l.size = m.size
<1> USE LiveTyped DEF IInv
<1>1. UNCHANGED <<nextStream, answering>>
  BY DEF HandlesResize
<1>2. CASE k \notin Attached(live)
  BY <1>1, <1>2 DEF HandlesResize, Attached
<1>3. CASE k \in Attached(live)
  <2> DEFINE b == [live.att[k] EXCEPT !.size = m.size]
             l == [live EXCEPT !.att[k].size = m.size]
             o == [l EXCEPT !.sizeOwner = k]
             r == IF l.att[k].primary THEN AppliesSize(o) ELSE l
  <2>1. b \in Att /\ b.stream = live.att[k].stream /\ b.primary = live.att[k].primary /\ b.size = m.size
        /\ b.stream # 0
    BY <1>3 DEF Attached, LiveType, Att, NoAtt
  <2> HIDE DEF b
  <2>2. l \in LiveType /\ l.att = [live.att EXCEPT ![k] = b]
    BY <2>1 DEF LiveType, b
  <2>3. Becomes(r)
    BY <1>3 DEF HandlesResize
  <2> HIDE DEF l
  <2>4. o \in LiveType /\ o.att = l.att /\ o.sizeOwner = k
    BY <2>2 DEF LiveType
  <2>5. l.att[k] = b /\ \A j \in Sink : j # k => l.att[j] = live.att[j]
    BY <2>2 DEF LiveType
  <2>6. nextStream \in Nat /\ \A j \in Sink : o.att[j].stream <= nextStream
    <3>1. nextStream \in Nat /\ \A j \in Sink : live.att[j].stream \in Nat /\ live.att[j].stream < nextStream
      BY DEF InOrder, TypeOK
    <3>2. \A j \in Sink : o.att[j].stream = live.att[j].stream
      BY <2>1, <2>4, <2>5
    <3> QED
      BY <3>1, <3>2
  <2> HIDE DEF o
  <2>7. /\ r \in LiveType /\ \A j \in Sink : Spared(l, r, j)
        /\ Open(k) /\ b.primary => r.size = m.size
    <3>1. CASE l.att[k].primary
      <4>1. r \in LiveType /\ \A j \in Sink : Spared(o, r, j)
        BY <2>4, <2>6, <3>1, AppliesOK, AppliesSpares
      <4>2. Open(k) => r.size = o.att[k].size
        BY <2>1, <2>4, <2>5, <2>6, <3>1, AppliesSpares
      <4> QED
        BY <2>1, <2>4, <2>5, <4>1, <4>2 DEF Spared
    <3>2. CASE ~l.att[k].primary
      BY <2>2, <2>5, <3>2 DEF Spared
    <3> QED
      BY <3>1, <3>2
  <2> HIDE DEF r
  <2>8. \A j \in Sink : j # k => Spared(live, r, j)
    BY <2>5, <2>7 DEF Spared
  <2>9. \/ r.att[k].stream = live.att[k].stream /\ r.att[k].primary = live.att[k].primary
        \/ r.att[k].stream = 0 /\ ~Open(k)
    BY <2>1, <2>5, <2>7 DEF Spared
  <2> QED
    BY <1>1, <2>1, <2>3, <2>7, <2>8, <2>9
<1> QED
  BY <1>2, <1>3

LEMMA FocusSpares ==
  ASSUME IInv, NEW k \in Sink, HandlesFocus(k)
  PROVE  /\ UNCHANGED <<nextStream, answering>>
         /\ \/ UNCHANGED <<live, down>>
            \/ \E l \in LiveType : Becomes(l) /\ \A j \in Sink : Spared(live, l, j)
<1> USE LiveTyped DEF IInv
<1>1. UNCHANGED <<nextStream, answering>>
  BY DEF HandlesFocus
<1>2. CASE k \notin Attached(live)
  BY <1>1, <1>2 DEF HandlesFocus
<1>3. CASE k \in Attached(live)
  <2> DEFINE l == [live EXCEPT !.inputOwner = k]
             o == [l EXCEPT !.sizeOwner = k]
             r == IF l.att[k].primary THEN AppliesSize(o) ELSE l
  <2>1. l \in LiveType /\ l.att = live.att
    BY DEF LiveType
  <2>2. Becomes(r)
    BY <1>3 DEF HandlesFocus
  <2> HIDE DEF l
  <2>3. o \in LiveType /\ o.att = l.att
    BY <2>1 DEF LiveType
  <2>4. nextStream \in Nat /\ \A j \in Sink : o.att[j].stream <= nextStream
    BY <2>1, <2>3 DEF InOrder, TypeOK
  <2> HIDE DEF o
  <2>5. r \in LiveType /\ \A j \in Sink : Spared(live, r, j)
    <3>1. CASE l.att[k].primary
      BY <2>1, <2>3, <2>4, <3>1, AppliesOK, AppliesSpares DEF Spared
    <3>2. CASE ~l.att[k].primary
      BY <2>1, <3>2 DEF Spared
    <3> QED
      BY <3>1, <3>2
  <2> QED
    BY <1>1, <2>2, <2>5
<1> QED
  BY <1>2, <1>3

-----------------------------------------------------------------------------
(* The server keeps the frames in order.                                   *)

\* What one step of the server sends to sink k.
Sent(k) ==
  \/ down'[k] = down[k] /\ (flushed' = flushed \/ Now(k) = 0)
  \/ \E m \in ToPage :
       /\ Reads(k)
       /\ down'[k] = Append(down[k], m)
       /\ \/ m.t = "size" /\ flushed' = flushed
          \/ m.t = "attached" /\ m.stream \in 1 .. nextStream - 1 /\ Covers(short', m.stream, m.upto, flushed) /\ flushed' = flushed
          \/ /\ m.t = "out" /\ m.stream = live.att[k].stream /\ m.stream # 0
             /\ m.after = flushed /\ flushed < m.upto /\ m.upto = flushed'

\* A page that is not attached waits for no output.
LEMMA FlowIdle ==
  ASSUME NEW L, NEW d, NEW next, NEW f, NEW g, FlowOK(L, d, next, 0, f)
  PROVE  FlowOK(L, d, next, 0, g)
<1>1. 0 \notin 1 .. next - 1
  OBVIOUS
<1> QED
  BY <1>1 DEF FlowOK

LEMMA ShowsIdle ==
  ASSUME NEW L, NEW d, NEW next, NEW S, S \subseteq 1 .. next - 1, NEW n, NEW f, NEW g, ShowsOK(L, d, S, 0, n, f)
  PROVE  ShowsOK(L, d, S, 0, n, g)
  BY DEF ShowsOK

LEMMA NowTyped ==
  ASSUME IInv, NEW k \in Sink
  PROVE  Now(k) \in Nat /\ Now(k) < nextStream /\ nextStream \in Nat \ {0} /\ flushed \in Nat /\ down[k] \in Seq(ToPage)
<1>1. live.att[k].stream \in Nat /\ live.att[k].stream < nextStream
  BY LiveTyped DEF IInv, InOrder
<1>2. flushed \in Nat /\ nextStream \in Nat \ {0} /\ down[k] \in Seq(ToPage)
  BY StreamAssumption DEF IInv, TypeOK
<1> QED
  BY <1>1, <1>2 DEF Now

LEMMA SentFlow ==
  ASSUME IInv, flushed' \in Nat, short \subseteq short', NEW k \in Sink, Sent(k), FlowOK(short, down[k], nextStream, Now(k), flushed)
  PROVE  FlowOK(short', down'[k], nextStream, Now(k), flushed')
<1> USE NowTyped
<1>0. FlowOK(short', down[k], nextStream, Now(k), flushed)
  BY HolesGrow
<1>1. CASE down'[k] = down[k] /\ flushed' = flushed
  BY <1>0, <1>1
<1>2. CASE down'[k] = down[k] /\ Now(k) = 0
  BY <1>0, <1>2, FlowIdle
<1>3. CASE ~(down'[k] = down[k] /\ (flushed' = flushed \/ Now(k) = 0))
  <2>1. PICK m \in ToPage :
       /\ Reads(k)
       /\ down'[k] = Append(down[k], m)
       /\ \/ m.t = "size" /\ flushed' = flushed
          \/ m.t = "attached" /\ m.stream \in 1 .. nextStream - 1 /\ Covers(short', m.stream, m.upto, flushed) /\ flushed' = flushed
          \/ /\ m.t = "out" /\ m.stream = live.att[k].stream /\ m.stream # 0
             /\ m.after = flushed /\ flushed < m.upto /\ m.upto = flushed'
    BY <1>3 DEF Sent
  <2>2. m.t = "out" => m.stream = Now(k) /\ Now(k) \in 1 .. nextStream - 1
    BY <2>1 DEF Now
  <2>3. FlowOK(short', Append(down[k], m), nextStream, Now(k), flushed')
    BY <1>0, <2>1, <2>2, FlowOn
  <2> QED
    BY <2>1, <2>3
<1> QED
  BY <1>1, <1>2, <1>3

LEMMA SentShows ==
  ASSUME IInv, flushed' \in Nat, short \subseteq short', NEW k \in Sink, Sent(k), NEW S, S \subseteq 1 .. nextStream - 1, NEW n \in Nat,
         ShowsOK(short, down[k], S, Now(k), n, flushed)
  PROVE  ShowsOK(short', down'[k], S, Now(k), n, flushed')
<1> USE NowTyped
<1>0. ShowsOK(short', down[k], S, Now(k), n, flushed)
  BY HolesGrow
<1>1. CASE down'[k] = down[k] /\ flushed' = flushed
  BY <1>0, <1>1
<1>2. CASE down'[k] = down[k] /\ Now(k) = 0
  BY <1>0, <1>2, ShowsIdle
<1>3. CASE ~(down'[k] = down[k] /\ (flushed' = flushed \/ Now(k) = 0))
  <2>1. PICK m \in ToPage :
       /\ Reads(k)
       /\ down'[k] = Append(down[k], m)
       /\ \/ m.t = "size" /\ flushed' = flushed
          \/ m.t = "attached" /\ m.stream \in 1 .. nextStream - 1 /\ Covers(short', m.stream, m.upto, flushed) /\ flushed' = flushed
          \/ /\ m.t = "out" /\ m.stream = live.att[k].stream /\ m.stream # 0
             /\ m.after = flushed /\ flushed < m.upto /\ m.upto = flushed'
    BY <1>3 DEF Sent
  <2>2. m.t = "out" => m.stream = Now(k)
    BY <2>1 DEF Now
  <2>3. S \in SUBSET Nat
    OBVIOUS
  <2>4. ShowsOK(short', Append(down[k], m), S, Now(k), n, flushed')
    BY <1>0, <2>1, <2>2, <2>3, ShowsOn
  <2> QED
    BY <2>1, <2>4
<1> QED
  BY <1>1, <1>2, <1>3

LEMMA NewestTyped ==
  ASSUME NEW c \in Seq(1 .. MaxChunk)
  PROVE  Newest(c) \in Nat /\ Newest(c) \in 0 .. MaxChunk
<1>1. Len(c) \in Nat /\ (c # <<>> => Len(c) \in 1 .. Len(c))
  OBVIOUS
<1>2. \A i \in 1 .. Len(c) : c[i] \in 1 .. MaxChunk
  BY ElementOfSeq
<1> QED
  BY <1>1, <1>2, StreamAssumption DEF Newest

LEMMA ServerGap ==
  ASSUME IInv, IInv', GapOK,
         UNCHANGED <<streams, painted, screen, mounted, sock>>, short \subseteq short',
         nextStream <= nextStream',
         \A k \in Sink : (wire[k] # "new" => wire'[k] # "new") /\ (wire'[k] = "open" => wire[k] = "open"),
         \A k \in Sink : live'.att[k].stream \in {live.att[k].stream, 0} \/ live'.att[k].stream >= nextStream,
         \A i \in 1 .. Len(answering') : answering'[i].stream \in 1 .. nextStream' - 1,
         \A k \in Sink : Sent(k)
  PROVE  GapOK'
<1>0. /\ flushed' \in Nat /\ nextStream \in Nat \ {0} /\ nextStream' \in Nat \ {0}
      /\ sock \in [Page -> Sink \cup {None}]
      /\ \A v \in View : screen[v] \in Seq(1 .. MaxChunk)
      /\ painted \subseteq View
      /\ PageOf \in [View -> Page]
      /\ \A p \in Page : streams[p] \subseteq Nat
  <2>1. produced' \in Nat /\ flushed' \in 0 .. produced' /\ nextStream' \in Nat \ {0}
    BY StreamAssumption DEF IInv, TypeOK
  <2>2. /\ nextStream \in Nat \ {0} /\ sock \in [Page -> Sink \cup {None}] /\ screen \in [View -> Seq(1 .. MaxChunk)]
        /\ painted \subseteq View /\ streams \in [Page -> SUBSET Nat]
    BY DEF IInv, TypeOK
  <2> QED
    BY <2>1, <2>2, StreamAssumption
<1>1. \A k \in Sink : (Reads(k))' => Reads(k)
  BY DEF Reads, Open, Read
<1>2. \A k \in Sink : Now(k) \in Nat /\ (Now(k)' = Now(k) \/ Now(k)' = 0 \/ Now(k)' >= nextStream) /\ Now(k)' \in Nat
  <2> TAKE k \in Sink
  <2>1. live'.att[k].stream \in Nat
    <3>1. live'.att \in [Sink -> Att]
      BY DEF IInv, TypeOK
    <3> QED
      BY <3>1 DEF Att, NoAtt
  <2> QED
    BY <1>1, <2>1, NowTyped DEF Now
<1>3. WireOK'
  <2>1. \A p \in Page : sock'[p] # None => wire'[sock'[p]] # "new" /\ \A q \in Page : sock'[p] = sock'[q] => p = q
    BY <1>0 DEF GapOK, WireOK
  <2>2. \A k \in Sink : ~Read(k)' => down'[k] = <<>>
    <3> TAKE k \in Sink
    <3>1. Read(k)' <=> Read(k)
      BY DEF Read
    <3>2. ~Read(k) => down[k] = <<>> /\ ~Reads(k)
      BY DEF GapOK, WireOK, Reads
    <3> QED
      BY <3>1, <3>2 DEF Sent
  <2> QED
    BY <2>1, <2>2 DEF WireOK
<1>4. ASSUME NEW k \in Sink
      PROVE  FlowOK(short', down'[k], nextStream', Now(k)', flushed')
  <2>1. FlowOK(short', down'[k], nextStream, Now(k), flushed')
    BY <1>0, SentFlow DEF GapOK
  <2>2. down'[k] \in Seq(ToPage)
    BY DEF IInv, TypeOK
  <2> QED
    BY <1>0, <1>2, <2>1, <2>2, FlowSame
<1>5. \A p \in Page : streams'[p] \subseteq 1 .. nextStream' - 1 /\ \A s, o \in streams'[p] : s = o
  <2>1. \A p \in Page : streams[p] \subseteq 1 .. nextStream - 1 /\ \A s, o \in streams[p] : s = o
    BY DEF GapOK
  <2>2. 1 .. nextStream - 1 \subseteq 1 .. nextStream' - 1
    BY <1>0
  <2> QED
    BY <2>1, <2>2
<1>6. ASSUME NEW v \in painted'
      PROVE  /\ streams'[PageOf[v]] # {}
             /\ sock'[PageOf[v]] # None =>
                  ShowsOK(short', down'[sock'[PageOf[v]]], streams'[PageOf[v]], Now(sock[PageOf[v]])', Newest(screen'[v]), flushed')
  <2> DEFINE p == PageOf[v]
  <2>1. v \in View /\ p \in Page /\ v \in painted
    BY <1>0
  <2>2. streams'[p] # {}
    BY <2>1 DEF GapOK
  <2>3. ASSUME NEW k \in Sink, k = sock[p]
        PROVE  ShowsOK(short', down'[k], streams[p], Now(k)', Newest(screen[v]), flushed')
    <3>1. k \in Sink /\ Newest(screen[v]) \in Nat
      BY <1>0, <2>1, <2>3, NewestTyped
    <3>2. ShowsOK(short, down[k], streams[p], Now(k), Newest(screen[v]), flushed) /\ streams[p] \subseteq 1 .. nextStream - 1
      BY <2>1, <2>3, <3>1 DEF GapOK, None, Sink
    <3>3. ShowsOK(short', down'[k], streams[p], Now(k), Newest(screen[v]), flushed')
      BY <1>0, <3>1, <3>2, SentShows
    <3> QED
      BY <1>0, <1>2, <3>1, <3>2, <3>3, ShowsSame
  <2>4. sock[p] # None => sock[p] \in Sink /\ sock'[p] = sock[p]
    BY <1>0, <2>1
  <2> QED
    BY <2>2, <2>3, <2>4
<1>7. ScreensOK'
  BY HolesGrow DEF GapOK, ScreensOK
<1> QED
  BY <1>3, <1>4, <1>5, <1>6, <1>7 DEF GapOK
-----------------------------------------------------------------------------
(* The steps of the server.                                                *)

\* A frame of a new size is all that one of these sends.
LEMMA BecomesSent ==
  ASSUME TypeOK, NEW l \in LiveType, Becomes(l), flushed' = flushed, NEW k \in Sink
  PROVE  Sent(k)
<1> DEFINE f == [t |-> "size", size |-> l.size]
<1>1. IF l.size # live.size /\ k \in Attached(l) /\ Reads(k) THEN down'[k] = Append(down[k], f) ELSE down'[k] = down[k]
  BY BecomesFrame
<1>2. f \in ToPage /\ f.t = "size"
  BY BecomesFrame
<1> HIDE DEF f
<1> QED
  BY <1>1, <1>2 DEF Sent

LEMMA HandlesGap ==
  ASSUME IInv, IInv', GapOK, NEW k \in Sink, Handles(k)
  PROVE  GapOK'
<1> DEFINE m == Head(up[k])
<1>1. /\ UNCHANGED <<produced, flushed, wire, sock, streams, painted, screen, mounted, short>>
      /\ up[k] # <<>>
      /\ \/ m.t = "attach" /\ HandlesAttach(k, m)
         \/ m.t = "resize" /\ HandlesResize(k, m)
         \/ m.t = "focus" /\ HandlesFocus(k)
         \/ m.t = "detach" /\ HandlesDetach(k)
  BY DEF Handles, viewVars
<1>2. m \in ToServer
  <2>1. up[k] \in Seq(ToServer)
    BY DEF IInv, TypeOK
  <2> QED
    BY <1>1, <2>1, HeadTailProperties
<1>3. /\ TypeOK /\ nextStream \in Nat \ {0} /\ live \in LiveType
      /\ \A j \in Sink : live.att[j].stream \in Nat /\ live.att[j].stream < nextStream
      /\ answering \in Seq([sink : Sink, stream : Nat, need : 0 .. MaxChunk])
      /\ \A i \in 1 .. Len(answering) : answering[i].stream \in 1 .. nextStream - 1
  BY LiveTyped DEF IInv, TypeOK, InOrder, GapOK
<1> HIDE DEF m
<1>4. /\ nextStream <= nextStream'
      /\ \A j \in Sink : live'.att[j].stream \in {live.att[j].stream, 0} \/ live'.att[j].stream >= nextStream
      /\ \A i \in 1 .. Len(answering') : answering'[i].stream \in 1 .. nextStream' - 1
      /\ \A j \in Sink : Sent(j)
  <2>1. CASE m.t = "attach" /\ HandlesAttach(k, m)
    <3> DEFINE s == IF live.att[k].stream = 0 THEN nextStream ELSE live.att[k].stream
    <3>1. m \in [t : {"attach"}, size : Size, primary : BOOLEAN]
      BY <1>2, <2>1 DEF ToServer
    <3>2. PICK l \in LiveType :
            /\ Becomes(l)
            /\ \A j \in Sink : j # k => Spared(live, l, j)
            /\ \/ l.att[k] = [stream |-> s, primary |-> m.primary, size |-> m.size]
               \/ l.att[k].stream = 0 /\ ~Open(k)
            /\ nextStream' = IF s = nextStream THEN s + 1 ELSE nextStream
            /\ answering' = Append(answering, [sink |-> k, stream |-> s, need |-> produced])
      BY <2>1, <3>1, AttachSpares
    <3>3. s \in 1 .. nextStream /\ s \in 1 .. nextStream' - 1 /\ nextStream <= nextStream' /\ nextStream' \in Nat
          /\ (s = live.att[k].stream \/ s >= nextStream)
      BY <1>3, <3>2
    <3> HIDE DEF s
    <3>4. live' = l
      BY <3>2 DEF Becomes
    <3>5. \A j \in Sink : live'.att[j].stream \in {live.att[j].stream, 0} \/ live'.att[j].stream >= nextStream
      BY <3>2, <3>3, <3>4 DEF Spared
    <3>6. \A i \in 1 .. Len(answering') : answering'[i].stream \in 1 .. nextStream' - 1
      <4> DEFINE a == [sink |-> k, stream |-> s, need |-> produced]
      <4>1. a \in [sink : Sink, stream : Nat, need : 0 .. MaxChunk] /\ a.stream = s
        BY <3>3 DEF IInv, TypeOK
      <4> HIDE DEF a
      <4>2. answering' = Append(answering, a)
        BY <3>2 DEF a
      <4>3. /\ Len(answering') = Len(answering) + 1 /\ Len(answering) \in Nat
            /\ answering'[Len(answering) + 1] = a /\ \A i \in 1 .. Len(answering) : answering'[i] = answering[i]
        BY <1>3, <4>1, <4>2, FrameOn
      <4> TAKE i \in 1 .. Len(answering')
      <4>4. CASE i \in 1 .. Len(answering)
        <5>1. answering[i].stream \in 1 .. nextStream - 1
          BY <1>3, <4>4
        <5> QED
          BY <1>3, <3>3, <4>3, <4>4, <5>1
      <4>5. CASE i = Len(answering) + 1
        BY <3>3, <4>1, <4>3, <4>5
      <4> QED
        BY <4>3, <4>4, <4>5
    <3>7. \A j \in Sink : Sent(j)
      BY <1>1, <1>3, <3>2, BecomesSent
    <3> QED
      BY <3>3, <3>5, <3>6, <3>7
  <2>2. CASE m.t = "resize" /\ HandlesResize(k, m)
    <3>1. m \in [t : {"resize"}, size : Size]
      BY <1>2, <2>2 DEF ToServer
    <3>2. /\ UNCHANGED <<nextStream, answering>>
          /\ \/ UNCHANGED <<live, down>> /\ live.att[k].stream = 0
             \/ \E l \in LiveType :
                  /\ Becomes(l)
                  /\ \A j \in Sink : j # k => Spared(live, l, j)
                  /\ \/ l.att[k].stream = live.att[k].stream /\ l.att[k].primary = live.att[k].primary
                     \/ l.att[k].stream = 0 /\ ~Open(k)
                  /\ Open(k) /\ live.att[k].primary => l.size = m.size
      BY <2>2, <3>1, ResizeSpares
    <3>3. CASE UNCHANGED <<live, down>>
      BY <1>1, <1>3, <3>2, <3>3 DEF Sent
    <3>4. CASE ~UNCHANGED <<live, down>>
      <4>1. PICK l \in LiveType :
              /\ Becomes(l)
              /\ \A j \in Sink : j # k => Spared(live, l, j)
              /\ \/ l.att[k].stream = live.att[k].stream /\ l.att[k].primary = live.att[k].primary
                 \/ l.att[k].stream = 0 /\ ~Open(k)
        BY <3>2, <3>4
      <4>2. live' = l
        BY <4>1 DEF Becomes
      <4>3. \A j \in Sink : live'.att[j].stream \in {live.att[j].stream, 0}
        BY <4>1, <4>2 DEF Spared
      <4>4. \A j \in Sink : Sent(j)
        BY <1>1, <1>3, <4>1, BecomesSent
      <4> QED
        BY <1>3, <3>2, <4>3, <4>4
    <3> QED
      BY <3>3, <3>4
  <2>3. CASE m.t = "focus" /\ HandlesFocus(k)
    <3>1. /\ UNCHANGED <<nextStream, answering>>
          /\ \/ UNCHANGED <<live, down>>
             \/ \E l \in LiveType : Becomes(l) /\ \A j \in Sink : Spared(live, l, j)
      BY <2>3, FocusSpares
    <3>2. CASE UNCHANGED <<live, down>>
      BY <1>1, <1>3, <3>1, <3>2 DEF Sent
    <3>3. CASE ~UNCHANGED <<live, down>>
      <4>1. PICK l \in LiveType : Becomes(l) /\ \A j \in Sink : Spared(live, l, j)
        BY <3>1, <3>3
      <4>2. live' = l
        BY <4>1 DEF Becomes
      <4>3. \A j \in Sink : live'.att[j].stream \in {live.att[j].stream, 0}
        BY <4>1, <4>2 DEF Spared
      <4>4. \A j \in Sink : Sent(j)
        BY <1>1, <1>3, <4>1, BecomesSent
      <4> QED
        BY <1>3, <3>1, <4>3, <4>4
    <3> QED
      BY <3>2, <3>3
  <2>4. CASE m.t = "detach" /\ HandlesDetach(k)
    <3>1. live' = Dropped(live, k) /\ UNCHANGED <<down, nextStream, answering>>
      BY <2>4 DEF HandlesDetach
    <3>2. live'.att = [live.att EXCEPT ![k] = NoAtt]
      BY <1>3, <3>1, DroppedOK
    <3>3. \A j \in Sink : live'.att[j].stream \in {live.att[j].stream, 0}
      BY <1>3, <3>2 DEF LiveType, NoAtt
    <3> QED
      BY <1>1, <1>3, <3>1, <3>3 DEF Sent
  <2> QED
    BY <1>1, <2>1, <2>2, <2>3, <2>4
<1> QED
  BY <1>1, <1>4, ServerGap

LEMMA AnswersGap ==
  ASSUME IInv, IInv', GapOK, Answers
  PROVE  GapOK'
<1> DEFINE a == Head(answering)
<1>1. /\ UNCHANGED <<live, nextStream, produced, flushed, wire, up, sock, streams, painted, screen, mounted>>
      /\ answering # <<>> /\ answering' = Tail(answering)
  BY DEF Answers, viewVars
<1>2. /\ answering \in Seq([sink : Sink, stream : Nat, need : 0 .. MaxChunk])
      /\ TypeOK /\ live \in LiveType /\ nextStream \in Nat \ {0}
      /\ produced \in 0 .. MaxChunk /\ flushed \in 0 .. MaxChunk
  <2>1. produced \in 0 .. MaxChunk /\ flushed \in 0 .. produced /\ nextStream \in Nat \ {0}
        /\ answering \in Seq([sink : Sink, stream : Nat, need : 0 .. MaxChunk])
    BY DEF IInv, TypeOK
  <2> QED
    BY <2>1, LiveTyped, StreamAssumption DEF IInv
<1>3. PICK n \in a.need .. produced :
        /\ Sends([k \in Sink |-> IF k # a.sink THEN <<>>
             ELSE << [t |-> "attached", stream |-> a.stream, size |-> live.size, upto |-> n] >>])
        /\ short' = IF flushed <= n THEN short
                    ELSE short \cup {[stream |-> a.stream, upto |-> n, sent |-> flushed]}
  BY DEF Answers
<1> DEFINE f == [t |-> "attached", stream |-> a.stream, size |-> live.size, upto |-> n]
           msgs == [k \in Sink |-> IF k # a.sink THEN <<>> ELSE << f >>]
           lacks == [stream |-> a.stream, upto |-> n, sent |-> flushed]
<1>4. /\ answering' \in Seq([sink : Sink, stream : Nat, need : 0 .. MaxChunk])
      /\ Len(answering') = Len(answering) - 1 /\ Len(answering) \in Nat \ {0}
      /\ a = answering[1] /\ a \in [sink : Sink, stream : Nat, need : 0 .. MaxChunk]
      /\ \A i \in 1 .. Len(answering) - 1 : answering'[i] = answering[i + 1]
  <2> DEFINE T == [sink : Sink, stream : Nat, need : 0 .. MaxChunk]
  <2>1. answering \in Seq(T) /\ answering # <<>> /\ answering' = Tail(answering)
    BY <1>1, <1>2
  <2> HIDE DEF T
  <2>2. /\ answering' \in Seq(T)
        /\ Len(answering') = Len(answering) - 1 /\ Len(answering) \in Nat \ {0}
        /\ Head(answering) = answering[1] /\ answering[1] \in T
        /\ \A i \in 1 .. Len(answering) - 1 : answering'[i] = answering[i + 1]
    BY <2>1, FrameOff
  <2> QED
    BY <2>2 DEF T
<1> HIDE DEF a
<1>5. a.stream \in 1 .. nextStream - 1 /\ n \in 0 .. MaxChunk
  BY <1>2, <1>4, StreamAssumption DEF GapOK
<1>6. f \in ToPage /\ f.t = "attached" /\ f.stream = a.stream /\ f.upto = n
  BY <1>2, <1>4, <1>5 DEF ToPage, LiveType
<1>9. Covers(short', a.stream, n, flushed) /\ short \subseteq short'
  <2>1. CASE flushed <= n
    BY <1>3, <2>1 DEF Covers
  <2>2. CASE ~(flushed <= n)
    <3>1. lacks \in short' /\ short \subseteq short' /\ lacks.stream \in {a.stream} /\ lacks.upto = n /\ flushed <= lacks.sent
      BY <1>2, <1>3, <2>2, StreamAssumption
    <3> QED
      BY <3>1 DEF Covers, Hole
  <2> QED
    BY <2>1, <2>2
<1>10. Sends(msgs)
  BY <1>3
<1> HIDE DEF f
<1>7. ASSUME NEW k \in Sink PROVE Sent(k)
  <2>1. msgs \in [Sink -> Seq(ToPage)]
    BY <1>6
  <2>2. msgs[k] = IF k # a.sink THEN <<>> ELSE << f >>
    OBVIOUS
  <2> HIDE DEF msgs
  <2>3. down'[k] = down[k] \/ (Reads(k) /\ down'[k] = Append(down[k], f))
    BY <1>2, <1>6, <1>10, <2>1, <2>2, SendsFrame
  <2> QED
    BY <1>1, <1>5, <1>6, <1>9, <2>3 DEF Sent
<1>8. \A i \in 1 .. Len(answering') : answering'[i].stream \in 1 .. nextStream' - 1
  <2> TAKE i \in 1 .. Len(answering')
  <2>1. i + 1 \in 1 .. Len(answering) /\ answering'[i] = answering[i + 1]
    BY <1>4
  <2> QED
    BY <1>1, <2>1 DEF GapOK
<1> QED
  BY <1>1, <1>2, <1>7, <1>8, <1>9, ServerGap

LEMMA ProducesGap ==
  ASSUME IInv, IInv', GapOK, Produces
  PROVE  GapOK'
<1>1. UNCHANGED <<live, nextStream, answering, flushed, wire, down, sock, streams, painted, screen, mounted, short>>
  BY DEF Produces, viewVars
<1>2. \A k \in Sink : Sent(k)
  BY <1>1 DEF Sent
<1>3. nextStream \in Nat
  BY DEF IInv, TypeOK
<1> QED
  BY <1>1, <1>2, <1>3, ServerGap DEF GapOK

LEMMA FlushesGap ==
  ASSUME IInv, IInv', GapOK, Flushes
  PROVE  GapOK'
<1> DEFINE f(k) == [t |-> "out", stream |-> live.att[k].stream, after |-> flushed, upto |-> produced]
           msgs == [k \in Sink |-> IF k \notin Attached(live) THEN <<>> ELSE << f(k) >>]
<1>1. /\ UNCHANGED <<live, nextStream, answering, wire, sock, streams, painted, screen, mounted, short>>
      /\ flushed < produced /\ flushed' = produced
      /\ Sends(msgs)
  BY DEF Flushes, viewVars
<1>2. /\ TypeOK /\ nextStream \in Nat \ {0}
      /\ produced \in 0 .. MaxChunk /\ flushed \in 0 .. MaxChunk
      /\ \A k \in Sink : live.att[k].stream \in Nat
  <2>1. produced \in 0 .. MaxChunk /\ flushed \in 0 .. produced /\ nextStream \in Nat \ {0}
    BY DEF IInv, TypeOK
  <2> QED
    BY <2>1, LiveTyped, StreamAssumption DEF IInv
<1>3. \A k \in Sink : f(k) \in ToPage
  BY <1>2 DEF ToPage
<1>4. ASSUME NEW k \in Sink PROVE Sent(k)
  <2>1. msgs \in [Sink -> Seq(ToPage)]
    BY <1>3
  <2>2. msgs[k] = IF k \notin Attached(live) THEN <<>> ELSE << f(k) >>
    OBVIOUS
  <2> HIDE DEF msgs
  <2>3. CASE Reads(k) /\ live.att[k].stream # 0
    <3>1. down'[k] = Append(down[k], f(k))
      BY <1>1, <1>2, <1>3, <2>1, <2>2, <2>3, SendsFrame DEF Attached
    <3> QED
      BY <1>1, <1>3, <2>3, <3>1 DEF Sent
  <2>4. CASE ~Reads(k) \/ live.att[k].stream = 0
    <3>1. down'[k] = down[k]
      BY <1>1, <1>2, <2>1, <2>2, <2>4, SendsFrame DEF Attached
    <3>2. Now(k) = 0
      BY <2>4 DEF Now
    <3> QED
      BY <3>1, <3>2 DEF Sent
  <2> QED
    BY <2>3, <2>4
<1>5. \A i \in 1 .. Len(answering') : answering'[i].stream \in 1 .. nextStream' - 1
  BY <1>1 DEF GapOK
<1> QED
  BY <1>1, <1>2, <1>4, <1>5, ServerGap

LEMMA NoticesGap ==
  ASSUME IInv, IInv', GapOK, NEW k \in Sink, Notices(k)
  PROVE  GapOK'
<1>1. /\ UNCHANGED <<live, nextStream, answering, flushed, down, sock, streams, painted, screen, mounted, short>>
      /\ wire' = [wire EXCEPT ![k] = "closing"]
  BY DEF Notices, serverVars, viewVars
<1>2. \A j \in Sink : Sent(j)
  BY <1>1 DEF Sent
<1>3. nextStream \in Nat
  BY DEF IInv, TypeOK
<1>4. \A j \in Sink : (wire[j] # "new" => wire'[j] # "new") /\ (wire'[j] = "open" => wire[j] = "open")
  BY <1>1 DEF IInv, TypeOK
<1> QED
  BY <1>1, <1>2, <1>3, <1>4, ServerGap DEF GapOK

LEMMA ClosesGap ==
  ASSUME IInv, IInv', GapOK, NEW k \in Sink, Closes(k)
  PROVE  GapOK'
<1>1. /\ UNCHANGED <<nextStream, answering, flushed, down, sock, streams, painted, screen, mounted, short>>
      /\ wire' = [wire EXCEPT ![k] = "closed"]
      /\ live' = Dropped(live, k)
  BY DEF Closes, viewVars
<1>2. \A j \in Sink : Sent(j)
  BY <1>1 DEF Sent
<1>3. nextStream \in Nat /\ live \in LiveType
  BY LiveTyped DEF IInv, TypeOK
<1>4. \A j \in Sink : (wire[j] # "new" => wire'[j] # "new") /\ (wire'[j] = "open" => wire[j] = "open")
  BY <1>1 DEF IInv, TypeOK
<1>5. live'.att = [live.att EXCEPT ![k] = NoAtt]
  BY <1>1, <1>3, DroppedOK
<1>6. \A j \in Sink : live'.att[j].stream \in {live.att[j].stream, 0}
  BY <1>3, <1>5 DEF LiveType, NoAtt
<1> QED
  BY <1>1, <1>2, <1>3, <1>4, <1>6, ServerGap DEF GapOK
-----------------------------------------------------------------------------
(* The steps of the pages.                                                 *)

LEMMA GapTyped ==
  ASSUME IInv, GapOK
  PROVE  /\ nextStream \in Nat \ {0} /\ flushed \in Nat /\ sock \in [Page -> Sink \cup {None}]
         /\ wire \in [Sink -> {"new", "open", "closing", "closed"}]
         /\ down \in [Sink -> Seq(ToPage)] /\ screen \in [View -> Seq(1 .. MaxChunk)]
         /\ painted \subseteq View /\ painted \subseteq mounted /\ PageOf \in [View -> Page]
         /\ streams \in [Page -> SUBSET Nat] /\ None \notin Sink
  BY StreamAssumption DEF IInv, TypeOK, Sink, None

\* What a page asks, mounts, or takes off changes nothing that is on its way.
LEMMA PageGap ==
  ASSUME IInv, GapOK, UNCHANGED <<live, nextStream, answering, flushed, short, wire, down, sock, streams>>,
         painted' \subseteq painted,
         \A v \in painted' : screen'[v] = screen[v],
         ScreensOK'
  PROVE  GapOK'
<1>1. WireOK'
  BY DEF GapOK, WireOK, Read
<1>2. \A k \in Sink : Now(k)' = Now(k)
  BY DEF Now, Reads, Open, Read
<1>3. \A k \in Sink : FlowOK(short', down'[k], nextStream', Now(k)', flushed')
  BY <1>2 DEF GapOK
<1>4. ASSUME NEW v \in painted'
      PROVE  /\ streams'[PageOf[v]] # {}
             /\ sock'[PageOf[v]] # None =>
                  ShowsOK(short', down'[sock'[PageOf[v]]], streams'[PageOf[v]], Now(sock[PageOf[v]])', Newest(screen'[v]), flushed')
  <2>1. v \in painted /\ screen'[v] = screen[v] /\ PageOf[v] \in Page
    BY GapTyped
  <2>2. Now(sock[PageOf[v]])' = Now(sock[PageOf[v]])
    BY DEF Now, Reads, Open, Read
  <2> QED
    BY <2>1, <2>2 DEF GapOK
<1> QED
  BY <1>1, <1>3, <1>4 DEF GapOK

LEMMA MountsGap ==
  ASSUME IInv, GapOK, NEW v \in View, Mounts(v)
  PROVE  GapOK'
<1>1. UNCHANGED <<live, nextStream, answering, flushed, short, wire, down, sock, streams, painted, screen>> /\ mounted \subseteq mounted'
  BY DEF Mounts, serverVars
<1>2. ScreensOK'
  BY <1>1, GapTyped DEF GapOK, ScreensOK
<1> QED
  BY <1>1, <1>2, PageGap

LEMMA ResizesGap ==
  ASSUME IInv, GapOK, NEW v \in View, NEW z \in Size, Resizes(v, z)
  PROVE  GapOK'
<1>1. UNCHANGED <<live, nextStream, answering, flushed, short, wire, down, sock, streams, painted, screen, mounted>>
  BY DEF Resizes, serverVars
<1>2. ScreensOK'
  BY <1>1, GapTyped DEF GapOK, ScreensOK
<1> QED
  BY <1>1, <1>2, PageGap

LEMMA FocusesGap ==
  ASSUME IInv, GapOK, NEW v \in View, Focuses(v)
  PROVE  GapOK'
<1>1. UNCHANGED <<live, nextStream, answering, flushed, short, wire, down, sock, streams, painted, screen, mounted>>
  BY DEF Focuses, serverVars, viewVars
<1>2. ScreensOK'
  BY <1>1, GapTyped DEF GapOK, ScreensOK
<1> QED
  BY <1>1, <1>2, PageGap

LEMMA UnmountsGap ==
  ASSUME IInv, GapOK, NEW v \in View, Unmounts(v)
  PROVE  GapOK'
<1>1. /\ UNCHANGED <<live, nextStream, answering, flushed, short, wire, down, sock, streams>>
      /\ painted' = painted \ {v} /\ screen' = [screen EXCEPT ![v] = <<>>] /\ mounted' = mounted \ {v}
  BY DEF Unmounts, Disposes, serverVars
<1>2. Whole(short, streams[PageOf[v]], <<>>)
  BY DEF Whole, Newest
<1>3. \A x \in View : screen'[x] = IF x = v THEN <<>> ELSE screen[x]
  BY <1>1, GapTyped
<1>4. ScreensOK'
  BY <1>1, <1>2, <1>3 DEF GapOK, ScreensOK
<1>5. \A x \in painted' : screen'[x] = screen[x]
  BY <1>1, <1>3, GapTyped
<1> QED
  BY <1>1, <1>4, <1>5, PageGap

LEMMA OpensGap ==
  ASSUME IInv, GapOK, NEW p \in Page, NEW k \in Sink, Opens(p, k)
  PROVE  GapOK'
<1> USE GapTyped
<1>1. /\ UNCHANGED <<live, nextStream, answering, flushed, short, down, streams, screen, mounted>>
      /\ sock[p] = None /\ wire[k] = "new"
      /\ wire' = [wire EXCEPT ![k] = "open"] /\ sock' = [sock EXCEPT ![p] = k]
      /\ painted' = painted \ Views(p)
  BY DEF Opens, serverVars
<1>2. \A q \in Page : sock[q] # k
  BY <1>1 DEF GapOK, WireOK
<1>3. down[k] = <<>>
  BY <1>2 DEF GapOK, WireOK, Read
<1>4. \A j \in Sink : j # k => (Read(j)' <=> Read(j)) /\ (Open(j)' <=> Open(j)) /\ Now(j)' = Now(j)
  <2> TAKE j \in Sink
  <2> HAVE j # k
  <2>1. Read(j)' <=> Read(j)
    BY <1>1 DEF Read
  <2>2. Open(j)' <=> Open(j)
    BY <1>1 DEF Open
  <2> QED
    BY <1>1, <2>1, <2>2 DEF Now, Reads
<1>5. WireOK'
  <2>1. \A q \in Page : sock'[q] = IF q = p THEN k ELSE sock[q]
    BY <1>1
  <2>2. \A q \in Page : sock'[q] # None => wire'[sock'[q]] # "new" /\ \A x \in Page : sock'[q] = sock'[x] => q = x
    <3> TAKE q \in Page
    <3>1. CASE q = p
      BY <1>1, <1>2, <2>1, <3>1
    <3>2. CASE q # p
      BY <1>1, <1>2, <2>1, <3>2 DEF GapOK, WireOK
    <3> QED
      BY <3>1, <3>2
  <2>3. \A j \in Sink : ~Read(j)' => down'[j] = <<>>
    BY <1>1, <1>3, <1>4 DEF GapOK, WireOK
  <2> QED
    BY <2>2, <2>3 DEF WireOK
<1>6. \A j \in Sink : FlowOK(short', down'[j], nextStream', Now(j)', flushed')
  <2> TAKE j \in Sink
  <2>1. CASE j = k
    BY <1>1, <1>3, <2>1 DEF FlowOK
  <2>2. CASE j # k
    BY <1>1, <1>4, <2>2 DEF GapOK
  <2> QED
    BY <2>1, <2>2
<1>7. ASSUME NEW v \in painted'
      PROVE  /\ streams'[PageOf[v]] # {}
             /\ sock'[PageOf[v]] # None =>
                  ShowsOK(short', down'[sock'[PageOf[v]]], streams'[PageOf[v]], Now(sock[PageOf[v]])', Newest(screen'[v]), flushed')
  <2>1. v \in painted /\ v \in View /\ PageOf[v] # p /\ PageOf[v] \in Page
    BY <1>1 DEF Views
  <2>2. sock'[PageOf[v]] = sock[PageOf[v]]
    BY <1>1, <2>1
  <2>3. ASSUME NEW j \in Sink, j = sock[PageOf[v]]
        PROVE  ShowsOK(short', down'[j], streams'[PageOf[v]], Now(j)', Newest(screen'[v]), flushed')
    <3>1. ShowsOK(short, down[j], streams[PageOf[v]], Now(j), Newest(screen[v]), flushed)
      BY <2>1, <2>3 DEF GapOK
    <3>2. Now(j)' = Now(j)
      BY <1>2, <1>4, <2>1, <2>3
    <3> QED
      BY <1>1, <3>1, <3>2
  <2>4. streams'[PageOf[v]] # {}
    BY <1>1, <2>1 DEF GapOK
  <2> QED
    BY <2>1, <2>2, <2>3, <2>4
<1>8. ScreensOK'
  BY <1>1 DEF GapOK, ScreensOK
<1> QED
  BY <1>1, <1>5, <1>6, <1>7, <1>8 DEF GapOK

LEMMA LosesGap ==
  ASSUME IInv, GapOK, NEW p \in Page, Loses(p)
  PROVE  GapOK'
<1> USE GapTyped
<1>1. /\ UNCHANGED <<live, nextStream, answering, flushed, short, wire, streams, painted, screen, mounted>>
      /\ sock[p] # None /\ sock' = [sock EXCEPT ![p] = None]
      /\ down' = [down EXCEPT ![sock[p]] = <<>>]
  BY DEF Loses, serverVars, viewVars
<1>2. PICK k \in Sink : k = sock[p]
  BY <1>1
<1>3. /\ \A q \in Page : sock'[q] = IF q = p THEN None ELSE sock[q]
      /\ \A j \in Sink : down'[j] = IF j = k THEN <<>> ELSE down[j]
      /\ \A q \in Page : sock[q] = k => q = p
  BY <1>1, <1>2 DEF GapOK, WireOK
<1>4. \A j \in Sink : j # k => (Read(j)' <=> Read(j)) /\ Now(j)' = Now(j)
  <2> TAKE j \in Sink
  <2> HAVE j # k
  <2>1. Read(j)' <=> Read(j)
    BY <1>2, <1>3 DEF Read
  <2> QED
    BY <1>1, <2>1 DEF Now, Reads, Open
<1>5. WireOK'
  <2>1. \A q \in Page : sock'[q] # None => wire'[sock'[q]] # "new" /\ \A x \in Page : sock'[q] = sock'[x] => q = x
    BY <1>1, <1>3 DEF GapOK, WireOK
  <2>2. \A j \in Sink : ~Read(j)' => down'[j] = <<>>
    BY <1>3, <1>4 DEF GapOK, WireOK
  <2> QED
    BY <2>1, <2>2 DEF WireOK
<1>6. \A j \in Sink : FlowOK(short', down'[j], nextStream', Now(j)', flushed')
  <2> TAKE j \in Sink
  <2>1. CASE j = k
    BY <1>1, <1>3, <2>1 DEF FlowOK
  <2>2. CASE j # k
    BY <1>1, <1>3, <1>4, <2>2 DEF GapOK
  <2> QED
    BY <2>1, <2>2
<1>7. ASSUME NEW v \in painted'
      PROVE  /\ streams'[PageOf[v]] # {}
             /\ sock'[PageOf[v]] # None =>
                  ShowsOK(short', down'[sock'[PageOf[v]]], streams'[PageOf[v]], Now(sock[PageOf[v]])', Newest(screen'[v]), flushed')
  <2>1. v \in painted /\ v \in View /\ PageOf[v] \in Page
    BY <1>1
  <2>2. ASSUME NEW j \in Sink, j = sock'[PageOf[v]]
        PROVE  ShowsOK(short', down'[j], streams'[PageOf[v]], Now(j)', Newest(screen'[v]), flushed')
    <3>1. PageOf[v] # p /\ j = sock[PageOf[v]] /\ j # k
      BY <1>3, <2>1, <2>2
    <3>2. ShowsOK(short, down[j], streams[PageOf[v]], Now(j), Newest(screen[v]), flushed)
      BY <2>1, <3>1 DEF GapOK
    <3> QED
      BY <1>1, <1>3, <1>4, <3>1, <3>2
  <2>3. streams'[PageOf[v]] # {}
    BY <1>1, <2>1 DEF GapOK
  <2>4. sock'[PageOf[v]] # None => sock'[PageOf[v]] \in Sink
    BY <1>3, <2>1
  <2> QED
    BY <2>2, <2>3, <2>4
<1>8. ScreensOK'
  BY <1>1 DEF GapOK, ScreensOK
<1> QED
  BY <1>1, <1>5, <1>6, <1>7, <1>8 DEF GapOK
\* A screen that follows what comes to its page follows what comes after the first frame.
LEMMA ReceivesGap ==
  ASSUME IInv, IInv', GapOK, NEW p \in Page, Receives(p)
  PROVE  GapOK'
<1> USE GapTyped
<1>1. /\ UNCHANGED <<live, nextStream, answering, flushed, short, wire, sock, mounted>>
      /\ sock[p] # None /\ down[sock[p]] # <<>>
      /\ down' = [down EXCEPT ![sock[p]] = Tail(@)]
  BY DEF Receives, serverVars
<1>2. PICK k \in Sink : k = sock[p]
  BY <1>1
<1> DEFINE d == down[k]
           m == Head(d)
           s == Now(k)
<1>3. /\ d \in Seq(ToPage) /\ d # <<>> /\ m = d[1] /\ m \in ToPage
      /\ s \in Nat /\ nextStream \in Nat /\ FlowOK(short, d, nextStream, s, flushed)
  <2>1. d \in Seq(ToPage) /\ d # <<>>
    BY <1>1, <1>2
  <2>2. Head(d) = d[1] /\ d[1] \in ToPage
    BY <2>1, FrameOff
  <2> QED
    BY <2>1, <2>2, NowTyped DEF GapOK
<1>4. /\ \A j \in Sink : down'[j] = IF j = k THEN Tail(d) ELSE down[j]
      /\ \A q \in Page : sock[q] = k => q = p
  BY <1>1, <1>2 DEF GapOK, WireOK
<1>5. \/ m.t = "attached" /\ Repaints(p, m)
      \/ m.t = "size" /\ Fits(p, m)
      \/ m.t = "out" /\ Writes(p, m)
  BY <1>2 DEF Receives
<1> HIDE DEF d, m, s
<1>6. \A j \in Sink : (Read(j)' <=> Read(j)) /\ Now(j)' = Now(j)
  BY <1>1 DEF Read, Now, Reads, Open
<1>7. WireOK'
  <2>1. \A q \in Page : sock'[q] # None => wire'[sock'[q]] # "new" /\ \A x \in Page : sock'[q] = sock'[x] => q = x
    BY <1>1 DEF GapOK, WireOK
  <2>2. Read(k)
    BY <1>2 DEF Read
  <2>3. \A j \in Sink : ~Read(j)' => down'[j] = <<>>
    BY <1>4, <1>6, <2>2 DEF GapOK, WireOK
  <2> QED
    BY <2>1, <2>3 DEF WireOK
<1>8. \A j \in Sink : FlowOK(short', down'[j], nextStream', Now(j)', flushed')
  <2> TAKE j \in Sink
  <2>1. CASE j = k
    BY <1>1, <1>3, <1>4, <1>6, <2>1, FlowOff DEF s
  <2>2. CASE j # k
    BY <1>1, <1>4, <1>6, <2>2 DEF GapOK
  <2> QED
    BY <2>1, <2>2
\* Only the views of the page change.
<1>9. /\ \A q \in Page : q # p => streams'[q] = streams[q]
      /\ \A v \in View : PageOf[v] # p => screen'[v] = screen[v] /\ (v \in painted' <=> v \in painted)
  BY <1>5 DEF Repaints, Fits, Writes, Views
<1>10. ASSUME NEW v \in painted
       PROVE  /\ PageOf[v] \in Page /\ v \in View
              /\ PageOf[v] = p => /\ streams[p] # {} /\ Newest(screen[v]) \in Nat
                                  /\ ShowsOK(short, d, streams[p], s, Newest(screen[v]), flushed)
  <2>1. v \in View /\ PageOf[v] \in Page /\ screen[v] \in Seq(1 .. MaxChunk)
    OBVIOUS
  <2> QED
    BY <1>1, <1>2, <2>1, NewestTyped DEF GapOK, d, s
<1>11. /\ streams'[p] \subseteq 1 .. nextStream - 1 /\ \A a, o \in streams'[p] : a = o
       /\ \A v \in painted' : PageOf[v] = p =>
            streams'[p] # {} /\ ShowsOK(short, Tail(d), streams'[p], s, Newest(screen'[v]), flushed)
       /\ \A v \in View : Whole(short, streams'[PageOf[v]], screen'[v]) /\ (v \notin mounted => screen'[v] = <<>>)
  <2>1. streams[p] \subseteq 1 .. nextStream - 1 /\ (\A a, o \in streams[p] : a = o) /\ streams[p] \in SUBSET Nat
        /\ \A v \in View : Whole(short, streams[PageOf[v]], screen[v]) /\ (v \notin mounted => screen[v] = <<>>)
    BY DEF GapOK, ScreensOK
  <2>2. CASE m.t = "attached" /\ Repaints(p, m)
    <3> DEFINE again == streams[p] \ {m.stream} # {}
               fresh == IF again THEN Views(p) ELSE Views(p) \ painted
    <3>1. /\ streams'[p] = {m.stream}
          /\ painted' = painted \cup fresh
          /\ screen' = [v \in View |-> IF v \in fresh THEN Chunks(0, m.upto) ELSE screen[v]]
      BY <2>2 DEF Repaints
    <3>2. m.upto \in 0 .. MaxChunk /\ m.stream \in Nat
      BY <1>3, <2>2 DEF ToPage
    <3>3. /\ ShowsOK(short, Tail(d), {m.stream}, s, m.upto, flushed)
          /\ m.stream \in 1 .. nextStream - 1
      BY <1>3, <2>2, ShowsTaken DEF Tagged
    <3>4. Whole(short, {m.stream}, Chunks(0, m.upto)) /\ Newest(Chunks(0, m.upto)) = m.upto
      BY <3>2, PaintedWhole
    <3>5. ASSUME NEW v \in painted', PageOf[v] = p
          PROVE  ShowsOK(short, Tail(d), streams'[p], s, Newest(screen'[v]), flushed)
      <4>1. CASE v \in fresh
        <5>1. v \in View /\ screen'[v] = Chunks(0, m.upto)
          <6>1. v \in View
            BY <4>1 DEF Views, IInv, TypeOK
          <6> QED
            BY <3>1, <4>1, <6>1
        <5> QED
          BY <3>1, <3>3, <3>4, <5>1
      <4>2. CASE v \notin fresh
        <5>1. v \in painted /\ v \in Views(p)
          BY <3>1, <3>5, <4>2 DEF Views
        <5>2. ~again
          BY <4>2, <5>1
        <5>3. streams[p] = {m.stream}
          BY <1>10, <3>5, <5>1, <5>2
        <5>4. screen'[v] = screen[v]
          BY <3>1, <4>2, <5>1
        <5>5. ShowsOK(short, Tail(d), streams[p], s, Newest(screen[v]), flushed)
          BY <1>3, <1>10, <2>1, <2>2, <3>5, <5>1, ShowsOff
        <5> QED
          BY <3>1, <5>3, <5>4, <5>5
      <4> QED
        BY <4>1, <4>2
    <3>6. ASSUME NEW v \in View
          PROVE  Whole(short, streams'[PageOf[v]], screen'[v]) /\ (v \notin mounted => screen'[v] = <<>>)
      <4>1. CASE v \in fresh
        <5>1. screen'[v] = Chunks(0, m.upto) /\ streams'[PageOf[v]] = {m.stream} /\ v \in mounted
          BY <3>1, <4>1 DEF Views
        <5> QED
          BY <3>4, <5>1
      <4>2. CASE v \notin fresh
        <5>1. screen'[v] = screen[v]
          BY <3>1, <4>2
        <5>2. CASE PageOf[v] # p
          BY <1>9, <2>1, <5>1, <5>2
        <5>3. CASE v \notin mounted
          <6>1. Whole(short, streams'[PageOf[v]], <<>>)
            BY DEF Whole, Newest
          <6> QED
            BY <2>1, <5>1, <5>3, <6>1
        <5>4. CASE PageOf[v] = p /\ v \in mounted
          <6>1. v \in Views(p) /\ v \in painted /\ ~again
            BY <4>2, <5>4 DEF Views
          <6>2. streams[p] = {m.stream}
            BY <1>10, <5>4, <6>1
          <6> QED
            BY <2>1, <3>1, <5>1, <5>4, <6>2
        <5> QED
          BY <5>2, <5>3, <5>4
      <4> QED
        BY <4>1, <4>2
    <3> QED
      BY <3>1, <3>3, <3>5, <3>6
  <2>3. CASE m.t = "size" /\ Fits(p, m)
    <3>1. UNCHANGED <<streams, painted, screen>>
      BY <2>3 DEF Fits
    <3>2. ASSUME NEW v \in painted, PageOf[v] = p
          PROVE  ShowsOK(short, Tail(d), streams[p], s, Newest(screen[v]), flushed)
      BY <1>3, <1>10, <2>1, <2>3, <3>2, ShowsOff
    <3>3. \A v \in View : Whole(short, streams'[PageOf[v]], screen'[v]) /\ (v \notin mounted => screen'[v] = <<>>)
      BY <2>1, <3>1
    <3> QED
      BY <1>10, <2>1, <3>1, <3>2, <3>3
  <2>4. CASE m.t = "out" /\ Writes(p, m)
    <3>1. /\ UNCHANGED <<streams, painted>>
          /\ screen' = [v \in View |-> IF v \in Views(p) \cap painted /\ m.stream \in streams[p]
                                       THEN screen[v] \o Chunks(m.after, m.upto) ELSE screen[v]]
      BY <2>4 DEF Writes
    <3>2. m.after \in 0 .. MaxChunk /\ m.upto \in 0 .. MaxChunk
      BY <1>3, <2>4 DEF ToPage
    <3>3. ShowsOK(short, Tail(d), {m.stream}, s, m.upto, flushed) /\ m.after < m.upto
      BY <1>3, <2>4, ShowsTaken DEF Tagged
    <3>4. ASSUME m.stream \in streams[p], NEW v \in Views(p) \cap painted
          PROVE  /\ Whole(short, streams[p], screen'[v]) /\ Newest(screen'[v]) = m.upto
                 /\ streams[p] = {m.stream} /\ PageOf[v] = p /\ v \in mounted
      <4>1. v \in painted /\ v \in View /\ PageOf[v] = p
        BY DEF Views
      <4>2. Covers(short, m.stream, Newest(screen[v]), m.after)
        BY <1>3, <1>10, <2>1, <2>4, <3>4, <4>1, ShowsFollows
      <4>3. screen[v] \in Seq(1 .. MaxChunk) /\ Whole(short, streams[p], screen[v]) /\ v \in mounted
        BY <2>1, <4>1
      <4>4. screen'[v] = screen[v] \o Chunks(m.after, m.upto)
        BY <3>1, <3>4, <4>1
      <4>5. short \subseteq [stream : Nat, upto : 0 .. MaxChunk, sent : 0 .. MaxChunk]
        BY DEF IInv, TypeOK
      <4>6. Whole(short, streams[p], screen'[v]) /\ Newest(screen'[v]) = m.upto
        BY <3>2, <3>3, <3>4, <4>2, <4>3, <4>4, <4>5, WrittenWhole
      <4> QED
        BY <2>1, <3>4, <4>1, <4>3, <4>6
    <3>5. ASSUME NEW v \in View
          PROVE  Whole(short, streams'[PageOf[v]], screen'[v]) /\ (v \notin mounted => screen'[v] = <<>>)
      <4>1. CASE v \in Views(p) \cap painted /\ m.stream \in streams[p]
        BY <3>1, <3>4, <4>1
      <4>2. CASE ~(v \in Views(p) \cap painted /\ m.stream \in streams[p])
        BY <2>1, <3>1, <4>2
      <4> QED
        BY <4>1, <4>2
    <3>6. ASSUME NEW v \in painted, PageOf[v] = p
          PROVE  ShowsOK(short, Tail(d), streams[p], s, Newest(screen'[v]), flushed)
      <4>1. v \in Views(p) /\ v \in View
        BY <3>6 DEF Views
      <4>2. CASE m.stream \in streams[p]
        BY <3>3, <3>4, <4>1, <4>2
      <4>3. CASE m.stream \notin streams[p]
        <5>1. screen'[v] = screen[v]
          BY <3>1, <4>1, <4>3
        <5> QED
          BY <1>3, <1>10, <2>1, <3>6, <4>3, <5>1, ShowsOff
      <4> QED
        BY <4>2, <4>3
    <3>7. \A v \in painted' : PageOf[v] = p =>
            streams'[p] # {} /\ ShowsOK(short, Tail(d), streams'[p], s, Newest(screen'[v]), flushed)
      BY <1>10, <3>1, <3>6
    <3>8. streams'[p] \subseteq 1 .. nextStream - 1 /\ \A a, o \in streams'[p] : a = o
      BY <2>1, <3>1
    <3> QED
      BY <3>5, <3>7, <3>8
  <2> QED
    BY <1>5, <2>2, <2>3, <2>4
<1>12. ASSUME NEW v \in painted'
       PROVE  /\ streams'[PageOf[v]] # {}
              /\ sock'[PageOf[v]] # None =>
                   ShowsOK(short', down'[sock'[PageOf[v]]], streams'[PageOf[v]], Now(sock[PageOf[v]])', Newest(screen'[v]), flushed')
  <2>1. v \in View /\ PageOf[v] \in Page
    BY DEF IInv, TypeOK
  <2>2. CASE PageOf[v] = p
    <3>1. sock[p] = k /\ sock'[p] = k /\ down'[k] = Tail(d) /\ flushed' = flushed /\ short' = short
      BY <1>1, <1>2, <1>4
    <3>2. Now(k)' = s
      BY <1>6 DEF s
    <3>3. streams'[p] # {} /\ ShowsOK(short, Tail(d), streams'[p], s, Newest(screen'[v]), flushed)
      BY <1>11, <2>2
    <3> QED
      BY <2>2, <3>1, <3>2, <3>3
  <2>3. CASE PageOf[v] # p
    <3>1. v \in painted /\ screen'[v] = screen[v] /\ streams'[PageOf[v]] = streams[PageOf[v]]
      BY <1>9, <2>1, <2>3
    <3>2. streams[PageOf[v]] # {}
      BY <3>1 DEF GapOK
    <3>3. ASSUME NEW j \in Sink, j = sock[PageOf[v]]
          PROVE  ShowsOK(short', down'[j], streams[PageOf[v]], Now(j)', Newest(screen[v]), flushed')
      <4>1. ShowsOK(short, down[j], streams[PageOf[v]], Now(j), Newest(screen[v]), flushed)
        BY <3>1, <3>3 DEF GapOK
      <4>2. j # k
        BY <1>4, <2>1, <2>3, <3>3
      <4> QED
        BY <1>1, <1>4, <1>6, <4>1, <4>2
    <3> QED
      BY <1>1, <2>1, <3>1, <3>2, <3>3
  <2> QED
    BY <2>2, <2>3
<1>13. \A q \in Page : streams'[q] \subseteq 1 .. nextStream' - 1 /\ \A a, o \in streams'[q] : a = o
  BY <1>1, <1>9, <1>11 DEF GapOK
<1>14. \A i \in 1 .. Len(answering') : answering'[i].stream \in 1 .. nextStream' - 1
  BY <1>1 DEF GapOK
<1>15. ScreensOK'
  BY <1>1, <1>11 DEF ScreensOK
<1> QED
  BY <1>7, <1>8, <1>12, <1>13, <1>14, <1>15 DEF GapOK

-----------------------------------------------------------------------------

LEMMA InitGap == Init => GapOK
<1> SUFFICES ASSUME Init PROVE GapOK
  OBVIOUS
<1> USE DEF Init
<1>1. WireOK
  <2>1. \A p \in Page : sock[p] # None => sock[p] \in Sink /\ wire[sock[p]] = "open"
    BY StreamAssumption DEF Sink, None
  <2>2. \A p, q \in Page : sock[p] # None /\ sock[p] = sock[q] => p = q
    BY StreamAssumption DEF None
  <2> QED
    BY <2>1, <2>2 DEF WireOK
<1>2. \A k \in Sink : FlowOK(short, down[k], nextStream, Now(k), flushed)
  BY DEF FlowOK
<1>3. ScreensOK
  <2>1. \A L, T : Whole(L, T, <<>>)
    BY DEF Whole, Newest
  <2> QED
    BY <2>1 DEF ScreensOK
<1> QED
  BY <1>1, <1>2, <1>3 DEF GapOK

LEMMA StepGap == IInv /\ IInv' /\ GapOK /\ [Next]_vars => GapOK'
<1> SUFFICES ASSUME IInv, IInv', GapOK, [Next]_vars PROVE GapOK'
  OBVIOUS
<1>1. CASE UNCHANGED vars
  <2>1. UNCHANGED <<live, nextStream, answering, flushed, short, wire, down, sock, streams, painted, screen, mounted>>
    BY <1>1 DEF vars, serverVars, viewVars
  <2>2. ScreensOK'
    BY <2>1 DEF GapOK, ScreensOK
  <2> QED
    BY <2>1, <2>2, PageGap
<1>2. CASE Server
  BY <1>2, HandlesGap, NoticesGap, ClosesGap, AnswersGap, ProducesGap, FlushesGap DEF Server
<1>3. CASE Browser
  BY <1>3, LosesGap, ReceivesGap, OpensGap, MountsGap, UnmountsGap, FocusesGap, ResizesGap DEF Browser
<1> QED
  BY <1>1, <1>2, <1>3 DEF Next

\* Whatever order attach, output, mounts, drops and reconnects come in, and
\* however far the mirror is behind with parsing (engine.ts, attach; mirror.ts,
\* snapshot), the only output a screen ever skips is what its own snapshot lacked
\* of what had been sent: all else that a view drops is in the snapshot that
\* paints it next.
THEOREM NoGapHolds == Spec => []NoGap
<1>1. GapOK => NoGap
  BY DEF GapOK, ScreensOK, Whole, Before, Hole, NoGap, Lacked
<1>2. Init => IInv /\ GapOK
  BY InitHolds, InitGap
<1>3. IInv /\ GapOK /\ [Next]_vars => (IInv /\ GapOK)'
  BY StepKeeps, StepGap
<1> QED
  BY <1>1, <1>2, <1>3, PTL DEF Spec
-----------------------------------------------------------------------------
(***************************************************************************)
(* What a page and the server still have to say to one another.            *)
(***************************************************************************)

Attaches == {m \in ToServer : m.t = "attach"}
Detaches == {m \in ToServer : m.t = "detach"}
Sizings == {m \in Attaches : m.primary}

\* What a request of on gives, and one of off takes, is there after the first n.
Lasts(u, n, has, on, off) ==
  \/ \E i \in 1 .. n : u[i] \in on /\ \A j \in i + 1 .. n : u[j] \notin off
  \/ has /\ \A j \in 1 .. n : u[j] \notin off

Sizing(a) == a.stream # 0 /\ a.primary

\* A page with views will be attached, one with primary views will size, and so
\* it does where it resizes.
RequestsOK(u, a, V) ==
  /\ V # {} => Lasts(u, Len(u), a.stream # 0, Attaches, Detaches)
  /\ V \cap Primary # {} => Lasts(u, Len(u), Sizing(a), Sizings, Attaches \cup Detaches)
  /\ \A i \in 1 .. Len(u) : u[i].t = "resize" => Lasts(u, i - 1, Sizing(a), Sizings, Attaches \cup Detaches)

\* The last answer there will be for sink k is of stream s.
Owes(q, k) == \E i \in 1 .. Len(q) : q[i].sink = k
LastOwed(q, k, s) == \A i \in 1 .. Len(q) : q[i].sink = k /\ (\A j \in i + 1 .. Len(q) : q[j].sink # k) => q[i].stream = s
Told(d) == \E i \in 1 .. Len(d) : d[i].t = "attached"
LastTold(d, s) == \A i \in 1 .. Len(d) : d[i].t = "attached" /\ (\A j \in i + 1 .. Len(d) : d[j].t # "attached") => d[i].stream = s

AnsweredOK(q, k, d, S, s) ==
  /\ LastOwed(q, k, s)
  /\ ~Owes(q, k) => LastTold(d, s)
  /\ ~Owes(q, k) /\ ~Told(d) => S = {s}

\* No size comes after frame i.
Unsized(d, i) == \A j \in i + 1 .. Len(d) : d[j].t # "size"
\* The last size to come to a page that knows s, or will, is z.
Knows(d, i, S, s) == s \in S \/ \E j \in 1 .. i - 1 : d[j].t = "attached" /\ d[j].stream = s
SizedOK(d, S, s, z) ==
  \A i \in 1 .. Len(d) : Unsized(d, i) =>
    /\ d[i].t = "attached" /\ d[i].stream = s => d[i].size = z
    /\ d[i].t = "size" /\ Knows(d, i, S, s) => d[i].size = z

Asked(u) == \E i \in 1 .. Len(u) : u[i].t = "attach"

\* Between sink k and its page, which knows S and has painted P of its views V.
PromisedOK(k, a, q, d, u, S, V, P, z) ==
  /\ RequestsOK(u, a, V)
  /\ a.stream # 0 => AnsweredOK(q, k, d, S, a.stream) /\ SizedOK(d, S, a.stream, z)
  /\ V \subseteq P \/ Owes(q, k) \/ Told(d) \/ Asked(u)

\* A geometry that is not the session's is still to be asked for.
FitsOK(a, d, u, S, V, P, z, g) ==
  a.stream \in S /\ Unsized(d, 0) =>
    \A v \in V \cap P : g[v] = z \/ \E i \in 1 .. Len(u) : u[i].t = "resize" /\ u[i].size = g[v]

\* What there is between a page and its connection.
LinkOK(p, k) ==
  /\ PromisedOK(k, live.att[k], answering, down[k], up[k], streams[p], Views(p), painted, live.size)
  /\ FitsOK(live.att[k], down[k], up[k], streams[p], Views(p), painted, live.size, at)

StepOK ==
  /\ \A k \in Sink : wire[k] = "new" => live.att[k].stream = 0 /\ up[k] = <<>> /\ ~Owes(answering, k)
  /\ \A p \in Page, k \in Sink : sock[p] = k /\ Open(k) => LinkOK(p, k)

-----------------------------------------------------------------------------
(* One request more, and one less.                                         *)

LEMMA LastsOff ==
  ASSUME NEW u \in Seq(ToServer), u # <<>>, NEW n \in Nat, n < Len(u), NEW has, NEW on, NEW off, NEW got,
         Lasts(u, n + 1, has, on, off), Lasts(u, 1, has, on, off) => got
  PROVE  Lasts(Tail(u), n, got, on, off)
<1> DEFINE w == Tail(u)
<1>1. Len(w) = Len(u) - 1 /\ Len(u) \in Nat \ {0} /\ \A h \in 1 .. Len(u) - 1 : w[h] = u[h + 1]
  BY FrameOff
<1> HIDE DEF w
<1>2. \A h \in 1 .. n : h + 1 \in 1 .. n + 1 /\ w[h] = u[h + 1]
  BY <1>1
<1>3. 1 \in 1 .. n + 1 /\ \A h \in 1 .. 1 : h = 1
  OBVIOUS
<1>4. ASSUME NEW i \in 1 .. n + 1, u[i] \in on, \A j \in i + 1 .. n + 1 : u[j] \notin off
      PROVE  Lasts(w, n, got, on, off)
  <2>1. CASE i = 1
    <3>1. Lasts(u, 1, has, on, off)
      <4>1. 1 \in 1 .. 1 /\ \A j \in 1 + 1 .. 1 : FALSE
        OBVIOUS
      <4> QED
        BY <1>4, <2>1, <4>1 DEF Lasts
    <3>2. \A h \in 1 .. n : w[h] \notin off
      <4>1. \A h \in 1 .. n : h + 1 \in i + 1 .. n + 1
        BY <2>1
      <4> QED
        BY <1>2, <1>4, <4>1
    <3> QED
      BY <3>1, <3>2 DEF Lasts
  <2>2. CASE i # 1
    <3>1. i - 1 \in 1 .. n /\ (i - 1) + 1 = i
      BY <2>2
    <3>2. w[i - 1] \in on
      BY <1>2, <1>4, <3>1
    <3>3. \A h \in (i - 1) + 1 .. n : h \in 1 .. n /\ h + 1 \in i + 1 .. n + 1
      BY <2>2
    <3>4. \A h \in (i - 1) + 1 .. n : w[h] \notin off
      BY <1>2, <1>4, <3>3
    <3> QED
      BY <3>1, <3>2, <3>4 DEF Lasts
  <2> QED
    BY <2>1, <2>2
<1>5. ASSUME has, \A j \in 1 .. n + 1 : u[j] \notin off
      PROVE  Lasts(w, n, got, on, off)
  <2>1. Lasts(u, 1, has, on, off)
    BY <1>3, <1>5 DEF Lasts
  <2>2. \A h \in 1 .. n : w[h] \notin off
    BY <1>2, <1>5
  <2> QED
    BY <2>1, <2>2 DEF Lasts
<1> QED
  BY <1>4, <1>5 DEF Lasts, w

LEMMA LastsOn ==
  ASSUME NEW u \in Seq(ToServer), NEW m \in ToServer, NEW has, NEW on, NEW off
  PROVE  /\ \A n \in 0 .. Len(u) : Lasts(u, n, has, on, off) => Lasts(Append(u, m), n, has, on, off)
         /\ Lasts(u, Len(u), has, on, off) /\ m \notin off => Lasts(Append(u, m), Len(u) + 1, has, on, off)
         /\ m \in on => Lasts(Append(u, m), Len(u) + 1, has, on, off)
         /\ Len(Append(u, m)) = Len(u) + 1
<1> DEFINE w == Append(u, m)
<1>1. Len(w) = Len(u) + 1 /\ Len(u) \in Nat /\ w[Len(u) + 1] = m /\ \A h \in 1 .. Len(u) : w[h] = u[h]
  BY FrameOn
<1> HIDE DEF w
<1>2. ASSUME NEW n \in 0 .. Len(u), Lasts(u, n, has, on, off) PROVE Lasts(w, n, has, on, off)
  <2>1. \A h \in 1 .. n : w[h] = u[h]
    BY <1>1
  <2>2. \A i \in 1 .. n : \A j \in i + 1 .. n : j \in 1 .. n
    OBVIOUS
  <2> QED
    BY <1>2, <2>1, <2>2 DEF Lasts
<1>3. ASSUME Lasts(u, Len(u), has, on, off), m \notin off PROVE Lasts(w, Len(u) + 1, has, on, off)
  <2>1. \A h \in 1 .. Len(u) : w[h] = u[h] /\ h \in 1 .. Len(u) + 1
    BY <1>1
  <2>2. \A j \in 1 .. Len(u) + 1 : j = Len(u) + 1 \/ j \in 1 .. Len(u)
    BY <1>1
  <2>3. \A i \in 1 .. Len(u) : \A j \in i + 1 .. Len(u) + 1 : j = Len(u) + 1 \/ (j \in i + 1 .. Len(u) /\ j \in 1 .. Len(u))
    BY <1>1
  <2>4. ASSUME NEW i \in 1 .. Len(u), u[i] \in on, \A j \in i + 1 .. Len(u) : u[j] \notin off
        PROVE  Lasts(w, Len(u) + 1, has, on, off)
    BY <1>1, <1>3, <2>1, <2>3, <2>4 DEF Lasts
  <2>5. ASSUME has, \A j \in 1 .. Len(u) : u[j] \notin off
        PROVE  Lasts(w, Len(u) + 1, has, on, off)
    BY <1>1, <1>3, <2>1, <2>2, <2>5 DEF Lasts
  <2> QED
    BY <1>3, <2>4, <2>5 DEF Lasts
<1>4. ASSUME m \in on PROVE Lasts(w, Len(u) + 1, has, on, off)
  <2>1. Len(u) + 1 \in 1 .. Len(u) + 1 /\ \A j \in (Len(u) + 1) + 1 .. Len(u) + 1 : FALSE
    BY <1>1
  <2> QED
    BY <1>1, <1>4, <2>1 DEF Lasts
<1> QED
  BY <1>1, <1>2, <1>3, <1>4 DEF w

LEMMA RequestTyped ==
  ASSUME NEW m \in ToServer
  PROVE  /\ m.t \in {"attach", "resize", "focus", "detach"}
         /\ m \in Attaches <=> m.t = "attach"
         /\ m \in Detaches <=> m.t = "detach"
         /\ m \in Sizings <=> m.t = "attach" /\ m.primary
         /\ m.t = "attach" => m.primary \in BOOLEAN /\ m.size \in Size
         /\ m.t = "resize" => m.size \in Size
<1>1. m.t \in {"attach", "resize", "focus", "detach"}
  BY DEF ToServer
<1>2. m.t = "attach" => m.primary \in BOOLEAN /\ m.size \in Size
  BY DEF ToServer
<1>3. m.t = "resize" => m.size \in Size
  BY DEF ToServer
<1> QED
  BY <1>1, <1>2, <1>3 DEF Attaches, Detaches, Sizings

\* The first request is handled, and leaves attachment b.
LEMMA RequestsOff ==
  ASSUME NEW u \in Seq(ToServer), u # <<>>, NEW a \in Att, NEW b \in Att, NEW V, RequestsOK(u, a, V),
         \/ /\ u[1].t \in {"resize", "focus"}
            /\ a.stream # 0 => b.stream # 0 /\ b.primary = a.primary
         \/ u[1].t = "attach" /\ b.stream # 0 /\ b.primary = u[1].primary
         \/ u[1].t = "detach"
  PROVE  RequestsOK(Tail(u), b, V)
<1> DEFINE w == Tail(u)
<1>1. /\ w \in Seq(ToServer) /\ Len(w) = Len(u) - 1 /\ Len(u) \in Nat \ {0} /\ u[1] \in ToServer
      /\ \A h \in 1 .. Len(u) - 1 : w[h] = u[h + 1]
  BY FrameOff
<1>2. Lasts(u, 1, a.stream # 0, Attaches, Detaches) => b.stream # 0
  <2>1. \A h \in 1 .. 1 : h = 1
    OBVIOUS
  <2>2. 1 \in 1 .. 1
    OBVIOUS
  <2>3. Lasts(u, 1, a.stream # 0, Attaches, Detaches) => u[1] \in Attaches \/ (a.stream # 0 /\ u[1] \notin Detaches)
    BY <2>1, <2>2 DEF Lasts
  <2> QED
    BY <1>1, <2>3, RequestTyped
<1>3. Lasts(u, 1, Sizing(a), Sizings, Attaches \cup Detaches) => Sizing(b)
  <2>1. \A h \in 1 .. 1 : h = 1
    OBVIOUS
  <2>2. 1 \in 1 .. 1
    OBVIOUS
  <2>3. Lasts(u, 1, Sizing(a), Sizings, Attaches \cup Detaches)
          => u[1] \in Sizings \/ (Sizing(a) /\ u[1] \notin Attaches \cup Detaches)
    BY <2>1, <2>2 DEF Lasts
  <2>4. u[1] \in Sizings => u[1].t = "attach" /\ u[1].primary
    BY <1>1, RequestTyped
  <2>5. u[1] \notin Attaches \cup Detaches => u[1].t \in {"resize", "focus"}
    BY <1>1, RequestTyped
  <2>6. u[1] \in Sizings => Sizing(b)
    BY <2>4 DEF Sizing
  <2>7. Sizing(a) /\ u[1] \notin Attaches \cup Detaches => Sizing(b)
    BY <2>5 DEF Sizing
  <2> QED
    BY <2>3, <2>6, <2>7
<1> HIDE DEF w
<1>4. V # {} => Lasts(w, Len(w), b.stream # 0, Attaches, Detaches)
  <2>1. (Len(u) - 1) + 1 = Len(u) /\ Len(u) - 1 \in Nat /\ Len(u) - 1 < Len(u)
    BY <1>1
  <2>2. Lasts(u, (Len(u) - 1) + 1, a.stream # 0, Attaches, Detaches)
        => Lasts(w, Len(u) - 1, b.stream # 0, Attaches, Detaches)
    BY <1>2, <2>1, LastsOff DEF w
  <2> QED
    BY <1>1, <2>1, <2>2 DEF RequestsOK
<1>5. \A n \in Nat : n < Len(u) /\ Lasts(u, n + 1, Sizing(a), Sizings, Attaches \cup Detaches)
        => Lasts(w, n, Sizing(b), Sizings, Attaches \cup Detaches)
  BY <1>3, LastsOff DEF w
<1>6. V \cap Primary # {} => Lasts(w, Len(w), Sizing(b), Sizings, Attaches \cup Detaches)
  <2>1. (Len(u) - 1) + 1 = Len(u) /\ Len(u) - 1 \in Nat /\ Len(u) - 1 < Len(u)
    BY <1>1
  <2>2. Lasts(u, (Len(u) - 1) + 1, Sizing(a), Sizings, Attaches \cup Detaches)
        => Lasts(w, Len(u) - 1, Sizing(b), Sizings, Attaches \cup Detaches)
    BY <1>5, <2>1
  <2> QED
    BY <1>1, <2>1, <2>2 DEF RequestsOK
<1>7. ASSUME NEW i \in 1 .. Len(w), w[i].t = "resize"
      PROVE  Lasts(w, i - 1, Sizing(b), Sizings, Attaches \cup Detaches)
  <2>1. i + 1 \in 1 .. Len(u) /\ w[i] = u[i + 1] /\ i - 1 \in Nat /\ i - 1 < Len(u) /\ (i - 1) + 1 = (i + 1) - 1
    BY <1>1
  <2>2. Lasts(u, (i + 1) - 1, Sizing(a), Sizings, Attaches \cup Detaches)
    BY <1>7, <2>1 DEF RequestsOK
  <2> QED
    BY <1>5, <2>1, <2>2
<1> QED
  BY <1>4, <1>6, <1>7 DEF RequestsOK, w

\* A page asks for what its views W need.
LEMMA RequestsOn ==
  ASSUME NEW u \in Seq(ToServer), NEW m \in ToServer, NEW a \in Att, NEW V, NEW W, RequestsOK(u, a, V),
         \/ m.t = "focus" /\ W = V
         \/ m.t = "resize" /\ W = V /\ V \cap Primary # {}
         \/ m.t = "attach" /\ (W \cap Primary # {} => m.primary)
         \/ m.t = "detach" /\ W = {}
  PROVE  RequestsOK(Append(u, m), a, W)
<1> DEFINE w == Append(u, m)
<1>1. Len(w) = Len(u) + 1 /\ Len(u) \in Nat /\ w[Len(u) + 1] = m /\ \A h \in 1 .. Len(u) : w[h] = u[h]
  BY FrameOn
<1>2. W # {} => Lasts(w, Len(w), a.stream # 0, Attaches, Detaches)
  BY <1>1, LastsOn, RequestTyped DEF RequestsOK
<1>3. W \cap Primary # {} => Lasts(w, Len(w), Sizing(a), Sizings, Attaches \cup Detaches)
  <2>1. m.t \in {"focus", "resize"} => m \notin Attaches \cup Detaches
    BY RequestTyped
  <2>2. m.t = "attach" /\ m.primary => m \in Sizings
    BY RequestTyped
  <2>3. W \cap Primary # {} => \/ m.t \in {"focus", "resize"} /\ W = V
                               \/ m.t = "attach" /\ m.primary
    OBVIOUS
  <2> QED
    BY <1>1, <2>1, <2>2, <2>3, LastsOn DEF RequestsOK
<1>4. ASSUME NEW i \in 1 .. Len(w), w[i].t = "resize"
      PROVE  Lasts(w, i - 1, Sizing(a), Sizings, Attaches \cup Detaches)
  <2>1. Lasts(u, i - 1, Sizing(a), Sizings, Attaches \cup Detaches)
    <3>1. CASE i \in 1 .. Len(u)
      BY <1>1, <1>4, <3>1 DEF RequestsOK
    <3>2. CASE i = Len(u) + 1
      <4>1. i - 1 = Len(u) /\ m.t = "resize"
        BY <1>1, <1>4, <3>2
      <4> QED
        BY <4>1 DEF RequestsOK
    <3> QED
      BY <1>1, <3>1, <3>2
  <2>2. i - 1 \in 0 .. Len(u)
    BY <1>1
  <2> QED
    BY <2>1, <2>2, LastsOn
<1> QED
  BY <1>2, <1>3, <1>4 DEF RequestsOK
-----------------------------------------------------------------------------
(* What the server says next.                                              *)

Answer == [sink : Sink, stream : Nat, need : 0 .. MaxChunk]

\* A frame that is no answer leaves what was promised to k as it was.
LEMMA AnsweredOn ==
  ASSUME NEW q, NEW k, NEW d \in Seq(ToPage), NEW f \in ToPage, f.t # "attached", NEW S, NEW s
  PROVE  /\ AnsweredOK(q, k, d, S, s) => AnsweredOK(q, k, Append(d, f), S, s)
         /\ Told(d) => Told(Append(d, f))
<1> DEFINE w == Append(d, f)
<1>1. Len(w) = Len(d) + 1 /\ Len(d) \in Nat /\ w[Len(d) + 1] = f /\ \A h \in 1 .. Len(d) : w[h] = d[h]
  BY FrameOn
<1> HIDE DEF w
<1>2. Told(d) => Told(w)
  BY <1>1 DEF Told
<1>3. ASSUME LastTold(d, s), NEW i \in 1 .. Len(w), w[i].t = "attached", \A j \in i + 1 .. Len(w) : w[j].t # "attached"
      PROVE  w[i].stream = s
  <2>1. i \in 1 .. Len(d) /\ w[i] = d[i]
    BY <1>1, <1>3
  <2>2. \A j \in i + 1 .. Len(d) : j \in i + 1 .. Len(w) /\ w[j] = d[j]
    BY <1>1, <2>1
  <2> QED
    BY <1>3, <2>1, <2>2 DEF LastTold
<1>4. LastTold(d, s) => LastTold(w, s)
  BY <1>3 DEF LastTold
<1> QED
  BY <1>2, <1>4 DEF AnsweredOK, w

LEMMA UnsizedOn ==
  ASSUME NEW d \in Seq(ToPage), NEW f \in ToPage
  PROVE  /\ \A i \in 0 .. Len(d) : Unsized(Append(d, f), i) <=> Unsized(d, i) /\ f.t # "size"
         /\ \A i \in 1 .. Len(d) : \A S, s : Knows(Append(d, f), i, S, s) <=> Knows(d, i, S, s)
<1> DEFINE w == Append(d, f)
<1>1. Len(w) = Len(d) + 1 /\ Len(d) \in Nat /\ w[Len(d) + 1] = f /\ \A h \in 1 .. Len(d) : w[h] = d[h]
  BY FrameOn
<1> HIDE DEF w
<1>2. ASSUME NEW i \in 0 .. Len(d) PROVE Unsized(w, i) <=> Unsized(d, i) /\ f.t # "size"
  <2>1. \A j \in i + 1 .. Len(d) : j \in i + 1 .. Len(w) /\ w[j] = d[j]
    BY <1>1
  <2>2. Len(d) + 1 \in i + 1 .. Len(w)
    BY <1>1
  <2>3. \A j \in i + 1 .. Len(w) : j \in i + 1 .. Len(d) \/ j = Len(d) + 1
    BY <1>1
  <2>4. Unsized(w, i) => Unsized(d, i) /\ f.t # "size"
    BY <1>1, <2>1, <2>2 DEF Unsized
  <2>5. Unsized(d, i) /\ f.t # "size" => Unsized(w, i)
    BY <1>1, <2>1, <2>3 DEF Unsized
  <2> QED
    BY <2>4, <2>5
<1>3. ASSUME NEW i \in 1 .. Len(d), NEW S, NEW s PROVE Knows(w, i, S, s) <=> Knows(d, i, S, s)
  <2>1. \A j \in 1 .. i - 1 : w[j] = d[j]
    BY <1>1
  <2> QED
    BY <2>1 DEF Knows
<1> QED
  BY <1>2, <1>3 DEF w

\* Output says nothing of a size, an answer says the size there is.
LEMMA SizedOn ==
  ASSUME NEW d \in Seq(ToPage), NEW f \in ToPage, NEW S, NEW s, NEW z, NEW y,
         SizedOK(d, S, s, z) \/ f.t = "size",
         y = z \/ f.t = "size", f.t # "out" => f.size = y
  PROVE  SizedOK(Append(d, f), S, s, y)
<1> DEFINE w == Append(d, f)
<1>1. Len(w) = Len(d) + 1 /\ Len(d) \in Nat /\ w[Len(d) + 1] = f /\ \A h \in 1 .. Len(d) : w[h] = d[h]
  BY FrameOn
<1>2. /\ \A i \in 0 .. Len(d) : Unsized(w, i) <=> Unsized(d, i) /\ f.t # "size"
      /\ \A i \in 1 .. Len(d) : Knows(w, i, S, s) <=> Knows(d, i, S, s)
  BY UnsizedOn
<1> HIDE DEF w
<1> SUFFICES ASSUME NEW i \in 1 .. Len(w), Unsized(w, i)
             PROVE  /\ w[i].t = "attached" /\ w[i].stream = s => w[i].size = y
                    /\ w[i].t = "size" /\ Knows(w, i, S, s) => w[i].size = y
  BY DEF SizedOK, w
<1>3. CASE i \in 1 .. Len(d)
  <2>1. Unsized(d, i) /\ f.t # "size" /\ (Knows(w, i, S, s) <=> Knows(d, i, S, s)) /\ w[i] = d[i]
    BY <1>1, <1>2, <1>3
  <2> QED
    BY <1>3, <2>1 DEF SizedOK
<1>4. CASE i = Len(d) + 1
  BY <1>1, <1>4
<1> QED
  BY <1>1, <1>3, <1>4

\* A size that is new is said to everybody who is attached.
LEMMA SizeComes ==
  ASSUME NEW k, NEW a \in Att, NEW q, NEW d \in Seq(ToPage), NEW u, NEW S, NEW V, NEW P, NEW z, NEW y, NEW g,
         NEW f \in ToPage, f.t = "size", f.size = y,
         PromisedOK(k, a, q, d, u, S, V, P, z)
  PROVE  /\ PromisedOK(k, a, q, Append(d, f), u, S, V, P, y)
         /\ FitsOK(a, Append(d, f), u, S, V, P, y, g)
<1>1. a.stream # 0 => AnsweredOK(q, k, Append(d, f), S, a.stream) /\ SizedOK(Append(d, f), S, a.stream, y)
  BY AnsweredOn, SizedOn DEF PromisedOK
<1>2. Told(d) => Told(Append(d, f))
  BY AnsweredOn
<1>3. ~Unsized(Append(d, f), 0)
  <2>1. 0 \in 0 .. Len(d)
    OBVIOUS
  <2> QED
    BY <2>1, UnsizedOn
<1> QED
  BY <1>1, <1>2, <1>3 DEF PromisedOK, FitsOK

LEMMA OutComes ==
  ASSUME NEW k, NEW a \in Att, NEW q, NEW d \in Seq(ToPage), NEW u, NEW S, NEW V, NEW P, NEW z, NEW g,
         NEW f \in ToPage, f.t = "out",
         PromisedOK(k, a, q, d, u, S, V, P, z), FitsOK(a, d, u, S, V, P, z, g)
  PROVE  /\ PromisedOK(k, a, q, Append(d, f), u, S, V, P, z)
         /\ FitsOK(a, Append(d, f), u, S, V, P, z, g)
<1>1. a.stream # 0 => AnsweredOK(q, k, Append(d, f), S, a.stream) /\ SizedOK(Append(d, f), S, a.stream, z)
  BY AnsweredOn, SizedOn DEF PromisedOK
<1>2. Told(d) => Told(Append(d, f))
  BY AnsweredOn
<1>3. Unsized(Append(d, f), 0) => Unsized(d, 0)
  <2>1. 0 \in 0 .. Len(d)
    OBVIOUS
  <2> QED
    BY <2>1, UnsizedOn
<1> QED
  BY <1>1, <1>2, <1>3 DEF PromisedOK, FitsOK

\* Who is not attached has no size to know.
LEMMA NotAttached ==
  ASSUME NEW k, NEW a, a.stream = 0, NEW q, NEW d, NEW u, NEW S, 0 \notin S, NEW V, NEW P, NEW z, NEW y, NEW g,
         PromisedOK(k, a, q, d, u, S, V, P, z)
  PROVE  PromisedOK(k, a, q, d, u, S, V, P, y) /\ FitsOK(a, d, u, S, V, P, y, g)
  BY DEF PromisedOK, FitsOK

\* The calls of attach() that wait are those of others,
LEMMA OthersAsk ==
  ASSUME NEW k, NEW q \in Seq(Answer), NEW x \in Answer, x.sink # k, NEW s, NEW d, NEW S
  PROVE  /\ LastOwed(q, k, s) => LastOwed(Append(q, x), k, s)
         /\ Owes(Append(q, x), k) <=> Owes(q, k)
<1> DEFINE w == Append(q, x)
<1>1. Len(w) = Len(q) + 1 /\ Len(q) \in Nat /\ w[Len(q) + 1] = x /\ \A h \in 1 .. Len(q) : w[h] = q[h]
  BY FrameOn
<1> HIDE DEF w
<1>2. ASSUME LastOwed(q, k, s), NEW i \in 1 .. Len(w), w[i].sink = k, \A j \in i + 1 .. Len(w) : w[j].sink # k
      PROVE  w[i].stream = s
  <2>1. i \in 1 .. Len(q) /\ w[i] = q[i]
    BY <1>1, <1>2
  <2>2. \A j \in i + 1 .. Len(q) : j \in i + 1 .. Len(w) /\ w[j] = q[j]
    BY <1>1, <2>1
  <2> QED
    BY <1>2, <2>1, <2>2 DEF LastOwed
<1>3. LastOwed(q, k, s) => LastOwed(w, k, s)
  BY <1>2 DEF LastOwed
<1>4. Owes(w, k) => Owes(q, k)
  <2>1. \A i \in 1 .. Len(w) : w[i].sink = k => i \in 1 .. Len(q) /\ q[i].sink = k
    BY <1>1
  <2> QED
    BY <2>1 DEF Owes
<1>5. Owes(q, k) => Owes(w, k)
  <2>1. \A i \in 1 .. Len(q) : i \in 1 .. Len(w) /\ w[i] = q[i]
    BY <1>1
  <2> QED
    BY <2>1 DEF Owes
<1> QED
  BY <1>3, <1>4, <1>5 DEF w

\* or the last of them is its own.
LEMMA ItAsks ==
  ASSUME NEW k, NEW q \in Seq(Answer), NEW x \in Answer, x.sink = k
  PROVE  LastOwed(Append(q, x), k, x.stream) /\ Owes(Append(q, x), k)
<1> DEFINE w == Append(q, x)
<1>1. Len(w) = Len(q) + 1 /\ Len(q) \in Nat /\ w[Len(q) + 1] = x
  BY FrameOn
<1> HIDE DEF w
<1>2. Len(w) \in 1 .. Len(w) /\ w[Len(w)] = x
  BY <1>1
<1>3. Owes(w, k)
  BY <1>2 DEF Owes
<1>4. ASSUME NEW i \in 1 .. Len(w), \A j \in i + 1 .. Len(w) : w[j].sink # k PROVE w[i].stream = x.stream
  <2>1. i = Len(w) \/ Len(w) \in i + 1 .. Len(w)
    BY <1>1
  <2> QED
    BY <1>2, <1>4, <2>1
<1> QED
  BY <1>3, <1>4 DEF LastOwed, w

\* The first of the calls gets its answer.
LEMMA OwedOff ==
  ASSUME NEW k, NEW q \in Seq(Answer), q # <<>>, NEW s
  PROVE  /\ LastOwed(q, k, s) => LastOwed(Tail(q), k, s)
         /\ Owes(Tail(q), k) => Owes(q, k)
         /\ Owes(q, k) => Owes(Tail(q), k) \/ q[1].sink = k
         /\ LastOwed(q, k, s) /\ q[1].sink = k /\ ~Owes(Tail(q), k) => q[1].stream = s
<1> DEFINE w == Tail(q)
<1>1. Len(w) = Len(q) - 1 /\ Len(q) \in Nat \ {0} /\ \A h \in 1 .. Len(q) - 1 : w[h] = q[h + 1]
  BY FrameOff
<1> HIDE DEF w
<1>2. ASSUME LastOwed(q, k, s), NEW i \in 1 .. Len(w), w[i].sink = k, \A j \in i + 1 .. Len(w) : w[j].sink # k
      PROVE  w[i].stream = s
  <2>1. i + 1 \in 1 .. Len(q) /\ w[i] = q[i + 1]
    BY <1>1
  <2>2. \A j \in (i + 1) + 1 .. Len(q) : j - 1 \in i + 1 .. Len(w) /\ w[j - 1] = q[j]
    BY <1>1
  <2>3. \A j \in (i + 1) + 1 .. Len(q) : q[j].sink # k
    BY <1>2, <2>2
  <2> QED
    BY <1>2, <2>1, <2>3 DEF LastOwed
<1>3. LastOwed(q, k, s) => LastOwed(w, k, s)
  BY <1>2 DEF LastOwed
<1>4. Owes(w, k) => Owes(q, k)
  <2>1. \A i \in 1 .. Len(w) : i + 1 \in 1 .. Len(q) /\ w[i] = q[i + 1]
    BY <1>1
  <2> QED
    BY <2>1 DEF Owes
<1>5. \A i \in 1 .. Len(q) : i = 1 \/ (i - 1 \in 1 .. Len(w) /\ w[i - 1] = q[i])
  BY <1>1
<1>6. Owes(q, k) => Owes(w, k) \/ q[1].sink = k
  BY <1>5 DEF Owes
<1>7. ASSUME LastOwed(q, k, s), q[1].sink = k, ~Owes(w, k) PROVE q[1].stream = s
  <2>1. 1 \in 1 .. Len(q) /\ \A j \in 1 + 1 .. Len(q) : j \in 1 .. Len(q) /\ j # 1
    BY <1>1
  <2>2. \A j \in 1 + 1 .. Len(q) : q[j].sink # k
    BY <1>5, <1>7, <2>1 DEF Owes
  <2> QED
    BY <1>7, <2>1, <2>2 DEF LastOwed
<1> QED
  BY <1>3, <1>4, <1>6, <1>7 DEF w

\* A page that is told is told last of its stream.
LEMMA ItIsTold ==
  ASSUME NEW d \in Seq(ToPage), NEW f \in ToPage, f.t = "attached"
  PROVE  LastTold(Append(d, f), f.stream) /\ Told(Append(d, f))
<1> DEFINE w == Append(d, f)
<1>1. Len(w) = Len(d) + 1 /\ Len(d) \in Nat /\ w[Len(d) + 1] = f
  BY FrameOn
<1> HIDE DEF w
<1>2. Len(w) \in 1 .. Len(w) /\ w[Len(w)] = f
  BY <1>1
<1>3. Told(w)
  BY <1>2 DEF Told
<1>4. ASSUME NEW i \in 1 .. Len(w), \A j \in i + 1 .. Len(w) : w[j].t # "attached" PROVE w[i].stream = f.stream
  <2>1. i = Len(w) \/ Len(w) \in i + 1 .. Len(w)
    BY <1>1
  <2> QED
    BY <1>2, <1>4, <2>1
<1> QED
  BY <1>3, <1>4 DEF LastTold, w

LEMMA ItIsAnswered ==
  ASSUME NEW k, NEW a \in Att, NEW q \in Seq(Answer), q # <<>>, q[1].sink = k,
         NEW d \in Seq(ToPage), NEW u, NEW S, NEW V, NEW P, NEW z, NEW g,
         NEW f \in ToPage, f.t = "attached", f.stream = q[1].stream, f.size = z,
         PromisedOK(k, a, q, d, u, S, V, P, z), FitsOK(a, d, u, S, V, P, z, g)
  PROVE  /\ PromisedOK(k, a, Tail(q), Append(d, f), u, S, V, P, z)
         /\ FitsOK(a, Append(d, f), u, S, V, P, z, g)
<1>1. a.stream # 0 => SizedOK(Append(d, f), S, a.stream, z)
  BY SizedOn DEF PromisedOK
<1>2. LastTold(Append(d, f), f.stream) /\ Told(Append(d, f))
  BY ItIsTold
<1>3. ASSUME a.stream # 0 PROVE AnsweredOK(Tail(q), k, Append(d, f), S, a.stream)
  <2>1. LastOwed(q, k, a.stream)
    BY <1>3 DEF PromisedOK, AnsweredOK
  <2>2. LastOwed(Tail(q), k, a.stream) /\ (~Owes(Tail(q), k) => q[1].stream = a.stream)
    BY <2>1, OwedOff
  <2> QED
    BY <1>2, <2>2 DEF AnsweredOK
<1>4. Unsized(Append(d, f), 0) => Unsized(d, 0)
  <2>1. 0 \in 0 .. Len(d)
    OBVIOUS
  <2> QED
    BY <2>1, UnsizedOn
<1> QED
  BY <1>1, <1>2, <1>3, <1>4 DEF PromisedOK, FitsOK

LEMMA OtherIsAnswered ==
  ASSUME NEW k, NEW a \in Att, NEW q \in Seq(Answer), q # <<>>, q[1].sink # k,
         NEW d, NEW u, NEW S, NEW V, NEW P, NEW z,
         PromisedOK(k, a, q, d, u, S, V, P, z)
  PROVE  PromisedOK(k, a, Tail(q), d, u, S, V, P, z)
<1>1. /\ Owes(Tail(q), k) <=> Owes(q, k)
      /\ LastOwed(q, k, a.stream) => LastOwed(Tail(q), k, a.stream)
  BY OwedOff
<1> QED
  BY <1>1 DEF PromisedOK, AnsweredOK

LEMMA OtherHasAsked ==
  ASSUME NEW k, NEW a \in Att, NEW q \in Seq(Answer), NEW x \in Answer, x.sink # k,
         NEW d, NEW u, NEW S, NEW V, NEW P, NEW z,
         PromisedOK(k, a, q, d, u, S, V, P, z)
  PROVE  PromisedOK(k, a, Append(q, x), d, u, S, V, P, z)
<1>1. /\ Owes(Append(q, x), k) <=> Owes(q, k)
      /\ LastOwed(q, k, a.stream) => LastOwed(Append(q, x), k, a.stream)
  BY OthersAsk
<1> QED
  BY <1>1 DEF PromisedOK, AnsweredOK
-----------------------------------------------------------------------------
(* The server handles the first request of a page.                         *)

LEMMA AskedOff ==
  ASSUME NEW u \in Seq(ToServer), u # <<>>
  PROVE  /\ u[1].t # "attach" /\ Asked(u) => Asked(Tail(u))
         /\ \A z : (\E i \in 1 .. Len(u) : u[i].t = "resize" /\ u[i].size = z) =>
              \/ u[1].t = "resize" /\ u[1].size = z
              \/ \E i \in 1 .. Len(Tail(u)) : Tail(u)[i].t = "resize" /\ Tail(u)[i].size = z
<1> DEFINE w == Tail(u)
<1>1. Len(w) = Len(u) - 1 /\ Len(u) \in Nat \ {0} /\ \A h \in 1 .. Len(u) - 1 : w[h] = u[h + 1]
  BY FrameOff
<1> HIDE DEF w
<1>2. \A i \in 1 .. Len(u) : i = 1 \/ (i - 1 \in 1 .. Len(w) /\ w[i - 1] = u[i])
  BY <1>1
<1>3. u[1].t # "attach" /\ Asked(u) => Asked(w)
  BY <1>2 DEF Asked
<1>4. ASSUME NEW z, \E i \in 1 .. Len(u) : u[i].t = "resize" /\ u[i].size = z
      PROVE  \/ u[1].t = "resize" /\ u[1].size = z
             \/ \E i \in 1 .. Len(w) : w[i].t = "resize" /\ w[i].size = z
  BY <1>2, <1>4
<1> QED
  BY <1>3, <1>4 DEF w

\* attach(): an answer will come, of the stream of the attachment.
LEMMA AttachHandled ==
  ASSUME NEW k, NEW a \in Att, NEW b \in Att, NEW q \in Seq(Answer), NEW d,
         NEW u \in Seq(ToServer), u # <<>>, NEW S, NEW V, NEW P, NEW z, NEW g, NEW x \in Answer,
         u[1].t = "attach", b.primary = u[1].primary, b.stream # 0, x.sink = k, x.stream = b.stream,
         \/ b.stream = a.stream
         \/ b.stream \notin S /\ \A i \in 1 .. Len(d) : d[i].t = "attached" => d[i].stream # b.stream,
         PromisedOK(k, a, q, d, u, S, V, P, z), FitsOK(a, d, u, S, V, P, z, g)
  PROVE  /\ PromisedOK(k, b, Append(q, x), d, Tail(u), S, V, P, z)
         /\ FitsOK(b, d, Tail(u), S, V, P, z, g)
<1>1. RequestsOK(Tail(u), b, V)
  BY RequestsOff DEF PromisedOK
<1>2. LastOwed(Append(q, x), k, b.stream) /\ Owes(Append(q, x), k)
  BY ItAsks
<1>3. SizedOK(d, S, b.stream, z)
  <2>1. CASE b.stream = a.stream
    BY <2>1 DEF PromisedOK
  <2>2. CASE b.stream # a.stream
    <3>1. \A i \in 1 .. Len(d) : d[i].t = "attached" => d[i].stream # b.stream
      BY <2>2
    <3>2. \A i \in 1 .. Len(d) : ~Knows(d, i, S, b.stream)
      <4> TAKE i \in 1 .. Len(d)
      <4>1. \A j \in 1 .. i - 1 : j \in 1 .. Len(d)
        OBVIOUS
      <4> QED
        BY <2>2, <3>1, <4>1 DEF Knows
    <3> QED
      BY <3>1, <3>2 DEF SizedOK
  <2> QED
    BY <2>1, <2>2
<1>4. FitsOK(b, d, Tail(u), S, V, P, z, g)
  BY AskedOff DEF FitsOK
<1> QED
  BY <1>1, <1>2, <1>3, <1>4 DEF PromisedOK, AnsweredOK

\* resize() and focus() keep the attachment.
LEMMA OtherHandled ==
  ASSUME NEW k, NEW a \in Att, NEW b \in Att, NEW q, NEW d,
         NEW u \in Seq(ToServer), u # <<>>, NEW S, NEW V, NEW P, NEW z,
         u[1].t \in {"resize", "focus"}, b.stream = a.stream, a.stream # 0 => b.primary = a.primary,
         PromisedOK(k, a, q, d, u, S, V, P, z)
  PROVE  PromisedOK(k, b, q, d, Tail(u), S, V, P, z)
<1>1. RequestsOK(Tail(u), b, V)
  BY RequestsOff DEF PromisedOK
<1>2. Asked(u) => Asked(Tail(u))
  BY AskedOff
<1> QED
  BY <1>1, <1>2 DEF PromisedOK

LEMMA OtherFits ==
  ASSUME NEW a \in Att, NEW b \in Att, NEW d, NEW u \in Seq(ToServer), u # <<>>, NEW S, NEW V, NEW P, NEW z, NEW g,
         b.stream = a.stream, u[1].t = "resize" => u[1].size = z,
         FitsOK(a, d, u, S, V, P, z, g)
  PROVE  FitsOK(b, d, Tail(u), S, V, P, z, g)
  BY AskedOff DEF FitsOK

LEMMA DetachHandled ==
  ASSUME NEW k, NEW a \in Att, NEW b \in Att, NEW q, NEW d,
         NEW u \in Seq(ToServer), u # <<>>, NEW S, 0 \notin S, NEW V, NEW P, NEW z, NEW g,
         u[1].t = "detach", b.stream = 0,
         PromisedOK(k, a, q, d, u, S, V, P, z)
  PROVE  /\ PromisedOK(k, b, q, d, Tail(u), S, V, P, z)
         /\ FitsOK(b, d, Tail(u), S, V, P, z, g)
<1>1. RequestsOK(Tail(u), b, V)
  BY RequestsOff DEF PromisedOK
<1>2. Asked(u) => Asked(Tail(u))
  BY AskedOff
<1> QED
  BY <1>1, <1>2 DEF PromisedOK, FitsOK

\* A resize is handled by the server for a page that sizes.
LEMMA ResizeSizes ==
  ASSUME NEW u \in Seq(ToServer), u # <<>>, NEW a \in Att, NEW V, RequestsOK(u, a, V), u[1].t = "resize"
  PROVE  a.stream # 0 /\ a.primary
<1>1. 1 \in 1 .. Len(u) /\ \A i \in 1 .. 1 - 1 : FALSE
  <2>1. Len(u) \in Nat \ {0}
    BY FrameOff
  <2> QED
    BY <2>1
<1>2. Lasts(u, 1 - 1, Sizing(a), Sizings, Attaches \cup Detaches)
  BY <1>1 DEF RequestsOK
<1> QED
  BY <1>1, <1>2 DEF Lasts, Sizing

-----------------------------------------------------------------------------
(* A page receives the first frame.                                        *)

LEMMA ToldOff ==
  ASSUME NEW d \in Seq(ToPage), d # <<>>, NEW s
  PROVE  /\ d[1].t # "attached" => (Told(Tail(d)) <=> Told(d))
         /\ LastTold(d, s) => LastTold(Tail(d), s)
         /\ LastTold(d, s) /\ d[1].t = "attached" /\ ~Told(Tail(d)) => d[1].stream = s
<1> DEFINE w == Tail(d)
<1>1. Len(w) = Len(d) - 1 /\ Len(d) \in Nat \ {0} /\ \A h \in 1 .. Len(d) - 1 : w[h] = d[h + 1]
  BY FrameOff
<1> HIDE DEF w
<1>2. \A i \in 1 .. Len(d) : i = 1 \/ (i - 1 \in 1 .. Len(w) /\ w[i - 1] = d[i])
  BY <1>1
<1>3. \A i \in 1 .. Len(w) : i + 1 \in 1 .. Len(d) /\ w[i] = d[i + 1]
  BY <1>1
<1>4. d[1].t # "attached" => (Told(w) <=> Told(d))
  BY <1>2, <1>3 DEF Told
<1>5. ASSUME LastTold(d, s), NEW i \in 1 .. Len(w), w[i].t = "attached", \A j \in i + 1 .. Len(w) : w[j].t # "attached"
      PROVE  w[i].stream = s
  <2>1. i + 1 \in 1 .. Len(d) /\ w[i] = d[i + 1]
    BY <1>1
  <2>2. \A j \in (i + 1) + 1 .. Len(d) : j - 1 \in i + 1 .. Len(w) /\ w[j - 1] = d[j]
    BY <1>1
  <2>3. \A j \in (i + 1) + 1 .. Len(d) : d[j].t # "attached"
    BY <1>5, <2>2
  <2> QED
    BY <1>5, <2>1, <2>3 DEF LastTold
<1>6. LastTold(d, s) => LastTold(w, s)
  BY <1>5 DEF LastTold
<1>7. ASSUME LastTold(d, s), d[1].t = "attached", ~Told(w) PROVE d[1].stream = s
  <2>1. 1 \in 1 .. Len(d) /\ \A j \in 1 + 1 .. Len(d) : j \in 1 .. Len(d) /\ j # 1
    BY <1>1
  <2>2. \A j \in 1 + 1 .. Len(d) : d[j].t # "attached"
    BY <1>2, <1>7, <2>1 DEF Told
  <2> QED
    BY <1>7, <2>1, <2>2 DEF LastTold
<1> QED
  BY <1>4, <1>6, <1>7 DEF w

LEMMA UnsizedOff ==
  ASSUME NEW d \in Seq(ToPage), d # <<>>
  PROVE  /\ \A i \in Nat : Unsized(Tail(d), i) => Unsized(d, i + 1)
         /\ Unsized(Tail(d), 0) /\ d[1].t # "size" => Unsized(d, 0)
<1> DEFINE w == Tail(d)
<1>1. Len(w) = Len(d) - 1 /\ Len(d) \in Nat \ {0} /\ \A h \in 1 .. Len(d) - 1 : w[h] = d[h + 1]
  BY FrameOff
<1> HIDE DEF w
<1>2. ASSUME NEW i \in Nat, Unsized(w, i) PROVE Unsized(d, i + 1)
  <2>1. \A j \in (i + 1) + 1 .. Len(d) : j - 1 \in i + 1 .. Len(w) /\ w[j - 1] = d[j]
    BY <1>1
  <2> QED
    BY <1>2, <2>1 DEF Unsized
<1>3. ASSUME Unsized(w, 0), d[1].t # "size" PROVE Unsized(d, 0)
  <2>1. \A j \in 0 + 1 .. Len(d) : j = 1 \/ (j - 1 \in 0 + 1 .. Len(w) /\ w[j - 1] = d[j])
    BY <1>1
  <2> QED
    BY <1>3, <2>1 DEF Unsized
<1> QED
  BY <1>2, <1>3 DEF w

LEMMA SizedOff ==
  ASSUME NEW d \in Seq(ToPage), d # <<>>, NEW S, NEW W, NEW s, NEW z,
         s \in W => s \in S \/ (d[1].t = "attached" /\ d[1].stream = s),
         SizedOK(d, S, s, z)
  PROVE  SizedOK(Tail(d), W, s, z)
<1> DEFINE w == Tail(d)
<1>1. Len(w) = Len(d) - 1 /\ Len(d) \in Nat \ {0} /\ \A h \in 1 .. Len(d) - 1 : w[h] = d[h + 1]
  BY FrameOff
<1>2. \A i \in Nat : Unsized(w, i) => Unsized(d, i + 1)
  BY UnsizedOff
<1> HIDE DEF w
<1> SUFFICES ASSUME NEW i \in 1 .. Len(w), Unsized(w, i)
             PROVE  /\ w[i].t = "attached" /\ w[i].stream = s => w[i].size = z
                    /\ w[i].t = "size" /\ Knows(w, i, W, s) => w[i].size = z
  BY DEF SizedOK, w
<1>3. i + 1 \in 1 .. Len(d) /\ w[i] = d[i + 1] /\ Unsized(d, i + 1)
  BY <1>1, <1>2
<1>4. Knows(w, i, W, s) => Knows(d, i + 1, S, s)
  <2>1. 1 \in 1 .. (i + 1) - 1
    OBVIOUS
  <2>2. \A j \in 1 .. i - 1 : j + 1 \in 1 .. (i + 1) - 1 /\ w[j] = d[j + 1]
    BY <1>1
  <2> QED
    BY <2>1, <2>2 DEF Knows
<1> QED
  BY <1>3, <1>4 DEF SizedOK

\* 'attached': the views W are painted at the size it says.
LEMMA ItPaints ==
  ASSUME NEW k, NEW a \in Att, NEW q, NEW d \in Seq(ToPage), d # <<>>, NEW u, NEW S, NEW V, NEW P, NEW z, NEW g, NEW h,
         NEW Q, d[1].t = "attached", d[1].stream # 0, V \cap P # {} => S # {}, V \subseteq Q,
         \A v \in V : h[v] = d[1].size \/ (h[v] = g[v] /\ v \in P /\ S \ {d[1].stream} = {}),
         PromisedOK(k, a, q, d, u, S, V, P, z), FitsOK(a, d, u, S, V, P, z, g)
  PROVE  /\ PromisedOK(k, a, q, Tail(d), u, {d[1].stream}, V, Q, z)
         /\ FitsOK(a, Tail(d), u, {d[1].stream}, V, Q, z, h)
<1> DEFINE s == a.stream
<1>1. s # 0 => SizedOK(Tail(d), {d[1].stream}, s, z)
  BY SizedOff DEF PromisedOK
<1>2. s # 0 => AnsweredOK(q, k, Tail(d), {d[1].stream}, s)
  BY ToldOff DEF PromisedOK, AnsweredOK
<1>3. PromisedOK(k, a, q, Tail(d), u, {d[1].stream}, V, Q, z)
  BY <1>1, <1>2 DEF PromisedOK
<1>4. ASSUME s = d[1].stream, Unsized(Tail(d), 0), NEW v \in V
      PROVE  h[v] = z \/ \E i \in 1 .. Len(u) : u[i].t = "resize" /\ u[i].size = h[v]
  <2>1. 1 \in 1 .. Len(d) /\ 0 \in Nat /\ 0 + 1 = 1
    BY FrameOff
  <2>2. Unsized(d, 1) /\ Unsized(d, 0)
    BY <1>4, <2>1, UnsizedOff
  <2>3. d[1].size = z
    BY <1>4, <2>1, <2>2 DEF PromisedOK, SizedOK
  <2>4. CASE h[v] = g[v] /\ v \in P /\ S \ {d[1].stream} = {}
    <3>1. s \in S /\ v \in V \cap P
      BY <1>4, <2>4
    <3> QED
      BY <2>2, <2>4, <3>1 DEF FitsOK
  <2> QED
    BY <2>3, <2>4
<1> QED
  BY <1>3, <1>4 DEF FitsOK

\* 'size': they have the size it says.
LEMMA ItFits ==
  ASSUME NEW k, NEW a \in Att, NEW q, NEW d \in Seq(ToPage), d # <<>>, NEW u, NEW S, 0 \notin S, NEW V, NEW P, NEW z, NEW g, NEW h,
         d[1].t = "size", \A v \in V : h[v] = d[1].size,
         PromisedOK(k, a, q, d, u, S, V, P, z), FitsOK(a, d, u, S, V, P, z, g)
  PROVE  /\ PromisedOK(k, a, q, Tail(d), u, S, V, P, z)
         /\ FitsOK(a, Tail(d), u, S, V, P, z, h)
<1> DEFINE s == a.stream
<1>1. s # 0 => SizedOK(Tail(d), S, s, z)
  BY SizedOff DEF PromisedOK
<1>2. (Told(Tail(d)) <=> Told(d)) /\ (LastTold(d, s) => LastTold(Tail(d), s))
  BY ToldOff
<1>3. PromisedOK(k, a, q, Tail(d), u, S, V, P, z)
  BY <1>1, <1>2 DEF PromisedOK, AnsweredOK
<1>4. ASSUME s \in S, Unsized(Tail(d), 0) PROVE d[1].size = z
  <2>1. 1 \in 1 .. Len(d) /\ 0 \in Nat /\ 0 + 1 = 1
    BY FrameOff
  <2>2. Unsized(d, 1) /\ Knows(d, 1, S, s) /\ s # 0
    BY <1>4, <2>1, UnsizedOff DEF Knows
  <2> QED
    BY <2>1, <2>2 DEF PromisedOK, SizedOK
<1> QED
  BY <1>3, <1>4 DEF FitsOK

\* Output leaves them as they are.
LEMMA ItWrites ==
  ASSUME NEW k, NEW a \in Att, NEW q, NEW d \in Seq(ToPage), d # <<>>, NEW u, NEW S, NEW V, NEW P, NEW z, NEW g,
         d[1].t = "out",
         PromisedOK(k, a, q, d, u, S, V, P, z), FitsOK(a, d, u, S, V, P, z, g)
  PROVE  /\ PromisedOK(k, a, q, Tail(d), u, S, V, P, z)
         /\ FitsOK(a, Tail(d), u, S, V, P, z, g)
<1> DEFINE s == a.stream
<1>1. s # 0 => SizedOK(Tail(d), S, s, z)
  BY SizedOff DEF PromisedOK
<1>2. (Told(Tail(d)) <=> Told(d)) /\ (LastTold(d, s) => LastTold(Tail(d), s))
  BY ToldOff
<1>3. PromisedOK(k, a, q, Tail(d), u, S, V, P, z)
  BY <1>1, <1>2 DEF PromisedOK, AnsweredOK
<1>4. Unsized(Tail(d), 0) => Unsized(d, 0)
  BY UnsizedOff
<1> QED
  BY <1>3, <1>4 DEF FitsOK

-----------------------------------------------------------------------------
(* A page asks something.                                                  *)

LEMMA ItAsksFor ==
  ASSUME NEW k, NEW a \in Att, NEW q, NEW d, NEW u \in Seq(ToServer), NEW m \in ToServer, NEW S, NEW V, NEW W, NEW P, NEW Q,
         NEW z, NEW g, NEW h,
         \/ m.t = "focus" /\ W = V
         \/ m.t = "resize" /\ W = V /\ V \cap Primary # {}
         \/ m.t = "attach" /\ (W \cap Primary # {} => m.primary)
         \/ m.t = "detach" /\ W = {},
         m.t = "attach" \/ W \ Q \subseteq V \ P,
         \A v \in W \cap Q : (v \in V \cap P /\ h[v] = g[v]) \/ (m.t = "resize" /\ m.size = h[v]),
         PromisedOK(k, a, q, d, u, S, V, P, z), FitsOK(a, d, u, S, V, P, z, g)
  PROVE  /\ PromisedOK(k, a, q, d, Append(u, m), S, W, Q, z)
         /\ FitsOK(a, d, Append(u, m), S, W, Q, z, h)
<1> DEFINE w == Append(u, m)
<1>1. Len(w) = Len(u) + 1 /\ Len(u) \in Nat /\ w[Len(u) + 1] = m /\ \A i \in 1 .. Len(u) : w[i] = u[i]
  BY FrameOn
<1>2. RequestsOK(w, a, W)
  BY RequestsOn DEF PromisedOK
<1> HIDE DEF w
<1>3. Len(w) \in 1 .. Len(w) /\ w[Len(w)] = m /\ \A i \in 1 .. Len(u) : i \in 1 .. Len(w) /\ w[i] = u[i]
  BY <1>1
<1>4. (Asked(u) => Asked(w)) /\ (m.t = "attach" => Asked(w))
  BY <1>3 DEF Asked
<1>5. V \subseteq P /\ m.t # "attach" => W \subseteq Q
  OBVIOUS
<1>6. PromisedOK(k, a, q, d, w, S, W, Q, z)
  BY <1>2, <1>4, <1>5 DEF PromisedOK
<1>7. FitsOK(a, d, w, S, W, Q, z, h)
  <2> SUFFICES ASSUME a.stream \in S, Unsized(d, 0), NEW v \in W \cap Q
               PROVE  h[v] = z \/ \E i \in 1 .. Len(w) : w[i].t = "resize" /\ w[i].size = h[v]
    BY DEF FitsOK
  <2>1. CASE v \in V \cap P /\ h[v] = g[v]
    <3>1. g[v] = z \/ \E i \in 1 .. Len(u) : u[i].t = "resize" /\ u[i].size = g[v]
      BY <2>1 DEF FitsOK
    <3> QED
      BY <1>3, <2>1, <3>1
  <2>2. CASE m.t = "resize" /\ m.size = h[v]
    BY <1>3, <2>2
  <2> QED
    BY <2>1, <2>2
<1> QED
  BY <1>6, <1>7 DEF w
-----------------------------------------------------------------------------
(* The steps of the server.                                                *)

LEMMA StepTyped ==
  ASSUME IInv, GapOK, NEW p \in Page, NEW k \in Sink, sock[p] = k, Open(k)
  PROVE  /\ live \in LiveType /\ live.att[k] \in Att /\ live.att[k].stream \in Nat /\ live.att[k].stream < nextStream
         /\ answering \in Seq(Answer) /\ down[k] \in Seq(ToPage) /\ up[k] \in Seq(ToServer)
         /\ 0 \notin streams[p] /\ nextStream \notin streams[p]
         /\ nextStream \in Nat \ {0} /\ Reads(k)
         /\ \A i \in 1 .. Len(down[k]) : down[k][i].t = "attached" =>
              down[k][i].stream # nextStream /\ down[k][i].stream # 0
<1>1. /\ live \in LiveType /\ live.att[k].stream \in Nat /\ live.att[k].stream < nextStream
      /\ answering \in Seq(Answer) /\ down[k] \in Seq(ToPage) /\ up[k] \in Seq(ToServer) /\ nextStream \in Nat \ {0}
  BY LiveTyped DEF IInv, TypeOK, InOrder, Answer
<1>2. live.att[k] \in Att
  BY <1>1 DEF LiveType
<1>3. streams[p] \subseteq 1 .. nextStream - 1 /\ FlowOK(short, down[k], nextStream, Now(k), flushed)
  BY DEF GapOK
<1>4. Reads(k)
  BY DEF Reads, Read
<1>5. 0 \notin streams[p] /\ nextStream \notin streams[p]
  BY <1>1, <1>3
<1>6. ASSUME NEW i \in 1 .. Len(down[k]), down[k][i].t = "attached"
      PROVE  down[k][i].stream # nextStream /\ down[k][i].stream # 0
  <2>1. down[k][i].stream \in 1 .. nextStream - 1
    BY <1>3, <1>6 DEF FlowOK, Tagged
  <2> QED
    BY <1>1, <2>1
<1> QED
  BY <1>1, <1>2, <1>4, <1>5, <1>6

\* A step of the server leaves the pages as they are.
LEMMA ServerStep ==
  ASSUME StepOK, UNCHANGED <<sock, streams, mounted, painted, at>>,
         \A k \in Sink : (wire'[k] = "new" => wire[k] = "new") /\ (wire'[k] = "open" => wire[k] = "open"),
         \A k \in Sink : wire[k] = "new" =>
           live'.att[k].stream = 0 /\ up'[k] = up[k] /\ (Owes(answering', k) => Owes(answering, k)),
         \A p \in Page, k \in Sink : sock[p] = k /\ Open(k) /\ wire'[k] = "open" =>
           /\ PromisedOK(k, live'.att[k], answering', down'[k], up'[k], streams[p], Views(p), painted, live'.size)
           /\ FitsOK(live'.att[k], down'[k], up'[k], streams[p], Views(p), painted, live'.size, at)
  PROVE  StepOK'
<1>1. \A k \in Sink : wire'[k] = "new" => live'.att[k].stream = 0 /\ up'[k] = <<>> /\ ~Owes(answering', k)
  BY DEF StepOK
<1>2. ASSUME NEW p \in Page, NEW k \in Sink, sock'[p] = k, Open(k)'
      PROVE  LinkOK(p, k)'
  <2>1. sock[p] = k /\ Open(k) /\ wire'[k] = "open"
    BY <1>2 DEF Open
  <2>2. Views(p)' = Views(p)
    BY DEF Views
  <2>3. /\ PromisedOK(k, live'.att[k], answering', down'[k], up'[k], streams[p], Views(p), painted, live'.size)
        /\ FitsOK(live'.att[k], down'[k], up'[k], streams[p], Views(p), painted, live'.size, at)
    BY <2>1
  <2> QED
    BY <2>2, <2>3 DEF LinkOK
<1> QED
  BY <1>1, <1>2 DEF StepOK

\* The session becomes l, and whoever is attached is told of a new size.
LEMMA BecomesLink ==
  ASSUME TypeOK, NEW l \in LiveType, Becomes(l), NEW k \in Sink, Reads(k),
         NEW q, NEW u, NEW S, 0 \notin S, NEW V, NEW P, NEW g,
         PromisedOK(k, l.att[k], q, down[k], u, S, V, P, live.size),
         l.size = live.size => FitsOK(l.att[k], down[k], u, S, V, P, live.size, g)
  PROVE  /\ PromisedOK(k, live'.att[k], q, down'[k], u, S, V, P, live'.size)
         /\ FitsOK(live'.att[k], down'[k], u, S, V, P, live'.size, g)
<1> DEFINE f == [t |-> "size", size |-> l.size]
           a == l.att[k]
<1>1. /\ live' = l
      /\ IF l.size # live.size /\ k \in Attached(l) /\ Reads(k) THEN down'[k] = Append(down[k], f) ELSE down'[k] = down[k]
      /\ f \in ToPage
  BY BecomesFrame
<1>2. f.t = "size" /\ f.size = l.size /\ a \in Att /\ down[k] \in Seq(ToPage)
  BY DEF LiveType, TypeOK
<1>3. CASE l.size = live.size
  BY <1>1, <1>3
<1>4. CASE l.size # live.size /\ a.stream = 0
  <2>1. down'[k] = down[k]
    BY <1>1, <1>4 DEF Attached
  <2>2. PromisedOK(k, a, q, down[k], u, S, V, P, l.size) /\ FitsOK(a, down[k], u, S, V, P, l.size, g)
    BY <1>4, NotAttached
  <2> QED
    BY <1>1, <2>1, <2>2
<1>5. CASE l.size # live.size /\ a.stream # 0
  <2>1. down'[k] = Append(down[k], f)
    BY <1>1, <1>5 DEF Attached
  <2> HIDE DEF f, a
  <2>2. PromisedOK(k, a, q, Append(down[k], f), u, S, V, P, l.size) /\ FitsOK(a, Append(down[k], f), u, S, V, P, l.size, g)
    BY <1>1, <1>2, SizeComes DEF a
  <2> QED
    BY <1>1, <2>1, <2>2 DEF a
<1> QED
  BY <1>3, <1>4, <1>5

\* A request of sink j is handled, and leaves every link as it should be.
LEMMA HandlesStep ==
  ASSUME IInv, GapOK, StepOK, NEW j \in Sink, Handles(j)
  PROVE  StepOK'
<1> DEFINE m == Head(up[j])
<1>1. /\ UNCHANGED <<wire, sock, streams, mounted, painted, at>>
      /\ up[j] # <<>> /\ wire[j] # "new" /\ up' = [up EXCEPT ![j] = Tail(@)]
      /\ \/ m.t = "attach" /\ HandlesAttach(j, m)
         \/ m.t = "resize" /\ HandlesResize(j, m)
         \/ m.t = "focus" /\ HandlesFocus(j)
         \/ m.t = "detach" /\ HandlesDetach(j)
  BY DEF Handles, viewVars
<1>2. TypeOK /\ live \in LiveType /\ (\A k \in Sink : live.att[k].stream \in Nat) /\ nextStream \in Nat \ {0}
      /\ answering \in Seq(Answer) /\ produced \in 0 .. MaxChunk /\ up \in [Sink -> Seq(ToServer)]
  BY LiveTyped DEF IInv, TypeOK, Answer
<1>3. m = up[j][1] /\ m \in ToServer
  <2>1. up[j] \in Seq(ToServer)
    BY <1>2
  <2> QED
    BY <1>1, <2>1, FrameOff
<1> HIDE DEF m
<1>4. \A k \in Sink : up'[k] = IF k = j THEN Tail(up[j]) ELSE up[k]
  BY <1>1, <1>2
\* A connection nobody has opened is not spoken of.
<1>5. SUFFICES /\ \A k \in Sink : wire[k] = "new" => live'.att[k].stream = 0 /\ (Owes(answering', k) => Owes(answering, k))
               /\ \A p \in Page, k \in Sink : sock[p] = k /\ Open(k) =>
                    /\ PromisedOK(k, live'.att[k], answering', down'[k], up'[k], streams[p], Views(p), painted, live'.size)
                    /\ FitsOK(live'.att[k], down'[k], up'[k], streams[p], Views(p), painted, live'.size, at)
  <2>1. \A k \in Sink : wire[k] = "new" => up'[k] = up[k]
    BY <1>1, <1>4
  <2> QED
    BY <1>1, <2>1, ServerStep
<1>6. \A k \in Sink : wire[k] = "new" => k # j /\ live.att[k].stream = 0
  BY <1>1 DEF StepOK
<1>7. CASE m.t = "attach" /\ HandlesAttach(j, m)
  <2> DEFINE s == IF live.att[j].stream = 0 THEN nextStream ELSE live.att[j].stream
             x == [sink |-> j, stream |-> s, need |-> produced]
  <2>1. m \in [t : {"attach"}, size : Size, primary : BOOLEAN]
    BY <1>3, <1>7 DEF ToServer
  <2>2. PICK l \in LiveType :
          /\ Becomes(l)
          /\ \A k \in Sink : k # j => Spared(live, l, k)
          /\ \/ l.att[j] = [stream |-> s, primary |-> m.primary, size |-> m.size]
             \/ l.att[j].stream = 0 /\ ~Open(j)
          /\ answering' = Append(answering, x)
    BY <1>7, <2>1, AttachSpares
  <2>3. x \in Answer /\ x.sink = j /\ x.stream = s /\ s # 0 /\ live' = l
    BY <1>2, <2>2 DEF Answer, Becomes
  <2> HIDE DEF x, s
  <2>4. \A k \in Sink : wire[k] = "new" => live'.att[k].stream = 0 /\ (Owes(answering', k) => Owes(answering, k))
    <3> TAKE k \in Sink
    <3> HAVE wire[k] = "new"
    <3>1. live'.att[k].stream = 0
      BY <1>6, <2>2, <2>3 DEF Spared
    <3>2. Owes(Append(answering, x), k) <=> Owes(answering, k)
      BY <1>2, <1>6, <2>3, OthersAsk
    <3> QED
      BY <2>2, <3>1, <3>2
  <2>5. ASSUME NEW p \in Page, NEW k \in Sink, sock[p] = k, Open(k)
        PROVE  /\ PromisedOK(k, live'.att[k], answering', down'[k], up'[k], streams[p], Views(p), painted, live'.size)
               /\ FitsOK(live'.att[k], down'[k], up'[k], streams[p], Views(p), painted, live'.size, at)
    <3> DEFINE a == live.att[k]
               b == l.att[k]
               d == down[k]
               u == up[k]
               S == streams[p]
               V == Views(p)
               z == live.size
    <3>1. /\ a \in Att /\ answering \in Seq(Answer) /\ d \in Seq(ToPage) /\ u \in Seq(ToServer)
          /\ 0 \notin S /\ nextStream \notin S /\ Reads(k) /\ b \in Att
          /\ \A i \in 1 .. Len(d) : d[i].t = "attached" => d[i].stream # nextStream
      BY <2>5, StepTyped DEF LiveType
    <3>2. PromisedOK(k, a, answering, d, u, S, V, painted, z) /\ FitsOK(a, d, u, S, V, painted, z, at)
      BY <2>5 DEF StepOK, LinkOK
    <3>3. CASE k = j
      <4>1. b.stream = s /\ b.primary = m.primary
        BY <2>2, <2>5, <3>3
      <4>2. u # <<>> /\ u[1] = m /\ up'[k] = Tail(u)
        BY <1>1, <1>3, <1>4, <3>3
      <4>3. \/ b.stream = a.stream
            \/ b.stream \notin S /\ \A i \in 1 .. Len(d) : d[i].t = "attached" => d[i].stream # b.stream
        BY <3>1, <3>3, <4>1 DEF s
      <4> HIDE DEF a, b, d, u, S, V, z
      <4>4. /\ PromisedOK(k, b, Append(answering, x), d, Tail(u), S, V, painted, z)
            /\ FitsOK(b, d, Tail(u), S, V, painted, z, at)
        BY <1>7, <2>3, <3>1, <3>2, <3>3, <4>1, <4>2, <4>3, AttachHandled
      <4> QED
        BY <1>2, <2>2, <3>1, <4>2, <4>4, BecomesLink DEF b, d, z, S, V
    <3>4. CASE k # j
      <4>1. b = a /\ up'[k] = u
        BY <1>4, <2>2, <2>5, <3>4 DEF Spared
      <4> HIDE DEF a, b, d, u, S, V, z
      <4>2. PromisedOK(k, b, Append(answering, x), d, u, S, V, painted, z)
        BY <2>3, <3>1, <3>2, <3>4, <4>1, OtherHasAsked
      <4>3. FitsOK(b, d, u, S, V, painted, z, at)
        BY <3>2, <4>1
      <4> QED
        BY <1>2, <2>2, <3>1, <4>1, <4>2, <4>3, BecomesLink DEF b, d, z, S, V
    <3> QED
      BY <3>3, <3>4
  <2> QED
    BY <2>4, <2>5
<1>8. CASE m.t = "resize" /\ HandlesResize(j, m)
  <2>1. m \in [t : {"resize"}, size : Size]
    BY <1>3, <1>8 DEF ToServer
  <2>2. /\ UNCHANGED <<nextStream, answering>>
        /\ \/ UNCHANGED <<live, down>> /\ live.att[j].stream = 0
           \/ \E l \in LiveType :
                /\ Becomes(l)
                /\ \A k \in Sink : k # j => Spared(live, l, k)
                /\ \/ l.att[j].stream = live.att[j].stream /\ l.att[j].primary = live.att[j].primary
                   \/ l.att[j].stream = 0 /\ ~Open(j)
                /\ Open(j) /\ live.att[j].primary => l.size = m.size
    BY <1>8, <2>1, ResizeSpares
  \* The request of a page that is still there finds it attached, and sizing.
  <2>3. ASSUME NEW p \in Page, sock[p] = j, Open(j)
        PROVE  live.att[j].stream # 0 /\ live.att[j].primary
    <3>1. up[j] \in Seq(ToServer) /\ live.att[j] \in Att
      BY <2>3, StepTyped
    <3>2. RequestsOK(up[j], live.att[j], Views(p))
      BY <2>3 DEF StepOK, LinkOK, PromisedOK
    <3> QED
      BY <1>1, <1>3, <1>8, <3>1, <3>2, ResizeSizes
  <2>4. CASE UNCHANGED <<live, down>> /\ live.att[j].stream = 0
    <3>1. \A k \in Sink : wire[k] = "new" => live'.att[k].stream = 0 /\ (Owes(answering', k) => Owes(answering, k))
      BY <1>6, <2>2, <2>4
    <3>2. \A p \in Page, k \in Sink : sock[p] = k /\ Open(k) => k # j
      BY <2>3, <2>4
    <3> QED
      BY <1>4, <2>2, <2>4, <3>1, <3>2 DEF StepOK, LinkOK
  <2>5. CASE ~(UNCHANGED <<live, down>> /\ live.att[j].stream = 0)
    <3>1. PICK l \in LiveType :
            /\ Becomes(l)
            /\ \A k \in Sink : k # j => Spared(live, l, k)
            /\ \/ l.att[j].stream = live.att[j].stream /\ l.att[j].primary = live.att[j].primary
               \/ l.att[j].stream = 0 /\ ~Open(j)
            /\ Open(j) /\ live.att[j].primary => l.size = m.size
      BY <2>2, <2>5
    <3>2. live' = l
      BY <3>1 DEF Becomes
    <3>3. \A k \in Sink : wire[k] = "new" => live'.att[k].stream = 0 /\ (Owes(answering', k) => Owes(answering, k))
      BY <1>6, <2>2, <3>1, <3>2 DEF Spared
    <3>4. ASSUME NEW p \in Page, NEW k \in Sink, sock[p] = k, Open(k)
          PROVE  /\ PromisedOK(k, live'.att[k], answering', down'[k], up'[k], streams[p], Views(p), painted, live'.size)
                 /\ FitsOK(live'.att[k], down'[k], up'[k], streams[p], Views(p), painted, live'.size, at)
      <4> DEFINE a == live.att[k]
                 b == l.att[k]
                 d == down[k]
                 u == up[k]
                 S == streams[p]
                 V == Views(p)
                 z == live.size
      <4>1. /\ a \in Att /\ answering \in Seq(Answer) /\ d \in Seq(ToPage) /\ u \in Seq(ToServer)
            /\ 0 \notin S /\ Reads(k) /\ b \in Att
        BY <3>4, StepTyped DEF LiveType
      <4>2. PromisedOK(k, a, answering, d, u, S, V, painted, z) /\ FitsOK(a, d, u, S, V, painted, z, at)
        BY <3>4 DEF StepOK, LinkOK
      <4>3. CASE k = j
        <5>1. b.stream = a.stream /\ b.primary = a.primary /\ l.size = m.size
          BY <2>3, <3>1, <3>4, <4>3
        <5>2. u # <<>> /\ u[1] = m /\ up'[k] = Tail(u)
          BY <1>1, <1>3, <1>4, <4>3
        <5> HIDE DEF a, b, d, u, S, V, z
        <5>3. /\ PromisedOK(k, b, answering, d, Tail(u), S, V, painted, z)
              /\ l.size = z => FitsOK(b, d, Tail(u), S, V, painted, z, at)
          <6>1. PromisedOK(k, b, answering, d, Tail(u), S, V, painted, z)
            BY <1>8, <4>1, <4>2, <5>1, <5>2, OtherHandled
          <6>2. l.size = z => FitsOK(b, d, Tail(u), S, V, painted, z, at)
            BY <4>1, <4>2, <5>1, <5>2, OtherFits
          <6> QED
            BY <6>1, <6>2
        <5> QED
          BY <1>2, <2>2, <3>1, <4>1, <5>2, <5>3, BecomesLink DEF b, d, z, S, V
      <4>4. CASE k # j
        <5>1. b = a /\ up'[k] = u
          BY <1>4, <3>1, <3>4, <4>4 DEF Spared
        <5> HIDE DEF a, b, d, u, S, V, z
        <5>2. PromisedOK(k, b, answering, d, u, S, V, painted, z) /\ FitsOK(b, d, u, S, V, painted, z, at)
          BY <4>2, <5>1
        <5> QED
          BY <1>2, <2>2, <3>1, <4>1, <5>1, <5>2, BecomesLink DEF b, d, z, S, V
      <4> QED
        BY <4>3, <4>4
    <3> QED
      BY <3>3, <3>4
  <2> QED
    BY <2>4, <2>5
<1>9. CASE m.t = "focus" /\ HandlesFocus(j)
  <2>1. /\ UNCHANGED <<nextStream, answering>>
        /\ \/ UNCHANGED <<live, down>>
           \/ \E l \in LiveType : Becomes(l) /\ \A k \in Sink : Spared(live, l, k)
    BY <1>9, FocusSpares
  \* Every link, as if the session had stayed the same.
  <2>2. ASSUME NEW p \in Page, NEW k \in Sink, sock[p] = k, Open(k)
        PROVE  /\ PromisedOK(k, live.att[k], answering, down[k], up'[k], streams[p], Views(p), painted, live.size)
               /\ FitsOK(live.att[k], down[k], up'[k], streams[p], Views(p), painted, live.size, at)
    <3>1. /\ PromisedOK(k, live.att[k], answering, down[k], up[k], streams[p], Views(p), painted, live.size)
          /\ FitsOK(live.att[k], down[k], up[k], streams[p], Views(p), painted, live.size, at)
      BY <2>2 DEF StepOK, LinkOK
    <3>2. live.att[k] \in Att /\ up[k] \in Seq(ToServer)
      BY <2>2, StepTyped
    <3>3. CASE k = j
      <4>1. up[k] # <<>> /\ up[k][1].t = "focus" /\ up'[k] = Tail(up[k])
        BY <1>1, <1>3, <1>4, <1>9, <3>3
      <4> DEFINE a == live.att[k]
                 u == up[k]
                 S == streams[p]
                 V == Views(p)
      <4> HIDE DEF a, u, S, V
      <4>2. u[1].t \in {"resize", "focus"} /\ u[1].t # "resize"
        BY <4>1 DEF u
      <4>3. PromisedOK(k, a, answering, down[k], Tail(u), S, V, painted, live.size)
        BY <3>1, <3>2, <4>1, <4>2, OtherHandled DEF a, u, S, V
      <4>4. FitsOK(a, down[k], Tail(u), S, V, painted, live.size, at)
        BY <3>1, <3>2, <4>1, <4>2, OtherFits DEF a, u, S, V
      <4> QED
        BY <4>1, <4>3, <4>4 DEF a, u, S, V
    <3>4. CASE k # j
      BY <1>4, <3>1, <3>4
    <3> QED
      BY <3>3, <3>4
  <2>3. CASE UNCHANGED <<live, down>>
    BY <1>6, <2>1, <2>2, <2>3
  <2>4. CASE ~UNCHANGED <<live, down>>
    <3>1. PICK l \in LiveType : Becomes(l) /\ \A k \in Sink : Spared(live, l, k)
      BY <2>1, <2>4
    <3>2. live' = l
      BY <3>1 DEF Becomes
    <3>3. \A k \in Sink : wire[k] = "new" => live'.att[k].stream = 0 /\ (Owes(answering', k) => Owes(answering, k))
      BY <1>6, <2>1, <3>1, <3>2 DEF Spared
    <3>4. ASSUME NEW p \in Page, NEW k \in Sink, sock[p] = k, Open(k)
          PROVE  /\ PromisedOK(k, live'.att[k], answering', down'[k], up'[k], streams[p], Views(p), painted, live'.size)
                 /\ FitsOK(live'.att[k], down'[k], up'[k], streams[p], Views(p), painted, live'.size, at)
      <4>1. l.att[k] = live.att[k] /\ Reads(k) /\ 0 \notin streams[p]
        BY <3>1, <3>4, StepTyped DEF Spared
      <4>2. /\ PromisedOK(k, l.att[k], answering, down[k], up'[k], streams[p], Views(p), painted, live.size)
            /\ FitsOK(l.att[k], down[k], up'[k], streams[p], Views(p), painted, live.size, at)
        BY <2>2, <3>4, <4>1
      <4> QED
        BY <1>2, <2>1, <3>1, <4>1, <4>2, BecomesLink
    <3> QED
      BY <3>3, <3>4
  <2> QED
    BY <2>3, <2>4
<1>10. CASE m.t = "detach" /\ HandlesDetach(j)
  <2>1. live' = Dropped(live, j) /\ UNCHANGED <<down, answering>>
    BY <1>10 DEF HandlesDetach
  <2>2. live'.size = live.size /\ \A k \in Sink : live'.att[k] = IF k = j THEN NoAtt ELSE live.att[k]
    <3>1. live'.size = live.size /\ live'.att = [live.att EXCEPT ![j] = NoAtt]
      BY <1>2, <2>1, DroppedOK
    <3> QED
      BY <1>2, <3>1 DEF LiveType
  <2>3. NoAtt \in Att /\ NoAtt.stream = 0
    BY DEF NoAtt, Att
  <2>4. ASSUME NEW p \in Page, NEW k \in Sink, sock[p] = k, Open(k)
        PROVE  /\ PromisedOK(k, live'.att[k], answering', down'[k], up'[k], streams[p], Views(p), painted, live'.size)
               /\ FitsOK(live'.att[k], down'[k], up'[k], streams[p], Views(p), painted, live'.size, at)
    <3>1. /\ PromisedOK(k, live.att[k], answering, down[k], up[k], streams[p], Views(p), painted, live.size)
          /\ FitsOK(live.att[k], down[k], up[k], streams[p], Views(p), painted, live.size, at)
      BY <2>4 DEF StepOK, LinkOK
    <3>2. live.att[k] \in Att /\ up[k] \in Seq(ToServer) /\ 0 \notin streams[p]
      BY <2>4, StepTyped
    <3>3. CASE k = j
      <4>1. up[k] # <<>> /\ up[k][1].t = "detach" /\ up'[k] = Tail(up[k])
        BY <1>1, <1>3, <1>4, <1>10, <3>3
      <4>2. /\ PromisedOK(k, NoAtt, answering, down[k], Tail(up[k]), streams[p], Views(p), painted, live.size)
            /\ FitsOK(NoAtt, down[k], Tail(up[k]), streams[p], Views(p), painted, live.size, at)
        BY <2>3, <3>1, <3>2, <4>1, DetachHandled
      <4> QED
        BY <2>1, <2>2, <3>3, <4>1, <4>2
    <3>4. CASE k # j
      BY <1>4, <2>1, <2>2, <3>1, <3>4
    <3> QED
      BY <3>3, <3>4
  <2> QED
    BY <1>6, <2>1, <2>2, <2>4
<1> QED
  BY <1>1, <1>7, <1>8, <1>9, <1>10
LEMMA AnswersStep ==
  ASSUME IInv, GapOK, StepOK, Answers
  PROVE  StepOK'
<1> DEFINE c == Head(answering)
<1>1. /\ UNCHANGED <<live, nextStream, wire, up, sock, streams, mounted, painted, at>>
      /\ answering # <<>> /\ answering' = Tail(answering)
  BY DEF Answers, viewVars
<1>2. /\ answering \in Seq(Answer) /\ TypeOK /\ live \in LiveType /\ produced \in 0 .. MaxChunk
  <2>1. produced \in 0 .. MaxChunk /\ answering \in Seq(Answer)
    BY DEF IInv, TypeOK, Answer
  <2> QED
    BY <2>1, LiveTyped DEF IInv
<1>3. PICK n \in c.need .. produced : Sends([k \in Sink |-> IF k # c.sink THEN <<>>
            ELSE << [t |-> "attached", stream |-> c.stream, size |-> live.size, upto |-> n] >>])
  BY DEF Answers
<1> DEFINE f == [t |-> "attached", stream |-> c.stream, size |-> live.size, upto |-> n]
           msgs == [k \in Sink |-> IF k # c.sink THEN <<>> ELSE << f >>]
<1>4. c = answering[1] /\ c \in Answer
  BY <1>1, <1>2, FrameOff
<1> HIDE DEF c
<1>9. n \in 0 .. MaxChunk
  BY <1>2, <1>4, StreamAssumption DEF Answer
<1>5. f \in ToPage /\ f.t = "attached" /\ f.stream = c.stream /\ f.size = live.size
  BY <1>2, <1>4, <1>9 DEF ToPage, LiveType, Answer
<1>10. Sends(msgs)
  BY <1>3
<1> HIDE DEF f
<1>6. ASSUME NEW p \in Page, NEW k \in Sink, sock[p] = k, Open(k)
      PROVE  /\ PromisedOK(k, live'.att[k], answering', down'[k], up'[k], streams[p], Views(p), painted, live'.size)
             /\ FitsOK(live'.att[k], down'[k], up'[k], streams[p], Views(p), painted, live'.size, at)
  <2> DEFINE a == live.att[k]
             d == down[k]
             u == up[k]
             S == streams[p]
             V == Views(p)
             z == live.size
  <2>1. PromisedOK(k, a, answering, d, u, S, V, painted, z) /\ FitsOK(a, d, u, S, V, painted, z, at)
    BY <1>6 DEF StepOK, LinkOK
  <2>2. a \in Att /\ d \in Seq(ToPage) /\ Reads(k)
    BY <1>6, StepTyped
  <2>3. msgs \in [Sink -> Seq(ToPage)] /\ msgs[k] = IF k # c.sink THEN <<>> ELSE << f >>
    BY <1>5
  <2> HIDE DEF msgs
  <2>4. CASE k = c.sink
    <3>1. down'[k] = Append(d, f)
      BY <1>2, <1>5, <1>10, <2>2, <2>3, <2>4, SendsFrame
    <3>2. /\ PromisedOK(k, a, Tail(answering), Append(d, f), u, S, V, painted, z)
          /\ FitsOK(a, Append(d, f), u, S, V, painted, z, at)
      <4> HIDE DEF a, d, u, S, V, z
      <4>1. f.size = z
        BY <1>5 DEF z
      <4> QED
        BY <1>1, <1>2, <1>4, <1>5, <2>1, <2>2, <2>4, <4>1, ItIsAnswered
    <3> QED
      BY <1>1, <3>1, <3>2
  <2>5. CASE k # c.sink
    <3>1. down'[k] = d
      BY <1>2, <1>10, <2>3, <2>5, SendsFrame
    <3>2. PromisedOK(k, a, Tail(answering), d, u, S, V, painted, z)
      <4> HIDE DEF a, d, u, S, V, z
      <4> QED
        BY <1>1, <1>2, <1>4, <2>1, <2>2, <2>5, OtherIsAnswered
    <3> QED
      BY <1>1, <2>1, <3>1, <3>2
  <2> QED
    BY <2>4, <2>5
<1>7. \A k \in Sink : Owes(answering', k) => Owes(answering, k)
  BY <1>1, <1>2, OwedOff
<1>8. \A k \in Sink : wire[k] = "new" => live.att[k].stream = 0
  BY DEF StepOK
<1> QED
  BY <1>1, <1>6, <1>7, <1>8, ServerStep

LEMMA FlushesStep ==
  ASSUME IInv, GapOK, StepOK, Flushes
  PROVE  StepOK'
<1> DEFINE f(k) == [t |-> "out", stream |-> live.att[k].stream, after |-> flushed, upto |-> produced]
           msgs == [k \in Sink |-> IF k \notin Attached(live) THEN <<>> ELSE << f(k) >>]
<1>1. /\ UNCHANGED <<live, answering, wire, up, sock, streams, mounted, painted, at>>
      /\ Sends(msgs)
  BY DEF Flushes, viewVars
<1>2. /\ TypeOK /\ produced \in 0 .. MaxChunk /\ flushed \in 0 .. MaxChunk
      /\ \A k \in Sink : live.att[k].stream \in Nat
  <2>1. produced \in 0 .. MaxChunk /\ flushed \in 0 .. produced
    BY DEF IInv, TypeOK
  <2> QED
    BY <2>1, LiveTyped, StreamAssumption DEF IInv
<1>3. \A k \in Sink : f(k) \in ToPage
  BY <1>2 DEF ToPage
<1>4. ASSUME NEW p \in Page, NEW k \in Sink, sock[p] = k, Open(k)
      PROVE  /\ PromisedOK(k, live'.att[k], answering', down'[k], up'[k], streams[p], Views(p), painted, live'.size)
             /\ FitsOK(live'.att[k], down'[k], up'[k], streams[p], Views(p), painted, live'.size, at)
  <2> DEFINE a == live.att[k]
             d == down[k]
             u == up[k]
             S == streams[p]
             V == Views(p)
             z == live.size
             e == f(k)
  <2>1. PromisedOK(k, a, answering, d, u, S, V, painted, z) /\ FitsOK(a, d, u, S, V, painted, z, at)
    BY <1>4 DEF StepOK, LinkOK
  <2>2. a \in Att /\ d \in Seq(ToPage) /\ Reads(k)
    BY <1>4, StepTyped
  <2>3. msgs \in [Sink -> Seq(ToPage)] /\ msgs[k] = (IF k \notin Attached(live) THEN <<>> ELSE << e >>)
    BY <1>3
  <2>4. e \in ToPage /\ e.t = "out"
    BY <1>3
  <2> HIDE DEF msgs, e
  <2>5. down'[k] = d \/ down'[k] = Append(d, e)
    BY <1>1, <1>2, <2>2, <2>3, <2>4, SendsFrame
  <2>6. CASE down'[k] = d
    BY <1>1, <2>1, <2>6
  <2>7. CASE down'[k] = Append(d, e)
    <3>1. PromisedOK(k, a, answering, Append(d, e), u, S, V, painted, z) /\ FitsOK(a, Append(d, e), u, S, V, painted, z, at)
      <4> HIDE DEF a, d, u, S, V, z
      <4> QED
        BY <2>1, <2>2, <2>4, OutComes
    <3> QED
      BY <1>1, <2>7, <3>1
  <2> QED
    BY <2>5, <2>6, <2>7
<1>5. \A k \in Sink : wire[k] = "new" => live.att[k].stream = 0
  BY DEF StepOK
<1> QED
  BY <1>1, <1>4, <1>5, ServerStep

\* Nothing is said: output is written to the mirror, a connection ends.
LEMMA SilentStep ==
  ASSUME IInv, StepOK, UNCHANGED <<answering, down, sock, streams, mounted, painted, at>>,
         live'.size = live.size,
         \A k \in Sink : (wire'[k] = "new" => wire[k] = "new") /\ (wire'[k] = "open" => wire[k] = "open"),
         \A k \in Sink : wire[k] = "new" \/ wire'[k] = "open" => up'[k] = up[k] /\ live'.att[k] = live.att[k]
  PROVE  StepOK'
<1>1. \A k \in Sink : wire[k] = "new" => live.att[k].stream = 0
  BY DEF StepOK
<1>2. \A p \in Page, k \in Sink : sock[p] = k /\ Open(k) /\ wire'[k] = "open" =>
           /\ PromisedOK(k, live'.att[k], answering', down'[k], up'[k], streams[p], Views(p), painted, live'.size)
           /\ FitsOK(live'.att[k], down'[k], up'[k], streams[p], Views(p), painted, live'.size, at)
  BY DEF StepOK, LinkOK
<1> QED
  BY <1>1, <1>2, ServerStep

LEMMA ProducesStep ==
  ASSUME IInv, StepOK, Produces
  PROVE  StepOK'
  BY SilentStep DEF Produces, viewVars

LEMMA NoticesStep ==
  ASSUME IInv, StepOK, NEW j \in Sink, Notices(j)
  PROVE  StepOK'
<1>1. /\ UNCHANGED <<live, answering, up, down, sock, streams, mounted, painted, at>>
      /\ wire' = [wire EXCEPT ![j] = "closing"]
  BY DEF Notices, serverVars, viewVars
<1>2. \A k \in Sink : (wire'[k] = "new" => wire[k] = "new") /\ (wire'[k] = "open" => wire[k] = "open")
  BY <1>1 DEF IInv, TypeOK
<1> QED
  BY <1>1, <1>2, SilentStep

LEMMA ClosesStep ==
  ASSUME IInv, StepOK, NEW j \in Sink, Closes(j)
  PROVE  StepOK'
<1>1. /\ UNCHANGED <<answering, down, sock, streams, mounted, painted, at>>
      /\ wire[j] = "closing" /\ wire' = [wire EXCEPT ![j] = "closed"]
      /\ up' = [up EXCEPT ![j] = <<>>] /\ live' = Dropped(live, j)
  BY DEF Closes, viewVars
<1>2. /\ live \in LiveType /\ wire \in [Sink -> {"new", "open", "closing", "closed"}]
      /\ up \in [Sink -> Seq(ToServer)]
  BY LiveTyped DEF IInv, TypeOK
<1>3. live'.size = live.size /\ \A k \in Sink : k # j => live'.att[k] = live.att[k]
  <2>1. live'.size = live.size /\ live'.att = [live.att EXCEPT ![j] = NoAtt]
    BY <1>1, <1>2, DroppedOK
  <2> QED
    BY <1>2, <2>1 DEF LiveType
<1>4. /\ \A k \in Sink : (wire'[k] = "new" => wire[k] = "new") /\ (wire'[k] = "open" => wire[k] = "open")
      /\ \A k \in Sink : wire[k] = "new" \/ wire'[k] = "open" => k # j
  BY <1>1, <1>2
<1>5. \A k \in Sink : wire[k] = "new" \/ wire'[k] = "open" => up'[k] = up[k] /\ live'.att[k] = live.att[k]
  BY <1>1, <1>2, <1>3, <1>4
<1> QED
  BY <1>1, <1>3, <1>4, <1>5, SilentStep

-----------------------------------------------------------------------------
(* The steps of the pages.                                                 *)

\* What matters of the painted views, and of their geometries, is that of the page.
LEMMA SamePromised ==
  ASSUME NEW k, NEW a, NEW q, NEW d, NEW u, NEW S, NEW V, NEW P, NEW Q, NEW z,
         V \cap P = V \cap Q, PromisedOK(k, a, q, d, u, S, V, P, z)
  PROVE  PromisedOK(k, a, q, d, u, S, V, Q, z)
<1>1. V \subseteq P => V \subseteq Q
  OBVIOUS
<1> QED
  BY <1>1 DEF PromisedOK

LEMMA SameFits ==
  ASSUME NEW a, NEW d, NEW u, NEW S, NEW V, NEW P, NEW Q, NEW z, NEW g, NEW h,
         V \cap P = V \cap Q, \A v \in V : h[v] = g[v], FitsOK(a, d, u, S, V, P, z, g)
  PROVE  FitsOK(a, d, u, S, V, Q, z, h)
  BY DEF FitsOK

\* A step of page p is its own.
LEMMA PageStep ==
  ASSUME IInv, GapOK, StepOK, NEW p \in Page, UNCHANGED <<live, answering>>,
         \A q \in Page : q # p =>
           /\ sock'[q] = sock[q] /\ streams'[q] = streams[q] /\ Views(q)' = Views(q)
           /\ Views(q) \cap painted' = Views(q) \cap painted /\ \A v \in Views(q) : at'[v] = at[v],
         \A k \in Sink : sock[p] # k /\ sock'[p] # k => wire'[k] = wire[k] /\ down'[k] = down[k] /\ up'[k] = up[k],
         \A k \in Sink : sock[p] = k \/ sock'[p] = k => wire'[k] # "new",
         \A q \in Page : q # p /\ sock[q] # None => sock[q] # sock'[p],
         \A k \in Sink : sock'[p] = k /\ wire'[k] = "open" =>
           /\ PromisedOK(k, live.att[k], answering, down'[k], up'[k], streams'[p], Views(p)', painted', live.size)
           /\ FitsOK(live.att[k], down'[k], up'[k], streams'[p], Views(p)', painted', live.size, at')
  PROVE  StepOK'
<1>1. \A k \in Sink : wire'[k] = "new" => live'.att[k].stream = 0 /\ up'[k] = <<>> /\ ~Owes(answering', k)
  BY DEF StepOK
<1>2. ASSUME NEW q \in Page, NEW k \in Sink, sock'[q] = k, Open(k)'
      PROVE  LinkOK(q, k)'
  <2>1. wire'[k] = "open"
    BY <1>2 DEF Open
  <2>2. CASE q = p
    BY <1>2, <2>1, <2>2 DEF LinkOK
  <2>3. CASE q # p
    <3>1. sock[q] = k /\ sock[p] # k /\ sock'[p] # k
      <4>1. sock[q] = k /\ k # None
        BY <1>2, <2>3, GapTyped
      <4>2. sock[p] # k
        BY <2>3, <4>1 DEF GapOK, WireOK
      <4>3. sock'[p] # k
        BY <2>3, <4>1
      <4> QED
        BY <4>1, <4>2, <4>3
    <3>2. wire'[k] = wire[k] /\ down'[k] = down[k] /\ up'[k] = up[k]
      BY <3>1
    <3>3. /\ PromisedOK(k, live.att[k], answering, down[k], up[k], streams[q], Views(q), painted, live.size)
          /\ FitsOK(live.att[k], down[k], up[k], streams[q], Views(q), painted, live.size, at)
      BY <2>1, <3>1, <3>2 DEF StepOK, LinkOK, Open
    <3>4. /\ PromisedOK(k, live.att[k], answering, down[k], up[k], streams[q], Views(q), painted', live.size)
          /\ FitsOK(live.att[k], down[k], up[k], streams[q], Views(q), painted', live.size, at')
      <4>1. Views(q) \cap painted = Views(q) \cap painted' /\ \A v \in Views(q) : at'[v] = at[v]
        BY <2>3
      <4>2. PromisedOK(k, live.att[k], answering, down[k], up[k], streams[q], Views(q), painted', live.size)
        BY <3>3, <4>1, SamePromised
      <4>3. FitsOK(live.att[k], down[k], up[k], streams[q], Views(q), painted', live.size, at')
        BY <3>3, <4>1, SameFits
      <4> QED
        BY <4>2, <4>3
    <3>5. streams'[q] = streams[q] /\ Views(q)' = Views(q)
      BY <2>3
    <3> QED
      BY <3>2, <3>4, <3>5 DEF LinkOK
  <2> QED
    BY <2>2, <2>3
<1> QED
  BY <1>1, <1>2 DEF StepOK

\* A page asks for something, its views then being those of the next state.
LEMMA AsksStep ==
  ASSUME IInv, GapOK, StepOK, NEW p \in Page, NEW m \in ToServer, Asks(p, m),
         UNCHANGED <<live, answering, wire, down, sock, streams>>,
         \A q \in Page : q # p =>
           /\ Views(q)' = Views(q) /\ Views(q) \cap painted' = Views(q) \cap painted /\ \A v \in Views(q) : at'[v] = at[v],
         \/ m.t = "focus" /\ Views(p)' = Views(p)
         \/ m.t = "resize" /\ Views(p)' = Views(p) /\ Views(p) \cap Primary # {}
         \/ m.t = "attach" /\ (Views(p)' \cap Primary # {} => m.primary)
         \/ m.t = "detach" /\ Views(p)' = {},
         m.t = "attach" \/ Views(p)' \ painted' \subseteq Views(p) \ painted,
         \A v \in Views(p)' \cap painted' :
           (v \in Views(p) \cap painted /\ at'[v] = at[v]) \/ (m.t = "resize" /\ m.size = at'[v])
  PROVE  StepOK'
<1>1. sock[p] \in Sink \cup {None} /\ up \in [Sink -> Seq(ToServer)] /\ None \notin Sink
  BY GapTyped DEF IInv, TypeOK
<1>2. \A k \in Sink : up'[k] = IF sock[p] = k THEN Append(up[k], m) ELSE up[k]
  BY <1>1 DEF Asks
<1>3. ASSUME NEW k \in Sink, sock'[p] = k, wire'[k] = "open"
      PROVE  /\ PromisedOK(k, live.att[k], answering, down'[k], up'[k], streams'[p], Views(p)', painted', live.size)
             /\ FitsOK(live.att[k], down'[k], up'[k], streams'[p], Views(p)', painted', live.size, at')
  <2> DEFINE a == live.att[k]
             d == down[k]
             u == up[k]
             S == streams[p]
             V == Views(p)
             W == Views(p)'
             Q == painted'
             z == live.size
             h == at'
  <2>1. sock[p] = k /\ Open(k)
    BY <1>3 DEF Open
  <2>2. PromisedOK(k, a, answering, d, u, S, V, painted, z) /\ FitsOK(a, d, u, S, V, painted, z, at)
    BY <2>1 DEF StepOK, LinkOK
  <2>3. a \in Att /\ u \in Seq(ToServer)
    BY <2>1, StepTyped
  <2>4. up'[k] = Append(u, m)
    BY <1>2, <2>1
  <2>5. /\ \/ m.t = "focus" /\ W = V
           \/ m.t = "resize" /\ W = V /\ V \cap Primary # {}
           \/ m.t = "attach" /\ (W \cap Primary # {} => m.primary)
           \/ m.t = "detach" /\ W = {}
        /\ m.t = "attach" \/ W \ Q \subseteq V \ painted
        /\ \A v \in W \cap Q : (v \in V \cap painted /\ h[v] = at[v]) \/ (m.t = "resize" /\ m.size = h[v])
    OBVIOUS
  <2>6. PromisedOK(k, a, answering, d, Append(u, m), S, W, Q, z) /\ FitsOK(a, d, Append(u, m), S, W, Q, z, h)
    <3> HIDE DEF a, d, u, S, V, W, Q, z, h
    <3> QED
      BY <2>2, <2>3, <2>5, ItAsksFor
  <2> QED
    BY <2>4, <2>6
<1>4. \A k \in Sink : sock[p] = k => wire[k] # "new"
  BY GapTyped DEF GapOK, WireOK
<1>5. \A q \in Page : q # p /\ sock[q] # None => sock[q] # sock'[p]
  BY DEF GapOK, WireOK
<1>6. \A k \in Sink : sock[p] # k /\ sock'[p] # k => wire'[k] = wire[k] /\ down'[k] = down[k] /\ up'[k] = up[k]
  BY <1>2
<1>7. \A k \in Sink : sock[p] = k \/ sock'[p] = k => wire'[k] # "new"
  BY <1>4
<1>8. \A q \in Page : q # p =>
           /\ sock'[q] = sock[q] /\ streams'[q] = streams[q] /\ Views(q)' = Views(q)
           /\ Views(q) \cap painted' = Views(q) \cap painted /\ \A v \in Views(q) : at'[v] = at[v]
  OBVIOUS
<1> QED
  BY <1>3, <1>5, <1>6, <1>7, <1>8, PageStep
\* What the attach of some views says.
LEMMA AttachSays ==
  ASSUME IInv, NEW V \in SUBSET View, wants' \in [View -> Size], NEW m \in AttachMsgs(V)
  PROVE  m \in ToServer /\ m.t = "attach" /\ (V \cap Primary # {} => m.primary)
<1>1. m \in ToServer
  BY AttachMsgsOK
<1> DEFINE primaries == V \cap Primary
           W == IF primaries = {} THEN V ELSE primaries
<1>2. PICK v \in W : m = [t |-> "attach", size |-> wants'[v], primary |-> primaries # {}]
  BY DEF AttachMsgs
<1>3. m.t = "attach" /\ m.primary = (primaries # {})
  BY <1>2
<1> QED
  BY <1>1, <1>3

LEMMA MountsStep ==
  ASSUME IInv, IInv', GapOK, StepOK, NEW v \in View, Mounts(v)
  PROVE  StepOK'
<1> DEFINE p == PageOf[v]
<1>1. /\ UNCHANGED <<live, answering, wire, down, sock, streams, painted, at>>
      /\ v \notin mounted /\ mounted' = mounted \cup {v}
      /\ \E m \in AttachMsgs(Views(p) \cup {v}) : Asks(p, m)
  BY DEF Mounts, serverVars
<1>2. p \in Page /\ Views(p) \cup {v} \in SUBSET View /\ wants' \in [View -> Size] /\ painted \subseteq mounted
  BY StreamAssumption DEF IInv, TypeOK, Views
<1>3. /\ Views(p)' = Views(p) \cup {v}
      /\ \A q \in Page : q # p => Views(q)' = Views(q)
  BY <1>1 DEF Views
<1>4. PICK m \in AttachMsgs(Views(p) \cup {v}) : Asks(p, m)
  BY <1>1
<1>5. m \in ToServer /\ m.t = "attach" /\ ((Views(p) \cup {v}) \cap Primary # {} => m.primary)
  BY <1>2, AttachSays
<1>6. \A x \in Views(p)' \cap painted' : x \in Views(p) \cap painted /\ at'[x] = at[x]
  BY <1>1, <1>2, <1>3
<1> HIDE DEF p
<1> QED
  BY <1>1, <1>2, <1>3, <1>4, <1>5, <1>6, AsksStep

LEMMA UnmountsStep ==
  ASSUME IInv, IInv', GapOK, StepOK, NEW v \in View, Unmounts(v)
  PROVE  StepOK'
<1> DEFINE p == PageOf[v]
           rest == Views(p) \ {v}
<1>1. /\ UNCHANGED <<live, answering, wire, down, sock, streams>>
      /\ v \in mounted /\ mounted' = mounted \ {v} /\ painted' = painted \ {v}
      /\ at' = [at EXCEPT ![v] = Room[v]]
      /\ \E m \in IF rest = {} THEN {[t |-> "detach"]} ELSE AttachMsgs(rest) : Asks(p, m)
  BY DEF Unmounts, Disposes, serverVars
<1>2. p \in Page /\ rest \in SUBSET View /\ wants' \in [View -> Size] /\ at \in [View -> Size] /\ mounted \subseteq View
  BY StreamAssumption DEF IInv, TypeOK, Views
<1>3. /\ Views(p)' = rest
      /\ \A q \in Page : q # p => Views(q)' = Views(q) /\ v \notin Views(q)
  BY <1>1 DEF Views
<1>4. \A x \in View : x # v => at'[x] = at[x]
  BY <1>1, <1>2
<1>5. PICK m \in IF rest = {} THEN {[t |-> "detach"]} ELSE AttachMsgs(rest) : Asks(p, m)
  BY <1>1
<1>6. /\ m \in ToServer
      /\ \/ m.t = "attach" /\ (rest \cap Primary # {} => m.primary)
         \/ m.t = "detach" /\ rest = {}
  <2>1. CASE rest = {}
    BY <1>5, <2>1 DEF ToServer
  <2>2. CASE rest # {}
    BY <1>2, <1>5, <2>2, AttachSays
  <2> QED
    BY <2>1, <2>2
<1>7. \A q \in Page : q # p =>
        Views(q)' = Views(q) /\ Views(q) \cap painted' = Views(q) \cap painted /\ \A x \in Views(q) : at'[x] = at[x]
  <2>1. \A q \in Page : Views(q) \subseteq View
    BY <1>2 DEF Views
  <2> QED
    BY <1>1, <1>3, <1>4, <2>1
<1>8. \A x \in Views(p)' \cap painted' : x \in Views(p) \cap painted /\ at'[x] = at[x]
  BY <1>1, <1>2, <1>3, <1>4
<1>9. Views(p)' \ painted' \subseteq Views(p) \ painted
  BY <1>1, <1>3
<1> HIDE DEF p, rest
<1> QED
  BY <1>1, <1>2, <1>3, <1>5, <1>6, <1>7, <1>8, <1>9, AsksStep

LEMMA ResizesStep ==
  ASSUME IInv, IInv', GapOK, StepOK, NEW v \in View, NEW z \in Size, Resizes(v, z)
  PROVE  StepOK'
<1> DEFINE p == PageOf[v]
           m == [t |-> "resize", size |-> z]
<1>1. /\ UNCHANGED <<live, answering, wire, down, sock, streams, mounted, painted>>
      /\ v \in mounted \cap Primary
      /\ at' = [at EXCEPT ![v] = z]
      /\ Asks(p, m)
  BY DEF Resizes, serverVars
<1>2. p \in Page /\ at \in [View -> Size] /\ mounted \subseteq View
  BY StreamAssumption DEF IInv, TypeOK
<1>3. /\ \A q \in Page : Views(q)' = Views(q) /\ Views(q) \subseteq View
      /\ v \in Views(p) /\ \A q \in Page : q # p => v \notin Views(q)
  BY <1>1, <1>2 DEF Views
<1>4. \A x \in View : at'[x] = IF x = v THEN z ELSE at[x]
  BY <1>1, <1>2
<1>5. m \in ToServer /\ m.t = "resize" /\ m.size = z
  BY DEF ToServer
<1> HIDE DEF m
<1>6. \A q \in Page : q # p =>
        Views(q)' = Views(q) /\ Views(q) \cap painted' = Views(q) \cap painted /\ \A x \in Views(q) : at'[x] = at[x]
  BY <1>1, <1>3, <1>4
<1>7. \A x \in Views(p)' \cap painted' : (x \in Views(p) \cap painted /\ at'[x] = at[x]) \/ (m.t = "resize" /\ m.size = at'[x])
  BY <1>1, <1>2, <1>3, <1>4, <1>5
<1>8. Views(p) \cap Primary # {} /\ Views(p)' = Views(p) /\ Views(p)' \ painted' \subseteq Views(p) \ painted
  BY <1>1, <1>2, <1>3
<1> HIDE DEF p
<1> QED
  BY <1>1, <1>2, <1>5, <1>6, <1>7, <1>8, AsksStep

LEMMA FocusesStep ==
  ASSUME IInv, IInv', GapOK, StepOK, NEW v \in View, Focuses(v)
  PROVE  StepOK'
<1> DEFINE p == PageOf[v]
           m == [t |-> "focus"]
<1>1. /\ UNCHANGED <<live, answering, wire, down, sock, streams, mounted, painted, at>>
      /\ Asks(p, m)
  BY DEF Focuses, serverVars, viewVars
<1>2. p \in Page
  BY StreamAssumption
<1>3. \A q \in Page : Views(q)' = Views(q)
  BY <1>1 DEF Views
<1>4. m \in ToServer /\ m.t = "focus"
  BY DEF ToServer
<1> HIDE DEF m
<1>5. \A q \in Page : q # p =>
        Views(q)' = Views(q) /\ Views(q) \cap painted' = Views(q) \cap painted /\ \A x \in Views(q) : at'[x] = at[x]
  BY <1>1, <1>3
<1>6. /\ Views(p)' = Views(p) /\ Views(p)' \ painted' \subseteq Views(p) \ painted
      /\ \A x \in Views(p)' \cap painted' : x \in Views(p) \cap painted /\ at'[x] = at[x]
  BY <1>1, <1>2, <1>3
<1> HIDE DEF p
<1> QED
  BY <1>1, <1>2, <1>4, <1>5, <1>6, AsksStep

LEMMA LosesStep ==
  ASSUME IInv, GapOK, StepOK, NEW p \in Page, Loses(p)
  PROVE  StepOK'
<1>1. /\ UNCHANGED <<live, answering, wire, up, streams, mounted, painted, at>>
      /\ sock[p] # None /\ sock' = [sock EXCEPT ![p] = None]
      /\ down' = [down EXCEPT ![sock[p]] = <<>>]
  BY DEF Loses, serverVars, viewVars
<1>2. /\ sock \in [Page -> Sink \cup {None}] /\ down \in [Sink -> Seq(ToPage)] /\ None \notin Sink
  BY GapTyped
<1>3. sock'[p] = None /\ \A k \in Sink : k # sock[p] => down'[k] = down[k]
  BY <1>1, <1>2
<1>4. \A k \in Sink : sock[p] = k \/ sock'[p] = k => wire'[k] # "new"
  BY <1>1, <1>2, <1>3 DEF GapOK, WireOK
<1>5. \A q \in Page : q # p =>
           /\ sock'[q] = sock[q] /\ streams'[q] = streams[q] /\ Views(q)' = Views(q)
           /\ Views(q) \cap painted' = Views(q) \cap painted /\ \A v \in Views(q) : at'[v] = at[v]
  BY <1>1, <1>2 DEF Views
<1> QED
  BY <1>1, <1>2, <1>3, <1>4, <1>5, PageStep

LEMMA OpensStep ==
  ASSUME IInv, GapOK, StepOK, NEW p \in Page, NEW k \in Sink, Opens(p, k)
  PROVE  StepOK'
<1>1. /\ UNCHANGED <<live, answering, down, streams, mounted, at, wants>>
      /\ sock[p] = None /\ wire[k] = "new"
      /\ wire' = [wire EXCEPT ![k] = "open"] /\ sock' = [sock EXCEPT ![p] = k]
      /\ painted' = painted \ Views(p)
      /\ IF Views(p) = {} THEN UNCHANGED up
         ELSE \E m \in AttachMsgs(Views(p)) : up' = [up EXCEPT ![k] = <<m>>]
  BY DEF Opens, serverVars
<1>2. /\ sock \in [Page -> Sink \cup {None}] /\ down \in [Sink -> Seq(ToPage)] /\ None \notin Sink
      /\ wire \in [Sink -> {"new", "open", "closing", "closed"}]
      /\ up \in [Sink -> Seq(ToServer)] /\ wants \in [View -> Size] /\ mounted \subseteq View
      /\ live.att[k] \in Att
  BY GapTyped, LiveTyped DEF IInv, TypeOK, LiveType
<1>3. live.att[k].stream = 0 /\ up[k] = <<>>
  BY <1>1 DEF StepOK
<1>4. \A q \in Page : sock[q] # k
  BY <1>1, <1>2 DEF GapOK, WireOK
<1>5. streams[p] \subseteq 1 .. nextStream - 1 /\ 0 \notin streams[p]
  BY DEF GapOK
<1>6. Views(p)' = Views(p) /\ Views(p) \cap painted' = {}
  BY <1>1 DEF Views
<1> DEFINE a == live.att[k]
           S == streams[p]
           V == Views(p)
           Q == painted'
           z == live.size
           h == at'
<1>7. RequestsOK(<<>>, a, {}) /\ <<>> \in Seq(ToServer)
  BY DEF RequestsOK
<1>8. PromisedOK(k, a, answering, down[k], <<>>, S, {}, Q, z) /\ FitsOK(a, down[k], <<>>, S, {}, Q, z, h)
  BY <1>3, <1>5, <1>7 DEF PromisedOK, FitsOK
<1>9. PromisedOK(k, a, answering, down[k], up'[k], S, V, Q, z) /\ FitsOK(a, down[k], up'[k], S, V, Q, z, h)
  <2>1. CASE V = {}
    BY <1>1, <1>3, <1>8, <2>1
  <2>2. CASE V # {}
    <3>1. PICK m \in AttachMsgs(V) : up' = [up EXCEPT ![k] = <<m>>]
      BY <1>1, <2>2
    <3>2. V \in SUBSET View /\ wants' \in [View -> Size]
      BY <1>1, <1>2 DEF Views
    <3> HIDE DEF V
    <3>3. m \in ToServer /\ m.t = "attach" /\ (V \cap Primary # {} => m.primary)
      BY <3>2, AttachSays
    <3>4. up'[k] = Append(<<>>, m)
      BY <1>2, <3>1, <3>3
    <3>5. V \cap Q = {}
      BY <1>6 DEF V
    <3>6. PromisedOK(k, a, answering, down[k], Append(<<>>, m), S, V, Q, z) /\ FitsOK(a, down[k], Append(<<>>, m), S, V, Q, z, h)
      <4> HIDE DEF a, S, Q, z, h
      <4>1. /\ PromisedOK(k, a, answering, down[k], Append(<<>>, m), S, V, Q, z)
            /\ FitsOK(a, down[k], Append(<<>>, m), S, V, Q, z, h)
        BY <1>2, <1>7, <1>8, <3>3, <3>5, ItAsksFor DEF a
      <4> QED
        BY <4>1
    <3> QED
      BY <3>4, <3>6
  <2> QED
    BY <2>1, <2>2
<1>10. ASSUME NEW j \in Sink, sock'[p] = j, wire'[j] = "open"
       PROVE  /\ PromisedOK(j, live.att[j], answering, down'[j], up'[j], streams'[p], Views(p)', painted', live.size)
              /\ FitsOK(live.att[j], down'[j], up'[j], streams'[p], Views(p)', painted', live.size, at')
  <2>1. j = k
    BY <1>1, <1>2, <1>10
  <2> QED
    BY <1>1, <1>6, <1>9, <2>1
<1>11. \A j \in Sink : sock[p] # j /\ sock'[p] # j => wire'[j] = wire[j] /\ down'[j] = down[j] /\ up'[j] = up[j]
  <2> TAKE j \in Sink
  <2> HAVE sock[p] # j /\ sock'[p] # j
  <2>1. j # k
    BY <1>1, <1>2
  <2> QED
    BY <1>1, <1>2, <2>1
<1>12. \A j \in Sink : sock[p] = j \/ sock'[p] = j => wire'[j] # "new"
  BY <1>1, <1>2
<1>13. \A q \in Page : q # p /\ sock[q] # None => sock[q] # sock'[p]
  BY <1>1, <1>2, <1>4
<1>14. \A q \in Page : q # p =>
           /\ sock'[q] = sock[q] /\ streams'[q] = streams[q] /\ Views(q)' = Views(q)
           /\ Views(q) \cap painted' = Views(q) \cap painted /\ \A v \in Views(q) : at'[v] = at[v]
  BY <1>1, <1>2 DEF Views
<1> QED
  BY <1>1, <1>10, <1>11, <1>12, <1>13, <1>14, PageStep
LEMMA ReceivesStep ==
  ASSUME IInv, GapOK, StepOK, NEW p \in Page, Receives(p)
  PROVE  StepOK'
<1>1. /\ UNCHANGED <<live, answering, wire, up, sock, mounted>>
      /\ sock[p] # None /\ down[sock[p]] # <<>>
      /\ down' = [down EXCEPT ![sock[p]] = Tail(@)]
  BY DEF Receives, serverVars
<1>2. /\ sock \in [Page -> Sink \cup {None}] /\ down \in [Sink -> Seq(ToPage)] /\ None \notin Sink
      /\ painted \subseteq mounted /\ mounted \subseteq View /\ PageOf \in [View -> Page] /\ at \in [View -> Size]
      /\ streams \in [Page -> SUBSET Nat]
  BY GapTyped DEF IInv, TypeOK
<1>3. PICK k \in Sink : k = sock[p]
  BY <1>1, <1>2
<1> DEFINE d == down[k]
           m == Head(d)
<1>4. d \in Seq(ToPage) /\ d # <<>> /\ m = d[1] /\ m \in ToPage /\ down'[k] = Tail(d) /\ 1 \in 1 .. Len(d)
  <2>1. d \in Seq(ToPage) /\ d # <<>> /\ down'[k] = Tail(d)
    BY <1>1, <1>2, <1>3
  <2>2. Head(d) = d[1] /\ d[1] \in ToPage /\ Len(d) \in Nat \ {0}
    BY <2>1, FrameOff
  <2> QED
    BY <2>1, <2>2
<1>5. \/ m.t = "attached" /\ Repaints(p, m)
      \/ m.t = "size" /\ Fits(p, m)
      \/ m.t = "out" /\ Writes(p, m)
  BY <1>3 DEF Receives
<1> HIDE DEF m, d
<1>6. \A q \in Page : Views(q)' = Views(q) /\ Views(q) \subseteq View
  BY <1>1, <1>2 DEF Views
\* Only the views of the page change.
<1>7. \A q \in Page : q # p =>
           /\ sock'[q] = sock[q] /\ streams'[q] = streams[q] /\ Views(q)' = Views(q)
           /\ Views(q) \cap painted' = Views(q) \cap painted /\ \A v \in Views(q) : at'[v] = at[v]
  <2> TAKE q \in Page
  <2> HAVE q # p
  <2>1. \A v \in Views(q) : v \in View /\ v \notin Views(p)
    BY <1>2 DEF Views
  <2>2. streams'[q] = streams[q]
    BY <1>2, <1>5 DEF Repaints, Fits, Writes
  <2>3. \A v \in Views(q) : at'[v] = at[v]
    BY <1>2, <1>5, <2>1 DEF Repaints, Fits, Writes
  <2>4. \A v \in Views(q) : v \in painted' <=> v \in painted
    BY <1>5, <2>1 DEF Repaints, Fits, Writes
  <2> QED
    BY <1>1, <1>6, <2>2, <2>3, <2>4
<1>8. ASSUME Open(k)
      PROVE  /\ PromisedOK(k, live.att[k], answering, Tail(d), up[k], streams'[p], Views(p), painted', live.size)
             /\ FitsOK(live.att[k], Tail(d), up[k], streams'[p], Views(p), painted', live.size, at')
  <2> DEFINE a == live.att[k]
             u == up[k]
             S == streams[p]
             V == Views(p)
             P == painted
             Q == painted'
             z == live.size
             g == at
             h == at'
  <2>1. PromisedOK(k, a, answering, d, u, S, V, P, z) /\ FitsOK(a, d, u, S, V, P, z, g)
    BY <1>3, <1>8 DEF StepOK, LinkOK, d
  <2>2. a \in Att /\ 0 \notin S /\ (d[1].t = "attached" => d[1].stream # 0)
    BY <1>3, <1>4, <1>8, StepTyped DEF d
  <2>3. CASE m.t = "attached" /\ Repaints(p, m)
    <3> DEFINE again == streams[p] \ {m.stream} # {}
               fresh == IF again THEN Views(p) ELSE Views(p) \ painted
    <3>1. /\ streams'[p] = {m.stream}
          /\ painted' = painted \cup fresh
          /\ at' = [v \in View |-> IF v \in fresh THEN m.size ELSE at[v]]
      BY <1>2, <2>3 DEF Repaints
    <3>2. \A v \in V : h[v] = d[1].size \/ (h[v] = g[v] /\ v \in P /\ S \ {d[1].stream} = {})
      <4> TAKE v \in V
      <4>1. v \in View
        BY <1>6
      <4>2. CASE v \in fresh
        BY <1>4, <3>1, <4>1, <4>2
      <4>3. CASE v \notin fresh
        BY <1>4, <3>1, <4>1, <4>3
      <4> QED
        BY <4>2, <4>3
    <3>3. V \subseteq Q
      BY <3>1
    <3>4. V \cap P # {} => S # {}
      <4>1. \A v \in V : PageOf[v] = p
        BY DEF Views
      <4>2. \A v \in P : streams[PageOf[v]] # {}
        BY DEF GapOK
      <4> QED
        BY <4>1, <4>2
    <3>5. PromisedOK(k, a, answering, Tail(d), u, {d[1].stream}, V, Q, z) /\ FitsOK(a, Tail(d), u, {d[1].stream}, V, Q, z, h)
      <4> HIDE DEF a, u, S, V, P, Q, z, g, h
      <4> QED
        BY <1>4, <2>1, <2>2, <2>3, <3>2, <3>3, <3>4, ItPaints
    <3> QED
      BY <1>4, <3>1, <3>5
  <2>4. CASE m.t = "size" /\ Fits(p, m)
    <3>1. UNCHANGED <<streams, painted>> /\ \A v \in V : h[v] = d[1].size
      BY <1>4, <1>6, <2>4 DEF Fits
    <3>2. PromisedOK(k, a, answering, Tail(d), u, S, V, P, z) /\ FitsOK(a, Tail(d), u, S, V, P, z, h)
      <4>1. \A v \in V : h[v] = d[1].size
        BY <3>1
      <4> HIDE DEF a, u, S, V, P, z, g, h
      <4> QED
        BY <1>4, <2>1, <2>2, <2>4, <4>1, ItFits
    <3> QED
      BY <3>1, <3>2
  <2>5. CASE m.t = "out" /\ Writes(p, m)
    <3>1. UNCHANGED <<streams, painted, at>>
      BY <2>5 DEF Writes
    <3>2. PromisedOK(k, a, answering, Tail(d), u, S, V, P, z) /\ FitsOK(a, Tail(d), u, S, V, P, z, g)
      <4> HIDE DEF a, u, S, V, P, z, g
      <4> QED
        BY <1>4, <2>1, <2>2, <2>5, ItWrites
    <3> QED
      BY <3>1, <3>2
  <2> QED
    BY <1>5, <2>3, <2>4, <2>5
<1>9. ASSUME NEW j \in Sink, sock'[p] = j, wire'[j] = "open"
      PROVE  /\ PromisedOK(j, live.att[j], answering, down'[j], up'[j], streams'[p], Views(p)', painted', live.size)
             /\ FitsOK(live.att[j], down'[j], up'[j], streams'[p], Views(p)', painted', live.size, at')
  <2>1. j = k /\ Open(k)
    BY <1>1, <1>3, <1>9 DEF Open
  <2> QED
    BY <1>1, <1>4, <1>6, <1>8, <2>1
<1>10. \A j \in Sink : sock[p] # j /\ sock'[p] # j => wire'[j] = wire[j] /\ down'[j] = down[j] /\ up'[j] = up[j]
  BY <1>1, <1>2
<1>11. \A j \in Sink : sock[p] = j \/ sock'[p] = j => wire'[j] # "new"
  BY <1>1, <1>2 DEF GapOK, WireOK
<1>12. \A q \in Page : q # p /\ sock[q] # None => sock[q] # sock'[p]
  BY <1>1 DEF GapOK, WireOK
<1> QED
  BY <1>1, <1>7, <1>9, <1>10, <1>11, <1>12, PageStep

-----------------------------------------------------------------------------

LEMMA InitStep == Init => StepOK
<1> SUFFICES ASSUME Init PROVE StepOK
  OBVIOUS
<1> USE DEF Init
<1>1. \A k \in Sink : live.att[k].stream = 0 /\ up[k] = <<>> /\ ~Owes(answering, k)
  BY DEF NoAtt, Owes
<1>2. ASSUME NEW p \in Page, NEW k \in Sink PROVE LinkOK(p, k)
  <2>1. Views(p) = {} /\ streams[p] = {}
    BY DEF Views
  <2>2. RequestsOK(up[k], live.att[k], Views(p))
    BY <1>1, <2>1 DEF RequestsOK
  <2> QED
    BY <1>1, <2>1, <2>2 DEF LinkOK, PromisedOK, FitsOK
<1> QED
  BY <1>1, <1>2 DEF StepOK

LEMMA StepSteps == IInv /\ IInv' /\ GapOK /\ StepOK /\ [Next]_vars => StepOK'
<1> SUFFICES ASSUME IInv, IInv', GapOK, StepOK, [Next]_vars PROVE StepOK'
  OBVIOUS
<1>1. CASE UNCHANGED vars
  <2>1. UNCHANGED <<live, answering, wire, up, down, sock, streams, mounted, painted, at>>
    BY <1>1 DEF vars, serverVars, viewVars
  <2> QED
    BY <2>1, SilentStep
<1>2. CASE Server
  BY <1>2, HandlesStep, NoticesStep, ClosesStep, AnswersStep, ProducesStep, FlushesStep DEF Server
<1>3. CASE Browser
  BY <1>3, LosesStep, ReceivesStep, OpensStep, MountsStep, UnmountsStep, FocusesStep, ResizesStep DEF Browser
<1> QED
  BY <1>1, <1>2, <1>3 DEF Next

\* At rest nothing is left to be said, so that every view is what was promised.
LEMMA AtRest ==
  ASSUME IInv, GapOK, StepOK
  PROVE  InStep
<1> SUFFICES ASSUME Quiet, NEW v \in mounted
             PROVE  /\ v \in painted
                    /\ \A n \in 1 .. produced : \/ \E i \in 1 .. Len(screen[v]) : screen[v][i] = n
                                                \/ \E m \in 0 .. n - 1 : Lacked(v, m, n)
                    /\ at[v] = live.size
  BY DEF InStep
<1> DEFINE p == PageOf[v]
<1>1. v \in View /\ p \in Page /\ v \in Views(p)
  BY StreamAssumption DEF IInv, TypeOK, Views
<1>2. PICK k \in Sink : k = sock[p]
  BY <1>1, GapTyped DEF Quiet
<1>3. /\ answering = <<>> /\ flushed = produced /\ Open(k) /\ up[k] = <<>> /\ down[k] = <<>>
  BY <1>1, <1>2 DEF Quiet
<1> DEFINE a == live.att[k]
           s == a.stream
<1>4. /\ PromisedOK(k, a, <<>>, <<>>, <<>>, streams[p], Views(p), painted, live.size)
      /\ FitsOK(a, <<>>, <<>>, streams[p], Views(p), painted, live.size, at)
  BY <1>1, <1>2, <1>3 DEF StepOK, LinkOK
<1>5. Len(<<>>) = 0 /\ ~(\E i \in 1 .. 0 : TRUE)
  OBVIOUS
<1>6. s # 0
  <2>1. Lasts(<<>>, Len(<<>>), s # 0, Attaches, Detaches)
    BY <1>1, <1>4 DEF PromisedOK, RequestsOK
  <2> QED
    BY <1>5, <2>1 DEF Lasts
<1>7. v \in painted
  BY <1>1, <1>4, <1>5 DEF PromisedOK, Owes, Told, Asked
<1>8. streams[p] = {s}
  BY <1>4, <1>5, <1>6 DEF PromisedOK, AnsweredOK, Owes, Told
<1>9. at[v] = live.size
  <2>1. Unsized(<<>>, 0)
    BY DEF Unsized
  <2> QED
    BY <1>1, <1>4, <1>5, <1>7, <1>8, <2>1 DEF FitsOK
<1>10. Covers(short, s, Newest(screen[v]), flushed)
  <2>1. Now(k) = s
    BY <1>2, <1>3, <1>1 DEF Now, Reads, Read
  <2>2. ShowsOK(short, <<>>, {s}, s, Newest(screen[v]), flushed)
    <3>1. sock[PageOf[v]] = k /\ sock[PageOf[v]] # None
      BY <1>2, GapTyped
    <3> HIDE DEF p, a, s
    <3>2. ShowsOK(short, down[sock[PageOf[v]]], streams[PageOf[v]], Now(sock[PageOf[v]]), Newest(screen[v]), flushed)
      BY <1>7, <3>1 DEF GapOK
    <3>3. down[sock[PageOf[v]]] = <<>> /\ Now(sock[PageOf[v]]) = s
      BY <1>3, <2>1, <3>1
    <3>4. streams[PageOf[v]] = {s}
      BY <1>8 DEF p
    <3> QED
      BY <3>2, <3>3, <3>4
  <2>3. Ends(short, <<>>, 0, s, Newest(screen[v]), flushed)
    BY <2>2 DEF ShowsOK
  <2>4. ~(\E m \in 0 + 1 .. (Len(<<>>) + 1) - 1 : TRUE)
    BY <1>5
  <2> QED
    BY <2>3, <2>4 DEF Ends, Reach
<1>11. ASSUME NEW n \in 1 .. produced
       PROVE  (\E i \in 1 .. Len(screen[v]) : screen[v][i] = n) \/ \E m \in 0 .. n - 1 : Lacked(v, m, n)
  <2>1. Whole(short, streams[p], screen[v])
    BY <1>1 DEF GapOK, ScreensOK
  <2>2. Newest(screen[v]) \in Nat /\ produced \in Nat /\ \A z \in short : z.sent \in Nat
    <3>1. screen[v] \in Seq(1 .. MaxChunk) /\ produced \in 0 .. MaxChunk
          /\ short \subseteq [stream : Nat, upto : 0 .. MaxChunk, sent : 0 .. MaxChunk]
      BY <1>1 DEF IInv, TypeOK
    <3> QED
      BY <3>1, NewestTyped, StreamAssumption
  <2>3. \A m : Hole(short, streams[p], m, n) <=> Lacked(v, m, n)
    BY DEF Hole, Lacked
  <2>4. CASE n <= Newest(screen[v])
    <3>1. n \in 1 .. Newest(screen[v])
      BY <2>2, <2>4
    <3> QED
      BY <2>1, <2>3, <3>1 DEF Whole
  <2>5. CASE ~(n <= Newest(screen[v]))
    <3>1. ~(flushed <= Newest(screen[v])) /\ Newest(screen[v]) \in 0 .. n - 1 /\ n <= flushed /\ n \in Nat
      BY <1>3, <2>2, <2>5
    <3>2. PICK z \in short : z.stream \in {s} /\ z.upto = Newest(screen[v]) /\ flushed <= z.sent
      BY <1>10, <3>1 DEF Covers, Hole
    <3>3. z.stream \in streams[p] /\ n <= z.sent
      BY <1>3, <1>8, <2>2, <3>1, <3>2
    <3>4. Hole(short, streams[p], Newest(screen[v]), n)
      BY <3>2, <3>3 DEF Hole
    <3> QED
      BY <2>3, <3>1, <3>4
  <2> QED
    BY <2>4, <2>5
<1> QED
  BY <1>7, <1>9, <1>11

\* At rest every view is painted, in the geometry of the pty, and to the last
\* byte but for what its own snapshot lacked, however it was mounted, resized,
\* dropped and attached again on the way (engine.ts, attach, resize, flushOutput;
\* socket.ts, subscribe, onopen and 'attached').
THEOREM InStepHolds == Spec => []InStep
<1>1. IInv /\ GapOK /\ StepOK => InStep
  BY AtRest
<1>2. Init => IInv /\ GapOK /\ StepOK
  BY InitHolds, InitGap, InitStep
<1>3. IInv /\ GapOK /\ StepOK /\ [Next]_vars => (IInv /\ GapOK /\ StepOK)'
  BY StepKeeps, StepGap, StepSteps
<1> QED
  BY <1>1, <1>2, <1>3, PTL DEF Spec
=============================================================================
