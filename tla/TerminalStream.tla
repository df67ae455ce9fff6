--------------------------- MODULE TerminalStream ---------------------------
(***************************************************************************)
(* The stream of one live session to the pages that show it: attachments,  *)
(* snapshots, coalesced output, size and keyboard owners in the server     *)
(* (server/src/session/engine.ts, routes/ws.ts), and the socket of each    *)
(* page with its views (web/src/socket.ts, terminal/TerminalView.tsx).     *)
(*                                                                         *)
(* Output is a sequence of chunks, numbered as they are produced; a screen *)
(* is the sequence of the chunks written to it since it was last cleared.  *)
(* A connection delivers in order, and loses what is on its way when it    *)
(* breaks; either end may be the first to know.                            *)
(***************************************************************************)
EXTENDS Naturals, Sequences

CONSTANTS
  Page,         \* browser pages
  View,         \* the terminals a page may mount
  PageOf,       \* the page of each
  Primary,      \* the views that size the pty; the others scale to it
  Size,         \* geometries, all of at least two columns and rows
  Room,         \* the geometry each view has room for when it is mounted
  First,        \* the sockets pages have open to begin with
  Connections,  \* bound: sockets opened, each a Sink of the server
  MaxChunk,     \* bound: chunks the session prints
  Limit         \* bounds: how often each kind of outside event may happen

Outside == {"mount", "unmount", "focus", "resize", "drop"}

ASSUME StreamAssumption ==
  /\ PageOf \in [View -> Page]
  /\ Primary \subseteq View
  /\ Size # {}
  /\ Room \in [View -> Size]
  /\ Connections \in Nat
  /\ First \in [Page -> 0..Connections]
  /\ \A p, q \in Page : First[p] = First[q] => p = q \/ First[p] = 0
  /\ MaxChunk \in Nat
  /\ Limit \in [Outside -> Nat]

Sink == 1..Connections
None == 0               \* no sink

VARIABLES
  live,       \* LiveSession: att, inputOwner, sizeOwner, size
  nextStream, \* nextStreamId
  answering,  \* attach() calls that await their snapshot
  produced,   \* chunks written to the mirror
  flushed,    \* chunks sent: those after it are pendingOut
  short,      \* history: the snapshots that lacked output sent before them
  wire,       \* what the server knows of each connection
  up, down,   \* what is on its way on it
  sock,       \* TerminalSocket.ws of each page, None unless it is open
  streams,    \* streamToSession: the stream numbers that mean our session
  mounted,    \* consumers: the views on screen
  painted,    \* Consumer.painted
  screen,     \* the chunks on each view
  at,         \* the geometry of its terminal
  wants,      \* Consumer.cols and rows
  last,       \* the page whose terminal took the keyboard focus last
  left        \* what is left of each Limit

serverVars == <<live, nextStream, answering, produced, flushed, short>>
viewVars == <<mounted, painted, screen, at, wants>>
vars == <<serverVars, wire, up, down, sock, streams, viewVars, last, left>>

NoAtt == [stream |-> 0]
Att == {NoAtt} \cup [stream : Nat \ {0}, primary : BOOLEAN, size : Size]

ToServer ==
  [t : {"attach"}, size : Size, primary : BOOLEAN]
    \cup [t : {"resize"}, size : Size] \cup [t : {"focus", "detach"}]
ToPage ==
  [t : {"attached"}, stream : Nat, size : Size, upto : 0..MaxChunk]
    \cup [t : {"size"}, size : Size]
    \cup [t : {"out"}, stream : Nat, after : 0..MaxChunk,
           upto : 0..MaxChunk]

TypeOK ==
  /\ live \in [att : [Sink -> Att], inputOwner : Sink \cup {None},
               sizeOwner : Sink \cup {None}, size : Size]
  /\ nextStream \in Nat \ {0}
  /\ answering \in Seq([sink : Sink, stream : Nat, need : 0..MaxChunk])
  /\ produced \in 0..MaxChunk
  /\ flushed \in 0..produced
  /\ short \subseteq [stream : Nat, upto : 0..MaxChunk, sent : 0..MaxChunk]
  /\ wire \in [Sink -> {"new", "open", "closing", "closed"}]
  /\ up \in [Sink -> Seq(ToServer)]
  /\ down \in [Sink -> Seq(ToPage)]
  /\ sock \in [Page -> Sink \cup {None}]
  /\ streams \in [Page -> SUBSET Nat]
  /\ mounted \subseteq View
  /\ painted \subseteq mounted
  /\ screen \in [View -> Seq(1..MaxChunk)]
  /\ at \in [View -> Size]
  /\ wants \in [View -> Size]
  /\ last \in Page \cup {None}
  /\ left \in [Outside -> Nat]

FirstSize == CHOOSE z \in Size : TRUE

Init ==
  /\ live = [att |-> [k \in Sink |-> NoAtt], inputOwner |-> None,
             sizeOwner |-> None, size |-> FirstSize]
  /\ nextStream = 1
  /\ answering = <<>>
  /\ produced = 0
  /\ flushed = 0
  /\ short = {}
  /\ wire = [k \in Sink |-> IF \E p \in Page : First[p] = k THEN "open" ELSE "new"]
  /\ up = [k \in Sink |-> <<>>]
  /\ down = [k \in Sink |-> <<>>]
  /\ sock = First
  /\ streams = [p \in Page |-> {}]
  /\ mounted = {}
  /\ painted = {}
  /\ screen = [v \in View |-> <<>>]
  /\ at = Room
  /\ wants = at
  /\ last = None
  /\ left = Limit

Spends(kind) ==
  /\ left[kind] > 0
  /\ left' = [left EXCEPT ![kind] = @ - 1]

-----------------------------------------------------------------------------
(* The wire.                                                               *)

Open(k) == wire[k] = "open"                  \* SocketSink.open
Read(k) == \E p \in Page : sock[p] = k       \* a page still listens to it

\* The server sends msgs[k] to every sink k that is open.
Sends(msgs) ==
  down' = [k \in Sink |-> IF Open(k) /\ Read(k) THEN down[k] \o msgs[k]
                                                ELSE down[k]]

\* TerminalSocket.send: nothing is kept for later while there is no socket.
Asks(p, m) ==
  up' = IF sock[p] = None THEN up ELSE [up EXCEPT ![sock[p]] = Append(@, m)]

-----------------------------------------------------------------------------
(* The server: one LiveSession.                                            *)

Attached(l) == {k \in Sink : l.att[k].stream # 0}

\* The Map of attachments is in the order they were added: by stream number.
FirstOf(l, S) ==
  IF S = {} THEN None
  ELSE CHOOSE k \in S : \A j \in S : l.att[k].stream <= l.att[j].stream
LastOf(l, S) ==
  IF S = {} THEN None
  ELSE CHOOSE k \in S : \A j \in S : l.att[k].stream >= l.att[j].stream

\* pruneClosed: drop attachments whose socket has gone away.
Pruned(l) ==
  LET gone == {k \in Attached(l) : ~Open(k)}
  IN [l EXCEPT !.att = [k \in Sink |-> IF k \in gone THEN NoAtt ELSE @[k]],
               !.sizeOwner = IF @ \in gone THEN None ELSE @,
               !.inputOwner = IF @ \in gone THEN None ELSE @]

\* Whose geometry applies: the owner's, or the newest primary attachment's.
Authority(l) ==
  LET primaries == {k \in Attached(l) : l.att[k].primary}
  IN IF l.sizeOwner \in primaries THEN l.sizeOwner ELSE LastOf(l, primaries)

AppliesSize(l) ==
  LET q == Pruned(l)
      k == Authority(q)
  IN IF k = None THEN q ELSE [q EXCEPT !.size = q.att[k].size]

\* Mutant: only the owner hears of a new size.
TellsOwner(l) ==
  /\ live' = l
  /\ Sends([k \in Sink |->
       IF k = l.sizeOwner /\ l.size # live.size
       THEN << [t |-> "size", size |-> l.size] >> ELSE <<>>])

\* The session becomes l, and every attachment left is told of a new size.
Becomes(l) ==
  /\ live' = l
  /\ Sends([k \in Sink |->
       IF k \in Attached(l) /\ l.size # live.size
       THEN << [t |-> "size", size |-> l.size] >> ELSE <<>>])

\* dropAttachment: the keyboard goes to the oldest attachment left.
Dropped(l, k) ==
  LET rest == [l EXCEPT !.att[k] = NoAtt]
  IN [rest EXCEPT
       !.inputOwner = IF @ = k THEN FirstOf(rest, Attached(rest)) ELSE @,
       !.sizeOwner = IF @ = k THEN None ELSE @]

\* attach(), up to its await of the snapshot.
HandlesAttach(k, m) ==
  LET s == IF live.att[k].stream = 0 THEN nextStream ELSE live.att[k].stream
      entered == [live EXCEPT
        !.att[k] = [stream |-> s, primary |-> m.primary, size |-> m.size]]
      sized == IF m.primary THEN AppliesSize([entered EXCEPT !.sizeOwner = k])
                            ELSE entered
  IN /\ Becomes([sized EXCEPT !.inputOwner = IF @ = None THEN k ELSE @])
     /\ nextStream' = IF s = nextStream THEN s + 1 ELSE nextStream
     /\ answering' =
          Append(answering, [sink |-> k, stream |-> s, need |-> produced])

\* resize(); not having attached, or not any more, it does nothing.
HandlesResize(k, m) ==
  /\ IF k \notin Attached(live) THEN UNCHANGED <<live, down>>
     ELSE LET l == [live EXCEPT !.att[k].size = m.size]
          IN Becomes(IF l.att[k].primary
                     THEN AppliesSize([l EXCEPT !.sizeOwner = k]) ELSE l)
  /\ UNCHANGED <<nextStream, answering>>

\* focus(): the view in use takes the keyboard, and the size if it sizes.
HandlesFocus(k) ==
  /\ IF k \notin Attached(live) THEN UNCHANGED <<live, down>>
     ELSE LET l == [live EXCEPT !.inputOwner = k]
          IN Becomes(IF l.att[k].primary
                     THEN AppliesSize([l EXCEPT !.sizeOwner = k]) ELSE l)
  /\ UNCHANGED <<nextStream, answering>>

HandlesDetach(k) ==
  /\ live' = Dropped(live, k)
  /\ UNCHANGED <<down, nextStream, answering>>

\* socket.on('message'), which still runs while the server is closing it.
Handles(k) ==
  /\ wire[k] \in {"open", "closing"}
  /\ up[k] # <<>>
  /\ up' = [up EXCEPT ![k] = Tail(@)]
  /\ LET m == Head(up[k])
     IN \/ m.t = "attach" /\ HandlesAttach(k, m)
        \/ m.t = "resize" /\ HandlesResize(k, m)
        \/ m.t = "focus" /\ HandlesFocus(k)
        \/ m.t = "detach" /\ HandlesDetach(k)
  /\ UNCHANGED <<produced, flushed, short, wire, sock, streams, viewVars, last, left>>

\* attach() goes on: the mirror has parsed what had been written to it when
\* the snapshot was asked for, and not always what came since, though that may
\* have been sent by then.
Answers ==
  /\ answering # <<>>
  /\ answering' = Tail(answering)
  /\ LET a == Head(answering)
     IN \E n \in a.need..produced :
          /\ Sends([k \in Sink |->
               IF k # a.sink THEN <<>>
               ELSE << [t |-> "attached", stream |-> a.stream,
                        size |-> live.size, upto |-> n] >>])
          /\ short' = IF flushed <= n THEN short
                      ELSE short \cup {[stream |-> a.stream, upto |-> n, sent |-> flushed]}
  /\ UNCHANGED <<live, nextStream, produced, flushed, wire, up, sock, streams,
                 viewVars, last, left>>

\* onOutput: into the mirror and into pendingOut.
Produces ==
  /\ produced < MaxChunk
  /\ produced' = produced + 1
  /\ UNCHANGED <<live, nextStream, answering, flushed, short, wire, up, down,
                 sock, streams, viewVars, last, left>>

\* flushOutput, 12 ms after the first chunk: one frame to each attachment.
Flushes ==
  /\ flushed < produced
  /\ flushed' = produced
  /\ Sends([k \in Sink |->
       IF k \notin Attached(live) THEN <<>>
       ELSE << [t |-> "out", stream |-> live.att[k].stream,
                after |-> flushed, upto |-> produced] >>])
  /\ UNCHANGED <<live, nextStream, answering, produced, short, wire, up, sock,
                 streams, viewVars, last, left>>

\* The server learns of, or begins, the end of a connection.
Notices(k) ==
  /\ Open(k)
  /\ wire' = [wire EXCEPT ![k] = "closing"]
  /\ IF Read(k) THEN Spends("drop") ELSE UNCHANGED left
  /\ UNCHANGED <<serverVars, up, down, sock, streams, viewVars, last>>

\* socket.on('close'): detachAll.
Closes(k) ==
  /\ wire[k] = "closing"
  /\ wire' = [wire EXCEPT ![k] = "closed"]
  /\ up' = [up EXCEPT ![k] = <<>>]
  /\ live' = Dropped(live, k)
  /\ UNCHANGED <<nextStream, answering, produced, flushed, short, down, sock,
                 streams, viewVars, last, left>>

-----------------------------------------------------------------------------
(* The pages.                                                              *)

Views(p) == {v \in mounted : PageOf[v] = p}

\* sendAttach: what the views in V want of the server between them.
AttachMsgs(V) ==
  LET primaries == V \cap Primary
  IN {[t |-> "attach", size |-> wants'[v], primary |-> primaries # {}] :
        v \in IF primaries = {} THEN V ELSE primaries}

\* onopen: every view needs a repaint, and one attach asks for it.
Opens(p, k) ==
  /\ sock[p] = None
  /\ wire[k] = "new"
  /\ \A j \in 1..(k - 1) : wire[j] # "new"
  /\ wire' = [wire EXCEPT ![k] = "open"]
  /\ sock' = [sock EXCEPT ![p] = k]
  /\ painted' = painted \ Views(p)
  /\ UNCHANGED wants
  /\ IF Views(p) = {} THEN UNCHANGED up
     ELSE \E m \in AttachMsgs(Views(p)) : up' = [up EXCEPT ![k] = <<m>>]
  /\ UNCHANGED <<serverVars, down, streams, mounted, screen, at, last, left>>

\* onclose, or the page sees the end first.
Loses(p) ==
  /\ sock[p] # None
  /\ IF Open(sock[p]) THEN Spends("drop") ELSE UNCHANGED left
  /\ sock' = [sock EXCEPT ![p] = None]
  /\ down' = [down EXCEPT ![sock[p]] = <<>>]
  /\ UNCHANGED <<serverVars, wire, up, streams, viewVars, last>>

\* subscribe, at the size measured for the view.
Mounts(v) ==
  /\ Spends("mount")
  /\ v \notin mounted
  /\ mounted' = mounted \cup {v}
  /\ UNCHANGED <<screen, at, wants>>
  /\ \E m \in AttachMsgs(Views(PageOf[v]) \cup {v}) : Asks(PageOf[v], m)
  /\ UNCHANGED <<serverVars, wire, down, sock, streams, painted, last>>

\* The terminal of a view that goes is disposed.
Disposes(v) ==
  /\ mounted' = mounted \ {v}
  /\ painted' = painted \ {v}
  /\ screen' = [screen EXCEPT ![v] = <<>>]
  /\ at' = [at EXCEPT ![v] = Room[v]]
  /\ wants' = [wants EXCEPT ![v] = Room[v]]

\* The function subscribe returned: detach with the last view only.
Unmounts(v) ==
  LET rest == Views(PageOf[v]) \ {v}
  IN /\ Spends("unmount")
     /\ v \in mounted
     /\ Disposes(v)
     /\ last' = IF last = PageOf[v] /\ rest = {} THEN None ELSE last
     /\ \E m \in IF rest = {} THEN {[t |-> "detach"]} ELSE AttachMsgs(rest) :
          Asks(PageOf[v], m)
     /\ UNCHANGED <<serverVars, wire, down, sock, streams>>

\* A primary view negotiates its geometry.
Resizes(v, z) ==
  /\ Spends("resize")
  /\ v \in mounted \cap Primary
  /\ z # at[v]
  /\ at' = [at EXCEPT ![v] = z]
  /\ wants' = [wants EXCEPT ![v] = z]
  /\ Asks(PageOf[v], [t |-> "resize", size |-> z])
  /\ UNCHANGED <<serverVars, wire, down, sock, streams, mounted, painted,
                 screen, last>>

\* A view takes the keyboard focus.
Focuses(v) ==
  /\ Spends("focus")
  /\ v \in mounted
  /\ last' = PageOf[v]
  /\ Asks(PageOf[v], [t |-> "focus"])
  /\ UNCHANGED <<serverVars, wire, down, sock, streams, viewVars>>

Chunks(after, upto) == [i \in 1..(upto - after) |-> after + i]

\* Mutant: a second attached leaves the views as they are.
Ignores(p, m) ==
  LET fresh == Views(p) \ painted
  IN /\ streams' = [streams EXCEPT ![p] = {m.stream}]
     /\ painted' = painted \cup fresh
     /\ screen' = [v \in View |-> IF v \in fresh THEN Chunks(0, m.upto)
                                                 ELSE screen[v]]
     /\ at' = [v \in View |-> IF v \in fresh THEN m.size ELSE at[v]]

\* case 'attached': under a new stream number, every view is painted again.
Repaints(p, m) ==
  LET again == streams[p] \ {m.stream} # {}
      fresh == IF again THEN Views(p) ELSE Views(p) \ painted
  IN /\ streams' = [streams EXCEPT ![p] = {m.stream}]
     /\ painted' = painted \cup fresh
     /\ screen' = [v \in View |-> IF v \in fresh THEN Chunks(0, m.upto)
                                                 ELSE screen[v]]
     /\ at' = [v \in View |-> IF v \in fresh THEN m.size ELSE at[v]]

\* case 'size'.
Fits(p, m) ==
  /\ at' = [v \in View |-> IF v \in Views(p) THEN m.size ELSE at[v]]
  /\ UNCHANGED <<streams, painted, screen>>

\* handleBinary: to views that are painted, if the stream is known.
Writes(p, m) ==
  /\ screen' = [v \in View |->
       IF v \in Views(p) \cap painted /\ m.stream \in streams[p]
       THEN screen[v] \o Chunks(m.after, m.upto) ELSE screen[v]]
  /\ UNCHANGED <<streams, painted, at>>

\* onmessage.
Receives(p) ==
  /\ sock[p] # None
  /\ down[sock[p]] # <<>>
  /\ down' = [down EXCEPT ![sock[p]] = Tail(@)]
  /\ LET m == Head(down[sock[p]])
     IN \/ m.t = "attached" /\ Repaints(p, m)
        \/ m.t = "size" /\ Fits(p, m)
        \/ m.t = "out" /\ Writes(p, m)
  /\ UNCHANGED <<serverVars, wire, up, sock, mounted, wants, last, left>>

-----------------------------------------------------------------------------

Server ==
  \/ \E k \in Sink : Handles(k) \/ Notices(k) \/ Closes(k)
  \/ Answers
  \/ Produces
  \/ Flushes

Browser ==
  \/ \E p \in Page : Loses(p) \/ Receives(p) \/ \E k \in Sink : Opens(p, k)
  \/ \E v \in View : \/ Mounts(v) \/ Unmounts(v) \/ Focuses(v)
                     \/ \E z \in Size : Resizes(v, z)

Next == Server \/ Browser

Spec == Init /\ [][Next]_vars

-----------------------------------------------------------------------------
(* What the terminal stream promises, and what its comments promise.       *)

\* Whether view v may show chunk n and not those between m and n: its stream was
\* answered with a snapshot of m chunks when more had been sent.
Lacked(v, m, n) ==
  \E z \in short : z.stream \in streams[PageOf[v]] /\ z.upto = m /\ n <= z.sent

\* No screen skips output: what a view drops before it is painted, or under an
\* old stream number, is in the snapshot that paints it next (handleBinary,
\* 'attached'), but for what its own snapshot lacked of what had been sent.
NoGap ==
  \A v \in View : LET s == screen[v] IN
    \A i \in 1..Len(s) :
      LET before == IF i = 1 THEN 0 ELSE s[i - 1]
      IN s[i] <= before + 1 \/ Lacked(v, before, s[i] - 1)

\* Nothing is on its way, and both ends of every connection agree.
Quiet ==
  /\ answering = <<>>
  /\ flushed = produced
  /\ \A k \in Sink : /\ wire[k] # "closing"
                     /\ Open(k) => Read(k) /\ up[k] = <<>> /\ down[k] = <<>>
  /\ \A p \in Page : sock[p] # None /\ Open(sock[p])

\* At rest every view is the session's replica: in the geometry the pty has,
\* and painted to the last byte but for what its snapshot lacked, whatever was mounted, resized, dropped and
\* attached again on the way.
InStep ==
  Quiet => \A v \in mounted :
    /\ v \in painted
    /\ \A n \in 1..produced : \/ \E i \in 1..Len(screen[v]) : screen[v][i] = n
                              \/ \E m \in 0..n - 1 : Lacked(v, m, n)
    /\ at[v] = live.size

\* A connection that has closed holds nothing of the session: no attachment to
\* send to, neither owner (detachAll after pruning, and after an attach that
\* was handled while the socket was closing).
ClosedHoldsNothing ==
  \A k \in Sink : wire[k] = "closed" =>
    k \notin Attached(live) \cup {live.inputOwner, live.sizeOwner}

\* Each attachment has a stream number that was given out before, so that the
\* next number is the greatest: the order of the Map.
InOrder == \A k \in Sink : live.att[k].stream < nextStream

\* The inductive invariant of ClosedHoldsNothing.
IInv == TypeOK /\ InOrder /\ ClosedHoldsNothing
=============================================================================
