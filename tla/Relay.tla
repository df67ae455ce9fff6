-------------------------------- MODULE Relay --------------------------------
(***************************************************************************)
(* One browser's socket, extended to a linked machine (remote/relay.ts,    *)
(* remote/scope.ts): the links the gateway holds to it, one after another, *)
(* what each remembers for the browser, the numbers it gives the machine's *)
(* streams, and the page at the end of it (web/src/socket.ts).  A frame    *)
(* takes its time between the two machines, none between page and gateway. *)
(***************************************************************************)
EXTENDS Naturals, SequencesExt

CONSTANTS
  Id,       \* session ids: any machine may use any of them
  Base,     \* GATEWAY_STREAM_BASE
  MaxLink,  \* bound on the links there are at once
  MaxKey,   \* bound on the tokens the machine has given out
  Limits    \* bounds: how many of each may happen, one function per scenario

Happening == {"mount", "unmount", "focus", "output", "drop", "line", "stop", "password", "link",
              "unlink", "attention", "kill", "restart", "overlap"}

None == 0
Machine == {"here", "there"}

(* scopeId: the same id on two machines is two sessions. *)
Scoped(m, id) == <<m, id>>
ScopedId == {Scoped(m, id) : m \in Machine, id \in Id}

ASSUME RelayAssumption ==
  /\ IsFiniteSet(Id) /\ None \notin Id
  /\ {Base, MaxLink, MaxKey} \subseteq Nat \ {0}
  /\ Limits \subseteq [Happening -> Nat]

VARIABLES
  link,     \* the links, by number: PeerLink
  current,  \* the one the browser's relay uses, or None: Relay.links
  numbers,  \* nextStream, the machine's nextStreamId and this one's
  there,    \* the linked machine
  near,     \* what is attached here: the stream of each local session
  page,     \* the page
  chances   \* what is left of the limits

relayVars == <<link, current, numbers, there, near, page, chances>>

Link == 1 .. MaxLink

(* A socket is "dying" while only the other machine knows that it is gone, *)
(* and a link "mute" once its browser's socket is.                         *)
NoLink == [key |-> None, closed |-> TRUE, sock |-> "none", timer |-> FALSE, mute |-> FALSE, attached |-> {},
           focused |-> None, streams |-> {}, up |-> <<>>, down |-> <<>>, far |-> {}, farFocus |-> None]

Takes(what) == chances[what] > 0 /\ chances' = [chances EXCEPT ![what] = @ - 1]

(* What a link carries to the machine, and what comes back.                *)
ToMachine == [t : {"attach", "detach", "focus"}, id : Id]
FromMachine ==
  [t : {"attached", "output", "error"}, id : Id, no : Nat, says : {""}]
  \cup [t : {"state"}, id : Id, no : Nat, says : {"idle", "blocked"}]
  \cup [t : {"invalidate"}, id : {None}, no : Nat, says : {""}]

LinkRecord ==
  [key : 0 .. MaxKey, closed : BOOLEAN, sock : {"none", "dialing", "open", "dying", "closing"},
   timer : BOOLEAN, mute : BOOLEAN, attached : SUBSET Id, focused : Id \cup {None},
   streams : SUBSET [theirs : Nat, ours : Nat, id : Id],
   up : Seq(ToMachine), down : Seq(FromMachine),
   far : SUBSET [id : Id, no : Nat], farFocus : Id \cup {None}]

RelayTypeOK ==
  /\ link \in [Link -> LinkRecord]
  /\ current \in Link \cup {None}
  /\ numbers \in [ours : Nat, theirs : Nat, near : Nat]
  /\ near \subseteq [id : Id, no : Nat]
  /\ chances \in [Happening -> Nat]

(***************************************************************************)
(* The page.                                                               *)
(***************************************************************************)

(* handleJson "attached": what a session was called before is forgotten,   *)
(* and its panes are painted anew.                                         *)
Attached(p, names) ==
  LET again == {n[2] : n \in names}
  IN [p EXCEPT !.streamTo = {e \in @ : e[2] \notin again /\ \A n \in names : n[1] # e[1]} \cup names,
               !.painted = @ \cup (p.panes \cap again)]

(* handleJson "error": the pane is told, and dropped. *)
Gone(p, s) == [p EXCEPT !.panes = @ \ {s}, !.painted = @ \ {s}]

Patched(p, s, says) == [p EXCEPT !.row[s] = IF @ = "absent" THEN @ ELSE says]

(***************************************************************************)
(* A link.                                                                 *)
(***************************************************************************)

(* As if a frame for a machine that is away were just dropped. *)
ForgetsWhileAway(k, msg) ==
  IF k.sock # "open" THEN k
  ELSE [k EXCEPT !.attached = IF msg.t = "attach" THEN @ \cup {msg.id} ELSE @ \ {msg.id}]

Recorded(k, msg) ==
  CASE msg.t = "attach" -> [k EXCEPT !.attached = @ \cup {msg.id}]
    [] msg.t = "focus"  -> [k EXCEPT !.focused = msg.id]
    [] OTHER -> [k EXCEPT !.attached = @ \ {msg.id},
                          !.focused = IF @ = msg.id THEN None ELSE @,
                          !.streams = {e \in @ : e.id # msg.id}]

Written(k, msgs) == IF k.sock = "open" THEN [k EXCEPT !.up = @ \o msgs] ELSE k

Sent(k, msg) == Written(Recorded(k, msg), <<msg>>)

Replay(k) ==
  LET claims == SetToSeq(k.attached)
  IN [i \in DOMAIN claims |-> [t |-> "attach", id |-> claims[i]]]
     \o IF k.focused = None THEN <<>> ELSE <<[t |-> "focus", id |-> k.focused]>>

(* The socket is gone, and what was on its way with it. *)
Hung(k) == [k EXCEPT !.sock = "none", !.streams = {}, !.up = <<>>, !.down = <<>>, !.far = {},
                     !.farFocus = None]

(* dispose(): what the machine had already sent is still heard. *)
Disposed(k) == [k EXCEPT !.closed = TRUE, !.attached = {}, !.focused = None,
                         !.sock = IF @ \in {"open", "dying"} THEN "closing" ELSE "none"]

Opened(k) == IF k.closed THEN NoLink ELSE [k EXCEPT !.timer = FALSE, !.sock = "dialing"]

(***************************************************************************)
(* Relay.sync, with the key the machine is registered under, or None.  A   *)
(* link that is replaced takes what it was asked to attach with it.        *)
(***************************************************************************)
Free == {l \in Link : link[l] = NoLink}

(* Of the page p and the links k. *)
Synced(p, k, key) ==
  LET stays == current # None /\ k[current].key = key
      parts == current # None /\ ~stays
      gone == IF parts THEN [k EXCEPT ![current] = Disposed(@)] ELSE k
  IN /\ page' = IF parts THEN [p EXCEPT !.orphans = @ \cup k[current].attached] ELSE p
     /\ IF ~p.up \/ stays THEN link' = k /\ UNCHANGED current
        ELSE IF key = None THEN link' = gone /\ current' = None
        ELSE /\ Free # {}
             /\ current' = CHOOSE l \in Free : TRUE
             /\ link' = [gone EXCEPT ![current'] =
                  [NoLink EXCEPT !.key = key, !.closed = FALSE, !.sock = "dialing"]]

(***************************************************************************)
(* The page's panes.                                                       *)
(***************************************************************************)

NearNo(id) ==
  IF \E e \in near : e.id = id THEN (CHOOSE e \in near : e.id = id).no ELSE numbers.near + 1

(* A local session answers at once; a remote one through its link, if any. *)
Tells(p, s, msg) ==
  IF ~p.up THEN page' = p /\ UNCHANGED <<link, numbers, near>>
  ELSE IF s[1] = "there"
    THEN /\ page' = IF current = None /\ msg.t = "attach" THEN [p EXCEPT !.orphans = @ \cup {s[2]}] ELSE p
         /\ link' = IF current = None THEN link ELSE [link EXCEPT ![current] = Sent(@, msg)]
         /\ UNCHANGED <<numbers, near>>
    ELSE /\ near' = CASE msg.t = "attach" -> near \cup {[id |-> msg.id, no |-> NearNo(msg.id)]}
                      [] msg.t = "detach" -> {e \in near : e.id # msg.id}
                      [] OTHER -> near
         /\ page' = IF msg.t = "attach" THEN Attached(p, {<<NearNo(msg.id), s>>}) ELSE p
         /\ numbers' = IF msg.t = "attach" /\ \A e \in near : e.id # msg.id
                        THEN [numbers EXCEPT !.near = @ + 1] ELSE numbers
         /\ UNCHANGED link

Mounts ==
  /\ Takes("mount")
  /\ \E s \in ScopedId :
       /\ page.row[s] # "absent" /\ s \notin page.panes
       /\ Tells([page EXCEPT !.panes = @ \cup {s}], s, [t |-> "attach", id |-> s[2]])
  /\ UNCHANGED <<current, there>>

Unmounted(p, s) == [Gone(p, s) EXCEPT !.orphans = IF s[1] = "there" THEN @ \ {s[2]} ELSE @]

Unmounts ==
  /\ Takes("unmount")
  /\ \E s \in page.panes : Tells(Unmounted(page, s), s, [t |-> "detach", id |-> s[2]])
  /\ UNCHANGED <<current, there>>

Focuses ==
  /\ Takes("focus")
  /\ \E s \in page.panes : s[1] = "there" /\ Tells(page, s, [t |-> "focus", id |-> s[2]])
  /\ UNCHANGED <<current, there>>

(* The page's socket goes, and its relay with it. *)
RelayGone ==
  /\ page' = [page EXCEPT !.up = FALSE]
  /\ link' = [l \in Link |-> IF link[l] = NoLink THEN NoLink
               ELSE [(IF l = current THEN Disposed(link[l]) ELSE link[l]) EXCEPT !.mute = TRUE]]
  /\ current' = None /\ near' = {}

PageDrops ==
  /\ page.up /\ Takes("drop")
  /\ RelayGone
  /\ UNCHANGED <<numbers, there>>

Theirs(p) == {s[2] : s \in {x \in p.panes : x[1] = "there"}}

(* Another relay, and everything this page shows is claimed again. *)
Returned(p, key) ==
  LET mine == SetToSeq({s \in p.panes : s[1] = "here"})
      names == {<<numbers.near + i, mine[i]>> : i \in DOMAIN mine}
  IN /\ numbers' = [numbers EXCEPT !.ours = 0, !.near = @ + Len(mine)]
     /\ near' = {[id |-> n[2][2], no |-> n[1]] : n \in names}
     /\ page' = Attached([p EXCEPT !.up = TRUE, !.painted = {},
                                    !.orphans = IF key = None THEN Theirs(p) ELSE {}], names)

(* The sockets of another relay. *)
PageReturns(key) ==
  /\ ~page.up
  /\ Returned(page, key)
  /\ IF key = None THEN UNCHANGED <<link, current>>
     ELSE /\ Free # {}
          /\ current' = CHOOSE l \in Free : TRUE
          /\ link' = [link EXCEPT ![current'] =
               [NoLink EXCEPT !.key = key, !.closed = FALSE, !.sock = "dialing",
                              !.attached = Theirs(page)]]
  /\ UNCHANGED <<there, chances>>

(***************************************************************************)
(* The sockets between the machines.                                       *)
(***************************************************************************)
Accepted(l) == there.up /\ link[l].key \in there.takes

(* Everything the browser still has open is claimed again, and what was    *)
(* missed is asked for.                                                    *)
LinkOpens(l) ==
  /\ link[l].sock = "dialing" /\ Accepted(l)
  /\ link' = [link EXCEPT ![l] = Written([@ EXCEPT !.sock = "open"], Replay(@))]
  /\ page' = [page EXCEPT !.asked = @ \/ page.up]
  /\ UNCHANGED <<current, numbers, there, near, chances>>

(* Refused, or the machine is off, or the line went.                       *)
LinkCloses(l) ==
  /\ \/ link[l].sock \in {"dialing", "open"} /\ ~Accepted(l) /\ UNCHANGED chances
     \/ link[l].sock \in {"dying", "closing"} /\ UNCHANGED chances
     \/ link[l].sock \in {"dialing", "open"} /\ Takes("line")
  /\ link' = [link EXCEPT ![l] = IF ~@.closed THEN [Hung(@) EXCEPT !.timer = TRUE]
                                  ELSE IF @.timer THEN Hung(@) ELSE NoLink]
  /\ UNCHANGED <<current, numbers, there, near, page>>

LinkRetries(l) ==
  /\ link[l].timer
  /\ link' = [link EXCEPT ![l] = Opened(@)]
  /\ UNCHANGED <<current, numbers, there, near, page, chances>>

Frame(t, id, no, says) == [t |-> t, id |-> id, no |-> no, says |-> says]

(* The machine's engine takes a frame: an attachment that is there keeps   *)
(* its stream, and is answered with the screen and with how it is.         *)
FarTakes(l) ==
  /\ link[l].up # <<>> /\ there.up
  /\ LET msg == Head(link[l].up)
         has == {e \in link[l].far : e.id = msg.id}
         no == IF has # {} THEN (CHOOSE e \in has : TRUE).no ELSE numbers.theirs + 1
         took == [link[l] EXCEPT !.up = Tail(@)]
         runs == msg.id \in DOMAIN there.runs
     IN /\ link' = [link EXCEPT ![l] =
             CASE msg.t = "attach" /\ runs ->
                    [took EXCEPT !.down = @ \o <<Frame("attached", msg.id, no, ""),
                                                 Frame("state", msg.id, 0, there.runs[msg.id])>>,
                                 !.far = @ \cup {[id |-> msg.id, no |-> no]}]
               [] msg.t = "attach" /\ ~runs ->
                    [took EXCEPT !.down = Append(@, Frame("error", msg.id, 0, ""))]
               [] msg.t = "detach" ->
                    [took EXCEPT !.far = @ \ has, !.farFocus = IF @ = msg.id THEN None ELSE @]
               [] OTHER -> [took EXCEPT !.farFocus = IF has # {} THEN msg.id ELSE @]]
        /\ numbers' = IF msg.t = "attach" /\ runs /\ has = {} THEN [numbers EXCEPT !.theirs = no]
                       ELSE numbers
  /\ UNCHANGED <<current, there, near, page, chances>>

FarOutputs(l) ==
  /\ there.up /\ Takes("output")
  /\ \E e \in link[l].far :
       link' = [link EXCEPT ![l].down = Append(@, Frame("output", e.id, e.no, ""))]
  /\ UNCHANGED <<current, numbers, there, near, page>>

(***************************************************************************)
(* What the link hears.                                                    *)
(***************************************************************************)

(* As if the gateway numbered streams like any engine. *)
FromOne(n) == n
OurNo(n) == Base + n

(* forwardOutput: renumbered, or dropped. *)
OursOf(l, no) == {e.ours : e \in {x \in link[l].streams : x.theirs = no}}

LinkHears(l, known) ==
  /\ link[l].down # <<>>
  /\ LET msg == Head(link[l].down)
         s == Scoped("there", msg.id)
         heard == [link EXCEPT ![l].down = Tail(@)]
         ours == OurNo(numbers.ours + 1)
     IN IF msg.t = "attached"
          THEN /\ link' = [heard EXCEPT ![l].streams = {e \in @ : e.theirs # msg.no} \cup
                              {[theirs |-> msg.no, ours |-> ours, id |-> msg.id]}]
               /\ IF link[l].mute THEN UNCHANGED <<numbers, page>>
                  ELSE /\ numbers' = [numbers EXCEPT !.ours = @ + 1]
                       /\ page' = [Attached(page, {<<ours, s>>}) EXCEPT
                            !.orphans = IF l = current THEN @ ELSE @ \cup {msg.id}]
          ELSE /\ link' = heard
               /\ page' = IF link[l].mute THEN page
                  ELSE CASE msg.t = "error" -> Gone(page, s)
                         [] msg.t = "state" -> IF s \in known THEN Patched(page, s, msg.says) ELSE page
                         [] msg.t = "invalidate" -> [page EXCEPT !.asked = TRUE]
                         [] OTHER -> page
               /\ UNCHANGED numbers
  /\ UNCHANGED <<current, there, near, chances>>
=============================================================================
