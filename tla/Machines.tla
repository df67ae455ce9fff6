------------------------------- MODULE Machines -------------------------------
(***************************************************************************)
(* A gateway with one linked machine: the registry, the merged snapshot    *)
(* and what is remembered of a machine that does not answer (workspace.ts),*)
(* around the relay of one page.  Two reads of the snapshot may be under   *)
(* way at once, and the gateway may restart.                               *)
(***************************************************************************)
EXTENDS Relay

VARIABLES
  servers,   \* the token the machine is registered with, or None
  refused,   \* the machine said so of the token
  lastGood,  \* the machine's last slice: "has", and the sessions it names
  cache,     \* whether its worktrees are in the store
  disk,      \* the last save of servers and cache
  here,      \* the gateway's own sessions: how each is
  reads,     \* the reads of the snapshot under way: at most two
  owed       \* history: its worktrees were merged since it was linked

machinesVars == <<link, current, numbers, there, near, page, chances,
          servers, refused, lastGood, cache, disk, here, reads, owed>>
gateway == <<servers, refused, lastGood, cache, disk, here, reads, owed>>

NoSlice == [has |-> FALSE, names |-> {}]
MaxReads == 2

Runs == UNION {[ids -> {"idle", "blocked"}] : ids \in SUBSET Id}

PageRecord ==
  [up : BOOLEAN, asked : BOOLEAN, tabs : BOOLEAN, panes : SUBSET ScopedId,
   painted : SUBSET ScopedId, streamTo : SUBSET (Nat \X ScopedId),
   row : [ScopedId -> {"absent", "idle", "blocked"}], orphans : SUBSET Id]

Reading == [here : Runs, asks : 0 .. MaxKey, answer : {"", "ok", "off", "refused"},
            there : Runs, owed : BOOLEAN]

MachinesTypeOK ==
  /\ RelayTypeOK
  /\ there \in [up : BOOLEAN, takes : SUBSET (1 .. MaxKey), given : 0 .. MaxKey, runs : Runs]
  /\ page \in PageRecord
  /\ servers \in 0 .. MaxKey /\ refused \in BOOLEAN
  /\ lastGood \in [has : BOOLEAN, names : SUBSET Id]
  /\ cache \in BOOLEAN /\ disk \in [key : 0 .. MaxKey, cache : BOOLEAN]
  /\ here \in Runs /\ owed \in BOOLEAN
  /\ reads \in Seq(Reading) /\ Len(reads) <= MaxReads

Nothing == [id \in {} |-> "idle"]

(* Linked before, perhaps; both machines run what they run. *)
MachinesInit ==
  /\ servers \in {None, 1} /\ cache = FALSE /\ disk = [key |-> servers, cache |-> FALSE]
  /\ here = [id \in Id |-> "idle"]
  /\ there = [up |-> TRUE, takes |-> {1}, given |-> 1, runs |-> [id \in Id |-> "idle"]]
  /\ refused = FALSE /\ lastGood = NoSlice /\ reads = <<>> /\ owed = FALSE
  /\ link = [l \in Link |-> NoLink] /\ current = None
  /\ numbers = [ours |-> 0, theirs |-> 0, near |-> 0] /\ near = {}
  /\ page = [up |-> FALSE, asked |-> TRUE, tabs |-> FALSE, panes |-> {}, painted |-> {}, streamTo |-> {},
             row |-> [s \in ScopedId |-> "absent"], orphans |-> {}]
  /\ chances \in Limits

Invalidated(p) == [p EXCEPT !.asked = @ \/ p.up]

(***************************************************************************)
(* GET /api/snapshot.  What runs here is listed before the machine is      *)
(* asked.                                                                  *)
(***************************************************************************)
ReadStarts ==
  /\ page.asked /\ Len(reads) < MaxReads
  /\ IF reads = <<>> THEN UNCHANGED chances ELSE Takes("overlap")
  /\ page' = [page EXCEPT !.asked = FALSE]
  /\ reads' = Append(reads, [here |-> here, asks |-> servers, answer |-> "",
                             there |-> Nothing, owed |-> owed])
  /\ UNCHANGED <<link, current, numbers, there, near, servers, refused, lastGood, cache, disk, here, owed>>

(* With the token that was registered when the read began. *)
PeerAnswers(i) ==
  /\ reads[i].asks # None /\ reads[i].answer = ""
  /\ \/ /\ there.up /\ reads[i].asks \in there.takes /\ UNCHANGED chances
        /\ reads' = [reads EXCEPT ![i].answer = "ok", ![i].there = there.runs]
     \/ /\ there.up /\ reads[i].asks \notin there.takes /\ UNCHANGED chances
        /\ reads' = [reads EXCEPT ![i].answer = "refused"]
     \/ /\ there.up => chances["line"] > 0
        /\ chances' = IF there.up THEN [chances EXCEPT !["line"] = @ - 1] ELSE chances
        /\ reads' = [reads EXCEPT ![i].answer = "off"]
  /\ UNCHANGED <<link, current, numbers, there, near, page, servers, refused, lastGood, cache, disk, here, owed>>

(* remembered(): the worktrees, and no sessions. *)
Remembers == lastGood.has \/ cache

Listed(runs, id) == IF id \in DOMAIN runs THEN runs[id] ELSE "absent"

(* The answer is merged, and the page shows it. *)
ReadEnds(i) ==
  LET read == reads[i]
      ok == read.answer = "ok"
  IN /\ read.asks # None => read.answer # ""
     /\ lastGood' = IF ok THEN [has |-> TRUE, names |-> DOMAIN read.there] ELSE lastGood
     /\ refused' = IF ok THEN FALSE ELSE refused \/ read.answer = "refused"
     /\ cache' = (cache \/ ok) /\ owed' = (owed \/ (ok /\ servers # None))
     /\ page' = [page EXCEPT
          !.tabs = read.asks # None /\ (ok \/ Remembers),
          !.row = [s \in ScopedId |-> IF s[1] = "here" THEN Listed(read.here, s[2]) ELSE Listed(read.there, s[2])]]
     /\ reads' = RemoveAt(reads, i)
     /\ UNCHANGED <<link, current, numbers, there, near, chances, servers, disk, here>>

(* A tile is drawn only for a session the snapshot lists. *)
PaneLeaves ==
  /\ \E s \in page.panes :
       page.row[s] = "absent" /\ Tells(Unmounted(page, s), s, [t |-> "detach", id |-> s[2]])
  /\ UNCHANGED <<current, there, chances, gateway>>

(***************************************************************************)
(* What the machines do.                                                   *)
(***************************************************************************)

(* To every socket the machine has: the links of this gateway. *)
Pushed(frame) ==
  [l \in Link |-> IF link[l].sock = "open" THEN [link[l] EXCEPT !.down = Append(@, frame)] ELSE link[l]]

Other(how) == IF how = "idle" THEN "blocked" ELSE "idle"

AttentionChanges ==
  /\ Takes("attention")
  /\ \/ \E id \in DOMAIN there.runs :
          /\ there.up
          /\ there' = [there EXCEPT !.runs[id] = Other(@)]
          /\ link' = Pushed(Frame("state", id, 0, Other(there.runs[id])))
          /\ UNCHANGED <<here, page>>
     \/ \E id \in DOMAIN here :
          /\ here' = [here EXCEPT ![id] = Other(@)]
          /\ page' = IF page.up THEN Patched(page, Scoped("here", id), here'[id]) ELSE page
          /\ UNCHANGED <<there, link>>
  /\ UNCHANGED <<current, numbers, near, servers, refused, lastGood, cache, disk, reads, owed>>

Without(runs, id) == [x \in DOMAIN runs \ {id} |-> runs[x]]

(* DELETE /api/sessions/:id, sent on by the proxy to where the session is. *)
Kills ==
  /\ Takes("kill")
  /\ \E s \in ScopedId :
       /\ page.row[s] # "absent"
       /\ IF s[1] = "here"
            THEN /\ here' = Without(here, s[2])
                 /\ near' = {e \in near : e.id # s[2]}
                 /\ page' = Invalidated(page)
                 /\ UNCHANGED <<there, link>>
            ELSE /\ servers \in there.takes /\ there.up
                 /\ there' = [there EXCEPT !.runs = Without(@, s[2])]
                 /\ link' = [l \in Link |->
                      [Pushed(Frame("invalidate", None, 0, ""))[l] EXCEPT
                        !.far = {e \in @ : e.id # s[2]}, !.farFocus = IF @ = s[2] THEN None ELSE @]]
                 /\ UNCHANGED <<here, near, page>>
  /\ UNCHANGED <<current, numbers, servers, refused, lastGood, cache, disk, reads, owed>>

(* The machine restarts, its sessions in tmux do not. *)
TheirStops ==
  /\ there.up /\ Takes("stop")
  /\ there' = [there EXCEPT !.up = FALSE]
  /\ link' = [l \in Link |-> IF link[l].sock \in {"open", "dying", "closing"}
                THEN [link[l] EXCEPT !.sock = IF @ = "open" THEN "dying" ELSE @,
                                     !.up = <<>>, !.far = {}, !.farFocus = None]
                ELSE link[l]]
  /\ UNCHANGED <<current, numbers, near, page, gateway>>

TheirStarts ==
  /\ ~there.up
  /\ there' = [there EXCEPT !.up = TRUE]
  /\ numbers' = [numbers EXCEPT !.theirs = 0]
  /\ UNCHANGED <<link, current, near, page, chances, gateway>>

PasswordChanges ==
  /\ Takes("password")
  /\ there' = [there EXCEPT !.takes = {}]
  /\ UNCHANGED <<link, current, numbers, near, page, gateway>>

(***************************************************************************)
(* The registry, and the gateway's own life.                               *)
(***************************************************************************)

(* addServer: a new token for the password, and sockets for the token. *)
Links ==
  /\ there.up /\ there.given < MaxKey /\ Takes("link")
  /\ LET token == there.given + 1
     IN /\ there' = [there EXCEPT !.given = token, !.takes = @ \cup {token}]
        /\ servers' = token
        /\ Synced(Invalidated(page), link, token)
  /\ refused' = FALSE
  /\ UNCHANGED <<numbers, near, lastGood, cache, disk, here, reads, owed>>

(* removeServer *)
Unlinks ==
  /\ servers # None /\ Takes("unlink")
  /\ servers' = None /\ refused' = FALSE /\ lastGood' = NoSlice /\ cache' = FALSE /\ owed' = FALSE
  /\ reads' = [i \in DOMAIN reads |-> [reads[i] EXCEPT !.owed = FALSE]]
  /\ Synced(Invalidated(page), link, None)
  /\ UNCHANGED <<numbers, there, near, disk, here>>

(* The store's debounced save, or its flush. *)
Saved == [key |-> servers, cache |-> cache]

Saves ==
  /\ disk # Saved
  /\ disk' = Saved
  /\ UNCHANGED <<link, current, numbers, there, near, page, chances,
                 servers, refused, lastGood, cache, here, reads, owed>>

(* In order, or with what was not saved lost. *)
GatewayRestarts ==
  /\ Takes("restart")
  /\ \E loaded \in {disk, Saved} :
       /\ disk' = loaded /\ servers' = loaded.key /\ cache' = loaded.cache /\ owed' = (loaded.cache /\ loaded.key # None)
  /\ refused' = FALSE /\ lastGood' = NoSlice /\ reads' = <<>>
  /\ RelayGone
  /\ numbers' = [numbers EXCEPT !.near = 0]
  /\ UNCHANGED <<there, here>>

(***************************************************************************)

Known == {s \in ScopedId : lastGood.has /\ s[2] \in lastGood.names}

RelayNext ==
  /\ \/ Mounts \/ Unmounts \/ Focuses \/ PageDrops \/ PageReturns(servers)
     \/ \E l \in Link : LinkOpens(l) \/ LinkCloses(l) \/ LinkRetries(l)
                        \/ FarTakes(l) \/ FarOutputs(l) \/ LinkHears(l, Known)
  /\ UNCHANGED gateway

MachinesNext ==
  \/ RelayNext
  \/ ReadStarts \/ \E i \in DOMAIN reads : PeerAnswers(i) \/ ReadEnds(i)
  \/ PaneLeaves \/ AttentionChanges \/ Kills
  \/ TheirStops \/ TheirStarts \/ PasswordChanges
  \/ Links \/ Unlinks \/ Saves \/ GatewayRestarts

MachinesSpec == MachinesInit /\ [][MachinesNext]_machinesVars

-----------------------------------------------------------------------------
(* What is checked.                                                        *)

(* This machine's engine has not counted as far as the numbers the relay   *)
(* gives (relay.ts:32).                                                    *)
Apart == numbers.near <= Base

(* What a stream of the page shows: bytes of the session it is for.  A     *)
(* stream number is given by two engines and a relay, and a machine that   *)
(* restarted counts from one again (relay.ts:31, 134, 156; socket.ts:172). *)
Shows(no, s) == \A e \in page.streamTo : e[1] = no => e[2] = s

OutputToOwner ==
  page.up /\ Apart =>
    /\ \A e \in near : Shows(e.no, Scoped("here", e.id))
    /\ \A l \in Link :
         ~link[l].mute /\ link[l].down # <<>> /\ Head(link[l].down).t = "output" =>
           \A no \in OursOf(l, Head(link[l].down).no) : Shows(no, Scoped("there", Head(link[l].down).id))

(* When nothing is on its way, every pane of a session there that was       *)
(* mounted under the token that is registered shows its session, end to    *)
(* end; the machine holds no attachment without a pane, and gives the      *)
(* keyboard to the session that was clicked last (relay.ts:46-68, 92-97,   *)
(* 199-226).  Panes mounted under another link, or answered by one, are    *)
(* not claimed for.                                                        *)
Settled ==
  /\ page.up /\ current # None /\ there.up /\ ~page.asked /\ reads = <<>> /\ Apart
  /\ link[current].sock = "open" /\ link[current].up = <<>> /\ link[current].down = <<>>
  /\ \A s \in page.panes : page.row[s] # "absent"

FedBy(l, s) ==
  /\ s \in page.painted
  /\ \E e \in link[l].far : \E x \in link[l].streams :
       e.id = s[2] /\ x.theirs = e.no /\ <<x.ours, s>> \in page.streamTo

Fed ==
  Settled =>
    /\ \A s \in page.panes :
         s[1] = "there" /\ s[2] \in DOMAIN there.runs \ page.orphans => FedBy(current, s)
    /\ \A e \in link[current].far : Scoped("there", e.id) \in page.panes
    /\ link[current].focused \in DOMAIN there.runs \ page.orphans =>
         link[current].farFocus = link[current].focused
=============================================================================
