--------------------------------- MODULE Row ---------------------------------
(***************************************************************************)
(* One page's row of windows over the server it shows: the snapshots it    *)
(* reads and the order they land in, the layout it owns and saves          *)
(* (web/src/store.ts), what has been clicked and not been read back, which *)
(* panels close by themselves and where the keyboard is (web/src/App.tsx,  *)
(* views/TerminalsPane.tsx, views/TodoPane.tsx, selectors.ts).             *)
(*                                                                         *)
(* The server is what a snapshot of it says (routes/api.ts); other pages,  *)
(* the agents and the dispatcher change it too.                            *)
(***************************************************************************)
EXTENDS RowLayout

CONSTANTS
  InOrder,  \* the project's worktrees but the main one, as the row orders them
  Read,     \* slots for snapshot reads under way
  Call,     \* slots for requests under way
  MaxTerm,  \* bound on the terminals of a worktree
  MaxWrite, \* bound on the layout writes under way
  Starts,   \* what the page may find
  Limits    \* how often each thing from outside happens, one mix a behaviour

Worktree == {InOrder[i] : i \in 1..Len(InOrder)}
Outside == {"wake", "sleep", "remove", "toggle", "close", "step", "tab", "file",
            "days", "reload", "exit", "drain", "other", "fault", "drop"}

ASSUME RowAssumption ==
  /\ InOrder \in Seq(Worktree)
  /\ \A i, j \in 1..Len(InOrder) : InOrder[i] = InOrder[j] => i = j
  /\ {"project", "machine", "none"} \cap Worktree = {}
  /\ Starts \subseteq [awake : SUBSET Worktree, terms : [Worktree -> Nat],
                       queued : SUBSET Worktree,
                       panels : [Worktree -> {"none", "terminals", "todo", "files"}],
                       files : [Worktree -> BOOLEAN],
                       where : Worktree \cup {"project", "machine"}]
  /\ {MaxTerm, MaxWrite} \subseteq Nat \ {0}
  /\ \A l \in Limits : l \in [Outside -> Nat]

VARIABLES
  server,  \* what a snapshot says: worktrees, awake ones, terminals, queued todos
  stored,  \* PersistedState.ui
  told,    \* invalidates on their way to the page
  reads,   \* GET /api/snapshot under way
  calls,   \* requests under way
  writes,  \* PATCH /api/ui under way, in the order they were sent
  page,    \* the page: its store and App's state
  strayed, \* history: a layout write was lost or overtaken, or left behind by a
           \* reload
  unsaid,  \* history: why the page was not told of the server's last change
  lost,    \* history: the worktrees put to sleep with their terminals panel open
  clicked, \* history: the last of wake and sleep clicked on each, unless that had
           \* been clicked before and not been read back
  left

outsidePage == <<server, stored, told, reads, calls, writes>>
history == <<strayed, unsaid, lost, clicked>>
vars == <<outsidePage, page, history, left>>

Spends(k) == left[k] > 0 /\ left' = [left EXCEPT ![k] = @ - 1]

Nowhere == [id |-> "none", pane |-> "none"]
At(id, pane) == [id |-> id, pane |-> pane]

\* UiState, what of it is modelled.
Key == {"panels", "files", "where", "days"}

(***************************************************************************)
(* The page, as it renders.                                                *)
(***************************************************************************)

\* awake: the worktrees with a window.
Shown(p) ==
  {w \in p.seen.there : \/ p.pending[w] = "awake"
                        \/ p.pending[w] = "none" /\ w \in p.seen.awake}

\* Of S, in the row's order.
Ordered(S) ==
  LET upTo[i \in 0..Len(InOrder)] ==
        IF i = 0 THEN <<>>
        ELSE IF InOrder[i] \in S THEN Append(upTo[i - 1], InOrder[i]) ELSE upTo[i - 1]
  IN upTo[Len(InOrder)]

Windows(p) == Ordered(Shown(p))
LastIn(S) == Ordered(S)[Len(Ordered(S))]
FirstIn(S) == Ordered(S)[1]

\* What a window's panel asks of the layout.
PanelOf(p) ==
  [w \in Worktree |-> IF p.ui.panels[w] = "files" /\ ~p.ui.files[w] THEN "tree"
                      ELSE p.ui.panels[w]]

\* Mutant: a change replaces the changes that wait to be written.
SetLast(p, key, value) == [p EXCEPT !.ui[key] = value, !.patch = {key}]

\* setUi.
SetUi(p, key, value) == [p EXCEPT !.ui[key] = value, !.patch = @ \cup {key}]

SetPanel(p, w, panel) == SetUi(p, "panels", [p.ui.panels EXCEPT ![w] = panel])

\* reveal.
Reveal(p, id, pane) == [p EXCEPT !.active = At(id, pane)]

\* Whether w's panel was on screen before a render and still is.
Stays(old, new, w, panel) ==
  /\ old.loaded
  /\ w \in Shown(old) \cap Shown(new)
  /\ old.ui.panels[w] = panel /\ new.ui.panels[w] = panel

\* Mutant: the panel closes with its terminals however they went.
AnyEnded(old, new) ==
  {w \in Worktree : Stays(old, new, w, "terminals")
     /\ old.seen.terms[w] > 0 /\ new.seen.terms[w] = 0}

\* TerminalsTabs' effect with terminalsGone: the last one went, but not to sleep.
Ended(old, new) ==
  {w \in Worktree : /\ Stays(old, new, w, "terminals")
                    /\ old.seen.terms[w] > 0 /\ new.seen.terms[w] = 0
                    /\ new.pending[w] # "asleep" /\ w \in new.seen.awake}

\* TodoPane's effect: the last todo was queued, and has gone.
Drained(old, new) ==
  {w \in Worktree : /\ Stays(old, new, w, "todo")
                    /\ w \in old.seen.queued /\ w \notin new.seen.queued}

\* terminalsGone and queueDrained, of each window in turn.  Each writes the
\* panels of this render with its own closed, so the last one wins.
Closes(old, new) ==
  LET closing == Ended(old, new) \cup Drained(old, new)
      takes == Ended(old, new)
                 \cup {w \in Drained(old, new) : new.active = At(w, "todo")}
      closed == IF closing = {} THEN new ELSE SetPanel(new, LastIn(closing), "none")
  IN IF takes = {} THEN closed ELSE Reveal(closed, LastIn(takes), "claude")

\* The effect that forgets the layout of worktrees that are gone; it runs after
\* those and with the same render's panels.
Forgets(new, p) ==
  LET gone == Worktree \ new.seen.there
      panels == [w \in Worktree |-> IF w \in gone THEN "none" ELSE new.ui.panels[w]]
      files == [w \in Worktree |-> new.ui.files[w] /\ w \notin gone]
      known == new.loaded /\ new.seen.there # {}
      first == IF known /\ panels # new.ui.panels THEN SetUi(p, "panels", panels) ELSE p
  IN IF known /\ files # new.ui.files THEN SetUi(first, "files", files) ELSE first

\* The effect of the first render with somewhere to be.
Arrives(p) ==
  LET where == p.ui.where
  IN IF p.started \/ ~p.loaded THEN p
     ELSE IF where = "machine" \/ (where = "project" /\ p.adopted)
       THEN Reveal([p EXCEPT !.started = TRUE], where, where)
     ELSE IF Shown(p) = {} THEN p
     ELSE Reveal([p EXCEPT !.started = TRUE],
                 IF where \in Shown(p) THEN where ELSE FirstIn(Shown(p)), "claude")

\* The effect that remembers where you are.
Remembers(p) ==
  IF p.started /\ p.active # Nowhere /\ p.ui.where # p.active.id
  THEN SetUi(p, "where", p.active.id) ELSE p

\* A render, and what its effects make of it.
Rendered(old, new) == Remembers(Arrives(Forgets(new, Closes(old, new))))
Renders(new) == page' = Rendered(page, new)

(***************************************************************************)
(* Snapshots.                                                              *)
(***************************************************************************)

Nothing == [op |-> "none", w |-> "none"]
NoSnap == [server |-> [there |-> {}, awake |-> {}, terms |-> [w \in Worktree |-> 0], queued |-> {}],
           ui |-> [panels |-> [w \in Worktree |-> "none"], files |-> [w \in Worktree |-> FALSE],
                   where |-> "none", days |-> 0]]
FreeRead == [at |-> "free", snap |-> NoSnap, then |-> Nothing, before |-> {}, stale |-> FALSE]

\* refresh(), with what its caller does once it has settled.
Refreshes(then) ==
  \E r \in Read :
    /\ reads[r].at = "free" /\ \A q \in Read : q < r => reads[q].at # "free"
    /\ reads' = [reads EXCEPT ![r].at = "asked", ![r].then = then]

\* Mutant: a refresh under way is taken to be news enough.
HearsOnce ==
  /\ told > 0
  /\ told' = told - 1
  /\ IF \E r \in Read : reads[r].at # "free" THEN UNCHANGED reads ELSE Refreshes(Nothing)
  /\ UNCHANGED <<server, stored, calls, writes, page, history, left>>

\* onInvalidate.
Hears ==
  /\ told > 0
  /\ told' = told - 1
  /\ Refreshes(Nothing)
  /\ UNCHANGED <<server, stored, calls, writes, page, history, left>>

\* The server answers with what is true then.
Snapshots(r) ==
  /\ reads[r].at = "asked"
  /\ reads' = [reads EXCEPT ![r].at = "taken",
                            ![r].snap = [server |-> server, ui |-> stored],
                            ![r].before = {q \in Read : reads[q].at = "taken"}]
  /\ UNCHANGED <<server, stored, told, calls, writes, page, history, left>>

\* Mutant: a click's mark goes with the first refresh that was waited for.
SettlesAny(p, then) ==
  CASE then.op \in {"wake", "sleep"} -> [p EXCEPT !.pending[then.w] = "none"]
    [] then.op = "remove" -> [p EXCEPT !.departing = @ \ {then.w}]
    [] OTHER -> p

\* What was waiting for the refresh: a click's mark, a departing window.
Settles(p, then) ==
  CASE then.op \in {"wake", "sleep"} ->
         IF p.pending[then.w] = (IF then.op = "wake" THEN "awake" ELSE "asleep")
         THEN [p EXCEPT !.pending[then.w] = "none"] ELSE p
    [] then.op = "remove" -> [p EXCEPT !.departing = @ \ {then.w}]
    [] OTHER -> p

\* The read is over, and those taken before it and still on their way are stale.
Over(r) ==
  LET older == IF reads[r].at = "taken" THEN reads[r].before
               ELSE {q \in Read : reads[q].at = "taken"}
  IN reads' = [q \in Read |-> IF q = r THEN FreeRead
                              ELSE [reads[q] EXCEPT !.stale = @ \/ q \in older,
                                                    !.before = @ \ {r}]]

\* The snapshot is taken; of the layout only the first time, but for the days.
Taken(p, r, first) ==
  [p EXCEPT !.seen = reads[r].snap.server,
            !.ui = IF first THEN reads[r].snap.ui
                   ELSE IF "days" \in p.patch THEN @
                   ELSE [@ EXCEPT !.days = reads[r].snap.ui.days],
            !.loaded = TRUE,
            !.adopted = TRUE,
            !.fresh = ~reads[r].stale]

\* Mutant: the layout is the server's when nothing has been read or failed yet.
AdoptsUnlessLoaded(p, r) == Taken(p, r, ~p.loaded)

\* The layout is the server's when none of it was taken yet.
Adopts(p, r) == Taken(p, r, ~p.adopted)

\* Then, in a render of its own, what waited for the refresh.
Lands(r) ==
  /\ reads[r].at = "taken"
  /\ Over(r)
  /\ LET read == Rendered(page, Adopts(page, r))
     IN page' = Rendered(read, Settles(read, reads[r].then))
  /\ UNCHANGED <<server, stored, told, calls, writes, history, left>>

\* refresh() catches: the banner says the page is out of touch.
ReadFails(r) ==
  /\ Spends("fault")
  /\ reads[r].at # "free"
  /\ Over(r)
  /\ LET failed == Rendered(page, [page EXCEPT !.fresh = FALSE, !.loaded = TRUE])
     IN page' = Rendered(failed, Settles(failed, reads[r].then))
  /\ UNCHANGED <<server, stored, told, calls, writes, history>>

(***************************************************************************)
(* The layout.                                                             *)
(***************************************************************************)

\* The debounce ends.
Saves ==
  /\ page.patch # {}
  /\ Len(writes) < MaxWrite
  /\ writes' = Append(writes, [of |-> [k \in page.patch |-> page.ui[k]], mine |-> TRUE])
  /\ page' = [page EXCEPT !.patch = {}]
  /\ UNCHANGED <<server, stored, told, reads, calls, history, left>>

\* The broadcast invalidate, which a page hears whose socket is open.  Two on
\* their way are as good as more.
Tells ==
  /\ told' = IF page.link # "open" \/ told = 2 THEN told ELSE told + 1
  /\ unsaid' = IF page.link = "open" THEN "told" ELSE page.link

Without(s, i) == SubSeq(s, 1, i - 1) \o SubSeq(s, i + 1, Len(s))

\* PATCH /api/ui: merged key by key; the days are announced.
SaveLands(i) ==
  LET body == writes[i].of
  IN /\ stored' = [k \in Key |-> IF k \in DOMAIN body THEN body[k] ELSE stored[k]]
     /\ writes' = Without(writes, i)
     /\ IF "days" \in DOMAIN body THEN Tells ELSE UNCHANGED <<told, unsaid>>
     /\ strayed' = (strayed \/ ~writes[i].mine
                     \/ \E j \in 1..(i - 1) : DOMAIN body \cap DOMAIN writes[j].of # {})
     /\ UNCHANGED <<server, reads, calls, page, lost, clicked, left>>

\* api.patchUi(...).catch(() => {}).
SaveFails(i) ==
  /\ Spends("fault")
  /\ writes' = Without(writes, i)
  /\ strayed' = TRUE
  /\ UNCHANGED <<server, stored, told, reads, calls, page, unsaid, lost, clicked>>

\* Another page changes the days you work.
DaysChange ==
  /\ Spends("days")
  /\ stored' = [stored EXCEPT !.days = 1 - @]
  /\ Tells
  /\ UNCHANGED <<server, reads, calls, writes, page, strayed, lost, clicked>>

(***************************************************************************)
(* Requests.                                                               *)
(***************************************************************************)

Idle == [op |-> "idle", w |-> "none", at |-> "idle", mine |-> FALSE]

\* fetch().
Asks(op, w, mine) ==
  \E c \in Call :
    /\ calls[c] = Idle /\ \A d \in Call : d < c => calls[d] # Idle
    /\ calls' = [calls EXCEPT ![c] = [op |-> op, w |-> w, at |-> "asked", mine |-> mine]]

\* A terminals panel the server's sleep is about to empty, and no snapshot on its
\* way from before says that it was empty already.
TerminalsOpen(w) ==
  /\ page.adopted /\ page.ui.panels[w] = "terminals" /\ server.terms[w] > 0
  /\ \A r \in Read : reads[r].at = "taken" => reads[r].snap.server.terms[w] > 0

\* Mutant: what runs is killed before the worktree is said to be asleep.
KillsFirst(c) ==
  LET w == calls[c].w
  IN \/ /\ calls[c].at = "asked"
        /\ calls' = [calls EXCEPT ![c].at = "half"]
        /\ server' = [server EXCEPT !.terms[w] = 0]
        /\ lost' = IF TerminalsOpen(w) THEN lost \cup {w} ELSE lost
        /\ unsaid' = "half"
        /\ UNCHANGED told
     \/ /\ calls[c].at = "half"
        /\ calls' = [calls EXCEPT ![c].at = "done"]
        /\ server' = [server EXCEPT !.awake = @ \ {w}]
        /\ Tells
        /\ UNCHANGED lost

\* POST /api/worktrees/:id/sleep: said to be asleep; then its terminals are
\* killed, or kept.
Sleeping(c) ==
  LET w == calls[c].w
  IN \/ /\ calls[c].at = "asked"
        /\ calls' = [calls EXCEPT ![c].at = "half"]
        /\ server' = [server EXCEPT !.awake = @ \ {w}]
        /\ lost' = IF TerminalsOpen(w) THEN lost \cup {w} ELSE lost
        /\ unsaid' = "half"
        /\ UNCHANGED told
     \/ /\ calls[c].at = "half"
        /\ calls' = [calls EXCEPT ![c].at = "done"]
        /\ \E kept \in {0, server.terms[w]} : server' = [server EXCEPT !.terms[w] = kept]
        /\ Tells
        /\ UNCHANGED lost

Ends(c, how) == calls' = [calls EXCEPT ![c].at = how]

\* POST /api/worktrees/:id/wake.
Waking(c) ==
  LET w == calls[c].w
  IN /\ calls[c].at = "asked"
     /\ Ends(c, "done")
     /\ server' = [server EXCEPT !.awake = @ \cup {w}]
     /\ lost' = lost \ {w}
     /\ Tells

\* DELETE /api/worktrees/:id: its sessions are killed before git is asked, which
\* may refuse.
Removing(c) ==
  LET w == calls[c].w
  IN \/ /\ calls[c].at = "asked"
        /\ calls' = [calls EXCEPT ![c].at = "half"]
        /\ server' = [server EXCEPT !.terms[w] = 0]
        /\ unsaid' = "half"
        /\ UNCHANGED <<told, lost>>
     \/ /\ calls[c].at = "half"
        /\ Ends(c, "done")
        /\ server' = [server EXCEPT !.there = @ \ {w}, !.awake = @ \ {w}, !.queued = @ \ {w}]
        /\ lost' = lost \ {w}
        /\ Tells
     \/ /\ calls[c].at = "half"
        /\ Ends(c, "failed")
        /\ UNCHANGED <<server, told, unsaid, lost>>

\* POST /api/sessions and DELETE /api/sessions/:id, of a shell.
Opening(c) ==
  LET w == calls[c].w
  IN /\ calls[c].at = "asked"
     /\ Ends(c, "done")
     /\ server' = [server EXCEPT !.terms[w] = @ + 1]
     /\ Tells

Killing(c) ==
  LET w == calls[c].w
  IN /\ calls[c].at = "asked"
     /\ Ends(c, "done")
     /\ server' = [server EXCEPT !.terms[w] = IF @ = 0 THEN 0 ELSE @ - 1]
     /\ Tells

\* What the handlers do, each for a worktree that is there.
Handles(c) ==
  /\ calls[c].w \in server.there
  /\ CASE calls[c].op = "sleep" -> Sleeping(c)
       [] calls[c].op = "wake" -> Waking(c)
       [] calls[c].op = "remove" -> Removing(c)
       [] calls[c].op = "open" -> Opening(c) /\ UNCHANGED lost
       [] calls[c].op = "kill" -> Killing(c) /\ UNCHANGED lost
  /\ UNCHANGED <<stored, reads, writes, page, strayed, clicked, left>>

\* The worktree is gone, or the request does not arrive.
Refuses(c) ==
  /\ calls[c].at \in {"asked", "half"}
  /\ \/ calls[c].w \notin server.there /\ UNCHANGED left
     \/ calls[c].at = "asked" /\ Spends("fault")
  /\ Ends(c, "failed")
  /\ UNCHANGED <<server, stored, told, reads, writes, page, history>>

\* The answer reaches the page that asked: wake and sleep read again however it
\* went, the others once it went well.
Answered(c) ==
  LET call == calls[c]
      then == [op |-> call.op, w |-> call.w]
      done == call.at = "done"
  IN /\ call.at \in {"done", "failed"}
     /\ calls' = [calls EXCEPT ![c] = Idle]
     /\ IF ~call.mine THEN UNCHANGED <<reads, page>>
        ELSE IF done \/ call.op \in {"wake", "sleep"}
          THEN /\ Refreshes(then)
               /\ IF call.op = "remove"
                  THEN Renders(SetPanel(page, call.w, "none")) ELSE UNCHANGED page
        ELSE /\ UNCHANGED reads
             /\ Renders([page EXCEPT !.departing =
                           IF call.op = "remove" THEN @ \ {call.w} ELSE @])
     /\ UNCHANGED <<server, stored, told, writes, history, left>>

(***************************************************************************)
(* What the human does on this page.                                       *)
(***************************************************************************)

Acts(new) ==
  /\ page.adopted
  /\ Renders(new)
  /\ UNCHANGED <<server, stored, told, reads, writes, strayed, unsaid>>

\* A request of this page to wake w or put it to sleep, or the read after it.
Outstanding(op, w) ==
  \/ \E c \in Call : calls[c].mine /\ calls[c].op = op /\ calls[c].w = w
  \/ \E r \in Read : reads[r].then = [op |-> op, w |-> w]

Clicks(op, w) == clicked' = [clicked EXCEPT ![w] = IF Outstanding(op, w) THEN "none" ELSE op]

\* The bar above: wake.
Wakes(w) ==
  /\ Spends("wake")
  /\ w \in page.seen.there \ Shown(page)
  /\ Asks("wake", w, TRUE)
  /\ Acts(Reveal([page EXCEPT !.pending[w] = "awake"], w, "claude"))
  /\ Clicks("wake", w)
  /\ UNCHANGED lost

Sleeps(w) ==
  /\ Spends("sleep")
  /\ w \in Shown(page) \ page.departing
  /\ Asks("sleep", w, TRUE)
  /\ Acts([page EXCEPT !.pending[w] = "asleep"])
  /\ Clicks("sleep", w)
  /\ UNCHANGED lost

\* removalLanding: the next window, else the one before, else the project.
Landing(w) ==
  LET row == Windows(page)
      at == CHOOSE i \in 1..Len(row) : row[i] = w
  IN IF at < Len(row) THEN At(row[at + 1], "claude")
     ELSE IF at > 1 THEN At(row[at - 1], "claude")
     ELSE At("project", "project")

\* The sleep dialog's delete, once what it asks is answered.
Removes(w) ==
  /\ Spends("remove")
  /\ w \in Shown(page) \ page.departing
  /\ Asks("remove", w, TRUE)
  /\ LET going == [page EXCEPT !.departing = @ \cup {w}]
     IN Acts(IF page.active.id = w THEN [going EXCEPT !.active = Landing(w)] ELSE going)
  /\ UNCHANGED <<lost, clicked>>

\* togglePanel; a terminals panel with none asks for one.
Toggles(w, panel) ==
  LET was == page.ui.panels[w] = panel
      now == SetPanel(page, w, IF was THEN "none" ELSE panel)
  IN /\ Spends("toggle")
     /\ w \in Shown(page) \ page.departing
     /\ IF panel = "terminals" /\ ~was /\ page.seen.terms[w] = 0
        THEN Asks("open", w, TRUE) ELSE UNCHANGED calls
     /\ Acts(Reveal(now, w, IF was THEN "claude" ELSE PanelOf(now)[w]))
     /\ lost' = lost \ {w}
     /\ UNCHANGED clicked

\* closeTerminal: the last one takes the panel with it.
ClosesTerminal(w) ==
  /\ Spends("close")
  /\ w \in Shown(page) \ page.departing
  /\ page.ui.panels[w] = "terminals" /\ page.seen.terms[w] > 0
  /\ Asks("kill", w, TRUE)
  /\ Acts(IF page.seen.terms[w] = 1 THEN Reveal(SetPanel(page, w, "none"), w, "claude") ELSE page)
  /\ lost' = lost \ {w}
  /\ UNCHANGED clicked

\* newTerminal, from the panel.
NewTerminal(w) ==
  /\ Spends("toggle")
  /\ w \in Shown(page) \ page.departing
  /\ page.ui.panels[w] = "terminals" /\ page.seen.terms[w] \in 1..(MaxTerm - 1)
  /\ Asks("open", w, TRUE)
  /\ Acts(page)
  /\ UNCHANGED <<lost, clicked>>

\* revealClaude: the tab in the bar shuts the panel too.
RevealsClaude(w) ==
  /\ Spends("tab")
  /\ w \in Shown(page)
  /\ Acts(Reveal(IF page.ui.panels[w] = "none" THEN page ELSE SetPanel(page, w, "none"), w, "claude"))
  /\ UNCHANGED calls
  /\ lost' = lost \ {w}
  /\ UNCHANGED clicked

\* openPath and closeFile, of a window's only tab.
Files(w) ==
  /\ Spends("file")
  /\ w \in Shown(page) \ page.departing
  /\ page.ui.panels[w] = "files"
  /\ Acts(SetUi(page, "files", [page.ui.files EXCEPT ![w] = ~@]))
  /\ UNCHANGED <<calls, lost, clicked>>

\* The days you work, on the project's own pane.
MyDays ==
  /\ Spends("days")
  /\ Acts(SetUi(page, "days", 1 - page.ui.days))
  /\ UNCHANGED <<calls, lost, clicked>>

\* Cmd+arrow: along the panes on screen, but for those of a window that is going.
Steps(capacity, by) ==
  LET stops == StopsOf(Cells(Windows(page), PanelOf(page), capacity, FALSE), page.departing)
      here == {i \in 1..Len(stops) : stops[i] = page.active}
  IN /\ Spends("step")
     /\ \E i \in here : i + by \in 1..Len(stops) /\ Acts([page EXCEPT !.active = stops[i + by]])
     /\ UNCHANGED <<calls, lost, clicked>>

\* With the layout of the browser's cache.
NewPage(cached) ==
  [seen |-> NoSnap.server, loaded |-> FALSE, adopted |-> FALSE, fresh |-> FALSE,
   ui |-> cached, link |-> "new", patch |-> {},
   pending |-> [w \in Worktree |-> "none"], departing |-> {}, active |-> Nowhere, started |-> FALSE]

\* The page is loaded again, which reads before anything else; what it had asked
\* goes on without it.
Reloads ==
  /\ Spends("reload")
  /\ page.loaded
  /\ page' = NewPage(page.ui)
  /\ reads' = [r \in Read |-> IF r = 1 THEN [FreeRead EXCEPT !.at = "asked"] ELSE FreeRead]
  /\ calls' = [c \in Call |-> [calls[c] EXCEPT !.mine = FALSE]]
  /\ writes' = [i \in DOMAIN writes |-> [writes[i] EXCEPT !.mine = FALSE]]
  /\ strayed' = (strayed \/ page.patch # {} \/ writes # <<>>)
  /\ lost' = {}
  /\ told' = 0
  /\ unsaid' = "told"
  /\ UNCHANGED <<server, stored, clicked>>

\* onopen of the page's socket, which attaches its terminals and reads nothing.
Links ==
  /\ page.link # "open"
  /\ page' = [page EXCEPT !.link = "open"]
  /\ UNCHANGED <<server, stored, told, reads, calls, writes, history, left>>

\* The socket is lost, with what is on its way.
Unlinks ==
  /\ Spends("drop")
  /\ page.link = "open"
  /\ page' = [page EXCEPT !.link = "lost"]
  /\ told' = 0
  /\ unsaid' = IF told > 0 THEN "lost" ELSE unsaid
  /\ UNCHANGED <<server, stored, reads, calls, writes, strayed, lost, clicked>>

(***************************************************************************)
(* What happens without it.                                                *)
(***************************************************************************)

Elsewhere(s) ==
  /\ server' = s
  /\ Tells
  /\ UNCHANGED <<stored, reads, calls, writes, page, strayed, lost, clicked>>

\* A shell exits.
Exits(w) ==
  /\ Spends("exit")
  /\ server.terms[w] > 0
  /\ Elsewhere([server EXCEPT !.terms[w] = @ - 1])

\* A todo is queued, or the dispatcher has sent the last one.
Queues(w) ==
  /\ Spends("drain")
  /\ w \in server.there
  /\ Elsewhere([server EXCEPT !.queued = IF w \in @ THEN @ \ {w} ELSE @ \cup {w}])

\* Another page asks.
Others(op, w) ==
  /\ Spends("other")
  /\ w \in server.there
  /\ op = "wake" => w \notin server.awake
  /\ op \in {"sleep", "remove"} => w \in server.awake
  /\ op = "open" => server.terms[w] < MaxTerm
  /\ Asks(op, w, FALSE)
  /\ UNCHANGED <<server, stored, told, reads, writes, page, history>>

UiOK(ui) ==
  /\ DOMAIN ui = Key
  /\ ui.panels \in [Worktree -> Panel] /\ ui.files \in [Worktree -> BOOLEAN] /\ ui.days \in Int

SeenOK(s) ==
  /\ DOMAIN s = {"there", "awake", "terms", "queued"}
  /\ s.there \subseteq Worktree /\ s.awake \subseteq Worktree
  /\ s.terms \in [Worktree -> Nat]

Request == [op : {"wake", "sleep", "remove", "open", "kill"}, w : Worktree]

ReadOK(d) ==
  /\ DOMAIN d = {"at", "snap", "then", "before", "stale"}
  /\ d.at \in {"free", "asked", "taken"} /\ d.then \in Request \cup {Nothing}
  /\ DOMAIN d.snap = {"server", "ui"} /\ SeenOK(d.snap.server) /\ UiOK(d.snap.ui)
  /\ d.before \subseteq Read /\ d.stale \in BOOLEAN

CallOK(d) ==
  /\ DOMAIN d = {"op", "w", "at", "mine"} /\ d.mine \in BOOLEAN
  /\ \/ d.op = "idle" /\ d.w = "none" /\ d.at = "idle"
     \/ /\ [op |-> d.op, w |-> d.w] \in Request
        /\ d.at \in {"asked", "half", "done", "failed"}

WriteOK(d) ==
  /\ DOMAIN d = {"of", "mine"} /\ d.mine \in BOOLEAN /\ DOMAIN d.of \subseteq Key
  /\ "panels" \in DOMAIN d.of => d.of.panels \in [Worktree -> Panel]
  /\ "files" \in DOMAIN d.of => d.of.files \in [Worktree -> BOOLEAN]
  /\ "days" \in DOMAIN d.of => d.of.days \in Int

PageOK(p) ==
  /\ DOMAIN p = {"seen", "loaded", "adopted", "fresh", "ui", "link", "patch", "pending",
                 "departing", "active", "started"}
  /\ SeenOK(p.seen) /\ UiOK(p.ui) /\ p.patch \subseteq Key
  /\ p.pending \in [Worktree -> {"none", "awake", "asleep"}]
  /\ p.departing \subseteq Worktree /\ p.link \in {"new", "open", "lost"}
  /\ p.loaded \in BOOLEAN /\ p.adopted \in BOOLEAN /\ p.fresh \in BOOLEAN

TypeOK ==
  /\ SeenOK(server) /\ UiOK(stored) /\ told \in Nat
  /\ DOMAIN reads = Read /\ \A r \in Read : ReadOK(reads[r])
  /\ DOMAIN calls = Call /\ \A c \in Call : CallOK(calls[c])
  /\ writes \in Seq({writes[i] : i \in DOMAIN writes})
  /\ \A i \in 1..Len(writes) : WriteOK(writes[i])
  /\ PageOK(page)
  /\ strayed \in BOOLEAN /\ unsaid \in {"told", "half", "new", "lost"} /\ lost \subseteq Worktree
  /\ clicked \in [Worktree -> {"none", "wake", "sleep"}]

Init ==
  /\ \E start \in Starts :
       /\ server = [there |-> Worktree, awake |-> start.awake, terms |-> start.terms,
                    queued |-> start.queued]
       /\ stored = [NoSnap.ui EXCEPT !.panels = start.panels, !.files = start.files,
                                     !.where = start.where]
  /\ told = 0
  /\ reads = [r \in Read |-> IF r = 1 THEN [FreeRead EXCEPT !.at = "asked"] ELSE FreeRead]
  /\ calls = [c \in Call |-> Idle]
  /\ writes = <<>>
  /\ page = NewPage(NoSnap.ui)
  /\ strayed = FALSE
  /\ unsaid = "told"
  /\ lost = {}
  /\ clicked = [w \in Worktree |-> "none"]
  /\ left \in Limits

HumanSteps ==
  \/ \E w \in Worktree :
       \/ Wakes(w) \/ Sleeps(w) \/ Removes(w)
       \/ \E panel \in {"terminals", "todo", "files"} : Toggles(w, panel)
       \/ ClosesTerminal(w) \/ NewTerminal(w) \/ RevealsClaude(w) \/ Files(w)
  \/ MyDays
  \/ \E capacity \in {2, 6}, by \in {-1, 1} : Steps(capacity, by)
  \/ Reloads

PageSteps ==
  \/ Hears
  \/ Links
  \/ \E r \in Read : Lands(r) \/ ReadFails(r)
  \/ Saves
  \/ \E c \in Call : Answered(c)

ServerSteps ==
  \/ \E r \in Read : Snapshots(r)
  \/ \E i \in DOMAIN writes : SaveLands(i) \/ SaveFails(i)
  \/ \E c \in Call : Handles(c) \/ Refuses(c)
  \/ DaysChange
  \/ Unlinks
  \/ \E w \in Worktree :
       \/ Exits(w) \/ Queues(w)
       \/ \E op \in {"wake", "sleep", "remove", "open"} : Others(op, w)

Next == HumanSteps \/ PageSteps \/ ServerSteps

Spec == Init /\ [][Next]_vars

-----------------------------------------------------------------------------
(* What is checked.                                                        *)

\* Nothing is on its way that brings news of the server.
Told == page.adopted /\ told = 0 /\ \A r \in Read : reads[r].at = "free"

\* A page that was told of the last change, and whose last read was neither
\* refused nor overtaken, shows the server as it is (onInvalidate, refresh,
\* changed after every mutation).
Follows == Told /\ unsaid = "told" /\ page.fresh => page.seen = server

\* A worktree that is put to sleep keeps the terminals panel it had open until
\* something wakes it or shuts it: its terminals go because of the sleep, which
\* terminalsGone must tell from their having exited.  An answer on its way from
\* when there were none closes it all the same, and is not claimed for.
PanelKept == page.adopted => \A w \in lost : page.ui.panels[w] = "terminals"

\* What a page shows of its layout is what a reload brings back, however changes
\* of several keys, refreshes and failed reads crossed (setUi, refresh, patchUi).
LayoutSaved ==
  Told /\ unsaid = "told" /\ ~strayed /\ page.fresh /\ page.patch = {} /\ writes = <<>>
    => \A k \in Key : stored[k] = page.ui[k]

\* The last click shows at once and for as long as its request has not been read
\* back, whichever of two opposite clicks the server answers first (pendingAwake).
\* A third, again as the first while that is still out, is not claimed for: the
\* first's answer takes the mark of both.
AskedShown ==
  \A w \in page.seen.there :
    clicked[w] # "none" /\ Outstanding(clicked[w], w)
      => (w \in Shown(page) <=> clicked[w] = "wake")

\* Wherever the row rests, it can come to rest with any window whole on screen,
\* at any width (panesOf, unitLayout, nearestOffset).  Looked at when nothing is
\* on its way: the layouts there are are those that come to that.
Revealable ==
  Told /\ writes = <<>> => \A capacity \in 2..6 :
    LET cells == Cells(Windows(page), PanelOf(page), capacity, FALSE)
        rests == Rests(cells, capacity)
    IN \A i \in 1..Len(cells), from \in rests :
         LET to == NearestOffset(cells[i], from, capacity, rests)
         IN to \in rests /\ Whole(cells[i], to, capacity)
=============================================================================
