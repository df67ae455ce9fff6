------------------------------ MODULE Worktrees ------------------------------
(***************************************************************************)
(* The worktrees of one project as the server knows them: the cached       *)
(* listing and its generation, the awake list and its chain of writes      *)
(* (server/src/workspace.ts), the requests that create, wake, put to sleep *)
(* and remove a worktree or close its project (routes/api.ts), and what    *)
(* follows a wake whose Claude refuses to continue.                        *)
(*                                                                         *)
(* A request is suspended wherever the code awaits; what it holds over the *)
(* await is in its record of calls.                                        *)
(***************************************************************************)
EXTENDS Naturals, Sequences

CONSTANTS
  Worktree,  \* all but the main one, which is never removed
  Session,   \* ids of Claude sessions, given out once
  Call,      \* requests that may be in flight at once
  Limits,    \* bounds: how many of each may happen, one function per scenario
  NoClaude   \* for no session

Request == {"wake", "sleep", "remove", "create", "close", "open", "todo", "poll"}
Outside == {"hand", "bounce", "exit", "fault"}

ASSUME WorktreesAssumption ==
  /\ NoClaude \notin Session /\ Session # {}
  /\ Limits \subseteq [Request \cup Outside -> Nat]

VARIABLES
  disk,     \* the worktrees git knows
  opened,   \* whether the project is in the store
  awake,    \* PersistedState.awake, a set once it is recorded
  recorded, \* whether it is: null before
  todos,    \* the worktrees that have a todo
  cache,    \* Workspace.cache: at most one listing
  known,    \* Workspace.listed: the worktrees of the last listing
  turns,    \* awakeWrites: the calls whose change of awake waits, in order
  sig,      \* lastSignature: at most one, of the listing
  calls,    \* the requests in flight
  engine,   \* the Claude sessions the engine has: for each, those it had before
  home,     \* the worktree each id given out was started in
  pane,     \* what tmux has of each: which Claude runs, or how it ended
  noticed,  \* those whose end the engine has noticed
  watch,    \* watchers of a refusal of each, by what they have seen
  unsaid,   \* history: a request changed something since clients were told
  failed,   \* history: a request failed half way
  since,    \* history: what a listing could be since the last invalidate
  woken,    \* history: running at the start or woken, and nothing since to
            \* put it to sleep
  cleared,  \* history: worktrees removed with no other request about them
  left      \* what is left of the limits

storeVars == <<opened, awake, recorded, todos>>
listVars == <<cache, known, since>>
claudeVars == <<engine, home, pane, noticed, watch>>
vars == <<disk, storeVars, listVars, turns, sig, calls, claudeVars, unsaid,
          failed, woken, cleared, left>>

OnlyCalls == UNCHANGED <<disk, storeVars, listVars, turns, sig, claudeVars,
                         unsaid, failed, woken, cleared, left>>
OnlyWatch == UNCHANGED <<disk, storeVars, listVars, turns, sig, calls, engine,
                         home, pane, noticed, unsaid, failed, woken, cleared, left>>

Idle == [op |-> "none", ws |-> {}, at |-> "", io |-> "", list |-> {},
         over |-> FALSE, s |-> NoClaude, opt |-> FALSE, alone |-> TRUE]

Stages == {"", "list", "turn", "seed", "args", "starting", "checking", "killing",
           "clearing", "adding", "added"}
Running == {"continued", "fresh", "restarted"}
Panes == Running \cup {"none", "refused", "exited"}

\* What a request holds over its awaits.
Held == [op : Request \cup {"none"}, ws : SUBSET Worktree, at : Stages,
         io : {"", "asked", "read", "landed"}, list : SUBSET Worktree,
         over : BOOLEAN, s : Session \cup {NoClaude}, opt : BOOLEAN,
         alone : BOOLEAN]

AtMostOne == {{}} \cup {{L} : L \in SUBSET Worktree}

TypeOK ==
  /\ disk \subseteq Worktree /\ awake \subseteq Worktree /\ todos \subseteq Worktree
  /\ opened \in BOOLEAN /\ recorded \in BOOLEAN
  /\ unsaid \in BOOLEAN /\ failed \in BOOLEAN
  /\ cache \in AtMostOne /\ sig \in AtMostOne
  /\ known \subseteq Worktree
  /\ turns \in Seq(Call)
  /\ calls \in [Call -> Held]
  /\ engine \in UNION {[S -> SUBSET S] : S \in SUBSET Session}
  /\ home \in [Session -> SUBSET Worktree]
  /\ pane \in [Session -> Panes]
  /\ noticed \subseteq Session
  /\ watch \in [Session -> [polling : Nat, seen : Nat]]
  /\ since \subseteq SUBSET Worktree
  /\ woken \subseteq Worktree /\ cleared \subseteq Worktree
  /\ left \in [Request \cup Outside -> Nat]

Has(s) == s \in DOMAIN engine
ClaudesIn(ws) == {s \in DOMAIN engine : home[s] \subseteq ws}
Busy(w) == \E s \in DOMAIN engine : home[s] \subseteq {w}
First(s, ws) == s \in ClaudesIn(ws) /\ engine[s] \cap ClaudesIn(ws) = {}

\* isAwake: the recorded list, or whatever has sessions.
IsAwake(w) == IF recorded THEN w \in awake ELSE Busy(w)

\* What a page shows of all this.
View == <<opened, awake, recorded, todos, engine>>

\* The sessions a start of the server has adopted: none, or one Claude.
Adopted(w, s) ==
  /\ engine = [r \in {q \in {s} : w \in disk} |-> {}]
  /\ home = [r \in Session |-> IF r = s /\ w \in disk THEN {w} ELSE {}]
  /\ pane = [r \in Session |-> IF r = s /\ w \in disk THEN "fresh" ELSE "none"]

\* A server that has listed the worktrees once.
Init ==
  /\ disk \in SUBSET Worktree
  /\ opened = TRUE
  /\ recorded \in BOOLEAN
  /\ awake = {}
  /\ todos = {}
  /\ cache = {}
  /\ known = disk
  /\ turns = <<>>
  /\ sig = {disk}
  /\ calls = [c \in Call |-> Idle]
  /\ Adopted(CHOOSE w \in Worktree : TRUE, CHOOSE s \in Session : TRUE)
  /\ noticed = {}
  /\ watch = [s \in Session |-> [polling |-> 0, seen |-> 0]]
  /\ unsaid = FALSE
  /\ failed = FALSE
  /\ since = {disk}
  /\ woken = IF recorded THEN {} ELSE {w \in disk : Busy(w)}
  /\ cleared = {}
  /\ left \in Limits

Spends(kind) == left[kind] > 0 /\ left' = [left EXCEPT ![kind] = @ - 1]

\* broadcastInvalidate: every page will read all of it anew.
Broadcasts == unsaid' = FALSE
Silent == unsaid' = (unsaid \/ View' # View)

-----------------------------------------------------------------------------
(* The listing.                                                            *)

\* Mutant: a listing is cached whatever happened since it began.
ForgetsGeneration(cs) == cs

\* The generation has moved on: no listing under way will be cached.
Overtakes(cs) ==
  [c \in Call |-> IF cs[c].io = "" THEN cs[c] ELSE [cs[c] EXCEPT !.over = TRUE]]

\* invalidate(), as the calls become cs.
Invalidates(cs) ==
  /\ cache' = {}
  /\ calls' = Overtakes(cs)
  /\ since' = {IF opened' THEN disk ELSE {}}

NeedsList(c) == calls[c].at \in {"list", "seed"}

\* The listing that call c has: the cache, while it lasts, or its own.
Lists(c, L) ==
  /\ NeedsList(c)
  /\ \/ calls[c].io = "" /\ cache = {L}
     \/ calls[c].io = "landed" /\ L = calls[c].list

\* ... which is cached when it ends, if nothing was invalidated meanwhile.
Caches(c) == IF calls[c].io = "landed" /\ ~calls[c].over THEN {calls[c].list} ELSE cache

\* worktrees(), with no cache or with one that has lapsed.
ListAsks(c) ==
  /\ NeedsList(c)
  /\ calls[c].io = ""
  /\ calls' = [calls EXCEPT ![c] =
       [@ EXCEPT !.io = IF opened THEN "asked" ELSE "landed", !.over = FALSE, !.list = {}]]
  /\ OnlyCalls

\* git reads the repository.
ListReads(c) ==
  /\ calls[c].io = "asked"
  /\ calls' = [calls EXCEPT ![c] = [@ EXCEPT !.io = "read", !.list = disk]]
  /\ OnlyCalls

\* forgetGoneWorktrees: the marks of what was listed before and is not now.
ForgetsGone(list) ==
  /\ known' = list
  /\ awake' = IF recorded THEN awake \ (known \ list) ELSE awake

\* Its answer is handled; the status of each worktree is still to be read.
ListLands(c) ==
  /\ calls[c].io = "read"
  /\ calls' = [calls EXCEPT ![c].io = "landed"]
  /\ ForgetsGone(calls[c].list)
  /\ UNCHANGED <<disk, opened, recorded, todos, cache, since, turns, sig,
                 claudeVars, unsaid, failed, woken, cleared, left>>

-----------------------------------------------------------------------------
(* Requests begin.                                                         *)

\* A request about w takes from others about it that they were alone.
Intrudes(cs, w) ==
  [d \in Call |-> IF w \in cs[d].ws \/ cs[d].op = "close"
                  THEN [cs[d] EXCEPT !.alone = FALSE] ELSE cs[d]]

Alone(w) == \A d \in Call : w \notin calls[d].ws /\ calls[d].op # "close"

Asks(op, w, opt) ==
  [Idle EXCEPT !.op = op, !.ws = {w}, !.opt = opt,
               !.alone = IF Alone(w) THEN TRUE ELSE FALSE,
               !.at = IF op = "create" THEN "adding" ELSE "list"]

\* A request about a worktree, which may be gone: a page asks for what it shows.
\* opt: startClaude of a create, a sleep that does not keep Claude.
Begins(c, op, w, opt) ==
  /\ op \in {"wake", "sleep", "remove", "todo", "create"}
  /\ calls[c] = Idle
  /\ op = "create" => opened /\ w \notin disk
  /\ opt => op \in {"create", "sleep"}
  /\ Spends(op)
  /\ calls' = [Intrudes(calls, w) EXCEPT ![c] = Asks(op, w, opt)]
  /\ cleared' = cleared \ {w}
  /\ UNCHANGED <<disk, storeVars, listVars, turns, sig, claudeVars, unsaid,
                 failed, woken>>

\* closeProject, with or without putting everything to sleep.
CloseBegins(c, opt) ==
  /\ calls[c] = Idle
  /\ Spends("close")
  /\ calls' = [d \in Call |-> IF d = c
       THEN [Idle EXCEPT !.op = "close", !.at = "list", !.opt = opt]
       ELSE [calls[d] EXCEPT !.alone = FALSE]]
  /\ UNCHANGED <<disk, storeVars, listVars, turns, sig, claudeVars, unsaid,
                 failed, woken, cleared>>

\* openProject, as it registers the project again.
Opens ==
  /\ ~opened
  /\ Spends("open")
  /\ opened' = TRUE
  /\ Invalidates(calls)
  /\ Broadcasts
  /\ UNCHANGED <<disk, awake, recorded, todos, known, turns, sig, claudeVars,
                 failed, woken, cleared>>

\* pollChanged: a run that would overlap another is dropped.
PollBegins(c) ==
  /\ UNCHANGED opened
  /\ calls[c] = Idle
  /\ \A d \in Call : calls[d].op # "poll"
  /\ Spends("poll")
  /\ Invalidates([calls EXCEPT ![c] = [Idle EXCEPT !.op = "poll", !.at = "list"]])
  /\ UNCHANGED <<disk, awake, recorded, todos, known, turns, sig, claudeVars, unsaid, failed,
                 woken, cleared>>

-----------------------------------------------------------------------------
(* ... have their listing ...                                              *)

Done(c) == [calls EXCEPT ![c] = Idle]
Goes(c, stage) ==
  [calls EXCEPT ![c] = [@ EXCEPT !.at = stage, !.io = "", !.list = {}, !.over = FALSE]]

PollEnds(c, L) ==
  /\ calls[c].op = "poll"
  /\ calls' = Done(c)
  /\ sig' = {L}
  /\ unsaid' = (unsaid /\ (sig = {} \/ sig = {L}))
  /\ UNCHANGED <<storeVars, turns, since>>

\* resolve() finds no such worktree, or createWorktree none of its path.
NotFound(c, L) ==
  /\ calls[c].op \notin {"poll", "close"}
  /\ ~(calls[c].ws \subseteq L /\ opened)
  /\ calls' = Done(c)
  /\ UNCHANGED <<storeVars, turns, sig, unsaid, since>>

TodoAdded(c, L) ==
  /\ calls[c].op = "todo" /\ calls[c].ws \subseteq L /\ opened
  /\ todos' = todos \cup calls[c].ws
  /\ calls' = Done(c)
  /\ Broadcasts
  /\ UNCHANGED <<opened, awake, recorded, turns, sig, since>>

\* setAwake takes its place in the chain.
Queues(c, L) ==
  /\ \/ calls[c].op \in {"wake", "sleep", "create"} /\ calls[c].ws \subseteq L /\ opened
     \/ calls[c].op = "close" /\ calls[c].opt
  /\ turns' = Append(turns, c)
  /\ calls' = [Goes(c, "turn") EXCEPT
       ![c].ws = IF calls[c].op = "close" THEN L ELSE @]
  /\ UNCHANGED <<storeVars, sig, unsaid, since>>

\* Nothing of the worktree is touched before it has been checked.
RemoveChecks(c, L) ==
  /\ calls[c].op = "remove" /\ calls[c].ws \subseteq L /\ opened
  /\ calls' = Goes(c, "checking")
  /\ UNCHANGED <<storeVars, turns, sig, unsaid, since>>

\* removeProject and removeTodosFor.
Closes(c, ws) ==
  /\ opened' = FALSE
  /\ todos' = todos \ ws
  /\ woken' = IF recorded THEN woken ELSE {}
  /\ Invalidates(Done(c))
  /\ Broadcasts

\* closeProject that leaves its agents running.
ClosesAwake(c, L) ==
  /\ calls[c].op = "close" /\ ~calls[c].opt
  /\ Closes(c, L)
  /\ UNCHANGED <<awake, recorded, turns, sig>>

HasListing(c) ==
  /\ calls[c].at = "list"
  /\ \E L \in SUBSET Worktree :
       /\ Lists(c, L)
       /\ \/ /\ \/ PollEnds(c, L) \/ NotFound(c, L) \/ TodoAdded(c, L)
                \/ Queues(c, L) \/ RemoveChecks(c, L)
             /\ cache' = Caches(c)
             /\ UNCHANGED woken
          \/ ClosesAwake(c, L)
  /\ UNCHANGED <<disk, known, claudeVars, failed, cleared, left>>

-----------------------------------------------------------------------------
(* ... and their turn to write the awake list.                             *)

Wakes(c) == calls[c].op \in {"wake", "create"}

\* Mutant: a change of awake does not wait for the one before.
AnyTurn(c) == \E i \in DOMAIN turns : turns[i] = c

IsTurnOf(c) == turns # <<>> /\ Head(turns) = c

\* A worktree that a listing on its way no longer has will lose its mark.
Doubted == UNION {Worktree \ calls[d].list : d \in {e \in Call : calls[e].io = "read"}}

Writes(c, current) ==
  /\ awake' = IF Wakes(c) THEN current \cup calls[c].ws ELSE current \ calls[c].ws
  /\ recorded' = TRUE
  /\ turns' = Tail(turns)
  /\ woken' = IF Wakes(c) THEN woken \cup ((calls[c].ws \cap disk) \ Doubted)
                          ELSE woken \ calls[c].ws

\* killForWorktree, killForProject: gone from the map before tmux is asked.
Kills(ws) ==
  /\ engine' = [s \in DOMAIN engine \ ClaudesIn(ws) |-> engine[s] \ ClaudesIn(ws)]
  /\ pane' = [s \in Session |-> IF s \in ClaudesIn(ws) THEN "none" ELSE pane[s]]

\* The list is not recorded yet: it is seeded from what runs, after a listing.
SeedAwaits(c) ==
  /\ calls[c].at = "turn" /\ IsTurnOf(c)
  /\ ~recorded
  /\ calls' = Goes(c, "seed")
  /\ OnlyCalls

\* current: the recorded list, or the worktrees listed that have sessions.
WritesAwake(c) ==
  \/ /\ calls[c].at = "turn" /\ IsTurnOf(c)
     /\ recorded
     /\ Writes(c, awake)
  \/ /\ calls[c].at = "seed"
     /\ \E L \in SUBSET Worktree : Lists(c, L) /\ Writes(c, {w \in L : IsAwake(w)})

Dead(s) == s \in noticed

\* A Claude that is there and not known dead is left alone.
LeavesAlone(c, s) == ~Dead(s) /\ calls' = Done(c) /\ Broadcasts

\* What each does next, before anything else runs.
WakeLooks(c) ==
  /\ calls[c].op = "wake"
  /\ UNCHANGED <<engine, pane>>
  /\ \/ \E s \in Session :
          /\ First(s, calls[c].ws)
          /\ \/ LeavesAlone(c, s)
             \/ Dead(s) /\ calls' = [Goes(c, "args") EXCEPT ![c].s = s] /\ Silent
     \/ ClaudesIn(calls[c].ws) = {} /\ calls' = Goes(c, "args") /\ Silent

\* A worktree just made gets a Claude, if that was asked.
CreateGoesOn(c) ==
  /\ calls[c].op = "create"
  /\ UNCHANGED <<engine, pane>>
  /\ IF calls[c].opt THEN calls' = Goes(c, "args") /\ Silent
                     ELSE calls' = Done(c) /\ Broadcasts

SleepKills(c) ==
  /\ calls[c].op \in {"sleep", "close"}
  /\ IF calls[c].opt THEN Kills(calls[c].ws) /\ calls' = Goes(c, "killing") /\ Silent
     ELSE UNCHANGED <<engine, pane>> /\ calls' = Done(c) /\ Broadcasts

\* setAwake, and what follows it without an await.
TakesTurn(c) ==
  /\ UNCHANGED <<opened, todos>>
  /\ WritesAwake(c)
  /\ WakeLooks(c) \/ CreateGoesOn(c) \/ SleepKills(c)
  /\ cache' = Caches(c)
  /\ UNCHANGED <<disk, known, since, sig, home, noticed, watch, failed, cleared,
                 left>>

\* tmux has killed them.
SleepEnds(c) ==
  /\ calls[c].op = "sleep" /\ calls[c].at = "killing"
  /\ calls' = Done(c)
  /\ Broadcasts
  /\ UNCHANGED <<disk, storeVars, listVars, turns, sig, claudeVars, failed,
                 woken, cleared, left>>

ClosesAsleep(c) ==
  /\ calls[c].op = "close" /\ calls[c].at = "killing"
  /\ Closes(c, calls[c].ws)
  /\ UNCHANGED <<disk, awake, recorded, known, turns, sig, claudeVars, failed,
                 cleared, left>>

-----------------------------------------------------------------------------
(* Claude is started.                                                      *)

\* fallBackIfContinueRefused: one watcher per session.
Watches(s, cont) ==
  watch' = IF cont /\ watch[s].polling + watch[s].seen = 0
           THEN [watch EXCEPT ![s].polling = 1] ELSE watch

\* A request fails once something has been done.
Fails(c) ==
  /\ Spends("fault")
  /\ calls' = Done(c)
  /\ failed' = TRUE

\* engine.create: tmux has it, the engine does not yet. A wake continues the
\* conversation if there is one.
ClaudeStarts(c, s, cont) ==
  /\ calls[c].at = "args" /\ calls[c].s = NoClaude
  /\ home[s] = {}
  /\ cont => calls[c].op = "wake"
  /\ home' = [home EXCEPT ![s] = calls[c].ws]
  /\ pane' = [pane EXCEPT ![s] = IF cont THEN "continued" ELSE "fresh"]
  /\ calls' = [Goes(c, "starting") EXCEPT ![c] = [@ EXCEPT !.s = s, !.opt = cont]]
  /\ UNCHANGED <<disk, storeVars, listVars, turns, sig, engine, noticed, watch,
                 unsaid, failed, woken, cleared, left>>

ClaudeStarted(c) ==
  /\ calls[c].at = "starting"
  /\ engine' = [s \in DOMAIN engine \cup {calls[c].s} |->
                  IF s = calls[c].s THEN DOMAIN engine ELSE engine[s]]
  /\ calls' = Done(c)
  /\ Watches(calls[c].s, calls[c].opt)
  /\ Broadcasts
  /\ UNCHANGED <<disk, storeVars, listVars, turns, sig, home, pane, noticed,
                 failed, woken, cleared, left>>

\* engine.respawn: a new process in the pane, and listeners hear of it.
Respawns(s, how, cs) ==
  /\ pane' = [pane EXCEPT ![s] = how]
  /\ noticed' = noticed \ {s}
  /\ Invalidates(cs)
  /\ UNCHANGED <<engine, home>>

\* The session that was dead is revived, whatever it is by now.
ClaudeRespawns(c, cont) ==
  /\ UNCHANGED opened
  /\ calls[c].at = "args" /\ calls[c].s # NoClaude
  /\ IF Has(calls[c].s)
     THEN /\ Respawns(calls[c].s, IF cont THEN "continued" ELSE "fresh", Done(c))
          /\ Watches(calls[c].s, cont)
     ELSE calls' = Done(c) /\ UNCHANGED <<claudeVars, cache, since>>
  /\ Broadcasts
  /\ UNCHANGED <<disk, awake, recorded, todos, known, turns, sig, failed, woken, cleared, left>>

\* tmux refuses: the request is answered with an error.
StartFails(c) ==
  /\ calls[c].at = "args"
  /\ Fails(c)
  /\ UNCHANGED <<disk, storeVars, listVars, turns, sig, claudeVars, unsaid, woken, cleared>>

\* failedWithin: a pane that died with an error is what it waits for.
WatcherSees(s) ==
  /\ watch[s].polling > 0
  /\ Has(s) /\ pane[s] = "refused"
  /\ watch' = [watch EXCEPT ![s] = [polling |-> @.polling - 1, seen |-> @.seen + 1]]
  /\ OnlyWatch

\* ... killed, ended well, or its time is up.
WatcherEnds(s) ==
  /\ watch[s].polling > 0
  /\ pane[s] # "refused"
  /\ watch' = [watch EXCEPT ![s] = [polling |-> @.polling - 1, seen |-> @.seen]]
  /\ OnlyWatch

\* The conversation could not be resumed: a fresh one is started.
FallsBack(s) ==
  /\ UNCHANGED opened
  /\ watch[s].seen > 0
  /\ watch' = [watch EXCEPT ![s] = [polling |-> @.polling, seen |-> @.seen - 1]]
  /\ IF Has(s) THEN Respawns(s, "restarted", calls) /\ Broadcasts
               ELSE UNCHANGED <<engine, home, pane, noticed, cache, since, calls, unsaid>>
  /\ UNCHANGED <<disk, awake, recorded, todos, known, turns, sig, failed, woken, cleared, left>>

-----------------------------------------------------------------------------
(* A worktree is made or removed.                                          *)

\* git worktree add, once the name and the path are found free.
GitAdds(c) ==
  /\ calls[c].at = "adding"
  /\ IF calls[c].ws \subseteq disk
     THEN calls' = Done(c) /\ UNCHANGED <<disk, since>>
     ELSE /\ disk' = disk \cup calls[c].ws
          /\ since' = since \cup {IF opened THEN disk' ELSE {}}
          /\ calls' = Goes(c, "added")
  /\ UNCHANGED <<storeVars, cache, known, turns, sig, claudeVars, unsaid, failed,
                 woken, cleared, left>>

CreateInvalidates(c) ==
  /\ UNCHANGED opened
  /\ calls[c].at = "added"
  /\ Invalidates(Goes(c, "list"))
  /\ UNCHANGED <<disk, awake, recorded, todos, known, turns, sig, claudeVars, unsaid, failed,
                 woken, cleared, left>>

\* Dirty and not forced, unknown, or the branch on the remote cannot be
\* deleted: nothing has been touched.
RemoveRefused(c) ==
  /\ calls[c].at = "checking"
  /\ calls' = Done(c)
  /\ OnlyCalls

RemoveKills(c) ==
  /\ calls[c].at = "checking"
  /\ UNCHANGED storeVars
  /\ Kills(calls[c].ws)
  /\ calls' = Goes(c, "killing")
  /\ woken' = woken \ calls[c].ws
  /\ Silent
  /\ UNCHANGED <<disk, listVars, turns, sig, home, noticed, watch, failed,
                 cleared, left>>

\* git worktree remove; it fails if there is none, or for reasons of its own.
GitRemoves(c) ==
  /\ calls[c].op = "remove" /\ calls[c].at = "killing"
  /\ \/ /\ calls[c].ws \subseteq disk
        /\ disk' = disk \ calls[c].ws
        /\ since' = since \cup {IF opened THEN disk' ELSE {}}
        /\ woken' = woken \ calls[c].ws
        /\ calls' = Goes(c, "clearing")
        /\ UNCHANGED <<failed, left>>
     \/ /\ ~(calls[c].ws \subseteq disk)
        /\ calls' = Done(c)
        /\ failed' = TRUE
        /\ UNCHANGED <<disk, since, woken, left>>
     \/ Fails(c) /\ UNCHANGED <<disk, since, woken>>
  /\ UNCHANGED <<storeVars, cache, known, turns, sig, claudeVars, unsaid, cleared>>

\* Mutant: the awake mark stays.
RemoveKeepsMark(c) ==
  /\ UNCHANGED opened
  /\ calls[c].at = "clearing"
  /\ todos' = todos \ calls[c].ws
  /\ cleared' = IF calls[c].alone THEN cleared \cup calls[c].ws ELSE cleared
  /\ Invalidates(Done(c))
  /\ Broadcasts
  /\ UNCHANGED <<disk, awake, recorded, known, turns, sig, claudeVars, failed,
                 woken, left>>

\* The branch is deleted or not; its todos and its mark go.
RemoveClears(c) ==
  /\ UNCHANGED opened
  /\ calls[c].at = "clearing"
  /\ todos' = todos \ calls[c].ws
  /\ awake' = IF recorded THEN awake \ calls[c].ws ELSE awake
  /\ cleared' = IF calls[c].alone THEN cleared \cup calls[c].ws ELSE cleared
  /\ Invalidates(Done(c))
  /\ Broadcasts
  /\ woken' = woken \ calls[c].ws
  /\ UNCHANGED <<disk, recorded, known, turns, sig, claudeVars, failed, left>>

-----------------------------------------------------------------------------
(* What happens outside.                                                   *)

\* Somebody runs git worktree add or remove.
Hand(w) ==
  /\ Spends("hand")
  /\ disk' = IF w \in disk THEN disk \ {w} ELSE disk \cup {w}
  /\ since' = since \cup {IF opened THEN disk' ELSE {}}
  /\ woken' = woken \ {w}
  /\ UNCHANGED <<storeVars, cache, known, turns, sig, calls, claudeVars, unsaid,
                 failed, cleared>>

\* --continue is refused, or Claude is left with /exit.
Ends(s, how) ==
  /\ \/ pane[s] = "continued" /\ how = "refused" /\ Spends("bounce")
     \/ pane[s] \in Running /\ how = "exited" /\ Spends("exit")
  /\ pane' = [pane EXCEPT ![s] = how]
  /\ UNCHANGED <<disk, storeVars, listVars, turns, sig, calls, engine, home,
                 noticed, watch, unsaid, failed, woken, cleared>>

\* The engine's poll finds the pane dead; its listeners invalidate.
Notices(s) ==
  /\ UNCHANGED opened
  /\ Has(s) /\ s \notin noticed
  /\ pane[s] \in {"refused", "exited"}
  /\ noticed' = noticed \cup {s}
  /\ Invalidates(calls)
  /\ UNCHANGED <<disk, awake, recorded, todos, known, turns, sig, engine, home, pane, watch,
                 unsaid, failed, woken, cleared, left>>

CallStep(c) ==
  \/ \E op \in Request, w \in Worktree, opt \in BOOLEAN : Begins(c, op, w, opt)
  \/ \E opt \in BOOLEAN : CloseBegins(c, opt)
  \/ PollBegins(c)
  \/ ListAsks(c) \/ ListReads(c) \/ ListLands(c) \/ HasListing(c)
  \/ SeedAwaits(c) \/ TakesTurn(c) \/ SleepEnds(c) \/ ClosesAsleep(c)
  \/ \E s \in Session, cont \in BOOLEAN : ClaudeStarts(c, s, cont)
  \/ \E cont \in BOOLEAN : ClaudeRespawns(c, cont)
  \/ ClaudeStarted(c) \/ StartFails(c)
  \/ GitAdds(c) \/ CreateInvalidates(c)
  \/ RemoveRefused(c) \/ RemoveKills(c) \/ GitRemoves(c) \/ RemoveClears(c)

ClaudeStep(s) ==
  \/ WatcherSees(s) \/ WatcherEnds(s) \/ FallsBack(s) \/ Notices(s)
  \/ \E how \in {"refused", "exited"} : Ends(s, how)

Next ==
  \/ \E c \in Call : CallStep(c)
  \/ \E s \in Session : ClaudeStep(s)
  \/ \E w \in Worktree : Hand(w)
  \/ Opens

Spec == Init /\ [][Next]_vars

-----------------------------------------------------------------------------
(* What is checked.                                                        *)

\* What is cached is what git had after the last invalidate: a listing begun
\* before it cannot come back (workspace.ts, generation).
CacheFresh == cache \subseteq since

\* No change of the awake list is lost to another: what was woken stays marked,
\* and so does what was running when the first change was recorded; a listing
\* drops only what has gone, unless git had read it before (setAwake,
\* awakeWrites, forgetGoneWorktrees).
WokenKept == recorded => woken \subseteq awake

\* Nothing of a worktree outlives a removal nobody got in the way of: no todo,
\* no awake mark, no session (removeWorktree).
RemovedAlone ==
  \A w \in cleared : w \notin todos /\ w \notin awake /\ ~Busy(w)

-----------------------------------------------------------------------------
(* The inductive invariant behind the three (proved in Worktrees_proofs).  *)

\* A listing that will be cached is one of what git had since the last
\* invalidate, and while the project is closed it lists nothing.
ListingsOK ==
  /\ (IF opened THEN disk ELSE {}) \in since
  /\ \A c \in Call : ~calls[c].over =>
       /\ calls[c].io = "asked" => opened
       /\ calls[c].io \in {"read", "landed"} => calls[c].list \in since

\* Until the list is recorded, what counts as awake is what runs, and every
\* listing that may seed it has that.
SeedOK ==
  ~recorded =>
    /\ awake = {}
    /\ \A w \in woken : Busy(w)
    /\ ~opened => woken = {}
    /\ \A L \in cache : woken \subseteq L
    /\ \A c \in Call : calls[c].io = "landed" => woken \subseteq calls[c].list

\* What was woken is on the disk, and in every listing git has just read.
WokenOK ==
  /\ woken \subseteq disk
  /\ \A c \in Call : calls[c].io = "read" => woken \subseteq calls[c].list

\* Who seeds the list has the turn, and nobody has recorded it before him.
TurnsOK == \A c \in Call : calls[c].at = "seed" =>
  ~recorded /\ turns # <<>> /\ Head(turns) = c

\* What a request is about, by the stage it is at.
StagesOK == \A c \in Call :
  /\ calls[c].op \in Request \ {"poll", "close"} => \E w \in Worktree : calls[c].ws = {w}
  /\ calls[c].op \in {"none", "poll"} => calls[c].ws = {}
  /\ calls[c].at \in {"args", "starting"} => calls[c].op \in {"wake", "create"}
  /\ calls[c].at \in {"checking", "clearing"} => calls[c].op = "remove"

\* A Claude runs in the worktree it was started for.
HomesOK ==
  /\ \A s \in DOMAIN engine : home[s] # {}
  /\ \A c \in Call : calls[c].at = "starting" =>
       calls[c].s \in Session /\ home[calls[c].s] = calls[c].ws

\* A request that is alone shares its worktree with no other.
AloneOK == \A c, d \in Call :
  c # d /\ calls[c].alone /\ calls[c].op # "close" =>
    calls[c].ws \cap calls[d].ws = {} /\ (calls[d].op = "close" => calls[c].ws = {})

\* No Claude is left where a removal that is alone has killed them.
RemovingOK == \A c \in Call :
  calls[c].op = "remove" /\ calls[c].at \in {"killing", "clearing"} /\ calls[c].alone =>
    \A w \in calls[c].ws : ~Busy(w)

\* Only a request that closes the project still names what was removed alone.
ClearedOK == \A c \in Call : calls[c].op # "close" => calls[c].ws \cap cleared = {}

IInv ==
  /\ TypeOK /\ ListingsOK /\ SeedOK /\ WokenOK /\ TurnsOK /\ StagesOK /\ HomesOK
  /\ AloneOK /\ RemovingOK /\ ClearedOK
  /\ CacheFresh /\ WokenKept /\ RemovedAlone
=============================================================================
