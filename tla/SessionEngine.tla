---------------------------- MODULE SessionEngine ----------------------------
(***************************************************************************)
(* The session engine (server/src/session/engine.ts) and the tmux server   *)
(* it drives (session/tmux.ts): sessions are created, killed, respawned,   *)
(* polled for death, re-attached and, after a restart, adopted again.      *)
(*                                                                         *)
(* tmux outlives the engine.  Every tmux command is awaited, so an action  *)
(* runs up to tmux's having done a command, or from its answer to the next *)
(* await; any other handler may run in between.                            *)
(***************************************************************************)
EXTENDS Naturals

CONSTANTS
  Session,        \* session ids, each given to one session only
  Shell,          \* the sessions that host a terminal; the others host Claude
  MaxReattach,    \* reattach attempts without output before a session is dead
  Limit           \* bounds: how often each kind of outside event may happen

Outside == {"crash", "fault", "hand", "respawn"}

ASSUME EngineAssumption ==
  /\ Shell \subseteq Session
  /\ MaxReattach \in Nat
  /\ Limit \in [Outside -> Nat]

VARIABLES
  pane,       \* tmux: what each session's only pane is doing
  tagged,     \* tmux: the sessions that carry our metadata
  clients,    \* tmux: how many clients of ours are attached to a session
  born,       \* ids given out
  sessions,   \* the engine's map of sessions
  dead,       \* LiveSession.dead: what the engine believes of the process
  mirrorGone, \* LiveSession.mirrorGone: its screen is not mirrored any more
  pty,        \* LiveSession.pty is not null
  disposed,   \* LiveSession.dispose has run
  tries,      \* LiveSession.reattachAttempts
  creating,   \* create() calls in progress, by what tmux has done for them
  killing,    \* kill() calls between their delete and their dispose
  revives,    \* respawn() calls whose pane tmux has respawned
  lost,       \* handlePtyExit() calls awaiting has-session
  delayed,    \* reattach timers they have set
  polling,    \* a poll is walking the map
  listing,    \* the panes tmux listed for it
  seen,       \* the sessions it has visited
  left        \* what is left of each Limit

tmuxVars == <<pane, tagged, clients>>
liveVars == <<sessions, dead, mirrorGone, pty, disposed, tries>>
callVars == <<creating, killing, revives, lost, delayed>>
pollVars == <<polling, listing, seen>>
vars == <<tmuxVars, born, liveVars, callVars, pollVars, left>>

\* remain-on-exit: a pane whose process has exited stays until it is killed.
Panes == {"none", "running", "exited"}

TypeOK ==
  /\ pane \in [Session -> Panes]
  /\ tagged \in SUBSET Session
  /\ clients \in [Session -> Nat]
  /\ born \in SUBSET Session
  /\ sessions \in SUBSET Session
  /\ dead \in [Session -> BOOLEAN]
  /\ mirrorGone \in [Session -> BOOLEAN]
  /\ pty \in [Session -> BOOLEAN]
  /\ disposed \in [Session -> BOOLEAN]
  /\ tries \in [Session -> 0..MaxReattach]
  /\ creating \in [Session -> {"no", "made", "tagged"}]
  /\ killing \in [Session -> {"no", "asked", "done"}]
  /\ revives \in [Session -> Nat]
  /\ lost \in [Session -> Nat]
  /\ delayed \in [Session -> Nat]
  /\ polling \in BOOLEAN
  /\ listing \in [Session -> Panes]
  /\ seen \in SUBSET Session
  /\ left \in [Outside -> Nat]

Zero == [s \in Session |-> 0]
Never == [s \in Session |-> FALSE]
NoCall == [s \in Session |-> "no"]
NoPanes == [s \in Session |-> "none"]

Init ==
  /\ pane = NoPanes
  /\ tagged = {}
  /\ clients = Zero
  /\ born = {}
  /\ sessions = {}
  /\ dead = Never
  /\ mirrorGone = Never
  /\ pty = Never
  /\ disposed = Never
  /\ tries = Zero
  /\ creating = NoCall
  /\ killing = NoCall
  /\ revives = Zero
  /\ lost = Zero
  /\ delayed = Zero
  /\ polling = FALSE
  /\ listing = NoPanes
  /\ seen = {}
  /\ left = Limit

Spends(kind) ==
  /\ left[kind] > 0
  /\ left' = [left EXCEPT ![kind] = @ - 1]

-----------------------------------------------------------------------------
(* One LiveSession.                                                        *)

\* spawnPty: one tmux client, unless there is one or the session is disposed.
Attaches(s) ==
  IF disposed[s] \/ pty[s] THEN UNCHANGED <<pty, clients>>
  ELSE /\ pty' = [pty EXCEPT ![s] = TRUE]
       /\ clients' = [clients EXCEPT ![s] = @ + 1]

\* kill() up to its first await: the session is forgotten, then tmux is asked.
Forgets(doomed) ==
  /\ sessions' = sessions \ doomed
  /\ killing' = [s \in Session |-> IF s \in doomed \cap sessions THEN "asked" ELSE killing[s]]

\* Mutant: a dead terminal is dropped from the list and left in tmux.
MarksDeadOnly(s) ==
  IF dead[s] THEN UNCHANGED <<dead, mirrorGone, sessions, killing>>
  ELSE /\ dead' = [dead EXCEPT ![s] = TRUE]
       /\ mirrorGone' = [mirrorGone EXCEPT ![s] = TRUE]
       /\ sessions' = sessions \ ({s} \cap Shell)
       /\ UNCHANGED killing

\* markDead, once: the mirror goes, and emit() reaps a terminal.
MarksDead(s) ==
  IF dead[s] THEN UNCHANGED <<dead, mirrorGone, sessions, killing>>
  ELSE /\ dead' = [dead EXCEPT ![s] = TRUE]
       /\ mirrorGone' = [mirrorGone EXCEPT ![s] = TRUE]
       /\ Forgets({s} \cap Shell)

-----------------------------------------------------------------------------
(* Requests: POST /api/sessions, DELETE and respawn; sleep, wake, removal. *)

\* create(): tmux has made the session, and its command runs.
CreateStarts(s) ==
  /\ s \notin born
  /\ born' = born \cup {s}
  /\ pane' = [pane EXCEPT ![s] = "running"]
  /\ creating' = [creating EXCEPT ![s] = "made"]
  /\ UNCHANGED <<tagged, clients, liveVars, killing, revives, lost, delayed, pollVars, left>>

\* ... the metadata that a restart would adopt it by is written,
CreateTags(s) ==
  /\ creating[s] = "made"
  /\ pane[s] # "none"
  /\ tagged' = tagged \cup {s}
  /\ creating' = [creating EXCEPT ![s] = "tagged"]
  /\ UNCHANGED <<pane, clients, born, liveVars, killing, revives, lost, delayed, pollVars, left>>

\* ... or that fails, and create() throws with the session left in tmux;
CreateFails(s) ==
  /\ creating[s] = "made"
  /\ \/ pane[s] = "none" /\ UNCHANGED left
     \/ Spends("fault")
  /\ creating' = [creating EXCEPT ![s] = "no"]
  /\ UNCHANGED <<tmuxVars, born, liveVars, killing, revives, lost, delayed, pollVars>>

\* ... and the engine knows the session.
CreateLands(s) ==
  /\ creating[s] = "tagged"
  /\ creating' = [creating EXCEPT ![s] = "no"]
  /\ sessions' = sessions \cup {s}
  /\ Attaches(s)
  /\ UNCHANGED <<pane, tagged, born, dead, mirrorGone, disposed, tries,
                 killing, revives, lost, delayed, pollVars, left>>

\* kill() and killForWorktree(): every session of a worktree at once.
KillStarts(doomed) ==
  /\ doomed # {}
  /\ Forgets(doomed)
  /\ UNCHANGED <<tmuxVars, born, dead, mirrorGone, pty, disposed, tries,
                 creating, revives, lost, delayed, pollVars, left>>

\* tmux kills the session; clients of it exit by themselves.
KillsInTmux(s) ==
  /\ killing[s] = "asked"
  /\ pane' = [pane EXCEPT ![s] = "none"]
  /\ tagged' = tagged \ {s}
  /\ killing' = [killing EXCEPT ![s] = "done"]
  /\ UNCHANGED <<clients, born, liveVars, creating, revives, lost, delayed, pollVars, left>>

\* killSession swallows every failure, a fork that failed included.
KillFails(s) ==
  /\ killing[s] = "asked"
  /\ Spends("fault")
  /\ killing' = [killing EXCEPT ![s] = "done"]
  /\ UNCHANGED <<tmuxVars, born, liveVars, creating, revives, lost, delayed, pollVars>>

\* dispose(): its own tmux client is killed with it.
KillLands(s) ==
  /\ killing[s] = "done"
  /\ killing' = [killing EXCEPT ![s] = "no"]
  /\ disposed' = [disposed EXCEPT ![s] = TRUE]
  /\ pty' = [pty EXCEPT ![s] = FALSE]
  /\ clients' = [clients EXCEPT ![s] = IF pty[s] THEN @ - 1 ELSE @]
  /\ UNCHANGED <<pane, tagged, born, sessions, dead, mirrorGone, tries,
                 creating, revives, lost, delayed, pollVars, left>>

\* respawn(): tmux starts the command again, killing what may be running.
RespawnStarts(s) ==
  /\ s \in sessions
  /\ pane[s] # "none"
  /\ Spends("respawn")
  /\ pane' = [pane EXCEPT ![s] = "running"]
  /\ revives' = [revives EXCEPT ![s] = @ + 1]
  /\ UNCHANGED <<tagged, clients, born, liveVars, creating, killing, lost, delayed, pollVars>>

\* ... and the session is live again, with a mirror and a pty.
RespawnLands(s) ==
  /\ revives[s] > 0
  /\ revives' = [revives EXCEPT ![s] = @ - 1]
  /\ dead' = [dead EXCEPT ![s] = FALSE]
  /\ mirrorGone' = [mirrorGone EXCEPT ![s] = FALSE]
  /\ tries' = [tries EXCEPT ![s] = 0]
  /\ Attaches(s)
  /\ UNCHANGED <<pane, tagged, born, sessions, disposed,
                 creating, killing, lost, delayed, pollVars, left>>

-----------------------------------------------------------------------------
(* The poll, every two seconds and never two at once.                      *)

\* One list-panes for every session (a failed one says nothing at all).
PollLists ==
  /\ ~polling
  /\ polling' = TRUE
  /\ listing' = pane
  /\ seen' = {}
  /\ UNCHANGED <<tmuxVars, born, liveVars, callVars, left>>

\* Mutant: only a session that is gone is dead, not one whose pane exited.
MissesExits(s) ==
  /\ polling
  /\ s \in sessions \ seen
  /\ seen' = seen \cup {s}
  /\ IF listing[s] = "none" THEN MarksDead(s)
     ELSE UNCHANGED <<dead, mirrorGone, sessions, killing>>
  /\ UNCHANGED <<tmuxVars, born, pty, disposed, tries,
                 creating, revives, lost, delayed, polling, listing, left>>

\* The walk awaits after each session; it also visits those added meanwhile.
PollVisits(s) ==
  /\ polling
  /\ s \in sessions \ seen
  /\ seen' = seen \cup {s}
  /\ IF listing[s] # "running" THEN MarksDead(s)
     ELSE UNCHANGED <<dead, mirrorGone, sessions, killing>>
  /\ UNCHANGED <<tmuxVars, born, pty, disposed, tries,
                 creating, revives, lost, delayed, polling, listing, left>>

PollEnds ==
  /\ polling
  /\ sessions \subseteq seen
  /\ polling' = FALSE
  /\ listing' = NoPanes
  /\ seen' = {}
  /\ UNCHANGED <<tmuxVars, born, liveVars, callVars, left>>

-----------------------------------------------------------------------------
(* The pty client, which exits when the session does or when somebody      *)
(* detaches it by hand (the interface shows the command to attach with).   *)

\* onExit: the engine's pty is null, and it asks tmux whether the session is there.
PtyExits(s) ==
  /\ clients[s] > 0
  /\ \/ pane[s] = "none" /\ UNCHANGED left
     \/ pane[s] # "none" /\ Spends("hand")
  /\ clients' = [clients EXCEPT ![s] = @ - 1]
  /\ pty' = [pty EXCEPT ![s] = FALSE]
  /\ lost' = [lost EXCEPT ![s] = @ + 1]
  /\ UNCHANGED <<pane, tagged, born, sessions, dead, mirrorGone, disposed, tries,
                 creating, killing, revives, delayed, pollVars>>

\* Mutant: a reattach that fails is not tried again.
GivesUpReattaching(s) ==
  /\ lost[s] > 0
  /\ lost' = [lost EXCEPT ![s] = @ - 1]
  /\ IF pane[s] # "none" THEN UNCHANGED <<dead, mirrorGone, sessions, killing>> ELSE MarksDead(s)
  /\ UNCHANGED <<tmuxVars, born, pty, disposed, tries, creating, revives, delayed, pollVars, left>>

\* handlePtyExit: attach again after a while, unless that was tried enough or
\* the session is not there (which is also what a failed command reads as).
HandlesPtyExit(s) ==
  /\ lost[s] > 0
  /\ lost' = [lost EXCEPT ![s] = @ - 1]
  /\ \E there \in {pane[s] # "none", FALSE} :
       /\ IF there = (pane[s] # "none") THEN UNCHANGED left ELSE Spends("fault")
       /\ IF there /\ tries[s] < MaxReattach
          THEN /\ tries' = [tries EXCEPT ![s] = @ + 1]
               /\ delayed' = [delayed EXCEPT ![s] = @ + 1]
               /\ UNCHANGED <<dead, mirrorGone, sessions, killing>>
          ELSE /\ MarksDead(s)
               /\ UNCHANGED <<tries, delayed>>
  /\ UNCHANGED <<tmuxVars, born, pty, disposed, creating, revives, pollVars>>

Reattaches(s) ==
  /\ delayed[s] > 0
  /\ delayed' = [delayed EXCEPT ![s] = @ - 1]
  /\ Attaches(s)
  /\ UNCHANGED <<pane, tagged, born, sessions, dead, mirrorGone, disposed, tries,
                 creating, killing, revives, lost, pollVars, left>>

\* onOutput: a pty that delivers is a good one.
Outputs(s) ==
  /\ pty[s]
  /\ tries[s] > 0
  /\ pane[s] = "running"
  /\ tries' = [tries EXCEPT ![s] = 0]
  /\ UNCHANGED <<tmuxVars, born, sessions, dead, mirrorGone, pty, disposed, callVars, pollVars, left>>

-----------------------------------------------------------------------------
\* The tmux session is killed by hand.
Vanishes(s) ==
  /\ pane[s] # "none"
  /\ Spends("hand")
  /\ pane' = [pane EXCEPT ![s] = "none"]
  /\ tagged' = tagged \ {s}
  /\ UNCHANGED <<clients, born, liveVars, callVars, pollVars>>

\* The hosted command exits.
Exits(s) ==
  /\ pane[s] = "running"
  /\ pane' = [pane EXCEPT ![s] = "exited"]
  /\ UNCHANGED <<tagged, clients, born, liveVars, callVars, pollVars, left>>

\* reconcile() adopts what is in tmux under our metadata, exited or not.
Adopted == {s \in tagged : pane[s] # "none"}

\* The engine dies, its tmux clients with it, and starts on what tmux lists: a
\* list-sessions that failed reads as no sessions.
Restarts(listed) ==
  /\ left["crash"] > 0
  /\ \/ listed = Adopted /\ left' = [left EXCEPT !["crash"] = @ - 1]
     \/ /\ listed = {}
        /\ left["fault"] > 0
        /\ left' = [left EXCEPT !["crash"] = @ - 1, !["fault"] = @ - 1]
  /\ sessions' = listed
  /\ dead' = Never
  /\ mirrorGone' = Never
  /\ pty' = [s \in Session |-> s \in listed]
  /\ clients' = [s \in Session |-> IF s \in listed THEN 1 ELSE 0]
  /\ disposed' = Never
  /\ tries' = Zero
  /\ creating' = NoCall
  /\ killing' = NoCall
  /\ revives' = Zero
  /\ lost' = Zero
  /\ delayed' = Zero
  /\ polling' = FALSE
  /\ listing' = NoPanes
  /\ seen' = {}
  /\ UNCHANGED <<pane, tagged, born>>

EngineSteps(s) ==
  \/ CreateTags(s) \/ CreateFails(s) \/ CreateLands(s)
  \/ KillsInTmux(s) \/ KillFails(s) \/ KillLands(s)
  \/ RespawnLands(s)
  \/ PollVisits(s)
  \/ PtyExits(s) \/ HandlesPtyExit(s) \/ Reattaches(s) \/ Outputs(s)

Next ==
  \/ \E s \in Session : CreateStarts(s) \/ RespawnStarts(s) \/ Exits(s) \/ Vanishes(s) \/ EngineSteps(s)
  \/ \E doomed \in SUBSET sessions : KillStarts(doomed)
  \/ PollLists
  \/ PollEnds
  \/ \E listed \in {Adopted, {}} : Restarts(listed)

Spec == Init /\ [][Next]_vars

-----------------------------------------------------------------------------
(* What is checked of SessionEngine, and under which fairness.             *)

\* "Exactly one tmux client exists per session, and it lives here in the
\* server": no order of reattach timers, respawns and kills attaches a second
\* one, and the engine knows of the one there is.
OneClient == \A s \in Session : clients[s] = (IF pty[s] THEN 1 ELSE 0)

\* A session shown as live has a screen that can be read: the mirror markDead
\* disposes is back whenever the session is, whichever handlers raced.
LiveHasScreen == \A s \in sessions : ~dead[s] => ~mirrorGone[s]

\* "A terminal that has exited closes itself": no dead terminal stays listed.
DeadShellGone == \A s \in sessions \cap Shell : ~dead[s]

InProgress(s) == creating[s] # "no" \/ killing[s] # "no"

\* Short of a tmux command that failed, no session in tmux under our metadata
\* is one the engine has forgotten, whatever is killed, reaped or restarted.
Reachable ==
  left["fault"] = Limit["fault"] =>
    \A s \in tagged : pane[s] # "none" => s \in sessions \/ InProgress(s)

\* The inductive invariant behind them (proved in EngineMachines_proofs).  An id
\* not given out, or whose create() is under way, has no LiveSession yet, so no
\* handler has touched one.
Untouched(s) ==
  /\ s \notin sessions
  /\ ~dead[s] /\ ~mirrorGone[s] /\ ~pty[s]
  /\ killing[s] = "no"
  /\ revives[s] = 0 /\ lost[s] = 0 /\ delayed[s] = 0

BornOK ==
  /\ \A s \in Session \ born : creating[s] = "no" /\ s \notin tagged /\ pane[s] = "none"
  /\ \A s \in Session : s \notin born \/ creating[s] # "no" => Untouched(s)

DeadOK == DeadShellGone /\ \A s \in Session : mirrorGone[s] => dead[s]

\* Only a session whose kill tmux refused is tagged after it.
ReachOK ==
  /\ left["fault"] <= Limit["fault"]
  /\ Reachable
  /\ left["fault"] = Limit["fault"] =>
       \A s \in tagged : creating[s] # "made" /\ killing[s] # "done"

IInv == TypeOK /\ OneClient /\ BornOK /\ DeadOK /\ ReachOK

\* What is under way for a session goes on: commands are answered, a pty reports
\* its exit, a timer fires.
Answers(s) ==
  \/ CreateTags(s) \/ CreateFails(s) \/ CreateLands(s)
  \/ KillsInTmux(s) \/ KillFails(s) \/ KillLands(s)
  \/ RespawnLands(s)
  \/ HandlesPtyExit(s) \/ Reattaches(s)
  \/ PtyExits(s) /\ pane[s] = "none"

\* ... and the poll goes round.
Polls == PollLists \/ PollEnds \/ \E s \in Session : PollVisits(s)

Fairness == WF_vars(Polls) /\ \A s \in Session : WF_vars(Answers(s))

FairSpec == Spec /\ Fairness

\* Death has no push notification: the poll sees to it that no session whose
\* process is gone is taken for live for ever, one adopted dead included.
DeathNoticed == \A s \in Session : []<>~(s \in sessions /\ ~dead[s] /\ pane[s] # "running")

\* "so re-attach when the session is still there": a live session does not stay
\* without a pty, where everything typed into it is dropped.
Reattached == \A s \in Session : []<>~(s \in sessions /\ ~dead[s] /\ ~pty[s])
=============================================================================
