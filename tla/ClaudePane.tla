----------------------------- MODULE ClaudePane -----------------------------
(***************************************************************************)
(* A Claude session as the dispatcher meets it through the engine          *)
(* (server/src/session/engine.ts: listForWorktree, inspect, typeInto):     *)
(* whether it is live, whether a pty is attached, what its screen shows,   *)
(* what is in its input box, and when a browser last typed into it.        *)
(* The screen is the server's mirror of it; what Claude itself does is the *)
(* environment.                                                            *)
(***************************************************************************)
EXTENDS Naturals

CONSTANTS
  Session,    \* Claude sessions
  HomeOf,     \* the worktree a session runs in
  Draft,      \* text a human typed into an input box
  Prompt      \* the prompts that may be pasted into one

VARIABLE pane

Screens == {"idle", "busy", "dialog"}

Pane == [live : BOOLEAN, pty : BOOLEAN, screen : Screens,
         box : SUBSET (Prompt \cup {Draft}), input : Nat]

PaneTypeOK == pane \in [Session -> Pane]

\* A session the engine just created: nothing typed, and an empty box.
Fresh == [live |-> TRUE, pty |-> TRUE, screen |-> "idle", box |-> {}, input |-> 0]

PaneInit == pane = [s \in Session |-> Fresh]

\* listForWorktree, narrowed to the sessions a dispatch may use.
LiveIn(w) == {s \in Session : HomeOf[s] = w /\ pane[s].live}

\* typeInto finds a pty to write to, the process behind it alive or not.
Writable(s) == pane[s].pty

\* A paste goes into the input box; into a dialog, or a dead pane, it vanishes.
AfterPaste(p, text) ==
  IF p.live /\ p.screen # "dialog" THEN [p EXCEPT !.box = @ \cup {text}] ELSE p

\* A Return answers the dialog on screen, or submits the whole box.
AfterReturn(p) ==
  IF p.screen = "dialog" THEN [p EXCEPT !.screen = "busy"]
  ELSE IF p.box = {} THEN p
  ELSE [p EXCEPT !.screen = "busy", !.box = {}]

\* A key from a browser, timed `time`: it answers a dialog, or adds to the box,
\* or submits it, or clears it.  Without a pty it is timed and then lost.
AfterKey(p, time) ==
  LET at == [p EXCEPT !.input = time]
  IN  IF ~p.pty \/ ~p.live THEN {at}
      ELSE IF p.screen = "dialog" THEN {[at EXCEPT !.screen = "busy"]}
      ELSE {[at EXCEPT !.box = @ \cup {Draft}], AfterReturn(at), [at EXCEPT !.box = {}]}

-----------------------------------------------------------------------------
\* What Claude does by itself: come to rest, ask, or stir.
ScreenChanges(s) ==
  /\ pane[s].live
  /\ \E next \in Screens \ {pane[s].screen} : pane' = [pane EXCEPT ![s].screen = next]

\* The process is found to have exited (markDead): the mirror goes, and tmux
\* keeps the pane, so a pty that was attached to it stays attached.
Dies(s) ==
  /\ pane[s].live
  /\ pane' = [pane EXCEPT ![s] = [@ EXCEPT !.live = FALSE, !.screen = "idle", !.box = {}]]

\* tmux respawn-pane starts Claude again in place (revive): the screen is a
\* new one, and only the time of the last keystroke is kept.
Respawns(s) ==
  /\ ~pane[s].live
  /\ pane' = [pane EXCEPT ![s] = [Fresh EXCEPT !.screen = "busy", !.input = pane[s].input]]

\* The pty client exits, and is attached again while tmux has the session.
PtyDrops(s) ==
  /\ pane[s].pty
  /\ pane' = [pane EXCEPT ![s].pty = FALSE]

PtyReattaches(s) ==
  /\ ~pane[s].pty
  /\ pane' = [pane EXCEPT ![s].pty = TRUE]

\* A new server process: tmux kept the screens, the engine knows of no
\* keystroke, and every adopted session gets a pty.
Reconciled ==
  pane' = [s \in Session |-> [pane[s] EXCEPT !.pty = TRUE, !.input = 0]]
=============================================================================
