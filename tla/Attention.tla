------------------------------ MODULE Attention ------------------------------
(***************************************************************************)
(* Whether a Claude works, rests or waits for an answer, as the server     *)
(* tells it: what the screen shows (server/src/session/attention.ts), what *)
(* the transcript says (turnState, claude.ts) and when output last came    *)
(* (LiveSession, engine.ts).  A look at a session awaits the transcript,   *)
(* and Claude, its output, the other look and the session's death go on.   *)
(*                                                                         *)
(* A screen is a sequence of rows, a row its kind.                         *)
(***************************************************************************)
EXTENDS Conversation

CONSTANT Faces  \* the screens Claude draws, by what it is doing

VARIABLES
  face,     \* what Claude has drawn, and tmux holds
  live,     \* the session: attention, its mirror, its clocks, the turn it last read
  marks,    \* what turnState remembers of the worktree
  look      \* the looks under way: the poll's and the idle timer's

attentionVars == <<claudeVars, prompts, listing, budget, face, live, marks, look>>

Callers == {"poll", "timer"}
Empty == <<>>
NoMark == [path |-> None, at |-> 0, kind |-> "none"]
NoLook == [at |-> "idle"]

(***************************************************************************)
(* Reading the screen.                                                     *)
(***************************************************************************)

\* The rows with a chevron: the box, a sent message, a dialog's selected row.
InputBox == {"box", "asked", "pick", "choice"}
\* What opens a block; the done line and the spinner do.
Openers == {"said", "recap", "timer", "done"}
Chrome == {"rule", "chrome"}

InputBoxVisible(s) == \E i \in 2 .. Len(s) : s[i] \in InputBox /\ s[i - 1] = "rule"

LastOf(s, kind) == Max({0} \cup {i \in DOMAIN s : s[i] = kind})

\* What is under the last line that says a turn is done.
ThisTurn(s) == SubSeq(s, LastOf(s, "done") + 1, Len(s))

HasChevronMenu(s) ==
  \E i, j \in DOMAIN s : s[i] = "pick" /\ s[j] = "option" /\ j \in (i - 4) .. (i + 4)

LooksLikePrompt(s) ==
  LET turn == ThisTurn(s) IN
    /\ ~InputBoxVisible(s)
    /\ \/ HasChevronMenu(turn)
       \/ \E i \in DOMAIN turn : turn[i] = "phrase"
       \/ \E i \in DOMAIN turn : turn[i] = "footer" /\ i > Len(turn) - 3

LooksBusy(s) == LastOf(s, "timer") > LastOf(s, "done")

\* Up from the input box to the block that is nearest, past chrome and a recap,
\* and no further than the banner.
ScreenState(s) ==
  LET box == Max({0} \cup {i \in DOMAIN s : s[i] \in InputBox})
      top == Max({0} \cup {i \in 1 .. (box - 1) : s[i] = "banner"})
      openers == {i \in (top + 1) .. (box - 1) : s[i] \in Openers \ {"recap"}}
      recaps == {i \in (top + 1) .. (box - 1) : s[i] = "recap"}
      under == IF recaps = {} THEN box ELSE Min(recaps)
      printed == \E i \in (top + 1) .. (under - 1) : s[i] \notin Chrome
  IN  CASE box = 0 -> "busy"
        [] box > 0 /\ openers # {} -> IF s[Max(openers)] = "done" THEN "done" ELSE "busy"
        [] box > 0 /\ openers = {} -> IF printed THEN "busy" ELSE "nothing"

\* What is read of each screen there can be.
Verdict == [s \in UNION {Faces[d] : d \in DOMAIN Faces} \cup {Empty} |->
  IF LooksLikePrompt(s) THEN "prompt"
  ELSE IF LooksBusy(s) THEN "spinning" ELSE ScreenState(s)]

\* classify, for a Claude.
Classified(screen, dead, quiet, turn) ==
  CASE dead -> "idle"
    [] ~dead /\ Verdict[screen] = "prompt" -> "needs-you"
    [] ~dead /\ Verdict[screen] # "prompt" /\ ~quiet -> "working"
    [] OTHER ->
         IF turn = "in-turn" \/ Verdict[screen] = "spinning" THEN "working"
         ELSE IF Verdict[screen] \in {"done", "nothing"} \/ turn = "between-turns"
              THEN "idle" ELSE "working"

(***************************************************************************)
(* Looking at the transcript, and at the session.                          *)
(***************************************************************************)

NeverOld(kind, old) ==
  CASE kind = "none" -> "unknown" [] kind = "turn-end" -> "between-turns" [] kind = "prompt" -> "in-turn"

\* turnState, from a mark and the age of the file when the directory was read.
TurnState(kind, old) ==
  CASE kind = "none" -> "unknown"
    [] kind = "turn-end" -> "between-turns"
    [] kind = "prompt" -> IF old THEN "unknown" ELSE "in-turn"

Reclassified(s) == [s EXCEPT !.attention = Classified(s.mirror, s.dead, s.quiet, s.turn)]

\* While output arrives, in a dead session and before tmux has said where the
\* pane is, the transcript is not read.
MayRead(s) == s.quiet /\ s.placed /\ ~s.dead

\* The turn, history: which one was under way when the look began.
Begun == IF claude.doing = "turn" THEN claude.turns ELSE None

\* The poll comes every other second; scheduleIdleCheck's timer once, when the
\* output that set it is over.
Due(c) == IF c = "poll" THEN [live EXCEPT !.placed = TRUE] ELSE [live EXCEPT !.timer = FALSE]

Looks(c) ==
  /\ look[c] = NoLook /\ budget.watched
  /\ c = "timer" => live.timer /\ live.quiet
  /\ IF MayRead(Due(c))
     THEN /\ look' = [look EXCEPT ![c] = [at |-> "asked", turn |-> Begun]]
          /\ live' = Due(c)
     ELSE live' = Reclassified(Due(c)) /\ UNCHANGED look
  /\ UNCHANGED <<marks, budget>>

Learns(c, turn) ==
  /\ live' = Reclassified([live EXCEPT !.turn = turn])
  /\ look' = [look EXCEPT ![c] = NoLook]

CachedByPath(path) == marks.path = path
Cached(path) == marks.path = path /\ marks.at = file[path].at

\* newestTranscript, and the mark of a file that has not moved.
Finds(c) ==
  /\ look[c].at = "asked"
  /\ IF Newest = None THEN Learns(c, "unknown")
     ELSE IF Cached(Newest)
     THEN Learns(c, TurnState(marks.kind, stale))
     ELSE /\ look' = [look EXCEPT ![c] = [at |-> "reading", turn |-> @.turn, path |-> Newest,
                                          stamp |-> file[Newest].at, old |-> stale]]
          /\ UNCHANGED live
  /\ UNCHANGED <<marks, budget>>

\* The file may have grown since; its mark is kept under the older time.
ReadsTail(c) ==
  LET l == look[c]
      kind == NewestMark(file[l.path].lines)
  IN  /\ l.at = "reading"
      /\ \/ /\ marks' = [path |-> l.path, at |-> l.stamp, kind |-> kind]
            /\ Learns(c, TurnState(kind, l.old)) /\ UNCHANGED budget
         \/ /\ Costs("unreadable")
            /\ Learns(c, "unknown") /\ UNCHANGED marks

Refreshes(c) ==
  /\ Looks(c) \/ Finds(c) \/ ReadsTail(c)
  /\ UNCHANGED <<claudeVars, prompts, listing, face>>

(***************************************************************************)
(* Output, and the session's clocks.                                       *)
(***************************************************************************)

\* onOutput: within the time given to a repaint it is not activity; a session
\* known to wait is read again, from a mirror that has not parsed this yet.
Heard(f) ==
  LET s == [live EXCEPT !.quiet = IF live.repaint THEN @ ELSE FALSE, !.timer = TRUE]
      next == IF live.repaint \/ live.attention = "working" THEN live.attention
              ELSE IF live.attention = "needs-you"
              THEN Classified(live.mirror, live.dead, FALSE, live.turn)
              ELSE "working"
  IN  live' = [s EXCEPT !.attention = next, !.mirror = IF live.dead THEN @ ELSE f]

Paints(f) ==
  /\ face' = f
  /\ Heard(f)
  /\ UNCHANGED <<claudeVars, prompts, listing, marks, look>>

\* Claude draws what it does now, or draws once more; tmux draws that a pane died.
Draws == \E f \in Faces[claude.doing] :
  face \notin Faces[claude.doing] /\ budget.watched /\ Paints(f) /\ UNCHANGED budget
DrawsAgain == \E f \in Faces[claude.doing] : Costs("paint") /\ Paints(f)

\* A resize, or the refresh after an adoption: what tmux then paints is not
\* activity, for a moment.
ExpectsRepaint ==
  /\ Costs("resize")
  /\ live' = [live EXCEPT !.repaint = TRUE]
  /\ UNCHANGED <<claudeVars, prompts, listing, face, marks, look>>
Repaints ==
  /\ live.mirror # face /\ ~live.dead /\ budget.watched
  /\ Heard(face)
  /\ UNCHANGED <<claudeVars, prompts, listing, budget, face, marks, look>>

RepaintOver == live.repaint /\ live' = [live EXCEPT !.repaint = FALSE]
FallsQuiet == ~live.quiet /\ live' = [live EXCEPT !.quiet = TRUE]
Passes ==
  /\ budget.watched
  /\ RepaintOver \/ FallsQuiet
  /\ UNCHANGED <<claudeVars, prompts, listing, budget, face, marks, look>>

(***************************************************************************)
(* The end of the process, and another in its place.                       *)
(***************************************************************************)

Exits ==
  /\ claude.doing # "gone"
  /\ Costs("die")
  /\ claude' = [claude EXCEPT !.doing = "gone"]
  /\ UNCHANGED <<file, stale, prompts, listing, face, live, marks, look>>

MarksDead ==
  /\ claude.doing = "gone" /\ ~live.dead
  /\ live' = [live EXCEPT !.dead = TRUE, !.attention = "idle", !.mirror = Empty]
  /\ UNCHANGED <<claudeVars, prompts, listing, budget, face, marks, look>>

\* respawn and revive; with --continue Claude goes on in the transcript it had.
Respawns ==
  /\ live.dead
  /\ live' = [live EXCEPT !.dead = FALSE, !.attention = "working", !.mirror = Empty,
                     !.quiet = TRUE, !.turn = "unknown"]
  /\ face' = Empty
  /\ \/ claude' = [claude EXCEPT !.doing = "rest"]
     \/ \E f \in Files : ~file[f].there /\ claude' = [claude EXCEPT !.doing = "rest", !.file = f]
  /\ UNCHANGED <<file, stale, prompts, listing, budget, marks, look>>

-----------------------------------------------------------------------------

\* A session that was just made works; one the server adopts has said nothing
\* yet, is drawn once by tmux, and may be in the middle of anything.
Session(adopted) ==
  [attention |-> IF adopted THEN "idle" ELSE "working", quiet |-> adopted, repaint |-> adopted,
   timer |-> FALSE, turn |-> "unknown", dead |-> FALSE, placed |-> FALSE, mirror |-> Empty]

AttentionInit ==
  /\ budget \in Courses
  /\ \E s \in budget.starts :
       /\ file = [f \in Files |-> IF f = 1 /\ s.lines # <<>>
                   THEN [there |-> TRUE, lines |-> s.lines, half |-> 0, at |-> 1] ELSE NoFile]
       /\ claude = [doing |-> s.doing, file |-> 1, turns |-> 1]
       /\ face = s.face
       /\ live = Session(s.adopted)
  /\ stale = budget.watched
  /\ prompts = Unseen /\ listing = [c \in Listings |-> NoListing]
  /\ marks = NoMark /\ look = [c \in Callers |-> NoLook]

Converses == (ClaudeActs \/ Summarises) /\ UNCHANGED <<face, live, marks, look>>

AttentionNext ==
  \/ Converses \/ (\E c \in Callers : Refreshes(c)) \/ Draws \/ DrawsAgain \/ ExpectsRepaint \/ Repaints
  \/ Passes \/ Exits \/ MarksDead \/ Respawns

AttentionSpec == AttentionInit /\ [][AttentionNext]_attentionVars

\* Time passes, the poll and the timer come again and their reads answer, and
\* Claude comes to show what it does; it does nothing else by itself.
Silence == Ages /\ UNCHANGED <<prompts, listing, face, live, marks, look>>

Fairness ==
  /\ WF_attentionVars(Silence \/ Passes \/ MarksDead) /\ WF_attentionVars(Draws \/ Repaints)
  /\ \A c \in Callers : WF_attentionVars(Refreshes(c))

FairSpec == AttentionSpec /\ Fairness

-----------------------------------------------------------------------------
(* What is checked.                                                        *)

\* promptSummary counts each prompt once and skips none, whatever listings run
\* at once, lines are half written and transcripts change: what it remembers is
\* the fold of the file's whole lines, and the last of its last-prompt records,
\* from its start or from where a task, the widest window (SEED_MAX_BYTES) or a
\* read that failed let it stop.
Told ==
  LET p == prompts
      lines == file[p.path].lines
      Since(k) == /\ p.summary = Fold(lines, Nothing, PromptsIn(lines, k, p.size))
                  /\ p.recorded = Recorded(lines, k, p.size)
      Far(k) == \/ k = 0 \/ p.cut
                \/ \E i \in (k + 1) .. p.size : lines[i] = "task"
                \/ p.size - k >= Last(Windows) - 1
  IN  p.path # None => \E k \in 0 .. p.size : Since(k) /\ Far(k)

\* A mark that turnState keeps for a write it did not read: the clock of the file
\* stood still.
Slipped == /\ Newest # None /\ marks.path = Newest /\ marks.at = file[Newest].at
           /\ marks.kind # NewestMark(file[Newest].lines)

Asked == Newest # None /\ NewestMark(file[Newest].lines) = "prompt" /\ ~Slipped

\* "in-turn ... no reading of the screen should be allowed to argue with": a
\* look that falls into one turn whole does not turn the window green while the
\* transcript tells of a prompt, or the spinner runs, half a minute's silence
\* a transcript that cannot be read and an unpainted mirror apart.
NotGreenInTurn == [][
  \A c \in Callers :
    /\ look[c] # NoLook /\ look'[c] = NoLook /\ live'.attention = "idle" /\ ~live'.dead
    /\ claude.doing = "turn" /\ look[c].turn = claude.turns
    => /\ Verdict[live.mirror] # "spinning"
       /\ ~Asked \/ stale \/ (look[c].at = "reading" /\ look[c].old) \/ budget' # budget]_attentionVars

Legible == \/ Verdict[face] \in {"done", "nothing"}
           \/ Newest # None /\ NewestMark(file[Newest].lines) = "turn-end" /\ ~Slipped

\* The label comes to say what is so: green when Claude rests and its screen or
\* its transcript can be read, amber when a dialog that can be told waits, idle
\* when the process is gone, whatever looks, repaints and deaths came before.
Right ==
  /\ claude.doing = "rest" /\ Legible => live.attention = "idle"
  /\ claude.doing = "dialog" /\ Verdict[face] = "prompt" => live.attention = "needs-you"
  /\ claude.doing = "gone" => live.attention = "idle"
Settles == budget.watched => []<>Right
=============================================================================
