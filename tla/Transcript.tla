----------------------------- MODULE Transcript -----------------------------
(***************************************************************************)
(* What the lines of a Claude transcript say (server/src/session/claude.ts)*)
(* of the turn under way, newestMark, and of what was asked, promptsIn and *)
(* fold.  A line is its kind; a prompt's text is the place of its line, so *)
(* a prompt counted twice, or not at all, can be told.                     *)
(***************************************************************************)
EXTENDS Integers, Sequences, SequencesExt, FiniteSetsExt

CONSTANTS
  Windows,      \* the windows of a first look, in lines, each wider than the last
  TailLines,    \* the lines of a tail read for the newest mark
  FollowUpsMax  \* FOLLOW_UPS_MAX

ASSUME TranscriptAssumption ==
  /\ Windows \in Seq(Nat \ {0}) /\ Windows # <<>>
  /\ TailLines \in Nat \ {0} /\ FollowUpsMax \in Nat

\* "task" and "say" are what a person typed, long and short, a slash command that
\* runs a turn among them; "steer" was said in the middle of a turn; "command" is
\* one that Claude Code runs itself, behind a "caveat"; "stamp" is a last-prompt
\* record; "end" a turn_duration; "tool" a user record nobody typed: tool results,
\* notifications, summaries.
Prompts == {"task", "say", "steer", "command"}
UserRecords == {"task", "say", "command", "caveat", "tool"}
Lines == Prompts \cup {"caveat", "stamp", "end", "tool"}

None == 0

\* How many lines a window over the end of a file leaves out, the one it cuts
\* in half with them.
Before(size, window) == IF size <= window THEN 0 ELSE size - window + 1

(***************************************************************************)
(* Where the turn stands.                                                  *)
(***************************************************************************)

\* The user record before a local command, at most four lines up, is its caveat.
RanLocally(lines, at, from) ==
  LET before == {i \in (from + 1) .. (at - 1) : i >= at - 4 /\ lines[i] \in UserRecords}
  IN  before # {} /\ lines[Max(before)] = "caveat"

Marks(lines, from) ==
  {i \in (from + 1) .. Len(lines) :
     \/ lines[i] \in {"end", "task", "say", "steer"}
     \/ lines[i] = "command" /\ ~RanLocally(lines, i, from)}

\* The newest mark of a tail, whose first line is cut in half and goes.
NewestMark(lines) ==
  LET from == Before(Len(lines), TailLines)
      marks == Marks(lines, from)
  IN  CASE marks = {} -> "none"
        [] marks # {} /\ lines[Max(marks)] = "end" -> "turn-end"
        [] OTHER -> "prompt"

(***************************************************************************)
(* What was asked.                                                         *)
(***************************************************************************)

Overlapping(lines, from, end) ==
  LET upTo[n \in Nat] ==
        IF n < from \/ n = 0 THEN <<>>
        ELSE IF lines[n] \in Prompts THEN Append(upTo[n - 1], n) ELSE upTo[n - 1]
  IN  upTo[end]

\* The prompts of the lines after from up to end, oldest first.
PromptsIn(lines, from, end) ==
  LET upTo[n \in Nat] ==
        IF n <= from THEN <<>>
        ELSE IF lines[n] \in Prompts THEN Append(upTo[n - 1], n) ELSE upTo[n - 1]
  IN  upTo[end]

Recorded(lines, from, end) ==
  Max({None} \cup {i \in (from + 1) .. end : lines[i] = "stamp"})

Nothing == [prompt |-> None, task |-> None, followUps |-> <<>>, earlier |-> FALSE]

\* A task takes the place of the one before it, with what followed that; the
\* first prompt there is stands in for one.
Fold(lines, into, real) ==
  LET starts == {i \in DOMAIN real : lines[real[i]] = "task" \/ (i = 1 /\ into.task = None)}
      anew == starts # {}
      followed == IF anew THEN SubSeq(real, Max(starts) + 1, Len(real))
                  ELSE into.followUps \o real
      dropped == Max({0, Len(followed) - FollowUpsMax})
  IN  [prompt |-> IF real = <<>> THEN into.prompt ELSE Last(real),
       task |-> IF anew THEN real[Max(starts)] ELSE into.task,
       followUps |-> SubSeq(followed, dropped + 1, Len(followed)),
       earlier |-> dropped > 0 \/ (~anew /\ into.earlier)]

\* What a window of a first look finds.
Seed(lines, size, w) ==
  LET from == Before(size, Windows[w])
  IN  [summary |-> Fold(lines, Nothing, PromptsIn(lines, from, size)),
       recorded |-> Recorded(lines, from, size)]

\* The narrowest window with a task in it, or all the file, or the widest.
Wide(lines, size) == Min({w \in DOMAIN Windows :
  \/ Before(size, Windows[w]) = 0 \/ w = Len(Windows)
  \/ \E i \in (Before(size, Windows[w]) + 1) .. size : lines[i] = "task"})
=============================================================================
