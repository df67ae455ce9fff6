---------------------------- MODULE Conversation ----------------------------
(***************************************************************************)
(* A Claude in a worktree, the transcripts it writes, and promptSummary of  *)
(* server/src/session/claude.ts, which remembers how far it has read them  *)
(* and folds what is new onto what it knows.  It looks at the directory    *)
(* first and reads the file later, and several listings of the worktrees   *)
(* can be under way at once.                                               *)
(***************************************************************************)
EXTENDS Transcript

CONSTANTS
  Files,    \* the transcripts there can be, in the order readdir gives them: 1, 2, ...
  Listings, \* the calls of promptSummary that can be under way at once
  Courses   \* the bounds of each behaviour: how it starts, how often each thing from
            \* outside happens, whether the session is looked at, and whether the clock
            \* that stamps files can stand still between two writes

Events == {"ask", "steer", "local", "tool", "dialog", "stamp", "half", "end", "clear",
           "unreadable", "paint", "resize", "die", "listing"}

Doing == {"rest", "turn", "dialog"}
Start == [lines : Seq(Lines), doing : Doing, face : Seq(STRING), adopted : BOOLEAN]

\* The first transcript is the one Claude has when it starts.
ASSUME ConversationAssumption ==
  /\ Files \in SUBSET (Nat \ {None}) /\ 1 \in Files
  /\ Courses \subseteq [often : [Events -> Nat], watched : BOOLEAN, coarse : BOOLEAN,
                       starts : SUBSET Start]

VARIABLES
  file,     \* each transcript: its whole lines, a half-written one, when it was written
  claude,   \* what Claude is doing, in which file, and how many turns it has begun
  stale,    \* nothing has been written for longer than IN_TURN_STALE_MS
  prompts,  \* what promptSummary remembers of the worktree; cut (history): a first look
            \* that could not read as far back as it wanted
  listing,  \* each call of promptSummary
  budget    \* what is left of the bounds

claudeVars == <<file, claude, stale>>

Costs(k) == budget.often[k] > 0 /\ budget' = [budget EXCEPT !.often[k] = @ - 1]

NoFile == [there |-> FALSE, lines |-> <<>>, half |-> 0, at |-> 0]
NoListing == [at |-> "idle"]
Unseen == [path |-> None, size |-> 0, summary |-> Nothing, recorded |-> None, cut |-> FALSE]

(***************************************************************************)
(* Claude, and who talks to it.                                            *)
(***************************************************************************)

Latest == Max({file[f].at : f \in Files})

Holds(f, lines, half, at) ==
  /\ file' = [file EXCEPT ![f] = [there |-> TRUE, lines |-> lines, half |-> half, at |-> at]]
  /\ stale' = FALSE

\* Claude writes lines on to the end of its transcript.
Writes(lines) == Holds(claude.file, file[claude.file].lines \o lines, 0, Latest + 1)

\* Within a tick of the clock that stamps files: another write under the same time.
WritesAtOnce(lines) ==
  /\ budget.coarse /\ file[claude.file].at = Latest
  /\ Holds(claude.file, file[claude.file].lines \o lines, 0, Latest)

Submits(kind) ==
  /\ claude.doing = "rest"
  /\ Costs("ask")
  /\ Writes(<<kind>>)
  /\ claude' = [claude EXCEPT !.doing = "turn", !.turns = @ + 1]

\* A background task finishes, and a turn begins that nobody asked for.
Stirs ==
  /\ claude.doing = "rest"
  /\ Costs("tool")
  /\ Writes(<<"tool">>)
  /\ claude' = [claude EXCEPT !.doing = "turn", !.turns = @ + 1]

Steers ==
  /\ claude.doing = "turn"
  /\ Costs("steer")
  /\ Writes(<<"steer">>)
  /\ UNCHANGED claude

Works ==
  /\ claude.doing = "turn"
  /\ Costs("tool")
  /\ Writes(<<"tool">>)
  /\ UNCHANGED claude

\* A compaction while Claude rests.
Compacts ==
  /\ claude.doing = "rest"
  /\ Costs("tool")
  /\ Writes(<<"tool">>)
  /\ UNCHANGED claude

RunsLocally ==
  /\ claude.doing = "rest"
  /\ Costs("local")
  /\ Writes(<<"caveat", "command">>)
  /\ UNCHANGED claude

AsksBack ==
  /\ claude.doing = "turn"
  /\ Costs("dialog")
  /\ claude' = [claude EXCEPT !.doing = "dialog"]
  /\ UNCHANGED <<file, stale>>

\* The answer goes on with the turn; words of the person's own are a prompt.
Answered(said) ==
  /\ claude.doing = "dialog"
  /\ Writes(IF said THEN <<"say">> ELSE <<"tool">>)
  /\ claude' = [claude EXCEPT !.doing = "turn"]
  /\ UNCHANGED budget

Ends ==
  /\ claude.doing = "turn"
  /\ Costs("end")
  /\ Writes(<<"end">>) \/ WritesAtOnce(<<"end">>)
  /\ claude' = [claude EXCEPT !.doing = "rest"]

Restamps ==
  /\ claude.doing # "gone"
  /\ Costs("stamp")
  /\ Writes(<<"stamp">>)
  /\ UNCHANGED claude

\* A line is on its way: the file is longer, and holds no more whole lines.
BeginsLine ==
  /\ claude.doing # "gone"
  /\ file[claude.file].half = 0
  /\ Costs("half")
  /\ Holds(claude.file, file[claude.file].lines, 1, Latest + 1)
  /\ UNCHANGED claude

\* /clear, or a Claude that starts anew: another transcript.
Clears ==
  /\ claude.doing = "rest"
  /\ Costs("clear")
  /\ \E f \in Files : ~file[f].there /\ claude' = [claude EXCEPT !.file = f]
  /\ UNCHANGED <<file, stale>>

\* A long tool, a rest: half a minute without a line.
Ages ==
  /\ ~stale /\ budget.watched
  /\ stale' = TRUE
  /\ UNCHANGED <<file, claude, budget>>

ClaudeActs ==
  /\ \/ \E kind \in {"task", "say"} : Submits(kind)
     \/ Stirs \/ Steers \/ Works \/ Compacts \/ RunsLocally \/ AsksBack
     \/ \E said \in BOOLEAN : Answered(said)
     \/ Ends \/ Restamps \/ BeginsLine \/ Clears \/ Ages
  /\ UNCHANGED <<prompts, listing>>

(***************************************************************************)
(* newestTranscript and reading a file.                                    *)
(***************************************************************************)

\* The file written last, and of several the first that readdir gives.
Newest ==
  LET there == {f \in Files : file[f].there}
      last == {f \in there : \A g \in there : file[g].at <= file[f].at}
  IN  IF there = {} THEN None ELSE Min(last)

\* A half-written line counts for one, a whole one for two.
Size(f) == 2 * Len(file[f].lines) + file[f].half

(***************************************************************************)
(* promptSummary.                                                          *)
(***************************************************************************)

Lists(c) ==
  /\ listing[c] = NoListing
  /\ Costs("listing")
  /\ Newest # None
  /\ listing' = [listing EXCEPT ![c] =
       [at |-> "found", path |-> Newest, size |-> Size(Newest), end |-> Len(file[Newest].lines)]]
  /\ UNCHANGED <<claudeVars, prompts>>

\* The directory has been looked through, and what is remembered is read now.
Recalls(c) ==
  /\ listing[c].at = "found"
  /\ listing' = [listing EXCEPT ![c] = [at |-> "reading", path |-> @.path, size |-> @.size,
                                       end |-> @.end, seen |-> prompts]]
  /\ UNCHANGED <<claudeVars, prompts, budget>>

\* The same file, no shorter than last time: only what has been added is read.
Known(l) == l.seen.path = l.path /\ l.size >= 2 * l.seen.size

\* The whole lines since the last look, and what is half written left for the next.
ReadsOn(c) ==
  LET l == listing[c]
      lines == file[l.path].lines
      stamp == Recorded(lines, l.seen.size, l.end)
  IN  /\ l.at = "reading" /\ Known(l)
      /\ prompts' = [path |-> l.path, size |-> l.end,
                     summary |-> Fold(lines, l.seen.summary, PromptsIn(lines, l.seen.size, l.end)),
                     recorded |-> IF stamp = None THEN l.seen.recorded ELSE stamp, cut |-> l.seen.cut]
      /\ listing' = [listing EXCEPT ![c] = NoListing]
      /\ UNCHANGED <<claudeVars, budget>>

Seeds(c) ==
  LET l == listing[c]
      lines == file[l.path].lines
      seed == Seed(lines, l.end, Wide(lines, l.end))
  IN  /\ l.at = "reading" /\ ~Known(l)
      /\ prompts' = [path |-> l.path, size |-> l.end, summary |-> seed.summary,
                     recorded |-> seed.recorded, cut |-> FALSE]
      /\ listing' = [listing EXCEPT ![c] = NoListing]
      /\ UNCHANGED <<claudeVars, budget>>

\* A file that cannot be read leaves what is known of it; a first look keeps the
\* last window that could be read, or takes the file for empty.
CannotRead(c) ==
  LET l == listing[c]
      lines == file[l.path].lines
      kept(w) == LET seed == Seed(lines, l.end, w)
                 IN  [path |-> l.path, size |-> l.end, summary |-> seed.summary,
                      recorded |-> seed.recorded, cut |-> TRUE]
  IN  /\ l.at = "reading"
      /\ Costs("unreadable")
      /\ \/ Known(l) /\ UNCHANGED prompts
         \/ ~Known(l) /\ prompts' = [Unseen EXCEPT !.path = l.path]
         \/ ~Known(l) /\ \E w \in 1 .. Wide(lines, l.end) - 1 : prompts' = kept(w)
      /\ listing' = [listing EXCEPT ![c] = NoListing]
      /\ UNCHANGED claudeVars

Summarises == \E c \in Listings :
  Lists(c) \/ Recalls(c) \/ ReadsOn(c) \/ Seeds(c) \/ CannotRead(c)
=============================================================================
