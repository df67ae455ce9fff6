-------------------------------- MODULE Files --------------------------------
(***************************************************************************)
(* The files panel of one worktree: the server's guarded reads and writes  *)
(* (server/src/files.ts), the page's open file with its poll, its drafts   *)
(* and its saves (web/src/views/FilesPane.tsx, useFilesState), what the    *)
(* editor then shows (web/src/editor/CodeEditor.tsx), and the agent that   *)
(* edits the same files.                                                   *)
(*                                                                         *)
(* A text is the file it was written for, a number of its own, and the     *)
(* agent's text it was typed over.  Every write gives the file a new rev   *)
(* (revOf: its time, size and inode).                                      *)
(***************************************************************************)
EXTENDS Chances, Sequences, FiniteSets

CONSTANTS
  Path,     \* the files
  None,     \* '' or null
  MaxStamp, \* bound on the texts and revs that come to be
  MaxReads, \* bound on the reads under way
  MaxSaves  \* bound on the saves under way

ASSUME FilesAssumption ==
  /\ None \notin Path /\ IsFiniteSet(Path) /\ Cardinality(Path) <= MaxStamp
  /\ {MaxStamp, MaxReads, MaxSaves} \subseteq Nat \ {0}

VARIABLES
  disk,    \* the files: rev 0 is none of that name
  made,    \* what each rev was written as
  stamp,   \* the number given last
  drops,   \* uploads past their check, by the file they will become
  reads,   \* the reads of the effect that runs, in the order they were sent
  saves,   \* the saves under way
  drafts,  \* the unsaved buffers, held outside React
  page,    \* the hook's state and refs
  slipped  \* which of two races has happened: "stat", a file moved between a save's
           \* writeFile and the stat after it; "read", a save was answered while the
           \* file it saved, opened again meanwhile, was still to be read

server == <<disk, made, stamp, slipped>>
filesVars == <<disk, made, stamp, drops, reads, saves, drafts, page, slipped>>

NoText == [of |-> None, n |-> 0, over |-> 0]
Text == [of : Path \cup {None}, n : Nat, over : Nat]
NoFile == [rev |-> 0, text |-> NoText]

Without(s, i) == SubSeq(s, 1, i - 1) \o SubSeq(s, i + 1, Len(s))

(***************************************************************************)
(* The disk.                                                               *)
(***************************************************************************)

\* A write of t to f, whoever writes.
Written(f, t) ==
  /\ stamp < MaxStamp
  /\ stamp' = stamp + 1
  /\ disk' = [disk EXCEPT ![f] = [rev |-> stamp', text |-> t]]
  /\ made' = [made EXCEPT ![stamp'] = [of |-> f, text |-> t]]
  /\ slipped' = slipped \cup
       {x \in {"stat"} : \E i \in 1..Len(saves) : saves[i].f = f /\ saves[i].at = "written"}

OwnWork(f) == [of |-> f, n |-> stamp + 1, over |-> stamp + 1]

AgentWrites(f) ==
  /\ Spends("agent")
  /\ Written(f, OwnWork(f))
  /\ UNCHANGED <<drops, reads, saves, drafts, page>>

AgentRemoves(f) ==
  /\ Spends("remove")
  /\ disk[f].rev # 0
  /\ disk' = [disk EXCEPT ![f] = NoFile]
  /\ UNCHANGED <<made, stamp, slipped, drops, reads, saves, drafts, page>>

\* uploadFile: refused when the name is taken, streamed to a file beside it ...
DropStarts(f) ==
  /\ Spends("drop")
  /\ disk[f].rev = 0
  /\ drops' = drops \cup {f}
  /\ UNCHANGED <<server, reads, saves, drafts, page>>

\* ... and renamed on, over what may have come since.
DropLands(f) ==
  /\ f \in drops
  /\ Written(f, OwnWork(f))
  /\ drops' = drops \ {f}
  /\ UNCHANGED <<reads, saves, drafts, page, left>>

(***************************************************************************)
(* What is on screen.                                                      *)
(***************************************************************************)

Draft(f) == drafts[f] # NoText
Current(p) == p.open # None /\ p.readFor = p.open

\* The editor is built from the file, and only while the panel is open on one
\* that was read; it shows the draft if there is one, else it follows the disk.
Shown == page.enabled /\ Current(page) /\ page.file # NoText
Doc == IF Draft(page.open) THEN drafts[page.open] ELSE page.file

(***************************************************************************)
(* The effect that reads the open file.                                    *)
(***************************************************************************)

ReadOf(f, rev) == [f |-> f, ifNot |-> rev, at |-> "sent", rev |-> 0, text |-> NoText]

\* As if any rev would do.
KeepsRev(p) == p.rev

\* The rev of the file read last is not this one's.
Rev(p) == IF p.readFor = p.open THEN p.rev ELSE 0

\* The effect starts over: what an earlier one asked is not heard any more, and
\* the first read is made whether there is a draft or not.
Restarts(p) ==
  LET q == [p EXCEPT !.rev = Rev(p)]
  IN /\ page' = IF q.open = None THEN [q EXCEPT !.file = NoText, !.readFor = None] ELSE q
     /\ reads' = IF q.enabled /\ q.open # None THEN <<ReadOf(q.open, q.rev)>> ELSE <<>>

\* Another file is open: no conflict is known of it.
Opens(f) == Restarts([page EXCEPT !.open = f, !.fresh = 0, !.conflict = FALSE])

\* readTextFile, whose stat, read, stat is of one moment or is made again.
ServerReads(i) ==
  /\ i \in 1..Len(reads) /\ reads[i].at = "sent"
  /\ LET r == reads[i]
         now == disk[r.f]
     IN reads' = [reads EXCEPT ![i] =
          CASE now.rev = 0 -> [r EXCEPT !.at = "gone"]
            [] now.rev # 0 /\ now.rev = r.ifNot -> [r EXCEPT !.at = "unchanged"]
            [] OTHER -> [r EXCEPT !.at = "text", !.rev = now.rev, !.text = now.text]]
  /\ UNCHANGED <<server, drops, saves, drafts, page, left>>

\* As if the text of a file with a draft were of no use.
TakesRev(p, r) ==
  [p EXCEPT !.readFor = r.f, !.rev = r.rev, !.file = IF Draft(r.f) /\ p.readFor = r.f THEN @ ELSE r.text]

Takes(p, r) == [p EXCEPT !.readFor = r.f, !.rev = r.rev, !.file = r.text]

ReadArrives(i) ==
  /\ i \in 1..Len(reads) /\ reads[i].at # "sent"
  /\ LET r == reads[i]
     IN CASE r.at = "text" -> page' = Takes(page, r) /\ reads' = Without(reads, i)
          [] r.at = "unchanged" -> reads' = Without(reads, i) /\ UNCHANGED page
          [] r.at = "gone" -> Opens(None)
  /\ UNCHANGED <<server, drops, saves, drafts, left>>

\* The timer: not while there are unsaved edits.
Polls ==
  /\ page.enabled /\ page.open # None /\ ~Draft(page.open)
  /\ Len(reads) < MaxReads
  /\ reads' = Append(reads, ReadOf(page.open, page.rev))
  /\ UNCHANGED <<server, drops, saves, drafts, page, left>>

\* A read that fails leaves a notice, and the poll goes on.
ReadFails(i) ==
  /\ Spends("fault")
  /\ i \in 1..Len(reads)
  /\ reads' = Without(reads, i)
  /\ UNCHANGED <<server, drops, saves, drafts, page>>

(***************************************************************************)
(* What a person does.                                                     *)
(***************************************************************************)

\* openPath, and closeFile's heir.
Picks(f) ==
  /\ Spends("pick")
  /\ f # page.open
  /\ Opens(f)
  /\ UNCHANGED <<server, drops, saves, drafts>>

\* The panel is closed, scrolled away or in a tab behind; and is back.
Hides ==
  /\ Spends("hide")
  /\ page.enabled
  /\ Restarts([page EXCEPT !.enabled = FALSE])
  /\ UNCHANGED <<server, drops, saves, drafts>>

Shows ==
  /\ ~page.enabled
  /\ Restarts([page EXCEPT !.enabled = TRUE])
  /\ UNCHANGED <<server, drops, saves, drafts, left>>

\* The worktree's revision moved: its dirty count or its head.
Nudged ==
  /\ Spends("nudge")
  /\ Restarts(page)
  /\ UNCHANGED <<server, drops, saves, drafts>>

\* edited: what differs from the disk is a draft ...
Types ==
  /\ Spends("type")
  /\ Shown /\ stamp < MaxStamp
  /\ stamp' = stamp + 1
  /\ drafts' = [drafts EXCEPT ![page.open] = [Doc EXCEPT !.n = stamp']]
  /\ UNCHANGED <<disk, made, slipped, drops, reads, saves, page>>

\* ... and what is undone to the text read last is none.
Undoes ==
  /\ Spends("type")
  /\ Shown /\ Draft(page.open)
  /\ drafts' = [drafts EXCEPT ![page.open] = NoText]
  /\ UNCHANGED <<server, drops, reads, saves, page>>

(***************************************************************************)
(* Saving.                                                                 *)
(***************************************************************************)

Put(ifRev, asked) ==
  /\ Spends("save")
  /\ page.enabled /\ page.open # None
  /\ ifRev # 0 /\ Draft(page.open)
  /\ Len(saves) < MaxSaves
  /\ saves' = Append(saves, [f |-> page.open, text |-> drafts[page.open], ifRev |-> ifRev,
                             asked |-> asked, at |-> "sent", rev |-> 0, heard |-> TRUE])
  /\ UNCHANGED <<server, drops, reads, drafts, page>>

Saves == Put(page.rev, FALSE)
Overwrites == page.conflict /\ Put(page.fresh, TRUE)

\* writeTextFile compares the rev ...
SaveChecked(i) ==
  /\ i \in 1..Len(saves) /\ saves[i].at = "sent"
  /\ LET now == disk[saves[i].f].rev
     IN saves' = [saves EXCEPT ![i] =
          CASE now = 0 -> [@ EXCEPT !.at = "failed"]
            [] now # 0 /\ now # @.ifRev -> [@ EXCEPT !.at = "stale", !.rev = now]
            [] OTHER -> [@ EXCEPT !.at = "checked"]]
  /\ UNCHANGED <<server, drops, reads, drafts, page, left>>

\* ... writes in place, ...
SaveWrites(i) ==
  /\ i \in 1..Len(saves) /\ saves[i].at = "checked"
  /\ Written(saves[i].f, saves[i].text)
  /\ saves' = [saves EXCEPT ![i].at = "written"]
  /\ UNCHANGED <<drops, reads, drafts, page, left>>

\* ... and answers with the rev that a stat then finds.
SaveStats(i) ==
  /\ i \in 1..Len(saves) /\ saves[i].at = "written"
  /\ LET now == disk[saves[i].f].rev
     IN saves' = [saves EXCEPT ![i].at = IF now = 0 THEN "failed" ELSE "saved", ![i].rev = now]
  /\ UNCHANGED <<server, drops, reads, drafts, page, left>>

\* The request breaks off: the server goes on with it, nobody hears of it.
SaveFails(i) ==
  /\ Spends("fault")
  /\ i \in 1..Len(saves) /\ saves[i].heard
  /\ saves' = [saves EXCEPT ![i].heard = FALSE]
  /\ UNCHANGED <<server, drops, reads, drafts, page>>

\* put: as if the file that is open were the one that was saved.
SavedAnyway(p, s) ==
  [p EXCEPT !.rev = s.rev, !.fresh = 0, !.conflict = FALSE, !.file = s.text]

\* put: only if it is still the file on screen.
Saved(p, s) ==
  IF s.f # p.open THEN p
  ELSE [p EXCEPT !.rev = s.rev, !.fresh = 0, !.conflict = FALSE, !.file = s.text]

SaveArrives(i) ==
  /\ i \in 1..Len(saves) /\ saves[i].at \in {"saved", "stale", "failed"}
  /\ saves' = Without(saves, i)
  /\ LET s == saves[i]
     IN /\ page' = CASE s.heard /\ s.at = "saved" -> Saved(page, s)
                     [] s.heard /\ s.at = "stale" -> [page EXCEPT !.fresh = s.rev, !.conflict = TRUE]
                     [] OTHER -> page
        /\ drafts' = IF s.heard /\ s.at = "saved" /\ s.f = page.open
                       THEN [drafts EXCEPT ![s.f] = NoText] ELSE drafts
        /\ slipped' = IF s.heard /\ s.at = "saved" /\ s.f = page.open /\ ~Current(page)
                        THEN slipped \cup {"read"} ELSE slipped
  /\ UNCHANGED <<disk, made, stamp, drops, reads, left>>

\* revert is made once, for the file open at the first render: it is that
\* file's draft that goes.
Discards ==
  /\ Spends("discard")
  /\ page.enabled /\ page.conflict
  /\ drafts' = [f \in Path |-> IF f = page.first THEN NoText ELSE drafts[f]]
  /\ Restarts([page EXCEPT !.fresh = 0, !.conflict = FALSE])
  /\ UNCHANGED <<server, drops, saves>>

-----------------------------------------------------------------------------
Numbered == CHOOSE g \in [Path -> 1..Cardinality(Path)] : \A f, h \in Path : g[f] = g[h] => f = h
FirstText(f) == [of |-> f, n |-> Numbered[f], over |-> Numbered[f]]

FilesInit(opened) ==
  /\ disk = [f \in Path |-> [rev |-> Numbered[f], text |-> FirstText(f)]]
  /\ made = [n \in 0..MaxStamp |-> IF \E f \in Path : Numbered[f] = n
                THEN LET f == CHOOSE f \in Path : Numbered[f] = n IN [of |-> f, text |-> FirstText(f)]
                ELSE [of |-> None, text |-> NoText]]
  /\ stamp = Cardinality(Path)
  /\ drops = {} /\ saves = <<>> /\ slipped = {}
  /\ drafts = [f \in Path |-> NoText]
  /\ \E f \in opened :
       /\ page = [open |-> f, first |-> f, enabled |-> TRUE, readFor |-> None, file |-> NoText,
                  rev |-> 0, fresh |-> 0, conflict |-> FALSE]
       /\ reads = IF f = None THEN <<>> ELSE <<ReadOf(f, 0)>>

People == \/ \E f \in Path \cup {None} : Picks(f)
          \/ Hides \/ Shows \/ Nudged \/ Types \/ Undoes \/ Saves \/ Overwrites \/ Discards
Reading == \/ Polls
           \/ \E i \in 1..MaxReads : ServerReads(i) \/ ReadArrives(i) \/ ReadFails(i)
Saving == \E i \in 1..MaxSaves : SaveChecked(i) \/ SaveWrites(i) \/ SaveStats(i) \/ SaveFails(i) \/ SaveArrives(i)
Others == \E f \in Path : AgentWrites(f) \/ AgentRemoves(f) \/ DropStarts(f) \/ DropLands(f)

FilesNext == People \/ Reading \/ Saving \/ Others

FilesTypeOK ==
  /\ disk \in [Path -> [rev : 0..MaxStamp, text : Text]]
  /\ made \in [0..MaxStamp -> [of : Path \cup {None}, text : Text]]
  /\ stamp \in 0..MaxStamp
  /\ drops \subseteq Path
  /\ \A i \in 1..Len(reads) :
       reads[i] \in [f : Path, ifNot : 0..MaxStamp, at : {"sent", "gone", "unchanged", "text"},
                     rev : 0..MaxStamp, text : Text]
  /\ \A i \in 1..Len(saves) :
       saves[i] \in [f : Path, text : Text, ifRev : 0..MaxStamp, asked : BOOLEAN, rev : 0..MaxStamp,
                     at : {"sent", "checked", "written", "saved", "stale", "failed"}, heard : BOOLEAN]
  /\ drafts \in [Path -> Text]
  /\ page \in [open : Path \cup {None}, first : Path \cup {None}, enabled : BOOLEAN,
               readFor : Path \cup {None}, file : Text, rev : 0..MaxStamp, fresh : 0..MaxStamp,
               conflict : BOOLEAN]
  /\ slipped \subseteq {"stat", "read"}

-----------------------------------------------------------------------------
(* What is checked.                                                        *)

\* What is on screen, held as a draft or on disk under a name was read from, or
\* typed over, that file: no answer to a read or a save that lands after
\* another file was opened carries one file's text into another (put: "the
\* conflict dialog's Overwrite wrote A into B").
OwnText == "read" \notin slipped =>
  /\ Shown => Doc.of = page.open
  /\ \A f \in Path : /\ Draft(f) => drafts[f].of = f
                     /\ disk[f].rev # 0 => disk[f].text.of = f

\* The rev a save is checked against is the rev of the very text the page
\* holds for the file on screen, however reads, polls and saves overtake each
\* other; but for a file that moved between a save's write and its stat.
RevOfText ==
  page.open # None /\ page.rev # 0 =>
    /\ "read" \in slipped \/ made[page.rev].of = page.open
    /\ Current(page) /\ slipped = {} => made[page.rev].text = page.file

\* A file that is open and has no unsaved edits comes to show what is on disk.
FollowsDisk ==
  []<>(page.open = None \/ ~page.enabled \/ Draft(page.open) \/ slipped # {}
       \/ (Shown /\ Doc = disk[page.open].text))
=============================================================================
