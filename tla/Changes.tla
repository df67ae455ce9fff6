------------------------------ MODULE Changes ------------------------------
(***************************************************************************)
(* The changes and commits faces of the files panel: what the server reads *)
(* of one worktree, one git command after another (server/src/git/         *)
(* changes.ts), and the page's two effects, the listing and the patch of   *)
(* what is selected (web/src/views/ChangesPane.tsx, useChangesState).      *)
(*                                                                         *)
(* A file's text is a number, 0 for no such file.  A commit is a number    *)
(* too, and holds the texts of the whole tree.                             *)
(***************************************************************************)
EXTENDS Chances, Sequences, FiniteSets

CONSTANTS
  File,      \* the files
  Null,       \* null, or nothing selected
  Recent,    \* RECENT_COMMITS
  MaxWork    \* bound on the texts and the commits that come to be

ASSUME ChangesAssumption == {Recent, MaxWork} \subseteq Nat \ {0}

VARIABLES
  text,     \* the working tree
  tree,     \* what each commit holds
  parent,   \* and what it was made on
  history,  \* HEAD's line of commits, the first of which is the base's
  base,     \* the base still resolves
  work,     \* the number given last, to a text or a commit
  list,     \* the read of the listing whose answer is still wanted
  diff,     \* the read of a patch whose answer is still wanted
  panel     \* the hook's state and what the row gives it

worktree == <<text, tree, parent, history, base, work>>
changesVars == <<text, tree, parent, history, base, work, list, diff, panel>>

Tip == history[Len(history)]
Touched(c) == {f \in File : tree[c][f] # tree[parent[c]][f]}

(***************************************************************************)
(* The agent.                                                              *)
(***************************************************************************)

\* `kept`: the files whose change a listing under way has had before it all along.
Outstanding == {f \in File : text[f] # tree[history[1]][f]}
StillOutstanding(gone) == list' = IF list = Null THEN Null ELSE [list EXCEPT !.kept = @ \ gone]

Edits(f) ==
  /\ Spends("edit")
  /\ work < MaxWork /\ work' = work + 1
  /\ text' = [text EXCEPT ![f] = work']
  /\ UNCHANGED <<tree, parent, history, base, list, diff, panel>>

\* git checkout, or the file made again as it was.
PutsBack(f) ==
  /\ Spends("undo")
  /\ text[f] # tree[Tip][f]
  /\ text' = [text EXCEPT ![f] = tree[Tip][f]]
  /\ StillOutstanding(IF tree[Tip][f] = tree[history[1]][f] THEN {f} ELSE {})
  /\ UNCHANGED <<tree, parent, history, base, work, diff, panel>>

\* Everything there is, as a commit: a new one, or in the place of the last.
CommitsOn(line) ==
  /\ text # tree[Tip]
  /\ work < MaxWork /\ work' = work + 1
  /\ tree' = [tree EXCEPT ![work'] = text]
  /\ parent' = [parent EXCEPT ![work'] = line[Len(line)]]
  /\ history' = Append(line, work')
  /\ UNCHANGED <<text, base, list, diff, panel>>

Commits == Spends("commit") /\ CommitsOn(history)
Amends == Spends("amend") /\ Len(history) > 1 /\ CommitsOn(SubSeq(history, 1, Len(history) - 1))

\* The branch it is measured against is deleted on the remote.
BaseGoes ==
  /\ Spends("gone") /\ base
  /\ base' = FALSE
  /\ UNCHANGED <<text, tree, parent, history, work, list, diff, panel>>

(***************************************************************************)
(* worktreeChanges: git status, then the log ahead of the base, then, with *)
(* nothing ahead or nothing to measure against, the last few commits.      *)
(***************************************************************************)
NoListing == [uncommitted |-> {}, commits |-> <<>>, scope |-> "recent"]
Uncommitted == {[f |-> f, untracked |-> tree[Tip][f] = 0] : f \in {f \in File : text[f] # tree[Tip][f]}}

ListAt(at) == list # Null /\ list.at = at

Ahead == SubSeq(history, 2, Len(history))

\* As if the log were read first.
ReadsLogFirst ==
  /\ list # Null /\ list.at \in {"asked", "status"} /\ base /\ Ahead # <<>>
  /\ list' = IF list.at = "asked"
               THEN [list EXCEPT !.shown.commits = Ahead, !.shown.scope = "ahead", !.at = "status"]
               ELSE [list EXCEPT !.shown.uncommitted = Uncommitted, !.at = "read"]
  /\ UNCHANGED <<worktree, diff, panel, left>>

ReadsStatus ==
  /\ ListAt("asked")
  /\ list' = [list EXCEPT !.shown.uncommitted = Uncommitted, !.at = "status"]
  /\ UNCHANGED <<worktree, diff, panel, left>>

\* A folder is no repository, and no git command answers in one.
StatusRefused ==
  /\ Spends("fault")
  /\ ListAt("asked")
  /\ list' = [list EXCEPT !.at = "read", !.kept = {}]
  /\ UNCHANGED <<worktree, diff, panel>>

\* base..HEAD.
ReadsAhead ==
  /\ ListAt("status")
  /\ list' = IF base /\ Ahead # <<>>
               THEN [list EXCEPT !.shown.commits = Ahead, !.shown.scope = "ahead", !.at = "read"]
               ELSE [list EXCEPT !.at = "ahead"]
  /\ UNCHANGED <<worktree, diff, panel, left>>

LastFew == SubSeq(history, (IF Len(history) > Recent THEN Len(history) - Recent ELSE 0) + 1, Len(history))

ReadsRecent ==
  /\ ListAt("ahead")
  /\ list' = [list EXCEPT !.shown.commits = LastFew, !.at = "read"]
  /\ UNCHANGED <<worktree, diff, panel, left>>

(***************************************************************************)
(* fileDiff and commitDiff: one git command, and its answer.               *)
(***************************************************************************)

\* An untracked file is all additions, whatever HEAD has become; a tracked one
\* is against HEAD, which has nothing to say of a file it never held.
FileDiff(f, untracked) ==
  IF untracked THEN [from |-> 0, to |-> text[f]]
  ELSE IF tree[Tip][f] = 0 THEN [from |-> 0, to |-> 0]
  ELSE [from |-> tree[Tip][f], to |-> text[f]]

CommitDiff(c) == [from |-> 0, to |-> c]

ReadsDiff ==
  /\ diff # Null /\ diff.at = "asked"
  /\ LET what == diff.what
     IN diff' = [diff EXCEPT !.at = "read",
          !.got = IF what.kind = "commit" THEN CommitDiff(what.of) ELSE FileDiff(what.of, what.untracked)]
  /\ UNCHANGED <<worktree, list, panel, left>>

(***************************************************************************)
(* The page.                                                               *)
(***************************************************************************)

\* What the diff is of, derived rather than stored.
Change(p) == IF p.listing = Null THEN {} ELSE {c \in p.listing.uncommitted : c.f = p.path}
What(p) ==
  IF p.mode = "commits"
    THEN IF p.commit = Null THEN Null ELSE [kind |-> "commit", of |-> p.commit, untracked |-> FALSE]
    ELSE IF Change(p) = {} THEN Null
         ELSE [kind |-> "file", of |-> p.path, untracked |-> (CHOOSE c \in Change(p) : TRUE).untracked]

\* An effect's cleanup goes deaf to the read it had under way, and starts another.
ListingEffect(p) ==
  list' = IF p.enabled THEN [at |-> "asked", shown |-> NoListing, kept |-> Outstanding] ELSE Null

DiffEffect(p) ==
  /\ diff' = IF p.enabled /\ What(p) # Null THEN [what |-> What(p), at |-> "asked", got |-> Null] ELSE Null
  /\ panel' = IF p.enabled /\ What(p) = Null THEN [p EXCEPT !.patch = Null] ELSE p

\* A hash that no longer names a commit closes the pane.
Closed(p) ==
  IF p.listing # Null /\ p.commit # Null /\ \A i \in DOMAIN p.listing.commits : p.listing.commits[i] # p.commit
    THEN [p EXCEPT !.commit = Null] ELSE p

\* As if the patch were not read again.
PollsListing ==
  /\ panel.enabled
  /\ \/ list = Null /\ diff = Null /\ UNCHANGED left
     \/ Spends("late")
  /\ ListingEffect(panel)
  /\ UNCHANGED <<worktree, diff, panel>>

\* The interval, and the server's word that the dirty count or HEAD moved; so
\* often, git is slower.
PollsGit ==
  /\ panel.enabled
  /\ \/ list = Null /\ diff = Null /\ UNCHANGED left
     \/ Spends("late")
  /\ ListingEffect(panel) /\ DiffEffect(panel)
  /\ UNCHANGED worktree

ListingArrives ==
  /\ ListAt("read")
  /\ list' = Null
  /\ IF list.shown = panel.listing
       THEN panel' = [panel EXCEPT !.error = FALSE] /\ UNCHANGED diff
       ELSE DiffEffect(Closed([panel EXCEPT !.listing = list.shown, !.error = FALSE]))
  /\ UNCHANGED <<worktree, left>>

PatchArrives ==
  /\ diff # Null /\ diff.at = "read"
  /\ diff' = Null
  /\ panel' = [panel EXCEPT !.patch = [what |-> diff.what, is |-> diff.got]]
  /\ UNCHANGED <<worktree, list, left>>

ListingFails ==
  /\ Spends("fault")
  /\ list # Null /\ list' = Null
  /\ panel' = [panel EXCEPT !.error = TRUE]
  /\ UNCHANGED <<worktree, diff>>

PatchFails ==
  /\ Spends("fault")
  /\ diff # Null /\ diff' = Null
  /\ panel' = [panel EXCEPT !.error = TRUE]
  /\ UNCHANGED <<worktree, list>>

\* A row of either list is clicked, or the other list is chosen.
Selects(p) == /\ Spends("select") /\ panel.enabled /\ p # panel
              /\ DiffEffect(Closed(p)) /\ UNCHANGED <<worktree, list>>

SelectsFile == panel.mode = "changes" /\ \E f \in File : Selects([panel EXCEPT !.path = f])
SelectsCommit == /\ panel.mode = "commits" /\ panel.listing # Null
                 /\ \E i \in DOMAIN panel.listing.commits : Selects([panel EXCEPT !.commit = panel.listing.commits[i]])
SelectsMode == \E m \in {"changes", "commits"} : Selects([panel EXCEPT !.mode = m])

\* The panel closes, turns to another mode, or the tab goes to the background.
Turns == /\ Spends("turn")
         /\ LET p == [panel EXCEPT !.enabled = ~@] IN ListingEffect(p) /\ DiffEffect(p)
         /\ UNCHANGED worktree

-----------------------------------------------------------------------------
Old == CHOOSE f \in File : TRUE    \* the one file there already

ChangesInit(enabled) ==
  /\ text = [f \in File |-> IF f = Old THEN 1 ELSE 0]
  /\ tree = [c \in 0..MaxWork |-> text] /\ parent = [c \in 0..MaxWork |-> 0]
  /\ history = <<0>> /\ base = TRUE /\ work = 1
  /\ list = Null /\ diff = Null
  /\ panel = [listing |-> Null, patch |-> Null, error |-> FALSE, enabled |-> enabled,
              mode |-> "changes", path |-> Old, commit |-> Null]

AgentWorks == \/ \E f \in File : Edits(f) \/ PutsBack(f)
              \/ Commits \/ Amends \/ BaseGoes
ReadsListing == ReadsStatus \/ ReadsAhead \/ ReadsRecent
GitAnswers == ReadsListing \/ StatusRefused \/ ReadsDiff
PageReads == PollsGit \/ ListingArrives \/ PatchArrives \/ ListingFails \/ PatchFails
PersonReads == SelectsFile \/ SelectsCommit \/ SelectsMode \/ Turns

ChangesNext == AgentWorks \/ GitAnswers \/ PageReads \/ PersonReads

-----------------------------------------------------------------------------
(* What is checked.                                                        *)

\* git status is read before the log, so that a commit made between the two is
\* told twice and never missed: what has differed from the base all the while
\* a listing was read is in it, uncommitted or in one of its commits, as far
\* back as the listing goes.
Mentioned(l) == {c.f : c \in l.uncommitted} \cup UNION {Touched(l.commits[i]) : i \in DOMAIN l.commits}
NothingMissed ==
  ListAt("read") /\ (list.shown.scope = "ahead" \/ Len(history) <= Recent) =>
    list.kept \subseteq Mentioned(list.shown)

\* "The panel sat showing a patch that was minutes out of date while the count
\* beside it stayed correct": an open panel comes to show what git says now,
\* and the patch of what is selected as it is now, or none.
ListingNow == [uncommitted |-> Uncommitted,
             commits |-> IF base /\ Ahead # <<>> THEN Ahead ELSE LastFew,
             scope |-> IF base /\ Ahead # <<>> THEN "ahead" ELSE "recent"]
PatchNow == LET w == What(panel)
            IN IF w = Null THEN Null
               ELSE [what |-> w, is |-> IF w.kind = "commit" THEN CommitDiff(w.of) ELSE FileDiff(w.of, w.untracked)]
CatchesUp == []<>(~panel.enabled \/ (panel.listing = ListingNow /\ panel.patch = PatchNow))

ChangesTypeOK ==
  /\ text \in [File -> 0..MaxWork] /\ work \in 0..MaxWork /\ base \in BOOLEAN
  /\ tree \in [0..MaxWork -> [File -> 0..MaxWork]] /\ parent \in [0..MaxWork -> 0..MaxWork]
  /\ history \in Seq(0..MaxWork)
  /\ list # Null => list.at \in {"asked", "status", "ahead", "read"} /\ list.kept \subseteq File
  /\ diff # Null => diff.at \in {"asked", "read"}
  /\ panel.mode \in {"changes", "commits"} /\ panel.path \in File /\ panel.commit \in 0..MaxWork \cup {Null}
=============================================================================
