------------------------------ MODULE Opening ------------------------------
(***************************************************************************)
(* Opening a project: the dialog that browses a machine's disk             *)
(* (web/src/components/OpenProjectDialog.tsx), and what the machine does    *)
(* with the path, one await after another (server/src/workspace.ts,        *)
(* openProject, and server/src/git/worktree.ts).  A linked machine answers *)
(* as this one does, through the gateway.                                  *)
(*                                                                         *)
(* A directory is a repository (`of` its main worktree, itself or another), *)
(* or none (`of` is Nil).                                                  *)
(***************************************************************************)
EXTENDS Chances, Sequences, FiniteSets

CONSTANTS
  Machine, Here,  \* the machines, and the one the page talks to
  Dir, Home,     \* the paths, and where the picker starts
  Parent,         \* the path a path is in, Nil for the root
  Nil,
  RecentLimit,    \* RECENT_LIMIT
  Scenes          \* the disks, authors and links a behaviour starts with, by its mix

ASSUME OpeningAssumption ==
  /\ Here \in Machine /\ Home \in Dir /\ Nil \notin Machine \cup Dir
  /\ Parent \in [Dir -> Dir \cup {Nil}]
  /\ RecentLimit \in Nat \ {0}

VARIABLES
  dirs,      \* each machine's disk
  author,    \* git has an author's name on a machine
  projects,  \* each machine's registry: a root to what it is open as
  recents,   \* each machine's closed projects, newest first
  linked,    \* the gateway's registry of machines
  opens,     \* the opens under way: `n` the dialog they were sent from, `given` the
             \* machine the path was read on
  links,     \* the machines being linked and forgotten
  asking,     \* what the dialog has asked: `wanted` while it is the current read
  dialog     \* its state; `crossed`: a machine was forgotten, and left, while a path
             \* on it was being opened

registries == <<projects, recents, linked>>
openingVars == <<dirs, author, registries, opens, links, asking, dialog>>

NoDir == [is |-> "none", of |-> Nil]
PlainDir == [is |-> "dir", of |-> Nil]
RepoAt(p) == [is |-> "dir", of |-> p]

\* A path and what it is in, up to the root.
Above[p \in Dir] == {p} \cup (IF Parent[p] = Nil THEN {} ELSE Above[Parent[p]])

(***************************************************************************)
(* The disk, and git.                                                      *)
(***************************************************************************)
Is(m, p) == dirs[m][p].is = "dir"
Repos(m, p) == {q \in Dir : Is(m, q) /\ dirs[m][q].of # Nil}
Enclosing(m, p) == Above[p] \cap Repos(m, p)
IsGitRepo(m, p) == Enclosing(m, p) # {}
Toplevel(m, p) == CHOOSE q \in Enclosing(m, p) : Enclosing(m, p) \subseteq Above[q]

\* The main worktree, if it is still there.
RepoRoot(m, p) == LET main == dirs[m][Toplevel(m, p)].of
                  IN IF IsGitRepo(m, main) THEN main ELSE Toplevel(m, p)

\* One level only.
ContainedRepos(m, p) == {q \in Repos(m, p) : Parent[q] = p}

Disk(m, f) == dirs' = [dirs EXCEPT ![m] = f]
Made(m, p) == [q \in Dir |-> IF q \in Above[p] /\ ~Is(m, q) THEN PlainDir ELSE dirs[m][q]]

Clones(m, p) ==
  /\ Spends("clone")
  /\ ~Is(m, p)
  /\ Disk(m, [Made(m, p) EXCEPT ![p] = RepoAt(p)])
  /\ UNCHANGED <<author, registries, opens, links, asking, dialog>>

Deletes(m, p) ==
  /\ Spends("delete")
  /\ Is(m, p) /\ p # Home
  /\ Disk(m, [q \in Dir |-> IF p \in Above[q] THEN NoDir ELSE dirs[m][q]])
  /\ UNCHANGED <<author, registries, opens, links, asking, dialog>>

\* git config --global user.name
Introduces(m) ==
  /\ Spends("author")
  /\ author' = author \cup {m}
  /\ UNCHANGED <<dirs, registries, opens, links, asking, dialog>>

(***************************************************************************)
(* The registries.                                                         *)
(***************************************************************************)
Registered(m, root, kind) ==
  /\ projects' = [projects EXCEPT ![m] = {r \in @ : r.root # root} \cup {[root |-> root, kind |-> kind]}]
  /\ recents' = [recents EXCEPT ![m] = SelectSeq(@, LAMBDA r : r.root # root)]

ClosesProject(m, r) ==
  /\ Spends("close")
  /\ r \in projects[m]
  /\ projects' = [projects EXCEPT ![m] = @ \ {r}]
  /\ recents' = [recents EXCEPT ![m] =
       LET s == <<r>> \o SelectSeq(@, LAMBDA x : x.root # r.root)
       IN SubSeq(s, 1, IF Len(s) > RecentLimit THEN RecentLimit ELSE Len(s))]
  /\ UNCHANGED <<dirs, author, linked, opens, links, asking, dialog>>

\* What the picker is offered back.
RecentProjects(m) == SelectSeq(recents[m], LAMBDA r : Is(m, r.root) /\ \A p \in projects[m] : p.root # r.root)

ForgetsElsewhere(m) ==
  /\ Spends("elsewhere")
  /\ m \in linked /\ linked' = linked \ {m}
  /\ UNCHANGED <<dirs, author, projects, recents, opens, links, asking, dialog>>

(***************************************************************************)
(* openProject.                                                            *)
(***************************************************************************)
OpenAt(i, at) == i \in DOMAIN opens /\ opens[i].at = at
GoesTo(i, at) == opens' = [opens EXCEPT ![i].at = at]
Answered(i, what) == opens' = [opens EXCEPT ![i].at = "answered", ![i].answer = what]

Looks(i) ==
  /\ OpenAt(i, "asked")
  /\ LET o == opens[i]
     IN IF o.m \notin linked \cup {Here} THEN Answered(i, [kind |-> "failed"])
        ELSE IF Is(o.m, o.path) THEN GoesTo(i, "isDirectory")
        ELSE IF o.create THEN GoesTo(i, "mkdir")
        ELSE Answered(i, [kind |-> "create", repos |-> {}])
  /\ UNCHANGED <<dirs, author, registries, links, asking, dialog, left>>

MakesDir(i) ==
  /\ OpenAt(i, "mkdir")
  /\ Disk(opens[i].m, Made(opens[i].m, opens[i].path))
  /\ GoesTo(i, "isDirectory")
  /\ UNCHANGED <<author, registries, links, asking, dialog, left>>

\* A folder is registered as itself, ahead of any question to git.
ChecksDir(i) ==
  /\ OpenAt(i, "isDirectory")
  /\ LET o == opens[i]
     IN IF ~Is(o.m, o.path) THEN Answered(i, [kind |-> "failed"]) /\ UNCHANGED <<projects, recents>>
        ELSE IF o.folder THEN Answered(i, [kind |-> "opened"]) /\ Registered(o.m, o.path, "folder")
        ELSE GoesTo(i, "isGitRepo") /\ UNCHANGED <<projects, recents>>
  /\ UNCHANGED <<dirs, author, linked, links, asking, dialog, left>>

AsksGit(i) ==
  /\ OpenAt(i, "isGitRepo")
  /\ GoesTo(i, IF IsGitRepo(opens[i].m, opens[i].path) THEN "repoRoot"
              ELSE IF opens[i].create THEN "init" ELSE "inspect")
  /\ UNCHANGED <<dirs, author, registries, links, asking, dialog, left>>

\* Something is there already: what initialising it would take in.
Inspects(i) ==
  /\ OpenAt(i, "inspect")
  /\ LET o == opens[i]
     IN Answered(i, [kind |-> "init", repos |-> ContainedRepos(o.m, o.path)])
  /\ UNCHANGED <<dirs, author, registries, links, asking, dialog, left>>

\* git init, which leaves a repository that is there already as it is.
Inits(i) ==
  /\ OpenAt(i, "init")
  /\ LET o == opens[i]
     IN IF ~Is(o.m, o.path) THEN Answered(i, [kind |-> "failed"]) /\ UNCHANGED dirs
        ELSE /\ dirs' = [dirs EXCEPT ![o.m][o.path].of = IF @ = Nil THEN o.path ELSE @]
             /\ GoesTo(i, "commit")
  /\ UNCHANGED <<author, registries, links, asking, dialog, left>>

\* git add -A, unless told not to, and git commit --allow-empty; git refuses to
\* commit with no author, and the repository stays as init left it.
CommitsFirst(i) ==
  /\ OpenAt(i, "commit")
  /\ LET o == opens[i]
     IN IF IsGitRepo(o.m, o.path) /\ o.m \in author THEN GoesTo(i, "repoRoot")
        ELSE Answered(i, [kind |-> "failed"])
  /\ UNCHANGED <<dirs, author, registries, links, asking, dialog, left>>

FindsRoot(i) ==
  /\ OpenAt(i, "repoRoot")
  /\ LET o == opens[i]
     IN IF ~Is(o.m, o.path) \/ ~IsGitRepo(o.m, o.path)
          THEN Answered(i, [kind |-> "failed"]) /\ UNCHANGED <<projects, recents>>
          ELSE Answered(i, [kind |-> "opened"]) /\ Registered(o.m, RepoRoot(o.m, o.path), "git")
  /\ UNCHANGED <<dirs, author, linked, links, asking, dialog, left>>

(***************************************************************************)
(* What the picker asks: a machine's disk, its closed projects, and the   *)
(* machines there are.                                                     *)
(***************************************************************************)
Asks(kind, on, dir) == [kind |-> kind, wanted |-> TRUE, on |-> on, dir |-> dir, got |-> Nil]

\* ++reads.current: the reads of that kind before this one are another machine's.
Unwanted(kinds) == {IF r.kind \in kinds THEN [r EXCEPT !.wanted = FALSE] ELSE r : r \in asking}

Rows(m, dir) == {[path |-> q, repo |-> dirs[m][q].of # Nil] :
                   q \in {q \in Dir : Is(m, q) /\ Parent[q] = dir}}

AnswersRead(r) ==
  /\ r \in asking /\ r.got = Nil
  /\ r.on \in linked \cup {Here} /\ (r.kind = "browse" => Is(r.on, r.dir))
  /\ asking' = (asking \ {r}) \cup {[r EXCEPT !.got =
       [rows |-> CASE r.kind = "browse" -> Rows(r.on, r.dir)
                   [] r.kind = "recents" -> {RecentProjects(r.on)[i] : i \in DOMAIN RecentProjects(r.on)}
                   [] r.kind = "servers" -> linked]]}
  /\ UNCHANGED <<dirs, author, registries, opens, links, dialog, left>>

Browsed(r) == [dialog EXCEPT !.listing = [on |-> r.on, dir |-> r.dir, rows |-> r.got.rows],
                             !.path = [on |-> r.on, path |-> r.dir]]
Offered(r) == [dialog EXCEPT !.rows = [on |-> r.on, rows |-> r.got.rows]]

PickerShows(r) ==
  /\ r \in asking /\ r.got # Nil
  /\ asking' = asking \ {r}
  /\ dialog' = CASE r.kind = "servers" -> [dialog EXCEPT !.servers = r.got.rows]
                 [] r.kind = "browse" /\ r.wanted -> Browsed(r)
                 [] r.kind = "recents" /\ r.wanted -> Offered(r)
                 [] OTHER -> dialog
  /\ UNCHANGED <<dirs, author, registries, opens, links, left>>

\* A machine that is off, one no longer linked, or a directory that has gone.
PickerFails(r) ==
  /\ r \in asking /\ r.got = Nil
  /\ \/ Spends("fault")
     \/ UNCHANGED left /\ (r.on \notin linked \cup {Here} \/ (r.kind = "browse" /\ ~Is(r.on, r.dir)))
  /\ asking' = asking \ {r}
  /\ dialog' = IF r.kind = "recents" /\ r.wanted THEN [dialog EXCEPT !.rows = [on |-> r.on, rows |-> {}]] ELSE dialog
  /\ UNCHANGED <<dirs, author, registries, opens, links>>

(***************************************************************************)
(* The dialog.                                                             *)
(***************************************************************************)
Empty(on) == [on |-> on, rows |-> {}]
NoPath(on) == [on |-> on, path |-> Nil]

\* As if what the last machine showed could stay until this one answers.
SwitchedLater(d, m) == IF d.host = m THEN d ELSE [d EXCEPT !.host = m, !.proposal = Nil]

\* Emptied before the new machine answers, not after.
Switched(d, m) ==
  IF d.host = m THEN d
  ELSE [d EXCEPT !.host = m, !.listing = Nil, !.rows = Empty(m), !.path = NoPath(m), !.proposal = Nil]
AsksAfresh(d, m) ==
  asking' = IF d.host = m THEN asking
           ELSE Unwanted({"browse", "recents"}) \cup {Asks("browse", m, Home), Asks("recents", m, Nil)}

PutsUp ==
  /\ Spends("put")
  /\ ~dialog.up
  /\ dialog' = [n |-> dialog.n + 1, up |-> TRUE, host |-> Here, servers |-> {}, listing |-> Nil,
                rows |-> Empty(Here), path |-> NoPath(Here), proposal |-> Nil, busy |-> FALSE, crossed |-> FALSE]
  /\ asking' = {Asks("browse", Here, Home), Asks("recents", Here, Nil), Asks("servers", Here, Nil)}
  /\ UNCHANGED <<dirs, author, registries, opens, links>>

\* What an answer sets in a dialog that has gone is set nowhere.
TakesDown == dialog' = [dialog EXCEPT !.up = FALSE] /\ asking' = {}

Cancels ==
  /\ Spends("cancel")
  /\ dialog.up /\ TakesDown
  /\ UNCHANGED <<dirs, author, registries, opens, links>>

Picking == dialog.up /\ dialog.proposal = Nil

ChoosesMachine(m) ==
  /\ Spends("chip")
  /\ Picking /\ ~dialog.busy
  /\ m \in dialog.servers \cup {Here} /\ m # dialog.host
  /\ dialog' = Switched(dialog, m) /\ AsksAfresh(dialog, m)
  /\ UNCHANGED <<dirs, author, registries, opens, links>>

\* A row that is no repository, or the one above: not one of them waits for `busy`.
Browses(dir) ==
  /\ Spends("browse")
  /\ Picking /\ dialog.listing # Nil
  /\ dir = Parent[dialog.listing.dir] \/ [path |-> dir, repo |-> FALSE] \in dialog.listing.rows
  /\ asking' = Unwanted({"browse"}) \cup {Asks("browse", dialog.host, dir)}
  /\ UNCHANGED <<dirs, author, registries, opens, links, dialog>>

TypesPath(p) ==
  /\ Spends("type")
  /\ Picking
  /\ dialog' = [dialog EXCEPT !.path = [on |-> dialog.host, path |-> p]]
  /\ UNCHANGED <<dirs, author, registries, opens, links, asking>>

\* open(): not while another is under way, and not on a machine the list lost.
Sends(target, create, folder) ==
  /\ dialog.up /\ ~dialog.busy
  /\ IF dialog.host \notin dialog.servers \cup {Here}
       THEN UNCHANGED <<opens, dialog>>
       ELSE /\ dialog' = [dialog EXCEPT !.busy = TRUE]
            /\ opens' = Append(opens, [n |-> dialog.n, m |-> dialog.host, path |-> target.path,
                 given |-> target.on, create |-> create, folder |-> folder,
                 at |-> "asked", answer |-> Nil])
  /\ UNCHANGED <<dirs, author, registries, links, asking>>

OpensTyped == /\ Spends("open") /\ Picking /\ dialog.path.path # Nil
              /\ Sends(dialog.path, FALSE, FALSE)
OpensRow == /\ Spends("open") /\ Picking /\ dialog.listing # Nil
            /\ \E r \in dialog.listing.rows :
                 r.repo /\ Sends([on |-> dialog.listing.on, path |-> r.path], FALSE, FALSE)
OpensRecent == /\ Spends("open") /\ Picking
               /\ \E r \in dialog.rows.rows :
                    Sends([on |-> dialog.rows.on, path |-> r.root], FALSE, r.kind = "folder")
Confirms == /\ Spends("confirm") /\ dialog.proposal # Nil
            /\ LET q == dialog.proposal
               IN Sends(q, q.kind # "folder", q.kind = "folder")
Backs == /\ Spends("back") /\ dialog.up /\ dialog.proposal # Nil
         /\ dialog' = [dialog EXCEPT !.proposal = Nil]
         /\ UNCHANGED <<dirs, author, registries, opens, links, asking>>

\* What a refusal comes to: repositories inside leave only the folder to offer.
Proposed(o) ==
  [kind |-> IF o.answer.repos # {} THEN "folder" ELSE o.answer.kind,
   on |-> o.given, path |-> o.path]

\* onOpened takes down whatever dialog is up; a refusal is the asking one's.
OpenAnswered(i) ==
  /\ OpenAt(i, "answered")
  /\ opens' = SubSeq(opens, 1, i - 1) \o SubSeq(opens, i + 1, Len(opens))
  /\ LET o == opens[i]
         mine == dialog.up /\ o.n = dialog.n
     IN CASE o.answer.kind = "opened" -> TakesDown
          [] o.answer.kind = "failed" /\ mine -> dialog' = [dialog EXCEPT !.busy = FALSE] /\ UNCHANGED asking
          [] o.answer.kind \in {"create", "init"} /\ mine ->
               dialog' = [dialog EXCEPT !.busy = FALSE, !.proposal = Proposed(o)] /\ UNCHANGED asking
          [] OTHER -> UNCHANGED <<dialog, asking>>
  /\ UNCHANGED <<dirs, author, registries, links, left>>

\* Link, or link again; and the small x.
Links(m) ==
  /\ Spends("link")
  /\ Picking /\ ~dialog.busy
  /\ links' = links \cup {[n |-> dialog.n, m |-> m, what |-> "link", was |-> Nil, done |-> FALSE]}
  /\ dialog' = [dialog EXCEPT !.busy = TRUE]
  /\ UNCHANGED <<dirs, author, registries, opens, asking>>

Forgets(m) ==
  /\ Spends("forget")
  /\ Picking /\ ~dialog.busy /\ m \in dialog.servers
  /\ links' = links \cup {[n |-> dialog.n, m |-> m, what |-> "forget", was |-> dialog.host, done |-> FALSE]}
  /\ UNCHANGED <<dirs, author, registries, opens, asking, dialog>>

LinkDone(l) ==
  /\ l \in links /\ ~l.done
  /\ links' = (links \ {l}) \cup {[l EXCEPT !.done = TRUE]}
  /\ linked' = IF l.what = "link" THEN linked \cup {l.m} ELSE linked \ {l.m}
  /\ UNCHANGED <<dirs, author, projects, recents, opens, asking, dialog, left>>

\* The snapshot is read first: a machine with projects open is in the row now.
\* One with none joins the list in the same render that selects it.
LinkAnswered(l) ==
  /\ l \in links /\ l.done /\ l.what = "link"
  /\ links' = links \ {l}
  /\ IF projects[l.m] # {} /\ l.m \in linked THEN TakesDown
     ELSE IF l.n = dialog.n /\ dialog.up
       THEN /\ dialog' = Switched([dialog EXCEPT !.busy = FALSE, !.servers = @ \cup {l.m}], l.m)
            /\ AsksAfresh(dialog, l.m)
       ELSE UNCHANGED <<dialog, asking>>
  /\ UNCHANGED <<dirs, author, registries, opens, left>>

\* The machine that was chosen when the x was clicked, not the one chosen now.
ForgetAnswered(l) ==
  /\ l \in links /\ l.done /\ l.what = "forget"
  /\ links' = links \ {l}
  /\ IF l.n = dialog.n /\ dialog.up
       THEN LET d == IF l.was = l.m
                       THEN Switched([dialog EXCEPT !.crossed = @ \/ dialog.busy], Here) ELSE dialog
            IN /\ dialog' = d
               /\ asking' = (IF d.host # dialog.host
                              THEN Unwanted({"browse", "recents"}) \cup {Asks("browse", Here, Home), Asks("recents", Here, Nil)}
                              ELSE asking) \cup {Asks("servers", Here, Nil)}
       ELSE UNCHANGED <<dialog, asking>>
  /\ UNCHANGED <<dirs, author, registries, opens, left>>

LinkFails(l) ==
  /\ Spends("fault")
  /\ l \in links /\ ~l.done
  /\ links' = links \ {l}
  /\ dialog' = IF l.n = dialog.n /\ l.what = "link" THEN [dialog EXCEPT !.busy = FALSE] ELSE dialog
  /\ UNCHANGED <<dirs, author, registries, opens, asking>>

-----------------------------------------------------------------------------
World == \/ \E m \in Machine, p \in Dir : Clones(m, p) \/ Deletes(m, p)
         \/ \E m \in Machine : Introduces(m) \/ ForgetsElsewhere(m) \/ \E r \in projects[m] : ClosesProject(m, r)
Opener == \E i \in DOMAIN opens : \/ Looks(i) \/ MakesDir(i) \/ ChecksDir(i) \/ AsksGit(i)
                                  \/ Inspects(i) \/ Inits(i) \/ CommitsFirst(i) \/ FindsRoot(i)
Answers == \/ \E r \in asking : AnswersRead(r) \/ PickerShows(r) \/ PickerFails(r)
           \/ \E i \in DOMAIN opens : OpenAnswered(i)
           \/ \E l \in links : LinkDone(l) \/ LinkAnswered(l) \/ ForgetAnswered(l) \/ LinkFails(l)
Person == \/ PutsUp \/ Cancels \/ OpensTyped \/ OpensRow \/ OpensRecent \/ Confirms \/ Backs
          \/ \E m \in Machine : ChoosesMachine(m) \/ (m # Here /\ Links(m)) \/ Forgets(m)
          \/ \E p \in Dir : Browses(p) \/ TypesPath(p)

OpeningInit ==
  /\ \E s \in Scenes[left] :
       dirs = s.dirs /\ author = s.author /\ linked = s.linked /\ projects = s.projects
  /\ recents = [m \in Machine |-> <<>>]
  /\ opens = <<>> /\ links = {} /\ asking = {}
  /\ dialog = [n |-> 0, up |-> FALSE, host |-> Here, servers |-> {}, listing |-> Nil, rows |-> Empty(Here),
               path |-> NoPath(Here), proposal |-> Nil, busy |-> FALSE, crossed |-> FALSE]

OpeningNext == World \/ Opener \/ Answers \/ Person

-----------------------------------------------------------------------------
(* What is checked.                                                        *)

\* "A path read from one machine sitting under another machine's chip ... opens
\* it there", and with create that is a mkdir and a git init in the wrong place:
\* what the dialog shows is of the machine it shows, and what is opened on a
\* machine was read, or typed, there; but for a machine forgotten while a path
\* on it was being opened.
OnItsMachine ==
  ~dialog.crossed =>
    /\ dialog.up => /\ dialog.listing # Nil => dialog.listing.on = dialog.host
                    /\ dialog.rows.on = dialog.host /\ dialog.path.on = dialog.host
                    /\ dialog.proposal # Nil => dialog.proposal.on = dialog.host
    /\ \A i \in DOMAIN opens : opens[i].n = dialog.n => opens[i].given = opens[i].m

OpeningTypeOK ==
  /\ \A m \in Machine : \A p \in Dir : dirs[m][p].is \in {"none", "dir"} /\ dirs[m][p].of \in Dir \cup {Nil}
  /\ author \subseteq Machine /\ linked \subseteq Machine \ {Here}
  /\ \A m \in Machine : /\ projects[m] \subseteq [root : Dir, kind : {"git", "folder"}]
                        /\ Len(recents[m]) <= RecentLimit
  /\ dialog.n \in Nat /\ dialog.host \in Machine /\ dialog.servers \subseteq Machine
  /\ {dialog.up, dialog.busy, dialog.crossed} \subseteq BOOLEAN
=============================================================================
