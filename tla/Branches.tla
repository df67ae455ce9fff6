------------------------------ MODULE Branches ------------------------------
(***************************************************************************)
(* One branch with its worktree, and what removing them may destroy: git's *)
(* refs (server/src/git/worktree.ts), what a snapshot reads of them and    *)
(* when (Workspace.worktrees), the questions a page asks from it           *)
(* (web/src/selectors.ts, RemoveWorktreeDialog.tsx, App.tsx), the removal  *)
(* itself, step by step (Workspace.removeWorktree), and making the         *)
(* worktree (createWorktree, NewWorktreeForm.tsx), while an agent works in *)
(* it and colleagues use the same remote.                                  *)
(*                                                                         *)
(* A piece of work is a number: first an uncommitted change, then a commit.*)
(* A ref is the set of commits it reaches; one that exists reaches Root,   *)
(* so {} is a ref that is not there.  The default branch has its commits,  *)
(* ids, and the work its files hold, has: a squash merge adds only to has. *)
(***************************************************************************)
EXTENDS Naturals, FiniteSets

CONSTANTS
  Requests, \* the removals that are asked for, each by a page of its own
  Limits    \* how often each thing from outside happens, one mix a behaviour

Outside == {"edit", "agent", "colleague", "merge", "sync", "detach", "lock",
            "silence", "offline", "create"}

ASSUME BranchesAssumption ==
  Limits \subseteq [often : [Outside -> Nat], removals : SUBSET Requests,
                    named : BOOLEAN, remote : BOOLEAN]

VARIABLES
  wt,     \* the worktree: there, its HEAD, the branch it is on, changes, locked, sessions
  refs,   \* mine and its upstream, copy (origin's, as fetched), theirs (on the remote),
          \* head (main worktree), base (origin's default as fetched), main (on the remote)
  git,    \* whether git status and rev-list can answer; what defaultBranchRef remembers
  made,   \* how many pieces of work there are
  form,   \* a worktree being made
  req,    \* each removal, from the snapshot its page reads to its answer
  taken,  \* the work that a removal took out of the world
  left

vars == <<wt, refs, git, made, form, req, taken, left>>

Root == 0
Gone == {}
NoWork == [ids |-> {Root}, has |-> {Root}]
Spends(k) == left.often[k] > 0 /\ left' = [left EXCEPT !.often[k] = @ - 1]

OnBranch == wt.there /\ wt.on
Tip == IF ~wt.there THEN Gone ELSE IF wt.on THEN refs.mine ELSE wt.tip

(***************************************************************************)
(* What git answers.                                                       *)
(***************************************************************************)

\* origin's default branch, else a local main or master, else nothing.
DefaultNow == CASE left.remote -> "origin" [] ~left.remote /\ left.named -> "local"
                [] OTHER -> "none"

\* Asked once and kept for the life of the process.
DefaultRef == IF git.default = "unread" THEN DefaultNow ELSE git.default

DefaultBranch == IF DefaultRef = "origin" THEN refs.base ELSE refs.head

\* Nothing to compare with, or a git that fails, counts as nothing unmerged.
Blind == DefaultRef = "none" \/ ~git.answers \/ ~wt.there
Unmerged == ~Blind /\ ~(Tip \subseteq DefaultBranch.has)

\* A branch's copy counts as spent when its own commits are in the default branch.
Copied ==
  CASE refs.copy = Gone \/ refs.mine = Gone -> "none"
    [] refs.copy # Gone /\ refs.mine # Gone ->
         IF DefaultRef # "none" /\ refs.copy \subseteq DefaultBranch.ids THEN "spent" ELSE "own"

Dirty == IF ~wt.there \/ ~git.answers THEN "unknown"
         ELSE IF wt.edits # {} THEN "yes" ELSE "no"

\* git branch -d: merged into its upstream, or else into the main worktree's HEAD.
MergedInto ==
  CASE refs.upstream = "own" /\ refs.copy # Gone -> refs.copy
    [] refs.upstream = "main" /\ left.remote -> refs.base.ids
    [] OTHER -> refs.head.ids

(***************************************************************************)
(* The agent in the worktree, the people around it and the remote.         *)
(***************************************************************************)

Outdoors == UNCHANGED <<git, form, req, taken>>

Edits ==
  /\ wt.there
  /\ Spends("edit")
  /\ made' = made + 1
  /\ wt' = [wt EXCEPT !.edits = @ \cup {made'}]
  /\ Outdoors /\ UNCHANGED refs

Commits ==
  /\ wt.there /\ wt.edits # {}
  /\ wt' = [wt EXCEPT !.edits = {}, !.tip = IF wt.on THEN @ ELSE @ \cup wt.edits]
  /\ refs' = [refs EXCEPT !.mine = IF wt.on THEN @ \cup wt.edits ELSE @]
  /\ Outdoors /\ UNCHANGED <<made, left>>

\* git push, with -u or without; the remote takes what is ahead of it.
Pushes(up) ==
  /\ OnBranch /\ left.remote
  /\ refs.theirs \subseteq refs.mine
  /\ Spends("agent")
  /\ refs' = [refs EXCEPT !.theirs = refs.mine, !.copy = refs.mine,
                          !.upstream = IF up THEN "own" ELSE @]
  /\ Outdoors /\ UNCHANGED <<wt, made>>

Fetches ==
  /\ left.remote
  /\ Spends("sync")
  /\ refs' = [refs EXCEPT !.base = refs.main, !.copy = IF refs.theirs = Gone THEN @ ELSE refs.theirs]
  /\ Outdoors /\ UNCHANGED <<wt, made>>

\* The main worktree pulls.
MainPulls ==
  /\ left.remote
  /\ Spends("sync")
  /\ refs' = [refs EXCEPT !.base = refs.main,
                          !.head = [ids |-> @.ids \cup refs.main.ids, has |-> @.has \cup refs.main.has]]
  /\ Outdoors /\ UNCHANGED <<wt, made>>

\* The branch lands in the main worktree's branch, without a remote.
MergesLocally ==
  /\ refs.mine # Gone
  /\ Spends("merge")
  /\ refs' = [refs EXCEPT !.head = [ids |-> @.ids \cup refs.mine, has |-> @.has \cup refs.mine]]
  /\ Outdoors /\ UNCHANGED <<wt, made>>

\* A pull request lands: merged, or squashed into one new commit; and its
\* branch may be deleted there and then.
Lands(squash, delete) ==
  /\ refs.theirs # Gone
  /\ Spends("merge")
  /\ refs' = [refs EXCEPT !.main = [ids |-> IF squash THEN @.ids ELSE @.ids \cup refs.theirs,
                                    has |-> @.has \cup refs.theirs],
                          !.theirs = IF delete THEN Gone ELSE @]
  /\ Outdoors /\ UNCHANGED <<wt, made>>

ColleaguePushes ==
  /\ refs.theirs # Gone
  /\ Spends("colleague")
  /\ made' = made + 1
  /\ refs' = [refs EXCEPT !.theirs = @ \cup {made'}]
  /\ Outdoors /\ UNCHANGED wt

Detaches ==
  /\ OnBranch
  /\ Spends("detach")
  /\ wt' = [wt EXCEPT !.on = FALSE, !.tip = refs.mine]
  /\ Outdoors /\ UNCHANGED <<refs, made>>

Locks ==
  /\ wt.there
  /\ Spends("lock")
  /\ wt' = [wt EXCEPT !.locked = ~@]
  /\ Outdoors /\ UNCHANGED <<refs, made>>

Silences ==
  /\ Spends("silence")
  /\ git' = [git EXCEPT !.answers = ~@]
  /\ UNCHANGED <<wt, refs, made, form, req, taken>>

\* A remote is added to a repository that had none.
RemoteAdded ==
  /\ ~left.remote
  /\ left.often["sync"] > 0
  /\ left' = [left EXCEPT !.remote = TRUE, !.often["sync"] = @ - 1]
  /\ refs' = [refs EXCEPT !.base = refs.head, !.main = refs.head]
  /\ Outdoors /\ UNCHANGED <<wt, made>>

(***************************************************************************)
(* A snapshot, as a page's question reads it.                              *)
(***************************************************************************)

Idle == [at |-> "page"]

\* What this machine knows of: the worktree, the branch and the fetched copy.
Here == (wt.edits \cup Tip \cup refs.mine \cup refs.copy) \ {Root}

\* worktrees(): the repository's default branch and remote copies ...
Reads(r) ==
  /\ r \in left.removals
  /\ req[r].at \in {"page", "shown"} /\ wt.there
  /\ git' = [git EXCEPT !.default = DefaultRef]
  /\ req' = [req EXCEPT ![r] = [at |-> "reading", known |-> Here, named |-> wt.on,
                                copy |-> IF wt.on THEN Copied ELSE "none", fetched |-> refs.copy]]
  /\ UNCHANGED <<wt, refs, made, form, taken, left>>

\* ... then each worktree's changes ...
ReadsDirty(r) ==
  /\ req[r].at = "reading"
  /\ req' = [req EXCEPT ![r] = [at |-> "counting", known |-> @.known, named |-> @.named,
                                copy |-> @.copy, fetched |-> @.fetched,
                                dirty |-> Dirty = "yes", edits |-> wt.edits]]
  /\ UNCHANGED <<wt, refs, git, made, form, taken, left>>

\* ... and its unmerged commits.
ReadsUnmerged(r) ==
  /\ req[r].at = "counting"
  /\ req' = [req EXCEPT ![r] = [at |-> "shown", known |-> @.known, named |-> @.named,
                                copy |-> @.copy, fetched |-> @.fetched,
                                dirty |-> @.dirty, edits |-> @.edits,
                                unmerged |-> Unmerged, blind |-> Blind, mine |-> Tip]]
  /\ UNCHANGED <<wt, refs, git, made, form, taken, left>>

\* removalQuestions.
Asks(s) == [discard |-> s.dirty,
            branch |-> s.named /\ s.unmerged,
            branchGoesAnyway |-> s.named /\ ~s.unmerged,
            remote |-> s.copy = "own",
            remoteGoesAnyway |-> s.copy = "spent"]

\* Each answer from its own box, or from what made asking pointless; ticks are
\* the boxes ticked.  With no box there is no dialog either (removalAsks).
Answers(s, ticks) ==
  [asked |-> Asks(s).discard \/ Asks(s).branch \/ Asks(s).remote,
   force |-> Asks(s).discard /\ "discard" \in ticks,
   branch |-> IF Asks(s).branch THEN "branch" \in ticks ELSE Asks(s).branchGoesAnyway,
   remote |-> IF Asks(s).remote THEN "remote" \in ticks ELSE Asks(s).remoteGoesAnyway]

\* What whoever ticked them saw, and let go.
Agreed(s, ticks) ==
  (IF "discard" \in ticks THEN s.edits ELSE {}) \cup
  (IF "branch" \in ticks THEN s.mine ELSE {}) \cup
  (IF "remote" \in ticks THEN s.fetched ELSE {})

Removes(r, ticks) ==
  /\ req[r].at = "shown"
  /\ \A x \in {"discard", "branch", "remote"} : x \in ticks => Asks(req[r])[x]
  /\ req' = [req EXCEPT ![r] = [at |-> "resolve", opts |-> Answers(@, ticks),
                                agreed |-> Agreed(@, ticks), known |-> @.known,
                                blind |-> @.blind]]
  /\ UNCHANGED <<wt, refs, git, made, form, taken, left>>

(***************************************************************************)
(* Workspace.removeWorktree.                                               *)
(***************************************************************************)

Inside == UNCHANGED <<git, made, form, left>>

On(r, at) == req[r].at = at
Goes(r, at) == req' = [req EXCEPT ![r].at = at]

\* The answer is a refusal: what it cost, and why git refused if it did.
Refuses(r, cost, why) ==
  req' = [req EXCEPT ![r] = [at |-> "refused", cost |-> cost, why |-> why]]

Resolves(r) ==
  /\ On(r, "resolve")
  /\ IF wt.there
       THEN req' = [req EXCEPT ![r] = [at |-> "check", opts |-> @.opts, agreed |-> @.agreed,
                                       known |-> @.known, blind |-> @.blind,
                                       named |-> wt.on, saw |-> {}]]
       ELSE Refuses(r, FALSE, "gone")
  /\ Inside /\ UNCHANGED <<wt, refs, taken>>

\* As if git's silence were a clean tree.
UnknownIsClean == Dirty # "yes"

\* Unknown is not clean.
Clean == Dirty = "no"

Checks(r) ==
  /\ On(r, "check")
  /\ IF req[r].opts.force \/ Clean
       THEN req' = [req EXCEPT ![r].saw = wt.edits,
                               ![r].at = IF req[r].opts.remote /\ req[r].named THEN "target" ELSE "kill"]
       ELSE Refuses(r, FALSE, "dirty")
  /\ Inside /\ UNCHANGED <<wt, refs, taken>>

\* The copy is looked up again; one that is not there needs no deleting.
Targets(r) ==
  /\ On(r, "target")
  /\ git' = [git EXCEPT !.default = DefaultRef]
  /\ Goes(r, IF Copied = "none" THEN "kill" ELSE "push")
  /\ UNCHANGED <<wt, refs, made, form, taken, left>>

\* All the work there is anywhere.
Held(w, s) == w.edits \cup (IF w.there /\ ~w.on THEN w.tip ELSE {}) \cup s.mine \cup s.copy
              \cup s.theirs \cup s.head.has \cup s.base.has \cup s.main.has

\* Where a piece of work is, when it is lost.
Place(c) ==
  CASE c \in wt.edits -> "changes"
    [] c \notin wt.edits /\ c \in refs.mine -> "branch"
    [] c \notin wt.edits \cup refs.mine /\ c \in refs.theirs -> "remote"
    [] OTHER -> "detached"

\* Another removal has taken the worktree meanwhile.
Met(r) == \E q \in Requests \ {r} : req[q].at \in {"branch", "removed"}

\* What its removal was told of it, and what was known of it.
Loss(r, c) ==
  [work |-> c, from |-> Place(c), asked |-> req[r].opts.asked, forced |-> req[r].opts.force,
   agreed |-> c \in req[r].agreed, known |-> c \in req[r].known, here |-> c \in Here,
   blind |-> req[r].blind, met |-> Met(r)]

\* What a step of r destroys.
Takes(r) == taken' = taken \cup {Loss(r, c) : c \in Held(wt, refs) \ Held(wt', refs')}

\* As if pushed without the lease.
NoLease == TRUE

\* git push --force-with-lease: the remote's tip must be the one fetched last.
LeaseHolds == refs.theirs = refs.copy

Pushed(r) ==
  /\ On(r, "push")
  /\ \/ /\ LeaseHolds
        /\ refs' = [refs EXCEPT !.theirs = Gone, !.copy = Gone]
        /\ Goes(r, "kill")
        /\ UNCHANGED left
     \/ /\ ~LeaseHolds
        /\ Goes(r, "standing")
        /\ UNCHANGED <<refs, left>>
     \/ /\ Spends("offline")
        /\ Goes(r, "standing")
        /\ UNCHANGED refs
  /\ UNCHANGED <<wt, git, made, form>>
  /\ Takes(r)

\* git ls-remote: refused by a branch that is there, or by a remote that does
\* not say; one that is gone already is as good as deleted.
Stands(r) ==
  /\ On(r, "standing")
  /\ \/ /\ refs.theirs = Gone
        /\ Goes(r, "kill")
        /\ UNCHANGED left
     \/ /\ refs.theirs # Gone
        /\ Refuses(r, FALSE, "remote")
        /\ UNCHANGED left
     \/ /\ Spends("offline")
        /\ Refuses(r, FALSE, "remote")
  /\ UNCHANGED <<wt, refs, git, made, form, taken>>

Kills(r) ==
  /\ On(r, "kill")
  /\ wt' = [wt EXCEPT !.sessions = FALSE]
  /\ req' = [req EXCEPT ![r] = [at |-> "tree", opts |-> @.opts, agreed |-> @.agreed,
                                known |-> @.known, blind |-> @.blind, named |-> @.named,
                                saw |-> @.saw, cost |-> wt.sessions]]
  /\ Inside /\ UNCHANGED <<refs, taken>>

NoTree(w) == [w EXCEPT !.there = FALSE, !.edits = {}, !.tip = Gone, !.on = FALSE, !.locked = FALSE]

\* git worktree remove, which looks at the changes for itself.
Refusal(q) ==
  CASE ~wt.there -> "gone" [] wt.there /\ wt.locked -> "locked"
    [] wt.there /\ ~wt.locked /\ wt.edits # {} /\ ~q.opts.force ->
         IF wt.edits = q.saw THEN "dirty" ELSE "changed"
    [] OTHER -> "none"

RemovesTree(r) ==
  /\ On(r, "tree")
  /\ UNCHANGED refs
  /\ IF Refusal(req[r]) # "none"
       THEN /\ Refuses(r, req[r].cost, Refusal(req[r]))
            /\ UNCHANGED <<wt, taken>>
       ELSE /\ wt' = NoTree(wt)
            /\ Goes(r, "branch")
            /\ Takes(r)
  /\ Inside

\* As if always -D.
AlwaysForced(force) == refs.mine # Gone /\ ~OnBranch

\* git branch -d, or -D when discarding was agreed to: not one checked out somewhere.
BranchGoes(force) ==
  /\ refs.mine # Gone /\ ~OnBranch
  /\ force \/ refs.mine \subseteq MergedInto

\* A branch that git declines to delete is no failure.
DeletesBranch(r) ==
  /\ On(r, "branch")
  /\ IF req[r].opts.branch /\ req[r].named /\ BranchGoes(req[r].opts.force)
       THEN refs' = [refs EXCEPT !.mine = Gone, !.upstream = "none"]
       ELSE UNCHANGED refs
  /\ req' = [req EXCEPT ![r] = [at |-> "removed"]]
  /\ Inside /\ UNCHANGED wt
  /\ Takes(r)

(***************************************************************************)
(* Making the worktree (again): describeBranch, createWorktree.            *)
(***************************************************************************)

Making == UNCHANGED <<git, made, req, taken>>

\* The form says what the name would do, and refuses one in use.
Describes ==
  /\ form \in {"", "free", "used"} /\ left.often["create"] > 0
  /\ form' = IF OnBranch THEN "used" ELSE "free"
  /\ form' # form
  /\ Making /\ UNCHANGED <<wt, refs, left>>

Creates ==
  /\ form # "used"
  /\ Spends("create")
  /\ form' = IF wt.there THEN "" ELSE "add"
  /\ Making /\ UNCHANGED <<wt, refs>>

\* git worktree add: the branch that is there, or a new one from the base.
Adds ==
  /\ form = "add"
  /\ form' = "start"
  /\ refs' = IF refs.mine # Gone THEN refs
             ELSE [refs EXCEPT !.mine = IF left.remote THEN refs.base.ids ELSE refs.head.ids,
                               !.upstream = IF left.remote THEN "main" ELSE "none"]
  /\ wt' = [wt EXCEPT !.there = TRUE, !.on = TRUE]
  /\ Making /\ UNCHANGED left

StartsClaude ==
  /\ form = "start"
  /\ form' = ""
  /\ wt' = [wt EXCEPT !.sessions = TRUE]
  /\ Making /\ UNCHANGED <<refs, left>>

-----------------------------------------------------------------------------

Init ==
  /\ left \in Limits
  /\ wt = [there |-> TRUE, on |-> TRUE, tip |-> Gone, edits |-> {}, locked |-> FALSE, sessions |-> TRUE]
  /\ refs = [mine |-> {Root}, upstream |-> IF left.remote THEN "main" ELSE "none", copy |-> Gone,
             theirs |-> Gone, head |-> NoWork, base |-> NoWork, main |-> NoWork]
  /\ git = [answers |-> TRUE, default |-> "unread"]
  /\ made = 0
  /\ form = ""
  /\ req = [r \in Requests |-> Idle]
  /\ taken = {}

Agent == Edits \/ Commits \/ (\E up \in BOOLEAN : Pushes(up)) \/ Detaches \/ Locks
Remote == \/ Fetches \/ MainPulls \/ MergesLocally \/ ColleaguePushes \/ RemoteAdded \/ Silences
          \/ \E squash, delete \in BOOLEAN : Lands(squash, delete)
Page(r) == \/ Reads(r) \/ ReadsDirty(r) \/ ReadsUnmerged(r)
           \/ \E ticks \in SUBSET {"discard", "branch", "remote"} : Removes(r, ticks)
Removal(r) == \/ Resolves(r) \/ Checks(r) \/ Targets(r) \/ Pushed(r) \/ Stands(r)
              \/ Kills(r) \/ RemovesTree(r) \/ DeletesBranch(r)
Creation == Describes \/ Creates \/ Adds \/ StartsClaude

Next == \/ Agent \/ Remote \/ Creation
        \/ \E r \in Requests : Page(r) \/ Removal(r)

Spec == Init /\ [][Next]_vars

-----------------------------------------------------------------------------
(* What is checked of Branches.                                            *)

\* A removal that did not ask to discard loses no uncommitted change and no
\* commit of the branch, whatever was written, committed, pushed or removed
\* since its page read the snapshot and while its requests to the remote run
\* (removeWorktree's check, git's own, and branch -d).
UnforcedKeepsMine == \A t \in taken : t.from \in {"changes", "branch"} => t.forced

\* A removal takes nothing that was there to be seen and was not agreed to go,
\* and from the remote nothing this machine had not fetched (the lease); what
\* appeared here after the snapshot, what a count that could not compare called
\* merged, a detached HEAD's commits, about which nothing is asked, and commits
\* another removal left no other holder of, apart.
LossAgreed == \A t \in taken :
  \/ t.agreed \/ t.blind \/ t.from = "detached" \/ (t.here /\ ~t.known)
  \/ t.met /\ t.from # "changes"

\* "Refuse before touching anything": a removal that is refused stops no
\* session; but git refuses a locked worktree, one that changed since the
\* check, and one another removal took, after the sessions went.
RefusalCostsNothing == \A r \in Requests :
  req[r].at = "refused" /\ req[r].cost => req[r].why \in {"locked", "changed", "gone"}

\* removalAsks: "Only a worktree that is clean, merged, running nothing and
\* holding nothing goes without" being asked about: a removal that asked
\* nothing takes nothing that was there to be seen.
TakesNothingUnasked == \A t \in taken : ~t.asked => ~t.known
=============================================================================
