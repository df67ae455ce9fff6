---------------------- MODULE BranchesAttention_proofs ----------------------
(***************************************************************************)
(* Proofs about Branches, for any removals, pages and bounds, and about    *)
(* Attention (with Transcript and Conversation), for any transcripts,      *)
(* lines, windows, screens and listings.  The two share no state: each has *)
(* its own specification and invariants.                                   *)
(*                                                                         *)
(* Branches: a removal that did not ask to discard loses no change and no  *)
(* commit of the branch.  Three steps destroy anything.  The push takes    *)
(* only refs of the remote.  git worktree remove, unforced, takes a        *)
(* worktree without changes.  git branch -d takes commits that its         *)
(* upstream's copy, or one of the two default branches, goes on holding: a *)
(* commit such a branch reaches is in its files (IdsHeld), which is what   *)
(* makes the invariant inductive.  Then what a removal takes was agreed to *)
(* go, and what a refusal costs (JInv).                                    *)
(*                                                                         *)
(* Attention: folding the prompts of some lines, and then of those that    *)
(* came after, is folding them all (FoldOn), and no fold reads a line but  *)
(* those of its prompts (FoldSame).  With them what promptSummary          *)
(* remembers, and what each call under way remembered when it began to     *)
(* read, is told from one line on (TInv).  A look reads the transcript of  *)
(* its turn, which is the one written last while the turn lasts (GInv).    *)
(***************************************************************************)
EXTENDS Branches, Attention, FiniteSetTheorems, WellFoundedInduction, SequenceTheorems, TLAPS

(***************************************************************************)
(* The branches, and a removal of a worktree.                              *)
(***************************************************************************)

Line == [ids : SUBSET Nat, has : SUBSET Nat]

TypeOK ==
  /\ wt \in [there : BOOLEAN, on : BOOLEAN, tip : SUBSET Nat, edits : SUBSET Nat,
             locked : BOOLEAN, sessions : BOOLEAN]
  /\ refs \in [mine : SUBSET Nat, upstream : {"own", "main", "none"}, copy : SUBSET Nat,
               theirs : SUBSET Nat, head : Line, base : Line, main : Line]
  /\ made \in Nat

\* What a default branch reaches is in its files.
IdsHeld == /\ refs.head.ids \subseteq refs.head.has
           /\ refs.base.ids \subseteq refs.base.has
           /\ refs.main.ids \subseteq refs.main.has

IInv == TypeOK /\ IdsHeld /\ UnforcedKeepsMine

\* What a step adds to taken was held before it and is nowhere after it.
LEMMA TakesLost ==
  ASSUME NEW r, Takes(r),
         \A c \in Held(wt, refs) \ Held(wt', refs') :
           c \in wt.edits \cup refs.mine => req[r].opts.force,
         UnforcedKeepsMine
  PROVE  UnforcedKeepsMine'
<1> SUFFICES ASSUME NEW t \in taken', t.from \in {"changes", "branch"}
             PROVE  t.forced
  BY DEF UnforcedKeepsMine
<1>1. CASE t \in taken
  BY <1>1 DEF UnforcedKeepsMine
<1>2. CASE t \notin taken
  <2>1. PICK c \in Held(wt, refs) \ Held(wt', refs') : t = Loss(r, c)
    BY <1>2 DEF Takes
  <2>2. t.from = Place(c) /\ t.forced = req[r].opts.force
    BY <2>1 DEF Loss
  <2>3. c \in wt.edits \cup refs.mine
    BY <2>2 DEF Place
  <2> QED
    BY <2>2, <2>3
<1> QED
  BY <1>1, <1>2

\* Nothing is there, and nothing taken, to begin with.
LEMMA InitOK == Init => IInv
<1> SUFFICES ASSUME Init PROVE IInv
  OBVIOUS
<1>1. {Root} \in SUBSET Nat /\ NoWork \in Line
  BY DEF Root, NoWork, Line
<1> QED
  BY <1>1 DEF Init, IInv, TypeOK, IdsHeld, UnforcedKeepsMine, NoWork, Gone

\* Steps of the world outside: they make work and move it about, and the
\* default branches only gain, in their files what they gain in commits.
LEMMA OutsideOK == ASSUME IInv, Agent \/ Remote PROVE IInv'
<1> USE DEF IInv, TypeOK, IdsHeld, Line, Outdoors
<1>0. UNCHANGED taken
  BY DEF Agent, Remote, Edits, Commits, Pushes, Detaches, Locks, Fetches, MainPulls,
         MergesLocally, ColleaguePushes, RemoteAdded, Silences, Lands
<1>1. UnforcedKeepsMine'
  BY <1>0 DEF UnforcedKeepsMine
<1>2. CASE Edits
  BY <1>1, <1>2 DEF Edits
<1>3. CASE Commits
  BY <1>1, <1>3 DEF Commits
<1>4. ASSUME NEW up \in BOOLEAN, Pushes(up) PROVE IInv'
  BY <1>1, <1>4 DEF Pushes
<1>5. CASE Detaches
  BY <1>1, <1>5 DEF Detaches
<1>6. CASE Locks
  BY <1>1, <1>6 DEF Locks
<1>7. CASE Fetches
  BY <1>1, <1>7 DEF Fetches
<1>8. CASE MainPulls
  BY <1>1, <1>8 DEF MainPulls
<1>9. CASE MergesLocally
  BY <1>1, <1>9 DEF MergesLocally
<1>10. CASE ColleaguePushes
  BY <1>1, <1>10 DEF ColleaguePushes
<1>11. CASE RemoteAdded
  BY <1>1, <1>11 DEF RemoteAdded
<1>12. CASE Silences
  BY <1>1, <1>12 DEF Silences
<1>13. ASSUME NEW squash \in BOOLEAN, NEW delete \in BOOLEAN, Lands(squash, delete) PROVE IInv'
  BY <1>1, <1>13 DEF Lands, Gone
<1> QED
  BY <1>2, <1>3, <1>4, <1>5, <1>6, <1>7, <1>8, <1>9, <1>10, <1>11, <1>12, <1>13 DEF Agent, Remote

\* The page's steps, and making the worktree.
LEMMA InsideOK ==
  ASSUME IInv, (\E r \in Requests : Page(r)) \/ Creation
  PROVE  IInv'
<1> USE DEF IInv, TypeOK, IdsHeld, Line
<1>1. CASE \E r \in Requests : Page(r)
  <2>1. UNCHANGED <<wt, refs, made, taken>>
    BY <1>1 DEF Page, Reads, ReadsDirty, ReadsUnmerged, Removes
  <2> QED
    BY <2>1 DEF UnforcedKeepsMine
<1>2. CASE Creation
  <2>1. UNCHANGED <<made, taken>>
    BY <1>2 DEF Creation, Describes, Creates, Adds, StartsClaude, Making
  <2>2. CASE Describes \/ Creates
    BY <2>1, <2>2 DEF Describes, Creates, UnforcedKeepsMine
  <2>3. CASE Adds
    BY <2>1, <2>3 DEF Adds, UnforcedKeepsMine
  <2>4. CASE StartsClaude
    BY <2>1, <2>4 DEF StartsClaude, UnforcedKeepsMine
  <2> QED
    BY <1>2, <2>2, <2>3, <2>4 DEF Creation
<1> QED
  BY <1>1, <1>2

\* The three steps of a removal that destroy something, and the others.
LEMMA RemovalOK ==
  ASSUME IInv, NEW r \in Requests, Removal(r)
  PROVE  IInv'
<1> USE DEF IInv
<1>1. CASE Pushed(r)
  <2>1. wt' = wt /\ made' = made /\ Takes(r)
    BY <1>1 DEF Pushed
  <2>2. refs' = refs \/ refs' = [refs EXCEPT !.theirs = Gone, !.copy = Gone]
    BY <1>1 DEF Pushed
  <2>3. TypeOK' /\ IdsHeld'
    BY <2>1, <2>2 DEF TypeOK, IdsHeld, Gone, Line
  <2>4. wt'.edits = wt.edits /\ refs'.mine = refs.mine
    BY <2>1, <2>2 DEF TypeOK
  <2>5. UnforcedKeepsMine'
    BY <2>1, <2>4, TakesLost DEF Held
  <2> QED
    BY <2>3, <2>5
<1>2. CASE RemovesTree(r)
  <2>1. refs' = refs /\ made' = made
    BY <1>2 DEF RemovesTree, Inside
  <2>2. CASE wt' = wt /\ taken' = taken
    BY <2>1, <2>2 DEF TypeOK, IdsHeld, UnforcedKeepsMine
  <2>3. CASE Refusal(req[r]) = "none" /\ wt' = NoTree(wt) /\ Takes(r)
    <3>1. TypeOK' /\ IdsHeld'
      BY <2>1, <2>3 DEF TypeOK, IdsHeld, NoTree, Gone
    <3>2. wt.edits = {} \/ req[r].opts.force
      BY <2>3 DEF Refusal
    <3>3. UnforcedKeepsMine'
      BY <2>1, <2>3, <3>2, TakesLost DEF Held
    <3> QED
      BY <3>1, <3>3
  <2> QED
    BY <1>2, <2>2, <2>3 DEF RemovesTree
<1>3. CASE DeletesBranch(r)
  <2>1. wt' = wt /\ made' = made /\ Takes(r)
    BY <1>3 DEF DeletesBranch, Inside
  <2>2. CASE refs' = refs
    <3>1. TypeOK' /\ IdsHeld'
      BY <2>1, <2>2 DEF TypeOK, IdsHeld
    <3>2. UnforcedKeepsMine'
      BY <2>1, <2>2, TakesLost DEF Held
    <3> QED
      BY <3>1, <3>2
  <2>3. CASE BranchGoes(req[r].opts.force)
             /\ refs' = [refs EXCEPT !.mine = Gone, !.upstream = "none"]
    <3>1. TypeOK' /\ IdsHeld'
      BY <2>1, <2>3 DEF TypeOK, IdsHeld, Gone, Line
    <3>2. /\ refs'.copy = refs.copy /\ refs'.theirs = refs.theirs
          /\ refs'.head = refs.head /\ refs'.base = refs.base /\ refs'.main = refs.main
      BY <2>3 DEF TypeOK
    <3>3. MergedInto \subseteq refs.copy \cup refs.base.has \cup refs.head.has
      BY DEF MergedInto, IdsHeld
    <3>4. refs.mine \subseteq MergedInto \/ req[r].opts.force
      BY <2>3 DEF BranchGoes
    <3>5. UnforcedKeepsMine'
      BY <2>1, <3>2, <3>3, <3>4, TakesLost DEF Held
    <3> QED
      BY <3>1, <3>5
  <2> QED
    BY <1>3, <2>2, <2>3 DEF DeletesBranch
<1>4. CASE Resolves(r) \/ Checks(r) \/ Targets(r) \/ Stands(r)
  <2>1. UNCHANGED <<wt, refs, made, taken>>
    BY <1>4 DEF Resolves, Checks, Targets, Stands, Inside
  <2> QED
    BY <2>1 DEF TypeOK, IdsHeld, UnforcedKeepsMine
<1>5. CASE Kills(r)
  <2>1. UNCHANGED <<refs, made, taken>> /\ wt' = [wt EXCEPT !.sessions = FALSE]
    BY <1>5 DEF Kills, Inside
  <2> QED
    BY <2>1 DEF TypeOK, IdsHeld, UnforcedKeepsMine
<1> QED
  BY <1>1, <1>2, <1>3, <1>4, <1>5 DEF Removal

\* UnforcedKeepsMine, of every state: of any number of removals, and of
\* however much work is made meanwhile.
THEOREM UnforcedKeepsMineHolds == Spec => []UnforcedKeepsMine
<1>1. Init => IInv
  BY InitOK
<1>2. IInv /\ [Next]_vars => IInv'
  <2>1. ASSUME IInv, UNCHANGED vars PROVE IInv'
    BY <2>1 DEF IInv, TypeOK, IdsHeld, UnforcedKeepsMine, vars
  <2> QED
    BY <2>1, OutsideOK, InsideOK, RemovalOK DEF Next
<1>3. IInv => UnforcedKeepsMine
  BY DEF IInv
<1> QED
  BY <1>1, <1>2, <1>3, PTL DEF Spec

-----------------------------------------------------------------------------
(* What was agreed to, and what a refusal costs.  A removal knows what was  *)
(* here when its page read the snapshot.  While no other has taken the     *)
(* worktree, all of that stays in the worktree, on the branch or in its    *)
(* copy, and what was seen to have landed stays landed: so a step that     *)
(* destroys a piece of it destroys one that its boxes named.               *)

\* Work that only a detached HEAD holds, what this removal may destroy, and
\* what a default branch holds.
Apart == IF wt.there /\ ~wt.on THEN wt.tip ELSE {}
Kept == wt.edits \cup Apart \cup refs.mine
Landed == refs.head.has \cup refs.base.has

LeftOK == DOMAIN left = {"often", "removals", "named", "remote"}

\* A piece of work is given its number when it is made.
NumbersOK ==
  /\ wt.edits \subseteq 1..made /\ wt.tip \subseteq 0..made
  /\ refs.mine \subseteq 0..made /\ refs.copy \subseteq 0..made /\ refs.theirs \subseteq 0..made
  /\ refs.head.ids \subseteq 0..made /\ refs.base.ids \subseteq 0..made
  /\ refs.main.ids \subseteq 0..made

\* Origin's default branch, as fetched, lags behind the remote's.
LinesOK ==
  /\ Root \in refs.head.ids /\ Root \in refs.base.ids /\ Root \in refs.main.ids
  /\ left.remote => refs.base.ids \subseteq refs.main.ids /\ refs.base.has \subseteq refs.main.has
  /\ ~left.remote => refs.base = NoWork

\* A HEAD is detached from its branch; only a removal deletes a branch.
PlaceOK ==
  /\ wt.there /\ ~wt.on => refs.mine \subseteq wt.tip
  /\ wt.there => refs.mine # Gone \/ \E q \in Requests : req[q].at = "removed"
  /\ form = "add" => ~wt.there

Underway == {"check", "target", "push", "standing", "kill", "tree", "branch"}
Fields == {"at", "opts", "agreed", "known", "blind", "named", "saw"}

\* A question that is being asked, and what it has read.
PageOK(r) ==
  req[r].at \in {"reading", "counting", "shown"} =>
    /\ req[r].known \subseteq 1..made
    /\ req[r].at # "reading" => req[r].known \cap wt.edits \subseteq req[r].edits
    /\ ~Met(r) =>
         /\ wt.there /\ refs.mine # Gone
         /\ req[r].known \subseteq req[r].fetched \cup Kept
         /\ req[r].copy = "spent" => req[r].fetched \subseteq Landed
         /\ req[r].at = "shown" =>
              /\ req[r].known \cap refs.mine \subseteq req[r].mine \cup req[r].edits
              /\ ~req[r].unmerged /\ ~req[r].blind => req[r].mine \subseteq Landed

\* A removal, and what it was told.
WorkOK(r) ==
  req[r].at \in Underway \cup {"resolve"} =>
    /\ req[r].known \subseteq 1..made
    /\ req[r].opts.force => req[r].known \cap wt.edits \subseteq req[r].agreed
    /\ ~Met(r) =>
         /\ refs.mine # Gone
         /\ req[r].at # "branch" =>
              /\ wt.there
              /\ req[r].opts.remote => req[r].known \subseteq req[r].agreed \cup Kept \cup Landed
         /\ req[r].opts.force /\ req[r].opts.branch /\ ~req[r].blind =>
              req[r].known \cap refs.mine \subseteq req[r].agreed \cup Landed

\* What it read before it may be refused: no changes, unless it was to discard
\* them; and only one that takes the copy as well asks the remote.
SawOK(r) ==
  /\ req[r].at \in Underway => Fields \subseteq DOMAIN req[r]
  /\ req[r].at \in {"target", "push", "standing"} => req[r].opts.remote
  /\ req[r].at \in Underway \ {"branch"} => req[r].opts.force \/ req[r].saw = {}

RequestOK(r) == PageOK(r) /\ WorkOK(r) /\ SawOK(r)
RequestsOK == DOMAIN req = Requests /\ \A r \in Requests : RequestOK(r)

JInv ==
  /\ IInv /\ LeftOK /\ NumbersOK /\ LinesOK /\ PlaceOK /\ RequestsOK
  /\ LossAgreed /\ RefusalCostsNothing

LEMMA JInit == Init => JInv
<1> SUFFICES ASSUME Init PROVE JInv
  OBVIOUS
<1>1. IInv
  BY InitOK
<1>2. LeftOK
  BY BranchesAssumption DEF Init, LeftOK
<1>3. NumbersOK
  <2>1. /\ made = 0 /\ wt.edits = {} /\ wt.tip = {} /\ refs.mine = {0} /\ refs.copy = {}
        /\ refs.theirs = {}
        /\ refs.head.ids = {0} /\ refs.base.ids = {0} /\ refs.main.ids = {0}
    BY DEF Init, NoWork, Root, Gone
  <2>2. 0 \in 0..0
    OBVIOUS
  <2> QED BY <2>1, <2>2 DEF NumbersOK
<1>7. LinesOK
  BY DEF Init, LinesOK, NoWork, Root
<1>8. PlaceOK
  BY DEF Init, PlaceOK, Root, Gone
<1>4. DOMAIN req = Requests /\ \A r \in Requests : req[r].at = "page"
  BY DEF Init, Idle
<1>5. RequestsOK
  <2>1. \A r \in Requests : PageOK(r) /\ WorkOK(r)
    BY <1>4 DEF PageOK, WorkOK, Underway
  <2>2. \A r \in Requests : SawOK(r)
    BY <1>4 DEF SawOK, Underway
  <2> QED BY <1>4, <2>1, <2>2 DEF RequestsOK, RequestOK
<1>6. LossAgreed /\ RefusalCostsNothing
  BY <1>4 DEF Init, LossAgreed, RefusalCostsNothing
<1> QED BY <1>1, <1>2, <1>3, <1>5, <1>6, <1>7, <1>8 DEF JInv

\* The world outside makes work and moves it about.
Grows == made' \in Nat /\ made <= made' /\ \A c \in wt'.edits : c \in wt.edits \/ c > made
Spares ==
  /\ Kept \subseteq Kept' /\ Landed \subseteq Landed' /\ (wt.there => wt'.there)
  /\ refs.mine # Gone =>
       refs'.mine # Gone /\ \A c \in refs'.mine : c \in refs.mine \/ c \in wt.edits \/ c > made

\* Nor does a removal that goes on, with what it was told, lose any of it.
LEMMA WorkMoves ==
  ASSUME JInv, NEW r \in Requests, Grows, Met(r)' \/ (~Met(r) /\ Spares),
         /\ req'[r].known = req[r].known /\ req'[r].agreed = req[r].agreed
         /\ req'[r].opts = req[r].opts /\ req'[r].blind = req[r].blind,
         \/ req'[r].at = req[r].at
         \/ req[r].at \in (Underway \cup {"resolve"}) \ {"branch"} /\ req'[r].at \in Underway \ {"branch"}
  PROVE  WorkOK(r)'
<1> DEFINE q == req[r]
           p == req'[r]
<1>0. RequestOK(r) /\ made \in Nat /\ wt.edits \subseteq 1..made
  BY DEF JInv, RequestsOK, NumbersOK, IInv, TypeOK
<1>1. \A S : S \subseteq 1..made => S \subseteq 1..made' /\ \A c \in S : ~(c > made)
  BY <1>0 DEF Grows
<1> SUFFICES ASSUME p.at \in Underway \cup {"resolve"}
             PROVE  WorkOK(r)'
  BY DEF WorkOK
<1>2. q.at \in Underway \cup {"resolve"} /\ (p.at # "branch" => q.at # "branch")
  BY DEF Underway
<1>3. q.known \subseteq 1..made /\ (q.opts.force => q.known \cap wt.edits \subseteq q.agreed)
  BY <1>0, <1>2 DEF RequestOK, WorkOK
<1>4. q.known \subseteq 1..made' /\ (q.opts.force => q.known \cap wt'.edits \subseteq q.agreed)
  BY <1>1, <1>3 DEF Grows
<1>5. ASSUME ~Met(r)'
      PROVE  /\ refs'.mine # Gone
             /\ p.at # "branch" =>
                  /\ wt'.there
                  /\ q.opts.remote => q.known \subseteq q.agreed \cup Kept' \cup Landed'
             /\ q.opts.force /\ q.opts.branch /\ ~q.blind =>
                  q.known \cap refs'.mine \subseteq q.agreed \cup Landed'
  <2>1. ~Met(r) /\ Spares
    BY <1>5
  <2>2. /\ refs.mine # Gone
        /\ p.at # "branch" =>
             /\ wt.there
             /\ q.opts.remote => q.known \subseteq q.agreed \cup Kept \cup Landed
        /\ q.opts.force /\ q.opts.branch /\ ~q.blind =>
             q.known \cap refs.mine \subseteq q.agreed \cup Landed
    BY <1>0, <1>2, <2>1 DEF RequestOK, WorkOK
  <2>3. \A c \in refs'.mine : c \in refs.mine \/ c \in wt.edits \/ c > made
    BY <2>1, <2>2 DEF Spares
  <2>4. q.opts.force /\ q.opts.branch /\ ~q.blind =>
          q.known \cap refs'.mine \subseteq q.agreed \cup Landed'
    BY <1>1, <1>3, <2>1, <2>2, <2>3 DEF Spares
  <2> QED BY <2>1, <2>2, <2>4 DEF Spares
<1> QED BY <1>4, <1>5 DEF WorkOK

\* A removal that does not move itself still has what it had.
LEMMA RequestKept ==
  ASSUME JInv, NEW r \in Requests, req'[r] = req[r], Grows, Met(r)' \/ (~Met(r) /\ Spares)
  PROVE  RequestOK(r)'
<1> DEFINE q == req[r]
<1>0. RequestOK(r) /\ req'[r] = q /\ made \in Nat /\ wt.edits \subseteq 1..made
  BY DEF JInv, RequestsOK, NumbersOK, IInv, TypeOK
<1>1. \A S : S \subseteq 1..made => S \subseteq 1..made' /\ \A c \in S : ~(c > made)
  BY <1>0 DEF Grows
<1>2. SawOK(r)'
  BY <1>0 DEF RequestOK, SawOK
<1>3. PageOK(r)'
  <2> SUFFICES ASSUME q.at \in {"reading", "counting", "shown"}
               PROVE  PageOK(r)'
    BY <1>0 DEF PageOK
  <2>1. q.known \subseteq 1..made /\ (q.at # "reading" => q.known \cap wt.edits \subseteq q.edits)
    BY <1>0 DEF RequestOK, PageOK
  <2>2. q.known \subseteq 1..made' /\ (q.at # "reading" => q.known \cap wt'.edits \subseteq q.edits)
    BY <1>1, <2>1 DEF Grows
  <2>3. ASSUME ~Met(r)'
        PROVE  /\ wt'.there /\ refs'.mine # Gone
               /\ q.known \subseteq q.fetched \cup Kept'
               /\ q.copy = "spent" => q.fetched \subseteq Landed'
               /\ q.at = "shown" =>
                    /\ q.known \cap refs'.mine \subseteq q.mine \cup q.edits
                    /\ ~q.unmerged /\ ~q.blind => q.mine \subseteq Landed'
    <3>1. ~Met(r) /\ Spares
      BY <2>3
    <3>2. /\ wt.there /\ refs.mine # Gone
          /\ q.known \subseteq q.fetched \cup Kept
          /\ q.copy = "spent" => q.fetched \subseteq Landed
          /\ q.at = "shown" =>
               /\ q.known \cap refs.mine \subseteq q.mine \cup q.edits
               /\ ~q.unmerged /\ ~q.blind => q.mine \subseteq Landed
      BY <1>0, <3>1 DEF RequestOK, PageOK
    <3>3. \A c \in refs'.mine : c \in refs.mine \/ c \in wt.edits \/ c > made
      BY <3>1, <3>2 DEF Spares
    <3>4. q.at = "shown" => q.known \cap refs'.mine \subseteq q.mine \cup q.edits
      BY <1>1, <2>1, <3>2, <3>3
    <3> QED BY <3>1, <3>2, <3>4 DEF Spares
  <2> QED BY <1>0, <2>2, <2>3 DEF PageOK
<1>4. WorkOK(r)'
  BY <1>0, WorkMoves
<1> QED BY <1>2, <1>3, <1>4 DEF RequestOK

LEMMA SpendsLeaves ==
  ASSUME LeftOK, NEW k, Spends(k) PROVE LeftOK' /\ left'.remote = left.remote
BY DEF LeftOK, Spends

\* What the world does to the worktree and the refs, and so to every removal.
LEMMA WorldKeeps ==
  ASSUME JInv, UNCHANGED <<req, taken>>, IInv', LeftOK', NumbersOK', LinesOK', PlaceOK', Grows, Spares
  PROVE  JInv'
<1>1. \A r \in Requests : Met(r)' \/ (~Met(r) /\ Spares)
  BY DEF Met
<1>2. \A r \in Requests : RequestOK(r)'
  BY <1>1, RequestKept
<1>3. RequestsOK'
  BY <1>2 DEF JInv, RequestsOK
<1>4. LossAgreed' /\ RefusalCostsNothing'
  BY DEF JInv, LossAgreed, RefusalCostsNothing
<1> QED BY <1>3, <1>4 DEF JInv

LEMMA AgentKeeps == ASSUME JInv, Agent PROVE JInv'
<1>0. IInv' /\ UNCHANGED <<req, taken, form>>
  BY OutsideOK DEF JInv, Agent, Edits, Commits, Pushes, Detaches, Locks, Outdoors
<1> USE DEF JInv, IInv, TypeOK
<1>1. CASE Edits
  <2>1. /\ wt.there /\ made' = made + 1 /\ wt' = [wt EXCEPT !.edits = @ \cup {made'}]
        /\ refs' = refs
        /\ LeftOK' /\ left'.remote = left.remote
    BY <1>1, SpendsLeaves DEF Edits
  <2>2. NumbersOK'
    BY <2>1 DEF NumbersOK
  <2>3. LinesOK' /\ PlaceOK'
    BY <1>0, <2>1 DEF LinesOK, PlaceOK
  <2>4. Grows /\ Spares
    BY <2>1 DEF Grows, Spares, Kept, Apart, Landed
  <2> QED BY <1>0, <2>1, <2>2, <2>3, <2>4, WorldKeeps
<1>2. CASE Commits
  <2>1. /\ wt.there /\ made' = made /\ left' = left
        /\ wt' = [wt EXCEPT !.edits = {}, !.tip = IF wt.on THEN @ ELSE @ \cup wt.edits]
        /\ refs' = [refs EXCEPT !.mine = IF wt.on THEN @ \cup wt.edits ELSE @]
    BY <1>2 DEF Commits
  <2>2. NumbersOK' /\ LeftOK'
    BY <2>1 DEF NumbersOK, LeftOK
  <2>3. LinesOK' /\ PlaceOK'
    BY <1>0, <2>1 DEF LinesOK, PlaceOK, Gone
  <2>4. Grows /\ Spares
    BY <2>1 DEF Grows, Spares, Kept, Apart, Landed, Gone
  <2> QED BY <1>0, <2>2, <2>3, <2>4, WorldKeeps
<1>3. ASSUME NEW up \in BOOLEAN, Pushes(up) PROVE JInv'
  <2>1. /\ wt' = wt /\ made' = made /\ LeftOK' /\ left'.remote = left.remote
        /\ refs' = [refs EXCEPT !.theirs = refs.mine, !.copy = refs.mine,
                                !.upstream = IF up THEN "own" ELSE @]
    BY <1>3, SpendsLeaves DEF Pushes
  <2>2. NumbersOK'
    BY <2>1 DEF NumbersOK
  <2>3. LinesOK' /\ PlaceOK'
    BY <1>0, <2>1 DEF LinesOK, PlaceOK
  <2>4. Grows /\ Spares
    BY <2>1 DEF Grows, Spares, Kept, Apart, Landed
  <2> QED BY <1>0, <2>1, <2>2, <2>3, <2>4, WorldKeeps
<1>4. CASE Detaches
  <2>1. /\ wt' = [wt EXCEPT !.on = FALSE, !.tip = refs.mine] /\ wt.on /\ made' = made
        /\ refs' = refs
        /\ LeftOK' /\ left'.remote = left.remote
    BY <1>4, SpendsLeaves DEF Detaches, OnBranch
  <2>2. NumbersOK'
    BY <2>1 DEF NumbersOK
  <2>3. LinesOK' /\ PlaceOK'
    BY <1>0, <2>1 DEF LinesOK, PlaceOK
  <2>4. Grows /\ Spares
    BY <2>1 DEF Grows, Spares, Kept, Apart, Landed
  <2> QED BY <1>0, <2>1, <2>2, <2>3, <2>4, WorldKeeps
<1>5. CASE Locks
  <2>1. /\ wt' = [wt EXCEPT !.locked = ~@] /\ made' = made /\ refs' = refs
        /\ LeftOK' /\ left'.remote = left.remote
    BY <1>5, SpendsLeaves DEF Locks
  <2>2. NumbersOK'
    BY <2>1 DEF NumbersOK
  <2>3. LinesOK' /\ PlaceOK'
    BY <1>0, <2>1 DEF LinesOK, PlaceOK
  <2>4. Grows /\ Spares
    BY <2>1 DEF Grows, Spares, Kept, Apart, Landed
  <2> QED BY <1>0, <2>1, <2>2, <2>3, <2>4, WorldKeeps
<1> QED BY <1>1, <1>2, <1>3, <1>4, <1>5 DEF Agent

\* Nothing of the remote's touches the worktree or the branch.
LEMMA RemoteKeeps == ASSUME JInv, Remote PROVE JInv'
<1>0. /\ IInv' /\ UNCHANGED <<req, taken, form>>
      /\ wt' = wt
  BY OutsideOK DEF JInv, Remote, Fetches, MainPulls, MergesLocally, ColleaguePushes, RemoteAdded,
       Silences,
                   Lands, Outdoors
<1> USE DEF JInv, IInv, TypeOK
<1>1. ASSUME made' \in Nat, made <= made', refs'.mine = refs.mine, Landed \subseteq Landed',
             LeftOK', NumbersOK', LinesOK'
      PROVE  JInv'
  <2>1. PlaceOK'
    BY <1>0, <1>1 DEF PlaceOK
  <2>2. Grows /\ Spares
    BY <1>0, <1>1 DEF Grows, Spares, Kept, Apart
  <2> QED BY <1>0, <1>1, <2>1, <2>2, WorldKeeps
<1>2. CASE Fetches
  <2>1. /\ left.remote /\ made' = made /\ LeftOK' /\ left'.remote = left.remote
        /\ refs' = [refs EXCEPT !.base = refs.main, !.copy = IF refs.theirs = Gone THEN @ ELSE refs.theirs]
    BY <1>2, SpendsLeaves DEF Fetches
  <2>2. NumbersOK'
    BY <1>0, <2>1 DEF NumbersOK
  <2>3. LinesOK' /\ Landed \subseteq Landed'
    BY <2>1 DEF LinesOK, Landed
  <2> QED BY <1>1, <2>1, <2>2, <2>3
<1>3. CASE MainPulls
  <2>1. /\ left.remote /\ made' = made /\ LeftOK' /\ left'.remote = left.remote
        /\ refs' = [refs EXCEPT !.base = refs.main,
                          !.head = [ids |-> @.ids \cup refs.main.ids, has |-> @.has \cup refs.main.has]]
    BY <1>3, SpendsLeaves DEF MainPulls
  <2>2. NumbersOK'
    BY <1>0, <2>1 DEF NumbersOK
  <2>3. LinesOK' /\ Landed \subseteq Landed'
    BY <2>1 DEF LinesOK, Landed
  <2> QED BY <1>1, <2>1, <2>2, <2>3
<1>4. CASE MergesLocally
  <2>1. /\ made' = made /\ LeftOK' /\ left'.remote = left.remote
        /\ refs' = [refs EXCEPT !.head = [ids |-> @.ids \cup refs.mine, has |-> @.has \cup refs.mine]]
    BY <1>4, SpendsLeaves DEF MergesLocally
  <2>2. NumbersOK'
    BY <1>0, <2>1 DEF NumbersOK
  <2>3. LinesOK' /\ Landed \subseteq Landed'
    BY <2>1 DEF LinesOK, Landed
  <2> QED BY <1>1, <2>1, <2>2, <2>3
<1>5. CASE ColleaguePushes
  <2>1. /\ made' = made + 1 /\ LeftOK' /\ left'.remote = left.remote
        /\ refs' = [refs EXCEPT !.theirs = @ \cup {made'}]
    BY <1>5, SpendsLeaves DEF ColleaguePushes
  <2>2. NumbersOK'
    BY <1>0, <2>1 DEF NumbersOK
  <2>3. LinesOK' /\ Landed \subseteq Landed'
    BY <2>1 DEF LinesOK, Landed
  <2> QED BY <1>1, <2>1, <2>2, <2>3
<1>6. CASE RemoteAdded
  <2>1. /\ ~left.remote /\ made' = made
        /\ left' = [left EXCEPT !.remote = TRUE, !.often["sync"] = @ - 1]
        /\ refs' = [refs EXCEPT !.base = refs.head, !.main = refs.head]
    BY <1>6 DEF RemoteAdded
  <2>2. NumbersOK' /\ LeftOK'
    BY <1>0, <2>1 DEF NumbersOK, LeftOK
  <2>3. LinesOK' /\ Landed \subseteq Landed'
    BY <2>1 DEF LinesOK, Landed, IdsHeld, NoWork, LeftOK
  <2> QED BY <1>1, <2>1, <2>2, <2>3
<1>7. CASE Silences
  <2>1. made' = made /\ refs' = refs /\ LeftOK' /\ left'.remote = left.remote
    BY <1>7, SpendsLeaves DEF Silences
  <2>2. NumbersOK' /\ LinesOK' /\ Landed \subseteq Landed'
    BY <1>0, <2>1 DEF NumbersOK, LinesOK, Landed
  <2> QED BY <1>1, <2>1, <2>2
<1>8. ASSUME NEW squash \in BOOLEAN, NEW delete \in BOOLEAN, Lands(squash, delete) PROVE JInv'
  <2>1. /\ made' = made /\ LeftOK' /\ left'.remote = left.remote
        /\ refs' = [refs EXCEPT !.main = [ids |-> IF squash THEN @.ids ELSE @.ids \cup refs.theirs,
                                          has |-> @.has \cup refs.theirs],
                                !.theirs = IF delete THEN Gone ELSE @]
    BY <1>8, SpendsLeaves DEF Lands
  <2>2. NumbersOK'
    BY <1>0, <2>1 DEF NumbersOK, Gone
  <2>3. LinesOK' /\ Landed \subseteq Landed'
    BY <2>1 DEF LinesOK, Landed, NoWork
  <2> QED BY <1>1, <2>1, <2>2, <2>3
<1> QED BY <1>2, <1>3, <1>4, <1>5, <1>6, <1>7, <1>8 DEF Remote

LEMMA CreationKeeps == ASSUME JInv, Creation PROVE JInv'
<1>0. IInv' /\ UNCHANGED <<req, taken, made>>
  BY InsideOK DEF JInv, Creation, Describes, Creates, Adds, StartsClaude, Making
<1> USE DEF JInv, IInv, TypeOK
<1>1. CASE Describes \/ Creates
  <2>1. wt' = wt /\ refs' = refs /\ LeftOK' /\ left'.remote = left.remote /\ (form' = "add" => ~wt.there)
    BY <1>1, SpendsLeaves DEF Describes, Creates, LeftOK
  <2>2. NumbersOK' /\ LinesOK'
    BY <1>0, <2>1 DEF NumbersOK, LinesOK
  <2>3. PlaceOK'
    BY <1>0, <2>1 DEF PlaceOK
  <2>4. Grows /\ Spares
    BY <1>0, <2>1 DEF Grows, Spares, Kept, Apart, Landed
  <2> QED BY <1>0, <2>1, <2>2, <2>3, <2>4, WorldKeeps
<1>2. CASE Adds
  <2>1. /\ form = "add" /\ form' = "start" /\ left' = left /\ ~wt.there
        /\ wt' = [wt EXCEPT !.there = TRUE, !.on = TRUE]
        /\ refs' = IF refs.mine # Gone THEN refs
                   ELSE [refs EXCEPT !.mine = IF left.remote THEN refs.base.ids ELSE refs.head.ids,
                                     !.upstream = IF left.remote THEN "main" ELSE "none"]
    BY <1>2 DEF Adds, PlaceOK
  <2>2. wt'.there /\ wt'.on /\ wt'.edits = wt.edits /\ wt'.tip = wt.tip
    BY <2>1
  <2>3. /\ refs'.copy = refs.copy /\ refs'.theirs = refs.theirs /\ refs'.head = refs.head
        /\ refs'.base = refs.base /\ refs'.main = refs.main
        /\ refs'.mine \in {refs.mine, refs.base.ids, refs.head.ids}
        /\ refs.mine # Gone => refs'.mine = refs.mine
        /\ refs'.mine # Gone
    BY <2>1 DEF Gone, LinesOK
  <2>4. NumbersOK' /\ LeftOK'
    BY <1>0, <2>1, <2>2, <2>3 DEF NumbersOK, LeftOK
  <2>5. LinesOK' /\ PlaceOK'
    BY <2>1, <2>2, <2>3 DEF LinesOK, PlaceOK
  <2>6. Grows /\ Spares
    BY <1>0, <2>1, <2>2, <2>3 DEF Grows, Spares, Kept, Apart, Landed, Gone
  <2> QED BY <1>0, <2>4, <2>5, <2>6, WorldKeeps
<1>3. CASE StartsClaude
  <2>1. wt' = [wt EXCEPT !.sessions = TRUE] /\ refs' = refs /\ left' = left /\ form' = ""
    BY <1>3 DEF StartsClaude
  <2>5. wt'.there = wt.there /\ wt'.on = wt.on /\ wt'.tip = wt.tip /\ wt'.edits = wt.edits
    BY <2>1
  <2>2. NumbersOK' /\ LinesOK' /\ LeftOK'
    BY <1>0, <2>1 DEF NumbersOK, LinesOK, LeftOK
  <2>3. PlaceOK'
    BY <1>0, <2>1 DEF PlaceOK
  <2>6. Kept' = Kept /\ Landed' = Landed
    BY <2>1, <2>5 DEF Kept, Apart, Landed
  <2>7. refs' = refs /\ made' = made /\ made \in Nat
    BY <1>0, <2>1
  <2>8. Grows
    BY <2>5, <2>7 DEF Grows
  <2>4. Spares
    BY <2>5, <2>6, <2>7 DEF Spares
  <2> QED BY <1>0, <2>2, <2>3, <2>4, <2>8, WorldKeeps
<1> QED BY <1>1, <1>2, <1>3 DEF Creation

-----------------------------------------------------------------------------
(* One request goes on.                                                    *)

LEMMA RequestStep ==
  ASSUME JInv, NEW r \in Requests, NEW x, req' = [req EXCEPT ![r] = x],
         IInv', LeftOK', NumbersOK', LinesOK', PlaceOK', Grows,
         req[r].at = "branch" => x.at = "removed", req[r].at # "removed",
         x.at \in {"branch", "removed"} \/ Spares,
         RequestOK(r)', LossAgreed',
         x.at = "refused" /\ x.cost => x.why \in {"locked", "changed", "gone"}
  PROVE  JInv'
<1>0. DOMAIN req = Requests
  BY DEF JInv, RequestsOK
<1>1. req'[r] = x /\ \A q \in Requests \ {r} : req'[q] = req[q]
  BY <1>0
<1>2. ASSUME NEW q \in Requests \ {r} PROVE RequestOK(q)'
  <2>1. Met(q) => Met(q)'
    BY <1>1 DEF Met
  <2>2. x.at \in {"branch", "removed"} => Met(q)'
    BY <1>1 DEF Met
  <2> QED BY <1>1, <2>1, <2>2, RequestKept
<1>3. RequestsOK'
  BY <1>0, <1>2 DEF RequestsOK
<1>4. RefusalCostsNothing'
  BY <1>1 DEF JInv, RefusalCostsNothing
<1> QED BY <1>3, <1>4 DEF JInv

\* A step that leaves the world alone.
Idles == UNCHANGED <<wt, refs, made, form, taken>> /\ LeftOK' /\ left'.remote = left.remote

LEMMA QuietStep ==
  ASSUME JInv, NEW r \in Requests, NEW x, req' = [req EXCEPT ![r] = x], Idles,
         req[r].at # "branch", req[r].at # "removed", x.at # "removed",
         RequestOK(r)',
         x.at = "refused" /\ x.cost => x.why \in {"locked", "changed", "gone"}
  PROVE  JInv'
<1>1. IInv' /\ NumbersOK' /\ LinesOK'
  BY DEF JInv, IInv, TypeOK, IdsHeld, UnforcedKeepsMine, NumbersOK, LinesOK, Idles
<1>2. PlaceOK'
  BY DEF JInv, PlaceOK, Idles, RequestsOK
<1>3. Grows /\ Spares
  BY DEF JInv, IInv, TypeOK, Grows, Spares, Idles, Kept, Apart, Landed
<1>4. LossAgreed'
  BY DEF JInv, LossAgreed, Idles
<1> QED BY <1>1, <1>2, <1>3, <1>4, RequestStep DEF Idles

LEMMA DefaultLanded ==
  ASSUME IInv PROVE DefaultBranch.ids \subseteq Landed /\ DefaultBranch.has \subseteq Landed
BY DEF IInv, IdsHeld, DefaultBranch, Landed

LEMMA ReadsKeeps == ASSUME JInv, NEW r \in Requests, Reads(r) PROVE JInv'
<1> DEFINE x == [at |-> "reading", known |-> Here, named |-> wt.on,
                 copy |-> IF wt.on THEN Copied ELSE "none", fetched |-> refs.copy]
<1>1. /\ req[r].at \in {"page", "shown"} /\ wt.there /\ Idles
      /\ req' = [req EXCEPT ![r] = x]
  BY DEF Reads, Idles, JInv, LeftOK
<1>2. /\ x.at = "reading" /\ x.known = Here /\ x.fetched = refs.copy
      /\ x.copy = IF wt.on THEN Copied ELSE "none"
  OBVIOUS
<1> HIDE DEF x
<1>3. req'[r] = x
  BY <1>1 DEF JInv, RequestsOK
<1>4. Here \subseteq 1..made /\ Here \subseteq refs.copy \cup Kept
  BY <1>1 DEF Here, Tip, Kept, Apart, Root, JInv, NumbersOK, IInv, TypeOK
<1>5. Met(r)' \/ refs.mine # Gone
  <2>1. ASSUME NEW q \in Requests, req[q].at = "removed" PROVE Met(r)'
    <3>1. q # r /\ req'[q].at = "removed"
      BY <1>1, <2>1 DEF JInv, RequestsOK
    <3> QED BY <3>1 DEF Met
  <2> QED BY <1>1, <2>1 DEF JInv, PlaceOK
<1>6. x.copy = "spent" => refs.copy \subseteq Landed
  BY <1>2, DefaultLanded DEF JInv, Copied
<1>7. Kept' = Kept /\ Landed' = Landed
  BY <1>1 DEF Idles, Kept, Apart, Landed
<1>8. RequestOK(r)'
  <2>1. PageOK(r)'
    BY <1>1, <1>2, <1>3, <1>4, <1>5, <1>6, <1>7 DEF PageOK, Idles
  <2>2. WorkOK(r)' /\ SawOK(r)'
    BY <1>2, <1>3 DEF WorkOK, SawOK, Underway
  <2> QED BY <2>1, <2>2 DEF RequestOK
<1> QED BY <1>1, <1>2, <1>8, QuietStep

LEMMA ReadsDirtyKeeps == ASSUME JInv, NEW r \in Requests, ReadsDirty(r) PROVE JInv'
<1> DEFINE q == req[r]
           x == [at |-> "counting", known |-> q.known, named |-> q.named,
                 copy |-> q.copy, fetched |-> q.fetched,
                 dirty |-> Dirty = "yes", edits |-> wt.edits]
<1>1. q.at = "reading" /\ Idles /\ req' = [req EXCEPT ![r] = x]
  BY DEF ReadsDirty, Idles, JInv, LeftOK
<1>2. /\ x.at = "counting" /\ x.known = q.known /\ x.fetched = q.fetched
      /\ x.copy = q.copy /\ x.edits = wt.edits
  OBVIOUS
<1> HIDE DEF x
<1>3. req'[r] = x /\ RequestOK(r)
  BY <1>1 DEF JInv, RequestsOK
<1>4. Kept' = Kept /\ Landed' = Landed /\ (Met(r)' <=> Met(r))
  BY <1>1 DEF Idles, Kept, Apart, Landed, Met, JInv, RequestsOK
<1>5. PageOK(r)'
  BY <1>1, <1>2, <1>3, <1>4 DEF RequestOK, PageOK, Idles
<1>6. WorkOK(r)' /\ SawOK(r)'
  BY <1>2, <1>3 DEF WorkOK, SawOK, Underway
<1> QED BY <1>1, <1>2, <1>5, <1>6, QuietStep DEF RequestOK

LEMMA ReadsUnmergedKeeps == ASSUME JInv, NEW r \in Requests, ReadsUnmerged(r) PROVE JInv'
<1> DEFINE q == req[r]
           x == [at |-> "shown", known |-> q.known, named |-> q.named,
                 copy |-> q.copy, fetched |-> q.fetched, dirty |-> q.dirty, edits |-> q.edits,
                 unmerged |-> Unmerged, blind |-> Blind, mine |-> Tip]
<1>1. q.at = "counting" /\ Idles /\ req' = [req EXCEPT ![r] = x]
  BY DEF ReadsUnmerged, Idles, JInv, LeftOK
<1>2. /\ x.at = "shown" /\ x.known = q.known /\ x.fetched = q.fetched
      /\ x.copy = q.copy /\ x.edits = q.edits /\ x.mine = Tip
  OBVIOUS
<1>3. ~x.unmerged /\ ~x.blind => Tip \subseteq Landed
  <2>1. x.unmerged = Unmerged /\ x.blind = Blind
    OBVIOUS
  <2>2. ~Unmerged /\ ~Blind => Tip \subseteq DefaultBranch.has
    BY DEF Unmerged
  <2> QED BY <2>1, <2>2, DefaultLanded DEF JInv
<1> HIDE DEF x
<1>4. req'[r] = x /\ RequestOK(r)
  BY <1>1 DEF JInv, RequestsOK
<1>5. Kept' = Kept /\ Landed' = Landed /\ (Met(r)' <=> Met(r))
  BY <1>1 DEF Idles, Kept, Apart, Landed, Met, JInv, RequestsOK
<1>6. wt.there => refs.mine \subseteq Tip
  BY DEF Tip, JInv, PlaceOK
<1>7. PageOK(r)'
  BY <1>1, <1>2, <1>3, <1>4, <1>5, <1>6 DEF RequestOK, PageOK, Idles
<1>8. WorkOK(r)' /\ SawOK(r)'
  BY <1>2, <1>4 DEF WorkOK, SawOK, Underway
<1> QED BY <1>1, <1>2, <1>7, <1>8, QuietStep DEF RequestOK

\* A box that is asked for speaks for itself; one that is not, for what made
\* asking pointless.
LEMMA AnswersFacts ==
  ASSUME NEW s, NEW ticks
  PROVE  /\ Answers(s, ticks).force => "discard" \in ticks
         /\ Answers(s, ticks).branch => "branch" \in ticks \/ ~s.unmerged
         /\ Answers(s, ticks).remote => "remote" \in ticks \/ s.copy = "spent"
<1>1. /\ Asks(s).branchGoesAnyway => ~s.unmerged
      /\ Asks(s).remoteGoesAnyway => s.copy = "spent"
  BY DEF Asks
<1>2. /\ Answers(s, ticks).force = (Asks(s).discard /\ "discard" \in ticks)
      /\ Answers(s, ticks).branch = IF Asks(s).branch THEN "branch" \in ticks ELSE Asks(s).branchGoesAnyway
      /\ Answers(s, ticks).remote = IF Asks(s).remote THEN "remote" \in ticks ELSE Asks(s).remoteGoesAnyway
  BY DEF Answers
<1> QED BY <1>1, <1>2

LEMMA RemovesKeeps == ASSUME JInv, NEW r \in Requests, NEW ticks, Removes(r, ticks) PROVE JInv'
<1> DEFINE q == req[r]
           o == Answers(q, ticks)
           g == Agreed(q, ticks)
           x == [at |-> "resolve", opts |-> o, agreed |-> g, known |-> q.known, blind |-> q.blind]
<1>1. q.at = "shown" /\ Idles /\ req' = [req EXCEPT ![r] = x]
  BY DEF Removes, Idles, JInv, LeftOK
<1>2. x.at = "resolve" /\ x.known = q.known /\ x.agreed = g /\ x.opts = o /\ x.blind = q.blind
  OBVIOUS
<1>3. /\ "discard" \in ticks => q.edits \subseteq g
      /\ "branch" \in ticks => q.mine \subseteq g
      /\ "remote" \in ticks => q.fetched \subseteq g
  BY DEF Agreed
<1>4. /\ o.force => "discard" \in ticks
      /\ o.branch => "branch" \in ticks \/ ~q.unmerged
      /\ o.remote => "remote" \in ticks \/ q.copy = "spent"
  BY AnswersFacts
<1> HIDE DEF x, o, g
<1>5. req'[r] = x /\ RequestOK(r)
  BY <1>1 DEF JInv, RequestsOK
<1>6. Kept' = Kept /\ Landed' = Landed /\ (Met(r)' <=> Met(r))
  BY <1>1 DEF Idles, Kept, Apart, Landed, Met, JInv, RequestsOK
<1>7. WorkOK(r)'
  <2>1. q.known \subseteq 1..made /\ q.known \cap wt.edits \subseteq q.edits
    BY <1>1, <1>5 DEF RequestOK, PageOK
  <2>2. ASSUME ~Met(r)
        PROVE  /\ wt.there /\ refs.mine # Gone
               /\ o.remote => q.known \subseteq g \cup Kept \cup Landed
               /\ o.force /\ o.branch /\ ~q.blind => q.known \cap refs.mine \subseteq g \cup Landed
    <3>1. /\ wt.there /\ refs.mine # Gone
          /\ q.known \subseteq q.fetched \cup Kept
          /\ q.copy = "spent" => q.fetched \subseteq Landed
          /\ q.known \cap refs.mine \subseteq q.mine \cup q.edits
          /\ ~q.unmerged /\ ~q.blind => q.mine \subseteq Landed
      BY <1>1, <1>5, <2>2 DEF RequestOK, PageOK
    <3>2. o.remote => q.known \subseteq g \cup Kept \cup Landed
      BY <1>3, <1>4, <3>1
    <3>3. o.force /\ o.branch /\ ~q.blind => q.known \cap refs.mine \subseteq g \cup Landed
      BY <1>3, <1>4, <3>1
    <3> QED BY <3>1, <3>2, <3>3
  <2>3. o.force => q.known \cap wt.edits \subseteq g
    BY <1>3, <1>4, <2>1
  <2> QED BY <1>1, <1>2, <1>5, <1>6, <2>1, <2>2, <2>3 DEF WorkOK, Idles
<1>8. PageOK(r)' /\ SawOK(r)'
  BY <1>2, <1>5 DEF PageOK, SawOK, Underway
<1> QED BY <1>1, <1>2, <1>7, <1>8, QuietStep DEF RequestOK

LEMMA PageKeeps == ASSUME JInv, NEW r \in Requests, Page(r) PROVE JInv'
BY ReadsKeeps, ReadsDirtyKeeps, ReadsUnmergedKeeps, RemovesKeeps DEF Page

-----------------------------------------------------------------------------
(* The removal.                                                            *)

\* Whether it goes on or is refused, a step that destroys nothing.
LEMMA MovesOn ==
  ASSUME JInv, NEW r \in Requests, NEW x, req' = [req EXCEPT ![r] = x], Idles,
         req[r].at \in (Underway \cup {"resolve"}) \ {"branch"}, x.at \in Underway \ {"branch"},
         /\ x.known = req[r].known /\ x.agreed = req[r].agreed
         /\ x.opts = req[r].opts /\ x.blind = req[r].blind,
         Fields \subseteq DOMAIN x, x.opts.force \/ x.saw = {},
         x.at \in {"target", "push", "standing"} => x.opts.remote
  PROVE  JInv'
<1>1. req'[r] = x
  BY DEF JInv, RequestsOK
<1>2. Met(r)' <=> Met(r)
  BY DEF Met, JInv, RequestsOK
<1>3. Grows /\ Spares
  BY DEF JInv, IInv, TypeOK, Grows, Spares, Idles, Kept, Apart, Landed
<1>4. WorkOK(r)'
  BY <1>1, <1>2, <1>3, WorkMoves
<1>5. PageOK(r)' /\ SawOK(r)'
  BY <1>1 DEF PageOK, SawOK, Underway
<1> QED BY <1>4, <1>5, QuietStep DEF RequestOK, Underway

LEMMA RefusesKeeps ==
  ASSUME JInv, NEW r \in Requests, NEW cost, NEW why, Refuses(r, cost, why), Idles,
         req[r].at \in (Underway \cup {"resolve"}) \ {"branch"},
         cost => why \in {"locked", "changed", "gone"}
  PROVE  JInv'
<1> DEFINE x == [at |-> "refused", cost |-> cost, why |-> why]
<1>1. req' = [req EXCEPT ![r] = x] /\ x.at = "refused" /\ x.why = why
  BY DEF Refuses
<1>2. x.cost => why \in {"locked", "changed", "gone"}
  OBVIOUS
<1> HIDE DEF x
<1>3. req'[r] = x
  BY <1>1 DEF JInv, RequestsOK
<1>4. RequestOK(r)'
  BY <1>1, <1>3 DEF RequestOK, PageOK, WorkOK, SawOK, Underway
<1> QED BY <1>1, <1>2, <1>4, QuietStep DEF Underway

\* A step that goes on, as it changes only where the removal is.
LEMMA GoesOn ==
  ASSUME JInv, NEW r \in Requests, NEW at \in Underway \ {"branch"}, Goes(r, at), Idles,
         req[r].at \in Underway \ {"branch"},
         at \in {"target", "push", "standing"} => req[r].opts.remote
  PROVE  JInv'
<1> DEFINE x == [req[r] EXCEPT !.at = at]
<1>1. SawOK(r)
  BY DEF JInv, RequestsOK, RequestOK
<1>2. req' = [req EXCEPT ![r] = x]
  BY DEF Goes
<1>3. /\ x.at = at /\ x.known = req[r].known /\ x.agreed = req[r].agreed
      /\ x.opts = req[r].opts /\ x.blind = req[r].blind /\ x.saw = req[r].saw
      /\ DOMAIN x = DOMAIN req[r]
  BY <1>1 DEF SawOK, Fields
<1> HIDE DEF x
<1> QED BY <1>1, <1>2, <1>3, MovesOn DEF SawOK

LEMMA ResolvesKeeps == ASSUME JInv, NEW r \in Requests, Resolves(r) PROVE JInv'
<1>1. req[r].at = "resolve" /\ Idles
  BY DEF Resolves, On, Idles, Inside, JInv, LeftOK
<1>2. CASE wt.there
  <2> DEFINE x == [at |-> "check", opts |-> req[r].opts, agreed |-> req[r].agreed,
                   known |-> req[r].known, blind |-> req[r].blind, named |-> wt.on, saw |-> {}]
  <2>1. req' = [req EXCEPT ![r] = x]
    BY <1>2 DEF Resolves
  <2>2. /\ x.at = "check" /\ x.known = req[r].known /\ x.agreed = req[r].agreed
        /\ x.opts = req[r].opts /\ x.blind = req[r].blind /\ x.saw = {} /\ DOMAIN x = Fields
    BY DEF Fields
  <2> HIDE DEF x
  <2> QED BY <1>1, <2>1, <2>2, MovesOn DEF Underway
<1>3. CASE ~wt.there
  <2>1. Refuses(r, FALSE, "gone")
    BY <1>3 DEF Resolves
  <2> QED BY <1>1, <2>1, RefusesKeeps
<1> QED BY <1>2, <1>3

\* Not to discard them, it has to have found no changes.
LEMMA ChecksKeeps == ASSUME JInv, NEW r \in Requests, Checks(r) PROVE JInv'
<1>1. req[r].at = "check" /\ Idles
  BY DEF Checks, On, Idles, Inside, JInv, LeftOK
<1>2. CASE req[r].opts.force \/ Clean
  <2> DEFINE at == IF req[r].opts.remote /\ req[r].named THEN "target" ELSE "kill"
             x == [req[r] EXCEPT !.saw = wt.edits, !.at = at]
  <2>1. req' = [req EXCEPT ![r] = x]
    BY <1>2 DEF Checks
  <2>2. Fields \subseteq DOMAIN req[r]
    BY <1>1 DEF JInv, RequestsOK, RequestOK, SawOK, Underway
  <2>3. /\ x.at = at /\ x.known = req[r].known /\ x.agreed = req[r].agreed
        /\ x.opts = req[r].opts /\ x.blind = req[r].blind /\ x.saw = wt.edits
        /\ DOMAIN x = DOMAIN req[r]
    BY <2>2 DEF Fields
  <2>4. req[r].opts.force \/ wt.edits = {}
    BY <1>2 DEF Clean, Dirty
  <2> HIDE DEF x
  <2>5. at \in Underway \ {"branch"} /\ (at \in {"target", "push", "standing"} => req[r].opts.remote)
    BY DEF Underway
  <2> HIDE DEF at
  <2> QED BY <1>1, <2>1, <2>2, <2>3, <2>4, <2>5, MovesOn DEF Underway
<1>3. CASE ~(req[r].opts.force \/ Clean)
  <2>1. Refuses(r, FALSE, "dirty")
    BY <1>3 DEF Checks
  <2> QED BY <1>1, <2>1, RefusesKeeps DEF Underway
<1> QED BY <1>2, <1>3

LEMMA TargetsKeeps == ASSUME JInv, NEW r \in Requests, Targets(r) PROVE JInv'
<1>1. req[r].at = "target" /\ Idles /\ Goes(r, IF Copied = "none" THEN "kill" ELSE "push")
  BY DEF Targets, On, Idles, JInv, LeftOK
<1>2. req[r].opts.remote
  BY <1>1 DEF JInv, RequestsOK, RequestOK, SawOK
<1>3. CASE Copied = "none"
  BY <1>1, <1>3, GoesOn DEF Underway
<1>4. CASE Copied # "none"
  BY <1>1, <1>2, <1>4, GoesOn DEF Underway
<1> QED BY <1>3, <1>4

LEMMA StandsKeeps == ASSUME JInv, NEW r \in Requests, Stands(r) PROVE JInv'
<1>1. req[r].at = "standing" /\ Idles
  BY SpendsLeaves DEF Stands, On, Idles, JInv, LeftOK
<1>2. CASE Goes(r, "kill")
  BY <1>1, <1>2, GoesOn DEF Underway
<1>3. CASE Refuses(r, FALSE, "remote")
  BY <1>1, <1>3, RefusesKeeps DEF Underway
<1> QED BY <1>2, <1>3 DEF Stands

LEMMA KillsKeeps == ASSUME JInv, NEW r \in Requests, Kills(r) PROVE JInv'
<1> DEFINE x == [at |-> "tree", opts |-> req[r].opts, agreed |-> req[r].agreed,
                 known |-> req[r].known, blind |-> req[r].blind, named |-> req[r].named,
                 saw |-> req[r].saw, cost |-> wt.sessions]
<1>1. /\ req[r].at = "kill" /\ wt' = [wt EXCEPT !.sessions = FALSE] /\ req' = [req EXCEPT ![r] = x]
      /\ UNCHANGED <<refs, made, form, taken, left>>
  BY DEF Kills, On, Inside
<1>2. /\ x.at = "tree" /\ x.known = req[r].known /\ x.agreed = req[r].agreed
      /\ x.opts = req[r].opts /\ x.blind = req[r].blind /\ x.saw = req[r].saw
      /\ Fields \subseteq DOMAIN x
  BY DEF Fields
<1> HIDE DEF x
<1>3. wt'.there = wt.there /\ wt'.on = wt.on /\ wt'.tip = wt.tip /\ wt'.edits = wt.edits
  BY <1>1 DEF JInv, IInv, TypeOK
<1>4. IInv'
  BY RemovalOK DEF JInv, Removal
<1>5. NumbersOK' /\ LinesOK' /\ LeftOK'
  BY <1>1, <1>3 DEF JInv, NumbersOK, LinesOK, LeftOK
<1>6. req'[r] = x /\ RequestOK(r) /\ (Met(r)' <=> Met(r))
  BY <1>1 DEF JInv, RequestsOK, Met
<1>7. PlaceOK'
  <2>1. \A q \in Requests : req[q].at = "removed" => req'[q].at = "removed"
    BY <1>1 DEF JInv, RequestsOK
  <2> QED BY <1>1, <1>3, <2>1 DEF JInv, PlaceOK
<1>8. Kept' = Kept /\ Landed' = Landed
  BY <1>1, <1>3 DEF Kept, Apart, Landed
<1>9. Grows /\ Spares
  BY <1>1, <1>3, <1>8 DEF JInv, IInv, TypeOK, Grows, Spares
<1>10. WorkOK(r)'
  BY <1>1, <1>2, <1>6, <1>9, WorkMoves DEF Underway
<1>11. PageOK(r)' /\ SawOK(r)'
  BY <1>1, <1>2, <1>6 DEF RequestOK, PageOK, SawOK, Underway
<1>12. LossAgreed'
  BY <1>1 DEF JInv, LossAgreed
<1> QED BY <1>1, <1>2, <1>4, <1>5, <1>7, <1>9, <1>10, <1>11, <1>12, RequestStep DEF RequestOK

-----------------------------------------------------------------------------
(* The steps that destroy something.                                       *)

\* Why a piece of work may go.
Excused(r, c) ==
  \/ c \in req[r].agreed \/ req[r].blind \/ Place(c) = "detached" \/ (c \in Here /\ c \notin req[r].known)
  \/ Met(r) /\ Place(c) # "changes"

LEMMA LossStep ==
  ASSUME LossAgreed, NEW r, Takes(r), \A c \in Held(wt, refs) \ Held(wt', refs') : Excused(r, c)
  PROVE  LossAgreed'
<1> SUFFICES ASSUME NEW t \in taken'
             PROVE  \/ t.agreed \/ t.blind \/ t.from = "detached" \/ (t.here /\ ~t.known)
                    \/ t.met /\ t.from # "changes"
  BY DEF LossAgreed
<1>1. CASE t \in taken
  BY <1>1 DEF LossAgreed
<1>2. CASE t \notin taken
  <2>1. PICK c \in Held(wt, refs) \ Held(wt', refs') : t = Loss(r, c)
    BY <1>2 DEF Takes
  <2>2. /\ t.agreed = (c \in req[r].agreed) /\ t.blind = req[r].blind /\ t.from = Place(c)
        /\ t.here = (c \in Here) /\ t.known = (c \in req[r].known) /\ t.met = Met(r)
    BY <2>1 DEF Loss
  <2>3. Excused(r, c)
    BY <2>1
  <2> QED BY <2>2, <2>3 DEF Excused
<1> QED BY <1>1, <1>2

LEMMA PushedKeeps == ASSUME JInv, NEW r \in Requests, Pushed(r) PROVE JInv'
<1>0. /\ req[r].at = "push" /\ Takes(r) /\ UNCHANGED <<wt, git, made, form>>
      /\ \/ LeaseHolds /\ refs' = [refs EXCEPT !.theirs = Gone, !.copy = Gone]
         \/ refs' = refs
  BY DEF Pushed, On
<1>1. PICK at \in {"kill", "standing"} : Goes(r, at)
  BY DEF Pushed
<1>2. LeftOK' /\ left'.remote = left.remote
  BY SpendsLeaves DEF Pushed, JInv, LeftOK
<1> DEFINE x == [req[r] EXCEPT !.at = at]
<1>3. req' = [req EXCEPT ![r] = x]
  BY <1>1 DEF Goes
<1>4. RequestOK(r) /\ SawOK(r)
  BY DEF JInv, RequestsOK, RequestOK
<1>5. /\ x.at = at /\ x.known = req[r].known /\ x.agreed = req[r].agreed
      /\ x.opts = req[r].opts /\ x.blind = req[r].blind /\ x.saw = req[r].saw
      /\ DOMAIN x = DOMAIN req[r]
  BY <1>0, <1>4 DEF SawOK, Fields, Underway
<1> HIDE DEF x
<1>6. req'[r] = x /\ (Met(r)' <=> Met(r))
  BY <1>3 DEF JInv, RequestsOK, Met
<1>7. /\ refs'.mine = refs.mine /\ refs'.head = refs.head /\ refs'.base = refs.base
      /\ refs'.main = refs.main
      /\ refs'.copy \in {refs.copy, Gone} /\ refs'.theirs \in {refs.theirs, Gone}
      /\ refs' = refs \/ refs.theirs = refs.copy
  BY <1>0 DEF JInv, IInv, TypeOK, LeaseHolds
<1>8. Kept' = Kept /\ Landed' = Landed
  BY <1>0, <1>7 DEF Kept, Apart, Landed
<1>9. IInv' /\ NumbersOK' /\ LinesOK'
  <2>1. IInv'
    BY RemovalOK DEF JInv, Removal
  <2>2. NumbersOK' /\ LinesOK'
    BY <1>0, <1>2, <1>7 DEF JInv, NumbersOK, LinesOK, Gone
  <2> QED BY <2>1, <2>2
<1>10. PlaceOK'
  <2>1. \A q \in Requests : req[q].at = "removed" => req'[q].at = "removed"
    BY <1>0, <1>3 DEF JInv, RequestsOK
  <2> QED BY <1>0, <1>7, <2>1 DEF JInv, PlaceOK
<1>11. Grows /\ Spares
  BY <1>0, <1>7, <1>8 DEF JInv, IInv, TypeOK, Grows, Spares
<1>12. WorkOK(r)'
  BY <1>0, <1>5, <1>6, <1>11, WorkMoves DEF Underway
<1>13. PageOK(r)' /\ SawOK(r)'
  BY <1>0, <1>4, <1>5, <1>6 DEF PageOK, SawOK, Underway
<1>14. LossAgreed'
  <2> SUFFICES ASSUME NEW c \in Held(wt, refs) \ Held(wt', refs') PROVE Excused(r, c)
    BY <1>0, LossStep DEF JInv
  <2>1. /\ c \in refs.copy /\ c \notin Kept /\ c \notin Landed /\ c # Root
    BY <1>0, <1>7 DEF Held, Kept, Apart, Landed, JInv, LinesOK, IInv, IdsHeld
  <2>2. c \in Here
    BY <2>1 DEF Here
  <2>3. Place(c) # "changes"
    BY <2>1 DEF Place, Kept
  <2>4. ~Met(r) => req[r].known \subseteq req[r].agreed \cup Kept \cup Landed
    BY <1>0, <1>4 DEF RequestOK, WorkOK, SawOK, Underway
  <2> QED BY <2>1, <2>2, <2>3, <2>4 DEF Excused
<1> QED BY <1>0, <1>1, <1>2, <1>3, <1>5, <1>9, <1>10, <1>11, <1>12, <1>13, <1>14,
     RequestStep DEF RequestOK

LEMMA RemovesTreeKeeps == ASSUME JInv, NEW r \in Requests, RemovesTree(r) PROVE JInv'
<1>0. req[r].at = "tree" /\ RequestOK(r) /\ UNCHANGED <<refs, made, form, left>>
  BY DEF RemovesTree, On, Inside, JInv, RequestsOK
<1>1. CASE Refusal(req[r]) # "none"
  <2>1. Refuses(r, req[r].cost, Refusal(req[r])) /\ Idles
    BY <1>0, <1>1 DEF RemovesTree, Idles, JInv, LeftOK
  <2>2. Refusal(req[r]) \in {"locked", "changed", "gone"}
    <3>1. req[r].opts.force \/ req[r].saw = {}
      BY <1>0 DEF RequestOK, SawOK, Underway
    <3> QED BY <1>1, <3>1 DEF Refusal
  <2> QED BY <1>0, <2>1, <2>2, RefusesKeeps DEF Underway
<1>2. CASE Refusal(req[r]) = "none"
  <2>1. wt' = NoTree(wt) /\ Goes(r, "branch") /\ Takes(r)
    BY <1>2 DEF RemovesTree
  <2>2. wt.edits = {} \/ req[r].opts.force
    BY <1>2 DEF Refusal
  <2>3. wt'.there = FALSE /\ wt'.edits = {} /\ wt'.tip = Gone /\ wt'.on = FALSE
    BY <2>1 DEF NoTree, JInv, IInv, TypeOK
  <2> DEFINE x == [req[r] EXCEPT !.at = "branch"]
  <2>4. req' = [req EXCEPT ![r] = x]
    BY <2>1 DEF Goes
  <2>5. /\ x.at = "branch" /\ x.known = req[r].known /\ x.agreed = req[r].agreed
        /\ x.opts = req[r].opts /\ x.blind = req[r].blind
        /\ DOMAIN x = DOMAIN req[r]
    BY <1>0 DEF RequestOK, SawOK, Fields, Underway
  <2> HIDE DEF x
  <2>6. req'[r] = x /\ (Met(r)' <=> Met(r))
    BY <2>4 DEF JInv, RequestsOK, Met
  <2>7. IInv'
    BY RemovalOK DEF JInv, Removal
  <2>8. NumbersOK' /\ LinesOK' /\ LeftOK'
    BY <1>0, <2>3 DEF JInv, NumbersOK, LinesOK, LeftOK, Gone
  <2>9. PlaceOK'
    BY <1>0, <2>3 DEF JInv, PlaceOK
  <2>10. Grows
    BY <1>0, <2>3 DEF JInv, IInv, TypeOK, Grows
  <2>11. RequestOK(r)'
    <3>1. WorkOK(r)'
      BY <1>0, <2>3, <2>5, <2>6 DEF RequestOK, WorkOK, Underway, Landed
    <3>2. PageOK(r)' /\ SawOK(r)'
      BY <1>0, <2>5, <2>6 DEF RequestOK, PageOK, SawOK, Underway
    <3> QED BY <3>1, <3>2 DEF RequestOK
  <2>12. LossAgreed'
    <3> SUFFICES ASSUME NEW c \in Held(wt, refs) \ Held(wt', refs') PROVE Excused(r, c)
      BY <2>1, LossStep DEF JInv
    <3>1. c \notin refs.mine /\ c \notin refs.theirs /\ (c \in wt.edits \/ c \in wt.tip)
      BY <1>0 DEF Held
    <3>2. CASE c \in wt.edits
      <4>1. c # Root /\ c \in Here
        BY <3>2 DEF Here, Root, JInv, NumbersOK, IInv, TypeOK
      <4>2. req[r].known \cap wt.edits \subseteq req[r].agreed
        BY <1>0, <2>2, <3>2 DEF RequestOK, WorkOK, Underway
      <4> QED BY <3>2, <4>1, <4>2 DEF Excused
    <3>3. CASE c \notin wt.edits
      BY <3>1, <3>3 DEF Excused, Place
    <3> QED BY <3>2, <3>3
  <2> QED BY <1>0, <2>4, <2>5, <2>7, <2>8, <2>9, <2>10, <2>11, <2>12, RequestStep
<1> QED BY <1>1, <1>2

LEMMA DeletesBranchKeeps == ASSUME JInv, NEW r \in Requests, DeletesBranch(r) PROVE JInv'
<1> DEFINE x == [at |-> "removed"]
<1>0. /\ req[r].at = "branch" /\ RequestOK(r) /\ Takes(r)
      /\ UNCHANGED <<wt, made, form, left>> /\ req' = [req EXCEPT ![r] = x] /\ x.at = "removed"
  BY DEF DeletesBranch, On, Inside, JInv, RequestsOK
<1> HIDE DEF x
<1>1. \/ refs' = refs
      \/ /\ refs' = [refs EXCEPT !.mine = Gone, !.upstream = "none"]
         /\ req[r].opts.branch /\ BranchGoes(req[r].opts.force)
  BY DEF DeletesBranch
<1>2. /\ refs'.mine \in {refs.mine, Gone} /\ refs'.copy = refs.copy /\ refs'.theirs = refs.theirs
      /\ refs'.head = refs.head /\ refs'.base = refs.base /\ refs'.main = refs.main
  BY <1>1 DEF JInv, IInv, TypeOK
<1>3. req'[r] = x
  BY <1>0 DEF JInv, RequestsOK
<1>4. IInv'
  BY RemovalOK DEF JInv, Removal
<1>5. LeftOK' /\ NumbersOK' /\ LinesOK'
  BY <1>0, <1>2 DEF JInv, LeftOK, NumbersOK, LinesOK, Gone
<1>6. PlaceOK'
  <2>1. \E q \in Requests : req'[q].at = "removed"
    BY <1>0, <1>3
  <2> QED BY <1>0, <1>2, <2>1 DEF JInv, PlaceOK, Gone
<1>7. Grows
  BY <1>0 DEF JInv, IInv, TypeOK, Grows
<1>8. RequestOK(r)'
  BY <1>0, <1>3 DEF RequestOK, PageOK, WorkOK, SawOK, Underway
<1>9. LossAgreed'
  <2> SUFFICES ASSUME NEW c \in Held(wt, refs) \ Held(wt', refs') PROVE Excused(r, c)
    BY <1>0, LossStep DEF JInv
  <2>1. c \in refs.mine /\ c \notin wt.edits /\ c \notin refs.copy /\ c \notin Landed /\ refs' # refs
    BY <1>0, <1>2 DEF Held, Landed
  <2>2. c # Root /\ c \in Here /\ Place(c) # "changes"
    BY <2>1 DEF JInv, LinesOK, IInv, IdsHeld, Landed, Here, Place
  <2>3. req[r].opts.branch /\ BranchGoes(req[r].opts.force)
    BY <1>1, <2>1
  <2>4. req[r].opts.force
    BY <2>1, <2>3 DEF BranchGoes, MergedInto, Landed, JInv, IInv, IdsHeld
  <2>5. ~Met(r) /\ ~req[r].blind => req[r].known \cap refs.mine \subseteq req[r].agreed \cup Landed
    BY <1>0, <2>3, <2>4 DEF RequestOK, WorkOK, Underway
  <2> QED BY <2>1, <2>2, <2>5 DEF Excused
<1> QED BY <1>0, <1>4, <1>5, <1>6, <1>7, <1>8, <1>9, RequestStep

LEMMA RemovalKeeps == ASSUME JInv, NEW r \in Requests, Removal(r) PROVE JInv'
BY ResolvesKeeps, ChecksKeeps, TargetsKeeps, PushedKeeps, StandsKeeps, KillsKeeps, RemovesTreeKeeps,
   DeletesBranchKeeps DEF Removal

LEMMA StutterKeeps == ASSUME JInv, UNCHANGED vars PROVE JInv'
<1>1. /\ wt' = wt /\ refs' = refs /\ git' = git /\ made' = made /\ form' = form /\ req' = req
      /\ taken' = taken /\ left' = left
  BY DEF vars
<1>2. IInv' /\ LeftOK' /\ NumbersOK' /\ LinesOK'
  BY <1>1 DEF JInv, IInv, TypeOK, IdsHeld, UnforcedKeepsMine, LeftOK, NumbersOK, LinesOK
<1>3. PlaceOK' /\ LossAgreed' /\ RefusalCostsNothing'
  BY <1>1 DEF JInv, PlaceOK, LossAgreed, RefusalCostsNothing
<1>4. RequestsOK'
  <2> SUFFICES ASSUME NEW r \in Requests PROVE RequestOK(r)'
    BY <1>1 DEF JInv, RequestsOK
  <2>1. RequestOK(r) /\ (Met(r)' <=> Met(r)) /\ Kept' = Kept /\ Landed' = Landed
    BY <1>1 DEF JInv, RequestsOK, Met, Kept, Apart, Landed
  <2>2. PageOK(r)'
    BY <1>1, <2>1 DEF RequestOK, PageOK
  <2>3. WorkOK(r)'
    BY <1>1, <2>1 DEF RequestOK, WorkOK
  <2>4. SawOK(r)'
    BY <1>1, <2>1 DEF RequestOK, SawOK
  <2> QED BY <2>2, <2>3, <2>4 DEF RequestOK
<1> QED BY <1>2, <1>3, <1>4 DEF JInv

LEMMA JInvHolds == Spec => []JInv
<1>1. JInv /\ [Next]_vars => JInv'
  <2> SUFFICES ASSUME JInv, [Next]_vars PROVE JInv'
    OBVIOUS
  <2>1. CASE Agent
    BY <2>1, AgentKeeps
  <2>2. CASE Remote
    BY <2>2, RemoteKeeps
  <2>3. CASE Creation
    BY <2>3, CreationKeeps
  <2>4. ASSUME NEW r \in Requests, Page(r) \/ Removal(r) PROVE JInv'
    BY <2>4, PageKeeps, RemovalKeeps
  <2>5. CASE UNCHANGED vars
    BY <2>5, StutterKeeps
  <2> QED BY <2>1, <2>2, <2>3, <2>4, <2>5 DEF Next
<1> QED BY JInit, <1>1, PTL DEF Spec

\* Whatever two pages ask for at once, and whatever is written, committed,
\* pushed, fetched, merged or deleted between a page's snapshot and each step
\* of its removal, removeWorktree destroys nothing that this machine knew of
\* and the dialog's boxes did not name, the named exceptions apart.
THEOREM LossAgreedHolds == Spec => []LossAgreed
<1>1. JInv => LossAgreed
  BY DEF JInv
<1> QED BY JInvHolds, <1>1, PTL

\* A removal that removeWorktree refuses, at its own check, at the remote or
\* at git's, has stopped no session, but for the three refusals of git that
\* come after killSessionsFor.
THEOREM RefusalCostsNothingHolds == Spec => []RefusalCostsNothing
<1>1. JInv => RefusalCostsNothing
  BY DEF JInv
<1> QED BY JInvHolds, <1>1, PTL


-----------------------------------------------------------------------------
(***************************************************************************)
(* The attention of a Claude: least and greatest of numbers first.         *)
(***************************************************************************)

\* A set of numbers that is not empty has a least.
LEMMA LeastExists ==
  ASSUME NEW T, T \subseteq Nat, T # {}
  PROVE  \E x \in T : \A y \in T : x <= y
<1>1. \E x \in T : \A y \in T : ~(<<y, x>> \in OpToRel(<, Nat))
  BY NatLessThanWellFounded, WFMin
<1>2. \A x, y \in T : ~(<<y, x>> \in OpToRel(<, Nat)) => x <= y
  BY DEF OpToRel
<1> QED BY <1>1, <1>2

\* A set of numbers up to n has a greatest.
LEMMA MaxOf ==
  ASSUME NEW S \in SUBSET Nat, S # {}, NEW n \in Nat, \A x \in S : x <= n
  PROVE  Max(S) \in S /\ \A x \in S : x <= Max(S)
<1> DEFINE T == {n - x : x \in S}
<1>1. T \subseteq Nat /\ T # {}
  <2>1. \A x \in S : n - x \in Nat
    OBVIOUS
  <2> QED BY <2>1
<1>2. PICK t \in T : \A u \in T : t <= u
  <2> HIDE DEF T
  <2> QED BY <1>1, LeastExists
<1>3. PICK m \in S : t = n - m
  BY <1>2
<1>4. \A x \in S : m >= x
  <2>1. \A x \in S : n - x \in T
    OBVIOUS
  <2>2. \A x \in S : n - m <= n - x /\ x \in Nat /\ m \in Nat
    BY <1>2, <1>3, <2>1
  <2> QED BY <2>2
<1>5. Max(S) \in S /\ \A x \in S : Max(S) >= x
  BY <1>4 DEF Max
<1> QED BY <1>5

\* What is greatest is told by being so.
LEMMA MaxIs ==
  ASSUME NEW S \in SUBSET Nat, NEW m \in S, \A x \in S : x <= m
  PROVE  Max(S) = m
<1>1. m \in Nat /\ S # {}
  OBVIOUS
<1>2. Max(S) \in S /\ \A x \in S : x <= Max(S)
  BY <1>1, MaxOf
<1>3. Max(S) <= m /\ m <= Max(S) /\ Max(S) \in Nat
  BY <1>2
<1> QED BY <1>1, <1>3

-----------------------------------------------------------------------------
(***************************************************************************)
(* The prompts of some lines.                                              *)
(***************************************************************************)

PromptStep(lines, from, n, s) ==
  IF n <= from THEN <<>> ELSE IF lines[n] \in Prompts THEN Append(s, n) ELSE s

UpTo(lines, from, n, g) ==
  g \in [0 .. n -> Seq(Nat)] /\ \A i \in 0 .. n : g[i] = PromptStep(lines, from, i, g[i - 1])

LEMMA UpToExists ==
  ASSUME NEW lines, NEW from \in Nat
  PROVE  \A n \in Nat : \E g : UpTo(lines, from, n, g)
<1> DEFINE T == {n \in Nat : ~\E g : UpTo(lines, from, n, g)}
<1> SUFFICES ASSUME T # {} PROVE FALSE
  OBVIOUS
<1>0. T \subseteq Nat
  OBVIOUS
<1>1. PICK n \in T : \A m \in T : n <= m
  <2> HIDE DEF T
  <2> QED BY <1>0, LeastExists
<1>2. CASE n = 0
  <2> DEFINE g == [i \in 0 .. 0 |-> <<>>]
  <2>1. g \in [0 .. 0 -> Seq(Nat)]
    OBVIOUS
  <2>2. \A i \in 0 .. 0 : g[i] = PromptStep(lines, from, i, g[i - 1])
    BY DEF PromptStep
  <2> HIDE DEF g
  <2>3. UpTo(lines, from, 0, g)
    BY <2>1, <2>2 DEF UpTo
  <2> QED BY <1>1, <1>2, <2>3
<1>3. CASE n # 0
  <2>1. n \in Nat /\ n - 1 \in Nat /\ n - 1 \notin T
    BY <1>1, <1>3
  <2>2. PICK g : UpTo(lines, from, n - 1, g)
    BY <2>1
  <2> DEFINE h == [i \in 0 .. n |-> IF i = n THEN PromptStep(lines, from, n, g[n - 1]) ELSE g[i]]
  <2>3. g \in [0 .. n - 1 -> Seq(Nat)] /\ \A i \in 0 .. n - 1 : g[i] = PromptStep(lines, from, i, g[i - 1])
    BY <2>2 DEF UpTo
  <2>4. n - 1 \in 0 .. n - 1 /\ \A i \in 0 .. n : i # n => i \in 0 .. n - 1
    BY <1>3, <2>1
  <2>5. PromptStep(lines, from, n, g[n - 1]) \in Seq(Nat)
    BY <2>1, <2>3, <2>4 DEF PromptStep
  <2>6. h \in [0 .. n -> Seq(Nat)]
    BY <2>3, <2>4, <2>5
  <2>7. ASSUME NEW i \in 0 .. n PROVE h[i] = PromptStep(lines, from, i, h[i - 1])
    <3>1. CASE i = n
      <4>1. h[n] = PromptStep(lines, from, n, g[n - 1]) /\ h[n - 1] = g[n - 1]
        BY <2>1, <2>4
      <4> QED BY <3>1, <4>1
    <3>2. CASE i = 0 /\ i # n
      <4>1. h[0] = g[0] /\ g[0] = PromptStep(lines, from, 0, g[0 - 1])
        BY <2>3, <2>4, <3>2
      <4> QED BY <3>2, <4>1 DEF PromptStep
    <3>3. CASE i # 0 /\ i # n
      <4>1. i \in 0 .. n - 1 /\ i - 1 \in 0 .. n - 1 /\ i - 1 # n
        BY <2>1, <3>3
      <4>2. h[i] = g[i] /\ h[i - 1] = g[i - 1]
        BY <2>1, <3>3, <4>1
      <4> QED BY <2>3, <4>1, <4>2
    <3> QED BY <3>1, <3>2, <3>3
  <2> HIDE DEF h
  <2>8. UpTo(lines, from, n, h)
    BY <2>6, <2>7 DEF UpTo
  <2> QED BY <1>1, <2>8
<1> QED BY <1>2, <1>3

LEMMA UpToAgree ==
  ASSUME NEW lines, NEW from \in Nat, NEW m \in Nat, NEW n \in Nat, NEW g, NEW h,
         UpTo(lines, from, m, g), UpTo(lines, from, n, h), NEW k \in Nat, k <= m, k <= n
  PROVE  g[k] = h[k]
<1> DEFINE T == {i \in 0 .. k : g[i] # h[i]}
<1> SUFFICES ASSUME T # {} PROVE FALSE
  OBVIOUS
<1>0. T \subseteq Nat
  OBVIOUS
<1>1. PICK i \in T : \A j \in T : i <= j
  <2> HIDE DEF T
  <2> QED BY <1>0, LeastExists
<1>2. i \in Nat /\ i <= m /\ i <= n /\ g[i] # h[i]
  BY <1>1
<1>3. g[i] = PromptStep(lines, from, i, g[i - 1]) /\ h[i] = PromptStep(lines, from, i, h[i - 1])
  BY <1>2 DEF UpTo
<1>4. i # 0
  BY <1>2, <1>3 DEF PromptStep
<1>5. i - 1 \in 0 .. k /\ i - 1 \notin T
  BY <1>1, <1>4
<1> QED BY <1>2, <1>3, <1>5

LEMMA PromptsGrow ==
  ASSUME NEW lines, NEW from \in Nat, NEW n \in Nat
  PROVE  /\ PromptsIn(lines, from, n) \in Seq(Nat)
         /\ n <= from => PromptsIn(lines, from, n) = <<>>
         /\ n > from => PromptsIn(lines, from, n) =
              IF lines[n] \in Prompts THEN Append(PromptsIn(lines, from, n - 1), n)
              ELSE PromptsIn(lines, from, n - 1)
<1> DEFINE G(k) == CHOOSE g : UpTo(lines, from, k, g)
           F == [k \in Nat |-> G(k)[k]]
           P == CHOOSE f : f = [k \in Nat |->
                  IF k <= from THEN <<>> ELSE IF lines[k] \in Prompts THEN Append(f[k - 1], k) ELSE f[k - 1]]
<1>1. \A k \in Nat : UpTo(lines, from, k, G(k))
  BY UpToExists
<1>2. ASSUME NEW k \in Nat PROVE F[k] \in Seq(Nat) /\ F[k] = PromptStep(lines, from, k, F[k - 1])
  <2>1. UpTo(lines, from, k, G(k))
    BY <1>1
  <2> HIDE DEF G
  <2>2. k \in 0 .. k /\ G(k)[k] \in Seq(Nat) /\ G(k)[k] = PromptStep(lines, from, k, G(k)[k - 1])
    BY <2>1 DEF UpTo
  <2>3. CASE k = 0
    <3>1. k <= from /\ F[k] = G(k)[k]
      BY <2>3
    <3> HIDE DEF F
    <3> QED BY <2>2, <3>1 DEF PromptStep
  <2>4. CASE k # 0
    <3>1. k - 1 \in Nat /\ k - 1 <= k
      BY <2>4
    <3>2. UpTo(lines, from, k - 1, G(k - 1))
      BY <1>1, <3>1
    <3>3. G(k)[k - 1] = G(k - 1)[k - 1]
      BY <2>1, <3>1, <3>2, UpToAgree
    <3> QED BY <2>2, <3>1, <3>3
  <2> QED BY <2>3, <2>4
<1>3. F = [k \in Nat |->
         IF k <= from THEN <<>> ELSE IF lines[k] \in Prompts THEN Append(F[k - 1], k) ELSE F[k - 1]]
  <2> DEFINE H == [k \in Nat |->
         IF k <= from THEN <<>> ELSE IF lines[k] \in Prompts THEN Append(F[k - 1], k) ELSE F[k - 1]]
  <2>1. \A k \in Nat : F[k] = H[k]
    <3> HIDE DEF F
    <3> QED BY <1>2 DEF PromptStep
  <2>2. F = [k \in Nat |-> F[k]] /\ H = [k \in Nat |-> H[k]]
    OBVIOUS
  <2> QED BY <2>1
<1>4. P = [k \in Nat |->
         IF k <= from THEN <<>> ELSE IF lines[k] \in Prompts THEN Append(P[k - 1], k) ELSE P[k - 1]]
  <2> HIDE DEF F
  <2> QED BY <1>3
<1>5. \A k \in Nat : PromptsIn(lines, from, k) = P[k]
  BY DEF PromptsIn
<1> HIDE DEF P
<1>6. \A k \in Nat : P[k] = PromptStep(lines, from, k, P[k - 1])
  BY <1>4 DEF PromptStep
<1>7. P[n] \in Seq(Nat)
  <2> DEFINE T == {k \in Nat : P[k] \notin Seq(Nat)}
  <2> SUFFICES ASSUME T # {} PROVE FALSE
    OBVIOUS
  <2>0. T \subseteq Nat
    OBVIOUS
  <2>1. PICK k \in T : \A j \in T : k <= j
    <3> HIDE DEF T
    <3> QED BY <2>0, LeastExists
  <2>2. k \in Nat /\ P[k] \notin Seq(Nat) /\ P[k] = PromptStep(lines, from, k, P[k - 1])
    BY <1>6, <2>1
  <2>3. ~(k <= from)
    BY <2>2 DEF PromptStep
  <2>4. k - 1 \in Nat /\ k - 1 \notin T
    BY <2>1, <2>2, <2>3
  <2>5. P[k - 1] \in Seq(Nat)
    BY <2>4
  <2> HIDE DEF T
  <2>6. Append(P[k - 1], k) \in Seq(Nat)
    BY <2>2, <2>5
  <2> QED BY <2>2, <2>5, <2>6 DEF PromptStep
<1>8. n > from => n - 1 \in Nat
  OBVIOUS
<1>9. P[n] = PromptStep(lines, from, n, P[n - 1]) /\ PromptsIn(lines, from, n) = P[n]
  BY <1>5, <1>6
<1>10. n > from => PromptsIn(lines, from, n - 1) = P[n - 1]
  BY <1>5, <1>8
<1> QED BY <1>7, <1>9, <1>10 DEF PromptStep

LEMMA PromptsNone ==
  ASSUME NEW lines, NEW from \in Nat, NEW n \in Nat, n <= from
  PROVE  PromptsIn(lines, from, n) = <<>>
BY PromptsGrow

\* They are places of lines up to n.
LEMMA PromptsPlaced ==
  ASSUME NEW lines, NEW from \in Nat, NEW n \in Nat
  PROVE  PromptsIn(lines, from, n) \in Seq(1 .. n)
<1> DEFINE T == {k \in 0 .. n : PromptsIn(lines, from, k) \notin Seq(1 .. n)}
<1> SUFFICES ASSUME T # {} PROVE FALSE
  OBVIOUS
<1>0. T \subseteq Nat
  OBVIOUS
<1>1. PICK k \in T : \A j \in T : k <= j
  <2> HIDE DEF T
  <2> QED BY <1>0, LeastExists
<1>2. k \in Nat /\ k <= n /\ PromptsIn(lines, from, k) \notin Seq(1 .. n)
  BY <1>1
<1>3. <<>> \in Seq(1 .. n)
  OBVIOUS
<1>4. k > from
  <2> SUFFICES ASSUME k <= from PROVE FALSE
    BY <1>2
  <2>1. PromptsIn(lines, from, k) = <<>>
    BY <1>2, PromptsNone
  <2> QED BY ONLY <1>2, <1>3, <2>1
<1>5. k - 1 \in 0 .. n /\ k - 1 \notin T /\ k \in 1 .. n
  BY <1>1, <1>2, <1>4
<1>6. PromptsIn(lines, from, k - 1) \in Seq(1 .. n)
  BY <1>5
<1>7. Append(PromptsIn(lines, from, k - 1), k) \in Seq(1 .. n)
  BY <1>5, <1>6
<1> QED BY <1>2, <1>4, <1>6, <1>7, PromptsGrow

\* Those up to a place, and those after it.
LEMMA PromptsJoin ==
  ASSUME NEW lines, NEW from \in Nat, NEW mid \in Nat, NEW n \in Nat, from <= mid, mid <= n
  PROVE  PromptsIn(lines, from, n) = PromptsIn(lines, from, mid) \o PromptsIn(lines, mid, n)
<1> DEFINE A == PromptsIn(lines, from, mid)
           OK(k) == PromptsIn(lines, from, k) = A \o PromptsIn(lines, mid, k)
           T == {k \in Nat : mid <= k /\ ~OK(k)}
<1> SUFFICES ASSUME T # {} PROVE FALSE
  OBVIOUS
<1>0. T \subseteq Nat
  OBVIOUS
<1>1. PICK k \in T : \A j \in T : k <= j
  <2> HIDE DEF T
  <2> QED BY <1>0, LeastExists
<1>2. k \in Nat /\ mid <= k /\ ~OK(k)
  BY <1>1
<1>3. A \in Seq(Nat)
  BY PromptsGrow
<1> HIDE DEF A
<1>4. k # mid
  <2>1. PromptsIn(lines, mid, mid) = <<>>
    BY PromptsNone
  <2>2. A \o <<>> = A
    BY <1>3
  <2> QED BY <1>2, <2>1, <2>2 DEF A
<1>5. k - 1 \in Nat /\ mid <= k - 1 /\ k > mid /\ k > from
  BY <1>2, <1>4
<1>6. k - 1 \notin T
  BY <1>1, <1>5
<1>7. OK(k - 1)
  BY <1>5, <1>6
<1>8. PromptsIn(lines, mid, k - 1) \in Seq(Nat)
  BY <1>5, PromptsGrow
<1>9. Append(A \o PromptsIn(lines, mid, k - 1), k) = A \o Append(PromptsIn(lines, mid, k - 1), k)
  <2> DEFINE B == PromptsIn(lines, mid, k - 1)
  <2>1. B \in Seq(Nat) /\ k \in Nat /\ A \in Seq(Nat)
    BY <1>2, <1>3, <1>8
  <2> HIDE DEF B
  <2>2. A \o B \in Seq(Nat) /\ <<k>> \in Seq(Nat)
    BY <2>1
  <2>3. Append(A \o B, k) = (A \o B) \o <<k>> /\ Append(B, k) = B \o <<k>>
    BY <2>1, <2>2, AppendIsConcat
  <2>4. (A \o B) \o <<k>> = A \o (B \o <<k>>)
    BY <2>1, <2>2, ConcatAssociative
  <2> QED BY <2>3, <2>4 DEF B
<1>10. /\ PromptsIn(lines, from, k) = IF lines[k] \in Prompts THEN Append(PromptsIn(lines, from, k - 1), k)
                                     ELSE PromptsIn(lines, from, k - 1)
       /\ PromptsIn(lines, mid, k) = IF lines[k] \in Prompts THEN Append(PromptsIn(lines, mid, k - 1), k)
                                     ELSE PromptsIn(lines, mid, k - 1)
  BY <1>2, <1>5, PromptsGrow
<1> QED BY <1>2, <1>7, <1>9, <1>10

\* Lines that come after n are none of them.
LEMMA PromptsSame ==
  ASSUME NEW lines, NEW more, NEW from \in Nat, NEW n \in Nat, \A i \in 1 .. n : lines[i] = more[i]
  PROVE  PromptsIn(lines, from, n) = PromptsIn(more, from, n)
<1> DEFINE T == {k \in 0 .. n : PromptsIn(lines, from, k) # PromptsIn(more, from, k)}
<1> SUFFICES ASSUME T # {} PROVE FALSE
  OBVIOUS
<1>0. T \subseteq Nat
  OBVIOUS
<1>1. PICK k \in T : \A j \in T : k <= j
  <2> HIDE DEF T
  <2> QED BY <1>0, LeastExists
<1>2. k \in Nat /\ k <= n /\ PromptsIn(lines, from, k) # PromptsIn(more, from, k)
  BY <1>1
<1>3. k > from
  BY <1>2, PromptsGrow
<1>4. k - 1 \in 0 .. n /\ k \in 1 .. n /\ k - 1 \notin T
  BY <1>1, <1>2, <1>3
<1>5. PromptsIn(lines, from, k - 1) = PromptsIn(more, from, k - 1) /\ lines[k] = more[k]
  BY <1>4
<1> QED BY <1>2, <1>3, <1>5, PromptsGrow

LEMMA RecordedFacts ==
  ASSUME NEW lines, NEW from \in Nat, NEW n \in Nat
  PROVE  /\ Recorded(lines, from, n) \in {None} \cup {i \in (from + 1) .. n : lines[i] = "stamp"}
         /\ \A i \in (from + 1) .. n : lines[i] = "stamp" => i <= Recorded(lines, from, n)
<1> DEFINE S == {None} \cup {i \in (from + 1) .. n : lines[i] = "stamp"}
<1>1. S \in SUBSET Nat /\ S # {} /\ \A x \in S : x <= n
  BY DEF None
<1>2. Recorded(lines, from, n) = Max(S)
  BY DEF Recorded
<1> HIDE DEF S
<1>3. Max(S) \in S /\ \A x \in S : x <= Max(S)
  BY <1>1, MaxOf
<1> QED BY <1>2, <1>3 DEF S

LEMMA RecordedJoin ==
  ASSUME NEW lines, NEW from \in Nat, NEW mid \in Nat, NEW n \in Nat, from <= mid, mid <= n
  PROVE  Recorded(lines, from, n) =
           IF Recorded(lines, mid, n) = None THEN Recorded(lines, from, mid) ELSE Recorded(lines, mid, n)
<1> DEFINE a == Recorded(lines, from, mid)
           b == Recorded(lines, mid, n)
           c == Recorded(lines, from, n)
<1>1. /\ a \in {None} \cup {i \in (from + 1) .. mid : lines[i] = "stamp"}
      /\ \A i \in (from + 1) .. mid : lines[i] = "stamp" => i <= a
  BY RecordedFacts
<1>2. /\ b \in {None} \cup {i \in (mid + 1) .. n : lines[i] = "stamp"}
      /\ \A i \in (mid + 1) .. n : lines[i] = "stamp" => i <= b
  BY RecordedFacts
<1>3. /\ c \in {None} \cup {i \in (from + 1) .. n : lines[i] = "stamp"}
      /\ \A i \in (from + 1) .. n : lines[i] = "stamp" => i <= c
  BY RecordedFacts
<1> HIDE DEF a, b, c
<1>4. CASE b = None
  <2>1. \A i \in (mid + 1) .. n : lines[i] # "stamp"
    BY <1>2, <1>4 DEF None
  <2>2. c \in {None} \cup {i \in (from + 1) .. mid : lines[i] = "stamp"}
    BY <1>3, <2>1
  <2>3. a \in {None} \cup {i \in (from + 1) .. n : lines[i] = "stamp"}
    BY <1>1
  <2>4. a <= c /\ c <= a /\ a \in Nat /\ c \in Nat
    BY <1>1, <1>3, <2>2, <2>3 DEF None
  <2>5. a = c
    BY <2>4
  <2> QED BY <1>4, <2>5 DEF a, b, c
<1>5. CASE b # None
  <2>1. b \in (mid + 1) .. n /\ lines[b] = "stamp"
    BY <1>2, <1>5
  <2>2. b <= c /\ c \in (from + 1) .. n /\ lines[c] = "stamp"
    BY <1>3, <2>1 DEF None
  <2>3. c \in (mid + 1) .. n
    BY <2>1, <2>2
  <2>4. c <= b
    BY <1>2, <2>2, <2>3
  <2>5. b = c
    BY <2>1, <2>2, <2>4
  <2> QED BY <1>5, <2>5 DEF a, b, c
<1> QED BY <1>4, <1>5

LEMMA RecordedSame ==
  ASSUME NEW lines, NEW more, NEW from \in Nat, NEW n \in Nat, \A i \in 1 .. n : lines[i] = more[i]
  PROVE  Recorded(lines, from, n) = Recorded(more, from, n)
<1>1. {i \in (from + 1) .. n : lines[i] = "stamp"} = {i \in (from + 1) .. n : more[i] = "stamp"}
  OBVIOUS
<1> QED BY <1>1 DEF Recorded

-----------------------------------------------------------------------------
(***************************************************************************)
(* Folding what is new onto what was known is folding all of it.           *)
(***************************************************************************)

After(s, n) == SubSeq(s, n + 1, Len(s))
Dropped(f) == Max({0, Len(f) - FollowUpsMax})
Keep(f) == After(f, Dropped(f))

LEMMA AfterFacts ==
  ASSUME NEW s \in Seq(Nat), NEW n \in 0 .. Len(s)
  PROVE  /\ After(s, n) \in Seq(Nat) /\ Len(After(s, n)) = Len(s) - n
         /\ \A i \in 1 .. Len(s) - n : After(s, n)[i] = s[n + i]
  BY DEF After

LEMMA AfterNone ==
  ASSUME NEW s \in Seq(Nat)
  PROVE  After(s, 0) = s
<1>1. /\ After(s, 0) \in Seq(Nat) /\ Len(After(s, 0)) = Len(s)
      /\ \A i \in 1 .. Len(s) : After(s, 0)[i] = s[i]
  <2>1. 0 \in 0 .. Len(s)
    OBVIOUS
  <2> QED BY <2>1, AfterFacts
<1> QED BY <1>1, SeqEqual

LEMMA AfterFirst ==
  ASSUME NEW s \in Seq(Nat), NEW t \in Seq(Nat), NEW n \in 0 .. Len(s)
  PROVE  After(s \o t, n) = After(s, n) \o t
<1> DEFINE a == After(s, n)
           l == After(s \o t, n)
           r == a \o t
<1>1. s \o t \in Seq(Nat) /\ Len(s \o t) = Len(s) + Len(t) /\ n \in 0 .. Len(s \o t) /\ Len(s) \in Nat /\ Len(t) \in Nat
  OBVIOUS
<1>2. /\ l \in Seq(Nat) /\ Len(l) = Len(s \o t) - n
      /\ \A i \in 1 .. Len(s \o t) - n : l[i] = (s \o t)[n + i]
  BY <1>1, AfterFacts
<1>3. /\ a \in Seq(Nat) /\ Len(a) = Len(s) - n
      /\ \A i \in 1 .. Len(s) - n : a[i] = s[n + i]
  BY AfterFacts
<1> HIDE DEF a, l
<1>0. /\ r \in Seq(Nat) /\ Len(r) = Len(a) + Len(t)
      /\ \A i \in 1 .. Len(a) + Len(t) : r[i] = IF i <= Len(a) THEN a[i] ELSE t[i - Len(a)]
  BY <1>3, ConcatProperties
<1> HIDE DEF r
<1>4. Len(r) = Len(l)
  BY <1>0, <1>1, <1>2, <1>3
<1>5. ASSUME NEW i \in 1 .. Len(l) PROVE l[i] = r[i]
  <2>1. i \in 1 .. Len(s) + Len(t) - n /\ l[i] = (s \o t)[n + i]
    BY <1>1, <1>2
  <2>2. CASE i <= Len(s) - n
    <3>1. r[i] = a[i] /\ a[i] = s[n + i] /\ (s \o t)[n + i] = s[n + i]
      BY <1>0, <1>1, <1>3, <2>1, <2>2
    <3> QED BY <2>1, <3>1
  <2>3. CASE ~(i <= Len(s) - n)
    <3>1. r[i] = t[i - (Len(s) - n)]
      <4>1. i \in 1 .. Len(a) + Len(t) /\ ~(i <= Len(a)) /\ i - Len(a) = i - (Len(s) - n)
        BY <1>1, <1>3, <2>1, <2>3
      <4> QED BY <1>0, <4>1
    <3>2. (s \o t)[n + i] = t[(n + i) - Len(s)]
      BY <1>1, <2>1, <2>3
    <3>3. i - (Len(s) - n) = (n + i) - Len(s)
      BY <1>1, <2>1
    <3> QED BY <2>1, <3>1, <3>2, <3>3
  <2> QED BY <2>2, <2>3
<1>6. l = r
  BY <1>0, <1>2, <1>4, <1>5, SeqEqual
<1> QED BY <1>6 DEF a, l, r

LEMMA AfterSecond ==
  ASSUME NEW s \in Seq(Nat), NEW t \in Seq(Nat), NEW n \in 0 .. Len(t)
  PROVE  After(s \o t, Len(s) + n) = After(t, n)
<1> DEFINE l == After(s \o t, Len(s) + n)
           r == After(t, n)
<1>1. /\ s \o t \in Seq(Nat) /\ Len(s \o t) = Len(s) + Len(t) /\ Len(s) + n \in 0 .. Len(s \o t)
      /\ Len(s) \in Nat /\ Len(t) \in Nat
  OBVIOUS
<1>2. /\ l \in Seq(Nat) /\ Len(l) = Len(s \o t) - (Len(s) + n)
      /\ \A i \in 1 .. Len(s \o t) - (Len(s) + n) : l[i] = (s \o t)[Len(s) + n + i]
  BY <1>1, AfterFacts
<1>3. /\ r \in Seq(Nat) /\ Len(r) = Len(t) - n
      /\ \A i \in 1 .. Len(t) - n : r[i] = t[n + i]
  BY AfterFacts
<1> HIDE DEF l, r
<1>4. Len(l) = Len(r)
  BY <1>1, <1>2, <1>3
<1>5. ASSUME NEW i \in 1 .. Len(l) PROVE l[i] = r[i]
  <2>1. i \in 1 .. Len(t) - n /\ l[i] = (s \o t)[Len(s) + n + i] /\ r[i] = t[n + i]
    BY <1>1, <1>2, <1>3, <1>4
  <2>2. (s \o t)[Len(s) + n + i] = t[(Len(s) + n + i) - Len(s)] /\ (Len(s) + n + i) - Len(s) = n + i
    BY <1>1, <2>1
  <2> QED BY <2>1, <2>2
<1>6. l = r
  BY <1>2, <1>3, <1>4, <1>5, SeqEqual
<1> QED BY <1>6 DEF l, r

LEMMA AfterTwice ==
  ASSUME NEW s \in Seq(Nat), NEW m \in 0 .. Len(s), NEW n \in 0 .. Len(s) - m
  PROVE  After(After(s, m), n) = After(s, m + n)
<1> DEFINE t == After(s, m)
           l == After(t, n)
           r == After(s, m + n)
<1>0. Len(s) \in Nat /\ m + n \in 0 .. Len(s)
  OBVIOUS
<1>1. /\ t \in Seq(Nat) /\ Len(t) = Len(s) - m
      /\ \A i \in 1 .. Len(s) - m : t[i] = s[m + i]
  BY AfterFacts
<1>3. /\ r \in Seq(Nat) /\ Len(r) = Len(s) - (m + n)
      /\ \A i \in 1 .. Len(s) - (m + n) : r[i] = s[m + n + i]
  BY <1>0, AfterFacts
<1> HIDE DEF t, r
<1>2. /\ l \in Seq(Nat) /\ Len(l) = Len(t) - n
      /\ \A i \in 1 .. Len(t) - n : l[i] = t[n + i]
  BY <1>0, <1>1, AfterFacts
<1> HIDE DEF l
<1>4. Len(l) = Len(r)
  BY <1>0, <1>1, <1>2, <1>3
<1>5. ASSUME NEW i \in 1 .. Len(l) PROVE l[i] = r[i]
  <2>1. i \in 1 .. Len(s) - (m + n) /\ n + i \in 1 .. Len(s) - m /\ i \in 1 .. Len(t) - n
    BY <1>0, <1>1, <1>2
  <2>2. l[i] = t[n + i] /\ t[n + i] = s[m + (n + i)]
    BY <1>1, <1>2, <2>1
  <2>3. r[i] = s[m + n + i] /\ m + (n + i) = m + n + i
    BY <1>0, <1>3, <2>1
  <2> QED BY <2>2, <2>3
<1>6. l = r
  BY <1>2, <1>3, <1>4, <1>5, SeqEqual
<1> QED BY <1>6 DEF t, l, r

LEMMA DroppedIs ==
  ASSUME NEW f \in Seq(Nat)
  PROVE  /\ Dropped(f) = IF Len(f) > FollowUpsMax THEN Len(f) - FollowUpsMax ELSE 0
         /\ Dropped(f) \in 0 .. Len(f)
<1>1. FollowUpsMax \in Nat /\ Len(f) \in Nat
  BY TranscriptAssumption
<1> DEFINE S == {0, Len(f) - FollowUpsMax}
           m == IF Len(f) > FollowUpsMax THEN Len(f) - FollowUpsMax ELSE 0
<1>2. m \in S /\ \A x \in S : m >= x
  BY <1>1
<1>3. S \subseteq Int
  BY <1>1
<1> HIDE DEF S
<1>4. Max(S) \in S /\ \A x \in S : Max(S) >= x
  BY <1>2 DEF Max
<1>5. Max(S) = m
  <2> HIDE DEF m
  <2>1. Max(S) >= m /\ m >= Max(S) /\ m \in Int /\ Max(S) \in Int
    BY <1>2, <1>3, <1>4
  <2> QED BY <2>1
<1> QED BY <1>1, <1>5 DEF Dropped, S

\* To keep the last of what was kept and what is new is to keep the last of all.
LEMMA KeepAgain ==
  ASSUME NEW f \in Seq(Nat), NEW g \in Seq(Nat)
  PROVE  /\ Keep(f) \in Seq(Nat)
         /\ Keep(Keep(f) \o g) = Keep(f \o g)
         /\ Dropped(f \o g) > 0 <=> Dropped(f) > 0 \/ Dropped(Keep(f) \o g) > 0
<1> DEFINE d == Dropped(f)
           h == Keep(f)
           k == h \o g
           e == Dropped(k)
<1>1. d \in 0 .. Len(f) /\ d = IF Len(f) > FollowUpsMax THEN Len(f) - FollowUpsMax ELSE 0
  BY DroppedIs
<1>2. h \in Seq(Nat) /\ Len(h) = Len(f) - d
  <2>1. Dropped(f) \in 0 .. Len(f)
    BY <1>1
  <2> QED BY <2>1, AfterFacts DEF Keep
<1>3. k \in Seq(Nat) /\ Len(k) = Len(f) - d + Len(g)
  <2> HIDE DEF d, h
  <2>1. k \in Seq(Nat) /\ Len(k) = Len(h) + Len(g)
    BY <1>2, ConcatProperties
  <2> QED BY <1>2, <2>1
<1>4. e \in 0 .. Len(k) /\ e = (IF Len(k) > FollowUpsMax THEN Len(k) - FollowUpsMax ELSE 0)
  BY <1>3, DroppedIs
<1>5. f \o g \in Seq(Nat) /\ Len(f \o g) = Len(f) + Len(g)
  OBVIOUS
<1>6. /\ Dropped(f \o g) \in 0 .. Len(f \o g)
      /\ Dropped(f \o g) = IF Len(f \o g) > FollowUpsMax THEN Len(f \o g) - FollowUpsMax ELSE 0
  BY <1>5, DroppedIs
<1>7. k = After(f \o g, d)
  <2>1. After(f \o g, d) = After(f, d) \o g
    BY <1>1, AfterFirst
  <2> QED BY <2>1 DEF Keep
<1> HIDE DEF d, h, k, e
<1>8. Dropped(f \o g) = d + e /\ FollowUpsMax \in Nat /\ d \in Nat /\ e \in Nat
  <2>1. FollowUpsMax \in Nat /\ Len(f) \in Nat /\ Len(g) \in Nat
    BY TranscriptAssumption
  <2>2. d \in Nat /\ e \in Nat
    <3>1. d \in Nat
      BY <1>1, <2>1
    <3>2. Len(k) \in Nat
      BY <1>3
    <3>3. e \in Nat
      BY <1>4, <3>2
    <3> QED BY <3>1, <3>3
  <2>3. d + e = IF Len(f) + Len(g) > FollowUpsMax THEN Len(f) + Len(g) - FollowUpsMax ELSE 0
    <3>1. CASE Len(f) > FollowUpsMax
      <4>1. d = Len(f) - FollowUpsMax /\ Len(k) = FollowUpsMax + Len(g)
        BY <1>1, <1>3, <2>1, <3>1
      <4>2. e = Len(g)
        BY <1>4, <2>1, <4>1
      <4> QED BY <2>1, <3>1, <4>1, <4>2
    <3>2. CASE ~(Len(f) > FollowUpsMax)
      BY <1>1, <1>3, <1>4, <2>1, <3>2
    <3> QED BY <3>1, <3>2
  <2> QED BY <1>5, <1>6, <2>1, <2>2, <2>3
<1>9. After(k, e) = After(f \o g, d + e)
  <2>1. d \in 0 .. Len(f \o g) /\ e \in 0 .. Len(f \o g) - d
    BY <1>1, <1>3, <1>4, <1>5
  <2> QED BY <1>5, <1>7, <2>1, AfterTwice
<1>10. Keep(k) = Keep(f \o g)
  BY <1>8, <1>9 DEF Keep, e
<1>11. d + e > 0 <=> d > 0 \/ e > 0
  BY <1>8
<1> QED BY <1>2, <1>8, <1>10, <1>11 DEF d, h, k, e

\* Without a task among them, and with one known, prompts are follow-ups.
LEMMA FoldFollows ==
  ASSUME NEW lines, NEW into, NEW real \in Seq(Nat), into.followUps \in Seq(Nat),
         \A i \in 1 .. Len(real) : lines[real[i]] # "task", into.task # None \/ real = <<>>
  PROVE  Fold(lines, into, real) =
           [prompt |-> IF real = <<>> THEN into.prompt ELSE Last(real), task |-> into.task,
            followUps |-> Keep(into.followUps \o real),
            earlier |-> Dropped(into.followUps \o real) > 0 \/ into.earlier]
<1> DEFINE starts == {i \in DOMAIN real : lines[real[i]] = "task" \/ (i = 1 /\ into.task = None)}
<1>1. starts = {}
  <2>1. DOMAIN real = 1 .. Len(real) /\ (real = <<>> => 1 .. Len(real) = {})
    OBVIOUS
  <2> QED BY <2>1
<1> QED BY <1>1 DEF Fold, Keep, After, Dropped

\* The last task among them starts anew.
LEMMA FoldStarts ==
  ASSUME NEW lines, NEW into, NEW real \in Seq(Nat), NEW m \in 1 .. Len(real),
         lines[real[m]] = "task" \/ (m = 1 /\ into.task = None),
         \A i \in m + 1 .. Len(real) : lines[real[i]] # "task"
  PROVE  Fold(lines, into, real) =
           [prompt |-> Last(real), task |-> real[m], followUps |-> Keep(After(real, m)),
            earlier |-> Dropped(After(real, m)) > 0]
<1> DEFINE starts == {i \in DOMAIN real : lines[real[i]] = "task" \/ (i = 1 /\ into.task = None)}
<1>1. DOMAIN real = 1 .. Len(real) /\ real # <<>>
  OBVIOUS
<1>2. starts \in SUBSET Nat /\ m \in starts /\ \A i \in starts : i <= m
  <2>1. \A i \in starts : i <= m
    <3> SUFFICES ASSUME NEW i \in starts, ~(i <= m) PROVE FALSE
      OBVIOUS
    <3>1. i \in m + 1 .. Len(real) /\ i # 1
      BY <1>1
    <3> QED BY <3>1
  <2> QED BY <1>1, <2>1
<1> HIDE DEF starts
<1>3. starts # {} /\ Max(starts) = m
  BY <1>2, MaxIs
<1>4. Fold(lines, into, real) =
        [prompt |-> IF real = <<>> THEN into.prompt ELSE Last(real), task |-> real[m],
         followUps |-> Keep(After(real, m)), earlier |-> Dropped(After(real, m)) > 0 \/ FALSE]
  BY <1>3 DEF Fold, Keep, After, Dropped, starts
<1> QED BY <1>1, <1>4

LEMMA KeepNone ==
  ASSUME NEW f \in Seq(Nat), Len(f) = 0
  PROVE  Keep(f) = f /\ Dropped(f) = 0
<1>1. Dropped(f) = 0
  <2>1. Dropped(f) = IF Len(f) > FollowUpsMax THEN Len(f) - FollowUpsMax ELSE 0
    BY DroppedIs
  <2> QED BY <2>1, TranscriptAssumption
<1>2. After(f, 0) = f
  BY AfterNone
<1> QED BY <1>1, <1>2 DEF Keep

LEMMA FoldNone ==
  ASSUME NEW lines, NEW none \in Seq(Nat), none = <<>>
  PROVE  Fold(lines, Nothing, none) = Nothing
<1>1. /\ Len(none) = 0 /\ none \o none = none
      /\ Nothing.followUps = none /\ Nothing.earlier = FALSE
  BY DEF Nothing
<1>2. Fold(lines, Nothing, none) =
        [prompt |-> IF none = <<>> THEN Nothing.prompt ELSE Last(none), task |-> Nothing.task,
         followUps |-> Keep(Nothing.followUps \o none),
         earlier |-> Dropped(Nothing.followUps \o none) > 0 \/ Nothing.earlier]
  <2> HIDE DEF Fold
  <2>1. Nothing.followUps \in Seq(Nat) /\ \A i \in 1 .. Len(none) : lines[none[i]] # "task"
    BY <1>1
  <2> QED BY <2>1, FoldFollows
<1>3. Keep(none) = none /\ Dropped(none) = 0
  BY <1>1, KeepNone
<1>4. Fold(lines, Nothing, none) =
        [prompt |-> Nothing.prompt, task |-> Nothing.task, followUps |-> none, earlier |-> FALSE]
  <2>1. (Dropped(Nothing.followUps \o none) > 0 \/ Nothing.earlier) = FALSE
    BY <1>1, <1>3
  <2> QED BY <1>1, <1>2, <1>3, <2>1
<1> QED BY <1>4 DEF Nothing

LEMMA SameTruth ==
  ASSUME NEW x, NEW y, NEW z, z > 0 <=> y > 0 \/ x > 0
  PROVE  (x > 0 \/ y > 0) = (z > 0)
OBVIOUS

LEMMA FoldOn ==
  ASSUME NEW lines, NEW a \in Seq(Nat \ {0}), NEW b \in Seq(Nat \ {0})
  PROVE  Fold(lines, Fold(lines, Nothing, a), b) = Fold(lines, Nothing, a \o b)
<1> DEFINE c == a \o b
<1>1. /\ a \in Seq(Nat) /\ b \in Seq(Nat)
      /\ c \in Seq(Nat) /\ Len(c) = Len(a) + Len(b) /\ Len(a) \in Nat /\ Len(b) \in Nat
  OBVIOUS
<1>2. CASE a = <<>>
  <2>1. c = b
    BY <1>1, <1>2
  <2>2. Fold(lines, Nothing, a) = Nothing
    BY <1>1, <1>2, FoldNone
  <2> QED BY <2>1, <2>2
<1>3. CASE a # <<>>
  <2> DEFINE S == {i \in 1 .. Len(a) : lines[a[i]] = "task" \/ i = 1}
             m == Max(S)
             s == Fold(lines, Nothing, a)
             f == After(a, m)
  <2>1. S \in SUBSET Nat /\ S # {} /\ \A i \in S : i <= Len(a)
    <3>1. 1 \in 1 .. Len(a)
      BY <1>3
    <3> QED BY <3>1
  <2>2. m \in S /\ \A i \in S : i <= m
    <3> HIDE DEF S
    <3> QED BY <1>1, <2>1, MaxOf
  <2> HIDE DEF S, m, c
  <2>3. /\ m \in 1 .. Len(a) /\ (lines[a[m]] = "task" \/ m = 1)
        /\ \A i \in m + 1 .. Len(a) : lines[a[i]] # "task"
    <3>1. m \in 1 .. Len(a) /\ (lines[a[m]] = "task" \/ m = 1)
      BY <2>2 DEF S
    <3>2. ASSUME NEW i \in m + 1 .. Len(a), lines[a[i]] = "task" PROVE FALSE
      <4>1. i \in 1 .. Len(a) /\ ~(i <= m)
        <5>1. Len(a) \in Nat /\ m \in 1 .. Len(a) /\ i \in m + 1 .. Len(a)
          BY <1>1, <3>1
        <5> QED BY ONLY <5>1
      <4>2. i \in S
        BY <3>2, <4>1 DEF S
      <4> QED BY <2>2, <4>1, <4>2
    <3> QED BY <3>1, <3>2
  <2>4. s = [prompt |-> Last(a), task |-> a[m], followUps |-> Keep(f), earlier |-> Dropped(f) > 0]
    <3>1. Nothing.task = None
      BY DEF Nothing
    <3> QED BY <1>1, <2>3, <3>1, FoldStarts
  <2>5. f \in Seq(Nat) /\ Keep(f) \in Seq(Nat)
    <3>1. m \in 0 .. Len(a)
      BY <2>3
    <3>2. f \in Seq(Nat) /\ <<>> \in Seq(Nat)
      BY <1>1, <3>1, AfterFacts
    <3> QED BY <3>2, KeepAgain
  <2>6. s.task # None /\ s.followUps \in Seq(Nat)
    <3>1. a[m] \in Nat \ {0}
      BY <2>3
    <3> QED BY <2>4, <2>5, <3>1 DEF None
  <2>7. CASE \E i \in 1 .. Len(b) : lines[b[i]] = "task"
    <3> DEFINE R == {i \in 1 .. Len(b) : lines[b[i]] = "task"}
               r == Max(R)
               n == Len(a) + r
    <3>1. R \in SUBSET Nat /\ R # {} /\ \A i \in R : i <= Len(b)
      BY <2>7
    <3>2. r \in R /\ \A i \in R : i <= r
      <4> HIDE DEF R
      <4> QED BY <1>1, <3>1, MaxOf
    <3> HIDE DEF R, r
    <3>3. r \in 1 .. Len(b) /\ lines[b[r]] = "task" /\ \A i \in r + 1 .. Len(b) : lines[b[i]] # "task"
      <4>1. r \in 1 .. Len(b) /\ lines[b[r]] = "task"
        BY <3>2 DEF R
      <4>2. ASSUME NEW i \in r + 1 .. Len(b), lines[b[i]] = "task" PROVE FALSE
        <5>1. i \in 1 .. Len(b) /\ ~(i <= r)
          BY <1>1, <4>1
        <5>2. i \in R
          BY <4>2, <5>1 DEF R
        <5> QED BY <3>2, <5>1, <5>2
      <4> QED BY <4>1, <4>2
    <3>4. Fold(lines, s, b) =
            [prompt |-> Last(b), task |-> b[r], followUps |-> Keep(After(b, r)),
             earlier |-> Dropped(After(b, r)) > 0]
      <4> HIDE DEF s
      <4> QED BY <1>1, <3>3, FoldStarts
    <3>5. n \in 1 .. Len(c) /\ c[n] = b[r] /\ \A i \in n + 1 .. Len(c) : c[i] = b[i - Len(a)]
      <4>1. \A i \in 1 .. Len(a) + Len(b) : c[i] = IF i <= Len(a) THEN a[i] ELSE b[i - Len(a)]
        BY <1>1, ConcatProperties DEF c
      <4>2. n \in 1 .. Len(c) /\ ~(n <= Len(a)) /\ n - Len(a) = r
        BY <1>1, <3>3
      <4>3. \A i \in n + 1 .. Len(c) : i \in 1 .. Len(a) + Len(b) /\ ~(i <= Len(a))
        BY <1>1, <3>3
      <4>4. c[n] = b[r]
        BY <1>1, <4>1, <4>2
      <4>5. \A i \in n + 1 .. Len(c) : c[i] = b[i - Len(a)]
        BY <4>1, <4>3
      <4> QED BY <4>2, <4>4, <4>5
    <3>6. \A i \in n + 1 .. Len(c) : lines[c[i]] # "task"
      <4>1. \A i \in n + 1 .. Len(c) : i - Len(a) \in r + 1 .. Len(b)
        BY <1>1, <3>3
      <4> QED BY <3>3, <3>5, <4>1
    <3>7. Fold(lines, Nothing, c) =
            [prompt |-> Last(c), task |-> c[n], followUps |-> Keep(After(c, n)),
             earlier |-> Dropped(After(c, n)) > 0]
      <4> HIDE DEF n
      <4> QED BY <1>1, <3>3, <3>5, <3>6, FoldStarts
    <3>8. After(c, n) = After(b, r)
      <4>1. r \in 0 .. Len(b)
        BY <3>3
      <4> QED BY <1>1, <4>1, AfterSecond DEF c
    <3>9. Last(c) = Last(b)
      <4>1. Len(c) \in 1 .. Len(a) + Len(b) /\ ~(Len(c) <= Len(a)) /\ Len(c) - Len(a) = Len(b)
        BY <1>1, <3>3
      <4>2. \A i \in 1 .. Len(a) + Len(b) : c[i] = IF i <= Len(a) THEN a[i] ELSE b[i - Len(a)]
        BY <1>1, ConcatProperties DEF c
      <4>3. c[Len(c)] = b[Len(b)]
        BY <4>1, <4>2
      <4> QED BY <4>3 DEF Last
    <3> QED BY <3>4, <3>5, <3>7, <3>8, <3>9 DEF c
  <2>8. CASE ~\E i \in 1 .. Len(b) : lines[b[i]] = "task"
    <3>1. Fold(lines, s, b) =
            [prompt |-> IF b = <<>> THEN s.prompt ELSE Last(b), task |-> s.task,
             followUps |-> Keep(s.followUps \o b),
             earlier |-> Dropped(s.followUps \o b) > 0 \/ s.earlier]
      <4> HIDE DEF s
      <4> QED BY <1>1, <2>6, <2>8, FoldFollows
    <3>2. m \in 1 .. Len(c) /\ c[m] = a[m]
      <4>1. \A i \in 1 .. Len(a) + Len(b) : c[i] = IF i <= Len(a) THEN a[i] ELSE b[i - Len(a)]
        BY <1>1, ConcatProperties DEF c
      <4>2. m \in 1 .. Len(a) + Len(b) /\ m <= Len(a)
        BY <1>1, <2>3
      <4> QED BY <1>1, <4>1, <4>2
    <3>3. \A i \in m + 1 .. Len(c) : lines[c[i]] # "task"
      <4> SUFFICES ASSUME NEW i \in m + 1 .. Len(c) PROVE lines[c[i]] # "task"
        OBVIOUS
      <4>1. i \in 1 .. Len(a) + Len(b)
        BY <1>1, <2>3
      <4>2. c[i] = IF i <= Len(a) THEN a[i] ELSE b[i - Len(a)]
        BY <1>1, <4>1, ConcatProperties DEF c
      <4>3. CASE i <= Len(a)
        <5>1. i \in m + 1 .. Len(a)
          BY <1>1, <2>3, <4>3
        <5> QED BY <2>3, <4>2, <4>3, <5>1
      <4>4. CASE ~(i <= Len(a))
        <5>1. i - Len(a) \in 1 .. Len(b)
          BY <1>1, <4>1, <4>4
        <5> QED BY <2>8, <4>2, <4>4, <5>1
      <4> QED BY <4>3, <4>4
    <3>4. Fold(lines, Nothing, c) =
            [prompt |-> Last(c), task |-> c[m], followUps |-> Keep(After(c, m)),
             earlier |-> Dropped(After(c, m)) > 0]
      <4>1. Nothing.task = None
        BY DEF Nothing
      <4>2. lines[c[m]] = "task" \/ (m = 1 /\ Nothing.task = None)
        BY <2>3, <3>2, <4>1
      <4> QED BY <1>1, <3>2, <3>3, <4>2, FoldStarts
    <3>5. After(c, m) = f \o b
      <4>1. m \in 0 .. Len(a)
        BY <2>3
      <4> QED BY <1>1, <4>1, AfterFirst DEF c
    <3>6. Last(c) = IF b = <<>> THEN Last(a) ELSE Last(b)
      <4>1. CASE b = <<>>
        <5>1. c = a
          BY <1>1, <4>1 DEF c
        <5> QED BY <4>1, <5>1
      <4>2. CASE b # <<>>
        <5>1. Len(c) \in 1 .. Len(a) + Len(b) /\ ~(Len(c) <= Len(a)) /\ Len(c) - Len(a) = Len(b)
          BY <1>1, <4>2
        <5>2. \A i \in 1 .. Len(a) + Len(b) : c[i] = IF i <= Len(a) THEN a[i] ELSE b[i - Len(a)]
          BY <1>1, ConcatProperties DEF c
        <5>3. c[Len(c)] = b[Len(b)]
          BY <5>1, <5>2
        <5> QED BY <4>2, <5>3 DEF Last
      <4> QED BY <4>1, <4>2
    <3> HIDE DEF f
    <3>7. Keep(Keep(f) \o b) = Keep(f \o b) /\ (Dropped(f \o b) > 0 <=> Dropped(f) > 0 \/ Dropped(Keep(f) \o b) > 0)
      BY <1>1, <2>5, KeepAgain
    <3>8. /\ s.prompt = Last(a) /\ s.task = a[m] /\ s.followUps = Keep(f)
          /\ s.earlier = (Dropped(f) > 0)
      BY <2>4
    <3> HIDE DEF s
    <3>9. (Dropped(s.followUps \o b) > 0 \/ s.earlier) = (Dropped(f \o b) > 0)
      <4>1. (Dropped(Keep(f) \o b) > 0 \/ Dropped(f) > 0) = (Dropped(f \o b) > 0)
        BY <3>7, SameTruth
      <4> QED BY <3>8, <4>1
    <3>10. Fold(lines, s, b) = Fold(lines, Nothing, c)
      BY <3>1, <3>2, <3>4, <3>5, <3>6, <3>7, <3>8, <3>9
    <3> QED BY <3>10 DEF s, c
  <2> QED BY <2>7, <2>8
<1> QED BY <1>2, <1>3

\* A fold reads no line but those of its prompts.
LEMMA FoldSame ==
  ASSUME NEW lines, NEW more, NEW into, NEW n \in Nat, NEW real \in Seq(1 .. n),
         \A i \in 1 .. n : lines[i] = more[i]
  PROVE  Fold(lines, into, real) = Fold(more, into, real)
<1>1. \A i \in DOMAIN real : lines[real[i]] = more[real[i]]
  <2>1. \A i \in DOMAIN real : real[i] \in 1 .. n
    OBVIOUS
  <2> QED BY <2>1
<1>2. {i \in DOMAIN real : lines[real[i]] = "task" \/ (i = 1 /\ into.task = None)}
    = {i \in DOMAIN real : more[real[i]] = "task" \/ (i = 1 /\ into.task = None)}
  BY <1>1
<1> QED BY <1>2 DEF Fold

-----------------------------------------------------------------------------
(***************************************************************************)
(* What promptSummary has told, of lines that are only ever added to.      *)
(***************************************************************************)

\* What is told of a file's lines is told from line k on.
SinceIs(lines, p, k) ==
  /\ p.summary = Fold(lines, Nothing, PromptsIn(lines, k, p.size))
  /\ p.recorded = Recorded(lines, k, p.size)

FarIs(lines, p, k) ==
  \/ k = 0 \/ p.cut
  \/ \E i \in (k + 1) .. p.size : lines[i] = "task"
  \/ p.size - k >= Last(Windows) - 1

Tells(files, p) ==
  p.path # None =>
    /\ p.path \in Files /\ p.size \in 0 .. Len(files[p.path].lines)
    /\ \E k \in 0 .. p.size : SinceIs(files[p.path].lines, p, k) /\ FarIs(files[p.path].lines, p, k)

Longer(lines, more) ==
  /\ Len(lines) \in Nat /\ Len(more) \in Nat /\ Len(lines) <= Len(more)
  /\ \A i \in 1 .. Len(lines) : lines[i] = more[i]

LEMMA SinceSame ==
  ASSUME NEW lines, NEW more, NEW p, NEW k \in Nat, Longer(lines, more), p.size \in 0 .. Len(lines),
         SinceIs(lines, p, k)
  PROVE  SinceIs(more, p, k)
<1> DEFINE n == p.size
<1>1. n \in Nat /\ \A i \in 1 .. n : lines[i] = more[i]
  BY DEF Longer
<1> HIDE DEF n
<1>2. PromptsIn(lines, k, n) = PromptsIn(more, k, n) /\ PromptsIn(lines, k, n) \in Seq(1 .. n)
  BY <1>1, PromptsSame, PromptsPlaced
<1>3. Fold(lines, Nothing, PromptsIn(lines, k, n)) = Fold(more, Nothing, PromptsIn(lines, k, n))
  BY <1>1, <1>2, FoldSame
<1>4. Recorded(lines, k, n) = Recorded(more, k, n)
  BY <1>1, RecordedSame
<1> QED BY <1>2, <1>3, <1>4 DEF SinceIs, n

LEMMA TellsOn ==
  ASSUME NEW files, NEW more, NEW p, Tells(files, p), 
         p.path \in Files => Longer(files[p.path].lines, more[p.path].lines)
  PROVE  Tells(more, p)
<1> SUFFICES ASSUME p.path # None PROVE Tells(more, p)
  BY DEF Tells
<1> DEFINE a == files[p.path].lines
           b == more[p.path].lines
<1>1. p.path \in Files /\ p.size \in 0 .. Len(a) /\ Longer(a, b)
  BY DEF Tells
<1>2. PICK k \in 0 .. p.size : SinceIs(a, p, k) /\ FarIs(a, p, k)
  BY DEF Tells
<1> HIDE DEF a, b
<1>3. k \in Nat /\ p.size \in Nat /\ p.size \in 0 .. Len(b)
  BY <1>1, <1>2 DEF Longer
<1>4. SinceIs(b, p, k)
  BY <1>1, <1>2, <1>3, SinceSame
<1>5. \A i \in (k + 1) .. p.size : a[i] = b[i]
  BY <1>1, <1>3 DEF Longer
<1>6. FarIs(b, p, k)
  BY <1>2, <1>5 DEF FarIs
<1> QED BY <1>1, <1>2, <1>3, <1>4, <1>6 DEF Tells, b

LEMMA PlacesAre ==
  ASSUME NEW n \in Nat, NEW s \in Seq(1 .. n)
  PROVE  s \in Seq(Nat \ {0})
<1>1. 1 .. n \subseteq Nat \ {0}
  OBVIOUS
<1> QED BY <1>1, SeqMonotonic

\* What was told up to p.size goes on to end.
LEMMA SinceOn ==
  ASSUME NEW lines, NEW p, NEW q, NEW k \in Nat, p.size \in Nat, q.size \in Nat,
         k <= p.size, p.size <= q.size, SinceIs(lines, p, k),
         q.summary = Fold(lines, p.summary, PromptsIn(lines, p.size, q.size)),
         q.recorded = IF Recorded(lines, p.size, q.size) = None THEN p.recorded
                      ELSE Recorded(lines, p.size, q.size)
  PROVE  SinceIs(lines, q, k)
<1> DEFINE m == p.size
           n == q.size
           a == PromptsIn(lines, k, m)
           b == PromptsIn(lines, m, n)
<1>1. m \in Nat /\ n \in Nat /\ k <= m /\ m <= n
  OBVIOUS
<1> HIDE DEF m, n, a, b
<1>2. a \in Seq(1 .. m) /\ b \in Seq(1 .. n)
  BY <1>1, PromptsPlaced DEF a, b
<1>3. a \in Seq(Nat \ {0}) /\ b \in Seq(Nat \ {0})
  BY <1>1, <1>2, PlacesAre
<1>4. PromptsIn(lines, k, n) = a \o b
  BY <1>1, PromptsJoin DEF a, b
<1>5. Fold(lines, Fold(lines, Nothing, a), b) = Fold(lines, Nothing, a \o b)
  BY <1>3, FoldOn
<1>6. q.summary = Fold(lines, Nothing, PromptsIn(lines, k, n))
  <2>1. p.summary = Fold(lines, Nothing, a) /\ q.summary = Fold(lines, p.summary, b)
    BY DEF SinceIs, a, b, m, n
  <2> QED BY <1>4, <1>5, <2>1
<1>7. q.recorded = Recorded(lines, k, n)
  <2>1. Recorded(lines, k, n) =
          IF Recorded(lines, m, n) = None THEN Recorded(lines, k, m) ELSE Recorded(lines, m, n)
    BY <1>1, RecordedJoin
  <2>2. p.recorded = Recorded(lines, k, m)
    BY DEF SinceIs, m
  <2> QED BY <2>1, <2>2 DEF m, n
<1> QED BY <1>6, <1>7 DEF SinceIs, n

LEMMA BeforeFacts ==
  ASSUME NEW n \in Nat, NEW v \in Nat \ {0}
  PROVE  Before(n, v) \in 0 .. n /\ (Before(n, v) = 0 \/ n - Before(n, v) = v - 1)
BY DEF Before

LEMMA WideFacts ==
  ASSUME NEW lines, NEW n \in Nat
  PROVE  /\ Wide(lines, n) \in DOMAIN Windows
         /\ \/ Before(n, Windows[Wide(lines, n)]) = 0 \/ Wide(lines, n) = Len(Windows)
            \/ \E i \in (Before(n, Windows[Wide(lines, n)]) + 1) .. n : lines[i] = "task"
<1> DEFINE S == {w \in DOMAIN Windows :
                   \/ Before(n, Windows[w]) = 0 \/ w = Len(Windows)
                   \/ \E i \in (Before(n, Windows[w]) + 1) .. n : lines[i] = "task"}
<1>1. DOMAIN Windows \subseteq Nat /\ Len(Windows) \in DOMAIN Windows
  BY TranscriptAssumption
<1>2. S \subseteq Nat /\ Len(Windows) \in S
  BY <1>1
<1>3. Wide(lines, n) \in S
  <2>1. Wide(lines, n) = Min(S)
    BY DEF Wide
  <2> HIDE DEF S
  <2>2. \E x \in S : \A y \in S : x <= y
    BY <1>2, LeastExists
  <2>3. Min(S) \in S
    BY <2>2 DEF Min
  <2> QED BY <2>1, <2>3
<1> QED BY <1>3

-----------------------------------------------------------------------------
(***************************************************************************)
(* The files, and Claude, which adds to the one it has.                    *)
(***************************************************************************)

FileType == [there : BOOLEAN, lines : Seq(Lines), half : {0, 1}, at : Nat]
FilesOK == /\ file \in [Files -> FileType]
           /\ \E f \in Files : \A g \in Files : file[g].at <= file[f].at
ClaudeOK == claude \in [doing : Doing \cup {"gone"}, file : Files, turns : Nat \ {0}]
BoundsOK == budget \in [often : [Events -> Nat], watched : BOOLEAN, coarse : BOOLEAN, starts : SUBSET Start]
BInv == FilesOK /\ ClaudeOK /\ BoundsOK

LinesGrow == \A g \in Files : Longer(file[g].lines, file'[g].lines)

\* No other transcript was written as late as this one.
Tops(files, f) ==
  \A g \in Files \ {f} : files[g].there => files[f].there /\ files[g].at < files[f].at

LEMMA LatestFacts ==
  ASSUME FilesOK
  PROVE  Latest \in Nat /\ \A f \in Files : file[f].at <= Latest
<1> DEFINE S == {file[f].at : f \in Files}
<1>1. PICK m \in Files : \A g \in Files : file[g].at <= file[m].at
  BY DEF FilesOK
<1>2. S \in SUBSET Nat /\ file[m].at \in S /\ \A x \in S : x <= file[m].at
  BY <1>1 DEF FilesOK, FileType
<1>3. \A f \in Files : file[f].at <= file[m].at /\ file[m].at \in Nat
  BY <1>1, <1>2
<1> HIDE DEF S
<1>4. Max(S) = file[m].at
  BY <1>2, MaxIs
<1> QED BY <1>3, <1>4 DEF Latest, S

LEMMA LongerSelf == ASSUME NEW s \in Seq(Lines) PROVE Longer(s, s)
BY DEF Longer

LEMMA HoldsKeeps ==
  ASSUME FilesOK, NEW f \in Files, NEW lines \in Seq(Lines), NEW half \in {0, 1}, NEW at \in Nat,
         Latest <= at, Longer(file[f].lines, lines), Holds(f, lines, half, at)
  PROVE  FilesOK' /\ LinesGrow /\ (at > Latest => Tops(file', f))
<1> DEFINE r == [there |-> TRUE, lines |-> lines, half |-> half, at |-> at]
<1>1. r \in FileType /\ r.at = at /\ r.lines = lines /\ r.there
  BY DEF FileType
<1>2. file \in [Files -> FileType] /\ file' = [file EXCEPT ![f] = r]
  BY DEF FilesOK, Holds
<1> HIDE DEF r
<1>3. file' \in [Files -> FileType] /\ file'[f] = r /\ \A g \in Files \ {f} : file'[g] = file[g]
  BY <1>1, <1>2
<1>4. \A g \in Files : file[g].at <= Latest /\ file[g].at \in Nat /\ Latest \in Nat
  BY <1>2, LatestFacts DEF FileType
<1>5. \A g \in Files : file'[g].at <= file'[f].at
  BY <1>1, <1>3, <1>4
<1>6. LinesGrow
  <2> SUFFICES ASSUME NEW g \in Files PROVE Longer(file[g].lines, file'[g].lines)
    BY DEF LinesGrow
  <2>1. CASE g = f
    BY <1>1, <1>3, <2>1
  <2>2. CASE g # f
    <3>1. file[g].lines \in Seq(Lines) /\ file'[g] = file[g]
      BY <1>2, <1>3, <2>2 DEF FileType
    <3> QED BY <3>1, LongerSelf
  <2> QED BY <2>1, <2>2
<1>7. at > Latest => Tops(file', f)
  BY <1>1, <1>3, <1>4 DEF Tops
<1> QED BY <1>3, <1>5, <1>6, <1>7 DEF FilesOK

LEMMA LongerMore ==
  ASSUME NEW s \in Seq(Lines), NEW t \in Seq(Lines)
  PROVE  s \o t \in Seq(Lines) /\ Longer(s, s \o t)
<1>1. /\ s \o t \in Seq(Lines) /\ Len(s \o t) = Len(s) + Len(t) /\ Len(s) \in Nat /\ Len(t) \in Nat
      /\ \A i \in 1 .. Len(s) + Len(t) : (s \o t)[i] = IF i <= Len(s) THEN s[i] ELSE t[i - Len(s)]
  BY ConcatProperties
<1>2. \A i \in 1 .. Len(s) : i \in 1 .. Len(s) + Len(t) /\ i <= Len(s)
  BY <1>1
<1>3. \A i \in 1 .. Len(s) : (s \o t)[i] = s[i]
  BY <1>1, <1>2
<1> QED BY <1>1, <1>3 DEF Longer

LEMMA WritesKeeps ==
  ASSUME FilesOK, ClaudeOK, NEW lines \in Seq(Lines), Writes(lines)
  PROVE  FilesOK' /\ LinesGrow /\ Tops(file', claude.file)
<1>1. claude.file \in Files /\ file[claude.file].lines \in Seq(Lines)
  BY DEF ClaudeOK, FilesOK, FileType
<1>2. Latest + 1 \in Nat /\ Latest <= Latest + 1 /\ Latest + 1 > Latest
  BY LatestFacts
<1>3. /\ file[claude.file].lines \o lines \in Seq(Lines)
      /\ Longer(file[claude.file].lines, file[claude.file].lines \o lines)
  BY <1>1, LongerMore
<1> QED BY <1>1, <1>2, <1>3, HoldsKeeps DEF Writes

LEMMA WritesAtOnceKeeps ==
  ASSUME FilesOK, ClaudeOK, NEW lines \in Seq(Lines), WritesAtOnce(lines)
  PROVE  FilesOK' /\ LinesGrow
<1>1. claude.file \in Files /\ file[claude.file].lines \in Seq(Lines)
  BY DEF ClaudeOK, FilesOK, FileType
<1>2. Latest \in Nat /\ Latest <= Latest
  BY LatestFacts
<1>3. /\ file[claude.file].lines \o lines \in Seq(Lines)
      /\ Longer(file[claude.file].lines, file[claude.file].lines \o lines)
  BY <1>1, LongerMore
<1> QED BY <1>1, <1>2, <1>3, HoldsKeeps DEF WritesAtOnce

LEMMA CostsKeeps ==
  ASSUME BoundsOK, NEW k \in Events, Costs(k)
  PROVE  BoundsOK' /\ budget' # budget
<1>1. budget.often \in [Events -> Nat] /\ budget.often[k] \in Nat
  BY DEF BoundsOK
<1>2. budget' = [budget EXCEPT !.often[k] = budget.often[k] - 1] /\ budget.often[k] - 1 \in Nat
  BY <1>1 DEF Costs
<1>3. budget'.often = [budget.often EXCEPT ![k] = budget.often[k] - 1]
  BY <1>1, <1>2 DEF BoundsOK
<1>4. budget'.often \in [Events -> Nat] /\ budget'.often[k] # budget.often[k]
  BY <1>1, <1>2, <1>3
<1>5. BoundsOK'
  BY <1>2, <1>3, <1>4 DEF BoundsOK
<1> QED BY <1>4, <1>5

LEMMA FilesStay == ASSUME FilesOK, UNCHANGED file PROVE FilesOK' /\ LinesGrow
<1>1. \A g \in Files : file[g].lines \in Seq(Lines)
  BY DEF FilesOK, FileType
<1> QED BY <1>1, LongerSelf DEF FilesOK, LinesGrow

\* What Claude does to its file: it is the last that was written, or Claude rests.
ClaudeMoves ==
  /\ claude.doing \in {"turn", "dialog"} /\ claude'.doing \in {"turn", "dialog"}
       => claude'.file = claude.file /\ claude'.turns = claude.turns
  /\ claude'.doing \in {"turn", "dialog"} => 
       Tops(file', claude'.file) \/ (UNCHANGED file /\ claude.doing \in {"turn", "dialog"})
  /\ claude.doing \notin {"turn", "dialog"} /\ claude'.doing \in {"turn", "dialog"}
       => claude'.turns = claude.turns + 1
  /\ claude'.turns >= claude.turns

LEMMA LineKinds ==
  /\ \A kind \in {"task", "say", "tool", "steer", "end", "stamp"} : <<kind>> \in Seq(Lines)
  /\ <<"caveat", "command">> \in Seq(Lines)
BY DEF Lines, Prompts

LEMMA ClaudeStep ==
  ASSUME BInv, ClaudeActs
  PROVE  BInv' /\ LinesGrow /\ ClaudeMoves /\ UNCHANGED <<prompts, listing>>
<1> USE DEF BInv
<1>1. /\ UNCHANGED <<prompts, listing>> /\ FilesOK /\ ClaudeOK /\ BoundsOK
      /\ claude.turns \in Nat /\ claude.turns + 1 \in Nat \ {0} /\ claude.file \in Files
      /\ DOMAIN claude = {"doing", "file", "turns"}
  BY DEF ClaudeActs, ClaudeOK
<1> DEFINE Done == FilesOK' /\ ClaudeOK' /\ BoundsOK' /\ LinesGrow /\ ClaudeMoves
           Begins == claude.doing = "rest" /\ claude' = [claude EXCEPT !.doing = "turn", !.turns = @ + 1]
           Turns(d) == claude' = [claude EXCEPT !.doing = d]
<1>2. ASSUME Begins PROVE ClaudeOK' /\ claude'.file = claude.file /\ (Tops(file', claude.file) => ClaudeMoves)
  <2>1. /\ claude' \in [doing : {"turn"}, file : Files, turns : Nat \ {0}]
        /\ claude'.file = claude.file /\ claude'.turns = claude.turns + 1 /\ claude.doing = "rest"
    BY <1>1, <1>2 DEF ClaudeOK
  <2>2. ClaudeOK'
    BY <2>1 DEF ClaudeOK, Doing
  <2>3. ASSUME Tops(file', claude.file) PROVE ClaudeMoves
    BY <1>1, <2>1, <2>3 DEF ClaudeMoves
  <2> QED BY <2>1, <2>2, <2>3
<1>3. ASSUME NEW d \in Doing, Turns(d), claude.doing \in {"turn", "dialog"}
      PROVE  /\ ClaudeOK' /\ claude'.file = claude.file
             /\ Tops(file', claude.file) \/ UNCHANGED file \/ d = "rest" => ClaudeMoves
  BY <1>1, <1>3 DEF ClaudeOK, ClaudeMoves, Doing
<1>4. ASSUME UNCHANGED claude
      PROVE  ClaudeOK' /\ (Tops(file', claude.file) \/ UNCHANGED file => ClaudeMoves)
  BY <1>1, <1>4 DEF ClaudeOK, ClaudeMoves, Doing
<1> HIDE DEF Begins, Turns, Done
<1>5. ASSUME NEW kind \in {"task", "say"}, Submits(kind) PROVE Done
  <2>1. Begins /\ Writes(<<kind>>) /\ Costs("ask") /\ "ask" \in Events /\ <<kind>> \in Seq(Lines)
    BY <1>5, LineKinds DEF Submits, Begins, Events
  <2> QED BY <1>1, <1>2, <2>1, WritesKeeps, CostsKeeps DEF Done
<1>6. CASE Stirs
  <2>1. Begins /\ Writes(<<"tool">>) /\ Costs("tool") /\ "tool" \in Events /\ <<"tool">> \in Seq(Lines)
    BY <1>6, LineKinds DEF Stirs, Begins, Events
  <2> QED BY <1>1, <1>2, <2>1, WritesKeeps, CostsKeeps DEF Done
<1>7. CASE Steers \/ Works \/ Compacts \/ RunsLocally \/ Restamps
  <2>1. \E k \in Events, lines \in Seq(Lines) : Costs(k) /\ Writes(lines) /\ UNCHANGED claude
    <3>1. {"steer", "tool", "local", "stamp"} \subseteq Events
      BY DEF Events
    <3> QED BY <1>7, <3>1, LineKinds DEF Steers, Works, Compacts, RunsLocally, Restamps
  <2> QED BY <1>1, <1>4, <2>1, WritesKeeps, CostsKeeps DEF Done
<1>8. CASE AsksBack
  <2>1. Turns("dialog") /\ claude.doing = "turn" /\ UNCHANGED file /\ Costs("dialog") /\ "dialog" \in Events
    BY <1>8 DEF AsksBack, Turns, Events
  <2>2. "dialog" \in Doing
    BY DEF Doing
  <2> QED BY <1>1, <1>3, <2>1, <2>2, FilesStay, CostsKeeps DEF Done
<1>9. ASSUME NEW said \in BOOLEAN, Answered(said) PROVE Done
  <2>1. \E lines \in Seq(Lines) : Writes(lines)
    BY <1>9, LineKinds DEF Answered
  <2>2. Turns("turn") /\ claude.doing = "dialog" /\ UNCHANGED budget /\ "turn" \in Doing
    BY <1>9 DEF Answered, Turns, Doing
  <2>3. BoundsOK'
    BY <1>1, <2>2 DEF BoundsOK
  <2> QED BY <1>1, <1>3, <2>1, <2>2, <2>3, WritesKeeps DEF Done
<1>10. CASE Ends
  <2>1. /\ Writes(<<"end">>) \/ WritesAtOnce(<<"end">>)
        /\ Turns("rest") /\ claude.doing = "turn" /\ Costs("end") /\ "end" \in Events
        /\ <<"end">> \in Seq(Lines) /\ "rest" \in Doing
    BY <1>10, LineKinds DEF Ends, Turns, Events, Doing
  <2> QED BY <1>1, <1>3, <2>1, WritesKeeps, WritesAtOnceKeeps, CostsKeeps DEF Done
<1>11. CASE BeginsLine
  <2>1. /\ Holds(claude.file, file[claude.file].lines, 1, Latest + 1) /\ UNCHANGED claude
        /\ Costs("half") /\ "half" \in Events
    BY <1>11 DEF BeginsLine, Events
  <2>2. /\ file[claude.file].lines \in Seq(Lines) /\ Latest + 1 \in Nat /\ Latest <= Latest + 1
        /\ Latest + 1 > Latest /\ Longer(file[claude.file].lines, file[claude.file].lines)
    BY <1>1, LatestFacts, LongerSelf DEF FilesOK, FileType
  <2>3. FilesOK' /\ LinesGrow /\ Tops(file', claude.file)
    BY <1>1, <2>1, <2>2, HoldsKeeps
  <2> QED BY <1>1, <1>4, <2>1, <2>3, CostsKeeps DEF Done
<1>12. CASE Clears
  <2>1. PICK f \in Files : claude' = [claude EXCEPT !.file = f]
    BY <1>12 DEF Clears
  <2>2. claude.doing = "rest" /\ UNCHANGED file /\ Costs("clear") /\ "clear" \in Events
    BY <1>12 DEF Clears, Events
  <2>3. ClaudeOK' /\ ClaudeMoves
    BY <1>1, <2>1, <2>2 DEF ClaudeOK, ClaudeMoves
  <2> QED BY <1>1, <2>2, <2>3, FilesStay, CostsKeeps DEF Done
<1>13. CASE Ages
  <2>1. UNCHANGED <<file, claude, budget>>
    BY <1>13 DEF Ages
  <2>2. BoundsOK'
    BY <1>1, <2>1 DEF BoundsOK
  <2> QED BY <1>1, <1>4, <2>1, <2>2, FilesStay DEF Done
<1>14. \/ \E kind \in {"task", "say"} : Submits(kind)
       \/ Stirs \/ (Steers \/ Works \/ Compacts \/ RunsLocally \/ Restamps) \/ AsksBack
       \/ \E said \in BOOLEAN : Answered(said)
       \/ Ends \/ BeginsLine \/ Clears \/ Ages
  BY DEF ClaudeActs
<1>15. Done => BInv' /\ LinesGrow /\ ClaudeMoves /\ UNCHANGED <<prompts, listing>>
  BY <1>1 DEF Done
<1> QED BY <1>5, <1>6, <1>7, <1>8, <1>9, <1>10, <1>11, <1>12, <1>13, <1>14, <1>15, Zenon

-----------------------------------------------------------------------------
(* What the listings know while Claude goes on. *)

LEMMA NewestFacts ==
  ASSUME FilesOK, Newest # None
  PROVE  /\ Newest \in Files /\ file[Newest].there
         /\ \A g \in Files : file[g].there => file[g].at <= file[Newest].at
<1> DEFINE there == {f \in Files : file[f].there}
           S == {file[f].at : f \in there}
           last == {f \in there : \A g \in there : file[g].at <= file[f].at}
<1>1. there # {} /\ Newest = Min(last)
  BY DEF Newest
<1>2. S \in SUBSET Nat /\ S # {} /\ \A x \in S : x <= Latest
  BY <1>1, LatestFacts DEF FilesOK, FileType
<1>3. Max(S) \in S /\ \A x \in S : x <= Max(S)
  <2> HIDE DEF S
  <2> QED BY <1>2, LatestFacts, MaxOf
<1>4. PICK f \in there : Max(S) = file[f].at
  <2> HIDE DEF there
  <2> QED BY <1>3
<1>5. \A g \in there : file[g].at \in S
  OBVIOUS
<1>6. f \in last
  <2>1. \A g \in there : file[g].at <= file[f].at
    BY <1>3, <1>4, <1>5
  <2> QED BY <1>4, <2>1
<1>7. last \subseteq Nat /\ last # {}
  BY <1>6, ConversationAssumption
<1>8. Min(last) \in last
  <2> HIDE DEF last
  <2>1. \E x \in last : \A y \in last : x <= y
    BY <1>7, LeastExists
  <2> QED BY <2>1 DEF Min
<1> QED BY <1>1, <1>8

ListingOK(l) ==
  /\ l.at \in {"idle", "found", "reading"}
  /\ l.at # "idle" => /\ l.path \in Files /\ l.end \in 0 .. Len(file[l.path].lines)
                      /\ l.size \in {2 * l.end, 2 * l.end + 1}
  /\ l.at = "reading" => Tells(file, l.seen)
ListingsOK == /\ listing = [c \in Listings |-> listing[c]]
              /\ \A c \in Listings : ListingOK(listing[c])
TInv == BInv /\ Tells(file, prompts) /\ ListingsOK

LEMMA ListingsStay ==
  ASSUME TInv, LinesGrow, UNCHANGED <<prompts, listing>>
  PROVE  Tells(file, prompts)' /\ ListingsOK'
<1> USE DEF TInv
<1>1. ASSUME NEW p, Tells(file, p) PROVE Tells(file', p)
  BY <1>1, TellsOn DEF LinesGrow
<1>2. ASSUME NEW c \in Listings PROVE ListingOK(listing[c])'
  <2>1. ListingOK(listing[c]) /\ listing'[c] = listing[c]
    BY DEF ListingsOK
  <2>2. listing[c].path \in Files =>
          0 .. Len(file[listing[c].path].lines) \subseteq 0 .. Len(file'[listing[c].path].lines)
    BY DEF LinesGrow, Longer
  <2> QED BY <1>1, <2>1, <2>2 DEF ListingOK
<1>3. listing' = [c \in Listings |-> listing'[c]]
  BY DEF ListingsOK
<1>4. Tells(file, prompts)'
  BY <1>1
<1> QED BY <1>2, <1>3, <1>4 DEF ListingsOK

\* One call moves on, and the files stay.
LEMMA ListingMoves ==
  ASSUME TInv, NEW c \in Listings, NEW l, ListingOK(l), listing' = [listing EXCEPT ![c] = l],
         UNCHANGED claudeVars, Tells(file, prompts'), UNCHANGED budget \/ \E k \in Events : Costs(k)
  PROVE  TInv'
<1> USE DEF TInv, BInv
<1>1. FilesOK' /\ ClaudeOK' /\ file' = file
  BY DEF claudeVars, FilesOK, ClaudeOK
<1>2. BoundsOK'
  BY CostsKeeps DEF BoundsOK
<1>3. ASSUME NEW k \in Listings PROVE ListingOK(listing[k])'
  <2>1. listing'[k] = IF k = c THEN l ELSE listing[k]
    BY DEF ListingsOK
  <2>2. ListingOK(listing'[k])
    BY <2>1 DEF ListingsOK
  <2> QED BY <1>1, <2>2 DEF ListingOK
<1>4. listing' = [k \in Listings |-> listing'[k]]
  BY DEF ListingsOK
<1> QED BY <1>1, <1>2, <1>3, <1>4 DEF ListingsOK

LEMMA IdleOK == ListingOK(NoListing)
BY DEF ListingOK, NoListing

LEMMA ListsTold ==
  ASSUME TInv, NEW c \in Listings, Lists(c)
  PROVE  TInv'
<1> DEFINE l == [at |-> "found", path |-> Newest, size |-> Size(Newest), end |-> Len(file[Newest].lines)]
<1>1. /\ listing' = [listing EXCEPT ![c] = l] /\ UNCHANGED claudeVars /\ UNCHANGED prompts
      /\ Newest # None /\ Costs("listing") /\ "listing" \in Events
  BY DEF Lists, Events
<1>2. Newest \in Files
  BY <1>1, NewestFacts DEF TInv, BInv
<1>3. file[Newest].lines \in Seq(Lines) /\ file[Newest].half \in {0, 1}
  BY <1>2 DEF TInv, BInv, FilesOK, FileType
<1>4. Len(file[Newest].lines) \in Nat
  BY <1>3
<1>5. ListingOK(l)
  BY <1>2, <1>3, <1>4 DEF ListingOK, Size
<1> HIDE DEF l
<1>6. Tells(file, prompts')
  BY <1>1 DEF TInv
<1> QED BY <1>1, <1>5, <1>6, ListingMoves

LEMMA RecallsTold ==
  ASSUME TInv, NEW c \in Listings, Recalls(c)
  PROVE  TInv'
<1> DEFINE l == [at |-> "reading", path |-> listing[c].path, size |-> listing[c].size,
                 end |-> listing[c].end, seen |-> prompts]
<1>1. /\ listing' = [listing EXCEPT ![c] = l] /\ UNCHANGED claudeVars /\ UNCHANGED prompts
      /\ UNCHANGED budget /\ listing[c].at = "found"
  BY DEF Recalls
<1>2. ListingOK(listing[c]) /\ Tells(file, prompts)
  BY DEF TInv, ListingsOK
<1>3. ListingOK(l)
  BY <1>1, <1>2 DEF ListingOK
<1> HIDE DEF l
<1>4. Tells(file, prompts')
  BY <1>1, <1>2
<1> QED BY <1>1, <1>3, <1>4, ListingMoves

LEMMA ReadsOnTold ==
  ASSUME TInv, NEW c \in Listings, ReadsOn(c)
  PROVE  TInv'
<1> DEFINE l == listing[c]
           lines == file[l.path].lines
           p == l.seen
           stamp == Recorded(lines, p.size, l.end)
           q == [path |-> l.path, size |-> l.end,
                 summary |-> Fold(lines, p.summary, PromptsIn(lines, p.size, l.end)),
                 recorded |-> IF stamp = None THEN p.recorded ELSE stamp, cut |-> p.cut]
<1>1. /\ l.at = "reading" /\ Known(l) /\ prompts' = q
      /\ listing' = [listing EXCEPT ![c] = NoListing] /\ UNCHANGED claudeVars /\ UNCHANGED budget
  BY DEF ReadsOn
<1>2. ListingOK(l)
  BY DEF TInv, ListingsOK
<1>3. /\ l.path \in Files /\ l.end \in 0 .. Len(lines) /\ l.size \in {2 * l.end, 2 * l.end + 1}
      /\ Tells(file, p) /\ p.path = l.path /\ l.size >= 2 * p.size
  BY <1>1, <1>2 DEF ListingOK, Known
<1>4. p.path # None /\ p.path \in Files
  BY <1>3, ConversationAssumption
<1>5. p.size \in 0 .. Len(lines)
  BY <1>3, <1>4 DEF Tells
<1>6. PICK k \in 0 .. p.size : SinceIs(lines, p, k) /\ FarIs(lines, p, k)
  BY <1>3, <1>4 DEF Tells
<1>7. Len(lines) \in Nat
  BY <1>3 DEF TInv, BInv, FilesOK, FileType
<1>8. q.size = l.end /\ q.path = l.path /\ q.cut = p.cut
      /\ q.summary = Fold(lines, p.summary, PromptsIn(lines, p.size, q.size))
      /\ q.recorded = IF Recorded(lines, p.size, q.size) = None THEN p.recorded
                      ELSE Recorded(lines, p.size, q.size)
  OBVIOUS
<1> HIDE DEF q, p, stamp, lines, l
<1>9. /\ k \in Nat /\ p.size \in Nat /\ q.size \in Nat /\ k <= p.size /\ p.size <= q.size
      /\ q.size \in 0 .. Len(lines) /\ k \in 0 .. q.size
  BY <1>3, <1>5, <1>6, <1>7, <1>8
<1>10. SinceIs(lines, q, k)
  BY <1>6, <1>8, <1>9, SinceOn
<1>11. FarIs(lines, q, k)
  <2>1. CASE k = 0 \/ p.cut
    BY <1>8, <2>1 DEF FarIs
  <2>2. ASSUME NEW i \in (k + 1) .. p.size, lines[i] = "task" PROVE FarIs(lines, q, k)
    <3>1. i \in (k + 1) .. q.size
      BY <1>9
    <3> QED BY <2>2, <3>1 DEF FarIs
  <2>3. CASE p.size - k >= Last(Windows) - 1
    <3>1. Last(Windows) \in Nat
      BY TranscriptAssumption DEF Last
    <3>2. q.size - k >= Last(Windows) - 1
      BY <1>9, <2>3, <3>1
    <3> QED BY <3>2 DEF FarIs
  <2> QED BY <1>6, <2>1, <2>2, <2>3 DEF FarIs
<1>12. Tells(file, q)
  <2>1. file[q.path].lines = lines /\ q.path \in Files
    BY <1>3, <1>8 DEF lines
  <2> QED BY <1>9, <1>10, <1>11, <2>1 DEF Tells
<1> QED BY <1>1, <1>12, IdleOK, ListingMoves

\* What a window of a first look finds is told from where it begins.
LEMMA SeedTells ==
  ASSUME TInv, NEW f \in Files, NEW end \in 0 .. Len(file[f].lines), NEW w \in DOMAIN Windows, NEW cut,
         cut \/ w = Wide(file[f].lines, end), NEW q,
         q = [path |-> f, size |-> end, summary |-> Seed(file[f].lines, end, w).summary,
              recorded |-> Seed(file[f].lines, end, w).recorded, cut |-> cut]
  PROVE  Tells(file, q)
<1> DEFINE lines == file[f].lines
           k == Before(end, Windows[w])
<1>1. end \in Nat /\ Windows[w] \in Nat \ {0}
  <2>1. Len(lines) \in Nat
    BY DEF TInv, BInv, FilesOK, FileType
  <2> QED BY <2>1, TranscriptAssumption
<1>2. k \in 0 .. end /\ (k = 0 \/ end - k = Windows[w] - 1)
  BY <1>1, BeforeFacts
<1>3. q.path = f /\ q.size = end /\ q.cut = cut
  OBVIOUS
<1>4. /\ q.summary = Fold(lines, Nothing, PromptsIn(lines, k, end))
      /\ q.recorded = Recorded(lines, k, end)
  BY DEF Seed
<1> HIDE DEF k
<1>5. SinceIs(lines, q, k)
  BY <1>3, <1>4 DEF SinceIs
<1>6. FarIs(lines, q, k)
  <2>1. CASE cut
    BY <1>3, <2>1 DEF FarIs
  <2>2. CASE w = Wide(lines, end)
    <3>1. k = 0 \/ w = Len(Windows) \/ \E i \in (k + 1) .. end : lines[i] = "task"
      BY <1>1, <2>2, WideFacts DEF k
    <3>2. w = Len(Windows) => k = 0 \/ end - k >= Last(Windows) - 1
      BY <1>1, <1>2 DEF Last
    <3> QED BY <1>3, <3>1, <3>2 DEF FarIs
  <2> QED BY <2>1, <2>2
<1> QED BY <1>2, <1>3, <1>5, <1>6 DEF Tells

LEMMA SeedsTold ==
  ASSUME TInv, NEW c \in Listings, Seeds(c)
  PROVE  TInv'
<1> DEFINE l == listing[c]
           lines == file[l.path].lines
           w == Wide(lines, l.end)
<1>1. /\ l.at = "reading"
      /\ prompts' = [path |-> l.path, size |-> l.end, summary |-> Seed(lines, l.end, w).summary,
                     recorded |-> Seed(lines, l.end, w).recorded, cut |-> FALSE]
      /\ listing' = [listing EXCEPT ![c] = NoListing] /\ UNCHANGED claudeVars /\ UNCHANGED budget
  BY DEF Seeds
<1>2. l.path \in Files /\ l.end \in 0 .. Len(lines)
  BY <1>1 DEF TInv, ListingsOK, ListingOK
<1>3. w \in DOMAIN Windows
  <2>1. l.end \in Nat
    BY <1>2 DEF TInv, BInv, FilesOK, FileType
  <2> QED BY <2>1, WideFacts
<1> HIDE DEF l, w
<1>4. Tells(file, prompts')
  BY <1>1, <1>2, <1>3, SeedTells DEF w
<1> QED BY <1>1, <1>4, IdleOK, ListingMoves

LEMMA UnseenTells ==
  ASSUME TInv, NEW f \in Files
  PROVE  Tells(file, [Unseen EXCEPT !.path = f])
<1> DEFINE q == [Unseen EXCEPT !.path = f]
           lines == file[f].lines
<1>1. q.path = f /\ q.size = 0 /\ q.summary = Nothing /\ q.recorded = None
  BY DEF Unseen
<1> HIDE DEF q
<1>2. PromptsIn(lines, 0, 0) = <<>> /\ PromptsIn(lines, 0, 0) \in Seq(Nat)
  BY PromptsNone, PromptsGrow
<1>3. Fold(lines, Nothing, PromptsIn(lines, 0, 0)) = Nothing
  BY <1>2, FoldNone
<1>4. Recorded(lines, 0, 0) = None
  <2>1. Recorded(lines, 0, 0) \in {None} \cup {i \in (0 + 1) .. 0 : lines[i] = "stamp"}
    BY RecordedFacts
  <2> QED BY <2>1
<1>5. SinceIs(lines, q, 0) /\ FarIs(lines, q, 0)
  BY <1>1, <1>3, <1>4 DEF SinceIs, FarIs
<1>6. Len(lines) \in Nat
  BY DEF TInv, BInv, FilesOK, FileType
<1>7. Tells(file, q)
  BY <1>1, <1>5, <1>6 DEF Tells
<1> QED BY <1>7 DEF q

LEMMA CannotReadTold ==
  ASSUME TInv, NEW c \in Listings, CannotRead(c)
  PROVE  TInv'
<1> DEFINE l == listing[c]
           lines == file[l.path].lines
           kept(w) == [path |-> l.path, size |-> l.end, summary |-> Seed(lines, l.end, w).summary,
                       recorded |-> Seed(lines, l.end, w).recorded, cut |-> TRUE]
<1>1. /\ l.at = "reading" /\ Costs("unreadable") /\ "unreadable" \in Events
      /\ listing' = [listing EXCEPT ![c] = NoListing] /\ UNCHANGED claudeVars
      /\ \/ UNCHANGED prompts \/ prompts' = [Unseen EXCEPT !.path = l.path]
         \/ \E w \in 1 .. Wide(lines, l.end) - 1 : prompts' = kept(w)
  BY DEF CannotRead, Events
<1>2. l.path \in Files /\ l.end \in 0 .. Len(lines)
  BY <1>1 DEF TInv, ListingsOK, ListingOK
<1>3. 1 .. Wide(lines, l.end) - 1 \subseteq DOMAIN Windows
  <2>1. l.end \in Nat
    BY <1>2 DEF TInv, BInv, FilesOK, FileType
  <2>2. Wide(lines, l.end) \in DOMAIN Windows
    BY <2>1, WideFacts
  <2> QED BY <2>2, TranscriptAssumption
<1>4. Tells(file, prompts')
  <2>1. CASE UNCHANGED prompts
    BY <2>1 DEF TInv
  <2>2. CASE prompts' = [Unseen EXCEPT !.path = l.path]
    BY <1>2, <2>2, UnseenTells
  <2>3. ASSUME NEW w \in 1 .. Wide(lines, l.end) - 1, prompts' = kept(w)
        PROVE  Tells(file, prompts')
    <3>1. w \in DOMAIN Windows
      BY <1>3
    <3> HIDE DEF l
    <3> QED BY <1>2, <2>3, <3>1, SeedTells
  <2> QED BY <1>1, <2>1, <2>2, <2>3
<1> HIDE DEF l
<1> QED BY <1>1, <1>4, IdleOK, ListingMoves

LEMMA SomeStart ==
  ASSUME AttentionInit
  PROVE  BInv /\ listing = [c \in Listings |-> NoListing] /\ prompts = Unseen
<1>1. BoundsOK
  BY ConversationAssumption DEF AttentionInit, BoundsOK
<1>2. PICK s \in budget.starts :
        /\ file = [f \in Files |-> IF f = 1 /\ s.lines # <<>>
                     THEN [there |-> TRUE, lines |-> s.lines, half |-> 0, at |-> 1] ELSE NoFile]
        /\ claude = [doing |-> s.doing, file |-> 1, turns |-> 1]
  BY DEF AttentionInit
<1>3. s \in Start /\ 1 \in Files
  BY <1>1, <1>2, ConversationAssumption DEF BoundsOK
<1>4. FilesOK
  <2>1. s.lines \in Seq(Lines) /\ <<>> \in Seq(Lines)
    BY <1>3 DEF Start
  <2>2. file \in [Files -> FileType]
    BY <1>2, <2>1 DEF FileType, NoFile
  <2>3. \A g \in Files : file[g].at = IF g = 1 /\ s.lines # <<>> THEN 1 ELSE 0
    BY <1>2 DEF NoFile
  <2>4. \A g \in Files : file[g].at <= file[1].at
    BY <1>3, <2>3
  <2> QED BY <1>3, <2>2, <2>4 DEF FilesOK
<1>5. ClaudeOK
  BY <1>2, <1>3 DEF ClaudeOK, Start
<1> QED BY <1>1, <1>4, <1>5 DEF BInv, AttentionInit

LEMMA TInit == AttentionInit => TInv
<1> SUFFICES ASSUME AttentionInit PROVE TInv
  OBVIOUS
<1>1. BInv /\ listing = [c \in Listings |-> NoListing] /\ prompts = Unseen
  BY SomeStart
<1>2. Tells(file, prompts)
  BY <1>1 DEF Tells, Unseen
<1> QED BY <1>1, <1>2, IdleOK DEF TInv, ListingsOK

\* The session, its screen and the looks leave what was told alone.
SessionMoves ==
  /\ UNCHANGED <<file, prompts, listing>>
  /\ UNCHANGED budget \/ \E k \in Events : Costs(k)

LEMMA RefreshesMoves == ASSUME NEW c \in Callers, Refreshes(c) PROVE SessionMoves /\ UNCHANGED claude
<1>1. UNCHANGED <<file, claude, prompts, listing>>
  BY DEF Refreshes, claudeVars
<1>2. UNCHANGED budget \/ Costs("unreadable")
  BY DEF Refreshes, Looks, Finds, ReadsTail
<1> QED BY <1>1, <1>2 DEF SessionMoves, Events

LEMMA PaintsMoves ==
  ASSUME Draws \/ DrawsAgain \/ ExpectsRepaint \/ Repaints \/ Passes
  PROVE  SessionMoves /\ UNCHANGED claude
<1>1. UNCHANGED <<file, claude, prompts, listing>>
  BY DEF Draws, DrawsAgain, ExpectsRepaint, Repaints, Passes, Paints, claudeVars
<1>2. UNCHANGED budget \/ Costs("paint") \/ Costs("resize")
  BY DEF Draws, DrawsAgain, ExpectsRepaint, Repaints, Passes
<1> QED BY <1>1, <1>2 DEF SessionMoves, Events

LEMMA DeathMoves ==
  ASSUME ClaudeOK, Exits \/ MarksDead \/ Respawns
  PROVE  /\ SessionMoves /\ ClaudeOK'
         /\ UNCHANGED claude \/ (claude'.doing \in {"gone", "rest"} /\ claude'.turns = claude.turns)
<1>1. UNCHANGED <<file, prompts, listing>>
  BY DEF Exits, MarksDead, Respawns, claudeVars
<1>2. UNCHANGED budget \/ Costs("die")
  BY DEF Exits, MarksDead, Respawns
<1>3. SessionMoves
  BY <1>1, <1>2 DEF SessionMoves, Events
<1>4. CASE Exits
  <2>1. claude' = [claude EXCEPT !.doing = "gone"]
    BY <1>4 DEF Exits
  <2> QED BY <1>3, <2>1 DEF ClaudeOK
<1>5. CASE MarksDead
  <2>1. UNCHANGED claude
    BY <1>5 DEF MarksDead, claudeVars
  <2> QED BY <1>3, <2>1 DEF ClaudeOK
<1>6. CASE Respawns
  <2>1. \/ claude' = [claude EXCEPT !.doing = "rest"]
        \/ \E f \in Files : claude' = [claude EXCEPT !.doing = "rest", !.file = f]
    BY <1>6 DEF Respawns
  <2> QED BY <1>3, <2>1 DEF ClaudeOK, Doing
<1> QED BY <1>4, <1>5, <1>6

LEMMA SessionKeeps ==
  ASSUME TInv, SessionMoves, ClaudeOK'
  PROVE  TInv'
<1>1. BoundsOK'
  BY CostsKeeps DEF SessionMoves, TInv, BInv, BoundsOK
<1>2. FilesOK' /\ LinesGrow /\ UNCHANGED <<prompts, listing>>
  BY FilesStay DEF SessionMoves, TInv, BInv
<1>3. Tells(file, prompts)' /\ ListingsOK'
  BY <1>2, ListingsStay
<1> QED BY <1>1, <1>2, <1>3 DEF TInv, BInv

LEMMA TNext == TInv /\ [AttentionNext]_attentionVars => TInv'
<1> SUFFICES ASSUME TInv, [AttentionNext]_attentionVars PROVE TInv'
  OBVIOUS
<1>1. ClaudeOK
  BY DEF TInv, BInv
<1>2. CASE ClaudeActs
  <2>1. BInv' /\ LinesGrow /\ UNCHANGED <<prompts, listing>>
    BY <1>2, ClaudeStep DEF TInv
  <2> QED BY <2>1, ListingsStay DEF TInv
<1>3. CASE Summarises
  BY <1>3, ListsTold, RecallsTold, ReadsOnTold, SeedsTold, CannotReadTold DEF Summarises
<1>4. ASSUME NEW c \in Callers, Refreshes(c) PROVE TInv'
  <2>1. SessionMoves /\ UNCHANGED claude
    BY <1>4, RefreshesMoves
  <2>2. ClaudeOK'
    BY <1>1, <2>1 DEF ClaudeOK
  <2> QED BY <2>1, <2>2, SessionKeeps
<1>5. CASE Draws \/ DrawsAgain \/ ExpectsRepaint \/ Repaints \/ Passes
  <2>1. SessionMoves /\ UNCHANGED claude
    BY <1>5, PaintsMoves
  <2>2. ClaudeOK'
    BY <1>1, <2>1 DEF ClaudeOK
  <2> QED BY <2>1, <2>2, SessionKeeps
<1>6. CASE Exits \/ MarksDead \/ Respawns
  BY <1>1, <1>6, DeathMoves, SessionKeeps
<1>7. CASE UNCHANGED attentionVars
  <2>1. SessionMoves /\ ClaudeOK'
    BY <1>1, <1>7 DEF attentionVars, claudeVars, SessionMoves, ClaudeOK
  <2> QED BY <2>1, SessionKeeps
<1> QED BY <1>2, <1>3, <1>4, <1>5, <1>6, <1>7 DEF AttentionNext, Converses

LEMMA TInvHolds == AttentionSpec => []TInv
BY TInit, TNext, PTL DEF AttentionSpec

\* promptSummary counts each prompt once and skips none, for any number of
\* listings under way, transcripts, lines and windows.
THEOREM PromptsTold == AttentionSpec => []Told
<1>1. TInv => Told
  <2> SUFFICES ASSUME TInv, prompts.path # None
               PROVE  \E k \in 0 .. prompts.size :
                        /\ SinceIs(file[prompts.path].lines, prompts, k)
                        /\ FarIs(file[prompts.path].lines, prompts, k)
    BY DEF Told, SinceIs, FarIs
  <2> QED BY DEF TInv, Tells
<1> QED BY <1>1, TInvHolds, PTL

-----------------------------------------------------------------------------
(***************************************************************************)
(* Which turn a look belongs to, and which transcript it reads.            *)
(***************************************************************************)

Busy == claude.doing \in {"turn", "dialog"}
LookOK(l) ==
  /\ l.at \in {"idle", "asked", "reading"}
  /\ l.at # "idle" => l.turn \in Nat /\ l.turn <= claude.turns
  /\ l.at = "reading" /\ Busy /\ l.turn = claude.turns => l.path = claude.file
Clocks == {"attention", "quiet", "repaint", "timer", "turn", "dead", "placed", "mirror"}
LiveOK == DOMAIN live = Clocks
LooksOK == look = [c \in Callers |-> look[c]] /\ \A c \in Callers : LookOK(look[c])
TopOK == Busy => Tops(file, claude.file)
GInv == BInv /\ LiveOK /\ LooksOK /\ TopOK

LEMMA NewestIsTop ==
  ASSUME FilesOK, NEW f \in Files, Tops(file, f), Newest # None
  PROVE  Newest = f
<1>1. /\ Newest \in Files /\ file[Newest].there
      /\ \A g \in Files : file[g].there => file[g].at <= file[Newest].at
  BY NewestFacts
<1>2. \A g \in Files : file[g].at \in Nat
  BY DEF FilesOK, FileType
<1> QED BY <1>1, <1>2 DEF Tops

LEMMA GInit == AttentionInit => GInv
<1> SUFFICES ASSUME AttentionInit PROVE GInv
  OBVIOUS
<1>1. BInv
  BY SomeStart
<1>2. LiveOK
  BY DEF AttentionInit, LiveOK, Session, Clocks
<1>3. LooksOK
  BY DEF AttentionInit, LooksOK, LookOK, NoLook
<1>4. TopOK
  <2>1. claude.file = 1 /\ \A g \in Files : g # 1 => ~file[g].there
    BY ConversationAssumption DEF AttentionInit, NoFile
  <2> QED BY <2>1 DEF TopOK, Tops
<1> QED BY <1>1, <1>2, <1>3, <1>4 DEF GInv

\* A look is none the wiser for what Claude does.
LEMMA LooksStay ==
  ASSUME GInv, ClaudeOK', UNCHANGED look, claude'.turns >= claude.turns,
         Busy' /\ claude'.turns = claude.turns => Busy /\ claude'.file = claude.file
  PROVE  LooksOK'
<1>1. claude.turns \in Nat /\ claude'.turns \in Nat
  BY DEF GInv, BInv, ClaudeOK
<1>2. ASSUME NEW c \in Callers PROVE LookOK(look[c])'
  BY <1>1 DEF GInv, LooksOK, LookOK
<1> QED BY <1>2 DEF GInv, LooksOK

LEMMA LookMoves ==
  ASSUME GInv, NEW c \in Callers, NEW l, LookOK(l), look' = [look EXCEPT ![c] = l], UNCHANGED claude
  PROVE  LooksOK'
<1>1. ASSUME NEW k \in Callers PROVE LookOK(look[k])'
  <2>1. look'[k] = IF k = c THEN l ELSE look[k]
    BY DEF GInv, LooksOK
  <2>2. LookOK(look'[k])
    BY <2>1 DEF GInv, LooksOK
  <2> QED BY <2>2 DEF LookOK, Busy
<1>2. look' = [k \in Callers |-> look'[k]]
  BY DEF GInv, LooksOK
<1> QED BY <1>1, <1>2 DEF LooksOK

LEMMA NoLookOK == LookOK(NoLook)
BY DEF LookOK, NoLook

LEMMA LearnsKeeps ==
  ASSUME GInv, NEW c \in Callers, NEW turn, Learns(c, turn), UNCHANGED claude
  PROVE  LiveOK' /\ LooksOK'
<1>1. LiveOK'
  BY DEF Learns, Reclassified, LiveOK, GInv
<1>2. look' = [look EXCEPT ![c] = NoLook]
  BY DEF Learns
<1> QED BY <1>1, <1>2, NoLookOK, LookMoves

LEMMA RefreshesKeeps ==
  ASSUME GInv, NEW c \in Callers, Refreshes(c)
  PROVE  GInv'
<1>1. SessionMoves /\ UNCHANGED claude
  BY RefreshesMoves
<1>2. claude.turns \in Nat /\ claude.turns # 0 /\ FilesOK /\ BoundsOK /\ ClaudeOK /\ claude.file \in Files
  BY DEF GInv, BInv, ClaudeOK
<1>3. BInv'
  <2>1. BoundsOK'
    BY <1>1, <1>2, CostsKeeps DEF SessionMoves, BoundsOK
  <2>2. FilesOK' /\ ClaudeOK'
    BY <1>1, <1>2 DEF SessionMoves, FilesOK, ClaudeOK
  <2> QED BY <2>1, <2>2 DEF BInv
<1>4. TopOK'
  BY <1>1 DEF GInv, TopOK, Busy, SessionMoves
<1>5. CASE Looks(c)
  <2>1. LiveOK'
    BY <1>5 DEF Looks, Due, Reclassified, LiveOK, GInv
  <2>2. ASSUME UNCHANGED look PROVE LooksOK'
    BY <1>1, <2>2 DEF GInv, LooksOK, LookOK, Busy
  <2>3. ASSUME look' = [look EXCEPT ![c] = [at |-> "asked", turn |-> Begun]] PROVE LooksOK'
    <3>1. LookOK([at |-> "asked", turn |-> Begun])
      BY <1>2 DEF LookOK, Begun, None
    <3> QED BY <1>1, <2>3, <3>1, LookMoves
  <2> QED BY <1>3, <1>4, <1>5, <2>1, <2>2, <2>3 DEF Looks, GInv
<1>6. CASE Finds(c)
  <2>1. CASE \E turn : Learns(c, turn)
    BY <1>1, <1>3, <1>4, <2>1, LearnsKeeps DEF GInv
  <2>2. CASE /\ Newest # None /\ UNCHANGED live
             /\ look' = [look EXCEPT ![c] = [at |-> "reading", turn |-> @.turn, path |-> Newest,
                                             stamp |-> file[Newest].at, old |-> stale]]
    <3> DEFINE l == [at |-> "reading", turn |-> look[c].turn, path |-> Newest,
                     stamp |-> file[Newest].at, old |-> stale]
    <3>1. look' = [look EXCEPT ![c] = l]
      BY <2>2
    <3>2. look[c].at = "asked" /\ LookOK(look[c])
      BY <1>6 DEF Finds, GInv, LooksOK
    <3>3. Busy => Newest = claude.file
      BY <1>2, <2>2, NewestIsTop DEF GInv, TopOK
    <3>4. LookOK(l)
      BY <3>2, <3>3 DEF LookOK
    <3> HIDE DEF l
    <3>5. LooksOK'
      BY <1>1, <3>1, <3>4, LookMoves
    <3> QED BY <1>3, <1>4, <2>2, <3>5 DEF GInv, LiveOK
  <2> QED BY <1>6, <2>1, <2>2 DEF Finds
<1>7. CASE ReadsTail(c)
  <2>1. \E turn : Learns(c, turn)
    BY <1>7 DEF ReadsTail
  <2> QED BY <1>1, <1>3, <1>4, <2>1, LearnsKeeps DEF GInv
<1> QED BY <1>5, <1>6, <1>7 DEF Refreshes

LEMMA GNext == GInv /\ [AttentionNext]_attentionVars => GInv'
<1> SUFFICES ASSUME GInv, [AttentionNext]_attentionVars PROVE GInv'
  OBVIOUS
<1>1. FilesOK /\ BoundsOK /\ ClaudeOK /\ claude.turns \in Nat
  BY DEF GInv, BInv, ClaudeOK
<1>2. CASE ClaudeActs /\ UNCHANGED <<live, look>>
  <2>1. BInv' /\ ClaudeMoves
    BY <1>2, ClaudeStep DEF GInv
  <2>2. LooksOK'
    <3>1. claude'.turns >= claude.turns
      BY <2>1 DEF ClaudeMoves
    <3>2. Busy' /\ claude'.turns = claude.turns => Busy /\ claude'.file = claude.file
      BY <1>1, <2>1 DEF ClaudeMoves, Busy
    <3> QED BY <1>2, <2>1, <3>1, <3>2, LooksStay DEF BInv
  <2>3. TopOK'
    BY <2>1 DEF ClaudeMoves, TopOK, Busy, GInv
  <2> QED BY <1>2, <2>1, <2>2, <2>3 DEF GInv, LiveOK
<1>3. ASSUME SessionMoves, UNCHANGED <<claude, look>>, LiveOK' PROVE GInv'
  <2>1. BoundsOK'
    BY <1>1, <1>3, CostsKeeps DEF SessionMoves, BoundsOK
  <2>2. FilesOK' /\ ClaudeOK'
    BY <1>1, <1>3 DEF SessionMoves, FilesOK, ClaudeOK
  <2>3. LooksOK' /\ TopOK'
    BY <1>3 DEF GInv, LooksOK, LookOK, TopOK, Busy, SessionMoves
  <2> QED BY <1>3, <2>1, <2>2, <2>3 DEF GInv, BInv
<1>4. CASE Summarises /\ UNCHANGED <<live, look>>
  <2>1. UNCHANGED claudeVars /\ (UNCHANGED budget \/ \E k \in Events : Costs(k))
    BY <1>4 DEF Summarises, Lists, Recalls, ReadsOn, Seeds, CannotRead, Events
  <2>2. BoundsOK'
    BY <1>1, <2>1, CostsKeeps DEF BoundsOK
  <2>3. FilesOK' /\ ClaudeOK'
    BY <1>1, <2>1 DEF claudeVars, FilesOK, ClaudeOK
  <2>4. LooksOK' /\ TopOK' /\ LiveOK'
    BY <1>4, <2>1 DEF claudeVars, GInv, LooksOK, LookOK, TopOK, Busy, LiveOK
  <2> QED BY <2>2, <2>3, <2>4 DEF GInv, BInv
<1>5. ASSUME NEW c \in Callers, Refreshes(c) PROVE GInv'
  BY <1>5, RefreshesKeeps
<1>6. CASE Draws \/ DrawsAgain \/ ExpectsRepaint \/ Repaints \/ Passes
  <2>1. UNCHANGED look /\ SessionMoves /\ UNCHANGED claude
    BY <1>6, PaintsMoves DEF Draws, DrawsAgain, ExpectsRepaint, Repaints, Passes, Paints
  <2>2. LiveOK'
    BY <1>6 DEF Draws, DrawsAgain, ExpectsRepaint, Repaints, Passes, Paints, Heard, RepaintOver,
                FallsQuiet, LiveOK, GInv
  <2> QED BY <1>3, <2>1, <2>2
<1>7. CASE Exits \/ MarksDead \/ Respawns
  <2>1. /\ SessionMoves /\ ClaudeOK' /\ UNCHANGED look
        /\ UNCHANGED claude \/ (claude'.doing \in {"gone", "rest"} /\ claude'.turns = claude.turns)
    BY <1>1, <1>7, DeathMoves DEF Exits, MarksDead, Respawns
  <2>2. LiveOK'
    BY <1>7 DEF Exits, MarksDead, Respawns, LiveOK, GInv
  <2>3. CASE UNCHANGED claude
    BY <1>3, <2>1, <2>2, <2>3
  <2>4. CASE claude'.doing \in {"gone", "rest"} /\ claude'.turns = claude.turns
    <3>1. ~Busy'
      BY <2>4 DEF Busy
    <3>2. LooksOK'
      BY <1>1, <2>1, <2>4, <3>1, LooksStay
    <3>3. BoundsOK'
      BY <1>1, <2>1, CostsKeeps DEF SessionMoves, BoundsOK
    <3>4. FilesOK'
      BY <1>1, <2>1 DEF SessionMoves, FilesOK
    <3> QED BY <2>1, <2>2, <3>1, <3>2, <3>3, <3>4 DEF GInv, BInv, TopOK
  <2> QED BY <2>1, <2>3, <2>4
<1>8. CASE UNCHANGED attentionVars
  <2>1. SessionMoves /\ UNCHANGED <<claude, look>> /\ LiveOK'
    BY <1>8 DEF attentionVars, claudeVars, SessionMoves, LiveOK, GInv
  <2> QED BY <1>3, <2>1
<1> QED BY <1>2, <1>4, <1>5, <1>6, <1>7, <1>8 DEF AttentionNext, Converses

LEMMA GInvHolds == AttentionSpec => []GInv
BY GInit, GNext, PTL DEF AttentionSpec

\* What a look makes of a transcript: idle and alive is neither spinning nor in a turn.
LEMMA LearnsIdle ==
  ASSUME GInv, NEW c \in Callers, NEW turn, Learns(c, turn), live'.attention = "idle", ~live'.dead
  PROVE  Verdict[live.mirror] # "spinning" /\ turn # "in-turn"
<1> DEFINE s == [live EXCEPT !.turn = turn]
<1>1. s.mirror = live.mirror /\ s.turn = turn /\ "attention" \in DOMAIN s /\ "dead" \in DOMAIN s
  BY DEF GInv, LiveOK, Clocks
<1>2. live' = [s EXCEPT !.attention = Classified(s.mirror, s.dead, s.quiet, s.turn)]
  BY DEF Learns, Reclassified
<1> HIDE DEF s
<1>3. live'.attention = Classified(s.mirror, s.dead, s.quiet, s.turn) /\ live'.dead = s.dead
  BY <1>1, <1>2
<1>4. Classified(s.mirror, s.dead, s.quiet, s.turn) = "idle" /\ ~s.dead
  BY <1>3
<1>5. Verdict[s.mirror] # "spinning" /\ s.turn # "in-turn"
  <2> DEFINE v == Verdict[s.mirror]
  <2>1. Classified(s.mirror, s.dead, s.quiet, s.turn) =
          CASE s.dead -> "idle"
            [] ~s.dead /\ v = "prompt" -> "needs-you"
            [] ~s.dead /\ v # "prompt" /\ ~s.quiet -> "working"
            [] OTHER -> IF s.turn = "in-turn" \/ v = "spinning" THEN "working"
                        ELSE IF v \in {"done", "nothing"} \/ s.turn = "between-turns"
                             THEN "idle" ELSE "working"
    BY DEF Classified
  <2> HIDE DEF v
  <2>2. v # "spinning" /\ s.turn # "in-turn"
    BY <1>4, <2>1
  <2> QED BY <2>2 DEF v
<1> QED BY <1>1, <1>5

LEMMA GreenStep ==
  ASSUME GInv, [AttentionNext]_attentionVars, NEW c \in Callers,
         look[c] # NoLook, look'[c] = NoLook, live'.attention = "idle", ~live'.dead,
         claude.doing = "turn", look[c].turn = claude.turns
  PROVE  /\ Verdict[live.mirror] # "spinning"
         /\ ~Asked \/ stale \/ (look[c].at = "reading" /\ look[c].old) \/ budget' # budget
<1>1. PICK d \in Callers : Refreshes(d)
  <2>1. ~UNCHANGED look
    OBVIOUS
  <2> QED BY <2>1 DEF AttentionNext, attentionVars, Converses, Draws, DrawsAgain, ExpectsRepaint,
                      Repaints, Passes, Exits, MarksDead, Respawns, Paints
<1>2. d = c
  <2>1. look = [k \in Callers |-> look[k]]
    BY DEF GInv, LooksOK
  <2>2. \E l : look' = [look EXCEPT ![d] = l]
    BY <1>1, <2>1 DEF Refreshes, Looks, Finds, ReadsTail, Learns
  <2> QED BY <2>1, <2>2
<1>3. ~Looks(c)
  BY DEF Looks
<1>4. CASE Finds(c)
  <2>1. \/ Newest = None /\ Learns(c, "unknown")
        \/ Newest # None /\ Cached(Newest) /\ Learns(c, TurnState(marks.kind, stale))
    <3>1. look' = [look EXCEPT ![c] = [at |-> "reading", turn |-> look[c].turn, path |-> Newest,
                                       stamp |-> file[Newest].at, old |-> stale]]
          => look'[c].at = "reading"
      BY DEF GInv, LooksOK
    <3> QED BY <1>4, <3>1 DEF Finds, NoLook
  <2>2. CASE Newest = None /\ Learns(c, "unknown")
    BY <2>2, LearnsIdle DEF Asked
  <2>3. CASE Newest # None /\ Cached(Newest) /\ Learns(c, TurnState(marks.kind, stale))
    <3>1. Verdict[live.mirror] # "spinning" /\ TurnState(marks.kind, stale) # "in-turn"
      BY <2>3, LearnsIdle
    <3>2. Asked => marks.kind = "prompt"
      BY <2>3 DEF Asked, Slipped, Cached
    <3> QED BY <3>1, <3>2 DEF TurnState
  <2> QED BY <2>1, <2>2, <2>3
<1>5. CASE ReadsTail(c)
  <2> DEFINE kind == NewestMark(file[look[c].path].lines)
  <2>1. CASE Learns(c, TurnState(kind, look[c].old)) /\ look[c].at = "reading"
    <3>1. Verdict[live.mirror] # "spinning" /\ TurnState(kind, look[c].old) # "in-turn"
      BY <2>1, LearnsIdle
    <3>2. look[c].path = claude.file /\ claude.file \in Files /\ Tops(file, claude.file)
      BY <2>1 DEF GInv, LooksOK, LookOK, Busy, TopOK, BInv, ClaudeOK
    <3>3. Asked => kind = "prompt"
      BY <3>2, NewestIsTop DEF Asked, GInv, BInv
    <3> QED BY <2>1, <3>1, <3>3 DEF TurnState
  <2>2. CASE Costs("unreadable") /\ Learns(c, "unknown")
    <3>1. budget' # budget
      BY <2>2, CostsKeeps DEF GInv, BInv, Events
    <3> QED BY <2>2, <3>1, LearnsIdle
  <2> QED BY <1>5, <2>1, <2>2 DEF ReadsTail
<1> QED BY <1>1, <1>2, <1>3, <1>4, <1>5 DEF Refreshes

\* A look that falls into one turn whole does not turn the window green while the
\* transcript tells of a prompt, for any number of transcripts, lines and screens.
THEOREM NotGreen == AttentionSpec => NotGreenInTurn
<1> DEFINE NG == \A c \in Callers :
             /\ look[c] # NoLook /\ look'[c] = NoLook /\ live'.attention = "idle" /\ ~live'.dead
             /\ claude.doing = "turn" /\ look[c].turn = claude.turns
             => /\ Verdict[live.mirror] # "spinning"
                /\ ~Asked \/ stale \/ (look[c].at = "reading" /\ look[c].old) \/ budget' # budget
<1>1. GInv /\ [AttentionNext]_attentionVars => [NG]_attentionVars
  BY GreenStep
<1> QED BY <1>1, GInvHolds, PTL DEF AttentionSpec, NotGreenInTurn
=============================================================================
