------------------------ MODULE PanelsUpdate_proofs -------------------------
(***************************************************************************)
(* The panels, the dialog and the update, for any files, machines, paths,  *)
(* commits, pulls and bounds: a listing misses nothing that differed all   *)
(* along, the usage on screen is never older than two polls, a text stays  *)
(* its own file's, the rev a page holds is that of the text it shows, and  *)
(* a path is opened on the machine it was given for; a pull that ends      *)
(* leaves a server running, a commit that would not come up is given up    *)
(* once, and a page goes on waiting for the update it was promised.        *)
(* The panels' parts, and the update beside them, share no state: each     *)
(* part's invariant is kept by that part's steps, and the other panels'    *)
(* steps leave the state it reads alone.                                   *)
(***************************************************************************)
EXTENDS MCPanels, Update, FiniteSetTheorems, TLAPS

LEMMA Element == ASSUME NEW S, NEW s \in Seq(S) PROVE \A i \in DOMAIN s : s[i] \in S
OBVIOUS

LEMMA Joined ==
  ASSUME NEW S, NEW u \in Seq(S), NEW w \in Seq(S)
  PROVE  u \o w \in Seq(S) /\ Len(u \o w) = Len(u) + Len(w)
OBVIOUS

\* A sequence less one element: the ones after it move down by one.
LEMMA WithoutOne ==
  ASSUME NEW S, NEW s \in Seq(S), NEW i \in 1..Len(s)
  PROVE  /\ Without(s, i) \in Seq(S) /\ Len(Without(s, i)) = Len(s) - 1
         /\ \A k \in 1..Len(s) - 1 : Without(s, i)[k] = s[IF k < i THEN k ELSE k + 1]
<1> DEFINE u == SubSeq(s, 1, i - 1)
           w == SubSeq(s, i + 1, Len(s))
<1>1. /\ u \in Seq(S) /\ Len(u) = i - 1 /\ \A k \in 1..Len(u) : u[k] = s[k]
      /\ w \in Seq(S) /\ Len(w) = Len(s) - i /\ \A k \in 1..Len(w) : w[k] = s[k + i]
  OBVIOUS
<1> HIDE DEF u, w
<1>2. /\ u \o w \in Seq(S) /\ Len(u \o w) = Len(s) - 1
      /\ \A k \in 1..Len(s) - 1 : (u \o w)[k] = IF k <= i - 1 THEN u[k] ELSE w[k - (i - 1)]
  <2>1. u \o w \in Seq(S) /\ Len(u \o w) = Len(u) + Len(w)
    BY <1>1, Joined
  <2>2. \A k \in 1..Len(u) + Len(w) : (u \o w)[k] = IF k <= Len(u) THEN u[k] ELSE w[k - Len(u)]
    BY <1>1
  <2> QED BY <1>1, <2>1, <2>2
<1>3. \A k \in 1..Len(s) - 1 : (u \o w)[k] = s[IF k < i THEN k ELSE k + 1]
  <2> SUFFICES ASSUME NEW k \in 1..Len(s) - 1 PROVE (u \o w)[k] = s[IF k < i THEN k ELSE k + 1]
    OBVIOUS
  <2>1. CASE k < i
    BY <1>1, <1>2, <2>1
  <2>2. CASE ~(k < i)
    BY <1>1, <1>2, <2>2
  <2> QED BY <2>1, <2>2
<1> QED BY <1>2, <1>3 DEF Without, u, w

LEMMA WithoutHas ==
  ASSUME NEW S, NEW s \in Seq(S), NEW i \in 1..Len(s)
  PROVE  /\ Without(s, i) \in Seq(S)
         /\ \A k \in 1..Len(Without(s, i)) : \E j \in 1..Len(s) : Without(s, i)[k] = s[j]
<1> SUFFICES ASSUME NEW k \in 1..Len(Without(s, i))
             PROVE  \E j \in 1..Len(s) : Without(s, i)[k] = s[j]
  BY WithoutOne
<1>1. k \in 1..Len(s) - 1 /\ (IF k < i THEN k ELSE k + 1) \in 1..Len(s)
  BY WithoutOne
<1> QED BY <1>1, WithoutOne

-----------------------------------------------------------------------------
(* Changes.                                                                *)

Texts == 0..work
Row0 == [f : File, untracked : BOOLEAN]
Listing == [uncommitted : SUBSET Row0, commits : Seq(Texts), scope : {"ahead", "recent"}]
ListRead == [at : {"asked", "status", "ahead", "read"}, shown : Listing, kept : SUBSET File]

TreeOK ==
  /\ work \in Nat /\ base \in BOOLEAN
  /\ text \in [File -> Texts]
  /\ tree \in [0..MaxWork -> [File -> Texts]] /\ parent \in [0..MaxWork -> Texts]
  /\ work \in 0..MaxWork
  /\ history \in Seq(Texts) /\ Len(history) >= 1

\* What a commit of the line holds other than its base, one since brought in.
LineOK ==
  \A k \in 1..Len(history) : \A f \in File :
    tree[history[k]][f] # tree[history[1]][f] => \E i \in 2..k : f \in Touched(history[i])

\* What has differed all along is in the listing already, or still to be read.
ListOK ==
  list # Null =>
    /\ list \in ListRead
    /\ list.kept \subseteq Outstanding
    /\ list.at # "read" => list.shown.scope = "recent"
    /\ list.at \in {"status", "ahead"} =>
         \A f \in list.kept : \/ \E c \in list.shown.uncommitted : c.f = f
                              \/ tree[Tip][f] # tree[history[1]][f]
    /\ list.at = "read" /\ (list.shown.scope = "ahead" \/ Len(history) <= Recent) =>
         list.kept \subseteq Mentioned(list.shown)

CInv == TreeOK /\ LineOK /\ ListOK

LEMMA CInit == ASSUME NEW e, ChangesInit(e) PROVE CInv
<1> USE ChangesAssumption DEF ChangesInit
<1>1. TreeOK
  BY DEF TreeOK, Texts
<1>2. LineOK
  BY DEF LineOK
<1>3. ListOK
  BY DEF ListOK
<1> QED BY <1>1, <1>2, <1>3 DEF CInv

\* The agent's steps leave the listing alone but for what it puts back.
LEMMA EditKeeps == ASSUME CInv, NEW f \in File, Edits(f) PROVE CInv'
<1> USE ChangesAssumption DEF Texts
<1>0. TreeOK /\ LineOK /\ ListOK
  BY DEF CInv
<1>1. /\ work' = work + 1 /\ work < MaxWork /\ text' = [text EXCEPT ![f] = work + 1]
      /\ UNCHANGED <<tree, parent, history, base, list, diff, panel>>
  BY DEF Edits
<1>2. TreeOK'
  BY <1>0, <1>1 DEF TreeOK
<1>3. LineOK'
  BY <1>0, <1>1 DEF LineOK, Touched
<1>4. ListOK'
  <2>1. SUFFICES ASSUME list # Null PROVE ListOK'
    BY <1>1 DEF ListOK
  <2>2. Outstanding \subseteq Outstanding'
    BY <1>0, <1>1, ChangesAssumption DEF Outstanding, TreeOK
  <2>3. list' \in ListRead'
    BY <1>0, <1>1, <2>1 DEF ListOK, ListRead, Listing, TreeOK
  <2>4. Mentioned(list.shown)' = Mentioned(list.shown)
    BY <1>1 DEF Mentioned, Touched
  <2> QED BY <1>0, <1>1, <2>1, <2>2, <2>3, <2>4 DEF ListOK, Tip
<1> QED BY <1>2, <1>3, <1>4 DEF CInv

LEMMA PutBackKeeps == ASSUME CInv, NEW f \in File, PutsBack(f) PROVE CInv'
<1> USE ChangesAssumption DEF Texts
<1>0. TreeOK /\ LineOK /\ ListOK
  BY DEF CInv
<1>1. /\ text' = [text EXCEPT ![f] = tree[Tip][f]]
      /\ StillOutstanding(IF tree[Tip][f] = tree[history[1]][f] THEN {f} ELSE {})
      /\ UNCHANGED <<tree, parent, history, base, work, diff, panel>>
  BY DEF PutsBack
<1>2. TreeOK'
  BY <1>0, <1>1 DEF TreeOK, Tip
<1>3. LineOK'
  BY <1>0, <1>1 DEF LineOK, Touched
<1>4. ListOK'
  <2>1. SUFFICES ASSUME list # Null PROVE ListOK'
    BY <1>1 DEF ListOK, StillOutstanding
  <2>2. list' = [list EXCEPT !.kept = @ \ (IF tree[Tip][f] = tree[history[1]][f] THEN {f} ELSE {})]
    BY <1>1, <2>1 DEF StillOutstanding
  <2>3. list \in ListRead
    BY <1>0, <2>1 DEF ListOK
  <2>4. list' \in ListRead /\ list'.at = list.at /\ list'.shown = list.shown /\ list'.kept \subseteq list.kept
    BY <2>2, <2>3 DEF ListRead
  <2>5. list'.kept \subseteq Outstanding'
    BY <1>0, <1>1, <2>1, <2>2, <2>3 DEF ListOK, ListRead, Outstanding, TreeOK
  <2>6. Mentioned(list.shown)' = Mentioned(list.shown)
    BY <1>1, <2>4 DEF Mentioned, Touched
  <2>7. list' \in ListRead'
    BY <1>1, <2>4 DEF ListRead, Listing
  <2> QED BY <1>0, <1>1, <2>1, <2>4, <2>5, <2>6, <2>7 DEF ListOK, Tip
<1> QED BY <1>2, <1>3, <1>4 DEF CInv

LEMMA CommitKeeps ==
  ASSUME CInv, NEW line \in Seq(Texts), Len(line) >= 1, Len(line) >= Len(history) - 1,
         \A i \in 1..Len(line) : line[i] = history[i] /\ i \in 1..Len(history),
         CommitsOn(line)
  PROVE  CInv'
<1> USE ChangesAssumption DEF Texts
<1>0. TreeOK /\ LineOK /\ ListOK
  BY DEF CInv
<1>1. /\ work' = work + 1 /\ work < MaxWork
      /\ tree' = [tree EXCEPT ![work + 1] = text]
      /\ parent' = [parent EXCEPT ![work + 1] = line[Len(line)]]
      /\ history' = Append(line, work + 1)
      /\ UNCHANGED <<text, base, list, diff, panel>>
  BY DEF CommitsOn
<1>2. TreeOK'
  <2>1. line[Len(line)] \in 0..work
    BY <1>0 DEF TreeOK
  <2>2. line \in Seq(0..(work + 1)) /\ history' \in Seq(0..(work + 1)) /\ Len(history') >= 1
    BY <1>0, <1>1 DEF TreeOK
  <2> QED BY <1>0, <1>1, <2>1, <2>2 DEF TreeOK
<1>3. \A c \in 0..work : tree'[c] = tree[c] /\ parent'[c] = parent[c] /\ Touched(c)' = Touched(c)
  <2>1. SUFFICES ASSUME NEW c \in 0..work
                 PROVE  tree'[c] = tree[c] /\ parent'[c] = parent[c] /\ Touched(c)' = Touched(c)
    OBVIOUS
  <2>2. tree'[c] = tree[c] /\ parent'[c] = parent[c]
    BY <1>0, <1>1 DEF TreeOK
  <2>3. parent[c] \in 0..work
    BY <1>0 DEF TreeOK
  <2>4. tree'[parent[c]] = tree[parent[c]]
    BY <1>0, <1>1, <2>3 DEF TreeOK
  <2> QED BY <2>2, <2>4 DEF Touched
<1>4. /\ Len(history') = Len(line) + 1 /\ history'[Len(line) + 1] = work + 1 /\ Tip' = work + 1
      /\ history'[1] = history[1]
      /\ \A i \in 1..Len(line) : history'[i] = history[i] /\ history[i] \in 0..work
  BY <1>0, <1>1 DEF TreeOK, Tip
<1>5. tree'[work + 1] = text
  BY <1>0, <1>1 DEF TreeOK
<1>6. LineOK'
  <2>1. SUFFICES ASSUME NEW k \in 1..Len(history'), NEW f \in File,
                        tree'[history'[k]][f] # tree'[history'[1]][f]
                 PROVE  \E i \in 2..k : f \in Touched(history[i])'
    BY DEF LineOK
  <2>2. history[1] \in 0..work /\ history'[1] = history[1] /\ tree'[history'[1]] = tree[history[1]]
    BY <1>0, <1>3, <1>4 DEF TreeOK
  <2>3. ASSUME NEW j \in 1..Len(line), tree[history[j]][f] # tree[history[1]][f], j <= k
        PROVE  \E i \in 2..k : f \in Touched(history[i])'
    <3>1. PICK i \in 2..j : f \in Touched(history[i])
      BY <1>0, <2>3 DEF LineOK, TreeOK
    <3>2. i \in 1..Len(line) /\ i \in 2..k /\ history'[i] = history[i] /\ history[i] \in 0..work
      BY <1>4, <2>3, <3>1
    <3>3. Touched(history[i])' = Touched(history[i])
      BY <1>3, <3>2 DEF Touched
    <3> QED BY <3>1, <3>2, <3>3
  <2>4. CASE k \in 1..Len(line)
    BY <1>3, <1>4, <2>1, <2>2, <2>3, <2>4
  <2>5. CASE k = Len(line) + 1
    <3> DEFINE l == Len(line)
    <3>1. l \in 1..Len(line) /\ history[l] \in 0..work /\ line[l] = history[l]
      BY <1>4
    <3>2. parent'[work + 1] = history[l] /\ tree'[history[l]] = tree[history[l]]
      BY <1>0, <1>1, <1>3, <3>1 DEF TreeOK
    <3>3. CASE tree[history[l]][f] # tree[history[1]][f]
      BY <2>3, <2>5, <3>1, <3>3
    <3>4. CASE tree[history[l]][f] = tree[history[1]][f]
      <4>1. f \in Touched(history[k])'
        BY <1>4, <2>1, <2>2, <2>5, <3>2, <3>4 DEF Touched
      <4>2. k \in 2..k
        BY <2>5
      <4> QED BY <4>1, <4>2
    <3> QED BY <3>3, <3>4
  <2> QED BY <1>4, <2>4, <2>5
<1>7. ListOK'
  <2>1. SUFFICES ASSUME list # Null PROVE ListOK'
    BY <1>1 DEF ListOK
  <2>2. list \in ListRead /\ list' = list
    BY <1>0, <1>1, <2>1 DEF ListOK
  <2>3. list' \in ListRead'
    <3>1. Seq(0..work) \subseteq Seq(0..(work + 1))
      BY <1>0 DEF TreeOK
    <3> QED BY <1>1, <2>2, <3>1 DEF ListRead, Listing
  <2>4. history[1] \in 0..work /\ tree'[history'[1]] = tree[history[1]]
    BY <1>0, <1>3, <1>4 DEF TreeOK
  <2>5. Outstanding' = Outstanding
    BY <1>1, <2>4 DEF Outstanding
  <2>6. \A f \in list.kept : tree'[Tip'][f] # tree'[history'[1]][f]
    BY <1>0, <1>4, <1>5, <2>1, <2>4 DEF ListOK, Outstanding
  <2>7. \A i \in DOMAIN list.shown.commits : Touched(list.shown.commits[i])' = Touched(list.shown.commits[i])
    <3>1. SUFFICES ASSUME NEW i \in DOMAIN list.shown.commits
                   PROVE  Touched(list.shown.commits[i])' = Touched(list.shown.commits[i])
      OBVIOUS
    <3>2. list.shown.commits \in Seq(0..work)
      BY <2>2 DEF ListRead, Listing
    <3>3. list.shown.commits[i] \in 0..work
      BY <3>2, Element
    <3> QED BY <1>3, <2>2, <3>3 DEF Touched
  <2>8. Mentioned(list.shown)' = Mentioned(list.shown)
    BY <2>2, <2>7 DEF Mentioned
  <2>9. Len(history') <= Recent => Len(history) <= Recent
    BY <1>0, <1>4, ChangesAssumption DEF TreeOK
  <2> QED BY <1>0, <1>1, <2>1, <2>2, <2>3, <2>5, <2>6, <2>8, <2>9 DEF ListOK
<1> QED BY <1>2, <1>6, <1>7 DEF CInv

LEMMA CommitsKeeps == ASSUME CInv, Commits PROVE CInv'
<1>1. history \in Seq(Texts) /\ Len(history) >= 1
  BY DEF CInv, TreeOK
<1>2. CommitsOn(history)
  BY DEF Commits
<1> QED BY <1>1, <1>2, CommitKeeps

LEMMA AmendsKeeps == ASSUME CInv, Amends PROVE CInv'
<1>1. history \in Seq(Texts) /\ Len(history) > 1
  BY DEF CInv, TreeOK, Amends
<1> DEFINE line == SubSeq(history, 1, Len(history) - 1)
<1>2. /\ line \in Seq(Texts) /\ Len(line) = Len(history) - 1
      /\ \A i \in 1..Len(line) : line[i] = history[i] /\ i \in 1..Len(history)
  BY <1>1
<1>3. CommitsOn(line) /\ Len(line) >= 1 /\ Len(line) >= Len(history) - 1
  BY <1>1, <1>2 DEF Amends
<1> HIDE DEF line
<1> QED BY <1>1, <1>2, <1>3, CommitKeeps

LEMMA BaseGoneKeeps == ASSUME CInv, BaseGoes PROVE CInv'
<1>0. base' = FALSE /\ UNCHANGED <<text, tree, parent, history, work, list, diff, panel>>
  BY DEF BaseGoes
<1>1. TreeOK' /\ LineOK'
  <2>1. TreeOK'
    BY <1>0 DEF CInv, TreeOK, Texts
  <2> QED BY <1>0, <2>1 DEF CInv, LineOK, Touched
<1>2. ListOK'
  BY DEF CInv, ListOK, BaseGoes, Touched, Texts, Tip, Outstanding, Mentioned, ListRead, Listing
<1> QED BY <1>1, <1>2 DEF CInv

\* Whatever becomes of the listing, the rest of the worktree being as it was.
LEMMA ListStep ==
  ASSUME CInv, UNCHANGED worktree,
         list' # Null =>
           /\ list' \in ListRead
           /\ list'.kept \subseteq Outstanding
           /\ list'.at # "read" => list'.shown.scope = "recent"
           /\ list'.at \in {"status", "ahead"} =>
                \A f \in list'.kept : \/ \E c \in list'.shown.uncommitted : c.f = f
                                      \/ tree[Tip][f] # tree[history[1]][f]
           /\ list'.at = "read" /\ (list'.shown.scope = "ahead" \/ Len(history) <= Recent) =>
                list'.kept \subseteq Mentioned(list'.shown)
  PROVE  CInv'
<1>1. TreeOK' /\ LineOK'
  BY DEF CInv, TreeOK, LineOK, worktree, Touched, Texts
<1>2. ListRead' = ListRead /\ Outstanding' = Outstanding /\ Tip' = Tip
  BY DEF worktree, ListRead, Listing, Texts, Outstanding, Tip
<1>3. Mentioned(list.shown)' = Mentioned(list'.shown)
  BY DEF worktree, Mentioned, Touched
<1>4. ListOK'
  BY <1>2, <1>3 DEF ListOK, worktree
<1> QED BY <1>1, <1>4 DEF CInv

LEMMA AsksListing == ASSUME CInv, NEW p, ListingEffect(p), UNCHANGED worktree PROVE CInv'
<1> DEFINE r == [at |-> "asked", shown |-> NoListing, kept |-> Outstanding]
<1>1. r \in ListRead /\ r.kept = Outstanding /\ r.at = "asked" /\ r.shown.scope = "recent"
  BY DEF ListRead, Listing, NoListing, Outstanding, Row0
<1>2. list' = r \/ list' = Null
  BY DEF ListingEffect
<1> HIDE DEF r
<1> QED BY <1>1, <1>2, ListStep

LEMMA StatusKeeps == ASSUME CInv, ReadsStatus PROVE CInv'
<1> DEFINE r == [list EXCEPT !.shown.uncommitted = Uncommitted, !.at = "status"]
<1>0. list # Null /\ list.at = "asked" /\ list' = r /\ UNCHANGED worktree
  BY DEF ReadsStatus, ListAt
<1>1. list \in ListRead /\ list.kept \subseteq Outstanding /\ list.shown.scope = "recent"
  BY <1>0 DEF CInv, ListOK
<1>2. Uncommitted \subseteq Row0
  <2>1. SUFFICES ASSUME NEW c \in Uncommitted PROVE c \in Row0
    OBVIOUS
  <2>2. PICK f \in File : c = [f |-> f, untracked |-> tree[Tip][f] = 0]
    BY DEF Uncommitted
  <2>3. PICK b1 \in BOOLEAN : b1 = (tree[Tip][f] = 0)
    OBVIOUS
  <2>4. c = [f |-> f, untracked |-> b1]
    BY <2>2, <2>3, Zenon
  <2> QED BY <2>4 DEF Row0
<1>3. /\ r \in ListRead /\ r.at = "status" /\ r.kept = list.kept
      /\ r.shown.scope = "recent" /\ r.shown.uncommitted = Uncommitted
  BY <1>1, <1>2 DEF ListRead, Listing
<1>4. \A f \in list.kept : \/ \E c \in Uncommitted : c.f = f
                           \/ tree[Tip][f] # tree[history[1]][f]
  <2>1. SUFFICES ASSUME NEW f \in list.kept, tree[Tip][f] = tree[history[1]][f]
                 PROVE  \E c \in Uncommitted : c.f = f
    OBVIOUS
  <2>2. f \in File /\ text[f] # tree[Tip][f]
    BY <1>1, <2>1 DEF Outstanding
  <2>3. [f |-> f, untracked |-> tree[Tip][f] = 0] \in Uncommitted
    BY <2>2 DEF Uncommitted
  <2> QED BY <2>3
<1> HIDE DEF r
<1> QED BY <1>0, <1>1, <1>3, <1>4, ListStep

LEMMA RefusedKeeps == ASSUME CInv, StatusRefused PROVE CInv'
<1> DEFINE r == [list EXCEPT !.at = "read", !.kept = {}]
<1>0. list # Null /\ list' = r /\ UNCHANGED worktree
  BY DEF StatusRefused, ListAt
<1>1. list \in ListRead
  BY <1>0 DEF CInv, ListOK
<1>2. r \in ListRead /\ r.at = "read" /\ r.kept = {}
  BY <1>1 DEF ListRead
<1> HIDE DEF r
<1> QED BY <1>0, <1>2, ListStep

\* What the base's own tree does not hold is in a commit of the line.
LEMMA AheadMentions ==
  ASSUME CInv, NEW f \in File, tree[Tip][f] # tree[history[1]][f]
  PROVE  \E i \in 2..Len(history) : f \in Touched(history[i])
BY DEF CInv, TreeOK, LineOK, Tip

LEMMA AheadKeeps == ASSUME CInv, ReadsAhead PROVE CInv'
<1>0. list # Null /\ list.at = "status" /\ UNCHANGED worktree
  BY DEF ReadsAhead, ListAt
<1>1. /\ list \in ListRead /\ list.kept \subseteq Outstanding /\ list.shown.scope = "recent"
      /\ \A f \in list.kept : \/ \E c \in list.shown.uncommitted : c.f = f
                              \/ tree[Tip][f] # tree[history[1]][f]
  BY <1>0 DEF CInv, ListOK
<1>2. CASE base /\ Ahead # <<>>
  <2> DEFINE r == [list EXCEPT !.shown.commits = Ahead, !.shown.scope = "ahead", !.at = "read"]
  <2>1. history \in Seq(Texts) /\ Len(history) >= 1
    BY DEF CInv, TreeOK
  <2>2. Ahead \in Seq(Texts) /\ \A i \in 2..Len(history) : i - 1 \in DOMAIN Ahead /\ Ahead[i - 1] = history[i]
    BY <2>1 DEF Ahead
  <2>3. list' = r
    BY <1>2 DEF ReadsAhead
  <2>4. /\ r \in ListRead /\ r.at = "read" /\ r.kept = list.kept
        /\ r.shown.uncommitted = list.shown.uncommitted /\ r.shown.commits = Ahead
    BY <1>1, <2>2 DEF ListRead, Listing
  <2> HIDE DEF r
  <2>5. r.kept \subseteq Mentioned(r.shown)
    <3>1. SUFFICES ASSUME NEW f \in list.kept PROVE f \in Mentioned(r.shown)
      BY <2>4
    <3>2. f \in File
      BY <1>1 DEF Outstanding
    <3>3. CASE \E c \in list.shown.uncommitted : c.f = f
      BY <2>4, <3>3 DEF Mentioned
    <3>4. CASE tree[Tip][f] # tree[history[1]][f]
      <4>1. PICK i \in 2..Len(history) : f \in Touched(history[i])
        BY <3>2, <3>4, AheadMentions
      <4> QED BY <2>2, <2>4, <4>1 DEF Mentioned
    <3> QED BY <1>1, <3>3, <3>4
  <2> QED BY <1>0, <1>1, <2>3, <2>4, <2>5, ListStep
<1>3. CASE ~(base /\ Ahead # <<>>)
  <2> DEFINE r == [list EXCEPT !.at = "ahead"]
  <2>1. list' = r
    BY <1>3 DEF ReadsAhead
  <2>2. r \in ListRead /\ r.at = "ahead" /\ r.kept = list.kept /\ r.shown = list.shown
    BY <1>1 DEF ListRead
  <2> HIDE DEF r
  <2> QED BY <1>0, <1>1, <2>1, <2>2, ListStep
<1> QED BY <1>2, <1>3

LEMMA RecentKeeps == ASSUME CInv, ReadsRecent PROVE CInv'
<1> DEFINE r == [list EXCEPT !.shown.commits = LastFew, !.at = "read"]
<1>0. list # Null /\ list.at = "ahead" /\ list' = r /\ UNCHANGED worktree
  BY DEF ReadsRecent, ListAt
<1>1. /\ list \in ListRead /\ list.kept \subseteq Outstanding /\ list.shown.scope = "recent"
      /\ \A f \in list.kept : \/ \E c \in list.shown.uncommitted : c.f = f
                              \/ tree[Tip][f] # tree[history[1]][f]
  BY <1>0 DEF CInv, ListOK
<1>2. history \in Seq(Texts) /\ Len(history) >= 1
  BY DEF CInv, TreeOK
<1>3. LastFew \in Seq(Texts)
  BY <1>2, ChangesAssumption DEF LastFew
<1>4. Len(history) <= Recent => LastFew = history
  BY <1>2, ChangesAssumption DEF LastFew
<1>5. /\ r \in ListRead /\ r.at = "read" /\ r.kept = list.kept /\ r.shown.scope = "recent"
      /\ r.shown.uncommitted = list.shown.uncommitted /\ r.shown.commits = LastFew
  BY <1>1, <1>3 DEF ListRead, Listing
<1> HIDE DEF r
<1>6. Len(history) <= Recent => r.kept \subseteq Mentioned(r.shown)
  <2>1. SUFFICES ASSUME Len(history) <= Recent, NEW f \in list.kept PROVE f \in Mentioned(r.shown)
    BY <1>5
  <2>2. f \in File
    BY <1>1 DEF Outstanding
  <2>3. CASE \E c \in list.shown.uncommitted : c.f = f
    BY <1>5, <2>3 DEF Mentioned
  <2>4. CASE tree[Tip][f] # tree[history[1]][f]
    <3>1. PICK i \in 2..Len(history) : f \in Touched(history[i])
      BY <2>2, <2>4, AheadMentions
    <3>2. i \in DOMAIN history
      BY <1>2
    <3> QED BY <1>4, <1>5, <2>1, <3>1, <3>2 DEF Mentioned
  <2> QED BY <1>1, <2>3, <2>4
<1> QED BY <1>0, <1>1, <1>5, <1>6, ListStep

\* The page's other steps drop the listing or leave it.
LEMMA OtherStep == ASSUME CInv, UNCHANGED worktree, list' \in {list, Null} PROVE CInv'
<1>1. list' # Null => list' = list /\ list # Null
  OBVIOUS
<1> QED BY <1>1, ListStep DEF CInv, ListOK

LEMMA CStep == ASSUME CInv, [ChangesNext]_changesVars PROVE CInv'
<1>1. CASE AgentWorks
  BY <1>1, EditKeeps, PutBackKeeps, CommitsKeeps, AmendsKeeps, BaseGoneKeeps DEF AgentWorks
<1>2. CASE GitAnswers
  <2>1. CASE ReadsDiff
    BY <2>1, OtherStep DEF ReadsDiff
  <2> QED BY <1>2, <2>1, StatusKeeps, AheadKeeps, RecentKeeps, RefusedKeeps DEF GitAnswers, ReadsListing
<1>3. CASE PageReads
  <2>1. CASE PollsGit
    BY <2>1, AsksListing DEF PollsGit
  <2>2. CASE ListingArrives
    BY <2>2, OtherStep DEF ListingArrives
  <2>3. CASE PatchArrives
    BY <2>3, OtherStep DEF PatchArrives
  <2>4. CASE ListingFails
    BY <2>4, OtherStep DEF ListingFails
  <2>5. CASE PatchFails
    BY <2>5, OtherStep DEF PatchFails
  <2> QED BY <1>3, <2>1, <2>2, <2>3, <2>4, <2>5 DEF PageReads
<1>4. CASE PersonReads
  <2>1. CASE SelectsFile
    BY <2>1, OtherStep DEF SelectsFile, Selects
  <2>2. CASE SelectsCommit
    BY <2>2, OtherStep DEF SelectsCommit, Selects
  <2>3. CASE SelectsMode
    BY <2>3, OtherStep DEF SelectsMode, Selects
  <2>4. CASE Turns
    <3>1. PICK p : ListingEffect(p) /\ UNCHANGED worktree
      BY <2>4 DEF Turns
    <3> QED BY <3>1, AsksListing
  <2> QED BY <1>4, <2>1, <2>2, <2>3, <2>4 DEF PersonReads
<1>5. CASE UNCHANGED changesVars
  BY <1>5, OtherStep DEF changesVars, worktree
<1> QED BY <1>1, <1>2, <1>3, <1>4, <1>5 DEF ChangesNext

\* What has differed from the base all the while a listing was read is in it,
\* as far back as the listing goes: git status and git log are two reads, with
\* the agent's edits, commits and amends between them (git/changes.ts).
THEOREM NothingIsMissed == Spec => []NothingMissed
<1>1. Init => CInv
  BY CInit DEF Init
<1>2. CInv /\ [Next]_vars => CInv'
  <2>1. [Next]_vars => [ChangesNext]_changesVars
    BY DEF Next, vars, changesVars
  <2> QED BY <2>1, CStep
<1>3. CInv => NothingMissed
  BY DEF CInv, ListOK, NothingMissed, ListAt
<1> QED BY <1>1, <1>2, <1>3, PTL DEF Spec

-----------------------------------------------------------------------------
(* Usage.                                                                *)

Tab == [front : BOOLEAN, due : Nat, missed : BOOLEAN]
Asked == [since : Nat, lost : SUBSET Boxes, got : [Boxes -> MachineUsage \cup {Unknown}]]

\* The next poll is never more than one interval off.
ClockOK == clock \in Nat /\ tab \in Tab /\ clock <= tab.due /\ tab.due <= clock + Ttl

CachedOK ==
  /\ spent \in [Accounts -> Nat] /\ cached \in [Boxes -> MachineUsage \cup {Unknown}]
  /\ \A m \in Boxes : cached[m] # Unknown =>
       cached[m].at <= clock /\ (cached[m].error = FALSE => cached[m].of = cached[m].at)

\* What a machine started last is still running, or its answer is in the cache.
PaceOK ==
  /\ hasty = FALSE
  /\ reading \in [Boxes -> Nat \cup {Unknown}] /\ started \in [Boxes -> Nat \cup {Unknown}]
  /\ \A m \in Boxes : started[m] # Unknown =>
       /\ started[m] <= clock
       /\ reading[m] = Unknown => cached[m] # Unknown /\ started[m] <= cached[m].at

\* No older than the request allows.
Recently(r, t) == r # Unknown /\ r.error = FALSE => t < r.of + Ttl
AskedOK ==
  /\ asked \subseteq Asked
  /\ \A q \in asked : /\ q.since <= clock /\ clock <= q.since + 1
                      /\ \A m \in Boxes : Recently(q.got[m], q.since)

RingsOK ==
  /\ \A m \in DOMAIN rings : rings[m] \in MachineUsage
  /\ tab.front /\ asked = {} /\ ~tab.missed =>
       \A m \in DOMAIN rings : rings[m].error = FALSE => tab.due <= rings[m].of + 2 * Ttl

UInv == ClockOK /\ CachedOK /\ PaceOK /\ AskedOK /\ RingsOK

LEMMA Times == Ttl \in Nat /\ Ttl >= 1 /\ Unknown \notin Nat /\ Unknown \notin MachineUsage
BY UsageAssumption

LEMMA UInit == UsageInit => UInv
<1> SUFFICES ASSUME UsageInit PROVE UInv
  OBVIOUS
<1> USE Times DEF UsageInit
<1>1. ClockOK
  BY DEF ClockOK, Tab
<1>2. CachedOK
  BY DEF CachedOK
<1>3. PaceOK
  BY DEF PaceOK
<1>4. AskedOK
  BY DEF AskedOK
<1>5. RingsOK
  BY DEF RingsOK
<1> QED BY <1>1, <1>2, <1>3, <1>4, <1>5 DEF UInv

\* An answer that is of now, or an error, goes into the cache and to whoever waits.
LEMMA AnswerKeeps ==
  ASSUME UInv, NEW m \in Boxes, NEW r \in MachineUsage, Answer(m, r), r.at = clock,
         r.error = FALSE => r.of = clock,
         UNCHANGED <<clock, spent, started, hasty, rings, tab>>
  PROVE  UInv'
<1> USE Times
<1>0. /\ cached' = [cached EXCEPT ![m] = r] /\ reading' = [reading EXCEPT ![m] = Unknown]
      /\ asked' = {[q EXCEPT !.got[m] = IF @ = Unknown THEN r ELSE @] : q \in asked}
  BY DEF Answer
<1>1. ClockOK'
  BY DEF UInv, ClockOK
<1>2. CachedOK'
  BY <1>0 DEF UInv, CachedOK, ClockOK, MachineUsage
<1>3. PaceOK'
  BY <1>0 DEF UInv, PaceOK, CachedOK, ClockOK, MachineUsage
<1>4. AskedOK'
  <2>1. SUFFICES ASSUME NEW b1 \in asked'
                 PROVE  /\ b1 \in Asked /\ b1.since <= clock /\ clock <= b1.since + 1
                        /\ \A n \in Boxes : Recently(b1.got[n], b1.since)
    BY DEF AskedOK
  <2>2. PICK a1 \in asked : b1 = [a1 EXCEPT !.got[m] = IF @ = Unknown THEN r ELSE @]
    BY <1>0
  <2>3. /\ a1 \in Asked /\ a1.since <= clock /\ clock <= a1.since + 1
        /\ \A n \in Boxes : Recently(a1.got[n], a1.since)
    BY DEF UInv, AskedOK
  <2>4. b1 \in Asked /\ b1.since = a1.since /\ b1.got = [a1.got EXCEPT ![m] = IF @ = Unknown THEN r ELSE @]
    BY <2>2, <2>3 DEF Asked
  <2>5. Recently(r, a1.since)
    BY <2>3 DEF Recently, Asked, UInv, ClockOK
  <2> QED BY <2>3, <2>4, <2>5 DEF Asked
<1>5. RingsOK'
  <2>1. asked' = {} => asked = {}
    BY <1>0
  <2> QED BY <2>1 DEF UInv, RingsOK
<1> QED BY <1>1, <1>2, <1>3, <1>4, <1>5 DEF UInv

LEMMA ReadsKeeps == ASSUME UInv, NEW m \in Boxes, ReadsUsage(m) PROVE UInv'
<1> DEFINE r == [percent |-> spent[Account[m]], account |-> IF m \in Readable THEN Account[m] ELSE Unknown,
                 at |-> clock, of |-> clock, error |-> FALSE]
<1>1. r \in MachineUsage /\ r.at = clock /\ r.of = clock
  BY DEF MachineUsage, UInv, CachedOK, ClockOK, Accounts
<1>2. Answer(m, r) /\ UNCHANGED <<clock, spent, started, hasty, rings, tab>>
  BY DEF ReadsUsage
<1> HIDE DEF r
<1> QED BY <1>1, <1>2, AnswerKeeps

LEMMA FailsKeeps == ASSUME UInv, NEW m \in Boxes, UsageFails(m) PROVE UInv'
<1> DEFINE q == IF cached[m] = Unknown THEN NotRead ELSE cached[m]
<1>1. q \in MachineUsage
  BY DEF MachineUsage, UInv, CachedOK, NotRead
<1>2. Answer(m, Failed(q)) /\ UNCHANGED <<clock, spent, started, hasty, rings, tab>>
  BY DEF UsageFails
<1> HIDE DEF q
<1>3. Failed(q) \in MachineUsage /\ Failed(q).at = clock /\ Failed(q).error = TRUE
  BY <1>1 DEF Failed, MachineUsage, UInv, ClockOK
<1> QED BY <1>2, <1>3, AnswerKeeps

\* Only a machine with neither an answer in the cache nor a process starts one.
LEMMA StartsKeeps ==
  ASSUME UInv, NEW who \in SUBSET Starting, Starts(who), UNCHANGED <<clock, spent, cached>>
  PROVE  PaceOK'
<1> USE Times
<1>1. \A m \in who : m \in Boxes /\ reading[m] = Unknown /\ ~Cached(m)
  BY DEF Starting
<1>2. \A m \in who : started[m] # Unknown => ~(clock - started[m] < Ttl)
  <2>1. SUFFICES ASSUME NEW m \in who, started[m] # Unknown PROVE ~(clock - started[m] < Ttl)
    OBVIOUS
  <2>2. /\ m \in Boxes /\ cached[m] # Unknown /\ started[m] <= cached[m].at /\ started[m] \in Nat
        /\ cached[m] \in MachineUsage /\ ~(clock - cached[m].at < Ttl)
    BY <1>1, <2>1 DEF UInv, PaceOK, CachedOK, Cached
  <2>3. cached[m].at \in Nat /\ clock \in Nat
    BY <2>2 DEF MachineUsage, UInv, ClockOK
  <2> QED BY <2>2, <2>3
<1>3. hasty' = FALSE
  BY <1>2 DEF Starts, UInv, PaceOK
<1>4. /\ reading' \in [Boxes -> Nat \cup {Unknown}] /\ started' \in [Boxes -> Nat \cup {Unknown}]
      /\ \A m \in Boxes : started'[m] # Unknown =>
           /\ started'[m] <= clock
           /\ reading'[m] = Unknown => cached[m] # Unknown /\ started[m] <= cached[m].at /\ started'[m] = started[m]
  BY DEF Starts, UInv, PaceOK, ClockOK
<1> QED BY <1>3, <1>4 DEF PaceOK

LEMMA ElsewhereKeeps == ASSUME UInv, NEW m \in Boxes, AsksElsewhere(m) PROVE UInv'
<1>1. {m} \in SUBSET Starting /\ Starts({m}) /\ UNCHANGED <<clock, spent, cached, asked, rings, tab>>
  BY DEF AsksElsewhere
<1>2. PaceOK'
  BY <1>1, StartsKeeps
<1> QED BY <1>1, <1>2 DEF UInv, ClockOK, CachedOK, AskedOK, RingsOK

LEMMA UsesKeeps == ASSUME UInv, NEW m \in Boxes, Uses(Account[m]) PROVE UInv'
<1>1. spent' = [spent EXCEPT ![Account[m]] = @ + 1] /\ UNCHANGED <<clock, readings, asked, rings, tab>>
  BY DEF Uses
<1>2. spent' \in [Accounts -> Nat]
  BY <1>1 DEF UInv, CachedOK, Accounts
<1> QED BY <1>1, <1>2 DEF UInv, ClockOK, CachedOK, PaceOK, AskedOK, RingsOK, readings

\* A request takes what the caches hold that is fresh, and starts the others.
LEMMA RequestKeeps ==
  ASSUME UInv, NEW t \in Tab, Sent(t), clock <= t.due, t.due <= clock + Ttl
  PROVE  UInv'
<1> USE Times
<1> DEFINE q == [since |-> clock, lost |-> {}, got |-> [m \in Boxes |-> IF Cached(m) THEN cached[m] ELSE Unknown]]
<1>0. tab' = t /\ asked' = asked \cup {q} /\ Starts(Starting) /\ UNCHANGED <<clock, spent, cached, rings>>
  BY DEF Sent
<1>1. ClockOK'
  BY <1>0 DEF UInv, ClockOK
<1>2. CachedOK'
  BY <1>0 DEF UInv, CachedOK
<1>3. PaceOK'
  BY <1>0, StartsKeeps
<1>4. /\ q \in Asked /\ q.since = clock /\ \A m \in Boxes : Recently(q.got[m], q.since)
  <2>1. q \in Asked /\ q.since = clock
    BY DEF Asked, UInv, CachedOK, ClockOK
  <2>2. SUFFICES ASSUME NEW m \in Boxes, Cached(m), cached[m].error = FALSE
                 PROVE  clock < cached[m].of + Ttl
    BY <2>1 DEF Recently
  <2>3. cached[m] # Unknown /\ clock - cached[m].at < Ttl /\ cached[m].of = cached[m].at /\ cached[m] \in MachineUsage
    BY <2>2 DEF Cached, UInv, CachedOK
  <2>4. cached[m].at \in Nat /\ clock \in Nat
    BY <2>3 DEF MachineUsage, UInv, ClockOK
  <2> QED BY <2>3, <2>4
<1> HIDE DEF q
<1>5. AskedOK'
  BY <1>0, <1>4 DEF UInv, AskedOK, ClockOK, Asked
<1>6. RingsOK'
  BY <1>0 DEF UInv, RingsOK
<1> QED BY <1>1, <1>2, <1>3, <1>5, <1>6 DEF UInv

LEMMA PollsKeeps == ASSUME UInv, PollsUsage PROVE UInv'
<1> USE Times
<1> DEFINE t == [tab EXCEPT !.due = clock + Ttl]
<1>1. t \in Tab /\ t.due = clock + Ttl /\ t.front = tab.front /\ t.missed = tab.missed /\ clock \in Nat
  BY DEF UInv, ClockOK, Tab
<1>2. IF tab.front THEN Sent(t) ELSE tab' = t /\ UNCHANGED <<clock, spent, readings, asked, rings>>
  BY DEF PollsUsage
<1> HIDE DEF t
<1>3. CASE tab.front
  BY <1>1, <1>2, <1>3, RequestKeeps
<1>4. CASE ~tab.front
  BY <1>1, <1>2, <1>4 DEF UInv, ClockOK, CachedOK, PaceOK, AskedOK, RingsOK, readings
<1> QED BY <1>3, <1>4

LEMMA TabKeeps == ASSUME UInv, ChangesTab PROVE UInv'
<1> USE Times
<1> DEFINE t == [tab EXCEPT !.front = ~@]
<1>0. tab \in Tab
  BY DEF UInv, ClockOK
<1>1. t \in Tab /\ t.due = tab.due /\ (t.front \/ t.front = FALSE)
  BY <1>0 DEF Tab
<1>2. IF t.front THEN Sent(t) ELSE tab' = t /\ UNCHANGED <<clock, spent, readings, asked, rings>>
  BY DEF ChangesTab
<1> HIDE DEF t
<1>3. CASE t.front
  BY <1>1, <1>2, <1>3, RequestKeeps DEF UInv, ClockOK
<1>4. CASE ~t.front
  BY <1>1, <1>2, <1>4 DEF UInv, ClockOK, CachedOK, PaceOK, AskedOK, RingsOK, readings
<1> QED BY <1>3, <1>4

LEMMA SilentKeeps == ASSUME UInv, NEW a1 \in asked, NEW m \in Boxes, PeerSilent(a1, m) PROVE UInv'
<1> DEFINE q == [a1 EXCEPT !.lost = @ \cup {m}]
<1>0. asked' = (asked \ {a1}) \cup {q} /\ UNCHANGED <<clock, spent, readings, rings, tab>>
  BY DEF PeerSilent
<1>1. a1 \in Asked
  BY DEF UInv, AskedOK
<1>2. q \in Asked /\ q.since = a1.since /\ q.got = a1.got
  BY <1>1 DEF Asked
<1> HIDE DEF q
<1>3. AskedOK'
  BY <1>0, <1>2 DEF UInv, AskedOK
<1>4. RingsOK'
  BY <1>0 DEF UInv, RingsOK
<1> QED BY <1>0, <1>3, <1>4 DEF UInv, ClockOK, CachedOK, PaceOK, readings

LEMMA ArrivesKeeps == ASSUME UInv, NEW a1 \in asked, UsageArrives(a1) PROVE UInv'
<1> USE Times
<1> DEFINE got == [m \in Boxes |-> IF m \in a1.lost THEN Unknown ELSE a1.got[m]]
<1>0. /\ asked' = asked \ {a1} /\ rings' = DistinctUsages(got) /\ tab' = [tab EXCEPT !.missed = FALSE]
      /\ UNCHANGED <<clock, spent, readings>>
  BY DEF UsageArrives
<1>1. tab' \in Tab /\ tab'.due = tab.due
  BY <1>0 DEF UInv, ClockOK, Tab
<1>2. /\ a1 \in Asked /\ a1.since \in Nat /\ clock <= a1.since + 1
      /\ \A m \in Boxes : Recently(a1.got[m], a1.since)
  BY DEF UInv, AskedOK, Asked
<1>3. \A m \in DOMAIN rings' : m \in Boxes /\ rings'[m] = got[m] /\ got[m] # Unknown
  BY <1>0 DEF DistinctUsages, Says, Boxes
<1>4. \A m \in DOMAIN rings' : m \in Boxes /\ rings'[m] = a1.got[m] /\ a1.got[m] # Unknown
  BY <1>3
<1>5. RingsOK'
  <2>1. SUFFICES ASSUME NEW m \in DOMAIN rings'
                 PROVE  /\ rings'[m] \in MachineUsage
                        /\ rings'[m].error = FALSE => tab.due <= rings'[m].of + 2 * Ttl
    BY <1>1 DEF RingsOK
  <2>2. rings'[m] \in MachineUsage
    BY <1>2, <1>4 DEF Asked
  <2>3. rings'[m].error = FALSE => a1.since < rings'[m].of + Ttl
    BY <1>2, <1>4 DEF Recently
  <2>4. rings'[m].of \in Nat
    BY <2>2 DEF MachineUsage
  <2>5. clock \in Nat /\ tab.due \in Nat /\ tab.due <= clock + Ttl
    BY DEF UInv, ClockOK, Tab
  <2> QED BY <1>2, <2>2, <2>3, <2>4, <2>5
<1> QED BY <1>0, <1>1, <1>5 DEF UInv, ClockOK, CachedOK, PaceOK, AskedOK, readings

LEMMA LostKeeps == ASSUME UInv, NEW a1 \in asked, UsageLost(a1) PROVE UInv'
<1>0. /\ asked' = asked \ {a1} /\ tab' = [tab EXCEPT !.missed = TRUE]
      /\ UNCHANGED <<clock, spent, readings, rings>>
  BY DEF UsageLost
<1>1. tab' \in Tab /\ tab'.due = tab.due /\ tab'.missed = TRUE
  BY <1>0 DEF UInv, ClockOK, Tab
<1> QED BY <1>0, <1>1 DEF UInv, ClockOK, CachedOK, PaceOK, AskedOK, RingsOK, readings

LEMMA TicksKeeps == ASSUME UInv, Ticks PROVE UInv'
<1> USE Times
<1>0. /\ clock < tab.due /\ clock' = clock + 1 /\ \A a1 \in asked : a1.since = clock
      /\ UNCHANGED <<spent, readings, asked, rings, tab>>
  BY DEF Ticks
<1>1. ClockOK'
  BY <1>0 DEF UInv, ClockOK, Tab
<1>2. CachedOK'
  BY <1>0 DEF UInv, ClockOK, CachedOK, MachineUsage, readings
<1>3. PaceOK'
  BY <1>0 DEF UInv, ClockOK, PaceOK, readings
<1>4. AskedOK'
  BY <1>0 DEF UInv, ClockOK, AskedOK, Asked
<1>5. RingsOK'
  BY <1>0 DEF UInv, RingsOK
<1> QED BY <1>1, <1>2, <1>3, <1>4, <1>5 DEF UInv

LEMMA UStep == ASSUME UInv, [UsageNext]_usageVars PROVE UInv'
<1>1. CASE \E m \in Boxes : ReadsUsage(m) \/ UsageFails(m) \/ AsksElsewhere(m) \/ Uses(Account[m])
  BY <1>1, ReadsKeeps, FailsKeeps, ElsewhereKeeps, UsesKeeps
<1>2. CASE PollsUsage \/ ChangesTab \/ Ticks
  BY <1>2, PollsKeeps, TabKeeps, TicksKeeps
<1>3. CASE \E a1 \in asked : UsageArrives(a1) \/ UsageLost(a1) \/ \E m \in Boxes : PeerSilent(a1, m)
  BY <1>3, ArrivesKeeps, LostKeeps, SilentKeeps
<1>4. CASE UNCHANGED usageVars
  BY <1>4 DEF UInv, ClockOK, CachedOK, PaceOK, AskedOK, RingsOK, usageVars, readings
<1> QED BY <1>1, <1>2, <1>3, <1>4 DEF UsageNext

\* No machine starts two readings within five minutes, and the numbers a page
\* in front shows without an error are at most two of its polls old, however
\* the cache and the polls fall (usage.ts, UsageRings.tsx).
THEOREM UsageIsPaced == Spec => []Paced
<1>1. Init => UInv
  BY UInit DEF Init
<1>2. UInv /\ [Next]_vars => UInv'
  <2>1. [Next]_vars => [UsageNext]_usageVars
    BY DEF Next, vars, usageVars
  <2> QED BY <2>1, UStep
<1>3. UInv => Paced
  <2>1. SUFFICES ASSUME UInv, tab.front, asked = {}, ~tab.missed, NEW m \in DOMAIN rings, ~rings[m].error
                 PROVE  clock - rings[m].of <= 2 * Ttl
    BY DEF Paced, UInv, PaceOK
  <2>2. rings[m] \in MachineUsage /\ clock <= tab.due /\ clock \in Nat /\ tab.due \in Nat
    BY <2>1 DEF UInv, RingsOK, ClockOK, Tab
  <2>3. rings[m].error = FALSE /\ rings[m].of \in Nat
    BY <2>1, <2>2 DEF MachineUsage
  <2>4. tab.due <= rings[m].of + 2 * Ttl
    BY <2>1, <2>3 DEF UInv, RingsOK
  <2> QED BY <2>2, <2>3, <2>4, Times
<1> QED BY <1>1, <1>2, <1>3, PTL DEF Spec

-----------------------------------------------------------------------------
(* Files.                                                                  *)

Rev0 == [rev : Nat, text : Text]
Origin == [of : Path \cup {None}, text : Text]
AnyRead == [f : Path, ifNot : Nat, at : {"sent", "gone", "unchanged", "text"}, rev : Nat, text : Text]
AnySave == [f : Path, text : Text, ifRev : Nat, asked : BOOLEAN, rev : Nat,
            at : {"sent", "checked", "written", "saved", "stale", "failed"}, heard : BOOLEAN]
AnyPage == [open : Path \cup {None}, first : Path \cup {None}, enabled : BOOLEAN,
            readFor : Path \cup {None}, file : Text, rev : Nat, fresh : Nat, conflict : BOOLEAN]

FTypes ==
  /\ stamp \in Nat /\ stamp <= MaxStamp
  /\ disk \in [Path -> Rev0] /\ made \in [0..MaxStamp -> Origin]
  /\ drafts \in [Path -> Text] /\ page \in AnyPage
  /\ reads \in Seq(AnyRead) /\ saves \in Seq(AnySave)

Calm == "read" \notin slipped
Steady == "stat" \notin slipped

\* A rev given to a text of f, and which.
IsOf(rev, f) == rev # 0 /\ rev <= stamp /\ made[rev].of = f
Holds(rev, t) == made[rev].text = t

DiskOK == \A f \in Path : disk[f].rev # 0 =>
  IsOf(disk[f].rev, f) /\ Holds(disk[f].rev, disk[f].text) /\ (Calm => disk[f].text.of = f)

DraftsOK == Calm => \A f \in Path : Draft(f) => drafts[f].of = f

ReadOK(r) == r.at = "text" => IsOf(r.rev, r.f) /\ Holds(r.rev, r.text) /\ (Calm => r.text.of = r.f)
ReadsOK == \A i \in 1..Len(reads) : reads[i].f = page.open /\ ReadOK(reads[i])

SaveOK(s) ==
  /\ Calm => s.text.of = s.f
  /\ s.at = "written" /\ Steady /\ disk[s.f].rev # 0 => disk[s.f].text = s.text
  /\ s.at = "saved" => IsOf(s.rev, s.f) /\ (Steady => Holds(s.rev, s.text))
SavesOK == \A i \in 1..Len(saves) : SaveOK(saves[i])

\* What the page holds, whichever file is then opened.
HoldsOwn(p) ==
  /\ Calm /\ p.rev # 0 /\ p.open # None /\ p.readFor = p.open => IsOf(p.rev, p.open)
  /\ slipped = {} /\ p.rev # 0 /\ Current(p) => Holds(p.rev, p.file)
  /\ Calm /\ p.readFor # None /\ p.file # NoText => p.file.of = p.readFor
PageHolds == HoldsOwn(page) /\ (Calm /\ page.rev # 0 => page.readFor = page.open)

FInv == FTypes /\ DiskOK /\ DraftsOK /\ ReadsOK /\ SavesOK /\ PageHolds

LEMMA NoTextType == NoText \in Text
BY DEF NoText, Text

LEMMA Numbers ==
  /\ Numbered \in [Path -> 1..Cardinality(Path)]
  /\ \A f, h \in Path : Numbered[f] = Numbered[h] => f = h
  /\ Cardinality(Path) \in Nat /\ Cardinality(Path) <= MaxStamp /\ MaxStamp \in Nat
<1>1. /\ Cardinality(Path) \in Nat /\ Cardinality(Path) <= MaxStamp /\ MaxStamp \in Nat
      /\ ExistsBijection(1..Cardinality(Path), Path)
  BY FilesAssumption, FS_CardinalityType
<1>2. PICK g \in Bijection(1..Cardinality(Path), Path) : TRUE
  BY <1>1 DEF ExistsBijection
<1>3. /\ g \in [1..Cardinality(Path) -> Path]
      /\ \A f \in Path : \E n \in 1..Cardinality(Path) : g[n] = f
  BY <1>2 DEF Bijection, Surjection
<1> DEFINE h == [f \in Path |-> CHOOSE n \in 1..Cardinality(Path) : g[n] = f]
<1>4. \A f \in Path : h[f] \in 1..Cardinality(Path) /\ g[h[f]] = f
  BY <1>3
<1>5. h \in [Path -> 1..Cardinality(Path)] /\ \A f1, f2 \in Path : h[f1] = h[f2] => f1 = f2
  BY <1>4
<1> HIDE DEF h
<1>6. \E k \in [Path -> 1..Cardinality(Path)] : \A f1, f2 \in Path : k[f1] = k[f2] => f1 = f2
  BY <1>5
<1> QED BY <1>1, <1>6 DEF Numbered

LEMMA FInit == ASSUME NEW opened \in SUBSET (Path \cup {None}), FilesInit(opened) PROVE FInv
<1> USE NoTextType, Numbers
<1>0. \A f \in Path : FirstText(f) \in Text /\ FirstText(f).of = f
  BY DEF FirstText, Text
<1>1. stamp = Cardinality(Path) /\ saves = <<>> /\ slipped = {} /\ drafts = [f \in Path |-> NoText]
  BY DEF FilesInit
<1>2. disk \in [Path -> Rev0] /\ \A f \in Path : disk[f].rev = Numbered[f] /\ disk[f].text = FirstText(f)
  BY <1>0 DEF FilesInit, Rev0
<1>3. made \in [0..MaxStamp -> Origin]
      /\ \A f \in Path : made[Numbered[f]].of = f /\ made[Numbered[f]].text = FirstText(f)
  <2>1. made = [n \in 0..MaxStamp |-> IF \E f \in Path : Numbered[f] = n
                THEN LET f == CHOOSE f \in Path : Numbered[f] = n IN [of |-> f, text |-> FirstText(f)]
                ELSE [of |-> None, text |-> NoText]]
    BY DEF FilesInit
  <2>2. \A n \in 0..MaxStamp : made[n] \in Origin
    BY <1>0, <2>1 DEF Origin
  <2>3. \A f \in Path : (CHOOSE h \in Path : Numbered[h] = Numbered[f]) = f
    OBVIOUS
  <2>4. \A f \in Path : made[Numbered[f]] = [of |-> f, text |-> FirstText(f)]
    <3> SUFFICES ASSUME NEW f \in Path PROVE made[Numbered[f]] = [of |-> f, text |-> FirstText(f)]
      OBVIOUS
    <3>1. Numbered[f] \in 0..MaxStamp
      OBVIOUS
    <3>2. made[Numbered[f]] = LET h == CHOOSE h \in Path : Numbered[h] = Numbered[f]
                              IN [of |-> h, text |-> FirstText(h)]
      BY <2>1, <3>1
    <3> QED BY <2>3, <3>2
  <2> QED BY <2>1, <2>2, <2>4
<1>4. PICK f0 \in opened :
        /\ page = [open |-> f0, first |-> f0, enabled |-> TRUE, readFor |-> None, file |-> NoText,
                   rev |-> 0, fresh |-> 0, conflict |-> FALSE]
        /\ reads = IF f0 = None THEN <<>> ELSE <<ReadOf(f0, 0)>>
  BY DEF FilesInit
<1>5. page \in AnyPage /\ page.rev = 0 /\ page.open = f0 /\ page.readFor = None
  BY <1>4 DEF AnyPage
<1>6. f0 # None => f0 \in Path /\ ReadOf(f0, 0) \in AnyRead /\ ReadOf(f0, 0).f = f0 /\ ReadOf(f0, 0).at = "sent"
  BY DEF ReadOf, AnyRead
<1>7. reads \in Seq(AnyRead) /\ \A i \in 1..Len(reads) : reads[i].f = page.open /\ reads[i].at = "sent"
  BY <1>4, <1>5, <1>6
<1>8. FTypes
  BY <1>1, <1>2, <1>3, <1>5, <1>7 DEF FTypes
<1>9. DiskOK
  BY <1>0, <1>1, <1>2, <1>3 DEF DiskOK, IsOf, Holds
<1> QED BY <1>1, <1>5, <1>7, <1>8, <1>9 DEF FInv, DraftsOK, Draft, ReadsOK, ReadOK, SavesOK, PageHolds, HoldsOwn

-----------------------------------------------------------------------------
(* A text written.                                                         *)

LEMMA WrittenKeeps ==
  ASSUME FInv, NEW f \in Path, NEW t \in Text, Written(f, t), Calm => t.of = f,
         UNCHANGED <<reads, drafts, page>>, saves' \in Seq(AnySave),
         \A i \in 1..Len(saves') :
           \/ i \in 1..Len(saves) /\ saves'[i] = saves[i]
           \/ saves'[i].at = "written" /\ saves'[i].f = f /\ saves'[i].text = t
  PROVE  FInv'
<1>0. FTypes /\ DiskOK /\ DraftsOK /\ ReadsOK /\ SavesOK /\ PageHolds
  BY DEF FInv
<1>1. /\ stamp < MaxStamp /\ stamp' = stamp + 1
      /\ disk' = [disk EXCEPT ![f] = [rev |-> stamp + 1, text |-> t]]
      /\ made' = [made EXCEPT ![stamp + 1] = [of |-> f, text |-> t]]
      /\ slipped' = slipped \cup
           {x \in {"stat"} : \E i \in 1..Len(saves) : saves[i].f = f /\ saves[i].at = "written"}
  BY DEF Written
<1>2. /\ Calm' <=> Calm
      /\ Steady' => Steady /\ \A i \in 1..Len(saves) : ~(saves[i].f = f /\ saves[i].at = "written")
      /\ slipped' = {} => slipped = {}
  BY <1>1 DEF Calm, Steady
<1>3. FTypes'
  BY <1>0, <1>1, FilesAssumption DEF FTypes, Rev0, Origin
<1>4. \A n \in Nat : n # 0 /\ n <= stamp => n <= stamp' /\ made'[n] = made[n]
  BY <1>0, <1>1 DEF FTypes
<1>5. /\ made'[stamp + 1].of = f /\ made'[stamp + 1].text = t
      /\ disk'[f].rev = stamp + 1 /\ disk'[f].text = t
      /\ \A h \in Path : h # f => disk'[h] = disk[h]
  BY <1>0, <1>1, FilesAssumption DEF FTypes
<1>7. DiskOK'
  <2> SUFFICES ASSUME NEW h \in Path, disk'[h].rev # 0
               PROVE  /\ disk'[h].rev <= stamp' /\ made'[disk'[h].rev].of = h
                      /\ made'[disk'[h].rev].text = disk'[h].text
                      /\ Calm' => disk'[h].text.of = h
    BY DEF DiskOK, IsOf, Holds
  <2>1. CASE h = f
    BY <1>0, <1>1, <1>2, <1>5, <2>1 DEF FTypes
  <2>2. CASE h # f
    <3>1. disk'[h] = disk[h] /\ disk[h].rev \in Nat /\ disk[h].text \in Text
      BY <1>0, <1>5, <2>2 DEF FTypes, Rev0
    <3>2. IsOf(disk[h].rev, h) /\ Holds(disk[h].rev, disk[h].text) /\ (Calm => disk[h].text.of = h)
      BY <1>0, <3>1 DEF DiskOK
    <3> QED BY <1>2, <1>4, <3>1, <3>2 DEF IsOf, Holds
  <2> QED BY <2>1, <2>2
<1>8. DraftsOK'
  BY <1>0, <1>2 DEF DraftsOK, Draft
<1>9. ReadsOK'
  <2> SUFFICES ASSUME NEW i \in 1..Len(reads), reads[i].at = "text"
               PROVE  ReadOK(reads[i])'
    BY <1>0 DEF ReadsOK, ReadOK
  <2>1. reads[i] \in AnyRead /\ ReadOK(reads[i])
    BY <1>0, Element DEF FTypes, ReadsOK
  <2>2. reads[i].rev \in Nat /\ reads[i].text \in Text /\ reads[i].f \in Path
    BY <2>1 DEF AnyRead
  <2>3. IsOf(reads[i].rev, reads[i].f) /\ Holds(reads[i].rev, reads[i].text)
    BY <2>1 DEF ReadOK
  <2> QED BY <1>2, <1>4, <2>1, <2>2, <2>3 DEF ReadOK, IsOf, Holds
<1>10. SavesOK'
  <2> SUFFICES ASSUME NEW i \in 1..Len(saves') PROVE SaveOK(saves[i])'
    BY DEF SavesOK, SaveOK
  <2>1. CASE saves'[i].at = "written" /\ saves'[i].f = f /\ saves'[i].text = t
    BY <1>0, <1>1, <1>2, <2>1 DEF SaveOK, FTypes
  <2>2. CASE i \in 1..Len(saves) /\ saves'[i] = saves[i]
    <3>1. saves[i] \in AnySave /\ SaveOK(saves[i])
      BY <1>0, <2>2, Element DEF FTypes, SavesOK
    <3>2. saves[i].rev \in Nat /\ saves[i].text \in Text /\ saves[i].f \in Path
      BY <3>1 DEF AnySave
    <3>3. CASE saves[i].at = "written"
      <4>1. Steady' => saves[i].f # f
        BY <1>2, <2>2, <3>3
      <4>2. saves[i].f # f => disk'[saves[i].f] = disk[saves[i].f]
        BY <1>0, <1>1, <3>2 DEF FTypes
      <4> QED BY <1>2, <2>2, <3>1, <3>3, <4>1, <4>2 DEF SaveOK
    <3>4. CASE saves[i].at = "saved"
      <4>1. IsOf(saves[i].rev, saves[i].f) /\ (Steady => Holds(saves[i].rev, saves[i].text))
        BY <3>1, <3>4 DEF SaveOK
      <4> QED BY <1>2, <1>4, <2>2, <3>1, <3>2, <3>4, <4>1 DEF SaveOK, IsOf, Holds
    <3>5. CASE saves[i].at \notin {"written", "saved"}
      BY <1>2, <2>2, <3>1, <3>5 DEF SaveOK
    <3> QED BY <3>3, <3>4, <3>5
  <2> QED BY <2>1, <2>2
<1>11. PageHolds'
  <2>1. page.rev \in Nat /\ page.open \in Path \cup {None} /\ page.file \in Text /\ page' = page
    BY <1>0 DEF FTypes, AnyPage
  <2>2. slipped' = {} => Calm'
    BY DEF Calm
  <2>3. Calm' /\ page.rev # 0 /\ page.open # None /\ page.readFor = page.open => IsOf(page.rev, page.open)
    BY <1>0, <1>2 DEF PageHolds, HoldsOwn
  <2>4. Calm' /\ page.rev # 0 /\ page.open # None /\ page.readFor = page.open =>
          page.rev <= stamp' /\ made'[page.rev].of = page.open
    BY <1>4, <2>1, <2>3 DEF IsOf
  <2>5. slipped' = {} /\ page.rev # 0 /\ Current(page) => made'[page.rev].text = page.file
    BY <1>0, <1>2, <1>4, <2>1, <2>2, <2>3 DEF PageHolds, HoldsOwn, Current, Holds, IsOf
  <2> QED BY <1>0, <1>2, <2>1, <2>4, <2>5 DEF PageHolds, HoldsOwn, IsOf, Holds, Current
<1> QED BY <1>3, <1>7, <1>8, <1>9, <1>10, <1>11 DEF FInv

LEMMA AgentKeeps == ASSUME FInv, NEW f \in Path, AgentWrites(f) PROVE FInv'
<1>1. OwnWork(f) \in Text /\ OwnWork(f).of = f
  BY DEF OwnWork, Text, FInv, FTypes
<1>2. Written(f, OwnWork(f)) /\ UNCHANGED <<reads, saves, drafts, page>>
  BY DEF AgentWrites
<1>3. saves' \in Seq(AnySave)
  BY <1>2 DEF FInv, FTypes
<1> QED BY <1>1, <1>2, <1>3, WrittenKeeps

LEMMA LandKeeps == ASSUME FInv, NEW f \in Path, DropLands(f) PROVE FInv'
<1>1. OwnWork(f) \in Text /\ OwnWork(f).of = f
  BY DEF OwnWork, Text, FInv, FTypes
<1>2. Written(f, OwnWork(f)) /\ UNCHANGED <<reads, saves, drafts, page>>
  BY DEF DropLands
<1>3. saves' \in Seq(AnySave)
  BY <1>2 DEF FInv, FTypes
<1> QED BY <1>1, <1>2, <1>3, WrittenKeeps

LEMMA SaveWritesKeeps == ASSUME FInv, NEW i \in 1..MaxSaves, SaveWrites(i) PROVE FInv'
<1> DEFINE s == saves[i]
<1>1. /\ i \in 1..Len(saves) /\ Written(s.f, s.text) /\ saves' = [saves EXCEPT ![i].at = "written"]
      /\ UNCHANGED <<reads, drafts, page>>
  BY DEF SaveWrites
<1>2. saves \in Seq(AnySave) /\ s \in AnySave /\ SaveOK(s)
  BY <1>1, Element DEF FInv, FTypes, SavesOK
<1>3. s.f \in Path /\ s.text \in Text /\ (Calm => s.text.of = s.f)
  BY <1>2 DEF AnySave, SaveOK
<1> DEFINE r == [s EXCEPT !.at = "written"]
<1>4. r \in AnySave /\ r.at = "written" /\ r.f = s.f /\ r.text = s.text
  BY <1>2 DEF AnySave
<1>5. saves' = [saves EXCEPT ![i] = r]
  BY <1>1
<1> HIDE DEF s, r
<1>6. saves' \in Seq(AnySave) /\ Len(saves') = Len(saves)
  BY <1>1, <1>2, <1>4, <1>5
<1>7. \A k \in 1..Len(saves') : k \in 1..Len(saves) /\ saves'[k] = IF k = i THEN r ELSE saves[k]
  BY <1>1, <1>2, <1>5, <1>6
<1>8. \A k \in 1..Len(saves') :
           \/ k \in 1..Len(saves) /\ saves'[k] = saves[k]
           \/ saves'[k].at = "written" /\ saves'[k].f = s.f /\ saves'[k].text = s.text
  BY <1>4, <1>7
<1> QED BY <1>1, <1>3, <1>6, <1>8, WrittenKeeps

-----------------------------------------------------------------------------
(* The server's other steps.                                               *)

LEMMA RemoveKeeps == ASSUME FInv, NEW f \in Path, AgentRemoves(f) PROVE FInv'
<1>1. disk' = [disk EXCEPT ![f] = NoFile] /\ UNCHANGED <<made, stamp, slipped, reads, saves, drafts, page>>
  BY DEF AgentRemoves
<1>2. NoFile \in Rev0 /\ NoFile.rev = 0
  BY NoTextType DEF NoFile, Rev0
<1>3. disk' \in [Path -> Rev0] /\ \A h \in Path : disk'[h].rev # 0 => disk'[h] = disk[h]
  BY <1>1, <1>2 DEF FInv, FTypes
<1>4. FTypes' /\ DiskOK'
  BY <1>1, <1>3 DEF FInv, FTypes, DiskOK, IsOf, Holds, Calm
<1>5. SavesOK'
  <2> SUFFICES ASSUME NEW i \in 1..Len(saves) PROVE SaveOK(saves[i])'
    BY <1>1 DEF SavesOK
  <2>1. saves[i] \in AnySave /\ SaveOK(saves[i])
    BY Element DEF FInv, FTypes, SavesOK
  <2>2. saves[i].f \in Path
    BY <2>1 DEF AnySave
  <2> QED BY <1>1, <1>3, <2>1, <2>2 DEF SaveOK, IsOf, Holds, Calm, Steady
<1> QED BY <1>1, <1>4, <1>5 DEF FInv, DraftsOK, Draft, ReadsOK, ReadOK, PageHolds, HoldsOwn, Current,
         IsOf, Holds, Calm, Steady

\* Only the saves change, by one of them.
LEMMA SavesStep ==
  ASSUME FInv, UNCHANGED <<disk, made, stamp, slipped, reads, drafts, page>>, saves' \in Seq(AnySave),
         \A k \in 1..Len(saves') : SaveOK(saves'[k]) \/ \E j \in 1..Len(saves) : saves'[k] = saves[j]
  PROVE  FInv'
<1>1. \A k \in 1..Len(saves') : SaveOK(saves'[k])
  BY DEF FInv, SavesOK
<1>2. SavesOK'
  BY <1>1 DEF SavesOK, SaveOK, IsOf, Holds, Calm, Steady
<1> QED BY <1>2 DEF FInv, FTypes, DiskOK, DraftsOK, Draft, ReadsOK, ReadOK, PageHolds, HoldsOwn, Current,
         IsOf, Holds, Calm

LEMMA OneSave ==
  ASSUME FInv, UNCHANGED <<disk, made, stamp, slipped, reads, drafts, page>>,
         NEW i \in 1..Len(saves), NEW r \in AnySave, saves' = [saves EXCEPT ![i] = r], SaveOK(r)
  PROVE  FInv'
<1>1. saves \in Seq(AnySave)
  BY DEF FInv, FTypes
<1>2. saves' \in Seq(AnySave) /\ Len(saves') = Len(saves)
      /\ \A k \in 1..Len(saves) : saves'[k] = IF k = i THEN r ELSE saves[k]
  BY <1>1
<1>3. \A k \in 1..Len(saves') : SaveOK(saves'[k]) \/ \E j \in 1..Len(saves) : saves'[k] = saves[j]
  BY <1>2
<1> QED BY <1>2, <1>3, SavesStep

LEMMA SaveCheckedKeeps == ASSUME FInv, NEW i \in 1..MaxSaves, SaveChecked(i) PROVE FInv'
<1> DEFINE s == saves[i]
           now == disk[s.f].rev
           r == CASE now = 0 -> [s EXCEPT !.at = "failed"]
                  [] now # 0 /\ now # s.ifRev -> [s EXCEPT !.at = "stale", !.rev = now]
                  [] OTHER -> [s EXCEPT !.at = "checked"]
<1>1. /\ i \in 1..Len(saves) /\ UNCHANGED <<disk, made, stamp, slipped, reads, drafts, page>>
      /\ saves' = [saves EXCEPT ![i] = r]
  BY DEF SaveChecked, server
<1>2. s \in AnySave /\ SaveOK(s)
  BY <1>1, Element DEF FInv, FTypes, SavesOK
<1>3. now \in Nat
  BY <1>2 DEF AnySave, FInv, FTypes, Rev0
<1>4. r \in AnySave /\ r.at \in {"failed", "stale", "checked"} /\ r.f = s.f /\ r.text = s.text
  BY <1>2, <1>3 DEF AnySave
<1> HIDE DEF s, now, r
<1>5. SaveOK(r)
  BY <1>2, <1>4 DEF SaveOK
<1> QED BY <1>1, <1>4, <1>5, OneSave

LEMMA SaveStatsKeeps == ASSUME FInv, NEW i \in 1..MaxSaves, SaveStats(i) PROVE FInv'
<1> DEFINE s == saves[i]
           now == disk[s.f].rev
           r == [s EXCEPT !.at = IF now = 0 THEN "failed" ELSE "saved", !.rev = now]
<1>1. /\ i \in 1..Len(saves) /\ UNCHANGED <<disk, made, stamp, slipped, reads, drafts, page>>
      /\ s.at = "written"
      /\ saves' = [saves EXCEPT ![i].at = IF now = 0 THEN "failed" ELSE "saved", ![i].rev = now]
  BY DEF SaveStats, server
<1>2. s \in AnySave /\ SaveOK(s)
  BY <1>1, Element DEF FInv, FTypes, SavesOK
<1>3. now \in Nat
  BY <1>2 DEF AnySave, FInv, FTypes, Rev0
<1>4. saves \in Seq(AnySave)
  BY DEF FInv, FTypes
<1>5. saves' = [saves EXCEPT ![i] = r]
  BY <1>1, <1>4
<1>6. /\ r \in AnySave /\ r.at = (IF now = 0 THEN "failed" ELSE "saved") /\ r.rev = now
      /\ r.f = s.f /\ r.text = s.text
  BY <1>2, <1>3 DEF AnySave
<1>7. now # 0 => IsOf(now, s.f) /\ Holds(now, disk[s.f].text)
  BY <1>2 DEF AnySave, FInv, DiskOK
<1>8. Steady /\ now # 0 => disk[s.f].text = s.text
  BY <1>1, <1>2 DEF SaveOK
<1> HIDE DEF s, now, r
<1>9. SaveOK(r)
  BY <1>2, <1>6, <1>7, <1>8 DEF SaveOK
<1> QED BY <1>1, <1>5, <1>6, <1>9, OneSave

LEMMA SaveFailsKeeps == ASSUME FInv, NEW i \in 1..MaxSaves, SaveFails(i) PROVE FInv'
<1> DEFINE s == saves[i]
           r == [s EXCEPT !.heard = FALSE]
<1>1. /\ i \in 1..Len(saves) /\ UNCHANGED <<disk, made, stamp, slipped, reads, drafts, page>>
      /\ saves' = [saves EXCEPT ![i].heard = FALSE]
  BY DEF SaveFails, server
<1>2. s \in AnySave /\ SaveOK(s)
  BY <1>1, Element DEF FInv, FTypes, SavesOK
<1>3. r \in AnySave /\ r.at = s.at /\ r.rev = s.rev /\ r.f = s.f /\ r.text = s.text
  BY <1>2 DEF AnySave
<1>4. saves' = [saves EXCEPT ![i] = r]
  BY <1>1
<1> HIDE DEF s, r
<1>5. SaveOK(r)
  BY <1>2, <1>3 DEF SaveOK
<1> QED BY <1>1, <1>3, <1>4, <1>5, OneSave

LEMMA PutKeeps == ASSUME FInv, NEW v \in Nat, NEW w \in BOOLEAN, Put(v, w) PROVE FInv'
<1> DEFINE r == [f |-> page.open, text |-> drafts[page.open], ifRev |-> v,
                 asked |-> w, at |-> "sent", rev |-> 0, heard |-> TRUE]
<1>1. /\ page.open # None /\ Draft(page.open) /\ saves' = Append(saves, r)
      /\ UNCHANGED <<disk, made, stamp, slipped, reads, drafts, page>>
  BY DEF Put, server
<1>2. page.open \in Path /\ drafts[page.open] \in Text
  BY <1>1 DEF FInv, FTypes, AnyPage
<1>3. r \in AnySave /\ r.at = "sent" /\ r.f = page.open /\ r.text = drafts[page.open]
  BY <1>2 DEF AnySave
<1> HIDE DEF r
<1>4. SaveOK(r)
  BY <1>1, <1>2, <1>3 DEF FInv, DraftsOK, SaveOK
<1>5. saves \in Seq(AnySave)
  BY DEF FInv, FTypes
<1>6. saves' \in Seq(AnySave) /\ Len(saves') = Len(saves) + 1 /\ saves'[Len(saves) + 1] = r
      /\ \A k \in 1..Len(saves) : saves'[k] = saves[k]
  BY <1>1, <1>3, <1>5
<1>7. \A k \in 1..Len(saves') : SaveOK(saves'[k]) \/ \E j \in 1..Len(saves) : saves'[k] = saves[j]
  BY <1>4, <1>6
<1> QED BY <1>1, <1>6, <1>7, SavesStep

-----------------------------------------------------------------------------
(* The page's reads.                                                       *)

\* Nothing but the page, its reads and its drafts changes.
LEMMA PageStep ==
  ASSUME FInv, UNCHANGED <<disk, made, stamp, slipped, saves>>,
         drafts' \in [Path -> Text],
         \A f \in Path : Calm /\ drafts'[f] # NoText => drafts'[f].of = f,
         page' \in AnyPage, HoldsOwn(page'), Calm /\ page'.rev # 0 => page'.readFor = page'.open,
         reads' \in Seq(AnyRead),
         \A k \in 1..Len(reads') : reads'[k].f = page'.open /\ ReadOK(reads'[k])
  PROVE  FInv'
<1>1. DraftsOK'
  BY DEF DraftsOK, Draft, Calm
<1>2. ReadsOK'
  BY DEF ReadsOK, ReadOK, IsOf, Holds, Calm
<1>3. PageHolds'
  BY DEF PageHolds, HoldsOwn, IsOf, Holds, Calm, Current
<1>4. DiskOK' /\ SavesOK'
  BY DEF FInv, DiskOK, SavesOK, SaveOK, IsOf, Holds, Calm, Steady
<1>5. FTypes'
  BY DEF FInv, FTypes
<1> QED BY <1>1, <1>2, <1>3, <1>4, <1>5 DEF FInv

LEMMA RestartKeeps ==
  ASSUME FInv, NEW p \in AnyPage, Restarts(p), HoldsOwn(p), UNCHANGED <<disk, made, stamp, slipped, saves>>,
         drafts' \in [Path -> Text],
         \A f \in Path : Calm /\ drafts'[f] # NoText => drafts'[f].of = f
  PROVE  FInv'
<1> DEFINE q == [p EXCEPT !.rev = Rev(p)]
<1>1. /\ q \in AnyPage /\ q.rev = Rev(p) /\ q.open = p.open /\ q.readFor = p.readFor /\ q.file = p.file
      /\ q.enabled = p.enabled
  BY DEF AnyPage, Rev
<1>2. /\ page' = IF q.open = None THEN [q EXCEPT !.file = NoText, !.readFor = None] ELSE q
      /\ reads' = IF q.enabled /\ q.open # None THEN <<ReadOf(q.open, q.rev)>> ELSE <<>>
  BY DEF Restarts
<1> HIDE DEF q
<1>3. page' \in AnyPage /\ page'.open = p.open /\ page'.rev = Rev(p)
      /\ page'.readFor = (IF p.open = None THEN None ELSE p.readFor)
      /\ (p.open # None => page'.file = p.file) /\ (p.open = None => page'.file = NoText)
  BY <1>1, <1>2, NoTextType DEF AnyPage
<1>4. Rev(p) # 0 => Rev(p) = p.rev /\ p.rev # 0 /\ p.readFor = p.open
  BY DEF Rev
<1>5. HoldsOwn(page') /\ (page'.rev # 0 => page'.readFor = page'.open)
  BY <1>3, <1>4 DEF HoldsOwn, Current
<1>6. q.open # None => ReadOf(q.open, q.rev) \in AnyRead
  BY <1>1, NoTextType DEF ReadOf, AnyRead, AnyPage
<1>7. \A k \in 1..Len(reads') : reads'[k] = ReadOf(q.open, q.rev)
  BY <1>2
<1>8. reads' \in Seq(AnyRead)
  BY <1>2, <1>6
<1>9. \A k \in 1..Len(reads') : reads'[k].f = page'.open /\ ReadOK(reads'[k])
  BY <1>1, <1>3, <1>7 DEF ReadOf, ReadOK
<1> QED BY <1>3, <1>5, <1>8, <1>9, PageStep

LEMMA OpensKeeps ==
  ASSUME FInv, NEW f \in Path \cup {None}, Opens(f), UNCHANGED <<disk, made, stamp, slipped, saves, drafts>>
  PROVE  FInv'
<1> DEFINE p == [page EXCEPT !.open = f, !.fresh = 0, !.conflict = FALSE]
<1>1. page \in AnyPage /\ PageHolds
  BY DEF FInv, FTypes
<1>2. /\ p \in AnyPage /\ p.open = f /\ p.rev = page.rev /\ p.readFor = page.readFor /\ p.file = page.file
      /\ Restarts(p)
  BY <1>1 DEF AnyPage, Opens
<1> HIDE DEF p
<1>3. slipped = {} => Calm
  BY DEF Calm
<1>4. HoldsOwn(p)
  BY <1>1, <1>2, <1>3 DEF PageHolds, HoldsOwn, Current
<1> QED BY <1>2, <1>4, RestartKeeps DEF FInv, FTypes, DraftsOK, Draft

LEMMA TurnsKeeps ==
  ASSUME FInv, NEW e1 \in BOOLEAN, Restarts([page EXCEPT !.enabled = e1]),
         UNCHANGED <<disk, made, stamp, slipped, saves, drafts>>
  PROVE  FInv'
<1> DEFINE p == [page EXCEPT !.enabled = e1]
<1>1. page \in AnyPage /\ PageHolds
  BY DEF FInv, FTypes
<1>2. /\ p \in AnyPage /\ p.open = page.open /\ p.rev = page.rev /\ p.readFor = page.readFor
      /\ p.file = page.file /\ Restarts(p)
  BY <1>1 DEF AnyPage
<1> HIDE DEF p
<1>3. HoldsOwn(p)
  BY <1>1, <1>2 DEF PageHolds, HoldsOwn, Current
<1> QED BY <1>2, <1>3, RestartKeeps DEF FInv, FTypes, DraftsOK, Draft

LEMMA NudgedKeeps == ASSUME FInv, Nudged PROVE FInv'
<1>1. Restarts(page) /\ UNCHANGED <<disk, made, stamp, slipped, saves, drafts>>
  BY DEF Nudged, server
<1> QED BY <1>1, RestartKeeps DEF FInv, FTypes, DraftsOK, Draft, PageHolds

LEMMA DiscardsKeeps == ASSUME FInv, Discards PROVE FInv'
<1> DEFINE p == [page EXCEPT !.fresh = 0, !.conflict = FALSE]
<1>1. page \in AnyPage /\ PageHolds
  BY DEF FInv, FTypes
<1>2. /\ p \in AnyPage /\ p.open = page.open /\ p.rev = page.rev /\ p.readFor = page.readFor
      /\ p.file = page.file
  BY <1>1 DEF AnyPage
<1>3. Restarts(p) /\ UNCHANGED <<disk, made, stamp, slipped, saves>>
      /\ drafts' = [f \in Path |-> IF f = page.first THEN NoText ELSE drafts[f]]
  BY DEF Discards, server
<1> HIDE DEF p
<1>4. HoldsOwn(p)
  BY <1>1, <1>2 DEF PageHolds, HoldsOwn, Current
<1>5. drafts' \in [Path -> Text] /\ \A f \in Path : drafts'[f] # NoText => drafts'[f] = drafts[f]
  BY <1>3, NoTextType DEF FInv, FTypes
<1>6. \A f \in Path : Calm /\ drafts'[f] # NoText => drafts'[f].of = f
  BY <1>5 DEF FInv, DraftsOK, Draft
<1> QED BY <1>2, <1>3, <1>4, <1>5, <1>6, RestartKeeps

\* The reads alone, by one of them.
LEMMA ReadsStep ==
  ASSUME FInv, UNCHANGED <<disk, made, stamp, slipped, saves, drafts, page>>, reads' \in Seq(AnyRead),
         \A k \in 1..Len(reads') : \/ reads'[k].f = page.open /\ ReadOK(reads'[k])
                                   \/ \E j \in 1..Len(reads) : reads'[k] = reads[j]
  PROVE  FInv'
<1>1. \A k \in 1..Len(reads') : reads'[k].f = page.open /\ ReadOK(reads'[k])
  BY DEF FInv, ReadsOK
<1>2. ReadsOK'
  BY <1>1 DEF ReadsOK, ReadOK, IsOf, Holds, Calm
<1> QED BY <1>2 DEF FInv, FTypes, DiskOK, DraftsOK, Draft, SavesOK, SaveOK, PageHolds, HoldsOwn, Current,
         IsOf, Holds, Calm, Steady

LEMMA ServerReadsKeeps == ASSUME FInv, NEW i \in 1..MaxReads, ServerReads(i) PROVE FInv'
<1> DEFINE r == reads[i]
           now == disk[r.f]
           q == CASE now.rev = 0 -> [r EXCEPT !.at = "gone"]
                  [] now.rev # 0 /\ now.rev = r.ifNot -> [r EXCEPT !.at = "unchanged"]
                  [] OTHER -> [r EXCEPT !.at = "text", !.rev = now.rev, !.text = now.text]
<1>1. /\ i \in 1..Len(reads) /\ reads' = [reads EXCEPT ![i] = q]
      /\ UNCHANGED <<disk, made, stamp, slipped, saves, drafts, page>>
  BY DEF ServerReads, server
<1>2. reads \in Seq(AnyRead) /\ r \in AnyRead /\ r.f = page.open
  BY <1>1, Element DEF FInv, FTypes, ReadsOK
<1>3. r.f \in Path /\ now \in Rev0 /\ now.rev \in Nat /\ now.text \in Text
  BY <1>2 DEF AnyRead, FInv, FTypes, Rev0
<1>4. /\ q \in AnyRead /\ q.f = r.f
      /\ q.at = "text" => now.rev # 0 /\ q.rev = now.rev /\ q.text = now.text
  BY <1>2, <1>3 DEF AnyRead
<1>5. now.rev # 0 => IsOf(now.rev, r.f) /\ Holds(now.rev, now.text) /\ (Calm => now.text.of = r.f)
  BY <1>3 DEF FInv, DiskOK
<1> HIDE DEF r, now, q
<1>6. ReadOK(q)
  BY <1>4, <1>5 DEF ReadOK
<1>7. reads' \in Seq(AnyRead) /\ Len(reads') = Len(reads)
      /\ \A k \in 1..Len(reads) : reads'[k] = IF k = i THEN q ELSE reads[k]
  BY <1>1, <1>2, <1>4
<1>8. \A k \in 1..Len(reads') : \/ reads'[k].f = page.open /\ ReadOK(reads'[k])
                                \/ \E j \in 1..Len(reads) : reads'[k] = reads[j]
  BY <1>2, <1>4, <1>6, <1>7
<1> QED BY <1>1, <1>7, <1>8, ReadsStep

LEMMA PollsKeep == ASSUME FInv, Polls PROVE FInv'
<1> DEFINE r == ReadOf(page.open, page.rev)
<1>1. /\ page.open # None /\ reads' = Append(reads, r)
      /\ UNCHANGED <<disk, made, stamp, slipped, saves, drafts, page>>
  BY DEF Polls, server
<1>2. r \in AnyRead /\ r.f = page.open /\ r.at = "sent"
  BY <1>1, NoTextType DEF ReadOf, AnyRead, FInv, FTypes, AnyPage
<1> HIDE DEF r
<1>3. reads \in Seq(AnyRead)
  BY DEF FInv, FTypes
<1>4. reads' \in Seq(AnyRead) /\ Len(reads') = Len(reads) + 1 /\ reads'[Len(reads) + 1] = r
      /\ \A k \in 1..Len(reads) : reads'[k] = reads[k]
  BY <1>1, <1>2, <1>3
<1>5. \A k \in 1..Len(reads') : \/ reads'[k].f = page.open /\ ReadOK(reads'[k])
                                \/ \E j \in 1..Len(reads) : reads'[k] = reads[j]
  BY <1>2, <1>4 DEF ReadOK
<1> QED BY <1>1, <1>4, <1>5, ReadsStep

LEMMA ReadFailsKeeps == ASSUME FInv, NEW i \in 1..MaxReads, ReadFails(i) PROVE FInv'
<1>1. /\ i \in 1..Len(reads) /\ reads' = Without(reads, i) /\ reads \in Seq(AnyRead)
      /\ UNCHANGED <<disk, made, stamp, slipped, saves, drafts, page>>
  BY DEF ReadFails, server, FInv, FTypes
<1> QED BY <1>1, WithoutHas, ReadsStep

LEMMA ReadArrivesKeeps == ASSUME FInv, NEW i \in 1..MaxReads, ReadArrives(i) PROVE FInv'
<1> DEFINE r == reads[i]
<1>0. /\ i \in 1..Len(reads) /\ UNCHANGED <<disk, made, stamp, slipped, saves, drafts>>
      /\ r.at # "sent"
      /\ CASE r.at = "text" -> page' = Takes(page, r) /\ reads' = Without(reads, i)
           [] r.at = "unchanged" -> reads' = Without(reads, i) /\ UNCHANGED page
           [] r.at = "gone" -> Opens(None)
  BY DEF ReadArrives, server
<1>1. reads \in Seq(AnyRead) /\ r \in AnyRead /\ r.f = page.open /\ ReadOK(r)
  BY <1>0, Element DEF FInv, FTypes, ReadsOK
<1>2. r.f \in Path /\ r.rev \in Nat /\ r.text \in Text /\ r.at \in {"sent", "gone", "unchanged", "text"}
  BY <1>1 DEF AnyRead
<1> HIDE DEF r
<1>3. CASE r.at = "text"
  <2>1. page' = Takes(page, r) /\ reads' = Without(reads, i)
    BY <1>0, <1>3
  <2>2. page \in AnyPage
    BY DEF FInv, FTypes
  <2>3. /\ page' \in AnyPage /\ page'.open = page.open /\ page'.readFor = r.f /\ page'.rev = r.rev
        /\ page'.file = r.text
    BY <1>2, <2>1, <2>2 DEF Takes, AnyPage
  <2>4. slipped = {} => Calm
    BY DEF Calm
  <2>5. HoldsOwn(page') /\ page'.readFor = page'.open
    BY <1>1, <1>3, <2>3, <2>4 DEF HoldsOwn, ReadOK
  <2>6. /\ reads' \in Seq(AnyRead)
        /\ \A k \in 1..Len(reads') : reads'[k].f = page'.open /\ ReadOK(reads'[k])
    <3>1. \A j \in 1..Len(reads) : reads[j].f = page.open /\ ReadOK(reads[j])
      BY DEF FInv, ReadsOK
    <3>2. /\ reads' \in Seq(AnyRead)
          /\ \A k \in 1..Len(reads') : \E j \in 1..Len(reads) : reads'[k] = reads[j]
      BY <1>0, <1>1, <2>1, WithoutHas
    <3> QED BY <2>3, <3>1, <3>2
  <2> QED BY <1>0, <2>3, <2>5, <2>6, PageStep DEF FInv, FTypes, DraftsOK, Draft
<1>4. CASE r.at = "unchanged"
  <2>1. reads' = Without(reads, i) /\ UNCHANGED page
    BY <1>0, <1>4
  <2> QED BY <1>0, <1>1, <2>1, WithoutHas, ReadsStep
<1>5. CASE r.at = "gone"
  BY <1>0, <1>5, OpensKeeps
<1> QED BY <1>0, <1>2, <1>3, <1>4, <1>5

-----------------------------------------------------------------------------
(* The drafts, and what a save's answer does to them.                      *)

LEMMA ShownFacts ==
  ASSUME FInv, Shown
  PROVE  page.open \in Path /\ Doc \in Text /\ (Calm => Doc.of = page.open)
BY DEF FInv, FTypes, AnyPage, Shown, Current, Doc, DraftsOK, Draft, PageHolds, HoldsOwn

LEMMA TypesKeeps == ASSUME FInv, Types PROVE FInv'
<1>1. /\ Shown /\ stamp < MaxStamp /\ stamp' = stamp + 1
      /\ drafts' = [drafts EXCEPT ![page.open] = [Doc EXCEPT !.n = stamp + 1]]
      /\ UNCHANGED <<disk, made, slipped, reads, saves, page>>
  BY DEF Types
<1>2. page.open \in Path /\ Doc \in Text /\ (Calm => Doc.of = page.open)
  BY <1>1, ShownFacts
<1> DEFINE t == [Doc EXCEPT !.n = stamp + 1]
<1>3. t \in Text /\ t.of = Doc.of
  <2>1. stamp + 1 \in Nat
    BY DEF FInv, FTypes
  <2>2. \A d \in Text, n \in Nat : [d EXCEPT !.n = n] \in Text /\ [d EXCEPT !.n = n].of = d.of
    BY DEF Text
  <2> QED BY <1>2, <2>1, <2>2
<1>4. drafts' = [drafts EXCEPT ![page.open] = t]
  BY <1>1
<1> HIDE DEF t
<1>5. FTypes'
  BY <1>1, <1>2, <1>3, <1>4, FilesAssumption DEF FInv, FTypes
<1>6. DraftsOK'
  BY <1>1, <1>2, <1>3, <1>4 DEF FInv, FTypes, DraftsOK, Draft, Calm
<1>7. \A n \in Nat, h \in Path : IsOf(n, h) => n <= stamp'
  BY <1>1 DEF IsOf, FInv, FTypes
<1>8. DiskOK'
  BY <1>1, <1>7 DEF FInv, FTypes, Rev0, DiskOK, IsOf, Holds, Calm
<1>9. ReadsOK'
  <2> SUFFICES ASSUME NEW i \in 1..Len(reads) PROVE ReadOK(reads[i])'
    BY <1>1 DEF FInv, ReadsOK
  <2>1. reads[i] \in AnyRead /\ ReadOK(reads[i])
    BY Element DEF FInv, FTypes, ReadsOK
  <2>2. reads[i].rev \in Nat /\ reads[i].f \in Path
    BY <2>1 DEF AnyRead
  <2> QED BY <1>1, <1>7, <2>1, <2>2 DEF ReadOK, IsOf, Holds, Calm
<1>10. SavesOK'
  <2> SUFFICES ASSUME NEW i \in 1..Len(saves) PROVE SaveOK(saves[i])'
    BY <1>1 DEF SavesOK
  <2>1. saves[i] \in AnySave /\ SaveOK(saves[i])
    BY Element DEF FInv, FTypes, SavesOK
  <2>2. saves[i].rev \in Nat /\ saves[i].f \in Path
    BY <2>1 DEF AnySave
  <2> QED BY <1>1, <1>7, <2>1, <2>2 DEF SaveOK, IsOf, Holds, Calm, Steady
<1>11. PageHolds'
  BY <1>1, <1>2, <1>7 DEF FInv, FTypes, AnyPage, PageHolds, HoldsOwn, IsOf, Holds, Calm, Current
<1> QED BY <1>5, <1>6, <1>8, <1>9, <1>10, <1>11 DEF FInv

LEMMA UndoesKeeps == ASSUME FInv, Undoes PROVE FInv'
<1>1. /\ drafts' = [drafts EXCEPT ![page.open] = NoText]
      /\ UNCHANGED <<disk, made, stamp, slipped, reads, saves, page>>
  BY DEF Undoes, server
<1>2. drafts' \in [Path -> Text] /\ \A f \in Path : drafts'[f] # NoText => drafts'[f] = drafts[f]
  BY <1>1, NoTextType DEF FInv, FTypes
<1>3. \A f \in Path : Calm /\ drafts'[f] # NoText => drafts'[f].of = f
  BY <1>2 DEF FInv, DraftsOK, Draft
<1> QED BY <1>1, <1>2, <1>3, PageStep DEF FInv, FTypes, PageHolds, ReadsOK

LEMMA SaveArrivesKeeps == ASSUME FInv, NEW i \in 1..MaxSaves, SaveArrives(i) PROVE FInv'
<1> DEFINE s == saves[i]
           own == s.heard /\ s.at = "saved" /\ s.f = page.open
<1>0. /\ i \in 1..Len(saves) /\ saves' = Without(saves, i)
      /\ page' = CASE s.heard /\ s.at = "saved" -> Saved(page, s)
                   [] s.heard /\ s.at = "stale" -> [page EXCEPT !.fresh = s.rev, !.conflict = TRUE]
                   [] OTHER -> page
      /\ drafts' = IF own THEN [drafts EXCEPT ![s.f] = NoText] ELSE drafts
      /\ slipped' = IF own /\ ~Current(page) THEN slipped \cup {"read"} ELSE slipped
      /\ UNCHANGED <<disk, made, stamp, reads>>
  BY DEF SaveArrives
<1>1. saves \in Seq(AnySave) /\ s \in AnySave /\ SaveOK(s) /\ page \in AnyPage /\ drafts \in [Path -> Text]
  BY <1>0, Element DEF FInv, FTypes, SavesOK
<1>2. s.f \in Path /\ s.rev \in Nat /\ s.text \in Text
  BY <1>1 DEF AnySave
<1>3. /\ Calm' => Calm /\ (own => Current(page))
      /\ Steady' <=> Steady
      /\ slipped' = {} => slipped = {} /\ Calm'
  BY <1>0 DEF Calm, Steady
<1>4. drafts' \in [Path -> Text] /\ \A f \in Path : drafts'[f] # NoText => drafts'[f] = drafts[f]
  BY <1>0, <1>1, NoTextType
<1>5. DraftsOK'
  BY <1>3, <1>4 DEF FInv, DraftsOK, Draft
<1>6. /\ page' \in AnyPage /\ page'.open = page.open /\ page'.readFor = page.readFor
      /\ own => page'.rev = s.rev /\ page'.file = s.text
      /\ ~own => page'.rev = page.rev /\ page'.file = page.file
  BY <1>0, <1>1, <1>2 DEF Saved, AnyPage
<1>7. PageHolds'
  <2>1. own => IsOf(s.rev, s.f) /\ (Steady => Holds(s.rev, s.text)) /\ (Calm => s.text.of = s.f)
    BY <1>1 DEF SaveOK
  <2>2. slipped = {} => Steady /\ Calm
    BY DEF Steady, Calm
  <2>3. CASE own
    BY <1>0, <1>3, <1>6, <2>1, <2>2, <2>3 DEF PageHolds, HoldsOwn, IsOf, Holds, Current
  <2>4. CASE ~own
    BY <1>0, <1>3, <1>6, <2>4 DEF FInv, PageHolds, HoldsOwn, IsOf, Holds, Current
  <2> QED BY <2>3, <2>4
<1>8. saves' \in Seq(AnySave) /\ \A k \in 1..Len(saves') : \E j \in 1..Len(saves) : saves'[k] = saves[j]
  BY <1>0, <1>1, WithoutHas
<1>9. \A k \in 1..Len(saves') : SaveOK(saves'[k])
  BY <1>8 DEF FInv, SavesOK
<1>10. SavesOK'
  BY <1>0, <1>3, <1>9 DEF SavesOK, SaveOK, IsOf, Holds
<1>11. FTypes'
  BY <1>0, <1>4, <1>6, <1>8 DEF FInv, FTypes
<1>12. DiskOK' /\ ReadsOK'
  BY <1>0, <1>3, <1>6 DEF FInv, DiskOK, ReadsOK, ReadOK, IsOf, Holds
<1> QED BY <1>5, <1>7, <1>10, <1>11, <1>12 DEF FInv

-----------------------------------------------------------------------------
LEMMA FStep == ASSUME FInv, [FilesNext]_filesVars PROVE FInv'
<1> USE DEF server
<1>1. CASE People
  <2>1. ASSUME NEW f \in Path \cup {None}, Picks(f) PROVE FInv'
    BY <2>1, OpensKeeps DEF Picks
  <2>2. CASE Hides
    BY <2>2, TurnsKeeps DEF Hides
  <2>3. CASE Shows
    BY <2>3, TurnsKeeps DEF Shows
  <2>4. CASE Saves \/ Overwrites
    <3>1. page.rev \in Nat /\ page.fresh \in Nat
      BY DEF FInv, FTypes, AnyPage
    <3> QED BY <2>4, <3>1, PutKeeps DEF Saves, Overwrites
  <2> QED BY <1>1, <2>1, <2>2, <2>3, <2>4, NudgedKeeps, TypesKeeps, UndoesKeeps, DiscardsKeeps DEF People
<1>2. CASE Reading
  BY <1>2, PollsKeep, ServerReadsKeeps, ReadArrivesKeeps, ReadFailsKeeps DEF Reading
<1>3. CASE Saving
  BY <1>3, SaveCheckedKeeps, SaveWritesKeeps, SaveStatsKeeps, SaveFailsKeeps, SaveArrivesKeeps DEF Saving
<1>4. CASE Others
  <2>1. ASSUME NEW f \in Path, DropStarts(f) PROVE FInv'
    BY <2>1 DEF DropStarts, FInv, FTypes, DiskOK, DraftsOK, Draft, ReadsOK, ReadOK, SavesOK, SaveOK,
         PageHolds, HoldsOwn, Current, IsOf, Holds, Calm, Steady
  <2> QED BY <1>4, <2>1, AgentKeeps, RemoveKeeps, LandKeeps DEF Others
<1>5. CASE UNCHANGED filesVars
  BY <1>5 DEF filesVars, FInv, FTypes, DiskOK, DraftsOK, Draft, ReadsOK, ReadOK, SavesOK, SaveOK,
         PageHolds, HoldsOwn, Current, IsOf, Holds, Calm, Steady
<1> QED BY <1>1, <1>2, <1>3, <1>4, <1>5 DEF FilesNext

LEMMA FilesInductive == Spec => []FInv
<1>1. Init => FInv
  BY FInit DEF Init
<1>2. FInv /\ [Next]_vars => FInv'
  <2>1. [Next]_vars => [FilesNext]_filesVars
    BY DEF Next, vars, filesVars
  <2> QED BY <2>1, FStep
<1> QED BY <1>1, <1>2, PTL DEF Spec

\* What is on screen, in a draft or on disk under a name was read from that
\* file or typed over it, whatever answers land after another file was opened
\* (FilesPane.tsx, files.ts).
THEOREM TextsStayOwn == Spec => []OwnText
<1>1. FInv => OwnText
  <2>1. ASSUME FInv, Calm PROVE \A f \in Path : disk[f].rev # 0 => disk[f].text.of = f
    BY <2>1 DEF FInv, DiskOK
  <2> QED BY <2>1, ShownFacts DEF FInv, DraftsOK, OwnText, Calm
<1> QED BY <1>1, FilesInductive, PTL

\* The rev a save is checked against is the rev of the text the page holds,
\* however reads, polls and saves overtake each other (FilesPane.tsx, files.ts).
THEOREM RevIsOfText == Spec => []RevOfText
<1>1. FInv => RevOfText
  <2>1. slipped = {} => Calm
    BY DEF Calm
  <2> QED BY <2>1 DEF FInv, PageHolds, HoldsOwn, RevOfText, Calm, IsOf, Holds, Current
<1> QED BY <1>1, FilesInductive, PTL

-----------------------------------------------------------------------------
(* Opening.                                                                *)

DialogFields == {"n", "up", "host", "servers", "listing", "rows", "path", "proposal", "busy", "crossed"}
OpenFields == {"n", "m", "path", "given", "create", "folder", "at", "answer"}
LinkFields == {"n", "m", "what", "was", "done"}
AskFields == {"kind", "wanted", "on", "dir", "got"}

DialogOK == DOMAIN dialog = DialogFields /\ dialog.n \in Nat /\ dialog.busy \in BOOLEAN /\ dialog.crossed \in BOOLEAN
OpensOK == /\ \E S : opens \in Seq(S)
           /\ \A i \in 1..Len(opens) : DOMAIN opens[i] = OpenFields /\ opens[i].n \in Nat /\ opens[i].n <= dialog.n
LinksOK == \A l \in links : DOMAIN l = LinkFields /\ l.n \in Nat /\ l.n <= dialog.n

\* A read still wanted is of the machine the dialog shows.
AskOK(r) == r.wanted /\ r.kind \in {"browse", "recents"} => r.on = dialog.host
AsksOK == \A r \in asking : DOMAIN r = AskFields /\ AskOK(r)

\* What is shown is of the machine it is shown for.
OnHost(d) ==
  /\ d.listing # Nil => d.listing.on = d.host
  /\ d.rows.on = d.host /\ d.path.on = d.host
  /\ d.proposal # Nil => d.proposal.on = d.host
ShownOK == dialog.up /\ ~dialog.crossed => OnHost(dialog)

\* What is under way for this dialog is all it waits for.
GivenOK == ~dialog.crossed => \A i \in 1..Len(opens) : opens[i].n = dialog.n => opens[i].given = opens[i].m
OpenAlone(i) ==
  /\ dialog.busy /\ (~dialog.crossed => opens[i].m = dialog.host)
  /\ \A j \in 1..Len(opens) : opens[j].n = dialog.n => j = i
LinkAlone(l) ==
  /\ dialog.busy /\ \A i \in 1..Len(opens) : opens[i].n # dialog.n
  /\ \A k \in links : k.what = "link" /\ k.n = dialog.n => k = l
AloneOK == dialog.up =>
  /\ \A i \in 1..Len(opens) : opens[i].n = dialog.n => OpenAlone(i)
  /\ \A l \in links : l.what = "link" /\ l.n = dialog.n => LinkAlone(l)

OInv == DialogOK /\ OpensOK /\ LinksOK /\ AsksOK /\ ShownOK /\ GivenOK /\ AloneOK

LEMMA OInit == OpeningInit => OInv
<1> SUFFICES ASSUME OpeningInit PROVE OInv
  OBVIOUS
<1>1. opens = <<>> /\ links = {} /\ asking = {}
      /\ dialog = [n |-> 0, up |-> FALSE, host |-> Here, servers |-> {}, listing |-> Nil, rows |-> Empty(Here),
               path |-> NoPath(Here), proposal |-> Nil, busy |-> FALSE, crossed |-> FALSE]
  BY DEF OpeningInit
<1>2. opens \in Seq({}) /\ Len(opens) = 0
  BY <1>1
<1>3. dialog.up = FALSE /\ DOMAIN dialog = DialogFields /\ dialog.n = 0 /\ dialog.busy = FALSE /\ dialog.crossed = FALSE
  BY <1>1 DEF DialogFields
<1> QED BY <1>1, <1>2, <1>3 DEF OInv, DialogOK, OpensOK, LinksOK, AsksOK, ShownOK, GivenOK, AloneOK

-----------------------------------------------------------------------------
(* The opens under way.                                                    *)

LEMMA Replaced ==
  ASSUME NEW S, NEW s \in Seq(S), NEW i \in 1..Len(s), NEW e1
  PROVE  /\ [s EXCEPT ![i] = e1] \in Seq(S \cup {e1}) /\ Len([s EXCEPT ![i] = e1]) = Len(s)
         /\ \A k \in 1..Len(s) : [s EXCEPT ![i] = e1][k] = IF k = i THEN e1 ELSE s[k]
OBVIOUS

\* One goes on, for what and from where it was sent the same.
LEMMA OpenStep ==
  ASSUME OInv, UNCHANGED <<links, asking, dialog>>, NEW i \in 1..Len(opens), NEW r,
         opens' = [opens EXCEPT ![i] = r], DOMAIN r = OpenFields,
         r.n = opens[i].n, r.m = opens[i].m, r.given = opens[i].given
  PROVE  OInv'
<1>1. PICK S : opens \in Seq(S)
  BY DEF OInv, OpensOK
<1>2. /\ opens' \in Seq(S \cup {r}) /\ Len(opens') = Len(opens)
      /\ \A k \in 1..Len(opens) : opens'[k] = IF k = i THEN r ELSE opens[k]
  BY <1>1, Replaced
<1>3. \A k \in 1..Len(opens) : /\ opens'[k].n = opens[k].n /\ opens'[k].m = opens[k].m
                               /\ opens'[k].given = opens[k].given /\ DOMAIN opens'[k] = OpenFields
  BY <1>2 DEF OInv, OpensOK
<1>4. OpensOK'
  BY <1>2, <1>3 DEF OInv, OpensOK
<1>5. GivenOK' /\ AloneOK'
  BY <1>2, <1>3 DEF OInv, GivenOK, AloneOK, OpenAlone, LinkAlone
<1> QED BY <1>4, <1>5 DEF OInv, DialogOK, LinksOK, AsksOK, AskOK, ShownOK, OnHost

LEMMA InOpens == ASSUME OInv, NEW i \in DOMAIN opens PROVE i \in 1..Len(opens) /\ DOMAIN opens[i] = OpenFields
<1>1. PICK S : opens \in Seq(S)
  BY DEF OInv, OpensOK
<1> QED BY <1>1 DEF OInv, OpensOK

LEMMA GoesStep ==
  ASSUME OInv, NEW i \in DOMAIN opens, NEW at, GoesTo(i, at), UNCHANGED <<links, asking, dialog>>
  PROVE  OInv'
<1> DEFINE r == [opens[i] EXCEPT !.at = at]
<1>1. i \in 1..Len(opens) /\ DOMAIN opens[i] = OpenFields
  BY InOpens
<1>2. opens' = [opens EXCEPT ![i] = r]
  BY DEF GoesTo
<1>3. DOMAIN r = OpenFields /\ r.n = opens[i].n /\ r.m = opens[i].m /\ r.given = opens[i].given
  BY <1>1 DEF OpenFields
<1> HIDE DEF r
<1> QED BY <1>1, <1>2, <1>3, OpenStep

LEMMA AnsweredStep ==
  ASSUME OInv, NEW i \in DOMAIN opens, NEW w, Answered(i, w), UNCHANGED <<links, asking, dialog>>
  PROVE  OInv'
<1> DEFINE r == [opens[i] EXCEPT !.at = "answered", !.answer = w]
<1>1. i \in 1..Len(opens) /\ DOMAIN opens[i] = OpenFields
  BY InOpens
<1>2. opens' = [opens EXCEPT ![i].at = "answered", ![i].answer = w]
  BY DEF Answered
<1>3. opens' = [opens EXCEPT ![i] = r]
  <2>1. PICK S : opens \in Seq(S)
    BY DEF OInv, OpensOK
  <2> QED BY <1>1, <1>2, <2>1
<1>4. DOMAIN r = OpenFields /\ r.n = opens[i].n /\ r.m = opens[i].m /\ r.given = opens[i].given
  BY <1>1 DEF OpenFields
<1> HIDE DEF r
<1> QED BY <1>1, <1>3, <1>4, OpenStep

LEMMA OpenerKeeps ==
  ASSUME OInv, NEW i \in DOMAIN opens,
         \/ Looks(i) \/ MakesDir(i) \/ ChecksDir(i) \/ AsksGit(i)
         \/ Inspects(i) \/ Inits(i) \/ CommitsFirst(i) \/ FindsRoot(i)
  PROVE  OInv'
<1>1. CASE Looks(i)
  BY <1>1, GoesStep, AnsweredStep DEF Looks
<1>2. CASE MakesDir(i)
  BY <1>2, GoesStep DEF MakesDir
<1>3. CASE ChecksDir(i)
  BY <1>3, GoesStep, AnsweredStep DEF ChecksDir
<1>4. CASE AsksGit(i)
  <2>1. \E at : GoesTo(i, at)
    BY <1>4 DEF AsksGit
  <2> QED BY <1>4, <2>1, GoesStep DEF AsksGit
<1>5. CASE Inspects(i)
  BY <1>5, AnsweredStep DEF Inspects
<1>6. CASE Inits(i)
  BY <1>6, GoesStep, AnsweredStep DEF Inits
<1>7. CASE CommitsFirst(i)
  BY <1>7, GoesStep, AnsweredStep DEF CommitsFirst
<1>8. CASE FindsRoot(i)
  BY <1>8, GoesStep, AnsweredStep DEF FindsRoot
<1> QED BY <1>1, <1>2, <1>3, <1>4, <1>5, <1>6, <1>7, <1>8

-----------------------------------------------------------------------------
(* The dialog.                                                             *)

\* It shows other things of the same machine, or of another.
LEMMA DialogStep ==
  ASSUME OInv, UNCHANGED <<opens, links>>, DOMAIN dialog' = DialogFields,
         dialog'.n = dialog.n, dialog'.up = dialog.up, dialog'.busy = dialog.busy,
         dialog'.crossed = dialog.crossed, dialog'.host = dialog.host,
         dialog.up /\ ~dialog.crossed => OnHost(dialog'),
         \A r \in asking' : DOMAIN r = AskFields /\ (r \in asking \/ r.wanted = FALSE \/ r.on = dialog.host \/ r.kind = "servers")
  PROVE  OInv'
<1>1. ShownOK' /\ AsksOK'
  BY DEF OInv, ShownOK, OnHost, AsksOK, AskOK
<1> QED BY <1>1 DEF OInv, DialogOK, OpensOK, LinksOK, GivenOK, AloneOK, OpenAlone, LinkAlone

\* The reads of those kinds that were asked before are wanted no more.
LEMMA UnwantedFacts ==
  ASSUME OInv, NEW kinds
  PROVE  \A r \in Unwanted(kinds) :
           DOMAIN r = AskFields /\ (r.wanted = FALSE \/ (r \in asking /\ r.kind \notin kinds))
<1> SUFFICES ASSUME NEW r \in Unwanted(kinds)
             PROVE  DOMAIN r = AskFields /\ (r.wanted = FALSE \/ (r \in asking /\ r.kind \notin kinds))
  OBVIOUS
<1>1. PICK q \in asking : r = IF q.kind \in kinds THEN [q EXCEPT !.wanted = FALSE] ELSE q
  BY DEF Unwanted
<1>2. DOMAIN q = AskFields
  BY DEF OInv, AsksOK
<1>3. DOMAIN [q EXCEPT !.wanted = FALSE] = AskFields /\ [q EXCEPT !.wanted = FALSE].wanted = FALSE
  BY <1>2 DEF AskFields
<1> QED BY <1>1, <1>2, <1>3

LEMMA AnswersReadKeeps == ASSUME OInv, NEW r \in asking, AnswersRead(r) PROVE OInv'
<1>1. PICK g : asking' = (asking \ {r}) \cup {[r EXCEPT !.got = g]} /\ UNCHANGED <<opens, links, dialog>>
  BY DEF AnswersRead
<1>2. DOMAIN r = AskFields /\ AskOK(r)
  BY DEF OInv, AsksOK
<1> DEFINE q == [r EXCEPT !.got = g]
<1>3. DOMAIN q = AskFields /\ q.kind = r.kind /\ q.on = r.on /\ q.wanted = r.wanted
  BY <1>2 DEF AskFields
<1> HIDE DEF q
<1>4. asking' = (asking \ {r}) \cup {q}
  BY <1>1 DEF q
<1>5. AsksOK'
  BY <1>1, <1>2, <1>3, <1>4 DEF OInv, AsksOK, AskOK
<1> QED BY <1>1, <1>5 DEF OInv, DialogOK, OpensOK, LinksOK, ShownOK, OnHost, GivenOK, AloneOK, OpenAlone, LinkAlone

LEMMA ShowsKeeps == ASSUME OInv, NEW r \in asking, PickerShows(r) PROVE OInv'
<1>1. /\ asking' = asking \ {r} /\ UNCHANGED <<opens, links>>
      /\ dialog' = CASE r.kind = "servers" -> [dialog EXCEPT !.servers = r.got.rows]
                 [] r.kind = "browse" /\ r.wanted -> Browsed(r)
                 [] r.kind = "recents" /\ r.wanted -> Offered(r)
                 [] OTHER -> dialog
  BY DEF PickerShows
<1>2. DOMAIN dialog = DialogFields /\ AskOK(r) /\ (dialog.up /\ ~dialog.crossed => OnHost(dialog))
  BY DEF OInv, DialogOK, AsksOK, ShownOK
<1>3. /\ DOMAIN dialog' = DialogFields /\ dialog'.n = dialog.n /\ dialog'.up = dialog.up
      /\ dialog'.busy = dialog.busy /\ dialog'.crossed = dialog.crossed /\ dialog'.host = dialog.host
  BY <1>1, <1>2 DEF Browsed, Offered, DialogFields
<1>4. dialog.up /\ ~dialog.crossed => OnHost(dialog')
  <2> SUFFICES ASSUME OnHost(dialog) PROVE OnHost(dialog')
    BY <1>2
  <2>1. CASE r.kind = "servers"
    BY <1>1, <1>2, <2>1 DEF OnHost, DialogFields
  <2>2. CASE r.kind = "browse" /\ r.wanted
    BY <1>1, <1>2, <2>2 DEF OnHost, DialogFields, Browsed, AskOK
  <2>3. CASE r.kind = "recents" /\ r.wanted
    BY <1>1, <1>2, <2>3 DEF OnHost, DialogFields, Offered, AskOK
  <2> QED BY <1>1, <2>1, <2>2, <2>3
<1>5. \A q \in asking' : DOMAIN q = AskFields /\ q \in asking
  BY <1>1 DEF OInv, AsksOK
<1> QED BY <1>1, <1>3, <1>4, <1>5, DialogStep

LEMMA PickerFailsKeeps == ASSUME OInv, NEW r \in asking, PickerFails(r) PROVE OInv'
<1>1. /\ asking' = asking \ {r} /\ UNCHANGED <<opens, links>>
      /\ dialog' = IF r.kind = "recents" /\ r.wanted THEN [dialog EXCEPT !.rows = [on |-> r.on, rows |-> {}]] ELSE dialog
  BY DEF PickerFails
<1>2. DOMAIN dialog = DialogFields /\ AskOK(r) /\ (dialog.up /\ ~dialog.crossed => OnHost(dialog))
  BY DEF OInv, DialogOK, AsksOK, ShownOK
<1>3. /\ DOMAIN dialog' = DialogFields /\ dialog'.n = dialog.n /\ dialog'.up = dialog.up
      /\ dialog'.busy = dialog.busy /\ dialog'.crossed = dialog.crossed /\ dialog'.host = dialog.host
  BY <1>1, <1>2 DEF DialogFields
<1>4. dialog.up /\ ~dialog.crossed => OnHost(dialog')
  BY <1>1, <1>2 DEF OnHost, DialogFields, AskOK
<1>5. \A q \in asking' : DOMAIN q = AskFields /\ q \in asking
  BY <1>1 DEF OInv, AsksOK
<1> QED BY <1>1, <1>3, <1>4, <1>5, DialogStep

\* A machine is switched to: with what it shows emptied and asked for again.
SwitchFacts(d, f, m) ==
  /\ DOMAIN f = DialogFields /\ f.n = d.n /\ f.up = d.up /\ f.busy = d.busy /\ f.crossed = d.crossed /\ f.host = m
  /\ OnHost(d) \/ d.host # m => OnHost(f)

LEMMA SwitchedFacts ==
  ASSUME NEW d, DOMAIN d = DialogFields, NEW m
  PROVE  SwitchFacts(d, Switched(d, m), m)
<1>1. CASE d.host = m
  BY <1>1 DEF SwitchFacts, Switched
<1>2. CASE d.host # m
  BY <1>2 DEF SwitchFacts, Switched, DialogFields, OnHost, Empty, NoPath
<1> QED BY <1>1, <1>2

LEMMA AfreshFacts ==
  ASSUME OInv, NEW m, AsksAfresh(dialog, m)
  PROVE  \A r \in asking' : DOMAIN r = AskFields /\ (r.wanted /\ r.kind \in {"browse", "recents"} => r.on = m)
<1>1. CASE dialog.host = m
  BY <1>1 DEF AsksAfresh, OInv, AsksOK, AskOK
<1>2. CASE dialog.host # m
  <2>1. asking' = Unwanted({"browse", "recents"}) \cup {Asks("browse", m, Home), Asks("recents", m, Nil)}
    BY <1>2 DEF AsksAfresh
  <2>2. \A r \in Unwanted({"browse", "recents"}) :
          DOMAIN r = AskFields /\ (r.wanted = FALSE \/ r.kind \notin {"browse", "recents"})
    BY UnwantedFacts
  <2>3. /\ DOMAIN Asks("browse", m, Home) = AskFields /\ Asks("browse", m, Home).on = m
        /\ DOMAIN Asks("recents", m, Nil) = AskFields /\ Asks("recents", m, Nil).on = m
    BY DEF Asks, AskFields
  <2> QED BY <2>1, <2>2, <2>3
<1> QED BY <1>1, <1>2

LEMMA PutsUpKeeps == ASSUME OInv, PutsUp PROVE OInv'
<1>1. /\ dialog' = [n |-> dialog.n + 1, up |-> TRUE, host |-> Here, servers |-> {}, listing |-> Nil,
                rows |-> Empty(Here), path |-> NoPath(Here), proposal |-> Nil, busy |-> FALSE, crossed |-> FALSE]
      /\ asking' = {Asks("browse", Here, Home), Asks("recents", Here, Nil), Asks("servers", Here, Nil)}
      /\ UNCHANGED <<opens, links>>
  BY DEF PutsUp
<1>2. /\ DOMAIN dialog' = DialogFields /\ dialog'.n = dialog.n + 1 /\ dialog'.host = Here /\ OnHost(dialog')
      /\ dialog'.busy = FALSE /\ dialog'.crossed = FALSE
  BY <1>1 DEF DialogFields, OnHost, Empty, NoPath
<1>3. DialogOK' /\ ShownOK'
  <2>1. dialog.n + 1 \in Nat
    BY DEF OInv, DialogOK
  <2> QED BY <1>2, <2>1 DEF DialogOK, ShownOK, OnHost
<1>4. AsksOK'
  <2>1. \A r \in asking' : DOMAIN r = AskFields /\ r.on = Here
    <3>1. /\ DOMAIN Asks("browse", Here, Home) = AskFields /\ Asks("browse", Here, Home).on = Here
          /\ DOMAIN Asks("recents", Here, Nil) = AskFields /\ Asks("recents", Here, Nil).on = Here
          /\ DOMAIN Asks("servers", Here, Nil) = AskFields /\ Asks("servers", Here, Nil).on = Here
      BY DEF Asks, AskFields
    <3> QED BY <1>1, <3>1
  <2> QED BY <1>2, <2>1 DEF AsksOK, AskOK
<1>5. dialog.n \in Nat /\ (\A i \in 1..Len(opens) : opens[i].n \in Nat /\ opens[i].n <= dialog.n)
      /\ (\A l \in links : l.n \in Nat /\ l.n <= dialog.n)
  BY DEF OInv, DialogOK, OpensOK, LinksOK
<1>6. (\A i \in 1..Len(opens) : opens[i].n # dialog'.n) /\ (\A l \in links : l.n # dialog'.n)
  BY <1>2, <1>5
<1>7. OpensOK' /\ LinksOK'
  BY <1>1, <1>2, <1>5 DEF OInv, OpensOK, LinksOK
<1>8. GivenOK' /\ AloneOK'
  BY <1>1, <1>6 DEF GivenOK, AloneOK
<1> QED BY <1>3, <1>4, <1>7, <1>8 DEF OInv

LEMMA DownFacts ==
  ASSUME OInv, TakesDown
  PROVE  /\ DOMAIN dialog' = DialogFields /\ dialog'.n = dialog.n /\ dialog'.up = FALSE
         /\ dialog'.busy = dialog.busy /\ dialog'.crossed = dialog.crossed /\ asking' = {}
BY DEF OInv, DialogOK, TakesDown, DialogFields

\* Nothing is asked of a dialog that is down.
LEMMA DownKeeps == ASSUME OInv, TakesDown, UNCHANGED opens, links' \in SUBSET links PROVE OInv'
BY DownFacts DEF OInv, DialogOK, OpensOK, LinksOK, AsksOK, ShownOK, GivenOK, AloneOK

LEMMA BrowsesKeeps == ASSUME OInv, NEW dir, Browses(dir) PROVE OInv'
<1>1. /\ asking' = Unwanted({"browse"}) \cup {Asks("browse", dialog.host, dir)}
      /\ UNCHANGED <<opens, links, dialog>>
  BY DEF Browses
<1>2. \A r \in asking' : DOMAIN r = AskFields /\ (r \in asking \/ r.wanted = FALSE \/ r.on = dialog.host)
  <2>1. \A r \in Unwanted({"browse"}) : DOMAIN r = AskFields /\ (r \in asking \/ r.wanted = FALSE)
    BY UnwantedFacts
  <2>2. DOMAIN Asks("browse", dialog.host, dir) = AskFields /\ Asks("browse", dialog.host, dir).on = dialog.host
    BY DEF Asks, AskFields
  <2> QED BY <1>1, <2>1, <2>2
<1> QED BY <1>1, <1>2, DialogStep DEF OInv, DialogOK, ShownOK

LEMMA TypesPathKeeps == ASSUME OInv, NEW p, TypesPath(p) PROVE OInv'
<1>1. dialog' = [dialog EXCEPT !.path = [on |-> dialog.host, path |-> p]] /\ UNCHANGED <<opens, links, asking>>
  BY DEF TypesPath
<1>2. DOMAIN dialog = DialogFields /\ (dialog.up /\ ~dialog.crossed => OnHost(dialog))
  BY DEF OInv, DialogOK, ShownOK
<1>3. /\ DOMAIN dialog' = DialogFields /\ dialog'.n = dialog.n /\ dialog'.up = dialog.up
      /\ dialog'.busy = dialog.busy /\ dialog'.crossed = dialog.crossed /\ dialog'.host = dialog.host
      /\ dialog.up /\ ~dialog.crossed => OnHost(dialog')
  BY <1>1, <1>2 DEF DialogFields, OnHost
<1> QED BY <1>1, <1>3, DialogStep DEF OInv, AsksOK

LEMMA BacksKeeps == ASSUME OInv, Backs PROVE OInv'
<1>1. dialog' = [dialog EXCEPT !.proposal = Nil] /\ UNCHANGED <<opens, links, asking>>
  BY DEF Backs
<1>2. DOMAIN dialog = DialogFields /\ (dialog.up /\ ~dialog.crossed => OnHost(dialog))
  BY DEF OInv, DialogOK, ShownOK
<1>3. /\ DOMAIN dialog' = DialogFields /\ dialog'.n = dialog.n /\ dialog'.up = dialog.up
      /\ dialog'.busy = dialog.busy /\ dialog'.crossed = dialog.crossed /\ dialog'.host = dialog.host
      /\ dialog.up /\ ~dialog.crossed => OnHost(dialog')
  BY <1>1, <1>2 DEF DialogFields, OnHost
<1> QED BY <1>1, <1>3, DialogStep DEF OInv, AsksOK

\* While it waits for nothing, nothing it sent is under way.
LEMMA IdleFacts ==
  ASSUME OInv, dialog.up, ~dialog.busy
  PROVE  /\ \A i \in 1..Len(opens) : opens[i].n # dialog.n
         /\ \A l \in links : ~(l.what = "link" /\ l.n = dialog.n)
BY DEF OInv, AloneOK, OpenAlone, LinkAlone

LEMMA ChoosesKeeps == ASSUME OInv, NEW m, ChoosesMachine(m) PROVE OInv'
<1>1. /\ dialog.up /\ ~dialog.busy /\ m # dialog.host /\ dialog' = Switched(dialog, m) /\ AsksAfresh(dialog, m)
      /\ UNCHANGED <<opens, links>>
  BY DEF ChoosesMachine, Picking
<1>2. SwitchFacts(dialog, dialog', m)
  BY <1>1, SwitchedFacts DEF OInv, DialogOK
<1>3. AsksOK'
  BY <1>1, <1>2, AfreshFacts DEF AsksOK, AskOK, SwitchFacts
<1>4. DialogOK' /\ ShownOK' /\ OpensOK' /\ LinksOK'
  BY <1>1, <1>2 DEF SwitchFacts, OInv, DialogOK, ShownOK, OnHost, OpensOK, LinksOK
<1>5. GivenOK' /\ AloneOK'
  BY <1>1, <1>2, IdleFacts DEF SwitchFacts, GivenOK, AloneOK
<1> QED BY <1>3, <1>4, <1>5 DEF OInv

-----------------------------------------------------------------------------
(* What is sent, and its answers.                                          *)

LEMMA Appended ==
  ASSUME NEW S, NEW s \in Seq(S), NEW e1
  PROVE  /\ Append(s, e1) \in Seq(S \cup {e1}) /\ Len(Append(s, e1)) = Len(s) + 1
         /\ \A k \in 1..Len(s) + 1 : Append(s, e1)[k] = IF k = Len(s) + 1 THEN e1 ELSE s[k]
OBVIOUS

LEMMA SendsKeeps ==
  ASSUME OInv, NEW q, NEW c1, NEW c2, Sends(q, c1, c2), ~dialog.crossed => q.on = dialog.host
  PROVE  OInv'
<1>1. dialog.up /\ ~dialog.busy /\ UNCHANGED <<links, asking>>
  BY DEF Sends
<1>2. CASE UNCHANGED <<opens, dialog>>
  BY <1>1, <1>2 DEF OInv, DialogOK, OpensOK, LinksOK, AsksOK, AskOK, ShownOK, OnHost, GivenOK, AloneOK,
                    OpenAlone, LinkAlone
<1>3. CASE ~UNCHANGED <<opens, dialog>>
  <2> DEFINE r == [n |-> dialog.n, m |-> dialog.host, path |-> q.path, given |-> q.on, create |-> c1,
                   folder |-> c2, at |-> "asked", answer |-> Nil]
  <2>1. dialog' = [dialog EXCEPT !.busy = TRUE] /\ opens' = Append(opens, r)
    BY <1>3 DEF Sends
  <2>2. DOMAIN r = OpenFields /\ r.n = dialog.n /\ r.m = dialog.host /\ r.given = q.on
    BY DEF OpenFields
  <2> HIDE DEF r
  <2>3. PICK S : opens \in Seq(S)
    BY DEF OInv, OpensOK
  <2>4. /\ opens' \in Seq(S \cup {r}) /\ Len(opens') = Len(opens) + 1 /\ Len(opens) \in Nat
        /\ \A k \in 1..Len(opens) + 1 : opens'[k] = IF k = Len(opens) + 1 THEN r ELSE opens[k]
    BY <2>1, <2>3, Appended
  <2>5. /\ DOMAIN dialog' = DialogFields /\ dialog'.n = dialog.n /\ dialog'.up = dialog.up /\ dialog'.busy = TRUE
        /\ dialog'.crossed = dialog.crossed /\ dialog'.host = dialog.host
        /\ OnHost(dialog) => OnHost(dialog')
    BY <2>1 DEF OInv, DialogOK, DialogFields, OnHost
  <2>6. DialogOK' /\ LinksOK' /\ AsksOK' /\ ShownOK'
    BY <1>1, <2>5 DEF OInv, DialogOK, LinksOK, AsksOK, AskOK, ShownOK, OnHost
  <2>7. dialog.n \in Nat
    BY DEF OInv, DialogOK
  <2>8. OpensOK'
    BY <2>2, <2>4, <2>5, <2>7 DEF OInv, OpensOK
  <2>9. GivenOK' /\ AloneOK'
    <3>1. \A i \in 1..Len(opens') : opens'[i].n = dialog.n => i = Len(opens) + 1 /\ opens'[i] = r
      BY <1>1, <2>4, IdleFacts
    <3> QED BY <1>1, <2>2, <2>5, <3>1, IdleFacts DEF GivenOK, AloneOK, OpenAlone, LinkAlone
  <2> QED BY <2>6, <2>8, <2>9 DEF OInv
<1> QED BY <1>2, <1>3

LEMMA OpensKeep == ASSUME OInv, OpensTyped \/ OpensRow \/ OpensRecent \/ Confirms PROVE OInv'
<1>1. dialog.up /\ ~dialog.crossed => OnHost(dialog)
  BY DEF OInv, ShownOK
<1>2. CASE OpensTyped
  BY <1>1, <1>2, SendsKeeps DEF OpensTyped, Picking, OnHost
<1>3. CASE OpensRow
  <2>1. PICK p : Sends([on |-> dialog.listing.on, path |-> p], FALSE, FALSE)
    BY <1>3 DEF OpensRow
  <2> QED BY <1>1, <1>3, <2>1, SendsKeeps DEF OpensRow, Picking, OnHost
<1>4. CASE OpensRecent
  <2>1. PICK p, c1 : Sends([on |-> dialog.rows.on, path |-> p], FALSE, c1)
    BY <1>4 DEF OpensRecent
  <2> QED BY <1>1, <1>4, <2>1, SendsKeeps DEF OpensRecent, Picking, OnHost
<1>5. CASE Confirms
  <2>1. dialog.up
    BY <1>5 DEF Confirms, Sends
  <2>2. PICK c1, c2 : Sends(dialog.proposal, c1, c2)
    BY <1>5 DEF Confirms
  <2> QED BY <1>1, <1>5, <2>1, <2>2, SendsKeeps DEF Confirms, OnHost
<1> QED BY <1>2, <1>3, <1>4, <1>5

\* One of the opens is gone, and the others are each what one of them was.
Dropped(i) ==
  /\ \E S : opens' \in Seq(S)
  /\ \A k \in 1..Len(opens') : \E j \in 1..Len(opens) : j # i /\ opens'[k] = opens[j]
  /\ \A k, l \in 1..Len(opens') : k # l =>
       \E j1, j2 \in 1..Len(opens) : j1 # j2 /\ opens'[k] = opens[j1] /\ opens'[l] = opens[j2]

LEMMA DroppedFacts ==
  ASSUME OInv, NEW i \in 1..Len(opens), opens' = Without(opens, i)
  PROVE  Dropped(i)
<1>1. PICK S : opens \in Seq(S)
  BY DEF OInv, OpensOK
<1>2. /\ opens' \in Seq(S) /\ Len(opens') = Len(opens) - 1 /\ Len(opens) \in Nat
      /\ \A k \in 1..Len(opens) - 1 : opens'[k] = opens[IF k < i THEN k ELSE k + 1]
  BY <1>1, WithoutOne
<1>3. \A k \in 1..Len(opens') : \E j \in 1..Len(opens) : j # i /\ opens'[k] = opens[j]
  <2> SUFFICES ASSUME NEW k \in 1..Len(opens') PROVE \E j \in 1..Len(opens) : j # i /\ opens'[k] = opens[j]
    OBVIOUS
  <2> DEFINE j == IF k < i THEN k ELSE k + 1
  <2>1. j \in 1..Len(opens) /\ j # i /\ opens'[k] = opens[j]
    BY <1>2
  <2> QED BY <2>1
<1>4. \A k, l \in 1..Len(opens') : k # l =>
        \E j1, j2 \in 1..Len(opens) : j1 # j2 /\ opens'[k] = opens[j1] /\ opens'[l] = opens[j2]
  <2> SUFFICES ASSUME NEW k \in 1..Len(opens'), NEW l \in 1..Len(opens'), k # l
               PROVE  \E j1, j2 \in 1..Len(opens) : j1 # j2 /\ opens'[k] = opens[j1] /\ opens'[l] = opens[j2]
    OBVIOUS
  <2> DEFINE j1 == IF k < i THEN k ELSE k + 1
             j2 == IF l < i THEN l ELSE l + 1
  <2>1. j1 \in 1..Len(opens) /\ j2 \in 1..Len(opens) /\ j1 # j2 /\ opens'[k] = opens[j1] /\ opens'[l] = opens[j2]
    BY <1>2
  <2> QED BY <2>1
<1> QED BY <1>2, <1>3, <1>4 DEF Dropped

LEMMA DroppedKeeps ==
  ASSUME OInv, NEW i \in 1..Len(opens), Dropped(i), UNCHANGED links,
         \/ TakesDown
         \/ UNCHANGED <<dialog, asking>>
         \/ /\ dialog.up /\ opens[i].n = dialog.n /\ UNCHANGED asking
            /\ DOMAIN dialog' = DialogFields /\ dialog'.n = dialog.n /\ dialog'.up = dialog.up
            /\ dialog'.busy = FALSE /\ dialog'.crossed = dialog.crossed /\ dialog'.host = dialog.host
            /\ ~dialog.crossed => OnHost(dialog')
  PROVE  OInv'
<1>1. /\ dialog'.n = dialog.n /\ dialog'.crossed = dialog.crossed /\ DOMAIN dialog' = DialogFields
      /\ dialog'.busy \in BOOLEAN
  BY DownFacts DEF OInv, DialogOK
<1>2. DialogOK' /\ LinksOK'
  BY <1>1 DEF OInv, DialogOK, LinksOK
<1>3. \A k \in 1..Len(opens') : \E j \in 1..Len(opens) : j # i /\ opens'[k] = opens[j]
  BY DEF Dropped
<1>4. OpensOK' /\ GivenOK'
  BY <1>1, <1>3 DEF Dropped, OInv, OpensOK, GivenOK
<1>5. AsksOK' /\ ShownOK'
  <2>1. CASE TakesDown
    BY <2>1, DownFacts DEF AsksOK, ShownOK
  <2>2. CASE UNCHANGED <<dialog, asking>>
    BY <2>2 DEF OInv, AsksOK, AskOK, ShownOK, OnHost
  <2>3. CASE ~TakesDown /\ ~UNCHANGED <<dialog, asking>>
    BY <2>3 DEF OInv, AsksOK, AskOK, ShownOK, OnHost
  <2> QED BY <2>1, <2>2, <2>3
<1>6. AloneOK'
  <2>1. CASE TakesDown
    BY <2>1, DownFacts DEF AloneOK
  <2>2. CASE UNCHANGED <<dialog, asking>>
    <3> SUFFICES ASSUME dialog.up PROVE AloneOK'
      BY <2>2 DEF AloneOK
    <3>1. ASSUME NEW k \in 1..Len(opens'), opens'[k].n = dialog.n
          PROVE  /\ dialog.busy /\ (~dialog.crossed => opens'[k].m = dialog.host)
                 /\ \A l \in 1..Len(opens') : opens'[l].n = dialog.n => l = k
      <4>1. dialog.busy /\ (~dialog.crossed => opens'[k].m = dialog.host)
        BY <1>3, <3>1 DEF OInv, AloneOK, OpenAlone
      <4>2. ASSUME NEW l \in 1..Len(opens'), opens'[l].n = dialog.n, l # k PROVE FALSE
        <5>1. PICK j1, j2 \in 1..Len(opens) : j1 # j2 /\ opens'[k] = opens[j1] /\ opens'[l] = opens[j2]
          BY <4>2 DEF Dropped
        <5> QED BY <3>1, <4>2, <5>1 DEF OInv, AloneOK, OpenAlone
      <4> QED BY <4>1, <4>2
    <3>2. ASSUME NEW l \in links, l.what = "link", l.n = dialog.n
          PROVE  /\ dialog.busy /\ \A k \in 1..Len(opens') : opens'[k].n # dialog.n
                 /\ \A k \in links : k.what = "link" /\ k.n = dialog.n => k = l
      BY <1>3, <3>2 DEF OInv, AloneOK, LinkAlone
    <3> QED BY <2>2, <3>1, <3>2 DEF AloneOK, OpenAlone, LinkAlone
  <2>3. CASE ~TakesDown /\ ~UNCHANGED <<dialog, asking>>
    <3>1. dialog.up /\ opens[i].n = dialog.n /\ dialog'.up = dialog.up
      BY <2>3
    <3>2. \A j \in 1..Len(opens) : j # i => opens[j].n # dialog.n
      BY <3>1 DEF OInv, AloneOK, OpenAlone
    <3>3. \A l \in links : ~(l.what = "link" /\ l.n = dialog.n)
      BY <3>1 DEF OInv, AloneOK, LinkAlone
    <3>4. \A k \in 1..Len(opens') : opens'[k].n # dialog.n
      BY <1>3, <3>2
    <3> QED BY <1>1, <3>3, <3>4 DEF AloneOK
  <2> QED BY <2>1, <2>2, <2>3
<1> QED BY <1>2, <1>4, <1>5, <1>6 DEF OInv

LEMMA OpenAnsweredKeeps == ASSUME OInv, NEW i \in DOMAIN opens, OpenAnswered(i) PROVE OInv'
<1> DEFINE o == opens[i]
           own == dialog.up /\ o.n = dialog.n
<1>1. /\ i \in 1..Len(opens) /\ opens' = Without(opens, i) /\ UNCHANGED links
      /\ CASE o.answer.kind = "opened" -> TakesDown
          [] o.answer.kind = "failed" /\ own -> dialog' = [dialog EXCEPT !.busy = FALSE] /\ UNCHANGED asking
          [] o.answer.kind \in {"create", "init"} /\ own ->
               dialog' = [dialog EXCEPT !.busy = FALSE, !.proposal = Proposed(o)] /\ UNCHANGED asking
          [] OTHER -> UNCHANGED <<dialog, asking>>
  BY InOpens DEF OpenAnswered, Without
<1>2. Dropped(i)
  BY <1>1, DroppedFacts
<1>3. DOMAIN dialog = DialogFields /\ (dialog.up /\ ~dialog.crossed => OnHost(dialog))
  BY DEF OInv, DialogOK, ShownOK
<1>4. own /\ ~dialog.crossed => Proposed(o).on = dialog.host
  BY <1>1 DEF OInv, GivenOK, AloneOK, OpenAlone, Proposed
<1> HIDE DEF o
<1>5. CASE o.answer.kind = "opened"
  BY <1>1, <1>2, <1>5, DroppedKeeps
<1>6. CASE o.answer.kind = "failed" /\ own
  <2>1. /\ DOMAIN dialog' = DialogFields /\ dialog'.n = dialog.n /\ dialog'.up = dialog.up
        /\ dialog'.busy = FALSE /\ dialog'.crossed = dialog.crossed /\ dialog'.host = dialog.host
        /\ ~dialog.crossed => OnHost(dialog')
    BY <1>1, <1>3, <1>6 DEF DialogFields, OnHost
  <2> QED BY <1>1, <1>2, <1>6, <2>1, DroppedKeeps DEF o
<1>7. CASE o.answer.kind \in {"create", "init"} /\ own
  <2>1. /\ DOMAIN dialog' = DialogFields /\ dialog'.n = dialog.n /\ dialog'.up = dialog.up
        /\ dialog'.busy = FALSE /\ dialog'.crossed = dialog.crossed /\ dialog'.host = dialog.host
        /\ ~dialog.crossed => OnHost(dialog')
    BY <1>1, <1>3, <1>4, <1>7 DEF DialogFields, OnHost
  <2> QED BY <1>1, <1>2, <1>7, <2>1, DroppedKeeps DEF o
<1>8. CASE /\ o.answer.kind # "opened" /\ ~(o.answer.kind = "failed" /\ own)
           /\ ~(o.answer.kind \in {"create", "init"} /\ own)
  BY <1>1, <1>2, <1>8, DroppedKeeps
<1> QED BY <1>5, <1>6, <1>7, <1>8

-----------------------------------------------------------------------------
(* Machines linked and forgotten.                                          *)

LEMMA LinksKeeps == ASSUME OInv, NEW m, Links(m) PROVE OInv'
<1> DEFINE r == [n |-> dialog.n, m |-> m, what |-> "link", was |-> Nil, done |-> FALSE]
<1>1. /\ dialog.up /\ ~dialog.busy /\ links' = links \cup {r} /\ dialog' = [dialog EXCEPT !.busy = TRUE]
      /\ UNCHANGED <<opens, asking>>
  BY DEF Links, Picking
<1>2. DOMAIN r = LinkFields /\ r.n = dialog.n
  BY DEF LinkFields
<1> HIDE DEF r
<1>3. /\ DOMAIN dialog' = DialogFields /\ dialog'.n = dialog.n /\ dialog'.up = dialog.up /\ dialog'.busy = TRUE
      /\ dialog'.crossed = dialog.crossed /\ dialog'.host = dialog.host /\ dialog.n \in Nat
      /\ OnHost(dialog) => OnHost(dialog')
  BY <1>1 DEF OInv, DialogOK, DialogFields, OnHost
<1>4. DialogOK' /\ OpensOK' /\ AsksOK' /\ ShownOK'
  BY <1>1, <1>3 DEF OInv, DialogOK, OpensOK, AsksOK, AskOK, ShownOK, OnHost
<1>5. LinksOK'
  BY <1>1, <1>2, <1>3 DEF OInv, LinksOK
<1>6. GivenOK' /\ AloneOK'
  BY <1>1, <1>2, <1>3, IdleFacts DEF GivenOK, AloneOK, LinkAlone
<1> QED BY <1>4, <1>5, <1>6 DEF OInv

\* What is not a link under way for this dialog may come and go.
LEMMA LinksStep ==
  ASSUME OInv, UNCHANGED <<opens, asking, dialog>>,
         \A l \in links' : DOMAIN l = LinkFields /\ l.n \in Nat /\ l.n <= dialog.n,
         dialog.up => \A l \in links' : l.what = "link" /\ l.n = dialog.n => LinkAlone(l)',
         UNCHANGED opens
  PROVE  OInv'
<1>1. LinksOK' /\ AloneOK'
  BY DEF OInv, LinksOK, AloneOK, OpenAlone
<1> QED BY <1>1 DEF OInv, DialogOK, OpensOK, AsksOK, AskOK, ShownOK, OnHost, GivenOK

LEMMA ForgetsKeeps == ASSUME OInv, NEW m, Forgets(m) PROVE OInv'
<1> DEFINE r == [n |-> dialog.n, m |-> m, what |-> "forget", was |-> dialog.host, done |-> FALSE]
<1>1. links' = links \cup {r} /\ UNCHANGED <<opens, asking, dialog>>
  BY DEF Forgets
<1>2. DOMAIN r = LinkFields /\ r.n = dialog.n /\ r.what = "forget" /\ dialog.n \in Nat
  BY DEF LinkFields, OInv, DialogOK
<1> HIDE DEF r
<1>3. dialog.up => \A l \in links' : l.what = "link" /\ l.n = dialog.n => LinkAlone(l)'
  BY <1>1, <1>2 DEF OInv, AloneOK, LinkAlone
<1> QED BY <1>1, <1>2, <1>3, LinksStep DEF OInv, LinksOK

LEMMA LinkDoneKeeps == ASSUME OInv, NEW l1 \in links, LinkDone(l1) PROVE OInv'
<1> DEFINE r == [l1 EXCEPT !.done = TRUE]
<1>1. links' = (links \ {l1}) \cup {r} /\ UNCHANGED <<opens, asking, dialog>>
  BY DEF LinkDone
<1>2. DOMAIN l1 = LinkFields /\ l1.n \in Nat /\ l1.n <= dialog.n
  BY DEF OInv, LinksOK
<1>3. DOMAIN r = LinkFields /\ r.n = l1.n /\ r.what = l1.what
  BY <1>2 DEF LinkFields
<1> HIDE DEF r
<1>4. dialog.up => \A l \in links' : l.what = "link" /\ l.n = dialog.n => LinkAlone(l)'
  BY <1>1, <1>3 DEF OInv, AloneOK, LinkAlone
<1> QED BY <1>1, <1>2, <1>3, <1>4, LinksStep DEF OInv, LinksOK

LEMMA LinkAnsweredKeeps == ASSUME OInv, NEW l1 \in links, LinkAnswered(l1) PROVE OInv'
<1>1. /\ l1.what = "link" /\ links' = links \ {l1} /\ UNCHANGED opens
      /\ \/ TakesDown
         \/ /\ l1.n = dialog.n /\ dialog.up
            /\ dialog' = Switched([dialog EXCEPT !.busy = FALSE, !.servers = @ \cup {l1.m}], l1.m)
            /\ AsksAfresh(dialog, l1.m)
         \/ ~(l1.n = dialog.n /\ dialog.up) /\ UNCHANGED <<dialog, asking>>
  BY DEF LinkAnswered
<1>2. CASE TakesDown
  BY <1>1, <1>2, DownKeeps
<1>3. CASE ~(l1.n = dialog.n /\ dialog.up) /\ UNCHANGED <<dialog, asking>>
  <2>1. dialog.up => \A l \in links' : l.what = "link" /\ l.n = dialog.n => LinkAlone(l)'
    BY <1>1, <1>3 DEF OInv, AloneOK, LinkAlone
  <2> QED BY <1>1, <1>3, <2>1, LinksStep DEF OInv, LinksOK
<1>4. CASE /\ l1.n = dialog.n /\ dialog.up
           /\ dialog' = Switched([dialog EXCEPT !.busy = FALSE, !.servers = @ \cup {l1.m}], l1.m)
           /\ AsksAfresh(dialog, l1.m)
  <2> DEFINE d == [dialog EXCEPT !.busy = FALSE, !.servers = @ \cup {l1.m}]
  <2>1. /\ DOMAIN d = DialogFields /\ d.n = dialog.n /\ d.up = dialog.up /\ d.busy = FALSE
        /\ d.crossed = dialog.crossed /\ d.host = dialog.host /\ (OnHost(dialog) => OnHost(d))
    BY DEF OInv, DialogOK, DialogFields, OnHost
  <2>2. dialog' = Switched(d, l1.m)
    BY <1>4
  <2> HIDE DEF d
  <2>3. SwitchFacts(d, dialog', l1.m)
    BY <2>1, <2>2, SwitchedFacts
  <2>4. AsksOK'
    BY <1>4, <2>3, AfreshFacts DEF AsksOK, AskOK, SwitchFacts
  <2>5. DialogOK' /\ ShownOK' /\ OpensOK' /\ LinksOK'
    BY <1>1, <2>1, <2>3 DEF SwitchFacts, OInv, DialogOK, ShownOK, OnHost, OpensOK, LinksOK
  <2>6. /\ \A i \in 1..Len(opens) : opens[i].n # dialog.n
        /\ \A l \in links' : ~(l.what = "link" /\ l.n = dialog.n)
    BY <1>1, <1>4 DEF OInv, AloneOK, LinkAlone
  <2>7. GivenOK' /\ AloneOK'
    BY <1>1, <2>1, <2>3, <2>6 DEF SwitchFacts, GivenOK, AloneOK
  <2> QED BY <2>4, <2>5, <2>7 DEF OInv
<1> QED BY <1>1, <1>2, <1>3, <1>4

LEMMA LinkFailsKeeps == ASSUME OInv, NEW l1 \in links, LinkFails(l1) PROVE OInv'
<1>1. /\ links' = links \ {l1} /\ UNCHANGED <<opens, asking>>
      /\ dialog' = IF l1.n = dialog.n /\ l1.what = "link" THEN [dialog EXCEPT !.busy = FALSE] ELSE dialog
  BY DEF LinkFails
<1>2. CASE ~(l1.n = dialog.n /\ l1.what = "link")
  <2>1. dialog.up => \A l \in links' : l.what = "link" /\ l.n = dialog.n => LinkAlone(l)'
    BY <1>1, <1>2 DEF OInv, AloneOK, LinkAlone
  <2> QED BY <1>1, <1>2, <2>1, LinksStep DEF OInv, LinksOK
<1>3. CASE l1.n = dialog.n /\ l1.what = "link"
  <2>1. /\ DOMAIN dialog' = DialogFields /\ dialog'.n = dialog.n /\ dialog'.up = dialog.up /\ dialog'.busy = FALSE
        /\ dialog'.crossed = dialog.crossed /\ dialog'.host = dialog.host
        /\ OnHost(dialog) => OnHost(dialog')
    BY <1>1, <1>3 DEF OInv, DialogOK, DialogFields, OnHost
  <2>2. DialogOK' /\ OpensOK' /\ LinksOK' /\ AsksOK' /\ ShownOK'
    BY <1>1, <2>1 DEF OInv, DialogOK, OpensOK, LinksOK, AsksOK, AskOK, ShownOK, OnHost
  <2>3. dialog.up => /\ \A i \in 1..Len(opens) : opens[i].n # dialog.n
                     /\ \A l \in links' : ~(l.what = "link" /\ l.n = dialog.n)
    BY <1>1, <1>3 DEF OInv, AloneOK, LinkAlone
  <2>4. GivenOK' /\ AloneOK'
    BY <1>1, <2>1, <2>3 DEF OInv, GivenOK, AloneOK
  <2> QED BY <2>2, <2>4 DEF OInv
<1> QED BY <1>2, <1>3

LEMMA ForgetAnsweredKeeps == ASSUME OInv, NEW l1 \in links, ForgetAnswered(l1) PROVE OInv'
<1> DEFINE c == [dialog EXCEPT !.crossed = @ \/ dialog.busy]
           d == IF l1.was = l1.m THEN Switched(c, Here) ELSE dialog
<1>1. /\ l1.what = "forget" /\ links' = links \ {l1} /\ UNCHANGED opens
      /\ IF l1.n = dialog.n /\ dialog.up
           THEN /\ dialog' = d
                /\ asking' = (IF d.host # dialog.host
                              THEN Unwanted({"browse", "recents"}) \cup {Asks("browse", Here, Home), Asks("recents", Here, Nil)}
                              ELSE asking) \cup {Asks("servers", Here, Nil)}
           ELSE UNCHANGED <<dialog, asking>>
  BY DEF ForgetAnswered
<1>2. DOMAIN Asks("servers", Here, Nil) = AskFields /\ Asks("servers", Here, Nil).kind = "servers"
  BY DEF Asks, AskFields
<1>3. dialog.up => \A l \in links' : l.what = "link" /\ l.n = dialog.n =>
         l \in links /\ LinkAlone(l)
  BY <1>1 DEF OInv, AloneOK
<1>4. CASE ~(l1.n = dialog.n /\ dialog.up)
  <2>1. dialog.up => \A l \in links' : l.what = "link" /\ l.n = dialog.n => LinkAlone(l)'
    BY <1>1, <1>3, <1>4 DEF LinkAlone
  <2> QED BY <1>1, <1>4, <2>1, LinksStep DEF OInv, LinksOK
<1>5. CASE /\ l1.n = dialog.n /\ dialog.up /\ l1.was # l1.m
  <2>1. UNCHANGED dialog /\ asking' = asking \cup {Asks("servers", Here, Nil)}
    BY <1>1, <1>5
  <2>2. AsksOK'
    BY <1>2, <2>1 DEF OInv, AsksOK, AskOK
  <2>3. AloneOK' /\ LinksOK'
    BY <1>1, <1>3, <2>1 DEF OInv, AloneOK, OpenAlone, LinkAlone, LinksOK
  <2> QED BY <1>1, <2>1, <2>2, <2>3 DEF OInv, DialogOK, OpensOK, ShownOK, OnHost, GivenOK
<1>6. CASE /\ l1.n = dialog.n /\ dialog.up /\ l1.was = l1.m
  <2>1. PICK c1 \in BOOLEAN : c1 = (dialog.crossed \/ dialog.busy)
    OBVIOUS
  <2>2. c = [dialog EXCEPT !.crossed = c1]
    BY <2>1, Zenon
  <2>3. DOMAIN dialog = DialogFields /\ dialog.crossed \in BOOLEAN /\ dialog.busy \in BOOLEAN
    BY DEF OInv, DialogOK
  <2>4. /\ DOMAIN c = DialogFields /\ c.n = dialog.n /\ c.up = dialog.up /\ c.busy = dialog.busy
        /\ c.crossed = c1 /\ c.host = dialog.host /\ (OnHost(dialog) => OnHost(c))
    BY <2>2, <2>3 DEF DialogFields, OnHost
  <2>5. dialog' = Switched(c, Here) /\ d = Switched(c, Here)
    BY <1>1, <1>6
  <2> HIDE DEF c
  <2>6. SwitchFacts(c, dialog', Here)
    BY <2>4, <2>5, SwitchedFacts
  <2>7. asking' = (IF dialog'.host # dialog.host
                     THEN Unwanted({"browse", "recents"}) \cup {Asks("browse", Here, Home), Asks("recents", Here, Nil)}
                     ELSE asking) \cup {Asks("servers", Here, Nil)}
    BY <1>1, <1>6, <2>5
  <2> HIDE DEF d
  <2>8. AsksOK'
    <3>1. \A r \in Unwanted({"browse", "recents"}) :
            DOMAIN r = AskFields /\ (r.wanted = FALSE \/ r.kind \notin {"browse", "recents"})
      BY UnwantedFacts
    <3>2. /\ DOMAIN Asks("browse", Here, Home) = AskFields /\ Asks("browse", Here, Home).on = Here
          /\ DOMAIN Asks("recents", Here, Nil) = AskFields /\ Asks("recents", Here, Nil).on = Here
      BY DEF Asks, AskFields
    <3>3. CASE dialog'.host # dialog.host
      BY <1>2, <2>6, <2>7, <3>1, <3>2, <3>3 DEF AsksOK, AskOK, SwitchFacts
    <3>4. CASE dialog'.host = dialog.host
      BY <1>2, <2>7, <3>4 DEF OInv, AsksOK, AskOK
    <3> QED BY <3>3, <3>4
  <2>9. DialogOK' /\ ShownOK' /\ OpensOK' /\ LinksOK'
    BY <1>1, <2>1, <2>3, <2>4, <2>6 DEF SwitchFacts, OInv, DialogOK, ShownOK, OnHost, OpensOK, LinksOK
  <2>10. GivenOK'
    BY <1>1, <2>1, <2>4, <2>6 DEF SwitchFacts, OInv, GivenOK
  <2>11. AloneOK'
    <3>1. dialog'.crossed = c1 /\ dialog'.busy = dialog.busy /\ dialog'.n = dialog.n /\ dialog'.host = Here
      BY <2>4, <2>6 DEF SwitchFacts
    <3>2. (\E i \in 1..Len(opens) : opens[i].n = dialog.n) => c1
      BY <1>6, <2>1 DEF OInv, AloneOK, OpenAlone
    <3> QED BY <1>1, <1>3, <1>6, <3>1, <3>2 DEF OInv, AloneOK, OpenAlone, LinkAlone
  <2> QED BY <2>8, <2>9, <2>10, <2>11 DEF OInv
<1> QED BY <1>4, <1>5, <1>6

-----------------------------------------------------------------------------
LEMMA OStep == ASSUME OInv, [OpeningNext]_openingVars PROVE OInv'
<1>1. CASE World
  <2>1. UNCHANGED <<opens, links, asking, dialog>>
    BY <1>1 DEF World, Clones, Deletes, Introduces, ForgetsElsewhere, ClosesProject
  <2> QED BY <2>1 DEF OInv, DialogOK, OpensOK, LinksOK, AsksOK, AskOK, ShownOK, OnHost, GivenOK, AloneOK,
                      OpenAlone, LinkAlone
<1>2. CASE Opener
  BY <1>2, OpenerKeeps DEF Opener
<1>3. CASE Answers
  BY <1>3, AnswersReadKeeps, ShowsKeeps, PickerFailsKeeps, OpenAnsweredKeeps, LinkDoneKeeps,
     LinkAnsweredKeeps, ForgetAnsweredKeeps, LinkFailsKeeps DEF Answers
<1>4. CASE Person
  <2>1. CASE Cancels
    BY <2>1, DownKeeps DEF Cancels
  <2> QED BY <1>4, <2>1, PutsUpKeeps, OpensKeep, BacksKeeps, ChoosesKeeps, LinksKeeps, ForgetsKeeps,
             BrowsesKeeps, TypesPathKeeps DEF Person
<1>5. CASE UNCHANGED openingVars
  BY <1>5 DEF openingVars, OInv, DialogOK, OpensOK, LinksOK, AsksOK, AskOK, ShownOK, OnHost, GivenOK, AloneOK,
              OpenAlone, LinkAlone
<1> QED BY <1>1, <1>2, <1>3, <1>4, <1>5 DEF OpeningNext

\* What the dialog shows is of the machine its chip names, and what is opened
\* on a machine was read or typed there, whatever answers of another machine's
\* reads, opens and links come late (OpenProjectDialog.tsx, workspace.ts).
THEOREM OpenedOnItsMachine == Spec => []OnItsMachine
<1>1. Init => OInv
  BY OInit DEF Init
<1>2. OInv /\ [Next]_vars => OInv'
  <2>1. [Next]_vars => [OpeningNext]_openingVars
    BY DEF Next, vars, openingVars
  <2> QED BY <2>1, OStep
<1>3. OInv => OnItsMachine
  BY InOpens DEF OInv, ShownOK, OnHost, GivenOK, OnItsMachine
<1> QED BY <1>1, <1>2, <1>3, PTL DEF Spec

(***************************************************************************)
(* The update: what a step makes of a pull.                                *)
(***************************************************************************)

\* A pull goes to a stage, and is otherwise what it was; the others are too.
Moves(p, stage) ==
  /\ pulls'[p].at = stage
  /\ pulls'[p].by = pulls[p].by /\ pulls'[p].auto = pulls[p].auto
  /\ pulls'[p].round = pulls[p].round
  /\ pulls'[p].before = pulls[p].before /\ pulls'[p].after = pulls[p].after
  /\ \A q \in Puller \ {p} : pulls'[q] = pulls[q]

PullRecord == [at : Stages, by : 0 .. MaxStarts, auto : BOOLEAN,
               was : Commit \cup {Absent}, tries : 0 .. 2, round : 1 .. 2,
               before : Commit \cup {Absent}, after : Commit \cup {Absent}, code : 0 .. 1]
Pulls == [Puller -> PullRecord]

LEMMA GoesIs ==
  ASSUME pulls \in Pulls, NEW p \in Puller, NEW stage \in Stages, Goes(p, stage)
  PROVE  pulls' \in Pulls /\ Moves(p, stage)
BY DEF Pulls, PullRecord, Goes, Moves

LEMMA GoesWithCode ==
  ASSUME pulls \in Pulls, NEW p \in Puller, NEW stage \in Stages, NEW code \in 0 .. 1,
         pulls' = [pulls EXCEPT ![p].at = stage, ![p].code = code]
  PROVE  pulls' \in Pulls /\ Moves(p, stage)
<1> DEFINE new == [pulls[p] EXCEPT !.at = stage, !.code = code]
<1>1. pulls' = [pulls EXCEPT ![p] = new]
  BY DEF Pulls, PullRecord
<1>2. new \in PullRecord
  BY DEF Pulls, PullRecord
<1>3. /\ new.at = stage /\ new.by = pulls[p].by /\ new.auto = pulls[p].auto
      /\ new.round = pulls[p].round /\ new.before = pulls[p].before /\ new.after = pulls[p].after
  BY DEF Pulls, PullRecord
<1> HIDE DEF new
<1> QED
  BY <1>1, <1>2, <1>3 DEF Pulls, Moves

LEMMA GoesWithTries ==
  ASSUME pulls \in Pulls, NEW p \in Puller, NEW stage \in Stages, NEW tries \in 0 .. 2,
         pulls' = [pulls EXCEPT ![p].at = stage, ![p].tries = tries]
  PROVE  pulls' \in Pulls /\ Moves(p, stage)
<1> DEFINE new == [pulls[p] EXCEPT !.at = stage, !.tries = tries]
<1>1. pulls' = [pulls EXCEPT ![p] = new]
  BY DEF Pulls, PullRecord
<1>2. new \in PullRecord
  BY DEF Pulls, PullRecord
<1>3. /\ new.at = stage /\ new.by = pulls[p].by /\ new.auto = pulls[p].auto
      /\ new.round = pulls[p].round /\ new.before = pulls[p].before /\ new.after = pulls[p].after
  BY DEF Pulls, PullRecord
<1> HIDE DEF new
<1> QED
  BY <1>1, <1>2, <1>3 DEF Pulls, Moves

LEMMA GoesWithRound ==
  ASSUME pulls \in Pulls, NEW p \in Puller, NEW stage \in Stages, NEW round \in 1 .. 2,
         pulls' = [pulls EXCEPT ![p].at = stage, ![p].round = round]
  PROVE  /\ pulls' \in Pulls
         /\ pulls'[p].at = stage /\ pulls'[p].round = round
         /\ pulls'[p].by = pulls[p].by /\ pulls'[p].auto = pulls[p].auto
         /\ pulls'[p].before = pulls[p].before /\ pulls'[p].after = pulls[p].after
         /\ \A q \in Puller \ {p} : pulls'[q] = pulls[q]
<1> DEFINE new == [pulls[p] EXCEPT !.at = stage, !.round = round]
<1>1. pulls' = [pulls EXCEPT ![p] = new]
  BY DEF Pulls, PullRecord
<1>2. new \in PullRecord
  BY DEF Pulls, PullRecord
<1>3. /\ new.at = stage /\ new.round = round /\ new.by = pulls[p].by /\ new.auto = pulls[p].auto
      /\ new.before = pulls[p].before /\ new.after = pulls[p].after
  BY DEF Pulls, PullRecord
<1> HIDE DEF new
<1> QED
  BY <1>1, <1>2, <1>3 DEF Pulls

LEMMA FailsIs ==
  ASSUME pulls \in Pulls, NEW p \in Puller, Fails(p)
  PROVE  pulls' \in Pulls /\ Moves(p, "exit")
<1>1. 1 \in 0 .. 1 /\ "exit" \in Stages
  BY DEF Stages
<1> QED
  BY <1>1, GoesWithCode DEF Fails

LEMMA RefusedIs ==
  ASSUME pulls \in Pulls, NEW p \in Puller, Refused(p)
  PROVE  pulls' \in Pulls /\ Moves(p, "refused")
<1>1. 1 \in 0 .. 1 /\ "refused" \in Stages
  BY DEF Stages
<1> QED
  BY <1>1, GoesWithCode DEF Refused

LEMMA RemovesIs ==
  ASSUME pulls \in Pulls, NEW p \in Puller, RemovesLock(p)
  PROVE  /\ pulls' \in Pulls /\ pulls[p].at = "remove"
         /\ Moves(p, "refused") \/ Moves(p, "open")
<1>1. 1 \in 0 .. 2 /\ "open" \in Stages
  BY DEF Stages
<1> QED
  BY <1>1, RefusedIs, GoesWithTries DEF RemovesLock

LEMMA OffIs == Off \in PullRecord
BY PullAssumption DEF Off, Stages, PullRecord

LEMMA StartedIs ==
  ASSUME UpdateTypeOK, NEW p \in Puller, NEW by \in 0 .. MaxStarts, NEW auto, auto \in BOOLEAN,
         Started(p, by, auto)
  PROVE  /\ pulls' \in Pulls
         /\ pulls'[p].at = "open" /\ pulls'[p].by = by /\ pulls'[p].auto = auto
         /\ pulls'[p].round = 1
         /\ \A q \in Puller \ {p} : pulls'[q] = pulls[q]
<1>1. RunningCommit \in Commit \cup {Absent}
  BY DEF RunningCommit, RunsHere, UpdateTypeOK, PullTypeOK
<1>2. pulls \in Pulls
  BY DEF UpdateTypeOK, PullTypeOK, Pulls, PullRecord
<1> DEFINE was == RunningCommit
           off == Off
           new == [off EXCEPT !.at = "open", !.by = by, !.auto = auto, !.was = was]
<1>3. pulls' = [pulls EXCEPT ![p] = new]
  BY DEF Started
<1>4. off \in PullRecord /\ off.round = 1 /\ "open" \in Stages
  BY OffIs DEF Stages, Off
<1> HIDE DEF off, was
<1>5. new \in PullRecord
  BY <1>1, <1>4 DEF PullRecord, was
<1>6. new.at = "open" /\ new.by = by /\ new.auto = auto /\ new.round = 1
  BY <1>4 DEF PullRecord
<1> HIDE DEF new
<1> QED
  BY <1>2, <1>3, <1>5, <1>6 DEF Pulls

\* The fast-forward, and the way back.
LEMMA MergesIs ==
  ASSUME pulls \in Pulls, tracking \in Commit, head \in Commit, NEW p \in Puller, Merges(p)
  PROVE  /\ pulls' \in Pulls /\ pulls[p].at = "merge"
         /\ \/ Moves(p, "exit") /\ UNCHANGED head
            \/ /\ head' = tracking
               /\ \/ head = tracking /\ pulls'[p].at = "exit"
                  \/ pulls'[p].at = "install"
               /\ pulls'[p].before = head /\ pulls'[p].after = tracking
               /\ pulls'[p].by = pulls[p].by /\ pulls'[p].auto = pulls[p].auto
               /\ pulls'[p].round = pulls[p].round
               /\ \A q \in Puller \ {p} : pulls'[q] = pulls[q]
<1>1. CASE mine /\ Fails(p) /\ UNCHANGED head
  BY <1>1, FailsIs DEF Merges
<1>2. CASE ~mine /\ head' = tracking
  <2> DEFINE stage == IF head = tracking /\ pulls[p].was = tracking THEN "exit" ELSE "install"
             new == [pulls[p] EXCEPT !.before = head, !.after = tracking, !.at = stage]
  <2>1. pulls' = [pulls EXCEPT ![p].before = head, ![p].after = tracking, ![p].at = stage]
    BY <1>2 DEF Merges
  <2>2. stage \in Stages /\ (stage = "install" \/ (stage = "exit" /\ head = tracking))
    BY DEF Stages
  <2> HIDE DEF stage
  <2>3. pulls' = [pulls EXCEPT ![p] = new]
    BY <2>1 DEF Pulls, PullRecord
  <2>4. new \in PullRecord
    BY <2>2 DEF Pulls, PullRecord
  <2>5. /\ new.at = stage /\ new.before = head /\ new.after = tracking /\ new.by = pulls[p].by
        /\ new.auto = pulls[p].auto /\ new.round = pulls[p].round
    BY DEF Pulls, PullRecord
  <2> HIDE DEF new
  <2> QED
    BY <1>2, <2>2, <2>3, <2>4, <2>5 DEF Pulls, Merges
<1> QED
  BY <1>1, <1>2 DEF Merges

LEMMA RollsBackIs ==
  ASSUME pulls \in Pulls, NEW p \in Puller, RollsBack(p)
  PROVE  /\ pulls' \in Pulls /\ pulls[p].at = "back" /\ failed' = pulls[p].after
         /\ \/ Moves(p, "exit") /\ UNCHANGED head /\ spoilt' = spoilt \cup {"undone"}
            \/ /\ head' = pulls[p].before /\ UNCHANGED spoilt
               /\ pulls'[p].at = "install" /\ pulls'[p].round = 2
               /\ pulls'[p].before = pulls[p].before /\ pulls'[p].after = pulls[p].after
               /\ pulls'[p].by = pulls[p].by /\ pulls'[p].auto = pulls[p].auto
               /\ \A q \in Puller \ {p} : pulls'[q] = pulls[q]
<1>1. CASE Fails(p) /\ UNCHANGED head /\ spoilt' = spoilt \cup {"undone"}
  BY <1>1, FailsIs DEF RollsBack
<1>2. CASE /\ head' = pulls[p].before /\ UNCHANGED spoilt
           /\ pulls' = [pulls EXCEPT ![p].at = "install", ![p].round = 2]
  <2>1. 2 \in 1 .. 2 /\ "install" \in Stages
    BY DEF Stages
  <2> DEFINE stage == "install"
             round == 2
  <2>2. /\ pulls' = [pulls EXCEPT ![p].at = stage, ![p].round = round] /\ stage \in Stages
        /\ round \in 1 .. 2
    BY <1>2, <2>1
  <2> HIDE DEF stage, round
  <2>3. /\ pulls' \in Pulls
        /\ pulls'[p].at = stage /\ pulls'[p].round = round
        /\ pulls'[p].by = pulls[p].by /\ pulls'[p].auto = pulls[p].auto
        /\ pulls'[p].before = pulls[p].before /\ pulls'[p].after = pulls[p].after
        /\ \A q \in Puller \ {p} : pulls'[q] = pulls[q]
    BY <2>2, GoesWithRound
  <2>4. pulls[p].at = "back" /\ failed' = pulls[p].after
    BY DEF RollsBack
  <2> QED
    BY <1>2, <2>3, <2>4 DEF stage, round
<1> QED
  BY <1>1, <1>2 DEF RollsBack

LEMMA EndsIs ==
  ASSUME UpdateTypeOK, NEW p \in Puller, Ends(p)
  PROVE  /\ pulls' \in Pulls /\ pulls[p].at \in {"exit", "refused"}
         /\ pulls'[p] = Off
         /\ \A q \in Puller \ {p} : pulls'[q] = pulls[q]
<1>1. pulls' = [pulls EXCEPT ![p] = Off] /\ pulls[p].at \in {"exit", "refused"}
  BY DEF Ends
<1>2. pulls \in Pulls
  BY DEF UpdateTypeOK, PullTypeOK, Pulls, PullRecord
<1> QED
  BY <1>1, <1>2, OffIs DEF Pulls

\* What follows a restart that went wrong.
LEMMA RestartFailsIs ==
  ASSUME pulls \in Pulls, NEW p \in Puller, RestartFails(p)
  PROVE  /\ pulls' \in Pulls
         /\ \/ /\ Moves(p, "exit") /\ UNCHANGED tried
               /\ \/ pulls[p].round = 2 /\ UNCHANGED spoilt
                  \/ /\ pulls[p].round # 2 /\ pulls[p].before = pulls[p].after
                     /\ spoilt' = spoilt \cup {"unmoved"}
            \/ /\ Moves(p, "back") /\ GivesUp(p) /\ UNCHANGED spoilt
               /\ pulls[p].round # 2 /\ pulls[p].before # pulls[p].after
<1>1. "exit" \in Stages /\ "back" \in Stages
  BY DEF Stages
<1> QED
  BY <1>1, GoesIs, FailsIs DEF RestartFails

(***************************************************************************)
(* What a step makes of a request.                                         *)
(***************************************************************************)
Reply == [ok : BOOLEAN, id : 1 .. MaxStarts, running : Commit, updating : BOOLEAN]
AskRecord == [kind : {"none", "poll", "start", "told", "auto"},
              at : {"", "sent", "checking", "checked", "going", "answered"}, reply : Reply]
AskTable == [Who -> AskRecord]
Banner == [from : [id : 1 .. MaxStarts, running : Commit] \cup {Absent},
           wait : {"no", "click", "since"}, late : BOOLEAN, replaced : BOOLEAN, sure : BOOLEAN]

LEMMA NoReplyIs == NoReply \in Reply /\ NoReply.ok = FALSE /\ NoReply.updating = FALSE
BY PullAssumption DEF NoReply, Reply, Commit

LEMMA NoAskIs == NoAsk \in AskRecord /\ NoAsk.kind = "none" /\ NoAsk.at = ""
<1> HIDE DEF NoReply
<1> QED
  BY NoReplyIs DEF NoAsk, AskRecord

LEMMA StatusIs ==
  ASSUME UpdateTypeOK, NEW s
  PROVE  /\ StatusOf(s) \in Reply /\ StatusOf(s).id = srv.id
         /\ IsMachineInstance => StatusOf(s).updating = (s = "updating")
<1> DEFINE says == IsMachineInstance /\ s = "updating"
<1>1. says \in BOOLEAN
  OBVIOUS
<1>2. srv.id \in 1 .. MaxStarts /\ srv.running \in Commit
  BY DEF UpdateTypeOK, PullTypeOK
<1>3. StatusOf(s) = [ok |-> TRUE, id |-> srv.id, running |-> srv.running, updating |-> says]
  BY DEF StatusOf
<1>4. IsMachineInstance => says = (s = "updating")
  OBVIOUS
<1> HIDE DEF says
<1>5. StatusOf(s).updating = says /\ StatusOf(s).id = srv.id
  BY <1>3
<1> QED
  BY <1>1, <1>2, <1>3, <1>4, <1>5 DEF Reply

\* A request is replaced by another.
LEMMA AsksAre ==
  ASSUME asks \in AskTable, NEW w \in Who, NEW ask \in AskRecord, asks' = [asks EXCEPT ![w] = ask]
  PROVE  /\ asks' \in AskTable /\ asks'[w] = ask
         /\ \A v \in Who \ {w} : asks'[v] = asks[v]
BY DEF AskTable

LEMMA RequestsIs ==
  ASSUME asks \in AskTable, NEW w \in Who, NEW kind \in {"poll", "start", "told"}, NEW what,
         Requests(w, kind, what)
  PROVE  /\ asks' \in AskTable /\ asks'[w].kind = kind /\ asks'[w].at = "sent"
         /\ asks[w].at = "" /\ Spends(what)
         /\ \A v \in Who \ {w} : asks'[v] = asks[v]
<1> DEFINE ask == [NoAsk EXCEPT !.kind = kind, !.at = "sent"]
<1> HIDE DEF NoAsk
<1>1. ask \in AskRecord /\ ask.kind = kind /\ ask.at = "sent"
  BY NoAskIs DEF AskRecord
<1>2. asks' = [asks EXCEPT ![w] = ask] /\ asks[w].at = "" /\ Spends(what)
  BY DEF Requests
<1> HIDE DEF ask
<1> QED
  BY <1>1, <1>2, AsksAre

LEMMA JoinsIs ==
  ASSUME asks \in AskTable, NEW w \in Who, NEW kind \in {"poll", "start", "told", "auto"},
         JoinsCheck(w, kind)
  PROVE  /\ asks' \in AskTable /\ asks'[w].kind = kind /\ asks'[w].at = "checking"
         /\ asks'[w].reply = asks[w].reply
         /\ \A v \in Who \ {w} : asks'[v] = asks[v]
<1> DEFINE ask == [asks[w] EXCEPT !.kind = kind, !.at = "checking"]
<1>1. ask \in AskRecord /\ ask.kind = kind /\ ask.at = "checking" /\ ask.reply = asks[w].reply
  BY DEF AskTable, AskRecord
<1>2. asks' = [asks EXCEPT ![w].kind = kind, ![w].at = "checking"]
  BY DEF JoinsCheck
<1>3. asks' = [asks EXCEPT ![w] = ask]
  BY <1>2 DEF AskTable, AskRecord
<1> HIDE DEF ask
<1> QED
  BY <1>1, <1>3, AsksAre

LEMMA GoingIs ==
  ASSUME asks \in AskTable, NEW w \in Who, NEW at \in {"going", "checked"},
         asks' = [asks EXCEPT ![w].at = at]
  PROVE  /\ asks' \in AskTable /\ asks'[w].kind = asks[w].kind /\ asks'[w].at = at
         /\ \A v \in Who \ {w} : asks'[v] = asks[v]
<1> DEFINE ask == [asks[w] EXCEPT !.at = at]
<1>1. ask \in AskRecord /\ ask.kind = asks[w].kind /\ ask.at = at
  BY DEF AskTable, AskRecord
<1>3. asks' = [asks EXCEPT ![w] = ask]
  BY DEF AskTable, AskRecord
<1> HIDE DEF ask
<1> QED
  BY <1>1, <1>3, AsksAre

LEMMA RespondsIs ==
  ASSUME asks \in AskTable, NEW w \in Who, NEW reply \in Reply, Responds(w, reply)
  PROVE  /\ asks' \in AskTable
         /\ \A v \in Who \ {w} : asks'[v] = asks[v]
         /\ \/ w \notin {"read", "click"} /\ asks'[w] = NoAsk
            \/ /\ w \in {"read", "click"} /\ asks'[w].at = "answered"
               /\ asks'[w].reply = reply /\ asks'[w].kind = asks[w].kind
<1> DEFINE answered == [asks[w] EXCEPT !.at = "answered", !.reply = reply]
<1> HIDE DEF NoAsk
<1>1. /\ answered \in AskRecord /\ answered.at = "answered" /\ answered.reply = reply
      /\ answered.kind = asks[w].kind
  BY DEF AskTable, AskRecord
<1>2. asks' = [asks EXCEPT ![w] = IF w \notin {"read", "click"} THEN NoAsk ELSE answered]
  BY DEF Responds
<1> HIDE DEF answered
<1>3. CASE w \notin {"read", "click"}
  BY <1>2, <1>3, NoAskIs, AsksAre
<1>4. CASE w \in {"read", "click"}
  BY <1>1, <1>2, <1>4, AsksAre
<1> QED
  BY <1>3, <1>4

LEMMA SpendsIs ==
  ASSUME left \in [Outside -> Nat], NEW k, Spends(k)
  PROVE  left' \in [Outside -> Nat]
BY DEF Spends

(***************************************************************************)
(* The update: types.                                                      *)
(***************************************************************************)

\* What a step of a pull, of origin or of a hand leaves to be shown.
Checkout ==
  /\ fate \in Fates
  /\ origin \in Commit /\ tracking \in Commit /\ head \in Commit
  /\ mine \in BOOLEAN
  /\ deps \in {Lockfile[c] : c \in Commit}
  /\ dist \in [code : Commit \cup {Absent}, stamp : Commit]
  /\ failed \in Commit \cup {Absent}
Processes ==
  /\ lock \in [by : Puller \cup {Nobody}, pid : BOOLEAN] \cup {Absent}
  /\ run \in [id : 1 .. MaxStarts, commit : Commit] \cup {Absent}
  /\ srv \in [id : 1 .. MaxStarts, up : {"no", "starting", "yes"}, running : Commit]
  /\ pulls \in Pulls
Histories ==
  /\ left \in [Outside -> Nat]
  /\ spoilt \subseteq {"unmoved", "two", "undone", "older"}
  /\ tried \in [Commit -> Nat]
  /\ passed \subseteq Puller /\ met \in BOOLEAN
Memory ==
  /\ checked \in [tip : Commit, behind : BOOLEAN, blocked : BOOLEAN] \cup {Absent}
  /\ stale \in BOOLEAN /\ retry \in BOOLEAN /\ quiet \in BOOLEAN
  /\ checking \in {"no", "fetching", "reading"}
  /\ state \in {"idle", "updating", "failed"}
  /\ announced \in Commit \cup {Absent}
  /\ autos \in Nat
Page == asks \in AskTable /\ banner \in Banner

LEMMA TypesAre == UpdateTypeOK <=> Checkout /\ Processes /\ Histories /\ Memory /\ Page
BY DEF UpdateTypeOK, PullTypeOK, Checkout, Processes, Histories, Memory, Page, Pulls, PullRecord,
       AskTable, AskRecord, Reply, Banner

LEMMA TypesPrimed == UpdateTypeOK' <=> (Checkout /\ Processes /\ Histories /\ Memory /\ Page)'
BY DEF UpdateTypeOK, PullTypeOK, Checkout, Processes, Histories, Memory, Page, Pulls, PullRecord,
       AskTable, AskRecord, Reply, Banner

(***************************************************************************)
(* The update: what holds between a pull's steps.                          *)
(***************************************************************************)

\* Pulls that have moved the checkout and may have to move it back.
Moved == {p \in Puller : pulls[p].at \in {"install", "build", "stop", "start", "wait", "back"}}

\* The checkout follows origin along one line, and a pull moves it from before to after.
OriginOK ==
  /\ head <= tracking /\ tracking <= origin
  /\ \A p \in Moved :
       /\ pulls[p].before \in Commit /\ pulls[p].after \in Commit
       /\ pulls[p].before <= pulls[p].after /\ pulls[p].after <= tracking
  /\ \A p \in Puller :
       /\ pulls[p].at \in {"open", "write", "look", "remove", "fetch", "merge", "back"} =>
            pulls[p].round = 1
       /\ pulls[p].at = "back" => pulls[p].before # pulls[p].after

\* The server runs what was built last, unless a pull that has built since is about
\* to stop it.
HereOK == Alive => RunsHere
ServerOK ==
  /\ dist.code \in {Absent, dist.stamp}
  /\ Alive => srv.running = dist.stamp \/ \E p \in Puller : pulls[p].at = "stop"
  /\ Up => fate[srv.running] = "good" \/ \E p \in Puller : pulls[p].at = "stop"

\* What a pull left can be built and started again, once its dependencies are back.
CanGoBack(p) ==
  /\ fate[pulls[p].before] = "good"
  /\ LockChanged(p) \/ Matches(pulls[p].before)

\* A server answers, or will: one that is started may be waited for in vain and come
\* up all the same.
Coming == Up \/ (srv.up = "starting" /\ Startable /\ Matches(dist.code))

\* How far a pull that nothing has spoilt has got, on the way there and on the way back.
There(p) ==
  /\ pulls[p].at = "install" => Coming
  /\ pulls[p].before # pulls[p].after => CanGoBack(p)
Back(p) ==
  /\ head = pulls[p].before /\ CanGoBack(p)
  /\ pulls[p].at \in {"build", "stop", "start", "wait"} => Matches(head)
  /\ pulls[p].at \in {"stop", "start", "wait"} => dist.code = head
  /\ pulls[p].at = "wait" => Alive

OnWay(p) ==
  /\ pulls[p].at \in {"fetch", "merge", "exit"} => Coming
  /\ pulls[p].at = "start" => ~Alive
  /\ p \in Moved => IF pulls[p].round = 1 THEN There(p) ELSE Back(p)

Way ==
  /\ \A p, q \in Past : p = q
  /\ Past = {} => Coming
  /\ \A p \in Past : OnWay(p)

WayOK == spoilt = {} => Way

\* Whose pull it is.
ChildOK ==
  /\ \A p \in Puller : pulls[p].by <= srv.id /\ (srv.up = "starting" => pulls[p].by < srv.id)
  /\ \A p, q \in Going : pulls[p].by = srv.id /\ pulls[q].by = srv.id => p = q
  /\ \A p \in Going : Up /\ pulls[p].by = srv.id => state = "updating"

\* What a server that is not up, or has just come up, remembers; and what those who
\* waited for a check rely on.
MemoryOK ==
  /\ ~Up => checked = Absent /\ autos = 0 /\ asks["retry"].at = ""
  /\ checked # Absent => checked.tip <= tracking
  /\ asks["retry"].at \in {"", "checking", "checked", "going"}
  /\ \A w \in Who : asks[w].kind = "auto" => w = "retry"
  /\ (\E w \in Who : asks[w].at \in {"checked", "going"}) => checked # Absent /\ ~stale
  /\ asks["retry"].at = "checking" => state # "updating" /\ (checked = Absent \/ stale)

\* A commit given up that no pull will come to again: origin is beyond it, or it is
\* behind, for good.
Settled(c) == head >= c /\ \A p \in Moved : pulls[p].before >= c
Over(c) == origin > c \/ Settled(c)
Tried == {c \in Commit : tried[c] >= 1}

\* No pull has gone on beside, or after, another that had passed it.
LoneOK ==
  /\ \A p, q \in Past : p = q
  /\ Past \cap passed = {}
  /\ Past # {} => Going \ Past \subseteq passed

\* A pull nobody asked for is its server's until it stops it; the server it starts runs
\* what it pulled, and finds itself behind nothing but a newer commit.
OwnStages == {"open", "write", "look", "remove", "fetch", "merge", "install", "build", "stop",
              "wait", "back"}
RunsAhead(p) == pulls[p].at \in {"wait", "back"} /\ srv.running >= pulls[p].after
OwnOK ==
  \A p \in Puller :
    /\ pulls[p].auto /\ p \notin passed /\ pulls[p].round = 1
    /\ pulls[p].at \in OwnStages
    /\ Alive
    => (pulls[p].by = srv.id /\ state = "updating") \/ RunsAhead(p)
BuiltOK ==
  \A p \in Puller : pulls[p].at \in {"stop", "start"} /\ pulls[p].round = 1 =>
                     dist.stamp >= pulls[p].after
NewsOK == Up /\ checked # Absent /\ checked.behind => checked.tip > srv.running

\* A commit given up is remembered, or is over, or is about to be remembered.
GaveUp(c) ==
  /\ c <= tracking
  /\ \A p \in Moved : c <= pulls[p].after
  /\ \/ failed = c
     \/ Over(c)
     \/ \E p \in Puller : pulls[p].at = "back" /\ pulls[p].auto /\ pulls[p].after = c

GivenUpOK ==
  /\ \A c \in Commit : tried[c] <= 1
  /\ \A c \in Tried : GaveUp(c)
  /\ \A p \in Moved : pulls[p].round = 1 => head >= pulls[p].after

\* Whoever has decided that a pull may go by itself goes beyond what was given up.
Known(c) == Up /\ checked # Absent /\ state # "updating" => checked.tip >= c
Willing(c) == autos > 0 \/ asks["retry"].at # "" => Over(c)
PullBeyond(p, c) ==
  pulls[p].auto /\ p \notin passed =>
    /\ pulls[p].at \in {"open", "write", "look", "remove", "fetch", "merge"} => Over(c)
    /\ pulls[p].at = "merge" => tracking > c \/ Settled(c)
    /\ p \in Moved /\ pulls[p].at # "back" /\ pulls[p].round = 1 /\ pulls[p].after = c =>
         pulls[p].before = c
Underway(c) == \A p \in Puller : PullBeyond(p, c)

DecidedOK == \A c \in Tried : Known(c) /\ Willing(c) /\ Underway(c)

OnceOK == ~met => LoneOK /\ OwnOK /\ BuiltOK /\ GivenUpOK /\ DecidedOK

\* A wait that goes on is this server's, and what was asked since it began says so.
WaitOK ==
  /\ asks["read"].at # "" => asks["read"].kind = "poll"
  /\ banner.sure =>
       /\ Up /\ state = "updating" /\ banner.wait = "since"
       /\ banner.late => \/ asks["read"].at \in {"", "sent"}
                         \/ asks["read"].at = "answered" /\ asks["read"].reply.updating

LEMMA LockTypes ==
  ASSUME UpdateTypeOK, NEW p \in Puller, OpensLock(p) \/ LooksAtLock(p) \/ RemovesLock(p)
  PROVE  (Checkout /\ Processes /\ Histories)'
<1>1. Checkout /\ Processes /\ Histories /\ pulls \in Pulls
  BY TypesAre DEF Processes
<1>2. OnlyLock
  BY DEF OpensLock, LooksAtLock, RemovesLock
<1>3. Checkout' /\ Histories' /\ UNCHANGED <<run, srv>>
  BY <1>1, <1>2 DEF OnlyLock, checkoutVars, company, Checkout, Histories
<1>4. "write" \in Stages /\ "look" \in Stages /\ "remove" \in Stages
  BY DEF Stages
<1>5. pulls' \in Pulls
  BY <1>1, <1>4, GoesIs, RefusedIs, RemovesIs DEF OpensLock, LooksAtLock
<1>6. lock' = lock \/ lock' = Absent \/ lock' = [by |-> p, pid |-> FALSE]
  BY DEF OpensLock, LooksAtLock, RemovesLock
<1>7. [by |-> p, pid |-> FALSE] \in [by : Puller \cup {Nobody}, pid : BOOLEAN]
  OBVIOUS
<1> QED
  BY <1>1, <1>3, <1>5, <1>6, <1>7 DEF Processes

LEMMA WritesTypes ==
  ASSUME UpdateTypeOK, NEW p \in Puller, WritesPid(p)
  PROVE  (Checkout /\ Processes /\ Histories)'
<1>1. Checkout /\ Processes /\ Histories /\ pulls \in Pulls /\ "fetch" \in Stages
  BY TypesAre DEF Processes, Stages
<1>2. Checkout' /\ UNCHANGED <<run, srv>>
  BY <1>1 DEF WritesPid, checkoutVars, Checkout
<1>3. pulls' \in Pulls
  BY <1>1, GoesIs DEF WritesPid
<1>4. lock' \in [by : Puller \cup {Nobody}, pid : BOOLEAN] \cup {Absent}
  BY <1>1 DEF WritesPid, Processes
<1>5. passed' \subseteq Puller /\ met' \in BOOLEAN
  BY <1>1, Zenon DEF WritesPid, Going, Histories
<1>6. Histories'
  BY <1>1, <1>5 DEF WritesPid, Histories
<1> QED
  BY <1>1, <1>2, <1>3, <1>4, <1>6 DEF Processes

LEMMA HandPullsTypes ==
  ASSUME UpdateTypeOK, NEW p \in Puller, HandPulls(p)
  PROVE  (Checkout /\ Processes /\ Histories)'
<1>1. Checkout /\ Processes /\ Histories /\ 0 \in 0 .. MaxStarts
  BY TypesAre, PullAssumption
<1>2. pulls' \in Pulls
  BY <1>1, StartedIs DEF HandPulls
<1>3. left' \in [Outside -> Nat]
  BY <1>1, SpendsIs DEF HandPulls, Histories
<1>4. passed' \subseteq Puller /\ UNCHANGED met
  BY <1>1 DEF HandPulls, Started, Histories
<1> QED
  BY <1>1, <1>2, <1>3, <1>4 DEF HandPulls, checkoutVars, Checkout, Processes, Histories

LEMMA FetchTypes ==
  ASSUME UpdateTypeOK, NEW p \in Puller, Fetches(p)
  PROVE  (Checkout /\ Processes /\ Histories)'
<1>1. Checkout /\ Processes /\ Histories /\ pulls \in Pulls /\ "merge" \in Stages
  BY TypesAre DEF Processes, Stages
<1>2. pulls' \in Pulls
  BY <1>1, GoesIs, FailsIs DEF Fetches
<1>3. left' \in [Outside -> Nat]
  BY <1>1, SpendsIs DEF Fetches, Histories
<1>4. tracking' \in Commit
  BY <1>1 DEF Fetches, Checkout
<1> QED
  BY <1>1, <1>2, <1>3, <1>4 DEF Fetches, company, Checkout, Processes, Histories

LEMMA MergeTypes ==
  ASSUME UpdateTypeOK, NEW p \in Puller, Merges(p)
  PROVE  (Checkout /\ Processes /\ Histories)'
<1>1. Checkout /\ Processes /\ Histories /\ pulls \in Pulls
  BY TypesAre DEF Processes
<1>2. pulls' \in Pulls /\ head' \in Commit
  BY <1>1, MergesIs DEF Checkout
<1>3. spoilt' \subseteq {"unmoved", "two", "undone", "older"}
  BY <1>1 DEF Merges, Histories
<1> QED
  BY <1>1, <1>2, <1>3 DEF Merges, company, Checkout, Processes, Histories

LEMMA InstallTypes ==
  ASSUME UpdateTypeOK, NEW p \in Puller, Installs(p)
  PROVE  (Checkout /\ Processes /\ Histories)'
<1>1. Checkout /\ Processes /\ Histories /\ pulls \in Pulls /\ "build" \in Stages
  BY TypesAre DEF Processes, Stages
<1>2. pulls' \in Pulls
  BY <1>1, GoesIs, FailsIs DEF Installs
<1>3. left' \in [Outside -> Nat] /\ spoilt' \subseteq {"unmoved", "two", "undone", "older"}
  BY <1>1, SpendsIs DEF Installs, Histories
<1>4. deps' \in {Lockfile[c] : c \in Commit}
  BY <1>1 DEF Installs, Checkout
<1> QED
  BY <1>1, <1>2, <1>3, <1>4 DEF Installs, company, Checkout, Processes, Histories

LEMMA GivesUpTypes ==
  ASSUME tried \in [Commit -> Nat], NEW p \in Puller, GivesUp(p) \/ UNCHANGED tried
  PROVE  tried' \in [Commit -> Nat]
BY DEF GivesUp

LEMMA RestartTypes ==
  ASSUME UpdateTypeOK, NEW p \in Puller, Build(p) \/ Stop(p) \/ Start(p) \/ Waits(p)
  PROVE  (Checkout /\ Processes /\ Histories)'
<1>1. Checkout /\ Processes /\ Histories /\ pulls \in Pulls
  BY TypesAre DEF Processes
<1>2. "stop" \in Stages /\ "start" \in Stages /\ "wait" \in Stages /\ "exit" \in Stages
  BY DEF Stages
<1>3. ASSUME RestartFails(p)
      PROVE  /\ pulls' \in Pulls /\ tried' \in [Commit -> Nat]
             /\ spoilt' \subseteq {"unmoved", "two", "undone", "older"}
  BY <1>1, <1>3, RestartFailsIs, GivesUpTypes DEF Histories
<1>4. CASE Build(p)
  <2>1. /\ pulls' \in Pulls /\ tried' \in [Commit -> Nat]
        /\ spoilt' \subseteq {"unmoved", "two", "undone", "older"}
    BY <1>1, <1>2, <1>3, <1>4, GoesIs DEF Build, Histories
  <2>2. dist' \in [code : Commit \cup {Absent}, stamp : Commit]
    BY <1>1, <1>4 DEF Build, Checkout
  <2> QED
    BY <1>1, <1>4, <2>1, <2>2 DEF Build, checkoutVars, company, Checkout, Processes, Histories
<1>5. CASE Stop(p)
  <2>1. pulls' \in Pulls
    BY <1>1, <1>2, <1>5, GoesIs DEF Stop
  <2>2. /\ srv' \in [id : 1 .. MaxStarts, up : {"no", "starting", "yes"}, running : Commit]
        /\ run' = Absent
    BY <1>1, <1>5 DEF Stop, Processes
  <2> QED
    BY <1>1, <1>5, <2>1, <2>2 DEF Stop, checkoutVars, company, Checkout, Processes, Histories
<1>6. CASE Start(p)
  <2>1. /\ pulls' \in Pulls /\ tried' \in [Commit -> Nat]
        /\ spoilt' \subseteq {"unmoved", "two", "undone", "older"}
    BY <1>1, <1>2, <1>3, <1>6, GoesIs, FailsIs DEF Start, RestartSucceeds, Histories
  <2>2. srv.id \in 1 .. MaxStarts /\ dist.stamp \in Commit /\ MaxStarts \in Nat
    BY <1>1, PullAssumption DEF Processes, Checkout
  <2>3. srv.id < MaxStarts => srv.id + 1 \in 1 .. MaxStarts
    BY <2>2
  <2>4. /\ srv' \in [id : 1 .. MaxStarts, up : {"no", "starting", "yes"}, running : Commit]
        /\ run' \in [id : 1 .. MaxStarts, commit : Commit] \cup {Absent}
    BY <1>1, <1>6, <2>2, <2>3 DEF Start, Processes
  <2>5. failed' \in Commit \cup {Absent}
    BY <1>1, <1>6 DEF Start, RestartSucceeds, Checkout
  <2> QED
    BY <1>1, <1>6, <2>1, <2>4, <2>5
    DEF Start, checkoutVars, company, Checkout, Processes, Histories
<1>7. CASE Waits(p)
  <2>1. /\ pulls' \in Pulls /\ tried' \in [Commit -> Nat]
        /\ spoilt' \subseteq {"unmoved", "two", "undone", "older"}
    BY <1>1, <1>2, <1>3, <1>7, GoesIs, FailsIs DEF Waits, RestartSucceeds, Histories
  <2>2. failed' \in Commit \cup {Absent}
    BY <1>1, <1>7 DEF Waits, RestartSucceeds, Checkout
  <2>3. left' \in [Outside -> Nat]
    BY <1>1, <1>7, SpendsIs DEF Waits, Histories
  <2> QED
    BY <1>1, <1>7, <2>1, <2>2, <2>3
    DEF Waits, checkoutVars, company, Checkout, Processes, Histories
<1> QED
  BY <1>4, <1>5, <1>6, <1>7

LEMMA RollsBackTypes ==
  ASSUME UpdateTypeOK, OriginOK, NEW p \in Puller, RollsBack(p)
  PROVE  (Checkout /\ Processes /\ Histories)'
<1>1. Checkout /\ Processes /\ Histories /\ pulls \in Pulls
  BY TypesAre DEF Processes
<1>2. pulls' \in Pulls /\ failed' = pulls[p].after /\ head' \in {head, pulls[p].before}
  BY <1>1, RollsBackIs
<1>4. pulls[p].before \in Commit /\ pulls[p].after \in Commit
  BY DEF OriginOK, Moved, RollsBack
<1>3. spoilt' \subseteq {"unmoved", "two", "undone", "older"}
  BY <1>1 DEF RollsBack, Histories
<1> QED
  BY <1>1, <1>2, <1>3, <1>4 DEF RollsBack, company, Checkout, Processes, Histories

LEMMA EndsTypes ==
  ASSUME UpdateTypeOK, NEW p \in Puller, Ends(p)
  PROVE  (Checkout /\ Processes /\ Histories)'
<1>1. Checkout /\ Processes /\ Histories /\ pulls' \in Pulls
  BY TypesAre, EndsIs DEF Processes
<1>2. spoilt' \subseteq {"unmoved", "two", "undone", "older"} /\ lock' \in {Absent, lock}
  BY <1>1 DEF Ends, Histories
<1> QED
  BY <1>1, <1>2 DEF Ends, checkoutVars, company, Checkout, Processes, Histories

LEMMA OutsideTypes ==
  ASSUME UpdateTypeOK, Push \/ HandTurns \/ ServerBoots
  PROVE  (Checkout /\ Processes /\ Histories)'
<1>1. Checkout /\ Processes /\ Histories /\ Newest \in Nat
  BY TypesAre, PullAssumption
<1>2. CASE Push
  <2>1. left' \in [Outside -> Nat] /\ origin' \in Commit
    BY <1>1, <1>2, SpendsIs DEF Push, Histories, Checkout, Commit
  <2> QED
    BY <1>1, <1>2, <2>1 DEF Push, company, Checkout, Processes, Histories
<1>3. CASE HandTurns
  <2>1. left' \in [Outside -> Nat] /\ spoilt' \subseteq {"unmoved", "two", "undone", "older"}
    BY <1>1, <1>3, SpendsIs DEF HandTurns, Histories
  <2>2. mine' \in BOOLEAN
    BY <1>1, <1>3, Zenon DEF HandTurns, Checkout
  <2>3. tracking' \in Commit /\ head' \in Commit
    BY <1>1, <1>3 DEF HandTurns, Checkout
  <2> QED
    BY <1>1, <1>3, <2>1, <2>2, <2>3 DEF HandTurns, company, Checkout, Processes, Histories
<1>4. CASE ServerBoots
  <2>1. srv' \in [id : 1 .. MaxStarts, up : {"no", "starting", "yes"}, running : Commit]
    BY <1>1, <1>4 DEF ServerBoots, Processes
  <2> QED
    BY <1>1, <1>4, <2>1 DEF ServerBoots, checkoutVars, company, Checkout, Processes, Histories
<1> QED
  BY <1>2, <1>3, <1>4

\* The requests, the check and the banner.
LEMMA PullsKeepTypes ==
  ASSUME UpdateTypeOK, pullVars' = pullVars
  PROVE  (Checkout /\ Processes /\ Histories)'
BY TypesAre DEF pullVars, checkoutVars, company, Checkout, Processes, Histories

LEMMA ConsidersTypes ==
  ASSUME UpdateTypeOK, NEW already, already \in BOOLEAN, Considers(checked, already)
  PROVE  announced' \in Commit \cup {Absent} /\ retry' \in BOOLEAN /\ autos' \in Nat
<1>1. Memory
  BY TypesAre
<1>2. CASE ~IsMachineInstance \/ checked = Absent
  BY <1>1, <1>2 DEF Considers, Memory
<1>3. CASE IsMachineInstance /\ checked # Absent
  <2>1. /\ announced' = IF checked.behind THEN checked.tip ELSE announced
        /\ retry' = (AutoDecision(checked) = "wait")
        /\ autos' = IF AutoDecision(checked) = "now" THEN autos + 1 ELSE autos
    BY <1>3 DEF Considers
  <2>2. checked.tip \in Commit
    BY <1>1, <1>3 DEF Memory
  <2> QED
    BY <1>1, <2>1, <2>2 DEF Memory
<1> QED
  BY <1>2, <1>3

LEMMA RetryTypes ==
  ASSUME UpdateTypeOK, RetryFires
  PROVE  UpdateTypeOK'
<1>1. announced' \in Commit \cup {Absent} /\ retry' \in BOOLEAN /\ autos' \in Nat
  BY ConsidersTypes DEF RetryFires
<1>2. (Checkout /\ Processes /\ Histories)'
  BY PullsKeepTypes DEF RetryFires
<1>3. Memory'
  BY <1>1, TypesAre DEF RetryFires, Memory
<1>4. Page'
  BY TypesAre DEF RetryFires, Page, bannerVars
<1> QED
  BY <1>2, <1>3, <1>4, TypesPrimed

LEMMA NoOneButAsks ==
  ASSUME UpdateTypeOK, OnlyAsks, left' \in [Outside -> Nat]
  PROVE  (Checkout /\ Processes /\ Histories)' /\ Memory'
BY TypesAre DEF OnlyAsks, memory, checkoutVars, company, Checkout, Processes, Histories, Memory

LEMMA AskersTypes ==
  ASSUME UpdateTypeOK, OthersAsk \/ BannerReads \/ BannerClicks
  PROVE  UpdateTypeOK'
<1>1. asks \in AskTable /\ banner \in Banner /\ left \in [Outside -> Nat]
  BY TypesAre DEF Page, Histories
<1>2. "read" \in Who /\ "click" \in Who /\ \A w \in Asker : w \in Who
  BY DEF Who
<1>3. asks' \in AskTable /\ left' \in [Outside -> Nat] /\ OnlyAsks
  BY <1>1, <1>2, RequestsIs, SpendsIs DEF OthersAsk, BannerReads, BannerClicks
<1>4. CASE OthersAsk
  BY <1>1, <1>3, <1>4, NoOneButAsks, TypesPrimed DEF OthersAsk, Page
<1>5. CASE BannerReads
  <2> DEFINE late == banner.wait = "since"
  <2>1. banner' = [banner EXCEPT !.late = late] /\ late \in BOOLEAN
    BY <1>5 DEF BannerReads
  <2> HIDE DEF late
  <2>2. banner' \in Banner
    BY <1>1, <2>1 DEF Banner
  <2> QED
    BY <1>3, <2>2, NoOneButAsks, TypesPrimed DEF Page
<1>6. CASE BannerClicks
  <2>1. banner' \in Banner
    BY <1>1, <1>6 DEF Banner, BannerClicks
  <2> QED
    BY <1>3, <2>1, NoOneButAsks, TypesPrimed DEF Page
<1> QED
  BY <1>4, <1>5, <1>6

LEMMA ArrivesTypes ==
  ASSUME UpdateTypeOK, NEW w \in Who, Arrives(w)
  PROVE  UpdateTypeOK'
<1>1. asks \in AskTable /\ Memory /\ banner \in Banner
  BY TypesAre DEF Page
<1>2. /\ pullVars' = pullVars
      /\ UNCHANGED <<stale, state, announced, retry, autos, quiet, banner>>
  BY DEF Arrives
<1> DEFINE kind == asks[w].kind
<1>3. StatusOf(state) \in Reply /\ NoReply \in Reply
  BY StatusIs, NoReplyIs
<1>4. \/ kind \in {"poll", "start", "told"} /\ JoinsCheck(w, kind)
      \/ Responds(w, StatusOf(state)) /\ UNCHANGED checking
      \/ Responds(w, NoReply) /\ UNCHANGED checking
      \/ asks' = [asks EXCEPT ![w].at = "going"] /\ UNCHANGED checking
  BY DEF Arrives
<1>5. checked' \in {checked, Absent}
  BY DEF Arrives
<1> HIDE DEF kind
<1>6. asks' \in AskTable
  BY <1>1, <1>3, <1>4, JoinsIs, RespondsIs, GoingIs
<1>7. checking' \in {"no", "fetching", "reading"}
  BY <1>1, <1>4 DEF JoinsCheck, Memory
<1>8. Memory'
  BY <1>1, <1>2, <1>5, <1>7 DEF Memory
<1> QED
  BY <1>1, <1>2, <1>6, <1>8, PullsKeepTypes, TypesPrimed DEF Page

LEMMA CheckTypes ==
  ASSUME UpdateTypeOK, CheckFetches \/ CheckEnds
  PROVE  UpdateTypeOK'
<1>1. Checkout /\ Processes /\ Histories /\ Memory /\ Page
  BY TypesAre
<1>2. CASE CheckFetches
  <2>1. left' \in [Outside -> Nat] /\ tracking' \in Commit
    BY <1>1, <1>2, SpendsIs DEF CheckFetches, Histories, Checkout
  <2>2. (Checkout /\ Processes /\ Histories)'
    BY <1>1, <1>2, <2>1 DEF CheckFetches, company, Checkout, Processes, Histories
  <2>3. Memory' /\ Page'
    BY <1>1, <1>2 DEF CheckFetches, bannerVars, Memory, Page
  <2> QED
    BY <2>2, <2>3, TypesPrimed
<1>3. CASE CheckEnds
  <2> DEFINE ahead == tracking > srv.running
  <2>1. checked' = [tip |-> tracking, behind |-> ahead, blocked |-> mine] /\ ahead \in BOOLEAN
    BY <1>3 DEF CheckEnds, BehindOrigin
  <2> HIDE DEF ahead
  <2>2. checked' \in [tip : Commit, behind : BOOLEAN, blocked : BOOLEAN]
    BY <1>1, <2>1 DEF Checkout
  <2>3. Memory'
    BY <1>1, <1>3, <2>2 DEF CheckEnds, Memory
  <2>4. asks' \in AskTable
    BY <1>1, <1>3 DEF CheckEnds, Page, AskTable, AskRecord
  <2> QED
    BY <1>1, <1>3, <2>3, <2>4, PullsKeepTypes, TypesPrimed DEF CheckEnds, Page
<1> QED
  BY <1>2, <1>3

LEMMA GoesOnTypes ==
  ASSUME UpdateTypeOK, NEW w \in Who, GoesOn(w)
  PROVE  UpdateTypeOK'
<1>1. asks \in AskTable /\ Memory /\ banner \in Banner
  BY TypesAre DEF Page
<1>2. announced' \in Commit \cup {Absent} /\ retry' \in BOOLEAN /\ autos' \in Nat
  BY <1>1, ConsidersTypes DEF GoesOn, Memory
<1>3. StatusOf(state) \in Reply
  BY StatusIs
<1>4. asks' \in AskTable
  BY <1>1, <1>3, RespondsIs, GoingIs DEF GoesOn
<1>5. Memory'
  BY <1>1, <1>2 DEF GoesOn, Memory
<1> QED
  BY <1>1, <1>4, <1>5, PullsKeepTypes, TypesPrimed DEF GoesOn, Page

\* What comes of a call of startUpdate: a pull, or nothing.
LEMMA SpawnsTypes ==
  ASSUME UpdateTypeOK, NEW auto, auto \in BOOLEAN, OnlySpawn,
         Spawns(auto) \/ UNCHANGED <<pulls, company, state>>
  PROVE  (Checkout /\ Processes /\ Histories)' /\ state' \in {"idle", "updating", "failed"}
<1>1. Checkout /\ Processes /\ Histories /\ Memory
  BY TypesAre
<1>2. pulls' \in Pulls /\ passed' \subseteq Puller /\ met' \in BOOLEAN
      /\ state' \in {"idle", "updating", "failed"}
  <2>1. CASE Spawns(auto)
    <3>1. PICK p \in Puller : Started(p, srv.id, auto) /\ state' = "updating"
      BY <2>1 DEF Spawns
    <3>2. srv.id \in 0 .. MaxStarts
      BY <1>1, PullAssumption DEF Processes
    <3>3. pulls' \in Pulls
      BY <3>1, <3>2, StartedIs
    <3>4. passed' \subseteq Puller /\ UNCHANGED met
      BY <1>1, <3>1 DEF Started, Histories
    <3> QED
      BY <1>1, <3>1, <3>3, <3>4 DEF Histories
  <2>2. CASE UNCHANGED <<pulls, company, state>>
    BY <1>1, <2>2 DEF company, Processes, Histories, Memory
  <2> QED
    BY <2>1, <2>2
<1> QED
  BY <1>1, <1>2 DEF OnlySpawn, checkoutVars, Checkout, Processes, Histories

LEMMA StartGoesOnTypes ==
  ASSUME UpdateTypeOK, NEW w \in Who, StartGoesOn(w)
  PROVE  UpdateTypeOK'
<1>1. asks \in AskTable /\ Memory /\ banner \in Banner
  BY TypesAre DEF Page
<1> DEFINE auto == asks[w].kind = "auto"
<1>2. auto \in BOOLEAN
  OBVIOUS
<1>3. /\ Spawns(auto) \/ UNCHANGED <<pulls, company, state>>
      /\ Responds(w, StatusOf("updating")) \/ Responds(w, NoReply)
  BY DEF StartGoesOn
<1>4. OnlySpawn /\ UNCHANGED <<checking, autos, banner>>
  BY DEF StartGoesOn
<1> HIDE DEF auto
<1>5. asks' \in AskTable
  BY <1>1, <1>3, RespondsIs, StatusIs, NoReplyIs
<1>6. (Checkout /\ Processes /\ Histories)' /\ state' \in {"idle", "updating", "failed"}
  BY <1>2, <1>3, <1>4, SpawnsTypes
<1>7. Memory'
  BY <1>1, <1>4, <1>6 DEF OnlySpawn, Memory
<1> QED
  BY <1>1, <1>4, <1>5, <1>6, <1>7, TypesPrimed DEF Page

LEMMA AutoGoesOnTypes ==
  ASSUME UpdateTypeOK, AutoGoesOn
  PROVE  UpdateTypeOK'
<1>1. asks \in AskTable /\ Memory /\ banner \in Banner /\ "retry" \in Who
  BY TypesAre DEF Page, Who
<1>2. OnlySpawn /\ UNCHANGED banner /\ autos' = autos - 1 /\ autos > 0
  BY DEF AutoGoesOn
<1>3. Spawns(TRUE) \/ UNCHANGED <<pulls, company, state>>
  BY DEF AutoGoesOn
<1>4. (Checkout /\ Processes /\ Histories)' /\ state' \in {"idle", "updating", "failed"}
  BY <1>2, <1>3, SpawnsTypes
<1>5. asks' \in AskTable /\ checking' \in {"no", "fetching", "reading"}
  <2>1. CASE JoinsCheck("retry", "auto")
    BY <1>1, <2>1, JoinsIs DEF JoinsCheck, Memory
  <2>2. CASE UNCHANGED <<checking, asks>>
    BY <1>1, <2>2 DEF Memory
  <2> QED
    BY <2>1, <2>2 DEF AutoGoesOn
<1>6. Memory'
  BY <1>1, <1>2, <1>4, <1>5 DEF OnlySpawn, Memory
<1> QED
  BY <1>1, <1>2, <1>4, <1>5, <1>6, TypesPrimed DEF Page

LEMMA StopsTypes ==
  ASSUME UpdateTypeOK, NEW p \in Puller, ServerStops(p)
  PROVE  UpdateTypeOK'
<1>1. asks \in AskTable /\ banner \in Banner /\ Memory
  BY TypesAre DEF Page
<1>2. (Checkout /\ Processes /\ Histories)'
  BY RestartTypes DEF ServerStops
<1>3. CASE srv'.up = "no" /\ Alive
  <2>0. Forgotten /\ UNCHANGED quiet
    BY <1>3 DEF ServerStops
  <2>1. Memory'
    BY <1>1, <2>0 DEF Forgotten, Memory
  <2> DEFINE ask(w) == CASE asks[w].at = "answered" -> asks[w]
               [] w = "click" /\ asks[w].at # "" ->
                    [asks[w] EXCEPT !.at = "answered", !.reply = NoReply]
               [] OTHER -> NoAsk
  <2>2. asks' = [w \in Who |-> ask(w)]
    BY <1>3 DEF ServerStops
  <2>3. ASSUME NEW w \in Who PROVE ask(w) \in AskRecord
    <3> HIDE DEF NoAsk, NoReply
    <3>1. [asks[w] EXCEPT !.at = "answered", !.reply = NoReply] \in AskRecord
      BY <1>1, NoReplyIs DEF AskTable, AskRecord
    <3>2. asks[w] \in AskRecord
      BY <1>1 DEF AskTable
    <3> QED
      BY <3>1, <3>2, NoAskIs
  <2> HIDE DEF ask
  <2>4. asks' \in AskTable
    BY <2>2, <2>3 DEF AskTable
  <2>5. banner' \in Banner
    BY <1>1, <1>3 DEF ServerStops, Banner
  <2> QED
    BY <1>2, <2>1, <2>4, <2>5, TypesPrimed DEF Page
<1>4. CASE ~(srv'.up = "no" /\ Alive)
  BY <1>1, <1>2, <1>4, TypesPrimed DEF ServerStops, memory, Memory, Page
<1> QED
  BY <1>3, <1>4

LEMMA EndTypes ==
  ASSUME UpdateTypeOK, NEW p \in Puller, PullEnds(p)
  PROVE  UpdateTypeOK'
<1>1. asks \in AskTable /\ banner \in Banner /\ Memory
  BY TypesAre DEF Page
<1>2. (Checkout /\ Processes /\ Histories)'
  BY EndsTypes DEF PullEnds
<1>3. banner' \in Banner
  BY <1>1 DEF PullEnds, Banner
<1>4. Memory'
  BY <1>1 DEF PullEnds, memory, Memory
<1> QED
  BY <1>1, <1>2, <1>3, <1>4, TypesPrimed DEF PullEnds, Page

\* What the banner makes of an answer.
LEMMA HeardIs ==
  ASSUME banner \in Banner, NEW next \in Reply
  PROVE  /\ Heard(next) \in Banner
         /\ banner.sure /\ Heard(next).sure =>
              /\ Heard(next).late = banner.late
              /\ Heard(next).wait =
                   IF next.updating THEN (IF banner.wait = "no" THEN "since" ELSE banner.wait)
                   ELSE IF banner.late THEN "no" ELSE banner.wait
<1>1. NoBanner \in Banner /\ NoBanner.sure = FALSE
  BY DEF NoBanner, Banner
<1> DEFINE to == [id |-> next.id, running |-> next.running]
           from == IF banner.from = Absent THEN to ELSE [banner.from EXCEPT !.id = next.id]
           replaced == banner.replaced \/ (banner.from # Absent /\ next.id # banner.from.id
                                   /\ next.running # banner.from.running)
           wait == IF next.updating THEN (IF banner.wait = "no" THEN "since" ELSE banner.wait)
                   ELSE IF banner.late THEN "no" ELSE banner.wait
           new == [banner EXCEPT !.from = from, !.replaced = replaced, !.wait = wait]
<1>2. to \in [id : 1 .. MaxStarts, running : Commit]
  BY DEF Reply
<1>3. from \in [id : 1 .. MaxStarts, running : Commit]
  <2>1. /\ banner.from \in [id : 1 .. MaxStarts, running : Commit] \cup {Absent}
        /\ next.id \in 1 .. MaxStarts
    BY DEF Banner, Reply
  <2> HIDE DEF to
  <2> QED
    BY <1>2, <2>1
<1>4. wait \in {"no", "click", "since"}
  BY DEF Banner
<1>5. replaced \in BOOLEAN
  BY Zenon DEF Banner
<1>6. Heard(next) = NoBanner \/ Heard(next) = new
  BY DEF Heard
<1>7. wait = IF next.updating THEN (IF banner.wait = "no" THEN "since" ELSE banner.wait)
             ELSE IF banner.late THEN "no" ELSE banner.wait
  OBVIOUS
<1> HIDE DEF from, replaced, wait
<1>8. new \in Banner /\ new.late = banner.late /\ new.wait = wait
  BY <1>3, <1>4, <1>5 DEF Banner
<1> HIDE DEF new, NoBanner
<1> QED
  BY <1>1, <1>6, <1>7, <1>8

LEMMA HearsTypes ==
  ASSUME UpdateTypeOK, BannerHears \/ ClickAnswered
  PROVE  UpdateTypeOK'
<1>1. asks \in AskTable /\ banner \in Banner /\ Memory
  BY TypesAre DEF Page
<1>2. (Checkout /\ Processes /\ Histories)' /\ Memory'
  BY <1>1, PullsKeepTypes DEF BannerHears, ClickAnswered, OnlyBanner, memory, Memory
<1>3. "read" \in Who /\ "click" \in Who
  BY DEF Who
<1>4. asks' \in AskTable
  <2> HIDE DEF NoAsk
  <2> QED
    BY <1>1, <1>3, NoAskIs, AsksAre DEF BannerHears, ClickAnswered
<1>5. CASE BannerHears
  <2>1. asks["read"].reply \in Reply
    BY <1>1, <1>3 DEF AskTable, AskRecord
  <2> QED
    BY <1>1, <1>2, <1>4, <1>5, <2>1, HeardIs, TypesPrimed DEF BannerHears, Page
<1>6. CASE ClickAnswered
  <2> DEFINE wait == IF asks["click"].reply.ok THEN "since" ELSE "no"
             sure == asks["click"].reply.ok /\ Up /\ state = "updating"
                /\ (banner.from = Absent \/ banner.from.id = srv.id)
  <2>1. banner' = [banner EXCEPT !.wait = wait, !.late = FALSE, !.sure = sure]
    BY <1>6 DEF ClickAnswered
  <2>2. wait \in {"no", "click", "since"} /\ sure \in BOOLEAN
    BY <1>1, <1>3 DEF AskTable, AskRecord, Reply
  <2> HIDE DEF wait, sure
  <2>3. banner' \in Banner
    BY <1>1, <2>1, <2>2 DEF Banner
  <2> QED
    BY <1>2, <1>4, <2>3, TypesPrimed DEF Page
<1> QED
  BY <1>5, <1>6

LEMMA TimeTypes ==
  ASSUME UpdateTypeOK, TimePasses
  PROVE  UpdateTypeOK'
<1>1. left \in [Outside -> Nat] /\ Memory
  BY TypesAre DEF Histories
<1>2. left' \in [Outside -> Nat]
  BY <1>1, SpendsIs DEF TimePasses
<1>3. (Checkout /\ Processes /\ Histories)'
  BY <1>2, TypesAre DEF TimePasses, checkoutVars, company, Checkout, Processes, Histories
<1>4. Memory'
  BY <1>1 DEF TimePasses, Memory
<1>5. Page'
  BY TypesAre DEF TimePasses, bannerVars, Page
<1> QED
  BY <1>3, <1>4, <1>5, TypesPrimed

LEMMA ElsewhereTypes ==
  ASSUME UpdateTypeOK, OriginOK, Elsewhere, OnlyPull
  PROVE  UpdateTypeOK'
<1>1. (Checkout /\ Processes /\ Histories)'
  BY OutsideTypes, HandPullsTypes, LockTypes, WritesTypes, FetchTypes, MergeTypes, InstallTypes,
     RestartTypes, RollsBackTypes DEF Elsewhere
<1>2. Memory' /\ Page'
  BY TypesAre DEF OnlyPull, memory, bannerVars, Memory, Page
<1> QED
  BY <1>1, <1>2, TypesPrimed

LEMMA TypesStep ==
  ASSUME UpdateTypeOK, OriginOK, [UpdateNext]_updateVars
  PROVE  UpdateTypeOK'
<1>1. CASE UpdateNext
  BY <1>1, ElsewhereTypes, StopsTypes, EndTypes, RetryTypes, AskersTypes, CheckTypes, ArrivesTypes,
     HearsTypes, TimeTypes, GoesOnTypes, StartGoesOnTypes, AutoGoesOnTypes DEF UpdateNext
<1>2. CASE UNCHANGED updateVars
  BY <1>2, PullsKeepTypes, TypesAre, TypesPrimed DEF updateVars, memory, bannerVars, Memory, Page
<1> QED
  BY <1>1, <1>2

LEMMA TypesBegin == UpdateInit => UpdateTypeOK
<1> SUFFICES ASSUME UpdateInit PROVE UpdateTypeOK
  OBVIOUS
<1>1. 0 \in Commit /\ 1 \in 1 .. MaxStarts /\ Newest \in Nat
  BY PullAssumption DEF Commit
<1>2. Checkout
  BY <1>1 DEF UpdateInit, PullInit, Checkout
<1>3. pulls \in Pulls
  <2> HIDE DEF Off
  <2> QED
    BY OffIs DEF UpdateInit, PullInit, Pulls
<1>4. Processes
  BY <1>1, <1>3 DEF UpdateInit, PullInit, Processes
<1>5. Histories
  BY PullAssumption DEF UpdateInit, PullInit, Histories
<1>6. Memory
  BY DEF UpdateInit, Memory
<1>7. asks \in AskTable
  <2> HIDE DEF NoAsk
  <2> QED
    BY NoAskIs DEF UpdateInit, AskTable
<1>8. banner \in Banner
  BY DEF UpdateInit, NoBanner, Banner
<1> QED
  BY <1>2, <1>4, <1>5, <1>6, <1>7, <1>8, TypesAre DEF Page

(***************************************************************************)
(* The update: the line of commits.                                        *)
(***************************************************************************)
LEMMA LineMoves ==
  ASSUME UpdateTypeOK, OriginOK, NEW p \in Puller, NEW stage, Moves(p, stage),
         head' = head, tracking' \in {tracking, origin}, origin' = origin,
         stage \in {"install", "build", "stop", "start", "wait", "back"} => p \in Moved,
         stage \in {"open", "write", "look", "remove", "fetch", "merge", "back"} =>
           pulls[p].round = 1,
         stage = "back" => pulls[p].before # pulls[p].after
  PROVE  OriginOK'
<1>1. head \in Nat /\ tracking \in Nat /\ origin \in Nat
  BY TypesAre DEF Checkout, Commit
<1>2. head' <= tracking' /\ tracking' <= origin' /\ tracking <= tracking'
  BY <1>1 DEF OriginOK
<1>3. ASSUME NEW q \in Moved'
      PROVE  /\ pulls'[q].before \in Commit /\ pulls'[q].after \in Commit
             /\ pulls'[q].before <= pulls'[q].after /\ pulls'[q].after <= tracking'
  <2>1. q \in Puller /\ q \in Moved
    BY <1>3 DEF Moved, Moves
  <2>2. pulls'[q].before = pulls[q].before /\ pulls'[q].after = pulls[q].after
    BY <2>1 DEF Moves
  <2>3. pulls[q].after \in Nat /\ pulls[q].after <= tracking
    BY <2>1 DEF OriginOK, Commit
  <2> QED
    BY <1>1, <1>2, <2>1, <2>2, <2>3 DEF OriginOK
<1>4. ASSUME NEW q \in Puller
      PROVE  /\ pulls'[q].at \in {"open", "write", "look", "remove", "fetch", "merge", "back"} =>
                  pulls'[q].round = 1
             /\ pulls'[q].at = "back" => pulls'[q].before # pulls'[q].after
  BY <1>4 DEF OriginOK, Moves
<1> QED
  BY <1>2, <1>3, <1>4 DEF OriginOK

\* A pull begins or ends.
LEMMA LineTurns ==
  ASSUME UpdateTypeOK, OriginOK, NEW p \in Puller,
         pulls'[p].at \in {"off", "open"}, pulls'[p].round = 1,
         \A q \in Puller \ {p} : pulls'[q] = pulls[q],
         UNCHANGED <<head, tracking, origin>>
  PROVE  OriginOK'
<1>1. Moved' \subseteq Moved \ {p}
  BY DEF Moved
<1>2. head' <= tracking' /\ tracking' <= origin'
  BY DEF OriginOK
<1>3. ASSUME NEW q \in Moved'
      PROVE  /\ pulls'[q].before \in Commit /\ pulls'[q].after \in Commit
             /\ pulls'[q].before <= pulls'[q].after /\ pulls'[q].after <= tracking'
  <2>1. q \in Moved /\ q \in Puller \ {p}
    BY <1>1 DEF Moved
  <2>2. pulls'[q] = pulls[q] /\ tracking' = tracking
    BY <2>1
  <2>3. /\ pulls[q].before \in Commit /\ pulls[q].after \in Commit
        /\ pulls[q].before <= pulls[q].after /\ pulls[q].after <= tracking
    BY <2>1 DEF OriginOK
  <2> QED
    BY <2>2, <2>3
<1>4. ASSUME NEW q \in Puller
      PROVE  /\ pulls'[q].at \in {"open", "write", "look", "remove", "fetch", "merge", "back"} =>
                  pulls'[q].round = 1
             /\ pulls'[q].at = "back" => pulls'[q].before # pulls'[q].after
  BY <1>4 DEF OriginOK
<1> QED
  BY <1>2, <1>3, <1>4 DEF OriginOK

\* A pull stays where it is.
LEMMA LineStays ==
  ASSUME UpdateTypeOK, OriginOK, UNCHANGED pulls, origin' \in {origin, origin + 1},
         \/ head' = head /\ tracking' \in {tracking, origin}
         \/ head' = origin /\ tracking' = origin
  PROVE  OriginOK'
<1>1. head \in Nat /\ tracking \in Nat /\ origin \in Nat
  BY TypesAre DEF Checkout, Commit
<1>2. head' <= tracking' /\ tracking' <= origin' /\ tracking <= tracking'
  BY <1>1 DEF OriginOK
<1>3. ASSUME NEW q \in Moved
      PROVE  pulls[q].after <= tracking'
  <2>1. pulls[q].after \in Nat /\ pulls[q].after <= tracking
    BY <1>3 DEF OriginOK, Commit
  <2> QED
    BY <1>1, <1>2, <2>1
<1> QED
  BY <1>2, <1>3 DEF OriginOK, Moved

LEMMA LineMerges ==
  ASSUME UpdateTypeOK, OriginOK, NEW p \in Puller, Merges(p)
  PROVE  OriginOK'
<1>1. /\ head \in Nat /\ tracking \in Nat /\ origin \in Nat /\ pulls \in Pulls /\ head \in Commit
      /\ tracking \in Commit
  BY TypesAre DEF Checkout, Processes, Commit
<1>2. UNCHANGED <<origin, tracking>>
  BY DEF Merges
<1>3. pulls[p].at = "merge" /\ pulls[p].round = 1
  BY DEF Merges, OriginOK
<1>4. CASE Moves(p, "exit") /\ UNCHANGED head
  BY <1>1, <1>2, <1>4, LineMoves
<1>5. CASE /\ head' = tracking
           /\ pulls'[p].at = "exit" \/ pulls'[p].at = "install"
           /\ pulls'[p].before = head /\ pulls'[p].after = tracking
           /\ pulls'[p].round = pulls[p].round
           /\ \A q \in Puller \ {p} : pulls'[q] = pulls[q]
  <2>1. head' <= tracking' /\ tracking' <= origin'
    BY <1>1, <1>2, <1>5 DEF OriginOK
  <2>2. ASSUME NEW q \in Moved'
        PROVE  /\ pulls'[q].before \in Commit /\ pulls'[q].after \in Commit
               /\ pulls'[q].before <= pulls'[q].after /\ pulls'[q].after <= tracking'
    <3>1. CASE q = p
      BY <1>1, <1>2, <1>5, <3>1 DEF OriginOK
    <3>2. CASE q # p
      <4>1. q \in Puller \ {p} /\ pulls'[q] = pulls[q]
        BY <1>5, <2>2, <3>2 DEF Moved
      <4>2. q \in Moved
        BY <2>2, <4>1 DEF Moved
      <4> QED
        BY <1>2, <4>1, <4>2 DEF OriginOK
    <3> QED
      BY <3>1, <3>2
  <2>3. ASSUME NEW q \in Puller
        PROVE  /\ pulls'[q].at \in {"open", "write", "look", "remove", "fetch", "merge", "back"} =>
                    pulls'[q].round = 1
               /\ pulls'[q].at = "back" => pulls'[q].before # pulls'[q].after
    BY <1>3, <1>5, <2>3 DEF OriginOK
  <2> QED
    BY <2>1, <2>2, <2>3 DEF OriginOK
<1> QED
  BY <1>1, <1>4, <1>5, MergesIs

LEMMA LineGoesBack ==
  ASSUME UpdateTypeOK, OriginOK, NEW p \in Puller, RollsBack(p)
  PROVE  OriginOK'
<1>1. head \in Nat /\ tracking \in Nat /\ origin \in Nat /\ pulls \in Pulls
  BY TypesAre DEF Checkout, Processes, Commit
<1>2. UNCHANGED <<origin, tracking>>
  BY DEF RollsBack
<1>3. pulls[p].at = "back" /\ p \in Moved
  BY DEF RollsBack, Moved
<1>4. CASE Moves(p, "exit") /\ UNCHANGED head
  BY <1>1, <1>2, <1>4, LineMoves
<1>5. CASE /\ head' = pulls[p].before
           /\ pulls'[p].at = "install"
           /\ pulls'[p].before = pulls[p].before /\ pulls'[p].after = pulls[p].after
           /\ \A q \in Puller \ {p} : pulls'[q] = pulls[q]
  <2>1. /\ pulls[p].before \in Nat /\ pulls[p].after \in Nat
        /\ pulls[p].before <= pulls[p].after /\ pulls[p].after <= tracking /\ tracking <= origin
    BY <1>3 DEF OriginOK, Commit
  <2>2. head' <= tracking' /\ tracking' <= origin'
    BY <1>1, <1>2, <1>5, <2>1
  <2>3. ASSUME NEW q \in Moved'
        PROVE  /\ pulls'[q].before \in Commit /\ pulls'[q].after \in Commit
               /\ pulls'[q].before <= pulls'[q].after /\ pulls'[q].after <= tracking'
    <3>1. q \in Puller /\ q \in Moved
      BY <1>3, <1>5, <2>3 DEF Moved
    <3>2. pulls'[q].before = pulls[q].before /\ pulls'[q].after = pulls[q].after
      BY <1>5, <3>1
    <3> QED
      BY <1>2, <3>1, <3>2 DEF OriginOK
  <2>4. ASSUME NEW q \in Puller
        PROVE  /\ pulls'[q].at \in {"open", "write", "look", "remove", "fetch", "merge", "back"} =>
                    pulls'[q].round = 1
               /\ pulls'[q].at = "back" => pulls'[q].before # pulls'[q].after
    BY <1>5, <2>4 DEF OriginOK
  <2> QED
    BY <2>2, <2>3, <2>4 DEF OriginOK
<1> QED
  BY <1>1, <1>4, <1>5, RollsBackIs

\* A pull begins for its server, or does not.
LEMMA SpawnsIs ==
  ASSUME UpdateTypeOK, NEW auto, auto \in BOOLEAN, Spawns(auto)
  PROVE  \E p \in Puller :
           /\ pulls' \in Pulls
           /\ pulls[p].at = "off" /\ pulls'[p].at = "open" /\ pulls'[p].by = srv.id
           /\ pulls'[p].auto = auto /\ pulls'[p].round = 1
           /\ \A q \in Puller \ {p} : pulls'[q] = pulls[q]
           /\ passed' = IF Past = {} THEN passed \ {p} ELSE passed \cup {p}
           /\ UNCHANGED met /\ state' = "updating"
<1>1. PICK p \in Puller : Started(p, srv.id, auto) /\ state' = "updating" /\ pulls[p].at = "off"
  BY DEF Spawns
<1>2. srv.id \in 0 .. MaxStarts
  BY TypesAre, PullAssumption DEF Processes
<1>3. /\ pulls' \in Pulls
      /\ pulls'[p].at = "open" /\ pulls'[p].by = srv.id
      /\ pulls'[p].auto = auto /\ pulls'[p].round = 1
      /\ \A q \in Puller \ {p} : pulls'[q] = pulls[q]
  BY <1>1, <1>2, StartedIs
<1>4. passed' = (IF Past = {} THEN passed \ {p} ELSE passed \cup {p}) /\ UNCHANGED met
  BY <1>1 DEF Started
<1> QED
  BY <1>1, <1>3, <1>4

LEMMA LineElsewhere ==
  ASSUME UpdateTypeOK, OriginOK, Elsewhere
  PROVE  OriginOK'
<1>1. pulls \in Pulls
  BY TypesAre DEF Processes
<1>2. /\ "write" \in Stages /\ "look" \in Stages /\ "remove" \in Stages /\ "fetch" \in Stages
      /\ "merge" \in Stages /\ "build" \in Stages /\ "stop" \in Stages /\ "start" \in Stages
      /\ "wait" \in Stages /\ "exit" \in Stages
  BY DEF Stages
<1>3. CASE Push
  BY <1>3, LineStays DEF Push
<1>4. CASE HandTurns
  BY <1>4, LineStays DEF HandTurns
<1>5. CASE ServerBoots
  BY <1>5, LineStays DEF ServerBoots, checkoutVars
<1>6. ASSUME NEW p \in Puller, HandPulls(p)
      PROVE  OriginOK'
  <2>1. 0 \in 0 .. MaxStarts
    BY PullAssumption
  <2>2. pulls'[p].at = "open" /\ pulls'[p].round = 1 /\ \A q \in Puller \ {p} : pulls'[q] = pulls[q]
    BY <1>6, <2>1, StartedIs DEF HandPulls
  <2> QED
    BY <1>6, <2>2, LineTurns DEF HandPulls, checkoutVars
<1>7. ASSUME NEW p \in Puller, OpensLock(p) \/ LooksAtLock(p) \/ RemovesLock(p)
      PROVE  OriginOK'
  <2>1. pulls[p].round = 1 /\ UNCHANGED <<origin, tracking, head>>
    BY <1>7 DEF OpensLock, LooksAtLock, RemovesLock, OnlyLock, checkoutVars, OriginOK
  <2>2. \/ Moves(p, "write") \/ Moves(p, "look") \/ Moves(p, "remove") \/ Moves(p, "refused")
        \/ Moves(p, "open")
    BY <1>1, <1>2, <1>7, GoesIs, RefusedIs, RemovesIs DEF OpensLock, LooksAtLock
  <2> QED
    BY <2>1, <2>2, LineMoves
<1>8. ASSUME NEW p \in Puller, WritesPid(p)
      PROVE  OriginOK'
  <2>1. pulls[p].round = 1 /\ UNCHANGED <<origin, tracking, head>> /\ Moves(p, "fetch")
    BY <1>1, <1>2, <1>8, GoesIs DEF WritesPid, checkoutVars, OriginOK
  <2> QED
    BY <2>1, LineMoves
<1>9. ASSUME NEW p \in Puller, Fetches(p)
      PROVE  OriginOK'
  <2>1. pulls[p].round = 1 /\ UNCHANGED <<origin, head>> /\ tracking' \in {tracking, origin}
    BY <1>9 DEF Fetches, OriginOK
  <2>2. Moves(p, "merge") \/ Moves(p, "exit")
    BY <1>1, <1>2, <1>9, GoesIs, FailsIs DEF Fetches
  <2> QED
    BY <2>1, <2>2, LineMoves
<1>10. ASSUME NEW p \in Puller, Installs(p)
       PROVE  OriginOK'
  <2>1. p \in Moved /\ UNCHANGED <<origin, tracking, head>>
    BY <1>10 DEF Installs, Moved
  <2>2. Moves(p, "build") \/ Moves(p, "exit")
    BY <1>1, <1>2, <1>10, GoesIs, FailsIs DEF Installs
  <2> QED
    BY <2>1, <2>2, LineMoves
<1>11. ASSUME NEW p \in Puller, Build(p) \/ Start(p) \/ Waits(p)
       PROVE  OriginOK'
  <2>1. p \in Moved /\ UNCHANGED <<origin, tracking, head>>
    BY <1>11 DEF Build, Start, Waits, Moved, checkoutVars
  <2>2. \/ Moves(p, "stop") \/ Moves(p, "wait") \/ Moves(p, "exit")
        \/ Moves(p, "back") /\ pulls[p].round # 2 /\ pulls[p].before # pulls[p].after
    BY <1>1, <1>2, <1>11, GoesIs, FailsIs, RestartFailsIs
    DEF Build, Start, RestartSucceeds, Waits
  <2>3. pulls[p].round # 2 => pulls[p].round = 1
    BY <1>1 DEF Pulls, PullRecord
  <2> QED
    BY <2>1, <2>2, <2>3, LineMoves
<1> QED
  BY <1>3, <1>4, <1>5, <1>6, <1>7, <1>8, <1>9, <1>10, <1>11, LineMerges, LineGoesBack DEF Elsewhere

LEMMA LineStep ==
  ASSUME UpdateTypeOK, OriginOK, [UpdateNext]_updateVars
  PROVE  OriginOK'
<1>1. pulls \in Pulls /\ "start" \in Stages /\ "exit" \in Stages
  BY TypesAre DEF Processes, Stages
<1>2. ASSUME NEW p \in Puller, ServerStops(p)
      PROVE  OriginOK'
  <2>1. p \in Moved /\ UNCHANGED <<origin, tracking, head>> /\ Moves(p, "start")
    BY <1>1, <1>2, GoesIs DEF ServerStops, Stop, Moved, checkoutVars
  <2> QED
    BY <2>1, LineMoves
<1>3. ASSUME NEW p \in Puller, PullEnds(p)
      PROVE  OriginOK'
  <2>1. UNCHANGED <<origin, tracking, head>>
    BY <1>3 DEF PullEnds, Ends, checkoutVars
  <2>2. pulls'[p] = Off /\ \A q \in Puller \ {p} : pulls'[q] = pulls[q]
    BY <1>3, EndsIs DEF PullEnds
  <2>3. Off.at = "off" /\ Off.round = 1
    BY DEF Off
  <2> HIDE DEF Off
  <2> QED
    BY <2>1, <2>2, <2>3, LineTurns
<1>4. ASSUME UNCHANGED pullVars
      PROVE  OriginOK'
  BY <1>4, LineStays DEF pullVars, checkoutVars
<1>5. CASE RetryFires \/ CheckEnds \/ BannerHears \/ ClickAnswered \/ UNCHANGED updateVars
           \/ \E w \in Who : GoesOn(w) \/ Arrives(w)
  <2>1. UNCHANGED pullVars
    BY <1>5 DEF RetryFires, CheckEnds, BannerHears, ClickAnswered, updateVars, GoesOn, Arrives,
       OnlyBanner
  <2> QED
    BY <1>4, <2>1
<1>6. CASE OthersAsk \/ BannerReads \/ BannerClicks \/ TimePasses
  <2>1. UNCHANGED <<pulls, head, tracking, origin>>
    BY <1>6 DEF OthersAsk, BannerReads, BannerClicks, TimePasses, OnlyAsks, checkoutVars
  <2> QED
    BY <2>1, LineStays
<1>7. CASE CheckFetches
  BY <1>7, LineStays DEF CheckFetches
<1>8. ASSUME NEW auto, auto \in BOOLEAN, OnlySpawn, Spawns(auto) \/ UNCHANGED pulls
      PROVE  OriginOK'
  <2>1. UNCHANGED <<head, tracking, origin>>
    BY <1>8 DEF OnlySpawn, checkoutVars
  <2>2. CASE Spawns(auto)
    BY <1>8, <2>1, <2>2, SpawnsIs, LineTurns
  <2>3. CASE UNCHANGED pulls
    BY <2>1, <2>3, LineStays
  <2> QED
    BY <1>8, <2>2, <2>3
<1>9. ASSUME NEW w \in Who, StartGoesOn(w)
      PROVE  OriginOK'
  <2> DEFINE auto == asks[w].kind = "auto"
  <2>1. auto \in BOOLEAN /\ OnlySpawn /\ (Spawns(auto) \/ UNCHANGED pulls)
    BY <1>9 DEF StartGoesOn
  <2> HIDE DEF auto
  <2> QED
    BY <1>8, <2>1
<1>10. CASE AutoGoesOn
  <2>1. OnlySpawn /\ (Spawns(TRUE) \/ UNCHANGED pulls)
    BY <1>10 DEF AutoGoesOn
  <2> QED
    BY <1>8, <2>1
<1> QED
  BY <1>2, <1>3, <1>5, <1>6, <1>7, <1>9, <1>10, LineElsewhere DEF UpdateNext

LEMMA LineBegins == UpdateInit => OriginOK
<1> SUFFICES ASSUME UpdateInit PROVE OriginOK
  OBVIOUS
<1>1. pulls = [p \in Puller |-> Off] /\ Off.at = "off" /\ origin = 0 /\ tracking = 0 /\ head = 0
  BY DEF UpdateInit, PullInit, Off
<1> HIDE DEF Off
<1>2. \A p \in Puller : pulls[p].at = "off"
  BY <1>1
<1> QED
  BY <1>1, <1>2 DEF OriginOK, Moved

\* The checkout, the lock, run.json, the server process, the pulls and what the server
\* and the page remember have the shapes they are declared with (pull.js, update.ts).
THEOREM UpdateTypes == UpdateSpec => []UpdateTypeOK
<1>1. UpdateInit => UpdateTypeOK /\ OriginOK
  BY TypesBegin, LineBegins
<1>2. UpdateTypeOK /\ OriginOK /\ [UpdateNext]_updateVars => (UpdateTypeOK /\ OriginOK)'
  BY TypesStep, LineStep
<1> QED
  BY <1>1, <1>2, PTL DEF UpdateSpec

(***************************************************************************)
(* The update: the page that waits.                                        *)
(***************************************************************************)
LEMMA SrvElsewhere ==
  ASSUME Elsewhere
  PROVE  \/ UNCHANGED <<run, srv>>
         \/ /\ UNCHANGED run /\ srv.up = "starting"
            /\ srv' \in {[srv EXCEPT !.up = "yes"], [srv EXCEPT !.up = "no"]}
         \/ /\ ~Alive
            /\ srv' = [id |-> srv.id + 1, up |-> "starting", running |-> dist.stamp]
            /\ run' = [id |-> srv.id + 1, commit |-> dist.stamp]
BY DEF Elsewhere, Push, HandTurns, ServerBoots, HandPulls, OpensLock, WritesPid, LooksAtLock,
       RemovesLock, OnlyLock, Fetches, Merges, Installs, Build, Start, Waits, RollsBack

\* What leaves run.json and the server process alone.
LEMMA SrvStays ==
  ASSUME \/ RetryFires \/ OthersAsk \/ CheckFetches \/ CheckEnds \/ BannerReads \/ BannerClicks
         \/ BannerHears \/ ClickAnswered \/ TimePasses \/ AutoGoesOn \/ UNCHANGED updateVars
         \/ \E p \in Puller : PullEnds(p)
         \/ \E w \in Who : GoesOn(w) \/ StartGoesOn(w) \/ Arrives(w)
  PROVE  UNCHANGED <<run, srv>>
BY DEF RetryFires, OthersAsk, CheckFetches, CheckEnds, BannerReads, BannerClicks, BannerHears,
       ClickAnswered, TimePasses, AutoGoesOn, updateVars, PullEnds, Ends, GoesOn, StartGoesOn,
       Arrives,
       pullVars, OnlyAsks, OnlySpawn, OnlyBanner

LEMMA HereStep ==
  ASSUME UpdateTypeOK, UpdateTypeOK', HereOK, [UpdateNext]_updateVars
  PROVE  HereOK'
<1>1. srv \in [id : 1 .. MaxStarts, up : {"no", "starting", "yes"}, running : Commit]
  BY TypesAre DEF Processes
<1>2. CASE UNCHANGED <<run, srv>>
  BY <1>2 DEF HereOK, RunsHere, Alive
<1>3. CASE Elsewhere
  <2>1. CASE /\ UNCHANGED run /\ srv.up = "starting"
             /\ srv' \in {[srv EXCEPT !.up = "yes"], [srv EXCEPT !.up = "no"]}
    BY <1>1, <2>1 DEF HereOK, RunsHere, Alive
  <2>2. CASE /\ srv' = [id |-> srv.id + 1, up |-> "starting", running |-> dist.stamp]
             /\ run' = [id |-> srv.id + 1, commit |-> dist.stamp]
    <3>1. srv'.id \in 1 .. MaxStarts /\ dist.stamp \in Commit
      BY TypesAre, TypesPrimed DEF Processes, Checkout
    <3>2. run' \in [id : 1 .. MaxStarts, commit : Commit]
      BY <2>2, <3>1
    <3>3. run' # Absent /\ run'.id = srv'.id
      BY <2>2, <3>2, PullAssumption
    <3> QED
      BY <3>3 DEF HereOK, RunsHere
  <2> QED
    BY <1>2, <1>3, <2>1, <2>2, SrvElsewhere
<1>4. ASSUME NEW p \in Puller, ServerStops(p)
      PROVE  HereOK'
  BY <1>1, <1>4 DEF ServerStops, Stop, HereOK, RunsHere, Alive
<1> QED
  BY <1>2, <1>3, <1>4, SrvStays DEF UpdateNext

\* What has nothing to do with the page leaves the wait alone.
LEMMA WaitStays ==
  ASSUME WaitOK, UNCHANGED <<asks, banner>>, banner.sure => Up' /\ state' = state
  PROVE  WaitOK'
BY DEF WaitOK

LEMMA WaitBegins == UpdateInit => WaitOK /\ HereOK
<1> SUFFICES ASSUME UpdateInit PROVE WaitOK /\ HereOK
  OBVIOUS
<1>1. ~banner.sure
  BY DEF UpdateInit, NoBanner
<1>2. asks["read"].at = ""
  <2> HIDE DEF NoAsk
  <2> QED
    BY NoAskIs DEF UpdateInit, Who
<1>3. srv.id = 1 /\ run = [id |-> 1, commit |-> 0]
  BY DEF UpdateInit, PullInit
<1>4. run \in [id : 1 .. MaxStarts, commit : Commit]
  BY <1>3, PullAssumption DEF Commit
<1>5. run # Absent /\ run.id = srv.id
  BY <1>3, <1>4, PullAssumption
<1> QED
  BY <1>1, <1>2, <1>5 DEF WaitOK, HereOK, RunsHere

LEMMA WaitStep ==
  ASSUME UpdateTypeOK, HereOK, WaitOK, [UpdateNext]_updateVars
  PROVE  WaitOK'
<1>1. /\ asks \in AskTable /\ banner \in Banner /\ "read" \in Who /\ "click" \in Who
      /\ srv \in [id : 1 .. MaxStarts, up : {"no", "starting", "yes"}, running : Commit]
  BY TypesAre DEF Page, Processes, Who
<1>2. Up => Alive /\ IsMachineInstance
  BY DEF HereOK, RunsHere, Up, Alive, IsMachineInstance
<1>3. CASE Elsewhere /\ OnlyPull
  <2>1. UNCHANGED <<asks, banner, state>>
    BY <1>3 DEF OnlyPull, memory, bannerVars
  <2>2. Up => UNCHANGED srv
    BY <1>1, <1>2, <1>3, SrvElsewhere DEF Up
  <2> QED
    BY <2>1, <2>2, WaitStays DEF WaitOK, Up
<1>4. ASSUME NEW p \in Puller, ServerStops(p)
      PROVE  WaitOK'
  <2>1. CASE srv'.up = "no" /\ Alive
    <3>1. banner' = [banner EXCEPT !.sure = FALSE]
      BY <1>4, <2>1 DEF ServerStops
    <3>2. ~banner'.sure
      BY <1>1, <3>1 DEF Banner
    <3>3. asks' = [w \in Who |->
                 CASE asks[w].at = "answered" -> asks[w]
                   [] w = "click" /\ asks[w].at # "" ->
                        [asks[w] EXCEPT !.at = "answered", !.reply = NoReply]
                   [] OTHER -> NoAsk]
      BY <1>4, <2>1 DEF ServerStops
    <3> HIDE DEF NoAsk, NoReply
    <3>4. asks'["read"] = asks["read"] \/ asks'["read"] = NoAsk
      BY <1>1, <3>3
    <3>5. asks'["read"].at # "" => asks'["read"].kind = "poll"
      BY <3>4, NoAskIs DEF WaitOK
    <3> QED
      BY <3>2, <3>5 DEF WaitOK
  <2>2. CASE ~(srv'.up = "no" /\ Alive)
    <3>1. UNCHANGED <<asks, banner, state>>
      BY <1>4, <2>2 DEF ServerStops, memory
    <3>2. Up => UNCHANGED srv
      BY <1>1, <1>2, <1>4, <2>2 DEF ServerStops, Stop
    <3> QED
      BY <3>1, <3>2, WaitStays DEF WaitOK, Up
  <2> QED
    BY <2>1, <2>2
<1>5. ASSUME NEW p \in Puller, PullEnds(p)
      PROVE  WaitOK'
  <2>1. UNCHANGED <<asks, srv>>
    BY <1>5 DEF PullEnds, Ends
  <2>2. CASE banner' = [banner EXCEPT !.sure = FALSE]
    <3>1. ~banner'.sure
      BY <1>1, <2>2 DEF Banner
    <3> QED
      BY <2>1, <3>1 DEF WaitOK
  <2>3. CASE UNCHANGED <<memory, banner>>
    BY <2>1, <2>3, WaitStays DEF memory, WaitOK, Up
  <2> QED
    BY <1>5, <2>2, <2>3 DEF PullEnds
<1>6. CASE RetryFires \/ CheckFetches \/ TimePasses \/ UNCHANGED updateVars
  <2>1. UNCHANGED <<asks, banner, srv, state>>
    BY <1>6 DEF RetryFires, CheckFetches, TimePasses, updateVars, pullVars, memory, bannerVars
  <2> QED
    BY <2>1, WaitStays DEF WaitOK, Up
<1>7. CASE OthersAsk
  <2>1. PICK w \in Asker, kind \in {"start", "told"} : Requests(w, kind, "other")
    BY <1>7 DEF OthersAsk
  <2>2. w # "read" /\ w \in Who /\ kind \in {"poll", "start", "told"}
    BY UpdateAssumption DEF Who
  <2>4. \A v \in Who \ {w} : asks'[v] = asks[v]
    BY <1>1, <2>1, <2>2, RequestsIs
  <2>3. asks'["read"] = asks["read"] /\ UNCHANGED <<srv, state, banner>>
    BY <1>1, <1>7, <2>2, <2>4 DEF OthersAsk, OnlyAsks, memory
  <2> QED
    BY <2>3 DEF WaitOK, Up
<1>8. CASE BannerReads
  <2>1. asks'["read"].kind = "poll" /\ asks'["read"].at = "sent"
    BY <1>1, <1>8, RequestsIs DEF BannerReads
  <2>2. UNCHANGED <<srv, state>>
    BY <1>8 DEF BannerReads, OnlyAsks, memory
  <2> DEFINE late == banner.wait = "since"
  <2>3. banner' = [banner EXCEPT !.late = late]
    BY <1>8 DEF BannerReads
  <2> HIDE DEF late
  <2>4. banner'.sure = banner.sure /\ banner'.wait = banner.wait
    BY <1>1, <2>3 DEF Banner
  <2> QED
    BY <2>1, <2>2, <2>4 DEF WaitOK, Up
<1>9. CASE BannerClicks
  <2>1. ~banner'.sure
    BY <1>1, <1>9 DEF BannerClicks, Banner
  <2>3. Requests("click", "start", "click")
    BY <1>9 DEF BannerClicks
  <2>4. \A v \in Who \ {"click"} : asks'[v] = asks[v]
    BY <1>1, <2>3, RequestsIs
  <2>2. asks'["read"] = asks["read"]
    BY <1>1, <2>4
  <2> QED
    BY <2>1, <2>2 DEF WaitOK
<1>10. CASE BannerHears
  <2>1. /\ asks["read"].at = "answered" /\ asks["read"].reply \in Reply
        /\ asks' = [asks EXCEPT !["read"] = NoAsk]
        /\ banner' = Heard(asks["read"].reply) /\ UNCHANGED <<srv, state>>
    BY <1>1, <1>10 DEF BannerHears, OnlyBanner, pullVars, memory, AskTable, AskRecord
  <2> HIDE DEF NoAsk
  <2>2. asks'["read"].kind = "none" /\ asks'["read"].at = ""
    BY <1>1, <2>1, NoAskIs, AsksAre
  <2>3. banner'.sure => banner.sure
    <3>1. CASE banner' = NoBanner
      BY <3>1 DEF NoBanner
    <3>2. CASE banner' # NoBanner
      BY <1>1, <2>1, <3>2 DEF Heard, Banner
    <3> QED
      BY <3>1, <3>2
  <2>4. banner'.sure => banner'.wait = "since"
    BY <1>1, <2>1, <2>3, HeardIs DEF WaitOK
  <2> QED
    BY <2>1, <2>2, <2>3, <2>4 DEF WaitOK, Up
<1>11. CASE ClickAnswered
  <2>1. UNCHANGED <<srv, state>> /\ asks' = [asks EXCEPT !["click"] = NoAsk]
    BY <1>11 DEF ClickAnswered, OnlyBanner, pullVars, memory
  <2>2. asks'["read"] = asks["read"]
    BY <1>1, <2>1 DEF AskTable
  <2> DEFINE wait == IF asks["click"].reply.ok THEN "since" ELSE "no"
             sure == asks["click"].reply.ok /\ Up /\ state = "updating"
                /\ (banner.from = Absent \/ banner.from.id = srv.id)
  <2>3. banner' = [banner EXCEPT !.wait = wait, !.late = FALSE, !.sure = sure]
    BY <1>11 DEF ClickAnswered
  <2>4. sure => wait = "since" /\ Up /\ state = "updating"
    OBVIOUS
  <2> HIDE DEF wait, sure
  <2>5. banner'.sure = sure /\ banner'.wait = wait /\ banner'.late = FALSE
    BY <1>1, <2>3 DEF Banner
  <2> QED
    BY <2>1, <2>2, <2>4, <2>5 DEF WaitOK, Up
<1>12. CASE CheckEnds
  <2>1. UNCHANGED <<srv, state, banner>>
    BY <1>12 DEF CheckEnds, pullVars
  <2>2. asks'["read"].kind = asks["read"].kind
    BY <1>1, <1>12 DEF CheckEnds, AskTable, AskRecord
  <2>3. asks["read"].at # "checking" => asks'["read"] = asks["read"]
    BY <1>1, <1>12 DEF CheckEnds, AskTable, AskRecord
  <2> QED
    BY <2>1, <2>2, <2>3 DEF WaitOK, Up
<1>13. ASSUME NEW w \in Who, GoesOn(w)
       PROVE  WaitOK'
  <2>1. UNCHANGED <<srv, state, banner>> /\ asks[w].at = "checked" /\ StatusOf(state) \in Reply
    BY <1>13, StatusIs DEF GoesOn, pullVars
  <2>2. asks'["read"] = asks["read"] \/ (w = "read" /\ asks'["read"].kind = asks["read"].kind)
    BY <1>1, <1>13, <2>1, GoingIs, RespondsIs DEF GoesOn
  <2> QED
    BY <2>1, <2>2 DEF WaitOK, Up
<1>14. ASSUME NEW w \in Who, StartGoesOn(w)
       PROVE  WaitOK'
  <2>1. UNCHANGED <<srv, banner>> /\ asks[w].at = "going" /\ state' \in {state, "updating"}
    BY <1>14 DEF StartGoesOn, OnlySpawn, Spawns
  <2>2. asks'["read"] = asks["read"] \/ (w = "read" /\ asks'["read"].kind = asks["read"].kind)
    BY <1>1, <1>14, StatusIs, NoReplyIs, RespondsIs DEF StartGoesOn
  <2> QED
    BY <2>1, <2>2 DEF WaitOK, Up
<1>15. CASE AutoGoesOn
  <2>1. UNCHANGED <<srv, banner>> /\ state' \in {state, "updating"}
    BY <1>15 DEF AutoGoesOn, OnlySpawn, Spawns
  <2>2. asks'["read"] = asks["read"]
    <3>1. CASE JoinsCheck("retry", "auto")
      <4>1. "retry" \in Who
        BY DEF Who
      <4> QED
        BY <1>1, <3>1, <4>1, JoinsIs
    <3> QED
      BY <1>15, <3>1 DEF AutoGoesOn
  <2> QED
    BY <2>1, <2>2 DEF WaitOK, Up
<1>16. ASSUME NEW w \in Who, Arrives(w)
       PROVE  WaitOK'
  <2>1. UNCHANGED <<srv, state, banner>> /\ asks[w].at = "sent" /\ Up
    BY <1>16 DEF Arrives, pullVars
  <2>2. CASE w # "read"
    <3>1. asks'["read"] = asks["read"]
      <4> DEFINE kind == asks[w].kind
      <4>1. \/ kind \in {"poll", "start", "told"} /\ JoinsCheck(w, kind)
            \/ Responds(w, StatusOf(state)) \/ Responds(w, NoReply)
            \/ asks' = [asks EXCEPT ![w].at = "going"]
        BY <1>16 DEF Arrives
      <4> HIDE DEF kind
      <4> QED
        BY <1>1, <2>2, <4>1, StatusIs, NoReplyIs, JoinsIs, RespondsIs, GoingIs
    <3> QED
      BY <2>1, <3>1 DEF WaitOK, Up
  <2>3. CASE w = "read"
    <3>1. asks["read"].kind = "poll" /\ asks["read"].at = "sent"
      BY <2>1, <2>3 DEF WaitOK
    <3>2. CASE JoinsCheck("read", "poll") /\ NeedsCheck
      <4>1. asks'["read"].kind = "poll"
        BY <1>1, <3>2, JoinsIs
      <4>2. ~banner.sure
        BY <3>2 DEF WaitOK, NeedsCheck
      <4> QED
        BY <2>1, <4>1, <4>2 DEF WaitOK
    <3>3. CASE Responds("read", StatusOf(state))
      <4>1. /\ asks'["read"].at = "answered" /\ asks'["read"].reply = StatusOf(state)
            /\ asks'["read"].kind = "poll"
        BY <1>1, <3>1, <3>3, StatusIs, RespondsIs
      <4>2. StatusOf(state).updating = (state = "updating")
        BY <1>2, <2>1, StatusIs
      <4> QED
        BY <2>1, <4>1, <4>2 DEF WaitOK, Up
    <3>4. (JoinsCheck("read", "poll") /\ NeedsCheck) \/ Responds("read", StatusOf(state))
      BY <1>16, <2>3, <3>1 DEF Arrives
    <3> QED
      BY <3>2, <3>3, <3>4
  <2> QED
    BY <2>2, <2>3
<1> QED
  BY <1>3, <1>4, <1>5, <1>6, <1>7, <1>8, <1>9, <1>10, <1>11, <1>12, <1>13, <1>14, <1>15, <1>16
  DEF UpdateNext

\* A page whose click was accepted goes on waiting for as long as that server's pull
\* runs, whatever reads, clicks and checks are under way (UpdateBanner.tsx).
THEOREM WaitGoesOn == UpdateSpec => []WaitsThrough
<1>1. UpdateInit => UpdateTypeOK /\ OriginOK /\ HereOK /\ WaitOK
  BY TypesBegin, LineBegins, WaitBegins
<1>2. /\ UpdateTypeOK /\ OriginOK /\ HereOK /\ WaitOK /\ [UpdateNext]_updateVars
      => (UpdateTypeOK /\ OriginOK /\ HereOK /\ WaitOK)'
  BY TypesStep, LineStep, HereStep, WaitStep
<1>3. WaitOK => WaitsThrough
  BY DEF WaitOK, WaitsThrough
<1> QED
  BY <1>1, <1>2, <1>3, PTL DEF UpdateSpec

(***************************************************************************)
(* The update: the way back.                                               *)
(***************************************************************************)

\* What each step of a pull makes of its stage.
LEMMA LockSteps ==
  ASSUME UpdateTypeOK, NEW p \in Puller
  PROVE  /\ OpensLock(p) => pulls[p].at = "open" /\ (Moves(p, "write") \/ Moves(p, "look"))
         /\ LooksAtLock(p) => pulls[p].at = "look" /\ (Moves(p, "refused") \/ Moves(p, "remove"))
         /\ RemovesLock(p) => pulls[p].at = "remove" /\ (Moves(p, "refused") \/ Moves(p, "open"))
         /\ WritesPid(p) => pulls[p].at = "write" /\ Moves(p, "fetch")
         /\ Fetches(p) => pulls[p].at = "fetch" /\ (Moves(p, "merge") \/ Moves(p, "exit"))
<1>1. pulls \in Pulls
  BY TypesAre DEF Processes
<1>2. /\ "write" \in Stages /\ "look" \in Stages /\ "remove" \in Stages /\ "fetch" \in Stages
      /\ "merge" \in Stages
  BY DEF Stages
<1>3. OpensLock(p) => pulls[p].at = "open" /\ (Moves(p, "write") \/ Moves(p, "look"))
  BY <1>1, <1>2, GoesIs DEF OpensLock
<1>4. LooksAtLock(p) => pulls[p].at = "look" /\ (Moves(p, "refused") \/ Moves(p, "remove"))
  BY <1>1, <1>2, GoesIs, RefusedIs DEF LooksAtLock
<1>5. RemovesLock(p) => pulls[p].at = "remove" /\ (Moves(p, "refused") \/ Moves(p, "open"))
  BY <1>1, <1>2, RemovesIs
<1>6. WritesPid(p) => pulls[p].at = "write" /\ Moves(p, "fetch")
  BY <1>1, <1>2, GoesIs DEF WritesPid
<1>7. Fetches(p) => pulls[p].at = "fetch" /\ (Moves(p, "merge") \/ Moves(p, "exit"))
  BY <1>1, <1>2, GoesIs, FailsIs DEF Fetches
<1> QED
  BY <1>3, <1>4, <1>5, <1>6, <1>7

\* How a restart ends badly.
RestartFailed(p) ==
  \/ /\ Moves(p, "exit") /\ UNCHANGED tried
     /\ \/ pulls[p].round = 2 /\ UNCHANGED spoilt
        \/ /\ pulls[p].round # 2 /\ pulls[p].before = pulls[p].after
           /\ spoilt' = spoilt \cup {"unmoved"}
  \/ /\ Moves(p, "back") /\ GivesUp(p) /\ UNCHANGED spoilt
     /\ pulls[p].round # 2 /\ pulls[p].before # pulls[p].after

LEMMA RestartSteps ==
  ASSUME UpdateTypeOK, HereOK, NEW p \in Puller
  PROVE  /\ Installs(p) => /\ pulls[p].at = "install"
                           /\ \/ /\ Moves(p, "build") /\ UNCHANGED spoilt
                                 /\ deps' = IF LockChanged(p) THEN Lockfile[head] ELSE deps
                              \/ /\ Moves(p, "exit") /\ UNCHANGED deps
                                 /\ spoilt' = IF pulls[p].round = 2 THEN spoilt \cup {"undone"}
                                              ELSE spoilt
         /\ Build(p) => /\ pulls[p].at = "build"
                        /\ \/ /\ Moves(p, "stop") /\ UNCHANGED <<spoilt, tried>>
                              /\ dist' = [code |-> head, stamp |-> head]
                           \/ /\ RestartFailed(p) /\ dist' = [dist EXCEPT !.code = Absent]
                              /\ fate[head] = "unbuildable" \/ ~Matches(head)
         /\ Stop(p) => /\ pulls[p].at = "stop" /\ Moves(p, "start")
                       /\ srv' = IF Alive THEN [srv EXCEPT !.up = "no"] ELSE srv
         /\ Start(p) => /\ pulls[p].at = "start" /\ UNCHANGED <<spoilt, tried>>
                        /\ \/ /\ Alive /\ Moves(p, "exit") /\ UNCHANGED srv
                              /\ failed' = IF pulls[p].round = 1 THEN Absent ELSE failed
                           \/ /\ ~Alive /\ Moves(p, "wait") /\ UNCHANGED failed
                              /\ srv' = [id |-> srv.id + 1, up |-> "starting",
                                         running |-> dist.stamp]
         /\ Waits(p) => /\ pulls[p].at = "wait"
                        /\ \/ Up /\ Moves(p, "exit") /\ UNCHANGED <<spoilt, tried>>
                           \/ ~Up /\ RestartFailed(p) /\ UNCHANGED failed
<1>1. pulls \in Pulls
  BY TypesAre DEF Processes
<1>2. /\ "build" \in Stages /\ "stop" \in Stages /\ "start" \in Stages /\ "wait" \in Stages
      /\ "exit" \in Stages
  BY DEF Stages
<1>3. RestartFails(p) => RestartFailed(p)
  BY <1>1, RestartFailsIs DEF RestartFailed
<1>4. Alive <=> RunsHere
  BY DEF HereOK, RunsHere
<1>5. ASSUME Installs(p)
      PROVE  /\ pulls[p].at = "install"
             /\ \/ /\ Moves(p, "build") /\ UNCHANGED spoilt
                   /\ deps' = IF LockChanged(p) THEN Lockfile[head] ELSE deps
                \/ /\ Moves(p, "exit") /\ UNCHANGED deps
                   /\ spoilt' = IF pulls[p].round = 2 THEN spoilt \cup {"undone"} ELSE spoilt
  BY <1>1, <1>2, <1>5, GoesIs, FailsIs DEF Installs
<1>6. ASSUME Build(p)
      PROVE  /\ pulls[p].at = "build"
             /\ \/ /\ Moves(p, "stop") /\ UNCHANGED <<spoilt, tried>>
                   /\ dist' = [code |-> head, stamp |-> head]
                \/ /\ RestartFailed(p) /\ dist' = [dist EXCEPT !.code = Absent]
                   /\ fate[head] = "unbuildable" \/ ~Matches(head)
  BY <1>1, <1>2, <1>3, <1>6, GoesIs DEF Build, Builds
<1>7. ASSUME Stop(p)
      PROVE  /\ pulls[p].at = "stop" /\ Moves(p, "start")
             /\ srv' = IF Alive THEN [srv EXCEPT !.up = "no"] ELSE srv
  BY <1>1, <1>2, <1>4, <1>7, GoesIs DEF Stop
<1>8. ASSUME Start(p)
      PROVE  /\ pulls[p].at = "start" /\ UNCHANGED <<spoilt, tried>>
             /\ \/ /\ Alive /\ Moves(p, "exit") /\ UNCHANGED srv
                   /\ failed' = IF pulls[p].round = 1 THEN Absent ELSE failed
                \/ /\ ~Alive /\ Moves(p, "wait") /\ UNCHANGED failed
                   /\ srv' = [id |-> srv.id + 1, up |-> "starting", running |-> dist.stamp]
  BY <1>1, <1>2, <1>4, <1>8, GoesIs, FailsIs DEF Start, RestartSucceeds
<1>9. ASSUME Waits(p)
      PROVE  /\ pulls[p].at = "wait"
             /\ \/ Up /\ Moves(p, "exit") /\ UNCHANGED <<spoilt, tried>>
                \/ ~Up /\ RestartFailed(p) /\ UNCHANGED failed
  BY <1>1, <1>2, <1>3, <1>9, GoesIs, FailsIs DEF Waits, RestartSucceeds, Up, Alive
<1> QED
  BY <1>5, <1>6, <1>7, <1>8, <1>9

\* The pulls that are about to stop the server still are.
StillStop ==
  \A q \in Puller : pulls[q].at = "stop" => pulls'[q].at = "stop"

LEMMA ServerStays ==
  ASSUME ServerOK, UNCHANGED <<fate, dist, srv>>, StillStop
  PROVE  ServerOK'
BY DEF ServerOK, StillStop, Alive, Up

\* A step of one pull that does not stop it.
LEMMA MovesElsewhere ==
  ASSUME NEW p \in Puller, pulls[p].at # "stop",
         \A q \in Puller \ {p} : pulls'[q] = pulls[q]
  PROVE  StillStop
BY DEF StillStop

LEMMA ServerElsewhere ==
  ASSUME UpdateTypeOK, UpdateTypeOK', HereOK, ServerOK, Elsewhere
  PROVE  ServerOK'
<1>1. /\ srv \in [id : 1 .. MaxStarts, up : {"no", "starting", "yes"}, running : Commit]
      /\ dist \in [code : Commit \cup {Absent}, stamp : Commit]
      /\ head \in Commit
  BY TypesAre DEF Processes, Checkout
<1>2. CASE Push \/ HandTurns
  BY <1>2, ServerStays DEF Push, HandTurns, StillStop
<1>3. CASE ServerBoots
  <2>1. UNCHANGED <<pulls, fate, dist>> /\ srv.up = "starting" /\ Alive
    BY <1>3 DEF ServerBoots, Alive
  <2>2. CASE srv' = [srv EXCEPT !.up = "no"]
    <3>1. ~Alive' /\ ~Up'
      BY <1>1, <2>2 DEF Alive, Up
    <3> QED
      BY <2>1, <3>1 DEF ServerOK
  <2>3. CASE Startable /\ srv' = [srv EXCEPT !.up = "yes"]
    <3>1. srv'.up = "yes" /\ srv'.running = srv.running
      BY <1>1, <2>3
    <3>2. srv.running = dist.stamp => fate[srv.running] = "good"
      BY <2>3 DEF Startable, ServerOK
    <3> QED
      BY <2>1, <3>1, <3>2 DEF ServerOK, Alive, Up
  <2> QED
    BY <1>3, <2>2, <2>3 DEF ServerBoots
<1>4. ASSUME NEW p \in Puller, HandPulls(p)
      PROVE  ServerOK'
  <2>1. 0 \in 0 .. MaxStarts
    BY PullAssumption
  <2>2. \A q \in Puller \ {p} : pulls'[q] = pulls[q]
    BY <1>4, <2>1, StartedIs DEF HandPulls
  <2>3. StillStop
    BY <1>4, <2>2, MovesElsewhere DEF HandPulls
  <2> QED
    BY <1>4, <2>3, ServerStays DEF HandPulls
<1>5. ASSUME NEW p \in Puller,
             \/ OpensLock(p) \/ WritesPid(p) \/ LooksAtLock(p) \/ RemovesLock(p) \/ Fetches(p)
      PROVE  ServerOK'
  <2>1. UNCHANGED <<fate, dist, srv>>
    BY <1>5 DEF OpensLock, WritesPid, LooksAtLock, RemovesLock, Fetches, OnlyLock
  <2>2. StillStop
    BY <1>5, LockSteps, MovesElsewhere DEF Moves
  <2> QED
    BY <2>1, <2>2, ServerStays
<1>6. ASSUME NEW p \in Puller, Merges(p)
      PROVE  ServerOK'
  <2>1. pulls[p].at = "merge" /\ \A q \in Puller \ {p} : pulls'[q] = pulls[q]
    BY <1>6, MergesIs, TypesAre DEF Moves, Processes, Checkout
  <2> QED
    BY <1>6, <2>1, MovesElsewhere, ServerStays DEF Merges
<1>7. ASSUME NEW p \in Puller, RollsBack(p)
      PROVE  ServerOK'
  <2>1. pulls[p].at = "back" /\ \A q \in Puller \ {p} : pulls'[q] = pulls[q]
    BY <1>7, RollsBackIs, TypesAre DEF Moves, Processes
  <2> QED
    BY <1>7, <2>1, MovesElsewhere, ServerStays DEF RollsBack
<1>8. ASSUME NEW p \in Puller, Installs(p)
      PROVE  ServerOK'
  <2>1. pulls[p].at = "install" /\ \A q \in Puller \ {p} : pulls'[q] = pulls[q]
    BY <1>8, RestartSteps DEF Moves
  <2> QED
    BY <1>8, <2>1, MovesElsewhere, ServerStays DEF Installs
<1>9. ASSUME NEW p \in Puller, Build(p)
      PROVE  ServerOK'
  <2>1. UNCHANGED <<fate, srv>> /\ pulls[p].at = "build"
    BY <1>9 DEF Build
  <2>2. CASE Moves(p, "stop") /\ dist' = [code |-> head, stamp |-> head]
    <3>1. StillStop /\ pulls'[p].at = "stop"
      BY <2>1, <2>2, MovesElsewhere DEF Moves
    <3>2. dist'.code = dist'.stamp
      BY <2>2
    <3> QED
      BY <2>1, <3>1, <3>2 DEF ServerOK, StillStop
  <2>3. CASE RestartFailed(p) /\ dist' = [dist EXCEPT !.code = Absent]
    <3>1. StillStop
      BY <2>1, <2>3, MovesElsewhere DEF Moves, RestartFailed
    <3>2. dist'.code = Absent /\ dist'.stamp = dist.stamp
      BY <1>1, <2>3
    <3> QED
      BY <2>1, <3>1, <3>2 DEF ServerOK, StillStop, Alive, Up
  <2> QED
    BY <1>9, <2>2, <2>3, RestartSteps
<1>10. ASSUME NEW p \in Puller, Start(p)
       PROVE  ServerOK'
  <2>1. UNCHANGED <<fate, dist>> /\ pulls[p].at = "start"
    BY <1>10, RestartSteps DEF Start
  <2>2. StillStop
    BY <1>10, <2>1, RestartSteps, MovesElsewhere DEF Moves
  <2>3. CASE UNCHANGED srv
    BY <2>1, <2>2, <2>3, ServerStays
  <2>4. CASE srv' = [id |-> srv.id + 1, up |-> "starting", running |-> dist.stamp]
    <3>1. srv'.up = "starting" /\ srv'.running = dist.stamp
      BY <2>4
    <3> QED
      BY <2>1, <2>2, <3>1 DEF ServerOK, Up
  <2> QED
    BY <1>10, <2>3, <2>4, RestartSteps
<1>11. ASSUME NEW p \in Puller, Waits(p)
       PROVE  ServerOK'
  <2>1. UNCHANGED <<fate, dist, srv>> /\ pulls[p].at = "wait"
    BY <1>11 DEF Waits
  <2>2. \A q \in Puller \ {p} : pulls'[q] = pulls[q]
    BY <1>11, RestartSteps DEF Moves, RestartFailed
  <2> QED
    BY <2>1, <2>2, MovesElsewhere, ServerStays
<1> QED
  BY <1>2, <1>3, <1>4, <1>5, <1>6, <1>7, <1>8, <1>9, <1>10, <1>11 DEF Elsewhere

LEMMA ServerStep ==
  ASSUME UpdateTypeOK, UpdateTypeOK', HereOK, ServerOK, [UpdateNext]_updateVars
  PROVE  ServerOK'
<1>1. srv \in [id : 1 .. MaxStarts, up : {"no", "starting", "yes"}, running : Commit]
  BY TypesAre DEF Processes
<1>2. ASSUME NEW p \in Puller, ServerStops(p)
      PROVE  ServerOK'
  <2>1. ~Alive' /\ ~Up' /\ UNCHANGED dist
    BY <1>1, <1>2, RestartSteps DEF ServerStops, Stop, Alive, Up
  <2> QED
    BY <2>1 DEF ServerOK
<1>3. ASSUME NEW p \in Puller, PullEnds(p)
      PROVE  ServerOK'
  <2>1. UNCHANGED <<fate, dist, srv>> /\ pulls[p].at \in {"exit", "refused"}
    BY <1>3 DEF PullEnds, Ends
  <2>2. \A q \in Puller \ {p} : pulls'[q] = pulls[q]
    BY <1>3, EndsIs DEF PullEnds
  <2> QED
    BY <2>1, <2>2, MovesElsewhere, ServerStays
<1>4. CASE RetryFires \/ CheckEnds \/ BannerHears \/ ClickAnswered \/ UNCHANGED updateVars
           \/ \E w \in Who : GoesOn(w) \/ Arrives(w)
  <2>1. UNCHANGED <<fate, dist, srv, pulls>>
    BY <1>4 DEF RetryFires, CheckEnds, BannerHears, ClickAnswered, updateVars, GoesOn, Arrives,
       OnlyBanner, pullVars
  <2> QED
    BY <2>1, ServerStays DEF StillStop
<1>5. CASE OthersAsk \/ BannerReads \/ BannerClicks \/ TimePasses \/ CheckFetches
  <2>1. UNCHANGED <<fate, dist, srv, pulls>>
    BY <1>5 DEF OthersAsk, BannerReads, BannerClicks, TimePasses, OnlyAsks, CheckFetches
  <2> QED
    BY <2>1, ServerStays DEF StillStop
<1>6. ASSUME NEW auto, auto \in BOOLEAN, OnlySpawn, Spawns(auto) \/ UNCHANGED pulls
      PROVE  ServerOK'
  <2>1. UNCHANGED <<fate, dist, srv>>
    BY <1>6 DEF OnlySpawn
  <2>2. StillStop
    BY <1>6, SpawnsIs, MovesElsewhere DEF StillStop
  <2> QED
    BY <2>1, <2>2, ServerStays
<1>7. ASSUME NEW w \in Who, StartGoesOn(w)
      PROVE  ServerOK'
  <2> DEFINE auto == asks[w].kind = "auto"
  <2>1. auto \in BOOLEAN /\ OnlySpawn /\ (Spawns(auto) \/ UNCHANGED pulls)
    BY <1>7 DEF StartGoesOn
  <2> HIDE DEF auto
  <2> QED
    BY <1>6, <2>1
<1>8. CASE AutoGoesOn
  <2>1. OnlySpawn /\ (Spawns(TRUE) \/ UNCHANGED pulls)
    BY <1>8 DEF AutoGoesOn
  <2> QED
    BY <1>6, <2>1
<1> QED
  BY <1>2, <1>3, <1>4, <1>5, <1>7, <1>8, ServerElsewhere DEF UpdateNext

\* The only pull that has got past the lock takes a step.
LEMMA WayGoesOn ==
  ASSUME Way, NEW p \in Past, \A q \in Puller \ {p} : pulls'[q] = pulls[q],
         pulls'[p].at \notin {"off", "open", "write", "look", "remove", "refused"}, OnWay(p)'
  PROVE  Way'
<1>1. Past = {p} /\ p \in Puller
  BY DEF Way, Past
<1>2. Past' = {p}
  BY <1>1 DEF Past
<1> HIDE DEF OnWay
<1> QED
  BY <1>2 DEF Way

\* A step that no pull past the lock, and nothing of what it works on, has a part in.
LEMMA WayIsLeft ==
  ASSUME Way, UNCHANGED <<fate, head, deps, dist, srv>>, Past' = Past,
         \A q \in Past : pulls'[q] = pulls[q]
  PROVE  Way'
<1>1. ASSUME NEW p \in Past
      PROVE  OnWay(p)'
  <2>1. OnWay(p) /\ pulls'[p] = pulls[p] /\ (p \in Moved' <=> p \in Moved)
    BY <1>1 DEF Way, Moved, Past
  <2> QED
    BY <2>1 DEF OnWay, There, Back, CanGoBack, LockChanged, Matches, Coming, Startable, Up, Alive
<1>2. Past = {} => Coming'
  BY DEF Way, Coming, Startable, Matches, Up
<1> HIDE DEF OnWay
<1> QED
  BY <1>1, <1>2 DEF Way

LEMMA WayBeforeTheLock ==
  ASSUME UpdateTypeOK, Way, NEW p \in Puller,
         pulls[p].at \in {"off", "open", "write", "look", "remove", "refused"},
         pulls'[p].at \in {"off", "open", "write", "look", "remove", "refused"},
         \A q \in Puller \ {p} : pulls'[q] = pulls[q], UNCHANGED <<fate, head, deps, dist, srv>>
  PROVE  Way'
<1>1. Past' = Past /\ \A q \in Past : pulls'[q] = pulls[q]
  BY DEF Past
<1> QED
  BY <1>1, WayIsLeft

LEMMA WayBoots ==
  ASSUME UpdateTypeOK, Way, ServerBoots
  PROVE  Way'
<1>1. UNCHANGED <<fate, head, deps, dist, pulls>> /\ srv.up = "starting" /\ Alive /\ ~Up
  BY DEF ServerBoots, checkoutVars, Alive, Up
<1>2. srv \in [id : 1 .. MaxStarts, up : {"no", "starting", "yes"}, running : Commit]
  BY TypesAre DEF Processes
<1>3. Startable /\ Matches(dist.code) => Coming' /\ Alive'
  <2> HAVE Startable /\ Matches(dist.code)
  <2>1. srv' = [srv EXCEPT !.up = "yes"]
    BY DEF ServerBoots
  <2> QED
    BY <1>2, <2>1 DEF Coming, Up, Alive
<1>4. Coming => Coming'
  BY <1>1, <1>3 DEF Coming
<1>5. ASSUME NEW p \in Past
      PROVE  OnWay(p)'
  <2>1. OnWay(p) /\ p \in Puller /\ (p \in Moved' <=> p \in Moved)
    BY <1>1, <1>5 DEF Way, Past, Moved
  <2>2. pulls[p].at # "start"
    BY <1>1, <2>1 DEF OnWay
  <2>3. There(p) => There(p)'
    BY <1>1, <1>4 DEF There, CanGoBack, LockChanged, Matches
  <2>4. Back(p) => Back(p)'
    <3> HAVE Back(p)
    <3>1. CASE pulls[p].at = "wait"
      <4>1. dist.code = head /\ fate[head] = "good" /\ Matches(head)
        BY <3>1 DEF Back, CanGoBack
      <4>2. head # Absent
        BY TypesAre, PullAssumption DEF Checkout
      <4>3. Alive'
        BY <1>3, <4>1, <4>2 DEF Startable
      <4> QED
        BY <1>1, <4>3 DEF Back, CanGoBack, LockChanged, Matches
    <3>2. CASE pulls[p].at # "wait"
      BY <1>1, <3>2 DEF Back, CanGoBack, LockChanged, Matches
    <3> QED
      BY <3>1, <3>2
  <2> HIDE DEF There, Back, Coming
  <2> QED
    BY <1>1, <1>4, <2>1, <2>2, <2>3, <2>4 DEF OnWay
<1>6. Past' = Past
  BY <1>1 DEF Past
<1> HIDE DEF OnWay, Coming
<1> QED
  BY <1>1, <1>4, <1>5, <1>6 DEF Way

LEMMA WayWrites ==
  ASSUME UpdateTypeOK, WayOK, NEW p \in Puller, WritesPid(p), spoilt' = {}
  PROVE  Way'
<1>1. Past \ {p} = {} /\ spoilt = {}
  BY DEF WritesPid
<1>2. pulls[p].at = "write" /\ Moves(p, "fetch") /\ UNCHANGED <<srv, dist, fate, deps>>
  BY LockSteps DEF WritesPid, checkoutVars
<1>3. Past = {} /\ Coming
  BY <1>1, <1>2 DEF Past, WayOK, Way
<1>4. Past' = {p} /\ p \notin Moved'
  BY <1>2, <1>3 DEF Past, Moves, Moved
<1>5. OnWay(p)'
  BY <1>2, <1>3, <1>4 DEF OnWay, Moves, Coming, Startable, Matches, Up
<1> HIDE DEF OnWay
<1> QED
  BY <1>4, <1>5 DEF Way

LEMMA WayFetches ==
  ASSUME UpdateTypeOK, Way, NEW p \in Puller, Fetches(p)
  PROVE  Way'
<1>1. /\ pulls[p].at = "fetch" /\ (Moves(p, "merge") \/ Moves(p, "exit"))
      /\ UNCHANGED <<srv, dist, fate, deps>>
  BY LockSteps DEF Fetches
<1>2. p \in Past /\ Coming
  BY <1>1 DEF Past, Way, OnWay
<1>3. OnWay(p)'
  BY <1>1, <1>2 DEF OnWay, Moves, Moved, Coming, Startable, Matches, Up
<1> HIDE DEF OnWay
<1> QED
  BY <1>1, <1>2, <1>3, WayGoesOn DEF Moves

LEMMA WayMerges ==
  ASSUME UpdateTypeOK, OriginOK, ServerOK, Way, NEW p \in Puller, Merges(p), spoilt' = {}
  PROVE  Way'
<1>1. /\ pulls[p].at = "merge" /\ pulls[p].round = 1 /\ UNCHANGED <<fate, deps, dist, srv>>
      /\ \A q \in Puller \ {p} : pulls'[q] = pulls[q]
      /\ pulls'[p].at \in {"exit", "install"}
  BY TypesAre, MergesIs DEF Merges, OriginOK, Moves, Processes, Checkout
<1>2. p \in Past /\ Coming /\ Coming'
  BY <1>1 DEF Past, Way, OnWay, Coming, Startable, Matches, Up
<1>3. CASE pulls'[p].at = "exit"
  <2>1. OnWay(p)'
    BY <1>2, <1>3 DEF OnWay, Moved
  <2> HIDE DEF OnWay
  <2> QED
    BY <1>1, <1>2, <1>3, <2>1, WayGoesOn
<1>4. CASE pulls'[p].at = "install"
  <2>1. /\ pulls'[p].before = head /\ pulls'[p].after = tracking /\ pulls'[p].round = 1
        /\ head' = tracking
    BY <1>1, <1>4, TypesAre, MergesIs DEF Moves, Processes, Checkout
  <2>2. head # tracking => fate[head] = "good" /\ Matches(head)
    <3> HAVE head # tracking
    <3>1. head = srv.running /\ Matches(head)
      BY <2>1 DEF Merges
    <3>2. ~\E q \in Puller : pulls[q].at = "stop"
      BY <1>1, <1>2 DEF Way, Past
    <3> QED
      BY <1>2, <3>1, <3>2 DEF ServerOK, Coming, Startable, Alive, Up
  <2>3. There(p)'
    BY <1>1, <1>2, <2>1, <2>2 DEF There, CanGoBack, Matches
  <2>4. OnWay(p)'
    BY <1>4, <2>1, <2>3 DEF OnWay
  <2> HIDE DEF OnWay
  <2> QED
    BY <1>1, <1>2, <1>4, <2>4, WayGoesOn
<1> QED
  BY <1>1, <1>3, <1>4

LEMMA WayInstalls ==
  ASSUME UpdateTypeOK, HereOK, Way, NEW p \in Puller, Installs(p), spoilt' = {}
  PROVE  Way'
<1>1. pulls[p].at = "install" /\ UNCHANGED <<fate, head, dist, srv>>
  BY DEF Installs
<1>2. p \in Past /\ p \in Moved
  BY <1>1 DEF Past, Moved
<1>3. pulls[p].round \in 1 .. 2
  BY TypesAre DEF Processes, Pulls, PullRecord
<1>4. CASE Moves(p, "exit")
  <2>1. pulls[p].round = 1
    BY <1>3, <1>4, RestartSteps DEF Moves
  <2>2. Coming'
    <3>1. UNCHANGED deps
      BY <1>4, RestartSteps DEF Moves
    <3> QED
      BY <1>1, <1>2, <2>1, <3>1 DEF Way, OnWay, There, Coming, Startable, Matches, Up
  <2>3. OnWay(p)'
    BY <1>4, <2>2 DEF OnWay, Moves, Moved
  <2> HIDE DEF OnWay
  <2> QED
    BY <1>2, <1>4, <2>3, WayGoesOn DEF Moves
<1>5. CASE Moves(p, "build") /\ deps' = IF LockChanged(p) THEN Lockfile[head] ELSE deps
  <2>1. CASE pulls[p].round = 1
    <3>1. There(p)
      BY <1>2, <2>1 DEF Way, OnWay
    <3>2. There(p)'
      BY <1>1, <1>5, <3>1 DEF There, CanGoBack, LockChanged, Matches, Moves
    <3>3. OnWay(p)'
      BY <1>5, <2>1, <3>2 DEF OnWay, Moves
    <3> HIDE DEF OnWay
    <3> QED
      BY <1>2, <1>5, <3>3, WayGoesOn DEF Moves
  <2>2. CASE pulls[p].round # 1
    <3>1. Back(p)
      BY <1>2, <2>2 DEF Way, OnWay
    <3>2. Back(p)'
      BY <1>1, <1>5, <3>1 DEF Back, CanGoBack, LockChanged, Matches, Moves
    <3>3. OnWay(p)'
      BY <1>5, <2>2, <3>2 DEF OnWay, Moves
    <3> HIDE DEF OnWay
    <3> QED
      BY <1>2, <1>5, <3>3, WayGoesOn DEF Moves
  <2> QED
    BY <2>1, <2>2
<1> QED
  BY <1>4, <1>5, RestartSteps

\* A restart that goes wrong on the way there, with a commit to go back to.
LEMMA WayFails ==
  ASSUME UpdateTypeOK, Way, NEW p \in Past, p \in Moved, RestartFailed(p), spoilt' = {},
         pulls[p].round = 1, UNCHANGED <<fate, deps>>
  PROVE  Way'
<1>1. Moves(p, "back") /\ pulls[p].before # pulls[p].after
  BY DEF RestartFailed
<1>2. There(p)
  BY DEF Way, OnWay
<1>3. There(p)'
  BY <1>1, <1>2 DEF There, CanGoBack, LockChanged, Matches, Moves
<1>4. OnWay(p)'
  BY <1>1, <1>3 DEF OnWay, Moves
<1> HIDE DEF OnWay
<1> QED
  BY <1>1, <1>4, WayGoesOn DEF Moves

LEMMA WayBuilds ==
  ASSUME UpdateTypeOK, HereOK, Way, NEW p \in Puller, Build(p), spoilt' = {}
  PROVE  Way'
<1>1. pulls[p].at = "build" /\ UNCHANGED <<fate, head, deps, srv>>
  BY DEF Build, checkoutVars
<1>2. p \in Past /\ p \in Moved
  BY <1>1 DEF Past, Moved
<1>3. CASE pulls[p].round = 1
  <2>1. There(p)
    BY <1>2, <1>3 DEF Way, OnWay
  <2>2. CASE Moves(p, "stop")
    <3>1. There(p)'
      BY <1>1, <2>1, <2>2 DEF There, CanGoBack, LockChanged, Matches, Moves
    <3>2. OnWay(p)'
      BY <1>3, <2>2, <3>1 DEF OnWay, Moves
    <3> HIDE DEF OnWay
    <3> QED
      BY <1>2, <2>2, <3>2, WayGoesOn DEF Moves
  <2>3. CASE RestartFailed(p)
    BY <1>1, <1>2, <1>3, <2>3, WayFails
  <2> QED
    BY <2>2, <2>3, RestartSteps
<1>4. CASE pulls[p].round # 1
  <2>1. Back(p)
    BY <1>2, <1>4 DEF Way, OnWay
  <2>2. Matches(head) /\ fate[head] = "good"
    BY <1>1, <2>1 DEF Back, CanGoBack
  <2>3. Moves(p, "stop") /\ dist' = [code |-> head, stamp |-> head]
    BY <2>2, RestartSteps
  <2>4. dist'.code = head'
    BY <1>1, <2>3
  <2>5. Back(p)'
    BY <1>1, <2>1, <2>2, <2>3, <2>4 DEF Back, CanGoBack, LockChanged, Matches, Moves
  <2>6. OnWay(p)'
    BY <1>4, <2>3, <2>5 DEF OnWay, Moves
  <2> HIDE DEF OnWay
  <2> QED
    BY <1>2, <2>3, <2>6, WayGoesOn DEF Moves
<1> QED
  BY <1>3, <1>4

LEMMA WayStops ==
  ASSUME UpdateTypeOK, HereOK, Way, NEW p \in Puller, Stop(p)
  PROVE  Way'
<1>1. pulls[p].at = "stop" /\ UNCHANGED <<fate, head, deps, dist>> /\ Moves(p, "start") /\ ~Alive'
  <2>1. srv \in [id : 1 .. MaxStarts, up : {"no", "starting", "yes"}, running : Commit]
    BY TypesAre DEF Processes
  <2>2. pulls[p].at = "stop" /\ UNCHANGED <<fate, head, deps, dist>>
    BY DEF Stop, checkoutVars
  <2> QED
    BY <2>1, <2>2, RestartSteps DEF Alive
<1>2. p \in Past /\ p \in Moved
  BY <1>1 DEF Past, Moved
<1>3. IF pulls[p].round = 1 THEN There(p) ELSE Back(p)
  BY <1>2 DEF Way, OnWay
<1>4. IF pulls'[p].round = 1 THEN There(p)' ELSE Back(p)'
  BY <1>1, <1>3 DEF There, Back, CanGoBack, LockChanged, Matches, Moves
<1>5. OnWay(p)'
  BY <1>1, <1>4 DEF OnWay, Moves
<1> HIDE DEF OnWay
<1> QED
  BY <1>1, <1>2, <1>5, WayGoesOn DEF Moves

LEMMA WayStarts ==
  ASSUME UpdateTypeOK, HereOK, Way, NEW p \in Puller, Start(p)
  PROVE  Way'
<1>1. pulls[p].at = "start" /\ UNCHANGED <<fate, head, deps, dist>>
  BY DEF Start, checkoutVars
<1>2. p \in Past /\ p \in Moved
  BY <1>1 DEF Past, Moved
<1>3. ~Alive /\ (IF pulls[p].round = 1 THEN There(p) ELSE Back(p))
  BY <1>1, <1>2 DEF Way, OnWay
<1>4. Moves(p, "wait") /\ srv' = [id |-> srv.id + 1, up |-> "starting", running |-> dist.stamp]
  BY <1>3, RestartSteps
<1>5. Alive'
  BY <1>4 DEF Alive
<1>6. IF pulls'[p].round = 1 THEN There(p)' ELSE Back(p)'
  BY <1>1, <1>3, <1>4, <1>5 DEF There, Back, CanGoBack, LockChanged, Matches, Moves
<1>7. OnWay(p)'
  BY <1>4, <1>6 DEF OnWay, Moves
<1> HIDE DEF OnWay
<1> QED
  BY <1>2, <1>4, <1>7, WayGoesOn DEF Moves

LEMMA WayWaits ==
  ASSUME UpdateTypeOK, HereOK, Way, NEW p \in Puller, Waits(p), spoilt' = {}
  PROVE  Way'
<1>1. pulls[p].at = "wait" /\ UNCHANGED <<fate, head, deps, dist, srv>>
  BY DEF Waits, checkoutVars
<1>2. p \in Past /\ p \in Moved
  BY <1>1 DEF Past, Moved
<1>3. CASE Up /\ Moves(p, "exit")
  <2>1. OnWay(p)'
    BY <1>1, <1>3 DEF OnWay, Moves, Moved, Coming, Up
  <2> HIDE DEF OnWay
  <2> QED
    BY <1>2, <1>3, <2>1, WayGoesOn DEF Moves
<1>4. CASE ~Up /\ RestartFailed(p)
  <2>1. CASE pulls[p].round = 1
    BY <1>1, <1>2, <1>4, <2>1, WayFails
  <2>2. CASE pulls[p].round # 1
    <3>1. Back(p) /\ Alive
      BY <1>1, <1>2, <2>2 DEF Way, OnWay, Back
    <3>2. dist.code = head /\ fate[head] = "good" /\ Matches(head)
      BY <1>1, <3>1 DEF Back, CanGoBack
    <3>3. head # Absent
      BY TypesAre, PullAssumption DEF Checkout
    <3>4. srv.up = "starting"
      BY <1>4, <3>1, TypesAre DEF Processes, Alive, Up
    <3>5. Coming'
      BY <1>1, <3>2, <3>3, <3>4 DEF Coming, Startable, Matches, Up
    <3>6. Moves(p, "exit")
      BY <2>2, <1>4, TypesAre DEF RestartFailed, Processes, Pulls, PullRecord
    <3>7. OnWay(p)'
      BY <3>5, <3>6 DEF OnWay, Moves, Moved
    <3> HIDE DEF OnWay
    <3> QED
      BY <1>2, <3>6, <3>7, WayGoesOn DEF Moves
  <2> QED
    BY <2>1, <2>2
<1> QED
  BY <1>3, <1>4, RestartSteps

LEMMA WayRollsBack ==
  ASSUME UpdateTypeOK, OriginOK, Way, NEW p \in Puller, RollsBack(p), spoilt' = {}
  PROVE  Way'
<1>1. pulls[p].at = "back" /\ pulls[p].round = 1 /\ pulls[p].before # pulls[p].after
      /\ UNCHANGED <<fate, deps>>
  BY DEF RollsBack, OriginOK
<1>2. p \in Past /\ p \in Moved
  BY <1>1 DEF Past, Moved
<1>3. CanGoBack(p)
  BY <1>1, <1>2 DEF Way, OnWay, There
<1>4. /\ head' = pulls[p].before /\ pulls'[p].at = "install" /\ pulls'[p].round = 2
      /\ pulls'[p].before = pulls[p].before /\ pulls'[p].after = pulls[p].after
      /\ \A q \in Puller \ {p} : pulls'[q] = pulls[q]
  BY TypesAre, RollsBackIs DEF Processes
<1>5. Back(p)'
  BY <1>1, <1>3, <1>4 DEF Back, CanGoBack, LockChanged, Matches
<1>6. OnWay(p)'
  BY <1>4, <1>5 DEF OnWay
<1> HIDE DEF OnWay
<1> QED
  BY <1>2, <1>4, <1>6, WayGoesOn

LEMMA WayEnds ==
  ASSUME UpdateTypeOK, WayOK, NEW p \in Puller, Ends(p), spoilt' = {}
  PROVE  Way'
<1>1. /\ UNCHANGED <<fate, head, deps, dist, srv>> /\ pulls[p].at \in {"exit", "refused"}
      /\ pulls'[p] = Off /\ \A q \in Puller \ {p} : pulls'[q] = pulls[q]
  BY EndsIs DEF Ends, checkoutVars
<1>2. Off.at = "off"
  BY DEF Off
<1> HIDE DEF Off
<1>3. p \notin Past' /\ \A q \in Puller \ {p} : q \in Past' <=> q \in Past
  BY <1>1, <1>2 DEF Past
<1>4. CASE Going = {p} /\ Up
  <2>1. Past' = {}
    BY <1>3, <1>4 DEF Past, Going
  <2>2. Coming'
    BY <1>1, <1>4 DEF Coming, Up
  <2> QED
    BY <2>1, <2>2 DEF Way
<1>5. CASE spoilt = {} /\ pulls[p].at = "refused"
  BY <1>1, <1>2, <1>5, WayBeforeTheLock DEF WayOK
<1>6. CASE spoilt = {} /\ pulls[p].at = "exit"
  <2>1. p \in Past /\ Past \subseteq {p} /\ Coming
    BY <1>1, <1>6 DEF WayOK, Way, OnWay, Past
  <2>2. Past' = {}
    BY <1>3, <2>1 DEF Past
  <2>3. Coming'
    BY <1>1, <2>1 DEF Coming, Startable, Matches, Up
  <2> QED
    BY <2>2, <2>3 DEF Way
<1> QED
  BY <1>1, <1>4, <1>5, <1>6 DEF Ends

LEMMA WayElsewhere ==
  ASSUME UpdateTypeOK, OriginOK, HereOK, ServerOK, WayOK, Elsewhere
  PROVE  WayOK'
<1> SUFFICES ASSUME spoilt' = {} PROVE Way'
  BY DEF WayOK
<1>1. spoilt = {}
  <2>1. spoilt \subseteq spoilt'
    <3>1. ASSUME NEW p \in Puller, RestartFails(p) \/ RestartSucceeds(p)
          PROVE  spoilt \subseteq spoilt'
      BY <3>1 DEF RestartFails, RestartSucceeds
    <3> QED
      BY <3>1 DEF Elsewhere, Push, HandTurns, ServerBoots, HandPulls, OpensLock, WritesPid,
         LooksAtLock,
         RemovesLock, OnlyLock, Fetches, Merges, Installs, Build, Start, Waits, RollsBack
  <2> QED
    BY <2>1
<1>2. Way
  BY <1>1 DEF WayOK
<1>3. CASE Push
  <2>1. UNCHANGED <<fate, head, deps, dist, srv, pulls>>
    BY <1>3 DEF Push
  <2> QED
    BY <1>2, <2>1, WayIsLeft DEF Past
<1>4. CASE HandTurns
  <2>1. Going = {} /\ UNCHANGED <<srv, pulls, dist, fate, deps>>
    BY <1>4 DEF HandTurns
  <2>2. Past = {} /\ Past' = {}
    BY <2>1 DEF Going, Past
  <2>3. Coming'
    BY <1>2, <2>1, <2>2 DEF Way, Coming, Startable, Matches, Up
  <2> QED
    BY <2>2, <2>3 DEF Way
<1>5. ASSUME NEW p \in Puller, HandPulls(p)
      PROVE  Way'
  <2>1. 0 \in 0 .. MaxStarts
    BY PullAssumption
  <2>2. pulls'[p].at = "open" /\ pulls[p].at = "off" /\ \A q \in Puller \ {p} : pulls'[q] = pulls[q]
    BY <1>5, <2>1, StartedIs DEF HandPulls
  <2>3. UNCHANGED <<fate, head, deps, dist, srv>>
    BY <1>5 DEF HandPulls, checkoutVars
  <2> QED
    BY <1>2, <2>2, <2>3, WayBeforeTheLock
<1>6. ASSUME NEW p \in Puller, OpensLock(p) \/ LooksAtLock(p) \/ RemovesLock(p)
      PROVE  Way'
  <2>1. UNCHANGED <<fate, head, deps, dist, srv>>
    BY <1>6 DEF OpensLock, LooksAtLock, RemovesLock, OnlyLock, checkoutVars
  <2>2. /\ pulls[p].at \in {"off", "open", "write", "look", "remove", "refused"}
        /\ pulls'[p].at \in {"off", "open", "write", "look", "remove", "refused"}
        /\ \A q \in Puller \ {p} : pulls'[q] = pulls[q]
    BY <1>6, LockSteps DEF Moves
  <2> QED
    BY <1>2, <2>1, <2>2, WayBeforeTheLock
<1> QED
  BY <1>2, <1>3, <1>4, <1>5, <1>6, WayBoots, WayWrites, WayFetches, WayMerges, WayInstalls,
     WayBuilds,
     WayStarts, WayWaits, WayRollsBack DEF Elsewhere

LEMMA WayStep ==
  ASSUME UpdateTypeOK, OriginOK, HereOK, ServerOK, WayOK, [UpdateNext]_updateVars
  PROVE  WayOK'
<1>1. ASSUME NEW p \in Puller, ServerStops(p)
      PROVE  WayOK'
  <2>1. UNCHANGED spoilt /\ Stop(p)
    BY <1>1 DEF ServerStops, Stop
  <2> QED
    BY <2>1, WayStops DEF WayOK
<1>2. ASSUME NEW p \in Puller, PullEnds(p)
      PROVE  WayOK'
  BY <1>2, WayEnds DEF PullEnds, WayOK
<1>3. ASSUME UNCHANGED <<fate, head, deps, dist, srv, spoilt, pulls>>
      PROVE  WayOK'
  BY <1>3, WayIsLeft DEF WayOK, Past
<1>4. CASE RetryFires \/ CheckEnds \/ BannerHears \/ ClickAnswered \/ UNCHANGED updateVars
           \/ \E w \in Who : GoesOn(w) \/ Arrives(w)
  <2>1. UNCHANGED <<fate, head, deps, dist, srv, spoilt, pulls>>
    BY <1>4 DEF RetryFires, CheckEnds, BannerHears, ClickAnswered, updateVars, GoesOn, Arrives,
       OnlyBanner,
       pullVars, checkoutVars
  <2> QED
    BY <1>3, <2>1
<1>5. CASE OthersAsk \/ BannerReads \/ BannerClicks \/ TimePasses \/ CheckFetches
  <2>1. UNCHANGED <<fate, head, deps, dist, srv, spoilt, pulls>>
    BY <1>5 DEF OthersAsk, BannerReads, BannerClicks, TimePasses, OnlyAsks, CheckFetches,
       checkoutVars
  <2> QED
    BY <1>3, <2>1
<1>6. ASSUME NEW auto, auto \in BOOLEAN, OnlySpawn, Spawns(auto) \/ UNCHANGED pulls
      PROVE  WayOK'
  <2>1. UNCHANGED <<fate, head, deps, dist, srv, spoilt>>
    BY <1>6 DEF OnlySpawn, checkoutVars
  <2>2. CASE Spawns(auto)
    <3>1. PICK p \in Puller :
            /\ pulls[p].at = "off" /\ pulls'[p].at = "open"
            /\ \A q \in Puller \ {p} : pulls'[q] = pulls[q]
      BY <1>6, <2>2, SpawnsIs
    <3> QED
      BY <2>1, <3>1, WayBeforeTheLock DEF WayOK
  <2> QED
    BY <1>3, <1>6, <2>1, <2>2
<1>7. ASSUME NEW w \in Who, StartGoesOn(w)
      PROVE  WayOK'
  <2> DEFINE auto == asks[w].kind = "auto"
  <2>1. auto \in BOOLEAN /\ OnlySpawn /\ (Spawns(auto) \/ UNCHANGED pulls)
    BY <1>7 DEF StartGoesOn
  <2> HIDE DEF auto
  <2> QED
    BY <1>6, <2>1
<1>8. CASE AutoGoesOn
  <2>1. OnlySpawn /\ (Spawns(TRUE) \/ UNCHANGED pulls)
    BY <1>8 DEF AutoGoesOn
  <2> QED
    BY <1>6, <2>1
<1> QED
  BY <1>1, <1>2, <1>4, <1>5, <1>7, <1>8, WayElsewhere DEF UpdateNext

LEMMA WayBegins == UpdateInit => ServerOK /\ WayOK
<1> SUFFICES ASSUME UpdateInit PROVE ServerOK /\ WayOK
  OBVIOUS
<1>1. pulls = [p \in Puller |-> Off] /\ Off.at = "off"
  BY DEF UpdateInit, PullInit, Off
<1> HIDE DEF Off
<1>2. \A p \in Puller : pulls[p].at = "off"
  BY <1>1
<1>3. /\ srv = [id |-> 1, up |-> "yes", running |-> 0] /\ dist = [code |-> 0, stamp |-> 0]
      /\ fate \in Fates
  BY DEF UpdateInit, PullInit
<1>4. fate[0] = "good"
  BY <1>3, PullAssumption
<1>5. Up /\ srv.up = "yes" /\ srv.running = 0 /\ dist.code = 0 /\ dist.stamp = 0
  BY <1>3 DEF Up
<1>6. Past = {}
  BY <1>2 DEF Past
<1> QED
  BY <1>4, <1>5, <1>6 DEF ServerOK, WayOK, Way, Coming

\* A pull that ends leaves a server running, whatever the commit it pulled, unless one
\* of the four things ComesBack names spoilt its way back (pull.js, service.js).
THEOREM ServerComesBack == UpdateSpec => []ComesBack
<1>1. UpdateInit => UpdateTypeOK /\ OriginOK /\ HereOK /\ ServerOK /\ WayOK
  BY TypesBegin, LineBegins, WaitBegins, WayBegins
<1>2. /\ UpdateTypeOK /\ OriginOK /\ HereOK /\ ServerOK /\ WayOK /\ [UpdateNext]_updateVars
      => (UpdateTypeOK /\ OriginOK /\ HereOK /\ ServerOK /\ WayOK)'
  BY TypesStep, LineStep, HereStep, ServerStep, WayStep
<1>3. WayOK => ComesBack
  BY DEF WayOK, Way, ComesBack, Past, Going, Coming, Up, Alive
<1> QED
  BY <1>1, <1>2, <1>3, PTL DEF UpdateSpec

(***************************************************************************)
(* The update: whose pull it is, and what the server remembers.            *)
(***************************************************************************)

\* What the page, the requests and the check do leaves the pulls alone.
Aside ==
  \/ RetryFires \/ OthersAsk \/ CheckFetches \/ CheckEnds \/ BannerReads \/ BannerClicks
  \/ BannerHears \/ ClickAnswered \/ TimePasses \/ UNCHANGED updateVars
  \/ \E w \in Who : GoesOn(w) \/ Arrives(w)

LEMMA AsideIs ==
  ASSUME Aside
  PROVE  /\ UNCHANGED <<fate, origin, head, deps, dist, failed, srv, run, pulls, spoilt, tried,
                        passed, met, state>>
         /\ tracking' \in {tracking, origin}
BY DEF Aside, RetryFires, OthersAsk, CheckFetches, CheckEnds, BannerReads, BannerClicks,
       BannerHears, ClickAnswered, TimePasses, updateVars, GoesOn, Arrives, OnlyAsks, OnlyBanner,
       pullVars, checkoutVars, company, memory

\* A server that starts a pull.
Begins == AutoGoesOn \/ \E w \in Who : StartGoesOn(w)

\* Who may have a pull started that nobody asked for.
Decided == autos > 0 \/ asks["retry"].at # ""

LEMMA BeginsIs ==
  ASSUME UpdateTypeOK, \A w \in Who : asks[w].kind = "auto" => w = "retry", Begins
  PROVE  /\ Up
         /\ UNCHANGED <<fate, origin, tracking, head, deps, dist, failed, srv, run, spoilt, tried,
                        met, checked, stale>>
         /\ \/ UNCHANGED <<pulls, passed, state>>
            \/ /\ MayStart
               /\ \E p \in Puller :
                   /\ pulls' \in Pulls
                   /\ pulls[p].at = "off" /\ pulls'[p].at = "open" /\ pulls'[p].by = srv.id
                   /\ pulls'[p].round = 1
                   /\ pulls'[p].auto => Decided
                   /\ \A q \in Puller \ {p} : pulls'[q] = pulls[q]
                   /\ passed' = IF Past = {} THEN passed \ {p} ELSE passed \cup {p}
                   /\ state' = "updating"
<1>1. Up /\ OnlySpawn
  BY DEF Begins, AutoGoesOn, StartGoesOn
<1>2. UNCHANGED <<fate, origin, tracking, head, deps, dist, failed, srv, run, spoilt, tried,
                  checked, stale>>
  BY <1>1 DEF OnlySpawn, checkoutVars
<1>3. \/ UNCHANGED <<pulls, company, state>>
      \/ MayStart /\ \E auto : auto \in BOOLEAN /\ Spawns(auto) /\ (auto => Decided)
  <2>1. CASE AutoGoesOn
    <3>1. (MayStart /\ Spawns(TRUE)) \/ UNCHANGED <<pulls, company, state>>
      BY <2>1 DEF AutoGoesOn
    <3>2. Decided
      BY <2>1 DEF AutoGoesOn, Decided
    <3> QED
      BY <3>1, <3>2
  <2>2. ASSUME NEW w \in Who, StartGoesOn(w)
        PROVE  \/ UNCHANGED <<pulls, company, state>>
               \/ MayStart /\ \E auto : auto \in BOOLEAN /\ Spawns(auto) /\ (auto => Decided)
    <3> DEFINE auto == asks[w].kind = "auto"
    <3>1. (MayStart /\ Spawns(auto)) \/ UNCHANGED <<pulls, company, state>>
      BY <2>2 DEF StartGoesOn
    <3>2. asks[w].at = "going"
      BY <2>2 DEF StartGoesOn
    <3>3. auto \in BOOLEAN /\ (auto => Decided)
      BY <3>2 DEF Decided
    <3> HIDE DEF auto
    <3> QED
      BY <3>1, <3>3
  <2> QED
    BY <2>1, <2>2 DEF Begins
<1>4. CASE UNCHANGED <<pulls, company, state>>
  BY <1>1, <1>2, <1>4 DEF company
<1>5. CASE MayStart /\ \E auto : auto \in BOOLEAN /\ Spawns(auto) /\ (auto => Decided)
  <2>1. PICK auto : auto \in BOOLEAN /\ Spawns(auto) /\ (auto => Decided)
    BY <1>5
  <2>2. PICK p \in Puller :
           /\ pulls' \in Pulls
           /\ pulls[p].at = "off" /\ pulls'[p].at = "open" /\ pulls'[p].by = srv.id
           /\ pulls'[p].auto = auto /\ pulls'[p].round = 1
           /\ \A q \in Puller \ {p} : pulls'[q] = pulls[q]
           /\ passed' = IF Past = {} THEN passed \ {p} ELSE passed \cup {p}
           /\ UNCHANGED met /\ state' = "updating"
    BY <2>1, SpawnsIs
  <2>3. pulls'[p].auto => Decided
    BY <2>1, <2>2
  <2> QED
    BY <1>1, <1>2, <1>5, <2>2, <2>3
<1> QED
  BY <1>3, <1>4, <1>5

\* A step of a pull that has begun and goes on.
LEMMA ChildMoves ==
  ASSUME ChildOK, NEW p \in Puller, pulls[p].at # "off", pulls'[p].by = pulls[p].by,
         \A q \in Puller \ {p} : pulls'[q] = pulls[q], UNCHANGED <<srv, state>>
  PROVE  ChildOK'
<1>1. \A q \in Puller : pulls'[q].by = pulls[q].by
  OBVIOUS
<1>2. Going' \subseteq Going
  BY DEF Going
<1> QED
  BY <1>1, <1>2 DEF ChildOK, Going, Up

LEMMA ChildStays ==
  ASSUME ChildOK, UNCHANGED <<srv, pulls, state>>
  PROVE  ChildOK'
BY DEF ChildOK, Going, Up

LEMMA ChildElsewhere ==
  ASSUME UpdateTypeOK, HereOK, ChildOK, Elsewhere, UNCHANGED state
  PROVE  ChildOK'
<1>1. /\ srv \in [id : 1 .. MaxStarts, up : {"no", "starting", "yes"}, running : Commit]
      /\ \A q \in Puller : pulls[q].by \in Nat
      /\ srv.id \in Nat /\ srv.id > 0
  BY TypesAre, PullAssumption DEF Processes, Pulls, PullRecord
<1>2. CASE Push \/ HandTurns
  BY <1>2, ChildStays DEF Push, HandTurns
<1>3. CASE ServerBoots
  <2>1. UNCHANGED pulls /\ srv.up = "starting" /\ srv'.id = srv.id /\ srv'.up \in {"yes", "no"}
    BY <1>1, <1>3 DEF ServerBoots
  <2>2. \A q \in Puller : pulls[q].by < srv.id
    BY <2>1 DEF ChildOK
  <2> QED
    BY <1>1, <2>1, <2>2 DEF ChildOK, Going
<1>4. ASSUME NEW p \in Puller, HandPulls(p)
      PROVE  ChildOK'
  <2>1. 0 \in 0 .. MaxStarts
    BY PullAssumption
  <2>2. pulls'[p].by = 0 /\ \A q \in Puller \ {p} : pulls'[q] = pulls[q]
    BY <1>4, <2>1, StartedIs DEF HandPulls
  <2>3. UNCHANGED srv
    BY <1>4 DEF HandPulls
  <2> QED
    BY <1>1, <2>2, <2>3 DEF ChildOK, Going, Up
<1>5. ASSUME NEW p \in Puller,
             \/ OpensLock(p) \/ WritesPid(p) \/ LooksAtLock(p) \/ RemovesLock(p) \/ Fetches(p)
      PROVE  ChildOK'
  <2>1. UNCHANGED srv
    BY <1>5 DEF OpensLock, WritesPid, LooksAtLock, RemovesLock, Fetches, OnlyLock
  <2> QED
    BY <1>5, <2>1, LockSteps, ChildMoves DEF Moves
<1>6. ASSUME NEW p \in Puller, Merges(p)
      PROVE  ChildOK'
  BY <1>6, MergesIs, ChildMoves, TypesAre DEF Moves, Processes, Checkout, Merges
<1>7. ASSUME NEW p \in Puller, RollsBack(p)
      PROVE  ChildOK'
  BY <1>7, RollsBackIs, ChildMoves, TypesAre DEF Moves, Processes, RollsBack
<1>8. ASSUME NEW p \in Puller, Installs(p) \/ Build(p) \/ Waits(p)
      PROVE  ChildOK'
  <2>1. UNCHANGED srv
    BY <1>8 DEF Installs, Build, Waits
  <2> QED
    BY <1>8, <2>1, RestartSteps, ChildMoves DEF Moves, RestartFailed
<1>9. ASSUME NEW p \in Puller, Start(p)
      PROVE  ChildOK'
  <2>1. pulls[p].at = "start" /\ (Moves(p, "wait") \/ Moves(p, "exit"))
    BY <1>9, RestartSteps
  <2>2. CASE UNCHANGED srv
    BY <2>1, <2>2, ChildMoves DEF Moves
  <2>3. CASE srv' = [id |-> srv.id + 1, up |-> "starting", running |-> dist.stamp]
    <3>1. srv'.id = srv.id + 1 /\ srv'.up = "starting"
      BY <2>3
    <3>2. \A q \in Puller : pulls'[q].by = pulls[q].by /\ pulls[q].by <= srv.id
      BY <2>1 DEF Moves, ChildOK
    <3>3. \A q \in Puller : pulls'[q].by < srv'.id
      BY <1>1, <3>1, <3>2
    <3>4. \A q \in Puller : pulls'[q].by <= srv'.id /\ pulls'[q].by # srv'.id
      BY <1>1, <3>1, <3>2
    <3>5. \A q \in Going' : q \in Puller
      BY DEF Going
    <3> QED
      BY <3>3, <3>4, <3>5 DEF ChildOK
  <2> QED
    BY <1>9, <2>2, <2>3, RestartSteps
<1> QED
  BY <1>2, <1>3, <1>4, <1>5, <1>6, <1>7, <1>8, <1>9 DEF Elsewhere

LEMMA ChildStep ==
  ASSUME UpdateTypeOK, HereOK, MemoryOK, ChildOK, [UpdateNext]_updateVars
  PROVE  ChildOK'
<1>1. /\ srv \in [id : 1 .. MaxStarts, up : {"no", "starting", "yes"}, running : Commit]
      /\ srv.id \in Nat /\ srv.id > 0
  BY TypesAre, PullAssumption DEF Processes
<1>2. CASE Elsewhere /\ OnlyPull
  BY <1>2, ChildElsewhere DEF OnlyPull, memory
<1>3. ASSUME NEW p \in Puller, ServerStops(p)
      PROVE  ChildOK'
  <2>1. /\ Moves(p, "start") /\ pulls[p].at = "stop" /\ ~Up' /\ srv'.id = srv.id
        /\ srv'.up # "starting"
    BY <1>1, <1>3, RestartSteps DEF ServerStops, Alive, Up
  <2>2. \A q \in Puller : pulls'[q].by = pulls[q].by
    BY <2>1 DEF Moves
  <2>3. \A q \in Going' : q \in Going /\ q \in Puller
    BY <2>1 DEF Going, Moves
  <2>4. \A q \in Puller : pulls'[q].by <= srv'.id
    BY <2>1, <2>2 DEF ChildOK
  <2>5. \A q, r \in Going' : pulls'[q].by = srv'.id /\ pulls'[r].by = srv'.id => q = r
    BY <2>1, <2>2, <2>3 DEF ChildOK
  <2> QED
    BY <2>1, <2>4, <2>5 DEF ChildOK
<1>4. ASSUME NEW p \in Puller, PullEnds(p)
      PROVE  ChildOK'
  <2>1. /\ pulls[p].at \in {"exit", "refused"} /\ pulls'[p] = Off
        /\ \A q \in Puller \ {p} : pulls'[q] = pulls[q]
        /\ UNCHANGED srv
    BY <1>4, EndsIs DEF PullEnds, Ends
  <2>2. Off.at = "off" /\ Off.by = 0
    BY DEF Off
  <2> HIDE DEF Off
  <2>3. Going' = Going \ {p} /\ p \in Going
    BY <2>1, <2>2 DEF Going
  <2>4. state' = state \/ (Up /\ pulls[p].by = srv.id)
    BY <1>4 DEF PullEnds, memory
  <2> QED
    BY <1>1, <2>1, <2>2, <2>3, <2>4 DEF ChildOK, Going, Up
<1>5. CASE Aside
  BY <1>5, AsideIs, ChildStays
<1>6. CASE Begins
  <2>1. \A w \in Who : asks[w].kind = "auto" => w = "retry"
    BY DEF MemoryOK
  <2>2. Up /\ UNCHANGED srv
    BY <1>6, <2>1, BeginsIs
  <2>3. CASE UNCHANGED <<pulls, passed, state>>
    BY <2>2, <2>3, ChildStays
  <2>4. CASE /\ MayStart
             /\ \E p \in Puller :
                   /\ pulls[p].at = "off" /\ pulls'[p].at = "open" /\ pulls'[p].by = srv.id
                   /\ \A q \in Puller \ {p} : pulls'[q] = pulls[q]
                   /\ state' = "updating"
    <3>1. PICK p \in Puller :
                   /\ pulls[p].at = "off" /\ pulls'[p].at = "open" /\ pulls'[p].by = srv.id
                   /\ \A q \in Puller \ {p} : pulls'[q] = pulls[q]
                   /\ state' = "updating"
      BY <2>4
    <3>2. \A q \in Going : pulls[q].by # srv.id
      BY <2>2, <2>4 DEF ChildOK, MayStart
    <3>3. Going' = Going \cup {p}
      BY <3>1 DEF Going
    <3>4. srv.up # "starting"
      BY <2>2 DEF Up
    <3> QED
      BY <1>1, <2>2, <3>1, <3>2, <3>3, <3>4 DEF ChildOK, Going
  <2> QED
    BY <1>6, <2>1, <2>3, <2>4, BeginsIs
<1> QED
  BY <1>2, <1>3, <1>4, <1>5, <1>6 DEF UpdateNext, Aside, Begins

\* What asks nothing, forgets nothing and takes nothing from origin's line.
LEMMA MemoryStays ==
  ASSUME UpdateTypeOK, MemoryOK, UNCHANGED <<asks, checked, stale, state>>,
         tracking' >= tracking, tracking' \in Commit,
         ~Up' => ~Up /\ UNCHANGED autos
  PROVE  MemoryOK'
<1>1. checked # Absent => checked.tip \in Nat
  BY TypesAre DEF Memory, Commit
<1>2. tracking \in Nat /\ tracking' \in Nat
  BY TypesAre DEF Checkout, Commit
<1>3. checked' # Absent => checked'.tip <= tracking'
  <2>1. checked # Absent => checked.tip <= tracking
    BY DEF MemoryOK
  <2>2. checked # Absent => checked.tip <= tracking'
    BY <1>1, <1>2, <2>1
  <2> QED
    BY <2>2
<1>4. ~Up' => checked' = Absent /\ autos' = 0 /\ asks'["retry"].at = ""
  BY DEF MemoryOK
<1> QED
  BY <1>3, <1>4 DEF MemoryOK

LEMMA MemoryElsewhere ==
  ASSUME UpdateTypeOK, UpdateTypeOK', OriginOK, HereOK, MemoryOK, Elsewhere, OnlyPull
  PROVE  MemoryOK'
<1>1. UNCHANGED <<asks, checked, stale, state, autos>>
  BY DEF OnlyPull, memory, bannerVars
<1>2. tracking' \in {tracking, origin} /\ tracking' \in Commit
  <2>1. tracking' \in {tracking, origin}
    BY DEF Elsewhere, Push, HandTurns, ServerBoots, HandPulls, OpensLock, WritesPid, LooksAtLock,
       RemovesLock, OnlyLock, Fetches, Merges, Installs, Build, Start, Waits, RollsBack,
       checkoutVars
  <2> QED
    BY <2>1, TypesAre DEF Checkout
<1>3. tracking' >= tracking
  BY <1>2, TypesAre DEF OriginOK, Checkout, Commit
<1>4. ~Up' => ~Up
  <2>1. srv \in [id : 1 .. MaxStarts, up : {"no", "starting", "yes"}, running : Commit]
    BY TypesAre DEF Processes
  <2>2. CASE UNCHANGED srv
    BY <2>2 DEF Up
  <2>3. CASE srv.up = "starting" \/ ~Alive
    BY <2>3 DEF Up, Alive
  <2> QED
    BY <2>2, <2>3, SrvElsewhere
<1> QED
  BY <1>1, <1>2, <1>3, <1>4, MemoryStays

LEMMA MemoryEnds ==
  ASSUME UpdateTypeOK, MemoryOK, ~InTurn, NEW p \in Puller, PullEnds(p)
  PROVE  MemoryOK'
<1>1. UNCHANGED <<asks, srv, tracking, stale, autos>>
  BY DEF PullEnds, Ends, checkoutVars, memory
<1>2. CASE checked' = Absent /\ state' \in {"idle", "failed"}
  <2>1. ~\E w \in Who : asks[w].at \in {"checked", "going"}
    BY DEF InTurn
  <2> QED
    BY <1>1, <1>2, <2>1 DEF MemoryOK, Up
<1>3. CASE UNCHANGED memory
  <2>1. UNCHANGED <<checked, state>> /\ (Up' <=> Up)
    BY <1>1, <1>3 DEF memory, Up
  <2>2. tracking' >= tracking /\ tracking' \in Commit
    BY <1>1, TypesAre DEF Checkout, Commit
  <2> QED
    BY <1>1, <2>1, <2>2, MemoryStays
<1> QED
  BY <1>2, <1>3 DEF PullEnds

LEMMA MemoryStops ==
  ASSUME UpdateTypeOK, HereOK, MemoryOK, NEW p \in Puller, ServerStops(p)
  PROVE  MemoryOK'
<1>1. asks \in AskTable /\ "retry" \in Who /\ UNCHANGED tracking
  BY TypesAre DEF Page, Who, ServerStops, Stop, checkoutVars
<1>2. CASE srv'.up = "no" /\ Alive
  <2>1. ~Up' /\ checked' = Absent /\ autos' = 0
    BY <1>2 DEF ServerStops, Forgotten, Up
  <2>2. asks' = [w \in Who |->
                 CASE asks[w].at = "answered" -> asks[w]
                   [] w = "click" /\ asks[w].at # "" ->
                        [asks[w] EXCEPT !.at = "answered", !.reply = NoReply]
                   [] OTHER -> NoAsk]
    BY <1>2 DEF ServerStops
  <2> HIDE DEF NoAsk, NoReply
  <2>3. ASSUME NEW w \in Who
        PROVE  /\ asks'[w].at \in {"", "answered"} /\ asks'[w].kind \in {asks[w].kind, "none"}
               /\ w = "retry" => asks'[w].at = ""
    <3>1. [asks[w] EXCEPT !.at = "answered", !.reply = NoReply].at = "answered"
          /\ [asks[w] EXCEPT !.at = "answered", !.reply = NoReply].kind = asks[w].kind
      BY <1>1 DEF AskTable, AskRecord
    <3>2. w = "retry" => asks[w].at # "answered"
      BY DEF MemoryOK
    <3> QED
      BY <2>2, <3>1, <3>2, NoAskIs
  <2> QED
    BY <1>1, <2>1, <2>3 DEF MemoryOK
<1>3. CASE ~(srv'.up = "no" /\ Alive)
  <2>1. srv \in [id : 1 .. MaxStarts, up : {"no", "starting", "yes"}, running : Commit]
    BY TypesAre DEF Processes
  <2>2. UNCHANGED <<asks, memory, srv>>
    BY <1>3, <2>1, RestartSteps DEF ServerStops
  <2> QED
    BY <1>1, <2>2 DEF MemoryOK, Up, memory
<1> QED
  BY <1>2, <1>3

LEMMA MemoryAsks ==
  ASSUME UpdateTypeOK, MemoryOK, OthersAsk \/ BannerReads \/ BannerClicks
  PROVE  MemoryOK'
<1>1. asks \in AskTable /\ "read" \in Who /\ "click" \in Who
  BY TypesAre DEF Page, Who
<1>2. UNCHANGED <<checked, stale, state, autos, tracking, srv>>
  BY DEF OthersAsk, BannerReads, BannerClicks, OnlyAsks, memory, checkoutVars
<1>3. ASSUME NEW w \in Who, w # "retry", NEW kind \in {"poll", "start", "told"}, NEW what,
             Requests(w, kind, what)
      PROVE  MemoryOK'
  <2>1. /\ asks'[w].kind = kind /\ asks'[w].at = "sent"
        /\ \A v \in Who \ {w} : asks'[v] = asks[v]
    BY <1>1, <1>3, RequestsIs
  <2>2. "retry" \in Who /\ asks'["retry"] = asks["retry"]
    BY <1>3, <2>1 DEF Who
  <2> QED
    BY <1>2, <1>3, <2>1, <2>2 DEF MemoryOK, Up
<1>4. CASE OthersAsk
  <2>1. PICK w \in Asker, kind \in {"start", "told"} : Requests(w, kind, "other")
    BY <1>4 DEF OthersAsk
  <2>2. w # "retry" /\ w \in Who /\ kind \in {"poll", "start", "told"}
    BY UpdateAssumption DEF Who
  <2> QED
    BY <1>3, <2>1, <2>2
<1>5. CASE BannerReads
  BY <1>1, <1>3, <1>5 DEF BannerReads
<1>6. CASE BannerClicks
  BY <1>1, <1>3, <1>6 DEF BannerClicks
<1> QED
  BY <1>4, <1>5, <1>6

LEMMA MemoryHears ==
  ASSUME UpdateTypeOK, MemoryOK, BannerHears \/ ClickAnswered
  PROVE  MemoryOK'
<1>1. asks \in AskTable /\ "read" \in Who /\ "click" \in Who /\ "retry" \in Who
  BY TypesAre DEF Page, Who
<1>2. UNCHANGED <<checked, stale, state, autos, tracking, srv>>
  BY DEF BannerHears, ClickAnswered, OnlyBanner, pullVars, memory, checkoutVars
<1> HIDE DEF NoAsk
<1>3. PICK w \in {"read", "click"} : asks' = [asks EXCEPT ![w] = NoAsk]
  BY DEF BannerHears, ClickAnswered
<1>4. asks'[w] = NoAsk /\ \A v \in Who \ {w} : asks'[v] = asks[v]
  BY <1>1, <1>3, NoAskIs, AsksAre
<1>5. asks'["retry"] = asks["retry"] /\ w \in Who
  BY <1>1, <1>4
<1> QED
  BY <1>2, <1>4, <1>5, NoAskIs DEF MemoryOK, Up

LEMMA MemoryArrives ==
  ASSUME UpdateTypeOK, MemoryOK, ~InTurn, NEW w \in Who, Arrives(w)
  PROVE  MemoryOK'
<1>1. asks \in AskTable /\ "retry" \in Who /\ StatusOf(state) \in Reply /\ NoReply \in Reply
  BY TypesAre, StatusIs, NoReplyIs DEF Page, Who
<1>2. UNCHANGED <<stale, state, autos, tracking, srv>> /\ Up /\ asks[w].at = "sent"
  BY DEF Arrives, pullVars, checkoutVars
<1>3. w # "retry" /\ asks[w].kind # "auto"
  BY <1>2 DEF MemoryOK
<1> DEFINE kind == asks[w].kind
<1>4. \/ kind \in {"poll", "start", "told"} /\ JoinsCheck(w, kind) /\ checked' \in {checked, Absent}
      \/ Responds(w, StatusOf(state)) /\ UNCHANGED checked
      \/ Responds(w, NoReply) /\ UNCHANGED checked
      \/ /\ asks' = [asks EXCEPT ![w].at = "going"] /\ UNCHANGED checked
         /\ checked # Absent /\ ~stale
  BY DEF Arrives, NeedsCheck
<1> HIDE DEF kind
<1>5. /\ \A v \in Who \ {w} : asks'[v] = asks[v]
      /\ asks'[w].kind # "auto"
      /\ asks'[w].at \in {"", "checking", "answered", "going"}
      /\ asks'[w].at = "going" => checked # Absent /\ ~stale /\ UNCHANGED checked
  <2>1. CASE kind \in {"poll", "start", "told"} /\ JoinsCheck(w, kind)
    BY <1>1, <2>1, JoinsIs
  <2>2. CASE Responds(w, StatusOf(state)) \/ Responds(w, NoReply)
    <3> HIDE DEF NoAsk, NoReply
    <3> QED
      BY <1>1, <1>3, <2>2, RespondsIs, NoAskIs
  <2>3. CASE /\ asks' = [asks EXCEPT ![w].at = "going"] /\ UNCHANGED checked
             /\ checked # Absent /\ ~stale
    BY <1>1, <1>3, <2>3, GoingIs
  <2> QED
    BY <1>4, <2>1, <2>2, <2>3
<1>6. asks'["retry"] = asks["retry"] /\ checked' \in {checked, Absent}
  BY <1>1, <1>3, <1>4, <1>5
<1>7. \A v \in Who : asks[v].at \notin {"checked", "going"}
  BY DEF InTurn
<1> QED
  BY <1>2, <1>3, <1>5, <1>6, <1>7 DEF MemoryOK, Up

LEMMA MemoryChecks ==
  ASSUME UpdateTypeOK, OriginOK, MemoryOK, CheckFetches \/ CheckEnds
  PROVE  MemoryOK'
<1>1. asks \in AskTable /\ "retry" \in Who /\ tracking \in Nat /\ tracking \in Commit
  BY TypesAre DEF Page, Who, Checkout, Commit
<1>2. CASE CheckFetches
  <2>1. UNCHANGED <<asks, checked, stale, state, autos, srv>> /\ tracking' \in {tracking, origin}
    BY <1>2 DEF CheckFetches, bannerVars
  <2>2. tracking' \in Commit /\ tracking' >= tracking
    BY <2>1, TypesAre DEF OriginOK, Checkout, Commit
  <2> QED
    BY <2>1, <2>2, MemoryStays DEF Up
<1>3. CASE CheckEnds
  <2>1. UNCHANGED <<state, autos, srv, tracking>> /\ Up /\ checked' = BehindOrigin /\ stale' = FALSE
    BY <1>3 DEF CheckEnds, pullVars, checkoutVars
  <2>2. checked'.tip = tracking
    BY <2>1 DEF BehindOrigin
  <2>3. ASSUME NEW w \in Who
        PROVE  asks'[w].kind = asks[w].kind /\ asks'[w].at # "checking"
               /\ (asks'[w].at = asks[w].at \/ asks'[w].at = "checked")
    BY <1>1, <1>3 DEF CheckEnds, AskTable, AskRecord
  <2>4. checked' # Absent
    <3>1. checked' \in [tip : Commit, behind : BOOLEAN, blocked : BOOLEAN]
      <4> DEFINE ahead == tracking > srv.running
      <4>1. checked' = [tip |-> tracking, behind |-> ahead, blocked |-> mine] /\ ahead \in BOOLEAN
        BY <2>1 DEF BehindOrigin
      <4> HIDE DEF ahead
      <4> QED
        BY <4>1, TypesAre DEF Checkout
    <3> QED
      BY <3>1, UpdateAssumption
  <2>5. checked'.tip <= tracking' /\ Up'
    BY <1>1, <2>1, <2>2 DEF Up
  <2>6. \A w \in Who : asks'[w].kind = "auto" => w = "retry"
    BY <2>3 DEF MemoryOK
  <2>7. asks'["retry"].at \in {"", "checked", "going"}
    BY <1>1, <2>3 DEF MemoryOK
  <2> QED
    BY <2>1, <2>4, <2>5, <2>6, <2>7 DEF MemoryOK
<1> QED
  BY <1>2, <1>3

LEMMA MemoryGoesOn ==
  ASSUME UpdateTypeOK, MemoryOK, NEW w \in Who, GoesOn(w)
  PROVE  MemoryOK'
<1>1. asks \in AskTable /\ "retry" \in Who /\ StatusOf(state) \in Reply
  BY TypesAre, StatusIs DEF Page, Who
<1>2. UNCHANGED <<checked, stale, state, tracking, srv>> /\ Up /\ asks[w].at = "checked"
  BY DEF GoesOn, pullVars, checkoutVars
<1>3. /\ \A v \in Who \ {w} : asks'[v] = asks[v]
      /\ \/ asks'[w].at = "going" /\ asks'[w].kind = asks[w].kind
         \/ w \in {"read", "click"} /\ asks'[w].at = "answered" /\ asks'[w].kind = asks[w].kind
         \/ asks'[w].at = "" /\ asks'[w].kind = "none"
  <2> HIDE DEF NoAsk
  <2> QED
    BY <1>1, <1>2, GoingIs, RespondsIs, NoAskIs DEF GoesOn
<1>4. checked # Absent /\ ~stale
  BY <1>2 DEF MemoryOK
<1> QED
  BY <1>1, <1>2, <1>3, <1>4 DEF MemoryOK, Up

LEMMA MemoryBegins ==
  ASSUME UpdateTypeOK, MemoryOK, Begins
  PROVE  MemoryOK'
<1>1. asks \in AskTable /\ "retry" \in Who /\ StatusOf("updating") \in Reply /\ NoReply \in Reply
  BY TypesAre, StatusIs, NoReplyIs DEF Page, Who
<1>2. Up /\ UNCHANGED <<checked, stale, tracking, srv>>
  BY DEF Begins, AutoGoesOn, StartGoesOn, OnlySpawn, checkoutVars
<1>3. CASE AutoGoesOn
  <2>1. CASE NeedsCheck /\ JoinsCheck("retry", "auto") /\ UNCHANGED state
    <3>1. /\ \A v \in Who \ {"retry"} : asks'[v] = asks[v]
          /\ asks'["retry"].at = "checking"
      BY <1>1, <2>1, JoinsIs
    <3> QED
      BY <1>1, <1>2, <2>1, <3>1 DEF MemoryOK, Up, NeedsCheck
  <2>2. CASE ~NeedsCheck /\ UNCHANGED asks /\ (state' = state \/ (state' = "updating" /\ MayStart))
    <3>1. MayStart => asks["retry"].at # "checking"
      BY <2>2 DEF MemoryOK, NeedsCheck, MayStart
    <3> QED
      BY <1>2, <2>2, <3>1 DEF MemoryOK, Up
  <2> QED
    BY <1>3, <2>1, <2>2 DEF AutoGoesOn, Spawns
<1>4. ASSUME NEW w \in Who, StartGoesOn(w)
      PROVE  MemoryOK'
  <2>1. asks[w].at = "going" /\ state' \in {state, "updating"}
    BY <1>4 DEF StartGoesOn, Spawns
  <2>2. checked # Absent /\ ~stale /\ asks["retry"].at # "checking"
    BY <2>1 DEF MemoryOK
  <2>3. /\ \A v \in Who \ {w} : asks'[v] = asks[v]
        /\ \/ w \in {"read", "click"} /\ asks'[w].at = "answered" /\ asks'[w].kind = asks[w].kind
           \/ w \notin {"read", "click"} /\ asks'[w].at = "" /\ asks'[w].kind = "none"
    <3> HIDE DEF NoAsk, NoReply
    <3> QED
      BY <1>1, <1>4, RespondsIs, NoAskIs DEF StartGoesOn
  <2> QED
    BY <1>1, <1>2, <2>1, <2>2, <2>3 DEF MemoryOK, Up
<1> QED
  BY <1>3, <1>4 DEF Begins

LEMMA MemoryStep ==
  ASSUME UpdateTypeOK, UpdateTypeOK', OriginOK, HereOK, MemoryOK, [UpdateNext]_updateVars
  PROVE  MemoryOK'
<1>1. CASE RetryFires \/ (TimePasses /\ ~InTurn)
  <2>1. CASE RetryFires
    <3>1. UNCHANGED <<asks, checked, stale, state, tracking, srv>> /\ Up
      BY <2>1 DEF RetryFires, pullVars, checkoutVars, bannerVars
    <3> QED
      BY <3>1 DEF MemoryOK, Up
  <2>2. CASE TimePasses /\ ~InTurn
    <3>1. UNCHANGED <<asks, checked, autos, state, tracking, srv>> /\ stale' \in {stale, TRUE}
      BY <2>2 DEF TimePasses, checkoutVars, bannerVars
    <3>2. \A v \in Who : asks[v].at \notin {"checked", "going"}
      BY <2>2 DEF InTurn
    <3> QED
      BY <3>1, <3>2 DEF MemoryOK, Up
  <2> QED
    BY <1>1, <2>1, <2>2
<1>2. CASE UNCHANGED updateVars
  BY <1>2 DEF updateVars, pullVars, checkoutVars, memory, bannerVars, MemoryOK, Up
<1> QED
  BY <1>1, <1>2, MemoryElsewhere, MemoryEnds, MemoryStops, MemoryAsks, MemoryHears, MemoryArrives,
     MemoryChecks, MemoryGoesOn, MemoryBegins DEF UpdateNext, Begins

(***************************************************************************)
(* The update: commits that are given up once.                             *)
(***************************************************************************)

\* What is over stays over.
StaysOver(c) == (Settled(c) => Settled(c)') /\ (Over(c) => Over(c)')

LEMMA OverKeeps ==
  ASSUME UpdateTypeOK, UpdateTypeOK', NEW c \in Commit, origin' >= origin, head' >= head,
         \A q \in Moved' : (q \in Moved /\ pulls'[q].before = pulls[q].before)
                             \/ pulls'[q].before = head
  PROVE  StaysOver(c)
<1>1. /\ origin \in Nat /\ origin' \in Nat /\ head \in Nat /\ head' \in Nat /\ c \in Nat
  BY TypesAre, TypesPrimed DEF Checkout, Commit
<1>2. Settled(c) => head' >= c /\ \A q \in Moved' : pulls'[q].before >= c
  BY <1>1 DEF Settled
<1>3. origin > c => origin' > c
  BY <1>1
<1> QED
  BY <1>2, <1>3 DEF StaysOver, Over, Settled

\* A pull that is not moved further forward than it was.
LEMMA OverMoves ==
  ASSUME UpdateTypeOK, UpdateTypeOK', NEW c \in Commit, NEW p \in Puller,
         UNCHANGED <<origin, head>>,
         \A q \in Puller \ {p} : pulls'[q] = pulls[q],
         p \in Moved' => p \in Moved /\ pulls'[p].before = pulls[p].before
  PROVE  StaysOver(c)
<1>1. \A q \in Moved' : q \in Moved /\ pulls'[q].before = pulls[q].before
  BY DEF Moved
<1>2. origin' >= origin /\ head' >= head
  BY TypesAre DEF Checkout, Commit
<1> QED
  BY <1>1, <1>2, OverKeeps

LEMMA OverElsewhere ==
  ASSUME UpdateTypeOK, UpdateTypeOK', OriginOK, HereOK, NEW c \in Commit, Elsewhere
  PROVE  StaysOver(c)
<1>1. /\ origin \in Nat /\ origin' \in Nat /\ head \in Nat /\ head' \in Nat /\ c \in Nat
      /\ tracking \in Nat
  BY TypesAre, TypesPrimed DEF Checkout, Commit
<1>2. CASE Push
  <2>1. UNCHANGED <<pulls, head>> /\ origin' = origin + 1
    BY <1>2 DEF Push
  <2> QED
    BY <1>1, <2>1, OverKeeps DEF Moved
<1>3. CASE HandTurns
  <2>1. UNCHANGED <<pulls, origin>> /\ head' \in {head, origin}
    BY <1>3 DEF HandTurns
  <2>2. head' >= head /\ origin' >= origin
    BY <1>1, <2>1 DEF OriginOK
  <2> QED
    BY <2>1, <2>2, OverKeeps DEF Moved
<1>4. CASE ServerBoots
  <2>1. UNCHANGED <<pulls, origin, head>>
    BY <1>4 DEF ServerBoots, checkoutVars
  <2> QED
    BY <1>1, <2>1, OverKeeps DEF Moved
<1>5. ASSUME NEW p \in Puller, HandPulls(p)
      PROVE  StaysOver(c)
  <2>1. 0 \in 0 .. MaxStarts
    BY PullAssumption
  <2>2. pulls'[p].at = "open" /\ \A q \in Puller \ {p} : pulls'[q] = pulls[q]
    BY <1>5, <2>1, StartedIs DEF HandPulls
  <2>3. UNCHANGED <<origin, head>>
    BY <1>5 DEF HandPulls, checkoutVars
  <2> QED
    BY <2>2, <2>3, OverMoves DEF Moved
<1>6. ASSUME NEW p \in Puller,
             \/ OpensLock(p) \/ WritesPid(p) \/ LooksAtLock(p) \/ RemovesLock(p) \/ Fetches(p)
      PROVE  StaysOver(c)
  <2>1. UNCHANGED <<origin, head>>
    BY <1>6 DEF OpensLock, WritesPid, LooksAtLock, RemovesLock, Fetches, OnlyLock, checkoutVars
  <2>2. /\ pulls'[p].at \in {"write", "look", "refused", "remove", "open", "fetch", "merge", "exit"}
        /\ \A q \in Puller \ {p} : pulls'[q] = pulls[q]
    BY <1>6, LockSteps DEF Moves
  <2> QED
    BY <2>1, <2>2, OverMoves DEF Moved
<1>7. ASSUME NEW p \in Puller, Merges(p)
      PROVE  StaysOver(c)
  <2>1. /\ UNCHANGED origin /\ head' \in {head, tracking}
        /\ pulls'[p].at = "exit" \/ pulls'[p].before = head
        /\ \A q \in Puller \ {p} : pulls'[q] = pulls[q]
    BY <1>7, TypesAre, MergesIs DEF Merges, Moves, Processes, Checkout
  <2>2. head' >= head /\ origin' >= origin
    BY <1>1, <2>1 DEF OriginOK
  <2>3. \A q \in Moved' : (q \in Moved /\ pulls'[q].before = pulls[q].before)
                             \/ pulls'[q].before = head
    BY <2>1 DEF Moved
  <2> QED
    BY <2>2, <2>3, OverKeeps
<1>8. ASSUME NEW p \in Puller, RollsBack(p)
      PROVE  StaysOver(c)
  <2>1. /\ UNCHANGED origin /\ head' \in {head, pulls[p].before} /\ p \in Moved
        /\ pulls'[p].before = pulls[p].before
        /\ \A q \in Puller \ {p} : pulls'[q] = pulls[q]
    BY <1>8, TypesAre, RollsBackIs DEF RollsBack, Moved, Moves, Processes
  <2>2. \A q \in Moved' : q \in Moved /\ pulls'[q].before = pulls[q].before
    BY <2>1 DEF Moved
  <2>3. Settled(c) => head' >= c /\ \A q \in Moved' : pulls'[q].before >= c
    BY <2>1, <2>2 DEF Settled
  <2> QED
    BY <2>1, <2>3 DEF StaysOver, Over, Settled
<1>9. ASSUME NEW p \in Puller, Installs(p) \/ Build(p) \/ Start(p) \/ Waits(p)
      PROVE  StaysOver(c)
  <2>1. UNCHANGED <<origin, head>>
    BY <1>9 DEF Installs, Build, Start, Waits, checkoutVars
  <2>2. /\ p \in Moved /\ pulls'[p].before = pulls[p].before
        /\ \A q \in Puller \ {p} : pulls'[q] = pulls[q]
    BY <1>9, RestartSteps DEF Moves, Moved, RestartFailed
  <2> QED
    BY <2>1, <2>2, OverMoves
<1> QED
  BY <1>2, <1>3, <1>4, <1>5, <1>6, <1>7, <1>8, <1>9 DEF Elsewhere

LEMMA OverStep ==
  ASSUME UpdateTypeOK, UpdateTypeOK', OriginOK, HereOK, MemoryOK, NEW c \in Commit,
         [UpdateNext]_updateVars
  PROVE  StaysOver(c)
<1>1. ASSUME NEW p \in Puller, ServerStops(p)
      PROVE  StaysOver(c)
  <2>1. /\ UNCHANGED <<origin, head>> /\ p \in Moved /\ Moves(p, "start")
    BY <1>1, RestartSteps DEF ServerStops, Stop, Moved, checkoutVars
  <2> QED
    BY <2>1, OverMoves DEF Moves
<1>2. ASSUME NEW p \in Puller, PullEnds(p)
      PROVE  StaysOver(c)
  <2>1. /\ UNCHANGED <<origin, head>> /\ pulls'[p] = Off
        /\ \A q \in Puller \ {p} : pulls'[q] = pulls[q]
    BY <1>2, EndsIs DEF PullEnds, Ends, checkoutVars
  <2>2. Off.at = "off"
    BY DEF Off
  <2> HIDE DEF Off
  <2> QED
    BY <2>1, <2>2, OverMoves DEF Moved
<1>3. ASSUME UNCHANGED <<pulls, origin, head>>
      PROVE  StaysOver(c)
  <2>1. origin' >= origin /\ head' >= head
    BY <1>3, TypesAre DEF Checkout, Commit
  <2> QED
    BY <1>3, <2>1, OverKeeps DEF Moved
<1>4. CASE Aside
  BY <1>3, <1>4, AsideIs
<1>5. CASE Begins
  <2>1. \A w \in Who : asks[w].kind = "auto" => w = "retry"
    BY DEF MemoryOK
  <2>2. UNCHANGED <<origin, head>>
    BY <1>5, <2>1, BeginsIs
  <2>3. CASE UNCHANGED pulls
    BY <1>3, <2>2, <2>3
  <2>4. ASSUME NEW p \in Puller, pulls'[p].at = "open", \A q \in Puller \ {p} : pulls'[q] = pulls[q]
        PROVE  StaysOver(c)
    BY <2>2, <2>4, OverMoves DEF Moved
  <2> QED
    BY <1>5, <2>1, <2>3, <2>4, BeginsIs
<1> QED
  BY <1>1, <1>2, <1>4, <1>5, OverElsewhere DEF UpdateNext, Aside, Begins

LEMMA LoneStays ==
  ASSUME LoneOK, UNCHANGED passed, Past' \subseteq Past, Going' \ Past' \subseteq Going \ Past
  PROVE  LoneOK'
BY DEF LoneOK

\* A step of a pull on one side of the lock.
LEMMA LoneMoves ==
  ASSUME LoneOK, UNCHANGED passed, NEW p \in Puller, pulls[p].at # "off",
         \A q \in Puller \ {p} : pulls'[q] = pulls[q],
         \/ pulls[p].at \notin {"off", "open", "write", "look", "remove", "refused"}
            /\ pulls'[p].at \notin {"off", "open", "write", "look", "remove", "refused"}
         \/ pulls[p].at \in {"open", "write", "look", "remove", "refused"}
            /\ pulls'[p].at \in {"open", "write", "look", "remove", "refused"}
  PROVE  LoneOK'
<1>1. Past' = Past /\ Going' = Going
  BY DEF Past, Going
<1> QED
  BY <1>1, LoneStays

\* A pull that begins is passed by the one that is about.
LEMMA LoneBegins ==
  ASSUME LoneOK, NEW p \in Puller, pulls[p].at = "off", pulls'[p].at = "open",
         \A q \in Puller \ {p} : pulls'[q] = pulls[q],
         passed' = IF Past = {} THEN passed \ {p} ELSE passed \cup {p}
  PROVE  LoneOK'
<1>1. Past' = Past /\ Going' = Going \cup {p} /\ p \notin Past
  BY DEF Past, Going
<1> HIDE DEF Past, Going
<1>2. CASE Past = {}
  BY <1>1, <1>2 DEF LoneOK
<1>3. CASE Past # {}
  BY <1>1, <1>3 DEF LoneOK
<1> QED
  BY <1>2, <1>3

LEMMA LoneElsewhere ==
  ASSUME UpdateTypeOK, HereOK, LoneOK, Elsewhere, ~met'
  PROVE  LoneOK'
<1>1. CASE Push \/ HandTurns \/ ServerBoots
  <2>1. UNCHANGED <<pulls, passed>>
    BY <1>1 DEF Push, HandTurns, ServerBoots, company
  <2> QED
    BY <2>1, LoneStays DEF Past, Going
<1>2. ASSUME NEW p \in Puller, HandPulls(p)
      PROVE  LoneOK'
  <2>1. 0 \in 0 .. MaxStarts
    BY PullAssumption
  <2>2. /\ pulls[p].at = "off" /\ pulls'[p].at = "open"
        /\ \A q \in Puller \ {p} : pulls'[q] = pulls[q]
        /\ passed' = IF Past = {} THEN passed \ {p} ELSE passed \cup {p}
    BY <1>2, <2>1, StartedIs DEF HandPulls, Started
  <2> QED
    BY <2>2, LoneBegins
<1>3. ASSUME NEW p \in Puller, OpensLock(p) \/ LooksAtLock(p) \/ RemovesLock(p)
      PROVE  LoneOK'
  <2>1. UNCHANGED passed
    BY <1>3 DEF OpensLock, LooksAtLock, RemovesLock, OnlyLock, company
  <2> QED
    BY <1>3, <2>1, LockSteps, LoneMoves DEF Moves
<1>4. ASSUME NEW p \in Puller, WritesPid(p)
      PROVE  LoneOK'
  <2>1. /\ pulls[p].at = "write" /\ Moves(p, "fetch") /\ passed' = Going \ {p} /\ p \notin passed
    BY <1>4, LockSteps DEF WritesPid
  <2>2. p \in Going /\ p \notin Past
    BY <2>1 DEF Going, Past
  <2>3. Past = {}
    <3> HIDE DEF Past, Going
    <3> QED
      BY <2>1, <2>2 DEF LoneOK
  <2>4. Past' = {p} /\ Going' = Going
    BY <2>1, <2>3 DEF Past, Going, Moves
  <2> HIDE DEF Past, Going
  <2> QED
    BY <2>1, <2>4 DEF LoneOK
<1>5. ASSUME NEW p \in Puller, Fetches(p)
      PROVE  LoneOK'
  BY <1>5, LockSteps, LoneMoves DEF Moves, Fetches, company
<1>6. ASSUME NEW p \in Puller, Merges(p)
      PROVE  LoneOK'
  <2>1. /\ pulls[p].at = "merge" /\ pulls'[p].at \in {"exit", "install"} /\ UNCHANGED passed
        /\ \A q \in Puller \ {p} : pulls'[q] = pulls[q]
    BY <1>6, TypesAre, MergesIs DEF Merges, Moves, Processes, Checkout, company
  <2> QED
    BY <2>1, LoneMoves
<1>7. ASSUME NEW p \in Puller, RollsBack(p)
      PROVE  LoneOK'
  <2>1. /\ pulls[p].at = "back" /\ pulls'[p].at \in {"exit", "install"} /\ UNCHANGED passed
        /\ \A q \in Puller \ {p} : pulls'[q] = pulls[q]
    BY <1>7, TypesAre, RollsBackIs DEF RollsBack, Moves, Processes, company
  <2> QED
    BY <2>1, LoneMoves
<1>8. ASSUME NEW p \in Puller, Installs(p) \/ Build(p) \/ Start(p) \/ Waits(p)
      PROVE  LoneOK'
  <2>1. UNCHANGED passed
    BY <1>8 DEF Installs, Build, Start, Waits, company
  <2>2. /\ pulls[p].at \in {"install", "build", "start", "wait"}
        /\ pulls'[p].at \in {"build", "exit", "stop", "back", "wait"}
        /\ \A q \in Puller \ {p} : pulls'[q] = pulls[q]
    BY <1>8, RestartSteps DEF Moves, RestartFailed
  <2> QED
    BY <2>1, <2>2, LoneMoves
<1> QED
  BY <1>1, <1>2, <1>3, <1>4, <1>5, <1>6, <1>7, <1>8 DEF Elsewhere

LEMMA LoneStep ==
  ASSUME UpdateTypeOK, HereOK, MemoryOK, LoneOK, [UpdateNext]_updateVars, ~met'
  PROVE  LoneOK'
<1>1. ASSUME NEW p \in Puller, ServerStops(p)
      PROVE  LoneOK'
  <2>1. UNCHANGED passed /\ pulls[p].at = "stop" /\ Moves(p, "start")
    BY <1>1, RestartSteps DEF ServerStops, Stop, company
  <2> QED
    BY <2>1, LoneMoves DEF Moves
<1>2. ASSUME NEW p \in Puller, PullEnds(p)
      PROVE  LoneOK'
  <2>1. /\ UNCHANGED passed /\ pulls'[p] = Off /\ pulls[p].at \in {"exit", "refused"}
        /\ \A q \in Puller \ {p} : pulls'[q] = pulls[q]
    BY <1>2, EndsIs DEF PullEnds, Ends, company
  <2>2. Off.at = "off"
    BY DEF Off
  <2> HIDE DEF Off
  <2>3. CASE pulls[p].at = "refused"
    <3>1. Past' = Past /\ Going' \subseteq Going
      BY <2>1, <2>2, <2>3 DEF Past, Going
    <3> HIDE DEF Past, Going
    <3> QED
      BY <2>1, <3>1, LoneStays
  <2>4. CASE pulls[p].at = "exit"
    <3>1. p \in Past
      BY <2>4 DEF Past
    <3>2. Past = {p}
      <4> HIDE DEF Past
      <4> QED
        BY <3>1 DEF LoneOK
    <3>3. Past' = {}
      BY <2>1, <2>2, <3>2 DEF Past
    <3> HIDE DEF Past, Going
    <3> QED
      BY <3>3 DEF LoneOK
  <2> QED
    BY <2>1, <2>3, <2>4
<1>3. CASE Aside
  <2>1. UNCHANGED <<pulls, passed>>
    BY <1>3, AsideIs
  <2> QED
    BY <2>1, LoneStays DEF Past, Going
<1>4. CASE Begins
  <2>1. \A w \in Who : asks[w].kind = "auto" => w = "retry"
    BY DEF MemoryOK
  <2>2. CASE UNCHANGED <<pulls, passed>>
    BY <2>2, LoneStays DEF Past, Going
  <2> QED
    BY <1>4, <2>1, <2>2, LoneBegins, BeginsIs
<1> QED
  BY <1>1, <1>2, <1>3, <1>4, LoneElsewhere DEF UpdateNext, Aside, Begins

\* A pull that goes on beside another has been met for good.
LEMMA MetStays ==
  ASSUME UpdateTypeOK, MemoryOK, [UpdateNext]_updateVars, ~met'
  PROVE  ~met
<1>1. ASSUME Elsewhere
      PROVE  ~met
  <2>1. ASSUME NEW p \in Puller, HandPulls(p) PROVE ~met
    BY <2>1 DEF HandPulls, Started
  <2>2. ASSUME NEW p \in Puller, WritesPid(p) PROVE ~met
    BY <2>2 DEF WritesPid
  <2>3. ASSUME UNCHANGED company PROVE ~met
    BY <2>3 DEF company
  <2> QED
    BY <1>1, <2>1, <2>2, <2>3 DEF Elsewhere, Push, HandTurns, ServerBoots, OpensLock, LooksAtLock,
       RemovesLock, OnlyLock, Fetches, Merges, Installs, Build, Start, Waits, RollsBack
<1>2. ASSUME NEW p \in Puller, ServerStops(p) \/ PullEnds(p)
      PROVE  ~met
  BY <1>2 DEF ServerStops, PullEnds, Stop, Ends, company
<1>3. CASE Aside
  BY <1>3, AsideIs
<1>4. CASE Begins
  <2>1. \A w \in Who : asks[w].kind = "auto" => w = "retry"
    BY DEF MemoryOK
  <2> QED
    BY <1>4, <2>1, BeginsIs
<1> QED
  BY <1>1, <1>2, <1>3, <1>4 DEF UpdateNext, Aside, Begins

\* A pull that is its server's remains so.
LEMMA OwnMoves ==
  ASSUME OwnOK, NEW p \in Puller, \A q \in Puller \ {p} : pulls'[q] = pulls[q],
         passed \subseteq passed', srv'.id = srv.id, Alive' => Alive, UNCHANGED state,
         pulls'[p].auto = pulls[p].auto, pulls'[p].by = pulls[p].by,
         srv'.running = srv.running,
         Alive' /\ pulls'[p].round = 1 /\ pulls'[p].at \in OwnStages =>
           /\ pulls[p].round = 1 /\ pulls[p].at \in OwnStages
           /\ pulls[p].at \in {"wait", "back"} =>
                pulls'[p].at \in {"wait", "back"} /\ pulls'[p].after = pulls[p].after
  PROVE  OwnOK'
BY DEF OwnOK, OwnStages, RunsAhead

LEMMA OwnStays ==
  ASSUME OwnOK, UNCHANGED <<pulls, passed, state>>, srv'.id = srv.id, srv'.running = srv.running,
         Alive' => Alive
  PROVE  OwnOK'
BY DEF OwnOK, OwnStages, RunsAhead

LEMMA OwnElsewhere ==
  ASSUME UpdateTypeOK, HereOK, LoneOK, OwnOK, BuiltOK, Elsewhere, UNCHANGED state, ~met'
  PROVE  OwnOK'
<1>1. srv \in [id : 1 .. MaxStarts, up : {"no", "starting", "yes"}, running : Commit]
  BY TypesAre DEF Processes
<1>2. CASE Push \/ HandTurns
  BY <1>2, OwnStays DEF Push, HandTurns, company, Alive
<1>3. CASE ServerBoots
  <2>1. UNCHANGED <<pulls, passed>> /\ Alive /\ srv'.id = srv.id /\ srv'.running = srv.running
    BY <1>1, <1>3 DEF ServerBoots, company, Alive
  <2> QED
    BY <2>1, OwnStays
<1>4. ASSUME NEW p \in Puller, HandPulls(p)
      PROVE  OwnOK'
  <2>1. 0 \in 0 .. MaxStarts
    BY PullAssumption
  <2>2. /\ ~pulls'[p].auto /\ \A q \in Puller \ {p} : pulls'[q] = pulls[q]
    BY <1>4, <2>1, StartedIs DEF HandPulls
  <2>3. UNCHANGED srv /\ passed' \in {passed \ {p}, passed \cup {p}}
    BY <1>4 DEF HandPulls, Started
  <2> QED
    BY <2>2, <2>3 DEF OwnOK, OwnStages, RunsAhead, Alive
<1>5. ASSUME NEW p \in Puller, OpensLock(p) \/ LooksAtLock(p) \/ RemovesLock(p) \/ Fetches(p)
      PROVE  OwnOK'
  <2>1. UNCHANGED <<passed, srv>>
    BY <1>5 DEF OpensLock, LooksAtLock, RemovesLock, OnlyLock, Fetches, company
  <2>2. /\ pulls[p].at \in {"open", "look", "remove", "fetch"}
        /\ pulls'[p].by = pulls[p].by /\ pulls'[p].auto = pulls[p].auto
        /\ pulls'[p].round = pulls[p].round
        /\ \A q \in Puller \ {p} : pulls'[q] = pulls[q]
    BY <1>5, LockSteps DEF Moves
  <2> QED
    BY <2>1, <2>2, OwnMoves DEF OwnStages, Alive
<1>6. ASSUME NEW p \in Puller, WritesPid(p)
      PROVE  OwnOK'
  <2>1. /\ pulls[p].at = "write" /\ Moves(p, "fetch") /\ passed' = Going \ {p} /\ p \notin passed
        /\ UNCHANGED srv
    BY <1>6, LockSteps DEF WritesPid
  <2>2. \A q \in Puller \ {p} : q \notin passed' => pulls'[q].at = "off"
    BY <2>1 DEF Going, Moves
  <2>3. pulls[p].auto /\ pulls[p].round = 1 /\ Alive => pulls[p].by = srv.id /\ state = "updating"
    BY <2>1 DEF OwnOK, OwnStages, RunsAhead
  <2> QED
    BY <2>1, <2>2, <2>3 DEF OwnOK, OwnStages, RunsAhead, Moves, Alive
<1>7. ASSUME NEW p \in Puller, Merges(p)
      PROVE  OwnOK'
  <2>1. /\ pulls[p].at = "merge" /\ UNCHANGED <<passed, srv>>
        /\ pulls'[p].by = pulls[p].by /\ pulls'[p].auto = pulls[p].auto
        /\ pulls'[p].round = pulls[p].round
        /\ \A q \in Puller \ {p} : pulls'[q] = pulls[q]
    BY <1>7, TypesAre, MergesIs DEF Merges, Moves, Processes, Checkout, company
  <2> QED
    BY <2>1, OwnMoves DEF OwnStages, Alive
<1>8. ASSUME NEW p \in Puller, RollsBack(p)
      PROVE  OwnOK'
  <2>1. /\ pulls'[p].at = "exit" \/ pulls'[p].round = 2
        /\ pulls'[p].by = pulls[p].by /\ pulls'[p].auto = pulls[p].auto
        /\ \A q \in Puller \ {p} : pulls'[q] = pulls[q]
    BY <1>8, TypesAre, RollsBackIs DEF Moves, Processes
  <2>2. UNCHANGED <<passed, srv>>
    BY <1>8 DEF RollsBack, company
  <2> QED
    BY <2>1, <2>2, OwnMoves DEF OwnStages, Alive
<1>9. ASSUME NEW p \in Puller, Installs(p) \/ Build(p) \/ Waits(p)
      PROVE  OwnOK'
  <2>1. UNCHANGED <<passed, srv>>
    BY <1>9 DEF Installs, Build, Waits, company
  <2>2. /\ pulls'[p].by = pulls[p].by /\ pulls'[p].auto = pulls[p].auto
        /\ pulls'[p].round = pulls[p].round
        /\ \A q \in Puller \ {p} : pulls'[q] = pulls[q]
        /\ \/ pulls[p].at \in {"install", "build"} \/ pulls'[p].at = "exit"
           \/ pulls[p].at = "wait" /\ pulls'[p].at = "back" /\ pulls'[p].after = pulls[p].after
    BY <1>9, RestartSteps DEF Moves, RestartFailed
  <2> QED
    BY <2>1, <2>2, OwnMoves DEF OwnStages, Alive
<1>10. ASSUME NEW p \in Puller, Start(p)
       PROVE  OwnOK'
  <2>1. pulls[p].at = "start" /\ UNCHANGED passed
    BY <1>10 DEF Start, company
  <2>2. p \in Past
    BY <2>1 DEF Past
  <2>3. Going \ {p} \subseteq passed
    <3> HIDE DEF Past, Going
    <3> QED
      BY <2>2 DEF LoneOK
  <2>4. \A q \in Puller \ {p} : q \notin passed => pulls'[q].at = "off"
    BY <1>10, <2>3, RestartSteps DEF Going, Moves
  <2>5. CASE Moves(p, "exit")
    BY <2>1, <2>4, <2>5 DEF OwnOK, OwnStages, Moves
  <2>6. CASE Moves(p, "wait") /\ srv'.running = dist.stamp
    <3>1. pulls'[p].round = 1 => RunsAhead(p)'
      BY <2>1, <2>6 DEF BuiltOK, RunsAhead, Moves
    <3> QED
      BY <2>1, <2>4, <3>1 DEF OwnOK, OwnStages
  <2> QED
    BY <1>10, <2>5, <2>6, RestartSteps
<1> QED
  BY <1>2, <1>3, <1>4, <1>5, <1>6, <1>7, <1>8, <1>9, <1>10 DEF Elsewhere

LEMMA OwnStep ==
  ASSUME UpdateTypeOK, HereOK, MemoryOK, ChildOK, LoneOK, OwnOK, BuiltOK,
         [UpdateNext]_updateVars, ~met'
  PROVE  OwnOK'
<1>1. ASSUME NEW p \in Puller, ServerStops(p)
      PROVE  OwnOK'
  <2>1. srv \in [id : 1 .. MaxStarts, up : {"no", "starting", "yes"}, running : Commit]
    BY TypesAre DEF Processes
  <2>2. ~Alive'
    BY <1>1, <2>1, RestartSteps DEF ServerStops, Alive
  <2> QED
    BY <2>2 DEF OwnOK, OwnStages
<1>2. ASSUME NEW p \in Puller, PullEnds(p)
      PROVE  OwnOK'
  <2>1. /\ UNCHANGED <<passed, srv>> /\ pulls'[p] = Off /\ pulls[p].at \in {"exit", "refused"}
        /\ \A q \in Puller \ {p} : pulls'[q] = pulls[q]
    BY <1>2, EndsIs DEF PullEnds, Ends, company
  <2>2. Off.at = "off"
    BY DEF Off
  <2> HIDE DEF Off
  <2>3. CASE UNCHANGED state
    BY <2>1, <2>2, <2>3 DEF OwnOK, OwnStages, RunsAhead, Alive
  <2>4. CASE pulls[p].by = srv.id
    <3>1. ASSUME NEW q \in Puller, q # p, pulls[q].at # "off"
          PROVE  pulls[q].by # srv.id
      BY <2>1, <2>4, <3>1 DEF ChildOK, Going
    <3> QED
      BY <2>1, <2>2, <3>1 DEF OwnOK, OwnStages, RunsAhead, Alive
  <2> QED
    BY <1>2, <2>3, <2>4 DEF PullEnds, memory
<1>3. CASE Aside
  BY <1>3, AsideIs, OwnStays DEF Alive
<1>4. CASE Begins
  <2>1. \A w \in Who : asks[w].kind = "auto" => w = "retry"
    BY DEF MemoryOK
  <2>2. UNCHANGED srv
    BY <1>4, <2>1, BeginsIs
  <2>3. CASE UNCHANGED <<pulls, passed, state>>
    BY <2>2, <2>3, OwnStays DEF Alive
  <2>4. ASSUME NEW p \in Puller, pulls'[p].by = srv.id,
               \A q \in Puller \ {p} : pulls'[q] = pulls[q],
               passed' = (IF Past = {} THEN passed \ {p} ELSE passed \cup {p}), state' = "updating"
        PROVE  OwnOK'
    <3>1. \A q \in Puller \ {p} : q \notin passed' => q \notin passed
      BY <2>4
    <3> QED
      BY <2>2, <2>4, <3>1 DEF OwnOK, OwnStages, RunsAhead, Alive
  <2> QED
    BY <1>4, <2>1, <2>3, <2>4, BeginsIs
<1>5. CASE Elsewhere /\ OnlyPull
  BY <1>5, OwnElsewhere DEF OnlyPull, memory
<1> QED
  BY <1>1, <1>2, <1>3, <1>4, <1>5 DEF UpdateNext, Aside, Begins

\* Pulls that have built, or are to build, what they pulled.
LEMMA BuiltStays ==
  ASSUME BuiltOK, dist'.stamp = dist.stamp,
         \A q \in Puller : pulls'[q].at \in {"stop", "start"} =>
           /\ pulls[q].at \in {"stop", "start"} /\ pulls'[q].round = pulls[q].round
           /\ pulls'[q].after = pulls[q].after
  PROVE  BuiltOK'
BY DEF BuiltOK

LEMMA BuiltMoves ==
  ASSUME BuiltOK, dist'.stamp = dist.stamp, NEW p \in Puller,
         \A q \in Puller \ {p} : pulls'[q] = pulls[q], pulls'[p].at \notin {"stop", "start"}
  PROVE  BuiltOK'
BY BuiltStays

LEMMA BuiltStep ==
  ASSUME UpdateTypeOK, HereOK, MemoryOK, LoneOK, BuiltOK, GivenUpOK, [UpdateNext]_updateVars
  PROVE  BuiltOK'
<1>1. dist \in [code : Commit \cup {Absent}, stamp : Commit]
  BY TypesAre DEF Checkout
<1>2. ASSUME NEW p \in Puller, ServerStops(p)
      PROVE  BuiltOK'
  <2>1. UNCHANGED dist /\ pulls[p].at = "stop" /\ Moves(p, "start")
    BY <1>2, RestartSteps DEF ServerStops, Stop
  <2> QED
    BY <2>1, BuiltStays DEF Moves
<1>3. ASSUME NEW p \in Puller, PullEnds(p)
      PROVE  BuiltOK'
  <2>1. UNCHANGED dist /\ pulls'[p] = Off /\ \A q \in Puller \ {p} : pulls'[q] = pulls[q]
    BY <1>3, EndsIs DEF PullEnds, Ends
  <2>2. pulls'[p].at = "off"
    BY <2>1 DEF Off
  <2> QED
    BY <2>1, <2>2, BuiltMoves
<1>4. CASE Aside
  BY <1>4, AsideIs, BuiltStays
<1>5. CASE Begins
  <2>1. \A w \in Who : asks[w].kind = "auto" => w = "retry"
    BY DEF MemoryOK
  <2>2. UNCHANGED dist
    BY <1>5, <2>1, BeginsIs
  <2>3. CASE UNCHANGED pulls
    BY <2>2, <2>3, BuiltStays
  <2>4. ASSUME NEW p \in Puller, pulls'[p].at = "open",
               \A q \in Puller \ {p} : pulls'[q] = pulls[q]
        PROVE  BuiltOK'
    BY <2>2, <2>4, BuiltMoves
  <2> QED
    BY <1>5, <2>1, <2>3, <2>4, BeginsIs
<1>6. CASE Push \/ HandTurns \/ ServerBoots
  BY <1>6, BuiltStays DEF Push, HandTurns, ServerBoots
<1>7. ASSUME NEW p \in Puller, HandPulls(p)
      PROVE  BuiltOK'
  <2>1. 0 \in 0 .. MaxStarts
    BY PullAssumption
  <2>2. pulls'[p].at = "open" /\ \A q \in Puller \ {p} : pulls'[q] = pulls[q]
    BY <1>7, <2>1, StartedIs DEF HandPulls
  <2> QED
    BY <1>7, <2>2, BuiltMoves DEF HandPulls
<1>8. ASSUME NEW p \in Puller,
             \/ OpensLock(p) \/ WritesPid(p) \/ LooksAtLock(p) \/ RemovesLock(p) \/ Fetches(p)
      PROVE  BuiltOK'
  <2>1. UNCHANGED dist
    BY <1>8 DEF OpensLock, WritesPid, LooksAtLock, RemovesLock, Fetches, OnlyLock
  <2>2. /\ pulls'[p].at \in {"write", "look", "refused", "remove", "open", "fetch", "merge", "exit"}
        /\ \A q \in Puller \ {p} : pulls'[q] = pulls[q]
    BY <1>8, LockSteps DEF Moves
  <2> QED
    BY <2>1, <2>2, BuiltMoves
<1>9. ASSUME NEW p \in Puller, Merges(p) \/ RollsBack(p)
      PROVE  BuiltOK'
  <2>1. pulls'[p].at \in {"exit", "install"} /\ \A q \in Puller \ {p} : pulls'[q] = pulls[q]
    BY <1>9, TypesAre, MergesIs, RollsBackIs DEF Moves, Processes, Checkout
  <2>2. UNCHANGED dist
    BY <1>9 DEF Merges, RollsBack
  <2> QED
    BY <2>1, <2>2, BuiltMoves
<1>10. ASSUME NEW p \in Puller, Installs(p) \/ Start(p) \/ Waits(p)
       PROVE  BuiltOK'
  <2>1. /\ pulls'[p].at \in {"build", "exit", "wait", "back"}
        /\ \A q \in Puller \ {p} : pulls'[q] = pulls[q]
    BY <1>10, RestartSteps DEF RestartFailed, Moves
  <2>2. UNCHANGED dist
    BY <1>10 DEF Installs, Start, Waits
  <2> QED
    BY <2>1, <2>2, BuiltMoves
<1>11. ASSUME NEW p \in Puller, Build(p)
       PROVE  BuiltOK'
  <2>1. CASE RestartFailed(p) /\ dist' = [dist EXCEPT !.code = Absent]
    <3>1. dist'.stamp = dist.stamp
      BY <1>1, <2>1
    <3> QED
      BY <2>1, <3>1, BuiltMoves DEF RestartFailed, Moves
  <2>2. CASE Moves(p, "stop") /\ dist' = [code |-> head, stamp |-> head]
    <3>1. p \in Past /\ p \in Moved
      BY <1>11 DEF Build, Past, Moved
    <3>2. \A q \in Past : q = p
      <4> HIDE DEF Past
      <4> QED
        BY <3>1 DEF LoneOK
    <3>3. \A q \in Puller \ {p} : pulls'[q].at \notin {"stop", "start"}
      BY <2>2, <3>2 DEF Past, Moves
    <3>4. pulls[p].round = 1 => head >= pulls[p].after
      BY <3>1 DEF GivenUpOK
    <3>5. dist'.stamp = head /\ pulls'[p].round = pulls[p].round /\ pulls'[p].after = pulls[p].after
      BY <2>2 DEF Moves
    <3> QED
      BY <3>3, <3>4, <3>5 DEF BuiltOK
  <2> QED
    BY <1>11, <2>1, <2>2, RestartSteps
<1> QED
  BY <1>2, <1>3, <1>4, <1>5, <1>6, <1>7, <1>8, <1>9, <1>10, <1>11
  DEF UpdateNext, Aside, Begins, Elsewhere

\* A server is behind only a commit beyond its own.
LEMMA NewsStep ==
  ASSUME UpdateTypeOK, HereOK, MemoryOK, NewsOK, [UpdateNext]_updateVars
  PROVE  NewsOK'
<1>1. srv \in [id : 1 .. MaxStarts, up : {"no", "starting", "yes"}, running : Commit]
  BY TypesAre DEF Processes
<1>2. ASSUME srv'.running = srv.running, checked' \in {checked, Absent}, Up' => Up
      PROVE  NewsOK'
  BY <1>2 DEF NewsOK
<1>3. CASE Elsewhere /\ OnlyPull
  <2>1. UNCHANGED checked
    BY <1>3 DEF OnlyPull, memory
  <2>2. CASE Up
    <3>1. UNCHANGED srv
      <4>1. srv.up # "starting" /\ Alive
        BY <2>2 DEF Up, Alive
      <4>2. \A p \in Puller : Start(p) => UNCHANGED srv
        BY <4>1, RestartSteps
      <4> QED
        BY <1>3, <4>1, <4>2 DEF Elsewhere, Push, HandTurns, ServerBoots, HandPulls, OpensLock,
           WritesPid, LooksAtLock, RemovesLock, OnlyLock, Fetches, Merges, Installs, Build, Waits,
           RollsBack
    <3> QED
      BY <2>1, <3>1 DEF NewsOK, Up
  <2>3. CASE ~Up
    BY <2>1, <2>3 DEF MemoryOK, NewsOK
  <2> QED
    BY <2>2, <2>3
<1>4. ASSUME NEW p \in Puller, ServerStops(p)
      PROVE  NewsOK'
  <2>1. ~Up'
    BY <1>1, <1>4, RestartSteps DEF ServerStops, Alive, Up
  <2> QED
    BY <2>1 DEF NewsOK
<1>5. ASSUME NEW p \in Puller, PullEnds(p)
      PROVE  NewsOK'
  BY <1>2, <1>5 DEF PullEnds, Ends, memory, Up
<1>6. CASE CheckEnds
  BY <1>6 DEF CheckEnds, BehindOrigin, pullVars, NewsOK
<1>7. CASE \E w \in Who : Arrives(w)
  BY <1>2, <1>7 DEF Arrives, pullVars, Up
<1>8. CASE \/ RetryFires \/ OthersAsk \/ CheckFetches \/ BannerReads \/ BannerClicks \/ BannerHears
           \/ ClickAnswered \/ TimePasses \/ UNCHANGED updateVars \/ \E w \in Who : GoesOn(w)
  <2>1. UNCHANGED <<srv, checked>>
    BY <1>8 DEF RetryFires, OthersAsk, CheckFetches, BannerReads, BannerClicks, BannerHears,
       ClickAnswered, TimePasses, updateVars, GoesOn, OnlyAsks, OnlyBanner, pullVars, memory
  <2> QED
    BY <1>2, <2>1 DEF Up
<1>9. CASE Begins
  <2>1. \A w \in Who : asks[w].kind = "auto" => w = "retry"
    BY DEF MemoryOK
  <2> QED
    BY <1>2, <1>9, <2>1, BeginsIs DEF Up
<1> QED
  BY <1>3, <1>4, <1>5, <1>6, <1>7, <1>8, <1>9 DEF UpdateNext, Begins

LEMMA CommitsAre ==
  ASSUME UpdateTypeOK
  PROVE  /\ origin \in Nat /\ tracking \in Nat /\ head \in Nat
         /\ \A c \in Commit : c \in Nat /\ tried[c] \in Nat
BY TypesAre DEF Checkout, Histories, Commit

\* What leaves the failures alone, and moves nobody that was not moved already.
LEMMA GivenStays ==
  ASSUME UpdateTypeOK, UpdateTypeOK', OriginOK, GivenUpOK, \A c \in Commit : StaysOver(c),
         UNCHANGED <<failed, tried>>, tracking' >= tracking, head' >= head,
         \A q \in Moved' : /\ q \in Moved /\ pulls'[q].after = pulls[q].after
                           /\ pulls'[q].round = pulls[q].round,
         \A q \in Puller : pulls[q].at = "back" => pulls'[q] = pulls[q]
  PROVE  GivenUpOK'
<1>1. \A c \in Commit : tried'[c] <= 1
  BY DEF GivenUpOK
<1>2. ASSUME NEW c \in Tried
      PROVE  GaveUp(c)'
  <2>1. GaveUp(c) /\ StaysOver(c) /\ c \in Nat
    BY <1>2, CommitsAre DEF GivenUpOK, Tried
  <2>2. c <= tracking'
    BY <2>1, CommitsAre, TypesPrimed DEF GaveUp, Checkout, Commit
  <2>3. \A q \in Moved' : c <= pulls'[q].after
    BY <2>1 DEF GaveUp
  <2>4. \/ failed' = c \/ Over(c)'
        \/ \E q \in Puller : pulls'[q].at = "back" /\ pulls'[q].auto /\ pulls'[q].after = c
    BY <2>1 DEF GaveUp, StaysOver
  <2> QED
    BY <2>2, <2>3, <2>4 DEF GaveUp
<1>3. ASSUME NEW q \in Moved', pulls'[q].round = 1
      PROVE  head' >= pulls'[q].after
  <2>1. q \in Moved /\ head >= pulls[q].after /\ pulls'[q].after = pulls[q].after
    BY <1>3 DEF GivenUpOK
  <2>2. pulls[q].after \in Nat
    BY <2>1 DEF OriginOK, Commit
  <2> QED
    BY <2>1, <2>2, CommitsAre, TypesPrimed DEF Checkout, Commit
<1>4. Tried' = Tried
  BY DEF Tried
<1> HIDE DEF GaveUp
<1> QED
  BY <1>1, <1>2, <1>3, <1>4 DEF GivenUpOK

\* A step of one pull that is not on its way back.
LEMMA GivenMoves ==
  ASSUME UpdateTypeOK, UpdateTypeOK', OriginOK, GivenUpOK, \A c \in Commit : StaysOver(c),
         UNCHANGED <<failed, tried, head>>, tracking' \in {tracking, origin},
         NEW p \in Puller, pulls[p].at # "back", \A q \in Puller \ {p} : pulls'[q] = pulls[q],
         p \in Moved' => /\ p \in Moved /\ pulls'[p].after = pulls[p].after
                         /\ pulls'[p].round = pulls[p].round
  PROVE  GivenUpOK'
<1>1. tracking' >= tracking /\ head' >= head
  BY CommitsAre DEF OriginOK
<1>2. \A q \in Moved' : /\ q \in Moved /\ pulls'[q].after = pulls[q].after
                        /\ pulls'[q].round = pulls[q].round
  BY DEF Moved
<1> QED
  BY <1>1, <1>2, GivenStays

LEMMA GivenMerges ==
  ASSUME UpdateTypeOK, UpdateTypeOK', OriginOK, GivenUpOK, \A c \in Commit : StaysOver(c),
         NEW p \in Puller, Merges(p)
  PROVE  GivenUpOK'
<1>1. /\ pulls[p].at = "merge" /\ UNCHANGED <<failed, tried, tracking>>
      /\ \A q \in Puller \ {p} : pulls'[q] = pulls[q]
      /\ \/ pulls'[p].at = "exit" /\ head' \in {head, tracking}
         \/ head' = tracking /\ pulls'[p].after = tracking
  BY TypesAre, MergesIs DEF Merges, Moves, Processes, Checkout
<1>2. head' >= head
  BY <1>1, CommitsAre DEF OriginOK
<1>3. \A c \in Commit : tried'[c] <= 1
  BY <1>1 DEF GivenUpOK
<1>4. ASSUME NEW c \in Tried
      PROVE  GaveUp(c)'
  <2>1. GaveUp(c) /\ StaysOver(c)
    BY <1>4 DEF GivenUpOK, Tried
  <2>2. \A q \in Moved' : c <= pulls'[q].after
    BY <1>1, <2>1 DEF GaveUp, Moved
  <2>3. \/ failed' = c \/ Over(c)'
        \/ \E q \in Puller : pulls'[q].at = "back" /\ pulls'[q].auto /\ pulls'[q].after = c
    BY <1>1, <2>1 DEF GaveUp, StaysOver
  <2> QED
    BY <1>1, <2>1, <2>2, <2>3 DEF GaveUp
<1>5. ASSUME NEW q \in Moved', pulls'[q].round = 1
      PROVE  head' >= pulls'[q].after
  <2>1. CASE q = p
    BY <1>1, <1>5, <2>1, CommitsAre DEF Moved
  <2>2. CASE q # p
    <3>1. pulls'[q] = pulls[q] /\ q \in Moved
      BY <1>1, <1>5, <2>2 DEF Moved
    <3>2. head >= pulls[q].after /\ pulls[q].after \in Nat
      BY <1>5, <3>1 DEF GivenUpOK, OriginOK, Commit
    <3> QED
      BY <1>2, <3>1, <3>2, CommitsAre, TypesPrimed DEF Checkout, Commit
  <2> QED
    BY <2>1, <2>2
<1>6. Tried' = Tried
  BY <1>1 DEF Tried
<1> HIDE DEF GaveUp
<1> QED
  BY <1>3, <1>4, <1>5, <1>6 DEF GivenUpOK

LEMMA GivenRollsBack ==
  ASSUME UpdateTypeOK, UpdateTypeOK', OriginOK, LoneOK, GivenUpOK, \A c \in Commit : StaysOver(c),
         NEW p \in Puller, RollsBack(p)
  PROVE  GivenUpOK'
<1>1. /\ pulls[p].at = "back" /\ failed' = pulls[p].after /\ UNCHANGED <<tried, tracking, origin>>
      /\ \A q \in Puller \ {p} : pulls'[q] = pulls[q]
      /\ pulls'[p].at = "exit" \/ pulls'[p].round = 2
      /\ pulls'[p].after = pulls[p].after
  BY TypesAre, RollsBackIs DEF RollsBack, Moves, Processes
<1>2. p \in Moved /\ p \in Past
  BY <1>1 DEF Moved, Past
<1>3. \A q \in Past : q = p
  <2> HIDE DEF Past
  <2> QED
    BY <1>2 DEF LoneOK
<1>4. \A q \in Moved' : q = p
  BY <1>1, <1>3 DEF Moved, Past
<1>5. \A c \in Commit : tried'[c] <= 1
  BY <1>1 DEF GivenUpOK
<1>6. ASSUME NEW c \in Tried
      PROVE  GaveUp(c)'
  <2>1. GaveUp(c) /\ StaysOver(c) /\ c \in Nat
    BY <1>6, CommitsAre DEF GivenUpOK, Tried
  <2>2. /\ pulls[p].after \in Nat /\ c <= pulls[p].after
        /\ pulls[p].after <= tracking /\ tracking <= origin
    BY <1>2, <2>1 DEF OriginOK, GaveUp, Commit
  <2>3. failed' = c \/ Over(c)'
    <3>1. CASE pulls[p].after = c
      BY <1>1, <3>1
    <3>2. CASE pulls[p].after # c
      <4>1. origin > c
        BY <2>1, <2>2, <3>2, CommitsAre
      <4> QED
        BY <2>1, <4>1 DEF StaysOver, Over
    <3> QED
      BY <3>1, <3>2
  <2>4. \A q \in Moved' : c <= pulls'[q].after
    BY <1>1, <1>4, <2>2
  <2> QED
    BY <1>1, <2>1, <2>3, <2>4 DEF GaveUp
<1>7. \A q \in Moved' : pulls'[q].round = 2
  BY <1>1, <1>4 DEF Moved
<1>8. Tried' = Tried
  BY <1>1 DEF Tried
<1> HIDE DEF GaveUp
<1> QED
  BY <1>5, <1>6, <1>7, <1>8 DEF GivenUpOK

\* The server has come up: what was given up is behind it.
LEMMA GivenComesUp ==
  ASSUME UpdateTypeOK, UpdateTypeOK', OriginOK, LoneOK, GivenUpOK, \A c \in Commit : StaysOver(c),
         NEW p \in Puller, pulls[p].at \in {"start", "wait"}, pulls[p].round = 1, Moves(p, "exit"),
         UNCHANGED <<tried, tracking, head>>
  PROVE  GivenUpOK'
<1>2. p \in Moved /\ p \in Past
  BY DEF Moved, Past
<1>3. \A q \in Past : q = p
  <2> HIDE DEF Past
  <2> QED
    BY <1>2 DEF LoneOK
<1>4. Moved' = {}
  BY <1>3 DEF Moved, Past, Moves
<1>5. \A c \in Commit : tried'[c] <= 1
  BY DEF GivenUpOK
<1>6. ASSUME NEW c \in Tried
      PROVE  GaveUp(c)'
  <2>1. GaveUp(c) /\ c \in Nat
    BY <1>6, CommitsAre DEF GivenUpOK, Tried
  <2>2. pulls[p].after \in Nat /\ c <= pulls[p].after /\ head >= pulls[p].after
    BY <1>2, <2>1 DEF OriginOK, GaveUp, GivenUpOK, Commit
  <2>3. head >= c
    BY <2>1, <2>2, CommitsAre
  <2>4. Over(c)'
    BY <1>4, <2>3 DEF Over, Settled
  <2> QED
    BY <1>4, <2>1, <2>4 DEF GaveUp
<1>7. Tried' = Tried
  BY DEF Tried
<1> HIDE DEF GaveUp
<1> QED
  BY <1>4, <1>5, <1>6, <1>7 DEF GivenUpOK

\* A commit is given up by the only pull that is about, and for the first time.
LEMMA GivesUpOnce ==
  ASSUME UpdateTypeOK, OriginOK, LoneOK, GivenUpOK, DecidedOK, NEW p \in Moved,
         pulls[p].at # "back",
         pulls[p].round = 1, pulls[p].auto, pulls[p].before # pulls[p].after
  PROVE  pulls[p].after \in Commit \ Tried
<1>1. p \in Past /\ p \in Puller /\ pulls[p].after \in Commit
  BY DEF Moved, Past, OriginOK
<1>2. p \notin passed
  <2> HIDE DEF Past
  <2> QED
    BY <1>1 DEF LoneOK
<1>3. ASSUME pulls[p].after \in Tried
      PROVE  FALSE
  <2>1. PullBeyond(p, pulls[p].after)
    BY <1>1, <1>3 DEF DecidedOK, Underway
  <2> QED
    BY <1>1, <1>2, <2>1 DEF PullBeyond
<1> QED
  BY <1>1, <1>3

LEMMA GivenFails ==
  ASSUME UpdateTypeOK, UpdateTypeOK', OriginOK, LoneOK, GivenUpOK, DecidedOK,
         \A c \in Commit : StaysOver(c),
         NEW p \in Moved, pulls[p].at # "back", RestartFailed(p),
         UNCHANGED <<failed, tracking, head>>
  PROVE  GivenUpOK'
<1>1. p \in Puller
  BY DEF Moved
<1>2. CASE UNCHANGED tried
  BY <1>1, <1>2, GivenMoves DEF RestartFailed, Moves, Moved
<1>3. CASE tried' # tried
  <2> DEFINE after == pulls[p].after
  <2>1. /\ Moves(p, "back") /\ pulls[p].round = 1 /\ pulls[p].before # after /\ pulls[p].auto
        /\ tried' = [tried EXCEPT ![after] = @ + 1]
    BY <1>1, <1>3, TypesAre DEF RestartFailed, GivesUp, Processes, Pulls, PullRecord
  <2>2. after \in Commit \ Tried
    BY <2>1, GivesUpOnce
  <2>3. tried \in [Commit -> Nat]
    BY TypesAre DEF Histories
  <2>4. tried[after] = 0
    BY <2>2, <2>3 DEF Tried
  <2>5. \A c \in Commit : tried'[c] = IF c = after THEN 1 ELSE tried[c]
    BY <2>1, <2>2, <2>3, <2>4
  <2>6. Tried' = Tried \cup {after}
    BY <2>2, <2>5 DEF Tried
  <2>7. p \in Past
    BY DEF Moved, Past
  <2>8. \A q \in Past : q = p
    <3> HIDE DEF Past
    <3> QED
      BY <2>7 DEF LoneOK
  <2>9. \A q \in Moved' : q = p
    BY <2>1, <2>8 DEF Moved, Past, Moves
  <2>10. pulls'[p].after = after /\ pulls'[p].at = "back" /\ pulls'[p].auto /\ pulls'[p].round = 1
    BY <2>1 DEF Moves
  <2>11. after \in Nat /\ after <= tracking /\ head >= after
    BY <2>1 DEF OriginOK, GivenUpOK, Commit
  <2>12. ASSUME NEW c \in Tried'
         PROVE  GaveUp(c)'
    <3>1. CASE c = after
      <4>1. \A q \in Moved' : c <= pulls'[q].after
        BY <2>9, <2>10, <2>11, <3>1
      <4>2. \E q \in Puller : pulls'[q].at = "back" /\ pulls'[q].auto /\ pulls'[q].after = c
        BY <1>1, <2>10, <3>1
      <4> QED
        BY <2>11, <3>1, <4>1, <4>2 DEF GaveUp
    <3>2. CASE c # after
      <4>1. GaveUp(c) /\ StaysOver(c)
        BY <2>6, <2>12, <3>2 DEF GivenUpOK, Tried
      <4>2. \A q \in Moved' : c <= pulls'[q].after
        BY <2>9, <2>10, <4>1 DEF GaveUp
      <4>3. failed = c \/ Over(c)
        <5>1. ASSUME NEW q \in Puller, pulls[q].at = "back" PROVE FALSE
          BY <2>8, <5>1 DEF Past
        <5> QED
          BY <4>1, <5>1 DEF GaveUp
      <4> QED
        BY <4>1, <4>2, <4>3 DEF GaveUp, StaysOver
    <3> QED
      BY <3>1, <3>2
  <2>13. \A q \in Moved' : head' >= pulls'[q].after
    BY <2>9, <2>10, <2>11
  <2>14. \A c \in Commit : tried'[c] <= 1
    BY <2>3, <2>5 DEF GivenUpOK
  <2> HIDE DEF GaveUp
  <2> QED
    BY <2>12, <2>13, <2>14 DEF GivenUpOK
<1> QED
  BY <1>2, <1>3

LEMMA GivenElsewhere ==
  ASSUME UpdateTypeOK, UpdateTypeOK', OriginOK, HereOK, LoneOK, GivenUpOK, DecidedOK,
         \A c \in Commit : StaysOver(c), Elsewhere
  PROVE  GivenUpOK'
<1>1. CASE Push
  BY <1>1, GivenStays, CommitsAre DEF Push, Moved
<1>2. CASE HandTurns
  <2>1. /\ UNCHANGED <<failed, tried, pulls>> /\ tracking' \in {tracking, origin}
        /\ head' \in {head, origin}
    BY <1>2 DEF HandTurns
  <2>2. tracking' >= tracking /\ head' >= head
    BY <2>1, CommitsAre DEF OriginOK
  <2> QED
    BY <2>1, <2>2, GivenStays DEF Moved
<1>3. CASE ServerBoots
  <2>1. UNCHANGED <<failed, tried, pulls, tracking, head>>
    BY <1>3 DEF ServerBoots, checkoutVars
  <2> QED
    BY <2>1, GivenStays, CommitsAre DEF Moved
<1>4. ASSUME NEW p \in Puller, HandPulls(p)
      PROVE  GivenUpOK'
  <2>1. 0 \in 0 .. MaxStarts
    BY PullAssumption
  <2>2. pulls[p].at = "off" /\ pulls'[p].at = "open" /\ \A q \in Puller \ {p} : pulls'[q] = pulls[q]
    BY <1>4, <2>1, StartedIs DEF HandPulls
  <2>3. UNCHANGED <<failed, tried, head, tracking>>
    BY <1>4 DEF HandPulls, checkoutVars
  <2> QED
    BY <2>2, <2>3, GivenMoves DEF Moved
<1>5. ASSUME NEW p \in Puller,
             \/ OpensLock(p) \/ WritesPid(p) \/ LooksAtLock(p) \/ RemovesLock(p) \/ Fetches(p)
      PROVE  GivenUpOK'
  <2>1. UNCHANGED <<failed, tried, head>> /\ tracking' \in {tracking, origin}
    BY <1>5 DEF OpensLock, WritesPid, LooksAtLock, RemovesLock, Fetches, OnlyLock, checkoutVars
  <2>2. /\ pulls[p].at \in {"open", "write", "look", "remove", "fetch"}
        /\ pulls'[p].at \in {"write", "look", "refused", "remove", "open", "fetch", "merge", "exit"}
        /\ \A q \in Puller \ {p} : pulls'[q] = pulls[q]
    BY <1>5, LockSteps DEF Moves
  <2> QED
    BY <2>1, <2>2, GivenMoves DEF Moved
<1>6. ASSUME NEW p \in Puller, Installs(p) \/ Start(p)
      PROVE  GivenUpOK'
  <2>1. UNCHANGED <<tried, head, tracking>> /\ p \in Moved /\ pulls[p].at # "back"
    BY <1>6, RestartSteps DEF Installs, Start, checkoutVars, Moved
  <2>2. CASE UNCHANGED failed
    <3>1. Moves(p, "build") \/ Moves(p, "exit") \/ Moves(p, "wait")
      BY <1>6, RestartSteps
    <3> QED
      BY <2>1, <2>2, <3>1, GivenMoves DEF Moves
  <2>3. CASE pulls[p].at = "start" /\ pulls[p].round = 1 /\ Moves(p, "exit")
    BY <2>1, <2>3, GivenComesUp
  <2>4. UNCHANGED failed \/ (pulls[p].at = "start" /\ pulls[p].round = 1 /\ Moves(p, "exit"))
    <3>1. CASE Installs(p)
      BY <3>1 DEF Installs
    <3>2. CASE Start(p)
      BY <3>2, RestartSteps
    <3> QED
      BY <1>6, <3>1, <3>2
  <2> QED
    BY <2>2, <2>3, <2>4
<1>7. ASSUME NEW p \in Puller, Build(p)
      PROVE  GivenUpOK'
  <2>1. UNCHANGED <<failed, head, tracking>> /\ pulls[p].at = "build" /\ p \in Moved
    BY <1>7 DEF Build, checkoutVars, Moved
  <2>2. CASE Moves(p, "stop") /\ UNCHANGED tried
    BY <2>1, <2>2, GivenMoves DEF Moves
  <2>3. CASE RestartFailed(p)
    BY <2>1, <2>3, GivenFails
  <2> QED
    BY <1>7, <2>2, <2>3, RestartSteps
<1>8. ASSUME NEW p \in Puller, Waits(p)
      PROVE  GivenUpOK'
  <2>1. UNCHANGED <<head, tracking>> /\ pulls[p].at = "wait" /\ p \in Moved
    BY <1>8 DEF Waits, checkoutVars, Moved
  <2>2. CASE RestartFailed(p) /\ UNCHANGED failed
    BY <2>1, <2>2, GivenFails
  <2>3. CASE Up /\ Moves(p, "exit") /\ UNCHANGED tried
    <3>1. CASE pulls[p].round = 1
      BY <2>1, <2>3, <3>1, GivenComesUp
    <3>2. CASE pulls[p].round # 1
      <4>1. UNCHANGED failed
        BY <1>8, <2>3, <3>2 DEF Waits, RestartSucceeds, Up, Alive
      <4> QED
        BY <2>1, <2>3, <4>1, GivenMoves DEF Moves
    <3> QED
      BY <3>1, <3>2
  <2> QED
    BY <1>8, <2>2, <2>3, RestartSteps
<1> QED
  BY <1>1, <1>2, <1>3, <1>4, <1>5, <1>6, <1>7, <1>8, GivenMerges, GivenRollsBack DEF Elsewhere

LEMMA GivenStep ==
  ASSUME UpdateTypeOK, UpdateTypeOK', OriginOK, HereOK, MemoryOK, LoneOK, GivenUpOK, DecidedOK,
         [UpdateNext]_updateVars
  PROVE  GivenUpOK'
<1>1. \A c \in Commit : StaysOver(c)
  BY OverStep
<1>2. ASSUME NEW p \in Puller, ServerStops(p)
      PROVE  GivenUpOK'
  <2>1. /\ UNCHANGED <<failed, tried, head, tracking>> /\ p \in Moved /\ pulls[p].at = "stop"
        /\ Moves(p, "start")
    BY <1>2, RestartSteps DEF ServerStops, Stop, checkoutVars, Moved
  <2> QED
    BY <1>1, <2>1, GivenMoves DEF Moves
<1>3. ASSUME NEW p \in Puller, PullEnds(p)
      PROVE  GivenUpOK'
  <2>1. /\ UNCHANGED <<failed, tried, head, tracking>> /\ pulls'[p] = Off
        /\ pulls[p].at \in {"exit", "refused"}
        /\ \A q \in Puller \ {p} : pulls'[q] = pulls[q]
    BY <1>3, EndsIs DEF PullEnds, Ends, checkoutVars
  <2>2. Off.at = "off"
    BY DEF Off
  <2> HIDE DEF Off
  <2> QED
    BY <1>1, <2>1, <2>2, GivenMoves DEF Moved
<1>4. CASE Aside
  <2>1. UNCHANGED <<failed, tried, head, pulls>> /\ tracking' \in {tracking, origin}
    BY <1>4, AsideIs
  <2>2. tracking' >= tracking /\ head' >= head
    BY <2>1, CommitsAre DEF OriginOK
  <2> QED
    BY <1>1, <2>1, <2>2, GivenStays DEF Moved
<1>5. CASE Begins
  <2>1. \A w \in Who : asks[w].kind = "auto" => w = "retry"
    BY DEF MemoryOK
  <2>2. UNCHANGED <<failed, tried, head, tracking>>
    BY <1>5, <2>1, BeginsIs
  <2>3. CASE UNCHANGED pulls
    BY <1>1, <2>2, <2>3, GivenStays, CommitsAre DEF Moved
  <2>4. ASSUME NEW p \in Puller, pulls[p].at = "off", pulls'[p].at = "open",
               \A q \in Puller \ {p} : pulls'[q] = pulls[q]
        PROVE  GivenUpOK'
    BY <1>1, <2>2, <2>4, GivenMoves DEF Moved
  <2> QED
    BY <1>5, <2>1, <2>3, <2>4, BeginsIs
<1> QED
  BY <1>1, <1>2, <1>3, <1>4, <1>5, GivenElsewhere DEF UpdateNext, Aside, Begins

(***************************************************************************)
(* The update: whoever decides, decides for more than was given up.        *)
(***************************************************************************)
LEMMA KnownStep ==
  ASSUME UpdateTypeOK, UpdateTypeOK', HereOK, MemoryOK, [UpdateNext]_updateVars, NEW c \in Commit,
         Known(c), c <= tracking
  PROVE  Known(c)'
<1>1. CASE Elsewhere /\ OnlyPull
  <2>1. UNCHANGED <<checked, state>>
    BY <1>1 DEF OnlyPull, memory
  <2>2. ~Up => checked = Absent
    BY DEF MemoryOK
  <2> QED
    BY <2>1, <2>2 DEF Known
<1>2. ASSUME NEW p \in Puller, ServerStops(p)
      PROVE  Known(c)'
  <2>1. CASE srv'.up = "no" /\ Alive
    BY <2>1 DEF Known, Up
  <2>2. CASE ~(srv'.up = "no" /\ Alive)
    <3>1. srv \in [id : 1 .. MaxStarts, up : {"no", "starting", "yes"}, running : Commit]
      BY TypesAre DEF Processes
    <3>2. UNCHANGED <<srv, checked, state>>
      BY <1>2, <2>2, <3>1, RestartSteps DEF ServerStops, memory
    <3> QED
      BY <3>2 DEF Known, Up
  <2> QED
    BY <2>1, <2>2
<1>3. ASSUME NEW p \in Puller, PullEnds(p)
      PROVE  Known(c)'
  BY <1>3 DEF PullEnds, Ends, memory, Known, Up
<1>4. CASE CheckEnds
  <2>1. checked'.tip = tracking
    BY <1>4 DEF CheckEnds, BehindOrigin
  <2> QED
    BY <2>1, CommitsAre DEF Known
<1>5. CASE \E w \in Who : Arrives(w)
  <2>1. UNCHANGED <<srv, state>> /\ checked' \in {checked, Absent}
    BY <1>5 DEF Arrives, pullVars
  <2> QED
    BY <2>1 DEF Known, Up
<1>6. CASE \/ RetryFires \/ OthersAsk \/ CheckFetches \/ BannerReads \/ BannerClicks \/ BannerHears
           \/ ClickAnswered \/ TimePasses \/ UNCHANGED updateVars \/ \E w \in Who : GoesOn(w)
  <2>1. UNCHANGED <<srv, checked, state>>
    BY <1>6 DEF RetryFires, OthersAsk, CheckFetches, BannerReads, BannerClicks, BannerHears,
       ClickAnswered, TimePasses, updateVars, GoesOn, OnlyAsks, OnlyBanner, pullVars, memory
  <2> QED
    BY <2>1 DEF Known, Up
<1>7. CASE Begins
  <2>1. \A w \in Who : asks[w].kind = "auto" => w = "retry"
    BY DEF MemoryOK
  <2>2. UNCHANGED <<srv, checked>> /\ state' \in {state, "updating"}
    BY <1>7, <2>1, BeginsIs
  <2> QED
    BY <2>2 DEF Known, Up
<1> QED
  BY <1>1, <1>2, <1>3, <1>4, <1>5, <1>6, <1>7 DEF UpdateNext, Begins

\* A check that says now says so of a commit that nobody has given up, or beyond.
LEMMA NowIsBeyond ==
  ASSUME UpdateTypeOK, OriginOK, MemoryOK, NewsOK, LoneOK, OwnOK, NEW c \in Commit, GaveUp(c),
         Known(c), Up, checked # Absent, AutoDecision(checked) = "now"
  PROVE  Over(c)
<1>1. state # "updating" /\ failed # checked.tip
  BY DEF AutoDecision
<1>2. checked.tip >= c /\ checked.tip <= tracking /\ tracking <= origin
  BY <1>1 DEF Known, MemoryOK, OriginOK
<1>3. checked.tip \in Nat
  BY TypesAre DEF Memory, Commit
<1>4. CASE checked.tip # c
  BY <1>2, <1>3, <1>4, CommitsAre DEF Over
<1>5. CASE checked.tip = c
  <2>1. ASSUME NEW p \in Puller, pulls[p].at = "back", pulls[p].auto, pulls[p].after = c
        PROVE  FALSE
    <3>1. p \in Past /\ pulls[p].round = 1
      BY <2>1 DEF Past, OriginOK
    <3>2. p \notin passed
      <4> HIDE DEF Past
      <4> QED
        BY <3>1 DEF LoneOK
    <3>3. srv.running >= c
      BY <1>1, <2>1, <3>1, <3>2 DEF OwnOK, OwnStages, RunsAhead, Up, Alive
    <3>4. c > srv.running
      BY <1>5 DEF AutoDecision, NewsOK
    <3>5. srv.running \in Nat
      BY TypesAre DEF Processes, Commit
    <3> QED
      BY <1>3, <1>5, <3>3, <3>4, <3>5
  <2> QED
    BY <1>1, <1>5, <2>1 DEF GaveUp
<1> QED
  BY <1>4, <1>5

LEMMA ConsidersBeyond ==
  ASSUME UpdateTypeOK, OriginOK, MemoryOK, NewsOK, LoneOK, OwnOK, NEW c \in Commit, GaveUp(c),
         Known(c), Willing(c), Up,
         NEW already, Considers(checked, already), autos' > 0
  PROVE  Over(c)
<1>1. CASE autos > 0
  BY <1>1 DEF Willing
<1>2. CASE ~(autos > 0)
  <2>1. checked # Absent /\ AutoDecision(checked) = "now"
    BY <1>2 DEF Considers
  <2> QED
    BY <2>1, NowIsBeyond
<1> QED
  BY <1>1, <1>2

LEMMA WillingStep ==
  ASSUME UpdateTypeOK, OriginOK, HereOK, MemoryOK, NewsOK, LoneOK, OwnOK, [UpdateNext]_updateVars,
         NEW c \in Commit,
         GaveUp(c), StaysOver(c), Known(c), Willing(c)
  PROVE  Willing(c)'
<1>1. asks \in AskTable /\ "retry" \in Who
  BY TypesAre DEF Page, Who
<1>2. SUFFICES ASSUME autos' > 0 \/ asks'["retry"].at # ""
               PROVE  autos > 0 \/ asks["retry"].at # "" \/ Over(c)
  BY DEF Willing, StaysOver
<1>3. CASE Elsewhere /\ OnlyPull
  BY <1>2, <1>3 DEF OnlyPull, memory, bannerVars
<1>4. ASSUME NEW p \in Puller, ServerStops(p)
      PROVE  autos > 0 \/ asks["retry"].at # ""
  <2>1. CASE srv'.up = "no" /\ Alive
    <3>1. autos' = 0
      BY <1>4, <2>1 DEF ServerStops, Forgotten
    <3>2. asks' = [w \in Who |->
                 CASE asks[w].at = "answered" -> asks[w]
                   [] w = "click" /\ asks[w].at # "" ->
                        [asks[w] EXCEPT !.at = "answered", !.reply = NoReply]
                   [] OTHER -> NoAsk]
      BY <1>4, <2>1 DEF ServerStops
    <3> HIDE DEF NoAsk, NoReply
    <3>3. asks'["retry"] = asks["retry"] \/ asks'["retry"] = NoAsk
      BY <1>1, <3>2
    <3>4. asks'["retry"].at # ""
      <4>1. ~(autos' > 0)
        BY <3>1
      <4> QED
        BY <1>2, <4>1
    <3>5. asks'["retry"] # NoAsk
      BY <3>4, NoAskIs
    <3> QED
      BY <3>3, <3>4, <3>5
  <2>2. CASE ~(srv'.up = "no" /\ Alive)
    BY <1>2, <1>4, <2>2 DEF ServerStops, memory
  <2> QED
    BY <2>1, <2>2
<1>5. ASSUME NEW p \in Puller, PullEnds(p)
      PROVE  autos > 0 \/ asks["retry"].at # ""
  BY <1>2, <1>5 DEF PullEnds, memory
<1>6. CASE RetryFires
  <2>1. UNCHANGED asks /\ Up /\ Considers(checked, FALSE)
    BY <1>6 DEF RetryFires, bannerVars
  <2> QED
    BY <1>2, <2>1, ConsidersBeyond
<1>7. ASSUME NEW w \in Who, GoesOn(w)
      PROVE  autos > 0 \/ asks["retry"].at # "" \/ Over(c)
  <2>1. Up /\ Considers(checked, retry) /\ asks[w].at = "checked" /\ StatusOf(state) \in Reply
    BY <1>7, StatusIs DEF GoesOn
  <2>2. \A v \in Who \ {w} : asks'[v] = asks[v]
    BY <1>1, <1>7, <2>1, GoingIs, RespondsIs DEF GoesOn
  <2> QED
    BY <1>1, <1>2, <2>1, <2>2, ConsidersBeyond
<1>8. CASE CheckFetches \/ TimePasses \/ UNCHANGED updateVars
  BY <1>2, <1>8 DEF CheckFetches, TimePasses, updateVars, memory, bannerVars
<1>9. CASE CheckEnds
  <2>1. UNCHANGED autos /\ (asks["retry"].at = "" => asks'["retry"] = asks["retry"])
    BY <1>1, <1>9 DEF CheckEnds
  <2> QED
    BY <1>2, <2>1
<1>10. CASE OthersAsk \/ BannerReads \/ BannerClicks
  <2>1. UNCHANGED autos
    BY <1>10 DEF OthersAsk, BannerReads, BannerClicks, OnlyAsks, memory
  <2>2. ASSUME NEW w \in Who, w # "retry", NEW kind \in {"poll", "start", "told"}, NEW what,
               Requests(w, kind, what)
        PROVE  asks'["retry"] = asks["retry"]
    <3>1. \A v \in Who \ {w} : asks'[v] = asks[v]
      BY <1>1, <2>2, RequestsIs
    <3> QED
      BY <1>1, <2>2, <3>1
  <2>3. asks'["retry"] = asks["retry"]
    <3>1. CASE OthersAsk
      <4>1. PICK w \in Asker, kind \in {"start", "told"} : Requests(w, kind, "other")
        BY <3>1 DEF OthersAsk
      <4>2. w # "retry" /\ w \in Who /\ kind \in {"poll", "start", "told"}
        BY UpdateAssumption DEF Who
      <4> QED
        BY <2>2, <4>1, <4>2
    <3>2. "read" \in Who /\ "click" \in Who
      BY DEF Who
    <3>3. CASE BannerReads
      BY <2>2, <3>2, <3>3 DEF BannerReads
    <3>4. CASE BannerClicks
      BY <2>2, <3>2, <3>4 DEF BannerClicks
    <3> QED
      BY <1>10, <3>1, <3>3, <3>4
  <2> QED
    BY <1>2, <2>1, <2>3
<1>11. CASE BannerHears \/ ClickAnswered
  <2>1. UNCHANGED autos
    BY <1>11 DEF BannerHears, ClickAnswered, OnlyBanner, memory
  <2>2. asks'["retry"] = asks["retry"]
    <3> HIDE DEF NoAsk
    <3> QED
      BY <1>1, <1>11 DEF BannerHears, ClickAnswered, AskTable
  <2> QED
    BY <1>2, <2>1, <2>2
<1>12. ASSUME NEW w \in Who, Arrives(w)
       PROVE  autos > 0 \/ asks["retry"].at # ""
  <2>1. UNCHANGED autos /\ asks[w].at = "sent" /\ StatusOf(state) \in Reply /\ NoReply \in Reply
    BY <1>12, StatusIs, NoReplyIs DEF Arrives
  <2>2. \A v \in Who \ {w} : asks'[v] = asks[v]
    <3> DEFINE kind == asks[w].kind
    <3>1. \/ kind \in {"poll", "start", "told"} /\ JoinsCheck(w, kind)
          \/ Responds(w, StatusOf(state)) \/ Responds(w, NoReply)
          \/ asks' = [asks EXCEPT ![w].at = "going"]
      BY <1>12 DEF Arrives
    <3> HIDE DEF kind
    <3> QED
      BY <1>1, <2>1, <3>1, JoinsIs, RespondsIs, GoingIs
  <2> QED
    BY <1>1, <1>2, <2>1, <2>2
<1>13. CASE AutoGoesOn
  BY <1>13 DEF AutoGoesOn
<1>14. ASSUME NEW w \in Who, StartGoesOn(w)
       PROVE  autos > 0 \/ asks["retry"].at # ""
  <2>1. /\ UNCHANGED autos /\ asks[w].at = "going"
        /\ StatusOf("updating") \in Reply /\ NoReply \in Reply
    BY <1>14, StatusIs, NoReplyIs DEF StartGoesOn
  <2>2. \A v \in Who \ {w} : asks'[v] = asks[v]
    BY <1>1, <1>14, <2>1, RespondsIs DEF StartGoesOn
  <2> QED
    BY <1>1, <1>2, <2>1, <2>2
<1> QED
  BY <1>3, <1>4, <1>5, <1>6, <1>7, <1>8, <1>9, <1>10, <1>11, <1>12, <1>13, <1>14 DEF UpdateNext

\* Whoever did not move goes beyond what was given up as before.
LEMMA BeyondStays ==
  ASSUME UpdateTypeOK, UpdateTypeOK', NEW c \in Commit, StaysOver(c), tracking' >= tracking,
         NEW q \in Puller,
         PullBeyond(q, c), pulls'[q] = pulls[q],
         q \notin passed' => q \notin passed \/ pulls[q].at = "off"
  PROVE  PullBeyond(q, c)'
<1>1. tracking \in Nat /\ tracking' \in Nat /\ c \in Nat
  BY CommitsAre, TypesPrimed DEF Checkout, Commit
<1>2. tracking > c \/ Settled(c) => tracking' > c \/ Settled(c)'
  BY <1>1 DEF StaysOver
<1>3. Over(c) => Over(c)'
  BY DEF StaysOver
<1>4. q \in Moved' => q \in Moved
  BY DEF Moved
<1>5. CASE pulls[q].at = "off"
  BY <1>5 DEF PullBeyond, Moved
<1>6. CASE q \in passed'
  BY <1>6 DEF PullBeyond
<1>7. CASE q \notin passed /\ q \notin passed'
  <2>1. pulls'[q].auto = pulls[q].auto /\ pulls'[q].at = pulls[q].at
    OBVIOUS
  <2> HIDE DEF Moved, Over, Settled
  <2>2. CASE ~pulls[q].auto
    BY <2>1, <2>2 DEF PullBeyond
  <2>3. CASE pulls[q].auto
    BY <1>2, <1>3, <1>4, <1>7, <2>1, <2>3 DEF PullBeyond
  <2> QED
    BY <2>2, <2>3
<1> QED
  BY <1>5, <1>6, <1>7

LEMMA UnderwayMoves ==
  ASSUME UpdateTypeOK, UpdateTypeOK', NEW c \in Commit, StaysOver(c), tracking' >= tracking,
         Underway(c), NEW p \in Puller, \A q \in Puller \ {p} : pulls'[q] = pulls[q],
         \A q \in Puller \ {p} : q \notin passed' => q \notin passed \/ pulls[q].at = "off",
         PullBeyond(p, c)'
  PROVE  Underway(c)'
<1>1. ASSUME NEW q \in Puller, q # p
      PROVE  PullBeyond(q, c)'
  <2>1. PullBeyond(q, c)
    BY DEF Underway
  <2> QED
    BY <1>1, <2>1, BeyondStays
<1> QED
  BY <1>1 DEF Underway

LEMMA UnderwayStays ==
  ASSUME UpdateTypeOK, UpdateTypeOK', NEW c \in Commit, StaysOver(c), tracking' >= tracking,
         Underway(c), UNCHANGED <<pulls, passed>>
  PROVE  Underway(c)'
<1>1. ASSUME NEW q \in Puller
      PROVE  PullBeyond(q, c)'
  <2>1. PullBeyond(q, c)
    BY DEF Underway
  <2> QED
    BY <1>1, <2>1, BeyondStays
<1> QED
  BY <1>1 DEF Underway

\* A step after the fast-forward, and any that ends a pull.
LEMMA UnderwayGoesOn ==
  ASSUME UpdateTypeOK, UpdateTypeOK', NEW c \in Commit, StaysOver(c), tracking' >= tracking,
         Underway(c), UNCHANGED passed, NEW p \in Puller,
         \A q \in Puller \ {p} : pulls'[q] = pulls[q],
         \/ pulls'[p].at \in {"exit", "off"}
         \/ pulls'[p].at = "install" /\ pulls'[p].round = 2
         \/ /\ p \in Moved /\ pulls[p].at # "back"
            /\ pulls'[p].at \in {"build", "stop", "start", "wait", "back"}
            /\ pulls'[p].auto = pulls[p].auto /\ pulls'[p].round = pulls[p].round
            /\ pulls'[p].before = pulls[p].before /\ pulls'[p].after = pulls[p].after
  PROVE  Underway(c)'
<1>1. PullBeyond(p, c)
  BY DEF Underway
<1>2. CASE pulls'[p].at \in {"exit", "off"}
  BY <1>2, UnderwayMoves DEF PullBeyond, Moved
<1>3. CASE pulls'[p].at = "install" /\ pulls'[p].round = 2
  <2>1. PullBeyond(p, c)'
    BY <1>3 DEF PullBeyond
  <2> QED
    BY <2>1, UnderwayMoves
<1>4. CASE /\ p \in Moved /\ pulls[p].at # "back"
           /\ pulls'[p].at \in {"build", "stop", "start", "wait", "back"}
           /\ pulls'[p].auto = pulls[p].auto /\ pulls'[p].round = pulls[p].round
           /\ pulls'[p].before = pulls[p].before /\ pulls'[p].after = pulls[p].after
  <2>1. PullBeyond(p, c)'
    BY <1>1, <1>4 DEF PullBeyond
  <2> QED
    BY <2>1, UnderwayMoves
<1> QED
  BY <1>2, <1>3, <1>4

LEMMA UnderwayLock ==
  ASSUME UpdateTypeOK, UpdateTypeOK', OriginOK, NEW c \in Commit, StaysOver(c),
         tracking' >= tracking,
         Underway(c), NEW p \in Puller, ~met',
         \/ OpensLock(p) \/ WritesPid(p) \/ LooksAtLock(p) \/ RemovesLock(p) \/ Fetches(p)
  PROVE  Underway(c)'
<1>1. PullBeyond(p, c)
  BY DEF Underway
<1>2. CASE OpensLock(p) \/ LooksAtLock(p) \/ RemovesLock(p)
  <2>1. UNCHANGED passed
    BY <1>2 DEF OpensLock, LooksAtLock, RemovesLock, OnlyLock, company
  <2>2. /\ pulls[p].at \in {"open", "look", "remove"} /\ pulls'[p].auto = pulls[p].auto
        /\ pulls'[p].at \in {"write", "look", "refused", "remove", "open"}
        /\ \A q \in Puller \ {p} : pulls'[q] = pulls[q]
    BY <1>2, LockSteps DEF Moves
  <2>3. PullBeyond(p, c)'
    BY <1>1, <2>1, <2>2 DEF PullBeyond, Moved, StaysOver
  <2> QED
    BY <2>1, <2>2, <2>3, UnderwayMoves
<1>3. CASE WritesPid(p)
  <2>1. /\ pulls[p].at = "write" /\ Moves(p, "fetch") /\ passed' = Going \ {p} /\ p \notin passed
    BY <1>3, LockSteps DEF WritesPid
  <2>2. \A q \in Puller \ {p} : q \notin passed' => pulls[q].at = "off"
    BY <2>1 DEF Going
  <2>3. PullBeyond(p, c)'
    BY <1>1, <2>1 DEF PullBeyond, Moved, StaysOver, Moves
  <2> QED
    BY <2>1, <2>2, <2>3, UnderwayMoves DEF Moves
<1>4. CASE Fetches(p)
  <2>1. UNCHANGED <<passed, origin>> /\ pulls[p].at = "fetch" /\ pulls \in Pulls
    BY <1>4, TypesAre DEF Fetches, company, Processes
  <2>2. CASE Moves(p, "exit")
    BY <2>1, <2>2, UnderwayGoesOn DEF Moves
  <2>3. CASE Moves(p, "merge") /\ tracking' = origin
    <3>1. Over(c) => tracking' > c \/ Settled(c)'
      BY <2>3 DEF Over, StaysOver
    <3>2. PullBeyond(p, c)'
      BY <1>1, <2>1, <2>3, <3>1 DEF PullBeyond, Moved, StaysOver, Moves
    <3> QED
      BY <2>1, <2>3, <3>2, UnderwayMoves DEF Moves
  <2> QED
    BY <1>4, <2>1, <2>2, <2>3, LockSteps, FailsIs DEF Fetches
<1> QED
  BY <1>2, <1>3, <1>4

LEMMA UnderwayMerges ==
  ASSUME UpdateTypeOK, UpdateTypeOK', OriginOK, NEW c \in Commit, StaysOver(c),
         tracking' >= tracking,
         Underway(c), NEW p \in Puller, Merges(p)
  PROVE  Underway(c)'
<1>1. PullBeyond(p, c)
  BY DEF Underway
<1>2. /\ pulls[p].at = "merge" /\ UNCHANGED <<passed, tracking>> /\ pulls'[p].auto = pulls[p].auto
      /\ \A q \in Puller \ {p} : pulls'[q] = pulls[q]
      /\ \/ pulls'[p].at = "exit"
         \/ /\ pulls'[p].at = "install" /\ pulls'[p].before = head /\ pulls'[p].after = tracking
  BY TypesAre, MergesIs DEF Merges, Moves, Processes, Checkout, company
<1>3. CASE pulls'[p].at = "exit"
  BY <1>2, <1>3, UnderwayGoesOn
<1>4. CASE pulls'[p].at = "install" /\ pulls'[p].before = head /\ pulls'[p].after = tracking
  <2>1. ASSUME pulls[p].auto, p \notin passed, tracking = c
        PROVE  head = c
    BY <1>1, <1>2, <2>1, CommitsAre DEF PullBeyond, OriginOK, Settled
  <2>2. PullBeyond(p, c)'
    BY <1>2, <1>4, <2>1 DEF PullBeyond
  <2> QED
    BY <1>2, <2>2, UnderwayMoves
<1> QED
  BY <1>2, <1>3, <1>4

LEMMA UnderwayElsewhere ==
  ASSUME UpdateTypeOK, UpdateTypeOK', OriginOK, HereOK, NEW c \in Commit, StaysOver(c),
         Underway(c), Elsewhere, ~met'
  PROVE  Underway(c)'
<1>1. tracking' >= tracking
  <2>1. tracking' \in {tracking, origin}
    BY DEF Elsewhere, Push, HandTurns, ServerBoots, HandPulls, OpensLock, WritesPid, LooksAtLock,
       RemovesLock, OnlyLock, Fetches, Merges, Installs, Build, Start, Waits, RollsBack,
       checkoutVars
  <2> QED
    BY <2>1, CommitsAre DEF OriginOK
<1>2. CASE Push \/ HandTurns \/ ServerBoots
  <2>1. UNCHANGED <<pulls, passed>>
    BY <1>2 DEF Push, HandTurns, ServerBoots, company
  <2> QED
    BY <1>1, <2>1, UnderwayStays
<1>3. ASSUME NEW p \in Puller, HandPulls(p)
      PROVE  Underway(c)'
  <2>1. 0 \in 0 .. MaxStarts
    BY PullAssumption
  <2>2. ~pulls'[p].auto /\ \A q \in Puller \ {p} : pulls'[q] = pulls[q]
    BY <1>3, <2>1, StartedIs DEF HandPulls
  <2>3. \A q \in Puller \ {p} : q \notin passed' => q \notin passed
    BY <1>3 DEF HandPulls, Started
  <2>4. PullBeyond(p, c)'
    BY <2>2 DEF PullBeyond
  <2> QED
    BY <1>1, <2>2, <2>3, <2>4, UnderwayMoves
<1>4. ASSUME NEW p \in Puller, RollsBack(p)
      PROVE  Underway(c)'
  <2>1. /\ UNCHANGED passed
        /\ \A q \in Puller \ {p} : pulls'[q] = pulls[q]
        /\ \/ pulls'[p].at = "exit"
           \/ pulls'[p].at = "install" /\ pulls'[p].round = 2
    BY <1>4, TypesAre, RollsBackIs DEF RollsBack, Moves, Processes, company
  <2> QED
    BY <1>1, <2>1, UnderwayGoesOn
<1>5. ASSUME NEW p \in Puller, Installs(p) \/ Build(p) \/ Start(p) \/ Waits(p)
      PROVE  Underway(c)'
  <2>1. UNCHANGED passed
    BY <1>5 DEF Installs, Build, Start, Waits, company
  <2>2. p \in Moved /\ pulls[p].at # "back"
    BY <1>5, RestartSteps DEF Moved
  <2>3. \E stage \in {"build", "exit", "stop", "back", "wait"} : Moves(p, stage)
    BY <1>5, RestartSteps DEF RestartFailed
  <2> QED
    BY <1>1, <2>1, <2>2, <2>3, UnderwayGoesOn DEF Moves
<1> QED
  BY <1>1, <1>2, <1>3, <1>4, <1>5, UnderwayLock, UnderwayMerges DEF Elsewhere

LEMMA UnderwayStep ==
  ASSUME UpdateTypeOK, UpdateTypeOK', OriginOK, HereOK, MemoryOK, NEW c \in Commit, StaysOver(c),
         Willing(c), Underway(c), [UpdateNext]_updateVars, ~met'
  PROVE  Underway(c)'
<1>1. ASSUME NEW p \in Puller, ServerStops(p)
      PROVE  Underway(c)'
  <2>1. /\ UNCHANGED <<passed, tracking>> /\ p \in Moved /\ pulls[p].at = "stop"
        /\ Moves(p, "start")
    BY <1>1, RestartSteps DEF ServerStops, Stop, checkoutVars, company, Moved
  <2>2. tracking' >= tracking
    BY <2>1, CommitsAre
  <2> QED
    BY <2>1, <2>2, UnderwayGoesOn DEF Moves
<1>2. ASSUME NEW p \in Puller, PullEnds(p)
      PROVE  Underway(c)'
  <2>1. /\ UNCHANGED <<passed, tracking>> /\ pulls'[p] = Off
        /\ \A q \in Puller \ {p} : pulls'[q] = pulls[q]
    BY <1>2, EndsIs DEF PullEnds, Ends, checkoutVars, company
  <2>2. tracking' >= tracking
    BY <2>1, CommitsAre
  <2>3. pulls'[p].at = "off"
    BY <2>1 DEF Off
  <2> QED
    BY <2>1, <2>2, <2>3, UnderwayGoesOn
<1>3. CASE Aside
  <2>1. UNCHANGED <<pulls, passed>> /\ tracking' \in {tracking, origin}
    BY <1>3, AsideIs
  <2>2. tracking' >= tracking
    BY <2>1, CommitsAre DEF OriginOK
  <2> QED
    BY <2>1, <2>2, UnderwayStays
<1>4. CASE Begins
  <2>1. \A w \in Who : asks[w].kind = "auto" => w = "retry"
    BY DEF MemoryOK
  <2>2. UNCHANGED tracking
    BY <1>4, <2>1, BeginsIs
  <2>3. tracking' >= tracking
    BY <2>2, CommitsAre
  <2>4. CASE UNCHANGED <<pulls, passed>>
    BY <2>3, <2>4, UnderwayStays
  <2>5. ASSUME NEW p \in Puller, pulls'[p].at = "open", pulls'[p].auto => Decided,
               \A q \in Puller \ {p} : pulls'[q] = pulls[q],
               passed' = IF Past = {} THEN passed \ {p} ELSE passed \cup {p}
        PROVE  Underway(c)'
    <3>1. \A q \in Puller \ {p} : q \notin passed' => q \notin passed
      BY <2>5
    <3>2. pulls'[p].auto => Over(c)'
      BY <2>5 DEF Decided, Willing, StaysOver
    <3>3. PullBeyond(p, c)'
      BY <2>5, <3>2 DEF PullBeyond, Moved
    <3> QED
      BY <2>3, <2>5, <3>1, <3>3, UnderwayMoves
  <2> QED
    BY <1>4, <2>1, <2>4, <2>5, BeginsIs
<1>5. CASE Elsewhere
  BY <1>5, UnderwayElsewhere
<1> QED
  BY <1>1, <1>2, <1>3, <1>4, <1>5 DEF UpdateNext, Aside, Begins

\* Only a pull that nobody asked for gives a commit up, and goes back from it.
LEMMA TriedAnew ==
  ASSUME UpdateTypeOK, HereOK, MemoryOK, [UpdateNext]_updateVars, NEW c \in Commit, c \notin Tried,
         c \in Tried'
  PROVE  \E p \in Puller :
           /\ Build(p) \/ (Waits(p) /\ ~Up)
           /\ OnlyPull /\ ~InTurn
           /\ Moves(p, "back") /\ pulls[p].auto /\ pulls[p].round = 1 /\ pulls[p].after = c
<1>1. tried' # tried
  BY DEF Tried
<1>2. Elsewhere /\ OnlyPull /\ ~InTurn
  <2>1. CASE Aside
    BY <1>1, <2>1, AsideIs
  <2>2. CASE Begins
    <3>1. \A w \in Who : asks[w].kind = "auto" => w = "retry"
      BY DEF MemoryOK
    <3> QED
      BY <1>1, <2>2, <3>1, BeginsIs
  <2>3. ASSUME NEW p \in Puller, ServerStops(p) \/ PullEnds(p)
        PROVE  FALSE
    BY <1>1, <2>3 DEF ServerStops, PullEnds, Stop, Ends
  <2> QED
    BY <2>1, <2>2, <2>3 DEF UpdateNext, Aside, Begins
<1>3. PICK p \in Puller : Build(p) \/ Waits(p)
  <2>1. Push \/ HandTurns \/ ServerBoots => UNCHANGED tried
    BY DEF Push, HandTurns, ServerBoots
  <2>2. ASSUME NEW q \in Puller
        PROVE  /\ HandPulls(q) \/ OpensLock(q) \/ WritesPid(q) \/ LooksAtLock(q) \/ RemovesLock(q)
                  => UNCHANGED tried
               /\ Fetches(q) \/ Merges(q) \/ Installs(q) \/ RollsBack(q) => UNCHANGED tried
    BY DEF HandPulls, OpensLock, WritesPid, LooksAtLock, RemovesLock, OnlyLock, Fetches, Merges,
       Installs, RollsBack
  <2>3. ASSUME NEW q \in Puller, Start(q)
        PROVE  UNCHANGED tried
    BY <2>3, RestartSteps
  <2> QED
    BY <1>1, <1>2, <2>1, <2>2, <2>3 DEF Elsewhere
<1>4. RestartFailed(p) /\ (Build(p) \/ (Waits(p) /\ ~Up))
  BY <1>1, <1>3, RestartSteps
<1>5. Moves(p, "back") /\ GivesUp(p) /\ pulls[p].round = 1
  BY <1>1, <1>4, TypesAre DEF RestartFailed, Processes, Pulls, PullRecord
<1>6. pulls[p].auto /\ tried' = [tried EXCEPT ![pulls[p].after] = @ + 1]
  BY <1>1, <1>5 DEF GivesUp
<1>7. pulls[p].after = c
  <2>1. tried \in [Commit -> Nat]
    BY TypesAre DEF Histories
  <2> QED
    BY <1>6, <2>1 DEF Tried
<1> QED
  BY <1>2, <1>4, <1>5, <1>6, <1>7

\* Whoever gives a commit up is the only one about, and nobody has decided anything.
LEMMA DecidedAnew ==
  ASSUME UpdateTypeOK, HereOK, MemoryOK, LoneOK, OwnOK, [UpdateNext]_updateVars, NEW c \in Commit,
         c \notin Tried, c \in Tried'
  PROVE  Known(c)' /\ Willing(c)' /\ Underway(c)'
<1>1. PICK p \in Puller :
        /\ Build(p) \/ (Waits(p) /\ ~Up)
        /\ OnlyPull /\ ~InTurn
        /\ Moves(p, "back") /\ pulls[p].auto /\ pulls[p].round = 1 /\ pulls[p].after = c
  BY TriedAnew
<1>2. UNCHANGED <<srv, passed>> /\ UNCHANGED <<checked, state, autos, asks>>
  BY <1>1 DEF Build, Waits, company, OnlyPull, memory, bannerVars
<1>3. pulls[p].at \in {"build", "wait"} /\ p \in Past
  BY <1>1 DEF Build, Waits, Past
<1>4. p \notin passed /\ Going \ Past \subseteq passed /\ \A q \in Past : q = p
  <2> HIDE DEF Past, Going
  <2> QED
    BY <1>3 DEF LoneOK
<1>5. Up => state = "updating"
  <2>1. Up => pulls[p].at = "build"
    BY <1>1 DEF Build
  <2> QED
    BY <1>1, <1>4, <2>1 DEF OwnOK, OwnStages, RunsAhead, Up, Alive
<1>6. Known(c)'
  BY <1>2, <1>5 DEF Known, Up
<1>7. Willing(c)'
  <2>1. "retry" \in Who
    BY DEF Who
  <2>2. ~(autos > 0) /\ asks["retry"].at \notin {"checked", "going"}
    BY <1>1, <2>1 DEF InTurn
  <2>3. asks["retry"].at = ""
    BY <1>5, <2>2 DEF MemoryOK
  <2> QED
    BY <1>2, <2>2, <2>3 DEF Willing
<1>8. ASSUME NEW q \in Puller
      PROVE  PullBeyond(q, c)'
  <2>1. CASE q = p
    BY <1>1, <2>1 DEF PullBeyond, Moves
  <2>2. CASE q # p
    <3>1. q \in passed' \/ pulls'[q].at = "off"
      BY <1>1, <1>2, <1>4, <2>2 DEF Going, Moves
    <3> QED
      BY <3>1 DEF PullBeyond, Moved
  <2> QED
    BY <2>1, <2>2
<1> HIDE DEF Known, Willing, PullBeyond
<1> QED
  BY <1>6, <1>7, <1>8 DEF Underway

LEMMA DecidedStep ==
  ASSUME UpdateTypeOK, UpdateTypeOK', OriginOK, HereOK, MemoryOK, NewsOK, LoneOK, OwnOK,
         GivenUpOK, DecidedOK,
         [UpdateNext]_updateVars, ~met'
  PROVE  DecidedOK'
<1>1. ASSUME NEW c \in Commit, c \in Tried'
      PROVE  Known(c)' /\ Willing(c)' /\ Underway(c)'
  <2>1. CASE c \in Tried
    <3>1. GaveUp(c) /\ Known(c) /\ Willing(c) /\ Underway(c)
      BY <2>1 DEF GivenUpOK, DecidedOK
    <3>2. StaysOver(c)
      BY OverStep
    <3>3. c <= tracking
      BY <3>1 DEF GaveUp
    <3>4. Known(c)'
      BY <3>1, <3>3, KnownStep
    <3>5. Willing(c)'
      BY <3>1, <3>2, WillingStep
    <3>6. Underway(c)'
      BY <3>1, <3>2, UnderwayStep
    <3> QED
      BY <3>4, <3>5, <3>6
  <2>2. CASE c \notin Tried
    BY <1>1, <2>2, DecidedAnew
  <2> QED
    BY <2>1, <2>2
<1>2. \A c \in Tried' : c \in Commit
  BY DEF Tried
<1> HIDE DEF Known, Willing, Underway
<1> QED
  BY <1>1, <1>2 DEF DecidedOK

LEMMA OnceStep ==
  ASSUME UpdateTypeOK, UpdateTypeOK', OriginOK, HereOK, ChildOK, MemoryOK, NewsOK, OnceOK,
         [UpdateNext]_updateVars
  PROVE  OnceOK'
<1>1. SUFFICES ASSUME ~met'
               PROVE  LoneOK' /\ OwnOK' /\ BuiltOK' /\ GivenUpOK' /\ DecidedOK'
  BY DEF OnceOK
<1>2. LoneOK /\ OwnOK /\ BuiltOK /\ GivenUpOK /\ DecidedOK
  BY <1>1, MetStays DEF OnceOK
<1> QED
  BY <1>1, <1>2, LoneStep, OwnStep, BuiltStep, GivenStep, DecidedStep

LEMMA OnceBegins == UpdateInit => ChildOK /\ MemoryOK /\ NewsOK /\ OnceOK
<1> SUFFICES ASSUME UpdateInit PROVE ChildOK /\ MemoryOK /\ NewsOK /\ OnceOK
  OBVIOUS
<1>1. pulls = [p \in Puller |-> Off] /\ Off.at = "off" /\ Off.by = 0
  BY DEF UpdateInit, PullInit, Off
<1> HIDE DEF Off
<1>2. \A p \in Puller : pulls[p].at = "off" /\ pulls[p].by = 0
  BY <1>1
<1>3. srv = [id |-> 1, up |-> "yes", running |-> 0]
  BY DEF UpdateInit, PullInit
<1>4. Past = {} /\ Going = {} /\ Moved = {}
  BY <1>2 DEF Past, Going, Moved
<1>5. ChildOK
  BY <1>2, <1>3, <1>4 DEF ChildOK
<1>6. MemoryOK
  <2>1. \A w \in Who : asks[w].at = "" /\ asks[w].kind = "none"
    <3> HIDE DEF NoAsk
    <3> QED
      BY NoAskIs DEF UpdateInit
  <2>2. "retry" \in Who
    BY DEF Who
  <2>3. Up /\ checked = Absent
    BY <1>3 DEF Up, UpdateInit
  <2> QED
    BY <2>1, <2>2, <2>3 DEF MemoryOK
<1>7. Tried = {} /\ \A c \in Commit : tried[c] <= 1
  BY DEF Tried, UpdateInit, PullInit
<1>8. LoneOK
  <2> HIDE DEF Past, Going
  <2> QED
    BY <1>4 DEF LoneOK
<1>9. OwnOK /\ BuiltOK /\ NewsOK
  BY <1>2 DEF OwnOK, OwnStages, BuiltOK, NewsOK, UpdateInit
<1>10. GivenUpOK /\ DecidedOK
  <2> HIDE DEF Tried, Moved
  <2> QED
    BY <1>4, <1>7 DEF GivenUpOK, DecidedOK
<1> QED
  BY <1>5, <1>6, <1>8, <1>9, <1>10 DEF OnceOK

\* A commit that would not come up is given up once: no poll, no linked machine and no
\* wait for quiet has it pulled again, unless a pull went on beside or after another
\* that had passed it (update.ts, pull.js).
THEOREM CommitTriedOnce == UpdateSpec => []TriedOnce
<1>1. UpdateInit => UpdateTypeOK /\ OriginOK /\ HereOK /\ ChildOK /\ MemoryOK /\ NewsOK /\ OnceOK
  BY TypesBegin, LineBegins, WaitBegins, OnceBegins
<1>2. /\ UpdateTypeOK /\ OriginOK /\ HereOK /\ ChildOK /\ MemoryOK /\ NewsOK /\ OnceOK
      /\ [UpdateNext]_updateVars
      => (UpdateTypeOK /\ OriginOK /\ HereOK /\ ChildOK /\ MemoryOK /\ NewsOK /\ OnceOK)'
  BY TypesStep, LineStep, HereStep, ChildStep, MemoryStep, NewsStep, OnceStep
<1>3. OnceOK => TriedOnce
  BY DEF OnceOK, GivenUpOK, TriedOnce
<1> QED
  BY <1>1, <1>2, <1>3, PTL DEF UpdateSpec
=============================================================================
