------------------------------ MODULE Row_proofs ------------------------------
(***************************************************************************)
(* What the row of a page keeps, for any number of worktrees, reads and    *)
(* requests under way, and for any width.                                  *)
(***************************************************************************)
EXTENDS Row, FiniteSetTheorems, WellFoundedInduction, TLAPS

\* A set of naturals that is not empty has a least element.
LEMMA LeastOf ==
  ASSUME NEW S \in SUBSET Nat, S # {}
  PROVE  \E n \in S : \A m \in S : n <= m
<1> DEFINE T == {0..n : n \in S}
           R == StrictSubsetOrdering(Nat)
<1>1. T \subseteq FiniteSubsetsOf(Nat) /\ T # {}
  <2>1. \A n \in S : IsFiniteSet(0..n) /\ 0..n \in SUBSET Nat
    BY FS_Interval
  <2> QED
    BY <2>1 DEF FiniteSubsetsOf
<1>2. PICK x \in T : \A y \in T : ~(<<y, x>> \in R)
  BY <1>1, FS_StrictSubsetOrderingWellFounded, WFMin
<1>3. PICK n \in S : x = 0..n
  BY <1>2
<1>4. ASSUME NEW m \in S, ~(n <= m) PROVE FALSE
  <2>1. 0..m \subseteq 0..n /\ 0..m # 0..n /\ 0..m \in SUBSET Nat /\ 0..n \in SUBSET Nat
    <3>1. n \in 0..n /\ n \notin 0..m
      BY <1>4
    <3> QED
      BY <1>4, <3>1
  <2>2. <<0..m, 0..n>> \in R
    BY <2>1 DEF StrictSubsetOrdering
  <2> QED
    BY <1>2, <1>3, <2>2
<1> QED
  BY <1>4

\* Of rests, one is nearest to a place and the first of those as near.
LEMMA NearestOf ==
  ASSUME NEW S \in SUBSET Nat, S # {}, NEW want \in Int
  PROVE  \E o \in S : \A q \in S :
           \/ Distance(o, want) < Distance(q, want)
           \/ Distance(o, want) = Distance(q, want) /\ o <= q
<1> DEFINE D == {Distance(o, want) : o \in S}
<1>1. \A o \in S : Distance(o, want) \in Nat
  BY DEF Distance
<1>2. D \in SUBSET Nat /\ D # {}
  BY <1>1
<1>3. PICK d \in D : \A e \in D : d <= e
  BY <1>2, LeastOf
<1> DEFINE E == {o \in S : Distance(o, want) = d}
<1>4. E \in SUBSET Nat /\ E # {}
  OBVIOUS
<1>5. PICK o \in E : \A q \in E : o <= q
  BY <1>4, LeastOf
<1>6. ASSUME NEW q \in S
      PROVE  \/ Distance(o, want) < Distance(q, want)
             \/ Distance(o, want) = Distance(q, want) /\ o <= q
  <2>1. Distance(o, want) = d /\ d <= Distance(q, want)
    BY <1>3, <1>5
  <2>2. d \in Nat /\ Distance(q, want) \in Nat
    BY <1>1, <1>2, <1>3
  <2>3. CASE Distance(q, want) = d
    BY <1>5, <2>1, <2>3
  <2>4. CASE Distance(q, want) # d
    BY <2>1, <2>2, <2>4
  <2> QED
    BY <2>3, <2>4
<1> QED
  BY <1>5, <1>6

\* Where there is a rest that shows the whole window, the row is sent to one
\* (nearestOffset).
LEMMA NearestFits ==
  ASSUME NEW cell, NEW from \in Int, NEW capacity \in Nat, NEW rests \in SUBSET Nat,
         cell.at \in Nat, EndOf(cell) \in Nat,
         NEW o \in rests, EndOf(cell) - capacity <= o, o <= cell.at
  PROVE  /\ NearestOffset(cell, from, capacity, rests) \in rests
         /\ Whole(cell, NearestOffset(cell, from, capacity, rests), capacity)
<1> DEFINE lo == EndOf(cell) - capacity
           want == Least(Most(from, lo), cell.at)
           fits == {q \in rests : lo <= q /\ q <= cell.at}
           best == CHOOSE q \in fits : \A r \in fits :
                     \/ Distance(q, want) < Distance(r, want)
                     \/ Distance(q, want) = Distance(r, want) /\ q <= r
<1>1. fits # {} /\ fits \in SUBSET Nat
  OBVIOUS
<1>2. want \in Int
  BY DEF Least, Most
<1>3. \E q \in fits : \A r \in fits :
        \/ Distance(q, want) < Distance(r, want)
        \/ Distance(q, want) = Distance(r, want) /\ q <= r
  <2> HIDE DEF fits, want
  <2> QED
    BY <1>1, <1>2, NearestOf
<1>4. best \in fits
  <2> HIDE DEF fits, want
  <2> QED
    BY <1>3
<1>5. NearestOffset(cell, from, capacity, rests) = best
  BY <1>1 DEF NearestOffset
<1>6. best \in rests /\ lo <= best /\ best <= cell.at /\ best \in Nat
  <2> HIDE DEF best
  <2> QED
    BY <1>4
<1>7. Whole(cell, best, capacity)
  <2> HIDE DEF best
  <2> QED
    BY <1>6 DEF Whole
<1> QED
  BY <1>5, <1>6, <1>7

\* Every window of a row can be shown whole: of its own leading edge and the far
\* end one is a rest that shows it, as no window is wider than the screen
\* (panesOf, rest, nearestOffset).
THEOREM WindowShownWhole ==
  ASSUME NEW cells, NEW capacity \in Nat, NEW from \in Int,
         Len(cells) \in Nat, NEW i \in 1..Len(cells),
         \A j \in 1..Len(cells) :
           /\ cells[j].at \in Nat
           /\ UnitsOf(cells[j]) \in Nat
           /\ cells[j].panes[1].units \in Nat
           /\ EndOf(cells[j]) <= EndOf(cells[Len(cells)]),
         UnitsOf(cells[i]) <= capacity
  PROVE  LET to == NearestOffset(cells[i], from, capacity, Rests(cells, capacity))
         IN to \in Rests(cells, capacity) /\ Whole(cells[i], to, capacity)
<1> DEFINE last == LastOffset(cells, capacity)
           rests == Rests(cells, capacity)
<1>1. \A j \in 1..Len(cells) : EndOf(cells[j]) \in Nat /\ EndOf(cells[j]) = cells[j].at + UnitsOf(cells[j])
  BY DEF EndOf
<1>2. last \in Nat /\ EndOf(cells[i]) - capacity <= last
  BY <1>1 DEF LastOffset, Most
<1>3. rests \in SUBSET Nat
  BY <1>2 DEF Rests
<1>4. last \in rests
  BY DEF Rests
<1>5. cells[i].at < last => cells[i].at \in rests
  BY DEF Rests
<1>6. EndOf(cells[i]) - capacity <= cells[i].at
  BY <1>1
<1>7. PICK o \in rests : EndOf(cells[i]) - capacity <= o /\ o <= cells[i].at
  <2>1. CASE cells[i].at < last
    BY <1>5, <1>6, <2>1
  <2>2. CASE ~(cells[i].at < last)
    BY <1>2, <1>4, <2>2
  <2> QED
    BY <2>1, <2>2
<1>8. cells[i].at \in Nat /\ EndOf(cells[i]) \in Nat
  BY <1>1
<1> HIDE DEF rests
<1> QED
  BY <1>3, <1>7, <1>8, NearestFits DEF rests

(***************************************************************************)
(* The windows in order.  Ordered is a recursive function: it exists, and  *)
(* what it comes to is shown for the least prefix it could fail at.        *)
(***************************************************************************)

\* f orders S up to the i-th of the row, for each i up to n.
Orders(f, S, n) ==
  f = [i \in 0..n |-> IF i = 0 THEN <<>>
                      ELSE IF InOrder[i] \in S THEN Append(f[i - 1], InOrder[i]) ELSE f[i - 1]]

LEMMA OrdersExist ==
  ASSUME NEW S, NEW n \in Nat
  PROVE  \E f : Orders(f, S, n)
<1> DEFINE Bad == {m \in Nat : ~ \E f : Orders(f, S, m)}
<1>1. CASE Bad = {}
  BY <1>1
<1>2. CASE Bad # {}
  <2>1. PICK m \in Bad : \A k \in Bad : m <= k
    <3> HIDE DEF Bad
    <3>1. Bad \in SUBSET Nat
      BY DEF Bad
    <3> QED
      BY <1>2, <3>1, LeastOf
  <2>2. CASE m = 0
    <3> DEFINE f == [i \in 0..0 |-> <<>>]
    <3>1. Orders(f, S, 0)
      BY DEF Orders
    <3> QED
      BY <2>1, <2>2, <3>1
  <2>3. CASE m # 0
    <3>1. m \in Nat /\ m - 1 \in Nat /\ m - 1 \notin Bad
      BY <2>1, <2>3
    <3>2. PICK g : Orders(g, S, m - 1)
      BY <3>1
    <3> DEFINE h == [i \in 0..m |->
                 IF i = m THEN IF InOrder[m] \in S THEN Append(g[m - 1], InOrder[m]) ELSE g[m - 1]
                 ELSE g[i]]
    <3>3. \A i \in 0..m : h[i] =
            IF i = 0 THEN <<>>
            ELSE IF InOrder[i] \in S THEN Append(h[i - 1], InOrder[i]) ELSE h[i - 1]
      <4> TAKE i \in 0..m
      <4>1. CASE i = m
        BY <2>3, <3>1, <4>1
      <4>2. CASE i # m
        <5>1. i \in 0..(m - 1) /\ h[i] = g[i] /\ (i # 0 => i - 1 \in 0..m /\ h[i - 1] = g[i - 1])
          BY <3>1, <4>2
        <5> QED
          BY <3>2, <5>1 DEF Orders
      <4> QED
        BY <4>1, <4>2
    <3>4. Orders(h, S, m)
      BY <3>3 DEF Orders
    <3> QED
      BY <2>1, <3>4
  <2> QED
    BY <2>2, <2>3
<1> QED
  BY <1>1, <1>2

LEMMA RowIsFinite == Len(InOrder) \in Nat /\ DOMAIN InOrder = 1..Len(InOrder)
BY RowAssumption

\* What is ordered is a sequence of S, and of all of it there is something.
LEMMA OrderedIs ==
  ASSUME NEW S
  PROVE  /\ Ordered(S) \in Seq(S)
         /\ S \cap Worktree # {} => Len(Ordered(S)) > 0
<1> DEFINE n == Len(InOrder)
           f == CHOOSE g : Orders(g, S, n)
<1>1. n \in Nat
  BY RowIsFinite
<1>2. Orders(f, S, n)
  BY <1>1, OrdersExist
<1>3. Ordered(S) = f[n]
  BY DEF Ordered, Orders
<1> HIDE DEF f
<1>4. \A i \in 0..n : f[i] =
        IF i = 0 THEN <<>>
        ELSE IF InOrder[i] \in S THEN Append(f[i - 1], InOrder[i]) ELSE f[i - 1]
  BY <1>2 DEF Orders
<1> HIDE DEF n
<1> DEFINE Good(i) == /\ f[i] \in Seq(S)
                      /\ (\E j \in 1..i : InOrder[j] \in S) => Len(f[i]) > 0
           Bad == {i \in 0..n : ~Good(i)}
<1>5. CASE Bad = {}
  <2>1. Good(n)
    BY <1>1, <1>5
  <2>2. S \cap Worktree # {} => \E j \in 1..n : InOrder[j] \in S
    BY DEF Worktree, n
  <2> QED
    BY <1>3, <2>1, <2>2
<1>6. CASE Bad # {}
  <2>1. PICK i \in Bad : \A k \in Bad : i <= k
    <3>1. Bad \in SUBSET Nat
      OBVIOUS
    <3> HIDE DEF Bad
    <3> QED
      BY <1>6, <3>1, LeastOf
  <2>2. i \in 0..n /\ i \in Nat
    BY <1>1, <2>1
  <2>3. CASE i = 0
    <3>1. f[0] = <<>>
      BY <1>1, <1>4
    <3>2. f[0] \in Seq(S) /\ ~(\E j \in 1..0 : InOrder[j] \in S)
      BY <3>1
    <3>3. Good(0)
      BY <3>2
    <3> QED
      BY <2>1, <2>3, <3>3
  <2>4. CASE i # 0
    <3>1. i - 1 \in 0..n /\ i - 1 \notin Bad
      BY <1>1, <2>1, <2>2, <2>4
    <3>2. Good(i - 1)
      BY <3>1
    <3>3. f[i] = IF InOrder[i] \in S THEN Append(f[i - 1], InOrder[i]) ELSE f[i - 1]
      BY <1>4, <2>2, <2>4
    <3>4. CASE InOrder[i] \in S
      <4>1. f[i] = Append(f[i - 1], InOrder[i]) /\ f[i - 1] \in Seq(S)
        BY <3>2, <3>3, <3>4
      <4>2. f[i] \in Seq(S) /\ Len(f[i]) > 0
        <5> HIDE DEF Bad
        <5> QED
        BY <3>4, <4>1
      <4> QED
        BY <2>1, <4>2
    <3>5. CASE InOrder[i] \notin S
      <4>1. f[i] = f[i - 1]
        BY <3>3, <3>5
      <4>2. (\E j \in 1..i : InOrder[j] \in S) => \E j \in 1..(i - 1) : InOrder[j] \in S
        BY <2>2, <3>5
      <4> QED
        BY <2>1, <3>2, <4>1, <4>2
    <3> QED
      BY <3>4, <3>5
  <2> QED
    BY <2>3, <2>4
<1> QED
  BY <1>5, <1>6

LEMMA EndsAreIn ==
  ASSUME NEW S \in SUBSET Worktree, S # {}
  PROVE  LastIn(S) \in S /\ FirstIn(S) \in S
BY OrderedIs DEF LastIn, FirstIn

(***************************************************************************)
(* The cells of a row: one after the other, none wider than the screen.    *)
(***************************************************************************)

\* f lays the first i windows after the project's own pane, for each i up to n.
Lays(f, windows, panels, capacity, n) ==
  f = [i \in 0..n |->
        IF i = 0 THEN <<Cell("project", <<Pane("project", 1)>>, 0)>>
        ELSE Append(f[i - 1], Cell(windows[i], PanesOf(panels[windows[i]], capacity),
                                   EndOf(f[i - 1][i])))]

LEMMA LaysExist ==
  ASSUME NEW windows, NEW panels, NEW capacity, NEW n \in Nat
  PROVE  \E f : Lays(f, windows, panels, capacity, n)
<1> DEFINE Next1(s, i) == Append(s, Cell(windows[i], PanesOf(panels[windows[i]], capacity), EndOf(s[i])))
           First == <<Cell("project", <<Pane("project", 1)>>, 0)>>
           Is(f, m) == f = [i \in 0..m |-> IF i = 0 THEN First ELSE Next1(f[i - 1], i)]
           Bad == {m \in Nat : ~ \E f : Is(f, m)}
<1>1. CASE Bad = {}
  <2>1. \E f : Is(f, n)
    BY <1>1
  <2> QED
    BY <2>1 DEF Lays
<1>2. CASE Bad # {}
  <2> HIDE DEF Next1, First
  <2>1. PICK m \in Bad : \A k \in Bad : m <= k
    <3> HIDE DEF Bad
    <3>1. Bad \in SUBSET Nat
      BY DEF Bad
    <3> QED
      BY <1>2, <3>1, LeastOf
  <2>2. CASE m = 0
    <3> DEFINE f == [i \in 0..0 |-> First]
    <3>1. Is(f, 0)
      OBVIOUS
    <3> QED
      BY <2>1, <2>2, <3>1
  <2>3. CASE m # 0
    <3>1. m \in Nat /\ m - 1 \in Nat /\ m - 1 \notin Bad
      BY <2>1, <2>3
    <3>2. PICK g : Is(g, m - 1)
      BY <3>1
    <3> DEFINE h == [i \in 0..m |-> IF i = m THEN Next1(g[m - 1], m) ELSE g[i]]
    <3>3. \A i \in 0..m : h[i] = IF i = 0 THEN First ELSE Next1(h[i - 1], i)
      <4> TAKE i \in 0..m
      <4>1. CASE i = m
        BY <2>3, <3>1, <4>1
      <4>2. CASE i # m
        <5>1. i \in 0..(m - 1) /\ h[i] = g[i] /\ (i # 0 => i - 1 \in 0..m /\ h[i - 1] = g[i - 1])
          BY <3>1, <4>2
        <5> QED
          BY <3>2, <5>1
      <4> QED
        BY <4>1, <4>2
    <3>4. Is(h, m)
      BY <3>3
    <3> QED
      BY <2>1, <3>4
  <2> QED
    BY <2>2, <2>3
<1> QED
  BY <1>1, <1>2

\* What panesOf answers fits on the screen, whatever the panel.
LEMMA PanesFit ==
  ASSUME NEW p, NEW capacity \in Nat, 2 <= capacity, NEW key, NEW at \in Nat
  PROVE  LET cell == Cell(key, PanesOf(p, capacity), at)
         IN /\ cell.at = at
            /\ UnitsOf(cell) \in Nat /\ UnitsOf(cell) <= capacity
            /\ cell.panes[1].units \in Nat
<1>1. Wants(p) \in 1..3
  BY DEF Wants
<1> DEFINE panel == Least(Wants(p), capacity)
<1>2. panel \in Nat /\ panel <= capacity /\ Least(2, capacity) = 2
  BY <1>1 DEF Least
<1> HIDE DEF panel
<1>3. CASE PanesOf(p, capacity) = <<Pane("claude", 2)>>
  BY <1>3 DEF Cell, UnitsOf, Pane
<1>4. CASE PanesOf(p, capacity) = <<Pane("claude", 2), Pane(p, panel)>> /\ 2 + panel <= capacity
  BY <1>2, <1>4 DEF Cell, UnitsOf, Pane
<1>5. CASE PanesOf(p, capacity) = <<Pane(p, capacity)>>
  BY <1>5 DEF Cell, UnitsOf, Pane
<1> QED
  BY <1>2, <1>3, <1>4, <1>5 DEF PanesOf, Pane, panel

\* A cell that is somewhere in the row and fits on the screen.
Fits(cell, capacity) ==
  /\ cell.at \in Nat
  /\ UnitsOf(cell) \in Nat /\ UnitsOf(cell) <= capacity
  /\ cell.panes[1].units \in Nat

\* The row built by Cells is a row in which each cell fits and the last ends
\* furthest.
LEMMA CellsFollow ==
  ASSUME NEW windows, Len(windows) \in Nat, NEW panels, NEW capacity \in Nat, 2 <= capacity
  PROVE  LET cells == Cells(windows, panels, capacity, FALSE)
         IN /\ Len(cells) \in Nat /\ Len(cells) > 0
            /\ \A j \in 1..Len(cells) : /\ Fits(cells[j], capacity)
                                        /\ EndOf(cells[j]) <= EndOf(cells[Len(cells)])
<1> DEFINE n == Len(windows)
           Project == Cell("project", <<Pane("project", 1)>>, 0)
           Window(i, at) == Cell(windows[i], PanesOf(panels[windows[i]], capacity), at)
           Machine(at) == Cell("machine", <<Pane("machine", Least(2, capacity))>>, at)
           f == CHOOSE g : Lays(g, windows, panels, capacity, n)
           C == {c \in {Project} \cup {Window(i, at) : i \in 1..n, at \in Nat}
                       \cup {Machine(at) : at \in Nat} : Fits(c, capacity)}
<1>1. Lays(f, windows, panels, capacity, n)
  BY LaysExist
<1>2. Cells(windows, panels, capacity, FALSE) = Append(f[n], Machine(EndOf(f[n][n + 1])))
  BY DEF Cells, Lays
<1> HIDE DEF f
<1>3. f[0] = <<Project>> /\ \A i \in 1..n : f[i] = Append(f[i - 1], Window(i, EndOf(f[i - 1][i])))
  <2>1. f = [i \in 0..n |-> IF i = 0 THEN <<Project>>
                            ELSE Append(f[i - 1], Window(i, EndOf(f[i - 1][i])))]
    BY <1>1 DEF Lays
  <2> HIDE DEF Project, Window
  <2>2. n \in Nat
    OBVIOUS
  <2> HIDE DEF n
  <2>3. \A i \in 0..n : f[i] = IF i = 0 THEN <<Project>> ELSE Append(f[i - 1], Window(i, EndOf(f[i - 1][i])))
    BY <2>1
  <2> HIDE DEF Lays
  <2>4. 0 \in 0..n /\ \A i \in 1..n : i \in 0..n /\ i # 0
    BY <2>2
  <2> QED
    BY <2>3, <2>4
<1>4. Project \in C
  BY DEF Cell, UnitsOf, Pane, Fits
<1>5. \A i \in 1..n, at \in Nat : Window(i, at) \in C /\ Window(i, at).at = at
  <2> TAKE i \in 1..n, at \in Nat
  <2>1. Fits(Window(i, at), capacity) /\ Window(i, at).at = at
    BY PanesFit DEF Fits
  <2> HIDE DEF Window, n
  <2>2. Window(i, at) \in {Window(j, x) : j \in 1..n, x \in Nat}
    OBVIOUS
  <2>3. \A c : c \in {Window(j, x) : j \in 1..n, x \in Nat} /\ Fits(c, capacity) => c \in C
    OBVIOUS
  <2> HIDE DEF C
  <2> QED
    BY <2>1, <2>2, <2>3
<1>6. \A at \in Nat : Machine(at) \in C /\ Machine(at).at = at
  <2> TAKE at \in Nat
  <2>1. Fits(Machine(at), capacity) /\ Machine(at).at = at
    BY DEF Cell, UnitsOf, Pane, Fits, Least
  <2> HIDE DEF Machine
  <2> QED
    BY <2>1
<1>7. \A c \in C : Fits(c, capacity) /\ EndOf(c) \in Nat /\ c.at <= EndOf(c)
  <2> TAKE c \in C
  <2>1. Fits(c, capacity)
    OBVIOUS
  <2> HIDE DEF C
  <2> QED
    BY <2>1 DEF Fits, EndOf
<1> HIDE DEF C, Project, Window, Machine
<1> DEFINE Good(s, i) == /\ s \in Seq(C) /\ Len(s) = i + 1
                         /\ \A j \in 1..(i + 1) : EndOf(s[j]) <= EndOf(s[i + 1])
<1>8. ASSUME NEW s, NEW i \in Nat, Good(s, i), NEW c \in C, c.at = EndOf(s[i + 1])
      PROVE  Good(Append(s, c), i + 1)
  <2> DEFINE t == Append(s, c)
  <2>1. t \in Seq(C) /\ Len(t) = i + 2 /\ t[i + 2] = c /\ \A j \in 1..(i + 1) : t[j] = s[j] /\ s[j] \in C
    BY <1>8
  <2>2. ASSUME NEW j \in 1..(i + 2) PROVE EndOf(t[j]) <= EndOf(t[i + 2])
    <3> HIDE DEF t
    <3>1. CASE j = i + 2
      BY <1>7, <2>1, <3>1
    <3>2. CASE j \in 1..(i + 1)
      <4>1. EndOf(s[j]) \in Nat /\ EndOf(s[i + 1]) \in Nat /\ EndOf(c) \in Nat /\ c.at <= EndOf(c)
        BY <1>7, <2>1, <3>2
      <4> QED
        BY <1>8, <2>1, <3>2, <4>1
    <3> QED
      BY <3>1, <3>2
  <2> QED
    BY <2>1, <2>2
<1> DEFINE Bad == {i \in 0..n : ~Good(f[i], i)}
<1>9. Bad = {}
  <2>1. SUFFICES ASSUME Bad # {} PROVE FALSE
    OBVIOUS
  <2>2. PICK i \in Bad : \A k \in Bad : i <= k
    <3>1. Bad \in SUBSET Nat
      OBVIOUS
    <3> HIDE DEF Bad
    <3> QED
      BY <2>1, <3>1, LeastOf
  <2>3. i \in 0..n /\ i \in Nat /\ ~Good(f[i], i)
    BY <2>2
  <2>4. CASE i = 0
    <3>1. Good(<<Project>>, 0)
      BY <1>4, <1>7
    <3> QED
      BY <1>3, <2>3, <2>4, <3>1
  <2>5. CASE i # 0
    <3>1. i - 1 \in 0..n /\ i - 1 \notin Bad /\ i \in 1..n /\ i - 1 \in Nat
      BY <2>2, <2>3, <2>5
    <3>2. Good(f[i - 1], i - 1)
      BY <3>1
    <3>3. f[i - 1][i] \in C
      BY <3>1, <3>2
    <3>4. EndOf(f[i - 1][i]) \in Nat
      BY <1>7, <3>3
    <3> DEFINE c == Window(i, EndOf(f[i - 1][i]))
    <3>5. c \in C /\ c.at = EndOf(f[i - 1][i]) /\ f[i] = Append(f[i - 1], c)
      BY <1>3, <1>5, <3>1, <3>4
    <3> HIDE DEF c, Good
    <3>6. Good(Append(f[i - 1], c), (i - 1) + 1)
      BY <1>8, <3>1, <3>2, <3>5
    <3> QED
      BY <2>3, <3>1, <3>5, <3>6
  <2> QED
    BY <2>4, <2>5
<1>10. Good(f[n], n) /\ n \in Nat
  BY <1>9
<1> DEFINE m == Machine(EndOf(f[n][n + 1]))
<1>11. m \in C /\ m.at = EndOf(f[n][n + 1])
  <2> HIDE DEF n
  <2>1. f[n][n + 1] \in C
    BY <1>10
  <2>2. EndOf(f[n][n + 1]) \in Nat
    BY <1>7, <2>1
  <2> QED
    BY <1>6, <2>2
<1> HIDE DEF m
<1>12. Good(Append(f[n], m), n + 1)
  <2> HIDE DEF Good, n
  <2> QED
    BY <1>8, <1>10, <1>11
<1> DEFINE cells == Append(f[n], m)
<1>13. Len(cells) = n + 2 /\ cells \in Seq(C) /\ \A j \in 1..Len(cells) : EndOf(cells[j]) <= EndOf(cells[Len(cells)])
  <2>1. (n + 1) + 1 = n + 2 /\ n + 2 \in Nat
    BY <1>10
  <2> HIDE DEF n, cells
  <2> QED
    BY <1>12, <2>1 DEF cells
<1>14. \A j \in 1..Len(cells) : Fits(cells[j], capacity)
  <2>1. \A j \in 1..Len(cells) : cells[j] \in C
    <3> HIDE DEF cells
    <3> QED
      BY <1>13
  <2> QED
    BY <1>7, <2>1
<1>15. Cells(windows, panels, capacity, FALSE) = cells
  BY <1>2 DEF m
<1>16. Len(cells) \in Nat /\ Len(cells) > 0
  <2> HIDE DEF cells, n
  <2> QED
    BY <1>10, <1>13
<1> HIDE DEF cells
<1> QED
  BY <1>13, <1>14, <1>15, <1>16

\* Wherever the row rests, it can come to rest with any window whole on screen,
\* at any width (panesOf, nearestOffset): not only at the five of the run.
THEOREM AlwaysRevealable ==
  ASSUME NEW p, NEW capacity \in Nat, 2 <= capacity
  PROVE  LET cells == Cells(Windows(p), PanelOf(p), capacity, FALSE)
             rests == Rests(cells, capacity)
         IN \A i \in 1..Len(cells), from \in rests :
              LET to == NearestOffset(cells[i], from, capacity, rests)
              IN to \in rests /\ Whole(cells[i], to, capacity)
<1> DEFINE cells == Cells(Windows(p), PanelOf(p), capacity, FALSE)
<1>1. Len(Windows(p)) \in Nat
  BY OrderedIs DEF Windows
<1>2. Len(cells) \in Nat /\ Len(cells) > 0 /\ \A j \in 1..Len(cells) : /\ Fits(cells[j], capacity)
                                                    /\ EndOf(cells[j]) <= EndOf(cells[Len(cells)])
  BY <1>1, CellsFollow
<1> HIDE DEF cells
<1>3. Rests(cells, capacity) \subseteq Int
  <2>1. \A j \in 1..Len(cells) : cells[j].at \in Nat /\ cells[j].panes[1].units \in Nat /\ EndOf(cells[j]) \in Nat
    BY <1>2 DEF Fits, EndOf
  <2>2. LastOffset(cells, capacity) \in Int
    BY <1>2, <2>1 DEF LastOffset, Most
  <2> QED
    BY <2>1, <2>2 DEF Rests
<1>4. ASSUME NEW i \in 1..Len(cells), NEW from \in Rests(cells, capacity)
      PROVE  LET to == NearestOffset(cells[i], from, capacity, Rests(cells, capacity))
             IN to \in Rests(cells, capacity) /\ Whole(cells[i], to, capacity)
  <2>1. \A j \in 1..Len(cells) :
           /\ cells[j].at \in Nat
           /\ UnitsOf(cells[j]) \in Nat
           /\ cells[j].panes[1].units \in Nat
           /\ EndOf(cells[j]) <= EndOf(cells[Len(cells)])
    BY <1>2 DEF Fits
  <2>2. UnitsOf(cells[i]) <= capacity /\ from \in Int
    BY <1>2, <1>3 DEF Fits
  <2> QED
    BY <1>2, <2>1, <2>2, WindowShownWhole
<1> QED
  BY <1>4 DEF cells

\* The same of every state of the row, at the widths the property names (stepRow,
\* nearestOffset).
THEOREM EveryWindowInReach == Spec => []Revealable
<1>1. Revealable
  <2>1. \A capacity \in 2..6 : capacity \in Nat /\ 2 <= capacity
    OBVIOUS
  <2> QED
    BY <2>1, AlwaysRevealable DEF Revealable
<1> QED
  BY <1>1, PTL

(***************************************************************************)
(* A render: what the effects of the page leave alone.                     *)
(***************************************************************************)

\* q is p but for what a change of the layout, or of where the keyboard is,
\* touches.
Touches(p, q) ==
  /\ PageOK(q)
  /\ q.seen = p.seen /\ q.loaded = p.loaded /\ q.adopted = p.adopted /\ q.fresh = p.fresh
  /\ q.link = p.link /\ q.pending = p.pending /\ q.departing = p.departing
  /\ q.ui.days = p.ui.days
  /\ p.patch \subseteq q.patch
  /\ \A k \in Key : k \in q.patch \/ q.ui[k] = p.ui[k]

LEMMA TouchesSelf ==
  ASSUME NEW p, PageOK(p)
  PROVE  Touches(p, p)
BY DEF Touches

LEMMA TouchesMore ==
  ASSUME NEW p, NEW q, NEW r, Touches(p, q), Touches(q, r)
  PROVE  Touches(p, r)
BY DEF Touches

LEMMA SetUiTouches ==
  ASSUME NEW p, PageOK(p), NEW key \in {"panels", "files", "where"}, NEW value,
         key = "panels" => value \in [Worktree -> Panel],
         key = "files" => value \in [Worktree -> BOOLEAN]
  PROVE  /\ Touches(p, SetUi(p, key, value))
         /\ SetUi(p, key, value).started = p.started
         /\ SetUi(p, key, value).active = p.active
         /\ SetUi(p, key, value).patch = p.patch \cup {key}
         /\ SetUi(p, key, value).ui[key] = value
         /\ \A k \in Key \ {key} : SetUi(p, key, value).ui[k] = p.ui[k]
<1> DEFINE q == SetUi(p, key, value)
           ui == [p.ui EXCEPT ![key] = value]
<1>1. /\ DOMAIN q = DOMAIN p
      /\ q.ui = ui /\ q.patch = p.patch \cup {key}
      /\ q.seen = p.seen /\ q.loaded = p.loaded /\ q.adopted = p.adopted /\ q.fresh = p.fresh
      /\ q.link = p.link /\ q.pending = p.pending /\ q.departing = p.departing
      /\ q.active = p.active /\ q.started = p.started
  BY DEF SetUi, PageOK
<1>2. DOMAIN ui = Key /\ key \in Key /\ ui[key] = value /\ \A k \in Key \ {key} : ui[k] = p.ui[k]
  BY DEF PageOK, UiOK, Key
<1> HIDE DEF q, ui
<1>3. UiOK(ui)
  BY <1>2 DEF UiOK, PageOK, Key
<1>4. PageOK(q)
  BY <1>1, <1>2, <1>3 DEF PageOK
<1>5. ui.days = p.ui.days
  BY <1>2 DEF Key
<1> QED
  BY <1>1, <1>2, <1>4, <1>5 DEF Touches, q

LEMMA SetPanelTouches ==
  ASSUME NEW p, PageOK(p), NEW w \in Worktree, NEW panel \in Panel
  PROVE  /\ Touches(p, SetPanel(p, w, panel))
         /\ SetPanel(p, w, panel).ui.panels = [p.ui.panels EXCEPT ![w] = panel]
         /\ SetPanel(p, w, panel).ui.files = p.ui.files
<1>1. [p.ui.panels EXCEPT ![w] = panel] \in [Worktree -> Panel]
  BY DEF PageOK, UiOK
<1> QED
  BY <1>1, SetUiTouches DEF SetPanel, Key

\* What reveal and the arrival change is not looked at.
LEMMA RevealTouches ==
  ASSUME NEW p, PageOK(p), NEW there
  PROVE  /\ Touches(p, [p EXCEPT !.active = there])
         /\ Touches(p, [p EXCEPT !.started = TRUE])
         /\ [p EXCEPT !.active = there].ui = p.ui
         /\ [p EXCEPT !.started = TRUE].ui = p.ui
         /\ [p EXCEPT !.active = there].patch = p.patch
         /\ [p EXCEPT !.started = TRUE].patch = p.patch
<1>1. ASSUME NEW q, DOMAIN q = DOMAIN p,
             \A f \in DOMAIN p \ {"active", "started"} : q[f] = p[f]
      PROVE  Touches(p, q) /\ q.ui = p.ui /\ q.patch = p.patch
  <2>1. /\ q.seen = p.seen /\ q.loaded = p.loaded /\ q.adopted = p.adopted /\ q.fresh = p.fresh
        /\ q.link = p.link /\ q.pending = p.pending /\ q.departing = p.departing
        /\ q.ui = p.ui /\ q.patch = p.patch
    BY <1>1 DEF PageOK
  <2>2. PageOK(q)
    BY <1>1, <2>1 DEF PageOK
  <2> QED
    BY <2>1, <2>2 DEF Touches
<1> DEFINE a == [p EXCEPT !.active = there]
           b == [p EXCEPT !.started = TRUE]
<1>2. DOMAIN a = DOMAIN p /\ \A f \in DOMAIN p \ {"active", "started"} : a[f] = p[f]
  BY DEF PageOK
<1>3. DOMAIN b = DOMAIN p /\ \A f \in DOMAIN p \ {"active", "started"} : b[f] = p[f]
  BY DEF PageOK
<1> HIDE DEF a, b
<1>4. Touches(p, a) /\ a.ui = p.ui /\ a.patch = p.patch
  BY <1>1, <1>2
<1>5. Touches(p, b) /\ b.ui = p.ui /\ b.patch = p.patch
  BY <1>1, <1>3
<1> QED
  BY <1>4, <1>5 DEF a, b

LEMMA ClosesTouches ==
  ASSUME NEW old, NEW new, PageOK(new)
  PROVE  /\ Touches(new, Closes(old, new))
         /\ Closes(old, new).ui.files = new.ui.files
         /\ Ended(old, new) \cup Drained(old, new) = {} => Closes(old, new).patch = new.patch
         /\ \A w \in Worktree : \/ Closes(old, new).ui.panels[w] = new.ui.panels[w]
                                \/ w \in Ended(old, new) \cup Drained(old, new)
<1> DEFINE closing == Ended(old, new) \cup Drained(old, new)
           takes == Ended(old, new) \cup {w \in Drained(old, new) : new.active = At(w, "todo")}
           closed == IF closing = {} THEN new ELSE SetPanel(new, LastIn(closing), "none")
<1>1. closing \subseteq Worktree
  BY DEF Ended, Drained
<1>2. closing # {} => LastIn(closing) \in closing
  BY <1>1, EndsAreIn
<1>3. /\ Touches(new, closed) /\ closed.ui.files = new.ui.files
      /\ closing = {} => closed.patch = new.patch
      /\ \A w \in Worktree : closed.ui.panels[w] = new.ui.panels[w] \/ w \in closing
  <2> HIDE DEF closing
  <2>1. CASE closing = {}
    BY <2>1, TouchesSelf
  <2>2. CASE closing # {}
    <3>1. LastIn(closing) \in Worktree /\ "none" \in Panel
      BY <1>1, <1>2, <2>2 DEF Panel
    <3>2. closed = SetPanel(new, LastIn(closing), "none")
      BY <2>2
    <3>3. new.ui.panels \in [Worktree -> Panel]
      BY DEF PageOK, UiOK
    <3> HIDE DEF closed
    <3>4. /\ Touches(new, closed) /\ closed.ui.files = new.ui.files
          /\ closed.ui.panels = [new.ui.panels EXCEPT ![LastIn(closing)] = "none"]
      BY <3>1, <3>2, SetPanelTouches
    <3> QED
      BY <1>2, <2>2, <3>1, <3>3, <3>4
  <2> QED
    BY <2>1, <2>2
<1>4. Closes(old, new) = IF takes = {} THEN closed ELSE [closed EXCEPT !.active = At(LastIn(takes), "claude")]
  BY DEF Closes, Reveal
<1> HIDE DEF closed, takes, closing
<1>5. PageOK(closed)
  BY <1>3 DEF Touches
<1>6. CASE takes = {}
  BY <1>3, <1>4, <1>6 DEF closing
<1>7. CASE takes # {}
  <2> DEFINE there == At(LastIn(takes), "claude")
  <2>1. Closes(old, new) = [closed EXCEPT !.active = there]
    BY <1>4, <1>7
  <2> HIDE DEF there
  <2>2. LET q == [closed EXCEPT !.active = there]
        IN Touches(closed, q) /\ q.ui = closed.ui /\ q.patch = closed.patch
    BY <1>5, RevealTouches
  <2> QED
    BY <1>3, <2>1, <2>2, TouchesMore DEF closing
<1> QED
  BY <1>6, <1>7

\* The panels of worktrees that are there are not forgotten.
LEMMA ForgetsTouches ==
  ASSUME NEW new, PageOK(new), NEW p, Touches(new, p), p.ui.files = new.ui.files
  PROVE  /\ Touches(new, Forgets(new, p))
         /\ ~(new.loaded /\ new.seen.there # {}) => Forgets(new, p) = p
         /\ \A w \in Worktree : \/ Forgets(new, p).ui.panels[w] \in {p.ui.panels[w], new.ui.panels[w]}
                                \/ new.loaded /\ w \notin new.seen.there /\ new.seen.there # {}
<1> DEFINE gone == Worktree \ new.seen.there
           panels == [w \in Worktree |-> IF w \in gone THEN "none" ELSE new.ui.panels[w]]
           files == [w \in Worktree |-> new.ui.files[w] /\ w \notin gone]
           known == new.loaded /\ new.seen.there # {}
           first == IF known /\ panels # new.ui.panels THEN SetUi(p, "panels", panels) ELSE p
<1>1. panels \in [Worktree -> Panel] /\ files \in [Worktree -> BOOLEAN]
  BY DEF PageOK, UiOK, Panel
<1>2. Forgets(new, p) = IF known /\ files # new.ui.files THEN SetUi(first, "files", files) ELSE first
  BY DEF Forgets
<1>3. PageOK(p)
  BY DEF Touches
<1>4. /\ Touches(p, first)
      /\ first.ui.panels = p.ui.panels \/ (known /\ first.ui.panels = panels)
      /\ ~known => first = p
  <2> HIDE DEF panels, known
  <2>1. CASE known /\ panels # new.ui.panels
    <3>1. first = SetUi(p, "panels", panels)
      BY <2>1
    <3> HIDE DEF first
    <3> QED
      BY <1>1, <1>3, <2>1, <3>1, SetUiTouches
  <2>2. CASE ~(known /\ panels # new.ui.panels)
    BY <1>3, <2>2, TouchesSelf
  <2> QED
    BY <2>1, <2>2
<1> HIDE DEF first, files
<1>5. PageOK(first)
  BY <1>4 DEF Touches
<1>6. /\ Touches(first, Forgets(new, p))
      /\ Forgets(new, p).ui.panels = first.ui.panels
      /\ ~known => Forgets(new, p) = first
  <2> HIDE DEF known
  <2>1. CASE known /\ files # new.ui.files
    <3>1. Forgets(new, p) = SetUi(first, "files", files)
      BY <1>2, <2>1
    <3> QED
      BY <1>1, <1>5, <2>1, <3>1, SetUiTouches DEF Key
  <2>2. CASE ~(known /\ files # new.ui.files)
    BY <1>2, <1>5, <2>2, TouchesSelf
  <2> QED
    BY <2>1, <2>2
<1>7. Touches(new, Forgets(new, p))
  BY <1>4, <1>6, TouchesMore
<1>8. ASSUME NEW w \in Worktree
      PROVE  \/ Forgets(new, p).ui.panels[w] \in {p.ui.panels[w], new.ui.panels[w]}
             \/ known /\ w \notin new.seen.there
  <2>1. CASE first.ui.panels = p.ui.panels
    BY <1>6, <2>1
  <2>2. CASE known /\ first.ui.panels = panels
    <3>1. first.ui.panels[w] = IF w \in gone THEN "none" ELSE new.ui.panels[w]
      BY <2>2
    <3> QED
      BY <1>6, <2>2, <3>1
  <2> QED
    BY <1>4, <2>1, <2>2
<1> QED
  BY <1>4, <1>6, <1>7, <1>8

LEMMA ArrivesTouches ==
  ASSUME NEW p, PageOK(p)
  PROVE  /\ Touches(p, Arrives(p)) /\ Arrives(p).ui = p.ui /\ Arrives(p).patch = p.patch
<1> DEFINE s == [p EXCEPT !.started = TRUE]
<1>1. Touches(p, s) /\ s.ui = p.ui /\ s.patch = p.patch
  BY RevealTouches
<1> HIDE DEF s
<1>2. PageOK(s)
  BY <1>1 DEF Touches
<1>3. ASSUME NEW there, Arrives(p) = [s EXCEPT !.active = there]
      PROVE  /\ Touches(p, Arrives(p)) /\ Arrives(p).ui = p.ui /\ Arrives(p).patch = p.patch
  <2>1. LET q == [s EXCEPT !.active = there]
        IN Touches(s, q) /\ q.ui = s.ui /\ q.patch = s.patch
    BY <1>2, RevealTouches
  <2> QED
    BY <1>1, <1>3, <2>1, TouchesMore
<1>4. Arrives(p) = p \/ \E there : Arrives(p) = [s EXCEPT !.active = there]
  BY DEF Arrives, Reveal, s
<1> QED
  BY <1>3, <1>4, TouchesSelf

LEMMA RemembersTouches ==
  ASSUME NEW p, PageOK(p)
  PROVE  /\ Touches(p, Remembers(p))
         /\ Remembers(p).ui.panels = p.ui.panels
BY SetUiTouches, TouchesSelf DEF Remembers, Key

\* A render touches the layout and the keyboard only; it closes the panels that
\* closed themselves, and those of worktrees that are gone.
LEMMA RenderTouches ==
  ASSUME NEW old, NEW new, PageOK(new)
  PROVE  /\ Touches(new, Rendered(old, new))
         /\ \A w \in Worktree :
              \/ Rendered(old, new).ui.panels[w] = new.ui.panels[w]
              \/ w \in Ended(old, new) \cup Drained(old, new)
              \/ new.loaded /\ w \notin new.seen.there /\ new.seen.there # {}
<1> DEFINE c == Closes(old, new)
           f == Forgets(new, c)
           a == Arrives(f)
           r == Remembers(a)
<1>1. Rendered(old, new) = r
  BY DEF Rendered
<1>2. Touches(new, c) /\ c.ui.files = new.ui.files
  BY ClosesTouches
<1>3. Touches(new, f)
  <2> HIDE DEF c
  <2> QED
    BY <1>2, ForgetsTouches
<1>4. Touches(f, a) /\ a.ui = f.ui
  <2> HIDE DEF f
  <2>1. PageOK(f)
    BY <1>3 DEF Touches
  <2> QED
    BY <2>1, ArrivesTouches
<1>5. Touches(a, r) /\ r.ui.panels = a.ui.panels
  <2> HIDE DEF a, f
  <2>1. PageOK(a)
    BY <1>4 DEF Touches
  <2> QED
    BY <2>1, RemembersTouches
<1>6. Touches(new, r)
  <2> HIDE DEF r, a, f, c
  <2> QED
    BY <1>3, <1>4, <1>5, TouchesMore
<1>7. \A w \in Worktree : \/ c.ui.panels[w] = new.ui.panels[w]
                          \/ w \in Ended(old, new) \cup Drained(old, new)
  BY ClosesTouches
<1>8. \A w \in Worktree : \/ f.ui.panels[w] \in {c.ui.panels[w], new.ui.panels[w]}
                          \/ new.loaded /\ w \notin new.seen.there /\ new.seen.there # {}
  <2> HIDE DEF c
  <2> QED
    BY <1>2, ForgetsTouches
<1> HIDE DEF r, a, f, c
<1> QED
  BY <1>1, <1>4, <1>5, <1>6, <1>7, <1>8

(***************************************************************************)
(* The type invariant, and what a step of the human's leaves alone.        *)
(***************************************************************************)

\* q is p but for what the human's doings touch.
Moves(p, q) ==
  /\ PageOK(q)
  /\ q.seen = p.seen /\ q.loaded = p.loaded /\ q.adopted = p.adopted /\ q.fresh = p.fresh
  /\ q.link = p.link
  /\ p.patch \subseteq q.patch
  /\ \A k \in Key : k \in q.patch \/ q.ui[k] = p.ui[k]

LEMMA TouchesMoves ==
  ASSUME NEW p, NEW q, Touches(p, q)
  PROVE  Moves(p, q)
BY DEF Touches, Moves

LEMMA MovesMore ==
  ASSUME NEW p, NEW q, NEW r, Moves(p, q), Moves(q, r)
  PROVE  Moves(p, r)
BY DEF Moves

LEMMA PendingMoves ==
  ASSUME NEW p, PageOK(p), NEW w \in Worktree, NEW v \in {"none", "awake", "asleep"}
  PROVE  LET q == [p EXCEPT !.pending[w] = v]
         IN /\ Moves(p, q) /\ q.ui = p.ui /\ q.patch = p.patch /\ q.departing = p.departing
            /\ q.pending = [p.pending EXCEPT ![w] = v]
<1> DEFINE q == [p EXCEPT !.pending[w] = v]
           marks == [p.pending EXCEPT ![w] = v]
<1>1. /\ DOMAIN q = DOMAIN p
      /\ q.pending = marks
      /\ \A f \in DOMAIN p \ {"pending"} : q[f] = p[f]
  BY DEF PageOK
<1>2. marks \in [Worktree -> {"none", "awake", "asleep"}]
  BY DEF PageOK
<1> HIDE DEF q, marks
<1>3. /\ q.seen = p.seen /\ q.loaded = p.loaded /\ q.adopted = p.adopted /\ q.fresh = p.fresh
      /\ q.link = p.link /\ q.departing = p.departing
      /\ q.ui = p.ui /\ q.patch = p.patch
  BY <1>1 DEF PageOK
<1>4. PageOK(q)
  BY <1>1, <1>2, <1>3 DEF PageOK
<1> QED
  BY <1>1, <1>3, <1>4 DEF Moves, q, marks

LEMMA DepartingMoves ==
  ASSUME NEW p, PageOK(p), NEW D, D \subseteq Worktree
  PROVE  LET q == [p EXCEPT !.departing = D]
         IN Moves(p, q) /\ q.ui = p.ui /\ q.patch = p.patch /\ q.pending = p.pending
<1> DEFINE q == [p EXCEPT !.departing = D]
<1>1. /\ DOMAIN q = DOMAIN p
      /\ q.departing = D
      /\ \A f \in DOMAIN p \ {"departing"} : q[f] = p[f]
  BY DEF PageOK
<1> HIDE DEF q
<1>2. /\ q.seen = p.seen /\ q.loaded = p.loaded /\ q.adopted = p.adopted /\ q.fresh = p.fresh
      /\ q.link = p.link /\ q.pending = p.pending
      /\ q.ui = p.ui /\ q.patch = p.patch
  BY <1>1 DEF PageOK
<1>3. PageOK(q)
  BY <1>1, <1>2 DEF PageOK
<1> QED
  BY <1>2, <1>3 DEF Moves, q

LEMMA DaysMoves ==
  ASSUME NEW p, PageOK(p)
  PROVE  LET q == SetUi(p, "days", 1 - p.ui.days)
         IN Moves(p, q) /\ q.ui.panels = p.ui.panels /\ q.pending = p.pending
<1> DEFINE q == SetUi(p, "days", 1 - p.ui.days)
           ui == [p.ui EXCEPT !["days"] = 1 - p.ui.days]
<1>1. /\ DOMAIN q = DOMAIN p
      /\ q.ui = ui /\ q.patch = p.patch \cup {"days"}
      /\ q.seen = p.seen /\ q.loaded = p.loaded /\ q.adopted = p.adopted /\ q.fresh = p.fresh
      /\ q.link = p.link /\ q.pending = p.pending /\ q.departing = p.departing
  BY DEF SetUi, PageOK
<1>2. DOMAIN ui = Key /\ ui.days = 1 - p.ui.days /\ \A k \in Key \ {"days"} : ui[k] = p.ui[k]
  BY DEF PageOK, UiOK, Key
<1> HIDE DEF q, ui
<1>3. UiOK(ui)
  BY <1>2 DEF UiOK, PageOK, Key
<1>4. PageOK(q)
  BY <1>1, <1>3 DEF PageOK, Key
<1> QED
  BY <1>1, <1>2, <1>4 DEF Moves, q, Key

\* A step of the human's changes what a snapshot never brings, and closes no
\* panel of a worktree that is there but those it says.
LEMMA ActsKeeps ==
  ASSUME NEW new, Moves(page, new), Acts(new)
  PROVE  /\ page.adopted
         /\ UNCHANGED <<server, stored, told, reads, writes, strayed, unsaid>>
         /\ Moves(page, page')
         /\ page'.pending = new.pending /\ page'.departing = new.departing
         /\ \A w \in page.seen.there : w \in Worktree => page'.ui.panels[w] = new.ui.panels[w]
<1>1. page' = Rendered(page, new) /\ PageOK(new) /\ new.seen = page.seen
  BY DEF Acts, Renders, Moves
<1>2. Ended(page, new) = {} /\ Drained(page, new) = {}
  <2>1. \A w \in Worktree : ~(page.seen.terms[w] > 0 /\ new.seen.terms[w] = 0)
    BY <1>1, Z3 DEF PageOK, SeenOK
  <2> QED
    BY <1>1, <2>1 DEF Ended, Drained
<1>3. /\ Touches(new, page')
      /\ \A w \in Worktree :
              \/ page'.ui.panels[w] = new.ui.panels[w]
              \/ w \in Ended(page, new) \cup Drained(page, new)
              \/ new.loaded /\ w \notin new.seen.there /\ new.seen.there # {}
  BY <1>1, RenderTouches
<1>4. Moves(page, page') /\ page'.pending = new.pending /\ page'.departing = new.departing
  BY <1>3, TouchesMoves, MovesMore DEF Touches
<1> QED
  BY <1>1, <1>2, <1>3, <1>4 DEF Acts

LEMMA RevealMoves ==
  ASSUME NEW p, NEW q, Moves(p, q), NEW id, NEW pane
  PROVE  /\ Moves(p, Reveal(q, id, pane)) /\ PageOK(Reveal(q, id, pane))
         /\ Reveal(q, id, pane).ui = q.ui
         /\ Reveal(q, id, pane).pending = q.pending
         /\ Reveal(q, id, pane).departing = q.departing
<1> DEFINE there == At(id, pane)
           r == [q EXCEPT !.active = there]
<1>1. Reveal(q, id, pane) = r
  BY DEF Reveal
<1>2. PageOK(q)
  BY DEF Moves
<1> HIDE DEF there
<1>3. Touches(q, r) /\ r.ui = q.ui
  BY <1>2, RevealTouches
<1> HIDE DEF r
<1>4. Moves(p, r) /\ PageOK(r) /\ r.pending = q.pending /\ r.departing = q.departing
  BY <1>3, TouchesMoves, MovesMore DEF Touches
<1> QED
  BY <1>1, <1>3, <1>4

\* What each step of the human's but a reload changes of a request, of a mark
\* and of a panel.
LEMMA WakesIs ==
  ASSUME PageOK(page), NEW w \in Worktree, Wakes(w) \/ Sleeps(w)
  PROVE  \E new : /\ Moves(page, new) /\ Acts(new) /\ new.ui.panels = page.ui.panels
                  /\ UNCHANGED lost
                  /\ \/ /\ new.pending = [page.pending EXCEPT ![w] = "awake"]
                        /\ Asks("wake", w, TRUE) /\ Clicks("wake", w)
                     \/ /\ new.pending = [page.pending EXCEPT ![w] = "asleep"]
                        /\ Asks("sleep", w, TRUE) /\ Clicks("sleep", w)
<1>1. CASE Wakes(w)
  <2> DEFINE q == [page EXCEPT !.pending[w] = "awake"]
  <2>1. /\ Moves(page, q) /\ q.ui = page.ui
        /\ q.pending = [page.pending EXCEPT ![w] = "awake"]
    BY PendingMoves
  <2>2. Acts(Reveal(q, w, "claude")) /\ Asks("wake", w, TRUE) /\ Clicks("wake", w) /\ lost' = lost
    BY <1>1 DEF Wakes
  <2> HIDE DEF q
  <2>3. /\ Moves(page, Reveal(q, w, "claude")) /\ Reveal(q, w, "claude").ui = q.ui
        /\ Reveal(q, w, "claude").pending = q.pending
    BY <2>1, RevealMoves
  <2> QED
    BY <2>1, <2>2, <2>3
<1>2. CASE Sleeps(w)
  <2> DEFINE q == [page EXCEPT !.pending[w] = "asleep"]
  <2>1. /\ Moves(page, q) /\ q.ui = page.ui
        /\ q.pending = [page.pending EXCEPT ![w] = "asleep"]
    BY PendingMoves
  <2>2. Acts(q) /\ Asks("sleep", w, TRUE) /\ Clicks("sleep", w) /\ lost' = lost
    BY <1>2 DEF Sleeps
  <2> HIDE DEF q
  <2> QED
    BY <2>1, <2>2
<1> QED
  BY <1>1, <1>2

LEMMA SetPanelMoves ==
  ASSUME NEW p, PageOK(p), NEW w \in Worktree, NEW panel \in Panel
  PROVE  /\ Moves(p, SetPanel(p, w, panel))
         /\ SetPanel(p, w, panel).pending = p.pending
         /\ SetPanel(p, w, panel).departing = p.departing
         /\ \A v \in Worktree \ {w} : SetPanel(p, w, panel).ui.panels[v] = p.ui.panels[v]
<1>1. /\ Touches(p, SetPanel(p, w, panel))
      /\ SetPanel(p, w, panel).ui.panels = [p.ui.panels EXCEPT ![w] = panel]
  BY SetPanelTouches
<1>2. p.ui.panels \in [Worktree -> Panel]
  BY DEF PageOK, UiOK
<1> QED
  BY <1>1, <1>2, TouchesMoves DEF Touches

\* A click that asks for no wake and no sleep.
Other(new) ==
  /\ Moves(page, new) /\ Acts(new)
  /\ UNCHANGED clicked /\ new.pending = page.pending
  /\ \A w \in lost' : w \in lost /\ (w \in Worktree => new.ui.panels[w] = page.ui.panels[w])
  /\ \/ UNCHANGED calls
     \/ \E op \in {"remove", "open", "kill"}, w \in Worktree : Asks(op, w, TRUE)

LEMMA RemovesIs ==
  ASSUME PageOK(page), NEW w \in Worktree, Removes(w)
  PROVE  \E new : Other(new)
<1> DEFINE D == page.departing \cup {w}
           q == [page EXCEPT !.departing = D]
<1>1. Moves(page, q) /\ q.ui = page.ui /\ q.pending = page.pending
  <2>1. D \subseteq Worktree
    BY DEF PageOK
  <2> HIDE DEF D
  <2> QED
    BY <2>1, DepartingMoves
<1>2. /\ Asks("remove", w, TRUE) /\ UNCHANGED <<lost, clicked>>
      /\ Acts(IF page.active.id = w THEN [q EXCEPT !.active = Landing(w)] ELSE q)
  BY DEF Removes
<1> HIDE DEF q
<1>3. CASE page.active.id = w
  <2> DEFINE there == Landing(w)
             r == [q EXCEPT !.active = there]
  <2>1. Acts(r)
    BY <1>2, <1>3
  <2>2. PageOK(q)
    BY <1>1 DEF Moves
  <2> HIDE DEF there
  <2>3. Touches(q, r) /\ r.ui = q.ui
    BY <2>2, RevealTouches
  <2> HIDE DEF r
  <2>4. Moves(page, r) /\ r.pending = page.pending
    BY <1>1, <2>3, TouchesMoves, MovesMore DEF Touches
  <2>5. Other(r)
    BY <1>1, <1>2, <2>1, <2>3, <2>4 DEF Other
  <2> QED
    BY <2>5
<1>4. CASE page.active.id # w
  <2>1. Other(q)
    BY <1>1, <1>2, <1>4 DEF Other
  <2> QED
    BY <2>1
<1> QED
  BY <1>3, <1>4

LEMMA TogglesIs ==
  ASSUME PageOK(page), NEW w \in Worktree, NEW panel \in {"terminals", "todo", "files"},
         Toggles(w, panel)
  PROVE  \E new : Other(new)
<1> DEFINE was == page.ui.panels[w] = panel
           next == IF was THEN "none" ELSE panel
           now == SetPanel(page, w, next)
           pane == IF was THEN "claude" ELSE PanelOf(now)[w]
           new == Reveal(now, w, pane)
<1>1. next \in Panel
  BY DEF Panel
<1>2. /\ Acts(new) /\ lost' = lost \ {w} /\ UNCHANGED clicked
      /\ UNCHANGED calls \/ Asks("open", w, TRUE)
  BY DEF Toggles
<1> HIDE DEF next
<1>3. /\ Moves(page, now) /\ now.pending = page.pending
      /\ \A v \in Worktree \ {w} : now.ui.panels[v] = page.ui.panels[v]
  BY <1>1, SetPanelMoves
<1> HIDE DEF now, pane
<1>4. Moves(page, new) /\ new.ui = now.ui /\ new.pending = now.pending
  BY <1>3, RevealMoves
<1> HIDE DEF new
<1>5. Other(new)
  BY <1>2, <1>3, <1>4 DEF Other
<1> QED
  BY <1>5

\* Shutting w's panel, and looking at its session.
LEMMA ShutsIs ==
  ASSUME PageOK(page), NEW w \in Worktree
  PROVE  LET new == Reveal(SetPanel(page, w, "none"), w, "claude")
         IN /\ Moves(page, new) /\ new.pending = page.pending
            /\ \A v \in Worktree \ {w} : new.ui.panels[v] = page.ui.panels[v]
<1> DEFINE now == SetPanel(page, w, "none")
           new == Reveal(now, w, "claude")
<1>1. /\ Moves(page, now) /\ now.pending = page.pending
      /\ \A v \in Worktree \ {w} : now.ui.panels[v] = page.ui.panels[v]
  BY SetPanelMoves DEF Panel
<1> HIDE DEF now
<1>2. Moves(page, new) /\ new.ui = now.ui /\ new.pending = now.pending
  BY <1>1, RevealMoves
<1> HIDE DEF new
<1> QED
  BY <1>1, <1>2 DEF new, now

LEMMA StaysIs ==
  ASSUME PageOK(page)
  PROVE  Moves(page, page)
BY DEF Moves

LEMMA ClosesTerminalIs ==
  ASSUME PageOK(page), NEW w \in Worktree, ClosesTerminal(w)
  PROVE  \E new : Other(new)
<1> DEFINE new == Reveal(SetPanel(page, w, "none"), w, "claude")
<1>1. /\ Asks("kill", w, TRUE) /\ lost' = lost \ {w} /\ UNCHANGED clicked
      /\ Acts(new) \/ Acts(page)
  BY DEF ClosesTerminal
<1>2. /\ Moves(page, new) /\ new.pending = page.pending
      /\ \A v \in Worktree \ {w} : new.ui.panels[v] = page.ui.panels[v]
  BY ShutsIs
<1> HIDE DEF new
<1>3. Acts(new) => Other(new)
  BY <1>1, <1>2 DEF Other
<1>4. Acts(page) => Other(page)
  BY <1>1, StaysIs DEF Other
<1> QED
  BY <1>1, <1>3, <1>4

LEMMA RevealsClaudeIs ==
  ASSUME PageOK(page), NEW w \in Worktree, RevealsClaude(w)
  PROVE  \E new : Other(new)
<1> DEFINE new == Reveal(SetPanel(page, w, "none"), w, "claude")
           shown == Reveal(page, w, "claude")
<1>1. /\ UNCHANGED calls /\ lost' = lost \ {w} /\ UNCHANGED clicked
      /\ Acts(new) \/ Acts(shown)
  BY DEF RevealsClaude
<1>2. /\ Moves(page, new) /\ new.pending = page.pending
      /\ \A v \in Worktree \ {w} : new.ui.panels[v] = page.ui.panels[v]
  BY ShutsIs
<1>3. Moves(page, shown) /\ shown.ui = page.ui /\ shown.pending = page.pending
  BY StaysIs, RevealMoves
<1> HIDE DEF new, shown
<1>4. Acts(new) => Other(new)
  BY <1>1, <1>2 DEF Other
<1>5. Acts(shown) => Other(shown)
  BY <1>1, <1>3 DEF Other
<1> QED
  BY <1>1, <1>4, <1>5

LEMMA FilesIs ==
  ASSUME PageOK(page), NEW w \in Worktree, Files(w)
  PROVE  \E new : Other(new)
<1> DEFINE files == [page.ui.files EXCEPT ![w] = ~@]
           new == SetUi(page, "files", files)
<1>1. Acts(new) /\ UNCHANGED <<calls, lost, clicked>>
  BY DEF Files
<1>2. files \in [Worktree -> BOOLEAN]
  BY DEF PageOK, UiOK
<1> HIDE DEF files
<1>3. Touches(page, new) /\ new.ui.panels = page.ui.panels
  BY <1>2, SetUiTouches DEF Key
<1> HIDE DEF new
<1>4. Other(new)
  BY <1>1, <1>3, TouchesMoves DEF Other, Touches
<1> QED
  BY <1>4

LEMMA StepsIs ==
  ASSUME PageOK(page), NEW capacity, NEW by, Steps(capacity, by)
  PROVE  \E new : Other(new)
<1>1. /\ UNCHANGED <<calls, lost, clicked>>
      /\ \E there : Acts([page EXCEPT !.active = there])
  BY DEF Steps
<1>2. PICK there : Acts([page EXCEPT !.active = there])
  BY <1>1
<1> DEFINE new == [page EXCEPT !.active = there]
<1>3. Touches(page, new) /\ new.ui = page.ui
  BY RevealTouches
<1>4. Acts(new)
  BY <1>2
<1> HIDE DEF new
<1>5. Other(new)
  BY <1>1, <1>3, <1>4, TouchesMoves DEF Other, Touches
<1> QED
  BY <1>5

LEMMA HumanIs ==
  ASSUME PageOK(page), HumanSteps, ~Reloads
  PROVE  \/ \E new : Other(new)
         \/ \E w \in Worktree : Wakes(w) \/ Sleeps(w)
<1>1. ASSUME NEW w \in Worktree, NewTerminal(w)
      PROVE  Other(page)
  BY <1>1, StaysIs DEF NewTerminal, Other
<1>2. ASSUME MyDays
      PROVE  \E new : Other(new)
  <2> DEFINE new == SetUi(page, "days", 1 - page.ui.days)
  <2>1. Acts(new) /\ UNCHANGED <<calls, lost, clicked>>
    BY <1>2 DEF MyDays
  <2>2. Moves(page, new) /\ new.ui.panels = page.ui.panels /\ new.pending = page.pending
    BY DaysMoves
  <2> HIDE DEF new
  <2>3. Other(new)
    BY <2>1, <2>2 DEF Other
  <2> QED
    BY <2>3
<1> QED
  BY <1>1, <1>2, RemovesIs, TogglesIs, ClosesTerminalIs, RevealsClaudeIs, FilesIs, StepsIs
  DEF HumanSteps

(***************************************************************************)
(* What reads and requests come to.                                        *)
(***************************************************************************)

LEMMA FreeReadOK == ReadOK(FreeRead)
<1> DEFINE none == [w \in Worktree |-> 0]
           panels == [w \in Worktree |-> "none"]
           files == [w \in Worktree |-> FALSE]
           s == [there |-> {}, awake |-> {}, terms |-> none, queued |-> {}]
           ui == [panels |-> panels, files |-> files, where |-> "none", days |-> 0]
<1>1. none \in [Worktree -> Nat] /\ panels \in [Worktree -> Panel] /\ files \in [Worktree -> BOOLEAN]
  BY DEF Panel
<1>2. FreeRead = [at |-> "free", snap |-> [server |-> s, ui |-> ui], then |-> Nothing,
                  before |-> {}, stale |-> FALSE]
  BY DEF FreeRead, NoSnap
<1> HIDE DEF none, panels, files
<1>3. SeenOK(s) /\ UiOK(ui)
  BY <1>1 DEF SeenOK, UiOK, Key
<1> HIDE DEF s, ui
<1> QED
  BY <1>2, <1>3 DEF ReadOK

LEMMA AsksIs ==
  ASSUME NEW op, NEW w, NEW mine, Asks(op, w, mine)
  PROVE  \E c \in Call : /\ calls[c] = Idle
                         /\ calls' = [calls EXCEPT ![c] = [op |-> op, w |-> w, at |-> "asked", mine |-> mine]]
BY DEF Asks

LEMMA AsksOK ==
  ASSUME TypeOK, NEW op \in {"wake", "sleep", "remove", "open", "kill"}, NEW w \in Worktree,
         Asks(op, w, TRUE) \/ Asks(op, w, FALSE)
  PROVE  DOMAIN calls' = Call /\ \A c \in Call : CallOK(calls'[c])
<1> DEFINE asked == [op |-> op, w |-> w, at |-> "asked", mine |-> TRUE]
           other == [op |-> op, w |-> w, at |-> "asked", mine |-> FALSE]
<1>1. CallOK(asked) /\ CallOK(other)
  BY DEF CallOK, Request
<1>2. \E c \in Call : \/ calls' = [calls EXCEPT ![c] = asked]
                      \/ calls' = [calls EXCEPT ![c] = other]
  BY DEF Asks
<1> HIDE DEF asked, other
<1> QED
  BY <1>1, <1>2 DEF TypeOK

\* A read is asked for in a free slot.
LEMMA RefreshesIs ==
  ASSUME TypeOK, NEW then \in Request \cup {Nothing}, Refreshes(then)
  PROVE  \E r \in Read :
           /\ reads[r].at = "free"
           /\ DOMAIN reads' = Read /\ ReadOK(reads'[r])
           /\ \A q \in Read \ {r} : reads'[q] = reads[q]
           /\ reads'[r].at = "asked" /\ reads'[r].then = then
           /\ reads'[r].snap = reads[r].snap /\ reads'[r].before = reads[r].before
           /\ reads'[r].stale = reads[r].stale
<1>1. PICK r \in Read : /\ reads[r].at = "free"
                        /\ reads' = [reads EXCEPT ![r].at = "asked", ![r].then = then]
  BY DEF Refreshes
<1> DEFINE d == [reads[r] EXCEPT !.at = "asked", !.then = then]
<1>2. ReadOK(reads[r]) /\ DOMAIN reads = Read
  BY DEF TypeOK
<1>3. reads' = [reads EXCEPT ![r] = d]
  BY <1>1, <1>2
<1>4. /\ DOMAIN d = DOMAIN reads[r] /\ d.at = "asked" /\ d.then = then
      /\ d.snap = reads[r].snap /\ d.before = reads[r].before /\ d.stale = reads[r].stale
  BY <1>2 DEF ReadOK
<1> HIDE DEF d
<1>5. ReadOK(d)
  BY <1>2, <1>4 DEF ReadOK
<1> QED
  BY <1>1, <1>2, <1>3, <1>4, <1>5

\* A read is over: its slot is free, and what it overtook is stale.
LEMMA OverIs ==
  ASSUME TypeOK, NEW r \in Read, Over(r)
  PROVE  /\ DOMAIN reads' = Read /\ reads'[r] = FreeRead
         /\ \A q \in Read : ReadOK(reads'[q])
         /\ \A q \in Read \ {r} :
              /\ reads'[q].at = reads[q].at /\ reads'[q].snap = reads[q].snap
              /\ reads'[q].then = reads[q].then /\ reads'[q].before = reads[q].before \ {r}
              /\ reads'[q].stale
                   <=> \/ reads[q].stale
                       \/ reads[r].at = "taken" /\ q \in reads[r].before
                       \/ reads[r].at # "taken" /\ reads[q].at = "taken"
<1> DEFINE older == IF reads[r].at = "taken" THEN reads[r].before
                    ELSE {q \in Read : reads[q].at = "taken"}
           d(q) == [reads[q] EXCEPT !.stale = @ \/ q \in older, !.before = @ \ {r}]
<1>1. reads' = [q \in Read |-> IF q = r THEN FreeRead ELSE d(q)]
  BY DEF Over
<1>2. ASSUME NEW q \in Read \ {r}
      PROVE  /\ DOMAIN d(q) = DOMAIN reads[q]
             /\ d(q).at = reads[q].at /\ d(q).snap = reads[q].snap
             /\ d(q).then = reads[q].then /\ d(q).before = reads[q].before \ {r}
             /\ d(q).stale = (reads[q].stale \/ q \in older)
             /\ ReadOK(reads[q])
  <2>1. ReadOK(reads[q])
    BY DEF TypeOK
  <2> HIDE DEF older
  <2> QED
    BY <2>1 DEF ReadOK
<1> HIDE DEF d
<1>3. ASSUME NEW q \in Read \ {r}
      PROVE  ReadOK(d(q)) /\ (d(q).stale <=> reads[q].stale \/ q \in older)
  <2> HIDE DEF older
  <2> QED
    BY <1>2 DEF ReadOK
<1>4. \A q \in Read \ {r} : q \in older <=> \/ reads[r].at = "taken" /\ q \in reads[r].before
                                            \/ reads[r].at # "taken" /\ reads[q].at = "taken"
  OBVIOUS
<1> HIDE DEF older
<1>5. DOMAIN reads' = Read /\ reads'[r] = FreeRead /\ \A q \in Read \ {r} : reads'[q] = d(q)
  BY <1>1
<1> QED
  BY <1>2, <1>3, <1>4, <1>5, FreeReadOK

\* A snapshot is taken: what is true then.
LEMMA SnapshotsIs ==
  ASSUME TypeOK, NEW r \in Read, Snapshots(r)
  PROVE  /\ reads[r].at = "asked"
         /\ DOMAIN reads' = Read /\ ReadOK(reads'[r])
         /\ \A q \in Read \ {r} : reads'[q] = reads[q]
         /\ reads'[r].at = "taken" /\ reads'[r].then = reads[r].then
         /\ reads'[r].snap.server = server /\ reads'[r].snap.ui = stored
         /\ reads'[r].before = {q \in Read : reads[q].at = "taken"}
         /\ reads'[r].stale = reads[r].stale
<1> DEFINE snap == [server |-> server, ui |-> stored]
           taken == {q \in Read : reads[q].at = "taken"}
           d == [reads[r] EXCEPT !.at = "taken", !.snap = snap, !.before = taken]
<1>1. /\ reads[r].at = "asked"
      /\ reads' = [reads EXCEPT ![r].at = "taken", ![r].snap = snap, ![r].before = taken]
  BY DEF Snapshots
<1>2. ReadOK(reads[r]) /\ DOMAIN reads = Read
  BY DEF TypeOK
<1>3. /\ DOMAIN snap = {"server", "ui"} /\ snap.server = server /\ snap.ui = stored
      /\ SeenOK(snap.server) /\ UiOK(snap.ui) /\ taken \subseteq Read
  BY DEF TypeOK
<1> HIDE DEF snap
<1>4. reads' = [reads EXCEPT ![r] = d]
  <2> HIDE DEF taken
  <2> QED
    BY <1>1, <1>2
<1>5. /\ DOMAIN d = DOMAIN reads[r] /\ d.at = "taken" /\ d.then = reads[r].then
      /\ d.snap = snap /\ d.before = taken /\ d.stale = reads[r].stale
  <2> HIDE DEF taken
  <2> QED
    BY <1>2 DEF ReadOK
<1> HIDE DEF d
<1>6. ReadOK(d)
  <2> HIDE DEF taken
  <2> QED
    BY <1>2, <1>3, <1>5 DEF ReadOK
<1> QED
  BY <1>1, <1>2, <1>3, <1>4, <1>5, <1>6

\* What a page makes of a snapshot, before it renders.
LEMMA AdoptsIs ==
  ASSUME NEW p, PageOK(p), NEW r \in Read, ReadOK(reads[r])
  PROVE  LET q == Adopts(p, r)
             snap == reads[r].snap
         IN /\ PageOK(q)
            /\ q.seen = snap.server /\ q.loaded /\ q.adopted /\ (q.fresh <=> ~reads[r].stale)
            /\ q.link = p.link /\ q.pending = p.pending /\ q.departing = p.departing
            /\ q.patch = p.patch
            /\ ~p.adopted => q.ui = snap.ui
            /\ p.adopted => /\ \A k \in Key \ {"days"} : q.ui[k] = p.ui[k]
                            /\ q.ui.days = IF "days" \in p.patch THEN p.ui.days ELSE snap.ui.days
<1> DEFINE q == Adopts(p, r)
           snap == reads[r].snap
           later == [p.ui EXCEPT !.days = snap.ui.days]
           ui == IF ~p.adopted THEN snap.ui ELSE IF "days" \in p.patch THEN p.ui ELSE later
           fresh == ~reads[r].stale
           whole == [p EXCEPT !.seen = snap.server, !.ui = ui, !.loaded = TRUE, !.adopted = TRUE,
                              !.fresh = fresh]
<1>1. q = whole
  BY DEF Adopts, Taken
<1>2. UiOK(later) /\ \A k \in Key \ {"days"} : later[k] = p.ui[k]
  <2>1. DOMAIN later = Key /\ later.days = snap.ui.days /\ \A k \in Key \ {"days"} : later[k] = p.ui[k]
    BY DEF PageOK, UiOK, Key
  <2> HIDE DEF later
  <2> QED
    BY <2>1 DEF UiOK, PageOK, ReadOK, Key
<1>3. later.days = snap.ui.days
  BY DEF PageOK, UiOK, Key
<1> HIDE DEF later
<1>4. UiOK(ui)
  BY <1>2 DEF PageOK, ReadOK
<1>5. /\ ~p.adopted => ui = snap.ui
      /\ p.adopted => /\ \A k \in Key \ {"days"} : ui[k] = p.ui[k]
                      /\ ui.days = IF "days" \in p.patch THEN p.ui.days ELSE snap.ui.days
  BY <1>2, <1>3
<1>6. fresh \in BOOLEAN
  OBVIOUS
<1> HIDE DEF ui, fresh
<1>7. /\ DOMAIN whole = DOMAIN p
      /\ whole.seen = snap.server /\ whole.loaded = TRUE /\ whole.adopted = TRUE
      /\ whole.fresh = fresh
      /\ whole.ui = ui
      /\ \A f \in DOMAIN p \ {"seen", "ui", "loaded", "adopted", "fresh"} : whole[f] = p[f]
  BY DEF PageOK
<1> HIDE DEF q, whole
<1>8. /\ q.link = p.link /\ q.pending = p.pending /\ q.departing = p.departing
      /\ q.patch = p.patch
  BY <1>1, <1>7 DEF PageOK
<1>9. PageOK(q)
  BY <1>1, <1>4, <1>6, <1>7, <1>8 DEF PageOK, ReadOK
<1> QED
  BY <1>1, <1>5, <1>7, <1>8, <1>9 DEF q, fresh

Mark(op) == IF op = "wake" THEN "awake" ELSE "asleep"

\* What waited for the refresh takes its own mark only.
LEMMA SettlesIs ==
  ASSUME NEW p, PageOK(p), NEW then \in Request \cup {Nothing}
  PROVE  LET q == Settles(p, then)
         IN /\ Moves(p, q) /\ q.ui = p.ui /\ q.patch = p.patch
            /\ \A w \in Worktree : \/ q.pending[w] = p.pending[w]
                                   \/ /\ w = then.w /\ then.op \in {"wake", "sleep"}
                                      /\ p.pending[w] = Mark(then.op)
<1> DEFINE q == Settles(p, then)
<1>1. CASE then.op \in {"wake", "sleep"}
  <2>1. then.w \in Worktree
    BY <1>1 DEF Request, Nothing
  <2> DEFINE w == then.w
             r == [p EXCEPT !.pending[w] = "none"]
  <2>2. /\ Moves(p, r) /\ r.ui = p.ui /\ r.patch = p.patch
        /\ r.pending = [p.pending EXCEPT ![w] = "none"]
    BY <2>1, PendingMoves
  <2>3. q = p \/ (q = r /\ p.pending[w] = Mark(then.op))
    BY <1>1 DEF Settles, Mark
  <2>4. Moves(p, p) /\ p.pending \in [Worktree -> {"none", "awake", "asleep"}]
    BY DEF Moves, PageOK
  <2> HIDE DEF r, q
  <2> QED
    BY <1>1, <2>2, <2>3, <2>4 DEF q
<1>2. CASE then.op = "remove"
  <2> DEFINE D == p.departing \ {then.w}
  <2>1. q = [p EXCEPT !.departing = D]
    BY <1>2 DEF Settles
  <2>2. D \subseteq Worktree
    BY DEF PageOK
  <2> HIDE DEF D
  <2> QED
    BY <2>1, <2>2, DepartingMoves
<1>3. CASE then.op \notin {"wake", "sleep", "remove"}
  <2>1. q = p /\ Moves(p, p)
    BY <1>3 DEF Settles, Moves
  <2> QED
    BY <2>1
<1> QED
  BY <1>1, <1>2, <1>3

\* A render of a page whose worktrees and terminals are as they were closes
\* nothing of what is there.
LEMMA RenderSame ==
  ASSUME NEW old, NEW new, PageOK(old), PageOK(new), new.seen = old.seen
  PROVE  /\ Touches(new, Rendered(old, new))
         /\ \A w \in Worktree : \/ Rendered(old, new).ui.panels[w] = new.ui.panels[w]
                                \/ w \notin new.seen.there
<1>1. Ended(old, new) = {} /\ Drained(old, new) = {}
  <2>1. \A w \in Worktree : ~(old.seen.terms[w] > 0 /\ new.seen.terms[w] = 0)
    BY Z3 DEF PageOK, SeenOK
  <2> QED
    BY <2>1 DEF Ended, Drained
<1> QED
  BY <1>1, RenderTouches

\* A mark goes with the read that was waited for, if it is of its kind.
Unmarks(p, q, then) ==
  \A w \in Worktree : \/ q.pending[w] = p.pending[w]
                      \/ /\ w = then.w /\ then.op \in {"wake", "sleep"}
                         /\ p.pending[w] = Mark(then.op)

\* A snapshot lands.
LEMMA LandsIs ==
  ASSUME TypeOK, NEW r \in Read, Lands(r)
  PROVE  LET snap == reads[r].snap
             new == Adopts(page, r)
         IN /\ PageOK(page')
            /\ page'.seen = snap.server /\ page'.loaded /\ page'.adopted
            /\ (page'.fresh <=> ~reads[r].stale) /\ page'.link = page.link
            /\ page.patch \subseteq page'.patch
            /\ \A k \in Key : k \in page'.patch \/ page'.ui[k] = new.ui[k]
            /\ Unmarks(page, page', reads[r].then)
            /\ \A w \in Worktree : \/ page'.ui.panels[w] = new.ui.panels[w]
                                   \/ w \in Ended(page, new) \cup Drained(page, new)
                                   \/ w \notin snap.server.there
<1> DEFINE snap == reads[r].snap
           then == reads[r].then
           new == Adopts(page, r)
           read == Rendered(page, new)
           settled == Settles(read, then)
<1>1. PageOK(page) /\ ReadOK(reads[r])
  BY DEF TypeOK
<1>2. then \in Request \cup {Nothing}
  BY <1>1 DEF ReadOK
<1>3. page' = Rendered(read, settled)
  BY DEF Lands
<1>4. /\ PageOK(new)
      /\ new.seen = snap.server /\ new.loaded /\ new.adopted /\ (new.fresh <=> ~reads[r].stale)
      /\ new.link = page.link /\ new.pending = page.pending /\ new.patch = page.patch
  BY <1>1, AdoptsIs
<1> HIDE DEF new, then
<1>5. /\ Touches(new, read)
      /\ \A w \in Worktree :
              \/ read.ui.panels[w] = new.ui.panels[w]
              \/ w \in Ended(page, new) \cup Drained(page, new)
              \/ new.loaded /\ w \notin new.seen.there /\ new.seen.there # {}
  BY <1>4, RenderTouches
<1> HIDE DEF read
<1>6. PageOK(read)
  BY <1>5 DEF Touches
<1>7. /\ Moves(read, settled) /\ settled.ui = read.ui
      /\ Unmarks(read, settled, then)
  BY <1>2, <1>6, SettlesIs DEF Unmarks
<1> HIDE DEF settled
<1>8. /\ Touches(settled, page')
      /\ \A w \in Worktree : \/ page'.ui.panels[w] = settled.ui.panels[w]
                             \/ w \notin settled.seen.there
  BY <1>3, <1>6, <1>7, RenderSame DEF Moves
<1>9. /\ PageOK(page')
      /\ page'.seen = snap.server /\ page'.loaded /\ page'.adopted
      /\ (page'.fresh <=> ~reads[r].stale) /\ page'.link = page.link
      /\ page.patch \subseteq page'.patch
      /\ \A k \in Key : k \in page'.patch \/ page'.ui[k] = new.ui[k]
  BY <1>4, <1>5, <1>7, <1>8 DEF Touches, Moves
<1>10. \A w \in Worktree : \/ page'.ui.panels[w] = new.ui.panels[w]
                           \/ w \in Ended(page, new) \cup Drained(page, new)
                           \/ w \notin snap.server.there
  BY <1>4, <1>5, <1>7, <1>8 DEF Touches, Moves
<1>11. Unmarks(page, page', then)
  BY <1>4, <1>5, <1>7, <1>8 DEF Touches, Unmarks
<1> QED
  BY <1>9, <1>10, <1>11 DEF new, then

\* A read fails: the page knows it is out of touch.
LEMMA FailsIs ==
  ASSUME TypeOK, NEW r \in Read, ReadFails(r)
  PROVE  /\ PageOK(page')
         /\ page'.seen = page.seen /\ page'.loaded /\ page'.adopted = page.adopted
         /\ page'.fresh = FALSE /\ page'.link = page.link
         /\ page.patch \subseteq page'.patch
         /\ \A k \in Key : k \in page'.patch \/ page'.ui[k] = page.ui[k]
         /\ Unmarks(page, page', reads[r].then)
         /\ \A w \in Worktree : page'.ui.panels[w] = page.ui.panels[w] \/ w \notin page.seen.there
<1> DEFINE then == reads[r].then
           new == [page EXCEPT !.fresh = FALSE, !.loaded = TRUE]
           read == Rendered(page, new)
           settled == Settles(read, then)
<1>1. PageOK(page) /\ ReadOK(reads[r])
  BY DEF TypeOK
<1>2. then \in Request \cup {Nothing}
  BY <1>1 DEF ReadOK
<1>3. page' = Rendered(read, settled)
  BY DEF ReadFails
<1>4. /\ DOMAIN new = DOMAIN page /\ new.fresh = FALSE /\ new.loaded = TRUE
      /\ \A f \in DOMAIN page \ {"fresh", "loaded"} : new[f] = page[f]
  BY <1>1 DEF PageOK
<1> HIDE DEF new, then
<1>5. /\ new.seen = page.seen /\ new.adopted = page.adopted /\ new.link = page.link
      /\ new.pending = page.pending /\ new.patch = page.patch /\ new.ui = page.ui
      /\ new.departing = page.departing
  BY <1>1, <1>4 DEF PageOK
<1>6. PageOK(new)
  BY <1>1, <1>4, <1>5 DEF PageOK
<1>7. /\ Touches(new, read)
      /\ \A w \in Worktree : read.ui.panels[w] = new.ui.panels[w] \/ w \notin new.seen.there
  BY <1>1, <1>5, <1>6, RenderSame
<1> HIDE DEF read
<1>8. PageOK(read)
  BY <1>7 DEF Touches
<1>9. /\ Moves(read, settled) /\ settled.ui = read.ui
      /\ Unmarks(read, settled, then)
  BY <1>2, <1>8, SettlesIs DEF Unmarks
<1> HIDE DEF settled
<1>10. /\ Touches(settled, page')
       /\ \A w \in Worktree : \/ page'.ui.panels[w] = settled.ui.panels[w]
                              \/ w \notin settled.seen.there
  BY <1>3, <1>8, <1>9, RenderSame DEF Moves
<1>11. /\ PageOK(page')
       /\ page'.seen = page.seen /\ page'.loaded /\ page'.adopted = page.adopted
       /\ page'.fresh = FALSE /\ page'.link = page.link
       /\ page.patch \subseteq page'.patch
       /\ \A k \in Key : k \in page'.patch \/ page'.ui[k] = page.ui[k]
  BY <1>4, <1>5, <1>7, <1>9, <1>10 DEF Touches, Moves
<1>12. \A w \in Worktree : page'.ui.panels[w] = page.ui.panels[w] \/ w \notin page.seen.there
  BY <1>5, <1>7, <1>9, <1>10 DEF Touches, Moves
<1>13. Unmarks(page, page', then)
  BY <1>5, <1>7, <1>9, <1>10 DEF Touches, Unmarks
<1> QED
  BY <1>11, <1>12, <1>13 DEF then

\* What the server's steps make of the snapshot.
LEMMA SeenKeeps ==
  ASSUME NEW s, SeenOK(s), NEW w \in Worktree
  PROVE  /\ SeenOK([s EXCEPT !.awake = @ \cup {w}])
         /\ SeenOK([s EXCEPT !.awake = @ \ {w}])
         /\ SeenOK([s EXCEPT !.there = @ \ {w}, !.awake = @ \ {w}, !.queued = @ \ {w}])
         /\ \A n \in Nat : SeenOK([s EXCEPT !.terms[w] = n])
         /\ \A Q : SeenOK([s EXCEPT !.queued = Q])
<1>1. ASSUME NEW n \in Nat PROVE SeenOK([s EXCEPT !.terms[w] = n])
  <2>1. [s.terms EXCEPT ![w] = n] \in [Worktree -> Nat]
    BY DEF SeenOK
  <2> QED
    BY <2>1 DEF SeenOK
<1>2. ASSUME NEW Q PROVE SeenOK([s EXCEPT !.queued = Q])
  BY DEF SeenOK
<1>3. SeenOK([s EXCEPT !.awake = @ \cup {w}]) /\ SeenOK([s EXCEPT !.awake = @ \ {w}])
  BY DEF SeenOK
<1>4. SeenOK([s EXCEPT !.there = @ \ {w}, !.awake = @ \ {w}, !.queued = @ \ {w}])
  BY DEF SeenOK
<1> QED
  BY <1>1, <1>2, <1>3, <1>4

LEMMA EndsOK ==
  ASSUME TypeOK, NEW c \in Call, calls[c].at # "idle", NEW how \in {"half", "done", "failed"},
         Ends(c, how)
  PROVE  /\ DOMAIN calls' = Call /\ \A d \in Call : CallOK(calls'[d])
         /\ \A d \in Call \ {c} : calls'[d] = calls[d]
         /\ calls'[c].op = calls[c].op /\ calls'[c].w = calls[c].w
         /\ calls'[c].mine = calls[c].mine /\ calls'[c].at = how
<1> DEFINE d == [calls[c] EXCEPT !.at = how]
<1>1. CallOK(calls[c]) /\ calls[c] # Idle /\ DOMAIN calls = Call
  BY DEF TypeOK, Idle
<1>2. /\ DOMAIN d = {"op", "w", "at", "mine"} /\ d.op = calls[c].op /\ d.w = calls[c].w
      /\ d.at = how /\ d.mine = calls[c].mine
  BY <1>1 DEF CallOK
<1>3. calls' = [calls EXCEPT ![c] = d]
  BY DEF Ends
<1> HIDE DEF d
<1>4. CallOK(d)
  BY <1>1, <1>2 DEF CallOK
<1> QED
  BY <1>1, <1>2, <1>3, <1>4 DEF TypeOK

LEMMA TellsOK ==
  ASSUME TypeOK, Tells
  PROVE  told' \in Nat /\ unsaid' \in {"told", "half", "new", "lost"}
BY DEF Tells, TypeOK, PageOK

\* What the handlers do, step by step.
LEMMA HandlesIs ==
  ASSUME TypeOK, NEW c \in Call, Handles(c)
  PROVE  LET w == calls[c].w
         IN /\ w \in Worktree /\ w \in server.there /\ calls[c].at \in {"asked", "half"}
            /\ UNCHANGED <<stored, reads, writes, page, strayed, clicked>>
            /\ \E how \in {"half", "done", "failed"} : Ends(c, how)
            /\ \/ /\ calls[c].op = "sleep" /\ calls[c].at = "asked" /\ Ends(c, "half")
                  /\ server' = [server EXCEPT !.awake = @ \ {w}]
                  /\ lost' = IF TerminalsOpen(w) THEN lost \cup {w} ELSE lost
                  /\ unsaid' = "half" /\ UNCHANGED told
               \/ /\ calls[c].op \in {"sleep", "open", "kill"} /\ Ends(c, "done")
                  /\ \E n \in Nat : server' = [server EXCEPT !.terms[w] = n]
                  /\ Tells /\ UNCHANGED lost
               \/ /\ calls[c].op = "wake" /\ Ends(c, "done")
                  /\ server' = [server EXCEPT !.awake = @ \cup {w}]
                  /\ lost' = lost \ {w} /\ Tells
               \/ /\ calls[c].op = "remove" /\ Ends(c, "half")
                  /\ \E n \in Nat : server' = [server EXCEPT !.terms[w] = n]
                  /\ unsaid' = "half" /\ UNCHANGED <<told, lost>>
               \/ /\ calls[c].op = "remove" /\ Ends(c, "done")
                  /\ server' = [server EXCEPT !.there = @ \ {w}, !.awake = @ \ {w}, !.queued = @ \ {w}]
                  /\ lost' = lost \ {w} /\ Tells
               \/ /\ calls[c].op = "remove" /\ Ends(c, "failed")
                  /\ UNCHANGED <<server, told, unsaid, lost>>
<1>1. CallOK(calls[c])
  BY DEF TypeOK
<1>2. calls[c].w # "none"
  <2>1. calls[c].w \in server.there
    BY DEF Handles
  <2> QED
    BY <2>1, RowAssumption DEF TypeOK, SeenOK
<1>3. calls[c].op \in {"wake", "sleep", "remove", "open", "kill"} /\ calls[c].w \in Worktree
  BY <1>1, <1>2 DEF CallOK, Request
<1>4. server.terms[calls[c].w] \in Nat
  BY <1>3 DEF TypeOK, SeenOK
<1>5. CASE calls[c].op = "sleep"
  <2>1. Sleeping(c)
    BY <1>5 DEF Handles
  <2>2. CASE calls[c].at = "half"
    <3>1. PICK kept \in {0, server.terms[calls[c].w]} :
            server' = [server EXCEPT !.terms[calls[c].w] = kept]
      BY <2>1, <2>2 DEF Sleeping
    <3>2. kept \in Nat /\ Ends(c, "done") /\ Tells /\ UNCHANGED lost
      BY <1>4, <2>1, <2>2 DEF Sleeping, Ends
    <3> QED
      BY <1>3, <1>5, <2>2, <3>1, <3>2 DEF Handles
  <2>3. CASE calls[c].at # "half"
    BY <1>3, <1>5, <2>1, <2>3 DEF Handles, Sleeping, Ends
  <2> QED
    BY <2>2, <2>3
<1>6. CASE calls[c].op = "wake"
  BY <1>3, <1>6 DEF Handles, Waking
<1>7. CASE calls[c].op = "remove"
  BY <1>3, <1>7 DEF Handles, Removing, Ends
<1>8. CASE calls[c].op = "open"
  <2> DEFINE n == server.terms[calls[c].w] + 1
  <2>1. n \in Nat
    BY <1>4
  <2>2. server' = [server EXCEPT !.terms[calls[c].w] = n]
    BY <1>8 DEF Handles, Opening
  <2> HIDE DEF n
  <2> QED
    BY <1>3, <1>8, <2>1, <2>2 DEF Handles, Opening
<1>9. CASE calls[c].op = "kill"
  <2> DEFINE n == IF server.terms[calls[c].w] = 0 THEN 0 ELSE server.terms[calls[c].w] - 1
  <2>1. n \in Nat
    BY <1>4
  <2>2. server' = [server EXCEPT !.terms[calls[c].w] = n]
    BY <1>9 DEF Handles, Killing
  <2> HIDE DEF n
  <2> QED
    BY <1>3, <1>9, <2>1, <2>2 DEF Handles, Killing
<1> QED
  BY <1>3, <1>5, <1>6, <1>7, <1>8, <1>9

LEMMA HandlesOK ==
  ASSUME TypeOK, NEW c \in Call, Handles(c)
  PROVE  TypeOK'
<1> DEFINE w == calls[c].w
<1>1. /\ w \in Worktree /\ calls[c].at \in {"asked", "half"}
      /\ UNCHANGED <<stored, reads, writes, page, strayed, clicked>>
      /\ \E how \in {"half", "done", "failed"} : Ends(c, how)
  BY HandlesIs
<1>2. DOMAIN calls' = Call /\ \A d \in Call : CallOK(calls'[d])
  BY <1>1, EndsOK
<1>3. SeenOK(server') /\ lost' \subseteq Worktree
  <2>1. SeenOK(server) /\ lost \subseteq Worktree
    BY DEF TypeOK
  <2>3. SeenOK(server')
    <3>1. \/ \E n \in Nat : server' = [server EXCEPT !.terms[w] = n]
          \/ server' = [server EXCEPT !.awake = @ \cup {w}]
          \/ server' = [server EXCEPT !.awake = @ \ {w}]
          \/ server' = [server EXCEPT !.there = @ \ {w}, !.awake = @ \ {w}, !.queued = @ \ {w}]
          \/ server' = server
      BY HandlesIs
    <3>2. w \in Worktree
      BY <1>1
    <3> HIDE DEF w
    <3>3. ASSUME NEW n \in Nat, server' = [server EXCEPT !.terms[w] = n]
          PROVE  SeenOK(server')
      <4>1. SeenOK([server EXCEPT !.terms[w] = n])
        BY <2>1, <3>2, SeenKeeps
      <4> QED
        BY <3>3, <4>1
    <3>4. /\ SeenOK([server EXCEPT !.awake = @ \cup {w}])
          /\ SeenOK([server EXCEPT !.awake = @ \ {w}])
          /\ SeenOK([server EXCEPT !.there = @ \ {w}, !.awake = @ \ {w}, !.queued = @ \ {w}])
      BY <2>1, <3>2, SeenKeeps
    <3> QED
      BY <2>1, <3>1, <3>3, <3>4
  <2>5. lost' \subseteq Worktree
    BY <1>1, <2>1, HandlesIs
  <2> QED
    BY <2>3, <2>5
<1>4. told' \in Nat /\ unsaid' \in {"told", "half", "new", "lost"}
  <2>1. CASE Tells
    BY <2>1, TellsOK
  <2>2. CASE told' = told /\ unsaid' \in {"half", unsaid}
    BY <2>2 DEF TypeOK
  <2> QED
    BY <2>1, <2>2, HandlesIs
<1> QED
  BY <1>1, <1>2, <1>3, <1>4 DEF TypeOK

LEMMA WriteIs ==
  ASSUME TypeOK, NEW i \in DOMAIN writes
  PROVE  i \in 1..Len(writes) /\ WriteOK(writes[i])
<1>1. DOMAIN writes = 1..Len(writes)
  <2> DEFINE S == {writes[j] : j \in DOMAIN writes}
  <2>1. writes \in Seq(S)
    BY DEF TypeOK
  <2> HIDE DEF S
  <2> QED
    BY <2>1
<1> QED
  BY <1>1 DEF TypeOK

\* Of a list: with one more, and without one.
LEMMA ListMore ==
  ASSUME NEW s, s \in Seq({s[i] : i \in DOMAIN s}), NEW x
  PROVE  /\ Append(s, x) \in Seq({Append(s, x)[i] : i \in DOMAIN Append(s, x)})
         /\ Len(Append(s, x)) = Len(s) + 1 /\ Len(s) \in Nat
         /\ \A i \in 1..Len(s) : Append(s, x)[i] = s[i]
         /\ Append(s, x)[Len(s) + 1] = x
<1> DEFINE S == {s[i] : i \in DOMAIN s}
           T == S \cup {x}
           t == Append(s, x)
           U == {t[i] : i \in DOMAIN t}
<1>1. s \in Seq(T) /\ x \in T
  <2>1. s \in Seq(S) /\ S \subseteq T
    OBVIOUS
  <2> HIDE DEF S, T
  <2>2. s \in Seq(T)
    BY <2>1
  <2> QED
    BY <2>2 DEF T
<1> HIDE DEF T, S
<1>2. /\ t \in Seq(T) /\ Len(t) = Len(s) + 1 /\ Len(s) \in Nat
      /\ \A i \in 1..Len(s) : t[i] = s[i]
      /\ t[Len(s) + 1] = x
  BY <1>1
<1> HIDE DEF t
<1>3. t \in Seq(U)
  <2>1. Len(t) \in Nat /\ DOMAIN t = 1..Len(t) /\ t = [i \in 1..Len(t) |-> t[i]]
    BY <1>2
  <2>2. \A i \in 1..Len(t) : t[i] \in U
    BY <2>1
  <2> HIDE DEF U
  <2> QED
    BY <2>1, <2>2
<1> QED
  BY <1>2, <1>3 DEF t

LEMMA ListLess ==
  ASSUME NEW s, s \in Seq({s[i] : i \in DOMAIN s}), NEW n \in 1..Len(s)
  PROVE  /\ Without(s, n) \in Seq({Without(s, n)[i] : i \in DOMAIN Without(s, n)})
         /\ Len(Without(s, n)) = Len(s) - 1 /\ Len(s) \in Nat
         /\ \A i \in 1..(Len(s) - 1) : Without(s, n)[i] = IF i < n THEN s[i] ELSE s[i + 1]
<1> DEFINE S == {s[i] : i \in DOMAIN s}
           t == Without(s, n)
           U == {t[i] : i \in DOMAIN t}
<1> HIDE DEF S
<1>1. s \in Seq(S)
  BY DEF S
<1>2. /\ t \in Seq(S) /\ Len(t) = Len(s) - 1 /\ Len(s) \in Nat
      /\ \A i \in 1..(Len(s) - 1) : t[i] = IF i < n THEN s[i] ELSE s[i + 1]
  <2> DEFINE a == SubSeq(s, 1, n - 1)
             b == SubSeq(s, n + 1, Len(s))
  <2>1. Len(s) \in Nat /\ n \in Nat
    BY <1>1
  <2>2. a \in Seq(S) /\ Len(a) = n - 1 /\ \A i \in 1..(n - 1) : a[i] = s[i]
    BY <1>1, <2>1
  <2>3. b \in Seq(S) /\ Len(b) = Len(s) - n /\ \A i \in 1..(Len(s) - n) : b[i] = s[n + i]
    BY <1>1, <2>1
  <2>4. t = a \o b
    BY DEF Without
  <2> HIDE DEF a, b, t
  <2>5. t \in Seq(S) /\ Len(t) = Len(a) + Len(b)
    <3>1. a \in Seq(S) /\ b \in Seq(S)
      BY <2>2, <2>3
    <3> QED
      BY <2>4, <3>1
  <2>6. \A i \in 1..Len(t) : t[i] = IF i <= Len(a) THEN a[i] ELSE b[i - Len(a)]
    BY <2>2, <2>3, <2>4, <2>5
  <2>7. Len(t) = Len(s) - 1
    BY <2>1, <2>2, <2>3, <2>5
  <2>8. ASSUME NEW i \in 1..(Len(s) - 1)
        PROVE  t[i] = IF i < n THEN s[i] ELSE s[i + 1]
    <3>1. CASE i < n
      BY <2>1, <2>2, <2>6, <2>7, <3>1
    <3>2. CASE ~(i < n)
      <4>1. t[i] = b[i - (n - 1)] /\ i - (n - 1) \in 1..(Len(s) - n)
        BY <2>1, <2>2, <2>6, <2>7, <3>2
      <4>2. n + (i - (n - 1)) = i + 1
        BY <2>1
      <4> QED
        BY <2>1, <2>3, <3>2, <4>1, <4>2
    <3> QED
      BY <3>1, <3>2
  <2> QED
    BY <2>1, <2>5, <2>7, <2>8
<1> HIDE DEF t
<1>3. t \in Seq(U)
  <2>1. Len(t) \in Nat /\ DOMAIN t = 1..Len(t) /\ t = [i \in 1..Len(t) |-> t[i]]
    BY <1>2
  <2>2. \A i \in 1..Len(t) : t[i] \in U
    BY <2>1
  <2> HIDE DEF U
  <2> QED
    BY <2>1, <2>2
<1> QED
  BY <1>2, <1>3 DEF t

\* UNCHANGED what a step leaves alone of what the type invariant speaks of.
LEMMA PageStepOK ==
  ASSUME TypeOK, PageOK(page'), UNCHANGED <<server, stored, writes, strayed, lost, clicked>>,
         told' \in Nat, unsaid' \in {"told", "half", "new", "lost"},
         DOMAIN reads' = Read, \A r \in Read : ReadOK(reads'[r]),
         DOMAIN calls' = Call, \A c \in Call : CallOK(calls'[c])
  PROVE  TypeOK'
BY DEF TypeOK

LEMMA RefreshesOK ==
  ASSUME TypeOK, NEW then \in Request \cup {Nothing}, Refreshes(then)
  PROVE  DOMAIN reads' = Read /\ \A r \in Read : ReadOK(reads'[r])
BY RefreshesIs DEF TypeOK

LEMMA HumanOK ==
  ASSUME TypeOK, HumanSteps, ~Reloads
  PROVE  TypeOK'
<1>1. PageOK(page) /\ lost \subseteq Worktree /\ clicked \in [Worktree -> {"none", "wake", "sleep"}]
  BY DEF TypeOK
<1>2. ASSUME NEW w \in Worktree, Wakes(w) \/ Sleeps(w)
      PROVE  TypeOK'
  <2>1. PICK new : /\ Moves(page, new) /\ Acts(new) /\ UNCHANGED lost
                   /\ \/ Asks("wake", w, TRUE) /\ Clicks("wake", w)
                      \/ Asks("sleep", w, TRUE) /\ Clicks("sleep", w)
    BY <1>1, <1>2, WakesIs
  <2>2. /\ UNCHANGED <<server, stored, told, reads, writes, strayed, unsaid>> /\ PageOK(page')
    BY <2>1, ActsKeeps DEF Moves
  <2>3. DOMAIN calls' = Call /\ \A c \in Call : CallOK(calls'[c])
    BY <2>1, AsksOK
  <2>4. clicked' \in [Worktree -> {"none", "wake", "sleep"}]
    BY <1>1, <2>1 DEF Clicks
  <2> QED
    BY <2>1, <2>2, <2>3, <2>4 DEF TypeOK
<1>3. ASSUME NEW new, Other(new)
      PROVE  TypeOK'
  <2>1. /\ UNCHANGED <<server, stored, told, reads, writes, strayed, unsaid>> /\ PageOK(page')
    BY <1>3, ActsKeeps DEF Moves, Other
  <2>2. DOMAIN calls' = Call /\ \A c \in Call : CallOK(calls'[c])
    <3>1. CASE UNCHANGED calls
      BY <3>1 DEF TypeOK
    <3>2. CASE \E op \in {"remove", "open", "kill"}, w \in Worktree : Asks(op, w, TRUE)
      BY <3>2, AsksOK
    <3> QED
      BY <1>3, <3>1, <3>2 DEF Other
  <2>3. UNCHANGED clicked /\ lost' \subseteq Worktree
    BY <1>1, <1>3 DEF Other
  <2> QED
    BY <2>1, <2>2, <2>3 DEF TypeOK
<1> QED
  BY <1>1, <1>2, <1>3, HumanIs

LEMMA FreshOK ==
  /\ ReadOK([FreeRead EXCEPT !.at = "asked"])
  /\ [FreeRead EXCEPT !.at = "asked"] # FreeRead
<1> DEFINE d == [FreeRead EXCEPT !.at = "asked"]
<1>1. ReadOK(FreeRead)
  BY FreeReadOK
<1>2. /\ DOMAIN d = DOMAIN FreeRead /\ d.at = "asked" /\ d.then = FreeRead.then
      /\ d.snap = FreeRead.snap /\ d.before = FreeRead.before /\ d.stale = FreeRead.stale
  BY DEF FreeRead
<1>3. FreeRead.at = "free"
  BY DEF FreeRead
<1> HIDE DEF d
<1>4. ReadOK(d)
  BY <1>1, <1>2 DEF ReadOK
<1> QED
  BY <1>2, <1>3, <1>4 DEF d

LEMMA NewPageOK ==
  ASSUME NEW ui, UiOK(ui)
  PROVE  PageOK(NewPage(ui))
<1>1. SeenOK(NoSnap.server)
  BY FreeReadOK DEF FreeRead, ReadOK
<1>2. [w \in Worktree |-> "none"] \in [Worktree -> {"none", "awake", "asleep"}]
  OBVIOUS
<1> QED
  BY <1>1, <1>2 DEF NewPage, PageOK

LEMMA ReloadsOK ==
  ASSUME TypeOK, Reloads
  PROVE  TypeOK'
<1>1. PageOK(page')
  BY NewPageOK DEF Reloads, TypeOK, PageOK
<1>2. DOMAIN reads' = Read /\ \A r \in Read : ReadOK(reads'[r])
  <2>1. reads' = [r \in Read |-> IF r = 1 THEN [FreeRead EXCEPT !.at = "asked"] ELSE FreeRead]
    BY DEF Reloads
  <2> QED
    BY <2>1, FreshOK, FreeReadOK
<1>3. DOMAIN calls' = Call /\ \A c \in Call : CallOK(calls'[c])
  <2>1. calls' = [c \in Call |-> [calls[c] EXCEPT !.mine = FALSE]]
    BY DEF Reloads
  <2>2. ASSUME NEW c \in Call PROVE CallOK([calls[c] EXCEPT !.mine = FALSE])
    <3> DEFINE d == [calls[c] EXCEPT !.mine = FALSE]
    <3>1. CallOK(calls[c])
      BY DEF TypeOK
    <3>2. /\ DOMAIN d = {"op", "w", "at", "mine"} /\ d.op = calls[c].op /\ d.w = calls[c].w
          /\ d.at = calls[c].at /\ d.mine = FALSE
      BY <3>1 DEF CallOK
    <3> HIDE DEF d
    <3> QED
      BY <3>1, <3>2 DEF CallOK, d
  <2> QED
    BY <2>1, <2>2
<1>4. /\ writes' \in Seq({writes'[i] : i \in DOMAIN writes'})
      /\ \A i \in 1..Len(writes') : WriteOK(writes'[i])
  <2> DEFINE d(i) == [writes[i] EXCEPT !.mine = FALSE]
             S == {writes[i] : i \in DOMAIN writes}
             T == {d(i) : i \in DOMAIN writes}
  <2>1. writes \in Seq(S)
    BY DEF TypeOK
  <2> HIDE DEF S
  <2>2. DOMAIN writes = 1..Len(writes) /\ Len(writes) \in Nat
    BY <2>1
  <2>3. writes' = [i \in 1..Len(writes) |-> d(i)]
    BY <2>2 DEF Reloads
  <2>4. ASSUME NEW i \in 1..Len(writes) PROVE WriteOK(d(i))
    <3>1. WriteOK(writes[i])
      BY DEF TypeOK
    <3>2. DOMAIN d(i) = {"of", "mine"} /\ d(i).of = writes[i].of /\ d(i).mine = FALSE
      BY <3>1 DEF WriteOK
    <3> HIDE DEF d
    <3> QED
      BY <3>1, <3>2 DEF WriteOK
  <2> HIDE DEF d
  <2>5. Len(writes') = Len(writes) /\ DOMAIN writes' = 1..Len(writes)
        /\ \A i \in 1..Len(writes) : writes'[i] = d(i)
    <3>1. \A i \in 1..Len(writes) : d(i) \in T
      BY <2>2
    <3> HIDE DEF T
    <3> QED
      BY <2>2, <2>3, <3>1
  <2>6. writes' \in Seq({writes'[i] : i \in DOMAIN writes'})
    <3> DEFINE U == {writes'[i] : i \in DOMAIN writes'}
    <3>1. \A i \in 1..Len(writes) : d(i) \in U
      BY <2>5
    <3> HIDE DEF U
    <3>2. writes' \in Seq(U)
      BY <2>2, <2>3, <3>1
    <3> QED
      BY <3>2 DEF U
  <2> QED
    BY <2>4, <2>5, <2>6
<1>5. /\ strayed' \in BOOLEAN /\ lost' \subseteq Worktree /\ told' \in Nat
      /\ unsaid' \in {"told", "half", "new", "lost"}
      /\ UNCHANGED <<server, stored, clicked>>
  BY DEF Reloads, TypeOK
<1> QED
  BY <1>1, <1>2, <1>3, <1>4, <1>5 DEF TypeOK

LEMMA LandsOK ==
  ASSUME TypeOK, NEW r \in Read, Lands(r) \/ ReadFails(r)
  PROVE  TypeOK'
<1>1. PageOK(page')
  BY LandsIs, FailsIs
<1>2. Over(r) /\ UNCHANGED <<server, stored, told, calls, writes, history>>
  BY DEF Lands, ReadFails
<1>3. DOMAIN reads' = Read /\ \A q \in Read : ReadOK(reads'[q])
  BY <1>2, OverIs
<1> QED
  BY <1>1, <1>2, <1>3, PageStepOK DEF history, TypeOK

LEMMA IdleOK == CallOK(Idle)
BY DEF Idle, CallOK

LEMMA AnsweredIs ==
  ASSUME TypeOK, NEW c \in Call, Answered(c)
  PROVE  LET call == calls[c]
             then == [op |-> call.op, w |-> call.w]
         IN /\ then \in Request /\ call # Idle /\ call.at \in {"done", "failed"}
            /\ calls' = [calls EXCEPT ![c] = Idle]
            /\ UNCHANGED <<server, stored, told, writes, history>>
            /\ \/ ~call.mine /\ UNCHANGED <<reads, page>>
               \/ /\ call.mine /\ Refreshes(then)
                  /\ call.op = "remove" => call.at = "done" /\ Renders(SetPanel(page, call.w, "none"))
                  /\ call.op # "remove" => UNCHANGED page
               \/ /\ call.mine /\ UNCHANGED reads /\ call.op \notin {"wake", "sleep"}
                  /\ \E D \in SUBSET Worktree : Renders([page EXCEPT !.departing = D])
<1>1. CallOK(calls[c]) /\ calls[c].at \in {"done", "failed"} /\ PageOK(page)
  BY DEF TypeOK, Answered
<1>2. calls[c] # Idle
  BY <1>1 DEF Idle
<1>3. [op |-> calls[c].op, w |-> calls[c].w] \in Request
  BY <1>1, <1>2 DEF CallOK
<1>4. UNCHANGED <<server, stored, told, writes, history>> /\ calls' = [calls EXCEPT ![c] = Idle]
  BY DEF Answered
<1>5. CASE ~calls[c].mine
  BY <1>1, <1>2, <1>3, <1>4, <1>5 DEF Answered
<1>6. CASE calls[c].mine /\ (calls[c].at = "done" \/ calls[c].op \in {"wake", "sleep"})
  <2>1. /\ Refreshes([op |-> calls[c].op, w |-> calls[c].w])
        /\ IF calls[c].op = "remove"
           THEN Renders(SetPanel(page, calls[c].w, "none")) ELSE UNCHANGED page
    BY <1>6 DEF Answered
  <2> QED
    BY <1>1, <1>2, <1>3, <1>4, <1>6, <2>1
<1>7. CASE calls[c].mine /\ ~(calls[c].at = "done" \/ calls[c].op \in {"wake", "sleep"})
  <2> DEFINE D == IF calls[c].op = "remove" THEN page.departing \ {calls[c].w} ELSE page.departing
  <2>1. UNCHANGED reads /\ Renders([page EXCEPT !.departing = D])
    BY <1>7 DEF Answered
  <2>2. D \in SUBSET Worktree
    BY <1>1 DEF PageOK
  <2> HIDE DEF D
  <2> QED
    BY <1>1, <1>2, <1>3, <1>4, <1>7, <2>1, <2>2
<1> QED
  BY <1>5, <1>6, <1>7

\* The answer closes the panel of a worktree that has been removed, at most.
LEMMA AnsweredPage ==
  ASSUME TypeOK, NEW c \in Call, Answered(c)
  PROVE  /\ Moves(page, page') /\ page'.pending = page.pending
         /\ \A w \in Worktree : \/ page'.ui.panels[w] = page.ui.panels[w]
                                \/ w \notin page.seen.there
                                \/ calls[c].op = "remove" /\ calls[c].w = w /\ calls[c].at = "done"
<1> DEFINE w == calls[c].w
<1>1. PageOK(page) /\ Moves(page, page)
  BY StaysIs DEF TypeOK
<1>2. ASSUME NEW new, Moves(page, new), new.pending = page.pending, Renders(new),
             \A v \in Worktree : \/ new.ui.panels[v] = page.ui.panels[v]
                                 \/ calls[c].op = "remove" /\ calls[c].w = v /\ calls[c].at = "done"
      PROVE  /\ Moves(page, page') /\ page'.pending = page.pending
             /\ \A v \in Worktree : \/ page'.ui.panels[v] = page.ui.panels[v]
                                    \/ v \notin page.seen.there
                                    \/ calls[c].op = "remove" /\ calls[c].w = v /\ calls[c].at = "done"
  <2>1. PageOK(new) /\ new.seen = page.seen /\ page' = Rendered(page, new)
    BY <1>2 DEF Moves, Renders
  <2>2. /\ Touches(new, page')
        /\ \A v \in Worktree : page'.ui.panels[v] = new.ui.panels[v] \/ v \notin new.seen.there
    BY <1>1, <2>1, RenderSame
  <2> QED
    BY <1>2, <2>1, <2>2, TouchesMoves, MovesMore DEF Touches
<1>3. /\ calls[c].w \in Worktree
      /\ \/ UNCHANGED page
         \/ calls[c].op = "remove" /\ calls[c].at = "done" /\ Renders(SetPanel(page, w, "none"))
         \/ \E D \in SUBSET Worktree : Renders([page EXCEPT !.departing = D])
  BY AnsweredIs DEF Request
<1>4. CASE UNCHANGED page
  BY <1>1, <1>4
<1>5. CASE calls[c].op = "remove" /\ calls[c].at = "done" /\ Renders(SetPanel(page, w, "none"))
  <2> DEFINE new == SetPanel(page, w, "none")
  <2>1. /\ Moves(page, new) /\ new.pending = page.pending
        /\ \A v \in Worktree \ {w} : new.ui.panels[v] = page.ui.panels[v]
    BY <1>1, <1>3, SetPanelMoves DEF Panel
  <2>2. Renders(new)
    BY <1>5
  <2> HIDE DEF new
  <2> QED
    BY <1>2, <1>5, <2>1, <2>2
<1>6. CASE \E D \in SUBSET Worktree : Renders([page EXCEPT !.departing = D])
  <2>1. PICK D \in SUBSET Worktree : Renders([page EXCEPT !.departing = D])
    BY <1>6
  <2> DEFINE new == [page EXCEPT !.departing = D]
  <2>2. Moves(page, new) /\ new.ui = page.ui /\ new.pending = page.pending
    BY <1>1, DepartingMoves
  <2>3. Renders(new)
    BY <2>1
  <2> HIDE DEF new
  <2> QED
    BY <1>2, <2>2, <2>3
<1> QED
  BY <1>3, <1>4, <1>5, <1>6

LEMMA AnsweredOK ==
  ASSUME TypeOK, NEW c \in Call, Answered(c)
  PROVE  TypeOK'
<1>1. /\ calls' = [calls EXCEPT ![c] = Idle]
      /\ UNCHANGED <<server, stored, told, writes, history>>
      /\ UNCHANGED reads \/ \E then \in Request : Refreshes(then)
  BY AnsweredIs
<1>2. DOMAIN calls' = Call /\ \A d \in Call : CallOK(calls'[d])
  BY <1>1, IdleOK DEF TypeOK
<1>3. DOMAIN reads' = Read /\ \A r \in Read : ReadOK(reads'[r])
  <2>1. CASE UNCHANGED reads
    BY <2>1 DEF TypeOK
  <2> QED
    BY <1>1, <2>1, RefreshesOK
<1>4. PageOK(page')
  BY AnsweredPage DEF Moves
<1> QED
  BY <1>1, <1>2, <1>3, <1>4, PageStepOK DEF history, TypeOK

LEMMA SavesOK ==
  ASSUME TypeOK, Saves
  PROVE  TypeOK'
<1> DEFINE of == [k \in page.patch |-> page.ui[k]]
           d == [of |-> of, mine |-> TRUE]
<1>1. PageOK(page)
  BY DEF TypeOK
<1>2. WriteOK(d)
  <2>1. DOMAIN of \subseteq Key /\ \A k \in DOMAIN of : of[k] = page.ui[k]
    BY <1>1 DEF PageOK
  <2> HIDE DEF of
  <2> QED
    BY <1>1, <2>1 DEF WriteOK, PageOK, UiOK
<1>3. writes' = Append(writes, d) /\ page' = [page EXCEPT !.patch = {}]
      /\ UNCHANGED <<server, stored, told, reads, calls, history>>
  BY DEF Saves
<1>4. PageOK(page')
  <2>1. DOMAIN page' = DOMAIN page /\ page'.patch = {}
        /\ \A f \in DOMAIN page \ {"patch"} : page'[f] = page[f]
    BY <1>1, <1>3 DEF PageOK
  <2> QED
    BY <1>1, <2>1 DEF PageOK
<1> HIDE DEF d
<1>5. /\ writes' \in Seq({writes'[i] : i \in DOMAIN writes'})
      /\ \A i \in 1..Len(writes') : WriteOK(writes'[i])
  <2>1. /\ writes \in Seq({writes[i] : i \in DOMAIN writes})
        /\ \A i \in 1..Len(writes) : WriteOK(writes[i])
    BY DEF TypeOK
  <2> DEFINE t == Append(writes, d)
  <2>2. /\ t \in Seq({t[i] : i \in DOMAIN t})
        /\ Len(t) = Len(writes) + 1 /\ Len(writes) \in Nat
        /\ \A i \in 1..Len(writes) : t[i] = writes[i]
        /\ t[Len(writes) + 1] = d
    BY <2>1, ListMore
  <2> HIDE DEF t
  <2>3. \A i \in 1..Len(t) : WriteOK(t[i])
    <3>1. \A i \in 1..Len(t) : i \in 1..Len(writes) \/ i = Len(writes) + 1
      BY <2>2
    <3> QED
      BY <1>2, <2>1, <2>2, <3>1
  <2>4. writes' = t
    BY <1>3 DEF t
  <2> QED
    BY <2>2, <2>3, <2>4
<1> QED
  BY <1>3, <1>4, <1>5 DEF TypeOK, history

LEMMA WritesLess ==
  ASSUME TypeOK, NEW i \in DOMAIN writes, writes' = Without(writes, i)
  PROVE  /\ writes' \in Seq({writes'[j] : j \in DOMAIN writes'})
         /\ \A j \in 1..Len(writes') : WriteOK(writes'[j])
<1>1. i \in 1..Len(writes)
  BY WriteIs
<1> DEFINE t == Without(writes, i)
<1>2. /\ writes \in Seq({writes[j] : j \in DOMAIN writes})
      /\ \A j \in 1..Len(writes) : WriteOK(writes[j])
  BY DEF TypeOK
<1>3. /\ t \in Seq({t[j] : j \in DOMAIN t})
      /\ Len(t) = Len(writes) - 1 /\ Len(writes) \in Nat
      /\ \A j \in 1..(Len(writes) - 1) : t[j] = IF j < i THEN writes[j] ELSE writes[j + 1]
  BY <1>1, <1>2, ListLess
<1> HIDE DEF t
<1>4. ASSUME NEW j \in 1..Len(t) PROVE WriteOK(t[j])
  <2>1. j \in 1..(Len(writes) - 1) /\ j \in 1..Len(writes) /\ j + 1 \in 1..Len(writes)
    BY <1>3
  <2> QED
    BY <1>2, <1>3, <2>1
<1>5. writes' = t
  BY DEF t
<1> QED
  BY <1>3, <1>4, <1>5

LEMMA SaveLandsOK ==
  ASSUME TypeOK, NEW i \in DOMAIN writes, SaveLands(i)
  PROVE  TypeOK'
<1> DEFINE body == writes[i].of
<1>1. WriteOK(writes[i]) /\ UiOK(stored)
  BY WriteIs DEF TypeOK
<1>2. /\ stored' = [k \in Key |-> IF k \in DOMAIN body THEN body[k] ELSE stored[k]]
      /\ writes' = Without(writes, i)
      /\ Tells \/ UNCHANGED <<told, unsaid>>
      /\ UNCHANGED <<server, reads, calls, page, lost, clicked>>
  BY DEF SaveLands
<1>3. UiOK(stored')
  <2>1. DOMAIN stored' = Key
        /\ \A k \in Key : stored'[k] = IF k \in DOMAIN body THEN body[k] ELSE stored[k]
    BY <1>2
  <2> QED
    BY <1>1, <2>1 DEF UiOK, WriteOK, Key
<1>4. strayed' \in BOOLEAN
  BY DEF SaveLands
<1>5. told' \in Nat /\ unsaid' \in {"told", "half", "new", "lost"}
  BY <1>2, TellsOK DEF TypeOK
<1> QED
  BY <1>2, <1>3, <1>4, <1>5, WritesLess DEF TypeOK

LEMMA ServerOK ==
  ASSUME TypeOK, ServerSteps
  PROVE  TypeOK'
<1>1. ASSUME NEW r \in Read, Snapshots(r) PROVE TypeOK'
  <2>1. DOMAIN reads' = Read /\ \A q \in Read : ReadOK(reads'[q])
    BY <1>1, SnapshotsIs DEF TypeOK
  <2>2. UNCHANGED <<server, stored, told, calls, writes, page, history>>
    BY <1>1 DEF Snapshots
  <2> QED
    BY <2>1, <2>2 DEF TypeOK, history
<1>2. ASSUME NEW i \in DOMAIN writes, SaveFails(i) PROVE TypeOK'
  BY <1>2, WritesLess DEF SaveFails, TypeOK
<1>3. ASSUME NEW c \in Call, Refuses(c) PROVE TypeOK'
  <2>1. Ends(c, "failed") /\ calls[c].at # "idle"
        /\ UNCHANGED <<server, stored, told, reads, writes, page, history>>
    BY <1>3 DEF Refuses
  <2>2. DOMAIN calls' = Call /\ \A d \in Call : CallOK(calls'[d])
    BY <2>1, EndsOK
  <2> QED
    BY <2>1, <2>2 DEF TypeOK, history
<1>4. ASSUME DaysChange PROVE TypeOK'
  <2>1. /\ stored' = [stored EXCEPT !.days = 1 - @] /\ Tells
        /\ UNCHANGED <<server, reads, calls, writes, page, strayed, lost, clicked>>
    BY <1>4 DEF DaysChange
  <2>2. UiOK(stored')
    BY <2>1 DEF TypeOK, UiOK, Key
  <2> QED
    BY <2>1, <2>2, TellsOK DEF TypeOK
<1>5. ASSUME Unlinks PROVE TypeOK'
  <2>1. /\ page' = [page EXCEPT !.link = "lost"] /\ told' = 0
        /\ unsaid' \in {"lost", unsaid}
        /\ UNCHANGED <<server, stored, reads, calls, writes, strayed, lost, clicked>>
    BY <1>5 DEF Unlinks
  <2>2. PageOK(page')
    BY <2>1 DEF TypeOK, PageOK
  <2> QED
    BY <2>1, <2>2 DEF TypeOK
<1>6. ASSUME NEW s, SeenOK(s), Elsewhere(s) PROVE TypeOK'
  BY <1>6, TellsOK DEF Elsewhere, TypeOK
<1>7. ASSUME NEW w \in Worktree, Exits(w) PROVE TypeOK'
  <2> DEFINE n == server.terms[w] - 1
             s == [server EXCEPT !.terms[w] = n]
  <2>1. Elsewhere(s) /\ n \in Nat
    BY <1>7 DEF Exits, TypeOK, SeenOK
  <2> HIDE DEF n
  <2>2. SeenOK(s)
    BY <2>1, SeenKeeps DEF TypeOK
  <2> HIDE DEF s
  <2> QED
    BY <1>6, <2>1, <2>2
<1>8. ASSUME NEW w \in Worktree, Queues(w) PROVE TypeOK'
  <2> DEFINE Q == IF w \in server.queued THEN server.queued \ {w} ELSE server.queued \cup {w}
             s == [server EXCEPT !.queued = Q]
  <2>1. Elsewhere(s)
    BY <1>8 DEF Queues
  <2> HIDE DEF Q
  <2>2. SeenOK(s)
    BY SeenKeeps DEF TypeOK
  <2> HIDE DEF s
  <2> QED
    BY <1>6, <2>1, <2>2
<1>9. ASSUME NEW w \in Worktree, NEW op \in {"wake", "sleep", "remove", "open"}, Others(op, w)
      PROVE  TypeOK'
  <2>1. Asks(op, w, FALSE) /\ UNCHANGED <<server, stored, told, reads, writes, page, history>>
    BY <1>9 DEF Others
  <2>2. DOMAIN calls' = Call /\ \A c \in Call : CallOK(calls'[c])
    BY <2>1, AsksOK
  <2> QED
    BY <2>1, <2>2 DEF TypeOK, history
<1> QED
  BY <1>1, <1>2, <1>3, <1>4, <1>5, <1>7, <1>8, <1>9, SaveLandsOK, HandlesOK DEF ServerSteps

LEMMA PageStepsOK ==
  ASSUME TypeOK, PageSteps
  PROVE  TypeOK'
<1>1. ASSUME Hears PROVE TypeOK'
  <2>1. told > 0 /\ told' = told - 1 /\ Refreshes(Nothing)
        /\ UNCHANGED <<server, stored, calls, writes, page, history>>
    BY <1>1 DEF Hears
  <2>2. DOMAIN reads' = Read /\ \A r \in Read : ReadOK(reads'[r])
    BY <2>1, RefreshesOK
  <2>3. told' \in Nat
    BY <2>1 DEF TypeOK
  <2> QED
    BY <2>1, <2>2, <2>3 DEF TypeOK, history
<1>2. ASSUME Links PROVE TypeOK'
  <2>1. /\ page' = [page EXCEPT !.link = "open"]
        /\ UNCHANGED <<server, stored, told, reads, calls, writes, history>>
    BY <1>2 DEF Links
  <2>2. PageOK(page')
    BY <2>1 DEF TypeOK, PageOK
  <2> QED
    BY <2>1, <2>2 DEF TypeOK, history
<1> QED
  BY <1>1, <1>2, LandsOK, SavesOK, AnsweredOK DEF PageSteps

LEMMA InitOK ==
  ASSUME Init
  PROVE  TypeOK
<1>1. PICK start \in Starts :
        /\ server = [there |-> Worktree, awake |-> start.awake, terms |-> start.terms,
                     queued |-> start.queued]
        /\ stored = [NoSnap.ui EXCEPT !.panels = start.panels, !.files = start.files,
                                      !.where = start.where]
  BY DEF Init
<1>2. /\ start.awake \in SUBSET Worktree /\ start.terms \in [Worktree -> Nat]
      /\ start.panels \in [Worktree -> Panel] /\ start.files \in [Worktree -> BOOLEAN]
  BY RowAssumption DEF Panel
<1>3. SeenOK(server)
  BY <1>1, <1>2 DEF SeenOK
<1>4. UiOK(NoSnap.ui)
  BY FreeReadOK DEF FreeRead, ReadOK
<1>5. UiOK(stored)
  BY <1>1, <1>2, <1>4 DEF UiOK, Key
<1>6. PageOK(page)
  BY <1>4, NewPageOK DEF Init
<1>7. DOMAIN reads = Read /\ \A r \in Read : ReadOK(reads[r])
  <2>1. reads = [r \in Read |-> IF r = 1 THEN [FreeRead EXCEPT !.at = "asked"] ELSE FreeRead]
    BY DEF Init
  <2> QED
    BY <2>1, FreshOK, FreeReadOK
<1>8. DOMAIN calls = Call /\ \A c \in Call : CallOK(calls[c])
  BY IdleOK DEF Init
<1>9. writes \in Seq({writes[i] : i \in DOMAIN writes}) /\ \A i \in 1..Len(writes) : WriteOK(writes[i])
  BY DEF Init
<1>10. clicked \in [Worktree -> {"none", "wake", "sleep"}]
  BY DEF Init
<1>11. told \in Nat /\ strayed \in BOOLEAN /\ unsaid \in {"told", "half", "new", "lost"}
       /\ lost \subseteq Worktree
  BY DEF Init
<1> QED
  BY <1>3, <1>5, <1>6, <1>7, <1>8, <1>9, <1>10, <1>11 DEF TypeOK

LEMMA NextOK ==
  ASSUME TypeOK, [Next]_vars
  PROVE  TypeOK'
<1>1. CASE UNCHANGED vars
  BY <1>1 DEF vars, outsidePage, history, TypeOK
<1> QED
  BY <1>1, HumanOK, ReloadsOK, PageStepsOK, ServerOK DEF Next

\* Every state has the shape its fields are declared with: what is on the page,
\* on the server and on the way between them.
THEOREM RowTypes == Spec => []TypeOK
<1>1. Init => TypeOK
  BY InitOK
<1>2. TypeOK /\ [Next]_vars => TypeOK'
  BY NextOK
<1> QED
  BY <1>1, <1>2, PTL DEF Spec

(***************************************************************************)
(* What the page sees, and what is on its way.                             *)
(***************************************************************************)

\* Of two reads, either the one was taken after the other or the other after the
\* one.
ReadsOK ==
  \A r \in Read :
    /\ reads[r].at # "taken" => ~reads[r].stale /\ reads[r].before = {}
    /\ reads[r].at = "free" => reads[r].then = Nothing
    /\ \A q \in reads[r].before : reads[q].at = "taken" /\ q # r /\ r \notin reads[q].before

\* r was taken after all the others on their way, and none was when it had
\* landed.
Newest(r) ==
  /\ reads[r].at = "taken" /\ ~reads[r].stale
  /\ \A q \in Read \ {r} : reads[q].at = "taken" => q \in reads[r].before

AllStale == \A r \in Read : reads[r].at = "taken" => reads[r].stale

\* The page was told of the last change, and has asked and been answered since.
Heard == unsaid = "told" /\ told = 0 /\ \A r \in Read : reads[r].at # "asked"

\* The change is on its way, or is what the page shows.
NewsOK ==
  Heard => \/ \E r \in Read : Newest(r) /\ reads[r].snap.server = server
           \/ AllStale /\ (page.fresh => page.seen = server)

\* This page's own change of the days is on its way to the server.
DaysMine ==
  \/ "days" \in page.patch
  \/ \E i \in DOMAIN writes : "days" \in DOMAIN writes[i].of

DaysOK ==
  Heard /\ ~strayed =>
    \/ \E r \in Read : Newest(r) /\ reads[r].snap.ui.days = stored.days
    \/ AllStale /\ (page.fresh => page.ui.days = stored.days \/ DaysMine)

\* A step that lands no read and takes none: what it leaves of the page, and what
\* it tells it.
Quiet ==
  /\ PageOK(page') /\ page'.seen = page.seen /\ page'.fresh = page.fresh
  /\ page'.adopted = page.adopted
  /\ Heard' =>
       /\ unsaid = "told" /\ told = 0 /\ server' = server /\ stored'.days = stored.days
       /\ (\E i \in DOMAIN writes : "days" \in DOMAIN writes[i].of)
            => strayed' \/ \E i \in DOMAIN writes' : "days" \in DOMAIN writes'[i].of
  /\ strayed => strayed'
  /\ \A k \in Key : k \in page'.patch \/ page'.ui[k] = page.ui[k]
  /\ "days" \in page.patch =>
       "days" \in page'.patch \/ \E i \in DOMAIN writes' : "days" \in DOMAIN writes'[i].of
  /\ UNCHANGED reads \/ \E then \in Request \cup {Nothing} : Refreshes(then)

LEMMA TellsIs ==
  ASSUME TypeOK, Tells
  PROVE  ~Heard'
BY DEF Heard, Tells, TypeOK, PageOK

LEMMA HumanQuiet ==
  ASSUME TypeOK, HumanSteps, ~Reloads
  PROVE  Quiet /\ UNCHANGED <<server, stored, told, unsaid, reads, writes, strayed>> /\ page.adopted
         /\ Moves(page, page')
<1>1. PageOK(page)
  BY DEF TypeOK
<1>2. /\ UNCHANGED <<server, stored, told, reads, writes, strayed, unsaid>> /\ Moves(page, page')
      /\ page.adopted
  <2>1. ASSUME NEW w \in Worktree, Wakes(w) \/ Sleeps(w)
        PROVE  \E new : Moves(page, new) /\ Acts(new)
    BY <1>1, <2>1, WakesIs
  <2>2. \E new : Moves(page, new) /\ Acts(new)
    BY <1>1, <2>1, HumanIs DEF Other
  <2> QED
    BY <2>2, ActsKeeps
<1> QED
  BY <1>2 DEF Quiet, Moves, Key, Heard

LEMMA AnsweredQuiet ==
  ASSUME TypeOK, NEW c \in Call, Answered(c)
  PROVE  Quiet
<1>1. /\ UNCHANGED <<server, stored, told, writes, history>>
      /\ UNCHANGED reads \/ \E then \in Request : Refreshes(then)
  BY AnsweredIs
<1>2. Moves(page, page')
  BY AnsweredPage
<1> QED
  BY <1>1, <1>2 DEF Quiet, Moves, history, Key, Heard

LEMMA SavesQuiet ==
  ASSUME TypeOK, Saves
  PROVE  Quiet
<1> DEFINE of == [k \in page.patch |-> page.ui[k]]
           d == [of |-> of, mine |-> TRUE]
           t == Append(writes, d)
<1>1. writes' = t /\ page' = [page EXCEPT !.patch = {}]
      /\ UNCHANGED <<server, stored, told, reads, history>>
  BY DEF Saves
<1>2. PageOK(page')
  BY SavesOK DEF TypeOK
<1>3. DOMAIN d.of = page.patch
  OBVIOUS
<1> HIDE DEF d
<1>4. writes \in Seq({writes[i] : i \in DOMAIN writes})
  BY DEF TypeOK
<1>5. /\ Len(t) = Len(writes) + 1 /\ Len(writes) \in Nat
      /\ \A i \in 1..Len(writes) : t[i] = writes[i]
      /\ t[Len(writes) + 1] = d
      /\ t \in Seq({t[i] : i \in DOMAIN t})
  BY <1>4, ListMore
<1> HIDE DEF t
<1>6. DOMAIN t = 1..Len(t) /\ DOMAIN writes = 1..Len(writes)
  BY <1>4, <1>5
<1>7. /\ \A i \in DOMAIN writes : i \in DOMAIN t /\ t[i] = writes[i]
      /\ Len(t) \in DOMAIN t /\ t[Len(t)] = d
  BY <1>5, <1>6
<1>8. /\ page'.seen = page.seen /\ page'.fresh = page.fresh /\ page'.adopted = page.adopted
      /\ page'.ui = page.ui
  BY <1>1 DEF TypeOK, PageOK
<1> QED
  BY <1>1, <1>2, <1>3, <1>7, <1>8 DEF Quiet, history, Heard

LEMMA WritesLose ==
  ASSUME TypeOK, NEW i \in DOMAIN writes, writes' = Without(writes, i), NEW k,
         k \notin DOMAIN writes[i].of, NEW j \in DOMAIN writes, k \in DOMAIN writes[j].of
  PROVE  \E n \in DOMAIN writes' : writes'[n] = writes[j]
<1> DEFINE t == Without(writes, i)
<1>1. writes \in Seq({writes[n] : n \in DOMAIN writes}) /\ i \in 1..Len(writes) /\ j \in 1..Len(writes)
  BY WriteIs DEF TypeOK
<1>2. /\ t \in Seq({t[n] : n \in DOMAIN t})
      /\ Len(t) = Len(writes) - 1 /\ Len(writes) \in Nat
      /\ \A n \in 1..(Len(writes) - 1) : t[n] = IF n < i THEN writes[n] ELSE writes[n + 1]
  BY <1>1, ListLess
<1> HIDE DEF t
<1>3. DOMAIN t = 1..(Len(writes) - 1)
  BY <1>2
<1>4. CASE j < i
  BY <1>1, <1>2, <1>3, <1>4 DEF t
<1>5. CASE j > i
  <2>1. i \in Nat /\ j \in Nat /\ j <= Len(writes) /\ 1 <= i
    BY <1>1, <1>2
  <2>2. j - 1 \in 1..(Len(writes) - 1) /\ ~(j - 1 < i) /\ (j - 1) + 1 = j
    BY <1>2, <1>5, <2>1
  <2>3. j - 1 \in DOMAIN t /\ t[j - 1] = writes[j]
    BY <1>2, <1>3, <2>2
  <2> QED
    BY <2>3 DEF t
<1>6. i # j
  OBVIOUS
<1> QED
  BY <1>1, <1>4, <1>5, <1>6

LEMMA SaveLandsQuiet ==
  ASSUME TypeOK, NEW i \in DOMAIN writes, SaveLands(i)
  PROVE  Quiet
<1> DEFINE body == writes[i].of
<1>1. /\ stored' = [k \in Key |-> IF k \in DOMAIN body THEN body[k] ELSE stored[k]]
      /\ writes' = Without(writes, i)
      /\ UNCHANGED <<server, reads, calls, page, lost, clicked>>
      /\ strayed => strayed'
      /\ IF "days" \in DOMAIN body THEN Tells ELSE UNCHANGED <<told, unsaid>>
  BY DEF SaveLands
<1>2. PageOK(page)
  BY DEF TypeOK
<1>3. CASE "days" \in DOMAIN body
  BY <1>1, <1>2, <1>3, TellsIs DEF Quiet, Heard
<1>4. CASE "days" \notin DOMAIN body
  <2>1. stored'.days = stored.days
    BY <1>1, <1>4 DEF Key
  <2>2. (\E j \in DOMAIN writes : "days" \in DOMAIN writes[j].of)
          => \E j \in DOMAIN writes' : "days" \in DOMAIN writes'[j].of
    BY <1>1, <1>4, WritesLose
  <2> QED
    BY <1>1, <1>2, <1>4, <2>1, <2>2 DEF Quiet, Heard
<1> QED
  BY <1>3, <1>4

LEMMA ElsewhereQuiet ==
  ASSUME TypeOK, NEW s, Elsewhere(s)
  PROVE  Quiet
BY TellsIs DEF Elsewhere, Quiet, TypeOK

LEMMA HandlesQuiet ==
  ASSUME TypeOK, NEW c \in Call, Handles(c)
  PROVE  Quiet
<1>1. UNCHANGED <<stored, reads, writes, page, strayed, clicked>>
  BY HandlesIs
<1>2. Tells \/ unsaid' = "half" \/ UNCHANGED <<server, told, unsaid>>
  BY HandlesIs
<1>3. PageOK(page)
  BY DEF TypeOK
<1> QED
  BY <1>1, <1>2, <1>3, TellsIs DEF Quiet, Heard

LEMMA NextIs ==
  ASSUME TypeOK, [Next]_vars
  PROVE  \/ Quiet /\ ~Reloads
         \/ \E r \in Read : Snapshots(r) \/ Lands(r) \/ ReadFails(r)
         \/ Reloads
<1>1. PageOK(page)
  BY DEF TypeOK
<1>2. ASSUME UNCHANGED vars PROVE Quiet
  BY <1>1, <1>2 DEF Quiet, vars, outsidePage, history, Heard
<1>3. ASSUME Hears PROVE Quiet
  <2>1. Refreshes(Nothing) /\ UNCHANGED <<server, stored, calls, writes, page, history>>
    BY <1>3 DEF Hears
  <2>2. ~Heard'
    BY <2>1, RefreshesIs DEF Heard
  <2> QED
    BY <1>1, <2>1, <2>2 DEF Quiet, history
<1>4. ASSUME Links PROVE Quiet
  <2>1. PageOK(page') /\ page'.seen = page.seen /\ page'.fresh = page.fresh
        /\ page'.adopted = page.adopted /\ page'.ui = page.ui /\ page'.patch = page.patch
    BY <1>1, <1>4 DEF Links, PageOK
  <2> QED
    BY <1>4, <2>1 DEF Links, Quiet, history, Heard
<1>5. ASSUME NEW i \in DOMAIN writes, SaveFails(i) PROVE Quiet
  BY <1>1, <1>5 DEF SaveFails, Quiet, Heard
<1>6. ASSUME NEW c \in Call, Refuses(c) PROVE Quiet
  BY <1>1, <1>6 DEF Refuses, Quiet, history, Heard
<1>7. ASSUME DaysChange PROVE Quiet
  BY <1>1, <1>7, TellsIs DEF DaysChange, Quiet
<1>8. ASSUME Unlinks PROVE Quiet
  <2>1. /\ page' = [page EXCEPT !.link = "lost"] /\ told' = 0
        /\ unsaid' = IF told > 0 THEN "lost" ELSE unsaid
        /\ UNCHANGED <<server, stored, reads, calls, writes, strayed, lost, clicked>>
    BY <1>8 DEF Unlinks
  <2>2. PageOK(page') /\ page'.seen = page.seen /\ page'.fresh = page.fresh
        /\ page'.adopted = page.adopted /\ page'.ui = page.ui /\ page'.patch = page.patch
    BY <1>1, <2>1 DEF PageOK
  <2>3. told \in Nat
    BY DEF TypeOK
  <2> QED
    BY <2>1, <2>2, <2>3 DEF Quiet, Heard
<1>9. ASSUME NEW w \in Worktree, Exits(w) \/ Queues(w) PROVE Quiet
  BY <1>9, ElsewhereQuiet DEF Exits, Queues
<1>10. ASSUME NEW w \in Worktree, NEW op \in {"wake", "sleep", "remove", "open"}, Others(op, w)
       PROVE  Quiet
  BY <1>1, <1>10 DEF Others, Quiet, history, Heard
<1>11. ASSUME PageSteps
       PROVE  Quiet \/ \E r \in Read : Lands(r) \/ ReadFails(r)
  BY <1>3, <1>4, <1>11, SavesQuiet, AnsweredQuiet DEF PageSteps
<1>12. ASSUME ServerSteps
       PROVE  Quiet \/ \E r \in Read : Snapshots(r)
  BY <1>5, <1>6, <1>7, <1>8, <1>9, <1>10, <1>12, SaveLandsQuiet, HandlesQuiet DEF ServerSteps
<1>13. ASSUME HumanSteps, ~Reloads PROVE Quiet
  BY <1>13, HumanQuiet
<1> QED
  BY <1>2, <1>11, <1>12, <1>13 DEF Next

LEMMA OverNewest ==
  ASSUME TypeOK, ReadsOK, NEW r \in Read, reads[r].at # "free", Over(r)
  PROVE  /\ reads[r].at = "taken" =>
              \A s \in Read \ {r} : Newest(s) => Newest(s)' /\ reads'[s].snap = reads[s].snap
         /\ Newest(r) \/ reads[r].at = "asked" \/ AllStale => AllStale'
         /\ ReadsOK'
         /\ Heard' => unsaid' = "told" /\ told' = 0
                      /\ (reads[r].at = "asked" \/ \A q \in Read : reads[q].at # "asked")
<1>1. /\ DOMAIN reads' = Read /\ reads'[r] = FreeRead
      /\ \A q \in Read \ {r} :
           /\ reads'[q].at = reads[q].at /\ reads'[q].snap = reads[q].snap
           /\ reads'[q].then = reads[q].then /\ reads'[q].before = reads[q].before \ {r}
           /\ reads'[q].stale
                <=> \/ reads[q].stale
                    \/ reads[r].at = "taken" /\ q \in reads[r].before
                    \/ reads[r].at # "taken" /\ reads[q].at = "taken"
  BY OverIs
<1>2. /\ FreeRead.at = "free" /\ ~FreeRead.stale /\ FreeRead.before = {} /\ FreeRead.then = Nothing
  BY DEF FreeRead
<1>3. /\ \A q \in Read : ReadOK(reads[q])
  BY DEF TypeOK
<1>4. ASSUME reads[r].at = "taken", NEW s \in Read \ {r}, Newest(s)
      PROVE  Newest(s)' /\ reads'[s].snap = reads[s].snap
  <2>1. r \in reads[s].before
    BY <1>4 DEF Newest
  <2>2. s \notin reads[r].before
    BY <2>1 DEF ReadsOK
  <2> QED
    BY <1>1, <1>2, <1>4, <2>2 DEF Newest
<1>5. ASSUME Newest(r) \/ reads[r].at = "asked" \/ AllStale
      PROVE  AllStale'
  BY <1>1, <1>2, <1>5 DEF AllStale, Newest
<1>6. ReadsOK'
  <2>1. ASSUME NEW s \in Read \ {r}
        PROVE  /\ reads'[s].at # "taken" => ~reads'[s].stale /\ reads'[s].before = {}
               /\ reads'[s].at = "free" => reads'[s].then = Nothing
               /\ \A q \in reads'[s].before : reads'[q].at = "taken" /\ q # s /\ s \notin reads'[q].before
    <3>1. reads'[s].at # "taken" => ~reads'[s].stale /\ reads'[s].before = {}
      BY <1>1 DEF ReadsOK
    <3>2. reads'[s].at = "free" => reads'[s].then = Nothing
      BY <1>1 DEF ReadsOK
    <3>3. ASSUME NEW q \in reads'[s].before
          PROVE  reads'[q].at = "taken" /\ q # s /\ s \notin reads'[q].before
      <4>1. q \in reads[s].before /\ q # r /\ q \in Read
        BY <1>1, <1>3 DEF ReadOK
      <4> QED
        BY <1>1, <4>1 DEF ReadsOK
    <3> QED
      BY <3>1, <3>2, <3>3
  <2> QED
    BY <1>1, <1>2, <2>1 DEF ReadsOK
<1>7. ASSUME Heard'
      PROVE  unsaid' = "told" /\ told' = 0
             /\ (reads[r].at = "asked" \/ \A q \in Read : reads[q].at # "asked")
  BY <1>1, <1>7 DEF Heard
<1> QED
  BY <1>4, <1>5, <1>6, <1>7

LEMMA RefreshesReads ==
  ASSUME TypeOK, ReadsOK, NEW then \in Request \cup {Nothing}, Refreshes(then)
  PROVE  ReadsOK' /\ ~Heard'
<1>1. PICK r \in Read :
        /\ reads[r].at = "free"
        /\ \A q \in Read \ {r} : reads'[q] = reads[q]
        /\ reads'[r].at = "asked" /\ reads'[r].then = then
        /\ reads'[r].before = reads[r].before
        /\ reads'[r].stale = reads[r].stale
  BY RefreshesIs
<1>2. \A q \in Read : reads[q].before \subseteq Read
  BY DEF TypeOK, ReadOK
<1>3. ~Heard'
  BY <1>1 DEF Heard
<1>4. reads[r].before = {} /\ ~reads[r].stale
  BY <1>1 DEF ReadsOK
<1>5. ASSUME NEW s \in Read \ {r}
      PROVE  \A q \in reads'[s].before : reads'[q].at = "taken" /\ q # s /\ s \notin reads'[q].before
  BY <1>1, <1>2 DEF ReadsOK
<1>6. ASSUME NEW s \in Read \ {r}
      PROVE  /\ reads'[s].at # "taken" => ~reads'[s].stale /\ reads'[s].before = {}
             /\ reads'[s].at = "free" => reads'[s].then = Nothing
  BY <1>1 DEF ReadsOK
<1> QED
  BY <1>1, <1>3, <1>4, <1>5, <1>6 DEF ReadsOK

LEMMA SnapshotsReads ==
  ASSUME TypeOK, ReadsOK, NEW r \in Read, Snapshots(r)
  PROVE  /\ ReadsOK' /\ Newest(r)' /\ reads'[r].snap.server = server' /\ reads'[r].snap.ui = stored'
<1>1. /\ reads[r].at = "asked"
      /\ \A q \in Read \ {r} : reads'[q] = reads[q]
      /\ reads'[r].at = "taken" /\ reads'[r].then = reads[r].then
      /\ reads'[r].snap.server = server /\ reads'[r].snap.ui = stored
      /\ reads'[r].before = {q \in Read : reads[q].at = "taken"}
      /\ reads'[r].stale = reads[r].stale
      /\ UNCHANGED <<server, stored>>
  BY SnapshotsIs DEF Snapshots
<1>2. \A q \in Read : reads[q].before \subseteq Read
  BY DEF TypeOK, ReadOK
<1>3. ~reads[r].stale /\ \A q \in Read : r \notin reads[q].before
  BY <1>1 DEF ReadsOK
<1>4. Newest(r)'
  BY <1>1, <1>3 DEF Newest
<1>5. ASSUME NEW s \in Read \ {r}
      PROVE  /\ reads'[s].at # "taken" => ~reads'[s].stale /\ reads'[s].before = {}
             /\ reads'[s].at = "free" => reads'[s].then = Nothing
             /\ \A q \in reads'[s].before : reads'[q].at = "taken" /\ q # s /\ s \notin reads'[q].before
  <2>1. reads'[s] = reads[s]
    BY <1>1
  <2>2. ASSUME NEW q \in reads[s].before
        PROVE  reads'[q].at = "taken" /\ q # s /\ s \notin reads'[q].before
    BY <1>1, <1>2, <1>3 DEF ReadsOK
  <2> QED
    BY <2>1, <2>2 DEF ReadsOK
<1>6. ASSUME NEW q \in reads'[r].before
      PROVE  reads'[q].at = "taken" /\ q # r /\ r \notin reads'[q].before
  <2>1. q \in Read /\ q # r
    BY <1>1
  <2> QED
    BY <1>1, <1>3, <2>1
<1>7. ReadsOK'
  BY <1>1, <1>5, <1>6 DEF ReadsOK
<1> QED
  BY <1>1, <1>4, <1>7

LEMMA ReloadsReads ==
  ASSUME Reloads
  PROVE  ReadsOK' /\ AllStale' /\ page'.fresh = FALSE /\ page'.adopted = FALSE
<1>1. reads' = [r \in Read |-> IF r = 1 THEN [FreeRead EXCEPT !.at = "asked"] ELSE FreeRead]
      /\ page' = NewPage(page.ui)
  BY DEF Reloads
<1> DEFINE d == [FreeRead EXCEPT !.at = "asked"]
<1>2. d.at = "asked" /\ d.stale = FALSE /\ d.before = {} /\ d.then = Nothing
  BY DEF FreeRead
<1>3. FreeRead.at = "free" /\ FreeRead.stale = FALSE /\ FreeRead.before = {} /\ FreeRead.then = Nothing
  BY DEF FreeRead
<1> HIDE DEF d
<1>4. \A r \in Read : reads'[r] = d \/ reads'[r] = FreeRead
  BY <1>1 DEF d
<1>5. ReadsOK' /\ AllStale'
  BY <1>2, <1>3, <1>4 DEF ReadsOK, AllStale
<1> QED
  BY <1>1, <1>5 DEF NewPage

LEMMA ReadsKept ==
  ASSUME TypeOK, ReadsOK, [Next]_vars
  PROVE  ReadsOK'
<1>1. ASSUME Quiet PROVE ReadsOK'
  BY <1>1, RefreshesReads DEF Quiet, ReadsOK
<1>2. ASSUME NEW r \in Read, Lands(r) \/ ReadFails(r) PROVE ReadsOK'
  <2>1. reads[r].at # "free" /\ Over(r)
    BY <1>2 DEF Lands, ReadFails
  <2> QED
    BY <2>1, OverNewest
<1> QED
  BY <1>1, <1>2, NextIs, SnapshotsReads, ReloadsReads

LEMMA QuietHeard ==
  ASSUME TypeOK, ReadsOK, Quiet, Heard'
  PROVE  Heard /\ UNCHANGED reads
BY RefreshesReads DEF Quiet, Heard

LEMMA NewsKept ==
  ASSUME TypeOK, ReadsOK, NewsOK, [Next]_vars
  PROVE  NewsOK'
<1>1. ASSUME Quiet, Heard'
      PROVE  \/ \E r \in Read : Newest(r)' /\ reads'[r].snap.server = server'
             \/ AllStale' /\ (page'.fresh => page'.seen = server')
  <2>1. Heard /\ reads' = reads
    BY <1>1, QuietHeard
  <2>2. server' = server /\ page'.seen = page.seen /\ page'.fresh = page.fresh
    BY <1>1 DEF Quiet
  <2>3. CASE \E r \in Read : Newest(r) /\ reads[r].snap.server = server
    BY <2>1, <2>2, <2>3 DEF Newest
  <2>4. CASE AllStale /\ (page.fresh => page.seen = server)
    BY <2>1, <2>2, <2>4 DEF AllStale
  <2> QED
    BY <2>1, <2>3, <2>4 DEF NewsOK
<1>2. ASSUME NEW r \in Read, Snapshots(r) PROVE NewsOK'
  BY <1>2, SnapshotsReads DEF NewsOK
<1>3. ASSUME NEW r \in Read, Lands(r) \/ ReadFails(r), Heard'
      PROVE  \/ \E s \in Read : Newest(s)' /\ reads'[s].snap.server = server'
             \/ AllStale' /\ (page'.fresh => page'.seen = server')
  <2>1. reads[r].at # "free" /\ Over(r) /\ UNCHANGED <<server, told, unsaid>>
    BY <1>3 DEF Lands, ReadFails, history
  <2>2. /\ reads[r].at = "taken" =>
             \A s \in Read \ {r} : Newest(s) => Newest(s)' /\ reads'[s].snap = reads[s].snap
        /\ Newest(r) \/ reads[r].at = "asked" \/ AllStale => AllStale'
        /\ unsaid' = "told" /\ told' = 0
        /\ reads[r].at = "asked" \/ \A q \in Read : reads[q].at # "asked"
    BY <1>3, <2>1, OverNewest
  <2>3. page'.fresh => Lands(r) /\ ~reads[r].stale /\ page'.seen = reads[r].snap.server
    BY <1>3, LandsIs, FailsIs
  <2>4. CASE reads[r].at = "asked"
    <3>1. ~Lands(r)
      BY <2>4 DEF Lands
    <3> QED
      BY <2>2, <2>3, <2>4, <3>1
  <2>5. CASE reads[r].at # "asked"
    <3>1. Heard /\ reads[r].at = "taken"
      <4>1. reads[r].at \in {"free", "asked", "taken"}
        BY DEF TypeOK, ReadOK
      <4> QED
        BY <2>1, <2>2, <2>5, <4>1 DEF Heard
    <3>2. ASSUME NEW s \in Read \ {r}, Newest(s), reads[s].snap.server = server
          PROVE  Newest(s)' /\ reads'[s].snap.server = server'
      BY <2>1, <2>2, <3>1, <3>2
    <3>3. CASE Newest(r) /\ reads[r].snap.server = server
      BY <2>1, <2>2, <2>3, <3>3
    <3>4. CASE AllStale /\ (page.fresh => page.seen = server)
      <4>1. reads[r].stale
        BY <3>1, <3>4 DEF AllStale
      <4> QED
        BY <2>2, <2>3, <3>4, <4>1
    <3> QED
      BY <3>1, <3>2, <3>3, <3>4 DEF NewsOK
  <2> QED
    BY <2>4, <2>5
<1>4. ASSUME Reloads PROVE NewsOK'
  BY <1>4, ReloadsReads DEF NewsOK
<1> QED
  BY <1>1, <1>2, <1>3, <1>4, NextIs DEF NewsOK

LEMMA InitReads ==
  ASSUME Init
  PROVE  ReadsOK /\ AllStale /\ page.fresh = FALSE /\ page.adopted = FALSE
<1>1. reads = [r \in Read |-> IF r = 1 THEN [FreeRead EXCEPT !.at = "asked"] ELSE FreeRead]
      /\ page = NewPage(NoSnap.ui)
  BY DEF Init
<1> DEFINE d == [FreeRead EXCEPT !.at = "asked"]
<1>2. d.at = "asked" /\ d.stale = FALSE /\ d.before = {} /\ d.then = Nothing
  BY DEF FreeRead
<1>3. FreeRead.at = "free" /\ FreeRead.stale = FALSE /\ FreeRead.before = {} /\ FreeRead.then = Nothing
  BY DEF FreeRead
<1> HIDE DEF d
<1>4. \A r \in Read : reads[r] = d \/ reads[r] = FreeRead
  BY <1>1 DEF d
<1>5. ReadsOK /\ AllStale
  BY <1>2, <1>3, <1>4 DEF ReadsOK, AllStale
<1> QED
  BY <1>1, <1>5 DEF NewPage

\* A page that was told of the last change, and whose last read neither failed nor
\* was overtaken, shows the server as it is: however many reads are under way, and
\* in whatever order they land, what is taken last lands as it is or marks what
\* it overtakes.
THEOREM PageFollows == Spec => []Follows
<1> DEFINE Inv == TypeOK /\ ReadsOK /\ NewsOK
<1>1. Init => Inv
  BY InitOK, InitReads DEF NewsOK
<1>2. Inv /\ [Next]_vars => Inv'
  BY NextOK, ReadsKept, NewsKept
<1>3. Inv => Follows
  <2>1. ASSUME Inv, Told, unsaid = "told", page.fresh
        PROVE  page.seen = server
    <3>1. Heard /\ \A r \in Read : ~Newest(r)
      BY <2>1 DEF Told, Heard, Newest
    <3> QED
      BY <2>1, <3>1 DEF NewsOK
  <2> QED
    BY <2>1 DEF Follows
<1> QED
  BY <1>1, <1>2, <1>3, PTL DEF Spec

(***************************************************************************)
(* The layout: what the page shows of it is kept, or is on its way.        *)
(***************************************************************************)

LEMMA DaysKept ==
  ASSUME TypeOK, ReadsOK, DaysOK, [Next]_vars
  PROVE  DaysOK'
<1>1. ASSUME Quiet, Heard', ~strayed'
      PROVE  \/ \E r \in Read : Newest(r)' /\ reads'[r].snap.ui.days = stored'.days
             \/ AllStale' /\ (page'.fresh => page'.ui.days = stored'.days \/ DaysMine')
  <2>1. Heard /\ reads' = reads
    BY <1>1, QuietHeard
  <2>2. /\ stored'.days = stored.days /\ page'.fresh = page.fresh /\ ~strayed
        /\ DaysMine => DaysMine'
        /\ page'.ui.days = page.ui.days \/ DaysMine'
    BY <1>1 DEF Quiet, DaysMine, Key
  <2>3. CASE \E r \in Read : Newest(r) /\ reads[r].snap.ui.days = stored.days
    BY <2>1, <2>2, <2>3 DEF Newest
  <2>4. CASE AllStale /\ (page.fresh => page.ui.days = stored.days \/ DaysMine)
    <3>1. AllStale'
      BY <2>1, <2>4 DEF AllStale
    <3> QED
      BY <2>2, <2>4, <3>1
  <2> QED
    BY <2>1, <2>2, <2>3, <2>4 DEF DaysOK
<1>2. ASSUME NEW r \in Read, Snapshots(r) PROVE DaysOK'
  BY <1>2, SnapshotsReads DEF DaysOK
<1>3. ASSUME NEW r \in Read, Lands(r) \/ ReadFails(r), Heard', ~strayed'
      PROVE  \/ \E s \in Read : Newest(s)' /\ reads'[s].snap.ui.days = stored'.days
             \/ AllStale' /\ (page'.fresh => page'.ui.days = stored'.days \/ DaysMine')
  <2>1. reads[r].at # "free" /\ Over(r) /\ UNCHANGED <<stored, told, unsaid, writes, strayed>>
    BY <1>3 DEF Lands, ReadFails, history
  <2>2. /\ reads[r].at = "taken" =>
             \A s \in Read \ {r} : Newest(s) => Newest(s)' /\ reads'[s].snap = reads[s].snap
        /\ Newest(r) \/ reads[r].at = "asked" \/ AllStale => AllStale'
        /\ unsaid' = "told" /\ told' = 0
        /\ reads[r].at = "asked" \/ \A q \in Read : reads[q].at # "asked"
    BY <1>3, <2>1, OverNewest
  <2>3. page'.fresh => /\ Lands(r) /\ ~reads[r].stale
                       /\ page'.ui.days = reads[r].snap.ui.days \/ DaysMine'
    <3>1. ASSUME page'.fresh
          PROVE  /\ Lands(r) /\ ~reads[r].stale
                 /\ page'.ui.days = reads[r].snap.ui.days \/ DaysMine'
      <4>1. Lands(r) /\ ~reads[r].stale
        BY <1>3, <3>1, LandsIs, FailsIs
      <4> DEFINE new == Adopts(page, r)
      <4>2. PageOK(page) /\ ReadOK(reads[r])
        BY DEF TypeOK
      <4>3. new.ui.days = reads[r].snap.ui.days \/ "days" \in page.patch
        BY <4>2, AdoptsIs
      <4>4. page.patch \subseteq page'.patch /\ ("days" \in page'.patch \/ page'.ui.days = new.ui.days)
        BY <4>1, LandsIs DEF Key
      <4> HIDE DEF new
      <4> QED
        BY <4>1, <4>3, <4>4 DEF DaysMine
    <3> QED
      BY <3>1
  <2>4. CASE reads[r].at = "asked"
    <3>1. ~Lands(r)
      BY <2>4 DEF Lands
    <3> QED
      BY <2>2, <2>3, <2>4, <3>1
  <2>5. CASE reads[r].at # "asked"
    <3>1. Heard /\ reads[r].at = "taken" /\ ~strayed
      <4>1. reads[r].at \in {"free", "asked", "taken"}
        BY DEF TypeOK, ReadOK
      <4> QED
        BY <1>3, <2>1, <2>2, <2>5, <4>1 DEF Heard
    <3>2. ASSUME NEW s \in Read \ {r}, Newest(s), reads[s].snap.ui.days = stored.days
          PROVE  Newest(s)' /\ reads'[s].snap.ui.days = stored'.days
      BY <2>1, <2>2, <3>1, <3>2
    <3>3. CASE Newest(r) /\ reads[r].snap.ui.days = stored.days
      BY <2>1, <2>2, <2>3, <3>3
    <3>4. CASE AllStale /\ (page.fresh => page.ui.days = stored.days \/ DaysMine)
      <4>1. reads[r].stale
        BY <3>1, <3>4 DEF AllStale
      <4> QED
        BY <2>2, <2>3, <3>4, <4>1
    <3> QED
      BY <3>1, <3>2, <3>3, <3>4 DEF DaysOK
  <2> QED
    BY <2>4, <2>5
<1>4. ASSUME Reloads PROVE DaysOK'
  BY <1>4, ReloadsReads DEF DaysOK
<1> QED
  BY <1>1, <1>2, <1>3, <1>4, NextIs DEF DaysOK

\* A page that has shown no snapshot: it knows of no worktree, and has changed
\* nothing.
Bare(p) ==
  /\ ~p.adopted /\ p.patch = {} /\ p.seen.there = {}
  /\ p.started => p.active = Nowhere \/ p.active.id = p.ui.where

BareOK == ~page.adopted => Bare(page) /\ \A c \in Call : ~calls[c].mine

LEMMA RenderBare ==
  ASSUME NEW old, NEW new, PageOK(new), Bare(new)
  PROVE  Bare(Rendered(old, new)) /\ Rendered(old, new).ui = new.ui
<1>1. Shown(new) = {}
  BY DEF Shown, Bare
<1>2. Ended(old, new) = {} /\ Drained(old, new) = {}
  BY <1>1 DEF Ended, Drained, Stays
<1>3. Closes(old, new) = new
  BY <1>2 DEF Closes
<1>4. Forgets(new, new) = new
  BY DEF Forgets, Bare
<1> DEFINE a == Arrives(new)
           s == [new EXCEPT !.started = TRUE]
           there == At("machine", "machine")
           m == [s EXCEPT !.active = there]
<1>5. a = new \/ (a = m /\ new.ui.where = "machine")
  BY <1>1 DEF Arrives, Reveal, Bare
<1>6. there.id = "machine"
  BY DEF At
<1>7. /\ m.adopted = new.adopted /\ m.patch = new.patch /\ m.seen = new.seen /\ m.ui = new.ui
      /\ m.active = there
  <2> HIDE DEF there
  <2> QED
    BY DEF PageOK
<1> HIDE DEF a, m, there
<1>8. Bare(a) /\ a.ui = new.ui
  BY <1>5, <1>6, <1>7 DEF Bare
<1>9. Remembers(a) = a
  BY <1>8 DEF Remembers, Bare
<1> QED
  BY <1>3, <1>4, <1>8, <1>9 DEF Rendered, a

LEMMA FailsBare ==
  ASSUME TypeOK, NEW r \in Read, ReadFails(r), Bare(page)
  PROVE  Bare(page')
<1> DEFINE then == reads[r].then
           new == [page EXCEPT !.fresh = FALSE, !.loaded = TRUE]
           read == Rendered(page, new)
           settled == Settles(read, then)
<1>1. PageOK(page) /\ ReadOK(reads[r]) /\ page' = Rendered(read, settled)
  BY DEF TypeOK, ReadFails
<1>2. then \in Request \cup {Nothing}
  BY <1>1 DEF ReadOK
<1>3. /\ DOMAIN new = DOMAIN page /\ new.fresh = FALSE /\ new.loaded = TRUE
      /\ \A f \in DOMAIN page \ {"fresh", "loaded"} : new[f] = page[f]
  BY <1>1 DEF PageOK
<1> HIDE DEF new, then
<1>4. PageOK(new)
  BY <1>1, <1>3 DEF PageOK
<1>5. Bare(new)
  BY <1>1, <1>3 DEF Bare, PageOK
<1>6. Bare(read)
  BY <1>4, <1>5, RenderBare
<1>7. PageOK(read)
  BY <1>4, RenderTouches DEF Touches
<1> HIDE DEF read
<1>8. PageOK(settled)
  BY <1>2, <1>7, SettlesIs DEF Moves
<1>9. /\ settled.adopted = read.adopted /\ settled.patch = read.patch /\ settled.seen = read.seen
      /\ settled.started = read.started /\ settled.active = read.active /\ settled.ui = read.ui
  BY <1>7 DEF Settles, PageOK
<1>10. Bare(settled)
  BY <1>6, <1>9 DEF Bare
<1> HIDE DEF settled
<1> QED
  BY <1>1, <1>8, <1>10, RenderBare

LEMMA BareKept ==
  ASSUME TypeOK, BareOK, [Next]_vars
  PROVE  BareOK'
<1>1. PageOK(page) /\ \A c \in Call : CallOK(calls[c])
  BY DEF TypeOK
<1>2. ASSUME UNCHANGED <<page, calls>> PROVE BareOK'
  BY <1>2 DEF BareOK
<1>3. ASSUME HumanSteps, ~Reloads PROVE BareOK'
  BY <1>3, HumanQuiet DEF Moves, BareOK
<1>4. ASSUME Reloads PROVE BareOK'
  <2>1. page' = NewPage(page.ui) /\ calls' = [c \in Call |-> [calls[c] EXCEPT !.mine = FALSE]]
    BY <1>4 DEF Reloads
  <2>2. Bare(page')
    BY <2>1 DEF NewPage, Bare, NoSnap
  <2>3. \A c \in Call : ~calls'[c].mine
    BY <1>1, <2>1 DEF CallOK
  <2> QED
    BY <2>2, <2>3 DEF BareOK
<1>5. ASSUME NEW r \in Read, Lands(r) PROVE BareOK'
  BY <1>5, LandsIs DEF BareOK
<1>6. ASSUME NEW r \in Read, ReadFails(r) PROVE BareOK'
  BY <1>6, FailsIs, FailsBare DEF BareOK, ReadFails
<1>7. ASSUME Saves PROVE BareOK'
  <2>1. page'.adopted = page.adopted /\ page.patch # {}
    BY <1>1, <1>7 DEF Saves, PageOK
  <2> QED
    BY <2>1 DEF BareOK, Bare
<1>8. ASSUME Links \/ Unlinks PROVE BareOK'
  <2>1. UNCHANGED calls /\ \E link : page' = [page EXCEPT !.link = link]
    BY <1>8 DEF Links, Unlinks
  <2>2. /\ page'.adopted = page.adopted /\ page'.patch = page.patch /\ page'.seen = page.seen
        /\ page'.started = page.started /\ page'.active = page.active /\ page'.ui = page.ui
    BY <1>1, <2>1 DEF PageOK
  <2> QED
    BY <2>1, <2>2 DEF BareOK, Bare
<1>9. ASSUME NEW c \in Call, Answered(c) PROVE BareOK'
  <2>1. calls' = [calls EXCEPT ![c] = Idle] /\ page'.adopted = page.adopted
        /\ (~calls[c].mine => UNCHANGED page)
    BY <1>9, AnsweredIs, AnsweredPage DEF Moves
  <2>2. ~Idle.mine
    BY DEF Idle
  <2> QED
    BY <2>1, <2>2 DEF BareOK, TypeOK
<1>10. ASSUME NEW c \in Call, Handles(c) \/ Refuses(c) PROVE BareOK'
  <2>1. UNCHANGED page /\ \E how \in {"half", "done", "failed"} : Ends(c, how)
    BY <1>10, HandlesIs DEF Refuses
  <2>2. calls[c].at # "idle"
    BY <1>10, HandlesIs DEF Refuses
  <2> QED
    BY <2>1, <2>2, EndsOK DEF BareOK
<1>11. ASSUME NEW w \in Worktree, NEW op \in {"wake", "sleep", "remove", "open"}, Others(op, w)
       PROVE  BareOK'
  <2> DEFINE asked == [op |-> op, w |-> w, at |-> "asked", mine |-> FALSE]
  <2>1. UNCHANGED page /\ \E c \in Call : calls' = [calls EXCEPT ![c] = asked]
    BY <1>11, AsksIs DEF Others
  <2>2. ~asked.mine
    OBVIOUS
  <2> HIDE DEF asked
  <2> QED
    BY <2>1, <2>2 DEF BareOK, TypeOK
<1>12. ASSUME PageSteps PROVE BareOK'
  BY <1>2, <1>5, <1>6, <1>7, <1>8, <1>9, <1>12 DEF PageSteps, Hears
<1>13. ASSUME ServerSteps PROVE BareOK'
  BY <1>2, <1>8, <1>10, <1>11, <1>13
  DEF ServerSteps, Snapshots, SaveLands, SaveFails, DaysChange, Exits, Queues, Elsewhere
<1> QED
  BY <1>2, <1>3, <1>4, <1>12, <1>13 DEF Next, vars, outsidePage

Lasting == Key \ {"days"}

\* The last write that has k is of what the page shows of it; or the server has
\* that already.
Kept(k) ==
  \/ k \in page.patch
  \/ \E i \in DOMAIN writes :
       /\ k \in DOMAIN writes[i].of /\ writes[i].of[k] = page.ui[k]
       /\ \A j \in DOMAIN writes : j > i => k \notin DOMAIN writes[j].of
  \/ /\ \A i \in DOMAIN writes : k \notin DOMAIN writes[i].of
     /\ stored[k] = page.ui[k]

LayoutOK ==
  ~strayed =>
    /\ page.adopted => \A k \in Lasting : Kept(k)
    /\ ~page.adopted =>
         /\ writes = <<>>
         /\ \A r \in Read : reads[r].at = "taken" =>
              \A k \in Lasting : reads[r].snap.ui[k] = stored[k]

\* A step that sends nothing of the layout and brings nothing of it to the server.
Still ==
  /\ UNCHANGED <<writes, strayed>> /\ page'.adopted = page.adopted
  /\ page.patch \subseteq page'.patch
  /\ \A k \in Lasting : stored'[k] = stored[k] /\ (k \in page'.patch \/ page'.ui[k] = page.ui[k])

\* Nothing is read that was not on its way, but what is true.
SnapsStill ==
  \A r \in Read : reads'[r].at = "taken" =>
    \/ reads[r].at = "taken" /\ reads'[r].snap = reads[r].snap
    \/ /\ reads'[r].snap.ui = stored /\ reads'[r].snap.server = server
       /\ UNCHANGED <<stored, server>>

LEMMA StillIs ==
  ASSUME TypeOK, \/ UNCHANGED reads
                 \/ \E then \in Request \cup {Nothing} : Refreshes(then)
                 \/ \E r \in Read : Over(r) \/ Snapshots(r)
  PROVE  SnapsStill
<1>1. CASE UNCHANGED reads
  BY <1>1 DEF SnapsStill
<1>2. CASE \E then \in Request \cup {Nothing} : Refreshes(then)
  BY <1>2, RefreshesIs DEF SnapsStill
<1>3. ASSUME NEW r \in Read, Over(r) PROVE SnapsStill
  <2>1. FreeRead.at = "free"
    BY DEF FreeRead
  <2> QED
    BY <1>3, <2>1, OverIs DEF SnapsStill
<1>4. ASSUME NEW r \in Read, Snapshots(r) PROVE SnapsStill
  BY <1>4, SnapshotsIs DEF SnapsStill, Snapshots
<1> QED
  BY <1>1, <1>2, <1>3, <1>4

LEMMA LayoutCases ==
  ASSUME TypeOK, [Next]_vars
  PROVE  \/ Still /\ SnapsStill
         \/ \E r \in Read : Lands(r)
         \/ Saves
         \/ \E i \in DOMAIN writes : SaveLands(i) \/ SaveFails(i)
         \/ Reloads
<1>1. ASSUME UNCHANGED <<page, stored, writes, strayed, reads>> PROVE Still /\ SnapsStill
  BY <1>1, StillIs DEF Still
<1>2. ASSUME HumanSteps, ~Reloads PROVE Still /\ SnapsStill
  BY <1>2, HumanQuiet, StillIs DEF Still, Moves, Lasting
<1>3. ASSUME NEW r \in Read, ReadFails(r) PROVE Still /\ SnapsStill
  <2>1. Over(r) /\ UNCHANGED <<stored, writes, strayed>>
    BY <1>3 DEF ReadFails, history
  <2> QED
    BY <1>3, <2>1, FailsIs, StillIs DEF Still, Lasting
<1>4. ASSUME Links \/ Unlinks PROVE Still /\ SnapsStill
  <2>1. UNCHANGED <<stored, writes, strayed, reads>> /\ \E link : page' = [page EXCEPT !.link = link]
    BY <1>4 DEF Links, Unlinks, history
  <2>2. page'.adopted = page.adopted /\ page'.patch = page.patch /\ page'.ui = page.ui
    BY <2>1 DEF PageOK, TypeOK
  <2> QED
    BY <2>1, <2>2, StillIs DEF Still
<1>5. ASSUME NEW c \in Call, Answered(c) PROVE Still /\ SnapsStill
  <2>1. /\ UNCHANGED <<stored, writes, strayed>>
        /\ UNCHANGED reads \/ \E then \in Request : Refreshes(then)
    BY <1>5, AnsweredIs DEF history
  <2>2. Moves(page, page')
    BY <1>5, AnsweredPage
  <2> QED
    BY <2>1, <2>2, StillIs DEF Still, Moves, Lasting
<1>6. ASSUME NEW r \in Read, Snapshots(r) PROVE Still /\ SnapsStill
  <2>1. UNCHANGED <<page, stored, writes, strayed>>
    BY <1>6 DEF Snapshots, history
  <2> QED
    BY <1>6, <2>1, StillIs DEF Still
<1>7. ASSUME DaysChange PROVE Still /\ SnapsStill
  <2>1. stored' = [stored EXCEPT !.days = 1 - @] /\ UNCHANGED <<page, writes, strayed, reads>>
    BY <1>7 DEF DaysChange
  <2>2. \A k \in Lasting : stored'[k] = stored[k]
    BY <2>1 DEF TypeOK, UiOK, Lasting
  <2> QED
    BY <2>1, <2>2, StillIs DEF Still
<1>8. ASSUME Hears PROVE Still /\ SnapsStill
  BY <1>8, StillIs DEF Hears, history, Still
<1>9. ASSUME NEW c \in Call, Handles(c) PROVE Still /\ SnapsStill
  BY <1>1, <1>9, HandlesIs
<1>10. ASSUME PageSteps
       PROVE  \/ Still /\ SnapsStill
              \/ \E r \in Read : Lands(r)
              \/ Saves
  BY <1>3, <1>4, <1>5, <1>8, <1>10 DEF PageSteps
<1>11. ASSUME ServerSteps
       PROVE  \/ Still /\ SnapsStill
              \/ \E i \in DOMAIN writes : SaveLands(i) \/ SaveFails(i)
  BY <1>1, <1>4, <1>6, <1>7, <1>9, <1>11 DEF ServerSteps, Refuses, Exits, Queues, Elsewhere, Others, history
<1> QED
  BY <1>1, <1>2, <1>10, <1>11 DEF Next, vars, outsidePage, history

LEMMA SavesKept ==
  ASSUME TypeOK, Saves, NEW k \in Key, Kept(k)
  PROVE  Kept(k)'
<1> DEFINE of == [x \in page.patch |-> page.ui[x]]
           d == [of |-> of, mine |-> TRUE]
           t == Append(writes, d)
<1>1. writes' = t /\ page' = [page EXCEPT !.patch = {}] /\ stored' = stored
  BY DEF Saves
<1>2. d.of = of /\ DOMAIN of = page.patch /\ \A x \in page.patch : of[x] = page.ui[x]
  OBVIOUS
<1> HIDE DEF d, of
<1>3. writes \in Seq({writes[i] : i \in DOMAIN writes})
  BY DEF TypeOK
<1>4. /\ Len(t) = Len(writes) + 1 /\ Len(writes) \in Nat
      /\ \A i \in 1..Len(writes) : t[i] = writes[i]
      /\ t[Len(writes) + 1] = d
      /\ t \in Seq({t[i] : i \in DOMAIN t})
  BY <1>3, ListMore
<1> HIDE DEF t
<1>5. DOMAIN t = 1..(Len(writes) + 1) /\ DOMAIN writes = 1..Len(writes)
  BY <1>3, <1>4
<1>6. page'.ui = page.ui /\ page'.patch = {}
  BY <1>1 DEF TypeOK, PageOK
<1> DEFINE n == Len(writes)
<1> HIDE DEF n
<1>7. n \in Nat /\ DOMAIN t = 1..(n + 1) /\ DOMAIN writes = 1..n /\ t[n + 1] = d
      /\ \A i \in 1..n : t[i] = writes[i]
  BY <1>4, <1>5 DEF n
<1>8. CASE k \in page.patch
  <2>1. n + 1 \in DOMAIN t /\ ~\E j \in DOMAIN t : j > n + 1
    BY <1>7
  <2>2. k \in DOMAIN t[n + 1].of /\ t[n + 1].of[k] = page'.ui[k]
    BY <1>2, <1>6, <1>7, <1>8
  <2> QED
    BY <1>1, <2>1, <2>2 DEF Kept
<1>9. CASE k \notin page.patch
  <2>1. \A j \in DOMAIN t : j \in DOMAIN writes \/ k \notin DOMAIN t[j].of
    <3>1. \A j \in DOMAIN t : j \in 1..n \/ j = n + 1
      BY <1>7
    <3> QED
      BY <1>2, <1>7, <1>9, <3>1
  <2>2. \A j \in DOMAIN writes : j \in DOMAIN t /\ t[j] = writes[j]
    BY <1>7
  <2>3. CASE \E i \in DOMAIN writes :
               /\ k \in DOMAIN writes[i].of /\ writes[i].of[k] = page.ui[k]
               /\ \A j \in DOMAIN writes : j > i => k \notin DOMAIN writes[j].of
    <3>1. PICK i \in DOMAIN writes :
               /\ k \in DOMAIN writes[i].of /\ writes[i].of[k] = page.ui[k]
               /\ \A j \in DOMAIN writes : j > i => k \notin DOMAIN writes[j].of
      BY <2>3
    <3>2. /\ i \in DOMAIN t /\ k \in DOMAIN t[i].of /\ t[i].of[k] = page'.ui[k]
          /\ \A j \in DOMAIN t : j > i => k \notin DOMAIN t[j].of
      BY <1>6, <2>1, <2>2, <3>1
    <3> QED
      BY <1>1, <3>2 DEF Kept
  <2>4. CASE (\A i \in DOMAIN writes : k \notin DOMAIN writes[i].of) /\ stored[k] = page.ui[k]
    <3>1. \A i \in DOMAIN t : k \notin DOMAIN t[i].of
      BY <2>1, <2>2, <2>4
    <3> QED
      BY <1>1, <1>6, <2>4, <3>1 DEF Kept
  <2> QED
    BY <1>9, <2>3, <2>4 DEF Kept
<1> QED
  BY <1>8, <1>9

LEMMA SaveLandsKept ==
  ASSUME TypeOK, NEW i \in DOMAIN writes, SaveLands(i), ~strayed', NEW k \in Key, Kept(k)
  PROVE  Kept(k)'
<1> DEFINE body == writes[i].of
           t == Without(writes, i)
           n == Len(writes)
<1>1. /\ stored' = [x \in Key |-> IF x \in DOMAIN body THEN body[x] ELSE stored[x]]
      /\ writes' = t /\ page' = page
      /\ \A j \in 1..(i - 1) : DOMAIN body \cap DOMAIN writes[j].of = {}
  BY DEF SaveLands
<1>2. writes \in Seq({writes[j] : j \in DOMAIN writes}) /\ i \in 1..n
  BY WriteIs DEF TypeOK
<1>3. /\ t \in Seq({t[j] : j \in DOMAIN t})
      /\ Len(t) = n - 1 /\ n \in Nat
      /\ \A j \in 1..(n - 1) : t[j] = IF j < i THEN writes[j] ELSE writes[j + 1]
  BY <1>2, ListLess
<1> HIDE DEF t
<1>4. DOMAIN t = 1..(n - 1) /\ DOMAIN writes = 1..n
  BY <1>2, <1>3
<1> HIDE DEF n
<1>5. stored'[k] = IF k \in DOMAIN body THEN body[k] ELSE stored[k]
  BY <1>1
<1> HIDE DEF body
\* Where a write has gone to, and where it came from.
<1> DEFINE from(j) == IF j < i THEN j ELSE j + 1
           to(j) == IF j < i THEN j ELSE j - 1
<1>6. ASSUME NEW j \in 1..(n - 1)
      PROVE  from(j) \in 1..n /\ from(j) # i /\ t[j] = writes[from(j)] /\ to(from(j)) = j
  <2>1. i \in Int /\ j \in Int /\ n \in Int
    BY <1>2, <1>3
  <2>2. from(j) \in 1..n /\ from(j) # i /\ to(from(j)) = j
    BY <2>1
  <2>3. t[j] = writes[from(j)]
    BY <1>3
  <2> QED
    BY <2>2, <2>3
<1>7. ASSUME NEW j \in 1..n, j # i
      PROVE  to(j) \in 1..(n - 1) /\ from(to(j)) = j /\ t[to(j)] = writes[j]
  <2>1. i \in 1..n /\ n \in Nat
    BY <1>2, <1>3
  <2>2. to(j) \in 1..(n - 1) /\ from(to(j)) = j
    BY <1>7, <2>1
  <2>3. t[to(j)] = writes[from(to(j))]
    BY <1>3, <2>2
  <2> QED
    BY <2>2, <2>3
<1>8. \A j, m \in 1..(n - 1) : j > m => from(j) > from(m)
  BY <1>2, <1>3
<1> HIDE DEF from, to
<1>9. CASE k \in page.patch
  BY <1>1, <1>9 DEF Kept
<1>10. CASE k \notin DOMAIN body
  <2>1. CASE \E m \in DOMAIN writes :
               /\ k \in DOMAIN writes[m].of /\ writes[m].of[k] = page.ui[k]
               /\ \A j \in DOMAIN writes : j > m => k \notin DOMAIN writes[j].of
    <3>1. PICK m \in DOMAIN writes :
               /\ k \in DOMAIN writes[m].of /\ writes[m].of[k] = page.ui[k]
               /\ \A j \in DOMAIN writes : j > m => k \notin DOMAIN writes[j].of
      BY <2>1
    <3>2. m \in 1..n /\ m # i
      BY <1>4, <1>10, <3>1 DEF body
    <3>3. to(m) \in DOMAIN t /\ from(to(m)) = m /\ t[to(m)] = writes[m]
      BY <1>4, <1>7, <3>2
    <3>4. \A j \in DOMAIN t : j > to(m) => k \notin DOMAIN t[j].of
      BY <1>4, <1>6, <1>8, <3>1, <3>3
    <3> QED
      BY <1>1, <3>1, <3>3, <3>4 DEF Kept
  <2>2. CASE (\A j \in DOMAIN writes : k \notin DOMAIN writes[j].of) /\ stored[k] = page.ui[k]
    <3>1. \A j \in DOMAIN t : k \notin DOMAIN t[j].of
      BY <1>4, <1>6, <2>2
    <3> QED
      BY <1>1, <1>5, <1>10, <2>2, <3>1 DEF Kept
  <2> QED
    BY <1>9, <2>1, <2>2 DEF Kept
<1>11. CASE k \in DOMAIN body /\ k \notin page.patch
  <2>1. PICK m \in DOMAIN writes :
             /\ k \in DOMAIN writes[m].of /\ writes[m].of[k] = page.ui[k]
             /\ \A j \in DOMAIN writes : j > m => k \notin DOMAIN writes[j].of
    BY <1>11 DEF Kept, body
  <2>2. m \in 1..n
    BY <1>4
  <2>3. CASE m = i
    <3>1. stored'[k] = page.ui[k]
      BY <1>5, <1>11, <2>1, <2>3 DEF body
    <3>2. ASSUME NEW j \in DOMAIN t PROVE k \notin DOMAIN t[j].of
      <4>1. from(j) \in 1..n /\ from(j) # i /\ t[j] = writes[from(j)]
        BY <1>4, <1>6
      <4>2. CASE from(j) > i
        BY <1>4, <2>1, <2>3, <4>1, <4>2
      <4>3. CASE from(j) < i
        <5>1. from(j) \in 1..(i - 1)
          BY <1>2, <4>1, <4>3
        <5> QED
          BY <1>1, <1>11, <4>1, <5>1
      <4>4. i \in Int /\ from(j) \in Int
        BY <1>2, <4>1
      <4> QED
        BY <4>1, <4>2, <4>3, <4>4
    <3> QED
      BY <1>1, <3>1, <3>2 DEF Kept
  <2>4. CASE m # i
    <3>1. to(m) \in DOMAIN t /\ from(to(m)) = m /\ t[to(m)] = writes[m]
      BY <1>4, <1>7, <2>2, <2>4
    <3>2. \A j \in DOMAIN t : j > to(m) => k \notin DOMAIN t[j].of
      BY <1>4, <1>6, <1>8, <2>1, <3>1
    <3> QED
      BY <1>1, <2>1, <3>1, <3>2 DEF Kept
  <2> QED
    BY <2>3, <2>4
<1> QED
  BY <1>9, <1>10, <1>11

LEMMA LayoutKept ==
  ASSUME TypeOK, BareOK, LayoutOK, [Next]_vars
  PROVE  LayoutOK'
<1>1. ASSUME Still, SnapsStill PROVE LayoutOK'
  <2>1. ASSUME NEW k \in Lasting, Kept(k) PROVE Kept(k)'
    BY <1>1, <2>1 DEF Still, Kept
  <2>2. ASSUME NEW r \in Read, reads'[r].at = "taken", ~page.adopted, ~strayed, NEW k \in Lasting
        PROVE  reads'[r].snap.ui[k] = stored'[k]
    BY <1>1, <2>2 DEF Still, SnapsStill, LayoutOK
  <2> QED
    BY <1>1, <2>1, <2>2 DEF LayoutOK, Still
<1>2. ASSUME NEW r \in Read, Lands(r) PROVE LayoutOK'
  <2> DEFINE new == Adopts(page, r)
  <2>1. /\ PageOK(page) /\ ReadOK(reads[r]) /\ reads[r].at = "taken"
        /\ UNCHANGED <<stored, writes, strayed>>
    BY <1>2 DEF TypeOK, Lands, history
  <2>2. /\ page'.adopted /\ page.patch \subseteq page'.patch
        /\ \A k \in Key : k \in page'.patch \/ page'.ui[k] = new.ui[k]
    BY <1>2, LandsIs
  <2>3. /\ ~page.adopted => new.ui = reads[r].snap.ui
        /\ page.adopted => \A k \in Lasting : new.ui[k] = page.ui[k]
    BY <2>1, AdoptsIs DEF Lasting
  <2> HIDE DEF new
  <2>4. ASSUME ~strayed', NEW k \in Lasting PROVE Kept(k)'
    <3>1. k \in page'.patch \/ page'.ui[k] = new.ui[k]
      BY <2>2 DEF Lasting
    <3>2. CASE page.adopted
      <4>1. Kept(k) /\ new.ui[k] = page.ui[k]
        BY <2>1, <2>3, <2>4, <3>2 DEF LayoutOK
      <4> QED
        BY <2>1, <2>2, <3>1, <4>1 DEF Kept
    <3>3. CASE ~page.adopted
      <4>1. writes = <<>> /\ reads[r].snap.ui[k] = stored[k]
        BY <2>1, <2>4, <3>3 DEF LayoutOK
      <4> QED
        BY <2>1, <2>3, <3>1, <3>3, <4>1 DEF Kept
    <3> QED
      BY <3>2, <3>3
  <2> QED
    BY <2>2, <2>4 DEF LayoutOK
<1>3. ASSUME Saves PROVE LayoutOK'
  <2>1. page.adopted /\ page'.adopted = page.adopted /\ UNCHANGED strayed
    BY <1>3 DEF BareOK, Bare, Saves, TypeOK, PageOK, history
  <2> QED
    BY <1>3, <2>1, SavesKept DEF LayoutOK, Lasting
<1>4. ASSUME NEW i \in DOMAIN writes, SaveLands(i) PROVE LayoutOK'
  <2>1. page' = page /\ (strayed => strayed')
    BY <1>4 DEF SaveLands
  <2>2. ~strayed /\ ~page.adopted => FALSE
    BY DEF LayoutOK
  <2> QED
    BY <1>4, <2>1, <2>2, SaveLandsKept DEF LayoutOK, Lasting
<1>5. ASSUME NEW i \in DOMAIN writes, SaveFails(i) PROVE LayoutOK'
  BY <1>5 DEF SaveFails, LayoutOK
<1>6. ASSUME Reloads, ~strayed' PROVE LayoutOK'
  <2>1. writes = <<>> /\ writes' = [i \in DOMAIN writes |-> [writes[i] EXCEPT !.mine = FALSE]]
    BY <1>6 DEF Reloads
  <2>2. writes' = <<>>
    BY <2>1
  <2>3. \A r \in Read : reads'[r].at # "taken"
    <3>1. reads' = [r \in Read |-> IF r = 1 THEN [FreeRead EXCEPT !.at = "asked"] ELSE FreeRead]
      BY <1>6 DEF Reloads
    <3>2. [FreeRead EXCEPT !.at = "asked"].at = "asked" /\ FreeRead.at = "free"
      BY DEF FreeRead
    <3> QED
      BY <3>1, <3>2
  <2>4. ~page'.adopted
    BY <1>6, ReloadsReads
  <2> QED
    BY <2>2, <2>3, <2>4 DEF LayoutOK
<1> QED
  BY <1>1, <1>2, <1>3, <1>4, <1>5, <1>6, LayoutCases DEF LayoutOK

LEMMA InitLayout ==
  ASSUME Init
  PROVE  BareOK /\ LayoutOK /\ DaysOK
<1>1. page = NewPage(NoSnap.ui) /\ writes = <<>> /\ calls = [c \in Call |-> Idle]
      /\ reads = [r \in Read |-> IF r = 1 THEN [FreeRead EXCEPT !.at = "asked"] ELSE FreeRead]
  BY DEF Init
<1>2. Bare(page)
  BY <1>1 DEF NewPage, Bare, NoSnap
<1>3. \A c \in Call : ~calls[c].mine
  BY <1>1 DEF Idle
<1>4. [FreeRead EXCEPT !.at = "asked"].at = "asked" /\ FreeRead.at = "free"
  BY DEF FreeRead
<1>5. \A r \in Read : reads[r].at # "taken"
  BY <1>1, <1>4
<1> QED
  BY <1>1, <1>2, <1>3, <1>5, InitReads DEF BareOK, LayoutOK, DaysOK

\* What a page shows of its layout is what a reload brings back: a change is what
\* the server has, or waits to be written, or is the last of what is on its way,
\* however many keys were changed and reads failed before.
THEOREM LayoutComesBack == Spec => []LayoutSaved
<1> DEFINE Inv == TypeOK /\ ReadsOK /\ BareOK /\ LayoutOK /\ DaysOK
<1>1. Init => Inv
  BY InitOK, InitReads, InitLayout
<1>2. Inv /\ [Next]_vars => Inv'
  BY NextOK, ReadsKept, BareKept, LayoutKept, DaysKept
<1>3. Inv => LayoutSaved
  <2>1. ASSUME Inv, Told, unsaid = "told", ~strayed, page.fresh, page.patch = {}, writes = <<>>,
               NEW k \in Key
        PROVE  stored[k] = page.ui[k]
    <3>1. Heard /\ (\A r \in Read : ~Newest(r)) /\ page.adopted
      BY <2>1 DEF Told, Heard, Newest
    <3>2. CASE k = "days"
      BY <2>1, <3>1, <3>2 DEF DaysOK, DaysMine
    <3>3. CASE k # "days"
      BY <2>1, <3>1, <3>3 DEF LayoutOK, Kept, Lasting
    <3> QED
      BY <3>2, <3>3
  <2> QED
    BY <2>1 DEF LayoutSaved
<1> QED
  BY <1>1, <1>2, <1>3, PTL DEF Spec

(***************************************************************************)
(* The terminals panel of a worktree that was put to sleep.                *)
(***************************************************************************)

\* A worktree that is there is in all that was read, and what was removed is not
\* there.
ThereOK ==
  /\ \A r \in Read : reads[r].at = "taken" => server.there \subseteq reads[r].snap.server.there
  /\ page.adopted => server.there \subseteq page.seen.there
  /\ \A c \in Call : calls[c].op = "remove" /\ calls[c].at = "done" => calls[c].w \notin server.there

\* A worktree that lost its panel's terminals to its sleep is asleep, and no
\* snapshot on its way says that it is awake and has none.
LostOK ==
  \A w \in lost :
    /\ w \in server.there /\ w \notin server.awake
    /\ page.adopted /\ page.ui.panels[w] = "terminals"
    /\ \A r \in Read : reads[r].at = "taken" =>
         reads[r].snap.server.terms[w] > 0 \/ w \notin reads[r].snap.server.awake

LEMMA SnapsNext ==
  ASSUME TypeOK, [Next]_vars, ~Reloads
  PROVE  SnapsStill
<1>1. ASSUME NEW r \in Read, Lands(r) \/ ReadFails(r) PROVE SnapsStill
  BY <1>1, StillIs DEF Lands, ReadFails
<1> QED
  BY <1>1, NextIs, StillIs DEF Quiet

\* What a step makes of the worktrees that are there and awake, and of those that
\* lost their terminals.
ServerKeeps ==
  /\ server'.there \subseteq server.there
  /\ \A w \in lost' :
       \/ /\ w \in lost
          /\ w \in server.there => w \in server'.there
          /\ w \in server'.awake => w \in server.awake
       \/ /\ w \in server.there /\ w \in server'.there /\ w \notin server'.awake
          /\ TerminalsOpen(w) /\ UNCHANGED <<page, reads>>

LEMMA ServerNext ==
  ASSUME TypeOK, [Next]_vars
  PROVE  ServerKeeps
<1>1. ASSUME UNCHANGED <<server, lost>> PROVE ServerKeeps
  BY <1>1 DEF ServerKeeps
<1>2. ASSUME HumanSteps, ~Reloads PROVE ServerKeeps
  <2>1. PageOK(page)
    BY DEF TypeOK
  <2>2. \A w \in lost' : w \in lost
    BY <1>2, <2>1, HumanIs, WakesIs DEF Other
  <2>3. UNCHANGED server
    BY <1>2, HumanQuiet
  <2> QED
    BY <2>2, <2>3 DEF ServerKeeps
<1>3. ASSUME Reloads PROVE ServerKeeps
  BY <1>3 DEF Reloads, ServerKeeps
<1>4. ASSUME NEW c \in Call, Handles(c) PROVE ServerKeeps
  <2> DEFINE w == calls[c].w
  <2>1. w \in Worktree /\ w \in server.there /\ UNCHANGED <<reads, page>>
    BY <1>4, HandlesIs
  <2>2. SeenOK(server)
    BY DEF TypeOK
  <2>3. \/ /\ server' = [server EXCEPT !.awake = @ \ {w}]
           /\ lost' = IF TerminalsOpen(w) THEN lost \cup {w} ELSE lost
        \/ (\E n \in Nat : server' = [server EXCEPT !.terms[w] = n]) /\ UNCHANGED lost
        \/ server' = [server EXCEPT !.awake = @ \cup {w}] /\ lost' = lost \ {w}
        \/ /\ server' = [server EXCEPT !.there = @ \ {w}, !.awake = @ \ {w}, !.queued = @ \ {w}]
           /\ lost' = lost \ {w}
        \/ UNCHANGED <<server, lost>>
    BY <1>4, HandlesIs
  <2> HIDE DEF w
  <2>4. CASE /\ server' = [server EXCEPT !.awake = @ \ {w}]
             /\ lost' = IF TerminalsOpen(w) THEN lost \cup {w} ELSE lost
    <3>1. server'.there = server.there /\ server'.awake = server.awake \ {w}
      BY <2>2, <2>4 DEF SeenOK
    <3> QED
      BY <2>1, <2>4, <3>1 DEF ServerKeeps
  <2>5. CASE (\E n \in Nat : server' = [server EXCEPT !.terms[w] = n]) /\ UNCHANGED lost
    <3>1. server'.there = server.there /\ server'.awake = server.awake
      BY <2>2, <2>5 DEF SeenOK
    <3> QED
      BY <2>5, <3>1 DEF ServerKeeps
  <2>6. CASE server' = [server EXCEPT !.awake = @ \cup {w}] /\ lost' = lost \ {w}
    <3>1. server'.there = server.there /\ server'.awake = server.awake \cup {w}
      BY <2>2, <2>6 DEF SeenOK
    <3> QED
      BY <2>6, <3>1 DEF ServerKeeps
  <2>7. CASE /\ server' = [server EXCEPT !.there = @ \ {w}, !.awake = @ \ {w}, !.queued = @ \ {w}]
             /\ lost' = lost \ {w}
    <3>1. server'.there = server.there \ {w} /\ server'.awake = server.awake \ {w}
      BY <2>2, <2>7 DEF SeenOK
    <3> QED
      BY <2>7, <3>1 DEF ServerKeeps
  <2>8. CASE UNCHANGED <<server, lost>>
    BY <1>1, <2>8
  <2> QED
    BY <2>3, <2>4, <2>5, <2>6, <2>7, <2>8
<1>5. ASSUME NEW w \in Worktree, Exits(w) \/ Queues(w) PROVE ServerKeeps
  <2>1. UNCHANGED lost
    BY <1>5 DEF Exits, Queues, Elsewhere
  <2>2. server'.there = server.there /\ server'.awake = server.awake
    BY <1>5 DEF Exits, Queues, Elsewhere, TypeOK, SeenOK
  <2> QED
    BY <2>1, <2>2 DEF ServerKeeps
<1>6. ASSUME PageSteps PROVE ServerKeeps
  BY <1>1, <1>6, AnsweredIs DEF PageSteps, Hears, Links, Lands, ReadFails, Saves, history
<1>7. ASSUME ServerSteps PROVE ServerKeeps
  BY <1>1, <1>4, <1>5, <1>7
  DEF ServerSteps, Snapshots, SaveLands, SaveFails, Refuses, DaysChange, Unlinks, Others, history
<1> QED
  BY <1>1, <1>2, <1>3, <1>6, <1>7 DEF Next, vars, outsidePage, history

\* What a step makes of the worktrees the page has seen.
LEMMA SeenNext ==
  ASSUME TypeOK, [Next]_vars, page'.adopted
  PROVE  \/ page.adopted /\ page'.seen = page.seen
         \/ \E r \in Read : reads[r].at = "taken" /\ page'.seen = reads[r].snap.server
<1>1. ASSUME NEW r \in Read, Snapshots(r) PROVE UNCHANGED page
  BY <1>1 DEF Snapshots
<1>2. ASSUME NEW r \in Read, Lands(r)
      PROVE  reads[r].at = "taken" /\ page'.seen = reads[r].snap.server
  BY <1>2, LandsIs DEF Lands
<1>3. ASSUME NEW r \in Read, ReadFails(r)
      PROVE  page'.adopted = page.adopted /\ page'.seen = page.seen
  BY <1>3, FailsIs
<1> QED
  BY <1>1, <1>2, <1>3, NextIs, ReloadsReads DEF Quiet

\* A request that has removed a worktree by the end of a step had by its start, or
\* removes it in the step.
LEMMA RemovedNext ==
  ASSUME TypeOK, [Next]_vars, NEW c \in Call, calls'[c].op = "remove", calls'[c].at = "done"
  PROVE  \/ calls[c].op = "remove" /\ calls[c].at = "done" /\ calls'[c].w = calls[c].w
         \/ calls'[c].w \notin server'.there
<1> DEFINE Was == calls[c].op = "remove" /\ calls[c].at = "done" /\ calls'[c].w = calls[c].w
<1>1. ASSUME UNCHANGED calls PROVE Was
  BY <1>1
<1>2. ASSUME NEW op, NEW w, NEW mine, Asks(op, w, mine) PROVE Was
  <2> DEFINE asked == [op |-> op, w |-> w, at |-> "asked", mine |-> mine]
  <2>1. \E d \in Call : calls' = [calls EXCEPT ![d] = asked]
    BY <1>2, AsksIs
  <2>2. asked.at # "done"
    OBVIOUS
  <2> HIDE DEF asked
  <2> QED
    BY <2>1, <2>2 DEF TypeOK
<1>3. ASSUME HumanSteps, ~Reloads PROVE Was
  BY <1>1, <1>2, <1>3, HumanIs, WakesIs DEF Other, TypeOK
<1>4. ASSUME Reloads PROVE Was
  <2>1. calls' = [d \in Call |-> [calls[d] EXCEPT !.mine = FALSE]]
    BY <1>4 DEF Reloads
  <2>2. CallOK(calls[c])
    BY DEF TypeOK
  <2>3. calls'[c].op = calls[c].op /\ calls'[c].w = calls[c].w /\ calls'[c].at = calls[c].at
    BY <2>1, <2>2 DEF CallOK
  <2> QED
    BY <2>3
<1>5. ASSUME NEW d \in Call, Answered(d) PROVE Was
  <2>1. calls' = [calls EXCEPT ![d] = Idle]
    BY <1>5, AnsweredIs
  <2>2. Idle.at # "done"
    BY DEF Idle
  <2> QED
    BY <2>1, <2>2 DEF TypeOK
<1>6. ASSUME NEW d \in Call, Handles(d)
      PROVE  Was \/ calls'[c].w \notin server'.there
  <2>1. PICK how \in {"half", "done", "failed"} : Ends(d, how)
    BY <1>6, HandlesIs
  <2>2. /\ \A x \in Call \ {d} : calls'[x] = calls[x]
        /\ calls'[d].op = calls[d].op /\ calls'[d].w = calls[d].w /\ calls'[d].at = how
    BY <1>6, <2>1, HandlesIs, EndsOK
  <2>3. CASE c # d
    BY <2>2, <2>3
  <2>4. CASE c = d
    <3> DEFINE w == calls[d].w
    <3>1. calls[d].op = "remove" /\ calls'[d].at = "done"
      BY <2>2, <2>4
    <3>2. server' = [server EXCEPT !.there = @ \ {w}, !.awake = @ \ {w}, !.queued = @ \ {w}]
      <4>1. ASSUME NEW other \in {"half", "failed"} PROVE ~Ends(d, other)
        <5>1. CASE Ends(d, other)
          <6>1. calls'[d].at = other
            BY <1>6, <5>1, HandlesIs, EndsOK
          <6> QED
            BY <3>1, <6>1
        <5> QED
          BY <5>1
      <4> QED
        BY <1>6, <3>1, <4>1, HandlesIs
    <3>3. w \notin server'.there
      BY <3>2 DEF TypeOK, SeenOK
    <3> QED
      BY <2>2, <2>4, <3>3
  <2> QED
    BY <2>3, <2>4
<1>7. ASSUME NEW d \in Call, Refuses(d) PROVE Was
  <2>1. Ends(d, "failed") /\ calls[d].at # "idle"
    BY <1>7 DEF Refuses
  <2> QED
    BY <2>1, EndsOK
<1>8. ASSUME PageSteps PROVE Was
  BY <1>1, <1>5, <1>8 DEF PageSteps, Hears, Links, Lands, ReadFails, Saves
<1>9. ASSUME ServerSteps PROVE Was \/ calls'[c].w \notin server'.there
  BY <1>1, <1>2, <1>6, <1>7, <1>9
  DEF ServerSteps, Snapshots, SaveLands, SaveFails, DaysChange, Unlinks, Exits, Queues, Elsewhere, Others
<1> QED
  BY <1>1, <1>3, <1>4, <1>8, <1>9 DEF Next, vars, outsidePage

LEMMA ThereKept ==
  ASSUME TypeOK, ThereOK, [Next]_vars
  PROVE  ThereOK'
<1>1. server'.there \subseteq server.there
  BY ServerNext DEF ServerKeeps
<1>2. ASSUME NEW r \in Read, reads'[r].at = "taken"
      PROVE  server'.there \subseteq reads'[r].snap.server.there
  <2>1. CASE Reloads
    <3>1. reads' = [q \in Read |-> IF q = 1 THEN [FreeRead EXCEPT !.at = "asked"] ELSE FreeRead]
      BY <2>1 DEF Reloads
    <3>2. [FreeRead EXCEPT !.at = "asked"].at = "asked" /\ FreeRead.at = "free"
      BY DEF FreeRead
    <3> QED
      BY <1>2, <3>1, <3>2
  <2>2. CASE ~Reloads
    <3>1. \/ reads[r].at = "taken" /\ reads'[r].snap = reads[r].snap
          \/ reads'[r].snap.server = server /\ UNCHANGED server
      BY <1>2, <2>2, SnapsNext DEF SnapsStill
    <3> QED
      BY <1>1, <3>1 DEF ThereOK
  <2> QED
    BY <2>1, <2>2
<1>3. ASSUME page'.adopted PROVE server'.there \subseteq page'.seen.there
  BY <1>1, <1>3, SeenNext DEF ThereOK
<1>4. ASSUME NEW c \in Call, calls'[c].op = "remove", calls'[c].at = "done"
      PROVE  calls'[c].w \notin server'.there
  BY <1>1, <1>4, RemovedNext DEF ThereOK
<1> QED
  BY <1>2, <1>3, <1>4 DEF ThereOK

\* The panel of a worktree that lost its terminals stays as it is.
LEMMA PanelNext ==
  ASSUME TypeOK, ThereOK, LostOK, [Next]_vars, NEW w \in lost, w \in lost'
  PROVE  page'.adopted /\ page'.ui.panels[w] = "terminals"
<1>1. /\ w \in Worktree /\ page.adopted /\ page.ui.panels[w] = "terminals" /\ w \in server.there
      /\ w \in page.seen.there /\ PageOK(page)
  BY DEF LostOK, ThereOK, TypeOK
<1>2. ASSUME UNCHANGED page PROVE page'.adopted /\ page'.ui.panels[w] = "terminals"
  BY <1>1, <1>2
<1>3. ASSUME HumanSteps, ~Reloads PROVE page'.adopted /\ page'.ui.panels[w] = "terminals"
  <2>1. PICK new : Moves(page, new) /\ Acts(new) /\ new.ui.panels[w] = page.ui.panels[w]
    BY <1>1, <1>3, HumanIs, WakesIs DEF Other
  <2>2. page'.ui.panels[w] = new.ui.panels[w] /\ Moves(page, page')
    BY <1>1, <2>1, ActsKeeps
  <2> QED
    BY <1>1, <2>1, <2>2 DEF Moves
<1>4. ~Reloads
  BY DEF Reloads
<1>5. ASSUME NEW r \in Read, Lands(r) PROVE page'.adopted /\ page'.ui.panels[w] = "terminals"
  <2> DEFINE new == Adopts(page, r)
  <2>1. /\ page'.adopted
        /\ \/ page'.ui.panels[w] = new.ui.panels[w]
           \/ w \in Ended(page, new) \cup Drained(page, new)
           \/ w \notin reads[r].snap.server.there
    BY <1>1, <1>5, LandsIs
  <2>2. reads[r].at = "taken" /\ ReadOK(reads[r])
    BY <1>5 DEF Lands, TypeOK
  <2>3. new.ui.panels = page.ui.panels /\ new.seen = reads[r].snap.server
    BY <1>1, <2>2, AdoptsIs DEF Key
  <2>4. /\ reads[r].snap.server.terms[w] > 0 \/ w \notin reads[r].snap.server.awake
        /\ w \in reads[r].snap.server.there
    BY <1>1, <2>2 DEF LostOK, ThereOK
  <2> HIDE DEF new
  <2>5. w \notin Drained(page, new)
    BY <1>1 DEF Drained, Stays
  <2>6. w \notin Ended(page, new)
    <3>1. reads[r].snap.server.terms[w] \in Nat
      BY <1>1, <2>2 DEF ReadOK, SeenOK
    <3> QED
      BY <2>3, <2>4, <3>1 DEF Ended
  <2> QED
    BY <1>1, <2>1, <2>3, <2>4, <2>5, <2>6
<1>6. ASSUME NEW r \in Read, ReadFails(r) PROVE page'.adopted /\ page'.ui.panels[w] = "terminals"
  BY <1>1, <1>6, FailsIs
<1>7. ASSUME Links \/ Saves \/ Unlinks PROVE page'.adopted /\ page'.ui.panels[w] = "terminals"
  <2>1. page'.adopted = page.adopted /\ page'.ui = page.ui
    BY <1>1, <1>7 DEF Links, Saves, Unlinks, PageOK
  <2> QED
    BY <1>1, <2>1
<1>8. ASSUME NEW c \in Call, Answered(c) PROVE page'.adopted /\ page'.ui.panels[w] = "terminals"
  <2>1. /\ Moves(page, page')
        /\ \/ page'.ui.panels[w] = page.ui.panels[w]
           \/ calls[c].op = "remove" /\ calls[c].w = w /\ calls[c].at = "done"
    BY <1>1, <1>8, AnsweredPage
  <2> QED
    BY <1>1, <2>1 DEF ThereOK, Moves
<1>9. ASSUME PageSteps PROVE page'.adopted /\ page'.ui.panels[w] = "terminals"
  BY <1>2, <1>5, <1>6, <1>7, <1>8, <1>9 DEF PageSteps, Hears
<1>10. ASSUME ServerSteps PROVE page'.adopted /\ page'.ui.panels[w] = "terminals"
  BY <1>2, <1>7, <1>10, HandlesIs
  DEF ServerSteps, Snapshots, SaveLands, SaveFails, Refuses, DaysChange, Exits, Queues, Elsewhere, Others
<1> QED
  BY <1>2, <1>3, <1>4, <1>9, <1>10 DEF Next, vars

LEMMA LostKept ==
  ASSUME TypeOK, ThereOK, LostOK, [Next]_vars
  PROVE  LostOK'
<1>1. ASSUME NEW w \in lost', w \in lost,
             w \in server.there => w \in server'.there, w \in server'.awake => w \in server.awake
      PROVE  /\ w \in server'.there /\ w \notin server'.awake
             /\ page'.adopted /\ page'.ui.panels[w] = "terminals"
             /\ \A r \in Read : reads'[r].at = "taken" =>
                  reads'[r].snap.server.terms[w] > 0 \/ w \notin reads'[r].snap.server.awake
  <2>1. w \in server'.there /\ w \notin server'.awake
    BY <1>1 DEF LostOK
  <2>2. page'.adopted /\ page'.ui.panels[w] = "terminals"
    BY <1>1, PanelNext
  <2>3. ~Reloads
    BY <1>1 DEF Reloads
  <2>4. SnapsStill
    BY <2>3, SnapsNext
  <2> QED
    BY <1>1, <2>1, <2>2, <2>4 DEF SnapsStill, LostOK
<1>2. ASSUME NEW w \in lost',
             w \in server.there, w \in server'.there, w \notin server'.awake,
             TerminalsOpen(w), UNCHANGED <<page, reads>>
      PROVE  /\ page'.adopted /\ page'.ui.panels[w] = "terminals"
             /\ \A r \in Read : reads'[r].at = "taken" => reads'[r].snap.server.terms[w] > 0
  BY <1>2 DEF TerminalsOpen
<1>3. ServerKeeps
  BY ServerNext
<1> QED
  BY <1>1, <1>2, <1>3 DEF LostOK, ServerKeeps

LEMMA InitLost ==
  ASSUME Init
  PROVE  ThereOK /\ LostOK
<1>1. reads = [r \in Read |-> IF r = 1 THEN [FreeRead EXCEPT !.at = "asked"] ELSE FreeRead]
      /\ calls = [c \in Call |-> Idle] /\ lost = {}
  BY DEF Init
<1>2. [FreeRead EXCEPT !.at = "asked"].at = "asked" /\ FreeRead.at = "free" /\ Idle.at = "idle"
  BY DEF FreeRead, Idle
<1>3. \A r \in Read : reads[r].at # "taken"
  BY <1>1, <1>2
<1>4. \A c \in Call : calls[c].at # "done"
  BY <1>1, <1>2
<1> QED
  BY <1>1, <1>3, <1>4, InitReads DEF ThereOK, LostOK

\* A worktree that is put to sleep keeps the terminals panel it had open: the
\* snapshot that could close it for want of terminals says that the worktree sleeps,
\* and a sleeping worktree's panel is not fitted to its terminals.
THEOREM PanelOutlivesSleep == Spec => []PanelKept
<1> DEFINE Inv == TypeOK /\ ThereOK /\ LostOK
<1>1. Init => Inv
  BY InitOK, InitLost
<1>2. Inv /\ [Next]_vars => Inv'
  BY NextOK, ThereKept, LostKept
<1>3. Inv => PanelKept
  BY DEF LostOK, PanelKept
<1> QED
  BY <1>1, <1>2, <1>3, PTL DEF Spec

(***************************************************************************)
(* What was clicked, and the requests that carry it.                       *)
(***************************************************************************)

CallsFor(op, w) == {c \in Call : calls[c].mine /\ calls[c].op = op /\ calls[c].w = w}
ReadsFor(op, w) == {r \in Read : reads[r].then = [op |-> op, w |-> w]}

\* One request at most is to do op to w, or has done it and is not read back.
Only(op, w) ==
  /\ \A c, d \in CallsFor(op, w) : c = d
  /\ \A r, s \in ReadsFor(op, w) : r = s
  /\ CallsFor(op, w) = {} \/ ReadsFor(op, w) = {}

\* The last click's request is the only one of its kind, and its mark is there as
\* long as it is out.
AskedOK ==
  \A w \in Worktree, op \in {"wake", "sleep"} : clicked[w] = op =>
    /\ Only(op, w)
    /\ Outstanding(op, w) => page.pending[w] = Mark(op)

LEMMA OutstandingIs ==
  ASSUME NEW op, NEW w
  PROVE  Outstanding(op, w) <=> CallsFor(op, w) # {} \/ ReadsFor(op, w) # {}
BY DEF Outstanding, CallsFor, ReadsFor

\* What a request that is sent adds.
LEMMA AsksFor ==
  ASSUME TypeOK, NEW op, NEW w, NEW kind, NEW v, Asks(kind, v, TRUE)
  PROVE  /\ kind # op \/ v # w => CallsFor(op, w)' \subseteq CallsFor(op, w)
         /\ \E c \in Call : CallsFor(op, w)' \subseteq CallsFor(op, w) \cup {c}
<1> DEFINE asked == [op |-> kind, w |-> v, at |-> "asked", mine |-> TRUE]
<1>1. PICK c \in Call : calls' = [calls EXCEPT ![c] = asked]
  BY AsksIs
<1>2. asked.op = kind /\ asked.w = v
  OBVIOUS
<1> HIDE DEF asked
<1> QED
  BY <1>1, <1>2 DEF CallsFor, TypeOK

LEMMA RefreshesFor ==
  ASSUME TypeOK, NEW op, NEW w, NEW then \in Request \cup {Nothing}, Refreshes(then)
  PROVE  /\ then # [op |-> op, w |-> w] => ReadsFor(op, w)' \subseteq ReadsFor(op, w)
         /\ \E r \in Read : ReadsFor(op, w)' \subseteq ReadsFor(op, w) \cup {r}
BY RefreshesIs DEF ReadsFor

LEMMA OverFor ==
  ASSUME TypeOK, NEW op, NEW w, op # "none", NEW r \in Read, Over(r)
  PROVE  ReadsFor(op, w)' \subseteq ReadsFor(op, w) \ {r}
<1>1. reads'[r].then = Nothing
  BY OverIs DEF FreeRead
<1>2. Nothing # [op |-> op, w |-> w]
  <2>1. Nothing.op = "none" /\ [op |-> op, w |-> w].op = op
    BY DEF Nothing
  <2> QED
    BY <2>1
<1> QED
  BY <1>1, <1>2, OverIs DEF ReadsFor

\* What a step makes of the requests to do op to w.
Fewer(op, w) ==
  CallsFor(op, w)' \subseteq CallsFor(op, w) /\ ReadsFor(op, w)' \subseteq ReadsFor(op, w)
Passes(op, w) ==
  \E c \in CallsFor(op, w), r \in Read :
    CallsFor(op, w)' \subseteq CallsFor(op, w) \ {c} /\ ReadsFor(op, w)' \subseteq ReadsFor(op, w) \cup {r}
Clicked(op, w) == IF op = "wake" THEN Wakes(w) ELSE Sleeps(w)

LEMMA AnsweredFor ==
  ASSUME TypeOK, NEW op \in {"wake", "sleep"}, NEW w \in Worktree, NEW c \in Call, Answered(c)
  PROVE  Fewer(op, w) \/ Passes(op, w)
<1> DEFINE then == [op |-> calls[c].op, w |-> calls[c].w]
<1>1. /\ then \in Request /\ calls' = [calls EXCEPT ![c] = Idle]
      /\ UNCHANGED reads \/ (calls[c].mine /\ Refreshes(then))
  BY AnsweredIs
<1>2. CallsFor(op, w)' \subseteq CallsFor(op, w) \ {c}
  <2>1. ~Idle.mine
    BY DEF Idle
  <2> QED
    BY <1>1, <2>1 DEF CallsFor, TypeOK
<1>3. CASE UNCHANGED reads
  BY <1>2, <1>3 DEF Fewer, ReadsFor
<1>4. CASE calls[c].mine /\ Refreshes(then)
  <2>1. CASE then = [op |-> op, w |-> w]
    <3>1. calls[c].op = op /\ calls[c].w = w
      BY <2>1
    <3>2. c \in CallsFor(op, w)
      BY <1>4, <3>1 DEF CallsFor
    <3>3. PICK r \in Read : ReadsFor(op, w)' \subseteq ReadsFor(op, w) \cup {r}
      BY <1>1, <1>4, RefreshesFor
    <3> QED
      BY <1>2, <3>2, <3>3 DEF Passes
  <2>2. CASE then # [op |-> op, w |-> w]
    <3>1. ReadsFor(op, w)' \subseteq ReadsFor(op, w)
      BY <1>1, <1>4, <2>2, RefreshesFor
    <3> QED
      BY <1>2, <3>1 DEF Fewer
  <2> QED
    BY <2>1, <2>2
<1> QED
  BY <1>1, <1>3, <1>4

LEMMA ClicksFor ==
  ASSUME TypeOK, NEW op \in {"wake", "sleep"}, NEW w \in Worktree, HumanSteps, ~Reloads
  PROVE  \/ Fewer(op, w)
         \/ /\ Clicked(op, w) /\ UNCHANGED reads
            /\ \E c \in Call : CallsFor(op, w)' \subseteq CallsFor(op, w) \cup {c}
<1>1. UNCHANGED reads /\ ReadsFor(op, w)' = ReadsFor(op, w)
  BY HumanQuiet DEF ReadsFor
<1>2. PageOK(page)
  BY DEF TypeOK
<1>3. ASSUME NEW v \in Worktree, Wakes(v) \/ Sleeps(v)
      PROVE  \/ Fewer(op, w)
             \/ /\ Clicked(op, w)
                /\ \E c \in Call : CallsFor(op, w)' \subseteq CallsFor(op, w) \cup {c}
  <2>1. PICK kind \in {"wake", "sleep"} : Asks(kind, v, TRUE) /\ Clicked(kind, v)
    BY <1>3 DEF Wakes, Sleeps, Clicked
  <2>2. CASE kind = op /\ v = w
    BY <2>1, <2>2, AsksFor
  <2>3. CASE ~(kind = op /\ v = w)
    <3>1. CallsFor(op, w)' \subseteq CallsFor(op, w)
      BY <2>1, <2>3, AsksFor
    <3> QED
      BY <1>1, <3>1 DEF Fewer
  <2> QED
    BY <2>2, <2>3
<1>4. ASSUME NEW new, Other(new)
      PROVE  Fewer(op, w)
  <2>1. CASE UNCHANGED calls
    BY <1>1, <2>1 DEF Fewer, CallsFor
  <2>2. CASE \E kind \in {"remove", "open", "kill"}, v \in Worktree : Asks(kind, v, TRUE)
    <3>1. CallsFor(op, w)' \subseteq CallsFor(op, w)
      BY <2>2, AsksFor
    <3> QED
      BY <1>1, <3>1 DEF Fewer
  <2> QED
    BY <1>4, <2>1, <2>2 DEF Other
<1> QED
  BY <1>1, <1>2, <1>3, <1>4, HumanIs

LEMMA NextFor ==
  ASSUME TypeOK, [Next]_vars, NEW op \in {"wake", "sleep"}, NEW w \in Worktree
  PROVE  \/ Fewer(op, w)
         \/ Passes(op, w)
         \/ /\ Clicked(op, w) /\ UNCHANGED reads
            /\ \E c \in Call : CallsFor(op, w)' \subseteq CallsFor(op, w) \cup {c}
<1>1. ASSUME UNCHANGED <<calls, reads>> PROVE Fewer(op, w)
  BY <1>1 DEF Fewer, CallsFor, ReadsFor
<1>2. ASSUME UNCHANGED calls, NEW then \in {Nothing}, Refreshes(then) PROVE Fewer(op, w)
  <2>1. then # [op |-> op, w |-> w]
    <3>1. Nothing.op = "none" /\ [op |-> op, w |-> w].op = op
      BY DEF Nothing
    <3> QED
      BY <3>1
  <2> QED
    BY <1>2, <2>1, RefreshesFor DEF Fewer, CallsFor
<1>3. ASSUME UNCHANGED calls, NEW r \in Read, Over(r) PROVE Fewer(op, w)
  BY <1>3, OverFor DEF Fewer, CallsFor
<1>4. ASSUME UNCHANGED calls, NEW r \in Read, Snapshots(r) PROVE Fewer(op, w)
  BY <1>4, SnapshotsIs DEF Fewer, CallsFor, ReadsFor
<1>5. ASSUME UNCHANGED reads, NEW c \in Call, calls[c].at # "idle",
             NEW how \in {"half", "done", "failed"}, Ends(c, how)
      PROVE  Fewer(op, w)
  <2>1. \A d \in Call : /\ calls'[d].op = calls[d].op /\ calls'[d].w = calls[d].w
                        /\ calls'[d].mine = calls[d].mine
    BY <1>5, EndsOK
  <2> QED
    BY <1>5, <2>1 DEF Fewer, CallsFor, ReadsFor
<1>6. ASSUME NEW v \in Worktree, NEW kind \in {"wake", "sleep", "remove", "open"}, Others(kind, v)
      PROVE  Fewer(op, w)
  <2> DEFINE asked == [op |-> kind, w |-> v, at |-> "asked", mine |-> FALSE]
  <2>1. UNCHANGED reads /\ \E c \in Call : calls' = [calls EXCEPT ![c] = asked]
    BY <1>6, AsksIs DEF Others
  <2>2. ~asked.mine
    OBVIOUS
  <2> HIDE DEF asked
  <2> QED
    BY <2>1, <2>2 DEF Fewer, CallsFor, ReadsFor, TypeOK
<1>7. ASSUME Reloads PROVE Fewer(op, w)
  <2>1. /\ calls' = [c \in Call |-> [calls[c] EXCEPT !.mine = FALSE]]
        /\ reads' = [r \in Read |-> IF r = 1 THEN [FreeRead EXCEPT !.at = "asked"] ELSE FreeRead]
    BY <1>7 DEF Reloads
  <2>2. \A c \in Call : ~calls'[c].mine
    BY <2>1 DEF TypeOK, CallOK
  <2>3. \A r \in Read : reads'[r].then = Nothing
    <3>1. [FreeRead EXCEPT !.at = "asked"].then = Nothing /\ FreeRead.then = Nothing
      BY DEF FreeRead
    <3> QED
      BY <2>1, <3>1
  <2>4. Nothing # [op |-> op, w |-> w]
    <3>1. Nothing.op = "none" /\ [op |-> op, w |-> w].op = op
      BY DEF Nothing
    <3> QED
      BY <3>1
  <2> QED
    BY <2>2, <2>3, <2>4 DEF Fewer, CallsFor, ReadsFor
<1>8. ASSUME PageSteps PROVE Fewer(op, w) \/ Passes(op, w)
  BY <1>1, <1>2, <1>3, <1>8, AnsweredFor DEF PageSteps, Hears, Links, Lands, ReadFails, Saves
<1>9. ASSUME ServerSteps PROVE Fewer(op, w)
  <2>1. ASSUME NEW c \in Call, Handles(c) PROVE Fewer(op, w)
    BY <1>5, <2>1, HandlesIs
  <2>2. ASSUME NEW c \in Call, Refuses(c) PROVE Fewer(op, w)
    BY <1>5, <2>2 DEF Refuses
  <2>3. ASSUME NEW r \in Read, Snapshots(r) PROVE Fewer(op, w)
    BY <1>4, <2>3 DEF Snapshots
  <2> QED
    BY <1>1, <1>6, <1>9, <2>1, <2>2, <2>3
    DEF ServerSteps, SaveLands, SaveFails, DaysChange, Unlinks, Exits, Queues, Elsewhere
<1> QED
  BY <1>1, <1>7, <1>8, <1>9, ClicksFor DEF Next, vars, outsidePage

\* A click notes itself, and marks what it clicks.
LEMMA ClickIs ==
  ASSUME TypeOK, NEW op \in {"wake", "sleep"}, NEW w \in Worktree, Clicked(op, w)
  PROVE  /\ Clicks(op, w) /\ page'.pending = [page.pending EXCEPT ![w] = Mark(op)]
<1>1. PageOK(page)
  BY DEF TypeOK
<1>2. PICK new : /\ Acts(new) /\ Moves(page, new)
                 /\ \/ /\ new.pending = [page.pending EXCEPT ![w] = "awake"]
                       /\ Asks("wake", w, TRUE)
                    \/ /\ new.pending = [page.pending EXCEPT ![w] = "asleep"]
                       /\ Asks("sleep", w, TRUE)
  BY <1>1, WakesIs DEF Clicked
<1>3. Asks(op, w, TRUE) /\ Clicks(op, w)
  BY DEF Clicked, Wakes, Sleeps
<1>4. new.pending = [page.pending EXCEPT ![w] = Mark(op)]
  <2>1. ~(Asks("wake", w, TRUE) /\ Asks("sleep", w, TRUE))
    <3> DEFINE wake == [op |-> "wake", w |-> w, at |-> "asked", mine |-> TRUE]
               sleep == [op |-> "sleep", w |-> w, at |-> "asked", mine |-> TRUE]
    <3>1. ASSUME Asks("wake", w, TRUE), Asks("sleep", w, TRUE) PROVE FALSE
      <4>1. PICK c \in Call : calls[c] = Idle /\ calls' = [calls EXCEPT ![c] = wake]
        BY <3>1, AsksIs
      <4>2. PICK d \in Call : calls[d] = Idle /\ calls' = [calls EXCEPT ![d] = sleep]
        BY <3>1, AsksIs
      <4>3. wake.op = "wake" /\ sleep.op = "sleep" /\ Idle.op = "idle"
        BY DEF Idle
      <4> HIDE DEF wake, sleep
      <4> QED
        BY <4>1, <4>2, <4>3 DEF TypeOK
    <3> QED
      BY <3>1
  <2> QED
    BY <1>2, <1>3, <2>1 DEF Mark
<1> QED
  BY <1>2, <1>3, <1>4, ActsKeeps

\* A mark that changes is one that is clicked, or that has been waited for.
LEMMA PendingNext ==
  ASSUME TypeOK, [Next]_vars, NEW w \in Worktree
  PROVE  \/ page'.pending[w] = page.pending[w] /\ clicked'[w] = clicked[w]
         \/ \E op \in {"wake", "sleep"} : Clicked(op, w)
         \/ Reloads
         \/ /\ clicked'[w] = clicked[w]
            /\ \E r \in Read : /\ Over(r) /\ UNCHANGED calls /\ w = reads[r].then.w
                               /\ reads[r].then.op \in {"wake", "sleep"}
                               /\ page.pending[w] = Mark(reads[r].then.op)
<1> DEFINE Same == page'.pending[w] = page.pending[w] /\ clicked'[w] = clicked[w]
<1>1. ASSUME UNCHANGED <<page, clicked>> PROVE Same
  BY <1>1
<1>2. ASSUME HumanSteps, ~Reloads PROVE Same \/ \E op \in {"wake", "sleep"} : Clicked(op, w)
  <2>1. PageOK(page)
    BY DEF TypeOK
  <2>2. ASSUME NEW new, Other(new) PROVE Same
    BY <2>2, ActsKeeps DEF Other
  <2>3. ASSUME NEW v \in Worktree \ {w}, Wakes(v) \/ Sleeps(v) PROVE Same
    <3>1. PICK op \in {"wake", "sleep"} : Clicked(op, v)
      BY <2>3 DEF Clicked
    <3> HIDE DEF Same
    <3>2. Clicks(op, v) /\ page'.pending = [page.pending EXCEPT ![v] = Mark(op)]
      BY <3>1, ClickIs
    <3>3. page.pending \in [Worktree -> {"none", "awake", "asleep"}]
      BY <2>1 DEF PageOK
    <3>4. clicked \in [Worktree -> {"none", "wake", "sleep"}]
      BY DEF TypeOK
    <3> QED
      BY <3>2, <3>3, <3>4 DEF Clicks, Same
  <2>4. ASSUME Wakes(w) \/ Sleeps(w) PROVE \E op \in {"wake", "sleep"} : Clicked(op, w)
    BY <2>4 DEF Clicked
  <2> HIDE DEF Same
  <2> QED
    BY <1>2, <2>1, <2>2, <2>3, <2>4, HumanIs
<1>3. ASSUME NEW r \in Read, Lands(r) \/ ReadFails(r)
      PROVE  \/ Same
             \/ /\ clicked'[w] = clicked[w]
                /\ Over(r) /\ UNCHANGED calls /\ w = reads[r].then.w
                /\ reads[r].then.op \in {"wake", "sleep"}
                /\ page.pending[w] = Mark(reads[r].then.op)
  <2>1. Over(r) /\ UNCHANGED <<calls, clicked>>
    BY <1>3 DEF Lands, ReadFails, history
  <2>2. Unmarks(page, page', reads[r].then)
    BY <1>3, LandsIs, FailsIs
  <2> QED
    BY <2>1, <2>2 DEF Unmarks
<1>4. ASSUME Links \/ Saves \/ Unlinks PROVE Same
  BY <1>4 DEF Links, Saves, Unlinks, history, TypeOK, PageOK
<1>5. ASSUME NEW c \in Call, Answered(c) PROVE Same
  BY <1>5, AnsweredIs, AnsweredPage DEF history
<1>6. ASSUME ServerSteps PROVE Same
  <2> HIDE DEF Same
  <2> QED
    BY <1>1, <1>4, <1>6, HandlesIs
    DEF ServerSteps, Snapshots, SaveLands, SaveFails, Refuses, DaysChange, Exits, Queues, Elsewhere,
        Others, history
<1>7. ASSUME Hears PROVE Same
  BY <1>7 DEF Hears, history
<1> QED
  BY <1>1, <1>2, <1>3, <1>4, <1>5, <1>6, <1>7 DEF Next, PageSteps, vars, history

LEMMA AskedKept ==
  ASSUME TypeOK, AskedOK, [Next]_vars
  PROVE  AskedOK'
<1>1. /\ clicked \in [Worktree -> {"none", "wake", "sleep"}]
      /\ clicked' \in [Worktree -> {"none", "wake", "sleep"}]
  BY NextOK DEF TypeOK
<1> SUFFICES ASSUME NEW w \in Worktree, NEW op \in {"wake", "sleep"}, clicked'[w] = op
             PROVE  /\ Only(op, w)'
                    /\ Outstanding(op, w)' => page'.pending[w] = Mark(op)
  BY DEF AskedOK
<1>2. clicked'[w] = op
  OBVIOUS
<1>3. CASE \E kind \in {"wake", "sleep"} : Clicked(kind, w)
  <2>1. PICK kind \in {"wake", "sleep"} : Clicked(kind, w)
    BY <1>3
  <2>2. Clicks(kind, w) /\ page'.pending = [page.pending EXCEPT ![w] = Mark(kind)]
    BY <2>1, ClickIs
  <2>3. kind = op /\ ~Outstanding(op, w)
    BY <1>1, <1>2, <2>2 DEF Clicks
  <2>4. CallsFor(op, w) = {} /\ ReadsFor(op, w) = {}
    BY <2>3, OutstandingIs
  <2>5. ReadsFor(op, w)' = {} /\ \A c, d \in CallsFor(op, w)' : c = d
    <3>1. CASE Fewer(op, w)
      BY <2>4, <3>1 DEF Fewer
    <3>2. CASE UNCHANGED reads /\ \E c \in Call : CallsFor(op, w)' \subseteq CallsFor(op, w) \cup {c}
      <4>1. ReadsFor(op, w)' = ReadsFor(op, w)
        BY <3>2 DEF ReadsFor
      <4> QED
        BY <2>4, <3>2, <4>1
    <3> QED
      BY <2>4, <3>1, <3>2, NextFor DEF Passes
  <2>6. Only(op, w)'
    BY <2>5 DEF Only
  <2>7. page'.pending[w] = Mark(op)
    BY <2>2, <2>3 DEF TypeOK, PageOK
  <2> QED
    BY <1>2, <2>6, <2>7
<1>4. CASE ~\E kind \in {"wake", "sleep"} : Clicked(kind, w)
  <2>1. Fewer(op, w) \/ Passes(op, w)
    BY <1>4, NextFor
  <2>2. CASE Reloads
    <3>1. CallsFor(op, w)' = {}
      <4>1. calls' = [c \in Call |-> [calls[c] EXCEPT !.mine = FALSE]]
        BY <2>2 DEF Reloads
      <4>2. \A c \in Call : ~calls'[c].mine
        BY <4>1 DEF TypeOK, CallOK
      <4> QED
        BY <4>2 DEF CallsFor
    <3>2. ReadsFor(op, w)' = {}
      <4>1. reads' = [r \in Read |-> IF r = 1 THEN [FreeRead EXCEPT !.at = "asked"] ELSE FreeRead]
        BY <2>2 DEF Reloads
      <4>2. [FreeRead EXCEPT !.at = "asked"].then = Nothing /\ FreeRead.then = Nothing
        BY DEF FreeRead
      <4>3. Nothing # [op |-> op, w |-> w]
        <5>1. Nothing.op = "none" /\ [op |-> op, w |-> w].op = op
          BY DEF Nothing
        <5> QED
          BY <5>1
      <4> QED
        BY <4>1, <4>2, <4>3 DEF ReadsFor
    <3>3. ~Outstanding(op, w)'
      BY <3>1, <3>2 DEF Outstanding, CallsFor, ReadsFor
    <3> QED
      BY <1>2, <3>1, <3>2, <3>3 DEF Only
  <2>3. CASE ~Reloads
    <3>1. clicked[w] = op
      BY <1>2, <1>4, <2>3, PendingNext
    <3>2. Only(op, w) /\ (Outstanding(op, w) => page.pending[w] = Mark(op))
      BY <3>1 DEF AskedOK
    <3>3. Only(op, w)'
      BY <2>1, <3>2 DEF Only, Fewer, Passes
    <3>4. ASSUME Outstanding(op, w)' PROVE page'.pending[w] = Mark(op)
      <4>1. CallsFor(op, w)' # {} \/ ReadsFor(op, w)' # {}
        BY <3>4 DEF Outstanding, CallsFor, ReadsFor
      <4>2. CallsFor(op, w) # {} \/ ReadsFor(op, w) # {}
        BY <2>1, <4>1 DEF Fewer, Passes
      <4>3. page.pending[w] = Mark(op)
        BY <3>2, <4>2, OutstandingIs
      <4>4. ASSUME NEW r \in Read, Over(r), UNCHANGED calls, w = reads[r].then.w,
                   reads[r].then.op \in {"wake", "sleep"}, page.pending[w] = Mark(reads[r].then.op)
            PROVE  FALSE
        <5>1. reads[r].then.op = op
          BY <4>3, <4>4 DEF Mark
        <5>2. reads[r].then = [op |-> op, w |-> w]
          <6>1. reads[r].then \in Request
            BY <4>4 DEF TypeOK, ReadOK, Nothing
          <6> QED
            BY <4>4, <5>1, <6>1 DEF Request
        <5>3. r \in ReadsFor(op, w)
          BY <5>2 DEF ReadsFor
        <5>4. CallsFor(op, w)' = {}
          BY <3>2, <4>4, <5>3 DEF Only, CallsFor
        <5>5. ReadsFor(op, w)' = {}
          BY <3>2, <4>4, <5>3, OverFor DEF Only
        <5> QED
          BY <4>1, <5>4, <5>5
      <4> QED
        BY <1>4, <2>3, <4>3, <4>4, PendingNext
    <3> QED
      BY <1>2, <3>3, <3>4
  <2> QED
    BY <2>2, <2>3
<1> QED
  BY <1>3, <1>4

\* The last click shows at once and for as long as its request has not been read
\* back, whichever of two opposite ones is answered first: the answer takes the
\* mark of its own kind only.
THEOREM ClickIsShown == Spec => []AskedShown
<1> DEFINE Inv == TypeOK /\ AskedOK
<1>1. Init => Inv
  BY InitOK DEF Init, AskedOK
<1>2. Inv /\ [Next]_vars => Inv'
  BY NextOK, AskedKept
<1>3. Inv => AskedShown
  <2>1. ASSUME Inv, NEW w \in page.seen.there, clicked[w] # "none", Outstanding(clicked[w], w)
        PROVE  w \in Shown(page) <=> clicked[w] = "wake"
    <3>1. w \in Worktree /\ clicked[w] \in {"wake", "sleep"}
      BY <2>1 DEF TypeOK, PageOK, SeenOK
    <3>2. page.pending[w] = Mark(clicked[w])
      BY <2>1, <3>1 DEF AskedOK
    <3> QED
      BY <2>1, <3>1, <3>2 DEF Shown, Mark
  <2> QED
    BY <2>1 DEF AskedShown
<1> QED
  BY <1>1, <1>2, <1>3, PTL DEF Spec
=============================================================================
