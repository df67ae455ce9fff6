------------------------------ MODULE RowLayout ------------------------------
(***************************************************************************)
(* The row of windows of a page as arithmetic: how wide each window's      *)
(* panes are, where in the row it begins, where the row may come to rest   *)
(* and how far it goes to bring a window into view (web/src/views/         *)
(* Overview.tsx, overviewLayout.ts).  Everything is in units, half of the  *)
(* narrowest pane.                                                         *)
(***************************************************************************)
EXTENDS Integers, Sequences

Panel == {"none", "terminals", "todo", "tree", "files"}
Least(m, n) == IF m <= n THEN m ELSE n
Most(m, n) == IF m <= n THEN n ELSE m
Distance(m, n) == IF m <= n THEN n - m ELSE m - n

\* PANE_UNITS: "tree" is the files panel with nothing open in it.
Wants(kind) ==
  CASE kind \in {"project", "tree"} -> 1
    [] kind = "files" -> 3
    [] OTHER -> 2

Pane(kind, units) == [kind |-> kind, units |-> units]

\* Mutant: the panel is squeezed in beside Claude, whatever that comes to.
Beside(p, capacity) ==
  IF p = "none" THEN <<Pane("claude", Least(2, capacity))>>
  ELSE <<Pane("claude", Least(2, capacity)), Pane(p, Least(Wants(p), capacity))>>

\* panesOf: Claude gives way to a panel there is no room for beside it.
PanesOf(p, capacity) ==
  LET claude == Pane("claude", Least(2, capacity))
      panel == Pane(p, Least(Wants(p), capacity))
  IN IF p = "none" THEN <<claude>>
     ELSE IF claude.units + panel.units <= capacity THEN <<claude, panel>>
     ELSE <<Pane(p, capacity)>>

\* A cell: its key, its panes, and the unit each of these begins at.
Cell(key, panes, at) == [key |-> key, panes |-> panes, at |-> at]
UnitsOf(cell) == IF Len(cell.panes) = 1 THEN cell.panes[1].units
                 ELSE cell.panes[1].units + cell.panes[2].units
EndOf(cell) == cell.at + UnitsOf(cell)

\* The project's own pane, its windows in order, and the machine's; on a phone,
\* which has room for one pane, a project's is as wide as that.
Cells(windows, panels, capacity, narrow) ==
  LET head == Cell("project", <<Pane("project", IF narrow THEN 2 ELSE 1)>>, 0)
      n == Len(windows)
      row[i \in 0..n] ==
        IF i = 0 THEN <<head>>
        ELSE Append(row[i - 1], Cell(windows[i], PanesOf(panels[windows[i]], capacity),
                                     EndOf(row[i - 1][i])))
  IN Append(row[n], Cell("machine", <<Pane("machine", Least(2, capacity))>>, EndOf(row[n][n + 1])))

LastOffset(cells, capacity) == Most(0, EndOf(cells[Len(cells)]) - capacity)

\* rest: every pane's leading edge short of the far end, and the far end.
Rests(cells, capacity) ==
  LET last == LastOffset(cells, capacity)
      edges == {cells[i].at : i \in 1..Len(cells)}
                 \cup {cells[i].at + cells[i].panes[1].units :
                         i \in {j \in 1..Len(cells) : Len(cells[j].panes) = 2}}
  IN {o \in edges : o < last} \cup {last}

\* wholeOnScreen.
Whole(cell, offset, capacity) == offset <= cell.at /\ EndOf(cell) <= offset + capacity

\* Mutant: the first rest that shows the window's leading edge.
FirstRest(cell, from, capacity, rests) ==
  IF from <= cell.at THEN from ELSE cell.at

\* nearestOffset: the rest that shows the whole window for the least movement,
\* the first of two as near.
NearestOffset(cell, from, capacity, rests) ==
  LET lo == EndOf(cell) - capacity
      want == Least(Most(from, lo), cell.at)
      fits == {o \in rests : lo <= o /\ o <= cell.at}
  IN IF fits = {} THEN want
     ELSE CHOOSE o \in fits : \A q \in fits :
            \/ Distance(o, want) < Distance(q, want)
            \/ Distance(o, want) = Distance(q, want) /\ o <= q

\* The stops of a Cmd+arrow walk: the panes of the cells that are not going.
StopsOf(cells, going) ==
  LET n == Len(cells)
      walk[i \in 0..n] ==
        IF i = 0 THEN <<>>
        ELSE walk[i - 1] \o
          IF cells[i].key \in going THEN <<>>
          ELSE [j \in 1..Len(cells[i].panes) |->
                  [id |-> cells[i].key, pane |-> cells[i].panes[j].kind]]
  IN walk[n]
=============================================================================
