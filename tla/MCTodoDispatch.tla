--------------------------- MODULE MCTodoDispatch ---------------------------
(* Small instances of TodoDispatch for TLC.                                *)
EXTENDS TodoDispatch

CONSTANTS t1, t2, w1, w2, c1

\* One Claude, in w1: a todo moved to w2 waits for one.
OneClaude == [s \in Session |-> w1]

\* t1 collapses to a placeholder; t2 is shown as it is, and a draft may open
\* like it.
Shown == [t \in Todo |-> IF t = t1 THEN {} ELSE {t2, Draft}]

Bounds(ask, key, crash, fault, moves, paneEvents) ==
  [k \in Outside |-> CASE k = "ask" -> ask [] k = "key" -> key [] k = "crash" -> crash
                       [] k = "fault" -> fault [] k = "move" -> moves [] k = "pane" -> paneEvents]

\* A key typed by the human.
KeyBounds == Bounds(0, 1, 0, 0, 0, 0)

\* A pty or a process lost.
PaneBounds == Bounds(0, 0, 0, 0, 0, 1)

\* A failed write.
FaultBounds == Bounds(0, 0, 0, 1, 0, 0)

\* Two requests and a crash, or one with a failed write; or a request and a move.
AgainBounds == Bounds(2, 0, 1, 0, 0, 0)
CrashBounds == Bounds(1, 0, 1, 1, 0, 0)
MoveBounds == Bounds(1, 0, 0, 0, 1, 0)

-----------------------------------------------------------------------------
\* A server that starts with these rows in its file and these ids given out.
Starts(rows, ids) ==
  /\ todos = rows
  /\ file = rows
  /\ snapshot = rows
  /\ timer = FALSE
  /\ chain = <<>>
  /\ broken = FALSE
  /\ writing = FALSE
  /\ PaneInit
  /\ now = 2
  /\ born = ids
  /\ move = None
  /\ phase = "idle"
  /\ due = {}
  /\ job = NoJob
  /\ cooling = {}
  /\ asked = [t \in Todo |-> IF Queued(rows[t]) THEN 1 ELSE 0]
  /\ typed = [t \in Todo |-> 0]
  /\ submitted = [t \in Todo |-> 0]
  /\ wanted = [t \in Todo |-> Queued(rows[t])]

\* t1 and t2 are queued in w1, in that order; or there is nothing, t2 is no
\* more and t1 not yet made.
QueuedRows == [t \in Todo |-> [NoRow EXCEPT !.wt = w1, !.queuedAt = IF t = t1 THEN 1 ELSE 2]]

MixedInit ==
  \/ Starts(QueuedRows, Todo) /\ left \in {KeyBounds, FaultBounds, PaneBounds}
  \/ Starts([t \in Todo |-> NoRow], {t2}) /\ left \in {AgainBounds, CrashBounds, MoveBounds}

MixedSpec == MixedInit /\ [][Next]_vars
MixedFairSpec == MixedSpec /\ Fairness
=============================================================================
