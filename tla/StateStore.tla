----------------------------- MODULE StateStore -----------------------------
(***************************************************************************)
(* The part of server/src/state.ts that the todo queue depends on: the     *)
(* todos in memory, the state file they are saved to, the save that waits  *)
(* for its debounce, and the chain of writes.                              *)
(*                                                                         *)
(* `saving` is a promise that every write is appended to.  A debounced     *)
(* save swallows its failure (`.catch`), a flush does not: a failed flush  *)
(* leaves the chain rejected, and a link appended to a rejected chain      *)
(* settles without writing.  `broken` is that rejection.                   *)
(***************************************************************************)
EXTENDS Naturals, Sequences

CONSTANTS
  Todo,       \* todo ids, each given to one todo only
  Worktree,   \* worktree ids
  None,       \* no todo, no worktree, no session
  MaxChain    \* bound: writes waiting at once before a further save is due

ASSUME StoreAssumption ==
  /\ None \notin Worktree
  /\ None \notin Todo
  /\ MaxChain \in Nat \ {0}

VARIABLES
  todos,      \* this process's todos; a row in no worktree is no todo
  file,       \* the todos in the state file
  timer,      \* a debounced save is due
  chain,      \* the unsettled links of `saving`, oldest first
  broken,     \* the last link that settled was rejected
  writing,    \* the oldest link is between its stringify and its rename
  snapshot    \* what that write serialised (the file's own content otherwise)

storeVars == <<todos, file, timer, chain, broken, writing, snapshot>>

Row == [wt : Worktree \cup {None}, queuedAt : Nat, claimed : BOOLEAN, err : BOOLEAN]
NoRow == [wt |-> None, queuedAt |-> 0, claimed |-> FALSE, err |-> FALSE]

Exists(r) == r.wt # None
Queued(r) == Exists(r) /\ r.queuedAt > 0

StoreTypeOK ==
  /\ todos \in [Todo -> Row]
  /\ file \in [Todo -> Row]
  /\ timer \in BOOLEAN
  /\ chain \in Seq({"save", "flush"})
  /\ broken \in BOOLEAN
  /\ writing \in BOOLEAN
  /\ snapshot \in [Todo -> Row]

\* A first start: load() finds no state file.
StoreInit ==
  /\ todos = [t \in Todo |-> NoRow]
  /\ file = [t \in Todo |-> NoRow]
  /\ timer = FALSE
  /\ chain = <<>>
  /\ broken = FALSE
  /\ writing = FALSE
  /\ snapshot = file

-----------------------------------------------------------------------------
\* patchTodo of a todo that is there: the row changes and a save is scheduled.
Patched(t, row) ==
  /\ todos' = [todos EXCEPT ![t] = row]
  /\ timer' = TRUE

\* removeTodosFor: nothing to remove is not a change.
RemovedFor(doomed) ==
  /\ todos' = [t \in Todo |-> IF todos[t].wt \in doomed THEN NoRow ELSE todos[t]]
  /\ timer' = (timer \/ todos' # todos)

\* flush(): the debounce is cancelled and a write is appended to the chain.
Flushed ==
  /\ timer' = FALSE
  /\ chain' = Append(chain, "flush")

\* The debounce runs out: a write that cannot reject is appended.
SaveTimerFires ==
  /\ timer
  /\ Len(chain) < MaxChain
  /\ timer' = FALSE
  /\ chain' = Append(chain, "save")
  /\ UNCHANGED <<todos, file, broken, writing, snapshot>>

\* write(): after its mkdir, JSON.stringify reads the state as it is now.
WriteStarts ==
  /\ chain # <<>>
  /\ ~broken
  /\ ~writing
  /\ writing' = TRUE
  /\ snapshot' = todos
  /\ UNCHANGED <<todos, file, timer, chain, broken>>

\* The oldest link settles: its write was renamed over the file, or failed
\* before that, or it never ran because the link before it was rejected.
Renamed ==
  /\ writing
  /\ file' = snapshot
  /\ broken' = FALSE

WriteFailed ==
  /\ writing
  /\ file' = file
  /\ broken' = (Head(chain) = "flush")

\* Mutant: a debounced save does not swallow the rejection before it.
LinkSkippedForGood ==
  /\ chain # <<>>
  /\ broken
  /\ file' = file
  /\ broken' = TRUE

LinkSkipped ==
  /\ chain # <<>>
  /\ broken
  /\ file' = file
  /\ broken' = (Head(chain) = "flush")

Settles ==
  /\ chain' = Tail(chain)
  /\ writing' = FALSE
  /\ snapshot' = file'

\* A debounced save settles; nobody is waiting for it.
SaveSettles ==
  /\ chain # <<>>
  /\ Head(chain) = "save"
  /\ Renamed \/ LinkSkipped
  /\ Settles
  /\ UNCHANGED <<todos, timer>>

SaveFails ==
  /\ chain # <<>>
  /\ Head(chain) = "save"
  /\ WriteFailed
  /\ Settles
  /\ UNCHANGED <<todos, timer>>

\* A new process: load() reads the file, and no timer or write survives.
Loaded(recovered) ==
  /\ todos' = [t \in Todo |-> recovered[t]]
  /\ timer' = (recovered # file)
  /\ chain' = <<>>
  /\ broken' = FALSE
  /\ writing' = FALSE
  /\ snapshot' = file
  /\ UNCHANGED file
=============================================================================
