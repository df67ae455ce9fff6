------------------------ MODULE TodoDispatch_proofs ------------------------
(***************************************************************************)
(* Proofs about TodoDispatch, for every set of todos, worktrees and        *)
(* sessions and every bound: its types first, then the at-most-once        *)
(* argument (IInv is inductive, and what TodoDispatch promises of a send   *)
(* follows from it).                                                       *)
(***************************************************************************)
EXTENDS TodoDispatch, TLAPS

-----------------------------------------------------------------------------
(* Type correctness.                                                       *)

LEMMA Types0 == NoRow \in Row /\ NoJob \in Job /\ Fresh \in Pane
  BY DEF NoRow, Row, NoJob, Job, Fresh, Pane, Screens

\* The first state is well typed.
LEMMA TypeInit == Init => TypeOK
<1> SUFFICES ASSUME Init PROVE TypeOK
  OBVIOUS
<1>1. StoreTypeOK
  <2>1. todos \in [Todo -> Row] /\ file \in [Todo -> Row] /\ snapshot \in [Todo -> Row]
    BY Types0 DEF Init, StoreInit
  <2>2. chain \in Seq({"save", "flush"})
    BY DEF Init, StoreInit
  <2>3. QED
    BY <2>1, <2>2 DEF Init, StoreInit, StoreTypeOK
<1>2. PaneTypeOK
  BY Types0 DEF Init, PaneInit, PaneTypeOK
<1>3. QED
  BY <1>1, <1>2, Types0, DispatchAssumption DEF Init, TypeOK, Phases

LEMMA TypeRecovered ==
  ASSUME NEW r \in Row PROVE Recovered(r) \in Row
  BY DEF Recovered, Row

LEMMA TypeAfterPaste ==
  ASSUME NEW p \in Pane, NEW t \in Prompt PROVE AfterPaste(p, t) \in Pane
  BY DEF AfterPaste, Pane

LEMMA TypeAfterReturn ==
  ASSUME NEW p \in Pane PROVE AfterReturn(p) \in Pane
  BY DEF AfterReturn, Pane, Screens

LEMMA TypeAfterKey ==
  ASSUME NEW p \in Pane, NEW time \in Nat, NEW q \in AfterKey(p, time) PROVE q \in Pane
<1> DEFINE at == [p EXCEPT !.input = time]
<1>1. at \in Pane
  BY DEF Pane
<1>2. [at EXCEPT !.screen = "busy"] \in Pane /\ [at EXCEPT !.box = at.box \cup {Draft}] \in Pane
        /\ [at EXCEPT !.box = {}] \in Pane
  BY <1>1 DEF Pane, Screens
<1>3. QED
  BY <1>1, <1>2, TypeAfterReturn DEF AfterKey

\* MoveLands, case by case.
LEMMA MoveLandsParts ==
  ASSUME MoveLands
  PROVE  /\ move # None
         /\ ClockReads
         /\ move' = None
         /\ UNCHANGED <<fileVars, pane, born, dispatchVars, left, historyVars>>
         /\ ~Exists(todos[move.todo]) => UNCHANGED <<todos, timer>>
         /\ Exists(todos[move.todo]) =>
              \E place \in IF Queued(todos[move.todo]) THEN NextQueuedAt(move.to, now') ELSE {0} :
                Patched(move.todo, [todos[move.todo] EXCEPT !.wt = move.to, !.queuedAt = place])
  BY DEF MoveLands

\* What the routes do to the rows.
LEMMA TypeHuman == ASSUME TypeOK, HumanSteps PROVE TypeOK'
<1> USE Types0 DEF TypeOK, StoreTypeOK, fileVars, dispatchVars, historyVars, storeVars, Patched
<1>1. ASSUME NEW t \in Todo, NEW w \in Worktree, CreateTodo(t, w) PROVE TypeOK'
  BY <1>1 DEF CreateTodo, PaneTypeOK, Row
<1>2. ASSUME NEW t \in Todo, NEW w \in Worktree, MoveStarts(t, w) PROVE TypeOK'
  BY <1>2 DEF MoveStarts, PaneTypeOK, Spends, Move, Outside
<1>3. ASSUME NEW t \in Todo, EditTodo(t) PROVE TypeOK'
  BY <1>3 DEF EditTodo, PaneTypeOK
<1>4. ASSUME NEW t \in Todo, QueueTodo(t) PROVE TypeOK'
  <2>1. PICK place \in NextQueuedAt(todos[t].wt, now') :
          Patched(t, [todos[t] EXCEPT !.queuedAt = place, !.err = FALSE])
    BY <1>4 DEF QueueTodo
  <2>2. now' \in Nat /\ place \in Nat
    BY <1>4, <2>1 DEF QueueTodo, ClockReads, NextQueuedAt, InQueue, Row
  <2>3. todos' \in [Todo -> Row]
    BY <2>1, <2>2 DEF Row
  <2>4. left' \in [Outside -> Nat]
    BY <1>4 DEF QueueTodo, Spends, Outside
  <2>5. QED
    BY <1>4, <2>1, <2>2, <2>3, <2>4 DEF QueueTodo, PaneTypeOK
<1>5. ASSUME NEW t \in Todo, UnqueueTodo(t) PROVE TypeOK'
  BY <1>5 DEF UnqueueTodo, PaneTypeOK, Row
<1>6. ASSUME NEW t \in Todo, DeleteTodo(t) PROVE TypeOK'
  BY <1>6 DEF DeleteTodo, PaneTypeOK, Row, Keeps, Job
<1>7. ASSUME MoveLands PROVE TypeOK'
  <2>1. now' \in Nat
    <3>1. ClockReads
      BY <1>7, MoveLandsParts, Zenon
    <3>2. QED
      BY <3>1 DEF ClockReads
  <2>2. move \in Move
    BY <1>7, MoveLandsParts
  <2>3. todos' \in [Todo -> Row] /\ timer' \in BOOLEAN
    <3>1. CASE ~Exists(todos[move.todo])
      BY <1>7, <3>1, MoveLandsParts
    <3>2. CASE Exists(todos[move.todo])
      <4>1. PICK place \in IF Queued(todos[move.todo]) THEN NextQueuedAt(move.to, now') ELSE {0} :
              Patched(move.todo, [todos[move.todo] EXCEPT !.wt = move.to, !.queuedAt = place])
        BY <1>7, <3>2, MoveLandsParts
      <4>2. place \in Nat
        BY <2>1, <4>1 DEF NextQueuedAt, InQueue, Row
      <4>3. todos' = [todos EXCEPT ![move.todo] = [todos[move.todo] EXCEPT !.wt = move.to, !.queuedAt = place]]
              /\ timer' = TRUE
        BY <4>1
      <4>4. move.todo \in Todo /\ move.to \in Worktree
        BY <2>2 DEF Move
      <4>5. [todos[move.todo] EXCEPT !.wt = move.to, !.queuedAt = place] \in Row
        BY <4>2, <4>4 DEF Row
      <4>6. QED
        BY <4>3, <4>4, <4>5
    <3>3. QED
      BY <3>1, <3>2
  <2>4. QED
    BY <1>7, <2>1, <2>3, MoveLandsParts DEF PaneTypeOK
<1>8. ASSUME MoveRefused PROVE TypeOK'
  BY <1>8 DEF MoveRefused, PaneTypeOK
<1>9. ASSUME NEW w \in Worktree, RemoveTodosFor(w) PROVE TypeOK'
  BY <1>9 DEF RemoveTodosFor, RemovedFor, PaneTypeOK, Keeps, Job, Row
<1>10. ASSUME NEW s \in Session, HumanTypes(s) PROVE TypeOK'
  <2>1. now' \in Nat /\ left' \in [Outside -> Nat]
    BY <1>10 DEF HumanTypes, ClockReads, Spends, Outside
  <2>2. PICK time \in {now', pane[s].input} : \E p \in AfterKey(pane[s], time) :
          pane' = [pane EXCEPT ![s] = p]
    BY <1>10 DEF HumanTypes
  <2>3. time \in Nat /\ pane[s] \in Pane
    BY <2>1, <2>2 DEF PaneTypeOK, Pane
  <2>4. PaneTypeOK'
    BY <2>2, <2>3, TypeAfterKey DEF PaneTypeOK
  <2>5. QED
    BY <1>10, <2>1, <2>4 DEF HumanTypes
<1>11. QED
  BY <1>1, <1>2, <1>3, <1>4, <1>5, <1>6, <1>7, <1>8, <1>9, <1>10 DEF HumanSteps

\* What Claude, its process and its pty do.
LEMMA TypePane == ASSUME TypeOK, NEW s \in Session, PaneChanges(s) PROVE TypeOK'
<1> USE DEF TypeOK, StoreTypeOK, PaneTypeOK, dispatchVars, historyVars, storeVars
<1>1. pane' \in [Session -> Pane]
  <2>1. CASE ScreenChanges(s)
    <3>1. PICK next \in Screens : pane' = [pane EXCEPT ![s].screen = next]
      BY <2>1 DEF ScreenChanges
    <3>2. [pane[s] EXCEPT !.screen = next] \in Pane
      BY DEF Pane
    <3>3. QED
      BY <3>1, <3>2
  <2>2. CASE Respawns(s)
    BY <2>2 DEF Respawns, Fresh, Pane, Screens
  <2>3. CASE PtyReattaches(s)
    BY <2>3 DEF PtyReattaches, Pane
  <2>4. CASE Dies(s)
    BY <2>4 DEF Dies, Pane, Screens
  <2>5. CASE PtyDrops(s)
    BY <2>5 DEF PtyDrops, Pane
  <2>6. QED
    BY <2>1, <2>2, <2>3, <2>4, <2>5 DEF PaneChanges
<1>2. left' \in [Outside -> Nat]
  BY DEF PaneChanges, Spends, Outside
<1>3. QED
  BY <1>1, <1>2 DEF PaneChanges

LEMMA TypeDrops == Drops => phase' = "idle" /\ job' \in Job
  BY Types0 DEF Drops

\* patchTodo in send(), and the two rows it is used with.
LEMMA TypeSend ==
  ASSUME TypeOK, phase # "idle", PutsBack \/ GivesUp
  PROVE  todos' \in [Todo -> Row] /\ timer' \in BOOLEAN
<1> USE DEF TypeOK, StoreTypeOK
<1>1. job.todo \in Todo /\ job.was \in Nat
  BY DEF Job
<1>2. todos[job.todo] \in Row
  BY <1>1
<1>3. [todos[job.todo] EXCEPT !.claimed = FALSE, !.queuedAt = job.was] \in Row
  BY <1>1, <1>2 DEF Row
<1>4. [todos[job.todo] EXCEPT !.claimed = FALSE, !.err = TRUE] \in Row
  BY <1>2 DEF Row
<1>5. QED
  BY <1>1, <1>3, <1>4 DEF PutsBack, GivesUp, SendPatches, Patched

\* The links of the chain stay links.
LEMMA TypeChain ==
  ASSUME StoreTypeOK
  PROVE  /\ Append(chain, "flush") \in Seq({"save", "flush"})
         /\ Append(chain, "save") \in Seq({"save", "flush"})
         /\ chain # <<>> => Tail(chain) \in Seq({"save", "flush"})
  BY DEF StoreTypeOK

\* A link that settles leaves the file's variables well typed.
LEMMA TypeSettles ==
  ASSUME StoreTypeOK, chain # <<>>, Settles, Renamed \/ WriteFailed \/ LinkSkipped
  PROVE  /\ file' \in [Todo -> Row]
         /\ snapshot' \in [Todo -> Row]
         /\ chain' \in Seq({"save", "flush"})
         /\ broken' \in BOOLEAN
         /\ writing' \in BOOLEAN
  BY TypeChain DEF StoreTypeOK, Settles, Renamed, WriteFailed, LinkSkipped

\* ClaimSaved, when the paste goes out and when it does not.
LEMMA ClaimSavedParts ==
  ASSUME ClaimSaved
  PROVE  /\ phase = "flush" /\ chain # <<>> /\ Head(chain) = "flush"
         /\ Renamed /\ Settles
         /\ UNCHANGED <<dispatcherFrame, due, cooling, asked, submitted, wanted>>
         /\ \/ /\ Exists(todos[job.todo]) /\ Writable(job.sess)
               /\ pane' = [pane EXCEPT ![job.sess] = AfterPaste(@, job.todo)]
               /\ typed' = [typed EXCEPT ![job.todo] = @ + 1]
               /\ phase' = "submit"
               /\ job' = [job EXCEPT !.was = 0]
               /\ UNCHANGED <<todos, timer>>
            \/ PutsBack /\ Drops /\ UNCHANGED <<pane, typed>>
  BY DEF ClaimSaved

\* The dispatcher's steps.
LEMMA TypeDispatcher == ASSUME TypeOK, DispatcherSteps PROVE TypeOK'
<1> USE DEF TypeOK, StoreTypeOK, dispatcherFrame, fileVars, historyVars, storeVars, Phases
<1>1. ASSUME NEW w \in Worktree, Considers(w) PROVE TypeOK'
  <2>1. PICK t \in Todo, s \in LiveIn(w) :
          IsHead(t, w) /\ job' = [NoJob EXCEPT !.todo = t, !.sess = s, !.was = todos[t].queuedAt]
    BY <1>1 DEF Considers
  <2>2. job' \in Job /\ job'.todo \in Todo /\ job'.sess \in Session
    BY <2>1 DEF LiveIn, NoJob, Job, Row
  <2>3. due' \in SUBSET Worktree
    BY <1>1 DEF Considers, Due, Queued, Exists, Row
  <2>4. QED
    BY <1>1, <2>2, <2>3 DEF Considers, PaneTypeOK
<1>2. ASSUME NEW w \in Worktree, PassesOver(w) PROVE TypeOK'
  <2>1. due' \in SUBSET Worktree
    BY <1>2 DEF PassesOver, Due, Queued, Exists, Row
  <2>2. QED
    BY <1>2, <2>1 DEF PassesOver, PaneTypeOK
<1>3. ASSUME NEW w \in Worktree, CooldownEnds(w) PROVE TypeOK'
  BY <1>3 DEF CooldownEnds, PaneTypeOK
<1>4. ASSUME Inspects PROVE TypeOK'
  <2>1. job \in Job /\ pane[job.sess] \in Pane
    BY <1>4 DEF Inspects, PaneTypeOK
  <2>2. CASE pane[job.sess].live
    <3>1. job' \in Job /\ job'.todo = job.todo /\ job'.sess = job.sess
      BY <1>4, <2>1, <2>2 DEF Inspects, Job, Pane, Sees
    <3>2. QED
      BY <1>4, <2>2, <3>1 DEF Inspects, PaneTypeOK
  <2>3. CASE ~pane[job.sess].live
    BY <1>4, <2>3, TypeDrops DEF Inspects, PaneTypeOK
  <2>4. QED
    BY <2>2, <2>3
<1>5. ASSUME HandsBack PROVE TypeOK'
  <2>1. todos' \in [Todo -> Row] /\ timer' \in BOOLEAN
    BY <1>5 DEF HandsBack, Row
  <2>2. QED
    BY <1>5, <2>1, TypeDrops DEF HandsBack, PaneTypeOK
<1>6. ASSUME Waits PROVE TypeOK'
  BY <1>6, TypeDrops DEF Waits, PaneTypeOK
<1>7. ASSUME Claims PROVE TypeOK'
  <2>1. PlaceNow \in Nat /\ job.todo \in Todo /\ job.sess \in Session
    BY <1>7 DEF Claims, PlaceNow, Job, Row
  <2>2. job' \in Job /\ job'.todo \in Todo /\ job'.sess \in Session
    BY <1>7, <2>1 DEF Claims, NoJob, Job
  <2>3. todos' \in [Todo -> Row]
    BY <1>7, <2>1 DEF Claims, Row
  <2>4. timer' \in BOOLEAN /\ chain' \in Seq({"save", "flush"})
    BY <1>7, TypeChain DEF Claims, Flushed
  <2>5. QED
    BY <1>7, <2>2, <2>3, <2>4 DEF Claims, PaneTypeOK
<1>8. ASSUME ClaimNotSaved PROVE TypeOK'
  <2>1. left' \in [Outside -> Nat]
    BY <1>8 DEF ClaimNotSaved, Spends, Outside
  <2>2. QED
    BY <1>8, <2>1, TypeSend, TypeSettles, TypeDrops DEF ClaimNotSaved, PaneTypeOK
<1>9. ASSUME ClaimSaved PROVE TypeOK'
  <2>1. phase # "idle" /\ job.todo \in Todo /\ job.sess \in Session
    BY <1>9, ClaimSavedParts
  <2>2. CASE phase' = "submit" /\ job' = [job EXCEPT !.was = 0]
             /\ pane' = [pane EXCEPT ![job.sess] = AfterPaste(@, job.todo)]
             /\ typed' = [typed EXCEPT ![job.todo] = @ + 1] /\ UNCHANGED <<todos, timer>>
    <3>1. pane' \in [Session -> Pane]
      BY <2>1, <2>2, TypeAfterPaste, DispatchAssumption DEF PaneTypeOK
    <3>2. job' \in Job /\ job'.todo = job.todo /\ job'.sess = job.sess
      BY <2>2 DEF Job
    <3>3. typed' \in [Todo -> Nat]
      BY <2>1, <2>2
    <3>4. QED
      BY <1>9, <2>1, <2>2, <3>1, <3>2, <3>3, TypeSettles, ClaimSavedParts DEF PaneTypeOK
  <2>3. CASE PutsBack /\ Drops /\ UNCHANGED <<pane, typed>>
    BY <1>9, <2>1, <2>3, TypeSend, TypeSettles, TypeDrops, ClaimSavedParts DEF PaneTypeOK
  <2>4. QED
    BY <1>9, <2>2, <2>3, ClaimSavedParts
<1>10. ASSUME Submits PROVE TypeOK'
  <2>1. job.todo \in Todo /\ job.sess \in Session
    BY <1>10 DEF Submits
  <2>2. pane' \in [Session -> Pane]
    BY <1>10, <2>1, TypeAfterReturn DEF Submits, PaneTypeOK
  <2>3. /\ submitted' \in [Todo -> Nat]
        /\ wanted' \in [Todo -> BOOLEAN]
        /\ todos' \in [Todo -> Row]
        /\ timer' \in BOOLEAN
        /\ cooling' \in SUBSET Worktree
    BY <1>10, <2>1, Types0 DEF Submits, Patched
  <2>4. QED
    BY <1>10, <2>2, <2>3, TypeDrops DEF Submits, PaneTypeOK
<1>11. ASSUME Withholds PROVE TypeOK'
  BY <1>11, TypeSend, TypeDrops DEF Withholds, PaneTypeOK
<1>12. QED
  BY <1>1, <1>2, <1>3, <1>4, <1>5, <1>6, <1>7, <1>8, <1>9, <1>10, <1>11 DEF DispatcherSteps

\* The store's steps, and a restart.
LEMMA TypeStore == ASSUME TypeOK, StoreSteps PROVE TypeOK'
<1> USE DEF TypeOK, outsideStore, dispatchVars, historyVars
<1>1. CASE SaveTimerFires /\ UNCHANGED <<outsideStore, left>>
  BY <1>1, TypeChain DEF SaveTimerFires, StoreTypeOK, PaneTypeOK
<1>2. CASE WriteStarts /\ UNCHANGED <<outsideStore, left>>
  BY <1>2 DEF WriteStarts, StoreTypeOK, PaneTypeOK
<1>3. CASE SaveSettles /\ UNCHANGED <<outsideStore, left>>
  BY <1>3, TypeSettles DEF SaveSettles, StoreTypeOK, PaneTypeOK
<1>4. CASE SaveFails /\ Spends("fault") /\ UNCHANGED outsideStore
  <2>1. left' \in [Outside -> Nat]
    BY <1>4 DEF Spends, Outside
  <2>2. QED
    BY <1>4, <2>1, TypeSettles DEF SaveFails, StoreTypeOK, PaneTypeOK
<1>5. QED
  BY <1>1, <1>2, <1>3, <1>4 DEF StoreSteps

LEMMA TypeRestarts == ASSUME TypeOK, Restarts PROVE TypeOK'
<1> USE DEF TypeOK
<1>1. StoreTypeOK'
  <2>1. [t \in Todo |-> Recovered(file[t])] \in [Todo -> Row]
    BY TypeRecovered DEF StoreTypeOK
  <2>2. todos' \in [Todo -> Row]
    BY <2>1 DEF Restarts, Loaded
  <2>3. chain' \in Seq({"save", "flush"})
    BY DEF Restarts, Loaded
  <2>4. QED
    BY <2>2, <2>3 DEF Restarts, Loaded, StoreTypeOK
<1>2. PaneTypeOK'
  BY DEF Restarts, Reconciled, PaneTypeOK, Pane
<1>3. left' \in [Outside -> Nat]
  BY DEF Restarts, Spends, Outside
<1>4. wanted' \in [Todo -> BOOLEAN]
  BY DEF Restarts
<1>5. QED
  BY <1>1, <1>2, <1>3, <1>4, Types0 DEF Restarts, Phases

LEMMA TypeNext == ASSUME TypeOK, [Next]_vars PROVE TypeOK'
<1>1. CASE UNCHANGED vars
  BY <1>1 DEF vars, storeVars, dispatchVars, historyVars, TypeOK, StoreTypeOK, PaneTypeOK
<1>2. CASE Next
  BY <1>2, TypeHuman, TypeDispatcher, TypeStore, TypePane, TypeRestarts DEF Next
<1>3. QED
  BY <1>1, <1>2

\* Every variable keeps its type, whatever the constants are.
THEOREM TypeCorrect == Spec => []TypeOK
  BY TypeInit, TypeNext, PTL DEF Spec

-----------------------------------------------------------------------------
(* Rows and chains.                                                        *)

\* What makes a row unable to queue its todo again after a restart.
LEMMA SpentRow ==
  ASSUME NEW r \in Row
  PROVE  /\ ~Exists(r) => Spent(r)
         /\ r.claimed => Spent(r)
         /\ r.queuedAt = 0 => Spent(r)
         /\ ClaimedOrGone(r) => Spent(r)
         /\ Queued(r) /\ ~r.claimed => ~Spent(r)
  BY DEF Spent, Queued, Exists, Recovered, ClaimedOrGone, Row

\* Recovering a row twice is recovering it once.
LEMMA RecoveredRow ==
  ASSUME NEW r \in Row
  PROVE  /\ Spent(Recovered(r)) <=> Spent(r)
         /\ Exists(Recovered(r)) <=> Exists(r)
         /\ ~Recovered(r).claimed
  BY DEF Spent, Queued, Exists, Recovered, Row

Links == {"save", "flush"}

LEMMA FlushesAppend ==
  ASSUME NEW c \in Seq(Links)
  PROVE  /\ Flushes(Append(c, "save")) = Flushes(c)
         /\ Flushes(c) = {} => Flushes(Append(c, "flush")) = {Len(c) + 1}
  BY DEF Flushes, Links

LEMMA FlushesTail ==
  ASSUME NEW c \in Seq(Links), c # <<>>
  PROVE  /\ \A i \in Flushes(Tail(c)) : i + 1 \in Flushes(c)
         /\ Head(c) = "flush" => 1 \in Flushes(c)
  BY DEF Flushes, Links

\* A chain without a flush keeps none, and one flush stays one.
LEMMA FlushesPop ==
  ASSUME NEW c \in Seq(Links), c # <<>>, \A i, j \in Flushes(c) : i = j
  PROVE  /\ \A i, j \in Flushes(Tail(c)) : i = j
         /\ Flushes(c) = {} => Flushes(Tail(c)) = {}
         /\ Head(c) = "flush" => Flushes(Tail(c)) = {}
<1>1. \A i \in Flushes(Tail(c)) : i \in Nat \ {0} /\ i + 1 \in Flushes(c)
  BY FlushesTail DEF Flushes
<1>2. \A i, j \in Flushes(Tail(c)) : i = j
  BY <1>1
<1>3. Flushes(c) = {} => Flushes(Tail(c)) = {}
  BY <1>1
<1>4. Head(c) = "flush" => Flushes(Tail(c)) = {}
  BY <1>1, FlushesTail
<1>5. QED
  BY <1>2, <1>3, <1>4

-----------------------------------------------------------------------------
(* The invariant holds at the start.                                       *)

LEMMA SafeInit == Init => IInv
<1> SUFFICES ASSUME Init PROVE IInv
  OBVIOUS
<1>1. TypeOK
  BY TypeInit
<1>2. /\ \A t \in Todo : todos[t] = NoRow /\ file[t] = NoRow /\ snapshot[t] = NoRow
      /\ ~Exists(NoRow) /\ ~NoRow.claimed
  BY DEF Init, StoreInit, NoRow, Exists
<1>3. RowsOK /\ NoOrphanClaim
  BY <1>2 DEF RowsOK, NoOrphanClaim, Init
<1>4. ChainOK
  BY DEF ChainOK, Flushes, Init, StoreInit
<1>5. CreditOK
  <2>1. Spent(NoRow)
    BY <1>2, SpentRow, Types0
  <2>2. QED
    BY <1>2, <2>1 DEF CreditOK, AtMostOnce, Init
<1>6. SendOK
  BY DEF SendOK, Init
<1>7. QED
  BY <1>1, <1>3, <1>4, <1>5, <1>6 DEF IInv

-----------------------------------------------------------------------------
(* Steps of people, of the sessions and of the clock.                      *)

\* A step beside the send in progress: it may drop rows, unqueue them, or
\* queue what was just asked for, and it claims nothing.
LEMMA SafeBeside ==
  ASSUME IInv, TypeOK',
         UNCHANGED <<file, chain, writing, snapshot, phase, typed, submitted>>,
         job'.todo = job.todo,
         born \subseteq born',
         \A t \in Todo : asked[t] <= asked'[t],
         \A t \in Todo : Exists(todos'[t]) => t \in born',
         \A t \in Todo : todos'[t].claimed =>
           todos[t].claimed /\ Exists(todos'[t]) /\ todos'[t].queuedAt = 0,
         \A t \in Todo : Spent(todos[t]) => Spent(todos'[t]) \/ typed[t] < asked'[t],
         phase # "idle" /\ ClaimedOrGone(todos[job.todo]) => ClaimedOrGone(todos'[job.todo])
  PROVE  IInv'
<1> USE DEF IInv
<1>1. RowsOK'
  BY DEF RowsOK
<1>2. ChainOK'
  BY DEF ChainOK
<1>3. CreditOK'
  <2>1. \A t \in Todo : asked[t] \in Nat /\ asked'[t] \in Nat /\ typed[t] \in Nat
    BY DEF TypeOK
  <2>2. phase # "idle" => job.todo \in Todo
    BY DEF TypeOK
  <2>3. QED
    BY <2>1, <2>2 DEF CreditOK, AtMostOnce, Unspent
<1>4. SendOK'
  BY DEF SendOK
<1>5. NoOrphanClaim'
  BY DEF NoOrphanClaim
<1>6. QED
  BY <1>1, <1>2, <1>3, <1>4, <1>5

\* One row is replaced, by one that claims nothing and that a request not yet
\* spent allows.
LEMMA SafePatch ==
  ASSUME IInv, TypeOK', NEW t \in Todo, NEW row \in Row,
         todos' = [todos EXCEPT ![t] = row],
         UNCHANGED <<file, chain, writing, snapshot, phase, typed, submitted>>,
         job'.todo = job.todo,
         born \subseteq born',
         \A u \in Todo : asked[u] <= asked'[u],
         t \in born' \/ ~Exists(row),
         row.claimed => todos[t].claimed /\ Exists(row) /\ row.queuedAt = 0,
         Spent(todos[t]) => Spent(row) \/ typed[t] < asked'[t],
         phase # "idle" /\ job.todo = t /\ ClaimedOrGone(todos[t]) => ClaimedOrGone(row)
  PROVE  IInv'
<1>1. \A u \in Todo : todos'[u] = IF u = t THEN row ELSE todos[u]
  BY DEF IInv, TypeOK, StoreTypeOK
<1>2. \A u \in Todo : Exists(todos[u]) => u \in born
  BY DEF IInv, RowsOK
<1>3. \A u \in Todo : todos[u].claimed => Exists(todos[u]) /\ todos[u].queuedAt = 0
  BY DEF IInv, RowsOK
<1>4. phase # "idle" => job.todo \in Todo
  BY DEF IInv, TypeOK
<1>5. QED
  BY <1>1, <1>2, <1>3, <1>4, SafeBeside

LEMMA SafeHuman == ASSUME IInv, HumanSteps PROVE IInv'
<1> USE DEF fileVars, dispatchVars, historyVars, storeVars, Patched
<1>0. TypeOK /\ TypeOK'
  BY TypeHuman DEF IInv
<1>a. /\ \A t \in Todo : todos[t] \in Row /\ asked[t] \in Nat /\ typed[t] \in Nat
      /\ \A t \in Todo : Exists(todos[t]) => t \in born
      /\ \A t \in Todo : todos[t].claimed => Exists(todos[t]) /\ todos[t].queuedAt = 0
      /\ \A t \in Todo : typed[t] <= asked[t]
      /\ phase # "idle" => job.todo \in born
  BY <1>0 DEF IInv, TypeOK, StoreTypeOK, RowsOK, CreditOK, AtMostOnce
<1>b. ASSUME UNCHANGED <<todos, file, chain, writing, snapshot, phase, job, born, asked, typed, submitted>>
      PROVE  IInv'
  BY <1>0, <1>a, <1>b, SafeBeside
<1>e. asked' = asked => \A u \in Todo : asked[u] <= asked'[u]
  BY <1>a
<1>1. ASSUME NEW t \in Todo, NEW w \in Worktree, CreateTodo(t, w) PROVE IInv'
  <2>1. [NoRow EXCEPT !.wt = w] \in Row /\ ~NoRow.claimed /\ Spent([NoRow EXCEPT !.wt = w])
    <3>1. [NoRow EXCEPT !.wt = w] \in Row /\ ~NoRow.claimed /\ [NoRow EXCEPT !.wt = w].queuedAt = 0
      BY DEF NoRow, Row
    <3>2. QED
      BY <3>1, SpentRow
  <2>2. ~[NoRow EXCEPT !.wt = w].claimed
    BY DEF NoRow
  <2>3. QED
    <3> DEFINE row == [NoRow EXCEPT !.wt = w]
    <3>1. /\ todos' = [todos EXCEPT ![t] = row]
          /\ UNCHANGED <<file, chain, writing, snapshot, phase, job, asked, typed, submitted>>
          /\ born \subseteq born' /\ t \in born' /\ t \notin born
      BY <1>1 DEF CreateTodo
    <3> HIDE DEF row
    <3>2. QED
      BY <1>0, <1>a, <1>e, <2>1, <2>2, <3>1, SafePatch DEF row
<1>2. ASSUME NEW t \in Todo, NEW w \in Worktree, MoveStarts(t, w) PROVE IInv'
  BY <1>2, <1>b DEF MoveStarts
<1>3. ASSUME NEW t \in Todo, EditTodo(t) PROVE IInv'
  BY <1>0, <1>3, <1>a, <1>e, SafePatch DEF EditTodo, Editable
<1>4. ASSUME NEW t \in Todo, QueueTodo(t) PROVE IInv'
  <2>1. PICK place \in NextQueuedAt(todos[t].wt, now') :
          Patched(t, [todos[t] EXCEPT !.queuedAt = place, !.err = FALSE])
    BY <1>4 DEF QueueTodo
  <2> DEFINE row == [todos[t] EXCEPT !.queuedAt = place, !.err = FALSE]
  <2>2. todos' = [todos EXCEPT ![t] = row]
    BY <2>1
  <2>3. todos'[t] \in Row /\ todos'[t] = row
    BY <1>0, <2>2 DEF TypeOK, StoreTypeOK
  <2>4. row \in Row /\ ~row.claimed /\ (Exists(row) <=> Exists(todos[t]))
    BY <1>4, <1>a, <2>3 DEF QueueTodo, Editable, Row, Exists
  <2>5. \A u \in Todo : asked'[u] = IF u = t THEN asked[t] + 1 ELSE asked[u]
    BY <1>0, <1>4 DEF QueueTodo, TypeOK
  <2>6. typed[t] < asked'[t] /\ \A u \in Todo : asked[u] <= asked'[u]
    BY <1>a, <2>5
  <2>7. ~ClaimedOrGone(todos[t])
    BY <1>4 DEF QueueTodo, Editable, ClaimedOrGone
  <2>8. UNCHANGED <<file, chain, writing, snapshot, phase, job, typed, submitted, born>>
    BY <1>4 DEF QueueTodo
  <2> HIDE DEF row
  <2>9. QED
    BY <1>0, <1>a, <2>2, <2>4, <2>6, <2>7, <2>8, SafePatch
<1>5. ASSUME NEW t \in Todo, UnqueueTodo(t) PROVE IInv'
  <2> DEFINE row == [todos[t] EXCEPT !.queuedAt = 0]
  <2>1. row \in Row /\ ~row.claimed /\ row.queuedAt = 0 /\ (Exists(row) <=> Exists(todos[t]))
    BY <1>5, <1>a DEF UnqueueTodo, Editable, Row, Exists
  <2>2. todos' = [todos EXCEPT ![t] = row]
    BY <1>5 DEF UnqueueTodo
  <2>3. Spent(row)
    BY <2>1, SpentRow
  <2>4. ~ClaimedOrGone(todos[t])
    BY <1>5 DEF UnqueueTodo, Editable, ClaimedOrGone
  <2>5. UNCHANGED <<file, chain, writing, snapshot, phase, job, asked, typed, submitted, born>>
    BY <1>5 DEF UnqueueTodo
  <2> HIDE DEF row
  <2>6. QED
    BY <1>0, <1>a, <1>e, <2>1, <2>2, <2>3, <2>4, <2>5, SafePatch
<1>c. Spent(NoRow) /\ ~Exists(NoRow) /\ ~NoRow.claimed /\ NoRow \in Row /\ ClaimedOrGone(NoRow)
  BY Types0, SpentRow DEF NoRow, Exists, ClaimedOrGone
<1>d. ASSUME NEW gone, Keeps(gone) PROVE job'.todo = job.todo
  BY <1>0, <1>d DEF Keeps, TypeOK, Job
<1>6. ASSUME NEW t \in Todo, DeleteTodo(t) PROVE IInv'
  <2>1. job'.todo = job.todo /\ todos' = [todos EXCEPT ![t] = NoRow]
    BY <1>6, <1>d DEF DeleteTodo
  <2>2. UNCHANGED <<file, chain, writing, snapshot, phase, asked, typed, submitted, born>>
    BY <1>6 DEF DeleteTodo
  <2>3. QED
    BY <1>0, <1>a, <1>c, <1>e, <2>1, <2>2, SafePatch
<1>7. ASSUME MoveLands PROVE IInv'
  <2>1. UNCHANGED <<file, chain, writing, snapshot, phase, job, asked, typed, submitted, born>>
    BY <1>7, MoveLandsParts, Zenon
  <2>2. move \in Move /\ move.todo \in Todo /\ move.to \in Worktree
    BY <1>0, <1>7, MoveLandsParts DEF TypeOK, Move
  <2>3. CASE ~Exists(todos[move.todo])
    <3>1. todos' = todos
      BY <1>7, <2>3, MoveLandsParts
    <3>2. QED
      BY <1>b, <2>1, <3>1
  <2>4. CASE Exists(todos[move.todo])
    <3>1. PICK place \in IF Queued(todos[move.todo]) THEN NextQueuedAt(move.to, now') ELSE {0} :
            Patched(move.todo, [todos[move.todo] EXCEPT !.wt = move.to, !.queuedAt = place])
      BY <1>7, <2>4, MoveLandsParts
    <3> DEFINE t == move.todo
               row == [todos[t] EXCEPT !.wt = move.to, !.queuedAt = place]
    <3>2. todos' = [todos EXCEPT ![t] = row]
      BY <3>1
    <3>3. row \in Row
      <4>1. todos'[t] \in Row /\ todos'[t] = row
        BY <1>0, <2>2, <3>2 DEF TypeOK, StoreTypeOK
      <4>2. QED
        BY <4>1
    <3>4. Exists(row) /\ row.claimed = todos[t].claimed /\ row.queuedAt = place
      BY <1>a, <2>2, StoreAssumption DEF Exists, Row
    <3>5. ~Queued(todos[t]) => place = 0
      BY <3>1
    <3>6. row.claimed => row.queuedAt = 0
      BY <1>a, <2>2, <3>4, <3>5 DEF Queued
    <3>7. Spent(todos[t]) => Spent(row)
      <4>1. CASE Queued(todos[t]) /\ ~todos[t].claimed
        BY <4>1, <1>a, <2>2, SpentRow
      <4>2. CASE ~Queued(todos[t])
        BY <4>2, <3>3, <3>4, <3>5, SpentRow
      <4>3. CASE todos[t].claimed
        BY <4>3, <3>3, <3>4, SpentRow
      <4>4. QED
        BY <4>1, <4>2, <4>3
    <3>8. ClaimedOrGone(todos[t]) => ClaimedOrGone(row)
      BY <2>4, <3>4 DEF ClaimedOrGone
    <3> HIDE DEF row
    <3>9. QED
      BY <1>0, <1>a, <1>e, <2>1, <2>2, <2>4, <3>2, <3>3, <3>4, <3>6, <3>7, <3>8, SafePatch
  <2>5. QED
    BY <2>3, <2>4
<1>8. ASSUME MoveRefused PROVE IInv'
  BY <1>8, <1>b DEF MoveRefused
<1>9. ASSUME NEW w \in Worktree, RemoveTodosFor(w) PROVE IInv'
  <2>1. job'.todo = job.todo
    BY <1>9, <1>d DEF RemoveTodosFor
  <2>2. \A t \in Todo : todos'[t] = NoRow \/ todos'[t] = todos[t]
    BY <1>9 DEF RemoveTodosFor, RemovedFor
  <2>3. UNCHANGED <<file, chain, writing, snapshot, phase, asked, typed, submitted, born>>
    BY <1>9 DEF RemoveTodosFor
  <2>4. phase # "idle" => job.todo \in Todo
    BY <1>0 DEF TypeOK
  <2>5. QED
    BY <1>0, <1>a, <1>c, <2>1, <2>2, <2>3, <2>4, SafeBeside
<1>10. ASSUME NEW s \in Session, HumanTypes(s) PROVE IInv'
  BY <1>10, <1>b DEF HumanTypes
<1>11. QED
  BY <1>1, <1>2, <1>3, <1>4, <1>5, <1>6, <1>7, <1>8, <1>9, <1>10 DEF HumanSteps

LEMMA SafePane == ASSUME IInv, NEW s \in Session, PaneChanges(s) PROVE IInv'
<1>1. TypeOK'
  BY TypePane DEF IInv
<1>2. UNCHANGED <<todos, file, chain, writing, snapshot, phase, job, born, asked, typed, submitted>>
  BY DEF PaneChanges, storeVars, dispatchVars, historyVars
<1>3. /\ \A t \in Todo : Exists(todos[t]) => t \in born
      /\ \A t \in Todo : todos[t].claimed => Exists(todos[t]) /\ todos[t].queuedAt = 0
      /\ \A t \in Todo : asked[t] \in Nat
  BY DEF IInv, RowsOK, TypeOK
<1>4. QED
  BY <1>1, <1>2, <1>3, SafeBeside

-----------------------------------------------------------------------------
(* Steps of the dispatcher.                                                *)

\* What the invariant says in a form the steps below use.
LEMMA SafeFacts ==
  ASSUME IInv
  PROVE  /\ \A t \in Todo : todos[t] \in Row /\ file[t] \in Row /\ snapshot[t] \in Row
         /\ \A t \in Todo : asked[t] \in Nat /\ typed[t] \in Nat /\ submitted[t] \in Nat
         /\ \A t \in Todo : Exists(todos[t]) => t \in born
         /\ \A t \in Todo : todos[t].claimed => Exists(todos[t]) /\ todos[t].queuedAt = 0
         /\ \A t \in Todo : submitted[t] <= typed[t] /\ typed[t] <= asked[t]
         /\ chain \in Seq(Links)
         /\ phase # "idle" => job.todo \in Todo /\ job.sess \in Session /\ job.todo \in born
  BY DEF IInv, TypeOK, StoreTypeOK, RowsOK, CreditOK, AtMostOnce, Links

\* The send, or the considering of a todo, is over, and no row is claimed.
LEMMA SafeEnds ==
  ASSUME IInv, TypeOK', phase' = "idle",
         UNCHANGED <<asked, typed, born>>,
         \A t \in Todo : submitted'[t] <= typed[t],
         \A t \in Todo : ~todos'[t].claimed,
         \A t \in Todo : Exists(todos'[t]) => t \in born,
         \A t \in Todo : Exists(file'[t]) \/ Exists(snapshot'[t]) => t \in born,
         \A t \in Todo : Unspent(t) \/ (Spent(todos'[t]) /\ Spent(file'[t]) /\ Spent(snapshot'[t])),
         writing' => chain' # <<>>,
         Flushes(chain') = {}
  PROVE  IInv'
<1>1. RowsOK'
  BY DEF RowsOK
<1>2. ChainOK'
  BY DEF ChainOK
<1>3. CreditOK'
  BY SafeFacts DEF CreditOK, AtMostOnce, Unspent
<1>4. SendOK'
  BY DEF SendOK
<1>5. NoOrphanClaim'
  BY DEF NoOrphanClaim
<1>6. QED
  BY <1>1, <1>2, <1>3, <1>4, <1>5 DEF IInv

\* Before the claim nothing is claimed and no flush is due.
LEMMA SafeBefore ==
  ASSUME IInv, phase \in {"idle", "inspect", "judge"}
  PROVE  /\ \A t \in Todo : ~todos[t].claimed
         /\ Flushes(chain) = {}
         /\ writing => chain # <<>>
         /\ \A t \in Todo : Exists(file[t]) \/ Exists(snapshot[t]) => t \in born
         /\ \A t \in Todo : Unspent(t) \/ (Spent(todos[t]) /\ Spent(file[t]) /\ Spent(snapshot[t]))
  BY DEF IInv, NoOrphanClaim, ChainOK, RowsOK, CreditOK

\* A step before the claim that ends the considering of a todo: rows may lose
\* their places.
LEMMA SafePasses ==
  ASSUME IInv, TypeOK', phase \in {"idle", "inspect", "judge"}, phase' = "idle",
         UNCHANGED <<file, snapshot, chain, writing, asked, typed, submitted, born>>,
         \A t \in Todo : todos'[t] = todos[t]
           \/ (~todos'[t].claimed /\ todos'[t].queuedAt = 0 /\ todos'[t].wt = todos[t].wt)
  PROVE  IInv'
<1>1. \A t \in Todo : todos'[t] \in Row
  BY DEF TypeOK, StoreTypeOK
<1>2. \A t \in Todo : ~todos'[t].claimed /\ (Exists(todos'[t]) => t \in born)
  BY SafeFacts, SafeBefore DEF Exists
<1>3. \A t \in Todo : Spent(todos[t]) => Spent(todos'[t])
  BY <1>1, SpentRow
<1>4. QED
  BY <1>2, <1>3, SafeFacts, SafeBefore, SafeEnds

\* A step before the claim that goes on with its todo.
LEMMA SafeGoesOn ==
  ASSUME IInv, TypeOK', phase \in {"idle", "inspect", "judge"}, phase' \in {"inspect", "judge"},
         UNCHANGED <<todos, file, snapshot, chain, writing, asked, typed, submitted, born>>,
         job'.todo \in born, Unspent(job'.todo)
  PROVE  IInv'
<1>1. RowsOK'
  BY DEF IInv, RowsOK
<1>2. ChainOK'
  BY SafeBefore DEF IInv, ChainOK
<1>3. CreditOK'
  BY DEF IInv, CreditOK, AtMostOnce, Unspent
<1>4. SendOK'
  BY DEF SendOK
<1>5. NoOrphanClaim'
  BY SafeBefore DEF NoOrphanClaim
<1>6. QED
  BY <1>1, <1>2, <1>3, <1>4, <1>5 DEF IInv

LEMMA SafeConsiders ==
  ASSUME IInv, TypeOK', NEW w \in Worktree, Considers(w) PROVE IInv'
<1>1. PICK t \in Todo, s \in LiveIn(w) :
        IsHead(t, w) /\ job' = [NoJob EXCEPT !.todo = t, !.sess = s, !.was = todos[t].queuedAt]
  BY DEF Considers
<1>2. job'.todo = t
  BY <1>1 DEF NoJob
<1>3. Queued(todos[t]) /\ ~todos[t].claimed /\ Exists(todos[t])
  BY <1>1 DEF IsHead, Waiting, InQueue, Queued
<1>4. t \in born /\ ~Spent(todos[t])
  BY <1>3, SafeFacts, SpentRow
<1>5. Unspent(t)
  BY <1>4 DEF IInv, CreditOK
<1>6. QED
  BY <1>2, <1>4, <1>5, SafeGoesOn DEF Considers, storeVars, dispatcherFrame, historyVars

LEMMA SafeJudges ==
  ASSUME IInv, TypeOK', Inspects \/ HandsBack \/ Waits PROVE IInv'
<1> USE DEF dispatcherFrame, historyVars, storeVars, fileVars
<1>0. phase \in {"inspect", "judge"}
  BY DEF Inspects, HandsBack, Waits
<1>1. CASE Inspects
  <2>1. CASE pane[job.sess].live
    <3>1. phase' = "judge" /\ job' = [job EXCEPT !.input = pane[job.sess].input, !.seen = Sees(pane[job.sess])]
      BY <1>1, <2>1 DEF Inspects
    <3>2. job'.todo = job.todo
      BY <3>1 DEF IInv, TypeOK, Job
    <3>3. job.todo \in born /\ Unspent(job.todo)
      BY <1>0 DEF IInv, RowsOK, CreditOK
    <3>4. QED
      BY <1>0, <1>1, <3>1, <3>2, <3>3, SafeGoesOn DEF Inspects
  <2>2. CASE ~pane[job.sess].live
    BY <1>0, <1>1, <2>2, SafePasses DEF Inspects, Drops
  <2>3. QED
    BY <2>1, <2>2
<1>2. CASE HandsBack
  <2>1. \A t \in Todo : todos'[t] = todos[t]
          \/ todos'[t] = [todos[t] EXCEPT !.queuedAt = 0, !.err = TRUE]
    BY <1>2 DEF HandsBack
  <2>2. \A t \in Todo : todos'[t] = todos[t]
          \/ (~todos'[t].claimed /\ todos'[t].queuedAt = 0 /\ todos'[t].wt = todos[t].wt)
    BY <1>0, <2>1, SafeFacts, SafeBefore DEF Row
  <2>3. QED
    BY <1>0, <1>2, <2>2, SafePasses DEF HandsBack, Drops
<1>3. CASE Waits
  BY <1>0, <1>3, SafePasses DEF Waits, Drops
<1>4. QED
  BY <1>1, <1>2, <1>3

\* The claim: the one flush link is now in the chain, and the row has given up
\* its place before anything of it is written.
LEMMA SafeClaims == ASSUME IInv, TypeOK', Claims PROVE IInv'
<1> DEFINE d == job.todo
<1>1. /\ phase = "judge" /\ phase' = "flush"
      /\ job' = [NoJob EXCEPT !.todo = d, !.sess = job.sess, !.was = PlaceNow]
      /\ todos' = IF Exists(todos[d])
                  THEN [todos EXCEPT ![d].claimed = TRUE, ![d].queuedAt = 0] ELSE todos
      /\ chain' = Append(chain, "flush")
      /\ UNCHANGED <<file, writing, snapshot, asked, typed, submitted, born>>
  BY DEF Claims, Flushed, dispatcherFrame, historyVars
<1>2. job'.todo = d /\ d \in Todo /\ d \in born /\ Unspent(d)
  BY <1>1, SafeFacts DEF NoJob, IInv, CreditOK
<1>3. \A t \in Todo : t # d => todos'[t] = todos[t]
  BY <1>1, <1>2, SafeFacts DEF IInv, TypeOK, StoreTypeOK
<1>4. \/ ~Exists(todos[d]) /\ todos' = todos
      \/ Exists(todos[d]) /\ todos'[d].claimed /\ todos'[d].queuedAt = 0 /\ todos'[d].wt = todos[d].wt
  BY <1>1, <1>2, SafeFacts DEF IInv, TypeOK, StoreTypeOK, Row
<1>5. \A t \in Todo : ~todos[t].claimed
  BY <1>1, SafeBefore
<1>6. ClaimedOrGone(todos'[d]) /\ Spent(todos'[d])
  <2>1. todos'[d] \in Row
    BY <1>2 DEF TypeOK, StoreTypeOK
  <2>2. ClaimedOrGone(todos'[d])
    BY <1>4 DEF ClaimedOrGone
  <2>3. QED
    BY <2>1, <2>2, SpentRow
<1>7. Flushes(chain') = {Len(chain) + 1} /\ chain' # <<>>
  BY <1>1, SafeFacts, SafeBefore, FlushesAppend
<1>8. writing => Head(chain') # "flush"
  <2>1. writing => chain # <<>>
    BY <1>1, SafeBefore
  <2>2. chain # <<>> => Head(chain') = Head(chain) /\ Head(chain) # "flush"
    <3>1. chain # <<>> => Head(chain) # "flush"
      BY <1>1, SafeFacts, SafeBefore, FlushesTail
    <3>2. chain # <<>> => Head(chain') = Head(chain)
      BY <1>1, SafeFacts DEF Links
    <3>3. QED
      BY <3>1, <3>2
  <2>3. QED
    BY <2>1, <2>2
<1> HIDE DEF d
<1>9. RowsOK'
  <2>1. \A t \in Todo : Exists(todos'[t]) => Exists(todos[t])
    BY <1>3, <1>4 DEF Exists
  <2>2. \A t \in Todo : todos'[t].claimed => Exists(todos'[t]) /\ todos'[t].queuedAt = 0
    BY <1>3, <1>4, <1>5 DEF Exists
  <2>3. UNCHANGED <<file, snapshot, born>>
    BY <1>1
  <2>4. \A t \in Todo \ born : ~Exists(todos[t]) /\ ~Exists(file[t]) /\ ~Exists(snapshot[t])
    BY DEF IInv, RowsOK
  <2>5. QED
    BY <1>2, <2>1, <2>2, <2>3, <2>4 DEF RowsOK
<1>10. ChainOK'
  BY <1>1, <1>7 DEF ChainOK
<1>11. CreditOK'
  <2>1. \A t \in Todo : Unspent(t) \/ (Spent(todos'[t]) /\ Spent(file[t]) /\ Spent(snapshot[t]))
    BY <1>1, <1>2, <1>3, SafeBefore
  <2>2. QED
    BY <1>1, <1>2, <2>1 DEF IInv, CreditOK, AtMostOnce, Unspent
<1>12. SendOK'
  BY <1>1, <1>2, <1>6, <1>8 DEF SendOK
<1>13. NoOrphanClaim'
  BY <1>1, <1>2, <1>3, <1>5 DEF NoOrphanClaim
<1>14. QED
  BY <1>9, <1>10, <1>11, <1>12, <1>13 DEF IInv

\* Putting a todo back, or giving it up, leaves no row claimed.
LEMMA SafeSends ==
  ASSUME IInv, TypeOK', phase \in {"flush", "submit"}, PutsBack \/ GivesUp
  PROVE  /\ \A t \in Todo : ~todos'[t].claimed
         /\ \A t \in Todo : Exists(todos'[t]) => t \in born
         /\ \A t \in Todo : t # job.todo => todos'[t] = todos[t]
         /\ GivesUp => Spent(todos'[job.todo])
<1> DEFINE d == job.todo
           back == [todos[d] EXCEPT !.claimed = FALSE, !.queuedAt = job.was]
           up == [todos[d] EXCEPT !.claimed = FALSE, !.err = TRUE]
<1>1. d \in Todo /\ todos[d] \in Row
  BY SafeFacts
<1>2. \A t \in Todo : todos[t].claimed => t = d
  BY DEF IInv, NoOrphanClaim
<1>3. ~back.claimed /\ ~up.claimed /\ back.wt = todos[d].wt /\ up.wt = todos[d].wt
        /\ up.queuedAt = todos[d].queuedAt
  BY <1>1 DEF Row
<1>4. todos \in [Todo -> Row]
  BY DEF IInv, TypeOK, StoreTypeOK
<1>5. /\ ~Exists(todos[d]) => todos' = todos
      /\ Exists(todos[d]) /\ PutsBack => todos' = [todos EXCEPT ![d] = back]
      /\ Exists(todos[d]) /\ GivesUp => todos' = [todos EXCEPT ![d] = up]
  BY DEF PutsBack, GivesUp, SendPatches, Patched
<1>6. ~Exists(todos[d]) => ~todos[d].claimed
  BY <1>1, SafeFacts
<1>7. Exists(todos[d]) => d \in born
  BY <1>1, SafeFacts
<1> HIDE DEF d, back, up
<1>8. \A t \in Todo : ~todos'[t].claimed
  BY <1>1, <1>2, <1>3, <1>4, <1>5, <1>6
<1>9. \A t \in Todo : t # d => todos'[t] = todos[t]
  BY <1>1, <1>4, <1>5
<1>10. \A t \in Todo : Exists(todos'[t]) => t \in born
  BY <1>1, <1>4, <1>5, <1>7, <1>9, SafeFacts
<1>11. GivesUp => Spent(todos'[d])
  <2>1. todos'[d] \in Row
    BY <1>1 DEF TypeOK, StoreTypeOK
  <2>2. ClaimedOrGone(todos[d])
    BY DEF IInv, SendOK, d
  <2>3. GivesUp => ~Exists(todos'[d]) \/ todos'[d].queuedAt = 0
    <3>1. todos[d].claimed => todos[d].queuedAt = 0
      BY <1>1, SafeFacts
    <3>2. ~Exists(todos[d]) => todos'[d] = todos[d]
      BY <1>5
    <3>3. Exists(todos[d]) /\ GivesUp => todos'[d].queuedAt = 0
      BY <1>1, <1>3, <1>4, <1>5, <2>2, <3>1 DEF ClaimedOrGone
    <3>4. QED
      BY <3>2, <3>3
  <2>4. QED
    BY <2>1, <2>3, SpentRow
<1>12. QED
  BY <1>8, <1>9, <1>10, <1>11 DEF d

\* What a settled link leaves in the file was there or was being written.
LEMMA SettledFile ==
  ASSUME IInv, chain # <<>>, Settles, Renamed \/ WriteFailed \/ LinkSkipped
  PROVE  /\ file' = file \/ file' = snapshot
         /\ Renamed => file' = snapshot /\ writing
         /\ snapshot' = file' /\ ~writing' /\ chain' = Tail(chain)
         /\ \A t \in Todo : Exists(file'[t]) \/ Exists(snapshot'[t]) => t \in born
         /\ \A t \in Todo : Spent(file[t]) /\ Spent(snapshot[t]) => Spent(file'[t]) /\ Spent(snapshot'[t])
<1>1. /\ file' = file \/ file' = snapshot
      /\ Renamed => file' = snapshot /\ writing
      /\ snapshot' = file' /\ ~writing' /\ chain' = Tail(chain)
  BY DEF Settles, Renamed, WriteFailed, LinkSkipped
<1>2. \A t \in Todo : Exists(file[t]) \/ Exists(snapshot[t]) => t \in born
  BY DEF IInv, RowsOK
<1>3. QED
  BY <1>1, <1>2

\* Popping a link: a flush only when the dispatcher is done with it.
LEMMA PoppedChain ==
  ASSUME IInv, chain # <<>>
  PROVE  /\ \A i, j \in Flushes(Tail(chain)) : i = j
         /\ phase # "flush" => Flushes(Tail(chain)) = {}
         /\ Head(chain) = "flush" => Flushes(Tail(chain)) = {}
<1>1. \A i, j \in Flushes(chain) : i = j
  BY DEF IInv, ChainOK
<1>2. phase # "flush" => Flushes(chain) = {}
  BY DEF IInv, ChainOK
<1>3. QED
  BY <1>1, <1>2, SafeFacts, FlushesPop

LEMMA SafeClaimNotSaved == ASSUME IInv, TypeOK', ClaimNotSaved PROVE IInv'
<1>1. /\ phase = "flush" /\ chain # <<>> /\ Head(chain) = "flush"
      /\ Settles /\ PutsBack /\ phase' = "idle"
      /\ WriteFailed \/ LinkSkipped
      /\ UNCHANGED <<asked, typed, submitted, born>>
  BY DEF ClaimNotSaved, Drops, historyVars
<1>2. Flushes(chain') = {}
  BY <1>1, SettledFile, PoppedChain
<1>3. \A t \in Todo : Unspent(t) \/ (Spent(todos'[t]) /\ Spent(file'[t]) /\ Spent(snapshot'[t]))
  <2>1. Unspent(job.todo)
    BY <1>1 DEF IInv, CreditOK
  <2>2. \A t \in Todo : Unspent(t) \/ (Spent(todos[t]) /\ Spent(file[t]) /\ Spent(snapshot[t]))
    BY DEF IInv, CreditOK
  <2>3. QED
    BY <1>1, <2>1, <2>2, SafeSends, SettledFile
<1>4. QED
  BY <1>1, <1>2, <1>3, SafeFacts, SafeSends, SettledFile, SafeEnds

LEMMA SafeClaimSaved == ASSUME IInv, TypeOK', ClaimSaved PROVE IInv'
<1> DEFINE d == job.todo
<1>1. /\ phase = "flush" /\ chain # <<>> /\ Head(chain) = "flush"
      /\ Settles /\ Renamed
      /\ UNCHANGED <<asked, submitted, born>>
  BY ClaimSavedParts DEF dispatcherFrame
<1>2. Flushes(chain') = {}
  BY <1>1, SettledFile, PoppedChain
<1>3. d \in Todo /\ d \in born /\ Unspent(d) /\ ClaimedOrGone(todos[d])
  BY <1>1, SafeFacts DEF IInv, CreditOK, SendOK
<1>4. Spent(snapshot[d]) /\ file' = snapshot /\ snapshot' = snapshot /\ ~writing'
  BY <1>1, SettledFile DEF IInv, SendOK
<1>5. \A t \in Todo : Unspent(t) \/ (Spent(todos[t]) /\ Spent(file'[t]) /\ Spent(snapshot'[t]))
  BY <1>1, SettledFile DEF IInv, CreditOK
<1>6. CASE PutsBack /\ Drops /\ UNCHANGED <<pane, typed>>
  <2>1. \A t \in Todo : Unspent(t) \/ (Spent(todos'[t]) /\ Spent(file'[t]) /\ Spent(snapshot'[t]))
    BY <1>1, <1>3, <1>5, <1>6, SafeSends
  <2>2. phase' = "idle" /\ typed' = typed
    BY <1>6 DEF Drops
  <2>3. QED
    BY <1>1, <1>2, <1>6, <2>1, <2>2, SafeFacts, SafeSends, SettledFile, SafeEnds
<1>7. CASE /\ typed' = [typed EXCEPT ![d] = @ + 1]
           /\ phase' = "submit" /\ job' = [job EXCEPT !.was = 0] /\ todos' = todos
  <2>1. /\ \A t \in Todo : t # d => typed'[t] = typed[t]
        /\ typed'[d] = typed[d] + 1
    BY <1>3, <1>7 DEF IInv, TypeOK
  <2>2. job'.todo = d
    BY <1>7 DEF IInv, TypeOK, Job
  <2>3. Spent(todos[d])
    BY <1>3, SafeFacts, SpentRow
  <2> HIDE DEF d
  <2>4. RowsOK'
    BY <1>1, <1>3, <1>7, <2>2, SettledFile DEF IInv, RowsOK
  <2>5. ChainOK'
    BY <1>2, <1>4 DEF ChainOK
  <2>6. CreditOK'
    <3>1. AtMostOnce'
      BY <1>1, <1>3, <2>1, SafeFacts DEF AtMostOnce, Unspent
    <3>2. \A t \in Todo : Unspent(t)' \/ (Spent(todos[t]) /\ Spent(file'[t]) /\ Spent(snapshot'[t]))
      BY <1>1, <1>4, <1>5, <2>1, <2>3 DEF Unspent
    <3>3. QED
      BY <1>7, <3>1, <3>2 DEF CreditOK
  <2>7. SendOK'
    <3>1. submitted'[d] < typed'[d]
      BY <1>1, <1>3, <2>1, SafeFacts
    <3>2. QED
      BY <1>3, <1>4, <1>7, <2>2, <3>1 DEF SendOK
  <2>8. NoOrphanClaim'
    BY <1>7, <2>2 DEF IInv, NoOrphanClaim, d
  <2>9. QED
    BY <2>4, <2>5, <2>6, <2>7, <2>8 DEF IInv
<1>8. QED
  BY <1>6, <1>7, ClaimSavedParts

LEMMA SafeSettles == ASSUME IInv, TypeOK', Submits \/ Withholds PROVE IInv'
<1> USE DEF fileVars, dispatcherFrame, historyVars
<1>1. /\ phase = "submit" /\ phase' = "idle"
      /\ UNCHANGED <<file, chain, writing, snapshot, asked, typed, born>>
  BY DEF Submits, Withholds, Drops
<1>2. Flushes(chain) = {} /\ (writing => chain # <<>>)
  BY <1>1 DEF IInv, ChainOK
<1>3. \A t \in Todo : Exists(file[t]) \/ Exists(snapshot[t]) => t \in born
  BY DEF IInv, RowsOK
<1>4. \A t \in Todo : Unspent(t) \/ (Spent(todos[t]) /\ Spent(file[t]) /\ Spent(snapshot[t]))
  BY DEF IInv, CreditOK
<1>5. CASE Withholds
  <2>1. GivesUp /\ submitted' = submitted
    BY <1>5 DEF Withholds
  <2>2. \A t \in Todo : Unspent(t) \/ (Spent(todos'[t]) /\ Spent(file'[t]) /\ Spent(snapshot'[t]))
    BY <1>1, <1>4, <2>1, SafeSends
  <2>3. QED
    BY <1>1, <1>2, <1>3, <2>1, <2>2, SafeFacts, SafeSends, SafeEnds
<1>6. CASE Submits
  <2> DEFINE d == job.todo
  <2>1. /\ todos' = [todos EXCEPT ![d] = NoRow]
        /\ submitted' = [submitted EXCEPT ![d] = @ + 1]
    BY <1>6 DEF Submits, Patched
  <2>2. d \in Todo /\ submitted[d] < typed[d]
    BY <1>1, SafeFacts DEF IInv, SendOK
  <2>3. /\ todos'[d] = NoRow /\ submitted'[d] = submitted[d] + 1
        /\ \A t \in Todo : t # d => todos'[t] = todos[t] /\ submitted'[t] = submitted[t]
    BY <2>1, <2>2 DEF IInv, TypeOK, StoreTypeOK
  <2>4. ~NoRow.claimed /\ ~Exists(NoRow) /\ Spent(NoRow)
    BY Types0, SpentRow DEF NoRow, Exists
  <2>5. \A t \in Todo : todos[t].claimed => t = d
    BY DEF IInv, NoOrphanClaim
  <2> HIDE DEF d
  <2>6. \A t \in Todo : submitted'[t] <= typed[t]
    BY <2>2, <2>3, SafeFacts
  <2>7. \A t \in Todo : ~todos'[t].claimed /\ (Exists(todos'[t]) => t \in born)
    BY <2>3, <2>4, <2>5, SafeFacts
  <2>8. \A t \in Todo : Spent(todos[t]) => Spent(todos'[t])
    BY <2>3, <2>4
  <2>9. QED
    BY <1>1, <1>2, <1>3, <1>4, <2>6, <2>7, <2>8, SafeEnds
<1>7. QED
  BY <1>5, <1>6

LEMMA SafeDispatcher == ASSUME IInv, DispatcherSteps PROVE IInv'
<1>0. TypeOK'
  BY TypeDispatcher DEF IInv
<1>1. ASSUME NEW w \in Worktree, Considers(w) PROVE IInv'
  BY <1>0, <1>1, SafeConsiders
<1>2. ASSUME NEW w \in Worktree, PassesOver(w) PROVE IInv'
  BY <1>0, <1>2, SafePasses DEF PassesOver, storeVars, dispatcherFrame, historyVars
<1>3. ASSUME NEW w \in Worktree, CooldownEnds(w) PROVE IInv'
  <2>1. /\ \A t \in Todo : Exists(todos[t]) => t \in born
        /\ \A t \in Todo : todos[t].claimed => Exists(todos[t]) /\ todos[t].queuedAt = 0
        /\ \A t \in Todo : asked[t] <= asked[t]
    BY SafeFacts
  <2>2. UNCHANGED <<todos, file, chain, writing, snapshot, phase, job, born, asked, typed, submitted>>
    BY <1>3 DEF CooldownEnds, storeVars, dispatcherFrame, historyVars
  <2>3. QED
    BY <1>0, <2>1, <2>2, SafeBeside
<1>4. QED
  BY <1>0, <1>1, <1>2, <1>3, SafeJudges, SafeClaims, SafeClaimNotSaved, SafeClaimSaved, SafeSettles
  DEF DispatcherSteps

-----------------------------------------------------------------------------
(* Steps of the store, and a restart.                                      *)

\* A link that is no flush settles, or one is appended, or a write starts: the
\* rows in memory and the dispatcher stay as they are.
LEMMA SafeStore == ASSUME IInv, StoreSteps PROVE IInv'
<1>0. TypeOK'
  BY TypeStore DEF IInv
<1>1. UNCHANGED <<todos, phase, job, born, asked, typed, submitted>>
  BY DEF StoreSteps, SaveTimerFires, WriteStarts, SaveSettles, SaveFails, outsideStore,
         dispatchVars, historyVars
<1>2. /\ \A t \in Todo : Unspent(t) \/ (Spent(todos[t]) /\ Spent(file[t]) /\ Spent(snapshot[t]))
      /\ \A t \in Todo : Exists(todos[t]) \/ Exists(file[t]) \/ Exists(snapshot[t]) => t \in born
  BY DEF IInv, CreditOK, RowsOK
<1>3. ASSUME /\ \A t \in Todo : Exists(file'[t]) \/ Exists(snapshot'[t]) => t \in born
             /\ \A t \in Todo : Unspent(t) \/ (Spent(file'[t]) /\ Spent(snapshot'[t]))
             /\ phase = "submit" => Spent(file'[job.todo]) /\ Spent(snapshot'[job.todo])
             /\ phase = "flush" /\ writing' /\ Head(chain') = "flush" => Spent(snapshot'[job.todo])
             /\ ChainOK'
      PROVE  IInv'
  <2>1. RowsOK'
    BY <1>1, <1>2, <1>3 DEF IInv, RowsOK
  <2>2. CreditOK'
    BY <1>1, <1>2, <1>3 DEF IInv, CreditOK, AtMostOnce, Unspent
  <2>3. SendOK'
    BY <1>1, <1>3 DEF IInv, SendOK
  <2>4. NoOrphanClaim'
    BY <1>1 DEF IInv, NoOrphanClaim
  <2>5. QED
    BY <1>0, <1>3, <2>1, <2>2, <2>3, <2>4 DEF IInv
<1>4. CASE SaveTimerFires
  <2>1. chain' = Append(chain, "save") /\ UNCHANGED <<file, broken, writing, snapshot>>
    BY <1>4 DEF SaveTimerFires
  <2>2. chain \in Seq(Links) /\ Flushes(chain') = Flushes(chain) /\ chain' # <<>>
    BY <2>1, SafeFacts, FlushesAppend
  <2>3. ChainOK'
    BY <1>1, <2>1, <2>2 DEF IInv, ChainOK
  <2>4. writing => Head(chain') = Head(chain)
    BY <2>1, <2>2 DEF IInv, ChainOK, Links
  <2>5. QED
    BY <1>2, <1>3, <2>1, <2>3, <2>4 DEF IInv, SendOK
<1>5. CASE WriteStarts
  <2>1. writing' /\ snapshot' = todos /\ chain # <<>> /\ UNCHANGED <<file, chain>>
    BY <1>5 DEF WriteStarts
  <2>2. phase \in {"flush", "submit"} => Spent(todos[job.todo])
    BY SafeFacts, SpentRow DEF IInv, SendOK
  <2>3. ChainOK'
    BY <1>1, <2>1 DEF IInv, ChainOK
  <2>4. QED
    BY <1>2, <1>3, <2>1, <2>2, <2>3 DEF IInv, SendOK
<1>6. CASE SaveSettles \/ SaveFails
  <2>1. chain # <<>> /\ Head(chain) = "save" /\ Settles /\ (Renamed \/ WriteFailed \/ LinkSkipped)
    BY <1>6 DEF SaveSettles, SaveFails
  <2>2. ChainOK'
    BY <1>1, <2>1, SettledFile, PoppedChain DEF ChainOK
  <2>3. phase = "submit" => Spent(file'[job.todo]) /\ Spent(snapshot'[job.todo])
    BY <2>1, SettledFile, SafeFacts DEF IInv, SendOK
  <2>4. QED
    BY <1>2, <1>3, <2>1, <2>2, <2>3, SettledFile
<1>7. QED
  BY <1>4, <1>5, <1>6 DEF StoreSteps

\* Every claim in the file is given up, and nothing else is owed.
LEMMA SafeRestarts == ASSUME IInv, Restarts PROVE IInv'
<1>1. TypeOK'
  BY TypeRestarts DEF IInv
<1>2. /\ todos' = [t \in Todo |-> Recovered(file[t])]
      /\ chain' = <<>> /\ ~writing' /\ snapshot' = file /\ file' = file
      /\ phase' = "idle"
      /\ UNCHANGED <<asked, typed, submitted, born>>
  <2>1. [t \in Todo |-> [u \in Todo |-> Recovered(file[u])][t]] = [t \in Todo |-> Recovered(file[t])]
    OBVIOUS
  <2>2. QED
    BY <2>1 DEF Restarts, Loaded
<1>3. \A t \in Todo : /\ todos'[t] = Recovered(file[t])
                      /\ Spent(todos'[t]) <=> Spent(file[t])
                      /\ Exists(todos'[t]) <=> Exists(file[t])
                      /\ ~todos'[t].claimed
  BY <1>2, SafeFacts, RecoveredRow
<1>4. \A t \in Todo : Exists(file[t]) => t \in born
  BY DEF IInv, RowsOK
<1>5. \A t \in Todo : Unspent(t) \/ Spent(file[t])
  BY DEF IInv, CreditOK
<1>6. Flushes(<<>>) = {}
  BY DEF Flushes
<1>7. QED
  BY <1>1, <1>2, <1>3, <1>4, <1>5, <1>6, SafeFacts, SafeEnds

-----------------------------------------------------------------------------
(* The theorems.                                                           *)

LEMMA SafeNext == ASSUME IInv, [Next]_vars PROVE IInv'
<1>1. CASE UNCHANGED vars
  BY <1>1 DEF vars, storeVars, dispatchVars, historyVars, IInv, TypeOK, StoreTypeOK, PaneTypeOK,
              RowsOK, ChainOK, CreditOK, SendOK, NoOrphanClaim, AtMostOnce, Unspent
<1>2. CASE Next
  BY <1>2, SafeHuman, SafeDispatcher, SafeStore, SafePane, SafeRestarts DEF Next
<1>3. QED
  BY <1>1, <1>2

\* IInv holds in every reachable state.
THEOREM Inductive == Spec => []IInv
  BY SafeInit, SafeNext, PTL DEF Spec

\* A prompt is typed at most once per request and submitted at most once per
\* typing, over any number of todos, sessions, crashes and failed writes.
THEOREM AtMostOnceHolds == Spec => []AtMostOnce
<1>1. IInv => AtMostOnce
  BY DEF IInv, CreditOK
<1>2. QED
  BY <1>1, Inductive, PTL

\* A crash between the paste and its outcome never queues the todo again.
THEOREM ClaimOutlivesCrashHolds == Spec => []ClaimOutlivesCrash
<1>1. IInv => ClaimOutlivesCrash
  BY DEF IInv, SendOK, ClaimOutlivesCrash, Spent
<1>2. QED
  BY <1>1, Inductive, PTL

\* No claim is left without the send that made it.
THEOREM NoOrphanClaimHolds == Spec => []NoOrphanClaim
<1>1. IInv => NoOrphanClaim
  BY DEF IInv
<1>2. QED
  BY <1>1, Inductive, PTL

-----------------------------------------------------------------------------
(* The ledger.                                                             *)

\* Only Submits presses Return, and only ClaimSaved pastes.
LEMMA LedgerFrame ==
  ASSUME TypeOK, Next
  PROVE  \/ UNCHANGED <<asked, typed, submitted>>
         \/ \E t \in Todo : QueueTodo(t)
         \/ ClaimSaved
         \/ Submits
<1> USE DEF historyVars
<1>1. CASE HumanSteps
  BY <1>1, MoveLandsParts
  DEF HumanSteps, CreateTodo, MoveStarts, EditTodo, UnqueueTodo, DeleteTodo, MoveRefused,
      RemoveTodosFor, HumanTypes
<1>2. CASE DispatcherSteps
  BY <1>2
  DEF DispatcherSteps, Considers, PassesOver, CooldownEnds, Inspects, HandsBack, Waits, Claims,
      ClaimNotSaved, Withholds
<1>3. CASE StoreSteps
  BY <1>3 DEF StoreSteps, outsideStore
<1>4. CASE \E s \in Session : PaneChanges(s)
  BY <1>4 DEF PaneChanges
<1>5. CASE Restarts
  BY <1>5 DEF Restarts
<1>6. QED
  BY <1>1, <1>2, <1>3, <1>4, <1>5 DEF Next

LEMMA LedgerStep == ASSUME IInv, Next PROVE Ledger!Next \/ UNCHANGED Ledger!ledger
<1>1. ASSUME NEW t \in Todo, QueueTodo(t) PROVE Ledger!Ask(t)
  BY <1>1 DEF QueueTodo, Ledger!Ask
<1>2. ASSUME ClaimSaved PROVE Ledger!Next \/ UNCHANGED Ledger!ledger
  <2>1. job.todo \in Todo /\ typed[job.todo] < asked[job.todo]
    BY <1>2, ClaimSavedParts, SafeFacts DEF IInv, CreditOK, Unspent
  <2>2. \/ typed' = [typed EXCEPT ![job.todo] = @ + 1]
        \/ typed' = typed
    BY <1>2, ClaimSavedParts
  <2>3. UNCHANGED <<asked, submitted>>
    BY <1>2, ClaimSavedParts
  <2>4. QED
    BY <2>1, <2>2, <2>3 DEF Ledger!Next, Ledger!Type, Ledger!ledger
<1>3. ASSUME Submits PROVE Ledger!Submit(job.todo) /\ job.todo \in Todo
  <2>1. job.todo \in Todo /\ submitted[job.todo] < typed[job.todo]
    BY <1>3, SafeFacts DEF Submits, IInv, SendOK
  <2>2. QED
    BY <1>3, <2>1 DEF Submits, Ledger!Submit
<1>4. CASE UNCHANGED <<asked, typed, submitted>>
  BY <1>4 DEF Ledger!ledger
<1>5. QED
  BY <1>1, <1>2, <1>3, <1>4, LedgerFrame DEF IInv, Ledger!Next

\* The dispatcher implements the ledger: every step asks for, types or submits
\* one prompt as the ledger allows, or leaves the ledger alone.
THEOREM ImplementsLedgerHolds == Spec => ImplementsLedger
<1>1. Init => Ledger!Init
  BY DEF Init, Ledger!Init
<1>2. IInv /\ [Next]_vars => [Ledger!Next]_(Ledger!ledger)
  BY LedgerStep DEF vars, historyVars, Ledger!ledger
<1>3. QED
  BY <1>1, <1>2, Inductive, PTL DEF Spec, ImplementsLedger, Ledger!Spec

-----------------------------------------------------------------------------
(* A prompt left in an input box is not sent with another one.             *)

\* The prompts in a session's input box.
Pasted(s) == pane[s].box \cap Todo

\* From the inspect() that found an empty box to the Return, the dispatcher is
\* the only one to put a prompt in it.
BoxInv ==
  /\ phase = "judge" /\ job.seen = "clear" => Pasted(job.sess) = {}
  /\ phase = "flush" => Pasted(job.sess) = {}
  /\ LeftoverKept

\* People, Claude and tmux put no prompt in a box.
LEMMA NoPromptAppears ==
  ASSUME TypeOK, HumanSteps \/ \E s \in Session : PaneChanges(s)
  PROVE  \A s \in Session : Pasted(s)' \subseteq Pasted(s)
<1> SUFFICES ASSUME NEW s \in Session PROVE pane'[s].box \cap Todo \subseteq pane[s].box \cap Todo
  BY DEF Pasted
<1>1. pane \in [Session -> Pane] /\ Draft \notin Todo
  BY DispatchAssumption DEF TypeOK, PaneTypeOK
<1>2. ASSUME NEW k \in Session, HumanTypes(k)
      PROVE  pane'[s].box \cap Todo \subseteq pane[s].box \cap Todo
  <2>1. PICK time \in {now', pane[k].input} :
          \E p \in AfterKey(pane[k], time) : pane' = [pane EXCEPT ![k] = p]
    BY <1>2 DEF HumanTypes
  <2>2. PICK p \in AfterKey(pane[k], time) : pane' = [pane EXCEPT ![k] = p]
    BY <2>1
  <2>3. p.box \subseteq pane[k].box \cup {Draft}
    BY <1>1, <2>2 DEF AfterKey, AfterReturn, Pane
  <2>4. QED
    BY <1>1, <2>2, <2>3
<1>3. ASSUME NEW k \in Session, PaneChanges(k)
      PROVE  pane'[s].box \cap Todo \subseteq pane[s].box \cap Todo
  BY <1>1, <1>3 DEF PaneChanges, ScreenChanges, Respawns, PtyReattaches, Dies, PtyDrops, Fresh, Pane
<1>4. CASE UNCHANGED pane
  BY <1>4
<1>5. QED
  BY <1>2, <1>3, <1>4, MoveLandsParts
  DEF HumanSteps, CreateTodo, MoveStarts, EditTodo, QueueTodo, UnqueueTodo, DeleteTodo,
      MoveRefused, RemoveTodosFor

\* While they act the dispatcher stays where it is, with what it has read.
LEMMA JobStays ==
  ASSUME TypeOK, HumanSteps \/ \E s \in Session : PaneChanges(s)
  PROVE  phase' = phase /\ job'.sess = job.sess /\ job'.todo = job.todo /\ job'.seen = job.seen
<1>1. \A gone : Keeps(gone) => job'.sess = job.sess /\ job'.todo = job.todo /\ job'.seen = job.seen
  BY DEF Keeps, TypeOK, Job
<1>2. QED
  BY <1>1, MoveLandsParts
  DEF HumanSteps, CreateTodo, MoveStarts, EditTodo, QueueTodo, UnqueueTodo, DeleteTodo,
      MoveRefused, RemoveTodosFor, HumanTypes, PaneChanges, dispatchVars

LEMMA BoxNext == ASSUME TypeOK, BoxInv, [Next]_vars PROVE BoxInv'
<1> USE DEF BoxInv, LeftoverKept
<1>1. CASE HumanSteps \/ \E s \in Session : PaneChanges(s)
  <2>1. phase' # "idle" => job.sess \in Session
    BY <1>1, JobStays DEF TypeOK
  <2>2. phase \in Phases
    BY DEF TypeOK
  <2>3. QED
    BY <1>1, <2>1, <2>2, JobStays, NoPromptAppears DEF Pasted, Phases
<1>2. CASE DispatcherSteps
  <2>1. CASE phase' = "idle"
    BY <2>1
  <2>2. CASE \E w \in Worktree : Considers(w)
    BY <2>2 DEF Considers
  <2>3. CASE \E w \in Worktree : PassesOver(w) \/ CooldownEnds(w)
    BY <2>3 DEF PassesOver, CooldownEnds, Pasted
  <2>4. CASE Inspects
    <3>1. CASE pane[job.sess].live
      <4>1. phase' = "judge" /\ pane' = pane /\ job.sess \in Session
        BY <2>4, <3>1 DEF Inspects, TypeOK
      <4>2. job'.sess = job.sess /\ job'.seen = Sees(pane[job.sess])
        BY <2>4, <3>1 DEF Inspects, TypeOK, Job
      <4>3. QED
        BY <4>1, <4>2 DEF Sees, Pasted
    <3>2. QED
      BY <2>1, <2>4, <3>1 DEF Inspects, Drops
  <2>5. CASE Claims
    <3>1. phase' = "flush" /\ pane' = pane /\ job'.sess = job.sess
      BY <2>5 DEF Claims, NoJob
    <3>2. QED
      BY <2>5, <3>1 DEF Claims, Pasted
  <2>6. CASE ClaimSaved
    <3>1. CASE phase' = "submit" /\ job' = [job EXCEPT !.was = 0]
               /\ pane' = [pane EXCEPT ![job.sess] = AfterPaste(@, job.todo)]
      <4>1. job.sess \in Session /\ job'.sess = job.sess /\ job'.todo = job.todo
        BY <2>6, <3>1, ClaimSavedParts DEF TypeOK, Job
      <4>2. pane'[job.sess].box \subseteq pane[job.sess].box \cup {job.todo}
        BY <3>1, <4>1 DEF TypeOK, PaneTypeOK, Pane, AfterPaste
      <4>3. Pasted(job.sess) = {}
        BY <2>6 DEF ClaimSaved
      <4>4. QED
        BY <3>1, <4>1, <4>2, <4>3 DEF Pasted
    <3>2. QED
      BY <2>1, <2>6, <3>1 DEF ClaimSaved, Drops
  <2>7. CASE HandsBack \/ Waits \/ ClaimNotSaved \/ Submits \/ Withholds
    BY <2>1, <2>7 DEF HandsBack, Waits, ClaimNotSaved, Submits, Withholds, Drops
  <2>8. QED
    BY <1>2, <2>2, <2>3, <2>4, <2>5, <2>6, <2>7 DEF DispatcherSteps
<1>3. CASE StoreSteps
  BY <1>3 DEF StoreSteps, outsideStore, dispatchVars, Pasted
<1>4. CASE Restarts
  BY <1>4 DEF Restarts
<1>5. CASE UNCHANGED vars
  BY <1>5 DEF vars, dispatchVars, Pasted
<1>6. QED
  BY <1>1, <1>2, <1>3, <1>4, <1>5 DEF Next

\* However sends end and the server restarts, no other prompt lies in the box
\* a Return is about to be pressed in.
THEOREM LeftoverKeptHolds == Spec => []LeftoverKept
<1>1. Init => BoxInv
  BY DEF Init, BoxInv, LeftoverKept
<1>2. TypeOK /\ BoxInv /\ [Next]_vars => BoxInv'
  BY BoxNext
<1>3. BoxInv => LeftoverKept
  BY DEF BoxInv
<1>4. QED
  BY <1>1, <1>2, <1>3, TypeCorrect, PTL DEF Spec

-----------------------------------------------------------------------------
(* No request is dropped in silence.                                       *)

\* A row a request can wait in, or be told of what became of it.
Answers(r) == Exists(r) /\ (Queued(r) \/ r.claimed \/ r.err)

\* What is written holds no claim without its todo, and a send puts its todo
\* back to a place of its own, if it was asked for.
FileOK == \A t \in Todo : /\ file[t].claimed => Exists(file[t])
                          /\ snapshot[t].claimed => Exists(snapshot[t])
PlaceOK == phase = "flush" /\ wanted[job.todo] => job.was > 0 \/ todos[job.todo].err

WInv == Accounted /\ FileOK /\ PlaceOK /\ now >= 1

LEMMA AccountedRows == Accounted <=> \A t \in Todo : wanted[t] => Answers(todos[t])
  BY DEF Accounted, Answers

LEMMA WantedInit == Init => WInv
<1> SUFFICES ASSUME Init PROVE WInv
  OBVIOUS
<1>1. \A t \in Todo : file[t] = NoRow /\ snapshot[t] = NoRow /\ wanted[t] = FALSE
  BY DEF Init, StoreInit
<1>2. phase = "idle" /\ now = 1 /\ ~NoRow.claimed
  BY DEF Init, NoRow
<1> QED BY <1>1, <1>2 DEF WInv, Accounted, FileOK, PlaceOK

\* The clock never goes back.
LEMMA ClockNext == ASSUME TypeOK, [Next]_vars PROVE now' \in {now, now + 1}
<1>1. CASE UNCHANGED vars
  BY <1>1 DEF vars
<1>2. CASE HumanSteps
  <2>1. ASSUME NEW t \in Todo, NEW w \in Worktree, CreateTodo(t, w) \/ MoveStarts(t, w) PROVE now' = now
    BY <2>1 DEF CreateTodo, MoveStarts
  <2>2. ASSUME NEW t \in Todo, EditTodo(t) \/ UnqueueTodo(t) \/ DeleteTodo(t) PROVE now' = now
    BY <2>2 DEF EditTodo, UnqueueTodo, DeleteTodo
  <2>3. ASSUME NEW t \in Todo, QueueTodo(t) PROVE now' \in {now, now + 1}
    BY <2>3 DEF QueueTodo, ClockReads
  <2>4. MoveLands => now' \in {now, now + 1}
    BY MoveLandsParts DEF ClockReads
  <2>5. MoveRefused => now' = now
    BY DEF MoveRefused
  <2>6. ASSUME NEW w \in Worktree, RemoveTodosFor(w) PROVE now' = now
    BY <2>6 DEF RemoveTodosFor
  <2>7. ASSUME NEW s \in Session, HumanTypes(s) PROVE now' \in {now, now + 1}
    BY <2>7 DEF HumanTypes, ClockReads
  <2> QED BY <1>2, <2>1, <2>2, <2>3, <2>4, <2>5, <2>6, <2>7 DEF HumanSteps
<1>3. CASE DispatcherSteps
  <2>1. ASSUME NEW w \in Worktree, Considers(w) \/ PassesOver(w) \/ CooldownEnds(w) PROVE now' = now
    BY <2>1 DEF Considers, PassesOver, CooldownEnds, dispatcherFrame
  <2>2. Inspects \/ HandsBack \/ Waits \/ Claims \/ ClaimNotSaved \/ Submits \/ Withholds => now' = now
    BY DEF Inspects, HandsBack, Waits, Claims, ClaimNotSaved, Submits, Withholds, dispatcherFrame
  <2>3. ClaimSaved => now' = now
    BY ClaimSavedParts DEF dispatcherFrame
  <2> QED BY <1>3, <2>1, <2>2, <2>3 DEF DispatcherSteps
<1>4. CASE StoreSteps
  BY <1>4 DEF StoreSteps, outsideStore
<1>5. CASE \E s \in Session : PaneChanges(s)
  BY <1>5 DEF PaneChanges
<1>6. CASE Restarts
  BY <1>6 DEF Restarts
<1> QED BY <1>1, <1>2, <1>3, <1>4, <1>5, <1>6 DEF Next

\* What a write serialises is what is in memory; what it leaves is what it serialised.
LEMMA FilesNext ==
  ASSUME TypeOK, [Next]_vars
  PROVE  /\ file' = file \/ file' = snapshot
         /\ snapshot' = snapshot \/ snapshot' = todos \/ snapshot' = file'
<1> USE DEF storeVars, fileVars
<1>1. CASE UNCHANGED vars
  BY <1>1 DEF vars
<1>2. CASE HumanSteps
  BY <1>2, MoveLandsParts
  DEF HumanSteps, CreateTodo, MoveStarts, EditTodo, QueueTodo, UnqueueTodo, DeleteTodo, MoveRefused,
      RemoveTodosFor, HumanTypes
<1>3. CASE DispatcherSteps
  BY <1>3, ClaimSavedParts
  DEF DispatcherSteps, Considers, PassesOver, CooldownEnds, Inspects, HandsBack, Waits, Claims,
      ClaimNotSaved, Submits, Withholds, Settles, Renamed, WriteFailed, LinkSkipped
<1>4. CASE StoreSteps
  BY <1>4 DEF StoreSteps, SaveTimerFires, WriteStarts, SaveSettles, SaveFails, Settles, Renamed, WriteFailed, LinkSkipped
<1>5. CASE \E s \in Session : PaneChanges(s)
  BY <1>5 DEF PaneChanges
<1>6. CASE Restarts
  BY <1>6 DEF Restarts, Loaded
<1> QED BY <1>1, <1>2, <1>3, <1>4, <1>5, <1>6 DEF Next

LEMMA FileNext == ASSUME IInv, FileOK, [Next]_vars PROVE FileOK'
<1>1. \A t \in Todo : todos[t].claimed => Exists(todos[t])
  BY SafeFacts
<1>2. /\ file' = file \/ file' = snapshot
      /\ snapshot' = snapshot \/ snapshot' = todos \/ snapshot' = file'
  BY FilesNext DEF IInv
<1> QED BY <1>1, <1>2 DEF FileOK

\* One row is replaced, beside a send under way.
LEMMA WantedPatch ==
  ASSUME IInv, WInv, NEW t \in Todo, NEW row,
         todos' = [todos EXCEPT ![t] = row], phase' = phase, phase = "flush" => job' = job,
         \A u \in Todo : u # t /\ wanted'[u] => wanted[u],
         wanted'[t] => Answers(row),
         wanted'[t] /\ phase = "flush" /\ job.todo = t => wanted[t] /\ row.err = todos[t].err
  PROVE  Accounted' /\ PlaceOK'
<1>1. \A u \in Todo : todos'[u] = IF u = t THEN row ELSE todos[u]
  BY DEF IInv, TypeOK, StoreTypeOK
<1>2. Accounted'
  BY <1>1, AccountedRows DEF WInv, Accounted, Answers
<1>3. phase = "flush" => job.todo \in Todo
  BY SafeFacts
<1>4. PlaceOK'
  BY <1>1, <1>3 DEF WInv, PlaceOK
<1> QED BY <1>2, <1>4

\* Rows, requests and the send stay as they are.
LEMMA WantedStill ==
  ASSUME WInv, UNCHANGED <<todos, wanted, phase, job>> PROVE Accounted' /\ PlaceOK'
  BY DEF WInv, Accounted, PlaceOK

\* What a send under way holds has no place to lose and takes no edit.
LEMMA Sending ==
  ASSUME IInv, phase = "flush" PROVE job.todo \in Todo /\ job.todo \in born /\ ~Editable(job.todo)
  BY SafeFacts DEF IInv, SendOK, ClaimedOrGone, Editable

LEMMA WantedRoutes ==
  ASSUME IInv, WInv, NEW t \in Todo,
         (\E w \in Worktree : CreateTodo(t, w)) \/ EditTodo(t) \/ QueueTodo(t) \/ UnqueueTodo(t) \/ DeleteTodo(t)
  PROVE  Accounted' /\ PlaceOK'
<1> USE DEF Patched, dispatchVars, historyVars
<1>0. /\ todos[t] \in Row /\ wanted \in [Todo -> BOOLEAN] /\ now \in Nat
      /\ wanted[t] => Answers(todos[t])
  BY AccountedRows DEF WInv, IInv, TypeOK, StoreTypeOK
<1>1. ASSUME NEW w \in Worktree, CreateTodo(t, w) PROVE Accounted' /\ PlaceOK'
  <2>1. ~wanted[t] /\ t \notin born
    BY <1>0, <1>1 DEF CreateTodo, IInv, RowsOK, Answers
  <2>2. UNCHANGED <<phase, job, wanted>> /\ todos' = [todos EXCEPT ![t] = [NoRow EXCEPT !.wt = w]]
    BY <1>1 DEF CreateTodo
  <2> QED BY <2>1, <2>2, WantedPatch
<1>2. CASE EditTodo(t)
  <2>1. UNCHANGED <<phase, job, wanted>> /\ todos' = [todos EXCEPT ![t] = todos[t]]
    BY <1>2 DEF EditTodo
  <2> QED BY <1>0, <2>1, WantedPatch
<1>3. CASE QueueTodo(t)
  <2>1. PICK place \in NextQueuedAt(todos[t].wt, now') :
          todos' = [todos EXCEPT ![t] = [todos[t] EXCEPT !.queuedAt = place, !.err = FALSE]]
    BY <1>3 DEF QueueTodo
  <2>2. place > 0
    <3>1. place \in {now'} \cup {todos[u].queuedAt + 1 : u \in InQueue(todos[t].wt)} /\ now' <= place
      BY DEF NextQueuedAt
    <3>2. \A u \in InQueue(todos[t].wt) : todos[u].queuedAt \in Nat
      BY DEF InQueue, IInv, TypeOK, StoreTypeOK, Row
    <3>3. now' \in {now, now + 1}
      BY <1>3 DEF QueueTodo, ClockReads
    <3> QED BY <1>0, <3>1, <3>2, <3>3 DEF WInv
  <2>3. Answers([todos[t] EXCEPT !.queuedAt = place, !.err = FALSE])
    <3> DEFINE row == [todos[t] EXCEPT !.queuedAt = place, !.err = FALSE]
    <3>1. row.wt = todos[t].wt /\ row.queuedAt = place /\ Exists(todos[t])
      BY <1>0, <1>3 DEF QueueTodo, Editable, Row
    <3> HIDE DEF row
    <3>2. Answers(row)
      BY <2>2, <3>1 DEF Answers, Queued, Exists
    <3> QED BY <3>2 DEF row
  <2>4. UNCHANGED <<phase, job>> /\ wanted' = [wanted EXCEPT ![t] = TRUE] /\ Editable(t)
    BY <1>3 DEF QueueTodo
  <2>5. \A u \in Todo : u # t /\ wanted'[u] => wanted[u]
    BY <1>0, <2>4
  <2> QED BY <2>1, <2>3, <2>4, <2>5, Sending, WantedPatch
<1>4. CASE UnqueueTodo(t)
  <2>1. /\ UNCHANGED <<phase, job>> /\ wanted' = [wanted EXCEPT ![t] = FALSE]
        /\ todos' = [todos EXCEPT ![t] = [todos[t] EXCEPT !.queuedAt = 0]]
    BY <1>4 DEF UnqueueTodo
  <2>2. ~wanted'[t] /\ \A u \in Todo : u # t /\ wanted'[u] => wanted[u]
    BY <1>0, <2>1
  <2> QED BY <2>1, <2>2, WantedPatch
<1>5. CASE DeleteTodo(t)
  <2>1. /\ phase' = phase /\ wanted' = [wanted EXCEPT ![t] = FALSE] /\ todos' = [todos EXCEPT ![t] = NoRow]
        /\ phase = "flush" => job' = job
    BY <1>5 DEF DeleteTodo, Keeps
  <2>2. ~wanted'[t] /\ \A u \in Todo : u # t /\ wanted'[u] => wanted[u]
    BY <1>0, <2>1
  <2> QED BY <2>1, <2>2, WantedPatch
<1> QED BY <1>1, <1>2, <1>3, <1>4, <1>5

LEMMA WantedMove ==
  ASSUME IInv, WInv, MoveLands PROVE Accounted' /\ PlaceOK'
<1>1. UNCHANGED <<phase, job, wanted>> /\ ClockReads
  BY MoveLandsParts DEF dispatchVars, historyVars
<1>2. move.todo \in Todo /\ move.to \in Worktree
  BY MoveLandsParts DEF IInv, TypeOK, Move
<1>3. CASE ~Exists(todos[move.todo])
  BY <1>1, <1>3, MoveLandsParts, WantedStill
<1>4. CASE Exists(todos[move.todo])
  <2> DEFINE t == move.todo
  <2>1. PICK place \in IF Queued(todos[t]) THEN NextQueuedAt(move.to, now') ELSE {0} :
          todos' = [todos EXCEPT ![t] = [todos[t] EXCEPT !.wt = move.to, !.queuedAt = place]]
    BY <1>4, MoveLandsParts DEF Patched
  <2> DEFINE row == [todos[t] EXCEPT !.wt = move.to, !.queuedAt = place]
  <2>2. todos[t] \in Row /\ now \in Nat /\ (wanted[t] => Answers(todos[t]))
    BY <1>2, AccountedRows DEF WInv, IInv, TypeOK, StoreTypeOK
  <2>3. /\ row.wt = move.to /\ row.queuedAt = place /\ row.claimed = todos[t].claimed /\ row.err = todos[t].err
    BY <2>2 DEF Row
  <2>4. Queued(todos[t]) => place > 0
    <3>1. SUFFICES ASSUME Queued(todos[t]) PROVE place > 0
      OBVIOUS
    <3>2. place \in NextQueuedAt(move.to, now')
      BY <2>1, <3>1
    <3>3. place \in {now'} \cup {todos[u].queuedAt + 1 : u \in InQueue(move.to)} /\ now' <= place
      BY <3>2 DEF NextQueuedAt
    <3>4. \A u \in InQueue(move.to) : todos[u].queuedAt \in Nat
      BY DEF InQueue, IInv, TypeOK, StoreTypeOK, Row
    <3> QED BY <1>1, <2>2, <3>3, <3>4 DEF ClockReads, WInv
  <2>5. wanted[t] => Answers(row)
    BY <1>2, <2>2, <2>3, <2>4, StoreAssumption DEF Answers, Queued, Exists
  <2> HIDE DEF row
  <2> QED BY <1>1, <1>2, <2>1, <2>3, <2>5, WantedPatch DEF row
<1> QED BY <1>3, <1>4

LEMMA WantedRemoved ==
  ASSUME IInv, WInv, NEW w \in Worktree, RemoveTodosFor(w) PROVE Accounted' /\ PlaceOK'
<1>1. /\ phase' = phase /\ (phase = "flush" => job' = job)
      /\ todos' = [t \in Todo |-> IF todos[t].wt = w THEN NoRow ELSE todos[t]]
      /\ wanted' = [t \in Todo |-> wanted[t] /\ todos[t].wt # w]
  BY DEF RemoveTodosFor, Keeps, RemovedFor
<1>2. \A t \in Todo : wanted'[t] => wanted[t] /\ todos'[t] = todos[t]
  BY <1>1
<1>3. phase = "flush" => job.todo \in Todo
  BY Sending
<1> QED BY <1>1, <1>2, <1>3 DEF WInv, Accounted, PlaceOK

\* Before the claim no row is claimed, so a request waits in a place or bears an error.
LEMMA WantedClaims ==
  ASSUME IInv, WInv, Claims PROVE Accounted' /\ PlaceOK'
<1> DEFINE d == job.todo
<1>1. /\ phase = "judge" /\ wanted' = wanted
      /\ job' = [NoJob EXCEPT !.todo = d, !.sess = job.sess, !.was = PlaceNow]
      /\ todos' = IF Exists(todos[d])
                  THEN [todos EXCEPT ![d].claimed = TRUE, ![d].queuedAt = 0] ELSE todos
  BY DEF Claims, historyVars
<1>2. d \in Todo /\ todos[d] \in Row /\ ~todos[d].claimed /\ todos \in [Todo -> Row]
  BY <1>1, SafeFacts, SafeBefore DEF IInv, TypeOK, StoreTypeOK
<1>3. job'.todo = d /\ job'.was = PlaceNow
  BY <1>1 DEF NoJob
<1>4. \A t \in Todo : wanted[t] => Answers(todos[t])
  BY AccountedRows DEF WInv
<1>5. CASE ~Exists(todos[d])
  <2>1. ~wanted[d]
    BY <1>2, <1>4, <1>5 DEF Answers
  <2> QED BY <1>1, <1>3, <1>5, <2>1 DEF WInv, Accounted, PlaceOK
<1>6. CASE Exists(todos[d])
  <2>1. /\ \A t \in Todo : t # d => todos'[t] = todos[t]
        /\ todos'[d].claimed /\ todos'[d].wt = todos[d].wt /\ todos'[d].err = todos[d].err
    BY <1>1, <1>2, <1>6 DEF Row
  <2>2. Accounted'
    BY <1>1, <1>4, <1>6, <2>1 DEF Accounted, Answers, Exists, Queued
  <2>3. PlaceOK'
    <3>1. wanted[d] => todos[d].queuedAt > 0 \/ todos[d].err
      BY <1>2, <1>4 DEF Answers, Queued
    <3> QED BY <1>1, <1>3, <1>6, <2>1, <3>1 DEF PlaceOK, PlaceNow
  <2> QED BY <2>2, <2>3
<1> QED BY <1>5, <1>6

\* A send that ends leaves its todo in its place, or with an error.
LEMMA WantedEnds ==
  ASSUME IInv, WInv, wanted' = wanted, phase' = "idle",
         (phase = "flush" /\ PutsBack) \/ (phase = "submit" /\ GivesUp)
  PROVE  Accounted' /\ PlaceOK'
<1> DEFINE d == job.todo
<1>1. d \in Todo /\ todos[d] \in Row /\ todos \in [Todo -> Row]
  BY SafeFacts DEF IInv, TypeOK, StoreTypeOK
<1>2. PlaceOK'
  BY DEF PlaceOK
<1>3. \A t \in Todo : wanted[t] => Answers(todos[t])
  BY AccountedRows DEF WInv
<1>4. CASE ~Exists(todos[d])
  <2>1. todos' = todos
    BY <1>4 DEF PutsBack, GivesUp, SendPatches
  <2> QED BY <1>2, <2>1 DEF WInv, Accounted
<1>5. CASE Exists(todos[d]) /\ phase = "flush" /\ PutsBack
  <2> DEFINE row == [todos[d] EXCEPT !.claimed = FALSE, !.queuedAt = job.was]
  <2>1. todos' = [todos EXCEPT ![d] = row]
    BY <1>5 DEF PutsBack, SendPatches, Patched
  <2>2. row.wt = todos[d].wt /\ row.queuedAt = job.was /\ row.err = todos[d].err
    BY <1>1 DEF Row
  <2>3. wanted[d] => Answers(row)
    BY <1>5, <2>2 DEF WInv, PlaceOK, Answers, Exists, Queued
  <2> HIDE DEF row
  <2>4. \A t \in Todo : wanted[t] => Answers(todos'[t])
    BY <1>1, <1>3, <2>1, <2>3
  <2> QED BY <1>2, <2>4 DEF Accounted, Answers
<1>6. CASE Exists(todos[d]) /\ phase = "submit" /\ GivesUp
  <2> DEFINE row == [todos[d] EXCEPT !.claimed = FALSE, !.err = TRUE]
  <2>1. todos' = [todos EXCEPT ![d] = row]
    BY <1>6 DEF GivesUp, SendPatches, Patched
  <2>2. row.wt = todos[d].wt /\ row.err = TRUE
    BY <1>1 DEF Row
  <2>3. Answers(row)
    BY <1>6, <2>2 DEF Answers, Exists
  <2> HIDE DEF row
  <2>4. \A t \in Todo : wanted[t] => Answers(todos'[t])
    BY <1>1, <1>3, <2>1, <2>3
  <2> QED BY <1>2, <2>4 DEF Accounted, Answers
<1> QED BY <1>4, <1>5, <1>6

LEMMA WantedDispatcher ==
  ASSUME IInv, WInv, DispatcherSteps PROVE Accounted' /\ PlaceOK'
<1> USE DEF storeVars, historyVars
<1>0. /\ \A t \in Todo : wanted[t] => Answers(todos[t])
      /\ todos \in [Todo -> Row]
  BY AccountedRows DEF WInv, IInv, TypeOK, StoreTypeOK
<1>1. ASSUME NEW w \in Worktree, Considers(w) \/ PassesOver(w) \/ CooldownEnds(w) PROVE Accounted' /\ PlaceOK'
  <2>1. UNCHANGED <<todos, wanted>> /\ (UNCHANGED <<phase, job>> \/ phase' = "inspect")
    BY <1>1 DEF Considers, PassesOver, CooldownEnds
  <2> QED BY <2>1, WantedStill DEF WInv, Accounted, PlaceOK
<1>2. CASE Inspects \/ Waits
  <2>1. UNCHANGED <<todos, wanted>> /\ phase' # "flush"
    BY <1>2 DEF Inspects, Waits, Drops
  <2> QED BY <2>1 DEF WInv, Accounted, PlaceOK
<1>3. CASE HandsBack
  <2>1. wanted' = wanted /\ phase' = "idle"
    BY <1>3 DEF HandsBack, Drops
  <2>2. \A t \in Todo : todos'[t] = todos[t] \/ todos'[t] = [todos[t] EXCEPT !.queuedAt = 0, !.err = TRUE]
    BY <1>3 DEF HandsBack
  <2>3. \A t \in Todo : wanted'[t] => Answers(todos'[t])
    BY <1>0, <2>1, <2>2 DEF Answers, Exists, Row
  <2> QED BY <2>1, <2>3 DEF Accounted, Answers, PlaceOK
<1>4. CASE ClaimNotSaved
  BY <1>4, WantedEnds DEF ClaimNotSaved, Drops
<1>5. CASE ClaimSaved
  <2>1. phase = "flush" /\ wanted' = wanted
    BY <1>5, ClaimSavedParts
  <2>2. CASE phase' = "submit" /\ UNCHANGED todos
    BY <2>1, <2>2 DEF WInv, Accounted, PlaceOK
  <2>3. CASE PutsBack /\ Drops
    BY <2>1, <2>3, WantedEnds DEF Drops
  <2> QED BY <1>5, <2>2, <2>3, ClaimSavedParts
<1>6. CASE Submits
  <2>1. /\ phase = "submit" /\ phase' = "idle" /\ todos' = [todos EXCEPT ![job.todo] = NoRow]
        /\ wanted' = [wanted EXCEPT ![job.todo] = FALSE]
    BY <1>6 DEF Submits, Patched, Drops
  <2>2. \A t \in Todo : wanted'[t] => wanted[t] /\ t # job.todo
    BY <2>1, SafeFacts DEF IInv, TypeOK
  <2>3. \A t \in Todo : wanted'[t] => Answers(todos'[t])
    BY <1>0, <2>1, <2>2
  <2> QED BY <2>1, <2>3 DEF Accounted, Answers, PlaceOK
<1>7. CASE Withholds
  BY <1>7, WantedEnds DEF Withholds, Drops
<1> QED BY <1>1, <1>2, <1>3, <1>4, <1>5, <1>6, <1>7, WantedClaims DEF DispatcherSteps

LEMMA WantedNext == ASSUME IInv, WInv, [Next]_vars PROVE WInv'
<1>0. FileOK' /\ now' >= 1
  BY FileNext, ClockNext DEF WInv, IInv, TypeOK
<1> SUFFICES Accounted' /\ PlaceOK'
  BY <1>0 DEF WInv
<1>1. CASE UNCHANGED vars
  BY <1>1, WantedStill DEF vars, storeVars, dispatchVars, historyVars
<1>2. CASE HumanSteps
  <2>1. ASSUME NEW t \in Todo, NEW w \in Worktree, MoveStarts(t, w) PROVE Accounted' /\ PlaceOK'
    BY <2>1, WantedStill DEF MoveStarts, storeVars, dispatchVars, historyVars
  <2>2. ASSUME MoveRefused PROVE Accounted' /\ PlaceOK'
    BY <2>2, WantedStill DEF MoveRefused, storeVars, dispatchVars, historyVars
  <2>3. ASSUME NEW s \in Session, HumanTypes(s) PROVE Accounted' /\ PlaceOK'
    BY <2>3, WantedStill DEF HumanTypes, storeVars, dispatchVars, historyVars
  <2> QED BY <1>2, <2>1, <2>2, <2>3, WantedRoutes, WantedMove, WantedRemoved DEF HumanSteps
<1>3. CASE StoreSteps
  <2>1. UNCHANGED <<todos, wanted, phase, job>>
    BY <1>3 DEF StoreSteps, SaveTimerFires, WriteStarts, SaveSettles, SaveFails, outsideStore, dispatchVars, historyVars
  <2> QED BY <2>1, WantedStill
<1>4. ASSUME NEW s \in Session, PaneChanges(s) PROVE Accounted' /\ PlaceOK'
  BY <1>4, WantedStill DEF PaneChanges, storeVars, dispatchVars, historyVars
<1>5. CASE Restarts
  <2>1. /\ todos' = [t \in Todo |-> Recovered(file[t])] /\ phase' = "idle"
        /\ wanted' = [t \in Todo |-> wanted[t] /\ (Queued(file[t]) \/ file[t].claimed)]
    <3>1. [t \in Todo |-> [u \in Todo |-> Recovered(file[u])][t]] = [t \in Todo |-> Recovered(file[t])]
      OBVIOUS
    <3> QED BY <1>5, <3>1 DEF Restarts, Loaded
  <2>2. ASSUME NEW t \in Todo, wanted'[t] PROVE Answers(todos'[t])
    <3>1. todos'[t] = Recovered(file[t]) /\ (Queued(file[t]) \/ file[t].claimed) /\ file[t] \in Row
      BY <2>1, <2>2, SafeFacts
    <3>2. file[t].claimed => Exists(file[t])
      BY DEF WInv, FileOK
    <3> QED BY <3>1, <3>2 DEF Recovered, Answers, Queued, Exists, Row
  <2> QED BY <2>1, <2>2 DEF Accounted, Answers, PlaceOK
<1> QED BY <1>1, <1>2, <1>3, <1>4, <1>5, WantedDispatcher DEF Next

\* A request to run a todo is never dropped in silence: whatever edits, moves,
\* keystrokes, failed writes and restarts there are, until it is served or
\* withdrawn its todo is queued, being sent, or bears an error.
THEOREM AccountedHolds == Spec => []Accounted
<1>1. WInv => Accounted
  BY DEF WInv
<1>2. IInv /\ IInv' /\ WInv /\ [Next]_vars => WInv'
  BY WantedNext
<1> QED BY <1>1, <1>2, WantedInit, Inductive, PTL DEF Spec
=============================================================================
