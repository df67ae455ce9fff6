---------------------------- MODULE TodoDispatch ----------------------------
(***************************************************************************)
(* Queued todos and the dispatcher that types them into Claude.            *)
(*                                                                         *)
(* Composes the state store (StateStore), the Claude sessions (ClaudePane),*)
(* the todo routes (workspace.ts: createTodo, updateTodo, deleteTodo), and *)
(* the dispatcher (session/dispatch.ts).  Everything runs on one event     *)
(* loop: an action is what runs between two awaits, and any other handler  *)
(* may run at an await.                                                    *)
(***************************************************************************)
EXTENDS StateStore, ClaudePane

CONSTANTS
  LongPrompt, \* texts long enough that Claude shows a placeholder for them
  Opens,      \* the texts that, where shown, show the opening of a prompt too
  Limit       \* bounds: how often each kind of outside event may happen

Outside == {"ask", "key", "crash", "fault", "move", "pane"}

ASSUME DispatchAssumption ==
  /\ None \notin Session
  /\ HomeOf \in [Session -> Worktree]
  /\ Prompt = Todo
  /\ Draft \notin Todo
  /\ LongPrompt \subseteq Todo \cup {Draft}
  /\ Opens \in [Todo -> SUBSET (Todo \cup {Draft})]
  /\ Limit \in [Outside -> Nat]

VARIABLES
  now,        \* Date.now(), as far as its order matters
  born,       \* todo ids given out
  move,       \* an updateTodo suspended at `await this.resolve(...)`
  phase,      \* where the dispatcher is suspended
  due,        \* the worktrees this tick has yet to consider
  job,        \* the todo it is considering or sending, and what it has read
  cooling,    \* worktrees whose notBefore has not passed
  left,       \* what is left of each Limit
  asked,      \* history: how often a human asked for the todo to run
  typed,      \* history: how often its prompt was written to a pty
  submitted,  \* history: how often the dispatcher pressed Return on it
  wanted      \* history: the last request still stands and was not served

dispatchVars == <<phase, due, job, cooling>>
historyVars == <<asked, typed, submitted, wanted>>
vars == <<storeVars, pane, now, born, move, dispatchVars, left, historyVars>>

\* Between worktrees, or at the await of inspect(), of the transcript, of the
\* flush, or of the inspect() after SUBMIT_DELAY_MS.
Phases == {"idle", "inspect", "judge", "flush", "submit"}

\* was: the todo's place in the queue; input, seen: what inspect() answered.
Job == [todo : Todo \cup {None}, sess : Session \cup {None},
        was : Nat, input : Nat, seen : {"none", "nopty", "blocked", "clear"}]
NoJob == [todo |-> None, sess |-> None, was |-> 0, input |-> 0, seen |-> "none"]

Move == [todo : Todo, to : Worktree]

TypeOK ==
  /\ StoreTypeOK
  /\ PaneTypeOK
  /\ now \in Nat
  /\ born \in SUBSET Todo
  /\ move \in Move \cup {None}
  /\ phase \in Phases
  /\ due \in SUBSET Worktree
  /\ job \in Job
  /\ phase # "idle" => job.todo \in Todo /\ job.sess \in Session
  /\ cooling \in SUBSET Worktree
  /\ left \in [Outside -> Nat]
  /\ asked \in [Todo -> Nat]
  /\ typed \in [Todo -> Nat]
  /\ submitted \in [Todo -> Nat]
  /\ wanted \in [Todo -> BOOLEAN]

Init ==
  /\ StoreInit
  /\ PaneInit
  /\ now = 1
  /\ born = {}
  /\ move = None
  /\ phase = "idle"
  /\ due = {}
  /\ job = NoJob
  /\ cooling = {}
  /\ left = Limit
  /\ asked = [t \in Todo |-> 0]
  /\ typed = [t \in Todo |-> 0]
  /\ submitted = [t \in Todo |-> 0]
  /\ wanted = [t \in Todo |-> FALSE]

Spends(kind) ==
  /\ left[kind] > 0
  /\ left' = [left EXCEPT ![kind] = @ - 1]

\* The store's own variables beside the todos and the debounce.
fileVars == <<file, chain, broken, writing, snapshot>>

-----------------------------------------------------------------------------
(* The todo routes.                                                        *)

\* The todos with a place in a worktree's queue.
InQueue(w) == {t \in Todo : todos[t].wt = w /\ Queued(todos[t])}

\* nextQueuedAt: after every place taken, even when two clicks share a
\* millisecond.  The one such place, as a set.
NextQueuedAt(w, time) ==
  LET places == {time} \cup {todos[t].queuedAt + 1 : t \in InQueue(w)}
  IN  {p \in places : \A q \in places : q <= p}

\* The clock may or may not have moved on since the last thing that read it.
ClockReads == now' \in {now, now + 1}

CreateTodo(t, w) ==
  /\ t \notin born
  /\ born' = born \cup {t}
  /\ Patched(t, [NoRow EXCEPT !.wt = w])
  /\ UNCHANGED <<fileVars, pane, now, move, dispatchVars, left, historyVars>>

\* updateTodo refuses a todo that is being sent.
Editable(t) == Exists(todos[t]) /\ ~todos[t].claimed

\* updateTodo {prompt}: nothing here tells one wording from another.  A request
\* carries one field, as the pages send them (web/src/views/TodoPane.tsx).
EditTodo(t) ==
  /\ Editable(t)
  /\ Patched(t, todos[t])
  /\ UNCHANGED <<fileVars, pane, now, born, move, dispatchVars, left, historyVars>>

\* updateTodo {queued: true}
QueueTodo(t) ==
  /\ Editable(t)
  /\ Spends("ask")
  /\ ClockReads
  /\ \E place \in NextQueuedAt(todos[t].wt, now') :
       Patched(t, [todos[t] EXCEPT !.queuedAt = place, !.err = FALSE])
  /\ asked' = [asked EXCEPT ![t] = @ + 1]
  /\ wanted' = [wanted EXCEPT ![t] = TRUE]
  /\ UNCHANGED <<fileVars, pane, born, move, dispatchVars, typed, submitted>>

\* updateTodo {queued: false}
UnqueueTodo(t) ==
  /\ Editable(t)
  /\ Patched(t, [todos[t] EXCEPT !.queuedAt = 0])
  /\ wanted' = [wanted EXCEPT ![t] = FALSE]
  /\ UNCHANGED <<fileVars, pane, now, born, move, dispatchVars, left, asked, typed, submitted>>

\* updateTodo {worktreeId} up to its await: the todo was editable then.
MoveStarts(t, w) ==
  /\ move = None
  /\ Editable(t)
  /\ w # todos[t].wt
  /\ Spends("move")
  /\ move' = [todo |-> t, to |-> w]
  /\ UNCHANGED <<storeVars, pane, now, born, dispatchVars, historyVars>>

\* ... and after it: the patch goes to whatever the todo has become, at the
\* end of the destination's queue if it has a place in one now.
MoveLands ==
  /\ move # None
  /\ ClockReads
  /\ LET t == move.todo
     IN  IF Exists(todos[t])
         THEN \E place \in IF Queued(todos[t]) THEN NextQueuedAt(move.to, now') ELSE {0} :
                Patched(t, [todos[t] EXCEPT !.wt = move.to, !.queuedAt = place])
         ELSE UNCHANGED <<todos, timer>>
  /\ move' = None
  /\ UNCHANGED <<fileVars, pane, born, dispatchVars, left, historyVars>>

\* The destination is no longer a worktree: 404, and nothing changes.
MoveRefused ==
  /\ move # None
  /\ move' = None
  /\ UNCHANGED <<storeVars, pane, now, born, dispatchVars, left, historyVars>>

\* A tick that is considering one of these todos still holds the row it has now.
Keeps(gone) ==
  job' = IF phase \in {"inspect", "judge"} /\ job.todo \in gone
         THEN [job EXCEPT !.was = todos[job.todo].queuedAt] ELSE job

DeleteTodo(t) ==
  /\ Editable(t)
  /\ Keeps({t})
  /\ Patched(t, NoRow)
  /\ wanted' = [wanted EXCEPT ![t] = FALSE]
  /\ UNCHANGED <<fileVars, pane, now, born, move, phase, due, cooling, left, asked, typed, submitted>>

\* removeWorktree and closeProject drop a worktree's todos, sent or not.
RemoveTodosFor(w) ==
  /\ \E t \in Todo : todos[t].wt = w
  /\ Keeps({t \in Todo : todos[t].wt = w})
  /\ RemovedFor({w})
  /\ wanted' = [t \in Todo |-> wanted[t] /\ todos[t].wt # w]
  /\ UNCHANGED <<fileVars, pane, now, born, move, phase, due, cooling, left, asked, typed, submitted>>

-----------------------------------------------------------------------------
(* The sessions' own life.                                                 *)

\* input(): a key that is only an escape sequence (an arrow) is not timed.
HumanTypes(s) ==
  /\ Spends("key")
  /\ ClockReads
  /\ \E time \in {now', pane[s].input} :
       \E p \in AfterKey(pane[s], time) : pane' = [pane EXCEPT ![s] = p]
  /\ UNCHANGED <<storeVars, born, move, dispatchVars, historyVars>>

PaneChanges(s) ==
  /\ \/ ScreenChanges(s) /\ UNCHANGED left
     \/ Respawns(s) /\ UNCHANGED left
     \/ PtyReattaches(s) /\ UNCHANGED left
     \/ Dies(s) /\ Spends("pane")
     \/ PtyDrops(s) /\ Spends("pane")
  /\ UNCHANGED <<storeVars, now, born, move, dispatchVars, historyVars>>

-----------------------------------------------------------------------------
(* The dispatcher.                                                         *)

dispatcherFrame == <<now, born, move, left>>

\* The head of a worktree's queue: the todo whose RUN NEXT was pressed first.
Waiting(w) == {t \in InQueue(w) : ~todos[t].claimed}
IsHead(t, w) == t \in Waiting(w) /\ \A u \in Waiting(w) : todos[t].queuedAt <= todos[u].queuedAt

\* What this tick has yet to consider; a new one considers every worktree
\* with something queued, once.
Due == IF phase = "idle" /\ due = {}
       THEN {todos[t].wt : t \in {u \in Todo : Queued(todos[u])}} ELSE due

\* The head of its queue, and a live Claude for it; then inspect() is awaited.
Considers(w) ==
  /\ phase = "idle"
  /\ w \in Due
  /\ due' = Due \ {w}
  /\ \E t \in Todo, s \in LiveIn(w) :
       /\ IsHead(t, w)
       /\ job' = [NoJob EXCEPT !.todo = t, !.sess = s, !.was = todos[t].queuedAt]
  /\ phase' = "inspect"
  /\ UNCHANGED <<storeVars, pane, dispatcherFrame, cooling, historyVars>>

PassesOver(w) ==
  /\ phase = "idle"
  /\ w \in Due
  /\ Waiting(w) = {} \/ LiveIn(w) = {}
  /\ due' = Due \ {w}
  /\ UNCHANGED <<storeVars, pane, dispatcherFrame, phase, job, cooling, historyVars>>

\* Mutant: whatever lies in the input box already.
SeesNoBox(p) == IF ~p.pty THEN "nopty" ELSE IF p.screen = "idle" THEN "clear" ELSE "blocked"

\* What inspect() says of the screen: readiness() needs a pty, nothing
\* running, no dialog, and an empty input box.
Sees(p) == IF ~p.pty THEN "nopty"
           ELSE IF p.screen = "idle" /\ p.box = {} THEN "clear" ELSE "blocked"

\* The worktree is done with for this tick.
Drops == phase' = "idle" /\ job' = NoJob

\* inspect() answers; then the dispatcher waits for the path and transcript.
Inspects ==
  /\ phase = "inspect"
  /\ IF pane[job.sess].live
     THEN /\ phase' = "judge"
          /\ job' = [job EXCEPT !.input = pane[job.sess].input, !.seen = Sees(pane[job.sess])]
     ELSE Drops
  /\ UNCHANGED <<storeVars, pane, dispatcherFrame, due, cooling, historyVars>>

\* The worktree being considered.
JobHome == HomeOf[job.sess]

\* The queue place readiness() is given: the todo's own, as it is by then, or
\* as it was when the todo was dropped.
PlaceNow == IF Exists(todos[job.todo]) THEN todos[job.todo].queuedAt ELSE job.was

TypedAfterQueue == job.seen # "nopty" /\ job.input > PlaceNow

\* Every todo queued in the worktree before that keystroke is handed back.
HandsBack ==
  /\ phase = "judge"
  /\ TypedAfterQueue
  /\ todos' = [t \in Todo |->
                 IF t \in Waiting(JobHome) /\ todos[t].queuedAt < job.input
                 THEN [todos[t] EXCEPT !.queuedAt = 0, !.err = TRUE] ELSE todos[t]]
  /\ timer' = (timer \/ todos' # todos)
  /\ Drops
  /\ UNCHANGED <<fileVars, pane, dispatcherFrame, due, cooling, historyVars>>

\* Not ready.  Whatever the screen showed, there may have been output within
\* SETTLE_MS, or the transcript may say a turn has begun and not ended.
Waits ==
  /\ phase = "judge"
  /\ ~TypedAfterQueue
  /\ Drops
  /\ UNCHANGED <<storeVars, pane, dispatcherFrame, due, cooling, historyVars>>

\* Mutant: the paste does not wait for the flush.
ClaimsWithoutWaiting ==
  /\ phase = "judge"
  /\ ~TypedAfterQueue
  /\ job.seen = "clear"
  /\ Exists(todos[job.todo])
  /\ todos' = [todos EXCEPT ![job.todo].claimed = TRUE, ![job.todo].queuedAt = 0]
  /\ pane' = [pane EXCEPT ![job.sess] = AfterPaste(@, job.todo)]
  /\ typed' = [typed EXCEPT ![job.todo] = @ + 1]
  /\ Flushed
  /\ phase' = "submit"
  /\ UNCHANGED <<file, broken, writing, snapshot, dispatcherFrame, due, job, cooling, asked, submitted, wanted>>

\* The claim, and the flush the dispatcher then awaits.  patchTodo does
\* nothing for a todo deleted meanwhile, and the flush happens all the same.
Claims ==
  /\ phase = "judge"
  /\ ~TypedAfterQueue
  /\ job.seen = "clear"
  /\ JobHome \notin cooling
  /\ LET t == job.todo
     IN  /\ job' = [NoJob EXCEPT !.todo = t, !.sess = job.sess, !.was = PlaceNow]
         /\ todos' = IF Exists(todos[t])
                     THEN [todos EXCEPT ![t].claimed = TRUE, ![t].queuedAt = 0]
                     ELSE todos
  /\ Flushed
  /\ phase' = "flush"
  /\ UNCHANGED <<file, broken, writing, snapshot, pane, dispatcherFrame, due, cooling, historyVars>>

\* patchTodo as send() uses it: on a todo still there, or not at all.
SendPatches(row) ==
  IF Exists(todos[job.todo]) THEN Patched(job.todo, row) ELSE UNCHANGED <<todos, timer>>

\* Mutant: the place is read after the claim has deleted it.
PutsBackUnqueued == SendPatches([todos[job.todo] EXCEPT !.claimed = FALSE])

\* Nothing was sent: back to its own place in the queue.
PutsBack == SendPatches([todos[job.todo] EXCEPT !.claimed = FALSE, !.queuedAt = job.was])

\* Something may be in Claude's box: left to the human, with the reason.
GivesUp == SendPatches([todos[job.todo] EXCEPT !.claimed = FALSE, !.err = TRUE])

\* The flush rejects: its write failed, or the chain was rejected already.
ClaimNotSaved ==
  /\ phase = "flush"
  /\ chain # <<>>
  /\ Head(chain) = "flush"
  /\ \/ WriteFailed /\ Spends("fault")
     \/ LinkSkipped /\ UNCHANGED left
  /\ Settles
  /\ PutsBack
  /\ Drops
  /\ UNCHANGED <<pane, now, born, move, due, cooling, historyVars>>

\* The claim is in the file.  The paste goes out, unless the todo was removed
\* meanwhile or there is no pty to write to.
ClaimSaved ==
  /\ phase = "flush"
  /\ chain # <<>>
  /\ Head(chain) = "flush"
  /\ Renamed
  /\ Settles
  /\ LET t == job.todo
         s == job.sess
     IN  IF Exists(todos[t]) /\ Writable(s)
         THEN /\ pane' = [pane EXCEPT ![s] = AfterPaste(@, t)]
              /\ typed' = [typed EXCEPT ![t] = @ + 1]
              /\ phase' = "submit"
              /\ job' = [job EXCEPT !.was = 0]
              /\ UNCHANGED <<todos, timer>>
         ELSE /\ PutsBack
              /\ Drops
              /\ UNCHANGED <<pane, typed>>
  /\ UNCHANGED <<dispatcherFrame, due, cooling, asked, submitted, wanted>>

\* After SUBMIT_DELAY_MS: no dialog, and the box includes the opening of the
\* prompt, whoever's text it is part of, or is a placeholder, of whichever paste.
Landed ==
  LET p == pane[job.sess]
  IN  /\ p.live
      /\ p.screen # "dialog"
      /\ \/ p.box \cap Opens[job.todo] # {}
         \/ \E text \in LongPrompt : p.box = {text}

\* The Return: the todo is done, and its worktree cools down (any, where the
\* todo was dropped and only the row send() still holds names it).
Submits ==
  /\ phase = "submit"
  /\ Landed
  /\ Writable(job.sess)
  /\ pane' = [pane EXCEPT ![job.sess] = AfterReturn(@)]
  /\ submitted' = [submitted EXCEPT ![job.todo] = @ + 1]
  /\ wanted' = [wanted EXCEPT ![job.todo] = FALSE]
  /\ Patched(job.todo, NoRow)
  /\ \E w \in Worktree :
       /\ Exists(todos[job.todo]) => w = todos[job.todo].wt
       /\ cooling' = cooling \cup {w}
  /\ Drops
  /\ UNCHANGED <<fileVars, dispatcherFrame, due, asked, typed>>

\* Mutant: a paste that vanished is only noticed under a dialog.
WithholdsUnderDialog ==
  /\ phase = "submit"
  /\ pane[job.sess].screen = "dialog"
  /\ GivesUp
  /\ Drops
  /\ UNCHANGED <<fileVars, pane, dispatcherFrame, due, cooling, historyVars>>

\* The paste is not in the box, or the Return finds no pty.
Withholds ==
  /\ phase = "submit"
  /\ ~(Landed /\ Writable(job.sess))
  /\ GivesUp
  /\ Drops
  /\ UNCHANGED <<fileVars, pane, dispatcherFrame, due, cooling, historyVars>>

CooldownEnds(w) ==
  /\ w \in cooling
  /\ cooling' = cooling \ {w}
  /\ UNCHANGED <<storeVars, pane, dispatcherFrame, phase, due, job, historyVars>>

-----------------------------------------------------------------------------
(* The store's own steps, and the process.                                 *)

outsideStore == <<pane, now, born, move, dispatchVars, historyVars>>

StoreSteps ==
  \/ SaveTimerFires /\ UNCHANGED <<outsideStore, left>>
  \/ WriteStarts /\ UNCHANGED <<outsideStore, left>>
  \/ SaveSettles /\ UNCHANGED <<outsideStore, left>>
  \/ SaveFails /\ Spends("fault") /\ UNCHANGED outsideStore

\* Mutant: a todo that was being sent is queued again after a restart.
RecoveredToQueue(r) == IF r.claimed THEN [r EXCEPT !.claimed = FALSE, !.queuedAt = 1] ELSE r

\* A todo that was being sent when the process died is never queued again.
Recovered(r) ==
  IF r.claimed THEN [r EXCEPT !.claimed = FALSE, !.queuedAt = 0, !.err = TRUE] ELSE r

\* The process dies at any await, and a new one starts on its state file.
\* A request that never reached the file is gone with it.
Restarts ==
  /\ Spends("crash")
  /\ Loaded([t \in Todo |-> Recovered(file[t])])
  /\ Reconciled
  /\ move' = None
  /\ phase' = "idle"
  /\ due' = {}
  /\ job' = NoJob
  /\ cooling' = {}
  /\ wanted' = [t \in Todo |-> wanted[t] /\ (Queued(file[t]) \/ file[t].claimed)]
  /\ UNCHANGED <<now, born, asked, typed, submitted>>

DispatcherSteps ==
  \/ \E w \in Worktree : Considers(w) \/ PassesOver(w) \/ CooldownEnds(w)
  \/ Inspects
  \/ HandsBack
  \/ Waits
  \/ Claims
  \/ ClaimNotSaved
  \/ ClaimSaved
  \/ Submits
  \/ Withholds

HumanSteps ==
  \/ \E t \in Todo, w \in Worktree : CreateTodo(t, w) \/ MoveStarts(t, w)
  \/ \E t \in Todo : EditTodo(t) \/ QueueTodo(t) \/ UnqueueTodo(t) \/ DeleteTodo(t)
  \/ MoveLands
  \/ MoveRefused
  \/ \E w \in Worktree : RemoveTodosFor(w)
  \/ \E s \in Session : HumanTypes(s)

Next ==
  \/ HumanSteps
  \/ DispatcherSteps
  \/ StoreSteps
  \/ \E s \in Session : PaneChanges(s)
  \/ Restarts

Spec == Init /\ [][Next]_vars

-----------------------------------------------------------------------------
(* What is checked of TodoDispatch, and under which fairness.              *)

\* However writes fail, ptys drop and the server restarts, a prompt is typed
\* into a terminal at most once per request to run it, and submitted at most
\* once per typing (dispatch.ts: "the at-most-once decision").
AtMostOnce == \A t \in Todo : submitted[t] <= typed[t] /\ typed[t] <= asked[t]

\* From the paste until the dispatcher has settled what became of it, a crash
\* at any instant leaves a state file that cannot queue the todo again
\* ("Claimed and written to disk BEFORE a single byte goes out").
ClaimOutlivesCrash ==
  phase = "submit" => ~Queued(Recovered(file[job.todo]))

\* A claim never outlives the send that made it: a todo whose claim nothing
\* will settle would answer 409 to every edit and every delete until a restart.
NoOrphanClaim ==
  \A t \in Todo : todos[t].claimed => job.todo = t /\ phase \in {"flush", "submit"}

\* A request to run a todo is never dropped in silence: until it is served or
\* withdrawn, the todo waits in the queue, is being sent, or carries an error
\* for the human.
Accounted ==
  \A t \in Todo : wanted[t] =>
    Exists(todos[t]) /\ (Queued(todos[t]) \/ todos[t].claimed \/ todos[t].err)

\* What a Return sends for one todo is never another's prompt with it: a paste
\* whose Return was withheld, or that a crash left in the box, is the human's to
\* deal with and holds the queue back until they have (dispatch.ts: "a paste
\* sitting unsent in the input box is recoverable by a human").
LeftoverKept == phase = "submit" => pane[job.sess].box \cap Todo \subseteq {job.todo}

\* The inductive invariant behind AtMostOnce, ClaimOutlivesCrash and
\* NoOrphanClaim (proved in TodoDispatch_proofs).  A row that would still be
\* queued after a restart is a request not yet spent; so is a todo the
\* dispatcher has picked and not yet typed.
Spent(r) == ~Queued(Recovered(r))
Unspent(t) == typed[t] < asked[t]
ClaimedOrGone(r) == r.claimed \/ ~Exists(r)
Flushes(c) == {i \in 1..Len(c) : c[i] = "flush"}

\* Ids are given out once, and a claimed row has given up its place.
RowsOK ==
  /\ \A t \in Todo \ born : ~Exists(todos[t]) /\ ~Exists(file[t]) /\ ~Exists(snapshot[t])
  /\ \A t \in Todo : todos[t].claimed => Exists(todos[t]) /\ todos[t].queuedAt = 0
  /\ phase # "idle" => job.todo \in born

\* The one flush link in the chain is the one the dispatcher awaits.
ChainOK ==
  /\ writing => chain # <<>>
  /\ phase # "flush" => Flushes(chain) = {}
  /\ \A i, j \in Flushes(chain) : i = j

\* What a todo still has coming, wherever it is written down.
CreditOK ==
  /\ AtMostOnce
  /\ \A t \in Todo : Unspent(t) \/ (Spent(todos[t]) /\ Spent(file[t]) /\ Spent(snapshot[t]))
  /\ phase \in {"inspect", "judge", "flush"} => Unspent(job.todo)

\* While a todo is being sent, no row that could queue it again is written.
SendOK ==
  /\ phase \in {"flush", "submit"} => ClaimedOrGone(todos[job.todo])
  /\ phase = "flush" /\ writing /\ Head(chain) = "flush" => Spent(snapshot[job.todo])
  /\ phase = "submit" => Spent(snapshot[job.todo]) /\ Spent(file[job.todo])
  /\ phase = "submit" => submitted[job.todo] < typed[job.todo]

IInv == TypeOK /\ RowsOK /\ ChainOK /\ CreditOK /\ SendOK /\ NoOrphanClaim

\* TodoDispatch does what the ledger allows.
Ledger == INSTANCE TodoLedger
            WITH requests <- asked, pastes <- typed, returns <- submitted
ImplementsLedger == Ledger!Spec

-----------------------------------------------------------------------------
\* Timers fire and promises settle; nothing is assumed of people, of Claude, or
\* of what fails.  The debounce (250 ms) is strongly fair: a flush cancels it,
\* but ticks are 1000 ms apart, so it is not cancelled for ever.  Nor is a Claude
\* that could take a prompt found mid-turn each time: a transcript left alone for
\* IN_TURN_STALE_MS no longer says so, and output settles in SETTLE_MS.
Fairness ==
  /\ \A w \in Worktree : WF_vars(Considers(w)) /\ WF_vars(PassesOver(w)) /\ WF_vars(CooldownEnds(w))
  /\ WF_vars(Inspects)
  /\ WF_vars(HandsBack \/ Waits \/ Claims)
  /\ \A s \in Session : SF_vars(job.sess = s /\ Claims)
  /\ WF_vars(ClaimNotSaved \/ ClaimSaved)
  /\ WF_vars(Submits \/ Withholds)
  /\ SF_vars(SaveTimerFires /\ UNCHANGED <<outsideStore, left>>)
  /\ WF_vars(StoreSteps)

FairSpec == Spec /\ Fairness

\* A todo that is being sent is eventually settled: sent, put back or given up.
ClaimSettles == \A t \in Todo : todos[t].claimed ~> ~todos[t].claimed

\* Some Claude of w could take a prompt this instant, and no other is live.
Rests(w) == LiveIn(w) # {} /\ \A s \in LiveIn(w) : Sees(pane[s]) = "clear"

\* No todo waits forever beside a Claude that stays at rest.
QueueDrains == \A t \in Todo : []<>~(Queued(todos[t]) /\ Rests(todos[t].wt))
=============================================================================
