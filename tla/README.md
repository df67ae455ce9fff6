# Verification of Switchboard

TLA+ models of Switchboard, of its server (`src/server`), of the command that
updates it (`src/cli`) and of its page (`src/web`), checked with TLC on small
instances and, where a property matters for every instance, proved with TLAPS.

Switchboard runs Claude Code sessions and terminals in git worktrees.  One Node
process owns the state, a private tmux server owns the processes, browsers
watch both, and one machine may show another's.  Everything in the server runs
on one event loop: a handler runs undisturbed to its next `await`, and anything
else may run there.  The page is the same with renders and answers.  That is
where the hard behaviours are, and the models cut the code into actions at
exactly those points.  A handler that is suspended keeps what it has read; that
this may be stale is what most of the properties are about.

## 1. Inventory

| Part | State | Operations | Meets | What makes it hard | What makes it correct |
|---|---|---|---|---|---|
| State store (`state.ts`) | state in memory, file, debounce, chain of writes | patch, `scheduleSave`, `flush`, `load` | everybody's `patch*`; the dispatcher awaits `flush` | a chain of promises that may be rejected; a crash between memory and file | what was flushed is in the file; a failed write does not block later ones |
| Todo queue and dispatcher (`session/dispatch.ts`, `readiness.ts`) | `running`, the todo being sent, cooldowns | `tick`, `send`, recovery at start | store, engine, transcript, routes | six awaits between choosing a todo and pressing Return on it | a prompt is typed at most once per request, and no request is lost in silence |
| Todo routes (`workspace.ts` 983-1078) | rows of the store | create, edit, queue, unqueue, move, delete | dispatcher | a check before an await, a patch after it | a todo being sent is left alone |
| Session engine (`session/engine.ts`, `tmux.ts`) | map of live sessions, pty, mirror, liveness | create, kill, respawn, poll, reap, reattach, reconcile | tmux by awaited commands; routes; dispatcher | tmux survives the engine; answers older than the model they are applied to; timers racing kills | one client per session, live means readable, nothing in tmux out of reach |
| Terminal stream (`engine.ts` attach, `mirror.ts`, `routes/ws.ts`, `socket.ts`) | attachments, size and input owners, pending output; a page's views | attach, detach, focus, resize, flush | engine, browsers | a snapshot awaited while output goes on; a socket that closes with requests in it | a viewer's screen is the session's, at its size |
| Attention and transcripts (`attention.ts`, `claude.ts`, `engine.ts`) | what was read of a transcript; the label | read incrementally, judge a screen, look | snapshot, poll, idle timer | readers racing over one remembered offset; a screen and a file that disagree | every prompt told once; never green in a turn; right in the end |
| Workspace (`workspace.ts`, `routes/api.ts`) | listing cache and generation, awake list, chain of its writes | list, create, wake, sleep, remove, close, open | git, store, engine | results of older listings; several writers of one list | no stale listing is cached; no mark is lost; nothing outlives a removal |
| Branches (`git/worktree.ts`, `selectors.ts`, `RemoveWorktreeDialog.tsx`) | refs, the remote's copy, what the snapshot said of them | judge, ask, remove | git, the remote, an agent at work | judged in a snapshot, deleted later | nothing goes that was not agreed to go |
| Login (`auth.ts`, `gate.ts`, `routes/auth.ts`) | record, throttle, sessions, tickets, sockets | login, slide, ticket, upgrade, re-check | every request, every socket | clocks, single use, sockets that outlive their session | the ramp cannot be skipped; a key's sockets die with it; a page is not put out for nothing |
| Linked machines (`remote/`) | registry, relay per browser, merged snapshot and its memory | link, dial, replay, proxy | browser socket, the other server | reconnects with frames in flight; stream numbers of three parties | no pane shows another session; every pane is fed again |
| Update and pull (`update.ts`, `cli/src/pull.js`, `service.js`, `UpdateBanner.tsx`) | lock file, checkout, build, skipped commit; the check and the banner | check, wait for quiet, pull, restart, roll back | git, systemd, the page | the server is replaced by its own child | a server runs afterwards; a bad commit is tried once |
| Files panel (`files.ts`, `FilesPane.tsx`, `CodeEditor.tsx`) | disk; open file, drafts, revs | read, poll, save, drop | the agent's own writes | check-then-act; answers for a file no longer open | a text stays its own file's; a rev is its text's |
| Changes panel (`git/changes.ts`, `ChangesPane.tsx`) | git; listing, patch, selection | poll, select | the agent's commits | git asked in several commands | nothing is missed; the page catches up |
| Opening a project (`OpenProjectDialog.tsx`, `workspace.ts`) | disk; dialog, its reads and proposals | browse, open, create, link, forget | several machines | answers of another machine or of an earlier dialog | what is opened on a machine was given for it |
| Usage (`usage.ts`, `UsageRings.tsx`) | a reading per machine, the page's rings | read, gather, poll | a process of Claude's | a cache and a poll of equal length | one reading per interval; bounded age |
| Row and store of the page (`store.ts`, `App.tsx`, `Overview.tsx`, `overviewLayout.ts`) | snapshot, layout, pending clicks, departing windows | refresh, click, adopt, save, walk | server, other pages | unsequenced reads, a debounced save, panels that close by themselves | it follows the server; the layout comes back; a click shows |
| Server assembly, command line, cloud scripts, types | process plumbing | | | | not modelled |

`PROJECT.json` lists the same parts with their sources, and the hazards of the
code at the lines where they bite.

## 2. Modules

| Module | Models |
|---|---|
| `StateStore` | `state.ts`: the todos in memory and on disk, the debounced save, `flush()`, the chain `saving`, the atomic write, `load()` |
| `ClaudePane` | a Claude session as the dispatcher sees it through the engine |
| `TodoDispatch` | composes both with the todo routes and with `createDispatcher`; its fairness and inductive invariant |
| `TodoLedger` | the abstract specification of the queue: each request is typed at most once, each typing submitted at most once |
| `SessionEngine` | `engine.ts` and `tmux.ts`: create, kill, respawn, poll, reap, lost ptys and reattach timers, restart |
| `TerminalStream` | attach, detach, resize, focus, pruning, output and snapshots of one session, and each page's socket and views |
| `Worktrees` | listings, the awake list and its writes, the requests on worktrees, what follows a wake whose Claude refuses |
| `Branches` | a branch, its worktree, its copy and the default branch; the snapshot, the questions and the removal |
| `Pull`, `Update` | `pnpm pull`; the server that runs it on itself, and the banner. `Update` extends `Pull`, which is over `Chances` |
| `Login`, `Access` | the record, the throttle and the hash queue; cookies, tickets, sockets and one page. `Access` extends `Login` |
| `Relay`, `Machines` | a browser's socket extended to a linked machine; the gateway around it. `Machines` extends `Relay` |
| `RowLayout`, `Row` | the row of windows as arithmetic; the page's store, clicks, panels and keyboard. `Row` extends `RowLayout` |
| `Transcript`, `Conversation`, `Attention` | what the lines of a transcript say; who writes and reads them; the label. Each extends the one before |
| `Files`, `Changes`, `Opening`, `Usage` | the four panels that read a machine and follow it, each over `Chances`, the bounds of what comes from outside |
| `MCTodoDispatch` ... `MCPanels` | instances for TLC. `MCPanels` composes the four panels, `MCTerminalStream` confines the stream to two scenes |
| `TodoDispatch_proofs`, `EngineMachines_proofs`, `TerminalStream_proofs`, `Worktrees_proofs`, `Access_proofs`, `BranchesAttention_proofs`, `PanelsUpdate_proofs`, `Row_proofs` | the theorems of section 6 |

Each module ends with what is checked of it.  What a comment of the code
promises is quoted in the comment of the property that states it.

### How state and actions correspond to the code

**Todo queue.**  A row of the store is `[wt, queuedAt, claimed, err]`:
`queuedAt` is the place in the queue (0: none), `claimed` is `dispatchingAt`,
`err` is `error`.  `phase` says at which await the dispatcher is suspended:

| `phase` | await in the code | action that continues |
|---|---|---|
| `idle` | the interval, or the next worktree of the tick | `Considers`, `PassesOver` |
| `inspect` | `inspect()` | `Inspects` |
| `judge` | `pathFor()`, `turnState()` | `HandsBack`, `Waits`, `Claims` |
| `flush` | `store.flush()` after the claim | `ClaimSaved` (and the paste), `ClaimNotSaved` |
| `submit` | `SUBMIT_DELAY_MS`, then `inspect()` | `Submits`, `Withholds` |

`job` is what its local variables hold over those awaits.  `updateTodo` with a
`worktreeId` is two actions (`MoveStarts`, `MoveLands`), because it awaits
`resolve()` between its 409 check and its patch; every other route is one.
`asked`, `typed`, `submitted` and `wanted` are history variables.  `StateStore`
keeps the promise chain: `chain` is its unsettled links, `broken` that the last
one was rejected.  A debounced save swallows the rejection, a flush passes it
on, and a link after a rejected flush settles without writing.

**Session engine.**  An action is the code up to tmux having done a command, or
from its answer to the next await.  `pane`, `tagged` and `clients` are tmux's;
`sessions`, `dead`, `mirrorGone`, `pty`, `disposed`, `tries` the engine's;
`creating`, `killing`, `revives`, `lost` and `delayed` its calls and timers in
flight; `listing` and `seen` the poll's.  Several respawns, lost ptys and timers
of one session may be in flight at once, so they are counters.

**Terminal stream.**  `live` is what `LiveSession` keeps of its viewers: an
attachment per sink, whose stream number is also its place in the `Map`, the two
owners and the geometry.  `attach()` is cut at its await: `HandlesAttach` up to
the snapshot, `Answers` after it.  `produced` counts the chunks in the mirror,
`flushed` those sent, so the difference is `pendingOut`.  `up[k]` and `down[k]`
are what is on its way on a connection; `wire[k]` is what the server knows of
it, `sock[p]` what the page knows, and a break may reach either first.  A view's
`screen` is the sequence of chunks written to it since it was last cleared, so a
repeated, skipped or misplaced chunk can be seen in it.  A snapshot holds
at least the chunks the mirror had been given when it was asked for and at most
those it has been given since; `short` is a history of the snapshots that lacked
output the timer had already sent.

**Worktrees.**  A request is a record of `calls`: `op`, the worktrees it is
about, `at` the await it is suspended at, and, while it lists, `io` (git asked,
git read, answer landed) and the listing it got.  `since` is a history of what
git had since the last invalidate, `woken` of what was woken and not put to
sleep, `cleared` of what was removed with no other request about it.

**Branches.**  A piece of work is a number: first an uncommitted change, then a
commit; a ref is the set of commits it reaches.  A squash merge adds to what the
default branch's files hold (`has`), not to what it reaches (`ids`).  `req[r]`
is one removal, from the snapshot its page reads (in three steps, as
`worktrees()` asks git three times) to its answer; `agreed` and `known` keep
what its boxes named and what it was told.  `taken` is a history of what a
removal destroyed and why.

**Update.**  The checkout, the build in `server/dist`, `run.json` and the server
process are state of their own, the default branch a line of commits with a fate
each: good, unbuildable or unstartable.  A pull is suspended between any two
commands; one refused by the lock is a stage of its own (`refused`), as it exits
before it has the handler that removes locks.  `spoilt` names what may excuse a
machine left dark; `passed` are the pulls that another got past since they were
started, `met` that one of those went on all the same.  `autos` counts the calls
of `startUpdate` that `consider()` made and that wait; one that finds the check
old joins another like a request (`asks["retry"]`).  `banner.sure` is a history:
the click was accepted by the server that still runs its pull.

**Access.**  Time goes by in ticks, one longer than a request takes.  `claims`
are the slots given out, `onWay` the page's requests, `died` when each key was
replaced; `page.chose` says the page signed out, `page.unlucky` that what was
refused was not the session in the jar.

**Machines.**  A link is a record of its socket, what is on its way each way,
what it remembers for the browser (`attached`, `focused`) and what the machine
holds for it (`far`).  Streams are numbered by two engines and the relay.

**Row.**  `page` is what the page shows and owns, `reads` and `calls` what is
under way, `writes` the layout writes, `server` what a snapshot says.

**Attention.**  A transcript is a sequence of lines, a screen one of rows, each
only of the kind the code's expressions tell apart.  A listing looks at the
directory and reads later; a look at a session awaits the transcript.

**Panels.**  In `Files` a text knows the file it was written for, so text of one
file under another's name can be told.  In `Changes` a text and a commit are
numbers, and the listing and the patch are read one git command at a time.  In
`Opening` everything carries the machine it was read from or typed for.  In
`Usage` a reading keeps when it was asked for and of when its numbers are.

## 3. Runs

| Run | Instance | Shows | States |
|---|---|---|---|
| `dispatch` | two todos, two worktrees, one Claude; six mixes: a key, a lost pty or process, a failed write, a repeated request with a crash, a crash and a failed write, a move | `ClaimOutlivesCrash`, `Accounted`, `LeftoverKept`, `ImplementsLedger`; live: `ClaimSettles`, `QueueDrains` | 447,937 |
| `sessions` | a Claude and a terminal; one crash, one failed command, one hand on tmux, one respawn | `Reachable`; live: `DeathNoticed`, `Reattached` | 1,294,979 |
| `stream` | two scenes: one page with a window and a tile, mounts, an unmount, a lost connection and two chunks; two machines with a window each, a focus, a resize, a lost connection | `NoGap`, `InStep` | 2,904,555 |
| `worktrees` | two worktrees, two requests in flight, five mixes | `CacheFresh`, `WokenKept`, `RemovedAlone` | 1,096,263 |
| `update` | three commits of every fate, two pulls, four mixes | `ComesBack`, `TriedOnce`, `WaitsThrough` | 7,259,207 |
| `access` | three callers, two keys, four scenarios | `RampKept`, `Revoked`, `StaysIn` | 2,567,075 |
| `machines` | a gateway, a machine, one page; two session ids on each; seven scenarios | `OutputToOwner`, `Fed` | 1,838,553 |
| `row` | two worktrees in a row, ten mixes, widths of two to six half panes | `Follows`, `PanelKept`, `LayoutSaved`, `AskedShown`, `Revealable` | 1,971,099 |
| `branches` | one branch and its worktree, two removals, seven mixes | `UnforcedKeepsMine`, `LossAgreed`, `RefusalCostsNothing` | 2,436,311 |
| `attention` | two transcripts, two listings, two looks, twelve mixes | `Told`, `NotGreenInTurn`; live: `Settles` | 264,860 |
| `panels` | the four panels, one alive in a behaviour, nineteen mixes | `OwnText`, `RevOfText`, `NothingMissed`, `OnItsMachine`, `Paced`; live: `FollowsDisk`, `CatchesUp` | 1,331,245 |
| `unasked` | as `branches` | a violation: a clean worktree on a detached HEAD is removed without a question and its commits go (`TakesNothingUnasked`) | |

Every property has a mutant of the code, a plausible slip in one mapped
definition, under which its run fails: the run is not satisfied by everything.

### Bounds, and why they are enough

A mix (`left`, `Limit`, `Limits`) bounds what happens from outside, never what
the code does in response.  Where a run has several mixes, a behaviour has one
of them: the mixes put together what can meet in one hazard, and leave apart
what only multiplies states.

* `dispatch`: `MaxChain` is how many writes wait before a debounced save is
  appended; one more would be the same save again.  One `updateTodo` is
  suspended at a time.  One Claude and two worktrees are what a move needs, two
  todos what order and ties need.  The run starts with two todos queued, or with
  an empty store.
* `sessions`: `MaxReattach` is 5 in the code and 1 here: the code only compares
  the count with it.  Two sessions are what a walk of the map needs, one of each
  kind, since only terminals are reaped.
* `stream`: two mounts, so that a view can go while another stays, or come back
  while its first attach is unanswered; two chunks, so that one can be in the
  snapshot and one after it; one drop, so that everything is attached twice.
  Two machines whose rooms differ are what an owner means; geometry does not
  depend on output, so that scene prints nothing.  A snapshot may
  lack any of what the mirror was given while it was awaited.
* `worktrees`: one project, two requests in flight out of five mixes (two wakes
  that may bounce; wake, remove, sleep and a todo; create, remove, wake and a
  fault; poll and hands on git; close and reopen).
* `update`: an event-loop turn is atomic (`InTurn`), one page reads at a time,
  `MaxStarts` bounds the servers, and a fault is a command that fails or a start
  that is given up after its 20 seconds.  A second lockfile exists so that an install
  may be skipped.
* `access`: requests take less than a tick, one snapshot is in flight, a
  handler's turn reads the clock once.  The constants keep the code's order
  (step below maximum below decay; ticket below idle below absolute), not its
  values.  Scenarios: a flood of guesses over two decay periods; one page across
  a restart and a lost line; a password changed under a page and a gateway; a
  page left open until its session runs out.
* `machines`: at most two overlapping reads, three links, three tokens; the far
  side answers an attach at once; a frame takes time between the machines and
  none between page and gateway.
* `row`: two worktrees beside the main one, two reads, two requests and two
  layout writes under way, one wake and one sleep, a snapshot taken in one step.
  `Revealable` is evaluated at widths from one pane to three.
* `branches`: one branch, one remote, pushes that are fast-forwards, a HEAD that
  is detached and not attached again, a page's boxes judged when it submits.
  Two pages and two pushes are what one removal needs to take away what another
  was counting on.
* `attention`: windows of two and four lines and a tail of three stand for the
  code's byte windows, one follow-up for the code's three, one look per caller.
* `panels`: two files; six texts and revs; two reads and two saves at once; `Recent` of three commits; three paths on two machines; two machines
  with an interval of three ticks.

Ids are random in the code and never used again, so they run out, as do mounts,
chunks and requests: these runs may stop, and do not check for deadlock.  The
dispatcher's run does check.

### Fairness

Timers fire, promises settle, requests are answered and polls go round (weak
fairness of each continuation).  Nothing is assumed of people, of Claude, of
tmux hands or of faults.  Beyond that:

* `TodoDispatch`: two steps are strongly fair.  The debounced save: a flush
  cancels its timer, but the debounce is 250 ms and ticks are 1000 ms apart, so
  it is not cancelled each time.  And the claim: whether the transcript says a
  turn is running is a free choice in the model, but the code stops believing it
  after `IN_TURN_STALE_MS`, and output settles within `SETTLE_MS`.
* `Attention`: time passes, Claude comes to draw what it does, and each caller's
  look goes on.
* `MCPanels`: the machine answers, the browser hears, the intervals go on; git
  is slower than the changes panel's interval only as often as `late` says.

## 4. What the properties are for

The hazards that `PROJECT.json` lists, by the kind of thing that goes wrong:

* **State read before an await and used after it**: `CacheFresh`, `Accounted`,
  `RevOfText`, `OwnText`, `NothingMissed`, `OnItsMachine`, `LossAgreed`,
  `UnforcedKeepsMine`, `TakesNothingUnasked`.
* **A crash or a failure between two steps**: `ClaimOutlivesCrash`,
  `ImplementsLedger`, `LeftoverKept`, `Reachable`, `ComesBack`,
  `RefusalCostsNothing`, `QueueDrains`.
* **Answers in another order than the questions**: `Follows`, `AskedShown`,
  `WaitsThrough`, `NoGap`, `Told`, `LayoutSaved`.
* **Two writers, or one that writes in several places**: `WokenKept`,
  `RemovedAlone`, `PanelKept`.
* **A connection that comes back**: `InStep`, `OutputToOwner`, `Fed`, `StaysIn`.
* **Clocks and counters at a limit**: `RampKept`, `Revoked`, `Paced`,
  `TriedOnce`, `Revealable`.
* **Something that must happen in the end**: `ClaimSettles`, `DeathNoticed`,
  `Reattached`, `Settles`, `FollowsDisk`, `CatchesUp`, `QueueDrains`.

Where the code does not keep a promise in some corner, the property names the
corner instead of leaving it out of the model: a history variable records that
it was entered (`unlucky`, `orphans`, `strayed`, `unsaid`, `slipped`, `crossed`,
`met`, `blind`, `spoilt`, `short`), and the property holds of every behaviour
that does not enter it.  Section 5 says what each corner is.

## 5. What the models show of the code

Behaviours of the code found while modelling, checking or proving.  One is kept
as a run that TLC must find violated (`unasked`); the others are excuses of a
property, or outside of what one claims.

**Dispatcher.**  A todo moved while the tick awaits is typed into the Claude of
the worktree it left (`dispatch.ts:204`).  A move's 409 check precedes its await
(`workspace.ts:1036`), so a todo being sent can be moved.  A draft typed between
the readiness check and the paste is submitted with the prompt
(`dispatch.ts:168` asks only that the box contain its opening), and so is any
collapsed paste (`[Pasted text #n]`) or a draft that contains the first 24
characters of the prompt: what the Return sends need not be what was pasted.
No property repeats that guard; `LeftoverKept` says what holds, that another
todo's prompt is never in the box with the one it is pressed for.  A todo put back
after a failed flush may tie with one queued meanwhile under a clock that stood
still.

**Session engine.**  A poll that walks the map with an older listing declares a
session created or respawned meanwhile dead (`engine.ts:696`).  A tmux command
that fails after `new-session`, or a kill that tmux refused, leaves a session
that nothing lists (the reason for `left["fault"]` in `Reachable`).

**Terminal stream.**  Output in `pendingOut` when a view attaches is in its
snapshot and sent once more by the next flush (`engine.ts:943`): `NoGap` claims
no gap, and not that nothing is repeated.  Output
whose timer runs out while a snapshot waits behind a parsing backlog is in
neither the snapshot nor the stream, and the view stays behind until it is
painted again: `NoGap` and `InStep` excuse what a view's own snapshot lacked
(`short`), and nothing else.  After a reconnect the page that
holds the focus may be without the input authority (`engine.ts:475`).

**Worktrees.**  Requests that cross a removal may leave a todo, a mark or a
Claude behind: `RemovedAlone` is of a removal nobody gets in the way of.
Closing a project whose list is unrecorded and then writing the first mark
loses what ran.  A listing git read before a worktree was created may drop its
new mark.  A failing wake or removal leaves its change unannounced.  Two wakes
of one worktree start two Claudes (`App.tsx:574`).

**Branches.**  `unmergedCount` answers 0 where it cannot compare, so a branch
"goes anyway", and with discard ticked `branch -D` deletes unmerged commits
(`blind`).  Two removals of one worktree: the branch one page chose to keep can
go with the other's removal, and then the copy, its last holder, with the
first's push, although it was known and not agreed to (`met`; found by the
proof, whose invariant failed on it, and confirmed by TLC).  The default branch
is cached for the life of the process, a null included when a remote is added
later.  The lease compares with the tracking ref at the push, not with the one
the snapshot judged.  A squash-merged branch that "goes with it" is refused by
`branch -d` and silently stays.  A locked worktree, or one changed after the
check, is refused only after its sessions were killed (`RefusalCostsNothing`).
The dialog offers no force when it does not know whether there are changes.

**Update.**  A pull that finds the checkout already moved has no way back and
may leave the machine dark (`pull.js:259`).  Two pulls may both take the lock
(`pull.js:170`).  A failed `pnpm install` after the merge makes the next
automatic pull skip the install; what that one leaves when it rolls back is not
the dependencies of what it came from (`older`, which the proof needed of a
build that is not the one that runs as well).  A pull started beside another,
and one that another got past before it had the lock, may give a commit up that
the other had given up (`met`; found by the proof, as `failed` is read before
the lock is taken).  `updateWhenQuiet` may join a fetch begun before it asked.
A server given up on after 20 seconds (`service.js:200`) may still come up: the
commit is then remembered as failed, and rolled back, though it runs; the way
back finds the server running and stops it.

**Access.**  `disconnect()` does not cancel an `open()` that awaits its ticket.
A restart, an expiry or an eviction between ticket and upgrade shows the login
though the cookie is good; so does a socket refused just before a fresh login
answers (found by the proof), and a ticket request sent before a login and
refused after it (all of them `unlucky`).  A socket's session is fixed at its
ticket while the cookie slides, so a page open for a week is shown the login.
A snapshot answered after a sign-out sets `authed` again.  The comment at
`auth.ts:404` ("gone within a minute") does not hold: attempts are uncapped.

**Linked machines.**  Linking again starts a relay with nothing attached, and
the page does not attach again: its remote panes are dead until a reload
(`orphans`).  A pane mounted on the new link dies as well if the old one, whose
socket is closing, still answers it: its late `attached` takes the pane's stream
in the page's map, and is itself closed (found by the proof of `Fed`, confirmed
by TLC, and now one of the run's scenarios).  A snapshot read in flight over an unlinking sets what is
remembered again.  Older answers may land last, and overwrite attention that
was pushed.  A machine linked and first read just before a crash may lose its
remembered tabs.

**Row and store.**  A reopened socket does not itself read the snapshot again
(`socket.ts:104`), nor is a change between the first snapshot and the first open
socket read.  Refreshes are not sequenced (`store.ts:194`): an overtaken answer
may land last, or clear the banner of a read that failed after it (`stale`,
`fresh`).  Two panels closing in one render lose one (`App.tsx` 754-822).
`terminalsGone` can move the keyboard into a departing window.  Waking, sleeping
and waking with both wakes in flight drops the pending mark early, and so does
sleeping, waking and sleeping: the first one's answer takes the mark of both
(`clicked` is then "none"; found by the proof of `AskedShown`).  A snapshot
taken when a worktree's shells had all exited, which lands after a new one was
opened and the worktree was put to sleep, closes its panel (`TerminalsOpen`
leaves it out; found by the proof of `PanelKept`).  A reload
within the 200 ms debounce loses the change, a failed layout write is dropped
in silence, and two pages overwrite each other's `panels` (`strayed`).  A
failed removal leaves the terminals it killed unannounced (`unsaid`).

**Attention.**  A mark cached for a write in the same tick of the file's clock
stays until the next write (`Slipped`).  A listing whose `stat` is older than
another's finished read seeds the window again.  A turn begun by a background
task has no prompt mark, so only the spinner keeps it from green.  After a
respawn the empty mirror and the old conversation's mark read idle at once.  A
dialog with unnumbered options and no footer reads finished.  Half a minute's
silence in a turn leaves the screen alone to judge.

**Files.**  A read that lands while a draft is open brings a newer rev, and the
next save replaces the agent's edit without a conflict (`FilesPane.tsx:481`,
`files.ts:903` says otherwise).  Keystrokes typed while a save is in flight are
dropped by its success (610-615).  `revert` has no dependencies and discards the
draft of the file open at the first render (646-654).  A late stale answer sets
the conflict without comparing paths (618-625).  A save answered while the same
file's re-read is pending sets the rev of the other (`slipped`, "read"), and an
agent's write between `writeFile` and `stat` is taken for the page's own
(`slipped`, "stat", `files.ts:937`).  An upload renames over a file that
appeared meanwhile (`files.ts:996`).

**Changes.**  An answer slower than the 3 s interval is always discarded
(`late`).  A patch stays until the next one answers, or for good if that fails.

**Opening.**  A first commit refused for want of an author leaves a repository
without a HEAD, and a second try opens it.  "Create" at a missing path inside a
repository makes the directory and opens the enclosing repository.  A forget
answered while a path on that machine is being opened carries the refusal's
proposal under "This machine" (`crossed`), and confirming makes the repository
here.  `removeServer` never refuses, though its comment says that a machine with
projects does.  An open that answers after a cancel takes down whatever dialog
is up.  A listing's answer overwrites a path typed meanwhile.

**Usage.**  The page polls as often as a reading is kept, and the reading is
stamped a little later, so every second poll is served from the cache: numbers
are up to ten minutes old, where the comment says five (`Paced` is of two
intervals).  After a failed read the numbers and their time are of different
moments.

## 6. Theorems

Each holds for every value of the constants that its module's named assumption
allows (`StoreAssumption`, `DispatchAssumption`, `EngineAssumption`,
`StreamAssumption`, `WorktreesAssumption`, `LoginAssumption`,
`AccessAssumption`, `BranchesAssumption`, `ChancesAssumption`,
`FilesAssumption`, `ChangesAssumption`, `OpeningAssumption`,
`UsageAssumption`, `PullAssumption`, `UpdateAssumption`, `RowAssumption`,
`RelayAssumption`, `TranscriptAssumption`, `ConversationAssumption`): any number
of todos, sessions, worktrees, requests, pages, removals, files, commits, pulls,
links, tokens, guesses, transcripts and listings, and any bounds.  Of the
session ids of `Relay` it is assumed that they are finitely many, and of the
throttle that the longest delay is reached before the exponent's cap, as the
code's 250 ms and 5 s are.  That `Absent` is no commit, no lock and no record is
all that is assumed of it.  TLC evaluates the assumptions in the runs.
All are theorems of the specification's `Spec` (`UpdateSpec`, `MachinesSpec`,
`AttentionSpec`), without fairness; a run's
`MixedSpec` or `SceneSpec` differs from it as section 3 says.

### The queue (`TodoDispatch_proofs`)

`TypeCorrect`, `Inductive`, `AtMostOnceHolds`, `ClaimOutlivesCrashHolds`,
`NoOrphanClaimHolds`, `ImplementsLedgerHolds`, `LeftoverKeptHolds`,
`AccountedHolds`.

`AtMostOnce` alone is not inductive: whether a typing is still allowed depends
on every place a row is written down.  `IInv` says that a row that would be
queued after a restart, in memory, in the file or in the write in flight, is a
request not yet spent (`CreditOK`); that none of the three holds such a row for
the todo being sent once the flush link has written (`SendOK`); that there is
one flush link (`ChainOK`); and that claimed rows have given up their place
(`RowsOK`).  The refinement of `TodoLedger` goes step by step: each step is the
ledger's or stutters.  `Accounted` needs what is on disk as well, since a crash
makes it the present: no claim is written without its todo (`FileOK`), and a
send that is to put its todo back holds a place for it (`PlaceOK`).
`LeftoverKept` needs that there was no prompt in the box when Claude was found
ready, and that none but the dispatcher's comes while it judges and claims
(`BoxInv`, `NoPromptAppears`).

### The engine (`EngineMachines_proofs`)

`EngineInductive`, `EngineTypeCorrect`, `OneClientHolds`, `LiveHasScreenHolds`,
`DeadShellGoneHolds`, `ReachableHolds`.  `IInv` adds that a session whose
`create()` has not landed has nothing in flight (`Untouched`), that a mirror is
only gone from a session that is dead, and that while no command has failed a
tagged session is neither half made nor already killed.

### The stream (`TerminalStream_proofs`)

`StreamInductive`, `StreamTypeCorrect`, `ClosedHoldsNothingHolds`,
`NoGapHolds`, `InStepHolds`.  The types are not routine: the newest attachment
is chosen when the owner of the size has gone, and exists because stream numbers
in use were given out before (`InOrder`); without it the geometry `applySize`
picks has no type.

The last two hold of every snapshot the mirror may give, late ones included: what
a view may lack is what its own snapshot lacked, and nothing else opens a gap.
`short` names such a snapshot by its stream, how far it reached and how far had
been sent, so a gap elsewhere, or of another view, is not excused by it.

*What is on its way* (`GapOK`).  For every stream number a page knows, or will
from an `attached` on its way, the frames behind it take up where it left: each
begins no later than those before it end, or is the first after a snapshot that
lacked what is missing (`Reach`, `Smooth`), and of the stream in use
they end with all that was flushed (`Ends`).  So it is after each frame
(`FlowOK`) and of each painted view with what it shows (`ShowsOK`).  A page knows
one number at a time, and numbers are never given out twice, so frames of an
attachment that was replaced are of no number it will learn.

*What is still to be said* (`StepOK`), of each page with its open connection.  A
page with views has an attachment or an attach on its way that no later detach
undoes, one with a window has one that sizes, and where it resizes its request
comes after that (`RequestsOK`).  The last answer the page will get carries the
stream in use (`AnsweredOK`), the last size that comes to a page that knows it
is the session's (`SizedOK`), and a view in another geometry has asked for its
own (`FitsOK`).  At rest there is nothing left to come, and what is left of these
is `InStep`.

### The workspace (`Worktrees_proofs`)

`WorktreesInductive`, `WorktreesTyped`, `CacheStaysFresh`, `WokenStaysMarked`,
`RemovalLeavesNothing`.  `IInv` says what every suspended request may rely on: a
listing that will be cached is one of what git had since the last invalidate,
and while the project is closed it lists nothing (`ListingsOK`); until the list
is recorded what counts as awake is what runs, and every listing that may seed
it has that (`SeedOK`); who seeds has the turn (`TurnsOK`); a request that is
alone shares its worktree with none (`AloneOK`), and no Claude is left where a
removal that is alone has killed them (`RemovingOK`).

### Access (`Access_proofs`)

`SocketsRevoked` rests on when things were read: a record read before it was
replaced was read before its key died (`HeldOK`), and a socket of a dead key
was let in before that was known and is due again within the re-check
(`SocketOK`).  `LoginOnlyWhenOut` rests on a lineage (`SInv`): within a tick
there is one cookie that all requests under way started from, and every other
token about was given out or slid in this tick; so when the login is up and
nothing excuses it, neither the jar nor anything that may yet be stored in it
is good (`Barred`).

`RampIsKept` counts (`Counted`): of the guesses made within the time in which
one is forgotten, `attempts` holds all from each one on, but for at most one
forgotten since, so a guess's delay has doubled once for each before it but the
last.  That delays grow and stay numbers is shown of `Doubled`, the powers of
two, by the least number of which it would not be so.

### Branches (`BranchesAttention_proofs`)

`UnforcedKeepsMineHolds`, `LossAgreedHolds`, `RefusalCostsNothingHolds`.  For
the first, what a default branch reaches is in its files (`IdsHeld`): what
`branch -d` deletes is still held.  The other two rest on `JInv`, which says of
each page what its snapshot still tells of the world while no other removal has
taken the worktree (`PageOK`): what was known is in the fetched copy, in the
changes or on the branch; a copy that was "spent" and commits that were not
"unmerged" have landed, and what has landed stays landed (`Landed`).  `WorkOK`
carries that to the removal: forced, the changes it knew of were agreed to; with
the copy, all it knew of is agreed to, still held or landed; with the branch, so
is what is on it.  Then each of the three steps that destroy anything is shown
to destroy only work with a reason (`Excused`).  Work that appears later is told
apart by its number (`NumbersOK`, `Grows`).

### Attention (`BranchesAttention_proofs`)

`PromptsTold`, `NotGreen`.  The first rests on lemmas about reading lines in
parts: the prompts of some lines are those up to a place and those after it
(`PromptsJoin`), and folding the one and then the other is folding both
(`FoldOn`), because what is kept of the follow-ups is their end, and the end of
an end is the end of the whole (`KeepAgain`); the newest last-prompt record goes
the same way (`RecordedJoin`).  None of them reads a line further on than it is
asked to (`PromptsSame`, `FoldSame`, `RecordedSame`), so what was told of a file
is told of it when it has grown.  The invariant (`TInv`) says that what
promptSummary remembers, and what each call remembered when it began to read, is
told from one line on; that line is where the first look began, and stays.

For the second, while a turn lasts no transcript was written as late as its own
(`TopOK`), so a look that found one in this turn reads that one (`LookOK`).

### The panels (`PanelsUpdate_proofs`)

`NothingIsMissed` (`CInv`): what a commit of the line holds other than its base,
one since brought in (`LineOK`), so what has differed all along is in the status
already or in a commit still to be read (`ListOK`).  `UsageIsPaced` (`UInv`):
what a machine started last is running, or in the cache with its time
(`PaceOK`); a request's answers are recent when it began, and the next poll is
never more than an interval off (`AskedOK`, `RingsOK`).  `TextsStayOwn` and
`RevIsOfText` (`FInv`): each read and each save in flight carries a text and a
rev of its own file, and what the page holds is of the file it was read for, not
necessarily of the open one (`HoldsOwn`).  `OpenedOnItsMachine` (`OInv`): a read
still wanted is of the machine the dialog shows (`AskOK`), and an open or a link
under way for this dialog is all it waits for (`AloneOK`).  Each panel's
invariant is kept by its own steps; the others' leave what it reads alone.

### The update (`PanelsUpdate_proofs`)

`UpdateTypes`, `ServerComesBack`, `CommitTriedOnce`, `WaitGoesOn`.  Under all of
them the commits are in line: a pull moves the checkout from `before` to
`after`, and neither is beyond what was fetched (`OriginOK`).  For the first, the
server runs what was built last unless a pull is about to stop it (`ServerOK`);
one that was started but has not answered may have been given up, and comes up
all the same (`Coming`); and while nothing is spoilt there is one pull past the lock, whose every stage
says what it can still go back to: a commit that builds and comes up, with its
dependencies there or to be installed again (`WayOK`).

`TriedOnce` rests on a commit's being remembered, or being over (origin is
beyond it, or it is behind every pull for good), or about to be remembered by the
pull that rolls back (`GivenUpOK`).  `failed` holds only one commit, so that is
not enough: everything that has decided to pull by itself, a check, a call of
`startUpdate` that waits, a pull under way, goes beyond each commit given up
(`DecidedOK`).  That in turn needs that while no two pulls have met, there is one
past the lock (`LoneOK`), and that it is the child of the server that runs, which
knows it is updating (`OwnOK`, `ChildOK`, `MemoryOK`), or else of the server it
started itself and gave up: that one runs what was pulled (`BuiltOK`,
`RunsAhead`), and a server that answers finds itself behind nothing but a newer
commit (`NewsOK`).  `WaitsThrough` needs that
the only read that may end a wait was asked since it began (`WaitOK`).

### The row (`Row_proofs`)

`RowTypes`, `WindowShownWhole`, `EveryWindowInReach`, `PageFollows`,
`LayoutComesBack`, `PanelOutlivesSleep`, `ClickIsShown`.

*Windows.*  `Cells` lays windows one after the other, none wider than the screen
(`Lays`, `Fits`), shown for every row by its least counterexample (`LeastOf`),
as no induction theorem can be instantiated; of each window's leading edge and
the far end one is a rest that shows it whole.  So every window can be reached
from wherever the row rests, at every width from two half panes on
(`AlwaysRevealable`), in particular at those of `Revealable`.

*Reads.*  `before` orders the reads that were taken (`ReadsOK`).  Once the page
was told of the last change and none of its reads waits for the server, either
the read taken last is still on its way, unmarked and with what is true, or
every read on its way is marked as overtaken and the page shows what is true
unless it says that it may not (`NewsOK`; `DaysOK` for the days, the one key that
every read brings).

*Layout saved.*  Each other key is waiting to be written, or the last write that
has it carries what the page shows, or no write has it and the server does
(`Kept`, `LayoutOK`).  Before the first snapshot the page has nothing of its own
to write (`BareOK`).

*Panels and clicks.*  A worktree whose panel lost its terminals to its sleep is
asleep, and every snapshot on its way says so or is from before (`LostOK`, with
`ThereOK`: what is removed does not come back).  The last click's request is the
only one of its kind that is out, so only its own answer takes its mark
(`AskedOK`).

### Linked machines (`EngineMachines_proofs`)

`MachinesTyped`, `StreamsHold`, `OutputReachesOwner`, `PanesStayFed`.

*Whose a number is* (`StreamsOK`).  A link carries one life of the machine: it
holds nothing before it is open, each of the machine's numbers names one session
on it, and while it is open the machine goes on counting from there (`LifeOK`).
A machine that restarts counts from one again, but the links of its earlier life
are dying, and are emptied before they open again.  The link in use is neither
closed nor mute, and a page that is away has none (`HomeOK`).  What this
machine's engine has numbered shows the session it is of (`NearOK`); so does
what a relay has numbered, which is above `Base` and no higher than it has
counted (`OursOK`).  Hence `OutputToOwner`, as long as this machine's engine has
not counted beyond `Base` (`Apart`): there the code's numbers would collide.

*What is on its way* (`FedOK`).  A link's `attached` is what the page's panes are
(`PanesOK`).  While its socket is open, what it has attached is what the machine
holds once all that is on its way there has been done (`WillHold`), the keyboard
likewise (`WillFocus`); and what the machine holds is what the page shows, or an
answer that is on its way will make it so: the last answer about a session
carries the number the machine holds, and what is not answered is known by that
number (`Latest`, `Heard`, `Feeds`).  A line that breaks takes all of this with
it, and the replay at the next opening restores it.  Nothing is on its way in
the states that `Fed` speaks of, so there the three agree.

### Only model-checked

* Liveness (`ClaimSettles`, `QueueDrains`, `DeathNoticed`, `Reattached`,
  `Settles`, `FollowsDisk`, `CatchesUp`): out of the prover's reach.
* `NoGap` and `InStep` where the mirror is behind: they do not hold there.

## 7. Not modelled

* Server assembly and configuration, the command line beside `pull`, the cloud
  scripts, the shared types: process plumbing and declarations.
* Of the store: projects, recents, servers, UI, which take the same save path.
* A request that carries several fields at once (`{worktreeId, queued}`): the
  pages send one; the route would take more.
* SIGTERM: `stop()` flushes and disposes; a crash at any await covers what is
  left behind, except that a flush may succeed.
* Of the engine: titles, exit statuses, `failedWithin`.  In the dispatcher's
  model an adopted session keeps the liveness it had; that a dead pane is
  adopted as live is in `SessionEngine`.
* Of the stream: input bytes (accepted from the input owner only), a session
  that dies or is refused while a page shows it (`onGone`), and a restart of the
  server, which numbers its streams from 1 again, under an open page.
* Of the workspace: folders, several projects, what git prints.
* Of branches: more than one branch or remote, a history that is rewritten, a
  HEAD attached again.
* Of the update: `--host`.  Of access: the rules about names and origins, which
  have no state.  Of machines: raw and upload streams through the proxy, a
  machine's update and usage.
* Of the row: drawing, dialogs, themes, scrolling by pixels, several projects.
* Of the panels: the tree, media, the finder and ranges; renames, the look of a
  patch, a nested repository's row; what a first commit holds; what Claude's
  usage screen prints and how a ring is drawn.

## 8. Plan

Every invariant a run checks is a theorem, `NoGap` and `InStep` as far as the
mirror keeps up, and of the action and temporal properties those that are not
liveness.  What is left to model is in section 7: first a session that dies
while a page shows it, and a restart of the server under an open page.
