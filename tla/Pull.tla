-------------------------------- MODULE Pull --------------------------------
(***************************************************************************)
(* `pnpm pull` on one machine: the lock, the fast-forward, the install, the*)
(* restart in a process of its own and the way back                        *)
(* (cli/src/pull.js, cli/src/service.js), together with what they work on: *)
(* the checkout, the build in server/dist, run.json, update-failed.json    *)
(* and the server process itself.  The default branch is a line of commits *)
(* 0..Newest.  A pull is somebody's at a shell, or a child of the server   *)
(* that started it; module Update adds the server that does.               *)
(***************************************************************************)
EXTENDS Chances

CONSTANTS
  Newest,    \* the last commit origin will have
  Puller,    \* pulls that may run at once
  Nobody,    \* not a puller: the dead pull whose lock was left behind
  Lockfile,  \* the lockfile of each commit
  Fates,     \* what may become of the commits after 0: functions on Commit
  MaxStarts, \* bound on server processes
  Absent       \* for no commit, no lock, no record

Commit == 0 .. Newest
Fate == {"good", "unbuildable", "unstartable"}

(* What happens from outside: a commit is pushed, a hand works on the      *)
(* checkout or types `pnpm pull`; a fetch or an install fails, or a server *)
(* takes longer to come up than it is waited for; the page reads and       *)
(* clicks, others ask, somebody types, a check grows old; and whether a    *)
(* dead pull left its lock.                                                *)
Outside == {"push", "hand", "pull", "fault", "read", "click", "other", "typed", "old", "dead"}

ASSUME PullAssumption ==
  /\ Newest \in Nat /\ MaxStarts \in Nat \ {0}
  /\ Limits \subseteq [Outside -> Nat]
  /\ Nobody \notin Puller
  /\ Absent \notin Commit
  /\ Absent \notin [id : 1 .. MaxStarts, commit : Commit]
  /\ Absent \notin [by : Puller \cup {Nobody}, pid : BOOLEAN]
  /\ Lockfile \in [Commit -> Nat]
  /\ Fates \subseteq {f \in [Commit -> Fate] : f[0] = "good"}

VARIABLES
  fate,     \* whether a commit builds and comes up
  origin,   \* the newest commit on origin
  tracking, \* refs/remotes/origin/<branch>
  head,     \* the checkout's HEAD
  mine,     \* the checkout is on a branch, or has changes of its own
  deps,     \* the lockfile node_modules was installed from
  dist,     \* the build: the commit compiled, and the stamp beside it
  failed,   \* update-failed.json
  lock,     \* pull.lock: who created it, and whether it holds a pid yet
  run,      \* run.json: the server process started, and its build
  srv,      \* the server process: which, whether it answers, what it runs
  pulls,    \* the pulls
  spoilt,   \* history: what robbed a pull of its way back since the server last answered
  tried,    \* history: how often a pull nobody asked for gave a commit up
  passed,   \* history: the pulls that another got past since they were started
  met       \* history: whether one of those went on all the same

company == <<passed, met>>
checkoutVars == <<origin, tracking, head, mine, deps>>
pullVars == <<fate, checkoutVars, dist, failed, lock, run, srv, pulls, left,
              spoilt, tried, company>>

Off == [at |-> "off", by |-> 0, auto |-> FALSE, was |-> Absent, tries |-> 0, round |-> 1,
        before |-> Absent, after |-> Absent, code |-> 0]
Stages == {"off", "open", "write", "look", "remove", "refused", "fetch", "merge", "install",
           "build", "stop", "start", "wait", "back", "exit"}

PullTypeOK ==
  /\ fate \in Fates
  /\ {origin, tracking, head} \subseteq Commit
  /\ mine \in BOOLEAN
  /\ deps \in {Lockfile[c] : c \in Commit}
  /\ dist \in [code : Commit \cup {Absent}, stamp : Commit]
  /\ failed \in Commit \cup {Absent}
  /\ lock \in [by : Puller \cup {Nobody}, pid : BOOLEAN] \cup {Absent}
  /\ run \in [id : 1 .. MaxStarts, commit : Commit] \cup {Absent}
  /\ srv \in [id : 1 .. MaxStarts, up : {"no", "starting", "yes"}, running : Commit]
  /\ pulls \in [Puller -> [at : Stages, by : 0 .. MaxStarts, auto : BOOLEAN,
                           was : Commit \cup {Absent}, tries : 0 .. 2, round : 1 .. 2,
                           before : Commit \cup {Absent}, after : Commit \cup {Absent},
                           code : 0 .. 1]]
  /\ left \in [Outside -> Nat]
  /\ spoilt \subseteq {"unmoved", "two", "undone", "older"}
  /\ tried \in [Commit -> Nat]
  /\ passed \subseteq Puller /\ met \in BOOLEAN

PullInit ==
  /\ fate \in Fates
  /\ origin = 0 /\ tracking = 0 /\ head = 0 /\ mine = FALSE /\ deps = Lockfile[0]
  /\ dist = [code |-> 0, stamp |-> 0]
  /\ failed = Absent
  /\ left \in Limits
  /\ \A c \in Commit : c > left["push"] => fate[c] = "good"
  /\ lock = IF left["dead"] > 0 THEN [by |-> Nobody, pid |-> TRUE] ELSE Absent
  /\ srv = [id |-> 1, up |-> "yes", running |-> 0]
  /\ run = [id |-> 1, commit |-> 0]
  /\ pulls = [p \in Puller |-> Off]
  /\ spoilt = {}
  /\ tried = [c \in Commit |-> 0]
  /\ passed = {} /\ met = FALSE

Alive == srv.up # "no"
Up == srv.up = "yes"
RunsHere == run # Absent /\ Alive /\ run.id = srv.id

(* What running() answers before the pull begins. *)
RunningCommit == IF RunsHere THEN run.commit ELSE Absent

Goes(p, stage) == pulls' = [pulls EXCEPT ![p].at = stage]
Fails(p) == pulls' = [pulls EXCEPT ![p].at = "exit", ![p].code = 1]

Past == {p \in Puller : pulls[p].at \notin {"off", "open", "write", "look", "remove", "refused"}}
Going == {p \in Puller : pulls[p].at # "off"}

(***************************************************************************)
(* The lock.                                                               *)
(***************************************************************************)
Started(p, by, auto) ==
  /\ pulls' = [pulls EXCEPT ![p] = [Off EXCEPT !.at = "open", !.by = by, !.auto = auto,
                                               !.was = RunningCommit]]
  /\ passed' = IF Past = {} THEN passed \ {p} ELSE passed \cup {p}
  /\ UNCHANGED met

HandPulls(p) ==
  /\ pulls[p].at = "off"
  /\ Spends("pull")
  /\ Started(p, 0, FALSE)
  /\ UNCHANGED <<fate, checkoutVars, dist, failed, lock, run, srv, spoilt, tried>>

OnlyLock == UNCHANGED <<fate, checkoutVars, dist, failed, run, srv, left, spoilt, tried, company>>

OpensLock(p) ==
  /\ pulls[p].at = "open"
  /\ IF lock = Absent
       THEN lock' = [by |-> p, pid |-> FALSE] /\ Goes(p, "write")
       ELSE UNCHANGED lock /\ Goes(p, "look")
  /\ OnlyLock

(* A file removed between the two is written to all the same.  Whatever    *)
(* other pull is about is passed by this one.                              *)
WritesPid(p) ==
  /\ pulls[p].at = "write"
  /\ lock' = IF lock # Absent /\ lock.by = p THEN [lock EXCEPT !.pid = TRUE] ELSE lock
  /\ Goes(p, "fetch")
  /\ met' = IF p \in passed THEN TRUE ELSE met
  /\ passed' = Going \ {p}
  /\ spoilt' = IF Past \ {p} # {} THEN spoilt \cup {"two"} ELSE spoilt
  /\ UNCHANGED <<fate, checkoutVars, dist, failed, run, srv, left, tried>>

HolderAlive == lock.pid /\ lock.by # Nobody

(* A pull that is refused exits before it has a handler that removes locks. *)
Refused(p) == pulls' = [pulls EXCEPT ![p].at = "refused", ![p].code = 1]

(* An empty file reads as pid 0, which is nobody's; a missing one throws. *)
LooksAtLock(p) ==
  /\ pulls[p].at = "look"
  /\ IF lock = Absent \/ (lock # Absent /\ HolderAlive)
       THEN Refused(p)
       ELSE Goes(p, "remove")
  /\ UNCHANGED lock
  /\ OnlyLock

RemovesLock(p) ==
  /\ pulls[p].at = "remove"
  /\ lock' = Absent
  /\ IF pulls[p].tries = 1 THEN Refused(p)
     ELSE pulls' = [pulls EXCEPT ![p].at = "open", ![p].tries = 1]
  /\ OnlyLock

(***************************************************************************)
(* The fast-forward.                                                       *)
(***************************************************************************)
Matches(c) == deps = Lockfile[c]

Fetches(p) ==
  /\ pulls[p].at = "fetch"
  /\ \/ tracking' = origin /\ Goes(p, "merge") /\ UNCHANGED left
     \/ Spends("fault") /\ Fails(p) /\ UNCHANGED tracking
  /\ UNCHANGED <<fate, origin, head, mine, deps, dist, failed, lock, run, srv, spoilt, tried,
                 company>>

Merges(p) ==
  /\ pulls[p].at = "merge"
  /\ \/ mine /\ Fails(p) /\ UNCHANGED head
     \/ /\ ~mine
        /\ head' = tracking
        /\ pulls' = [pulls EXCEPT ![p].before = head, ![p].after = tracking,
                       ![p].at = IF head = tracking /\ pulls[p].was = tracking
                                   THEN "exit" ELSE "install"]
  /\ spoilt' = IF head' # head /\ (head # srv.running \/ ~Matches(head))
                 THEN spoilt \cup {"older"} ELSE spoilt
  /\ UNCHANGED <<fate, origin, tracking, mine, deps, dist, failed, lock, run, srv, left, tried,
                 company>>

LockChanged(p) == Lockfile[pulls[p].before] # Lockfile[pulls[p].after]

(* On the way back a failed install ends the pull too. *)
Installs(p) ==
  /\ pulls[p].at = "install"
  /\ \/ /\ deps' = IF LockChanged(p) THEN Lockfile[head] ELSE deps
        /\ Goes(p, "build")
        /\ UNCHANGED <<left, spoilt>>
     \/ /\ LockChanged(p) /\ Spends("fault")
        /\ Fails(p)
        /\ spoilt' = IF pulls[p].round = 2 THEN spoilt \cup {"undone"} ELSE spoilt
        /\ UNCHANGED deps
  /\ UNCHANGED <<fate, origin, tracking, head, mine, dist, failed, lock, run, srv, tried, company>>

(***************************************************************************)
(* `swb restart`, in a fresh process: build, stop, start, wait.            *)
(***************************************************************************)
GivesUp(p) == tried' = IF pulls[p].auto /\ pulls[p].before # pulls[p].after
                         THEN [tried EXCEPT ![pulls[p].after] = @ + 1] ELSE tried

(* What a pull does once its restart has exited badly. *)
RestartFails(p) ==
  IF pulls[p].round = 2
    THEN Fails(p) /\ UNCHANGED <<spoilt, tried>>
  ELSE IF pulls[p].before = pulls[p].after
    THEN Fails(p) /\ spoilt' = spoilt \cup {"unmoved"} /\ UNCHANGED tried
  ELSE Goes(p, "back") /\ GivesUp(p) /\ UNCHANGED spoilt

(* Once it has exited well there is nothing to remember; on the way back   *)
(* the pull has failed all the same.                                       *)
RestartSucceeds(p) ==
  /\ IF pulls[p].round = 1 THEN failed' = Absent /\ Goes(p, "exit")
                           ELSE UNCHANGED failed /\ Fails(p)
  /\ UNCHANGED <<spoilt, tried>>

Builds(c) == fate[c] # "unbuildable"

(* With the dependencies of another commit either may happen. *)
Build(p) ==
  /\ pulls[p].at = "build"
  /\ \/ /\ Builds(head)
        /\ dist' = [code |-> head, stamp |-> head]
        /\ Goes(p, "stop") /\ UNCHANGED <<spoilt, tried>>
     \/ /\ ~Builds(head) \/ ~Matches(head)
        /\ dist' = [dist EXCEPT !.code = Absent]
        /\ RestartFails(p)
  /\ UNCHANGED <<fate, checkoutVars, failed, lock, run, srv, left, company>>

Stop(p) ==
  /\ pulls[p].at = "stop"
  /\ srv' = IF RunsHere THEN [srv EXCEPT !.up = "no"] ELSE srv
  /\ run' = Absent
  /\ Goes(p, "start")
  /\ UNCHANGED <<fate, checkoutVars, dist, failed, lock, left, spoilt, tried, company>>

(* A server another pull started is left alone: it is ours, and nothing is *)
(* waited for, or it has the port.                                         *)
Start(p) ==
  /\ pulls[p].at = "start"
  /\ \/ RunsHere /\ RestartSucceeds(p) /\ UNCHANGED <<srv, run>>
     \/ ~RunsHere /\ Alive /\ RestartFails(p) /\ UNCHANGED <<srv, run, failed>>
     \/ /\ ~Alive /\ srv.id < MaxStarts
        /\ srv' = [id |-> srv.id + 1, up |-> "starting", running |-> dist.stamp]
        /\ run' = [id |-> srv.id + 1, commit |-> dist.stamp]
        /\ Goes(p, "wait")
        /\ UNCHANGED <<failed, spoilt, tried>>
  /\ UNCHANGED <<fate, checkoutVars, dist, lock, left, company>>

Startable == dist.code # Absent /\ fate[dist.code] = "good"

ServerBoots ==
  /\ srv.up = "starting"
  /\ \/ Startable /\ srv' = [srv EXCEPT !.up = "yes"]
     \/ /\ Startable => ~Matches(dist.code)
        /\ srv' = [srv EXCEPT !.up = "no"]
  /\ UNCHANGED <<fate, checkoutVars, dist, failed, lock, run, pulls, left, spoilt, tried, company>>

(* It asks every 250 ms and gives up after 80 times, whether the process   *)
(* has died or has only not come up yet.                                   *)
Waits(p) ==
  /\ pulls[p].at = "wait"
  /\ \/ Up /\ RestartSucceeds(p) /\ UNCHANGED left
     \/ ~Alive /\ RestartFails(p) /\ UNCHANGED <<failed, left>>
     \/ Alive /\ ~Up /\ Spends("fault") /\ RestartFails(p) /\ UNCHANGED failed
  /\ UNCHANGED <<fate, checkoutVars, dist, lock, run, srv, company>>

(* As if the commit that would not come up were not remembered. *)
ForgetsFailure(p) ==
  /\ pulls[p].at = "back"
  /\ head' = pulls[p].before
  /\ pulls' = [pulls EXCEPT ![p].at = "install", ![p].round = 2]
  /\ UNCHANGED <<fate, origin, tracking, mine, deps, dist, failed, lock, run, srv, left, spoilt,
                 tried, company>>

(* As if the checkout were left where it was. *)
StaysAhead(p) ==
  /\ pulls[p].at = "back"
  /\ failed' = pulls[p].after
  /\ pulls' = [pulls EXCEPT ![p].at = "install", ![p].round = 2]
  /\ UNCHANGED <<fate, checkoutVars, dist, lock, run, srv, left, spoilt, tried, company>>

(* git reset --keep refuses when changes of one's own are in the way. *)
RollsBack(p) ==
  /\ pulls[p].at = "back"
  /\ failed' = pulls[p].after
  /\ \/ /\ head' = pulls[p].before
        /\ pulls' = [pulls EXCEPT ![p].at = "install", ![p].round = 2]
        /\ UNCHANGED spoilt
     \/ mine /\ Fails(p) /\ spoilt' = spoilt \cup {"undone"} /\ UNCHANGED head
  /\ UNCHANGED <<fate, origin, tracking, mine, deps, dist, lock, run, srv, left, tried, company>>

(* The process exits, and its exit handler removes the lock, whose ever it is. *)
Ends(p) ==
  /\ pulls[p].at \in {"exit", "refused"}
  /\ pulls' = [pulls EXCEPT ![p] = Off]
  /\ lock' = IF pulls[p].at = "exit" THEN Absent ELSE lock
  /\ spoilt' = IF Going = {p} /\ Up THEN {} ELSE spoilt
  /\ UNCHANGED <<fate, checkoutVars, dist, failed, run, srv, left, tried, company>>

(***************************************************************************)
(* Origin, and hands on the checkout.                                      *)
(***************************************************************************)
Push ==
  /\ origin < Newest /\ Spends("push")
  /\ origin' = origin + 1
  /\ UNCHANGED <<fate, tracking, head, mine, deps, dist, failed, lock, run, srv, pulls, spoilt,
                 tried, company>>

HandTurns ==
  /\ Spends("hand")
  /\ \/ mine' = ~mine /\ UNCHANGED <<tracking, head>>
     \/ mine = FALSE /\ tracking' = origin /\ head' = origin /\ UNCHANGED mine
  /\ spoilt' = IF Going # {} THEN spoilt \cup {"two"} ELSE spoilt
  /\ UNCHANGED <<fate, origin, deps, dist, failed, lock, run, srv, pulls, tried, company>>

PullStep(p) ==
  \/ OpensLock(p) \/ WritesPid(p) \/ LooksAtLock(p) \/ RemovesLock(p)
  \/ Fetches(p) \/ Merges(p) \/ Installs(p)
  \/ Build(p) \/ Stop(p) \/ Start(p) \/ Waits(p) \/ RollsBack(p)
=============================================================================
