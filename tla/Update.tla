------------------------------- MODULE Update -------------------------------
(***************************************************************************)
(* The server that updates itself (server/src/update.ts): one check shared *)
(* by whoever asks, the decision it ends with, the wait for nobody typing, *)
(* and the pull it runs as a detached child; and the page that offers the  *)
(* update and reloads onto it (web/src/components/UpdateBanner.tsx).       *)
(* Everything here but the banner dies with the server process.            *)
(***************************************************************************)
EXTENDS Pull

CONSTANTS
  Asker    \* requests in flight at once, besides the page's

ASSUME UpdateAssumption ==
  /\ Asker \cap {"read", "click", "retry"} = {}
  /\ Absent \notin [tip : Commit, behind : BOOLEAN, blocked : BOOLEAN]

VARIABLES
  checked,   \* the last check: where origin was, how far ahead, a refusal; or Absent
  stale,     \* whether it is older than TTL_MS
  checking,  \* the check under way
  state,     \* UpdateStatus.state
  announced, \* the commit the linked machines were told of
  retry,     \* whether the timer that looks again for quiet is set
  autos,     \* calls of startUpdate that consider() has made and that wait
  quiet,     \* nobody has typed for QUIET_MS
  asks,      \* the requests, by who asked
  banner     \* the page's banner: its server, its wait, its answers

memory == <<checked, stale, checking, state, announced, retry, autos>>
bannerVars == <<asks, banner>>
updateVars == <<pullVars, memory, quiet, bannerVars>>

(* The page reads the status and clicks, one request of each at a time; a  *)
(* retry whose check has grown old waits for another, like a request.      *)
Who == Asker \cup {"read", "click", "retry"}
NoReply == [ok |-> FALSE, id |-> 1, running |-> 0, updating |-> FALSE]
NoAsk == [kind |-> "none", at |-> "", reply |-> NoReply]

NoBanner == [from |-> Absent, wait |-> "no", late |-> FALSE, replaced |-> FALSE, sure |-> FALSE]

Decision == {"none", "skipped", "wait", "now"}

UpdateTypeOK ==
  /\ PullTypeOK
  /\ checked \in [tip : Commit, behind : BOOLEAN, blocked : BOOLEAN] \cup {Absent}
  /\ {stale, retry, quiet} \subseteq BOOLEAN
  /\ checking \in {"no", "fetching", "reading"}
  /\ state \in {"idle", "updating", "failed"}
  /\ announced \in Commit \cup {Absent}
  /\ autos \in Nat
  /\ asks \in [Who -> [kind : {"none", "poll", "start", "told", "auto"},
                       at : {"", "sent", "checking", "checked", "going", "answered"},
                       reply : [ok : BOOLEAN, id : 1 .. MaxStarts, running : Commit,
                                updating : BOOLEAN]]]
  /\ banner \in [from : [id : 1 .. MaxStarts, running : Commit] \cup {Absent},
               wait : {"no", "click", "since"}, late : BOOLEAN, replaced : BOOLEAN,
               sure : BOOLEAN]

Forgotten ==
  /\ checked' = Absent /\ stale' = FALSE /\ checking' = "no" /\ state' = "idle"
  /\ announced' = Absent /\ retry' = FALSE /\ autos' = 0

UpdateInit ==
  /\ PullInit
  /\ checked = Absent /\ stale = FALSE /\ checking = "no" /\ state = "idle"
  /\ announced = Absent /\ retry = FALSE /\ autos = 0
  /\ quiet = FALSE
  /\ asks = [w \in Who |-> NoAsk] /\ banner = NoBanner

(***************************************************************************)
(* consider(): what is done about the last check.                          *)
(***************************************************************************)
IsMachineInstance == run # Absent /\ run.id = srv.id

AutoDecision(c) ==
  CASE ~c.behind \/ c.blocked \/ state = "updating" -> "none"
    [] c.behind /\ ~c.blocked /\ state # "updating" /\ failed = c.tip -> "skipped"
    [] OTHER -> IF quiet THEN "now" ELSE "wait"

Considers(c, already) ==
  IF ~IsMachineInstance \/ c = Absent
    THEN /\ retry' = already
         /\ UNCHANGED <<announced, autos>>
    ELSE /\ announced' = IF c.behind THEN c.tip ELSE announced
         /\ retry' = (AutoDecision(c) = "wait")
         /\ autos' = IF AutoDecision(c) = "now" THEN autos + 1 ELSE autos

RetryFires ==
  /\ Up /\ retry
  /\ Considers(checked, FALSE)
  /\ UNCHANGED <<pullVars, checked, stale, checking, state, quiet, bannerVars>>

(***************************************************************************)
(* Requests.                                                               *)
(***************************************************************************)
OnlyAsks == UNCHANGED <<fate, checkoutVars, dist, failed, lock, run, srv, pulls, spoilt, tried,
                        company, memory, quiet>>

Requests(w, kind, what) ==
  /\ asks[w].at = ""
  /\ Spends(what)
  /\ asks' = [asks EXCEPT ![w] = [NoAsk EXCEPT !.kind = kind, !.at = "sent"]]

OthersAsk ==
  /\ \E w \in Asker, kind \in {"start", "told"} : Requests(w, kind, "other")
  /\ OnlyAsks /\ UNCHANGED banner

Responds(w, reply) == asks' = [asks EXCEPT ![w] = IF w \notin {"read", "click"} THEN NoAsk
                                 ELSE [asks[w] EXCEPT !.at = "answered", !.reply = reply]]

StatusOf(s) == [ok |-> TRUE, id |-> srv.id, running |-> srv.running,
                updating |-> IsMachineInstance /\ s = "updating"]

NeedsCheck == state # "updating" /\ (checked = Absent \/ stale)

JoinsCheck(w, kind) ==
  /\ asks' = [asks EXCEPT ![w].kind = kind, ![w].at = "checking"]
  /\ checking' = IF checking = "no" THEN "fetching" ELSE checking

(* A request reaches the server and runs up to its first await. *)
Arrives(w) ==
  /\ Up /\ asks[w].at = "sent"
  /\ LET kind == asks[w].kind IN
       \/ /\ kind = "poll"
          /\ IF IsMachineInstance /\ NeedsCheck THEN JoinsCheck(w, kind)
             ELSE Responds(w, StatusOf(state)) /\ UNCHANGED checking
          /\ UNCHANGED checked
       \/ /\ kind # "poll" /\ (~IsMachineInstance \/ state = "updating")
          /\ Responds(w, NoReply) /\ UNCHANGED <<checked, checking>>
       \/ /\ kind = "start" /\ IsMachineInstance /\ state # "updating"
          /\ IF NeedsCheck THEN JoinsCheck(w, kind)
             ELSE asks' = [asks EXCEPT ![w].at = "going"] /\ UNCHANGED checking
          /\ UNCHANGED checked
       \/ /\ kind = "told" /\ IsMachineInstance /\ state # "updating"
          /\ checked' = Absent
          /\ JoinsCheck(w, kind)
  /\ UNCHANGED <<pullVars, stale, state, announced, retry, autos, quiet, banner>>

CheckFetches ==
  /\ Up /\ checking = "fetching"
  /\ checking' = "reading"
  /\ \/ tracking' = origin /\ UNCHANGED left
     \/ Spends("fault") /\ UNCHANGED tracking
  /\ UNCHANGED <<fate, origin, head, mine, deps, dist, failed, lock, run, srv, pulls,
                 spoilt, tried, company, checked, stale, state, announced, retry, autos, quiet,
                 bannerVars>>

BehindOrigin == [tip |-> tracking, behind |-> tracking > srv.running, blocked |-> mine]

CheckEnds ==
  /\ Up /\ checking = "reading"
  /\ checking' = "no"
  /\ checked' = BehindOrigin /\ stale' = FALSE
  /\ asks' = [w \in Who |-> IF asks[w].at = "checking" THEN [asks[w] EXCEPT !.at = "checked"]
                            ELSE asks[w]]
  /\ UNCHANGED <<pullVars, state, announced, retry, autos, quiet, banner>>

(* Whoever waited for the check acts on it, one after the other. *)
GoesOn(w) ==
  /\ Up /\ asks[w].at = "checked"
  /\ Considers(checked, retry)
  /\ IF asks[w].kind \in {"start", "auto"} THEN asks' = [asks EXCEPT ![w].at = "going"]
     ELSE Responds(w, StatusOf(state))
  /\ UNCHANGED <<pullVars, checked, stale, checking, state, quiet, banner>>

(***************************************************************************)
(* startUpdate() after its await: it asks again whether an update may go.  *)
(***************************************************************************)
MayStart == (checked = Absent \/ ~checked.blocked) /\ state # "updating"

Spawns(auto) ==
  \E p \in Puller :
    /\ pulls[p].at = "off"
    /\ Started(p, srv.id, auto)
    /\ state' = "updating"

OnlySpawn == UNCHANGED <<fate, checkoutVars, dist, failed, lock, run, srv, left, spoilt, tried,
                         checked, stale, announced, retry, quiet>>

StartGoesOn(w) ==
  /\ Up /\ asks[w].at = "going"
  /\ IF MayStart THEN Spawns(asks[w].kind = "auto") /\ Responds(w, StatusOf("updating"))
     ELSE Responds(w, NoReply) /\ UNCHANGED <<pulls, company, state>>
  /\ UNCHANGED <<checking, autos, banner>>
  /\ OnlySpawn

AutoGoesOn ==
  /\ Up /\ autos > 0
  /\ autos' = autos - 1
  /\ \/ /\ NeedsCheck
        /\ JoinsCheck("retry", "auto") /\ UNCHANGED <<pulls, company, state>>
     \/ /\ ~NeedsCheck
        /\ IF MayStart THEN Spawns(TRUE) ELSE UNCHANGED <<pulls, company, state>>
        /\ UNCHANGED <<checking, asks>>
  /\ UNCHANGED banner
  /\ OnlySpawn

(***************************************************************************)
(* The pull's steps, where this process feels them.                        *)
(***************************************************************************)
OnlyPull == UNCHANGED <<memory, quiet, bannerVars>>

(* Requests the process held end in an error; one not yet sent waits. *)
ServerStops(p) ==
  /\ Stop(p)
  /\ IF srv'.up = "no" /\ Alive
       THEN /\ Forgotten
            /\ asks' = [w \in Who |->
                 CASE asks[w].at = "answered" -> asks[w]
                   [] w = "click" /\ asks[w].at # "" ->
                        [asks[w] EXCEPT !.at = "answered", !.reply = NoReply]
                   [] OTHER -> NoAsk]
            /\ banner' = [banner EXCEPT !.sure = FALSE]
       ELSE UNCHANGED <<memory, asks, banner>>
  /\ UNCHANGED <<quiet>>

(* A child's exit is seen by the process that started it, if that still runs. *)
PullEnds(p) ==
  /\ Ends(p)
  /\ IF Up /\ pulls[p].by = srv.id
       THEN /\ checked' = Absent
            /\ state' = IF pulls[p].code = 0 THEN "idle" ELSE "failed"
            /\ banner' = [banner EXCEPT !.sure = FALSE]
            /\ UNCHANGED <<stale, checking, announced, retry, autos>>
       ELSE UNCHANGED <<memory, banner>>
  /\ UNCHANGED <<quiet, asks>>

(***************************************************************************)
(* The banner.                                                               *)
(***************************************************************************)
OnlyBanner == UNCHANGED <<pullVars, memory, quiet>>

BannerReads ==
  /\ Requests("read", "poll", "read")
  /\ banner' = [banner EXCEPT !.late = (banner.wait = "since")]
  /\ OnlyAsks

BannerClicks ==
  /\ Requests("click", "start", "click")
  /\ banner' = [banner EXCEPT !.wait = "click", !.late = FALSE, !.sure = FALSE]
  /\ OnlyAsks

(* As if it did not matter when the question was asked. *)
BelievesAny(next) ==
  IF banner.from # Absent /\ next.id # banner.from.id /\ banner.wait # "no" THEN NoBanner
  ELSE [banner EXCEPT
    !.from = [id |-> next.id, running |-> next.running],
    !.wait = IF ~next.updating THEN "no" ELSE IF banner.wait = "no" THEN "since" ELSE banner.wait]

(* A read asked before the wait began cannot end it. *)
Heard(next) ==
  IF banner.from # Absent /\ next.id # banner.from.id /\ banner.wait # "no" THEN NoBanner
  ELSE [banner EXCEPT
    !.from = IF banner.from = Absent THEN [id |-> next.id, running |-> next.running]
             ELSE [banner.from EXCEPT !.id = next.id],
    !.replaced = banner.replaced \/ (banner.from # Absent /\ next.id # banner.from.id
                                   /\ next.running # banner.from.running),
    !.wait = IF next.updating THEN (IF banner.wait = "no" THEN "since" ELSE banner.wait)
             ELSE IF banner.late THEN "no" ELSE banner.wait]

BannerHears ==
  /\ asks["read"].at = "answered"
  /\ banner' = Heard(asks["read"].reply)
  /\ asks' = [asks EXCEPT !["read"] = NoAsk]
  /\ OnlyBanner

ClickAnswered ==
  /\ asks["click"].at = "answered"
  /\ banner' = [banner EXCEPT
       !.wait = IF asks["click"].reply.ok THEN "since" ELSE "no",
       !.late = FALSE,
       !.sure = asks["click"].reply.ok /\ Up /\ state = "updating"
                /\ (banner.from = Absent \/ banner.from.id = srv.id)]
  /\ asks' = [asks EXCEPT !["click"] = NoAsk]
  /\ OnlyBanner

(***************************************************************************)
(* Time.                                                                   *)
(***************************************************************************)
TimePasses ==
  /\ \/ ~quiet /\ quiet' = TRUE /\ UNCHANGED <<left, stale>>
     \/ quiet /\ Spends("typed") /\ quiet' = FALSE /\ UNCHANGED stale
     \/ checked # Absent /\ ~stale /\ Spends("old") /\ stale' = TRUE /\ UNCHANGED quiet
  /\ UNCHANGED <<fate, checkoutVars, dist, failed, lock, run, srv, pulls, spoilt, tried, company,
                 checked, checking, state, announced, retry, autos, bannerVars>>

(* What follows a check follows in one turn of the event loop.             *)
InTurn == autos > 0 \/ \E w \in Who : asks[w].at \in {"checked", "going"}

Elsewhere ==
  \/ Push \/ HandTurns \/ ServerBoots
  \/ \E p \in Puller : \/ HandPulls(p) \/ OpensLock(p) \/ WritesPid(p) \/ LooksAtLock(p)
                       \/ RemovesLock(p) \/ Fetches(p) \/ Merges(p) \/ Installs(p) \/ Build(p)
                       \/ Start(p) \/ Waits(p) \/ RollsBack(p)

UpdateNext ==
  \/ AutoGoesOn \/ \E w \in Who : GoesOn(w) \/ StartGoesOn(w)
  \/ /\ ~InTurn
     /\ \/ Elsewhere /\ OnlyPull
        \/ \E p \in Puller : ServerStops(p) \/ PullEnds(p)
        \/ RetryFires \/ OthersAsk \/ CheckFetches \/ CheckEnds
        \/ \E w \in Who : Arrives(w)
        \/ BannerReads \/ BannerClicks \/ BannerHears \/ ClickAnswered
        \/ TimePasses

UpdateSpec == UpdateInit /\ [][UpdateNext]_updateVars

-----------------------------------------------------------------------------
(* What is checked.                                                        *)

(* A pull that ends leaves a server running, whichever commit would not    *)
(* build or come up, unless: it had moved the checkout nowhere, two pulls  *)
(* or a hand worked on the checkout at once, the way back itself failed, or*)
(* the commit it left was not the one that ran, with its own dependencies  *)
(* (pull.js).                                                              *)
ComesBack == Going = {} /\ spoilt = {} => Alive

(* A commit that would not come up is given up once: no page's poll, no    *)
(* linked machine and no wait for quiet has it pulled again                *)
(* (update-failed.json, pull.js and update.ts), unless a pull went on that *)
(* the lock of another should have refused.                                *)
TriedOnce == ~met => \A c \in Commit : tried[c] <= 1

(* A page whose click was accepted goes on waiting for as long as that     *)
(* server's pull runs: no answer to a question asked before the click ends *)
(* the wait (UpdateBanner.tsx, waitingSince).                              *)
WaitsThrough == banner.sure => banner.wait # "no"
=============================================================================
