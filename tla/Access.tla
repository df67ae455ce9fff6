------------------------------- MODULE Access -------------------------------
(***************************************************************************)
(* Who is signed in: the cookie and the gate that judges it (gate.ts), the *)
(* single-use tickets (auth.ts), the sockets and their re-check            *)
(* (routes/ws.ts), and one page -- its socket (web/src/socket.ts) and the  *)
(* part of its store that decides between the row and the login            *)
(* (web/src/store.ts) -- over the logins of module Login, with a gateway   *)
(* that holds a link.                                                      *)
(***************************************************************************)
EXTENDS Login, FiniteSets

CONSTANTS
  Idle,       \* IDLE_MS, in ticks
  Absolute,   \* ABSOLUTE_MS
  TicketLife, \* TICKET_MS
  MaxTickets, \* MAX_TICKETS
  Resocket    \* how often a socket is judged again

ASSUME AccessAssumption ==
  /\ {Idle, Absolute, TicketLife, MaxTickets, Resocket} \subseteq Nat \ {0}
  /\ {"page", "gateway"} \subseteq Caller

VARIABLES
  cookie,  \* the browser's jar
  link,    \* the gateway's link token: the key it was signed with
  tickets, \* the tickets not yet spent, by the order they were given in
  socks,   \* the server's sockets
  last,    \* the number of tickets given out
  page,    \* the page
  onWay    \* what is on its way to the page

accessVars == <<cookie, link, tickets, socks, last, page, onWay>>
vars == <<loginVars, accessVars>>

NoToken == [key |-> None, iat |-> 0, exp |-> 0]
Token == [key : Key \cup {None}, iat : Nat, exp : Nat]

NoPage == [authed |-> "?", ws |-> "none", ticket |-> 0, connecting |-> FALSE,
           timer |-> FALSE, leaving |-> FALSE, unlucky |-> FALSE,
           chose |-> FALSE]

(* What the page may ask for, and nothing on its way. *)
Request == {"ticket", "snapshot", "logout"}
Quiet == [at |-> "no", token |-> NoToken, stores |-> FALSE, ticket |-> 0]

TypeOK ==
  /\ LoginTypeOK
  /\ cookie \in Token /\ link \in Key \cup {None}
  /\ tickets \subseteq [no : Nat, session : Token, expires : Nat]
  /\ Cardinality(tickets) <= MaxTickets
  /\ socks \subseteq [by : {"page", "gateway"}, no : Nat, session : Token, since : Nat, due : Nat]
  /\ last \in Nat
  /\ page \in [authed : {"?", "yes", "no"}, ws : {"none", "opening", "open", "refused"},
               ticket : Nat, connecting : BOOLEAN, timer : BOOLEAN, leaving : BOOLEAN,
               unlucky : BOOLEAN, chose : BOOLEAN]
  /\ onWay \in [Request -> [at : {"no", "asked", "ok", "refused", "failed"}, token : Token,
                            stores : BOOLEAN, ticket : Nat]]

Init ==
  /\ LoginInit
  /\ cookie \in {NoToken} \cup (IF record = None THEN {} ELSE {[key |-> record, iat |-> 1, exp |-> 1 + Idle]})
  /\ link = None /\ tickets = {} /\ socks = {} /\ last = 0
  /\ page = [NoPage EXCEPT !.connecting = TRUE]
  /\ onWay = [q \in Request |->
               IF q = "logout" THEN Quiet ELSE [Quiet EXCEPT !.at = "asked", !.token = cookie]]

(***************************************************************************)
(* Sessions: verifySession, and the gate.                                  *)
(***************************************************************************)
Verifies(token, key) ==
  token.key # None /\ token.key = key /\ now < token.exp /\ now - token.iat <= Absolute

Goes(q, answer) == onWay' = [onWay EXCEPT ![q] = answer]

(* A request bears the cookie as it is when it is sent. *)
Asked == [Quiet EXCEPT !.at = "asked", !.token = cookie]

(* The gate's answer: a good session slides, a bad cookie is cleared. *)
Allowed(q) == Verifies(onWay[q].token, Loaded.key)
Slides(q) == onWay[q].token.exp - now < Idle \div 2
Judged(q) ==
  IF ~Allowed(q) THEN [Quiet EXCEPT !.at = "refused", !.stores = onWay[q].token # NoToken]
  ELSE IF ~Slides(q) THEN [Quiet EXCEPT !.at = "ok"]
  ELSE [Quiet EXCEPT !.at = "ok", !.stores = TRUE, !.token = [onWay[q].token EXCEPT !.exp = now + Idle]]

(* newTicket(): the expired go, then the oldest while there are too many. *)
Kept == LET good == {t \in tickets : t.expires > now}
        IN {t \in good : Cardinality({u \in good : u.no > t.no}) < MaxTickets - 1}

TicketAsked ==
  /\ onWay["ticket"].at = "asked"
  /\ Loads
  /\ IF Allowed("ticket")
       THEN /\ last' = last + 1
            /\ tickets' = Kept \cup {[no |-> last + 1, session |-> onWay["ticket"].token,
                                      expires |-> now + TicketLife]}
            /\ Goes("ticket", [Judged("ticket") EXCEPT !.ticket = last + 1])
       ELSE Goes("ticket", Judged("ticket")) /\ UNCHANGED <<tickets, last>>
  /\ UNCHANGED <<now, record, throttleVars, calls, chain, left, died, cookie, link, socks, page>>

SnapshotAsked ==
  /\ onWay["snapshot"].at = "asked"
  /\ Loads
  /\ Goes("snapshot", Judged("snapshot"))
  /\ UNCHANGED <<now, record, throttleVars, calls, chain, left, died, cookie, link, tickets, socks,
                 last, page>>

(* An open route: it clears the cookie, whatever it was. *)
LogoutAsked ==
  /\ onWay["logout"].at = "asked"
  /\ Goes("logout", [Quiet EXCEPT !.at = "ok", !.stores = TRUE])
  /\ UNCHANGED <<loginVars, cookie, link, tickets, socks, last, page>>

(* A request meets a server that is being replaced, or a dead line. *)
Fails(q) ==
  /\ onWay[q].at = "asked" /\ Spends("drop")
  /\ Goes(q, [Quiet EXCEPT !.at = "failed"])
  /\ UNCHANGED <<now, record, held, throttleVars, calls, chain, died, cookie, link, tickets, socks,
                 last, page>>

(***************************************************************************)
(* The socket at the server.                                               *)
(***************************************************************************)
Spent == {t \in tickets : t.no = page.ticket}

Upgraded ==
  /\ page.ws = "opening"
  /\ Loads
  /\ tickets' = tickets \ Spent
  /\ LET fresh == {t \in Spent : t.expires > now}
         good == {t \in fresh : Verifies(t.session, Loaded.key)}
     IN \/ \E t \in good :
             /\ socks' = socks \cup {[by |-> "page", no |-> t.no, session |-> t.session,
                                      since |-> now, due |-> now + Resocket]}
             /\ page' = [page EXCEPT !.ws = "open"]
        \/ /\ good = {} /\ UNCHANGED socks
           /\ page' = [page EXCEPT !.ws = "refused", !.unlucky = \A t \in fresh : t.session # cookie]
  /\ UNCHANGED <<now, record, throttleVars, calls, chain, left, died, cookie, link, last, onWay>>

Dials ==
  /\ Spends("dial") /\ link # None
  /\ Loads
  /\ IF link = Loaded.key
       THEN socks' = socks \cup {[by |-> "gateway", no |-> 0, since |-> now, due |-> now + Resocket,
                                  session |-> [key |-> link, iat |-> 0, exp |-> 0]]}
       ELSE UNCHANGED socks
  /\ UNCHANGED <<now, record, throttleVars, calls, chain, died, cookie, link, tickets, last, page, onWay>>

StillGood(s, key) == IF s.by = "gateway" THEN s.session.key = key ELSE Verifies(s.session, key)

IsOurs(s) == s.by = "page" /\ s.no = page.ticket /\ page.ws = "open"

(* The page hears of a close 4401 of the socket it still has. *)
Rechecks ==
  \E s \in socks :
    /\ s.due <= now
    /\ Loads
    /\ IF StillGood(s, Loaded.key)
         THEN socks' = (socks \ {s}) \cup {[s EXCEPT !.due = now + Resocket]} /\ UNCHANGED page
         ELSE /\ socks' = socks \ {s}
              /\ page' = IF IsOurs(s) THEN [page EXCEPT !.ws = "refused", !.unlucky = (s.session # cookie)] ELSE page
    /\ UNCHANGED <<now, record, throttleVars, calls, chain, left, died, cookie, link, tickets, last, onWay>>

(***************************************************************************)
(* The page.                                                               *)
(***************************************************************************)
HasSocket == page.ws \in {"opening", "open", "refused"}

(* connect(): a socket, or a ticket on its way, is enough. *)
Connects(p) ==
  IF HasSocket \/ p.connecting
    THEN page' = p /\ UNCHANGED onWay
    ELSE page' = [p EXCEPT !.connecting = TRUE] /\ Goes("ticket", Asked)

(* A terminal mounts; there is none on the login. *)
Mounts ==
  /\ page.authed # "no" /\ Spends("mount")
  /\ Connects(page)
  /\ UNCHANGED <<now, record, held, throttleVars, calls, chain, died, cookie, link, tickets, socks, last>>

TimerFires ==
  /\ page.timer
  /\ Connects([page EXCEPT !.timer = FALSE])
  /\ UNCHANGED <<loginVars, cookie, link, tickets, socks, last>>

(* The browser stores what an answer sets before the page hears of it. *)
Heard(q) == onWay[q].at \notin {"no", "asked"}
Stores(q) == cookie' = IF onWay[q].stores THEN onWay[q].token ELSE cookie

(* As if every failure to get a ticket meant signed out. *)
LoginOnAny(p) == [p EXCEPT !.authed = "no", !.chose = FALSE, !.unlucky = FALSE]

Reconnects(p) == [p EXCEPT !.timer = TRUE]

(* By a 401, which may be of a request sent before there was a cookie.     *)
SignedOut(p, q) == [p EXCEPT !.authed = "no", !.chose = FALSE, !.unlucky = ~onWay[q].stores]

TicketArrives ==
  /\ Heard("ticket")
  /\ Stores("ticket")
  /\ LET p == [page EXCEPT !.connecting = FALSE]
     IN page' = CASE onWay["ticket"].at = "refused" -> SignedOut(p, "ticket")
                  [] onWay["ticket"].at = "failed" -> Reconnects(p)
                  [] OTHER -> IF HasSocket THEN p
                              ELSE [p EXCEPT !.ws = "opening", !.ticket = onWay["ticket"].ticket]
  /\ Goes("ticket", Quiet)
  /\ UNCHANGED <<loginVars, link, tickets, socks, last>>

SnapshotArrives ==
  /\ Heard("snapshot")
  /\ Stores("snapshot")
  /\ page' = CASE onWay["snapshot"].at = "refused" -> SignedOut(page, "snapshot")
               [] onWay["snapshot"].at = "failed" -> page
               [] OTHER -> [page EXCEPT !.authed = "yes"]
  /\ Goes("snapshot", Quiet)
  /\ UNCHANGED <<loginVars, link, tickets, socks, last>>

Refreshes ==
  /\ page.authed = "yes" /\ onWay["snapshot"].at = "no" /\ Spends("refresh")
  /\ Goes("snapshot", Asked)
  /\ UNCHANGED <<now, record, held, throttleVars, calls, chain, died, cookie, link, tickets, socks,
                 last, page>>

(* The live socket closes: 4401, or the line or the server went. *)
Closes ==
  /\ page.ws = "refused"
  /\ page' = [page EXCEPT !.ws = "none", !.authed = "no", !.chose = FALSE]
  /\ UNCHANGED <<loginVars, cookie, link, tickets, socks, last, onWay>>

LineDrops ==
  /\ page.ws \in {"opening", "open"} /\ Spends("drop")
  /\ socks' = {s \in socks : ~IsOurs(s)}
  /\ page' = [page EXCEPT !.ws = "none", !.timer = TRUE]
  /\ UNCHANGED <<now, record, held, throttleVars, calls, chain, died, cookie, link, tickets, last, onWay>>

SignsOut ==
  /\ page.authed = "yes" /\ ~page.leaving /\ onWay["logout"].at = "no" /\ Spends("out")
  /\ page' = [page EXCEPT !.leaving = TRUE]
  /\ Goes("logout", Asked)
  /\ UNCHANGED <<now, record, held, throttleVars, calls, chain, died, cookie, link, tickets, socks, last>>

(* disconnect() knows nothing of an open() that still waits for its ticket. *)
Disconnects ==
  /\ page' = [page EXCEPT !.timer = FALSE, !.ws = "none", !.leaving = FALSE, !.authed = "no",
                          !.chose = TRUE]
  /\ socks' = {s \in socks : ~IsOurs(s)}

SignOutEnds ==
  /\ Heard("logout")
  /\ Stores("logout")
  /\ Disconnects
  /\ Goes("logout", Quiet)
  /\ UNCHANGED <<loginVars, link, tickets, last>>

(***************************************************************************)
(* Logins: the page's form, a gateway, and whoever guesses.                *)
(***************************************************************************)
PasswordTyped(c) ==
  /\ c = "page" => page.authed = "no" /\ onWay["snapshot"].at = "no"
  /\ \E guess \in {None, record}, wellFormed \in BOOLEAN :
       /\ c \in {"page", "gateway"} => wellFormed
       /\ LoginArrives(c, guess, wellFormed)
  /\ UNCHANGED accessVars

(* A browser gets a session and the page is signed in; a machine a link.   *)
PageLoginAnswered ==
  /\ LoginAnswered("page")
  /\ IF Accepts("page")
       THEN /\ cookie' = [key |-> Loaded.key, iat |-> now, exp |-> now + Idle]
            /\ LET dials == ~HasSocket /\ ~page.connecting
                   sent == [Asked EXCEPT !.token = cookie']
               IN /\ page' = [page EXCEPT !.authed = "yes", !.connecting = @ \/ dials,
                                         !.unlucky = @ \/ page.ws = "refused"]
                  /\ onWay' = [onWay EXCEPT !["snapshot"] = sent, !["ticket"] = IF dials THEN sent ELSE @]
       ELSE UNCHANGED <<cookie, page, onWay>>
  /\ UNCHANGED <<link, tickets, socks, last>>

OtherLoginAnswered(c) ==
  /\ c # "page"
  /\ LoginAnswered(c)
  /\ link' = IF c = "gateway" /\ Accepts(c) THEN Loaded.key ELSE link
  /\ UNCHANGED <<cookie, tickets, socks, last, page, onWay>>

(***************************************************************************)
(* The process and the clock.                                              *)
(***************************************************************************)
Restarts ==
  /\ LoginRestarts
  /\ tickets' = {} /\ socks' = {}
  /\ page' = IF page.ws = "open" THEN [page EXCEPT !.ws = "none", !.timer = TRUE] ELSE page
  /\ onWay' = [q \in Request |-> IF onWay[q].at = "asked" THEN [Quiet EXCEPT !.at = "failed"]
                                      ELSE onWay[q]]
  /\ UNCHANGED <<cookie, link, last>>

(* A bound: a timer is not late, and a request, or the news of a refusal,  *)
(* is on its way for less than a tick.  An upgrade may take longer: the    *)
(* page may be frozen with its ticket in hand.                             *)
Passes ==
  /\ Ticks
  /\ \A s \in socks : s.due > now
  /\ \A q \in Request : onWay[q].at = "no"
  /\ page.ws # "refused"
  /\ UNCHANGED <<record, held, throttleVars, calls, chain, died, accessVars>>

Next ==
  \/ (RecordChanges \/ HashEnds) /\ UNCHANGED accessVars
  \/ \E c \in Caller : PasswordTyped(c) \/ OtherLoginAnswered(c)
  \/ PageLoginAnswered
  \/ TicketAsked \/ SnapshotAsked \/ LogoutAsked
  \/ \E q \in Request : Fails(q)
  \/ Upgraded \/ Dials \/ Rechecks
  \/ Mounts \/ TimerFires \/ TicketArrives \/ SnapshotArrives \/ Refreshes
  \/ Closes \/ LineDrops \/ SignsOut \/ SignOutEnds
  \/ Restarts \/ Passes

Spec == Init /\ [][Next]_vars

-----------------------------------------------------------------------------
(* What is checked.                                                        *)

(* auth.ts, "what a guess costs": a slot is claimed and nextSlot only moves *)
(* forward, so however many guesses come at once, the n-th of one decay    *)
(* period waits for the one before it and then for a delay that doubles.   *)
(* Only one attempt is forgiven in a period, whenever it is forgiven.      *)
RampKept ==
  \A j \in 2 .. Len(claims), i \in 1 .. Len(claims) :
    i < j /\ claims[j].at - claims[i].at < Decay =>
      claims[j].slot - claims[j - 1].slot >= Least(MaxStep, Step * Doubled[j - i - 1])

(* routes/ws.ts, the re-check: the record is read at most RECHECK_MS late  *)
(* and a socket judged again every minute, so no socket is let in, or left *)
(* open, longer than that after its session's key was replaced.            *)
Revoked ==
  \A s \in socks : died[s.session.key] # 0 =>
    /\ s.since <= died[s.session.key] + Recheck
    /\ now <= died[s.session.key] + Recheck + Resocket

(* socket.ts open(): a restart, a lost request or a dropped line is no     *)
(* sign-out.  While the jar holds a cookie the server would accept, the    *)
(* login is up only because the page signed out, or because what was       *)
(* refused was not that session: a request sent before there was a cookie, *)
(* a ticket lost with the server or with its time, or a session the jar's  *)
(* has replaced since.                                                     *)
StaysIn ==
  page.authed = "no" /\ Verifies(cookie, record) => page.chose \/ page.unlucky
=============================================================================
