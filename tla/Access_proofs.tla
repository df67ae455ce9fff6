---------------------------- MODULE Access_proofs ----------------------------
(***************************************************************************)
(* Access control, for any number of logins, keys, tickets and sockets and *)
(* any number of requests, restarts and dropped lines: no socket outlives  *)
(* its session's key by more than the re-check allows, the login comes up  *)
(* over a good cookie only where the page asked for it or an older session *)
(* was refused, and the delays between guesses double.                     *)
(***************************************************************************)
EXTENDS Access, SequenceTheorems, WellFoundedInduction, TLAPS

USE DEF Key, None

-----------------------------------------------------------------------------
(* The invariant of the sockets: what the server remembers of the record,  *)
(* when each key was replaced, and what each socket was let in for.        *)

At == {"no", "asked", "ok", "refused", "failed"}
Answer == [at : At, token : Token, stores : BOOLEAN, ticket : Nat]
Ticket == [no : Nat, session : Token, expires : Nat]
Socket == [by : {"page", "gateway"}, no : Nat, session : Token, since : Nat, due : Nat]
Page == [authed : {"?", "yes", "no"}, ws : {"none", "opening", "open", "refused"},
         ticket : Nat, connecting : BOOLEAN, timer : BOOLEAN, leaving : BOOLEAN,
         unlucky : BOOLEAN, chose : BOOLEAN]

ClockOK == now \in Nat /\ now >= 1
RecordOK == record \in Key \cup {None} /\ link \in Key \cup {None} /\ last \in Nat
DiedOK == /\ died \in [Key -> Nat]
          /\ \A k \in Key : died[k] <= now /\ (died[k] # 0 => k < record)

\* A record read before it was replaced was read before its key died.
HeldOK == /\ held \in [key : Key \cup {None}, at : Nat]
          /\ held.at <= now /\ held.key <= record
          /\ held.key # None /\ held.key # record =>
               died[held.key] # 0 /\ held.at <= died[held.key]

TicketsOK == /\ tickets \subseteq Ticket
             /\ \A t \in tickets : t.session.key # None

\* Due again in time, and let in or judged good before the server could know.
SocketOK(s) == /\ s.session.key \in Key /\ s.session.key <= record
               /\ s.since <= now /\ now <= s.due /\ s.due <= now + Resocket
               /\ died[s.session.key] # 0 =>
                    /\ s.since <= died[s.session.key] + Recheck
                    /\ s.due <= died[s.session.key] + Recheck + Resocket
SocksOK == socks \subseteq Socket /\ \A s \in socks : SocketOK(s)

PageOK == page \in Page
WayOK == onWay \in [Request -> Answer] /\ cookie \in Token

RInv == /\ ClockOK /\ RecordOK /\ DiedOK /\ HeldOK /\ TicketsOK /\ SocksOK
        /\ PageOK /\ WayOK

-----------------------------------------------------------------------------
(* What is read of the record, and what a step may do to it.              *)

LEMMA Numbers ==
  /\ {Step, MaxStep, Decay, MaxWait, Recheck, MaxQueued, MaxKey} \subseteq Nat \ {0}
  /\ {Idle, Absolute, TicketLife, MaxTickets, Resocket} \subseteq Nat \ {0}
BY LoginAssumption, AccessAssumption

\* load() gives the record, or one replaced less than Recheck ago.
LEMMA LoadedFacts ==
  ASSUME ClockOK, RecordOK, DiedOK, HeldOK
  PROVE  /\ Loaded \in [key : Key \cup {None}, at : Nat]
         /\ Loaded.at <= now /\ Loaded.key <= record
         /\ Loaded.key # record =>
              /\ Loaded.key \in Key /\ died[Loaded.key] # 0
              /\ Loaded.at <= died[Loaded.key] /\ now <= died[Loaded.key] + Recheck
<1>1. CASE held.key # None /\ now - held.at < Recheck
  <2>1. Loaded = held
    BY <1>1 DEF Loaded
  <2>2. held.key \in Key /\ held.at \in Nat
    BY <1>1 DEF HeldOK
  <2> QED BY <1>1, <2>1, <2>2, Numbers DEF ClockOK, RecordOK, DiedOK, HeldOK
<1>2. CASE ~(held.key # None /\ now - held.at < Recheck)
  <2>1. Loaded = [key |-> record, at |-> now]
    BY <1>2 DEF Loaded
  <2> QED BY <2>1 DEF ClockOK, RecordOK
<1> QED BY <1>1, <1>2

LEMMA LoadsHeld ==
  ASSUME ClockOK, RecordOK, DiedOK, HeldOK, Loads, UNCHANGED <<now, record, died>>
  PROVE  HeldOK'
BY LoadedFacts DEF Loads, HeldOK, ClockOK, RecordOK, DiedOK

\* A step that neither tells the time nor writes the record.
Still == UNCHANGED <<now, record, died>>

LEMMA StillHeld ==
  ASSUME RInv, Still, Loads \/ UNCHANGED held, link' \in Key \cup {None}, last' \in Nat
  PROVE  ClockOK' /\ RecordOK' /\ DiedOK' /\ HeldOK'
<1>1. ClockOK' /\ RecordOK' /\ DiedOK'
  BY DEF RInv, Still, ClockOK, RecordOK, DiedOK
<1>2. CASE Loads
  BY <1>1, <1>2, LoadsHeld DEF RInv, Still
<1>3. CASE UNCHANGED held
  BY <1>1, <1>3 DEF RInv, Still, HeldOK
<1> QED BY <1>1, <1>2, <1>3

\* A socket that stays, as time and the record do.
LEMMA StillSocks ==
  ASSUME RInv, Still, socks' \subseteq socks
  PROVE  SocksOK'
BY DEF RInv, Still, SocksOK, SocketOK

\* A socket let in, or judged good, by the record as it was read.
LEMMA GoodSocket ==
  ASSUME RInv, NEW s \in Socket, s.session.key = Loaded.key, s.session.key # None,
         s.since <= now, died[s.session.key] # 0 => s.since <= died[s.session.key] + Recheck,
         s.due = now + Resocket
  PROVE  SocketOK(s)
<1>1. Loaded.key \in Key /\ Loaded.key <= record /\ (Loaded.key # record => now <= died[Loaded.key] + Recheck)
  BY LoadedFacts DEF RInv, RecordOK
<1>2. record \in Key => died[record] = 0
  BY DEF RInv, DiedOK, RecordOK
<1>3. /\ s.since \in Nat /\ now \in Nat /\ Resocket \in Nat /\ Recheck \in Nat
      /\ died[Loaded.key] \in Nat
  BY <1>1, Numbers DEF RInv, ClockOK, DiedOK, Socket
<1>4. died[Loaded.key] # 0 => now <= died[Loaded.key] + Recheck
  BY <1>1, <1>2
<1> QED BY <1>1, <1>3, <1>4 DEF SocketOK

LEMMA NewSocket ==
  ASSUME RInv, NEW s \in Socket, s.session.key = Loaded.key, s.session.key # None,
         s.since = now, s.due = now + Resocket
  PROVE  SocketOK(s)
<1>1. Loaded.key \in Key /\ (Loaded.key # record => now <= died[Loaded.key] + Recheck)
  BY LoadedFacts DEF RInv, RecordOK
<1>2. record \in Key => died[record] = 0
  BY DEF RInv, DiedOK, RecordOK
<1>3. died[s.session.key] # 0 => s.since <= died[s.session.key] + Recheck
  BY <1>1, <1>2
<1>4. s.since <= now
  BY DEF RInv, ClockOK
<1> QED BY <1>3, <1>4, GoodSocket

-----------------------------------------------------------------------------
(* What each action does to the invariant of the sockets.                 *)

LEMMA RInit ==
  ASSUME Init PROVE RInv
<1>1. now = 1 /\ record \in {None, 1} /\ held = [key |-> None, at |-> 0] /\ died = [k \in Key |-> 0]
  BY DEF Init, LoginInit
<1>2. 1 \in Key
  BY Numbers
<1>3. cookie \in Token
  BY <1>1, <1>2, Numbers DEF Init, Token, NoToken
<1>4. WayOK
  <2>1. Quiet \in Answer /\ [Quiet EXCEPT !.at = "asked", !.token = cookie] \in Answer
    BY <1>3 DEF Quiet, Answer, At, Token, NoToken
  <2> QED BY <1>3, <2>1 DEF WayOK, Init
<1>5. PageOK
  BY DEF Init, PageOK, Page, NoPage
<1>6. TicketsOK /\ SocksOK
  BY DEF Init, TicketsOK, SocksOK
<1>7. ClockOK /\ RecordOK /\ DiedOK /\ HeldOK
  BY <1>1, <1>2 DEF Init, ClockOK, RecordOK, DiedOK, HeldOK
<1> QED BY <1>4, <1>5, <1>6, <1>7 DEF RInv

LEMMA RecordChangesSafe ==
  ASSUME RInv, RecordChanges, UNCHANGED accessVars PROVE RInv'
<1> USE DEF RInv
<1>1. /\ record' = record + 1 /\ record < MaxKey /\ now' = now /\ held' = held
      /\ died' = IF record = None THEN died ELSE [died EXCEPT ![record] = now]
      /\ UNCHANGED <<cookie, link, tickets, socks, last, page, onWay>>
  BY DEF RecordChanges, accessVars
<1>2. ClockOK' /\ TicketsOK' /\ PageOK' /\ WayOK'
  BY <1>1 DEF ClockOK, TicketsOK, PageOK, WayOK
<1>3. RecordOK' /\ record \in Nat
  BY <1>1, Numbers DEF RecordOK
<1>5. \A k \in Key : k # record => died'[k] = died[k]
  BY <1>1 DEF DiedOK
<1>6. record \in Key => died'[record] = now /\ died[record] = 0
  BY <1>1 DEF DiedOK
<1>4. DiedOK'
  <2>1. died' \in [Key -> Nat]
    BY <1>1 DEF DiedOK, ClockOK
  <2> QED BY <1>1, <1>3, <1>5, <1>6, <2>1 DEF DiedOK, ClockOK
<1>7. HeldOK'
  BY <1>1, <1>3, <1>5, <1>6 DEF HeldOK, ClockOK, RecordOK
<1>8. ASSUME NEW s \in socks PROVE SocketOK(s)'
  <2>1. SocketOK(s) /\ s \in Socket
    BY DEF SocksOK
  <2>2. CASE s.session.key # record
    BY <1>1, <1>3, <1>5, <2>1, <2>2 DEF SocketOK
  <2>3. CASE s.session.key = record
    <3>1. died'[record] = now /\ s.since \in Nat /\ s.due \in Nat
      BY <1>6, <2>1, <2>3 DEF SocketOK, Socket
    <3> QED BY <1>1, <1>3, <2>1, <2>3, <3>1, Numbers DEF SocketOK, ClockOK
  <2> QED BY <2>2, <2>3
<1>9. SocksOK'
  BY <1>1, <1>8 DEF SocksOK
<1> QED BY <1>2, <1>3, <1>4, <1>7, <1>9

\* A step that leaves tickets and sockets alone.
LEMMA RestSafe ==
  ASSUME RInv, Still, Loads \/ UNCHANGED held, UNCHANGED <<tickets, last>>, link' \in Key \cup {None},
         socks' \subseteq socks, PageOK', WayOK'
  PROVE  RInv'
<1>1. last' \in Nat
  BY DEF RInv, RecordOK
<1>2. ClockOK' /\ RecordOK' /\ DiedOK' /\ HeldOK'
  BY <1>1, StillHeld
<1>3. SocksOK'
  BY StillSocks
<1>4. TicketsOK'
  BY DEF RInv, TicketsOK
<1> QED BY <1>2, <1>3, <1>4 DEF RInv

-----------------------------------------------------------------------------
(* The answers on their way, and the page.                                 *)

Asking == {"ticket", "snapshot"}

LEMMA Judgement ==
  ASSUME RInv, NEW q \in Asking
  PROVE  /\ Judged(q) \in Answer
         /\ Allowed(q) /\ Slides(q) =>
              Judged(q) = [at |-> "ok", stores |-> TRUE, ticket |-> 0,
                           token |-> [onWay[q].token EXCEPT !.exp = now + Idle]]
         /\ Allowed(q) /\ ~Slides(q) =>
              Judged(q) = [at |-> "ok", stores |-> FALSE, ticket |-> 0, token |-> NoToken]
         /\ Judged(q).at = "ok" => Allowed(q)
         /\ ~Allowed(q) => /\ Judged(q).at = "refused" /\ Judged(q).token = NoToken
                           /\ Judged(q).stores <=> onWay[q].token # NoToken
<1> DEFINE token == onWay[q].token
<1>1. token \in Token /\ [token EXCEPT !.exp = now + Idle] \in Token /\ NoToken \in Token
  <2>1. q \in Request /\ now + Idle \in Nat
    BY Numbers DEF RInv, ClockOK, Asking, Request
  <2> QED BY <2>1 DEF RInv, WayOK, Answer, Token, NoToken
<1>2. CASE Allowed(q) /\ Slides(q)
  <2>1. Judged(q) = [at |-> "ok", stores |-> TRUE, ticket |-> 0, token |-> [token EXCEPT !.exp = now + Idle]]
    BY <1>2 DEF Judged, Quiet
  <2>2. Judged(q) \in Answer
    BY <1>1, <2>1 DEF Answer, At
  <2> QED BY <1>2, <2>1, <2>2
<1>3. CASE Allowed(q) /\ ~Slides(q)
  <2>1. Judged(q) = [at |-> "ok", stores |-> FALSE, ticket |-> 0, token |-> NoToken]
    BY <1>3 DEF Judged, Quiet
  <2> QED BY <1>1, <1>3, <2>1 DEF Answer, At
<1>4. CASE ~Allowed(q) /\ token # NoToken
  <2>1. Judged(q) = [at |-> "refused", stores |-> TRUE, ticket |-> 0, token |-> NoToken]
    BY <1>4 DEF Judged, Quiet
  <2> QED BY <1>1, <1>4, <2>1 DEF Answer, At
<1>5. CASE ~Allowed(q) /\ token = NoToken
  <2>1. Judged(q) = [at |-> "refused", stores |-> FALSE, ticket |-> 0, token |-> NoToken]
    BY <1>5 DEF Judged, Quiet
  <2> QED BY <1>1, <1>5, <2>1 DEF Answer, At
<1> QED BY <1>2, <1>3, <1>4, <1>5

\* What an answer puts in the way, and what it may set of the page.
LEMMA WayGoes ==
  ASSUME WayOK, NEW q \in Request, NEW r \in Answer, Goes(q, r), cookie' \in Token
  PROVE  WayOK' /\ onWay'[q] = r /\ \A p \in Request : p # q => onWay'[p] = onWay[p]
BY DEF WayOK, Goes

LEMMA AskedAnswer ==
  ASSUME WayOK PROVE Asked \in Answer /\ Quiet \in Answer /\ NoToken \in Token
                     /\ Asked.at = "asked" /\ Asked.token = cookie /\ Asked.stores = FALSE
                     /\ Quiet.at = "no" /\ Quiet.stores = FALSE
BY DEF WayOK, Asked, Quiet, Answer, At, Token, NoToken

LEMMA TicketAskedSafe ==
  ASSUME RInv, TicketAsked PROVE RInv'
<1> USE DEF RInv
<1>1. /\ Still /\ Loads /\ UNCHANGED <<cookie, link, socks, page>>
  BY DEF TicketAsked, Still
<1>2. /\ Judged("ticket") \in Answer /\ "ticket" \in Request /\ onWay["ticket"].token \in Token
  BY Judgement DEF Asking, Request, WayOK, Answer
<1>3. CASE Allowed("ticket")
  <2> DEFINE new == [no |-> last + 1, session |-> onWay["ticket"].token, expires |-> now + TicketLife]
  <2>1. /\ last' = last + 1 /\ tickets' = Kept \cup {new}
        /\ Goes("ticket", [Judged("ticket") EXCEPT !.ticket = last + 1])
    BY <1>3 DEF TicketAsked
  <2>2. new \in Ticket /\ new.session.key # None /\ last' \in Nat
    <3>1. now + TicketLife \in Nat /\ last + 1 \in Nat
      BY Numbers DEF ClockOK, RecordOK
    <3> QED BY <1>2, <1>3, <2>1, <3>1 DEF Ticket, Allowed, Verifies
  <2>3. Kept \subseteq tickets
    BY DEF Kept
  <2>4. TicketsOK'
    BY <2>1, <2>2, <2>3 DEF TicketsOK
  <2>5. WayOK'
    <3>1. [Judged("ticket") EXCEPT !.ticket = last + 1] \in Answer
      BY <1>2, <2>1, <2>2 DEF Answer
    <3>2. cookie' \in Token
      BY <1>1 DEF WayOK
    <3> QED BY <1>2, <2>1, <3>1, <3>2, WayGoes
  <2>6. ClockOK' /\ RecordOK' /\ DiedOK' /\ HeldOK'
    BY <1>1, <2>2, StillHeld DEF RecordOK
  <2>7. SocksOK' /\ PageOK'
    BY <1>1, StillSocks DEF PageOK
  <2> QED BY <2>4, <2>5, <2>6, <2>7
<1>4. CASE ~Allowed("ticket")
  <2>1. UNCHANGED <<tickets, last>> /\ Goes("ticket", Judged("ticket"))
    BY <1>4 DEF TicketAsked
  <2>2. WayOK'
    BY <1>1, <1>2, <2>1, WayGoes DEF WayOK
  <2> QED BY <1>1, <2>1, <2>2, RestSafe DEF PageOK, RecordOK
<1> QED BY <1>3, <1>4

LEMMA SnapshotAskedSafe ==
  ASSUME RInv, SnapshotAsked PROVE RInv'
<1> USE DEF RInv
<1>1. /\ Still /\ Loads /\ UNCHANGED <<cookie, link, socks, page, tickets, last>>
      /\ Goes("snapshot", Judged("snapshot"))
  BY DEF SnapshotAsked, Still
<1>2. Judged("snapshot") \in Answer /\ "snapshot" \in Request
  BY Judgement DEF Asking, Request
<1>3. WayOK'
  BY <1>1, <1>2, WayGoes DEF WayOK
<1> QED BY <1>1, <1>3, RestSafe DEF PageOK, RecordOK

LEMMA LogoutAskedSafe ==
  ASSUME RInv, LogoutAsked PROVE RInv'
<1> USE DEF RInv
<1>1. /\ Still /\ UNCHANGED <<held, cookie, link, socks, page, tickets, last>>
      /\ Goes("logout", [Quiet EXCEPT !.at = "ok", !.stores = TRUE])
  BY DEF LogoutAsked, Still, loginVars
<1>2. [Quiet EXCEPT !.at = "ok", !.stores = TRUE] \in Answer /\ "logout" \in Request
  BY AskedAnswer DEF Request, Answer, At, Quiet
<1>3. WayOK'
  BY <1>1, <1>2, WayGoes DEF WayOK
<1> QED BY <1>1, <1>3, RestSafe DEF PageOK, RecordOK

LEMMA FailsSafe ==
  ASSUME RInv, NEW q \in Request, Fails(q) PROVE RInv'
<1> USE DEF RInv
<1>1. /\ Still /\ UNCHANGED <<held, cookie, link, socks, page, tickets, last>>
      /\ Goes(q, [Quiet EXCEPT !.at = "failed"])
  BY DEF Fails, Still
<1>2. [Quiet EXCEPT !.at = "failed"] \in Answer
  BY AskedAnswer DEF Answer, At, Quiet
<1>3. WayOK'
  BY <1>1, <1>2, WayGoes DEF WayOK
<1> QED BY <1>1, <1>3, RestSafe DEF PageOK, RecordOK

LEMMA UpgradedSafe ==
  ASSUME RInv, Upgraded PROVE RInv'
<1> USE DEF RInv
<1> DEFINE fresh == {t \in Spent : t.expires > now}
           good == {t \in fresh : Verifies(t.session, Loaded.key)}
<1>1. /\ Still /\ Loads /\ UNCHANGED <<cookie, link, last, onWay>> /\ tickets' = tickets \ Spent
  BY DEF Upgraded, Still
<1>2. ClockOK' /\ RecordOK' /\ DiedOK' /\ HeldOK' /\ TicketsOK' /\ WayOK'
  <2>1. TicketsOK' /\ WayOK'
    BY <1>1 DEF TicketsOK, WayOK
  <2> QED BY <1>1, <2>1, StillHeld DEF RecordOK
<1>3. CASE \E t \in good : /\ socks' = socks \cup {[by |-> "page", no |-> t.no, session |-> t.session,
                                                     since |-> now, due |-> now + Resocket]}
                           /\ page' = [page EXCEPT !.ws = "open"]
  <2>1. PICK t \in good : /\ socks' = socks \cup {[by |-> "page", no |-> t.no, session |-> t.session,
                                                    since |-> now, due |-> now + Resocket]}
                          /\ page' = [page EXCEPT !.ws = "open"]
    BY <1>3
  <2> DEFINE s == [by |-> "page", no |-> t.no, session |-> t.session, since |-> now, due |-> now + Resocket]
  <2>2. t \in Ticket /\ t.session.key = Loaded.key /\ t.session.key # None
    BY DEF Spent, TicketsOK, Verifies
  <2>3. s \in Socket
    BY <2>2, Numbers DEF Socket, Ticket, ClockOK
  <2>4. SocketOK(s)
    BY <2>2, <2>3, NewSocket
  <2>5. \A r \in socks : SocketOK(r) /\ r \in Socket
    BY DEF SocksOK
  <2>6. SocksOK'
    BY <1>1, <2>1, <2>3, <2>4, <2>5 DEF SocksOK, SocketOK, Still
  <2>7. PageOK'
    BY <2>1 DEF PageOK, Page
  <2> QED BY <1>2, <2>6, <2>7
<1>4. CASE /\ good = {} /\ UNCHANGED socks
           /\ page' = [page EXCEPT !.ws = "refused", !.unlucky = \A t \in fresh : t.session # cookie]
  <2>1. PageOK'
    <3>1. CASE \A t \in fresh : t.session # cookie
      <4>1. page' = [page EXCEPT !.ws = "refused", !.unlucky = TRUE]
        BY <1>4, <3>1
      <4> QED BY <4>1 DEF PageOK, Page
    <3>2. CASE ~\A t \in fresh : t.session # cookie
      <4>1. page' = [page EXCEPT !.ws = "refused", !.unlucky = FALSE]
        BY <1>4, <3>2
      <4> QED BY <4>1 DEF PageOK, Page
    <3> QED BY <3>1, <3>2
  <2>2. SocksOK'
    BY <1>1, <1>4, StillSocks
  <2> QED BY <1>2, <2>1, <2>2
<1> QED BY <1>3, <1>4 DEF Upgraded

LEMMA DialsSafe ==
  ASSUME RInv, Dials PROVE RInv'
<1> USE DEF RInv
<1> DEFINE s == [by |-> "gateway", no |-> 0, since |-> now, due |-> now + Resocket,
                 session |-> [key |-> link, iat |-> 0, exp |-> 0]]
<1>1. /\ Still /\ Loads /\ UNCHANGED <<cookie, link, last, page, onWay, tickets>> /\ link # None
  BY DEF Dials, Still
<1>2. ClockOK' /\ RecordOK' /\ DiedOK' /\ HeldOK' /\ TicketsOK' /\ WayOK' /\ PageOK'
  <2>1. TicketsOK' /\ WayOK' /\ PageOK'
    BY <1>1 DEF TicketsOK, WayOK, PageOK
  <2> QED BY <1>1, <2>1, StillHeld DEF RecordOK
<1>3. CASE link = Loaded.key
  <2>1. socks' = socks \cup {s}
    BY <1>3 DEF Dials
  <2>2. s \in Socket
    BY Numbers DEF Socket, ClockOK, RecordOK, Token
  <2>3. SocketOK(s)
    BY <1>1, <1>3, <2>2, NewSocket
  <2>4. \A r \in socks : SocketOK(r) /\ r \in Socket
    BY DEF SocksOK
  <2>5. SocksOK'
    BY <1>1, <2>1, <2>2, <2>3, <2>4 DEF SocksOK, SocketOK, Still
  <2> QED BY <1>2, <2>5
<1>4. CASE link # Loaded.key
  BY <1>1, <1>2, <1>4, StillSocks DEF Dials
<1> QED BY <1>3, <1>4

LEMMA RechecksSafe ==
  ASSUME RInv, Rechecks PROVE RInv'
<1> USE DEF RInv
<1>1. PICK s \in socks :
        /\ s.due <= now
        /\ Loads
        /\ IF StillGood(s, Loaded.key)
             THEN socks' = (socks \ {s}) \cup {[s EXCEPT !.due = now + Resocket]} /\ UNCHANGED page
             ELSE /\ socks' = socks \ {s}
                  /\ page' = IF IsOurs(s) THEN [page EXCEPT !.ws = "refused", !.unlucky = (s.session # cookie)] ELSE page
        /\ UNCHANGED <<now, record, throttleVars, calls, chain, left, died, cookie, link, tickets, last, onWay>>
  BY DEF Rechecks
<1>2. Still /\ ClockOK' /\ RecordOK' /\ DiedOK' /\ HeldOK' /\ TicketsOK' /\ WayOK'
  <2>1. Still /\ Loads /\ TicketsOK' /\ WayOK'
    BY <1>1 DEF Still, TicketsOK, WayOK
  <2> QED BY <1>1, <2>1, StillHeld DEF RecordOK
<1>3. \A r \in socks : SocketOK(r) /\ r \in Socket
  BY DEF SocksOK
<1>4. CASE StillGood(s, Loaded.key)
  <2> DEFINE t == [s EXCEPT !.due = now + Resocket]
  <2>1. /\ t \in Socket /\ t.session = s.session /\ t.since = s.since /\ t.due = now + Resocket
    BY <1>3, Numbers DEF Socket, ClockOK
  <2>2. s.session.key = Loaded.key /\ s.session.key # None
    BY <1>3, <1>4 DEF StillGood, Verifies, SocketOK
  <2>3. SocketOK(t)
    BY <1>3, <2>1, <2>2, GoodSocket DEF SocketOK
  <2>4. SocksOK'
    <3>1. socks' = (socks \ {s}) \cup {t}
      BY <1>1, <1>4
    <3> QED BY <1>2, <1>3, <2>1, <2>3, <3>1 DEF SocksOK, SocketOK, Still
  <2>5. PageOK'
    BY <1>1, <1>4 DEF PageOK
  <2> QED BY <1>2, <2>4, <2>5
<1>5. CASE ~StillGood(s, Loaded.key)
  <2>1. SocksOK'
    BY <1>1, <1>2, <1>5, StillSocks
  <2>2. PageOK'
    <3>1. page' = page \/ page' = [page EXCEPT !.ws = "refused", !.unlucky = TRUE]
                       \/ page' = [page EXCEPT !.ws = "refused", !.unlucky = FALSE]
      BY <1>1, <1>5
    <3> QED BY <3>1 DEF PageOK, Page
  <2> QED BY <1>2, <2>1, <2>2
<1> QED BY <1>4, <1>5

LEMMA ConnectsKeeps ==
  ASSUME RInv, NEW p \in Page, Connects(p), UNCHANGED cookie
  PROVE  PageOK' /\ WayOK'
<1>1. CASE page' = p /\ UNCHANGED onWay
  BY <1>1 DEF RInv, PageOK, WayOK
<1>2. CASE page' = [p EXCEPT !.connecting = TRUE] /\ Goes("ticket", Asked)
  <2>1. PageOK'
    BY <1>2 DEF PageOK, Page
  <2>2. WayOK'
    BY <1>2, AskedAnswer, WayGoes DEF RInv, WayOK, Request
  <2> QED BY <2>1, <2>2
<1> QED BY <1>1, <1>2 DEF Connects

\* The steps of the page that tell no time and read no record.
LEMMA PageSafe ==
  ASSUME RInv, Mounts \/ TimerFires \/ TicketArrives \/ SnapshotArrives \/ Refreshes \/ Closes
               \/ LineDrops \/ SignsOut \/ SignOutEnds
  PROVE  RInv'
<1> USE DEF RInv
<1>1. CASE Mounts
  <2>1. Still /\ UNCHANGED <<held, cookie, link, tickets, socks, last>> /\ Connects(page)
    BY <1>1 DEF Mounts, Still
  <2> QED BY <2>1, ConnectsKeeps, RestSafe DEF PageOK, RecordOK
<1>2. CASE TimerFires
  <2>1. /\ Still /\ UNCHANGED <<held, cookie, link, tickets, socks, last>>
        /\ Connects([page EXCEPT !.timer = FALSE])
    BY <1>2 DEF TimerFires, Still, loginVars
  <2>2. [page EXCEPT !.timer = FALSE] \in Page
    BY DEF PageOK, Page
  <2>3. PageOK' /\ WayOK'
    BY <2>1, <2>2, ConnectsKeeps
  <2> QED BY <2>1, <2>3, RestSafe DEF RecordOK
<1>3. CASE TicketArrives
  <2>1. /\ Still /\ UNCHANGED <<held, link, tickets, socks, last>> /\ Goes("ticket", Quiet)
        /\ cookie' = cookie \/ cookie' = onWay["ticket"].token
    BY <1>3 DEF TicketArrives, Still, loginVars, Stores
  <2>2. onWay["ticket"].token \in Token /\ onWay["ticket"].ticket \in Nat
    BY DEF WayOK, Request, Answer
  <2>3. cookie' \in Token /\ WayOK'
    BY <2>1, <2>2, AskedAnswer, WayGoes DEF WayOK, Request
  <2>4. PageOK'
    <3> DEFINE p == [page EXCEPT !.connecting = FALSE]
    <3>1. p \in Page
      BY DEF PageOK, Page
    <3>2. \/ page' = SignedOut(p, "ticket") \/ page' = Reconnects(p) \/ page' = p
          \/ page' = [p EXCEPT !.ws = "opening", !.ticket = onWay["ticket"].ticket]
      BY <1>3 DEF TicketArrives
    <3> HIDE DEF p
    <3>3. \/ page' = [p EXCEPT !.authed = "no", !.chose = FALSE, !.unlucky = TRUE]
          \/ page' = [p EXCEPT !.authed = "no", !.chose = FALSE, !.unlucky = FALSE]
          \/ page' = [p EXCEPT !.timer = TRUE] \/ page' = p
          \/ page' = [p EXCEPT !.ws = "opening", !.ticket = onWay["ticket"].ticket]
      <4>1. onWay["ticket"].stores \in BOOLEAN
        BY DEF WayOK, Request, Answer
      <4> QED BY <3>2, <4>1 DEF SignedOut, Reconnects
    <3> QED BY <3>1, <3>3, <2>2 DEF PageOK, Page
  <2> QED BY <2>1, <2>3, <2>4, RestSafe DEF RecordOK
<1>4. CASE SnapshotArrives
  <2>1. /\ Still /\ UNCHANGED <<held, link, tickets, socks, last>> /\ Goes("snapshot", Quiet)
        /\ cookie' = cookie \/ cookie' = onWay["snapshot"].token
    BY <1>4 DEF SnapshotArrives, Still, loginVars, Stores
  <2>2. onWay["snapshot"].token \in Token
    BY DEF WayOK, Request, Answer
  <2>3. cookie' \in Token /\ WayOK'
    BY <2>1, <2>2, AskedAnswer, WayGoes DEF WayOK, Request
  <2>4. PageOK'
    <3>1. \/ page' = SignedOut(page, "snapshot") \/ page' = page \/ page' = [page EXCEPT !.authed = "yes"]
      BY <1>4 DEF SnapshotArrives
    <3>2. \/ page' = [page EXCEPT !.authed = "no", !.chose = FALSE, !.unlucky = TRUE]
          \/ page' = [page EXCEPT !.authed = "no", !.chose = FALSE, !.unlucky = FALSE]
          \/ page' = page \/ page' = [page EXCEPT !.authed = "yes"]
      <4>1. onWay["snapshot"].stores \in BOOLEAN
        BY DEF WayOK, Request, Answer
      <4> QED BY <3>1, <4>1 DEF SignedOut
    <3> QED BY <3>2 DEF PageOK, Page
  <2> QED BY <2>1, <2>3, <2>4, RestSafe DEF RecordOK
<1>5. CASE Refreshes
  <2>1. Still /\ UNCHANGED <<held, cookie, link, tickets, socks, last, page>> /\ Goes("snapshot", Asked)
    BY <1>5 DEF Refreshes, Still
  <2>2. WayOK'
    BY <2>1, AskedAnswer, WayGoes DEF WayOK, Request
  <2> QED BY <2>1, <2>2, RestSafe DEF PageOK, RecordOK
<1>6. CASE Closes
  <2>1. /\ Still /\ UNCHANGED <<held, cookie, link, tickets, socks, last, onWay>>
        /\ page' = [page EXCEPT !.ws = "none", !.authed = "no", !.chose = FALSE]
    BY <1>6 DEF Closes, Still, loginVars
  <2>2. PageOK' /\ WayOK'
    BY <2>1 DEF PageOK, Page, WayOK
  <2> QED BY <2>1, <2>2, RestSafe DEF RecordOK
<1>7. CASE LineDrops
  <2>1. /\ Still /\ UNCHANGED <<held, cookie, link, tickets, last, onWay>> /\ socks' \subseteq socks
        /\ page' = [page EXCEPT !.ws = "none", !.timer = TRUE]
    BY <1>7 DEF LineDrops, Still
  <2>2. PageOK' /\ WayOK'
    BY <2>1 DEF PageOK, Page, WayOK
  <2> QED BY <2>1, <2>2, RestSafe DEF RecordOK
<1>8. CASE SignsOut
  <2>1. /\ Still /\ UNCHANGED <<held, cookie, link, tickets, socks, last>> /\ Goes("logout", Asked)
        /\ page' = [page EXCEPT !.leaving = TRUE]
    BY <1>8 DEF SignsOut, Still
  <2>2. PageOK' /\ WayOK'
    BY <2>1, AskedAnswer, WayGoes DEF WayOK, Request, PageOK, Page
  <2> QED BY <2>1, <2>2, RestSafe DEF RecordOK
<1>9. CASE SignOutEnds
  <2>1. /\ Still /\ UNCHANGED <<held, link, tickets, last>> /\ Goes("logout", Quiet) /\ socks' \subseteq socks
        /\ cookie' = cookie \/ cookie' = onWay["logout"].token
        /\ page' = [page EXCEPT !.timer = FALSE, !.ws = "none", !.leaving = FALSE, !.authed = "no",
                                !.chose = TRUE]
    BY <1>9 DEF SignOutEnds, Still, loginVars, Stores, Disconnects
  <2>2. onWay["logout"].token \in Token
    BY DEF WayOK, Request, Answer
  <2>3. PageOK' /\ WayOK'
    BY <2>1, <2>2, AskedAnswer, WayGoes DEF WayOK, Request, PageOK, Page
  <2> QED BY <2>1, <2>3, RestSafe DEF RecordOK
<1> QED BY <1>1, <1>2, <1>3, <1>4, <1>5, <1>6, <1>7, <1>8, <1>9

LEMMA LoginsSafe ==
  ASSUME RInv, \/ \E c \in Caller : PasswordTyped(c) \/ OtherLoginAnswered(c)
               \/ HashEnds /\ UNCHANGED accessVars
  PROVE  RInv'
<1> USE DEF RInv
<1>1. CASE HashEnds /\ UNCHANGED accessVars
  <2>1. Still /\ UNCHANGED <<held, cookie, link, tickets, socks, last, page, onWay>>
    BY <1>1 DEF HashEnds, Still, accessVars
  <2> QED BY <2>1, RestSafe DEF PageOK, WayOK, RecordOK
<1>2. ASSUME NEW c \in Caller, PasswordTyped(c) PROVE RInv'
  <2>1. Still /\ Loads /\ UNCHANGED <<cookie, link, tickets, socks, last, page, onWay>>
    BY <1>2 DEF PasswordTyped, LoginArrives, Still, accessVars
  <2> QED BY <2>1, RestSafe DEF PageOK, WayOK, RecordOK
<1>3. ASSUME NEW c \in Caller, OtherLoginAnswered(c) PROVE RInv'
  <2>1. /\ Still /\ UNCHANGED <<cookie, tickets, socks, last, page, onWay>>
        /\ Loads \/ UNCHANGED held
        /\ link' = link \/ link' = Loaded.key
    BY <1>3 DEF OtherLoginAnswered, LoginAnswered, Still
  <2>2. link' \in Key \cup {None}
    BY <2>1, LoadedFacts DEF RecordOK
  <2> QED BY <2>1, <2>2, RestSafe DEF PageOK, WayOK
<1> QED BY <1>1, <1>2, <1>3

\* The page's own login: the cookie, and what the page asks with it.
LEMMA FreshCookie ==
  ASSUME RInv, PageLoginAnswered, Accepts("page")
  PROVE  /\ Loads /\ Loaded.key # None
         /\ cookie' = [key |-> Loaded.key, iat |-> now, exp |-> now + Idle] /\ cookie' \in Token
         /\ onWay' \in [Request -> Answer]
         /\ onWay'["logout"] = onWay["logout"]
         /\ onWay'["snapshot"].at = "asked" /\ onWay'["snapshot"].token = cookie'
         /\ \/ onWay'["ticket"] = onWay["ticket"]
            \/ onWay'["ticket"].at = "asked" /\ onWay'["ticket"].token = cookie'
         /\ page' \in Page /\ page'.authed = "yes" /\ page'.ws = page.ws
         /\ page.ws = "refused" => page'.unlucky = TRUE
<1> USE DEF RInv
<1>1. Loads /\ Loaded.key # None
  BY DEF PageLoginAnswered, LoginAnswered, Accepts
<1>2. cookie' = [key |-> Loaded.key, iat |-> now, exp |-> now + Idle] /\ cookie' \in Token
  <2>1. cookie' = [key |-> Loaded.key, iat |-> now, exp |-> now + Idle]
    BY DEF PageLoginAnswered
  <2>2. now \in Nat /\ now + Idle \in Nat /\ Loaded.key \in Key \cup {None}
    BY Numbers, LoadedFacts DEF ClockOK
  <2> QED BY <2>1, <2>2 DEF Token
<1> DEFINE sent == [Asked EXCEPT !.token = cookie']
           dials == ~HasSocket /\ ~page.connecting
<1>3. sent \in Answer /\ sent.at = "asked" /\ sent.token = cookie'
  BY <1>2, AskedAnswer DEF Answer
<1>4. onWay' = [onWay EXCEPT !["snapshot"] = sent, !["ticket"] = IF dials THEN sent ELSE @]
  BY DEF PageLoginAnswered
<1>5. page' = [page EXCEPT !.authed = "yes", !.connecting = @ \/ dials, !.unlucky = @ \/ page.ws = "refused"]
  BY DEF PageLoginAnswered
<1>6. /\ onWay' \in [Request -> Answer] /\ onWay'["logout"] = onWay["logout"]
      /\ onWay'["snapshot"] = sent
      /\ onWay'["ticket"] = onWay["ticket"] \/ onWay'["ticket"] = sent
  <2> HIDE DEF sent
  <2>1. CASE dials
    <3>1. onWay' = [onWay EXCEPT !["snapshot"] = sent, !["ticket"] = sent]
      BY <1>4, <2>1
    <3> QED BY <1>3, <3>1 DEF WayOK, Request
  <2>2. CASE ~dials
    <3>1. onWay' = [onWay EXCEPT !["snapshot"] = sent]
      BY <1>4, <2>2 DEF WayOK, Request
    <3> QED BY <1>3, <3>1 DEF WayOK, Request
  <2> QED BY <2>1, <2>2
<1>7. page' \in Page /\ page'.authed = "yes" /\ page'.ws = page.ws
      /\ (page.ws = "refused" => page'.unlucky = TRUE)
  <2>1. PICK k \in BOOLEAN, u \in BOOLEAN :
          /\ page' = [page EXCEPT !.authed = "yes", !.connecting = k, !.unlucky = u]
          /\ page.ws = "refused" => u = TRUE
    <3>1. (page.connecting \/ dials) \in BOOLEAN /\ (page.unlucky \/ page.ws = "refused") \in BOOLEAN
      OBVIOUS
    <3> QED BY <1>5, <3>1
  <2> QED BY <2>1 DEF PageOK, Page
<1> QED BY <1>1, <1>2, <1>3, <1>6, <1>7

LEMMA PageLoginSafe ==
  ASSUME RInv, PageLoginAnswered PROVE RInv'
<1> USE DEF RInv
<1>1. Still /\ UNCHANGED <<link, tickets, socks, last>> /\ (Loads \/ UNCHANGED held)
  BY DEF PageLoginAnswered, LoginAnswered, Still
<1>2. PageOK' /\ WayOK'
  <2>1. CASE Accepts("page")
    BY <2>1, FreshCookie DEF PageOK, WayOK
  <2>2. CASE ~Accepts("page")
    BY <2>2 DEF PageLoginAnswered, PageOK, WayOK
  <2> QED BY <2>1, <2>2
<1> QED BY <1>1, <1>2, RestSafe DEF RecordOK

LEMMA RestartsSafe ==
  ASSUME RInv, Restarts PROVE RInv'
<1> USE DEF RInv
<1>1. /\ Still /\ held' = [key |-> None, at |-> 0] /\ tickets' = {} /\ socks' = {}
      /\ UNCHANGED <<cookie, link, last>>
  BY DEF Restarts, LoginRestarts, Still
<1>2. ClockOK' /\ RecordOK' /\ DiedOK' /\ HeldOK' /\ TicketsOK' /\ SocksOK'
  BY <1>1 DEF Still, ClockOK, RecordOK, DiedOK, HeldOK, TicketsOK, SocksOK
<1>3. PageOK'
  BY DEF Restarts, PageOK, Page
<1>4. WayOK'
  <2>1. [Quiet EXCEPT !.at = "failed"] \in Answer
    BY AskedAnswer DEF Quiet, Answer, At
  <2> QED BY <1>1, <2>1 DEF Restarts, WayOK
<1> QED BY <1>2, <1>3, <1>4

LEMMA PassesSafe ==
  ASSUME RInv, Passes PROVE RInv'
<1> USE DEF RInv
<1>1. /\ now' = now + 1 /\ \A s \in socks : s.due > now
      /\ UNCHANGED <<record, held, died, cookie, link, tickets, socks, last, page, onWay>>
  BY DEF Passes, Ticks, accessVars
<1>2. ClockOK' /\ RecordOK' /\ TicketsOK' /\ PageOK' /\ WayOK'
  BY <1>1 DEF ClockOK, RecordOK, TicketsOK, PageOK, WayOK
<1>3. DiedOK' /\ HeldOK'
  BY <1>1 DEF DiedOK, HeldOK, ClockOK
<1>4. SocksOK'
  BY <1>1, Numbers DEF SocksOK, SocketOK, ClockOK, Socket
<1> QED BY <1>2, <1>3, <1>4

LEMMA RStep ==
  ASSUME RInv, [Next]_vars PROVE RInv'
<1>1. CASE UNCHANGED vars
  <2>1. Still /\ UNCHANGED <<held, cookie, link, tickets, socks, last, page, onWay>>
    BY <1>1 DEF vars, loginVars, accessVars, Still
  <2> QED BY <2>1, RestSafe DEF RInv, PageOK, WayOK, RecordOK
<1> QED BY <1>1, RecordChangesSafe, LoginsSafe, PageLoginSafe, TicketAskedSafe, SnapshotAskedSafe, LogoutAskedSafe,
     FailsSafe, UpgradedSafe, DialsSafe, RechecksSafe, PageSafe, RestartsSafe, PassesSafe DEF Next

\* No socket is let in, or left open, longer after its session's key was
\* replaced than the re-reading of the record and the re-check of sockets take
\* together (auth.ts load, routes/ws.ts recheck).
THEOREM SocketsRevoked == Spec => []Revoked
<1>1. RInv => Revoked
  <2> SUFFICES ASSUME RInv, NEW s \in socks, died[s.session.key] # 0
               PROVE  /\ s.since <= died[s.session.key] + Recheck
                      /\ now <= died[s.session.key] + Recheck + Resocket
    BY DEF Revoked
  <2>1. s \in Socket /\ SocketOK(s) /\ now \in Nat
    BY DEF RInv, SocksOK, ClockOK
  <2>2. s.due \in Nat /\ died[s.session.key] \in Nat
    BY <2>1 DEF RInv, DiedOK, Socket, SocketOK
  <2> QED BY <2>1, <2>2, Numbers DEF SocketOK
<1> QED BY <1>1, RInit, RStep, PTL DEF Spec

-----------------------------------------------------------------------------
(* The invariant of the page: within a tick there is one cookie the        *)
(* requests under way started from, and whatever else is about is newer.   *)

\* Given out, or slid, in this tick.
Renewed(t) == t.key # None /\ t.exp = now + Idle /\ now - t.iat <= Absolute
Lasts(t) == now < t.exp /\ now - t.iat <= Absolute

\* A record read holds no key older than a token's that is still good.
KeyOK(t) == t.key <= record /\ (t.key = record /\ record # None => held.key \in {None, record})

FromBase(q, base) ==
  /\ KeyOK(onWay[q].token)
  /\ onWay[q].at \in {"no", "failed"} => onWay[q].token = NoToken /\ onWay[q].stores = FALSE
  /\ onWay[q].at = "asked" =>
       onWay[q].token = NoToken \/ onWay[q].token = base \/ Renewed(onWay[q].token)
  /\ onWay[q].at = "ok" /\ onWay[q].stores =>
       onWay[q].token.key = base.key /\ Renewed(onWay[q].token) /\ Lasts(base)
  /\ onWay[q].at = "refused" =>
       onWay[q].token = NoToken /\ (onWay[q].stores => ~Verifies(base, record))
  /\ base.key = record => onWay[q].token.key \in {None, record}

Lineage(base) ==
  /\ KeyOK(base) /\ KeyOK(cookie)
  /\ cookie = NoToken \/ cookie = base \/ Renewed(cookie)
  /\ base.key = record => cookie.key \in {None, record}
  /\ \A q \in Asking : FromBase(q, base)

\* What may yet be stored in the jar.
Saves(q) == \/ onWay[q].at = "asked" /\ Slides(q)
            \/ onWay[q].at = "ok" /\ onWay[q].stores

\* There is no good session, and none on its way.
Barred == /\ ~Verifies(cookie, record)
          /\ \A q \in Asking : Saves(q) => ~Verifies(onWay[q].token, record)

\* The login is up, or about to be, with nothing to excuse it.
Out == /\ page.unlucky = FALSE
       /\ (page.authed = "no" /\ page.chose = FALSE) \/ page.ws = "refused"

LogoutOK == /\ onWay["logout"].at \in {"no", "asked", "ok", "failed"}
            /\ onWay["logout"].at \notin {"no", "asked"} /\ onWay["logout"].stores =>
                 onWay["logout"].token = NoToken

SInv == /\ \E base \in Token : Lineage(base)
        /\ Out => Barred
        /\ LogoutOK

-----------------------------------------------------------------------------
(* Lemmas about the lineage.                                               *)

\* A token of the record's key is of the key that is read.
LEMMA KeyRead ==
  ASSUME RInv, NEW t \in Token, KeyOK(t), t.key = record, record # None
  PROVE  Loaded.key = record
<1>1. held.key \in {None, record}
  BY DEF KeyOK
<1> QED BY <1>1 DEF Loaded

LEMMA KeyLoads ==
  ASSUME RInv, Still, Loads \/ UNCHANGED held, NEW t \in Token, KeyOK(t)
  PROVE  KeyOK(t)'
<1>1. CASE Loads
  BY <1>1, KeyRead DEF Still, KeyOK, Loads
<1>2. CASE UNCHANGED held
  BY <1>2 DEF Still, KeyOK
<1> QED BY <1>1, <1>2

LEMMA NoTokenFacts ==
  ASSUME RInv PROVE NoToken \in Token /\ NoToken.key = None /\ KeyOK(NoToken) /\ \A k : ~Verifies(NoToken, k)
BY DEF RInv, RecordOK, NoToken, Token, KeyOK, Verifies

LEMMA WayTokens ==
  ASSUME RInv, NEW q \in Asking
  PROVE  q \in Request /\ onWay[q] \in Answer /\ onWay[q].token \in Token /\ cookie \in Token
BY DEF RInv, WayOK, Asking, Request, Answer

\* What slides was there when the tick began.
LEMMA SlidesBase ==
  ASSUME RInv, NEW q \in Asking, NEW base \in Token, FromBase(q, base), onWay[q].at = "asked", Slides(q),
         onWay[q].token # NoToken
  PROVE  onWay[q].token = base
<1>1. ~Renewed(onWay[q].token)
  BY WayTokens, Numbers DEF Slides, Renewed, RInv, ClockOK, Token
<1> QED BY <1>1 DEF FromBase

LEMMA BadBaseBars ==
  ASSUME RInv, NEW base \in Token, NEW q \in Asking, FromBase(q, base), ~Verifies(base, record), Saves(q)
  PROVE  ~Verifies(onWay[q].token, record)
<1>1. CASE onWay[q].at = "asked" /\ Slides(q)
  BY <1>1, SlidesBase, NoTokenFacts
<1>2. CASE onWay[q].at = "ok" /\ onWay[q].stores
  BY <1>2 DEF FromBase, Lasts, Verifies
<1> QED BY <1>1, <1>2 DEF Saves

\* A cookie the server would refuse: nothing better is on its way.
LEMMA BadCookieBars ==
  ASSUME RInv, NEW base \in Token, Lineage(base), cookie.key # None, ~Verifies(cookie, Loaded.key)
  PROVE  Barred
<1>1. ~Verifies(cookie, record)
  BY KeyRead DEF Verifies, Lineage, RInv, WayOK
<1>2. ~Verifies(base, record)
  <2>1. cookie # NoToken
    BY NoTokenFacts
  <2>2. CASE cookie = base
    BY <1>1, <2>2
  <2>3. CASE Renewed(cookie)
    <3>1. cookie.key # record
      BY <1>1, <2>3, Numbers DEF Renewed, Verifies, RInv, ClockOK
    <3> QED BY <3>1 DEF Lineage, Verifies
  <2> QED BY <2>1, <2>2, <2>3 DEF Lineage
<1> QED BY <1>1, <1>2, BadBaseBars DEF Barred, Lineage

\* A step that stores no new cookie, and asks only with the one there is.
Tame == /\ UNCHANGED <<now, record>> /\ cookie' \in {cookie, NoToken}
        /\ \A t \in Token : KeyOK(t) => KeyOK(t)'
        /\ \A q \in Asking :
             \/ onWay'[q] = onWay[q]
             \/ onWay'[q].at \in {"no", "failed"} /\ onWay'[q].token = NoToken /\ onWay'[q].stores = FALSE
             \/ onWay'[q].at = "asked" /\ onWay'[q].token = cookie

LEMMA TameLineage ==
  ASSUME RInv, RInv', Tame, NEW base \in Token, Lineage(base) PROVE Lineage(base)'
<1>1. /\ now' = now /\ record' = record /\ NoToken \in Token /\ NoToken.key = None /\ KeyOK(NoToken)
      /\ \A t \in Token : KeyOK(t) => KeyOK(t)'
  BY NoTokenFacts DEF Tame
<1>2. \A t \in Token : Renewed(t)' <=> Renewed(t)
  BY <1>1 DEF Renewed
<1>3. ASSUME NEW q \in Asking PROVE FromBase(q, base)'
  <2>1. FromBase(q, base) /\ onWay[q].token \in Token /\ cookie \in Token
    BY WayTokens DEF Lineage
  <2>2. CASE onWay'[q] = onWay[q]
    BY <1>1, <1>2, <2>1, <2>2 DEF FromBase, Lasts, Verifies
  <2>3. CASE onWay'[q].at \in {"no", "failed"} /\ onWay'[q].token = NoToken /\ onWay'[q].stores = FALSE
    BY <1>1, <2>3 DEF FromBase
  <2>4. CASE onWay'[q].at = "asked" /\ onWay'[q].token = cookie
    BY <1>1, <1>2, <2>1, <2>4 DEF FromBase, Lineage
  <2> QED BY <2>2, <2>3, <2>4 DEF Tame
<1>4. cookie \in Token /\ (cookie' = cookie \/ cookie' = NoToken)
  BY DEF Tame, RInv, WayOK
<1>5. KeyOK(base)' /\ KeyOK(cookie)'
  <2>1. KeyOK(base) /\ KeyOK(cookie)
    BY DEF Lineage
  <2>2. CASE cookie' = cookie
    BY <1>1, <1>4, <2>1, <2>2 DEF KeyOK
  <2>3. CASE cookie' = NoToken
    BY <1>1, <1>4, <2>1, <2>3 DEF KeyOK
  <2> QED BY <1>4, <2>2, <2>3
<1>6. /\ (cookie = NoToken \/ cookie = base \/ Renewed(cookie))'
      /\ (base.key = record => cookie.key \in {None, record})'
  BY <1>1, <1>2, <1>4 DEF Lineage
<1> QED BY <1>3, <1>5, <1>6 DEF Lineage

LEMMA TameBarred ==
  ASSUME RInv, Tame, Barred PROVE Barred'
<1>1. /\ now' = now /\ record' = record /\ ~Verifies(cookie, record) /\ \A k : ~Verifies(NoToken, k)
      /\ cookie' \in {cookie, NoToken}
  BY NoTokenFacts DEF Tame, Barred
<1>2. ~Verifies(cookie, record)'
  <2>1. CASE cookie' = cookie
    BY <1>1, <2>1 DEF Verifies
  <2>2. CASE cookie' = NoToken
    BY <1>1, <2>2 DEF Verifies
  <2> QED BY <1>1, <2>1, <2>2
<1>3. ASSUME NEW q \in Asking, Saves(q)' PROVE ~Verifies(onWay[q].token, record)'
  <2>1. CASE onWay'[q] = onWay[q]
    <3>1. Saves(q)
      BY <1>1, <1>3, <2>1 DEF Saves, Slides
    <3> QED BY <1>1, <2>1, <3>1 DEF Barred, Verifies
  <2>2. CASE onWay'[q].at \in {"no", "failed"} /\ onWay'[q].token = NoToken /\ onWay'[q].stores = FALSE
    BY <1>3, <2>2 DEF Saves
  <2>3. CASE onWay'[q].at = "asked" /\ onWay'[q].token = cookie
    BY <1>1, <2>3 DEF Verifies
  <2> QED BY <2>1, <2>2, <2>3 DEF Tame
<1> QED BY <1>2, <1>3 DEF Barred

LEMMA TameStays ==
  ASSUME RInv, RInv', SInv, Tame, Out' => Barred, LogoutOK' PROVE SInv'
<1>1. PICK base \in Token : Lineage(base)
  BY DEF SInv
<1> QED BY <1>1, TameLineage, TameBarred DEF SInv

-----------------------------------------------------------------------------
(* The lineage along the steps.                                            *)

\* Steps that keep the clock, the record and the jar, and perhaps read the record.
LEMMA TameWay ==
  ASSUME RInv, Still, Loads \/ UNCHANGED held, cookie' \in {cookie, NoToken},
         \A q \in Asking :
           \/ onWay'[q] = onWay[q]
           \/ onWay'[q].at \in {"no", "failed"} /\ onWay'[q].token = NoToken /\ onWay'[q].stores = FALSE
           \/ onWay'[q].at = "asked" /\ onWay'[q].token = cookie
  PROVE  Tame
<1>1. \A t \in Token : KeyOK(t) => KeyOK(t)'
  BY KeyLoads
<1> QED BY <1>1 DEF Tame, Still

\* The page is no nearer to the login than it was.
LEMMA SamePage ==
  ASSUME page'.unlucky = page.unlucky, page'.authed = page.authed, page'.chose = page.chose,
         page'.ws = page.ws \/ page'.ws # "refused"
  PROVE  Out' => Out
BY DEF Out

LEMMA SameLogout ==
  ASSUME LogoutOK, onWay'["logout"] = onWay["logout"] PROVE LogoutOK'
BY DEF LogoutOK

LEMMA ConnectsTame ==
  ASSUME RInv, NEW p \in Page, Connects(p)
  PROVE  /\ page'.unlucky = p.unlucky /\ page'.authed = p.authed /\ page'.chose = p.chose /\ page'.ws = p.ws
         /\ onWay'["logout"] = onWay["logout"]
         /\ \A q \in Asking : \/ onWay'[q] = onWay[q]
                              \/ onWay'[q].at = "asked" /\ onWay'[q].token = cookie
<1>1. CASE page' = p /\ UNCHANGED onWay
  BY <1>1
<1>2. CASE page' = [p EXCEPT !.connecting = TRUE] /\ Goes("ticket", Asked)
  <2>1. "logout" \in Request /\ "ticket" \in Request /\ Asking \subseteq Request
    BY DEF Request, Asking
  <2>2. onWay' = [onWay EXCEPT !["ticket"] = Asked] /\ Asked.at = "asked" /\ Asked.token = cookie
    BY <1>2, AskedAnswer DEF Goes, RInv
  <2>3. onWay \in [Request -> Answer]
    BY DEF RInv, WayOK
  <2>4. \A q \in Asking : onWay'[q] = onWay[q] \/ (onWay'[q].at = "asked" /\ onWay'[q].token = cookie)
    BY <2>1, <2>2, <2>3
  <2>5. onWay'["logout"] = onWay["logout"]
    BY <2>1, <2>2, <2>3
  <2> QED BY <1>2, <2>4, <2>5 DEF Page
<1> QED BY <1>1, <1>2 DEF Connects

LEMMA SInit ==
  ASSUME Init PROVE SInv
<1>1. RInv
  BY RInit
<1>2. \A q \in Asking : onWay[q] = [at |-> "asked", token |-> cookie, stores |-> FALSE, ticket |-> 0]
  BY DEF Init, Asking, Request, Quiet
<1>3. onWay["logout"] = Quiet
  BY DEF Init, Request
<1>4. cookie \in Token /\ held.key = None
  BY <1>1 DEF RInv, WayOK, Init, LoginInit
<1>5. KeyOK(cookie)
  BY <1>4 DEF Init, LoginInit, KeyOK, NoToken
<1>6. cookie.key \in {None, record}
  BY DEF Init, NoToken
<1>7. Lineage(cookie)
  BY <1>2, <1>5, <1>6 DEF Lineage, FromBase
<1>8. ~Out
  BY DEF Init, Out, NoPage
<1> QED BY <1>3, <1>4, <1>7, <1>8 DEF SInv, LogoutOK, Quiet

\* A new record outdates every token there is.
LEMMA RecordChangesStays ==
  ASSUME RInv, SInv, RecordChanges, UNCHANGED accessVars PROVE SInv'
<1>1. /\ record' = record + 1 /\ record \in Nat
      /\ UNCHANGED <<now, held, cookie, page, onWay>>
  BY DEF RecordChanges, accessVars, RInv, RecordOK
<1>2. PICK base \in Token : Lineage(base)
  BY DEF SInv
<1>3. \A t \in Token : KeyOK(t) => KeyOK(t)' /\ t.key # record'
  BY <1>1 DEF KeyOK, Token
<1>4. base \in Token /\ cookie \in Token /\ \A q \in Asking : onWay[q].token \in Token
  BY WayTokens DEF RInv, WayOK
<1>5. \A t \in Token : Renewed(t)' <=> Renewed(t)
  BY <1>1 DEF Renewed
<1>6. \A q \in Asking : FromBase(q, base)'
  BY <1>1, <1>2, <1>3, <1>4, <1>5 DEF Lineage, FromBase, Lasts, Verifies
<1>7. Lineage(base)'
  BY <1>1, <1>2, <1>3, <1>4, <1>5, <1>6 DEF Lineage
<1>8. Barred'
  BY <1>1, <1>2, <1>3, <1>4 DEF Barred, Verifies, Lineage, FromBase
<1> QED BY <1>1, <1>7, <1>8 DEF SInv, LogoutOK

LEMMA LoginsStay ==
  ASSUME RInv, RInv', SInv, NEW c \in Caller,
         (HashEnds /\ UNCHANGED accessVars) \/ PasswordTyped(c) \/ OtherLoginAnswered(c) \/ Dials
  PROVE  SInv'
<1>1. Still /\ (Loads \/ UNCHANGED held) /\ UNCHANGED <<cookie, page, onWay>>
  <2>1. CASE HashEnds /\ UNCHANGED accessVars
    BY <2>1 DEF HashEnds, accessVars, Still
  <2>2. CASE PasswordTyped(c)
    BY <2>2 DEF PasswordTyped, LoginArrives, accessVars, Still
  <2>3. CASE OtherLoginAnswered(c)
    BY <2>3 DEF OtherLoginAnswered, LoginAnswered, Still
  <2>4. CASE Dials
    BY <2>4 DEF Dials, Still
  <2> QED BY <2>1, <2>2, <2>3, <2>4
<1>2. Tame
  BY <1>1, TameWay
<1>3. Out' => Barred
  BY <1>1 DEF SInv, Out
<1> QED BY <1>1, <1>2, <1>3, TameStays, SameLogout DEF SInv

LEMMA RequestsStay ==
  ASSUME RInv, RInv', SInv, LogoutAsked \/ (\E q \in Request : Fails(q)) PROVE SInv'
<1>0. onWay \in [Request -> Answer] /\ "logout" \in Request /\ Asking \subseteq Request
  BY DEF RInv, WayOK, Request, Asking
<1>1. CASE LogoutAsked
  <2>1. Still /\ UNCHANGED <<held, cookie, page>>
    BY <1>1 DEF LogoutAsked, loginVars, Still
  <2> DEFINE r == [Quiet EXCEPT !.at = "ok", !.stores = TRUE]
  <2>2. onWay' = [onWay EXCEPT !["logout"] = r] /\ r.at = "ok" /\ r.token = NoToken
    BY <1>1 DEF LogoutAsked, Goes, Quiet
  <2> HIDE DEF r
  <2>3. Tame
    <3>1. \A q \in Asking : onWay'[q] = onWay[q]
      BY <1>0, <2>2 DEF Asking
    <3> QED BY <2>1, <3>1, TameWay
  <2>4. LogoutOK'
    BY <1>0, <2>2 DEF LogoutOK
  <2> QED BY <2>1, <2>3, <2>4, TameStays DEF SInv, Out
<1>2. ASSUME NEW q \in Request, Fails(q) PROVE SInv'
  <2>1. Still /\ UNCHANGED <<held, cookie, page>>
    BY <1>2 DEF Fails, Still
  <2> DEFINE r == [Quiet EXCEPT !.at = "failed"]
  <2>2. onWay' = [onWay EXCEPT ![q] = r] /\ r.at = "failed" /\ r.token = NoToken /\ r.stores = FALSE
    BY <1>2 DEF Fails, Goes, Quiet
  <2> HIDE DEF r
  <2>3. Tame
    <3>1. \A p \in Asking : \/ onWay'[p] = onWay[p]
                            \/ onWay'[p].at \in {"no", "failed"} /\ onWay'[p].token = NoToken /\ onWay'[p].stores = FALSE
      BY <1>0, <2>2
    <3> QED BY <2>1, <3>1, TameWay
  <2>4. LogoutOK'
    <3>1. CASE q = "logout"
      BY <1>0, <2>2, <3>1 DEF LogoutOK
    <3>2. CASE q # "logout"
      BY <1>0, <2>2, <3>2 DEF LogoutOK, SInv
    <3> QED BY <3>1, <3>2
  <2> QED BY <2>1, <2>3, <2>4, TameStays DEF SInv, Out
<1> QED BY <1>1, <1>2

\* The page's own steps, but for the answers to its requests.
LEMMA PageStays ==
  ASSUME RInv, RInv', SInv,
         Mounts \/ TimerFires \/ Refreshes \/ Closes \/ LineDrops \/ SignsOut \/ SignOutEnds
  PROVE  SInv'
<1>0. onWay \in [Request -> Answer] /\ {"logout", "snapshot"} \subseteq Request /\ Asking \subseteq Request /\ page \in Page
  BY DEF RInv, WayOK, PageOK, Request, Asking
<1>1. CASE Mounts
  <2>1. Still /\ UNCHANGED <<held, cookie>> /\ Connects(page)
    BY <1>1 DEF Mounts, Still
  <2>2. Tame
    BY <1>0, <2>1, ConnectsTame, TameWay
  <2> QED BY <1>0, <2>1, <2>2, ConnectsTame, SamePage, SameLogout, TameStays DEF SInv
<1>2. CASE TimerFires
  <2> DEFINE p == [page EXCEPT !.timer = FALSE]
  <2>1. Still /\ UNCHANGED <<held, cookie>> /\ Connects(p)
    BY <1>2 DEF TimerFires, loginVars, Still
  <2>2. /\ p \in Page /\ p.unlucky = page.unlucky /\ p.authed = page.authed /\ p.chose = page.chose /\ p.ws = page.ws
    BY <1>0 DEF Page
  <2> HIDE DEF p
  <2>3. Tame
    BY <2>1, <2>2, ConnectsTame, TameWay
  <2> QED BY <2>1, <2>2, <2>3, ConnectsTame, SamePage, SameLogout, TameStays DEF SInv
<1>3. CASE Refreshes
  <2>1. Still /\ UNCHANGED <<held, cookie, page>> /\ Goes("snapshot", Asked)
    BY <1>3 DEF Refreshes, Still
  <2>2. Asked.at = "asked" /\ Asked.token = cookie /\ onWay' = [onWay EXCEPT !["snapshot"] = Asked]
    BY <2>1, AskedAnswer DEF Goes, RInv
  <2>3. onWay'["logout"] = onWay["logout"]
        /\ \A q \in Asking : onWay'[q] = onWay[q] \/ (onWay'[q].at = "asked" /\ onWay'[q].token = cookie)
    BY <1>0, <2>2
  <2> QED BY <2>1, <2>3, TameWay, SameLogout, TameStays DEF SInv, Out
<1>4. CASE Closes
  <2>1. /\ Still /\ UNCHANGED <<held, cookie, onWay>> /\ page.ws = "refused"
        /\ page' = [page EXCEPT !.ws = "none", !.authed = "no", !.chose = FALSE]
    BY <1>4 DEF Closes, loginVars, Still
  <2>2. Out' => Out
    BY <1>0, <2>1 DEF Out, Page
  <2> QED BY <2>1, <2>2, TameWay, SameLogout, TameStays DEF SInv
<1>5. CASE LineDrops
  <2>1. /\ Still /\ UNCHANGED <<held, cookie, onWay>>
        /\ page' = [page EXCEPT !.ws = "none", !.timer = TRUE]
    BY <1>5 DEF LineDrops, Still
  <2>2. Out' => Out
    BY <1>0, <2>1 DEF Out, Page
  <2> QED BY <2>1, <2>2, TameWay, SameLogout, TameStays DEF SInv
<1>6. CASE SignsOut
  <2>1. /\ Still /\ UNCHANGED <<held, cookie>> /\ page' = [page EXCEPT !.leaving = TRUE]
        /\ Goes("logout", Asked)
    BY <1>6 DEF SignsOut, Still
  <2>2. Asked.at = "asked" /\ onWay' = [onWay EXCEPT !["logout"] = Asked]
    BY <2>1, AskedAnswer DEF Goes, RInv
  <2>3. onWay'["logout"].at = "asked" /\ \A q \in Asking : onWay'[q] = onWay[q]
    BY <1>0, <2>2 DEF Asking
  <2>4. Out' => Out
    BY <1>0, <2>1 DEF Out, Page
  <2>5. LogoutOK'
    BY <2>3 DEF LogoutOK
  <2> QED BY <2>1, <2>3, <2>4, <2>5, TameWay, TameStays DEF SInv
<1>7. CASE SignOutEnds
  <2>1. /\ Still /\ UNCHANGED held /\ Stores("logout") /\ Heard("logout")
        /\ page' = [page EXCEPT !.timer = FALSE, !.ws = "none", !.leaving = FALSE, !.authed = "no", !.chose = TRUE]
        /\ onWay' = [onWay EXCEPT !["logout"] = Quiet]
    BY <1>7 DEF SignOutEnds, Disconnects, Goes, loginVars, Still
  <2>2. cookie' \in {cookie, NoToken}
    BY <2>1 DEF Stores, Heard, SInv, LogoutOK
  <2>3. \A q \in Asking : onWay'[q] = onWay[q]
    BY <1>0, <2>1 DEF Asking
  <2>4. ~Out'
    BY <1>0, <2>1 DEF Out, Page
  <2>5. LogoutOK'
    BY <1>0, <2>1 DEF LogoutOK, Quiet
  <2> QED BY <2>1, <2>2, <2>3, <2>4, <2>5, TameWay, TameStays
<1> QED BY <1>1, <1>2, <1>3, <1>4, <1>5, <1>6, <1>7

\* One answer changed, and what the rest comes to.
LEMMA AnsweredWhole ==
  ASSUME RInv, SInv, NEW q \in Asking, Still, UNCHANGED <<cookie, page>>, NEW base \in Token, Lineage(base),
         \A p \in Request : p # q => onWay'[p] = onWay[p],
         \A t \in Token : KeyOK(t) => KeyOK(t)',
         \A p \in Asking : p # q => FromBase(p, base)',
         FromBase(q, base)',
         Barred /\ Saves(q)' => ~Verifies(onWay[q].token, record)'
  PROVE  SInv'
<1>1. /\ now' = now /\ record' = record /\ cookie' = cookie /\ cookie \in Token
  BY DEF Still, RInv, WayOK
<1>2. Lineage(base)'
  <2>1. KeyOK(base)' /\ KeyOK(cookie)'
    BY <1>1 DEF Lineage, KeyOK
  <2> QED BY <1>1, <2>1 DEF Lineage, Renewed
<1>3. Barred => Barred'
  <2>1. ASSUME Barred, NEW p \in Asking, Saves(p)' PROVE ~Verifies(onWay[p].token, record)'
    <3>1. CASE p = q
      BY <2>1, <3>1
    <3>2. CASE p # q
      <4>1. onWay'[p] = onWay[p]
        BY <3>2 DEF Asking, Request
      <4>2. Saves(p)
        BY <1>1, <2>1, <4>1 DEF Saves, Slides
      <4> QED BY <1>1, <2>1, <4>1, <4>2 DEF Barred, Verifies
    <3> QED BY <3>1, <3>2
  <2> QED BY <1>1, <2>1 DEF Barred, Verifies
<1>4. Out' => Out
  BY DEF Out
<1>5. LogoutOK'
  BY SameLogout DEF SInv, Asking, Request
<1> QED BY <1>2, <1>3, <1>4, <1>5 DEF SInv

\* The gate's answer to one request, by the record as it reads it.
LEMMA AnsweredStays ==
  ASSUME RInv, RInv', SInv, NEW q \in Asking, onWay[q].at = "asked", Still, Loads,
         UNCHANGED <<cookie, page>>,
         onWay'[q].at = Judged(q).at, onWay'[q].token = Judged(q).token, onWay'[q].stores = Judged(q).stores,
         \A p \in Request : p # q => onWay'[p] = onWay[p]
  PROVE  SInv'
<1>1. PICK base \in Token : Lineage(base)
  BY DEF SInv
<1> DEFINE token == onWay[q].token
<1>2. /\ now' = now /\ record' = record /\ token \in Token /\ NoToken \in Token /\ NoToken.key = None
      /\ \A t \in Token : KeyOK(t) => KeyOK(t)'
      /\ \A t \in Token : Renewed(t)' <=> Renewed(t)
      /\ KeyOK(NoToken) /\ KeyOK(base) /\ KeyOK(cookie) /\ cookie \in Token
  BY <1>1, NoTokenFacts, WayTokens, KeyLoads DEF Still, Renewed, Lineage
<1>3. ASSUME NEW p \in Asking, p # q PROVE FromBase(p, base)'
  <2>1. onWay'[p] = onWay[p] /\ onWay[p].token \in Token /\ FromBase(p, base)
    BY <1>1, <1>3, WayTokens DEF Lineage
  <2> QED BY <1>2, <2>1 DEF FromBase, Lasts, Verifies
<1>4. FromBase(q, base)
  BY <1>1 DEF Lineage
<1>5. CASE ~Allowed(q)
  <2>1. /\ onWay'[q].at = "refused" /\ onWay'[q].token = NoToken
        /\ onWay'[q].stores <=> token # NoToken
    BY <1>5, Judgement
  <2>2. ASSUME token # NoToken PROVE ~Verifies(base, record)
    <3>1. ~Verifies(token, Loaded.key)
      BY <1>5 DEF Allowed
    <3>2. SUFFICES ASSUME Verifies(base, record) PROVE FALSE
      OBVIOUS
    <3>3. base.key = record /\ record # None
      BY <3>2 DEF Verifies
    <3>4. Loaded.key = record
      BY <1>2, <3>3, KeyRead
    <3>5. CASE token = base
      BY <3>1, <3>2, <3>4, <3>5
    <3>6. CASE Renewed(token)
      <4>1. token.key = record
        BY <1>4, <3>3, <3>6 DEF FromBase, Renewed
      <4> QED BY <1>2, <3>1, <3>3, <3>4, <3>6, <4>1, Numbers DEF Verifies, Renewed, RInv, ClockOK
    <3> QED BY <1>4, <2>2, <3>5, <3>6 DEF FromBase
  <2>3. FromBase(q, base)'
    <3>1. onWay'[q].stores => ~Verifies(base, record)'
      BY <1>2, <2>1, <2>2 DEF Verifies
    <3> QED BY <1>2, <2>1, <3>1 DEF FromBase
  <2>4. ~Saves(q)'
    BY <2>1 DEF Saves
  <2> HIDE DEF token
  <2> QED BY <1>1, <1>2, <1>3, <2>3, <2>4, AnsweredWhole
<1>6. CASE Allowed(q) /\ ~Slides(q)
  <2>1. onWay'[q].at = "ok" /\ onWay'[q].stores = FALSE /\ onWay'[q].token = NoToken
    BY <1>6, Judgement
  <2>2. FromBase(q, base)'
    BY <1>2, <2>1 DEF FromBase
  <2>3. ~Saves(q)'
    BY <2>1 DEF Saves
  <2> HIDE DEF token
  <2> QED BY <1>1, <1>2, <1>3, <2>2, <2>3, AnsweredWhole
<1>7. CASE Allowed(q) /\ Slides(q)
  <2>1. /\ onWay'[q].at = "ok" /\ onWay'[q].stores = TRUE
        /\ onWay'[q].token = [token EXCEPT !.exp = now + Idle]
    BY <1>7, Judgement
  <2>2. /\ token = base /\ token.key # None /\ Lasts(base)
    BY <1>4, <1>7, NoTokenFacts, SlidesBase DEF Allowed, Verifies, Lasts
  <2>3. /\ onWay'[q].token.key = base.key /\ onWay'[q].token.iat = base.iat
        /\ onWay'[q].token.exp = now + Idle
    BY <1>2, <2>1, <2>2 DEF Token
  <2>4. FromBase(q, base)'
    <3>1. KeyOK(onWay[q].token)'
      <4>1. KeyOK(base)'
        BY <1>2
      <4> QED BY <2>3, <4>1 DEF KeyOK
    <3>2. Renewed(onWay[q].token)'
      BY <1>2, <2>2, <2>3 DEF Renewed, Lasts
    <3> QED BY <1>2, <2>1, <2>2, <2>3, <3>1, <3>2 DEF FromBase, Lasts
  <2>5. Barred => ~Verifies(onWay[q].token, record)'
    <3>1. ASSUME Barred PROVE token.key # record
      <4>1. ~Verifies(token, record)
        BY <1>7, <3>1 DEF Barred, Saves
      <4> QED BY <2>2, <4>1 DEF Verifies, Lasts
    <3> QED BY <1>2, <2>2, <2>3, <3>1 DEF Verifies
  <2> HIDE DEF token
  <2> QED BY <1>1, <1>2, <1>3, <2>4, <2>5, AnsweredWhole
<1> QED BY <1>5, <1>6, <1>7

LEMMA AskedStay ==
  ASSUME RInv, RInv', SInv, TicketAsked \/ SnapshotAsked PROVE SInv'
<1>0. onWay \in [Request -> Answer] /\ Asking \subseteq Request /\ {"ticket", "snapshot"} \subseteq Asking
  BY DEF RInv, WayOK, Request, Asking
<1>1. CASE SnapshotAsked
  <2>1. /\ onWay["snapshot"].at = "asked" /\ Still /\ Loads /\ UNCHANGED <<cookie, page>>
        /\ onWay' = [onWay EXCEPT !["snapshot"] = Judged("snapshot")]
    BY <1>1 DEF SnapshotAsked, Goes, Still
  <2> QED BY <1>0, <2>1, AnsweredStays
<1>2. CASE TicketAsked
  <2>1. onWay["ticket"].at = "asked" /\ Still /\ Loads /\ UNCHANGED <<cookie, page>>
    BY <1>2 DEF TicketAsked, Still
  <2>2. PICK r : /\ onWay' = [onWay EXCEPT !["ticket"] = r]
                 /\ r.at = Judged("ticket").at /\ r.token = Judged("ticket").token
                 /\ r.stores = Judged("ticket").stores
    <3>1. CASE Allowed("ticket")
      <4> DEFINE r == [Judged("ticket") EXCEPT !.ticket = last + 1]
      <4>1. onWay' = [onWay EXCEPT !["ticket"] = r]
        BY <1>2, <3>1 DEF TicketAsked, Goes
      <4>2. Judged("ticket") \in Answer
        BY <1>0, Judgement
      <4>3. /\ r.at = Judged("ticket").at /\ r.token = Judged("ticket").token
            /\ r.stores = Judged("ticket").stores
        BY <4>2 DEF Answer
      <4> QED BY <4>1, <4>3
    <3>2. CASE ~Allowed("ticket")
      BY <1>2, <3>2 DEF TicketAsked, Goes
    <3> QED BY <3>1, <3>2
  <2> QED BY <1>0, <2>1, <2>2, AnsweredStays
<1> QED BY <1>1, <1>2

\* An answer that arrives: the jar stores what it sets, then the page hears it.
LEMMA ArrivesStays ==
  ASSUME RInv, RInv', SInv, NEW q \in Asking, Heard(q), Stores(q), Still, UNCHANGED held,
         onWay' = [onWay EXCEPT ![q] = Quiet],
         onWay[q].at = "refused" => page'.unlucky = ~onWay[q].stores,
         onWay[q].at # "refused" => (Out' => Out)
  PROVE  SInv'
<1>1. PICK base \in Token : Lineage(base)
  BY DEF SInv
<1>2. /\ now' = now /\ record' = record /\ NoToken \in Token /\ NoToken.key = None
      /\ \A t \in Token : KeyOK(t)' <=> KeyOK(t)
      /\ \A t \in Token : Renewed(t)' <=> Renewed(t)
      /\ KeyOK(NoToken) /\ KeyOK(base) /\ KeyOK(cookie) /\ cookie \in Token /\ onWay[q].token \in Token
      /\ \A k : ~Verifies(NoToken, k)
  BY <1>1, NoTokenFacts, WayTokens DEF Still, Renewed, Lineage, KeyOK
<1>3. onWay'[q] = Quiet /\ "logout" # q /\ onWay'["logout"] = onWay["logout"]
      /\ \A p \in Asking : p # q => onWay'[p] = onWay[p]
  BY DEF RInv, WayOK, Request, Asking
<1>4. FromBase(q, base)
  BY <1>1 DEF Lineage
<1>5. \A p \in Asking : FromBase(p, base)'
  <2>1. ASSUME NEW p \in Asking PROVE FromBase(p, base)'
    <3>1. CASE p = q
      BY <1>2, <1>3, <3>1 DEF FromBase, Quiet
    <3>2. CASE p # q
      <4>1. onWay'[p] = onWay[p] /\ onWay[p].token \in Token /\ FromBase(p, base)
        BY <1>1, <1>3, <3>2, WayTokens DEF Lineage
      <4> QED BY <1>2, <4>1 DEF FromBase, Lasts, Verifies
    <3> QED BY <3>1, <3>2
  <2> QED BY <2>1
<1>6. \/ cookie' = cookie /\ onWay[q].stores # TRUE
      \/ cookie' = NoToken /\ onWay[q].at = "refused" /\ onWay[q].stores = TRUE
      \/ cookie' = onWay[q].token /\ onWay[q].at = "ok" /\ onWay[q].stores = TRUE
  <2>1. onWay[q].at \in {"ok", "refused", "failed"} /\ onWay[q].stores \in BOOLEAN
    BY WayTokens DEF Heard, Answer, At
  <2> QED BY <1>4, <2>1 DEF Stores, FromBase
<1>7. Lineage(base)'
  <2>1. CASE cookie' = cookie
    BY <1>1, <1>2, <1>5, <2>1 DEF Lineage
  <2>2. CASE cookie' = NoToken
    BY <1>1, <1>2, <1>5, <2>2 DEF Lineage
  <2>3. CASE cookie' = onWay[q].token /\ onWay[q].at = "ok" /\ onWay[q].stores = TRUE
    BY <1>1, <1>2, <1>4, <1>5, <2>3 DEF Lineage, FromBase
  <2> QED BY <1>6, <2>1, <2>2, <2>3
<1>8. ASSUME NEW p \in Asking, Saves(p)' PROVE Saves(p) /\ p # q /\ onWay'[p] = onWay[p]
  <2>1. p # q
    BY <1>3, <1>8 DEF Saves, Quiet
  <2> QED BY <1>2, <1>3, <1>8, <2>1 DEF Saves, Slides
<1>9. ASSUME Out' PROVE Barred'
  <2>1. CASE onWay[q].at = "refused"
    <3>1. onWay[q].stores = TRUE /\ cookie' = NoToken
      BY <1>6, <1>9, <2>1 DEF Out
    <3>2. ~Verifies(base, record)
      BY <1>4, <2>1, <3>1 DEF FromBase
    <3>3. ASSUME NEW p \in Asking, Saves(p)' PROVE ~Verifies(onWay[p].token, record)'
      BY <1>1, <1>2, <1>8, <3>2, <3>3, BadBaseBars DEF Lineage, Verifies
    <3> QED BY <1>2, <3>1, <3>3 DEF Barred, Verifies
  <2>2. CASE onWay[q].at # "refused"
    <3>1. Barred
      BY <1>9, <2>2 DEF SInv
    <3>2. ~Verifies(cookie, record)'
      BY <1>2, <1>6, <2>2, <3>1 DEF Barred, Saves, Verifies
    <3>3. ASSUME NEW p \in Asking, Saves(p)' PROVE ~Verifies(onWay[p].token, record)'
      BY <1>2, <1>8, <3>1, <3>3 DEF Barred, Verifies
    <3> QED BY <3>2, <3>3 DEF Barred
  <2> QED BY <2>1, <2>2
<1>10. LogoutOK'
  BY <1>3, SameLogout DEF SInv
<1> QED BY <1>7, <1>9, <1>10 DEF SInv

LEMMA ArriveStay ==
  ASSUME RInv, RInv', SInv, TicketArrives \/ SnapshotArrives PROVE SInv'
<1>0. page \in Page /\ \A q \in Asking : onWay[q] \in Answer
  BY WayTokens DEF RInv, PageOK
<1>1. CASE TicketArrives
  <2> DEFINE p == [page EXCEPT !.connecting = FALSE]
  <2>1. /\ Heard("ticket") /\ Stores("ticket") /\ Still /\ UNCHANGED held
        /\ onWay' = [onWay EXCEPT !["ticket"] = Quiet] /\ "ticket" \in Asking
        /\ page' = CASE onWay["ticket"].at = "refused" -> SignedOut(p, "ticket")
                     [] onWay["ticket"].at = "failed" -> Reconnects(p)
                     [] OTHER -> IF HasSocket THEN p
                                 ELSE [p EXCEPT !.ws = "opening", !.ticket = onWay["ticket"].ticket]
    BY <1>1 DEF TicketArrives, Goes, Still, loginVars, Asking
  <2>2. p \in Page /\ p.unlucky = page.unlucky /\ p.authed = page.authed /\ p.chose = page.chose /\ p.ws = page.ws
    BY <1>0 DEF Page
  <2> HIDE DEF p
  <2>3. CASE onWay["ticket"].at = "refused"
    <3>1. page' = SignedOut(p, "ticket")
      BY <2>1, <2>3
    <3>2. page'.unlucky = ~onWay["ticket"].stores
      BY <2>2, <3>1 DEF SignedOut, Page
    <3> QED BY <2>1, <2>3, <3>2, ArrivesStays
  <2>4. CASE onWay["ticket"].at # "refused"
    <3>1. Out' => Out
      BY <2>1, <2>2, <2>4 DEF Out, Reconnects, Page
    <3> QED BY <2>1, <2>4, <3>1, ArrivesStays
  <2> QED BY <2>3, <2>4
<1>2. CASE SnapshotArrives
  <2>1. /\ Heard("snapshot") /\ Stores("snapshot") /\ Still /\ UNCHANGED held
        /\ onWay' = [onWay EXCEPT !["snapshot"] = Quiet] /\ "snapshot" \in Asking
        /\ page' = CASE onWay["snapshot"].at = "refused" -> SignedOut(page, "snapshot")
                     [] onWay["snapshot"].at = "failed" -> page
                     [] OTHER -> [page EXCEPT !.authed = "yes"]
    BY <1>2 DEF SnapshotArrives, Goes, Still, loginVars, Asking
  <2>3. CASE onWay["snapshot"].at = "refused"
    <3>1. page' = SignedOut(page, "snapshot")
      BY <2>1, <2>3
    <3>2. page'.unlucky = ~onWay["snapshot"].stores
      BY <1>0, <3>1 DEF SignedOut, Page
    <3> QED BY <2>1, <2>3, <3>2, ArrivesStays
  <2>4. CASE onWay["snapshot"].at # "refused"
    <3>1. Out' => Out
      BY <1>0, <2>1, <2>4 DEF Out, Page
    <3> QED BY <2>1, <2>4, <3>1, ArrivesStays
  <2> QED BY <2>3, <2>4
<1> QED BY <1>1, <1>2

\* A socket refused for the very cookie there is: there is no better one about.
LEMMA RefusedStay ==
  ASSUME RInv, RInv', SInv, Upgraded \/ Rechecks PROVE SInv'
<1>0. page \in Page
  BY DEF RInv, PageOK
<1>1. /\ Still /\ Loads /\ UNCHANGED <<cookie, onWay>>
  BY DEF Upgraded, Rechecks, Still
<1>2. Tame
  BY <1>1, TameWay
<1>3. LogoutOK'
  BY <1>1, SameLogout DEF SInv
<1>4. ASSUME cookie.key # None, ~Verifies(cookie, Loaded.key) PROVE Barred
  BY <1>4, BadCookieBars DEF SInv
<1>5. CASE Upgraded
  <2> DEFINE fresh == {t \in Spent : t.expires > now}
             good == {t \in fresh : Verifies(t.session, Loaded.key)}
  <2>1. CASE page' = [page EXCEPT !.ws = "open"]
    <3>1. Out' => Out
      BY <1>0, <2>1 DEF Out, Page
    <3> QED BY <1>2, <1>3, <3>1, TameStays DEF SInv
  <2>2. CASE good = {} /\ page' = [page EXCEPT !.ws = "refused", !.unlucky = \A t \in fresh : t.session # cookie]
    <3>1. ASSUME Out' PROVE \E t \in fresh : t.session = cookie
      <4>1. page'.unlucky = FALSE
        BY <3>1 DEF Out
      <4>2. page'.unlucky = (\A t \in fresh : t.session # cookie)
        BY <1>0, <2>2 DEF Page
      <4> QED BY <4>1, <4>2
    <3>2. ASSUME NEW t \in fresh, t.session = cookie PROVE Barred
      <4>1. t \in tickets /\ t.session.key # None
        BY DEF Spent, RInv, TicketsOK
      <4>2. ~Verifies(t.session, Loaded.key)
        BY <2>2
      <4> QED BY <1>4, <3>2, <4>1, <4>2
    <3> QED BY <1>2, <1>3, <3>1, <3>2, TameStays
  <2> QED BY <1>5, <2>1, <2>2 DEF Upgraded
<1>6. CASE Rechecks
  <2>1. PICK s \in socks :
          \/ UNCHANGED page
          \/ /\ ~StillGood(s, Loaded.key) /\ IsOurs(s)
             /\ page' = [page EXCEPT !.ws = "refused", !.unlucky = (s.session # cookie)]
    BY <1>6 DEF Rechecks
  <2>2. CASE UNCHANGED page
    <3>1. Out' => Out
      BY <2>2 DEF Out
    <3> QED BY <1>2, <1>3, <3>1, TameStays DEF SInv
  <2>3. CASE /\ ~StillGood(s, Loaded.key) /\ IsOurs(s)
             /\ page' = [page EXCEPT !.ws = "refused", !.unlucky = (s.session # cookie)]
    <3>1. ASSUME Out' PROVE s.session = cookie
      <4>1. page'.unlucky = FALSE
        BY <3>1 DEF Out
      <4>2. page'.unlucky = (s.session # cookie)
        BY <1>0, <2>3 DEF Page
      <4> QED BY <4>1, <4>2
    <3>2. s.session.key # None /\ ~Verifies(s.session, Loaded.key)
      BY <2>3 DEF IsOurs, StillGood, RInv, SocksOK, SocketOK
    <3> QED BY <1>2, <1>3, <1>4, <3>1, <3>2, TameStays
  <2> QED BY <2>1, <2>2, <2>3
<1> QED BY <1>5, <1>6

\* A login of the page's own: a new cookie, and what is asked with it.
LEMMA PageLoginStays ==
  ASSUME RInv, RInv', SInv, PageLoginAnswered PROVE SInv'
<1>0. Still /\ (Loads \/ UNCHANGED held)
  BY DEF PageLoginAnswered, LoginAnswered, Still
<1>1. CASE ~Accepts("page")
  <2>1. UNCHANGED <<cookie, page, onWay>>
    BY <1>1 DEF PageLoginAnswered
  <2>2. Out' => Out
    BY <2>1 DEF Out
  <2> QED BY <1>0, <2>1, <2>2, TameWay, SameLogout, TameStays DEF SInv
<1>2. CASE Accepts("page")
  <2>1. /\ Loads /\ Loaded.key # None
        /\ cookie' = [key |-> Loaded.key, iat |-> now, exp |-> now + Idle] /\ cookie' \in Token
        /\ onWay'["logout"] = onWay["logout"]
        /\ onWay'["snapshot"].at = "asked" /\ onWay'["snapshot"].token = cookie'
        /\ \/ onWay'["ticket"] = onWay["ticket"]
           \/ onWay'["ticket"].at = "asked" /\ onWay'["ticket"].token = cookie'
        /\ page'.authed = "yes" /\ page'.ws = page.ws
        /\ page.ws = "refused" => page'.unlucky = TRUE
    BY <1>2, FreshCookie
  <2>2. PICK base \in Token : Lineage(base)
    BY DEF SInv
  <2>3. /\ now' = now /\ record' = record
        /\ \A t \in Token : KeyOK(t) => KeyOK(t)'
        /\ \A t \in Token : Renewed(t)' <=> Renewed(t)
        /\ KeyOK(base)' /\ Loaded.key <= record
    BY <1>0, <2>2, KeyLoads, LoadedFacts DEF Still, Renewed, Lineage, RInv
  <2>4. KeyOK(cookie)'
    BY <2>1, <2>3 DEF KeyOK, Loads
  <2>5. Renewed(cookie)'
    BY <2>1, <2>3, Numbers DEF Renewed, RInv, ClockOK
  <2>6. base.key = record => cookie'.key = record
    <3>1. SUFFICES ASSUME base.key = record PROVE Loaded.key = record
      BY <2>1
    <3>2. CASE record = None
      BY <2>1, <2>3, <3>2, LoadedFacts DEF RInv
    <3>3. CASE record # None
      BY <2>2, <3>1, <3>3, KeyRead DEF Lineage
    <3> QED BY <3>2, <3>3
  <2>7. \A q \in Asking : FromBase(q, base)'
    <3>1. ASSUME NEW q \in Asking, onWay'[q].at = "asked", onWay'[q].token = cookie' PROVE FromBase(q, base)'
      BY <2>3, <2>4, <2>5, <2>6, <3>1 DEF FromBase
    <3>2. ASSUME NEW q \in Asking, onWay'[q] = onWay[q] PROVE FromBase(q, base)'
      <4>1. FromBase(q, base) /\ onWay[q].token \in Token
        BY <2>2, WayTokens DEF Lineage
      <4> QED BY <2>3, <3>2, <4>1 DEF FromBase, Lasts, Verifies
    <3> QED BY <2>1, <3>1, <3>2 DEF Asking
  <2>8. Lineage(base)'
    BY <2>3, <2>4, <2>5, <2>6, <2>7 DEF Lineage
  <2>9. ~Out'
    BY <2>1 DEF Out
  <2> QED BY <2>1, <2>8, <2>9, SameLogout DEF SInv
<1> QED BY <1>1, <1>2

\* A restart loses the tickets, the sockets and what the server had read.
LEMMA RestartsStay ==
  ASSUME RInv, RInv', SInv, Restarts PROVE SInv'
<1>0. onWay \in [Request -> Answer] /\ page \in Page /\ Asking \subseteq Request /\ "logout" \in Request
  BY DEF RInv, WayOK, PageOK, Request, Asking
<1>1. /\ now' = now /\ record' = record /\ held'.key = None /\ UNCHANGED cookie
  BY DEF Restarts, LoginRestarts
<1> DEFINE r == [Quiet EXCEPT !.at = "failed"]
<1>2. r.at = "failed" /\ r.token = NoToken /\ r.stores = FALSE
  BY DEF Quiet
<1>3. onWay' = [q \in Request |-> IF onWay[q].at = "asked" THEN r ELSE onWay[q]]
  BY DEF Restarts
<1> HIDE DEF r
<1>4. \A t \in Token : KeyOK(t) => KeyOK(t)'
  BY <1>1 DEF KeyOK
<1>5. Tame
  BY <1>0, <1>1, <1>2, <1>3, <1>4 DEF Tame
<1>6. Out' => Out
  <2>1. page' = page \/ page' = [page EXCEPT !.ws = "none", !.timer = TRUE]
    BY DEF Restarts
  <2> QED BY <1>0, <2>1 DEF Out, Page
<1>7. LogoutOK'
  BY <1>0, <1>2, <1>3 DEF LogoutOK, SInv
<1> QED BY <1>5, <1>6, <1>7, TameStays DEF SInv

\* With nothing under way the jar's cookie is what the next tick starts from.
LEMMA PassesStays ==
  ASSUME RInv, SInv, Passes PROVE SInv'
<1>1. /\ now' = now + 1 /\ UNCHANGED <<record, held, cookie, page, onWay>>
      /\ \A q \in Request : onWay[q].at = "no"
  BY DEF Passes, Ticks, accessVars
<1>2. PICK base \in Token : Lineage(base)
  BY DEF SInv
<1>3. cookie \in Token /\ KeyOK(cookie) /\ NoToken.key = None /\ now \in Nat
  BY <1>2, NoTokenFacts DEF Lineage, RInv, WayOK, ClockOK
<1>4. \A q \in Asking : onWay[q].at = "no" /\ onWay[q].token = NoToken /\ onWay[q].stores = FALSE
  BY <1>1, <1>2 DEF Lineage, FromBase, Asking, Request
<1>5. KeyOK(cookie)' /\ KeyOK(NoToken)'
  BY <1>1, <1>3, NoTokenFacts DEF KeyOK
<1>6. \A q \in Asking : FromBase(q, cookie)'
  BY <1>1, <1>3, <1>4, <1>5 DEF FromBase
<1>7. Lineage(cookie)'
  BY <1>5, <1>6 DEF Lineage
<1>8. Out' => Barred'
  <2>1. Out' => ~Verifies(cookie, record)
    BY <1>1 DEF SInv, Out, Barred
  <2>2. ~Verifies(cookie, record) => ~Verifies(cookie, record)'
    BY <1>1, <1>3, Numbers DEF Verifies, Token
  <2>3. \A q \in Asking : ~Saves(q)'
    BY <1>1, <1>4 DEF Saves
  <2> QED BY <2>1, <2>2, <2>3 DEF Barred
<1>9. \E b \in Token : Lineage(b)'
  BY <1>1, <1>3, <1>7
<1> QED BY <1>1, <1>8, <1>9 DEF SInv, LogoutOK

LEMMA SStep ==
  ASSUME RInv, RInv', SInv, [Next]_vars PROVE SInv'
<1>1. CASE UNCHANGED vars
  <2>1. Still /\ UNCHANGED <<held, cookie, page, onWay>>
    BY <1>1 DEF vars, loginVars, accessVars, Still
  <2>2. Out' => Out
    BY <2>1 DEF Out
  <2> QED BY <2>1, <2>2, TameWay, SameLogout, TameStays DEF SInv
<1>2. CASE HashEnds /\ UNCHANGED accessVars
  BY <1>2, LoginsStay, AccessAssumption
<1>3. CASE Dials
  BY <1>3, LoginsStay, AccessAssumption
<1> QED BY <1>1, <1>2, <1>3, RecordChangesStays, LoginsStay, PageLoginStays, AskedStay, RequestsStay, RefusedStay,
     PageStays, ArriveStay, RestartsStay, PassesStays DEF Next

\* While the jar holds a cookie the server would accept, the login is up only
\* because the page signed out, or because what was refused was not that
\* session (socket.ts open, store.ts): whatever the order of the requests, the
\* restarts, the dropped lines and the changes of the password.
THEOREM LoginOnlyWhenOut == Spec => []StaysIn
<1>1. ASSUME RInv, SInv PROVE StaysIn
  <2>1. page \in Page
    BY <1>1 DEF RInv, PageOK
  <2>2. page.chose \in BOOLEAN /\ page.unlucky \in BOOLEAN
    BY <2>1 DEF Page
  <2>3. SUFFICES ASSUME page.authed = "no", Verifies(cookie, record), page.chose = FALSE, page.unlucky = FALSE
                 PROVE  FALSE
    BY <2>2 DEF StaysIn
  <2> QED BY <1>1, <2>3 DEF SInv, Out, Barred
<1>2. Init => RInv /\ SInv
  BY RInit, SInit
<1>3. RInv /\ SInv /\ [Next]_vars => RInv' /\ SInv'
  BY RStep, SStep
<1> QED BY <1>1, <1>2, <1>3, PTL DEF Spec


-----------------------------------------------------------------------------
(* Powers of two.                                                          *)

LEMMA LeastExists ==
  ASSUME NEW T, T \subseteq Nat, T # {}
  PROVE  \E x \in T : \A y \in T : x <= y
<1>1. \E x \in T : \A y \in T : ~(<<y, x>> \in OpToRel(<, Nat))
  BY NatLessThanWellFounded, WFMin
<1>2. \A x, y \in T : ~(<<y, x>> \in OpToRel(<, Nat)) => x <= y
  BY DEF OpToRel
<1> QED BY <1>1, <1>2

\* The first n + 1 powers.
Powers(n, g) == g \in [0 .. n -> Nat] /\ g[0] = 1 /\ \A i \in 1 .. n : g[i] = 2 * g[i - 1]

LEMMA PowersExist == \A n \in Nat : \E g : Powers(n, g)
<1> DEFINE T == {n \in Nat : ~\E g : Powers(n, g)}
<1> SUFFICES ASSUME T # {} PROVE FALSE
  OBVIOUS
<1>1. PICK n \in T : \A m \in T : n <= m
  BY LeastExists
<1>2. CASE n = 0
  <2>1. Powers(0, [i \in 0 .. 0 |-> 1])
    BY DEF Powers
  <2> QED BY <1>1, <1>2, <2>1
<1>3. CASE n # 0
  <2>1. n - 1 \in Nat /\ n - 1 \notin T
    BY <1>1, <1>3
  <2>2. PICK g : Powers(n - 1, g)
    BY <2>1
  <2> DEFINE h == [i \in 0 .. n |-> IF i = n THEN 2 * g[n - 1] ELSE g[i]]
  <2>3. g \in [0 .. n - 1 -> Nat] /\ g[0] = 1 /\ \A i \in 1 .. n - 1 : g[i] = 2 * g[i - 1]
    BY <2>2 DEF Powers
  <2>4. n \in Nat /\ n - 1 \in 0 .. n - 1 /\ \A i \in 0 .. n : i # n => i \in 0 .. n - 1
    BY <1>3, <2>1
  <2>5. h \in [0 .. n -> Nat] /\ h[0] = 1
    BY <1>3, <2>3, <2>4
  <2>6. ASSUME NEW i \in 1 .. n PROVE h[i] = 2 * h[i - 1]
    <3>1. CASE i = n
      BY <2>3, <2>4, <3>1
    <3>2. CASE i # n
      <4>1. i \in 1 .. n - 1 /\ i - 1 \in 0 .. n /\ i - 1 # n
        BY <3>2, <2>4
      <4>2. h[i] = g[i] /\ h[i - 1] = g[i - 1]
        BY <3>2, <4>1, <2>4
      <4> QED BY <2>3, <4>1, <4>2
    <3> QED BY <3>1, <3>2
  <2>7. Powers(n, h)
    BY <2>5, <2>6 DEF Powers
  <2> QED BY <1>1, <2>7
<1> QED BY <1>2, <1>3

LEMMA PowersAgree ==
  ASSUME NEW m \in Nat, NEW n \in Nat, NEW g, NEW h, Powers(m, g), Powers(n, h),
         NEW k \in Nat, k <= m, k <= n
  PROVE  g[k] = h[k]
<1> DEFINE T == {i \in 0 .. k : g[i] # h[i]}
<1> SUFFICES ASSUME T # {} PROVE FALSE
  OBVIOUS
<1> T \subseteq Nat
  OBVIOUS
<1>1. PICK i \in T : \A j \in T : i <= j
  <2> HIDE DEF T
  <2> QED BY LeastExists
<1>2. i # 0
  BY <1>1 DEF Powers
<1>3. i - 1 \in 0 .. k /\ i - 1 \notin T
  BY <1>1, <1>2
<1>4. g[i] = 2 * g[i - 1] /\ h[i] = 2 * h[i - 1]
  BY <1>1, <1>2 DEF Powers
<1> QED BY <1>1, <1>3, <1>4

LEMMA DoubledIs == Doubled = [n \in Nat |-> IF n = 0 THEN 1 ELSE 2 * Doubled[n - 1]]
<1> DEFINE G(n) == CHOOSE g : Powers(n, g)
           F == [n \in Nat |-> G(n)[n]]
<1>1. \A n \in Nat : Powers(n, G(n))
  BY PowersExist
<1>2. F[0] = 1
  BY <1>1 DEF Powers
<1>3. ASSUME NEW n \in Nat, n # 0 PROVE F[n] = 2 * F[n - 1]
  <2>1. n - 1 \in Nat /\ n \in 1 .. n /\ n - 1 <= n
    BY <1>3
  <2>2. Powers(n, G(n)) /\ Powers(n - 1, G(n - 1))
    BY <1>1, <2>1
  <2> HIDE DEF G
  <2>3. G(n)[n] = 2 * G(n)[n - 1]
    BY <2>1, <2>2 DEF Powers
  <2>4. G(n)[n - 1] = G(n - 1)[n - 1]
    BY <2>1, <2>2, PowersAgree
  <2> QED BY <2>1, <2>3, <2>4
<1>4. F = [n \in Nat |-> IF n = 0 THEN 1 ELSE 2 * F[n - 1]]
  <2> HIDE DEF G
  <2> DEFINE H == [n \in Nat |-> IF n = 0 THEN 1 ELSE 2 * F[n - 1]]
  <2>1. \A n \in Nat : F[n] = H[n]
    BY <1>2, <1>3
  <2> QED BY <2>1
<1> HIDE DEF F
<1> QED BY <1>4 DEF Doubled

LEMMA DoubledFacts ==
  /\ Doubled[0] = 1
  /\ \A n \in Nat : Doubled[n] \in Nat \ {0} /\ Doubled[n + 1] = 2 * Doubled[n]
<1>1. Doubled[0] = 1
  BY DoubledIs
<1>2. \A n \in Nat : Doubled[n + 1] = 2 * Doubled[n]
  <2> SUFFICES ASSUME NEW n \in Nat PROVE Doubled[n + 1] = 2 * Doubled[n]
    OBVIOUS
  <2>1. n + 1 \in Nat /\ n + 1 # 0 /\ (n + 1) - 1 = n
    OBVIOUS
  <2>2. Doubled[n + 1] = IF n + 1 = 0 THEN 1 ELSE 2 * Doubled[(n + 1) - 1]
    BY <2>1, DoubledIs
  <2> QED BY <2>1, <2>2
<1>3. \A n \in Nat : Doubled[n] \in Nat \ {0}
  <2> DEFINE T == {n \in Nat : Doubled[n] \notin Nat \ {0}}
  <2> SUFFICES ASSUME T # {} PROVE FALSE
    OBVIOUS
  <2>1. PICK n \in T : \A m \in T : n <= m
    BY LeastExists
  <2>2. n - 1 \in Nat /\ n - 1 \notin T
    BY <1>1, <2>1
  <2>3. Doubled[n] = 2 * Doubled[n - 1]
    <3>1. Doubled[(n - 1) + 1] = 2 * Doubled[n - 1] /\ (n - 1) + 1 = n
      BY <1>2, <2>2, <2>1
    <3> QED BY <3>1
  <2> QED BY <2>1, <2>2, <2>3
<1> QED BY <1>1, <1>2, <1>3

\* A delay doubled more often is no shorter.
LEMMA DoubledGrows ==
  ASSUME NEW m \in Nat, NEW n \in Nat, m <= n
  PROVE  Doubled[m] <= Doubled[n]
<1> DEFINE T == {k \in Nat : m <= k /\ ~(Doubled[m] <= Doubled[k])}
<1> SUFFICES ASSUME T # {} PROVE FALSE
  BY DoubledFacts
<1>1. PICK k \in T : \A j \in T : k <= j
  BY LeastExists
<1>2. k # m
  BY <1>1, DoubledFacts
<1>3. k - 1 \in Nat /\ m <= k - 1 /\ k - 1 \notin T /\ (k - 1) + 1 = k
  BY <1>1, <1>2
<1>4. Doubled[k] = 2 * Doubled[k - 1] /\ Doubled[k - 1] \in Nat /\ Doubled[m] \in Nat
  BY <1>3, DoubledFacts
<1> QED BY <1>1, <1>3, <1>4
-----------------------------------------------------------------------------
(* The throttle: what has been claimed, and what was forgiven since.       *)

Claim == [at : Nat, slot : Nat]

ClaimsOK ==
  /\ {now, attempts, decayedAt, nextSlot} \subseteq Nat /\ decayedAt <= now
  /\ claims \in Seq(Claim)
  /\ \A i \in 1 .. Len(claims) : claims[i].at <= now
  /\ claims # <<>> => nextSlot = claims[Len(claims)].slot

\* A claim of this decay period counts with those after it, of which one may
\* have been forgiven since, and no more until the period is over.
Counted(i) ==
  now - claims[i].at < Decay =>
    \/ /\ decayedAt <= claims[i].at /\ claims[i].at - decayedAt < Decay
       /\ attempts >= Len(claims) - i + 1
    \/ decayedAt > claims[i].at /\ attempts >= Len(claims) - i

QInv == ClaimsOK /\ (\A i \in 1 .. Len(claims) : Counted(i)) /\ RampKept

LEMMA ClaimTyped ==
  ASSUME QInv
  PROVE  \A i \in 1 .. Len(claims) :
           claims[i] \in Claim /\ claims[i].at \in Nat /\ claims[i].slot \in Nat /\ claims[i].at <= now
<1>1. \A i \in 1 .. Len(claims) : claims[i] \in Claim
  BY DEF QInv, ClaimsOK
<1>2. \A c \in Claim : c.at \in Nat /\ c.slot \in Nat
  BY DEF Claim
<1> QED BY <1>1, <1>2 DEF QInv, ClaimsOK

LEMMA Quotient ==
  ASSUME NEW x \in Nat, NEW d \in Nat \ {0}
  PROVE  x \div d \in Nat /\ (x < d => x \div d = 0) /\ (x < d + d => x \div d <= 1)
<1> DEFINE q == x \div d
<1>1. q \in Int /\ d * q <= x /\ x < d * (q + 1)
  OBVIOUS
<1>2. q >= 0
  <2>1. q + 1 <= 0 => d * (q + 1) <= 0
    BY <1>1
  <2> QED BY <1>1, <2>1
<1>3. q >= 1 => d * q >= d
  BY <1>1
<1>4. q >= 2 => d * q >= d + d
  BY <1>1
<1> QED BY <1>1, <1>2, <1>3, <1>4

\* Of the claims of this period at most one has been forgiven now.
LEMMA ForgivenFacts ==
  ASSUME QInv
  PROVE  /\ Forgiven \in Nat /\ Attempts \in Nat
         /\ Forgiven = 0 => Attempts = attempts
         /\ \A i \in 1 .. Len(claims) : now - claims[i].at < Decay =>
              /\ decayedAt <= claims[i].at => Forgiven <= 1
              /\ decayedAt > claims[i].at => Forgiven = 0
              /\ Attempts >= Len(claims) - i
              /\ Forgiven = 0 /\ decayedAt <= claims[i].at => Attempts >= Len(claims) - i + 1
<1>1. now - decayedAt \in Nat /\ Decay \in Nat \ {0} /\ attempts \in Nat
  BY Numbers DEF QInv, ClaimsOK
<1>2. Forgiven \in Nat /\ (now - decayedAt < Decay => Forgiven = 0) /\ (now - decayedAt < Decay + Decay => Forgiven <= 1)
  BY <1>1, Quotient DEF Forgiven
<1>3. Attempts \in Nat /\ (Forgiven = 0 => Attempts = attempts) /\ (Forgiven <= 1 => Attempts >= attempts - 1)
  BY <1>1, <1>2 DEF Attempts, Greatest
<1>4. ASSUME NEW i \in 1 .. Len(claims), now - claims[i].at < Decay
      PROVE  /\ decayedAt <= claims[i].at => Forgiven <= 1
             /\ decayedAt > claims[i].at => Forgiven = 0
             /\ Attempts >= Len(claims) - i
             /\ Forgiven = 0 /\ decayedAt <= claims[i].at => Attempts >= Len(claims) - i + 1
  <2>1. /\ claims[i].at \in Nat /\ claims[i].at <= now /\ now \in Nat /\ decayedAt \in Nat
        /\ Len(claims) \in Nat /\ i \in Nat
    BY ClaimTyped DEF QInv, ClaimsOK
  <2>2. Counted(i)
    BY DEF QInv
  <2> QED BY <1>1, <1>2, <1>3, <1>4, <2>1, <2>2 DEF Counted
<1> QED BY <1>2, <1>3, <1>4

\* Each claim is put off by a delay that doubles, up to the longest.
LEMMA StepFacts ==
  ASSUME QInv
  PROVE  /\ StepNow \in Nat
         /\ \A m \in Nat : m <= Attempts => StepNow >= Least(MaxStep, Step * Doubled[m])
<1>1. Attempts \in Nat /\ Step \in Nat /\ MaxStep \in Nat /\ MaxStep <= Step * Doubled[16]
  BY ForgivenFacts, LoginAssumption, Numbers
<1> DEFINE e == Least(Attempts, 16)
<1>2. e \in Nat /\ Doubled[e] \in Nat /\ Doubled[16] \in Nat
  BY <1>1, DoubledFacts DEF Least
<1>3. Step * Doubled[e] \in Nat
  BY <1>1, <1>2
<1>4. StepNow \in Nat
  BY <1>1, <1>3 DEF StepNow, Least
<1>5. ASSUME NEW m \in Nat, m <= Attempts
      PROVE  StepNow >= Least(MaxStep, Step * Doubled[m])
  <2>1. Doubled[m] \in Nat /\ Step * Doubled[m] \in Nat
    BY <1>1, DoubledFacts
  <2>2. CASE Attempts <= 16
    <3>1. Doubled[m] <= Doubled[e]
      BY <1>1, <1>2, <1>5, <2>2, DoubledGrows DEF Least
    <3>2. Step * Doubled[m] <= Step * Doubled[e]
      BY <1>1, <1>2, <2>1, <3>1
    <3> QED BY <1>1, <1>3, <2>1, <3>2 DEF StepNow, Least
  <2>3. CASE ~(Attempts <= 16)
    <3>1. StepNow = MaxStep
      BY <1>1, <2>3 DEF StepNow, Least
    <3> QED BY <1>1, <2>1, <3>1 DEF Least
  <2> QED BY <2>2, <2>3
<1> QED BY <1>4, <1>5

\* A login arrives and the throttle counts it, or is past the ceiling.
LEMMA ClaimsCounted ==
  ASSUME QInv, Claims, Noted, UNCHANGED now
  PROVE  QInv'
<1> DEFINE n == Len(claims)
<1>1. /\ now \in Nat /\ attempts \in Nat /\ decayedAt \in Nat /\ nextSlot \in Nat /\ decayedAt <= now
      /\ claims \in Seq(Claim) /\ n \in Nat /\ Decay \in Nat \ {0}
  BY Numbers DEF QInv, ClaimsOK
<1>2. \A i \in 1 .. n : claims[i] \in Claim /\ claims[i].at \in Nat /\ claims[i].slot \in Nat /\ claims[i].at <= now
  BY ClaimTyped
<1>3. Slot \in Nat /\ Slot >= nextSlot + StepNow
  BY <1>1, StepFacts DEF Slot, Greatest
<1>4. decayedAt' \in Nat /\ decayedAt' <= now /\ (decayedAt' = now \/ (Forgiven = 0 /\ decayedAt' = decayedAt))
  BY <1>1, ForgivenFacts DEF Claims
<1>5. CASE ~MayClaim
  <2>1. attempts' = Attempts /\ UNCHANGED <<nextSlot, claims>>
    BY <1>5 DEF Claims, Noted
  <2>2. ClaimsOK'
    BY <1>1, <1>2, <1>4, <2>1, ForgivenFacts DEF ClaimsOK, QInv
  <2>3. ASSUME NEW i \in 1 .. n PROVE Counted(i)'
    <3> SUFFICES ASSUME now - claims[i].at < Decay
                 PROVE  \/ /\ decayedAt' <= claims[i].at /\ claims[i].at - decayedAt' < Decay
                           /\ Attempts >= n - i + 1
                        \/ decayedAt' > claims[i].at /\ Attempts >= n - i
      BY <2>1 DEF Counted
    <3>1. Counted(i)
      BY DEF QInv
    <3>2. /\ decayedAt > claims[i].at => Forgiven = 0
          /\ Attempts >= n - i
          /\ Forgiven = 0 /\ decayedAt <= claims[i].at => Attempts >= n - i + 1
      BY ForgivenFacts
    <3>3. decayedAt' = now => Forgiven > 0 \/ decayedAt = now
      BY ForgivenFacts DEF Claims
    <3>4. Forgiven > 0 => now - claims[i].at > 0
      <4>1. Forgiven > 0 => decayedAt <= claims[i].at /\ decayedAt < now
        <5>1. decayedAt = now => Forgiven = 0
          BY <1>1, Quotient DEF Forgiven
        <5> QED BY <1>1, <1>2, <3>2, <5>1, ForgivenFacts
      <4>2. now - decayedAt < Decay => Forgiven = 0
        BY <1>1, Quotient DEF Forgiven
      <4> QED BY <1>1, <1>2, <3>1, <4>1, <4>2, ForgivenFacts DEF Counted
    <3> QED BY <1>1, <1>2, <1>4, <3>1, <3>2, <3>3, <3>4, ForgivenFacts DEF Counted
  <2>4. RampKept'
    BY <2>1 DEF QInv, RampKept
  <2> QED BY <2>1, <2>2, <2>3, <2>4 DEF QInv
<1>6. CASE MayClaim
  <2> DEFINE c == [at |-> now, slot |-> Slot]
  <2>1. attempts' = Attempts + 1 /\ nextSlot' = Slot /\ claims' = Append(claims, c)
    BY <1>6 DEF Claims, Noted
  <2>2. c \in Claim
    BY <1>1, <1>3 DEF Claim
  <2>3. /\ claims' \in Seq(Claim) /\ Len(claims') = n + 1 /\ claims'[n + 1] = c
        /\ \A i \in 1 .. n : claims'[i] = claims[i]
    BY <1>1, <2>1, <2>2
  <2>4. ClaimsOK'
    BY <1>1, <1>2, <1>3, <1>4, <2>1, <2>3, ForgivenFacts DEF ClaimsOK
  <2>5. ASSUME NEW i \in 1 .. n + 1 PROVE Counted(i)'
    <3> SUFFICES ASSUME now - claims'[i].at < Decay
                 PROVE  \/ /\ decayedAt' <= claims'[i].at /\ claims'[i].at - decayedAt' < Decay
                           /\ Attempts + 1 >= n + 1 - i + 1
                        \/ decayedAt' > claims'[i].at /\ Attempts + 1 >= n + 1 - i
      BY <2>1, <2>3 DEF Counted
    <3>1. CASE i = n + 1
      <4>1. Attempts \in Nat /\ claims'[i].at = now /\ Attempts + 1 >= n + 1 - i + 1
        BY <1>1, <2>3, <3>1, ForgivenFacts
      <4>2. now - decayedAt' < Decay
        <5>1. Forgiven = 0 => now - decayedAt < Decay
          <6>1. now - decayedAt \in Nat
            BY <1>1
          <6>2. (now - decayedAt) < Decay * (Forgiven + 1)
            BY <1>1, <6>1 DEF Forgiven
          <6> QED BY <1>1, <6>2
        <5>2. CASE decayedAt' = now
          BY <1>1, <5>2
        <5>3. CASE Forgiven = 0 /\ decayedAt' = decayedAt
          BY <5>1, <5>3
        <5> QED BY <1>4, <5>2, <5>3
      <4> QED BY <1>1, <1>4, <4>1, <4>2
    <3>2. CASE i \in 1 .. n
      <4>1. claims'[i] = claims[i] /\ Counted(i)
        BY <2>3, <3>2 DEF QInv
      <4>2. /\ decayedAt > claims[i].at => Forgiven = 0
            /\ Attempts >= n - i
            /\ Forgiven = 0 /\ decayedAt <= claims[i].at => Attempts >= n - i + 1
        BY <3>2, <4>1, ForgivenFacts
      <4>3. Forgiven > 0 => now - claims[i].at > 0
        <5>1. Forgiven > 0 => decayedAt <= claims[i].at
          BY <1>1, <1>2, <3>2, <4>2, ForgivenFacts
        <5>2. now - decayedAt < Decay => Forgiven = 0
          BY <1>1, Quotient DEF Forgiven
        <5> QED BY <1>1, <1>2, <3>2, <4>1, <5>1, <5>2, ForgivenFacts DEF Counted
      <4>5. CASE Forgiven = 0
        <5>1. decayedAt' = decayedAt
          BY <4>5 DEF Claims
        <5> QED BY <1>1, <1>2, <3>2, <4>1, <4>2, <4>5, <5>1, ForgivenFacts DEF Counted
      <4>6. CASE Forgiven > 0
        <5>1. decayedAt' = now /\ decayedAt' > claims[i].at
          BY <1>1, <1>2, <3>2, <4>3, <4>6 DEF Claims
        <5>2. Attempts + 1 >= n + 1 - i
          BY <1>1, <4>2, <3>2, ForgivenFacts
        <5> QED BY <4>1, <5>1, <5>2
      <4> QED BY <4>5, <4>6, ForgivenFacts
    <3> QED BY <3>1, <3>2, <1>1
  <2>6. RampKept'
    <3> SUFFICES ASSUME NEW j \in 2 .. n + 1, NEW i \in 1 .. n + 1, i < j,
                        claims'[j].at - claims'[i].at < Decay
                 PROVE  claims'[j].slot - claims'[j - 1].slot >= Least(MaxStep, Step * Doubled[j - i - 1])
      BY <2>3 DEF RampKept
    <3>1. CASE j \in 2 .. n
      <4>1. i \in 1 .. n /\ j - 1 \in 1 .. n /\ j \in 1 .. n
        BY <1>1, <3>1
      <4>2. claims'[j] = claims[j] /\ claims'[i] = claims[i] /\ claims'[j - 1] = claims[j - 1]
        BY <2>3, <4>1
      <4> QED BY <3>1, <4>1, <4>2 DEF QInv, RampKept
    <3>2. CASE j = n + 1
      <4>1. i \in 1 .. n /\ n \in 1 .. n /\ j - 1 = n /\ j - i - 1 = n - i /\ n - i \in Nat
        BY <1>1, <3>2
      <4>2. claims'[j] = c /\ claims'[j - 1] = claims[n] /\ claims'[i] = claims[i]
        BY <2>3, <3>2, <4>1
      <4>3. claims[n].slot = nextSlot
        BY <1>1, <4>1 DEF QInv, ClaimsOK
      <4>4. now - claims[i].at < Decay
        BY <4>2
      <4>5. n - i <= Attempts
        BY <1>1, <4>1, <4>4, ForgivenFacts
      <4>6. StepNow \in Nat /\ StepNow >= Least(MaxStep, Step * Doubled[n - i])
        BY <4>1, <4>5, StepFacts
      <4>7. Least(MaxStep, Step * Doubled[n - i]) \in Nat
        <5>1. Doubled[n - i] \in Nat /\ Step \in Nat /\ MaxStep \in Nat
          BY <4>1, DoubledFacts, Numbers
        <5>2. Step * Doubled[n - i] \in Nat
          BY <5>1
        <5> QED BY <5>1, <5>2 DEF Least
      <4>8. Slot - nextSlot >= Least(MaxStep, Step * Doubled[n - i])
        BY <1>1, <1>3, <4>6, <4>7
      <4> QED BY <4>1, <4>2, <4>3, <4>8
    <3> QED BY <3>1, <3>2, <1>1
  <2> QED BY <2>3, <2>4, <2>5, <2>6 DEF QInv
<1> QED BY <1>5, <1>6

\* A step that claims nothing, though time may pass.
LEMMA ClaimsKept ==
  ASSUME QInv, UNCHANGED throttleVars, now' \in Nat, now' >= now
  PROVE  QInv'
<1>1. UNCHANGED <<attempts, decayedAt, nextSlot, claims>>
  BY DEF throttleVars
<1>2. ClaimsOK'
  <2>1. now \in Nat /\ decayedAt \in Nat /\ decayedAt' <= now'
    BY <1>1 DEF QInv, ClaimsOK
  <2>2. \A i \in 1 .. Len(claims) : claims[i].at \in Nat
    BY ClaimTyped
  <2>3. \A i \in 1 .. Len(claims) : claims[i].at <= now'
    BY <2>1, <2>2 DEF QInv, ClaimsOK
  <2> QED BY <1>1, <2>1, <2>3 DEF QInv, ClaimsOK
<1>3. ASSUME NEW i \in 1 .. Len(claims) PROVE Counted(i)'
  <2>1. now \in Nat /\ claims[i].at \in Nat
    BY ClaimTyped DEF QInv, ClaimsOK
  <2>2. now' - claims[i].at < Decay => now - claims[i].at < Decay
    BY <2>1, Numbers
  <2>3. Counted(i)
    BY DEF QInv
  <2> QED BY <1>1, <2>2, <2>3 DEF Counted
<1>4. RampKept'
  BY <1>1 DEF QInv, RampKept
<1> QED BY <1>1, <1>2, <1>3, <1>4 DEF QInv

LEMMA NothingClaimed ==
  ASSUME now' \in Nat, attempts' = 0, decayedAt' = now', nextSlot' = 0, claims' = <<>>
  PROVE  QInv'
<1>1. Len(claims') = 0 /\ claims' \in Seq(Claim)
  OBVIOUS
<1>2. ClaimsOK'
  BY <1>1 DEF ClaimsOK
<1> QED BY <1>1, <1>2 DEF QInv, RampKept

LEMMA QInit == Init => QInv
<1> SUFFICES ASSUME Init PROVE QInv
  OBVIOUS
<1>1. now = 1 /\ attempts = 0 /\ decayedAt = 1 /\ nextSlot = 0 /\ claims = <<>>
  BY DEF Init, LoginInit
<1>2. Len(claims) = 0 /\ claims \in Seq(Claim)
  BY <1>1
<1> QED BY <1>1, <1>2 DEF QInv, ClaimsOK, RampKept

LEMMA QStep == QInv /\ [Next]_vars => QInv'
<1> SUFFICES ASSUME QInv, [Next]_vars PROVE QInv'
  OBVIOUS
<1>1. now \in Nat
  BY DEF QInv, ClaimsOK
<1>2. ASSUME UNCHANGED <<throttleVars, now>> PROVE QInv'
  BY <1>1, <1>2, ClaimsKept
<1>3. CASE UNCHANGED vars
  BY <1>2, <1>3 DEF vars, loginVars
<1>4. CASE (RecordChanges \/ HashEnds) /\ UNCHANGED accessVars
  BY <1>2, <1>4 DEF RecordChanges, HashEnds
<1>5. ASSUME NEW c \in Caller, PasswordTyped(c) PROVE QInv'
  <2>1. UNCHANGED now /\ (UNCHANGED throttleVars \/ (Claims /\ Noted))
    BY <1>5 DEF PasswordTyped, LoginArrives
  <2> QED BY <1>2, <2>1, ClaimsCounted
<1>6. ASSUME NEW c \in Caller, OtherLoginAnswered(c) PROVE QInv'
  BY <1>2, <1>6 DEF OtherLoginAnswered, LoginAnswered
<1>7. CASE PageLoginAnswered
  BY <1>2, <1>7 DEF PageLoginAnswered, LoginAnswered
<1>8. CASE TicketAsked \/ SnapshotAsked \/ LogoutAsked \/ \E q \in Request : Fails(q)
  BY <1>2, <1>8 DEF TicketAsked, SnapshotAsked, LogoutAsked, Fails, loginVars
<1>9. CASE Upgraded \/ Dials \/ Rechecks
  BY <1>2, <1>9 DEF Upgraded, Dials, Rechecks
<1>10. CASE Mounts \/ TimerFires \/ TicketArrives \/ SnapshotArrives \/ Refreshes
  BY <1>2, <1>10 DEF Mounts, TimerFires, TicketArrives, SnapshotArrives, Refreshes, loginVars
<1>11. CASE Closes \/ LineDrops \/ SignsOut \/ SignOutEnds
  BY <1>2, <1>11 DEF Closes, LineDrops, SignsOut, SignOutEnds, loginVars
<1>12. CASE Restarts
  BY <1>1, <1>12, NothingClaimed DEF Restarts, LoginRestarts
<1>13. CASE Passes
  BY <1>1, <1>13, ClaimsKept DEF Passes, Ticks
<1> QED
  BY <1>3, <1>4, <1>5, <1>6, <1>7, <1>8, <1>9, <1>10, <1>11, <1>12, <1>13 DEF Next

\* However many guesses come at once, and whenever one of them is forgiven, the
\* n-th of one decay period is answered after the one before it and a delay that
\* doubles, up to the longest (auth.ts, claimSlot).
THEOREM RampIsKept == Spec => []RampKept
<1>1. QInv => RampKept
  BY DEF QInv
<1> QED
  BY QInit, QStep, <1>1, PTL DEF Spec
=============================================================================
