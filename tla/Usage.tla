------------------------------- MODULE Usage -------------------------------
(***************************************************************************)
(* Claude's usage limits: each machine's reading, kept for five minutes    *)
(* and taken by a process of Claude's (server/src/usage.ts), what the      *)
(* gateway gathers from every machine (server/src/routes/api.ts), and the  *)
(* page that asks for it on a timer of its own                             *)
(* (web/src/components/UsageRings.tsx, useUsage).                          *)
(*                                                                         *)
(* Time goes by in ticks, one of them longer than a reading takes and      *)
(* longer than a machine is waited for.                                    *)
(***************************************************************************)
EXTENDS Chances, Sequences, FiniteSets

CONSTANTS
  Line,        \* the machines in their order, this one first
  Account,     \* the account each is signed in to
  Readable,    \* the machines whose Claude says which
  Unknown,     \* no account, or no numbers
  Ttl,         \* TTL_MS, and USAGE_POLL_MS
  SamePercent, \* SAME_PERCENT
  MaxClock     \* bound on the ticks

Boxes == {Line[i] : i \in DOMAIN Line}
Accounts == {Account[m] : m \in Boxes}

\* What a machine says: stamped when it was asked for, of when it was Claude's.
MachineUsage == [percent : Nat \cup {Unknown}, account : Accounts \cup {Unknown}, at : Nat, of : Nat, error : BOOLEAN]

ASSUME UsageAssumption ==
  /\ Ttl \in Nat \ {0} /\ {SamePercent, MaxClock} \subseteq Nat
  /\ \A i \in DOMAIN Line : Line[i] \in DOMAIN Account
  /\ Unknown \notin Nat \cup MachineUsage

VARIABLES
  clock,   \* the ticks
  spent,   \* what each account has used, in percent
  cached,  \* each machine's reading
  reading, \* when the process a machine waits for was started, or Unknown
  started, \* when each machine last started one, or Unknown
  hasty,   \* one was started within Ttl of the one before
  asked,   \* the page's requests under way: `got` is what each machine answered
  rings,   \* what the page shows
  tab      \* in front; when its timer is due; its last request was lost

usageVars == <<clock, spent, cached, reading, started, hasty, asked, rings, tab>>
readings == <<cached, reading, started, hasty>>

NotRead == [percent |-> Unknown, account |-> Unknown, at |-> 0, of |-> 0, error |-> FALSE]

(***************************************************************************)
(* A machine's reading.                                                    *)
(***************************************************************************)
Cached(m) == cached[m] # Unknown /\ clock - cached[m].at < Ttl

\* reading ??= read(): two clients asking at once start one process.
Starting == {m \in Boxes : ~Cached(m) /\ reading[m] = Unknown}
Starts(who) ==
  /\ reading' = [m \in Boxes |-> IF m \in who THEN clock ELSE reading[m]]
  /\ started' = [m \in Boxes |-> IF m \in who THEN clock ELSE started[m]]
  /\ hasty' = (hasty \/ \E m \in who : started[m] # Unknown /\ clock - started[m] < Ttl)

Answer(m, r) ==
  /\ cached' = [cached EXCEPT ![m] = r]
  /\ reading' = [reading EXCEPT ![m] = Unknown]
  /\ asked' = {[a EXCEPT !.got[m] = IF @ = Unknown THEN r ELSE @] : a \in asked}

ReadsUsage(m) ==
  /\ reading[m] # Unknown
  /\ Answer(m, [percent |-> spent[Account[m]], account |-> IF m \in Readable THEN Account[m] ELSE Unknown,
                at |-> clock, of |-> clock, error |-> FALSE])
  /\ UNCHANGED <<clock, spent, started, hasty, rings, tab, left>>

\* As if the error kept the time of the numbers.
FailedThen(r) == [r EXCEPT !.error = TRUE]

\* An error is a reading too: the last good numbers, stamped now.
Failed(r) == [r EXCEPT !.at = clock, !.error = TRUE]
UsageFails(m) ==
  /\ Spends("unread")
  /\ reading[m] # Unknown
  /\ Answer(m, Failed(IF cached[m] = Unknown THEN NotRead ELSE cached[m]))
  /\ UNCHANGED <<clock, spent, started, hasty, rings, tab>>

\* A client of that machine's own, or another gateway.
AsksElsewhere(m) ==
  /\ Spends("client")
  /\ m \in Starting /\ Starts({m})
  /\ UNCHANGED <<clock, spent, cached, asked, rings, tab>>

Uses(a) ==
  /\ Spends("use")
  /\ spent' = [spent EXCEPT ![a] = @ + 1]
  /\ UNCHANGED <<clock, readings, asked, rings, tab>>

(***************************************************************************)
(* Every machine's, less the ones that would repeat another's.             *)
(***************************************************************************)
SameReading(a, b) == a.percent <= b.percent + SamePercent /\ b.percent <= a.percent + SamePercent
Repeats(a, b) == IF a.account # Unknown /\ b.account # Unknown THEN a.account = b.account ELSE SameReading(a, b)

Says(got, m) == got[m] # Unknown /\ got[m].percent # Unknown
DistinctUsages(got) ==
  LET Repeated[i \in DOMAIN Line] == \E j \in 1..i - 1 :
        Says(got, Line[j]) /\ ~Repeated[j] /\ Repeats(got[Line[j]], got[Line[i]])
  IN [m \in {Line[i] : i \in {i \in DOMAIN Line : Says(got, Line[i]) /\ ~Repeated[i]}} |-> got[m]]

\* A machine that does not answer in time is left out; this one is waited for.
GivenUp(a) == \A m \in Boxes : a.got[m] # Unknown \/ (m # Line[1] /\ m \in a.lost)

(***************************************************************************)
(* The page.                                                               *)
(***************************************************************************)
Sent(t) ==
  /\ tab' = t
  /\ asked' = asked \cup {[since |-> clock, lost |-> {}, got |-> [m \in Boxes |-> IF Cached(m) THEN cached[m] ELSE Unknown]]}
  /\ Starts(Starting)
  /\ UNCHANGED <<clock, spent, cached, rings>>

\* The interval goes on in the background, and asks nothing there.
PollsUsage ==
  /\ clock = tab.due
  /\ LET t == [tab EXCEPT !.due = clock + Ttl]
     IN IF tab.front THEN Sent(t)
        ELSE tab' = t /\ UNCHANGED <<clock, spent, readings, asked, rings>>
  /\ UNCHANGED left

ChangesTab ==
  /\ Spends("tab")
  /\ LET t == [tab EXCEPT !.front = ~@]
     IN IF t.front THEN Sent(t)
        ELSE tab' = t /\ UNCHANGED <<clock, spent, readings, asked, rings>>

PeerSilent(a, m) ==
  /\ Spends("silent")
  /\ a \in asked /\ m # Line[1] /\ a.got[m] = Unknown
  /\ asked' = (asked \ {a}) \cup {[a EXCEPT !.lost = @ \cup {m}]}
  /\ UNCHANGED <<clock, spent, readings, rings, tab>>

UsageArrives(a) ==
  /\ a \in asked /\ GivenUp(a)
  /\ asked' = asked \ {a}
  /\ rings' = DistinctUsages([m \in Boxes |-> IF m \in a.lost THEN Unknown ELSE a.got[m]])
  /\ tab' = [tab EXCEPT !.missed = FALSE]
  /\ UNCHANGED <<clock, spent, readings, left>>

\* A failed read leaves the last numbers on screen.
UsageLost(a) ==
  /\ Spends("lost")
  /\ a \in asked /\ asked' = asked \ {a}
  /\ tab' = [tab EXCEPT !.missed = TRUE]
  /\ UNCHANGED <<clock, spent, readings, rings>>

\* Nothing that is due, and nothing asked for a tick ago, is still to come.
Ticks ==
  /\ clock < MaxClock /\ clock < tab.due
  /\ \A m \in Boxes : reading[m] \in {Unknown, clock}
  /\ \A a \in asked : a.since = clock
  /\ clock' = clock + 1
  /\ UNCHANGED <<spent, readings, asked, rings, tab, left>>

-----------------------------------------------------------------------------
UsageInit ==
  /\ clock = 0 /\ spent = [a \in Accounts |-> 0]
  /\ cached = [m \in Boxes |-> Unknown] /\ reading = cached /\ started = cached /\ hasty = FALSE
  /\ asked = {} /\ rings = <<>>
  /\ tab = [front |-> TRUE, due |-> 0, missed |-> FALSE]

UsageNext ==
  \/ \E m \in Boxes : ReadsUsage(m) \/ UsageFails(m) \/ AsksElsewhere(m) \/ Uses(Account[m])
  \/ PollsUsage \/ ChangesTab \/ Ticks
  \/ \E a \in asked : UsageArrives(a) \/ UsageLost(a) \/ \E m \in Boxes : PeerSilent(a, m)

-----------------------------------------------------------------------------
(* What is checked.                                                        *)

\* "Asking costs a claude process" and "an error is a reading too": however
\* many pages and gateways ask, no machine starts two within five minutes; and
\* the numbers a page in front shows, with no word of an error, are at most two
\* of its polls old.
Paced ==
  /\ ~hasty
  /\ tab.front /\ asked = {} /\ ~tab.missed =>
       \A m \in DOMAIN rings : ~rings[m].error => clock - rings[m].of <= 2 * Ttl

UsageTypeOK ==
  /\ clock \in 0..MaxClock /\ {hasty, tab.front, tab.missed} \subseteq BOOLEAN
  /\ spent \in [Accounts -> Nat] /\ cached \in [Boxes -> MachineUsage \cup {Unknown}]
  /\ DOMAIN rings \subseteq Boxes /\ \A m \in DOMAIN rings : rings[m] \in MachineUsage /\ rings[m].percent # Unknown
=============================================================================
