-------------------------------- MODULE Login --------------------------------
(***************************************************************************)
(* The password record and what a guess costs (server/src/auth.ts and      *)
(* POST /api/login in routes/auth.ts): the record, re-read at most once per*)
(* RECHECK_MS, the slots a login is answered at, and the queue of one      *)
(* scrypt at a time.  A handler's turn takes no time: it reads the clock   *)
(* and the record once.                                                    *)
(***************************************************************************)
EXTENDS Naturals, Sequences

CONSTANTS
  Caller,     \* logins that may be in flight at once
  MaxKey,     \* bound on changes of the password or the generation
  Step,       \* STEP_MS, in ticks, as are the rest
  MaxStep,    \* MAX_STEP_MS
  Decay,      \* DECAY_MS
  MaxWait,    \* MAX_WAIT_MS
  Recheck,    \* RECHECK_MS
  MaxQueued,  \* MAX_QUEUED
  Limits      \* bounds: how many of each may happen, one function per scenario

(* What happens from outside: a caller logs in, the clock ticks, the       *)
(* record is written, a scrypt fails, the server restarts; a terminal      *)
(* mounts, the page refreshes and signs out, the line drops, a gateway     *)
(* dials.                                                                  *)
Outside == Caller \cup {"tick", "change", "fault", "restart", "mount", "refresh", "out",
                        "drop", "dial"}

(* No record, no session, no ticket. *)
None == 0
Key == 1 .. MaxKey

(* 2 to the n. *)
Doubled[n \in Nat] == IF n = 0 THEN 1 ELSE 2 * Doubled[n - 1]

(* The delay is at its longest before the exponent is: 5 s of 250 ms.      *)
ASSUME LoginAssumption ==
  /\ {MaxKey, Step, MaxStep, Decay, MaxWait, Recheck, MaxQueued} \subseteq Nat \ {0}
  /\ Step <= MaxStep /\ MaxStep <= MaxWait /\ MaxStep <= Step * Doubled[16]
  /\ Limits \subseteq [Outside -> Nat]

VARIABLES
  now,       \* Date.now()
  record,    \* auth.json: each write has a signing key of its own
  held,      \* the record as last read: cached and checkedAt
  attempts,  \* the throttle
  decayedAt,
  nextSlot,
  calls,     \* the logins in flight
  chain,     \* those that wait for their scrypt, the first one running
  left,      \* what is left of the limits
  died,      \* history: when each key stopped being the record's, or 0
  claims     \* history: the slots claimed since the server began

throttleVars == <<attempts, decayedAt, nextSlot, claims>>
loginVars == <<now, record, held, throttleVars, calls, chain, left, died>>

Least(a, b) == IF a <= b THEN a ELSE b
Greatest(a, b) == IF a >= b THEN a ELSE b

NoCall == [at |-> "none", slot |-> 0, guess |-> None, key |-> None, verdict |-> ""]

LoginTypeOK ==
  /\ {now, attempts, decayedAt, nextSlot} \subseteq Nat
  /\ record \in Key \cup {None}
  /\ held \in [key : Key \cup {None}, at : Nat]
  /\ calls \in [Caller -> [at : {"none", "hashing", "waiting"}, slot : Nat,
                           guess : Key \cup {None}, key : Key \cup {None},
                           verdict : {"", "ok", "no", "busy", "bad"}]]
  /\ chain \in Seq(Caller) /\ Len(chain) <= MaxQueued
  /\ \A c \in Caller : calls[c].at = "hashing" <=> \E i \in 1 .. Len(chain) : chain[i] = c
  /\ died \in [Key -> Nat]
  /\ left \in [Outside -> Nat]

LoginInit ==
  /\ now = 1 /\ record \in {None, 1} /\ held = [key |-> None, at |-> 0]
  /\ attempts = 0 /\ decayedAt = 1 /\ nextSlot = 0 /\ claims = <<>>
  /\ calls = [c \in Caller |-> NoCall] /\ chain = <<>>
  /\ left \in Limits
  /\ died = [k \in Key |-> 0]

Spends(what) == left[what] > 0 /\ left' = [left EXCEPT ![what] = @ - 1]

(***************************************************************************)
(* load(), and the file under it.                                          *)
(***************************************************************************)

(* As if the record were read once. *)
ReadOnce == IF held.key # None THEN held ELSE [key |-> record, at |-> now]

Loaded ==
  IF held.key # None /\ now - held.at < Recheck THEN held
  ELSE [key |-> record, at |-> now]

Loads == held' = Loaded

(* `pnpm password`: another hash, so another signing key. *)
RecordChanges ==
  /\ record < MaxKey /\ Spends("change")
  /\ record' = record + 1
  /\ died' = IF record = None THEN died ELSE [died EXCEPT ![record] = now]
  /\ UNCHANGED <<now, held, throttleVars, calls, chain>>

(***************************************************************************)
(* claimSlot().                                                            *)
(***************************************************************************)
Forgiven == (now - decayedAt) \div Decay
Attempts == Greatest(attempts, Forgiven) - Forgiven
StepNow == Least(MaxStep, Step * Doubled[Least(Attempts, 16)])
Slot == Greatest(now, nextSlot) + StepNow
MayClaim == Slot - now <= MaxWait

(* As if the moment of forgiving were not noted. *)
ForgivesAgain ==
  /\ attempts' = IF MayClaim THEN Attempts + 1 ELSE Attempts
  /\ nextSlot' = IF MayClaim THEN Slot ELSE nextSlot
  /\ UNCHANGED decayedAt

Claims ==
  /\ attempts' = IF MayClaim THEN Attempts + 1 ELSE Attempts
  /\ decayedAt' = IF Forgiven > 0 THEN now ELSE decayedAt
  /\ nextSlot' = IF MayClaim THEN Slot ELSE nextSlot

Noted ==
  claims' = IF MayClaim THEN Append(claims, [at |-> now, slot |-> Slot]) ELSE claims

(***************************************************************************)
(* POST /api/login.                                                        *)
(***************************************************************************)

Room == Len(chain) < MaxQueued

(* Without a record it is answered at once, and so is one past MaxWait. A  *)
(* malformed body costs a slot like a guess.                               *)
LoginArrives(c, guess, wellFormed) ==
  /\ calls[c].at = "none" /\ Spends(c)
  /\ Loads
  /\ IF Loaded.key = None THEN UNCHANGED <<throttleVars, calls, chain>>
     ELSE /\ Claims /\ Noted
          /\ IF ~MayClaim THEN UNCHANGED <<calls, chain>>
             ELSE LET call(at, verdict) == [at |-> at, slot |-> Slot, guess |-> guess,
                                            key |-> Loaded.key, verdict |-> verdict]
                      queues == wellFormed /\ Room
                  IN /\ calls' = [calls EXCEPT ![c] =
                          IF queues THEN call("hashing", "")
                          ELSE call("waiting", IF wellFormed THEN "busy" ELSE "bad")]
                     /\ chain' = IF queues THEN Append(chain, c) ELSE chain
  /\ UNCHANGED <<now, record, died>>

HashEnds ==
  /\ chain # <<>>
  /\ LET c == Head(chain)
         ends(verdict) == [calls EXCEPT ![c].at = "waiting", ![c].verdict = verdict]
     IN \/ /\ calls' = ends(IF calls[c].guess = calls[c].key THEN "ok" ELSE "no")
           /\ UNCHANGED left
        \/ Spends("fault") /\ calls' = ends("no")
  /\ chain' = Tail(chain)
  /\ UNCHANGED <<now, record, held, throttleVars, died>>

MayAnswer(c) == calls[c].at = "waiting" /\ now >= calls[c].slot
Accepts(c) == MayAnswer(c) /\ calls[c].verdict = "ok" /\ Loaded.key # None

LoginAnswered(c) ==
  /\ MayAnswer(c)
  /\ calls' = [calls EXCEPT ![c] = NoCall]
  /\ IF calls[c].verdict = "ok" THEN Loads ELSE UNCHANGED held
  /\ UNCHANGED <<now, record, throttleVars, chain, left, died>>

(* A restart forgets all but the file. *)
LoginRestarts ==
  /\ Spends("restart")
  /\ held' = [key |-> None, at |-> 0]
  /\ attempts' = 0 /\ decayedAt' = now /\ nextSlot' = 0 /\ claims' = <<>>
  /\ calls' = [c \in Caller |-> NoCall] /\ chain' = <<>>
  /\ UNCHANGED <<now, record, died>>

Ticks == Spends("tick") /\ now' = now + 1
=============================================================================
