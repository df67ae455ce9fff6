------------------------- MODULE Worktrees_proofs -------------------------
(***************************************************************************)
(* That the worktrees keep what Worktrees promises, for every number of    *)
(* worktrees, sessions, requests and mishaps: the inductive invariant IInv *)
(* holds first and is kept by every action, a lemma for each.              *)
(*                                                                         *)
(* A lemma on an action first says what becomes of the request it is about *)
(* and of the others, and what it leaves alone; then each part of IInv     *)
(* follows from the facts it reads.                                        *)
(***************************************************************************)
EXTENDS Worktrees, TLAPS

-----------------------------------------------------------------------------
(* What a request is made of, and what the helpers on requests change.     *)

LEMMA IdleType == Idle \in Held
  BY DEF Idle, Held, Request, Stages

LEMMA IdleFacts ==
  Idle.op = "none" /\ Idle.ws = {} /\ Idle.at = "" /\ Idle.io = "" /\ Idle.list = {}
  BY DEF Idle

LEMMA AsksType ==
  ASSUME NEW op \in Request, NEW w \in Worktree, NEW opt \in BOOLEAN
  PROVE  Asks(op, w, opt) \in Held
  BY IdleType DEF Asks, Held, Idle, Request, Stages

LEMMA AsksFacts ==
  ASSUME NEW op, NEW w, NEW opt
  PROVE  /\ Asks(op, w, opt).op = op /\ Asks(op, w, opt).ws = {w} /\ Asks(op, w, opt).io = ""
         /\ Asks(op, w, opt).at \in {"adding", "list"}
  BY DEF Asks, Idle

LEMMA AsksAlone ==
  ASSUME NEW op \in Request, NEW w \in Worktree, NEW opt \in BOOLEAN
  PROVE  Asks(op, w, opt).alone => Alone(w)
  BY DEF Asks, Idle

\* A change of the calls that leaves what they are about leaves them alone.
LEMMA AloneKept ==
  ASSUME AloneOK,
         \A d \in Call : /\ calls'[d].op = calls[d].op /\ calls'[d].ws = calls[d].ws
                         /\ calls'[d].alone => calls[d].alone
  PROVE  AloneOK'
  BY DEF AloneOK

\* The sessions that are killed, and no others, are gone.
LEMMA KillsBusy ==
  ASSUME NEW ws, Kills(ws), home' = home, \A s \in DOMAIN engine : home[s] # {}
  PROVE  /\ \A u : Busy(u)' => Busy(u)
         /\ \A u \in ws : ~Busy(u)'
         /\ \A u : u \notin ws => (Busy(u)' <=> Busy(u))
         /\ DOMAIN engine' \subseteq DOMAIN engine
<1>1. DOMAIN engine' = DOMAIN engine \ ClaudesIn(ws)
  BY DEF Kills
<1>2. \A u \in ws : \A s \in DOMAIN engine : home[s] \subseteq {u} => s \in ClaudesIn(ws)
  BY DEF ClaudesIn
<1>3. \A u : u \notin ws => \A s \in DOMAIN engine : home[s] \subseteq {u} => s \notin ClaudesIn(ws)
  BY DEF ClaudesIn
<1> QED BY <1>1, <1>2, <1>3 DEF Busy

LEMMA KillsType ==
  ASSUME NEW ws, Kills(ws), TypeOK
  PROVE  /\ engine' \in UNION {[S -> SUBSET S] : S \in SUBSET Session}
         /\ pane' \in [Session -> Panes]
<1>1. DOMAIN engine \in SUBSET Session /\ engine \in [DOMAIN engine -> SUBSET DOMAIN engine]
  BY DEF TypeOK
<1> DEFINE S == DOMAIN engine \ ClaudesIn(ws)
<1>2. S \in SUBSET Session /\ engine' \in [S -> SUBSET S]
  BY <1>1 DEF Kills
<1>3. pane' \in [Session -> Panes]
  BY DEF Kills, TypeOK, Panes
<1> HIDE DEF S
<1> QED BY <1>2, <1>3

LEMMA DoneFacts ==
  ASSUME calls \in [Call -> Held], NEW c \in Call
  PROVE  /\ Done(c) \in [Call -> Held]
         /\ Done(c)[c] = Idle
         /\ \A d \in Call : d # c => Done(c)[d] = calls[d]
  BY IdleType DEF Done

LEMMA GoesFacts ==
  ASSUME calls \in [Call -> Held], NEW c \in Call, NEW stage \in Stages
  PROVE  /\ Goes(c, stage) \in [Call -> Held]
         /\ Goes(c, stage)[c].at = stage
         /\ Goes(c, stage)[c].io = ""
         /\ Goes(c, stage)[c].op = calls[c].op
         /\ Goes(c, stage)[c].ws = calls[c].ws
         /\ Goes(c, stage)[c].s = calls[c].s
         /\ Goes(c, stage)[c].opt = calls[c].opt
         /\ Goes(c, stage)[c].alone = calls[c].alone
         /\ \A d \in Call : d # c => Goes(c, stage)[d] = calls[d]
  BY DEF Goes, Held

LEMMA OvertakesFacts ==
  ASSUME NEW cs \in [Call -> Held]
  PROVE  /\ Overtakes(cs) \in [Call -> Held]
         /\ \A d \in Call : Overtakes(cs)[d].io # "" => Overtakes(cs)[d].over
         /\ \A d \in Call :
              /\ Overtakes(cs)[d].op = cs[d].op /\ Overtakes(cs)[d].ws = cs[d].ws
              /\ Overtakes(cs)[d].at = cs[d].at /\ Overtakes(cs)[d].io = cs[d].io
              /\ Overtakes(cs)[d].list = cs[d].list /\ Overtakes(cs)[d].s = cs[d].s
              /\ Overtakes(cs)[d].alone = cs[d].alone
  BY DEF Overtakes, Held

LEMMA IntrudesFacts ==
  ASSUME NEW cs \in [Call -> Held], NEW w \in Worktree
  PROVE  /\ Intrudes(cs, w) \in [Call -> Held]
         /\ \A d \in Call :
              /\ Intrudes(cs, w)[d].op = cs[d].op /\ Intrudes(cs, w)[d].ws = cs[d].ws
              /\ Intrudes(cs, w)[d].at = cs[d].at /\ Intrudes(cs, w)[d].io = cs[d].io
              /\ Intrudes(cs, w)[d].list = cs[d].list /\ Intrudes(cs, w)[d].s = cs[d].s
              /\ Intrudes(cs, w)[d].over = cs[d].over
         /\ \A d \in Call : Intrudes(cs, w)[d].alone =>
              cs[d].alone /\ w \notin cs[d].ws /\ cs[d].op # "close"
  BY DEF Intrudes, Held

-----------------------------------------------------------------------------
(* Requests begin and list.                                                *)

LEMMA BeginsOK ==
  ASSUME IInv, NEW c \in Call, NEW op \in Request, NEW w \in Worktree, NEW opt \in BOOLEAN,
         Begins(c, op, w, opt)
  PROVE  IInv'
<1> USE DEF IInv
<1>1. calls' = [Intrudes(calls, w) EXCEPT ![c] = Asks(op, w, opt)]
  BY DEF Begins
<1>2. Intrudes(calls, w) \in [Call -> Held] /\ Asks(op, w, opt) \in Held
  BY AsksType, IntrudesFacts DEF TypeOK
<1>3. calls' \in [Call -> Held]
  BY <1>1, <1>2
<1>4. /\ \A d \in Call : d # c => calls'[d] = Intrudes(calls, w)[d]
      /\ \A d \in Call :
           /\ Intrudes(calls, w)[d].op = calls[d].op /\ Intrudes(calls, w)[d].ws = calls[d].ws
           /\ Intrudes(calls, w)[d].at = calls[d].at /\ Intrudes(calls, w)[d].io = calls[d].io
           /\ Intrudes(calls, w)[d].list = calls[d].list /\ Intrudes(calls, w)[d].s = calls[d].s
           /\ Intrudes(calls, w)[d].over = calls[d].over
  <2>1. \A d \in Call : d # c => calls'[d] = Intrudes(calls, w)[d]
    BY <1>1, <1>2
  <2> QED BY <2>1, IntrudesFacts DEF TypeOK
<1>5. calls'[c] = Asks(op, w, opt)
  BY <1>1, <1>2
<1>6. \A d \in Call : d # c =>
       calls'[d].op = calls[d].op /\ calls'[d].ws = calls[d].ws /\ calls'[d].at = calls[d].at
  BY <1>4
<1>7. \A d \in Call : d # c =>
       calls'[d].io = calls[d].io /\ calls'[d].list = calls[d].list /\ calls'[d].over = calls[d].over
  BY <1>4
<1>8. \A d \in Call : d # c => calls'[d].s = calls[d].s
  BY <1>4
<1>9. \A d \in Call : d # c =>
       (calls'[d].alone => calls[d].alone /\ w \notin calls[d].ws /\ calls[d].op # "close")
  BY <1>4, IntrudesFacts DEF TypeOK
<1>10. /\ calls'[c].op = op /\ calls'[c].ws = {w} /\ calls'[c].io = ""
       /\ calls'[c].at \in {"adding", "list"}
  <2> DEFINE A == Asks(op, w, opt)
  <2>1. A.op = op /\ A.ws = {w} /\ A.io = "" /\ A.at \in {"adding", "list"}
    BY AsksFacts
  <2>2. calls'[c] = A
    BY <1>5
  <2> HIDE DEF A
  <2> QED BY <2>1, <2>2
<1>11. calls'[c].alone => Alone(w)
  BY <1>5, AsksAlone
<1>12. /\ opened' = opened /\ disk' = disk /\ since' = since /\ recorded' = recorded
       /\ awake' = awake
       /\ woken' = woken /\ engine' = engine /\ home' = home /\ cache' = cache /\ turns' = turns
       /\ todos' = todos
  BY DEF Begins, Spends, storeVars, listVars, claudeVars
<1>13. \A u : Busy(u)' <=> Busy(u)
  BY <1>12 DEF Busy
<1>14. left' \in [Request \cup Outside -> Nat]
  BY DEF Begins, Spends, TypeOK, Request, Outside
<1>15. TypeOK'
  BY <1>3, <1>14 DEF TypeOK, Begins, storeVars, listVars, claudeVars
<1>16. ListingsOK'
  BY <1>7, <1>10, <1>12 DEF ListingsOK
<1>17. SeedOK'
  BY <1>7, <1>10, <1>12, <1>13 DEF SeedOK
<1>18. WokenOK'
  BY <1>7, <1>10, <1>12 DEF WokenOK
<1>19. TurnsOK'
  BY <1>6, <1>10, <1>12 DEF TurnsOK
<1>20. StagesOK'
  BY <1>6, <1>10, opt \in BOOLEAN DEF StagesOK, Request, Begins
<1>21. HomesOK'
  BY <1>6, <1>8, <1>10, <1>12 DEF HomesOK
<1>22. AloneOK'
  <2> SUFFICES ASSUME NEW x \in Call, NEW y \in Call, x # y, calls'[x].alone, calls'[x].op # "close"
               PROVE  /\ calls'[x].ws \cap calls'[y].ws = {}
                      /\ calls'[y].op = "close" => calls'[x].ws = {}
    BY DEF AloneOK
  <2>1. CASE x = c
    BY <2>1, <1>6, <1>10, <1>11 DEF Alone
  <2>2. CASE y = c
    <3>1. op # "close"
      BY Zenon DEF Begins
    <3>2. calls'[x].ws = calls[x].ws /\ w \notin calls[x].ws
      BY <2>2, <1>6, <1>9
    <3> QED BY <2>2, <3>1, <3>2, <1>10
  <2>3. CASE x # c /\ y # c
    BY <2>3, <1>6, <1>9 DEF AloneOK
  <2> QED BY <2>1, <2>2, <2>3
<1>23. RemovingOK'
  BY <1>6, <1>9, <1>10, <1>11, <1>12, <1>13 DEF RemovingOK
<1>24. ClearedOK'
  BY <1>6, <1>10 DEF ClearedOK, Begins, Spends
<1>25. CacheFresh'
  BY <1>12 DEF CacheFresh
<1>26. WokenKept'
  BY <1>12 DEF WokenKept
<1>27. RemovedAlone'
  BY <1>12, <1>13 DEF RemovedAlone, Begins, Spends
<1> QED BY <1>15, <1>16, <1>17, <1>18, <1>19, <1>20, <1>21, <1>22, <1>23, <1>24, <1>25, <1>26, <1>27

LEMMA CloseBeginsOK ==
  ASSUME IInv, NEW c \in Call, NEW opt \in BOOLEAN,
         CloseBegins(c, opt)
  PROVE  IInv'
<1> USE DEF IInv
<1>1. [Idle EXCEPT !.op = "close", !.at = "list", !.opt = opt] \in Held
  BY IdleType DEF Held, Request, Stages
<1>2. calls' \in [Call -> Held]
  BY <1>1 DEF CloseBegins, TypeOK, Held
<1>3. \A d \in Call : d # c =>
       calls'[d].op = calls[d].op /\ calls'[d].ws = calls[d].ws /\ calls'[d].at = calls[d].at
  BY <1>1 DEF CloseBegins, TypeOK, Held
<1>4. \A d \in Call : d # c =>
       calls'[d].io = calls[d].io /\ calls'[d].list = calls[d].list /\ calls'[d].over = calls[d].over
  BY <1>1 DEF CloseBegins, TypeOK, Held
<1>5. \A d \in Call : d # c => calls'[d].s = calls[d].s
  BY <1>1 DEF CloseBegins, TypeOK, Held
<1>6. \A d \in Call : d # c => ~calls'[d].alone
  BY <1>1 DEF CloseBegins, TypeOK, Held
<1>7. calls'[c].op = "close" /\ calls'[c].at = "list" /\ calls'[c].ws = {} /\ calls'[c].io = ""
  BY IdleType, IdleFacts DEF CloseBegins, Held
<1>8. /\ opened' = opened /\ disk' = disk /\ since' = since /\ recorded' = recorded
      /\ awake' = awake
      /\ woken' = woken /\ engine' = engine /\ home' = home /\ cache' = cache /\ turns' = turns
      /\ todos' = todos /\ cleared' = cleared
  BY DEF CloseBegins, Spends, storeVars, listVars, claudeVars
<1>9. \A u : Busy(u)' <=> Busy(u)
  BY <1>8 DEF Busy
<1>10. left' \in [Request \cup Outside -> Nat]
  BY DEF CloseBegins, Spends, TypeOK, Request, Outside
<1>11. TypeOK'
  BY <1>2, <1>10 DEF TypeOK, CloseBegins, storeVars, listVars, claudeVars
<1>12. ListingsOK'
  BY <1>4, <1>7, <1>8 DEF ListingsOK
<1>13. SeedOK'
  BY <1>4, <1>7, <1>8, <1>9 DEF SeedOK
<1>14. WokenOK'
  BY <1>4, <1>7, <1>8 DEF WokenOK
<1>15. TurnsOK'
  BY <1>3, <1>7, <1>8 DEF TurnsOK
<1>16. StagesOK'
  BY <1>3, <1>7 DEF StagesOK, Request
<1>17. HomesOK'
  BY <1>3, <1>5, <1>7, <1>8 DEF HomesOK
<1>18. AloneOK'
  BY <1>3, <1>6, <1>7 DEF AloneOK
<1>19. RemovingOK'
  BY <1>3, <1>6, <1>7, <1>8, <1>9 DEF RemovingOK
<1>20. ClearedOK'
  BY <1>3, <1>7, <1>8 DEF ClearedOK
<1>21. CacheFresh'
  BY <1>8 DEF CacheFresh
<1>22. WokenKept'
  BY <1>8 DEF WokenKept
<1>23. RemovedAlone'
  BY <1>8, <1>9 DEF RemovedAlone
<1> QED BY <1>11, <1>12, <1>13, <1>14, <1>15, <1>16, <1>17, <1>18, <1>19, <1>20, <1>21, <1>22, <1>23

LEMMA OpensOK ==
  ASSUME IInv,
         Opens
  PROVE  IInv'
<1> USE DEF IInv
<1>1. calls' \in [Call -> Held] /\ calls' = Overtakes(calls)
  BY OvertakesFacts DEF TypeOK, Invalidates, Opens
<1>2. cache' = {} /\ since' = {IF opened' THEN disk ELSE {}}
  BY DEF Invalidates, Opens
<1>3. \A d \in Call : 
       calls'[d].op = calls[d].op /\ calls'[d].ws = calls[d].ws /\ calls'[d].at = calls[d].at
  BY <1>1, OvertakesFacts DEF TypeOK
<1>4. \A d \in Call : 
       /\ calls'[d].io = calls[d].io /\ calls'[d].list = calls[d].list
       /\ calls'[d].io # "" => calls'[d].over
  BY <1>1, OvertakesFacts DEF TypeOK
<1>5. \A d \in Call :  calls'[d].s = calls[d].s
  BY <1>1, OvertakesFacts DEF TypeOK
<1>6. \A d \in Call :  calls'[d].alone = calls[d].alone
  BY <1>1, OvertakesFacts DEF TypeOK
<1>7. ~opened /\ opened'
  BY DEF Opens
<1>8. /\ disk' = disk /\ recorded' = recorded /\ awake' = awake /\ woken' = woken
      /\ engine' = engine
      /\ home' = home /\ turns' = turns /\ todos' = todos /\ cleared' = cleared
  BY DEF Opens, Spends, Broadcasts, storeVars, listVars, claudeVars
<1>9. \A u : Busy(u)' <=> Busy(u)
  BY <1>8 DEF Busy
<1>10. left' \in [Request \cup Outside -> Nat]
  BY DEF Opens, Spends, Broadcasts, TypeOK, Request, Outside
<1>11. TypeOK'
  BY <1>1, <1>2, <1>10 DEF TypeOK, Opens, Broadcasts, storeVars, listVars, claudeVars, AtMostOne
<1>12. ListingsOK'
  BY <1>2, <1>4, <1>7, <1>8 DEF ListingsOK
<1>13. SeedOK'
  BY <1>2, <1>4, <1>7, <1>8, <1>9 DEF SeedOK
<1>14. WokenOK'
  BY <1>4, <1>8 DEF WokenOK
<1>15. TurnsOK'
  BY <1>3, <1>8 DEF TurnsOK
<1>16. StagesOK'
  BY <1>3 DEF StagesOK, Request
<1>17. HomesOK'
  BY <1>3, <1>5, <1>8 DEF HomesOK
<1>18. AloneOK'
  BY <1>3, <1>6 DEF AloneOK
<1>19. RemovingOK'
  BY <1>3, <1>6, <1>8, <1>9 DEF RemovingOK
<1>20. ClearedOK'
  BY <1>3, <1>8 DEF ClearedOK
<1>21. CacheFresh'
  BY <1>2, <1>7 DEF CacheFresh
<1>22. WokenKept'
  BY <1>8 DEF WokenKept
<1>23. RemovedAlone'
  BY <1>8, <1>9 DEF RemovedAlone
<1> QED BY <1>11, <1>12, <1>13, <1>14, <1>15, <1>16, <1>17, <1>18, <1>19, <1>20, <1>21, <1>22, <1>23

LEMMA PollBeginsOK ==
  ASSUME IInv, NEW c \in Call,
         PollBegins(c)
  PROVE  IInv'
<1> USE DEF IInv
<1>1. [Idle EXCEPT !.op = "poll", !.at = "list"] \in Held
  BY IdleType DEF Held, Request, Stages
<1>2. [calls EXCEPT ![c] = [Idle EXCEPT !.op = "poll", !.at = "list"]] \in [Call -> Held]
  BY <1>1 DEF TypeOK
<1>3. calls' = Overtakes([calls EXCEPT ![c] = [Idle EXCEPT !.op = "poll", !.at = "list"]])
  BY DEF PollBegins, Invalidates
<1>4. calls' \in [Call -> Held]
  BY <1>2, <1>3, OvertakesFacts
<1>5. cache' = {} /\ since' = {IF opened' THEN disk ELSE {}}
  BY DEF PollBegins, Invalidates
<1>6. /\ [Idle EXCEPT !.op = "poll", !.at = "list"].op = "poll"
      /\ [Idle EXCEPT !.op = "poll", !.at = "list"].at = "list"
     /\ [Idle EXCEPT !.op = "poll", !.at = "list"].ws = {}
     /\ [Idle EXCEPT !.op = "poll", !.at = "list"].io = ""
  BY IdleType, IdleFacts DEF Held
<1>7. calls'[c].op = "poll" /\ calls'[c].at = "list" /\ calls'[c].ws = {} /\ calls'[c].io = ""
  BY <1>2, <1>3, <1>6, OvertakesFacts DEF TypeOK
<1>8. \A d \in Call : d # c =>
       calls'[d].op = calls[d].op /\ calls'[d].ws = calls[d].ws /\ calls'[d].at = calls[d].at
  BY <1>2, <1>3, OvertakesFacts DEF TypeOK
<1>9. \A d \in Call : d # c =>
       /\ calls'[d].io = calls[d].io /\ calls'[d].list = calls[d].list
       /\ calls'[d].io # "" => calls'[d].over
  BY <1>2, <1>3, OvertakesFacts DEF TypeOK
<1>10. \A d \in Call : d # c => calls'[d].s = calls[d].s
  BY <1>2, <1>3, OvertakesFacts DEF TypeOK
<1>11. \A d \in Call : d # c => calls'[d].alone = calls[d].alone
  BY <1>2, <1>3, OvertakesFacts DEF TypeOK
<1>12. /\ opened' = opened /\ disk' = disk /\ recorded' = recorded /\ awake' = awake
       /\ woken' = woken
       /\ engine' = engine /\ home' = home /\ turns' = turns /\ todos' = todos /\ cleared' = cleared
  BY DEF PollBegins, Spends, storeVars, listVars, claudeVars
<1>13. \A u : Busy(u)' <=> Busy(u)
  BY <1>12 DEF Busy
<1>14. left' \in [Request \cup Outside -> Nat]
  BY DEF PollBegins, Spends, TypeOK, Request, Outside
<1>15. TypeOK'
  BY <1>4, <1>5, <1>14 DEF TypeOK, PollBegins, storeVars, listVars, claudeVars, AtMostOne
<1>16. ListingsOK'
  BY <1>5, <1>7, <1>9, <1>12 DEF ListingsOK
<1>17. SeedOK'
  BY <1>5, <1>7, <1>9, <1>12, <1>13 DEF SeedOK
<1>18. WokenOK'
  BY <1>7, <1>9, <1>12 DEF WokenOK
<1>19. TurnsOK'
  BY <1>7, <1>8, <1>12 DEF TurnsOK
<1>20. StagesOK'
  BY <1>7, <1>8 DEF StagesOK, Request
<1>21. HomesOK'
  BY <1>7, <1>8, <1>10, <1>12 DEF HomesOK
<1>22. AloneOK'
  BY <1>7, <1>8, <1>11 DEF AloneOK
<1>23. RemovingOK'
  BY <1>7, <1>8, <1>11, <1>12, <1>13 DEF RemovingOK
<1>24. ClearedOK'
  BY <1>7, <1>8, <1>12 DEF ClearedOK
<1>25. CacheFresh'
  BY <1>5 DEF CacheFresh
<1>26. WokenKept'
  BY <1>12 DEF WokenKept
<1>27. RemovedAlone'
  BY <1>12, <1>13 DEF RemovedAlone
<1> QED BY <1>15, <1>16, <1>17, <1>18, <1>19, <1>20, <1>21, <1>22, <1>23, <1>24, <1>25, <1>26, <1>27

LEMMA ListAsksOK ==
  ASSUME IInv, NEW c \in Call,
         ListAsks(c)
  PROVE  IInv'
<1> USE DEF IInv
<1>1. /\ calls' \in [Call -> Held] /\ (\A d \in Call : d # c => calls'[d] = calls[d])
      /\ calls'[c].io = (IF opened THEN "asked" ELSE "landed") /\ calls'[c].list = {}
      /\ calls'[c].op = calls[c].op /\ calls'[c].ws = calls[c].ws /\ calls'[c].at = calls[c].at
      /\ calls'[c].s = calls[c].s /\ calls'[c].alone = calls[c].alone
  BY DEF ListAsks, TypeOK, Held
<1>2. /\ opened' = opened /\ disk' = disk /\ since' = since /\ recorded' = recorded
      /\ awake' = awake
      /\ woken' = woken /\ engine' = engine /\ home' = home /\ cache' = cache /\ turns' = turns
      /\ todos' = todos /\ cleared' = cleared
  BY DEF ListAsks, OnlyCalls, storeVars, listVars, claudeVars
<1>3. \A u : Busy(u)' <=> Busy(u)
  BY <1>2 DEF Busy
<1>4. TypeOK'
  BY <1>1 DEF TypeOK, ListAsks, OnlyCalls, storeVars, listVars, claudeVars
<1>5. ListingsOK'
  BY <1>1, <1>2 DEF ListingsOK
<1>6. SeedOK'
  BY <1>1, <1>2, <1>3 DEF SeedOK
<1>7. WokenOK'
  BY <1>1, <1>2 DEF WokenOK
<1>8. TurnsOK'
  BY <1>1, <1>2 DEF TurnsOK
<1>9. StagesOK'
  BY <1>1 DEF StagesOK, Request
<1>10. HomesOK'
  BY <1>1, <1>2 DEF HomesOK
<1>11. AloneOK'
  BY <1>1 DEF AloneOK
<1>12. RemovingOK'
  BY <1>1, <1>2, <1>3 DEF RemovingOK
<1>13. ClearedOK'
  BY <1>1, <1>2 DEF ClearedOK
<1>14. CacheFresh'
  BY <1>2 DEF CacheFresh
<1>15. WokenKept'
  BY <1>2 DEF WokenKept
<1>16. RemovedAlone'
  BY <1>2, <1>3 DEF RemovedAlone
<1> QED BY <1>4, <1>5, <1>6, <1>7, <1>8, <1>9, <1>10, <1>11, <1>12, <1>13, <1>14, <1>15, <1>16

LEMMA ListReadsOK ==
  ASSUME IInv, NEW c \in Call,
         ListReads(c)
  PROVE  IInv'
<1> USE DEF IInv
<1>1. /\ calls' \in [Call -> Held] /\ (\A d \in Call : d # c => calls'[d] = calls[d])
      /\ calls[c].io = "asked" /\ calls'[c].io = "read" /\ calls'[c].list = disk
      /\ calls'[c].op = calls[c].op /\ calls'[c].ws = calls[c].ws /\ calls'[c].at = calls[c].at
      /\ calls'[c].s = calls[c].s /\ calls'[c].over = calls[c].over
      /\ calls'[c].alone = calls[c].alone
  BY DEF ListReads, TypeOK, Held
<1>2. /\ opened' = opened /\ disk' = disk /\ since' = since /\ recorded' = recorded
      /\ awake' = awake
      /\ woken' = woken /\ engine' = engine /\ home' = home /\ cache' = cache /\ turns' = turns
      /\ todos' = todos /\ cleared' = cleared
  BY DEF ListReads, OnlyCalls, storeVars, listVars, claudeVars
<1>3. \A u : Busy(u)' <=> Busy(u)
  BY <1>2 DEF Busy
<1>4. TypeOK'
  BY <1>1 DEF TypeOK, ListReads, OnlyCalls, storeVars, listVars, claudeVars
<1>5. ListingsOK'
  BY <1>1, <1>2 DEF ListingsOK
<1>6. SeedOK'
  BY <1>1, <1>2, <1>3 DEF SeedOK
<1>7. WokenOK'
  BY <1>1, <1>2 DEF WokenOK
<1>8. TurnsOK'
  BY <1>1, <1>2 DEF TurnsOK
<1>9. StagesOK'
  BY <1>1 DEF StagesOK, Request
<1>10. HomesOK'
  BY <1>1, <1>2 DEF HomesOK
<1>11. AloneOK'
  BY <1>1 DEF AloneOK
<1>12. RemovingOK'
  BY <1>1, <1>2, <1>3 DEF RemovingOK
<1>13. ClearedOK'
  BY <1>1, <1>2 DEF ClearedOK
<1>14. CacheFresh'
  BY <1>2 DEF CacheFresh
<1>15. WokenKept'
  BY <1>2 DEF WokenKept
<1>16. RemovedAlone'
  BY <1>2, <1>3 DEF RemovedAlone
<1> QED BY <1>4, <1>5, <1>6, <1>7, <1>8, <1>9, <1>10, <1>11, <1>12, <1>13, <1>14, <1>15, <1>16

LEMMA ListLandsOK ==
  ASSUME IInv, NEW c \in Call,
         ListLands(c)
  PROVE  IInv'
<1> USE DEF IInv
<1>1. calls' \in [Call -> Held] /\ calls[c].list \in SUBSET Worktree
  <2>1. calls[c] \in Held
    BY DEF TypeOK
  <2>2. calls[c].list \in SUBSET Worktree /\ [calls[c] EXCEPT !.io = "landed"] \in Held
    BY <2>1 DEF Held
  <2>3. calls' = [calls EXCEPT ![c] = [calls[c] EXCEPT !.io = "landed"]]
    BY DEF ListLands
  <2> QED BY <2>2, <2>3 DEF TypeOK
<1>2. /\ (\A d \in Call : d # c => calls'[d] = calls[d])
      /\ calls[c].io = "read" /\ calls'[c].io = "landed"
      /\ calls'[c].op = calls[c].op /\ calls'[c].ws = calls[c].ws /\ calls'[c].at = calls[c].at
      /\ calls'[c].list = calls[c].list /\ calls'[c].s = calls[c].s
      /\ calls'[c].over = calls[c].over /\ calls'[c].alone = calls[c].alone
  BY DEF ListLands, TypeOK, Held
<1>3. /\ opened' = opened /\ disk' = disk /\ since' = since /\ recorded' = recorded
      /\ woken' = woken
      /\ engine' = engine /\ home' = home /\ cache' = cache /\ turns' = turns /\ todos' = todos
      /\ cleared' = cleared
  BY DEF ListLands, ForgetsGone, storeVars, listVars, claudeVars
<1>4. \A u : Busy(u)' <=> Busy(u)
  BY <1>3 DEF Busy
<1>5. TypeOK'
  BY <1>1 DEF TypeOK, ListLands, ForgetsGone, storeVars, listVars, claudeVars
<1>6. ListingsOK'
  BY <1>2, <1>3 DEF ListingsOK
<1>7. SeedOK'
  BY <1>2, <1>3, <1>4 DEF SeedOK, WokenOK, ListLands, ForgetsGone
<1>8. WokenOK'
  BY <1>2, <1>3 DEF WokenOK
<1>9. TurnsOK'
  BY <1>2, <1>3 DEF TurnsOK
<1>10. StagesOK'
  BY <1>2 DEF StagesOK, Request
<1>11. HomesOK'
  BY <1>2, <1>3 DEF HomesOK
<1>12. AloneOK'
  BY <1>2 DEF AloneOK
<1>13. RemovingOK'
  BY <1>2, <1>3, <1>4 DEF RemovingOK
<1>14. ClearedOK'
  BY <1>2, <1>3 DEF ClearedOK
<1>15. CacheFresh'
  BY <1>3 DEF CacheFresh
<1>16. WokenKept'
  BY <1>3 DEF WokenKept, WokenOK, ListLands, ForgetsGone
<1>17. RemovedAlone'
  BY <1>3, <1>4 DEF RemovedAlone, ListLands, ForgetsGone
<1> QED BY <1>5, <1>6, <1>7, <1>8, <1>9, <1>10, <1>11, <1>12, <1>13, <1>14, <1>15, <1>16, <1>17

LEMMA SeedAwaitsOK ==
  ASSUME IInv, NEW c \in Call,
         SeedAwaits(c)
  PROVE  IInv'
<1> USE DEF IInv
<1>1. "seed" \in Stages
  BY DEF Stages
<1>2. calls' \in [Call -> Held]
  BY <1>1, GoesFacts DEF TypeOK, SeedAwaits
<1>3. (\A d \in Call : d # c => calls'[d] = calls[d]) /\ calls'[c].at = "seed"
     /\ calls'[c].io = "" /\ calls'[c].op = calls[c].op /\ calls'[c].ws = calls[c].ws
  <2>1. calls' = Goes(c, "seed") /\ calls \in [Call -> Held]
    BY DEF TypeOK, SeedAwaits
  <2> QED BY <1>1, <2>1, GoesFacts
<1>4. calls'[c].s = calls[c].s /\ calls'[c].alone = calls[c].alone
  BY <1>1, GoesFacts DEF TypeOK, SeedAwaits
<1>5. ~recorded /\ turns # <<>> /\ Head(turns) = c /\ calls[c].at = "turn"
  BY DEF SeedAwaits, IsTurnOf
<1>6. /\ opened' = opened /\ disk' = disk /\ since' = since /\ recorded' = recorded
      /\ awake' = awake
      /\ woken' = woken /\ engine' = engine /\ home' = home /\ cache' = cache /\ turns' = turns
      /\ todos' = todos /\ cleared' = cleared
  BY DEF SeedAwaits, OnlyCalls, storeVars, listVars, claudeVars
<1>7. \A u : Busy(u)' <=> Busy(u)
  BY <1>6 DEF Busy
<1>8. TypeOK'
  BY <1>2 DEF TypeOK, SeedAwaits, OnlyCalls, storeVars, listVars, claudeVars
<1>9. ListingsOK'
  BY <1>3, <1>5, <1>6 DEF ListingsOK
<1>10. SeedOK'
  BY <1>3, <1>5, <1>6, <1>7 DEF SeedOK
<1>11. WokenOK'
  BY <1>3, <1>5, <1>6 DEF WokenOK
<1>12. TurnsOK'
  BY <1>3, <1>5, <1>6 DEF TurnsOK
<1>13. StagesOK'
  BY <1>3, <1>5 DEF StagesOK, Request
<1>14. HomesOK'
  BY <1>3, <1>4, <1>5, <1>6 DEF HomesOK
<1>15. AloneOK'
  BY <1>3, <1>4, AloneKept
<1>16. RemovingOK'
  BY <1>3, <1>4, <1>5, <1>6, <1>7 DEF RemovingOK
<1>17. ClearedOK'
  BY <1>3, <1>5, <1>6 DEF ClearedOK
<1>18. CacheFresh'
  BY <1>6 DEF CacheFresh
<1>19. WokenKept'
  BY <1>6 DEF WokenKept
<1>20. RemovedAlone'
  BY <1>6, <1>7 DEF RemovedAlone
<1> QED BY <1>8, <1>9, <1>10, <1>11, <1>12, <1>13, <1>14, <1>15, <1>16, <1>17, <1>18, <1>19, <1>20

LEMMA SleepEndsOK ==
  ASSUME IInv, NEW c \in Call,
         SleepEnds(c)
  PROVE  IInv'
<1> USE DEF IInv
<1>1. calls' \in [Call -> Held] /\ (\A d \in Call : d # c => calls'[d] = calls[d])
     /\ calls'[c] = Idle
  BY DoneFacts DEF TypeOK, SleepEnds
<1>2. /\ (\A d \in Call : d # c => calls'[d] = calls[d])
      /\ calls'[c].op = "none" /\ calls'[c].ws = {} /\ calls'[c].at = "" /\ calls'[c].io = ""
  BY <1>1, IdleFacts
<1>3. /\ opened' = opened /\ disk' = disk /\ since' = since /\ recorded' = recorded
      /\ awake' = awake
      /\ woken' = woken /\ engine' = engine /\ home' = home /\ cache' = cache /\ turns' = turns
      /\ todos' = todos /\ cleared' = cleared
  BY DEF SleepEnds, Broadcasts, storeVars, listVars, claudeVars
<1>4. \A u : Busy(u)' <=> Busy(u)
  BY <1>3 DEF Busy
<1>5. TypeOK'
  BY <1>1 DEF TypeOK, SleepEnds, Broadcasts, storeVars, listVars, claudeVars
<1>6. ListingsOK'
  BY <1>2, <1>3 DEF ListingsOK
<1>7. SeedOK'
  BY <1>2, <1>3, <1>4 DEF SeedOK
<1>8. WokenOK'
  BY <1>2, <1>3 DEF WokenOK
<1>9. TurnsOK'
  BY <1>2, <1>3 DEF TurnsOK
<1>10. StagesOK'
  BY <1>2 DEF StagesOK, Request
<1>11. HomesOK'
  BY <1>2, <1>3 DEF HomesOK
<1>12. AloneOK'
  BY <1>2 DEF AloneOK
<1>13. RemovingOK'
  BY <1>2, <1>3, <1>4 DEF RemovingOK
<1>14. ClearedOK'
  BY <1>2, <1>3 DEF ClearedOK
<1>15. CacheFresh'
  BY <1>3 DEF CacheFresh
<1>16. WokenKept'
  BY <1>3 DEF WokenKept
<1>17. RemovedAlone'
  BY <1>3, <1>4 DEF RemovedAlone
<1> QED BY <1>5, <1>6, <1>7, <1>8, <1>9, <1>10, <1>11, <1>12, <1>13, <1>14, <1>15, <1>16, <1>17

\* What closing a project leaves alone.
ClosesOnly == UNCHANGED <<disk, awake, recorded, known, turns, sig, claudeVars, failed, cleared, left>>

LEMMA ClosesOK ==
  ASSUME IInv, NEW c \in Call, NEW ws, Closes(c, ws), ClosesOnly
  PROVE  IInv'
<1> USE DEF IInv
<1>1. Done(c) \in [Call -> Held] /\ Done(c)[c] = Idle /\ \A d \in Call : d # c => Done(c)[d] = calls[d]
  BY DoneFacts DEF TypeOK
<1>2. calls' = Overtakes(Done(c))
  BY DEF Invalidates, Closes
<1>3. calls' \in [Call -> Held]
  BY <1>1, <1>2, OvertakesFacts
<1>4. cache' = {} /\ since' = {IF opened' THEN disk ELSE {}}
  BY DEF Invalidates, Closes
<1>5. \A d \in Call :
       /\ Overtakes(Done(c))[d].op = Done(c)[d].op
       /\ Overtakes(Done(c))[d].ws = Done(c)[d].ws
       /\ Overtakes(Done(c))[d].at = Done(c)[d].at
       /\ Overtakes(Done(c))[d].io = Done(c)[d].io
       /\ Overtakes(Done(c))[d].list = Done(c)[d].list
       /\ Overtakes(Done(c))[d].s = Done(c)[d].s
       /\ Overtakes(Done(c))[d].alone = Done(c)[d].alone
       /\ Overtakes(Done(c))[d].io # "" => Overtakes(Done(c))[d].over
  BY <1>1, OvertakesFacts
<1>6. calls'[c].op = "none" /\ calls'[c].ws = {} /\ calls'[c].at = "" /\ calls'[c].io = ""
  BY <1>1, <1>2, <1>5, IdleFacts
<1>7. \A d \in Call : d # c =>
       calls'[d].op = calls[d].op /\ calls'[d].ws = calls[d].ws /\ calls'[d].at = calls[d].at
  BY <1>1, <1>2, <1>5
<1>8. \A d \in Call : d # c =>
       /\ calls'[d].io = calls[d].io /\ calls'[d].list = calls[d].list
       /\ calls'[d].io # "" => calls'[d].over
  BY <1>1, <1>2, <1>5
<1>9. \A d \in Call : d # c => calls'[d].s = calls[d].s
  BY <1>1, <1>2, <1>5
<1>10. \A d \in Call : d # c => calls'[d].alone = calls[d].alone
  BY <1>1, <1>2, <1>5
<1>11. /\ disk' = disk /\ recorded' = recorded /\ awake' = awake /\ engine' = engine /\ home' = home
       /\ turns' = turns /\ cleared' = cleared
  BY DEF Closes, ClosesOnly, Broadcasts, claudeVars
<1>12. \A u : Busy(u)' <=> Busy(u)
  BY <1>11 DEF Busy
<1>13. TypeOK'
  BY <1>3, <1>4 DEF TypeOK, Closes, ClosesOnly, Broadcasts, claudeVars, AtMostOne
<1>14. ListingsOK'
  BY <1>4, <1>6, <1>8, <1>11 DEF ListingsOK, Closes, Broadcasts
<1>15. SeedOK'
  <2>1. woken' = IF recorded THEN woken ELSE {}
    BY DEF Closes
  <2> QED BY <2>1, <1>4, <1>11 DEF SeedOK
<1>16. WokenOK'
  BY <1>6, <1>8, <1>11 DEF WokenOK, Closes, Broadcasts
<1>17. TurnsOK'
  BY <1>6, <1>7, <1>11 DEF TurnsOK
<1>18. StagesOK'
  BY <1>6, <1>7 DEF StagesOK, Request
<1>19. HomesOK'
  BY <1>6, <1>7, <1>9, <1>11 DEF HomesOK
<1>20. AloneOK'
  BY <1>6, <1>7, <1>10 DEF AloneOK
<1>21. RemovingOK'
  BY <1>6, <1>7, <1>10, <1>11, <1>12 DEF RemovingOK
<1>22. ClearedOK'
  BY <1>6, <1>7, <1>11 DEF ClearedOK
<1>23. CacheFresh'
  BY <1>4 DEF CacheFresh
<1>24. WokenKept'
  BY <1>11 DEF WokenKept, Closes, Broadcasts
<1>25. RemovedAlone'
  BY <1>11, <1>12 DEF RemovedAlone, Closes, Broadcasts
<1> QED BY <1>13, <1>14, <1>15, <1>16, <1>17, <1>18, <1>19, <1>20, <1>21, <1>22, <1>23, <1>24, <1>25

\* A session the engine does not have makes no worktree busy.

LEMMA ClosesAsleepOK ==
  ASSUME IInv, NEW c \in Call, ClosesAsleep(c)
  PROVE  IInv'
  BY ClosesOK DEF ClosesAsleep, ClosesOnly, claudeVars

LEMMA HomeBusy ==
  ASSUME TypeOK, HomesOK, NEW s \in Session, home[s] = {}, NEW ws \in SUBSET Worktree, ws # {},
         home' = [home EXCEPT ![s] = ws], engine' = engine
  PROVE  /\ \A u : Busy(u)' <=> Busy(u)
         /\ \A r \in DOMAIN engine : home'[r] = home[r] /\ r # s
         /\ home'[s] = ws /\ home' \in [Session -> SUBSET Worktree]
         /\ \A r \in Session : r # s => home'[r] = home[r]
<1>1. home \in [Session -> SUBSET Worktree] /\ DOMAIN engine \subseteq Session
  BY DEF TypeOK
<1>2. \A r \in DOMAIN engine : home'[r] = home[r] /\ r # s
  BY <1>1 DEF HomesOK
<1> QED BY <1>1, <1>2 DEF Busy

LEMMA ClaudeStartsOK ==
  ASSUME IInv, NEW c \in Call, NEW s \in Session, NEW cont \in BOOLEAN,
         ClaudeStarts(c, s, cont)
  PROVE  IInv'
<1> USE DEF IInv
<1>1. calls' = [Goes(c, "starting") EXCEPT ![c] = [@ EXCEPT !.s = s, !.opt = cont]]
  BY DEF ClaudeStarts
<1>2. /\ Goes(c, "starting") \in [Call -> Held] /\ Goes(c, "starting")[c] \in Held
      /\ \A d \in Call : d # c => Goes(c, "starting")[d] = calls[d]
  BY GoesFacts DEF TypeOK, Stages
<1>3. Goes(c, "starting")[c].at = "starting" /\ Goes(c, "starting")[c].io = ""
     /\ Goes(c, "starting")[c].op = calls[c].op /\ Goes(c, "starting")[c].ws = calls[c].ws
     /\ Goes(c, "starting")[c].alone = calls[c].alone
  BY GoesFacts DEF TypeOK, Stages
<1>4. calls' \in [Call -> Held] /\ (\A d \in Call : d # c => calls'[d] = calls[d])
  BY <1>1, <1>2 DEF Held
<1>5. \A d \in Call : d # c => calls'[d] = calls[d]
  BY <1>4
<1>6. /\ calls'[c].at = "starting" /\ calls'[c].io = "" /\ calls'[c].op = calls[c].op
      /\ calls'[c].ws = calls[c].ws /\ calls'[c].s = s
  BY <1>1, <1>2, <1>3 DEF Held
<1>7. calls'[c].alone = calls[c].alone
  BY <1>1, <1>2, <1>3 DEF Held
<1>8. /\ calls[c].op \in {"wake", "create"} /\ \E w \in Worktree : calls[c].ws = {w}
      /\ home[s] = {} /\ home' = [home EXCEPT ![s] = calls[c].ws]
      /\ home \in [Session -> SUBSET Worktree]
  <2>1. calls[c].at = "args" /\ home[s] = {} /\ home' = [home EXCEPT ![s] = calls[c].ws]
    BY DEF ClaudeStarts
  <2>2. calls[c].op \in {"wake", "create"}
    BY <2>1 DEF StagesOK
  <2>3. \E w \in Worktree : calls[c].ws = {w}
    BY <2>2 DEF StagesOK, Request
  <2> QED BY <2>1, <2>2, <2>3 DEF TypeOK
<1>9. /\ opened' = opened /\ disk' = disk /\ since' = since /\ recorded' = recorded
      /\ awake' = awake
      /\ woken' = woken /\ engine' = engine /\ cache' = cache /\ turns' = turns /\ todos' = todos
      /\ cleared' = cleared
  BY DEF ClaudeStarts, storeVars, listVars, claudeVars
<1>10. /\ \A u : Busy(u)' <=> Busy(u)
       /\ \A r \in DOMAIN engine : home'[r] = home[r]
       /\ home'[s] = calls[c].ws /\ home' \in [Session -> SUBSET Worktree]
       /\ \A r \in Session : r # s => home'[r] = home[r]
  <2>1. calls[c].ws \in SUBSET Worktree /\ calls[c].ws # {}
    BY <1>8
  <2> QED BY <1>8, <1>9, <2>1, HomeBusy
<1>11. pane' \in [Session -> Panes]
  BY DEF ClaudeStarts, TypeOK, Panes, Running
<1>12. TypeOK'
  <2>1. /\ known' = known /\ sig' = sig /\ noticed' = noticed /\ watch' = watch /\ left' = left
        /\ unsaid' = unsaid /\ failed' = failed
    BY DEF ClaudeStarts, storeVars, listVars, claudeVars
  <2>2. /\ disk' \subseteq Worktree /\ awake' \subseteq Worktree /\ todos' \subseteq Worktree
        /\ known' \subseteq Worktree /\ noticed' \subseteq Session
        /\ woken' \subseteq Worktree /\ cleared' \subseteq Worktree
    BY <1>9, <2>1 DEF TypeOK
  <2>3. /\ opened' \in BOOLEAN /\ recorded' \in BOOLEAN /\ unsaid' \in BOOLEAN
        /\ failed' \in BOOLEAN
        /\ cache' \in AtMostOne /\ sig' \in AtMostOne /\ turns' \in Seq(Call)
        /\ watch' \in [Session -> [polling : Nat, seen : Nat]]
        /\ since' \subseteq SUBSET Worktree /\ left' \in [Request \cup Outside -> Nat]
    BY <1>9, <2>1, Zenon DEF TypeOK
  <2>4. engine' \in UNION {[S -> SUBSET S] : S \in SUBSET Session}
    BY <1>9, Zenon DEF TypeOK
  <2> QED BY <1>4, <1>10, <1>11, <2>2, <2>3, <2>4, Zenon DEF TypeOK
<1>13. ListingsOK'
  BY <1>5, <1>6, <1>8, <1>9 DEF ListingsOK
<1>14. SeedOK'
  BY <1>5, <1>6, <1>9, <1>10 DEF SeedOK
<1>15. WokenOK'
  BY <1>5, <1>6, <1>8, <1>9 DEF WokenOK
<1>16. TurnsOK'
  BY <1>5, <1>6, <1>8, <1>9 DEF TurnsOK
<1>17. StagesOK'
  BY <1>5, <1>6, <1>8 DEF StagesOK, Request
<1>18. HomesOK'
  <2>1. \A r \in DOMAIN engine' : home'[r] # {}
    BY <1>9, <1>10 DEF HomesOK
  <2>2. ASSUME NEW d \in Call, calls'[d].at = "starting"
        PROVE  calls'[d].s \in Session /\ home'[calls'[d].s] = calls'[d].ws
    <3>1. CASE d = c
      <4>1. calls'[c].s = s /\ calls'[c].ws = calls[c].ws
        BY <1>6
      <4>2. home'[s] = calls[c].ws
        BY <1>10
      <4> QED BY <3>1, <4>1, <4>2, Zenon
    <3>2. CASE d # c
      <4>1. calls[d].at = "starting" /\ calls'[d].s = calls[d].s /\ calls'[d].ws = calls[d].ws
        BY <3>2, <2>2, <1>5
      <4>2. calls[d].s \in Session /\ home[calls[d].s] = calls[d].ws
        BY <4>1 DEF HomesOK
      <4>3. calls[d].ws # {}
        BY <4>1 DEF StagesOK, Request
      <4> QED BY <4>1, <4>2, <4>3, <1>8, <1>10
    <3> QED BY <3>1, <3>2
  <2> QED BY <2>1, <2>2 DEF HomesOK
<1>19. AloneOK'
  BY <1>5, <1>6, <1>7, AloneKept
<1>20. RemovingOK'
  BY <1>5, <1>6, <1>8, <1>10, <1>7 DEF RemovingOK
<1>21. ClearedOK'
  BY <1>5, <1>6, <1>8, <1>9 DEF ClearedOK
<1>22. CacheFresh'
  BY <1>9 DEF CacheFresh
<1>23. WokenKept'
  BY <1>8, <1>9 DEF WokenKept
<1>24. RemovedAlone'
  BY <1>9, <1>10 DEF RemovedAlone
<1> QED BY <1>12, <1>13, <1>14, <1>15, <1>16, <1>17, <1>18, <1>19, <1>20, <1>21, <1>22, <1>23, <1>24

\* A session the engine takes in makes its worktree busy, and no other.
LEMMA StartedBusy ==
  ASSUME TypeOK, NEW s \in Session, home' = home, NEW w, home[s] = {w},
         engine' = [r \in DOMAIN engine \cup {s} |-> IF r = s THEN DOMAIN engine ELSE engine[r]]
  PROVE  /\ \A u : Busy(u) => Busy(u)'
         /\ \A u : u # w => (Busy(u)' <=> Busy(u))
         /\ DOMAIN engine' = DOMAIN engine \cup {s}
         /\ engine' \in UNION {[S -> SUBSET S] : S \in SUBSET Session}
<1>1. DOMAIN engine \in SUBSET Session /\ engine \in [DOMAIN engine -> SUBSET DOMAIN engine]
  BY DEF TypeOK
<1>2. DOMAIN engine' = DOMAIN engine \cup {s}
  OBVIOUS
<1>3. engine' \in [DOMAIN engine \cup {s} -> SUBSET (DOMAIN engine \cup {s})]
  BY <1>1
<1>4. DOMAIN engine \cup {s} \in SUBSET Session
  BY <1>1
<1> QED BY <1>2, <1>3, <1>4 DEF Busy

LEMMA ClaudeStartedOK ==
  ASSUME IInv, NEW c \in Call,
         ClaudeStarted(c)
  PROVE  IInv'
<1> USE DEF IInv
<1>1. calls' \in [Call -> Held] /\ (\A d \in Call : d # c => calls'[d] = calls[d])
     /\ calls'[c] = Idle
  BY DoneFacts DEF TypeOK, ClaudeStarted
<1>2. /\ (\A d \in Call : d # c => calls'[d] = calls[d])
      /\ calls'[c].op = "none" /\ calls'[c].ws = {} /\ calls'[c].at = "" /\ calls'[c].io = ""
  BY <1>1, IdleFacts
<1>3. /\ opened' = opened /\ disk' = disk /\ since' = since /\ recorded' = recorded
      /\ awake' = awake
      /\ woken' = woken /\ home' = home /\ cache' = cache /\ turns' = turns /\ todos' = todos
      /\ cleared' = cleared
  BY DEF ClaudeStarted, storeVars, listVars, claudeVars
<1>4. PICK w \in Worktree : calls[c].ws = {w}
  <2>1. calls[c].at = "starting"
    BY DEF ClaudeStarted
  <2>2. calls[c].op \in {"wake", "create"}
    BY <2>1 DEF StagesOK
  <2> QED BY <2>2 DEF StagesOK, Request
<1>5. calls[c].at = "starting" /\ calls[c].s \in Session /\ home[calls[c].s] = {w}
  BY <1>4 DEF ClaudeStarted, HomesOK
<1>6. /\ \A u : Busy(u) => Busy(u)'
      /\ \A u : u # w => (Busy(u)' <=> Busy(u))
      /\ DOMAIN engine' = DOMAIN engine \cup {calls[c].s}
      /\ engine' \in UNION {[S -> SUBSET S] : S \in SUBSET Session}
  <2>1. engine' = [r \in DOMAIN engine \cup {calls[c].s} |->
                     IF r = calls[c].s THEN DOMAIN engine ELSE engine[r]]
    BY DEF ClaudeStarted
  <2> QED BY <1>3, <1>5, <2>1, StartedBusy
<1>7. TypeOK'
  <2>1. /\ known' = known /\ sig' = sig /\ noticed' = noticed /\ pane' = pane /\ left' = left
        /\ unsaid' = FALSE /\ failed' = failed
    BY DEF ClaudeStarted, Broadcasts, listVars
  <2>2. watch' \in [Session -> [polling : Nat, seen : Nat]]
    BY <1>5 DEF ClaudeStarted, Watches, TypeOK
  <2> QED BY <1>1, <1>3, <1>6, <2>1, <2>2 DEF TypeOK
<1>8. ListingsOK'
  BY <1>2, <1>3 DEF ListingsOK
<1>9. SeedOK'
  BY <1>2, <1>3, <1>6 DEF SeedOK
<1>10. WokenOK'
  BY <1>2, <1>3 DEF WokenOK
<1>11. TurnsOK'
  BY <1>2, <1>3 DEF TurnsOK
<1>12. StagesOK'
  BY <1>2 DEF StagesOK, Request
<1>13. HomesOK'
  BY <1>2, <1>3, <1>5, <1>6 DEF HomesOK
<1>14. AloneOK'
  BY <1>2 DEF AloneOK
<1>15. RemovingOK'
  <2> SUFFICES ASSUME NEW d \in Call, calls'[d].op = "remove", calls'[d].at \in {"killing", "clearing"},
                      calls'[d].alone, NEW u \in calls'[d].ws
               PROVE  ~Busy(u)'
    BY DEF RemovingOK
  <2>1. d # c /\ calls'[d] = calls[d]
    BY <1>2
  <2>2. calls[d].ws \cap calls[c].ws = {}
    BY <2>1 DEF AloneOK
  <2>3. u # w
    BY <2>1, <2>2, <1>4
  <2>4. ~Busy(u)
    BY <2>1 DEF RemovingOK
  <2> QED BY <2>3, <2>4, <1>6
<1>16. ClearedOK'
  BY <1>2, <1>3 DEF ClearedOK
<1>17. CacheFresh'
  BY <1>3 DEF CacheFresh
<1>18. WokenKept'
  BY <1>3 DEF WokenKept
<1>19. RemovedAlone'
  <2>1. w \notin cleared
    <3>1. calls[c].op # "close"
      BY <1>5 DEF StagesOK
    <3> QED BY <3>1, <1>4 DEF ClearedOK
  <2> QED BY <2>1, <1>3, <1>6 DEF RemovedAlone
<1> QED BY <1>7, <1>8, <1>9, <1>10, <1>11, <1>12, <1>13, <1>14, <1>15, <1>16, <1>17, <1>18, <1>19

LEMMA StartFailsOK ==
  ASSUME IInv, NEW c \in Call,
         StartFails(c)
  PROVE  IInv'
<1> USE DEF IInv
<1>1. calls' \in [Call -> Held] /\ (\A d \in Call : d # c => calls'[d] = calls[d])
     /\ calls'[c] = Idle
  BY DoneFacts DEF TypeOK, StartFails, Fails
<1>2. /\ (\A d \in Call : d # c => calls'[d] = calls[d])
      /\ calls'[c].op = "none" /\ calls'[c].ws = {} /\ calls'[c].at = "" /\ calls'[c].io = ""
  BY <1>1, IdleFacts
<1>3. /\ opened' = opened /\ disk' = disk /\ since' = since /\ recorded' = recorded
      /\ awake' = awake
      /\ woken' = woken /\ engine' = engine /\ home' = home /\ cache' = cache /\ turns' = turns
      /\ todos' = todos /\ cleared' = cleared
  BY DEF StartFails, Fails, Spends, storeVars, listVars, claudeVars
<1>4. \A u : Busy(u)' <=> Busy(u)
  BY <1>3 DEF Busy
<1>5. left' \in [Request \cup Outside -> Nat]
  BY DEF StartFails, Fails, Spends, TypeOK, Request, Outside
<1>6. TypeOK'
  BY <1>1, <1>5 DEF TypeOK, StartFails, Fails, storeVars, listVars, claudeVars
<1>7. ListingsOK'
  BY <1>2, <1>3 DEF ListingsOK
<1>8. SeedOK'
  BY <1>2, <1>3, <1>4 DEF SeedOK
<1>9. WokenOK'
  BY <1>2, <1>3 DEF WokenOK
<1>10. TurnsOK'
  BY <1>2, <1>3 DEF TurnsOK
<1>11. StagesOK'
  BY <1>2 DEF StagesOK, Request
<1>12. HomesOK'
  BY <1>2, <1>3 DEF HomesOK
<1>13. AloneOK'
  BY <1>2 DEF AloneOK
<1>14. RemovingOK'
  BY <1>2, <1>3, <1>4 DEF RemovingOK
<1>15. ClearedOK'
  BY <1>2, <1>3 DEF ClearedOK
<1>16. CacheFresh'
  BY <1>3 DEF CacheFresh
<1>17. WokenKept'
  BY <1>3 DEF WokenKept
<1>18. RemovedAlone'
  BY <1>3, <1>4 DEF RemovedAlone
<1> QED BY <1>6, <1>7, <1>8, <1>9, <1>10, <1>11, <1>12, <1>13, <1>14, <1>15, <1>16, <1>17, <1>18

LEMMA CreateInvalidatesOK ==
  ASSUME IInv, NEW c \in Call,
         CreateInvalidates(c)
  PROVE  IInv'
<1> USE DEF IInv
<1>1. Goes(c, "list") \in [Call -> Held] /\ \A d \in Call : d # c => Goes(c, "list")[d] = calls[d]
  BY GoesFacts DEF TypeOK, Stages
<1>2. calls' = Overtakes(Goes(c, "list"))
  BY DEF CreateInvalidates, Invalidates
<1>3. calls' \in [Call -> Held]
  BY <1>1, <1>2, OvertakesFacts
<1>4. cache' = {} /\ since' = {IF opened' THEN disk ELSE {}}
  BY DEF CreateInvalidates, Invalidates
<1>5. Goes(c, "list")[c].at = "list" /\ Goes(c, "list")[c].io = ""
     /\ Goes(c, "list")[c].op = calls[c].op /\ Goes(c, "list")[c].ws = calls[c].ws
     /\ Goes(c, "list")[c].alone = calls[c].alone
  BY GoesFacts DEF TypeOK, Stages
<1>6. \A d \in Call :
       /\ Overtakes(Goes(c, "list"))[d].op = Goes(c, "list")[d].op
       /\ Overtakes(Goes(c, "list"))[d].ws = Goes(c, "list")[d].ws
       /\ Overtakes(Goes(c, "list"))[d].at = Goes(c, "list")[d].at
       /\ Overtakes(Goes(c, "list"))[d].io = Goes(c, "list")[d].io
       /\ Overtakes(Goes(c, "list"))[d].list = Goes(c, "list")[d].list
       /\ Overtakes(Goes(c, "list"))[d].s = Goes(c, "list")[d].s
       /\ Overtakes(Goes(c, "list"))[d].alone = Goes(c, "list")[d].alone
       /\ Overtakes(Goes(c, "list"))[d].io # "" => Overtakes(Goes(c, "list"))[d].over
  BY <1>1, OvertakesFacts
<1>7. calls'[c].at = "list" /\ calls'[c].io = "" /\ calls'[c].op = calls[c].op
     /\ calls'[c].ws = calls[c].ws /\ calls'[c].alone = calls[c].alone
  BY <1>1, <1>2, <1>5, <1>6
<1>8. \A d \in Call : d # c =>
       calls'[d].op = calls[d].op /\ calls'[d].ws = calls[d].ws /\ calls'[d].at = calls[d].at
  BY <1>1, <1>2, <1>6
<1>9. \A d \in Call : d # c =>
       /\ calls'[d].io = calls[d].io /\ calls'[d].list = calls[d].list
       /\ calls'[d].io # "" => calls'[d].over
  BY <1>1, <1>2, <1>6
<1>10. \A d \in Call : d # c => calls'[d].s = calls[d].s
  BY <1>1, <1>2, <1>6
<1>11. \A d \in Call : d # c => calls'[d].alone = calls[d].alone
  BY <1>1, <1>2, <1>6
<1>12. /\ opened' = opened /\ disk' = disk /\ recorded' = recorded /\ awake' = awake
       /\ woken' = woken
       /\ engine' = engine /\ home' = home /\ turns' = turns /\ todos' = todos /\ cleared' = cleared
  BY DEF CreateInvalidates, storeVars, listVars, claudeVars
<1>13. \A u : Busy(u)' <=> Busy(u)
  BY <1>12 DEF Busy
<1>14. TypeOK'
  BY <1>3, <1>4 DEF TypeOK, CreateInvalidates, storeVars, listVars, claudeVars, AtMostOne
<1>15. ListingsOK'
  BY <1>4, <1>7, <1>9, <1>12 DEF ListingsOK
<1>16. SeedOK'
  BY <1>4, <1>7, <1>9, <1>12, <1>13 DEF SeedOK
<1>17. WokenOK'
  BY <1>7, <1>9, <1>12 DEF WokenOK
<1>18. TurnsOK'
  BY <1>7, <1>8, <1>12 DEF TurnsOK
<1>19. StagesOK'
  BY <1>7, <1>8 DEF StagesOK, Request
<1>20. HomesOK'
  BY <1>7, <1>8, <1>10, <1>12 DEF HomesOK
<1>21. AloneOK'
  BY <1>7, <1>8, <1>11, AloneKept
<1>22. RemovingOK'
  BY <1>7, <1>8, <1>11, <1>12, <1>13 DEF RemovingOK
<1>23. ClearedOK'
  BY <1>7, <1>8, <1>12 DEF ClearedOK
<1>24. CacheFresh'
  BY <1>4 DEF CacheFresh
<1>25. WokenKept'
  BY <1>12 DEF WokenKept
<1>26. RemovedAlone'
  BY <1>12, <1>13 DEF RemovedAlone
<1> QED BY <1>14, <1>15, <1>16, <1>17, <1>18, <1>19, <1>20, <1>21, <1>22, <1>23, <1>24, <1>25, <1>26

LEMMA RemoveRefusedOK ==
  ASSUME IInv, NEW c \in Call,
         RemoveRefused(c)
  PROVE  IInv'
<1> USE DEF IInv
<1>1. calls' \in [Call -> Held] /\ (\A d \in Call : d # c => calls'[d] = calls[d])
     /\ calls'[c] = Idle
  BY DoneFacts DEF TypeOK, RemoveRefused
<1>2. /\ (\A d \in Call : d # c => calls'[d] = calls[d])
      /\ calls'[c].op = "none" /\ calls'[c].ws = {} /\ calls'[c].at = "" /\ calls'[c].io = ""
  BY <1>1, IdleFacts
<1>3. /\ opened' = opened /\ disk' = disk /\ since' = since /\ recorded' = recorded
      /\ awake' = awake
      /\ woken' = woken /\ engine' = engine /\ home' = home /\ cache' = cache /\ turns' = turns
      /\ todos' = todos /\ cleared' = cleared
  BY DEF RemoveRefused, OnlyCalls, storeVars, listVars, claudeVars
<1>4. \A u : Busy(u)' <=> Busy(u)
  BY <1>3 DEF Busy
<1>5. TypeOK'
  BY <1>1 DEF TypeOK, RemoveRefused, OnlyCalls, storeVars, listVars, claudeVars
<1>6. ListingsOK'
  BY <1>2, <1>3 DEF ListingsOK
<1>7. SeedOK'
  BY <1>2, <1>3, <1>4 DEF SeedOK
<1>8. WokenOK'
  BY <1>2, <1>3 DEF WokenOK
<1>9. TurnsOK'
  BY <1>2, <1>3 DEF TurnsOK
<1>10. StagesOK'
  BY <1>2 DEF StagesOK, Request
<1>11. HomesOK'
  BY <1>2, <1>3 DEF HomesOK
<1>12. AloneOK'
  BY <1>2 DEF AloneOK
<1>13. RemovingOK'
  BY <1>2, <1>3, <1>4 DEF RemovingOK
<1>14. ClearedOK'
  BY <1>2, <1>3 DEF ClearedOK
<1>15. CacheFresh'
  BY <1>3 DEF CacheFresh
<1>16. WokenKept'
  BY <1>3 DEF WokenKept
<1>17. RemovedAlone'
  BY <1>3, <1>4 DEF RemovedAlone
<1> QED BY <1>5, <1>6, <1>7, <1>8, <1>9, <1>10, <1>11, <1>12, <1>13, <1>14, <1>15, <1>16, <1>17

LEMMA RemoveKillsOK ==
  ASSUME IInv, NEW c \in Call,
         RemoveKills(c)
  PROVE  IInv'
<1> USE DEF IInv
<1>1. "killing" \in Stages
  BY DEF Stages
<1>2. calls' \in [Call -> Held]
  BY <1>1, GoesFacts DEF TypeOK, RemoveKills
<1>3. /\ \A d \in Call : d # c => calls'[d] = calls[d]
      /\ calls'[c].at = "killing" /\ calls'[c].io = ""
      /\ calls'[c].op = calls[c].op /\ calls'[c].ws = calls[c].ws
  <2>1. calls' = Goes(c, "killing") /\ calls \in [Call -> Held]
    BY DEF TypeOK, RemoveKills
  <2> QED BY <1>1, <2>1, GoesFacts
<1>4. calls'[c].s = calls[c].s /\ calls'[c].alone = calls[c].alone
  BY <1>1, GoesFacts DEF TypeOK, RemoveKills
<1>5. /\ opened' = opened /\ disk' = disk /\ since' = since /\ recorded' = recorded
      /\ awake' = awake
      /\ home' = home /\ cache' = cache /\ turns' = turns /\ todos' = todos /\ cleared' = cleared
      /\ woken' = woken \ calls[c].ws
  BY DEF RemoveKills, storeVars, listVars
<1>6. Kills(calls[c].ws) /\ calls[c].op = "remove"
  BY DEF RemoveKills, StagesOK
<1>7. /\ \A u : Busy(u)' => Busy(u)
      /\ \A u \in calls[c].ws : ~Busy(u)'
      /\ \A u : u \notin calls[c].ws => (Busy(u)' <=> Busy(u))
      /\ DOMAIN engine' \subseteq DOMAIN engine
  BY <1>5, <1>6, KillsBusy DEF HomesOK
<1>8. TypeOK'
  <2>1. /\ engine' \in UNION {[S -> SUBSET S] : S \in SUBSET Session}
        /\ pane' \in [Session -> Panes]
    BY <1>6, KillsType
  <2>2. /\ known' = known /\ sig' = sig /\ noticed' = noticed /\ watch' = watch /\ left' = left
        /\ failed' = failed
    BY DEF RemoveKills, listVars
  <2>3. unsaid' \in BOOLEAN
    BY DEF RemoveKills, Silent
  <2> QED BY <1>2, <1>5, <2>1, <2>2, <2>3 DEF TypeOK
<1>9. ListingsOK'
  BY <1>3, <1>5 DEF ListingsOK
<1>10. SeedOK'
  BY <1>3, <1>5, <1>7 DEF SeedOK
<1>11. WokenOK'
  BY <1>3, <1>5 DEF WokenOK
<1>12. TurnsOK'
  BY <1>3, <1>5 DEF TurnsOK
<1>13. StagesOK'
  BY <1>3 DEF StagesOK, Request
<1>14. HomesOK'
  <2>1. calls'[c].at # "starting"
    BY <1>3
  <2> QED BY <2>1, <1>3, <1>5, <1>7 DEF HomesOK
<1>15. AloneOK'
  BY <1>3, <1>4, AloneKept
<1>16. RemovingOK'
  BY <1>3, <1>5, <1>7 DEF RemovingOK
<1>17. ClearedOK'
  BY <1>3, <1>5 DEF ClearedOK
<1>18. CacheFresh'
  BY <1>5 DEF CacheFresh
<1>19. WokenKept'
  BY <1>5 DEF WokenKept
<1>20. RemovedAlone'
  BY <1>5, <1>7 DEF RemovedAlone
<1> QED BY <1>8, <1>9, <1>10, <1>11, <1>12, <1>13, <1>14, <1>15, <1>16, <1>17, <1>18, <1>19, <1>20

LEMMA RemoveClearsOK ==
  ASSUME IInv, NEW c \in Call,
         RemoveClears(c)
  PROVE  IInv'
<1> USE DEF IInv
<1>1. Done(c) \in [Call -> Held] /\ Done(c)[c] = Idle /\ \A d \in Call : d # c => Done(c)[d] = calls[d]
  BY DoneFacts DEF TypeOK
<1>2. calls' = Overtakes(Done(c))
  BY DEF Invalidates, RemoveClears
<1>3. calls' \in [Call -> Held]
  BY <1>1, <1>2, OvertakesFacts
<1>4. cache' = {} /\ since' = {IF opened' THEN disk ELSE {}}
  BY DEF Invalidates, RemoveClears
<1>5. \A d \in Call :
       /\ Overtakes(Done(c))[d].op = Done(c)[d].op
       /\ Overtakes(Done(c))[d].ws = Done(c)[d].ws
       /\ Overtakes(Done(c))[d].at = Done(c)[d].at
       /\ Overtakes(Done(c))[d].io = Done(c)[d].io
       /\ Overtakes(Done(c))[d].list = Done(c)[d].list
       /\ Overtakes(Done(c))[d].s = Done(c)[d].s
       /\ Overtakes(Done(c))[d].alone = Done(c)[d].alone
       /\ Overtakes(Done(c))[d].io # "" => Overtakes(Done(c))[d].over
  BY <1>1, OvertakesFacts
<1>6. calls'[c].op = "none" /\ calls'[c].ws = {} /\ calls'[c].at = "" /\ calls'[c].io = ""
  BY <1>1, <1>2, <1>5, IdleFacts
<1>7. \A d \in Call : d # c =>
       calls'[d].op = calls[d].op /\ calls'[d].ws = calls[d].ws /\ calls'[d].at = calls[d].at
  BY <1>1, <1>2, <1>5
<1>8. \A d \in Call : d # c =>
       /\ calls'[d].io = calls[d].io /\ calls'[d].list = calls[d].list
       /\ calls'[d].io # "" => calls'[d].over
  BY <1>1, <1>2, <1>5
<1>9. \A d \in Call : d # c => calls'[d].s = calls[d].s
  BY <1>1, <1>2, <1>5
<1>10. \A d \in Call : d # c => calls'[d].alone = calls[d].alone
  BY <1>1, <1>2, <1>5
<1>11. /\ opened' = opened /\ disk' = disk /\ recorded' = recorded /\ engine' = engine
       /\ home' = home
       /\ turns' = turns
  BY DEF RemoveClears, claudeVars
<1>12. /\ calls[c].at = "clearing" /\ todos' = todos \ calls[c].ws
       /\ awake' = IF recorded THEN awake \ calls[c].ws ELSE awake
       /\ woken' = woken \ calls[c].ws
  BY DEF RemoveClears
<1>13. cleared' = IF calls[c].alone THEN cleared \cup calls[c].ws ELSE cleared
  BY DEF RemoveClears
<1>14. calls[c].op = "remove"
  BY <1>12 DEF StagesOK
<1>15. \A u : Busy(u)' <=> Busy(u)
  BY <1>11 DEF Busy
<1>16. TypeOK'
  <2>1. /\ known' = known /\ sig' = sig /\ noticed' = noticed /\ pane' = pane /\ watch' = watch
        /\ left' = left /\ unsaid' = FALSE /\ failed' = failed
    BY DEF RemoveClears, Broadcasts, claudeVars
  <2>2. calls[c].ws \subseteq Worktree
    BY DEF TypeOK, Held
  <2>3. cleared' \subseteq Worktree
    BY <1>13, <2>2 DEF TypeOK
  <2>4. since' \subseteq SUBSET Worktree /\ cache' \in AtMostOne
    BY <1>4, <1>11 DEF TypeOK, AtMostOne
  <2> QED BY <1>3, <1>11, <1>12, <2>1, <2>3, <2>4 DEF TypeOK
<1>17. ListingsOK'
  BY <1>4, <1>6, <1>8, <1>11 DEF ListingsOK
<1>18. SeedOK'
  BY <1>4, <1>6, <1>8, <1>11, <1>15, <1>12 DEF SeedOK
<1>19. WokenOK'
  BY <1>6, <1>8, <1>11, <1>12 DEF WokenOK
<1>20. TurnsOK'
  BY <1>6, <1>7, <1>11 DEF TurnsOK
<1>21. StagesOK'
  BY <1>6, <1>7 DEF StagesOK, Request
<1>22. HomesOK'
  BY <1>6, <1>7, <1>9, <1>11 DEF HomesOK
<1>23. AloneOK'
  BY <1>6, <1>7, <1>10 DEF AloneOK
<1>24. RemovingOK'
  BY <1>6, <1>7, <1>10, <1>11, <1>15 DEF RemovingOK
<1>25. ClearedOK'
  <2> SUFFICES ASSUME NEW d \in Call, calls'[d].op # "close"
               PROVE  calls'[d].ws \cap cleared' = {}
    BY DEF ClearedOK
  <2>1. CASE d = c
    BY <2>1, <1>6
  <2>2. CASE d # c
    <3>1. calls'[d].ws = calls[d].ws /\ calls[d].op # "close"
      BY <2>2, <1>7
    <3>2. calls[d].ws \cap cleared = {}
      BY <3>1 DEF ClearedOK
    <3>3. calls[c].alone => calls[c].ws \cap calls[d].ws = {}
      BY <2>2, <1>14 DEF AloneOK
    <3> QED BY <3>1, <3>2, <3>3, <1>13
  <2> QED BY <2>1, <2>2
<1>26. CacheFresh'
  BY <1>4 DEF CacheFresh
<1>27. WokenKept'
  BY <1>11, <1>12 DEF WokenKept
<1>28. RemovedAlone'
  <2> SUFFICES ASSUME NEW u \in cleared'
               PROVE  u \notin todos' /\ u \notin awake' /\ ~Busy(u)
    BY <1>15 DEF RemovedAlone
  <2>1. CASE u \in cleared
    BY <2>1, <1>12 DEF RemovedAlone
  <2>2. CASE u \notin cleared
    <3>1. calls[c].alone /\ u \in calls[c].ws
      BY <2>2, <1>13
    <3>2. ~Busy(u)
      BY <3>1, <1>12, <1>14 DEF RemovingOK
    <3>3. ~recorded => awake = {}
      BY DEF SeedOK
    <3> QED BY <3>1, <3>2, <3>3, <1>12
  <2> QED BY <2>1, <2>2
<1> QED BY <1>16, <1>17, <1>18, <1>19, <1>20, <1>21, <1>22, <1>23, <1>24, <1>25, <1>26, <1>27, <1>28

-----------------------------------------------------------------------------
(* Watchers of a refusal, the engine, and hands on the disk.               *)

LEMMA WatcherSeesOK ==
  ASSUME IInv, NEW s \in Session,
         WatcherSees(s)
  PROVE  IInv'
<1> USE DEF IInv
<1>1. /\ opened' = opened /\ disk' = disk /\ since' = since /\ recorded' = recorded
      /\ awake' = awake
      /\ woken' = woken /\ engine' = engine /\ home' = home /\ cache' = cache /\ turns' = turns
      /\ todos' = todos /\ cleared' = cleared /\ calls' = calls
  BY DEF WatcherSees, OnlyWatch, storeVars, listVars, claudeVars
<1>2. \A u : Busy(u)' <=> Busy(u)
  BY <1>1 DEF Busy
<1>3. TypeOK'
  BY DEF TypeOK, WatcherSees, OnlyWatch, storeVars, listVars, claudeVars
<1>4. ListingsOK'
  BY <1>1 DEF ListingsOK
<1>5. SeedOK'
  BY <1>1, <1>2 DEF SeedOK
<1>6. WokenOK'
  BY <1>1 DEF WokenOK
<1>7. TurnsOK'
  BY <1>1 DEF TurnsOK
<1>8. StagesOK'
  BY <1>1 DEF StagesOK, Request
<1>9. HomesOK'
  BY <1>1 DEF HomesOK
<1>10. AloneOK'
  BY <1>1 DEF AloneOK
<1>11. RemovingOK'
  BY <1>1, <1>2 DEF RemovingOK
<1>12. ClearedOK'
  BY <1>1 DEF ClearedOK
<1>13. CacheFresh'
  BY <1>1 DEF CacheFresh
<1>14. WokenKept'
  BY <1>1 DEF WokenKept
<1>15. RemovedAlone'
  BY <1>1, <1>2 DEF RemovedAlone
<1> QED BY <1>3, <1>4, <1>5, <1>6, <1>7, <1>8, <1>9, <1>10, <1>11, <1>12, <1>13, <1>14, <1>15

LEMMA WatcherEndsOK ==
  ASSUME IInv, NEW s \in Session,
         WatcherEnds(s)
  PROVE  IInv'
<1> USE DEF IInv
<1>1. /\ opened' = opened /\ disk' = disk /\ since' = since /\ recorded' = recorded
      /\ awake' = awake
      /\ woken' = woken /\ engine' = engine /\ home' = home /\ cache' = cache /\ turns' = turns
      /\ todos' = todos /\ cleared' = cleared /\ calls' = calls
  BY DEF WatcherEnds, OnlyWatch, storeVars, listVars, claudeVars
<1>2. \A u : Busy(u)' <=> Busy(u)
  BY <1>1 DEF Busy
<1>3. TypeOK'
  <2>1. watch' \in [Session -> [polling : Nat, seen : Nat]]
    BY DEF TypeOK, WatcherEnds
  <2>2. /\ known' = known /\ sig' = sig /\ noticed' = noticed /\ pane' = pane /\ left' = left
        /\ unsaid' = unsaid /\ failed' = failed
    BY DEF WatcherEnds, OnlyWatch, listVars
  <2> QED BY <1>1, <2>1, <2>2 DEF TypeOK
<1>4. ListingsOK'
  BY <1>1 DEF ListingsOK
<1>5. SeedOK'
  BY <1>1, <1>2 DEF SeedOK
<1>6. WokenOK'
  BY <1>1 DEF WokenOK
<1>7. TurnsOK'
  BY <1>1 DEF TurnsOK
<1>8. StagesOK'
  BY <1>1 DEF StagesOK, Request
<1>9. HomesOK'
  BY <1>1 DEF HomesOK
<1>10. AloneOK'
  BY <1>1 DEF AloneOK
<1>11. RemovingOK'
  BY <1>1, <1>2 DEF RemovingOK
<1>12. ClearedOK'
  BY <1>1 DEF ClearedOK
<1>13. CacheFresh'
  BY <1>1 DEF CacheFresh
<1>14. WokenKept'
  BY <1>1 DEF WokenKept
<1>15. RemovedAlone'
  BY <1>1, <1>2 DEF RemovedAlone
<1> QED BY <1>3, <1>4, <1>5, <1>6, <1>7, <1>8, <1>9, <1>10, <1>11, <1>12, <1>13, <1>14, <1>15

LEMMA NoticesOK ==
  ASSUME IInv, NEW s \in Session,
         Notices(s)
  PROVE  IInv'
<1> USE DEF IInv
<1>1. calls' \in [Call -> Held] /\ calls' = Overtakes(calls)
  BY OvertakesFacts DEF TypeOK, Invalidates, Notices
<1>2. cache' = {} /\ since' = {IF opened' THEN disk ELSE {}}
  BY DEF Invalidates, Notices
<1>3. \A d \in Call : 
       calls'[d].op = calls[d].op /\ calls'[d].ws = calls[d].ws /\ calls'[d].at = calls[d].at
  BY <1>1, OvertakesFacts DEF TypeOK
<1>4. \A d \in Call : 
       /\ calls'[d].io = calls[d].io /\ calls'[d].list = calls[d].list
       /\ calls'[d].io # "" => calls'[d].over
  BY <1>1, OvertakesFacts DEF TypeOK
<1>5. \A d \in Call :  calls'[d].s = calls[d].s
  BY <1>1, OvertakesFacts DEF TypeOK
<1>6. \A d \in Call :  calls'[d].alone = calls[d].alone
  BY <1>1, OvertakesFacts DEF TypeOK
<1>7. /\ opened' = opened /\ disk' = disk /\ recorded' = recorded /\ awake' = awake
      /\ woken' = woken
      /\ engine' = engine /\ home' = home /\ turns' = turns /\ todos' = todos /\ cleared' = cleared
  BY DEF Notices, storeVars, listVars, claudeVars
<1>8. \A u : Busy(u)' <=> Busy(u)
  BY <1>7 DEF Busy
<1>9. TypeOK'
  BY <1>1, <1>2 DEF TypeOK, Notices, storeVars, listVars, claudeVars, AtMostOne
<1>10. ListingsOK'
  BY <1>2, <1>4, <1>7 DEF ListingsOK
<1>11. SeedOK'
  BY <1>2, <1>4, <1>7, <1>8 DEF SeedOK
<1>12. WokenOK'
  BY <1>4, <1>7 DEF WokenOK
<1>13. TurnsOK'
  BY <1>3, <1>7 DEF TurnsOK
<1>14. StagesOK'
  BY <1>3 DEF StagesOK, Request
<1>15. HomesOK'
  BY <1>3, <1>5, <1>7 DEF HomesOK
<1>16. AloneOK'
  BY <1>3, <1>6 DEF AloneOK
<1>17. RemovingOK'
  BY <1>3, <1>6, <1>7, <1>8 DEF RemovingOK
<1>18. ClearedOK'
  BY <1>3, <1>7 DEF ClearedOK
<1>19. CacheFresh'
  BY <1>2 DEF CacheFresh
<1>20. WokenKept'
  BY <1>7 DEF WokenKept
<1>21. RemovedAlone'
  BY <1>7, <1>8 DEF RemovedAlone
<1> QED BY <1>9, <1>10, <1>11, <1>12, <1>13, <1>14, <1>15, <1>16, <1>17, <1>18, <1>19, <1>20, <1>21

LEMMA EndsOK ==
  ASSUME IInv, NEW s \in Session, NEW how \in {"refused", "exited"},
         Ends(s, how)
  PROVE  IInv'
<1> USE DEF IInv
<1>1. /\ opened' = opened /\ disk' = disk /\ since' = since /\ recorded' = recorded
      /\ awake' = awake
      /\ woken' = woken /\ engine' = engine /\ home' = home /\ cache' = cache /\ turns' = turns
      /\ todos' = todos /\ cleared' = cleared /\ calls' = calls
  BY DEF Ends, Spends, storeVars, listVars, claudeVars
<1>2. \A u : Busy(u)' <=> Busy(u)
  BY <1>1 DEF Busy
<1>3. left' \in [Request \cup Outside -> Nat]
  BY DEF Ends, Spends, TypeOK, Request, Outside
<1>4. TypeOK'
  BY <1>3 DEF TypeOK, Panes, Running, Ends, storeVars, listVars, claudeVars
<1>5. ListingsOK'
  BY <1>1 DEF ListingsOK
<1>6. SeedOK'
  BY <1>1, <1>2 DEF SeedOK
<1>7. WokenOK'
  BY <1>1 DEF WokenOK
<1>8. TurnsOK'
  BY <1>1 DEF TurnsOK
<1>9. StagesOK'
  BY <1>1 DEF StagesOK, Request
<1>10. HomesOK'
  BY <1>1 DEF HomesOK
<1>11. AloneOK'
  BY <1>1 DEF AloneOK
<1>12. RemovingOK'
  BY <1>1, <1>2 DEF RemovingOK
<1>13. ClearedOK'
  BY <1>1 DEF ClearedOK
<1>14. CacheFresh'
  BY <1>1 DEF CacheFresh
<1>15. WokenKept'
  BY <1>1 DEF WokenKept
<1>16. RemovedAlone'
  BY <1>1, <1>2 DEF RemovedAlone
<1> QED BY <1>4, <1>5, <1>6, <1>7, <1>8, <1>9, <1>10, <1>11, <1>12, <1>13, <1>14, <1>15, <1>16

LEMMA HandOK ==
  ASSUME IInv, NEW w \in Worktree,
         Hand(w)
  PROVE  IInv'
<1> USE DEF IInv
<1>1. /\ opened' = opened /\ recorded' = recorded /\ awake' = awake /\ engine' = engine
      /\ home' = home
      /\ cache' = cache /\ turns' = turns /\ todos' = todos /\ cleared' = cleared /\ calls' = calls
  BY DEF Hand, Spends, storeVars, listVars, claudeVars
<1>2. \A u : Busy(u)' <=> Busy(u)
  BY <1>1 DEF Busy
<1>3. left' \in [Request \cup Outside -> Nat]
  BY DEF Hand, Spends, TypeOK, Request, Outside
<1>4. TypeOK'
  BY <1>3 DEF TypeOK, Hand, storeVars, listVars, claudeVars
<1>5. ListingsOK'
  BY <1>1 DEF ListingsOK, Hand, Spends
<1>6. SeedOK'
  BY <1>1, <1>2 DEF SeedOK, Hand, Spends
<1>7. WokenOK'
  BY <1>1 DEF WokenOK, Hand, Spends
<1>8. TurnsOK'
  BY <1>1 DEF TurnsOK
<1>9. StagesOK'
  BY <1>1 DEF StagesOK, Request
<1>10. HomesOK'
  BY <1>1 DEF HomesOK
<1>11. AloneOK'
  BY <1>1 DEF AloneOK
<1>12. RemovingOK'
  BY <1>1, <1>2 DEF RemovingOK
<1>13. ClearedOK'
  BY <1>1 DEF ClearedOK
<1>14. CacheFresh'
  BY <1>1 DEF CacheFresh, Hand
<1>15. WokenKept'
  BY <1>1 DEF WokenKept, Hand, Spends
<1>16. RemovedAlone'
  BY <1>1, <1>2 DEF RemovedAlone
<1> QED BY <1>4, <1>5, <1>6, <1>7, <1>8, <1>9, <1>10, <1>11, <1>12, <1>13, <1>14, <1>15, <1>16

-----------------------------------------------------------------------------
(* A request has its listing.                                              *)

\* What a request has for a listing, and what it leaves cached.
LEMMA ListsFacts ==
  ASSUME IInv, NEW c \in Call, NEW L, Lists(c, L)
  PROVE  L \in SUBSET Worktree /\ (~recorded => woken \subseteq L)
<1>1. cache = {L} \/ (calls[c].io = "landed" /\ L = calls[c].list)
  BY DEF Lists
<1>2. calls[c].list \in SUBSET Worktree
  BY DEF IInv, TypeOK, Held
<1>3. cache = {L} => L \in SUBSET Worktree
  <2> SUFFICES ASSUME cache = {L} PROVE L \in SUBSET Worktree
    OBVIOUS
  <2>1. PICK M \in SUBSET Worktree : cache = {M}
    BY DEF IInv, TypeOK, AtMostOne
  <2> QED BY <2>1
<1> QED BY <1>1, <1>2, <1>3 DEF IInv, SeedOK

LEMMA CachesFacts ==
  ASSUME IInv, NEW c \in Call
  PROVE  /\ Caches(c) \in AtMostOne
         /\ Caches(c) \subseteq since
         /\ ~recorded => \A L \in Caches(c) : woken \subseteq L
<1>1. calls[c].list \in SUBSET Worktree
  BY DEF IInv, TypeOK, Held
<1>2. CASE calls[c].io = "landed" /\ ~calls[c].over
  BY <1>1, <1>2 DEF Caches, IInv, SeedOK, ListingsOK, AtMostOne
<1>3. CASE ~(calls[c].io = "landed" /\ ~calls[c].over)
  <2>1. Caches(c) = cache
    BY <1>3 DEF Caches
  <2> QED BY <2>1 DEF IInv, TypeOK, SeedOK, CacheFresh
<1> QED BY <1>2, <1>3

\* What a request that has its listing leaves alone, and what it may add.
Listed(c) ==
  /\ cache' = Caches(c)
  /\ UNCHANGED <<opened, awake, recorded, since, woken, disk, known, claudeVars, failed, cleared,
                 left>>

Added(c) ==
  /\ todos' = todos \/ (todos' = todos \cup calls[c].ws /\ calls[c].op # "close")
  /\ turns' = turns
  /\ sig' \in AtMostOne
  /\ unsaid' \in BOOLEAN

\* A request that is over once it has its listing: at most a todo is added.
LEMMA ListedDone ==
  ASSUME IInv, NEW c \in Call, Listed(c), Added(c), calls' = Done(c)
  PROVE  IInv'
<1> USE DEF IInv
<1>1. calls' \in [Call -> Held] /\ calls'[c] = Idle
  BY DoneFacts DEF TypeOK
<1>2. \A d \in Call : d # c => calls'[d] = calls[d]
  BY DoneFacts DEF TypeOK
<1>3. calls'[c].op = "none" /\ calls'[c].ws = {} /\ calls'[c].at = "" /\ calls'[c].io = ""
  BY <1>1, IdleFacts
<1>4. /\ opened' = opened /\ disk' = disk /\ since' = since /\ recorded' = recorded
      /\ awake' = awake
      /\ woken' = woken /\ engine' = engine /\ home' = home /\ turns' = turns /\ cleared' = cleared
      /\ known' = known /\ pane' = pane /\ noticed' = noticed /\ watch' = watch /\ left' = left
      /\ failed' = failed
  BY DEF Listed, Added, claudeVars
<1>5. \A u : Busy(u)' <=> Busy(u)
  BY <1>4 DEF Busy
<1>6. cache' \subseteq since /\ (~recorded => \A L \in cache' : woken \subseteq L)
  BY CachesFacts DEF Listed
<1>7. TypeOK'
  <2>1. todos' \subseteq Worktree
    BY DEF TypeOK, Held, Added
  <2>2. cache' \in AtMostOne /\ sig' \in AtMostOne /\ unsaid' \in BOOLEAN
    BY CachesFacts DEF Listed, Added
  <2> QED BY <1>1, <1>4, <2>1, <2>2 DEF TypeOK
<1>8. ListingsOK'
  BY <1>2, <1>3, <1>4 DEF ListingsOK
<1>9. SeedOK'
  BY <1>2, <1>3, <1>4, <1>5, <1>6 DEF SeedOK
<1>10. WokenOK'
  BY <1>2, <1>3, <1>4 DEF WokenOK
<1>11. TurnsOK'
  BY <1>2, <1>3, <1>4 DEF TurnsOK
<1>12. StagesOK'
  BY <1>2, <1>3 DEF StagesOK, Request
<1>13. HomesOK'
  BY <1>2, <1>3, <1>4 DEF HomesOK
<1>14. AloneOK'
  BY <1>2, <1>3 DEF AloneOK
<1>15. RemovingOK'
  BY <1>2, <1>3, <1>4, <1>5 DEF RemovingOK
<1>16. ClearedOK'
  BY <1>2, <1>3, <1>4 DEF ClearedOK
<1>17. CacheFresh'
  BY <1>4, <1>6 DEF CacheFresh
<1>18. WokenKept'
  BY <1>4 DEF WokenKept
<1>19. RemovedAlone'
  <2>1. \A u \in cleared : u \notin todos'
    BY DEF RemovedAlone, ClearedOK, Added
  <2> QED BY <2>1, <1>4, <1>5 DEF RemovedAlone
<1> QED BY <1>7, <1>8, <1>9, <1>10, <1>11, <1>12, <1>13, <1>14, <1>15, <1>16, <1>17, <1>18, <1>19

LEMMA RemoveChecksOK ==
  ASSUME IInv, NEW c \in Call, NEW L, Listed(c), RemoveChecks(c, L)
  PROVE  IInv'
<1> USE DEF IInv
<1>1. calls' = Goes(c, "checking") /\ calls \in [Call -> Held] /\ "checking" \in Stages
  BY DEF TypeOK, RemoveChecks, Stages
<1>2. calls' \in [Call -> Held] /\ \A d \in Call : d # c => calls'[d] = calls[d]
  BY <1>1, GoesFacts
<1>3. /\ calls'[c].at = "checking" /\ calls'[c].io = ""
      /\ calls'[c].op = calls[c].op /\ calls'[c].ws = calls[c].ws
  BY <1>1, GoesFacts
<1>4. calls'[c].alone = calls[c].alone
  BY <1>1, GoesFacts
<1>5. calls[c].op = "remove" /\ turns' = turns /\ todos' = todos /\ sig' = sig /\ unsaid' = unsaid
  BY DEF RemoveChecks, storeVars
<1>6. /\ opened' = opened /\ disk' = disk /\ since' = since /\ recorded' = recorded
      /\ awake' = awake
      /\ woken' = woken /\ engine' = engine /\ home' = home /\ cleared' = cleared
      /\ known' = known /\ pane' = pane /\ noticed' = noticed /\ watch' = watch /\ left' = left
      /\ failed' = failed
  BY DEF Listed, claudeVars
<1>7. \A u : Busy(u)' <=> Busy(u)
  BY <1>6 DEF Busy
<1>8. cache' \subseteq since /\ (~recorded => \A l \in cache' : woken \subseteq l)
  BY CachesFacts DEF Listed
<1>9. TypeOK'
  <2>1. cache' \in AtMostOne
    BY CachesFacts DEF Listed
  <2> QED BY <1>2, <1>6, <1>5, <2>1 DEF TypeOK
<1>10. ListingsOK'
  BY <1>2, <1>3, <1>6 DEF ListingsOK
<1>11. SeedOK'
  BY <1>2, <1>3, <1>6, <1>7, <1>8 DEF SeedOK
<1>12. WokenOK'
  BY <1>2, <1>3, <1>6 DEF WokenOK
<1>13. TurnsOK'
  BY <1>2, <1>3, <1>6, <1>5 DEF TurnsOK
<1>14. StagesOK'
  BY <1>2, <1>3, <1>5 DEF StagesOK
<1>15. HomesOK'
  BY <1>2, <1>3, <1>6 DEF HomesOK
<1>16. AloneOK'
  BY <1>2, <1>3, <1>4, AloneKept
<1>17. RemovingOK'
  BY <1>2, <1>3, <1>6, <1>7 DEF RemovingOK
<1>18. ClearedOK'
  BY <1>2, <1>3, <1>6 DEF ClearedOK
<1>19. CacheFresh'
  BY <1>6, <1>8 DEF CacheFresh
<1>20. WokenKept'
  BY <1>6 DEF WokenKept
<1>21. RemovedAlone'
  BY <1>6, <1>7, <1>5 DEF RemovedAlone
<1> QED BY <1>9, <1>10, <1>11, <1>12, <1>13, <1>14, <1>15, <1>16, <1>17, <1>18, <1>19, <1>20, <1>21

\* A request that changes awake takes its place; one that closes learns what it
\* is about.
LEMMA QueuesOK ==
  ASSUME IInv, NEW c \in Call, NEW L \in SUBSET Worktree, Listed(c), Queues(c, L),
         calls[c].at = "list"
  PROVE  IInv'
<1> USE DEF IInv
<1>1. /\ calls' = [Goes(c, "turn") EXCEPT ![c].ws = IF calls[c].op = "close" THEN L ELSE @]
      /\ calls \in [Call -> Held] /\ "turn" \in Stages
  BY DEF TypeOK, Queues, Stages
<1>2. /\ Goes(c, "turn") \in [Call -> Held] /\ Goes(c, "turn")[c] \in Held
      /\ \A d \in Call : d # c => Goes(c, "turn")[d] = calls[d]
  BY <1>1, GoesFacts
<1>3. /\ Goes(c, "turn")[c].at = "turn" /\ Goes(c, "turn")[c].io = ""
      /\ Goes(c, "turn")[c].op = calls[c].op /\ Goes(c, "turn")[c].ws = calls[c].ws
  BY <1>1, GoesFacts
<1>4. Goes(c, "turn")[c].alone = calls[c].alone
  BY <1>1, GoesFacts
<1>5. calls'[c] = [Goes(c, "turn")[c] EXCEPT !.ws = IF calls[c].op = "close" THEN L ELSE calls[c].ws]
  BY <1>1, <1>2, <1>3
<1>6. calls'[c] \in Held /\ \A d \in Call : d # c => calls'[d] = calls[d]
  <2>1. calls[c].ws \in SUBSET Worktree
    BY <1>1 DEF Held
  <2>2. calls'[c] \in Held
    BY <1>2, <1>5, <2>1 DEF Held
  <2> QED BY <1>1, <1>2, <2>2
<1>7. calls' \in [Call -> Held] /\ \A d \in Call : d # c => calls'[d] = calls[d]
  BY <1>1, <1>2, <1>6
<1>8. /\ calls'[c].at = "turn" /\ calls'[c].io = ""
      /\ calls'[c].op = calls[c].op
      /\ calls[c].op # "close" => calls'[c].ws = calls[c].ws
  BY <1>2, <1>3, <1>5 DEF Held
<1>9. calls'[c].alone = calls[c].alone
  BY <1>2, <1>4, <1>5 DEF Held
<1>10. /\ turns' = Append(turns, c) /\ todos' = todos /\ sig' = sig /\ unsaid' = unsaid
       /\ calls[c].op \notin {"none", "poll"}
  BY DEF Queues, storeVars
<1>11. /\ opened' = opened /\ disk' = disk /\ since' = since /\ recorded' = recorded
       /\ awake' = awake
       /\ woken' = woken /\ engine' = engine /\ home' = home /\ cleared' = cleared
       /\ known' = known /\ pane' = pane /\ noticed' = noticed /\ watch' = watch /\ left' = left
       /\ failed' = failed
  BY DEF Listed, claudeVars
<1>12. \A u : Busy(u)' <=> Busy(u)
  BY <1>11 DEF Busy
<1>13. cache' \subseteq since /\ (~recorded => \A l \in cache' : woken \subseteq l)
  BY CachesFacts DEF Listed
<1>14. TypeOK'
  <2>1. cache' \in AtMostOne
    BY CachesFacts DEF Listed
  <2>2. turns' \in Seq(Call)
    BY <1>10 DEF TypeOK
  <2> QED BY <1>7, <1>11, <1>10, <2>1, <2>2 DEF TypeOK
<1>15. ListingsOK'
  BY <1>7, <1>8, <1>11 DEF ListingsOK
<1>16. SeedOK'
  BY <1>7, <1>8, <1>11, <1>12, <1>13 DEF SeedOK
<1>17. WokenOK'
  BY <1>7, <1>8, <1>11 DEF WokenOK
<1>18. TurnsOK'
  <2> SUFFICES ASSUME NEW d \in Call, calls'[d].at = "seed"
               PROVE  ~recorded' /\ turns' # <<>> /\ Head(turns') = d
    BY DEF TurnsOK
  <2>1. d # c /\ calls[d].at = "seed"
    BY <1>7, <1>8
  <2>2. ~recorded /\ turns # <<>> /\ Head(turns) = d
    BY <2>1 DEF TurnsOK
  <2>3. Append(turns, c) # <<>> /\ Head(Append(turns, c)) = Head(turns)
    BY <2>2 DEF TypeOK
  <2> QED BY <2>2, <2>3, <1>11, <1>10
<1>19. StagesOK'
  BY <1>7, <1>8, <1>10 DEF StagesOK, Request
<1>20. HomesOK'
  BY <1>7, <1>8, <1>11 DEF HomesOK
<1>21. AloneOK'
  <2> SUFFICES ASSUME NEW x \in Call, NEW y \in Call, x # y, calls'[x].alone, calls'[x].op # "close"
               PROVE  /\ calls'[x].ws \cap calls'[y].ws = {}
                      /\ calls'[y].op = "close" => calls'[x].ws = {}
    BY DEF AloneOK
  <2>1. calls[x].alone /\ calls[x].op # "close" /\ calls'[x].ws = calls[x].ws
    BY <1>7, <1>8, <1>9
  <2>2. calls'[y].op = calls[y].op /\ (calls[y].op # "close" => calls'[y].ws = calls[y].ws)
    BY <1>7, <1>8
  <2>3. calls[x].ws \cap calls[y].ws = {} /\ (calls[y].op = "close" => calls[x].ws = {})
    BY <2>1 DEF AloneOK
  <2> QED BY <2>1, <2>2, <2>3
<1>22. RemovingOK'
  BY <1>7, <1>8, <1>11, <1>12 DEF RemovingOK
<1>23. ClearedOK'
  BY <1>7, <1>8, <1>11 DEF ClearedOK
<1>24. CacheFresh'
  BY <1>11, <1>13 DEF CacheFresh
<1>25. WokenKept'
  BY <1>11 DEF WokenKept
<1>26. RemovedAlone'
  BY <1>11, <1>12, <1>10 DEF RemovedAlone
<1> QED BY <1>14, <1>15, <1>16, <1>17, <1>18, <1>19, <1>20, <1>21, <1>22, <1>23, <1>24, <1>25, <1>26

LEMMA HasListingOK ==
  ASSUME IInv, NEW c \in Call, HasListing(c)
  PROVE  IInv'
<1>1. PICK L \in SUBSET Worktree :
        /\ Lists(c, L)
        /\ \/ /\ \/ PollEnds(c, L) \/ NotFound(c, L) \/ TodoAdded(c, L)
                 \/ Queues(c, L) \/ RemoveChecks(c, L)
              /\ cache' = Caches(c)
              /\ UNCHANGED woken
           \/ ClosesAwake(c, L)
  BY DEF HasListing
<1>2. calls[c].at = "list" /\ UNCHANGED <<disk, known, claudeVars, failed, cleared, left>>
  BY DEF HasListing
<1>3. CASE PollEnds(c, L) /\ cache' = Caches(c) /\ UNCHANGED woken
  <2>1. Listed(c)
    BY <1>2, <1>3 DEF Listed, PollEnds, storeVars
  <2>2. Added(c)
    BY <1>3 DEF Added, PollEnds, storeVars, AtMostOne
  <2>3. calls' = Done(c)
    BY <1>3 DEF PollEnds
  <2> QED BY <2>1, <2>2, <2>3, ListedDone
<1>4. CASE NotFound(c, L) /\ cache' = Caches(c) /\ UNCHANGED woken
  <2>1. Listed(c)
    BY <1>2, <1>4 DEF Listed, NotFound, storeVars
  <2>2. Added(c)
    BY <1>4 DEF Added, NotFound, storeVars, IInv, TypeOK
  <2>3. calls' = Done(c)
    BY <1>4 DEF NotFound
  <2> QED BY <2>1, <2>2, <2>3, ListedDone
<1>5. CASE TodoAdded(c, L) /\ cache' = Caches(c) /\ UNCHANGED woken
  <2>1. Listed(c)
    BY <1>2, <1>5 DEF Listed, TodoAdded
  <2>2. Added(c)
    BY <1>5 DEF Added, TodoAdded, Broadcasts, IInv, TypeOK
  <2>3. calls' = Done(c)
    BY <1>5 DEF TodoAdded
  <2> QED BY <2>1, <2>2, <2>3, ListedDone
<1>6. CASE Queues(c, L) /\ cache' = Caches(c) /\ UNCHANGED woken
  <2>1. Listed(c)
    BY <1>2, <1>6 DEF Listed, Queues, storeVars
  <2> QED BY <2>1, <1>2, <1>6, QueuesOK
<1>7. CASE RemoveChecks(c, L) /\ cache' = Caches(c) /\ UNCHANGED woken
  <2>1. Listed(c)
    BY <1>2, <1>7 DEF Listed, RemoveChecks, storeVars
  <2> QED BY <2>1, <1>7, RemoveChecksOK
<1>8. CASE ClosesAwake(c, L)
  <2>1. Closes(c, L) /\ ClosesOnly
    BY <1>2, <1>8 DEF ClosesAwake, ClosesOnly
  <2> QED BY <2>1, ClosesOK
<1> QED BY <1>1, <1>3, <1>4, <1>5, <1>6, <1>7, <1>8

-----------------------------------------------------------------------------
(* A request has its turn.                                                 *)

\* What a change of the awake list writes: what was woken stays marked, on the
\* disk and in every listing git has read; nothing removed alone is marked.
LEMMA WritesFacts ==
  ASSUME IInv, NEW c \in Call, WritesAwake(c)
  PROVE  /\ recorded' /\ turns' = Tail(turns) /\ turns # <<>> /\ Head(turns) = c
         /\ awake' \subseteq Worktree /\ woken' \subseteq Worktree
         /\ woken' \subseteq awake' /\ woken' \subseteq disk
         /\ \A d \in Call : calls[d].io = "read" => woken' \subseteq calls[d].list
         /\ awake' \cap cleared = {}
         /\ calls[c].at \in {"turn", "seed"}
<1> USE DEF IInv
<1>1. calls[c].ws \in SUBSET Worktree
  BY DEF TypeOK, Held
<1>2. PICK current \in SUBSET Worktree :
        /\ Writes(c, current) /\ woken \subseteq current /\ current \cap cleared = {}
        /\ calls[c].at \in {"turn", "seed"} /\ turns # <<>> /\ Head(turns) = c
  <2>1. CASE calls[c].at = "turn"
    <3>1. IsTurnOf(c) /\ recorded /\ Writes(c, awake)
      BY <2>1 DEF WritesAwake
    <3>2. woken \subseteq awake /\ awake \cap cleared = {} /\ awake \in SUBSET Worktree
      BY <3>1 DEF WokenKept, RemovedAlone, TypeOK
    <3> QED BY <2>1, <3>1, <3>2 DEF IsTurnOf
  <2>2. CASE calls[c].at # "turn"
    <3>1. calls[c].at = "seed" /\ \E L \in SUBSET Worktree : Lists(c, L) /\ Writes(c, {w \in L : IsAwake(w)})
      BY <2>2 DEF WritesAwake
    <3>2. PICK L \in SUBSET Worktree : Lists(c, L) /\ Writes(c, {w \in L : IsAwake(w)})
      BY <3>1
    <3>3. ~recorded /\ turns # <<>> /\ Head(turns) = c
      BY <3>1 DEF TurnsOK
    <3>4. woken \subseteq L /\ \A w \in woken : Busy(w)
      BY <3>2, <3>3, ListsFacts DEF SeedOK
    <3>5. \A w \in cleared : ~Busy(w)
      BY DEF RemovedAlone
    <3> DEFINE cur == {w \in L : IsAwake(w)}
    <3>6. cur \in SUBSET Worktree /\ woken \subseteq cur /\ cur \cap cleared = {}
      BY <3>3, <3>4, <3>5 DEF IsAwake
    <3> HIDE DEF cur
    <3> QED BY <3>1, <3>2, <3>3, <3>6 DEF cur
  <2> QED BY <2>1, <2>2
<1>3. /\ awake' = IF Wakes(c) THEN current \cup calls[c].ws ELSE current \ calls[c].ws
      /\ woken' = IF Wakes(c) THEN woken \cup ((calls[c].ws \cap disk) \ Doubted)
                              ELSE woken \ calls[c].ws
      /\ recorded' /\ turns' = Tail(turns)
  BY <1>2 DEF Writes
<1>4. \A d \in Call : calls[d].io = "read" => \A w \in Worktree : w \notin Doubted => w \in calls[d].list
  BY DEF Doubted
<1>5. awake' \subseteq Worktree /\ woken' \subseteq disk /\ woken' \subseteq Worktree
  BY <1>1, <1>2, <1>3 DEF WokenOK, TypeOK
<1>6. \A d \in Call : calls[d].io = "read" => woken' \subseteq calls[d].list
  BY <1>1, <1>3, <1>4 DEF WokenOK
<1>7. woken' \subseteq awake'
  BY <1>2, <1>3
<1>8. awake' \cap cleared = {}
  <2>1. Wakes(c) => calls[c].ws \cap cleared = {}
    BY DEF Wakes, ClearedOK
  <2> QED BY <1>2, <1>3, <2>1
<1> QED BY <1>2, <1>3, <1>5, <1>6, <1>7, <1>8

\* What becomes of a request once it has written: it is done, it goes on to
\* start a Claude, or it has killed those it puts to sleep.
GoesOn(c) ==
  \/ calls' = Done(c)
  \/ /\ calls[c].op \in {"wake", "create"}
     /\ \/ calls' = Goes(c, "args")
        \/ \E s \in Session : calls' = [Goes(c, "args") EXCEPT ![c].s = s]
  \/ /\ calls[c].op \in {"sleep", "close"}
     /\ calls' = Goes(c, "killing")

LEMMA GoesOnFacts ==
  ASSUME IInv, NEW c \in Call, GoesOn(c)
  PROVE  /\ calls' \in [Call -> Held]
         /\ \A d \in Call : d # c => calls'[d] = calls[d]
         /\ calls'[c].io = "" /\ calls'[c].at \in {"", "args", "killing"}
         /\ \/ calls'[c].op = "none" /\ calls'[c].ws = {} /\ calls'[c].at = ""
            \/ /\ calls'[c].op = calls[c].op /\ calls'[c].ws = calls[c].ws
               /\ calls'[c].at = "args" => calls[c].op \in {"wake", "create"}
               /\ calls'[c].op # "remove"
<1>1. calls \in [Call -> Held] /\ "args" \in Stages /\ "killing" \in Stages
  BY DEF IInv, TypeOK, Stages
<1>2. CASE calls' = Done(c)
  BY <1>1, <1>2, DoneFacts, IdleFacts
<1>3. CASE calls[c].op \in {"wake", "create"} /\ calls' = Goes(c, "args")
  BY <1>1, <1>3, GoesFacts
<1>4. ASSUME calls[c].op \in {"wake", "create"}, NEW s \in Session,
             calls' = [Goes(c, "args") EXCEPT ![c].s = s]
      PROVE  /\ calls' \in [Call -> Held]
             /\ \A d \in Call : d # c => calls'[d] = calls[d]
             /\ calls'[c].io = "" /\ calls'[c].at = "args"
             /\ calls'[c].op = calls[c].op /\ calls'[c].ws = calls[c].ws
  <2> DEFINE G == Goes(c, "args")
  <2>1. /\ G \in [Call -> Held] /\ G[c].at = "args" /\ G[c].io = ""
        /\ G[c].op = calls[c].op /\ G[c].ws = calls[c].ws
        /\ \A d \in Call : d # c => G[d] = calls[d]
    BY <1>1, GoesFacts
  <2>2. calls' = [G EXCEPT ![c] = [G[c] EXCEPT !.s = s]]
    BY <1>4
  <2> HIDE DEF G
  <2>3. [G[c] EXCEPT !.s = s] \in Held
    BY <2>1 DEF Held
  <2> QED BY <2>1, <2>2, <2>3 DEF Held
<1>5. CASE calls[c].op \in {"sleep", "close"} /\ calls' = Goes(c, "killing")
  BY <1>1, <1>5, GoesFacts
<1> QED BY <1>2, <1>3, <1>4, <1>5 DEF GoesOn

LEMMA GoesOnAlone ==
  ASSUME IInv, NEW c \in Call, GoesOn(c)
  PROVE  calls'[c].op = "none" \/ calls'[c].alone = calls[c].alone
<1>1. calls \in [Call -> Held] /\ "args" \in Stages /\ "killing" \in Stages
  BY DEF IInv, TypeOK, Stages
<1>2. CASE calls' = Done(c)
  BY <1>1, <1>2, DoneFacts, IdleFacts
<1>3. ASSUME NEW stage \in Stages, calls' = Goes(c, stage)
      PROVE  calls'[c].alone = calls[c].alone
  BY <1>1, <1>3, GoesFacts
<1>4. ASSUME NEW s \in Session, calls' = [Goes(c, "args") EXCEPT ![c].s = s]
      PROVE  calls'[c].alone = calls[c].alone
  <2> DEFINE G == Goes(c, "args")
  <2>1. G \in [Call -> Held] /\ G[c].alone = calls[c].alone
    BY <1>1, GoesFacts
  <2>2. calls' = [G EXCEPT ![c] = [G[c] EXCEPT !.s = s]]
    BY <1>4
  <2> HIDE DEF G
  <2> QED BY <2>1, <2>2 DEF Held
<1>5. CASE calls' = Goes(c, "args") \/ calls' = Goes(c, "killing")
  BY <1>1, <1>3, <1>5
<1> QED BY <1>2, <1>4, <1>5 DEF GoesOn

\* The sessions of what it writes about are killed, or none is.
LEMMA TakesTurnStep ==
  ASSUME NEW c \in Call, TakesTurn(c)
  PROVE  /\ WritesAwake(c) /\ GoesOn(c)
         /\ (UNCHANGED <<engine, pane>>) \/ Kills(calls[c].ws)
         /\ unsaid' \in BOOLEAN
<1>1. CASE WakeLooks(c)
  BY <1>1 DEF TakesTurn, WakeLooks, GoesOn, LeavesAlone, Broadcasts, Silent
<1>2. CASE CreateGoesOn(c)
  BY <1>2 DEF TakesTurn, CreateGoesOn, GoesOn, Broadcasts, Silent
<1>3. CASE SleepKills(c)
  BY <1>3 DEF TakesTurn, SleepKills, GoesOn, Broadcasts, Silent
<1> QED BY <1>1, <1>2, <1>3 DEF TakesTurn

LEMMA TakesTurnOK ==
  ASSUME IInv, NEW c \in Call, TakesTurn(c)
  PROVE  IInv'
<1> USE DEF IInv
<1>1. /\ calls' \in [Call -> Held]
      /\ \A d \in Call : d # c => calls'[d] = calls[d]
      /\ calls'[c].io = "" /\ calls'[c].at \in {"", "args", "killing"}
      /\ \/ calls'[c].op = "none" /\ calls'[c].ws = {} /\ calls'[c].at = ""
         \/ /\ calls'[c].op = calls[c].op /\ calls'[c].ws = calls[c].ws
            /\ calls'[c].at = "args" => calls[c].op \in {"wake", "create"}
            /\ calls'[c].op # "remove"
  BY TakesTurnStep, GoesOnFacts
<1>2. calls'[c].op = "none" \/ calls'[c].alone = calls[c].alone
  BY TakesTurnStep, GoesOnAlone
<1>3. /\ recorded' /\ turns' = Tail(turns) /\ turns # <<>> /\ Head(turns) = c
      /\ awake' \subseteq Worktree /\ woken' \subseteq Worktree
      /\ woken' \subseteq awake' /\ woken' \subseteq disk
      /\ \A d \in Call : calls[d].io = "read" => woken' \subseteq calls[d].list
      /\ awake' \cap cleared = {}
  BY TakesTurnStep, WritesFacts
<1>4. /\ opened' = opened /\ disk' = disk /\ since' = since /\ home' = home /\ cleared' = cleared
      /\ known' = known /\ noticed' = noticed /\ watch' = watch /\ left' = left
      /\ failed' = failed /\ sig' = sig /\ todos' = todos /\ cache' = Caches(c)
  BY DEF TakesTurn
<1>5. /\ \A u : Busy(u)' => Busy(u)
      /\ DOMAIN engine' \subseteq DOMAIN engine
      /\ engine' \in UNION {[S -> SUBSET S] : S \in SUBSET Session}
      /\ pane' \in [Session -> Panes]
  <2>1. CASE UNCHANGED <<engine, pane>>
    BY <2>1, <1>4 DEF TypeOK, Busy
  <2>2. CASE Kills(calls[c].ws)
    BY <2>2, <1>4, KillsBusy, KillsType DEF HomesOK
  <2> QED BY <2>1, <2>2, TakesTurnStep
<1>6. TypeOK'
  <2>1. cache' \in AtMostOne
    BY <1>4, CachesFacts
  <2>2. recorded' \in BOOLEAN /\ unsaid' \in BOOLEAN
    BY <1>3, TakesTurnStep
  <2>3. turns' \in Seq(Call)
    BY <1>3 DEF TypeOK
  <2> QED BY <1>1, <1>3, <1>4, <1>5, <2>1, <2>2, <2>3 DEF TypeOK
<1>7. ListingsOK'
  BY <1>1, <1>4 DEF ListingsOK
<1>8. SeedOK'
  BY <1>3 DEF SeedOK
<1>9. WokenOK'
  BY <1>1, <1>3, <1>4 DEF WokenOK
<1>10. TurnsOK'
  <2>1. \A d \in Call : calls'[d].at # "seed"
    <3> SUFFICES ASSUME NEW d \in Call, calls'[d].at = "seed"
                 PROVE  FALSE
      OBVIOUS
    <3>1. d # c /\ calls[d].at = "seed"
      BY <1>1
    <3> QED BY <3>1, <1>3 DEF TurnsOK
  <2> QED BY <2>1 DEF TurnsOK
<1>11. StagesOK'
  BY <1>1 DEF StagesOK, Request
<1>12. HomesOK'
  BY <1>1, <1>4, <1>5 DEF HomesOK
<1>13. AloneOK'
  <2> SUFFICES ASSUME NEW x \in Call, NEW y \in Call, x # y, calls'[x].alone, calls'[x].op # "close"
               PROVE  /\ calls'[x].ws \cap calls'[y].ws = {}
                      /\ calls'[y].op = "close" => calls'[x].ws = {}
    BY DEF AloneOK
  <2>1. calls'[x].ws = {} \/ (calls[x].alone /\ calls[x].op # "close" /\ calls'[x].ws = calls[x].ws)
    <3>1. CASE x = c
      <4>1. CASE calls'[c].op = "none"
        <5>1. calls'[c].ws = {}
          BY <4>1, <1>1 DEF StagesOK
        <5> QED BY <3>1, <5>1, Zenon
      <4>2. CASE calls'[c].op # "none"
        BY <3>1, <4>2, <1>1, <1>2
      <4> QED BY <4>1, <4>2
    <3>2. CASE x # c
      BY <3>2, <1>1
    <3> QED BY <3>1, <3>2
  <2>2. calls'[y].ws = {} \/ calls'[y].ws = calls[y].ws
    BY <1>1
  <2>3. calls'[y].op = "close" => calls[y].op = "close"
    BY <1>1
  <2> QED BY <2>1, <2>2, <2>3 DEF AloneOK
<1>14. RemovingOK'
  <2> SUFFICES ASSUME NEW d \in Call, calls'[d].op = "remove", calls'[d].at \in {"killing", "clearing"},
                      calls'[d].alone, NEW u \in calls'[d].ws
               PROVE  ~Busy(u)'
    BY DEF RemovingOK
  <2>1. calls'[d] = calls[d]
    BY <1>1
  <2> QED BY <2>1, <1>5 DEF RemovingOK
<1>15. ClearedOK'
  BY <1>1, <1>4 DEF ClearedOK
<1>16. CacheFresh'
  BY <1>4, CachesFacts DEF CacheFresh
<1>17. WokenKept'
  BY <1>3 DEF WokenKept
<1>18. RemovedAlone'
  BY <1>3, <1>4, <1>5 DEF RemovedAlone
<1> QED BY <1>6, <1>7, <1>8, <1>9, <1>10, <1>11, <1>12, <1>13, <1>14, <1>15, <1>16, <1>17, <1>18

-----------------------------------------------------------------------------
(* git adds and removes, Claudes are revived.                              *)

\* What git may do to the disk while a request is done or goes on: what it could
\* list grows with it, and nothing woken is lost but what is put out of use.
Gits ==
  /\ disk' \subseteq Worktree
  /\ since \subseteq since' /\ since' \subseteq SUBSET Worktree
  /\ (IF opened THEN disk' ELSE {}) \in since'
  /\ woken' \subseteq woken /\ woken' \subseteq disk'
  /\ failed' \in BOOLEAN
  /\ left' \in [Request \cup Outside -> Nat]
  /\ UNCHANGED <<storeVars, cache, known, turns, sig, claudeVars, unsaid, cleared>>

\* A request that is done after git has run.
LEMMA GitDone ==
  ASSUME IInv, NEW c \in Call, Gits, calls' = Done(c)
  PROVE  IInv'
<1> USE DEF IInv
<1>1. calls' \in [Call -> Held] /\ calls'[c] = Idle
  BY DoneFacts DEF TypeOK
<1>2. \A d \in Call : d # c => calls'[d] = calls[d]
  BY DoneFacts DEF TypeOK
<1>3. calls'[c].op = "none" /\ calls'[c].ws = {} /\ calls'[c].at = "" /\ calls'[c].io = ""
  BY <1>1, IdleFacts
<1>4. /\ (IF opened THEN disk' ELSE {}) \in since' /\ since \subseteq since'
      /\ woken' \subseteq woken /\ woken' \subseteq disk'
  BY DEF Gits
<1>5. /\ opened' = opened /\ recorded' = recorded /\ awake' = awake /\ todos' = todos
      /\ engine' = engine /\ home' = home /\ cache' = cache /\ turns' = turns /\ cleared' = cleared
      /\ known' = known /\ pane' = pane /\ noticed' = noticed /\ watch' = watch /\ sig' = sig
      /\ unsaid' = unsaid
  BY DEF Gits, storeVars, claudeVars
<1>6. \A u : Busy(u)' <=> Busy(u)
  BY <1>5 DEF Busy
<1>7. TypeOK'
  <2>1. /\ disk' \subseteq Worktree /\ since' \subseteq SUBSET Worktree /\ failed' \in BOOLEAN
        /\ left' \in [Request \cup Outside -> Nat]
    BY DEF Gits
  <2> QED BY <1>1, <1>5, <1>4, <2>1 DEF TypeOK
<1>8. ListingsOK'
  BY <1>2, <1>3, <1>5, <1>4 DEF ListingsOK
<1>9. SeedOK'
  BY <1>2, <1>3, <1>5, <1>6, <1>4 DEF SeedOK
<1>10. WokenOK'
  BY <1>2, <1>3, <1>5, <1>4 DEF WokenOK
<1>11. TurnsOK'
  BY <1>2, <1>3, <1>5 DEF TurnsOK
<1>12. StagesOK'
  BY <1>2, <1>3, <1>4 DEF StagesOK, Request
<1>13. HomesOK'
  BY <1>2, <1>3, <1>5 DEF HomesOK
<1>14. AloneOK'
  BY <1>2, <1>3 DEF AloneOK
<1>15. RemovingOK'
  BY <1>2, <1>3, <1>5, <1>6 DEF RemovingOK
<1>16. ClearedOK'
  BY <1>2, <1>3, <1>5 DEF ClearedOK
<1>17. CacheFresh'
  BY <1>5, <1>4 DEF CacheFresh
<1>18. WokenKept'
  BY <1>5, <1>4 DEF WokenKept
<1>19. RemovedAlone'
  BY <1>5, <1>6 DEF RemovedAlone
<1> QED BY <1>7, <1>8, <1>9, <1>10, <1>11, <1>12, <1>13, <1>14, <1>15, <1>16, <1>17, <1>18, <1>19

\* A request that goes on after git has run.
LEMMA GitGoes ==
  ASSUME IInv, NEW c \in Call, Gits, calls' \in [Call -> Held],
         \A d \in Call : d # c => calls'[d] = calls[d],
         /\ calls'[c].at \in {"added", "clearing"} /\ calls'[c].io = ""
         /\ calls'[c].op = calls[c].op /\ calls'[c].ws = calls[c].ws
         /\ calls'[c].at = "clearing" => calls[c].op = "remove" /\ calls[c].at = "killing",
         calls'[c].alone = calls[c].alone
  PROVE  IInv'
<1> USE DEF IInv

<1>1. calls' \in [Call -> Held] /\ \A d \in Call : d # c => calls'[d] = calls[d]
  OBVIOUS
<1>2. /\ calls'[c].at \in {"added", "clearing"} /\ calls'[c].io = ""
      /\ calls'[c].op = calls[c].op /\ calls'[c].ws = calls[c].ws
      /\ calls'[c].at = "clearing" => calls[c].op = "remove" /\ calls[c].at = "killing"
  OBVIOUS
<1>3. calls'[c].alone = calls[c].alone
  OBVIOUS
<1>4. /\ (IF opened THEN disk' ELSE {}) \in since' /\ since \subseteq since'
      /\ woken' \subseteq woken /\ woken' \subseteq disk'
  BY DEF Gits
<1>5. /\ opened' = opened /\ recorded' = recorded /\ awake' = awake /\ todos' = todos
      /\ engine' = engine /\ home' = home /\ cache' = cache /\ turns' = turns /\ cleared' = cleared
      /\ known' = known /\ pane' = pane /\ noticed' = noticed /\ watch' = watch /\ sig' = sig
      /\ unsaid' = unsaid
  BY DEF Gits, storeVars, claudeVars
<1>6. \A u : Busy(u)' <=> Busy(u)
  BY <1>5 DEF Busy
<1>7. TypeOK'
  <2>1. /\ disk' \subseteq Worktree /\ since' \subseteq SUBSET Worktree /\ failed' \in BOOLEAN
        /\ left' \in [Request \cup Outside -> Nat]
    BY DEF Gits
  <2> QED BY <1>1, <1>5, <1>4, <2>1 DEF TypeOK
<1>8. ListingsOK'
  BY <1>1, <1>2, <1>5, <1>4 DEF ListingsOK
<1>9. SeedOK'
  BY <1>1, <1>2, <1>5, <1>6, <1>4 DEF SeedOK
<1>10. WokenOK'
  BY <1>1, <1>2, <1>5, <1>4 DEF WokenOK
<1>11. TurnsOK'
  BY <1>1, <1>2, <1>5 DEF TurnsOK
<1>12. StagesOK'
  BY <1>1, <1>2, <1>4 DEF StagesOK, Request
<1>13. HomesOK'
  BY <1>1, <1>2, <1>5 DEF HomesOK
<1>14. AloneOK'
  BY <1>1, <1>2, <1>3, AloneKept
<1>15. RemovingOK'
  <2> SUFFICES ASSUME NEW d \in Call, calls'[d].op = "remove", calls'[d].at \in {"killing", "clearing"},
                      calls'[d].alone, NEW u \in calls'[d].ws
               PROVE  ~Busy(u)
    BY <1>6 DEF RemovingOK
  <2>1. calls[d].op = "remove" /\ calls[d].at \in {"killing", "clearing"} /\ u \in calls[d].ws
    BY <1>1, <1>2
  <2>2. calls[d].alone
    BY <1>1, <1>3
  <2> QED BY <2>1, <2>2 DEF RemovingOK
<1>16. ClearedOK'
  BY <1>1, <1>2, <1>5 DEF ClearedOK
<1>17. CacheFresh'
  BY <1>5, <1>4 DEF CacheFresh
<1>18. WokenKept'
  BY <1>5, <1>4 DEF WokenKept
<1>19. RemovedAlone'
  BY <1>5, <1>6 DEF RemovedAlone
<1> QED BY <1>7, <1>8, <1>9, <1>10, <1>11, <1>12, <1>13, <1>14, <1>15, <1>16, <1>17, <1>18, <1>19

LEMMA GitAddsOK ==
  ASSUME IInv, NEW c \in Call, GitAdds(c)
  PROVE  IInv'
<1> USE DEF IInv
<1>1. /\ UNCHANGED <<storeVars, cache, known, turns, sig, claudeVars, unsaid, failed, woken, cleared,
                     left>>
      /\ calls[c].ws \in SUBSET Worktree
  BY DEF GitAdds, TypeOK, Held
<1>2. CASE calls[c].ws \subseteq disk
  <2>1. Gits
    BY <1>1, <1>2 DEF Gits, GitAdds, TypeOK, ListingsOK, WokenOK
  <2>2. calls' = Done(c)
    BY <1>2 DEF GitAdds
  <2> QED BY <2>1, <2>2, GitDone
<1>3. CASE ~(calls[c].ws \subseteq disk)
  <2>1. disk' = disk \cup calls[c].ws /\ since' = since \cup {IF opened THEN disk' ELSE {}}
    BY <1>3 DEF GitAdds
  <2>2. Gits
    BY <1>1, <2>1 DEF Gits, TypeOK, WokenOK
  <2>3. calls' = Goes(c, "added")
    BY <1>3 DEF GitAdds
  <2>4. "added" \in Stages /\ calls \in [Call -> Held]
    BY DEF Stages, TypeOK
  <2>5. /\ calls' \in [Call -> Held]
        /\ \A d \in Call : d # c => calls'[d] = calls[d]
        /\ calls'[c].at = "added" /\ calls'[c].io = ""
        /\ calls'[c].op = calls[c].op /\ calls'[c].ws = calls[c].ws
    BY <2>3, <2>4, GoesFacts
  <2>6. calls'[c].alone = calls[c].alone
    BY <2>3, <2>4, GoesFacts
  <2> QED BY <2>2, <2>5, <2>6, GitGoes
<1> QED BY <1>2, <1>3

LEMMA GitRemovesOK ==
  ASSUME IInv, NEW c \in Call, GitRemoves(c)
  PROVE  IInv'
<1> USE DEF IInv
<1>1. /\ UNCHANGED <<storeVars, cache, known, turns, sig, claudeVars, unsaid, cleared>>
      /\ calls[c].ws \in SUBSET Worktree /\ calls[c].op = "remove" /\ calls[c].at = "killing"
  BY DEF GitRemoves, TypeOK, Held
<1>2. CASE /\ disk' = disk \ calls[c].ws
           /\ since' = since \cup {IF opened THEN disk' ELSE {}}
           /\ woken' = woken \ calls[c].ws
           /\ calls' = Goes(c, "clearing")
           /\ UNCHANGED <<failed, left>>
  <2>1. Gits
    BY <1>1, <1>2 DEF Gits, TypeOK, WokenOK
  <2>4. "clearing" \in Stages /\ calls \in [Call -> Held]
    BY DEF Stages, TypeOK
  <2>5. /\ calls' \in [Call -> Held]
        /\ \A d \in Call : d # c => calls'[d] = calls[d]
        /\ calls'[c].at = "clearing" /\ calls'[c].io = ""
        /\ calls'[c].op = calls[c].op /\ calls'[c].ws = calls[c].ws
    BY <1>2, <2>4, GoesFacts
  <2>6. calls'[c].alone = calls[c].alone
    BY <1>2, <2>4, GoesFacts
  <2> QED BY <1>1, <2>1, <2>5, <2>6, GitGoes
<1>3. CASE /\ calls' = Done(c) /\ failed' = TRUE
           /\ UNCHANGED <<disk, since, woken, left>>
  <2>1. Gits
    BY <1>1, <1>3 DEF Gits, TypeOK, WokenOK, ListingsOK
  <2> QED BY <1>3, <2>1, GitDone
<1>4. CASE Fails(c) /\ UNCHANGED <<disk, since, woken>>
  <2>1. left' \in [Request \cup Outside -> Nat] /\ failed' = TRUE /\ calls' = Done(c)
    BY <1>4 DEF Fails, Spends, TypeOK, Request, Outside
  <2>2. Gits
    BY <1>1, <1>4, <2>1 DEF Gits, TypeOK, WokenOK, ListingsOK
  <2> QED BY <2>1, <2>2, GitDone
<1> QED BY <1>2, <1>3, <1>4 DEF GitRemoves

\* A Claude started anew in its pane: the pane and what is known of it change,
\* and the listings are invalidated.
Revives(cs) ==
  /\ pane' \in [Session -> Panes] /\ noticed' \subseteq Session
  /\ watch' \in [Session -> [polling : Nat, seen : Nat]]
  /\ unsaid' \in BOOLEAN
  /\ \/ Invalidates(cs)
     \/ calls' = cs /\ UNCHANGED <<cache, since>>
  /\ UNCHANGED <<disk, storeVars, known, turns, sig, engine, home, failed, woken, cleared, left>>

\* The calls are as they were, or one of them is done.
LEMMA RevivesOK ==
  ASSUME IInv, NEW cs \in [Call -> Held], Revives(cs),
         \A d \in Call : cs[d] = calls[d] \/ cs[d] = Idle
  PROVE  IInv'
<1> USE DEF IInv
<1>1. /\ calls' \in [Call -> Held]
      /\ \A d \in Call :
           /\ calls'[d].op = cs[d].op /\ calls'[d].ws = cs[d].ws /\ calls'[d].at = cs[d].at
           /\ calls'[d].io = cs[d].io /\ calls'[d].list = cs[d].list /\ calls'[d].s = cs[d].s
  <2>1. CASE calls' = Overtakes(cs)
    BY <2>1, OvertakesFacts
  <2>2. CASE calls' = cs
    BY <2>2
  <2> QED BY <2>1, <2>2 DEF Revives, Invalidates
<1>2. \A d \in Call : calls'[d].alone = cs[d].alone
  <2>1. CASE calls' = Overtakes(cs)
    BY <2>1, OvertakesFacts
  <2>2. CASE calls' = cs
    BY <2>2
  <2> QED BY <2>1, <2>2 DEF Revives, Invalidates
<1>3. \A d \in Call :
        \/ /\ calls'[d].op = calls[d].op /\ calls'[d].ws = calls[d].ws /\ calls'[d].at = calls[d].at
           /\ calls'[d].io = calls[d].io /\ calls'[d].list = calls[d].list
           /\ calls'[d].s = calls[d].s
        \/ calls'[d].op = "none" /\ calls'[d].ws = {} /\ calls'[d].at = "" /\ calls'[d].io = ""
  BY <1>1, IdleFacts
<1>4. /\ opened' = opened /\ disk' = disk /\ recorded' = recorded /\ awake' = awake
      /\ todos' = todos
      /\ engine' = engine /\ home' = home /\ turns' = turns /\ cleared' = cleared /\ woken' = woken
      /\ known' = known /\ sig' = sig /\ left' = left /\ failed' = failed
  BY DEF Revives, storeVars
<1>5. \A u : Busy(u)' <=> Busy(u)
  BY <1>4 DEF Busy
<1>6. \/ cache' = {} /\ since' = {IF opened THEN disk ELSE {}}
      \/ cache' = cache /\ since' = since
  BY <1>4 DEF Revives, Invalidates
<1>7. TypeOK'
  <2>1. /\ pane' \in [Session -> Panes] /\ noticed' \subseteq Session
        /\ watch' \in [Session -> [polling : Nat, seen : Nat]] /\ unsaid' \in BOOLEAN
    BY DEF Revives
  <2>2. cache' \in AtMostOne /\ since' \subseteq SUBSET Worktree
    BY <1>6 DEF TypeOK, AtMostOne
  <2> QED BY <1>1, <1>4, <2>1, <2>2 DEF TypeOK
<1>8. ListingsOK'
  <2>1. CASE Invalidates(cs)
    <3>1. since' = {IF opened THEN disk ELSE {}}
      BY <2>1, <1>4 DEF Invalidates
    <3>2. \A d \in Call : calls'[d].io # "" => calls'[d].over
      BY <2>1, OvertakesFacts DEF Invalidates
    <3> QED BY <3>1, <3>2, <1>4 DEF ListingsOK
  <2>2. CASE calls' = cs /\ UNCHANGED <<cache, since>>
    BY <2>2, <1>4, IdleFacts DEF ListingsOK
  <2> QED BY <2>1, <2>2 DEF Revives
<1>9. SeedOK'
  BY <1>3, <1>4, <1>5, <1>6 DEF SeedOK
<1>10. WokenOK'
  BY <1>3, <1>4 DEF WokenOK
<1>11. TurnsOK'
  BY <1>3, <1>4 DEF TurnsOK
<1>12. StagesOK'
  BY <1>3 DEF StagesOK, Request
<1>13. HomesOK'
  BY <1>3, <1>4 DEF HomesOK
<1>14. \A d \in Call : calls'[d].ws = {} \/ (calls'[d].alone = calls[d].alone /\ cs[d] = calls[d])
  BY <1>1, <1>2, IdleFacts
<1>15. AloneOK'
  <2> SUFFICES ASSUME NEW x \in Call, NEW y \in Call, x # y, calls'[x].alone, calls'[x].op # "close"
               PROVE  /\ calls'[x].ws \cap calls'[y].ws = {}
                      /\ calls'[y].op = "close" => calls'[x].ws = {}
    BY DEF AloneOK
  <2>1. calls'[x].ws = {} \/ (calls[x].alone /\ calls[x].op # "close" /\ calls'[x].ws = calls[x].ws)
    BY <1>1, <1>14
  <2>2. calls'[y].ws = {} \/ calls'[y].ws = calls[y].ws
    BY <1>3
  <2>3. calls'[y].op = "close" => calls[y].op = "close"
    BY <1>3
  <2> QED BY <2>1, <2>2, <2>3 DEF AloneOK
<1>16. RemovingOK'
  BY <1>1, <1>5, <1>14 DEF RemovingOK
<1>17. ClearedOK'
  BY <1>3, <1>4 DEF ClearedOK
<1>18. CacheFresh'
  BY <1>6 DEF CacheFresh
<1>19. WokenKept'
  BY <1>4 DEF WokenKept
<1>20. RemovedAlone'
  BY <1>4, <1>5 DEF RemovedAlone
<1> QED BY <1>7, <1>8, <1>9, <1>10, <1>11, <1>12, <1>13, <1>15, <1>16, <1>17, <1>18, <1>19, <1>20

LEMMA WatchesType ==
  ASSUME TypeOK, NEW s \in Session, NEW cont \in BOOLEAN, Watches(s, cont)
  PROVE  watch' \in [Session -> [polling : Nat, seen : Nat]]
<1>1. CASE watch' = watch
  BY <1>1 DEF TypeOK
<1>2. CASE watch' = [watch EXCEPT ![s].polling = 1]
  BY <1>2 DEF TypeOK
<1> QED BY <1>1, <1>2 DEF Watches

LEMMA ClaudeRespawnsOK ==
  ASSUME IInv, NEW c \in Call, NEW cont \in BOOLEAN, ClaudeRespawns(c, cont)
  PROVE  IInv'
<1> USE DEF IInv
<1>1. calls[c].s \in Session
  BY DEF ClaudeRespawns, TypeOK, Held
<1>2. Done(c) \in [Call -> Held] /\ \A d \in Call : Done(c)[d] = calls[d] \/ Done(c)[d] = Idle
  BY DoneFacts DEF TypeOK
<1>3. /\ UNCHANGED <<disk, storeVars, known, turns, sig, failed, woken, cleared, left>>
      /\ unsaid' = FALSE
  BY DEF ClaudeRespawns, Broadcasts, storeVars
<1>4. CASE Has(calls[c].s)
  <2>1. /\ Respawns(calls[c].s, IF cont THEN "continued" ELSE "fresh", Done(c))
        /\ Watches(calls[c].s, cont)
    BY <1>4 DEF ClaudeRespawns
  <2>2. pane' \in [Session -> Panes] /\ noticed' \subseteq Session
    BY <1>1, <2>1 DEF Respawns, TypeOK, Panes, Running
  <2>3. Invalidates(Done(c)) /\ UNCHANGED <<engine, home>>
    BY <2>1 DEF Respawns
  <2>4. Revives(Done(c))
    BY <1>1, <1>3, <2>1, <2>2, <2>3, WatchesType DEF Revives
  <2> QED BY <1>2, <2>4, RevivesOK
<1>5. CASE ~Has(calls[c].s)
  <2>1. calls' = Done(c) /\ UNCHANGED <<claudeVars, cache, since>>
    BY <1>5 DEF ClaudeRespawns
  <2>2. Revives(Done(c))
    BY <1>3, <2>1 DEF Revives, TypeOK, claudeVars
  <2> QED BY <1>2, <2>2, RevivesOK
<1> QED BY <1>4, <1>5

LEMMA FallsBackOK ==
  ASSUME IInv, NEW s \in Session, FallsBack(s)
  PROVE  IInv'
<1> USE DEF IInv
<1>1. calls \in [Call -> Held] /\ \A d \in Call : calls[d] = calls[d] \/ calls[d] = Idle
  BY DEF TypeOK
<1>2. UNCHANGED <<disk, storeVars, known, turns, sig, failed, woken, cleared, left>>
  BY DEF FallsBack, storeVars
<1>3. watch' \in [Session -> [polling : Nat, seen : Nat]]
  BY DEF FallsBack, TypeOK
<1>4. CASE Has(s)
  <2>1. Respawns(s, "restarted", calls) /\ unsaid' = FALSE
    BY <1>4 DEF FallsBack, Broadcasts
  <2>2. pane' \in [Session -> Panes] /\ noticed' \subseteq Session
    BY <2>1 DEF Respawns, TypeOK, Panes, Running
  <2>3. Revives(calls)
    BY <1>2, <1>3, <2>1, <2>2 DEF Revives, Respawns
  <2> QED BY <1>1, <2>3, RevivesOK
<1>5. CASE ~Has(s)
  <2>1. UNCHANGED <<engine, home, pane, noticed, cache, since, calls, unsaid>>
    BY <1>5 DEF FallsBack
  <2>2. Revives(calls)
    BY <1>2, <1>3, <2>1 DEF Revives, TypeOK
  <2> QED BY <1>1, <2>2, RevivesOK
<1> QED BY <1>4, <1>5

-----------------------------------------------------------------------------
(* The invariant holds.                                                    *)

LEMMA InitOK == Init => IInv
<1> SUFFICES ASSUME Init PROVE IInv
  OBVIOUS
<1> DEFINE w == CHOOSE w \in Worktree : TRUE
           s == CHOOSE s \in Session : TRUE
<1>1. Adopted(w, s) /\ disk \in SUBSET Worktree
  BY DEF Init
<1>2. s \in Session /\ (w \in disk => w \in Worktree)
  <2>1. \E r \in Session : TRUE
    BY WorktreesAssumption
  <2> QED BY <1>1, <2>1
<1> HIDE DEF w, s
<1>3. DOMAIN engine = {q \in {s} : w \in disk} /\ engine = [r \in {q \in {s} : w \in disk} |-> {}]
  BY <1>1 DEF Adopted
<1>4. engine \in UNION {[S -> SUBSET S] : S \in SUBSET Session}
  <2> DEFINE S == {q \in {s} : w \in disk}
  <2>1. S \in SUBSET Session /\ engine \in [S -> SUBSET S]
    BY <1>2, <1>3
  <2> HIDE DEF S
  <2> QED BY <2>1
<1>5. /\ home = [r \in Session |-> IF r = s /\ w \in disk THEN {w} ELSE {}]
      /\ pane = [r \in Session |-> IF r = s /\ w \in disk THEN "fresh" ELSE "none"]
  BY <1>1 DEF Adopted
<1>6. home \in [Session -> SUBSET Worktree] /\ pane \in [Session -> Panes]
  BY <1>2, <1>5 DEF Panes, Running
<1>7. \A r \in DOMAIN engine : home[r] # {}
  BY <1>2, <1>3, <1>5
<1>8. calls \in [Call -> Held] /\ \A c \in Call : calls[c] = Idle
  BY IdleType DEF Init
<1>9. \A c \in Call : calls[c].op = "none" /\ calls[c].ws = {} /\ calls[c].at = "" /\ calls[c].io = ""
  BY <1>8, IdleFacts
<1>10. /\ opened = TRUE /\ awake = {} /\ todos = {} /\ cache = {} /\ known = disk
       /\ turns = <<>> /\ sig = {disk} /\ noticed = {} /\ unsaid = FALSE /\ failed = FALSE
       /\ since = {disk} /\ cleared = {}
       /\ watch = [r \in Session |-> [polling |-> 0, seen |-> 0]]
  BY DEF Init
<1>11. /\ recorded \in BOOLEAN
       /\ woken = IF recorded THEN {} ELSE {u \in disk : Busy(u)}
       /\ left \in [Request \cup Outside -> Nat]
  BY WorktreesAssumption DEF Init
<1>12. TypeOK
  <2>1. sig \in AtMostOne /\ cache \in AtMostOne
    BY <1>1, <1>10 DEF AtMostOne
  <2>2. watch \in [Session -> [polling : Nat, seen : Nat]]
    BY <1>10
  <2>3. woken \subseteq Worktree /\ turns \in Seq(Call)
    BY <1>1, <1>10, <1>11
  <2> QED BY <1>1, <1>4, <1>6, <1>8, <1>10, <1>11, <2>1, <2>2, <2>3 DEF TypeOK
<1>13. ListingsOK
  BY <1>9, <1>10 DEF ListingsOK
<1>14. SeedOK
  BY <1>9, <1>10, <1>11 DEF SeedOK
<1>15. WokenOK
  BY <1>9, <1>11 DEF WokenOK
<1>16. TurnsOK /\ StagesOK
  BY <1>9 DEF TurnsOK, StagesOK, Request
<1>17. HomesOK
  BY <1>7, <1>9 DEF HomesOK
<1>18. AloneOK
  BY <1>9 DEF AloneOK
<1>19. RemovingOK /\ ClearedOK
  BY <1>9 DEF RemovingOK, ClearedOK
<1>20. CacheFresh /\ WokenKept /\ RemovedAlone
  BY <1>10, <1>11 DEF CacheFresh, WokenKept, RemovedAlone
<1> QED BY <1>12, <1>13, <1>14, <1>15, <1>16, <1>17, <1>18, <1>19, <1>20 DEF IInv

LEMMA UnchangedOK ==
  ASSUME IInv, UNCHANGED vars
  PROVE  IInv'
<1> USE DEF IInv, vars, storeVars, listVars, claudeVars
<1>1. \A u : Busy(u)' <=> Busy(u)
  BY DEF Busy
<1>2. TypeOK'
  BY DEF TypeOK
<1>3. ListingsOK' /\ WokenOK' /\ TurnsOK'
  BY DEF ListingsOK, WokenOK, TurnsOK
<1>4. SeedOK'
  BY <1>1 DEF SeedOK
<1>5. StagesOK' /\ HomesOK'
  BY DEF StagesOK, HomesOK
<1>6. AloneOK'
  BY DEF AloneOK
<1>7. RemovingOK'
  BY <1>1 DEF RemovingOK
<1>8. ClearedOK' /\ CacheFresh' /\ WokenKept'
  BY DEF ClearedOK, CacheFresh, WokenKept
<1>9. RemovedAlone'
  BY <1>1 DEF RemovedAlone
<1> QED BY <1>2, <1>3, <1>4, <1>5, <1>6, <1>7, <1>8, <1>9

LEMMA NextOK == IInv /\ [Next]_vars => IInv'
<1> SUFFICES ASSUME IInv, [Next]_vars PROVE IInv'
  OBVIOUS
<1>1. ASSUME NEW c \in Call, CallStep(c) PROVE IInv'
  <2>1. CASE \/ \E op \in Request, w \in Worktree, opt \in BOOLEAN : Begins(c, op, w, opt)
             \/ \E opt \in BOOLEAN : CloseBegins(c, opt)
             \/ PollBegins(c)
    BY <2>1, BeginsOK, CloseBeginsOK, PollBeginsOK
  <2>2. CASE ListAsks(c) \/ ListReads(c) \/ ListLands(c) \/ HasListing(c)
    BY <2>2, ListAsksOK, ListReadsOK, ListLandsOK, HasListingOK
  <2>3. CASE SeedAwaits(c) \/ TakesTurn(c) \/ SleepEnds(c) \/ ClosesAsleep(c)
    BY <2>3, SeedAwaitsOK, TakesTurnOK, SleepEndsOK, ClosesAsleepOK
  <2>4. CASE \/ \E s \in Session, cont \in BOOLEAN : ClaudeStarts(c, s, cont)
             \/ \E cont \in BOOLEAN : ClaudeRespawns(c, cont)
             \/ ClaudeStarted(c) \/ StartFails(c)
    BY <2>4, ClaudeStartsOK, ClaudeRespawnsOK, ClaudeStartedOK, StartFailsOK
  <2>5. CASE GitAdds(c) \/ CreateInvalidates(c)
    BY <2>5, GitAddsOK, CreateInvalidatesOK
  <2>6. CASE RemoveRefused(c) \/ RemoveKills(c) \/ GitRemoves(c) \/ RemoveClears(c)
    BY <2>6, RemoveRefusedOK, RemoveKillsOK, GitRemovesOK, RemoveClearsOK
  <2> QED BY <1>1, <2>1, <2>2, <2>3, <2>4, <2>5, <2>6 DEF CallStep
<1>2. ASSUME NEW s \in Session, ClaudeStep(s) PROVE IInv'
  <2>1. CASE WatcherSees(s) \/ WatcherEnds(s) \/ FallsBack(s) \/ Notices(s)
    BY <2>1, WatcherSeesOK, WatcherEndsOK, FallsBackOK, NoticesOK
  <2>2. CASE \E how \in {"refused", "exited"} : Ends(s, how)
    BY <2>2, EndsOK
  <2> QED BY <1>2, <2>1, <2>2 DEF ClaudeStep
<1> QED BY <1>1, <1>2, HandOK, OpensOK, UnchangedOK DEF Next

\* The inductive invariant holds throughout: what the listings, the turns, the
\* seed of the awake list and the requests under way keep of each other.
THEOREM WorktreesInductive == Spec => []IInv
<1> QED BY InitOK, NextOK, PTL DEF Spec

\* Every variable keeps its type (workspace.ts, api.ts).
THEOREM WorktreesTyped == Spec => []TypeOK
<1>1. IInv => TypeOK
  BY DEF IInv
<1> QED BY <1>1, WorktreesInductive, PTL

\* A listing begun before an invalidate is never cached after it, however many
\* requests list at once (workspace.ts, generation).
THEOREM CacheStaysFresh == Spec => []CacheFresh
<1>1. IInv => CacheFresh
  BY DEF IInv
<1> QED BY <1>1, WorktreesInductive, PTL

\* No change of the awake list is lost to another, for any number of requests,
\* worktrees and sessions (setAwake, awakeWrites, forgetGoneWorktrees).
THEOREM WokenStaysMarked == Spec => []WokenKept
<1>1. IInv => WokenKept
  BY DEF IInv
<1> QED BY <1>1, WorktreesInductive, PTL

\* A removal nobody got in the way of leaves no todo, no mark and no session
\* (removeWorktree).
THEOREM RemovalLeavesNothing == Spec => []RemovedAlone
<1>1. IInv => RemovedAlone
  BY DEF IInv
<1> QED BY <1>1, WorktreesInductive, PTL
=============================================================================
