------------------------ MODULE EngineMachines_proofs ------------------------
(***************************************************************************)
(* Proofs about SessionEngine, for any sessions and bounds, and about      *)
(* Machines (with Relay), for any sessions, links, keys and bounds.  The   *)
(* two share no state: each has its own specification and invariants.      *)
(*                                                                         *)
(* SessionEngine: IInv is inductive.  One lemma says what spawnPty does to *)
(* the clients, one what markDead does to the list, and then each action   *)
(* preserves each part.                                                    *)
(*                                                                         *)
(* Machines: the types are inductive; with them StreamsOK, what a stream   *)
(* number stands for; with both FedOK, what is on its way between a pane   *)
(* that shows a linked session and the machine that runs it.               *)
(***************************************************************************)
EXTENDS SessionEngine, Machines, FiniteSetTheorems, SequenceTheorems, TLAPS

(***************************************************************************)
(* The session engine.                                                     *)
(***************************************************************************)

\* spawnPty leaves one client and a pty, or everything as it was.
LEMMA AttachesOK ==
  ASSUME TypeOK, OneClient, NEW s \in Session, Attaches(s)
  PROVE  /\ pty' \in [Session -> BOOLEAN]
         /\ clients' \in [Session -> Nat]
         /\ OneClient'
         /\ \A u \in Session \ {s} : pty'[u] = pty[u]
<1>1. CASE disposed[s] \/ pty[s]
  BY <1>1 DEF TypeOK, OneClient, Attaches
<1>2. CASE ~(disposed[s] \/ pty[s])
  <2>1. /\ pty' = [pty EXCEPT ![s] = TRUE]
        /\ clients' = [clients EXCEPT ![s] = @ + 1]
    BY <1>2 DEF Attaches
  <2>2. clients[s] = 0
    BY <1>2 DEF OneClient
  <2> QED
    BY <2>1, <2>2 DEF TypeOK, OneClient
<1> QED
  BY <1>1, <1>2

\* What a step that may call markDead or kill() does to the list: a terminal
\* found dead is off it, and what is off it is being killed.
Reaps ==
  /\ dead' \in [Session -> BOOLEAN]
  /\ mirrorGone' \in [Session -> BOOLEAN]
  /\ killing' \in [Session -> {"no", "asked", "done"}]
  /\ sessions' \subseteq sessions
  /\ \A u \in Session :
       /\ killing'[u] = "asked" \/ killing'[u] = killing[u]
       /\ u \in sessions => u \in sessions' \/ killing'[u] = "asked"
       /\ mirrorGone'[u] => mirrorGone[u] \/ dead'[u]
       /\ dead[u] => dead'[u]
       /\ u \in sessions' \cap Shell => dead'[u] = dead[u]

\* ... and it leaves a session alone that it is not about.
Spares(u) ==
  dead'[u] = dead[u] /\ mirrorGone'[u] = mirrorGone[u] /\ (u \notin sessions => killing'[u] = killing[u])

LEMMA MarksDeadOK ==
  ASSUME TypeOK, NEW s \in Session, MarksDead(s)
  PROVE  Reaps /\ \A u \in Session \ {s} : Spares(u)
<1>1. CASE dead[s]
  BY <1>1 DEF TypeOK, MarksDead, Reaps, Spares
<1>2. CASE ~dead[s]
  BY <1>2 DEF TypeOK, MarksDead, Forgets, Reaps, Spares
<1> QED
  BY <1>1, <1>2

LEMMA InitIInv == Init => IInv
<1> SUFFICES ASSUME Init PROVE IInv
  OBVIOUS
<1> USE DEF Init, Zero, Never, NoCall, NoPanes
<1>1. TypeOK
  <2>1. 0 \in 0..MaxReattach
    BY EngineAssumption
  <2>2. left \in [Outside -> Nat]
    BY EngineAssumption
  <2> QED
    BY <2>1, <2>2 DEF TypeOK, Panes
<1>2. OneClient
  BY DEF OneClient
<1>3. BornOK
  BY DEF BornOK, Untouched
<1>4. DeadOK
  BY DEF DeadOK, DeadShellGone
<1>5. ReachOK
  BY EngineAssumption DEF ReachOK, Reachable, Outside
<1> QED
  BY <1>1, <1>2, <1>3, <1>4, <1>5 DEF IInv

LEMMA CreateStartsKeeps ==
  ASSUME IInv, NEW s \in Session, CreateStarts(s)
  PROVE  IInv'
<1> USE DEF IInv, CreateStarts, liveVars, pollVars
<1>1. TypeOK' /\ OneClient'
  BY DEF TypeOK, OneClient, Panes
<1>2. BornOK'
  BY DEF TypeOK, BornOK, Untouched
<1>3. DeadOK'
  BY DEF DeadOK, DeadShellGone
<1>4. ReachOK'
  BY DEF TypeOK, BornOK, ReachOK, Reachable, InProgress
<1> QED
  BY <1>1, <1>2, <1>3, <1>4

LEMMA CreateGoesOnKeeps ==
  ASSUME IInv, NEW s \in Session, CreateTags(s) \/ CreateFails(s)
  PROVE  IInv'
<1> USE DEF IInv, CreateTags, CreateFails, liveVars, pollVars, tmuxVars, Spends
<1>1. TypeOK' /\ OneClient'
  BY DEF TypeOK, OneClient, Outside
<1>2. BornOK'
  BY DEF TypeOK, BornOK, Untouched
<1>3. DeadOK'
  BY DEF DeadOK, DeadShellGone
<1>4. ReachOK'
  BY EngineAssumption DEF TypeOK, BornOK, Untouched, ReachOK, Reachable, InProgress, Outside
<1> QED
  BY <1>1, <1>2, <1>3, <1>4

LEMMA CreateLandsKeeps ==
  ASSUME IInv, NEW s \in Session, CreateLands(s)
  PROVE  IInv'
<1> USE DEF IInv, CreateLands, pollVars
<1>1. /\ pty' \in [Session -> BOOLEAN]
      /\ clients' \in [Session -> Nat]
      /\ OneClient'
      /\ \A u \in Session \ {s} : pty'[u] = pty[u]
  BY AttachesOK
<1>2. TypeOK'
  BY <1>1 DEF TypeOK
<1>3. s \in born
  BY DEF BornOK, TypeOK
<1>4. BornOK'
  BY <1>1, <1>3 DEF TypeOK, BornOK, Untouched
<1>5. DeadOK'
  BY DEF DeadOK, DeadShellGone, BornOK, Untouched
<1>6. ReachOK'
  BY DEF TypeOK, ReachOK, Reachable, InProgress
<1> QED
  BY <1>1, <1>2, <1>4, <1>5, <1>6

LEMMA KillStartsKeeps ==
  ASSUME IInv, NEW doomed \in SUBSET sessions, KillStarts(doomed)
  PROVE  IInv'
<1> USE DEF IInv, KillStarts, Forgets, tmuxVars, pollVars
<1>1. TypeOK' /\ OneClient'
  BY DEF TypeOK, OneClient
<1>2. BornOK'
  BY DEF TypeOK, BornOK, Untouched
<1>3. DeadOK'
  BY DEF DeadOK, DeadShellGone
<1>4. ReachOK'
  BY DEF TypeOK, ReachOK, Reachable, InProgress
<1> QED
  BY <1>1, <1>2, <1>3, <1>4

LEMMA KillsInTmuxKeeps ==
  ASSUME IInv, NEW s \in Session, KillsInTmux(s) \/ KillFails(s) \/ Vanishes(s)
  PROVE  IInv'
<1> USE DEF IInv, KillsInTmux, KillFails, Vanishes, tmuxVars, liveVars, callVars, pollVars, Spends
<1>1. TypeOK' /\ OneClient'
  BY DEF TypeOK, OneClient, Outside, Panes
<1>2. BornOK'
  BY DEF TypeOK, BornOK, Untouched
<1>3. DeadOK'
  BY DEF DeadOK, DeadShellGone
<1>4. ReachOK'
  BY EngineAssumption DEF TypeOK, ReachOK, Reachable, InProgress, Outside
<1> QED
  BY <1>1, <1>2, <1>3, <1>4

LEMMA KillLandsKeeps ==
  ASSUME IInv, NEW s \in Session, KillLands(s)
  PROVE  IInv'
<1> USE DEF IInv, KillLands, pollVars
<1>1. TypeOK' /\ OneClient'
  BY DEF TypeOK, OneClient
<1>2. BornOK'
  BY DEF TypeOK, BornOK, Untouched
<1>3. DeadOK'
  BY DEF DeadOK, DeadShellGone
<1>4. ReachOK'
  BY DEF TypeOK, ReachOK, Reachable, InProgress
<1> QED
  BY <1>1, <1>2, <1>3, <1>4

LEMMA RespawnStartsKeeps ==
  ASSUME IInv, NEW s \in Session, RespawnStarts(s)
  PROVE  IInv'
<1> USE DEF IInv, RespawnStarts, liveVars, pollVars, Spends
<1>1. TypeOK' /\ OneClient'
  BY DEF TypeOK, OneClient, Panes, Outside
<1>2. BornOK'
  BY DEF TypeOK, BornOK, Untouched
<1>3. DeadOK'
  BY DEF DeadOK, DeadShellGone
<1>4. ReachOK'
  BY DEF TypeOK, ReachOK, Reachable, InProgress, Outside
<1> QED
  BY <1>1, <1>2, <1>3, <1>4

LEMMA RespawnLandsKeeps ==
  ASSUME IInv, NEW s \in Session, RespawnLands(s)
  PROVE  IInv'
<1> USE DEF IInv, RespawnLands, pollVars
<1>1. /\ pty' \in [Session -> BOOLEAN]
      /\ clients' \in [Session -> Nat]
      /\ OneClient'
      /\ \A u \in Session \ {s} : pty'[u] = pty[u]
  BY AttachesOK
<1>2. TypeOK'
  <2>1. /\ tries' \in [Session -> 0..MaxReattach]
        /\ revives' \in [Session -> Nat]
    BY EngineAssumption DEF TypeOK
  <2> QED
    BY <1>1, <2>1 DEF TypeOK
<1>3. s \in born /\ creating[s] = "no"
  BY DEF BornOK, Untouched
<1>4. BornOK'
  BY <1>1, <1>3 DEF TypeOK, BornOK, Untouched
<1>5. DeadOK'
  BY DEF TypeOK, DeadOK, DeadShellGone
<1>6. ReachOK'
  BY DEF ReachOK, Reachable, InProgress
<1> QED
  BY <1>1, <1>2, <1>4, <1>5, <1>6

LEMMA PollVisitsKeeps ==
  ASSUME IInv, NEW s \in Session, PollVisits(s)
  PROVE  IInv'
<1> USE DEF IInv, PollVisits, tmuxVars
<1>1. Reaps /\ \A u \in Session \ {s} : Spares(u)
  <2>1. CASE listing[s] # "running"
    BY <2>1, MarksDeadOK
  <2>2. CASE listing[s] = "running"
    BY <2>2 DEF Reaps, Spares, TypeOK
  <2> QED
    BY <2>1, <2>2
<1>2. TypeOK' /\ OneClient'
  BY <1>1 DEF TypeOK, OneClient, Reaps
<1>3. BornOK'
  BY <1>1 DEF TypeOK, BornOK, Untouched, Reaps, Spares
<1>4. DeadOK'
  BY <1>1 DEF TypeOK, DeadOK, DeadShellGone, Reaps
<1>5. ReachOK'
  BY <1>1 DEF TypeOK, ReachOK, Reachable, InProgress, Reaps
<1> QED
  BY <1>2, <1>3, <1>4, <1>5

LEMMA PtyExitsKeeps ==
  ASSUME IInv, NEW s \in Session, PtyExits(s)
  PROVE  IInv'
<1> USE DEF IInv, PtyExits, pollVars, Spends
<1>1. TypeOK' /\ OneClient'
  BY DEF TypeOK, OneClient, Outside
<1>2. s \in born /\ creating[s] = "no"
  BY DEF BornOK, Untouched, OneClient, TypeOK
<1>3. BornOK'
  BY <1>2 DEF TypeOK, BornOK, Untouched
<1>4. DeadOK'
  BY DEF DeadOK, DeadShellGone
<1>5. ReachOK'
  BY DEF TypeOK, ReachOK, Reachable, InProgress, Outside
<1> QED
  BY <1>1, <1>3, <1>4, <1>5

LEMMA HandlesPtyExitKeeps ==
  ASSUME IInv, NEW s \in Session, HandlesPtyExit(s)
  PROVE  IInv'
<1>1. /\ lost[s] > 0
      /\ lost' = [lost EXCEPT ![s] = @ - 1]
      /\ UNCHANGED <<tmuxVars, born, pty, disposed, creating, revives, pollVars>>
  BY DEF HandlesPtyExit
<1>2. PICK alive \in {pane[s] # "none", FALSE} :
        /\ IF alive = (pane[s] # "none") THEN UNCHANGED left ELSE Spends("fault")
        /\ IF alive /\ tries[s] < MaxReattach
           THEN /\ tries' = [tries EXCEPT ![s] = @ + 1]
                /\ delayed' = [delayed EXCEPT ![s] = @ + 1]
                /\ UNCHANGED <<dead, mirrorGone, sessions, killing>>
           ELSE /\ MarksDead(s)
                /\ UNCHANGED <<tries, delayed>>
  BY DEF HandlesPtyExit
<1>3. /\ left' \in [Outside -> Nat]
      /\ left'["fault"] <= left["fault"]
  BY <1>2 DEF IInv, TypeOK, Spends, Outside
<1>4. /\ tries' \in [Session -> 0..MaxReattach]
      /\ delayed' \in [Session -> Nat]
      /\ \A u \in Session \ {s} : delayed'[u] = delayed[u]
  BY <1>2, EngineAssumption DEF IInv, TypeOK
<1>5. Reaps /\ \A u \in Session \ {s} : Spares(u)
  <2>1. CASE alive /\ tries[s] < MaxReattach
    BY <1>2, <2>1 DEF IInv, Reaps, Spares, TypeOK
  <2>2. CASE ~(alive /\ tries[s] < MaxReattach)
    BY <1>2, <2>2, MarksDeadOK DEF IInv
  <2> QED
    BY <2>1, <2>2
<1>6. TypeOK' /\ OneClient'
  <2>1. lost' \in [Session -> Nat]
    BY <1>1 DEF IInv, TypeOK
  <2>2. UNCHANGED <<pane, tagged, clients, born, pty, disposed, creating, revives,
                    polling, listing, seen>>
    BY <1>1 DEF tmuxVars, pollVars
  <2> QED
    BY <1>3, <1>4, <1>5, <2>1, <2>2 DEF IInv, TypeOK, OneClient, Reaps
<1>7. s \in born /\ creating[s] = "no"
  BY <1>1 DEF IInv, BornOK, Untouched
<1>8. BornOK'
  BY <1>1, <1>4, <1>5, <1>7 DEF IInv, TypeOK, BornOK, Untouched, Reaps, Spares, tmuxVars
<1>9. DeadOK'
  BY <1>5 DEF IInv, TypeOK, DeadOK, DeadShellGone, Reaps
<1>10. ReachOK'
  BY <1>1, <1>3, <1>5, EngineAssumption
  DEF IInv, TypeOK, ReachOK, Reachable, InProgress, Reaps, tmuxVars, Outside
<1> QED
  BY <1>6, <1>8, <1>9, <1>10 DEF IInv

LEMMA ReattachesKeeps ==
  ASSUME IInv, NEW s \in Session, Reattaches(s)
  PROVE  IInv'
<1> USE DEF IInv, Reattaches, pollVars
<1>1. /\ pty' \in [Session -> BOOLEAN]
      /\ clients' \in [Session -> Nat]
      /\ OneClient'
      /\ \A u \in Session \ {s} : pty'[u] = pty[u]
  BY AttachesOK
<1>2. TypeOK'
  <2>1. delayed' \in [Session -> Nat]
    BY DEF TypeOK
  <2>2. UNCHANGED <<pane, tagged, born, sessions, dead, mirrorGone, disposed, tries,
                    creating, killing, revives, lost, polling, listing, seen, left>>
    OBVIOUS
  <2> HIDE DEF Reattaches
  <2> QED
    BY <1>1, <2>1, <2>2 DEF TypeOK
<1>3. s \in born /\ creating[s] = "no"
  BY DEF BornOK, Untouched
<1>4. BornOK'
  BY <1>1, <1>3 DEF TypeOK, BornOK, Untouched
<1>5. DeadOK'
  BY DEF DeadOK, DeadShellGone
<1>6. ReachOK'
  BY DEF ReachOK, Reachable, InProgress
<1> QED
  BY <1>1, <1>2, <1>4, <1>5, <1>6

\* The steps that touch nothing IInv relates to anything else.
LEMMA QuietKeeps ==
  ASSUME IInv,
         (\E s \in Session : Outputs(s) \/ Exits(s)) \/ PollLists \/ PollEnds \/ UNCHANGED vars
  PROVE  IInv'
<1>1. CASE \E s \in Session : Outputs(s)
  BY <1>1, EngineAssumption
  DEF Outputs, IInv, TypeOK, OneClient, BornOK, Untouched, DeadOK, DeadShellGone,
      ReachOK, Reachable, InProgress, tmuxVars, callVars, pollVars
<1>2. CASE \E s \in Session : Exits(s)
  BY <1>2
  DEF Exits, IInv, TypeOK, OneClient, BornOK, Untouched, DeadOK, DeadShellGone,
      ReachOK, Reachable, InProgress, liveVars, callVars, pollVars, Panes
<1>3. CASE PollLists \/ PollEnds
  <2>1. UNCHANGED <<pane, tagged, clients, born, sessions, dead, mirrorGone, pty, disposed, tries,
                    creating, killing, revives, lost, delayed, left>>
    BY <1>3 DEF PollLists, PollEnds, tmuxVars, liveVars, callVars
  <2>2. polling' \in BOOLEAN /\ listing' \in [Session -> Panes] /\ seen' \in SUBSET Session
    BY <1>3 DEF PollLists, PollEnds, IInv, TypeOK, NoPanes, Panes
  <2> QED
    BY <2>1, <2>2
    DEF IInv, TypeOK, OneClient, BornOK, Untouched, DeadOK, DeadShellGone, ReachOK, Reachable, InProgress
<1>4. CASE UNCHANGED vars
  BY <1>4
  DEF IInv, TypeOK, OneClient, BornOK, Untouched, DeadOK, DeadShellGone,
      ReachOK, Reachable, InProgress, vars, tmuxVars, liveVars, callVars, pollVars
<1> QED
  BY <1>1, <1>2, <1>3, <1>4

LEMMA RestartsKeeps ==
  ASSUME IInv, NEW listed \in {Adopted, {}}, Restarts(listed)
  PROVE  IInv'
<1>1. listed \subseteq tagged
  BY DEF Adopted
<1>2. /\ left' \in [Outside -> Nat]
      /\ left'["fault"] <= left["fault"]
      /\ left'["fault"] = left["fault"] => listed = Adopted
  BY DEF Restarts, IInv, TypeOK, Outside
<1>3. TypeOK'
  <2>1. listed \in SUBSET Session
    BY <1>1 DEF IInv, TypeOK
  <2>2. tries' \in [Session -> 0..MaxReattach]
    BY EngineAssumption DEF Restarts, Zero
  <2>3. pty' \in [Session -> BOOLEAN] /\ clients' \in [Session -> Nat]
    BY DEF Restarts
  <2>4. listing' \in [Session -> Panes]
    BY DEF Restarts, NoPanes, Panes
  <2> QED
    BY <1>2, <2>1, <2>2, <2>3, <2>4 DEF Restarts, IInv, TypeOK, Never, Zero, NoCall
<1>4. OneClient'
  BY DEF Restarts, OneClient
<1>5. BornOK'
  BY <1>1 DEF Restarts, IInv, TypeOK, BornOK, Untouched, Never, Zero, NoCall
<1>6. DeadOK'
  BY <1>1 DEF Restarts, IInv, TypeOK, DeadOK, DeadShellGone, Never
<1>7. ReachOK'
  BY <1>2, EngineAssumption
  DEF Restarts, IInv, TypeOK, ReachOK, Reachable, InProgress, Adopted, NoCall, Outside
<1> QED
  BY <1>3, <1>4, <1>5, <1>6, <1>7 DEF IInv

\* IInv is an invariant: every handler, in any order, preserves it.
THEOREM EngineInductive == Spec => []IInv
<1>1. IInv /\ [Next]_vars => IInv'
  <2> SUFFICES ASSUME IInv, [Next]_vars PROVE IInv'
    OBVIOUS
  <2>1. ASSUME NEW s \in Session, CreateStarts(s) \/ RespawnStarts(s) \/ Exits(s) \/ Vanishes(s) \/ EngineSteps(s)
        PROVE IInv'
    BY <2>1, CreateStartsKeeps, CreateGoesOnKeeps, CreateLandsKeeps, KillsInTmuxKeeps, KillLandsKeeps,
       RespawnStartsKeeps, RespawnLandsKeeps, PollVisitsKeeps, PtyExitsKeeps, HandlesPtyExitKeeps,
       ReattachesKeeps, QuietKeeps
    DEF EngineSteps
  <2>2. ASSUME NEW doomed \in SUBSET sessions, KillStarts(doomed) PROVE IInv'
    BY <2>2, KillStartsKeeps
  <2>3. ASSUME NEW listed \in {Adopted, {}}, Restarts(listed) PROVE IInv'
    BY <2>3, RestartsKeeps
  <2> QED
    BY <2>1, <2>2, <2>3, QuietKeeps DEF Next
<1> QED
  BY <1>1, InitIInv, PTL DEF Spec

\* The types of the engine's and tmux's state.
THEOREM EngineTypeCorrect == Spec => []TypeOK
BY EngineInductive, PTL DEF IInv

\* One tmux client per session, whatever handlers race.
THEOREM OneClientHolds == Spec => []OneClient
BY EngineInductive, PTL DEF IInv

\* A live session has a mirror to be read.
THEOREM LiveHasScreenHolds == Spec => []LiveHasScreen
<1>1. IInv => LiveHasScreen
  BY DEF IInv, TypeOK, DeadOK, LiveHasScreen
<1> QED
  BY <1>1, EngineInductive, PTL

\* No dead terminal stays in the list.
THEOREM DeadShellGoneHolds == Spec => []DeadShellGone
<1>1. IInv => DeadShellGone
  BY DEF IInv, DeadOK
<1> QED
  BY <1>1, EngineInductive, PTL

\* Short of a tmux command that failed, the engine forgets no tmux session.
THEOREM ReachableHolds == Spec => []Reachable
<1>1. IInv => Reachable
  BY DEF IInv, ReachOK
<1> QED
  BY <1>1, EngineInductive, PTL

(***************************************************************************)
(* Linked machines.                                                        *)
(***************************************************************************)

\* The elements of a finite set, in some order.
LEMMA InSomeOrder ==
  ASSUME NEW S, IsFiniteSet(S)
  PROVE  /\ SetToSeq(S) \in Seq(S)
         /\ \A x \in S : \E i \in 1..Len(SetToSeq(S)) : SetToSeq(S)[i] = x
<1> DEFINE n == Cardinality(S)
           f == SetToSeq(S)
<1>1. n \in Nat /\ \E g \in [1..n -> S] : IsInjective(g)
  BY FS_CardinalityType DEF ExistsBijection, Bijection, Injection
<1>2. f \in [1..n -> S] /\ IsInjective(f)
  BY <1>1 DEF SetToSeq
<1> HIDE DEF f
<1>3. ASSUME NEW x \in S, \A i \in 1..n : f[i] # x PROVE FALSE
  <2>1. IsFiniteSet(S \ {x}) /\ Cardinality(S \ {x}) = n - 1
    BY FS_RemoveElement
  <2>2. IsFiniteSet(1..n) /\ Cardinality(1..n) = n
    BY <1>1, FS_Interval
  <2>3. f \in [1..n -> S \ {x}]
    BY <1>2, <1>3
  <2>4. \E i, j \in 1..n : i # j /\ f[i] = f[j]
    BY <1>1, <2>1, <2>2, <2>3, FS_PigeonHole
  <2> QED
    BY <1>2, <2>4 DEF IsInjective
<1>4. f \in Seq(S) /\ Len(f) = n
  BY <1>1, <1>2
<1> QED
  BY <1>3, <1>4 DEF f

(***************************************************************************)
(* Types.                                                                  *)
(***************************************************************************)

LEMMA Ids ==
  /\ None \in Nat /\ None \notin Id /\ None \notin Link /\ IsFiniteSet(Id)
  /\ Base \in Nat /\ MaxKey \in Nat /\ MaxLink \in Nat /\ 0 \in 0 .. MaxKey
BY RelayAssumption DEF None, Link

LEMMA SessionsFinite == IsFiniteSet(ScopedId)
<1>1. IsFiniteSet(Machine)
  <2>1. IsFiniteSet({"here"}) /\ IsFiniteSet({"there"})
    BY FS_Singleton
  <2>2. Machine = {"here"} \cup {"there"}
    BY DEF Machine
  <2> QED
    BY <2>1, <2>2, FS_Union
<1>2. IsFiniteSet(Machine \X Id)
  BY <1>1, Ids, FS_Product
<1>3. ScopedId = Machine \X Id
  BY DEF ScopedId, Scoped
<1> QED
  BY <1>2, <1>3

LEMMA NoFrames == <<>> \in Seq(ToMachine) /\ <<>> \in Seq(FromMachine)
BY EmptySeq

LEMMA NoLinkTyped == NoLink \in LinkRecord
BY Ids, NoFrames DEF NoLink, LinkRecord, None

LEMMA RecordedTyped ==
  ASSUME NEW k \in LinkRecord, NEW m \in ToMachine
  PROVE  Recorded(k, m) \in LinkRecord
BY DEF Recorded, LinkRecord, ToMachine

LEMMA WrittenTyped ==
  ASSUME NEW k \in LinkRecord, NEW u \in Seq(ToMachine)
  PROVE  Written(k, u) \in LinkRecord
<1>1. k.up \o u \in Seq(ToMachine)
  BY ConcatProperties DEF LinkRecord
<1> QED
  BY <1>1 DEF Written, LinkRecord

LEMMA SentTyped ==
  ASSUME NEW k \in LinkRecord, NEW m \in ToMachine
  PROVE  Sent(k, m) \in LinkRecord
BY RecordedTyped, WrittenTyped DEF Sent

LEMMA HungTyped ==
  ASSUME NEW k \in LinkRecord
  PROVE  Hung(k) \in LinkRecord /\ [Hung(k) EXCEPT !.timer = TRUE] \in LinkRecord
BY Ids, NoFrames DEF Hung, LinkRecord

LEMMA DisposedTyped ==
  ASSUME NEW k \in LinkRecord
  PROVE  Disposed(k) \in LinkRecord /\ Opened(k) \in LinkRecord
BY Ids, NoLinkTyped DEF Disposed, Opened, LinkRecord

LEMMA ReplayTyped ==
  ASSUME NEW k \in LinkRecord
  PROVE  Replay(k) \in Seq(ToMachine)
<1> DEFINE claims == SetToSeq(k.attached)
<1>1. k.attached \subseteq Id /\ IsFiniteSet(k.attached)
  BY Ids, FS_Subset DEF LinkRecord
<1>2. claims \in Seq(Id)
  BY <1>1, InSomeOrder
<1> HIDE DEF claims
<1>3. [i \in DOMAIN claims |-> [t |-> "attach", id |-> claims[i]]] \in Seq(ToMachine)
  <2>1. \A i \in 1..Len(claims) : [t |-> "attach", id |-> claims[i]] \in ToMachine
    BY <1>2 DEF ToMachine
  <2>2. Len(claims) \in Nat /\ DOMAIN claims = 1..Len(claims)
    BY <1>2
  <2> QED
    BY <2>1, <2>2, IsASeq
<1>4. k.focused # None => <<[t |-> "focus", id |-> k.focused]>> \in Seq(ToMachine)
  BY DEF LinkRecord, ToMachine
<1> QED
  BY <1>3, <1>4 DEF Replay, claims

(***************************************************************************)
(* What an action leaves behind is of its type.                            *)
(***************************************************************************)

LEMMA TakesTyped ==
  ASSUME MachinesTypeOK, NEW what \in Happening, Takes(what)
  PROVE  chances' \in [Happening -> Nat]
BY DEF MachinesTypeOK, RelayTypeOK, Takes

LEMMA ScopedTyped ==
  ASSUME NEW s \in ScopedId
  PROVE  /\ s = Scoped(s[1], s[2]) /\ s = <<s[1], s[2]>>
         /\ s[1] \in Machine /\ s[2] \in Id
BY DEF ScopedId, Scoped

LEMMA ScopedIs ==
  ASSUME NEW m \in Machine, NEW id \in Id
  PROVE  /\ Scoped(m, id) \in ScopedId
         /\ Scoped(m, id)[1] = m /\ Scoped(m, id)[2] = id
BY DEF ScopedId, Scoped

LEMMA GoneTyped ==
  ASSUME NEW p \in PageRecord, NEW s \in ScopedId
  PROVE  Gone(p, s) \in PageRecord /\ Unmounted(p, s) \in PageRecord
BY DEF Gone, Unmounted, PageRecord

LEMMA AttachedTyped ==
  ASSUME NEW p \in PageRecord, NEW names \in SUBSET (Nat \X ScopedId)
  PROVE  Attached(p, names) \in PageRecord
BY DEF Attached, PageRecord

LEMMA PatchedTyped ==
  ASSUME NEW p \in PageRecord, NEW s \in ScopedId, NEW how \in {"idle", "blocked"}
  PROVE  Patched(p, s, how) \in PageRecord
BY DEF Patched, PageRecord

LEMMA FreeIs ==
  ASSUME Free # {}
  PROVE  (CHOOSE l \in Free : TRUE) \in Link /\ link[CHOOSE l \in Free : TRUE] = NoLink
BY DEF Free

\* Relay.sync leaves links and a page.
LEMMA SyncedTyped ==
  ASSUME MachinesTypeOK, NEW p \in PageRecord, NEW k \in [Link -> LinkRecord], NEW key \in 0 .. MaxKey,
         Synced(p, k, key)
  PROVE  /\ link' \in [Link -> LinkRecord] /\ current' \in Link \cup {None}
         /\ page' \in PageRecord
<1> DEFINE stays == current # None /\ k[current].key = key
           parts == current # None /\ ~stays
           gone == IF parts THEN [k EXCEPT ![current] = Disposed(@)] ELSE k
           new == [NoLink EXCEPT !.key = key, !.closed = FALSE, !.sock = "dialing"]
<1>1. current # None => current \in Link
  BY DEF MachinesTypeOK, RelayTypeOK
<1>2. gone \in [Link -> LinkRecord]
  <2>1. CASE parts
    BY <1>1, <2>1, DisposedTyped
  <2>2. CASE ~parts
    BY <2>2
  <2> QED
    BY <2>1, <2>2
<1>3. new \in LinkRecord
  BY NoLinkTyped DEF LinkRecord
<1>4. page' \in PageRecord
  <2>1. CASE parts
    <3>1. k[current].attached \in SUBSET Id
      BY <1>1, <2>1 DEF LinkRecord
    <3>2. page' = [p EXCEPT !.orphans = @ \cup k[current].attached]
      BY <2>1 DEF Synced
    <3> QED
      BY <3>1, <3>2 DEF PageRecord
  <2>2. CASE ~parts
    BY <2>2 DEF Synced
  <2> QED
    BY <2>1, <2>2
<1>5. CASE ~p.up \/ stays
  <2>1. link' = k /\ current' = current
    BY <1>5 DEF Synced
  <2> QED
    BY <1>4, <2>1 DEF MachinesTypeOK, RelayTypeOK
<1>6. CASE ~(~p.up \/ stays) /\ key = None
  BY <1>2, <1>4, <1>6 DEF Synced
<1>7. CASE ~(~p.up \/ stays) /\ key # None
  <2>1. /\ Free # {} /\ current' = (CHOOSE l \in Free : TRUE)
        /\ link' = [gone EXCEPT ![current'] = new]
    BY <1>7 DEF Synced
  <2>2. current' \in Link
    BY <2>1, FreeIs
  <2> HIDE DEF gone, new
  <2> QED
    BY <1>2, <1>3, <1>4, <2>1, <2>2
<1> QED
  BY <1>4, <1>5, <1>6, <1>7

LEMMA NearNoTyped ==
  ASSUME MachinesTypeOK, NEW id \in Id
  PROVE  NearNo(id) \in Nat
<1>1. CASE \E e \in near : e.id = id
  <2>1. (CHOOSE e \in near : e.id = id) \in near
    BY <1>1
  <2> QED
    BY <1>1, <2>1 DEF NearNo, MachinesTypeOK, RelayTypeOK
<1>2. CASE ~\E e \in near : e.id = id
  BY <1>2 DEF NearNo, MachinesTypeOK, RelayTypeOK
<1> QED
  BY <1>1, <1>2

LEMMA TellsTyped ==
  ASSUME MachinesTypeOK, NEW p \in PageRecord, NEW s \in ScopedId, NEW msg \in ToMachine,
         msg.id = s[2], Tells(p, s, msg)
  PROVE  /\ link' \in [Link -> LinkRecord]
         /\ numbers' \in [ours : Nat, theirs : Nat, near : Nat]
         /\ near' \subseteq [id : Id, no : Nat]
         /\ page' \in PageRecord
<1> USE ScopedTyped
<1>1. CASE ~p.up
  BY <1>1 DEF Tells, MachinesTypeOK, RelayTypeOK
<1>2. CASE p.up /\ s[1] = "there"
  <2>1. page' \in PageRecord
    BY <1>2 DEF Tells, PageRecord
  <2>2. link' \in [Link -> LinkRecord]
    BY <1>2, SentTyped DEF Tells, MachinesTypeOK, RelayTypeOK
  <2> QED
    BY <1>2, <2>1, <2>2 DEF Tells, MachinesTypeOK, RelayTypeOK
<1>3. CASE p.up /\ s[1] # "there"
  <2>1. NearNo(msg.id) \in Nat /\ msg.id \in Id
    BY NearNoTyped
  <2>2. {<<NearNo(msg.id), s>>} \in SUBSET (Nat \X ScopedId)
    BY <2>1
  <2>3. page' \in PageRecord
    BY <1>3, <2>2, AttachedTyped DEF Tells
  <2>4. near' \subseteq [id : Id, no : Nat]
    <3>1. near \subseteq [id : Id, no : Nat]
      BY DEF MachinesTypeOK, RelayTypeOK
    <3>2. [id |-> msg.id, no |-> NearNo(msg.id)] \in [id : Id, no : Nat]
      BY <2>1
    <3>3. \/ near' = near \cup {[id |-> msg.id, no |-> NearNo(msg.id)]}
          \/ near' = {e \in near : e.id # msg.id}
          \/ near' = near
      BY <1>3 DEF Tells
    <3> QED
      BY <3>1, <3>2, <3>3
  <2>5. numbers' \in [ours : Nat, theirs : Nat, near : Nat] /\ link' = link
    <3>1. numbers \in [ours : Nat, theirs : Nat, near : Nat]
      BY DEF MachinesTypeOK, RelayTypeOK
    <3>2. [numbers EXCEPT !.near = @ + 1] \in [ours : Nat, theirs : Nat, near : Nat]
      BY <3>1
    <3>3. link' = link /\ (numbers' = numbers \/ numbers' = [numbers EXCEPT !.near = @ + 1])
      BY <1>3 DEF Tells
    <3> QED
      BY <3>1, <3>2, <3>3
  <2> QED
    BY <2>3, <2>4, <2>5 DEF MachinesTypeOK, RelayTypeOK
<1> QED
  BY <1>1, <1>2, <1>3

LEMMA RelayGoneTyped ==
  ASSUME MachinesTypeOK, RelayGone
  PROVE  /\ link' \in [Link -> LinkRecord] /\ current' = None /\ near' = {}
         /\ page' \in PageRecord /\ ~page'.up
<1>1. ASSUME NEW l \in Link PROVE link'[l] \in LinkRecord
  <2>1. link[l] \in LinkRecord /\ Disposed(link[l]) \in LinkRecord
    BY DisposedTyped DEF MachinesTypeOK, RelayTypeOK
  <2> QED
    BY <2>1, NoLinkTyped DEF RelayGone, LinkRecord
<1>2. link' = [l \in Link |-> link'[l]]
  BY DEF RelayGone
<1>3. page' \in PageRecord /\ ~page'.up
  BY DEF RelayGone, MachinesTypeOK, PageRecord
<1> QED
  BY <1>1, <1>2, <1>3 DEF RelayGone

(***************************************************************************)
(* The type invariant is kept.                                             *)
(***************************************************************************)

LEMMA GatewayTyped ==
  ASSUME MachinesTypeOK, UNCHANGED gateway
  PROVE  /\ servers' \in 0 .. MaxKey /\ refused' \in BOOLEAN
         /\ lastGood' \in [has : BOOLEAN, names : SUBSET Id]
         /\ cache' \in BOOLEAN /\ disk' \in [key : 0 .. MaxKey, cache : BOOLEAN]
         /\ here' \in Runs /\ owed' \in BOOLEAN
         /\ reads' \in Seq(Reading) /\ Len(reads') <= MaxReads
BY DEF MachinesTypeOK, gateway

\* A step of the page, or of a link: what else there is is of its type.
LEMMA RelayStepTyped ==
  ASSUME MachinesTypeOK, UNCHANGED gateway, UNCHANGED there,
         link' \in [Link -> LinkRecord], current' \in Link \cup {None},
         numbers' \in [ours : Nat, theirs : Nat, near : Nat],
         near' \subseteq [id : Id, no : Nat], chances' \in [Happening -> Nat],
         page' \in PageRecord
  PROVE  MachinesTypeOK'
BY GatewayTyped DEF MachinesTypeOK, RelayTypeOK

LEMMA MountsTyped ==
  ASSUME MachinesTypeOK, UNCHANGED gateway, Mounts
  PROVE  MachinesTypeOK'
<1>1. PICK s \in ScopedId : Tells([page EXCEPT !.panes = @ \cup {s}], s, [t |-> "attach", id |-> s[2]])
  BY DEF Mounts
<1> DEFINE p == [page EXCEPT !.panes = @ \cup {s}]
<1>2. p \in PageRecord
  BY DEF MachinesTypeOK, PageRecord
<1>3. [t |-> "attach", id |-> s[2]] \in ToMachine
  BY ScopedTyped DEF ToMachine
<1>4. chances' \in [Happening -> Nat]
  BY TakesTyped DEF Mounts, Happening
<1>5. Tells(p, s, [t |-> "attach", id |-> s[2]])
  BY <1>1
<1> HIDE DEF p
<1> QED
  BY <1>2, <1>3, <1>4, <1>5, TellsTyped, RelayStepTyped DEF Mounts, MachinesTypeOK, RelayTypeOK

LEMMA LeavesTyped ==
  ASSUME MachinesTypeOK, UNCHANGED gateway, UNCHANGED <<current, there>>,
         NEW s \in ScopedId, Tells(Unmounted(page, s), s, [t |-> "detach", id |-> s[2]]),
         chances' \in [Happening -> Nat]
  PROVE  MachinesTypeOK'
<1>1. Unmounted(page, s) \in PageRecord
  BY GoneTyped DEF MachinesTypeOK
<1>2. [t |-> "detach", id |-> s[2]] \in ToMachine
  BY ScopedTyped DEF ToMachine
<1> QED
  BY <1>1, <1>2, TellsTyped, RelayStepTyped DEF MachinesTypeOK, RelayTypeOK

LEMMA UnmountsTyped ==
  ASSUME MachinesTypeOK, UNCHANGED gateway, Unmounts
  PROVE  MachinesTypeOK'
<1>1. PICK s \in page.panes : Tells(Unmounted(page, s), s, [t |-> "detach", id |-> s[2]])
  BY DEF Unmounts
<1>2. s \in ScopedId
  BY DEF MachinesTypeOK, PageRecord
<1>3. chances' \in [Happening -> Nat]
  BY TakesTyped DEF Unmounts, Happening
<1> QED
  BY <1>1, <1>2, <1>3, LeavesTyped DEF Unmounts

LEMMA PaneLeavesTyped ==
  ASSUME MachinesTypeOK, PaneLeaves
  PROVE  MachinesTypeOK'
<1>1. PICK s \in page.panes : Tells(Unmounted(page, s), s, [t |-> "detach", id |-> s[2]])
  BY DEF PaneLeaves
<1>2. s \in ScopedId
  BY DEF MachinesTypeOK, PageRecord
<1>3. chances' \in [Happening -> Nat] /\ UNCHANGED gateway /\ UNCHANGED <<current, there>>
  BY DEF PaneLeaves, MachinesTypeOK, RelayTypeOK
<1> QED
  BY <1>1, <1>2, <1>3, LeavesTyped

LEMMA FocusesTyped ==
  ASSUME MachinesTypeOK, UNCHANGED gateway, Focuses
  PROVE  MachinesTypeOK'
<1>1. PICK s \in page.panes : Tells(page, s, [t |-> "focus", id |-> s[2]])
  BY DEF Focuses
<1>2. s \in ScopedId /\ page \in PageRecord
  BY DEF MachinesTypeOK, PageRecord
<1>3. chances' \in [Happening -> Nat]
  BY TakesTyped DEF Focuses, Happening
<1>4. [t |-> "focus", id |-> s[2]] \in ToMachine
  BY <1>2, ScopedTyped DEF ToMachine
<1> QED
  BY <1>1, <1>2, <1>3, <1>4, TellsTyped, RelayStepTyped DEF Focuses, MachinesTypeOK, RelayTypeOK

LEMMA PageDropsTyped ==
  ASSUME MachinesTypeOK, UNCHANGED gateway, PageDrops
  PROVE  MachinesTypeOK'
<1>1. chances' \in [Happening -> Nat]
  BY TakesTyped DEF PageDrops, Happening
<1> QED
  BY <1>1, RelayGoneTyped, RelayStepTyped DEF PageDrops, MachinesTypeOK, RelayTypeOK

\* The panes that are claimed again at once.
LEMMA MineTyped ==
  ASSUME MachinesTypeOK
  PROVE  LET mine == SetToSeq({s \in page.panes : s[1] = "here"})
         IN /\ mine \in Seq(ScopedId) /\ Len(mine) \in Nat /\ DOMAIN mine = 1 .. Len(mine)
            /\ \A i \in DOMAIN mine : mine[i] \in page.panes /\ mine[i][1] = "here"
            /\ \A s \in page.panes : s[1] = "here" => \E i \in DOMAIN mine : mine[i] = s
<1> DEFINE S == {s \in page.panes : s[1] = "here"}
           mine == SetToSeq(S)
<1>1. S \subseteq ScopedId /\ IsFiniteSet(S)
  BY SessionsFinite, FS_Subset DEF MachinesTypeOK, PageRecord
<1>2. mine \in Seq(S) /\ \A x \in S : \E i \in 1..Len(mine) : mine[i] = x
  BY <1>1, InSomeOrder
<1> HIDE DEF mine
<1>3. mine \in Seq(ScopedId) /\ Len(mine) \in Nat /\ DOMAIN mine = 1 .. Len(mine)
  BY <1>1, <1>2
<1>4. \A i \in DOMAIN mine : mine[i] \in S
  BY <1>2
<1> QED
  BY <1>2, <1>3, <1>4 DEF mine

LEMMA PageReturnsTyped ==
  ASSUME MachinesTypeOK, UNCHANGED gateway, PageReturns(servers)
  PROVE  MachinesTypeOK'
<1> DEFINE mine == SetToSeq({s \in page.panes : s[1] = "here"})
           names == {<<numbers.near + i, mine[i]>> : i \in DOMAIN mine}
           p == [page EXCEPT !.up = TRUE, !.painted = {},
                   !.orphans = IF servers = None THEN Theirs(page) ELSE {}]
           new == [NoLink EXCEPT !.key = servers, !.closed = FALSE, !.sock = "dialing",
                                 !.attached = Theirs(page)]
<1>1. Returned(page, servers)
  BY DEF PageReturns
<1>2. /\ numbers' = [numbers EXCEPT !.ours = 0, !.near = @ + Len(mine)]
      /\ near' = {[id |-> n[2][2], no |-> n[1]] : n \in names}
      /\ page' = Attached(p, names)
  BY <1>1 DEF Returned
<1>3. /\ mine \in Seq(ScopedId) /\ Len(mine) \in Nat /\ DOMAIN mine = 1 .. Len(mine)
      /\ \A i \in DOMAIN mine : mine[i] \in ScopedId
  BY MineTyped DEF MachinesTypeOK, PageRecord
<1> HIDE DEF mine
<1>4. numbers \in [ours : Nat, theirs : Nat, near : Nat] /\ numbers.near \in Nat
  BY DEF MachinesTypeOK, RelayTypeOK
<1>5. names \in SUBSET (Nat \X ScopedId)
  BY <1>3, <1>4
<1> HIDE DEF names
<1>6. numbers' \in [ours : Nat, theirs : Nat, near : Nat]
  <2>1. numbers' = [ours |-> 0, theirs |-> numbers.theirs, near |-> numbers.near + Len(mine)]
    BY <1>2, <1>4
  <2>2. numbers.theirs \in Nat /\ numbers.near + Len(mine) \in Nat
    BY <1>3, <1>4
  <2> QED
    BY <2>1, <2>2
<1>7. near' \subseteq [id : Id, no : Nat]
  <2>1. \A n \in names : n[1] \in Nat /\ n[2] \in ScopedId /\ n[2][2] \in Id
    BY <1>5, ScopedTyped
  <2>2. \A n \in names : [id |-> n[2][2], no |-> n[1]] \in [id : Id, no : Nat]
    BY <2>1
  <2> QED
    BY <1>2, <2>2
<1>8. Theirs(page) \in SUBSET Id
  BY ScopedTyped DEF Theirs, MachinesTypeOK, PageRecord
<1>9. p \in PageRecord
  BY <1>8 DEF MachinesTypeOK, PageRecord
<1> HIDE DEF p
<1>10. page' \in PageRecord
  BY <1>2, <1>5, <1>9, AttachedTyped
<1>11. new \in LinkRecord
  BY <1>8, NoLinkTyped DEF LinkRecord, MachinesTypeOK
<1>12. link' \in [Link -> LinkRecord] /\ current' \in Link \cup {None}
  <2>1. CASE servers = None
    BY <2>1 DEF PageReturns, MachinesTypeOK, RelayTypeOK
  <2>2. CASE servers # None
    <3>1. /\ Free # {} /\ current' = (CHOOSE l \in Free : TRUE)
          /\ link' = [link EXCEPT ![current'] = new]
      BY <2>2 DEF PageReturns
    <3>2. current' \in Link
      BY <3>1, FreeIs
    <3> HIDE DEF new
    <3> QED
      BY <1>11, <3>1, <3>2 DEF MachinesTypeOK, RelayTypeOK
  <2> QED
    BY <2>1, <2>2
<1>13. UNCHANGED there /\ chances' \in [Happening -> Nat]
  BY DEF PageReturns, MachinesTypeOK, RelayTypeOK
<1> QED
  BY <1>6, <1>7, <1>10, <1>12, <1>13, RelayStepTyped

LEMMA LinkTyped ==
  ASSUME MachinesTypeOK, NEW l \in Link
  PROVE  /\ link[l] \in LinkRecord
         /\ link[l].up \in Seq(ToMachine) /\ link[l].down \in Seq(FromMachine)
         /\ link[l].far \in SUBSET [id : Id, no : Nat]
         /\ link[l].streams \in SUBSET [theirs : Nat, ours : Nat, id : Id]
         /\ link[l].attached \in SUBSET Id /\ link[l].focused \in Id \cup {None}
         /\ link[l].mute \in BOOLEAN /\ link[l].closed \in BOOLEAN /\ link[l].timer \in BOOLEAN
BY DEF MachinesTypeOK, RelayTypeOK, LinkRecord

\* A step that changes one link, and nothing that the relay keeps.
LEMMA OneLinkTyped ==
  ASSUME MachinesTypeOK, NEW l \in Link, NEW k \in LinkRecord, link' = [link EXCEPT ![l] = k]
  PROVE  link' \in [Link -> LinkRecord] /\ link'[l] = k
BY DEF MachinesTypeOK, RelayTypeOK

LEMMA LinkOpensTyped ==
  ASSUME MachinesTypeOK, UNCHANGED gateway, NEW l \in Link, LinkOpens(l)
  PROVE  MachinesTypeOK'
<1>1. [link[l] EXCEPT !.sock = "open"] \in LinkRecord /\ Replay(link[l]) \in Seq(ToMachine)
  BY LinkTyped, ReplayTyped DEF LinkRecord
<1>2. Written([link[l] EXCEPT !.sock = "open"], Replay(link[l])) \in LinkRecord
  BY <1>1, WrittenTyped
<1>3. link' = [link EXCEPT ![l] = Written([link[l] EXCEPT !.sock = "open"], Replay(link[l]))]
  BY DEF LinkOpens, MachinesTypeOK, RelayTypeOK
<1>4. link' \in [Link -> LinkRecord]
  BY <1>2, <1>3, OneLinkTyped
<1>5. page' \in PageRecord
  BY DEF LinkOpens, MachinesTypeOK, PageRecord
<1> QED
  BY <1>4, <1>5, RelayStepTyped DEF LinkOpens, MachinesTypeOK, RelayTypeOK

LEMMA LinkClosesTyped ==
  ASSUME MachinesTypeOK, UNCHANGED gateway, NEW l \in Link, LinkCloses(l)
  PROVE  MachinesTypeOK'
<1>1. link[l] \in LinkRecord
  BY LinkTyped
<1>2. /\ Hung(link[l]) \in LinkRecord /\ [Hung(link[l]) EXCEPT !.timer = TRUE] \in LinkRecord
      /\ NoLink \in LinkRecord
  BY <1>1, HungTyped, NoLinkTyped
<1>3. \E k \in LinkRecord : link' = [link EXCEPT ![l] = k]
  BY <1>2 DEF LinkCloses, MachinesTypeOK, RelayTypeOK
<1>4. link' \in [Link -> LinkRecord]
  BY <1>3, OneLinkTyped
<1>5. chances' \in [Happening -> Nat]
  BY TakesTyped DEF LinkCloses, Happening, MachinesTypeOK, RelayTypeOK
<1> QED
  BY <1>4, <1>5, RelayStepTyped DEF LinkCloses, MachinesTypeOK, RelayTypeOK

LEMMA LinkRetriesTyped ==
  ASSUME MachinesTypeOK, UNCHANGED gateway, NEW l \in Link, LinkRetries(l)
  PROVE  MachinesTypeOK'
<1>1. Opened(link[l]) \in LinkRecord
  BY LinkTyped, DisposedTyped
<1>2. link' = [link EXCEPT ![l] = Opened(link[l])]
  BY DEF LinkRetries, MachinesTypeOK, RelayTypeOK
<1>3. link' \in [Link -> LinkRecord]
  BY <1>1, <1>2, OneLinkTyped
<1> QED
  BY <1>3, RelayStepTyped DEF LinkRetries, MachinesTypeOK, RelayTypeOK

\* What the machine's frames are.
LEMMA FrameTyped ==
  ASSUME NEW id \in Id, NEW no \in Nat, NEW says \in {"idle", "blocked"}
  PROVE  /\ Frame("attached", id, no, "") \in FromMachine
         /\ Frame("output", id, no, "") \in FromMachine
         /\ Frame("error", id, no, "") \in FromMachine
         /\ Frame("state", id, no, says) \in FromMachine
         /\ Frame("invalidate", None, 0, "") \in FromMachine
BY DEF Frame, FromMachine

LEMMA RunsIs ==
  ASSUME NEW runs \in Runs
  PROVE  DOMAIN runs \in SUBSET Id /\ \A id \in DOMAIN runs : runs[id] \in {"idle", "blocked"}
BY DEF Runs

\* The frame the machine takes, and what it makes of it.
LEMMA TakenTyped ==
  ASSUME MachinesTypeOK, NEW l \in Link, link[l].up # <<>>
  PROVE  /\ Head(link[l].up) \in ToMachine /\ Tail(link[l].up) \in Seq(ToMachine)
         /\ [link[l] EXCEPT !.up = Tail(@)] \in LinkRecord
<1>1. Head(link[l].up) \in ToMachine /\ Tail(link[l].up) \in Seq(ToMachine)
  BY LinkTyped, HeadTailProperties
<1> QED
  BY <1>1, LinkTyped DEF LinkRecord

LEMMA FarTakesTyped ==
  ASSUME MachinesTypeOK, UNCHANGED gateway, NEW l \in Link, FarTakes(l)
  PROVE  MachinesTypeOK'
<1> DEFINE msg == Head(link[l].up)
           has == {e \in link[l].far : e.id = msg.id}
           no == IF has # {} THEN (CHOOSE e \in has : TRUE).no ELSE numbers.theirs + 1
           took == [link[l] EXCEPT !.up = Tail(@)]
           runs == msg.id \in DOMAIN there.runs
           answers == <<Frame("attached", msg.id, no, ""), Frame("state", msg.id, 0, there.runs[msg.id])>>
<1>1. msg \in ToMachine /\ took \in LinkRecord /\ msg.id \in Id
  BY TakenTyped DEF FarTakes, ToMachine
<1>2. no \in Nat
  <2>1. has # {} => (CHOOSE e \in has : TRUE) \in has
    OBVIOUS
  <2>2. has \subseteq [id : Id, no : Nat]
    BY LinkTyped
  <2> QED
    BY <2>1, <2>2 DEF MachinesTypeOK, RelayTypeOK
<1>3. /\ took.down \in Seq(FromMachine) /\ took.far \in SUBSET [id : Id, no : Nat]
      /\ took.farFocus \in Id \cup {None}
  BY <1>1 DEF LinkRecord
<1>4. has \in SUBSET took.far /\ took.far = link[l].far
  BY <1>1 DEF LinkRecord
<1>5. there.runs \in Runs
  BY DEF MachinesTypeOK
<1> HIDE DEF no
<1>6. /\ link' = [link EXCEPT ![l] =
             CASE msg.t = "attach" /\ runs ->
                    [took EXCEPT !.down = @ \o answers, !.far = @ \cup {[id |-> msg.id, no |-> no]}]
               [] msg.t = "attach" /\ ~runs ->
                    [took EXCEPT !.down = Append(@, Frame("error", msg.id, 0, ""))]
               [] msg.t = "detach" ->
                    [took EXCEPT !.far = @ \ has, !.farFocus = IF @ = msg.id THEN None ELSE @]
               [] OTHER -> [took EXCEPT !.farFocus = IF has # {} THEN msg.id ELSE @]]
      /\ numbers' = IF msg.t = "attach" /\ runs /\ has = {} THEN [numbers EXCEPT !.theirs = no] ELSE numbers
      /\ UNCHANGED <<current, there, near, page, chances>>
  BY DEF FarTakes, no
<1> HIDE DEF has, took, runs, msg, answers
<1>7. CASE msg.t = "attach" /\ runs
  <2>1. there.runs[msg.id] \in {"idle", "blocked"}
    BY <1>5, <1>7, RunsIs DEF runs
  <2>2. answers \in Seq(FromMachine)
    <3>1. 0 \in Nat /\ \A f, g \in FromMachine : <<f, g>> \in Seq(FromMachine)
      OBVIOUS
    <3> QED
      BY <1>1, <1>2, <2>1, <3>1, FrameTyped DEF answers
  <2>3. took.down \o answers \in Seq(FromMachine)
    BY <1>3, <2>2, ConcatProperties
  <2>4. [took EXCEPT !.down = @ \o answers, !.far = @ \cup {[id |-> msg.id, no |-> no]}] \in LinkRecord
    <3>1. took.far \cup {[id |-> msg.id, no |-> no]} \in SUBSET [id : Id, no : Nat]
      BY <1>1, <1>2, <1>3
    <3> QED
      BY <1>1, <2>3, <3>1 DEF LinkRecord
  <2>5. link' = [link EXCEPT ![l] = [took EXCEPT !.down = @ \o answers,
                                                 !.far = @ \cup {[id |-> msg.id, no |-> no]}]]
    BY <1>6, <1>7
  <2>6. link' \in [Link -> LinkRecord]
    BY <2>4, <2>5, OneLinkTyped
  <2>7. numbers' \in [ours : Nat, theirs : Nat, near : Nat]
    BY <1>2, <1>6 DEF MachinesTypeOK, RelayTypeOK
  <2> QED
    BY <1>6, <2>6, <2>7, RelayStepTyped DEF MachinesTypeOK, RelayTypeOK
<1>8. CASE ~(msg.t = "attach" /\ runs)
  <2>1. numbers' = numbers
    BY <1>6, <1>8
  <2>2. \E k \in LinkRecord : link' = [link EXCEPT ![l] = k]
    <3>1. CASE msg.t = "attach"
      <4>1. Append(took.down, Frame("error", msg.id, 0, "")) \in Seq(FromMachine)
        BY <1>1, <1>3, FrameTyped, AppendProperties
      <4>2. [took EXCEPT !.down = Append(@, Frame("error", msg.id, 0, ""))] \in LinkRecord
        BY <1>1, <4>1 DEF LinkRecord
      <4> QED
        BY <1>6, <1>8, <3>1, <4>2
    <3>2. CASE msg.t = "detach"
      <4>1. [took EXCEPT !.far = @ \ has, !.farFocus = IF @ = msg.id THEN None ELSE @] \in LinkRecord
        BY <1>1, <1>3 DEF LinkRecord
      <4> QED
        BY <1>6, <3>2, <4>1
    <3>3. CASE msg.t # "attach" /\ msg.t # "detach"
      <4>1. [took EXCEPT !.farFocus = IF has # {} THEN msg.id ELSE @] \in LinkRecord
        BY <1>1, <1>3 DEF LinkRecord
      <4> QED
        BY <1>6, <3>3, <4>1
    <3> QED
      BY <3>1, <3>2, <3>3
  <2>3. link' \in [Link -> LinkRecord]
    BY <2>2, OneLinkTyped
  <2> QED
    BY <1>6, <2>1, <2>3, RelayStepTyped DEF MachinesTypeOK, RelayTypeOK
<1> QED
  BY <1>7, <1>8

LEMMA FarOutputsTyped ==
  ASSUME MachinesTypeOK, UNCHANGED gateway, NEW l \in Link, FarOutputs(l)
  PROVE  MachinesTypeOK'
<1>1. PICK e \in link[l].far : link' = [link EXCEPT ![l].down = Append(@, Frame("output", e.id, e.no, ""))]
  BY DEF FarOutputs
<1>2. Frame("output", e.id, e.no, "") \in FromMachine
  BY LinkTyped, FrameTyped
<1>3. Append(link[l].down, Frame("output", e.id, e.no, "")) \in Seq(FromMachine)
  BY <1>2, LinkTyped, AppendProperties
<1>4. [link[l] EXCEPT !.down = Append(@, Frame("output", e.id, e.no, ""))] \in LinkRecord
  BY <1>3, LinkTyped DEF LinkRecord
<1>5. link' = [link EXCEPT ![l] = [link[l] EXCEPT !.down = Append(@, Frame("output", e.id, e.no, ""))]]
  BY <1>1 DEF MachinesTypeOK, RelayTypeOK
<1>6. link' \in [Link -> LinkRecord]
  BY <1>4, <1>5, OneLinkTyped
<1>7. chances' \in [Happening -> Nat]
  BY TakesTyped DEF FarOutputs, Happening
<1> QED
  BY <1>6, <1>7, RelayStepTyped DEF FarOutputs, MachinesTypeOK, RelayTypeOK

LEMMA HeardTyped ==
  ASSUME MachinesTypeOK, NEW l \in Link, link[l].down # <<>>
  PROVE  /\ Head(link[l].down) \in FromMachine /\ Tail(link[l].down) \in Seq(FromMachine)
         /\ [link[l] EXCEPT !.down = Tail(@)] \in LinkRecord
<1>1. Head(link[l].down) \in FromMachine /\ Tail(link[l].down) \in Seq(FromMachine)
  BY LinkTyped, HeadTailProperties
<1> QED
  BY <1>1, LinkTyped DEF LinkRecord

LEMMA LinkHearsTyped ==
  ASSUME MachinesTypeOK, UNCHANGED gateway, NEW l \in Link, LinkHears(l, Known)
  PROVE  MachinesTypeOK'
<1> DEFINE msg == Head(link[l].down)
           s == Scoped("there", msg.id)
           heard == [link EXCEPT ![l].down = Tail(@)]
           ours == OurNo(numbers.ours + 1)
           stream == [theirs |-> msg.no, ours |-> ours, id |-> msg.id]
           was == [link[l] EXCEPT !.down = Tail(@)]
<1>1. msg \in FromMachine /\ was \in LinkRecord
  BY HeardTyped DEF LinkHears
<1>2. heard = [link EXCEPT ![l] = was] /\ heard \in [Link -> LinkRecord] /\ heard[l] = was
  BY <1>1 DEF MachinesTypeOK, RelayTypeOK
<1>3. ours \in Nat /\ numbers.ours + 1 \in Nat
  BY Ids DEF OurNo, MachinesTypeOK, RelayTypeOK
<1>4. UNCHANGED <<current, there, near, chances>>
  BY DEF LinkHears
<1>5. CASE msg.t = "attached"
  <2>1. msg.id \in Id /\ msg.no \in Nat /\ s \in ScopedId
    BY <1>1, <1>5, ScopedIs DEF FromMachine, Machine
  <2>2. [was EXCEPT !.streams = {e \in @ : e.theirs # msg.no} \cup {stream}] \in LinkRecord
    <3>1. stream \in [theirs : Nat, ours : Nat, id : Id]
      BY <1>3, <2>1
    <3> HIDE DEF stream, was
    <3> QED
      BY <1>1, <3>1 DEF LinkRecord
  <2>3. link' = [heard EXCEPT ![l].streams = {e \in @ : e.theirs # msg.no} \cup {stream}]
    BY <1>5 DEF LinkHears
  <2>4. link' \in [Link -> LinkRecord]
    BY <1>2, <2>2, <2>3
  <2>5. \/ UNCHANGED <<numbers, page>>
        \/ /\ numbers' = [numbers EXCEPT !.ours = @ + 1]
           /\ page' = [Attached(page, {<<ours, s>>}) EXCEPT
                         !.orphans = IF l = current THEN @ ELSE @ \cup {msg.id}]
    BY <1>5 DEF LinkHears
  <2>6. Attached(page, {<<ours, s>>}) \in PageRecord
    <3>1. {<<ours, s>>} \in SUBSET (Nat \X ScopedId)
      BY <1>3, <2>1
    <3> QED
      BY <3>1, AttachedTyped DEF MachinesTypeOK
  <2>7. page' \in PageRecord
    <3>1. \A p \in PageRecord : [p EXCEPT !.orphans = IF l = current THEN @ ELSE @ \cup {msg.id}] \in PageRecord
      BY <2>1 DEF PageRecord
    <3> QED
      BY <2>5, <2>6, <3>1 DEF MachinesTypeOK
  <2>8. numbers' \in [ours : Nat, theirs : Nat, near : Nat]
    BY <1>3, <2>5 DEF MachinesTypeOK, RelayTypeOK
  <2> QED
    BY <1>4, <2>4, <2>7, <2>8, RelayStepTyped DEF MachinesTypeOK, RelayTypeOK
<1>6. CASE msg.t # "attached"
  <2>1. link' = heard /\ UNCHANGED numbers
    BY <1>6 DEF LinkHears
  <2>2. page' = IF link[l].mute THEN page
                ELSE CASE msg.t = "error" -> Gone(page, s)
                       [] msg.t = "state" -> IF s \in Known THEN Patched(page, s, msg.says) ELSE page
                       [] msg.t = "invalidate" -> [page EXCEPT !.asked = TRUE]
                       [] OTHER -> page
    BY <1>6 DEF LinkHears
  <2>3. page' \in PageRecord
    <3>1. page \in PageRecord /\ [page EXCEPT !.asked = TRUE] \in PageRecord
      BY DEF MachinesTypeOK, PageRecord
    <3>2. msg.t = "error" => Gone(page, s) \in PageRecord
      BY <1>1, <3>1, ScopedIs, GoneTyped DEF FromMachine, Machine
    <3>3. msg.t = "state" => (IF s \in Known THEN Patched(page, s, msg.says) ELSE page) \in PageRecord
      BY <1>1, <3>1, PatchedTyped DEF FromMachine, Known
    <3> QED
      BY <2>2, <3>1, <3>2, <3>3
  <2> QED
    BY <1>2, <1>4, <2>1, <2>3, RelayStepTyped DEF MachinesTypeOK, RelayTypeOK
<1> QED
  BY <1>5, <1>6

\* Frames for every socket the machine has.
LEMMA PushedTyped ==
  ASSUME MachinesTypeOK, NEW f \in FromMachine
  PROVE  /\ Pushed(f) \in [Link -> LinkRecord]
         /\ \A l \in Link : \E q \in Seq(FromMachine) : Pushed(f)[l] = [link[l] EXCEPT !.down = q]
<1>1. ASSUME NEW l \in Link
      PROVE  /\ Pushed(f)[l] \in LinkRecord
             /\ \E q \in Seq(FromMachine) : Pushed(f)[l] = [link[l] EXCEPT !.down = q]
  <2>1. link[l] \in LinkRecord /\ Append(link[l].down, f) \in Seq(FromMachine) /\ link[l].down \in Seq(FromMachine)
    BY LinkTyped, AppendProperties
  <2>2. [link[l] EXCEPT !.down = Append(@, f)] \in LinkRecord
    BY <2>1 DEF LinkRecord
  <2>3. link[l] = [link[l] EXCEPT !.down = link[l].down]
    BY <2>1 DEF LinkRecord
  <2> QED
    BY <2>1, <2>2, <2>3 DEF Pushed
<1> QED
  BY <1>1 DEF Pushed

LEMMA OtherTyped ==
  ASSUME NEW how \in {"idle", "blocked"}
  PROVE  Other(how) \in {"idle", "blocked"}
BY DEF Other

LEMMA RunsTyped ==
  ASSUME NEW runs \in Runs, NEW id
  PROVE  /\ [runs EXCEPT ![id] = Other(@)] \in Runs
         /\ Without(runs, id) \in Runs
<1>1. runs \in [DOMAIN runs -> {"idle", "blocked"}] /\ DOMAIN runs \in SUBSET Id
  BY DEF Runs
<1>2. [runs EXCEPT ![id] = Other(@)] \in [DOMAIN runs -> {"idle", "blocked"}]
  BY <1>1, OtherTyped
<1>3. Without(runs, id) \in [DOMAIN runs \ {id} -> {"idle", "blocked"}] /\ DOMAIN runs \ {id} \in SUBSET Id
  BY <1>1 DEF Without
<1> QED
  BY <1>1, <1>2, <1>3 DEF Runs

LEMMA AttentionChangesTyped ==
  ASSUME MachinesTypeOK, AttentionChanges
  PROVE  MachinesTypeOK'
<1>1. chances' \in [Happening -> Nat]
  BY TakesTyped DEF AttentionChanges, Happening
<1>2. UNCHANGED <<current, numbers, near, servers, refused, lastGood, cache, disk, reads, owed>>
  BY DEF AttentionChanges
<1>3. there.runs \in Runs /\ here \in Runs
  BY DEF MachinesTypeOK
<1>4. ASSUME NEW id \in DOMAIN there.runs,
             there' = [there EXCEPT !.runs[id] = Other(@)],
             link' = Pushed(Frame("state", id, 0, Other(there.runs[id]))),
             UNCHANGED <<here, page>>
      PROVE  MachinesTypeOK'
  <2>1. id \in Id /\ there.runs[id] \in {"idle", "blocked"}
    BY <1>3, RunsIs
  <2>2. link' \in [Link -> LinkRecord]
    BY <1>4, <2>1, OtherTyped, FrameTyped, PushedTyped
  <2>3. there' = [there EXCEPT !.runs = [there.runs EXCEPT ![id] = Other(@)]]
    BY <1>4 DEF MachinesTypeOK
  <2>4. there' \in [up : BOOLEAN, takes : SUBSET (1 .. MaxKey), given : 0 .. MaxKey, runs : Runs]
    BY <1>3, <2>3, RunsTyped DEF MachinesTypeOK
  <2> QED
    BY <1>1, <1>2, <1>4, <2>2, <2>4 DEF MachinesTypeOK, RelayTypeOK
<1>5. ASSUME NEW id \in DOMAIN here,
             here' = [here EXCEPT ![id] = Other(@)],
             page' = IF page.up THEN Patched(page, Scoped("here", id), here'[id]) ELSE page,
             UNCHANGED <<there, link>>
      PROVE  MachinesTypeOK'
  <2>1. here' \in Runs /\ id \in DOMAIN here' /\ id \in Id
    BY <1>3, <1>5, RunsIs, RunsTyped
  <2>2. Scoped("here", id) \in ScopedId /\ here'[id] \in {"idle", "blocked"}
    BY <2>1, ScopedIs, RunsIs DEF Machine
  <2>3. page' \in PageRecord
    BY <1>5, <2>2, PatchedTyped DEF MachinesTypeOK
  <2> QED
    BY <1>1, <1>2, <1>5, <2>1, <2>3 DEF MachinesTypeOK, RelayTypeOK
<1> QED
  BY <1>4, <1>5 DEF AttentionChanges

LEMMA InvalidatedTyped == MachinesTypeOK => Invalidated(page) \in PageRecord
BY DEF Invalidated, MachinesTypeOK, PageRecord

LEMMA KillsTyped ==
  ASSUME MachinesTypeOK, Kills
  PROVE  MachinesTypeOK'
<1>1. chances' \in [Happening -> Nat]
  BY TakesTyped DEF Kills, Happening
<1>2. UNCHANGED <<current, numbers, servers, refused, lastGood, cache, disk, reads, owed>>
  BY DEF Kills
<1>3. there.runs \in Runs /\ here \in Runs
  BY DEF MachinesTypeOK
<1>4. ASSUME NEW id \in Id,
             here' = Without(here, id), near' = {e \in near : e.id # id},
             page' = Invalidated(page), UNCHANGED <<there, link>>
      PROVE  MachinesTypeOK'
  BY <1>1, <1>2, <1>3, <1>4, InvalidatedTyped, RunsTyped DEF MachinesTypeOK, RelayTypeOK
<1>5. ASSUME NEW id \in Id,
             there' = [there EXCEPT !.runs = Without(@, id)],
             link' = [l \in Link |-> [Pushed(Frame("invalidate", None, 0, ""))[l] EXCEPT
                        !.far = {e \in @ : e.id # id}, !.farFocus = IF @ = id THEN None ELSE @]],
             UNCHANGED <<here, near, page>>
      PROVE  MachinesTypeOK'
  <2>1. Pushed(Frame("invalidate", None, 0, "")) \in [Link -> LinkRecord]
    <3>1. Frame("invalidate", None, 0, "") \in FromMachine
      BY DEF Frame, FromMachine
    <3> QED
      BY <3>1, PushedTyped
  <2>2. \A k \in LinkRecord :
          [k EXCEPT !.far = {e \in @ : e.id # id}, !.farFocus = IF @ = id THEN None ELSE @] \in LinkRecord
    BY DEF LinkRecord
  <2>3. link' \in [Link -> LinkRecord]
    BY <1>5, <2>1, <2>2
  <2>4. there' \in [up : BOOLEAN, takes : SUBSET (1 .. MaxKey), given : 0 .. MaxKey, runs : Runs]
    BY <1>3, <1>5, RunsTyped DEF MachinesTypeOK
  <2> QED
    BY <1>1, <1>2, <1>5, <2>3, <2>4 DEF MachinesTypeOK, RelayTypeOK
<1> QED
  BY <1>4, <1>5, ScopedTyped DEF Kills

LEMMA TheirStopsTyped ==
  ASSUME MachinesTypeOK, TheirStops
  PROVE  MachinesTypeOK'
<1>1. chances' \in [Happening -> Nat]
  BY TakesTyped DEF TheirStops, Happening
<1>2. \A k \in LinkRecord :
        [k EXCEPT !.sock = IF @ = "open" THEN "dying" ELSE @, !.up = <<>>, !.far = {}, !.farFocus = None]
          \in LinkRecord
  BY Ids, NoFrames DEF LinkRecord
<1>3. link' \in [Link -> LinkRecord]
  BY <1>2 DEF TheirStops, MachinesTypeOK, RelayTypeOK
<1>4. there' \in [up : BOOLEAN, takes : SUBSET (1 .. MaxKey), given : 0 .. MaxKey, runs : Runs]
  BY DEF TheirStops, MachinesTypeOK
<1> QED
  BY <1>1, <1>3, <1>4, GatewayTyped DEF TheirStops, MachinesTypeOK, RelayTypeOK

LEMMA TheirStartsTyped ==
  ASSUME MachinesTypeOK, TheirStarts
  PROVE  MachinesTypeOK'
BY GatewayTyped DEF TheirStarts, MachinesTypeOK, RelayTypeOK

LEMMA PasswordChangesTyped ==
  ASSUME MachinesTypeOK, PasswordChanges
  PROVE  MachinesTypeOK'
<1>1. chances' \in [Happening -> Nat]
  BY TakesTyped DEF PasswordChanges, Happening
<1> QED
  BY <1>1, GatewayTyped DEF PasswordChanges, MachinesTypeOK, RelayTypeOK

LEMMA LinksTyped ==
  ASSUME MachinesTypeOK, Links
  PROVE  MachinesTypeOK'
<1>1. chances' \in [Happening -> Nat]
  BY TakesTyped DEF Links, Happening
<1> DEFINE token == there.given + 1
<1>2. token \in 1 .. MaxKey /\ token \in 0 .. MaxKey
  BY Ids DEF Links, MachinesTypeOK
<1>3. Synced(Invalidated(page), link, token) /\ link \in [Link -> LinkRecord]
  BY DEF Links, MachinesTypeOK, RelayTypeOK
<1>4. there' = [there EXCEPT !.given = token, !.takes = @ \cup {token}] /\ servers' = token
  BY DEF Links
<1> HIDE DEF token
<1>5. there' \in [up : BOOLEAN, takes : SUBSET (1 .. MaxKey), given : 0 .. MaxKey, runs : Runs]
  BY <1>2, <1>4 DEF MachinesTypeOK
<1> QED
  BY <1>1, <1>2, <1>3, <1>4, <1>5, InvalidatedTyped, SyncedTyped DEF Links, MachinesTypeOK, RelayTypeOK

LEMMA UnlinksTyped ==
  ASSUME MachinesTypeOK, Unlinks
  PROVE  MachinesTypeOK'
<1>1. chances' \in [Happening -> Nat]
  BY TakesTyped DEF Unlinks, Happening
<1>2. Synced(Invalidated(page), link, None) /\ link \in [Link -> LinkRecord] /\ None \in 0 .. MaxKey
  BY Ids DEF Unlinks, MachinesTypeOK, RelayTypeOK, None
<1>3. reads' \in Seq(Reading) /\ Len(reads') = Len(reads)
  <2>1. reads \in Seq(Reading) /\ Len(reads) \in Nat /\ DOMAIN reads = 1 .. Len(reads)
    BY DEF MachinesTypeOK
  <2>2. \A i \in 1 .. Len(reads) : [reads[i] EXCEPT !.owed = FALSE] \in Reading
    <3>1. \A r \in Reading : [r EXCEPT !.owed = FALSE] \in Reading
      BY DEF Reading
    <3> QED
      BY <2>1, <3>1
  <2>3. reads' = [i \in 1 .. Len(reads) |-> [reads[i] EXCEPT !.owed = FALSE]]
    BY <2>1 DEF Unlinks
  <2> QED
    BY <2>1, <2>2, <2>3
<1>4. link' \in [Link -> LinkRecord] /\ current' \in Link \cup {None} /\ page' \in PageRecord
  BY <1>2, InvalidatedTyped, SyncedTyped
<1>5. lastGood' \in [has : BOOLEAN, names : SUBSET Id]
  BY DEF Unlinks, NoSlice
<1> QED
  BY <1>1, <1>2, <1>3, <1>4, <1>5 DEF Unlinks, MachinesTypeOK, RelayTypeOK

LEMMA SavesTyped ==
  ASSUME MachinesTypeOK, Saves
  PROVE  MachinesTypeOK'
BY DEF Saves, Saved, MachinesTypeOK, RelayTypeOK

LEMMA GatewayRestartsTyped ==
  ASSUME MachinesTypeOK, GatewayRestarts
  PROVE  MachinesTypeOK'
<1>1. chances' \in [Happening -> Nat]
  BY TakesTyped DEF GatewayRestarts, Happening
<1>2. /\ disk' \in [key : 0 .. MaxKey, cache : BOOLEAN] /\ servers' \in 0 .. MaxKey
      /\ cache' \in BOOLEAN /\ owed' \in BOOLEAN
  BY DEF GatewayRestarts, Saved, MachinesTypeOK
<1>3. reads' \in Seq(Reading) /\ Len(reads') = 0
  BY EmptySeq DEF GatewayRestarts
<1>4. numbers' \in [ours : Nat, theirs : Nat, near : Nat]
  BY DEF GatewayRestarts, MachinesTypeOK, RelayTypeOK
<1>5. lastGood' \in [has : BOOLEAN, names : SUBSET Id] /\ refused' \in BOOLEAN
  BY DEF GatewayRestarts, NoSlice
<1> QED
  BY <1>1, <1>2, <1>3, <1>4, <1>5, RelayGoneTyped DEF GatewayRestarts, MachinesTypeOK, RelayTypeOK, MaxReads

LEMMA ReadIs ==
  ASSUME MachinesTypeOK, NEW i \in DOMAIN reads
  PROVE  /\ reads[i] \in Reading /\ i \in 1 .. Len(reads) /\ Len(reads) \in Nat
         /\ reads[i].here \in Runs /\ reads[i].there \in Runs
         /\ DOMAIN reads[i].there \in SUBSET Id
<1>1. reads \in Seq(Reading) /\ i \in 1 .. Len(reads) /\ Len(reads) \in Nat
  BY DEF MachinesTypeOK
<1>2. reads[i] \in Reading
  BY <1>1
<1>3. reads[i].here \in Runs /\ reads[i].there \in Runs
  BY <1>2 DEF Reading
<1> QED
  BY <1>1, <1>2, <1>3, RunsIs

LEMMA NothingTyped == Nothing \in Runs
BY DEF Nothing, Runs

LEMMA ReadStartsTyped ==
  ASSUME MachinesTypeOK, ReadStarts
  PROVE  MachinesTypeOK'
<1> DEFINE read == [here |-> here, asks |-> servers, answer |-> "", there |-> Nothing, owed |-> owed]
<1>1. chances' \in [Happening -> Nat]
  BY TakesTyped DEF ReadStarts, Happening, MachinesTypeOK, RelayTypeOK
<1>2. read \in Reading
  BY NothingTyped DEF MachinesTypeOK, Reading
<1> HIDE DEF read
<1>3. reads' = Append(reads, read) /\ Len(reads) < MaxReads
  BY DEF ReadStarts, read
<1>4. reads' \in Seq(Reading) /\ Len(reads') <= MaxReads
  BY <1>2, <1>3 DEF MachinesTypeOK, MaxReads
<1>5. page' \in PageRecord
  BY DEF ReadStarts, MachinesTypeOK, PageRecord
<1> QED
  BY <1>1, <1>4, <1>5 DEF ReadStarts, MachinesTypeOK, RelayTypeOK

LEMMA PeerAnswersTyped ==
  ASSUME MachinesTypeOK, NEW i \in DOMAIN reads, PeerAnswers(i)
  PROVE  MachinesTypeOK'
<1>1. \A r \in Reading :
        /\ [r EXCEPT !.answer = "ok", !.there = there.runs] \in Reading
        /\ [r EXCEPT !.answer = "refused"] \in Reading
        /\ [r EXCEPT !.answer = "off"] \in Reading
  <2>1. there.runs \in Runs
    BY DEF MachinesTypeOK
  <2> QED
    BY <2>1 DEF Reading
<1>2. \E r \in Reading : reads' = [reads EXCEPT ![i] = r]
  <2>1. \/ reads' = [reads EXCEPT ![i] = [reads[i] EXCEPT !.answer = "ok", !.there = there.runs]]
        \/ reads' = [reads EXCEPT ![i] = [reads[i] EXCEPT !.answer = "refused"]]
        \/ reads' = [reads EXCEPT ![i] = [reads[i] EXCEPT !.answer = "off"]]
    BY ReadIs DEF PeerAnswers, MachinesTypeOK
  <2> QED
    BY <1>1, <2>1, ReadIs
<1>3. reads' \in Seq(Reading) /\ Len(reads') <= MaxReads
  BY <1>2, ReadIs DEF MachinesTypeOK
<1>4. chances' \in [Happening -> Nat]
  <2>1. chances \in [Happening -> Nat] /\ there.up \in BOOLEAN
    BY DEF MachinesTypeOK, RelayTypeOK
  <2>2. "line" \in Happening
    BY DEF Happening
  <2>3. \/ chances' = chances
        \/ chances["line"] > 0 /\ chances' = [chances EXCEPT !["line"] = @ - 1]
    BY <2>1 DEF PeerAnswers
  <2> QED
    BY <2>1, <2>2, <2>3
<1> QED
  BY <1>3, <1>4 DEF PeerAnswers, MachinesTypeOK, RelayTypeOK

LEMMA ListedTyped ==
  ASSUME NEW runs \in Runs, NEW id
  PROVE  Listed(runs, id) \in {"absent", "idle", "blocked"}
BY RunsIs DEF Listed

\* Taking one of the reads out of the list of them.
LEMMA RemovedTyped ==
  ASSUME MachinesTypeOK, NEW i \in DOMAIN reads
  PROVE  RemoveAt(reads, i) \in Seq(Reading) /\ Len(RemoveAt(reads, i)) <= MaxReads
<1>1. reads \in Seq(Reading) /\ i \in 1 .. Len(reads) /\ Len(reads) \in Nat /\ Len(reads) <= MaxReads
  BY ReadIs DEF MachinesTypeOK
<1>2. RemoveAt(reads, i) = SubSeq(reads, 1, i - 1) \o SubSeq(reads, i + 1, Len(reads))
  BY DEF RemoveAt
<1>3. /\ SubSeq(reads, 1, i - 1) \in Seq(Reading) /\ Len(SubSeq(reads, 1, i - 1)) = i - 1
      /\ SubSeq(reads, i + 1, Len(reads)) \in Seq(Reading)
      /\ Len(SubSeq(reads, i + 1, Len(reads))) = Len(reads) - i
  BY <1>1
<1>4. RemoveAt(reads, i) \in Seq(Reading) /\ Len(RemoveAt(reads, i)) = (i - 1) + (Len(reads) - i)
  BY <1>2, <1>3, ConcatProperties
<1> QED
  BY <1>1, <1>4 DEF MaxReads

LEMMA ReadEndsTyped ==
  ASSUME MachinesTypeOK, NEW i \in DOMAIN reads, ReadEnds(i)
  PROVE  MachinesTypeOK'
<1> DEFINE read == reads[i]
           row == [s \in ScopedId |-> IF s[1] = "here" THEN Listed(read.here, s[2]) ELSE Listed(read.there, s[2])]
<1>1. read \in Reading /\ read.here \in Runs /\ read.there \in Runs /\ DOMAIN read.there \in SUBSET Id
  BY ReadIs
<1>2. row \in [ScopedId -> {"absent", "idle", "blocked"}]
  BY <1>1, ListedTyped
<1> HIDE DEF row
<1>3. page' = [page EXCEPT !.tabs = read.asks # None /\ (read.answer = "ok" \/ Remembers), !.row = row]
  BY DEF ReadEnds, row
<1>4. page' \in PageRecord
  <2>1. (read.asks # None /\ (read.answer = "ok" \/ Remembers)) \in BOOLEAN
    OBVIOUS
  <2> QED
    BY <1>2, <1>3, <2>1 DEF MachinesTypeOK, PageRecord
<1>5. lastGood' \in [has : BOOLEAN, names : SUBSET Id]
  BY <1>1 DEF ReadEnds, MachinesTypeOK
<1>6. reads' \in Seq(Reading) /\ Len(reads') <= MaxReads
  BY RemovedTyped DEF ReadEnds
<1>7. refused' \in BOOLEAN /\ cache' \in BOOLEAN /\ owed' \in BOOLEAN
  BY DEF ReadEnds, MachinesTypeOK
<1> QED
  BY <1>4, <1>5, <1>6, <1>7 DEF ReadEnds, MachinesTypeOK, RelayTypeOK

LEMMA InitTyped == MachinesInit => MachinesTypeOK
<1> SUFFICES ASSUME MachinesInit PROVE MachinesTypeOK
  OBVIOUS
<1>1. 1 \in 0 .. MaxKey /\ 1 \in 1 .. MaxKey /\ None \in 0 .. MaxKey
  BY RelayAssumption DEF None
<1>2. [id \in Id |-> "idle"] \in Runs
  BY DEF Runs
<1>3. link \in [Link -> LinkRecord]
  BY NoLinkTyped DEF MachinesInit
<1>4. page \in PageRecord
  BY DEF MachinesInit, PageRecord
<1>5. there \in [up : BOOLEAN, takes : SUBSET (1 .. MaxKey), given : 0 .. MaxKey, runs : Runs]
  BY <1>1, <1>2 DEF MachinesInit
<1>6. reads \in Seq(Reading) /\ Len(reads) <= MaxReads
  BY EmptySeq DEF MachinesInit, MaxReads
<1>7. chances \in [Happening -> Nat]
  BY RelayAssumption DEF MachinesInit
<1> QED
  BY <1>1, <1>2, <1>3, <1>4, <1>5, <1>6, <1>7 DEF MachinesInit, MachinesTypeOK, RelayTypeOK, NoSlice

LEMMA StepTyped == MachinesTypeOK /\ [MachinesNext]_machinesVars => MachinesTypeOK'
<1> SUFFICES ASSUME MachinesTypeOK, [MachinesNext]_machinesVars PROVE MachinesTypeOK'
  OBVIOUS
<1>1. CASE UNCHANGED machinesVars
  BY <1>1 DEF machinesVars, MachinesTypeOK, RelayTypeOK
<1>2. CASE RelayNext
  <2>1. UNCHANGED gateway
    BY <1>2 DEF RelayNext
  <2>2. CASE Mounts \/ Unmounts \/ Focuses \/ PageDrops \/ PageReturns(servers)
    BY <2>1, <2>2, MountsTyped, UnmountsTyped, FocusesTyped, PageDropsTyped, PageReturnsTyped
  <2>3. ASSUME NEW l \in Link,
               LinkOpens(l) \/ LinkCloses(l) \/ LinkRetries(l) \/ FarTakes(l) \/ FarOutputs(l) \/ LinkHears(l, Known)
        PROVE  MachinesTypeOK'
    BY <2>1, <2>3, LinkOpensTyped, LinkClosesTyped, LinkRetriesTyped, FarTakesTyped, FarOutputsTyped,
       LinkHearsTyped
  <2> QED
    BY <1>2, <2>2, <2>3 DEF RelayNext
<1>3. CASE MachinesNext /\ ~RelayNext
  BY <1>3, ReadStartsTyped, PeerAnswersTyped, ReadEndsTyped, PaneLeavesTyped, AttentionChangesTyped, KillsTyped,
     TheirStopsTyped, TheirStartsTyped, PasswordChangesTyped, LinksTyped, UnlinksTyped, SavesTyped,
     GatewayRestartsTyped DEF MachinesNext
<1> QED
  BY <1>1, <1>2, <1>3

(***************************************************************************)
(* Whose stream a number is.                                               *)
(***************************************************************************)

\* The frames of d that say a stream is a session's.
Naming == {"attached", "output"}

\* Which session a stream number of the machine's is, of all that knows it.
Says(k, no, id) ==
  \/ \E e \in k.far : e.no = no /\ e.id = id
  \/ \E x \in k.streams : x.theirs = no /\ x.id = id
  \/ \E i \in 1..Len(k.down) : k.down[i].t \in Naming /\ k.down[i].no = no /\ k.down[i].id = id

\* A link carries one life of the machine: nothing is left of it once it is closed,
\* it says of a number one thing, and the machine goes on counting from there.
Empty(k) == k.up = <<>> /\ k.down = <<>> /\ k.far = {} /\ k.streams = {} /\ k.farFocus = None
LifeOK(k, last, up) ==
  /\ k.sock \in {"none", "dialing"} => Empty(k)
  /\ (k.timer => k.sock = "none") /\ (k.sock = "closing" => k.closed)
  /\ \A no \in Nat, id, as \in Id : Says(k, no, id) /\ Says(k, no, as) => id = as
  /\ k.sock = "open" \/ k.up # <<>> =>
       up /\ \A no \in Nat, id \in Id : Says(k, no, id) => no <= last

\* A page that is away has no link, and the one it has is its own.
HomeOK ==
  /\ ~page.up => near = {} /\ current = None /\ \A l \in Link : link[l].mute \/ link[l] = NoLink
  /\ current # None => ~link[current].closed /\ ~link[current].mute

\* A number this page has been given is of the session it was given for.
NearOK ==
  \A e \in near :
    /\ e.no <= numbers.near /\ Shows(e.no, Scoped("here", e.id))
    /\ \A f \in near : f.no = e.no => f.id = e.id
OursOK ==
  \A l \in Link : ~link[l].mute => \A x \in link[l].streams :
    /\ x.ours \in Base + 1 .. Base + numbers.ours
    /\ Shows(x.ours, Scoped("there", x.id))

Lives == \A l \in Link : LifeOK(link[l], numbers.theirs, there.up)

StreamsOK == Lives /\ HomeOK /\ (Apart => NearOK /\ OursOK)

\* What says less than another of the same life.
LEMMA SaysFewer ==
  ASSUME NEW k, NEW j, j.far \subseteq k.far,
         \A x \in j.streams : Says(k, x.theirs, x.id),
         \A i \in 1 .. Len(j.down) : j.down[i].t \in Naming => Says(k, j.down[i].no, j.down[i].id)
  PROVE  \A no, id : Says(j, no, id) => Says(k, no, id)
BY DEF Says

LEMMA SaysSame ==
  ASSUME NEW k, NEW j, j.far = k.far, j.streams \subseteq k.streams, j.down = k.down
  PROVE  \A no, id : Says(j, no, id) => Says(k, no, id)
BY DEF Says

LEMMA EmptySays ==
  ASSUME NEW k, Empty(k), NEW no, NEW id
  PROVE  ~Says(k, no, id)
BY DEF Empty, Says

LEMMA LifeLess ==
  ASSUME NEW k, NEW j, NEW last \in Nat, NEW more \in Nat, last <= more, NEW up, LifeOK(k, last, up),
         \A no, id : Says(j, no, id) => Says(k, no, id),
         j.sock \in {"none", "dialing"} => Empty(j),
         (j.timer => j.sock = "none") /\ (j.sock = "closing" => j.closed),
         j.sock = "open" \/ j.up # <<>> => k.sock = "open" \/ k.up # <<>>
  PROVE  LifeOK(j, more, up)
<1>1. \A no \in Nat, id, as \in Id : Says(j, no, id) /\ Says(j, no, as) => id = as
  BY DEF LifeOK
<1>2. j.sock = "open" \/ j.up # <<>> =>
        up /\ \A no \in Nat, id \in Id : Says(j, no, id) => no <= more
  BY DEF LifeOK
<1> QED
  BY <1>1, <1>2 DEF LifeOK

\* A link with nothing in it may be of any life.
LEMMA LifeEmpty ==
  ASSUME NEW k, Empty(k), k.sock # "open", k.sock = "closing" => k.closed, k.timer => k.sock = "none",
         NEW last, NEW up
  PROVE  LifeOK(k, last, up)
BY EmptySays DEF LifeOK, Empty

LEMMA NoLinkLife ==
  ASSUME NEW last, NEW up
  PROVE  LifeOK(NoLink, last, up)
BY LifeEmpty DEF NoLink, Empty

LEMMA SentLife ==
  ASSUME NEW k \in LinkRecord, NEW m \in ToMachine, NEW last \in Nat, NEW up, LifeOK(k, last, up)
  PROVE  LifeOK(Sent(k, m), last, up)
<1> DEFINE r == Recorded(k, m)
           j == Sent(k, m)
<1>1. /\ r \in LinkRecord /\ r.sock = k.sock /\ r.timer = k.timer /\ r.closed = k.closed /\ r.up = k.up
      /\ r.down = k.down /\ r.far = k.far /\ r.farFocus = k.farFocus /\ r.streams \subseteq k.streams
  BY RecordedTyped DEF Recorded, LinkRecord
<1>2. j = Written(r, <<m>>)
  BY DEF Sent
<1> HIDE DEF r, j
<1>3. /\ j.sock = r.sock /\ j.timer = r.timer /\ j.closed = r.closed /\ j.down = r.down
      /\ j.far = r.far /\ j.farFocus = r.farFocus /\ j.streams = r.streams
      /\ j.sock # "open" => j.up = r.up
  BY <1>1, <1>2 DEF Written, LinkRecord
<1>4. \A no, id : Says(j, no, id) => Says(k, no, id)
  BY <1>1, <1>3, SaysSame
<1>5. j.sock \in {"none", "dialing"} => Empty(j)
  BY <1>1, <1>3 DEF LifeOK, Empty
<1>6. LifeOK(j, last, up)
  BY <1>1, <1>3, <1>4, <1>5, LifeLess DEF LifeOK
<1> QED
  BY <1>6 DEF j

LEMMA DisposedLife ==
  ASSUME NEW k \in LinkRecord, ~k.closed, NEW last \in Nat, NEW up, LifeOK(k, last, up)
  PROVE  LifeOK(Disposed(k), last, up)
<1> DEFINE j == Disposed(k)
<1>1. /\ j.sock = (IF k.sock \in {"open", "dying"} THEN "closing" ELSE "none")
      /\ j.timer = k.timer /\ j.closed /\ j.down = k.down /\ j.up = k.up
      /\ j.far = k.far /\ j.farFocus = k.farFocus /\ j.streams = k.streams
  BY DEF Disposed, LinkRecord
<1> HIDE DEF j
<1>2. \A no, id : Says(j, no, id) => Says(k, no, id)
  BY <1>1, SaysSame
<1>3. j.sock \in {"none", "dialing"} => Empty(j)
  BY <1>1 DEF LifeOK, Empty, LinkRecord
<1>4. (j.timer => j.sock = "none") /\ (j.sock = "closing" => j.closed)
  BY <1>1 DEF LifeOK
<1>5. j.up # <<>> => k.up # <<>>
  BY <1>1
<1>6. LifeOK(j, last, up)
  BY <1>1, <1>2, <1>3, <1>4, <1>5, LifeLess
<1> QED
  BY <1>6 DEF j

\* Its browser's socket is gone.
LEMMA MuteLife ==
  ASSUME NEW k \in LinkRecord, NEW last \in Nat, NEW up, LifeOK(k, last, up)
  PROVE  LifeOK([k EXCEPT !.mute = TRUE], last, up)
<1> DEFINE j == [k EXCEPT !.mute = TRUE]
<1>1. /\ j.sock = k.sock /\ j.timer = k.timer /\ j.closed = k.closed /\ j.down = k.down /\ j.up = k.up
      /\ j.far = k.far /\ j.farFocus = k.farFocus /\ j.streams = k.streams
  BY DEF LinkRecord
<1> HIDE DEF j
<1>2. \A no, id : Says(j, no, id) => Says(k, no, id)
  BY <1>1, SaysSame
<1>3. LifeOK(j, last, up)
  BY <1>1, <1>2, LifeLess DEF LifeOK, Empty
<1> QED
  BY <1>3 DEF j

LEMMA HungLife ==
  ASSUME NEW k \in LinkRecord, NEW last, NEW up
  PROVE  LifeOK(Hung(k), last, up) /\ LifeOK([Hung(k) EXCEPT !.timer = TRUE], last, up)
<1>1. Empty(Hung(k)) /\ Hung(k).sock = "none"
  BY DEF Hung, Empty, LinkRecord
<1>2. /\ Empty([Hung(k) EXCEPT !.timer = TRUE]) /\ [Hung(k) EXCEPT !.timer = TRUE].sock = "none"
  BY DEF Hung, Empty, LinkRecord
<1> QED
  BY <1>1, <1>2, LifeEmpty

LEMMA OpenedLife ==
  ASSUME NEW k \in LinkRecord, k.timer, NEW last \in Nat, NEW up, LifeOK(k, last, up)
  PROVE  LifeOK(Opened(k), last, up)
<1>1. CASE k.closed
  BY <1>1, NoLinkLife DEF Opened
<1>2. CASE ~k.closed
  <2>1. Empty(k)
    BY DEF LifeOK
  <2>2. Opened(k) = [k EXCEPT !.timer = FALSE, !.sock = "dialing"]
    BY <1>2 DEF Opened
  <2>3. Empty(Opened(k)) /\ Opened(k).sock = "dialing" /\ ~Opened(k).timer
    BY <2>1, <2>2 DEF Empty, LinkRecord
  <2> QED
    BY <2>3, LifeEmpty
<1> QED
  BY <1>1, <1>2

LEMMA NumbersAre ==
  ASSUME MachinesTypeOK
  PROVE  /\ numbers.ours \in Nat /\ numbers.theirs \in Nat /\ numbers.near \in Nat
         /\ numbers \in [ours : Nat, theirs : Nat, near : Nat]
         /\ current \in Link \cup {None} /\ (current # None => current \in Link)
         /\ link \in [Link -> LinkRecord] /\ page \in PageRecord
BY DEF MachinesTypeOK, RelayTypeOK

LEMMA TellsLives ==
  ASSUME MachinesTypeOK, Lives, NEW p \in PageRecord, NEW s \in ScopedId, NEW msg \in ToMachine,
         Tells(p, s, msg), UNCHANGED there
  PROVE  Lives'
<1>1. link' = link \/ (current \in Link /\ link' = [link EXCEPT ![current] = Sent(link[current], msg)])
  BY NumbersAre DEF Tells
<1>2. numbers'.theirs = numbers.theirs
  BY NumbersAre DEF Tells
<1>3. current \in Link => LifeOK(Sent(link[current], msg), numbers.theirs, there.up)
  BY NumbersAre, LinkTyped, SentLife DEF Lives
<1> QED
  BY <1>1, <1>2, <1>3, NumbersAre DEF Lives

\* The links after Relay.sync: the one that is replaced, and the new one.
LEMMA SyncedLinks ==
  ASSUME MachinesTypeOK, NEW p \in PageRecord, NEW key \in 0 .. MaxKey, Synced(p, link, key)
  PROVE  \/ link' = link /\ current' = current
            /\ (~p.up \/ (current # None /\ link[current].key = key))
         \/ /\ p.up /\ (current = None \/ link[current].key # key) /\ key = None /\ current' = None
            /\ \A l \in Link : link'[l] = IF l = current THEN Disposed(link[l]) ELSE link[l]
         \/ /\ p.up /\ (current = None \/ link[current].key # key) /\ key # None
            /\ current' \in Link /\ link[current'] = NoLink
            /\ \A l \in Link : link'[l] =
                 IF l = current' THEN [NoLink EXCEPT !.key = key, !.closed = FALSE, !.sock = "dialing"]
                 ELSE IF l = current THEN Disposed(link[l]) ELSE link[l]
<1> DEFINE stays == current # None /\ link[current].key = key
           parts == current # None /\ ~stays
           gone == IF parts THEN [link EXCEPT ![current] = Disposed(@)] ELSE link
           new == [NoLink EXCEPT !.key = key, !.closed = FALSE, !.sock = "dialing"]
<1>1. CASE ~p.up \/ stays
  BY <1>1 DEF Synced
<1>2. CASE ~(~p.up \/ stays)
  <2>1. gone \in [Link -> LinkRecord] /\ \A l \in Link : gone[l] = IF l = current THEN Disposed(link[l]) ELSE link[l]
    <3>1. CASE current = None
      BY <3>1, NumbersAre, Ids
    <3>2. CASE current # None
      BY <1>2, <3>2, NumbersAre, DisposedTyped
    <3> QED
      BY <3>1, <3>2
  <2>2. \/ key = None /\ link' = gone /\ current' = None
        \/ /\ key # None /\ Free # {} /\ current' = (CHOOSE l \in Free : TRUE)
           /\ link' = [gone EXCEPT ![current'] = new]
    BY <1>2 DEF Synced
  <2> HIDE DEF gone, new
  <2>3. CASE key = None /\ link' = gone /\ current' = None
    BY <1>2, <2>1, <2>3
  <2>4. CASE /\ key # None /\ Free # {} /\ current' = (CHOOSE l \in Free : TRUE)
             /\ link' = [gone EXCEPT ![current'] = new]
    <3>1. current' \in Link /\ link[current'] = NoLink
      BY <2>4, FreeIs
    <3>2. \A l \in Link : link'[l] = IF l = current' THEN new ELSE gone[l]
      BY <2>1, <2>4, <3>1
    <3> QED
      BY <1>2, <2>1, <2>4, <3>1, <3>2 DEF new
  <2> QED
    BY <2>2, <2>3, <2>4
<1> QED
  BY <1>1, <1>2

LEMMA NewLinkLife ==
  ASSUME NEW key, NEW last, NEW up, NEW mine
  PROVE  /\ LifeOK([NoLink EXCEPT !.key = key, !.closed = FALSE, !.sock = "dialing"], last, up)
         /\ LifeOK([NoLink EXCEPT !.key = key, !.closed = FALSE, !.sock = "dialing", !.attached = mine], last, up)
<1> DEFINE a == [NoLink EXCEPT !.key = key, !.closed = FALSE, !.sock = "dialing"]
           b == [NoLink EXCEPT !.key = key, !.closed = FALSE, !.sock = "dialing", !.attached = mine]
<1>1. Empty(a) /\ a.sock = "dialing" /\ ~a.timer
  BY DEF NoLink, Empty
<1>2. Empty(b) /\ b.sock = "dialing" /\ ~b.timer
  BY DEF NoLink, Empty
<1> QED
  BY <1>1, <1>2, LifeEmpty

LEMMA SyncedLives ==
  ASSUME MachinesTypeOK, Lives, HomeOK, NEW p \in PageRecord, NEW key \in 0 .. MaxKey,
         Synced(p, link, key), UNCHANGED numbers, there'.up = there.up
  PROVE  Lives'
<1>1. current # None => LifeOK(Disposed(link[current]), numbers.theirs, there.up)
  BY NumbersAre, LinkTyped, DisposedLife DEF Lives, HomeOK
<1> DEFINE new == [NoLink EXCEPT !.key = key, !.closed = FALSE, !.sock = "dialing"]
<1>2. LifeOK(new, numbers.theirs, there.up)
  BY NewLinkLife
<1>3. \A l \in Link : LifeOK(link[l], numbers.theirs, there.up) /\ l # None
  BY Ids DEF Lives
<1>4. \/ link' = link
      \/ \A l \in Link : link'[l] = IF l = current THEN Disposed(link[l]) ELSE link[l]
      \/ \A l \in Link : link'[l] =
           IF l = current' THEN new ELSE IF l = current THEN Disposed(link[l]) ELSE link[l]
  BY SyncedLinks
<1> HIDE DEF new
<1>5. ASSUME NEW l \in Link PROVE LifeOK(link'[l], numbers.theirs, there.up)
  <2>1. link'[l] = link[l] \/ (l = current /\ link'[l] = Disposed(link[l])) \/ link'[l] = new
    BY <1>4
  <2> QED
    BY <1>1, <1>2, <1>3, <2>1
<1> QED
  BY <1>5 DEF Lives

LEMMA RelayGoneLives ==
  ASSUME MachinesTypeOK, Lives, HomeOK, RelayGone, numbers'.theirs = numbers.theirs, UNCHANGED there
  PROVE  Lives'
<1>1. ASSUME NEW l \in Link
      PROVE  LifeOK(link'[l], numbers.theirs, there.up)
  <2>1. CASE link[l] = NoLink
    BY <2>1, NoLinkLife DEF RelayGone
  <2>2. CASE link[l] # NoLink /\ l = current
    <3>1. ~link[l].closed
      BY <2>2, Ids DEF HomeOK
    <3>2. Disposed(link[l]) \in LinkRecord /\ LifeOK(Disposed(link[l]), numbers.theirs, there.up)
      BY <3>1, LinkTyped, NumbersAre, DisposedLife, DisposedTyped DEF Lives
    <3> QED
      BY <2>2, <3>2, NumbersAre, MuteLife DEF RelayGone
  <2>3. CASE link[l] # NoLink /\ l # current
    BY <2>3, LinkTyped, NumbersAre, MuteLife DEF RelayGone, Lives
  <2> QED
    BY <2>1, <2>2, <2>3
<1> QED
  BY <1>1 DEF Lives

LEMMA LinkStepLives ==
  ASSUME MachinesTypeOK, Lives, NEW l \in Link, LinkOpens(l) \/ LinkCloses(l) \/ LinkRetries(l)
  PROVE  Lives'
<1>1. UNCHANGED <<numbers, there>>
  BY DEF LinkOpens, LinkCloses, LinkRetries
<1>2. link[l] \in LinkRecord /\ LifeOK(link[l], numbers.theirs, there.up)
  BY LinkTyped DEF Lives
<1>3. \A m \in Link : m # l => link'[m] = link[m]
  BY NumbersAre DEF LinkOpens, LinkCloses, LinkRetries
<1>4. LifeOK(link'[l], numbers.theirs, there.up)
  <2>1. CASE LinkOpens(l)
    <3> DEFINE k == [link[l] EXCEPT !.sock = "open"]
               j == Written(k, Replay(link[l]))
    <3>1. link'[l] = j
      BY <2>1, NumbersAre DEF LinkOpens
    <3>2. k.down = <<>> /\ k.far = {} /\ k.streams = {} /\ k.sock = "open" /\ ~k.timer
      BY <1>2, <2>1 DEF LinkOpens, LifeOK, Empty, LinkRecord
    <3>3. j.down = <<>> /\ j.far = {} /\ j.streams = {} /\ j.sock = "open" /\ ~j.timer
      <4> HIDE DEF k
      <4> QED
        BY <3>2 DEF Written
    <3> HIDE DEF j
    <3>4. \A no, id : ~Says(j, no, id)
      BY <3>3 DEF Says
    <3> QED
      BY <2>1, <3>1, <3>3, <3>4 DEF LifeOK, LinkOpens, Accepted
  <2>2. CASE LinkCloses(l)
    <3>1. link'[l] \in {[Hung(link[l]) EXCEPT !.timer = TRUE], Hung(link[l]), NoLink}
      BY <2>2, NumbersAre DEF LinkCloses
    <3> QED
      BY <1>2, <3>1, HungLife, NoLinkLife
  <2>3. CASE LinkRetries(l)
    BY <1>2, <2>3, NumbersAre, OpenedLife DEF LinkRetries
  <2> QED
    BY <2>1, <2>2, <2>3
<1> QED
  BY <1>1, <1>3, <1>4 DEF Lives

\* A sequence, and one more.
LEMMA OneMore ==
  ASSUME NEW S, NEW q \in Seq(S), NEW x \in S
  PROVE  /\ Append(q, x) \in Seq(S) /\ Len(q) \in Nat /\ Len(Append(q, x)) = Len(q) + 1
         /\ \A i \in 1 .. Len(q) : Append(q, x)[i] = q[i]
         /\ Append(q, x)[Len(q) + 1] = x
OBVIOUS

LEMMA TwoMore ==
  ASSUME NEW S, NEW q \in Seq(S), NEW x \in S, NEW y \in S
  PROVE  /\ q \o <<x, y>> \in Seq(S) /\ Len(q) \in Nat /\ Len(q \o <<x, y>>) = Len(q) + 2
         /\ \A i \in 1 .. Len(q) : (q \o <<x, y>>)[i] = q[i]
         /\ (q \o <<x, y>>)[Len(q) + 1] = x /\ (q \o <<x, y>>)[Len(q) + 2] = y
OBVIOUS

\* A sequence, and its first no more.
LEMMA OneLess ==
  ASSUME NEW S, NEW q \in Seq(S), q # <<>>
  PROVE  /\ Tail(q) \in Seq(S) /\ Len(q) \in Nat /\ Len(q) > 0 /\ Len(Tail(q)) = Len(q) - 1
         /\ \A i \in 1 .. Len(Tail(q)) : i + 1 \in 1 .. Len(q) /\ Tail(q)[i] = q[i + 1]
         /\ Head(q) = q[1] /\ Head(q) \in S
OBVIOUS

\* More frames that say nothing of streams.
LEMMA PushedLife ==
  ASSUME NEW k \in LinkRecord, NEW f \in FromMachine, f.t \notin Naming, k.sock = "open",
         NEW last \in Nat, NEW up, LifeOK(k, last, up)
  PROVE  LifeOK([k EXCEPT !.down = Append(@, f)], last, up)
<1> DEFINE j == [k EXCEPT !.down = Append(@, f)]
<1>1. k.down \in Seq(FromMachine)
  BY DEF LinkRecord
<1>2. /\ j.sock = k.sock /\ j.timer = k.timer /\ j.closed = k.closed /\ j.down = Append(k.down, f)
      /\ j.up = k.up /\ j.far = k.far /\ j.streams = k.streams
  BY DEF LinkRecord
<1> HIDE DEF j
<1>3. \A i \in 1 .. Len(j.down) : j.down[i].t \in Naming => Says(k, j.down[i].no, j.down[i].id)
  BY <1>1, <1>2, OneMore DEF Says
<1>4. \A x \in j.streams : Says(k, x.theirs, x.id)
  BY <1>2 DEF Says
<1>5. \A no, id : Says(j, no, id) => Says(k, no, id)
  BY <1>2, <1>3, <1>4, SaysFewer
<1>6. LifeOK(j, last, up)
  BY <1>2, <1>5, LifeLess DEF LifeOK
<1> QED
  BY <1>6 DEF j

LEMMA EveryPushedLife ==
  ASSUME MachinesTypeOK, Lives, NEW f \in FromMachine, f.t \notin Naming, NEW l \in Link
  PROVE  LifeOK(Pushed(f)[l], numbers.theirs, there.up)
<1>1. CASE link[l].sock = "open"
  BY <1>1, LinkTyped, NumbersAre, PushedLife DEF Pushed, Lives
<1>2. CASE link[l].sock # "open"
  BY <1>2 DEF Pushed, Lives
<1> QED
  BY <1>1, <1>2

LEMMA AttentionChangesLives ==
  ASSUME MachinesTypeOK, Lives, AttentionChanges
  PROVE  Lives'
<1>1. UNCHANGED numbers
  BY DEF AttentionChanges
<1>2. ASSUME NEW id \in DOMAIN there.runs, there' = [there EXCEPT !.runs[id] = Other(@)],
             link' = Pushed(Frame("state", id, 0, Other(there.runs[id])))
      PROVE  Lives'
  <2>1. id \in Id /\ there.runs[id] \in {"idle", "blocked"}
    BY RunsIs DEF MachinesTypeOK
  <2> DEFINE f == Frame("state", id, 0, Other(there.runs[id]))
  <2>2. f \in FromMachine /\ f.t \notin Naming
    BY <2>1, OtherTyped, FrameTyped DEF Frame, Naming
  <2> HIDE DEF f
  <2>3. there'.up = there.up
    BY <1>2 DEF MachinesTypeOK
  <2>4. link' = Pushed(f)
    BY <1>2 DEF f
  <2> QED
    BY <1>1, <2>2, <2>3, <2>4, EveryPushedLife DEF Lives
<1> QED
  BY <1>1, <1>2 DEF AttentionChanges, Lives

\* What a session that is gone leaves of a link.
LEMMA KilledLife ==
  ASSUME NEW k \in LinkRecord, NEW id \in Id, NEW last \in Nat, NEW up, LifeOK(k, last, up)
  PROVE  LifeOK([k EXCEPT !.far = {e \in @ : e.id # id}, !.farFocus = IF @ = id THEN None ELSE @], last, up)
<1> DEFINE j == [k EXCEPT !.far = {e \in @ : e.id # id}, !.farFocus = IF @ = id THEN None ELSE @]
<1>1. /\ j.sock = k.sock /\ j.timer = k.timer /\ j.closed = k.closed /\ j.down = k.down /\ j.up = k.up
      /\ j.far \subseteq k.far /\ j.streams = k.streams /\ (k.farFocus = None => j.farFocus = None)
  BY DEF LinkRecord
<1> HIDE DEF j
<1>2. \A no, idd : Says(j, no, idd) => Says(k, no, idd)
  BY <1>1 DEF Says
<1>3. j.sock \in {"none", "dialing"} => Empty(j)
  BY <1>1 DEF LifeOK, Empty
<1>4. LifeOK(j, last, up)
  BY <1>1, <1>2, <1>3, LifeLess DEF LifeOK
<1> QED
  BY <1>4 DEF j

LEMMA KillsLives ==
  ASSUME MachinesTypeOK, Lives, Kills
  PROVE  Lives'
<1>1. UNCHANGED numbers
  BY DEF Kills
<1>2. ASSUME NEW id \in Id, there' = [there EXCEPT !.runs = Without(@, id)],
             link' = [l \in Link |-> [Pushed(Frame("invalidate", None, 0, ""))[l] EXCEPT
                        !.far = {e \in @ : e.id # id}, !.farFocus = IF @ = id THEN None ELSE @]]
      PROVE  Lives'
  <2> DEFINE f == Frame("invalidate", None, 0, "")
  <2>1. f \in FromMachine /\ f.t \notin Naming
    BY DEF Frame, FromMachine, Naming
  <2> HIDE DEF f
  <2>2. \A l \in Link : Pushed(f)[l] \in LinkRecord /\ LifeOK(Pushed(f)[l], numbers.theirs, there.up)
    BY <2>1, PushedTyped, EveryPushedLife
  <2>3. \A l \in Link : LifeOK(link'[l], numbers.theirs, there.up)
    BY <1>2, <2>2, KilledLife, NumbersAre DEF f
  <2>4. there'.up = there.up
    BY <1>2 DEF MachinesTypeOK
  <2> QED
    BY <1>1, <2>3, <2>4 DEF Lives
<1>3. ASSUME UNCHANGED <<there, link>> PROVE Lives'
  BY <1>1, <1>3 DEF Lives
<1> QED
  BY <1>2, <1>3, ScopedTyped DEF Kills

LEMMA TheirStopsLives ==
  ASSUME MachinesTypeOK, Lives, TheirStops
  PROVE  Lives'
<1>1. ASSUME NEW l \in Link
      PROVE  LifeOK(link'[l], numbers.theirs, FALSE)
  <2>1. link[l] \in LinkRecord /\ LifeOK(link[l], numbers.theirs, there.up)
    BY LinkTyped DEF Lives
  <2>2. CASE link[l].sock \in {"open", "dying", "closing"}
    <3> DEFINE j == [link[l] EXCEPT !.sock = IF @ = "open" THEN "dying" ELSE @,
                                    !.up = <<>>, !.far = {}, !.farFocus = None]
    <3>1. link'[l] = j
      BY <2>2 DEF TheirStops
    <3>2. /\ j.sock \in {"dying", "closing"} /\ (j.sock = "closing" => link[l].sock = "closing")
          /\ j.timer = link[l].timer /\ j.closed = link[l].closed
          /\ j.down = link[l].down /\ j.up = <<>> /\ j.far = {} /\ j.streams = link[l].streams
      BY <2>1, <2>2 DEF LinkRecord
    <3> HIDE DEF j
    <3>3. \A no, id : Says(j, no, id) => Says(link[l], no, id)
      BY <3>2 DEF Says
    <3> QED
      BY <2>1, <2>2, <3>1, <3>2, <3>3 DEF LifeOK
  <2>3. CASE link[l].sock \notin {"open", "dying", "closing"}
    <3>1. link'[l] = link[l]
      BY <2>3 DEF TheirStops
    <3>2. Empty(link[l])
      BY <2>1, <2>3 DEF LifeOK, LinkRecord
    <3> QED
      BY <2>1, <2>3, <3>1, <3>2 DEF LifeOK, Empty
  <2> QED
    BY <2>2, <2>3
<1>2. UNCHANGED numbers /\ ~there'.up
  BY DEF TheirStops, MachinesTypeOK
<1>3. there'.up = FALSE
  BY DEF TheirStops, MachinesTypeOK
<1> QED
  BY <1>1, <1>2, <1>3 DEF Lives

LEMMA TheirStartsLives ==
  ASSUME MachinesTypeOK, Lives, TheirStarts
  PROVE  Lives'
<1>1. ASSUME NEW l \in Link, NEW last, NEW up PROVE LifeOK(link[l], last, up)
  <2>1. LifeOK(link[l], numbers.theirs, there.up) /\ ~there.up
    BY DEF Lives, TheirStarts
  <2> QED
    BY <2>1 DEF LifeOK
<1> QED
  BY <1>1 DEF TheirStarts, Lives

LEMMA FarOutputsLives ==
  ASSUME MachinesTypeOK, Lives, NEW l \in Link, FarOutputs(l)
  PROVE  Lives'
<1>1. PICK e \in link[l].far : link' = [link EXCEPT ![l].down = Append(@, Frame("output", e.id, e.no, ""))]
  BY DEF FarOutputs
<1> DEFINE f == Frame("output", e.id, e.no, "")
           k == link[l]
           j == [k EXCEPT !.down = Append(@, f)]
<1>2. k \in LinkRecord /\ LifeOK(k, numbers.theirs, there.up) /\ k.down \in Seq(FromMachine)
  BY LinkTyped DEF Lives
<1>3. f \in FromMachine /\ f.t = "output" /\ f.no = e.no /\ f.id = e.id
  BY LinkTyped, FrameTyped DEF Frame
<1>4. link'[l] = j /\ \A m \in Link : m # l => link'[m] = link[m]
  BY <1>1, NumbersAre
<1> HIDE DEF f
<1>5. /\ j.sock = k.sock /\ j.timer = k.timer /\ j.closed = k.closed /\ j.down = Append(k.down, f)
      /\ j.up = k.up /\ j.far = k.far /\ j.streams = k.streams
  BY <1>2 DEF LinkRecord
<1> HIDE DEF j, k
<1>6. \A i \in 1 .. Len(j.down) : j.down[i].t \in Naming => Says(k, j.down[i].no, j.down[i].id)
  <2>1. \A i \in 1 .. Len(k.down) : k.down[i].t \in Naming => Says(k, k.down[i].no, k.down[i].id)
    BY DEF Says
  <2>2. Says(k, f.no, f.id)
    BY <1>1, <1>3 DEF Says, k
  <2>3. \A i \in 1 .. Len(j.down) : i \in 1 .. Len(k.down) \/ i = Len(k.down) + 1
    BY <1>2, <1>3, <1>5, OneMore
  <2> QED
    BY <1>2, <1>3, <1>5, <2>1, <2>2, <2>3, OneMore
<1>7. \A x \in j.streams : Says(k, x.theirs, x.id)
  BY <1>5 DEF Says
<1>8. \A no, id : Says(j, no, id) => Says(k, no, id)
  BY <1>5, <1>6, <1>7, SaysFewer
<1>9. j.sock \in {"none", "dialing"} => Empty(j)
  <2>1. k.far # {}
    BY <1>1 DEF k
  <2> QED
    BY <1>2, <1>5, <2>1 DEF LifeOK, Empty
<1>10. LifeOK(j, numbers.theirs, there.up)
  BY <1>2, <1>5, <1>8, <1>9, NumbersAre, LifeLess DEF LifeOK
<1>11. UNCHANGED <<numbers, there>>
  BY DEF FarOutputs
<1> QED
  BY <1>4, <1>10, <1>11 DEF Lives

LEMMA LinkHearsLives ==
  ASSUME MachinesTypeOK, Lives, NEW l \in Link, LinkHears(l, Known)
  PROVE  Lives'
<1> DEFINE k == link[l]
           msg == Head(k.down)
           j == link'[l]
           was == [k EXCEPT !.down = Tail(@)]
           stream == [theirs |-> msg.no, ours |-> OurNo(numbers.ours + 1), id |-> msg.id]
<1>1. k \in LinkRecord /\ LifeOK(k, numbers.theirs, there.up) /\ k.down \in Seq(FromMachine) /\ k.down # <<>>
  BY LinkTyped DEF Lives, LinkHears
<1>2. /\ was.sock = k.sock /\ was.timer = k.timer /\ was.closed = k.closed /\ was.up = k.up
      /\ was.down = Tail(k.down) /\ was.far = k.far /\ was.streams = k.streams /\ was \in LinkRecord
  BY <1>1, HeardTyped DEF LinkRecord
<1>3. \/ j = was
      \/ /\ msg.t = "attached"
         /\ j = [was EXCEPT !.streams = {e \in @ : e.theirs # msg.no} \cup {stream}]
  BY NumbersAre DEF LinkHears
<1>4. \A m \in Link : m # l => link'[m] = link[m]
  BY NumbersAre DEF LinkHears
<1>5. msg = k.down[1] /\ 1 \in 1 .. Len(k.down)
  BY <1>1, OneLess
<1>6. stream.theirs = msg.no /\ stream.id = msg.id
  OBVIOUS
<1> HIDE DEF k, msg, was, stream
<1>7. /\ j.sock = k.sock /\ j.timer = k.timer /\ j.closed = k.closed /\ j.up = k.up
      /\ j.down = Tail(k.down) /\ j.far = k.far
      /\ \A x \in j.streams : x \in k.streams \/ (msg.t = "attached" /\ x = stream)
  <2>1. CASE j = was
    BY <1>2, <2>1
  <2>2. CASE msg.t = "attached" /\ j = [was EXCEPT !.streams = {e \in @ : e.theirs # msg.no} \cup {stream}]
    BY <1>2, <2>2 DEF LinkRecord
  <2> QED
    BY <1>3, <2>1, <2>2
<1> HIDE DEF j
<1>8. \A i \in 1 .. Len(j.down) : j.down[i].t \in Naming => Says(k, j.down[i].no, j.down[i].id)
  <2>1. \A i \in 1 .. Len(j.down) : i + 1 \in 1 .. Len(k.down) /\ j.down[i] = k.down[i + 1]
    BY <1>1, <1>7, OneLess
  <2> QED
    BY <2>1 DEF Says
<1>9. \A x \in j.streams : Says(k, x.theirs, x.id)
  <2>1. msg.t = "attached" => Says(k, msg.no, msg.id)
    BY <1>5 DEF Says, Naming
  <2> QED
    BY <1>6, <1>7, <2>1 DEF Says
<1>10. \A no, id : Says(j, no, id) => Says(k, no, id)
  BY <1>7, <1>8, <1>9, SaysFewer
<1>11. j.sock \notin {"none", "dialing"}
  BY <1>1, <1>7 DEF LifeOK, Empty
<1>12. LifeOK(j, numbers'.theirs, there.up)
  <2>1. numbers'.theirs = numbers.theirs
    BY NumbersAre DEF LinkHears
  <2> QED
    BY <1>1, <1>7, <1>10, <1>11, <2>1, NumbersAre, LifeLess DEF LifeOK
<1>13. UNCHANGED there /\ numbers'.theirs = numbers.theirs
  BY NumbersAre DEF LinkHears
<1> QED
  BY <1>4, <1>12, <1>13 DEF Lives, j

\* The machine's engine takes a frame, and what becomes of the link: the number is the
\* one it has for the session, or one that no frame of the link has.
LEMMA TakenIs ==
  ASSUME MachinesTypeOK, Lives, UNCHANGED gateway, NEW l \in Link, FarTakes(l)
  PROVE  LET k == link[l]
             msg == Head(k.up)
             has == {e \in k.far : e.id = msg.id}
             runs == msg.id \in DOMAIN there.runs
             j == link'[l]
         IN /\ k.up \in Seq(ToMachine) /\ k.up # <<>> /\ msg \in ToMachine
            /\ there.up /\ UNCHANGED <<current, there, near, page, chances>>
            /\ \A m \in Link : m # l => link'[m] = link[m]
            /\ j \in LinkRecord /\ j.up = Tail(k.up)
            /\ j.sock = k.sock /\ j.timer = k.timer /\ j.closed = k.closed /\ j.mute = k.mute
            /\ j.key = k.key /\ j.attached = k.attached /\ j.focused = k.focused /\ j.streams = k.streams
            /\ \/ /\ msg.t = "attach" /\ runs
                  /\ \E no \in Nat :
                       /\ \/ \E e \in has : e.no = no /\ UNCHANGED numbers
                          \/ has = {} /\ no = numbers.theirs + 1 /\ numbers' = [numbers EXCEPT !.theirs = no]
                       /\ j.far = k.far \cup {[id |-> msg.id, no |-> no]} /\ j.farFocus = k.farFocus
                       /\ j.down = k.down \o <<Frame("attached", msg.id, no, ""),
                                               Frame("state", msg.id, 0, there.runs[msg.id])>>
               \/ /\ msg.t = "attach" /\ ~runs /\ UNCHANGED numbers
                  /\ j.far = k.far /\ j.farFocus = k.farFocus
                  /\ j.down = Append(k.down, Frame("error", msg.id, 0, ""))
               \/ /\ msg.t = "detach" /\ UNCHANGED numbers /\ j.down = k.down
                  /\ j.far = k.far \ has /\ j.farFocus = IF k.farFocus = msg.id THEN None ELSE k.farFocus
               \/ /\ msg.t = "focus" /\ UNCHANGED numbers /\ j.down = k.down /\ j.far = k.far
                  /\ j.farFocus = IF has # {} THEN msg.id ELSE k.farFocus
<1> DEFINE k == link[l]
           msg == Head(k.up)
           has == {e \in k.far : e.id = msg.id}
           runs == msg.id \in DOMAIN there.runs
           j == link'[l]
           no == IF has # {} THEN (CHOOSE e \in has : TRUE).no ELSE numbers.theirs + 1
           took == [k EXCEPT !.up = Tail(@)]
           answers == <<Frame("attached", msg.id, no, ""), Frame("state", msg.id, 0, there.runs[msg.id])>>
<1>1. /\ msg \in ToMachine /\ took \in LinkRecord /\ k.up # <<>> /\ k.up \in Seq(ToMachine) /\ k \in LinkRecord
      /\ msg.t \in {"attach", "detach", "focus"}
  BY TakenTyped, LinkTyped DEF FarTakes, ToMachine
<1>2. /\ took.up = Tail(k.up) /\ took.sock = k.sock /\ took.timer = k.timer /\ took.closed = k.closed
      /\ took.mute = k.mute /\ took.key = k.key /\ took.attached = k.attached /\ took.focused = k.focused
      /\ took.streams = k.streams /\ took.far = k.far /\ took.farFocus = k.farFocus /\ took.down = k.down
  BY <1>1 DEF LinkRecord
<1>3. /\ no \in Nat
      /\ \/ \E e \in has : e.no = no
         \/ has = {} /\ no = numbers.theirs + 1
  <2>1. has # {} => (CHOOSE e \in has : TRUE) \in has
    OBVIOUS
  <2>2. has \subseteq [id : Id, no : Nat]
    BY LinkTyped
  <2>3. CASE has # {}
    <3>1. no = (CHOOSE e \in has : TRUE).no
      BY <2>3
    <3> QED
      BY <2>1, <2>2, <2>3, <3>1
  <2>4. CASE has = {}
    BY <2>4, NumbersAre
  <2> QED
    BY <2>3, <2>4
<1> HIDE DEF no
<1>4. /\ link' = [link EXCEPT ![l] =
             CASE msg.t = "attach" /\ runs ->
                    [took EXCEPT !.down = @ \o answers, !.far = @ \cup {[id |-> msg.id, no |-> no]}]
               [] msg.t = "attach" /\ ~runs ->
                    [took EXCEPT !.down = Append(@, Frame("error", msg.id, 0, ""))]
               [] msg.t = "detach" ->
                    [took EXCEPT !.far = @ \ has, !.farFocus = IF @ = msg.id THEN None ELSE @]
               [] OTHER -> [took EXCEPT !.farFocus = IF has # {} THEN msg.id ELSE @]]
      /\ numbers' = IF msg.t = "attach" /\ runs /\ has = {} THEN [numbers EXCEPT !.theirs = no] ELSE numbers
      /\ UNCHANGED <<current, there, near, page, chances>> /\ there.up
  BY DEF FarTakes, no
<1>5. link'[l] \in LinkRecord
  BY FarTakesTyped DEF MachinesTypeOK, RelayTypeOK
<1> HIDE DEF k, has, took, runs, msg, answers
<1>6. \A m \in Link : m # l => link'[m] = link[m]
  BY <1>4, NumbersAre
<1>7. CASE msg.t = "attach" /\ runs
  <2>1. j = [took EXCEPT !.down = @ \o answers, !.far = @ \cup {[id |-> msg.id, no |-> no]}]
    BY <1>4, <1>7, NumbersAre
  <2>2. /\ j.up = took.up /\ j.sock = took.sock /\ j.timer = took.timer /\ j.closed = took.closed
        /\ j.mute = took.mute /\ j.key = took.key /\ j.attached = took.attached /\ j.focused = took.focused
        /\ j.streams = took.streams /\ j.down = took.down \o answers
        /\ j.far = took.far \cup {[id |-> msg.id, no |-> no]} /\ j.farFocus = took.farFocus
    BY <1>1, <2>1 DEF LinkRecord
  <2>3. \/ \E e \in has : e.no = no /\ UNCHANGED numbers
        \/ has = {} /\ no = numbers.theirs + 1 /\ numbers' = [numbers EXCEPT !.theirs = no]
    BY <1>3, <1>4, <1>7
  <2>4. \E n \in Nat :
           /\ \/ \E e \in has : e.no = n /\ UNCHANGED numbers
              \/ has = {} /\ n = numbers.theirs + 1 /\ numbers' = [numbers EXCEPT !.theirs = n]
           /\ j.far = k.far \cup {[id |-> msg.id, no |-> n]} /\ j.farFocus = k.farFocus
           /\ j.down = k.down \o <<Frame("attached", msg.id, n, ""),
                                   Frame("state", msg.id, 0, there.runs[msg.id])>>
    <3>1. j.down = k.down \o answers /\ j.far = k.far \cup {[id |-> msg.id, no |-> no]} /\ j.farFocus = k.farFocus
      BY <1>2, <2>2
    <3> HIDE DEF j
    <3>2. no \in Nat
      BY <1>3
    <3> QED
      BY <2>3, <3>1, <3>2 DEF answers
  <2> HIDE DEF j
  <2> QED
    BY <1>1, <1>2, <1>4, <1>5, <1>6, <1>7, <2>2, <2>4 DEF k, msg, has, runs, j
<1>8. CASE msg.t = "attach" /\ ~runs
  <2>1. j = [took EXCEPT !.down = Append(@, Frame("error", msg.id, 0, ""))]
    BY <1>4, <1>8, NumbersAre
  <2>2. /\ j.up = took.up /\ j.sock = took.sock /\ j.timer = took.timer /\ j.closed = took.closed
        /\ j.mute = took.mute /\ j.key = took.key /\ j.attached = took.attached /\ j.focused = took.focused
        /\ j.streams = took.streams /\ j.down = Append(took.down, Frame("error", msg.id, 0, ""))
        /\ j.far = took.far /\ j.farFocus = took.farFocus
    BY <1>1, <2>1 DEF LinkRecord
  <2>3. UNCHANGED numbers
    BY <1>4, <1>8
  <2> HIDE DEF j
  <2> QED
    BY <1>1, <1>2, <1>4, <1>5, <1>6, <1>8, <2>2, <2>3 DEF k, msg, has, runs, j
<1>9. CASE msg.t = "detach"
  <2>1. j = [took EXCEPT !.far = @ \ has, !.farFocus = IF @ = msg.id THEN None ELSE @]
    BY <1>4, <1>9, NumbersAre
  <2>2. /\ j.up = took.up /\ j.sock = took.sock /\ j.timer = took.timer /\ j.closed = took.closed
        /\ j.mute = took.mute /\ j.key = took.key /\ j.attached = took.attached /\ j.focused = took.focused
        /\ j.streams = took.streams /\ j.down = took.down
        /\ j.far = took.far \ has /\ j.farFocus = IF took.farFocus = msg.id THEN None ELSE took.farFocus
    BY <1>1, <2>1 DEF LinkRecord
  <2>3. UNCHANGED numbers
    BY <1>4, <1>9
  <2> HIDE DEF j
  <2> QED
    BY <1>1, <1>2, <1>4, <1>5, <1>6, <1>9, <2>2, <2>3 DEF k, msg, has, runs, j
<1>10. CASE msg.t = "focus"
  <2>1. j = [took EXCEPT !.farFocus = IF has # {} THEN msg.id ELSE @]
    BY <1>4, <1>10, NumbersAre
  <2>2. /\ j.up = took.up /\ j.sock = took.sock /\ j.timer = took.timer /\ j.closed = took.closed
        /\ j.mute = took.mute /\ j.key = took.key /\ j.attached = took.attached /\ j.focused = took.focused
        /\ j.streams = took.streams /\ j.down = took.down
        /\ j.far = took.far /\ j.farFocus = IF has # {} THEN msg.id ELSE took.farFocus
    BY <1>1, <2>1 DEF LinkRecord
  <2>3. UNCHANGED numbers
    BY <1>4, <1>10
  <2> HIDE DEF j
  <2> QED
    BY <1>1, <1>2, <1>4, <1>5, <1>6, <1>10, <2>2, <2>3 DEF k, msg, has, runs, j
<1> QED
  BY <1>1, <1>7, <1>8, <1>9, <1>10

\* The links that took nothing, when the machine has counted on.
LEMMA OthersLive ==
  ASSUME Lives, NEW l \in Link, LifeOK(link'[l], numbers'.theirs, there.up),
         \A m \in Link : m # l => link'[m] = link[m], there'.up = there.up,
         numbers.theirs \in Nat, numbers'.theirs \in Nat, numbers.theirs <= numbers'.theirs
  PROVE  Lives'
<1>1. ASSUME NEW m \in Link, m # l PROVE LifeOK(link[m], numbers'.theirs, there.up)
  BY <1>1 DEF Lives, LifeOK
<1> QED
  BY <1>1 DEF Lives

LEMMA FarTakesLives ==
  ASSUME MachinesTypeOK, Lives, UNCHANGED gateway, NEW l \in Link, FarTakes(l)
  PROVE  Lives'
<1> DEFINE k == link[l]
           msg == Head(k.up)
           has == {e \in k.far : e.id = msg.id}
           j == link'[l]
<1>1. k \in LinkRecord /\ LifeOK(k, numbers.theirs, there.up) /\ k.down \in Seq(FromMachine) /\ k.up # <<>>
  BY LinkTyped, TakenIs DEF Lives
<1>2. /\ j.sock = k.sock /\ j.timer = k.timer /\ j.closed = k.closed /\ j.streams = k.streams
      /\ there.up /\ UNCHANGED there /\ msg \in ToMachine /\ msg.id \in Id
      /\ \A m \in Link : m # l => link'[m] = link[m]
  BY TakenIs DEF ToMachine
<1>3. k.sock \notin {"none", "dialing"}
  BY <1>1 DEF LifeOK, Empty
<1>4. \A no \in Nat, id \in Id : Says(k, no, id) => no <= numbers.theirs
  BY <1>1 DEF LifeOK
<1>5. numbers'.theirs \in Nat /\ numbers.theirs <= numbers'.theirs
  <2>1. numbers' = numbers \/ numbers' = [numbers EXCEPT !.theirs = numbers.theirs + 1]
    BY TakenIs
  <2> QED
    BY <2>1, NumbersAre
<1>6. CASE \A no, id : Says(j, no, id) => Says(k, no, id)
  <2>1. LifeOK(j, numbers'.theirs, there.up)
    BY <1>1, <1>2, <1>3, <1>5, <1>6, NumbersAre, LifeLess DEF LifeOK
  <2> QED
    BY <1>1, <1>2, <1>5, <2>1, NumbersAre, OthersLive
<1>7. CASE /\ has = {} /\ numbers'.theirs = numbers.theirs + 1
           /\ \A no, id : Says(j, no, id) => Says(k, no, id) \/ (no = numbers.theirs + 1 /\ id = msg.id)
  <2>0. \A no, id : Says(j, no, id) => Says(k, no, id) \/ (no = numbers.theirs + 1 /\ id = msg.id)
    BY <1>7
  <2>1. \A no \in Nat, id, as \in Id : Says(j, no, id) /\ Says(j, no, as) => id = as
    <3> HIDE DEF k, j, msg, has
    <3>1. ASSUME NEW no \in Nat, NEW x \in Id, NEW y \in Id, Says(j, no, x), Says(j, no, y)
          PROVE  x = y
      <4>1. Says(k, no, x) \/ (no = numbers.theirs + 1 /\ x = msg.id)
        BY <2>0, <3>1
      <4>2. Says(k, no, y) \/ (no = numbers.theirs + 1 /\ y = msg.id)
        BY <2>0, <3>1
      <4>3. CASE no = numbers.theirs + 1
        <5>1. ~(no <= numbers.theirs)
          BY <4>3, NumbersAre
        <5> QED
          BY <1>4, <4>1, <4>2, <5>1
      <4>4. CASE no # numbers.theirs + 1
        BY <1>1, <4>1, <4>2, <4>4 DEF LifeOK
      <4> QED
        BY <4>3, <4>4
    <3> QED
      BY <3>1
  <2>2. \A no \in Nat, id \in Id : Says(j, no, id) => no <= numbers'.theirs
    BY <1>4, <1>7, NumbersAre
  <2>3. LifeOK(j, numbers'.theirs, there.up)
    BY <1>1, <1>2, <1>3, <2>1, <2>2 DEF LifeOK
  <2> QED
    BY <1>1, <1>2, <1>5, <2>3, NumbersAre, OthersLive
<1>8. \/ \A no, id : Says(j, no, id) => Says(k, no, id)
      \/ /\ has = {} /\ numbers'.theirs = numbers.theirs + 1
         /\ \A no, id : Says(j, no, id) => Says(k, no, id) \/ (no = numbers.theirs + 1 /\ id = msg.id)
  <2>1. CASE /\ msg.t = "attach"
             /\ \E no \in Nat :
                  /\ \/ \E e \in has : e.no = no /\ UNCHANGED numbers
                     \/ has = {} /\ no = numbers.theirs + 1 /\ numbers' = [numbers EXCEPT !.theirs = no]
                  /\ j.far = k.far \cup {[id |-> msg.id, no |-> no]}
                  /\ j.down = k.down \o <<Frame("attached", msg.id, no, ""),
                                          Frame("state", msg.id, 0, there.runs[msg.id])>>
                  /\ msg.id \in DOMAIN there.runs
    <3>1. PICK no \in Nat :
             /\ \/ \E e \in has : e.no = no /\ UNCHANGED numbers
                \/ has = {} /\ no = numbers.theirs + 1 /\ numbers' = [numbers EXCEPT !.theirs = no]
             /\ j.far = k.far \cup {[id |-> msg.id, no |-> no]}
             /\ j.down = k.down \o <<Frame("attached", msg.id, no, ""),
                                     Frame("state", msg.id, 0, there.runs[msg.id])>>
             /\ msg.id \in DOMAIN there.runs
      BY <2>1
    <3> DEFINE f == Frame("attached", msg.id, no, "")
               g == Frame("state", msg.id, 0, there.runs[msg.id])
    <3>2. there.runs[msg.id] \in {"idle", "blocked"}
      BY <3>1, RunsIs DEF MachinesTypeOK
    <3>3. /\ f \in FromMachine /\ g \in FromMachine /\ f.no = no /\ f.id = msg.id
          /\ g.t = "state" /\ g.t \notin Naming
      BY <1>2, <3>2, FrameTyped DEF Frame, Naming
    <3>4. j.down = k.down \o <<f, g>>
      BY <3>1
    <3> HIDE DEF f, g
    <3>5. /\ Len(j.down) = Len(k.down) + 2 /\ Len(k.down) \in Nat
          /\ \A i \in 1 .. Len(k.down) : j.down[i] = k.down[i]
          /\ j.down[Len(k.down) + 1] = f /\ j.down[Len(k.down) + 2] = g
      BY <1>1, <3>3, <3>4, TwoMore
    <3> HIDE DEF has, j, msg
    <3>6. ASSUME NEW n, NEW id, Says(j, n, id) PROVE Says(k, n, id) \/ (n = no /\ id = msg.id)
      <4>1. CASE \E e \in j.far : e.no = n /\ e.id = id
        <5>1. PICK e \in j.far : e.no = n /\ e.id = id
          BY <4>1
        <5>2. e \in k.far \/ e = [id |-> msg.id, no |-> no]
          BY <3>1
        <5> QED
          BY <5>1, <5>2 DEF Says
      <4>2. CASE \E x \in j.streams : x.theirs = n /\ x.id = id
        BY <1>2, <4>2 DEF Says
      <4>3. CASE \E i \in 1 .. Len(j.down) : j.down[i].t \in Naming /\ j.down[i].no = n /\ j.down[i].id = id
        <5>1. PICK i \in 1 .. Len(j.down) : j.down[i].t \in Naming /\ j.down[i].no = n /\ j.down[i].id = id
          BY <4>3
        <5>2. i \in 1 .. Len(k.down) \/ i = Len(k.down) + 1 \/ i = Len(k.down) + 2
          BY <3>5
        <5> QED
          BY <3>3, <3>5, <5>1, <5>2 DEF Says
      <4> QED
        BY <3>6, <4>1, <4>2, <4>3 DEF Says
    <3>7. CASE \E e \in has : e.no = no
      <4>1. Says(k, no, msg.id)
        BY <3>7 DEF Says, has
      <4> QED
        BY <3>6, <4>1
    <3>8. CASE has = {} /\ no = numbers.theirs + 1 /\ numbers' = [numbers EXCEPT !.theirs = no]
      BY <3>6, <3>8, NumbersAre
    <3> QED
      BY <3>1, <3>7, <3>8
  <2>2. CASE /\ msg.t = "attach" /\ j.far = k.far /\ j.down = Append(k.down, Frame("error", msg.id, 0, ""))
    <3> DEFINE f == Frame("error", msg.id, 0, "")
    <3>1. f \in FromMachine /\ f.t \notin Naming
      BY <1>2, FrameTyped DEF Frame, Naming
    <3> HIDE DEF f
    <3>2. j.down = Append(k.down, f)
      BY <2>2 DEF f
    <3>3. \A i \in 1 .. Len(j.down) : j.down[i].t \in Naming => Says(k, j.down[i].no, j.down[i].id)
      BY <1>1, <3>1, <3>2, OneMore DEF Says
    <3>4. \A x \in j.streams : Says(k, x.theirs, x.id)
      BY <1>2 DEF Says
    <3> QED
      BY <2>2, <3>3, <3>4, SaysFewer
  <2>3. CASE j.down = k.down /\ j.far \subseteq k.far
    BY <1>2, <2>3 DEF Says
  <2> QED
    BY <2>1, <2>2, <2>3, TakenIs
<1> QED
  BY <1>6, <1>7, <1>8

(***************************************************************************)
(* Whose a link is, and what the page's numbers are of.                    *)
(***************************************************************************)

\* The link k, and what a step that is no answer to the page makes of it.
Stays(k, j) ==
  /\ k = NoLink => j = NoLink
  /\ k.mute => j.mute \/ j = NoLink
  /\ ~k.closed => ~j.closed /\ j.mute = k.mute
Keeps(k, j) == Stays(k, j) /\ j.streams \subseteq k.streams

AllStay == \A l \in Link : Stays(link[l], link'[l])
AllKeep == \A l \in Link : Keeps(link[l], link'[l])

LEMMA KeepsSelf == ASSUME NEW k \in LinkRecord PROVE Keeps(k, k)
BY DEF Keeps, Stays

LEMMA UnchangedKeeps == ASSUME MachinesTypeOK, UNCHANGED link PROVE AllKeep
BY KeepsSelf, LinkTyped DEF AllKeep

\* A step of one link.
LEMMA OneKeeps ==
  ASSUME MachinesTypeOK, NEW l \in Link, Keeps(link[l], link'[l]), \A m \in Link : m # l => link'[m] = link[m]
  PROVE  AllKeep
BY KeepsSelf, LinkTyped DEF AllKeep

LEMMA HomeKept ==
  ASSUME HomeOK, AllStay, current' = current, current # None => current \in Link,
         page'.up = page.up, ~page.up => near' = {}
  PROVE  HomeOK'
BY DEF HomeOK, AllStay, Stays

LEMMA OursKept ==
  ASSUME OursOK, AllKeep, numbers'.ours = numbers.ours, MachinesTypeOK,
         \A e \in page'.streamTo : e \in page.streamTo \/ e[1] <= Base
  PROVE  OursOK'
<1>1. ASSUME NEW l \in Link, ~link'[l].mute, NEW x \in link'[l].streams
      PROVE  x.ours \in Base + 1 .. Base + numbers.ours /\ \A e \in page'.streamTo : e[1] = x.ours => e[2] = Scoped("there", x.id)
  <2>1. Keeps(link[l], link'[l])
    BY DEF AllKeep
  <2>2. link'[l] # NoLink
    BY <1>1 DEF NoLink
  <2>3. ~link[l].mute /\ x \in link[l].streams
    BY <1>1, <2>1, <2>2 DEF Keeps, Stays
  <2>4. x.ours \in Base + 1 .. Base + numbers.ours /\ Shows(x.ours, Scoped("there", x.id))
    BY <2>3 DEF OursOK
  <2>5. ~(x.ours <= Base)
    BY <2>4, Ids, NumbersAre
  <2> QED
    BY <2>4, <2>5 DEF Shows
<1> QED
  BY <1>1 DEF OursOK, Shows

LEMMA NearKept ==
  ASSUME NearOK, near' \subseteq near, numbers'.near = numbers.near,
         \A e \in page'.streamTo : e \in page.streamTo \/ (e[1] > Base /\ numbers.near <= Base),
         MachinesTypeOK
  PROVE  NearOK'
<1>1. \A e \in near : e.no \in Nat
  BY DEF MachinesTypeOK, RelayTypeOK
<1>2. ASSUME NEW e \in near', NEW s \in page'.streamTo, s[1] = e.no
      PROVE  s[2] = Scoped("here", e.id)
  <2>1. e.no <= numbers.near /\ Shows(e.no, Scoped("here", e.id))
    BY DEF NearOK
  <2>2. ~(s[1] > Base /\ numbers.near <= Base)
    BY <1>1, <1>2, <2>1, NumbersAre, Ids
  <2> QED
    BY <1>2, <2>1, <2>2 DEF Shows
<1> QED
  BY <1>2 DEF NearOK, Shows

\* A step that gives no stream a number.
LEMMA QuietStep ==
  ASSUME MachinesTypeOK, StreamsOK, AllKeep, current' = current, page'.up = page.up,
         page'.streamTo \subseteq page.streamTo, near' \subseteq near,
         numbers'.ours = numbers.ours, numbers'.near = numbers.near, Lives'
  PROVE  StreamsOK'
<1>1. HomeOK'
  <2>1. AllStay
    BY DEF AllStay, AllKeep, Keeps
  <2> QED
    BY <2>1, HomeKept, NumbersAre DEF StreamsOK, HomeOK
<1>2. Apart' => Apart
  BY DEF Apart
<1> QED
  BY <1>1, <1>2, NearKept, OursKept DEF StreamsOK

LEMMA SentKeeps ==
  ASSUME NEW k \in LinkRecord, NEW m \in ToMachine, ~k.closed
  PROVE  Keeps(k, Sent(k, m))
<1> DEFINE r == Recorded(k, m)
           j == Sent(k, m)
<1>1. /\ r \in LinkRecord /\ r.closed = k.closed /\ r.mute = k.mute /\ r.streams \subseteq k.streams
  BY RecordedTyped DEF Recorded, LinkRecord
<1>2. j = Written(r, <<m>>)
  BY DEF Sent
<1> HIDE DEF r
<1>3. j.closed = r.closed /\ j.mute = r.mute /\ j.streams = r.streams
  BY <1>1, <1>2 DEF Written, LinkRecord
<1>4. k # NoLink
  BY DEF NoLink
<1> HIDE DEF j
<1> QED
  BY <1>1, <1>3, <1>4 DEF Keeps, Stays, j

\* What is told of a pane, by the number of no stream.
LEMMA TellsQuiet ==
  ASSUME MachinesTypeOK, StreamsOK, NEW p \in PageRecord, NEW s \in ScopedId, NEW msg \in ToMachine,
         Tells(p, s, msg), UNCHANGED <<current, there>>, p.up = page.up, p.streamTo = page.streamTo,
         s[1] = "there" \/ msg.t # "attach"
  PROVE  StreamsOK'
<1>1. Lives'
  BY TellsLives DEF StreamsOK
<1>2. AllKeep
  <2>1. CASE link' = link
    BY <2>1, UnchangedKeeps
  <2>2. CASE link' # link
    <3>1. current \in Link /\ link' = [link EXCEPT ![current] = Sent(link[current], msg)]
      BY <2>2, NumbersAre DEF Tells
    <3>2. ~link[current].closed
      BY <3>1, Ids DEF StreamsOK, HomeOK
    <3>3. Keeps(link[current], link'[current]) /\ \A m \in Link : m # current => link'[m] = link[m]
      BY <3>1, <3>2, SentKeeps, LinkTyped, NumbersAre
    <3> QED
      BY <3>1, <3>3, OneKeeps
  <2> QED
    BY <2>1, <2>2
<1>3. /\ page'.up = page.up /\ page'.streamTo = page.streamTo
      /\ near' \subseteq near /\ numbers'.ours = numbers.ours /\ numbers'.near = numbers.near
  BY NumbersAre DEF Tells, PageRecord
<1> QED
  BY <1>1, <1>2, <1>3, QuietStep

\* A pane of this machine's is attached.
LEMMA TellsHere ==
  ASSUME MachinesTypeOK, StreamsOK, NEW p \in PageRecord, NEW s \in ScopedId, NEW msg \in ToMachine,
         msg.id = s[2], Tells(p, s, msg), UNCHANGED <<current, there>>, p.up = page.up, p.streamTo = page.streamTo,
         s[1] = "here", msg.t = "attach"
  PROVE  StreamsOK'
<1>1. CASE ~page.up
  <2>1. page' = p /\ UNCHANGED <<link, numbers, near>>
    BY <1>1 DEF Tells
  <2> QED
    BY <2>1, TellsLives, UnchangedKeeps, QuietStep DEF StreamsOK
<1>2. CASE page.up
  <2> DEFINE no == NearNo(msg.id)
             new == [id |-> msg.id, no |-> no]
             held == \E e \in near : e.id = msg.id
  <2>1. /\ near' = near \cup {new} /\ page' = Attached(p, {<<no, s>>}) /\ UNCHANGED link
        /\ numbers' = IF ~held THEN [numbers EXCEPT !.near = @ + 1] ELSE numbers
    BY <1>2 DEF Tells
  <2>2. /\ no \in Nat
        /\ \/ held /\ new \in near
           \/ ~held /\ no = numbers.near + 1
    <3>1. no \in Nat
      BY NearNoTyped, ScopedTyped
    <3>2. CASE held
      <4>1. (CHOOSE e \in near : e.id = msg.id) \in near /\ (CHOOSE e \in near : e.id = msg.id).id = msg.id
        BY <3>2
      <4>2. no = (CHOOSE e \in near : e.id = msg.id).no
        BY <3>2 DEF NearNo
      <4>3. \A e \in near : e = [id |-> e.id, no |-> e.no]
        BY DEF MachinesTypeOK, RelayTypeOK
      <4> QED
        BY <3>1, <3>2, <4>1, <4>2, <4>3
    <3>3. CASE ~held
      BY <3>1, <3>3 DEF NearNo
    <3> QED
      BY <3>2, <3>3
  <2> HIDE DEF no, held
  <2>3. /\ numbers'.ours = numbers.ours /\ numbers'.near \in Nat
        /\ (held \/ no <= numbers'.near) /\ numbers.near <= numbers'.near
    BY <2>1, <2>2, NumbersAre
  <2>4. /\ page'.up = page.up
        /\ page'.streamTo = {e \in page.streamTo : e[2] # s /\ e[1] # no} \cup {<<no, s>>}
    <3>1. page'.streamTo = {e \in p.streamTo : e[2] # s /\ e[1] # no} \cup {<<no, s>>}
      BY <2>1 DEF Attached, PageRecord
    <3>2. page'.up = p.up
      BY <2>1 DEF Attached, PageRecord
    <3> QED
      BY <3>1, <3>2
  <2>5. HomeOK'
    <3>1. AllStay
      BY <2>1, UnchangedKeeps DEF AllKeep, AllStay, Keeps
    <3> QED
      BY <1>2, <2>4, <3>1, HomeKept, NumbersAre DEF StreamsOK
  <2>6. Lives'
    BY TellsLives DEF StreamsOK
  <2>7. ASSUME Apart' PROVE NearOK' /\ OursOK'
    <3>1. Apart /\ numbers'.near <= Base
      BY <2>3, <2>7, NumbersAre, Ids DEF Apart
    <3>2. NearOK /\ OursOK
      BY <3>1 DEF StreamsOK
    <3>3. no <= numbers'.near
      BY <2>1, <2>2, <2>3, <3>2, NumbersAre DEF NearOK
    <3>4. s = Scoped("here", msg.id)
      BY ScopedTyped
    <3>5. OursOK'
      <4>1. AllKeep
        BY <2>1, UnchangedKeeps
      <4>2. \A e \in page'.streamTo : e \in page.streamTo \/ e[1] <= Base
        BY <2>2, <2>3, <2>4, <3>1, <3>3, Ids
      <4> QED
        BY <2>3, <3>2, <4>1, <4>2, OursKept
    <3>6. ASSUME NEW e \in near
          PROVE  /\ e.no <= numbers'.near /\ (e.no = no => e.id = msg.id)
                 /\ \A f \in near : f.no = e.no => f.id = e.id
      <4>1. /\ e.no <= numbers.near /\ e.no \in Nat
            /\ \A f \in near : f.no = e.no => f.id = e.id
        BY <3>2 DEF NearOK, MachinesTypeOK, RelayTypeOK
      <4>2. ~held => e.no # no
        BY <2>2, <4>1, NumbersAre
      <4> QED
        BY <2>2, <2>3, <4>1, <4>2, NumbersAre
    <3>7. NearOK'
      <4>1. ASSUME NEW e \in near', NEW x \in page'.streamTo, x[1] = e.no
            PROVE  x[2] = Scoped("here", e.id)
        <5>1. e \in near \/ e = new
          BY <2>1
        <5>2. CASE x = <<no, s>>
          <6>1. e.no = no
            BY <4>1, <5>2
          <6>2. e.id = msg.id
            BY <3>6, <5>1, <6>1
          <6> QED
            BY <3>4, <5>2, <6>2
        <5>3. CASE x # <<no, s>>
          <6>1. x \in page.streamTo /\ x[1] # no
            BY <2>4, <5>3
          <6>2. e \in near
            BY <4>1, <5>1, <6>1
          <6> QED
            BY <3>2, <4>1, <6>1, <6>2 DEF NearOK, Shows
        <5> QED
          BY <5>2, <5>3
      <4>2. ASSUME NEW e \in near'
            PROVE  e.no <= numbers'.near /\ \A f \in near' : f.no = e.no => f.id = e.id
        <5>1. \A f \in near' : f \in near \/ f = new
          BY <2>1
        <5>2. new.no = no /\ new.id = msg.id
          OBVIOUS
        <5> HIDE DEF new
        <5> QED
          BY <3>3, <3>6, <5>1, <5>2
      <4> QED
        BY <4>1, <4>2 DEF NearOK, Shows
    <3> QED
      BY <3>5, <3>7
  <2> QED
    BY <2>5, <2>6, <2>7 DEF StreamsOK
<1> QED
  BY <1>1, <1>2 DEF MachinesTypeOK, PageRecord

LEMMA StreamsAre ==
  ASSUME StreamsOK
  PROVE  Lives /\ HomeOK
BY DEF StreamsOK

LEMMA MountsStreams ==
  ASSUME MachinesTypeOK, StreamsOK, Mounts
  PROVE  StreamsOK'
<1>1. PICK s \in ScopedId : Tells([page EXCEPT !.panes = @ \cup {s}], s, [t |-> "attach", id |-> s[2]])
  BY DEF Mounts
<1> DEFINE p == [page EXCEPT !.panes = @ \cup {s}]
           msg == [t |-> "attach", id |-> s[2]]
<1>2. p \in PageRecord /\ p.up = page.up /\ p.streamTo = page.streamTo
  BY DEF MachinesTypeOK, PageRecord
<1>3. msg \in ToMachine /\ msg.t = "attach" /\ msg.id = s[2] /\ s[1] \in {"here", "there"}
  BY ScopedTyped DEF ToMachine, Machine
<1>4. Tells(p, s, msg) /\ UNCHANGED <<current, there>>
  BY <1>1 DEF Mounts
<1> HIDE DEF p, msg
<1> QED
  BY <1>2, <1>3, <1>4, TellsQuiet, TellsHere

LEMMA LeavesStreams ==
  ASSUME MachinesTypeOK, StreamsOK, UNCHANGED <<current, there>>, NEW s \in ScopedId,
         Tells(Unmounted(page, s), s, [t |-> "detach", id |-> s[2]])
  PROVE  StreamsOK'
<1> DEFINE p == Unmounted(page, s)
           msg == [t |-> "detach", id |-> s[2]]
<1>1. p \in PageRecord /\ p.up = page.up /\ p.streamTo = page.streamTo
  <2>1. page \in PageRecord /\ Unmounted(page, s) \in PageRecord
    BY GoneTyped DEF MachinesTypeOK
  <2> QED
    BY <2>1 DEF Unmounted, Gone, PageRecord
<1>2. msg \in ToMachine /\ msg.t # "attach"
  BY ScopedTyped DEF ToMachine
<1>3. Tells(p, s, msg)
  OBVIOUS
<1> HIDE DEF p, msg
<1> QED
  BY <1>1, <1>2, <1>3, TellsQuiet

LEMMA UnmountsStreams ==
  ASSUME MachinesTypeOK, StreamsOK, Unmounts \/ PaneLeaves
  PROVE  StreamsOK'
<1>1. PICK s \in page.panes : Tells(Unmounted(page, s), s, [t |-> "detach", id |-> s[2]])
  BY DEF Unmounts, PaneLeaves
<1>2. s \in ScopedId /\ UNCHANGED <<current, there>>
  BY DEF MachinesTypeOK, PageRecord, Unmounts, PaneLeaves
<1> QED
  BY <1>1, <1>2, LeavesStreams

LEMMA FocusesStreams ==
  ASSUME MachinesTypeOK, StreamsOK, Focuses
  PROVE  StreamsOK'
<1>1. PICK s \in page.panes : s[1] = "there" /\ Tells(page, s, [t |-> "focus", id |-> s[2]])
  BY DEF Focuses
<1>2. s \in ScopedId /\ page \in PageRecord /\ UNCHANGED <<current, there>>
  BY DEF MachinesTypeOK, PageRecord, Focuses
<1> DEFINE msg == [t |-> "focus", id |-> s[2]]
<1>3. msg \in ToMachine
  BY <1>2, ScopedTyped DEF ToMachine
<1>4. Tells(page, s, msg)
  BY <1>1
<1> HIDE DEF msg
<1> QED
  BY <1>1, <1>2, <1>3, <1>4, TellsQuiet

\* Whatever was of the page that goes is of none.
LEMMA RelayGoneStreams ==
  ASSUME MachinesTypeOK, StreamsOK, RelayGone, Lives'
  PROVE  StreamsOK'
<1>1. \A l \in Link : link'[l] = NoLink \/ link'[l].mute
  <2>1. \A k \in LinkRecord : [k EXCEPT !.mute = TRUE].mute
    BY DEF LinkRecord
  <2>2. \A l \in Link : link[l] \in LinkRecord /\ Disposed(link[l]) \in LinkRecord
    BY LinkTyped, DisposedTyped
  <2> QED
    BY <2>1, <2>2 DEF RelayGone
<1>2. HomeOK'
  BY <1>1, RelayGoneTyped DEF HomeOK
<1>3. NearOK' /\ OursOK'
  <2>1. NoLink.streams = {}
    BY DEF NoLink
  <2> QED
    BY <1>1, <2>1, RelayGoneTyped DEF NearOK, OursOK
<1> QED
  BY <1>2, <1>3 DEF StreamsOK

LEMMA PageDropsStreams ==
  ASSUME MachinesTypeOK, StreamsOK, PageDrops
  PROVE  StreamsOK'
BY StreamsAre, RelayGoneLives, RelayGoneStreams DEF PageDrops

LEMMA GatewayRestartsStreams ==
  ASSUME MachinesTypeOK, StreamsOK, GatewayRestarts
  PROVE  StreamsOK'
<1>1. RelayGone /\ UNCHANGED there /\ numbers'.theirs = numbers.theirs
  BY NumbersAre DEF GatewayRestarts
<1> QED
  BY <1>1, StreamsAre, RelayGoneLives, RelayGoneStreams

\* A page that comes back has the numbers it is given now, and no others of this life.
LEMMA PageReturnsStreams ==
  ASSUME MachinesTypeOK, StreamsOK, PageReturns(servers)
  PROVE  StreamsOK'
<1> DEFINE mine == SetToSeq({s \in page.panes : s[1] = "here"})
           names == {<<numbers.near + i, mine[i]>> : i \in DOMAIN mine}
           p == [page EXCEPT !.up = TRUE, !.painted = {},
                   !.orphans = IF servers = None THEN Theirs(page) ELSE {}]
           new == [NoLink EXCEPT !.key = servers, !.closed = FALSE, !.sock = "dialing",
                                 !.attached = Theirs(page)]
<1>1. Returned(page, servers) /\ ~page.up /\ UNCHANGED there
  BY DEF PageReturns
<1>2. /\ numbers' = [numbers EXCEPT !.ours = 0, !.near = @ + Len(mine)]
      /\ near' = {[id |-> n[2][2], no |-> n[1]] : n \in names}
      /\ page' = Attached(p, names)
  BY <1>1 DEF Returned
<1>3. /\ Len(mine) \in Nat /\ DOMAIN mine = 1 .. Len(mine)
      /\ \A i \in DOMAIN mine : mine[i] \in ScopedId /\ mine[i] = Scoped("here", mine[i][2])
  BY MineTyped, ScopedTyped DEF MachinesTypeOK, PageRecord
<1> HIDE DEF mine
<1>4. /\ numbers'.ours = 0 /\ numbers'.theirs = numbers.theirs /\ numbers'.near = numbers.near + Len(mine)
  BY <1>2, NumbersAre
<1>5. \A n \in names : n[1] \in Nat /\ n[1] <= numbers'.near /\ n[2] = Scoped("here", n[2][2])
  BY <1>3, <1>4, NumbersAre
<1>6. \A n, m \in names : n[1] = m[1] => n[2] = m[2]
  BY <1>3, NumbersAre
<1> HIDE DEF names
<1>7. /\ page'.up
      /\ \A e \in page'.streamTo : e \in names \/ \A n \in names : n[1] # e[1]
  <2>1. p.up /\ p \in PageRecord
    <3>1. Theirs(page) \in SUBSET Id /\ page \in PageRecord
      BY ScopedTyped DEF Theirs, MachinesTypeOK, PageRecord
    <3> QED
      BY <3>1 DEF PageRecord
  <2> HIDE DEF p
  <2>2. page'.up = p.up
    BY <1>2, <2>1 DEF Attached, PageRecord
  <2>3. page'.streamTo = {e \in p.streamTo : e[2] \notin {n[2] : n \in names} /\ \A n \in names : n[1] # e[1]} \cup names
    BY <1>2, <2>1 DEF Attached, PageRecord
  <2> QED
    BY <2>1, <2>2, <2>3
<1>8. /\ current' = None => link' = link
      /\ current' # None => /\ current' \in Link /\ link[current'] = NoLink
                            /\ link' = [link EXCEPT ![current'] = new]
      /\ servers = None => current' = None
  <2>1. current = None
    BY <1>1 DEF StreamsOK, HomeOK
  <2>2. CASE servers = None
    BY <2>1, <2>2 DEF PageReturns
  <2>3. CASE servers # None
    <3>1. Free # {} /\ current' = (CHOOSE l \in Free : TRUE) /\ link' = [link EXCEPT ![current'] = new]
      BY <2>3 DEF PageReturns
    <3>2. current' \in Link /\ link[current'] = NoLink
      BY <3>1, FreeIs
    <3> QED
      BY <2>3, <3>1, <3>2, Ids
  <2> QED
    BY <2>2, <2>3
<1>9. new.streams = {} /\ ~new.closed /\ ~new.mute
  BY DEF NoLink
<1>10. LifeOK(new, numbers.theirs, there.up)
  BY NewLinkLife
<1>11. NoLink.streams = {}
  BY DEF NoLink
<1> HIDE DEF new
<1>12. Lives'
  BY <1>1, <1>4, <1>8, <1>10, NumbersAre DEF Lives, StreamsOK
<1>13. HomeOK'
  BY <1>7, <1>8, <1>9, NumbersAre DEF HomeOK
<1>14. OursOK'
  <2>1. \A l \in Link : link[l].mute \/ link[l] = NoLink
    BY <1>1 DEF StreamsOK, HomeOK
  <2>2. \A l \in Link : link'[l].mute \/ link'[l].streams = {}
    BY <1>8, <1>9, <1>11, <2>1, NumbersAre
  <2> QED
    BY <2>2 DEF OursOK
<1>15. NearOK'
  <2>1. ASSUME NEW e \in near'
        PROVE  /\ e.no <= numbers'.near
               /\ \A x \in page'.streamTo : x[1] = e.no => x[2] = Scoped("here", e.id)
               /\ \A f \in near' : f.no = e.no => f.id = e.id
    <3>1. PICK n \in names : e = [id |-> n[2][2], no |-> n[1]]
      BY <1>2
    <3>2. e.id = n[2][2] /\ e.no = n[1]
      BY <3>1
    <3>3. \A x \in page'.streamTo : x[1] = e.no => x[2] = Scoped("here", e.id)
      BY <1>5, <1>6, <1>7, <3>2
    <3>4. ASSUME NEW f \in near', f.no = e.no PROVE f.id = e.id
      <4>1. PICK m \in names : f = [id |-> m[2][2], no |-> m[1]]
        BY <1>2
      <4>2. f.id = m[2][2] /\ f.no = m[1]
        BY <4>1
      <4>3. m[2] = n[2]
        BY <1>6, <3>2, <3>4, <4>2
      <4> QED
        BY <3>2, <4>2, <4>3
    <3> QED
      BY <1>5, <3>2, <3>3, <3>4
  <2> QED
    BY <2>1 DEF NearOK, Shows
<1> QED
  BY <1>12, <1>13, <1>14, <1>15 DEF StreamsOK

\* Relay.sync: a link is put away, and another begins.
LEMMA SyncedStreams ==
  ASSUME MachinesTypeOK, StreamsOK, NEW p \in PageRecord, NEW key \in 0 .. MaxKey,
         Synced(p, link, key), UNCHANGED <<numbers, near>>, there'.up = there.up,
         p.up = page.up, p.streamTo = page.streamTo
  PROVE  StreamsOK'
<1>1. Lives'
  BY StreamsAre, SyncedLives
<1>2. page'.up = page.up /\ page'.streamTo = page.streamTo
  <2>1. page' = p \/ page' = [p EXCEPT !.orphans = @ \cup link[current].attached]
    BY DEF Synced
  <2> QED
    BY <2>1 DEF PageRecord
<1> DEFINE new == [NoLink EXCEPT !.key = key, !.closed = FALSE, !.sock = "dialing"]
<1>3. new.streams = {} /\ ~new.closed /\ ~new.mute
  BY DEF NoLink
<1> HIDE DEF new
<1>4. \A l \in Link :
        /\ Disposed(link[l]).mute = link[l].mute /\ Disposed(link[l]).streams = link[l].streams
  BY LinkTyped DEF Disposed, LinkRecord
<1>5. \/ link' = link /\ current' = current
      \/ /\ page.up /\ current' = None
         /\ \A l \in Link : link'[l] = IF l = current THEN Disposed(link[l]) ELSE link[l]
      \/ /\ page.up /\ current' \in Link
         /\ \A l \in Link : link'[l] =
              IF l = current' THEN new ELSE IF l = current THEN Disposed(link[l]) ELSE link[l]
  BY SyncedLinks DEF new
<1>6. \A l \in Link : link'[l].streams = {} \/ (link'[l].streams = link[l].streams /\ link'[l].mute = link[l].mute)
  BY <1>3, <1>4, <1>5
<1>7. HomeOK'
  <2>1. CASE link' = link /\ current' = current
    BY <1>2, <2>1 DEF StreamsOK, HomeOK
  <2>2. CASE page.up
    BY <1>2, <1>3, <1>5, <2>2 DEF HomeOK, StreamsOK
  <2> QED
    BY <1>5, <2>1, <2>2
<1>8. ASSUME Apart' PROVE NearOK' /\ OursOK'
  <2>1. Apart /\ NearOK /\ OursOK
    BY <1>8 DEF Apart, StreamsOK
  <2>2. NearOK'
    BY <1>2, <2>1 DEF NearOK, Shows
  <2>3. OursOK'
    <3>1. ASSUME NEW l \in Link, ~link'[l].mute, NEW x \in link'[l].streams
          PROVE  x.ours \in Base + 1 .. Base + numbers.ours /\ Shows(x.ours, Scoped("there", x.id))
      <4>1. link'[l].streams = link[l].streams /\ link'[l].mute = link[l].mute
        BY <1>6, <3>1
      <4> QED
        BY <2>1, <3>1, <4>1 DEF OursOK
    <3> QED
      BY <1>2, <3>1 DEF OursOK, Shows
  <2> QED
    BY <2>2, <2>3
<1> QED
  BY <1>1, <1>7, <1>8 DEF StreamsOK

LEMMA LinksStreams ==
  ASSUME MachinesTypeOK, StreamsOK, Links
  PROVE  StreamsOK'
<1> DEFINE token == there.given + 1
           p == Invalidated(page)
<1>1. token \in 0 .. MaxKey
  BY Ids DEF Links, MachinesTypeOK
<1>2. p \in PageRecord /\ p.up = page.up /\ p.streamTo = page.streamTo
  BY InvalidatedTyped DEF Invalidated, MachinesTypeOK, PageRecord
<1>3. Synced(p, link, token) /\ UNCHANGED <<numbers, near>>
  BY DEF Links
<1>4. there'.up = there.up
  BY DEF Links, MachinesTypeOK
<1> HIDE DEF token, p
<1> QED
  BY <1>1, <1>2, <1>3, <1>4, SyncedStreams

LEMMA UnlinksStreams ==
  ASSUME MachinesTypeOK, StreamsOK, Unlinks
  PROVE  StreamsOK'
<1> DEFINE p == Invalidated(page)
<1>1. None \in 0 .. MaxKey
  BY Ids DEF None
<1>2. p \in PageRecord /\ p.up = page.up /\ p.streamTo = page.streamTo
  BY InvalidatedTyped DEF Invalidated, MachinesTypeOK, PageRecord
<1>3. Synced(p, link, None) /\ UNCHANGED <<numbers, near, there>>
  BY DEF Unlinks
<1> HIDE DEF p
<1> QED
  BY <1>1, <1>2, <1>3, SyncedStreams

LEMMA LinkStepStreams ==
  ASSUME MachinesTypeOK, StreamsOK, NEW l \in Link, LinkOpens(l) \/ LinkCloses(l) \/ LinkRetries(l)
  PROVE  StreamsOK'
<1>1. Lives'
  BY StreamsAre, LinkStepLives
<1>2. link[l] \in LinkRecord /\ \A m \in Link : m # l => link'[m] = link[m]
  BY LinkTyped, NumbersAre DEF LinkOpens, LinkCloses, LinkRetries
<1>3. Keeps(link[l], link'[l])
  <2> DEFINE k == link[l]
             j == link'[l]
  <2>1. CASE LinkOpens(l)
    <3>1. j = Written([k EXCEPT !.sock = "open"], Replay(k)) /\ k.sock = "dialing"
      BY <2>1, NumbersAre DEF LinkOpens
    <3>2. j.closed = k.closed /\ j.mute = k.mute /\ j.streams = k.streams
      BY <1>2, <3>1 DEF Written, LinkRecord
    <3>3. k # NoLink
      BY <3>1 DEF NoLink
    <3> QED
      BY <3>2, <3>3 DEF Keeps, Stays
  <2>2. CASE LinkCloses(l)
    <3>1. /\ j = IF ~k.closed THEN [Hung(k) EXCEPT !.timer = TRUE]
                 ELSE IF k.timer THEN Hung(k) ELSE NoLink
          /\ k.sock # "none"
      BY <2>2, NumbersAre DEF LinkCloses
    <3>2. /\ [Hung(k) EXCEPT !.timer = TRUE].closed = k.closed /\ [Hung(k) EXCEPT !.timer = TRUE].mute = k.mute
          /\ [Hung(k) EXCEPT !.timer = TRUE].streams = {}
          /\ Hung(k).closed = k.closed /\ Hung(k).mute = k.mute /\ Hung(k).streams = {}
      BY <1>2 DEF Hung, LinkRecord
    <3>3. k # NoLink /\ NoLink.streams = {}
      BY <3>1 DEF NoLink
    <3> QED
      BY <3>1, <3>2, <3>3 DEF Keeps, Stays
  <2>3. CASE LinkRetries(l)
    <3>1. j = Opened(k) /\ k.timer
      BY <2>3, NumbersAre DEF LinkRetries
    <3>2. ~k.closed => j.closed = k.closed /\ j.mute = k.mute /\ j.streams = k.streams
      BY <1>2, <3>1 DEF Opened, LinkRecord
    <3>3. k.closed => j = NoLink
      BY <3>1 DEF Opened
    <3>4. k # NoLink /\ NoLink.streams = {}
      BY <3>1 DEF NoLink
    <3> QED
      BY <3>2, <3>3, <3>4 DEF Keeps, Stays
  <2> QED
    BY <2>1, <2>2, <2>3
<1>4. UNCHANGED <<current, numbers, near>> /\ page'.up = page.up /\ page'.streamTo = page.streamTo
  BY DEF LinkOpens, LinkCloses, LinkRetries, MachinesTypeOK, PageRecord
<1> QED
  BY <1>1, <1>2, <1>3, <1>4, OneKeeps, QuietStep

LEMMA FarTakesStreams ==
  ASSUME MachinesTypeOK, StreamsOK, UNCHANGED gateway, NEW l \in Link, FarTakes(l)
  PROVE  StreamsOK'
<1>1. Lives'
  BY StreamsAre, FarTakesLives
<1>2. /\ link'[l].closed = link[l].closed /\ link'[l].mute = link[l].mute /\ link'[l].streams = link[l].streams
      /\ link[l].up # <<>> /\ \A m \in Link : m # l => link'[m] = link[m]
      /\ UNCHANGED <<current, near, page>>
  BY StreamsAre, TakenIs
<1>3. Keeps(link[l], link'[l])
  BY <1>2 DEF Keeps, Stays, NoLink
<1>4. numbers'.ours = numbers.ours /\ numbers'.near = numbers.near
  BY NumbersAre DEF FarTakes
<1> QED
  BY <1>1, <1>2, <1>3, <1>4, OneKeeps, QuietStep

LEMMA FarOutputsStreams ==
  ASSUME MachinesTypeOK, StreamsOK, NEW l \in Link, FarOutputs(l)
  PROVE  StreamsOK'
<1>1. Lives'
  BY StreamsAre, FarOutputsLives
<1>2. PICK e \in link[l].far : link' = [link EXCEPT ![l].down = Append(@, Frame("output", e.id, e.no, ""))]
  BY DEF FarOutputs
<1>3. /\ link'[l] = [link[l] EXCEPT !.down = Append(@, Frame("output", e.id, e.no, ""))]
      /\ \A m \in Link : m # l => link'[m] = link[m]
  BY <1>2, NumbersAre
<1>4. Keeps(link[l], link'[l])
  <2>1. link'[l].closed = link[l].closed /\ link'[l].mute = link[l].mute /\ link'[l].streams = link[l].streams
    BY <1>3, LinkTyped DEF LinkRecord
  <2>2. NoLink.far = {}
    BY DEF NoLink
  <2>3. link[l] # NoLink
    BY <1>2, <2>2
  <2> QED
    BY <2>1, <2>3 DEF Keeps, Stays
<1>5. UNCHANGED <<current, near, page, numbers>>
  BY DEF FarOutputs
<1> QED
  BY <1>1, <1>3, <1>4, <1>5, OneKeeps, QuietStep

\* The machine names a stream, and the page is given a number of its own for it.
LEMMA LinkHearsStreams ==
  ASSUME MachinesTypeOK, StreamsOK, NEW l \in Link, LinkHears(l, Known)
  PROVE  StreamsOK'
<1> DEFINE k == link[l]
           msg == Head(k.down)
           s == Scoped("there", msg.id)
           heard == [link EXCEPT ![l].down = Tail(@)]
           ours == OurNo(numbers.ours + 1)
           stream == [theirs |-> msg.no, ours |-> ours, id |-> msg.id]
           was == [k EXCEPT !.down = Tail(@)]
           now == [was EXCEPT !.streams = {e \in @ : e.theirs # msg.no} \cup {stream}]
<1>1. Lives'
  BY StreamsAre, LinkHearsLives
<1>2. /\ k # NoLink /\ msg \in FromMachine /\ was \in LinkRecord /\ k \in LinkRecord
      /\ was.closed = k.closed /\ was.mute = k.mute /\ was.streams = k.streams
  <2>1. k.down # <<>> /\ k \in LinkRecord
    BY LinkTyped DEF LinkHears
  <2>2. k # NoLink
    BY <2>1 DEF NoLink
  <2>3. msg \in FromMachine /\ was \in LinkRecord
    BY <2>1, HeardTyped
  <2>4. was.closed = k.closed /\ was.mute = k.mute /\ was.streams = k.streams
    BY <2>1 DEF LinkRecord
  <2> QED
    BY <2>1, <2>2, <2>3, <2>4
<1>3. heard[l] = was /\ \A m \in Link : m # l => heard[m] = link[m]
  BY NumbersAre
<1>4. UNCHANGED <<current, near>>
  BY DEF LinkHears
<1>5. CASE msg.t # "attached"
  <2>1. link' = heard /\ UNCHANGED numbers
    BY <1>5 DEF LinkHears
  <2>2. page'.up = page.up /\ page'.streamTo = page.streamTo
    <3>1. page' = IF link[l].mute THEN page
                  ELSE CASE msg.t = "error" -> Gone(page, s)
                         [] msg.t = "state" -> IF s \in Known THEN Patched(page, s, msg.says) ELSE page
                         [] msg.t = "invalidate" -> [page EXCEPT !.asked = TRUE]
                         [] OTHER -> page
      BY <1>5 DEF LinkHears
    <3>2. \A p \in {Gone(page, s), Patched(page, s, msg.says), [page EXCEPT !.asked = TRUE], page} :
            p.up = page.up /\ p.streamTo = page.streamTo
      BY NumbersAre DEF Gone, Patched, PageRecord
    <3>3. page' \in {Gone(page, s), Patched(page, s, msg.says), [page EXCEPT !.asked = TRUE], page}
      BY <3>1
    <3> QED
      BY <3>2, <3>3
  <2>3. Keeps(link[l], link'[l])
    BY <1>2, <1>3, <2>1 DEF Keeps, Stays
  <2> QED
    BY <1>1, <1>3, <1>4, <2>1, <2>2, <2>3, OneKeeps, QuietStep
<1>6. CASE msg.t = "attached"
  <2>1. /\ link' = [heard EXCEPT ![l].streams = {e \in @ : e.theirs # msg.no} \cup {stream}]
        /\ \/ link[l].mute /\ UNCHANGED <<numbers, page>>
           \/ /\ ~link[l].mute /\ numbers' = [numbers EXCEPT !.ours = @ + 1]
              /\ page' = [Attached(page, {<<ours, s>>}) EXCEPT
                            !.orphans = IF l = current THEN @ ELSE @ \cup {msg.id}]
    BY <1>6 DEF LinkHears
  <2>2. link'[l] = now /\ \A m \in Link : m # l => link'[m] = link[m]
    BY <1>3, <2>1, NumbersAre
  <2>3. /\ now.closed = k.closed /\ now.mute = k.mute
        /\ now.streams = {e \in k.streams : e.theirs # msg.no} \cup {stream}
    <3> HIDE DEF was, stream
    <3> QED
      BY <1>2 DEF LinkRecord
  <2> HIDE DEF now
  <2>4. page'.up = page.up
    BY <2>1, NumbersAre DEF Attached, PageRecord
  <2>5. numbers'.near = numbers.near /\ numbers'.ours \in Nat /\ numbers.ours <= numbers'.ours
    BY <2>1, NumbersAre
  <2>6. HomeOK'
    <3>1. Stays(link[l], link'[l])
      BY <1>2, <2>2, <2>3 DEF Stays
    <3>2. AllStay
      BY <2>2, <3>1, KeepsSelf, LinkTyped DEF AllStay, Keeps
    <3> QED
      BY <1>4, <2>4, <3>2, HomeKept, NumbersAre DEF StreamsOK, HomeOK
  <2>7. ASSUME Apart' PROVE NearOK' /\ OursOK'
    <3>1. Apart /\ NearOK /\ OursOK /\ numbers.near <= Base
      BY <2>5, <2>7 DEF Apart, StreamsOK
    <3>2. CASE link[l].mute
      <4>1. UNCHANGED <<numbers, page>>
        BY <2>1, <3>2
      <4>2. NearOK'
        BY <1>4, <3>1, <4>1 DEF NearOK, Shows
      <4>3. OursOK'
        <5>1. \A m \in Link : ~link'[m].mute => link'[m] = link[m]
          BY <2>2, <2>3, <3>2
        <5> QED
          BY <3>1, <4>1, <5>1 DEF OursOK, Shows
      <4> QED
        BY <4>2, <4>3
    <3>3. CASE ~link[l].mute
      <4>1. /\ numbers'.ours = numbers.ours + 1
            /\ page'.streamTo = {e \in page.streamTo : e[2] # s /\ e[1] # ours} \cup {<<ours, s>>}
        <5>1. Attached(page, {<<ours, s>>}) \in PageRecord
          <6>1. ours \in Nat /\ s \in ScopedId
            <7>1. msg.id \in Id
              BY <1>2, <1>6 DEF FromMachine
            <7>2. s \in ScopedId
              BY <7>1, ScopedIs DEF Machine
            <7>3. ours \in Nat
              BY Ids, NumbersAre DEF OurNo
            <7> QED
              BY <7>2, <7>3
          <6> QED
            BY <6>1, AttachedTyped, NumbersAre
        <5>2. Attached(page, {<<ours, s>>}).streamTo = {e \in page.streamTo : e[2] # s /\ e[1] # ours} \cup {<<ours, s>>}
          BY NumbersAre DEF Attached, PageRecord
        <5>3. /\ numbers' = [numbers EXCEPT !.ours = @ + 1]
              /\ page' = [Attached(page, {<<ours, s>>}) EXCEPT
                            !.orphans = IF l = current THEN @ ELSE @ \cup {msg.id}]
          BY <2>1, <3>3
        <5>4. page'.streamTo = Attached(page, {<<ours, s>>}).streamTo
          BY <5>1, <5>3 DEF PageRecord
        <5> QED
          BY <5>2, <5>3, <5>4, NumbersAre
      <4>2. ours = Base + numbers.ours + 1 /\ stream.ours = ours /\ stream.id = msg.id
        BY Ids, NumbersAre DEF OurNo
      <4> HIDE DEF ours, stream
      <4>3. NearOK'
        <5>1. \A e \in page'.streamTo : e \in page.streamTo \/ (e[1] > Base /\ numbers.near <= Base)
          BY <3>1, <4>1, <4>2, Ids, NumbersAre
        <5> QED
          BY <1>4, <2>5, <3>1, <5>1, NearKept
      <4>4. OursOK'
        <5>1. ASSUME NEW m \in Link, ~link'[m].mute, NEW x \in link'[m].streams
              PROVE  /\ x.ours \in Base + 1 .. Base + numbers'.ours
                     /\ \A e \in page'.streamTo : e[1] = x.ours => e[2] = Scoped("there", x.id)
          <6>1. CASE m = l /\ x = stream
            BY <4>1, <4>2, <6>1, Ids, NumbersAre
          <6>2. CASE ~link[m].mute /\ x \in link[m].streams
            <7>1. x.ours \in Base + 1 .. Base + numbers.ours /\ Shows(x.ours, Scoped("there", x.id))
              BY <3>1, <6>2 DEF OursOK
            <7>2. x.ours # ours /\ x.ours \in Base + 1 .. Base + numbers'.ours
              BY <4>1, <4>2, <7>1, Ids, NumbersAre
            <7> QED
              BY <4>1, <7>1, <7>2 DEF Shows
          <6> QED
            BY <2>2, <2>3, <5>1, <6>1, <6>2
        <5> QED
          BY <5>1 DEF OursOK, Shows
      <4> QED
        BY <4>3, <4>4
    <3> QED
      BY <3>2, <3>3
  <2> QED
    BY <1>1, <2>6, <2>7 DEF StreamsOK
<1> QED
  BY <1>5, <1>6

LEMMA PushedKeeps ==
  ASSUME MachinesTypeOK, NEW f \in FromMachine, NEW l \in Link
  PROVE  Keeps(link[l], Pushed(f)[l])
<1>1. CASE link[l].sock = "open"
  <2>1. Pushed(f)[l] = [link[l] EXCEPT !.down = Append(@, f)]
    BY <1>1 DEF Pushed
  <2>2. /\ Pushed(f)[l].closed = link[l].closed /\ Pushed(f)[l].mute = link[l].mute
        /\ Pushed(f)[l].streams = link[l].streams
    BY <2>1, LinkTyped DEF LinkRecord
  <2>3. link[l] # NoLink
    BY <1>1 DEF NoLink
  <2> QED
    BY <2>2, <2>3 DEF Keeps, Stays
<1>2. CASE link[l].sock # "open"
  BY <1>2, KeepsSelf, LinkTyped DEF Pushed
<1> QED
  BY <1>1, <1>2

LEMMA AttentionChangesStreams ==
  ASSUME MachinesTypeOK, StreamsOK, AttentionChanges
  PROVE  StreamsOK'
<1>1. Lives'
  BY StreamsAre, AttentionChangesLives
<1>2. AllKeep
  <2>1. ASSUME NEW id \in DOMAIN there.runs, link' = Pushed(Frame("state", id, 0, Other(there.runs[id])))
        PROVE  AllKeep
    <3>1. id \in Id /\ there.runs[id] \in {"idle", "blocked"}
      BY RunsIs DEF MachinesTypeOK
    <3>2. Frame("state", id, 0, Other(there.runs[id])) \in FromMachine
      BY <3>1, OtherTyped, FrameTyped
    <3> QED
      BY <2>1, <3>2, PushedKeeps DEF AllKeep
  <2> QED
    BY <2>1, UnchangedKeeps DEF AttentionChanges
<1>3. page'.up = page.up /\ page'.streamTo = page.streamTo
  <2>1. page' = page \/ \E s, how : page' = Patched(page, s, how)
    BY DEF AttentionChanges
  <2> QED
    BY <2>1, NumbersAre DEF Patched, PageRecord
<1> QED
  BY <1>1, <1>2, <1>3, QuietStep DEF AttentionChanges

LEMMA KilledNoLink ==
  ASSUME NEW id \in Id
  PROVE  [NoLink EXCEPT !.far = {e \in @ : e.id # id}, !.farFocus = IF @ = id THEN None ELSE @] = NoLink
<1> DEFINE j == [NoLink EXCEPT !.far = {e \in @ : e.id # id}, !.farFocus = IF @ = id THEN None ELSE @]
<1>1. {e \in NoLink.far : e.id # id} = NoLink.far /\ NoLink.farFocus # id
  BY Ids DEF NoLink
<1>2. j = [NoLink EXCEPT !.far = NoLink.far, !.farFocus = NoLink.farFocus]
  BY <1>1
<1> QED
  BY <1>2 DEF NoLink

LEMMA KillsStreams ==
  ASSUME MachinesTypeOK, StreamsOK, Kills
  PROVE  StreamsOK'
<1>1. Lives'
  BY StreamsAre, KillsLives
<1>2. AllKeep
  <2>1. ASSUME NEW id \in Id,
               link' = [l \in Link |-> [Pushed(Frame("invalidate", None, 0, ""))[l] EXCEPT
                          !.far = {e \in @ : e.id # id}, !.farFocus = IF @ = id THEN None ELSE @]]
        PROVE  AllKeep
    <3> DEFINE f == Frame("invalidate", None, 0, "")
    <3>1. f \in FromMachine
      BY DEF Frame, FromMachine
    <3> HIDE DEF f
    <3>2. ASSUME NEW l \in Link PROVE Keeps(link[l], link'[l])
      <4>1. Pushed(f)[l] \in LinkRecord /\ Keeps(link[l], Pushed(f)[l])
        BY <3>1, PushedTyped, PushedKeeps
      <4>2. link'[l] = [Pushed(f)[l] EXCEPT !.far = {e \in @ : e.id # id}, !.farFocus = IF @ = id THEN None ELSE @]
        BY <2>1 DEF f
      <4>3. /\ link'[l].closed = Pushed(f)[l].closed /\ link'[l].mute = Pushed(f)[l].mute
            /\ link'[l].streams = Pushed(f)[l].streams
        BY <4>1, <4>2 DEF LinkRecord
      <4>4. link[l] = NoLink => link'[l] = NoLink
        <5>1. ASSUME link[l] = NoLink PROVE Pushed(f)[l] = NoLink
          BY <4>1, <5>1 DEF Keeps, Stays
        <5>2. [NoLink EXCEPT !.far = {e \in @ : e.id # id}, !.farFocus = IF @ = id THEN None ELSE @] = NoLink
          BY KilledNoLink
        <5> QED
          BY <4>2, <5>1, <5>2
      <4>5. link[l].mute => link'[l].mute \/ link'[l] = NoLink
        <5>1. CASE Pushed(f)[l].mute
          BY <4>3, <5>1
        <5>2. CASE Pushed(f)[l] = NoLink
          <6>1. [NoLink EXCEPT !.far = {e \in @ : e.id # id}, !.farFocus = IF @ = id THEN None ELSE @] = NoLink
            BY KilledNoLink
          <6> QED
            BY <4>2, <5>2, <6>1
        <5> QED
          BY <4>1, <5>1, <5>2 DEF Keeps, Stays
      <4> QED
        BY <4>1, <4>3, <4>4, <4>5 DEF Keeps, Stays
    <3> QED
      BY <3>2 DEF AllKeep
  <2> QED
    BY <2>1, UnchangedKeeps, ScopedTyped DEF Kills
<1>3. page'.up = page.up /\ page'.streamTo = page.streamTo
  BY NumbersAre DEF Kills, Invalidated, PageRecord
<1>4. near' \subseteq near
  BY DEF Kills
<1> QED
  BY <1>1, <1>2, <1>3, <1>4, QuietStep DEF Kills

LEMMA TheirStopsStreams ==
  ASSUME MachinesTypeOK, StreamsOK, TheirStops
  PROVE  StreamsOK'
<1>1. Lives'
  BY StreamsAre, TheirStopsLives
<1>2. ASSUME NEW l \in Link PROVE Keeps(link[l], link'[l])
  <2>1. CASE link[l].sock \in {"open", "dying", "closing"}
    <3>1. link'[l] = [link[l] EXCEPT !.sock = IF @ = "open" THEN "dying" ELSE @,
                                     !.up = <<>>, !.far = {}, !.farFocus = None]
      BY <2>1 DEF TheirStops
    <3>2. link'[l].closed = link[l].closed /\ link'[l].mute = link[l].mute /\ link'[l].streams = link[l].streams
      BY <3>1, LinkTyped DEF LinkRecord
    <3>3. link[l] # NoLink
      BY <2>1 DEF NoLink
    <3> QED
      BY <3>2, <3>3 DEF Keeps, Stays
  <2>2. CASE link[l].sock \notin {"open", "dying", "closing"}
    BY <2>2, KeepsSelf, LinkTyped DEF TheirStops
  <2> QED
    BY <2>1, <2>2
<1>3. UNCHANGED <<current, numbers, near, page>>
  BY DEF TheirStops
<1> QED
  BY <1>1, <1>2, <1>3, QuietStep DEF AllKeep

LEMMA TheirStartsStreams ==
  ASSUME MachinesTypeOK, StreamsOK, TheirStarts
  PROVE  StreamsOK'
<1>1. Lives' /\ AllKeep
  BY StreamsAre, TheirStartsLives, UnchangedKeeps DEF TheirStarts
<1>2. UNCHANGED <<current, near, page>> /\ numbers'.ours = numbers.ours /\ numbers'.near = numbers.near
  BY NumbersAre DEF TheirStarts
<1> QED
  BY <1>1, <1>2, QuietStep

\* A step of what is not the relay's.
LEMMA OtherStepStreams ==
  ASSUME MachinesTypeOK, StreamsOK, UNCHANGED <<link, current, numbers, near>>,
         there'.up = there.up, page'.up = page.up, page'.streamTo = page.streamTo
  PROVE  StreamsOK'
<1>1. Lives' /\ AllKeep
  BY UnchangedKeeps DEF StreamsOK, Lives
<1> QED
  BY <1>1, QuietStep

LEMMA InitStreams == MachinesInit => StreamsOK
<1> SUFFICES ASSUME MachinesInit PROVE StreamsOK
  OBVIOUS
<1>1. Lives
  BY NoLinkLife DEF MachinesInit, Lives
<1>2. HomeOK
  BY DEF MachinesInit, HomeOK
<1>3. NearOK /\ OursOK
  BY DEF MachinesInit, NearOK, OursOK, NoLink
<1> QED
  BY <1>1, <1>2, <1>3 DEF StreamsOK

LEMMA StepStreams == MachinesTypeOK /\ StreamsOK /\ [MachinesNext]_machinesVars => StreamsOK'
<1> SUFFICES ASSUME MachinesTypeOK, StreamsOK, [MachinesNext]_machinesVars PROVE StreamsOK'
  OBVIOUS
<1>1. CASE UNCHANGED machinesVars
  BY <1>1, OtherStepStreams DEF machinesVars
<1>2. CASE RelayNext
  <2>1. UNCHANGED gateway
    BY <1>2 DEF RelayNext
  <2>2. CASE Mounts \/ Unmounts \/ Focuses \/ PageDrops \/ PageReturns(servers)
    BY <2>2, MountsStreams, UnmountsStreams, FocusesStreams, PageDropsStreams, PageReturnsStreams
  <2>3. ASSUME NEW l \in Link,
               LinkOpens(l) \/ LinkCloses(l) \/ LinkRetries(l) \/ FarTakes(l) \/ FarOutputs(l) \/ LinkHears(l, Known)
        PROVE  StreamsOK'
    BY <2>1, <2>3, LinkStepStreams, FarTakesStreams, FarOutputsStreams, LinkHearsStreams
  <2> QED
    BY <1>2, <2>2, <2>3 DEF RelayNext
<1>3. CASE ReadStarts \/ (\E i \in DOMAIN reads : PeerAnswers(i) \/ ReadEnds(i)) \/ PasswordChanges \/ Saves
  <2>1. UNCHANGED <<link, current, numbers, near>>
    BY <1>3 DEF ReadStarts, PeerAnswers, ReadEnds, PasswordChanges, Saves
  <2>2. there'.up = there.up
    BY <1>3 DEF ReadStarts, PeerAnswers, ReadEnds, PasswordChanges, Saves, MachinesTypeOK
  <2>3. page'.up = page.up /\ page'.streamTo = page.streamTo
    <3>1. CASE ReadStarts
      BY <3>1, NumbersAre DEF ReadStarts, PageRecord
    <3>2. ASSUME NEW i \in DOMAIN reads, ReadEnds(i)
          PROVE  page'.up = page.up /\ page'.streamTo = page.streamTo
      <4>1. \E tabs, row : page' = [page EXCEPT !.tabs = tabs, !.row = row]
        BY <3>2 DEF ReadEnds
      <4> QED
        BY <4>1, NumbersAre DEF PageRecord
    <3>3. CASE (\E i \in DOMAIN reads : PeerAnswers(i)) \/ PasswordChanges \/ Saves
      BY <3>3 DEF PeerAnswers, PasswordChanges, Saves
    <3> QED
      BY <1>3, <3>1, <3>2, <3>3
  <2> QED
    BY <2>1, <2>2, <2>3, OtherStepStreams
<1> QED
  BY <1>1, <1>2, <1>3, UnmountsStreams, AttentionChangesStreams, KillsStreams, TheirStopsStreams,
     TheirStartsStreams, LinksStreams, UnlinksStreams, GatewayRestartsStreams DEF MachinesNext

(***************************************************************************)
(* What the machine holds, once it has taken what is on its way to it.     *)
(***************************************************************************)

\* A frame that attaches a session, and one that detaches it; u detaches it from i on.
Requests(m, id) == m.t = "attach" /\ m.id = id
Detaches(m, id) == m.t = "detach" /\ m.id = id
Detached(u, id, i) == \E j \in i .. Len(u) : Detaches(u[j], id)
Unclaimed(u, id) == \A i \in 1 .. Len(u) : ~Requests(u[i], id) /\ ~Detaches(u[i], id)

\* Once it has taken u, the machine has id attached, if it has it now or not.
WillHold(u, id, has) ==
  \/ has /\ ~Detached(u, id, 1)
  \/ \E n \in 1 .. Len(u) : Requests(u[n], id) /\ ~Detached(u, id, n)

\* No frame of u from i on takes the keyboard from id.
Leaves(u, id, i) == \A j \in i .. Len(u) : u[j].t # "focus" /\ ~Detaches(u[j], id)

\* A frame of u gives id the keyboard, and finds it attached.
WillFocus(u, id, has) ==
  \E i \in 1 .. Len(u) :
    /\ u[i].t = "focus" /\ u[i].id = id /\ Leaves(u, id, i + 1)
    /\ \/ has /\ ~Detached(u, id, 1)
       \/ \E n \in 1 .. i : Requests(u[n], id) /\ ~Detached(u, id, n)

Held(k, id) == \E e \in k.far : e.id = id

\* The frame says that id is attached; the last of d that does says no; none of d does.
Accepts(m, id) == m.t = "attached" /\ m.id = id
Latest(d, id, no) ==
  \A i \in 1 .. Len(d) : Accepts(d[i], id) /\ (\A j \in i + 1 .. Len(d) : ~Accepts(d[j], id)) => d[i].no = no
Heard(d, id) == \A i \in 1 .. Len(d) : ~Accepts(d[i], id)

AnsweredOK(k, runs) ==
  /\ \A i \in 1 .. Len(k.down) : k.down[i].t = "error" => k.down[i].id \notin runs
  /\ \A e \in k.far : Latest(k.down, e.id, e.no) /\ \A f \in k.far : e.id = f.id => e.no = f.no

\* The stream e of the link is the pane's.
Feeds(k, e, p) ==
  /\ Scoped("there", e.id) \in p.painted
  /\ \E x \in k.streams : x.theirs = e.no /\ x.id = e.id /\ <<x.ours, Scoped("there", e.id)>> \in p.streamTo

\* Of the page's link, the sessions the machine runs, and the page.
OpenOK(k, runs, p) ==
  /\ \A e \in k.far : e.id \in runs
  /\ \A id \in runs : id \in k.attached <=> WillHold(k.up, id, Held(k, id))
  /\ \A e \in k.far :
       e.id \in k.attached \ p.orphans /\ Unclaimed(k.up, e.id) /\ Heard(k.down, e.id) => Feeds(k, e, p)
  /\ k.focused \in runs \ p.orphans =>
       \/ k.farFocus = k.focused /\ Leaves(k.up, k.focused, 1)
       \/ WillFocus(k.up, k.focused, Held(k, k.focused))

PanesOK(k, runs, p) ==
  /\ \A id \in runs \cap k.attached : Scoped("there", id) \in p.panes
  /\ \A id \in runs \ p.orphans : Scoped("there", id) \in p.panes => id \in k.attached
  /\ k.focused \in runs \ p.orphans => k.focused \in k.attached

\* No pane is left to claim.
NoPane(runs, p) == \A id \in runs \ p.orphans : Scoped("there", id) \notin p.panes

Running == DOMAIN there.runs

FedOK ==
  /\ \A l \in Link : AnsweredOK(link[l], Running)
  /\ page.up /\ current = None => NoPane(Running, page)
  /\ page.up /\ current # None =>
       PanesOK(link[current], Running, page)
       /\ (Apart /\ link[current].sock = "open" => OpenOK(link[current], Running, page))

(***************************************************************************)
(* What is on its way to the machine, with one frame more and one less.    *)
(***************************************************************************)

LEMMA SentOn ==
  ASSUME NEW u \in Seq(ToMachine), NEW m \in ToMachine
  PROVE  /\ u \o <<m>> \in Seq(ToMachine) /\ Len(u) \in Nat /\ Len(u \o <<m>>) = Len(u) + 1
         /\ \A i \in 1 .. Len(u) : (u \o <<m>>)[i] = u[i]
         /\ (u \o <<m>>)[Len(u) + 1] = m
OBVIOUS

LEMMA MoreDetached ==
  ASSUME NEW u \in Seq(ToMachine), NEW m \in ToMachine, NEW id, NEW n \in Nat, n <= Len(u) + 1, n >= 1
  PROVE  Detached(u \o <<m>>, id, n) <=> Detached(u, id, n) \/ Detaches(m, id)
<1> DEFINE w == u \o <<m>>
<1>1. /\ Len(u) \in Nat /\ Len(w) = Len(u) + 1 /\ w[Len(u) + 1] = m
      /\ \A i \in 1 .. Len(u) : w[i] = u[i]
  BY SentOn
<1> HIDE DEF w
<1>2. \A j \in n .. Len(u) : j \in n .. Len(w) /\ j \in 1 .. Len(u)
  BY <1>1
<1>3. Len(u) + 1 \in n .. Len(w)
  BY <1>1
<1>4. \A j \in n .. Len(w) : (j \in n .. Len(u) /\ j \in 1 .. Len(u)) \/ j = Len(u) + 1
  BY <1>1
<1>5. Detached(w, id, n) <=> Detached(u, id, n) \/ Detaches(m, id)
  BY <1>1, <1>2, <1>3, <1>4 DEF Detached
<1> QED
  BY <1>5 DEF w

\* A frame that neither attaches nor detaches id.
LEMMA MoreHold ==
  ASSUME NEW u \in Seq(ToMachine), NEW m \in ToMachine, NEW id, NEW has,
         ~Requests(m, id), ~Detaches(m, id)
  PROVE  /\ WillHold(u \o <<m>>, id, has) <=> WillHold(u, id, has)
         /\ Unclaimed(u \o <<m>>, id) => Unclaimed(u, id)
<1> DEFINE w == u \o <<m>>
<1>1. /\ Len(u) \in Nat /\ Len(w) = Len(u) + 1 /\ w[Len(u) + 1] = m
      /\ \A i \in 1 .. Len(u) : w[i] = u[i]
  BY SentOn
<1>2. \A n \in 1 .. Len(u) + 1 : Detached(w, id, n) <=> Detached(u, id, n)
  BY <1>1, MoreDetached
<1> HIDE DEF w
<1>3. \A n \in 1 .. Len(w) : n \in 1 .. Len(u) \/ n = Len(u) + 1
  BY <1>1
<1>4. \A n \in 1 .. Len(u) : n \in 1 .. Len(w) /\ n \in 1 .. Len(u) + 1
  BY <1>1
<1>5. 1 \in 1 .. Len(u) + 1
  BY <1>1
<1>6. WillHold(w, id, has) <=> WillHold(u, id, has)
  BY <1>1, <1>2, <1>3, <1>4, <1>5 DEF WillHold
<1>7. Unclaimed(w, id) => Unclaimed(u, id)
  BY <1>1, <1>4 DEF Unclaimed
<1> QED
  BY <1>6, <1>7 DEF w

\* The last frame decides.
LEMMA LastHolds ==
  ASSUME NEW u \in Seq(ToMachine), NEW m \in ToMachine, NEW id, NEW has
  PROVE  /\ Requests(m, id) => WillHold(u \o <<m>>, id, has) /\ ~Unclaimed(u \o <<m>>, id)
         /\ Detaches(m, id) => ~WillHold(u \o <<m>>, id, has)
<1> DEFINE w == u \o <<m>>
<1>1. /\ Len(u) \in Nat /\ Len(w) = Len(u) + 1 /\ w[Len(u) + 1] = m
      /\ \A i \in 1 .. Len(u) : w[i] = u[i]
  BY SentOn
<1> HIDE DEF w
<1>2. Len(u) + 1 \in 1 .. Len(w) /\ \A j \in Len(u) + 1 .. Len(w) : j = Len(u) + 1
  BY <1>1
<1>3. ASSUME Requests(m, id) PROVE WillHold(w, id, has) /\ ~Unclaimed(w, id)
  <2>1. ~Detached(w, id, Len(u) + 1)
    BY <1>1, <1>2, <1>3 DEF Detached, Requests, Detaches
  <2> QED
    BY <1>1, <1>2, <1>3, <2>1 DEF WillHold, Unclaimed
<1>4. ASSUME Detaches(m, id) PROVE ~WillHold(w, id, has)
  <2>1. \A n \in 1 .. Len(w) : Len(u) + 1 \in n .. Len(w)
    BY <1>1
  <2>2. Len(u) + 1 \in 1 .. Len(w)
    BY <1>1
  <2>3. (\A n \in 1 .. Len(w) : Detached(w, id, n)) /\ Detached(w, id, 1)
    BY <1>1, <1>4, <2>1, <2>2 DEF Detached
  <2> QED
    BY <2>3 DEF WillHold
<1> QED
  BY <1>3, <1>4 DEF w

\* A frame that does not take the keyboard from id.
LEMMA MoreFocus ==
  ASSUME NEW u \in Seq(ToMachine), NEW m \in ToMachine, NEW id, NEW has,
         m.t # "focus", ~Detaches(m, id)
  PROVE  /\ Leaves(u, id, 1) => Leaves(u \o <<m>>, id, 1)
         /\ WillFocus(u, id, has) => WillFocus(u \o <<m>>, id, has)
<1> DEFINE w == u \o <<m>>
<1>1. /\ Len(u) \in Nat /\ Len(w) = Len(u) + 1 /\ w[Len(u) + 1] = m
      /\ \A i \in 1 .. Len(u) : w[i] = u[i]
  BY SentOn
<1>2. \A n \in 1 .. Len(u) + 1 : Detached(w, id, n) <=> Detached(u, id, n)
  BY <1>1, MoreDetached
<1> HIDE DEF w
<1>3. ASSUME NEW n \in 1 .. Len(u) + 1, Leaves(u, id, n) PROVE Leaves(w, id, n)
  <2>1. \A j \in n .. Len(w) : j = Len(u) + 1 \/ (j \in n .. Len(u) /\ j \in 1 .. Len(u))
    BY <1>1
  <2> QED
    BY <1>1, <1>3, <2>1 DEF Leaves
<1>4. Leaves(u, id, 1) => Leaves(w, id, 1)
  BY <1>1, <1>3
<1>5. ASSUME WillFocus(u, id, has) PROVE WillFocus(w, id, has)
  <2>1. PICK i \in 1 .. Len(u) :
          /\ u[i].t = "focus" /\ u[i].id = id /\ Leaves(u, id, i + 1)
          /\ \/ has /\ ~Detached(u, id, 1)
             \/ \E n \in 1 .. i : Requests(u[n], id) /\ ~Detached(u, id, n)
    BY <1>5 DEF WillFocus
  <2>2. i \in 1 .. Len(w) /\ w[i] = u[i] /\ i + 1 \in 1 .. Len(u) + 1 /\ 1 \in 1 .. Len(u) + 1
    BY <1>1
  <2>3. Leaves(w, id, i + 1)
    BY <1>3, <2>1, <2>2
  <2>4. \A n \in 1 .. i : n \in 1 .. Len(u) /\ n \in 1 .. Len(u) + 1
    BY <1>1
  <2>5. \/ has /\ ~Detached(w, id, 1)
        \/ \E n \in 1 .. i : Requests(w[n], id) /\ ~Detached(w, id, n)
    BY <1>1, <1>2, <2>1, <2>2, <2>4
  <2> QED
    BY <2>1, <2>2, <2>3, <2>5 DEF WillFocus
<1> QED
  BY <1>4, <1>5 DEF w

\* A frame that gives it the keyboard, once it is attached.
LEMMA LastFocus ==
  ASSUME NEW u \in Seq(ToMachine), NEW m \in ToMachine, NEW id, NEW has,
         m.t = "focus", m.id = id, WillHold(u, id, has)
  PROVE  WillFocus(u \o <<m>>, id, has)
<1> DEFINE w == u \o <<m>>
<1>1. /\ Len(u) \in Nat /\ Len(w) = Len(u) + 1 /\ w[Len(u) + 1] = m
      /\ \A i \in 1 .. Len(u) : w[i] = u[i]
  BY SentOn
<1>2. \A n \in 1 .. Len(u) + 1 : Detached(w, id, n) <=> Detached(u, id, n)
  BY <1>1, MoreDetached DEF Detaches
<1> HIDE DEF w
<1> DEFINE i == Len(u) + 1
<1>3. i \in 1 .. Len(w) /\ Leaves(w, id, i + 1) /\ 1 \in 1 .. Len(u) + 1
  BY <1>1 DEF Leaves
<1>4. \A n \in 1 .. Len(u) : n \in 1 .. i /\ n \in 1 .. Len(u) + 1
  BY <1>1
<1>5. \/ has /\ ~Detached(w, id, 1)
      \/ \E n \in 1 .. i : Requests(w[n], id) /\ ~Detached(w, id, n)
  BY <1>1, <1>2, <1>3, <1>4 DEF WillHold
<1>6. WillFocus(w, id, has)
  BY <1>1, <1>3, <1>5 DEF WillFocus
<1> QED
  BY <1>6 DEF w

LEMMA LessDetached ==
  ASSUME NEW u \in Seq(ToMachine), u # <<>>, NEW id, NEW n \in Nat, n >= 1
  PROVE  /\ Detached(Tail(u), id, n) <=> Detached(u, id, n + 1)
         /\ Detached(u, id, n) <=> Detached(u, id, n + 1) \/ (n <= Len(u) /\ Detaches(u[n], id))
<1> DEFINE v == Tail(u)
<1>1. /\ Len(u) \in Nat /\ Len(u) > 0 /\ Len(v) = Len(u) - 1
      /\ \A i \in 1 .. Len(v) : v[i] = u[i + 1]
  BY OneLess
<1> HIDE DEF v
<1>2. \A j \in n .. Len(v) : j + 1 \in n + 1 .. Len(u) /\ j \in 1 .. Len(v)
  BY <1>1
<1>3. \A j \in n + 1 .. Len(u) : j - 1 \in n .. Len(v) /\ j - 1 \in 1 .. Len(v) /\ (j - 1) + 1 = j
  BY <1>1
<1>4. Detached(v, id, n) => Detached(u, id, n + 1)
  BY <1>1, <1>2 DEF Detached
<1>5. Detached(u, id, n + 1) => Detached(v, id, n)
  <2> SUFFICES ASSUME NEW j \in n + 1 .. Len(u), Detaches(u[j], id) PROVE Detached(v, id, n)
    BY DEF Detached
  <2>1. v[j - 1] = u[j] /\ j - 1 \in n .. Len(v)
    BY <1>1, <1>3
  <2> QED
    BY <2>1 DEF Detached
<1>6. \A j \in n .. Len(u) : j = n \/ j \in n + 1 .. Len(u)
  BY <1>1
<1>7. \A j \in n + 1 .. Len(u) : j \in n .. Len(u)
  BY <1>1
<1>8. n <= Len(u) => n \in n .. Len(u)
  BY <1>1
<1>9. \A j \in n .. Len(u) : n <= Len(u)
  BY <1>1
<1>10. Detached(u, id, n) <=> Detached(u, id, n + 1) \/ (n <= Len(u) /\ Detaches(u[n], id))
  BY <1>6, <1>7, <1>8, <1>9 DEF Detached
<1> QED
  BY <1>4, <1>5, <1>10 DEF v

\* The machine takes the first frame, has says whether it has id attached then, and now
\* whether it has it after.
LEMMA LessHold ==
  ASSUME NEW u \in Seq(ToMachine), u # <<>>, NEW id, NEW has \in BOOLEAN, NEW now \in BOOLEAN,
         Requests(u[1], id) => now, Detaches(u[1], id) => ~now,
         ~Requests(u[1], id) /\ ~Detaches(u[1], id) => now = has
  PROVE  WillHold(Tail(u), id, now) <=> WillHold(u, id, has)
<1> DEFINE v == Tail(u)
<1>1. /\ Len(u) \in Nat /\ Len(u) > 0 /\ Len(v) = Len(u) - 1
      /\ \A i \in 1 .. Len(v) : v[i] = u[i + 1]
  BY OneLess
<1>2. \A n \in 1 .. Len(v) + 1 : Detached(v, id, n) <=> Detached(u, id, n + 1)
  BY <1>1, LessDetached
<1>3. Detached(u, id, 1) <=> Detached(v, id, 1) \/ Detaches(u[1], id)
  BY <1>1, LessDetached
<1> HIDE DEF v
<1>4. \A n \in 1 .. Len(u) : n = 1 \/ (n - 1 \in 1 .. Len(v) /\ n - 1 \in 1 .. Len(v) + 1 /\ (n - 1) + 1 = n)
  BY <1>1
<1>5. \A n \in 1 .. Len(v) : n + 1 \in 1 .. Len(u) /\ n \in 1 .. Len(v) + 1
  BY <1>1
<1>6. 1 \in 1 .. Len(u)
  BY <1>1
<1>7. ~(Requests(u[1], id) /\ Detaches(u[1], id))
  BY DEF Requests, Detaches
<1>8. ASSUME WillHold(v, id, now) PROVE WillHold(u, id, has)
  <2>1. CASE now /\ ~Detached(v, id, 1)
    BY <1>3, <1>6, <1>7, <2>1 DEF WillHold
  <2>2. CASE \E n \in 1 .. Len(v) : Requests(v[n], id) /\ ~Detached(v, id, n)
    BY <1>1, <1>2, <1>5, <2>2 DEF WillHold
  <2> QED
    BY <1>8, <2>1, <2>2 DEF WillHold
<1>9. ASSUME WillHold(u, id, has) PROVE WillHold(v, id, now)
  <2>1. CASE has /\ ~Detached(u, id, 1)
    BY <1>3, <2>1 DEF WillHold
  <2>2. ASSUME NEW n \in 1 .. Len(u), Requests(u[n], id), ~Detached(u, id, n) PROVE WillHold(v, id, now)
    <3>1. CASE n = 1
      BY <1>3, <2>2, <3>1 DEF WillHold
    <3>2. CASE n # 1
      <4>1. n - 1 \in 1 .. Len(v) /\ n - 1 \in 1 .. Len(v) + 1 /\ (n - 1) + 1 = n
        BY <1>4, <3>2
      <4>2. v[n - 1] = u[n] /\ ~Detached(v, id, n - 1)
        BY <1>1, <1>2, <2>2, <4>1
      <4> QED
        BY <2>2, <4>1, <4>2 DEF WillHold
    <3> QED
      BY <3>1, <3>2
  <2> QED
    BY <1>9, <2>1, <2>2 DEF WillHold
<1> QED
  BY <1>8, <1>9 DEF v

LEMMA LessUnclaimed ==
  ASSUME NEW u \in Seq(ToMachine), u # <<>>, NEW id, ~Requests(u[1], id), ~Detaches(u[1], id),
         Unclaimed(Tail(u), id)
  PROVE  Unclaimed(u, id)
<1> DEFINE v == Tail(u)
<1>1. /\ Len(u) \in Nat /\ Len(u) > 0 /\ Len(v) = Len(u) - 1
      /\ \A i \in 1 .. Len(v) : v[i] = u[i + 1]
  BY OneLess
<1>2. Unclaimed(v, id)
  OBVIOUS
<1> HIDE DEF v
<1>3. ASSUME NEW i \in 1 .. Len(u), i # 1 PROVE ~Requests(u[i], id) /\ ~Detaches(u[i], id)
  <2>1. i - 1 \in 1 .. Len(v) /\ (i - 1) + 1 = i
    BY <1>1, <1>3
  <2>2. v[i - 1] = u[i]
    BY <1>1, <2>1
  <2> QED
    BY <1>2, <2>1, <2>2 DEF Unclaimed
<1> QED
  BY <1>3 DEF Unclaimed

LEMMA LessLeaves ==
  ASSUME NEW u \in Seq(ToMachine), u # <<>>, NEW id, NEW n \in Nat, n >= 1
  PROVE  /\ Leaves(Tail(u), id, n) <=> Leaves(u, id, n + 1)
         /\ Leaves(u, id, n) => Leaves(u, id, n + 1)
<1> DEFINE v == Tail(u)
<1>1. /\ Len(u) \in Nat /\ Len(u) > 0 /\ Len(v) = Len(u) - 1
      /\ \A i \in 1 .. Len(v) : v[i] = u[i + 1]
  BY OneLess
<1> HIDE DEF v
<1>2. \A j \in n .. Len(v) : j + 1 \in n + 1 .. Len(u) /\ j \in 1 .. Len(v)
  BY <1>1
<1>3. \A j \in n + 1 .. Len(u) : j - 1 \in n .. Len(v) /\ j - 1 \in 1 .. Len(v) /\ (j - 1) + 1 = j
  BY <1>1
<1>4. Leaves(u, id, n + 1) => Leaves(v, id, n)
  BY <1>1, <1>2 DEF Leaves
<1>5. Leaves(v, id, n) => Leaves(u, id, n + 1)
  <2> SUFFICES ASSUME Leaves(v, id, n), NEW j \in n + 1 .. Len(u) PROVE u[j].t # "focus" /\ ~Detaches(u[j], id)
    BY DEF Leaves
  <2>1. v[j - 1] = u[j] /\ j - 1 \in n .. Len(v)
    BY <1>1, <1>3
  <2> QED
    BY <2>1 DEF Leaves
<1>6. \A j \in n + 1 .. Len(u) : j \in n .. Len(u)
  BY <1>1
<1>7. Leaves(u, id, n) => Leaves(u, id, n + 1)
  BY <1>6 DEF Leaves
<1> QED
  BY <1>4, <1>5, <1>7 DEF v

\* Which session will have the keyboard is the same once a frame is taken that gives it
\* to none; one that gives it to the session, gives it now.
LEMMA LessFocus ==
  ASSUME NEW u \in Seq(ToMachine), u # <<>>, NEW id, NEW has \in BOOLEAN, NEW now \in BOOLEAN,
         Requests(u[1], id) => now, has /\ ~Detaches(u[1], id) => now, WillFocus(u, id, has)
  PROVE  \/ WillFocus(Tail(u), id, now)
         \/ u[1].t = "focus" /\ u[1].id = id /\ has /\ Leaves(Tail(u), id, 1)
<1> DEFINE v == Tail(u)
<1>1. /\ Len(u) \in Nat /\ Len(u) > 0 /\ Len(v) = Len(u) - 1
      /\ \A i \in 1 .. Len(v) : v[i] = u[i + 1]
  BY OneLess
<1>2. \A n \in 1 .. Len(v) + 1 : Detached(v, id, n) <=> Detached(u, id, n + 1)
  BY <1>1, LessDetached
<1>3. Detached(u, id, 1) <=> Detached(v, id, 1) \/ Detaches(u[1], id)
  BY <1>1, LessDetached
<1>4. PICK i \in 1 .. Len(u) :
        /\ u[i].t = "focus" /\ u[i].id = id /\ Leaves(u, id, i + 1)
        /\ \/ has /\ ~Detached(u, id, 1)
           \/ \E n \in 1 .. i : Requests(u[n], id) /\ ~Detached(u, id, n)
  BY DEF WillFocus
<1>5. CASE i = 1
  <2>1. Leaves(v, id, 1)
    BY <1>4, <1>5, LessLeaves
  <2>2. \A n \in 1 .. i : n = 1
    BY <1>5
  <2>3. has
    BY <1>4, <1>5, <2>2 DEF Requests
  <2> QED
    BY <1>4, <1>5, <2>1, <2>3
<1>6. CASE i # 1
  <2> DEFINE h == i - 1
  <2>1. h \in 1 .. Len(v) /\ h \in Nat /\ h >= 1 /\ h + 1 = i
    BY <1>1, <1>6
  <2>2. Leaves(v, id, h + 1)
    <3>1. h + 1 \in Nat /\ h + 1 >= 1 /\ (h + 1) + 1 = i + 1
      BY <2>1
    <3> QED
      BY <1>4, <3>1, LessLeaves
  <2>3. v[h] = u[i]
    BY <1>1, <2>1
  <2>4. \/ now /\ ~Detached(v, id, 1)
        \/ \E n \in 1 .. h : Requests(v[n], id) /\ ~Detached(v, id, n)
    <3>1. CASE has /\ ~Detached(u, id, 1)
      BY <1>3, <3>1
    <3>2. ASSUME NEW n \in 1 .. i, Requests(u[n], id), ~Detached(u, id, n)
          PROVE  \/ now /\ ~Detached(v, id, 1)
                 \/ \E g \in 1 .. h : Requests(v[g], id) /\ ~Detached(v, id, g)
      <4>1. CASE n = 1
        BY <1>3, <3>2, <4>1
      <4>2. CASE n # 1
        <5>1. n - 1 \in 1 .. h /\ n - 1 \in 1 .. Len(v) /\ n - 1 \in 1 .. Len(v) + 1 /\ (n - 1) + 1 = n
          BY <1>1, <2>1, <4>2
        <5>2. v[n - 1] = u[n] /\ ~Detached(v, id, n - 1)
          BY <1>1, <1>2, <3>2, <5>1
        <5> QED
          BY <3>2, <5>1, <5>2
      <4> QED
        BY <4>1, <4>2
    <3> QED
      BY <1>4, <3>1, <3>2
  <2> HIDE DEF h, v
  <2>5. WillFocus(v, id, now)
    BY <1>4, <2>1, <2>2, <2>3, <2>4 DEF WillFocus
  <2> QED
    BY <2>5 DEF v
<1> QED
  BY <1>5, <1>6

(***************************************************************************)
(* What is on its way from the machine.                                    *)
(***************************************************************************)

LEMMA MoreAnswers ==
  ASSUME NEW d \in Seq(FromMachine), NEW m \in FromMachine, NEW id, NEW no
  PROVE  /\ ~Accepts(m, id) /\ Latest(d, id, no) => Latest(Append(d, m), id, no)
         /\ Accepts(m, id) /\ m.no = no => Latest(Append(d, m), id, no)
         /\ Heard(Append(d, m), id) <=> Heard(d, id) /\ ~Accepts(m, id)
<1> DEFINE w == Append(d, m)
<1>1. /\ Len(d) \in Nat /\ Len(w) = Len(d) + 1 /\ w[Len(d) + 1] = m
      /\ \A i \in 1 .. Len(d) : w[i] = d[i]
  BY OneMore
<1> HIDE DEF w
<1>2. \A i \in 1 .. Len(w) : i \in 1 .. Len(d) \/ i = Len(d) + 1
  BY <1>1
<1>3. \A i \in 1 .. Len(d) : i \in 1 .. Len(w) /\ Len(d) + 1 \in i + 1 .. Len(w)
  BY <1>1
<1>4. \A i \in 1 .. Len(d) : \A j \in i + 1 .. Len(d) : j \in i + 1 .. Len(w) /\ j \in 1 .. Len(d)
  BY <1>1
<1>5. Len(d) + 1 \in 1 .. Len(w)
  BY <1>1
<1>6. ASSUME Accepts(m, id), m.no = no PROVE Latest(w, id, no)
  <2>1. \A i \in 1 .. Len(d) : ~\A j \in i + 1 .. Len(w) : ~Accepts(w[j], id)
    BY <1>1, <1>3, <1>6
  <2> QED
    BY <1>1, <1>2, <1>6, <2>1 DEF Latest
<1>7. ASSUME ~Accepts(m, id), Latest(d, id, no) PROVE Latest(w, id, no)
  <2> SUFFICES ASSUME NEW i \in 1 .. Len(w), Accepts(w[i], id), \A j \in i + 1 .. Len(w) : ~Accepts(w[j], id)
               PROVE  w[i].no = no
    BY DEF Latest
  <2>1. i \in 1 .. Len(d) /\ w[i] = d[i]
    BY <1>1, <1>2, <1>7
  <2>2. \A j \in i + 1 .. Len(d) : ~Accepts(d[j], id)
    BY <1>1, <1>4, <2>1
  <2> QED
    BY <1>7, <2>1, <2>2 DEF Latest
<1>8. Heard(w, id) <=> Heard(d, id) /\ ~Accepts(m, id)
  BY <1>1, <1>2, <1>3, <1>5 DEF Heard
<1> QED
  BY <1>6, <1>7, <1>8 DEF w

LEMMA LessAnswers ==
  ASSUME NEW d \in Seq(FromMachine), d # <<>>, NEW id, NEW no
  PROVE  /\ Latest(d, id, no) => Latest(Tail(d), id, no)
         /\ Heard(d, id) <=> Heard(Tail(d), id) /\ ~Accepts(d[1], id)
         /\ Latest(d, id, no) /\ Heard(Tail(d), id) /\ Accepts(d[1], id) => d[1].no = no
<1> DEFINE v == Tail(d)
<1>1. /\ Len(d) \in Nat /\ Len(d) > 0 /\ Len(v) = Len(d) - 1
      /\ \A i \in 1 .. Len(v) : v[i] = d[i + 1]
  BY OneLess
<1> HIDE DEF v
<1>2. \A i \in 1 .. Len(v) : i + 1 \in 1 .. Len(d)
  BY <1>1
<1>3. \A i \in 1 .. Len(d) : i = 1 \/ (i - 1 \in 1 .. Len(v) /\ (i - 1) + 1 = i)
  BY <1>1
<1>4. 1 \in 1 .. Len(d)
  BY <1>1
<1>5. Heard(d, id) <=> Heard(v, id) /\ ~Accepts(d[1], id)
  <2>1. Heard(d, id) => Heard(v, id) /\ ~Accepts(d[1], id)
    BY <1>1, <1>2, <1>4 DEF Heard
  <2>2. ASSUME Heard(v, id), ~Accepts(d[1], id), NEW i \in 1 .. Len(d) PROVE ~Accepts(d[i], id)
    <3>1. CASE i = 1
      BY <2>2, <3>1
    <3>2. CASE i # 1
      <4>1. i - 1 \in 1 .. Len(v) /\ v[i - 1] = d[i]
        BY <1>1, <1>3, <3>2
      <4> QED
        BY <2>2, <4>1 DEF Heard
    <3> QED
      BY <3>1, <3>2
  <2> QED
    BY <2>1, <2>2 DEF Heard
<1>6. ASSUME Latest(d, id, no), NEW i \in 1 .. Len(v), Accepts(v[i], id),
             \A j \in i + 1 .. Len(v) : ~Accepts(v[j], id)
      PROVE  v[i].no = no
  <2>1. i + 1 \in 1 .. Len(d) /\ v[i] = d[i + 1]
    BY <1>1, <1>2
  <2>2. ASSUME NEW j \in (i + 1) + 1 .. Len(d) PROVE ~Accepts(d[j], id)
    <3>1. j - 1 \in i + 1 .. Len(v) /\ j - 1 \in 1 .. Len(v) /\ (j - 1) + 1 = j
      BY <1>1
    <3>2. v[j - 1] = d[j]
      BY <1>1, <3>1
    <3> QED
      BY <1>6, <3>1, <3>2
  <2> QED
    BY <1>6, <2>1, <2>2 DEF Latest
<1>7. ASSUME Latest(d, id, no), Heard(v, id), Accepts(d[1], id) PROVE d[1].no = no
  <2>1. ASSUME NEW j \in 1 + 1 .. Len(d) PROVE ~Accepts(d[j], id)
    <3>1. j - 1 \in 1 .. Len(v) /\ (j - 1) + 1 = j
      BY <1>1
    <3>2. v[j - 1] = d[j]
      BY <1>1, <3>1
    <3> QED
      BY <1>7, <3>1, <3>2 DEF Heard
  <2> QED
    BY <1>4, <1>7, <2>1 DEF Latest
<1>8. Latest(d, id, no) => Latest(v, id, no)
  BY <1>6 DEF Latest
<1> QED
  BY <1>5, <1>7, <1>8 DEF v

(***************************************************************************)
(* Frames of a link that say the same still, or more.                      *)
(***************************************************************************)

LEMMA AnsweredLess ==
  ASSUME NEW k, NEW j, NEW runs, NEW less, AnsweredOK(k, runs), less \subseteq runs,
         j.down = k.down, j.far \subseteq k.far
  PROVE  AnsweredOK(j, less)
BY DEF AnsweredOK

LEMMA AnsweredNone ==
  ASSUME NEW k, NEW runs, k.down = <<>>, k.far = {}
  PROVE  AnsweredOK(k, runs)
BY DEF AnsweredOK

\* The machine says something, and of a session that is gone only that it is.
LEMMA AnsweredMore ==
  ASSUME NEW k \in LinkRecord, NEW j, NEW runs, NEW less, AnsweredOK(k, runs), less \subseteq runs,
         NEW m \in FromMachine, m.t # "attached", m.t = "error" => m.id \notin less,
         j.down = Append(k.down, m), j.far \subseteq k.far
  PROVE  AnsweredOK(j, less)
<1> DEFINE d == k.down
           w == Append(d, m)
<1>1. d \in Seq(FromMachine)
  BY DEF LinkRecord
<1>2. /\ Len(d) \in Nat /\ Len(w) = Len(d) + 1 /\ w[Len(d) + 1] = m
      /\ \A i \in 1 .. Len(d) : w[i] = d[i]
  BY <1>1, OneMore
<1>3. \A id : ~Accepts(m, id)
  BY DEF Accepts
<1>4. \A e \in k.far : Latest(d, e.id, e.no) => Latest(w, e.id, e.no)
  BY <1>1, <1>3, MoreAnswers
<1>5. j.down = w /\ \A i \in 1 .. Len(d) : d[i].t = "error" => d[i].id \notin runs
  BY DEF AnsweredOK
<1> HIDE DEF w, d
<1>6. \A i \in 1 .. Len(w) : i \in 1 .. Len(d) \/ i = Len(d) + 1
  BY <1>2
<1>7. \A i \in 1 .. Len(w) : w[i].t = "error" => w[i].id \notin less
  BY <1>2, <1>5, <1>6
<1>8. \A e \in j.far : Latest(w, e.id, e.no) /\ \A f \in j.far : e.id = f.id => e.no = f.no
  BY <1>4 DEF AnsweredOK, d
<1> QED
  BY <1>5, <1>7, <1>8 DEF AnsweredOK

LEMMA OneByOne ==
  ASSUME NEW S, NEW q \in Seq(S), NEW x \in S, NEW y \in S
  PROVE  q \o <<x, y>> = Append(Append(q, x), y)
OBVIOUS

\* An attachment is answered with its stream, and how the session is.
LEMMA AnsweredAttach ==
  ASSUME NEW k \in LinkRecord, NEW j, NEW runs, AnsweredOK(k, runs),
         NEW m \in FromMachine, m.t = "attached", NEW n \in FromMachine, n.t = "state",
         \A e \in k.far : e.id = m.id => e.no = m.no,
         j.down = Append(Append(k.down, m), n),
         \A e \in j.far : e \in k.far \/ (e.id = m.id /\ e.no = m.no)
  PROVE  AnsweredOK(j, runs) /\ \A as : Heard(j.down, as) => Heard(k.down, as) /\ as # m.id
<1> DEFINE d == k.down
           h == Append(d, m)
           w == Append(h, n)
<1>1. d \in Seq(FromMachine) /\ h \in Seq(FromMachine)
  BY OneMore DEF LinkRecord
<1>2. j.down = w
  OBVIOUS
<1>4. /\ Len(d) \in Nat /\ Len(h) = Len(d) + 1 /\ h[Len(d) + 1] = m
      /\ \A i \in 1 .. Len(d) : h[i] = d[i]
  BY <1>1, OneMore
<1>5. /\ Len(h) \in Nat /\ Len(w) = Len(h) + 1 /\ w[Len(h) + 1] = n
      /\ \A i \in 1 .. Len(h) : w[i] = h[i]
  BY <1>1, OneMore
<1>6. ASSUME NEW as, NEW num
      PROVE  /\ as # m.id /\ Latest(d, as, num) => Latest(w, as, num)
             /\ as = m.id /\ num = m.no => Latest(w, as, num)
             /\ Heard(w, as) <=> Heard(d, as) /\ as # m.id
  <2>1. (Accepts(m, as) <=> as = m.id) /\ ~Accepts(n, as)
    BY DEF Accepts
  <2>2. /\ as # m.id /\ Latest(d, as, num) => Latest(h, as, num)
        /\ as = m.id /\ num = m.no => Latest(h, as, num)
        /\ Heard(h, as) <=> Heard(d, as) /\ as # m.id
    BY <1>1, <2>1, MoreAnswers
  <2>3. /\ Latest(h, as, num) => Latest(w, as, num)
        /\ Heard(w, as) <=> Heard(h, as)
    BY <1>1, <2>1, MoreAnswers
  <2> QED
    BY <2>2, <2>3
<1>7. \A i \in 1 .. Len(d) : d[i].t = "error" => d[i].id \notin runs
  BY DEF AnsweredOK
<1>8. \A e \in k.far : Latest(d, e.id, e.no) /\ \A f \in k.far : e.id = f.id => e.no = f.no
  BY DEF AnsweredOK
<1>11. \A e \in j.far : e \in k.far \/ (e.id = m.id /\ e.no = m.no)
  OBVIOUS
<1> HIDE DEF w, h
<1>9. \A i \in 1 .. Len(w) : (i \in 1 .. Len(d) /\ i \in 1 .. Len(h)) \/ i = Len(h) + 1
                              \/ (i = Len(d) + 1 /\ i \in 1 .. Len(h))
  BY <1>4, <1>5
<1>10. \A i \in 1 .. Len(w) : w[i].t = "error" => w[i].id \notin runs
  BY <1>4, <1>5, <1>7, <1>9
<1>12. \A e \in j.far : Latest(w, e.id, e.no) /\ \A f \in j.far : e.id = f.id => e.no = f.no
  BY <1>6, <1>8, <1>11
<1>13. AnsweredOK(j, runs)
  BY <1>2, <1>10, <1>12 DEF AnsweredOK
<1> QED
  BY <1>2, <1>6, <1>13

\* The gateway hears the first of them.
LEMMA AnsweredHeard ==
  ASSUME NEW k \in LinkRecord, k.down # <<>>, NEW j, NEW runs, AnsweredOK(k, runs),
         j.down = Tail(k.down), j.far = k.far
  PROVE  AnsweredOK(j, runs) /\ (Head(k.down).t = "error" => Head(k.down).id \notin runs)
<1> DEFINE d == k.down
<1>1. d \in Seq(FromMachine)
  BY DEF LinkRecord
<1>2. Head(d) = d[1] /\ 1 \in 1 .. Len(d) /\ \A i \in 1 .. Len(Tail(d)) : i + 1 \in 1 .. Len(d) /\ Tail(d)[i] = d[i + 1]
  BY <1>1, OneLess
<1>3. \A e \in k.far : Latest(d, e.id, e.no) => Latest(Tail(d), e.id, e.no)
  BY <1>1, LessAnswers
<1> QED
  BY <1>2, <1>3 DEF AnsweredOK

(***************************************************************************)
(* The panes and what is claimed for them.                                 *)
(***************************************************************************)

\* Of the sessions there that run, a page shows those it did, and feeds those it fed.
SamePanes(p, q, runs) ==
  /\ p.orphans \subseteq q.orphans
  /\ \A id \in runs : Scoped("there", id) \in p.panes <=> Scoped("there", id) \in q.panes
SameStreams(p, q, runs, last) ==
  /\ \A id \in runs : Scoped("there", id) \in p.painted => Scoped("there", id) \in q.painted
  /\ \A id \in runs \ q.orphans, no \in Nat :
       no > Base /\ no <= last /\ <<no, Scoped("there", id)>> \in p.streamTo =>
         <<no, Scoped("there", id)>> \in q.streamTo

LEMMA SamePage ==
  ASSUME NEW p, NEW q, NEW runs, NEW last,
         p.orphans = q.orphans, p.panes = q.panes, p.painted = q.painted, p.streamTo = q.streamTo
  PROVE  SamePanes(p, q, runs) /\ SameStreams(p, q, runs, last)
BY DEF SamePanes, SameStreams

LEMMA PanesKept ==
  ASSUME NEW k, NEW j, NEW runs, NEW less, NEW p, NEW q, PanesOK(k, runs, p), less \subseteq runs, SamePanes(p, q, runs),
         j.attached = k.attached, j.focused = k.focused
  PROVE  PanesOK(j, less, q)
BY DEF PanesOK, SamePanes

LEMMA NoPaneKept ==
  ASSUME NEW runs, NEW less, NEW p, NEW q, NoPane(runs, p), less \subseteq runs, SamePanes(p, q, runs)
  PROVE  NoPane(less, q)
BY DEF NoPane, SamePanes

\* What the page's link does for it stays done.
LEMMA OpenKept ==
  ASSUME NEW k, NEW j, NEW runs, NEW p, NEW q, NEW last, OpenOK(k, runs, p), SamePanes(p, q, runs), SameStreams(p, q, runs, last),
         \A x \in k.streams : x.ours \in Nat /\ x.ours > Base /\ x.ours <= last,
         j.far = k.far, j.streams = k.streams, j.up = k.up, j.attached = k.attached,
         j.focused = k.focused, j.farFocus = k.farFocus,
         \A id : Heard(j.down, id) => Heard(k.down, id)
  PROVE  OpenOK(j, runs, q)
<1>1. \A id \in runs : id \in j.attached <=> WillHold(j.up, id, Held(j, id))
  BY DEF OpenOK, Held
<1>2. ASSUME NEW e \in j.far, e.id \in j.attached \ q.orphans, Unclaimed(j.up, e.id), Heard(j.down, e.id)
      PROVE  Feeds(j, e, q)
  <2>1. e.id \in runs \ q.orphans /\ e.id \notin p.orphans
    BY <1>2 DEF OpenOK, SamePanes
  <2>2. Feeds(k, e, p)
    BY <1>2, <2>1 DEF OpenOK
  <2> QED
    BY <2>1, <2>2 DEF Feeds, SameStreams
<1>3. j.focused \in runs \ q.orphans =>
       \/ j.farFocus = j.focused /\ Leaves(j.up, j.focused, 1)
       \/ WillFocus(j.up, j.focused, Held(j, j.focused))
  <2>1. Held(j, k.focused) = Held(k, k.focused)
    BY DEF Held
  <2> QED
    BY <2>1 DEF OpenOK, SamePanes
<1>4. \A e \in j.far : e.id \in runs
  BY DEF OpenOK
<1> QED
  BY <1>1, <1>2, <1>3, <1>4 DEF OpenOK

(***************************************************************************)
(* What the page asks its link for.                                        *)
(***************************************************************************)

LEMMA SentIs ==
  ASSUME NEW k \in LinkRecord, NEW m \in ToMachine
  PROVE  /\ Sent(k, m).far = k.far /\ Sent(k, m).down = k.down /\ Sent(k, m).farFocus = k.farFocus
         /\ Sent(k, m).sock = k.sock
         /\ k.sock = "open" => Sent(k, m).up = k.up \o <<m>>
         /\ m.t = "attach" => /\ Sent(k, m).attached = k.attached \cup {m.id} /\ Sent(k, m).focused = k.focused
                              /\ Sent(k, m).streams = k.streams
         /\ m.t = "focus" => /\ Sent(k, m).attached = k.attached /\ Sent(k, m).focused = m.id
                             /\ Sent(k, m).streams = k.streams
         /\ m.t = "detach" => /\ Sent(k, m).attached = k.attached \ {m.id}
                              /\ Sent(k, m).focused = IF k.focused = m.id THEN None ELSE k.focused
                              /\ Sent(k, m).streams = {x \in k.streams : x.id # m.id}
<1> DEFINE r == Recorded(k, m)
<1>1. r \in LinkRecord
  BY RecordedTyped
<1>2. /\ r.far = k.far /\ r.down = k.down /\ r.farFocus = k.farFocus /\ r.sock = k.sock /\ r.up = k.up
  BY DEF Recorded, LinkRecord
<1>3. /\ m.t = "attach" => /\ r.attached = k.attached \cup {m.id} /\ r.focused = k.focused /\ r.streams = k.streams
      /\ m.t = "focus" => /\ r.attached = k.attached /\ r.focused = m.id /\ r.streams = k.streams
      /\ m.t = "detach" => /\ r.attached = k.attached \ {m.id}
                           /\ r.focused = IF k.focused = m.id THEN None ELSE k.focused
                           /\ r.streams = {x \in k.streams : x.id # m.id}
  BY DEF Recorded, LinkRecord
<1> HIDE DEF r
<1>4. Sent(k, m) = Written(r, <<m>>)
  BY DEF Sent, r
<1> DEFINE j == Written(r, <<m>>)
<1>5. /\ j.far = r.far /\ j.down = r.down /\ j.farFocus = r.farFocus /\ j.sock = r.sock
      /\ j.attached = r.attached /\ j.focused = r.focused /\ j.streams = r.streams
      /\ r.sock = "open" => j.up = r.up \o <<m>>
  BY <1>1 DEF Written, LinkRecord
<1> HIDE DEF j
<1>6. Sent(k, m) = j
  BY <1>4 DEF j
<1> QED
  BY <1>2, <1>3, <1>5, <1>6

\* A pane is mounted.
LEMMA AttachFed ==
  ASSUME NEW k \in LinkRecord, NEW m \in ToMachine, m.t = "attach", NEW runs \in SUBSET Id,
         NEW p \in PageRecord, NEW q, PanesOK(k, runs, p), k.sock = "open" => k.up \in Seq(ToMachine),
         q.panes = p.panes \cup {Scoped("there", m.id)}, q.orphans = p.orphans,
         q.painted = p.painted, q.streamTo = p.streamTo
  PROVE  /\ PanesOK(Sent(k, m), runs, q)
         /\ k.sock = "open" /\ OpenOK(k, runs, p) => OpenOK(Sent(k, m), runs, q)
<1> DEFINE j == Sent(k, m)
<1>1. /\ j.far = k.far /\ j.down = k.down /\ j.farFocus = k.farFocus /\ j.sock = k.sock
      /\ k.sock = "open" => j.up = k.up \o <<m>>
      /\ j.attached = k.attached \cup {m.id} /\ j.focused = k.focused /\ j.streams = k.streams
  BY SentIs
<1> HIDE DEF j
<1>2. \A id : Scoped("there", id) = Scoped("there", m.id) => id = m.id
  BY DEF Scoped
<1>3. PanesOK(j, runs, q)
  BY <1>1, <1>2 DEF PanesOK
<1>4. ASSUME k.sock = "open", OpenOK(k, runs, p) PROVE OpenOK(j, runs, q)
  <2> DEFINE u == k.up
             w == u \o <<m>>
  <2>1. u \in Seq(ToMachine) /\ j.up = w
    BY <1>1, <1>4
  <2>2. \A id : Held(j, id) <=> Held(k, id)
    BY <1>1 DEF Held
  <2>3. \A id : (Requests(m, id) <=> id = m.id) /\ ~Detaches(m, id)
    BY DEF Requests, Detaches
  <2>4. ASSUME NEW id, NEW has PROVE /\ id # m.id => (WillHold(w, id, has) <=> WillHold(u, id, has))
                                     /\ id # m.id => (Unclaimed(w, id) => Unclaimed(u, id))
                                     /\ id = m.id => WillHold(w, id, has) /\ ~Unclaimed(w, id)
    BY <2>1, <2>3, MoreHold, LastHolds
  <2>5. ASSUME NEW id, NEW has PROVE /\ Leaves(u, id, 1) => Leaves(w, id, 1)
                                     /\ WillFocus(u, id, has) => WillFocus(w, id, has)
    BY <2>1, <2>3, MoreFocus
  <2> HIDE DEF w, u
  <2>6. \A e \in j.far : e.id \in runs
    BY <1>1, <1>4 DEF OpenOK
  <2>7. ASSUME NEW id \in runs PROVE id \in j.attached <=> WillHold(j.up, id, Held(j, id))
    <3>1. id \in k.attached <=> WillHold(u, id, Held(k, id))
      BY <1>4 DEF OpenOK, u
    <3>2. Held(j, id) = Held(k, id)
      BY <1>1 DEF Held
    <3> QED
      BY <1>1, <2>1, <2>4, <3>1, <3>2
  <2>8. ASSUME NEW e \in j.far, e.id \in j.attached \ q.orphans, Unclaimed(j.up, e.id), Heard(j.down, e.id)
        PROVE  Feeds(j, e, q)
    <3>1. e.id # m.id /\ Unclaimed(u, e.id)
      BY <2>1, <2>4, <2>8
    <3>2. Feeds(k, e, p)
      BY <1>1, <1>4, <2>8, <3>1 DEF OpenOK, u
    <3> QED
      BY <1>1, <3>2 DEF Feeds
  <2>9. j.focused \in runs \ q.orphans =>
          \/ j.farFocus = j.focused /\ Leaves(j.up, j.focused, 1)
          \/ WillFocus(j.up, j.focused, Held(j, j.focused))
    <3>1. Held(j, k.focused) = Held(k, k.focused)
      BY <1>1 DEF Held
    <3>2. k.focused \in runs \ p.orphans =>
            \/ k.farFocus = k.focused /\ Leaves(u, k.focused, 1)
            \/ WillFocus(u, k.focused, Held(k, k.focused))
      BY <1>4 DEF OpenOK, u
    <3> QED
      BY <1>1, <2>1, <2>5, <3>1, <3>2
  <2> QED
    BY <2>6, <2>7, <2>8, <2>9 DEF OpenOK
<1> QED
  BY <1>3, <1>4 DEF j

\* One goes.
LEMMA DetachFed ==
  ASSUME NEW k \in LinkRecord, NEW m \in ToMachine, m.t = "detach", NEW runs \in SUBSET Id,
         NEW p \in PageRecord, NEW q, PanesOK(k, runs, p), k.sock = "open" => k.up \in Seq(ToMachine),
         q.panes = p.panes \ {Scoped("there", m.id)}, q.orphans = p.orphans \ {m.id},
         q.painted = p.painted \ {Scoped("there", m.id)}, q.streamTo = p.streamTo
  PROVE  /\ PanesOK(Sent(k, m), runs, q)
         /\ k.sock = "open" /\ OpenOK(k, runs, p) => OpenOK(Sent(k, m), runs, q)
<1> DEFINE j == Sent(k, m)
<1>1. /\ j.far = k.far /\ j.down = k.down /\ j.farFocus = k.farFocus /\ j.sock = k.sock
      /\ k.sock = "open" => j.up = k.up \o <<m>>
      /\ j.attached = k.attached \ {m.id}
      /\ j.focused = IF k.focused = m.id THEN None ELSE k.focused
      /\ j.streams = {x \in k.streams : x.id # m.id}
  BY SentIs
<1> HIDE DEF j
<1>2. \A id : Scoped("there", id) = Scoped("there", m.id) => id = m.id
  BY DEF Scoped
<1>3. None \notin runs
  BY Ids
<1>4. j.focused \in runs => j.focused = k.focused /\ k.focused # m.id
  BY <1>1, <1>3
<1>5. PanesOK(j, runs, q)
  BY <1>1, <1>2, <1>4 DEF PanesOK
<1>6. ASSUME k.sock = "open", OpenOK(k, runs, p) PROVE OpenOK(j, runs, q)
  <2> DEFINE u == k.up
             w == u \o <<m>>
  <2>1. u \in Seq(ToMachine) /\ j.up = w
    BY <1>1, <1>6
  <2>3. \A id : ~Requests(m, id) /\ (Detaches(m, id) <=> id = m.id) /\ m.t # "focus"
    BY DEF Requests, Detaches
  <2>4. ASSUME NEW id, NEW has PROVE /\ id # m.id => (WillHold(w, id, has) <=> WillHold(u, id, has))
                                     /\ id # m.id => (Unclaimed(w, id) => Unclaimed(u, id))
                                     /\ id = m.id => ~WillHold(w, id, has)
    BY <2>1, <2>3, MoreHold, LastHolds
  <2>5. ASSUME NEW id, NEW has, id # m.id PROVE /\ Leaves(u, id, 1) => Leaves(w, id, 1)
                                                /\ WillFocus(u, id, has) => WillFocus(w, id, has)
    BY <2>1, <2>3, <2>5, MoreFocus
  <2> HIDE DEF w, u
  <2>6. \A e \in j.far : e.id \in runs
    BY <1>1, <1>6 DEF OpenOK
  <2>7. ASSUME NEW id \in runs PROVE id \in j.attached <=> WillHold(j.up, id, Held(j, id))
    <3>1. id \in k.attached <=> WillHold(u, id, Held(k, id))
      BY <1>6 DEF OpenOK, u
    <3>2. Held(j, id) = Held(k, id)
      BY <1>1 DEF Held
    <3> QED
      BY <1>1, <2>1, <2>4, <3>1, <3>2
  <2>8. ASSUME NEW e \in j.far, e.id \in j.attached \ q.orphans, Unclaimed(j.up, e.id), Heard(j.down, e.id)
        PROVE  Feeds(j, e, q)
    <3>1. e.id # m.id /\ Unclaimed(u, e.id)
      BY <1>1, <2>1, <2>4, <2>8
    <3>2. Feeds(k, e, p)
      BY <1>1, <1>6, <2>8, <3>1 DEF OpenOK, u
    <3> QED
      BY <1>1, <1>2, <3>1, <3>2 DEF Feeds
  <2>9. j.focused \in runs \ q.orphans =>
          \/ j.farFocus = j.focused /\ Leaves(j.up, j.focused, 1)
          \/ WillFocus(j.up, j.focused, Held(j, j.focused))
    <3>1. Held(j, k.focused) = Held(k, k.focused)
      BY <1>1 DEF Held
    <3>2. k.focused \in runs \ p.orphans =>
            \/ k.farFocus = k.focused /\ Leaves(u, k.focused, 1)
            \/ WillFocus(u, k.focused, Held(k, k.focused))
      BY <1>6 DEF OpenOK, u
    <3> QED
      BY <1>1, <1>4, <2>1, <2>5, <3>1, <3>2
  <2> QED
    BY <2>6, <2>7, <2>8, <2>9 DEF OpenOK
<1> QED
  BY <1>5, <1>6 DEF j

\* One is clicked.
LEMMA FocusFed ==
  ASSUME NEW k \in LinkRecord, NEW m \in ToMachine, m.t = "focus", NEW runs \in SUBSET Id,
         NEW p \in PageRecord, PanesOK(k, runs, p), k.sock = "open" => k.up \in Seq(ToMachine),
         Scoped("there", m.id) \in p.panes
  PROVE  /\ PanesOK(Sent(k, m), runs, p)
         /\ k.sock = "open" /\ OpenOK(k, runs, p) => OpenOK(Sent(k, m), runs, p)
<1> DEFINE j == Sent(k, m)
<1>1. /\ j.far = k.far /\ j.down = k.down /\ j.farFocus = k.farFocus /\ j.sock = k.sock
      /\ k.sock = "open" => j.up = k.up \o <<m>>
      /\ j.attached = k.attached /\ j.focused = m.id /\ j.streams = k.streams
  BY SentIs
<1> HIDE DEF j
<1>2. m.id \in runs \ p.orphans => m.id \in k.attached
  BY DEF PanesOK
<1>3. PanesOK(j, runs, p)
  BY <1>1, <1>2 DEF PanesOK
<1>4. ASSUME k.sock = "open", OpenOK(k, runs, p) PROVE OpenOK(j, runs, p)
  <2> DEFINE u == k.up
             w == u \o <<m>>
  <2>1. u \in Seq(ToMachine) /\ j.up = w
    BY <1>1, <1>4
  <2>3. \A id : ~Requests(m, id) /\ ~Detaches(m, id)
    BY DEF Requests, Detaches
  <2>4. ASSUME NEW id, NEW has PROVE /\ WillHold(w, id, has) <=> WillHold(u, id, has)
                                     /\ Unclaimed(w, id) => Unclaimed(u, id)
                                     /\ id = m.id /\ WillHold(u, id, has) => WillFocus(w, id, has)
    BY <2>1, <2>3, MoreHold, LastFocus
  <2> HIDE DEF w, u
  <2>6. \A e \in j.far : e.id \in runs
    BY <1>1, <1>4 DEF OpenOK
  <2>7. ASSUME NEW id \in runs PROVE /\ id \in j.attached <=> WillHold(j.up, id, Held(j, id))
                                     /\ id \in j.attached <=> WillHold(u, id, Held(j, id))
    <3>1. id \in k.attached <=> WillHold(u, id, Held(k, id))
      BY <1>4 DEF OpenOK, u
    <3>2. Held(j, id) = Held(k, id)
      BY <1>1 DEF Held
    <3> QED
      BY <1>1, <2>1, <2>4, <3>1, <3>2
  <2>8. ASSUME NEW e \in j.far, e.id \in j.attached \ p.orphans, Unclaimed(j.up, e.id), Heard(j.down, e.id)
        PROVE  Feeds(j, e, p)
    <3>1. Unclaimed(u, e.id)
      BY <2>1, <2>4, <2>8
    <3>2. Feeds(k, e, p)
      BY <1>1, <1>4, <2>8, <3>1 DEF OpenOK, u
    <3> QED
      BY <1>1, <3>2 DEF Feeds
  <2>9. j.focused \in runs \ p.orphans => WillFocus(j.up, j.focused, Held(j, j.focused))
    BY <1>1, <1>2, <2>1, <2>4, <2>7
  <2> QED
    BY <2>6, <2>7, <2>8, <2>9 DEF OpenOK
<1> QED
  BY <1>3, <1>4 DEF j

(***************************************************************************)
(* Every step, and the panes.                                              *)
(***************************************************************************)

LEMMA RunningTyped == MachinesTypeOK => Running \in SUBSET Id
BY RunsIs DEF MachinesTypeOK, Running

LEMMA OursAre ==
  ASSUME MachinesTypeOK, StreamsOK, Apart, current # None, NEW x \in link[current].streams
  PROVE  x.ours \in Nat /\ x.ours > Base /\ x.ours <= Base + numbers.ours
<1>1. current \in Link /\ ~link[current].mute /\ OursOK
  BY NumbersAre DEF StreamsOK, HomeOK
<1>2. x.ours \in Base + 1 .. Base + numbers.ours
  BY <1>1 DEF OursOK
<1> QED
  BY <1>2, Ids, NumbersAre

\* A step that leaves what the page's link carries to the machine, and only adds to or
\* hears what it carries from it.
LEMMA KeptFed ==
  ASSUME MachinesTypeOK, StreamsOK, FedOK, current' = current, Running' = Running, page'.up => page.up,
         \A l \in Link : AnsweredOK(link'[l], Running),
         SamePanes(page, page', Running),
         Apart' => Apart /\ SameStreams(page, page', Running, Base + numbers.ours),
         current # None => LET k == link[current]
                               j == link'[current]
                           IN /\ j.attached = k.attached /\ j.focused = k.focused
                              /\ j.sock = "open" =>
                                   /\ k.sock = "open" /\ j.far = k.far /\ j.streams = k.streams /\ j.up = k.up
                                   /\ j.farFocus = k.farFocus /\ \A id : Heard(j.down, id) => Heard(k.down, id)
  PROVE  FedOK'
<1>1. page'.up /\ current = None => NoPane(Running, page')
  BY NoPaneKept DEF FedOK
<1>2. ASSUME page'.up, current # None PROVE PanesOK(link'[current], Running, page')
  BY <1>2, PanesKept DEF FedOK
<1>3. ASSUME page'.up, current # None, Apart', link'[current].sock = "open"
      PROVE  OpenOK(link'[current], Running, page')
  <2> DEFINE k == link[current]
             j == link'[current]
             last == Base + numbers.ours
  <2>1. OpenOK(k, Running, page)
    BY <1>3 DEF FedOK
  <2>2. \A x \in k.streams : x.ours \in Nat /\ x.ours > Base /\ x.ours <= last
    BY <1>3, OursAre
  <2>3. /\ j.attached = k.attached /\ j.focused = k.focused /\ j.far = k.far /\ j.streams = k.streams
        /\ j.up = k.up /\ j.farFocus = k.farFocus /\ \A id : Heard(j.down, id) => Heard(k.down, id)
    BY <1>3
  <2>4. SameStreams(page, page', Running, last)
    BY <1>3
  <2> HIDE DEF k, j, last
  <2>5. OpenOK(j, Running, page')
    BY <2>1, <2>2, <2>3, <2>4, OpenKept
  <2> QED
    BY <2>5 DEF j
<1> QED
  BY <1>1, <1>2, <1>3 DEF FedOK

\* The page changes, and no link.
LEMMA LinksKeptFed ==
  ASSUME MachinesTypeOK, StreamsOK, FedOK, current' = current, link' = link, Running' = Running, page'.up => page.up,
         SamePanes(page, page', Running),
         Apart' => Apart /\ SameStreams(page, page', Running, Base + numbers.ours)
  PROVE  FedOK'
<1>1. \A l \in Link : AnsweredOK(link'[l], Running)
  BY DEF FedOK
<1> QED
  BY <1>1, KeptFed

\* A pane here is mounted or goes, or one there while the machine is not linked.
LEMMA TellsHereFed ==
  ASSUME MachinesTypeOK, StreamsOK, FedOK, NEW p \in PageRecord, NEW s \in ScopedId, NEW msg \in ToMachine,
         msg.id = s[2], Tells(p, s, msg), UNCHANGED <<current, there>>, page.up, p.up, s[1] = "here",
         p.streamTo = page.streamTo, p.orphans = page.orphans,
         \A x \in ScopedId : x # s => (x \in p.panes <=> x \in page.panes) /\ (x \in p.painted <=> x \in page.painted)
  PROVE  FedOK'
<1>1. \A id \in Running : Scoped("there", id) \in ScopedId /\ Scoped("there", id) # s
  <2>1. \A id \in Id : Scoped("there", id)[1] = "there" /\ Scoped("there", id) \in ScopedId
    BY ScopedIs DEF Machine
  <2> QED
    BY <2>1, RunningTyped
<1>2. /\ SamePanes(page, p, Running) /\ SameStreams(page, p, Running, Base + numbers.ours)
  BY <1>1 DEF SamePanes, SameStreams
<1>3. Running' = Running
  BY DEF Running
<1>4. CASE msg.t # "attach"
  <2>1. page' = p /\ UNCHANGED <<link, numbers>>
    BY <1>4 DEF Tells
  <2> QED
    BY <1>2, <1>3, <2>1, LinksKeptFed DEF Apart
<1>5. CASE msg.t = "attach"
  <2> DEFINE no == NearNo(msg.id)
             held == \E e \in near : e.id = msg.id
  <2>1. /\ page' = Attached(p, {<<no, s>>}) /\ UNCHANGED link
        /\ numbers' = IF ~held THEN [numbers EXCEPT !.near = @ + 1] ELSE numbers
    BY <1>5 DEF Tells
  <2>2. /\ numbers'.near \in Nat /\ numbers.near <= numbers'.near /\ (~held => numbers'.near = numbers.near + 1)
    BY <2>1, NumbersAre
  <2>3. no \in Nat /\ (held => \E e \in near : no = e.no) /\ (~held => no = numbers.near + 1)
    <3>1. no \in Nat
      BY NearNoTyped, ScopedTyped
    <3> QED
      BY <3>1 DEF NearNo
  <2>4. /\ page'.streamTo = {e \in p.streamTo : e[2] # s /\ e[1] # no} \cup {<<no, s>>}
        /\ page'.orphans = p.orphans /\ page'.panes = p.panes /\ p.painted \subseteq page'.painted
    BY <2>1 DEF Attached, PageRecord
  <2> HIDE DEF no, held
  <2>5. SamePanes(page, page', Running)
    BY <1>2, <2>4 DEF SamePanes
  <2>6. ASSUME Apart' PROVE Apart /\ SameStreams(page, page', Running, Base + numbers.ours)
    <3>1. Apart /\ numbers'.near <= Base
      BY <2>2, <2>6, NumbersAre, Ids DEF Apart
    <3>2. no <= Base
      <4>1. ASSUME NEW e \in near PROVE e.no <= Base
        <5>1. e.no <= numbers.near /\ e.no \in Nat
          BY <3>1 DEF StreamsOK, NearOK, MachinesTypeOK, RelayTypeOK
        <5> QED
          BY <3>1, <5>1, NumbersAre, Ids DEF Apart
      <4> QED
        BY <2>2, <2>3, <3>1, <4>1
    <3>3. \A n \in Nat : n > Base => n # no
      BY <2>3, <3>2, Ids
    <3>4. ASSUME NEW id \in Running, NEW n \in Nat, n > Base, <<n, Scoped("there", id)>> \in page.streamTo
          PROVE  <<n, Scoped("there", id)>> \in page'.streamTo
      BY <1>1, <2>4, <3>3, <3>4
    <3>5. \A id \in Running : Scoped("there", id) \in page.painted => Scoped("there", id) \in page'.painted
      BY <1>1, <2>4
    <3> QED
      BY <3>1, <3>4, <3>5 DEF SameStreams
  <2> QED
    BY <1>3, <2>1, <2>5, <2>6, LinksKeptFed
<1> QED
  BY <1>4, <1>5

\* One there is mounted, goes or is clicked, and the gateway tells its link.
LEMMA TellsThereFed ==
  ASSUME MachinesTypeOK, StreamsOK, FedOK, NEW p \in PageRecord, NEW s \in ScopedId, NEW msg \in ToMachine,
         msg.id = s[2], Tells(p, s, msg), UNCHANGED <<current, there>>, page.up, p.up, s[1] = "there",
         p.streamTo = page.streamTo,
         \/ /\ msg.t = "attach" /\ p.panes = page.panes \cup {s}
            /\ p.painted = page.painted /\ p.orphans = page.orphans
         \/ /\ msg.t = "detach" /\ p.panes = page.panes \ {s}
            /\ p.painted = page.painted \ {s} /\ p.orphans = page.orphans \ {s[2]}
         \/ msg.t = "focus" /\ p = page /\ s \in page.panes
  PROVE  FedOK'
<1>1. s = Scoped("there", msg.id) /\ \A id : Scoped("there", id) = s => id = msg.id
  BY ScopedTyped DEF Scoped
<1>2. Running' = Running /\ Running \in SUBSET Id
  BY RunningTyped DEF Running
<1>3. CASE current = None
  <2>1. link' = link /\ page' = IF msg.t = "attach" THEN [p EXCEPT !.orphans = @ \cup {msg.id}] ELSE p
    BY <1>3 DEF Tells
  <2>2. NoPane(Running, page)
    BY <1>3 DEF FedOK
  <2>3. /\ page'.panes = p.panes
        /\ page'.orphans = IF msg.t = "attach" THEN p.orphans \cup {msg.id} ELSE p.orphans
    BY <2>1 DEF PageRecord
  <2>4. NoPane(Running, page')
    BY <1>1, <2>2, <2>3 DEF NoPane
  <2> QED
    BY <1>2, <1>3, <2>1, <2>4 DEF FedOK
<1>4. CASE current # None
  <2> DEFINE k == link[current]
  <2>1. /\ page' = p /\ link' = [link EXCEPT ![current] = Sent(k, msg)] /\ UNCHANGED numbers
    BY <1>4 DEF Tells
  <2>2. /\ current \in Link /\ link'[current] = Sent(k, msg) /\ k \in LinkRecord /\ k.up \in Seq(ToMachine)
        /\ \A l \in Link : l # current => link'[l] = link[l]
    BY <1>4, <2>1, NumbersAre, LinkTyped
  <2>3. PanesOK(k, Running, page) /\ (Apart /\ k.sock = "open" => OpenOK(k, Running, page))
    BY <1>4 DEF FedOK
  <2>4. AnsweredOK(k, Running) /\ Sent(k, msg).down = k.down /\ Sent(k, msg).far = k.far /\ Sent(k, msg).sock = k.sock
    BY <2>2, SentIs DEF FedOK
  <2> HIDE DEF k
  <2>5. /\ PanesOK(Sent(k, msg), Running, p)
        /\ k.sock = "open" /\ OpenOK(k, Running, page) => OpenOK(Sent(k, msg), Running, p)
    <3>1. page \in PageRecord
      BY NumbersAre
    <3>2. CASE msg.t = "attach"
      BY <1>1, <1>2, <2>2, <2>3, <3>1, <3>2, AttachFed
    <3>3. CASE msg.t = "detach"
      BY <1>1, <1>2, <2>2, <2>3, <3>1, <3>3, DetachFed
    <3>4. CASE msg.t = "focus"
      BY <1>1, <1>2, <2>2, <2>3, <3>1, <3>4, FocusFed
    <3> QED
      BY <3>2, <3>3, <3>4
  <2>6. AnsweredOK(Sent(k, msg), Running)
    BY <2>4, AnsweredLess
  <2>7. \A l \in Link : AnsweredOK(link'[l], Running)
    BY <2>2, <2>6 DEF FedOK
  <2>8. Apart' => Apart
    BY <2>1 DEF Apart
  <2> QED
    BY <1>2, <1>4, <2>1, <2>2, <2>3, <2>4, <2>5, <2>7, <2>8 DEF FedOK
<1> QED
  BY <1>3, <1>4

LEMMA AwayFed ==
  ASSUME MachinesTypeOK, StreamsOK, FedOK, ~page'.up, \A l \in Link : AnsweredOK(link'[l], Running'), Running' = Running
  PROVE  FedOK'
BY DEF FedOK

LEMMA MountsFed ==
  ASSUME MachinesTypeOK, StreamsOK, FedOK, Mounts
  PROVE  FedOK'
<1>1. PICK s \in ScopedId : Tells([page EXCEPT !.panes = @ \cup {s}], s, [t |-> "attach", id |-> s[2]])
  BY DEF Mounts
<1> DEFINE p == [page EXCEPT !.panes = @ \cup {s}]
           msg == [t |-> "attach", id |-> s[2]]
<1>2. p \in PageRecord /\ p.up = page.up /\ p.streamTo = page.streamTo /\ p.panes = page.panes \cup {s}
      /\ p.painted = page.painted /\ p.orphans = page.orphans
  BY DEF MachinesTypeOK, PageRecord
<1>3. msg \in ToMachine /\ msg.t = "attach" /\ msg.id = s[2] /\ s[1] \in {"here", "there"}
  BY ScopedTyped DEF ToMachine, Machine
<1>4. Tells(p, s, msg) /\ UNCHANGED <<current, there>>
  BY <1>1 DEF Mounts
<1> HIDE DEF p, msg
<1>5. CASE ~page.up
  <2>1. page' = p /\ link' = link
    BY <1>2, <1>4, <1>5 DEF Tells
  <2> QED
    BY <1>2, <1>4, <1>5, <2>1, AwayFed DEF FedOK, Running
<1>6. CASE page.up /\ s[1] = "here"
  BY <1>2, <1>3, <1>4, <1>6, TellsHereFed
<1>7. CASE page.up /\ s[1] = "there"
  BY <1>2, <1>3, <1>4, <1>7, TellsThereFed
<1> QED
  BY <1>3, <1>5, <1>6, <1>7 DEF MachinesTypeOK, PageRecord

LEMMA UnmountsFed ==
  ASSUME MachinesTypeOK, StreamsOK, FedOK, Unmounts \/ PaneLeaves
  PROVE  FedOK'
<1>1. PICK s \in page.panes : Tells(Unmounted(page, s), s, [t |-> "detach", id |-> s[2]])
  BY DEF Unmounts, PaneLeaves
<1>2. s \in ScopedId /\ UNCHANGED <<current, there>>
  BY DEF MachinesTypeOK, PageRecord, Unmounts, PaneLeaves
<1> DEFINE p == Unmounted(page, s)
           msg == [t |-> "detach", id |-> s[2]]
<1>3. /\ p \in PageRecord /\ p.up = page.up /\ p.streamTo = page.streamTo /\ p.panes = page.panes \ {s}
      /\ p.painted = page.painted \ {s}
      /\ p.orphans = IF s[1] = "there" THEN page.orphans \ {s[2]} ELSE page.orphans
  <2>1. page \in PageRecord /\ Unmounted(page, s) \in PageRecord
    BY <1>2, GoneTyped, NumbersAre
  <2> QED
    BY <2>1 DEF Unmounted, Gone, PageRecord
<1>4. msg \in ToMachine /\ msg.t = "detach" /\ msg.id = s[2] /\ s[1] \in {"here", "there"}
  BY <1>2, ScopedTyped DEF ToMachine, Machine
<1>5. Tells(p, s, msg)
  BY <1>1
<1> HIDE DEF p, msg
<1>6. CASE ~page.up
  <2>1. page' = p /\ link' = link
    BY <1>3, <1>5, <1>6 DEF Tells
  <2> QED
    BY <1>2, <1>3, <1>6, <2>1, AwayFed DEF FedOK, Running
<1>7. CASE page.up /\ s[1] = "here"
  <2>1. p.orphans = page.orphans
    BY <1>3, <1>7
  <2> QED
    BY <1>2, <1>3, <1>4, <1>5, <1>7, <2>1, TellsHereFed
<1>8. CASE page.up /\ s[1] = "there"
  <2>1. p.orphans = page.orphans \ {s[2]}
    BY <1>3, <1>8
  <2> QED
    BY <1>2, <1>3, <1>4, <1>5, <1>8, <2>1, TellsThereFed
<1> QED
  BY <1>4, <1>6, <1>7, <1>8 DEF MachinesTypeOK, PageRecord

LEMMA FocusesFed ==
  ASSUME MachinesTypeOK, StreamsOK, FedOK, Focuses
  PROVE  FedOK'
<1>1. PICK s \in page.panes : s[1] = "there" /\ Tells(page, s, [t |-> "focus", id |-> s[2]])
  BY DEF Focuses
<1>2. s \in ScopedId /\ page \in PageRecord /\ UNCHANGED <<current, there>>
  BY DEF MachinesTypeOK, PageRecord, Focuses
<1> DEFINE msg == [t |-> "focus", id |-> s[2]]
<1>3. msg \in ToMachine /\ msg.t = "focus" /\ msg.id = s[2]
  BY <1>2, ScopedTyped DEF ToMachine
<1>4. Tells(page, s, msg)
  BY <1>1
<1> HIDE DEF msg
<1>5. CASE ~page.up
  <2>1. page' = page /\ link' = link
    BY <1>4, <1>5 DEF Tells
  <2> QED
    BY <1>2, <1>5, <2>1, AwayFed DEF FedOK, Running
<1>6. CASE page.up
  BY <1>1, <1>2, <1>3, <1>4, <1>6, TellsThereFed
<1> QED
  BY <1>5, <1>6

LEMMA AnsweredAll ==
  ASSUME MachinesTypeOK, FedOK
  PROVE  /\ \A l \in Link : AnsweredOK(link[l], Running) /\ AnsweredOK(Disposed(link[l]), Running)
         /\ \A l \in Link : AnsweredOK([link[l] EXCEPT !.mute = TRUE], Running)
         /\ \A l \in Link : AnsweredOK([Disposed(link[l]) EXCEPT !.mute = TRUE], Running)
         /\ AnsweredOK(NoLink, Running)
<1>1. ASSUME NEW l \in Link
      PROVE  /\ AnsweredOK(link[l], Running) /\ AnsweredOK(Disposed(link[l]), Running)
             /\ AnsweredOK([link[l] EXCEPT !.mute = TRUE], Running)
             /\ AnsweredOK([Disposed(link[l]) EXCEPT !.mute = TRUE], Running)
  <2> DEFINE k == link[l]
  <2>1. AnsweredOK(k, Running) /\ k \in LinkRecord
    BY LinkTyped DEF FedOK
  <2> HIDE DEF k
  <2>2. /\ Disposed(k).down = k.down /\ Disposed(k).far = k.far
        /\ [k EXCEPT !.mute = TRUE].down = k.down /\ [k EXCEPT !.mute = TRUE].far = k.far
        /\ [Disposed(k) EXCEPT !.mute = TRUE].down = k.down /\ [Disposed(k) EXCEPT !.mute = TRUE].far = k.far
    BY <2>1 DEF Disposed, LinkRecord
  <2>3. /\ AnsweredOK(Disposed(k), Running) /\ AnsweredOK([k EXCEPT !.mute = TRUE], Running)
        /\ AnsweredOK([Disposed(k) EXCEPT !.mute = TRUE], Running)
    BY <2>1, <2>2, AnsweredLess
  <2> QED
    BY <2>1, <2>3 DEF k
<1>2. AnsweredOK(NoLink, Running)
  BY AnsweredNone DEF NoLink
<1> QED
  BY <1>1, <1>2

LEMMA RelayGoneFed ==
  ASSUME MachinesTypeOK, StreamsOK, FedOK, RelayGone, UNCHANGED there
  PROVE  FedOK'
<1>1. ~page'.up
  BY RelayGoneTyped
<1>2. \A l \in Link : AnsweredOK(link'[l], Running)
  BY AnsweredAll DEF RelayGone
<1> QED
  BY <1>1, <1>2, AwayFed DEF Running

LEMMA PageReturnsFed ==
  ASSUME MachinesTypeOK, StreamsOK, FedOK, PageReturns(servers)
  PROVE  FedOK'
<1>1. Running' = Running /\ Running \in SUBSET Id
  BY RunningTyped DEF PageReturns, Running
<1> DEFINE names == {<<numbers.near + i, SetToSeq({s \in page.panes : s[1] = "here"})[i]>> :
                       i \in DOMAIN SetToSeq({s \in page.panes : s[1] = "here"})}
           p == [page EXCEPT !.up = TRUE, !.painted = {}, !.orphans = IF servers = None THEN Theirs(page) ELSE {}]
<1>2. page' = Attached(p, names) /\ current = None
  BY DEF PageReturns, Returned, StreamsOK, HomeOK
<1>3. page'.panes = page.panes /\ page'.orphans = IF servers = None THEN Theirs(page) ELSE {}
  BY <1>2, NumbersAre DEF Attached, PageRecord
<1> HIDE DEF names, p
<1>4. \A id \in Id : Scoped("there", id) \in page.panes <=> id \in Theirs(page)
  <2>1. \A s \in page.panes : s[1] = "there" => s = Scoped("there", s[2])
    BY NumbersAre, ScopedTyped DEF PageRecord
  <2>2. \A id \in Id : Scoped("there", id)[1] = "there" /\ Scoped("there", id)[2] = id
    BY DEF Scoped
  <2> QED
    BY <2>1, <2>2 DEF Theirs
<1>5. CASE servers = None
  <2>1. link' = link /\ current' = None
    BY <1>2, <1>5 DEF PageReturns
  <2>2. NoPane(Running, page')
    BY <1>1, <1>3, <1>4, <1>5 DEF NoPane
  <2> QED
    BY <1>1, <2>1, <2>2 DEF FedOK
<1>6. CASE servers # None
  <2> DEFINE new == [NoLink EXCEPT !.key = servers, !.closed = FALSE, !.sock = "dialing", !.attached = Theirs(page)]
  <2>1. current' \in Link /\ link' = [link EXCEPT ![current'] = new]
    BY <1>6, FreeIs DEF PageReturns
  <2>2. new.sock = "dialing" /\ new.attached = Theirs(page) /\ new.focused = None /\ new.down = <<>> /\ new.far = {}
    BY DEF NoLink
  <2> HIDE DEF new
  <2>3. link'[current'] = new /\ \A l \in Link : l # current' => link'[l] = link[l]
    BY <2>1, NumbersAre
  <2>4. PanesOK(new, Running, page')
    BY <1>1, <1>3, <1>4, <1>6, <2>2, Ids DEF PanesOK
  <2>5. \A l \in Link : AnsweredOK(link'[l], Running)
    BY <2>2, <2>3, AnsweredNone DEF FedOK
  <2>6. current' # None
    BY <2>1, Ids
  <2> QED
    BY <1>1, <2>2, <2>3, <2>4, <2>5, <2>6 DEF FedOK
<1> QED
  BY <1>5, <1>6

\* What is claimed again, and who had the keyboard.
LEMMA ReplayHolds ==
  ASSUME NEW k \in LinkRecord, NEW id \in Id
  PROVE  /\ WillHold(Replay(k), id, FALSE) <=> id \in k.attached
         /\ id = k.focused /\ id \in k.attached => WillFocus(Replay(k), id, FALSE)
<1> DEFINE claims == SetToSeq(k.attached)
           c == [i \in DOMAIN claims |-> [t |-> "attach", id |-> claims[i]]]
           f == IF k.focused = None THEN <<>> ELSE <<[t |-> "focus", id |-> k.focused]>>
           u == Replay(k)
<1>1. k.attached \subseteq Id /\ IsFiniteSet(k.attached) /\ k.focused \in Id \cup {None}
  BY Ids, FS_Subset DEF LinkRecord
<1>2. claims \in Seq(k.attached) /\ \A x \in k.attached : \E i \in 1 .. Len(claims) : claims[i] = x
  BY <1>1, InSomeOrder
<1>3. u = c \o f /\ u \in Seq(ToMachine)
  BY ReplayTyped DEF Replay
<1> HIDE DEF claims, u
<1>4. Len(claims) \in Nat /\ DOMAIN claims = 1 .. Len(claims) /\ \A i \in 1 .. Len(claims) : claims[i] \in k.attached
  BY <1>2
<1>5. c \in Seq(ToMachine) /\ Len(c) = Len(claims) /\ \A i \in 1 .. Len(c) : c[i].t = "attach" /\ c[i].id = claims[i]
  <2>1. \A i \in 1 .. Len(claims) : [t |-> "attach", id |-> claims[i]] \in ToMachine
    BY <1>1, <1>4 DEF ToMachine
  <2>2. c \in Seq(ToMachine) /\ Len(c) = Len(claims)
    BY <1>4, <2>1, IsASeq
  <2> QED
    BY <1>4, <2>2
<1> HIDE DEF c
<1>6. CASE k.focused = None
  <2>1. u = c
    BY <1>3, <1>5, <1>6
  <2>2. \A i \in 1 .. Len(u) : ~Detaches(u[i], id)
    BY <1>5, <2>1 DEF Detaches
  <2>3. \A n \in Nat : n >= 1 => ~Detached(u, id, n)
    BY <1>3, <2>2, LenProperties DEF Detached
  <2>4. (\E n \in 1 .. Len(u) : Requests(u[n], id)) <=> id \in k.attached
    BY <1>2, <1>4, <1>5, <2>1 DEF Requests
  <2>5. \A n \in 1 .. Len(u) : n \in Nat /\ n >= 1
    BY <1>3, LenProperties
  <2> QED
    BY <1>6, <2>3, <2>4, <2>5, Ids DEF WillHold, u
<1>7. CASE k.focused # None
  <2> DEFINE m == [t |-> "focus", id |-> k.focused]
  <2>1. u = c \o <<m>> /\ m \in ToMachine /\ m.t = "focus" /\ m.id = k.focused
    BY <1>1, <1>3, <1>7 DEF ToMachine
  <2> HIDE DEF m
  <2>2. \A i \in 1 .. Len(c) : ~Detaches(c[i], id)
    BY <1>5 DEF Detaches
  <2>3. \A n \in Nat : n >= 1 => ~Detached(c, id, n)
    BY <1>5, <2>2, LenProperties DEF Detached
  <2>4. (\E n \in 1 .. Len(c) : Requests(c[n], id)) <=> id \in k.attached
    BY <1>2, <1>4, <1>5 DEF Requests
  <2>5. \A n \in 1 .. Len(c) : n \in Nat /\ n >= 1
    BY <1>5, LenProperties
  <2>6. WillHold(c, id, FALSE) <=> id \in k.attached
    BY <2>3, <2>4, <2>5 DEF WillHold
  <2>7. ~Requests(m, id) /\ ~Detaches(m, id)
    BY <2>1 DEF Requests, Detaches
  <2>8. WillHold(u, id, FALSE) <=> WillHold(c, id, FALSE)
    BY <1>5, <2>1, <2>7, MoreHold
  <2>9. id = k.focused /\ WillHold(c, id, FALSE) => WillFocus(u, id, FALSE)
    BY <1>5, <2>1, LastFocus
  <2> QED
    BY <2>6, <2>8, <2>9 DEF u
<1> QED
  BY <1>6, <1>7

LEMMA LinkOpensFed ==
  ASSUME MachinesTypeOK, StreamsOK, FedOK, NEW l \in Link, LinkOpens(l)
  PROVE  FedOK'
<1> DEFINE k == link[l]
           j == Written([k EXCEPT !.sock = "open"], Replay(k))
<1>1. /\ link'[l] = j /\ k.sock = "dialing" /\ k \in LinkRecord
      /\ \A m \in Link : m # l => link'[m] = link[m]
      /\ page' = [page EXCEPT !.asked = @ \/ page.up] /\ UNCHANGED <<current, numbers, there>>
  BY NumbersAre, LinkTyped DEF LinkOpens
<1>2. k.up = <<>> /\ k.far = {} /\ k.down = <<>>
  BY <1>1, StreamsAre DEF Lives, LifeOK, Empty
<1>3. Running' = Running /\ Running \in SUBSET Id /\ (Apart' => Apart)
  BY <1>1, RunningTyped DEF Running, Apart
<1> HIDE DEF k
<1>4. Replay(k) \in Seq(ToMachine)
  BY <1>1, ReplayTyped
<1>5. /\ j.up = Replay(k) /\ j.far = {} /\ j.down = <<>> /\ j.attached = k.attached /\ j.focused = k.focused
  <2>1. <<>> \o Replay(k) = Replay(k)
    BY <1>4
  <2> QED
    BY <1>1, <1>2, <2>1 DEF Written, LinkRecord
<1> HIDE DEF j
<1>6. \A m \in Link : AnsweredOK(link'[m], Running)
  BY <1>1, <1>5, AnsweredNone DEF FedOK
<1>7. /\ SamePanes(page, page', Running) /\ SameStreams(page, page', Running, Base + numbers.ours)
      /\ (page'.up => page.up)
  <2>1. page'.orphans = page.orphans /\ page'.panes = page.panes /\ page'.painted = page.painted
        /\ page'.streamTo = page.streamTo /\ page'.up = page.up
    BY <1>1, NumbersAre DEF PageRecord
  <2> QED
    BY <2>1, SamePage
<1>8. CASE l # current
  <2>1. current # None => link'[current] = link[current]
    BY <1>1, <1>8, NumbersAre
  <2> QED
    BY <1>1, <1>3, <1>6, <1>7, <2>1, KeptFed
<1>9. CASE l = current
  <2>1. ASSUME page'.up PROVE PanesOK(j, Running, page') /\ PanesOK(k, Running, page)
    <3>1. PanesOK(k, Running, page)
      BY <1>1, <1>7, <1>9, <2>1, Ids DEF FedOK, k
    <3> QED
      BY <1>5, <1>7, <3>1, PanesKept
  <2>2. ASSUME page'.up PROVE OpenOK(j, Running, page')
    <3>1. \A e \in j.far : FALSE
      BY <1>5
    <3>2. \A id : ~Held(j, id)
      BY <3>1 DEF Held
    <3>3. ASSUME NEW id \in Running PROVE id \in j.attached <=> WillHold(j.up, id, Held(j, id))
      <4>1. id \in Id
        BY <1>3
      <4>2. WillHold(Replay(k), id, FALSE) <=> id \in k.attached
        BY <1>1, <4>1, ReplayHolds
      <4>3. Held(j, id) = FALSE
        BY <3>1 DEF Held
      <4> QED
        BY <1>5, <4>2, <4>3
    <3>4. ASSUME j.focused \in Running \ page'.orphans
          PROVE  WillFocus(j.up, j.focused, Held(j, j.focused))
      <4>1. j.focused \in Id /\ k.focused \in k.attached
        BY <1>3, <1>5, <2>1, <2>2, <3>4 DEF PanesOK
      <4>2. Held(j, j.focused) = FALSE
        BY <3>1 DEF Held
      <4>3. WillFocus(Replay(k), k.focused, FALSE)
        BY <1>1, <1>5, <4>1, ReplayHolds
      <4> QED
        BY <1>5, <4>2, <4>3
    <3> QED
      BY <3>1, <3>3, <3>4 DEF OpenOK
  <2>3. link'[current'] = j /\ current' # None
    BY <1>1, <1>9, Ids
  <2> QED
    BY <1>3, <1>6, <2>1, <2>2, <2>3 DEF FedOK
<1> QED
  BY <1>8, <1>9

LEMMA LinkClosesFed ==
  ASSUME MachinesTypeOK, StreamsOK, FedOK, NEW l \in Link, LinkCloses(l)
  PROVE  FedOK'
<1> DEFINE k == link[l]
           j == IF ~k.closed THEN [Hung(k) EXCEPT !.timer = TRUE] ELSE IF k.timer THEN Hung(k) ELSE NoLink
<1>1. /\ link'[l] = j /\ k \in LinkRecord /\ UNCHANGED <<current, numbers, there, page>>
      /\ \A m \in Link : m # l => link'[m] = link[m]
  BY NumbersAre, LinkTyped DEF LinkCloses
<1>2. l = current => ~k.closed
  BY Ids DEF StreamsOK, HomeOK
<1> HIDE DEF k
<1>3. /\ j.down = <<>> /\ j.far = {}
      /\ ~k.closed => j.sock = "none" /\ j.attached = k.attached /\ j.focused = k.focused
  BY <1>1 DEF Hung, NoLink, LinkRecord
<1> HIDE DEF j
<1>4. \A m \in Link : AnsweredOK(link'[m], Running)
  BY <1>1, <1>3, AnsweredNone DEF FedOK
<1>5. SamePanes(page, page', Running) /\ SameStreams(page, page', Running, Base + numbers.ours)
  BY <1>1, SamePage
<1>6. current # None => LET i == link[current]
                            h == link'[current]
                        IN /\ h.attached = i.attached /\ h.focused = i.focused
                           /\ h.sock = "open" =>
                                /\ i.sock = "open" /\ h.far = i.far /\ h.streams = i.streams /\ h.up = i.up
                                /\ h.farFocus = i.farFocus /\ \A id : Heard(h.down, id) => Heard(i.down, id)
  BY <1>1, <1>2, <1>3, NumbersAre DEF k
<1> QED
  BY <1>1, <1>4, <1>5, <1>6, KeptFed DEF Running, Apart

LEMMA LinkRetriesFed ==
  ASSUME MachinesTypeOK, StreamsOK, FedOK, NEW l \in Link, LinkRetries(l)
  PROVE  FedOK'
<1> DEFINE k == link[l]
           j == Opened(k)
<1>1. /\ link'[l] = j /\ k \in LinkRecord /\ UNCHANGED <<current, numbers, there, page>>
      /\ \A m \in Link : m # l => link'[m] = link[m]
  BY NumbersAre, LinkTyped DEF LinkRetries
<1>2. l = current => ~k.closed
  BY Ids DEF StreamsOK, HomeOK
<1>3. k.down = <<>> /\ k.far = {}
  BY StreamsAre DEF LinkRetries, Lives, LifeOK, Empty
<1> HIDE DEF k
<1>4. /\ j.down = <<>> /\ j.far = {}
      /\ ~k.closed => j.sock = "dialing" /\ j.attached = k.attached /\ j.focused = k.focused
  BY <1>1, <1>3 DEF Opened, NoLink, LinkRecord
<1> HIDE DEF j
<1>5. \A m \in Link : AnsweredOK(link'[m], Running)
  BY <1>1, <1>4, AnsweredNone DEF FedOK
<1>6. SamePanes(page, page', Running) /\ SameStreams(page, page', Running, Base + numbers.ours)
  BY <1>1, SamePage
<1>7. current # None => LET i == link[current]
                            h == link'[current]
                        IN /\ h.attached = i.attached /\ h.focused = i.focused
                           /\ h.sock = "open" =>
                                /\ i.sock = "open" /\ h.far = i.far /\ h.streams = i.streams /\ h.up = i.up
                                /\ h.farFocus = i.farFocus /\ \A id : Heard(h.down, id) => Heard(i.down, id)
  BY <1>1, <1>2, <1>4, NumbersAre DEF k
<1> QED
  BY <1>1, <1>5, <1>6, <1>7, KeptFed DEF Running, Apart

\* A step of the snapshot, of the store or of what the machine is: no link, no pane.
LEMMA OtherStepFed ==
  ASSUME MachinesTypeOK, StreamsOK, FedOK, UNCHANGED <<link, current>>, numbers'.near = numbers.near,
         there'.runs = there.runs, page'.up = page.up, page'.orphans = page.orphans, page'.panes = page.panes,
         page'.painted = page.painted, page'.streamTo = page.streamTo
  PROVE  FedOK'
BY SamePage, LinksKeptFed DEF Running, Apart

LEMMA MoreHeard ==
  ASSUME NEW d \in Seq(FromMachine), NEW m \in FromMachine, NEW id, Heard(Append(d, m), id)
  PROVE  Heard(d, id)
<1> DEFINE w == Append(d, m)
<1>1. /\ Len(d) \in Nat /\ Len(w) = Len(d) + 1
      /\ \A i \in 1 .. Len(d) : w[i] = d[i]
  BY OneMore
<1>2. Heard(w, id)
  OBVIOUS
<1> HIDE DEF w
<1>3. \A i \in 1 .. Len(d) : i \in 1 .. Len(w)
  BY <1>1
<1> QED
  BY <1>1, <1>2, <1>3 DEF Heard

\* How a session there is, or that one went, said to every link.
LEMMA PushedFed ==
  ASSUME MachinesTypeOK, FedOK, NEW f \in FromMachine, f.t \notin {"attached", "error"}, NEW l \in Link
  PROVE  LET j == Pushed(f)[l]
             k == link[l]
         IN /\ AnsweredOK(j, Running)
            /\ j.attached = k.attached /\ j.focused = k.focused /\ j.sock = k.sock /\ j.far = k.far
            /\ j.streams = k.streams /\ j.up = k.up /\ j.farFocus = k.farFocus
            /\ \A id : Heard(j.down, id) => Heard(k.down, id)
<1> DEFINE j == Pushed(f)[l]
           k == link[l]
<1>1. k \in LinkRecord /\ k.down \in Seq(FromMachine) /\ AnsweredOK(k, Running)
  BY LinkTyped DEF FedOK
<1>2. j = k \/ j = [k EXCEPT !.down = Append(@, f)]
  BY DEF Pushed
<1> HIDE DEF j, k
<1>3. CASE j = k
  BY <1>1, <1>3 DEF j, k
<1>4. CASE j = [k EXCEPT !.down = Append(@, f)]
  <2>1. /\ j.down = Append(k.down, f) /\ j.attached = k.attached /\ j.focused = k.focused /\ j.sock = k.sock
        /\ j.far = k.far /\ j.streams = k.streams /\ j.up = k.up /\ j.farFocus = k.farFocus
    BY <1>1, <1>4 DEF LinkRecord
  <2>2. AnsweredOK(j, Running)
    BY <1>1, <2>1, AnsweredMore
  <2>3. \A id : Heard(j.down, id) => Heard(k.down, id)
    BY <1>1, <2>1, MoreHeard
  <2> QED
    BY <2>1, <2>2, <2>3 DEF j, k
<1> QED
  BY <1>2, <1>3, <1>4

LEMMA AttentionChangesFed ==
  ASSUME MachinesTypeOK, StreamsOK, FedOK, AttentionChanges
  PROVE  FedOK'
<1>1. UNCHANGED <<current, numbers>>
  BY DEF AttentionChanges
<1>2. ASSUME NEW id \in DOMAIN there.runs, there' = [there EXCEPT !.runs[id] = Other(@)],
             link' = Pushed(Frame("state", id, 0, Other(there.runs[id]))), UNCHANGED page
      PROVE  FedOK'
  <2> DEFINE f == Frame("state", id, 0, Other(there.runs[id]))
  <2>1. f \in FromMachine /\ f.t = "state"
    <3>1. id \in Id /\ there.runs[id] \in {"idle", "blocked"}
      BY RunsIs DEF MachinesTypeOK
    <3> QED
      BY <3>1, OtherTyped, FrameTyped DEF Frame
  <2> HIDE DEF f
  <2>2. Running' = Running
    BY <1>2 DEF Running, MachinesTypeOK
  <2>3. \A l \in Link : LET j == link'[l]
                            k == link[l]
                        IN /\ AnsweredOK(j, Running)
                           /\ j.attached = k.attached /\ j.focused = k.focused /\ j.sock = k.sock /\ j.far = k.far
                           /\ j.streams = k.streams /\ j.up = k.up /\ j.farFocus = k.farFocus
                           /\ \A as : Heard(j.down, as) => Heard(k.down, as)
    BY <1>2, <2>1, PushedFed DEF f
  <2>4. SamePanes(page, page', Running) /\ SameStreams(page, page', Running, Base + numbers.ours)
    BY <1>2, SamePage
  <2> QED
    BY <1>1, <1>2, <2>2, <2>3, <2>4, NumbersAre, KeptFed DEF Apart
<1>3. ASSUME NEW id \in DOMAIN here, UNCHANGED <<there, link>>,
             page' = IF page.up THEN Patched(page, Scoped("here", id), here'[id]) ELSE page
      PROVE  FedOK'
  <2>1. /\ page'.up = page.up /\ page'.orphans = page.orphans /\ page'.panes = page.panes
        /\ page'.painted = page.painted /\ page'.streamTo = page.streamTo
    BY <1>3, NumbersAre DEF Patched, PageRecord
  <2> QED
    BY <1>1, <1>3, <2>1, OtherStepFed
<1> QED
  BY <1>2, <1>3 DEF AttentionChanges

\* A session there is gone, and its attachment.
LEMMA KilledOpen ==
  ASSUME NEW k, NEW j, NEW runs \in SUBSET Id, NEW p, NEW q, NEW id, OpenOK(k, runs, p),
         p.orphans = q.orphans, p.painted = q.painted, p.streamTo = q.streamTo,
         j.far = {e \in k.far : e.id # id}, j.farFocus = IF k.farFocus = id THEN None ELSE k.farFocus,
         j.streams = k.streams, j.up = k.up, j.attached = k.attached, j.focused = k.focused,
         \A as : Heard(j.down, as) => Heard(k.down, as)
  PROVE  OpenOK(j, runs \ {id}, q)
<1>1. \A as : as # id => (Held(j, as) <=> Held(k, as))
  BY DEF Held
<1>2. ASSUME NEW as \in runs \ {id} PROVE as \in j.attached <=> WillHold(j.up, as, Held(j, as))
  <2>1. Held(j, as) = Held(k, as)
    BY <1>2 DEF Held
  <2> QED
    BY <2>1 DEF OpenOK
<1>3. \A e \in j.far : e.id \in runs \ {id} /\ e \in k.far
  BY DEF OpenOK
<1>4. ASSUME NEW e \in j.far, e.id \in j.attached \ q.orphans, Unclaimed(j.up, e.id), Heard(j.down, e.id)
      PROVE  Feeds(j, e, q)
  <2>1. Feeds(k, e, p)
    BY <1>3, <1>4 DEF OpenOK
  <2> QED
    BY <2>1 DEF Feeds
<1>5. ASSUME j.focused \in (runs \ {id}) \ q.orphans
      PROVE  \/ j.farFocus = j.focused /\ Leaves(j.up, j.focused, 1)
             \/ WillFocus(j.up, j.focused, Held(j, j.focused))
  <2>1. Held(j, j.focused) = Held(k, j.focused)
    BY <1>5 DEF Held
  <2> QED
    BY <1>5, <2>1 DEF OpenOK
<1> QED
  BY <1>2, <1>3, <1>4, <1>5 DEF OpenOK

LEMMA KillsFed ==
  ASSUME MachinesTypeOK, StreamsOK, FedOK, Kills
  PROVE  FedOK'
<1>1. UNCHANGED <<current, numbers>>
  BY DEF Kills
<1>2. CASE page' = Invalidated(page) /\ UNCHANGED <<there, link>>
  <2>1. /\ page'.up = page.up /\ page'.orphans = page.orphans /\ page'.panes = page.panes
        /\ page'.painted = page.painted /\ page'.streamTo = page.streamTo
    BY <1>2, NumbersAre DEF Invalidated, PageRecord
  <2> QED
    BY <1>1, <1>2, <2>1, OtherStepFed
<1>3. ASSUME NEW id \in Id, there' = [there EXCEPT !.runs = Without(@, id)], UNCHANGED page,
             link' = [l \in Link |-> [Pushed(Frame("invalidate", None, 0, ""))[l] EXCEPT
                        !.far = {e \in @ : e.id # id}, !.farFocus = IF @ = id THEN None ELSE @]]
      PROVE  FedOK'
  <2> DEFINE f == Frame("invalidate", None, 0, "")
  <2>1. f \in FromMachine /\ f.t = "invalidate"
    BY FrameTyped DEF Frame, FromMachine
  <2> HIDE DEF f
  <2>2. Running' = Running \ {id} /\ Running \in SUBSET Id
    BY <1>3, RunningTyped DEF Running, MachinesTypeOK, Without
  <2>3. ASSUME NEW l \in Link
        PROVE  LET j == link'[l]
                   k == link[l]
               IN /\ AnsweredOK(j, Running')
                  /\ j.attached = k.attached /\ j.focused = k.focused /\ j.sock = k.sock
                  /\ j.far = {e \in k.far : e.id # id} /\ j.farFocus = IF k.farFocus = id THEN None ELSE k.farFocus
                  /\ j.streams = k.streams /\ j.up = k.up
                  /\ \A as : Heard(j.down, as) => Heard(k.down, as)
    <3> DEFINE i == Pushed(f)[l]
               j == link'[l]
               k == link[l]
    <3>1. i \in LinkRecord
      BY <2>1, PushedTyped
    <3>2. /\ AnsweredOK(i, Running)
          /\ i.attached = k.attached /\ i.focused = k.focused /\ i.sock = k.sock /\ i.far = k.far
          /\ i.streams = k.streams /\ i.up = k.up /\ i.farFocus = k.farFocus
          /\ \A as : Heard(i.down, as) => Heard(k.down, as)
      BY <2>1, PushedFed
    <3>3. j = [i EXCEPT !.far = {e \in @ : e.id # id}, !.farFocus = IF @ = id THEN None ELSE @]
      BY <1>3 DEF f
    <3> HIDE DEF i, j, k
    <3>4. /\ j.attached = i.attached /\ j.focused = i.focused /\ j.sock = i.sock /\ j.down = i.down
          /\ j.streams = i.streams /\ j.up = i.up
          /\ j.far = {e \in i.far : e.id # id} /\ j.farFocus = IF i.farFocus = id THEN None ELSE i.farFocus
      BY <3>1, <3>3 DEF LinkRecord
    <3>5. AnsweredOK(j, Running')
      BY <2>2, <3>2, <3>4, AnsweredLess
    <3> QED
      BY <3>2, <3>4, <3>5 DEF j, k
  <2>4. SamePanes(page, page', Running) /\ page' = page
    BY <1>3, SamePage
  <2>5. page.up /\ current = None => NoPane(Running', page')
    BY <2>2, <2>4, NoPaneKept DEF FedOK
  <2>6. ASSUME page.up, current # None
        PROVE  /\ PanesOK(link'[current], Running', page')
               /\ Apart /\ link'[current].sock = "open" => OpenOK(link'[current], Running', page')
    <3> DEFINE j == link'[current]
               k == link[current]
    <3>1. PanesOK(k, Running, page) /\ (Apart /\ k.sock = "open" => OpenOK(k, Running, page))
      BY <2>6 DEF FedOK
    <3>2. /\ j.attached = k.attached /\ j.focused = k.focused /\ j.sock = k.sock
          /\ j.far = {e \in k.far : e.id # id} /\ j.farFocus = IF k.farFocus = id THEN None ELSE k.farFocus
          /\ j.streams = k.streams /\ j.up = k.up
          /\ \A as : Heard(j.down, as) => Heard(k.down, as)
      BY <2>3, <2>6, NumbersAre
    <3> HIDE DEF j, k
    <3>3. PanesOK(j, Running', page')
      BY <2>2, <2>4, <3>1, <3>2, PanesKept
    <3>4. OpenOK(k, Running, page) => OpenOK(j, Running \ {id}, page')
      BY <2>2, <2>4, <3>2, KilledOpen
    <3> QED
      BY <2>2, <3>1, <3>2, <3>3, <3>4 DEF j
  <2> QED
    BY <1>1, <2>3, <2>4, <2>5, <2>6 DEF FedOK, Apart
<1>4. PICK s \in ScopedId :
        IF s[1] = "here"
          THEN page' = Invalidated(page) /\ UNCHANGED <<there, link>>
          ELSE /\ there' = [there EXCEPT !.runs = Without(@, s[2])]
               /\ link' = [l \in Link |-> [Pushed(Frame("invalidate", None, 0, ""))[l] EXCEPT
                            !.far = {e \in @ : e.id # s[2]}, !.farFocus = IF @ = s[2] THEN None ELSE @]]
               /\ UNCHANGED page
  BY DEF Kills
<1>5. s[2] \in Id
  BY ScopedTyped
<1> QED
  BY <1>2, <1>3, <1>4, <1>5

LEMMA TheirStopsFed ==
  ASSUME MachinesTypeOK, StreamsOK, FedOK, TheirStops
  PROVE  FedOK'
<1>1. UNCHANGED <<current, numbers, page>> /\ there'.runs = there.runs
  BY DEF TheirStops, MachinesTypeOK
<1>2. ASSUME NEW l \in Link
      PROVE  LET j == link'[l]
                 k == link[l]
             IN AnsweredOK(j, Running) /\ j.attached = k.attached /\ j.focused = k.focused /\ j.sock # "open"
  <2> DEFINE j == link'[l]
             k == link[l]
  <2>1. k \in LinkRecord /\ AnsweredOK(k, Running)
    BY LinkTyped DEF FedOK
  <2>2. \/ j = k /\ k.sock # "open"
        \/ j = [k EXCEPT !.sock = IF @ = "open" THEN "dying" ELSE @, !.up = <<>>, !.far = {}, !.farFocus = None]
    BY DEF TheirStops
  <2> HIDE DEF j, k
  <2>3. j.down = k.down /\ j.far \subseteq k.far /\ j.attached = k.attached /\ j.focused = k.focused /\ j.sock # "open"
    BY <2>1, <2>2 DEF LinkRecord
  <2>4. AnsweredOK(j, Running)
    BY <2>1, <2>3, AnsweredLess
  <2> QED
    BY <2>3, <2>4 DEF j, k
<1>3. SamePanes(page, page', Running) /\ SameStreams(page, page', Running, Base + numbers.ours)
  BY <1>1, SamePage
<1> QED
  BY <1>1, <1>2, <1>3, NumbersAre, KeptFed DEF Running, Apart

LEMMA FarOutputsFed ==
  ASSUME MachinesTypeOK, StreamsOK, FedOK, NEW l \in Link, FarOutputs(l)
  PROVE  FedOK'
<1>1. PICK e \in link[l].far : link' = [link EXCEPT ![l].down = Append(@, Frame("output", e.id, e.no, ""))]
  BY DEF FarOutputs
<1> DEFINE f == Frame("output", e.id, e.no, "")
           k == link[l]
           j == link'[l]
<1>2. /\ k \in LinkRecord /\ k.down \in Seq(FromMachine) /\ j = [k EXCEPT !.down = Append(@, f)]
      /\ \A m \in Link : m # l => link'[m] = link[m]
      /\ UNCHANGED <<current, numbers, there, page>>
  BY <1>1, NumbersAre, LinkTyped DEF FarOutputs
<1>3. f \in FromMachine /\ f.t = "output"
  <2>1. e.id \in Id /\ e.no \in Nat
    BY LinkTyped
  <2> QED
    BY <2>1, FrameTyped DEF Frame
<1>4. AnsweredOK(k, Running)
  BY DEF FedOK
<1> HIDE DEF f, k, j
<1>5. /\ j.down = Append(k.down, f) /\ j.attached = k.attached /\ j.focused = k.focused /\ j.sock = k.sock
      /\ j.far = k.far /\ j.streams = k.streams /\ j.up = k.up /\ j.farFocus = k.farFocus
  BY <1>2 DEF LinkRecord
<1>6. AnsweredOK(j, Running)
  BY <1>2, <1>3, <1>4, <1>5, AnsweredMore
<1>7. \A id : Heard(j.down, id) => Heard(k.down, id)
  BY <1>2, <1>3, <1>5, MoreHeard
<1>8. \A m \in Link : AnsweredOK(link'[m], Running)
  BY <1>2, <1>6 DEF FedOK, j
<1>9. current # None => LET i == link[current]
                            h == link'[current]
                        IN /\ h.attached = i.attached /\ h.focused = i.focused
                           /\ h.sock = "open" =>
                                /\ i.sock = "open" /\ h.far = i.far /\ h.streams = i.streams /\ h.up = i.up
                                /\ h.farFocus = i.farFocus /\ \A id : Heard(h.down, id) => Heard(i.down, id)
  BY <1>2, <1>5, <1>7, NumbersAre DEF j, k
<1>10. SamePanes(page, page', Running) /\ SameStreams(page, page', Running, Base + numbers.ours)
  BY <1>2, SamePage
<1> QED
  BY <1>2, <1>8, <1>9, <1>10, KeptFed DEF Running, Apart

\* The machine takes a frame of the page's link.
LEMMA TakenOpen ==
  ASSUME NEW k \in LinkRecord, k.up # <<>>, NEW j, NEW runs \in SUBSET Id, NEW p, OpenOK(k, runs, p),
         NEW m \in ToMachine, m = k.up[1],
         j.up = Tail(k.up), j.attached = k.attached, j.focused = k.focused, j.streams = k.streams,
         \A id : Heard(j.down, id) => Heard(k.down, id),
         \/ /\ m.t = "attach" /\ m.id \in runs /\ ~Heard(j.down, m.id) /\ j.farFocus = k.farFocus
            /\ \E no \in Nat : j.far = k.far \cup {[id |-> m.id, no |-> no]}
         \/ m.t = "attach" /\ m.id \notin runs /\ j.far = k.far /\ j.farFocus = k.farFocus
         \/ /\ m.t = "detach" /\ j.far = {e \in k.far : e.id # m.id}
            /\ j.farFocus = IF k.farFocus = m.id THEN None ELSE k.farFocus
         \/ /\ m.t = "focus" /\ j.far = k.far
            /\ j.farFocus = IF Held(k, m.id) THEN m.id ELSE k.farFocus
  PROVE  OpenOK(j, runs, p)
<1> DEFINE u == k.up
<1>1. u \in Seq(ToMachine) /\ u # <<>> /\ m = u[1] /\ j.up = Tail(u)
  BY DEF LinkRecord
<1> HIDE DEF u
<1>2. \A e \in j.far : e \in k.far \/ (m.t = "attach" /\ e.id = m.id /\ m.id \in runs /\ ~Heard(j.down, e.id))
  OBVIOUS
<1>3. \A e \in j.far : e.id \in runs
  BY <1>2 DEF OpenOK
<1>4. ASSUME NEW id \in runs
      PROVE  /\ Requests(m, id) => Held(j, id)
             /\ Detaches(m, id) => ~Held(j, id)
             /\ ~Requests(m, id) /\ ~Detaches(m, id) => (Held(j, id) <=> Held(k, id))
             /\ Held(k, id) /\ ~Detaches(m, id) => Held(j, id)
  <2>1. CASE m.t = "attach" /\ m.id \in runs /\ \E no \in Nat : j.far = k.far \cup {[id |-> m.id, no |-> no]}
    <3>1. PICK no \in Nat : j.far = k.far \cup {[id |-> m.id, no |-> no]}
      BY <2>1
    <3>2. [id |-> m.id, no |-> no] \in j.far /\ [id |-> m.id, no |-> no].id = m.id
      BY <3>1
    <3>3. \A e \in j.far : e \in k.far \/ e.id = m.id
      BY <3>1
    <3>4. ~Detaches(m, id) /\ (Requests(m, id) <=> id = m.id)
      BY <2>1 DEF Detaches, Requests
    <3>5. k.far \subseteq j.far
      BY <3>1
    <3> QED
      BY <3>2, <3>3, <3>4, <3>5 DEF Held
  <2>2. CASE m.t = "detach" /\ j.far = {e \in k.far : e.id # m.id}
    <3>1. ~Requests(m, id) /\ (Detaches(m, id) <=> id = m.id)
      BY <2>2 DEF Detaches, Requests
    <3> QED
      BY <2>2, <3>1 DEF Held
  <2>3. CASE ~Requests(m, id) /\ ~Detaches(m, id) /\ j.far = k.far
    BY <2>3 DEF Held
  <2>4. m.t = "attach" /\ m.id \notin runs => ~Requests(m, id) /\ ~Detaches(m, id)
    BY <1>4 DEF Detaches, Requests
  <2>5. m.t = "focus" => ~Requests(m, id) /\ ~Detaches(m, id)
    BY DEF Detaches, Requests
  <2> QED
    BY <2>1, <2>2, <2>3, <2>4, <2>5
<1>5. ASSUME NEW id \in runs
      PROVE  WillHold(j.up, id, Held(j, id)) <=> WillHold(u, id, Held(k, id))
  <2> DEFINE has == Held(k, id)
             now == Held(j, id)
  <2>1. has \in BOOLEAN /\ now \in BOOLEAN
    BY DEF Held
  <2>2. /\ Requests(u[1], id) => now
        /\ Detaches(u[1], id) => ~now
        /\ ~Requests(u[1], id) /\ ~Detaches(u[1], id) => (now <=> has)
    BY <1>1, <1>4
  <2> HIDE DEF has, now
  <2>3. ~Requests(u[1], id) /\ ~Detaches(u[1], id) => now = has
    BY <2>1, <2>2
  <2>4. WillHold(Tail(u), id, now) <=> WillHold(u, id, has)
    BY <1>1, <2>1, <2>2, <2>3, LessHold
  <2> QED
    BY <1>1, <2>4 DEF has, now
<1>6. ASSUME NEW id \in runs PROVE id \in j.attached <=> WillHold(j.up, id, Held(j, id))
  BY <1>5 DEF OpenOK, u
<1>7. ASSUME NEW e \in j.far, e.id \in j.attached \ p.orphans, Unclaimed(j.up, e.id), Heard(j.down, e.id)
      PROVE  Feeds(j, e, p)
  <2>1. e \in k.far /\ e.id \in runs
    BY <1>2, <1>3, <1>7
  <2>2. ~Requests(m, e.id)
    <3>1. CASE m.t = "attach" /\ m.id \in runs
      BY <1>7, <3>1 DEF Requests
    <3>2. CASE m.t # "attach" \/ m.id \notin runs
      BY <2>1, <3>2 DEF Requests
    <3> QED
      BY <3>1, <3>2
  <2>3. ~Detaches(m, e.id)
    BY <1>7 DEF Detaches
  <2>4. Unclaimed(u, e.id)
    BY <1>1, <1>7, <2>2, <2>3, LessUnclaimed
  <2>5. Heard(k.down, e.id)
    BY <1>7
  <2>6. Feeds(k, e, p)
    BY <1>7, <2>1, <2>4, <2>5 DEF OpenOK, u
  <2> QED
    BY <2>6 DEF Feeds
<1>8. ASSUME j.focused \in runs \ p.orphans
      PROVE  \/ j.farFocus = j.focused /\ Leaves(j.up, j.focused, 1)
             \/ WillFocus(j.up, j.focused, Held(j, j.focused))
  <2> DEFINE f == k.focused
  <2>1. f \in runs /\ j.focused = f /\ f # None
    BY <1>8, Ids
  <2>2. \/ k.farFocus = f /\ Leaves(u, f, 1)
        \/ WillFocus(u, f, Held(k, f))
    BY <1>8 DEF OpenOK, u
  <2> HIDE DEF f
  <2>3. Len(u) >= 1 /\ 1 \in 1 .. Len(u)
    BY <1>1, OneLess
  <2>4. CASE k.farFocus = f /\ Leaves(u, f, 1)
    <3>1. m.t # "focus" /\ ~Detaches(m, f)
      BY <1>1, <2>3, <2>4 DEF Leaves
    <3>2. j.farFocus = f
      BY <2>4, <3>1 DEF Detaches
    <3>3. Leaves(j.up, f, 1)
      <4>1. 1 \in Nat /\ 1 >= 1
        OBVIOUS
      <4>2. /\ Leaves(Tail(u), f, 1) <=> Leaves(u, f, 1 + 1)
            /\ Leaves(u, f, 1) => Leaves(u, f, 1 + 1)
        BY <1>1, <4>1, LessLeaves
      <4> QED
        BY <1>1, <2>4, <4>2
    <3> QED
      BY <2>1, <3>2, <3>3
  <2>5. CASE WillFocus(u, f, Held(k, f))
    <3>1. Held(k, f) \in BOOLEAN /\ Held(j, f) \in BOOLEAN
      BY DEF Held
    <3>2. \/ WillFocus(Tail(u), f, Held(j, f))
          \/ m.t = "focus" /\ m.id = f /\ Held(k, f) /\ Leaves(Tail(u), f, 1)
      BY <1>1, <1>4, <2>1, <2>5, <3>1, LessFocus
    <3> QED
      BY <1>1, <2>1, <3>2
  <2> QED
    BY <2>2, <2>4, <2>5
<1> QED
  BY <1>3, <1>6, <1>7, <1>8 DEF OpenOK

LEMMA FarTakesFed ==
  ASSUME MachinesTypeOK, StreamsOK, FedOK, UNCHANGED gateway, NEW l \in Link, FarTakes(l)
  PROVE  FedOK'
<1> DEFINE k == link[l]
           m == Head(k.up)
           has == {e \in k.far : e.id = m.id}
           j == link'[l]
<1>1. /\ k.up \in Seq(ToMachine) /\ k.up # <<>> /\ m \in ToMachine
      /\ UNCHANGED <<current, there, near, page>>
      /\ \A i \in Link : i # l => link'[i] = link[i]
      /\ j.up = Tail(k.up) /\ j.sock = k.sock
      /\ j.attached = k.attached /\ j.focused = k.focused /\ j.streams = k.streams
  BY StreamsAre, TakenIs
<1>2. \/ /\ m.t = "attach" /\ m.id \in Running
         /\ \E no \in Nat :
              /\ \/ \E e \in has : e.no = no /\ UNCHANGED numbers
                 \/ has = {} /\ no = numbers.theirs + 1 /\ numbers' = [numbers EXCEPT !.theirs = no]
              /\ j.far = k.far \cup {[id |-> m.id, no |-> no]} /\ j.farFocus = k.farFocus
              /\ j.down = k.down \o <<Frame("attached", m.id, no, ""),
                                      Frame("state", m.id, 0, there.runs[m.id])>>
      \/ /\ m.t = "attach" /\ m.id \notin Running /\ UNCHANGED numbers
         /\ j.far = k.far /\ j.farFocus = k.farFocus
         /\ j.down = Append(k.down, Frame("error", m.id, 0, ""))
      \/ /\ m.t = "detach" /\ UNCHANGED numbers /\ j.down = k.down
         /\ j.far = k.far \ has /\ j.farFocus = IF k.farFocus = m.id THEN None ELSE k.farFocus
      \/ /\ m.t = "focus" /\ UNCHANGED numbers /\ j.down = k.down /\ j.far = k.far
         /\ j.farFocus = IF has # {} THEN m.id ELSE k.farFocus
  BY StreamsAre, TakenIs DEF Running
<1>3. k \in LinkRecord /\ AnsweredOK(k, Running) /\ k.down \in Seq(FromMachine) /\ m = k.up[1]
  BY <1>1, LinkTyped, OneLess DEF FedOK
<1>4. Running \in SUBSET Id /\ Running' = Running /\ m.id \in Id
      /\ \A id \in Running : there.runs[id] \in {"idle", "blocked"}
  BY <1>1, RunningTyped, RunsIs DEF Running, ToMachine, MachinesTypeOK
<1>5. numbers'.near = numbers.near
  BY <1>2, NumbersAre
<1>6. has # {} <=> Held(k, m.id)
  BY DEF Held
<1>7. k.far \ has = {e \in k.far : e.id # m.id}
  OBVIOUS
<1> HIDE DEF k, m, j
<1>8. /\ AnsweredOK(j, Running) /\ \A id : Heard(j.down, id) => Heard(k.down, id)
      /\ \/ /\ m.t = "attach" /\ m.id \in Running /\ ~Heard(j.down, m.id) /\ j.farFocus = k.farFocus
            /\ \E no \in Nat : j.far = k.far \cup {[id |-> m.id, no |-> no]}
         \/ m.t = "attach" /\ m.id \notin Running /\ j.far = k.far /\ j.farFocus = k.farFocus
         \/ /\ m.t = "detach" /\ j.far = {e \in k.far : e.id # m.id}
            /\ j.farFocus = IF k.farFocus = m.id THEN None ELSE k.farFocus
         \/ /\ m.t = "focus" /\ j.far = k.far
            /\ j.farFocus = IF Held(k, m.id) THEN m.id ELSE k.farFocus
  <2>1. CASE m.t = "attach" /\ m.id \in Running
    <3>1. PICK no \in Nat :
              /\ \/ \E e \in has : e.no = no
                 \/ has = {}
              /\ j.far = k.far \cup {[id |-> m.id, no |-> no]} /\ j.farFocus = k.farFocus
              /\ j.down = k.down \o <<Frame("attached", m.id, no, ""),
                                      Frame("state", m.id, 0, there.runs[m.id])>>
      BY <1>2, <2>1
    <3>2. \A e \in k.far : e.id = m.id => e.no = no
      <4>1. \A e, f \in k.far : e.id = f.id => e.no = f.no
        BY <1>3 DEF AnsweredOK
      <4> QED
        BY <3>1, <4>1
    <3>3. PICK a \in FromMachine, b \in FromMachine :
            /\ a.t = "attached" /\ a.id = m.id /\ a.no = no /\ b.t = "state"
            /\ j.down = k.down \o <<a, b>>
      <4>1. Frame("attached", m.id, no, "") \in FromMachine /\ Frame("state", m.id, 0, there.runs[m.id]) \in FromMachine
        BY <1>4, <2>1, FrameTyped
      <4> QED
        BY <3>1, <4>1 DEF Frame
    <3>4. /\ \A e \in j.far : e \in k.far \/ (e.id = a.id /\ e.no = a.no)
          /\ \A e \in k.far : e.id = a.id => e.no = a.no
      <4>1. j.far = k.far \cup {[id |-> m.id, no |-> no]}
        BY <3>1
      <4>2. a.id = m.id /\ a.no = no
        BY <3>3
      <4>3. ASSUME NEW e \in j.far PROVE e \in k.far \/ (e.id = a.id /\ e.no = a.no)
        BY <4>1, <4>2
      <4> QED
        BY <3>2, <4>2, <4>3
    <3>5. j.down = Append(Append(k.down, a), b)
      BY <1>3, <3>3, OneByOne
    <3>6. AnsweredOK(j, Running) /\ \A as : Heard(j.down, as) => Heard(k.down, as) /\ as # a.id
      <4>1. k \in LinkRecord /\ AnsweredOK(k, Running)
        BY <1>3
      <4>2. a \in FromMachine /\ b \in FromMachine /\ a.t = "attached" /\ b.t = "state"
        BY <3>3
      <4> QED
        BY <3>4, <3>5, <4>1, <4>2, AnsweredAttach
    <3> QED
      BY <2>1, <3>1, <3>3, <3>6
  <2>2. CASE m.t = "attach" /\ m.id \notin Running
    <3> DEFINE a == Frame("error", m.id, 0, "")
    <3>1. a \in FromMachine /\ a.t = "error" /\ a.id = m.id
      BY <1>4, FrameTyped DEF Frame
    <3>2. j.far = k.far /\ j.farFocus = k.farFocus /\ j.down = Append(k.down, a)
      BY <1>2, <2>2
    <3> HIDE DEF a
    <3>3. AnsweredOK(j, Running)
      BY <1>3, <2>2, <3>1, <3>2, AnsweredMore
    <3>4. \A id : Heard(j.down, id) => Heard(k.down, id)
      BY <1>3, <3>1, <3>2, MoreHeard
    <3> QED
      BY <2>2, <3>2, <3>3, <3>4
  <2>3. CASE m.t = "detach"
    <3>1. j.down = k.down /\ j.far = {e \in k.far : e.id # m.id}
          /\ j.farFocus = IF k.farFocus = m.id THEN None ELSE k.farFocus
      BY <1>2, <1>7, <2>3
    <3>2. AnsweredOK(j, Running)
      BY <1>3, <3>1, AnsweredLess
    <3> QED
      BY <2>3, <3>1, <3>2
  <2>4. CASE m.t = "focus"
    <3>1. j.down = k.down /\ j.far = k.far /\ j.farFocus = IF Held(k, m.id) THEN m.id ELSE k.farFocus
      BY <1>2, <1>6, <2>4
    <3>2. AnsweredOK(j, Running)
      BY <1>3, <3>1, AnsweredLess
    <3> QED
      BY <2>4, <3>1, <3>2
  <2> QED
    BY <1>2, <2>1, <2>2, <2>3, <2>4
<1>9. \A i \in Link : AnsweredOK(link'[i], Running)
  BY <1>1, <1>8 DEF FedOK, j
<1>10. SamePanes(page, page', Running) /\ SameStreams(page, page', Running, Base + numbers.ours)
  BY <1>1, SamePage
<1>11. CASE l # current
  <2>1. current # None => link'[current] = link[current]
    BY <1>1, <1>11, NumbersAre
  <2> QED
    BY <1>1, <1>4, <1>5, <1>9, <1>10, <2>1, KeptFed DEF Apart
<1>12. CASE l = current
  <2>1. current' # None /\ link'[current'] = j /\ page' = page
    BY <1>1, <1>12, Ids DEF j
  <2>2. ASSUME page.up
        PROVE  PanesOK(k, Running, page) /\ (Apart /\ k.sock = "open" => OpenOK(k, Running, page))
    BY <1>1, <1>12, <2>1, <2>2 DEF FedOK, k
  <2>3. ASSUME page.up PROVE PanesOK(j, Running, page)
    BY <1>1, <1>10, <2>1, <2>2, <2>3, PanesKept
  <2>4. OpenOK(k, Running, page) => OpenOK(j, Running, page)
    BY <1>1, <1>3, <1>4, <1>8, TakenOpen
  <2>5. Apart' => Apart
    BY <1>5 DEF Apart
  <2> QED
    BY <1>1, <1>4, <1>9, <2>1, <2>2, <2>3, <2>4, <2>5 DEF FedOK
<1> QED
  BY <1>11, <1>12

\* The page's link is told of an attachment, and the page of its stream.
LEMMA HeardOpen ==
  ASSUME NEW k \in LinkRecord, k.down # <<>>, NEW j, NEW runs \in SUBSET Id, NEW p, NEW q,
         OpenOK(k, runs, p), PanesOK(k, runs, p), AnsweredOK(k, runs),
         \A no \in Nat, id, as \in Id : Says(k, no, id) /\ Says(k, no, as) => id = as,
         NEW m \in FromMachine, m = k.down[1], m.t = "attached", m.id \in Id, m.no \in Nat, NEW ours,
         \A x \in k.streams : x.ours # ours,
         j.far = k.far, j.up = k.up, j.attached = k.attached, j.focused = k.focused, j.farFocus = k.farFocus,
         j.down = Tail(k.down),
         \A x \in k.streams : x.theirs # m.no => x \in j.streams,
         \E x \in j.streams : x.theirs = m.no /\ x.id = m.id /\ x.ours = ours,
         q.orphans = p.orphans, p.painted \subseteq q.painted,
         Scoped("there", m.id) \in p.panes => Scoped("there", m.id) \in q.painted,
         <<ours, Scoped("there", m.id)>> \in q.streamTo,
         \A e \in p.streamTo : e[1] # ours /\ e[2] # Scoped("there", m.id) => e \in q.streamTo
  PROVE  OpenOK(j, runs, q)
<1>1. k.down \in Seq(FromMachine) /\ 1 \in 1 .. Len(k.down)
  <2>1. k.down \in Seq(FromMachine)
    BY DEF LinkRecord
  <2> QED
    BY <2>1, OneLess
<1>2. ASSUME NEW id \in runs PROVE id \in j.attached <=> WillHold(j.up, id, Held(j, id))
  <2>1. Held(j, id) = Held(k, id)
    BY DEF Held
  <2> QED
    BY <2>1 DEF OpenOK
<1>3. \A e \in j.far : e.id \in runs
  BY DEF OpenOK
<1>4. ASSUME NEW e \in j.far, e.id \in j.attached \ q.orphans, Unclaimed(j.up, e.id), Heard(j.down, e.id)
      PROVE  Feeds(j, e, q)
  <2>1. e \in k.far /\ e.id \in runs /\ e.id \in Id /\ e.no \in Nat
    BY <1>3, <1>4 DEF LinkRecord
  <2>2. CASE e.id = m.id
    <3>1. Accepts(m, e.id)
      BY <2>2 DEF Accepts
    <3>2. m.no = e.no
      <4>1. Latest(k.down, e.id, e.no)
        BY <2>1 DEF AnsweredOK
      <4>2. Latest(k.down, e.id, e.no) /\ Heard(Tail(k.down), e.id) /\ Accepts(k.down[1], e.id) => k.down[1].no = e.no
        BY <1>1, LessAnswers
      <4> QED
        BY <1>4, <3>1, <4>1, <4>2
    <3>3. Scoped("there", e.id) \in q.painted
      BY <1>4, <2>1, <2>2 DEF PanesOK
    <3>4. \E x \in j.streams : x.theirs = e.no /\ x.id = e.id /\ x.ours = ours
      BY <2>2, <3>2
    <3> QED
      BY <2>2, <3>3, <3>4 DEF Feeds
  <2>3. CASE e.id # m.id
    <3>1. ~Accepts(m, e.id)
      BY <2>3 DEF Accepts
    <3>2. Heard(k.down, e.id)
      <4>1. Heard(k.down, e.id) <=> Heard(Tail(k.down), e.id) /\ ~Accepts(k.down[1], e.id)
        <5>1. \A no : Heard(k.down, e.id) <=> Heard(Tail(k.down), e.id) /\ ~Accepts(k.down[1], e.id)
          BY <1>1, LessAnswers
        <5> QED
          BY <5>1
      <4> QED
        BY <1>4, <3>1, <4>1
    <3>3. Feeds(k, e, p)
      BY <1>4, <2>1, <3>2 DEF OpenOK
    <3>4. PICK x \in k.streams : x.theirs = e.no /\ x.id = e.id /\ <<x.ours, Scoped("there", e.id)>> \in p.streamTo
      BY <3>3 DEF Feeds
    <3>5. Says(k, m.no, m.id)
      BY <1>1 DEF Says, Naming
    <3>6. Says(k, e.no, e.id)
      BY <2>1 DEF Says
    <3>7. e.no # m.no
      BY <2>1, <2>3, <3>5, <3>6
    <3>8. x \in j.streams
      BY <3>4, <3>7
    <3>9. Scoped("there", e.id) # Scoped("there", m.id)
      BY <2>3 DEF Scoped
    <3>10. <<x.ours, Scoped("there", e.id)>> \in q.streamTo
      BY <3>4, <3>9
    <3> QED
      BY <3>3, <3>4, <3>8, <3>10 DEF Feeds
  <2> QED
    BY <2>2, <2>3
<1>5. j.focused \in runs \ q.orphans =>
       \/ j.farFocus = j.focused /\ Leaves(j.up, j.focused, 1)
       \/ WillFocus(j.up, j.focused, Held(j, j.focused))
  <2>1. Held(j, k.focused) = Held(k, k.focused)
    BY DEF Held
  <2> QED
    BY <2>1 DEF OpenOK
<1> QED
  BY <1>2, <1>3, <1>4, <1>5 DEF OpenOK

LEMMA AttachedOne ==
  ASSUME NEW p \in PageRecord, NEW s \in ScopedId, NEW no \in Nat
  PROVE  LET q == Attached(p, {<<no, s>>})
         IN /\ q \in PageRecord /\ q.up = p.up /\ q.panes = p.panes /\ q.orphans = p.orphans
            /\ q.painted = p.painted \cup (p.panes \cap {s})
            /\ q.streamTo = {e \in p.streamTo : e[2] # s /\ e[1] # no} \cup {<<no, s>>}
<1> DEFINE q == Attached(p, {<<no, s>>})
<1>1. {<<no, s>>} \in SUBSET (Nat \X ScopedId)
  OBVIOUS
<1>2. q \in PageRecord
  BY <1>1, AttachedTyped
<1>3. {n[2] : n \in {<<no, s>>}} = {s}
  OBVIOUS
<1>4. q.up = p.up /\ q.panes = p.panes /\ q.orphans = p.orphans
  BY DEF Attached, PageRecord
<1>5. q.painted = p.painted \cup (p.panes \cap {s})
  BY <1>3 DEF Attached, PageRecord
<1>6. q.streamTo = {e \in p.streamTo : e[2] # s /\ e[1] # no} \cup {<<no, s>>}
  BY <1>3 DEF Attached, PageRecord
<1> QED
  BY <1>2, <1>4, <1>5, <1>6

LEMMA LinkHearsFed ==
  ASSUME MachinesTypeOK, StreamsOK, FedOK, NEW l \in Link, LinkHears(l, Known)
  PROVE  FedOK'
<1> DEFINE k == link[l]
           m == Head(k.down)
           s == Scoped("there", m.id)
           ours == OurNo(numbers.ours + 1)
           was == [k EXCEPT !.down = Tail(@)]
           stream == [theirs |-> m.no, ours |-> ours, id |-> m.id]
           j == link'[l]
           named == Attached(page, {<<ours, s>>})
<1>1. k \in LinkRecord /\ k.down \in Seq(FromMachine) /\ k.down # <<>> /\ AnsweredOK(k, Running)
  BY LinkTyped DEF FedOK, LinkHears
<1>2. m = k.down[1] /\ m \in FromMachine
  BY <1>1, OneLess
<1>3. /\ was.sock = k.sock /\ was.up = k.up /\ was.down = Tail(k.down) /\ was.far = k.far /\ was.streams = k.streams
      /\ was.attached = k.attached /\ was.focused = k.focused /\ was.farFocus = k.farFocus /\ was \in LinkRecord
  BY <1>1, HeardTyped DEF LinkRecord
<1>4. /\ UNCHANGED <<current, there>> /\ numbers'.near = numbers.near
      /\ \A i \in Link : i # l => link'[i] = link[i]
      /\ m.t # "attached" =>
           /\ j = was
           /\ page' = IF k.mute THEN page
                      ELSE CASE m.t = "error" -> Gone(page, s)
                             [] m.t = "state" -> IF s \in Known THEN Patched(page, s, m.says) ELSE page
                             [] m.t = "invalidate" -> [page EXCEPT !.asked = TRUE]
                             [] OTHER -> page
      /\ m.t = "attached" =>
           /\ j = [was EXCEPT !.streams = {e \in @ : e.theirs # m.no} \cup {stream}]
           /\ k.mute => page' = page
           /\ ~k.mute => page' = [named EXCEPT !.orphans = IF l = current THEN @ ELSE @ \cup {m.id}]
  BY NumbersAre DEF LinkHears
<1>5. l = current => ~k.mute
  BY Ids DEF StreamsOK, HomeOK
<1>6. LifeOK(k, numbers.theirs, there.up)
  BY StreamsAre DEF Lives
<1> HIDE DEF k, m, was, j
<1>7. /\ j.sock = k.sock /\ j.up = k.up /\ j.down = Tail(k.down) /\ j.far = k.far
      /\ j.attached = k.attached /\ j.focused = k.focused /\ j.farFocus = k.farFocus
      /\ m.t # "attached" => j.streams = k.streams
      /\ m.t = "attached" => j.streams = {e \in k.streams : e.theirs # m.no} \cup {stream}
  <2>1. CASE m.t # "attached"
    BY <1>3, <1>4, <2>1
  <2>2. CASE m.t = "attached"
    BY <1>3, <1>4, <2>2 DEF LinkRecord
  <2> QED
    BY <2>1, <2>2
<1>8. AnsweredOK(j, Running) /\ (m.t = "error" => m.id \notin Running)
  <2>1. m = Head(k.down)
    BY DEF m
  <2> QED
    BY <1>1, <1>7, <2>1, AnsweredHeard
<1>9. \A i \in Link : AnsweredOK(link'[i], Running)
  BY <1>4, <1>8 DEF FedOK, j
<1>10. Running' = Running /\ Running \in SUBSET Id
  BY <1>4, RunningTyped DEF Running
<1>11. page \in PageRecord
  BY NumbersAre
<1>12. l # current /\ current # None => link'[current] = link[current]
  BY <1>4, NumbersAre
<1>13. CASE m.t # "attached"
  <2>1. /\ page'.up = page.up /\ page'.orphans = page.orphans /\ page'.streamTo = page.streamTo
        /\ \/ page'.panes = page.panes /\ page'.painted = page.painted
           \/ m.t = "error" /\ page'.panes = page.panes \ {s} /\ page'.painted = page.painted \ {s}
    BY <1>4, <1>11, <1>13 DEF Gone, Patched, PageRecord
  <2>2. \A id \in Running : m.t = "error" => Scoped("there", id) # s
    BY <1>8 DEF Scoped
  <2>3. SamePanes(page, page', Running) /\ SameStreams(page, page', Running, Base + numbers.ours)
    BY <2>1, <2>2 DEF SamePanes, SameStreams
  <2>4. \A id : Heard(j.down, id) => Heard(k.down, id)
    <3> SUFFICES ASSUME NEW id, Heard(j.down, id) PROVE Heard(k.down, id)
      OBVIOUS
    <3>1. ~Accepts(k.down[1], id)
      BY <1>2, <1>13 DEF Accepts
    <3>2. \A no : Heard(k.down, id) <=> Heard(Tail(k.down), id) /\ ~Accepts(k.down[1], id)
      BY <1>1, LessAnswers
    <3> QED
      BY <1>7, <3>1, <3>2
  <2>5. current # None => LET i == link[current]
                              h == link'[current]
                          IN /\ h.attached = i.attached /\ h.focused = i.focused
                             /\ h.sock = "open" =>
                                  /\ i.sock = "open" /\ h.far = i.far /\ h.streams = i.streams /\ h.up = i.up
                                  /\ h.farFocus = i.farFocus /\ \A id : Heard(h.down, id) => Heard(i.down, id)
    BY <1>7, <1>12, <1>13, <2>4 DEF j, k
  <2> QED
    BY <1>4, <1>9, <1>10, <2>1, <2>3, <2>5, KeptFed DEF Apart
<1>14. CASE m.t = "attached" /\ k.mute
  <2>1. page' = page /\ l # current
    BY <1>4, <1>5, <1>14
  <2>2. SamePanes(page, page', Running) /\ SameStreams(page, page', Running, Base + numbers.ours)
    BY <2>1, SamePage
  <2> QED
    BY <1>4, <1>9, <1>10, <1>12, <2>1, <2>2, KeptFed DEF Apart
<1>15. CASE m.t = "attached" /\ ~k.mute
  <2>1. m.id \in Id /\ m.no \in Nat /\ s \in ScopedId
    BY <1>2, <1>15, ScopedIs DEF FromMachine, Machine
  <2>2. ours \in Nat /\ ours > Base + numbers.ours
    BY NumbersAre, Ids DEF OurNo
  <2>3. /\ page'.up = page.up /\ page'.panes = page.panes
        /\ page'.orphans = IF l = current THEN page.orphans ELSE page.orphans \cup {m.id}
        /\ page'.painted = page.painted \cup (page.panes \cap {s})
        /\ page'.streamTo = {e \in page.streamTo : e[2] # s /\ e[1] # ours} \cup {<<ours, s>>}
    <3>1. /\ named.up = page.up /\ named.panes = page.panes /\ named.orphans = page.orphans
          /\ named.painted = page.painted \cup (page.panes \cap {s})
          /\ named.streamTo = {e \in page.streamTo : e[2] # s /\ e[1] # ours} \cup {<<ours, s>>}
          /\ named \in PageRecord
      BY <1>11, <2>1, <2>2, AttachedOne
    <3> HIDE DEF named
    <3>2. page' = [named EXCEPT !.orphans = IF l = current THEN @ ELSE @ \cup {m.id}]
      BY <1>4, <1>15
    <3> QED
      BY <3>1, <3>2 DEF PageRecord
  <2> HIDE DEF ours, s, named
  <2>4. \A id : Scoped("there", id) = s => id = m.id
    BY DEF Scoped, s
  <2>5. CASE l # current
    <3>1. SamePanes(page, page', Running)
      BY <2>3, <2>5 DEF SamePanes
    <3>2. SameStreams(page, page', Running, Base + numbers.ours)
      <4>1. ASSUME NEW id \in Running \ page'.orphans, NEW no \in Nat, no <= Base + numbers.ours,
                   <<no, Scoped("there", id)>> \in page.streamTo
            PROVE  <<no, Scoped("there", id)>> \in page'.streamTo
        <5>1. Scoped("there", id) # s
          BY <2>3, <2>4, <2>5, <4>1
        <5>2. no # ours
          BY <2>2, <4>1, NumbersAre, Ids
        <5> QED
          BY <2>3, <4>1, <5>1, <5>2
      <4> QED
        BY <2>3, <4>1 DEF SameStreams
    <3> QED
      BY <1>4, <1>9, <1>10, <1>12, <2>3, <2>5, <3>1, <3>2, KeptFed DEF Apart
  <2>6. CASE l = current
    <3>1. current # None /\ link'[current] = j /\ k = link[current]
      BY <2>6, Ids DEF j, k
    <3>2. ASSUME page.up
          PROVE  PanesOK(k, Running, page) /\ (Apart /\ k.sock = "open" => OpenOK(k, Running, page))
      BY <3>1, <3>2 DEF FedOK
    <3>3. SamePanes(page, page', Running)
      BY <2>3, <2>6 DEF SamePanes
    <3>4. ASSUME page.up PROVE PanesOK(j, Running, page')
      BY <1>7, <3>2, <3>3, <3>4, PanesKept
    <3>5. ASSUME page.up, Apart, j.sock = "open" PROVE OpenOK(j, Running, page')
      <4>1. OpenOK(k, Running, page) /\ PanesOK(k, Running, page)
        BY <1>7, <3>2, <3>5
      <4>2. \A x \in k.streams : x.ours # ours
        BY <2>2, <3>1, <3>5, OursAre, NumbersAre, Ids
      <4>3. \A no \in Nat, id, as \in Id : Says(k, no, id) /\ Says(k, no, as) => id = as
        BY <1>6 DEF LifeOK
      <4>4. /\ \A x \in k.streams : x.theirs # m.no => x \in j.streams
            /\ \E x \in j.streams : x.theirs = m.no /\ x.id = m.id /\ x.ours = ours
        <5>1. stream \in j.streams /\ stream.theirs = m.no /\ stream.id = m.id /\ stream.ours = ours
          BY <1>7, <1>15
        <5> QED
          BY <1>7, <1>15, <5>1
      <4>5. /\ page'.orphans = page.orphans /\ page.painted \subseteq page'.painted
            /\ Scoped("there", m.id) \in page.panes => Scoped("there", m.id) \in page'.painted
            /\ <<ours, Scoped("there", m.id)>> \in page'.streamTo
            /\ \A e \in page.streamTo : e[1] # ours /\ e[2] # Scoped("there", m.id) => e \in page'.streamTo
        BY <2>3, <2>6 DEF s
      <4>6. /\ j.far = k.far /\ j.up = k.up /\ j.attached = k.attached /\ j.focused = k.focused
            /\ j.farFocus = k.farFocus /\ j.down = Tail(k.down)
        BY <1>7
      <4>7. m.t = "attached" /\ k \in LinkRecord /\ k.down # <<>> /\ AnsweredOK(k, Running) /\ m = k.down[1]
        BY <1>1, <1>2, <1>15
      <4> DEFINE q == page'
                 runs == Running
      <4> HIDE DEF stream, q, runs
      <4>8. OpenOK(j, runs, q)
        BY <1>2, <1>10, <2>1, <4>1, <4>2, <4>3, <4>4, <4>5, <4>6, <4>7, HeardOpen DEF q, runs
      <4> QED
        BY <4>8 DEF q, runs
    <3>6. Apart' => Apart
      BY <1>4 DEF Apart
    <3> QED
      BY <1>4, <1>9, <1>10, <2>3, <3>1, <3>4, <3>5, <3>6 DEF FedOK
  <2> QED
    BY <2>5, <2>6
<1> QED
  BY <1>13, <1>14, <1>15, <1>1 DEF LinkRecord

\* Another link, or none: what the last one had to attach is not claimed any more.
LEMMA SyncedFed ==
  ASSUME MachinesTypeOK, NEW p \in PageRecord, NEW key \in 0 .. MaxKey, Synced(p, link, key)
  PROVE  /\ StreamsOK /\ FedOK /\ UNCHANGED numbers /\ there'.runs = there.runs /\ p.up = page.up
         /\ p.orphans = page.orphans /\ p.panes = page.panes /\ p.painted = page.painted
         /\ p.streamTo = page.streamTo
         => FedOK'
<1> DEFINE new == [NoLink EXCEPT !.key = key, !.closed = FALSE, !.sock = "dialing"]
<1>1. \/ link' = link /\ current' = current /\ (~p.up \/ (current # None /\ link[current].key = key))
      \/ /\ p.up /\ (current = None \/ link[current].key # key) /\ current' = None
         /\ \A l \in Link : link'[l] = IF l = current THEN Disposed(link[l]) ELSE link[l]
      \/ /\ p.up /\ (current = None \/ link[current].key # key) /\ current' \in Link
         /\ \A l \in Link : link'[l] =
              IF l = current' THEN new ELSE IF l = current THEN Disposed(link[l]) ELSE link[l]
  BY SyncedLinks
<1> SUFFICES ASSUME StreamsOK, FedOK, UNCHANGED numbers, there'.runs = there.runs, p.up = page.up,
                    p.orphans = page.orphans, p.panes = page.panes, p.painted = page.painted,
                    p.streamTo = page.streamTo
             PROVE  FedOK'
  OBVIOUS
<1> DEFINE parts == current # None /\ link[current].key # key
<1>2. page' = IF parts THEN [p EXCEPT !.orphans = @ \cup link[current].attached] ELSE p
  BY DEF Synced
<1>3. /\ page'.up = page.up /\ page'.panes = page.panes /\ page'.painted = page.painted
      /\ page'.streamTo = page.streamTo
      /\ page'.orphans = IF parts THEN page.orphans \cup link[current].attached ELSE page.orphans
  BY <1>2 DEF PageRecord
<1>4. Running' = Running /\ (Apart' => Apart)
  BY DEF Running, Apart
<1>5. new.sock = "dialing" /\ new.attached = {} /\ new.focused = None /\ new.down = <<>> /\ new.far = {}
  BY DEF NoLink
<1> HIDE DEF new
<1>6. AnsweredOK(new, Running)
  BY <1>5, AnsweredNone
<1>7. CASE link' = link /\ current' = current /\ (~p.up \/ (current # None /\ link[current].key = key))
  <2>1. CASE ~p.up
    BY <1>2, <1>3, <1>4, <1>7, <2>1, AwayFed DEF FedOK
  <2>2. CASE current # None /\ link[current].key = key
    <3>1. page'.orphans = page.orphans
      BY <1>3, <2>2
    <3> QED
      BY <1>3, <1>7, <3>1, OtherStepFed, NumbersAre
  <2> QED
    BY <1>7, <2>1, <2>2
<1>8. ASSUME page.up, current = None \/ link[current].key # key PROVE NoPane(Running, page')
  <2>1. CASE current = None
    BY <1>3, <1>8, <2>1 DEF FedOK, NoPane
  <2>2. CASE parts
    <3>1. PanesOK(link[current], Running, page)
      BY <1>8, <2>2 DEF FedOK
    <3> QED
      BY <1>3, <2>2, <3>1 DEF NoPane, PanesOK
  <2> QED
    BY <1>8, <2>1, <2>2
<1>9. CASE /\ p.up /\ (current = None \/ link[current].key # key) /\ current' = None
            /\ \A l \in Link : link'[l] = IF l = current THEN Disposed(link[l]) ELSE link[l]
  <2>1. \A l \in Link : AnsweredOK(link'[l], Running)
    BY <1>9, AnsweredAll
  <2> QED
    BY <1>2, <1>4, <1>8, <1>9, <2>1 DEF FedOK
<1>10. CASE /\ p.up /\ (current = None \/ link[current].key # key) /\ current' \in Link
            /\ \A l \in Link : link'[l] = IF l = current' THEN new ELSE IF l = current THEN Disposed(link[l]) ELSE link[l]
  <2>1. \A l \in Link : AnsweredOK(link'[l], Running)
    BY <1>6, <1>10, AnsweredAll
  <2>2. link'[current'] = new
    BY <1>10
  <2>3. PanesOK(new, Running, page')
    <3>1. None \notin Running
      BY RunningTyped, Ids
    <3> QED
      BY <1>2, <1>5, <1>8, <1>10, <3>1 DEF PanesOK, NoPane
  <2>4. current' # None
    BY <1>10, Ids
  <2> QED
    BY <1>4, <1>5, <2>1, <2>2, <2>3, <2>4 DEF FedOK
<1> QED
  BY <1>1, <1>7, <1>9, <1>10

LEMMA LinksFed ==
  ASSUME MachinesTypeOK, StreamsOK, FedOK, Links \/ Unlinks
  PROVE  FedOK'
<1> DEFINE p == Invalidated(page)
<1>3. p \in PageRecord /\ p.up = page.up /\ p.orphans = page.orphans /\ p.panes = page.panes
      /\ p.painted = page.painted /\ p.streamTo = page.streamTo
  BY InvalidatedTyped, NumbersAre DEF Invalidated, PageRecord
<1>1. CASE Links
  <2> DEFINE token == there.given + 1
  <2>1. token \in 0 .. MaxKey
    BY <1>1, Ids DEF Links, MachinesTypeOK
  <2>2. Synced(p, link, token) /\ UNCHANGED numbers /\ there'.runs = there.runs
    BY <1>1 DEF Links, MachinesTypeOK
  <2> HIDE DEF token, p
  <2> QED
    BY <1>3, <2>1, <2>2, SyncedFed
<1>2. CASE Unlinks
  <2>1. None \in 0 .. MaxKey
    BY Ids DEF None
  <2>2. Synced(p, link, None) /\ UNCHANGED numbers /\ there'.runs = there.runs
    BY <1>2 DEF Unlinks
  <2> HIDE DEF p
  <2> QED
    BY <1>3, <2>1, <2>2, SyncedFed
<1> QED
  BY <1>1, <1>2

LEMMA InitFed == MachinesInit => FedOK
<1> SUFFICES ASSUME MachinesInit PROVE FedOK
  OBVIOUS
<1>1. AnsweredOK(NoLink, Running)
  BY AnsweredNone DEF NoLink
<1> QED
  BY <1>1 DEF MachinesInit, FedOK

LEMMA StepFed == MachinesTypeOK /\ StreamsOK /\ FedOK /\ [MachinesNext]_machinesVars => FedOK'
<1> SUFFICES ASSUME MachinesTypeOK, StreamsOK, FedOK, [MachinesNext]_machinesVars PROVE FedOK'
  OBVIOUS
<1>1. CASE UNCHANGED machinesVars
  BY <1>1, OtherStepFed DEF machinesVars
<1>2. CASE RelayNext
  <2>1. UNCHANGED gateway
    BY <1>2 DEF RelayNext
  <2>2. CASE Mounts \/ Unmounts \/ Focuses \/ PageReturns(servers)
    BY <2>2, MountsFed, UnmountsFed, FocusesFed, PageReturnsFed
  <2>3. CASE PageDrops
    BY <2>3, RelayGoneFed DEF PageDrops
  <2>4. ASSUME NEW l \in Link,
               LinkOpens(l) \/ LinkCloses(l) \/ LinkRetries(l) \/ FarTakes(l) \/ FarOutputs(l) \/ LinkHears(l, Known)
        PROVE  FedOK'
    BY <2>1, <2>4, LinkOpensFed, LinkClosesFed, LinkRetriesFed, FarTakesFed, FarOutputsFed, LinkHearsFed
  <2> QED
    BY <1>2, <2>2, <2>3, <2>4 DEF RelayNext
<1>3. CASE ReadStarts \/ (\E i \in DOMAIN reads : PeerAnswers(i) \/ ReadEnds(i))
           \/ PasswordChanges \/ Saves \/ TheirStarts
  <2>1. UNCHANGED <<link, current>>
    BY <1>3 DEF ReadStarts, PeerAnswers, ReadEnds, PasswordChanges, Saves, TheirStarts
  <2>2. there'.runs = there.runs /\ numbers'.near = numbers.near
    BY <1>3, NumbersAre DEF ReadStarts, PeerAnswers, ReadEnds, PasswordChanges, Saves, TheirStarts, MachinesTypeOK
  <2>3. /\ page'.up = page.up /\ page'.orphans = page.orphans /\ page'.panes = page.panes
        /\ page'.painted = page.painted /\ page'.streamTo = page.streamTo
    <3>1. CASE ReadStarts
      BY <3>1, NumbersAre DEF ReadStarts, PageRecord
    <3>2. CASE \E i \in DOMAIN reads : ReadEnds(i)
      <4>1. \E tabs, row : page' = [page EXCEPT !.tabs = tabs, !.row = row]
        BY <3>2 DEF ReadEnds
      <4> QED
        BY <4>1, NumbersAre DEF PageRecord
    <3>3. CASE (\E i \in DOMAIN reads : PeerAnswers(i)) \/ PasswordChanges \/ Saves \/ TheirStarts
      BY <3>3 DEF PeerAnswers, PasswordChanges, Saves, TheirStarts
    <3> QED
      BY <1>3, <3>1, <3>2, <3>3
  <2> QED
    BY <2>1, <2>2, <2>3, OtherStepFed
<1>4. CASE GatewayRestarts
  BY <1>4, RelayGoneFed DEF GatewayRestarts
<1> QED
  BY <1>1, <1>2, <1>3, <1>4, UnmountsFed, AttentionChangesFed, KillsFed, TheirStopsFed, LinksFed DEF MachinesNext

(***************************************************************************)
(* The theorems.                                                           *)
(***************************************************************************)

\* Every variable stays of its type, whatever is linked, lost and restarted (relay.ts,
\* workspace.ts).
THEOREM MachinesTyped == MachinesSpec => []MachinesTypeOK
BY InitTyped, StepTyped, PTL DEF MachinesSpec

\* Whose a link is, what the machine's numbers say on it and what the page's numbers are
\* of, in every state.
THEOREM StreamsHold == MachinesSpec => [](MachinesTypeOK /\ StreamsOK)
BY InitTyped, InitStreams, StepTyped, StepStreams, PTL DEF MachinesSpec

LEMMA StreamsReach == MachinesTypeOK /\ StreamsOK => OutputToOwner
<1> SUFFICES ASSUME MachinesTypeOK, StreamsOK, page.up, Apart PROVE
      /\ \A e \in near : Shows(e.no, Scoped("here", e.id))
      /\ \A l \in Link :
           ~link[l].mute /\ link[l].down # <<>> /\ Head(link[l].down).t = "output" =>
             \A no \in OursOf(l, Head(link[l].down).no) : Shows(no, Scoped("there", Head(link[l].down).id))
  BY DEF OutputToOwner
<1>1. NearOK /\ OursOK
  BY DEF StreamsOK
<1>2. ASSUME NEW l \in Link, ~link[l].mute, link[l].down # <<>>, Head(link[l].down).t = "output",
             NEW no \in OursOf(l, Head(link[l].down).no)
      PROVE  Shows(no, Scoped("there", Head(link[l].down).id))
  <2> DEFINE k == link[l]
             msg == Head(k.down)
  <2>1. PICK x \in k.streams : x.theirs = msg.no /\ no = x.ours
    BY <1>2 DEF OursOf
  <2>2. msg = k.down[1] /\ 1 \in 1 .. Len(k.down) /\ msg \in FromMachine
    BY <1>2, LinkTyped, OneLess
  <2>3. msg.id \in Id /\ msg.no \in Nat /\ x.id \in Id
    BY <1>2, <2>2, LinkTyped DEF FromMachine
  <2>4. Says(k, msg.no, msg.id) /\ Says(k, msg.no, x.id)
    BY <1>2, <2>1, <2>2 DEF Says, Naming
  <2>5. LifeOK(k, numbers.theirs, there.up)
    BY DEF StreamsOK, Lives
  <2>6. x.id = msg.id
    BY <2>3, <2>4, <2>5 DEF LifeOK
  <2> QED
    BY <1>1, <1>2, <2>1, <2>6 DEF OursOK
<1> QED
  BY <1>1, <1>2 DEF NearOK

\* What a session prints is shown in its own terminal and in no other, whichever machine
\* it runs on and whoever counted the number it came under, until this machine's engine
\* has counted to the numbers the relays give (relay.ts:31, 134, 156).
THEOREM OutputReachesOwner == MachinesSpec => []OutputToOwner
BY StreamsHold, StreamsReach, PTL

LEMMA FedReach == MachinesTypeOK /\ FedOK => Fed
<1> SUFFICES ASSUME MachinesTypeOK, FedOK, Settled PROVE
      /\ \A s \in page.panes :
           s[1] = "there" /\ s[2] \in DOMAIN there.runs \ page.orphans => FedBy(current, s)
      /\ \A e \in link[current].far : Scoped("there", e.id) \in page.panes
      /\ link[current].focused \in DOMAIN there.runs \ page.orphans =>
           link[current].farFocus = link[current].focused
  BY DEF Fed
<1> DEFINE k == link[current]
<1>1. PanesOK(k, Running, page) /\ OpenOK(k, Running, page) /\ k.up = <<>> /\ k.down = <<>>
  BY DEF FedOK, Settled
<1>2. \A id, has : /\ WillHold(<<>>, id, has) <=> has
                   /\ ~WillFocus(<<>>, id, has) /\ Unclaimed(<<>>, id) /\ Heard(<<>>, id)
  BY DEF WillHold, WillFocus, Unclaimed, Heard, Detached
<1> HIDE DEF k
<1>3. ASSUME NEW id \in Running PROVE id \in k.attached <=> Held(k, id)
  BY <1>1, <1>2 DEF OpenOK
<1>4. ASSUME NEW s \in page.panes, s[1] = "there", s[2] \in Running \ page.orphans PROVE FedBy(current, s)
  <2>1. s = Scoped("there", s[2])
    BY <1>4, NumbersAre, ScopedTyped DEF PageRecord
  <2>2. s[2] \in k.attached
    BY <1>1, <1>4, <2>1 DEF PanesOK
  <2>3. PICK e \in k.far : e.id = s[2]
    BY <1>3, <1>4, <2>2 DEF Held
  <2>4. Feeds(k, e, page)
    BY <1>1, <1>2, <1>4, <2>2, <2>3 DEF OpenOK
  <2> QED
    BY <2>1, <2>3, <2>4 DEF Feeds, FedBy, k
<1>5. ASSUME NEW e \in k.far PROVE Scoped("there", e.id) \in page.panes
  <2>1. e.id \in Running /\ Held(k, e.id)
    BY <1>1 DEF OpenOK, Held
  <2> QED
    BY <1>1, <1>3, <2>1 DEF PanesOK
<1>6. k.focused \in Running \ page.orphans => k.farFocus = k.focused
  BY <1>1, <1>2 DEF OpenOK
<1> QED
  BY <1>4, <1>5, <1>6 DEF Running, k

\* However the machine, the line, the page and the gateway go and come, once nothing is on
\* its way every pane this link mounted and answered shows its session, none is attached
\* without a pane, and the session clicked last has the keyboard (relay.ts:46-68, 92-97,
\* 199-226).
THEOREM PanesStayFed == MachinesSpec => []Fed
<1>1. MachinesInit => MachinesTypeOK /\ StreamsOK /\ FedOK
  BY InitTyped, InitStreams, InitFed
<1>2. MachinesTypeOK /\ StreamsOK /\ FedOK /\ [MachinesNext]_machinesVars => (MachinesTypeOK /\ StreamsOK /\ FedOK)'
  BY StepTyped, StepStreams, StepFed
<1> QED
  BY <1>1, <1>2, FedReach, PTL DEF MachinesSpec
=============================================================================
