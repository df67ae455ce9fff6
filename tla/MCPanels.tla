------------------------------ MODULE MCPanels ------------------------------
(* The panels and dialogs that read a machine and follow it, each in mixes  *)
(* of its own: of the four, the one its mix is for is alive in a behaviour. *)
EXTENDS Files, Changes, Opening, Usage, TLC

CONSTANTS a, b, here, box, home, proj, sub, anna, bert

vars == <<filesVars, changesVars, openingVars, usageVars, left>>

(***************************************************************************)
(* Files: two of them.                                                     *)
(***************************************************************************)
FilesMixes == {
  \* edited, saved and switched between, while the agent writes;
  [agent |-> 1, type |-> 1, pick |-> 3, save |-> 1],
  \* one, with what restarts its read; and one typed into while it is saved;
  [agent |-> 2, type |-> 1, nudge |-> 1, save |-> 1],
  [agent |-> 1, type |-> 2, save |-> 1],
  [agent |-> 1, type |-> 1, hide |-> 1, save |-> 2, discard |-> 1],
  \* a file that goes and comes, removed by the agent and dropped in;
  [agent |-> 0, remove |-> 1, drop |-> 1, type |-> 1, pick |-> 1, save |-> 1],
  \* requests that fail.
  [agent |-> 1, type |-> 1, pick |-> 1, nudge |-> 1, save |-> 1, fault |-> 1]}
FilesAlive == "agent" \in DOMAIN left

(***************************************************************************)
(* Changes: edits undone, committed, amended; a base that goes; failures.  *)
(***************************************************************************)
ChangesMixes == {
  [edit |-> 2, undo |-> 1, commit |-> 1, select |-> 2, late |-> 1],
  [edit |-> 2, commit |-> 1, amend |-> 1, select |-> 2, late |-> 1],
  [edit |-> 1, commit |-> 1, gone |-> 1, turn |-> 2, select |-> 1, late |-> 1],
  [edit |-> 1, commit |-> 1, fault |-> 2, select |-> 2, late |-> 1]}
ChangesAlive == "edit" \in DOMAIN left

(***************************************************************************)
(* Opening: a path typed with no author at first; machines switched; one    *)
(* linked and forgotten; a disk that changes; a dialog put up twice.        *)
(***************************************************************************)
ParentOf == [p \in Dir |-> IF p = home THEN Nil ELSE IF p = proj THEN home ELSE proj]

Disks(at, below) == [p \in Dir |-> IF p = home THEN PlainDir ELSE IF p = proj THEN at ELSE below]
Missing == Disks(NoDir, NoDir)
Plain == Disks(PlainDir, NoDir)
Folder == Disks(PlainDir, RepoAt(sub))
Inside == Disks(RepoAt(proj), PlainDir)

Scene(d, e, who, peers, open) ==
  [dirs |-> [m \in Machine |-> IF m = here THEN d ELSE e], author |-> who, linked |-> peers,
   projects |-> open]
NoneOpen == [m \in Machine |-> {}]
OneOpen == [m \in Machine |-> IF m = here THEN {} ELSE {[root |-> sub, kind |-> "git"]}]
BothOpen == [m \in Machine |-> {[root |-> proj, kind |-> "folder"]}]
Alone(d, who) == Scene(d, Missing, who, {}, NoneOpen)

Authorless == [put |-> 1, type |-> 1, open |-> 2, confirm |-> 1, author |-> 1, back |-> 1]
Switching == [put |-> 1, chip |-> 2, browse |-> 1, open |-> 1, confirm |-> 1]
Linking == [put |-> 1, link |-> 1, forget |-> 1, open |-> 1, confirm |-> 1]
Failing == [put |-> 1, link |-> 1, fault |-> 1]
Moving == [put |-> 1, type |-> 1, open |-> 1, confirm |-> 1, clone |-> 1, delete |-> 1]
Twice == [put |-> 2, close |-> 1, open |-> 1, cancel |-> 1, elsewhere |-> 1]
Racing == [put |-> 2, type |-> 2, open |-> 2, confirm |-> 1, cancel |-> 1]

OpeningMixes == {Authorless, Switching, Linking, Failing, Moving, Twice, Racing}
OpeningAlive == "put" \in DOMAIN left

(***************************************************************************)
(* Usage: two machines of two accounts; a page behind another; failures.    *)
(***************************************************************************)
UsageMixes == {
  [use |-> 1, tab |-> 2, client |-> 1],
  [use |-> 1, unread |-> 1, client |-> 1, silent |-> 1, lost |-> 1]}
UsageAlive == "use" \in DOMAIN left
Order == <<here, box>>
AccountOf == (here :> anna) @@ (box :> bert)

-----------------------------------------------------------------------------
Mixes == FilesMixes \cup ChangesMixes \cup OpeningMixes \cup UsageMixes

SceneOf == [l \in Mixes |->
  CASE l = Authorless -> {Alone(d, {}) : d \in {Missing, Plain, Folder, Inside}}
    [] l = Switching -> {Scene(Missing, Plain, Machine, {box}, NoneOpen), Scene(Folder, Missing, Machine, {box}, NoneOpen)}
    [] l \in {Linking, Failing} -> {Scene(Missing, Folder, Machine, {}, NoneOpen), Scene(Missing, Folder, Machine, {}, OneOpen),
                       Scene(Plain, Missing, Machine, {box}, NoneOpen)}
    [] l = Moving -> {Alone(d, Machine) : d \in {Missing, Plain, Folder}}
    [] l = Twice -> {Scene(Folder, Folder, Machine, {box}, BothOpen)}
    [] OTHER -> {Alone(Missing, {})}]

Init ==
  /\ left \in Limits
  /\ FilesInit(IF FilesAlive THEN Path \cup {None} ELSE {None})
  /\ ChangesInit(ChangesAlive) /\ OpeningInit /\ UsageInit

Next ==
  \/ FilesAlive /\ FilesNext /\ UNCHANGED <<changesVars, openingVars, usageVars>>
  \/ ChangesAlive /\ ChangesNext /\ UNCHANGED <<filesVars, openingVars, usageVars>>
  \/ OpeningAlive /\ OpeningNext /\ UNCHANGED <<filesVars, changesVars, usageVars>>
  \/ UsageAlive /\ UsageNext /\ UNCHANGED <<filesVars, changesVars, openingVars>>

Spec == Init /\ [][Next]_vars

\* Node and git answer every request, the browser hears every answer, and its
\* intervals go on; git is not slower than the interval for ever (`late`). Of
\* people and the agent nothing is assumed.
Fairness ==
  /\ WF_filesVars(Polls) /\ WF_filesVars(ServerReads(1)) /\ WF_filesVars(ReadArrives(1))
  /\ WF_filesVars(SaveChecked(1)) /\ WF_filesVars(SaveWrites(1)) /\ WF_filesVars(SaveStats(1))
  /\ WF_filesVars(SaveArrives(1))
  /\ WF_changesVars(ChangesAlive /\ PollsGit)
  /\ WF_changesVars(ReadsListing) /\ WF_changesVars(ReadsDiff)
  /\ WF_changesVars(ListingArrives) /\ WF_changesVars(PatchArrives)

FairSpec == Spec /\ Fairness
=============================================================================
