------------------------------- MODULE MCRow -------------------------------
(* A small instance of Row for TLC.                                        *)
EXTENDS Row

TwoWindows == <<"a", "b">>

Start(awake, terms, queued, panels) ==
  [awake |-> awake, terms |-> [w \in Worktree |-> IF w \in terms THEN 1 ELSE 0],
   queued |-> queued, panels |-> panels, files |-> [w \in Worktree |-> w = "b"],
   where |-> "a"]

Mix(kinds) == [k \in Outside |-> IF k \in kinds THEN 1 ELSE 0]

Panels(a, b) == [w \in Worktree |-> IF w = "a" THEN a ELSE b]

TwoStarts ==
  {Start(Worktree, {"a"}, {"b"}, Panels("terminals", "todo")),
   Start(Worktree, {"b"}, {}, Panels("files", "none"))}

\* What happens from outside, once each, a few kinds at a time.
Mixes ==
  {Mix(kinds) : kinds \in
     {{"sleep", "wake", "exit"}, {"sleep", "wake", "fault"}, {"remove", "other"},
      {"remove", "step", "tab"}, {"sleep", "remove"}, {"toggle", "file", "days", "reload"},
      {"toggle", "exit", "fault"}, {"drain", "step", "toggle"}, {"close", "exit", "drain"},
      {"drop", "other", "days"}}}

\* A socket lost, and another page's request.
Missing == {Mix({"drop", "other"})}
=============================================================================
