-------------------------- MODULE MCTerminalStream --------------------------
(* A small instance of TerminalStream for TLC: one page with a window and a *)
(* tile of the session, or two machines with a window each.                *)
EXTENDS TerminalStream

CONSTANTS here, there, window, tile, other

PageOfView == [v \in {window, tile, other} |-> IF v = other THEN there ELSE here]
RoomOfView == [v \in {window, tile, other} |-> IF v = window THEN 80 ELSE 120]
TwoSockets == [p \in {here, there} |-> IF p = here THEN 1 ELSE 2]
Bounds == [k \in Outside |-> IF k = "mount" THEN 2 ELSE 1]

\* Either a page's views come and go and its socket drops while output is
\* printed, or two machines take the size and the keyboard from each other.
VARIABLE scene

Kept(kinds) == \A k \in kinds : left'[k] = left[k]

OnePage ==
  /\ mounted' \subseteq {window, tile}
  /\ sock'[there] = sock[there]
  /\ wire'[First[there]] = "open"
  /\ Kept({"focus", "resize"})

TwoMachines ==
  /\ mounted' \subseteq {window, other}
  /\ produced' = produced
  /\ Kept({"unmount"})

SceneInit == Init /\ scene \in {"one page", "two machines"}

SceneNext ==
  /\ Next
  /\ scene = "one page" => OnePage
  /\ scene = "two machines" => TwoMachines
  /\ UNCHANGED scene

SceneSpec == SceneInit /\ [][SceneNext]_<<vars, scene>>
=============================================================================
