------------------------------- MODULE MCUpdate -------------------------------
EXTENDS Update, TLC
CONSTANTS p1, p2, nobody, a1, none
AllFates == {f \in [0 .. Newest -> Fate] : f[0] = "good"}
Lockfiles == [c \in 0 .. Newest |-> IF c = 0 THEN 0 ELSE 1]
Of(push, hand, pull, fault, read, click, other, type, old, dead) ==
  [w \in Outside |->
    CASE w = "push" -> push [] w = "hand" -> hand [] w = "pull" -> pull [] w = "fault" -> fault
      [] w = "read" -> read [] w = "click" -> click [] w = "other" -> other
      [] w = "typed" -> type [] w = "old" -> old [] w = "dead" -> dead]

(* One pull after another: bad commits, hands and faults; the page and its *)
(* clicks; several that ask at once; pulls that meet over the lock.        *)
Mixes == { Of(2, 1, 0, 1, 3, 0, 0, 0, 1, 0),
           Of(1, 0, 0, 1, 3, 2, 0, 0, 0, 0),
           Of(1, 0, 0, 0, 1, 1, 2, 1, 0, 0),
           Of(1, 0, 2, 0, 1, 0, 0, 0, 0, 1) }
=============================================================================
