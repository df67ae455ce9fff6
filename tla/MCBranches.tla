----------------------------- MODULE MCBranches -----------------------------
(* Small instances of Branches for TLC.                                    *)
EXTENDS Branches

CONSTANTS r1, r2

Mix(some) == [k \in Outside |-> IF k \in DOMAIN some THEN some[k] ELSE 0]
Of(some, removals, named, remote) ==
  [often |-> Mix(some), removals |-> removals, named |-> named, remote |-> remote]

\* Work that is pushed and lands, while the worktree is removed.
Shared == Of([edit |-> 2, agent |-> 2, merge |-> 1, sync |-> 1], {r1}, TRUE, TRUE)

\* A colleague on the same branch, and a remote that may not answer.
Colleague == Of([edit |-> 1, agent |-> 1, colleague |-> 2, merge |-> 1, sync |-> 2, offline |-> 1], {r1}, TRUE, TRUE)

\* Two pages remove it; it is made again.
TwoPages == Of([edit |-> 1, agent |-> 2, create |-> 1], {r1, r2}, TRUE, TRUE)
Again == Of([edit |-> 2, agent |-> 1, sync |-> 1, create |-> 1], {r1}, TRUE, TRUE)

\* What git refuses, or cannot say.
Refusing == Of([edit |-> 2, lock |-> 2, silence |-> 2, detach |-> 1], {r1}, TRUE, TRUE)

\* A repository without a default branch, or which gets a remote late.
Alone == Of([edit |-> 2, agent |-> 1, merge |-> 1, sync |-> 2], {r1}, FALSE, FALSE)
Local == Of([edit |-> 2, agent |-> 1, merge |-> 1, sync |-> 2], {r1}, TRUE, FALSE)

Mixes == {Shared, Colleague, TwoPages, Again, Refusing, Alone, Local}
=============================================================================
