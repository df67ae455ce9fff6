----------------------------- MODULE MCAttention -----------------------------
(* Small instances of Attention for TLC.                                   *)
EXTENDS Attention

\* Screens as they were captured, few rows of each kind.
Screens == [
  rest |-> {<<"banner", "rule", "box">>, <<"said", "done", "rule", "box", "chrome">>,
            <<"done", "said", "cont", "rule", "box">>, <<"done", "recap", "cont", "rule", "box">>},
  turn |-> {<<"said", "done", "asked", "timer", "rule", "box">>, <<"done", "asked", "said", "phrase", "rule", "box">>},
  dialog |-> {<<"done", "asked", "said", "pick", "option", "cont">>, <<"done", "said", "choice", "footer">>},
  gone |-> {<<"cont">>}]

Mix(watched, starts, some) ==
  [watched |-> watched, starts |-> starts, coarse |-> FALSE,
   often |-> [k \in Events |-> IF k \in DOMAIN some THEN some[k] ELSE 0]]

New == [lines |-> <<>>, doing |-> "rest", face |-> Empty, adopted |-> FALSE]
Adopted == [lines |-> <<"task", "end">>, doing |-> "rest", adopted |-> TRUE,
            face |-> <<"said", "done", "rule", "box", "chrome">>]
Midway == [lines |-> <<"task">>, doing |-> "turn", adopted |-> TRUE,
           face |-> <<"done", "asked", "said", "phrase", "rule", "box">>]
Waiting == [lines |-> <<"task">>, doing |-> "dialog", adopted |-> TRUE,
            face |-> <<"done", "asked", "said", "pick", "option", "cont">>]

Written(lines) == [New EXCEPT !.lines = lines]
Some == {Written(<<"task", "say", "steer", "end">>), Written(<<"say", "end", "stamp">>)}
\* The task is further back than the narrow window, or the wide one, reaches.
Long == {Written(<<"task", "end", "say", "end">>), Written(<<"task", "tool", "steer", "steer", "end">>)}

\* Two listings at once, over what a session writes and a second transcript.
Growing == Mix(FALSE, Some, [ask |-> 1, steer |-> 1, end |-> 1, half |-> 1, listing |-> 3])
Answering == Mix(FALSE, Some, [ask |-> 1, dialog |-> 1, end |-> 1, listing |-> 2])
Reaching == Mix(FALSE, Long, [ask |-> 2, stamp |-> 1, end |-> 1, listing |-> 2])
Cleared == Mix(FALSE, Some, [ask |-> 1, end |-> 1, clear |-> 1, half |-> 1, listing |-> 3])
Failing == Mix(FALSE, Long, [ask |-> 1, local |-> 1, unreadable |-> 1, listing |-> 2])

\* The label, and what could make it wrong.
Turns == Mix(TRUE, {[Adopted EXCEPT !.adopted = FALSE]}, [ask |-> 1, end |-> 1])
Slipping == [Mix(TRUE, {Midway}, [end |-> 1, paint |-> 1]) EXCEPT !.coarse = TRUE]
Dialogs == Mix(TRUE, {Waiting}, [resize |-> 1])
Resting == Mix(TRUE, {New, Adopted}, [local |-> 1, paint |-> 1])
Stirring == Mix(TRUE, {Adopted}, [tool |-> 1, end |-> 1])
Dying == Mix(TRUE, {Midway}, [end |-> 1, die |-> 1])
Blinded == Mix(TRUE, {Midway}, [end |-> 1, unreadable |-> 1])

Mixes == {Growing, Answering, Reaching, Cleared, Failing, Turns, Slipping, Dialogs, Resting, Stirring, Dying, Blinded}

WindowLines == <<2, 4>>
=============================================================================
