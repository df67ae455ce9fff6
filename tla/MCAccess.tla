------------------------------ MODULE MCAccess ------------------------------
(* Four scenarios, by what happens from outside.                          *)
EXTENDS Access

Of(few) == [w \in Outside |-> IF w \in DOMAIN few THEN few[w] ELSE 0]

(* A flood of guesses over two decay periods. *)
Flood == Of([tick |-> 6, guesser |-> 3, gateway |-> 2])
(* One page: it signs in and out, the server restarts, requests are lost.  *)
OnePage == Of([tick |-> 3, page |-> 1, restart |-> 1, mount |-> 1, refresh |-> 1, out |-> 1, drop |-> 1])
(* The password changes under a page and a gateway. *)
Change == Of([tick |-> 6, page |-> 1, gateway |-> 1, fault |-> 1, change |-> 1, dial |-> 1, mount |-> 1])
(* A page is left open until its session runs out. *)
Week == Of([tick |-> 7, refresh |-> 1, mount |-> 1])

MCLimits == {Flood, OnePage, Change, Week}
=============================================================================
