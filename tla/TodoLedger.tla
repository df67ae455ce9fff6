----------------------------- MODULE TodoLedger -----------------------------
(***************************************************************************)
(* What the queue promises about one prompt, whatever restarts, failed     *)
(* writes and lost ptys come between: each time a human asks, the prompt   *)
(* is typed at most once and submitted at most once, in that order; and    *)
(* the queue may always decide not to.                                     *)
(***************************************************************************)
EXTENDS Naturals

CONSTANT Todo

VARIABLES
  requests, \* how often a human asked for the todo to run
  pastes,   \* how often its prompt was written to a terminal
  returns   \* how often Return was pressed on it

ledger == <<requests, pastes, returns>>

\* What was asked for before may still be in the file.
Init ==
  /\ requests \in [Todo -> Nat]
  /\ pastes = [t \in Todo |-> 0]
  /\ returns = [t \in Todo |-> 0]

Ask(t) ==
  /\ requests' = [requests EXCEPT ![t] = @ + 1]
  /\ UNCHANGED <<pastes, returns>>

\* Only against a request not yet spent.
Type(t) ==
  /\ pastes[t] < requests[t]
  /\ pastes' = [pastes EXCEPT ![t] = @ + 1]
  /\ UNCHANGED <<requests, returns>>

\* Only what was typed, and each typing once.
Submit(t) ==
  /\ returns[t] < pastes[t]
  /\ returns' = [returns EXCEPT ![t] = @ + 1]
  /\ UNCHANGED <<requests, pastes>>

Next == \E t \in Todo : Ask(t) \/ Type(t) \/ Submit(t)

Spec == Init /\ [][Next]_ledger

\* Typed at most once per request, submitted at most once per typing.
AtMostOnce == \A t \in Todo : returns[t] <= pastes[t] /\ pastes[t] <= requests[t]
=============================================================================
