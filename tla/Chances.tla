------------------------------ MODULE Chances ------------------------------
(* What comes from outside a panel: how often each thing happens, one mix  *)
(* a behaviour.                                                            *)
EXTENDS Naturals

CONSTANT Limits

ASSUME ChancesAssumption == \A l \in Limits : \A k \in DOMAIN l : l[k] \in Nat

VARIABLE left

Spends(k) ==
  /\ k \in DOMAIN left /\ left[k] > 0
  /\ left' = [left EXCEPT ![k] = @ - 1]
=============================================================================
