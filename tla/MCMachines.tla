------------------------------ MODULE MCMachines ------------------------------
EXTENDS Machines, TLC

CONSTANTS a, b

Of(few) == [o \in Happening |-> IF o \in DOMAIN few THEN few[o] ELSE 0]

MCLimits == {
  Of([mount |-> 2, unmount |-> 1, focus |-> 1, output |-> 1, stop |-> 1]),
  Of([mount |-> 2, output |-> 1, drop |-> 1]),
  Of([mount |-> 1, output |-> 1, line |-> 1, overlap |-> 1]),
  Of([mount |-> 1, link |-> 1, unlink |-> 1, password |-> 1]),
  Of([mount |-> 2, unmount |-> 1, link |-> 1]),
  Of([restart |-> 1, stop |-> 1, unlink |-> 1, link |-> 1, overlap |-> 1]),
  Of([mount |-> 1, kill |-> 1, attention |-> 1, overlap |-> 1]) }
=============================================================================
