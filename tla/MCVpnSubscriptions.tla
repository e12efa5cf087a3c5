-------------------------- MODULE MCVpnSubscriptions --------------------------
(* VpnSubscriptions on small instances.                                      *)
EXTENDS VpnSubscriptions

CONSTANTS u1, n1, n2, c1, c2

AllPaidByFirst == [c \in Charges |-> u1]

===============================================================================
