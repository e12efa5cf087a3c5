--------------------------- MODULE PurchaseContract ---------------------------
(***************************************************************************)
(* What a payment provider integration promises, whatever the provider:    *)
(* money that was taken for a transaction is turned into the purchased     *)
(* result exactly once, the provider is told "done" and the buyer is told  *)
(* "delivered" only after the result exists, and a charge is never         *)
(* forgotten.  The provider modules refine this one.                       *)
(***************************************************************************)
EXTENDS Naturals

CONSTANT Txns          \* provider transactions

VARIABLES charged,     \* transactions the buyer's money was taken for
          grants,      \* how many times each transaction's result was granted
          settled,     \* charges the provider was told are done
          announced    \* transactions whose result the buyer was told of

vars == <<charged, grants, settled, announced>>

Init == /\ charged = {}
        /\ grants = [t \in Txns |-> 0]
        /\ settled = {}
        /\ announced = {}

Charge(t) == /\ charged' = charged \union {t}
             /\ UNCHANGED <<grants, settled, announced>>

Grant(t) == /\ t \in charged
            /\ grants[t] = 0
            /\ grants' = [grants EXCEPT ![t] = 1]
            /\ UNCHANGED <<charged, settled, announced>>

Settle(t) == /\ t \in charged
             /\ grants[t] = 1
             /\ settled' = settled \union {t}
             /\ UNCHANGED <<charged, grants, announced>>

Announce(t) == /\ grants[t] = 1
               /\ announced' = announced \union {t}
               /\ UNCHANGED <<charged, grants, settled>>

Next == \E t \in Txns : Charge(t) \/ Grant(t) \/ Settle(t) \/ Announce(t)

Safety == Init /\ [][Next]_vars

\* A charge is not left waiting for ever once nothing but the grant is missing.
Spec == Safety /\ \A t \in Txns : WF_vars(Grant(t))
===============================================================================
