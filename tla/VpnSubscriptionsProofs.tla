------------------------- MODULE VpnSubscriptionsProofs -------------------------
(***************************************************************************)
(* What VpnSubscriptions promises, for any users, nodes, charges and        *)
(* bounds: only a renewal that overtook a running expiry, or the            *)
(* administrator, switches off a subscription with time left; states are    *)
(* well typed; and a settled node lets in exactly who it should.            *)
(***************************************************************************)
EXTENDS VpnSubscriptions, FiniteSetTheorems, TLAPS

\* The rows, as far as the argument needs them.
RowType == /\ sub \in [Users -> [creds : Nat, live : BOOLEAN, left : Nat]]
           /\ expiry \in [step : {"idle", "update"}, subs : SUBSET Users, admin : BOOLEAN]

\* What the beat's expiry has read is over, or was renewed since.
ReadIsOver ==
  \A u \in expiry.subs : ~expiry.admin => sub[u].left = 0 \/ u \in overtaken

PaidInv == RowType /\ ReadIsOver /\ OnlyOvertakenRenewalsAreLost

LEMMA PaidInit == Init => PaidInv
BY DEF Init, PaidInv, RowType, ReadIsOver, OnlyOvertakenRenewalsAreLost, NoSub, NoCreds,
       NoExpiry

\* A step that changes neither the rows nor the expiry.
LEMMA PaidFrame ==
  ASSUME PaidInv, UNCHANGED <<sub, expiry, closed, overtaken>>
  PROVE  PaidInv'
BY DEF PaidInv, RowType, ReadIsOver, OnlyOvertakenRenewalsAreLost

\* A purchase switches its subscription on and marks a renewal that overtakes.
LEMMA PaidByPurchase ==
  ASSUME PaidInv, NEW c \in Charges, FulfillPurchase(c)
  PROVE  PaidInv'
<1> DEFINE u == PaidBy[c]
<1>1. u \in Users
  BY ChargesAssumption
<1>2. Extended(u) \in [creds : Nat, live : BOOLEAN, left : Nat] /\ Extended(u).live
  BY <1>1 DEF Extended, PaidInv, RowType, NoCreds
<1>3. /\ sub' = [sub EXCEPT ![u] = Extended(u)]
      /\ closed' = closed \ {u}
      /\ overtaken' = IF u \in expiry.subs THEN overtaken \union {u} ELSE overtaken
      /\ expiry' = expiry
  BY DEF FulfillPurchase, RequestFrame
<1> HIDE DEF u
<1>4. /\ \A i \in Users : i # u => sub'[i] = sub[i]
      /\ sub'[u].live
  BY <1>1, <1>2, <1>3 DEF PaidInv, RowType
<1>5. RowType'
  BY <1>1, <1>2, <1>3 DEF PaidInv, RowType
<1>6. ReadIsOver'
  BY <1>3, <1>4 DEF PaidInv, RowType, ReadIsOver
<1>7. OnlyOvertakenRenewalsAreLost'
  BY <1>3, <1>4 DEF PaidInv, OnlyOvertakenRenewalsAreLost
<1> QED
  BY <1>5, <1>6, <1>7 DEF PaidInv

\* Reissuing changes the credentials, a period that passes the time left.
LEMMA PaidByRequest ==
  ASSUME PaidInv, NEW u \in Users, ReadForReissue(u) \/ SaveReissue(u) \/ Lapse(u)
  PROVE  PaidInv'
<1>1. CASE ReadForReissue(u)
  BY <1>1, PaidFrame DEF ReadForReissue, RequestFrame, historyVars
<1>2. CASE SaveReissue(u) \/ Lapse(u)
  <2>1. UNCHANGED <<expiry, closed, overtaken>>
    BY <1>2 DEF SaveReissue, Lapse, RequestFrame, historyVars
  <2>2. sub' \in [Users -> [creds : Nat, live : BOOLEAN, left : Nat]]
    BY <1>2 DEF SaveReissue, Lapse, PaidInv, RowType
  <2>3. \A i \in Users : /\ sub'[i].live = sub[i].live
                         /\ sub'[i].left > 0 => sub[i].left > 0
                         /\ sub[i].left = 0 => sub'[i].left = 0
    BY <1>2 DEF SaveReissue, Lapse, PaidInv, RowType
  <2> QED
    BY <2>1, <2>2, <2>3 DEF PaidInv, RowType, ReadIsOver, OnlyOvertakenRenewalsAreLost
<1> QED
  BY <1>1, <1>2

\* An expiry reads subscriptions that are over, or is the administrator's.
LEMMA PaidByReading ==
  ASSUME PaidInv, ReadExpired \/ \E u \in Users : ReadSelected(u)
  PROVE  PaidInv'
<1>1. UNCHANGED <<sub, closed, overtaken>>
  BY DEF ReadExpired, ReadSelected, rowVars, historyVars
<1>2. /\ expiry' \in [step : {"idle", "update"}, subs : SUBSET Users, admin : BOOLEAN]
      /\ \A u \in expiry'.subs : ~expiry'.admin => sub[u].left = 0
  <2>1. CASE ReadExpired
    <3>1. PICK expired \in SUBSET Users :
            /\ expired = {u \in Users : sub[u].live /\ sub[u].left = 0}
            /\ expiry' = [step |-> "update", subs |-> expired, admin |-> FALSE]
      BY <2>1 DEF ReadExpired
    <3> QED
      BY <3>1
  <2>2. CASE \E u \in Users : ReadSelected(u)
    <3>1. PICK u \in Users : expiry' = [step |-> "update", subs |-> {u}, admin |-> TRUE]
      BY <2>2 DEF ReadSelected
    <3> QED
      BY <3>1
  <2> QED
    BY <2>1, <2>2
<1> QED
  BY <1>1, <1>2 DEF PaidInv, RowType, ReadIsOver, OnlyOvertakenRenewalsAreLost

\* The update switches off what was read: over, overtaken, or closed.
LEMMA PaidByDeactivation ==
  ASSUME PaidInv, Deactivate
  PROVE  PaidInv'
<1>1. /\ sub' = [u \in Users |-> [sub[u] EXCEPT !.live = @ /\ u \notin expiry.subs]]
      /\ closed' = IF expiry.admin THEN closed \union expiry.subs ELSE closed
      /\ expiry' = NoExpiry
      /\ overtaken' = overtaken
  BY DEF Deactivate
<1>2. \A u \in Users : /\ sub'[u] \in [creds : Nat, live : BOOLEAN, left : Nat]
                       /\ sub'[u].left = sub[u].left
                       /\ u \notin expiry.subs => sub'[u].live = sub[u].live
  <2> SUFFICES ASSUME NEW u \in Users
               PROVE  /\ sub'[u] \in [creds : Nat, live : BOOLEAN, left : Nat]
                      /\ sub'[u].left = sub[u].left
                      /\ u \notin expiry.subs => sub'[u].live = sub[u].live
    OBVIOUS
  <2>1. sub[u] \in [creds : Nat, live : BOOLEAN, left : Nat]
    BY DEF PaidInv, RowType
  <2>2. sub'[u] = [sub[u] EXCEPT !.live = @ /\ u \notin expiry.subs]
    BY <1>1
  <2> QED
    BY <2>1, <2>2
<1>3. RowType'
  <2>1. sub' = [u \in Users |-> sub'[u]]
    BY <1>1
  <2>2. expiry' \in [step : {"idle", "update"}, subs : SUBSET Users, admin : BOOLEAN]
    BY <1>1 DEF NoExpiry
  <2> QED
    BY <1>2, <2>1, <2>2 DEF RowType
<1>4. ReadIsOver'
  BY <1>1 DEF ReadIsOver, NoExpiry
<1>5. OnlyOvertakenRenewalsAreLost'
  <2> SUFFICES ASSUME NEW u \in Users, sub[u].left > 0, u \notin closed', u \notin overtaken
               PROVE  sub'[u].live
    BY <1>1, <1>2 DEF OnlyOvertakenRenewalsAreLost
  <2>1. u \notin expiry.subs
    BY <1>1 DEF PaidInv, RowType, ReadIsOver
  <2>2. u \notin closed
    BY <1>1
  <2> QED
    BY <1>2, <2>1, <2>2 DEF PaidInv, OnlyOvertakenRenewalsAreLost
<1> QED
  BY <1>3, <1>4, <1>5 DEF PaidInv

\* Deliveries and nodes leave the rows alone.
LEMMA PaidByOthers ==
  ASSUME PaidInv,
         \/ \E t \in DOMAIN task : Deliver(t) \/ DeliveryFails(t) \/ DropTask(t)
         \/ \E n \in Nodes : \/ Backfill(n) \/ ActivateNode(n) \/ DeactivateNode(n)
                             \/ Bootstrap(n) \/ Outage(n) \/ Restore(n)
  PROVE  PaidInv'
<1>1. UNCHANGED <<sub, expiry, closed, overtaken>>
  BY DEF Deliver, DeliveryFails, DropTask, Backfill, ActivateNode, DeactivateNode, Bootstrap,
         Outage, Restore, TaskFrame, NodeFrame, rowVars, historyVars
<1> QED
  BY <1>1, PaidFrame

LEMMA PaidStep == PaidInv /\ [Next]_vars => PaidInv'
<1> SUFFICES ASSUME PaidInv, [Next]_vars PROVE PaidInv'
  OBVIOUS
<1>1. CASE Next
  BY <1>1, PaidByPurchase, PaidByRequest, PaidByReading, PaidByDeactivation, PaidByOthers
  DEF Next, ExpiryNext, TaskNext
<1>2. CASE UNCHANGED vars
  BY <1>2, PaidFrame DEF vars, rowVars, historyVars
<1> QED
  BY <1>1, <1>2

\* Whoever paid keeps what is left of it: no purchase, expiry, reissue or node
\* operation switches off a subscription with time left, except an expiry that
\* had read it before the renewal, and the administrator.
THEOREM PaidTimeIsKept == Safety => []OnlyOvertakenRenewalsAreLost
<1>1. PaidInv => OnlyOvertakenRenewalsAreLost
  BY DEF PaidInv
<1> QED
  BY <1>1, PaidInit, PaidStep, PTL DEF Safety

-------------------------------------------------------------------------------
(* Bags of messages.                                                        *)

LEMMA BagsUnite ==
  ASSUME NEW B, NEW C, IsABag(B), IsABag(C)
  PROVE  IsABag(B (+) C) /\ DOMAIN (B (+) C) = DOMAIN B \union DOMAIN C
BY DEF IsABag, (+)

LEMMA BagGrows ==
  ASSUME NEW B, NEW x, IsABag(B)
  PROVE  IsABag(BagAdd(B, x)) /\ DOMAIN BagAdd(B, x) = DOMAIN B \union {x}
BY DEF IsABag, BagAdd

LEMMA BagShrinks ==
  ASSUME NEW B, NEW x, IsABag(B)
  PROVE  /\ IsABag(BagRemove(B, x))
         /\ DOMAIN BagRemove(B, x) \subseteq DOMAIN B
         /\ DOMAIN B \subseteq DOMAIN BagRemove(B, x) \union {x}
<1>1. CASE x \notin DOMAIN B
  BY <1>1 DEF BagRemove
<1>2. CASE x \in DOMAIN B /\ B[x] = 1
  <2>1. BagRemove(B, x) = [e \in DOMAIN B \ {x} |-> B[e]]
    BY <1>2 DEF BagRemove
  <2> QED
    BY <2>1 DEF IsABag
<1>3. CASE x \in DOMAIN B /\ B[x] # 1
  <2>1. BagRemove(B, x) = [e \in DOMAIN B |-> IF e = x THEN B[e] - 1 ELSE B[e]]
    BY <1>3 DEF BagRemove
  <2>2. \A e \in DOMAIN B : B[e] \in Nat /\ B[e] > 0
    BY DEF IsABag
  <2>3. B[x] - 1 \in Nat /\ B[x] - 1 > 0
    BY <1>3, <2>2
  <2> QED
    BY <2>1, <2>2, <2>3 DEF IsABag
<1> QED
  BY <1>1, <1>2, <1>3

LEMMA MessagesBag ==
  ASSUME NEW users \in SUBSET Users, NEW nodes \in SUBSET Nodes, NEW op \in {"put", "delete"}
  PROVE  /\ IsABag(Messages(users, nodes, op))
         /\ DOMAIN Messages(users, nodes, op) \subseteq Tasks
         /\ \A t \in DOMAIN Messages(users, nodes, op) :
              t.user \in users /\ t.node \in nodes /\ t.op = op
         /\ \A u \in users, n \in nodes : [user |-> u, node |-> n, op |-> op, tries |-> 0]
                                            \in DOMAIN Messages(users, nodes, op)
<1> DEFINE msg(u, n) == [user |-> u, node |-> n, op |-> op, tries |-> 0]
           S == {msg(u, n) : u \in users, n \in nodes}
<1>1. Messages(users, nodes, op) = [e \in S |-> 1]
  BY DEF Messages, SetToBag
<1>2. \A u \in users, n \in nodes : msg(u, n) \in Tasks
  BY BoundsAssumption DEF Tasks
<1>3. \A u, n : msg(u, n).user = u /\ msg(u, n).node = n /\ msg(u, n).op = op
  OBVIOUS
<1>4. \A u \in users, n \in nodes : [user |-> u, node |-> n, op |-> op, tries |-> 0] = msg(u, n)
  OBVIOUS
<1> HIDE DEF msg
<1>5. DOMAIN [e \in S |-> 1] = S /\ IsABag([e \in S |-> 1])
  BY DEF IsABag
<1> QED
  BY <1>1, <1>2, <1>3, <1>4, <1>5

-------------------------------------------------------------------------------
(* Types.                                                                   *)

Subscriptions == [creds : 0..MaxCreds, live : BOOLEAN, left : 0..Cardinality(Charges)]

\* The time left was paid for; a subscription that was ever on has credentials,
\* and a reissue that has read it has room for the next ones.
LeftWasPaid == \A u \in Users : sub[u].left <= Cardinality(paid)
CredsAreIssued == \A u \in Users : /\ sub[u].live => sub[u].creds > 0
                                   /\ u \in reissuing => /\ sub[u].creds > 0
                                                         /\ sub[u].creds < MaxCreds

TypeInv == TypeOK /\ LeftWasPaid /\ CredsAreIssued

RowTypes == /\ sub \in [Users -> Subscriptions]
            /\ paid \subseteq Charges
            /\ reissuing \subseteq Users
            /\ LeftWasPaid
            /\ CredsAreIssued
TaskTypes == DOMAIN task \subseteq Tasks /\ IsABag(task)
OtherTypes == /\ expiry \in [step : {"idle", "update"}, subs : SUBSET Users, admin : BOOLEAN]
              /\ active \subseteq Nodes
              /\ up \subseteq Nodes
              /\ profile \in [Nodes -> [Users -> 0..MaxCreds]]
              /\ events \in 0..MaxEvents
              /\ closed \subseteq Users
              /\ overtaken \subseteq Users
              /\ accident \subseteq Users \X Nodes

LEMMA TypeParts == TypeInv <=> RowTypes /\ TaskTypes /\ OtherTypes
BY DEF TypeInv, TypeOK, RowTypes, TaskTypes, OtherTypes, Subscriptions

LEMMA PartIsFinite ==
  ASSUME NEW S, IsFiniteSet(S), NEW T \in SUBSET S
  PROVE  /\ IsFiniteSet(T) /\ Cardinality(T) \in Nat /\ Cardinality(S) \in Nat
         /\ Cardinality(T) <= Cardinality(S)
<1>1. IsFiniteSet(T) /\ Cardinality(T) <= Cardinality(S)
  BY FS_Subset
<1> QED
  BY <1>1, FS_CardinalityType

LEMMA RowNumbers ==
  ASSUME TypeInv
  PROVE  /\ \A u \in Users : /\ sub[u] \in Subscriptions /\ sub[u].creds \in Nat
                             /\ sub[u].left \in Nat /\ sub[u].live \in BOOLEAN
         /\ Cardinality(Charges) \in Nat /\ Cardinality(paid) \in Nat
         /\ Cardinality(paid) <= Cardinality(Charges)
         /\ MaxCreds \in Nat /\ MaxCreds > 0 /\ max_retries \in Nat /\ MaxEvents \in Nat
<1>1. IsFiniteSet(Charges) /\ paid \subseteq Charges
  BY ChargesAssumption DEF TypeInv, TypeOK
<1>2. /\ Cardinality(Charges) \in Nat /\ Cardinality(paid) \in Nat
      /\ Cardinality(paid) <= Cardinality(Charges)
  BY <1>1, PartIsFinite
<1>3. \A u \in Users : sub[u] \in Subscriptions
  BY DEF TypeInv, TypeOK, Subscriptions
<1> QED
  BY <1>2, <1>3, BoundsAssumption DEF Subscriptions

LEMMA RowsByPurchase ==
  ASSUME TypeInv, NEW c \in Charges, FulfillPurchase(c)
  PROVE  RowTypes'
<1>1. PICK u \in Users : u = PaidBy[c]
  BY ChargesAssumption
<1>2. /\ sub' = [sub EXCEPT ![u] = Extended(u)] /\ c \notin paid /\ paid' = paid \union {c}
      /\ reissuing' = reissuing
  BY <1>1 DEF FulfillPurchase
<1>3. sub \in [Users -> Subscriptions] /\ paid \subseteq Charges /\ reissuing \subseteq Users
  BY TypeParts DEF RowTypes
<1>4. /\ Cardinality(paid') = Cardinality(paid) + 1
      /\ Cardinality(paid') <= Cardinality(Charges)
      /\ paid' \subseteq Charges
  <2>1. IsFiniteSet(Charges) /\ paid' \subseteq Charges
    BY <1>2, <1>3, ChargesAssumption
  <2>2. IsFiniteSet(paid)
    BY <1>3, <2>1, PartIsFinite
  <2>3. Cardinality(paid \union {c}) = Cardinality(paid) + 1
    BY <1>2, <2>2, FS_AddElement
  <2>4. Cardinality(paid') <= Cardinality(Charges)
    BY <2>1, PartIsFinite
  <2> QED
    BY <1>2, <2>1, <2>3, <2>4
<1>5. /\ Extended(u).live
      /\ Extended(u).creds = IF sub[u].creds = 0 THEN 1 ELSE sub[u].creds
      /\ Extended(u).left = IF Works(u) THEN sub[u].left + 1 ELSE 1
  BY DEF Extended, NoCreds
<1>6. Extended(u).left \in 0..Cardinality(Charges) /\ Extended(u).left <= Cardinality(paid')
  <2>1. sub[u].left \in Nat /\ sub[u].left <= Cardinality(paid) /\ Cardinality(paid) \in Nat
        /\ Cardinality(Charges) \in Nat
    BY RowNumbers DEF TypeInv, LeftWasPaid
  <2> QED
    BY <1>4, <1>5, <2>1
<1>7. Extended(u).creds \in 0..MaxCreds /\ Extended(u).creds > 0
      /\ (sub[u].creds > 0 => Extended(u).creds = sub[u].creds)
  <2>1. sub[u].creds \in 0..MaxCreds /\ MaxCreds \in Nat /\ MaxCreds > 0
    BY <1>3, RowNumbers DEF Subscriptions
  <2> QED
    BY <1>5, <2>1
<1>8. Extended(u) \in Subscriptions
  BY <1>6, <1>7 DEF Extended, Subscriptions
<1>9. sub'[u] = Extended(u) /\ \A i \in Users \ {u} : sub'[i] = sub[i]
  BY <1>2, <1>3
<1>10. LeftWasPaid'
  <2>1. \A i \in Users : sub[i].left \in Nat /\ sub[i].left <= Cardinality(paid)
    BY RowNumbers DEF TypeInv, LeftWasPaid
  <2>2. Cardinality(paid) \in Nat
    BY RowNumbers
  <2> QED
    BY <1>4, <1>6, <1>9, <2>1, <2>2 DEF LeftWasPaid
<1>11. CredsAreIssued'
  BY <1>2, <1>5, <1>7, <1>9 DEF TypeInv, CredsAreIssued
<1>12. sub' \in [Users -> Subscriptions]
  BY <1>2, <1>3, <1>8
<1> QED
  BY <1>2, <1>3, <1>4, <1>10, <1>11, <1>12 DEF RowTypes

LEMMA RowsByRequest ==
  ASSUME TypeInv, NEW u \in Users, ReadForReissue(u) \/ SaveReissue(u) \/ Lapse(u)
  PROVE  RowTypes'
<1>1. /\ sub \in [Users -> Subscriptions] /\ paid \subseteq Charges /\ reissuing \subseteq Users
      /\ LeftWasPaid /\ CredsAreIssued /\ sub[u] \in Subscriptions
      /\ MaxCreds \in Nat /\ Cardinality(Charges) \in Nat /\ Cardinality(paid) \in Nat
  BY TypeParts, RowNumbers DEF RowTypes
<1>2. CASE ReadForReissue(u)
  <2>1. sub' = sub /\ paid' = paid /\ reissuing' = reissuing \union {u}
        /\ sub[u].live /\ sub[u].creds < MaxCreds
    BY <1>2 DEF ReadForReissue, Works
  <2> QED
    BY <1>1, <2>1 DEF RowTypes, LeftWasPaid, CredsAreIssued
<1>3. CASE SaveReissue(u)
  <2>1. /\ sub' = [sub EXCEPT ![u] = [sub[u] EXCEPT !.creds = sub[u].creds + 1]]
        /\ paid' = paid /\ reissuing' = reissuing \ {u} /\ u \in reissuing
    BY <1>3 DEF SaveReissue
  <2>2. sub[u].creds + 1 \in 0..MaxCreds /\ sub[u].creds + 1 > 0
    BY <1>1, <2>1 DEF Subscriptions, CredsAreIssued
  <2>3. sub'[u] = [sub[u] EXCEPT !.creds = sub[u].creds + 1]
        /\ \A i \in Users \ {u} : sub'[i] = sub[i]
    BY <1>1, <2>1
  <2>4. /\ sub'[u] \in Subscriptions /\ sub'[u].creds > 0
        /\ sub'[u].live = sub[u].live /\ sub'[u].left = sub[u].left
    BY <1>1, <2>2, <2>3 DEF Subscriptions
  <2>5. sub' \in [Users -> Subscriptions]
    BY <1>1, <2>1, <2>3, <2>4
  <2>6. LeftWasPaid'
    BY <1>1, <2>1, <2>3, <2>4 DEF LeftWasPaid
  <2>7. CredsAreIssued'
    BY <1>1, <2>1, <2>3, <2>4 DEF CredsAreIssued
  <2> QED
    BY <1>1, <2>1, <2>5, <2>6, <2>7 DEF RowTypes
<1>4. CASE Lapse(u)
  <2>1. /\ sub' = [sub EXCEPT ![u] = [sub[u] EXCEPT !.left = sub[u].left - 1]]
        /\ paid' = paid /\ reissuing' = reissuing /\ sub[u].left > 0
    BY <1>4 DEF Lapse
  <2>2. sub[u].left - 1 \in 0..Cardinality(Charges) /\ sub[u].left - 1 <= Cardinality(paid)
    BY <1>1, <2>1 DEF Subscriptions, LeftWasPaid
  <2>3. sub'[u] = [sub[u] EXCEPT !.left = sub[u].left - 1]
        /\ \A i \in Users \ {u} : sub'[i] = sub[i]
    BY <1>1, <2>1
  <2>4. /\ sub'[u] \in Subscriptions /\ sub'[u].creds = sub[u].creds
        /\ sub'[u].live = sub[u].live /\ sub'[u].left = sub[u].left - 1
    BY <1>1, <2>2, <2>3 DEF Subscriptions
  <2>5. sub' \in [Users -> Subscriptions]
    BY <1>1, <2>1, <2>3, <2>4
  <2>6. LeftWasPaid'
    BY <1>1, <2>1, <2>2, <2>3, <2>4 DEF LeftWasPaid
  <2>7. CredsAreIssued'
    BY <1>1, <2>1, <2>3, <2>4 DEF CredsAreIssued
  <2> QED
    BY <1>1, <2>1, <2>5, <2>6, <2>7 DEF RowTypes
<1> QED
  BY <1>2, <1>3, <1>4

\* What the expiry does to a row.
LEMMA DeactivatedRows ==
  ASSUME TypeInv, Deactivate
  PROVE  /\ sub' \in [Users -> Subscriptions]
         /\ \A u \in Users : /\ sub'[u].creds = sub[u].creds /\ sub'[u].left = sub[u].left
                             /\ u \notin expiry.subs => sub'[u].live = sub[u].live
                             /\ u \in expiry.subs => ~sub'[u].live
<1>1. sub' = [u \in Users |-> [sub[u] EXCEPT !.live = @ /\ u \notin expiry.subs]]
  BY DEF Deactivate
<1>2. \A u \in Users : sub[u] \in Subscriptions
  BY RowNumbers
<1>3. ASSUME NEW u \in Users
      PROVE  /\ sub'[u] \in Subscriptions
             /\ sub'[u].creds = sub[u].creds /\ sub'[u].left = sub[u].left
             /\ u \notin expiry.subs => sub'[u].live = sub[u].live
             /\ u \in expiry.subs => ~sub'[u].live
  <2>1. sub'[u] = [sub[u] EXCEPT !.live = @ /\ u \notin expiry.subs]
    BY <1>1
  <2> QED
    BY <1>2, <2>1 DEF Subscriptions
<1>4. sub' \in [Users -> Subscriptions]
  BY <1>1, <1>3
<1> QED
  BY <1>3, <1>4

LEMMA RowStep ==
  ASSUME TypeInv, [Next]_vars
  PROVE  RowTypes'
<1>1. CASE \E c \in Charges : FulfillPurchase(c)
  BY <1>1, RowsByPurchase
<1>2. CASE \E u \in Users : ReadForReissue(u) \/ SaveReissue(u) \/ Lapse(u)
  BY <1>2, RowsByRequest
<1>3. CASE Deactivate
  <2>1. paid' = paid /\ reissuing' = reissuing
    BY <1>3 DEF Deactivate
  <2> QED
    BY <1>3, <2>1, DeactivatedRows, TypeParts, RowNumbers DEF RowTypes, LeftWasPaid, CredsAreIssued
<1>4. CASE UNCHANGED rowVars
  BY <1>4, TypeParts DEF rowVars, RowTypes, LeftWasPaid, CredsAreIssued
<1>5. CASE UNCHANGED vars
  BY <1>4, <1>5 DEF vars
<1>6. CASE ReadExpired \/ \E u \in Users : ReadSelected(u)
  BY <1>4, <1>6 DEF ReadExpired, ReadSelected
<1>7. CASE TaskNext \/ \E t \in DOMAIN task : DropTask(t)
  BY <1>4, <1>7 DEF TaskNext, Deliver, DeliveryFails, DropTask, TaskFrame
<1>8. CASE \E n \in Nodes : \/ Backfill(n) \/ ActivateNode(n) \/ DeactivateNode(n)
                            \/ Bootstrap(n) \/ Outage(n) \/ Restore(n)
  BY <1>4, <1>8 DEF Backfill, ActivateNode, DeactivateNode, Bootstrap, Outage, Restore, NodeFrame
<1> QED
  BY <1>1, <1>2, <1>3, <1>5, <1>6, <1>7, <1>8 DEF Next, ExpiryNext

\* What the queue gains by a scheduling, and what it keeps.
LEMMA Scheduled ==
  ASSUME TypeInv, NEW users \in SUBSET Users, NEW nodes \in SUBSET Nodes,
         NEW op \in {"put", "delete"}, task' = task (+) Messages(users, nodes, op)
  PROVE  /\ TaskTypes'
         /\ \A u, n, o : Pending(u, n, o)' <=> \/ Pending(u, n, o)
                                               \/ u \in users /\ n \in nodes /\ o = op
<1> DEFINE M == Messages(users, nodes, op)
<1>1. users \in SUBSET Users /\ nodes \in SUBSET Nodes /\ op \in {"put", "delete"}
  OBVIOUS
<1>2. /\ IsABag(M) /\ DOMAIN M \subseteq Tasks
      /\ \A t \in DOMAIN M : t.user \in users /\ t.node \in nodes /\ t.op = op
      /\ \A u \in users, n \in nodes :
           [user |-> u, node |-> n, op |-> op, tries |-> 0] \in DOMAIN M
  <2>1. IsABag(M)
    BY <1>1, MessagesBag
  <2>2. DOMAIN M \subseteq Tasks
    BY <1>1, MessagesBag
  <2>3. \A t \in DOMAIN M : t.user \in users /\ t.node \in nodes /\ t.op = op
    BY <1>1, MessagesBag
  <2>4. ASSUME NEW u \in users, NEW n \in nodes
        PROVE  [user |-> u, node |-> n, op |-> op, tries |-> 0] \in DOMAIN M
    BY <1>1, MessagesBag
  <2> QED
    BY <2>1, <2>2, <2>3, <2>4
<1>3. IsABag(task) /\ DOMAIN task \subseteq Tasks /\ task' = task (+) M
  BY TypeParts DEF TaskTypes
<1> HIDE DEF M
<1>4. IsABag(task') /\ DOMAIN task' = DOMAIN task \union DOMAIN M
  BY <1>2, <1>3, BagsUnite
<1>5. TaskTypes'
  BY <1>4, <1>2, <1>3 DEF TaskTypes
<1>6. ASSUME NEW u, NEW n, NEW o
      PROVE  Pending(u, n, o)' <=> Pending(u, n, o) \/ (u \in users /\ n \in nodes /\ o = op)
  BY <1>4, <1>2 DEF Pending
<1> QED
  BY <1>5, <1>6

\* A delivery leaves the queue: at most that one is no longer pending.
LEMMA TaskGone ==
  ASSUME TypeInv, NEW t \in DOMAIN task, task' = BagRemove(task, t)
  PROVE  /\ TaskTypes' /\ t \in Tasks
         /\ \A u, n, o : /\ Pending(u, n, o)' => Pending(u, n, o)
                         /\ Pending(u, n, o) => \/ Pending(u, n, o)'
                                                \/ u = t.user /\ n = t.node /\ o = t.op
<1>1. /\ IsABag(task') /\ DOMAIN task' \subseteq DOMAIN task
      /\ DOMAIN task \subseteq DOMAIN task' \union {t}
  BY BagShrinks, TypeParts DEF TaskTypes
<1>2. TaskTypes' /\ t \in Tasks
  BY <1>1, TypeParts DEF TaskTypes
<1> QED
  BY <1>1, <1>2 DEF Pending

\* A delivery tried again stays pending.
LEMMA TaskRetried ==
  ASSUME TypeInv, NEW t \in DOMAIN task, t.tries < max_retries,
         task' = BagAdd(BagRemove(task, t), [t EXCEPT !.tries = t.tries + 1])
  PROVE  /\ TaskTypes'
         /\ \A u, n, o : Pending(u, n, o)' <=> Pending(u, n, o)
<1>1. PICK s : s = [t EXCEPT !.tries = t.tries + 1]
  OBVIOUS
<1>2. t \in Tasks /\ IsABag(task)
  BY TypeParts DEF TaskTypes
<1>3. t.tries + 1 \in 0..max_retries
  BY <1>2, BoundsAssumption DEF Tasks
<1>4. s \in Tasks /\ s.user = t.user /\ s.node = t.node /\ s.op = t.op
  BY <1>1, <1>2, <1>3 DEF Tasks
<1>5. PICK B : B = BagRemove(task, t)
  OBVIOUS
<1>6. /\ IsABag(B) /\ DOMAIN B \subseteq DOMAIN task /\ DOMAIN task \subseteq DOMAIN B \union {t}
  BY <1>2, <1>5, BagShrinks
<1>7. task' = BagAdd(B, s)
  BY <1>1, <1>5
<1>8. IsABag(task') /\ DOMAIN task' = DOMAIN B \union {s}
  BY <1>6, <1>7, BagGrows
<1>9. TaskTypes'
  BY <1>4, <1>6, <1>8, TypeParts DEF TaskTypes
<1>10. ASSUME NEW u, NEW n, NEW o
       PROVE  Pending(u, n, o)' <=> Pending(u, n, o)
  BY <1>4, <1>6, <1>8 DEF Pending
<1> QED
  BY <1>9, <1>10

LEMMA TaskStep ==
  ASSUME TypeInv, [Next]_vars
  PROVE  TaskTypes'
<1> USE DEF Schedule
<1>1. CASE \E c \in Charges : FulfillPurchase(c)
  <2>1. PICK c \in Charges, u \in Users :
          u = PaidBy[c] /\ task' = task (+) Messages({u}, active, "put")
    BY <1>1, ChargesAssumption DEF FulfillPurchase
  <2> QED
    BY <2>1, Scheduled, TypeParts DEF OtherTypes
<1>2. CASE \E u \in Users : SaveReissue(u)
  BY <1>2, Scheduled, TypeParts DEF SaveReissue, OtherTypes
<1>3. CASE Deactivate
  <2>1. expiry.subs \subseteq Users /\ active \subseteq Nodes
    BY TypeParts DEF OtherTypes
  <2> QED
    BY <1>3, <2>1, Scheduled DEF Deactivate
<1>4. CASE \E n \in Nodes : Backfill(n)
  <2>1. PICK n \in Nodes : task' = task (+) Messages({u \in Users : Works(u)}, {n}, "put")
    BY <1>4 DEF Backfill
  <2> QED
    BY <2>1, Scheduled
<1>5. CASE TaskNext \/ \E t \in DOMAIN task : DropTask(t)
  <2>1. PICK t \in DOMAIN task : Deliver(t) \/ DeliveryFails(t) \/ DropTask(t)
    BY <1>5 DEF TaskNext
  <2>2. CASE task' = BagRemove(task, t)
    BY <2>2, TaskGone
  <2>3. CASE t.tries < max_retries /\ task' = BagAdd(BagRemove(task, t), [t EXCEPT !.tries = @ + 1])
    BY <2>3, TaskRetried
  <2> QED
    BY <2>1, <2>2, <2>3 DEF Deliver, DeliveryFails, DropTask
<1>6. CASE task' = task
  BY <1>6, TypeParts DEF TaskTypes
<1>7. CASE UNCHANGED vars
  BY <1>6, <1>7 DEF vars
<1>8. CASE \E u \in Users : ReadForReissue(u) \/ Lapse(u) \/ ReadSelected(u)
  BY <1>6, <1>8 DEF ReadForReissue, Lapse, ReadSelected
<1>9. CASE ReadExpired
  BY <1>6, <1>9 DEF ReadExpired
<1>10. CASE \E n \in Nodes : \/ ActivateNode(n) \/ DeactivateNode(n)
                             \/ Bootstrap(n) \/ Outage(n) \/ Restore(n)
  BY <1>6, <1>10 DEF ActivateNode, DeactivateNode, Bootstrap, Outage, Restore, nodeVars
<1> QED
  BY <1>1, <1>2, <1>3, <1>4, <1>5, <1>7, <1>8, <1>9, <1>10 DEF Next, ExpiryNext

LEMMA EventCounts ==
  ASSUME TypeInv, Event
  PROVE  events' \in 0..MaxEvents
BY TypeParts, BoundsAssumption DEF OtherTypes, Event

LEMMA OthersByRows ==
  ASSUME TypeInv,
         \/ \E c \in Charges : FulfillPurchase(c)
         \/ \E u \in Users : ReadForReissue(u) \/ SaveReissue(u) \/ Lapse(u) \/ ReadSelected(u)
         \/ ExpiryNext
  PROVE  OtherTypes'
<1>1. /\ expiry \in [step : {"idle", "update"}, subs : SUBSET Users, admin : BOOLEAN]
      /\ active \subseteq Nodes /\ up \subseteq Nodes
      /\ profile \in [Nodes -> [Users -> 0..MaxCreds]]
      /\ events \in 0..MaxEvents
      /\ closed \subseteq Users /\ overtaken \subseteq Users /\ accident \subseteq Users \X Nodes
  BY TypeParts DEF OtherTypes
<1>2. UNCHANGED <<active, up, profile>>
  BY DEF FulfillPurchase, ReadForReissue, SaveReissue, Lapse, ReadSelected, ExpiryNext,
         ReadExpired, Deactivate, RequestFrame, nodeVars
<1>3. CASE \E c \in Charges : FulfillPurchase(c)
  <2>1. PICK c \in Charges, u \in Users : u = PaidBy[c] /\ FulfillPurchase(c)
    BY <1>3, ChargesAssumption
  <2>2. /\ expiry' = expiry /\ events' = events
        /\ closed' = closed \ {u}
        /\ overtaken' = IF u \in expiry.subs THEN overtaken \union {u} ELSE overtaken
        /\ accident' \subseteq accident \union ({u} \X Nodes)
    BY <2>1 DEF FulfillPurchase, Schedule, RequestFrame
  <2> QED
    BY <1>1, <1>2, <2>2 DEF OtherTypes
<1>4. CASE \E u \in Users : SaveReissue(u)
  <2>1. PICK u \in Users : SaveReissue(u)
    BY <1>4
  <2>2. /\ expiry' = expiry /\ events' = events /\ closed' = closed /\ overtaken' = overtaken
        /\ accident' \subseteq accident \union ({u} \X Nodes)
    BY <2>1 DEF SaveReissue, RequestFrame
  <2> QED
    BY <1>1, <1>2, <2>2 DEF OtherTypes
<1>5. CASE \E u \in Users : ReadForReissue(u) \/ Lapse(u)
  <2>1. UNCHANGED <<expiry, events, closed, overtaken, accident>>
    BY <1>5 DEF ReadForReissue, Lapse, RequestFrame, historyVars
  <2> QED
    BY <1>1, <1>2, <2>1 DEF OtherTypes
<1>6. CASE \E u \in Users : ReadSelected(u)
  <2>1. PICK u \in Users : /\ Event /\ UNCHANGED <<closed, overtaken, accident>>
                           /\ expiry' = [step |-> "update", subs |-> {u}, admin |-> TRUE]
    BY <1>6 DEF ReadSelected, historyVars
  <2>2. events' \in 0..MaxEvents
    BY <2>1, EventCounts
  <2> QED
    BY <1>1, <1>2, <2>1, <2>2 DEF OtherTypes
<1>7. CASE ReadExpired
  <2>1. PICK expired \in SUBSET Users :
          expiry' = [step |-> "update", subs |-> expired, admin |-> FALSE]
    <3>1. {u \in Users : sub[u].live /\ sub[u].left = 0} \in SUBSET Users
      OBVIOUS
    <3> QED
      BY <1>7, <3>1 DEF ReadExpired
  <2>2. UNCHANGED <<events, closed, overtaken, accident>>
    BY <1>7 DEF ReadExpired, historyVars
  <2> QED
    BY <1>1, <1>2, <2>1, <2>2 DEF OtherTypes
<1>8. CASE Deactivate
  <2>1. /\ expiry' = NoExpiry /\ events' = events /\ overtaken' = overtaken
        /\ closed' = IF expiry.admin THEN closed \union expiry.subs ELSE closed
        /\ accident' \subseteq accident \union (expiry.subs \X Nodes)
    BY <1>8 DEF Deactivate, Schedule
  <2>2. expiry.subs \subseteq Users
    BY <1>1
  <2>3. expiry' \in [step : {"idle", "update"}, subs : SUBSET Users, admin : BOOLEAN]
    BY <2>1 DEF NoExpiry
  <2> QED
    BY <1>1, <1>2, <2>1, <2>2, <2>3 DEF OtherTypes
<1> QED
  BY <1>3, <1>4, <1>5, <1>6, <1>7, <1>8 DEF ExpiryNext

LEMMA OthersByTasks ==
  ASSUME TypeInv, NEW t \in DOMAIN task, Deliver(t) \/ DeliveryFails(t) \/ DropTask(t)
  PROVE  OtherTypes'
<1>1. /\ profile \in [Nodes -> [Users -> 0..MaxCreds]]
      /\ events \in 0..MaxEvents /\ accident \subseteq Users \X Nodes
      /\ t \in Tasks /\ t.user \in Users /\ t.node \in Nodes
      /\ sub[t.user].creds \in 0..MaxCreds /\ MaxCreds \in Nat
  <2>1. t \in Tasks /\ \A u \in Users : sub[u] \in Subscriptions
    BY TypeParts, RowNumbers DEF TaskTypes
  <2> QED
    BY <2>1, TypeParts, RowNumbers DEF OtherTypes, Tasks, Subscriptions
<1>2. UNCHANGED <<expiry, active, up, closed, overtaken>>
  BY DEF Deliver, DeliveryFails, DropTask, TaskFrame, historyVars
<1>3. profile' \in [Nodes -> [Users -> 0..MaxCreds]]
  <2>1. CASE profile' = profile
    BY <1>1, <2>1
  <2>2. CASE Deliver(t)
    <3>1. PICK c \in 0..MaxCreds :
            c = IF t.op = "put" THEN sub[t.user].creds ELSE NoCreds
      BY <1>1 DEF NoCreds
    <3>2. profile' = [profile EXCEPT ![t.node] = [profile[t.node] EXCEPT ![t.user] = c]]
      BY <2>2, <3>1 DEF Deliver
    <3>3. [profile[t.node] EXCEPT ![t.user] = c] \in [Users -> 0..MaxCreds]
      BY <1>1
    <3> QED
      BY <1>1, <3>2, <3>3
  <2> QED
    BY <2>1, <2>2 DEF DeliveryFails, DropTask
<1>4. events' \in 0..MaxEvents
  BY <1>1, EventCounts DEF Deliver, DeliveryFails, DropTask
<1>5. accident' \subseteq Users \X Nodes
  BY <1>1 DEF Deliver, DeliveryFails, DropTask, historyVars
<1> QED
  BY <1>2, <1>3, <1>4, <1>5, TypeParts DEF OtherTypes

LEMMA OthersByNodes ==
  ASSUME TypeInv, NEW n \in Nodes,
         \/ Backfill(n) \/ ActivateNode(n) \/ DeactivateNode(n)
         \/ Bootstrap(n) \/ Outage(n) \/ Restore(n)
  PROVE  OtherTypes'
<1>1. /\ profile \in [Nodes -> [Users -> 0..MaxCreds]]
      /\ active \subseteq Nodes /\ up \subseteq Nodes
      /\ events \in 0..MaxEvents /\ accident \subseteq Users \X Nodes
      /\ \A u \in Users : sub[u].creds \in 0..MaxCreds
  BY TypeParts, RowNumbers DEF OtherTypes, Subscriptions
<1>2. UNCHANGED <<expiry, closed, overtaken>>
  BY DEF Backfill, ActivateNode, DeactivateNode, Bootstrap, Outage, Restore, NodeFrame
<1>3. active' \subseteq Nodes /\ up' \subseteq Nodes
  BY <1>1 DEF Backfill, ActivateNode, DeactivateNode, Bootstrap, Outage, Restore, nodeVars
<1>4. profile' \in [Nodes -> [Users -> 0..MaxCreds]]
  <2>1. CASE profile' = profile
    BY <1>1, <2>1
  <2>2. CASE Bootstrap(n)
    <3>1. [u \in Users |-> IF Works(u) THEN sub[u].creds ELSE NoCreds] \in [Users -> 0..MaxCreds]
      BY <1>1, BoundsAssumption DEF NoCreds
    <3> QED
      BY <1>1, <2>2, <3>1 DEF Bootstrap
  <2> QED
    BY <2>1, <2>2 DEF Backfill, ActivateNode, DeactivateNode, Outage, Restore, nodeVars
<1>5. events' \in 0..MaxEvents
  BY <1>1, EventCounts
  DEF Backfill, ActivateNode, DeactivateNode, Bootstrap, Outage, Restore
<1>6. accident' \subseteq Users \X Nodes
  BY <1>1 DEF Backfill, ActivateNode, DeactivateNode, Bootstrap, Outage, Restore
<1> QED
  BY <1>2, <1>3, <1>4, <1>5, <1>6, TypeParts DEF OtherTypes

LEMMA TypeInit == Init => TypeInv
<1> SUFFICES ASSUME Init PROVE TypeInv
  OBVIOUS
<1>1. Cardinality(Charges) \in Nat /\ Cardinality({}) = 0
  BY ChargesAssumption, FS_CardinalityType, FS_EmptySet
<1>2. sub \in [Users -> Subscriptions] /\ \A u \in Users : sub[u] = NoSub
  BY <1>1, BoundsAssumption DEF Init, NoSub, NoCreds, Subscriptions
<1>3. RowTypes
  BY <1>1, <1>2 DEF Init, RowTypes, LeftWasPaid, CredsAreIssued, NoSub, NoCreds
<1>4. TaskTypes
  BY DEF Init, TaskTypes, EmptyBag, SetToBag, IsABag
<1>5. OtherTypes
  BY BoundsAssumption DEF Init, OtherTypes, NoExpiry, NoCreds
<1> QED
  BY <1>3, <1>4, <1>5, TypeParts

LEMMA TypeStep == TypeInv /\ [Next]_vars => TypeInv'
<1> SUFFICES ASSUME TypeInv, [Next]_vars PROVE TypeInv'
  OBVIOUS
<1>1. OtherTypes'
  <2>1. CASE UNCHANGED vars
    BY <2>1, TypeParts DEF vars, nodeVars, historyVars, OtherTypes
  <2> QED
    BY <2>1, OthersByRows, OthersByTasks, OthersByNodes DEF Next, TaskNext
<1>2. TypeInv' <=> RowTypes' /\ TaskTypes' /\ OtherTypes'
  BY DEF TypeInv, TypeOK, RowTypes, TaskTypes, OtherTypes, Subscriptions
<1> QED
  BY <1>1, <1>2, RowStep, TaskStep

\* Every reachable state is well formed: in particular the deliveries queued are for
\* subscriptions and nodes that exist and are tried no more often than the task allows,
\* and nobody has more periods left than there are charges.
THEOREM SubscriptionsAreTyped == Safety => []TypeOK
<1>1. TypeInv => TypeOK
  BY DEF TypeInv
<1> QED
  BY <1>1, TypeInit, TypeStep, PTL DEF Safety

-------------------------------------------------------------------------------
(* Who is let in.  A delivery queued for a subscription, unless one was     *)
(* lost or crossed another, goes the way the subscription stands: profiles  *)
(* are put for one that is on and deleted for one that is off.  So whichever *)
(* of the pending deliveries is the last leaves the node right.             *)

Directed(u, n) == /\ Pending(u, n, "put") => sub[u].live
                  /\ Pending(u, n, "delete") => ~sub[u].live

Served(u, n) ==
  n \in active /\ ~Pending(u, n, "put") /\ ~Pending(u, n, "delete") =>
    /\ Works(u) => profile[n][u] = sub[u].creds
    /\ ~sub[u].live => profile[n][u] = NoCreds

Right(u, n) == <<u, n>> \notin accident => Directed(u, n) /\ Served(u, n)

NodeInv == TypeInv /\ \A u \in Users, n \in Nodes : Right(u, n)

LEMMA RightInit == Init => NodeInv
<1> SUFFICES ASSUME Init PROVE NodeInv
  OBVIOUS
<1>1. TypeInv
  BY TypeInit
<1>2. \A u, n, op : ~Pending(u, n, op)
  BY DEF Init, Pending, EmptyBag, SetToBag
<1>3. ASSUME NEW u \in Users, NEW n \in Nodes
      PROVE  Right(u, n)
  <2>1. sub[u] = NoSub /\ profile[n][u] = NoCreds
    BY DEF Init
  <2> QED
    BY <1>2, <2>1 DEF Right, Directed, Served, Works, NoSub
<1> QED
  BY <1>1, <1>3 DEF NodeInv

\* A subscription and a node that a step leaves as they were.
LEMMA RightFrame ==
  ASSUME NEW u \in Users, NEW n \in Nodes, Right(u, n),
         <<u, n>> \in accident => <<u, n>> \in accident',
         \A op \in {"put", "delete"} : Pending(u, n, op)' <=> Pending(u, n, op),
         sub'[u].live = sub[u].live, sub'[u].creds = sub[u].creds,
         Works(u)' => Works(u),
         n \in active' => n \in active,
         profile'[n][u] = profile[n][u]
  PROVE  Right(u, n)'
<1>1. Directed(u, n) => Directed(u, n)'
  BY DEF Directed
<1>2. Served(u, n) => Served(u, n)'
  BY DEF Served
<1> QED
  BY <1>1, <1>2 DEF Right

\* A purchase puts the profile on every active node.
LEMMA RightByPurchase ==
  ASSUME NodeInv, NEW c \in Charges, FulfillPurchase(c), NEW i \in Users, NEW n \in Nodes
  PROVE  Right(i, n)'
<1>1. PICK u \in Users : u = PaidBy[c]
  BY ChargesAssumption
<1>2. /\ sub' = [sub EXCEPT ![u] = Extended(u)]
      /\ task' = task (+) Messages({u}, active, "put")
      /\ accident' = accident \union {p \in {u} \X Nodes : Pending(p[1], p[2], "delete")}
      /\ UNCHANGED <<active, profile>>
  BY <1>1 DEF FulfillPurchase, Schedule, Opposite, RequestFrame, nodeVars
<1>3. /\ sub'[u] = Extended(u) /\ \A j \in Users \ {u} : sub'[j] = sub[j]
      /\ TypeInv /\ active \subseteq Nodes /\ Right(i, n)
  BY <1>2, TypeParts DEF NodeInv, RowTypes, OtherTypes
<1>4. \A j, m, op : Pending(j, m, op)' <=> \/ Pending(j, m, op)
                                           \/ j = u /\ m \in active /\ op = "put"
  <2>1. {u} \in SUBSET Users /\ active \in SUBSET Nodes /\ TypeInv
    BY <1>3
  <2>2. \A j, m, op : Pending(j, m, op)' <=> \/ Pending(j, m, op)
                                             \/ j \in {u} /\ m \in active /\ op = "put"
    BY ONLY <1>2, <2>1, Scheduled
  <2> QED
    BY ONLY <2>2
<1>5. CASE i # u
  BY <1>2, <1>3, <1>4, <1>5, RightFrame DEF Works
<1>6. CASE i = u
  <2>1. sub'[i].live
    BY <1>3, <1>6 DEF Extended
  <2>2. Pending(i, n, "delete") => <<i, n>> \in accident'
    BY <1>2, <1>6
  <2>3. n \in active' => Pending(i, n, "put")'
    BY <1>2, <1>4, <1>6
  <2>4. Pending(i, n, "delete")' => Pending(i, n, "delete")
    BY <1>4
  <2>5. Served(i, n)'
    BY <2>3 DEF Served
  <2>6. <<i, n>> \notin accident' => Directed(i, n)'
    BY <2>1, <2>2, <2>4 DEF Directed
  <2> QED
    BY <2>5, <2>6 DEF Right
<1> QED
  BY <1>5, <1>6

\* So does a reissue, of a subscription that is on and nobody is switching off.
LEMMA RightByReissue ==
  ASSUME NodeInv, NEW u \in Users, SaveReissue(u), NEW i \in Users, NEW n \in Nodes
  PROVE  Right(i, n)'
<1>1. /\ sub' = [sub EXCEPT ![u] = [sub[u] EXCEPT !.creds = sub[u].creds + 1]]
      /\ task' = task (+) Messages({u}, active, "put")
      /\ accident' = IF Works(u) /\ u \notin expiry.subs THEN accident
                     ELSE accident \union ({u} \X Nodes)
      /\ UNCHANGED <<active, profile>>
  BY DEF SaveReissue, RequestFrame, nodeVars
<1>2. /\ sub \in [Users -> Subscriptions]
      /\ TypeInv /\ active \subseteq Nodes /\ Right(i, n)
  BY TypeParts DEF NodeInv, RowTypes, OtherTypes
<1>3. /\ sub'[u] = [sub[u] EXCEPT !.creds = sub[u].creds + 1]
      /\ \A j \in Users \ {u} : sub'[j] = sub[j]
  BY <1>1, <1>2
<1>4. \A j, m, op : Pending(j, m, op)' <=> \/ Pending(j, m, op)
                                           \/ j = u /\ m \in active /\ op = "put"
  BY <1>1, <1>2, Scheduled
<1>5. CASE i # u
  BY <1>1, <1>2, <1>3, <1>4, <1>5, RightFrame DEF Works
<1>6. CASE i = u
  <2>1. sub'[i].live = sub[i].live
    BY <1>2, <1>3, <1>6 DEF Subscriptions
  <2>2. <<i, n>> \notin accident' => <<i, n>> \notin accident /\ sub[i].live
    BY <1>1, <1>6 DEF Works
  <2>3. n \in active' => Pending(i, n, "put")'
    BY <1>1, <1>4, <1>6
  <2>4. Pending(i, n, "delete")' => Pending(i, n, "delete")
    BY <1>4
  <2>5. Served(i, n)'
    BY <2>3 DEF Served
  <2>6. <<i, n>> \notin accident' => Directed(i, n)'
    BY <1>2, <2>1, <2>2, <2>4 DEF Directed, Right
  <2> QED
    BY <2>5, <2>6 DEF Right
<1> QED
  BY <1>5, <1>6

\* A deactivation deletes the profiles of what it switches off.
LEMMA RightByDeactivation ==
  ASSUME NodeInv, Deactivate, NEW i \in Users, NEW n \in Nodes
  PROVE  Right(i, n)'
<1>1. /\ task' = task (+) Messages(expiry.subs, active, "delete")
      /\ accident' = accident \union {p \in expiry.subs \X Nodes : Pending(p[1], p[2], "put")}
      /\ UNCHANGED <<active, profile>>
  BY DEF Deactivate, Schedule, Opposite, nodeVars
<1>2. /\ TypeInv /\ active \subseteq Nodes /\ expiry.subs \subseteq Users /\ Right(i, n)
  BY TypeParts DEF NodeInv, OtherTypes
<1>3. /\ sub'[i].creds = sub[i].creds /\ sub'[i].left = sub[i].left
      /\ i \notin expiry.subs => sub'[i].live = sub[i].live
      /\ i \in expiry.subs => ~sub'[i].live
  BY <1>2, DeactivatedRows
<1>4. \A j, m, op : Pending(j, m, op)' <=> \/ Pending(j, m, op)
                                           \/ j \in expiry.subs /\ m \in active /\ op = "delete"
  BY <1>1, <1>2, Scheduled
<1>5. CASE i \notin expiry.subs
  BY <1>1, <1>2, <1>3, <1>4, <1>5, RightFrame DEF Works
<1>6. CASE i \in expiry.subs
  <2>1. Pending(i, n, "put") => <<i, n>> \in accident'
    BY <1>1, <1>6
  <2>2. n \in active' => Pending(i, n, "delete")'
    BY <1>1, <1>4, <1>6
  <2>3. Pending(i, n, "put")' => Pending(i, n, "put")
    BY <1>4
  <2>4. Served(i, n)'
    BY <2>2 DEF Served
  <2>5. <<i, n>> \notin accident' => Directed(i, n)'
    BY <1>3, <1>6, <2>1, <2>3 DEF Directed
  <2> QED
    BY <2>4, <2>5 DEF Right
<1> QED
  BY <1>5, <1>6

\* Time passing, and the reading before an update, change no delivery and no profile.
LEMMA RightByReading ==
  ASSUME NodeInv,
         \/ \E u \in Users : ReadForReissue(u) \/ Lapse(u) \/ ReadSelected(u)
         \/ ReadExpired
         \/ UNCHANGED vars,
         NEW i \in Users, NEW n \in Nodes
  PROVE  Right(i, n)'
<1>1. UNCHANGED <<task, active, profile, accident>>
  BY DEF ReadForReissue, Lapse, ReadSelected, ReadExpired, RequestFrame, vars, nodeVars, historyVars
<1>2. /\ sub'[i].live = sub[i].live /\ sub'[i].creds = sub[i].creds
      /\ sub'[i].left > 0 => sub[i].left > 0
  <2>1. CASE \E u \in Users : Lapse(u)
    <3>1. PICK u \in Users :
            /\ sub[u].left > 0
            /\ sub' = [sub EXCEPT ![u] = [sub[u] EXCEPT !.left = sub[u].left - 1]]
      BY <2>1 DEF Lapse
    <3>2. sub \in [Users -> Subscriptions]
      BY TypeParts DEF NodeInv, RowTypes
    <3>3. CASE i = u
      <4>1. sub'[i] = [sub[i] EXCEPT !.left = sub[i].left - 1]
        BY <3>1, <3>2, <3>3
      <4> QED
        BY <3>1, <3>2, <3>3, <4>1 DEF Subscriptions
    <3>4. CASE i # u
      BY <3>1, <3>2, <3>4
    <3> QED
      BY <3>3, <3>4
  <2>2. CASE sub' = sub
    BY <2>2
  <2> QED
    BY <2>1, <2>2 DEF ReadForReissue, ReadSelected, ReadExpired, vars, rowVars
<1> QED
  BY <1>1, <1>2, RightFrame DEF NodeInv, Works, Pending

\* A node that answers is left right; one that does not is tried again, and a
\* delivery given up is remembered.
LEMMA RightByTask ==
  ASSUME NodeInv, NEW t \in DOMAIN task, Deliver(t) \/ DeliveryFails(t) \/ DropTask(t),
         NEW i \in Users, NEW n \in Nodes
  PROVE  Right(i, n)'
<1>1. TypeInv /\ Right(i, n) /\ t \in Tasks /\ sub' = sub /\ active' = active
  BY TypeParts DEF NodeInv, TaskTypes, Deliver, DeliveryFails, DropTask, TaskFrame, rowVars
<1>2. CASE /\ t.tries < max_retries /\ UNCHANGED <<accident, profile>>
           /\ task' = BagAdd(BagRemove(task, t), [t EXCEPT !.tries = t.tries + 1])
  <2>1. \A op : Pending(i, n, op)' <=> Pending(i, n, op)
    BY <1>1, <1>2, TaskRetried
  <2> QED
    BY <1>1, <1>2, <2>1, RightFrame DEF Works
<1>3. CASE task' = BagRemove(task, t) /\ (i # t.user \/ n # t.node)
  <2>1. \A op : Pending(i, n, op)' <=> Pending(i, n, op)
    BY <1>1, <1>3, TaskGone
  <2>2. <<i, n>> \in accident => <<i, n>> \in accident'
    BY DEF Deliver, DeliveryFails, DropTask, historyVars
  <2>3. profile'[n][i] = profile[n][i]
    <3>1. CASE profile' = profile
      BY <3>1
    <3>2. CASE Deliver(t)
      <4>1. PICK v : profile' = [profile EXCEPT ![t.node] = [profile[t.node] EXCEPT ![t.user] = v]]
        BY <3>2 DEF Deliver
      <4>2. profile \in [Nodes -> [Users -> 0..MaxCreds]]
        BY <1>1, TypeParts DEF OtherTypes
      <4> QED
        BY <1>3, <4>1, <4>2
    <3> QED
      BY <3>1, <3>2 DEF DeliveryFails, DropTask
  <2> QED
    BY <1>1, <2>1, <2>2, <2>3, RightFrame DEF Works
<1>4. CASE Deliver(t) /\ i = t.user /\ n = t.node
  <2>1. \A op : Pending(i, n, op)' => Pending(i, n, op)
    BY <1>1, <1>4, TaskGone DEF Deliver
  <2>2. Pending(i, n, t.op) /\ t.op \in {"put", "delete"}
    BY <1>1, <1>4 DEF Pending, Tasks
  <2>3. profile'[n][i] = IF t.op = "put" THEN sub[i].creds ELSE NoCreds
    <3>1. PICK v : v = IF t.op = "put" THEN sub[t.user].creds ELSE NoCreds
      OBVIOUS
    <3>2. profile' = [profile EXCEPT ![t.node] = [profile[t.node] EXCEPT ![t.user] = v]]
      BY <1>4, <3>1 DEF Deliver
    <3>3. profile \in [Nodes -> [Users -> 0..MaxCreds]]
      BY <1>1, TypeParts DEF OtherTypes
    <3> QED
      BY <1>4, <3>1, <3>2, <3>3
  <2>4. accident' = accident
    BY <1>4 DEF Deliver, historyVars
  <2>5. ASSUME <<i, n>> \notin accident PROVE Directed(i, n)' /\ Served(i, n)'
    <3>1. Directed(i, n)
      BY <1>1, <2>5 DEF Right
    <3>2. Directed(i, n)'
      BY <1>1, <2>1, <3>1 DEF Directed
    <3>3. CASE t.op = "put"
      <4>1. sub'[i].live /\ profile'[n][i] = sub'[i].creds
        BY <1>1, <2>2, <2>3, <3>1, <3>3 DEF Directed
      <4> QED
        BY <4>1, <3>2 DEF Served
    <3>4. CASE t.op = "delete"
      <4>1. ~sub'[i].live /\ profile'[n][i] = NoCreds
        BY <1>1, <2>2, <2>3, <3>1, <3>4 DEF Directed
      <4> QED
        BY <4>1, <3>2 DEF Served, Works
    <3> QED
      BY <2>2, <3>3, <3>4
  <2> QED
    BY <2>4, <2>5 DEF Right
<1>5. CASE /\ task' = BagRemove(task, t) /\ (DeliveryFails(t) \/ DropTask(t))
           /\ <<t.user, t.node>> \in accident' /\ i = t.user /\ n = t.node
  BY <1>5 DEF Right
<1>6. CASE Deliver(t)
  BY <1>3, <1>4, <1>6 DEF Deliver
<1>7. CASE DropTask(t)
  <2>1. task' = BagRemove(task, t) /\ <<t.user, t.node>> \in accident'
    BY <1>7 DEF DropTask
  <2> QED
    BY <1>3, <1>5, <1>7, <2>1
<1>8. CASE DeliveryFails(t)
  <2>1. \/ /\ t.tries < max_retries /\ UNCHANGED <<accident, profile>>
           /\ task' = BagAdd(BagRemove(task, t), [t EXCEPT !.tries = t.tries + 1])
        \/ task' = BagRemove(task, t) /\ <<t.user, t.node>> \in accident'
    BY <1>8 DEF DeliveryFails
  <2> QED
    BY <1>2, <1>3, <1>5, <1>8, <2>1
<1> QED
  BY <1>6, <1>7, <1>8

\* Nodes: a preparation puts the profiles of now, an activation that finds one missing is
\* remembered, a restarted agent asks again.
LEMMA RightByNode ==
  ASSUME NodeInv, NEW m \in Nodes,
         \/ Backfill(m) \/ ActivateNode(m) \/ DeactivateNode(m)
         \/ Bootstrap(m) \/ Outage(m) \/ Restore(m),
         NEW i \in Users, NEW n \in Nodes
  PROVE  Right(i, n)'
<1>1. TypeInv /\ Right(i, n) /\ sub' = sub
  BY DEF NodeInv, Backfill, ActivateNode, DeactivateNode, Bootstrap, Outage, Restore, NodeFrame,
         rowVars
<1>2. CASE Backfill(m)
  <2>1. /\ task' = task (+) Messages({u \in Users : Works(u)}, {m}, "put")
        /\ accident' = accident \union
             {<<u, m>> : u \in {j \in Users : Works(j) /\ Pending(j, m, "delete")}}
        /\ active' = active /\ profile' = profile /\ m \notin active
    BY <1>2 DEF Backfill, nodeVars
  <2>2. \A op : Pending(i, n, op)' <=> \/ Pending(i, n, op)
                                       \/ Works(i) /\ n = m /\ op = "put"
    <3>1. {u \in Users : Works(u)} \in SUBSET Users /\ {m} \in SUBSET Nodes
      OBVIOUS
    <3> QED
      BY <1>1, <2>1, <3>1, Scheduled
  <2>3. CASE n = m /\ Works(i)
    <3>1. <<i, n>> \notin accident' => <<i, n>> \notin accident /\ ~Pending(i, n, "delete")
      BY <2>1, <2>3
    <3>2. Served(i, n)'
      BY <2>1, <2>3 DEF Served
    <3>3. <<i, n>> \notin accident' => Directed(i, n)'
      BY <1>1, <2>2, <2>3, <3>1 DEF Directed, Works
    <3> QED
      BY <3>2, <3>3 DEF Right
  <2>4. CASE ~(n = m /\ Works(i))
    BY <1>1, <2>1, <2>2, <2>4, RightFrame DEF Works
  <2> QED
    BY <2>3, <2>4
<1>3. CASE ActivateNode(m)
  <2>1. /\ active' = active \union {m} /\ task' = task /\ profile' = profile
        /\ accident' = accident \union {<<u, m>> : u \in {j \in Users : ~Prepared(j, m)}}
    BY <1>3 DEF ActivateNode
  <2>2. CASE n = m
    <3>1. <<i, n>> \notin accident' => <<i, n>> \notin accident /\ Prepared(i, n)
      BY <2>1, <2>2
    <3>2. \A op : Pending(i, n, op)' <=> Pending(i, n, op)
      BY <2>1 DEF Pending
    <3>3. Directed(i, n) => Directed(i, n)'
      BY <1>1, <3>2 DEF Directed
    <3>4. Prepared(i, n) => Served(i, n)'
      BY <1>1, <2>1, <3>2 DEF Prepared, Served, Works
    <3> QED
      BY <1>1, <3>1, <3>3, <3>4 DEF Right
  <2>3. CASE n # m
    BY <1>1, <2>1, <2>3, RightFrame DEF Works, Pending
  <2> QED
    BY <2>2, <2>3
<1>4. CASE DeactivateNode(m) \/ Outage(m) \/ Restore(m)
  <2>1. active' \subseteq active /\ UNCHANGED <<task, profile, accident>>
    BY <1>4 DEF DeactivateNode, Outage, Restore
  <2> QED
    BY <1>1, <2>1, RightFrame DEF Works, Pending
<1>5. CASE Bootstrap(m)
  <2>1. /\ profile' = [profile EXCEPT ![m] =
                         [u \in Users |-> IF Works(u) THEN sub[u].creds ELSE NoCreds]]
        /\ UNCHANGED <<active, task, accident>>
    BY <1>5 DEF Bootstrap
  <2>2. profile \in [Nodes -> [Users -> 0..MaxCreds]]
    BY <1>1, TypeParts DEF OtherTypes
  <2>3. CASE n = m
    <3>1. profile'[n][i] = IF Works(i) THEN sub[i].creds ELSE NoCreds
      BY <2>1, <2>2, <2>3
    <3>2. Directed(i, n) => Directed(i, n)'
      BY <1>1, <2>1 DEF Directed, Pending
    <3>3. Served(i, n)'
      BY <1>1, <3>1 DEF Served, Works
    <3> QED
      BY <1>1, <2>1, <3>2, <3>3 DEF Right
  <2>4. CASE n # m
    BY <1>1, <2>1, <2>2, <2>4, RightFrame DEF Works, Pending
  <2> QED
    BY <2>3, <2>4
<1> QED
  BY <1>2, <1>3, <1>4, <1>5

LEMMA RightStep == NodeInv /\ [Next]_vars => NodeInv'
<1> SUFFICES ASSUME NodeInv, [Next]_vars PROVE NodeInv'
  OBVIOUS
<1>1. TypeInv'
  BY TypeStep DEF NodeInv
<1>2. ASSUME NEW i \in Users, NEW n \in Nodes
      PROVE  Right(i, n)'
  <2>1. CASE \E c \in Charges : FulfillPurchase(c)
    BY <2>1, RightByPurchase
  <2>2. CASE \E u \in Users : SaveReissue(u)
    BY <2>2, RightByReissue
  <2>3. CASE Deactivate
    BY <2>3, RightByDeactivation
  <2>4. CASE \/ \E u \in Users : ReadForReissue(u) \/ Lapse(u) \/ ReadSelected(u)
             \/ ReadExpired
             \/ UNCHANGED vars
    BY <2>4, RightByReading
  <2>5. CASE TaskNext \/ \E t \in DOMAIN task : DropTask(t)
    BY <2>5, RightByTask DEF TaskNext
  <2>6. CASE \E m \in Nodes : \/ Backfill(m) \/ ActivateNode(m) \/ DeactivateNode(m)
                              \/ Bootstrap(m) \/ Outage(m) \/ Restore(m)
    BY <2>6, RightByNode
  <2> QED
    BY <2>1, <2>2, <2>3, <2>4, <2>5, <2>6 DEF Next, ExpiryNext
<1> QED
  BY <1>1, <1>2 DEF NodeInv

\* An active node lets in who paid, with the credentials of now, and nobody whose
\* subscription was switched off, as soon as no delivery for the two is pending; except
\* where a delivery was lost, or crossed an opposite one or a node's preparation.
THEOREM NodesServeWhoPaid == Safety => []NodesLetInWhoPaid
<1>1. NodeInv => NodesLetInWhoPaid
  <2> SUFFICES ASSUME NodeInv, NEW n \in active, NEW u \in Users,
                      <<u, n>> \notin accident, ~Unsettled(u, n)
               PROVE  /\ Works(u) => profile[n][u] = sub[u].creds
                      /\ ~sub[u].live => profile[n][u] = NoCreds
    BY DEF NodesLetInWhoPaid
  <2>1. ~Pending(u, n, "put") /\ ~Pending(u, n, "delete")
    BY DEF Unsettled, Pending
  <2>2. Right(u, n)
    BY TypeParts DEF NodeInv, OtherTypes
  <2> QED
    BY <2>1, <2>2 DEF Right, Served
<1> QED
  BY <1>1, RightInit, RightStep, PTL DEF Safety
===============================================================================
