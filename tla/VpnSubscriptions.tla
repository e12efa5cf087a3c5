--------------------------- MODULE VpnSubscriptions ---------------------------
(***************************************************************************)
(* The VPN product: one subscription per user, its purchases, expiry,      *)
(* reissue and deactivation, and the Celery tasks that put its profile on  *)
(* the nodes and delete it there.                                          *)
(*                                                                         *)
(* Time is the number of paid periods a subscription has left; credentials *)
(* (token, VLESS UUID and Hysteria secret, always changed together) are    *)
(* numbered.  A transaction and the callback that publishes its deliveries *)
(* are one step: what may happen between them may as well happen while the *)
(* deliveries wait, and a crash between them is the loss of those tasks.   *)
(***************************************************************************)
EXTENDS Naturals, FiniteSets, BagsExt, Bags

CONSTANTS Users,       \* users, and their subscriptions
          Nodes,       \* VPNInstance rows
          Charges,     \* successful provider charges
          PaidBy,      \* the user each charge belongs to
          max_retries, \* of deliver_vpn_profile_task
          MaxCreds,    \* bound: credentials a subscription ever has
          MaxEvents    \* bound: outages, lost or refused tasks, administrator's actions

ASSUME ChargesAssumption == IsFiniteSet(Charges) /\ PaidBy \in [Charges -> Users]
ASSUME BoundsAssumption == {max_retries, MaxCreds, MaxEvents} \subseteq Nat /\ MaxCreds > 0

VARIABLES sub,        \* VPNSubscription rows
          paid,       \* charges with a Payment row
          reissuing,  \* users whose reissue request has read the subscription
          expiry,     \* subscriptions a deactivation has read, and who asked for it
          active,     \* nodes with is_active
          up,         \* nodes whose agent answers
          profile,    \* the credentials each agent lets in for a subscription
          task,       \* deliver_vpn_profile_task messages, a bag
          events,     \* bounded events so far
          closed,     \* history: subscriptions the administrator deactivated
          overtaken,  \* history: subscriptions renewed while an expiry was switching them off
          accident    \* history: <<subscription, node>> with a delivery lost or crossed

rowVars == <<sub, paid, reissuing>>
nodeVars == <<active, up, profile>>
historyVars == <<closed, overtaken, accident>>
vars == <<rowVars, expiry, nodeVars, task, events, historyVars>>

NoCreds == 0
NoSub == [creds |-> NoCreds, live |-> FALSE, left |-> 0]
NoExpiry == [step |-> "idle", subs |-> {}, admin |-> FALSE]

Tasks == [user : Users, node : Nodes, op : {"put", "delete"}, tries : 0..max_retries]

TypeOK ==
  /\ sub \in [Users -> [creds : 0..MaxCreds, live : BOOLEAN, left : 0..Cardinality(Charges)]]
  /\ paid \subseteq Charges
  /\ reissuing \subseteq Users
  /\ expiry \in [step : {"idle", "update"}, subs : SUBSET Users, admin : BOOLEAN]
  /\ active \subseteq Nodes
  /\ up \subseteq Nodes
  /\ profile \in [Nodes -> [Users -> 0..MaxCreds]]
  /\ DOMAIN task \subseteq Tasks /\ IsABag(task)
  /\ events \in 0..MaxEvents
  /\ closed \subseteq Users
  /\ overtaken \subseteq Users
  /\ accident \subseteq Users \X Nodes

\* A node is saved inactive, prepared, and then switched on.
Init ==
  /\ sub = [u \in Users |-> NoSub]
  /\ paid = {}
  /\ reissuing = {}
  /\ expiry = NoExpiry
  /\ active \in SUBSET Nodes
  /\ up = Nodes
  /\ profile = [n \in Nodes |-> [u \in Users |-> NoCreds]]
  /\ task = EmptyBag
  /\ events = 0
  /\ closed = {}
  /\ overtaken = {}
  /\ accident = {}

Event == events < MaxEvents /\ events' = events + 1

\* The subscription works (get_active_vpn_subscription).
Works(u) == sub[u].live /\ sub[u].left > 0

-------------------------------------------------------------------------------
(* Deliveries.                                                              *)

Pending(u, n, op) == \E t \in DOMAIN task : t.user = u /\ t.node = n /\ t.op = op
Opposite(op) == IF op = "put" THEN "delete" ELSE "put"

Messages(users, nodes, op) ==
  SetToBag({[user |-> u, node |-> n, op |-> op, tries |-> 0] : u \in users, n \in nodes})

\* To every node active now.  Deliveries cross when the opposite one is still
\* pending.
Schedule(users, op) ==
  /\ task' = task (+) Messages(users, active, op)
  /\ accident' = accident \union
                   {p \in users \X Nodes : Pending(p[1], p[2], Opposite(op))}

-------------------------------------------------------------------------------
(* Requests of a user, and time.                                            *)

RequestFrame == UNCHANGED <<expiry, nodeVars, events>>

Extended(u) == [creds |-> IF sub[u].creds = NoCreds THEN 1 ELSE sub[u].creds, live |-> TRUE,
                left |-> IF Works(u) THEN sub[u].left + 1 ELSE 1]

FulfillPurchaseMutant(c) ==   \* a lapsed subscription is not switched on again
  LET u == PaidBy[c]
  IN  /\ c \notin paid
      /\ paid' = paid \union {c}
      /\ sub' = [sub EXCEPT ![u] = [Extended(u) EXCEPT !.live = sub[u].live \/ sub[u].creds = NoCreds]]
      /\ Schedule({u}, "put")
      /\ closed' = closed \ {u}
      /\ overtaken' = IF u \in expiry.subs THEN overtaken \union {u} ELSE overtaken
      /\ RequestFrame
      /\ UNCHANGED reissuing

\* FulfillVPNPurchaseService: a charge already paid is answered from the row.
\* A working subscription gets a period more, any other one starts anew.
FulfillPurchase(c) ==
  LET u == PaidBy[c]
  IN  /\ c \notin paid
      /\ paid' = paid \union {c}
      /\ sub' = [sub EXCEPT ![u] = Extended(u)]
      /\ Schedule({u}, "put")
      /\ closed' = closed \ {u}
      /\ overtaken' = IF u \in expiry.subs THEN overtaken \union {u} ELSE overtaken
      /\ RequestFrame
      /\ UNCHANGED reissuing

\* A reissue reads a working subscription ...
ReadForReissue(u) == /\ u \notin reissuing
                     /\ Works(u)
                     /\ sub[u].creds < MaxCreds
                     /\ reissuing' = reissuing \union {u}
                     /\ RequestFrame
                     /\ UNCHANGED <<sub, paid, task, historyVars>>

\* ... and saves new credentials, and nothing else, whatever became of it.
SaveReissue(u) ==
  /\ u \in reissuing
  /\ reissuing' = reissuing \ {u}
  /\ sub' = [sub EXCEPT ![u].creds = @ + 1]
  /\ task' = task (+) Messages({u}, active, "put")
  /\ accident' = IF Works(u) /\ u \notin expiry.subs THEN accident
                 ELSE accident \union ({u} \X Nodes)
  /\ RequestFrame
  /\ UNCHANGED <<paid, closed, overtaken>>

\* A paid period passes.
Lapse(u) == /\ sub[u].left > 0
            /\ sub' = [sub EXCEPT ![u].left = @ - 1]
            /\ RequestFrame
            /\ UNCHANGED <<paid, reissuing, task, historyVars>>

-------------------------------------------------------------------------------
(* ExpireVPNSubscriptionsService, from the beat and from the administrator.  *)

\* The rows are read before the transaction that deactivates them.
ReadExpired ==
  LET expired == {u \in Users : sub[u].live /\ sub[u].left = 0}
  IN  /\ expiry.step = "idle"
      /\ expired # {}
      /\ expiry' = [step |-> "update", subs |-> expired, admin |-> FALSE]
      /\ UNCHANGED <<rowVars, nodeVars, task, events, historyVars>>

ReadSelected(u) ==
  /\ expiry.step = "idle"
  /\ sub[u].live
  /\ Event
  /\ expiry' = [step |-> "update", subs |-> {u}, admin |-> TRUE]
  /\ UNCHANGED <<rowVars, nodeVars, task, historyVars>>

\* Mutants (named ...Mutant) are plausible bugs; no specification uses them.
DeactivateMutant ==   \* the deletions are forgotten
  /\ expiry.step = "update"
  /\ sub' = [u \in Users |-> [sub[u] EXCEPT !.live = @ /\ u \notin expiry.subs]]
  /\ closed' = IF expiry.admin THEN closed \union expiry.subs ELSE closed
  /\ expiry' = NoExpiry
  /\ UNCHANGED <<paid, reissuing, nodeVars, task, events, overtaken, accident>>

\* The rows read are saved with is_active off, whatever became of them.
Deactivate ==
  /\ expiry.step = "update"
  /\ sub' = [u \in Users |-> [sub[u] EXCEPT !.live = @ /\ u \notin expiry.subs]]
  /\ Schedule(expiry.subs, "delete")
  /\ closed' = IF expiry.admin THEN closed \union expiry.subs ELSE closed
  /\ expiry' = NoExpiry
  /\ UNCHANGED <<paid, reissuing, nodeVars, events, overtaken>>

-------------------------------------------------------------------------------
(* deliver_vpn_profile_task.                                                *)

TaskFrame == UNCHANGED <<rowVars, expiry, active, up>>

DeliverMutant(t) ==   \* a node keeps the credentials it has
  /\ t.node \in up
  /\ task' = BagRemove(task, t)
  /\ profile' = [profile EXCEPT ![t.node][t.user] =
                   IF t.op = "put" THEN (IF @ = NoCreds THEN sub[t.user].creds ELSE @)
                   ELSE NoCreds]
  /\ TaskFrame
  /\ UNCHANGED <<events, historyVars>>

\* A PUT carries the credentials of now, for a subscription working or not.
Deliver(t) ==
  /\ t.node \in up
  /\ task' = BagRemove(task, t)
  /\ profile' = [profile EXCEPT ![t.node][t.user] =
                   IF t.op = "put" THEN sub[t.user].creds ELSE NoCreds]
  /\ TaskFrame
  /\ UNCHANGED <<events, historyVars>>

DeliveryFailsMutant(t) ==   \* retries are not limited
  /\ t.node \notin up
  /\ task' = BagAdd(BagRemove(task, t), [t EXCEPT !.tries = @ + 1])
  /\ TaskFrame
  /\ UNCHANGED <<profile, events, historyVars>>

\* No answer, or a 5xx: tried again, and in the end the administrator is told.
DeliveryFails(t) ==
  /\ t.node \notin up
  /\ \/ /\ t.tries < max_retries
        /\ task' = BagAdd(BagRemove(task, t), [t EXCEPT !.tries = @ + 1])
        /\ UNCHANGED accident
     \/ /\ t.tries = max_retries
        /\ task' = BagRemove(task, t)
        /\ accident' = accident \union {<<t.user, t.node>>}
  /\ TaskFrame
  /\ UNCHANGED <<profile, events, closed, overtaken>>

\* A 4xx or a missing agent token, a killed worker, an unreachable broker: the
\* delivery is given up at once.
DropTask(t) ==
  /\ Event
  /\ task' = BagRemove(task, t)
  /\ accident' = accident \union {<<t.user, t.node>>}
  /\ TaskFrame
  /\ UNCHANGED <<profile, closed, overtaken>>

-------------------------------------------------------------------------------
(* Nodes.                                                                   *)

NodeFrame == UNCHANGED <<rowVars, expiry, closed, overtaken>>

\* The administrator prepares an inactive node with the profiles of now.
Backfill(n) ==
  /\ n \notin active
  /\ Event
  /\ task' = task (+) Messages({u \in Users : Works(u)}, {n}, "put")
  /\ accident' = accident \union {<<u, n>> : u \in {i \in Users : Works(i) /\ Pending(i, n, "delete")}}
  /\ NodeFrame
  /\ UNCHANGED nodeVars

Prepared(u, n) == IF Works(u) THEN Pending(u, n, "put") \/ profile[n][u] = sub[u].creds
                              ELSE ~Pending(u, n, "put") /\ profile[n][u] = NoCreds

\* Whatever changed since the node was prepared is not known to it.
ActivateNode(n) ==
  /\ n \notin active
  /\ Event
  /\ active' = active \union {n}
  /\ accident' = accident \union {<<u, n>> : u \in {i \in Users : ~Prepared(i, n)}}
  /\ NodeFrame
  /\ UNCHANGED <<up, profile, task>>

DeactivateNode(n) == /\ n \in active
                     /\ Event
                     /\ active' = active \ {n}
                     /\ NodeFrame
                     /\ UNCHANGED <<up, profile, task, accident>>

\* A restarted agent asks for the profiles of every working subscription.
Bootstrap(n) ==
  /\ n \in up
  /\ Event
  /\ profile' = [profile EXCEPT ![n] = [u \in Users |-> IF Works(u) THEN sub[u].creds ELSE NoCreds]]
  /\ NodeFrame
  /\ UNCHANGED <<active, up, task, accident>>

Outage(n) == /\ n \in up
             /\ Event
             /\ up' = up \ {n}
             /\ NodeFrame
             /\ UNCHANGED <<active, profile, task, accident>>

Restore(n) == /\ n \notin up
              /\ up' = up \union {n}
              /\ NodeFrame
              /\ UNCHANGED <<active, profile, task, events, accident>>

-------------------------------------------------------------------------------
ExpiryNext == ReadExpired \/ Deactivate
TaskNext == \E t \in DOMAIN task : Deliver(t) \/ DeliveryFails(t)

Next == \/ \E c \in Charges : FulfillPurchase(c)
        \/ \E u \in Users : ReadForReissue(u) \/ SaveReissue(u) \/ Lapse(u) \/ ReadSelected(u)
        \/ ExpiryNext
        \/ TaskNext
        \/ \E t \in DOMAIN task : DropTask(t)
        \/ \E n \in Nodes : \/ Backfill(n) \/ ActivateNode(n) \/ DeactivateNode(n)
                            \/ Bootstrap(n) \/ Outage(n) \/ Restore(n)

Safety == Init /\ [][Next]_vars

\* The beat starts an expiry every five minutes, workers take what is queued.
Spec == Safety /\ WF_vars(ExpiryNext) /\ WF_vars(TaskNext)

-------------------------------------------------------------------------------
(* Properties.                                                              *)

Unsettled(u, n) == \E t \in DOMAIN task : t.user = u /\ t.node = n

\* An active node lets a working subscription in with its current credentials
\* as soon as no delivery is pending, and does not let a deactivated one in, unless
\* a delivery of it was lost, or crossed an opposite one or a node's preparation.
NodesLetInWhoPaid ==
  \A n \in active, u \in Users :
    <<u, n>> \notin accident /\ ~Unsettled(u, n) =>
      /\ Works(u) => profile[n][u] = sub[u].creds
      /\ ~sub[u].live => profile[n][u] = NoCreds

\* The access of a subscription that is over ends on every node, or its
\* deletion was lost or crossed.
AccessEnds ==
  \A u \in Users :
    sub[u].left = 0 ~> \/ sub[u].left > 0
                       \/ \A n \in active : <<u, n>> \in accident \/ profile[n][u] = NoCreds

\* Time that was paid for stays usable.  The exceptions are a deactivation by the
\* administrator and a renewal overtaken by an expiry that had already read the row:
\* that expiry switches the renewed subscription off.
OnlyOvertakenRenewalsAreLost ==
  \A u \in Users : sub[u].left > 0 /\ u \notin closed \union overtaken => sub[u].live

===============================================================================
