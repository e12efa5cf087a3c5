-------------------------------- MODULE KeyFleet --------------------------------
(***************************************************************************)
(* One key row per user, and its secret on every proxy server: issuing,    *)
(* extending, rotating and reviving keys, the Celery tasks that deliver a   *)
(* secret, the daily removal, the health check and the reconciliation of a  *)
(* recovered server.                                                       *)
(*                                                                         *)
(* Time is the stage of a row: fresh, due (it expires today) and lapsed    *)
(* (its moment has passed).  Secrets of a user are numbered; a row is known *)
(* by the number of its first secret.  Celery acknowledges early: a killed  *)
(* task is gone.  Deliveries of one secret at one attempt are one message.  *)
(***************************************************************************)
EXTENDS Naturals, FiniteSets

CONSTANTS Users,       \* usernames: the servers know a key by its owner
          Servers,     \* active VDSInstance rows, and the machines
          NoServer,    \* no server
          max_retries, \* of push_key_to_server_task
          MaxSecrets,  \* bound: secrets per user
          MaxEvents    \* bound: outages, lost tasks and the administrator's pushes

ASSUME ServersAssumption == NoServer \notin Servers
ASSUME BoundsAssumption == {max_retries, MaxSecrets, MaxEvents} \subseteq Nat

VARIABLES row,       \* each user's only MTPRotoKey row
          trialUsed, \* users with first_month_free_used
          rotating,  \* the row each rotation request has read
          healthy,   \* is_healthy of the servers
          up,        \* the machine answers
          store,     \* the secret each machine holds for a user
          fanout,    \* push_key_to_servers_task: <<user, row>>
          push,      \* push_key_to_server_task
          sync,      \* sync_keys_to_vds_task of each server
          removal,   \* remove_user_keys_daily
          check,     \* check_vds_health_task
          events,    \* outages, losses and administrator's pushes so far
          accident   \* history: the users something separated from the servers

taskVars == <<fanout, push, sync>>
jobVars == <<removal, check>>
rowVars == <<row, trialUsed, rotating>>
fleetVars == <<healthy, up, store>>
vars == <<rowVars, fleetVars, taskVars, jobVars, events, accident>>

-------------------------------------------------------------------------------
(* Rows and the selectors on them.                                          *)

Event == events < MaxEvents /\ events' = events + 1

None == 0
NoRow == [pk |-> None, secret |-> None, stage |-> "lapsed", live |-> FALSE]

get_active_key(u) == row[u].live /\ row[u].stage # "lapsed"
get_all_active_valid_keys == {u \in Users : get_active_key(u)}
get_keys_expired_up_to_date == {u \in Users : row[u].live /\ row[u].stage # "fresh"}
get_all_dead_expired_keys ==
  {u \in Users : row[u].pk # None /\ ~row[u].live /\ row[u].stage # "fresh"}

Pushes == [server : Servers, user : Users, secret : 1..MaxSecrets, tries : 0..max_retries]

\* A delivery of u's secret under way.
PendingPush(u) == \E p \in push : p.user = u
Delivering(u) == \/ PendingPush(u)
                 \/ <<u, row[u].pk>> \in fanout
                 \/ \E s \in Servers, k \in 1..MaxSecrets : <<u, k>> \in sync[s].left

TypeOK ==
  /\ row \in [Users -> [pk : 0..MaxSecrets, secret : 0..MaxSecrets,
                        stage : {"fresh", "due", "lapsed"}, live : BOOLEAN]]
  /\ trialUsed \subseteq Users
  /\ rotating \in [Users -> 0..MaxSecrets]
  /\ healthy \in [Servers -> BOOLEAN]
  /\ up \in [Servers -> BOOLEAN]
  /\ store \in [Servers -> [Users -> 0..MaxSecrets]]
  /\ fanout \subseteq Users \X (1..MaxSecrets)
  /\ push \subseteq Pushes
  /\ sync \in [Servers -> [queued : BOOLEAN, left : SUBSET (Users \X (1..MaxSecrets))]]
  /\ removal \in [step : {"idle", "delete", "update"}, names : SUBSET Users,
                  left : SUBSET Servers]
  /\ check \in [step : {"idle", "delete", "mark"}, server : Servers \union {NoServer},
                names : SUBSET Users]
  /\ events \in 0..MaxEvents
  /\ accident \subseteq Users

NoRemoval == [step |-> "idle", names |-> {}, left |-> {}]
NoCheck == [step |-> "idle", server |-> NoServer, names |-> {}]

Init ==
  /\ row = [u \in Users |-> NoRow]
  /\ trialUsed = {}
  /\ rotating = [u \in Users |-> None]
  /\ healthy = [s \in Servers |-> TRUE]
  /\ up = [s \in Servers |-> TRUE]
  /\ store = [s \in Servers |-> [u \in Users |-> None]]
  /\ fanout = {}
  /\ push = {}
  /\ sync = [s \in Servers |-> [queued |-> FALSE, left |-> {}]]
  /\ removal = NoRemoval
  /\ check = NoCheck
  /\ events = 0
  /\ accident = {}

\* A removal that has read the row goes on with what it read, a pending push with
\* the secret it carries.
AccidentOf(users) == accident' = accident \union users
AccidentIf(happened, u) == AccidentOf({i \in {u} : happened})
Overtaken(u) == PendingPush(u)
Removing(u) == removal.step # "idle" /\ u \in get_keys_expired_up_to_date

-------------------------------------------------------------------------------
(* Requests.                                                                *)

RequestFrame == UNCHANGED <<fleetVars, push, sync, jobVars, events>>

\* IssueKeyService: the old row is deleted, a new one inserted.
IssueKey(u) ==
  /\ row[u].secret < MaxSecrets
  /\ row' = [row EXCEPT ![u] = [pk |-> row[u].secret + 1, secret |-> row[u].secret + 1,
                                stage |-> "fresh", live |-> TRUE]]

\* A paid purchase or an activated certificate extends an active key, which is
\* on the servers already, or issues one and delivers it on commit.
GrantPeriod(u) ==
  /\ \/ /\ get_active_key(u)
        /\ row' = [row EXCEPT ![u].stage = "fresh"]
        /\ AccidentIf(Removing(u), u)
        /\ UNCHANGED fanout
     \/ /\ ~get_active_key(u)
        /\ IssueKey(u)
        /\ fanout' = fanout \union {<<u, row'[u].pk>>}
        /\ AccidentIf(Removing(u) \/ Overtaken(u), u)
  /\ RequestFrame
  /\ UNCHANGED <<trialUsed, rotating>>

\* The free trial publishes the delivery inside its transaction: a worker that
\* takes it before the commit finds no row and drops it.
FreeTrial(u) ==
  /\ u \notin trialUsed
  /\ IssueKey(u)
  /\ trialUsed' = trialUsed \union {u}
  /\ \/ /\ fanout' = fanout \union {<<u, row'[u].pk>>}
        /\ AccidentIf(Removing(u) \/ Overtaken(u), u)
     \/ /\ AccidentIf(TRUE, u)
        /\ UNCHANGED fanout
  /\ RequestFrame
  /\ UNCHANGED rotating

\* A confirmed redemption extends the row it was quoted for, dead or alive; a
\* key that was not active is delivered again.
ConfirmRedemption(u) ==
  /\ row[u].pk # None
  /\ row' = [row EXCEPT ![u].stage = "fresh", ![u].live = TRUE]
  /\ fanout' = IF get_active_key(u) THEN fanout ELSE fanout \union {<<u, row[u].pk>>}
  /\ AccidentIf(Removing(u), u)
  /\ RequestFrame
  /\ UNCHANGED <<trialUsed, rotating>>

\* UpdateKeyService reads the active key outside its transaction ...
ReadKeyToRotate(u) ==
  /\ rotating[u] = None
  /\ get_active_key(u)
  /\ rotating' = [rotating EXCEPT ![u] = row[u].pk]
  /\ RequestFrame
  /\ UNCHANGED <<row, trialUsed, fanout, accident>>

\* ... and saves the new secret over whatever became of the row, which it also
\* makes live: a row that had expired then joins a removal that has already read
\* the others.  A row deleted meanwhile is an error.
SaveRotatedKey(u) ==
  /\ rotating[u] # None
  /\ rotating' = [rotating EXCEPT ![u] = None]
  /\ \/ /\ row[u].pk = rotating[u]
        /\ row[u].secret < MaxSecrets
        /\ row' = [row EXCEPT ![u].secret = @ + 1, ![u].live = TRUE]
        /\ fanout' = fanout \union {<<u, row[u].pk>>}
        /\ AccidentIf((removal.step # "idle" /\ row[u].stage # "fresh") \/ Overtaken(u), u)
     \/ /\ row[u].pk # rotating[u]
        /\ UNCHANGED <<row, fanout, accident>>
  /\ RequestFrame
  /\ UNCHANGED trialUsed

\* A day passes, or the moment of expiry.  A removal looks for the rows due on
\* the day it started.
Age(u) ==
  /\ row[u].pk # None
  /\ \/ /\ row[u].stage = "fresh"
        /\ removal.step = "idle"
        /\ row' = [row EXCEPT ![u].stage = "due"]
     \/ /\ row[u].stage = "due"
        /\ row' = [row EXCEPT ![u].stage = "lapsed"]
  /\ RequestFrame
  /\ UNCHANGED <<trialUsed, rotating, fanout, accident>>

-------------------------------------------------------------------------------
(* Delivery of one key.                                                     *)

\* push_key_to_servers_task: the row's secret of now, to the servers healthy now.
FanOut(u, pk) ==
  /\ <<u, pk>> \in fanout
  /\ fanout' = fanout \ {<<u, pk>>}
  /\ push' = IF row[u].pk = pk
             THEN push \union {[server |-> s, user |-> u, secret |-> row[u].secret,
                                tries |-> 0] : s \in {i \in Servers : healthy[i]}}
             ELSE push
  /\ UNCHANGED <<rowVars, fleetVars, sync, jobVars, events, accident>>

\* The administrator pushes a valid key to every active server.
AdminPush(u) ==
  /\ get_active_key(u)
  /\ Event
  /\ push' = push \union {[server |-> s, user |-> u, secret |-> row[u].secret,
                           tries |-> 0] : s \in Servers}
  /\ AccidentIf(Removing(u), u)
  /\ UNCHANGED <<rowVars, fleetVars, fanout, sync, jobVars>>

PushFrame == UNCHANGED <<rowVars, healthy, up, fanout, sync, jobVars, events>>
Hold(s, u, secret) == store' = [store EXCEPT ![s][u] = secret]

\* Mutants (named ...Mutant) are plausible bugs; no specification uses them.
PushKeyMutant(p) ==   \* 409 is taken for a delivery
  /\ up[p.server]
  /\ store' = [store EXCEPT ![p.server][p.user] = IF @ = None THEN p.secret ELSE @]
  /\ push' = push \ {p}
  /\ PushFrame
  /\ UNCHANGED accident

\* POST stores the secret of an unknown user; a known one answers 409, and the
\* secret is replaced by a PATCH.  The refused POST changes nothing: the two
\* requests are one step, that of the second.
PushKey(p) ==
  /\ up[p.server]
  /\ Hold(p.server, p.user, p.secret)
  /\ push' = push \ {p}
  /\ PushFrame
  /\ UNCHANGED accident

PushFailsMutant(p) ==   \* retries are not limited
  /\ ~up[p.server]
  /\ push' = (push \ {p}) \union {[p EXCEPT !.tries = @ + 1]}
  /\ PushFrame
  /\ UNCHANGED <<store, accident>>

\* No answer: tried again, and in the end given up.  A retry that is given the
\* exception to report raises that one when none is left, not
\* MaxRetriesExceededError: the handler of the latter never runs, and the server
\* stays healthy.
PushFails(p) ==
  /\ ~up[p.server]
  /\ \/ /\ p.tries < max_retries
        /\ push' = (push \ {p}) \union {[p EXCEPT !.tries = @ + 1]}
        /\ UNCHANGED accident
     \/ /\ p.tries = max_retries
        /\ push' = push \ {p}
        /\ AccidentIf(TRUE, p.user)
  /\ PushFrame
  /\ UNCHANGED store

-------------------------------------------------------------------------------
(* remove_user_keys_daily.                                                  *)

RemovalFrame == UNCHANGED <<rowVars, up, taskVars, check, events>>

\* For every server the queryset is evaluated anew, just before the request that
\* deletes its owners there.
StartRemoval ==
  /\ removal.step = "idle"
  /\ get_keys_expired_up_to_date # {}
  /\ removal' = [step |-> "delete", names |-> get_keys_expired_up_to_date, left |-> Servers]
  /\ RemovalFrame
  /\ UNCHANGED <<healthy, store, accident>>

Forget(s, names) ==
  store' = [store EXCEPT ![s] = [u \in Users |-> IF u \in names THEN None ELSE @[u]]]

NextServer(s) == [step |-> IF removal.left = {s} THEN "update" ELSE "delete",
                  names |-> get_keys_expired_up_to_date, left |-> removal.left \ {s}]

DeleteFromMutant(s) ==   \* a server that could not be reached stays healthy
  /\ removal.step = "delete"
  /\ s \in removal.left
  /\ removal' = NextServer(s)
  /\ \/ up[s] /\ Forget(s, removal.names)
     \/ ~up[s] /\ UNCHANGED store
  /\ AccidentOf({u \in removal.names : Delivering(u) \/ check.server = s})
  /\ RemovalFrame
  /\ UNCHANGED healthy

DeleteFrom(s) ==
  /\ removal.step = "delete"
  /\ s \in removal.left
  /\ removal' = NextServer(s)
  /\ \/ up[s] /\ Forget(s, removal.names) /\ UNCHANGED healthy
     \/ ~up[s] /\ healthy' = [healthy EXCEPT ![s] = FALSE] /\ UNCHANGED store
  /\ AccidentOf({u \in removal.names : Delivering(u) \/ check.server = s})
  /\ RemovalFrame

\* The queryset is evaluated once more by the UPDATE.
DeactivateExpired ==
  /\ removal.step = "update"
  /\ row' = [u \in Users |-> [row[u] EXCEPT !.live = @ /\ u \notin get_keys_expired_up_to_date]]
  /\ removal' = NoRemoval
  /\ UNCHANGED <<trialUsed, rotating, fleetVars, taskVars, check, events, accident>>

-------------------------------------------------------------------------------
(* check_vds_health_task and the reconciliation of a recovered server.      *)

CheckFrame == UNCHANGED <<rowVars, up, fanout, push, removal, events, accident>>

TakeUp(s) == check' = [server |-> s, names |-> get_all_dead_expired_keys,
                       step |-> IF get_all_dead_expired_keys = {} THEN "mark" ELSE "delete"]

CheckHealthMutant(s) ==   \* waits for the dead keys instead of the expired ones
  /\ check.step = "idle"
  /\ ~healthy[s]
  /\ up[s]
  /\ get_all_dead_expired_keys = {}
  /\ TakeUp(s)
  /\ CheckFrame
  /\ UNCHANGED <<healthy, store, sync>>

\* An unhealthy server that answers is taken up, unless the daily removal has
\* expired keys left to remove; then the dead keys are read.
CheckHealth(s) ==
  /\ check.step = "idle"
  /\ ~healthy[s]
  /\ up[s]
  /\ get_keys_expired_up_to_date = {}
  /\ TakeUp(s)
  /\ CheckFrame
  /\ UNCHANGED <<healthy, store, sync>>

RemoveDeadKeys ==
  /\ check.step = "delete"
  /\ \/ /\ up[check.server]
        /\ Forget(check.server, check.names)
        /\ check' = [check EXCEPT !.step = "mark", !.names = {}]
     \/ /\ ~up[check.server]
        /\ check' = NoCheck
        /\ UNCHANGED store
  /\ CheckFrame
  /\ UNCHANGED <<healthy, sync>>

MarkHealthy ==
  /\ check.step = "mark"
  /\ healthy' = [healthy EXCEPT ![check.server] = TRUE]
  /\ sync' = [sync EXCEPT ![check.server].queued = TRUE]
  /\ check' = NoCheck
  /\ CheckFrame
  /\ UNCHANGED store

\* sync_keys_to_vds_task reads the valid keys once and posts them one by one.
StartSync(s) ==
  /\ sync[s].queued
  /\ sync[s].left = {}
  /\ sync' = [sync EXCEPT ![s] = [queued |-> FALSE,
                                  left |-> {<<u, row[u].secret>> : u \in get_all_active_valid_keys}]]
  /\ AccidentOf({u \in get_all_active_valid_keys : Removing(u)})
  /\ UNCHANGED <<rowVars, fleetVars, fanout, push, jobVars, events>>

SyncPostMutant(s, u, secret) ==   \* replaces what the server holds, as a push does
  /\ <<u, secret>> \in sync[s].left
  /\ sync' = [sync EXCEPT ![s].left = @ \ {<<u, secret>>}]
  /\ \/ up[s] /\ Hold(s, u, secret) /\ UNCHANGED accident
     \/ ~up[s] /\ AccidentIf(TRUE, u) /\ UNCHANGED store
  /\ UNCHANGED <<rowVars, healthy, up, fanout, push, jobVars, events>>

\* Here 409 is an answer like any other: what the server holds stays.
SyncPost(s, u, secret) ==
  /\ <<u, secret>> \in sync[s].left
  /\ sync' = [sync EXCEPT ![s].left = @ \ {<<u, secret>>}]
  /\ \/ /\ up[s] /\ store[s][u] = None
        /\ Hold(s, u, secret)
        /\ UNCHANGED accident
     \/ /\ up[s] /\ store[s][u] # None
        /\ AccidentIf(store[s][u] # secret, u)
        /\ UNCHANGED store
     \/ /\ ~up[s]
        /\ AccidentIf(TRUE, u)
        /\ UNCHANGED store
  /\ UNCHANGED <<rowVars, healthy, up, fanout, push, jobVars, events>>

\* The administrator starts a reconciliation, or moves the keys of a server to
\* the others, which posts the same keys.
AdminSync(s) ==
  /\ ~sync[s].queued
  /\ Event
  /\ sync' = [sync EXCEPT ![s].queued = TRUE]
  /\ UNCHANGED <<rowVars, fleetVars, fanout, push, jobVars, accident>>

-------------------------------------------------------------------------------
(* Accidents.                                                                *)

Outage(s) == /\ up[s]
             /\ Event
             /\ up' = [up EXCEPT ![s] = FALSE]
             /\ UNCHANGED <<rowVars, healthy, store, taskVars, jobVars, accident>>

Restore(s) == /\ ~up[s]
              /\ up' = [up EXCEPT ![s] = TRUE]
              /\ UNCHANGED <<rowVars, healthy, store, taskVars, jobVars, events, accident>>

\* A delivery the broker never got, or whose worker was killed.
LoseTask ==
  /\ Event
  /\ \/ \E f \in fanout : fanout' = fanout \ {f} /\ AccidentIf(TRUE, f[1]) /\ UNCHANGED <<push, sync>>
     \/ \E p \in push : push' = push \ {p} /\ AccidentIf(TRUE, p.user) /\ UNCHANGED <<fanout, sync>>
     \/ \E s \in Servers :
          /\ sync[s].queued
          /\ sync' = [sync EXCEPT ![s].queued = FALSE]
          /\ AccidentOf(Users)
          /\ UNCHANGED <<fanout, push>>
  /\ UNCHANGED <<rowVars, fleetVars, jobVars>>

-------------------------------------------------------------------------------
RequestNext == \E u \in Users : \/ GrantPeriod(u) \/ FreeTrial(u) \/ ConfirmRedemption(u)
                                \/ ReadKeyToRotate(u) \/ SaveRotatedKey(u) \/ Age(u)
PushNext == \/ \E f \in fanout : FanOut(f[1], f[2])
            \/ \E u \in Users : AdminPush(u)
            \/ \E p \in push : PushKey(p) \/ PushFails(p)
RemovalNext == StartRemoval \/ (\E s \in Servers : DeleteFrom(s))
               \/ DeactivateExpired
CheckNext == \/ \E s \in Servers : CheckHealth(s) \/ StartSync(s) \/ AdminSync(s)
             \/ RemoveDeadKeys \/ MarkHealthy
             \/ \E s \in Servers : \E k \in sync[s].left : SyncPost(s, k[1], k[2])
FaultNext == LoseTask \/ \E s \in Servers : Outage(s) \/ Restore(s)

Next == RequestNext \/ PushNext \/ RemovalNext \/ CheckNext \/ FaultNext

\* Beat starts the removal every morning and the health check every five
\* minutes, so that some check meets the fleet after the removal; machines are
\* restored.  Users and the administrator owe nothing.
Fairness == /\ WF_vars(RemovalNext)
            /\ WF_vars(RemoveDeadKeys \/ MarkHealthy)
            /\ \A s \in Servers : SF_vars(CheckHealth(s)) /\ WF_vars(Restore(s))

Safety == Init /\ [][Next]_vars
Spec == Safety /\ Fairness

-------------------------------------------------------------------------------
(* Properties.                                                              *)

\* What is still to happen on a server before it can be called wrong.
Underway(s, u) ==
  \/ ~healthy[s]
  \/ <<u, row[u].pk>> \in fanout
  \/ \E p \in push : p.server = s /\ p.user = u /\ p.secret = row[u].secret
  \/ sync[s].queued \/ <<u, row[u].secret>> \in sync[s].left
  \/ removal.step # "idle" /\ u \in get_keys_expired_up_to_date

\* A healthy server serves the secret of every valid row, or its delivery is
\* under way, unless one of seven accidents befell that row: a trial's
\* delivery taken before the commit, a lost task, a push given up, an older push pending when the
\* secret changed, a write or delivery that met the daily removal, a secret the
\* reconciliation did not replace, a failed reconciliation.  Nothing else
\* separates the fleet from the database.
ValidKeysAreServed ==
  \A s \in Servers, u \in Users :
    get_active_key(u) /\ u \notin accident /\ ~Underway(s, u) => store[s][u] = row[u].secret

\* A healthy server has forgotten every key the removal deactivated, with the
\* same exceptions.
DeadKeysAreGone ==
  \A s \in Servers : \A u \in get_all_dead_expired_keys :
    healthy[s] /\ u \notin accident => store[s][u] = None

\* Late, retried and repeated deliveries never bring an older secret back over
\* a newer one, with the same exceptions (an older push pending when the secret
\* changed is one).
SecretsOnlyMoveForward ==
  [][\A s \in Servers, u \in Users :
       store'[s][u] # None /\ u \notin accident' => store'[s][u] >= store[s][u]]_vars

\* A server out of the rotation comes back, whatever keys expire meanwhile.
ServersRecover == \A s \in Servers : ~healthy[s] ~> healthy[s]

\* A server that did not take a delivery, tried as often as may be, is unhealthy
\* from then on, so that the health check will make up for it.  FALSE in the code:
\* it stays healthy, and without the key.
GivenUpServersAreUnhealthy ==
  [][\A p \in push \ push' :
       p.tries = max_retries /\ ~up[p.server] /\ events' = events => ~healthy'[p.server]]_vars

===============================================================================
