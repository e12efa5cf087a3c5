----------------------------- MODULE KeyFleetProofs -----------------------------
(***************************************************************************)
(* What KeyFleet promises for any users, servers, retries and bounds: the  *)
(* runs show it for one user on one server.  FleetInv is the inductive      *)
(* invariant.  It follows every user by themselves: what servers,           *)
(* deliveries and jobs hold of a user no accident befell agrees with the    *)
(* user's row.                                                             *)
(***************************************************************************)
EXTENDS KeyFleet, TLAPS

Rows == [pk : 0..MaxSecrets, secret : 0..MaxSecrets, stage : {"fresh", "due", "lapsed"},
         live : BOOLEAN]

\* A live row exists, a dead one was not dead before its day, and a row is
\* known by its first secret.
RowOf(u) == /\ row[u].pk <= row[u].secret
            /\ row[u].live => row[u].pk # None
            /\ row[u].pk # None /\ ~row[u].live => row[u].stage # "fresh"

\* Nothing holds a secret the user does not have yet.
Bounds(u) == /\ \A s \in Servers : store[s][u] <= row[u].secret
             /\ \A p \in push : p.user = u => p.secret <= row[u].secret
             /\ \A s \in Servers, k \in 1..MaxSecrets :
                  <<u, k>> \in sync[s].left => k <= row[u].secret

\* Pending pushes carry the secret of now.
Current(u) == \A p \in push : p.user = u => p.secret = row[u].secret

\* A deactivated key is on no healthy server and no delivery will bring it back;
\* a health check under way has deleted it or is going to.
DeadIsGone(u) ==
  u \in get_all_dead_expired_keys =>
    /\ ~Delivering(u)
    /\ \A s \in Servers : healthy[s] => store[s][u] = None
    /\ check.step = "mark" => store[check.server][u] = None
    /\ check.step = "delete" => u \in check.names \/ store[check.server][u] = None

\* A removal deletes what is expired all the way through, and the servers it
\* has done with stay clean until the rows are deactivated.
RemovalKnows(u) ==
  removal.step # "idle" =>
    /\ removal.step = "delete" => (u \in removal.names <=> u \in get_keys_expired_up_to_date)
    /\ u \in get_keys_expired_up_to_date =>
         \A s \in Servers \ removal.left : /\ ~Delivering(u)
                                           /\ check.server # s
                                           /\ healthy[s] => store[s][u] = None

Served(u) ==
  \A s \in Servers : get_active_key(u) /\ ~Underway(s, u) => store[s][u] = row[u].secret

Sound(u) == u \notin accident => Current(u) /\ DeadIsGone(u) /\ RemovalKnows(u) /\ Served(u)

\* Only an unhealthy server is checked; the rows are deactivated after all servers.
JobsInv == /\ IF check.step = "idle" THEN check.server = NoServer
                                     ELSE check.server \in Servers /\ ~healthy[check.server]
           /\ removal.step = "update" => removal.left = {} /\ Servers # {}

FleetInv == TypeOK /\ JobsInv /\ \A u \in Users : RowOf(u) /\ Bounds(u) /\ Sound(u)

LEMMA FleetInit == Init => FleetInv
<1> SUFFICES ASSUME Init
             PROVE  FleetInv
  OBVIOUS
<1>1. NoRow \in Rows /\ {max_retries, MaxSecrets, MaxEvents} \subseteq Nat
  BY BoundsAssumption DEF NoRow, Rows, None
<1>2. TypeOK
  BY <1>1 DEF Init, TypeOK, Rows, NoRemoval, NoCheck, None
<1>3. JobsInv
  BY DEF Init, JobsInv, NoRemoval, NoCheck
<1>4. ASSUME NEW u \in Users
      PROVE  RowOf(u) /\ Bounds(u) /\ Sound(u)
  <2>1. row[u] = NoRow
    BY DEF Init
  <2>2. RowOf(u)
    BY <2>1 DEF RowOf, NoRow, None
  <2>3. Bounds(u)
    BY <2>1 DEF Init, Bounds, NoRow, None
  <2>4. Sound(u)
    BY <2>1 DEF Init, Sound, Current, DeadIsGone, RemovalKnows, Served, NoRow, NoRemoval,
                get_all_dead_expired_keys, get_active_key
  <2> QED
    BY <2>2, <2>3, <2>4
<1> QED
  BY <1>2, <1>3, <1>4 DEF FleetInv

-------------------------------------------------------------------------------
(* Requests.                                                                *)

Request(u) == \/ GrantPeriod(u) \/ FreeTrial(u) \/ ConfirmRedemption(u)
              \/ ReadKeyToRotate(u) \/ SaveRotatedKey(u) \/ Age(u)

\* A request that has no accident leaves the servers nothing to learn ...
Quiet(u) ==
  /\ row'[u].pk = row[u].pk /\ row'[u].secret = row[u].secret /\ row'[u].live = row[u].live
  /\ fanout' = fanout
  /\ \/ row'[u].stage = row[u].stage
     \/ row[u].stage = "fresh" /\ row'[u].stage = "due" /\ removal.step = "idle"
     \/ row[u].stage = "due" /\ row'[u].stage = "lapsed"
     \/ get_active_key(u) /\ row'[u].stage = "fresh" /\ ~Removing(u)

\* ... or delivers a row that no running removal has to do with.
Delivers(u) ==
  /\ row'[u].live
  /\ <<u, row'[u].pk>> \in fanout'
  /\ row'[u].secret = row[u].secret \/ ~PendingPush(u)
  /\ ~Removing(u)
  /\ removal.step # "idle" => row'[u].stage = "fresh"

\* What a request may change.
Effect(u) ==
  /\ row' \in [Users -> Rows]
  /\ \A i \in Users \ {u} : row'[i] = row[i]
  /\ RowOf(u)'
  /\ row[u].secret <= row'[u].secret
  /\ fanout' \in {fanout, fanout \union {<<u, row'[u].pk>>}}
  /\ fanout' \subseteq Users \X (1..MaxSecrets)
  /\ accident' \in {accident, accident \union {u}}
  /\ u \in accident' \/ Quiet(u) \/ Delivers(u)
  /\ UNCHANGED <<fleetVars, push, sync, jobVars, events>>

\* A user's accident is recorded, or did not happen.
LEMMA AccidentCases ==
  ASSUME NEW happened, NEW u, AccidentIf(happened, u)
  PROVE  \/ happened /\ accident' = accident \union {u}
         \/ ~happened /\ accident' = accident
<1>1. CASE happened
  BY <1>1 DEF AccidentIf, AccidentOf
<1>2. CASE ~happened
  BY <1>2 DEF AccidentIf, AccidentOf
<1> QED
  BY <1>1, <1>2

LEMMA RowTypes ==
  ASSUME FleetInv, NEW u \in Users
  PROVE  /\ row \in [Users -> Rows] /\ row[u] \in Rows
         /\ MaxSecrets \in Nat
         /\ row[u].pk \in Nat /\ row[u].secret \in Nat
         /\ fanout \subseteq Users \X (1..MaxSecrets)
         /\ RowOf(u)
BY BoundsAssumption DEF FleetInv, TypeOK, Rows

LEMMA IssueEffect ==
  ASSUME FleetInv, NEW u \in Users, IssueKey(u)
  PROVE  /\ row' \in [Users -> Rows]
         /\ \A i \in Users \ {u} : row'[i] = row[i]
         /\ row'[u] = [pk |-> row[u].secret + 1, secret |-> row[u].secret + 1,
                       stage |-> "fresh", live |-> TRUE]
         /\ RowOf(u)'
         /\ row[u].secret <= row'[u].secret
         /\ fanout \union {<<u, row'[u].pk>>} \subseteq Users \X (1..MaxSecrets)
<1>1. row'[u] = [pk |-> row[u].secret + 1, secret |-> row[u].secret + 1,
                 stage |-> "fresh", live |-> TRUE]
  BY RowTypes DEF IssueKey
<1>2. row'[u] \in Rows /\ row'[u].pk \in 1..MaxSecrets
  BY <1>1, RowTypes DEF IssueKey, Rows
<1>3. row' \in [Users -> Rows] /\ \A i \in Users \ {u} : row'[i] = row[i]
  BY <1>2, RowTypes DEF IssueKey
<1>4. RowOf(u)' /\ row[u].secret <= row'[u].secret
  BY <1>1, RowTypes DEF RowOf, None
<1> QED
  BY <1>1, <1>2, <1>3, <1>4, RowTypes

\* A row that was not there, or is replaced, or is dead, is delivered.
LEMMA IssueDelivers ==
  ASSUME FleetInv, NEW u \in Users, IssueKey(u), RequestFrame,
         \/ /\ fanout' = fanout \union {<<u, row'[u].pk>>}
            /\ AccidentIf(Removing(u) \/ Overtaken(u), u)
         \/ fanout' = fanout /\ AccidentIf(TRUE, u)
  PROVE  Effect(u)
<1>1. accident' \in {accident, accident \union {u}}
  BY AccidentCases
<1>2. u \in accident' \/ (/\ fanout' = fanout \union {<<u, row'[u].pk>>}
                          /\ ~Removing(u) /\ ~PendingPush(u))
  <2>1. CASE AccidentIf(Removing(u) \/ Overtaken(u), u) /\ fanout' = fanout \union {<<u, row'[u].pk>>}
    BY <2>1, AccidentCases DEF Overtaken
  <2>2. CASE AccidentIf(TRUE, u)
    BY <2>2, AccidentCases
  <2> QED
    BY <2>1, <2>2
<1>3. u \in accident' \/ Delivers(u)
  <2>1. row'[u] = [pk |-> row[u].secret + 1, secret |-> row[u].secret + 1,
                   stage |-> "fresh", live |-> TRUE]
    BY IssueEffect
  <2>2. row'[u].live /\ row'[u].stage = "fresh"
    BY <2>1
  <2> QED
    BY <1>2, <2>2 DEF Delivers
<1>4. UNCHANGED <<fleetVars, push, sync, jobVars, events>>
  BY DEF RequestFrame
<1> QED
  BY <1>1, <1>3, <1>4, IssueEffect, RowTypes DEF Effect

LEMMA GrantEffect ==
  ASSUME FleetInv, NEW u \in Users, GrantPeriod(u)
  PROVE  Effect(u)
<1>1. CASE ~get_active_key(u)
  BY <1>1, IssueDelivers DEF GrantPeriod
<1>2. CASE get_active_key(u)
  <2>1. /\ row' = [row EXCEPT ![u].stage = "fresh"]
        /\ AccidentIf(Removing(u), u)
        /\ fanout' = fanout
        /\ RequestFrame
    BY <1>2 DEF GrantPeriod
  <2>2. row' = [row EXCEPT ![u] = [row[u] EXCEPT !.stage = "fresh"]]
    BY <2>1
  <2>3. /\ row'[u] \in Rows /\ row'[u].stage = "fresh" /\ row'[u].pk = row[u].pk
        /\ row'[u].secret = row[u].secret /\ row'[u].live = row[u].live
    BY <2>2, RowTypes DEF Rows
  <2>4. row' \in [Users -> Rows] /\ \A i \in Users \ {u} : row'[i] = row[i]
    BY <2>2, <2>3, RowTypes
  <2>5. row[u].live
    BY <1>2 DEF get_active_key
  <2>6. RowOf(u)'
    BY <2>3, <2>5, RowTypes DEF RowOf
  <2>7. accident' \in {accident, accident \union {u}} /\ (u \in accident' \/ ~Removing(u))
    BY <2>1, AccidentCases
  <2>8. u \in accident' \/ Quiet(u)
    BY <1>2, <2>1, <2>3, <2>7 DEF Quiet
  <2>9. UNCHANGED <<fleetVars, push, sync, jobVars, events>>
    BY <2>1 DEF RequestFrame
  <2> QED
    BY <2>1, <2>3, <2>4, <2>6, <2>7, <2>8, <2>9, RowTypes DEF Effect
<1> QED
  BY <1>1, <1>2

LEMMA TrialEffect ==
  ASSUME FleetInv, NEW u \in Users, FreeTrial(u)
  PROVE  Effect(u)
BY IssueDelivers DEF FreeTrial

LEMMA RedemptionEffect ==
  ASSUME FleetInv, NEW u \in Users, ConfirmRedemption(u)
  PROVE  Effect(u)
<1>1. row' = [row EXCEPT ![u] = [row[u] EXCEPT !.stage = "fresh", !.live = TRUE]]
  BY RowTypes DEF ConfirmRedemption
<1>2. /\ row'[u] \in Rows /\ row'[u].stage = "fresh" /\ row'[u].pk = row[u].pk
      /\ row'[u].secret = row[u].secret /\ row'[u].live
  BY <1>1, RowTypes DEF Rows
<1>3. row' \in [Users -> Rows] /\ \A i \in Users \ {u} : row'[i] = row[i]
  BY <1>1, <1>2, RowTypes
<1>4. row[u].pk # None
  BY DEF ConfirmRedemption
<1>5. RowOf(u)'
  BY <1>2, <1>4, RowTypes DEF RowOf
<1>6. accident' \in {accident, accident \union {u}} /\ (u \in accident' \/ ~Removing(u))
  BY AccidentCases DEF ConfirmRedemption
<1>7. UNCHANGED <<fleetVars, push, sync, jobVars, events>>
  BY DEF ConfirmRedemption, RequestFrame
<1>8. row[u].pk \in 1..MaxSecrets
  BY <1>4, RowTypes DEF Rows, None
<1>9. CASE get_active_key(u)
  <2>1. fanout' = fanout /\ row[u].live
    BY <1>9 DEF ConfirmRedemption, get_active_key
  <2>2. u \in accident' \/ Quiet(u)
    BY <1>2, <1>6, <1>9, <2>1 DEF Quiet
  <2> QED
    BY <1>2, <1>3, <1>5, <1>6, <1>7, <2>1, <2>2, RowTypes DEF Effect
<1>10. CASE ~get_active_key(u)
  <2>1. fanout' = fanout \union {<<u, row'[u].pk>>}
    BY <1>2, <1>10 DEF ConfirmRedemption
  <2>2. u \in accident' \/ Delivers(u)
    BY <1>2, <1>6, <2>1 DEF Delivers
  <2> QED
    BY <1>2, <1>3, <1>5, <1>6, <1>7, <1>8, <2>1, <2>2, RowTypes DEF Effect
<1> QED
  BY <1>9, <1>10

LEMMA RotationEffect ==
  ASSUME FleetInv, NEW u \in Users, SaveRotatedKey(u)
  PROVE  Effect(u)
<1>1. UNCHANGED <<fleetVars, push, sync, jobVars, events>>
  BY DEF SaveRotatedKey, RequestFrame
<1>2. CASE UNCHANGED <<row, fanout, accident>>
  <2>1. Quiet(u) /\ RowOf(u)'
    BY <1>2, RowTypes DEF Quiet, RowOf
  <2> QED
    BY <1>1, <1>2, <2>1, RowTypes DEF Effect
<1>3. CASE /\ row[u].pk = rotating[u]
           /\ row[u].secret < MaxSecrets
           /\ row' = [row EXCEPT ![u].secret = @ + 1, ![u].live = TRUE]
           /\ fanout' = fanout \union {<<u, row[u].pk>>}
           /\ AccidentIf((removal.step # "idle" /\ row[u].stage # "fresh") \/ Overtaken(u), u)
  <2>1. row' = [row EXCEPT ![u] = [row[u] EXCEPT !.secret = row[u].secret + 1, !.live = TRUE]]
    BY <1>3, RowTypes DEF Rows
  <2>2. /\ row'[u] \in Rows /\ row'[u].stage = row[u].stage /\ row'[u].pk = row[u].pk
        /\ row'[u].secret = row[u].secret + 1 /\ row'[u].live
    <3>1. row[u].secret + 1 \in 0..MaxSecrets
      BY <1>3, RowTypes
    <3>2. row'[u] = [row[u] EXCEPT !.secret = row[u].secret + 1, !.live = TRUE]
      BY <2>1, RowTypes
    <3> QED
      BY <3>1, <3>2, RowTypes DEF Rows
  <2>3. row' \in [Users -> Rows] /\ \A i \in Users \ {u} : row'[i] = row[i]
    BY <2>1, <2>2, RowTypes
  <2>4. row[u].pk # None
    BY <1>3 DEF SaveRotatedKey
  <2>5. RowOf(u)' /\ row[u].secret <= row'[u].secret /\ row[u].pk \in 1..MaxSecrets
    BY <2>2, <2>4, RowTypes DEF RowOf, Rows, None
  <2>6. /\ accident' \in {accident, accident \union {u}}
        /\ u \in accident' \/ (/\ ~(removal.step # "idle" /\ row[u].stage # "fresh")
                               /\ ~PendingPush(u))
    BY <1>3, AccidentCases DEF Overtaken
  <2>7. u \in accident' \/ Delivers(u)
    BY <1>3, <2>2, <2>6 DEF Delivers, Removing, get_keys_expired_up_to_date
  <2> QED
    BY <1>1, <1>3, <2>2, <2>3, <2>5, <2>6, <2>7, RowTypes DEF Effect
<1> QED
  BY <1>2, <1>3 DEF SaveRotatedKey

LEMMA AgeEffect ==
  ASSUME FleetInv, NEW u \in Users, Age(u)
  PROVE  Effect(u)
<1>1. UNCHANGED <<fleetVars, push, sync, jobVars, events, fanout, accident>> /\ row[u].pk # None
  BY DEF Age, RequestFrame
<1>2. PICK stage \in {"due", "lapsed"} :
        /\ row' = [row EXCEPT ![u] = [row[u] EXCEPT !.stage = stage]]
        /\ \/ row[u].stage = "fresh" /\ stage = "due" /\ removal.step = "idle"
           \/ row[u].stage = "due" /\ stage = "lapsed"
  BY DEF Age
<1>3. /\ row'[u] \in Rows /\ row'[u].stage = stage /\ row'[u].pk = row[u].pk
      /\ row'[u].secret = row[u].secret /\ row'[u].live = row[u].live
  BY <1>2, RowTypes DEF Rows
<1>4. row' \in [Users -> Rows] /\ \A i \in Users \ {u} : row'[i] = row[i]
  BY <1>2, <1>3, RowTypes
<1>5. RowOf(u)'
  BY <1>2, <1>3, RowTypes DEF RowOf
<1>6. Quiet(u)
  BY <1>1, <1>2, <1>3 DEF Quiet
<1> QED
  BY <1>1, <1>3, <1>4, <1>5, <1>6, RowTypes DEF Effect

LEMMA RequestEffect ==
  ASSUME FleetInv, NEW u \in Users, Request(u)
  PROVE  Effect(u)
<1>1. CASE ReadKeyToRotate(u)
  <2>1. UNCHANGED <<fleetVars, push, sync, jobVars, events, row, fanout, accident>>
    BY <1>1 DEF ReadKeyToRotate, RequestFrame
  <2>2. Quiet(u) /\ RowOf(u)'
    BY <2>1, RowTypes DEF Quiet, RowOf
  <2> QED
    BY <2>1, <2>2, RowTypes DEF Effect
<1> QED
  BY <1>1, GrantEffect, TrialEffect, RedemptionEffect, RotationEffect, AgeEffect DEF Request

-------------------------------------------------------------------------------
(* Steps about one user leave the others alone.                             *)

UserInv(u) == RowOf(u) /\ Bounds(u) /\ Sound(u)

SameFor(i) ==
  /\ row'[i] = row[i]
  /\ \A s \in Servers : store'[s][i] = store[s][i]
  /\ \A p : p.user = i => (p \in push' <=> p \in push)
  /\ \A k : <<i, k>> \in fanout' <=> <<i, k>> \in fanout
  /\ \A s \in Servers : \A k : <<i, k>> \in sync'[s].left <=> <<i, k>> \in sync[s].left
  /\ \A s \in Servers : sync[s].queued => sync'[s].queued
  /\ UNCHANGED <<healthy, removal, check>>
  /\ accident \subseteq accident'

LEMMA SameExpiry ==
  ASSUME NEW i \in Users, row'[i] = row[i]
  PROVE  /\ i \in get_keys_expired_up_to_date' <=> i \in get_keys_expired_up_to_date
         /\ i \in get_all_dead_expired_keys' <=> i \in get_all_dead_expired_keys
         /\ get_active_key(i)' <=> get_active_key(i)
BY DEF get_keys_expired_up_to_date, get_all_dead_expired_keys, get_active_key

LEMMA SameUser ==
  ASSUME NEW i \in Users, SameFor(i), UserInv(i), check.step # "idle" => check.server \in Servers
  PROVE  UserInv(i)'
<1>1. RowOf(i)'
  BY DEF UserInv, SameFor, RowOf
<1>2. Bounds(i)'
  BY DEF UserInv, SameFor, Bounds
<1>3. ASSUME i \notin accident'
      PROVE  Current(i)' /\ DeadIsGone(i)' /\ RemovalKnows(i)' /\ Served(i)'
  <2>1. Sound(i) /\ i \notin accident
    BY <1>3 DEF UserInv, SameFor
  <2>2. Current(i)'
    BY <2>1 DEF Sound, SameFor, Current
  <2>3. Delivering(i)' => Delivering(i)
    BY DEF SameFor, Delivering, PendingPush
  <2>4. DeadIsGone(i)'
    BY <2>1, <2>3, SameExpiry DEF Sound, SameFor, DeadIsGone
  <2>5. RemovalKnows(i)'
    BY <2>1, <2>3, SameExpiry DEF Sound, SameFor, RemovalKnows
  <2>6. ASSUME NEW s \in Servers
        PROVE  Underway(s, i) => Underway(s, i)'
    BY <2>6, SameExpiry DEF SameFor, Underway
  <2>7. Served(i)'
    BY <2>1, <2>6, SameExpiry DEF Sound, SameFor, Served
  <2> QED
    BY <2>2, <2>4, <2>5, <2>7
<1> QED
  BY <1>1, <1>2, <1>3 DEF UserInv, Sound

LEMMA InvParts ==
  ASSUME FleetInv, NEW u \in Users
  PROVE  /\ UserInv(u)
         /\ check.step = "idle" => check.server = NoServer
         /\ check.step # "idle" => check.server \in Servers /\ ~healthy[check.server]
BY DEF FleetInv, UserInv, JobsInv

LEMMA RequestOthers ==
  ASSUME FleetInv, NEW u \in Users, Effect(u), NEW i \in Users \ {u}
  PROVE  UserInv(i)'
<1>1. SameFor(i)
  BY DEF Effect, SameFor, fleetVars, jobVars
<1> QED
  BY <1>1, InvParts, SameUser

LEMMA RequestUser ==
  ASSUME FleetInv, NEW u \in Users, Effect(u)
  PROVE  UserInv(u)'
<1>1. UNCHANGED <<store, healthy, push, sync, removal, check>> /\ RowOf(u)'
  BY DEF Effect, fleetVars, jobVars
<1>2. Bounds(u)'
  <2>1. \A n \in Nat : n <= row[u].secret => n <= row'[u].secret
    BY RowTypes DEF Effect, Rows
  <2>2. /\ \A s \in Servers : store[s][u] \in Nat
        /\ \A p \in push : p.secret \in Nat
    BY BoundsAssumption DEF FleetInv, TypeOK, Pushes
  <2> QED
    BY <1>1, <2>1, <2>2, InvParts DEF UserInv, Bounds
<1>3. ASSUME u \notin accident', Quiet(u)
      PROVE  Current(u)' /\ DeadIsGone(u)' /\ RemovalKnows(u)' /\ Served(u)'
  <2>1. u \notin accident /\ Sound(u)
    BY <1>3, InvParts DEF Effect, UserInv
  <2>2. Current(u)'
    BY <1>1, <1>3, <2>1 DEF Quiet, Sound, Current
  <2>3. Delivering(u)' => Delivering(u)
    BY <1>1, <1>3 DEF Quiet, Delivering, PendingPush
  <2>4. row[u].live => row[u].pk # None
    BY RowTypes DEF RowOf
  <2>5. u \in get_all_dead_expired_keys' => u \in get_all_dead_expired_keys
    BY <1>3, <2>4, RowTypes DEF Quiet, get_all_dead_expired_keys, get_active_key, RowOf
  <2>6. DeadIsGone(u)'
    BY <1>1, <2>1, <2>3, <2>5 DEF Sound, DeadIsGone
  <2>7. removal.step # "idle" => (u \in get_keys_expired_up_to_date' <=> u \in get_keys_expired_up_to_date)
    BY <1>3 DEF Quiet, get_keys_expired_up_to_date, get_active_key, Removing
  <2>8. RemovalKnows(u)'
    BY <1>1, <2>1, <2>3, <2>7 DEF Sound, RemovalKnows
  <2>9. get_active_key(u)' => get_active_key(u)
    BY <1>3 DEF Quiet, get_active_key
  <2>10. ASSUME NEW s \in Servers
         PROVE  Underway(s, u) => Underway(s, u)'
    BY <1>1, <1>3, <2>7 DEF Quiet, Underway
  <2>11. Served(u)'
    BY <1>1, <1>3, <2>1, <2>9, <2>10 DEF Quiet, Sound, Served
  <2> QED
    BY <2>2, <2>6, <2>8, <2>11
<1>4. ASSUME u \notin accident', Delivers(u)
      PROVE  Current(u)' /\ DeadIsGone(u)' /\ RemovalKnows(u)' /\ Served(u)'
  <2>1. u \notin accident /\ Sound(u)
    BY <1>4, InvParts DEF Effect, UserInv
  <2>2. Current(u)'
    BY <1>1, <1>4, <2>1 DEF Delivers, Sound, Current, PendingPush
  <2>3. DeadIsGone(u)'
    BY <1>4 DEF Delivers, DeadIsGone, get_all_dead_expired_keys
  <2>4. removal.step # "idle" => /\ u \notin get_keys_expired_up_to_date'
                                 /\ u \notin get_keys_expired_up_to_date
    BY <1>4 DEF Delivers, Removing, get_keys_expired_up_to_date
  <2>5. RemovalKnows(u)'
    BY <1>1, <2>1, <2>4 DEF Sound, RemovalKnows
  <2>6. Served(u)'
    BY <1>4 DEF Delivers, Served, Underway
  <2> QED
    BY <2>2, <2>3, <2>5, <2>6
<1>5. Sound(u)'
  BY <1>3, <1>4 DEF Effect, Sound
<1> QED
  BY <1>1, <1>2, <1>5 DEF UserInv

-------------------------------------------------------------------------------
(* Deliveries.                                                              *)

\* A step that delivers something to u, or gives it up: what is dead or removed
\* had no delivery, and gets none.
LEMMA DeliveredUser ==
  ASSUME FleetInv, NEW u \in Users, UNCHANGED <<row, healthy, removal, check>>,
         accident \subseteq accident', Bounds(u)',
         \/ u \in accident'
         \/ /\ Current(u)' /\ Served(u)'
            /\ \/ Delivering(u)
               \/ ~Delivering(u)' /\ \A s \in Servers : store'[s][u] = store[s][u]
               \/ u \notin get_all_dead_expired_keys /\ ~Removing(u)
  PROVE  UserInv(u)'
<1>1. RowOf(u)'
  BY RowTypes DEF RowOf
<1>2. ASSUME u \notin accident'
      PROVE  DeadIsGone(u)' /\ RemovalKnows(u)'
  <2>1. DeadIsGone(u) /\ RemovalKnows(u)
    BY <1>2, InvParts DEF UserInv, Sound
  <2>2. DeadIsGone(u)'
    BY <1>2, <2>1, SameExpiry, InvParts DEF DeadIsGone
  <2>3. RemovalKnows(u)'
    BY <1>2, <2>1, SameExpiry DEF RemovalKnows, Removing
  <2> QED
    BY <2>2, <2>3
<1> QED
  BY <1>1, <1>2 DEF UserInv, Sound

\* The types of what servers and deliveries hold.
LEMMA DeliveryTypes ==
  ASSUME FleetInv
  PROVE  /\ push \subseteq Pushes
         /\ store \in [Servers -> [Users -> 0..MaxSecrets]]
         /\ sync \in [Servers -> [queued : BOOLEAN, left : SUBSET (Users \X (1..MaxSecrets))]]
         /\ fanout \subseteq Users \X (1..MaxSecrets)
         /\ MaxSecrets \in Nat /\ max_retries \in Nat
BY BoundsAssumption DEF FleetInv, TypeOK

\* New pushes of u, all with the secret of now.
LEMMA NewPushes ==
  ASSUME FleetInv, NEW u \in Users, NEW S \in SUBSET Servers,
         push' = push \union {[server |-> s, user |-> u, secret |-> row[u].secret,
                               tries |-> 0] : s \in S},
         UNCHANGED <<row, store, healthy, sync, removal, check>>,
         accident \subseteq accident'
  PROVE  /\ Bounds(u)'
         /\ u \notin accident' => Current(u)'
         /\ \A s \in S : \E p \in push' : p.server = s /\ p.user = u /\ p.secret = row[u].secret
<1>1. \A p \in push' \ push : p.user = u /\ p.secret = row[u].secret
  OBVIOUS
<1>2. Bounds(u)'
  BY <1>1, InvParts, RowTypes DEF UserInv, Bounds
<1>3. u \notin accident' => Current(u)'
  BY <1>1, InvParts DEF UserInv, Sound, Current
<1>4. ASSUME NEW s \in S
      PROVE  \E p \in push' : p.server = s /\ p.user = u /\ p.secret = row[u].secret
  <2> DEFINE p == [server |-> s, user |-> u, secret |-> row[u].secret, tries |-> 0]
  <2>1. p \in push' /\ p.server = s /\ p.user = u /\ p.secret = row[u].secret
    OBVIOUS
  <2> QED
    BY <2>1
<1> QED
  BY <1>2, <1>3, <1>4

LEMMA FanOutUsers ==
  ASSUME FleetInv, NEW u \in Users, NEW pk, FanOut(u, pk), NEW i \in Users
  PROVE  UserInv(i)'
<1>1. /\ <<u, pk>> \in fanout /\ fanout' = fanout \ {<<u, pk>>}
      /\ UNCHANGED <<row, store, healthy, sync, removal, check, accident>>
  BY DEF FanOut, rowVars, fleetVars, jobVars
<1>2. CASE i # u
  <2>1. \A p : p.user = i => (p \in push' <=> p \in push)
    BY <1>2 DEF FanOut
  <2>2. SameFor(i)
    BY <1>1, <1>2, <2>1 DEF SameFor
  <2> QED
    BY <2>2, InvParts, SameUser
<1>3. CASE i = u /\ row[u].pk = pk
  <2> DEFINE S == {s \in Servers : healthy[s]}
  <2>1. S \in SUBSET Servers
    OBVIOUS
  <2>2. push' = push \union {[server |-> s, user |-> u, secret |-> row[u].secret,
                              tries |-> 0] : s \in S}
    BY <1>3 DEF FanOut
  <2>3. /\ Bounds(u)'
        /\ u \notin accident' => Current(u)'
        /\ \A s \in S : \E p \in push' : p.server = s /\ p.user = u /\ p.secret = row[u].secret
    <3> HIDE DEF S
    <3> QED
      BY <1>1, <2>1, <2>2, NewPushes
  <2>4. \A s \in Servers : Underway(s, u)'
    BY <1>1, <2>3 DEF Underway
  <2>5. Served(u)' /\ Delivering(u)
    BY <1>1, <1>3, <2>4 DEF Served, Delivering
  <2> QED
    BY <1>1, <1>3, <2>3, <2>5, DeliveredUser
<1>4. CASE i = u /\ row[u].pk # pk
  <2>1. push' = push
    BY <1>4 DEF FanOut
  <2>2. Bounds(u)' /\ (u \notin accident' => Current(u)')
    BY <1>1, <2>1, InvParts DEF UserInv, Bounds, Sound, Current
  <2>3. Delivering(u)' => Delivering(u)
    BY <1>1, <2>1 DEF Delivering, PendingPush
  <2>4. \A s \in Servers : Underway(s, u) => Underway(s, u)'
    BY <1>1, <1>4, <2>1, SameExpiry DEF Underway
  <2>5. u \notin accident' => Served(u)'
    BY <1>1, <2>4, SameExpiry, InvParts DEF UserInv, Sound, Served
  <2> QED
    BY <1>1, <1>4, <2>2, <2>3, <2>5, DeliveredUser
<1> QED
  BY <1>2, <1>3, <1>4

LEMMA AdminPushUsers ==
  ASSUME FleetInv, NEW u \in Users, AdminPush(u), NEW i \in Users
  PROVE  UserInv(i)'
<1>1. /\ get_active_key(u)
      /\ UNCHANGED <<row, store, healthy, fanout, sync, removal, check>>
      /\ accident' \in {accident, accident \union {u}} /\ (u \in accident' \/ ~Removing(u))
  BY AccidentCases DEF AdminPush, rowVars, fleetVars, jobVars
<1>2. CASE i # u
  <2>1. \A p : p.user = i => (p \in push' <=> p \in push)
    BY <1>2 DEF AdminPush
  <2>2. SameFor(i)
    BY <1>1, <1>2, <2>1 DEF SameFor
  <2> QED
    BY <2>2, InvParts, SameUser
<1>3. CASE i = u
  <2>1. /\ Bounds(u)'
        /\ u \notin accident' => Current(u)'
        /\ \A s \in Servers : \E p \in push' : p.server = s /\ p.user = u /\ p.secret = row[u].secret
    BY <1>1, NewPushes DEF AdminPush
  <2>2. \A s \in Servers : Underway(s, u)'
    BY <1>1, <2>1 DEF Underway
  <2>3. Served(u)' /\ u \notin get_all_dead_expired_keys
    BY <1>1, <2>2 DEF Served, get_active_key, get_all_dead_expired_keys
  <2> QED
    BY <1>1, <1>3, <2>1, <2>3, DeliveredUser
<1> QED
  BY <1>2, <1>3

LEMMA PushUsers ==
  ASSUME FleetInv, NEW p \in push, PushKey(p), NEW i \in Users
  PROVE  UserInv(i)'
<1> DEFINE u == p.user
<1>1. u \in Users /\ p.server \in Servers /\ p.secret \in 1..MaxSecrets
  BY DeliveryTypes DEF Pushes
<1>2. /\ push' = push \ {p}
      /\ UNCHANGED <<row, healthy, fanout, sync, removal, check, accident>>
  BY DEF PushKey, PushFrame, rowVars, jobVars
<1>3. store' = [store EXCEPT ![p.server] = [store[p.server] EXCEPT ![u] = p.secret]]
  BY DeliveryTypes DEF PushKey, Hold
<1>4. \A s \in Servers, j \in Users :
        store'[s][j] = IF s = p.server /\ j = u THEN p.secret ELSE store[s][j]
  BY <1>1, <1>3, DeliveryTypes
<1>5. CASE i # u
  <2>1. SameFor(i)
    BY <1>2, <1>4, <1>5 DEF SameFor
  <2> QED
    BY <2>1, InvParts, SameUser
<1>6. CASE i = u
  <2>1. Bounds(u)'
    BY <1>1, <1>2, <1>4, InvParts DEF UserInv, Bounds
  <2>2. u \notin accident' => Current(u)'
    BY <1>1, <1>2, InvParts DEF UserInv, Sound, Current
  <2>3. u \notin accident => p.secret = row[u].secret
    BY <1>1, InvParts DEF UserInv, Sound, Current
  <2>4. \A s \in Servers : s # p.server /\ Underway(s, u) => Underway(s, u)'
    BY <1>1, <1>2, SameExpiry DEF Underway
  <2>5. u \notin accident' => Served(u)'
    BY <1>1, <1>2, <1>4, <2>3, <2>4, SameExpiry, InvParts DEF UserInv, Sound, Served
  <2>6. Delivering(u)
    BY DEF Delivering, PendingPush
  <2> QED
    BY <1>1, <1>2, <1>6, <2>1, <2>2, <2>5, <2>6, DeliveredUser
<1> QED
  BY <1>5, <1>6

LEMMA PushFailsUsers ==
  ASSUME FleetInv, NEW p \in push, PushFails(p), NEW i \in Users
  PROVE  UserInv(i)'
<1> DEFINE u == p.user
           q == [p EXCEPT !.tries = @ + 1]
<1>1. u \in Users /\ UNCHANGED <<row, store, healthy, fanout, sync, removal, check>>
  BY DeliveryTypes DEF PushFails, PushFrame, Pushes, rowVars, jobVars
<1>2. q.server = p.server /\ q.user = u /\ q.secret = p.secret
  BY DeliveryTypes DEF Pushes
<1>3. CASE push' = (push \ {p}) \union {q} /\ accident' = accident
  <2>1. CASE i # u
    <3>1. \A r : r.user = i => (r \in push' <=> r \in push)
      BY <1>2, <1>3, <2>1
    <3>2. SameFor(i)
      BY <1>1, <1>3, <2>1, <3>1 DEF SameFor
    <3> QED
      BY <3>2, InvParts, SameUser
  <2>2. CASE i = u
    <3> HIDE DEF q
    <3>1. Bounds(u)' /\ (u \notin accident' => Current(u)')
      <4>1. \A r \in push' : r.user = u => \E o \in push : o.user = u /\ o.secret = r.secret
        BY <1>2, <1>3
      <4> QED
        BY <1>1, <1>3, <4>1, InvParts DEF UserInv, Bounds, Sound, Current
    <3>2. \A s \in Servers : Underway(s, u) => Underway(s, u)'
      BY <1>1, <1>2, <1>3, SameExpiry DEF Underway
    <3>3. u \notin accident' => Served(u)'
      BY <1>1, <1>3, <3>2, SameExpiry, InvParts DEF UserInv, Sound, Served
    <3>4. Delivering(u)
      BY DEF Delivering, PendingPush
    <3> QED
      BY <1>1, <1>3, <2>2, <3>1, <3>3, <3>4, DeliveredUser
  <2> QED
    BY <2>1, <2>2
<1>4. CASE push' = push \ {p} /\ AccidentIf(TRUE, u)
  <2>1. accident' = accident \union {u}
    BY <1>4, AccidentCases
  <2>2. CASE i # u
    <3>1. SameFor(i)
      BY <1>1, <1>4, <2>1, <2>2 DEF SameFor
    <3> QED
      BY <3>1, InvParts, SameUser
  <2>3. CASE i = u
    <3>1. Bounds(u)'
      BY <1>1, <1>4, InvParts DEF UserInv, Bounds
    <3> QED
      BY <1>1, <2>1, <2>3, <3>1, DeliveredUser
  <2> QED
    BY <2>2, <2>3
<1> QED
  BY <1>3, <1>4 DEF PushFails

\* A POST of the reconciliation.  Where it finds nothing, what it brings is the
\* secret of now, or the server was waiting for something else.
LEMMA SyncPostUsers ==
  ASSUME FleetInv, NEW s \in Servers, NEW f \in sync[s].left, SyncPost(s, f[1], f[2]),
         NEW i \in Users
  PROVE  UserInv(i)'
<1> DEFINE u == f[1]
           k == f[2]
<1>1. f = <<u, k>> /\ u \in Users /\ k \in 1..MaxSecrets
  BY DeliveryTypes
<1>2. /\ UNCHANGED <<row, healthy, fanout, push, removal, check>>
      /\ accident' \in {accident, accident \union {u}}
  BY AccidentCases DEF SyncPost, rowVars, jobVars
<1>3. /\ \A t \in Servers : sync'[t].queued = sync[t].queued
      /\ \A t \in Servers : \A x : x \in sync'[t].left <=> (x \in sync[t].left /\ ~(t = s /\ x = f))
  <2>1. sync' = [sync EXCEPT ![s] = [sync[s] EXCEPT !.left = @ \ {f}]]
    BY <1>1, DeliveryTypes DEF SyncPost
  <2>2. \A t \in Servers : sync'[t] = IF t = s THEN [sync[s] EXCEPT !.left = @ \ {f}] ELSE sync[t]
    BY <2>1, DeliveryTypes
  <2>3. sync'[s].queued = sync[s].queued /\ sync'[s].left = sync[s].left \ {f}
    BY <2>2, DeliveryTypes
  <2> QED
    BY <2>2, <2>3
<1>4. \/ store' = store
      \/ /\ store[s][u] = None
         /\ \A t \in Servers, j \in Users :
              store'[t][j] = IF t = s /\ j = u THEN k ELSE store[t][j]
  <2>1. CASE store[s][u] = None /\ Hold(s, u, k)
    <3>1. store' = [store EXCEPT ![s] = [store[s] EXCEPT ![u] = k]]
      BY <2>1, DeliveryTypes DEF Hold
    <3> QED
      BY <1>1, <2>1, <3>1, DeliveryTypes
  <2> QED
    BY <2>1 DEF SyncPost
<1>5. CASE i # u
  <2>1. \A t \in Servers : store'[t][i] = store[t][i]
    BY <1>4, <1>5
  <2>2. \A t \in Servers : \A x : <<i, x>> \in sync'[t].left <=> <<i, x>> \in sync[t].left
    BY <1>1, <1>3, <1>5
  <2>3. SameFor(i)
    BY <1>2, <1>3, <1>5, <2>1, <2>2 DEF SameFor
  <2> QED
    BY <2>3, InvParts, SameUser
<1>6. CASE i = u
  <2>1. Bounds(u)'
    BY <1>1, <1>2, <1>3, <1>4, InvParts DEF UserInv, Bounds
  <2>2. u \notin accident' => Current(u)'
    BY <1>1, <1>2, InvParts DEF UserInv, Sound, Current
  <2>3. Delivering(u)
    BY <1>1 DEF Delivering
  <2>4. \A t \in Servers : t # s /\ Underway(t, u) => Underway(t, u)'
    BY <1>1, <1>2, <1>3, SameExpiry DEF Underway
  <2>5. k # row[u].secret /\ Underway(s, u) => Underway(s, u)'
    BY <1>1, <1>2, <1>3, SameExpiry DEF Underway
  <2>6. ASSUME u \notin accident', get_active_key(u)', ~Underway(s, u)'
        PROVE  store'[s][u] = row'[u].secret
    <3>1. get_active_key(u) /\ u \notin accident /\ row[u].secret # None
      BY <1>1, <1>2, <2>6, SameExpiry, RowTypes DEF RowOf, get_active_key, None
    <3>2. CASE up[s] /\ store[s][u] = None /\ Hold(s, u, k)
      <4>1. store'[s][u] = k
        BY <1>1, <3>2, DeliveryTypes DEF Hold
      <4>2. k # row[u].secret => store[s][u] = row[u].secret
        BY <1>1, <2>5, <2>6, <3>1, InvParts DEF UserInv, Sound, Served
      <4> QED
        BY <1>2, <3>1, <3>2, <4>1, <4>2
    <3>3. CASE store[s][u] # None /\ AccidentIf(store[s][u] # k, u) /\ UNCHANGED store
      <4>1. store[s][u] = k
        BY <2>6, <3>3, AccidentCases
      <4>2. k # row[u].secret => store[s][u] = row[u].secret
        BY <1>1, <2>5, <2>6, <3>1, InvParts DEF UserInv, Sound, Served
      <4> QED
        BY <1>2, <3>3, <4>1, <4>2
    <3>4. ~AccidentIf(TRUE, u)
      BY <2>6, AccidentCases
    <3> QED
      BY <3>2, <3>3, <3>4 DEF SyncPost
  <2>7. u \notin accident' => Served(u)'
    BY <1>1, <1>2, <1>4, <2>4, <2>6, SameExpiry, InvParts DEF UserInv, Sound, Served
  <2> QED
    BY <1>1, <1>2, <1>6, <2>1, <2>2, <2>3, <2>7, DeliveredUser
<1> QED
  BY <1>5, <1>6

LEMMA LoseTaskUsers ==
  ASSUME FleetInv, LoseTask, NEW i \in Users
  PROVE  UserInv(i)'
<1>1. UNCHANGED <<row, store, healthy, removal, check>>
  BY DEF LoseTask, rowVars, fleetVars, jobVars
<1>2. /\ push' \subseteq push /\ fanout' \subseteq fanout
      /\ \A s \in Servers : sync'[s].left = sync[s].left
      /\ accident \subseteq accident'
      /\ i \in accident' \/ (/\ \A p : p.user = i => (p \in push' <=> p \in push)
                             /\ \A k : <<i, k>> \in fanout' <=> <<i, k>> \in fanout
                             /\ \A s \in Servers : sync[s].queued => sync'[s].queued)
  <2>1. CASE \E f \in fanout : fanout' = fanout \ {f} /\ AccidentIf(TRUE, f[1]) /\ UNCHANGED <<push, sync>>
    <3>1. PICK f \in fanout : fanout' = fanout \ {f} /\ AccidentIf(TRUE, f[1]) /\ UNCHANGED <<push, sync>>
      BY <2>1
    <3>2. accident' = accident \union {f[1]}
      BY <3>1, AccidentCases
    <3> QED
      BY <3>1, <3>2
  <2>2. CASE \E p \in push : push' = push \ {p} /\ AccidentIf(TRUE, p.user) /\ UNCHANGED <<fanout, sync>>
    <3>1. PICK p \in push : push' = push \ {p} /\ AccidentIf(TRUE, p.user) /\ UNCHANGED <<fanout, sync>>
      BY <2>2
    <3>2. accident' = accident \union {p.user}
      BY <3>1, AccidentCases
    <3> QED
      BY <3>1, <3>2
  <2>3. CASE \E s \in Servers : /\ sync' = [sync EXCEPT ![s].queued = FALSE]
                                /\ AccidentOf(Users)
                                /\ UNCHANGED <<fanout, push>>
    <3>1. PICK s \in Servers : sync' = [sync EXCEPT ![s] = [sync[s] EXCEPT !.queued = FALSE]]
      BY <2>3
    <3>2. \A t \in Servers : sync'[t] = IF t = s THEN [sync[s] EXCEPT !.queued = FALSE] ELSE sync[t]
      BY <3>1, DeliveryTypes
    <3>3. sync'[s].left = sync[s].left
      BY <3>2, DeliveryTypes
    <3> QED
      BY <2>3, <3>2, <3>3 DEF AccidentOf
  <2> QED
    BY <2>1, <2>2, <2>3 DEF LoseTask
<1>3. CASE i \in accident'
  <2>1. Bounds(i)'
    BY <1>1, <1>2, InvParts DEF UserInv, Bounds
  <2> QED
    BY <1>1, <1>2, <1>3, <2>1, DeliveredUser
<1>4. CASE i \notin accident'
  <2>1. SameFor(i)
    BY <1>1, <1>2, <1>4 DEF SameFor
  <2> QED
    BY <2>1, InvParts, SameUser
<1> QED
  BY <1>3, <1>4

-------------------------------------------------------------------------------
(* The daily removal.                                                       *)

LEMMA FleetTypes ==
  ASSUME FleetInv
  PROVE  /\ healthy \in [Servers -> BOOLEAN] /\ up \in [Servers -> BOOLEAN]
         /\ removal.names \subseteq Users /\ check.names \subseteq Users
         /\ check \in [step : {"idle", "delete", "mark"}, server : Servers \union {NoServer},
                      names : SUBSET Users]
BY DEF FleetInv, TypeOK

LEMMA Forgotten ==
  ASSUME FleetInv, NEW s \in Servers, NEW names, Forget(s, names)
  PROVE  \A t \in Servers, u \in Users :
           store'[t][u] = IF t = s /\ u \in names THEN None ELSE store[t][u]
BY DeliveryTypes DEF Forget

LEMMA StartRemovalUsers ==
  ASSUME FleetInv, StartRemoval, NEW i \in Users
  PROVE  UserInv(i)'
<1>1. /\ UNCHANGED <<row, store, healthy, fanout, push, sync, check, accident>>
      /\ removal.step = "idle"
      /\ removal'.step = "delete" /\ removal'.left = Servers
      /\ removal'.names = get_keys_expired_up_to_date
  BY DEF StartRemoval, RemovalFrame, rowVars, taskVars
<1>2. RowOf(i)' /\ Bounds(i)'
  BY <1>1, InvParts DEF UserInv, RowOf, Bounds
<1>3. ASSUME i \notin accident
      PROVE  Current(i)' /\ DeadIsGone(i)' /\ RemovalKnows(i)' /\ Served(i)'
  <2>1. Sound(i)
    BY InvParts DEF UserInv
  <2>2. Current(i)' /\ DeadIsGone(i)'
    BY <1>1, <1>3, <2>1, SameExpiry DEF Sound, Current, DeadIsGone, Delivering, PendingPush
  <2>3. RemovalKnows(i)'
    BY <1>1, SameExpiry DEF RemovalKnows
  <2>4. \A s \in Servers : Underway(s, i) => Underway(s, i)'
    BY <1>1 DEF Underway
  <2>5. Served(i)'
    BY <1>1, <1>3, <2>1, <2>4, SameExpiry DEF Sound, Served
  <2> QED
    BY <2>2, <2>3, <2>5
<1> QED
  BY <1>1, <1>2, <1>3 DEF UserInv, Sound

\* What a removal deletes it goes on to deactivate: until then its keys count as
\* under way, and afterwards as dead and gone.
LEMMA DeleteFromUsers ==
  ASSUME FleetInv, NEW s \in Servers, DeleteFrom(s), NEW i \in Users
  PROVE  UserInv(i)'
<1>1. /\ UNCHANGED <<row, fanout, push, sync, check>>
      /\ removal.step = "delete"
      /\ removal'.step \in {"delete", "update"} /\ removal'.left = removal.left \ {s}
      /\ removal'.names = get_keys_expired_up_to_date
      /\ accident' = accident \union {u \in removal.names : Delivering(u) \/ check.server = s}
  BY DEF DeleteFrom, NextServer, RemovalFrame, rowVars, taskVars, AccidentOf
<1>2. \/ healthy' = healthy /\ Forget(s, removal.names)
      \/ healthy' = [healthy EXCEPT ![s] = FALSE] /\ store' = store
  BY DEF DeleteFrom
<1>3. /\ \A t \in Servers, u \in Users :
           store'[t][u] = store[t][u] \/ (t = s /\ u \in removal.names /\ store'[t][u] = None)
      /\ \A u \in removal.names : healthy'[s] => store'[s][u] = None
      /\ \A t \in Servers : healthy'[t] => healthy[t]
  BY <1>2, Forgotten, FleetTypes
<1>4. RowOf(i)' /\ Bounds(i)'
  BY <1>1, <1>3, InvParts, RowTypes DEF UserInv, RowOf, Bounds, None
<1>5. ASSUME i \notin accident'
      PROVE  Current(i)' /\ DeadIsGone(i)' /\ RemovalKnows(i)' /\ Served(i)'
  <2>1. Sound(i) /\ i \notin accident
    BY <1>1, <1>5, InvParts DEF UserInv
  <2>2. i \in removal.names <=> i \in get_keys_expired_up_to_date
    BY <1>1, <2>1 DEF Sound, RemovalKnows
  <2>3. Delivering(i)' => Delivering(i)
    BY <1>1 DEF Delivering, PendingPush
  <2>4. Current(i)'
    BY <1>1, <2>1 DEF Sound, Current
  <2>5. DeadIsGone(i)'
    BY <1>1, <1>3, <2>1, <2>3, SameExpiry, InvParts DEF Sound, DeadIsGone
  <2>6. i \in get_keys_expired_up_to_date => ~Delivering(i) /\ check.server # s
    BY <1>1, <1>5, <2>2
  <2>7. RemovalKnows(i)'
    BY <1>1, <1>3, <2>1, <2>2, <2>3, <2>6, SameExpiry DEF Sound, RemovalKnows
  <2>8. ASSUME NEW t \in Servers
        PROVE  Underway(t, i) => Underway(t, i)'
    BY <1>1, <1>3, SameExpiry DEF Underway
  <2>9. i \in get_keys_expired_up_to_date => \A t \in Servers : Underway(t, i)'
    BY <1>1, SameExpiry DEF Underway
  <2>10. Served(i)'
    BY <1>1, <1>3, <2>1, <2>2, <2>8, <2>9, SameExpiry DEF Sound, Served
  <2> QED
    BY <2>4, <2>5, <2>7, <2>10
<1> QED
  BY <1>4, <1>5 DEF UserInv, Sound

LEMMA DeactivateUsers ==
  ASSUME FleetInv, DeactivateExpired, NEW i \in Users
  PROVE  UserInv(i)'
<1>1. /\ UNCHANGED <<store, healthy, fanout, push, sync, check, accident>>
      /\ removal.step = "update" /\ removal.left = {} /\ Servers # {}
      /\ removal'.step = "idle"
  BY DEF DeactivateExpired, NoRemoval, fleetVars, taskVars, FleetInv, JobsInv
<1>2. row'[i] = [row[i] EXCEPT !.live = @ /\ i \notin get_keys_expired_up_to_date]
  BY DEF DeactivateExpired
<1>3. /\ row'[i].pk = row[i].pk /\ row'[i].secret = row[i].secret
      /\ row'[i].stage = row[i].stage
      /\ row'[i].live <=> row[i].live /\ i \notin get_keys_expired_up_to_date
  BY <1>2, RowTypes DEF Rows
<1>4. RowOf(i)'
  BY <1>3, RowTypes DEF RowOf, get_keys_expired_up_to_date
<1>5. Bounds(i)'
  BY <1>1, <1>3, InvParts DEF UserInv, Bounds
<1>6. ASSUME i \notin accident
      PROVE  Current(i)' /\ DeadIsGone(i)' /\ RemovalKnows(i)' /\ Served(i)'
  <2>1. Sound(i)
    BY <1>6, InvParts DEF UserInv
  <2>2. Current(i)' /\ RemovalKnows(i)'
    BY <1>1, <1>3, <1>6, <2>1 DEF Sound, Current, RemovalKnows
  <2>3. Delivering(i)' => Delivering(i)
    BY <1>1, <1>3 DEF Delivering, PendingPush
  <2>4. i \in get_all_dead_expired_keys' =>
          i \in get_all_dead_expired_keys \/ i \in get_keys_expired_up_to_date
    BY <1>3 DEF get_all_dead_expired_keys
  <2>5. i \in get_keys_expired_up_to_date =>
          \A s \in Servers : ~Delivering(i) /\ check.server # s /\ (healthy[s] => store[s][i] = None)
    BY <1>1, <1>6, <2>1 DEF Sound, RemovalKnows
  <2>6. DeadIsGone(i)'
    BY <1>1, <1>6, <2>1, <2>3, <2>4, <2>5, InvParts DEF Sound, DeadIsGone
  <2>7. get_active_key(i)' => get_active_key(i) /\ i \notin get_keys_expired_up_to_date
    BY <1>3 DEF get_active_key
  <2>8. \A s \in Servers : Underway(s, i) /\ i \notin get_keys_expired_up_to_date => Underway(s, i)'
    BY <1>1, <1>3 DEF Underway
  <2>9. Served(i)'
    BY <1>1, <1>3, <1>6, <2>1, <2>7, <2>8 DEF Sound, Served
  <2> QED
    BY <2>2, <2>6, <2>9
<1> QED
  BY <1>1, <1>4, <1>5, <1>6 DEF UserInv, Sound

-------------------------------------------------------------------------------
(* The health check and the reconciliation.                                 *)

LEMMA CheckHealthUsers ==
  ASSUME FleetInv, NEW s \in Servers, CheckHealth(s), NEW i \in Users
  PROVE  UserInv(i)'
<1>1. /\ UNCHANGED <<row, store, healthy, fanout, push, sync, removal, accident>>
      /\ get_keys_expired_up_to_date = {}
      /\ check'.server = s /\ check'.names = get_all_dead_expired_keys
      /\ check'.step = "mark" => get_all_dead_expired_keys = {}
  BY DEF CheckHealth, CheckFrame, TakeUp, rowVars
<1>2. RowOf(i)' /\ Bounds(i)'
  BY <1>1, InvParts DEF UserInv, RowOf, Bounds
<1>3. ASSUME i \notin accident
      PROVE  Current(i)' /\ DeadIsGone(i)' /\ RemovalKnows(i)' /\ Served(i)'
  <2>1. Sound(i)
    BY InvParts DEF UserInv
  <2>2. Current(i)'
    BY <1>1, <1>3, <2>1 DEF Sound, Current
  <2>3. DeadIsGone(i)'
    BY <1>1, <1>3, <2>1, SameExpiry DEF Sound, DeadIsGone, Delivering, PendingPush
  <2>4. RemovalKnows(i)'
    BY <1>1, <1>3, <2>1, SameExpiry DEF Sound, RemovalKnows
  <2>5. \A t \in Servers : Underway(t, i) => Underway(t, i)'
    BY <1>1, SameExpiry DEF Underway
  <2>6. Served(i)'
    BY <1>1, <1>3, <2>1, <2>5, SameExpiry DEF Sound, Served
  <2> QED
    BY <2>2, <2>3, <2>4, <2>6
<1> QED
  BY <1>1, <1>2, <1>3 DEF UserInv, Sound

LEMMA RemoveDeadUsers ==
  ASSUME FleetInv, RemoveDeadKeys, NEW i \in Users
  PROVE  UserInv(i)'
<1> DEFINE c == check.server
<1>1. /\ UNCHANGED <<row, healthy, fanout, push, sync, removal, accident>>
      /\ check.step = "delete" /\ c \in Servers /\ ~healthy[c]
  BY InvParts DEF RemoveDeadKeys, CheckFrame, rowVars
<1>2. \/ Forget(c, check.names) /\ check'.step = "mark" /\ check'.server = c
      \/ store' = store /\ check'.step = "idle" /\ check'.server = NoServer
  <2>1. CASE check' = [check EXCEPT !.step = "mark", !.names = {}] /\ Forget(c, check.names)
    <3>1. check'.step = "mark" /\ check'.server = c
      BY <2>1, FleetTypes
    <3> QED
      BY <2>1, <3>1
  <2> QED
    BY <2>1 DEF RemoveDeadKeys, NoCheck
<1>3. \A t \in Servers, u \in Users :
        store'[t][u] = store[t][u] \/ (t = c /\ store'[t][u] = None)
  BY <1>1, <1>2, Forgotten
<1>4. RowOf(i)' /\ Bounds(i)'
  BY <1>1, <1>3, InvParts, RowTypes DEF UserInv, RowOf, Bounds, None
<1>5. ASSUME i \notin accident
      PROVE  Current(i)' /\ DeadIsGone(i)' /\ RemovalKnows(i)' /\ Served(i)'
  <2>1. Sound(i)
    BY InvParts DEF UserInv
  <2>2. Current(i)'
    BY <1>1, <1>5, <2>1 DEF Sound, Current
  <2>3. Delivering(i)' => Delivering(i)
    BY <1>1 DEF Delivering, PendingPush
  <2>4. DeadIsGone(i)'
    <3>1. check'.step = "mark" => (i \in check.names \/ store[c][i] = None => store'[c][i] = None)
      BY <1>1, <1>2, <1>3, Forgotten
    <3> QED
      BY <1>1, <1>2, <1>3, <1>5, <2>1, <2>3, <3>1, SameExpiry DEF Sound, DeadIsGone
  <2>5. RemovalKnows(i)'
    BY <1>1, <1>2, <1>3, <1>5, <2>1, <2>3, SameExpiry, ServersAssumption DEF Sound, RemovalKnows
  <2>6. \A t \in Servers : Underway(t, i) => Underway(t, i)'
    BY <1>1, SameExpiry DEF Underway
  <2>7. Underway(c, i)
    BY <1>1 DEF Underway
  <2>8. Served(i)'
    BY <1>1, <1>3, <1>5, <2>1, <2>6, <2>7, SameExpiry DEF Sound, Served
  <2> QED
    BY <2>2, <2>4, <2>5, <2>8
<1> QED
  BY <1>1, <1>4, <1>5 DEF UserInv, Sound

LEMMA MarkHealthyUsers ==
  ASSUME FleetInv, MarkHealthy, NEW i \in Users
  PROVE  UserInv(i)'
<1> DEFINE c == check.server
<1>1. /\ UNCHANGED <<row, store, fanout, push, removal, accident>>
      /\ check.step = "mark" /\ c \in Servers
      /\ check'.step = "idle" /\ check'.server = NoServer
  BY InvParts DEF MarkHealthy, CheckFrame, NoCheck, rowVars
<1>2. \A t \in Servers : t # c => healthy'[t] = healthy[t]
  BY FleetTypes DEF MarkHealthy
<1>3. /\ \A t \in Servers : sync'[t].left = sync[t].left
      /\ \A t \in Servers : sync[t].queued => sync'[t].queued
      /\ sync'[c].queued
  <2>1. sync' = [sync EXCEPT ![c] = [sync[c] EXCEPT !.queued = TRUE]]
    BY DEF MarkHealthy
  <2>2. \A t \in Servers : sync'[t] = IF t = c THEN [sync[c] EXCEPT !.queued = TRUE] ELSE sync[t]
    BY <2>1, DeliveryTypes
  <2>3. sync'[c].left = sync[c].left /\ sync'[c].queued
    BY <1>1, <2>2, DeliveryTypes
  <2> QED
    BY <2>2, <2>3
<1>4. RowOf(i)' /\ Bounds(i)'
  BY <1>1, <1>3, InvParts DEF UserInv, RowOf, Bounds
<1>5. ASSUME i \notin accident
      PROVE  Current(i)' /\ DeadIsGone(i)' /\ RemovalKnows(i)' /\ Served(i)'
  <2>1. Sound(i)
    BY InvParts DEF UserInv
  <2>2. Current(i)'
    BY <1>1, <1>5, <2>1 DEF Sound, Current
  <2>3. Delivering(i)' => Delivering(i)
    BY <1>1, <1>3 DEF Delivering, PendingPush
  <2>4. DeadIsGone(i)'
    BY <1>1, <1>2, <1>5, <2>1, <2>3, SameExpiry DEF Sound, DeadIsGone
  <2>5. RemovalKnows(i)'
    BY <1>1, <1>2, <1>5, <2>1, <2>3, SameExpiry, ServersAssumption DEF Sound, RemovalKnows
  <2>6. \A t \in Servers : Underway(t, i) => Underway(t, i)'
    BY <1>1, <1>2, <1>3, SameExpiry DEF Underway
  <2>7. Served(i)'
    BY <1>1, <1>5, <2>1, <2>6, SameExpiry DEF Sound, Served
  <2> QED
    BY <2>2, <2>4, <2>5, <2>7
<1> QED
  BY <1>1, <1>4, <1>5 DEF UserInv, Sound

LEMMA StartSyncUsers ==
  ASSUME FleetInv, NEW s \in Servers, StartSync(s), NEW i \in Users
  PROVE  UserInv(i)'
<1>1. /\ UNCHANGED <<row, store, healthy, fanout, push, removal, check>>
      /\ accident' = accident \union {u \in get_all_active_valid_keys : Removing(u)}
  BY DEF StartSync, AccidentOf, rowVars, fleetVars, jobVars
<1>2. /\ \A t \in Servers : t # s => sync'[t] = sync[t]
      /\ \A k : <<i, k>> \in sync'[s].left <=> get_active_key(i) /\ k = row[i].secret
  BY DeliveryTypes DEF StartSync, get_all_active_valid_keys
<1>3. RowOf(i)' /\ Bounds(i)'
  BY <1>1, <1>2, InvParts, RowTypes DEF UserInv, RowOf, Bounds
<1>4. ASSUME i \notin accident'
      PROVE  Current(i)' /\ DeadIsGone(i)' /\ RemovalKnows(i)' /\ Served(i)'
  <2>1. Sound(i) /\ i \notin accident
    BY <1>1, <1>4, InvParts DEF UserInv
  <2>2. Current(i)'
    BY <1>1, <2>1 DEF Sound, Current
  <2>3. Delivering(i)' => Delivering(i) \/ get_active_key(i)
    BY <1>1, <1>2 DEF Delivering, PendingPush
  <2>4. DeadIsGone(i)'
    BY <1>1, <2>1, <2>3, SameExpiry DEF Sound, DeadIsGone, get_all_dead_expired_keys, get_active_key
  <2>5. ~(get_active_key(i) /\ Removing(i))
    BY <1>1, <1>4 DEF get_all_active_valid_keys
  <2>6. RemovalKnows(i)'
    BY <1>1, <2>1, <2>3, <2>5, SameExpiry DEF Sound, RemovalKnows, Removing
  <2>7. \A t \in Servers : t # s /\ Underway(t, i) => Underway(t, i)'
    BY <1>1, <1>2, SameExpiry DEF Underway
  <2>8. get_active_key(i) => Underway(s, i)'
    BY <1>1, <1>2 DEF Underway
  <2>9. Served(i)'
    BY <1>1, <2>1, <2>7, <2>8, SameExpiry DEF Sound, Served
  <2> QED
    BY <2>2, <2>4, <2>6, <2>9
<1> QED
  BY <1>3, <1>4 DEF UserInv, Sound

LEMMA AdminSyncUsers ==
  ASSUME FleetInv, NEW s \in Servers, AdminSync(s), NEW i \in Users
  PROVE  UserInv(i)'
<1>1. UNCHANGED <<row, store, healthy, fanout, push, removal, check, accident>>
  BY DEF AdminSync, rowVars, fleetVars, jobVars
<1>2. /\ \A t \in Servers : sync'[t].left = sync[t].left
      /\ \A t \in Servers : sync[t].queued => sync'[t].queued
  <2>1. sync' = [sync EXCEPT ![s] = [sync[s] EXCEPT !.queued = TRUE]]
    BY DEF AdminSync
  <2>2. \A t \in Servers : sync'[t] = IF t = s THEN [sync[s] EXCEPT !.queued = TRUE] ELSE sync[t]
    BY <2>1, DeliveryTypes
  <2>3. sync'[s].left = sync[s].left /\ sync'[s].queued
    BY <2>2, DeliveryTypes
  <2> QED
    BY <2>2, <2>3
<1>3. SameFor(i)
  BY <1>1, <1>2 DEF SameFor
<1> QED
  BY <1>3, InvParts, SameUser

-------------------------------------------------------------------------------
(* Every step keeps the invariant.                                          *)

LEMMA RequestTypes ==
  ASSUME FleetInv, NEW u \in Users, Request(u)
  PROVE  TypeOK'
<1>1. Effect(u)
  BY RequestEffect
<1>2. trialUsed' \subseteq Users /\ rotating' \in [Users -> 0..MaxSecrets]
  <2>1. trialUsed \subseteq Users /\ rotating \in [Users -> 0..MaxSecrets]
    BY DEF FleetInv, TypeOK
  <2>2. trialUsed' \in {trialUsed, trialUsed \union {u}}
    BY DEF Request, GrantPeriod, FreeTrial, ConfirmRedemption, ReadKeyToRotate, SaveRotatedKey, Age
  <2>3. rotating' = rotating \/ \E k \in 0..MaxSecrets : rotating' = [rotating EXCEPT ![u] = k]
    <3>1. row[u].pk \in 0..MaxSecrets /\ None \in 0..MaxSecrets
      BY RowTypes DEF Rows, None
    <3> QED
      BY <3>1 DEF Request, GrantPeriod, FreeTrial, ConfirmRedemption, ReadKeyToRotate,
                  SaveRotatedKey, Age
  <2> QED
    BY <2>1, <2>2, <2>3
<1>3. accident' \subseteq Users
  BY <1>1 DEF Effect, FleetInv, TypeOK
<1> QED
  BY <1>1, <1>2, <1>3 DEF Effect, FleetInv, TypeOK, Rows, fleetVars, jobVars

LEMMA LiveSecrets ==
  ASSUME FleetInv, NEW u \in Users, row[u].pk # None
  PROVE  row[u].pk \in 1..MaxSecrets /\ row[u].secret \in 1..MaxSecrets
BY RowTypes DEF Rows, RowOf, None

LEMMA PushTypes ==
  ASSUME FleetInv, PushNext
  PROVE  TypeOK'
<1>1. CASE \E f \in fanout : FanOut(f[1], f[2])
  <2>1. PICK f \in fanout : FanOut(f[1], f[2])
    BY <1>1
  <2>2. f[1] \in Users /\ f[2] \in 1..MaxSecrets
    BY DeliveryTypes
  <2>3. push' \subseteq Pushes
    <3>1. CASE row[f[1]].pk = f[2]
      <4>1. row[f[1]].secret \in 1..MaxSecrets /\ 0 \in 0..max_retries
        BY <2>2, <3>1, LiveSecrets, DeliveryTypes DEF None
      <4> QED
        BY <2>1, <2>2, <3>1, <4>1, DeliveryTypes DEF FanOut, Pushes
    <3> QED
      BY <2>1, <3>1, DeliveryTypes DEF FanOut
  <2>4. fanout' \subseteq fanout /\ UNCHANGED <<rowVars, fleetVars, sync, jobVars, events, accident>>
    BY <2>1 DEF FanOut
  <2> QED
    BY <2>3, <2>4 DEF FleetInv, TypeOK, rowVars, fleetVars, jobVars
<1>2. CASE \E u \in Users : AdminPush(u)
  <2>1. PICK u \in Users : AdminPush(u)
    BY <1>2
  <2>2. row[u].secret \in 1..MaxSecrets /\ 0 \in 0..max_retries
    BY <2>1, LiveSecrets, RowTypes, DeliveryTypes DEF AdminPush, get_active_key, RowOf
  <2>3. push' \subseteq Pushes
    BY <2>1, <2>2, DeliveryTypes DEF AdminPush, Pushes
  <2>4. accident' \subseteq Users
    BY <2>1, AccidentCases DEF AdminPush, FleetInv, TypeOK
  <2>5. events' \in 0..MaxEvents
    BY <2>1, BoundsAssumption DEF AdminPush, Event, FleetInv, TypeOK
  <2> QED
    BY <2>1, <2>3, <2>4, <2>5 DEF AdminPush, FleetInv, TypeOK, rowVars, fleetVars, jobVars
<1>3. CASE \E p \in push : PushKey(p)
  <2>1. PICK p \in push : PushKey(p)
    BY <1>3
  <2>2. p.server \in Servers /\ p.user \in Users /\ p.secret \in 0..MaxSecrets
    BY DeliveryTypes DEF Pushes
  <2>3. store' = [store EXCEPT ![p.server] = [store[p.server] EXCEPT ![p.user] = p.secret]]
    BY <2>1, DeliveryTypes DEF PushKey, Hold
  <2>4. store' \in [Servers -> [Users -> 0..MaxSecrets]]
    BY <2>2, <2>3, DeliveryTypes
  <2> QED
    BY <2>1, <2>4 DEF PushKey, PushFrame, FleetInv, TypeOK, rowVars, jobVars
<1>4. CASE \E p \in push : PushFails(p)
  <2>1. PICK p \in push : PushFails(p)
    BY <1>4
  <2>2. p \in Pushes
    BY DeliveryTypes
  <2>3. p.tries < max_retries => [p EXCEPT !.tries = @ + 1] \in Pushes
    BY <2>2, DeliveryTypes DEF Pushes
  <2>4. push' \subseteq Pushes
    BY <2>1, <2>3, DeliveryTypes DEF PushFails
  <2>5. accident' \in {accident, accident \union {p.user}} /\ p.user \in Users
    BY <2>1, <2>2, AccidentCases DEF PushFails, Pushes
  <2> QED
    BY <2>1, <2>4, <2>5 DEF PushFails, PushFrame, FleetInv, TypeOK, rowVars, jobVars
<1> QED
  BY <1>1, <1>2, <1>3, <1>4 DEF PushNext

LEMMA ForgetTypes ==
  ASSUME FleetInv, NEW s \in Servers, NEW names, Forget(s, names)
  PROVE  store' \in [Servers -> [Users -> 0..MaxSecrets]]
<1>1. \A u \in Users : (IF u \in names THEN None ELSE store[s][u]) \in 0..MaxSecrets
  BY DeliveryTypes DEF None
<1> QED
  BY <1>1, DeliveryTypes DEF Forget

LEMMA RemovalTypes ==
  ASSUME FleetInv, RemovalNext
  PROVE  TypeOK'
<1>1. get_keys_expired_up_to_date \subseteq Users
  BY DEF get_keys_expired_up_to_date
<1>2. CASE StartRemoval
  BY <1>1, <1>2 DEF StartRemoval, RemovalFrame, FleetInv, TypeOK, rowVars, taskVars
<1>3. CASE \E s \in Servers : DeleteFrom(s)
  <2>1. PICK s \in Servers : DeleteFrom(s)
    BY <1>3
  <2>2. store' \in [Servers -> [Users -> 0..MaxSecrets]]
    BY <2>1, ForgetTypes, DeliveryTypes DEF DeleteFrom
  <2>3. healthy' \in [Servers -> BOOLEAN]
    BY <2>1, FleetTypes DEF DeleteFrom
  <2>4. removal' \in [step : {"idle", "delete", "update"}, names : SUBSET Users,
                      left : SUBSET Servers]
    BY <1>1, <2>1 DEF DeleteFrom, NextServer, FleetInv, TypeOK
  <2>5. accident' \subseteq Users
    BY <2>1, FleetTypes DEF DeleteFrom, AccidentOf, FleetInv, TypeOK
  <2> QED
    BY <2>1, <2>2, <2>3, <2>4, <2>5 DEF DeleteFrom, RemovalFrame, FleetInv, TypeOK, rowVars, taskVars
<1>4. CASE DeactivateExpired
  <2>1. ASSUME NEW u \in Users
        PROVE  [row[u] EXCEPT !.live = @ /\ u \notin get_keys_expired_up_to_date] \in Rows
    <3>1. (row[u].live /\ u \notin get_keys_expired_up_to_date) \in BOOLEAN
      OBVIOUS
    <3> QED
      BY <3>1, RowTypes DEF Rows
  <2>2. row' \in [Users -> Rows]
    BY <1>4, <2>1 DEF DeactivateExpired
  <2>3. removal' \in [step : {"idle", "delete", "update"}, names : SUBSET Users,
                      left : SUBSET Servers]
    BY <1>4 DEF DeactivateExpired, NoRemoval
  <2> QED
    BY <1>4, <2>2, <2>3 DEF DeactivateExpired, FleetInv, TypeOK, Rows, fleetVars, taskVars
<1> QED
  BY <1>2, <1>3, <1>4 DEF RemovalNext

Checks == [step : {"idle", "delete", "mark"}, server : Servers \union {NoServer},
           names : SUBSET Users]
Syncs == [queued : BOOLEAN, left : SUBSET (Users \X (1..MaxSecrets))]

\* The parts of the fleet a check or a reconciliation may change.
LEMMA CheckFrameTypes ==
  ASSUME FleetInv, check' \in Checks, healthy' \in [Servers -> BOOLEAN],
         store' \in [Servers -> [Users -> 0..MaxSecrets]], sync' \in [Servers -> Syncs],
         accident' \subseteq Users, events' \in 0..MaxEvents,
         UNCHANGED <<rowVars, up, fanout, push, removal>>
  PROVE  TypeOK'
BY DEF FleetInv, TypeOK, Checks, Syncs, rowVars

LEMMA CheckTypes ==
  ASSUME FleetInv, CheckNext
  PROVE  TypeOK'
<1>1. /\ check \in Checks /\ healthy \in [Servers -> BOOLEAN]
      /\ store \in [Servers -> [Users -> 0..MaxSecrets]] /\ sync \in [Servers -> Syncs]
      /\ accident \subseteq Users /\ events \in 0..MaxEvents
  BY DEF FleetInv, TypeOK, Checks, Syncs
<1>2. CASE \E s \in Servers : CheckHealth(s)
  <2>1. check' \in Checks
    BY <1>2 DEF CheckHealth, TakeUp, Checks, get_all_dead_expired_keys
  <2> QED
    BY <1>1, <1>2, <2>1, CheckFrameTypes DEF CheckHealth, CheckFrame
<1>3. CASE \E s \in Servers : StartSync(s)
  <2>1. PICK s \in Servers : StartSync(s)
    BY <1>3
  <2>2. \A u \in get_all_active_valid_keys : u \in Users /\ row[u].secret \in 1..MaxSecrets
    BY LiveSecrets, RowTypes DEF get_all_active_valid_keys, get_active_key, RowOf
  <2>3. sync' \in [Servers -> Syncs]
    BY <1>1, <2>1, <2>2 DEF StartSync, Syncs
  <2>4. accident' \subseteq Users
    BY <1>1, <2>1, <2>2 DEF StartSync, AccidentOf
  <2> QED
    BY <1>1, <2>1, <2>3, <2>4, CheckFrameTypes DEF StartSync, fleetVars, jobVars
<1>4. CASE \E s \in Servers : AdminSync(s)
  <2>1. PICK s \in Servers : AdminSync(s)
    BY <1>4
  <2>2. sync' = [sync EXCEPT ![s] = [sync[s] EXCEPT !.queued = TRUE]]
    BY <2>1 DEF AdminSync
  <2>3. sync' \in [Servers -> Syncs]
    BY <1>1, <2>2 DEF Syncs
  <2>4. events' \in 0..MaxEvents
    BY <1>1, <2>1, BoundsAssumption DEF AdminSync, Event
  <2> QED
    BY <1>1, <2>1, <2>3, <2>4, CheckFrameTypes DEF AdminSync, fleetVars, jobVars
<1>5. CASE RemoveDeadKeys
  <2>1. check' \in Checks
    <3>1. CASE check' = [check EXCEPT !.step = "mark", !.names = {}]
      BY <1>1, <3>1 DEF Checks
    <3>2. CASE check' = NoCheck
      BY <3>2 DEF NoCheck, Checks
    <3> QED
      BY <1>5, <3>1, <3>2 DEF RemoveDeadKeys
  <2>2. store' \in [Servers -> [Users -> 0..MaxSecrets]]
    BY <1>1, <1>5, ForgetTypes, InvParts DEF RemoveDeadKeys, FleetInv, JobsInv
  <2> QED
    BY <1>1, <1>5, <2>1, <2>2, CheckFrameTypes DEF RemoveDeadKeys, CheckFrame
<1>6. CASE MarkHealthy
  <2>1. check' \in Checks /\ healthy' \in [Servers -> BOOLEAN]
    BY <1>1, <1>6 DEF MarkHealthy, NoCheck, Checks
  <2>2. sync' = [sync EXCEPT ![check.server] = [sync[check.server] EXCEPT !.queued = TRUE]]
    BY <1>6 DEF MarkHealthy
  <2>3. sync' \in [Servers -> Syncs]
    BY <1>1, <2>2 DEF Syncs
  <2> QED
    BY <1>1, <1>6, <2>1, <2>3, CheckFrameTypes DEF MarkHealthy, CheckFrame
<1>7. CASE \E s \in Servers : \E k \in sync[s].left : SyncPost(s, k[1], k[2])
  <2>1. PICK s \in Servers : \E f \in sync[s].left : SyncPost(s, f[1], f[2])
    BY <1>7
  <2>2. PICK f \in sync[s].left : SyncPost(s, f[1], f[2])
    BY <2>1
  <2>3. f[1] \in Users /\ f[2] \in 1..MaxSecrets
    BY DeliveryTypes
  <2>4. sync' = [sync EXCEPT ![s] = [sync[s] EXCEPT !.left = @ \ {<<f[1], f[2]>>}]]
    BY <2>2 DEF SyncPost
  <2>5. sync' \in [Servers -> Syncs]
    BY <1>1, <2>4 DEF Syncs
  <2>6. store' \in [Servers -> [Users -> 0..MaxSecrets]]
    <3>1. Hold(s, f[1], f[2]) => store' = [store EXCEPT ![s] = [store[s] EXCEPT ![f[1]] = f[2]]]
      BY <1>1 DEF Hold
    <3>2. f[2] \in 0..MaxSecrets
      BY <2>3, DeliveryTypes
    <3>3. Hold(s, f[1], f[2]) => store' \in [Servers -> [Users -> 0..MaxSecrets]]
      BY <1>1, <2>3, <3>1, <3>2
    <3> QED
      BY <1>1, <2>2, <3>3 DEF SyncPost
  <2>7. accident' \in {accident, accident \union {f[1]}}
    BY <2>2, AccidentCases DEF SyncPost
  <2> QED
    BY <1>1, <2>2, <2>3, <2>5, <2>6, <2>7, CheckFrameTypes DEF SyncPost, jobVars
<1> QED
  BY <1>2, <1>3, <1>4, <1>5, <1>6, <1>7 DEF CheckNext

LEMMA NextTypes == FleetInv /\ Next => TypeOK'
<1> SUFFICES ASSUME FleetInv, Next
             PROVE  TypeOK'
  OBVIOUS
<1>1. CASE RequestNext
  BY <1>1, RequestTypes DEF RequestNext, Request
<1>2. CASE LoseTask
  <2>1. UNCHANGED <<rowVars, fleetVars, jobVars>> /\ events' \in 0..MaxEvents
    <3>1. MaxEvents \in Nat /\ events \in 0..MaxEvents
      BY BoundsAssumption DEF FleetInv, TypeOK
    <3> QED
      BY <1>2, <3>1 DEF LoseTask, Event
  <2>2. accident' \subseteq Users
    <3>1. ASSUME NEW u \in Users, AccidentIf(TRUE, u)
          PROVE  accident' \subseteq Users
      <4>1. accident' = accident \union {u}
        BY <3>1, AccidentCases
      <4> QED
        BY <4>1 DEF FleetInv, TypeOK
    <3>2. \A f \in fanout : f[1] \in Users
      BY DeliveryTypes
    <3>3. \A p \in push : p.user \in Users
      BY DeliveryTypes DEF Pushes
    <3>4. AccidentOf(Users) => accident' \subseteq Users
      BY DEF AccidentOf, FleetInv, TypeOK
    <3> QED
      BY <1>2, <3>1, <3>2, <3>3, <3>4 DEF LoseTask
  <2>3. sync' \in [Servers -> Syncs]
    <3>1. sync' = sync \/ \E s \in Servers : sync' = [sync EXCEPT ![s] = [sync[s] EXCEPT !.queued = FALSE]]
      BY <1>2 DEF LoseTask
    <3> QED
      BY <3>1, DeliveryTypes DEF Syncs
  <2>4. push' \subseteq push /\ fanout' \subseteq fanout
    BY <1>2 DEF LoseTask
  <2> QED
    BY <2>1, <2>2, <2>3, <2>4 DEF FleetInv, TypeOK, Syncs, rowVars, fleetVars, jobVars
<1>3. CASE \E s \in Servers : Outage(s)
  <2>1. PICK s \in Servers : Outage(s)
    BY <1>3
  <2>2. up' \in [Servers -> BOOLEAN] /\ events' \in 0..MaxEvents
    BY <2>1, BoundsAssumption DEF Outage, Event, FleetInv, TypeOK
  <2> QED
    BY <2>1, <2>2 DEF Outage, FleetInv, TypeOK, rowVars, taskVars, jobVars
<1>4. CASE \E s \in Servers : Restore(s)
  <2>1. PICK s \in Servers : Restore(s)
    BY <1>4
  <2>2. up' \in [Servers -> BOOLEAN]
    BY <2>1 DEF Restore, FleetInv, TypeOK
  <2> QED
    BY <2>1, <2>2 DEF Restore, FleetInv, TypeOK, rowVars, taskVars, jobVars
<1> QED
  BY <1>1, <1>2, <1>3, <1>4, PushTypes, RemovalTypes, CheckTypes DEF Next, FaultNext

\* Only the removal and the check change the jobs or put a server in rotation.
LEMMA NextJobs == FleetInv /\ Next => JobsInv'
<1> SUFFICES ASSUME FleetInv, Next
             PROVE  JobsInv'
  OBVIOUS
<1>1. JobsInv
  BY DEF FleetInv
<1>2. CASE UNCHANGED <<healthy, jobVars>>
  BY <1>1, <1>2 DEF JobsInv, jobVars
<1>3. CASE StartRemoval
  BY <1>1, <1>3 DEF StartRemoval, RemovalFrame, JobsInv
<1>4. CASE \E s \in Servers : DeleteFrom(s)
  <2>1. PICK s \in Servers : DeleteFrom(s)
    BY <1>4
  <2>2. check' = check /\ \A t \in Servers : healthy'[t] => healthy[t]
    BY <2>1, FleetTypes DEF DeleteFrom, RemovalFrame
  <2>3. removal'.step = "update" => removal'.left = {}
    BY <2>1 DEF DeleteFrom, NextServer
  <2> QED
    BY <1>1, <2>2, <2>3 DEF JobsInv
<1>5. CASE DeactivateExpired
  BY <1>1, <1>5 DEF DeactivateExpired, NoRemoval, JobsInv, fleetVars
<1>6. CASE \E s \in Servers : CheckHealth(s)
  BY <1>1, <1>6 DEF CheckHealth, CheckFrame, TakeUp, JobsInv
<1>7. CASE RemoveDeadKeys
  <2>1. UNCHANGED <<healthy, removal>> /\ check.step = "delete"
    BY <1>7 DEF RemoveDeadKeys, CheckFrame
  <2>2. CASE check' = [check EXCEPT !.step = "mark", !.names = {}]
    <3>1. check'.step = "mark" /\ check'.server = check.server
      BY <2>2, FleetTypes
    <3> QED
      BY <1>1, <2>1, <3>1 DEF JobsInv
  <2>3. CASE check' = NoCheck
    BY <1>1, <2>1, <2>3 DEF JobsInv, NoCheck
  <2> QED
    BY <1>7, <2>2, <2>3 DEF RemoveDeadKeys
<1>8. CASE MarkHealthy
  BY <1>1, <1>8 DEF MarkHealthy, CheckFrame, NoCheck, JobsInv
<1>9. RequestNext => UNCHANGED <<healthy, jobVars>>
  BY RequestEffect DEF RequestNext, Request, Effect, fleetVars
<1>10. PushNext => UNCHANGED <<healthy, jobVars>>
  BY DEF PushNext, FanOut, AdminPush, PushKey, PushFails, PushFrame, fleetVars
<1>11. \A s \in Servers : \A k : StartSync(s) \/ AdminSync(s) \/ SyncPost(s, k[1], k[2]) =>
         UNCHANGED <<healthy, jobVars>>
  BY DEF StartSync, AdminSync, SyncPost, fleetVars
<1>12. FaultNext => UNCHANGED <<healthy, jobVars>>
  BY DEF FaultNext, LoseTask, Outage, Restore, fleetVars
<1> QED
  BY <1>2, <1>3, <1>4, <1>5, <1>6, <1>7, <1>8, <1>9, <1>10, <1>11, <1>12
     DEF Next, RemovalNext, CheckNext

LEMMA NextUsers ==
  ASSUME FleetInv, Next, NEW i \in Users
  PROVE  UserInv(i)'
<1>1. CASE RequestNext
  <2>1. PICK u \in Users : Effect(u)
    BY <1>1, RequestEffect DEF RequestNext, Request
  <2> QED
    BY <2>1, RequestUser, RequestOthers
<1>2. CASE PushNext
  BY <1>2, FanOutUsers, AdminPushUsers, PushUsers, PushFailsUsers, DeliveryTypes DEF PushNext
<1>3. CASE RemovalNext
  BY <1>3, StartRemovalUsers, DeleteFromUsers, DeactivateUsers DEF RemovalNext
<1>4. CASE CheckNext
  BY <1>4, CheckHealthUsers, RemoveDeadUsers, MarkHealthyUsers, StartSyncUsers, AdminSyncUsers,
     SyncPostUsers DEF CheckNext
<1>5. CASE FaultNext
  <2>1. ASSUME NEW s \in Servers, Outage(s) \/ Restore(s)
        PROVE  UserInv(i)'
    <3>1. SameFor(i)
      BY <2>1 DEF Outage, Restore, SameFor, rowVars, taskVars, jobVars
    <3> QED
      BY <3>1, InvParts, SameUser
  <2> QED
    BY <1>5, <2>1, LoseTaskUsers DEF FaultNext
<1> QED
  BY <1>1, <1>2, <1>3, <1>4, <1>5 DEF Next

LEMMA FleetStep == FleetInv /\ [Next]_vars => FleetInv'
<1> SUFFICES ASSUME FleetInv, [Next]_vars
             PROVE  FleetInv'
  OBVIOUS
<1>1. CASE Next
  BY <1>1, NextTypes, NextJobs, NextUsers DEF FleetInv, UserInv
<1>2. CASE UNCHANGED vars
  <2>1. UNCHANGED <<row, store, healthy, fanout, push, sync, removal, check, accident>>
    BY <1>2 DEF vars, rowVars, fleetVars, taskVars, jobVars
  <2>2. TypeOK'
    BY <1>2 DEF FleetInv, TypeOK, vars, rowVars, fleetVars, taskVars, jobVars
  <2>3. JobsInv'
    BY <2>1 DEF FleetInv, JobsInv
  <2>4. ASSUME NEW i \in Users
        PROVE  UserInv(i)'
    <3>1. SameFor(i)
      BY <2>1 DEF SameFor
    <3> QED
      BY <3>1, InvParts, SameUser
  <2> QED
    BY <2>2, <2>3, <2>4 DEF FleetInv, UserInv
<1> QED
  BY <1>1, <1>2

LEMMA FleetAlways == Safety => []FleetInv
BY FleetInit, FleetStep, PTL DEF Safety

-------------------------------------------------------------------------------
(* The promises.                                                            *)

\* Rows, servers, deliveries and jobs keep their shape: no key outgrows
\* its bound, no delivery carries a secret that does not exist, no job works on a
\* server that is not there.
THEOREM FleetTypeCorrect == Safety => []TypeOK
<1>1. FleetInv => TypeOK
  BY DEF FleetInv
<1> QED
  BY <1>1, FleetAlways, PTL

\* However many users and servers there are, and however requests, deliveries,
\* the removal, the check and the reconciliation interleave: a healthy server
\* serves the secret of every valid row or its delivery is under way, but for
\* the users an accident befell.
THEOREM FleetServesValidKeys == Safety => []ValidKeysAreServed
<1>1. FleetInv => ValidKeysAreServed
  BY DEF FleetInv, Sound, Served, ValidKeysAreServed
<1> QED
  BY <1>1, FleetAlways, PTL

\* What the removal deactivated is on no healthy server, whichever servers were
\* out of the rotation when it ran, with the same exceptions.
THEOREM FleetForgetsDeadKeys == Safety => []DeadKeysAreGone
<1>1. FleetInv => DeadKeysAreGone
  BY DEF FleetInv, Sound, DeadIsGone, DeadKeysAreGone, get_all_dead_expired_keys
<1> QED
  BY <1>1, FleetAlways, PTL

\* A delivery never puts an older secret of a user in the place of a newer one,
\* with the same exceptions: a push that an accident did not overtake carries the
\* secret of the row, and a reconciliation fills gaps only.
THEOREM FleetSecretsMoveForward == Safety => SecretsOnlyMoveForward
<1>1. ASSUME FleetInv, [Next]_vars, NEW s \in Servers, NEW u \in Users,
             store'[s][u] # None, u \notin accident'
      PROVE  store'[s][u] >= store[s][u]
  <2> USE <1>1
  <2>1. store[s][u] \in 0..MaxSecrets /\ row[u].secret \in Nat
    BY DeliveryTypes, RowTypes
  <2>2. CASE store' = store
    BY <2>1, <2>2
  <2>3. ASSUME NEW t \in Servers, NEW names, Forget(t, names)
        PROVE  store'[s][u] >= store[s][u]
    BY <2>1, <2>3, Forgotten
  <2>4. ASSUME NEW p \in push, PushKey(p)
        PROVE  store'[s][u] >= store[s][u]
    <3>1. store' = [store EXCEPT ![p.server] = [store[p.server] EXCEPT ![p.user] = p.secret]]
      BY <2>4, DeliveryTypes DEF PushKey, Hold
    <3>2. p.user = u => p.secret = row[u].secret
      BY <2>4, InvParts DEF PushKey, UserInv, Sound, Current
    <3>3. store[s][u] <= row[u].secret
      BY InvParts DEF UserInv, Bounds
    <3> QED
      BY <2>1, <3>1, <3>2, <3>3, DeliveryTypes
  <2>5. ASSUME NEW t \in Servers, NEW f \in sync[t].left, SyncPost(t, f[1], f[2])
        PROVE  store'[s][u] >= store[s][u]
    <3>1. f[1] \in Users /\ f[2] \in 1..MaxSecrets
      BY DeliveryTypes
    <3>2. CASE store[t][f[1]] = None /\ Hold(t, f[1], f[2])
      <4>1. store' = [store EXCEPT ![t] = [store[t] EXCEPT ![f[1]] = f[2]]]
        BY <3>2, DeliveryTypes DEF Hold
      <4> QED
        BY <2>1, <3>1, <3>2, <4>1, DeliveryTypes DEF None
    <3> QED
      BY <2>2, <2>5, <3>2 DEF SyncPost
  <2>6. CASE RequestNext
    <3>1. store' = store
      BY <2>6, RequestEffect DEF RequestNext, Request, Effect, fleetVars
    <3> QED
      BY <2>2, <3>1
  <2>7. CASE PushNext
    BY <2>2, <2>4, <2>7 DEF PushNext, FanOut, AdminPush, PushFails, fleetVars
  <2>8. CASE RemovalNext
    BY <2>2, <2>3, <2>8 DEF RemovalNext, StartRemoval, DeleteFrom, DeactivateExpired, fleetVars
  <2>9. CASE CheckNext
    <3>1. CASE RemoveDeadKeys
      BY <2>2, <2>3, <3>1, InvParts DEF RemoveDeadKeys
    <3> QED
      BY <2>2, <2>5, <2>9, <3>1 DEF CheckNext, CheckHealth, StartSync, AdminSync, MarkHealthy, fleetVars
  <2>10. CASE FaultNext
    BY <2>2, <2>10 DEF FaultNext, LoseTask, Outage, Restore, fleetVars
  <2>11. CASE UNCHANGED vars
    BY <2>2, <2>11 DEF vars, fleetVars
  <2> QED
    BY <2>6, <2>7, <2>8, <2>9, <2>10, <2>11 DEF Next
<1>2. FleetInv /\ [Next]_vars =>
        [\A s \in Servers, u \in Users :
           store'[s][u] # None /\ u \notin accident' => store'[s][u] >= store[s][u]]_vars
  BY <1>1
<1> QED
  BY <1>2, FleetAlways, PTL DEF Safety, SecretsOnlyMoveForward
===============================================================================
