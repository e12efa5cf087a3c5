-------------------------- MODULE KeyRemindersProofs --------------------------
(***************************************************************************)
(* What KeyReminders promises for any number of users, keys, faults and     *)
(* days: types, the mark and the notice, one notice per expiry, and no      *)
(* removal unannounced.                                                     *)
(*                                                                         *)
(* The mark is written after the message, on a row that may have moved      *)
(* meanwhile, so the first invariant also says what the job holds between   *)
(* the two: the key it has just announced is one whose notice was given.    *)
(***************************************************************************)
EXTENDS KeyReminders, FiniteSetTheorems, TLAPS

RowType == [pk : Nat, exp : Nat, live : BOOLEAN, notified : BOOLEAN]
Picked == [user : Users, pk : Nat, exp : Nat]
JobType == [on : BOOLEAN, date : Nat, left : SUBSET Picked, sent : SUBSET Picked]

\* What the argument needs of the types.
ToldTypes ==
  /\ key \in [Users -> RowType]
  /\ daily \in JobType
  /\ settled \in [Users -> [at : Nat, kept : BOOLEAN]]
  /\ now \in Nat

\* A mark was earned by a notice for the present expiry, or carried on.
MarkIsEarned ==
  \A u \in Users :
    key[u].notified => \/ [kind |-> "day", user |-> u, exp |-> key[u].exp] \in told
                       \/ settled[u].kept

\* What the job is about to mark was announced.
SentWasTold == \A s \in daily.sent : [kind |-> "day", user |-> s.user, exp |-> s.exp] \in told

ToldInv == ToldTypes /\ MarkIsEarned /\ SentWasTold

\* What a job selects is a key of some user.
LEMMA SelectedPicked == Selected \subseteq Picked
<1> SUFFICES ASSUME NEW s \in Selected
             PROVE  s \in Picked
  OBVIOUS
<1>1. MaxKeys \in Nat /\ LastExpiry \in Nat
  BY BoundsAssumption
<1> QED
  BY <1>1 DEF Selected, Picked, Expiries

\* No key is marked before the first job.
LEMMA ToldInit == Init => ToldInv
<1> SUFFICES ASSUME Init
             PROVE  ToldInv
  OBVIOUS
<1>1. key \in [Users -> RowType] /\ \A u \in Users : ~key[u].notified
  <2> DEFINE Given == {NoKey} \union
               {[pk |-> 1, exp |-> e, live |-> TRUE, notified |-> FALSE] : e \in 4..7}
  <2>1. \A row \in Given : row \in RowType /\ ~row.notified
    <3>1. NoKey \in RowType /\ ~NoKey.notified
      BY DEF NoKey, RowType
    <3>2. ASSUME NEW e \in 4..7
          PROVE  [pk |-> 1, exp |-> e, live |-> TRUE, notified |-> FALSE] \in RowType
      BY DEF RowType
    <3> SUFFICES ASSUME NEW row \in Given
                 PROVE  row \in RowType /\ ~row.notified
      OBVIOUS
    <3>3. CASE row = NoKey
      BY <3>1, <3>3
    <3>4. CASE row # NoKey
      <4>1. PICK e \in 4..7 : row = [pk |-> 1, exp |-> e, live |-> TRUE, notified |-> FALSE]
        BY <3>4
      <4> QED
        BY <3>2, <4>1
    <3> QED
      BY <3>3, <3>4
  <2>2. key \in [Users -> Given]
    BY DEF Init
  <2> QED
    BY <2>1, <2>2
<1>2. daily.sent = {} /\ daily \in JobType
  BY DEF Init, Idle, JobType
<1>3. settled \in [Users -> [at : Nat, kept : BOOLEAN]] /\ now \in Nat
  BY DEF Init
<1> QED
  BY <1>1, <1>2, <1>3 DEF ToldInv, ToldTypes, MarkIsEarned, SentWasTold

\* A grant gives the row a fresh expiry and no mark, but for the certificate,
\* which records that it kept one.
LEMMA ToldByGrant ==
  ASSUME ToldInv, NEW u \in Users,
         Purchase(u) \/ ActivateGift(u) \/ Redeem(u) \/ FreeTrial(u)
  PROVE  ToldInv'
<1>1. UNCHANGED <<daily, told, now>>
  BY DEF Purchase, ActivateGift, Redeem, FreeTrial, GrantFrame, jobVars
<1>2. key[u] \in RowType /\ now \in Nat /\ Days \in Nat
  BY DaysAssumption DEF ToldInv, ToldTypes
<1>3. PICK row \in RowType, kept \in BOOLEAN :
        /\ key' = [key EXCEPT ![u] = row]
        /\ settled' = [settled EXCEPT ![u] = [at |-> now, kept |-> kept]]
        /\ row.notified => kept
  <2>1. CASE IssueKey(u)
    <3>1. [pk |-> key[u].pk + 1, exp |-> now + 4 * Days, live |-> TRUE,
           notified |-> FALSE] \in RowType
      BY <1>2 DEF RowType
    <3> QED
      BY <2>1, <3>1 DEF IssueKey, Settle
  <2>2. CASE ExtendKey(u, TRUE, FALSE) \/ ExtendKey(u, FALSE, key[u].notified)
    <3>1. ASSUME NEW reset \in BOOLEAN, NEW kept \in BOOLEAN, ExtendKey(u, reset, kept),
                 key[u].notified /\ ~reset => kept
          PROVE  \E row \in RowType :
                   /\ key' = [key EXCEPT ![u] = row]
                   /\ settled' = [settled EXCEPT ![u] = [at |-> now, kept |-> kept]]
                   /\ row.notified => kept
      <4> DEFINE row == [key[u] EXCEPT !.exp = @ + 4 * Days, !.notified = @ /\ ~reset]
                 mark == key[u].notified /\ ~reset
      <4>1. mark \in BOOLEAN /\ key[u].exp + 4 * Days \in Nat
        BY <1>2 DEF RowType
      <4>2. row = [key[u] EXCEPT !.exp = key[u].exp + 4 * Days, !.notified = mark]
        BY <1>2 DEF RowType
      <4> HIDE DEF mark
      <4>3. [key[u] EXCEPT !.exp = key[u].exp + 4 * Days, !.notified = mark] \in RowType
        BY <1>2, <4>1 DEF RowType
      <4>4. [key[u] EXCEPT !.exp = key[u].exp + 4 * Days, !.notified = mark].notified = mark
        BY <1>2, <4>1 DEF RowType
      <4>5. mark => kept
        BY <3>1 DEF mark
      <4>6. row \in RowType /\ (row.notified => kept)
        BY <4>2, <4>3, <4>4, <4>5
      <4> QED
        BY <3>1, <4>6 DEF ExtendKey, Settle
    <3>2. key[u].notified \in BOOLEAN
      BY <1>2 DEF RowType
    <3> QED
      BY <2>2, <3>1, <3>2
  <2>3. CASE Redeem(u)
    <3> DEFINE from == IF key[u].exp > now THEN key[u].exp ELSE now
    <3>1. /\ key' = [key EXCEPT ![u] = [key[u] EXCEPT !.exp = from + 4, !.live = TRUE,
                                                        !.notified = FALSE]]
          /\ settled' = [settled EXCEPT ![u] = [at |-> now, kept |-> FALSE]]
      BY <2>3 DEF Redeem, Settle
    <3> DEFINE row == [key[u] EXCEPT !.exp = from + 4, !.live = TRUE, !.notified = FALSE]
    <3>2. row \in RowType
      <4>1. from + 4 \in Nat
        BY <1>2 DEF RowType
      <4> HIDE DEF from
      <4> QED
        BY <1>2, <4>1 DEF RowType
    <3>3. row.notified = FALSE
      BY <1>2 DEF RowType
    <3>4. /\ key' = [key EXCEPT ![u] = row]
          /\ settled' = [settled EXCEPT ![u] = [at |-> now, kept |-> FALSE]]
      BY <3>1
    <3> HIDE DEF row
    <3> QED
      BY <3>2, <3>3, <3>4
  <2> QED
    BY <2>1, <2>2, <2>3 DEF Purchase, ActivateGift, FreeTrial
<1>4. ToldTypes'
  BY <1>1, <1>2, <1>3 DEF ToldInv, ToldTypes
<1>5. MarkIsEarned'
  BY <1>1, <1>3 DEF ToldInv, ToldTypes, MarkIsEarned
<1>6. SentWasTold'
  BY <1>1 DEF ToldInv, SentWasTold
<1> QED
  BY <1>4, <1>5, <1>6 DEF ToldInv

\* A sent reminder is in the record before its key can be marked.
LEMMA ToldBySending ==
  ASSUME ToldInv, NEW s \in Selected, SendDaily(s)
  PROVE  ToldInv'
<1>1. UNCHANGED <<key, settled, now>> /\ daily.sent = {} /\ s \in daily.left
  BY DEF SendDaily
<1>2. CASE daily' = [daily EXCEPT !.left = @ \ {s}, !.sent = {s}]
           /\ told' = told \union {Notice(IF Notice("day", s) \in told THEN "again" ELSE "day", s)}
  <2>1. told \subseteq told' /\ Notice("day", s) \in told'
    BY <1>2
  <2>2. daily'.sent = {s} /\ daily' \in JobType
    <3>1. s \in Picked
      BY SelectedPicked
    <3> QED
      BY <1>2, <3>1 DEF ToldInv, ToldTypes, JobType
  <2> QED
    BY <1>1, <2>1, <2>2 DEF ToldInv, ToldTypes, MarkIsEarned, SentWasTold, Notice
<1>3. CASE daily' = Rest(daily, s) /\ told' = told
  <2>1. daily'.sent = {} /\ daily' \in JobType
    BY <1>1, <1>3 DEF Rest, Idle, ToldInv, ToldTypes, JobType
  <2> QED
    BY <1>1, <1>3, <2>1 DEF ToldInv, ToldTypes, MarkIsEarned, SentWasTold
<1> QED
  BY <1>2, <1>3 DEF SendDaily

\* The mark is compared with the row and the expiry that were announced.
LEMMA ToldByMarking ==
  ASSUME ToldInv, NEW s \in Selected, MarkDaily(s)
  PROVE  ToldInv'
<1>1. UNCHANGED <<now, told, settled>> /\ s \in daily.sent /\ s.user \in Users
  BY DEF MarkDaily, Selected
<1>2. daily'.sent = {} /\ daily' \in JobType
  BY DEF MarkDaily, Idle, ToldInv, ToldTypes, JobType
<1>3. CASE key' = key
  BY <1>1, <1>2, <1>3 DEF ToldInv, ToldTypes, MarkIsEarned, SentWasTold
<1>4. CASE key[s.user].exp = s.exp /\ key' = [key EXCEPT ![s.user].notified = TRUE]
  <2>1. key' \in [Users -> RowType]
    BY <1>1, <1>4 DEF ToldInv, ToldTypes, RowType
  <2>2. \A u \in Users : /\ key'[u].exp = key[u].exp
                         /\ u # s.user => key'[u].notified = key[u].notified
    BY <1>1, <1>4 DEF ToldInv, ToldTypes, RowType
  <2>3. [kind |-> "day", user |-> s.user, exp |-> key[s.user].exp] \in told
    BY <1>1, <1>4 DEF ToldInv, SentWasTold
  <2>4. MarkIsEarned'
    BY <1>1, <2>2, <2>3 DEF ToldInv, MarkIsEarned
  <2> QED
    BY <1>1, <1>2, <2>1, <2>4 DEF ToldInv, ToldTypes, SentWasTold
<1> QED
  BY <1>3, <1>4 DEF MarkDaily, mark_key_notified_for_expiry

\* The daily job starts with nothing announced, or is killed.
LEMMA ToldByStart ==
  ASSUME ToldInv, UNCHANGED <<key, settled, told>>, now' \in Nat,
         daily' = daily \/ (daily'.sent = {} /\ daily' \in JobType)
  PROVE  ToldInv'
BY DEF ToldInv, ToldTypes, MarkIsEarned, SentWasTold

\* The other jobs send their own notices.
LEMMA ToldByOthers ==
  ASSUME ToldInv, UNCHANGED <<key, settled, now, daily>>, told \subseteq told'
  PROVE  ToldInv'
BY DEF ToldInv, ToldTypes, MarkIsEarned, SentWasTold

\* Deactivation leaves the mark and the expiry alone.
LEMMA ToldByDeactivation ==
  ASSUME ToldInv, Deactivate
  PROVE  ToldInv'
<1>1. UNCHANGED <<now, daily, told, settled>>
  BY DEF Deactivate
<1>2. ASSUME NEW u \in Users
      PROVE  /\ key'[u] \in RowType
             /\ key'[u].exp = key[u].exp
             /\ key'[u].notified = key[u].notified
  BY <1>2 DEF Deactivate, ToldInv, ToldTypes, RowType
<1>3. key' \in [Users -> RowType]
  BY <1>2 DEF Deactivate
<1> QED
  BY <1>1, <1>2, <1>3 DEF ToldInv, ToldTypes, MarkIsEarned, SentWasTold

\* One step of the jobs, the clock or a user.
LEMMA ToldStep == ToldInv /\ [Next]_vars => ToldInv'
<1> SUFFICES ASSUME ToldInv, [Next]_vars
             PROVE  ToldInv'
  OBVIOUS
<1>1. Idle \in JobType /\ Idle.sent = {}
  BY DEF Idle, JobType
<1>2. CASE Tick
  BY <1>2, ToldByStart DEF Tick, ToldInv, ToldTypes
<1>3. CASE Lose
  <2>1. UNCHANGED <<key, settled, told, now>> /\ (daily' = daily \/ daily' = Idle)
    BY <1>3 DEF Lose
  <2> QED
    BY <1>1, <2>1, ToldByStart DEF ToldInv, ToldTypes
<1>4. CASE StartDaily
  <2>1. PICK users \in SUBSET Users :
          daily' = IF users = {} THEN Idle
                   ELSE [on |-> TRUE, date |-> Day(now) + 1, left |-> Select(users), sent |-> {}]
    BY <1>4 DEF StartDaily, Running, get_unnotified_keys_expiring_on_date, get_keys_expiring_on_date
  <2>2. UNCHANGED <<key, settled, told, now>>
    BY <1>4 DEF StartDaily
  <2>3. daily' \in JobType /\ daily'.sent = {}
    <3>1. Day(now) + 1 \in Nat
      BY DEF Day, ToldInv, ToldTypes
    <3>2. Select(users) \subseteq Picked
      BY DEF Select, Picked, ToldInv, ToldTypes, RowType
    <3> QED
      BY <1>1, <2>1, <3>1, <3>2 DEF JobType
  <2> QED
    BY <2>2, <2>3, ToldByStart DEF ToldInv, ToldTypes
<1>5. CASE StartHourly \/ StartRemoval
  BY <1>5, ToldByOthers DEF StartHourly, StartRemoval
<1>6. CASE Deactivate
  BY <1>6, ToldByDeactivation
<1>7. CASE \E s \in Selected : SendDaily(s) \/ MarkDaily(s)
  BY <1>7, ToldBySending, ToldByMarking
<1>8. CASE \E s \in Selected : SendHourly(s) \/ SendDeactivated(s)
  BY <1>8, ToldByOthers DEF SendHourly, SendDeactivated
<1>9. CASE \E u \in Users : Purchase(u) \/ ActivateGift(u) \/ Redeem(u) \/ FreeTrial(u)
  BY <1>9, ToldByGrant
<1>10. CASE UNCHANGED vars
  BY <1>10, ToldByOthers DEF vars, jobVars
<1> QED
  BY <1>2, <1>3, <1>4, <1>5, <1>6, <1>7, <1>8, <1>9, <1>10 DEF Next

\* A key marked as notified is one whose owner got the reminder for its present
\* expiry, or whose mark a certificate carried on (NotifyBeforeRemovingDailyService
\* and mark_key_notified_for_expiry against every grant that moves the expiry).
THEOREM NotificationsAreTrue == Spec => []NotifiedWasTold
<1>1. ToldInv => NotifiedWasTold
  BY DEF ToldInv, MarkIsEarned, NotifiedWasTold
<1> QED
  BY ToldInit, ToldStep, <1>1, PTL DEF Spec

-------------------------------------------------------------------------------
(* Types.                                                                   *)

Rows == [pk : 0..MaxKeys, exp : Expiries, live : BOOLEAN, notified : BOOLEAN]

\* A live key is a row; a job waits for its predecessor, and one that is over
\* holds no key.
RowsAreLive == \A u \in Users : key[u].live => key[u].pk # 0
OneAtATime ==
  /\ "daily" \in queued => ~daily.on
  /\ ~daily.on => daily.left = {} /\ daily.sent = {}
  /\ ~hourly.on => hourly.left = {}
  /\ removal.on => removal.date <= Day(now)

TypeInv == TypeOK /\ RowsAreLive /\ OneAtATime

\* Four quarters make a day.
LEMMA Quarters ==
  ASSUME NEW t \in Nat
  PROVE  /\ Day(t) \in Nat
         /\ 4 * Day(t) <= t /\ t <= 4 * Day(t) + 3
         /\ t % 4 = t - 4 * Day(t)
BY DEF Day

LEMMA DaysPass ==
  ASSUME NEW t \in Nat
  PROVE  t + 1 \in Nat /\ Day(t + 1) \in Nat /\ Day(t + 1) >= Day(t)
<1>1. t + 1 \in Nat
  OBVIOUS
<1>2. /\ Day(t + 1) \in Nat /\ t + 1 <= 4 * Day(t + 1) + 3
      /\ Day(t) \in Nat /\ 4 * Day(t) <= t
  BY <1>1, Quarters
<1> QED
  BY ONLY <1>1, <1>2

LEMMA Numbers ==
  ASSUME TypeOK
  PROVE  /\ now \in Nat /\ Day(now) \in Nat
         /\ \A u \in Users : /\ key[u].exp \in Nat /\ key[u].pk \in Nat /\ key[u] \in Rows
                             /\ key[u].live \in BOOLEAN /\ key[u].notified \in BOOLEAN
                             /\ settled[u].at \in Nat /\ settled[u].kept \in BOOLEAN
         /\ faults.n \in Nat
<1>1. now \in Nat /\ faults.n \in Nat
  BY BoundsAssumption DEF TypeOK
<1>2. ASSUME NEW u \in Users
      PROVE  /\ key[u].exp \in Nat /\ key[u].pk \in Nat /\ key[u] \in Rows
             /\ key[u].live \in BOOLEAN /\ key[u].notified \in BOOLEAN
             /\ settled[u].at \in Nat /\ settled[u].kept \in BOOLEAN
  <2>1. LastExpiry \in Nat /\ MaxKeys \in Nat /\ LastQuarter \in Nat
    BY BoundsAssumption
  <2>2. key[u] \in Rows /\ settled[u] \in [at : 0..LastQuarter, kept : BOOLEAN]
    BY DEF TypeOK, Rows
  <2> QED
    BY <2>1, <2>2 DEF Rows, Expiries
<1> QED
  BY <1>1, <1>2, Quarters

\* What a job selects, for a set of users with a live key.
LEMMA SelectedAreRows ==
  ASSUME TypeInv, NEW users \in SUBSET Users, \A u \in users : key[u].live
  PROVE  /\ Select(users) \subseteq Selected
         /\ \A s \in Select(users) : /\ s.user \in users
                                     /\ s.pk = key[s.user].pk /\ s.exp = key[s.user].exp
         /\ \A u \in users : \E s \in Select(users) : s.user = u /\ s.exp = key[u].exp
         /\ \A s, t \in Select(users) : s.user = t.user => s = t
<1>1. ASSUME NEW u \in users
      PROVE  [user |-> u, pk |-> key[u].pk, exp |-> key[u].exp] \in Selected
  <2>1. key[u] \in Rows /\ key[u].pk # 0 /\ MaxKeys \in Nat
    BY Numbers, BoundsAssumption DEF TypeInv, RowsAreLive
  <2> QED
    BY <2>1 DEF Rows, Selected
<1> DEFINE row(u) == [user |-> u, pk |-> key[u].pk, exp |-> key[u].exp]
<1>2. \A u : row(u).user = u /\ row(u).pk = key[u].pk /\ row(u).exp = key[u].exp
  OBVIOUS
<1>3. Select(users) = {row(u) : u \in users}
  BY DEF Select
<1>4. \A u \in users : row(u) \in Selected
  BY <1>1
<1> HIDE DEF row
<1> QED
  BY <1>2, <1>3, <1>4

\* What a job is when it starts: idle, or at its list.
LEMMA RunningTypes ==
  ASSUME TypeInv, NEW job, NEW started, NEW date \in Nat, NEW users \in SUBSET Users,
         \A u \in users : key[u].live,
         started = IF users = {} THEN Idle
                   ELSE [on |-> TRUE, date |-> date, left |-> Select(users), sent |-> {}]
  PROVE  /\ started \in JobState /\ started.sent = {}
         /\ ~started.on => started.left = {}
         /\ started.on => started.date = date
         /\ started.left = Select(users)
<1>1. Select(users) \subseteq Selected /\ (users = {} => Select(users) = {})
  BY SelectedAreRows DEF Select
<1> QED
  BY <1>1 DEF JobState, Idle

LEMMA RestTypes ==
  ASSUME NEW job \in JobState, NEW s \in job.left
  PROVE  /\ Rest(job, s) \in JobState
         /\ Rest(job, s).left = job.left \ {s}
         /\ Rest(job, s).sent \in {job.sent, {}}
         /\ ~Rest(job, s).on => \/ Rest(job, s).left = {} /\ Rest(job, s).sent = {}
                                \/ ~job.on
         /\ Rest(job, s).on => job.on /\ Rest(job, s).date = job.date
<1>1. CASE job.left = {s}
  <2>1. Rest(job, s) = Idle
    BY <1>1 DEF Rest
  <2> QED
    BY <1>1, <2>1 DEF Idle, JobState
<1>2. CASE job.left # {s}
  <2>1. Rest(job, s) = [job EXCEPT !.left = job.left \ {s}]
    BY <1>2 DEF Rest
  <2> QED
    BY <2>1 DEF JobState
<1> QED
  BY <1>1, <1>2

\* A fault is one more, and of a kind that may happen.
LEMMA FaultTypes ==
  ASSUME TypeOK, NEW k, Fault(k)
  PROVE  /\ faults' \in [n : 0..MaxFaults, kinds : SUBSET FaultKinds]
         /\ faults'.n = faults.n + 1
         /\ faults'.kinds = faults.kinds \union {k}
<1>1. faults.n \in 0..MaxFaults /\ faults.kinds \subseteq FaultKinds /\ MaxFaults \in Nat
  BY BoundsAssumption DEF TypeOK
<1> QED
  BY <1>1 DEF Fault

Faults == [n : 0..MaxFaults, kinds : SUBSET FaultKinds]

\* Every step leaves the faults alone or adds one.
LEMMA FaultsGrow ==
  ASSUME TypeOK, [Next]_vars
  PROVE  /\ faults' \in Faults
         /\ faults'.n >= faults.n
         /\ faults.kinds \subseteq faults'.kinds
<1>1. faults \in Faults /\ faults.n \in Nat
  BY Numbers DEF TypeOK, Faults
<1>2. UNCHANGED faults \/ \E k \in {"late", "lost", "send"} : Fault(k)
  <2>1. CASE Tick \/ Lose \/ StartDaily \/ StartHourly \/ StartRemoval \/ Deactivate
    BY <2>1 DEF Tick, Lose, StartDaily, StartHourly, StartRemoval, Deactivate
  <2>2. ASSUME NEW s \in Selected,
               SendDaily(s) \/ MarkDaily(s) \/ SendHourly(s) \/ SendDeactivated(s)
        PROVE  UNCHANGED faults \/ \E k \in {"late", "lost", "send"} : Fault(k)
    BY <2>2 DEF SendDaily, MarkDaily, SendHourly, SendDeactivated
  <2>3. ASSUME NEW u \in Users, Purchase(u) \/ ActivateGift(u) \/ Redeem(u) \/ FreeTrial(u)
        PROVE  UNCHANGED faults
    BY <2>3 DEF Purchase, ActivateGift, Redeem, FreeTrial, GrantFrame, jobVars
  <2> QED
    BY <2>1, <2>2, <2>3 DEF Next, vars, jobVars
<1> QED
  BY <1>1, <1>2, FaultTypes DEF Faults

\* What a grant does: the user has a live key that ends on a later day, later
\* than any expiry the jobs of today may know of.
LEMMA GrantEffect ==
  ASSUME TypeInv, NEW u \in Users,
         Purchase(u) \/ ActivateGift(u) \/ Redeem(u) \/ FreeTrial(u)
  PROVE  \E row \in Rows, kept \in BOOLEAN :
           /\ key' = [key EXCEPT ![u] = row]
           /\ settled' = [settled EXCEPT ![u] = [at |-> now, kept |-> kept]]
           /\ UNCHANGED <<now, jobVars, told, faults>>
           /\ row.live /\ row.pk # 0
           /\ Day(row.exp) > Day(now)
           /\ \A e \in Nat : Day(e) <= Day(now) + 1 /\ e <= key[u].exp => row.exp > e
<1>1. /\ key[u] \in Rows /\ key[u].exp \in Nat /\ key[u].pk \in Nat /\ now \in Nat
      /\ key[u].live \in BOOLEAN /\ key[u].notified \in BOOLEAN
      /\ key[u].live => key[u].pk # 0
  BY Numbers DEF TypeInv, RowsAreLive
<1>2. Days \in Nat /\ Days > 1 /\ MaxKeys \in Nat /\ LastExpiry \in Nat
  BY DaysAssumption, BoundsAssumption
<1>3. UNCHANGED <<now, jobVars, told, faults>>
  BY DEF Purchase, ActivateGift, Redeem, FreeTrial, GrantFrame
<1>4. CASE IssueKey(u)
  <2> DEFINE row == [pk |-> key[u].pk + 1, exp |-> now + 4 * Days, live |-> TRUE,
                     notified |-> FALSE]
  <2>1. /\ key' = [key EXCEPT ![u] = row] /\ now + 4 * Days \in Expiries
        /\ settled' = [settled EXCEPT ![u] = [at |-> now, kept |-> FALSE]]
    BY <1>4 DEF IssueKey, Settle
  <2>2. row \in Rows /\ row.live /\ row.pk # 0 /\ row.exp = now + 4 * Days
    BY <1>1, <1>2, <1>4, <2>1 DEF Rows, IssueKey
  <2> HIDE DEF row
  <2>3. row.exp \in Nat /\ row.exp >= now + 8
    BY <1>1, <1>2, <2>2
  <2>4. /\ Day(row.exp) \in Nat /\ row.exp <= 4 * Day(row.exp) + 3
        /\ Day(now) \in Nat /\ 4 * Day(now) <= now /\ now \in Nat /\ now <= 4 * Day(now) + 3
    BY <1>1, <2>3, Quarters
  <2>5. Day(row.exp) > Day(now)
    BY ONLY <2>3, <2>4
  <2>6. ASSUME NEW e \in Nat, Day(e) <= Day(now) + 1  PROVE row.exp > e
    <3>1. Day(e) \in Nat /\ e <= 4 * Day(e) + 3
      BY Quarters
    <3> QED
      BY ONLY <2>3, <2>4, <2>6, <3>1
  <2> QED
    BY <1>3, <2>1, <2>2, <2>5, <2>6
<1>5. ASSUME NEW reset \in BOOLEAN, NEW kept \in BOOLEAN, ExtendKey(u, reset, kept), MayBeActive(u)
      PROVE  \E row \in Rows :
               /\ key' = [key EXCEPT ![u] = row]
               /\ settled' = [settled EXCEPT ![u] = [at |-> now, kept |-> kept]]
               /\ row.live /\ row.pk # 0
               /\ Day(row.exp) > Day(now)
               /\ \A e \in Nat : Day(e) <= Day(now) + 1 /\ e <= key[u].exp => row.exp > e
  <2> DEFINE exp == key[u].exp + 4 * Days
             mark == key[u].notified /\ ~reset
             row == [key[u] EXCEPT !.exp = exp, !.notified = mark]
  <2>1. /\ key' = [key EXCEPT ![u] = row] /\ row.exp \in Expiries
        /\ settled' = [settled EXCEPT ![u] = [at |-> now, kept |-> kept]]
    BY <1>5 DEF ExtendKey, Settle
  <2>2. mark \in BOOLEAN /\ key[u].live /\ key[u].exp >= now
    BY <1>1, <1>5 DEF MayBeActive
  <2>3. exp \in Nat /\ exp >= key[u].exp + 8
    BY <1>1, <1>2
  <2> HIDE DEF exp, mark
  <2>4. row.exp = exp /\ row.live = key[u].live /\ row.pk = key[u].pk
    BY <1>1 DEF Rows
  <2>5. row \in Rows
    BY <1>1, <2>1, <2>2, <2>4 DEF Rows
  <2>6. Day(row.exp) > Day(now)
    BY <1>1, <2>2, <2>3, <2>4, Quarters
  <2>7. \A e \in Nat : e <= key[u].exp => row.exp > e
    BY <1>1, <2>3, <2>4
  <2> HIDE DEF row
  <2> QED
    BY <1>1, <2>1, <2>2, <2>4, <2>5, <2>6, <2>7
<1>6. CASE Redeem(u)
  <2> DEFINE from == IF key[u].exp > now THEN key[u].exp ELSE now
             exp == from + 4
             row == [key[u] EXCEPT !.exp = exp, !.live = TRUE, !.notified = FALSE]
  <2>1. /\ key' = [key EXCEPT ![u] = row] /\ row.exp \in Expiries /\ key[u].pk # 0
        /\ settled' = [settled EXCEPT ![u] = [at |-> now, kept |-> FALSE]]
    BY <1>6 DEF Redeem, Settle
  <2>2. exp \in Nat /\ exp >= key[u].exp + 4 /\ exp >= now + 4
    BY <1>1
  <2> HIDE DEF from, exp
  <2>3. row.exp = exp /\ row.live /\ row.pk = key[u].pk
    BY <1>1 DEF Rows
  <2>4. row \in Rows
    BY <1>1, <2>1, <2>3 DEF Rows
  <2>5. Day(row.exp) > Day(now)
    BY <1>1, <2>2, <2>3, Quarters
  <2>6. \A e \in Nat : e <= key[u].exp => row.exp > e
    BY <1>1, <2>2, <2>3
  <2> HIDE DEF row
  <2> QED
    BY <1>3, <2>1, <2>3, <2>4, <2>5, <2>6
<1> QED
  BY <1>1, <1>3, <1>4, <1>5, <1>6 DEF Purchase, ActivateGift, FreeTrial

LEMMA TypesByGrant ==
  ASSUME TypeInv, NEW u \in Users,
         Purchase(u) \/ ActivateGift(u) \/ Redeem(u) \/ FreeTrial(u)
  PROVE  TypeInv'
<1>1. PICK row \in Rows, kept \in BOOLEAN :
        /\ key' = [key EXCEPT ![u] = row]
        /\ settled' = [settled EXCEPT ![u] = [at |-> now, kept |-> kept]]
        /\ UNCHANGED <<now, jobVars, told, faults>>
        /\ row.live /\ row.pk # 0
  BY GrantEffect
<1>2. key \in [Users -> Rows] /\ key' \in [Users -> Rows]
  BY <1>1 DEF TypeInv, TypeOK, Rows
<1>3. settled' \in [Users -> [at : 0..LastQuarter, kept : BOOLEAN]]
  BY <1>1 DEF TypeInv, TypeOK
<1>4. UNCHANGED <<queued, daily, hourly, removal>>
  BY <1>1 DEF jobVars
<1>5. TypeOK'
  BY <1>1, <1>2, <1>3, <1>4 DEF TypeInv, TypeOK, Rows
<1>6. RowsAreLive'
  BY <1>1, <1>2 DEF TypeInv, RowsAreLive
<1>7. OneAtATime'
  BY <1>1, <1>4 DEF TypeInv, OneAtATime
<1> QED
  BY <1>5, <1>6, <1>7 DEF TypeInv

\* A step of the jobs that leaves the keys alone keeps the types, if it keeps those
\* of the jobs.
LEMMA TypesOfJobs ==
  ASSUME TypeInv, UNCHANGED <<key, settled>>, now' \in 0..LastQuarter, queued' \subseteq Jobs,
         faults' \in Faults, told' \subseteq Notices,
         {daily', hourly', removal'} \subseteq JobState,
         \A s \in daily'.sent : Cardinality(daily'.sent) = 1 /\ s \notin daily'.left,
         OneAtATime'
  PROVE  TypeInv'
BY DEF TypeInv, TypeOK, RowsAreLive, Faults

LEMMA TypesByTick ==
  ASSUME TypeInv, Tick
  PROVE  TypeInv'
<1>1. now \in 0..LastQuarter /\ now < LastQuarter /\ LastQuarter \in Nat /\ now' = now + 1
      /\ UNCHANGED <<key, daily, hourly, removal, told, settled>>
  BY BoundsAssumption DEF Tick, TypeInv, TypeOK
<1>2. now' \in 0..LastQuarter /\ now' \in Nat /\ Day(now') >= Day(now)
  <2>1. now' \in 0..LastQuarter /\ now' \in Nat /\ now \in Nat
    BY <1>1
  <2> QED
    BY <1>1, <2>1, Quarters
<1>3. queued' \subseteq Jobs
  BY DEF Tick, Scheduled, Jobs, TypeInv, TypeOK
<1>4. faults' \in Faults
  BY FaultsGrow DEF Next, TypeInv
<1>5. "daily" \in queued' => ~daily.on
  <2>1. CASE "daily" \in queued
    BY <2>1 DEF TypeInv, OneAtATime
  <2>2. CASE "daily" \in Scheduled(now + 1)
    BY <2>2 DEF Tick, StillOf
  <2> QED
    BY <2>1, <2>2 DEF Tick
<1>6. Day(now) \in Nat /\ Day(now') \in Nat /\ (removal.on => removal.date \in Nat)
  BY <1>1, <1>2, Quarters DEF TypeInv, TypeOK, JobState
<1>7. OneAtATime'
  BY <1>1, <1>2, <1>5, <1>6 DEF TypeInv, OneAtATime
<1> QED
  BY <1>1, <1>2, <1>3, <1>4, <1>7, TypesOfJobs DEF TypeInv, TypeOK

LEMMA TypesByLoss ==
  ASSUME TypeInv, Lose
  PROVE  TypeInv'
<1>1. UNCHANGED <<now, key, told, settled>> /\ queued' \subseteq queued
      /\ daily' \in {daily, Idle} /\ hourly' \in {hourly, Idle} /\ removal' \in {removal, Idle}
  BY DEF Lose
<1>2. Idle \in JobState /\ ~Idle.on /\ Idle.left = {} /\ Idle.sent = {}
  BY DEF Idle, JobState
<1>3. faults' \in Faults
  BY FaultsGrow DEF Next, TypeInv
<1>4. OneAtATime'
  BY <1>1, <1>2 DEF TypeInv, OneAtATime
<1> QED
  BY <1>1, <1>2, <1>3, <1>4, TypesOfJobs DEF TypeInv, TypeOK

\* What a job that starts may select.
LEMMA Selections ==
  ASSUME NEW d
  PROVE  /\ get_keys_expiring_on_date(d) \subseteq Users
         /\ get_unnotified_keys_expiring_on_date(d) \subseteq Users
         /\ get_keys_expired_up_to_date(d) \subseteq Users
         /\ \A u \in get_keys_expiring_on_date(d) \union get_unnotified_keys_expiring_on_date(d)
                     \union get_keys_expired_up_to_date(d) : key[u].live
BY DEF get_keys_expiring_on_date, get_unnotified_keys_expiring_on_date,
       get_keys_expired_up_to_date

LEMMA TypesByStart ==
  ASSUME TypeInv, StartDaily \/ StartHourly \/ StartRemoval
  PROVE  TypeInv'
<1>1. UNCHANGED <<now, key, told, settled, faults>> /\ queued' \subseteq queued
  BY DEF StartDaily, StartHourly, StartRemoval, Take
<1>2. Day(now) \in Nat /\ Day(now) + 1 \in Nat
  BY Numbers DEF TypeInv
<1>3. faults' \in Faults
  BY <1>1 DEF TypeInv, TypeOK, Faults
<1>4. CASE StartDaily
  <2> DEFINE users == get_unnotified_keys_expiring_on_date(Day(now) + 1)
  <2>1. daily' = IF users = {} THEN Idle
                 ELSE [on |-> TRUE, date |-> Day(now) + 1, left |-> Select(users), sent |-> {}]
    BY <1>4 DEF StartDaily, Running
  <2>2. users \subseteq Users /\ \A u \in users : key[u].live
    BY Selections
  <2> HIDE DEF users
  <2>3. daily' \in JobState /\ daily'.sent = {} /\ (~daily'.on => daily'.left = {})
    BY <1>2, <2>1, <2>2, RunningTypes
  <2>4. OneAtATime'
    BY <1>1, <1>4, <2>3 DEF StartDaily, Take, TypeInv, OneAtATime
  <2> QED
    BY <1>1, <1>3, <1>4, <2>3, <2>4, TypesOfJobs DEF StartDaily, TypeInv, TypeOK
<1>5. CASE StartHourly
  <2> DEFINE users == get_keys_expiring_on_date(Day(now))
  <2>1. hourly' = IF users = {} THEN Idle
                  ELSE [on |-> TRUE, date |-> Day(now), left |-> Select(users), sent |-> {}]
    BY <1>5 DEF StartHourly, Running
  <2>2. users \subseteq Users /\ \A u \in users : key[u].live
    BY Selections
  <2> HIDE DEF users
  <2>3. hourly' \in JobState /\ (~hourly'.on => hourly'.left = {})
    BY <1>2, <2>1, <2>2, RunningTypes
  <2>4. OneAtATime'
    BY <1>1, <1>5, <2>3 DEF StartHourly, TypeInv, OneAtATime
  <2> QED
    BY <1>1, <1>3, <1>5, <2>3, <2>4, TypesOfJobs DEF StartHourly, TypeInv, TypeOK
<1>6. CASE StartRemoval
  <2> DEFINE users == get_keys_expired_up_to_date(Day(now))
  <2>1. removal' = IF users = {} THEN Idle
                   ELSE [on |-> TRUE, date |-> Day(now), left |-> Select(users), sent |-> {}]
    BY <1>6 DEF StartRemoval, Running
  <2>2. users \subseteq Users /\ \A u \in users : key[u].live
    BY Selections
  <2> HIDE DEF users
  <2>3. removal' \in JobState /\ (removal'.on => removal'.date = Day(now))
    BY <1>2, <2>1, <2>2, RunningTypes
  <2>4. OneAtATime'
    BY <1>1, <1>2, <1>6, <2>3 DEF StartRemoval, TypeInv, OneAtATime
  <2> QED
    BY <1>1, <1>3, <1>6, <2>3, <2>4, TypesOfJobs DEF StartRemoval, TypeInv, TypeOK
<1> QED
  BY <1>4, <1>5, <1>6

\* A notice about a key that was selected.
LEMMA NoticeTypes ==
  ASSUME NEW s \in Selected, NEW kind \in {"day", "again", "hour", "deactivated"}
  PROVE  Notice(kind, s) \in Notices
BY DEF Selected, Notice, Notices

LEMMA TypesBySending ==
  ASSUME TypeInv, NEW s \in Selected,
         SendDaily(s) \/ SendHourly(s) \/ SendDeactivated(s)
  PROVE  TypeInv'
<1>1. UNCHANGED <<now, key, queued, settled>>
  BY DEF SendDaily, SendHourly, SendDeactivated
<1>2. faults' \in Faults
  BY FaultsGrow DEF Next, TypeInv
<1>3. told' \subseteq Notices
  BY NoticeTypes DEF SendDaily, SendHourly, SendDeactivated, TypeInv, TypeOK
<1>4. daily \in JobState /\ hourly \in JobState /\ removal \in JobState
  BY DEF TypeInv, TypeOK
<1>5. CASE SendDaily(s)
  <2>1. UNCHANGED <<hourly, removal>> /\ s \in daily.left /\ daily.on
    BY <1>5 DEF SendDaily, TypeInv, OneAtATime
  <2>2. CASE daily' = [daily EXCEPT !.left = @ \ {s}, !.sent = {s}]
    <3>1. /\ daily' \in JobState /\ daily'.on = daily.on /\ daily'.sent = {s}
          /\ daily'.left = daily.left \ {s}
      BY <1>4, <2>2 DEF JobState
    <3>2. Cardinality({s}) = 1
      BY FS_Singleton
    <3>3. OneAtATime'
      BY <1>1, <2>1, <3>1 DEF TypeInv, OneAtATime
    <3>4. \A t \in daily'.sent : Cardinality(daily'.sent) = 1 /\ t \notin daily'.left
      BY <3>1, <3>2
    <3> QED
      BY <1>1, <1>2, <1>3, <1>4, <2>1, <3>1, <3>3, <3>4, TypesOfJobs DEF TypeInv, TypeOK
  <2>3. CASE daily' = Rest(daily, s) /\ daily.sent = {}
    <3>1. /\ daily' \in JobState /\ daily'.sent = {} /\ (~daily'.on => daily'.left = {})
          /\ (daily'.on => daily.on)
      BY <1>4, <2>1, <2>3, RestTypes
    <3>2. OneAtATime'
      BY <1>1, <2>1, <3>1 DEF TypeInv, OneAtATime
    <3> QED
      BY <1>1, <1>2, <1>3, <1>4, <2>1, <3>1, <3>2, TypesOfJobs DEF TypeInv, TypeOK
  <2> QED
    BY <1>5, <2>2, <2>3 DEF SendDaily
<1>6. CASE SendHourly(s)
  <2>1. UNCHANGED <<daily, removal>> /\ s \in hourly.left /\ hourly.on /\ hourly' = Rest(hourly, s)
    BY <1>6 DEF SendHourly, TypeInv, OneAtATime
  <2>2. hourly' \in JobState /\ (~hourly'.on => hourly'.left = {})
    BY <1>4, <2>1, RestTypes
  <2>3. OneAtATime'
    BY <1>1, <2>1, <2>2 DEF TypeInv, OneAtATime
  <2> QED
    BY <1>1, <1>2, <1>3, <1>4, <2>1, <2>2, <2>3, TypesOfJobs DEF TypeInv, TypeOK
<1>7. CASE SendDeactivated(s)
  <2>1. UNCHANGED <<daily, hourly>> /\ s \in removal.left /\ removal' = Rest(removal, s)
    BY <1>7 DEF SendDeactivated
  <2>2. removal' \in JobState /\ (removal'.on => removal.on /\ removal'.date = removal.date)
    BY <1>4, <2>1, RestTypes
  <2>3. OneAtATime'
    BY <1>1, <2>1, <2>2 DEF TypeInv, OneAtATime
  <2> QED
    BY <1>1, <1>2, <1>3, <1>4, <2>1, <2>2, <2>3, TypesOfJobs DEF TypeInv, TypeOK
<1> QED
  BY <1>5, <1>6, <1>7

\* The mark changes nothing else.
LEMMA MarkEffect ==
  ASSUME TypeInv, NEW s \in Selected, MarkDaily(s)
  PROVE  /\ UNCHANGED <<now, queued, hourly, removal, told, settled, faults>>
         /\ s \in daily.sent
         /\ daily' \in JobState /\ daily'.sent = {} /\ daily'.left = daily.left
         /\ ~daily'.on => daily'.left = {}
         /\ daily'.on => daily.on
         /\ key' \in [Users -> Rows]
         /\ \A u \in Users : /\ key'[u].pk = key[u].pk /\ key'[u].exp = key[u].exp
                             /\ key'[u].live = key[u].live
                             /\ key[u].notified => key'[u].notified
         /\ key[s.user].pk = s.pk /\ key[s.user].exp = s.exp => key'[s.user].notified
<1>1. /\ UNCHANGED <<now, queued, hourly, removal, told, settled, faults>>
      /\ s \in daily.sent
      /\ daily' = IF daily.left = {} THEN Idle ELSE [daily EXCEPT !.sent = {}]
  BY DEF MarkDaily
<1>2. daily \in JobState /\ daily.on
  BY <1>1 DEF TypeInv, TypeOK, OneAtATime
<1>3. /\ daily' \in JobState /\ daily'.sent = {} /\ daily'.left = daily.left
      /\ ~daily'.on => daily'.left = {}
  BY <1>1, <1>2 DEF Idle, JobState
<1>4. key \in [Users -> Rows] /\ s.user \in Users
  BY DEF TypeInv, TypeOK, Rows, Selected
<1>5. CASE key' = key /\ ~(key[s.user].pk = s.pk /\ key[s.user].exp = s.exp)
  BY <1>1, <1>2, <1>3, <1>4, <1>5
<1>6. CASE key' = [key EXCEPT ![s.user].notified = TRUE]
  <2>1. key' = [key EXCEPT ![s.user] = [key[s.user] EXCEPT !.notified = TRUE]]
    BY <1>6
  <2>2. key[s.user] \in Rows /\ key'[s.user] = [key[s.user] EXCEPT !.notified = TRUE]
    BY <1>4, <2>1
  <2>3. /\ key'[s.user] \in Rows /\ key'[s.user].pk = key[s.user].pk
        /\ key'[s.user].exp = key[s.user].exp /\ key'[s.user].live = key[s.user].live
        /\ key'[s.user].notified
    BY <2>2 DEF Rows
  <2>4. key' \in [Users -> Rows] /\ \A u \in Users \ {s.user} : key'[u] = key[u]
    BY <1>4, <2>1, <2>2, <2>3
  <2> QED
    BY <1>1, <1>2, <1>3, <1>4, <2>3, <2>4
<1> QED
  BY <1>5, <1>6 DEF MarkDaily, mark_key_notified_for_expiry

\* A deactivated key keeps its row, its expiry and its mark.
LEMMA DeactivationEffect ==
  ASSUME TypeInv, Deactivate
  PROVE  /\ UNCHANGED <<now, queued, daily, hourly, told, settled, faults>>
         /\ removal' \in JobState
         /\ removal.on /\ removal'.on /\ removal'.date = removal.date
         /\ key' \in [Users -> Rows]
         /\ \A u \in Users :
              /\ key'[u].pk = key[u].pk /\ key'[u].exp = key[u].exp
              /\ key'[u].notified = key[u].notified
              /\ key'[u].live => key[u].live
              /\ key[u].live /\ ~key'[u].live => Day(key[u].exp) <= removal.date
<1>1. /\ UNCHANGED <<now, queued, daily, hourly, told, settled, faults>>
      /\ removal.on /\ removal' = [removal EXCEPT !.sent = removal.left]
      /\ key' = [u \in Users |-> IF u \in get_keys_expired_up_to_date(removal.date)
                                 THEN [key[u] EXCEPT !.live = FALSE] ELSE key[u]]
  BY DEF Deactivate
<1>2. removal \in JobState /\ key \in [Users -> Rows]
  BY DEF TypeInv, TypeOK, Rows
<1>3. removal' \in JobState /\ removal'.on = removal.on /\ removal'.date = removal.date
  BY <1>1, <1>2 DEF JobState
<1>4. ASSUME NEW u \in Users
      PROVE  /\ key'[u] \in Rows
             /\ key'[u].pk = key[u].pk /\ key'[u].exp = key[u].exp
             /\ key'[u].notified = key[u].notified
             /\ key'[u].live => key[u].live
             /\ key[u].live /\ ~key'[u].live => Day(key[u].exp) <= removal.date
  <2>1. CASE u \in get_keys_expired_up_to_date(removal.date)
    <3>1. key'[u] = [key[u] EXCEPT !.live = FALSE] /\ Day(key[u].exp) <= removal.date
          /\ key[u].live
      BY <1>1, <2>1 DEF get_keys_expired_up_to_date
    <3> QED
      BY <1>2, <3>1 DEF Rows
  <2>2. CASE u \notin get_keys_expired_up_to_date(removal.date)
    BY <1>1, <1>2, <2>2
  <2> QED
    BY <2>1, <2>2
<1>5. key' \in [Users -> Rows]
  BY <1>1, <1>4
<1> QED
  BY <1>1, <1>3, <1>4, <1>5

LEMMA TypeStep == TypeInv /\ [Next]_vars => TypeInv'
<1> SUFFICES ASSUME TypeInv, [Next]_vars
             PROVE  TypeInv'
  OBVIOUS
<1>1. CASE Tick \/ Lose \/ StartDaily \/ StartHourly \/ StartRemoval
  BY <1>1, TypesByTick, TypesByLoss, TypesByStart
<1>2. CASE Deactivate
  <2>1. TypeOK'
    BY <1>2, DeactivationEffect DEF TypeInv, TypeOK, Rows
  <2> QED
    BY <1>2, <2>1, DeactivationEffect DEF TypeInv, RowsAreLive, OneAtATime
<1>3. CASE \E s \in Selected : SendDaily(s) \/ SendHourly(s) \/ SendDeactivated(s)
  BY <1>3, TypesBySending
<1>4. ASSUME NEW s \in Selected, MarkDaily(s)
      PROVE  TypeInv'
  <2>1. TypeOK'
    BY <1>4, MarkEffect DEF TypeInv, TypeOK, Rows
  <2> QED
    BY <1>4, <2>1, MarkEffect DEF TypeInv, RowsAreLive, OneAtATime
<1>5. CASE \E u \in Users : Purchase(u) \/ ActivateGift(u) \/ Redeem(u) \/ FreeTrial(u)
  BY <1>5, TypesByGrant
<1>6. CASE UNCHANGED vars
  BY <1>6 DEF vars, jobVars, TypeInv, TypeOK, RowsAreLive, OneAtATime
<1> QED
  BY <1>1, <1>2, <1>3, <1>4, <1>5, <1>6 DEF Next

LEMMA InitKeys ==
  ASSUME Init, NEW u \in Users
  PROVE  \/ key[u] = NoKey
         \/ \E e \in 4..7 : key[u] = [pk |-> 1, exp |-> e, live |-> TRUE, notified |-> FALSE]
BY DEF Init

LEMMA TypeInit == Init => TypeInv
<1> SUFFICES ASSUME Init
             PROVE  TypeInv
  OBVIOUS
<1>1. MaxKeys \in Nat /\ MaxKeys > 0 /\ LastExpiry \in Nat /\ LastExpiry >= 7
      /\ LastQuarter \in Nat /\ MaxFaults \in Nat
  BY BoundsAssumption
<1>2. ASSUME NEW u \in Users
      PROVE  key[u] \in Rows /\ (key[u].live => key[u].pk # 0)
  <2>1. CASE key[u] = NoKey
    BY <1>1, <2>1 DEF NoKey, Rows, Expiries
  <2>2. ASSUME NEW e \in 4..7,
               key[u] = [pk |-> 1, exp |-> e, live |-> TRUE, notified |-> FALSE]
        PROVE  key[u] \in Rows /\ (key[u].live => key[u].pk # 0)
    BY <1>1, <2>2 DEF Rows, Expiries
  <2> QED
    BY <2>1, <2>2, InitKeys
<1>3. key \in [Users -> Rows]
  <2>1. key = [u \in Users |-> key[u]]
    BY DEF Init
  <2> QED
    BY <1>2, <2>1
<1>4. Idle \in JobState /\ ~Idle.on /\ Idle.left = {} /\ Idle.sent = {}
  BY DEF Idle, JobState
<1>5. TypeOK
  BY <1>1, <1>3, <1>4 DEF Init, TypeOK, Rows, Jobs
<1> QED
  BY <1>2, <1>4, <1>5 DEF Init, TypeInv, RowsAreLive, OneAtATime

\* Every row, job and notice keeps its type, whatever jobs overlap, are late or
\* get lost, and whatever the grants do meanwhile.
THEOREM RemindersAreTyped == Spec => []TypeOK
<1>1. TypeInv => TypeOK
  BY DEF TypeInv
<1> QED
  BY TypeInit, TypeStep, <1>1, PTL DEF Spec

-------------------------------------------------------------------------------
(* Once per expiry.                                                         *)

Lost == "lost" \in faults.kinds
Held == daily.left \union daily.sent

\* What the daily job holds are keys as they were when it started: an expiry only
\* moved on since; one key of a user, and one key at a time between notice and mark.
HeldAreKeys ==
  \A s \in Held :
    /\ Day(s.exp) <= Day(now) + 1
    /\ key[s.user].exp >= s.exp
    /\ key[s.user].exp = s.exp => key[s.user].pk = s.pk
    /\ \A t \in Held : t.user = s.user \/ {s, t} \subseteq daily.sent => t = s

\* An expiry that was announced is marked, is about to be marked, or is gone; no
\* job has it on its list again.
AnnouncedIsDone ==
  \A n \in told : n.kind = "day" =>
    /\ Day(n.exp) <= Day(now) + 1
    /\ key[n.user].exp >= n.exp
    /\ \/ Lost
       \/ /\ key[n.user].exp = n.exp =>
               \/ key[n.user].notified
               \/ \E s \in daily.sent : s.user = n.user /\ s.exp = n.exp
          /\ \A s \in daily.left : s.user = n.user => s.exp # n.exp

OnceInv == TypeInv /\ HeldAreKeys /\ AnnouncedIsDone /\ RemindedOnce

LEMMA HeldTypes ==
  ASSUME TypeInv
  PROVE  /\ \A s \in Held : s \in Selected /\ s.user \in Users /\ s.exp \in Nat /\ Day(s.exp) \in Nat
         /\ \A n \in told : n.user \in Users /\ n.exp \in Nat /\ Day(n.exp) \in Nat
<1>1. LastExpiry \in Nat
  BY BoundsAssumption
<1>2. \A s \in Held : s \in Selected
  BY DEF TypeInv, TypeOK, JobState, Held
<1>3. \A s \in Held : s.user \in Users /\ s.exp \in Nat
  BY <1>1, <1>2 DEF Selected, Expiries
<1>4. \A n \in told : n.user \in Users /\ n.exp \in Nat
  BY <1>1 DEF TypeInv, TypeOK, Notices, Expiries
<1> QED
  BY <1>2, <1>3, <1>4, Quarters

\* What keeps the job, the expiries and its notices keeps the argument.
LEMMA OnceKept ==
  ASSUME OnceInv, TypeInv', daily' = daily, now' \in Nat, Day(now') >= Day(now),
         faults.kinds \subseteq faults'.kinds,
         \A u \in Users : /\ key'[u].pk = key[u].pk /\ key'[u].exp = key[u].exp
                          /\ key[u].notified => key'[u].notified,
         \A n \in told' : n.kind \in {"day", "again"} => n \in told
  PROVE  OnceInv'
<1>1. Day(now) \in Nat /\ Day(now') \in Nat
  BY Numbers, Quarters DEF OnceInv, TypeInv
<1>2. HeldAreKeys'
  <2>1. Held' = Held
    BY DEF Held
  <2> QED
    BY <1>1, <2>1, HeldTypes DEF OnceInv, HeldAreKeys
<1>3. AnnouncedIsDone'
  <2> SUFFICES ASSUME NEW n \in told, n.kind = "day", n \in told'
               PROVE  /\ Day(n.exp) <= Day(now') + 1
                      /\ key'[n.user].exp >= n.exp
                      /\ \/ Lost'
                         \/ /\ key'[n.user].exp = n.exp =>
                                 \/ key'[n.user].notified
                                 \/ \E s \in daily.sent : s.user = n.user /\ s.exp = n.exp
                            /\ \A s \in daily.left : s.user = n.user => s.exp # n.exp
    BY DEF AnnouncedIsDone
  <2>1. n.user \in Users /\ Day(n.exp) \in Nat
    BY HeldTypes DEF OnceInv
  <2> QED
    BY <1>1, <2>1 DEF OnceInv, AnnouncedIsDone, Lost
<1>4. RemindedOnce'
  BY DEF OnceInv, RemindedOnce
<1> QED
  BY <1>2, <1>3, <1>4 DEF OnceInv

\* A grant moves the expiry past every notice and every list.
LEMMA OnceByGrant ==
  ASSUME OnceInv, TypeInv', NEW u \in Users,
         Purchase(u) \/ ActivateGift(u) \/ Redeem(u) \/ FreeTrial(u)
  PROVE  OnceInv'
<1>1. PICK row \in Rows, kept \in BOOLEAN :
        /\ key' = [key EXCEPT ![u] = row]
        /\ UNCHANGED <<now, jobVars, told, faults>>
        /\ \A e \in Nat : Day(e) <= Day(now) + 1 /\ e <= key[u].exp => row.exp > e
  BY GrantEffect DEF OnceInv
<1>2. key \in [Users -> Rows] /\ UNCHANGED <<daily, now, told, faults>>
  BY <1>1 DEF OnceInv, TypeInv, TypeOK, Rows, jobVars
<1>3. key'[u] = row /\ \A i \in Users \ {u} : key'[i] = key[i]
  BY <1>1, <1>2
<1>4. key[u].exp \in Nat /\ row.exp \in Nat
  BY <1>3, BoundsAssumption, Numbers DEF OnceInv, TypeInv, Rows, Expiries
<1>5. HeldAreKeys'
  <2> SUFFICES ASSUME NEW s \in Held
               PROVE  /\ Day(s.exp) <= Day(now) + 1
                      /\ key'[s.user].exp >= s.exp
                      /\ key'[s.user].exp = s.exp => key'[s.user].pk = s.pk
                      /\ \A t \in Held : t.user = s.user \/ {s, t} \subseteq daily.sent => t = s
    BY <1>2 DEF HeldAreKeys, Held
  <2>1. s.user \in Users /\ s.exp \in Nat /\ Day(s.exp) <= Day(now) + 1
        /\ key[s.user].exp >= s.exp
        /\ (key[s.user].exp = s.exp => key[s.user].pk = s.pk)
        /\ \A t \in Held : t.user = s.user \/ {s, t} \subseteq daily.sent => t = s
    BY HeldTypes DEF OnceInv, HeldAreKeys
  <2>2. CASE s.user = u
    <3>1. row.exp > s.exp
      BY <1>1, <1>4, <2>1, <2>2
    <3> QED
      BY <1>3, <1>4, <2>1, <2>2, <3>1
  <2>3. CASE s.user # u
    BY <1>3, <2>1, <2>3
  <2> QED
    BY <2>2, <2>3
<1>6. AnnouncedIsDone'
  <2> SUFFICES ASSUME NEW n \in told, n.kind = "day"
               PROVE  /\ Day(n.exp) <= Day(now) + 1
                      /\ key'[n.user].exp >= n.exp
                      /\ \/ Lost
                         \/ /\ key'[n.user].exp = n.exp =>
                                 \/ key'[n.user].notified
                                 \/ \E s \in daily.sent : s.user = n.user /\ s.exp = n.exp
                            /\ \A s \in daily.left : s.user = n.user => s.exp # n.exp
    BY <1>2 DEF AnnouncedIsDone, Lost
  <2>1. n.user \in Users /\ n.exp \in Nat /\ Day(n.exp) <= Day(now) + 1
        /\ key[n.user].exp >= n.exp
        /\ (Lost \/ \A s \in daily.left : s.user = n.user => s.exp # n.exp)
    BY HeldTypes DEF OnceInv, AnnouncedIsDone
  <2>2. CASE n.user = u
    <3>1. row.exp > n.exp
      BY <1>1, <1>4, <2>1, <2>2
    <3> QED
      BY <1>3, <1>4, <2>1, <2>2, <3>1
  <2>3. CASE n.user # u
    BY <1>3, <2>1, <2>3 DEF OnceInv, AnnouncedIsDone
  <2> QED
    BY <2>2, <2>3
<1>7. RemindedOnce'
  BY <1>2 DEF OnceInv, RemindedOnce
<1> QED
  BY <1>5, <1>6, <1>7 DEF OnceInv

\* The job starts with the keys that were not announced, if none was lost.
LEMMA OnceByStart ==
  ASSUME OnceInv, TypeInv', StartDaily
  PROVE  OnceInv'
<1> DEFINE users == get_unnotified_keys_expiring_on_date(Day(now) + 1)
<1>1. /\ UNCHANGED <<now, key, told, faults>> /\ daily.sent = {} /\ daily.left = {}
      /\ daily' = IF users = {} THEN Idle
                  ELSE [on |-> TRUE, date |-> Day(now) + 1, left |-> Select(users), sent |-> {}]
  BY DEF StartDaily, Take, Running, OnceInv, TypeInv, OneAtATime
<1>2. /\ users \subseteq Users
      /\ \A u \in users : /\ key[u].live /\ ~key[u].notified
                          /\ Day(key[u].exp) = Day(now) + 1
  BY Selections DEF get_unnotified_keys_expiring_on_date, get_keys_expiring_on_date
<1> HIDE DEF users
<1>3. TypeInv /\ Day(now) \in Nat /\ Day(now) + 1 \in Nat
  BY Numbers DEF OnceInv, TypeInv
<1>4. daily'.sent = {} /\ daily'.left = Select(users)
  BY <1>1, <1>2, <1>3, RunningTypes
<1>5. /\ \A s \in Select(users) : /\ s.user \in users
                                  /\ s.pk = key[s.user].pk /\ s.exp = key[s.user].exp
      /\ \A s, t \in Select(users) : s.user = t.user => s = t
  BY <1>2, <1>3, SelectedAreRows
<1>6. HeldAreKeys'
  <2>1. Held' = Select(users)
    BY <1>4 DEF Held
  <2>2. \A s \in Select(users) : key[s.user].exp \in Nat
    BY <1>2, <1>3, <1>5, Numbers DEF TypeInv
  <2>3. \A s \in Select(users) : key[s.user].exp >= s.exp /\ Day(s.exp) <= Day(now) + 1
    BY <1>2, <1>3, <1>5, <2>2
  <2> QED
    BY <1>1, <1>5, <2>1, <2>3 DEF HeldAreKeys
<1>7. AnnouncedIsDone'
  BY <1>1, <1>2, <1>4, <1>5 DEF OnceInv, AnnouncedIsDone, Lost
<1>8. RemindedOnce'
  BY <1>1 DEF OnceInv, RemindedOnce
<1> QED
  BY <1>6, <1>7, <1>8 DEF OnceInv

\* A notice repeats an older one only if a killed job gave that.
LEMMA OnceBySending ==
  ASSUME OnceInv, TypeInv', NEW s \in Selected, SendDaily(s)
  PROVE  OnceInv'
<1>1. /\ UNCHANGED <<now, key>> /\ s \in daily.left /\ daily.sent = {} /\ s \in Held
      /\ faults.kinds \subseteq faults'.kinds
  BY FaultsGrow DEF SendDaily, Held, OnceInv, TypeInv, Next
<1>2. daily \in JobState
  BY DEF OnceInv, TypeInv, TypeOK
<1>3. Held' \subseteq Held /\ daily'.sent \subseteq {s}
  <2>1. CASE daily' = [daily EXCEPT !.left = @ \ {s}, !.sent = {s}]
    BY <1>1, <1>2, <2>1 DEF Held, JobState
  <2>2. CASE daily' = Rest(daily, s)
    BY <1>1, <1>2, <2>2, RestTypes DEF Held
  <2> QED
    BY <2>1, <2>2 DEF SendDaily
<1>4. HeldAreKeys'
  BY <1>1, <1>3 DEF OnceInv, HeldAreKeys
<1>5. CASE /\ daily' = [daily EXCEPT !.left = @ \ {s}, !.sent = {s}]
           /\ told' = told \union {Notice(IF Notice("day", s) \in told THEN "again" ELSE "day", s)}
           /\ UNCHANGED faults
  <2>1. daily'.sent = {s} /\ daily'.left = daily.left \ {s}
    BY <1>2, <1>5 DEF JobState
  <2>2. \A kind : /\ Notice(kind, s).kind = kind /\ Notice(kind, s).user = s.user
                  /\ Notice(kind, s).exp = s.exp
    BY DEF Notice
  <2>3. Notice("day", s) \in told => Lost
    BY <1>1, <2>2 DEF OnceInv, AnnouncedIsDone
  <2>4. RemindedOnce'
    <3>1. \A n \in told' : n.kind = "again" => n \in told \/ Notice("day", s) \in told
      BY <1>5, <2>2
    <3> QED
      BY <1>5, <2>3, <3>1 DEF OnceInv, RemindedOnce, Lost
  <2>5. AnnouncedIsDone'
    <3> SUFFICES ASSUME NEW n \in told', n.kind = "day"
                 PROVE  /\ Day(n.exp) <= Day(now) + 1
                        /\ key[n.user].exp >= n.exp
                        /\ \/ Lost
                           \/ /\ key[n.user].exp = n.exp =>
                                   \/ key[n.user].notified
                                   \/ \E t \in daily'.sent : t.user = n.user /\ t.exp = n.exp
                              /\ \A t \in daily'.left : t.user = n.user => t.exp # n.exp
      BY <1>1, <1>5 DEF AnnouncedIsDone, Lost
    <3>1. CASE n \in told
      BY <1>1, <2>1, <3>1 DEF OnceInv, AnnouncedIsDone
    <3>2. CASE n = Notice("day", s)
      <4>1. n.user = s.user /\ n.exp = s.exp
        BY <2>2, <3>2
      <4>2. \A t \in daily'.left : t.user # s.user
        BY <1>1, <2>1 DEF OnceInv, HeldAreKeys, Held
      <4> QED
        BY <1>1, <2>1, <4>1, <4>2 DEF OnceInv, HeldAreKeys
    <3>3. n \in told \/ n = Notice("day", s)
      BY <1>5, <2>2
    <3> QED
      BY <3>1, <3>2, <3>3
  <2> QED
    BY <1>4, <2>4, <2>5 DEF OnceInv
<1>6. CASE daily' = Rest(daily, s) /\ told' = told
  <2>1. daily'.sent = {} /\ daily'.left \subseteq daily.left
    BY <1>1, <1>2, <1>6, RestTypes
  <2>2. AnnouncedIsDone'
    BY <1>1, <1>6, <2>1 DEF OnceInv, AnnouncedIsDone, Lost
  <2>3. RemindedOnce'
    BY <1>1, <1>6 DEF OnceInv, RemindedOnce
  <2> QED
    BY <1>4, <2>2, <2>3 DEF OnceInv
<1> QED
  BY <1>5, <1>6 DEF SendDaily

\* The mark: if the expiry is still the announced one, the row is too.
LEMMA OnceByMarking ==
  ASSUME OnceInv, TypeInv', NEW s \in Selected, MarkDaily(s)
  PROVE  OnceInv'
<1>1. /\ UNCHANGED <<now, told, faults>> /\ s \in daily.sent
      /\ daily'.sent = {} /\ daily'.left = daily.left
      /\ \A u \in Users : /\ key'[u].pk = key[u].pk /\ key'[u].exp = key[u].exp
                          /\ key[u].notified => key'[u].notified
      /\ key[s.user].pk = s.pk /\ key[s.user].exp = s.exp => key'[s.user].notified
  BY MarkEffect DEF OnceInv
<1>2. Held' \subseteq Held /\ s \in Held
  BY <1>1 DEF Held
<1>3. HeldAreKeys'
  BY <1>1, <1>2, HeldTypes DEF OnceInv, HeldAreKeys
<1>4. \A t \in daily.sent : t = s
  BY <1>1 DEF OnceInv, HeldAreKeys, Held
<1>5. AnnouncedIsDone'
  <2> SUFFICES ASSUME NEW n \in told, n.kind = "day"
               PROVE  /\ Day(n.exp) <= Day(now) + 1
                      /\ key'[n.user].exp >= n.exp
                      /\ \/ Lost
                         \/ /\ key'[n.user].exp = n.exp => key'[n.user].notified
                            /\ \A t \in daily.left : t.user = n.user => t.exp # n.exp
    BY <1>1 DEF AnnouncedIsDone, Lost
  <2>1. n.user \in Users /\ s.user \in Users
    BY <1>2, HeldTypes DEF OnceInv
  <2>2. s.user = n.user /\ s.exp = n.exp /\ key[n.user].exp = n.exp => key'[n.user].notified
    BY <1>1, <1>2 DEF OnceInv, HeldAreKeys
  <2> QED
    BY <1>1, <1>4, <2>1, <2>2 DEF OnceInv, AnnouncedIsDone
<1>6. RemindedOnce'
  BY <1>1 DEF OnceInv, RemindedOnce
<1> QED
  BY <1>3, <1>5, <1>6 DEF OnceInv

LEMMA OnceByLoss ==
  ASSUME OnceInv, TypeInv', Lose
  PROVE  OnceInv'
<1>1. UNCHANGED <<now, key, told>> /\ daily' \in {daily, Idle} /\ Lost'
  BY FaultTypes DEF Lose, OnceInv, TypeInv, Lost
<1>2. Held' \subseteq Held /\ daily'.sent \subseteq daily.sent
  BY <1>1 DEF Held, Idle
<1>3. HeldAreKeys'
  BY <1>1, <1>2 DEF OnceInv, HeldAreKeys
<1>4. AnnouncedIsDone'
  BY <1>1 DEF OnceInv, AnnouncedIsDone
<1>5. RemindedOnce'
  BY <1>1 DEF RemindedOnce, Lost
<1> QED
  BY <1>3, <1>4, <1>5 DEF OnceInv

LEMMA OnceStep == OnceInv /\ [Next]_vars => OnceInv'
<1> SUFFICES ASSUME OnceInv, [Next]_vars
             PROVE  OnceInv'
  OBVIOUS
<1>1. TypeInv /\ TypeInv' /\ now \in Nat /\ Day(now) \in Nat
  BY TypeStep, Numbers DEF OnceInv, TypeInv
<1>2. faults.kinds \subseteq faults'.kinds
  BY <1>1, FaultsGrow DEF TypeInv
<1>3. CASE Tick
  <2>1. now' = now + 1 /\ UNCHANGED <<key, daily, told>>
    BY <1>3 DEF Tick
  <2>2. now' \in Nat /\ Day(now') >= Day(now)
    BY <1>1, <2>1, DaysPass
  <2> QED
    BY <1>1, <1>2, <2>1, <2>2, OnceKept
<1>4. CASE Lose
  BY <1>1, <1>4, OnceByLoss
<1>5. CASE StartDaily
  BY <1>1, <1>5, OnceByStart
<1>6. CASE StartHourly \/ StartRemoval
  BY <1>1, <1>2, <1>6, OnceKept DEF StartHourly, StartRemoval
<1>7. CASE Deactivate
  BY <1>1, <1>2, <1>7, OnceKept, DeactivationEffect
<1>8. CASE \E s \in Selected : SendDaily(s) \/ MarkDaily(s)
  BY <1>1, <1>8, OnceBySending, OnceByMarking
<1>9. ASSUME NEW s \in Selected, SendHourly(s) \/ SendDeactivated(s)
      PROVE  OnceInv'
  <2>1. UNCHANGED <<now, key, daily>>
    BY <1>9 DEF SendHourly, SendDeactivated
  <2>2. \A n \in told' : n.kind \in {"day", "again"} => n \in told
    BY <1>9 DEF SendHourly, SendDeactivated, Notice
  <2> QED
    BY <1>1, <1>2, <2>1, <2>2, OnceKept
<1>10. CASE \E u \in Users : Purchase(u) \/ ActivateGift(u) \/ Redeem(u) \/ FreeTrial(u)
  BY <1>1, <1>10, OnceByGrant
<1>11. CASE UNCHANGED vars
  BY <1>1, <1>2, <1>11, OnceKept DEF vars, jobVars
<1> QED
  BY <1>3, <1>4, <1>5, <1>6, <1>7, <1>8, <1>9, <1>10, <1>11 DEF Next

\* The day before is announced once per expiry, however late a job runs and
\* whatever moves the key, unless a job was killed between the notice and the mark.
THEOREM RemindedOnlyOnce == Spec => []RemindedOnce
<1>1. Init => OnceInv
  <2> SUFFICES ASSUME Init
               PROVE  OnceInv
    OBVIOUS
  <2>1. Held = {} /\ told = {}
    BY DEF Init, Held, Idle
  <2> QED
    BY <2>1, TypeInit DEF OnceInv, HeldAreKeys, AnnouncedIsDone, RemindedOnce
<1>2. OnceInv => RemindedOnce
  BY DEF OnceInv
<1> QED
  BY <1>1, <1>2, OnceStep, PTL DEF Spec

-------------------------------------------------------------------------------
(* Warned before the removal.                                               *)

LastDay(u) == Day(key[u].exp)
OnList(job, u) == \E s \in job.left : s.user = u /\ s.exp = key[u].exp

\* An expiry is set before its day; a removal that starts on a later day than its
\* own, or before nine, cost two late quarters.
SettledBefore == \A u \in Users : /\ settled[u].at <= now
                                  /\ key[u].live => settled[u].at < 4 * LastDay(u)
LateIsFault ==
  "removal" \in queued => /\ now % 4 # 2 => faults.n >= 1
                          /\ now % 4 \in {0, 1} => faults.n >= 2

\* The job that is to remind is published or has the key on its list.
DayPending(u) == now + 1 = 4 * LastDay(u) /\ ("daily" \in queued \/ OnList(daily, u))
HourPending(u) == now = 4 * LastDay(u) + 1 /\ ("hourly" \in queued \/ OnList(hourly, u))

\* Once the hour of a reminder has come, it was given, its job is at it, or it met
\* with a fault; the removal only takes keys of which this is settled.
DayBefore(u) == RemindersDue(u) = 2 /\ now + 1 >= 4 * LastDay(u) =>
                  Reminded(u) \/ faults.n >= 1 \/ DayPending(u)
LastMorning(u) == now >= 4 * LastDay(u) + 1 =>
                    \/ Reminded(u)
                    \/ faults.n >= RemindersDue(u)
                    \/ faults.n + 1 >= RemindersDue(u) /\ HourPending(u)
BeforeRemoval(u) == removal.on /\ LastDay(u) <= removal.date =>
                      Reminded(u) \/ faults.n >= RemindersDue(u)
WarnedOf(u) == key[u].live => DayBefore(u) /\ LastMorning(u) /\ BeforeRemoval(u)

WarnInv == /\ TypeInv /\ ToldInv /\ SettledBefore /\ LateIsFault
           /\ \A u \in Users : WarnedOf(u)

LEMMA DueOnceOrTwice ==
  ASSUME TypeOK, NEW u \in Users
  PROVE  /\ RemindersDue(u) \in {1, 2}
         /\ RemindersDue(u) = 2 => ~settled[u].kept /\ SettledInTime(u)
         /\ LastDay(u) \in Nat
         /\ SettledInTime(u) => settled[u].at + 1 < 4 * LastDay(u)
<1>1. settled[u].at \in Nat /\ key[u].exp \in Nat
  BY Numbers
<1>2. LastDay(u) \in Nat
  BY <1>1, Quarters DEF LastDay
<1>3. SettledInTime(u) => settled[u].at + 1 < 4 * LastDay(u)
  <2>1. SettledInTime(u) <=> settled[u].at < 4 * (LastDay(u) - 1) + 3
    BY DEF SettledInTime, LastDay
  <2> QED
    BY ONLY <1>1, <1>2, <2>1
<1> QED
  BY <1>2, <1>3 DEF RemindersDue

\* A step within a quarter keeps the argument, if for every key on a list, about
\* to be on one, or about to be removed it says what became of the reminder.
LEMMA WarnKept ==
  ASSUME WarnInv, TypeInv', ToldInv', now' = now, queued' \subseteq queued,
         faults'.n >= faults.n, told \subseteq told',
         \A u \in Users : /\ key'[u].exp = key[u].exp /\ settled'[u] = settled[u]
                          /\ key'[u].live => key[u].live,
         \A u \in Users : key[u].live =>
           /\ RemindersDue(u) = 2 /\ DayPending(u) =>
                Reminded(u)' \/ faults'.n > faults.n \/ "daily" \in queued' \/ OnList(daily, u)'
           /\ HourPending(u) =>
                Reminded(u)' \/ faults'.n > faults.n \/ "hourly" \in queued' \/ OnList(hourly, u)'
           /\ removal'.on /\ LastDay(u) <= removal'.date =>
                \/ removal.on /\ removal'.date = removal.date
                \/ Reminded(u) \/ faults.n >= RemindersDue(u)
  PROVE  WarnInv'
<1>1. TypeOK /\ TypeOK' /\ faults.n \in Nat /\ faults'.n \in Nat /\ now \in Nat
  <2>1. TypeOK /\ TypeOK' /\ faults.n \in Nat /\ now \in Nat
    BY Numbers DEF WarnInv, TypeInv
  <2>2. faults'.n \in Nat
    BY <2>1, BoundsAssumption DEF TypeOK
  <2> QED
    BY <2>1, <2>2
<1>2. SettledBefore'
  BY DEF WarnInv, SettledBefore, LastDay
<1>3. LateIsFault'
  BY <1>1 DEF WarnInv, LateIsFault
<1>4. ASSUME NEW u \in Users, key'[u].live
      PROVE  DayBefore(u)' /\ LastMorning(u)' /\ BeforeRemoval(u)'
  <2>1. key[u].live /\ DayBefore(u) /\ LastMorning(u) /\ BeforeRemoval(u)
    BY <1>4 DEF WarnInv, WarnedOf
  <2>2. LastDay(u)' = LastDay(u) /\ RemindersDue(u)' = RemindersDue(u)
    BY DEF LastDay, RemindersDue, SettledInTime
  <2>3. Reminded(u) => Reminded(u)'
    BY DEF Reminded
  <2>4. RemindersDue(u) \in {1, 2} /\ LastDay(u) \in Nat
    BY <1>1, DueOnceOrTwice
  <2>5. DayBefore(u)'
    <3> SUFFICES ASSUME RemindersDue(u) = 2, now + 1 >= 4 * LastDay(u)
                 PROVE  Reminded(u)' \/ faults'.n >= 1 \/ DayPending(u)'
      BY <2>2 DEF DayBefore
    <3>1. CASE Reminded(u) \/ faults.n >= 1
      BY <1>1, <2>3, <3>1
    <3>2. CASE DayPending(u)
      <4>1. Reminded(u)' \/ faults'.n > faults.n \/ "daily" \in queued' \/ OnList(daily, u)'
        BY <2>1, <3>2
      <4> QED
        BY <1>1, <2>2, <3>2, <4>1 DEF DayPending
    <3> QED
      BY <2>1, <3>1, <3>2 DEF DayBefore
  <2>6. LastMorning(u)'
    BY <1>1, <2>1, <2>2, <2>3, <2>4 DEF LastMorning, HourPending
  <2>7. BeforeRemoval(u)'
    BY <1>1, <2>1, <2>2, <2>3, <2>4 DEF BeforeRemoval
  <2> QED
    BY <2>5, <2>6, <2>7
<1> QED
  BY <1>2, <1>3, <1>4 DEF WarnInv, WarnedOf

\* A grant sets an expiry none of whose reminders has come.
LEMMA WarnByGrant ==
  ASSUME WarnInv, TypeInv', ToldInv', NEW u \in Users,
         Purchase(u) \/ ActivateGift(u) \/ Redeem(u) \/ FreeTrial(u)
  PROVE  WarnInv'
<1>1. PICK row \in Rows, kept \in BOOLEAN :
        /\ key' = [key EXCEPT ![u] = row]
        /\ settled' = [settled EXCEPT ![u] = [at |-> now, kept |-> kept]]
        /\ UNCHANGED <<now, jobVars, told, faults>>
        /\ Day(row.exp) > Day(now)
  BY GrantEffect DEF WarnInv
<1>2. UNCHANGED <<now, queued, daily, hourly, removal, told, faults>>
  BY <1>1 DEF jobVars
<1>3. TypeOK /\ TypeOK' /\ key \in [Users -> Rows] /\ now \in Nat /\ Day(now) \in Nat
      /\ settled \in [Users -> [at : 0..LastQuarter, kept : BOOLEAN]]
  BY Numbers DEF WarnInv, TypeInv, TypeOK, Rows
<1>4. key'[u].exp = row.exp /\ settled'[u].at = now
      /\ \A i \in Users \ {u} : key'[i] = key[i] /\ settled'[i] = settled[i]
  BY <1>1, <1>3
<1>5. LastDay(u)' \in Nat /\ LastDay(u)' > Day(now) /\ now + 1 <= 4 * LastDay(u)'
  <2>1. LastDay(u)' \in Nat /\ LastDay(u)' = Day(row.exp)
    <3>1. row.exp \in Nat
      BY BoundsAssumption DEF Rows, Expiries
    <3> QED
      BY <1>4, <3>1, Quarters DEF LastDay
  <2>2. now <= 4 * Day(now) + 3
    BY <1>3, Quarters
  <2> QED
    BY <1>1, <1>3, <2>1, <2>2
<1>6. SettledBefore'
  BY <1>2, <1>3, <1>4, <1>5 DEF WarnInv, SettledBefore, LastDay
<1>7. LateIsFault'
  BY <1>2 DEF WarnInv, LateIsFault
<1>8. WarnedOf(u)'
  <2>1. DayBefore(u)'
    <3>1. (RemindersDue(u) = 2)' => settled'[u].at < 4 * (LastDay(u)' - 1) + 3
      BY DEF RemindersDue, SettledInTime, LastDay
    <3> QED
      BY <1>2, <1>3, <1>4, <1>5, <3>1 DEF DayBefore
  <2>2. LastMorning(u)'
    BY <1>2, <1>3, <1>5 DEF LastMorning
  <2>3. BeforeRemoval(u)'
    <3>1. removal'.on => removal'.date <= Day(now) /\ removal'.date \in Nat
      BY <1>2 DEF WarnInv, TypeInv, TypeOK, JobState, OneAtATime
    <3> QED
      BY <1>3, <1>5, <3>1 DEF BeforeRemoval
  <2> QED
    BY <2>1, <2>2, <2>3 DEF WarnedOf
<1>9. ASSUME NEW i \in Users \ {u}
      PROVE  WarnedOf(i)'
  BY <1>2, <1>4 DEF WarnInv, WarnedOf, DayBefore, LastMorning, BeforeRemoval, DayPending,
     HourPending, OnList, LastDay, RemindersDue, SettledInTime, Reminded
<1> QED
  BY <1>6, <1>7, <1>8, <1>9 DEF WarnInv

\* The hour of a reminder publishes its job; the next one finds it done, or late.
LEMMA WarnByTick ==
  ASSUME WarnInv, TypeInv', ToldInv', Tick
  PROVE  WarnInv'
<1>1. /\ now' = now + 1 /\ UNCHANGED <<key, daily, hourly, removal, told, settled>>
      /\ queued' = queued \union Scheduled(now + 1)
      /\ Unfinished => faults'.n = faults.n + 1
      /\ faults'.n >= faults.n
  BY FaultTypes, FaultsGrow DEF Tick, WarnInv, TypeInv, Next
<1>2. TypeOK /\ now \in Nat /\ Day(now) \in Nat /\ faults.n \in Nat /\ faults'.n \in Nat
  <2>1. TypeOK /\ now \in Nat /\ Day(now) \in Nat /\ faults.n \in Nat
    BY Numbers DEF WarnInv, TypeInv
  <2>2. faults'.n \in Nat
    BY BoundsAssumption DEF TypeInv, TypeOK
  <2> QED
    BY <2>1, <2>2
<1>3. now % 4 \in 0..3 /\ (now + 1) % 4 = (IF now % 4 = 3 THEN 0 ELSE (now % 4) + 1)
  BY <1>2
<1>4. LateIsFault'
  <2> SUFFICES ASSUME "removal" \in queued'
               PROVE  /\ (now + 1) % 4 # 2 => faults'.n >= 1
                      /\ (now + 1) % 4 \in {0, 1} => faults'.n >= 2
    BY <1>1 DEF LateIsFault
  <2>1. CASE "removal" \in queued
    <3>1. faults'.n = faults.n + 1
      BY <1>1, <2>1 DEF Unfinished
    <3>2. /\ now % 4 # 2 => faults.n >= 1
          /\ now % 4 \in {0, 1} => faults.n >= 2
      BY <2>1 DEF WarnInv, LateIsFault
    <3> QED
      BY ONLY <1>2, <1>3, <3>1, <3>2
  <2>2. CASE "removal" \in Scheduled(now + 1)
    BY <2>2 DEF Scheduled
  <2> QED
    BY <1>1, <2>1, <2>2
<1>5. SettledBefore'
  <2>1. \A u \in Users : settled[u].at \in Nat
    BY <1>2, Numbers
  <2> QED
    BY <1>1, <1>2, <2>1 DEF WarnInv, SettledBefore, LastDay
<1>6. ASSUME NEW u \in Users, key[u].live
      PROVE  DayBefore(u)' /\ LastMorning(u)' /\ BeforeRemoval(u)'
  <2>1. DayBefore(u) /\ LastMorning(u) /\ BeforeRemoval(u)
    BY <1>6 DEF WarnInv, WarnedOf
  <2>2. LastDay(u)' = LastDay(u) /\ RemindersDue(u)' = RemindersDue(u)
        /\ Reminded(u)' = Reminded(u)
    BY <1>1 DEF LastDay, RemindersDue, SettledInTime, Reminded
  <2>3. RemindersDue(u) \in {1, 2} /\ LastDay(u) \in Nat
    BY <1>2, DueOnceOrTwice
  <2>4. DayPending(u) \/ HourPending(u) => Unfinished
    BY DEF WarnInv, TypeInv, OneAtATime, DayPending, HourPending, OnList, Unfinished
  <2>5. DayBefore(u)'
    <3>1. CASE now + 1 >= 4 * LastDay(u)
      BY <1>1, <1>2, <2>1, <2>2, <2>3, <2>4, <3>1 DEF DayBefore
    <3>2. CASE now + 2 = 4 * LastDay(u)
      <4>1. (now + 1) % 4 = 3
        BY <1>2, <2>3, <3>2
      <4>2. "daily" \in queued'
        BY <1>1, <4>1 DEF Scheduled
      <4> QED
        BY <1>1, <1>2, <2>2, <2>3, <3>2, <4>2 DEF DayBefore, DayPending
    <3>3. CASE now + 2 < 4 * LastDay(u)
      BY <1>1, <1>2, <2>2, <2>3, <3>3 DEF DayBefore
    <3> QED
      BY <1>2, <2>3, <3>1, <3>2, <3>3
  <2>6. LastMorning(u)'
    <3>1. CASE now >= 4 * LastDay(u) + 1
      BY <1>1, <1>2, <2>1, <2>2, <2>3, <2>4, <3>1 DEF LastMorning
    <3>2. CASE now = 4 * LastDay(u)
      <4>1. (now + 1) % 4 = 1
        BY <1>2, <2>3, <3>2
      <4>2. "hourly" \in queued'
        BY <1>1, <4>1 DEF Scheduled
      <4>3. Reminded(u) \/ faults.n + 1 >= RemindersDue(u)
        BY <1>2, <2>1, <2>3, <3>2 DEF DayBefore, DayPending
      <4> QED
        BY <1>1, <1>2, <2>2, <2>3, <3>2, <4>2, <4>3 DEF LastMorning, HourPending
    <3>3. CASE now < 4 * LastDay(u)
      BY <1>1, <1>2, <2>2, <2>3, <3>3 DEF LastMorning
    <3> QED
      BY <1>2, <2>3, <3>1, <3>2, <3>3
  <2>7. BeforeRemoval(u)'
    BY <1>1, <1>2, <2>1, <2>2, <2>3 DEF BeforeRemoval
  <2> QED
    BY <2>5, <2>6, <2>7
<1> QED
  BY <1>1, <1>4, <1>5, <1>6 DEF WarnInv, WarnedOf

\* A selected key is on the list; one already marked was announced or carries an
\* older mark.
LEMMA WarnByStart ==
  ASSUME WarnInv, TypeInv', ToldInv', StartDaily \/ StartHourly \/ StartRemoval
  PROVE  WarnInv'
<1>1. /\ UNCHANGED <<now, key, told, settled, faults>> /\ queued' \subseteq queued
      /\ TypeInv /\ faults.n \in Nat /\ now \in Nat /\ Day(now) \in Nat
  BY Numbers DEF StartDaily, StartHourly, StartRemoval, Take, WarnInv, TypeInv
<1>2. \A u \in Users : RemindersDue(u) \in {1, 2} /\ LastDay(u) \in Nat
                       /\ (RemindersDue(u) = 2 => ~settled[u].kept)
  BY <1>1, DueOnceOrTwice DEF TypeInv
<1>3. 4 * Day(now) <= now /\ now <= 4 * Day(now) + 3 /\ now % 4 = now - 4 * Day(now)
  BY <1>1, Quarters
<1>4. CASE StartDaily
  <2> DEFINE users == get_unnotified_keys_expiring_on_date(Day(now) + 1)
  <2>1. /\ UNCHANGED <<hourly, removal>> /\ queued' = queued \ {"daily"}
        /\ daily' = IF users = {} THEN Idle
                    ELSE [on |-> TRUE, date |-> Day(now) + 1, left |-> Select(users), sent |-> {}]
    BY <1>4 DEF StartDaily, Take, Running
  <2>2. users \subseteq Users /\ \A u \in users : key[u].live
    BY Selections
  <2>3. \A u \in Users : key[u].live /\ LastDay(u) = Day(now) + 1 => u \in users \/ key[u].notified
    BY DEF get_unnotified_keys_expiring_on_date, get_keys_expiring_on_date, LastDay
  <2> HIDE DEF users
  <2>4. daily'.left = Select(users)
    BY <1>1, <2>1, <2>2, RunningTypes
  <2>5. \A u \in users : \E s \in Select(users) : s.user = u /\ s.exp = key[u].exp
    BY <1>1, <2>2, SelectedAreRows
  <2>6. ASSUME NEW u \in Users, key[u].live, RemindersDue(u) = 2, DayPending(u)
        PROVE  Reminded(u)' \/ OnList(daily, u)'
    <3>1. LastDay(u) = Day(now) + 1
      BY <1>1, <1>2, <1>3, <2>6 DEF DayPending
    <3>2. CASE u \in users
      BY <1>1, <2>4, <2>5, <3>2 DEF OnList
    <3>3. CASE key[u].notified
      BY <1>1, <1>2, <2>6, <3>3 DEF WarnInv, ToldInv, MarkIsEarned, Reminded
    <3> QED
      BY <2>3, <2>6, <3>1, <3>2, <3>3
  <2>7. ASSUME NEW u \in Users, HourPending(u)
        PROVE  "hourly" \in queued' \/ OnList(hourly, u)'
    BY <1>1, <2>1, <2>7 DEF HourPending, OnList
  <2>8. /\ \A u \in Users : key[u].live /\ RemindersDue(u) = 2 /\ DayPending(u) =>
                             Reminded(u)' \/ OnList(daily, u)'
        /\ \A u \in Users : HourPending(u) => "hourly" \in queued' \/ OnList(hourly, u)'
    BY <2>6, <2>7
  <2>9. \A u \in Users : key[u].live =>
           /\ RemindersDue(u) = 2 /\ DayPending(u) =>
                Reminded(u)' \/ faults'.n > faults.n \/ "daily" \in queued' \/ OnList(daily, u)'
           /\ HourPending(u) =>
                Reminded(u)' \/ faults'.n > faults.n \/ "hourly" \in queued' \/ OnList(hourly, u)'
           /\ removal'.on /\ LastDay(u) <= removal'.date =>
                \/ removal.on /\ removal'.date = removal.date
                \/ Reminded(u) \/ faults.n >= RemindersDue(u)
    BY <2>1, <2>8
  <2> QED
    BY <1>1, <2>9, WarnKept
<1>5. CASE StartHourly
  <2> DEFINE users == get_keys_expiring_on_date(Day(now))
  <2>1. /\ UNCHANGED <<daily, removal>> /\ queued' = queued \ {"hourly"}
        /\ hourly' = IF users = {} THEN Idle
                     ELSE [on |-> TRUE, date |-> Day(now), left |-> Select(users), sent |-> {}]
    BY <1>5 DEF StartHourly, Take, Running
  <2>2. users \subseteq Users /\ \A u \in users : key[u].live
    BY Selections
  <2>3. \A u \in Users : key[u].live /\ LastDay(u) = Day(now) => u \in users
    BY DEF get_keys_expiring_on_date, LastDay
  <2> HIDE DEF users
  <2>4. hourly'.left = Select(users)
    BY <1>1, <2>1, <2>2, RunningTypes
  <2>5. \A u \in users : \E s \in Select(users) : s.user = u /\ s.exp = key[u].exp
    BY <1>1, <2>2, SelectedAreRows
  <2>6. ASSUME NEW u \in Users, key[u].live, HourPending(u)
        PROVE  OnList(hourly, u)'
    <3>1. LastDay(u) = Day(now)
      BY <1>1, <1>2, <1>3, <2>6 DEF HourPending
    <3> QED
      BY <1>1, <2>3, <2>4, <2>5, <2>6, <3>1 DEF OnList
  <2>7. ASSUME NEW u \in Users, DayPending(u)
        PROVE  "daily" \in queued' \/ OnList(daily, u)'
    BY <1>1, <2>1, <2>7 DEF DayPending, OnList
  <2>8. /\ \A u \in Users : key[u].live /\ HourPending(u) => OnList(hourly, u)'
        /\ \A u \in Users : DayPending(u) => "daily" \in queued' \/ OnList(daily, u)'
    BY <2>6, <2>7
  <2>9. \A u \in Users : key[u].live =>
           /\ RemindersDue(u) = 2 /\ DayPending(u) =>
                Reminded(u)' \/ faults'.n > faults.n \/ "daily" \in queued' \/ OnList(daily, u)'
           /\ HourPending(u) =>
                Reminded(u)' \/ faults'.n > faults.n \/ "hourly" \in queued' \/ OnList(hourly, u)'
           /\ removal'.on /\ LastDay(u) <= removal'.date =>
                \/ removal.on /\ removal'.date = removal.date
                \/ Reminded(u) \/ faults.n >= RemindersDue(u)
    BY <2>1, <2>8
  <2> QED
    BY <1>1, <2>9, WarnKept
<1>6. CASE StartRemoval
  <2> DEFINE users == get_keys_expired_up_to_date(Day(now))
  <2>1. /\ UNCHANGED <<daily, hourly>> /\ queued' = queued \ {"removal"} /\ "removal" \in queued
        /\ removal' = IF users = {} THEN Idle
                      ELSE [on |-> TRUE, date |-> Day(now), left |-> Select(users), sent |-> {}]
    BY <1>6 DEF StartRemoval, Take, Running
  <2>2. users \subseteq Users /\ \A u \in users : key[u].live
    BY Selections
  <2> HIDE DEF users
  <2>3. removal'.on => removal'.date = Day(now)
    BY <1>1, <2>1, <2>2, RunningTypes
  <2>4. ASSUME NEW u \in Users, key[u].live, LastDay(u) <= Day(now)
        PROVE  Reminded(u) \/ faults.n >= RemindersDue(u)
    <3>1. CASE now >= 4 * LastDay(u) + 2
      BY <1>1, <1>2, <2>4, <3>1 DEF WarnInv, WarnedOf, LastMorning, HourPending
    <3>2. CASE now < 4 * LastDay(u) + 2
      <4>1. now % 4 \in {0, 1}
        BY <1>1, <1>2, <1>3, <2>4, <3>2
      <4>2. faults.n >= 2
        BY <2>1, <4>1 DEF WarnInv, LateIsFault
      <4> QED
        BY <1>1, <1>2, <4>2
    <3> QED
      BY <1>1, <1>2, <3>1, <3>2
  <2>5. \A u \in Users : /\ DayPending(u) => "daily" \in queued' \/ OnList(daily, u)'
                         /\ HourPending(u) => "hourly" \in queued' \/ OnList(hourly, u)'
    BY <1>1, <2>1 DEF DayPending, HourPending, OnList
  <2> QED
    BY <1>1, <2>1, <2>3, <2>4, <2>5, WarnKept
<1> QED
  BY <1>4, <1>5, <1>6

\* A message that is sent reminds; one that is refused is a fault.
LEMMA WarnBySending ==
  ASSUME WarnInv, TypeInv', ToldInv', NEW s \in Selected,
         SendDaily(s) \/ SendHourly(s) \/ SendDeactivated(s)
  PROVE  WarnInv'
<1>1. /\ UNCHANGED <<now, key, queued, settled>> /\ told \subseteq told'
      /\ faults'.n >= faults.n /\ TypeOK /\ faults.n \in Nat
      /\ daily \in JobState /\ hourly \in JobState /\ removal \in JobState
  BY FaultsGrow, Numbers
     DEF SendDaily, SendHourly, SendDeactivated, WarnInv, TypeInv, TypeOK, Next
<1>2. CASE SendDaily(s)
  <2>1. UNCHANGED <<hourly, removal>> /\ s \in daily.left /\ daily'.left = daily.left \ {s}
    <3>1. CASE daily' = [daily EXCEPT !.left = @ \ {s}, !.sent = {s}]
      BY <1>1, <1>2, <3>1 DEF SendDaily, JobState
    <3>2. CASE daily' = Rest(daily, s)
      BY <1>1, <1>2, <3>2, RestTypes DEF SendDaily
    <3> QED
      BY <1>2, <3>1, <3>2 DEF SendDaily
  <2>2. Notice("day", s) \in told' \/ faults'.n > faults.n
    <3>1. CASE told' = told \union {Notice(IF Notice("day", s) \in told THEN "again" ELSE "day", s)}
      BY <3>1
    <3>2. CASE Fault("send")
      BY <1>1, <3>2, FaultTypes
    <3> QED
      BY <1>2, <3>1, <3>2 DEF SendDaily
  <2>3. ASSUME NEW u \in Users, DayPending(u)
        PROVE  Reminded(u)' \/ faults'.n > faults.n \/ "daily" \in queued' \/ OnList(daily, u)'
    <3>1. CASE s.user = u /\ s.exp = key[u].exp
      BY <1>1, <2>2, <3>1 DEF Reminded, Notice
    <3>2. CASE ~(s.user = u /\ s.exp = key[u].exp)
      BY <1>1, <2>1, <2>3, <3>2 DEF DayPending, OnList
    <3> QED
      BY <3>1, <3>2
  <2>4. \A u \in Users : HourPending(u) => "hourly" \in queued' \/ OnList(hourly, u)'
    BY <1>1, <2>1 DEF HourPending, OnList
  <2> QED
    BY <1>1, <2>1, <2>3, <2>4, WarnKept
<1>3. CASE SendHourly(s)
  <2>1. UNCHANGED <<daily, removal>> /\ s \in hourly.left /\ hourly'.left = hourly.left \ {s}
    BY <1>1, <1>3, RestTypes DEF SendHourly
  <2>2. Notice("hour", s) \in told' \/ faults'.n > faults.n
    BY <1>1, <1>3, FaultTypes DEF SendHourly
  <2>3. ASSUME NEW u \in Users, HourPending(u)
        PROVE  Reminded(u)' \/ faults'.n > faults.n \/ "hourly" \in queued' \/ OnList(hourly, u)'
    <3>1. CASE s.user = u /\ s.exp = key[u].exp
      BY <1>1, <2>2, <3>1 DEF Reminded, Notice
    <3>2. CASE ~(s.user = u /\ s.exp = key[u].exp)
      BY <1>1, <2>1, <2>3, <3>2 DEF HourPending, OnList
    <3> QED
      BY <3>1, <3>2
  <2>4. \A u \in Users : DayPending(u) => "daily" \in queued' \/ OnList(daily, u)'
    BY <1>1, <2>1 DEF DayPending, OnList
  <2> QED
    BY <1>1, <2>1, <2>3, <2>4, WarnKept
<1>4. CASE SendDeactivated(s)
  <2>1. UNCHANGED <<daily, hourly>>
        /\ (removal'.on => removal.on /\ removal'.date = removal.date)
    BY <1>1, <1>4, RestTypes DEF SendDeactivated
  <2>2. \A u \in Users : /\ DayPending(u) => "daily" \in queued' \/ OnList(daily, u)'
                         /\ HourPending(u) => "hourly" \in queued' \/ OnList(hourly, u)'
    BY <1>1, <2>1 DEF DayPending, HourPending, OnList
  <2> QED
    BY <1>1, <2>1, <2>2, WarnKept
<1> QED
  BY <1>2, <1>3, <1>4

LEMMA WarnByLoss ==
  ASSUME WarnInv, TypeInv', ToldInv', Lose
  PROVE  WarnInv'
<1>1. /\ UNCHANGED <<now, key, told, settled>> /\ queued' \subseteq queued
      /\ removal' \in {removal, Idle}
  BY DEF Lose
<1>2. faults'.n = faults.n + 1 /\ faults.n \in Nat
  BY FaultTypes, Numbers DEF Lose, WarnInv, TypeInv
<1> QED
  BY <1>1, <1>2, WarnKept DEF Idle

\* The steps that neither remind nor remove.
LEMMA WarnByMarking ==
  ASSUME WarnInv, TypeInv', ToldInv', NEW s \in Selected, MarkDaily(s)
  PROVE  WarnInv'
<1>1. /\ UNCHANGED <<now, queued, hourly, removal, told, settled, faults>>
      /\ daily'.left = daily.left /\ faults.n \in Nat
      /\ \A u \in Users : key'[u].exp = key[u].exp /\ key'[u].live = key[u].live
  BY MarkEffect, Numbers DEF WarnInv, TypeInv
<1>2. \A u \in Users : /\ DayPending(u) => "daily" \in queued' \/ OnList(daily, u)'
                       /\ HourPending(u) => "hourly" \in queued' \/ OnList(hourly, u)'
  BY <1>1 DEF DayPending, HourPending, OnList
<1> QED
  BY <1>1, <1>2, WarnKept

LEMMA WarnByDeactivation ==
  ASSUME WarnInv, TypeInv', ToldInv', Deactivate
  PROVE  WarnInv'
<1>1. /\ UNCHANGED <<now, queued, daily, hourly, told, settled, faults>>
      /\ removal.on /\ removal'.date = removal.date /\ faults.n \in Nat
      /\ \A u \in Users : key'[u].exp = key[u].exp /\ (key'[u].live => key[u].live)
  BY DeactivationEffect, Numbers DEF WarnInv, TypeInv
<1>2. \A u \in Users : /\ DayPending(u) => "daily" \in queued' \/ OnList(daily, u)'
                       /\ HourPending(u) => "hourly" \in queued' \/ OnList(hourly, u)'
  BY <1>1 DEF DayPending, HourPending, OnList
<1> QED
  BY <1>1, <1>2, WarnKept

LEMMA WarnStep == WarnInv /\ [Next]_vars => WarnInv'
<1> SUFFICES ASSUME WarnInv, [Next]_vars
             PROVE  WarnInv'
  OBVIOUS
<1>1. TypeInv' /\ ToldInv'
  BY TypeStep, ToldStep DEF WarnInv
<1>2. CASE Tick \/ Lose \/ StartDaily \/ StartHourly \/ StartRemoval \/ Deactivate
  BY <1>1, <1>2, WarnByTick, WarnByLoss, WarnByStart, WarnByDeactivation
<1>3. CASE \E s \in Selected : SendDaily(s) \/ MarkDaily(s) \/ SendHourly(s) \/ SendDeactivated(s)
  BY <1>1, <1>3, WarnBySending, WarnByMarking
<1>4. CASE \E u \in Users : Purchase(u) \/ ActivateGift(u) \/ Redeem(u) \/ FreeTrial(u)
  BY <1>1, <1>4, WarnByGrant
<1>5. CASE UNCHANGED vars
  <2>1. UNCHANGED <<now, key, queued, daily, hourly, removal, told, settled, faults>>
    BY <1>5 DEF vars, jobVars
  <2>2. \A u \in Users : WarnedOf(u)'
    BY <2>1 DEF WarnInv, WarnedOf, DayBefore, LastMorning, BeforeRemoval, DayPending, HourPending,
       OnList, LastDay, RemindersDue, SettledInTime, Reminded
  <2> QED
    BY <1>1, <2>1, <2>2 DEF WarnInv, SettledBefore, LateIsFault, LastDay
<1> QED
  BY <1>2, <1>3, <1>4, <1>5 DEF Next

LEMMA WarnInit == Init => WarnInv
<1> SUFFICES ASSUME Init
             PROVE  WarnInv
  OBVIOUS
<1>1. TypeInv /\ ToldInv
  BY TypeInit, ToldInit
<1>2. /\ now = 0 /\ queued = {} /\ ~removal.on
      /\ \A u \in Users : settled[u].at = 0
  BY DEF Init, Idle
<1>3. ASSUME NEW u \in Users, key[u].live
      PROVE  LastDay(u) = 1
  <2>1. PICK e \in 4..7 : key[u] = [pk |-> 1, exp |-> e, live |-> TRUE, notified |-> FALSE]
    BY <1>3, InitKeys DEF NoKey
  <2> QED
    BY <2>1 DEF LastDay, Day
<1>4. SettledBefore /\ LateIsFault
  BY <1>2, <1>3 DEF SettledBefore, LateIsFault
<1>5. \A u \in Users : WarnedOf(u)
  BY <1>2, <1>3 DEF WarnedOf, DayBefore, LastMorning, BeforeRemoval
<1> QED
  BY <1>1, <1>4, <1>5 DEF WarnInv

\* No key is deactivated before its owner was reminded of its present expiry, or
\* every reminder due to it met with a fault of its own: each is due in its own
\* quarter, and a job that misses it is late.
THEOREM RemovalsAreAnnounced == Spec => WarnedBeforeRemoval
<1>1. ASSUME WarnInv, [Next]_vars, NEW u \in Users, key[u].live, key'[u].pk = key[u].pk,
             ~key'[u].live
      PROVE  Reminded(u) \/ faults.n >= RemindersDue(u)
  <2>1. Deactivate
    <3>1. CASE Tick \/ Lose \/ StartDaily \/ StartHourly \/ StartRemoval
      BY <1>1, <3>1 DEF Tick, Lose, StartDaily, StartHourly, StartRemoval
    <3>2. CASE \E s \in Selected : SendDaily(s) \/ SendHourly(s) \/ SendDeactivated(s)
      BY <1>1, <3>2 DEF SendDaily, SendHourly, SendDeactivated
    <3>3. CASE \E s \in Selected : MarkDaily(s)
      BY <1>1, <3>3, MarkEffect DEF WarnInv
    <3>4. ASSUME NEW i \in Users, Purchase(i) \/ ActivateGift(i) \/ Redeem(i) \/ FreeTrial(i)
          PROVE  FALSE
      <4>1. PICK row \in Rows : key' = [key EXCEPT ![i] = row] /\ row.live
        BY <1>1, <3>4, GrantEffect DEF WarnInv
      <4> QED
        BY <1>1, <4>1 DEF WarnInv, TypeInv, TypeOK
    <3>5. CASE UNCHANGED vars
      BY <1>1, <3>5 DEF vars
    <3> QED
      BY <1>1, <3>1, <3>2, <3>3, <3>4, <3>5 DEF Next
  <2>2. removal.on /\ LastDay(u) <= removal.date
    BY <1>1, <2>1, DeactivationEffect DEF WarnInv, LastDay
  <2> QED
    BY <1>1, <2>2 DEF WarnInv, WarnedOf, BeforeRemoval
<1>2. WarnInv /\ [Next]_vars =>
        [\A u \in Users :
           key[u].live /\ key'[u].pk = key[u].pk /\ ~key'[u].live =>
             Reminded(u) \/ faults.n >= RemindersDue(u)]_vars
  BY <1>1
<1> QED
  BY <1>2, WarnInit, WarnStep, PTL DEF Spec, WarnedBeforeRemoval
===============================================================================
