------------------------------ MODULE KeyReminders ------------------------------
(***************************************************************************)
(* The daily jobs around the end of an MTProxy key: the reminder of the day *)
(* before (15:00), the one of the last morning (08:00) and the removal      *)
(* (09:00), against the grants that move the key's expiry while they run.   *)
(*                                                                         *)
(* Time counts quarters of a day: before 08:00, from 08:00, from 09:00 and   *)
(* from 15:00.  A user has one key row; what the servers hold is KeyFleet's. *)
(***************************************************************************)
EXTENDS Naturals, FiniteSets

CONSTANTS Users,
          Days,        \* SUBSCRIPTION_PERIOD_DAYS, and the shortest free trial
          LastQuarter, \* bound: how long the system is watched
          LastExpiry,  \* bound: grants beyond it are not watched
          MaxKeys,     \* bound: rows issued to a user
          FaultKinds,  \* "send", "lost" and "late", those that may happen
          MaxFaults    \* bound: how many of them

ASSUME DaysAssumption == Days \in Nat /\ Days > 1
ASSUME BoundsAssumption == /\ {LastQuarter, LastExpiry, MaxKeys, MaxFaults} \subseteq Nat
                           /\ MaxKeys > 0 /\ LastExpiry >= 7
ASSUME FaultsAssumption == FaultKinds \subseteq {"send", "lost", "late"}

VARIABLES now,      \* the quarter
          key,      \* each user's only MTPRotoKey row
          queued,   \* jobs the beat has published
          daily,    \* NotifyBeforeRemovingDailyService
          hourly,   \* NotifyBeforeRemovingHourBeforeService
          removal,  \* RemoveExpiredKeysDailyService
          told,     \* history: the messages users got about their keys
          settled,  \* history: when the row's expiry was set, and whether a mark
                    \* for another expiry was kept
          faults    \* how many faults so far, and of which kinds

jobVars == <<queued, daily, hourly, removal>>
vars == <<now, key, jobVars, told, settled, faults>>

Day(t) == t \div 4
Jobs == {"daily", "hourly", "removal"}
Expiries == 0..LastExpiry

NoKey == [pk |-> 0, exp |-> 0, live |-> FALSE, notified |-> FALSE]
Notices == [kind : {"day", "again", "hour", "deactivated"}, user : Users, exp : Expiries]
Notice(kind, s) == [kind |-> kind, user |-> s.user, exp |-> s.exp]

\* A key as a job selected it.
Selected == [user : Users, pk : 1..MaxKeys, exp : Expiries]
Select(users) == {[user |-> u, pk |-> key[u].pk, exp |-> key[u].exp] : u \in users}

Idle == [on |-> FALSE, date |-> 0, left |-> {}, sent |-> {}]
JobState == [on : BOOLEAN, date : Nat, left : SUBSET Selected, sent : SUBSET Selected]

TypeOK ==
  /\ now \in 0..LastQuarter
  /\ key \in [Users -> [pk : 0..MaxKeys, exp : Expiries, live : BOOLEAN,
                        notified : BOOLEAN]]
  /\ queued \subseteq Jobs
  /\ {daily, hourly, removal} \subseteq JobState
  /\ \A s \in daily.sent : Cardinality(daily.sent) = 1 /\ s \notin daily.left
  /\ told \subseteq Notices
  /\ settled \in [Users -> [at : 0..LastQuarter, kept : BOOLEAN]]
  /\ faults \in [n : 0..MaxFaults, kinds : SUBSET FaultKinds]

\* A user without a key, or with one that ends tomorrow.
Init ==
  /\ now = 0
  /\ key \in [Users -> {NoKey} \union
                       {[pk |-> 1, exp |-> e, live |-> TRUE, notified |-> FALSE] : e \in 4..7}]
  /\ queued = {}
  /\ daily = Idle /\ hourly = Idle /\ removal = Idle
  /\ told = {}
  /\ settled = [u \in Users |-> [at |-> 0, kept |-> FALSE]]
  /\ faults = [n |-> 0, kinds |-> {}]

Fault(k) ==
  /\ k \in FaultKinds
  /\ faults.n < MaxFaults
  /\ faults' = [n |-> faults.n + 1, kinds |-> faults.kinds \union {k}]

-------------------------------------------------------------------------------
(* Selectors.  Dates are compared for the notices and the removal, moments   *)
(* for an active key: in the quarter of its expiry a key may be either.      *)
(* Mutants (named ...Mutant) are plausible bugs; no specification uses them. *)

get_keys_expiring_on_dateMutant(d) == {u \in Users : Day(key[u].exp) = d}   \* dead ones too
get_keys_expiring_on_date(d) == {u \in Users : key[u].live /\ Day(key[u].exp) = d}
get_unnotified_keys_expiring_on_dateMutant(d) ==   \* the mark is not looked at
  get_keys_expiring_on_date(d)
get_unnotified_keys_expiring_on_date(d) ==
  {u \in get_keys_expiring_on_date(d) : ~key[u].notified}
get_keys_expired_up_to_date(d) == {u \in Users : key[u].live /\ Day(key[u].exp) <= d}

MayBeActive(u) == key[u].live /\ key[u].exp >= now
MayHaveNoActive(u) == ~key[u].live \/ key[u].exp <= now

-------------------------------------------------------------------------------
(* Grants.                                                                  *)

GrantFrame == UNCHANGED <<now, jobVars, told, faults>>

\* The key of u gets an expiry at day precision later than any it had.
Settle(u, row, kept) ==
  /\ row.exp \in Expiries
  /\ key' = [key EXCEPT ![u] = row]
  /\ settled' = [settled EXCEPT ![u] = [at |-> now, kept |-> kept]]

\* IssueKeyService: a new row in place of the old one.
IssueKey(u) ==
  /\ key[u].pk < MaxKeys
  /\ Settle(u, [pk |-> key[u].pk + 1, exp |-> now + 4 * Days, live |-> TRUE,
                notified |-> FALSE], FALSE)

\* ExtendKeyService, its mark reset only when the caller asks for it.
ExtendKey(u, reset_user_notified, keptMark) ==
  Settle(u, [key[u] EXCEPT !.exp = @ + 4 * Days,
                           !.notified = @ /\ ~reset_user_notified], keptMark)

PurchaseMutant(u) ==   \* the payment extends as a certificate does
  /\ \/ MayBeActive(u) /\ ExtendKey(u, FALSE, FALSE)
     \/ MayHaveNoActive(u) /\ IssueKey(u)
  /\ GrantFrame

\* A payment extends the active key or issues one.
Purchase(u) ==
  /\ \/ MayBeActive(u) /\ ExtendKey(u, TRUE, FALSE)
     \/ MayHaveNoActive(u) /\ IssueKey(u)
  /\ GrantFrame

\* An activated certificate does too, and leaves the mark as it is.
ActivateGift(u) ==
  /\ \/ MayBeActive(u) /\ ExtendKey(u, FALSE, key[u].notified)
     \/ MayHaveNoActive(u) /\ IssueKey(u)
  /\ GrantFrame

\* A confirmed redemption adds days to the row there is, and revives it.
Redeem(u) ==
  /\ key[u].pk # 0
  /\ LET from == IF key[u].exp > now THEN key[u].exp ELSE now
     IN Settle(u, [key[u] EXCEPT !.exp = from + 4, !.live = TRUE, !.notified = FALSE], FALSE)
  /\ GrantFrame

\* The free trial issues a row whatever the user has.
FreeTrial(u) == IssueKey(u) /\ GrantFrame

-------------------------------------------------------------------------------
(* The clock and the beat.                                                  *)

\* 08:00, 09:00 and 15:00.
Scheduled(t) == IF t % 4 = 1 THEN {"hourly"}
                ELSE IF t % 4 = 2 THEN {"removal"}
                ELSE IF t % 4 = 3 THEN {"daily"} ELSE {}

Unfinished == queued # {} \/ daily.on \/ hourly.on \/ removal.on
StillOf(j) == j \in queued \/ CASE j = "daily" -> daily.on
                                [] j = "hourly" -> hourly.on
                                [] j = "removal" -> removal.on

\* A job is over within its quarter unless it is late, and always before its
\* next run.
Tick ==
  /\ now < LastQuarter
  /\ now' = now + 1
  /\ queued' = queued \union Scheduled(now + 1)
  /\ \A j \in Scheduled(now + 1) : ~StillOf(j)
  /\ IF Unfinished THEN Fault("late") ELSE UNCHANGED faults
  /\ UNCHANGED <<key, daily, hourly, removal, told, settled>>

\* A job is not published, its worker is killed after it was acknowledged, or its
\* template is missing.
Lose ==
  /\ Fault("lost")
  /\ \/ /\ \E j \in queued : queued' = queued \ {j}
        /\ UNCHANGED <<daily, hourly, removal>>
     \/ daily.on /\ daily' = Idle /\ UNCHANGED <<queued, hourly, removal>>
     \/ hourly.on /\ hourly' = Idle /\ UNCHANGED <<queued, daily, removal>>
     \/ removal.on /\ removal' = Idle /\ UNCHANGED <<queued, daily, hourly>>
  /\ UNCHANGED <<now, key, told, settled>>

Take(j) == j \in queued /\ queued' = queued \ {j}
Running(job, date, users) ==
  job' = IF users = {} THEN Idle
         ELSE [on |-> TRUE, date |-> date, left |-> Select(users), sent |-> {}]
-------------------------------------------------------------------------------
(* One day before.                                                          *)

StartDaily ==
  /\ Take("daily")
  /\ Running(daily, Day(now) + 1, get_unnotified_keys_expiring_on_date(Day(now) + 1))
  /\ UNCHANGED <<now, key, hourly, removal, told, settled, faults>>

\* The loop is over once every selected key was tried.
Rest(job, s) == IF job.left = {s} THEN Idle ELSE [job EXCEPT !.left = @ \ {s}]

SendDaily(s) ==
  /\ s \in daily.left
  /\ daily.sent = {}
  /\ \/ /\ daily' = [daily EXCEPT !.left = @ \ {s}, !.sent = {s}]
        /\ told' = told \union
             {Notice(IF Notice("day", s) \in told THEN "again" ELSE "day", s)}
        /\ UNCHANGED faults
     \/ /\ Fault("send")
        /\ daily' = Rest(daily, s)
        /\ UNCHANGED told
  /\ UNCHANGED <<now, key, queued, hourly, removal, settled>>

mark_key_notified_for_expiryMutant(s) ==   \* only the row is compared
  key' = IF key[s.user].pk = s.pk THEN [key EXCEPT ![s.user].notified = TRUE] ELSE key

\* The mark is set only on the row and for the expiry that were selected.
mark_key_notified_for_expiry(s) ==
  key' = IF key[s.user].pk = s.pk /\ key[s.user].exp = s.exp
         THEN [key EXCEPT ![s.user].notified = TRUE] ELSE key

MarkDaily(s) ==
  /\ s \in daily.sent
  /\ mark_key_notified_for_expiry(s)
  /\ daily' = IF daily.left = {} THEN Idle ELSE [daily EXCEPT !.sent = {}]
  /\ UNCHANGED <<now, queued, hourly, removal, told, settled, faults>>
-------------------------------------------------------------------------------
(* The last morning.                                                        *)

StartHourly ==
  /\ Take("hourly")
  /\ Running(hourly, Day(now), get_keys_expiring_on_date(Day(now)))
  /\ UNCHANGED <<now, key, daily, removal, told, settled, faults>>

SendHourly(s) ==
  /\ s \in hourly.left
  /\ hourly' = Rest(hourly, s)
  /\ \/ told' = told \union {Notice("hour", s)} /\ UNCHANGED faults
     \/ Fault("send") /\ UNCHANGED told
  /\ UNCHANGED <<now, key, queued, daily, removal, settled>>
-------------------------------------------------------------------------------
(* The removal.                                                             *)

StartRemoval ==
  /\ Take("removal")
  /\ Running(removal, Day(now), get_keys_expired_up_to_date(Day(now)))
  /\ UNCHANGED <<now, key, daily, hourly, told, settled, faults>>

\* After the servers: the rows are selected again, by the date of the start.
Deactivate ==
  /\ removal.on
  /\ removal.sent = {}
  /\ key' = [u \in Users |-> IF u \in get_keys_expired_up_to_date(removal.date)
                             THEN [key[u] EXCEPT !.live = FALSE] ELSE key[u]]
  /\ removal' = [removal EXCEPT !.sent = removal.left]
  /\ UNCHANGED <<now, queued, daily, hourly, told, settled, faults>>

\* The notice goes to the users read at the start.
SendDeactivated(s) ==
  /\ removal.sent # {}
  /\ s \in removal.left
  /\ removal' = Rest(removal, s)
  /\ \/ told' = told \union {Notice("deactivated", s)} /\ UNCHANGED faults
     \/ Fault("send") /\ UNCHANGED told
  /\ UNCHANGED <<now, key, queued, daily, hourly, settled>>
-------------------------------------------------------------------------------
Next == \/ Tick \/ Lose \/ StartDaily \/ StartHourly \/ StartRemoval \/ Deactivate
        \/ \E s \in Selected : \/ SendDaily(s) \/ MarkDaily(s) \/ SendHourly(s)
                               \/ SendDeactivated(s)
        \/ \E u \in Users : \/ Purchase(u) \/ ActivateGift(u) \/ Redeem(u) \/ FreeTrial(u)

Spec == Init /\ [][Next]_vars
-------------------------------------------------------------------------------
(* Properties.                                                              *)

\* A key marked as notified is one whose owner got the reminder for its present
\* expiry, however payments and redemptions moved it during the send; only an
\* activated certificate carries the mark on to a new expiry.
NotifiedWasTold ==
  \A u \in Users :
    key[u].live /\ key[u].notified =>
      \/ [kind |-> "day", user |-> u, exp |-> key[u].exp] \in told
      \/ settled[u].kept

\* The reminders due to a key: that of the last morning, and that of the day
\* before if its expiry was set in time and no certificate kept an older mark.
SettledInTime(u) == settled[u].at < 4 * (Day(key[u].exp) - 1) + 3
RemindersDue(u) == 1 + (IF settled[u].kept \/ ~SettledInTime(u) THEN 0 ELSE 1)
Reminded(u) == \E kind \in {"day", "hour"} :
                 [kind |-> kind, user |-> u, exp |-> key[u].exp] \in told

\* No key is deactivated unannounced, unless every reminder due to it met with a
\* fault of its own: a refused message, a lost or a late job.
WarnedBeforeRemoval ==
  [][\A u \in Users :
       key[u].live /\ key'[u].pk = key[u].pk /\ ~key'[u].live =>
         Reminded(u) \/ faults.n >= RemindersDue(u)]_vars

\* The day before is announced once per expiry, also by a job that ran late and
\* looks at the same day as its successor, unless one was killed before its mark.
RemindedOnce == (\E s \in told : s.kind = "again") => "lost" \in faults.kinds
===============================================================================
