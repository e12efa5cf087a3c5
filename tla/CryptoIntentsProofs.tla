-------------------------- MODULE CryptoIntentsProofs --------------------------
(***************************************************************************)
(* Proofs about CryptoIntents for any requests, slots, workers, runs,      *)
(* tasks, bounds and faults.  Inv is the inductive invariant; the safety    *)
(* properties the runs check on small instances follow from it.            *)
(***************************************************************************)
EXTENDS CryptoIntents, FiniteSetTheorems, TLAPS

BeforeReserve == {"new", "lookup", "expire", "failStale", "reserve"}
Stored == {"active", "local_expired", "retryable", "provider_expired", "fulfilled"}

\* A row exists once its request reserved it, and the provider knows an invoice
\* once its request asked for one: no request starts over.
RequestInv ==
  \A r \in Requests :
    /\ req[r].step \in BeforeReserve => status[r] = "none"
    /\ req[r].step \in {"callProvider", "activate", "failCreation"} => status[r] # "none"
    /\ provider[r] # "none" => /\ req[r].step \in {"activate", "failCreation", "done"}
                               /\ status[r] # "none"

\* The invoice is stored in exactly the states it may be paid in or was, only
\* stored invoices are shown, and a row is given up with its invoice.
RowInv ==
  /\ \A r \in Requests : /\ hasTx[r] <=> status[r] \in Stored
                         /\ status[r] # "processing"
                         /\ status[r] = "provider_expired" => provider[r] = "expired"
  /\ \A r \in shown : hasTx[r]
  /\ \A r \in acked : status[r] = "fulfilled"

\* What workers, runs and tasks have read about a row is still true of it.
ReadInv ==
  /\ \A a \in Actors : LET r == job[a].tx IN
       /\ job[a].step # "idle" => provider[r] = "paid" /\ hasTx[r]
       /\ job[a].step = "publish" => status[r] = "fulfilled"
  /\ \A m \in Runs : /\ \A r \in run[m].expired : provider[r] = "expired"
                     /\ \A r \in run[m].queue : status[r] = "fulfilled"
  /\ \A t \in Tasks : task[t].step # "none" => status[task[t].tx] = "fulfilled"

Inv == /\ TypeOK /\ OneLiveInvoice /\ GrantedExactlyOnce
       /\ RequestInv /\ RowInv /\ ReadInv

-------------------------------------------------------------------------------
(* Types.                                                                   *)

Reqs == [step : RequestSteps, lapsed : SUBSET Requests, stale : SUBSET Requests]
Jobs == [step : JobSteps, tx : Requests]
RunRows == [step : RunSteps, batch : SUBSET Requests, paid : SUBSET Requests,
            expired : SUBSET Requests, queue : SUBSET Requests, notified : SUBSET Requests]
TaskRows == [step : TaskSteps, tx : Requests, tries : 0..MaxRetries]

\* The records of an idle actor, run and task are well typed.
LEMMA ResetTypes == NoJob \in Jobs /\ NoRun \in RunRows /\ NoTask \in TaskRows
<1>1. AnyRequest \in Requests
  BY RequestsAssumption DEF AnyRequest
<1>2. 0 \in 0..MaxRetries
  BY BoundsAssumption
<1> QED
  BY <1>1, <1>2 DEF NoJob, NoRun, NoTask, Jobs, RunRows, TaskRows, JobSteps, RunSteps, TaskSteps

LEMMA TypeInit == Init => TypeOK
<1> SUFFICES ASSUME Init PROVE TypeOK
  OBVIOUS
<1>1. 0 \in 0..MaxFaults
  BY BoundsAssumption
<1> QED
  BY <1>1, ResetTypes
     DEF Init, TypeOK, Statuses, RequestSteps, Jobs, RunRows, TaskRows

\* An injected fault is counted.
LEMMA FaultType ==
  ASSUME NEW k, Fault(k), TypeOK
  PROVE  faults' \in 0..MaxFaults
<1>1. faults \in 0..MaxFaults /\ MaxFaults \in Nat
  BY BoundsAssumption DEF TypeOK
<1> QED
  BY <1>1 DEF Fault

LEMMA GotoType ==
  ASSUME TypeOK, NEW r \in Requests, NEW s \in RequestSteps, Goto(r, s)
  PROVE  req' \in [Requests -> Reqs]
<1>1. req \in [Requests -> Reqs] /\ req[r] \in Reqs
  BY DEF TypeOK, Reqs
<1>2. [req[r] EXCEPT !.step = s] \in Reqs
  BY <1>1 DEF Reqs
<1> QED
  BY <1>1, <1>2 DEF Goto

Stats == [Requests -> Statuses \union {"none"}]

\* The steps of an invoice request keep every type.
LEMMA RequestType ==
  ASSUME TypeOK, NEW r \in Requests,
         Begin(r) \/ RequestStep(r) \/ ActivateError(r) \/ AbandonRequest(r)
  PROVE  TypeOK'
<1>1. ASSUME req' \in [Requests -> Reqs], status' \in Stats, pk' \in [Requests -> Nat],
             hasTx' \in [Requests -> BOOLEAN], shown' \subseteq Requests,
             provider' \in [Requests -> {"none", "open", "paid", "expired"}],
             faults' \in 0..MaxFaults, RequestFrame
      PROVE  TypeOK'
  BY <1>1 DEF TypeOK, Reqs, Stats, RequestFrame, clockVars, taskVars
<1>2. /\ req \in [Requests -> Reqs] /\ status \in Stats /\ pk \in [Requests -> Nat]
      /\ hasTx \in [Requests -> BOOLEAN] /\ shown \subseteq Requests
      /\ provider \in [Requests -> {"none", "open", "paid", "expired"}]
      /\ faults \in 0..MaxFaults /\ lapsed \subseteq Requests /\ stale \subseteq Requests
  BY DEF TypeOK, Reqs, Stats
<1>3. ASSUME NEW s \in {"expire", "failStale", "reserve", "readWinner", "callProvider",
                        "activate", "failCreation", "done"}, Goto(r, s)
      PROVE  req' \in [Requests -> Reqs]
  BY <1>3, GotoType DEF RequestSteps
<1>4. Reusable(r) \subseteq Requests
  BY DEF Reusable, SameSlot
<1>5. CASE Begin(r)
  <2>1. [step |-> "lookup", lapsed |-> lapsed, stale |-> stale] \in Reqs
    BY <1>2 DEF Reqs, RequestSteps
  <2>2. req' \in [Requests -> Reqs]
    BY <1>2, <1>5, <2>1 DEF Begin
  <2> QED
    BY <1>1, <1>2, <1>5, <2>2 DEF Begin
<1>6. CASE Lookup(r)
  BY <1>1, <1>2, <1>3, <1>4, <1>6 DEF Lookup
<1>7. CASE ExpireActive(r)
  <2>1. status' \in Stats
    BY <1>2, <1>7 DEF ExpireActive, Stats, Statuses
  <2> QED
    BY <1>1, <1>2, <1>3, <1>7, <2>1 DEF ExpireActive
<1>8. CASE FailStaleCreating(r)
  <2>1. status' \in Stats
    BY <1>2, <1>8 DEF FailStaleCreating, Stats, Statuses
  <2> QED
    BY <1>1, <1>2, <1>3, <1>8, <2>1 DEF FailStaleCreating
<1>9. CASE Reserve(r)
  <2>1. Cardinality(Rows) + 1 \in Nat
    <3>1. Rows \in SUBSET Requests
      BY DEF Rows
    <3>2. Cardinality(Rows) \in Nat
      BY <3>1, RequestsAssumption, FS_Subset, FS_CardinalityType
    <3> QED
      BY <3>2
  <2>2. status' \in Stats /\ pk' \in [Requests -> Nat]
    BY <1>2, <1>9, <2>1 DEF Reserve, Stats, Statuses
  <2> QED
    BY <1>1, <1>2, <1>3, <1>9, <2>2 DEF Reserve
<1>10. CASE ReadWinner(r)
  BY <1>1, <1>2, <1>3, <1>4, <1>10 DEF ReadWinner
<1>11. CASE CallProvider(r)
  <2>1. provider' \in [Requests -> {"none", "open", "paid", "expired"}]
    BY <1>2, <1>11 DEF CallProvider
  <2> QED
    BY <1>1, <1>2, <1>3, <1>11, <2>1 DEF CallProvider
<1>12. ASSUME StoreInvoice(r) \/ UNCHANGED <<status, hasTx>>
       PROVE  status' \in Stats /\ hasTx' \in [Requests -> BOOLEAN]
  BY <1>2, <1>12 DEF StoreInvoice, Stats, Statuses
<1>13. CASE Activate(r)
  BY <1>1, <1>2, <1>3, <1>12, <1>13 DEF Activate
<1>14. CASE ActivateError(r)
  BY <1>1, <1>2, <1>3, <1>12, <1>14, FaultType DEF ActivateError
<1>15. CASE FailCreation(r)
  <2>1. status' \in Stats
    BY <1>2, <1>15 DEF FailCreation, Stats, Statuses
  <2> QED
    BY <1>1, <1>2, <1>3, <1>15, <2>1 DEF FailCreation
<1>16. CASE AbandonRequest(r)
  BY <1>1, <1>2, <1>3, <1>16, FaultType DEF AbandonRequest
<1> QED
  BY <1>5, <1>6, <1>7, <1>8, <1>9, <1>10, <1>11, <1>13, <1>14, <1>15, <1>16 DEF RequestStep

\* The clock, the buyer, the provider and its webhooks.
World(r) == \/ Lapse(r) \/ GrowStale(r) \/ Pay(r) \/ ProviderExpire(r)
            \/ \E w \in Workers : Webhook(w, r)

LEMMA WorldType ==
  ASSUME TypeOK, NEW r \in Requests, World(r)
  PROVE  TypeOK'
<1> USE DEF WorldFrame, rowVars, taskVars, clockVars
<1>1. CASE Lapse(r) \/ GrowStale(r)
  BY <1>1 DEF Lapse, GrowStale, TypeOK
<1>2. CASE Pay(r) \/ ProviderExpire(r)
  <2>1. provider' \in [Requests -> {"none", "open", "paid", "expired"}]
    BY <1>2 DEF Pay, ProviderExpire, TypeOK
  <2>2. UNCHANGED <<clockVars, job>> /\ WorldFrame
    BY <1>2 DEF Pay, ProviderExpire
  <2> QED
    BY <2>1, <2>2 DEF TypeOK
<1>3. ASSUME NEW w \in Workers, Webhook(w, r)
      PROVE  TypeOK'
  <2>1. [step |-> "apply", tx |-> r] \in Jobs /\ job \in [Actors -> Jobs]
    BY DEF Jobs, JobSteps, TypeOK
  <2>2. job' \in [Actors -> Jobs]
    BY <1>3, <2>1 DEF Webhook
  <2> QED
    BY <1>3, <2>2 DEF Webhook, TypeOK, Jobs
<1> QED
  BY <1>1, <1>2, <1>3 DEF World

\* The ways an application of a payment ends, or goes on.
LEMMA ReturnTypes ==
  ASSUME TypeOK, NEW a \in Actors,
         \/ Return(a, TRUE) \/ Return(a, FALSE) \/ ReturnRetryable(a) \/ Abort(a)
  PROVE  job' \in [Actors -> Jobs] /\ run' \in [Runs -> RunRows] /\ acked' \subseteq Requests
<1>1. /\ job \in [Actors -> Jobs] /\ run \in [Runs -> RunRows] /\ acked \subseteq Requests
      /\ job[a] \in Jobs
  BY DEF TypeOK, Jobs, RunRows
<1>2. job[a].tx \in Requests
  BY <1>1 DEF Jobs
<1>3. job' \in [Actors -> Jobs]
  BY <1>1, ResetTypes DEF Return, ReturnRetryable, Abort
<1>4. acked' \subseteq Requests
  BY <1>1, <1>2 DEF Return, ReturnRetryable, Abort
<1>5. run' \in [Runs -> RunRows]
  <2>1. CASE run' = run
    BY <1>1, <2>1
  <2>2. CASE a \in Runs /\ run' = [run EXCEPT ![a] = NoRun]
    BY <1>1, <2>2, ResetTypes
  <2>3. CASE a \in Runs
             /\ run' = [run EXCEPT ![a] = [run[a] EXCEPT !.notified = @ \union {job[a].tx}]]
    <3>1. run[a] \in RunRows
      BY <1>1, <2>3
    <3>2. [run[a] EXCEPT !.notified = @ \union {job[a].tx}] \in RunRows
      BY <1>2, <3>1 DEF RunRows
    <3> QED
      BY <1>1, <2>3, <3>2
  <2> QED
    BY <2>1, <2>2, <2>3 DEF Return, ReturnRetryable, Abort
<1> QED
  BY <1>3, <1>4, <1>5

LEMMA JobGotoType ==
  ASSUME TypeOK, NEW a \in Actors, NEW s \in JobSteps, JobGoto(a, s)
  PROVE  job' \in [Actors -> Jobs]
<1>1. job \in [Actors -> Jobs] /\ job[a] \in Jobs
  BY DEF TypeOK, Jobs
<1>2. [job[a] EXCEPT !.step = s] \in Jobs
  BY <1>1 DEF Jobs
<1> QED
  BY <1>1, <1>2 DEF JobGoto

\* An enqueued notification is a well-typed task.
LEMMA EnqueueType ==
  ASSUME TypeOK, NEW r \in Requests, Enqueue(r) \/ UNCHANGED task
  PROVE  task' \in [Tasks -> TaskRows]
<1>1. task \in [Tasks -> TaskRows]
  BY DEF TypeOK, TaskRows
<1>2. 0 \in 0..MaxRetries
  BY BoundsAssumption
<1>3. [step |-> "queued", tx |-> r, tries |-> 0] \in TaskRows
  BY <1>2 DEF TaskRows, TaskSteps
<1> QED
  BY <1>1, <1>3 DEF Enqueue

JobNext(a) == JobStep(a) \/ FulfilRollback(a) \/ PublishFails(a) \/ AbandonJob(a)

\* Applying a payment keeps every type.
LEMMA JobType ==
  ASSUME TypeOK, NEW a \in Actors, JobNext(a)
  PROVE  TypeOK'
<1> DEFINE r == job[a].tx
<1>1. ASSUME job' \in [Actors -> Jobs], run' \in [Runs -> RunRows], acked' \subseteq Requests,
             status' \in Stats, payment' \in [Requests -> BOOLEAN],
             grants' \in [Requests -> Nat], task' \in [Tasks -> TaskRows],
             faults' \in 0..MaxFaults, JobFrame
      PROVE  TypeOK'
  BY <1>1 DEF TypeOK, Jobs, RunRows, TaskRows, Stats, JobFrame, clockVars
<1>2. /\ r \in Requests /\ job \in [Actors -> Jobs] /\ run \in [Runs -> RunRows]
      /\ acked \subseteq Requests /\ status \in Stats /\ payment \in [Requests -> BOOLEAN]
      /\ grants \in [Requests -> Nat] /\ task \in [Tasks -> TaskRows] /\ faults \in 0..MaxFaults
  BY DEF TypeOK, Jobs, RunRows, TaskRows, Stats
<1>3. ASSUME NEW s \in {"mark", "publish"}, JobGoto(a, s)
      PROVE  job' \in [Actors -> Jobs]
  BY <1>3, JobGotoType DEF JobSteps
<1> DEFINE Ended == /\ job' \in [Actors -> Jobs] /\ run' \in [Runs -> RunRows]
                    /\ acked' \subseteq Requests
<1>4. Return(a, TRUE) \/ Return(a, FALSE) \/ ReturnRetryable(a) \/ Abort(a) => Ended
  BY ReturnTypes
<1> HIDE DEF r, Ended
<1>5. CASE Fulfil(a)
  <2>1. /\ status' \in Stats /\ payment' \in [Requests -> BOOLEAN]
        /\ grants' \in [Requests -> Nat]
    BY <1>2, <1>5 DEF Fulfil, Stats, Statuses, r
  <2>2. job' \in [Actors -> Jobs]
    BY <1>3, <1>5 DEF Fulfil
  <2> QED
    BY <1>1, <1>2, <1>5, <2>1, <2>2 DEF Fulfil
<1>6. CASE FulfilRollback(a)
  <2>1. faults' \in 0..MaxFaults /\ JobFrame /\ UNCHANGED <<status, payment, grants, task>>
    BY <1>6, FaultType DEF FulfilRollback
  <2>2. Ended
    BY <1>2, <1>3, <1>4, <1>6 DEF FulfilRollback, Ended
  <2> QED
    BY <1>1, <1>2, <2>1, <2>2 DEF Ended
<1>7. CASE ApplyAgain(a)
  <2>1. Ended
    BY <1>2, <1>3, <1>4, <1>7 DEF ApplyAgain, Ended
  <2> QED
    BY <1>1, <1>2, <1>7, <2>1 DEF ApplyAgain, Ended
<1>8. CASE MarkRetryable(a)
  <2>1. status' \in Stats
    BY <1>2, <1>8 DEF MarkRetryable, Stats, Statuses, r
  <2>2. Ended
    BY <1>4, <1>8 DEF MarkRetryable
  <2> QED
    BY <1>1, <1>2, <1>8, <2>1, <2>2 DEF MarkRetryable, Ended
<1>9. CASE Publish(a)
  <2>1. task' \in [Tasks -> TaskRows] /\ Ended
    BY <1>2, <1>4, <1>9, EnqueueType DEF Publish, r
  <2> QED
    BY <1>1, <1>2, <1>9, <2>1 DEF Publish, Ended
<1>10. CASE PublishFails(a)
  <2>1. task' \in [Tasks -> TaskRows] /\ Ended /\ faults' \in 0..MaxFaults
    BY <1>2, <1>4, <1>10, EnqueueType, FaultType DEF PublishFails, r
  <2> QED
    BY <1>1, <1>2, <1>10, <2>1 DEF PublishFails, Ended
<1>11. CASE AbandonJob(a)
  <2>1. Ended /\ faults' \in 0..MaxFaults
    BY <1>4, <1>11, FaultType DEF AbandonJob
  <2> QED
    BY <1>1, <1>2, <1>11, <2>1 DEF AbandonJob, Ended
<1> QED
  BY <1>5, <1>6, <1>7, <1>8, <1>9, <1>10, <1>11 DEF JobNext, JobStep

RunNext(m) == \/ RunStep(m) \/ FetchFails(m) \/ MarkExpiredFails(m) \/ RequeueFails(m)
              \/ AbandonRun(m)

\* A reconciliation keeps every type.
LEMMA RunType ==
  ASSUME TypeOK, NEW m \in Runs, RunNext(m)
  PROVE  TypeOK'
<1>1. ASSUME job' \in [Actors -> Jobs], run' \in [Runs -> RunRows], status' \in Stats,
             task' \in [Tasks -> TaskRows], faults' \in 0..MaxFaults, RunFrame
      PROVE  TypeOK'
  BY <1>1 DEF TypeOK, Jobs, RunRows, TaskRows, Stats, RunFrame, clockVars, worldVars
<1>2. /\ job \in [Actors -> Jobs] /\ run \in [Runs -> RunRows] /\ run[m] \in RunRows
      /\ status \in Stats /\ task \in [Tasks -> TaskRows] /\ faults \in 0..MaxFaults
      /\ m \in Actors
  BY DEF TypeOK, Jobs, RunRows, TaskRows, Stats, Actors
<1>3. ASSUME NEW row \in RunRows, run' = [run EXCEPT ![m] = row]
      PROVE  run' \in [Runs -> RunRows]
  BY <1>2, <1>3
<1>4. \A n, S : FirstRows(n, S) \subseteq S
  BY DEF FirstRows
<1>5. CASE StartRun(m)
  <2> DEFINE batch == FirstRows(BatchSize, Unfinished)
  <2>1. batch \in SUBSET Requests
    BY <1>4 DEF Unfinished
  <2> HIDE DEF batch
  <2>2. [NoRun EXCEPT !.step = IF batch = {} THEN "loop" ELSE "fetch", !.batch = batch] \in RunRows
    BY <2>1, ResetTypes DEF RunRows, RunSteps
  <2>3. run' \in [Runs -> RunRows]
    BY <1>3, <1>5, <2>2 DEF StartRun, batch
  <2> QED
    BY <1>1, <1>2, <1>5, <2>3 DEF StartRun
<1>6. CASE Fetch(m)
  <2>1. run' = [run EXCEPT ![m] = [run[m] EXCEPT !.step = "loop",
                  !.paid = {r \in run[m].batch : provider[r] = "paid"},
                  !.expired = {r \in run[m].batch : provider[r] = "expired"}]]
    BY <1>6 DEF Fetch
  <2>2. [run[m] EXCEPT !.step = "loop",
           !.paid = {r \in run[m].batch : provider[r] = "paid"},
           !.expired = {r \in run[m].batch : provider[r] = "expired"}] \in RunRows
    BY <1>2 DEF RunRows, RunSteps
  <2>3. run' \in [Runs -> RunRows]
    BY <1>3, <2>1, <2>2
  <2> QED
    BY <1>1, <1>2, <1>6, <2>3 DEF Fetch
<1>7. CASE FetchFails(m) \/ EndRun(m) \/ AbandonRun(m)
  <2>1. run' \in [Runs -> RunRows]
    BY <1>3, <1>7, ResetTypes DEF FetchFails, EndRun, AbandonRun
  <2>2. faults' \in 0..MaxFaults
    BY <1>2, <1>7, FaultType DEF FetchFails, EndRun, AbandonRun
  <2> QED
    BY <1>1, <1>2, <1>7, <2>1, <2>2 DEF FetchFails, EndRun, AbandonRun
<1>8. CASE ApplyPaid(m)
  <2>1. PICK r \in run[m].paid :
          /\ run' = [run EXCEPT ![m] = [run[m] EXCEPT !.paid = @ \ {r}]]
          /\ job' = IF Validated(r) THEN [job EXCEPT ![m] = [step |-> "apply", tx |-> r]] ELSE job
    BY <1>8 DEF ApplyPaid
  <2>2. r \in Requests /\ [run[m] EXCEPT !.paid = @ \ {r}] \in RunRows
    BY <1>2 DEF RunRows
  <2>3. [step |-> "apply", tx |-> r] \in Jobs
    BY <2>2 DEF Jobs, JobSteps
  <2>4. run' \in [Runs -> RunRows] /\ job' \in [Actors -> Jobs]
    BY <1>2, <1>3, <2>1, <2>2, <2>3
  <2> QED
    BY <1>1, <1>2, <1>8, <2>4 DEF ApplyPaid
<1>9. CASE MarkExpired(m) \/ MarkExpiredFails(m)
  <2>1. PICK r \in run[m].expired :
          /\ run' = [run EXCEPT ![m] = [run[m] EXCEPT !.expired = @ \ {r}]]
          /\ status' \in {status, [status EXCEPT ![r] = "provider_expired"]}
    BY <1>9 DEF MarkExpired, MarkExpiredFails
  <2>2. r \in Requests /\ [run[m] EXCEPT !.expired = @ \ {r}] \in RunRows
    BY <1>2 DEF RunRows
  <2>3. run' \in [Runs -> RunRows] /\ status' \in Stats
    BY <1>2, <1>3, <2>1, <2>2 DEF Stats, Statuses
  <2>4. faults' \in 0..MaxFaults
    BY <1>2, <1>9, FaultType DEF MarkExpired, MarkExpiredFails
  <2> QED
    BY <1>1, <1>2, <1>9, <2>3, <2>4 DEF MarkExpired, MarkExpiredFails
<1>10. CASE ListUnnotified(m)
  <2> DEFINE queue == FirstRows(BatchSize, Unnotified) \ run[m].notified
  <2>1. queue \in SUBSET Requests
    BY <1>4 DEF Unnotified
  <2> HIDE DEF queue
  <2>2. [NoRun EXCEPT !.step = "notify", !.queue = queue] \in RunRows
    BY <2>1, ResetTypes DEF RunRows, RunSteps
  <2>3. run' \in [Runs -> RunRows]
    BY <1>3, <1>10, <2>2 DEF ListUnnotified, queue
  <2> QED
    BY <1>1, <1>2, <1>10, <2>3 DEF ListUnnotified
<1>11. CASE Requeue(m)
  <2>1. PICK r \in FirstRows(1, run[m].queue) :
          Enqueue(r) /\ run' = [run EXCEPT ![m] = [run[m] EXCEPT !.queue = @ \ {r}]]
    BY <1>11 DEF Requeue
  <2>2. r \in Requests /\ [run[m] EXCEPT !.queue = @ \ {r}] \in RunRows
    BY <1>2, <1>4 DEF RunRows
  <2>3. run' \in [Runs -> RunRows] /\ task' \in [Tasks -> TaskRows]
    BY <1>3, <2>1, <2>2, EnqueueType
  <2> QED
    BY <1>1, <1>2, <1>11, <2>3 DEF Requeue
<1>12. CASE RequeueFails(m)
  <2>1. run[m].queue \subseteq Requests
    BY <1>2 DEF RunRows
  <2>2. task' \in [Tasks -> TaskRows]
    BY <1>2, <1>4, <1>12, <2>1, EnqueueType DEF RequeueFails
  <2>3. run' \in [Runs -> RunRows] /\ faults' \in 0..MaxFaults
    BY <1>3, <1>12, ResetTypes, FaultType DEF RequeueFails
  <2> QED
    BY <1>1, <1>2, <1>12, <2>2, <2>3 DEF RequeueFails
<1> QED
  BY <1>5, <1>6, <1>7, <1>8, <1>9, <1>10, <1>11, <1>12 DEF RunNext, RunStep

TaskNext(t) == TaskStep(t) \/ SendFails(t) \/ LoseTask(t)

\* A notification task keeps every type.
LEMMA TaskType ==
  ASSUME TypeOK, NEW t \in Tasks, TaskNext(t)
  PROVE  TypeOK'
<1> DEFINE r == task[t].tx
<1>1. ASSUME task' \in [Tasks -> TaskRows], sent' \in [Requests -> BOOLEAN],
             told' \in [Requests -> Nat], faults' \in 0..MaxFaults, TaskFrame
      PROVE  TypeOK'
  BY <1>1 DEF TypeOK, TaskRows, TaskFrame, clockVars, worldVars
<1>2. /\ r \in Requests /\ task \in [Tasks -> TaskRows] /\ task[t] \in TaskRows
      /\ sent \in [Requests -> BOOLEAN] /\ told \in [Requests -> Nat] /\ faults \in 0..MaxFaults
  BY DEF TypeOK, TaskRows
<1>3. ASSUME NEW s \in TaskSteps, TaskGoto(t, s)
      PROVE  task' \in [Tasks -> TaskRows]
  <2>1. [task[t] EXCEPT !.step = s] \in TaskRows
    BY <1>2 DEF TaskRows
  <2> QED
    BY <1>2, <1>3, <2>1 DEF TaskGoto
<1>4. DropTask(t) => task' \in [Tasks -> TaskRows]
  BY <1>2, ResetTypes DEF DropTask
<1> HIDE DEF r
<1>5. CASE StartTask(t)
  <2>1. task' \in [Tasks -> TaskRows]
    BY <1>3, <1>4, <1>5 DEF StartTask, TaskSteps
  <2> QED
    BY <1>1, <1>2, <1>5, <2>1 DEF StartTask
<1>6. CASE SendMessage(t)
  <2>1. task' \in [Tasks -> TaskRows] /\ told' \in [Requests -> Nat]
    BY <1>2, <1>3, <1>6 DEF SendMessage, TaskSteps, r
  <2> QED
    BY <1>1, <1>2, <1>6, <2>1 DEF SendMessage
<1>7. CASE SendFails(t)
  <2>1. told' \in [Requests -> Nat] /\ faults' \in 0..MaxFaults
    BY <1>2, <1>7, FaultType DEF SendFails, r
  <2>2. CASE /\ task[t].tries < MaxRetries
             /\ task' = [task EXCEPT ![t] = [task[t] EXCEPT !.step = "queued",
                                                          !.tries = task[t].tries + 1]]
    <3>1. task[t].tries + 1 \in 0..MaxRetries
      BY <1>2, <2>2, BoundsAssumption DEF TaskRows
    <3>2. [task[t] EXCEPT !.step = "queued", !.tries = task[t].tries + 1] \in TaskRows
      BY <1>2, <3>1 DEF TaskRows, TaskSteps
    <3>3. task' \in [Tasks -> TaskRows]
      BY <1>2, <2>2, <3>2
    <3> QED
      BY <1>1, <1>2, <1>7, <2>1, <3>3 DEF SendFails
  <2>3. CASE DropTask(t)
    BY <1>1, <1>2, <1>4, <1>7, <2>1, <2>3 DEF SendFails
  <2> QED
    BY <1>7, <2>2, <2>3 DEF SendFails
<1>8. CASE MarkSent(t)
  <2>1. sent' \in [Requests -> BOOLEAN]
    BY <1>2, <1>8 DEF MarkSent, r
  <2> QED
    BY <1>1, <1>2, <1>4, <1>8, <2>1 DEF MarkSent
<1>9. CASE LoseTask(t)
  BY <1>1, <1>2, <1>4, <1>9, FaultType DEF LoseTask
<1> QED
  BY <1>5, <1>6, <1>7, <1>8, <1>9 DEF TaskNext, TaskStep

RequestNext(r) == Begin(r) \/ RequestStep(r) \/ ActivateError(r) \/ AbandonRequest(r)

\* Every step is one of a request, of the world, of an application of a payment,
\* of a reconciliation or of a notification task.
LEMMA Steps ==
  ASSUME Next
  PROVE  \/ \E r \in Requests : RequestNext(r) \/ World(r)
         \/ \E a \in Actors : JobNext(a)
         \/ \E m \in Runs : RunNext(m)
         \/ \E t \in Tasks : TaskNext(t)
BY DEF Next, RequestNext, World, JobNext, RunNext, TaskNext

LEMMA TypeStep == TypeOK /\ [Next]_vars => TypeOK'
<1> SUFFICES ASSUME TypeOK, [Next]_vars PROVE TypeOK'
  OBVIOUS
<1>1. CASE Next
  BY <1>1, Steps, RequestType, WorldType, JobType, RunType, TaskType DEF RequestNext
<1>2. CASE UNCHANGED vars
  BY <1>2 DEF TypeOK, vars, rowVars, clockVars, taskVars, worldVars
<1> QED
  BY <1>1, <1>2

\* Every variable keeps its type whatever the bounds are.
THEOREM TypeCorrect == Safety => []TypeOK
BY TypeInit, TypeStep, PTL DEF Safety

-------------------------------------------------------------------------------
(* Inv is inductive.                                                        *)

LEMMA InvInit == Init => Inv
<1> SUFFICES ASSUME Init PROVE Inv
  OBVIOUS
<1>1. OneLiveInvoice /\ GrantedExactlyOnce
  BY DEF Init, OneLiveInvoice, Live, GrantedExactlyOnce
<1>2. RequestInv /\ RowInv
  BY DEF Init, RequestInv, RowInv, Stored, BeforeReserve
<1>3. ReadInv
  BY DEF Init, ReadInv, NoJob, NoRun, NoTask
<1> QED
  BY <1>1, <1>2, <1>3, TypeInit DEF Inv

\* What no step takes back: a fulfilled intent, a stored invoice, and the final
\* word of the provider.
Kept == \A i \in Requests :
          /\ status[i] = "fulfilled" => status'[i] = "fulfilled"
          /\ hasTx[i] => hasTx'[i]
          /\ provider[i] \in {"paid", "expired"} => provider'[i] = provider[i]

\* While rows only move forwards, whatever was read stays true.
LEMMA ReadsKept ==
  ASSUME TypeOK, ReadInv, Kept, UNCHANGED <<job, run, task>>
  PROVE  ReadInv'
<1>1. /\ \A a \in Actors : job[a].tx \in Requests
      /\ \A m \in Runs : run[m].expired \subseteq Requests /\ run[m].queue \subseteq Requests
      /\ \A t \in Tasks : task[t].tx \in Requests
  BY DEF TypeOK
<1> QED
  BY <1>1 DEF ReadInv, Kept

\* What a request may do to rows: only its INSERT, which meets no live row of
\* its slot, makes one live.
RowMoves(r) ==
  \A i \in Requests :
    \/ status'[i] = status[i] /\ hasTx'[i] = hasTx[i]
    \/ i = r /\ status[i] = "none" /\ status'[i] = "creating" /\ hasTx'[i] = hasTx[i]
       /\ LiveIn(r) = {}
    \/ i = r /\ status[i] = "creating" /\ status'[i] = "active" /\ hasTx'[i]
    \/ status[i] = "creating" /\ status'[i] = "create_failed" /\ hasTx'[i] = hasTx[i]
    \/ status[i] = "active" /\ status'[i] = "local_expired" /\ hasTx'[i] = hasTx[i]

LEMMA StoreMoves ==
  ASSUME TypeOK, NEW r \in Requests, StoreInvoice(r) \/ UNCHANGED <<status, hasTx>>
  PROVE  RowMoves(r)
<1>1. CASE StoreInvoice(r) /\ status[r] = "creating"
  BY <1>1 DEF StoreInvoice, RowMoves, TypeOK
<1>2. CASE UNCHANGED <<status, hasTx>>
  BY <1>2 DEF RowMoves
<1> QED
  BY <1>1, <1>2 DEF StoreInvoice

LEMMA RequestMoves ==
  ASSUME TypeOK, RequestInv, NEW r \in Requests, RequestNext(r)
  PROVE  RowMoves(r)
<1>1. CASE UNCHANGED <<status, hasTx>>
  BY <1>1 DEF RowMoves
<1>2. CASE ExpireActive(r)
  BY <1>2 DEF ExpireActive, RowMoves, TypeOK
<1>3. CASE FailStaleCreating(r)
  BY <1>3 DEF FailStaleCreating, RowMoves, TypeOK
<1>4. CASE Reserve(r)
  <2>1. status[r] = "none"
    BY <1>4 DEF Reserve, RequestInv, BeforeReserve
  <2> QED
    BY <1>4, <2>1 DEF Reserve, RowMoves, TypeOK
<1>5. CASE Activate(r) \/ ActivateError(r)
  BY <1>5, StoreMoves DEF Activate, ActivateError
<1>6. CASE FailCreation(r)
  BY <1>6 DEF FailCreation, RowMoves, TypeOK
<1>7. CASE Begin(r) \/ Lookup(r) \/ ReadWinner(r) \/ CallProvider(r) \/ AbandonRequest(r)
  BY <1>1, <1>7 DEF Begin, Lookup, ReadWinner, CallProvider, AbandonRequest
<1> QED
  BY <1>2, <1>3, <1>4, <1>5, <1>6, <1>7 DEF RequestNext, RequestStep

\* A request leaves what payments and notifications need alone.
LEMMA RequestFrames ==
  ASSUME NEW r \in Requests, RequestNext(r)
  PROVE  UNCHANGED <<payment, grants, job, run, task, told, acked>>
BY DEF RequestNext, RequestStep, Begin, Lookup, ExpireActive, FailStaleCreating, Reserve,
       ReadWinner, CallProvider, Activate, ActivateError, FailCreation, AbandonRequest,
       RequestFrame, taskVars

\* The provider's side of an invoice only changes when it is created.
LEMMA RequestProvider ==
  ASSUME TypeOK, RequestInv, NEW r \in Requests, RequestNext(r)
  PROVE  \/ UNCHANGED provider
         \/ /\ provider[r] = "none" /\ status[r] # "none"
            /\ provider' = [provider EXCEPT ![r] = "open"]
<1>1. CASE CallProvider(r)
  <2>1. provider[r] = "none" /\ status[r] # "none"
    BY <1>1 DEF CallProvider, RequestInv
  <2> QED
    BY <1>1, <2>1 DEF CallProvider
<1> QED
  BY <1>1 DEF RequestNext, RequestStep, Begin, Lookup, ExpireActive, FailStaleCreating, Reserve,
              ReadWinner, Activate, ActivateError, FailCreation, AbandonRequest

\* Only stored invoices are shown.
LEMMA RequestShows ==
  ASSUME Inv, NEW r \in Requests, RequestNext(r)
  PROVE  \A i \in shown' : i \in Requests /\ hasTx'[i]
<1>1. TypeOK /\ RowInv /\ RequestInv /\ shown \subseteq Requests
  BY DEF Inv, TypeOK
<1>2. \A i \in shown : i \in Requests /\ hasTx'[i]
  BY <1>1, RequestMoves DEF RowInv, RowMoves
<1>3. \A i \in Reusable(r) : i \in Requests /\ hasTx'[i]
  BY <1>1, RequestMoves DEF RowInv, RowMoves, Reusable, SameSlot, Stored
<1>4. CASE Lookup(r) \/ ReadWinner(r)
  BY <1>2, <1>3, <1>4 DEF Lookup, ReadWinner
<1>5. CASE Activate(r)
  <2>1. status[r] = "creating" => hasTx'[r]
    BY <1>1, <1>5 DEF Activate, StoreInvoice, TypeOK
  <2> QED
    BY <1>2, <1>5, <2>1 DEF Activate
<1>6. CASE UNCHANGED shown
  BY <1>2, <1>6
<1> QED
  BY <1>4, <1>5, <1>6 DEF RequestNext, RequestStep, Begin, ExpireActive, FailStaleCreating,
     Reserve, CallProvider, ActivateError, FailCreation, AbandonRequest

\* Where a request goes: it starts once, its row exists once it is past the
\* INSERT, and it asks the provider once.
LEMMA RequestGoes ==
  ASSUME TypeOK, RequestInv, NEW r \in Requests, RequestNext(r)
  PROVE  /\ \A i \in Requests \ {r} : req'[i] = req[i]
         /\ \/ /\ req'[r].step \in {"lookup", "expire", "failStale", "reserve"}
               /\ status'[r] = "none" /\ provider' = provider
               /\ req[r].step \in BeforeReserve
            \/ /\ req'[r].step \in {"callProvider", "readWinner"}
               /\ req'[r].step = "callProvider" => status'[r] # "none"
               /\ req[r].step = "reserve" /\ provider' = provider
            \/ /\ req'[r].step \in {"activate", "failCreation"}
               /\ req[r].step \in {"callProvider", "activate"}
            \/ req'[r].step = "done"
<1>1. ASSUME NEW s, Goto(r, s)
      PROVE  req'[r].step = s /\ \A i \in Requests \ {r} : req'[i] = req[i]
  BY <1>1 DEF Goto, TypeOK
<1>2. CASE Begin(r)
  <2>1. req'[r].step = "lookup" /\ \A i \in Requests \ {r} : req'[i] = req[i]
    BY <1>2 DEF Begin, TypeOK
  <2> QED
    BY <1>2, <2>1 DEF Begin, RequestInv, BeforeReserve
<1>3. CASE Lookup(r)
  BY <1>1, <1>3 DEF Lookup, RequestInv, BeforeReserve
<1>4. CASE ExpireActive(r)
  BY <1>1, <1>4 DEF ExpireActive, RequestInv, BeforeReserve
<1>5. CASE FailStaleCreating(r)
  BY <1>1, <1>5 DEF FailStaleCreating, RequestInv, BeforeReserve
<1>6. CASE Reserve(r)
  BY <1>1, <1>6 DEF Reserve, TypeOK
<1>7. CASE CallProvider(r)
  BY <1>1, <1>7 DEF CallProvider
<1>8. CASE ActivateError(r)
  BY <1>1, <1>8 DEF ActivateError
<1>9. CASE ReadWinner(r) \/ Activate(r) \/ FailCreation(r) \/ AbandonRequest(r)
  BY <1>1, <1>9 DEF ReadWinner, Activate, FailCreation, AbandonRequest
<1> QED
  BY <1>2, <1>3, <1>4, <1>5, <1>6, <1>7, <1>8, <1>9 DEF RequestNext, RequestStep

LEMMA RequestKept ==
  ASSUME Inv, NEW r \in Requests, RequestNext(r)
  PROVE  Kept
<1>1. RowMoves(r)
  BY RequestMoves DEF Inv
<1>2. \A i \in Requests : provider[i] \in {"paid", "expired"} => provider'[i] = provider[i]
  BY RequestProvider DEF Inv, TypeOK
<1> QED
  BY <1>1, <1>2 DEF RowMoves, Kept

LEMMA RequestInvariant ==
  ASSUME Inv, NEW r \in Requests, RequestNext(r)
  PROVE  Inv'
<1>1. TypeOK /\ OneLiveInvoice /\ GrantedExactlyOnce /\ RequestInv /\ RowInv /\ ReadInv
  BY DEF Inv
<1>2. TypeOK'
  BY <1>1, RequestType DEF RequestNext
<1>3. RowMoves(r) /\ UNCHANGED <<payment, grants, job, run, task, acked>>
  BY <1>1, RequestMoves, RequestFrames
<1>4. OneLiveInvoice'
  <2> SUFFICES ASSUME NEW i \in Requests, NEW j \in Requests, SlotOf[i] = SlotOf[j],
                      status'[i] \in Live, status'[j] \in Live, i # j
               PROVE  FALSE
    BY DEF OneLiveInvoice
  <2>1. CASE LiveIn(r) = {} /\ (i = r \/ j = r)
    <3>1. \A k \in Requests : SlotOf[k] = SlotOf[r] => status[k] \notin Live
      BY <2>1 DEF LiveIn, SameSlot
    <3>2. status[i] \notin Live /\ status[j] \notin Live
      BY <2>1, <3>1
    <3> QED
      BY <1>3, <2>1, <3>2 DEF RowMoves, Live
  <2>2. CASE ~(LiveIn(r) = {} /\ (i = r \/ j = r))
    <3>1. status[i] \in Live /\ status[j] \in Live
      BY <1>3, <2>2 DEF RowMoves, Live
    <3> QED
      BY <1>1, <3>1 DEF OneLiveInvoice
  <2> QED
    BY <2>1, <2>2
<1>5. \A i \in Requests : provider[i] \in {"paid", "expired"} => provider'[i] = provider[i]
  BY <1>1, RequestKept DEF Kept
<1>6. GrantedExactlyOnce'
  BY <1>1, <1>3, <1>5 DEF GrantedExactlyOnce, RowMoves
<1>7. RowInv'
  <2>1. \A i \in Requests : /\ hasTx'[i] <=> status'[i] \in Stored
                            /\ status'[i] # "processing"
                            /\ status'[i] = "provider_expired" => provider'[i] = "expired"
    BY <1>1, <1>3, <1>5 DEF RowInv, RowMoves, Stored
  <2>2. \A i \in acked' : status'[i] = "fulfilled"
    <3>1. acked \subseteq Requests
      BY <1>1 DEF TypeOK
    <3> QED
      BY <1>1, <1>3, <3>1 DEF RowInv, RowMoves
  <2> QED
    BY <2>1, <2>2, RequestShows DEF RowInv
<1>8. RequestInv'
  <2>1. \A i \in Requests : status[i] # "none" => status'[i] # "none"
    BY <1>3 DEF RowMoves
  <2>2. ASSUME NEW i \in Requests \ {r}
        PROVE  /\ req'[i] = req[i] /\ provider'[i] = provider[i]
               /\ status[i] = "none" => status'[i] = "none"
    <3>1. req'[i] = req[i]
      BY <1>1, RequestGoes
    <3>2. provider'[i] = provider[i]
      BY <1>1, RequestProvider DEF TypeOK
    <3>3. status[i] = "none" => status'[i] = "none"
      BY <1>3 DEF RowMoves
    <3> QED
      BY <3>1, <3>2, <3>3
  <2>3. provider'[r] # "none" => status'[r] # "none"
    BY <1>1, <2>1, RequestProvider DEF TypeOK, RequestInv
  <2>4. /\ req'[r].step \in BeforeReserve => status'[r] = "none"
        /\ req'[r].step \in {"callProvider", "activate", "failCreation"} => status'[r] # "none"
        /\ provider'[r] # "none" => req'[r].step \in {"activate", "failCreation", "done"}
    <3>1. CASE /\ req'[r].step \in {"lookup", "expire", "failStale", "reserve"}
               /\ status'[r] = "none" /\ provider' = provider
               /\ req[r].step \in BeforeReserve
      BY <1>1, <3>1 DEF RequestInv, BeforeReserve
    <3>2. CASE /\ req'[r].step \in {"callProvider", "readWinner"}
               /\ req'[r].step = "callProvider" => status'[r] # "none"
               /\ req[r].step = "reserve" /\ provider' = provider
      BY <1>1, <3>2 DEF RequestInv, BeforeReserve
    <3>3. CASE /\ req'[r].step \in {"activate", "failCreation"}
               /\ req[r].step \in {"callProvider", "activate"}
      BY <1>1, <2>1, <3>3 DEF RequestInv, BeforeReserve
    <3>4. CASE req'[r].step = "done"
      BY <3>4 DEF BeforeReserve
    <3> QED
      BY <1>1, <3>1, <3>2, <3>3, <3>4, RequestGoes
  <2> QED
    BY <1>1, <2>1, <2>2, <2>3, <2>4 DEF RequestInv
<1>9. ReadInv'
  BY <1>1, <1>3, RequestKept, ReadsKept
<1> QED
  BY <1>2, <1>4, <1>6, <1>7, <1>8, <1>9 DEF Inv

\* The clock and the provider leave the rows alone; a webhook is of a paid
\* invoice that is stored.
LEMMA WorldInvariant ==
  ASSUME Inv, NEW r \in Requests, World(r)
  PROVE  Inv'
<1>1. TypeOK /\ OneLiveInvoice /\ GrantedExactlyOnce /\ RequestInv /\ RowInv /\ ReadInv
  BY DEF Inv
<1>2. TypeOK'
  BY <1>1, WorldType
<1>3. UNCHANGED <<status, hasTx, payment, grants, req, run, task, shown, acked>>
  BY DEF World, Lapse, GrowStale, Pay, ProviderExpire, Webhook, WorldFrame, rowVars, taskVars
<1>4. \A i \in Requests :
        \/ provider'[i] = provider[i]
        \/ provider[i] = "open" /\ provider'[i] \in {"paid", "expired"}
  BY <1>1 DEF World, Lapse, GrowStale, Pay, ProviderExpire, Webhook, TypeOK
<1>5. OneLiveInvoice' /\ GrantedExactlyOnce' /\ RequestInv' /\ RowInv'
  <2>1. OneLiveInvoice' /\ GrantedExactlyOnce'
    BY <1>1, <1>3, <1>4 DEF OneLiveInvoice, GrantedExactlyOnce
  <2>2. RequestInv' /\ RowInv'
    BY <1>1, <1>3, <1>4 DEF RequestInv, RowInv
  <2> QED
    BY <2>1, <2>2
<1>6. ReadInv'
  <2>1. CASE UNCHANGED job
    <3>1. Kept
      BY <1>3, <1>4 DEF Kept
    <3> QED
      BY <1>1, <1>3, <2>1, <3>1, ReadsKept
  <2>2. ASSUME NEW w \in Workers, Webhook(w, r)
        PROVE  ReadInv'
    <3>1. /\ job' = [job EXCEPT ![w] = [step |-> "apply", tx |-> r]]
          /\ provider' = provider /\ provider[r] = "paid" /\ hasTx[r]
      BY <2>2 DEF Webhook, Validated
    <3>2. /\ job'[w] = [step |-> "apply", tx |-> r]
          /\ \A a \in Actors \ {w} : job'[a] = job[a]
      BY <1>1, <3>1 DEF TypeOK, Actors
    <3> QED
      BY <1>1, <1>3, <3>1, <3>2 DEF ReadInv
  <2> QED
    BY <2>1, <2>2 DEF World, Lapse, GrowStale, Pay, ProviderExpire
<1> QED
  BY <1>2, <1>5, <1>6 DEF Inv

\* What applying a payment may do to the rows.
LEMMA JobMoves ==
  ASSUME Inv, NEW a \in Actors, JobNext(a)
  PROVE  /\ UNCHANGED <<hasTx, provider, req, shown, told>>
         /\ \/ UNCHANGED <<status, payment, grants>>
            \/ /\ Fulfil(a) /\ status[job[a].tx] \in Claimable /\ ~payment[job[a].tx]
               /\ status' = [status EXCEPT ![job[a].tx] = "fulfilled"]
               /\ payment' = [payment EXCEPT ![job[a].tx] = TRUE]
               /\ grants' = [grants EXCEPT ![job[a].tx] = @ + 1]
            \/ /\ ~Fulfil(a) /\ status[job[a].tx] \in Claimable
               /\ status' = [status EXCEPT ![job[a].tx] = "retryable"]
               /\ UNCHANGED <<payment, grants>>
<1>1. UNCHANGED <<hasTx, provider, req, shown, told>>
  BY DEF JobNext, JobStep, Fulfil, FulfilRollback, ApplyAgain, MarkRetryable, Publish,
         PublishFails, AbandonJob, JobFrame
<1>2. CASE Fulfil(a)
  BY <1>1, <1>2 DEF Fulfil, CanClaim
<1>3. CASE MarkRetryable(a)
  <2>1. ~Fulfil(a)
    BY <1>3 DEF MarkRetryable, Fulfil
  <2> QED
    BY <1>1, <1>3, <2>1 DEF MarkRetryable
<1>4. CASE FulfilRollback(a) \/ ApplyAgain(a) \/ Publish(a) \/ PublishFails(a) \/ AbandonJob(a)
  BY <1>1, <1>4 DEF FulfilRollback, ApplyAgain, Publish, PublishFails, AbandonJob
<1> QED
  BY <1>2, <1>3, <1>4 DEF JobNext, JobStep

\* An application goes on with what it has, or ends; it marks only after it
\* applied and publishes only after it fulfilled.
LEMMA JobGoes ==
  ASSUME Inv, NEW a \in Actors, JobNext(a)
  PROVE  /\ \A b \in Actors \ {a} : job'[b] = job[b]
         /\ job[a].step # "idle"
         /\ \/ job'[a].step = "idle"
            \/ job'[a].step = "mark" /\ job'[a].tx = job[a].tx
            \/ job'[a].step = "publish" /\ job'[a].tx = job[a].tx /\ Fulfil(a)
<1>1. TypeOK /\ job \in [Actors -> Jobs] /\ job[a] \in Jobs
  BY DEF Inv, TypeOK, Jobs
<1>2. ASSUME NEW s \in {"mark", "publish"}, JobGoto(a, s)
      PROVE  /\ job'[a].step = s /\ job'[a].tx = job[a].tx
             /\ \A b \in Actors \ {a} : job'[b] = job[b]
  <2>1. job' = [job EXCEPT ![a] = [job[a] EXCEPT !.step = s]]
    BY <1>2 DEF JobGoto
  <2> QED
    BY <1>1, <2>1 DEF Jobs
<1>3. ASSUME Return(a, TRUE) \/ Return(a, FALSE) \/ ReturnRetryable(a) \/ Abort(a)
      PROVE  job'[a].step = "idle" /\ \A b \in Actors \ {a} : job'[b] = job[b]
  BY <1>1, <1>3 DEF Return, ReturnRetryable, Abort, NoJob
<1>4. CASE Fulfil(a)
  BY <1>2, <1>4 DEF Fulfil
<1>5. CASE FulfilRollback(a)
  BY <1>2, <1>3, <1>5 DEF FulfilRollback
<1>6. CASE ApplyAgain(a)
  BY <1>2, <1>3, <1>6 DEF ApplyAgain
<1>7. CASE MarkRetryable(a) \/ Publish(a) \/ PublishFails(a)
  BY <1>3, <1>7 DEF MarkRetryable, Publish, PublishFails
<1>8. CASE AbandonJob(a)
  BY <1>3, <1>8 DEF AbandonJob
<1> QED
  BY <1>4, <1>5, <1>6, <1>7, <1>8 DEF JobNext, JobStep

\* Only a fulfilled purchase is acknowledged or queued for notification.
LEMMA JobTells ==
  ASSUME Inv, NEW a \in Actors, JobNext(a)
  PROVE  /\ \/ acked' = acked
            \/ acked' = acked \union {job[a].tx} /\ status[job[a].tx] = "fulfilled"
         /\ \/ task' = task
            \/ Enqueue(job[a].tx) /\ status[job[a].tx] = "fulfilled"
<1>1. job[a].step = "publish" => status[job[a].tx] = "fulfilled"
  BY DEF Inv, ReadInv
<1>2. CASE Fulfil(a) \/ FulfilRollback(a) \/ MarkRetryable(a) \/ AbandonJob(a)
  BY <1>2 DEF Fulfil, FulfilRollback, MarkRetryable, AbandonJob, Abort, ReturnRetryable
<1>3. CASE ApplyAgain(a)
  BY <1>3 DEF ApplyAgain, Return
<1>4. CASE Publish(a) \/ PublishFails(a)
  BY <1>1, <1>4 DEF Publish, PublishFails, Return, Abort
<1> QED
  BY <1>2, <1>3, <1>4 DEF JobNext, JobStep

\* What a run knows is kept, or forgotten with the run.
LEMMA JobRuns ==
  ASSUME Inv, NEW a \in Actors, JobNext(a)
  PROVE  \A m \in Runs : /\ run'[m].expired \subseteq run[m].expired
                         /\ run'[m].queue \subseteq run[m].queue
<1>1. run \in [Runs -> RunRows]
  BY DEF Inv, TypeOK, RunRows
<1>2. CASE run' = run
  BY <1>2
<1>3. CASE Return(a, TRUE) \/ Return(a, FALSE)
  BY <1>1, <1>3 DEF Return, RunRows
<1>4. CASE Abort(a)
  BY <1>1, <1>4 DEF Abort, NoRun
<1> QED
  BY <1>2, <1>3, <1>4 DEF JobNext, JobStep, Fulfil, FulfilRollback, ApplyAgain, MarkRetryable,
     Publish, PublishFails, AbandonJob, ReturnRetryable

\* A queued notification is of its purchase.
LEMMA EnqueueReads ==
  ASSUME TypeOK, NEW r \in Requests, Enqueue(r) \/ task' = task
  PROVE  \A t \in Tasks : task'[t] = task[t] \/ (task'[t].tx = r /\ Enqueue(r))
BY DEF Enqueue, TypeOK

LEMMA JobInvariant ==
  ASSUME Inv, NEW a \in Actors, JobNext(a)
  PROVE  Inv'
<1> DEFINE r == job[a].tx
<1>1. TypeOK /\ OneLiveInvoice /\ GrantedExactlyOnce /\ RequestInv /\ RowInv /\ ReadInv
  BY DEF Inv
<1>2. TypeOK'
  BY <1>1, JobType
<1>3. UNCHANGED <<hasTx, provider, req, shown>>
  BY JobMoves
<1>4. r \in Requests /\ provider[r] = "paid" /\ hasTx[r]
  BY <1>1, JobGoes DEF TypeOK, ReadInv
<1>5. \A i \in Requests :
        \/ status'[i] = status[i] /\ payment'[i] = payment[i] /\ grants'[i] = grants[i]
        \/ /\ i = r /\ status[i] \in Claimable /\ status'[i] = "fulfilled"
           /\ payment'[i] /\ grants'[i] = grants[i] + 1
        \/ /\ i = r /\ status[i] \in Claimable /\ status'[i] = "retryable"
           /\ payment'[i] = payment[i] /\ grants'[i] = grants[i]
  BY <1>1, <1>4, JobMoves DEF TypeOK
<1>6. Fulfil(a) => status'[r] = "fulfilled"
  BY <1>1, <1>4 DEF Fulfil, TypeOK
<1> HIDE DEF r
<1>7. Kept
  BY <1>3, <1>5 DEF Kept, Claimable
<1>8. OneLiveInvoice'
  <2>1. \A i \in Requests : status'[i] \in Live => status[i] \in Live
    BY <1>5 DEF Live
  <2> QED
    BY <1>1, <2>1 DEF OneLiveInvoice
<1>9. GrantedExactlyOnce'
  <2> SUFFICES ASSUME NEW i \in Requests
               PROVE  /\ grants'[i] = IF status'[i] = "fulfilled" THEN 1 ELSE 0
                      /\ payment'[i] <=> status'[i] = "fulfilled"
                      /\ status'[i] = "fulfilled" => provider'[i] = "paid"
    BY DEF GrantedExactlyOnce
  <2>1. /\ grants[i] = IF status[i] = "fulfilled" THEN 1 ELSE 0
        /\ payment[i] <=> status[i] = "fulfilled"
        /\ status[i] = "fulfilled" => provider[i] = "paid"
    BY <1>1 DEF GrantedExactlyOnce
  <2> QED
    BY <1>3, <1>4, <1>5, <2>1 DEF Claimable
<1>10. RequestInv'
  <2>1. \A i \in Requests : status'[i] = "none" <=> status[i] = "none"
    BY <1>5 DEF Claimable
  <2> QED
    BY <1>1, <1>3, <2>1 DEF RequestInv
<1>11. RowInv'
  <2>1. ASSUME NEW i \in Requests
        PROVE  /\ hasTx'[i] <=> status'[i] \in Stored
               /\ status'[i] # "processing"
               /\ status'[i] = "provider_expired" => provider'[i] = "expired"
    <3>1. /\ hasTx[i] <=> status[i] \in Stored
          /\ status[i] # "processing"
          /\ status[i] = "provider_expired" => provider[i] = "expired"
      BY <1>1 DEF RowInv
    <3>2. \/ status'[i] = status[i]
          \/ status[i] \in Claimable /\ status'[i] \in {"fulfilled", "retryable"}
      BY <1>5
    <3>3. /\ status'[i] \in Stored <=> status[i] \in Stored
          /\ status'[i] = "processing" => status[i] = "processing"
          /\ status'[i] = "provider_expired" => status[i] = "provider_expired"
      BY <3>2 DEF Stored, Claimable
    <3> QED
      BY <1>3, <3>1, <3>3
  <2>2. \A i \in acked' : status'[i] = "fulfilled"
    <3>1. \A i \in acked' : i \in Requests /\ status[i] = "fulfilled"
      <4>1. acked \subseteq Requests /\ \A i \in acked : status[i] = "fulfilled"
        BY <1>1 DEF TypeOK, RowInv
      <4> QED
        BY <1>4, <4>1, JobTells DEF r
    <3> QED
      BY <1>7, <3>1 DEF Kept
  <2> QED
    BY <1>1, <1>3, <2>1, <2>2 DEF RowInv
<1>12. ReadInv'
  <2>1. \A b \in Actors : /\ job'[b].step # "idle" =>
                               provider'[job'[b].tx] = "paid" /\ hasTx'[job'[b].tx]
                          /\ job'[b].step = "publish" => status'[job'[b].tx] = "fulfilled"
    <3>1. /\ job'[a].step # "idle" => provider'[job'[a].tx] = "paid" /\ hasTx'[job'[a].tx]
          /\ job'[a].step = "publish" => status'[job'[a].tx] = "fulfilled"
      <4>1. CASE job'[a].step # "idle"
        <5>1. job'[a].tx = r /\ (job'[a].step = "publish" => status'[r] = "fulfilled")
          BY <1>6, <4>1, JobGoes DEF r
        <5> QED
          BY <1>3, <1>4, <5>1
      <4>2. CASE job'[a].step = "idle"
        BY <4>2
      <4> QED
        BY <4>1, <4>2
    <3>2. ASSUME NEW b \in Actors \ {a}
          PROVE  /\ job'[b].step # "idle" => provider'[job'[b].tx] = "paid" /\ hasTx'[job'[b].tx]
                 /\ job'[b].step = "publish" => status'[job'[b].tx] = "fulfilled"
      <4>1. job'[b] = job[b] /\ job[b].tx \in Requests
        BY <1>1, JobGoes DEF TypeOK
      <4> QED
        BY <1>1, <1>3, <1>7, <4>1 DEF ReadInv, Kept
    <3> QED
      BY <3>1, <3>2
  <2>2. \A m \in Runs : /\ \A i \in run'[m].expired : provider'[i] = "expired"
                        /\ \A i \in run'[m].queue : status'[i] = "fulfilled"
    <3>1. \A m \in Runs : run[m].queue \subseteq Requests
      BY <1>1 DEF TypeOK
    <3> QED
      BY <1>1, <1>3, <1>7, <3>1, JobRuns DEF ReadInv, Kept
  <2>3. \A t \in Tasks : task'[t].step # "none" => status'[task'[t].tx] = "fulfilled"
    <3>1. \A t \in Tasks : task'[t] = task[t] \/ (task'[t].tx = r /\ status[r] = "fulfilled")
      BY <1>1, <1>4, JobTells, EnqueueReads DEF r
    <3>2. \A t \in Tasks : task[t].tx \in Requests
      BY <1>1 DEF TypeOK
    <3> QED
      BY <1>1, <1>4, <1>7, <3>1, <3>2 DEF ReadInv, Kept
  <2> QED
    BY <2>1, <2>2, <2>3 DEF ReadInv
<1> QED
  BY <1>2, <1>8, <1>9, <1>10, <1>11, <1>12 DEF Inv

\* A run only gives up rows whose invoice expired at the provider.
LEMMA RunMoves ==
  ASSUME Inv, NEW m \in Runs, RunNext(m)
  PROVE  /\ UNCHANGED <<hasTx, payment, grants, provider, req, shown, acked, told>>
         /\ \/ UNCHANGED status
            \/ \E r \in Requests : /\ status[r] \in {"active", "local_expired"}
                                   /\ provider[r] = "expired"
                                   /\ status' = [status EXCEPT ![r] = "provider_expired"]
<1>1. UNCHANGED <<hasTx, payment, grants, provider, req, shown, acked, told>>
  BY DEF RunNext, RunStep, StartRun, Fetch, FetchFails, ApplyPaid, MarkExpired, MarkExpiredFails,
         ListUnnotified, Requeue, RequeueFails, AbandonRun, EndRun, RunFrame, worldVars
<1>2. CASE MarkExpired(m)
  <2>1. PICK r \in run[m].expired :
          status' = IF status[r] \in {"active", "local_expired"}
                    THEN [status EXCEPT ![r] = "provider_expired"] ELSE status
    BY <1>2 DEF MarkExpired
  <2>2. r \in Requests /\ provider[r] = "expired"
    BY DEF Inv, TypeOK, ReadInv
  <2> QED
    BY <1>1, <2>1, <2>2
<1>3. CASE ~MarkExpired(m)
  <2>1. UNCHANGED status
    BY <1>3 DEF RunNext, RunStep, StartRun, Fetch, FetchFails, ApplyPaid, MarkExpiredFails,
                ListUnnotified, Requeue, RequeueFails, AbandonRun, EndRun
  <2> QED
    BY <1>1, <2>1
<1> QED
  BY <1>2, <1>3

\* A run applies paid invoices that are stored, expires what the provider said
\* was expired, and queues what is fulfilled.
LEMMA RunReads ==
  ASSUME Inv, NEW m \in Runs, RunNext(m)
  PROVE  /\ \A n \in Runs \ {m} : run'[n] = run[n]
         /\ \A r \in run'[m].expired : r \in run[m].expired \/ provider[r] = "expired"
         /\ \A r \in run'[m].queue : r \in run[m].queue \/ status[r] = "fulfilled"
         /\ \A a \in Actors : \/ job'[a] = job[a]
                              \/ provider[job'[a].tx] = "paid" /\ hasTx[job'[a].tx]
                                 /\ job'[a].step = "apply"
         /\ \/ task' = task
            \/ \E r \in run[m].queue : Enqueue(r)
<1>1. /\ run \in [Runs -> RunRows] /\ run[m] \in RunRows /\ m \in Actors
      /\ job \in [Actors -> Jobs]
  BY DEF Inv, TypeOK, RunRows, Actors, Jobs
<1>2. \A n, S : FirstRows(n, S) \subseteq S
  BY DEF FirstRows
<1>3. CASE StartRun(m)
  <2>1. PICK s : run' = [run EXCEPT ![m] = [NoRun EXCEPT !.step = s,
                                              !.batch = FirstRows(BatchSize, Unfinished)]]
    BY <1>3 DEF StartRun
  <2>2. run'[m].expired = {} /\ run'[m].queue = {} /\ \A n \in Runs \ {m} : run'[n] = run[n]
    BY <1>1, <2>1 DEF NoRun
  <2> QED
    BY <1>3, <2>2 DEF StartRun
<1>4. CASE Fetch(m)
  <2>1. run' = [run EXCEPT ![m] = [run[m] EXCEPT !.step = "loop",
                  !.paid = {r \in run[m].batch : provider[r] = "paid"},
                  !.expired = {r \in run[m].batch : provider[r] = "expired"}]]
    BY <1>4 DEF Fetch
  <2>2. /\ run'[m].expired = {r \in run[m].batch : provider[r] = "expired"}
        /\ run'[m].queue = run[m].queue /\ \A n \in Runs \ {m} : run'[n] = run[n]
    BY <1>1, <2>1 DEF RunRows
  <2> QED
    BY <1>4, <2>2 DEF Fetch
<1>5. CASE run' = [run EXCEPT ![m] = NoRun] /\ job' = job
           /\ (task' = task \/ \E r \in run[m].queue : Enqueue(r))
  <2>1. run'[m].expired = {} /\ run'[m].queue = {} /\ \A n \in Runs \ {m} : run'[n] = run[n]
    BY <1>1, <1>5 DEF NoRun
  <2> QED
    BY <1>5, <2>1
<1>6. CASE ApplyPaid(m)
  <2>1. PICK r \in run[m].paid :
          /\ run' = [run EXCEPT ![m] = [run[m] EXCEPT !.paid = @ \ {r}]]
          /\ job' = IF Validated(r) THEN [job EXCEPT ![m] = [step |-> "apply", tx |-> r]] ELSE job
    BY <1>6 DEF ApplyPaid
  <2>2. /\ run'[m].expired = run[m].expired /\ run'[m].queue = run[m].queue
        /\ \A n \in Runs \ {m} : run'[n] = run[n]
    BY <1>1, <2>1 DEF RunRows
  <2>3. \A a \in Actors : \/ job'[a] = job[a]
                          \/ provider[job'[a].tx] = "paid" /\ hasTx[job'[a].tx]
                            /\ job'[a].step = "apply"
    <3>1. CASE job' = job
      BY <3>1
    <3>2. CASE job' = [job EXCEPT ![m] = [step |-> "apply", tx |-> r]] /\ Validated(r)
      <4>1. job'[m].tx = r /\ job'[m].step = "apply"
        BY <1>1, <3>2
      <4>2. \A a \in Actors \ {m} : job'[a] = job[a]
        BY <1>1, <3>2
      <4> QED
        BY <3>2, <4>1, <4>2 DEF Validated
    <3> QED
      BY <2>1, <3>1, <3>2
  <2>4. task' = task
    BY <1>6 DEF ApplyPaid
  <2> QED
    BY <2>2, <2>3, <2>4
<1>7. CASE MarkExpired(m) \/ MarkExpiredFails(m)
  <2>1. PICK r \in run[m].expired : run' = [run EXCEPT ![m] = [run[m] EXCEPT !.expired = @ \ {r}]]
    BY <1>7 DEF MarkExpired, MarkExpiredFails
  <2>2. /\ run'[m].expired \subseteq run[m].expired /\ run'[m].queue = run[m].queue
        /\ \A n \in Runs \ {m} : run'[n] = run[n]
    BY <1>1, <2>1 DEF RunRows
  <2>3. job' = job /\ task' = task
    BY <1>7 DEF MarkExpired, MarkExpiredFails
  <2> QED
    BY <2>2, <2>3
<1>8. CASE ListUnnotified(m)
  <2> DEFINE queue == FirstRows(BatchSize, Unnotified) \ run[m].notified
  <2>1. run' = [run EXCEPT ![m] = [NoRun EXCEPT !.step = "notify", !.queue = queue]]
    BY <1>8 DEF ListUnnotified
  <2>2. \A r \in queue : status[r] = "fulfilled"
    BY <1>2 DEF Unnotified
  <2> HIDE DEF queue
  <2>3. run'[m].expired = {} /\ run'[m].queue = queue /\ \A n \in Runs \ {m} : run'[n] = run[n]
    BY <1>1, <2>1 DEF NoRun
  <2>4. job' = job /\ task' = task
    BY <1>8 DEF ListUnnotified
  <2> QED
    BY <2>2, <2>3, <2>4
<1>9. CASE Requeue(m)
  <2>1. PICK r \in FirstRows(1, run[m].queue) :
          Enqueue(r) /\ run' = [run EXCEPT ![m] = [run[m] EXCEPT !.queue = @ \ {r}]]
    BY <1>9 DEF Requeue
  <2>2. /\ run'[m].expired = run[m].expired /\ run'[m].queue \subseteq run[m].queue
        /\ \A n \in Runs \ {m} : run'[n] = run[n]
    BY <1>1, <2>1 DEF RunRows
  <2>3. job' = job /\ \E i \in run[m].queue : Enqueue(i)
    BY <1>2, <1>9, <2>1 DEF Requeue
  <2> QED
    BY <2>2, <2>3
<1>10. CASE FetchFails(m) \/ EndRun(m) \/ AbandonRun(m)
  BY <1>5, <1>10 DEF FetchFails, EndRun, AbandonRun
<1>11. CASE RequeueFails(m)
  BY <1>2, <1>5, <1>11 DEF RequeueFails
<1> QED
  BY <1>3, <1>4, <1>6, <1>7, <1>8, <1>9, <1>10, <1>11 DEF RunNext, RunStep

LEMMA RunInvariant ==
  ASSUME Inv, NEW m \in Runs, RunNext(m)
  PROVE  Inv'
<1>1. TypeOK /\ OneLiveInvoice /\ GrantedExactlyOnce /\ RequestInv /\ RowInv /\ ReadInv
  BY DEF Inv
<1>2. TypeOK'
  BY <1>1, RunType
<1>3. UNCHANGED <<hasTx, payment, grants, provider, req, shown, acked>>
  BY RunMoves
<1>4. \A i \in Requests :
        \/ status'[i] = status[i]
        \/ /\ status[i] \in {"active", "local_expired"} /\ status'[i] = "provider_expired"
           /\ provider[i] = "expired"
  BY <1>1, RunMoves DEF TypeOK
<1>5. Kept
  BY <1>3, <1>4 DEF Kept
<1>6. OneLiveInvoice' /\ GrantedExactlyOnce'
  BY <1>1, <1>3, <1>4 DEF OneLiveInvoice, Live, GrantedExactlyOnce
<1>7. RequestInv' /\ RowInv'
  <2>1. RequestInv'
    BY <1>1, <1>3, <1>4 DEF RequestInv
  <2>2. acked \subseteq Requests
    BY <1>1 DEF TypeOK
  <2>3. RowInv'
    BY <1>1, <1>3, <1>4, <2>2 DEF RowInv, Stored
  <2> QED
    BY <2>1, <2>3
<1>8. /\ \A n \in Runs : run[n].expired \subseteq Requests /\ run[n].queue \subseteq Requests
      /\ \A a \in Actors : job[a].tx \in Requests /\ job'[a].tx \in Requests
      /\ \A t \in Tasks : task[t].tx \in Requests
  <2>1. \A n \in Runs : run[n].expired \subseteq Requests /\ run[n].queue \subseteq Requests
    BY <1>1 DEF TypeOK
  <2>2. \A a \in Actors : job[a].tx \in Requests /\ job'[a].tx \in Requests
    BY <1>1, <1>2 DEF TypeOK
  <2>3. \A t \in Tasks : task[t].tx \in Requests
    BY <1>1 DEF TypeOK
  <2> QED
    BY <2>1, <2>2, <2>3
<1>9. ReadInv'
  <2>1. \A a \in Actors : /\ job'[a].step # "idle" =>
                               provider'[job'[a].tx] = "paid" /\ hasTx'[job'[a].tx]
                          /\ job'[a].step = "publish" => status'[job'[a].tx] = "fulfilled"
    <3> SUFFICES ASSUME NEW a \in Actors
                 PROVE  /\ job'[a].step # "idle" =>
                             provider'[job'[a].tx] = "paid" /\ hasTx'[job'[a].tx]
                        /\ job'[a].step = "publish" => status'[job'[a].tx] = "fulfilled"
      OBVIOUS
    <3>1. CASE job'[a] = job[a]
      BY <1>1, <1>3, <1>5, <1>8, <3>1 DEF ReadInv, Kept
    <3>2. CASE provider[job'[a].tx] = "paid" /\ hasTx[job'[a].tx] /\ job'[a].step = "apply"
      BY <1>3, <3>2
    <3> QED
      BY <3>1, <3>2, RunReads
  <2>2. \A n \in Runs : /\ \A r \in run'[n].expired : provider'[r] = "expired"
                        /\ \A r \in run'[n].queue : status'[r] = "fulfilled"
    <3> SUFFICES ASSUME NEW n \in Runs
                 PROVE  /\ \A r \in run'[n].expired : provider'[r] = "expired"
                        /\ \A r \in run'[n].queue : status'[r] = "fulfilled"
      OBVIOUS
    <3>1. \A r \in run'[n].expired : provider[r] = "expired"
      BY <1>1, RunReads DEF ReadInv
    <3>2. run'[n].queue \subseteq Requests
      BY <1>2 DEF TypeOK
    <3>3. \A r \in run'[n].queue : status[r] = "fulfilled"
      BY <1>1, RunReads DEF ReadInv
    <3> QED
      BY <1>3, <1>5, <3>1, <3>2, <3>3 DEF Kept
  <2>3. \A t \in Tasks : task'[t].step # "none" => status'[task'[t].tx] = "fulfilled"
    <3>1. \A t \in Tasks : task'[t] = task[t] \/ task'[t].tx \in run[m].queue
      BY <1>1, <1>8, RunReads, EnqueueReads
    <3>2. \A r \in run[m].queue : status'[r] = "fulfilled"
      BY <1>1, <1>5, <1>8 DEF ReadInv, Kept
    <3> QED
      BY <1>1, <1>5, <1>8, <3>1, <3>2 DEF ReadInv, Kept
  <2> QED
    BY <2>1, <2>2, <2>3 DEF ReadInv
<1> QED
  BY <1>2, <1>6, <1>7, <1>9 DEF Inv

\* A notification is sent only of a fulfilled purchase.
LEMMA TaskSends ==
  ASSUME Inv, NEW t \in Tasks, TaskNext(t)
  PROVE  /\ UNCHANGED <<status, hasTx, payment, grants, provider, req, job, run, shown, acked>>
         /\ \/ told' = told
            \/ /\ status[task[t].tx] = "fulfilled"
               /\ told' = [told EXCEPT ![task[t].tx] = @ + 1]
<1>1. UNCHANGED <<status, hasTx, payment, grants, provider, req, job, run, shown, acked>>
  BY DEF TaskNext, TaskStep, StartTask, SendMessage, SendFails, MarkSent, LoseTask, TaskFrame,
         worldVars
<1>2. \/ told' = told
      \/ task[t].step = "send" /\ told' = [told EXCEPT ![task[t].tx] = @ + 1]
  BY DEF TaskNext, TaskStep, StartTask, SendMessage, SendFails, MarkSent, LoseTask
<1>3. task[t].step = "send" => status[task[t].tx] = "fulfilled"
  BY DEF Inv, ReadInv
<1> QED
  BY <1>1, <1>2, <1>3

LEMMA TaskInvariant ==
  ASSUME Inv, NEW t \in Tasks, TaskNext(t)
  PROVE  Inv'
<1>1. TypeOK /\ OneLiveInvoice /\ GrantedExactlyOnce /\ RequestInv /\ RowInv /\ ReadInv
  BY DEF Inv
<1>2. TypeOK'
  BY <1>1, TaskType
<1>3. UNCHANGED <<status, hasTx, payment, grants, provider, req, job, run, shown, acked>>
  BY TaskSends
<1>4. OneLiveInvoice' /\ GrantedExactlyOnce' /\ RequestInv' /\ RowInv'
  BY <1>1, <1>3 DEF OneLiveInvoice, GrantedExactlyOnce, RequestInv, RowInv
<1>5. \A u \in Tasks : /\ u # t => task'[u] = task[u]
                       /\ task'[t].step = "none" \/ (task[t].step # "none" /\ task'[t].tx = task[t].tx)
  <2>1. task \in [Tasks -> TaskRows] /\ task[t] \in TaskRows
    BY <1>1 DEF TypeOK, TaskRows
  <2>2. ASSUME NEW s, TaskGoto(t, s)
        PROVE  task'[t].tx = task[t].tx /\ \A u \in Tasks \ {t} : task'[u] = task[u]
    BY <2>1, <2>2 DEF TaskGoto, TaskRows
  <2>3. ASSUME DropTask(t)
        PROVE  task'[t].step = "none" /\ \A u \in Tasks \ {t} : task'[u] = task[u]
    BY <2>1, <2>3 DEF DropTask, NoTask
  <2>4. CASE StartTask(t)
    BY <2>2, <2>3, <2>4 DEF StartTask
  <2>5. CASE SendMessage(t)
    BY <2>2, <2>5 DEF SendMessage
  <2>6. CASE SendFails(t)
    <3>1. CASE task' = [task EXCEPT ![t] = [task[t] EXCEPT !.step = "queued",
                                                        !.tries = task[t].tries + 1]]
      BY <2>1, <2>6, <3>1 DEF SendFails, TaskRows
    <3> QED
      BY <2>3, <2>6, <3>1 DEF SendFails
  <2>7. CASE MarkSent(t) \/ LoseTask(t)
    BY <2>3, <2>7 DEF MarkSent, LoseTask
  <2> QED
    BY <2>4, <2>5, <2>6, <2>7 DEF TaskNext, TaskStep
<1>6. ReadInv'
  <2>1. \A u \in Tasks : task'[u].step # "none" => status'[task'[u].tx] = "fulfilled"
    BY <1>1, <1>3, <1>5 DEF ReadInv
  <2> QED
    BY <1>1, <1>3, <2>1 DEF ReadInv
<1> QED
  BY <1>2, <1>4, <1>6 DEF Inv

LEMMA InvStep == Inv /\ [Next]_vars => Inv'
<1> SUFFICES ASSUME Inv, [Next]_vars PROVE Inv'
  OBVIOUS
<1>1. CASE Next
  BY <1>1, Steps, RequestInvariant, WorldInvariant, JobInvariant, RunInvariant, TaskInvariant
<1>2. CASE UNCHANGED vars
  <2>1. TypeOK'
    BY <1>2, TypeStep DEF Inv
  <2>2. OneLiveInvoice' /\ GrantedExactlyOnce' /\ RequestInv' /\ RowInv' /\ ReadInv'
    BY <1>2 DEF vars, rowVars, worldVars, taskVars, Inv, OneLiveInvoice, GrantedExactlyOnce,
                RequestInv, RowInv, ReadInv
  <2> QED
    BY <2>1, <2>2 DEF Inv
<1> QED
  BY <1>1, <1>2

LEMMA Invariant == Safety => []Inv
BY InvInit, InvStep, PTL DEF Safety

\* No UPDATE of a request, a webhook or a reconciliation makes a second invoice
\* of a slot live: only the INSERT can meet the unique constraint.
THEOREM OneLive == Safety => []OneLiveInvoice
<1>1. Inv => OneLiveInvoice
  BY DEF Inv
<1> QED
  BY <1>1, Invariant, PTL

\* However webhooks and reconciliations overlap, are repeated or fail, a paid
\* invoice is granted once, with its Payment, and nothing else is granted.
THEOREM GrantedOnce == Safety => []GrantedExactlyOnce
<1>1. Inv => GrantedExactlyOnce
  BY DEF Inv
<1> QED
  BY <1>1, Invariant, PTL

\* An invoice the buyer was shown stays payable until it is fulfilled or expires
\* at the provider, whatever requests, cleanups and runs do in the meantime.
THEOREM PayableLink == Safety => []PayableLinkIsHonoured
<1>1. Inv => PayableLinkIsHonoured
  <2> SUFFICES ASSUME Inv, NEW r \in shown
               PROVE  /\ hasTx[r]
                      /\ \/ status[r] \in Claimable \union {"fulfilled"}
                         \/ status[r] = "provider_expired" /\ provider[r] = "expired"
    BY DEF PayableLinkIsHonoured
  <2>1. r \in Requests
    BY DEF Inv, TypeOK
  <2> QED
    BY <2>1 DEF Inv, RowInv, Stored, Claimable
<1> QED
  BY <1>1, Invariant, PTL

-------------------------------------------------------------------------------
(* Refinement: every step is a step of the purchase contract, or none of it. *)

Charged == {r \in Requests : provider[r] = "paid"}
Announced == {r \in Requests : told[r] > 0}

LEMMA ContractInit == Init => Contract!Init
BY DEF Init, Contract!Init

LEMMA ContractStep == Inv /\ [Next]_vars => [Contract!Next]_(Contract!vars)
<1> SUFFICES ASSUME Inv, [Next]_vars PROVE [Contract!Next]_(Contract!vars)
  OBVIOUS
<1> USE DEF Contract!Next, Contract!vars, Contract!Charge, Contract!Grant, Contract!Settle,
            Contract!Announce, Charged, Announced
<1>1. TypeOK /\ RequestInv /\ GrantedExactlyOnce /\ ReadInv
  BY DEF Inv
<1>2. ASSUME NEW r \in Requests, RequestNext(r)
      PROVE  UNCHANGED (Contract!vars)
  <2>1. UNCHANGED <<grants, acked, told>>
    BY <1>2, RequestFrames
  <2>2. \A i \in Requests : provider'[i] = "paid" <=> provider[i] = "paid"
    BY <1>1, <1>2, RequestProvider DEF TypeOK
  <2> QED
    BY <2>1, <2>2
<1>3. ASSUME NEW r \in Requests, World(r)
      PROVE  [Contract!Next]_(Contract!vars)
  <2>1. UNCHANGED <<grants, acked, told>>
    BY <1>3 DEF World, Lapse, GrowStale, Pay, ProviderExpire, Webhook, WorldFrame, taskVars
  <2>2. CASE Pay(r)
    <3>1. Charged' = Charged \union {r}
      BY <1>1, <2>2 DEF Pay, TypeOK
    <3> QED
      BY <2>1, <3>1
  <2>3. CASE ~Pay(r)
    <3>1. \A i \in Requests : provider'[i] = "paid" <=> provider[i] = "paid"
      BY <1>1, <1>3, <2>3 DEF World, Lapse, GrowStale, ProviderExpire, Webhook, TypeOK
    <3> QED
      BY <2>1, <3>1
  <2> QED
    BY <2>2, <2>3
<1>4. ASSUME NEW a \in Actors, JobNext(a)
      PROVE  [Contract!Next]_(Contract!vars)
  <2> DEFINE r == job[a].tx
  <2>1. r \in Requests /\ provider[r] = "paid"
    BY <1>1, <1>4, JobGoes DEF TypeOK, ReadInv
  <2>2. UNCHANGED <<provider, told>>
    BY <1>4, JobMoves
  <2>3. CASE Fulfil(a)
    <3>1. status[r] # "fulfilled" /\ grants' = [grants EXCEPT ![r] = @ + 1] /\ UNCHANGED acked
      BY <2>3 DEF Fulfil, CanClaim, Claimable
    <3>2. grants[r] = 0
      BY <1>1, <2>1, <3>1 DEF GrantedExactlyOnce
    <3>3. grants' = [grants EXCEPT ![r] = 1]
      BY <3>1, <3>2
    <3> HIDE DEF r
    <3> QED
      BY <2>1, <2>2, <3>1, <3>2, <3>3
  <2>4. CASE ~Fulfil(a)
    <3>1. UNCHANGED grants
      BY <1>4, <2>4, JobMoves
    <3>2. CASE UNCHANGED acked
      BY <2>2, <3>1, <3>2
    <3>3. CASE acked' = acked \union {r} /\ status[r] = "fulfilled"
      <4>1. grants[r] = 1
        BY <1>1, <2>1, <3>3 DEF GrantedExactlyOnce
      <4> HIDE DEF r
      <4> QED
        BY <2>1, <2>2, <3>1, <3>3, <4>1
    <3> QED
      BY <1>4, <3>2, <3>3, JobTells
  <2> QED
    BY <2>3, <2>4
<1>5. ASSUME NEW m \in Runs, RunNext(m)
      PROVE  UNCHANGED (Contract!vars)
  BY <1>5, RunMoves
<1>6. ASSUME NEW t \in Tasks, TaskNext(t)
      PROVE  [Contract!Next]_(Contract!vars)
  <2> DEFINE r == task[t].tx
  <2>1. UNCHANGED <<grants, provider, acked>>
    BY <1>6, TaskSends
  <2>2. CASE told' = told
    BY <2>1, <2>2
  <2>3. CASE status[r] = "fulfilled" /\ told' = [told EXCEPT ![r] = @ + 1]
    <3>1. r \in Requests /\ grants[r] = 1
      BY <1>1, <2>3 DEF TypeOK, GrantedExactlyOnce
    <3> HIDE DEF r
    <3>2. Announced' = Announced \union {r}
      BY <1>1, <2>3, <3>1 DEF TypeOK
    <3> QED
      BY <2>1, <3>1, <3>2
  <2> QED
    BY <1>6, <2>2, <2>3, TaskSends
<1>7. CASE UNCHANGED vars
  BY <1>7 DEF vars, taskVars, worldVars
<1> QED
  BY <1>2, <1>3, <1>4, <1>5, <1>6, <1>7, Steps

\* The purchase contract's safety, without any webhook being owed: an invoice is
\* granted at most once, acknowledged and announced only when granted.
THEOREM RefinesContract == Safety => Contract!Safety
BY ContractInit, ContractStep, Invariant, PTL DEF Safety, Contract!Safety

===============================================================================
