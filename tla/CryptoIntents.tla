----------------------------- MODULE CryptoIntents -----------------------------
(***************************************************************************)
(* The Crypto Pay purchase: invoice requests, the paid webhook, the        *)
(* periodic reconciliation with the provider, and the buyer's              *)
(* notification.  A webhook may never come; what it misses is left to the  *)
(* reconciliation.                                                         *)
(*                                                                         *)
(* As for Platega, a request, its intent row and its invoice share one     *)
(* name.  There is no clock: an invoice's expiration date passes (lapsed)  *)
(* and a creation outgrows its cleanup cutoff (stale) at any moment, and a *)
(* request compares with what had passed when it read the clock.           *)
(***************************************************************************)
EXTENDS Naturals, FiniteSets

CONSTANTS Requests,    \* invoice requests, and the intents and invoices they create
          Slots,       \* pairs <<initiator, purchase_kind>>
          SlotOf,      \* the slot each request is for
          Workers,     \* web workers that serve the webhook
          Runs,        \* reconciliation tasks that may run at once
          Tasks,       \* bound: purchase notifications outstanding in Celery at once
          BatchSize,   \* GET_INVOICES_BATCH_SIZE = NOTIFICATION_BATCH_SIZE
          MaxRetries,  \* max_retries of notify_crypto_purchase_task
          FaultKinds,  \* which faults the environment may inject
          MaxFaults    \* bound: how many of them

AllFaults == {"db", "fulfil", "publish", "crash", "telegram", "retry", "provider"}

ASSUME RequestsAssumption == /\ Requests # {} /\ IsFiniteSet(Requests)
                             /\ SlotOf \in [Requests -> Slots]
ASSUME ActorsAssumption == Workers \intersect Runs = {}
ASSUME BoundsAssumption == /\ BatchSize \in Nat \ {0}
                           /\ MaxRetries \in Nat
                           /\ FaultKinds \subseteq AllFaults
                           /\ MaxFaults \in Nat

VARIABLES status,      \* status of the intent row, "none" before the INSERT
          pk,          \* its primary key: rows are numbered as they are inserted
          hasTx,       \* provider_invoice_id, URL and dates are stored
          payment,     \* the intent's payment is not NULL
          sent,        \* notification_sent_at is not NULL
          grants,      \* how often the bought result was granted for the invoice
          lapsed,      \* invoices whose expiration date has passed
          stale,       \* creations older than 2 * CRYPTOPAY_REQUEST_TIMEOUT
          req,         \* the invoice requests being served
          job,         \* the payments being applied, by a worker or a run
          run,         \* the reconciliation tasks
          task,        \* the notification tasks
          told,        \* success messages the buyer received
          provider,    \* the provider's side of each invoice
          shown,       \* invoices whose URL was answered to the buyer
          acked,       \* invoices whose webhook was answered 200
          faults       \* faults injected so far

rowVars == <<status, pk, hasTx, payment, sent>>
clockVars == <<lapsed, stale>>
taskVars == <<task, told>>
worldVars == <<provider, shown, acked>>
vars == <<rowVars, grants, clockVars, req, job, run, taskVars, worldVars, faults>>

Actors == Workers \union Runs

Statuses == {"creating", "active", "local_expired", "processing", "retryable",
             "provider_expired", "create_failed", "fulfilled"}
Live == {"creating", "active"}                            \* the partial unique constraint
\* Mutants (named ...Mutant) are plausible bugs; no specification uses them.
Claimable == {"active", "local_expired", "retryable"}

RequestSteps == {"new", "lookup", "expire", "failStale", "reserve", "readWinner",
                 "callProvider", "activate", "failCreation", "done"}
JobSteps == {"idle", "apply", "mark", "publish"}
RunSteps == {"idle", "fetch", "loop", "notify"}
TaskSteps == {"none", "queued", "send", "markSent"}

AnyRequest == CHOOSE r \in Requests : TRUE
NoJob == [step |-> "idle", tx |-> AnyRequest]
\* `paid` and `expired` are what is left of the provider's answer, `queue` what
\* is left to notify, `notified` is notified_intent_ids.
NoRun == [step |-> "idle", batch |-> {}, paid |-> {}, expired |-> {}, queue |-> {},
          notified |-> {}]
NoTask == [step |-> "none", tx |-> AnyRequest, tries |-> 0]

SameSlot(r) == {i \in Requests : SlotOf[i] = SlotOf[r]}

TypeOK ==
  /\ status \in [Requests -> Statuses \union {"none"}]
  /\ pk \in [Requests -> Nat]
  /\ hasTx \in [Requests -> BOOLEAN]
  /\ payment \in [Requests -> BOOLEAN]
  /\ sent \in [Requests -> BOOLEAN]
  /\ grants \in [Requests -> Nat]
  /\ lapsed \subseteq Requests
  /\ stale \subseteq Requests
  /\ req \in [Requests -> [step : RequestSteps, lapsed : SUBSET Requests,
                           stale : SUBSET Requests]]
  /\ job \in [Actors -> [step : JobSteps, tx : Requests]]
  /\ run \in [Runs -> [step : RunSteps, batch : SUBSET Requests, paid : SUBSET Requests,
                       expired : SUBSET Requests, queue : SUBSET Requests,
                       notified : SUBSET Requests]]
  /\ task \in [Tasks -> [step : TaskSteps, tx : Requests, tries : 0..MaxRetries]]
  /\ told \in [Requests -> Nat]
  /\ provider \in [Requests -> {"none", "open", "paid", "expired"}]
  /\ shown \subseteq Requests
  /\ acked \subseteq Requests
  /\ faults \in 0..MaxFaults

Init ==
  /\ status = [r \in Requests |-> "none"]
  /\ pk = [r \in Requests |-> 0]
  /\ hasTx = [r \in Requests |-> FALSE]
  /\ payment = [r \in Requests |-> FALSE]
  /\ sent = [r \in Requests |-> FALSE]
  /\ grants = [r \in Requests |-> 0]
  /\ lapsed = {}
  /\ stale = {}
  /\ req = [r \in Requests |-> [step |-> "new", lapsed |-> {}, stale |-> {}]]
  /\ job = [a \in Actors |-> NoJob]
  /\ run = [m \in Runs |-> NoRun]
  /\ task = [t \in Tasks |-> NoTask]
  /\ told = [r \in Requests |-> 0]
  /\ provider = [r \in Requests |-> "none"]
  /\ shown = {}
  /\ acked = {}
  /\ faults = 0

\* Some injected failure of kind k: a locked database, a failing fulfilment, an
\* unreachable broker, a killed process, an unreachable Telegram or provider.
Fault(k) == /\ k \in FaultKinds
            /\ faults < MaxFaults
            /\ faults' = faults + 1

-------------------------------------------------------------------------------
(* CreateOrReuseCryptoInvoiceService, one request per member of Requests.   *)

Goto(r, s) == req' = [req EXCEPT ![r].step = s]

\* Every request step leaves payments, notifications and the clock alone.
RequestFrame == UNCHANGED <<payment, sent, grants, clockVars, job, run, taskVars, acked>>

\* The request arrives and reads the clock.
Begin(r) == /\ req[r].step = "new"
            /\ req' = [req EXCEPT ![r] = [step |-> "lookup", lapsed |-> lapsed, stale |-> stale]]
            /\ RequestFrame
            /\ UNCHANGED <<status, pk, hasTx, provider, shown, faults>>

Reusable(r) == {i \in SameSlot(r) : status[i] = "active" /\ i \notin req[r].lapsed}

\* A live invoice of the same slot is answered again, otherwise go on.
Lookup(r) ==
  /\ req[r].step = "lookup"
  /\ \/ \E i \in Reusable(r) : Goto(r, "done") /\ shown' = shown \union {i}
     \/ Reusable(r) = {} /\ Goto(r, "expire") /\ UNCHANGED shown
  /\ RequestFrame
  /\ UNCHANGED <<status, pk, hasTx, provider, faults>>

ExpireActive(r) ==
  /\ req[r].step = "expire"
  /\ status' = [i \in Requests |->
                  IF i \in SameSlot(r) \intersect req[r].lapsed /\ status[i] = "active"
                  THEN "local_expired" ELSE status[i]]
  /\ Goto(r, "failStale")
  /\ RequestFrame
  /\ UNCHANGED <<pk, hasTx, provider, shown, faults>>

FailStaleCreating(r) ==
  /\ req[r].step = "failStale"
  /\ status' = [i \in Requests |->
                  IF i \in SameSlot(r) \intersect req[r].stale /\ status[i] = "creating"
                  THEN "create_failed" ELSE status[i]]
  /\ Goto(r, "reserve")
  /\ RequestFrame
  /\ UNCHANGED <<pk, hasTx, provider, shown, faults>>

LiveInMutant(r) == {i \in SameSlot(r) : status[i] = "active"}   \* the constraint forgets "creating"
LiveIn(r) == {i \in SameSlot(r) : status[i] \in Live}

Rows == {i \in Requests : status[i] # "none"}

\* INSERT under the partial unique constraint; a violation sends the request
\* to read who won, in a statement of its own.
Reserve(r) ==
  /\ req[r].step = "reserve"
  /\ \/ /\ LiveIn(r) = {}
        /\ status' = [status EXCEPT ![r] = "creating"]
        /\ pk' = [pk EXCEPT ![r] = Cardinality(Rows) + 1]
        /\ Goto(r, "callProvider")
     \/ /\ LiveIn(r) # {}
        /\ Goto(r, "readWinner")
        /\ UNCHANGED <<status, pk>>
  /\ RequestFrame
  /\ UNCHANGED <<hasTx, provider, shown, faults>>

\* The winner's live invoice is answered; a winner still creating is a 409, and
\* a winner that is gone by now re-raises the IntegrityError.
ReadWinner(r) ==
  /\ req[r].step = "readWinner"
  /\ Goto(r, "done")
  /\ \/ \E i \in Reusable(r) : shown' = shown \union {i}
     \/ Reusable(r) = {} /\ UNCHANGED shown
  /\ RequestFrame
  /\ UNCHANGED <<status, pk, hasTx, provider, faults>>

\* POST createInvoice.  The answer may be an error, or fail the checks of
\* _created_invoice_error_code, although the provider did create an invoice.
CallProvider(r) ==
  /\ req[r].step = "callProvider"
  /\ \/ provider' = [provider EXCEPT ![r] = "open"] /\ Goto(r, "activate")
     \/ provider' = [provider EXCEPT ![r] = "open"] /\ Goto(r, "failCreation")
     \/ UNCHANGED provider /\ Goto(r, "failCreation")
  /\ RequestFrame
  /\ UNCHANGED <<status, pk, hasTx, shown, faults>>

\* The conditional UPDATE creating -> active, and the columns it fills.
StoreInvoice(r) ==
  IF status[r] = "creating"
  THEN /\ status' = [status EXCEPT ![r] = "active"]
       /\ hasTx' = [hasTx EXCEPT ![r] = TRUE]
  ELSE UNCHANGED <<status, hasTx>>

\* The URL is answered only when this UPDATE made the row active.
Activate(r) ==
  /\ req[r].step = "activate"
  /\ StoreInvoice(r)
  /\ shown' = IF status[r] = "creating" THEN shown \union {r} ELSE shown
  /\ Goto(r, "done")
  /\ RequestFrame
  /\ UNCHANGED <<pk, provider, faults>>

\* OperationalError from the UPDATE, applied or not: a lock is tried again while
\* attempts remain and then given up, any other error is raised.
ActivateError(r) ==
  /\ req[r].step = "activate"
  /\ Fault("db")
  /\ StoreInvoice(r) \/ UNCHANGED <<status, hasTx>>
  /\ \E s \in {"activate", "failCreation", "done"} : Goto(r, s)
  /\ RequestFrame
  /\ UNCHANGED <<pk, provider, shown>>

FailCreation(r) ==
  /\ req[r].step = "failCreation"
  /\ status' = IF status[r] = "creating"
               THEN [status EXCEPT ![r] = "create_failed"] ELSE status
  /\ Goto(r, "done")
  /\ RequestFrame
  /\ UNCHANGED <<pk, hasTx, provider, shown, faults>>

\* Every database step may end the request with an error, an unusable catalogue
\* ends it before the INSERT, and a killed worker stops anywhere.
AbandonRequest(r) ==
  /\ \/ Fault("db") /\ req[r].step \notin {"new", "callProvider", "activate", "done"}
     \/ Fault("crash") /\ req[r].step \notin {"new", "done"}
  /\ Goto(r, "done")
  /\ RequestFrame
  /\ UNCHANGED <<status, pk, hasTx, provider, shown>>

RequestStep(r) == \/ Lookup(r) \/ ExpireActive(r) \/ FailStaleCreating(r) \/ Reserve(r)
                  \/ ReadWinner(r) \/ CallProvider(r) \/ Activate(r) \/ FailCreation(r)
-------------------------------------------------------------------------------
(* The clock, the buyer and the provider.  An invoice is paid before its    *)
(* expiration date or expires after it, never both; only a shown invoice    *)
(* is paid.                                                                 *)

WorldFrame == UNCHANGED <<rowVars, grants, req, run, taskVars, shown, acked, faults>>

Lapse(r) == /\ provider[r] # "none" /\ r \notin lapsed
            /\ lapsed' = lapsed \union {r}
            /\ WorldFrame
            /\ UNCHANGED <<stale, job, provider>>

GrowStale(r) == /\ status[r] # "none" /\ r \notin stale
                /\ stale' = stale \union {r}
                /\ WorldFrame
                /\ UNCHANGED <<lapsed, job, provider>>

Pay(r) == /\ r \in shown \ lapsed
          /\ provider[r] = "open"
          /\ provider' = [provider EXCEPT ![r] = "paid"]
          /\ WorldFrame
          /\ UNCHANGED <<clockVars, job>>

ProviderExpire(r) == /\ r \in lapsed
                     /\ provider[r] = "open"
                     /\ provider' = [provider EXCEPT ![r] = "expired"]
                     /\ WorldFrame
                     /\ UNCHANGED <<clockVars, job>>

\* ValidateCryptoInvoiceService: the paid invoice is that of a stored intent.  One
\* that is not is reported to the administrator and changes nothing.
Validated(r) == provider[r] = "paid" /\ hasTx[r]

\* A signed invoice_paid webhook, delivered any number of times or never.
Webhook(w, r) == /\ job[w].step = "idle"
                 /\ Validated(r)
                 /\ job' = [job EXCEPT ![w] = [step |-> "apply", tx |-> r]]
                 /\ WorldFrame
                 /\ UNCHANGED <<clockVars, provider>>
-------------------------------------------------------------------------------
(* ApplyCryptoPaymentService, called by the webhook and by a run.           *)

JobGoto(a, s) == job' = [job EXCEPT ![a].step = s]

JobFrame == UNCHANGED <<pk, hasTx, sent, clockVars, req, told, provider, shown>>

\* The service returned: the webhook is answered 200, a run goes on with its batch
\* and remembers what it fulfilled itself.
Return(a, fulfilled) ==
  /\ job' = [job EXCEPT ![a] = NoJob]
  /\ acked' = IF a \in Workers THEN acked \union {job[a].tx} ELSE acked
  /\ run' = IF a \in Runs /\ fulfilled
            THEN [run EXCEPT ![a].notified = @ \union {job[a].tx}] ELSE run

\* It raised a retryable error: the webhook is answered 503, a run goes on.
ReturnRetryable(a) == job' = [job EXCEPT ![a] = NoJob] /\ UNCHANGED <<acked, run>>

\* It raised any other error, or the process was killed: the webhook is not
\* answered 200, the rest of a run is dropped.
Abort(a) ==
  /\ job' = [job EXCEPT ![a] = NoJob]
  /\ run' = IF a \in Runs THEN [run EXCEPT ![a] = NoRun] ELSE run
  /\ UNCHANGED acked

CanClaim(r) == status[r] \in Claimable /\ ~payment[r]

\* The transaction commits: result, Payment and intent together.
Fulfil(a) ==
  LET r == job[a].tx IN
  /\ job[a].step = "apply"
  /\ CanClaim(r)
  /\ status' = [status EXCEPT ![r] = "fulfilled"]
  /\ payment' = [payment EXCEPT ![r] = TRUE]
  /\ grants' = [grants EXCEPT ![r] = @ + 1]
  /\ JobGoto(a, "publish")
  /\ JobFrame
  /\ UNCHANGED <<run, task, acked, faults>>

\* A rolled back transaction: a lock or the key limit is retryable and marks the
\* intent, unless the mark meets the same lock three times; any other error is
\* raised as it is.
FulfilRollback(a) ==
  /\ job[a].step = "apply"
  /\ CanClaim(job[a].tx)
  /\ Fault("fulfil")
  /\ \/ JobGoto(a, "mark") /\ UNCHANGED <<run, acked>>
     \/ ReturnRetryable(a)
     \/ Abort(a)
  /\ JobFrame
  /\ UNCHANGED <<status, payment, grants, task>>

\* Nothing to claim: fulfilled already, or "processing".
ApplyAgain(a) ==
  LET r == job[a].tx IN
  /\ job[a].step = "apply"
  /\ ~CanClaim(r)
  /\ IF status[r] = "fulfilled"
     THEN Return(a, FALSE)
     ELSE JobGoto(a, "mark") /\ UNCHANGED <<run, acked>>
  /\ JobFrame
  /\ UNCHANGED <<status, payment, grants, task, faults>>

MarkRetryableMutant(a) ==   \* not conditional on what others did meanwhile
  /\ job[a].step = "mark"
  /\ status' = [status EXCEPT ![job[a].tx] = "retryable"]
  /\ ReturnRetryable(a)
  /\ JobFrame
  /\ UNCHANGED <<payment, grants, task, faults>>

\* After the rollback the intent becomes retryable, unless it was moved on.
MarkRetryable(a) ==
  LET r == job[a].tx IN
  /\ job[a].step = "mark"
  /\ status' = IF status[r] \in Claimable
               THEN [status EXCEPT ![r] = "retryable"] ELSE status
  /\ ReturnRetryable(a)
  /\ JobFrame
  /\ UNCHANGED <<payment, grants, task, faults>>

Enqueue(r) == \E t \in Tasks : /\ task[t].step = "none"
                               /\ task' = [task EXCEPT ![t] = [step |-> "queued", tx |-> r,
                                                               tries |-> 0]]

\* The on_commit callbacks: the delivery of the result, then the notification.
Publish(a) ==
  /\ job[a].step = "publish"
  /\ Enqueue(job[a].tx)
  /\ Return(a, TRUE)
  /\ JobFrame
  /\ UNCHANGED <<status, payment, grants, faults>>

\* One of them cannot be published, or fails after the broker took the message.
PublishFails(a) ==
  /\ job[a].step = "publish"
  /\ Fault("publish")
  /\ Enqueue(job[a].tx) \/ UNCHANGED task
  /\ Abort(a)
  /\ JobFrame
  /\ UNCHANGED <<status, payment, grants>>

\* A database error before the transaction is retryable; a killed process is not
\* heard of again.
AbandonJob(a) ==
  /\ \/ Fault("db") /\ job[a].step = "apply" /\ ReturnRetryable(a)
     \/ Fault("crash") /\ job[a].step # "idle" /\ Abort(a)
  /\ JobFrame
  /\ UNCHANGED <<status, payment, grants, task>>

JobStep(a) == Fulfil(a) \/ ApplyAgain(a) \/ MarkRetryable(a) \/ Publish(a)
-------------------------------------------------------------------------------
(* ReconcileCryptoPaymentsService, a Celery task started every ten minutes. *)

RunFrame == UNCHANGED <<pk, hasTx, payment, sent, grants, clockVars, req, told, worldVars>>

\* The first n rows of a set by primary key.
FirstRows(n, S) == {r \in S : Cardinality({i \in S : pk[i] < pk[r]}) < n}

UnfinishedMutant == {r \in Requests : status[r] \in {"active", "local_expired"} /\ ~payment[r]}
Unfinished == {r \in Requests : status[r] \in Claimable /\ ~payment[r]}

\* A run lists the unfinished intents; with none it asks the provider nothing.
StartRun(m) ==
  LET batch == FirstRows(BatchSize, Unfinished) IN
  /\ run[m].step = "idle"
  /\ run' = [run EXCEPT ![m] = [NoRun EXCEPT !.step = IF batch = {} THEN "loop" ELSE "fetch",
                                             !.batch = batch]]
  /\ RunFrame
  /\ UNCHANGED <<status, job, task, faults>>

\* getInvoices: what the provider knows of the batch, one snapshot.
Fetch(m) ==
  /\ run[m].step = "fetch"
  /\ run' = [run EXCEPT ![m].step = "loop",
                        ![m].paid = {r \in run[m].batch : provider[r] = "paid"},
                        ![m].expired = {r \in run[m].batch : provider[r] = "expired"}]
  /\ RunFrame
  /\ UNCHANGED <<status, job, task, faults>>

\* CryptoPayClientError ends the run (and has it retried, as a run of its own).
FetchFails(m) ==
  /\ run[m].step = "fetch"
  /\ Fault("provider")
  /\ run' = [run EXCEPT ![m] = NoRun]
  /\ RunFrame
  /\ UNCHANGED <<status, job, task>>

InLoop(m) == run[m].step = "loop" /\ job[m].step = "idle"

\* A paid invoice of the batch is validated and applied.
ApplyPaid(m) ==
  /\ InLoop(m)
  /\ \E r \in run[m].paid :
       /\ run' = [run EXCEPT ![m].paid = @ \ {r}]
       /\ job' = IF Validated(r) THEN [job EXCEPT ![m] = [step |-> "apply", tx |-> r]] ELSE job
  /\ RunFrame
  /\ UNCHANGED <<status, task, faults>>

MarkExpiredMutant(m) ==   \* whatever is not paid counts as expired
  /\ InLoop(m)
  /\ \E r \in run[m].batch \ run[m].paid :
       /\ run' = [run EXCEPT ![m].expired = @ \ {r}, ![m].batch = @ \ {r}]
       /\ status' = IF status[r] \in {"active", "local_expired"}
                    THEN [status EXCEPT ![r] = "provider_expired"] ELSE status
  /\ RunFrame
  /\ UNCHANGED <<job, task, faults>>

\* An expired one gives its intent up, if it is not retryable or finished.
MarkExpired(m) ==
  /\ InLoop(m)
  /\ \E r \in run[m].expired :
       /\ run' = [run EXCEPT ![m].expired = @ \ {r}]
       /\ status' = IF status[r] \in {"active", "local_expired"}
                    THEN [status EXCEPT ![r] = "provider_expired"] ELSE status
  /\ RunFrame
  /\ UNCHANGED <<job, task, faults>>

\* A locked database leaves it to a later run.
MarkExpiredFails(m) ==
  /\ InLoop(m)
  /\ Fault("db")
  /\ \E r \in run[m].expired : run' = [run EXCEPT ![m].expired = @ \ {r}]
  /\ RunFrame
  /\ UNCHANGED <<status, job, task>>

UnnotifiedMutant == {}   \* the second half of the reconciliation is lost
Unnotified == {r \in Requests : status[r] = "fulfilled" /\ ~sent[r]}

\* The batch is done: list the fulfilled purchases nobody was notified of, but
\* not those this run has just queued.
ListUnnotified(m) ==
  /\ InLoop(m)
  /\ run[m].paid = {} /\ run[m].expired = {}
  /\ run' = [run EXCEPT ![m] = [NoRun EXCEPT !.step = "notify",
                !.queue = FirstRows(BatchSize, Unnotified) \ run[m].notified]]
  /\ RunFrame
  /\ UNCHANGED <<status, job, task, faults>>

\* Each of them is queued again, in the order of the primary key.
Requeue(m) ==
  /\ run[m].step = "notify"
  /\ \E r \in FirstRows(1, run[m].queue) :
       /\ Enqueue(r)
       /\ run' = [run EXCEPT ![m].queue = @ \ {r}]
  /\ RunFrame
  /\ UNCHANGED <<status, job, faults>>

\* An unreachable broker, or a killed task, ends the run.
RequeueFails(m) ==
  /\ run[m].step = "notify" /\ run[m].queue # {}
  /\ Fault("publish")
  /\ (\E r \in FirstRows(1, run[m].queue) : Enqueue(r)) \/ UNCHANGED task
  /\ run' = [run EXCEPT ![m] = NoRun]
  /\ RunFrame
  /\ UNCHANGED <<status, job>>

\* Outside ApplyCryptoPaymentService, a killed task, or a database error in the
\* second list, loses the rest of the run.
AbandonRun(m) ==
  /\ run[m].step # "idle" /\ job[m].step = "idle"
  /\ \/ Fault("crash")
     \/ Fault("db") /\ run[m].step = "loop" /\ run[m].paid \union run[m].expired = {}
  /\ run' = [run EXCEPT ![m] = NoRun]
  /\ RunFrame
  /\ UNCHANGED <<status, job, task>>

EndRun(m) ==
  /\ run[m].step = "notify" /\ run[m].queue = {}
  /\ run' = [run EXCEPT ![m] = NoRun]
  /\ RunFrame
  /\ UNCHANGED <<status, job, task, faults>>

RunStep(m) == \/ StartRun(m) \/ Fetch(m) \/ ApplyPaid(m) \/ MarkExpired(m)
              \/ ListUnnotified(m) \/ Requeue(m) \/ EndRun(m)
-------------------------------------------------------------------------------
(* notify_crypto_purchase_task.                                             *)

TaskFrame == UNCHANGED <<status, pk, hasTx, payment, grants, clockVars, req, job, run,
                         worldVars>>

TaskGoto(t, s) == task' = [task EXCEPT ![t].step = s]

DropTask(t) == task' = [task EXCEPT ![t] = NoTask]

\* Only an unsent notification of a fulfilled intent is sent.
StartTask(t) ==
  LET r == task[t].tx IN
  /\ task[t].step = "queued"
  /\ IF status[r] = "fulfilled" /\ ~sent[r] THEN TaskGoto(t, "send") ELSE DropTask(t)
  /\ TaskFrame
  /\ UNCHANGED <<sent, told, faults>>

SendMessage(t) ==
  /\ task[t].step = "send"
  /\ told' = [told EXCEPT ![task[t].tx] = @ + 1]
  /\ TaskGoto(t, "markSent")
  /\ TaskFrame
  /\ UNCHANGED <<sent, faults>>

\* The sender raised, perhaps after Telegram took the message: retry(countdown=30),
\* or drop the task when its retries are used up, or the broker refuses the retry.
SendFails(t) ==
  /\ task[t].step = "send"
  /\ Fault("telegram")
  /\ told' \in {told, [told EXCEPT ![task[t].tx] = @ + 1]}
  /\ \/ /\ task[t].tries < MaxRetries
        /\ task' = [task EXCEPT ![t].step = "queued", ![t].tries = @ + 1]
     \/ /\ task[t].tries = MaxRetries \/ "retry" \in FaultKinds
        /\ DropTask(t)
  /\ TaskFrame
  /\ UNCHANGED sent

MarkSent(t) ==
  LET r == task[t].tx IN
  /\ task[t].step = "markSent"
  /\ sent' = IF status[r] = "fulfilled" THEN [sent EXCEPT ![r] = TRUE] ELSE sent
  /\ DropTask(t)
  /\ TaskFrame
  /\ UNCHANGED <<told, faults>>

\* A message is acknowledged to the broker before the task runs, so a task
\* that is killed, or fails on a database error, is gone.
LoseTask(t) ==
  /\ \/ Fault("crash") /\ task[t].step \in {"send", "markSent"}
     \/ Fault("db") /\ task[t].step \in {"queued", "markSent"}
  /\ DropTask(t)
  /\ TaskFrame
  /\ UNCHANGED <<sent, told>>

TaskStep(t) == StartTask(t) \/ SendMessage(t) \/ MarkSent(t)
-------------------------------------------------------------------------------
Next == \/ \E r \in Requests : \/ Begin(r) \/ RequestStep(r) \/ ActivateError(r)
                               \/ AbandonRequest(r) \/ Lapse(r) \/ GrowStale(r) \/ Pay(r)
                               \/ ProviderExpire(r)
        \/ \E w \in Workers, r \in Requests : Webhook(w, r)
        \/ \E a \in Actors : \/ JobStep(a) \/ FulfilRollback(a)
                             \/ PublishFails(a) \/ AbandonJob(a)
        \/ \E m \in Runs : \/ RunStep(m) \/ FetchFails(m) \/ MarkExpiredFails(m)
                           \/ RequeueFails(m) \/ AbandonRun(m)
        \/ \E t \in Tasks : TaskStep(t) \/ SendFails(t) \/ LoseTask(t)

Safety == Init /\ [][Next]_vars

\* Processes that run go on running, Celery starts a reconciliation again and
\* again and takes what is queued, time passes and the provider expires what has
\* lapsed.  No webhook is owed, nor are a request, a payment or a fault.
Fairness == /\ \A r \in Requests : /\ WF_vars(RequestStep(r))
                                   /\ WF_vars(Lapse(r)) /\ WF_vars(ProviderExpire(r))
            /\ \A a \in Actors : WF_vars(JobStep(a))
            /\ \A m \in Runs : WF_vars(RunStep(m))
            /\ \A t \in Tasks : WF_vars(TaskStep(t))

Spec == Safety /\ Fairness
-------------------------------------------------------------------------------
(* Safety.                                                                  *)

\* At most one intent of a slot is being created or payable: no UPDATE of this
\* code ever meets the partial unique constraint, which only the INSERT handles.
OneLiveInvoice ==
  \A i, j \in Requests :
    SlotOf[i] = SlotOf[j] /\ status[i] \in Live /\ status[j] \in Live => i = j

\* Whatever invoice the buyer was ever shown can still be fulfilled, was
\* fulfilled, or has expired at the provider itself: no race of requests,
\* webhooks and reconciliations gives up an invoice that may be paid.
PayableLinkIsHonoured ==
  \A r \in shown :
    /\ hasTx[r]
    /\ \/ status[r] \in Claimable \union {"fulfilled"}
       \/ status[r] = "provider_expired" /\ provider[r] = "expired"

\* Webhook and reconciliation together grant a paid invoice once and nothing
\* else, and exactly then the intent is fulfilled and holds its Payment.
GrantedExactlyOnce ==
  \A r \in Requests :
    /\ grants[r] = IF status[r] = "fulfilled" THEN 1 ELSE 0
    /\ payment[r] <=> status[r] = "fulfilled"
    /\ status[r] = "fulfilled" => provider[r] = "paid"

\* At most one notification task of a purchase is outstanding.
OneNotificationTask ==
  \A t, u \in Tasks :
    task[t].step # "none" /\ task[u].step # "none" /\ task[t].tx = task[u].tx => t = u
-------------------------------------------------------------------------------
(* Liveness.                                                                *)

\* A fulfilled purchase is announced to its buyer, whatever notification was
\* lost with a process, a broker or Telegram.
EveryPurchaseAnnounced == \A r \in Requests : status[r] = "fulfilled" ~> told[r] > 0

\* The integration keeps what a purchase promises, without any webhook.
Contract == INSTANCE PurchaseContract
              WITH Txns <- Requests,
                   charged <- {r \in Requests : provider[r] = "paid"},
                   settled <- acked,
                   announced <- {r \in Requests : told[r] > 0}

ImplementsContract == Contract!Spec
===============================================================================
