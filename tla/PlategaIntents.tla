---------------------------- MODULE PlategaIntents ----------------------------
(***************************************************************************)
(* The Platega SBP purchase: invoice requests, provider callbacks, atomic  *)
(* fulfilment and the buyer's notification, from the payments application  *)
(* of the backend.                                                         *)
(*                                                                         *)
(* One table row (PlategaPaymentIntent) is written by at most one invoice  *)
(* request and paid through at most one provider transaction, so request,  *)
(* intent row and transaction share one name: a member of Requests.  Every *)
(* ORM statement outside a transaction, and every transaction.atomic()     *)
(* block (SQLite, transaction_mode IMMEDIATE), is one step; between two    *)
(* steps of one HTTP worker any other worker may run.                      *)
(***************************************************************************)
EXTENDS Naturals

CONSTANTS Requests,    \* invoice requests, and the intents and transactions they create
          Slots,       \* pairs <<initiator, purchase_kind>>
          SlotOf,      \* the slot each request is for
          Workers,     \* web workers that serve provider callbacks
          Tasks,       \* bound: purchase notifications outstanding in Celery at once
          NoWorker,    \* notification_queued_at is NULL
          LinkLife,    \* the 15 minutes a payment link lives
          StaleAfter,  \* 2 * PLATEGA_REQUEST_TIMEOUT
          MaxRetries,  \* max_retries of notify_platega_purchase_task
          MaxTime,     \* bound: last reading of the clock
          FaultKinds,  \* which faults the environment may inject
          MaxFaults    \* bound: how many of them

AllFaults == {"db", "fulfil", "publish", "crash", "telegram", "retry"}

ASSUME RequestsAssumption == Requests # {} /\ SlotOf \in [Requests -> Slots]
ASSUME WorkersAssumption == NoWorker \notin Workers
ASSUME TimeAssumption == /\ LinkLife \in Nat \ {0}
                         /\ StaleAfter \in Nat \ {0}
                         /\ MaxTime \in Nat
ASSUME FaultAssumption == /\ FaultKinds \subseteq AllFaults
                          /\ MaxFaults \in Nat
                          /\ MaxRetries \in Nat

VARIABLES now,         \* the clock
          status,      \* status of the intent row, "none" before the INSERT
          created,     \* created_at
          hasTx,       \* provider_transaction_id and payment URL are stored
          expires,     \* provider_expires_at
          payment,     \* the intent's payment is not NULL
          marker,      \* notification_queued_at: the worker whose value it holds
          sent,        \* notification_sent_at is not NULL
          grants,      \* how often the bought result was granted for the transaction
          delivery,    \* delivery of the granted access to the servers
          req,         \* the invoice requests being served
          cb,          \* the callbacks being served
          task,        \* the notification tasks
          told,        \* success messages the buyer received
          provider,    \* the provider's side of each transaction
          shown,       \* transactions whose payment link was answered to the buyer
          acked,       \* transactions whose final status the provider got a 200 for
          faults       \* faults injected so far: their number and kinds

rowVars == <<status, created, hasTx, expires, payment, marker, sent>>
resultVars == <<grants, delivery>>
worldVars == <<provider, shown, acked>>
taskVars == <<task, told>>
vars == <<now, rowVars, resultVars, req, cb, taskVars, worldVars, faults>>

Statuses == {"creating", "active", "local_expired", "processing", "retryable",
             "provider_canceled", "create_failed", "fulfilled"}
Live == {"creating", "active"}                            \* the partial unique constraint
Blocking == {"creating", "processing", "retryable"}
\* Mutants (named ...Mutant) are plausible bugs; no specification uses them.
ClaimableMutant == {"active", "local_expired"}             \* a failed attempt is not retried
Claimable == {"active", "local_expired", "retryable"}
ConfirmedStates == {"active", "local_expired", "retryable", "processing", "fulfilled"}
Markable == {"active", "local_expired", "processing", "retryable"}

RequestSteps == {"new", "lookup", "expire", "failStale", "checkBlocking", "reserve",
                 "readWinner", "callProvider", "activate", "failCreation", "done"}
WorkerSteps == {"idle", "validate", "apply", "hook", "publish", "clear", "mark"}
TaskSteps == {"none", "queued", "send", "markSent"}
Messages == {"CONFIRMED", "CANCELED", "OTHER"}

\* A free worker and a free task; what they last worked on is forgotten.
AnyRequest == CHOOSE r \in Requests : TRUE
Idle == [step |-> "idle", tx |-> AnyRequest, msg |-> "OTHER"]
NoTask == [step |-> "none", tx |-> AnyRequest, tries |-> 0]

SameSlot(r) == {i \in Requests : SlotOf[i] = SlotOf[r]}

FaultsOK == faults \in [n : 0..MaxFaults, kinds : SUBSET FaultKinds]

TypeOK ==
  /\ now \in 0..MaxTime
  /\ status \in [Requests -> Statuses \union {"none"}]
  /\ created \in [Requests -> 0..MaxTime]
  /\ hasTx \in [Requests -> BOOLEAN]
  /\ expires \in [Requests -> Nat]
  /\ payment \in [Requests -> BOOLEAN]
  /\ marker \in [Requests -> Workers \union {NoWorker}]
  /\ sent \in [Requests -> BOOLEAN]
  /\ grants \in [Requests -> Nat]
  /\ delivery \in [Requests -> {"none", "due", "published"}]
  /\ req \in [Requests -> [step : RequestSteps, at : 0..MaxTime]]
  /\ cb \in [Workers -> [step : WorkerSteps, tx : Requests, msg : Messages]]
  /\ task \in [Tasks -> [step : TaskSteps, tx : Requests, tries : 0..MaxRetries]]
  /\ told \in [Requests -> Nat]
  /\ provider \in [Requests -> {"none", "pending", "confirmed", "canceled"}]
  /\ shown \subseteq Requests
  /\ acked \subseteq Requests
  /\ FaultsOK

Init ==
  /\ now = 0
  /\ status = [r \in Requests |-> "none"]
  /\ created = [r \in Requests |-> 0]
  /\ hasTx = [r \in Requests |-> FALSE]
  /\ expires = [r \in Requests |-> 0]
  /\ payment = [r \in Requests |-> FALSE]
  /\ marker = [r \in Requests |-> NoWorker]
  /\ sent = [r \in Requests |-> FALSE]
  /\ grants = [r \in Requests |-> 0]
  /\ delivery = [r \in Requests |-> "none"]
  /\ req = [r \in Requests |-> [step |-> "new", at |-> 0]]
  /\ cb = [w \in Workers |-> Idle]
  /\ task = [t \in Tasks |-> NoTask]
  /\ told = [r \in Requests |-> 0]
  /\ provider = [r \in Requests |-> "none"]
  /\ shown = {}
  /\ acked = {}
  /\ faults = [n |-> 0, kinds |-> {}]

\* Some injected failure of kind k: a locked database, a failing fulfilment,
\* an unreachable broker, a killed process, an unreachable Telegram.
Fault(k) == /\ k \in FaultKinds
            /\ faults.n < MaxFaults
            /\ faults' = [n |-> faults.n + 1, kinds |-> faults.kinds \union {k}]

Tick == /\ now < MaxTime
        /\ now' = now + 1
        /\ UNCHANGED <<rowVars, resultVars, req, cb, taskVars, worldVars, faults>>

-------------------------------------------------------------------------------
(* CreateOrReusePlategaInvoiceService, one request per member of Requests.  *)

Goto(r, s) == req' = [req EXCEPT ![r].step = s]

\* Every request step leaves callbacks, results and notifications alone.
RequestFrame == UNCHANGED <<now, payment, marker, sent, resultVars, cb, taskVars, acked>>

\* The request arrives; `now` is read once and used by every later step.
Begin(r) == /\ req[r].step = "new"
            /\ req' = [req EXCEPT ![r] = [step |-> "lookup", at |-> now]]
            /\ RequestFrame
            /\ UNCHANGED <<status, created, hasTx, expires, provider, shown, faults>>

Reusable(r) == {i \in SameSlot(r) : status[i] = "active" /\ expires[i] > req[r].at}

\* A live link of the same slot is answered again, otherwise go on.
Lookup(r) ==
  /\ req[r].step = "lookup"
  /\ \/ \E i \in Reusable(r) : Goto(r, "done") /\ shown' = shown \union {i}
     \/ Reusable(r) = {} /\ Goto(r, "expire") /\ UNCHANGED shown
  /\ RequestFrame
  /\ UNCHANGED <<status, created, hasTx, expires, provider, faults>>

ExpireActive(r) ==
  /\ req[r].step = "expire"
  /\ status' = [i \in Requests |->
                  IF i \in SameSlot(r) /\ status[i] = "active" /\ expires[i] <= req[r].at
                  THEN "local_expired" ELSE status[i]]
  /\ Goto(r, "failStale")
  /\ RequestFrame
  /\ UNCHANGED <<created, hasTx, expires, provider, shown, faults>>

FailStaleCreatingMutant(r) ==   \* created_at < instead of <=
  /\ req[r].step = "failStale"
  /\ status' = [i \in Requests |->
                  IF /\ i \in SameSlot(r)
                     /\ status[i] = "creating"
                     /\ created[i] + StaleAfter < req[r].at
                  THEN "create_failed" ELSE status[i]]
  /\ Goto(r, "checkBlocking")
  /\ RequestFrame
  /\ UNCHANGED <<created, hasTx, expires, provider, shown, faults>>

FailStaleCreating(r) ==
  /\ req[r].step = "failStale"
  /\ status' = [i \in Requests |->
                  IF /\ i \in SameSlot(r)
                     /\ status[i] = "creating"
                     /\ created[i] + StaleAfter <= req[r].at
                  THEN "create_failed" ELSE status[i]]
  /\ Goto(r, "checkBlocking")
  /\ RequestFrame
  /\ UNCHANGED <<created, hasTx, expires, provider, shown, faults>>

\* An intent still being created or fulfilled answers 409.
CheckBlocking(r) ==
  /\ req[r].step = "checkBlocking"
  /\ Goto(r, IF \E i \in SameSlot(r) : status[i] \in Blocking THEN "done" ELSE "reserve")
  /\ RequestFrame
  /\ UNCHANGED <<status, created, hasTx, expires, provider, shown, faults>>

LiveInMutant(r) == {i \in SameSlot(r) : status[i] = "active"}   \* the constraint forgets "creating"
LiveIn(r) == {i \in SameSlot(r) : status[i] \in Live}

\* INSERT under the partial unique constraint; a violation sends the request
\* to read who won, in a statement of its own.
Reserve(r) ==
  /\ req[r].step = "reserve"
  /\ \/ /\ LiveIn(r) = {}
        /\ status' = [status EXCEPT ![r] = "creating"]
        /\ created' = [created EXCEPT ![r] = now]
        /\ Goto(r, "callProvider")
     \/ /\ LiveIn(r) # {}
        /\ Goto(r, "readWinner")
        /\ UNCHANGED <<status, created>>
  /\ RequestFrame
  /\ UNCHANGED <<hasTx, expires, provider, shown, faults>>

\* The winner's unexpired link is answered; a winner still creating is a 409,
\* and a winner that is gone by now re-raises the IntegrityError.
ReadWinner(r) ==
  /\ req[r].step = "readWinner"
  /\ Goto(r, "done")
  /\ \/ \E i \in Reusable(r) : shown' = shown \union {i}
     \/ Reusable(r) = {} /\ UNCHANGED shown
  /\ RequestFrame
  /\ UNCHANGED <<status, created, hasTx, expires, provider, faults>>

\* POST /transaction/process.  An error may be reported for a transaction the
\* provider did create (a timeout, a malformed answer).
CallProvider(r) ==
  /\ req[r].step = "callProvider"
  /\ \/ provider' = [provider EXCEPT ![r] = "pending"] /\ Goto(r, "activate")
     \/ provider' = [provider EXCEPT ![r] = "pending"] /\ Goto(r, "failCreation")
     \/ UNCHANGED provider /\ Goto(r, "failCreation")
  /\ RequestFrame
  /\ UNCHANGED <<status, created, hasTx, expires, shown, faults>>

StoreTransactionMutant(r) ==   \* a creation that was given up is revived
  IF status[r] \in {"creating", "create_failed"}
  THEN /\ status' = [status EXCEPT ![r] = "active"]
       /\ hasTx' = [hasTx EXCEPT ![r] = TRUE]
       /\ expires' = [expires EXCEPT ![r] = req[r].at + LinkLife]
  ELSE UNCHANGED <<status, hasTx, expires>>

\* The conditional UPDATE creating -> active, and the columns it fills.
StoreTransaction(r) ==
  IF status[r] = "creating"
  THEN /\ status' = [status EXCEPT ![r] = "active"]
       /\ hasTx' = [hasTx EXCEPT ![r] = TRUE]
       /\ expires' = [expires EXCEPT ![r] = req[r].at + LinkLife]
  ELSE UNCHANGED <<status, hasTx, expires>>

\* The link is answered when this call, or an earlier attempt of it, made the
\* row active; a row failed as stale meanwhile answers creation_lost.
Activate(r) ==
  /\ req[r].step = "activate"
  /\ StoreTransaction(r)
  /\ shown' = IF status[r] \in {"creating", "active"} THEN shown \union {r} ELSE shown
  /\ Goto(r, "done")
  /\ RequestFrame
  /\ UNCHANGED <<created, provider, faults>>

\* OperationalError from the UPDATE, applied or not: it is tried again while
\* the error is a lock and attempts remain, and then given up.
ActivateError(r) ==
  /\ req[r].step = "activate"
  /\ Fault("db")
  /\ StoreTransaction(r) \/ UNCHANGED <<status, hasTx, expires>>
  /\ Goto(r, "activate") \/ Goto(r, "failCreation")
  /\ RequestFrame
  /\ UNCHANGED <<created, provider, shown>>

FailCreationMutant(r) ==   \* not conditional on the status
  /\ req[r].step = "failCreation"
  /\ status' = [status EXCEPT ![r] = "create_failed"]
  /\ Goto(r, "done")
  /\ RequestFrame
  /\ UNCHANGED <<created, hasTx, expires, provider, shown, faults>>

FailCreation(r) ==
  /\ req[r].step = "failCreation"
  /\ status' = IF status[r] = "creating"
               THEN [status EXCEPT ![r] = "create_failed"] ELSE status
  /\ Goto(r, "done")
  /\ RequestFrame
  /\ UNCHANGED <<created, hasTx, expires, provider, shown, faults>>

\* Before the provider call any step may answer 503 on a database error, an
\* unusable catalogue or a missing commission; failCreation gives up on a lock.
\* A killed worker stops anywhere.
AbandonRequest(r) ==
  /\ \/ Fault("db") /\ req[r].step \notin {"new", "callProvider", "activate", "done"}
     \/ Fault("crash") /\ req[r].step \notin {"new", "done"}
  /\ Goto(r, "done")
  /\ RequestFrame
  /\ UNCHANGED <<status, created, hasTx, expires, provider, shown>>

RequestStep(r) == \/ Lookup(r) \/ ExpireActive(r) \/ FailStaleCreating(r)
                  \/ CheckBlocking(r) \/ Reserve(r) \/ ReadWinner(r)
                  \/ CallProvider(r) \/ Activate(r) \/ FailCreation(r)
-------------------------------------------------------------------------------
(* The provider and the buyer.  A transaction ends confirmed or canceled,   *)
(* never both; only a link the buyer was shown is paid.                     *)

WorldFrame == UNCHANGED <<now, rowVars, resultVars, req, taskVars, shown, acked, faults>>

Pay(r) == /\ r \in shown
          /\ provider[r] = "pending"
          /\ provider' = [provider EXCEPT ![r] = "confirmed"]
          /\ WorldFrame
          /\ UNCHANGED cb

ProviderCancel(r) == /\ provider[r] = "pending"
                     /\ provider' = [provider EXCEPT ![r] = "canceled"]
                     /\ WorldFrame
                     /\ UNCHANGED cb

\* What the provider may report: the final status, any number of times, and
\* messages the backend does not act on (an underpayment, CHARGEBACKED).
Reports(r) == (IF provider[r] = "confirmed" THEN {"CONFIRMED"} ELSE {})
              \union (IF provider[r] = "canceled" THEN {"CANCELED"} ELSE {})
              \union (IF provider[r] # "none" THEN {"OTHER"} ELSE {})

Deliver(w, r, m) == /\ cb[w].step = "idle"
                    /\ m \in Reports(r)
                    /\ cb' = [cb EXCEPT ![w] = [step |-> "validate", tx |-> r, msg |-> m]]
                    /\ WorldFrame
                    /\ UNCHANGED provider

\* The provider repeats a confirmation until it is answered 200.
Redeliver(r) == r \notin acked /\ \E w \in Workers : Deliver(w, r, "CONFIRMED")
-------------------------------------------------------------------------------
(* PlategaCallbackView: ValidatePlategaCallbackService, then, for a         *)
(* confirmation, ApplyPlategaPaymentService.                                *)

WorkerGoto(w, s) == cb' = [cb EXCEPT ![w].step = s]

\* An HTTP 200 ends the provider's redelivery of a final status.
Answer200(w) == /\ cb' = [cb EXCEPT ![w] = Idle]
                /\ acked' = IF cb[w].msg = "OTHER" THEN acked ELSE acked \union {cb[w].tx}

\* An HTTP 503 asks for another delivery.
Answer503(w) == cb' = [cb EXCEPT ![w] = Idle] /\ UNCHANGED acked

CallbackFrame == UNCHANGED <<now, created, hasTx, expires, sent, req, told, provider, shown>>

\* Unknown transactions and messages not acted on are acknowledged, CANCELED
\* releases an unpaid intent, CONFIRMED goes on unless the status forbids it.
Validate(w) ==
  LET r == cb[w].tx IN
  /\ cb[w].step = "validate"
  /\ \/ /\ ~hasTx[r] \/ cb[w].msg = "OTHER"
        /\ Answer200(w)
        /\ UNCHANGED status
     \/ /\ hasTx[r] /\ cb[w].msg = "CANCELED"
        /\ status' = IF status[r] \in {"active", "local_expired"}
                     THEN [status EXCEPT ![r] = "provider_canceled"] ELSE status
        /\ Answer200(w)
     \/ /\ hasTx[r] /\ cb[w].msg = "CONFIRMED" /\ status[r] \notin ConfirmedStates
        /\ Answer200(w)
        /\ UNCHANGED status
     \/ /\ hasTx[r] /\ cb[w].msg = "CONFIRMED" /\ status[r] \in ConfirmedStates
        /\ WorkerGoto(w, "apply")
        /\ UNCHANGED <<status, acked>>
  /\ CallbackFrame
  /\ UNCHANGED <<payment, marker, resultVars, task, faults>>

CanClaim(r) == status[r] \in Claimable /\ ~payment[r]

FulfilMutant(w) ==   \* the delivery's on_commit callback is never registered
  LET r == cb[w].tx IN
  /\ cb[w].step = "apply"
  /\ CanClaim(r)
  /\ status' = [status EXCEPT ![r] = "fulfilled"]
  /\ payment' = [payment EXCEPT ![r] = TRUE]
  /\ marker' = [marker EXCEPT ![r] = w]
  /\ grants' = [grants EXCEPT ![r] = @ + 1]
  /\ delivery' = [delivery EXCEPT ![r] = "due"]
  /\ WorkerGoto(w, "publish")
  /\ CallbackFrame
  /\ UNCHANGED <<acked, task, faults>>

\* The transaction commits: result, Payment, intent and notification marker
\* together.  A new key or a VPN purchase registers a server delivery to
\* publish after the commit, an extended key or a gift does not.  (A payment
\* replayed from before the cashback ledger, which is not announced, is left out.)
Fulfil(w) ==
  LET r == cb[w].tx IN
  /\ cb[w].step = "apply"
  /\ CanClaim(r)
  /\ status' = [status EXCEPT ![r] = "fulfilled"]
  /\ payment' = [payment EXCEPT ![r] = TRUE]
  /\ marker' = [marker EXCEPT ![r] = w]
  /\ grants' = [grants EXCEPT ![r] = @ + 1]
  /\ \/ delivery' = [delivery EXCEPT ![r] = "due"] /\ WorkerGoto(w, "hook")
     \/ UNCHANGED delivery /\ WorkerGoto(w, "publish")
  /\ CallbackFrame
  /\ UNCHANGED <<acked, task, faults>>

\* Any error inside the transaction rolls all of it back.
FulfilRollback(w) ==
  /\ cb[w].step = "apply"
  /\ CanClaim(cb[w].tx)
  /\ Fault("fulfil")
  /\ WorkerGoto(w, "mark")
  /\ CallbackFrame
  /\ UNCHANGED <<status, payment, marker, resultVars, acked, task>>

ApplyAgainMutant(w) ==   \* the marker is not asked
  LET r == cb[w].tx IN
  /\ cb[w].step = "apply"
  /\ ~CanClaim(r)
  /\ \/ /\ status[r] = "fulfilled"
        /\ marker' = [marker EXCEPT ![r] = w]
        /\ WorkerGoto(w, "publish")
        /\ UNCHANGED acked
     \/ /\ status[r] # "fulfilled"
        /\ Answer503(w)
        /\ UNCHANGED marker
  /\ CallbackFrame
  /\ UNCHANGED <<status, payment, resultVars, task, faults>>

\* Nothing to claim: a fulfilled intent whose notification is not queued has
\* it queued, one that is already queued answers 200, anything else is
\* "processing".
ApplyAgain(w) ==
  LET r == cb[w].tx IN
  /\ cb[w].step = "apply"
  /\ ~CanClaim(r)
  /\ \/ /\ status[r] = "fulfilled" /\ marker[r] = NoWorker
        /\ marker' = [marker EXCEPT ![r] = w]
        /\ WorkerGoto(w, "publish")
        /\ UNCHANGED acked
     \/ /\ status[r] = "fulfilled" /\ marker[r] # NoWorker
        /\ Answer200(w)
        /\ UNCHANGED marker
     \/ /\ status[r] # "fulfilled"
        /\ Answer503(w)
        /\ UNCHANGED marker
  /\ CallbackFrame
  /\ UNCHANGED <<status, payment, resultVars, task, faults>>

MarkRetryableMutant(w) ==   \* not conditional on what other workers did
  /\ cb[w].step = "mark"
  /\ status' = [status EXCEPT ![cb[w].tx] = "retryable"]
  /\ Answer503(w)
  /\ CallbackFrame
  /\ UNCHANGED <<payment, marker, resultVars, task, faults>>

\* After the rollback the intent becomes retryable, unless another worker has
\* moved it on.
MarkRetryable(w) ==
  LET r == cb[w].tx IN
  /\ cb[w].step = "mark"
  /\ status' = IF status[r] \in Markable /\ ~payment[r]
               THEN [status EXCEPT ![r] = "retryable"] ELSE status
  /\ Answer503(w)
  /\ CallbackFrame
  /\ UNCHANGED <<payment, marker, resultVars, task, faults>>

\* The fulfilment's own on_commit callback runs first.
RunHook(w) ==
  /\ cb[w].step = "hook"
  /\ delivery' = [delivery EXCEPT ![cb[w].tx] = "published"]
  /\ WorkerGoto(w, "publish")
  /\ CallbackFrame
  /\ UNCHANGED <<status, payment, marker, grants, acked, task, faults>>

\* Its failure skips the remaining callbacks.
RunHookFails(w) ==
  /\ cb[w].step = "hook"
  /\ Fault("publish")
  /\ WorkerGoto(w, "clear")
  /\ CallbackFrame
  /\ UNCHANGED <<status, payment, marker, resultVars, acked, task>>

Enqueue(r) == \E t \in Tasks : /\ task[t].step = "none"
                               /\ task' = [task EXCEPT ![t] = [step |-> "queued", tx |-> r,
                                                               tries |-> 0]]

Publish(w) ==
  /\ cb[w].step = "publish"
  /\ Enqueue(cb[w].tx)
  /\ Answer200(w)
  /\ CallbackFrame
  /\ UNCHANGED <<status, payment, marker, resultVars, faults>>

\* The broker is unreachable, possibly only after it took the message.
PublishFails(w) ==
  /\ cb[w].step = "publish"
  /\ Fault("publish")
  /\ Enqueue(cb[w].tx) \/ UNCHANGED task
  /\ WorkerGoto(w, "clear")
  /\ CallbackFrame
  /\ UNCHANGED <<status, payment, marker, resultVars, acked>>

ClearMarkerMutant(w) ==   \* the marker of a failed enqueue is kept
  /\ cb[w].step = "clear"
  /\ Answer503(w)
  /\ CallbackFrame
  /\ UNCHANGED <<status, payment, marker, resultVars, task, faults>>

\* Only the worker's own marker is cleared.
ClearMarker(w) ==
  LET r == cb[w].tx IN
  /\ cb[w].step = "clear"
  /\ marker' = IF marker[r] = w /\ status[r] = "fulfilled"
               THEN [marker EXCEPT ![r] = NoWorker] ELSE marker
  /\ Answer503(w)
  /\ CallbackFrame
  /\ UNCHANGED <<status, payment, resultVars, task, faults>>

\* A database error before or after the transaction answers 503 (marking and
\* clearing are then given up); a killed worker answers nothing.  Either way
\* the provider has no 200.
AbandonCallback(w) ==
  /\ \/ Fault("db") /\ cb[w].step \in {"validate", "apply", "mark", "clear"}
     \/ Fault("crash") /\ cb[w].step # "idle"
  /\ Answer503(w)
  /\ CallbackFrame
  /\ UNCHANGED <<status, payment, marker, resultVars, task>>

CallbackStep(w) == \/ Validate(w) \/ Fulfil(w) \/ ApplyAgain(w) \/ MarkRetryable(w)
                   \/ RunHook(w) \/ Publish(w) \/ ClearMarker(w)
-------------------------------------------------------------------------------
(* notify_platega_purchase_task.                                            *)

TaskFrame == UNCHANGED <<now, status, created, hasTx, expires, payment, marker, resultVars,
                         req, cb, worldVars>>

TaskGoto(t, s) == task' = [task EXCEPT ![t].step = s]

DropTask(t) == task' = [task EXCEPT ![t] = NoTask]

\* Only a queued, unsent notification of a fulfilled intent is sent.
StartTask(t) ==
  LET r == task[t].tx IN
  /\ task[t].step = "queued"
  /\ IF status[r] = "fulfilled" /\ payment[r] /\ marker[r] # NoWorker /\ ~sent[r]
     THEN TaskGoto(t, "send") ELSE DropTask(t)
  /\ TaskFrame
  /\ UNCHANGED <<sent, told, faults>>

SendMessage(t) ==
  /\ task[t].step = "send"
  /\ told' = [told EXCEPT ![task[t].tx] = @ + 1]
  /\ TaskGoto(t, "markSent")
  /\ TaskFrame
  /\ UNCHANGED <<sent, faults>>

\* The sender raised, perhaps after Telegram took the message: retry(countdown=30),
\* or the task is dropped, its retries used up or the broker refusing the retry.
SendFails(t) ==
  /\ task[t].step = "send"
  /\ told' \in {told, [told EXCEPT ![task[t].tx] = @ + 1]}
  /\ \/ /\ task[t].tries < MaxRetries
        /\ Fault("telegram")
        /\ task' = [task EXCEPT ![t].step = "queued", ![t].tries = @ + 1]
     \/ ((task[t].tries = MaxRetries /\ Fault("telegram")) \/ Fault("retry")) /\ DropTask(t)
  /\ TaskFrame
  /\ UNCHANGED sent

MarkSent(t) ==
  LET r == task[t].tx IN
  /\ task[t].step = "markSent"
  /\ sent' = IF status[r] = "fulfilled" THEN [sent EXCEPT ![r] = TRUE] ELSE sent
  /\ DropTask(t)
  /\ TaskFrame
  /\ UNCHANGED <<told, faults>>

\* A message is acknowledged to the broker before the task runs, so a task
\* that is killed, or fails on a database error, is gone.
LoseTask(t) ==
  /\ \/ Fault("crash") /\ task[t].step \in {"send", "markSent"}
     \/ Fault("db") /\ task[t].step \in {"queued", "markSent"}
  /\ DropTask(t)
  /\ TaskFrame
  /\ UNCHANGED <<sent, told>>

TaskStep(t) == StartTask(t) \/ SendMessage(t) \/ MarkSent(t)
-------------------------------------------------------------------------------
Next == \/ Tick
        \/ \E r \in Requests : \/ Begin(r) \/ RequestStep(r) \/ ActivateError(r)
                               \/ AbandonRequest(r) \/ Pay(r) \/ ProviderCancel(r)
        \/ \E w \in Workers, r \in Requests, m \in Messages : Deliver(w, r, m)
        \/ \E w \in Workers : \/ CallbackStep(w) \/ FulfilRollback(w) \/ RunHookFails(w)
                              \/ PublishFails(w) \/ AbandonCallback(w)
        \/ \E t \in Tasks : TaskStep(t) \/ SendFails(t) \/ LoseTask(t)

Safety == Init /\ [][Next]_vars

\* A worker that runs goes on running, Celery takes what is queued, and the
\* provider repeats an unacknowledged confirmation, meeting a free worker at
\* some of its attempts.  The buyer, the clock and the faults owe nothing.
Fairness == /\ \A r \in Requests : WF_vars(RequestStep(r)) /\ SF_vars(Redeliver(r))
            /\ \A w \in Workers : WF_vars(CallbackStep(w))
            /\ \A t \in Tasks : WF_vars(TaskStep(t))

Spec == Safety /\ Fairness
-------------------------------------------------------------------------------
(* Safety.                                                                  *)

\* At most one intent of a slot is being created or payable: no UPDATE of this
\* code ever meets the partial unique constraint, which only the INSERT handles.
OneLiveInvoice ==
  \A i, j \in Requests :
    SlotOf[i] = SlotOf[j] /\ status[i] \in Live /\ status[j] \in Live => i = j

\* Whatever link the buyer was ever shown, the backend can still resolve a
\* payment of it: the transaction is stored and its intent is not one that the
\* callback answers with "duplicate", unless the provider itself canceled it.
PayableLinkIsHonoured ==
  \A r \in shown :
    /\ hasTx[r]
    /\ \/ status[r] \in Claimable \union {"fulfilled"}
       \/ status[r] = "provider_canceled" /\ provider[r] = "canceled"

\* A creation that died is not what blocks a later request: past the cleanup
\* of a request, every intent of its slot still being created is young.
StaleCreatingNeverBlocks ==
  \A r \in Requests : req[r].step \in {"checkBlocking", "reserve", "readWinner"} =>
    \A i \in SameSlot(r) : status[i] = "creating" => created[i] + StaleAfter > req[r].at

\* The purchased result is granted once for a confirmed transaction and never
\* otherwise, and exactly then the intent is fulfilled and holds its Payment.
GrantedExactlyOnce ==
  \A r \in Requests :
    /\ grants[r] = IF status[r] = "fulfilled" THEN 1 ELSE 0
    /\ payment[r] <=> status[r] = "fulfilled"
    /\ status[r] = "fulfilled" => provider[r] = "confirmed"

\* A confirmation is answered 200, which ends its redelivery, only when the
\* purchase is fulfilled.
SettledOnlyWhenGranted ==
  \A r \in acked : provider[r] = "confirmed" => status[r] = "fulfilled"

\* While the broker answers and no process dies, at most one notification task of
\* a purchase is outstanding, however callbacks, retries and failures interleave.
OneNotificationTask ==
  faults.kinds \intersect {"publish", "crash"} = {} =>
    \A t, u \in Tasks :
      task[t].step # "none" /\ task[u].step # "none" /\ task[t].tx = task[u].tx => t = u

\* An intent that reached its end, and the Payment it was fulfilled with, is
\* never touched by a late expiry, cancellation, cleanup or retry mark.
FinalStatusIsFinal ==
  [][\A r \in Requests :
       status[r] \in {"fulfilled", "provider_canceled", "create_failed"} =>
         status'[r] = status[r] /\ payment'[r] = payment[r]]_vars
-------------------------------------------------------------------------------
(* Liveness.                                                                *)

\* What loses an announcement: a process killed, a task's database error, a
\* refused retry, more failed sends than the task retries, or an enqueue that fails
\* after a repeated callback was answered 200 on the strength of its marker.
Unannounceable(r) ==
  \/ faults.kinds \intersect {"crash", "db", "retry"} # {}
  \/ "telegram" \in faults.kinds /\ faults.n > MaxRetries
  \/ "publish" \in faults.kinds /\ r \in acked /\ marker[r] = NoWorker

\* A fulfilled purchase is announced to its buyer, whatever failed before in the
\* fulfilment, at the broker or in the sends.
EveryPurchaseAnnounced ==
  \A r \in Requests : status[r] = "fulfilled" ~> told[r] > 0 \/ Unannounceable(r)

\* Access granted by a purchase is handed to the delivery to the servers, unless
\* the broker refused it or a process died: nothing repeats that publication.
DeliveryIsPublished ==
  \A r \in Requests :
    delivery[r] = "due" ~> \/ delivery[r] = "published"
                           \/ faults.kinds \intersect {"publish", "crash"} # {}

\* The integration keeps what a purchase promises.
Contract == INSTANCE PurchaseContract
              WITH Txns <- Requests,
                   charged <- {r \in Requests : provider[r] = "confirmed"},
                   settled <- {r \in acked : provider[r] = "confirmed"},
                   announced <- {r \in Requests : told[r] > 0}

ImplementsContract == Contract!Spec
-------------------------------------------------------------------------------
(* The inductive invariant of the safety proofs.                            *)

BeforeReserve == {"new", "lookup", "expire", "failStale", "checkBlocking", "reserve",
                  "readWinner"}

\* A row exists once it was reserved, a transaction once it was asked for.
RequestInv ==
  \A r \in Requests :
    /\ req[r].step \in BeforeReserve => status[r] = "none"
    /\ req[r].step \in BeforeReserve \union {"callProvider"} => provider[r] = "none"
    /\ req[r].at <= now

\* What the columns of a row, the provider and the buyer know of each other.
RowInv ==
  \A r \in Requests :
    /\ status[r] # "processing"
    /\ hasTx[r] <=> status[r] \in Claimable \union {"fulfilled", "provider_canceled"}
    /\ status[r] \in {"retryable", "fulfilled"} => provider[r] = "confirmed"
    /\ status[r] = "provider_canceled" => provider[r] = "canceled"
    /\ r \in shown => hasTx[r]
    /\ provider[r] = "confirmed" => r \in shown
    /\ told[r] > 0 => status[r] = "fulfilled"
    /\ r \in acked => \/ provider[r] = "canceled"
                      \/ provider[r] = "confirmed" /\ status[r] = "fulfilled"

\* What a worker has established about the transaction it serves.
CallbackInv ==
  \A w \in Workers :
    LET r == cb[w].tx IN
    /\ cb[w].step = "validate" /\ cb[w].msg = "CONFIRMED" => provider[r] = "confirmed"
    /\ cb[w].step = "validate" /\ cb[w].msg = "CANCELED" => provider[r] = "canceled"
    /\ cb[w].step \in {"apply", "mark"} => provider[r] = "confirmed" /\ hasTx[r]
    /\ cb[w].step \in {"hook", "publish", "clear"} => status[r] = "fulfilled"

TaskInv == \A t \in Tasks : task[t].step # "none" => status[task[t].tx] = "fulfilled"

IInv == /\ TypeOK
        /\ OneLiveInvoice
        /\ StaleCreatingNeverBlocks
        /\ GrantedExactlyOnce
        /\ RequestInv
        /\ RowInv
        /\ CallbackInv
        /\ TaskInv
===============================================================================
