------------------------- MODULE PlategaIntentsProofs -------------------------
(***************************************************************************)
(* Proofs about PlategaIntents for any requests, slots, workers, tasks,     *)
(* bounds and faults.  IInv is the inductive invariant; the safety          *)
(* properties the runs check on small instances follow from it.             *)
(***************************************************************************)
EXTENDS PlategaIntents, TLAPS

\* The reset records of a free worker and a free task are well typed.
LEMMA ResetTypes ==
  /\ Idle \in [step : WorkerSteps, tx : Requests, msg : Messages]
  /\ NoTask \in [step : TaskSteps, tx : Requests, tries : 0..MaxRetries]
<1>1. AnyRequest \in Requests
  BY RequestsAssumption DEF AnyRequest
<1>2. 0 \in 0..MaxRetries
  BY FaultAssumption
<1> QED
  BY <1>1, <1>2 DEF Idle, NoTask, WorkerSteps, TaskSteps, Messages

\* The initial state is well typed.
LEMMA TypeInit == Init => TypeOK
<1> SUFFICES ASSUME Init PROVE TypeOK
  OBVIOUS
<1> QED
  BY ResetTypes, TimeAssumption, FaultAssumption
  DEF Init, TypeOK, Statuses, RequestSteps, FaultsOK

\* What an injected fault does to the record of faults.
LEMMA FaultType ==
  ASSUME NEW k, Fault(k), TypeOK
  PROVE  FaultsOK'
BY FaultAssumption DEF Fault, TypeOK, FaultsOK

\* A request that moves on is still a request.
LEMMA GotoType ==
  ASSUME TypeOK, NEW r \in Requests, NEW s \in RequestSteps, Goto(r, s)
  PROVE  req' \in [Requests -> [step : RequestSteps, at : 0..MaxTime]]
BY DEF TypeOK, Goto

\* The steps of an invoice request keep every type.
LEMMA RequestType ==
  ASSUME TypeOK, NEW r \in Requests,
         Begin(r) \/ RequestStep(r) \/ ActivateError(r) \/ AbandonRequest(r)
  PROVE  TypeOK'
<1> DEFINE ReqType == req \in [Requests -> [step : RequestSteps, at : 0..MaxTime]]
<1>0. ASSUME NEW s \in {"expire", "failStale", "checkBlocking", "reserve", "readWinner",
                        "callProvider", "activate", "failCreation", "done"},
             Goto(r, s)
      PROVE  ReqType'
  BY <1>0, GotoType DEF RequestSteps
<1> USE DEF TypeOK, FaultsOK, RequestFrame, rowVars, resultVars, taskVars, worldVars
<1>1. CASE Begin(r)
  BY <1>1 DEF Begin, RequestSteps
<1>2. CASE Lookup(r)
  BY <1>0, <1>2 DEF Lookup, Reusable, SameSlot
<1>3. CASE ExpireActive(r)
  BY <1>0, <1>3 DEF ExpireActive, Statuses
<1>4. CASE FailStaleCreating(r)
  BY <1>0, <1>4 DEF FailStaleCreating, Statuses
<1>5. CASE CheckBlocking(r)
  BY <1>0, <1>5 DEF CheckBlocking
<1>6. CASE Reserve(r)
  <2>1. status' \in [Requests -> Statuses \union {"none"}]
    BY <1>6 DEF Reserve, Statuses
  <2>2. created' \in [Requests -> 0..MaxTime]
    BY <1>6 DEF Reserve
  <2>3. ReqType'
    BY <1>0, <1>6 DEF Reserve
  <2> QED
    BY <1>6, <2>1, <2>2, <2>3 DEF Reserve
<1>7. CASE ReadWinner(r)
  BY <1>0, <1>7 DEF ReadWinner, Reusable, SameSlot
<1>8. CASE CallProvider(r)
  BY <1>0, <1>8 DEF CallProvider
<1>9. ASSUME StoreTransaction(r)
      PROVE  /\ status' \in [Requests -> Statuses \union {"none"}]
             /\ hasTx' \in [Requests -> BOOLEAN]
             /\ expires' \in [Requests -> Nat]
  <2>1. req[r].at + LinkLife \in Nat
    BY TimeAssumption
  <2>2. CASE status[r] = "creating"
    <3>1. status' \in [Requests -> Statuses \union {"none"}]
      BY <1>9, <2>2 DEF StoreTransaction, Statuses
    <3>2. hasTx' \in [Requests -> BOOLEAN]
      BY <1>9, <2>2 DEF StoreTransaction
    <3>3. expires' \in [Requests -> Nat]
      BY <1>9, <2>1, <2>2 DEF StoreTransaction
    <3> QED
      BY <3>1, <3>2, <3>3
  <2>3. CASE status[r] # "creating"
    BY <1>9, <2>3 DEF StoreTransaction, Statuses
  <2> QED
    BY <2>2, <2>3
<1>10. CASE Activate(r)
  BY <1>0, <1>9, <1>10 DEF Activate
<1>11. CASE ActivateError(r)
  BY <1>0, <1>9, <1>11, FaultType DEF ActivateError
<1>12. CASE FailCreation(r)
  BY <1>0, <1>12 DEF FailCreation, Statuses
<1>13. CASE AbandonRequest(r)
  BY <1>0, <1>13, FaultType DEF AbandonRequest
<1> QED
  BY <1>1, <1>2, <1>3, <1>4, <1>5, <1>6, <1>7, <1>8, <1>10, <1>11, <1>12, <1>13
  DEF RequestStep

\* The clock, the buyer and the provider keep every type.
LEMMA WorldType ==
  ASSUME TypeOK,
         \/ Tick
         \/ \E r \in Requests : Pay(r) \/ ProviderCancel(r)
         \/ \E w \in Workers, r \in Requests, m \in Messages : Deliver(w, r, m)
  PROVE  TypeOK'
<1> USE DEF TypeOK, FaultsOK, WorldFrame, rowVars, resultVars, taskVars, worldVars
<1>1. CASE Tick
  BY <1>1, TimeAssumption DEF Tick
<1>2. ASSUME NEW r \in Requests, Pay(r) PROVE TypeOK'
  BY <1>2 DEF Pay
<1>3. ASSUME NEW r \in Requests, ProviderCancel(r) PROVE TypeOK'
  BY <1>3 DEF ProviderCancel
<1>4. ASSUME NEW w \in Workers, NEW r \in Requests, NEW m \in Messages, Deliver(w, r, m)
      PROVE  TypeOK'
  BY <1>4 DEF Deliver, WorkerSteps
<1> QED
  BY <1>1, <1>2, <1>3, <1>4

\* The ways a worker goes on, and the ways it answers.
LEMMA WorkerType ==
  ASSUME TypeOK, NEW w \in Workers,
         \/ \E s \in WorkerSteps : WorkerGoto(w, s)
         \/ Answer200(w)
         \/ Answer503(w)
  PROVE  cb' \in [Workers -> [step : WorkerSteps, tx : Requests, msg : Messages]]
<1>1. ASSUME NEW s \in WorkerSteps, WorkerGoto(w, s)
      PROVE  cb' \in [Workers -> [step : WorkerSteps, tx : Requests, msg : Messages]]
  <2>1. cb[w] \in [step : WorkerSteps, tx : Requests, msg : Messages]
    BY DEF TypeOK
  <2>2. [cb[w] EXCEPT !.step = s] \in [step : WorkerSteps, tx : Requests, msg : Messages]
    BY <2>1
  <2> QED
    BY <1>1, <2>2 DEF TypeOK, WorkerGoto
<1>2. CASE cb' = [cb EXCEPT ![w] = Idle]
  BY <1>2, ResetTypes DEF TypeOK
<1> QED
  BY <1>1, <1>2 DEF Answer200, Answer503

\* Acknowledging a callback only ever adds transactions.
LEMMA AckedType ==
  ASSUME TypeOK, NEW w \in Workers, Answer200(w) \/ Answer503(w) \/ UNCHANGED acked
  PROVE  acked' \subseteq Requests
BY DEF TypeOK, FaultsOK, Answer200, Answer503

\* An enqueued notification is a well-typed task.
LEMMA EnqueueType ==
  ASSUME TypeOK, NEW r \in Requests, Enqueue(r) \/ UNCHANGED task
  PROVE  task' \in [Tasks -> [step : TaskSteps, tx : Requests, tries : 0..MaxRetries]]
<1>1. 0 \in 0..MaxRetries /\ "queued" \in TaskSteps
  BY FaultAssumption DEF TaskSteps
<1>2. [step |-> "queued", tx |-> r, tries |-> 0]
        \in [step : TaskSteps, tx : Requests, tries : 0..MaxRetries]
  BY <1>1
<1>3. CASE Enqueue(r)
  <2>1. PICK t \in Tasks : task' = [task EXCEPT ![t] = [step |-> "queued", tx |-> r,
                                                         tries |-> 0]]
    BY <1>3 DEF Enqueue
  <2> QED
    BY <1>2, <2>1 DEF TypeOK
<1> QED
  BY <1>3 DEF TypeOK

\* The steps of a worker serving a callback keep every type.
LEMMA CallbackType ==
  ASSUME TypeOK, NEW w \in Workers,
         \/ CallbackStep(w) \/ FulfilRollback(w) \/ RunHookFails(w)
         \/ PublishFails(w) \/ AbandonCallback(w)
  PROVE  TypeOK'
<1> DEFINE r == cb[w].tx
           CbType == cb \in [Workers -> [step : WorkerSteps, tx : Requests, msg : Messages]]
<1>0. r \in Requests
  BY DEF TypeOK
<1>1. ASSUME NEW s \in {"apply", "hook", "publish", "clear", "mark"}, WorkerGoto(w, s)
      PROVE  CbType'
  BY <1>1, WorkerType DEF WorkerSteps
<1>2. Answer200(w) \/ Answer503(w) => CbType' /\ acked' \subseteq Requests
  BY WorkerType, AckedType
<1> HIDE DEF r, CbType
<1> USE DEF CallbackFrame, rowVars, resultVars, taskVars, worldVars
<1>3. CASE Validate(w)
  <2>1. status' \in [Requests -> Statuses \union {"none"}]
    BY <1>0, <1>3 DEF Validate, TypeOK, Statuses, r
  <2>2. CbType' /\ acked' \subseteq Requests
    BY <1>1, <1>2, <1>3 DEF Validate, TypeOK
  <2> QED
    BY <1>3, <2>1, <2>2 DEF Validate, TypeOK, FaultsOK, CbType
<1>4. CASE Fulfil(w)
  <2>1. /\ status' \in [Requests -> Statuses \union {"none"}]
        /\ payment' \in [Requests -> BOOLEAN]
        /\ marker' \in [Requests -> Workers \union {NoWorker}]
        /\ grants' \in [Requests -> Nat]
        /\ delivery' \in [Requests -> {"none", "due", "published"}]
    BY <1>0, <1>4 DEF Fulfil, TypeOK, Statuses, r
  <2>2. CbType'
    BY <1>1, <1>4 DEF Fulfil
  <2> QED
    BY <1>4, <2>1, <2>2 DEF Fulfil, TypeOK, FaultsOK, CbType
<1>5. CASE FulfilRollback(w)
  BY <1>1, <1>5, FaultType DEF FulfilRollback, TypeOK, FaultsOK, CbType
<1>6. CASE ApplyAgain(w)
  <2>1. marker' \in [Requests -> Workers \union {NoWorker}]
    BY <1>0, <1>6 DEF ApplyAgain, TypeOK, r
  <2>2. CbType' /\ acked' \subseteq Requests
    BY <1>1, <1>2, <1>6 DEF ApplyAgain, TypeOK
  <2> QED
    BY <1>6, <2>1, <2>2 DEF ApplyAgain, TypeOK, FaultsOK, CbType
<1>7. CASE MarkRetryable(w)
  <2>1. status' \in [Requests -> Statuses \union {"none"}]
    BY <1>0, <1>7 DEF MarkRetryable, TypeOK, Statuses, r
  <2> QED
    BY <1>2, <1>7, <2>1 DEF MarkRetryable, TypeOK, FaultsOK, CbType
<1>8. CASE RunHook(w)
  <2>1. delivery' \in [Requests -> {"none", "due", "published"}]
    BY <1>0, <1>8 DEF RunHook, TypeOK, r
  <2> QED
    BY <1>1, <1>8, <2>1 DEF RunHook, TypeOK, FaultsOK, CbType
<1>9. CASE RunHookFails(w)
  BY <1>1, <1>9, FaultType DEF RunHookFails, TypeOK, FaultsOK, CbType
<1>10. CASE Publish(w)
  BY <1>0, <1>2, <1>10, EnqueueType DEF Publish, TypeOK, FaultsOK, CbType, r
<1>11. CASE PublishFails(w)
  BY <1>0, <1>1, <1>11, EnqueueType, FaultType DEF PublishFails, TypeOK, FaultsOK, CbType, r
<1>12. CASE ClearMarker(w)
  <2>1. marker' \in [Requests -> Workers \union {NoWorker}]
    BY <1>0, <1>12 DEF ClearMarker, TypeOK, r
  <2> QED
    BY <1>2, <1>12, <2>1 DEF ClearMarker, TypeOK, FaultsOK, CbType
<1>13. CASE AbandonCallback(w)
  BY <1>2, <1>13, FaultType DEF AbandonCallback, TypeOK, FaultsOK, CbType
<1> QED
  BY <1>3, <1>4, <1>5, <1>6, <1>7, <1>8, <1>9, <1>10, <1>11, <1>12, <1>13
  DEF CallbackStep

\* The steps of a notification task keep every type.
LEMMA TaskType ==
  ASSUME TypeOK, NEW t \in Tasks, TaskStep(t) \/ SendFails(t) \/ LoseTask(t)
  PROVE  TypeOK'
<1> DEFINE r == task[t].tx
           TskType == task \in [Tasks -> [step : TaskSteps, tx : Requests,
                                          tries : 0..MaxRetries]]
<1>0. r \in Requests /\ TskType
  BY DEF TypeOK
<1>1. ASSUME NEW s \in TaskSteps, TaskGoto(t, s) PROVE TskType'
  BY <1>0, <1>1 DEF TaskGoto
<1>2. DropTask(t) => TskType'
  BY <1>0, ResetTypes DEF DropTask
<1> HIDE DEF r, TskType
<1> USE DEF TaskFrame, rowVars, resultVars, taskVars, worldVars
<1>3. CASE StartTask(t)
  <2>1. TskType'
    BY <1>1, <1>2, <1>3 DEF StartTask, TaskSteps
  <2> QED
    BY <1>3, <2>1 DEF StartTask, TypeOK, FaultsOK, TskType
<1>4. CASE SendMessage(t)
  <2>1. TskType' /\ told' \in [Requests -> Nat]
    BY <1>0, <1>1, <1>4 DEF SendMessage, TypeOK, TaskSteps, r
  <2> QED
    BY <1>4, <2>1 DEF SendMessage, TypeOK, FaultsOK, TskType
<1>5. CASE SendFails(t)
  <2>1. told' \in [Requests -> Nat]
    BY <1>0, <1>5 DEF SendFails, TypeOK, r
  <2>2. CASE /\ task[t].tries < MaxRetries
             /\ task' = [task EXCEPT ![t].step = "queued", ![t].tries = @ + 1]
    <3>1. task[t].tries + 1 \in 0..MaxRetries /\ "queued" \in TaskSteps
      BY <2>2, FaultAssumption DEF TypeOK, TaskSteps
    <3>2. TskType'
      BY <1>0, <2>2, <3>1 DEF TskType
    <3> QED
      BY <1>5, <2>1, <3>2, FaultType DEF SendFails, TypeOK, FaultsOK, TskType
  <2>3. CASE DropTask(t)
    BY <1>2, <1>5, <2>1, <2>3, FaultType DEF SendFails, TypeOK, FaultsOK, TskType
  <2> QED
    BY <1>5, <2>2, <2>3 DEF SendFails
<1>6. CASE MarkSent(t)
  <2>1. sent' \in [Requests -> BOOLEAN]
    BY <1>0, <1>6 DEF MarkSent, TypeOK, r
  <2> QED
    BY <1>2, <1>6, <2>1 DEF MarkSent, TypeOK, FaultsOK, TskType
<1>7. CASE LoseTask(t)
  BY <1>2, <1>7, FaultType DEF LoseTask, TypeOK, FaultsOK, TskType
<1> QED
  BY <1>3, <1>4, <1>5, <1>6, <1>7 DEF TaskStep

\* TypeOK is inductive on its own.
LEMMA TypeStep == TypeOK /\ [Next]_vars => TypeOK'
<1> SUFFICES ASSUME TypeOK, [Next]_vars PROVE TypeOK'
  OBVIOUS
<1>1. CASE Next
  BY <1>1, RequestType, WorldType, CallbackType, TaskType DEF Next
<1>2. CASE UNCHANGED vars
  BY <1>2 DEF TypeOK, FaultsOK, vars, rowVars, resultVars, taskVars, worldVars
<1> QED
  BY <1>1, <1>2

\* Every variable keeps its type whatever the bounds are.
THEOREM TypeCorrect == Safety => []TypeOK
BY TypeInit, TypeStep, PTL DEF Safety
-------------------------------------------------------------------------------
(* IInv is inductive.                                                       *)

\* The initial state satisfies the inductive invariant.
LEMMA InvInit == Init => IInv
<1> SUFFICES ASSUME Init PROVE IInv
  OBVIOUS
<1>1. TypeOK
  BY TypeInit
<1>2. OneLiveInvoice /\ StaleCreatingNeverBlocks /\ GrantedExactlyOnce
  BY DEF Init, OneLiveInvoice, Live, StaleCreatingNeverBlocks, SameSlot, GrantedExactlyOnce
<1>3. RequestInv /\ RowInv
  BY DEF Init, RequestInv, RowInv, Claimable, BeforeReserve
<1>4. CallbackInv /\ TaskInv
  BY DEF Init, CallbackInv, TaskInv, Idle, NoTask
<1> QED
  BY <1>1, <1>2, <1>3, <1>4 DEF IInv

\* What no step takes back: a fulfilled intent, a stored transaction, and the
\* final word of the provider.
Kept == \A i \in Requests :
          /\ status[i] = "fulfilled" => status'[i] = "fulfilled"
          /\ hasTx[i] => hasTx'[i]
          /\ provider[i] \in {"confirmed", "canceled"} => provider'[i] = provider[i]

\* While no row moves backwards, what the workers know stays true.
LEMMA KeptByCallbacks ==
  ASSUME TypeOK, CallbackInv, Kept, UNCHANGED cb
  PROVE  CallbackInv'
BY DEF TypeOK, CallbackInv, Kept

\* While no row moves backwards, queued notifications stay of fulfilled intents.
LEMMA KeptByTasks ==
  ASSUME TypeOK, TaskInv, Kept, UNCHANGED task
  PROVE  TaskInv'
BY DEF TypeOK, TaskInv, Kept

\* A request changes only rows that are still being created or are payable.
LEMMA RequestKept ==
  ASSUME IInv, NEW r \in Requests,
         Begin(r) \/ RequestStep(r) \/ ActivateError(r) \/ AbandonRequest(r)
  PROVE  Kept /\ UNCHANGED <<cb, task, told, acked, grants, payment>>
<1> USE DEF Kept, IInv, TypeOK, RequestFrame, resultVars, taskVars
<1>1. CASE Begin(r) \/ Lookup(r) \/ CheckBlocking(r) \/ ReadWinner(r) \/ AbandonRequest(r)
  BY <1>1 DEF Begin, Lookup, CheckBlocking, ReadWinner, AbandonRequest
<1>2. CASE ExpireActive(r)
  BY <1>2 DEF ExpireActive
<1>3. CASE FailStaleCreating(r)
  BY <1>3 DEF FailStaleCreating
<1>4. CASE Reserve(r)
  BY <1>4 DEF Reserve, RequestInv, BeforeReserve
<1>5. CASE CallProvider(r)
  BY <1>5 DEF CallProvider, RequestInv
<1>6. CASE Activate(r) \/ ActivateError(r)
  BY <1>6 DEF Activate, ActivateError, StoreTransaction
<1>7. CASE FailCreation(r)
  BY <1>7 DEF FailCreation
<1> QED
  BY <1>1, <1>2, <1>3, <1>4, <1>5, <1>6, <1>7 DEF RequestStep

\* What a move of one request looks like from every request.
LEMMA GotoMeans ==
  ASSUME TypeOK, NEW r \in Requests, NEW s, Goto(r, s)
  PROVE  \A q \in Requests : /\ req'[q].step = IF q = r THEN s ELSE req[q].step
                             /\ req'[q].at = req[q].at
BY DEF TypeOK, Goto

\* A request keeps at most one live intent in a slot: only the INSERT makes one.
LEMMA RequestLive ==
  ASSUME IInv, NEW r \in Requests,
         Begin(r) \/ RequestStep(r) \/ ActivateError(r) \/ AbandonRequest(r)
  PROVE  OneLiveInvoice'
<1> USE DEF IInv, TypeOK, OneLiveInvoice, Live
<1>1. CASE \A i \in Requests : status'[i] \in Live => status[i] \in Live
  BY <1>1
<1>2. CASE UNCHANGED status
  BY <1>2
<1>3. CASE ExpireActive(r)
  BY <1>1, <1>3 DEF ExpireActive
<1>4. CASE FailStaleCreating(r)
  BY <1>1, <1>4 DEF FailStaleCreating
<1>5. CASE Reserve(r)
  BY <1>5, RequestsAssumption DEF Reserve, LiveIn, SameSlot
<1>6. CASE Activate(r) \/ ActivateError(r)
  BY <1>1, <1>2, <1>6 DEF Activate, ActivateError, StoreTransaction
<1>7. CASE FailCreation(r)
  BY <1>1, <1>7 DEF FailCreation
<1>8. CASE Begin(r) \/ Lookup(r) \/ CheckBlocking(r) \/ ReadWinner(r) \/ CallProvider(r)
           \/ AbandonRequest(r)
  BY <1>2, <1>8
  DEF Begin, Lookup, CheckBlocking, ReadWinner, CallProvider, AbandonRequest
<1> QED
  BY <1>3, <1>4, <1>5, <1>6, <1>7, <1>8 DEF RequestStep

\* The rows seen by a request that is past its cleanup: created later than it
\* looked, or cleaned up.
LEMMA RequestStale ==
  ASSUME IInv, NEW r \in Requests,
         Begin(r) \/ RequestStep(r) \/ ActivateError(r) \/ AbandonRequest(r)
  PROVE  StaleCreatingNeverBlocks'
<1>0. ASSUME NEW s, Goto(r, s)
      PROVE  \A q \in Requests : /\ req'[q].step = IF q = r THEN s ELSE req[q].step
                                 /\ req'[q].at = req[q].at
  BY <1>0, GotoMeans DEF IInv
<1> USE DEF IInv, TypeOK, StaleCreatingNeverBlocks, SameSlot
<1> DEFINE Past == {"checkBlocking", "reserve", "readWinner"}
<1>1. ASSUME /\ \A q \in Requests : req'[q].step \in Past => req[q].step \in Past
             /\ \A q \in Requests : req'[q].step \in Past => req'[q].at = req[q].at
             /\ \A i \in Requests : status'[i] = "creating" => status[i] = "creating"
             /\ UNCHANGED created
      PROVE  StaleCreatingNeverBlocks'
  BY <1>1
<1>2. CASE Begin(r)
  BY <1>1, <1>2 DEF Begin
<1>3. CASE FailStaleCreating(r)
  <2>1. /\ \A q \in Requests \ {r} : req'[q] = req[q]
        /\ req'[r].at = req[r].at
        /\ UNCHANGED created
    BY <1>3 DEF FailStaleCreating, Goto
  <2>2. /\ \A i \in Requests : status'[i] = "creating" => status[i] = "creating"
        /\ \A i \in SameSlot(r) :
             status'[i] = "creating" => ~(created[i] + StaleAfter <= req[r].at)
    BY <1>3 DEF FailStaleCreating
  <2>3. \A i \in Requests : ~(created[i] + StaleAfter <= req[r].at)
                            => created[i] + StaleAfter > req[r].at
    BY TimeAssumption
  <2> QED
    BY <2>1, <2>2, <2>3
<1>4. CASE Reserve(r)
  <2>1. \A q \in Requests : req[q].at < now + StaleAfter
    BY TimeAssumption DEF RequestInv
  <2>2. \A q \in Requests : req'[q].step \in Past => req[q].step \in Past
                                                     /\ req'[q].at = req[q].at
    BY <1>0, <1>4 DEF Reserve
  <2>3. CASE UNCHANGED <<status, created>>
    BY <1>1, <2>2, <2>3
  <2>4. CASE /\ status' = [status EXCEPT ![r] = "creating"]
             /\ created' = [created EXCEPT ![r] = now]
    BY <2>1, <2>2, <2>4
  <2> QED
    BY <1>4, <2>3, <2>4 DEF Reserve
<1>5. CASE Activate(r) \/ ActivateError(r)
  <2>0. \E s \in {"done", "activate", "failCreation"} : Goto(r, s)
    BY <1>5 DEF Activate, ActivateError
  <2>1. \A q \in Requests : req'[q].step \in Past => req[q].step \in Past
                                                     /\ req'[q].at = req[q].at
    <3>1. PICK s \in {"done", "activate", "failCreation"} : Goto(r, s)
      BY <2>0
    <3> QED
      BY <1>0, <3>1
  <2>2. UNCHANGED created /\ \A i \in Requests : status'[i] = "creating" => status[i] = "creating"
    BY <1>5 DEF Activate, ActivateError, StoreTransaction
  <2> QED
    BY <1>1, <2>1, <2>2
<1>6. CASE Lookup(r) \/ CheckBlocking(r) \/ ReadWinner(r) \/ CallProvider(r)
           \/ AbandonRequest(r) \/ ExpireActive(r) \/ FailCreation(r)
  <2>1. \/ \E s \in RequestSteps \ Past : Goto(r, s)
        \/ req[r].step \in Past /\ \E s \in RequestSteps : Goto(r, s)
    BY <1>6 DEF Lookup, CheckBlocking, ReadWinner, CallProvider, AbandonRequest,
                ExpireActive, FailCreation, RequestSteps
  <2>2. \A q \in Requests : req'[q].step \in Past => req[q].step \in Past
                                                     /\ req'[q].at = req[q].at
    BY <1>0, <2>1
  <2>3. UNCHANGED created /\ \A i \in Requests : status'[i] = "creating" => status[i] = "creating"
    BY <1>6 DEF Lookup, CheckBlocking, ReadWinner, CallProvider, AbandonRequest,
                ExpireActive, FailCreation
  <2> QED
    BY <1>1, <2>2, <2>3
<1> QED
  BY <1>2, <1>3, <1>4, <1>5, <1>6 DEF RequestStep

\* A request never grants anything and never touches a fulfilled intent.
LEMMA RequestGranted ==
  ASSUME IInv, NEW r \in Requests,
         Begin(r) \/ RequestStep(r) \/ ActivateError(r) \/ AbandonRequest(r)
  PROVE  GrantedExactlyOnce'
<1>1. Kept /\ UNCHANGED <<grants, payment>>
  BY RequestKept
<1>2. \A i \in Requests : status'[i] = "fulfilled" => status[i] = "fulfilled"
  BY DEF IInv, TypeOK, RequestStep, Begin, Lookup, ExpireActive, FailStaleCreating,
         CheckBlocking, Reserve, ReadWinner, CallProvider, Activate, ActivateError,
         StoreTransaction, FailCreation, AbandonRequest
<1> QED
  BY <1>1, <1>2 DEF IInv, GrantedExactlyOnce, Kept

Early == BeforeReserve \union {"callProvider"}

\* Request r moves on to step s, its row not reserved and its transaction not
\* asked for while s says so, nor is any other.
Still(r, s) ==
  /\ now' = now
  /\ \A q \in Requests :
       q # r => /\ status[q] = "none" => status'[q] = "none"
                /\ provider[q] = "none" => provider'[q] = "none"
  /\ s \in BeforeReserve => status'[r] = "none"
  /\ s \in Early => provider'[r] = "none"

\* A request keeps what rows, provider and buyer know of each other.
LEMMA RequestRows ==
  ASSUME IInv, NEW r \in Requests,
         Begin(r) \/ RequestStep(r) \/ ActivateError(r) \/ AbandonRequest(r)
  PROVE  RequestInv' /\ RowInv'
<1>0. TypeOK /\ RequestInv /\ RowInv
  BY DEF IInv
\* What RequestInv says of a request that moved, and of the others.
<1>1. ASSUME NEW s, Goto(r, s), Still(r, s)
      PROVE  RequestInv'
  <2>1. \A q \in Requests : /\ req'[q].step = IF q = r THEN s ELSE req[q].step
                            /\ req'[q].at = req[q].at
    BY <1>0, <1>1, GotoMeans
  <2>2. ASSUME NEW q \in Requests, q # r
        PROVE  /\ req'[q].step \in BeforeReserve => status'[q] = "none"
               /\ req'[q].step \in Early => provider'[q] = "none"
               /\ req'[q].at <= now'
    <3>1. req'[q].step = req[q].step /\ req'[q].at = req[q].at
      BY <2>1, <2>2
    <3>2. /\ req[q].step \in BeforeReserve => status[q] = "none"
          /\ req[q].step \in Early => provider[q] = "none"
          /\ req[q].at <= now
      BY <1>0 DEF RequestInv, Early
    <3>3. /\ status[q] = "none" => status'[q] = "none"
          /\ provider[q] = "none" => provider'[q] = "none"
          /\ now' = now
      BY <1>1, <2>2 DEF Still
    <3> QED
      BY <3>1, <3>2, <3>3
  <2>3. /\ req'[r].step \in BeforeReserve => status'[r] = "none"
        /\ req'[r].step \in Early => provider'[r] = "none"
        /\ req'[r].at <= now'
    BY <1>0, <1>1, <2>1 DEF RequestInv, Still
  <2> QED
    BY <2>2, <2>3 DEF RequestInv, Early
\* A step that leaves the rows alone, and shows links only of rows it found active.
<1>2. ASSUME UNCHANGED <<status, hasTx, provider, told, acked>>,
             \A i \in shown' : i \in shown \/ status[i] = "active"
      PROVE  RowInv'
  <2>1. \A i \in Requests : status[i] = "active" => hasTx[i]
    BY <1>0 DEF RowInv, Claimable
  <2>2. \A i \in Requests : i \in shown' => hasTx[i]
    BY <1>0, <1>2, <2>1 DEF RowInv
  <2>3. \A i \in Requests : provider[i] = "confirmed" => i \in shown
    BY <1>0 DEF RowInv
  <2>4. shown \subseteq shown'
    BY DEF RequestStep, Begin, Lookup, ExpireActive, FailStaleCreating, CheckBlocking,
           Reserve, ReadWinner, CallProvider, Activate, FailCreation, ActivateError,
           AbandonRequest
  <2> QED
    BY <1>0, <1>2, <2>2, <2>3, <2>4 DEF RowInv
<1>3. CASE Begin(r)
  <2>1. RequestInv'
    BY <1>0, <1>3, RequestType DEF Begin, RequestFrame, RequestInv, BeforeReserve, TypeOK
  <2> QED
    BY <1>2, <1>3, <2>1 DEF Begin, RequestFrame, taskVars
<1>4. CASE Lookup(r) \/ ReadWinner(r)
  <2>1. \E s \in {"done", "expire"} : Goto(r, s)
    BY <1>4 DEF Lookup, ReadWinner
  <2>2. req[r].step \in BeforeReserve /\ UNCHANGED <<now, status, provider>>
    BY <1>4 DEF Lookup, ReadWinner, RequestFrame, BeforeReserve
  <2>3. status[r] = "none" /\ provider[r] = "none"
    BY <1>0, <2>2 DEF RequestInv
  <2>4. RequestInv'
    BY <1>1, <2>1, <2>2, <2>3 DEF Still, Early
  <2>5. \A i \in shown' : i \in shown \/ status[i] = "active"
    BY <1>4 DEF Lookup, ReadWinner, Reusable
  <2> QED
    BY <1>2, <1>4, <2>4, <2>5 DEF Lookup, ReadWinner, RequestFrame, taskVars
<1>5. CASE CheckBlocking(r) \/ AbandonRequest(r)
  <2>1. \/ Goto(r, "done")
        \/ Goto(r, "reserve") /\ req[r].step = "checkBlocking"
    BY <1>5 DEF CheckBlocking, AbandonRequest
  <2>2. UNCHANGED <<now, status, hasTx, provider, told, acked, shown>>
    BY <1>5 DEF CheckBlocking, AbandonRequest, RequestFrame, taskVars
  <2>3. CASE Goto(r, "done")
    BY <1>1, <1>2, <2>2, <2>3 DEF BeforeReserve, Still, Early
  <2>4. CASE Goto(r, "reserve") /\ req[r].step = "checkBlocking"
    <3>1. status[r] = "none" /\ provider[r] = "none"
      BY <1>0, <2>4 DEF RequestInv, BeforeReserve
    <3> QED
      BY <1>1, <1>2, <2>2, <2>4, <3>1 DEF Still, Early
  <2> QED
    BY <2>1, <2>3, <2>4
<1>6. CASE ExpireActive(r) \/ FailStaleCreating(r)
  <2>1. \E s \in {"failStale", "checkBlocking"} : Goto(r, s)
    BY <1>6 DEF ExpireActive, FailStaleCreating
  <2>2. /\ UNCHANGED <<now, hasTx, provider, told, acked, shown>>
        /\ req[r].step \in BeforeReserve
        /\ \A q \in Requests :
             \/ status'[q] = status[q]
             \/ status[q] = "active" /\ status'[q] = "local_expired"
             \/ status[q] = "creating" /\ status'[q] = "create_failed"
    BY <1>6 DEF ExpireActive, FailStaleCreating, RequestFrame, taskVars, BeforeReserve
  <2>3. status[r] = "none" /\ provider[r] = "none"
    BY <1>0, <2>2 DEF RequestInv
  <2>4. RequestInv'
    BY <1>1, <2>1, <2>2, <2>3 DEF Still, Early
  <2>5. RowInv'
    BY <1>0, <2>2 DEF RowInv, Claimable
  <2> QED
    BY <2>4, <2>5
<1>7. CASE Reserve(r)
  <2>1. /\ UNCHANGED <<now, hasTx, provider, told, acked, shown>>
        /\ req[r].step = "reserve"
        /\ \/ Goto(r, "callProvider") /\ status' = [status EXCEPT ![r] = "creating"]
           \/ Goto(r, "readWinner") /\ status' = status
    BY <1>7 DEF Reserve, RequestFrame, taskVars
  <2>2. status[r] = "none" /\ provider[r] = "none"
    BY <1>0, <2>1 DEF RequestInv, BeforeReserve
  <2>3. \A q \in Requests : \/ status'[q] = status[q]
                            \/ q = r /\ status'[q] = "creating"
    BY <1>0, <2>1 DEF TypeOK
  <2>4. RequestInv'
    BY <1>1, <2>1, <2>2, <2>3 DEF BeforeReserve, Still, Early
  <2>5. RowInv'
    BY <1>0, <2>1, <2>2, <2>3 DEF RowInv, Claimable
  <2> QED
    BY <2>4, <2>5
<1>8. CASE CallProvider(r)
  <2>1. /\ UNCHANGED <<now, status, hasTx, told, acked, shown>>
        /\ req[r].step = "callProvider"
        /\ Goto(r, "activate") \/ Goto(r, "failCreation")
        /\ \A q \in Requests : \/ provider'[q] = provider[q]
                               \/ q = r /\ provider'[q] = "pending"
    BY <1>0, <1>8 DEF CallProvider, RequestFrame, taskVars, TypeOK
  <2>2. provider[r] = "none"
    BY <1>0, <2>1 DEF RequestInv
  <2>3. RequestInv'
    BY <1>1, <2>1 DEF BeforeReserve, Still, Early
  <2>4. RowInv'
    BY <1>0, <2>1, <2>2 DEF RowInv
  <2> QED
    BY <2>3, <2>4
<1>9. CASE Activate(r) \/ ActivateError(r)
  <2>1. /\ UNCHANGED <<now, provider, told, acked>>
        /\ \E s \in {"done", "activate", "failCreation"} : Goto(r, s)
        /\ req[r].step = "activate"
        /\ shown' = shown \/ (shown' = shown \union {r} /\ status[r] \in {"creating", "active"}
                              /\ StoreTransaction(r))
    BY <1>9 DEF Activate, ActivateError, RequestFrame, taskVars
  <2>2. \A q \in Requests :
          \/ status'[q] = status[q] /\ hasTx'[q] = hasTx[q]
          \/ q = r /\ status[q] = "creating" /\ status'[q] = "active" /\ hasTx'[q]
    BY <1>0, <1>9 DEF Activate, ActivateError, StoreTransaction, TypeOK
  <2>3. r \in shown' => r \in shown \/ hasTx'[r]
    <3>1. CASE StoreTransaction(r) /\ status[r] = "creating"
      BY <1>0, <3>1 DEF StoreTransaction, TypeOK
    <3>2. CASE status[r] = "active"
      BY <1>0, <2>2, <3>2 DEF RowInv, Claimable
    <3> QED
      BY <2>1, <3>1, <3>2
  <2>4. RequestInv'
    BY <1>1, <2>1, <2>2 DEF BeforeReserve, Still, Early
  <2>5. \A q \in Requests : q \in shown' => hasTx'[q]
    BY <1>0, <2>1, <2>2, <2>3 DEF RowInv
  <2>6. \A q \in Requests : hasTx'[q] <=> status'[q] \in Claimable \union
                                                    {"fulfilled", "provider_canceled"}
    BY <1>0, <2>2 DEF RowInv, Claimable
  <2>7. shown \subseteq shown'
    BY <2>1
  <2>8. RowInv'
    BY <1>0, <2>1, <2>2, <2>5, <2>6, <2>7 DEF RowInv
  <2> QED
    BY <2>4, <2>8
<1>10. CASE FailCreation(r)
  <2>1. /\ UNCHANGED <<now, hasTx, provider, told, acked, shown>>
        /\ Goto(r, "done")
        /\ \A q \in Requests :
             \/ status'[q] = status[q]
             \/ status[q] = "creating" /\ status'[q] = "create_failed"
    BY <1>0, <1>10 DEF FailCreation, RequestFrame, taskVars, TypeOK
  <2>2. RequestInv'
    BY <1>1, <2>1 DEF BeforeReserve, Still, Early
  <2>3. RowInv'
    BY <1>0, <2>1 DEF RowInv, Claimable
  <2> QED
    BY <2>2, <2>3
<1> QED
  BY <1>3, <1>4, <1>5, <1>6, <1>7, <1>8, <1>9, <1>10 DEF RequestStep

\* Every step of an invoice request keeps the inductive invariant.
LEMMA RequestInvariant ==
  ASSUME IInv, NEW r \in Requests,
         Begin(r) \/ RequestStep(r) \/ ActivateError(r) \/ AbandonRequest(r)
  PROVE  IInv'
<1>1. TypeOK' /\ OneLiveInvoice' /\ StaleCreatingNeverBlocks'
  BY RequestType, RequestLive, RequestStale DEF IInv
<1>2. GrantedExactlyOnce' /\ RequestInv' /\ RowInv'
  BY RequestGranted, RequestRows
<1>3. CallbackInv' /\ TaskInv'
  BY RequestKept, KeptByCallbacks, KeptByTasks DEF IInv
<1> QED
  BY <1>1, <1>2, <1>3 DEF IInv
\* The clock, the buyer and the provider keep the inductive invariant.
LEMMA WorldInvariant ==
  ASSUME IInv,
         \/ Tick
         \/ \E r \in Requests : Pay(r) \/ ProviderCancel(r)
         \/ \E w \in Workers, r \in Requests, m \in Messages : Deliver(w, r, m)
  PROVE  IInv'
<1> USE DEF IInv
<1>0. TypeOK'
  BY WorldType
<1>1. CASE Tick
  <2>1. RequestInv'
    BY <1>1 DEF RequestInv, Tick, rowVars, worldVars, TypeOK
  <2> QED
    BY <1>0, <1>1, <2>1
    DEF Tick, rowVars, resultVars, taskVars, worldVars, OneLiveInvoice,
        StaleCreatingNeverBlocks, GrantedExactlyOnce, RowInv, CallbackInv, TaskInv
<1>2. ASSUME NEW r \in Requests, Pay(r) \/ ProviderCancel(r) PROVE IInv'
  <2>1. Kept /\ UNCHANGED <<cb, task>>
    BY <1>2 DEF Pay, ProviderCancel, WorldFrame, taskVars, rowVars, Kept, TypeOK
  <2>2. OneLiveInvoice' /\ StaleCreatingNeverBlocks'
    BY <1>2 DEF Pay, ProviderCancel, WorldFrame, rowVars, OneLiveInvoice,
                StaleCreatingNeverBlocks
  <2>3. GrantedExactlyOnce' /\ RequestInv' /\ RowInv'
    BY <1>2 DEF Pay, ProviderCancel, WorldFrame, rowVars, resultVars, taskVars, TypeOK,
                GrantedExactlyOnce, RequestInv, RowInv
  <2> QED
    BY <1>0, <2>1, <2>2, <2>3, KeptByCallbacks, KeptByTasks
<1>3. ASSUME NEW w \in Workers, NEW r \in Requests, NEW m \in Messages, Deliver(w, r, m)
      PROVE  IInv'
  <2>1. CallbackInv'
    BY <1>3 DEF Deliver, Reports, CallbackInv, WorldFrame, rowVars, TypeOK
  <2> QED
    BY <1>0, <1>3, <2>1
    DEF Deliver, WorldFrame, rowVars, resultVars, taskVars, worldVars, OneLiveInvoice,
        StaleCreatingNeverBlocks, GrantedExactlyOnce, RequestInv, RowInv, TaskInv
<1> QED
  BY <1>0, <1>1, <1>2, <1>3

\* Every status change a callback makes: a cancellation the provider reported,
\* the fulfilment of a confirmed transaction, and the mark of a failed attempt.
LEMMA CallbackStatus ==
  ASSUME IInv, NEW w \in Workers,
         \/ CallbackStep(w) \/ FulfilRollback(w) \/ RunHookFails(w)
         \/ PublishFails(w) \/ AbandonCallback(w)
  PROVE  LET r == cb[w].tx IN
         \/ UNCHANGED <<status, payment, grants>>
         \/ /\ status[r] \in {"active", "local_expired"}
            /\ provider[r] = "canceled"
            /\ status' = [status EXCEPT ![r] = "provider_canceled"]
            /\ UNCHANGED <<payment, grants>>
         \/ /\ status[r] \in Claimable /\ ~payment[r]
            /\ provider[r] = "confirmed"
            /\ status' = [status EXCEPT ![r] = "fulfilled"]
            /\ payment' = [payment EXCEPT ![r] = TRUE]
            /\ grants' = [grants EXCEPT ![r] = @ + 1]
         \/ /\ status[r] \in Markable \ {"processing"} /\ ~payment[r]
            /\ provider[r] = "confirmed"
            /\ status' = [status EXCEPT ![r] = "retryable"]
            /\ UNCHANGED <<payment, grants>>
<1> DEFINE r == cb[w].tx
<1> USE DEF IInv, resultVars
<1>0. r \in Requests
  BY DEF TypeOK
<1>1. CASE Validate(w)
  BY <1>0, <1>1 DEF Validate, CallbackInv
<1>2. CASE Fulfil(w)
  BY <1>0, <1>2 DEF Fulfil, CanClaim, CallbackInv
<1>3. CASE MarkRetryable(w)
  BY <1>0, <1>3 DEF MarkRetryable, CallbackInv, RowInv
<1>4. CASE \/ FulfilRollback(w) \/ ApplyAgain(w) \/ RunHook(w) \/ RunHookFails(w)
           \/ Publish(w) \/ PublishFails(w) \/ ClearMarker(w) \/ AbandonCallback(w)
  BY <1>4 DEF FulfilRollback, ApplyAgain, RunHook, RunHookFails, Publish, PublishFails,
              ClearMarker, AbandonCallback
<1> QED
  BY <1>1, <1>2, <1>3, <1>4 DEF CallbackStep

\* A transaction with nothing left to do: canceled, or confirmed and fulfilled.
Decided(r) == \/ provider[r] = "canceled"
              \/ provider[r] = "confirmed" /\ status[r] = "fulfilled"

\* A callback acknowledges only what is decided.
LEMMA CallbackAcked ==
  ASSUME IInv, NEW w \in Workers,
         \/ CallbackStep(w) \/ FulfilRollback(w) \/ RunHookFails(w)
         \/ PublishFails(w) \/ AbandonCallback(w)
  PROVE  \/ UNCHANGED acked
         \/ acked' = acked \union {cb[w].tx} /\ Decided(cb[w].tx)
<1> DEFINE r == cb[w].tx
<1> USE DEF IInv, Answer200, Answer503
<1>0. r \in Requests /\ cb[w].msg \in Messages
  BY DEF TypeOK
<1>1. CASE Validate(w)
  <2>1. cb[w].msg = "CANCELED" => Decided(r)
    BY <1>0, <1>1 DEF Validate, CallbackInv, Decided
  <2>2. cb[w].msg = "CONFIRMED" /\ (~hasTx[r] \/ status[r] \notin ConfirmedStates) => Decided(r)
    BY <1>0, <1>1 DEF Validate, CallbackInv, RowInv, ConfirmedStates, Claimable, Decided
  <2>3. \/ UNCHANGED acked
        \/ /\ acked' = acked \union {r}
           /\ \/ cb[w].msg = "CANCELED"
              \/ cb[w].msg = "CONFIRMED" /\ (~hasTx[r] \/ status[r] \notin ConfirmedStates)
    BY <1>0, <1>1 DEF Validate, Messages
  <2> QED
    BY <2>1, <2>2, <2>3
<1>2. CASE ApplyAgain(w)
  BY <1>0, <1>2 DEF ApplyAgain, CallbackInv, Decided
<1>3. CASE Publish(w)
  BY <1>0, <1>3 DEF Publish, CallbackInv, GrantedExactlyOnce, Decided
<1>4. CASE \/ Fulfil(w) \/ FulfilRollback(w) \/ MarkRetryable(w) \/ RunHook(w)
           \/ RunHookFails(w) \/ PublishFails(w) \/ ClearMarker(w) \/ AbandonCallback(w)
  BY <1>4 DEF Fulfil, FulfilRollback, MarkRetryable, RunHook, RunHookFails, PublishFails,
              ClearMarker, AbandonCallback
<1> QED
  BY <1>1, <1>2, <1>3, <1>4 DEF CallbackStep
\* A worker serving a callback keeps what rows, provider and buyer know.
LEMMA CallbackRows ==
  ASSUME IInv, NEW w \in Workers,
         \/ CallbackStep(w) \/ FulfilRollback(w) \/ RunHookFails(w)
         \/ PublishFails(w) \/ AbandonCallback(w)
  PROVE  /\ Kept
         /\ OneLiveInvoice' /\ StaleCreatingNeverBlocks'
         /\ GrantedExactlyOnce' /\ RequestInv' /\ RowInv'
<1> DEFINE r == cb[w].tx
<1>0. r \in Requests
  BY DEF IInv, TypeOK
<1>1. UNCHANGED <<now, created, hasTx, req, told, provider, shown>>
  BY DEF CallbackStep, Validate, Fulfil, FulfilRollback, ApplyAgain, MarkRetryable, RunHook,
         RunHookFails, Publish, PublishFails, ClearMarker, AbandonCallback, CallbackFrame
<1>2. \/ UNCHANGED acked
      \/ acked' = acked \union {r} /\ Decided(r)
  BY CallbackAcked
<1> USE DEF IInv, TypeOK
<1>3. CASE UNCHANGED <<status, payment, grants>>
  BY <1>0, <1>1, <1>2, <1>3
  DEF Kept, OneLiveInvoice, StaleCreatingNeverBlocks, GrantedExactlyOnce, RequestInv,
      RowInv, Decided
<1>4. ASSUME NEW s \in {"provider_canceled", "fulfilled", "retryable"},
             status' = [status EXCEPT ![r] = s],
             status[r] \in {"active", "local_expired", "retryable"}
      PROVE  OneLiveInvoice' /\ StaleCreatingNeverBlocks' /\ RequestInv' /\ Kept
  BY <1>0, <1>1, <1>4
  DEF OneLiveInvoice, StaleCreatingNeverBlocks, RequestInv, Kept, Live
<1>5. CASE /\ status[r] \in {"active", "local_expired"}
           /\ provider[r] = "canceled"
           /\ status' = [status EXCEPT ![r] = "provider_canceled"]
           /\ UNCHANGED <<payment, grants>>
  <2>1. GrantedExactlyOnce' /\ RowInv'
    BY <1>0, <1>1, <1>2, <1>5 DEF GrantedExactlyOnce, RowInv, Decided, Claimable
  <2> QED
    BY <1>4, <1>5, <2>1
<1>6. CASE /\ status[r] \in Claimable /\ ~payment[r]
           /\ provider[r] = "confirmed"
           /\ status' = [status EXCEPT ![r] = "fulfilled"]
           /\ payment' = [payment EXCEPT ![r] = TRUE]
           /\ grants' = [grants EXCEPT ![r] = @ + 1]
  <2>1. GrantedExactlyOnce'
    BY <1>0, <1>1, <1>6 DEF GrantedExactlyOnce, Claimable
  <2>2. RowInv'
    BY <1>0, <1>1, <1>2, <1>6 DEF RowInv, Decided, Claimable
  <2> QED
    BY <1>4, <1>6, <2>1, <2>2 DEF Claimable
<1>7. CASE /\ status[r] \in Markable \ {"processing"} /\ ~payment[r]
           /\ provider[r] = "confirmed"
           /\ status' = [status EXCEPT ![r] = "retryable"]
           /\ UNCHANGED <<payment, grants>>
  <2>1. GrantedExactlyOnce' /\ RowInv'
    BY <1>0, <1>1, <1>2, <1>7 DEF GrantedExactlyOnce, RowInv, Decided, Claimable, Markable
  <2> QED
    BY <1>4, <1>7, <2>1 DEF Markable
<1> QED
  BY <1>3, <1>5, <1>6, <1>7, CallbackStatus

\* Where a worker goes, with what it knows there.
LEMMA CallbackMoves ==
  ASSUME IInv, NEW w \in Workers,
         \/ CallbackStep(w) \/ FulfilRollback(w) \/ RunHookFails(w)
         \/ PublishFails(w) \/ AbandonCallback(w)
  PROVE  \/ cb' = [cb EXCEPT ![w] = Idle]
         \/ \E s \in {"apply", "mark"} : /\ WorkerGoto(w, s)
                                         /\ provider[cb[w].tx] = "confirmed"
                                         /\ hasTx[cb[w].tx]
         \/ \E s \in {"hook", "publish", "clear"} : /\ WorkerGoto(w, s)
                                                    /\ status'[cb[w].tx] = "fulfilled"
<1> DEFINE r == cb[w].tx
<1> USE DEF IInv, CallbackInv, Answer200, Answer503
<1>0. r \in Requests /\ status \in [Requests -> Statuses \union {"none"}]
  BY DEF TypeOK
<1>1. CASE Validate(w)
  BY <1>0, <1>1 DEF Validate
<1>2. CASE Fulfil(w)
  BY <1>0, <1>2 DEF Fulfil
<1>3. CASE FulfilRollback(w)
  BY <1>0, <1>3 DEF FulfilRollback
<1>4. CASE ApplyAgain(w)
  BY <1>0, <1>4 DEF ApplyAgain
<1>5. CASE RunHook(w) \/ RunHookFails(w) \/ PublishFails(w)
  BY <1>0, <1>5 DEF RunHook, RunHookFails, PublishFails
<1>6. CASE MarkRetryable(w) \/ Publish(w) \/ ClearMarker(w) \/ AbandonCallback(w)
  BY <1>6 DEF MarkRetryable, Publish, ClearMarker, AbandonCallback
<1> QED
  BY <1>1, <1>2, <1>3, <1>4, <1>5, <1>6 DEF CallbackStep

\* A worker moves on only with what its next step relies on.
LEMMA CallbackWorkers ==
  ASSUME IInv, NEW w \in Workers,
         \/ CallbackStep(w) \/ FulfilRollback(w) \/ RunHookFails(w)
         \/ PublishFails(w) \/ AbandonCallback(w)
  PROVE  CallbackInv' /\ TaskInv'
<1>0. Kept /\ TypeOK /\ CallbackInv /\ TaskInv /\ TypeOK'
  BY CallbackRows, CallbackType DEF IInv
<1>1. UNCHANGED <<hasTx, provider>>
  BY DEF CallbackStep, Validate, Fulfil, FulfilRollback, ApplyAgain, MarkRetryable, RunHook,
         RunHookFails, Publish, PublishFails, ClearMarker, AbandonCallback, CallbackFrame
<1>2. CallbackInv'
  <2>1. ASSUME NEW v \in Workers, cb'[v] = cb[v]
        PROVE  LET q == cb[v].tx IN
               /\ cb[v].step = "validate" /\ cb[v].msg = "CONFIRMED"
                    => provider'[q] = "confirmed"
               /\ cb[v].step = "validate" /\ cb[v].msg = "CANCELED"
                    => provider'[q] = "canceled"
               /\ cb[v].step \in {"apply", "mark"} => provider'[q] = "confirmed" /\ hasTx'[q]
               /\ cb[v].step \in {"hook", "publish", "clear"} => status'[q] = "fulfilled"
    BY <1>0, <1>1, <2>1 DEF CallbackInv, Kept, TypeOK
  <2>2. \A v \in Workers \ {w} : cb'[v] = cb[v]
    <3>1. \/ cb' = [cb EXCEPT ![w] = Idle]
          \/ \E s \in WorkerSteps : WorkerGoto(w, s)
      BY CallbackMoves DEF WorkerSteps
    <3> QED
      BY <1>0, <3>1 DEF TypeOK, WorkerGoto
  <2>3. \/ cb'[w].step = "idle"
        \/ /\ cb'[w].tx = cb[w].tx
           /\ cb'[w].step \in {"apply", "mark"}
           /\ provider'[cb[w].tx] = "confirmed" /\ hasTx'[cb[w].tx]
        \/ /\ cb'[w].tx = cb[w].tx
           /\ cb'[w].step \in {"hook", "publish", "clear"}
           /\ status'[cb[w].tx] = "fulfilled"
    BY <1>0, <1>1, CallbackMoves DEF TypeOK, WorkerGoto, Idle
  <2> QED
    BY <2>1, <2>2, <2>3 DEF CallbackInv
<1>3. TaskInv'
  <2>1. \/ UNCHANGED task
        \/ Enqueue(cb[w].tx) /\ status[cb[w].tx] = "fulfilled"
    BY <1>0 DEF CallbackStep, Validate, Fulfil, FulfilRollback, ApplyAgain, MarkRetryable,
                RunHook, RunHookFails, Publish, PublishFails, ClearMarker, AbandonCallback,
                CallbackInv
  <2>2. CASE Enqueue(cb[w].tx) /\ status[cb[w].tx] = "fulfilled"
    BY <1>0, <2>2 DEF Enqueue, TaskInv, Kept, TypeOK
  <2> QED
    BY <1>0, <2>1, <2>2, KeptByTasks
<1> QED
  BY <1>2, <1>3

\* Every step of a worker serving a callback keeps the inductive invariant.
LEMMA CallbackInvariant ==
  ASSUME IInv, NEW w \in Workers,
         \/ CallbackStep(w) \/ FulfilRollback(w) \/ RunHookFails(w)
         \/ PublishFails(w) \/ AbandonCallback(w)
  PROVE  IInv'
BY CallbackType, CallbackRows, CallbackWorkers DEF IInv

\* A task that is outstanding after a step of a task was so before, for the same
\* purchase.
LEMMA TaskMoves ==
  ASSUME TypeOK, NEW t \in Tasks, TaskStep(t) \/ SendFails(t) \/ LoseTask(t)
  PROVE  \A u \in Tasks : task'[u].step # "none" => /\ task[u].step # "none"
                                                    /\ task'[u].tx = task[u].tx
<1>1. \/ task' = [task EXCEPT ![t] = NoTask]
      \/ task[t].step # "none"
         /\ \E s \in TaskSteps : task' = [task EXCEPT ![t].step = s]
      \/ task[t].step # "none"
         /\ task' = [task EXCEPT ![t].step = "queued", ![t].tries = @ + 1]
  BY DEF TaskStep, StartTask, SendMessage, SendFails, MarkSent, LoseTask, DropTask, TaskGoto,
         TaskSteps
<1>2. CASE task' = [task EXCEPT ![t] = NoTask]
  BY <1>2 DEF TypeOK, NoTask
<1>3. ASSUME NEW s \in TaskSteps, task[t].step # "none", task' = [task EXCEPT ![t].step = s]
      PROVE  \A u \in Tasks : task'[u].step # "none" => /\ task[u].step # "none"
                                                        /\ task'[u].tx = task[u].tx
  BY <1>3 DEF TypeOK
<1>4. CASE /\ task[t].step # "none"
           /\ task' = [task EXCEPT ![t].step = "queued", ![t].tries = @ + 1]
  BY <1>4 DEF TypeOK
<1> QED
  BY <1>1, <1>2, <1>3, <1>4

\* Every step of a notification task keeps the inductive invariant.
LEMMA TaskInvariant ==
  ASSUME IInv, NEW t \in Tasks, TaskStep(t) \/ SendFails(t) \/ LoseTask(t)
  PROVE  IInv'
<1> DEFINE r == task[t].tx
<1>0. TypeOK /\ TypeOK' /\ r \in Requests
  BY TaskType DEF IInv, TypeOK
<1>1. UNCHANGED <<now, status, created, hasTx, payment, grants, req, cb, provider, shown,
                  acked>>
  BY DEF TaskStep, StartTask, SendMessage, SendFails, MarkSent, LoseTask, TaskFrame,
         resultVars, worldVars
<1>2. told' = told \/ (status[r] = "fulfilled" /\ told' = [told EXCEPT ![r] = @ + 1])
  BY DEF TaskStep, StartTask, SendMessage, SendFails, MarkSent, LoseTask, IInv, TaskInv
<1>3. OneLiveInvoice' /\ StaleCreatingNeverBlocks' /\ GrantedExactlyOnce' /\ RequestInv'
      /\ CallbackInv'
  BY <1>1 DEF IInv, OneLiveInvoice, StaleCreatingNeverBlocks, GrantedExactlyOnce, RequestInv,
              CallbackInv
<1>4. RowInv'
  <2>1. \A q \in Requests : told'[q] > 0 => told[q] > 0 \/ status[q] = "fulfilled"
    <3>1. told \in [Requests -> Nat]
      BY <1>0 DEF TypeOK
    <3> QED
      BY <1>2, <3>1
  <2> QED
    BY <1>1, <2>1 DEF IInv, RowInv
<1>5. TaskInv'
  BY <1>0, <1>1, TaskMoves DEF IInv, TaskInv
<1> QED
  BY <1>0, <1>3, <1>4, <1>5 DEF IInv

\* IInv is inductive.
LEMMA InvStep == IInv /\ [Next]_vars => IInv'
<1> SUFFICES ASSUME IInv, [Next]_vars PROVE IInv'
  OBVIOUS
<1>1. CASE Next
  BY <1>1, RequestInvariant, WorldInvariant, CallbackInvariant, TaskInvariant DEF Next
<1>2. CASE UNCHANGED vars
  <2>1. TypeOK'
    BY <1>2, TypeStep DEF IInv
  <2>2. /\ OneLiveInvoice' /\ StaleCreatingNeverBlocks' /\ GrantedExactlyOnce'
        /\ RequestInv' /\ CallbackInv' /\ TaskInv'
    BY <1>2 DEF vars, rowVars, resultVars, taskVars, worldVars, IInv, OneLiveInvoice,
                StaleCreatingNeverBlocks, GrantedExactlyOnce, RequestInv, CallbackInv, TaskInv
  <2>3. RowInv'
    BY <1>2 DEF vars, rowVars, taskVars, worldVars, IInv, RowInv
  <2> QED
    BY <2>1, <2>2, <2>3 DEF IInv
<1> QED
  BY <1>1, <1>2

\* The inductive invariant holds of every behaviour, with any faults.
THEOREM Invariant == Safety => []IInv
BY InvInit, InvStep, PTL DEF Safety
-------------------------------------------------------------------------------
(* What follows from it.                                                    *)

\* However callbacks, retries, failures and crashes interleave, the purchase
\* of a confirmed transaction is granted once, with its Payment and final
\* status, and no other transaction is granted anything.
THEOREM GrantedOnce == Safety => []GrantedExactlyOnce
BY Invariant, PTL DEF IInv

\* No interleaving of invoice requests leaves a slot with two invoices that are
\* being created or payable.
THEOREM OneLive == Safety => []OneLiveInvoice
BY Invariant, PTL DEF IInv

\* A request past its cleanup never meets a creation older than StaleAfter.
THEOREM StaleCreating == Safety => []StaleCreatingNeverBlocks
BY Invariant, PTL DEF IInv

\* A link that was ever answered to the buyer stays one whose payment the
\* callback resolves, whatever expired or was cleaned up meanwhile.
THEOREM PayableLink == Safety => []PayableLinkIsHonoured
<1>1. IInv => PayableLinkIsHonoured
  BY DEF IInv, TypeOK, RowInv, PayableLinkIsHonoured
<1> QED
  BY <1>1, Invariant, PTL

\* The provider is told 200 for a confirmation only once it was fulfilled.
THEOREM SettledGranted == Safety => []SettledOnlyWhenGranted
<1>1. IInv => SettledOnlyWhenGranted
  BY DEF IInv, RowInv, TypeOK, SettledOnlyWhenGranted
<1> QED
  BY <1>1, Invariant, PTL
\* An end state and its Payment are never left again.
THEOREM FinalStatus == Safety => FinalStatusIsFinal
<1> DEFINE Final == {"fulfilled", "provider_canceled", "create_failed"}
           Keeps == \A r \in Requests : status[r] \in Final =>
                      status'[r] = status[r] /\ payment'[r] = payment[r]
<1>1. ASSUME IInv, Next PROVE Keeps
  <2>1. ASSUME NEW r \in Requests,
               Begin(r) \/ RequestStep(r) \/ ActivateError(r) \/ AbandonRequest(r)
        PROVE  Keeps
    <3>1. UNCHANGED payment
      BY <1>1, <2>1, RequestKept
    <3>2. \A i \in Requests : status'[i] = status[i]
                              \/ status[i] \in {"none", "creating", "active"}
      BY <1>1, <2>1
      DEF IInv, TypeOK, RequestStep, Begin, Lookup, ExpireActive, FailStaleCreating,
          CheckBlocking, Reserve, ReadWinner, CallProvider, Activate, ActivateError,
          StoreTransaction, FailCreation, AbandonRequest, RequestInv, BeforeReserve
    <3> QED
      BY <3>1, <3>2
  <2>2. ASSUME NEW w \in Workers,
               \/ CallbackStep(w) \/ FulfilRollback(w) \/ RunHookFails(w)
               \/ PublishFails(w) \/ AbandonCallback(w)
        PROVE  Keeps
    <3>1. cb[w].tx \in Requests
      BY <1>1 DEF IInv, TypeOK
    <3> QED
      BY <1>1, <2>2, <3>1, CallbackStatus DEF IInv, TypeOK, Claimable, Markable
  <2>3. CASE \/ Tick
             \/ \E r \in Requests : Pay(r) \/ ProviderCancel(r)
             \/ \E w \in Workers, r \in Requests, m \in Messages : Deliver(w, r, m)
    BY <2>3 DEF Tick, Pay, ProviderCancel, Deliver, WorldFrame, rowVars
  <2>4. ASSUME NEW t \in Tasks, TaskStep(t) \/ SendFails(t) \/ LoseTask(t)
        PROVE  Keeps
    BY <2>4 DEF TaskStep, StartTask, SendMessage, SendFails, MarkSent, LoseTask, TaskFrame
  <2> QED
    BY <1>1, <2>1, <2>2, <2>3, <2>4 DEF Next
<1>2. IInv /\ [Next]_vars => [Keeps]_vars
  BY <1>1
<1> QED
  BY <1>2, Invariant, PTL DEF Safety, FinalStatusIsFinal
-------------------------------------------------------------------------------
(* One notification.  While the broker answers and no process dies, the     *)
(* marker is the right to publish: whoever sets it, and nobody else, goes   *)
(* on to publish one task, and it is not cleared again.                     *)

Calm == faults.kinds \intersect {"publish", "crash"} = {}

Announces(w) == cb[w].step \in {"hook", "publish"}
Outstanding(t) == task[t].step # "none"

\* The marker's worker announces, or its task is outstanding, or neither.
OneNotice ==
  /\ \A r \in Requests : status[r] # "fulfilled" => marker[r] = NoWorker
  /\ \A w \in Workers : /\ cb[w].step # "clear"
                        /\ Announces(w) => marker[cb[w].tx] # NoWorker
  /\ \A t \in Tasks : Outstanding(t) => marker[task[t].tx] # NoWorker
  /\ \A v, w \in Workers : Announces(v) /\ Announces(w) /\ cb[v].tx = cb[w].tx => v = w
  /\ \A w \in Workers, t \in Tasks : Announces(w) /\ Outstanding(t) => cb[w].tx # task[t].tx
  /\ \A t, u \in Tasks : Outstanding(t) /\ Outstanding(u) /\ task[t].tx = task[u].tx => t = u

NoticeInv == Calm => OneNotice

\* An injected fault of another kind does not end the calm, and these two do.
LEMMA FaultCalm ==
  ASSUME TypeOK, NEW k, Fault(k), Calm'
  PROVE  Calm /\ k \notin {"publish", "crash"}
<1>1. faults'.kinds = faults.kinds \union {k}
  BY DEF TypeOK, FaultsOK, Fault
<1> QED
  BY <1>1 DEF Calm

\* Steps that start no announcement and no task keep what there is.
LEMMA NoticeFrame ==
  ASSUME OneNotice, UNCHANGED marker,
         \A r \in Requests : status[r] = "fulfilled" => status'[r] = "fulfilled",
         \A w \in Workers : /\ cb'[w].step # "clear"
                            /\ Announces(w)' => Announces(w) /\ cb'[w].tx = cb[w].tx,
         \A t \in Tasks : Outstanding(t)' => Outstanding(t) /\ task'[t].tx = task[t].tx
  PROVE  OneNotice'
BY DEF OneNotice

\* Whoever sets the marker is the only one to announce.
LEMMA NoticeStarts ==
  ASSUME OneNotice, NEW w \in Workers, NEW r \in Requests, cb[w].tx = r,
         marker[r] = NoWorker, marker' = [marker EXCEPT ![r] = w],
         marker \in [Requests -> Workers \union {NoWorker}],
         \A q \in Requests : status[q] = "fulfilled" => status'[q] = "fulfilled",
         status'[r] = "fulfilled",
         cb'[w].tx = r, cb'[w].step # "clear",
         \A v \in Workers \ {w} : cb'[v] = cb[v],
         UNCHANGED task
  PROVE  OneNotice'
<1>1. \A q \in Requests \ {r} : marker'[q] = marker[q]
  OBVIOUS
<1>2. marker'[r] # NoWorker
  BY WorkersAssumption
<1>3. \A q \in Requests : marker[q] # NoWorker => marker'[q] # NoWorker /\ q # r
  BY <1>1
<1>4. \A q \in Requests : status'[q] # "fulfilled" => marker'[q] = NoWorker
  BY <1>1 DEF OneNotice
<1> QED
  BY <1>2, <1>3, <1>4 DEF OneNotice, Announces, Outstanding

\* A published task takes its worker's place.
LEMMA NoticePublished ==
  ASSUME TypeOK, OneNotice, NEW w \in Workers, Publish(w)
  PROVE  OneNotice'
<1> DEFINE r == cb[w].tx
<1>1. PICK u \in Tasks : /\ task[u].step = "none"
                         /\ task' = [task EXCEPT ![u] = [step |-> "queued", tx |-> r,
                                                         tries |-> 0]]
  BY DEF Publish, Enqueue
<1>2. UNCHANGED <<marker, status>> /\ Announces(w)
  BY DEF Publish, Announces
<1>3. /\ \A v \in Workers \ {w} : cb'[v] = cb[v]
      /\ cb'[w].step = "idle"
  BY DEF Publish, Answer200, Idle, TypeOK
<1>4. /\ \A t \in Tasks \ {u} : task'[t] = task[t]
      /\ task'[u].tx = r
  BY <1>1 DEF TypeOK
<1>5. \A v \in Workers : Announces(v)' => v # w /\ Announces(v) /\ cb'[v].tx = cb[v].tx
  BY <1>3 DEF Announces
<1>6. \A t \in Tasks : Outstanding(t)' => \/ t = u
                                          \/ Outstanding(t) /\ task'[t].tx = task[t].tx
  BY <1>4 DEF Outstanding
<1>7. \A v \in Workers : cb'[v].step # "clear"
  BY <1>3 DEF OneNotice
<1> QED
  BY <1>2, <1>4, <1>5, <1>6, <1>7 DEF OneNotice

\* Invoice requests, the clock, the buyer and the provider announce nothing.
LEMMA NoticeOthers ==
  ASSUME IInv, NoticeInv, Calm',
         \/ Tick
         \/ \E r \in Requests : \/ Begin(r) \/ RequestStep(r) \/ ActivateError(r)
                                \/ AbandonRequest(r) \/ Pay(r) \/ ProviderCancel(r)
         \/ \E w \in Workers, r \in Requests, m \in Messages : Deliver(w, r, m)
  PROVE  OneNotice'
<1>0. TypeOK
  BY DEF IInv
<1>1. ASSUME NEW r \in Requests,
             Begin(r) \/ RequestStep(r) \/ ActivateError(r) \/ AbandonRequest(r)
      PROVE  OneNotice'
  <2>1. UNCHANGED marker
    BY <1>1 DEF Begin, RequestStep, Lookup, ExpireActive, FailStaleCreating, CheckBlocking,
                Reserve, ReadWinner, CallProvider, Activate, ActivateError, FailCreation,
                AbandonRequest, RequestFrame
  <2>2. Kept /\ UNCHANGED <<cb, task>>
    BY <1>1, RequestKept
  <2>3. UNCHANGED faults \/ \E k : Fault(k)
    BY <1>1 DEF Begin, RequestStep, Lookup, ExpireActive, FailStaleCreating, CheckBlocking,
                Reserve, ReadWinner, CallProvider, Activate, ActivateError, FailCreation,
                AbandonRequest
  <2>4. OneNotice
    BY <1>0, <2>3, FaultCalm DEF NoticeInv, Calm
  <2>5. \A q \in Requests : status[q] = "fulfilled" => status'[q] = "fulfilled"
    BY <2>2 DEF Kept
  <2> QED
    BY <2>1, <2>2, <2>4, <2>5 DEF OneNotice, Announces, Outstanding
<1>2. CASE Tick \/ \E r \in Requests : Pay(r) \/ ProviderCancel(r)
  <2>1. UNCHANGED <<status, marker, cb, task, faults>>
    BY <1>2 DEF Tick, Pay, ProviderCancel, WorldFrame, rowVars, taskVars
  <2> QED
    BY <2>1 DEF NoticeInv, Calm, OneNotice, Announces, Outstanding
<1>3. ASSUME NEW w \in Workers, NEW r \in Requests, NEW m \in Messages, Deliver(w, r, m)
      PROVE  OneNotice'
  <2>1. UNCHANGED <<status, marker, task, faults>>
    BY <1>3 DEF Deliver, WorldFrame, rowVars, taskVars
  <2>2. \A v \in Workers : IF v = w THEN cb'[v].step = "validate" ELSE cb'[v] = cb[v]
    BY <1>0, <1>3 DEF Deliver, TypeOK
  <2>3. OneNotice
    BY <2>1 DEF NoticeInv, Calm
  <2>4. \A v \in Workers : /\ cb'[v].step # "clear"
                           /\ Announces(v)' => Announces(v) /\ cb'[v].tx = cb[v].tx
    BY <2>2, <2>3 DEF OneNotice, Announces
  <2> QED
    BY <2>1, <2>3, <2>4 DEF OneNotice, Outstanding
<1> QED
  BY <1>1, <1>2, <1>3

\* No step of a worker publishes twice: only an intent without a marker is
\* announced, and only the broker's failure clears a marker.
LEMMA NoticeCallback ==
  ASSUME IInv, NoticeInv, Calm', NEW w \in Workers,
         \/ CallbackStep(w) \/ FulfilRollback(w) \/ RunHookFails(w)
         \/ PublishFails(w) \/ AbandonCallback(w)
  PROVE  OneNotice'
<1> DEFINE r == cb[w].tx
<1>0. TypeOK /\ r \in Requests /\ marker \in [Requests -> Workers \union {NoWorker}]
  BY DEF IInv, TypeOK
<1>1. ~RunHookFails(w) /\ ~PublishFails(w)
  BY <1>0, FaultCalm DEF RunHookFails, PublishFails
<1>2. UNCHANGED faults \/ \E k : Fault(k)
  BY <1>1 DEF CallbackStep, Validate, Fulfil, FulfilRollback, ApplyAgain, MarkRetryable,
              RunHook, Publish, ClearMarker, AbandonCallback
<1>3. OneNotice
  BY <1>0, <1>2, FaultCalm DEF NoticeInv, Calm
<1>4. \A q \in Requests : status[q] = "fulfilled" => status'[q] = "fulfilled"
  BY CallbackRows DEF Kept
<1>5. \A s \in WorkerSteps :
        WorkerGoto(w, s) => /\ \A v \in Workers \ {w} : cb'[v] = cb[v]
                            /\ cb'[w].step = s /\ cb'[w].tx = r
  BY <1>0 DEF TypeOK, WorkerGoto
<1>6. cb' = [cb EXCEPT ![w] = Idle] => /\ \A v \in Workers \ {w} : cb'[v] = cb[v]
                                       /\ cb'[w].step = "idle"
  BY <1>0 DEF TypeOK, Idle
<1>7. ASSUME UNCHANGED <<marker, task>>,
             \/ cb' = [cb EXCEPT ![w] = Idle]
             \/ \E s \in {"apply", "mark"} : WorkerGoto(w, s)
             \/ Announces(w) /\ WorkerGoto(w, "publish")
      PROVE  OneNotice'
  <2>1. \A v \in Workers : /\ cb'[v].step # "clear"
                           /\ Announces(v)' => Announces(v) /\ cb'[v].tx = cb[v].tx
    BY <1>3, <1>5, <1>6, <1>7 DEF OneNotice, Announces, WorkerSteps
  <2> QED
    BY <1>3, <1>4, <1>7, <2>1, NoticeFrame DEF Outstanding
<1>8. ASSUME marker[r] = NoWorker, marker' = [marker EXCEPT ![r] = w],
             status'[r] = "fulfilled", UNCHANGED task,
             \E s \in {"hook", "publish"} : WorkerGoto(w, s)
      PROVE  OneNotice'
  <2>1. /\ \A v \in Workers \ {w} : cb'[v] = cb[v]
        /\ cb'[w].step # "clear" /\ cb'[w].tx = r
    BY <1>5, <1>8 DEF WorkerSteps
  <2> QED
    BY <1>0, <1>3, <1>4, <1>8, <2>1, NoticeStarts
<1>9. CASE Validate(w) \/ MarkRetryable(w)
  BY <1>7, <1>9 DEF Validate, MarkRetryable, Answer200, Answer503
<1>10. CASE Fulfil(w)
  <2>1. status[r] # "fulfilled"
    BY <1>10 DEF Fulfil, CanClaim, Claimable
  <2>2. marker[r] = NoWorker
    BY <1>0, <1>3, <2>1 DEF OneNotice
  <2>3. status'[r] = "fulfilled"
    BY <1>0, <1>10 DEF Fulfil, TypeOK
  <2> QED
    BY <1>8, <1>10, <2>2, <2>3 DEF Fulfil
<1>11. CASE ApplyAgain(w)
  BY <1>0, <1>7, <1>8, <1>11 DEF ApplyAgain, Answer200, Answer503
<1>12. CASE FulfilRollback(w)
  BY <1>7, <1>12 DEF FulfilRollback
<1>13. CASE RunHook(w)
  BY <1>7, <1>13 DEF RunHook, Announces
<1>14. CASE Publish(w)
  BY <1>0, <1>3, <1>14, NoticePublished
<1>15. CASE ClearMarker(w)
  BY <1>3, <1>15 DEF ClearMarker, OneNotice
<1>16. CASE AbandonCallback(w)
  BY <1>7, <1>16 DEF AbandonCallback, Answer503
<1> QED
  BY <1>1, <1>9, <1>10, <1>11, <1>12, <1>13, <1>14, <1>15, <1>16 DEF CallbackStep

\* A task that runs, is retried or is lost adds no task.
LEMMA NoticeTask ==
  ASSUME IInv, NoticeInv, Calm', NEW t \in Tasks, TaskStep(t) \/ SendFails(t) \/ LoseTask(t)
  PROVE  OneNotice'
<1>1. UNCHANGED <<status, marker, cb>>
  BY DEF TaskStep, StartTask, SendMessage, SendFails, MarkSent, LoseTask, TaskFrame
<1>2. UNCHANGED faults \/ \E k : Fault(k)
  BY DEF TaskStep, StartTask, SendMessage, SendFails, MarkSent, LoseTask
<1>3. OneNotice
  BY <1>2, FaultCalm DEF IInv, NoticeInv, Calm
<1>4. \A u \in Tasks : Outstanding(u)' => Outstanding(u) /\ task'[u].tx = task[u].tx
  BY TaskMoves DEF IInv, Outstanding
<1>5. \A v \in Workers : /\ cb'[v].step # "clear"
                         /\ Announces(v)' => Announces(v) /\ cb'[v].tx = cb[v].tx
  BY <1>1, <1>3 DEF OneNotice, Announces
<1> QED
  BY <1>1, <1>3, <1>4, <1>5, NoticeFrame

\* No notice is outstanding at first.
LEMMA NoticeInit == Init => NoticeInv
BY DEF Init, NoticeInv, OneNotice, Announces, Outstanding, Idle, NoTask

LEMMA NoticeStep == IInv /\ NoticeInv /\ [Next]_vars => NoticeInv'
<1> SUFFICES ASSUME IInv, NoticeInv, [Next]_vars, Calm' PROVE OneNotice'
  BY DEF NoticeInv
<1>1. CASE Next
  BY <1>1, NoticeOthers, NoticeCallback, NoticeTask DEF Next
<1>2. CASE UNCHANGED vars
  BY <1>2 DEF vars, rowVars, taskVars, NoticeInv, Calm, OneNotice, Announces, Outstanding
<1> QED
  BY <1>1, <1>2

\* While the broker answers and no process dies, no interleaving of repeated
\* callbacks, retried fulfilments and retried sends queues a second
\* notification of a purchase.
THEOREM OneNotification == Safety => []OneNotificationTask
<1>1. NoticeInv => OneNotificationTask
  BY DEF NoticeInv, Calm, OneNotice, Outstanding, OneNotificationTask
<1> QED
  BY <1>1, NoticeInit, NoticeStep, Invariant, PTL DEF Safety
-------------------------------------------------------------------------------
(* Refinement: every step is a step of the purchase contract, or none of it. *)

Charged == {r \in Requests : provider[r] = "confirmed"}
Settled == {r \in acked : provider[r] = "confirmed"}
Announced == {r \in Requests : told[r] > 0}

\* The initial state is an initial state of the contract.
LEMMA ContractInit == Init => Contract!Init
BY DEF Init, Contract!Init

\* An invoice request is invisible to the contract.
LEMMA RequestContract ==
  ASSUME IInv, NEW r \in Requests,
         Begin(r) \/ RequestStep(r) \/ ActivateError(r) \/ AbandonRequest(r)
  PROVE  UNCHANGED <<Charged, grants, Settled, Announced>>
<1>1. UNCHANGED <<grants, acked, told>>
  BY RequestKept
<1>2. \A i \in Requests : provider'[i] = "confirmed" <=> provider[i] = "confirmed"
  BY DEF IInv, TypeOK, RequestStep, Begin, Lookup, ExpireActive, FailStaleCreating,
         CheckBlocking, Reserve, ReadWinner, CallProvider, Activate, ActivateError,
         FailCreation, AbandonRequest, RequestInv
<1> QED
  BY <1>1, <1>2 DEF Charged, Settled, Announced, IInv, TypeOK

\* A payment is the contract's Charge; the rest of the world is invisible.
LEMMA WorldContract ==
  ASSUME IInv,
         \/ Tick
         \/ \E r \in Requests : Pay(r) \/ ProviderCancel(r)
         \/ \E w \in Workers, r \in Requests, m \in Messages : Deliver(w, r, m)
  PROVE  \/ UNCHANGED <<Charged, grants, Settled, Announced>>
         \/ \E r \in Requests : /\ Charged' = Charged \union {r}
                                /\ UNCHANGED <<grants, Settled, Announced>>
<1>1. CASE Tick
  BY <1>1 DEF Tick, resultVars, taskVars, worldVars, Charged, Settled, Announced
<1>2. ASSUME NEW r \in Requests, Pay(r)
      PROVE  /\ Charged' = Charged \union {r}
             /\ UNCHANGED <<grants, Settled, Announced>>
  <2>1. r \notin acked
    BY <1>2 DEF Pay, IInv, RowInv
  <2>2. UNCHANGED <<grants, acked, told>> /\ provider' = [provider EXCEPT ![r] = "confirmed"]
    BY <1>2 DEF Pay, WorldFrame, resultVars, taskVars
  <2> QED
    BY <2>1, <2>2 DEF Charged, Settled, Announced, IInv, TypeOK
<1>3. ASSUME NEW r \in Requests, ProviderCancel(r)
      PROVE  UNCHANGED <<Charged, grants, Settled, Announced>>
  BY <1>3 DEF ProviderCancel, WorldFrame, resultVars, taskVars, Charged, Settled, Announced,
              IInv, TypeOK
<1>4. ASSUME NEW w \in Workers, NEW r \in Requests, NEW m \in Messages, Deliver(w, r, m)
      PROVE  UNCHANGED <<Charged, grants, Settled, Announced>>
  BY <1>4 DEF Deliver, WorldFrame, resultVars, taskVars, Charged, Settled, Announced
<1> QED
  BY <1>1, <1>2, <1>3, <1>4

\* A fulfilment is the contract's Grant, an answered confirmation its Settle.
LEMMA CallbackContract ==
  ASSUME IInv, NEW w \in Workers,
         \/ CallbackStep(w) \/ FulfilRollback(w) \/ RunHookFails(w)
         \/ PublishFails(w) \/ AbandonCallback(w)
  PROVE  LET r == cb[w].tx IN
         \/ UNCHANGED <<Charged, grants, Settled, Announced>>
         \/ /\ r \in Charged /\ grants[r] = 0
            /\ grants' = [grants EXCEPT ![r] = 1]
            /\ UNCHANGED <<Charged, Settled, Announced>>
         \/ /\ r \in Charged /\ grants[r] = 1
            /\ Settled' = Settled \union {r}
            /\ UNCHANGED <<Charged, grants, Announced>>
<1> DEFINE r == cb[w].tx
<1>0. r \in Requests
  BY DEF IInv, TypeOK
<1>1. UNCHANGED <<Charged, Announced, provider>>
  BY DEF CallbackStep, Validate, Fulfil, FulfilRollback, ApplyAgain, MarkRetryable, RunHook,
         RunHookFails, Publish, PublishFails, ClearMarker, AbandonCallback, CallbackFrame,
         Charged, Announced
<1>2. CASE Fulfil(w)
  <2>0. r \in Charged /\ grants[r] = 0
    BY <1>0, <1>2
    DEF Fulfil, CanClaim, Claimable, IInv, CallbackInv, GrantedExactlyOnce, Charged
  <2>1. r \in Charged /\ grants[r] = 0 /\ grants' = [grants EXCEPT ![r] = 1]
    BY <1>2, <2>0 DEF Fulfil
  <2>2. UNCHANGED Settled
    BY <1>1, <1>2 DEF Fulfil, Settled
  <2> QED
    BY <1>1, <2>1, <2>2
<1>3. CASE ~Fulfil(w)
  <2>1. UNCHANGED grants
    BY <1>3 DEF CallbackStep, Validate, FulfilRollback, ApplyAgain, MarkRetryable, RunHook,
                RunHookFails, Publish, PublishFails, ClearMarker, AbandonCallback, resultVars
  <2>2. CASE UNCHANGED acked
    BY <1>1, <2>1, <2>2 DEF Settled
  <2>3. CASE acked' = acked \union {r} /\ provider[r] = "canceled"
    BY <1>1, <2>1, <2>3 DEF Settled
  <2>4. CASE acked' = acked \union {r} /\ provider[r] = "confirmed" /\ status[r] = "fulfilled"
    <3>1. r \in Charged /\ grants[r] = 1
      BY <1>0, <2>4 DEF IInv, GrantedExactlyOnce, Charged
    <3>2. Settled' = Settled \union {r}
      BY <1>1, <2>4 DEF Settled
    <3> QED
      BY <1>1, <2>1, <3>1, <3>2
  <2> QED
    BY <2>2, <2>3, <2>4, CallbackAcked DEF Decided
<1> QED
  BY <1>2, <1>3

\* A sent message is the contract's Announce.
LEMMA TaskContract ==
  ASSUME IInv, NEW t \in Tasks, TaskStep(t) \/ SendFails(t) \/ LoseTask(t)
  PROVE  LET r == task[t].tx IN
         \/ UNCHANGED <<Charged, grants, Settled, Announced>>
         \/ /\ grants[r] = 1
            /\ Announced' = Announced \union {r}
            /\ UNCHANGED <<Charged, grants, Settled>>
<1> DEFINE r == task[t].tx
<1>1. UNCHANGED <<Charged, grants, Settled>>
  BY DEF TaskStep, StartTask, SendMessage, SendFails, MarkSent, LoseTask, TaskFrame,
         resultVars, worldVars, Charged, Settled
<1>2. \/ UNCHANGED told
      \/ task[t].step # "none" /\ told' = [told EXCEPT ![r] = @ + 1]
  BY DEF TaskStep, StartTask, SendMessage, SendFails, MarkSent, LoseTask
<1>3. CASE UNCHANGED told
  BY <1>1, <1>3 DEF Announced
<1>4. CASE task[t].step # "none" /\ told' = [told EXCEPT ![r] = @ + 1]
  <2>1. r \in Requests /\ grants[r] = 1
    BY <1>4 DEF IInv, TypeOK, TaskInv, GrantedExactlyOnce
  <2>2. Announced' = Announced \union {r}
    BY <1>4, <2>1 DEF Announced, IInv, TypeOK
  <2> QED
    BY <1>1, <2>1, <2>2
<1> QED
  BY <1>2, <1>3, <1>4

\* Every step is a step or a stutter of the contract.
LEMMA ContractStep == IInv /\ [Next]_vars => [Contract!Next]_(Contract!vars)
<1> SUFFICES ASSUME IInv, [Next]_vars PROVE [Contract!Next]_(Contract!vars)
  OBVIOUS
<1> USE DEF Contract!Next, Contract!vars, Contract!Charge, Contract!Grant, Contract!Settle,
            Contract!Announce, Charged, Settled, Announced
<1>1. ASSUME NEW r \in Requests,
             Begin(r) \/ RequestStep(r) \/ ActivateError(r) \/ AbandonRequest(r)
      PROVE  UNCHANGED (Contract!vars)
  BY <1>1, RequestContract
<1>2. CASE \/ Tick
           \/ \E r \in Requests : Pay(r) \/ ProviderCancel(r)
           \/ \E w \in Workers, r \in Requests, m \in Messages : Deliver(w, r, m)
  BY <1>2, WorldContract
<1>3. ASSUME NEW w \in Workers,
             \/ CallbackStep(w) \/ FulfilRollback(w) \/ RunHookFails(w)
             \/ PublishFails(w) \/ AbandonCallback(w)
      PROVE  [Contract!Next]_(Contract!vars)
  <2>1. cb[w].tx \in Requests
    BY DEF IInv, TypeOK
  <2> QED
    BY <1>3, <2>1, CallbackContract
<1>4. ASSUME NEW t \in Tasks, TaskStep(t) \/ SendFails(t) \/ LoseTask(t)
      PROVE  [Contract!Next]_(Contract!vars)
  <2>1. task[t].tx \in Requests
    BY DEF IInv, TypeOK
  <2> QED
    BY <1>4, <2>1, TaskContract
<1>5. CASE UNCHANGED vars
  BY <1>5 DEF vars, resultVars, taskVars, worldVars
<1> QED
  BY <1>1, <1>2, <1>3, <1>4, <1>5 DEF Next

\* The purchase contract's safety: a charge is granted at most once, settled
\* and announced only when granted, under every interleaving and fault.
THEOREM RefinesContract == Safety => Contract!Safety
BY ContractInit, ContractStep, Invariant, PTL DEF Safety, Contract!Safety
===============================================================================
