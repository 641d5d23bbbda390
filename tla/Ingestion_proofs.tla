--------------------------- MODULE Ingestion_proofs ---------------------------
(* Proofs about Ingestion, for any set of documents, however they are         *)
(* uploaded, shared and reprocessed, and every value of the bounds.           *)
EXTENDS Ingestion, TLAPS

-----------------------------------------------------------------------------
(* What the shared pieces of the actions do to the types.                     *)

LEMMA IdleType == IdleTask \in Tasks
<1>1. Todo \in [Stages -> {"todo", "stored", "done", "failed"}]
  BY DEF Todo
<1>2. {} \in SUBSET Stages /\ 0 \in 0..MaxRetries
  BY IngestionAssumption
<1>. QED
  BY <1>1, <1>2 DEF IdleTask, Tasks, Steps

LEMMA FreeType ==
  ASSUME TypeOK, NEW w \in Workers
  PROVE  /\ Free(w) \in Tasks
         /\ worker[w] \in Tasks
<1>1. worker[w] \in Tasks
  BY DEF TypeOK
<1>2. worker[w].unsent \in SUBSET Stages
  BY <1>1 DEF Tasks
<1>. QED
  BY <1>1, <1>2, IdleType DEF Free, Tasks

LEMMA SetTask ==
  ASSUME TypeOK, NEW w \in Workers, NEW t \in Tasks,
         worker' = [worker EXCEPT ![w] = t]
  PROVE  worker' \in [Workers -> Tasks]
BY DEF TypeOK

LEMMA GotoType ==
  ASSUME TypeOK, NEW w \in Workers, NEW pc \in Steps, Goto(w, pc)
  PROVE  worker' \in [Workers -> Tasks]
<1>1. [worker[w] EXCEPT !.pc = pc] \in Tasks
  BY FreeType DEF Tasks
<1>2. worker' = [worker EXCEPT ![w] = [worker[w] EXCEPT !.pc = pc]]
  BY DEF Goto
<1>. QED
  BY <1>1, <1>2, SetTask

LEMMA LeaveType ==
  ASSUME TypeOK, NEW w \in Workers, NEW pc \in Steps, Leave(w, pc)
  PROVE  worker' \in [Workers -> Tasks]
<1>. DEFINE t == [Free(w) EXCEPT !.pc = pc, !.doc = worker[w].doc,
                                 !.try = worker[w].try]
<1>1. t \in Tasks
  BY FreeType DEF Tasks
<1>2. worker' = [worker EXCEPT ![w] = t]
  BY DEF Leave
<1>. QED
  BY <1>1, <1>2, SetTask

LEMMA FailingType ==
  ASSUME TypeOK, NEW w \in Workers, NEW next \in {"ack", "delete", "retry"},
         Failing(w, next)
  PROVE  worker' \in [Workers -> Tasks]
<1>. DEFINE t == [Free(w) EXCEPT !.pc = "failed", !.next = next,
                                 !.doc = worker[w].doc, !.try = worker[w].try]
<1>1. [Free(w) EXCEPT !.pc = "failed"] \in Tasks
  BY FreeType DEF Tasks, Steps
<1>2. [Free(w) EXCEPT !.pc = "failed", !.next = next] \in Tasks
  BY <1>1 DEF Tasks
<1>3. t \in Tasks
  BY <1>2, FreeType DEF Tasks
<1>4. worker' = [worker EXCEPT ![w] = t]
  BY DEF Failing
<1>. QED
  BY <1>3, <1>4, SetTask

LEMMA PutType ==
  ASSUME TypeOK, NEW d, NEW q, NEW n, Put(d, q, n)
  PROVE  msgs' \in [Messages -> Nat]
<1>1. msgs \in [Messages -> Nat]
  BY DEF TypeOK
<1>. DEFINE x == [doc |-> d, queue |-> q, try |-> n]
<1>2. msgs' = [msgs EXCEPT ![x] = msgs[x] + 1]
  BY DEF Put
<1>3. CASE x \in Messages
  <2>1. msgs[x] + 1 \in Nat
    BY <1>1, <1>3
  <2>. QED
    BY <1>1, <1>2, <2>1
<1>4. CASE x \notin Messages
  BY <1>1, <1>2, <1>4
<1>. QED
  BY <1>3, <1>4

LEMMA OutageType ==
  ASSUME TypeOK, Outage
  PROVE  outages' \in Nat
BY DEF TypeOK, Outage

(* A task with another transaction, and with another state of a stage.        *)
LEMMA TransactionType ==
  ASSUME TypeOK, NEW w \in Workers,
         NEW tx \in Stages \cup {"none", "READY", "FAILED"}, NEW all \in BOOLEAN
  PROVE  [worker[w] EXCEPT !.tx = tx, !.all = all] \in Tasks
BY FreeType DEF Tasks

LEMMA PipelineType ==
  ASSUME TypeOK, NEW w \in Workers, NEW s \in Stages,
         NEW state \in {"todo", "stored", "done", "failed"},
         NEW tx \in Stages \cup {"none", "READY", "FAILED"}, NEW all \in BOOLEAN,
         NEW unsent \in SUBSET Stages
  PROVE  /\ [worker[w] EXCEPT !.stage[s] = state] \in Tasks
         /\ [worker[w] EXCEPT !.stage[s] = state, !.tx = tx, !.all = all,
                               !.unsent = unsent] \in Tasks
<1>1. [worker[w].stage EXCEPT ![s] = state]
        \in [Stages -> {"todo", "stored", "done", "failed"}]
  <2>1. worker[w].stage \in [Stages -> {"todo", "stored", "done", "failed"}]
    BY FreeType DEF Tasks
  <2>. QED
    BY <2>1
<1>2. [worker[w] EXCEPT !.stage = [worker[w].stage EXCEPT ![s] = state]] \in Tasks
  BY <1>1, FreeType DEF Tasks
<1>. DEFINE t == [worker[w] EXCEPT !.stage = [worker[w].stage EXCEPT ![s] = state]]
            u == [t EXCEPT !.tx = tx, !.all = all]
<1>3. u \in Tasks
  BY <1>2 DEF Tasks
<1>4. [u EXCEPT !.unsent = unsent] \in Tasks
  <2>. HIDE DEF u
  <2>. QED
    BY <1>3 DEF Tasks
<1>. QED
  BY <1>2, <1>4

-----------------------------------------------------------------------------
(* Type correctness, action by action.                                        *)

LEMMA InitType == Init => TypeOK
<1>. SUFFICES ASSUME Init PROVE TypeOK
  OBVIOUS
<1>1. worker \in [Workers -> Tasks]
  BY IdleType DEF Init
<1>2. status \in [Docs -> DocumentStatus]
  BY DEF Init, DocumentStatus
<1>3. /\ flags \in [Docs -> SUBSET Columns]
      /\ stored \in [Docs -> SUBSET Stages]
      /\ swept \in [Stages -> SUBSET Docs]
  BY DEF Init
<1>4. /\ old \in [Docs -> BOOLEAN] /\ blob \in [Docs -> BOOLEAN]
      /\ key \in [Docs -> Docs]
  BY DEF Init
<1>5. msgs \in [Messages -> Nat] /\ sweeps \in [Stages -> Nat]
  BY DEF Init
<1>6. /\ ws \in {"PENDING", "READY"} /\ viewer \in {"none", "PENDING", "READY"}
      /\ reprocessed \in Nat /\ errors \in Nat /\ outages \in Nat /\ crashes \in Nat
  BY DEF Init
<1>. QED
  BY <1>1, <1>2, <1>3, <1>4, <1>5, <1>6 DEF TypeOK

LEMMA UploadType ==
  ASSUME TypeOK, NEW d \in Docs, Upload(d)
  PROVE  TypeOK'
<1>1. status' \in [Docs -> DocumentStatus]
  BY DEF TypeOK, Upload, DocumentStatus
<1>2. blob' \in [Docs -> BOOLEAN]
  BY DEF TypeOK, Upload
<1>3. msgs' \in [Messages -> Nat] /\ outages' \in Nat
  BY PutType, OutageType DEF TypeOK, Upload
<1>. QED
  BY <1>1, <1>2, <1>3 DEF TypeOK, Upload

LEMMA LinkType ==
  ASSUME TypeOK, NEW d \in Docs, Link(d)
  PROVE  TypeOK'
<1>1. status' \in [Docs -> DocumentStatus]
  BY DEF TypeOK, Link, DocumentStatus
<1>2. flags' \in [Docs -> SUBSET Columns]
  BY DEF TypeOK, Link
<1>3. key' \in [Docs -> Docs]
  BY DEF TypeOK, Link
<1>. QED
  BY <1>1, <1>2, <1>3 DEF TypeOK, Link, broker, budgets

LEMMA ReprocessType ==
  ASSUME TypeOK, NEW d \in Docs, Reprocess(d)
  PROVE  TypeOK'
<1>1. status' \in [Docs -> DocumentStatus]
  BY DEF TypeOK, Reprocess, DocumentStatus
<1>2. flags' \in [Docs -> SUBSET Columns]
  BY DEF TypeOK, Reprocess, Columns
<1>3. msgs' \in [Messages -> Nat] /\ outages' \in Nat
  BY PutType, OutageType DEF TypeOK, Reprocess
<1>4. reprocessed' \in Nat
  BY DEF TypeOK, Reprocess
<1>. QED
  BY <1>1, <1>2, <1>3, <1>4 DEF TypeOK, Reprocess

LEMMA ViewType ==
  ASSUME TypeOK, View \/ ViewCommit
  PROVE  TypeOK'
<1>1. /\ viewer' \in {"none", "PENDING", "READY"}
      /\ ws' \in {"PENDING", "READY"}
  BY DEF TypeOK, View, ViewCommit, Expected, tables
<1>. QED
  BY <1>1 DEF TypeOK, View, ViewCommit, tables, broker, budgets

LEMMA HourPassesType ==
  ASSUME TypeOK, NEW d \in Docs, HourPasses(d)
  PROVE  TypeOK'
<1>1. old' \in [Docs -> BOOLEAN]
  BY DEF TypeOK, HourPasses
<1>. QED
  BY <1>1 DEF TypeOK, HourPasses, broker, budgets

LEMMA SweepStuckTasksType ==
  ASSUME TypeOK, SweepStuckTasks
  PROVE  TypeOK'
<1>1. status' \in [Docs -> DocumentStatus]
  BY DEF TypeOK, SweepStuckTasks, DocumentStatus
<1>. QED
  BY <1>1 DEF TypeOK, SweepStuckTasks, broker, budgets

LEMMA DeliverType ==
  ASSUME TypeOK, NEW w \in Workers, Deliver(w)
  PROVE  TypeOK'
<1>1. PICK m \in Messages :
         /\ msgs[m] > 0
         /\ msgs' = [msgs EXCEPT ![m] = @ - 1]
         /\ worker' = [worker EXCEPT ![w] = [Free(w) EXCEPT !.pc = "download",
                                            !.doc = m.doc, !.try = m.try]]
  BY DEF Deliver
<1>2. [Free(w) EXCEPT !.pc = "download", !.doc = m.doc, !.try = m.try] \in Tasks
  <2>1. m.doc \in Docs \cup {NoDoc} /\ m.try \in 0..MaxRetries
    BY DEF Messages
  <2>2. "download" \in Steps
    BY DEF Steps
  <2>. QED
    BY <2>1, <2>2, FreeType DEF Tasks
<1>3. worker' \in [Workers -> Tasks]
  BY <1>1, <1>2, SetTask
<1>4. msgs' \in [Messages -> Nat]
  <2>1. msgs[m] - 1 \in Nat
    BY <1>1 DEF TypeOK
  <2>. QED
    BY <1>1, <2>1 DEF TypeOK
<1>. QED
  BY <1>3, <1>4 DEF TypeOK, Deliver, tables, budgets

LEMMA DownloadType ==
  ASSUME TypeOK, NEW w \in Workers, Download(w)
  PROVE  TypeOK'
<1>1. worker' \in [Workers -> Tasks]
  BY GotoType DEF Download, Steps
<1>2. outages' \in Nat
  BY OutageType DEF TypeOK, Download
<1>. QED
  BY <1>1, <1>2 DEF TypeOK, Download, tables, broker

LEMMA ParseType ==
  ASSUME TypeOK, NEW w \in Workers, Parse(w)
  PROVE  TypeOK'
<1>1. worker' \in [Workers -> Tasks]
  BY GotoType, FailingType DEF Parse, Steps
<1>. QED
  BY <1>1 DEF TypeOK, Parse, tables, broker, budgets

LEMMA StoreType ==
  ASSUME TypeOK, NEW w \in Workers, NEW s \in Stages, Store(w, s)
  PROVE  TypeOK'
<1>1. [worker[w] EXCEPT !.stage[s] = "stored"] \in Tasks
  BY PipelineType
<1>2. worker' = [worker EXCEPT ![w] = [worker[w] EXCEPT !.stage[s] = "stored"]]
  BY DEF Store
<1>3. worker' \in [Workers -> Tasks]
  BY <1>1, <1>2, SetTask
<1>4. stored' \in [Docs -> SUBSET Stages]
  BY DEF TypeOK, Store
<1>. QED
  BY <1>1, <1>2, <1>3, <1>4 DEF TypeOK, Store, broker, budgets

LEMMA StageFailsType ==
  ASSUME TypeOK, NEW w \in Workers, NEW s \in Stages, StageFails(w, s)
  PROVE  TypeOK'
<1>1. worker' \in [Workers -> Tasks]
  <2>1. CASE worker' = [worker EXCEPT ![w].stage[s] = "failed"]
    <3>1. [worker[w] EXCEPT !.stage[s] = "failed"] \in Tasks
      BY PipelineType
    <3>2. worker' = [worker EXCEPT ![w] = [worker[w] EXCEPT !.stage[s] = "failed"]]
      BY <2>1
    <3>. QED
      BY <3>1, <3>2, SetTask
  <2>2. ASSUME NEW left \in SUBSET {t \in {s} : worker[w].all},
               worker' = [worker EXCEPT ![w].stage[s] = "failed", ![w].tx = "none",
                            ![w].all = FALSE, ![w].unsent = @ \cup left]
        PROVE  worker' \in [Workers -> Tasks]
    <3>. DEFINE kept == worker[w].unsent \cup left
    <3>. DEFINE t == [worker[w] EXCEPT !.stage[s] = "failed", !.tx = "none",
                                       !.all = FALSE, !.unsent = kept]
    <3>1. kept \in SUBSET Stages
      BY FreeType DEF Tasks
    <3>2. t \in Tasks
      BY <3>1, PipelineType
    <3>3. worker' = [worker EXCEPT ![w] = t]
      BY <2>2
    <3>. QED
      BY <3>2, <3>3, SetTask
  <2>. QED
    BY <2>1, <2>2 DEF StageFails
<1>2. errors' \in Nat
  BY DEF TypeOK, StageFails
<1>. QED
  BY <1>1, <1>2 DEF TypeOK, StageFails, tables, broker

LEMMA FlushType ==
  ASSUME TypeOK, NEW w \in Workers, NEW s \in Stages, Flush(w, s)
  PROVE  TypeOK'
<1>. DEFINE t == [worker[w] EXCEPT !.tx = s,
                                   !.all = AllComplete(worker[w].doc, s)]
<1>1. AllComplete(worker[w].doc, s) \in BOOLEAN
  BY DEF AllComplete
<1>2. t \in Tasks
  BY <1>1, TransactionType
<1>3. worker' = [worker EXCEPT ![w] = t]
  BY DEF Flush
<1>4. worker' \in [Workers -> Tasks]
  BY <1>2, <1>3, SetTask
<1>. QED
  BY <1>4 DEF TypeOK, Flush, tables, broker, budgets

LEMMA FlushCommitType ==
  ASSUME TypeOK, NEW w \in Workers, NEW s \in Stages, FlushCommit(w, s)
  PROVE  TypeOK'
<1>1. flags' \in [Docs -> SUBSET Columns]
  <2>1. s \in Columns
    BY IngestionAssumption DEF Columns
  <2>. QED
    BY <2>1 DEF TypeOK, FlushCommit
<1>2. ws' \in {"PENDING", "READY"}
  BY DEF TypeOK, FlushCommit
<1>. DEFINE Due(before) == before \cup {t \in {s} : worker[w].all}
            Then(state, unsent) ==
              [worker[w] EXCEPT !.stage[s] = state, !.tx = "none", !.all = FALSE,
                                !.unsent = unsent]
<1>3. PICK before \in SUBSET worker[w].unsent :
        \/ /\ sweeps' = [t \in Stages |->
                            sweeps[t] + IF t \in Due(before) THEN 1 ELSE 0]
           /\ worker' = [worker EXCEPT ![w].stage[s] = "done", ![w].tx = "none",
                            ![w].all = FALSE, ![w].unsent = @ \ before]
           /\ UNCHANGED outages
        \/ /\ Outage
           /\ worker' = [worker EXCEPT ![w].stage[s] = "failed", ![w].tx = "none",
                            ![w].all = FALSE, ![w].unsent = @ \cup Due(before)]
           /\ UNCHANGED sweeps
  BY Zenon DEF FlushCommit
<1>4. /\ worker[w].unsent \ before \in SUBSET Stages
      /\ worker[w].unsent \cup Due(before) \in SUBSET Stages
  BY FreeType DEF Tasks
<1>5. /\ Then("done", worker[w].unsent \ before) \in Tasks
      /\ Then("failed", worker[w].unsent \cup Due(before)) \in Tasks
  <2>. HIDE DEF Due
  <2>. QED
    BY <1>4, PipelineType
<1>6. worker' \in [Workers -> Tasks]
  <2>1. \/ worker' = [worker EXCEPT ![w] = Then("done", worker[w].unsent \ before)]
        \/ worker' = [worker EXCEPT ![w] =
                         Then("failed", worker[w].unsent \cup Due(before))]
    BY <1>3
  <2>. QED
    BY <1>5, <2>1, SetTask
<1>7. sweeps' \in [Stages -> Nat] /\ outages' \in Nat
  BY <1>3, OutageType DEF TypeOK
<1>. QED
  BY <1>1, <1>2, <1>6, <1>7 DEF TypeOK, FlushCommit

LEMMA UpdateStatusType ==
  ASSUME TypeOK, NEW w \in Workers, NEW new \in {"READY", "FAILED"},
         UpdateStatus(w, new)
  PROVE  TypeOK'
<1>. DEFINE all == \A e \in Docs \ {worker[w].doc} : status[e] # "PENDING"
            t == [worker[w] EXCEPT !.tx = new, !.all = all]
<1>1. t \in Tasks
  <2>1. all \in BOOLEAN
    OBVIOUS
  <2>. HIDE DEF all
  <2>. QED
    BY <2>1, TransactionType
<1>2. worker' = [worker EXCEPT ![w] = t]
  BY DEF UpdateStatus
<1>3. worker' \in [Workers -> Tasks]
  BY <1>1, <1>2, SetTask
<1>. QED
  BY <1>3 DEF TypeOK, UpdateStatus, tables, broker, budgets

LEMMA StatusCommitType ==
  ASSUME TypeOK, NEW w \in Workers, StatusCommit(w)
  PROVE  TypeOK'
<1>1. worker' \in [Workers -> Tasks]
  <2>1. worker[w].next \in Steps
    BY FreeType DEF Tasks, Steps
  <2>2. (IF worker[w].tx = "READY" THEN "progress" ELSE worker[w].next) \in Steps
    BY <2>1 DEF Steps
  <2>. QED
    BY <2>2, LeaveType DEF StatusCommit
<1>2. status' \in [Docs -> DocumentStatus]
  BY DEF TypeOK, StatusCommit, DocumentStatus
<1>3. flags' \in [Docs -> SUBSET Columns]
  BY DEF TypeOK, StatusCommit, Columns
<1>4. ws' \in {"PENDING", "READY"}
  BY DEF StatusCommit
<1>. QED
  BY <1>1, <1>2, <1>3, <1>4 DEF TypeOK, StatusCommit, broker, budgets

LEMMA ProgressType ==
  ASSUME TypeOK, NEW w \in Workers, Progress(w)
  PROVE  TypeOK'
<1>1. worker' \in [Workers -> Tasks]
  BY GotoType DEF Progress, Steps
<1>. QED
  BY <1>1 DEF TypeOK, Progress, tables, broker, budgets

LEMMA CoreErrorType ==
  ASSUME TypeOK, NEW w \in Workers, CoreError(w)
  PROVE  TypeOK'
<1>1. worker' \in [Workers -> Tasks]
  BY FailingType DEF CoreError
<1>2. errors' \in Nat
  BY DEF TypeOK, CoreError
<1>. QED
  BY <1>1, <1>2 DEF TypeOK, CoreError, tables, broker

LEMMA WriteLostType ==
  ASSUME TypeOK, NEW w \in Workers, WriteLost(w)
  PROVE  TypeOK'
<1>1. worker' \in [Workers -> Tasks]
  BY FailingType, LeaveType DEF WriteLost, Steps
<1>2. outages' \in Nat
  BY OutageType DEF WriteLost
<1>. QED
  BY <1>1, <1>2 DEF TypeOK, WriteLost, tables, broker

LEMMA DeleteType ==
  ASSUME TypeOK, NEW w \in Workers, Delete(w)
  PROVE  TypeOK'
<1>1. worker' \in [Workers -> Tasks]
  BY GotoType DEF Delete, Steps
<1>2. blob' \in [Docs -> BOOLEAN]
  BY DEF TypeOK, Delete
<1>. QED
  BY <1>1, <1>2 DEF TypeOK, Delete, broker, budgets

LEMMA RetryType ==
  ASSUME TypeOK, NEW w \in Workers, Retry(w)
  PROVE  TypeOK'
<1>1. worker' \in [Workers -> Tasks]
  BY GotoType DEF Retry, Steps
<1>2. msgs' \in [Messages -> Nat]
  BY PutType DEF TypeOK, Retry
<1>. QED
  BY <1>1, <1>2 DEF TypeOK, Retry, tables, budgets

LEMMA AckType ==
  ASSUME TypeOK, NEW w \in Workers, Ack(w)
  PROVE  TypeOK'
<1>1. worker' \in [Workers -> Tasks]
  BY FreeType, SetTask DEF Ack
<1>. QED
  BY <1>1 DEF TypeOK, Ack, tables, broker, budgets

LEMMA WorkerLostType ==
  ASSUME TypeOK, NEW w \in Workers, WorkerLost(w)
  PROVE  TypeOK'
<1>1. worker' \in [Workers -> Tasks]
  BY IdleType, SetTask DEF WorkerLost
<1>2. msgs' \in [Messages -> Nat]
  BY PutType DEF TypeOK, WorkerLost
<1>3. crashes' \in Nat
  BY DEF TypeOK, WorkerLost
<1>. QED
  BY <1>1, <1>2, <1>3 DEF TypeOK, WorkerLost, tables

LEMMA TimeLimitType ==
  ASSUME TypeOK, NEW w \in Workers, TimeLimit(w)
  PROVE  TypeOK'
<1>1. worker' \in [Workers -> Tasks]
  BY IdleType, SetTask DEF TimeLimit
<1>2. outages' \in Nat
  BY OutageType DEF TimeLimit
<1>. QED
  BY <1>1, <1>2 DEF TypeOK, TimeLimit, tables, broker

LEMMA SweepType ==
  ASSUME TypeOK, NEW s \in Stages, Sweep(s)
  PROVE  TypeOK'
<1>1. sweeps' \in [Stages -> Nat]
  <2>1. sweeps[s] - 1 \in Nat
    BY DEF TypeOK, Sweep
  <2>. QED
    BY <2>1 DEF TypeOK, Sweep
<1>2. swept' \in [Stages -> SUBSET Docs]
  BY DEF TypeOK, Sweep
<1>3. outages' \in Nat
  BY OutageType DEF TypeOK, Sweep
<1>. QED
  BY <1>1, <1>2, <1>3 DEF TypeOK, Sweep, tables

LEMMA NextType ==
  ASSUME TypeOK, [Next]_vars
  PROVE  TypeOK'
<1>1. CASE UNCHANGED vars
  BY <1>1 DEF TypeOK, vars, tables, broker, budgets
<1>2. ASSUME NEW d \in Docs, Upload(d) \/ Link(d) \/ Reprocess(d) \/ HourPasses(d)
      PROVE  TypeOK'
  BY <1>2, UploadType, LinkType, ReprocessType, HourPassesType
<1>3. CASE View \/ ViewCommit \/ SweepStuckTasks
  BY <1>3, ViewType, SweepStuckTasksType
<1>4. ASSUME NEW w \in Workers, Task(w)
      PROVE  TypeOK'
  <2>1. CASE \/ Deliver(w) \/ Download(w) \/ Parse(w) \/ Progress(w)
             \/ Delete(w) \/ Retry(w) \/ Ack(w)
    BY <2>1, DeliverType, DownloadType, ParseType, ProgressType, DeleteType,
       RetryType, AckType
  <2>2. CASE MarkReady(w) \/ MarkFailed(w) \/ StatusCommit(w)
    BY <2>2, UpdateStatusType, StatusCommitType DEF MarkReady, MarkFailed
  <2>3. CASE \E s \in Stages : Store(w, s) \/ Flush(w, s) \/ FlushCommit(w, s)
    BY <2>3, StoreType, FlushType, FlushCommitType
  <2>. QED
    BY <1>4, <2>1, <2>2, <2>3 DEF Task
<1>5. ASSUME NEW w \in Workers, Fault(w)
      PROVE  TypeOK'
  BY <1>5, StageFailsType, CoreErrorType, WriteLostType, WorkerLostType,
     TimeLimitType DEF Fault
<1>6. ASSUME NEW s \in Stages, Sweep(s)
      PROVE  TypeOK'
  BY <1>6, SweepType
<1>. QED
  BY <1>1, <1>2, <1>3, <1>4, <1>5, <1>6 DEF Next

(* Every variable keeps its type.                                             *)
THEOREM TypeCorrect == Spec => []TypeOK
<1>1. Init => TypeOK
  BY InitType
<1>2. TypeOK /\ [Next]_vars => TypeOK'
  BY NextType
<1>. QED
  BY <1>1, <1>2, PTL DEF Spec

-----------------------------------------------------------------------------
(* PendingIsPursued, action by action.                                        *)

(* With these steps a task will still write the status of its document.       *)
AtWork == {"download", "parse", "extract", "failed"}

(* A message that is sent pursues its document, and takes no other away.      *)
LEMMA PutPursues ==
  ASSUME TypeOK, NEW d \in Docs, NEW q \in Workers, NEW n \in 0..MaxRetries,
         Put(d, q, n)
  PROVE  /\ Pursued(d)'
         /\ \A m \in Messages : msgs[m] > 0 => msgs'[m] > 0
<1>. DEFINE x == [doc |-> d, queue |-> q, try |-> n]
<1>1. x \in Messages
  BY DEF Messages
<1>2. msgs' = [msgs EXCEPT ![x] = msgs[x] + 1]
  BY DEF Put
<1>3. msgs'[x] > 0 /\ x.doc = d
  BY <1>1, <1>2 DEF TypeOK
<1>4. \A m \in Messages : msgs[m] > 0 => msgs'[m] > 0
  BY <1>1, <1>2 DEF TypeOK
<1>. QED
  BY <1>1, <1>3, <1>4 DEF Pursued

(* Who pursued d goes on, when no message is lost and no task leaves.         *)
LEMMA StillPursued ==
  ASSUME NEW d \in Docs, Pursued(d),
         \A m \in Messages : msgs[m] > 0 => msgs'[m] > 0,
         \A w \in Workers :
            worker[w].doc = d /\ worker[w].pc \in AtWork
              => worker'[w].doc = d /\ worker'[w].pc \in AtWork
  PROVE  Pursued(d)'
BY DEF Pursued, AtWork

LEMMA UploadPursued ==
  ASSUME TypeOK, KeyInv, PendingIsPursued, NEW e \in Docs, Upload(e),
         outages' = 0, NEW d \in Docs, status'[d] = "PENDING", HasFile(d)'
  PROVE  Pursued(d)'
<1>1. outages = 0 /\ Put(e, IF e \in Scanned THEN "ocr" ELSE "default", 0)
  BY DEF Upload, Outage, TypeOK
<1>2. /\ Pursued(e)'
      /\ \A m \in Messages : msgs[m] > 0 => msgs'[m] > 0
  <2>1. (IF e \in Scanned THEN "ocr" ELSE "default") \in Workers
    BY DEF Workers
  <2>2. 0 \in 0..MaxRetries
    BY IngestionAssumption
  <2>. QED
    BY <1>1, <2>1, <2>2, PutPursues
<1>3. CASE d # e
  <2>1. key' = key /\ key[d] \in Docs /\ key[d] # e
    BY <1>3 DEF Upload, KeyInv, TypeOK
  <2>2. HasFile(d) /\ status[d] = "PENDING"
    BY <1>3, <2>1 DEF HasFile, Upload, TypeOK
  <2>3. Pursued(d)
    BY <1>1, <2>2 DEF PendingIsPursued
  <2>. QED
    BY <1>2, <2>3, StillPursued DEF Upload
<1>. QED
  BY <1>2, <1>3

LEMMA ReprocessPursued ==
  ASSUME TypeOK, PendingIsPursued, NEW e \in Docs, Reprocess(e),
         outages' = 0, NEW d \in Docs, status'[d] = "PENDING", HasFile(d)'
  PROVE  Pursued(d)'
<1>1. outages = 0 /\ Put(e, "default", 0)
  BY DEF Reprocess, Outage, TypeOK
<1>2. /\ Pursued(e)'
      /\ \A m \in Messages : msgs[m] > 0 => msgs'[m] > 0
  <2>1. "default" \in Workers /\ 0 \in 0..MaxRetries
    BY IngestionAssumption DEF Workers
  <2>. QED
    BY <1>1, <2>1, PutPursues
<1>3. CASE d # e
  <2>1. HasFile(d) /\ status[d] = "PENDING"
    BY <1>3 DEF HasFile, Reprocess, TypeOK
  <2>2. Pursued(d)
    BY <1>1, <2>1 DEF PendingIsPursued
  <2>. QED
    BY <1>2, <2>2, StillPursued DEF Reprocess
<1>. QED
  BY <1>2, <1>3

LEMMA LinkPursued ==
  ASSUME TypeOK, PendingIsPursued, NEW e \in Docs, Link(e),
         outages' = 0, NEW d \in Docs, status'[d] = "PENDING", HasFile(d)'
  PROVE  Pursued(d)'
<1>1. d # e
  BY DEF Link, TypeOK
<1>2. status[d] = "PENDING" /\ HasFile(d) /\ outages = 0
  BY <1>1 DEF Link, TypeOK, HasFile, budgets
<1>3. Pursued(d)
  BY <1>2 DEF PendingIsPursued
<1>. QED
  BY <1>3, StillPursued DEF Link, broker

LEMMA ApiPursued ==
  ASSUME TypeOK, PendingIsPursued,
         \/ View \/ ViewCommit \/ SweepStuckTasks
         \/ \E e \in Docs : HourPasses(e)
         \/ \E s \in Stages : Sweep(s)
         \/ UNCHANGED vars,
         outages' = 0, NEW d \in Docs, status'[d] = "PENDING", HasFile(d)'
  PROVE  Pursued(d)'
<1>1. status[d] = "PENDING" /\ HasFile(d) /\ outages = 0
  BY DEF View, ViewCommit, SweepStuckTasks, HourPasses, Sweep, Outage, TypeOK,
         HasFile, tables, budgets, vars
<1>2. Pursued(d)
  BY <1>1 DEF PendingIsPursued
<1>3. msgs' = msgs /\ worker' = worker
  BY DEF View, ViewCommit, SweepStuckTasks, HourPasses, Sweep, broker, vars
<1>. QED
  BY <1>2, <1>3, StillPursued

(* A task that goes on, or that has ended its work on the document's status,  *)
(* while no message is lost.                                                  *)
LEMMA TaskGoesOn ==
  ASSUME PendingIsPursued, outages = 0, NEW w \in Workers, NEW d \in Docs,
         status[d] = "PENDING", HasFile(d),
         \A m \in Messages : msgs[m] > 0 => msgs'[m] > 0,
         \A v \in Workers \ {w} : worker'[v] = worker[v],
         worker[w].doc = d /\ worker[w].pc \in AtWork
           => worker'[w].doc = d /\ worker'[w].pc \in AtWork
  PROVE  Pursued(d)'
<1>1. Pursued(d)
  BY DEF PendingIsPursued
<1>. QED
  BY <1>1, StillPursued

LEMMA DeliverPursued ==
  ASSUME TypeOK, PendingIsPursued, NEW w \in Workers, Deliver(w),
         outages' = 0, NEW d \in Docs, status'[d] = "PENDING", HasFile(d)'
  PROVE  Pursued(d)'
<1>1. status[d] = "PENDING" /\ HasFile(d) /\ outages = 0
  BY DEF Deliver, HasFile, tables, budgets
<1>2. PICK n \in Messages :
         /\ msgs' = [msgs EXCEPT ![n] = @ - 1]
         /\ worker' = [worker EXCEPT ![w] = [Free(w) EXCEPT !.pc = "download",
                                            !.doc = n.doc, !.try = n.try]]
  BY DEF Deliver
<1>3. worker'[w].pc = "download" /\ worker'[w].doc = n.doc
  <2>1. Free(w) \in Tasks /\ worker'[w] = [Free(w) EXCEPT !.pc = "download",
                                             !.doc = n.doc, !.try = n.try]
    BY <1>2, FreeType DEF TypeOK
  <2>. QED
    BY <2>1 DEF Tasks
<1>4. CASE n.doc = d
  BY <1>3, <1>4 DEF Pursued
<1>5. CASE n.doc # d
  <2>1. Pursued(d)
    BY <1>1 DEF PendingIsPursued
  <2>2. CASE \E m \in Messages : m.doc = d /\ msgs[m] > 0
    <3>1. PICK m \in Messages : m.doc = d /\ msgs[m] > 0
      BY <2>2
    <3>2. msgs'[m] > 0
      BY <1>2, <1>5, <3>1 DEF TypeOK
    <3>. QED
      BY <3>1, <3>2 DEF Pursued
  <2>3. CASE \E v \in Workers : worker[v].doc = d /\ worker[v].pc \in AtWork
    <3>1. PICK v \in Workers : worker[v].doc = d /\ worker[v].pc \in AtWork
      BY <2>3
    <3>2. v # w
      BY <3>1 DEF Deliver, AtWork
    <3>3. worker'[v] = worker[v]
      BY <1>2, <3>2 DEF TypeOK
    <3>. QED
      BY <3>1, <3>3 DEF Pursued, AtWork
  <2>. QED
    BY <2>1, <2>2, <2>3 DEF Pursued, AtWork
<1>. QED
  BY <1>4, <1>5

(* Where a task goes, with the same document.                                 *)
LEMMA GotoKeeps ==
  ASSUME TypeOK, NEW w \in Workers, NEW pc \in Steps, Goto(w, pc)
  PROVE  /\ worker'[w].doc = worker[w].doc /\ worker'[w].pc = pc
         /\ \A v \in Workers \ {w} : worker'[v] = worker[v]
BY FreeType DEF TypeOK, Goto, Tasks

LEMMA FailingKeeps ==
  ASSUME TypeOK, NEW w \in Workers, NEW next, Failing(w, next)
  PROVE  /\ worker'[w].doc = worker[w].doc /\ worker'[w].pc = "failed"
         /\ \A v \in Workers \ {w} : worker'[v] = worker[v]
<1>. DEFINE t == [Free(w) EXCEPT !.pc = "failed", !.next = next,
                                 !.doc = worker[w].doc, !.try = worker[w].try]
<1>1. worker' = [worker EXCEPT ![w] = t]
  BY DEF Failing
<1>2. t.doc = worker[w].doc /\ t.pc = "failed"
  BY FreeType DEF Tasks
<1>. HIDE DEF t
<1>. QED
  BY <1>1, <1>2 DEF TypeOK

LEMMA DownloadPursued ==
  ASSUME TypeOK, PendingIsPursued, NEW w \in Workers, Download(w),
         outages' = 0, NEW d \in Docs, status'[d] = "PENDING", HasFile(d)'
  PROVE  Pursued(d)'
<1>1. /\ status[d] = "PENDING" /\ HasFile(d) /\ outages = 0
      /\ msgs' = msgs
  BY DEF Download, Outage, TypeOK, HasFile, tables, broker
<1>2. \/ Goto(w, "parse")
      \/ Goto(w, "retry") /\ worker[w].doc # d
  BY <1>1 DEF Download, Outage, TypeOK
<1>3. /\ \A v \in Workers \ {w} : worker'[v] = worker[v]
      /\ worker[w].doc = d => worker'[w].doc = d /\ worker'[w].pc \in AtWork
  <2>1. "parse" \in Steps /\ "retry" \in Steps
    BY DEF Steps
  <2>. QED
    BY <1>2, <2>1, GotoKeeps DEF AtWork
<1>. QED
  BY <1>1, <1>3, TaskGoesOn

LEMMA ParsePursued ==
  ASSUME TypeOK, PendingIsPursued, NEW w \in Workers, Parse(w) \/ CoreError(w),
         outages' = 0, NEW d \in Docs, status'[d] = "PENDING", HasFile(d)'
  PROVE  Pursued(d)'
<1>1. /\ status[d] = "PENDING" /\ HasFile(d) /\ outages = 0
      /\ msgs' = msgs
  BY DEF Parse, CoreError, HasFile, tables, broker, budgets
<1>2. Goto(w, "extract") \/ Failing(w, "delete") \/ Failing(w, "retry")
  BY DEF Parse, CoreError
<1>3. /\ \A v \in Workers \ {w} : worker'[v] = worker[v]
      /\ worker'[w].doc = worker[w].doc /\ worker'[w].pc \in AtWork
  <2>1. "extract" \in Steps
    BY DEF Steps
  <2>. QED
    BY <1>2, <2>1, GotoKeeps, FailingKeeps DEF AtWork
<1>. QED
  BY <1>1, <1>3, TaskGoesOn

(* The steps of the pipeline and of a transaction stay where they are.        *)
LEMMA ExtractPursued ==
  ASSUME TypeOK, PendingIsPursued, NEW w \in Workers,
         \/ \E s \in Stages :
              Store(w, s) \/ StageFails(w, s) \/ Flush(w, s) \/ FlushCommit(w, s)
         \/ MarkReady(w) \/ MarkFailed(w),
         outages' = 0, NEW d \in Docs, status'[d] = "PENDING", HasFile(d)'
  PROVE  Pursued(d)'
<1>1. /\ status[d] = "PENDING" /\ HasFile(d) /\ outages = 0
      /\ msgs' = msgs
  <2>1. CASE \E s \in Stages : Store(w, s) \/ StageFails(w, s) \/ Flush(w, s)
    BY <2>1 DEF Store, StageFails, Flush, HasFile, tables, broker, budgets
  <2>2. CASE \E s \in Stages : FlushCommit(w, s)
    <3>1. outages' = outages \/ outages' = outages + 1
      BY <2>2 DEF FlushCommit, Outage
    <3>2. UNCHANGED <<status, blob, key, msgs>>
      BY <2>2 DEF FlushCommit
    <3>. QED
      BY <3>1, <3>2 DEF HasFile, TypeOK
  <2>3. CASE MarkReady(w) \/ MarkFailed(w)
    BY <2>3 DEF MarkReady, MarkFailed, UpdateStatus, HasFile, tables, broker, budgets
  <2>. QED
    BY <2>1, <2>2, <2>3
<1>2. /\ \A v \in Workers \ {w} : worker'[v] = worker[v]
      /\ worker'[w].doc = worker[w].doc /\ worker'[w].pc = worker[w].pc
  <2>1. worker \in [Workers -> Tasks] /\ worker[w] \in Tasks
    BY FreeType DEF TypeOK
  <2>2. CASE \E s \in Stages : Store(w, s)
    BY <2>1, <2>2 DEF Store, Tasks
  <2>3. CASE \E s \in Stages : StageFails(w, s)
    <3>1. \E s \in Stages :
            \/ worker' = [worker EXCEPT ![w].stage[s] = "failed"]
            \/ \E left : worker' = [worker EXCEPT ![w].stage[s] = "failed",
                            ![w].tx = "none", ![w].all = FALSE,
                            ![w].unsent = @ \cup left]
      BY <2>3 DEF StageFails
    <3>. QED
      BY <2>1, <3>1 DEF Tasks
  <2>4. CASE \E s \in Stages : Flush(w, s)
    <3>1. PICK s \in Stages : Flush(w, s)
      BY <2>4
    <3>2. worker' = [worker EXCEPT ![w].tx = s,
                                   ![w].all = AllComplete(worker[w].doc, s)]
      BY <3>1 DEF Flush
    <3>. QED
      BY <2>1, <3>2 DEF Tasks
  <2>5. CASE \E s \in Stages : FlushCommit(w, s)
    <3>1. PICK s \in Stages : FlushCommit(w, s)
      BY <2>5
    <3>2. PICK before : LET due == before \cup {t \in {s} : worker[w].all} IN
            \/ worker' = [worker EXCEPT ![w].stage[s] = "done", ![w].tx = "none",
                            ![w].all = FALSE, ![w].unsent = @ \ before]
            \/ worker' = [worker EXCEPT ![w].stage[s] = "failed", ![w].tx = "none",
                            ![w].all = FALSE, ![w].unsent = @ \cup due]
      BY <3>1, Zenon DEF FlushCommit
    <3>. QED
      BY <2>1, <3>2 DEF Tasks
  <2>6. CASE MarkReady(w) \/ MarkFailed(w)
    BY <2>1, <2>6 DEF MarkReady, MarkFailed, UpdateStatus, Tasks
  <2>. QED
    BY <2>2, <2>3, <2>4, <2>5, <2>6
<1>. QED
  BY <1>1, <1>2, TaskGoesOn

(* Committing a status other than PENDING ends the pursuit of that document.  *)
LEMMA StatusCommitPursued ==
  ASSUME TypeOK, PendingIsPursued, NEW w \in Workers, StatusCommit(w),
         outages' = 0, NEW d \in Docs, status'[d] = "PENDING", HasFile(d)'
  PROVE  Pursued(d)'
<1>1. worker[w].doc # d
  BY DEF StatusCommit, TypeOK
<1>2. /\ status[d] = "PENDING" /\ HasFile(d) /\ outages = 0
      /\ msgs' = msgs
  BY <1>1 DEF StatusCommit, HasFile, TypeOK, broker, budgets
<1>3. \A v \in Workers \ {w} : worker'[v] = worker[v]
  BY DEF StatusCommit, Leave, TypeOK
<1>. QED
  BY <1>1, <1>2, <1>3, TaskGoesOn

(* The steps of a task that has written the status already.                   *)
LEMMA EndPursued ==
  ASSUME TypeOK, PendingIsPursued, NEW w \in Workers,
         Progress(w) \/ Delete(w) \/ Retry(w) \/ Ack(w),
         outages' = 0, NEW d \in Docs, status'[d] = "PENDING", HasFile(d)'
  PROVE  Pursued(d)'
<1>1. worker[w].pc \notin AtWork
  BY DEF Progress, Delete, Retry, Ack, AtWork
<1>2. status[d] = "PENDING" /\ outages = 0
  BY DEF Progress, Delete, Retry, Ack, tables, budgets
<1>3. HasFile(d)
  BY DEF Progress, Delete, Retry, Ack, HasFile, TypeOK, tables
<1>4. \A m \in Messages : msgs[m] > 0 => msgs'[m] > 0
  <2>1. CASE Retry(w) /\ worker[w].try < MaxRetries
    <3>. DEFINE x == [doc |-> worker[w].doc, queue |-> w, try |-> worker[w].try + 1]
    <3>1. msgs' = [msgs EXCEPT ![x] = msgs[x] + 1]
      BY <2>1 DEF Retry, Put
    <3>. QED
      BY <3>1 DEF TypeOK
  <2>2. CASE ~(Retry(w) /\ worker[w].try < MaxRetries)
    BY <2>2 DEF Progress, Delete, Retry, Ack, broker
  <2>. QED
    BY <2>1, <2>2
<1>5. \A v \in Workers \ {w} : worker'[v] = worker[v]
  BY DEF Progress, Delete, Retry, Ack, Goto, TypeOK
<1>. QED
  BY <1>1, <1>2, <1>3, <1>4, <1>5, TaskGoesOn

(* A lost process gives its message back.                                     *)
LEMMA WorkerLostPursued ==
  ASSUME TypeOK, PendingIsPursued, NEW w \in Workers, WorkerLost(w),
         outages' = 0, NEW d \in Docs, status'[d] = "PENDING", HasFile(d)'
  PROVE  Pursued(d)'
<1>1. status[d] = "PENDING" /\ HasFile(d) /\ outages = 0
  BY DEF WorkerLost, HasFile, tables
<1>2. CASE worker[w].doc = d
  <2>1. worker[w].try \in 0..MaxRetries
    BY FreeType DEF Tasks
  <2>. QED
    BY <1>2, <2>1, PutPursues DEF WorkerLost
<1>3. CASE worker[w].doc # d
  <2>. DEFINE x == [doc |-> worker[w].doc, queue |-> w, try |-> worker[w].try]
  <2>1. msgs' = [msgs EXCEPT ![x] = msgs[x] + 1]
    BY DEF WorkerLost, Put
  <2>2. \A m \in Messages : msgs[m] > 0 => msgs'[m] > 0
    BY <2>1 DEF TypeOK
  <2>3. \A v \in Workers \ {w} : worker'[v] = worker[v]
    BY DEF WorkerLost, TypeOK
  <2>. QED
    BY <1>1, <1>3, <2>2, <2>3, TaskGoesOn
<1>. QED
  BY <1>2, <1>3

LEMMA NextPursued ==
  ASSUME TypeOK, KeyInv, PendingIsPursued, [Next]_vars
  PROVE  PendingIsPursued'
<1>. SUFFICES ASSUME outages' = 0, NEW d \in Docs, status'[d] = "PENDING",
                     HasFile(d)'
              PROVE  Pursued(d)'
  BY DEF PendingIsPursued
<1>1. ASSUME NEW e \in Docs, Upload(e) \/ Link(e) \/ Reprocess(e)
      PROVE  Pursued(d)'
  BY <1>1, UploadPursued, LinkPursued, ReprocessPursued
<1>2. CASE \/ View \/ ViewCommit \/ SweepStuckTasks
           \/ \E e \in Docs : HourPasses(e)
           \/ \E s \in Stages : Sweep(s)
           \/ UNCHANGED vars
  BY <1>2, ApiPursued
<1>3. ASSUME NEW w \in Workers, Task(w)
      PROVE  Pursued(d)'
  <2>1. CASE \/ Deliver(w) \/ Download(w) \/ Parse(w) \/ StatusCommit(w)
             \/ Progress(w) \/ Delete(w) \/ Retry(w) \/ Ack(w)
    BY <2>1, DeliverPursued, DownloadPursued, ParsePursued, StatusCommitPursued,
       EndPursued
  <2>2. CASE \/ \E s \in Stages : Store(w, s) \/ Flush(w, s) \/ FlushCommit(w, s)
             \/ MarkReady(w) \/ MarkFailed(w)
    BY <2>2, ExtractPursued
  <2>. QED
    BY <1>3, <2>1, <2>2 DEF Task
<1>4. ASSUME NEW w \in Workers, Fault(w)
      PROVE  Pursued(d)'
  <2>1. ~WriteLost(w) /\ ~TimeLimit(w)
    BY DEF WriteLost, TimeLimit, Outage, TypeOK
  <2>. QED
    BY <1>4, <2>1, ExtractPursued, ParsePursued, WorkerLostPursued DEF Fault
<1>. QED
  BY <1>1, <1>2, <1>3, <1>4 DEF Next

(* Who writes a status, and who a key.                                        *)
LEMMA Writers ==
  ASSUME [Next]_vars
  PROVE  /\ \/ status' = status
            \/ \E d \in Docs : Upload(d) \/ Link(d) \/ Reprocess(d)
            \/ SweepStuckTasks
            \/ \E w \in Workers : StatusCommit(w)
         /\ \/ key' = key
            \/ \E d \in Docs : Link(d)
<1>1. CASE UNCHANGED vars
  BY <1>1 DEF vars, tables
<1>2. CASE \E d \in Docs : Upload(d) \/ Link(d) \/ Reprocess(d) \/ HourPasses(d)
  BY <1>2 DEF Upload, Reprocess, HourPasses
<1>3. CASE View \/ ViewCommit \/ SweepStuckTasks
  BY <1>3 DEF View, ViewCommit, SweepStuckTasks, tables
<1>4. ASSUME NEW w \in Workers, Task(w)
      PROVE  (status' = status \/ StatusCommit(w)) /\ key' = key
  <2>1. CASE Deliver(w) \/ Download(w) \/ Parse(w) \/ StatusCommit(w)
    BY <2>1 DEF Deliver, Download, Parse, StatusCommit, tables
  <2>2. CASE Progress(w) \/ Delete(w) \/ Retry(w) \/ Ack(w)
    BY <2>2 DEF Progress, Delete, Retry, Ack, tables
  <2>3. CASE \E s \in Stages : Store(w, s) \/ Flush(w, s) \/ FlushCommit(w, s)
    BY <2>3 DEF Store, Flush, FlushCommit, tables
  <2>4. CASE MarkReady(w) \/ MarkFailed(w)
    BY <2>4 DEF MarkReady, MarkFailed, UpdateStatus, tables
  <2>. QED
    BY <1>4, <2>1, <2>2, <2>3, <2>4 DEF Task
<1>5. ASSUME NEW w \in Workers, Fault(w)
      PROVE  status' = status /\ key' = key
  BY <1>5 DEF Fault, StageFails, CoreError, WriteLost, WorkerLost, TimeLimit, tables
<1>6. CASE \E s \in Stages : Sweep(s)
  BY <1>6 DEF Sweep, tables
<1>. QED
  BY <1>1, <1>2, <1>3, <1>4, <1>5, <1>6 DEF Next

(* No row goes away, and only the dedup check gives a document another's key. *)
LEMMA NextKey ==
  ASSUME TypeOK, KeyInv, [Next]_vars
  PROVE  KeyInv'
<1>1. \A e \in Docs : status[e] # "ABSENT" => status'[e] # "ABSENT"
  <2>1. CASE \E d \in Docs : Upload(d) \/ Link(d) \/ Reprocess(d)
    BY <2>1 DEF Upload, Link, Reprocess, TypeOK
  <2>2. CASE SweepStuckTasks
    BY <2>2 DEF SweepStuckTasks, TypeOK
  <2>3. CASE \E w \in Workers : StatusCommit(w)
    BY <2>3 DEF StatusCommit, TypeOK
  <2>4. CASE status' = status
    BY <2>4
  <2>. QED
    BY <2>1, <2>2, <2>3, <2>4, Writers
<1>2. CASE \E d \in Docs : Link(d)
  <2>1. PICK d \in Docs, e \in Docs :
          status[e] = "READY" /\ key' = [key EXCEPT ![d] = key[e]]
    BY <1>2 DEF Link
  <2>2. key[e] \in Docs /\ status[key[e]] # "ABSENT"
    BY <2>1 DEF KeyInv, TypeOK
  <2>. QED
    BY <1>1, <2>1, <2>2 DEF KeyInv, TypeOK
<1>3. CASE key' = key
  BY <1>1, <1>3 DEF KeyInv, TypeOK
<1>. QED
  BY <1>2, <1>3, Writers

(* As long as no message, answer or write has been lost, a PENDING document   *)
(* whose file is there has a message or a task behind it, whatever exceptions,*)
(* lost workers and calls of reprocess there have been.                       *)
THEOREM PendingAlwaysPursued == Spec => []PendingIsPursued
<1>1. Init => TypeOK /\ KeyInv /\ PendingIsPursued
  <2>. SUFFICES ASSUME Init PROVE KeyInv /\ PendingIsPursued
    BY InitType
  <2>. QED
    BY DEF Init, KeyInv, PendingIsPursued
<1>2. TypeOK /\ KeyInv /\ PendingIsPursued /\ [Next]_vars
        => TypeOK' /\ KeyInv' /\ PendingIsPursued'
  BY NextType, NextKey, NextPursued
<1>. QED
  BY <1>1, <1>2, PTL DEF Spec

-----------------------------------------------------------------------------
(* A document that is left alone has one attempt.                             *)

(* What a step of one task does to that task, and to no other.                *)
LEMMA GotoTx ==
  ASSUME TypeOK, NEW w \in Workers, NEW pc \in Steps, Goto(w, pc)
  PROVE  /\ worker'[w].doc = worker[w].doc /\ worker'[w].pc = pc
         /\ worker'[w].tx = worker[w].tx
         /\ \A v \in Workers \ {w} : worker'[v] = worker[v]
BY FreeType DEF TypeOK, Goto, Tasks

LEMMA FailingTx ==
  ASSUME TypeOK, NEW w \in Workers, NEW next, Failing(w, next)
  PROVE  /\ worker'[w].doc = worker[w].doc /\ worker'[w].pc = "failed"
         /\ worker'[w].tx = "none"
         /\ \A v \in Workers \ {w} : worker'[v] = worker[v]
<1>1. [Free(w) EXCEPT !.pc = "failed", !.next = next, !.doc = worker[w].doc,
                      !.try = worker[w].try].tx = "none"
  BY FreeType DEF Tasks, Free, IdleTask
<1>2. worker'[w].tx = "none"
  BY <1>1 DEF Failing, TypeOK
<1>. QED
  BY <1>2, FailingKeeps

LEMMA LeaveTx ==
  ASSUME TypeOK, NEW w \in Workers, NEW pc \in Steps, Leave(w, pc)
  PROVE  /\ worker'[w].doc = worker[w].doc /\ worker'[w].pc = pc
         /\ worker'[w].tx = "none"
         /\ \A v \in Workers \ {w} : worker'[v] = worker[v]
<1>. DEFINE t == [Free(w) EXCEPT !.pc = pc, !.doc = worker[w].doc,
                                 !.try = worker[w].try]
<1>1. worker' = [worker EXCEPT ![w] = t]
  BY DEF Leave
<1>2. t.doc = worker[w].doc /\ t.pc = pc /\ t.tx = "none"
  BY FreeType DEF Tasks, Free, IdleTask
<1>. HIDE DEF t
<1>. QED
  BY <1>1, <1>2 DEF TypeOK

LEMMA FreeTask ==
  ASSUME TypeOK, NEW w \in Workers
  PROVE  /\ Free(w).pc = "idle" /\ Free(w).tx = "none"
         /\ IdleTask.pc = "idle" /\ IdleTask.tx = "none"
BY FreeType DEF Free, IdleTask, Tasks

LEMMA PipelineTx ==
  ASSUME TypeOK, NEW w \in Workers,
         \/ \E s \in Stages :
              Store(w, s) \/ StageFails(w, s) \/ Flush(w, s) \/ FlushCommit(w, s)
         \/ MarkReady(w) \/ MarkFailed(w)
  PROVE  /\ worker'[w].doc = worker[w].doc /\ worker'[w].pc = worker[w].pc
         /\ worker[w].pc \in {"extract", "failed"}
         /\ worker'[w].tx = "FAILED"
              => worker[w].tx = "FAILED" \/ worker[w].pc = "failed"
         /\ \A v \in Workers \ {w} : worker'[v] = worker[v]
<1>1. worker \in [Workers -> Tasks] /\ worker[w] \in Tasks
  BY FreeType DEF TypeOK
<1>2. CASE \E s \in Stages : Store(w, s)
  BY <1>1, <1>2 DEF Store, Tasks
<1>3. CASE \E s \in Stages : StageFails(w, s)
  <2>1. /\ worker[w].pc = "extract"
        /\ \E s \in Stages :
            \/ worker' = [worker EXCEPT ![w].stage[s] = "failed"]
            \/ \E left : worker' = [worker EXCEPT ![w].stage[s] = "failed",
                            ![w].tx = "none", ![w].all = FALSE,
                            ![w].unsent = @ \cup left]
    BY <1>3 DEF StageFails
  <2>. QED
    BY <1>1, <2>1 DEF Tasks
<1>4. CASE \E s \in Stages : Flush(w, s)
  <2>1. PICK s \in Stages : Flush(w, s)
    BY <1>4
  <2>3. /\ worker[w].pc = "extract"
        /\ worker' = [worker EXCEPT ![w].tx = s,
                                    ![w].all = AllComplete(worker[w].doc, s)]
    BY <2>1 DEF Flush
  <2>2. "FAILED" \notin Stages
    BY IngestionAssumption DEF AllStages
  <2>. QED
    BY <1>1, <2>2, <2>3 DEF Tasks
<1>5. CASE \E s \in Stages : FlushCommit(w, s)
  <2>1. PICK s \in Stages : FlushCommit(w, s)
    BY <1>5
  <2>2. PICK before : LET due == before \cup {t \in {s} : worker[w].all} IN
          \/ worker' = [worker EXCEPT ![w].stage[s] = "done", ![w].tx = "none",
                          ![w].all = FALSE, ![w].unsent = @ \ before]
          \/ worker' = [worker EXCEPT ![w].stage[s] = "failed", ![w].tx = "none",
                          ![w].all = FALSE, ![w].unsent = @ \cup due]
    BY <2>1, Zenon DEF FlushCommit
  <2>3. worker[w].pc = "extract"
    BY <2>1 DEF FlushCommit
  <2>. QED
    BY <1>1, <2>2, <2>3 DEF Tasks
<1>6. CASE MarkReady(w) \/ MarkFailed(w)
  <2>1. \/ /\ worker[w].pc = "extract"
           /\ \E all : worker' = [worker EXCEPT ![w].tx = "READY", ![w].all = all]
        \/ /\ worker[w].pc = "failed"
           /\ \E all : worker' = [worker EXCEPT ![w].tx = "FAILED", ![w].all = all]
    BY <1>6 DEF MarkReady, MarkFailed, UpdateStatus
  <2>. QED
    BY <1>1, <2>1 DEF Tasks
<1>. QED
  BY <1>2, <1>3, <1>4, <1>5, <1>6

(* A step of one task that leaves the messages alone: the task stays on its   *)
(* document or ends, and writes READY only on its own document.               *)
LEMMA OneAttemptKept ==
  ASSUME NEW d \in Docs, OneAttempt(d), NEW w \in Workers, msgs' = msgs,
         \A v \in Workers \ {w} : worker'[v] = worker[v],
         Busy(w, d)' => Busy(w, d),
         status'[d] = "ABSENT" => status[d] = "ABSENT",
         status'[d] = "READY" => status[d] = "READY" \/ Busy(w, d),
         status'[d] = "READY" /\ Busy(w, d)'
           => worker'[w].pc \in {"progress", "delete"}
  PROVE  OneAttempt(d)'
<1>1. /\ Queued(d)' = Queued(d) /\ \A m \in Queued(d) : msgs'[m] = msgs[m]
      /\ \A v \in Workers \ {w} : Busy(v, d)' = Busy(v, d)
  BY DEF Queued, Busy
<1>2. \A v \in Workers : Busy(v, d)' => Busy(v, d)
  BY <1>1
<1>3. /\ \A m, n \in Queued(d)' : m = n /\ msgs'[m] = 1
      /\ \A v \in Workers : Busy(v, d)' =>
           Queued(d)' = {} /\ \A u \in Workers \ {v} : ~Busy(u, d)'
      /\ status'[d] = "ABSENT" => Queued(d)' = {} /\ \A v \in Workers : ~Busy(v, d)'
  BY <1>1, <1>2 DEF OneAttempt
<1>4. ASSUME status'[d] = "READY"
      PROVE  /\ Queued(d)' = {}
             /\ \A v \in Workers : Busy(v, d)' => worker'[v].pc \in {"progress", "delete"}
  <2>1. Queued(d)' = {}
    BY <1>1, <1>4 DEF OneAttempt
  <2>2. ASSUME NEW v \in Workers \ {w}, Busy(v, d)'
        PROVE  worker'[v].pc \in {"progress", "delete"}
    BY <1>1, <1>4, <2>2 DEF OneAttempt
  <2>. QED
    BY <1>4, <2>1, <2>2
<1>. QED
  BY <1>3, <1>4 DEF OneAttempt

(* The documents are left alone after a step only if they were before it.     *)
LEMMA LeftAloneBefore ==
  ASSUME TypeOK, [Next]_vars, LeftAlone'
  PROVE  /\ LeftAlone
         /\ \A d \in Docs : ~Reprocess(d)
         /\ \A w \in Workers :
              /\ ~CoreError(w) /\ ~WorkerLost(w)
              /\ \A s \in Stages : ~StageFails(w, s)
<1>1. crashes' = 0 /\ reprocessed' = 0 /\ errors' = 0
  BY DEF LeftAlone
<1>2. crashes \in Nat /\ reprocessed \in Nat /\ errors \in Nat
  BY DEF TypeOK
<1>3. \A d \in Docs : ~Reprocess(d)
  BY <1>1, <1>2 DEF Reprocess
<1>4. \A w \in Workers :
        /\ ~CoreError(w) /\ ~WorkerLost(w)
        /\ \A s \in Stages : ~StageFails(w, s)
  <2>. SUFFICES ASSUME NEW w \in Workers
                PROVE  /\ ~CoreError(w) /\ ~WorkerLost(w)
                       /\ \A s \in Stages : ~StageFails(w, s)
    OBVIOUS
  <2>1. errors' # errors + 1 /\ crashes' # crashes + 1
    BY <1>1, <1>2
  <2>2. ~CoreError(w)
    BY <2>1 DEF CoreError
  <2>3. ~WorkerLost(w)
    BY <2>1 DEF WorkerLost
  <2>4. \A s \in Stages : ~StageFails(w, s)
    BY <2>1 DEF StageFails
  <2>. QED
    BY <2>2, <2>3, <2>4
<1>5. UNCHANGED <<crashes, reprocessed, errors>>
  <2>1. CASE UNCHANGED vars
    BY <2>1 DEF vars, budgets
  <2>2. CASE \E d \in Docs : Upload(d) \/ Link(d) \/ HourPasses(d)
    BY <2>2 DEF Upload, Link, HourPasses, budgets
  <2>3. CASE View \/ ViewCommit \/ SweepStuckTasks \/ \E s \in Stages : Sweep(s)
    BY <2>3 DEF View, ViewCommit, SweepStuckTasks, Sweep, budgets
  <2>4. ASSUME NEW w \in Workers, Task(w) \/ WriteLost(w) \/ TimeLimit(w)
        PROVE  UNCHANGED <<crashes, reprocessed, errors>>
    <3>1. CASE Deliver(w) \/ Download(w) \/ Parse(w) \/ StatusCommit(w)
      BY <3>1 DEF Deliver, Download, Parse, StatusCommit, budgets
    <3>2. CASE Progress(w) \/ Delete(w) \/ Retry(w) \/ Ack(w)
      BY <3>2 DEF Progress, Delete, Retry, Ack, budgets
    <3>3. CASE \E s \in Stages : Store(w, s) \/ Flush(w, s) \/ FlushCommit(w, s)
      BY <3>3 DEF Store, Flush, FlushCommit, budgets
    <3>4. CASE MarkReady(w) \/ MarkFailed(w) \/ WriteLost(w) \/ TimeLimit(w)
      BY <3>4 DEF MarkReady, MarkFailed, UpdateStatus, WriteLost, TimeLimit, budgets
    <3>. QED
      BY <2>4, <3>1, <3>2, <3>3, <3>4 DEF Task
  <2>. QED
    BY <1>3, <1>4, <2>1, <2>2, <2>3, <2>4 DEF Next, Fault
<1>. QED
  BY <1>1, <1>3, <1>4, <1>5 DEF LeftAlone

(* A task's transaction is open while it extracts or fails, and nowhere else. *)
LEMMA TransactionNext ==
  ASSUME TypeOK, [Next]_vars, \A w \in Workers : OwnTransaction(w)
  PROVE  \A w \in Workers : OwnTransaction(w)'
<1>1. CASE worker' = worker
  BY <1>1 DEF OwnTransaction
<1>2. ASSUME NEW w \in Workers, Task(w) \/ Fault(w)
      PROVE  OwnTransaction(w)' /\ \A v \in Workers \ {w} : worker'[v] = worker[v]
  <2>1. CASE Deliver(w)
    <3>1. PICK n \in Messages :
            worker' = [worker EXCEPT ![w] = [Free(w) EXCEPT !.pc = "download",
                                               !.doc = n.doc, !.try = n.try]]
      BY <2>1 DEF Deliver
    <3>2. worker'[w].tx = "none"
      BY <3>1, FreeTask, FreeType DEF TypeOK, Tasks
    <3>. QED
      BY <3>1, <3>2 DEF OwnTransaction, TypeOK
  <2>2. CASE Download(w) \/ Progress(w) \/ Delete(w) \/ Retry(w)
    <3>1. \E pc \in Steps : Goto(w, pc)
      BY <2>2 DEF Download, Progress, Delete, Retry, Steps
    <3>2. worker[w].tx = "none"
      BY <2>2 DEF OwnTransaction, Download, Progress, Delete, Retry
    <3>. QED
      BY <3>1, <3>2, GotoTx DEF OwnTransaction
  <2>3. CASE Parse(w) \/ CoreError(w) \/ WriteLost(w)
    <3>1. \/ worker[w].pc = "parse" /\ Goto(w, "extract")
          \/ \E next : Failing(w, next)
          \/ Leave(w, "retry")
      BY <2>3 DEF Parse, CoreError, WriteLost
    <3>2. worker[w].pc = "parse" => worker[w].tx = "none"
      BY DEF OwnTransaction
    <3>. QED
      BY <3>1, <3>2, GotoTx, FailingTx, LeaveTx DEF OwnTransaction, Steps
  <2>4. CASE \/ \E s \in Stages :
                  Store(w, s) \/ StageFails(w, s) \/ Flush(w, s) \/ FlushCommit(w, s)
             \/ MarkReady(w) \/ MarkFailed(w)
    BY <2>4, PipelineTx DEF OwnTransaction
  <2>5. CASE StatusCommit(w)
    <3>1. \E pc \in Steps : Leave(w, pc)
      <4>1. (IF worker[w].tx = "READY" THEN "progress" ELSE worker[w].next) \in Steps
        BY FreeType DEF Tasks, Steps
      <4>. QED
        BY <2>5, <4>1 DEF StatusCommit
    <3>. QED
      BY <3>1, LeaveTx DEF OwnTransaction
  <2>6. CASE Ack(w) \/ WorkerLost(w) \/ TimeLimit(w)
    <3>1. \/ worker' = [worker EXCEPT ![w] = Free(w)]
          \/ worker' = [worker EXCEPT ![w] = IdleTask]
      BY <2>6 DEF Ack, WorkerLost, TimeLimit
    <3>2. worker'[w].tx = "none"
      BY <3>1, FreeTask DEF TypeOK
    <3>. QED
      BY <3>1, <3>2 DEF OwnTransaction, TypeOK
  <2>. QED
    BY <1>2, <2>1, <2>2, <2>3, <2>4, <2>5, <2>6 DEF Task, Fault
<1>3. worker' = worker \/ \E w \in Workers : Task(w) \/ Fault(w)
  BY DEF Next, Upload, Link, Reprocess, HourPasses, View, ViewCommit, SweepStuckTasks,
         Sweep, vars
<1>. QED
  <2>1. ASSUME NEW w \in Workers, Task(w) \/ Fault(w), NEW v \in Workers
        PROVE  OwnTransaction(v)'
    BY <1>2, <2>1 DEF OwnTransaction
  <2>. QED
    BY <1>1, <1>3, <2>1

(* The steps of a task between its delivery and its end.                      *)
LEMMA AttemptGoesOn ==
  ASSUME TypeOK, [Next]_vars, \A v \in Workers : OwnTransaction(v),
         NEW d \in Docs, OneAttempt(d), NEW w \in Workers,
         \/ Download(w) \/ Parse(w) \/ MarkReady(w) \/ MarkFailed(w)
         \/ \E s \in Stages : Store(w, s) \/ Flush(w, s) \/ FlushCommit(w, s)
         \/ StatusCommit(w) \/ Progress(w) \/ Delete(w) \/ Ack(w)
         \/ WriteLost(w) \/ TimeLimit(w)
  PROVE  OneAttempt(d)'
<1>. DEFINE After == {"progress", "delete"}
<1>0. status[d] = "READY" /\ Busy(w, d) => worker[w].pc \in After
  BY DEF OneAttempt
<1>1. CASE Download(w) \/ Parse(w) \/ WriteLost(w)
  <2>1. /\ msgs' = msgs /\ status' = status
        /\ worker[w].pc \in {"download", "parse", "failed"}
    BY <1>1 DEF Download, Parse, WriteLost, tables, broker, budgets
  <2>2. \/ \E pc \in Steps : Goto(w, pc) \/ Leave(w, pc)
        \/ \E next : Failing(w, next)
    BY <1>1 DEF Download, Parse, WriteLost, Steps
  <2>3. /\ worker'[w].doc = worker[w].doc
        /\ \A v \in Workers \ {w} : worker'[v] = worker[v]
    BY <2>2, GotoTx, LeaveTx, FailingTx
  <2>. QED
    BY <1>0, <2>1, <2>3, OneAttemptKept DEF Busy
<1>2. CASE \/ MarkReady(w) \/ MarkFailed(w)
           \/ \E s \in Stages : Store(w, s) \/ Flush(w, s) \/ FlushCommit(w, s)
  <2>1. msgs' = msgs /\ status' = status
    BY <1>2 DEF MarkReady, MarkFailed, UpdateStatus, Store, Flush, FlushCommit,
                tables, broker
  <2>2. /\ worker'[w].doc = worker[w].doc /\ worker'[w].pc = worker[w].pc
        /\ \A v \in Workers \ {w} : worker'[v] = worker[v]
    BY <1>2, PipelineTx
  <2>. QED
    BY <1>0, <2>1, <2>2, OneAttemptKept DEF Busy
<1>3. CASE StatusCommit(w)
  <2>. DEFINE pc == IF worker[w].tx = "READY" THEN "progress" ELSE worker[w].next
  <2>1. /\ msgs' = msgs /\ worker[w].pc \in {"extract", "failed"}
        /\ status' = [status EXCEPT ![worker[w].doc] = worker[w].tx]
        /\ worker[w].tx \in {"READY", "FAILED"}
    BY <1>3 DEF StatusCommit, OwnTransaction, broker
  <2>2. pc \in Steps
    BY FreeType DEF Tasks, Steps
  <2>3. /\ worker'[w].doc = worker[w].doc /\ worker'[w].pc = pc
        /\ \A v \in Workers \ {w} : worker'[v] = worker[v]
    BY <1>3, <2>2, LeaveTx DEF StatusCommit
  <2>4. CASE worker[w].doc = d
    <3>1. status'[d] = worker[w].tx /\ Busy(w, d)
      BY <2>1, <2>4 DEF TypeOK, Busy
    <3>2. status'[d] = "READY" => worker'[w].pc \in After
      BY <2>3, <3>1
    <3>. QED
      BY <2>1, <2>3, <3>1, <3>2, OneAttemptKept
  <2>5. CASE worker[w].doc # d
    <3>1. status'[d] = status[d] /\ ~Busy(w, d)'
      BY <2>1, <2>3, <2>5 DEF TypeOK, Busy
    <3>. QED
      BY <2>1, <2>3, <3>1, OneAttemptKept
  <2>. QED
    BY <2>4, <2>5
<1>4. CASE Progress(w) \/ Delete(w)
  <2>1. /\ msgs' = msgs /\ status' = status /\ worker[w].pc \in After
    BY <1>4 DEF Progress, Delete, tables, broker
  <2>2. Goto(w, "delete") \/ Goto(w, "ack")
    BY <1>4 DEF Progress, Delete
  <2>3. /\ worker'[w].doc = worker[w].doc /\ worker'[w].pc \in {"delete", "ack"}
        /\ \A v \in Workers \ {w} : worker'[v] = worker[v]
    BY <2>2, GotoTx DEF Steps
  <2>. QED
    BY <2>1, <2>3, OneAttemptKept DEF Busy
<1>5. CASE Ack(w) \/ TimeLimit(w)
  <2>1. msgs' = msgs /\ status' = status
    BY <1>5 DEF Ack, TimeLimit, tables, broker
  <2>2. \/ worker' = [worker EXCEPT ![w] = Free(w)]
        \/ worker' = [worker EXCEPT ![w] = IdleTask]
    BY <1>5 DEF Ack, TimeLimit
  <2>3. /\ worker'[w].pc = "idle"
        /\ \A v \in Workers \ {w} : worker'[v] = worker[v]
    BY <2>2, FreeTask DEF TypeOK
  <2>4. ~Busy(w, d)'
    BY <2>3 DEF Busy
  <2>. QED
    BY <2>1, <2>3, <2>4, OneAttemptKept
<1>. QED
  BY <1>1, <1>2, <1>3, <1>4, <1>5

(* The message becomes the task.                                              *)
LEMMA AttemptDelivered ==
  ASSUME TypeOK, NEW d \in Docs, OneAttempt(d), NEW w \in Workers, Deliver(w)
  PROVE  OneAttempt(d)'
<1>1. PICK n \in Messages :
         /\ msgs[n] > 0
         /\ msgs' = [msgs EXCEPT ![n] = @ - 1]
         /\ worker' = [worker EXCEPT ![w] = [Free(w) EXCEPT !.pc = "download",
                                            !.doc = n.doc, !.try = n.try]]
  BY DEF Deliver
<1>2. status' = status /\ ~Busy(w, d)
  BY DEF Deliver, Busy, tables
<1>3. /\ worker'[w].doc = n.doc /\ worker'[w].pc = "download"
      /\ \A v \in Workers \ {w} : worker'[v] = worker[v]
  <2>1. Free(w) \in Tasks /\ worker'[w] = [Free(w) EXCEPT !.pc = "download",
                                             !.doc = n.doc, !.try = n.try]
    BY <1>1, FreeType DEF TypeOK
  <2>. QED
    BY <1>1, <2>1 DEF Tasks, TypeOK
<1>4. \A v \in Workers \ {w} : Busy(v, d)' <=> Busy(v, d)
  BY <1>3 DEF Busy
<1>5. CASE n.doc # d
  <2>1. Queued(d)' = Queued(d) /\ \A m \in Queued(d) : msgs'[m] = msgs[m]
    BY <1>1, <1>5 DEF Queued, TypeOK
  <2>2. ~Busy(w, d)'
    BY <1>3, <1>5 DEF Busy
  <2>. QED
    BY <1>2, <1>3, <1>4, <2>1, <2>2 DEF OneAttempt
<1>6. CASE n.doc = d
  <2>1. n \in Queued(d)
    BY <1>1, <1>6 DEF Queued
  <2>2. Queued(d)' = {}
    <3>1. msgs'[n] = 0 /\ \A m \in Messages \ {n} : msgs'[m] = msgs[m]
      BY <1>1, <2>1 DEF OneAttempt, TypeOK
    <3>2. \A m \in Queued(d) : m = n
      BY <2>1 DEF OneAttempt
    <3>. QED
      BY <3>1, <3>2 DEF Queued
  <2>3. \A v \in Workers \ {w} : ~Busy(v, d)'
    BY <1>4, <2>1 DEF OneAttempt
  <2>4. status[d] # "ABSENT" /\ status[d] # "READY"
    BY <2>1 DEF OneAttempt
  <2>. QED
    BY <1>2, <2>2, <2>3, <2>4 DEF OneAttempt
<1>. QED
  BY <1>5, <1>6

(* One message is put for a document that has none.                           *)
LEMMA PutOne ==
  ASSUME TypeOK, NEW d \in Docs, NEW e, NEW q, NEW n, Put(e, q, n),
         d = e => Queued(d) = {}
  PROVE  /\ \A m, o \in Queued(d)' : d = e => m = o /\ msgs'[m] = 1
         /\ d # e => /\ Queued(d)' = Queued(d)
                     /\ \A m \in Queued(d) : msgs'[m] = msgs[m]
<1>. DEFINE x == [doc |-> e, queue |-> q, try |-> n]
<1>1. msgs' = [msgs EXCEPT ![x] = msgs[x] + 1]
  BY DEF Put
<1>2. \A m \in Messages \ {x} : msgs'[m] = msgs[m]
  BY <1>1 DEF TypeOK
<1>3. CASE d # e
  <2>1. \A m \in Messages : m.doc = d => m # x
    BY <1>3
  <2>. QED
    BY <1>2, <1>3, <2>1 DEF Queued
<1>4. CASE d = e
  <2>1. \A m \in Messages : m.doc = d => msgs[m] = 0
    BY <1>4 DEF Queued, TypeOK
  <2>2. \A m \in Queued(d)' : m = x /\ m \in Messages
    BY <1>2, <2>1 DEF Queued
  <2>3. x \in Messages => x.doc = d /\ msgs'[x] = msgs[x] + 1
    BY <1>1, <1>4 DEF TypeOK
  <2>4. \A m \in Queued(d)' : msgs'[m] = 1
    BY <2>1, <2>2, <2>3
  <2>. QED
    BY <1>4, <2>2, <2>4
<1>. QED
  BY <1>3, <1>4

(* The task becomes the message again, or gives up.                           *)
LEMMA AttemptRetried ==
  ASSUME TypeOK, NEW d \in Docs, OneAttempt(d), NEW w \in Workers, Retry(w)
  PROVE  OneAttempt(d)'
<1>1. status' = status /\ worker[w].pc = "retry"
  BY DEF Retry, tables
<1>2. /\ worker'[w].doc = worker[w].doc /\ worker'[w].pc = "ack"
      /\ \A v \in Workers \ {w} : worker'[v] = worker[v]
  BY GotoTx DEF Retry, Steps
<1>3. /\ ~Busy(w, d)'
      /\ \A v \in Workers \ {w} : Busy(v, d)' <=> Busy(v, d)
  BY <1>2 DEF Busy
<1>4. CASE worker[w].try < MaxRetries
  <2>1. Put(worker[w].doc, w, worker[w].try + 1)
    BY <1>4 DEF Retry
  <2>2. d = worker[w].doc => Busy(w, d)
    BY <1>1 DEF Busy
  <2>3. CASE d = worker[w].doc
    <3>1. /\ Queued(d) = {} /\ \A v \in Workers \ {w} : ~Busy(v, d)
          /\ status[d] # "ABSENT" /\ status[d] # "READY"
      BY <1>1, <2>2, <2>3 DEF OneAttempt
    <3>2. \A m, o \in Queued(d)' : m = o /\ msgs'[m] = 1
      BY <2>1, <2>3, <3>1, PutOne
    <3>. QED
      BY <1>1, <1>3, <3>1, <3>2 DEF OneAttempt
  <2>4. CASE d # worker[w].doc
    <3>1. Queued(d)' = Queued(d) /\ \A m \in Queued(d) : msgs'[m] = msgs[m]
      BY <2>1, <2>4, PutOne
    <3>. QED
      BY <1>1, <1>2, <1>3, <3>1 DEF OneAttempt
  <2>. QED
    BY <2>3, <2>4
<1>5. CASE ~(worker[w].try < MaxRetries)
  <2>1. msgs' = msgs
    BY <1>5 DEF Retry
  <2>. QED
    BY <1>1, <1>2, <1>3, <2>1, OneAttemptKept
<1>. QED
  BY <1>4, <1>5

(* The first message, and what the requests and jobs do to no message.        *)
LEMMA AttemptUploaded ==
  ASSUME TypeOK, NEW d \in Docs, OneAttempt(d), NEW e \in Docs, Upload(e)
  PROVE  OneAttempt(d)'
<1>1. /\ status[e] = "ABSENT" /\ status' = [status EXCEPT ![e] = "PENDING"]
      /\ worker' = worker
      /\ msgs' = msgs \/ \E q : Put(e, q, 0)
  BY DEF Upload
<1>2. \A v \in Workers : Busy(v, d)' <=> Busy(v, d)
  BY <1>1 DEF Busy
<1>3. CASE d = e
  <2>1. Queued(d) = {} /\ \A v \in Workers : ~Busy(v, d)
    BY <1>1, <1>3 DEF OneAttempt
  <2>2. \A m, n \in Queued(d)' : m = n /\ msgs'[m] = 1
    <3>1. CASE msgs' = msgs
      BY <2>1, <3>1 DEF Queued
    <3>2. CASE \E q : Put(e, q, 0)
      BY <1>3, <2>1, <3>2, PutOne
    <3>. QED
      BY <1>1, <3>1, <3>2
  <2>3. status'[d] = "PENDING"
    BY <1>1, <1>3 DEF TypeOK
  <2>. QED
    BY <1>2, <2>1, <2>2, <2>3 DEF OneAttempt
<1>4. CASE d # e
  <2>1. Queued(d)' = Queued(d) /\ \A m \in Queued(d) : msgs'[m] = msgs[m]
    <3>1. CASE msgs' = msgs
      BY <3>1 DEF Queued
    <3>2. CASE \E q : Put(e, q, 0)
      BY <1>4, <3>2, PutOne
    <3>. QED
      BY <1>1, <3>1, <3>2
  <2>2. status'[d] = status[d]
    BY <1>1, <1>4 DEF TypeOK
  <2>. QED
    BY <1>1, <1>2, <2>1, <2>2 DEF OneAttempt
<1>. QED
  BY <1>3, <1>4

LEMMA AttemptUntouched ==
  ASSUME TypeOK, NEW d \in Docs, OneAttempt(d),
         \/ \E e \in Docs : Link(e) \/ HourPasses(e)
         \/ View \/ ViewCommit \/ SweepStuckTasks
         \/ \E s \in Stages : Sweep(s)
         \/ UNCHANGED vars
  PROVE  OneAttempt(d)'
<1>1. msgs' = msgs /\ worker' = worker
  BY DEF Link, HourPasses, View, ViewCommit, SweepStuckTasks, Sweep, broker, vars
<1>2. \/ status'[d] = status[d]
      \/ status[d] = "ABSENT" /\ status'[d] = "READY"
      \/ status[d] = "PENDING" /\ status'[d] = "FAILED"
  <2>1. CASE \E e \in Docs : Link(e)
    BY <2>1 DEF Link, TypeOK
  <2>2. CASE SweepStuckTasks
    BY <2>2 DEF SweepStuckTasks, Stuck, TypeOK
  <2>3. CASE ~(\E e \in Docs : Link(e)) /\ ~SweepStuckTasks
    BY <2>3 DEF HourPasses, View, ViewCommit, Sweep, tables, vars
  <2>. QED
    BY <2>1, <2>2, <2>3
<1>3. Queued(d)' = Queued(d) /\ \A v \in Workers : Busy(v, d)' <=> Busy(v, d)
  BY <1>1 DEF Queued, Busy
<1>. QED
  BY <1>1, <1>2, <1>3 DEF OneAttempt

LEMMA AttemptNext ==
  ASSUME TypeOK, AttemptInv, [Next]_vars
  PROVE  AttemptInv'
<1>1. \A w \in Workers : OwnTransaction(w)'
  BY TransactionNext DEF AttemptInv
<1>2. ASSUME LeftAlone', NEW d \in Docs PROVE OneAttempt(d)'
  <2>1. /\ OneAttempt(d) /\ \A w \in Workers : OwnTransaction(w)
        /\ \A e \in Docs : ~Reprocess(e)
    BY <1>2, LeftAloneBefore DEF AttemptInv
  <2>2. ASSUME NEW w \in Workers, Task(w) \/ Fault(w) PROVE OneAttempt(d)'
    <3>1. ~CoreError(w) /\ ~WorkerLost(w) /\ \A s \in Stages : ~StageFails(w, s)
      BY <1>2, LeftAloneBefore
    <3>. QED
      BY <2>1, <2>2, <3>1, AttemptGoesOn, AttemptDelivered, AttemptRetried
         DEF Task, Fault
  <2>3. ASSUME NEW e \in Docs, Upload(e) PROVE OneAttempt(d)'
    BY <2>1, <2>3, AttemptUploaded
  <2>. QED
    BY <2>1, <2>2, <2>3, AttemptUntouched DEF Next
<1>. QED
  BY <1>1, <1>2 DEF AttemptInv

(* FAILED is written over READY only by a second attempt.                     *)
LEMMA FallsBackStep ==
  ASSUME TypeOK, AttemptInv, [Next]_vars, NEW d \in Docs,
         status[d] = "READY", status'[d] = "FAILED"
  PROVE  crashes > 0 \/ reprocessed > 0 \/ errors > 0
<1>1. PICK w \in Workers : StatusCommit(w)
  <2>1. ~(\E e \in Docs : Upload(e) \/ Link(e) \/ Reprocess(e))
    BY DEF Upload, Link, Reprocess, TypeOK
  <2>2. ~SweepStuckTasks
    BY DEF SweepStuckTasks, Stuck
  <2>. QED
    BY <2>1, <2>2, Writers
<1>2. worker[w].doc = d /\ worker[w].tx = "FAILED"
  BY <1>1 DEF StatusCommit, TypeOK
<1>3. worker[w].pc = "failed"
  BY <1>2 DEF AttemptInv, OwnTransaction
<1>4. ~OneAttempt(d)
  BY <1>2, <1>3 DEF OneAttempt, Busy
<1>5. ~LeftAlone
  BY <1>4 DEF AttemptInv
<1>. QED
  BY <1>5 DEF LeftAlone, TypeOK

LEMMA AttemptInit == Init => AttemptInv
<1>. SUFFICES ASSUME Init PROVE AttemptInv
  OBVIOUS
<1>1. \A w \in Workers : worker[w].pc = "idle" /\ worker[w].tx = "none"
  BY DEF Init, IdleTask
<1>2. \A d \in Docs : Queued(d) = {}
  <2>1. \A m \in Messages : msgs[m] = 0
    BY DEF Init
  <2>. QED
    BY <2>1 DEF Queued
<1>3. \A d \in Docs : status[d] = "ABSENT"
  BY DEF Init
<1>. QED
  BY <1>1, <1>2, <1>3 DEF AttemptInv, OneAttempt, OwnTransaction, Busy

(* process_digital_pdf and process_scanned_pdf: READY is a document's last    *)
(* status unless a worker was lost, an exception raised or reprocess called,  *)
(* whatever messages, downloads and writes were lost.                         *)
THEOREM ReadyIsLast == Spec => ReadyFallsBack
<1>1. TypeOK /\ AttemptInv /\ [Next]_vars => AttemptInv'
  BY AttemptNext
<1>2. TypeOK /\ AttemptInv /\ [Next]_vars
        => [\A d \in Docs : status[d] = "READY" /\ status'[d] = "FAILED"
              => crashes > 0 \/ reprocessed > 0 \/ errors > 0]_vars
  BY FallsBackStep
<1>. QED
  BY <1>1, <1>2, AttemptInit, TypeCorrect, PTL DEF Spec, ReadyFallsBack

=============================================================================
