------------------------------ MODULE Ingestion ------------------------------
(* The documents of one workspace: upload, reprocessing and status queries    *)
(* (routers/workspaces.py), the Celery tasks that turn a file into terms and  *)
(* deadlines (tasks.py), the sweeps for conflicts between documents, and the  *)
(* hourly cron job that gives up on stuck documents (routers/cron.py).        *)
(*                                                                            *)
(* The worker's transactions are READ COMMITTED: one step updates the         *)
(* document, which locks its row, and reads the others; a later step commits. *)
(* Two transactions on different documents do not see each other.             *)
EXTENDS Naturals

CONSTANTS
    Docs,          \* documents of the workspace
    NoDoc,         \* no document
    Scanned,       \* those uploaded to the "ocr" queue
    Twins,         \* those with one content, hence one file_hash
    Stages,        \* extraction stages, subset of AllStages
    MaxRetries,    \* max_retries of the tasks (3 digital, 2 scanned)
    MaxReprocess,  \* bound: calls of reprocess_document
    MaxErrors,     \* bound: exceptions inside the processing of a document
    MaxOutages,    \* bound: refused messages, failed downloads or OCR, lost writes
    MaxCrashes     \* bound: worker processes lost while they hold a message

AllStages == {"defined_terms", "deadlines"}

ASSUME IngestionAssumption ==
    /\ NoDoc \notin Docs
    /\ Scanned \subseteq Docs
    /\ Twins \subseteq Docs
    /\ Stages \subseteq AllStages
    /\ MaxRetries \in Nat
    /\ MaxReprocess \in Nat
    /\ MaxErrors \in Nat
    /\ MaxOutages \in Nat
    /\ MaxCrashes \in Nat

VARIABLES
    status,   \* documents.status, "ABSENT" before the row exists
    flags,    \* documents.intelligence_stages_complete, see Flagged
    old,      \* uploaded more than an hour ago
    blob,     \* files in object storage: that of the document it was stored for
    key,      \* documents.r2_key: which of them is the document's
    stored,   \* stages whose rows of the document are in the registries
    ws,       \* workspaces.intelligence_status
    viewer,   \* workspace status a status query is about to commit, or "none"
    msgs,     \* messages per document, queue and attempt
    sweeps,   \* messages per stage for the conflict sweep
    swept,    \* history: documents whose rows the last sweep compared
    worker,   \* the task each worker process runs
    reprocessed, errors, outages, crashes   \* used parts of the budgets

tables  == <<status, flags, old, blob, key, stored, ws>>
broker  == <<msgs, sweeps, swept>>
budgets == <<reprocessed, errors, outages, crashes>>
vars    == <<tables, viewer, broker, worker, budgets>>

DocumentStatus == {"ABSENT", "PENDING", "READY", "FAILED"}

(* One worker process per queue, one task at a time.                          *)
Workers == {"default", "ocr"}

Messages == [doc : Docs, queue : Workers, try : 0..MaxRetries]

(* A column that is SQL NULL or {} is {}.  The dictionary written with READY  *)
(* has none of the keys the sweep looks for: {"done"}.  After None has been   *)
(* assigned to a value it is JSON null: {"null"}, and what is concatenated to *)
(* that is an array, in which no key is found.                                *)
Columns == AllStages \cup {"done", "null"}

Flagged(d, s) == s \in flags[d] /\ "null" \notin flags[d]

SameContent(d, e) == d = e \/ {d, e} \subseteq Twins

HasFile(d) == blob[key[d]]

Todo == [s \in Stages |-> "todo"]

IdleTask == [pc |-> "idle", doc |-> NoDoc, try |-> 0, stage |-> Todo,
             next |-> "ack", tx |-> "none", all |-> FALSE, unsent |-> {}]

(* The row of d is locked by an open transaction.                             *)
Locked(d) == \E w \in Workers : worker[w].doc = d /\ worker[w].tx # "none"

Init ==
    /\ status = [d \in Docs |-> "ABSENT"]
    /\ flags = [d \in Docs |-> {}]
    /\ old = [d \in Docs |-> FALSE]
    /\ blob = [d \in Docs |-> FALSE]
    /\ key = [d \in Docs |-> d]
    /\ stored = [d \in Docs |-> {}]
    /\ ws = "PENDING"
    /\ viewer = "none"
    /\ msgs = [m \in Messages |-> 0]
    /\ sweeps = [s \in Stages |-> 0]
    /\ swept = [s \in Stages |-> {}]
    /\ worker = [w \in Workers |-> IdleTask]
    /\ reprocessed = 0 /\ errors = 0 /\ outages = 0 /\ crashes = 0

Outage ==
    /\ outages < MaxOutages
    /\ outages' = outages + 1

(* A worker process between two tasks remembers only _pending_sweeps: the     *)
(* sweeps it could not send, which the next flush sends.                      *)
Free(w) == [IdleTask EXCEPT !.unsent = worker[w].unsent]

Put(d, q, n) == msgs' = [msgs EXCEPT ![[doc |-> d, queue |-> q, try |-> n]] = @ + 1]

-----------------------------------------------------------------------------
(* The API.                                                                   *)

(* upload_document: the file, then the PENDING row, then the message, which   *)
(* the broker may refuse: 500, but the row stays.                             *)
Upload(d) ==
    /\ status[d] = "ABSENT"
    /\ \A e \in Docs : SameContent(d, e) => status[e] # "READY"
    /\ status' = [status EXCEPT ![d] = "PENDING"]
    /\ blob' = [blob EXCEPT ![d] = TRUE]
    /\ \/ /\ Put(d, IF d \in Scanned THEN "ocr" ELSE "default", 0)
          /\ UNCHANGED outages
       \/ Outage /\ UNCHANGED msgs
    /\ UNCHANGED <<flags, old, key, stored, ws, viewer, sweeps, swept, worker,
                   reprocessed, errors, crashes>>

(* The dedup check: a READY document with this hash is linked, as READY, with *)
(* its stages and its r2_key.  With two of them scalar_one_or_none raises.    *)
Link(d) ==
    /\ status[d] = "ABSENT"
    /\ \E e \in Docs :
         /\ {f \in Docs : SameContent(d, f) /\ status[f] = "READY"} = {e}
         /\ flags' = [flags EXCEPT ![d] = flags[e]]
         /\ key' = [key EXCEPT ![d] = key[e]]
    /\ status' = [status EXCEPT ![d] = "READY"]
    /\ UNCHANGED <<old, blob, stored, ws, viewer, broker, worker, budgets>>

(* reprocess_document: whatever the status, PENDING again, stages None, and a *)
(* message without a queue: "default" if the process has imported the routes  *)
(* of worker.py, else Celery's own default queue, which nobody consumes.      *)
Reprocess(d) ==
    /\ status[d] # "ABSENT"
    /\ ~Locked(d)
    /\ reprocessed < MaxReprocess
    /\ reprocessed' = reprocessed + 1
    /\ status' = [status EXCEPT ![d] = "PENDING"]
    /\ flags' = [flags EXCEPT ![d] = IF @ = {} THEN {} ELSE {"null"}]
    /\ \/ Put(d, "default", 0) /\ UNCHANGED outages
       \/ Outage /\ UNCHANGED msgs
    /\ UNCHANGED <<old, blob, key, stored, ws, viewer, sweeps, swept, worker, errors, crashes>>

Expected == IF \E d \in Docs : status[d] = "PENDING" THEN "PENDING" ELSE "READY"

(* get_workspace, through sync_workspace_status_async, and list_workspaces    *)
(* read the documents and the workspace to correct a wrong status.  Nothing   *)
(* obliges anybody to ask: the page of a workspace polls only while it shows  *)
(* a document that is pending, and the last of those answers may come from    *)
(* the cache of 30 s, which skips the correction.                             *)
View ==
    /\ viewer = "none"
    /\ ws # Expected
    /\ viewer' = Expected
    /\ UNCHANGED <<tables, broker, worker, budgets>>

ViewCommit ==
    /\ viewer # "none"
    /\ ws' = viewer
    /\ viewer' = "none"
    /\ UNCHANGED <<status, flags, old, blob, key, stored, broker, worker, budgets>>

(* An hour has passed since the upload; upload_date is never renewed.         *)
HourPasses(d) ==
    /\ status[d] # "ABSENT" /\ ~old[d]
    /\ old' = [old EXCEPT ![d] = TRUE]
    /\ UNCHANGED <<status, flags, blob, key, stored, ws, viewer, broker, worker, budgets>>

(* Mutant: the job looks for a status that nothing writes.                    *)
StuckBug == {d \in Docs : status[d] = "PROCESSING" /\ old[d]}

Stuck == {d \in Docs : status[d] = "PENDING" /\ old[d]}

(* cron sweep_stuck_tasks: one UPDATE, which waits for locked rows.           *)
SweepStuckTasks ==
    /\ Stuck # {}
    /\ \A d \in Stuck : ~Locked(d)
    /\ status' = [d \in Docs |-> IF d \in Stuck THEN "FAILED" ELSE status[d]]
    /\ UNCHANGED <<flags, old, blob, key, stored, ws, viewer, broker, worker, budgets>>

-----------------------------------------------------------------------------
(* The tasks process_digital_pdf and process_scanned_pdf.                     *)

Deliver(w) ==
    /\ worker[w].pc = "idle"
    /\ \E m \in Messages :
         /\ m.queue = w /\ msgs[m] > 0
         /\ msgs' = [msgs EXCEPT ![m] = @ - 1]
         /\ worker' = [worker EXCEPT ![w] = [Free(w) EXCEPT !.pc = "download",
                                            !.doc = m.doc, !.try = m.try]]
    /\ UNCHANGED <<tables, viewer, sweeps, swept, budgets>>

Goto(w, pc) == worker' = [worker EXCEPT ![w].pc = pc]

(* On to pc, with nothing of the pipeline or the transaction remembered.      *)
Leave(w, pc) ==
    worker' = [worker EXCEPT ![w] = [Free(w) EXCEPT !.pc = pc,
                                       !.doc = worker[w].doc, !.try = worker[w].try]]

(* The download, and OCR on the "ocr" queue.  An exception is retried without *)
(* a word about it in the document's row.                                     *)
Download(w) ==
    /\ worker[w].pc = "download"
    /\ \/ /\ HasFile(worker[w].doc)
          /\ Goto(w, "parse")
          /\ UNCHANGED outages
       \/ /\ ~HasFile(worker[w].doc)
          /\ Goto(w, "retry")
          /\ UNCHANGED outages
       \/ Outage /\ Goto(w, "retry")
    /\ UNCHANGED <<tables, viewer, broker, reprocessed, errors, crashes>>

(* A task that will write FAILED, and do next what follows.                   *)
Failing(w, next) ==
    worker' = [worker EXCEPT ![w] = [Free(w) EXCEPT !.pc = "failed", !.next = next,
                                       !.doc = worker[w].doc, !.try = worker[w].try]]

(* parse and build_chunks.  No text, or no chunks, is FAILED and the end.     *)
Parse(w) ==
    /\ worker[w].pc = "parse"
    /\ Goto(w, "extract") \/ Failing(w, "delete")
    /\ UNCHANGED <<tables, viewer, broker, budgets>>

(* extract_and_store commits the rows of one stage.                           *)
Store(w, s) ==
    /\ worker[w].pc = "extract" /\ worker[w].stage[s] = "todo"
    /\ stored' = [stored EXCEPT ![worker[w].doc] = @ \cup {s}]
    /\ worker' = [worker EXCEPT ![w].stage[s] = "stored"]
    /\ UNCHANGED <<status, flags, old, blob, key, ws, viewer, broker, budgets>>

(* A stage raises, in the extractor or in the flush: gather collects it.  A   *)
(* flush that fails when it had its sweep in _pending_sweeps leaves it there. *)
StageFails(w, s) ==
    /\ worker[w].pc = "extract" /\ worker[w].stage[s] \in {"todo", "stored"}
    /\ errors < MaxErrors
    /\ errors' = errors + 1
    /\ \/ /\ worker[w].tx # s
          /\ worker' = [worker EXCEPT ![w].stage[s] = "failed"]
       \/ /\ worker[w].tx = s
          /\ \E left \in SUBSET {t \in {s} : worker[w].all} :
               worker' = [worker EXCEPT ![w].stage[s] = "failed", ![w].tx = "none",
                            ![w].all = FALSE, ![w].unsent = @ \cup left]
    /\ UNCHANGED <<tables, viewer, broker, reprocessed, outages, crashes>>

(* No document that is not FAILED lacks stage s, d's own flag being set.      *)
AllComplete(d, s) ==
    \A e \in Docs :
       status[e] \in {"PENDING", "READY"}
         => IF e = d THEN "null" \notin flags[d] ELSE Flagged(e, s)

(* _flush_stage_and_maybe_sweep: the flag is set and the others are read.     *)
Flush(w, s) ==
    /\ worker[w].pc = "extract" /\ worker[w].stage[s] = "stored"
    /\ ~Locked(worker[w].doc)
    /\ worker' = [worker EXCEPT ![w].tx = s,
                                ![w].all = AllComplete(worker[w].doc, s)]
    /\ UNCHANGED <<tables, viewer, broker, budgets>>

(* Its commit; with all documents complete also READY for the workspace, and  *)
(* after the commit the message for the sweep, with those this thread has     *)
(* failed to send before.  If the broker refuses, the stage fails and the     *)
(* messages are left for a later flush of the thread.                         *)
FlushCommit(w, s) ==
    /\ worker[w].pc = "extract" /\ worker[w].tx = s
    /\ flags' = [flags EXCEPT ![worker[w].doc] = @ \cup {s}]
    /\ ws' = IF worker[w].all THEN "READY" ELSE ws
    /\ \E before \in SUBSET worker[w].unsent :
         LET due == before \cup {t \in {s} : worker[w].all}
         IN  \/ /\ sweeps' = [t \in Stages |-> sweeps[t] + IF t \in due THEN 1 ELSE 0]
                /\ worker' = [worker EXCEPT ![w].stage[s] = "done", ![w].tx = "none",
                                 ![w].all = FALSE, ![w].unsent = @ \ before]
                /\ UNCHANGED outages
             \/ /\ due # {} /\ Outage
                /\ worker' = [worker EXCEPT ![w].stage[s] = "failed", ![w].tx = "none",
                                 ![w].all = FALSE, ![w].unsent = @ \cup due]
                /\ UNCHANGED sweeps
    /\ UNCHANGED <<status, old, blob, key, stored, viewer, msgs, swept,
                   reprocessed, errors, crashes>>

(* update_postgres_status_sync: the document's status is set and the others   *)
(* are read.                                                                  *)
UpdateStatus(w, new) ==
    /\ ~Locked(worker[w].doc)
    /\ worker' = [worker EXCEPT ![w].tx = new,
         ![w].all = \A e \in Docs \ {worker[w].doc} : status[e] # "PENDING"]
    /\ UNCHANGED <<tables, viewer, broker, budgets>>

MarkReady(w) ==
    /\ worker[w].pc = "extract" /\ worker[w].tx = "none"
    /\ \A s \in Stages : worker[w].stage[s] \in {"done", "failed"}
    /\ UpdateStatus(w, "READY")

MarkFailed(w) ==
    /\ worker[w].pc = "failed" /\ worker[w].tx = "none"
    /\ UpdateStatus(w, "FAILED")

(* Its commit: READY comes with the dictionary of the stages, which replaces  *)
(* the flags.                                                                 *)
StatusCommit(w) ==
    /\ worker[w].tx \in {"READY", "FAILED"}
    /\ status' = [status EXCEPT ![worker[w].doc] = worker[w].tx]
    /\ flags' = IF worker[w].tx = "READY"
                THEN [flags EXCEPT ![worker[w].doc] = {"done"}] ELSE flags
    /\ ws' = IF worker[w].all THEN "READY" ELSE "PENDING"
    /\ Leave(w, IF worker[w].tx = "READY" THEN "progress" ELSE worker[w].next)
    /\ UNCHANGED <<old, blob, key, stored, viewer, broker, budgets>>

(* READY is followed by a last note of the progress in Redis.                 *)
Progress(w) ==
    /\ worker[w].pc = "progress"
    /\ Goto(w, "delete")
    /\ UNCHANGED <<tables, viewer, broker, budgets>>

(* Any other exception of _process_document_core, its time limit included:    *)
(* also that last note's, with the document READY already.                    *)
CoreError(w) ==
    /\ worker[w].pc \in {"parse", "extract", "progress"} /\ worker[w].tx \in {"none", "READY"}
    /\ errors < MaxErrors
    /\ errors' = errors + 1
    /\ Failing(w, "retry")
    /\ UNCHANGED <<tables, viewer, broker, reprocessed, outages, crashes>>

(* FAILED itself cannot be written: for a document without text that is one   *)
(* more exception, after which it is tried again; else the task is retried.   *)
WriteLost(w) ==
    /\ worker[w].pc = "failed"
    /\ Outage
    /\ IF worker[w].next = "delete" THEN Failing(w, "retry") ELSE Leave(w, "retry")
    /\ UNCHANGED <<tables, viewer, broker, reprocessed, errors, crashes>>

(* Mutant: an error of the object storage is not swallowed.                   *)
DeleteBug(w) ==
    /\ worker[w].pc = "delete"
    /\ \/ /\ blob' = [blob EXCEPT ![key[worker[w].doc]] = FALSE]
          /\ Goto(w, "ack")
       \/ UNCHANGED blob /\ Goto(w, "retry")
    /\ UNCHANGED <<status, flags, old, key, stored, ws, viewer, broker, budgets>>

(* delete_file_from_gcs, which logs its errors and returns.                   *)
Delete(w) ==
    /\ worker[w].pc = "delete"
    /\ blob' \in {blob, [blob EXCEPT ![key[worker[w].doc]] = FALSE]}
    /\ Goto(w, "ack")
    /\ UNCHANGED <<status, flags, old, key, stored, ws, viewer, broker, budgets>>

(* self.retry sends the message again with a higher count, or gives up.       *)
Retry(w) ==
    /\ worker[w].pc = "retry"
    /\ IF worker[w].try < MaxRetries
       THEN Put(worker[w].doc, w, worker[w].try + 1)
       ELSE UNCHANGED msgs
    /\ Goto(w, "ack")
    /\ UNCHANGED <<tables, viewer, sweeps, swept, budgets>>

(* task_acks_late: the message is gone once the task has ended.               *)
Ack(w) ==
    /\ worker[w].pc = "ack"
    /\ worker' = [worker EXCEPT ![w] = Free(w)]
    /\ UNCHANGED <<tables, viewer, broker, budgets>>

(* Mutant: the message was acknowledged when it was received.                 *)
WorkerLostBug(w) ==
    /\ worker[w].pc # "idle"
    /\ crashes < MaxCrashes
    /\ crashes' = crashes + 1
    /\ worker' = [worker EXCEPT ![w] = IdleTask]
    /\ UNCHANGED <<tables, viewer, broker, reprocessed, errors, outages>>

(* The process is lost: its transaction is rolled back and, because of        *)
(* task_reject_on_worker_lost, its message delivered again.                   *)
WorkerLost(w) ==
    /\ worker[w].pc # "idle"
    /\ crashes < MaxCrashes
    /\ crashes' = crashes + 1
    /\ Put(worker[w].doc, w, worker[w].try)
    /\ worker' = [worker EXCEPT ![w] = IdleTask]
    /\ UNCHANGED <<tables, viewer, sweeps, swept, reprocessed, errors, outages>>

(* The hard time limit kills the process and acknowledges the message.        *)
TimeLimit(w) ==
    /\ worker[w].pc # "idle"
    /\ Outage
    /\ worker' = [worker EXCEPT ![w] = IdleTask]
    /\ UNCHANGED <<tables, viewer, broker, reprocessed, errors, crashes>>

(* resolve_defined_term_conflicts and resolve_deadline_conflicts: one         *)
(* transaction over the rows of the workspace, by a worker that is free.  A   *)
(* failure is retried, and at last given up.                                  *)
Sweeper(s) == IF s = "defined_terms" THEN "default" ELSE "ocr"

Sweep(s) ==
    /\ sweeps[s] > 0
    /\ worker[Sweeper(s)].pc = "idle"
    /\ sweeps' = [sweeps EXCEPT ![s] = @ - 1]
    /\ \/ /\ swept' = [swept EXCEPT ![s] = {d \in Docs : s \in stored[d]}]
          /\ UNCHANGED outages
       \/ Outage /\ UNCHANGED swept
    /\ UNCHANGED <<tables, viewer, msgs, worker, reprocessed, errors, crashes>>

Task(w) ==
    \/ Deliver(w) \/ Download(w) \/ Parse(w)
    \/ \E s \in Stages : Store(w, s) \/ Flush(w, s) \/ FlushCommit(w, s)
    \/ MarkReady(w) \/ MarkFailed(w) \/ StatusCommit(w) \/ Progress(w)
    \/ Delete(w) \/ Retry(w) \/ Ack(w)

Fault(w) ==
    \/ \E s \in Stages : StageFails(w, s)
    \/ CoreError(w) \/ WriteLost(w) \/ WorkerLost(w) \/ TimeLimit(w)

Next ==
    \/ \E d \in Docs : Upload(d) \/ Link(d) \/ Reprocess(d) \/ HourPasses(d)
    \/ View \/ ViewCommit
    \/ SweepStuckTasks
    \/ \E w \in Workers : Task(w) \/ Fault(w)
    \/ \E s \in Stages : Sweep(s)

Spec == Init /\ [][Next]_vars

(* The workers consume, time passes and the cron job runs every hour.         *)
Fairness ==
    /\ \A w \in Workers : WF_vars(Task(w))
    /\ \A d \in Docs : WF_vars(HourPasses(d))
    /\ WF_vars(SweepStuckTasks)

FairSpec == Spec /\ Fairness

-----------------------------------------------------------------------------
(* Properties.                                                                *)

Steps == {"idle", "download", "parse", "extract", "failed", "progress", "delete",
          "retry", "ack"}

Tasks ==
    [pc : Steps,
     doc : Docs \cup {NoDoc}, try : 0..MaxRetries,
     stage : [Stages -> {"todo", "stored", "done", "failed"}],
     next : {"ack", "delete", "retry"},
     tx : Stages \cup {"none", "READY", "FAILED"}, all : BOOLEAN,
     unsent : SUBSET Stages]

(* Every variable has its type.                                               *)
TypeOK ==
    /\ status \in [Docs -> DocumentStatus]
    /\ flags \in [Docs -> SUBSET Columns]
    /\ old \in [Docs -> BOOLEAN]
    /\ blob \in [Docs -> BOOLEAN]
    /\ key \in [Docs -> Docs]
    /\ stored \in [Docs -> SUBSET Stages]
    /\ ws \in {"PENDING", "READY"}
    /\ viewer \in {"none", "PENDING", "READY"}
    /\ msgs \in [Messages -> Nat]
    /\ sweeps \in [Stages -> Nat]
    /\ swept \in [Stages -> SUBSET Docs]
    /\ worker \in [Workers -> Tasks]
    /\ reprocessed \in Nat /\ errors \in Nat /\ outages \in Nat /\ crashes \in Nat

(* A message or task that will still write the status of d, if it finds the   *)
(* file.                                                                      *)
Pursued(d) ==
    \/ \E m \in Messages : m.doc = d /\ msgs[m] > 0
    \/ \E w \in Workers :
         worker[w].doc = d /\ worker[w].pc \in {"download", "parse", "extract", "failed"}

(* No document is PENDING for want of a message: as long as its file is there *)
(* somebody is at work on it, through retries, lost workers, racing attempts  *)
(* and reprocessing.  Only an outage can break that.                          *)
PendingIsPursued ==
    outages = 0 => \A d \in Docs : status[d] = "PENDING" /\ HasFile(d) => Pursued(d)

(* A READY document falls back to FAILED only after a worker was lost, an     *)
(* exception or a call of reprocess: left alone, an attempt that has          *)
(* committed READY is the last one, and no earlier one is still running.      *)
ReadyFallsBack ==
    [][\A d \in Docs : status[d] = "READY" /\ status'[d] = "FAILED"
         => crashes > 0 \/ reprocessed > 0 \/ errors > 0]_vars

(* Whatever is lost, no document stays PENDING for ever.                      *)
DocumentSettles ==
    \A d \in Docs : status[d] = "PENDING" ~> status[d] # "PENDING"

(* Once nothing is pending the workspace's status becomes READY.  The code    *)
(* does not have this property and no run claims it: the cron job writes      *)
(* FAILED and leaves the workspace alone, two transactions that each write    *)
(* READY do not see each other, and no page has to ask again (see View).      *)
WorkspaceSettles ==
    (\A d \in Docs : status[d] # "PENDING")
      ~> (ws = "READY" \/ \E d \in Docs : status[d] = "PENDING")

(* When every document of the workspace is READY and all is quiet, the sweeps *)
(* have compared the rows of every document.                                  *)
Settled ==
    /\ \A d \in Docs : status[d] = "READY"
    /\ \A m \in Messages : msgs[m] = 0
    /\ \A w \in Workers : worker[w].pc = "idle"
    /\ \A s \in Stages : sweeps[s] = 0

ConflictsSwept ==
    Settled => \A s \in Stages : swept[s] = {d \in Docs : s \in stored[d]}

-----------------------------------------------------------------------------
(* Strengthening of PendingIsPursued: a file a document shares is that of a   *)
(* document that exists, so no later upload brings it back.                   *)
KeyInv == \A d \in Docs : key[d] = d \/ status[key[d]] # "ABSENT"

(* Strengthening of ReadyFallsBack: left alone, a document has one message or *)
(* one task, none before its upload, and none that could write after READY.   *)
LeftAlone == crashes = 0 /\ reprocessed = 0 /\ errors = 0

Busy(w, d) == worker[w].doc = d /\ worker[w].pc \notin {"idle", "ack"}

Queued(d) == {m \in Messages : m.doc = d /\ msgs[m] > 0}

OneAttempt(d) ==
    /\ \A m, n \in Queued(d) : m = n /\ msgs[m] = 1
    /\ \A w \in Workers : Busy(w, d) =>
         Queued(d) = {} /\ \A v \in Workers \ {w} : ~Busy(v, d)
    /\ status[d] = "ABSENT" => Queued(d) = {} /\ \A w \in Workers : ~Busy(w, d)
    /\ status[d] = "READY" => /\ Queued(d) = {}
                              /\ \A w \in Workers :
                                   Busy(w, d) => worker[w].pc \in {"progress", "delete"}

OwnTransaction(w) ==
    /\ worker[w].tx # "none" => worker[w].pc \in {"extract", "failed"}
    /\ worker[w].tx = "FAILED" => worker[w].pc = "failed"

AttemptInv ==
    /\ \A w \in Workers : OwnTransaction(w)
    /\ LeftAlone => \A d \in Docs : OneAttempt(d)

=============================================================================
