# Formal models of Lex, the legal copilot

TLA+ modules for the parts of this repository in which several processes share
state: the API, the Celery workers, the cron jobs, PostgreSQL, Redis and the
message broker between them. TLC checks the modules on small instances. TLAPS
proves, for every value of the constants, each invariant and each property of
steps that those checks find to hold; what must eventually happen is left to
TLC. Paths are relative to `src/`.

## 1. The system

| Component | State | Operations | Where |
|---|---|---|---|
| Goal and workflow | `goals.status`; the `workflow_executions` row (status, brief, result, confirmation); `actions` rows; the `default` queue | `create_goal`, `confirm_intent`, `confirm_brief`, `approve_workflow`, `reject_workflow`, `confirm_plan`, `cancel_goal`; the task `process_workflow` with the nodes of the agent; the cron job that expires the ambiguity gate | `app/routers/goals.py`, `app/routers/action_agent.py`, `app/tasks.py`, `app/services/agent/nodes.py` |
| LLM slots | the sorted set `llm_slots:<org>` in Redis, the time to live of the key | `acquire_llm_slot`, `release_llm_slot`, the extractors' waiting loop | `app/redis_client.py`, `app/services/ingestion/*_extractor.py` |
| Ingestion | `documents.status`, its stage flags, the file in R2, the registries of terms and deadlines, `workspaces.intelligence_status`, the queues `default`, `ocr`, `deadline` | `upload_document`, `reprocess_document`, status queries, `process_digital_pdf`, `process_scanned_pdf`, `resolve_*_conflicts`, `sweep_stuck_tasks` | `app/routers/workspaces.py`, `app/tasks.py`, `app/routers/cron.py` |
| Approval requests | `approval_requests` with token and expiry, the workflow's status | list, approve, reject, reissue, expire, resolve an escalation | `app/routers/approvals.py`, `app/routers/escalations.py`, `app/routers/cron.py` |
| Deadlines | `deadline_registry`: date, urgency, status | `extract_and_store`, `deadline_scanner`, `calculate_urgency` | `app/services/ingestion/deadline_extractor.py`, `app/tasks.py` |
| Accounts | organisations, users, memberships, invites, API keys, Supabase accounts | sign-up, login, invite, four ways to accept one, removal, expiry; which organisation a request is for | `app/routers/auth.py`, `invites.py`, `app/dependencies.py` |
| Signing keys | a process-wide cache of Supabase's keys | refresh, look up | `app/dependencies.py` |
| Sessions | rows of `workspace_sessions`; hashes with a lifetime in Redis | create, edit, close, archive, use for a goal | `app/routers/workspaces.py`, `app/redis_client.py`, `app/routers/goals.py` |
| Audit log | a bounded queue in each process, two collections in MongoDB | emit; connect, collect, flush | `app/services/audit` |
| Reports | none of its own | export, trail, research log, summary; views of goals | `app/routers/audit.py`, `app/routers/goals.py` |
| Index and retrieval | the points of a Qdrant collection | index a document; the searches of a goal | `app/services/ingestion/embedder.py`, `app/services/store.py` |
| Chunking | the path of clauses, the text so far | heading by heading, sentence by sentence | `app/services/ingestion/chunker.py` |
| The rest | | parsing and OCR, terms and graph extraction, notifications, due-diligence prototype, browser client, scripts, migrations, deployment | `app/services`, `due_diligence`, `frontend-next`, `scripts`, `alembic` |

They meet in four places. The API commits a row and *then* sends a message, so
that a message may be missing for a row. The broker delivers a message until
the task has ended (`acks_late`), so that a task may run twice. A task decides
what to do by the status it reads, not by the message, so that an answer to one
question can be taken for the answer to the next. And a handler reads, decides
and writes in one request while tasks and other requests commit in between.

What should hold, and is hard to test:

* *Goal and workflow*: nothing leaves the system that no lawyer approved;
  whatever a status promises (a brief to confirm, a draft to approve, a document
  to download) exists; a workflow that says it is working has somebody working
  on it; a lost worker does not end it; a cancellation and a revision limit are
  final.
* *LLM slots*: the number of leases is bounded although counting and adding are
  two commands; nobody's young lease is taken away; leaked leases come back.
* *Ingestion*: a document that is PENDING is being worked on, or at least does
  not stay so; a READY document stays READY; every pair of documents is
  compared.
* *Approval requests*: a decision stands; it takes the workflow out of the gate;
  a request that lapses unanswered does not hold the workflow for ever.
* *Deadlines*: urgency only rises, the list by urgency is a list by date, what is
  past is marked and what is not is not; a stored date exists and is the one the
  contract says; contradicting obligations are flagged in whatever order the
  model answered.
* *Accounts*: a role was given by somebody who could, to that person; an invite
  admits once; an organisation keeps an administrator; all endpoints agree on
  whose request it is, and it is an organisation of the caller.
* *Signing keys*: a process does not stick to an old key.
* *Sessions*: what is closed stays closed; a key does not live for ever.
* *Audit log*: it never blocks and never duplicates or reorders, and loses only
  what an overflow, an outage or a crash explains.
* *Reports*: an export shows why a completed task was run; a trail shows the
  workflow of each of its entries.
* *Index and retrieval*: an indexed document is found with all its chunks, each
  under its own vector; a goal is answered from its scope.

## 2. The modules

| Module | Contents | Proofs |
|---|---|---|
| `AgentWorkflow` | one goal, its workflow row, its action rows, the queue, any number of workers and of concurrent requests | `AgentWorkflow_proofs` |
| `LLMSlots` | the semaphore of one organisation and its callers | `LLMSlots_proofs` |
| `Ingestion` | the documents of one workspace, two workers, the queues, the cron job, the status queries | `Ingestion_proofs` |
| `Access` | people, organisations, invites, keys and concurrent requests | `Access_proofs` |
| `Approvals` | the approval requests of one workflow and their handlers | `Approvals_proofs` |
| `Deadlines` | the deadline registry and its scanners | `Deadlines_proofs` |
| `AuditLog`, `LossyLog` | the audit log of one process, and what it promises | `AuditLog_proofs` |
| `Sessions` | one session of each kind | `Parts_proofs` |
| `SearchIndex`, `Research` | the index; the searches of a goal in it | `Parts_proofs` |
| `TokenKeys` | the key cache of one process | `Parts_proofs` |
| `Reports` | reports put together while workflows go on | `Parts_proofs` |
| `Chunker` | the path of headings, and the chunks of a section | `Parts_proofs` |
| `DeadlineDates` | the deadline extraction of one document | `Parts_proofs` |
| `MCAgentWorkflow`, `MCAccess` | symmetry sets for TLC | |
| `MCParts` | Sessions, Research (with SearchIndex), TokenKeys, Reports, Chunker, DeadlineDates and AuditLog in one run | |

Definitions whose names end in `Bug` are variants of an action or operator with
a plausible mistake in it. Nothing uses them in the models; put in the place of
the original, each must make TLC report the property it is meant for.

### AgentWorkflow

A worker's step is one commit of the task with the reads and model calls before
it; the variable `worker[w].pc` names the node that comes next. A request that
decides on what it read and commits later is two steps, joined by `client[c]`.

| Code | Model |
|---|---|
| `process_workflow`, status branches | `Load`, `Route` |
| `intent_node`, `ambiguity_gate_node`, `retrieval_node` | `Classify`, `AmbiguityGate`, `Retrieve` |
| `synthesis_node`; `graph_expansion_node`, `defined_terms_node` | `Synthesize`, `Answer`; `Expand`, `DefinedTerms` |
| `detect_node`, `decision_brief_node` | `Detect`, `WriteBrief` |
| `draft_node` | `Revise`, `DraftStart`, `InsertActions`, `SaveDraft`, `PauseForApproval` |
| `export_node` | `PickApproved`, `Export` |
| `_safe_run`, time limits | `TaskError` |
| acknowledgement and redelivery | `Deliver`, `Ack`, `WorkerLost` |
| `create_goal` | `CreateGoal` to `Dispatch` |
| the gates' handlers | `ConfirmIntent`, `ConfirmBrief`, `AbortBrief`, `Approve`, `Edit*`, `ConfirmPlan`, `ResumeGoal`, `Reject*`, `Cancel*` |
| `send_task` after a handler's commit; an API process that dies | `Dispatch`; `RequestLost` |

A handler that commits and then sends is two steps (`RejectCommit` and
`EditCommit`, then `Dispatch`), and the process may die between them
(`RequestLost`). `lost` is history: the senders whose message never reached the
broker since the status was last written, and "task" if a task ended there by an
exception whose FAILED could not be written either.

Texts are numbers: `lastDraft` names the next one, `approved` and `exported`
are history variables for the properties. What a model answers is a choice.
`Patient` is an assumption on the *lawyer*, not on the code: TRUE means that the
next answer is given only when the last has been worked off. `Patient = FALSE`
is the program as it is deployed; the page shows a panel again after a minute.

### LLMSlots

Redis commands are atomic, the Python functions are not. Time is ticks; a score
is kept as the age of the lease, cut off where no comparison can tell two ages
apart. A caller may stall inside `acquire_llm_slot` for `MaxStall` ticks, and
may be lost anywhere. `KeyOutlives` says how long the key has to live for no
young lease to go with it: a caller lost between `zadd` and `expire` leaves a
lease in a key it has not renewed, and every such loss can cost the key nearly
the time of a lease. The 300 s of the code against 120 s allow for one.

### Ingestion

A transaction of the worker is two steps, the one that locks the document's row
and reads, and the commit; two transactions on different documents run side by
side and do not see each other, which is READ COMMITTED. The message's `try`
counts retries. The file belongs to `key[d]`, since a duplicate shares the
`r2_key` of the original. The column `intelligence_stages_complete` is modelled
by what the queries on it can tell: no flags, stage flags, the dictionary
written with READY, which has other keys, and JSON null, after which nothing
written is found again.

| Code | Model |
|---|---|
| `upload_document`, with its dedup check | `Upload`, `Link` |
| `reprocess_document` | `Reprocess` |
| `sync_workspace_status_async`, `list_workspaces` | `View`, `ViewCommit` |
| `process_digital_pdf`, `process_scanned_pdf` | `Deliver`, `Download`, `Delete`, `Retry`, `Ack` |
| `_process_document_core` | `Parse`, `MarkReady`, `MarkFailed`, `Progress`, `CoreError`, `WriteLost` |
| `run_intelligence_pipeline_async` | `Store`, `StageFails` |
| `_flush_stage_and_maybe_sweep` | `Flush`, `FlushCommit` |
| `update_postgres_status_sync` | `UpdateStatus`, `StatusCommit` |
| `resolve_*_conflicts` | `Sweep` |
| `sweep_stuck_tasks` | `HourPasses`, `SweepStuckTasks` |

`upload_document` and `reprocess_document` are one action each, their commit and
their message together: an interruption between the two is the outage in them.
`View` and `ViewCommit` are there because they write the workspace's status over
what a worker committed; no property relies on them, as nothing obliges anybody
to ask (section 3).
The stages that only write elsewhere (embedding, graph) are not distinguished
from no stage at all, since their failure is collected and ignored.

### Access

A person is an email address and an organisation a slug; both are unique in the
schema. A handler whose decision can be overtaken is a step that reads, kept in
`request[c]`, and a step that commits; a handler that inserts under a unique key
is one step, since the key makes its check and its insert one decision. `raced`
and `overlap` are history: invites two handlers were accepting at once, and
organisations with two removals under way. `removed` holds the memberships an
administrator has deleted: `remove_member` leaves the person's
`personal_org_id` as it is.

| Code | Model |
|---|---|
| `signup`, `setup_org`, `login`, linking at sign-in | `Signup`, `SetupOrg`, `Login`, `Link` |
| `invite_user`, `invite_user_by_email`, `generate_invite` | `InviteUser`, `InviteUserByEmail`, `GenerateInvite` |
| `accept_invite_by_token`, both `accept_invite`, `_build_supabase_auth_context` | `Read*`, `CreateAccount`, `Admit`, `AdmitFails`, `RequestLost` |
| `remove_member`, `revoke_key` | `ReadMember`, `RemoveMember`, `RevokeKey` |
| `cleanup_expired_invites` | `InviteExpires`, `CleanupExpiredInvites` |
| `get_supabase_auth_context`, `get_org_id_unified` | `ContextOrg`, `UnifiedOrg` |

### Approvals

Handlers lock nothing, so each is a step that reads and steps that commit:
`ReadApprove`, `CommitApprove`, `Dispatch`; `ReadReject`, `CommitReject`,
`Count`, then `Revise` or `Escalate`; `ReadReissue`, `CommitReissue`. They look
at the latest request that has not lapsed, whatever its status (`Current`).
`ExpireStaleApprovals` is two statements in one transaction, so one step. The
agent is seen as an approver sees it (`AgentPauses`, `AgentTakesMessage`,
`AgentTakesOther`); `AgentWorkflow` has its details. Nothing under `app/`
inserts an approval request: `Issue` is whoever will.

### Deadlines

`ReadDeadlines` is the scan's first transaction with the scores by the clock as
it is then, `WriteScores` the second; time and other scans pass in between.
Time is in ticks, of which `TicksPerDay` make a day, so that the rounding of
`timedelta.days` shows. A score is in percent.

### AuditLog and LossyLog

An event is its number in the order of emission, so that the queue and the
batch, first in first out, are sets. The consumer thread is `Connect`,
`CreateIndexes`, `Take`, `Flush`, `Insert`, `InsertFails`; an outage can begin
and end between any two of them, and `Crash` restarts the process. `LossyLog`
says what the emitting code may rely on: a bounded number of events is held,
none is stored twice, none before an older one of its kind is stored or given
up. `AuditLog` implements it with `pending` as queue and batch together and
their sizes added (`Log`, `KeepsPromise`).

### The small parts

* `Sessions`: a PATCH or DELETE of the row reads and commits in two steps, and a
  commit writes only what differs from what was read. The Redis hash is created
  in two commands, with its creator lost in between or not.
* `SearchIndex`: `index_document` group by group of texts; a point's id is a
  salted hash of filename and number, so it depends on the interpreter. Scores
  are not modelled: a search returns any best hits among those the filter lets
  through. `Research` is the goal's search on top of it, by the handler
  (ANALYZE) or by the task (REASON and ACT). Its property is about what these
  searches return. `graph_expansion_node` adds clauses of any document of the
  workspace, selected or not, and `detect_node` reads the workspace's registries
  of terms and deadlines whole; neither is in the module.
* `TokenKeys`: a fetch is asked for, answered and stored in three steps, since
  the answer waits in a thread; its timeout is the unit of time.
* `Reports`: each report is a plan, a sequence of tables read one by one, while
  goals are created (`CreateGoalRow`, `CreateWorkflowRow`, `LogIntent`,
  `DispatchGoal`), overridden (`LogOverride`), completed by a task
  (`TaskCompletes`), reopened, or resolved by an administrator
  (`ResolveEscalation`), who writes COMPLETED over any status, with nothing
  behind it. The only findings are those of an aborted retrieval
  (`StoreFinding`): `findings_node` and `result_node` are behind
  `defined_terms_node`, which raises.
* `Chunker`: a heading is what it looks like, and `(i)`, `(v)`, `(x)` look alike
  as letter and numeral. A word is its length, a sentence a sequence of words.
* `DeadlineDates`: the calendar, a date named in the expression
  (`_find_absolute_date`), which goes before the rules of
  `_resolve_relative_date`, the answers in any order, the conflict scan over
  pairs of positions. Of a wording only its unit, its count and the date in it
  are kept.

They share no state, so `MCParts` lets one of them move in each behaviour, which
makes its states the sum of theirs.

## 3. The runs

Every cfg names its bounds. A fault of `AgentWorkflow` is an exception in a task,
a message the broker refuses, or an API process that dies; a crash is a lost
worker. Deadlock checking is off where a quiet system with
nothing left to do is a legitimate end. The type invariants are not among the
runs' invariants, as they are proved (section 4).

| Run | Instance | Result |
|---|---|---|
| `AgentWorkflow_adverse` | two impatient clients, one worker, one crash, one more fault, three requests, three rows | ArtefactsExist, ApprovalPauseHasDraft, RevisionBound and WorkNotStranded hold (670 thousand states) |
| `AgentWorkflow_patient` | patient lawyer, two workers, two clients, four requests, one fault, no crash | RouteMatchesAnswer and ExportFollowsApproval hold |
| `AgentWorkflow_live` | one client, two requests, one crash, one more fault, fair | TransientStatusLeft, ConfirmedBriefLeavesGate hold |
| `AgentWorkflow_v_redelivery` | patient lawyer, one crash | ExportFollowsApproval fails: the message redelivered after the pause finds the approval gate and passes it |
| `LLMSlots_all` | three callers, four lease ids, one slot, one crash, fair | SlotBound, YoungLeaseHeld, SlotsComeBack hold |
| `Ingestion_safe` | one scanned document, two calls of reprocess, one retry, one exception, one crash | PendingIsPursued, ReadyFallsBack hold (3.2 million states) |
| `Ingestion_live` | two documents of one content on two workers, one retry, one outage, fair | DocumentSettles holds |
| `Ingestion_v_sweep` | two documents, no fault | ConflictsSwept fails: the flags of a READY document are gone |
| `Access_all` | two people, two organisations, two invites, two requests at once | RoleGranted, OrgKeepsAdmin, InviteAdmitsOnce, StaleByRemovalOnly hold |
| `Approvals_all` | two requests, two handlers, one reissue, one fault, revision limit one, fair | DecisionFinal, DecisionLeavesGate, LapseEscalates hold |
| `Deadlines_all` | two deadlines, two scanners, one fault, a month of half days, fair | UrgencyNeverFalls, ListedByDate, OverdueWithinDay, PassedIsMarked hold |
| `Parts_all` | the small parts: three documents of two names in two workspaces; two requests for each session and key; one goal; sections of three sentences and headings to (y) and (xi); two chunks of two obligations; five events, queue and batch of two, two faults | their fourteen properties hold |

Why the bounds suffice to be interesting. In `AgentWorkflow_adverse` two rejects
can overlap with the limit at one, so that it is really exceeded; a brief may
recommend none or one action, and three rows allow a revision or redelivery on
top of the first draft. Three requests are confirm, reject, reject; the patient
run has four, which leads on to the approval. The fault may hit the message of
any of them, before or after it is sent. One worker is what `docker-compose.yml`
starts on the queue of `process_workflow` (`--concurrency 1`); section 4 proves
its safety properties for any number, but for `ApprovalPauseHasDraft`, which
needs one. In `LLMSlots_all` three
callers exceed the one slot by two, which is the bound, and lease and key
lifetimes are long enough for a lease to be purged while another caller waits.
In `Ingestion_safe` the scanned document is processed on `ocr` and reprocessed
on `default`, so that three attempts overlap; `Ingestion_live` has two documents
whose transactions do not see each other, and the outage may hit any message,
download, write, sweep or process. In `Access_all` two people can administer one
organisation, remove and re-invite each other, and two requests can hold one
invite. In `Approvals_all` an approval, a rejection, a reissue and the nightly
job can all hold the same request, and a second one can be pending, decided or
lapsed beside it. In `Deadlines_all` the dates lie five and 64 ticks ahead, so
that every level of urgency is passed through, and both scans can write what
they read a day ago. In `Parts_all` the queue overflows with three events to
spare; the word of length six is longer than the limit of five, two words are
just within it, and sentences have at most two words; the headings reach every
letter and numeral that can be mistaken; the execution dates include month-ends,
a leap day's neighbour and a Friday, and one obligation counts business days
from a date it names; a report sees one goal at each stage of its life between
its statements, and the proof covers any number; a rotation can happen twice
while two fetches are out; `d1` and `d2` share a filename in different
workspaces.

### Fairness

* `AgentWorkflow`: weak fairness of each worker's task and of delivery. The
  broker keeps the message and Celery consumes as long as it runs; `Route` and
  every node have an end, the time limits see to it. So is the next step of a
  request under way (`Handler`). Nobody has to make a request, and errors and
  crashes are not fair: the properties speak only of what the system owes.
* `LLMSlots`: time passes, and each coroutine executes its next command.
  Releasing is in a `finally`, and a model call has a time limit.
* `Ingestion`: weak fairness of each worker's task, of the passing hour and of
  the hourly job (`.github/workflows/cron.yml:19`). No fairness for uploads,
  reprocessing, status queries, sweeps and faults.
* `Approvals`: weak fairness of a handler's next step, of the cron job and of
  the worker that takes the message. Time, approvers and faults are not fair.
* `Deadlines`: weak fairness of each scan. Beat sends the task every quarter of
  an hour, and one that fails is retried or followed by the next.
* `AuditLog`: weak fairness of the consumer thread, none of MongoDB. That a call
  returns rests on the server selection time-out of five seconds
  (`audit/client.py`); a connection that stays open and silent has no time-out of
  its own, and then the thread waits longer than the model has it.

### What the code does otherwise than it says

The two violation runs are listed with their quotations in `PROJECT.json`.
`WorkspaceSettles` is stated in `Ingestion` and fails under `Ingestion_live.cfg`:
two documents that become READY at once both leave their workspace PENDING, the
cron job that fails a document leaves the workspace as it is, and afterwards
nobody has to ask: the page of a workspace polls only while it shows a pending
document (`frontend-next/src/app/workspaces/[id]/page.tsx:153`), and its last
answer may come from the cache of 30 s, which skips the correction. Opening the
list of workspaces corrects it.

Three more promises are stated in `AgentWorkflow` and broken by the code even
for a patient lawyer; each as an INVARIANT or PROPERTY of
`AgentWorkflow_patient.cfg` gives its counterexample:

* `ExportWasApproved`: every revision inserts action rows again with
  `task_order` 0, so two rows can await approval, and the export may take the
  one the lawyer did not approve; an export under way overtakes a reject.
* `CancelIsFinal`: `_set_wf_status` does not look at the present status, so the
  task's next commit overwrites CANCELLED.
* `RetrievalInSession` (with `MaxCrashes = 1`): the redelivered message of a
  reject starts over from classification, and only the first message of a goal
  carries the documents of its session.

And with `Patient = FALSE` `ExportFollowsApproval` fails without any fault: a
second confirmation of the brief, which the page offers after a minute, is
taken for an approval.

Two properties that hold depend on numbers of the deployment:

* `ApprovalPauseHasDraft` holds with one worker process, as `docker-compose.yml`
  starts it. `Dockerfile.worker`'s own command starts two, and then
  (`Workers = {w1, w2}` and four requests, without any fault) it fails: a second
  confirmation of the brief sets a second task to work, and one of the two
  pauses while the other has inserted a row and not drafted it. In the same way
  one can export the draft between the other's commit of it and its pause, and
  the workflow waits for an approval with nothing to approve.
* `YoungLeaseHeld` holds with `KeyOutlives`. With two callers lost between
  `zadd` and `expire`, each nearly two minutes after the last renewal
  (`MaxSlots = 3`, `LeaseTime = 3`, `KeyTime = 7`, `MaxCrashes = 2`), the key
  expires under a lease that is still young.

What else the models show:

* `reject_workflow` compares a `revision_count` that may be stale, so the limit
  of three is exceeded when rejects race; `RevisionBound` says by how much.
* In the same way `acquire_llm_slot` exceeds `max_slots`; `SlotBound`.
* An aborted retrieval leaves the workflow at RETRIEVING, and nothing takes it
  out (`Retrieve`; the SRS has UNDETERMINED). Hence RETRIEVING is missing from
  `TransientStatusLeft`.
* `confirm_intent` stores the answer and sends no message, so a workflow at the
  ambiguity gate only ends by the cron job (`ConfirmIntent`).
* `defined_terms_node` returns an enum member that does not exist, so REASON
  workflows end in FAILED (`DefinedTerms`).
* Every handler commits and then sends. `reject_workflow` is at REVISING before
  its message is sent, and stays there if the message is refused or the process
  dies (`RejectCommit`, `Dispatch`, `RequestLost`); nothing sends it again.
  `WorkNotStranded` says that no loss but this very one, or that of the task
  behind the status, has such an end.
* A brief without recommendations leads to AWAITING_APPROVAL with no row and no
  draft, from which no approval leads on (`InsertActions`, `SaveDraft`).
* Redis refusing the last note of progress sends a READY document back to FAILED
  and through the pipeline again (`Progress`, `CoreError`).
* A document whose download keeps failing stays PENDING until the hourly job;
  one reprocessed after that hour may be failed by the job while it is worked on.
* `delete_workspace_document` names a column that the deadline registry does not
  have and raises before it changes anything; it is not an action.
* Accounts: `update_member_role` asks the context for a role it does not have
  and always raises. `POST /orgs/{id}/invites` makes Supabase create the
  account, after which `/invites/accept` answers 500 and the person joins by
  signing in, as MEMBER whatever the invite says (`CreateAccount`, `RoleGiven`).
  `POST /auth/invite` stores its token unhashed, so that no token finds it
  (`InviteUser`). Two removals at once can leave an organisation without an
  administrator, and two acceptances with a removal between them can use one
  invite twice; hence `overlap` and `raced`.
* Approvals: the handlers lock nothing, so a second decision overwrites a first
  one read before it (`raced`). A rejection sends no message, and REVISING stays
  until another message comes. A handler lost between the decision and its
  effect strands the workflow: the token is spent, and the cron job does not
  escalate. The job's comment says it escalates when *all* requests have
  expired; it does with decided ones among them. An approval whose message
  arrives after the escalation restarts the workflow. `list_escalations` shows
  FAILED workflows only. The warning job inserts a user that does not exist and
  fails on the foreign key.
* Deadlines: the Beat schedule is in `beat.py` and in `worker.py`, so two scans
  can overlap and write in the other order. A deadline is OVERDUE up to a day
  early. No action ever gets a `deadline_id`, and the notifications are log
  lines.
* Deadline extraction: without an execution date not even a plain date is
  resolved; with one, a date in the expression goes before everything else in
  it, so that "within 5 business days of January 15, 2024" is stored as the 15th
  itself, which `DeadlinesAreDue` states as it is; "within N days of" any event
  counts from the execution date; a month after the 31st may raise, which loses
  the rest of the chunk's obligations; of several conflicts `source_clause_b`
  keeps the last.
* Sessions: an empty selection, given or patched, lets a goal search the whole
  workspace (REASON) or organisation (ANALYZE). A closed session still serves
  goals, and a goal does not count as activity against the 90 days.
* Retrieval: two documents with one filename replace each other's points, in
  whatever workspaces they are; a document indexed again after a restart is
  there twice; when the names of the session's documents cannot be read, the
  task searches its whole workspace. `VoyageRateLimitError` is a subclass of the
  error that falls back, so a rate limit is not retried but answered with
  vectors of another space (`GetEmbedding`).
* Audit log: an index that cannot be made ends the thread for the life of the
  process (`CreateIndexes`). Few of the emitters are called, and nothing inserts
  the tool calls that the export reads.
* Reports: the trail shows all workflows of the organisation, and one that is
  COMPLETED perhaps without its log. `resolve_escalation` writes COMPLETED over
  any status, also of a workflow that has no classification logged or no result;
  `ReportIsWhole` is about those a task completed. Since `defined_terms_node`
  raises, no finding of `findings_node` is ever stored, and only that of an
  aborted retrieval is reported.
* Organisation of a request: `remove_member` leaves `personal_org_id`, by which
  one of the two resolvers may still answer with the organisation the person was
  removed from, and the other not; `StaleByRemovalOnly` shows that nothing else
  tells them apart.
* Chunker: beyond the three letters it checks, numerals below `h`, `i`, `v` and
  `x` are misfiled (`Ambiguous`); "1.1" is on the level of "1."; a sentence of
  exactly the limit or a word longer than it leaves an empty chunk.

What the properties do not exclude. Some hazards are real, and the property at
hand says that nothing *but* them does the harm: two administrators who remove
each other (`overlap` in `OrgKeepsAdmin`), two handlers that accept one invite
(`raced` in `InviteAdmitsOnce`), two that decide on one approval request
(`raced` in `DecisionFinal`), a crash between a decision and its effect
(`faults` in `DecisionLeavesGate`), two scans that have read one deadline
(`raced` in `UrgencyNeverFalls`), a creator lost between `hset` and `expire`
(`KeyExpires`), an outage or crash of the audit log (`LostByOverflow`; what is
lost then is `KeepsPromise`'s) and its ended thread (`AcceptedIsSettled`), and
an exception, a lost worker or a reprocessing after READY (`ReadyFallsBack`).
The code guards against none of these; `PROJECT.json` says so at each hazard.

## 4. The proofs

TLAPS 1.4.5 with Z3, Zenon and LS4; no obligation is left out.

**AgentWorkflow_proofs.** `TypeCorrect` is by one lemma per kind of step.
`ArtefactsAlwaysExist`: `ArtefactsExist` alone is not inductive, because a task
between the insert and the pause and a request between its read and its commit
act on what they remember. `ArtefactsInv` adds that a task past the insert has a
brief, that a task about to export holds a row with a draft, that a request
about to edit holds an existing row, and that absent rows carry no draft.
`RevisionBounded`: `RevisionInv` also counts the rejects that have decided to
increment and not committed; each row can still grow by one for each of them,
and a reject can join only while the row is below the limit. `WorkNeverStranded`
has no premise: a lost worker puts its message back, a step that takes a message
or ends a task writes the status that follows, and whatever else ends a task or
a request is in `lost` until the status is written again. `RouteAlwaysMatches`
holds under `Patient /\ MaxCrashes = 0`; the invariant `RouteInv` says that at
most one message, task or request is in flight and that while it is, the status
is the one its sender saw, or CANCELLED. `PauseAlwaysHasDraft` holds for one
worker, by `PauseInv`: from the commit of a draft to the pause, and for as long
as the pause lasts, a row awaits approval if there is any row, and nobody
inserts or drafts one during the pause. Two workers break it, as section 3 says.
`ExportsFollowApproval`, under `Patient /\ MaxCrashes = 0` again, is by
`ApprovalInv`: an approval that found a row is on record while its message waits
and while the task that took it runs, and no row is drafted meanwhile. It rests
on `RouteInv`, without which the message could be taken for another answer.

**LLMSlots_proofs.** `TypeCorrect`, and `SlotsBounded` by `SlotInv`: a caller
that has counted and not yet added is reckoned with the leases.
`YoungLeasesHeld` holds under `KeyOutlives`, by `HeldInv`. A lease that no caller
is about to renew entered the key, or renewed it, when the key had at least
`LeastLife` before it (`LeaseOutlived`); a caller that has purged found such a
lease no older than `LeaseTime`, or the lease of a caller about to renew
(`PurgeFound`). So the key still lives when a young lease is in it, and each
lost caller lowers `LeastLife` once.

**Ingestion_proofs.** `TypeCorrect`, and `PendingAlwaysPursued` by
`PendingIsPursued` with the type invariant and `KeyInv`: a file that a document
shares is that of a document that exists, so that no later upload brings a file
back under a document nobody is working on. Every step either keeps the message
or task that pursues the document, hands it on (delivery, a lost worker), or
writes the document's status. `ReadyIsLast` by `AttemptInv`: as long as nothing
has been lost, failed or reprocessed, a document has one message or one task,
none before its upload, and once it is READY its task has only the last note of
progress and the clean-up before it.

**Access_proofs.** `TypeCorrect` needs `BoundInv`: an invite that a handler
remembers still exists and is for the person it serves. `RolesGranted` by
`RoleInv`: members are users of organisations that exist, and invites are to
such organisations, so that a founder comes to one that has nobody and cannot
overwrite a role. `AdminStays` by `AdminInv`: the only removal under way leaves
an administrator other than its target, who was the one that asked and cannot
leave in the meantime, as that would take a second removal. `InvitesAdmitOnce` by
`OnceInv`: an open invite has admitted nobody, and one that a single handler
has read waits for that handler. `OnlyRemovalsGoStale` by `PersonalInv`: a user
is a member of the personal organisation or was removed from it, through
sign-up, linking, the four ways to accept an invite, and removals.

**Approvals_proofs.** `DecisionsFinal` by `AloneInv`: a request that is not in
`raced` is held by one handler at most, and as that one has read it.

**Deadlines_proofs.** `MarkedWithinDay` by `DueInv`: a deadline that is marked
overdue, or held as overdue by a scan, has less than a day left, and time only
passes. `UrgencyRisesOnly` by `ScoreInv`: a deadline that two scans have not
read at once is read by one scanner only and still ACTIVE, and the score in that
scanner's hand is at most the present urgency and at least the row's score.
`ListInOrder` by `OrderInv`: the scores of one read are ordered among
themselves, and a scored deadline that the read left out is OVERDUE, above all
others.

**AuditLog_proofs.** `AuditLogRefines` is the refinement of `LossyLog`: `Emit`
is `Emit`, an insert that succeeds or fails and a crash settle a set of events,
everything else stutters. The invariant `IInv` is the type invariant with
`Ordered` (the batch is older than the queue), `Fits` (both within their sizes),
`Faulted` and `LostByOverflow`.

**Parts_proofs.** The small parts one after the other, each for its own
specification.

* `Sessions`: `ClosedForGood` and `KeysExpire`, from the types.
* `TokenKeys`: `RefusedInTime` by `KeysInv`. Its `StaleIsYoung` says that an old
  key in the cache was stored within a fetch's time of the rotation, and an old
  key in hand is no older than its fetch.
* `Reports`: `ReportsAreWhole` by `ReportsInv`: what a row says of other tables
  was written before it, and nothing is sent before the log is written or
  forgone (`WrittenBefore`); what a report has read as completed by a task had
  been sent, and the trail has no entry before its last SELECT but of workflows
  that are there (`ReadBefore`).
* `SearchIndex`: `IndexedStaysFound` and `CopiesAreOfInterpreters` by
  `IndexInv`: vectors that are as many as the texts are in their order, a point
  is a chunk under its own vector with an id no other has, and no chunk is
  missing of an indexed document whose name is its own.
* `Research`: `AnswersAreInScope` by `ScopeInv` on top of that: once they
  are read, a goal has the filenames of its documents.
* `DeadlineDates`: `DeadlinesComeDue` and `ConflictsAreFlagged` by `DatesInv`:
  an answer is collected with the date it names or that of the execution date at
  hand, and the rows are of all answers. That n business days on, n weekdays
  have passed (`PlusBusinessDaysCounts`) is an induction along the calendar, and
  that the day after a date has the next ordinal (`NextDayIsNext`) covers
  month-ends and leap years of the Gregorian rule.
* `Chunker`: `ChunksAreTheText` by `SectionInv`: the words of the chunks and of
  the text so far are the words given, in their order, and the text is within
  the limit or one word. `PathsAreTrue` by `OutlineInv`, which describes the
  path after any headings, true or not: `LetterAbove` is the letter that stays
  above the last heading, on which the reading of the next `(i)`, `(v)` or `(x)`
  depends. `PathIsTrue` alone is not inductive, since the path after a misread
  numeral leads on to later ones.

These computations are recursive, and the provers cannot instantiate an
induction rule. Each induction is therefore the argument from the least
counterexample, a number of a set (`LeastNumber`), and each recursive function
has its defining equation from its steps, proved to exist and to be unique
(`Recursion`, `SameSteps`).

The assumptions are the named ones of the modules: bounds are natural numbers,
`MaxRevisions`, `MaxSlots` and the times are positive, callers, clients and
organisations are finite sets, the "no value" constants are not values.

Only model-checked is what holds under fairness, which is out of this prover's
reach: `TransientStatusLeft`, `ConfirmedBriefLeavesGate`, `SlotsComeBack`,
`DecisionLeavesGate`, `LapseEscalates`, `PassedIsMarked`, `DocumentSettles` and
`AcceptedIsSettled`.

## 5. Not modelled

* Retrieval quality, prompts, parsing and OCR, document layout: their outcome is
  a choice in the models.
* `stale_task_sweeper` asks for status labels that the enum does not have; it
  raises on every run and changes nothing. `recover_stuck_workflows` only counts,
  `detect_knowledge_drift` only lists.
* The event loop of the worker. `worker.py` starts its thread at import, in the
  parent process, while `docker-compose.yml` and `Dockerfile.worker` run
  `--pool=prefork`: a child inherits the loop, which says that it is running, and
  not the thread. What is submitted to it (the extraction stages of
  `_process_document_core`) then waits for a time limit. The models
  are of a worker whose loop runs; `process_workflow`, with `asyncio.run`, does
  not depend on it.
* What a goal reads beside its searches: `graph_expansion_node` and the
  registries in `detect_node`.
* Coroutines that outlive a soft time limit in the ingestion worker, and the
  duplicate rows a retried document leaves in the registries.
* The document limit of a workspace, and uploads of the same file that race
  past the dedup check while a third becomes READY.
* Functions without callers: `search_hybrid_qdrant`, `read_tool`,
  `add_file_to_session` and its relatives, `notify_approval_needed`,
  `_init_audit_for_worker`, `close_audit_db`.
* Notifications, configuration, start-up, health, monitoring, integrations, the
  schema's migrations, the due-diligence prototype, the browser client, scripts.

## 6. What could follow

1. `HumanGates`, an abstract specification of the workflow (asked, answered,
   done), which `AgentWorkflow` implements for a patient lawyer.
2. `Ingestion`: coroutines of timed-out tasks, and the rows of a retried
   document.
3. `Approvals` composed with `AgentWorkflow`, once something inserts requests.
