--------------------------- MODULE AgentWorkflow ---------------------------
(* One goal and the workflow_executions row behind it: the API handlers that *)
(* answer the lawyer (routers/goals.py, routers/action_agent.py), the Celery  *)
(* task process_workflow (tasks.py) with the agent nodes it calls             *)
(* (services/agent/nodes.py), and the at-least-once queue between them.       *)
(*                                                                            *)
(* A worker step is one database commit of the task together with the reads   *)
(* and model calls that precede it.  A handler that reads, decides and        *)
(* commits later is two steps, so that other processes can run in between.    *)
EXTENDS Naturals, Sequences, FiniteSets

CONSTANTS
    Workers,       \* processes consuming the "default" queue
    Clients,       \* concurrent HTTP requests
    Actions,       \* identities for rows of the actions table
    NoAction,      \* no row
    MaxRevisions,  \* revision cycles before a reject escalates (3 in the code)
    MaxRecs,       \* bound: actions one brief recommends
    MaxRequests,   \* bound: requests after the goal was created
    MaxCrashes,    \* bound: worker processes lost while they hold a message
    MaxFaults,     \* bound: exceptions in a task, messages the broker refused,
                   \* requests whose API process dies
    Patient        \* TRUE: the lawyer answers only when nothing is in flight

ASSUME ConstantsAssumption ==
    /\ NoAction \notin Actions
    /\ MaxRevisions \in Nat \ {0}
    /\ MaxRecs \in Nat
    /\ MaxRequests \in Nat
    /\ MaxCrashes \in Nat
    /\ MaxFaults \in Nat
    /\ Patient \in BOOLEAN
    /\ IsFiniteSet(Clients)

VARIABLES
    goal,       \* goals.status, "NONE" before the row exists
    wfStatus,   \* workflow_executions.status, "NONE" before the row exists
    confirmed,  \* workflow_executions.intent_confirmed_by_human
    brief,      \* decision_brief_payload: how many actions it recommends
    resultRef,  \* result_ref, as the action whose DOCX it names
    actions,    \* the actions table: status, draft_payload, revision_count
    queue,      \* messages waiting in the broker
    worker,     \* one process_workflow invocation per worker
    client,     \* one HTTP request per client
    lastDraft,  \* number of draft texts written so far; names the next one
    approved,   \* history: draft texts a lawyer has approved
    exported,   \* history: draft text of the last export, 0 for none
    lost,       \* history: senders whose message never reached the broker, or
                \* "task", since wfStatus was last written
    requests, crashes, faults   \* used parts of the three budgets

row     == <<goal, wfStatus, lost, confirmed, brief, resultRef>>
history == <<approved, exported>>
budgets == <<requests, crashes, faults>>
vars    == <<row, actions, queue, worker, client, lastDraft, history, budgets>>

GoalStatus == {"NONE", "PENDING", "PROCESSING", "COMPLETED", "FAILED", "CANCELLED"}

WorkflowStatus ==
    {"NONE", "CLASSIFYING", "AWAITING_INTENT_CONFIRMATION", "RETRIEVING",
     "EXPANDING", "BRIEFING", "AWAITING_BRIEF_CONFIRMATION", "DRAFTING",
     "AWAITING_APPROVAL", "REVISING", "COMPLETED", "FAILED", "CANCELLED",
     "ESCALATED"}

ActionStatus == {"ABSENT", "CONFIRMED", "AWAITING_APPROVAL", "EXECUTED"}

Intents == {"ANALYZE", "REASON", "ACT", "OTHER"}

(* The handler that sent a message.  Only create_goal passes the documents    *)
(* of the session; the other messages carry the workflow id alone.            *)
Senders == {"create", "confirm", "approve", "reject"}

NoBrief == MaxRecs + 1

WorkerSteps ==
    {"idle", "load", "ack",
     "intent", "gate", "retrieve", "synthesis", "answer", "expand", "terms",
     "detect", "brief",
     "revise", "draft", "insert", "save", "pause",
     "pick", "export"}

ClientSteps ==
    {"idle", "classify", "session", "answer", "workflow", "dispatch",
     "abort", "edit", "resume", "reject", "cancel"}

IdleJob == [pc |-> "idle", msg |-> "create", intent |-> "OTHER",
            action |-> NoAction, draft |-> 0]

IdleRequest == [pc |-> "idle", msg |-> "create", intent |-> "OTHER",
                action |-> NoAction, draft |-> 0, escalate |-> FALSE]

NoRow == [status |-> "ABSENT", draft |-> 0, revs |-> 0]

(* What pg_insert(Action) writes: CONFIRMED, no payload, revision_count 0.    *)
NewAction == [status |-> "CONFIRMED", draft |-> 0, revs |-> 0]

Existing == {a \in Actions : actions[a].status # "ABSENT"}
Awaiting == {a \in Actions : actions[a].status = "AWAITING_APPROVAL"}

Quiescent ==
    /\ queue = <<>>
    /\ \A w \in Workers : worker[w].pc = "idle"
    /\ \A c \in Clients : client[c].pc = "idle"

Init ==
    /\ goal = "NONE"
    /\ wfStatus = "NONE"
    /\ confirmed = FALSE
    /\ brief = NoBrief
    /\ resultRef = NoAction
    /\ actions = [a \in Actions |-> NoRow]
    /\ queue = <<>>
    /\ worker = [w \in Workers |-> IdleJob]
    /\ client = [c \in Clients |-> IdleRequest]
    /\ lastDraft = 0
    /\ approved = {}
    /\ exported = 0
    /\ lost = {}
    /\ requests = 0
    /\ crashes = 0
    /\ faults = 0

-----------------------------------------------------------------------------
(* The queue and the task envelope.                                           *)

(* send_task reaches the broker, or is refused: the row is committed before   *)
(* and nobody sends the message again.                                        *)
Sent(m) ==
    /\ queue' = Append(queue, m)
    /\ UNCHANGED <<faults, lost>>

Refused(m) ==
    /\ faults < MaxFaults
    /\ faults' = faults + 1
    /\ lost' = lost \cup {m}
    /\ UNCHANGED queue

Send(m) == Sent(m) \/ Refused(m)

(* The broker hands the oldest message to a free worker, unacknowledged.      *)
Deliver(w) ==
    /\ worker[w].pc = "idle"
    /\ queue # <<>>
    /\ worker' = [worker EXCEPT ![w] = [IdleJob EXCEPT !.pc = "load",
                                                       !.msg = Head(queue)]]
    /\ queue' = Tail(queue)
    /\ UNCHANGED <<row, actions, client, lastDraft, history, budgets>>

Goto(w, pc) == worker' = [worker EXCEPT ![w].pc = pc]

(* Mutant: a workflow at the brief gate is taken for one still waiting.       *)
RouteBug(s) == IF s \in {"NONE", "AWAITING_BRIEF_CONFIRMATION"} THEN "ack"
               ELSE IF s = "AWAITING_APPROVAL" THEN "pick"
               ELSE IF s = "REVISING" THEN "revise" ELSE "intent"

(* The first step of the task, by the status of the row alone.                *)
Route(s) ==
    CASE s = "NONE" -> "ack"
      [] s = "AWAITING_BRIEF_CONFIRMATION" -> "draft"
      [] s = "AWAITING_APPROVAL" -> "pick"
      [] s = "REVISING" -> "revise"
      [] OTHER -> "intent"

(* process_workflow reads the row once.                                       *)
Load(w) ==
    /\ worker[w].pc = "load"
    /\ Goto(w, Route(wfStatus))
    /\ UNCHANGED <<row, actions, queue, client, lastDraft, history, budgets>>

(* Mutant: the broker delivers an acknowledged message again.                 *)
AckBug(w) ==
    /\ worker[w].pc = "ack"
    /\ worker' = [worker EXCEPT ![w] = IdleJob]
    /\ queue' = Append(queue, worker[w].msg)
    /\ UNCHANGED <<row, actions, client, lastDraft, history, budgets>>

(* acks_late: the message is acknowledged after the task has returned.        *)
Ack(w) ==
    /\ worker[w].pc = "ack"
    /\ worker' = [worker EXCEPT ![w] = IdleJob]
    /\ UNCHANGED <<row, actions, queue, client, lastDraft, history, budgets>>

(* Mutant: the message was acknowledged when it was received.                 *)
WorkerLostBug(w) ==
    /\ worker[w].pc # "idle"
    /\ crashes < MaxCrashes
    /\ crashes' = crashes + 1
    /\ worker' = [worker EXCEPT ![w] = IdleJob]
    /\ UNCHANGED <<row, actions, queue, client, lastDraft, history, requests, faults>>

(* The process dies or loses its connection: task_reject_on_worker_lost, or   *)
(* the broker itself, puts the message back in front of the others.           *)
WorkerLost(w) ==
    /\ worker[w].pc # "idle"
    /\ crashes < MaxCrashes
    /\ crashes' = crashes + 1
    /\ queue' = <<worker[w].msg>> \o queue
    /\ worker' = [worker EXCEPT ![w] = IdleJob]
    /\ UNCHANGED <<row, actions, client, lastDraft, history, requests, faults>>

(* An exception escapes a node: _safe_run writes FAILED, or fails to.  The    *)
(* second case is also the hard time limit, which acknowledges the message.   *)
TaskError(w) ==
    /\ worker[w].pc \notin {"idle", "ack"}
    /\ faults < MaxFaults
    /\ faults' = faults + 1
    /\ \/ wfStatus' = "FAILED" /\ lost' = {}
       \/ lost' = lost \cup {"task"} /\ UNCHANGED wfStatus
    /\ Goto(w, "ack")
    /\ UNCHANGED <<goal, confirmed, brief, resultRef, actions, queue, client,
                   lastDraft, history, requests, crashes>>

(* A step of the task that commits status s and moves on to step pc.          *)
SetStatus(w, s, pc) ==
    /\ wfStatus' = s
    /\ lost' = {}
    /\ Goto(w, pc)
    /\ UNCHANGED <<goal, confirmed, brief, resultRef, actions, queue, client,
                   lastDraft, history, budgets>>

-----------------------------------------------------------------------------
(* The nodes every fresh workflow passes.                                     *)

(* intent_node: CLASSIFYING, then the model answers with an intent and a      *)
(* confidence; below 0.80 the task goes to the ambiguity gate, since it       *)
(* starts from intent_confirmed_by_human = False whatever the row says.       *)
Classify(w) ==
    /\ worker[w].pc = "intent"
    /\ wfStatus' = "CLASSIFYING"
    /\ lost' = {}
    /\ \E i \in Intents :
         \E pc \in {"gate", IF i = "OTHER" THEN "ack" ELSE "retrieve"} :
           worker' = [worker EXCEPT ![w].intent = i, ![w].pc = pc]
    /\ UNCHANGED <<goal, confirmed, brief, resultRef, actions, queue, client,
                   lastDraft, history, budgets>>

(* ambiguity_gate_node: the task ends, waiting for the lawyer.                *)
AmbiguityGate(w) ==
    /\ worker[w].pc = "gate"
    /\ SetStatus(w, "AWAITING_INTENT_CONFIRMATION", "ack")

(* retrieval_node and the branch on its outcome.  Fewer than three relevant   *)
(* chunks abort ANALYZE and REASON; ACT goes on.                              *)
Retrieve(w) ==
    /\ worker[w].pc = "retrieve"
    /\ \/ /\ worker[w].intent = "ACT"
          /\ SetStatus(w, "RETRIEVING", "detect")
       \/ /\ worker[w].intent = "ANALYZE"
          /\ \E pc \in {"synthesis", "ack"} : SetStatus(w, "RETRIEVING", pc)
       \/ /\ worker[w].intent = "REASON"
          /\ \E pc \in {"expand", "ack"} : SetStatus(w, "RETRIEVING", pc)

(* synthesis_node: DRAFTING while the model answers, then COMPLETED.          *)
Synthesize(w) ==
    /\ worker[w].pc = "synthesis"
    /\ SetStatus(w, "DRAFTING", "answer")

Answer(w) ==
    /\ worker[w].pc = "answer"
    /\ SetStatus(w, "COMPLETED", "ack")

(* graph_expansion_node.                                                      *)
Expand(w) ==
    /\ worker[w].pc = "expand"
    /\ SetStatus(w, "EXPANDING", "terms")

(* defined_terms_node returns WorkflowStatus.PROCESSING, which the enum does  *)
(* not have, on every path: AttributeError, caught by _safe_run, FAILED.      *)
DefinedTerms(w) ==
    /\ worker[w].pc = "terms"
    /\ SetStatus(w, "FAILED", "ack")

(* detect_node.                                                               *)
Detect(w) ==
    /\ worker[w].pc = "detect"
    /\ SetStatus(w, "BRIEFING", "brief")

(* Mutant: the pause is committed without the payload.                        *)
WriteBriefBug(w) ==
    /\ worker[w].pc = "brief"
    /\ SetStatus(w, "AWAITING_BRIEF_CONFIRMATION", "ack")

(* decision_brief_node: the brief and the pause are one commit.  A brief the  *)
(* model could not produce recommends no action.                              *)
WriteBrief(w) ==
    /\ worker[w].pc = "brief"
    /\ brief' \in 0..MaxRecs
    /\ wfStatus' = "AWAITING_BRIEF_CONFIRMATION"
    /\ lost' = {}
    /\ Goto(w, "ack")
    /\ UNCHANGED <<goal, confirmed, resultRef, actions, queue, client,
                   lastDraft, history, budgets>>

-----------------------------------------------------------------------------
(* draft_node and export_node.                                                *)

(* process_workflow writes DRAFTING for a revision; draft_node writes it too. *)
Revise(w) ==
    /\ worker[w].pc = "revise"
    /\ SetStatus(w, "DRAFTING", "draft")

DraftStart(w) ==
    /\ worker[w].pc = "draft"
    /\ SetStatus(w, "DRAFTING", "insert")

(* Without a brief the draft fails.  With one, a CONFIRMED row is inserted    *)
(* for every recommended action, under fresh ids on every run.                *)
InsertActions(w) ==
    /\ worker[w].pc = "insert"
    /\ \/ /\ brief = NoBrief
          /\ SetStatus(w, "FAILED", "ack")
       \/ /\ brief # NoBrief
          /\ \E new \in SUBSET (Actions \ Existing) :
               /\ Cardinality(new) = brief
               /\ actions' = [a \in Actions |->
                                 IF a \in new THEN NewAction ELSE actions[a]]
          /\ Goto(w, "save")
          /\ UNCHANGED <<row, queue, client, lastDraft, history, budgets>>

(* Mutant: the payload is written, the row's status forgotten.                *)
DraftedBug(a) == [actions[a] EXCEPT !.draft = lastDraft + 1]

Drafted(a) == [status |-> "AWAITING_APPROVAL", draft |-> lastDraft + 1,
               revs |-> actions[a].revs]

(* The model writes the draft, or gives up.  The text goes to the first row   *)
(* by task_order, which is 0 in all of them: any row.  With no row the text   *)
(* is dropped.                                                                *)
SaveDraft(w) ==
    /\ worker[w].pc = "save"
    /\ \/ SetStatus(w, "FAILED", "ack")
       \/ /\ \/ \E a \in Existing :
                  /\ actions' = [actions EXCEPT ![a] = Drafted(a)]
                  /\ lastDraft' = lastDraft + 1
             \/ /\ Existing = {}
                /\ UNCHANGED <<actions, lastDraft>>
          /\ Goto(w, "pause")
          /\ UNCHANGED <<row, queue, client, history, budgets>>

(* The pause for approval is a commit of its own.                             *)
PauseForApproval(w) ==
    /\ worker[w].pc = "pause"
    /\ SetStatus(w, "AWAITING_APPROVAL", "ack")

(* A task that holds row a and the text it read from it.                      *)
Holding(w, a) ==
    [pc |-> IF actions[a].draft = 0 THEN "ack" ELSE "export",
     msg |-> worker[w].msg, intent |-> worker[w].intent,
     action |-> a, draft |-> actions[a].draft]

(* export_node reads the first AWAITING_APPROVAL row with a payload; without  *)
(* one it returns and leaves the workflow where it is.                        *)
PickApproved(w) ==
    /\ worker[w].pc = "pick"
    /\ \/ \E a \in Awaiting : worker' = [worker EXCEPT ![w] = Holding(w, a)]
       \/ /\ Awaiting = {}
          /\ Goto(w, "ack")
    /\ UNCHANGED <<row, actions, queue, client, lastDraft, history, budgets>>

(* DOCX and upload, then EXECUTED, COMPLETED and result_ref in one commit     *)
(* that looks at nothing; a failed build or upload writes nothing.            *)
Export(w) ==
    /\ worker[w].pc = "export"
    /\ \/ /\ Goto(w, "ack")
          /\ UNCHANGED <<row, actions, exported>>
       \/ /\ actions' = [actions EXCEPT ![worker[w].action].status = "EXECUTED"]
          /\ wfStatus' = "COMPLETED"
          /\ lost' = {}
          /\ resultRef' = worker[w].action
          /\ exported' = worker[w].draft
          /\ Goto(w, "ack")
          /\ UNCHANGED <<goal, confirmed, brief>>
    /\ UNCHANGED <<queue, client, lastDraft, approved, budgets>>

Task(w) ==
    \/ Load(w) \/ Ack(w)
    \/ Classify(w) \/ AmbiguityGate(w) \/ Retrieve(w)
    \/ Synthesize(w) \/ Answer(w)
    \/ Expand(w) \/ DefinedTerms(w)
    \/ Detect(w) \/ WriteBrief(w)
    \/ Revise(w) \/ DraftStart(w) \/ InsertActions(w) \/ SaveDraft(w)
    \/ PauseForApproval(w)
    \/ PickApproved(w) \/ Export(w)

-----------------------------------------------------------------------------
(* POST /goals.  The request goes through its steps alone; the row is visible *)
(* to others (the goal list) from the first commit on.                        *)

Request(c, pc) == client' = [client EXCEPT ![c].pc = pc]

CreateGoal(c) ==
    /\ client[c].pc = "idle"
    /\ goal = "NONE"
    /\ goal' = "PENDING"
    /\ Request(c, "classify")
    /\ UNCHANGED <<wfStatus, lost, confirmed, brief, resultRef, actions, queue,
                   worker, lastDraft, history, budgets>>

(* An answer outside the enum raises before the commit and leaves PENDING.    *)
ClassifyGoal(c) ==
    /\ client[c].pc = "classify"
    /\ \/ /\ client' = [client EXCEPT ![c] = IdleRequest]
          /\ UNCHANGED goal
       \/ /\ goal' = "PROCESSING"
          /\ \E i \in Intents \ {"OTHER"} :
               client' = [client EXCEPT ![c].pc = "session", ![c].intent = i]
    /\ UNCHANGED <<wfStatus, lost, confirmed, brief, resultRef, actions, queue,
                   worker, lastDraft, history, budgets>>

(* No session id: FAILED and 400.  Session gone: 404, goal left PROCESSING.   *)
CheckSession(c) ==
    /\ client[c].pc = "session"
    /\ \/ /\ goal' = "FAILED"
          /\ client' = [client EXCEPT ![c] = IdleRequest]
       \/ /\ UNCHANGED goal
          /\ client' = [client EXCEPT ![c] = IdleRequest]
       \/ /\ UNCHANGED goal
          /\ Request(c, IF client[c].intent = "ANALYZE" THEN "answer"
                                                        ELSE "workflow")
    /\ UNCHANGED <<wfStatus, lost, confirmed, brief, resultRef, actions, queue,
                   worker, lastDraft, history, budgets>>

(* The synchronous ANALYZE path.                                              *)
AnswerGoal(c) ==
    /\ client[c].pc = "answer"
    /\ goal' \in {"COMPLETED", "FAILED"}
    /\ client' = [client EXCEPT ![c] = IdleRequest]
    /\ UNCHANGED <<wfStatus, lost, confirmed, brief, resultRef, actions, queue,
                   worker, lastDraft, history, budgets>>

(* A handler that has committed and has its message still to send.            *)
Committed(c, m) ==
    client' = [client EXCEPT ![c] = [IdleRequest EXCEPT !.pc = "dispatch",
                                                        !.msg = m]]

CreateWorkflow(c) ==
    /\ client[c].pc = "workflow"
    /\ wfStatus' = "CLASSIFYING"
    /\ lost' = {}
    /\ Committed(c, "create")
    /\ UNCHANGED <<goal, confirmed, brief, resultRef, actions, queue, worker,
                   lastDraft, history, budgets>>

(* send_task after the commit.  Its failure is logged by create_goal, and is  *)
(* a 500 from the others: the commit stays either way.                        *)
Dispatch(c) ==
    /\ client[c].pc = "dispatch"
    /\ client' = [client EXCEPT ![c] = IdleRequest]
    /\ Send(client[c].msg)
    /\ UNCHANGED <<goal, wfStatus, confirmed, brief, resultRef, actions, worker,
                   lastDraft, history, requests, crashes>>

(* The API process dies with a request in it: what is committed stays, what   *)
(* is to be committed or sent next is not.                                    *)
RequestLost(c) ==
    /\ client[c].pc # "idle"
    /\ faults < MaxFaults
    /\ faults' = faults + 1
    /\ lost' = IF client[c].pc = "dispatch" THEN lost \cup {client[c].msg}
                                           ELSE lost
    /\ client' = [client EXCEPT ![c] = IdleRequest]
    /\ UNCHANGED <<goal, wfStatus, confirmed, brief, resultRef, actions, queue,
                   worker, lastDraft, history, requests, crashes>>

-----------------------------------------------------------------------------
(* Requests about an existing goal or workflow.                               *)

NewRequest(c) ==
    /\ client[c].pc = "idle"
    /\ requests < MaxRequests
    /\ requests' = requests + 1

(* A lawyer's answer at a gate.  A patient lawyer waits for the last answer   *)
(* to be worked off before giving the next.                                   *)
LawyerAnswers(c) ==
    /\ NewRequest(c)
    /\ Patient => Quiescent

(* confirm_intent: no look at the status, and nothing is dispatched.          *)
ConfirmIntent(c) ==
    /\ NewRequest(c)
    /\ goal # "NONE"
    /\ confirmed' = (confirmed \/ wfStatus # "NONE")
    /\ UNCHANGED <<goal, wfStatus, lost, brief, resultRef, actions, queue,
                   worker, client, lastDraft, history, crashes, faults>>

(* confirm_brief, proceed: the status stays, the task will see it.  Nothing   *)
(* is committed between the check and the message, so they are one step.      *)
ConfirmBrief(c) ==
    /\ LawyerAnswers(c)
    /\ wfStatus = "AWAITING_BRIEF_CONFIRMATION"
    /\ Send("confirm")
    /\ UNCHANGED <<goal, wfStatus, confirmed, brief, resultRef, actions, worker,
                   client, lastDraft, history, crashes>>

(* confirm_brief, abort: the check, then an unconditional write.              *)
AbortBrief(c) ==
    /\ LawyerAnswers(c)
    /\ wfStatus = "AWAITING_BRIEF_CONFIRMATION"
    /\ Request(c, "abort")
    /\ UNCHANGED <<row, actions, queue, worker, lastDraft, history, crashes,
                   faults>>

AbortCommit(c) ==
    /\ client[c].pc = "abort"
    /\ wfStatus' = "CANCELLED"
    /\ lost' = {}
    /\ client' = [client EXCEPT ![c] = IdleRequest]
    /\ UNCHANGED <<goal, confirmed, brief, resultRef, actions, queue, worker,
                   lastDraft, history, budgets>>

(* approve_workflow without edits: the status stays AWAITING_APPROVAL.  The   *)
(* lawyer approves the texts that are on display.                             *)
Approve(c) ==
    /\ LawyerAnswers(c)
    /\ wfStatus = "AWAITING_APPROVAL"
    /\ approved' = approved \cup {actions[a].draft : a \in Awaiting}
    /\ Send("approve")
    /\ UNCHANGED <<goal, wfStatus, confirmed, brief, resultRef, actions, worker,
                   client, lastDraft, exported, crashes>>

(* approve_workflow with edits: reads the first AWAITING_APPROVAL row, then   *)
(* commits the edited text to it; the message follows.                        *)
ApproveEdit(c) ==
    /\ LawyerAnswers(c)
    /\ wfStatus = "AWAITING_APPROVAL"
    /\ \E a \in Awaiting :
         client' = [client EXCEPT ![c].pc = "edit", ![c].action = a]
    /\ UNCHANGED <<row, actions, queue, worker, lastDraft, history, crashes,
                   faults>>

EditCommit(c) ==
    /\ client[c].pc = "edit"
    /\ actions' = [actions EXCEPT ![client[c].action].draft = lastDraft + 1]
    /\ lastDraft' = lastDraft + 1
    /\ approved' = approved \cup {lastDraft + 1}
    /\ Committed(c, "approve")
    /\ UNCHANGED <<row, queue, worker, exported, budgets>>

(* confirm_plan without a token sends the same message; the goal becomes      *)
(* PROCESSING afterwards, in a commit of its own, if the broker took it.      *)
ConfirmPlan(c) ==
    /\ LawyerAnswers(c)
    /\ wfStatus = "AWAITING_APPROVAL"
    /\ approved' = approved \cup {actions[a].draft : a \in Awaiting}
    /\ \/ Sent("approve") /\ Request(c, "resume")
       \/ Refused("approve") /\ UNCHANGED client
    /\ UNCHANGED <<goal, wfStatus, confirmed, brief, resultRef, actions, worker,
                   lastDraft, exported, crashes>>

ResumeGoal(c) ==
    /\ client[c].pc = "resume"
    /\ goal' = "PROCESSING"
    /\ client' = [client EXCEPT ![c] = IdleRequest]
    /\ UNCHANGED <<wfStatus, lost, confirmed, brief, resultRef, actions, queue,
                   worker, lastDraft, history, budgets>>

(* Mutant: one cycle too many.                                                *)
RevisionCappedBug == \E a \in Existing : actions[a].revs > MaxRevisions

RevisionCapped == \E a \in Existing : actions[a].revs >= MaxRevisions

(* reject_workflow, first half: no look at the status; the highest            *)
(* revision_count decides, the primary row's payload is read to be written    *)
(* back with the reason added.                                                *)
Reject(c) ==
    /\ LawyerAnswers(c)
    /\ wfStatus # "NONE"
    /\ \E a \in IF Existing = {} THEN {NoAction} ELSE Existing :
         client' = [client EXCEPT ![c] =
           [IdleRequest EXCEPT
              !.pc = "reject",
              !.action = a,
              !.draft = IF a = NoAction THEN 0 ELSE actions[a].draft,
              !.escalate = RevisionCapped]]
    /\ UNCHANGED <<row, actions, queue, worker, lastDraft, history, crashes,
                   faults>>

(* The row after a rejection whose first half read text d of row a.           *)
Rejected(x, a, d) ==
    [status |-> actions[x].status,
     draft |-> IF x = a /\ d # 0 THEN d ELSE actions[x].draft,
     revs |-> actions[x].revs + 1]

(* Second half: ESCALATED, or REVISING with every revision_count one higher   *)
(* and the payload written back; the message is sent after that commit.       *)
RejectCommit(c) ==
    /\ client[c].pc = "reject"
    /\ \/ /\ client[c].escalate
          /\ wfStatus' = "ESCALATED"
          /\ client' = [client EXCEPT ![c] = IdleRequest]
          /\ UNCHANGED actions
       \/ /\ ~client[c].escalate
          /\ wfStatus' = "REVISING"
          /\ actions' = [x \in Actions |->
                IF x \in Existing
                THEN Rejected(x, client[c].action, client[c].draft)
                ELSE actions[x]]
          /\ Committed(c, "reject")
    /\ lost' = {}
    /\ UNCHANGED <<goal, confirmed, brief, resultRef, queue, worker, lastDraft,
                   history, budgets>>

(* cancel_goal: two commits, the goal first, then the workflow if it is not   *)
(* already over.                                                              *)
CancelGoal(c) ==
    /\ NewRequest(c)
    /\ goal \notin {"NONE", "COMPLETED", "CANCELLED"}
    /\ goal' = "CANCELLED"
    /\ Request(c, "cancel")
    /\ UNCHANGED <<wfStatus, lost, confirmed, brief, resultRef, actions, queue,
                   worker, lastDraft, history, crashes, faults>>

CancelWorkflow(c) ==
    /\ client[c].pc = "cancel"
    /\ IF wfStatus \in {"NONE", "COMPLETED", "CANCELLED", "FAILED"}
       THEN UNCHANGED <<wfStatus, lost>>
       ELSE wfStatus' = "CANCELLED" /\ lost' = {}
    /\ client' = [client EXCEPT ![c] = IdleRequest]
    /\ UNCHANGED <<goal, confirmed, brief, resultRef, actions, queue, worker,
                   lastDraft, history, budgets>>

(* cron expire-stale-ambiguity, ten minutes after the workflow was created.   *)
ExpireAmbiguity ==
    /\ wfStatus = "AWAITING_INTENT_CONFIRMATION"
    /\ wfStatus' = "CANCELLED"
    /\ lost' = {}
    /\ UNCHANGED <<goal, confirmed, brief, resultRef, actions, queue, worker,
                   client, lastDraft, history, budgets>>

(* The later steps of a request run by themselves once it has started.        *)
Handler(c) ==
    \/ ClassifyGoal(c) \/ CheckSession(c) \/ AnswerGoal(c)
    \/ CreateWorkflow(c) \/ Dispatch(c)
    \/ AbortCommit(c) \/ EditCommit(c) \/ ResumeGoal(c) \/ RejectCommit(c)
    \/ CancelWorkflow(c)

NewCall(c) ==
    \/ CreateGoal(c) \/ ConfirmIntent(c)
    \/ ConfirmBrief(c) \/ AbortBrief(c)
    \/ Approve(c) \/ ApproveEdit(c) \/ ConfirmPlan(c)
    \/ Reject(c) \/ CancelGoal(c)

Next ==
    \/ \E w \in Workers : Deliver(w) \/ Task(w) \/ TaskError(w) \/ WorkerLost(w)
    \/ \E c \in Clients : NewCall(c) \/ Handler(c) \/ RequestLost(c)
    \/ ExpireAmbiguity

Spec == Init /\ [][Next]_vars

(* Celery keeps consuming and a started task or request keeps running; nobody *)
(* is obliged to send a request, and faults need not happen.                  *)
Fairness ==
    /\ \A w \in Workers : WF_vars(Deliver(w) \/ Task(w))
    /\ \A c \in Clients : WF_vars(Handler(c))

FairSpec == Spec /\ Fairness

-----------------------------------------------------------------------------
(* Properties.                                                                *)

ActionRows == [status : ActionStatus, draft : Nat, revs : Nat]

Jobs == [pc : WorkerSteps, msg : Senders, intent : Intents,
         action : Actions \cup {NoAction}, draft : Nat]

Calls == [pc : ClientSteps, msg : Senders, intent : Intents,
          action : Actions \cup {NoAction}, draft : Nat, escalate : BOOLEAN]

(* Every variable has its type.                                               *)
TypeOK ==
    /\ goal \in GoalStatus
    /\ wfStatus \in WorkflowStatus
    /\ confirmed \in BOOLEAN
    /\ brief \in 0..NoBrief
    /\ resultRef \in Actions \cup {NoAction}
    /\ actions \in [Actions -> ActionRows]
    /\ queue \in Seq(Senders)
    /\ worker \in [Workers -> Jobs]
    /\ client \in [Clients -> Calls]
    /\ lastDraft \in Nat
    /\ approved \subseteq Nat
    /\ exported \in Nat
    /\ lost \subseteq Senders \cup {"task"}
    /\ requests \in Nat /\ crashes \in Nat /\ faults \in Nat

(* What a status or a reference promises is in the tables, whatever crashes,  *)
(* redeliveries and racing requests came before: a workflow waiting at either *)
(* gate has its brief, action rows exist only behind a brief, a row that is   *)
(* waiting for approval or executed carries a draft, and result_ref names a   *)
(* row with a draft.                                                          *)
ArtefactsExist ==
    /\ wfStatus \in {"AWAITING_BRIEF_CONFIRMATION", "AWAITING_APPROVAL"}
         => brief # NoBrief
    /\ \A a \in Actions :
         /\ actions[a].status # "ABSENT" => brief # NoBrief
         /\ actions[a].status \in {"AWAITING_APPROVAL", "EXECUTED"}
              => actions[a].draft # 0
    /\ resultRef # NoAction => actions[resultRef].draft # 0

(* The revision limit is checked on a value read before the increment is      *)
(* committed: n rejects that overlap exceed it, but never by more than n - 1. *)
RevisionBound ==
    \A a \in Actions :
       actions[a].revs <= MaxRevisions - 1 + Cardinality(Clients)

(* A workflow paused for approval has a row the export will find, as long as  *)
(* the brief recommended anything: the row's commit and the pause are two     *)
(* transactions, with requests and redelivered messages around them.  So it   *)
(* is with one worker process, as docker-compose.yml runs it; of two, one can *)
(* export the draft between the other's commit and its pause.                 *)
ApprovalPauseHasDraft ==
    wfStatus = "AWAITING_APPROVAL" /\ Existing # {} => Awaiting # {}

DraftSteps  == {"revise", "draft", "insert", "save", "pause"}
ExportSteps == {"pick", "export"}

(* The task decides by the status it reads, not by who sent the message.      *)
(* When the lawyer answers one question at a time the two agree: a draft is   *)
(* written only for a confirmed brief or a rejected draft, an export runs     *)
(* only for an approval.                                                      *)
RouteMatchesAnswer ==
    \A w \in Workers :
       /\ worker[w].pc \in DraftSteps => worker[w].msg \in {"confirm", "reject"}
       /\ worker[w].pc \in ExportSteps => worker[w].msg = "approve"

(* No document is exported before a lawyer has approved anything.             *)
ExportFollowsApproval == exported # 0 => approved # {}

Writing ==
    {"load", "intent", "gate", "retrieve", "synthesis", "answer", "expand",
     "terms", "detect", "brief", "revise", "draft", "insert", "save", "pause"}

InProgress == {"EXPANDING", "BRIEFING", "DRAFTING", "REVISING"}

(* Whose loss leaves nobody to write the status that follows s: the task that *)
(* wrote it, or the message that reject_workflow sends after its commit.      *)
Stranded(s) ==
    lost \cap (IF s = "REVISING" THEN {"reject", "task"} ELSE {"task"}) # {}

(* Work in progress is never stranded: behind a status that says "the system  *)
(* is working" there is a message, a task that will write the next one, or    *)
(* the reject that is about to send its message.  So it is through crashes of *)
(* workers, racing requests, refused messages and dying API processes, unless *)
(* it is the very task or reject behind this status that was lost: an         *)
(* approval lost meanwhile, or a fault under an earlier status, is no excuse. *)
WorkNotStranded ==
    wfStatus \in InProgress =>
      \/ queue # <<>>
      \/ \E w \in Workers : worker[w].pc \in Writing
      \/ /\ wfStatus = "REVISING"
         /\ \E c \in Clients : client[c].pc = "dispatch" /\ client[c].msg = "reject"
      \/ Stranded(wfStatus)

(* The next three are promised and not kept: Patient is enough to break them, *)
(* with a revision, a redelivered message and a cancellation (see README.md). *)

(* No document leaves the system unless a lawyer has approved its text.       *)
ExportWasApproved == exported # 0 => exported \in approved

(* A task retrieves only from the documents the lawyer selected: the session  *)
(* is validated for all intents, and only the first message carries it.       *)
RetrievalInSession ==
    \A w \in Workers : worker[w].pc = "retrieve" => worker[w].msg = "create"

(* A cancelled workflow stays cancelled.                                      *)
CancelIsFinal == [][wfStatus = "CANCELLED" => wfStatus' = "CANCELLED"]_vars

(* No transient status is a resting place, even when the worker is lost in    *)
(* it: the message comes back and the task moves on, unless the task or the   *)
(* reject behind the status is lost for good.  RETRIEVING is missing here: an *)
(* aborted retrieval ends the task and leaves that status for ever.           *)
TransientStatusLeft ==
    \A s \in InProgress : wfStatus = s ~> wfStatus # s \/ Stranded(s)

(* A confirmed brief is acted on although the worker may die: as long as a    *)
(* message is waiting, the workflow leaves the gate, or a task failed there.  *)
ConfirmedBriefLeavesGate ==
    wfStatus = "AWAITING_BRIEF_CONFIRMATION" /\ queue # <<>>
       ~> wfStatus # "AWAITING_BRIEF_CONFIRMATION" \/ "task" \in lost

-----------------------------------------------------------------------------
(* Strengthenings of the invariants that the steps of the program preserve.   *)

(* ArtefactsExist, with what a task or a request holds in hand.               *)
ArtefactsInv ==
    /\ ArtefactsExist
    /\ \A a \in Actions :
         actions[a].status = "ABSENT" => actions[a].draft = 0
    /\ \A w \in Workers :
         /\ worker[w].pc \in {"save", "pause"} => brief # NoBrief
         /\ worker[w].pc = "export" =>
              /\ worker[w].action \in Actions
              /\ actions[worker[w].action].draft # 0
    /\ \A c \in Clients :
         client[c].pc = "edit" =>
           /\ client[c].action \in Actions
           /\ actions[client[c].action].status # "ABSENT"

(* RevisionBound, counting the rejects that have decided to increment and     *)
(* have not committed: a row can still grow by one for each of them.          *)
Rejecting == {c \in Clients : client[c].pc = "reject" /\ ~client[c].escalate}

RevisionInv ==
    \A a \in Actions :
       /\ actions[a].status = "ABSENT" => actions[a].revs = 0
       /\ actions[a].revs + Cardinality(Rejecting)
            <= MaxRevisions - 1 + Cardinality(Clients)

(* For a patient lawyer: one thing at a time is in flight, be it a message, a *)
(* task or a request (Aside apart), and while a message waits or is          *)
(* being read the status is the one it was sent for, or CANCELLED.            *)
Expected(m) ==
    CASE m = "create"  -> {"CLASSIFYING", "CANCELLED"}
      [] m = "confirm" -> {"AWAITING_BRIEF_CONFIRMATION", "CANCELLED"}
      [] m = "approve" -> {"AWAITING_APPROVAL", "CANCELLED"}
      [] m = "reject"  -> {"REVISING", "CANCELLED"}

(* Steps of a request after which its workflow hears no more of it.           *)
Aside     == {"idle", "cancel", "resume"}

NoTask    == \A w \in Workers : worker[w].pc = "idle"
NoRequest == \A c \in Clients : client[c].pc \in Aside

OneInFlight ==
    /\ goal = "NONE" => /\ wfStatus = "NONE" /\ queue = <<>> /\ NoTask
                        /\ \A c \in Clients : client[c].pc = "idle"
    /\ queue # <<>> => Len(queue) = 1 /\ NoTask /\ NoRequest
    /\ ~NoTask => NoRequest
    /\ \A v, w \in Workers :
         worker[v].pc # "idle" /\ worker[w].pc # "idle" => v = w
    /\ \A b, c \in Clients :
         /\ client[b].pc \notin Aside
         /\ client[c].pc \notin Aside
         => b = c

RouteInv ==
    /\ OneInFlight
    /\ wfStatus = "NONE" => queue = <<>> /\ NoTask
    /\ \A c \in Clients :
         /\ client[c].pc \in {"classify", "session", "answer", "workflow"}
              => wfStatus = "NONE"
         /\ client[c].pc = "dispatch" => wfStatus \in Expected(client[c].msg)
         /\ client[c].pc = "edit" => wfStatus \in Expected("approve")
    /\ queue # <<>> => wfStatus \in Expected(Head(queue))
    /\ \A w \in Workers :
         worker[w].pc = "load" => wfStatus \in Expected(worker[w].msg)
    /\ RouteMatchesAnswer


(* With one worker: from the commit of the draft to the pause, and for as     *)
(* long as it lasts, there is a row to export, if there is any row.  No row   *)
(* is inserted or drafted while the workflow is paused for approval.          *)
HasDraft == Existing # {} => Awaiting # {}

PauseInv ==
    /\ wfStatus = "AWAITING_APPROVAL" => HasDraft
    /\ \A w \in Workers :
         /\ worker[w].pc = "pause" => HasDraft
         /\ worker[w].pc \in {"insert", "save"} => wfStatus # "AWAITING_APPROVAL"

(* For a patient lawyer: an approval that found a row to approve is on record *)
(* while its message waits and its task runs, and nobody drafts meanwhile, so *)
(* a row the task picks is one the approval found.                            *)
Approvable == approved # {} \/ Awaiting = {}

ApprovalInv ==
    /\ ExportFollowsApproval
    /\ queue # <<>> /\ Head(queue) = "approve" => Approvable
    /\ \A w \in Workers :
         /\ worker[w].pc # "idle" /\ worker[w].msg = "approve" => Approvable
         /\ worker[w].pc = "export" => approved # {}
    /\ \A c \in Clients :
         client[c].pc = "dispatch" /\ client[c].msg = "approve" => approved # {}

=============================================================================
