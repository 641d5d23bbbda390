----------------------------- MODULE Approvals -----------------------------
(* Delegated approval by token: the approval_requests of one workflow, the    *)
(* handlers that decide and reissue them (routers/approvals.py), the cron job *)
(* that expires them (routers/cron.py) and the admin who resolves the         *)
(* workflow (routers/escalations.py).                                         *)
(*                                                                            *)
(* The handlers lock nothing: what one has read may have changed when it      *)
(* commits, so that every handler is a step that reads and steps that commit. *)
(* Nothing under src/ inserts an approval request, and the agent behind the   *)
(* workflow is AgentWorkflow's business: both are here as their users see     *)
(* them.                                                                      *)
EXTENDS Naturals, FiniteSets

CONSTANTS
    Clients,       \* concurrent HTTP requests
    MaxIssued,     \* bound: approval requests of the workflow
    MaxRevisions,  \* revision cycles before a rejection escalates (3 in the code)
    MaxReissues,   \* bound: reissued tokens
    MaxFaults      \* bound: lost handlers, failed exports

ASSUME ApprovalsAssumption ==
    /\ IsFiniteSet(Clients)
    /\ MaxIssued \in Nat
    /\ MaxRevisions \in Nat \ {0}
    /\ MaxReissues \in Nat
    /\ MaxFaults \in Nat

VARIABLES
    wf,        \* workflow_executions.status
    revs,      \* revision_count, the highest over the workflow's actions
    request,   \* request[r], in the order of created_at: status, expiry
    messages,  \* process_workflow messages waiting in the broker
    client,    \* one handler per client
    reissues, faults,   \* used parts of the budgets
    raced      \* history: requests two handlers had read before one committed

budgets == <<reissues, faults>>
vars == <<wf, revs, request, messages, client, budgets, raced>>

Requests == 1..MaxIssued

(* RUNNING stands for every status in which the agent is at work.             *)
WorkflowStatus ==
    {"RUNNING", "AWAITING_APPROVAL", "REVISING", "ESCALATED", "COMPLETED"}

ApprovalStatus == {"ABSENT", "PENDING", "USED", "REJECTED", "EXPIRED"}

ClientSteps ==
    {"idle", "approve", "dispatch", "reject", "count", "revise", "escalate",
     "reissue"}

(* set: the requests a handler has read.  seen: the status it saw.            *)
Idle == [pc |-> "idle", set |-> {}, seen |-> "ABSENT"]

Status(r) == request[r].status
Lapsed(r) == request[r].lapsed
Issued(r) == Status(r) # "ABSENT"

(* The request approve and reject look at: the latest that has not lapsed,    *)
(* whatever its status is.                                                    *)
Current(r) ==
    /\ Issued(r) /\ ~Lapsed(r)
    /\ \A q \in Requests : Issued(q) /\ ~Lapsed(q) => q <= r

(* Handlers that will still write request r.                                  *)
Deciding(r) ==
    {c \in Clients : client[c].pc \in {"approve", "reject", "reissue"}
                     /\ r \in client[c].set}

Init ==
    /\ wf = "RUNNING"
    /\ revs = 0
    /\ request = [r \in Requests |-> [status |-> "ABSENT", lapsed |-> FALSE]]
    /\ messages = 0
    /\ client = [c \in Clients |-> Idle]
    /\ reissues = 0 /\ faults = 0
    /\ raced = {}

Become(c, pc, set, seen) ==
    client' = [client EXCEPT ![c] = [pc |-> pc, set |-> set, seen |-> seen]]

Goto(c, pc) == client' = [client EXCEPT ![c].pc = pc]

(* A handler has read request r and will write it.                            *)
ReadRequest(c, pc, r) ==
    /\ client[c].pc = "idle"
    /\ Become(c, pc, {r}, Status(r))
    /\ raced' = IF Deciding(r) = {} THEN raced ELSE raced \cup {r}
    /\ UNCHANGED <<wf, revs, request, messages, budgets>>

-----------------------------------------------------------------------------
(* GET /approvals: what an approver is shown.                                 *)
Listed(r) == Status(r) = "PENDING" /\ ~Lapsed(r)

(* POST /approvals/workflows/{id}/approve and .../reject.                     *)

(* Mutant: the token's status is not looked at.                               *)
DecidableBug(r) ==
    /\ wf = "AWAITING_APPROVAL"
    /\ Current(r)

(* The checks both handlers make, with the token of that request: USED is 410,*)
(* any other status but PENDING 403.                                          *)
Decidable(r) ==
    /\ wf = "AWAITING_APPROVAL"
    /\ Current(r)
    /\ Status(r) = "PENDING"

ReadApprove(c, r) == Decidable(r) /\ ReadRequest(c, "approve", r)
ReadReject(c, r) == Decidable(r) /\ ReadRequest(c, "reject", r)

Decide(c, from, status, to) ==
    /\ client[c].pc = from
    /\ request' = [r \in Requests |->
                     IF r \in client[c].set
                     THEN [request[r] EXCEPT !.status = status] ELSE request[r]]
    /\ Goto(c, to)
    /\ UNCHANGED <<wf, revs, messages, budgets, raced>>

CommitApprove(c) == Decide(c, "approve", "USED", "dispatch")
CommitReject(c) == Decide(c, "reject", "REJECTED", "count")

(* Mutant: the approval is recorded and nobody told.                          *)
DispatchBug(c) ==
    /\ client[c].pc = "dispatch"
    /\ client' = [client EXCEPT ![c] = Idle]
    /\ UNCHANGED <<wf, revs, request, messages, budgets, raced>>

(* send_task after the commit.                                                *)
Dispatch(c) ==
    /\ client[c].pc = "dispatch"
    /\ messages' = messages + 1
    /\ client' = [client EXCEPT ![c] = Idle]
    /\ UNCHANGED <<wf, revs, request, budgets, raced>>

(* The second transaction of a rejection reads the revision count ...         *)
Count(c) ==
    /\ client[c].pc = "count"
    /\ Goto(c, IF revs >= MaxRevisions THEN "escalate" ELSE "revise")
    /\ UNCHANGED <<wf, revs, request, messages, budgets, raced>>

(* ... and writes both tables without looking again.  No message is sent.     *)
Revise(c) ==
    /\ client[c].pc = "revise"
    /\ revs' = revs + 1
    /\ wf' = "REVISING"
    /\ client' = [client EXCEPT ![c] = Idle]
    /\ UNCHANGED <<request, messages, budgets, raced>>

Escalate(c) ==
    /\ client[c].pc = "escalate"
    /\ wf' = "ESCALATED"
    /\ client' = [client EXCEPT ![c] = Idle]
    /\ UNCHANGED <<revs, request, messages, budgets, raced>>

-----------------------------------------------------------------------------
(* POST /approvals/{id}/reissue.                                              *)

ReadReissue(c, r) ==
    /\ reissues < MaxReissues
    /\ Status(r) \in {"PENDING", "EXPIRED"}
    /\ ReadRequest(c, "reissue", r)

(* A new expiry.  The token is computed from the ids and does not change; the *)
(* status is written only if it differs from what was read.                   *)
CommitReissue(c) ==
    /\ client[c].pc = "reissue"
    /\ request' = [r \in Requests |->
          IF r \in client[c].set
          THEN [status |-> IF client[c].seen = "PENDING" THEN Status(r) ELSE "PENDING",
                lapsed |-> FALSE]
          ELSE request[r]]
    /\ reissues' = reissues + 1
    /\ client' = [client EXCEPT ![c] = Idle]
    /\ UNCHANGED <<wf, revs, messages, faults, raced>>

(* The process or the connection is lost; an idle handler has done its work.  *)
HandlerLost(c) ==
    /\ client[c].pc # "idle"
    /\ faults < MaxFaults
    /\ faults' = faults + 1
    /\ client' = [client EXCEPT ![c] = Idle]
    /\ UNCHANGED <<wf, revs, request, messages, reissues, raced>>

-----------------------------------------------------------------------------
(* The cron job, every 15 minutes.                                            *)

Overdue(r) == Status(r) = "PENDING" /\ Lapsed(r)

(* The requests as the first statement leaves them.                           *)
Expired ==
    [r \in Requests |-> IF Overdue(r) THEN [request[r] EXCEPT !.status = "EXPIRED"]
                                      ELSE request[r]]

(* Mutant: one decided request among the lapsed ones prevents the escalation. *)
AbandonedBug ==
    /\ wf = "AWAITING_APPROVAL"
    /\ \E r \in Requests : Expired[r].status = "EXPIRED"
    /\ \A r \in Requests : Expired[r].status \in {"ABSENT", "EXPIRED"}

(* No request is pending any more and some have lapsed.                       *)
Abandoned ==
    /\ wf = "AWAITING_APPROVAL"
    /\ \E r \in Requests : Expired[r].status = "EXPIRED"
    /\ \A r \in Requests : Expired[r].status # "PENDING"

(* POST /cron/expire-stale-approvals: two statements, one transaction.        *)
ExpireStaleApprovals ==
    /\ Abandoned \/ \E r \in Requests : Overdue(r)
    /\ request' = Expired
    /\ wf' = IF Abandoned THEN "ESCALATED" ELSE wf
    /\ UNCHANGED <<revs, messages, client, budgets, raced>>

-----------------------------------------------------------------------------
(* POST /escalations/{id}/resolve, whatever the status is.                    *)
ResolveEscalation ==
    /\ wf # "COMPLETED"
    /\ wf' = "COMPLETED"
    /\ UNCHANGED <<revs, request, messages, client, budgets, raced>>

-----------------------------------------------------------------------------
(* The environment.                                                           *)

(* The agent pauses with a draft.                                             *)
AgentPauses ==
    /\ wf = "RUNNING"
    /\ wf' = "AWAITING_APPROVAL"
    /\ UNCHANGED <<revs, request, messages, client, budgets, raced>>

(* process_workflow: an export at the gate, and a new run at any other status.*)
AfterMessage == IF wf = "AWAITING_APPROVAL" THEN "COMPLETED" ELSE "RUNNING"

AgentTakesMessage ==
    /\ messages > 0
    /\ messages' = messages - 1
    /\ \/ /\ wf' = AfterMessage
          /\ UNCHANGED faults
       \/ /\ faults < MaxFaults
          /\ faults' = faults + 1
          /\ UNCHANGED wf
    /\ UNCHANGED <<revs, request, client, reissues, raced>>

(* A message of goals.py or action_agent.py, sent while the workflow waited.  *)
AgentTakesOther ==
    /\ wf # "RUNNING"
    /\ wf' = AfterMessage
    /\ UNCHANGED <<revs, request, messages, client, budgets, raced>>

(* Somebody inserts an approval request.                                      *)
Issue(r) ==
    /\ ~Issued(r)
    /\ \A q \in 1..(r - 1) : Issued(q)
    /\ wf = "AWAITING_APPROVAL"
    /\ request' = [request EXCEPT ![r].status = "PENDING"]
    /\ UNCHANGED <<wf, revs, messages, client, budgets, raced>>

TimePasses(r) ==
    /\ Issued(r) /\ ~Lapsed(r)
    /\ request' = [request EXCEPT ![r].lapsed = TRUE]
    /\ UNCHANGED <<wf, revs, messages, client, budgets, raced>>

-----------------------------------------------------------------------------
Reading(c) ==
    \E r \in Requests : ReadApprove(c, r) \/ ReadReject(c, r) \/ ReadReissue(c, r)

Handler(c) ==
    \/ CommitApprove(c) \/ Dispatch(c)
    \/ CommitReject(c) \/ Count(c) \/ Revise(c) \/ Escalate(c)
    \/ CommitReissue(c)

Environment ==
    \/ AgentPauses \/ AgentTakesMessage \/ AgentTakesOther
    \/ \E r \in Requests : Issue(r) \/ TimePasses(r)

Next ==
    \/ \E c \in Clients : Reading(c) \/ Handler(c) \/ HandlerLost(c)
    \/ ExpireStaleApprovals
    \/ ResolveEscalation
    \/ Environment

Spec == Init /\ [][Next]_vars

(* Handlers run to their end, cron calls its job, the worker takes messages.  *)
Fairness ==
    /\ \A c \in Clients : WF_vars(Handler(c))
    /\ WF_vars(ExpireStaleApprovals)
    /\ WF_vars(AgentTakesMessage)

FairSpec == Spec /\ Fairness

-----------------------------------------------------------------------------
(* Properties.                                                                *)

(* Every variable has its type.                                               *)
TypeOK ==
    /\ wf \in WorkflowStatus
    /\ revs \in Nat
    /\ request \in [Requests -> [status : ApprovalStatus, lapsed : BOOLEAN]]
    /\ messages \in Nat
    /\ client \in [Clients -> [pc : ClientSteps, set : SUBSET Requests,
                               seen : ApprovalStatus]]
    /\ reissues \in Nat /\ faults \in Nat
    /\ raced \subseteq Requests

(* A decision stands: a request that was used or rejected keeps that status,  *)
(* whatever is reissued or expires later.  The handlers write by id what they *)
(* decided earlier, so this needs that no two of them had read the request    *)
(* before one of them wrote it.                                               *)
DecisionFinal ==
    [][\A r \in Requests \ raced :
         Status(r) \in {"USED", "REJECTED"} => request'[r].status = Status(r)]_vars

(* A recorded decision takes the workflow out of the gate, though decision    *)
(* and effect are two transactions and a message: only a lost handler or a    *)
(* failed export leaves it there, and then neither a retry of the request nor *)
(* the cron job helps.                                                        *)
DecisionLeavesGate ==
    (wf = "AWAITING_APPROVAL"
       /\ \E c \in Clients : client[c].pc \in {"dispatch", "count", "revise", "escalate"})
      ~> (wf # "AWAITING_APPROVAL" \/ faults > 0)

(* A workflow whose last open request lapses unanswered does not wait for     *)
(* ever, whatever was decided about its other requests before.                *)
LapseEscalates ==
    (/\ wf = "AWAITING_APPROVAL"
     /\ \E r \in Requests : Lapsed(r) /\ Status(r) \in {"PENDING", "EXPIRED"}
     /\ \A r \in Requests : ~Listed(r))
      ~> (\/ wf # "AWAITING_APPROVAL"
          \/ \E r \in Requests : Listed(r)
          \/ \A r \in Requests : Status(r) \notin {"PENDING", "EXPIRED"})
=============================================================================
