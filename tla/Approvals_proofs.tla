-------------------------- MODULE Approvals_proofs --------------------------
(* Proofs about Approvals, for any number of requests, handlers and faults.   *)
EXTENDS Approvals, TLAPS

-----------------------------------------------------------------------------
(* Type correctness.                                                          *)

Requested == [Requests -> [status : ApprovalStatus, lapsed : BOOLEAN]]
Handlers == [Clients -> [pc : ClientSteps, set : SUBSET Requests, seen : ApprovalStatus]]

LEMMA TypesInit == Init => TypeOK
  BY ApprovalsAssumption
  DEF Init, TypeOK, WorkflowStatus, Requests, ApprovalStatus, ClientSteps, Idle

(* The steps that only read.                                                  *)
LEMMA ReadingTypes ==
  ASSUME TypeOK, NEW c \in Clients, Reading(c)
  PROVE  TypeOK'
<1>1. ASSUME NEW r \in Requests, NEW pc \in ClientSteps, ReadRequest(c, pc, r)
      PROVE  TypeOK'
  <2>1. Status(r) \in ApprovalStatus
    BY DEF TypeOK, Status
  <2>2. client' \in Handlers
    BY <1>1, <2>1 DEF TypeOK, ReadRequest, Become, Handlers
  <2>. QED
    BY <1>1, <2>2 DEF TypeOK, ReadRequest, Handlers, budgets
<1>2. PICK r \in Requests : ReadApprove(c, r) \/ ReadReject(c, r) \/ ReadReissue(c, r)
  BY DEF Reading
<1>3. {"approve", "reject", "reissue"} \subseteq ClientSteps
  BY DEF ClientSteps
<1>. QED
  BY <1>1, <1>2, <1>3 DEF ReadApprove, ReadReject, ReadReissue

(* The steps that commit.                                                     *)
LEMMA HandlerTypes ==
  ASSUME TypeOK, NEW c \in Clients, Handler(c) \/ HandlerLost(c)
  PROVE  TypeOK'
<1>1. ASSUME NEW from, NEW status \in ApprovalStatus, NEW to \in ClientSteps,
             Decide(c, from, status, to)
      PROVE  TypeOK'
  <2>1. request' \in Requested
    BY <1>1 DEF Decide, TypeOK, Requested
  <2>2. client' \in Handlers
    BY <1>1 DEF Decide, Goto, TypeOK, Handlers
  <2>. QED
    BY <1>1, <2>1, <2>2 DEF Decide, TypeOK, Requested, Handlers, budgets
<1>2. CASE CommitApprove(c) \/ CommitReject(c)
  BY <1>1, <1>2 DEF CommitApprove, CommitReject, ApprovalStatus, ClientSteps
<1>3. [client EXCEPT ![c] = Idle] \in Handlers
  BY DEF TypeOK, Handlers, Idle, ClientSteps, ApprovalStatus
<1>4. CASE Dispatch(c)
  BY <1>3, <1>4 DEF Dispatch, TypeOK, Handlers, budgets
<1>5. CASE Count(c)
  <2>1. client' \in Handlers
    BY <1>5 DEF Count, Goto, TypeOK, Handlers, ClientSteps
  <2>. QED
    BY <1>5, <2>1 DEF Count, TypeOK, Handlers, budgets
<1>6. CASE Revise(c) \/ Escalate(c)
  BY <1>3, <1>6 DEF Revise, Escalate, TypeOK, Handlers, WorkflowStatus, budgets
<1>7. CASE CommitReissue(c)
  <2>1. request' \in Requested
    BY <1>7 DEF CommitReissue, TypeOK, Requested, Status, ApprovalStatus
  <2>. QED
    BY <1>3, <1>7, <2>1 DEF CommitReissue, TypeOK, Requested, Handlers
<1>8. CASE HandlerLost(c)
  BY <1>3, <1>8 DEF HandlerLost, TypeOK, Handlers
<1>. QED
  BY <1>2, <1>4, <1>5, <1>6, <1>7, <1>8 DEF Handler

(* The cron job, the admin, the agent and the clock.                          *)
LEMMA OtherTypes ==
  ASSUME TypeOK, ExpireStaleApprovals \/ ResolveEscalation \/ Environment
  PROVE  TypeOK'
<1>1. CASE ExpireStaleApprovals
  <2>1. request' \in Requested
    BY <1>1 DEF ExpireStaleApprovals, Expired, Overdue, Status, Lapsed, TypeOK,
                Requested, ApprovalStatus
  <2>2. wf' \in WorkflowStatus
    BY <1>1 DEF ExpireStaleApprovals, TypeOK, WorkflowStatus
  <2>. QED
    BY <1>1, <2>1, <2>2 DEF ExpireStaleApprovals, TypeOK, Requested, budgets
<1>2. CASE ResolveEscalation \/ AgentPauses \/ AgentTakesOther
  BY <1>2 DEF ResolveEscalation, AgentPauses, AgentTakesOther, AfterMessage, TypeOK,
              WorkflowStatus, budgets
<1>3. CASE AgentTakesMessage
  BY <1>3 DEF AgentTakesMessage, AfterMessage, TypeOK, WorkflowStatus
<1>4. ASSUME NEW r \in Requests, Issue(r) \/ TimePasses(r) PROVE TypeOK'
  <2>1. request' \in Requested
    BY <1>4 DEF Issue, TimePasses, TypeOK, Requested, ApprovalStatus
  <2>. QED
    BY <1>4, <2>1 DEF Issue, TimePasses, TypeOK, Requested, budgets
<1>. QED
  BY <1>1, <1>2, <1>3, <1>4 DEF Environment

LEMMA TypesNext == TypeOK /\ [Next]_vars => TypeOK'
<1>1. TypeOK /\ UNCHANGED vars => TypeOK'
  BY DEF TypeOK, vars, budgets
<1>. QED
  BY <1>1, ReadingTypes, HandlerTypes, OtherTypes DEF Next

(* Every variable keeps its type.                                             *)
THEOREM TypeCorrect == Spec => []TypeOK
  BY TypesInit, TypesNext, PTL DEF Spec

-----------------------------------------------------------------------------
(* A decision is final.  Nothing locks a request between the handler's read   *)
(* and its write, so that the handlers must be followed: one that will write  *)
(* a request which no other had read at the time is alone with it, and finds  *)
(* it undecided still.                                                        *)

Writes(c, r) == client[c].pc \in {"approve", "reject", "reissue"} /\ r \in client[c].set

AloneInv ==
    \A r \in Requests \ raced, c \in Clients : Writes(c, r) =>
        /\ Status(r) \notin {"USED", "REJECTED"}
        /\ \A d \in Clients : Writes(d, r) => d = c

(* A step by which no handler comes to write a request keeps AloneInv, if it  *)
(* decides only those that nobody is left to write.                           *)
LEMMA AloneKept ==
  ASSUME TypeOK, AloneInv, raced \subseteq raced',
         \A r \in Requests, c \in Clients : Writes(c, r)' => Writes(c, r),
         \A r \in Requests \ raced' :
            \/ Status(r)' \notin {"USED", "REJECTED"}
            \/ Status(r)' = Status(r)
            \/ \A c \in Clients : ~Writes(c, r)'
  PROVE  AloneInv'
  BY DEF AloneInv

LEMMA AloneReading ==
  ASSUME TypeOK, AloneInv, NEW c \in Clients, Reading(c)
  PROVE  AloneInv'
<1>1. PICK r \in Requests : ReadApprove(c, r) \/ ReadReject(c, r) \/ ReadReissue(c, r)
  BY DEF Reading
<1>2. PICK pc \in {"approve", "reject", "reissue"} : ReadRequest(c, pc, r)
  BY <1>1 DEF ReadApprove, ReadReject, ReadReissue
<1>3. Status(r) \notin {"USED", "REJECTED"}
  BY <1>1 DEF ReadApprove, ReadReject, ReadReissue, Decidable
<1>4. UNCHANGED request
  BY <1>2 DEF ReadRequest
<1>5. \A q \in Requests, d \in Clients : Writes(d, q)' <=> Writes(d, q) \/ (d = c /\ q = r)
  BY <1>2 DEF ReadRequest, Become, Writes, TypeOK
<1>6. r \in raced' \/ \A d \in Clients : ~Writes(d, r)
  <2>1. CASE Deciding(r) = {}
    BY <2>1 DEF Deciding, Writes
  <2>2. CASE Deciding(r) # {}
    BY <1>2, <2>2 DEF ReadRequest
  <2>. QED
    BY <2>1, <2>2
<1>7. raced \subseteq raced'
  BY <1>2 DEF ReadRequest
<1>. QED
  BY <1>3, <1>4, <1>5, <1>6, <1>7 DEF AloneInv, Status

LEMMA AloneHandler ==
  ASSUME TypeOK, AloneInv, NEW c \in Clients, Handler(c) \/ HandlerLost(c)
  PROVE  AloneInv'
<1>1. UNCHANGED raced
  BY DEF Handler, HandlerLost, CommitApprove, CommitReject, Decide, Dispatch, Count,
         Revise, Escalate, CommitReissue
<1>2. \A r \in Requests, d \in Clients : Writes(d, r)' => Writes(d, r) /\ d # c
  <2>1. /\ client'[c].pc \notin {"approve", "reject", "reissue"}
        /\ \A d \in Clients \ {c} : client'[d] = client[d]
    BY DEF TypeOK, Handler, HandlerLost, CommitApprove, CommitReject, Decide, Dispatch,
           Count, Revise, Escalate, CommitReissue, Goto, Idle
  <2>. QED
    BY <2>1 DEF Writes
<1>3. ASSUME NEW r \in Requests \ raced
      PROVE  \/ Status(r)' \notin {"USED", "REJECTED"}
             \/ Status(r)' = Status(r)
             \/ \A d \in Clients : ~Writes(d, r)'
  <2>1. CASE CommitApprove(c) \/ CommitReject(c)
    <3>1. CASE r \in client[c].set
      <4>1. Writes(c, r)
        BY <2>1, <3>1 DEF CommitApprove, CommitReject, Decide, Writes
      <4>. QED
        BY <1>2, <4>1 DEF AloneInv
    <3>2. CASE r \notin client[c].set
      BY <2>1, <3>2 DEF CommitApprove, CommitReject, Decide, Status
    <3>. QED
      BY <3>1, <3>2
  <2>2. CASE CommitReissue(c)
    BY <2>2 DEF CommitReissue, Status
  <2>3. CASE Dispatch(c) \/ Count(c) \/ Revise(c) \/ Escalate(c) \/ HandlerLost(c)
    BY <2>3 DEF Dispatch, Count, Revise, Escalate, HandlerLost, Status
  <2>. QED
    BY <2>1, <2>2, <2>3 DEF Handler
<1>. QED
  BY <1>1, <1>2, <1>3, AloneKept

(* The others write no decision and start no handler.                         *)
LEMMA AloneOther ==
  ASSUME TypeOK, AloneInv,
         ExpireStaleApprovals \/ ResolveEscalation \/ Environment \/ UNCHANGED vars
  PROVE  AloneInv'
<1>1. UNCHANGED <<client, raced>>
  BY DEF ExpireStaleApprovals, ResolveEscalation, Environment, AgentPauses,
         AgentTakesMessage, AgentTakesOther, Issue, TimePasses, vars
<1>2. \A r \in Requests : Status(r)' \in {"PENDING", "EXPIRED"} \/ Status(r)' = Status(r)
  BY DEF TypeOK, ExpireStaleApprovals, Expired, ResolveEscalation, Environment, AgentPauses,
         AgentTakesMessage, AgentTakesOther, Issue, TimePasses, vars, Status
<1>. QED
  BY <1>1, <1>2, AloneKept DEF Writes

LEMMA AloneNext == TypeOK /\ AloneInv /\ [Next]_vars => AloneInv'
  BY AloneReading, AloneHandler, AloneOther DEF Next

THEOREM Alone == Spec => []AloneInv
<1>1. Init => AloneInv
  BY DEF Init, AloneInv, Writes, Idle
<1>. QED
  BY <1>1, AloneNext, TypeCorrect, PTL DEF Spec

LEMMA DecisionStep ==
  ASSUME TypeOK, AloneInv, [Next]_vars, NEW r \in Requests \ raced,
         Status(r) \in {"USED", "REJECTED"}
  PROVE  request'[r].status = Status(r)
<1>1. ASSUME NEW c \in Clients PROVE ~Writes(c, r)
  BY DEF AloneInv
<1>2. ASSUME NEW c \in Clients, CommitApprove(c) \/ CommitReject(c) \/ CommitReissue(c)
      PROVE  request'[r] = request[r]
  <2>1. r \notin client[c].set
    BY <1>1, <1>2 DEF Writes, CommitApprove, CommitReject, Decide, CommitReissue
  <2>. QED
    BY <1>2, <2>1 DEF CommitApprove, CommitReject, Decide, CommitReissue
<1>3. ASSUME NEW c \in Clients,
             Reading(c) \/ HandlerLost(c) \/ Dispatch(c) \/ Count(c) \/ Revise(c) \/ Escalate(c)
      PROVE  UNCHANGED request
  BY <1>3 DEF Reading, ReadApprove, ReadReject, ReadReissue, ReadRequest, HandlerLost,
              Dispatch, Count, Revise, Escalate
<1>4. CASE ExpireStaleApprovals
  BY <1>4 DEF ExpireStaleApprovals, Expired, Overdue, Status
<1>5. ASSUME NEW q \in Requests, Issue(q) \/ TimePasses(q)
      PROVE  request'[r].status = Status(r)
  BY <1>5 DEF Issue, TimePasses, Issued, Status, TypeOK
<1>6. CASE ResolveEscalation \/ AgentPauses \/ AgentTakesMessage \/ AgentTakesOther
           \/ UNCHANGED vars
  BY <1>6 DEF ResolveEscalation, AgentPauses, AgentTakesMessage, AgentTakesOther, vars, Status
<1>. QED
  BY <1>2, <1>3, <1>4, <1>5, <1>6 DEF Next, Handler, Environment, Status

(* Whatever handlers, reissues, expiries and crashes follow each other, a     *)
(* request that no two handlers had read before one of them wrote it keeps    *)
(* the decision made about it.                                                *)
THEOREM DecisionsFinal == Spec => DecisionFinal
<1>1. TypeOK /\ AloneInv /\ [Next]_vars
        => [\A r \in Requests \ raced :
              Status(r) \in {"USED", "REJECTED"} => request'[r].status = Status(r)]_vars
  BY DecisionStep
<1>. QED
  BY <1>1, Alone, TypeCorrect, PTL DEF Spec, DecisionFinal
=============================================================================
