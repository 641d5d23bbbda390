----------------------- MODULE AgentWorkflow_proofs -----------------------
(* Proofs about AgentWorkflow, for every number of workers, clients and       *)
(* action rows and every value of the bounds.                                 *)
EXTENDS AgentWorkflow, FiniteSetTheorems, TLAPS

-----------------------------------------------------------------------------
(* What the shared pieces of the actions do to the types.                     *)

LEMMA IdleTypes ==
    IdleJob \in Jobs /\ IdleRequest \in Calls /\ NewAction \in ActionRows
BY DEF IdleJob, IdleRequest, NewAction, Jobs, Calls, ActionRows, WorkerSteps,
       ClientSteps, Senders, Intents, ActionStatus

LEMMA GotoType ==
  ASSUME TypeOK, NEW w \in Workers, NEW pc \in WorkerSteps, Goto(w, pc)
  PROVE  worker' \in [Workers -> Jobs]
BY DEF TypeOK, Goto, Jobs

LEMMA SetStatusType ==
  ASSUME TypeOK, NEW w \in Workers, NEW s \in WorkflowStatus,
         NEW pc \in WorkerSteps, SetStatus(w, s, pc)
  PROVE  TypeOK'
<1>1. worker' \in [Workers -> Jobs]
  BY GotoType DEF SetStatus
<1>. QED
  BY <1>1 DEF TypeOK, SetStatus, history, budgets

LEMMA RequestType ==
  ASSUME TypeOK, NEW c \in Clients, NEW pc \in ClientSteps, Request(c, pc)
  PROVE  client' \in [Clients -> Calls]
BY DEF TypeOK, Request, Calls

LEMMA SendType ==
  ASSUME TypeOK, NEW m \in Senders, Send(m)
  PROVE  /\ queue' \in Seq(Senders) /\ faults' \in Nat
         /\ lost' \subseteq Senders \cup {"task"}
<1>1. CASE Sent(m)
  BY <1>1 DEF TypeOK, Sent
<1>2. CASE Refused(m)
  BY <1>2 DEF TypeOK, Refused
<1>. QED
  BY <1>1, <1>2 DEF Send

LEMMA CommittedType ==
  ASSUME TypeOK, NEW c \in Clients, NEW m \in Senders, Committed(c, m)
  PROVE  client' \in [Clients -> Calls]
<1>1. [IdleRequest EXCEPT !.pc = "dispatch", !.msg = m] \in Calls
  BY IdleTypes DEF Calls, ClientSteps
<1>. QED
  BY <1>1 DEF TypeOK, Committed

-----------------------------------------------------------------------------
(* Type correctness.                                                          *)

LEMMA TypeInit == Init => TypeOK
<1> SUFFICES ASSUME Init PROVE TypeOK
  OBVIOUS
<1>1. worker \in [Workers -> Jobs] /\ client \in [Clients -> Calls]
  BY IdleTypes DEF Init
<1>2. actions \in [Actions -> ActionRows]
  BY DEF Init, ActionRows, NoRow, ActionStatus
<1>3. brief \in 0..NoBrief
  BY ConstantsAssumption DEF Init, NoBrief
<1>4. goal \in GoalStatus /\ wfStatus \in WorkflowStatus /\ confirmed \in BOOLEAN
  BY DEF Init, GoalStatus, WorkflowStatus
<1>5. resultRef \in Actions \cup {NoAction} /\ queue \in Seq(Senders)
  BY DEF Init
<1>6. /\ lastDraft \in Nat /\ approved \subseteq Nat /\ exported \in Nat
      /\ requests \in Nat /\ crashes \in Nat /\ faults \in Nat
      /\ lost \subseteq Senders \cup {"task"}
  BY DEF Init
<1>. QED
  BY <1>1, <1>2, <1>3, <1>4, <1>5, <1>6 DEF TypeOK

LEMMA TypeStep == TypeOK /\ [Next]_vars => TypeOK'
<1> SUFFICES ASSUME TypeOK, [Next]_vars PROVE TypeOK'
  OBVIOUS
<1>1. ASSUME NEW w \in Workers, Deliver(w) PROVE TypeOK'
  <2>1. Head(queue) \in Senders /\ queue' \in Seq(Senders)
    BY <1>1 DEF TypeOK, Deliver
  <2>2. [IdleJob EXCEPT !.pc = "load", !.msg = Head(queue)] \in Jobs
    BY <2>1, IdleTypes DEF Jobs, WorkerSteps
  <2>. QED
    BY <1>1, <2>1, <2>2 DEF TypeOK, Deliver, row, history, budgets
<1>2. ASSUME NEW w \in Workers, Load(w) PROVE TypeOK'
  <2>1. Route(wfStatus) \in WorkerSteps
    BY DEF Route, WorkerSteps
  <2>. QED
    BY <1>2, <2>1, GotoType DEF TypeOK, Load, row, history, budgets
<1>3. ASSUME NEW w \in Workers, Ack(w) PROVE TypeOK'
  BY <1>3, IdleTypes DEF TypeOK, Ack, row, history, budgets
<1>4. ASSUME NEW w \in Workers, WorkerLost(w) PROVE TypeOK'
  <2>1. worker[w].msg \in Senders
    BY DEF TypeOK, Jobs
  <2>2. <<worker[w].msg>> \o queue \in Seq(Senders)
    BY <2>1 DEF TypeOK
  <2>3. queue' \in Seq(Senders) /\ worker' \in [Workers -> Jobs]
    BY <1>4, <2>2, IdleTypes DEF TypeOK, WorkerLost
  <2>. QED
    BY <1>4, <2>3 DEF TypeOK, WorkerLost, row, history
<1>5. ASSUME NEW w \in Workers, TaskError(w) PROVE TypeOK'
  <2>1. worker' \in [Workers -> Jobs]
    BY <1>5, GotoType DEF TaskError, WorkerSteps
  <2>2. wfStatus' \in WorkflowStatus
    BY <1>5 DEF TypeOK, TaskError, WorkflowStatus
  <2>3. lost' \subseteq Senders \cup {"task"}
    BY <1>5 DEF TypeOK, TaskError
  <2>. QED
    BY <1>5, <2>1, <2>2, <2>3 DEF TypeOK, TaskError, history
<1>6. ASSUME NEW w \in Workers, Classify(w) PROVE TypeOK'
  <2>1. worker' \in [Workers -> Jobs]
    BY <1>6 DEF TypeOK, Classify, Jobs, WorkerSteps
  <2>. QED
    BY <1>6, <2>1 DEF TypeOK, Classify, WorkflowStatus, history, budgets
<1>7. ASSUME NEW w \in Workers, AmbiguityGate(w) PROVE TypeOK'
  BY <1>7, SetStatusType DEF AmbiguityGate, WorkflowStatus, WorkerSteps
<1>8. ASSUME NEW w \in Workers, Retrieve(w) PROVE TypeOK'
  BY <1>8, SetStatusType DEF Retrieve, WorkflowStatus, WorkerSteps
<1>9. ASSUME NEW w \in Workers, Synthesize(w) PROVE TypeOK'
  BY <1>9, SetStatusType DEF Synthesize, WorkflowStatus, WorkerSteps
<1>10. ASSUME NEW w \in Workers, Answer(w) PROVE TypeOK'
  BY <1>10, SetStatusType DEF Answer, WorkflowStatus, WorkerSteps
<1>11. ASSUME NEW w \in Workers, Expand(w) PROVE TypeOK'
  BY <1>11, SetStatusType DEF Expand, WorkflowStatus, WorkerSteps
<1>12. ASSUME NEW w \in Workers, DefinedTerms(w) PROVE TypeOK'
  BY <1>12, SetStatusType DEF DefinedTerms, WorkflowStatus, WorkerSteps
<1>13. ASSUME NEW w \in Workers, Detect(w) PROVE TypeOK'
  BY <1>13, SetStatusType DEF Detect, WorkflowStatus, WorkerSteps
<1>14. ASSUME NEW w \in Workers, WriteBrief(w) PROVE TypeOK'
  <2>1. worker' \in [Workers -> Jobs] /\ wfStatus' \in WorkflowStatus
    BY <1>14, GotoType DEF WriteBrief, WorkerSteps, WorkflowStatus
  <2>2. brief' \in 0..NoBrief
    BY <1>14, ConstantsAssumption DEF WriteBrief, NoBrief
  <2>. QED
    BY <1>14, <2>1, <2>2 DEF TypeOK, WriteBrief, history, budgets
<1>15. ASSUME NEW w \in Workers, Revise(w) PROVE TypeOK'
  BY <1>15, SetStatusType DEF Revise, WorkflowStatus, WorkerSteps
<1>16. ASSUME NEW w \in Workers, DraftStart(w) PROVE TypeOK'
  BY <1>16, SetStatusType DEF DraftStart, WorkflowStatus, WorkerSteps
<1>17. ASSUME NEW w \in Workers, PauseForApproval(w) PROVE TypeOK'
  BY <1>17, SetStatusType DEF PauseForApproval, WorkflowStatus, WorkerSteps
<1>18. ASSUME NEW w \in Workers, InsertActions(w) PROVE TypeOK'
  <2>1. CASE SetStatus(w, "FAILED", "ack")
    BY <2>1, SetStatusType DEF WorkflowStatus, WorkerSteps
  <2>2. CASE ~SetStatus(w, "FAILED", "ack")
    <3>1. worker' \in [Workers -> Jobs]
      BY <1>18, <2>2, GotoType DEF InsertActions, WorkerSteps
    <3>2. actions' \in [Actions -> ActionRows]
      BY <1>18, <2>2, IdleTypes DEF TypeOK, InsertActions
    <3>. QED
      BY <1>18, <2>2, <3>1, <3>2 DEF TypeOK, InsertActions, row, history, budgets
  <2>. QED
    BY <2>1, <2>2
<1>19. ASSUME NEW w \in Workers, SaveDraft(w) PROVE TypeOK'
  <2>1. CASE SetStatus(w, "FAILED", "ack")
    BY <2>1, SetStatusType DEF WorkflowStatus, WorkerSteps
  <2>2. CASE ~SetStatus(w, "FAILED", "ack")
    <3>1. worker' \in [Workers -> Jobs]
      BY <1>19, <2>2, GotoType DEF SaveDraft, WorkerSteps
    <3>2. \A a \in Actions : Drafted(a) \in ActionRows
      BY DEF TypeOK, Drafted, ActionRows, ActionStatus
    <3>3. actions' \in [Actions -> ActionRows] /\ lastDraft' \in Nat
      BY <1>19, <2>2, <3>2 DEF TypeOK, SaveDraft, Existing
    <3>. QED
      BY <1>19, <2>2, <3>1, <3>3 DEF TypeOK, SaveDraft, row, history, budgets
  <2>. QED
    BY <2>1, <2>2
<1>20. ASSUME NEW w \in Workers, PickApproved(w) PROVE TypeOK'
  <2>1. worker' \in [Workers -> Jobs]
    <3>1. CASE Awaiting = {}
      BY <1>20, <3>1, GotoType DEF PickApproved, WorkerSteps
    <3>2. ASSUME NEW a \in Awaiting, worker' = [worker EXCEPT ![w] = Holding(w, a)]
          PROVE  worker' \in [Workers -> Jobs]
      <4>1. a \in Actions /\ actions[a].draft \in Nat
        BY DEF Awaiting, TypeOK, ActionRows
      <4>2. worker[w] \in Jobs
        BY DEF TypeOK
      <4>3. Holding(w, a) \in Jobs
        BY <4>1, <4>2 DEF Jobs, Holding, WorkerSteps
      <4>. QED
        BY <3>2, <4>3 DEF TypeOK
    <3>. QED
      BY <1>20, <3>1, <3>2 DEF PickApproved
  <2>. QED
    BY <1>20, <2>1 DEF TypeOK, PickApproved, row, history, budgets
<1>21. ASSUME NEW w \in Workers, Export(w) PROVE TypeOK'
  <2>1. worker' \in [Workers -> Jobs]
    BY <1>21, GotoType DEF Export, WorkerSteps
  <2>2. worker[w].action \in Actions \cup {NoAction} /\ worker[w].draft \in Nat
    BY DEF TypeOK, Jobs
  <2>3. actions' \in [Actions -> ActionRows]
    <3>1. \/ actions' = actions
          \/ actions' = [actions EXCEPT ![worker[w].action].status = "EXECUTED"]
      BY <1>21 DEF Export
    <3>2. actions \in [Actions -> ActionRows]
      BY DEF TypeOK
    <3>. QED
      BY <3>1, <3>2 DEF ActionRows, ActionStatus
  <2>4. wfStatus' \in WorkflowStatus /\ exported' \in Nat
        /\ resultRef' \in Actions \cup {NoAction}
    BY <1>21, <2>2 DEF TypeOK, Export, WorkflowStatus, row
  <2>5. /\ goal' = goal /\ confirmed' = confirmed /\ brief' = brief
        /\ lost' \subseteq Senders \cup {"task"}
    BY <1>21 DEF Export, row, TypeOK
  <2>. QED
    BY <1>21, <2>1, <2>3, <2>4, <2>5 DEF TypeOK, Export, budgets
<1>22. ASSUME NEW c \in Clients, CreateGoal(c) PROVE TypeOK'
  <2>1. client' \in [Clients -> Calls]
    BY <1>22, RequestType DEF CreateGoal, ClientSteps
  <2>. QED
    BY <1>22, <2>1 DEF TypeOK, CreateGoal, GoalStatus, WorkflowStatus, history, budgets
<1>23. ASSUME NEW c \in Clients, CreateWorkflow(c) PROVE TypeOK'
  <2>1. client' \in [Clients -> Calls]
    BY <1>23, CommittedType DEF CreateWorkflow, Senders
  <2>. QED
    BY <1>23, <2>1 DEF TypeOK, CreateWorkflow, GoalStatus, WorkflowStatus, history, budgets
<1>24. ASSUME NEW c \in Clients, ClassifyGoal(c) PROVE TypeOK'
  <2>1. client' \in [Clients -> Calls]
    <3>1. CASE client' = [client EXCEPT ![c] = IdleRequest]
      BY <3>1, IdleTypes DEF TypeOK
    <3>2. ASSUME NEW i \in Intents,
                 client' = [client EXCEPT ![c].pc = "session", ![c].intent = i]
          PROVE  client' \in [Clients -> Calls]
      <4>1. [client[c] EXCEPT !.pc = "session", !.intent = i] \in Calls
        BY DEF TypeOK, Calls, ClientSteps
      <4>. QED
        BY <3>2, <4>1 DEF TypeOK
    <3>. QED
      BY <1>24, <3>1, <3>2 DEF ClassifyGoal
  <2>. QED
    BY <1>24, <2>1 DEF TypeOK, ClassifyGoal, GoalStatus, history, budgets
<1>25. ASSUME NEW c \in Clients, CheckSession(c) PROVE TypeOK'
  <2>1. client' \in [Clients -> Calls]
    BY <1>25, IdleTypes, RequestType DEF TypeOK, CheckSession, ClientSteps
  <2>. QED
    BY <1>25, <2>1 DEF TypeOK, CheckSession, GoalStatus, history, budgets
<1>26. ASSUME NEW c \in Clients, AnswerGoal(c) PROVE TypeOK'
  BY <1>26, IdleTypes DEF TypeOK, AnswerGoal, GoalStatus, history, budgets
<1>27. ASSUME NEW c \in Clients, AbortCommit(c) PROVE TypeOK'
  BY <1>27, IdleTypes DEF TypeOK, AbortCommit, WorkflowStatus, history, budgets
<1>28. ASSUME NEW c \in Clients, CancelWorkflow(c) PROVE TypeOK'
  BY <1>28, IdleTypes DEF TypeOK, CancelWorkflow, WorkflowStatus, history, budgets
<1>29. ASSUME NEW c \in Clients, Dispatch(c) PROVE TypeOK'
  <2>1. client[c].msg \in Senders
    BY DEF TypeOK, Calls
  <2>. QED
    BY <1>29, <2>1, IdleTypes, SendType DEF TypeOK, Dispatch, history
<1>30. ASSUME NEW c \in Clients, ConfirmIntent(c) PROVE TypeOK'
  BY <1>30 DEF TypeOK, ConfirmIntent, NewRequest, history
<1>31. ASSUME NEW c \in Clients, ConfirmBrief(c) PROVE TypeOK'
  BY <1>31, SendType DEF TypeOK, ConfirmBrief, LawyerAnswers, NewRequest, Senders,
                       row, history
<1>32. ASSUME NEW c \in Clients, AbortBrief(c) PROVE TypeOK'
  <2>1. client' \in [Clients -> Calls]
    BY <1>32, RequestType DEF AbortBrief, ClientSteps
  <2>. QED
    BY <1>32, <2>1 DEF TypeOK, AbortBrief, LawyerAnswers, NewRequest, row, history
<1>33. ASSUME NEW c \in Clients, Approve(c) PROVE TypeOK'
  <2>1. approved' \subseteq Nat
    BY <1>33 DEF TypeOK, Approve, Awaiting, ActionRows
  <2>. QED
    BY <1>33, <2>1, SendType DEF TypeOK, Approve, LawyerAnswers, NewRequest, Senders, row
<1>34. ASSUME NEW c \in Clients, ConfirmPlan(c) PROVE TypeOK'
  <2>1. approved' \subseteq Nat
    BY <1>34 DEF TypeOK, ConfirmPlan, Awaiting, ActionRows
  <2>2. client' \in [Clients -> Calls]
    BY <1>34, RequestType DEF TypeOK, ConfirmPlan, ClientSteps
  <2>3. Send("approve")
    BY <1>34 DEF ConfirmPlan, Send
  <2>. QED
    BY <1>34, <2>1, <2>2, <2>3, SendType
       DEF TypeOK, ConfirmPlan, LawyerAnswers, NewRequest, Senders
<1>35. ASSUME NEW c \in Clients, ApproveEdit(c) PROVE TypeOK'
  <2>1. client' \in [Clients -> Calls]
    <3>1. PICK a \in Awaiting :
            client' = [client EXCEPT ![c].pc = "edit", ![c].action = a]
      BY <1>35 DEF ApproveEdit
    <3>2. a \in Actions
      BY DEF Awaiting
    <3>3. client[c] \in Calls
      BY DEF TypeOK
    <3>4. [client[c] EXCEPT !.pc = "edit", !.action = a] \in Calls
      BY <3>2, <3>3 DEF Calls, ClientSteps
    <3>5. client' = [client EXCEPT ![c] = [client[c] EXCEPT !.pc = "edit", !.action = a]]
      BY <3>1
    <3>. QED
      BY <3>4, <3>5 DEF TypeOK
  <2>. QED
    BY <1>35, <2>1 DEF TypeOK, ApproveEdit, LawyerAnswers, NewRequest, row, history
<1>36. ASSUME NEW c \in Clients, EditCommit(c) PROVE TypeOK'
  <2>1. actions' \in [Actions -> ActionRows]
    <3>1. lastDraft + 1 \in Nat
      BY DEF TypeOK
    <3>2. actions' = [actions EXCEPT ![client[c].action].draft = lastDraft + 1]
      BY <1>36 DEF EditCommit
    <3>. QED
      BY <3>1, <3>2 DEF TypeOK, ActionRows
  <2>2. lastDraft' \in Nat /\ approved' \subseteq Nat
    BY <1>36 DEF TypeOK, EditCommit
  <2>. QED
    BY <1>36, <2>1, <2>2, CommittedType DEF TypeOK, EditCommit, Senders, row, budgets
<1>37. ASSUME NEW c \in Clients, Reject(c) PROVE TypeOK'
  <2>1. PICK a \in IF Existing = {} THEN {NoAction} ELSE Existing :
          client' = [client EXCEPT ![c] =
            [IdleRequest EXCEPT
               !.pc = "reject",
               !.action = a,
               !.draft = IF a = NoAction THEN 0 ELSE actions[a].draft,
               !.escalate = RevisionCapped]]
    BY <1>37 DEF Reject
  <2>2. a \in Actions \cup {NoAction} /\ (a # NoAction => actions[a].draft \in Nat)
    BY <2>1 DEF Existing, TypeOK, ActionRows
  <2>3. RevisionCapped \in BOOLEAN
    BY DEF RevisionCapped
  <2>4. client' \in [Clients -> Calls]
    <3> DEFINE d == IF a = NoAction THEN 0 ELSE actions[a].draft
    <3>1. d \in Nat
      BY <2>2
    <3>2. [IdleRequest EXCEPT !.pc = "reject", !.action = a, !.draft = d,
                              !.escalate = RevisionCapped] \in Calls
      <4>. HIDE DEF d
      <4>. QED
        BY <2>2, <2>3, <3>1, IdleTypes DEF Calls, ClientSteps
    <3>. QED
      BY <2>1, <3>2 DEF TypeOK
  <2>. QED
    BY <1>37, <2>4 DEF TypeOK, Reject, LawyerAnswers, NewRequest, row, history
<1>38. ASSUME NEW c \in Clients, RejectCommit(c) PROVE TypeOK'
  <2>1. client' \in [Clients -> Calls]
    BY <1>38, IdleTypes, CommittedType DEF TypeOK, RejectCommit, Senders
  <2>2. \A x \in Actions :
          Rejected(x, client[c].action, client[c].draft) \in ActionRows
    <3>1. client[c].draft \in Nat
      BY DEF TypeOK, Calls
    <3>. QED
      BY <3>1 DEF TypeOK, ActionRows, Rejected
  <2>3. actions' \in [Actions -> ActionRows]
    BY <1>38, <2>2 DEF TypeOK, RejectCommit
  <2>4. wfStatus' \in WorkflowStatus
    BY <1>38 DEF RejectCommit, WorkflowStatus
  <2>. QED
    BY <1>38, <2>1, <2>3, <2>4 DEF TypeOK, RejectCommit, history, budgets
<1>39. ASSUME NEW c \in Clients, CancelGoal(c) PROVE TypeOK'
  <2>1. client' \in [Clients -> Calls]
    BY <1>39, RequestType DEF CancelGoal, ClientSteps
  <2>. QED
    BY <1>39, <2>1 DEF TypeOK, CancelGoal, NewRequest, GoalStatus, history
<1>40. CASE ExpireAmbiguity
  BY <1>40 DEF TypeOK, ExpireAmbiguity, WorkflowStatus, history, budgets
<1>41. CASE UNCHANGED vars
  BY <1>41 DEF TypeOK, vars, row, history, budgets
<1>42. ASSUME NEW c \in Clients, ResumeGoal(c) PROVE TypeOK'
  BY <1>42, IdleTypes DEF TypeOK, ResumeGoal, GoalStatus, history, budgets
<1>43. ASSUME NEW c \in Clients, RequestLost(c) PROVE TypeOK'
  <2>1. client[c].msg \in Senders
    BY DEF TypeOK, Calls
  <2>. QED
    BY <1>43, <2>1, IdleTypes DEF TypeOK, RequestLost, history
<1>. QED
  BY <1>1, <1>2, <1>3, <1>4, <1>5, <1>6, <1>7, <1>8, <1>9, <1>10, <1>11,
     <1>12, <1>13, <1>14, <1>15, <1>16, <1>17, <1>18, <1>19, <1>20, <1>21,
     <1>22, <1>23, <1>24, <1>25, <1>26, <1>27, <1>28, <1>29, <1>30, <1>31,
     <1>32, <1>33, <1>34, <1>35, <1>36, <1>37, <1>38, <1>39, <1>40, <1>41,
     <1>42, <1>43
     DEF Next, Task, NewCall, Handler

(* Every behaviour of the workflow keeps every variable in its type: no step  *)
(* of the task, a handler or the cron job writes a status the enums lack.     *)
THEOREM TypeCorrect == Spec => []TypeOK
<1>. QED
  BY TypeInit, TypeStep, PTL DEF Spec

-----------------------------------------------------------------------------
(* How a task or a request moves, stated once without the record types.       *)

LEMMA GotoMoves ==
  ASSUME TypeOK, NEW w \in Workers, NEW pc, Goto(w, pc)
  PROVE  /\ worker'[w].pc = pc
         /\ worker'[w].msg = worker[w].msg
         /\ worker'[w].action = worker[w].action
         /\ \A v \in Workers : v # w => worker'[v] = worker[v]
BY DEF TypeOK, Goto, Jobs

LEMMA SetStatusMoves ==
  ASSUME TypeOK, NEW w \in Workers, NEW s, NEW pc, SetStatus(w, s, pc)
  PROVE  /\ worker'[w].pc = pc
         /\ worker'[w].msg = worker[w].msg
         /\ \A v \in Workers : v # w => worker'[v] = worker[v]
         /\ wfStatus' = s
         /\ UNCHANGED <<goal, brief, resultRef, actions, queue, client>>
BY GotoMoves DEF SetStatus

LEMMA RequestMoves ==
  ASSUME TypeOK, NEW c \in Clients, NEW pc, Request(c, pc)
  PROVE  /\ client'[c].pc = pc
         /\ \A b \in Clients : b # c => client'[b] = client[b]
BY DEF TypeOK, Request, Calls

LEMMA RequestEnds ==
  ASSUME TypeOK, NEW c \in Clients, client' = [client EXCEPT ![c] = IdleRequest]
  PROVE  /\ client'[c].pc = "idle"
         /\ \A b \in Clients : b # c => client'[b] = client[b]
BY DEF TypeOK, IdleRequest

LEMMA CommittedMoves ==
  ASSUME TypeOK, NEW c \in Clients, NEW m, Committed(c, m)
  PROVE  /\ client'[c].pc = "dispatch" /\ client'[c].msg = m
         /\ \A b \in Clients : b # c => client'[b] = client[b]
BY DEF TypeOK, Committed, IdleRequest

LEMMA JobEnds ==
  ASSUME TypeOK, NEW w \in Workers, worker' = [worker EXCEPT ![w] = IdleJob]
  PROVE  /\ worker'[w].pc = "idle"
         /\ \A v \in Workers : v # w => worker'[v] = worker[v]
BY DEF TypeOK, IdleJob

-----------------------------------------------------------------------------
(* ArtefactsExist.                                                            *)

(* A step that leaves the tables alone, opens no gate, and brings nobody to a *)
(* step the invariant speaks of.                                              *)
LEMMA ArtefactsFrame ==
  ASSUME ArtefactsInv, UNCHANGED <<brief, resultRef, actions>>,
         \/ wfStatus' = wfStatus
         \/ wfStatus' \notin {"AWAITING_BRIEF_CONFIRMATION", "AWAITING_APPROVAL"},
         \A v \in Workers : \/ worker'[v] = worker[v]
                            \/ worker'[v].pc \notin {"save", "pause", "export"},
         \A c \in Clients : client'[c] = client[c] \/ client'[c].pc # "edit"
  PROVE  ArtefactsInv'
BY DEF ArtefactsInv, ArtefactsExist

LEMMA ArtefactsInit == Init => ArtefactsInv
BY ConstantsAssumption
   DEF Init, ArtefactsInv, ArtefactsExist, NoRow, IdleJob, IdleRequest

LEMMA ArtefactsStep == TypeOK /\ ArtefactsInv /\ [Next]_vars => ArtefactsInv'
<1> SUFFICES ASSUME TypeOK, ArtefactsInv, [Next]_vars PROVE ArtefactsInv'
  OBVIOUS
<1>1. ASSUME NEW w \in Workers, Deliver(w) PROVE ArtefactsInv'
  <2>1. worker'[w].pc = "load" /\ \A v \in Workers : v # w => worker'[v] = worker[v]
    BY <1>1 DEF Deliver, TypeOK, IdleJob
  <2>. QED
    BY <1>1, <2>1, ArtefactsFrame DEF Deliver, row
<1>2. ASSUME NEW w \in Workers, Load(w) PROVE ArtefactsInv'
  <2>1. Route(wfStatus) \notin {"save", "pause", "export"}
    BY DEF Route
  <2>. QED
    BY <1>2, <2>1, GotoMoves, ArtefactsFrame DEF Load, row
<1>3. ASSUME NEW w \in Workers, Ack(w) PROVE ArtefactsInv'
  BY <1>3, JobEnds, ArtefactsFrame DEF Ack, row
<1>4. ASSUME NEW w \in Workers, WorkerLost(w) PROVE ArtefactsInv'
  BY <1>4, JobEnds, ArtefactsFrame DEF WorkerLost, row
<1>5. ASSUME NEW w \in Workers, TaskError(w) PROVE ArtefactsInv'
  BY <1>5, GotoMoves, ArtefactsFrame DEF TaskError
<1>6. ASSUME NEW w \in Workers, Classify(w) PROVE ArtefactsInv'
  <2>1. /\ worker'[w].pc \in {"gate", "ack", "retrieve"}
        /\ \A v \in Workers : v # w => worker'[v] = worker[v]
    BY <1>6 DEF Classify, TypeOK, Jobs
  <2>. QED
    BY <1>6, <2>1, ArtefactsFrame DEF Classify
<1>7. ASSUME NEW w \in Workers, AmbiguityGate(w) PROVE ArtefactsInv'
  BY <1>7, SetStatusMoves, ArtefactsFrame DEF AmbiguityGate
<1>8. ASSUME NEW w \in Workers, Retrieve(w) PROVE ArtefactsInv'
  BY <1>8, SetStatusMoves, ArtefactsFrame DEF Retrieve
<1>9. ASSUME NEW w \in Workers, Synthesize(w) PROVE ArtefactsInv'
  BY <1>9, SetStatusMoves, ArtefactsFrame DEF Synthesize
<1>10. ASSUME NEW w \in Workers, Answer(w) PROVE ArtefactsInv'
  BY <1>10, SetStatusMoves, ArtefactsFrame DEF Answer
<1>11. ASSUME NEW w \in Workers, Expand(w) PROVE ArtefactsInv'
  BY <1>11, SetStatusMoves, ArtefactsFrame DEF Expand
<1>12. ASSUME NEW w \in Workers, DefinedTerms(w) PROVE ArtefactsInv'
  BY <1>12, SetStatusMoves, ArtefactsFrame DEF DefinedTerms
<1>13. ASSUME NEW w \in Workers, Detect(w) PROVE ArtefactsInv'
  BY <1>13, SetStatusMoves, ArtefactsFrame DEF Detect
<1>14. ASSUME NEW w \in Workers, WriteBrief(w) PROVE ArtefactsInv'
  <2>1. brief' # NoBrief
    BY <1>14, ConstantsAssumption DEF WriteBrief, NoBrief
  <2>2. \A v \in Workers : worker'[v] = worker[v] \/ worker'[v].pc = "ack"
    BY <1>14, GotoMoves DEF WriteBrief
  <2>. QED
    BY <1>14, <2>1, <2>2 DEF WriteBrief, ArtefactsInv, ArtefactsExist, NoBrief
<1>15. ASSUME NEW w \in Workers, Revise(w) PROVE ArtefactsInv'
  BY <1>15, SetStatusMoves, ArtefactsFrame DEF Revise
<1>16. ASSUME NEW w \in Workers, DraftStart(w) PROVE ArtefactsInv'
  BY <1>16, SetStatusMoves, ArtefactsFrame DEF DraftStart
<1>17. ASSUME NEW w \in Workers, InsertActions(w) PROVE ArtefactsInv'
  <2>1. CASE SetStatus(w, "FAILED", "ack")
    BY <2>1, SetStatusMoves, ArtefactsFrame
  <2>2. CASE ~SetStatus(w, "FAILED", "ack")
    <3>1. /\ brief # NoBrief /\ Goto(w, "save")
          /\ UNCHANGED <<row, queue, client>>
      BY <1>17, <2>2 DEF InsertActions
    <3>2. \A a \in Actions :
            \/ actions'[a] = actions[a]
            \/ actions[a].status = "ABSENT" /\ actions'[a] = NewAction
      BY <1>17, <2>2 DEF InsertActions, Existing
    <3>3. \A v \in Workers : worker'[v] = worker[v] \/ worker'[v].pc = "save"
      BY <3>1, GotoMoves
    <3>. QED
      BY <3>1, <3>2, <3>3
         DEF ArtefactsInv, ArtefactsExist, NewAction, row, TypeOK, NoBrief
  <2>. QED
    BY <2>1, <2>2
<1>18. ASSUME NEW w \in Workers, SaveDraft(w) PROVE ArtefactsInv'
  <2>1. CASE SetStatus(w, "FAILED", "ack")
    BY <2>1, SetStatusMoves, ArtefactsFrame
  <2>2. CASE ~SetStatus(w, "FAILED", "ack")
    <3>1. worker[w].pc = "save" /\ Goto(w, "pause") /\ UNCHANGED <<row, client>>
      BY <1>18, <2>2 DEF SaveDraft
    <3>2. \A a \in Actions :
            \/ actions'[a] = actions[a]
            \/ /\ actions'[a].status = "AWAITING_APPROVAL"
               /\ actions'[a].draft # 0
      BY <1>18, <2>2 DEF SaveDraft, Drafted, TypeOK, Existing
    <3>3. \A v \in Workers : worker'[v] = worker[v] \/ worker'[v].pc = "pause"
      BY <3>1, GotoMoves
    <3>4. brief # NoBrief
      BY <3>1 DEF ArtefactsInv
    <3>. QED
      BY <3>1, <3>2, <3>3, <3>4
         DEF ArtefactsInv, ArtefactsExist, row, TypeOK, NoBrief
  <2>. QED
    BY <2>1, <2>2
<1>19. ASSUME NEW w \in Workers, PauseForApproval(w) PROVE ArtefactsInv'
  <2>1. brief # NoBrief
    BY <1>19 DEF PauseForApproval, ArtefactsInv
  <2>2. /\ UNCHANGED <<brief, resultRef, actions, client>>
        /\ \A v \in Workers : worker'[v] = worker[v] \/ worker'[v].pc = "ack"
    BY <1>19, SetStatusMoves DEF PauseForApproval
  <2>. QED
    BY <2>1, <2>2 DEF ArtefactsInv, ArtefactsExist, NoBrief
<1>20. ASSUME NEW w \in Workers, PickApproved(w) PROVE ArtefactsInv'
  <2>1. UNCHANGED <<row, actions, client>>
    BY <1>20 DEF PickApproved
  <2>2. /\ \/ worker'[w].pc = "ack"
           \/ /\ worker'[w].action \in Actions
              /\ actions[worker'[w].action].draft # 0
        /\ \A v \in Workers : v # w => worker'[v] = worker[v]
    <3>1. CASE Awaiting = {}
      BY <1>20, <3>1, GotoMoves DEF PickApproved
    <3>2. CASE Awaiting # {}
      <4>1. PICK a \in Awaiting : worker' = [worker EXCEPT ![w] = Holding(w, a)]
        BY <1>20, <3>2 DEF PickApproved
      <4>2. a \in Actions
        BY DEF Awaiting
      <4>. QED
        BY <4>1, <4>2 DEF TypeOK, Holding
    <3>. QED
      BY <3>1, <3>2
  <2>. QED
    BY <2>1, <2>2 DEF ArtefactsInv, ArtefactsExist, row, NoBrief
<1>21. ASSUME NEW w \in Workers, Export(w) PROVE ArtefactsInv'
  <2>1. /\ \A v \in Workers : worker'[v] = worker[v] \/ worker'[v].pc = "ack"
        /\ UNCHANGED <<brief, client>>
    BY <1>21, GotoMoves DEF Export, row
  <2>2. CASE UNCHANGED <<row, actions>>
    BY <2>1, <2>2, ArtefactsFrame DEF row
  <2>3. CASE ~UNCHANGED <<row, actions>>
    <3> DEFINE a == worker[w].action
    <3>1. a \in Actions /\ actions[a].draft # 0 /\ actions[a].status # "ABSENT"
      BY <1>21 DEF Export, ArtefactsInv
    <3>2. /\ actions' = [actions EXCEPT ![a].status = "EXECUTED"]
          /\ wfStatus' = "COMPLETED"
          /\ resultRef' = a
      BY <1>21, <2>3 DEF Export
    <3>3. \A x \in Actions :
            /\ actions'[x].draft = actions[x].draft
            /\ actions'[x].status = IF x = a THEN "EXECUTED" ELSE actions[x].status
      <4>1. actions \in [Actions -> ActionRows]
        BY DEF TypeOK
      <4>. HIDE DEF a
      <4>. QED
        BY <3>1, <3>2, <4>1 DEF ActionRows
    <3>. QED
      BY <2>1, <3>1, <3>2, <3>3 DEF ArtefactsInv, ArtefactsExist, NoBrief
  <2>. QED
    BY <2>2, <2>3
<1>22. ASSUME NEW c \in Clients, CreateGoal(c) PROVE ArtefactsInv'
  BY <1>22, RequestMoves, ArtefactsFrame DEF CreateGoal
<1>23. ASSUME NEW c \in Clients, CreateWorkflow(c) PROVE ArtefactsInv'
  BY <1>23, CommittedMoves, ArtefactsFrame DEF CreateWorkflow
<1>24. ASSUME NEW c \in Clients, ClassifyGoal(c) PROVE ArtefactsInv'
  <2>1. /\ client'[c].pc \in {"idle", "session"}
        /\ \A b \in Clients : b # c => client'[b] = client[b]
    BY <1>24 DEF ClassifyGoal, TypeOK, Calls, IdleRequest
  <2>. QED
    BY <1>24, <2>1, ArtefactsFrame DEF ClassifyGoal
<1>25. ASSUME NEW c \in Clients, CheckSession(c) PROVE ArtefactsInv'
  BY <1>25, RequestMoves, RequestEnds, ArtefactsFrame DEF CheckSession
<1>26. ASSUME NEW c \in Clients, AnswerGoal(c) PROVE ArtefactsInv'
  BY <1>26, RequestEnds, ArtefactsFrame DEF AnswerGoal
<1>27. ASSUME NEW c \in Clients, AbortCommit(c) PROVE ArtefactsInv'
  BY <1>27, RequestEnds, ArtefactsFrame DEF AbortCommit
<1>28. ASSUME NEW c \in Clients, CancelWorkflow(c) PROVE ArtefactsInv'
  BY <1>28, RequestEnds, ArtefactsFrame DEF CancelWorkflow
<1>29. ASSUME NEW c \in Clients, Dispatch(c) PROVE ArtefactsInv'
  BY <1>29, RequestEnds, ArtefactsFrame DEF Dispatch, row
<1>30. ASSUME NEW c \in Clients, ConfirmIntent(c) PROVE ArtefactsInv'
  BY <1>30, ArtefactsFrame DEF ConfirmIntent, row
<1>31. ASSUME NEW c \in Clients, ConfirmBrief(c) PROVE ArtefactsInv'
  BY <1>31, ArtefactsFrame DEF ConfirmBrief, row
<1>32. ASSUME NEW c \in Clients, Approve(c) PROVE ArtefactsInv'
  BY <1>32, ArtefactsFrame DEF Approve, row
<1>33. ASSUME NEW c \in Clients, ConfirmPlan(c) PROVE ArtefactsInv'
  BY <1>33, RequestMoves, ArtefactsFrame DEF ConfirmPlan
<1>34. ASSUME NEW c \in Clients, AbortBrief(c) PROVE ArtefactsInv'
  BY <1>34, RequestMoves, ArtefactsFrame DEF AbortBrief, row
<1>35. ASSUME NEW c \in Clients, ApproveEdit(c) PROVE ArtefactsInv'
  <2>1. UNCHANGED <<row, actions, worker>>
    BY <1>35 DEF ApproveEdit
  <2>2. /\ client'[c].action \in Actions
        /\ actions[client'[c].action].status # "ABSENT"
        /\ \A b \in Clients : b # c => client'[b] = client[b]
    BY <1>35 DEF ApproveEdit, Awaiting, TypeOK, Calls
  <2>. QED
    BY <2>1, <2>2 DEF ArtefactsInv, ArtefactsExist, row, NoBrief
<1>36. ASSUME NEW c \in Clients, EditCommit(c) PROVE ArtefactsInv'
  <2> DEFINE a == client[c].action
  <2>1. a \in Actions /\ actions[a].status # "ABSENT"
    BY <1>36 DEF EditCommit, ArtefactsInv
  <2> DEFINE d == lastDraft + 1
  <2>2. d # 0 /\ actions' = [actions EXCEPT ![a].draft = d]
    BY <1>36 DEF EditCommit, TypeOK
  <2>4. \A x \in Actions :
          /\ actions'[x].status = actions[x].status
          /\ actions'[x].draft = IF x = a THEN d ELSE actions[x].draft
    <3>1. actions \in [Actions -> ActionRows]
      BY DEF TypeOK
    <3>. HIDE DEF a, d
    <3>. QED
      BY <2>1, <2>2, <3>1 DEF ActionRows
  <2>3. /\ \A b \in Clients : client'[b] = client[b] \/ client'[b].pc = "dispatch"
        /\ UNCHANGED <<row, worker>>
    BY <1>36, CommittedMoves DEF EditCommit
  <2>. QED
    BY <2>1, <2>2, <2>3, <2>4 DEF ArtefactsInv, ArtefactsExist, row, TypeOK, NoBrief
<1>37. ASSUME NEW c \in Clients, Reject(c) PROVE ArtefactsInv'
  <2>1. /\ client'[c].pc = "reject"
        /\ \A b \in Clients : b # c => client'[b] = client[b]
    BY <1>37 DEF Reject, TypeOK, IdleRequest
  <2>. QED
    BY <1>37, <2>1, ArtefactsFrame DEF Reject, row
<1>38. ASSUME NEW c \in Clients, RejectCommit(c) PROVE ArtefactsInv'
  <2>1. /\ \A b \in Clients : \/ client'[b] = client[b]
                               \/ client'[b].pc \in {"idle", "dispatch"}
        /\ UNCHANGED <<brief, resultRef, worker>>
        /\ wfStatus' \in {"ESCALATED", "REVISING"}
    BY <1>38, RequestEnds, CommittedMoves DEF RejectCommit
  <2>2. \A x \in Actions :
          /\ actions'[x].status = actions[x].status
          /\ \/ actions'[x].draft = actions[x].draft
             \/ actions[x].status # "ABSENT" /\ actions'[x].draft # 0
    BY <1>38 DEF RejectCommit, Rejected, Existing
  <2>. QED
    BY <2>1, <2>2 DEF ArtefactsInv, ArtefactsExist, TypeOK, NoBrief
<1>39. ASSUME NEW c \in Clients, CancelGoal(c) PROVE ArtefactsInv'
  BY <1>39, RequestMoves, ArtefactsFrame DEF CancelGoal
<1>40. CASE ExpireAmbiguity
  BY <1>40, ArtefactsFrame DEF ExpireAmbiguity
<1>41. CASE UNCHANGED vars
  BY <1>41, ArtefactsFrame DEF vars, row
<1>42. ASSUME NEW c \in Clients, ResumeGoal(c) PROVE ArtefactsInv'
  BY <1>42, RequestEnds, ArtefactsFrame DEF ResumeGoal
<1>43. ASSUME NEW c \in Clients, RequestLost(c) PROVE ArtefactsInv'
  BY <1>43, RequestEnds, ArtefactsFrame DEF RequestLost
<1>. QED
  BY <1>1, <1>2, <1>3, <1>4, <1>5, <1>6, <1>7, <1>8, <1>9, <1>10, <1>11,
     <1>12, <1>13, <1>14, <1>15, <1>16, <1>17, <1>18, <1>19, <1>20, <1>21,
     <1>22, <1>23, <1>24, <1>25, <1>26, <1>27, <1>28, <1>29, <1>30, <1>31,
     <1>32, <1>33, <1>34, <1>35, <1>36, <1>37, <1>38, <1>39, <1>40, <1>41,
     <1>42, <1>43
     DEF Next, Task, NewCall, Handler

(* A workflow at a gate has its brief, rows exist only behind a brief, a row  *)
(* waiting for approval or executed has a draft, and result_ref names one:    *)
(* for any number of workers, crashes, redeliveries and racing requests.      *)
THEOREM ArtefactsAlwaysExist == Spec => []ArtefactsExist
<1>1. ArtefactsInv => ArtefactsExist
  BY DEF ArtefactsInv
<1>. QED
  BY <1>1, TypeInit, TypeStep, ArtefactsInit, ArtefactsStep, PTL DEF Spec

-----------------------------------------------------------------------------
(* RevisionBound.                                                             *)

LEMMA RejectingCount ==
  /\ IsFiniteSet(Rejecting)
  /\ Cardinality(Rejecting) \in Nat
  /\ Cardinality(Clients) \in Nat
  /\ Cardinality(Rejecting) <= Cardinality(Clients)
<1>1. Rejecting \subseteq Clients
  BY DEF Rejecting
<1>. QED
  BY <1>1, ConstantsAssumption, FS_Subset, FS_CardinalityType

(* Nobody decides or commits a rejection.                                     *)
LEMMA RejectingFrame ==
  ASSUME \A b \in Clients : \/ client'[b] = client[b]
                            \/ client[b].pc # "reject" /\ client'[b].pc # "reject"
  PROVE  Rejecting' = Rejecting
BY DEF Rejecting

(* No counter moves and no row disappears.                                    *)
LEMMA RevisionFrame ==
  ASSUME RevisionInv, Rejecting' = Rejecting,
         \A x \in Actions :
           /\ actions'[x].revs = actions[x].revs
           /\ actions'[x].status = "ABSENT" => actions[x].status = "ABSENT"
  PROVE  RevisionInv'
BY DEF RevisionInv

LEMMA RevisionKeeps ==
  ASSUME RevisionInv, UNCHANGED actions,
         \A b \in Clients : \/ client'[b] = client[b]
                            \/ client[b].pc # "reject" /\ client'[b].pc # "reject"
  PROVE  RevisionInv'
BY RejectingFrame, RevisionFrame

LEMMA RevisionInit == Init => RevisionInv
<1> SUFFICES ASSUME Init PROVE RevisionInv
  OBVIOUS
<1>1. Rejecting = {}
  BY DEF Init, Rejecting, IdleRequest
<1>2. Cardinality(Rejecting) = 0
  BY <1>1, FS_EmptySet
<1>. QED
  BY <1>2, RejectingCount, ConstantsAssumption DEF Init, RevisionInv, NoRow

LEMMA RevisionStep == TypeOK /\ RevisionInv /\ [Next]_vars => RevisionInv'
<1> SUFFICES ASSUME TypeOK, RevisionInv, [Next]_vars PROVE RevisionInv'
  OBVIOUS
<1>1. ASSUME NEW w \in Workers, Deliver(w) PROVE RevisionInv'
  BY <1>1, RevisionKeeps DEF Deliver
<1>2. ASSUME NEW w \in Workers, Load(w) PROVE RevisionInv'
  BY <1>2, RevisionKeeps DEF Load
<1>3. ASSUME NEW w \in Workers, Ack(w) PROVE RevisionInv'
  BY <1>3, RevisionKeeps DEF Ack
<1>4. ASSUME NEW w \in Workers, WorkerLost(w) PROVE RevisionInv'
  BY <1>4, RevisionKeeps DEF WorkerLost
<1>5. ASSUME NEW w \in Workers, TaskError(w) PROVE RevisionInv'
  BY <1>5, RevisionKeeps DEF TaskError
<1>6. ASSUME NEW w \in Workers, Classify(w) PROVE RevisionInv'
  BY <1>6, RevisionKeeps DEF Classify
<1>7. ASSUME NEW w \in Workers, WriteBrief(w) PROVE RevisionInv'
  BY <1>7, RevisionKeeps DEF WriteBrief
<1>8. ASSUME NEW w \in Workers, PickApproved(w) PROVE RevisionInv'
  BY <1>8, RevisionKeeps DEF PickApproved
<1>9. ASSUME NEW w \in Workers, AmbiguityGate(w) PROVE RevisionInv'
  BY <1>9, SetStatusMoves, RevisionKeeps DEF AmbiguityGate
<1>10. ASSUME NEW w \in Workers, Retrieve(w) PROVE RevisionInv'
  BY <1>10, SetStatusMoves, RevisionKeeps DEF Retrieve
<1>11. ASSUME NEW w \in Workers, Synthesize(w) PROVE RevisionInv'
  BY <1>11, SetStatusMoves, RevisionKeeps DEF Synthesize
<1>12. ASSUME NEW w \in Workers, Answer(w) PROVE RevisionInv'
  BY <1>12, SetStatusMoves, RevisionKeeps DEF Answer
<1>13. ASSUME NEW w \in Workers, Expand(w) PROVE RevisionInv'
  BY <1>13, SetStatusMoves, RevisionKeeps DEF Expand
<1>14. ASSUME NEW w \in Workers, DefinedTerms(w) PROVE RevisionInv'
  BY <1>14, SetStatusMoves, RevisionKeeps DEF DefinedTerms
<1>15. ASSUME NEW w \in Workers, Detect(w) PROVE RevisionInv'
  BY <1>15, SetStatusMoves, RevisionKeeps DEF Detect
<1>16. ASSUME NEW w \in Workers, Revise(w) PROVE RevisionInv'
  BY <1>16, SetStatusMoves, RevisionKeeps DEF Revise
<1>17. ASSUME NEW w \in Workers, DraftStart(w) PROVE RevisionInv'
  BY <1>17, SetStatusMoves, RevisionKeeps DEF DraftStart
<1>18. ASSUME NEW w \in Workers, PauseForApproval(w) PROVE RevisionInv'
  BY <1>18, SetStatusMoves, RevisionKeeps DEF PauseForApproval
<1>19. ASSUME NEW w \in Workers, InsertActions(w) PROVE RevisionInv'
  <2>1. CASE SetStatus(w, "FAILED", "ack")
    BY <2>1, SetStatusMoves, RevisionKeeps
  <2>2. CASE ~SetStatus(w, "FAILED", "ack")
    <3>1. \A x \in Actions : \/ actions'[x] = actions[x]
                             \/ actions'[x] = NewAction
      BY <1>19, <2>2 DEF InsertActions
    <3>2. Rejecting' = Rejecting
      BY <1>19, <2>2, RejectingFrame DEF InsertActions
    <3>3. 0 + Cardinality(Rejecting) <= MaxRevisions - 1 + Cardinality(Clients)
      BY RejectingCount, ConstantsAssumption
    <3>. QED
      BY <3>1, <3>2, <3>3 DEF RevisionInv, NewAction
  <2>. QED
    BY <2>1, <2>2
<1>20. ASSUME NEW w \in Workers, SaveDraft(w) PROVE RevisionInv'
  <2>1. CASE SetStatus(w, "FAILED", "ack")
    BY <2>1, SetStatusMoves, RevisionKeeps
  <2>2. CASE ~SetStatus(w, "FAILED", "ack")
    <3>1. \A x \in Actions :
            /\ actions'[x].revs = actions[x].revs
            /\ actions'[x].status = "ABSENT" => actions[x].status = "ABSENT"
      BY <1>20, <2>2 DEF SaveDraft, Drafted, TypeOK
    <3>2. Rejecting' = Rejecting
      BY <1>20, <2>2, RejectingFrame DEF SaveDraft
    <3>. QED
      BY <3>1, <3>2, RevisionFrame
  <2>. QED
    BY <2>1, <2>2
<1>21. ASSUME NEW w \in Workers, Export(w) PROVE RevisionInv'
  <2>1. Rejecting' = Rejecting
    BY <1>21, RejectingFrame DEF Export
  <2>2. CASE UNCHANGED actions
    BY <2>1, <2>2, RevisionFrame
  <2>3. CASE ~UNCHANGED actions
    <3> DEFINE a == worker[w].action
    <3>1. actions' = [actions EXCEPT ![a].status = "EXECUTED"]
      BY <1>21, <2>3 DEF Export
    <3>2. actions \in [Actions -> ActionRows]
      BY DEF TypeOK
    <3>3. \A x \in Actions :
            /\ actions'[x].revs = actions[x].revs
            /\ actions'[x].status = "ABSENT" => actions[x].status = "ABSENT"
      <4>. HIDE DEF a
      <4>. QED
        BY <3>1, <3>2 DEF ActionRows
    <3>. QED
      BY <2>1, <3>3, RevisionFrame
  <2>. QED
    BY <2>2, <2>3
<1>22. ASSUME NEW c \in Clients, CreateGoal(c) PROVE RevisionInv'
  BY <1>22, RequestMoves, RevisionKeeps DEF CreateGoal
<1>23. ASSUME NEW c \in Clients, CreateWorkflow(c) PROVE RevisionInv'
  BY <1>23, CommittedMoves, RevisionKeeps DEF CreateWorkflow
<1>24. ASSUME NEW c \in Clients, AbortBrief(c) PROVE RevisionInv'
  BY <1>24, RequestMoves, RevisionKeeps DEF AbortBrief, LawyerAnswers, NewRequest
<1>25. ASSUME NEW c \in Clients, CancelGoal(c) PROVE RevisionInv'
  BY <1>25, RequestMoves, RevisionKeeps DEF CancelGoal, NewRequest
<1>26. ASSUME NEW c \in Clients, ClassifyGoal(c) PROVE RevisionInv'
  <2>1. /\ client[c].pc = "classify" /\ client'[c].pc \in {"idle", "session"}
        /\ \A b \in Clients : b # c => client'[b] = client[b]
    BY <1>26 DEF ClassifyGoal, TypeOK, Calls, IdleRequest
  <2>. QED
    BY <1>26, <2>1, RevisionKeeps DEF ClassifyGoal
<1>27. ASSUME NEW c \in Clients, CheckSession(c) PROVE RevisionInv'
  <2>1. /\ client[c].pc = "session" /\ client'[c].pc \in {"idle", "answer", "workflow"}
        /\ \A b \in Clients : b # c => client'[b] = client[b]
    BY <1>27, RequestMoves, RequestEnds DEF CheckSession
  <2>. QED
    BY <1>27, <2>1, RevisionKeeps DEF CheckSession
<1>28. ASSUME NEW c \in Clients, AnswerGoal(c) PROVE RevisionInv'
  BY <1>28, RequestEnds, RevisionKeeps DEF AnswerGoal
<1>29. ASSUME NEW c \in Clients, AbortCommit(c) PROVE RevisionInv'
  BY <1>29, RequestEnds, RevisionKeeps DEF AbortCommit
<1>30. ASSUME NEW c \in Clients, CancelWorkflow(c) PROVE RevisionInv'
  BY <1>30, RequestEnds, RevisionKeeps DEF CancelWorkflow
<1>31. ASSUME NEW c \in Clients, Dispatch(c) PROVE RevisionInv'
  BY <1>31, RequestEnds, RevisionKeeps DEF Dispatch
<1>32. ASSUME NEW c \in Clients, ConfirmIntent(c) PROVE RevisionInv'
  BY <1>32, RevisionKeeps DEF ConfirmIntent
<1>33. ASSUME NEW c \in Clients, ConfirmBrief(c) PROVE RevisionInv'
  BY <1>33, RevisionKeeps DEF ConfirmBrief
<1>34. ASSUME NEW c \in Clients, Approve(c) PROVE RevisionInv'
  BY <1>34, RevisionKeeps DEF Approve
<1>35. ASSUME NEW c \in Clients, ConfirmPlan(c) PROVE RevisionInv'
  BY <1>35, RequestMoves, RevisionKeeps DEF ConfirmPlan, LawyerAnswers, NewRequest
<1>36. ASSUME NEW c \in Clients, ApproveEdit(c) PROVE RevisionInv'
  <2>1. client[c].pc = "idle"
    BY <1>36 DEF ApproveEdit, LawyerAnswers, NewRequest
  <2>2. /\ client'[c].pc = "edit"
        /\ \A b \in Clients : b # c => client'[b] = client[b]
    BY <1>36 DEF ApproveEdit, TypeOK, Calls
  <2>. QED
    BY <1>36, <2>1, <2>2, RevisionKeeps DEF ApproveEdit
<1>37. ASSUME NEW c \in Clients, EditCommit(c) PROVE RevisionInv'
  <2> DEFINE a == client[c].action
  <2> DEFINE d == lastDraft + 1
  <2>1. actions' = [actions EXCEPT ![a].draft = d]
    BY <1>37 DEF EditCommit
  <2>2. actions \in [Actions -> ActionRows]
    BY DEF TypeOK
  <2>3. \A x \in Actions :
          /\ actions'[x].revs = actions[x].revs
          /\ actions'[x].status = "ABSENT" => actions[x].status = "ABSENT"
    <3>. HIDE DEF a, d
    <3>. QED
      BY <2>1, <2>2 DEF ActionRows
  <2>4. Rejecting' = Rejecting
    BY <1>37, CommittedMoves, RejectingFrame DEF EditCommit
  <2>. QED
    BY <2>3, <2>4, RevisionFrame
<1>38. ASSUME NEW c \in Clients, Reject(c) PROVE RevisionInv'
  <2>1. /\ client[c].pc = "idle" /\ UNCHANGED actions
        /\ client'[c].pc = "reject" /\ client'[c].escalate = RevisionCapped
        /\ \A b \in Clients : b # c => client'[b] = client[b]
    BY <1>38 DEF Reject, LawyerAnswers, NewRequest, TypeOK, IdleRequest
  <2>2. CASE RevisionCapped
    <3>1. Rejecting' = Rejecting
      BY <2>1, <2>2 DEF Rejecting
    <3>. QED
      BY <2>1, <3>1, RevisionFrame
  <2>3. CASE ~RevisionCapped
    <3>1. /\ Cardinality(Rejecting') \in Nat
          /\ Cardinality(Rejecting') <= Cardinality(Clients)
          /\ Cardinality(Clients) \in Nat
      <4>1. Rejecting' \subseteq Clients
        BY DEF Rejecting
      <4>. QED
        BY <4>1, ConstantsAssumption, FS_Subset, FS_CardinalityType
    <3>2. \A x \in Actions : actions[x].revs \in Nat /\ actions[x].revs <= MaxRevisions - 1
      <4>1. \A x \in Actions : actions[x].revs \in Nat
        BY DEF TypeOK, ActionRows
      <4>2. \A x \in Existing : ~(actions[x].revs >= MaxRevisions)
        BY <2>3 DEF RevisionCapped
      <4>3. \A x \in Actions : x \notin Existing => actions[x].revs = 0
        BY DEF RevisionInv, Existing
      <4>. QED
        BY <4>1, <4>2, <4>3, ConstantsAssumption
    <3>3. \A x \in Actions :
            actions[x].revs + Cardinality(Rejecting')
              <= MaxRevisions - 1 + Cardinality(Clients)
      BY <3>1, <3>2, ConstantsAssumption
    <3>. QED
      BY <2>1, <3>3 DEF RevisionInv
  <2>. QED
    BY <2>2, <2>3
<1>39. ASSUME NEW c \in Clients, RejectCommit(c) PROVE RevisionInv'
  <2>1. /\ client[c].pc = "reject" /\ client'[c].pc \in {"idle", "dispatch"}
        /\ \A b \in Clients : b # c => client'[b] = client[b]
    BY <1>39, RequestEnds, CommittedMoves DEF RejectCommit
  <2>2. CASE client[c].escalate
    <3>1. Rejecting' = Rejecting
      BY <2>1, <2>2 DEF Rejecting
    <3>2. UNCHANGED actions
      BY <1>39, <2>2 DEF RejectCommit
    <3>. QED
      BY <3>1, <3>2, RevisionFrame
  <2>3. CASE ~client[c].escalate
    <3>1. c \in Rejecting /\ Rejecting' = Rejecting \ {c}
      BY <2>1, <2>3 DEF Rejecting
    <3>2. Cardinality(Rejecting') = Cardinality(Rejecting) - 1
      BY <3>1, RejectingCount, FS_RemoveElement
    <3>3. \A x \in Actions :
            /\ actions'[x].status = actions[x].status
            /\ actions[x].status = "ABSENT" => actions'[x].revs = actions[x].revs
            /\ actions[x].status # "ABSENT" => actions'[x].revs = actions[x].revs + 1
      BY <1>39, <2>3 DEF RejectCommit, Rejected, Existing
    <3>4. \A x \in Actions : actions[x].revs \in Nat
      BY DEF TypeOK, ActionRows
    <3>. QED
      BY <3>2, <3>3, <3>4, RejectingCount, ConstantsAssumption DEF RevisionInv
  <2>. QED
    BY <2>2, <2>3
<1>40. CASE ExpireAmbiguity
  BY <1>40, RevisionKeeps DEF ExpireAmbiguity
<1>41. CASE UNCHANGED vars
  BY <1>41, RevisionKeeps DEF vars, row
<1>42. ASSUME NEW c \in Clients, ResumeGoal(c) PROVE RevisionInv'
  BY <1>42, RequestEnds, RevisionKeeps DEF ResumeGoal
<1>43. ASSUME NEW c \in Clients, RequestLost(c) PROVE RevisionInv'
  <2>1. Rejecting' = Rejecting \ {c} /\ UNCHANGED actions
    BY <1>43, RequestEnds DEF RequestLost, Rejecting
  <2>2. CASE c \in Rejecting
    <3>1. Cardinality(Rejecting') = Cardinality(Rejecting) - 1
      BY <2>1, <2>2, RejectingCount, FS_RemoveElement
    <3>2. \A x \in Actions : actions[x].revs \in Nat
      BY DEF TypeOK, ActionRows
    <3>. QED
      BY <2>1, <3>1, <3>2, RejectingCount, ConstantsAssumption DEF RevisionInv
  <2>3. CASE c \notin Rejecting
    BY <2>1, <2>3, RevisionFrame
  <2>. QED
    BY <2>2, <2>3
<1>. QED
  BY <1>1, <1>2, <1>3, <1>4, <1>5, <1>6, <1>7, <1>8, <1>9, <1>10, <1>11,
     <1>12, <1>13, <1>14, <1>15, <1>16, <1>17, <1>18, <1>19, <1>20, <1>21,
     <1>22, <1>23, <1>24, <1>25, <1>26, <1>27, <1>28, <1>29, <1>30, <1>31,
     <1>32, <1>33, <1>34, <1>35, <1>36, <1>37, <1>38, <1>39, <1>40, <1>41,
     <1>42, <1>43
     DEF Next, Task, NewCall, Handler

(* Racing rejects overshoot the revision limit by less than their number, for *)
(* every limit and every number of simultaneous requests.                     *)
THEOREM RevisionBounded == Spec => []RevisionBound
<1>1. TypeOK /\ RevisionInv => RevisionBound
  <2>1. ASSUME TypeOK, RevisionInv, NEW a \in Actions
        PROVE  actions[a].revs <= MaxRevisions - 1 + Cardinality(Clients)
    <3>1. actions[a].revs \in Nat
      BY <2>1 DEF TypeOK, ActionRows
    <3>. QED
      BY <2>1, <3>1, RejectingCount, ConstantsAssumption DEF RevisionInv
  <2>. QED
    BY <2>1 DEF RevisionBound
<1>. QED
  BY <1>1, TypeInit, TypeStep, RevisionInit, RevisionStep, PTL DEF Spec

-----------------------------------------------------------------------------
(* WorkNotStranded.                                                           *)

LEMMA SendKeeps ==
  ASSUME TypeOK, NEW m, Send(m)
  PROVE  /\ queue' # <<>> \/ m \in lost'
         /\ queue # <<>> => queue' # <<>>
         /\ lost \subseteq lost'
<1>1. CASE Sent(m)
  BY <1>1 DEF TypeOK, Sent
<1>2. CASE Refused(m)
  BY <1>2 DEF Refused
<1>. QED
  BY <1>1, <1>2 DEF Send

(* A step that leaves the status alone and loses nothing behind it, or puts   *)
(* what it loses on record.                                                   *)
LEMMA StrandedFrame ==
  ASSUME WorkNotStranded, wfStatus' = wfStatus, lost \subseteq lost',
         queue # <<>> => queue' # <<>>,
         \A w \in Workers : worker[w].pc \in Writing =>
           \/ worker'[w].pc \in Writing
           \/ queue' # <<>> \/ "task" \in lost',
         \A c \in Clients : client[c].pc = "dispatch" =>
           \/ client'[c] = client[c]
           \/ queue' # <<>> \/ client[c].msg \in lost'
  PROVE  WorkNotStranded'
BY DEF WorkNotStranded, Stranded

LEMMA StrandedTask ==
  ASSUME NEW w \in Workers, worker'[w].pc \in Writing
  PROVE  WorkNotStranded'
BY DEF WorkNotStranded

LEMMA StrandedOver ==
  ASSUME wfStatus' \notin InProgress
  PROVE  WorkNotStranded'
BY DEF WorkNotStranded

(* A step that sends m and does nothing else to the workflow.                 *)
LEMMA StrandedSend ==
  ASSUME TypeOK, WorkNotStranded, NEW m, Send(m),
         wfStatus' = wfStatus, worker' = worker,
         \A c \in Clients : client[c].pc = "dispatch" =>
           client'[c] = client[c] \/ client[c].msg = m
  PROVE  WorkNotStranded'
BY SendKeeps, StrandedFrame

LEMMA StrandedInit == Init => WorkNotStranded
BY DEF Init, WorkNotStranded, InProgress

LEMMA StrandedStep == TypeOK /\ WorkNotStranded /\ [Next]_vars => WorkNotStranded'
<1> SUFFICES ASSUME TypeOK, WorkNotStranded, [Next]_vars PROVE WorkNotStranded'
  OBVIOUS
<1>1. ASSUME NEW w \in Workers, Deliver(w) PROVE WorkNotStranded'
  <2>1. worker'[w].pc = "load"
    BY <1>1 DEF Deliver, TypeOK, IdleJob
  <2>. QED
    BY <2>1, StrandedTask DEF Writing
<1>2. ASSUME NEW w \in Workers, Load(w) PROVE WorkNotStranded'
  <2>1. wfStatus' = wfStatus
    BY <1>2 DEF Load, row
  <2>2. CASE wfStatus \in InProgress
    <3>1. Route(wfStatus) \in {"intent", "revise"}
      BY <2>2 DEF Route, InProgress
    <3>2. worker'[w].pc \in Writing
      BY <1>2, <3>1, GotoMoves DEF Load, Writing
    <3>. QED
      BY <3>2, StrandedTask
  <2>. QED
    BY <2>1, <2>2, StrandedOver
<1>3. ASSUME NEW w \in Workers, Ack(w) PROVE WorkNotStranded'
  <2>1. \A v \in Workers : worker[v].pc \in Writing => worker'[v].pc \in Writing
    BY <1>3, JobEnds DEF Ack, Writing
  <2>. QED
    BY <1>3, <2>1, StrandedFrame DEF Ack, row
<1>4. ASSUME NEW w \in Workers, WorkerLost(w) PROVE WorkNotStranded'
  <2>1. queue' # <<>>
    BY <1>4 DEF WorkerLost, TypeOK
  <2>. QED
    BY <2>1 DEF WorkNotStranded
<1>5. ASSUME NEW w \in Workers, TaskError(w) PROVE WorkNotStranded'
  <2>1. CASE wfStatus' = "FAILED"
    BY <2>1, StrandedOver DEF InProgress
  <2>2. CASE lost' = lost \cup {"task"} /\ UNCHANGED wfStatus
    BY <1>5, <2>2, StrandedFrame DEF TaskError
  <2>. QED
    BY <1>5, <2>1, <2>2 DEF TaskError
<1>6. ASSUME NEW w \in Workers, Classify(w) PROVE WorkNotStranded'
  BY <1>6, StrandedOver DEF Classify, InProgress
<1>7. ASSUME NEW w \in Workers, WriteBrief(w) PROVE WorkNotStranded'
  BY <1>7, StrandedOver DEF WriteBrief, InProgress
<1>8. ASSUME NEW w \in Workers, AmbiguityGate(w) PROVE WorkNotStranded'
  BY <1>8, SetStatusMoves, StrandedOver DEF AmbiguityGate, InProgress
<1>9. ASSUME NEW w \in Workers, Retrieve(w) PROVE WorkNotStranded'
  BY <1>9, SetStatusMoves, StrandedOver DEF Retrieve, InProgress
<1>10. ASSUME NEW w \in Workers, Answer(w) PROVE WorkNotStranded'
  BY <1>10, SetStatusMoves, StrandedOver DEF Answer, InProgress
<1>11. ASSUME NEW w \in Workers, DefinedTerms(w) PROVE WorkNotStranded'
  BY <1>11, SetStatusMoves, StrandedOver DEF DefinedTerms, InProgress
<1>12. ASSUME NEW w \in Workers, PauseForApproval(w) PROVE WorkNotStranded'
  BY <1>12, SetStatusMoves, StrandedOver DEF PauseForApproval, InProgress
<1>13. ASSUME NEW w \in Workers, Synthesize(w) PROVE WorkNotStranded'
  BY <1>13, SetStatusMoves, StrandedTask DEF Synthesize, Writing
<1>14. ASSUME NEW w \in Workers, Expand(w) PROVE WorkNotStranded'
  BY <1>14, SetStatusMoves, StrandedTask DEF Expand, Writing
<1>15. ASSUME NEW w \in Workers, Detect(w) PROVE WorkNotStranded'
  BY <1>15, SetStatusMoves, StrandedTask DEF Detect, Writing
<1>16. ASSUME NEW w \in Workers, Revise(w) PROVE WorkNotStranded'
  BY <1>16, SetStatusMoves, StrandedTask DEF Revise, Writing
<1>17. ASSUME NEW w \in Workers, DraftStart(w) PROVE WorkNotStranded'
  BY <1>17, SetStatusMoves, StrandedTask DEF DraftStart, Writing
<1>18. ASSUME NEW w \in Workers, InsertActions(w) PROVE WorkNotStranded'
  <2>1. CASE SetStatus(w, "FAILED", "ack")
    BY <2>1, SetStatusMoves, StrandedOver DEF InProgress
  <2>2. CASE ~SetStatus(w, "FAILED", "ack")
    <3>1. worker'[w].pc = "save"
      BY <1>18, <2>2, GotoMoves DEF InsertActions
    <3>. QED
      BY <3>1, StrandedTask DEF Writing
  <2>. QED
    BY <2>1, <2>2
<1>19. ASSUME NEW w \in Workers, SaveDraft(w) PROVE WorkNotStranded'
  <2>1. CASE SetStatus(w, "FAILED", "ack")
    BY <2>1, SetStatusMoves, StrandedOver DEF InProgress
  <2>2. CASE ~SetStatus(w, "FAILED", "ack")
    <3>1. worker'[w].pc = "pause"
      BY <1>19, <2>2, GotoMoves DEF SaveDraft
    <3>. QED
      BY <3>1, StrandedTask DEF Writing
  <2>. QED
    BY <2>1, <2>2
<1>20. ASSUME NEW w \in Workers, PickApproved(w) PROVE WorkNotStranded'
  <2>1. \A v \in Workers : worker[v].pc \in Writing => worker'[v] = worker[v]
    <3>1. \A v \in Workers : v # w => worker'[v] = worker[v]
      BY <1>20, GotoMoves DEF PickApproved, TypeOK
    <3>. QED
      BY <1>20, <3>1 DEF PickApproved, Writing
  <2>. QED
    BY <1>20, <2>1, StrandedFrame DEF PickApproved, row
<1>21. ASSUME NEW w \in Workers, Export(w) PROVE WorkNotStranded'
  <2>1. \A v \in Workers : worker[v].pc \in Writing => worker'[v] = worker[v]
    BY <1>21, GotoMoves DEF Export, Writing
  <2>2. CASE UNCHANGED row
    BY <1>21, <2>1, <2>2, StrandedFrame DEF Export, row
  <2>3. CASE wfStatus' = "COMPLETED"
    BY <2>3, StrandedOver DEF InProgress
  <2>. QED
    BY <1>21, <2>2, <2>3 DEF Export
<1>22. ASSUME NEW c \in Clients, CreateGoal(c) PROVE WorkNotStranded'
  BY <1>22, RequestMoves, StrandedFrame DEF CreateGoal
<1>23. ASSUME NEW c \in Clients, CreateWorkflow(c) PROVE WorkNotStranded'
  BY <1>23, StrandedOver DEF CreateWorkflow, InProgress
<1>24. ASSUME NEW c \in Clients, ClassifyGoal(c) PROVE WorkNotStranded'
  <2>1. /\ client[c].pc = "classify"
        /\ \A b \in Clients : b # c => client'[b] = client[b]
    BY <1>24 DEF ClassifyGoal, TypeOK, Calls
  <2>. QED
    BY <1>24, <2>1, StrandedFrame DEF ClassifyGoal
<1>25. ASSUME NEW c \in Clients, CheckSession(c) PROVE WorkNotStranded'
  BY <1>25, RequestMoves, RequestEnds, StrandedFrame DEF CheckSession
<1>26. ASSUME NEW c \in Clients, AnswerGoal(c) PROVE WorkNotStranded'
  BY <1>26, RequestEnds, StrandedFrame DEF AnswerGoal
<1>27. ASSUME NEW c \in Clients, AbortCommit(c) PROVE WorkNotStranded'
  BY <1>27, StrandedOver DEF AbortCommit, InProgress
<1>28. ASSUME NEW c \in Clients, CancelWorkflow(c) PROVE WorkNotStranded'
  <2>1. wfStatus' \in {"NONE", "COMPLETED", "CANCELLED", "FAILED"}
    BY <1>28 DEF CancelWorkflow
  <2>. QED
    BY <2>1, StrandedOver DEF InProgress
<1>29. ASSUME NEW c \in Clients, ConfirmIntent(c) PROVE WorkNotStranded'
  BY <1>29, StrandedFrame DEF ConfirmIntent
<1>30. ASSUME NEW c \in Clients, AbortBrief(c) PROVE WorkNotStranded'
  BY <1>30, RequestMoves, StrandedFrame DEF AbortBrief, LawyerAnswers, NewRequest, row
<1>31. ASSUME NEW c \in Clients, ApproveEdit(c) PROVE WorkNotStranded'
  <2>1. client[c].pc = "idle"
    BY <1>31 DEF ApproveEdit, LawyerAnswers, NewRequest
  <2>2. \A b \in Clients : b # c => client'[b] = client[b]
    BY <1>31 DEF ApproveEdit, TypeOK
  <2>. QED
    BY <1>31, <2>1, <2>2, StrandedFrame DEF ApproveEdit, row
<1>32. ASSUME NEW c \in Clients, Reject(c) PROVE WorkNotStranded'
  <2>1. client[c].pc = "idle"
    BY <1>32 DEF Reject, LawyerAnswers, NewRequest
  <2>2. \A b \in Clients : b # c => client'[b] = client[b]
    BY <1>32 DEF Reject, TypeOK
  <2>. QED
    BY <1>32, <2>1, <2>2, StrandedFrame DEF Reject, row
<1>33. ASSUME NEW c \in Clients, CancelGoal(c) PROVE WorkNotStranded'
  BY <1>33, RequestMoves, StrandedFrame DEF CancelGoal, NewRequest
<1>34. ASSUME NEW c \in Clients, Dispatch(c) PROVE WorkNotStranded'
  <2>1. \A b \in Clients : b # c => client'[b] = client[b]
    BY <1>34, RequestEnds DEF Dispatch
  <2>. QED
    BY <1>34, <2>1, StrandedSend DEF Dispatch
<1>35. ASSUME NEW c \in Clients, ConfirmBrief(c) PROVE WorkNotStranded'
  BY <1>35, StrandedSend DEF ConfirmBrief
<1>36. ASSUME NEW c \in Clients, Approve(c) PROVE WorkNotStranded'
  BY <1>36, StrandedSend DEF Approve
<1>37. ASSUME NEW c \in Clients, ConfirmPlan(c) PROVE WorkNotStranded'
  <2>1. /\ Send("approve") /\ client[c].pc = "idle"
        /\ \A b \in Clients : b # c => client'[b] = client[b]
    BY <1>37, RequestMoves DEF ConfirmPlan, Send, LawyerAnswers, NewRequest
  <2>. QED
    BY <1>37, <2>1, StrandedSend DEF ConfirmPlan
<1>38. ASSUME NEW c \in Clients, EditCommit(c) PROVE WorkNotStranded'
  BY <1>38, CommittedMoves, StrandedFrame DEF EditCommit, row
<1>39. ASSUME NEW c \in Clients, RejectCommit(c) PROVE WorkNotStranded'
  <2>1. CASE client[c].escalate
    BY <1>39, <2>1, StrandedOver DEF RejectCommit, InProgress
  <2>2. CASE ~client[c].escalate
    <3>1. /\ wfStatus' = "REVISING"
          /\ client'[c].pc = "dispatch" /\ client'[c].msg = "reject"
      BY <1>39, <2>2, CommittedMoves DEF RejectCommit
    <3>. QED
      BY <3>1 DEF WorkNotStranded
  <2>. QED
    BY <2>1, <2>2
<1>40. CASE ExpireAmbiguity
  BY <1>40, StrandedOver DEF ExpireAmbiguity, InProgress
<1>41. CASE UNCHANGED vars
  BY <1>41, StrandedFrame DEF vars, row
<1>42. ASSUME NEW c \in Clients, ResumeGoal(c) PROVE WorkNotStranded'
  BY <1>42, RequestEnds, StrandedFrame DEF ResumeGoal
<1>43. ASSUME NEW c \in Clients, RequestLost(c) PROVE WorkNotStranded'
  BY <1>43, RequestEnds, StrandedFrame DEF RequestLost
<1>. QED
  BY <1>1, <1>2, <1>3, <1>4, <1>5, <1>6, <1>7, <1>8, <1>9, <1>10, <1>11,
     <1>12, <1>13, <1>14, <1>15, <1>16, <1>17, <1>18, <1>19, <1>20, <1>21,
     <1>22, <1>23, <1>24, <1>25, <1>26, <1>27, <1>28, <1>29, <1>30, <1>31,
     <1>32, <1>33, <1>34, <1>35, <1>36, <1>37, <1>38, <1>39, <1>40, <1>41,
     <1>42, <1>43 DEF Next, Task, NewCall, Handler

(* A status that claims work is under way has a message, a task or a reject   *)
(* about to send behind it, or that very task or reject was lost: for any     *)
(* number of lost workers, refused messages, dying requests and racing calls. *)
THEOREM WorkNeverStranded == Spec => []WorkNotStranded
<1>. QED
  BY TypeInit, TypeStep, StrandedInit, StrandedStep, PTL DEF Spec

-----------------------------------------------------------------------------
(* RouteMatchesAnswer, for a patient lawyer and workers that are not lost.    *)

(* Nothing is in flight but the request c and cancellations.                  *)
Alone(c) ==
    /\ queue = <<>>
    /\ NoTask
    /\ \A b \in Clients : b # c => client[b].pc \in Aside

LEMMA RequestAlone ==
  ASSUME RouteInv, NEW c \in Clients, client[c].pc \notin Aside
  PROVE  Alone(c) /\ goal # "NONE"
BY DEF Aside, RouteInv, OneInFlight, NoTask, NoRequest, Alone

LEMMA LawyerAlone ==
  ASSUME Patient, NEW c \in Clients, LawyerAnswers(c)
  PROVE  Alone(c) /\ client[c].pc = "idle"
BY DEF LawyerAnswers, NewRequest, Quiescent, Alone, NoTask, Aside

(* A step of the running task.                                                *)
LEMMA RouteTask ==
  ASSUME RouteInv, NEW w \in Workers, worker[w].pc # "idle",
         UNCHANGED <<goal, queue, client>>,
         wfStatus' = wfStatus \/ wfStatus' # "NONE",
         \A v \in Workers : v # w => worker'[v] = worker[v],
         worker'[w].pc # "load",
         worker'[w].pc \in DraftSteps => worker'[w].msg \in {"confirm", "reject"},
         worker'[w].pc \in ExportSteps => worker'[w].msg = "approve"
  PROVE  RouteInv'
<1>1. /\ goal # "NONE" /\ wfStatus # "NONE" /\ queue = <<>> /\ NoRequest
      /\ \A v \in Workers : v # w => worker[v].pc = "idle"
  BY DEF RouteInv, OneInFlight, NoTask
<1>2. OneInFlight'
  BY <1>1 DEF OneInFlight, NoTask, NoRequest
<1>3. RouteMatchesAnswer'
  BY <1>1 DEF RouteMatchesAnswer, DraftSteps, ExportSteps
<1>. QED
  BY <1>1, <1>2, <1>3 DEF RouteInv, NoRequest, Aside

(* A step of a request that sends nothing.                                    *)
LEMMA RouteRequest ==
  ASSUME TypeOK, RouteInv, NEW c \in Clients, UNCHANGED <<queue, worker>>,
         \A b \in Clients : b # c => client'[b] = client[b],
         goal' # "NONE",
         client'[c].pc \in Aside \/ Alone(c),
         \/ wfStatus' = wfStatus
         \/ wfStatus' = "CANCELLED" /\ wfStatus # "NONE"
         \/ wfStatus' # "NONE" /\ Alone(c),
         client'[c].pc \in {"classify", "session", "answer", "workflow"}
            => wfStatus' = "NONE",
         client'[c].pc = "dispatch" =>
           /\ client'[c].msg \in Senders
           /\ wfStatus' \in Expected(client'[c].msg),
         client'[c].pc = "edit" => wfStatus' \in Expected("approve")
  PROVE  RouteInv'
<1>1. OneInFlight'
  BY DEF RouteInv, OneInFlight, NoTask, NoRequest, Alone
<1>2. RouteMatchesAnswer'
  BY DEF RouteInv, RouteMatchesAnswer
<1>3. wfStatus' = "NONE" => queue' = <<>> /\ NoTask'
  BY DEF RouteInv, NoTask
<1>4. \A b \in Clients :
        /\ client'[b].pc \in {"classify", "session", "answer", "workflow"}
             => wfStatus' = "NONE"
        /\ client'[b].pc = "dispatch" => wfStatus' \in Expected(client'[b].msg)
        /\ client'[b].pc = "edit" => wfStatus' \in Expected("approve")
  <2>1. \A b \in Clients : client[b].msg \in Senders
    BY DEF TypeOK, Calls
  <2>. QED
    BY <2>1 DEF RouteInv, Alone, Expected, Senders, Aside
<1>5. queue' # <<>> => wfStatus' \in Expected(Head(queue'))
  <2>1. queue # <<>> => Head(queue) \in Senders
    BY DEF TypeOK
  <2>. QED
    BY <2>1 DEF RouteInv, Alone, Expected, Senders
<1>6. \A w \in Workers : worker'[w].pc = "load" => wfStatus' \in Expected(worker'[w].msg)
  <2>1. \A w \in Workers : worker[w].msg \in Senders
    BY DEF TypeOK, Jobs
  <2>. QED
    BY <2>1 DEF RouteInv, Alone, NoTask, Expected, Senders
<1>. QED
  BY <1>1, <1>2, <1>3, <1>4, <1>5, <1>6 DEF RouteInv, Expected

(* The step of a request that sends its message.                              *)
LEMMA RouteSend ==
  ASSUME TypeOK, RouteInv, NEW c \in Clients, NEW m \in Senders, Send(m),
         UNCHANGED worker, Alone(c), goal' # "NONE",
         client'[c].pc \in {"idle", "resume"},
         \A b \in Clients : b # c => client'[b] = client[b],
         wfStatus' \in Expected(m)
  PROVE  RouteInv'
<1>1. queue' = <<>> \/ queue' = <<m>>
  BY DEF Send, Sent, Refused, Alone
<1>2. queue' # <<>> => Len(queue') = 1 /\ Head(queue') = m
  BY <1>1
<1>3. NoTask' /\ NoRequest'
  BY DEF Alone, NoTask, NoRequest, Aside
<1>4. wfStatus' # "NONE"
  BY DEF Expected, Senders
<1>5. OneInFlight'
  BY <1>2, <1>3 DEF OneInFlight, NoTask, NoRequest
<1>6. RouteMatchesAnswer'
  BY <1>3 DEF RouteMatchesAnswer, NoTask, DraftSteps, ExportSteps
<1>. QED
  BY <1>2, <1>3, <1>4, <1>5, <1>6 DEF RouteInv, NoTask, NoRequest, Aside

LEMMA RouteInit == Init => RouteInv
BY DEF Init, RouteInv, OneInFlight, Aside, NoTask, NoRequest, RouteMatchesAnswer,
       IdleJob, IdleRequest, DraftSteps, ExportSteps

LEMMA RouteStep ==
  Patient /\ MaxCrashes = 0 /\ TypeOK /\ RouteInv /\ [Next]_vars => RouteInv'
<1> SUFFICES ASSUME Patient, MaxCrashes = 0, TypeOK, RouteInv, [Next]_vars
             PROVE  RouteInv'
  OBVIOUS
<1>1. ASSUME NEW w \in Workers, Deliver(w) PROVE RouteInv'
  <2>1. /\ queue # <<>> /\ Len(queue) = 1 /\ NoTask /\ NoRequest
        /\ wfStatus \in Expected(Head(queue)) /\ goal # "NONE" /\ wfStatus # "NONE"
    BY <1>1 DEF Deliver, RouteInv, OneInFlight
  <2>2. queue' = <<>>
    BY <1>1, <2>1 DEF Deliver, TypeOK
  <2>3. /\ worker'[w].pc = "load" /\ worker'[w].msg = Head(queue)
        /\ \A v \in Workers : v # w => worker'[v].pc = "idle"
    BY <1>1, <2>1 DEF Deliver, TypeOK, IdleJob, NoTask
  <2>4. UNCHANGED <<goal, wfStatus, client>>
    BY <1>1 DEF Deliver, row
  <2>5. OneInFlight'
    BY <2>1, <2>2, <2>3, <2>4 DEF OneInFlight, NoRequest, NoTask
  <2>6. RouteMatchesAnswer'
    BY <2>3 DEF RouteMatchesAnswer, DraftSteps, ExportSteps
  <2>. QED
    BY <2>1, <2>2, <2>3, <2>4, <2>5, <2>6 DEF RouteInv, NoRequest, Expected
<1>2. ASSUME NEW w \in Workers, Load(w) PROVE RouteInv'
  <2>1. wfStatus \in Expected(worker[w].msg) /\ worker[w].msg \in Senders
    BY <1>2 DEF Load, RouteInv, TypeOK, Jobs
  <2>2. /\ Route(wfStatus) # "load"
        /\ Route(wfStatus) \in DraftSteps => worker[w].msg \in {"confirm", "reject"}
        /\ Route(wfStatus) \in ExportSteps => worker[w].msg = "approve"
    BY <2>1 DEF Expected, Senders, Route, DraftSteps, ExportSteps
  <2>. QED
    BY <1>2, <2>2, GotoMoves, RouteTask DEF Load, row
<1>3. ASSUME NEW w \in Workers, Ack(w) PROVE RouteInv'
  BY <1>3, JobEnds, RouteTask DEF Ack, row, DraftSteps, ExportSteps
<1>4. ASSUME NEW w \in Workers, WorkerLost(w) PROVE RouteInv'
  BY <1>4 DEF WorkerLost, TypeOK
<1>5. ASSUME NEW w \in Workers, TaskError(w) PROVE RouteInv'
  BY <1>5, GotoMoves, RouteTask DEF TaskError, DraftSteps, ExportSteps
<1>6. ASSUME NEW w \in Workers, Classify(w) PROVE RouteInv'
  <2>1. /\ worker'[w].pc \in {"gate", "ack", "retrieve"}
        /\ \A v \in Workers : v # w => worker'[v] = worker[v]
    BY <1>6 DEF Classify, TypeOK, Jobs
  <2>. QED
    BY <1>6, <2>1, RouteTask DEF Classify, DraftSteps, ExportSteps
<1>7. ASSUME NEW w \in Workers, AmbiguityGate(w) PROVE RouteInv'
  BY <1>7, SetStatusMoves, RouteTask DEF AmbiguityGate, DraftSteps, ExportSteps
<1>8. ASSUME NEW w \in Workers, Retrieve(w) PROVE RouteInv'
  BY <1>8, SetStatusMoves, RouteTask DEF Retrieve, DraftSteps, ExportSteps
<1>9. ASSUME NEW w \in Workers, Synthesize(w) PROVE RouteInv'
  BY <1>9, SetStatusMoves, RouteTask DEF Synthesize, DraftSteps, ExportSteps
<1>10. ASSUME NEW w \in Workers, Answer(w) PROVE RouteInv'
  BY <1>10, SetStatusMoves, RouteTask DEF Answer, DraftSteps, ExportSteps
<1>11. ASSUME NEW w \in Workers, Expand(w) PROVE RouteInv'
  BY <1>11, SetStatusMoves, RouteTask DEF Expand, DraftSteps, ExportSteps
<1>12. ASSUME NEW w \in Workers, DefinedTerms(w) PROVE RouteInv'
  BY <1>12, SetStatusMoves, RouteTask DEF DefinedTerms, DraftSteps, ExportSteps
<1>13. ASSUME NEW w \in Workers, Detect(w) PROVE RouteInv'
  BY <1>13, SetStatusMoves, RouteTask DEF Detect, DraftSteps, ExportSteps
<1>14. ASSUME NEW w \in Workers, WriteBrief(w) PROVE RouteInv'
  BY <1>14, GotoMoves, RouteTask DEF WriteBrief, DraftSteps, ExportSteps
<1>15. ASSUME NEW w \in Workers, Revise(w) PROVE RouteInv'
  <2>1. worker[w].msg \in {"confirm", "reject"}
    BY <1>15 DEF Revise, RouteInv, RouteMatchesAnswer, DraftSteps
  <2>. QED
    BY <1>15, <2>1, SetStatusMoves, RouteTask DEF Revise, DraftSteps, ExportSteps
<1>16. ASSUME NEW w \in Workers, DraftStart(w) PROVE RouteInv'
  <2>1. worker[w].msg \in {"confirm", "reject"}
    BY <1>16 DEF DraftStart, RouteInv, RouteMatchesAnswer, DraftSteps
  <2>. QED
    BY <1>16, <2>1, SetStatusMoves, RouteTask DEF DraftStart, DraftSteps, ExportSteps
<1>17. ASSUME NEW w \in Workers, PauseForApproval(w) PROVE RouteInv'
  <2>1. worker[w].msg \in {"confirm", "reject"}
    BY <1>17 DEF PauseForApproval, RouteInv, RouteMatchesAnswer, DraftSteps
  <2>. QED
    BY <1>17, <2>1, SetStatusMoves, RouteTask DEF PauseForApproval, DraftSteps, ExportSteps
<1>18. ASSUME NEW w \in Workers, InsertActions(w) PROVE RouteInv'
  <2>1. worker[w].pc # "idle" /\ worker[w].msg \in {"confirm", "reject"}
    BY <1>18 DEF InsertActions, RouteInv, RouteMatchesAnswer, DraftSteps
  <2>2. CASE SetStatus(w, "FAILED", "ack")
    BY <2>1, <2>2, SetStatusMoves, RouteTask DEF DraftSteps, ExportSteps
  <2>3. CASE ~SetStatus(w, "FAILED", "ack")
    <3>1. Goto(w, "save") /\ UNCHANGED <<row, queue, client>>
      BY <1>18, <2>3 DEF InsertActions
    <3>. QED
      BY <2>1, <3>1, GotoMoves, RouteTask DEF row, ExportSteps
  <2>. QED
    BY <2>2, <2>3
<1>19. ASSUME NEW w \in Workers, SaveDraft(w) PROVE RouteInv'
  <2>1. worker[w].pc # "idle" /\ worker[w].msg \in {"confirm", "reject"}
    BY <1>19 DEF SaveDraft, RouteInv, RouteMatchesAnswer, DraftSteps
  <2>2. CASE SetStatus(w, "FAILED", "ack")
    BY <2>1, <2>2, SetStatusMoves, RouteTask DEF DraftSteps, ExportSteps
  <2>3. CASE ~SetStatus(w, "FAILED", "ack")
    <3>1. Goto(w, "pause") /\ UNCHANGED <<row, queue, client>>
      BY <1>19, <2>3 DEF SaveDraft
    <3>. QED
      BY <2>1, <3>1, GotoMoves, RouteTask DEF row, ExportSteps
  <2>. QED
    BY <2>2, <2>3
<1>20. ASSUME NEW w \in Workers, PickApproved(w) PROVE RouteInv'
  <2>1. worker[w].pc = "pick" /\ worker[w].msg = "approve"
    BY <1>20 DEF PickApproved, RouteInv, RouteMatchesAnswer, ExportSteps
  <2>2. /\ worker'[w].pc \in {"ack", "export"} /\ worker'[w].msg = worker[w].msg
        /\ \A v \in Workers : v # w => worker'[v] = worker[v]
    <3>1. CASE Awaiting = {}
      BY <1>20, <3>1, GotoMoves DEF PickApproved
    <3>2. CASE Awaiting # {}
      <4>1. PICK a \in Awaiting : worker' = [worker EXCEPT ![w] = Holding(w, a)]
        BY <1>20, <3>2, GotoMoves DEF PickApproved
      <4>. QED
        BY <4>1 DEF TypeOK, Holding
    <3>. QED
      BY <3>1, <3>2
  <2>. QED
    BY <1>20, <2>1, <2>2, RouteTask DEF PickApproved, row, DraftSteps, ExportSteps
<1>21. ASSUME NEW w \in Workers, Export(w) PROVE RouteInv'
  <2>1. /\ worker[w].pc = "export" /\ UNCHANGED <<goal, queue, client>>
        /\ wfStatus' \in {wfStatus, "COMPLETED"} /\ Goto(w, "ack")
    BY <1>21 DEF Export, row
  <2>. QED
    BY <2>1, GotoMoves, RouteTask DEF DraftSteps, ExportSteps
<1>22. ASSUME NEW c \in Clients, CreateGoal(c) PROVE RouteInv'
  <2>1. Alone(c) /\ wfStatus = "NONE"
    BY <1>22 DEF CreateGoal, RouteInv, OneInFlight, Alone
  <2>. QED
    BY <1>22, <2>1, RequestMoves, RouteRequest DEF CreateGoal
<1>23. ASSUME NEW c \in Clients, ClassifyGoal(c) PROVE RouteInv'
  <2>1. /\ client[c].pc = "classify" /\ client'[c].pc \in {"idle", "session"}
        /\ \A b \in Clients : b # c => client'[b] = client[b]
    BY <1>23 DEF ClassifyGoal, TypeOK, Calls, IdleRequest
  <2>2. Alone(c) /\ goal # "NONE" /\ wfStatus = "NONE"
    BY <2>1, RequestAlone DEF RouteInv, Aside
  <2>. QED
    BY <1>23, <2>1, <2>2, RouteRequest DEF ClassifyGoal
<1>24. ASSUME NEW c \in Clients, CheckSession(c) PROVE RouteInv'
  <2>1. /\ client[c].pc = "session" /\ client'[c].pc \in {"idle", "answer", "workflow"}
        /\ \A b \in Clients : b # c => client'[b] = client[b]
    BY <1>24, RequestMoves, RequestEnds DEF CheckSession
  <2>2. Alone(c) /\ goal # "NONE" /\ wfStatus = "NONE"
    BY <2>1, RequestAlone DEF RouteInv, Aside
  <2>. QED
    BY <1>24, <2>1, <2>2, RouteRequest DEF CheckSession
<1>25. ASSUME NEW c \in Clients, AnswerGoal(c) PROVE RouteInv'
  BY <1>25, RequestEnds, RouteRequest DEF AnswerGoal, Aside
<1>26. ASSUME NEW c \in Clients, CreateWorkflow(c) PROVE RouteInv'
  <2>1. Alone(c) /\ goal # "NONE"
    BY <1>26, RequestAlone DEF CreateWorkflow, Aside
  <2>2. "CLASSIFYING" \in Expected("create") /\ "create" \in Senders
    BY DEF Expected, Senders
  <2>. QED
    BY <1>26, <2>1, <2>2, CommittedMoves, RouteRequest DEF CreateWorkflow
<1>27. ASSUME NEW c \in Clients, Dispatch(c) PROVE RouteInv'
  <2> DEFINE m == client[c].msg
  <2>1. Alone(c) /\ goal # "NONE" /\ wfStatus \in Expected(m)
    BY <1>27, RequestAlone DEF Dispatch, RouteInv, Aside
  <2>2. UNCHANGED <<goal, wfStatus, worker>> /\ Send(m) /\ m \in Senders
    BY <1>27 DEF Dispatch, TypeOK, Calls
  <2>3. /\ client'[c].pc = "idle"
        /\ \A b \in Clients : b # c => client'[b] = client[b]
    BY <1>27, RequestEnds DEF Dispatch
  <2>4. wfStatus' \in Expected(m)
    BY <2>1, <2>2 DEF Expected
  <2>. HIDE DEF m
  <2>. QED
    BY <2>1, <2>2, <2>3, <2>4, RouteSend
<1>28. ASSUME NEW c \in Clients, ConfirmIntent(c) PROVE RouteInv'
  <2>. QED
    BY <1>28, RouteRequest DEF ConfirmIntent, NewRequest, Aside
<1>29. ASSUME NEW c \in Clients, ConfirmBrief(c) PROVE RouteInv'
  <2>1. Alone(c) /\ client[c].pc = "idle"
    BY <1>29, LawyerAlone DEF ConfirmBrief
  <2>2. /\ goal' # "NONE" /\ UNCHANGED <<wfStatus, worker, client>>
        /\ wfStatus = "AWAITING_BRIEF_CONFIRMATION"
    BY <1>29 DEF ConfirmBrief, row, RouteInv, OneInFlight
  <2>3. wfStatus' \in Expected("confirm")
    BY <2>2 DEF Expected
  <2>4. Send("confirm")
    BY <1>29 DEF ConfirmBrief
  <2>. QED
    BY <2>1, <2>2, <2>3, <2>4, RouteSend DEF Senders
<1>30. ASSUME NEW c \in Clients, Approve(c) PROVE RouteInv'
  <2>1. Alone(c) /\ client[c].pc = "idle"
    BY <1>30, LawyerAlone DEF Approve
  <2>2. /\ goal' # "NONE" /\ UNCHANGED <<wfStatus, worker, client>>
        /\ wfStatus = "AWAITING_APPROVAL"
    BY <1>30 DEF Approve, row, RouteInv, OneInFlight
  <2>3. wfStatus' \in Expected("approve")
    BY <2>2 DEF Expected
  <2>4. Send("approve")
    BY <1>30 DEF Approve
  <2>. QED
    BY <2>1, <2>2, <2>3, <2>4, RouteSend DEF Senders
<1>31. ASSUME NEW c \in Clients, ConfirmPlan(c) PROVE RouteInv'
  <2>1. Alone(c) /\ client[c].pc = "idle"
    BY <1>31, LawyerAlone DEF ConfirmPlan
  <2>2. /\ goal' # "NONE" /\ UNCHANGED <<wfStatus, worker>>
        /\ wfStatus = "AWAITING_APPROVAL"
    BY <1>31 DEF ConfirmPlan, RouteInv, OneInFlight
  <2>3. wfStatus' \in Expected("approve")
    BY <2>2 DEF Expected
  <2>4. /\ Send("approve")
        /\ client'[c].pc \in {"idle", "resume"}
        /\ \A b \in Clients : b # c => client'[b] = client[b]
    BY <1>31, <2>1, RequestMoves DEF ConfirmPlan, Send
  <2>. QED
    BY <2>1, <2>2, <2>3, <2>4, RouteSend DEF Senders
<1>32. ASSUME NEW c \in Clients, AbortBrief(c) PROVE RouteInv'
  <2>1. Alone(c)
    BY <1>32, LawyerAlone DEF AbortBrief
  <2>2. goal # "NONE"
    BY <1>32 DEF AbortBrief, RouteInv, OneInFlight
  <2>. QED
    BY <1>32, <2>1, <2>2, RequestMoves, RouteRequest DEF AbortBrief, row
<1>33. ASSUME NEW c \in Clients, AbortCommit(c) PROVE RouteInv'
  <2>1. Alone(c) /\ goal # "NONE"
    BY <1>33, RequestAlone DEF AbortCommit, Aside
  <2>. QED
    BY <1>33, <2>1, RequestEnds, RouteRequest DEF AbortCommit
<1>34. ASSUME NEW c \in Clients, ApproveEdit(c) PROVE RouteInv'
  <2>1. Alone(c)
    BY <1>34, LawyerAlone DEF ApproveEdit
  <2>2. /\ client'[c].pc = "edit"
        /\ \A b \in Clients : b # c => client'[b] = client[b]
    BY <1>34 DEF ApproveEdit, TypeOK, Calls
  <2>3. /\ goal' # "NONE" /\ UNCHANGED <<wfStatus, queue, worker>>
        /\ wfStatus' \in Expected("approve")
    BY <1>34 DEF ApproveEdit, row, RouteInv, OneInFlight, Expected
  <2>. QED
    BY <2>1, <2>2, <2>3, RouteRequest
<1>35. ASSUME NEW c \in Clients, EditCommit(c) PROVE RouteInv'
  <2>1. Alone(c) /\ goal # "NONE" /\ wfStatus \in Expected("approve")
    BY <1>35, RequestAlone DEF EditCommit, RouteInv, Aside
  <2>2. /\ UNCHANGED <<goal, wfStatus, queue, worker>>
        /\ wfStatus' \in Expected("approve")
    BY <1>35, <2>1 DEF EditCommit, row, Expected
  <2>3. /\ client'[c].pc = "dispatch" /\ client'[c].msg = "approve"
        /\ \A b \in Clients : b # c => client'[b] = client[b]
    BY <1>35, CommittedMoves DEF EditCommit
  <2>. QED
    BY <2>1, <2>2, <2>3, RouteRequest DEF Senders
<1>36. ASSUME NEW c \in Clients, Reject(c) PROVE RouteInv'
  <2>1. Alone(c)
    BY <1>36, LawyerAlone DEF Reject
  <2>2. /\ client'[c].pc = "reject"
        /\ \A b \in Clients : b # c => client'[b] = client[b]
    BY <1>36 DEF Reject, TypeOK, IdleRequest
  <2>3. goal' # "NONE" /\ UNCHANGED <<wfStatus, queue, worker>>
    BY <1>36 DEF Reject, row, RouteInv, OneInFlight
  <2>. QED
    BY <2>1, <2>2, <2>3, RouteRequest
<1>37. ASSUME NEW c \in Clients, RejectCommit(c) PROVE RouteInv'
  <2>1. Alone(c) /\ goal # "NONE" /\ UNCHANGED <<goal, queue, worker>>
    BY <1>37, RequestAlone DEF RejectCommit, Aside
  <2>2. CASE client[c].escalate
    <3>1. wfStatus' = "ESCALATED" /\ client' = [client EXCEPT ![c] = IdleRequest]
      BY <1>37, <2>2 DEF RejectCommit
    <3>. QED
      BY <2>1, <3>1, RequestEnds, RouteRequest
  <2>3. CASE ~client[c].escalate
    <3>1. /\ wfStatus' = "REVISING" /\ Committed(c, "reject")
          /\ "REVISING" \in Expected("reject") /\ "reject" \in Senders
      BY <1>37, <2>3 DEF RejectCommit, Expected, Senders
    <3>. QED
      BY <2>1, <3>1, CommittedMoves, RouteRequest
  <2>. QED
    BY <2>2, <2>3
<1>38. ASSUME NEW c \in Clients, CancelGoal(c) PROVE RouteInv'
  BY <1>38, RequestMoves, RouteRequest DEF CancelGoal, Aside
<1>39. ASSUME NEW c \in Clients, CancelWorkflow(c) PROVE RouteInv'
  <2>1. goal # "NONE"
    BY <1>39 DEF CancelWorkflow, RouteInv, OneInFlight
  <2>. QED
    BY <1>39, <2>1, RequestEnds, RouteRequest DEF CancelWorkflow, Aside
<1>40. CASE ExpireAmbiguity
  <2>1. UNCHANGED <<goal, queue, worker, client>> /\ wfStatus' = "CANCELLED"
    BY <1>40 DEF ExpireAmbiguity
  <2>2. wfStatus = "AWAITING_INTENT_CONFIRMATION"
    BY <1>40 DEF ExpireAmbiguity
  <2>3. \A m \in Senders : "CANCELLED" \in Expected(m)
    BY DEF Expected, Senders
  <2>4. \A w \in Workers : worker[w].msg \in Senders
    BY DEF TypeOK, Jobs
  <2>5. queue # <<>> => Head(queue) \in Senders
    BY DEF TypeOK
  <2>6. OneInFlight' /\ RouteMatchesAnswer'
    BY <2>1, <2>2 DEF RouteInv, OneInFlight, NoTask, NoRequest, RouteMatchesAnswer
  <2>7. \A c \in Clients : client[c].msg \in Senders
    BY DEF TypeOK, Calls
  <2>8. "approve" \in Senders
    BY DEF Senders
  <2>. QED
    BY <2>1, <2>2, <2>3, <2>4, <2>5, <2>6, <2>7, <2>8 DEF RouteInv
<1>41. CASE UNCHANGED vars
  <2>1. UNCHANGED <<goal, wfStatus, queue, worker, client>>
    BY <1>41 DEF vars, row
  <2>. QED
    BY <2>1 DEF RouteInv, OneInFlight, NoTask, NoRequest, RouteMatchesAnswer, Expected
<1>42. ASSUME NEW c \in Clients, ResumeGoal(c) PROVE RouteInv'
  BY <1>42, RequestEnds, RouteRequest DEF ResumeGoal, Aside
<1>43. ASSUME NEW c \in Clients, RequestLost(c) PROVE RouteInv'
  <2>1. goal # "NONE"
    BY <1>43 DEF RequestLost, RouteInv, OneInFlight
  <2>. QED
    BY <1>43, <2>1, RequestEnds, RouteRequest DEF RequestLost, Aside
<1>. QED
  BY <1>1, <1>2, <1>3, <1>4, <1>5, <1>6, <1>7, <1>8, <1>9, <1>10, <1>11,
     <1>12, <1>13, <1>14, <1>15, <1>16, <1>17, <1>18, <1>19, <1>20, <1>21,
     <1>22, <1>23, <1>24, <1>25, <1>26, <1>27, <1>28, <1>29, <1>30, <1>31,
     <1>32, <1>33, <1>34, <1>35, <1>36, <1>37, <1>38, <1>39, <1>40, <1>41,
     <1>42, <1>43
     DEF Next, Task, NewCall, Handler

(* With a lawyer who waits for each answer to be worked off, and workers that *)
(* are not lost, the status a task reads is the one its message was sent for: *)
(* no draft without a confirmed brief or a rejection, no export without an    *)
(* approval.  AgentWorkflow_v_redelivery drops the second premise.            *)
THEOREM RouteAlwaysMatches ==
  Patient /\ MaxCrashes = 0 => (Spec => []RouteMatchesAnswer)
<1>. SUFFICES ASSUME Patient, MaxCrashes = 0 PROVE Spec => []RouteMatchesAnswer
  OBVIOUS
<1>1. TypeOK /\ RouteInv /\ [Next]_vars => RouteInv'
  BY RouteStep
<1>2. RouteInv => RouteMatchesAnswer
  BY DEF RouteInv
<1>. QED
  BY <1>1, <1>2, TypeInit, TypeStep, RouteInit, PTL DEF Spec

-----------------------------------------------------------------------------
(* ApprovalPauseHasDraft, for one worker.                                     *)

LEMMA PickMoves ==
  ASSUME TypeOK, NEW w \in Workers, PickApproved(w)
  PROVE  /\ worker'[w].pc \in {"ack", "export"} /\ worker'[w].msg = worker[w].msg
         /\ worker'[w].pc = "export" => Awaiting # {}
         /\ \A v \in Workers : v # w => worker'[v] = worker[v]
<1>1. CASE Awaiting = {}
  BY <1>1, GotoMoves DEF PickApproved
<1>2. CASE Awaiting # {}
  <2>1. PICK a \in Awaiting : worker' = [worker EXCEPT ![w] = Holding(w, a)]
    BY <1>2 DEF PickApproved
  <2>. QED
    BY <1>2, <2>1 DEF TypeOK, Holding
<1>. QED
  BY <1>1, <1>2

(* An edited draft leaves every row where it was.                             *)
LEMMA EditKeepsStatus ==
  ASSUME TypeOK, NEW c \in Clients, EditCommit(c)
  PROVE  \A x \in Actions : actions'[x].status = actions[x].status
<1> DEFINE a == client[c].action
           d == lastDraft + 1
<1>1. actions' = [actions EXCEPT ![a].draft = d]
  BY DEF EditCommit
<1>2. actions \in [Actions -> ActionRows]
  BY DEF TypeOK
<1>. HIDE DEF a, d
<1>. QED
  BY <1>1, <1>2 DEF ActionRows

(* A step that moves no row to another status, does not pause the workflow    *)
(* and brings no task to a step the invariant speaks of.                      *)
LEMMA PauseFrame ==
  ASSUME PauseInv,
         \A x \in Actions : actions'[x].status = actions[x].status,
         wfStatus' = wfStatus \/ wfStatus' # "AWAITING_APPROVAL",
         \A v \in Workers : \/ worker'[v] = worker[v]
                            \/ worker'[v].pc \notin {"insert", "save", "pause"}
  PROVE  PauseInv'
<1>1. Existing' = Existing /\ Awaiting' = Awaiting
  BY DEF Existing, Awaiting
<1>. QED
  BY <1>1 DEF PauseInv, HasDraft

LEMMA PauseInit == Init => PauseInv
BY DEF Init, PauseInv, IdleJob

LEMMA PauseStep ==
  ASSUME \A v, w \in Workers : v = w, TypeOK, PauseInv, [Next]_vars
  PROVE  PauseInv'
<1>1. ASSUME NEW w \in Workers, Deliver(w) PROVE PauseInv'
  <2>1. worker'[w].pc = "load" /\ \A v \in Workers : v # w => worker'[v] = worker[v]
    BY <1>1 DEF Deliver, TypeOK, IdleJob
  <2>. QED
    BY <1>1, <2>1, PauseFrame DEF Deliver, row
<1>2. ASSUME NEW w \in Workers, Load(w) PROVE PauseInv'
  <2>1. Route(wfStatus) \notin {"insert", "save", "pause"}
    BY DEF Route
  <2>. QED
    BY <1>2, <2>1, GotoMoves, PauseFrame DEF Load, row
<1>3. ASSUME NEW w \in Workers, Ack(w) PROVE PauseInv'
  BY <1>3, JobEnds, PauseFrame DEF Ack, row
<1>4. ASSUME NEW w \in Workers, WorkerLost(w) PROVE PauseInv'
  BY <1>4, JobEnds, PauseFrame DEF WorkerLost, row
<1>5. ASSUME NEW w \in Workers, TaskError(w) PROVE PauseInv'
  BY <1>5, GotoMoves, PauseFrame DEF TaskError
<1>6. ASSUME NEW w \in Workers, Classify(w) PROVE PauseInv'
  <2>1. /\ worker'[w].pc \in {"gate", "ack", "retrieve"}
        /\ \A v \in Workers : v # w => worker'[v] = worker[v]
    BY <1>6 DEF Classify, TypeOK, Jobs
  <2>. QED
    BY <1>6, <2>1, PauseFrame DEF Classify
<1>7. ASSUME NEW w \in Workers, AmbiguityGate(w) PROVE PauseInv'
  BY <1>7, SetStatusMoves, PauseFrame DEF AmbiguityGate
<1>8. ASSUME NEW w \in Workers, Retrieve(w) PROVE PauseInv'
  BY <1>8, SetStatusMoves, PauseFrame DEF Retrieve
<1>9. ASSUME NEW w \in Workers, Synthesize(w) PROVE PauseInv'
  BY <1>9, SetStatusMoves, PauseFrame DEF Synthesize
<1>10. ASSUME NEW w \in Workers, Answer(w) PROVE PauseInv'
  BY <1>10, SetStatusMoves, PauseFrame DEF Answer
<1>11. ASSUME NEW w \in Workers, Expand(w) PROVE PauseInv'
  BY <1>11, SetStatusMoves, PauseFrame DEF Expand
<1>12. ASSUME NEW w \in Workers, DefinedTerms(w) PROVE PauseInv'
  BY <1>12, SetStatusMoves, PauseFrame DEF DefinedTerms
<1>13. ASSUME NEW w \in Workers, Detect(w) PROVE PauseInv'
  BY <1>13, SetStatusMoves, PauseFrame DEF Detect
<1>14. ASSUME NEW w \in Workers, WriteBrief(w) PROVE PauseInv'
  BY <1>14, GotoMoves, PauseFrame DEF WriteBrief
<1>15. ASSUME NEW w \in Workers, Revise(w) PROVE PauseInv'
  BY <1>15, SetStatusMoves, PauseFrame DEF Revise
<1>16. ASSUME NEW w \in Workers, DraftStart(w) PROVE PauseInv'
  <2>1. /\ UNCHANGED actions /\ wfStatus' = "DRAFTING" /\ worker'[w].pc = "insert"
        /\ \A v \in Workers : v # w => worker'[v] = worker[v]
    BY <1>16, SetStatusMoves DEF DraftStart
  <2>. QED
    BY <2>1 DEF PauseInv, HasDraft, Existing, Awaiting
<1>17. ASSUME NEW w \in Workers, InsertActions(w) PROVE PauseInv'
  <2>1. CASE SetStatus(w, "FAILED", "ack")
    BY <2>1, SetStatusMoves, PauseFrame
  <2>2. CASE ~SetStatus(w, "FAILED", "ack")
    <3>1. worker[w].pc = "insert" /\ Goto(w, "save") /\ UNCHANGED row
      BY <1>17, <2>2 DEF InsertActions
    <3>2. wfStatus # "AWAITING_APPROVAL" /\ wfStatus' = wfStatus
      BY <3>1 DEF PauseInv, row
    <3>3. \A v \in Workers : worker'[v].pc # "pause"
      BY <3>1, GotoMoves
    <3>. QED
      BY <3>2, <3>3 DEF PauseInv
  <2>. QED
    BY <2>1, <2>2
<1>18. ASSUME NEW w \in Workers, SaveDraft(w) PROVE PauseInv'
  <2>1. CASE SetStatus(w, "FAILED", "ack")
    BY <2>1, SetStatusMoves, PauseFrame
  <2>2. CASE ~SetStatus(w, "FAILED", "ack")
    <3>1. worker[w].pc = "save" /\ Goto(w, "pause") /\ UNCHANGED row
      BY <1>18, <2>2 DEF SaveDraft
    <3>2. wfStatus' # "AWAITING_APPROVAL"
      BY <3>1 DEF PauseInv, row
    <3>3. HasDraft'
      <4>1. CASE Existing = {} /\ UNCHANGED actions
        BY <4>1 DEF HasDraft, Existing
      <4>2. CASE \E a \in Existing : actions' = [actions EXCEPT ![a] = Drafted(a)]
        <5>1. PICK a \in Existing : actions' = [actions EXCEPT ![a] = Drafted(a)]
          BY <4>2
        <5>2. a \in Actions /\ actions'[a].status = "AWAITING_APPROVAL"
          BY <5>1 DEF Existing, Drafted, TypeOK
        <5>. QED
          BY <5>2 DEF HasDraft, Awaiting
      <4>. QED
        BY <1>18, <2>2, <4>1, <4>2 DEF SaveDraft
    <3>. QED
      BY <3>2, <3>3 DEF PauseInv
  <2>. QED
    BY <2>1, <2>2
<1>19. ASSUME NEW w \in Workers, PauseForApproval(w) PROVE PauseInv'
  <2>1. /\ worker[w].pc = "pause" /\ UNCHANGED actions /\ worker'[w].pc = "ack"
        /\ \A v \in Workers : v = w
    BY <1>19, SetStatusMoves DEF PauseForApproval
  <2>2. HasDraft'
    BY <2>1 DEF PauseInv, HasDraft, Existing, Awaiting
  <2>. QED
    BY <2>1, <2>2 DEF PauseInv
<1>20. ASSUME NEW w \in Workers, PickApproved(w) PROVE PauseInv'
  <2>1. /\ worker'[w].pc \in {"ack", "export"}
        /\ \A v \in Workers : v # w => worker'[v] = worker[v]
    BY <1>20, PickMoves
  <2>. QED
    BY <1>20, <2>1, PauseFrame DEF PickApproved, row
<1>21. ASSUME NEW w \in Workers, Export(w) PROVE PauseInv'
  <2>1. worker'[w].pc = "ack" /\ \A v \in Workers : v = w
    BY <1>21, GotoMoves DEF Export
  <2>2. CASE UNCHANGED <<row, actions>>
    BY <2>1, <2>2, PauseFrame DEF row
  <2>3. CASE wfStatus' = "COMPLETED"
    BY <2>1, <2>3 DEF PauseInv
  <2>. QED
    BY <1>21, <2>2, <2>3 DEF Export
<1>22. ASSUME NEW c \in Clients, CreateGoal(c) PROVE PauseInv'
  BY <1>22, PauseFrame DEF CreateGoal
<1>23. ASSUME NEW c \in Clients, ClassifyGoal(c) PROVE PauseInv'
  BY <1>23, PauseFrame DEF ClassifyGoal
<1>24. ASSUME NEW c \in Clients, CheckSession(c) PROVE PauseInv'
  BY <1>24, PauseFrame DEF CheckSession
<1>25. ASSUME NEW c \in Clients, AnswerGoal(c) PROVE PauseInv'
  BY <1>25, PauseFrame DEF AnswerGoal
<1>26. ASSUME NEW c \in Clients, CreateWorkflow(c) PROVE PauseInv'
  BY <1>26, PauseFrame DEF CreateWorkflow
<1>27. ASSUME NEW c \in Clients, Dispatch(c) PROVE PauseInv'
  BY <1>27, PauseFrame DEF Dispatch, row
<1>28. ASSUME NEW c \in Clients, ConfirmIntent(c) PROVE PauseInv'
  BY <1>28, PauseFrame DEF ConfirmIntent, row
<1>29. ASSUME NEW c \in Clients, ConfirmBrief(c) PROVE PauseInv'
  BY <1>29, PauseFrame DEF ConfirmBrief, row
<1>30. ASSUME NEW c \in Clients, AbortBrief(c) PROVE PauseInv'
  BY <1>30, PauseFrame DEF AbortBrief, row
<1>31. ASSUME NEW c \in Clients, AbortCommit(c) PROVE PauseInv'
  BY <1>31, PauseFrame DEF AbortCommit
<1>32. ASSUME NEW c \in Clients, Approve(c) PROVE PauseInv'
  BY <1>32, PauseFrame DEF Approve, row
<1>33. ASSUME NEW c \in Clients, ApproveEdit(c) PROVE PauseInv'
  BY <1>33, PauseFrame DEF ApproveEdit, row
<1>34. ASSUME NEW c \in Clients, EditCommit(c) PROVE PauseInv'
  <2>1. \A x \in Actions : actions'[x].status = actions[x].status
    BY <1>34, EditKeepsStatus
  <2>. QED
    BY <1>34, <2>1, PauseFrame DEF EditCommit, row
<1>35. ASSUME NEW c \in Clients, ConfirmPlan(c) PROVE PauseInv'
  BY <1>35, PauseFrame DEF ConfirmPlan, row
<1>36. ASSUME NEW c \in Clients, Reject(c) PROVE PauseInv'
  BY <1>36, PauseFrame DEF Reject, row
<1>37. ASSUME NEW c \in Clients, RejectCommit(c) PROVE PauseInv'
  <2>1. \A x \in Actions : actions'[x].status = actions[x].status
    BY <1>37 DEF RejectCommit, Rejected
  <2>. QED
    BY <1>37, <2>1, PauseFrame DEF RejectCommit
<1>38. ASSUME NEW c \in Clients, CancelGoal(c) PROVE PauseInv'
  BY <1>38, PauseFrame DEF CancelGoal
<1>39. ASSUME NEW c \in Clients, CancelWorkflow(c) PROVE PauseInv'
  BY <1>39, PauseFrame DEF CancelWorkflow
<1>40. CASE ExpireAmbiguity
  BY <1>40, PauseFrame DEF ExpireAmbiguity
<1>41. CASE UNCHANGED vars
  BY <1>41, PauseFrame DEF vars, row
<1>42. ASSUME NEW c \in Clients, ResumeGoal(c) PROVE PauseInv'
  BY <1>42, PauseFrame DEF ResumeGoal
<1>43. ASSUME NEW c \in Clients, RequestLost(c) PROVE PauseInv'
  BY <1>43, PauseFrame DEF RequestLost
<1>. QED
  BY <1>1, <1>2, <1>3, <1>4, <1>5, <1>6, <1>7, <1>8, <1>9, <1>10, <1>11,
     <1>12, <1>13, <1>14, <1>15, <1>16, <1>17, <1>18, <1>19, <1>20, <1>21,
     <1>22, <1>23, <1>24, <1>25, <1>26, <1>27, <1>28, <1>29, <1>30, <1>31,
     <1>32, <1>33, <1>34, <1>35, <1>36, <1>37, <1>38, <1>39, <1>40, <1>41,
     <1>42, <1>43
     DEF Next, Task, NewCall, Handler

(* With one worker a workflow paused for approval has a row the export will   *)
(* find, if the brief recommended anything: whatever requests race with the   *)
(* task, and however often the worker dies between the two commits.           *)
THEOREM PauseAlwaysHasDraft ==
  (\A v, w \in Workers : v = w) => (Spec => []ApprovalPauseHasDraft)
<1>. SUFFICES ASSUME \A v, w \in Workers : v = w
              PROVE  Spec => []ApprovalPauseHasDraft
  OBVIOUS
<1>1. TypeOK /\ PauseInv /\ [Next]_vars => PauseInv'
  BY PauseStep
<1>2. PauseInv => ApprovalPauseHasDraft
  BY DEF PauseInv, HasDraft, ApprovalPauseHasDraft
<1>. QED
  BY <1>1, <1>2, TypeInit, TypeStep, PauseInit, PTL DEF Spec

-----------------------------------------------------------------------------
(* ExportFollowsApproval, for a patient lawyer and workers that are not lost. *)

(* A step that brings no row to the lawyer, no approval to the front of the   *)
(* queue and no task to the export.                                           *)
LEMMA ApprovalFrame ==
  ASSUME ApprovalInv, UNCHANGED <<approved, exported>>,
         UNCHANGED actions \/ Awaiting' \subseteq Awaiting,
         UNCHANGED queue \/ (queue' # <<>> /\ Head(queue') = "approve"
                               => queue # <<>> /\ Head(queue) = "approve"),
         \A c \in Clients : \/ client'[c] = client[c]
                            \/ client'[c].pc # "dispatch"
                            \/ client'[c].msg # "approve",
         \A v \in Workers : \/ worker'[v] = worker[v]
                            \/ worker'[v].pc = "idle"
                            \/ /\ worker[v].pc # "idle" /\ worker'[v].pc # "export"
                               /\ worker'[v].msg = worker[v].msg
  PROVE  ApprovalInv'
<1>1. Approvable => Approvable'
  BY DEF Approvable, Awaiting
<1>. QED
  BY <1>1 DEF ApprovalInv, ExportFollowsApproval

LEMMA SetStatusRecords ==
  ASSUME NEW w, NEW s, NEW pc, SetStatus(w, s, pc)
  PROVE  UNCHANGED <<actions, queue, client, approved, exported>>
BY DEF SetStatus, history

(* A message that is no approval puts none at the front of the queue.         *)
LEMMA SendsNoApproval ==
  ASSUME TypeOK, NEW m \in Senders, m # "approve", Send(m),
         queue' # <<>>, Head(queue') = "approve"
  PROVE  queue # <<>> /\ Head(queue) = "approve"
<1>. USE DEF Sent, Refused
<1>1. CASE queue' = Append(queue, m)
  <2>1. queue # <<>>
    BY <1>1 DEF TypeOK
  <2>2. Head(queue') = Head(queue)
    <3>1. queue \in Seq(Senders) /\ Len(queue) \in Nat /\ Len(queue) # 0
      BY <2>1 DEF TypeOK
    <3>2. queue'[1] = queue[1]
      BY <1>1, <3>1
    <3>. QED
      BY <1>1, <3>1, <3>2
  <2>. QED
    BY <2>1, <2>2
<1>. QED
  BY <1>1 DEF Send

LEMMA ApprovalInit == Init => ApprovalInv
BY DEF Init, ApprovalInv, ExportFollowsApproval, IdleJob, IdleRequest

LEMMA ApprovalStep ==
  ASSUME MaxCrashes = 0, TypeOK, RouteInv, ApprovalInv, [Next]_vars
  PROVE  ApprovalInv'
<1>1. ASSUME NEW w \in Workers, Deliver(w) PROVE ApprovalInv'
  <2>1. queue # <<>> /\ queue' = Tail(queue) /\ UNCHANGED <<actions, history>>
    BY <1>1 DEF Deliver
  <2>4. UNCHANGED client
    BY <1>1 DEF Deliver
  <2>2. queue' = <<>>
    BY <2>1 DEF RouteInv, OneInFlight, TypeOK
  <2>3. /\ worker'[w].pc = "load" /\ worker'[w].msg = Head(queue)
        /\ \A v \in Workers : v # w => worker'[v] = worker[v]
    BY <1>1 DEF Deliver, TypeOK, IdleJob
  <2>. QED
    BY <2>1, <2>2, <2>3, <2>4
       DEF ApprovalInv, Approvable, Awaiting, ExportFollowsApproval, history
<1>2. ASSUME NEW w \in Workers, Load(w) PROVE ApprovalInv'
  <2>1. Route(wfStatus) # "export"
    BY DEF Route
  <2>. QED
    BY <1>2, <2>1, GotoMoves, ApprovalFrame DEF Load, history
<1>3. ASSUME NEW w \in Workers, Ack(w) PROVE ApprovalInv'
  BY <1>3, JobEnds, ApprovalFrame DEF Ack, history
<1>4. ASSUME NEW w \in Workers, WorkerLost(w) PROVE ApprovalInv'
  BY <1>4 DEF WorkerLost, TypeOK
<1>5. ASSUME NEW w \in Workers, TaskError(w) PROVE ApprovalInv'
  BY <1>5, GotoMoves, ApprovalFrame DEF TaskError, history
<1>6. ASSUME NEW w \in Workers, Classify(w) PROVE ApprovalInv'
  <2>1. /\ worker'[w].pc \in {"gate", "ack", "retrieve"}
        /\ worker'[w].msg = worker[w].msg
        /\ \A v \in Workers : v # w => worker'[v] = worker[v]
    BY <1>6 DEF Classify, TypeOK, Jobs
  <2>. QED
    BY <1>6, <2>1, ApprovalFrame DEF Classify, history
<1>7. ASSUME NEW w \in Workers, AmbiguityGate(w) PROVE ApprovalInv'
  BY <1>7, SetStatusMoves, SetStatusRecords, ApprovalFrame DEF AmbiguityGate
<1>8. ASSUME NEW w \in Workers, Retrieve(w) PROVE ApprovalInv'
  BY <1>8, SetStatusMoves, SetStatusRecords, ApprovalFrame DEF Retrieve
<1>9. ASSUME NEW w \in Workers, Synthesize(w) PROVE ApprovalInv'
  BY <1>9, SetStatusMoves, SetStatusRecords, ApprovalFrame DEF Synthesize
<1>10. ASSUME NEW w \in Workers, Answer(w) PROVE ApprovalInv'
  BY <1>10, SetStatusMoves, SetStatusRecords, ApprovalFrame DEF Answer
<1>11. ASSUME NEW w \in Workers, Expand(w) PROVE ApprovalInv'
  BY <1>11, SetStatusMoves, SetStatusRecords, ApprovalFrame DEF Expand
<1>12. ASSUME NEW w \in Workers, DefinedTerms(w) PROVE ApprovalInv'
  BY <1>12, SetStatusMoves, SetStatusRecords, ApprovalFrame DEF DefinedTerms
<1>13. ASSUME NEW w \in Workers, Detect(w) PROVE ApprovalInv'
  BY <1>13, SetStatusMoves, SetStatusRecords, ApprovalFrame DEF Detect
<1>14. ASSUME NEW w \in Workers, WriteBrief(w) PROVE ApprovalInv'
  BY <1>14, GotoMoves, ApprovalFrame DEF WriteBrief, history
<1>15. ASSUME NEW w \in Workers, Revise(w) PROVE ApprovalInv'
  BY <1>15, SetStatusMoves, SetStatusRecords, ApprovalFrame DEF Revise
<1>16. ASSUME NEW w \in Workers, DraftStart(w) PROVE ApprovalInv'
  BY <1>16, SetStatusMoves, SetStatusRecords, ApprovalFrame DEF DraftStart
<1>17. ASSUME NEW w \in Workers, InsertActions(w) PROVE ApprovalInv'
  <2>1. CASE SetStatus(w, "FAILED", "ack")
    BY <1>17, <2>1, SetStatusMoves, SetStatusRecords, ApprovalFrame DEF InsertActions
  <2>2. CASE ~SetStatus(w, "FAILED", "ack")
    <3>1. /\ worker[w].pc = "insert" /\ Goto(w, "save")
          /\ UNCHANGED <<queue, client, history>>
          /\ \A a \in Actions : actions'[a] = actions[a] \/ actions'[a] = NewAction
      BY <1>17, <2>2 DEF InsertActions
    <3>2. Awaiting' \subseteq Awaiting
      BY <3>1 DEF Awaiting, NewAction
    <3>. QED
      BY <3>1, <3>2, GotoMoves, ApprovalFrame DEF history
  <2>. QED
    BY <2>1, <2>2
<1>18. ASSUME NEW w \in Workers, SaveDraft(w) PROVE ApprovalInv'
  <2>1. CASE SetStatus(w, "FAILED", "ack")
    BY <1>18, <2>1, SetStatusMoves, SetStatusRecords, ApprovalFrame DEF SaveDraft
  <2>2. CASE ~SetStatus(w, "FAILED", "ack")
    <3>1. /\ worker[w].pc = "save" /\ Goto(w, "pause")
          /\ UNCHANGED <<queue, client, history>>
      BY <1>18, <2>2 DEF SaveDraft
    <3>2. /\ worker[w].msg # "approve" /\ queue = <<>>
          /\ \A v \in Workers : v # w => worker[v].pc = "idle"
      BY <3>1 DEF RouteInv, OneInFlight, NoTask, RouteMatchesAnswer, DraftSteps
    <3>. QED
      BY <3>1, <3>2, GotoMoves DEF ApprovalInv, ExportFollowsApproval, history
  <2>. QED
    BY <2>1, <2>2
<1>19. ASSUME NEW w \in Workers, PauseForApproval(w) PROVE ApprovalInv'
  BY <1>19, SetStatusMoves, SetStatusRecords, ApprovalFrame DEF PauseForApproval
<1>20. ASSUME NEW w \in Workers, PickApproved(w) PROVE ApprovalInv'
  <2>1. /\ worker[w].pc = "pick" /\ UNCHANGED <<actions, queue, client, history>>
        /\ worker[w].msg = "approve"
    BY <1>20 DEF PickApproved, RouteInv, RouteMatchesAnswer, ExportSteps
  <2>2. Approvable
    BY <2>1 DEF ApprovalInv
  <2>. QED
    BY <1>20, <2>1, <2>2, PickMoves
       DEF ApprovalInv, Approvable, Awaiting, ExportFollowsApproval, history
<1>21. ASSUME NEW w \in Workers, Export(w) PROVE ApprovalInv'
  <2>1. /\ approved # {} /\ UNCHANGED <<queue, client, approved>>
        /\ worker'[w].pc = "ack"
    BY <1>21, GotoMoves DEF Export, ApprovalInv
  <2>. QED
    BY <2>1 DEF ApprovalInv, Approvable, ExportFollowsApproval
<1>22. ASSUME NEW c \in Clients, CreateGoal(c) PROVE ApprovalInv'
  BY <1>22, RequestMoves, RequestEnds, ApprovalFrame DEF CreateGoal, history
<1>23. ASSUME NEW c \in Clients, ClassifyGoal(c) PROVE ApprovalInv'
  <2>1. /\ client'[c].pc # "dispatch"
        /\ \A b \in Clients : b # c => client'[b] = client[b]
    BY <1>23 DEF ClassifyGoal, TypeOK, Calls, IdleRequest
  <2>. QED
    BY <1>23, <2>1, ApprovalFrame DEF ClassifyGoal, history
<1>24. ASSUME NEW c \in Clients, CheckSession(c) PROVE ApprovalInv'
  BY <1>24, RequestMoves, RequestEnds, ApprovalFrame DEF CheckSession, history
<1>25. ASSUME NEW c \in Clients, AnswerGoal(c) PROVE ApprovalInv'
  BY <1>25, RequestEnds, ApprovalFrame DEF AnswerGoal, history
<1>26. ASSUME NEW c \in Clients, CreateWorkflow(c) PROVE ApprovalInv'
  BY <1>26, CommittedMoves, ApprovalFrame DEF CreateWorkflow, history
<1>27. ASSUME NEW c \in Clients, Dispatch(c) PROVE ApprovalInv'
  <2>1. /\ client[c].pc = "dispatch" /\ Send(client[c].msg)
        /\ client[c].msg \in Senders
        /\ UNCHANGED <<actions, worker, history>>
    BY <1>27 DEF Dispatch, TypeOK, Calls
  <2>2. \A b \in Clients : client'[b] = client[b] \/ client'[b].pc = "idle"
    BY <1>27, RequestEnds DEF Dispatch
  <2>3. CASE client[c].msg = "approve"
    <3>1. approved # {}
      BY <2>1, <2>3 DEF ApprovalInv
    <3>. QED
      BY <2>1, <2>2, <3>1
         DEF ApprovalInv, Approvable, ExportFollowsApproval, history
  <2>4. CASE client[c].msg # "approve"
    BY <2>1, <2>2, <2>4, SendsNoApproval, ApprovalFrame DEF history
  <2>. QED
    BY <2>3, <2>4
<1>28. ASSUME NEW c \in Clients, ConfirmIntent(c) PROVE ApprovalInv'
  BY <1>28, ApprovalFrame DEF ConfirmIntent, history
<1>29. ASSUME NEW c \in Clients, ConfirmBrief(c) PROVE ApprovalInv'
  <2>1. Send("confirm") /\ UNCHANGED <<actions, worker, client, history>>
    BY <1>29 DEF ConfirmBrief
  <2>. QED
    BY <2>1, SendsNoApproval, ApprovalFrame DEF Senders, history
<1>30. ASSUME NEW c \in Clients, AbortBrief(c) PROVE ApprovalInv'
  BY <1>30, RequestMoves, RequestEnds, ApprovalFrame DEF AbortBrief, history
<1>31. ASSUME NEW c \in Clients, AbortCommit(c) PROVE ApprovalInv'
  BY <1>31, RequestEnds, ApprovalFrame DEF AbortCommit, history
<1>32. ASSUME NEW c \in Clients, Approve(c) PROVE ApprovalInv'
  <2>1. /\ UNCHANGED <<actions, worker, client, exported>>
        /\ approved' = approved \cup {actions[a].draft : a \in Awaiting}
    BY <1>32 DEF Approve
  <2>2. Approvable'
    BY <2>1 DEF Approvable, Awaiting
  <2>. QED
    BY <2>1, <2>2 DEF ApprovalInv, ExportFollowsApproval
<1>33. ASSUME NEW c \in Clients, ApproveEdit(c) PROVE ApprovalInv'
  <2>1. \A b \in Clients : client'[b] = client[b] \/ client'[b].pc = "edit"
    BY <1>33 DEF ApproveEdit, TypeOK, Calls
  <2>. QED
    BY <1>33, <2>1, ApprovalFrame DEF ApproveEdit, history
<1>34. ASSUME NEW c \in Clients, EditCommit(c) PROVE ApprovalInv'
  <2>1. approved' # {} /\ UNCHANGED <<worker, exported>>
    BY <1>34 DEF EditCommit
  <2>. QED
    BY <2>1 DEF ApprovalInv, Approvable, ExportFollowsApproval
<1>35. ASSUME NEW c \in Clients, ConfirmPlan(c) PROVE ApprovalInv'
  <2>1. /\ UNCHANGED <<actions, worker, exported>>
        /\ approved' = approved \cup {actions[a].draft : a \in Awaiting}
        /\ \A b \in Clients : client'[b] = client[b] \/ client'[b].pc = "resume"
    BY <1>35, RequestMoves DEF ConfirmPlan
  <2>2. Approvable'
    BY <2>1 DEF Approvable, Awaiting
  <2>. QED
    BY <2>1, <2>2 DEF ApprovalInv, ExportFollowsApproval
<1>36. ASSUME NEW c \in Clients, Reject(c) PROVE ApprovalInv'
  <2>1. \A b \in Clients : client'[b] = client[b] \/ client'[b].pc = "reject"
    BY <1>36 DEF Reject, TypeOK, IdleRequest
  <2>. QED
    BY <1>36, <2>1, ApprovalFrame DEF Reject, history
<1>37. ASSUME NEW c \in Clients, RejectCommit(c) PROVE ApprovalInv'
  <2>1. Awaiting' = Awaiting /\ UNCHANGED <<queue, worker, history>>
    BY <1>37 DEF RejectCommit, Rejected, Awaiting
  <2>2. \A b \in Clients : \/ client'[b] = client[b]
                           \/ client'[b].pc = "idle" \/ client'[b].msg = "reject"
    BY <1>37, RequestEnds, CommittedMoves DEF RejectCommit
  <2>. QED
    BY <2>1, <2>2, ApprovalFrame DEF history
<1>38. ASSUME NEW c \in Clients, CancelGoal(c) PROVE ApprovalInv'
  BY <1>38, RequestMoves, RequestEnds, ApprovalFrame DEF CancelGoal, history
<1>39. ASSUME NEW c \in Clients, CancelWorkflow(c) PROVE ApprovalInv'
  BY <1>39, RequestEnds, ApprovalFrame DEF CancelWorkflow, history
<1>40. CASE ExpireAmbiguity
  BY <1>40, ApprovalFrame DEF ExpireAmbiguity, history
<1>41. CASE UNCHANGED vars
  BY <1>41, ApprovalFrame DEF vars, history
<1>42. ASSUME NEW c \in Clients, ResumeGoal(c) PROVE ApprovalInv'
  BY <1>42, RequestEnds, ApprovalFrame DEF ResumeGoal, history
<1>43. ASSUME NEW c \in Clients, RequestLost(c) PROVE ApprovalInv'
  BY <1>43, RequestEnds, ApprovalFrame DEF RequestLost, history
<1>. QED
  BY <1>1, <1>2, <1>3, <1>4, <1>5, <1>6, <1>7, <1>8, <1>9, <1>10, <1>11,
     <1>12, <1>13, <1>14, <1>15, <1>16, <1>17, <1>18, <1>19, <1>20, <1>21,
     <1>22, <1>23, <1>24, <1>25, <1>26, <1>27, <1>28, <1>29, <1>30, <1>31,
     <1>32, <1>33, <1>34, <1>35, <1>36, <1>37, <1>38, <1>39, <1>40, <1>41,
     <1>42, <1>43
     DEF Next, Task, NewCall, Handler

(* With a lawyer who waits for each answer to be worked off, and workers that *)
(* are not lost, no document is exported before a lawyer has approved         *)
(* anything: of any number of workers, rows, revisions and failures.          *)
THEOREM ExportsFollowApproval ==
  Patient /\ MaxCrashes = 0 => (Spec => []ExportFollowsApproval)
<1>. SUFFICES ASSUME Patient, MaxCrashes = 0 PROVE Spec => []ExportFollowsApproval
  OBVIOUS
<1>1. TypeOK /\ RouteInv /\ [Next]_vars => RouteInv'
  BY RouteStep
<1>2. TypeOK /\ RouteInv /\ ApprovalInv /\ [Next]_vars => ApprovalInv'
  BY ApprovalStep
<1>3. ApprovalInv => ExportFollowsApproval
  BY DEF ApprovalInv
<1>. QED
  BY <1>1, <1>2, <1>3, TypeInit, TypeStep, RouteInit, ApprovalInit, PTL DEF Spec

=============================================================================
