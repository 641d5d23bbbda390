------------------------------ MODULE Reports ------------------------------
(* The reports on the workflows of an organisation (routers/audit.py) and the *)
(* views of its goals (routers/goals.py).  Each is several SELECTs in one     *)
(* transaction, and under READ COMMITTED each SELECT sees all that was        *)
(* committed before it: a report is put together while the workflows go on.   *)
EXTENDS Naturals, Sequences, FiniteSets

CONSTANTS Goals   \* a goal stands for its workflow, too

VARIABLES
    rows,        \* rows[t]: the goals with committed rows in table t
    creating,    \* creating[g]: how far create_goal is with g
    forgone,     \* goals whose classification could not be logged
    sent,        \* goals whose workflow a task may run
    ended,       \* ended[g]: "task" or "admin" wrote COMPLETED last, or "no"
    report       \* the report under way

workflowVars == <<rows, creating, forgone, sent, ended>>
reportVars == <<workflowVars, report>>

(* The table of intent logs holds the entry of the classification ("logs")    *)
(* and what confirm_intent and the tasks add to it later ("overrides").       *)
Tables == {"goals", "workflows", "logs", "overrides", "findings"}
Reported == {"export", "trail", "research", "summary", "list", "detail", "result"}

Nothing == [t \in Tables |-> {}]
NoReport == [kind |-> "none", plan |-> <<>>, saw |-> Nothing, completed |-> {}]

ReportsInit ==
    /\ rows = Nothing
    /\ creating = [g \in Goals |-> "goal"]
    /\ forgone = {} /\ sent = {}
    /\ ended = [g \in Goals |-> "no"]
    /\ report = NoReport

-----------------------------------------------------------------------------
(* What happens to a goal (module AgentWorkflow), as far as a report sees it. *)
(* create_goal commits the goal, the workflow and the log, and then sends.    *)
(* It may stop anywhere, as an ANALYZE goal does and a lost API process.      *)

AddRow(t, g) == rows' = [rows EXCEPT ![t] = @ \cup {g}]

Create(g, from, to) ==
    /\ creating[g] = from
    /\ creating' = [creating EXCEPT ![g] = to]
    /\ UNCHANGED <<ended, report>>

CreateGoalRow(g) ==
    /\ Create(g, "goal", "workflow")
    /\ AddRow("goals", g)
    /\ UNCHANGED <<forgone, sent>>

CreateWorkflowRow(g) ==
    /\ Create(g, "workflow", "log")
    /\ AddRow("workflows", g)
    /\ UNCHANGED <<forgone, sent>>

(* _log_intent_classification, which create_goal awaits; an error is          *)
(* swallowed.                                                                 *)
LogIntent(g) ==
    /\ Create(g, "log", "send")
    /\ \/ AddRow("logs", g) /\ UNCHANGED forgone
       \/ forgone' = forgone \cup {g} /\ UNCHANGED rows
    /\ UNCHANGED sent

(* send_task; its error is swallowed as well.                                 *)
DispatchGoal(g) ==
    /\ Create(g, "send", "done")
    /\ sent' \in {sent, sent \cup {g}}
    /\ UNCHANGED <<rows, forgone>>

(* An entry or a finding that is lost is no step.                             *)
LaterRow(t, g) ==
    /\ AddRow(t, g)
    /\ UNCHANGED <<creating, forgone, sent, ended, report>>

(* confirm_intent, which does not look at the status; and the entries of      *)
(* retrieval_node and synthesis_node.                                         *)
LogOverride(g) == g \in rows["workflows"] /\ LaterRow("overrides", g)

(* retrieval_node, when it has found too little.  The findings of             *)
(* findings_node are never stored: the node before it raises.                 *)
StoreFinding(g) == g \in sent /\ LaterRow("findings", g)

End(g, by) ==
    /\ ended' = [ended EXCEPT ![g] = by]
    /\ UNCHANGED <<rows, creating, forgone, sent, report>>

(* synthesis_node and export_node; result_node, too, is never reached.        *)
TaskCompletes(g) == g \in sent /\ End(g, "task")

(* A task or a reject writes another status over it.                          *)
Reopened(g) == g \in sent /\ End(g, "no")

(* resolve_escalation: COMPLETED, over whatever status there is.              *)
ResolveEscalation(g) == g \in rows["workflows"] /\ End(g, "admin")

-----------------------------------------------------------------------------
(* The SELECTs, in their order.  A table of tool calls is read as well, but   *)
(* nothing writes it.                                                         *)

(* Mutant: the tables in the other order.                                     *)
PlanBug(kind) ==
    CASE kind = "export" -> <<"logs", "workflows">>
      [] kind = "trail" -> <<"goals", "workflows", "logs">>
      [] kind \in {"research", "summary"} -> <<"logs">>
      [] kind \in {"list", "detail"} -> <<"workflows", "goals">>
      [] kind = "result" -> <<"findings", "workflows", "goals">>

(* export_workspace_audit, get_goal_audit_trail, export_research_log,         *)
(* faithfulness_summary, list_goals, get_goal and get_goal_result.            *)
ExportPlan == <<"workflows", "logs">>
TrailPlan == <<"goals", "logs", "workflows">>
ResearchPlan == <<"logs">>
SummaryPlan == <<"logs">>
ListPlan == <<"goals", "workflows">>
DetailPlan == <<"goals", "workflows">>
ResultPlan == <<"goals", "workflows", "findings">>

Plan(kind) ==
    CASE kind = "export" -> ExportPlan
      [] kind = "trail" -> TrailPlan
      [] kind = "research" -> ResearchPlan
      [] kind = "summary" -> SummaryPlan
      [] kind = "list" -> ListPlan
      [] kind = "detail" -> DetailPlan
      [] kind = "result" -> ResultPlan

(* The SELECT of the intent logs returns all the entries.                     *)
Read(t) == IF t = "logs" THEN {"logs", "overrides"} ELSE {t}

(* The rows of logs and findings are those of workflows that an earlier       *)
(* SELECT named; the trail, the research export and the summary look the      *)
(* workflows up in the same SELECT, and show them for all goals.              *)
Named(t) ==
    CASE t = "logs" /\ report.kind = "export" -> report.saw["workflows"]
      [] t = "findings" -> report.saw["workflows"]
      [] t = "workflows" /\ report.kind \in {"list", "detail", "result"} -> report.saw["goals"]
      [] OTHER -> Goals

StartReport(kind) ==
    /\ report = NoReport
    /\ report' = [NoReport EXCEPT !.kind = kind, !.plan = Plan(kind)]
    /\ UNCHANGED workflowVars

SelectNext ==
    /\ report.plan # <<>>
    /\ LET t == Head(report.plan) IN
       report' = [report EXCEPT
           !.plan = Tail(@),
           !.saw = [s \in Tables |-> IF s \in Read(t) THEN rows[s] \cap Named(t) ELSE @[s]],
           !.completed = IF t = "workflows" THEN {g \in rows[t] \cap Named(t) : ended[g] = "task"}
                                            ELSE @]
    /\ UNCHANGED workflowVars

Respond ==
    /\ report # NoReport /\ report.plan = <<>>
    /\ report' = NoReport
    /\ UNCHANGED workflowVars

GoalStep(g) ==
    \/ CreateGoalRow(g) \/ CreateWorkflowRow(g) \/ LogIntent(g) \/ DispatchGoal(g)
    \/ LogOverride(g) \/ StoreFinding(g)
    \/ TaskCompletes(g) \/ Reopened(g) \/ ResolveEscalation(g)

ReportsNext ==
    \/ \E g \in Goals : GoalStep(g)
    \/ \E kind \in Reported : StartReport(kind)
    \/ SelectNext \/ Respond

ReportsSpec == ReportsInit /\ [][ReportsNext]_reportVars

-----------------------------------------------------------------------------
(* Properties.                                                                *)

(* Every variable has its type; a report has some of its SELECTs before it.   *)
Rest(kind) == {SubSeq(Plan(kind), k, Len(Plan(kind))) : k \in 1..Len(Plan(kind)) + 1}

ReportsTypeOK ==
    /\ rows \in [Tables -> SUBSET Goals]
    /\ creating \in [Goals -> {"goal", "workflow", "log", "send", "done"}]
    /\ forgone \subseteq Goals /\ sent \subseteq Goals
    /\ ended \in [Goals -> {"no", "task", "admin"}]
    /\ report \in [kind : Reported \cup {"none"}, plan : Seq(Tables),
                   saw : [Tables -> SUBSET Goals], completed : SUBSET Goals]
    /\ IF report.kind = "none" THEN report = NoReport ELSE report.plan \in Rest(report.kind)

(* An audit export that shows a workflow as COMPLETED by its task shows the   *)
(* classification it was run for, unless that could not be logged; and no     *)
(* entry of an audit trail is of a workflow the trail does not show.          *)
(* A workflow that an administrator resolved may be shown without.            *)
ReportIsWhole ==
    report.plan = <<>> =>
        /\ report.kind = "export" => report.completed \subseteq report.saw["logs"] \cup forgone
        /\ report.kind = "trail" =>
            report.saw["logs"] \cup report.saw["overrides"] \subseteq report.saw["workflows"]

-----------------------------------------------------------------------------
(* Strengthening of ReportIsWhole.                                            *)

Logged == rows["logs"] \cup forgone

(* What a row says of other tables was written before it; and nothing is sent *)
(* before the workflow and its log are written.                               *)
WrittenBefore ==
    /\ \A g \in Goals : creating[g] \in {"log", "send", "done"} => g \in rows["workflows"]
    /\ \A g \in Goals : creating[g] \in {"send", "done"} => g \in Logged
    /\ rows["logs"] \cup rows["overrides"] \subseteq rows["workflows"]
    /\ sent \subseteq rows["workflows"] \cap Logged
    /\ \A g \in Goals : ended[g] = "task" => g \in sent

(* A report has read of COMPLETED what had been, and it selects what comes    *)
(* later in a workflow's life when it has selected what comes before.         *)
ReadBefore ==
    /\ report.completed \subseteq sent
    /\ report.kind = "export" => report.completed \subseteq report.saw["workflows"]
    /\ report.kind = "trail" =>
        LET entries == report.saw["logs"] \cup report.saw["overrides"]
        IN  /\ entries \subseteq rows["workflows"]
            /\ Len(report.plan) > 1 => entries = {}

ReportsInv == WrittenBefore /\ ReadBefore /\ ReportIsWhole
=============================================================================
