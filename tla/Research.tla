------------------------------ MODULE Research ------------------------------
(* The searches of a goal, among the documents of its session, in the index   *)
(* of module SearchIndex: the handler's own one for an ANALYZE goal           *)
(* (create_goal and search_tool) and that of the task for a REASON or ACT     *)
(* goal (retrieval_node).  What a session selects is any set of documents,    *)
(* none included: module Sessions shows how it comes about.  What later nodes *)
(* add is left out: graph_expansion_node follows cross-references into any    *)
(* document of the workspace, selected or not, and detect_node reads its      *)
(* registries of terms and deadlines whole.                                   *)
EXTENDS SearchIndex

CONSTANTS
    Chosen,      \* the selections that are tried
    Workspace    \* the one whose goals are followed

ASSUME ResearchAssumption == Chosen \subseteq SUBSET Docs

VARIABLES goal   \* one goal at a time

researchVars == <<indexVars, goal>>

Workspaces == {HomeOf[d] : d \in Docs}
Names == {NameOf[d] : d \in Docs}

NoGoal == [at |-> "idle", path |-> "none", ids |-> {}, names |-> {},
           failed |-> FALSE, answer |-> {}]

ResearchInit == IndexInit /\ goal = NoGoal

(* create_goal: the intent, and the session's documents, are read once; a     *)
(* message carries them to the task.                                          *)
CreateGoal(path, D) ==
    /\ goal = NoGoal
    /\ goal' = [NoGoal EXCEPT !.at = "names", !.path = path, !.ids = D]
    /\ UNCHANGED indexVars

(* The filenames of the documents.                                            *)
ReadNames ==
    /\ goal.at = "names"
    /\ goal' = [goal EXCEPT !.at = "embed", !.names = {NameOf[d] : d \in goal.ids}]
    /\ UNCHANGED indexVars

(* The query raises: the handler fails the goal, the task searches on without *)
(* a filename.                                                                *)
NamesFail ==
    /\ goal.at = "names"
    /\ goal.ids # {}
    /\ goal' = IF goal.path = "ANALYZE" THEN NoGoal
               ELSE [goal EXCEPT !.at = "embed", !.failed = TRUE]
    /\ UNCHANGED indexVars

(* get_embedding: Voyage, or on any error, a rate limit too, Cloudflare or     *)
(* OpenRouter, whose vectors are of another space; three times, before it     *)
(* raises and the handler fails the goal.                                     *)
GetEmbedding ==
    /\ goal.at = "embed" /\ goal.path = "ANALYZE"
    /\ goal' \in {[goal EXCEPT !.at = "search"], NoGoal}
    /\ UNCHANGED indexVars

(* The task knows Voyage alone, and ends without results if it raises.        *)
GetVoyageQueryVector ==
    /\ goal.at = "embed" /\ goal.path = "REASON"
    /\ goal' \in {[goal EXCEPT !.at = "search"], [goal EXCEPT !.at = "done"]}
    /\ UNCHANGED indexVars

(* search_tool: no workspace, and no contracts if the session has none.       *)
Analyze(names) ==
    IF names = {}
    THEN UNION {OncePerText(R) : R \in SearchAll(Workspaces)}
    ELSE SearchTool(Workspaces, names)

(* Mutant: the workspace is forgotten when there are contracts.               *)
RetrieveBug(names) ==
    IF names = {} THEN SearchAll({Workspace}) ELSE SearchHybrid(Workspaces, names)

(* retrieval_node: search_hybrid with the workspace.                          *)
Retrieve(names) ==
    IF names = {} THEN SearchAll({Workspace}) ELSE SearchHybrid({Workspace}, names)

Answer ==
    /\ goal.at = "search"
    /\ \E R \in IF goal.path = "ANALYZE" THEN Analyze(goal.names) ELSE Retrieve(goal.names) :
        goal' = [goal EXCEPT !.at = "done", !.answer = R]
    /\ UNCHANGED indexVars

(* Qdrant does not answer in three attempts, or the process is lost.          *)
SearchFails ==
    /\ goal.at = "search"
    /\ goal' = [goal EXCEPT !.at = "done"]
    /\ UNCHANGED indexVars

NextGoal ==
    /\ goal.at = "done"
    /\ goal' = NoGoal
    /\ UNCHANGED indexVars

ResearchNext ==
    \/ IndexNext /\ UNCHANGED goal
    \/ \E path \in {"ANALYZE", "REASON"}, D \in Chosen : CreateGoal(path, D)
    \/ ReadNames \/ NamesFail \/ GetEmbedding \/ GetVoyageQueryVector
    \/ Answer \/ SearchFails \/ NextGoal

ResearchSpec == ResearchInit /\ [][ResearchNext]_researchVars

-----------------------------------------------------------------------------
(* Properties.                                                                *)

(* Every variable has its type.                                               *)
GoalTypeOK ==
    goal \in [at : {"idle", "names", "embed", "search", "done"},
              path : {"none", "ANALYZE", "REASON"}, ids : SUBSET Docs,
              names : SUBSET Names, failed : BOOLEAN,
              answer : SUBSET [id : Interpreters \X Names \X Nat,
                               doc : Docs, chunk : Nat, vector : Nat]]

ResearchTypeOK == IndexTypeOK /\ GoalTypeOK

(* What the searches of a goal return is of documents that have a filename of *)
(* its session, unless the session names none or, for the task, they could    *)
(* not be read; and what the task retrieves is of its workspace even then.    *)
AnswerInScope ==
    \A p \in goal.answer :
        /\ goal.path = "REASON" => HomeOf[p.doc] = Workspace
        /\ goal.ids # {} /\ ~goal.failed => \E d \in goal.ids : NameOf[p.doc] = NameOf[d]

-----------------------------------------------------------------------------
(* Strengthening of AnswerInScope.                                            *)

(* Once they are read, a goal has the filenames of its documents.             *)
NamesAreTheSessions ==
    goal.at \in {"embed", "search", "done"} /\ ~goal.failed =>
        goal.names = {NameOf[d] : d \in goal.ids}

ScopeInv == NamesAreTheSessions /\ AnswerInScope
=============================================================================
