------------------------------- MODULE Planning -------------------------------
(***************************************************************************)
(* The operations that fill the board: projects, goals and tasks           *)
(* (app/api/admin.py, app/store/board.py).  Each statement commits by      *)
(* itself, so two requests may be interleaved, and one may end, between    *)
(* any two statements.  The key of a task is its project's key and the     *)
(* number that the project's counter gives.                                *)
(***************************************************************************)
EXTENDS Naturals

CONSTANTS
    Projects,   \* keys of projects
    Goals,      \* keys of goals
    Reqs,       \* the requests for goals and tasks that are ever made
    Absent

ASSUME PlanningAssumption == Absent \notin Projects \cup Goals

VARIABLES
    projects,   \* the keys of the rows of c3k_projects
    task_seq,   \* task_seq[p]: the counter in p's row
    goalOf,     \* goalOf[g]: the project in g's row, or Absent without a row
    tasks,      \* the rows of c3k_tasks
    req         \* req[r]: what r does

planVars == <<projects, task_seq, goalOf, tasks, req>>

Rows == [project : Projects, n : Nat, goal : Goals]

\* n: the number that a request for a task has been given.
ReqPcs == {"new", "insert_goal", "number", "insert_task", "ended"}
Req(s, g, p, k) == [pc |-> s, goal |-> g, project |-> p, n |-> k]
Fresh == Req("new", Absent, Absent, 0)
Ended == Req("ended", Absent, Absent, 0)

Step(r, q) == req' = [req EXCEPT ![r] = q]
Taken(p, k) == \E t \in tasks : t.project = p /\ t.n = k

-----------------------------------------------------------------------------
\* One INSERT; a key that is taken is refused.
CreateProject(p) ==
    /\ p \notin projects
    /\ projects' = projects \cup {p}
    /\ UNCHANGED <<task_seq, goalOf, tasks, req>>

\* create_goal has found its project.
BeginGoal(r, g, p) ==
    /\ req[r].pc = "new"
    /\ p \in projects
    /\ Step(r, Req("insert_goal", g, p, 0))
    /\ UNCHANGED <<projects, task_seq, goalOf, tasks>>

\* Mutant of InsertGoal: an upsert.
UpsertGoal(r) ==
    /\ req[r].pc = "insert_goal"
    /\ goalOf' = [goalOf EXCEPT ![req[r].goal] = req[r].project]
    /\ Step(r, Ended)
    /\ UNCHANGED <<projects, task_seq, tasks>>

\* Keys of goals are unique over all projects; the loser of a race raises.
InsertGoal(r) ==
    /\ req[r].pc = "insert_goal"
    /\ goalOf' = IF goalOf[req[r].goal] = Absent
                 THEN [goalOf EXCEPT ![req[r].goal] = req[r].project]
                 ELSE goalOf
    /\ Step(r, Ended)
    /\ UNCHANGED <<projects, task_seq, tasks>>

\* Mutant of BeginTask: a goal that does not exist is not refused.
BeginTaskUnchecked(r, g) ==
    /\ req[r].pc = "new"
    /\ Step(r, Req("number", g, goalOf[g], 0))
    /\ UNCHANGED <<projects, task_seq, goalOf, tasks>>

\* create_task has found its goal.
BeginTask(r, g) ==
    /\ req[r].pc = "new"
    /\ goalOf[g] # Absent
    /\ Step(r, Req("number", g, goalOf[g], 0))
    /\ UNCHANGED <<projects, task_seq, goalOf, tasks>>

\* Mutant of TakeNumber: the number is read, and counted up in two statements.
ReadNumber(r) ==
    /\ req[r].pc = "number"
    /\ \E seen \in {task_seq[req[r].project], task_seq[req[r].project] + 1} :
          /\ task_seq' = [task_seq EXCEPT ![req[r].project] = seen]
          /\ Step(r, Req("insert_task", req[r].goal, req[r].project,
                         task_seq[req[r].project] + 1))
    /\ UNCHANGED <<projects, goalOf, tasks>>

\* UPDATE ... SET task_seq = task_seq + 1 ... RETURNING is one statement.
TakeNumber(r) ==
    /\ req[r].pc = "number"
    /\ task_seq' = [task_seq EXCEPT ![req[r].project] = @ + 1]
    /\ Step(r, Req("insert_task", req[r].goal, req[r].project,
                   task_seq[req[r].project] + 1))
    /\ UNCHANGED <<projects, goalOf, tasks>>

\* A key that is taken would be refused, and its request raise.
InsertTask(r) ==
    /\ req[r].pc = "insert_task"
    /\ tasks' = IF Taken(req[r].project, req[r].n) THEN tasks
                ELSE tasks \cup {[project |-> req[r].project, n |-> req[r].n,
                                  goal |-> req[r].goal]}
    /\ Step(r, Ended)
    /\ UNCHANGED <<projects, task_seq, goalOf>>

\* A statement raises, or the client goes away.
RequestDies(r) ==
    /\ req[r].pc \notin {"new", "ended"}
    /\ Step(r, Ended)
    /\ UNCHANGED <<projects, task_seq, goalOf, tasks>>

-----------------------------------------------------------------------------
PlanInit ==
    /\ projects = {}
    /\ task_seq = [p \in Projects |-> 0]
    /\ goalOf = [g \in Goals |-> Absent]
    /\ tasks = {}
    /\ req = [r \in Reqs |-> Fresh]

ReqStep(r) ==
    \/ \E g \in Goals : BeginTask(r, g) \/ \E p \in Projects : BeginGoal(r, g, p)
    \/ InsertGoal(r) \/ TakeNumber(r) \/ InsertTask(r) \/ RequestDies(r)

PlanNext == (\E p \in Projects : CreateProject(p)) \/ (\E r \in Reqs : ReqStep(r))

PlanTypeOK ==
    /\ projects \subseteq Projects
    /\ task_seq \in [Projects -> Nat]
    /\ goalOf \in [Goals -> Projects \cup {Absent}]
    /\ tasks \subseteq Rows
    /\ req \in [Reqs -> [pc : ReqPcs, goal : Goals \cup {Absent},
                         project : Projects \cup {Absent}, n : Nat]]
    /\ \A r \in Reqs : req[r].pc \in {"insert_goal", "number", "insert_task"} =>
          req[r].goal \in Goals /\ req[r].project \in Projects
=============================================================================
