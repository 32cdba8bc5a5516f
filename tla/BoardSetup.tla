------------------------------ MODULE BoardSetup ------------------------------
(***************************************************************************)
(* From an empty database to a board with tasks: the servers start, each   *)
(* makes its store (StartUp), and the REST server takes the requests that  *)
(* fill the board (Planning).  When it stops, its requests end where they  *)
(* are.                                                                    *)
(***************************************************************************)
EXTENDS StartUp, Planning

vars == <<startVars, planVars>>

Init == StartInit /\ PlanInit

\* A handler runs only while its server is up.
Plans == pc[Rest] = "up" /\ PlanNext /\ UNCHANGED startVars

RestBoots ==
    /\ Connect \/ Execute(Rest) \/ Ready \/ RestStarts
    /\ UNCHANGED planVars

RestDies ==
    /\ RestStops
    /\ req' = [r \in Reqs |-> IF req[r].pc = "new" THEN req[r] ELSE Ended]
    /\ UNCHANGED <<projects, task_seq, goalOf, tasks>>

Next == Plans \/ RestBoots \/ RestDies \/ (McpNext /\ UNCHANGED planVars)

Spec == Init /\ [][Next]_vars

\* The event loop of the MCP server runs every call that can go on, and each
\* statement ends or raises.
FairSpec == Spec /\ \A c \in Calls : WF_vars(CallStep(c) /\ UNCHANGED planVars)

TypeOK == StartTypeOK /\ PlanTypeOK

-----------------------------------------------------------------------------
(* Properties. *)

\* Whoever uses the board finds all of its tables, although the schema is made
\* of statements that commit one by one and two servers run them at the same
\* time, or stop half way.  (main.py lifespan, mcp_server.py _board)
SchemaComplete ==
    pc[Rest] = "up" \/ (\E c \in Calls : pc[c] = "served") => schema = 1..Stmts

\* All tool calls of one MCP server work on one store, whose pool is open, and
\* no second one is made beside it.  A pool that is open for nothing is one that a
\* call has left which failed: no other is ever lost.  (mcp_server.py _board)
OneStore ==
    /\ \A c \in Calls : pc[c] = "served" => got[c] = store /\ store \in pools
    /\ \A c, d \in Calls : pc[c] \in {"open", "setup"} /\ pc[d] \in {"open", "setup"} => c = d
    /\ store # None => \A c \in Calls : pc[c] \notin {"open", "setup"}
    /\ \A c \in pools : c = store \/ pc[c] \in {"setup", "failed"}

\* Two requests are never given the same number, and none the number of a task
\* that is there: the INSERT of create_task is not refused for its key.
\* (board.py create_task)
KeysNeverClash ==
    \A r \in Reqs : req[r].pc = "insert_task" =>
        /\ ~Taken(req[r].project, req[r].n)
        /\ \A s \in Reqs \ {r} :
              req[s].pc = "insert_task" /\ req[s].project = req[r].project =>
                  req[s].n # req[r].n

\* The key of a task, and that of one under way, names the project of its goal,
\* although two goals of one name may be asked for at once in different projects.
\* (board.py create_goal, create_task)
TasksInTheirProject ==
    /\ \A t \in tasks : goalOf[t.goal] = t.project /\ t.project \in projects
    /\ \A r \in Reqs : req[r].pc \in {"number", "insert_task"} =>
          goalOf[req[r].goal] = req[r].project

\* A tool call is never left waiting for the store: whoever fails to make it lets
\* the next one try.  (mcp_server.py _board)
CallsAnswered == \A c \in Calls : <>(pc[c] \in {"served", "failed"})
=============================================================================
