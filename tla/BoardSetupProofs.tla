--------------------------- MODULE BoardSetupProofs ---------------------------
(***************************************************************************)
(* Proofs about BoardSetup, for any number of calls, statements, requests, *)
(* projects and goals.                                                     *)
(***************************************************************************)
EXTENDS BoardSetup, TLAPS

Making(c) == pc[c] \in {"open", "setup"}

\* The two servers.  Whoever has come to a statement has executed those before,
\* and the lock is held by the one call that makes the store.
StartInv ==
    /\ StartTypeOK
    /\ \A i \in Calls \cup {Rest} : \A n \in 1..Stmts : n < at[i] => n \in schema
    /\ pc[Rest] = "up" => schema = 1..Stmts
    /\ store # None => schema = 1..Stmts /\ store \in pools
    /\ lock # None => store = None
    /\ \A c \in Calls : Making(c) <=> lock = c
    /\ \A c \in Calls : pc[c] = "setup" => c \in pools
    /\ \A c \in pools : c = store \/ pc[c] \in {"setup", "failed"}
    /\ \A c \in Calls : pc[c] = "served" => got[c] = store /\ store # None

\* The requests.  No number in use is above its project's counter.
PlanInv ==
    /\ PlanTypeOK
    /\ \A g \in Goals : goalOf[g] # Absent => goalOf[g] \in projects
    /\ \A t \in tasks :
          /\ t.n <= task_seq[t.project]
          /\ goalOf[t.goal] = t.project
    /\ \A r \in Reqs :
          /\ req[r].pc = "insert_goal" => req[r].project \in projects
          /\ req[r].pc \in {"number", "insert_task"} => goalOf[req[r].goal] = req[r].project
          /\ req[r].pc = "insert_task" => req[r].n <= task_seq[req[r].project]
    /\ KeysNeverClash

IInv == StartInv /\ PlanInv

-----------------------------------------------------------------------------
LEMMA InitHolds == Init => IInv
<1> SUFFICES ASSUME Init PROVE IInv
  OBVIOUS
<1>1. StartInv
  BY StartUpAssumption DEF Init, StartInit, StartInv, StartTypeOK, Making, CallPcs, RestPcs
<1>2. PlanInv
  BY PlanningAssumption
     DEF Init, PlanInit, PlanInv, PlanTypeOK, KeysNeverClash, Rows, ReqPcs, Req, Fresh
<1> QED
  BY <1>1, <1>2 DEF IInv

LEMMA StartUnchanged == StartInv /\ UNCHANGED startVars => StartInv'
  BY DEF StartInv, StartTypeOK, Making, startVars

LEMMA PlanUnchanged == PlanInv /\ UNCHANGED planVars => PlanInv'
  BY DEF PlanInv, PlanTypeOK, KeysNeverClash, Taken, planVars

-----------------------------------------------------------------------------
\* A statement of the schema, by either server.
LEMMA ExecuteKeeps ==
  ASSUME StartInv, NEW i \in Calls \cup {Rest}, Execute(i)
  PROVE  StartInv'
<1> USE StartUpAssumption
<1>1. at[i] \in 1..Stmts /\ at'[i] = at[i] + 1
  BY DEF StartInv, StartTypeOK, Execute
<1>2. schema \subseteq schema' /\ at[i] \in schema' /\ schema' \subseteq 1..Stmts
  BY <1>1 DEF StartInv, StartTypeOK, Execute
<1>3. StartTypeOK'
  BY <1>1, <1>2 DEF StartInv, StartTypeOK, Execute
<1>4. \A j \in Calls \cup {Rest} : \A n \in 1..Stmts : n < at'[j] => n \in schema'
  BY <1>1, <1>2 DEF StartInv, StartTypeOK, Execute
<1> QED
  BY <1>2, <1>3, <1>4 DEF StartInv, StartTypeOK, Execute, Making

\* Who has executed every statement has completed the schema.
LEMMA SetUpIsComplete ==
  ASSUME StartInv, NEW i \in Calls \cup {Rest}, HasSetUp(i)
  PROVE  schema = 1..Stmts
<1>1. at[i] \in Nat /\ at[i] > Stmts /\ Stmts \in Nat
  BY StartUpAssumption DEF StartInv, StartTypeOK, HasSetUp
<1>2. \A n \in 1..Stmts : n \in schema
  BY <1>1 DEF StartInv
<1>3. schema \subseteq 1..Stmts
  BY DEF StartInv, StartTypeOK
<1> QED
  BY <1>2, <1>3

\* The REST server's own steps.
LEMMA RestKeeps == StartInv /\ (Connect \/ Ready \/ RestStops \/ RestStarts) => StartInv'
<1> USE StartUpAssumption DEF StartInv, StartTypeOK, Making, Move, CallPcs, RestPcs
<1>1. StartInv /\ Connect => StartInv'
  BY DEF Connect
<1>2. StartInv /\ Ready => StartInv'
  BY SetUpIsComplete DEF Ready
<1>3. StartInv /\ RestStops => StartInv'
  BY DEF RestStops
<1>4. StartInv /\ RestStarts => StartInv'
  BY DEF RestStarts
<1> QED
  BY <1>1, <1>2, <1>3, <1>4

\* The MCP server's.
LEMMA McpKeeps == StartInv /\ McpNext => StartInv'
<1>1. StartInv /\ McpRestarts => StartInv'
  BY StartUpAssumption DEF McpRestarts, StartInv, StartTypeOK, Making, CallPcs, RestPcs
<1>2. ASSUME StartInv, NEW c \in Calls, CallStep(c) \/ WaitCancelled(c) PROVE StartInv'
  <2> USE StartUpAssumption DEF StartInv, StartTypeOK, Making, Move, CallPcs, RestPcs
  <2>1. CASE Look(c)
    BY <1>2, <2>1 DEF Look, Serve
  <2>2. CASE Enter(c)
    <3>1. CASE store # None
      BY <1>2, <2>2, <3>1 DEF Enter, Serve
    <3>2. CASE store = None
      BY <1>2, <2>2, <3>2 DEF Enter
    <3> QED
      BY <3>1, <3>2
  <2>3. CASE OpenPool(c)
    BY <1>2, <2>3 DEF OpenPool
  <2>4. CASE Execute(c)
    BY <1>2, <2>4, ExecuteKeeps
  <2>5. CASE Publish(c)
    BY <1>2, <2>5, SetUpIsComplete DEF Publish, Serve, HasSetUp
  <2>6. CASE InitFails(c)
    BY <1>2, <2>6 DEF InitFails
  <2>7. CASE WaitCancelled(c)
    BY <1>2, <2>7 DEF WaitCancelled
  <2> QED
    BY <1>2, <2>1, <2>2, <2>3, <2>4, <2>5, <2>6, <2>7 DEF CallStep
<1> QED
  BY <1>1, <1>2 DEF McpNext

-----------------------------------------------------------------------------
LEMMA PlanKeeps == PlanInv /\ PlanNext => PlanInv'
<1> USE PlanningAssumption
    DEF PlanInv, PlanTypeOK, KeysNeverClash, Taken, Rows, ReqPcs, Req, Ended, Step
<1>1. ASSUME PlanInv, NEW p \in Projects, CreateProject(p) PROVE PlanInv'
  BY <1>1 DEF CreateProject
<1>2. ASSUME PlanInv, NEW r \in Reqs, ReqStep(r) PROVE PlanInv'
  <2>1. CASE \E g \in Goals : BeginTask(r, g)
    BY <1>2, <2>1 DEF BeginTask
  <2>2. CASE \E g \in Goals, p \in Projects : BeginGoal(r, g, p)
    BY <1>2, <2>2 DEF BeginGoal
  <2>3. CASE InsertGoal(r)
    BY <1>2, <2>3 DEF InsertGoal
  <2>4. CASE TakeNumber(r)
    BY <1>2, <2>4 DEF TakeNumber
  <2>5. CASE InsertTask(r)
    BY <1>2, <2>5 DEF InsertTask
  <2>6. CASE RequestDies(r)
    BY <1>2, <2>6 DEF RequestDies
  <2> QED
    BY <1>2, <2>1, <2>2, <2>3, <2>4, <2>5, <2>6 DEF ReqStep
<1> QED
  BY <1>1, <1>2 DEF PlanNext

LEMMA NextHolds == IInv /\ [Next]_vars => IInv'
<1> SUFFICES ASSUME IInv, [Next]_vars PROVE IInv'
  OBVIOUS
<1> USE StartUnchanged, PlanUnchanged DEF IInv
<1>1. CASE Plans
  BY <1>1, PlanKeeps DEF Plans
<1>2. CASE RestBoots
  BY <1>2, RestKeeps, ExecuteKeeps DEF RestBoots
<1>3. CASE RestDies
  <2>1. StartInv'
    BY <1>3, RestKeeps DEF RestDies
  <2>2. PlanInv'
    BY <1>3, PlanningAssumption
       DEF RestDies, PlanInv, PlanTypeOK, KeysNeverClash, Taken, ReqPcs, Req, Ended
  <2> QED
    BY <2>1, <2>2
<1>4. CASE McpNext /\ UNCHANGED planVars
  BY <1>4, McpKeeps
<1>5. CASE UNCHANGED vars
  BY <1>5 DEF vars
<1> QED
  BY <1>1, <1>2, <1>3, <1>4, <1>5 DEF Next

LEMMA Invariance == Spec => []IInv
  BY InitHolds, NextHolds, PTL DEF Spec

-----------------------------------------------------------------------------
\* The variables of both servers and of the board keep their types.
\* (main.py, mcp_server.py, board.py)
THEOREM TypeCorrect == Spec => []TypeOK
<1>1. IInv => TypeOK
  BY DEF IInv, StartInv, PlanInv, TypeOK
<1> QED
  BY <1>1, Invariance, PTL

\* No server works on a part of the schema, however many statements it has and
\* wherever the other server stops.  (board.py setup, mcp_server.py _board)
THEOREM SchemaIsComplete == Spec => []SchemaComplete
<1>1. IInv => SchemaComplete
  BY DEF IInv, StartInv, SchemaComplete
<1> QED
  BY <1>1, Invariance, PTL

\* However many tool calls come first, one store serves them all.
\* (mcp_server.py _board)
THEOREM StoreIsOne == Spec => []OneStore
<1>1. IInv => OneStore
  BY StartUpAssumption DEF IInv, StartInv, StartTypeOK, OneStore, Making
<1> QED
  BY <1>1, Invariance, PTL

\* No INSERT of a task is refused for its key, for any number of requests and
\* projects, whichever of them end half way.  (board.py create_task)
THEOREM KeysDistinct == Spec => []KeysNeverClash
<1>1. IInv => KeysNeverClash
  BY DEF IInv, PlanInv
<1> QED
  BY <1>1, Invariance, PTL

\* A task's key names the project of its goal.  (board.py create_goal)
THEOREM TasksAtHome == Spec => []TasksInTheirProject
<1>1. IInv => TasksInTheirProject
  BY PlanningAssumption DEF IInv, PlanInv, PlanTypeOK, TasksInTheirProject, Rows
<1> QED
  BY <1>1, Invariance, PTL

-----------------------------------------------------------------------------
(* How far a tool call is from its answer. *)

ToGo(c) ==
    CASE pc[c] = "new"   -> Stmts + 5
      [] pc[c] = "lock"  -> Stmts + 4
      [] pc[c] = "open"  -> Stmts + 3
      [] pc[c] = "setup" -> Stmts + 2 - at[c]
      [] OTHER           -> 0

\* A step of a tool call brings it nearer to its answer and takes no other back, nor
\* does a restart; and who waits for the lock waits for a call that is making the store.
CallsAdvance ==
    /\ \A c \in Calls : CallStep(c) => ToGo(c)' < ToGo(c)
    /\ \A c \in Calls : ToGo(c)' <= ToGo(c)
    /\ \A c \in Calls : pc[c] = "lock" => lock = None \/ pc[lock] \in {"open", "setup"}

LEMMA ToGoType == ASSUME StartInv, NEW c \in Calls PROVE ToGo(c) \in 0..Stmts + 5
<1>1. Stmts \in Nat /\ at[c] \in 1..Stmts + 1
  BY StartUpAssumption DEF StartInv, StartTypeOK
<1> QED
  BY <1>1 DEF ToGo

LEMMA CallNearer ==
    ASSUME StartInv, NEW c \in Calls, CallStep(c)
    PROVE  /\ ToGo(c)' < ToGo(c)
           /\ \A d \in Calls \ {c} : pc'[d] = pc[d] /\ at'[d] = at[d]
<1>1. Stmts \in Nat /\ at[c] \in 1..Stmts + 1
  BY StartUpAssumption DEF StartInv, StartTypeOK
<1> USE <1>1 DEF StartInv, StartTypeOK, Move, Serve, ToGo
<1>2. CASE Look(c) \/ Enter(c) \/ InitFails(c)
  BY <1>2 DEF Look, Enter, InitFails
<1>3. CASE OpenPool(c)
  BY <1>3 DEF OpenPool
<1>4. CASE Execute(c)
  BY <1>4 DEF Execute
<1>5. CASE Publish(c)
  BY <1>5 DEF Publish, HasSetUp
<1> QED
  BY <1>2, <1>3, <1>4, <1>5 DEF CallStep

\* The safety half of CallsAnswered, for any number of calls and statements: neither a
\* call that fails nor a restart holds up or sets back another, and the lock is never
\* held by one that has ended.  (mcp_server.py _board)
THEOREM CallsOnlyAdvance == Spec => [][CallsAdvance]_vars
<1>1. IInv /\ IInv' /\ [Next]_vars => CallsAdvance
  <2> SUFFICES ASSUME IInv, IInv', [Next]_vars PROVE CallsAdvance
    OBVIOUS
  <2>1. StartInv /\ Stmts \in Nat
    BY StartUpAssumption DEF IInv
  <2>2. \A c \in Calls : ToGo(c) \in 0..Stmts + 5
    BY <2>1, ToGoType
  <2>3. \A c \in Calls : CallStep(c) => ToGo(c)' < ToGo(c)
    BY <2>1, CallNearer
  <2>4. ASSUME NEW c \in Calls PROVE ToGo(c)' <= ToGo(c)
    <3>1. CASE UNCHANGED <<pc[c], at[c]>>
      BY <2>1, <2>2, <3>1 DEF ToGo
    <3>2. CASE McpRestarts
      BY <2>1, <2>2, <3>2, StartUpAssumption DEF McpRestarts, StartInv, StartTypeOK, ToGo
    <3>3. ASSUME NEW d \in Calls, CallStep(d) PROVE ToGo(c)' <= ToGo(c)
      <4>1. CASE d = c
        <5>1. ToGo(c)' \in 0..Stmts + 5
          <6>1. Stmts \in Nat /\ at'[c] \in 1..Stmts + 1
            BY <2>1 DEF IInv, StartInv, StartTypeOK
          <6> QED
            BY <6>1 DEF ToGo
        <5> QED
          BY <2>1, <2>2, <2>3, <3>3, <4>1, <5>1
      <4>2. CASE d # c
        BY <2>1, <3>1, <3>3, <4>2, CallNearer
      <4> QED
        BY <4>1, <4>2
    <3>4. CASE \E d \in Calls : WaitCancelled(d)
      BY <2>1, <2>2, <3>4 DEF WaitCancelled, Move, StartInv, StartTypeOK, ToGo
    <3>5. CASE Plans \/ RestBoots \/ RestDies \/ UNCHANGED vars
      <4>1. UNCHANGED <<pc[c], at[c]>>
        BY <2>1, <3>5, StartUpAssumption
        DEF Plans, RestBoots, RestDies, Connect, Execute, Ready, RestStops, RestStarts, Move,
            StartInv, StartTypeOK, vars, startVars
      <4> QED
        BY <3>1, <4>1
    <3> QED
      BY <3>2, <3>3, <3>4, <3>5 DEF Next, McpNext
  <2>5. \A c \in Calls : pc[c] = "lock" => lock = None \/ pc[lock] \in {"open", "setup"}
    BY <2>1 DEF StartInv, StartTypeOK, Making
  <2> QED
    BY <2>3, <2>4, <2>5 DEF CallsAdvance
<1> QED
  BY <1>1, Invariance, PTL DEF Spec
=============================================================================
