# Verification of Coordinator3000

TLA+ modules, TLC configurations and TLAPS proofs about Coordinator3000, a
server on which coding agents share a task board and on which GitHub issues are
turned into pull requests. Paths are relative to the repository; `board.py:432`
is `src/app/store/board.py` line 432.

    tlc -workers 2 -config Claims.cfg MCAgentApi.tla     # one run
    tlapm AgentApiProofs.tla                             # one module of proofs

`PROJECT.json` lists the runs with their configurations, ties every definition
to the lines it models, and gives for each checked property a *mutant*: a
plausible bug in one definition under which TLC finds the property violated.
The mutants stand beside the definitions they change and are used by nothing.

## 1. The system

Two halves share one Postgres and one GitHub account. The REST server, with its
sweeper and the run engine, is one process, the MCP server another.

*The coordination board.* Projects hold goals, goals hold tasks. Workers (people
with their own agents) claim tasks, submit diffs, block, release and annotate
them, through REST (`api/agent.py`) or MCP (`mcp_server.py`). The board keeps
the rows; a submission becomes a branch and a pull request.

*The run engine.* A labelled issue arrives by webhook, or by `POST /api/runs`,
and becomes a job of an in-memory queue. A worker runs it through a LangGraph
graph: an orchestrator routes between a coder and a reviewer until a finalize
node pushes the branch and opens a pull request.

| Component | State | Operations | Interacts with |
|---|---|---|---|
| Board store (`store/board.py`) | `c3k_tasks`, `c3k_notes` | claim_task, submit_task, set_status, add_note, release_stale, list_work | called by both surfaces and the sweeper; every statement commits by itself (autocommit pool) |
| Worker operations (`api/agent.py`, `mcp_server.py`, `services/submit.py`) | requests in progress; branches and PRs on GitHub | claim, submit, block, release, note | board store, git, GitHub, events |
| Stale-claim sweeper (`main.py:63-88`) | rows released and not yet noted | one sweep per interval | board store, notes, activity |
| Orchestration graph (`graph/`, `agents/orchestrator.py`) | `TaskState`, recursion steps | orchestrator, code, review, finalize, abort | language model, git, GitHub |
| Agents and their tools (`agents/coder.py`, `agents/reviewer.py`, `tools/fs_tools.py`, `tools/git_tools.py`, `tools/sandbox.py`) | the run's clone: working tree, index, HEAD; the verdict dict | write_file, delete_file, run_shell, run_python, git_commit, submit_review | language model, git, sandbox |
| Run engine (`worker/`, `store/runs.py`) | queue, workers, `coordinator_runs` | submit, take, create, mirror, update, report | graph, GitHub, Postgres |
| Retry policy (`utils/retry.py`) and git and GitHub clients (`tools/`) | attempts | call, wait, give up | network |
| Accounts, memberships, tokens (`store/board.py`, `api/auth.py`, `api/admin.py`) | accounts, members | create, rotate, revoke, join, leave, authenticate | every request |
| Activity feed and notifications (`services/notify.py`) | events | emit after an effect | board store, a webhook |
| Projects, goals, task keys (`board.py:250-357`) | counters | create_project, create_goal, create_task | board store |
| Webhook (`webhooks/github.py`) | none | decide whether a payload triggers a run | run engine |
| Start-up (`main.py:46-116`, `mcp_server.py:41-57`, `board.py:23-146`) | the schema, each server's store and pool, a lock | create the tables, make the store once | board store |
| Checkpointer (`graph/checkpointer.py`) | LangGraph's tables | written by the graph, read by nobody | graph |
| Model clients and prompts, configuration, web pages | none that matters | | |

### What is hard

* **Statements are not transactions.** The pool is opened with autocommit, so a
  store method of several statements can be interleaved with others, or cut
  short, between any two. `claim_task` is a read, a check, an UPDATE, a scan and
  one INSERT per note; `list_work` reads the backlog and then what is done.
* **Requests are coroutines without locks.** `submit` reads the row, spends
  minutes in clone, push and GitHub calls, then writes a status with no
  condition.
* **Rights are read before they are used.** The account and its memberships are
  read in statements of their own; an administrator's may come between them and the
  effect.
* **GitHub is not transactional either.** Two submissions of one task, or two
  runs of one issue, use one branch name; a pull request may be open although
  the call that opened it raised.
* **The queue is memory.** A stop loses it, and the runs in progress with it.
* **A language model chooses the route** through the graph, so what is certain
  about a run rests on a few deterministic guards.
* **Tools run in threads.** A model may ask for several tools in one message, and
  LangGraph runs them at once in one clone: `git add` beside a `write_file`, two
  `git_commit` beside each other, commands whose children outlive their answer.
* **Background loops must outlive every failure**: the sweeper and the workers
  catch what they can and start again.

### What makes each component correct

* Board and worker operations: a claim is exclusive; rows are never half
  claimed; overlapping work is flagged on both tasks; blockers are done before
  work starts; a stale claim comes back; no submission disturbs the open PR of
  another; what a list says of a task was true of it at some moment of the call.
* Graph: what is offered as ready for review was approved as it stands; the cap
  holds; the fallback's runs fit in the recursion limit; every run ends.
* Agents and tools: a commit holds what was written before it was asked for; an agent
  that takes one step at a time, ran no command that left something behind and was told
  of no error has no half file in a commit; a verdict is one on the commits that are offered.
* Run engine: no accepted run is lost or run twice; no run disturbs the PR of
  another; rows tell the truth about PRs; every run settles, whatever fails.
* Calls of git and GitHub: a call that returns was carried out, none is carried
  out after its end, and only what may be repeated is repeated.
* Start-up: nobody uses a half-made schema; the MCP server has one store.
* Projects, goals, tasks: no key is given twice; a task belongs to its goal's project.
* Accounts: nothing is done without a right held since the request began (over REST a
  claim or a read only in a project the account could see, over MCP only the token); a token
  that was revoked or replaced is never good again.
* Events: an error is told only when something is missing, success only when nothing is.

`PROJECT.json` lists the hazards behind these, each at the line where it bites.

## 2. The modules

| Module | Models |
|---|---|
| `BoardStore` | `store/board.py`: the rows of tasks and notes, one operator per SQL statement |
| `TaskLease` | abstract: what the board promises of a task's holder |
| `AgentApi` | extends `BoardStore` with the requests of both surfaces, `services/submit.py`, the sweeper, git branches and pull requests |
| `AgentApiProperties` | the properties of `AgentApi`, and `TaskLease` instantiated |
| `Listing` | `list_work` beside the requests and sweeps of `AgentApi` |
| `Orchestration` | one run of the graph: `graph/builder.py`, `decide_route`, LangGraph's limit |
| `AgentTurns` | extends `Orchestration` with the turns of the coder and of the reviewer, tool by tool |
| `RunOutcome` | abstract: what a run promises to those who look at its row |
| `Engine` | webhook and manual trigger, queue, workers, `runner.py`, `store/runs.py`, branches and PRs of runs |
| `RemoteCall` | abstract: what a caller of git or GitHub may rely on |
| `GitHubCalls` | clone, push and the POSTs of `GitHubClient` under the retry policy |
| `StartUp` | how both servers make the schema and come by a store |
| `Planning` | creating projects, goals and tasks, with the keys of tasks |
| `BoardSetup` | composes `StartUp` and `Planning` |
| `Access` | accounts, tokens and memberships, the checks before an effect and the events after it |
| `AgentApiProofs`, `ListingProofs`, `OrchestrationProofs`, `AgentTurnsProofs`, `EngineProofs`, `GitHubCallsProofs`, `BoardSetupProofs`, `AccessProofs` | the theorems |
| `MCAgentApi`, `MCListing`, `MCAgentTurns`, `MCEngine`, `MCAccess` | small instances; the other modules have constants that a configuration can give and need none |

### AgentApi

An action is the code between two awaits that another request can tell apart. A
slot of `req` holds one request: its `pc` names the await it is at, `acct` and
`task` are its arguments, `todo` the overlaps it has found and not yet noted.

| Code | Actions |
|---|---|
| `claim_task` | `BeginClaim`, `CheckBlockers`, `ClaimTask` or `ClaimLost`, `ScanOverlaps`, `NoteSelf`, `NoteOther` |
| `submit`, `submit_work`, `submit_diff` | `BeginSubmit`, `PatchApplies` or `PatchFails` and `NoteFailed`, `Push` or `PushRejected`, `OpenPr`, `OpenPrFails` or `OpenPrAnswerLost`, `RecordSubmit` |
| `block`; `release` | `BeginBlock`, `SetBlocked`; `Release` |
| `release_stale`, `_stale_claim_sweeper` | `Sweep`, `SweepNote`, `SweepFails` |
| an await raises, or the process stops | `Dies` |
| the clock; people | `TtlPasses`; `HumanEndsPr`, `OperatorMarksDone` |

The abstractions, and why they lose nothing a property asks about:

* Time is whether a claim is `"fresh"` or `"stale"`, the one question
  `release_stale` asks of it. A claim may go stale at any moment.
* `add_note` changes nothing that a statement of these operations reads; the request
  that leaves a note is a `"write"` of `Access`.
* `files`, `blocked_by` and `goal` are constants: no statement updates them.
* `conflictNotes` keeps the notes of current claims. `ClaimRow` forgets the older
  ones, so that an old note never makes a new overlap look flagged. That makes
  the overlap properties stronger, not weaker.
* `branch[t] = None` means that a push would be taken (no such branch, or one
  that the new commits build on); otherwise it names whose diff is the tip, and
  a push, which is never forced, is refused.
* A person may end a pull request, with or without deleting the branch. Nobody
  deletes the branch between a push and its PR.
* `"done"` is set by an operator in the database: no code sets it, and nothing asks what
  the status was before, so `OperatorMarksDone` takes a task of any other status. `"claimed"`
  is listed among the active statuses and never written.
* There is one server of each kind: `fly.toml` and the `Dockerfile` start one REST
  server, which alone sweeps, and the MCP server is started by itself. The stop of
  one is a `Dies` of each of its requests. A request that dies at a call has either had its effect
  before (the next `pc`) or not: git and GitHub calls that complete in a thread
  after their coroutine was cancelled are an effect followed by a death.
* The REST surface refuses the submission of another worker's task, MCP does not:
  `MaySubmit` asks `Surfaces`.

### Listing

`list_work` reads the rows of a goal's backlog (`ListRows`) and then, in a SELECT of its
own, the keys that are done (`ListDone`); between the two, every step of `AgentApi` may
come (`BoardMoves`). `ListDies` is a SELECT that raises. So the answer may be one that the
board has never had: `ListTells` is what is left of it, per task. `wasFree`, `stayedFree`
and `pulled` are history: which of the rows read could be claimed at some moment since,
which all the while, and which have left the backlog although they could not be claimed
(blocked, submitted or marked done, or claimed by a request that had checked its blockers
before one was reopened). The order of tasks in the answer, a matter of priorities and
text, is left out.

### Orchestration

An action is one node, which is one step against the recursion limit. Texts are
abstracted to whether they are empty, because `decide_route`'s fallback asks
exactly that; the branch to whether it has commits, which is what `_finalize` asks.
`CoderCommits` is a commit in the course of the coder's turn, `CoderNode` the end of
that turn. The model's answer is arbitrary (`node' \in Routes`), the reviewer's
verdict too. `NodeRaises` is an
exception in any node, `OutOfSteps` LangGraph's `GraphRecursionError`; both end
in `runner.py`'s handler. `offPath` and `approved` are history. It is assumed that
the limit counts nodes exactly (the library's own tolerance of one step is not
modelled).

### AgentTurns

What `Orchestration` takes as one node of an agent is here a turn: messages of the
model, each of which asks for up to `MaxCalls` tools, and an answer to each before the
next message. A slot of `call` holds one tool and the step it is at; `tree`, `index`
and `committed` are the clone.

| Code | Actions |
|---|---|
| the model asks; the turn ends; a model or a node gives up | `Asks`; `CoderEnds`, `ReviewerEnds`; `TurnRaises` |
| `write_file`, `delete_file` | `WriteOpens`, `WriteCloses`, `FileToolFails`, `Removes` |
| `run_shell`, `run_python` | `CommandOpens`, `CommandCloses`, `CommandEnds`, `CommandTimesOut`, `StrayWrites` |
| `git_commit`: `add -A`, `status --porcelain`, `commit` | `GitRuns`, `GitFails`, `GitTimesOut` |
| `submit_review` | `Submits` |
| the other nodes; the removal of the workspace | `Routing`, `LastNode`, `CleansUp` |

* A file's content is one of a small set, or `Torn`: open for writing, or written by
  two at once. Opening a file to write truncates it, so a write is two steps.
* A git command that is killed may have done its work, and may leave `index.lock`.
  Another git finds the lock while `add` or `commit` of a neighbour is in progress.
* Any command may leave something behind (`stray`), and nobody is told unless it times
  out. `subprocess.run` returns when the shell has exited and its pipes are closed, so a
  child in the background goes on after a normal answer (in a docker sandbox it ends with
  the container), a command that dies may leave a file half written, and at a timeout only
  the shell or the docker client is killed. What was left behind writes what and when it
  likes (`StrayWrites`), until the workspace is removed.
* The reviewer has file and command tools, but no git tool. Commands are assumed not
  to run git themselves; with that, only the coder commits.
* A tool that raises answers with an error (LangGraph's `ToolNode`), which is
  `FileToolFails` or the "ERROR" of `git_commit`. Tools that only read, and comments
  on the issue, are left out.
* `ImplementsGraph` says that all this is a run of `Orchestration`.

### RunOutcome

A run is open, then has one of four ends. While it is open it may open its pull
request, and after its end nothing becomes of it. `completed` means a pull request,
`needs_human` and `aborted` that there is none; `failed` promises nothing, since
anything may fail after the pull request was opened. A run of `Orchestration`
implements it with its `status` (`IsRunOutcome`), and each run of `Engine` with its row
and its fate (`AreRunOutcomes`). `Engine` has no detail of the graph: its steps
`GraphEnds`, `Push`, `OpenPr` and `Raises` are the ways in which a `RunOutcome` moves, so
the two together say that what becomes of the row is what the graph has come to.

### Engine

A worker is at one of eight points of `runner.py`: waiting, before the row is
created, in the graph, between push and PR, before the last mirror of the graph's
state, before the final update, and at the two steps of the exception handler.
Comment, clone and graph up to the push are one step, since no other run can see
them; what the graph can do inside is `Orchestration`'s subject. `Faults` chooses
what may go wrong: the database, GitHub, the agents, the process. `Raises` is any
exception within the try, `CreateFails` and `FailRowFails` those outside it.
`Trigger` decides over the payload (`Request`) what `parse_issue_event` and
`trigger_run` decide; its signature and its shape are taken as valid. `fate` and
`shipped` are history.

### GitHubCalls

A call is ready, sent, waiting for its next attempt, or at its end. `Breaks` is
whatever is no answer, a lost connection, a timeout or a 5xx, and the call may have
been carried out before; `Refused` is a 4xx or git's exit status. A POST is
retried after the former, a git command after neither, because the decorator asks for
httpx errors (`Retryable`). `Engine` and `AgentApi` use what this module shows: their
steps `OpenPr` with a lost answer and `OpenPrFails` are the two ways in which a
`RemoteCall` raises. Comments and statuses, which may be repeated, change no state
they have.

### BoardSetup

`StartUp` has the REST server and the tool calls of the MCP server. `pc` says where
each is, `at` which statement of the schema is its next; `schema` is what has been
executed by anybody. `Look`, `Enter` and `Publish` are `_board`'s two checks and its
assignment. `InitFails` gives the lock back, as `async with` does, and leaves the pool
open, as the code does. A statement that fails because the other server runs the
same one is one of the reasons for `InitFails` and `RestStops`. `McpRestarts` ends
the calls in progress; those that have not come yet reach the next process.

`Planning` has one action per statement. The two halves of `create_task`, the
`UPDATE ... RETURNING` of the counter and the `INSERT`, are `TakeNumber` and
`InsertTask`; a request that ends in between leaves a gap in the numbers. Numbers are
bounded by the requests, each of which is made once.

`BoardSetup` lets the requests of `Planning` run while the REST server is up, and ends
them when it stops. From there on the rows of tasks are `BoardStore`'s.

### Access

A slot holds one request, of a worker or of an administrator: `ask` is what it asks
for, `pc` the statement it is at. A token is its account and a number, and
`rotate_account` gives the next one; the hash stands for the token. `had` is history:
the rights the request has had at some moment since it came.

| Code | Actions |
|---|---|
| a request comes | `Begin`, `BeginAdmin` |
| `current_account` with `_require_write`, `_AuthASGI` with `_account`; `admin_auth` | `Authenticate`; `AuthenticateAdmin` |
| `_require_access`, which claim, list and get call | `CheckAccess` |
| the worker's operation; an administrator's project, goal or task | `Act` |
| `admin.py`'s accounts and memberships | `CreateAccount`, `RevokeAccount`, `RotateAccount`, `AddMembership`, `RemoveMembership` |
| `emit`: the event, then the webhook | `RecordEvent`, `RecordEventFails`, `Notify` |
| a refusal; the client or the process goes away | `Refused`; `Ends` |

`"claim"`, `"read"` and `"write"` are the requests of REST: a claim and a read (a goal's
work, a task) are held to the account's projects, a write (submit, note, block, release)
to its role alone. The tools of the MCP server look at the token alone, claims and reads
among them, so they are one kind, `"tool"`, which `ActsByRight` asks nothing more of.
`ADMIN_TOKEN` is taken to be set. What a worker's operation does to a task is
`AgentApi`'s subject: a request that begins there is one that has come to `Act` here.

## 3. The runs

Every passing run is exhaustive; the last column counts its distinct states.

| Run | Instance | Shows | States |
|---|---|---|---|
| `Claims` | two tasks that share a path, one account, two requests; claim, release, block; fairness | `RowConsistent`, `OverlapsFlagged`, `StaleClaimFreed` | 758,576 |
| `Submissions` | one task, two accounts, three requests, REST and MCP, every operation; symmetric in accounts and requests | `PrHeadIntact`, `SubmissionAccounted`, refinement `IsLease` | 1,493,692 |
| `Blockers` | `t2` waits for `t1`, `t1` for a key that no task has; one request, one list; claim, block, release, done | `BlockersWereDone`, `ListTells` | 1,859,186 |
| `Access` | a worker, an administrator, two projects, two requests, two tokens an account; symmetric in projects and requests | `AnswersTell`, `ActsByRight`, `TokensStayDead` | 479,579 |
| `GraphRuns` | two rounds, limit eight; two tools at once, one file, two messages of the coder and one of the reviewer in a turn; fairness | `CommitCovers`, `HeadWhole`, `ReadyPrWasReviewed`, `ReadyPrWasApproved`, `IterationsBounded`, `FallbackFits`, refinements `ImplementsGraph` and `IsRunOutcome`, `Terminates` | 718,566 |
| `RunEngine` | two runs of one issue and a delivery to be ignored, two workers, all faults; fairness | `WorkConserved`, `PrHeadIntact`, `BranchAccounted`, `RowTellsTruth`, refinement `AreRunOutcomes`, `RunsSettle` | 11,022 |
| `GitHubCalls` | two calls of any kind, four attempts; fairness | `EffectsBounded`, refinement `IsRemoteCall`, `CallsEnd` | 19,321 |
| `BoardSetup` | REST server and two tool calls, a schema of two statements, three requests, two projects, one goal key; fairness | `SchemaComplete`, `OneStore`, `KeysNeverClash`, `TasksInTheirProject`, `CallsAnswered` | 219,528 |

Why these bounds are enough to be interesting:

* *Claims*: an overlap is a relation of two tasks, and a race of claims one of two
  requests. Who claims does not matter to the notes, so one account does. A third
  task would only add a second pair, and the theorem covers any number.
* *Submissions*: three requests allow a submission that is overtaken while another
  one is between its push and its PR. Symmetry is sound: no liveness property is
  checked and the constants are used nowhere by name.
* *Blockers*: with one request a check and its UPDATE are not interleaved with
  another claim, but releases, sweeps and an operator's "done" do come in between. The
  interleaving that breaks the stronger statement is run `BlockerReopens`. Lists share
  nothing, so one is enough; all that moves a row into or out of the backlog, or into or
  out of `done`, comes between its two SELECTs. A submission is left out here: for a list
  it is one more way to leave the backlog, as `block` is. The key that no task has is the
  one thing a list and a claim treat differently.
* *GraphRuns*: eight is the least limit that fits two rounds of four steps, so
  `FallbackFits` is checked at its edge and `OutOfSteps` happens off the
  fallback's path; a second round is what a verdict could outlive. Two tools are a
  race, and the second message of a turn finds what the first has left behind: a lock,
  a stray command, a file that was staged. One file with two contents is enough to
  be old, new or torn; the theorems are about any number of all of these.
* *Access*: a request of the worker meets one administrator's statement after another
  at each of its checks. The second token is the one that a rotation makes. Only the
  worker's memberships change (`Joiners`), since an administrator's are never asked
  for. Symmetry is sound: no liveness property is checked and the symmetric constants are
  named nowhere else.
* *RunEngine*: both runs share the issue's branch, and the second may be queued,
  or running, or done with, when the first pushes, fails or is stopped. The third
  request is a label that is not the engine's, and `WorkConserved` would count it.
* *GitHubCalls*: four attempts are the code's own number. Calls share nothing, so two
  show that one does not touch the other.
* *BoardSetup*: two calls race for the lock, and with the REST server three run the
  schema. Two statements make a schema that can be half done. Three requests are one
  goal and two tasks, whose keys could clash, or two goals of one key and a task.

`MaxTokens` bounds how often an account is rotated and `MaxCalls` the tools of one message;
`MaxMessages` is the code's own bound (half of `_INNER_RECURSION_LIMIT`) made small.
No other counter is capped: `iterations`, `attempts` and the queue are bounded by the
guards of the program and by the finite constants. Deadlock is checked except where the
system really stops: a graph that has ended, calls that have, and an engine with
nothing to trigger and no restart to come.

### Runs that find a violation

Each states what the repository says, and TLC shows an execution of the code that
does otherwise.

| Run | The repository says | The code |
|---|---|---|
| `BlockerReopens` | `# Enforce blocked_by.` (`board.py:412`) | the check and the UPDATE are two statements; a blocker reopened in between is not seen |
| `LateSubmit` | "task is claimed by another account" is refused (`agent.py:108`) | the comparison is made before clone, push and PR; the write has no condition |
| `PushOnce` | "GitHub API calls and `git push` retry on transient" failures (`README.md:309`, `retry.py:3`) | only httpx errors are retried; a git subprocess raises none |
| `Restart` | "so it survives restarts" (`README.md:55`) | no code resumes a run; its row says running for ever |

### Other disagreements seen in the source, without a run

* "Claiming the second auto-adds a conflict note to both" (`README.md:102-104`), and
  "atomically claim" (`board.py:407`), but the UPDATE, the scan and each note commit by
  themselves: a claim that dies after its UPDATE leaves two overlapping tasks in
  progress without notes. This is the exception in `OverlapsFlagged`.
* `_board` does not close its pool when `setup` fails (`mcp_server.py:52-56`), unlike
  `open_board_store`; every failed first call leaves up to four connections open.
  `OneStore` says that no pool is lost in any other way.
* A claim is released after the TTL "of no progress" (`config.py:63-64`), but only its
  age counts (`board.py:489`): a worker that leaves notes all the while loses its task.
* After a timeout "the process is killed" (`sandbox.py:92-93`), but only the shell or the
  docker client is; what it has started may go on writing to the clone (`StrayWrites`). So
  may, outside docker, a child that a command has put in the background with its output
  redirected, after an answer that says nothing of it (`sandbox.py:41-59`, `:99`).
* "With memberships set, the account can only see/claim its projects", a viewer may
  "list/get only" (`README.md:79-83`), and MCP offers "the same operations" (`:97`). The
  tools ask for a good token and neither for the role nor for the project
  (`mcp_server.py:73-99`). Over REST, submit, notes, block and release ask for the role
  alone, and `GET /agent/goals` lists the goals of all projects (`agent.py:42-44`).
  `ActsByRight` is what does hold.
* "Run `python -m app.mcp_server`" and "set the bearer token" (`README.md:97-99`): run that
  way, the server calls `mcp.run` without `_AuthASGI` (`mcp_server.py:174-186`), no account
  is ever set, and every tool refuses. `Access` and `AgentApi` model the wrapped
  application, and so allow more than this.
* The admin endpoints are called "unauthenticated" in a note of their module
  (`admin.py:4-6`), and all of them depend on `admin_auth` (`admin.py:21`).
* `emit` takes the goal's key before the detail (`notify.py:39-40`); the calls of
  `agent.py` (`:84`, `:96`, `:119`, `:132`) pass their text in its place.
* A run whose coder has written files and committed none ends with "no changes
  produced" (`builder.py:238`), and the files are removed with the workspace.
* The guards are said to "always steer toward shipping a PR" (`builder.py:17-18`), but
  only the coder's turns are capped (`builder.py:76`): reviews may fill the
  recursion limit. `Terminates` holds because of that limit.
* "A failing run posts the error back to the issue" (`README.md:311`), but
  `run_store.create` stands before the try (`runner.py:59`), and the handler updates
  the row before it comments (`runner.py:121`): when the database fails, neither says
  a word.
* `_overlaps` looks at active tasks, `in_review` among them, but a task that comes
  to review without a claim (`submit_task` has no condition) is never scanned
  for. `OverlapsFlagged` is therefore about tasks in progress.
* `submit_diff` promises a `SubmitError` for what goes wrong; a refused push or PR
  is not turned into one (`submit.py:57`, `:68`), so no failure note is written.
* `list_work` and `claim_task` treat blockers differently (`board.py:383`, `:398`):
  a blocker of another goal, or one that names no task, hides a task from the
  list that a claim would give. `ListTells` says that nothing else does.
* The fallback of `decide_route` tells "not yet reviewed" by an empty summary, so a
  reviewer that gives none is asked again (`orchestrator.py:53`, `:61`).
* At the cap the guard goes to finalize before the last round is reviewed
  (`builder.py:76`), so a run that ends at the cap never offers its PR as ready.

## 4. Fairness

* `AgentApi.FairSpec`: the sweeper sweeps again and again and gets through its
  notes, and a claim's TTL passes. The loop in `main.py` catches what a sweep
  raises and goes on; the TTL is a positive number of seconds on the database's
  clock (`claim_ttl_seconds = 0` switches the sweeper off, and is excluded); a database that refuses every sweep for ever is excluded. Nothing is
  assumed of requests, workers or people: the task of a worker that never comes
  back is the case the property is about. `SweepFails` may happen every time, since
  the UPDATE has been committed before it.
* `AgentTurns.TurnsSpec`: the graph, and in a turn the message or a tool, takes its next
  step. LangGraph runs the next node as soon as one returns, and the calls of models,
  git, commands and GitHub have timeouts. Which node, which tool and which answer is
  not fair to anybody, nor is what a command does before it ends, nor that a node
  raises. `Orchestration.FairSpec` says the same of the nodes alone.
* `Access` has none: its properties are about what may not happen.
* `Engine.FairSpec`: each worker that can go on does, for the same reason, and a
  stopped process is started again (the platform's restart policy). `Trigger`,
  `Stop` and `HumanEndsPr` are not fair. A process that stops for ever again does
  not matter to `RunsSettle`: a stop settles a run, for the worse. What it means for
  the run's row is what `Restart` shows.
* `GitHubCalls.FairSpec`: each call goes on. A request has a timeout of 30 s
  (`github_tools.py:44`), a git command one of its own, and a wait is at most 16 s.
* `BoardSetup.FairSpec`: a tool call that has come goes on, because the statements it
  runs end or raise. The servers' stops and starts, and the requests, are not fair.

## 5. The proofs

The theorems hold for every value of the constants under the modules' assumptions:
`None` is no account, task, run, file, status or age (`NoneAssumption`,
`EngineAssumption`, `StartUpAssumption`, `PlanningAssumption`, `AccessAssumption`,
`TurnAssumption`); a torn file is no content; every account has a role; `Ops`, `Surfaces` and `Faults` are subsets of what the code
offers; cap and limit are naturals; every run has a branch. `Tasks`, `Accounts`,
`Reqs`, `Jobs` and `Workers` may be any sets, infinite ones too.

`AgentApiProofs`
* `TypeCorrect`, from `TypeInv`: the types and that a busy slot has an account and
  a task, without which an UPDATE could write to no row.
* `RowsConsistent`. `StepOnRows` reduces all steps to the five statements that
  touch a row (`RowsMove`); the invariant is inductive over these.
* `ImplementsLease`: `assignee` implements `TaskLease`. A claim is an `Acquire` only
  because a row in the backlog has no holder, so the step uses `RowConsistent`. A
  release gives back one lease, a sweep many, all else stutters.
* `PrsIntact`: `PrHeadIntact` alone is not inductive. The strengthening says that a
  request between push and PR owns the branch and that no PR is open for it; the
  unforced push then keeps every other request out, which is `OneSubmitterOpens`
  (theorem `OneOpens`; no run checks it by itself, because a submission that breaks it
  breaks `PrHeadIntact` in the end). `OpenPrsLast` is the same as an action property: an
  open PR is neither replaced nor added to.
* `SubmissionsAccounted`: strengthened by what a request past its push knows of the
  branch, so that whoever leaves it behind is counted as having ended there.
* `OverlapsAreFlagged`: the invariant counts a pair as covered while one of the two
  claims has still to scan or to write. The argument is that of the code: a claim
  scans after its UPDATE, so the later of two claims sees the earlier one.
* `BlockersEnforced`: strengthened by what a request at its UPDATE has checked. Since
  `finished` only grows, the reopening of `BlockerReopens` does not hurt it.
* `BlockersHoldUnreopened`, `HoldersSubmitUnovertaken`: see "Why the violations happen".
* `ClaimsAge`: no step of anybody makes a claim younger, and a sweep leaves out no stale
  one; this is what `StaleClaimFreed` needs besides fairness.

`ListingProofs`
* `ListsTell`: `ReadInv` says what a list knows of its rows between the SELECTs: each is
  in the backlog still, or has been free since it was read, or was pulled when not free;
  and what was free all the while is free now. So a row whose blockers are all done at the
  second SELECT is in the backlog, and then free at that moment, or is accounted for.

`OrchestrationProofs`
* `ReadyPrsApproved`: a passed verdict in the state is one on the present head,
  because the coder's node resets it together with moving the head.
* `CapHolds`: the cap holds, no PR is opened before a coder's turn, and one that is
  ready for review only below the cap. `CapInv` adds that before a turn of either agent,
  and under a passed verdict, the count is below the cap.
  The model can choose `code` with a passed review at any count, but there is
  never such a verdict at the cap, since the guard ships what the last turn made.
* `FallbackRunsFit`: `StepsBounded` bounds the steps of a run on the fallback's path
  by its rounds and its place in the round.
* `IsOutcome`: a status other than running and an open pull request come only with the
  last step (`EndInv`), so every other step is a stutter of `RunOutcome`.

`AgentTurnsProofs`
* `TurnsImplementGraph`: each step of a tool leaves `Orchestration`'s variables alone
  but for git's `commit`, which is its `CoderCommits`; that only the coder's calls
  commit is `CallsFit`. The theorems about `Orchestration` carry over (`TurnsKeepVerdict`,
  `TurnsKeepCap`, `TurnsAreOutcome`).
* `CommitsCover`: `CoverInv` says at which command of a `git_commit` the index, and then
  HEAD, equal the tree in the files that nobody has written since.
* `HeadStaysWhole`: `WholeInv` says that, one tool at a time, with no error told and
  nothing left behind by a command, a torn file is one the single tool has open, so that
  no `git add` can be at work.
* `ReadyPrsReviewed`: `ReviewInv` ties the verdict dict, which every review begins
  with empty, to the commits that were there.
* `TurnsTyped`: the types of files, calls and messages.
* `TurnsOnlyAdvance`: the steps of the graph, the messages of the turn and the steps of
  its tools, in this order, are a measure that every step under `TurnsSpec`'s fairness
  brings forward and no other step takes back.

`EngineProofs`
* `RunsConserved`: one lemma per way in which a run changes its place.
* `PrsIntact`: as for submissions, with the branch shared by all runs of an issue.
* `RowsTellTruth`: strengthened by what a worker knows at each point of its run, and
  by `WorkConserved`, so that no other worker writes the same row.
* `RunsAreOutcomes`: from all of these. A step of a worker concerns an accepted run,
  which is open; only `Finish`, whose result `RowInv` knows, ends it with a row, and since
  an ended run is in no worker's hands its row stays.
* `BranchesAccounted`: a branch is without a PR only where a run has pushed and then
  GitHub has failed it or a stop has ended it. Per action, with the worker at `open_pr`
  as the one that still owes the PR.
* `EndedRunsRest`, `OpenPrsLast`: action properties. What is recorded of a run that is
  over, and an open PR, are touched by nobody; both rest on `WorkConserved`.
* `OnlyAskedRuns`: a delivery that asks for nothing leaves nothing, since it never comes
  to the queue.
* `RunsOnlyAdvance`: a run in hand has at most seven steps left and no step of another
  adds to them; a queued run keeps its place or moves up.
* `RowsSettle`: see below.

`GitHubCallsProofs`
* `CallsBounded` and `ImplementsRemoteCall`, both from `CallInv`: a git command has
  one attempt, a POST no more than `MaxAttempts`, a call is carried out at most once per
  attempt, and a call that has returned was carried out unless its answer is not
  looked at. Each action maps to a `Serve` of the abstract module or a stutter.
* `CallsOnlyAdvance`, `GitTriedOnce`: also from `CallInv`. Three steps an attempt are all
  that a call has; an answer stands.

`BoardSetupProofs`
* `SchemaIsComplete`, `StoreIsOne`, from `StartInv`: whoever has come to a statement has
  executed those before it, and the lock is held by exactly the call that makes the
  store, while there is none.
* `KeysDistinct`, `TasksAtHome`, from `PlanInv`: no number in use, in a row or in a
  request, is above its project's counter, and the row of a goal is never changed.
* `CallsOnlyAdvance`: the statements that a call has before it, with the lock before them.
  Whoever waits for the lock waits for a call that is making the store.

`AccessProofs`
* `AnswersTrue`: `EventsInv` relates the point a request is at, whether it has had its effect and the
  events that are left.
* `EffectsByRight`: `RightsInv` says that a request past a check has had the right that
  the check asked for, which for a tool is the token; a right once had is not forgotten
  while the request lasts.
* `DeadStaysDead`: the number of an account's token only grows.

### Why the violations happen

A violation shows one execution. A theorem with the cause as a hypothesis says that there
is no other.

* `BlockerReopens`: `BlockersHoldUnreopened` proves `ClaimEnforcesBlockers` of every
  behaviour in which no done task is reopened (`[][NoReopening]_vars`), whatever else
  comes between check and UPDATE.
* `LateSubmit`: `HoldersSubmitUnovertaken` proves `OnlyHolderSubmits` over REST, in
  every behaviour in which no account claims a task while a submission of it by another
  is under way. MCP compares nobody with the assignee and needs no overtaking.
* `PushOnce`: `GitTriedOnce` proves that no git command has a second attempt, for any
  `MaxAttempts`.
* `Restart`: `RowsSettle` names the rows that can stay open for ever: of a run that a
  stop has cut off, or of one that has raised in an engine whose database may fail.

### What is only model-checked

The liveness properties `StaleClaimFreed`, `Terminates`, `RunsSettle`, `CallsEnd` and
`CallsAnswered` are out of this prover's reach, since it knows nothing of `ENABLED` and
weak fairness. What is proved of them is the safety half, for every value of the
constants. `TurnsOnlyAdvance`, `RunsOnlyAdvance` and the two `CallsOnlyAdvance` give a
bounded measure of what is left to do, which the fair steps lower and which no other step
raises, a stop or a restart among them; `ClaimsAge` says the same of the age of a claim,
whose end is a sweep. That a fair step is enabled until the measure is at its end is what TLC's
runs show on their instances.

## 6. Not modelled

* What an event says, and the pages that read the feed.
* Which model's client is built and what it is told (`agents/llm.py`, `prompts.py`): the
  answers are arbitrary.
* The git commands inside `apply_patch`, `commit_all` and `clone_repo`: they work on a
  directory that one request has for itself, and are part of its step.
* Names of accounts and projects; goals' and tasks' texts, priorities and labels.
* The stores of runs and of checkpoints at start-up, which `lifespan` opens as it opens
  the board's.
* The contents of diffs, comments, prompts and reports; the web pages; what isolates a
  command in the sandbox.
* LangGraph, Postgres and GitHub themselves, beyond the outcomes named above.
* Several REST servers on one database, each with its sweeper.
* The durations of waits and timeouts; the webhook's signature and malformed payloads.

## 7. Plan

Done: board, worker operations and sweeper; graph, the agents' turns and their tools;
engine and its triggers; the retried calls; start-up and planning; accounts, requests'
checks and events; the abstract run. What would come next:

1. `AgentApi` over tasks that come into existence while others are claimed
   (`Planning`'s `InsertTask`), with blockers that name no task yet.
2. The composition of `Access` with `AgentApi`, so that a request's checks, and not only
   its effect, are interleaved with the claims of others.
3. The preparation of a submission (`apply_patch` and `commit_all`) command by command,
   as `AgentTurns` has `git_commit`.
4. More refinement: one abstract board that both `IsLease` and the accounting of
   submissions follow from, and `Engine`'s runs over the same abstract branches.

The order is by what a failure costs: work that is offered or claimed wrongly comes
before a tidier model.
