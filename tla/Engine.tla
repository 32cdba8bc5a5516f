-------------------------------- MODULE Engine --------------------------------
(***************************************************************************)
(* The run engine: the in-memory JobQueue and its workers                  *)
(* (app/worker/queue.py), the life of one run (app/worker/runner.py), the  *)
(* coordinator_runs table (app/store/runs.py), and the branches and pull   *)
(* requests that runs leave on GitHub.  One action is the code of a worker *)
(* between two awaits that others can tell apart; the orchestration graph  *)
(* up to the push of its finalize node, with the comment and the clone     *)
(* before it, is one step, and has a module of its own, Orchestration.     *)
(* The process may stop and start at any point.                            *)
(***************************************************************************)
EXTENDS Naturals, Sequences

CONSTANTS
    Jobs,       \* the runs that may be asked for; run_id is a fresh uuid
    Request,    \* Request[j]: the webhook delivery or the manual call that asks
    Workers,    \* the tasks of the JobQueue
    Branches,   \* names of branches
    BranchOf,   \* BranchOf[j]: ai-task/issue-<number>-<slug>, one for an issue
    Faults,     \* what may go wrong, a subset of AllFaults
    None

AllFaults == {"db", "github", "agent", "stop"}
Final == {"completed", "needs_human", "aborted", "failed"}

\* theLabel: the label that was put on is ai-task; labels: the issue bears it.
Requests == [action : {"labeled", "opened", "reopened", "other", "manual"},
             theLabel : BOOLEAN, labels : BOOLEAN, isPr : BOOLEAN]

ASSUME EngineAssumption ==
    /\ BranchOf \in [Jobs -> Branches]
    /\ Request \in [Jobs -> Requests]
    /\ Faults \subseteq AllFaults
    /\ None \notin Jobs \cup Final \cup {"running"}

VARIABLES
    up,         \* whether the process runs
    queue,      \* the JobQueue's asyncio.Queue
    work,       \* work[w]: what worker w does, for which job
    row,        \* row[j]: coordinator_runs.status, or None without a row
    rowPr,      \* row[j] has a pr_url
    branch,     \* branch[b]: the run whose commits are its tip on GitHub, or None
    openPr,     \* openPr[b]: the run whose commits the open PR of b shows, or None
    (* History; only the freshness of run_id is read from it. *)
    fate,       \* fate[j]: "new", "accepted", "ended", "raised" or "stopped"
    shipped     \* the runs that have opened a PR

gitVars == <<branch, openPr>>
rowVars == <<row, rowPr>>
vars == <<up, queue, work, row, rowPr, branch, openPr, fate, shipped>>

Pcs == {"idle", "create", "graph", "open_pr", "mirror", "finish", "fail_row", "report"}

\* result: the status the graph has ended with.
Work(p, j, s) == [pc |-> p, job |-> j, result |-> s]
Idle == Work("idle", None, None)
Works == [pc : Pcs, job : Jobs \cup {None}, result : Final \cup {None}]

At(w, p) == up /\ work[w].pc = p
Goto(w, p) == work' = [work EXCEPT ![w] = Work(p, work[w].job, work[w].result)]
GotoWith(w, p, s) == work' = [work EXCEPT ![w] = Work(p, work[w].job, s)]

\* The processor returns or raises, and the worker goes back to its queue.
Done(w, f) ==
    /\ work' = [work EXCEPT ![w] = Idle]
    /\ fate' = [fate EXCEPT ![work[w].job] = f]

SetRow(j, s) == row' = [row EXCEPT ![j] = s]

-----------------------------------------------------------------------------
(* The webhook and POST /api/runs: the answer is 202 once the job is queued. *)

\* parse_issue_event, of an "issues" event.
WebhookAsks(q) ==
    /\ \/ q.action = "labeled" /\ q.theLabel
       \/ q.action \in {"opened", "reopened"} /\ q.labels
    /\ ~q.isPr

\* POST /api/runs needs no label.
ManualAsks(q) == q.action = "manual" /\ ~q.isPr

Trigger(j) ==
    /\ up
    /\ fate[j] = "new"
    /\ WebhookAsks(Request[j]) \/ ManualAsks(Request[j])
    /\ queue' = Append(queue, j)
    /\ fate' = [fate EXCEPT ![j] = "accepted"]
    /\ UNCHANGED <<up, work, rowVars, gitVars, shipped>>

-----------------------------------------------------------------------------
(* The workers. *)

\* Mutant of Take: the job is looked at, not taken.
TakePeeks(w) ==
    /\ At(w, "idle")
    /\ queue # <<>>
    /\ work' = [work EXCEPT ![w] = Work("create", Head(queue), None)]
    /\ UNCHANGED <<up, queue, rowVars, gitVars, fate, shipped>>

Take(w) ==
    /\ At(w, "idle")
    /\ queue # <<>>
    /\ work' = [work EXCEPT ![w] = Work("create", Head(queue), None)]
    /\ queue' = Tail(queue)
    /\ UNCHANGED <<up, rowVars, gitVars, fate, shipped>>

CreateRow(w) ==
    /\ At(w, "create")
    /\ SetRow(work[w].job, "running")
    /\ Goto(w, "graph")
    /\ UNCHANGED <<up, queue, rowPr, gitVars, fate, shipped>>

\* Mutant of CreateFails: the worker dies with its job.
CreateKills(w) ==
    /\ At(w, "create")
    /\ "db" \in Faults
    /\ Goto(w, "dead")
    /\ UNCHANGED <<up, queue, rowVars, gitVars, fate, shipped>>

\* run_store.create stands before the try: the worker logs, and nobody else
\* hears of the run.
CreateFails(w) ==
    /\ At(w, "create")
    /\ "db" \in Faults
    /\ Done(w, "raised")
    /\ UNCHANGED <<up, queue, rowVars, gitVars, shipped>>

\* Whatever stands in the try raises: the pick-up comment, which is not
\* best-effort, a git command, a node of the graph, the recursion limit, an
\* update of the row.
Raises(w) ==
    /\ \/ At(w, "graph") /\ {"github", "agent", "db"} \cap Faults # {}
       \/ At(w, "open_pr") /\ "github" \in Faults
       \/ (At(w, "mirror") \/ At(w, "finish")) /\ "db" \in Faults
    /\ Goto(w, "fail_row")
    /\ UNCHANGED <<up, queue, rowVars, gitVars, fate, shipped>>

\* Mutant of GraphEnds: a run without changes counts as completed.
GraphEndsCompleted(w) ==
    /\ At(w, "graph")
    /\ GotoWith(w, "mirror", "completed")
    /\ UNCHANGED <<up, queue, rowVars, gitVars, fate, shipped>>

\* The graph ends at abort, or at finalize with nothing to ship.
GraphEnds(w) ==
    /\ At(w, "graph")
    /\ \E s \in {"needs_human", "aborted"} : GotoWith(w, "mirror", s)
    /\ UNCHANGED <<up, queue, rowVars, gitVars, fate, shipped>>

\* Mutant of Push: a forced push.
PushForced(w) ==
    /\ At(w, "graph")
    /\ branch' = [branch EXCEPT ![BranchOf[work[w].job]] = work[w].job]
    /\ Goto(w, "open_pr")
    /\ UNCHANGED <<up, queue, rowVars, openPr, fate, shipped>>

\* Mutant of Push: what is pushed is not offered.
PushUnoffered(w) ==
    /\ At(w, "graph")
    /\ branch[BranchOf[work[w].job]] = None
    /\ branch' = [branch EXCEPT ![BranchOf[work[w].job]] = work[w].job]
    /\ GotoWith(w, "mirror", "needs_human")
    /\ UNCHANGED <<up, queue, rowVars, openPr, fate, shipped>>

\* finalize pushes without force: a branch with another tip refuses.
Push(w) ==
    /\ At(w, "graph")
    /\ branch[BranchOf[work[w].job]] = None
    /\ branch' = [branch EXCEPT ![BranchOf[work[w].job]] = work[w].job]
    /\ Goto(w, "open_pr")
    /\ UNCHANGED <<up, queue, rowVars, openPr, fate, shipped>>

\* That is a GitError of the finalize node.
PushRejected(w) ==
    /\ At(w, "graph")
    /\ branch[BranchOf[work[w].job]] # None
    /\ Goto(w, "fail_row")
    /\ UNCHANGED <<up, queue, rowVars, gitVars, fate, shipped>>

\* create_pull_request; the answer may be lost although the PR is open.
OpenPr(w) ==
    /\ At(w, "open_pr")
    /\ openPr[BranchOf[work[w].job]] = None
    /\ openPr' = [openPr EXCEPT ![BranchOf[work[w].job]] = work[w].job]
    /\ shipped' = shipped \cup {work[w].job}
    /\ \/ GotoWith(w, "mirror", "completed")
       \/ "github" \in Faults /\ Goto(w, "fail_row")
    /\ UNCHANGED <<up, queue, rowVars, branch, fate>>

\* _mirror of the graph's last state.
Mirror(w) ==
    /\ At(w, "mirror")
    /\ SetRow(work[w].job, work[w].result)
    /\ rowPr' = [rowPr EXCEPT ![work[w].job] = (work[w].result = "completed")]
    /\ Goto(w, "finish")
    /\ UNCHANGED <<up, queue, gitVars, fate, shipped>>

\* run_store.update of the final status.
Finish(w) ==
    /\ At(w, "finish")
    /\ SetRow(work[w].job, work[w].result)
    /\ Done(w, "ended")
    /\ UNCHANGED <<up, queue, rowPr, gitVars, shipped>>

\* The handler of the try: the row first, then the comment.
FailRow(w) ==
    /\ At(w, "fail_row")
    /\ SetRow(work[w].job, "failed")
    /\ Goto(w, "report")
    /\ UNCHANGED <<up, queue, rowPr, gitVars, fate, shipped>>

\* The handler itself raises: the worker logs, the row stays as it was.
FailRowFails(w) ==
    /\ At(w, "fail_row")
    /\ "db" \in Faults
    /\ Done(w, "raised")
    /\ UNCHANGED <<up, queue, rowVars, gitVars, shipped>>

\* The comment is best-effort: whether it is posted changes nothing.
Report(w) ==
    /\ At(w, "report")
    /\ Done(w, "raised")
    /\ UNCHANGED <<up, queue, rowVars, gitVars, shipped>>

-----------------------------------------------------------------------------
(* The process, and the people on GitHub. *)

\* A crash, or a shutdown that cancels the workers: CancelledError is no
\* Exception, so no handler runs.  The queue is lost with the memory.
Stop ==
    /\ up
    /\ "stop" \in Faults
    /\ up' = FALSE
    /\ queue' = <<>>
    /\ work' = [w \in Workers |-> Idle]
    /\ fate' = [j \in Jobs |-> IF fate[j] = "accepted" THEN "stopped" ELSE fate[j]]
    /\ UNCHANGED <<rowVars, gitVars, shipped>>

\* lifespan: new workers on an empty queue; no row and no checkpoint is read.
Boot ==
    /\ ~up
    /\ up' = TRUE
    /\ UNCHANGED <<queue, work, rowVars, gitVars, fate, shipped>>

\* A PR is merged or closed; a later push of the branch may be taken again.
HumanEndsPr(b) ==
    /\ openPr[b] # None
    /\ openPr' = [openPr EXCEPT ![b] = None]
    /\ \E tip \in {branch[b], None} : branch' = [branch EXCEPT ![b] = tip]
    /\ UNCHANGED <<up, queue, work, rowVars, fate, shipped>>

-----------------------------------------------------------------------------
Init ==
    /\ up = TRUE
    /\ queue = <<>>
    /\ work = [w \in Workers |-> Idle]
    /\ row = [j \in Jobs |-> None]
    /\ rowPr = [j \in Jobs |-> FALSE]
    /\ branch = [b \in Branches |-> None]
    /\ openPr = [b \in Branches |-> None]
    /\ fate = [j \in Jobs |-> "new"]
    /\ shipped = {}

RunStep(w) ==
    \/ CreateRow(w) \/ CreateFails(w) \/ GraphEnds(w)
    \/ Push(w) \/ PushRejected(w) \/ OpenPr(w) \/ Mirror(w) \/ Finish(w)
    \/ Raises(w) \/ FailRow(w) \/ FailRowFails(w) \/ Report(w)

Next ==
    \/ \E j \in Jobs : Trigger(j)
    \/ \E w \in Workers : Take(w) \/ RunStep(w)
    \/ Stop \/ Boot
    \/ \E b \in Branches : HumanEndsPr(b)

Spec == Init /\ [][Next]_vars

\* The event loop runs every worker that can go on, each call a worker waits
\* for has a timeout, and the platform starts a stopped process again.
FairSpec == Spec /\ WF_vars(Boot) /\ \A w \in Workers : WF_vars(Take(w)) /\ WF_vars(RunStep(w))

TypeOK ==
    /\ up \in BOOLEAN
    /\ queue \in Seq(Jobs)
    /\ work \in [Workers -> Works]
    /\ row \in [Jobs -> Final \cup {None, "running"}]
    /\ rowPr \in [Jobs -> BOOLEAN]
    /\ branch \in [Branches -> Jobs \cup {None}]
    /\ openPr \in [Branches -> Jobs \cup {None}]
    /\ fate \in [Jobs -> {"new", "accepted", "ended", "raised", "stopped"}]
    /\ shipped \subseteq Jobs

-----------------------------------------------------------------------------
(* Properties. *)

Queued == {queue[n] : n \in 1..Len(queue)}
Worked == {work[w].job : w \in Workers} \ {None}

\* An accepted run is in exactly one place, the queue or one worker, until it
\* is settled, and then in none: no run is lost and none is run twice, whatever
\* raises and whenever the process stops.  (queue.py _run, runner.py)
WorkConserved ==
    /\ \A m, n \in 1..Len(queue) : queue[m] = queue[n] => m = n
    /\ \A v, w \in Workers : work[v].job = work[w].job /\ work[w].job # None => v = w
    /\ Queued \cap Worked = {}
    /\ Queued \cup Worked = {j \in Jobs : fate[j] = "accepted"}

\* Two runs of an issue share a branch name, yet no later run moves the branch
\* under the open PR of an earlier one.  (runner.py branch, git_tools.py
\* push_branch)
PrHeadIntact == \A b \in Branches : openPr[b] # None => branch[b] = openPr[b]

\* A branch that refuses the next run of its issue is of a run that has opened its
\* PR, or is about to, or has failed in between because GitHub did, or was stopped:
\* no run that comes to its end leaves a branch without a PR.  (builder.py
\* _finalize, runner.py branch)
Accounted(j) ==
    \/ j \in shipped
    \/ \E w \in Workers : work[w].job = j /\ work[w].pc = "open_pr"
    \/ /\ "github" \in Faults
       /\ \/ \E w \in Workers : work[w].job = j /\ work[w].pc \in {"fail_row", "report"}
          \/ fate[j] = "raised"
    \/ fate[j] = "stopped"
BranchAccounted ==
    \A b \in Branches : branch[b] # None => BranchOf[branch[b]] = b /\ Accounted(branch[b])

\* The row says completed, or shows a PR, only of a run that has opened one, and
\* a run that came to its end says so if and only if it has.  (runner.py _mirror)
RowTellsTruth ==
    \A j \in Jobs :
        /\ row[j] = "completed" \/ rowPr[j] => j \in shipped
        /\ row[j] \in {"needs_human", "aborted"} => j \notin shipped
        /\ fate[j] = "ended" => (row[j] = "completed" <=> j \in shipped)

\* Each run of the engine is one as RunOutcome has it: whatever fails around the
\* graph, and however often its row is written, it ends once, its row does not change
\* after its end, and no PR is opened by a run that is over.  (runner.py _process_job)
Outcome ==
    INSTANCE RunOutcome WITH
        RunIds <- Jobs,
        outcome <- [j \in Jobs |-> CASE fate[j] = "ended" -> row[j]
                                    [] fate[j] \in {"raised", "stopped"} -> "failed"
                                    [] OTHER -> "open"],
        opened <- shipped
AreRunOutcomes == Outcome!OutcomeSpec

\* Every accepted run comes off the queue and ends one way or the other: no
\* failure takes its worker with it.  (queue.py: "one bad job must not kill the
\* worker")
RunsSettle == \A j \in Jobs : fate[j] = "accepted" ~> fate[j] # "accepted"

-----------------------------------------------------------------------------
(* What the repository says of the program, and the code does not do. *)

\* README.md "Architecture": "Every run is checkpointed in Postgres, so it
\* survives restarts": a run that is recorded as running goes on to an end.
RunsSurviveRestarts == \A j \in Jobs : row[j] = "running" ~> row[j] \in Final
=============================================================================
