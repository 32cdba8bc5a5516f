---------------------------- MODULE Orchestration ----------------------------
(***************************************************************************)
(* One run of the orchestration graph of app/graph/builder.py: the         *)
(* orchestrator routes to the coder, to the reviewer, to finalize or to    *)
(* abort, and the coder and the reviewer route back to it.  One action is  *)
(* one node of the graph, which is one step of LangGraph's recursion       *)
(* limit.  What the agents write is abstracted to whether a report is      *)
(* empty, the branch to whether it has commits.  An exception in any node, *)
(* and the limit, end the run in runner.py's "except Exception".            *)
(***************************************************************************)
EXTENDS Naturals

CONSTANTS
    MaxIterations,      \* cfg.max_iterations
    RecursionLimit,     \* the recursion_limit that runner.py passes to astream
    RequireApproval     \* cfg.require_human_approval

Routes == {"code", "review", "finalize", "abort"}

ASSUME RunAssumption ==
    /\ MaxIterations \in Nat
    /\ RecursionLimit \in Nat
    /\ RequireApproval \in BOOLEAN

VARIABLES
    node,           \* the node that runs next, or "end"
    steps,          \* the steps that have been counted against the limit
    status,         \* TaskState.status, and the status runner.py stores at the end
    iterations,     \* TaskState.iterations
    coder_report,   \* whether TaskState.coder_report is not empty
    review_report,  \* whether TaskState.review_report is not empty
    review_passed,  \* TaskState.review_passed
    has_commits,    \* whether the branch of the run has commits beyond its base
    pr,             \* the pull request: "none", "draft" or "ready"
    (* History, which no action reads. *)
    approved,       \* whether a review has passed on the branch as it is
    offPath,        \* whether the model has chosen another route than the
                    \*   fallback's, or a review has come without a summary
    ended           \* what ended the run: "no", "node", "raise", "limit"

vars == <<node, steps, status, iterations, coder_report, review_report, review_passed,
          has_commits, pr, approved, offPath, ended>>
state == <<iterations, coder_report, review_report, review_passed, has_commits, pr, approved>>

-----------------------------------------------------------------------------
\* The graph runs node n as its next step, unless the limit has been reached.
Runs(n) ==
    /\ node = n
    /\ steps < RecursionLimit
    /\ steps' = steps + 1

\* Mutant of FallbackRoute: a rejected change goes back to the reviewer.
FallbackNeverFixes ==
    IF ~coder_report THEN "code"
    ELSE IF review_passed THEN "finalize"
    ELSE "review"

\* decide_route's answer when the call of the model fails.
FallbackRoute ==
    IF ~coder_report THEN "code"
    ELSE IF review_passed THEN "finalize"
    ELSE IF review_report THEN "code"
    ELSE "review"

\* Mutant of CapReached: one more round.
CapReachedLate == iterations > MaxIterations /\ ~review_passed

\* The hard guard, which comes before decide_route.
CapReached == iterations >= MaxIterations /\ ~review_passed

OrchestratorCaps ==
    /\ Runs("orchestrator")
    /\ CapReached
    /\ node' = "finalize"
    /\ UNCHANGED <<state, status, ended, offPath>>

\* decide_route: the model answers what it likes, and the fallback is one of
\* the routes it may answer.
OrchestratorDecides ==
    /\ Runs("orchestrator")
    /\ ~CapReached
    /\ node' \in Routes
    /\ offPath' = (offPath \/ node' # FallbackRoute)
    /\ UNCHANGED <<state, status, ended>>

\* submit_review, called or not, with a summary or without.
Verdict == review_passed' \in BOOLEAN /\ review_report' \in BOOLEAN

\* Mutant of CoderNode: the verdict on the last review is left standing.
CoderNodeKeepsVerdict ==
    /\ Runs("code")
    /\ node' = "orchestrator"
    /\ iterations' = iterations + 1
    /\ coder_report' = TRUE
    /\ UNCHANGED <<status, review_report, review_passed, has_commits, pr, approved, offPath, ended>>

\* The branch gets a commit, on which no review has passed.
BranchGrows ==
    /\ has_commits' = TRUE
    /\ approved' = FALSE
    /\ UNCHANGED <<node, steps, status, iterations, coder_report, review_report, review_passed,
                   pr, offPath, ended>>

\* A commit in the course of the coder's turn.
CoderCommits ==
    /\ node = "code"
    /\ steps < RecursionLimit
    /\ BranchGrows

\* The coder's turn is over, with commits or without; the verdict is reset.
CoderNode ==
    /\ Runs("code")
    /\ node' = "orchestrator"
    /\ iterations' = iterations + 1
    /\ coder_report' = TRUE
    /\ review_passed' = FALSE
    /\ review_report' = FALSE
    /\ UNCHANGED <<status, has_commits, pr, approved, offPath, ended>>

\* The reviewer reads the branch, and either submits a verdict or does not;
\* then the node reports a failed review in its own words.
ReviewerNode ==
    /\ Runs("review")
    /\ node' = "orchestrator"
    /\ Verdict
    /\ approved' = (approved \/ review_passed')
    /\ offPath' = (offPath \/ ~review_report')
    /\ UNCHANGED <<status, iterations, coder_report, has_commits, pr, ended>>

\* Mutant of FinalizeNothing: a run without changes counts as completed.
FinalizeNothingCompleted ==
    /\ Runs("finalize")
    /\ ~has_commits
    /\ status' = "completed"
    /\ node' = "end"
    /\ ended' = "node"
    /\ UNCHANGED <<state, offPath>>

\* _finalize, when there is nothing to ship.
FinalizeNothing ==
    /\ Runs("finalize")
    /\ ~has_commits
    /\ status' = "needs_human"
    /\ node' = "end"
    /\ ended' = "node"
    /\ UNCHANGED <<state, offPath>>

DraftPr == RequireApproval \/ ~review_passed

\* _finalize: push, open the PR, comment.
FinalizeShips ==
    /\ Runs("finalize")
    /\ has_commits
    /\ pr' = IF DraftPr THEN "draft" ELSE "ready"
    /\ status' = "completed"
    /\ node' = "end"
    /\ ended' = "node"
    /\ UNCHANGED <<iterations, coder_report, review_report, review_passed, has_commits, approved, offPath>>

AbortNode ==
    /\ Runs("abort")
    /\ status' = "aborted"
    /\ node' = "end"
    /\ ended' = "node"
    /\ UNCHANGED <<state, offPath>>

\* A node raises: an agent that gives up, a push that fails, a PR that is
\* refused, or one that was opened although the call raised.
NodeRaises ==
    /\ node # "end"
    /\ node' = "end"
    /\ steps' = steps
    /\ status' = "failed"
    /\ ended' = "raise"
    /\ pr' \in IF node = "finalize" /\ has_commits
               THEN {pr, IF DraftPr THEN "draft" ELSE "ready"} ELSE {pr}
    /\ UNCHANGED <<iterations, coder_report, review_report, review_passed, has_commits, approved, offPath>>

\* Mutant of OutOfSteps: the graph stops, and nobody is told.
OutOfStepsUntold ==
    /\ node # "end"
    /\ steps = RecursionLimit
    /\ ended' = "limit"
    /\ UNCHANGED <<state, steps, node, status, offPath>>

\* LangGraph raises GraphRecursionError.
OutOfSteps ==
    /\ node # "end"
    /\ steps = RecursionLimit
    /\ node' = "end"
    /\ status' = "failed"
    /\ ended' = "limit"
    /\ UNCHANGED <<state, steps, offPath>>

-----------------------------------------------------------------------------
Init ==
    /\ node = "orchestrator"
    /\ steps = 0
    /\ status = "running"
    /\ iterations = 0
    /\ coder_report = FALSE
    /\ review_report = FALSE
    /\ review_passed = FALSE
    /\ has_commits = FALSE
    /\ pr = "none"
    /\ approved = FALSE
    /\ offPath = FALSE
    /\ ended = "no"

GraphStep ==
    \/ OrchestratorCaps \/ OrchestratorDecides \/ CoderNode \/ ReviewerNode
    \/ FinalizeNothing \/ FinalizeShips \/ AbortNode
    \/ OutOfSteps

Next == GraphStep \/ CoderCommits \/ NodeRaises

Spec == Init /\ [][Next]_vars

\* LangGraph goes on to the next node until END; a node may take its time, but
\* the calls it makes have timeouts.
FairSpec == Spec /\ WF_vars(GraphStep)

TypeOK ==
    /\ node \in Routes \cup {"orchestrator", "end"}
    /\ steps \in 0..RecursionLimit
    /\ status \in {"running", "completed", "needs_human", "aborted", "failed"}
    /\ iterations \in Nat
    /\ coder_report \in BOOLEAN
    /\ review_report \in BOOLEAN
    /\ review_passed \in BOOLEAN
    /\ has_commits \in BOOLEAN
    /\ pr \in {"none", "draft", "ready"}
    /\ approved \in BOOLEAN
    /\ offPath \in BOOLEAN
    /\ ended \in {"no", "node", "raise", "limit"}

-----------------------------------------------------------------------------
(* Properties. *)

\* A PR that is opened ready for review, not as a draft, shows exactly the
\* commits the reviewer approved, whatever the model's routing in between.
\* (builder.py coder_node resets the verdict, _finalize chooses draft)
ReadyPrWasApproved ==
    pr = "ready" => ~RequireApproval /\ has_commits /\ approved

\* The coder never has more turns than the cap, although the guard lets the
\* model choose freely once a review has passed: at the cap no review is left
\* that could pass.  So what the last turn at the cap has made is only ever
\* offered as a draft, and what no turn has made not at all.  (builder.py
\* orchestrator_node, _finalize)
IterationsBounded ==
    /\ iterations <= MaxIterations
    /\ pr # "none" => iterations > 0
    /\ pr = "ready" => iterations < MaxIterations

\* A run that keeps to the fallback's routes, with a reviewer that explains its
\* verdicts, never ends at the recursion limit while four steps a round fit in
\* it.  (orchestrator.py decide_route's fallback, runner.py recursion_limit)
RoundsFit == MaxIterations > 0 /\ 4 * MaxIterations <= RecursionLimit
FallbackFits == RoundsFit /\ ~offPath => ended # "limit"

\* A run of the graph is a run as RunOutcome has it, which is what Engine takes it
\* for: it ends once, and tells of a PR if and only if it has opened one, unless it
\* has failed.  (builder.py _finalize and abort_node, runner.py)
Outcome ==
    INSTANCE RunOutcome WITH
        RunIds <- {"this"},
        outcome <- [r \in {"this"} |-> IF node = "end" THEN status ELSE "open"],
        opened <- IF pr = "none" THEN {} ELSE {"this"}
IsRunOutcome == Outcome!OutcomeSpec

\* Every run ends.  (orchestrator.py: "the run always terminates")
Terminates == <>(node = "end")
=============================================================================
