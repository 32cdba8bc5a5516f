-------------------------- MODULE AgentApiProperties --------------------------
(***************************************************************************)
(* What AgentApi is checked for.  The first part holds; the second part    *)
(* states what a doc or a comment of the repository says and the code does *)
(* not do.                                                                 *)
(***************************************************************************)
EXTENDS AgentApi

-----------------------------------------------------------------------------
(* Safety. *)

\* A slot in use belongs to an account and is about a task.
BusyReqs == \A r \in Reqs : ~At(r, "idle") => req[r].acct \in Accounts /\ req[r].task \in Tasks

\* A task in progress has a holder and a claim the TTL can run out on, so that
\* release_stale's "claimed_at IS NOT NULL" never hides one; a task in the
\* backlog has no holder.  (board.py claim_task, set_status, release_stale)
RowConsistent ==
    \A t \in Tasks :
        /\ status[t] = "in_progress" => assignee[t] # None /\ claimed_at[t] # None
        /\ status[t] = "backlog" => assignee[t] = None

\* The pair's notes have been written, or the claim that will write them is
\* still running.
Flagged(t, u) == u \in conflictNotes[t] /\ t \in conflictNotes[u]
Flagging(r, t, u) ==
    /\ req[r].task = t
    /\ \/ At(r, "scan")
       \/ At(r, "note_self") /\ u \in req[r].todo
       \/ At(r, "note_others") /\ u \in req[r].todo /\ u \in conflictNotes[t]
Covered(t, u) ==
    \/ Flagged(t, u)
    \/ \E r \in Reqs : Flagging(r, t, u) \/ Flagging(r, u, t)

\* Two tasks in progress that share a path carry a conflict note about each
\* other, written since both were claimed, unless the claim of one of them
\* died between its UPDATE and its last note.  (board.py claim_task: the scan
\* comes after the UPDATE, so of two racing claims the later one sees both)
OverlapsFlagged ==
    \A t, u \in Tasks :
        /\ Overlap(t, u)
        /\ status[t] = "in_progress" /\ status[u] = "in_progress"
        => Covered(t, u) \/ t \in cut \/ u \in cut

\* However the requests and deaths fall, the diff under an open PR is the one
\* it was opened with: no later submission of the task has moved its branch.
\* (submit.py submit_diff: one branch name for a task, a push that never forces)
PrHeadIntact == \A t \in Tasks : openPr[t] # None => branch[t] = openPr[t]

\* Two submissions of a task never both reach create_pull_request: the first
\* push keeps every other one out.  (submit.py submit_diff)
OneSubmitterOpens ==
    \A r, s \in Reqs : At(r, "open_pr") /\ At(s, "open_pr") /\ req[r].task = req[s].task
                       => r = s

\* Whatever a submission has left on GitHub, the board knows of it or will: a
\* task with a branch or a PR has its pr_url, or a submission is about to write
\* it, or one ended after its push.  Only then do the two part for good, and is
\* the next submission refused by a branch nobody is working on.
\* (submit.py submit_diff, agent.py submit)
SubmissionAccounted ==
    \A t \in Tasks :
        branch[t] # None \/ openPr[t] # None
        => \/ pr_url[t]
           \/ \E r \in Reqs : req[r].task = t /\ req[r].pc \in {"open_pr", "record"}
           \/ t \in lost

\* A task is only in progress if everything it waits for has once been done.
\* (board.py claim_task)
BlockersWereDone ==
    \A t \in Tasks : status[t] = "in_progress" => BlockedBy[t] \cap Tasks \subseteq finished

-----------------------------------------------------------------------------
(* What the board promises the workers. *)

Lease == INSTANCE TaskLease WITH owner <- assignee

\* assignee behaves as an exclusive lease, whatever the requests, deaths and
\* sweeps: a task is never handed from one account to another directly.
\* (board.py claim_task, set_status, submit_task, release_stale)
IsLease == Lease!LeaseSpec

-----------------------------------------------------------------------------
(* Liveness. *)

\* A claim whose worker has stalled is given back.  (board.py release_stale,
\* main.py _stale_claim_sweeper)
StaleClaimFreed ==
    \A t \in Tasks : status[t] = "in_progress" ~> status[t] # "in_progress"

-----------------------------------------------------------------------------
(* What the repository says of the program, and the code does not do. *)

\* board.py claim_task: "Enforce blocked_by", at the step that takes the task.
ClaimEnforcesBlockers ==
    [][\A t \in Tasks : status[t] = "backlog" /\ status'[t] = "in_progress"
                        => OpenBlockers(t) = {}]_vars

\* agent.py submit: "task is claimed by another account" is refused, so a task
\* that goes to review was the submitter's, or nobody's.
OnlyHolderSubmits ==
    [][\A r \in Reqs : RecordSubmit(r) => assignee[req[r].task] \in {req[r].acct, None}]_vars
=============================================================================
