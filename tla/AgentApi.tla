------------------------------ MODULE AgentApi ------------------------------
(***************************************************************************)
(* The workers' operations on the board, as app/api/agent.py (REST) and    *)
(* app/mcp_server.py (MCP) serve them, and the stale-claim sweeper of      *)
(* app/main.py.  A request is a coroutine: it holds no lock, and another   *)
(* request may run wherever it awaits a SQL statement, a git command or a  *)
(* GitHub call.  One action is the code between two such awaits, and a     *)
(* request may die at any of them: the statement, the command or the call  *)
(* raises, or the process stops.                                           *)
(*                                                                         *)
(* release, whose only effect is one statement, is a single action.  Who   *)
(* may call what, notes that name no task, and the activity feed are the   *)
(* subject of Access.                                                      *)
(***************************************************************************)
EXTENDS BoardStore

CONSTANTS
    Reqs,       \* the slots for requests in progress at a time
    Ops,        \* the operations in use, the operator's too, a subset of AllOps
    Surfaces    \* the ways in which they call submit, a subset of AllSurfaces

AllOps == {"claim", "submit", "block", "release", "done"}
AllSurfaces == {"rest", "mcp"}

ASSUME WorkloadAssumption == Ops \subseteq AllOps /\ Surfaces \subseteq AllSurfaces

VARIABLES
    req,        \* req[r]: the request in slot r
    swept,      \* rows the sweeper has released and not yet written a note for
    branch,     \* branch[t]: the account whose diff is the tip of t's branch
                \*   c3k/<key>-<slug>, or None if a push of it would be taken
    openPr,     \* openPr[t]: the account whose diff the open PR of t shows
    (* History, which no action reads. *)
    finished,   \* the tasks that have been done at some time
    cut,        \* the tasks whose claim died after its UPDATE
    lost        \* the tasks of which a submission ended between push and record

apiVars == <<req, swept, branch, openPr>>
histVars == <<finished, cut, lost>>
vars == <<status, assignee, claimed_at, pr_url, conflictNotes,
          req, swept, branch, openPr, finished, cut, lost>>

-----------------------------------------------------------------------------
(* Requests. *)

ClaimPcs == {"check", "update", "scan", "note_self", "note_others"}
SubmitPcs == {"prepare", "note_failed", "push", "open_pr", "record"}
Pcs == ClaimPcs \cup SubmitPcs \cup {"idle", "set_blocked"}

\* todo: the overlapping tasks that the claim has still to write notes about.
Requests == [pc : Pcs, acct : Accounts \cup {None}, task : Tasks \cup {None},
             todo : SUBSET Tasks]
Request(p, a, t, s) == [pc |-> p, acct |-> a, task |-> t, todo |-> s]
Idle == Request("idle", None, None, {})

At(r, p) == req[r].pc = p
Start(r, p, a, t) ==
    /\ At(r, "idle")
    /\ req' = [req EXCEPT ![r] = Request(p, a, t, {})]
Goto(r, p) == req' = [req EXCEPT ![r].pc = p]
Answer(r) == req' = [req EXCEPT ![r] = Idle]

-----------------------------------------------------------------------------
(* claim: POST /agent/tasks/{key}/claim, and claim_task. *)

\* The row that is read first is only used for its blocked_by.
BeginClaim(r, a, t) ==
    /\ "claim" \in Ops
    /\ Start(r, "check", a, t)
    /\ UNCHANGED <<boardVars, swept, branch, openPr, histVars>>

\* An open blocker is a Conflict, answered with 409.
CheckBlockers(r) ==
    /\ At(r, "check")
    /\ IF OpenBlockers(req[r].task) = {} THEN Goto(r, "update") ELSE Answer(r)
    /\ UNCHANGED <<boardVars, swept, branch, openPr, histVars>>

ClaimTask(r) ==
    /\ At(r, "update")
    /\ ClaimRow(req[r].task, req[r].acct)
    /\ Goto(r, "scan")
    /\ cut' = cut \ {req[r].task}
    /\ UNCHANGED <<swept, branch, openPr, finished, lost>>

\* The UPDATE matches no row: a Conflict.
ClaimLost(r) ==
    /\ At(r, "update")
    /\ status[req[r].task] # "backlog"
    /\ Answer(r)
    /\ UNCHANGED <<boardVars, swept, branch, openPr, histVars>>

ScanOverlaps(r) ==
    /\ At(r, "scan")
    /\ LET found == Overlaps(req[r].task) IN
         IF found = {}
         THEN Answer(r)
         ELSE req' = [req EXCEPT ![r] = Request("note_self", @.acct, @.task, found)]
    /\ UNCHANGED <<boardVars, swept, branch, openPr, histVars>>

\* Mutant of NoteSelf: only the claimed task gets its note.
NoteSelfOnly(r) ==
    /\ At(r, "note_self")
    /\ AddConflictNote(req[r].task, req[r].todo)
    /\ Answer(r)
    /\ UNCHANGED <<swept, branch, openPr, histVars>>

NoteSelf(r) ==
    /\ At(r, "note_self")
    /\ AddConflictNote(req[r].task, req[r].todo)
    /\ Goto(r, "note_others")
    /\ UNCHANGED <<swept, branch, openPr, histVars>>

\* The SELECT has no ORDER BY: the notes are written in any order.
NoteOther(r, u) ==
    /\ At(r, "note_others")
    /\ u \in req[r].todo
    /\ AddConflictNote(u, {req[r].task})
    /\ IF req[r].todo = {u}
       THEN Answer(r)
       ELSE req' = [req EXCEPT ![r].todo = @ \ {u}]
    /\ UNCHANGED <<swept, branch, openPr, histVars>>

-----------------------------------------------------------------------------
(* submit: POST /agent/tasks/{key}/submit, submit_work, and submit_diff. *)

\* REST compares the caller with the assignee it has just read, MCP does not.
MaySubmit(a, t) == "mcp" \in Surfaces \/ assignee[t] \in {a, None}

BeginSubmit(r, a, t) ==
    /\ "submit" \in Ops
    /\ MaySubmit(a, t)
    /\ Start(r, "prepare", a, t)
    /\ UNCHANGED <<boardVars, swept, branch, openPr, histVars>>

\* Clone, branch, apply and commit touch only the request's own directory.
PatchApplies(r) ==
    /\ At(r, "prepare")
    /\ Goto(r, "push")
    /\ UNCHANGED <<boardVars, swept, branch, openPr, histVars>>

\* The SubmitError: nothing has left the machine.
PatchFails(r) ==
    /\ At(r, "prepare")
    /\ Goto(r, "note_failed")
    /\ UNCHANGED <<boardVars, swept, branch, openPr, histVars>>

\* The handler's note; the row is not touched.
NoteFailed(r) ==
    /\ At(r, "note_failed")
    /\ Answer(r)
    /\ UNCHANGED <<boardVars, swept, branch, openPr, histVars>>

\* Mutant of Push: a forced push.
PushForced(r) ==
    /\ At(r, "push")
    /\ branch' = [branch EXCEPT ![req[r].task] = req[r].acct]
    /\ Goto(r, "open_pr")
    /\ UNCHANGED <<boardVars, swept, openPr, histVars>>

\* push_branch does not force: a branch with another tip refuses the commit.
Push(r) ==
    /\ At(r, "push")
    /\ branch[req[r].task] = None
    /\ branch' = [branch EXCEPT ![req[r].task] = req[r].acct]
    /\ Goto(r, "open_pr")
    /\ UNCHANGED <<boardVars, swept, openPr, histVars>>

\* That GitError is not turned into a SubmitError: it ends the request.
PushRejected(r) ==
    /\ At(r, "push")
    /\ branch[req[r].task] # None
    /\ Answer(r)
    /\ UNCHANGED <<boardVars, swept, branch, openPr, histVars>>

\* Mutant of OpenPr: the request ends without recording the PR.
OpenPrUnrecorded(r) ==
    /\ At(r, "open_pr")
    /\ openPr[req[r].task] = None
    /\ openPr' = [openPr EXCEPT ![req[r].task] = req[r].acct]
    /\ Answer(r)
    /\ UNCHANGED <<boardVars, swept, branch, histVars>>

\* create_pull_request on a head that has no open PR.
OpenPr(r) ==
    /\ At(r, "open_pr")
    /\ openPr[req[r].task] = None
    /\ openPr' = [openPr EXCEPT ![req[r].task] = req[r].acct]
    /\ Goto(r, "record")
    /\ UNCHANGED <<boardVars, swept, branch, histVars>>

\* GitHub refuses, or stays out of reach through every retry: this error too
\* is no SubmitError, and the pushed branch stays.
OpenPrFails(r) ==
    /\ At(r, "open_pr")
    /\ Answer(r)
    /\ lost' = lost \cup {req[r].task}
    /\ UNCHANGED <<boardVars, swept, branch, openPr, finished, cut>>

\* GitHub opens the PR, but the call raises: the answer is lost, the retry is
\* refused because the PR exists.
OpenPrAnswerLost(r) ==
    /\ At(r, "open_pr")
    /\ openPr[req[r].task] = None
    /\ openPr' = [openPr EXCEPT ![req[r].task] = req[r].acct]
    /\ Answer(r)
    /\ lost' = lost \cup {req[r].task}
    /\ UNCHANGED <<boardVars, swept, branch, finished, cut>>

RecordSubmit(r) ==
    /\ At(r, "record")
    /\ SubmitRow(req[r].task)
    /\ Answer(r)
    /\ UNCHANGED <<swept, branch, openPr, histVars>>

-----------------------------------------------------------------------------
(* block and release.        *)

\* block: the note comes first; then any task, in any status, is blocked.
BeginBlock(r, a, t) ==
    /\ "block" \in Ops
    /\ Start(r, "set_blocked", a, t)
    /\ UNCHANGED <<boardVars, swept, branch, openPr, histVars>>

SetBlocked(r) ==
    /\ At(r, "set_blocked")
    /\ SetStatus(req[r].task, "blocked")
    /\ Answer(r)
    /\ UNCHANGED <<swept, branch, openPr, histVars>>

\* Mutant of Release: a status the board does not know.
ReleaseMisspelt(t) ==
    /\ "release" \in Ops
    /\ SetStatus(t, "released")
    /\ UNCHANGED <<apiVars, histVars>>

\* release: by anyone, whatever the status and whoever the assignee.
Release(t) ==
    /\ "release" \in Ops
    /\ SetStatus(t, "backlog")
    /\ UNCHANGED <<apiVars, histVars>>

-----------------------------------------------------------------------------
(* The sweeper: one sweep at a time, started again after every failure. *)

Sweep ==
    /\ swept = {}
    /\ StaleClaims # {}
    /\ ReleaseRows(StaleClaims)
    /\ swept' = StaleClaims
    /\ UNCHANGED <<req, branch, openPr, histVars>>

\* The note and the event for one released row.
SweepNote(t) ==
    /\ t \in swept
    /\ swept' = swept \ {t}
    /\ UNCHANGED <<boardVars, req, branch, openPr, histVars>>

\* A statement raises: the sweeper logs it and drops the rest of the rows.
SweepFails ==
    /\ swept # {}
    /\ swept' = {}
    /\ UNCHANGED <<boardVars, req, branch, openPr, histVars>>

-----------------------------------------------------------------------------
(* Failure, the clock, and the people who review. *)

\* The statement, command or call a request awaits raises, or the process
\* stops.  A process that stops ends all of its requests, one Dies for each.
Dies(r) ==
    /\ ~At(r, "idle")
    /\ Answer(r)
    /\ cut' = IF req[r].pc \in {"scan", "note_self", "note_others"}
              THEN cut \cup {req[r].task} ELSE cut
    /\ lost' = IF req[r].pc \in {"open_pr", "record"}
               THEN lost \cup {req[r].task} ELSE lost
    /\ UNCHANGED <<boardVars, swept, branch, openPr, finished>>

TtlPasses(t) ==
    /\ ClaimAges(t)
    /\ UNCHANGED <<apiVars, histVars>>

\* Reviewers close or merge a PR; when they delete the branch, or merge it so
\* that the base contains its tip, the next push of that name is taken.
HumanEndsPr(t) ==
    /\ openPr[t] # None
    /\ openPr' = [openPr EXCEPT ![t] = None]
    /\ \E tip \in {branch[t], None} : branch' = [branch EXCEPT ![t] = tip]
    /\ UNCHANGED <<boardVars, req, swept, histVars>>

\* No code sets "done": an operator does, in the database, whatever the status
\* was, since a submission may have ended without a record of its PR.
OperatorMarksDone(t) ==
    /\ "done" \in Ops
    /\ status[t] # "done"
    /\ SetStatus(t, "done")
    /\ finished' = finished \cup {t}
    /\ UNCHANGED <<apiVars, cut, lost>>

-----------------------------------------------------------------------------
Init ==
    /\ BoardInit
    /\ req = [r \in Reqs |-> Idle]
    /\ swept = {}
    /\ branch = [t \in Tasks |-> None]
    /\ openPr = [t \in Tasks |-> None]
    /\ finished = {}
    /\ cut = {}
    /\ lost = {}

ClaimStep(r) ==
    \/ \E a \in Accounts, t \in Tasks : BeginClaim(r, a, t)
    \/ CheckBlockers(r) \/ ClaimTask(r) \/ ClaimLost(r)
    \/ ScanOverlaps(r) \/ NoteSelf(r) \/ \E u \in Tasks : NoteOther(r, u)

SubmitStep(r) ==
    \/ \E a \in Accounts, t \in Tasks : BeginSubmit(r, a, t)
    \/ PatchApplies(r) \/ PatchFails(r) \/ NoteFailed(r)
    \/ Push(r) \/ PushRejected(r) \/ OpenPr(r) \/ OpenPrFails(r)
    \/ OpenPrAnswerLost(r) \/ RecordSubmit(r)

BlockStep(r) ==
    \/ \E a \in Accounts, t \in Tasks : BeginBlock(r, a, t)
    \/ SetBlocked(r)

TaskStep(t) ==
    \/ Release(t) \/ SweepNote(t) \/ TtlPasses(t)
    \/ HumanEndsPr(t) \/ OperatorMarksDone(t)

\* Everything but deaths.
AliveNext ==
    \/ \E r \in Reqs : ClaimStep(r) \/ SubmitStep(r) \/ BlockStep(r)
    \/ \E t \in Tasks : TaskStep(t)
    \/ Sweep \/ SweepFails

Next == AliveNext \/ \E r \in Reqs : Dies(r)

Spec == Init /\ [][Next]_vars

\* The sweeper's loop runs for as long as the server does, and time passes.
Fairness ==
    /\ WF_vars(Sweep)
    /\ \A t \in Tasks : WF_vars(SweepNote(t)) /\ WF_vars(TtlPasses(t))

FairSpec == Spec /\ Fairness

TypeOK ==
    /\ BoardTypeOK
    /\ req \in [Reqs -> Requests]
    /\ swept \subseteq Tasks
    /\ branch \in [Tasks -> Accounts \cup {None}]
    /\ openPr \in [Tasks -> Accounts \cup {None}]
    /\ finished \subseteq Tasks
    /\ cut \subseteq Tasks
    /\ lost \subseteq Tasks
=============================================================================
