----------------------------- MODULE BoardStore -----------------------------
(***************************************************************************)
(* The rows of c3k_tasks and c3k_notes that app/store/board.py keeps in    *)
(* Postgres, and one operator per SQL statement that changes them.  The    *)
(* pool is opened with autocommit, so every statement is a transaction of  *)
(* its own: a store method that issues several is not atomic, and its      *)
(* steps are put together by the modules that model its callers.           *)
(*                                                                         *)
(* A task's files, blocked_by and goal never change after create_task and  *)
(* are constants.  The clock is abstracted to what release_stale asks of   *)
(* it: a claim is "fresh" until its TTL passes, then "stale".              *)
(***************************************************************************)
EXTENDS Naturals, FiniteSets

CONSTANTS
    Tasks,          \* the keys of c3k_tasks
    Accounts,       \* the ids of c3k_accounts
    Files,          \* Files[t]: the paths task t lists
    BlockedBy,      \* BlockedBy[t]: keys task t waits for; some may name no task
    Goal,           \* Goal[t]: the goal of task t
    None            \* SQL's NULL

ASSUME NoneAssumption == None \notin Accounts \cup Tasks \cup {"fresh", "stale"}

VARIABLES
    status,         \* c3k_tasks.status
    assignee,       \* c3k_tasks.assignee
    claimed_at,     \* c3k_tasks.claimed_at: None, "fresh" or "stale"
    pr_url,         \* c3k_tasks.pr_url: whether submit_task has set it
    conflictNotes   \* conflictNotes[t]: the tasks that "conflict" notes on t name

boardVars == <<status, assignee, claimed_at, pr_url, conflictNotes>>

\* ACTIVE_STATUSES also lists "claimed", which no statement ever writes.
Statuses == {"backlog", "in_progress", "in_review", "blocked", "done"}
Active == {"in_progress", "in_review"}

-----------------------------------------------------------------------------
(* What the SELECT statements return. *)

Overlap(t, u) == t # u /\ Files[t] \cap Files[u] # {}

\* _overlaps: the other active tasks that share a path with t.
Overlaps(t) == {u \in Tasks : Overlap(t, u) /\ status[u] \in Active}

\* Mutant of OpenBlockers: only a blocker nobody has started counts.
OpenBlockersNotStarted(t) == {b \in BlockedBy[t] \cap Tasks : status[b] = "backlog"}

\* claim_task's "key = ANY(blocked_by) AND status <> 'done'": a key that names
\* no task is no open blocker.
OpenBlockers(t) == {b \in BlockedBy[t] \cap Tasks : status[b] # "done"}

-----------------------------------------------------------------------------
(* The statements that write. *)

\* Mutant of ClaimRow: the UPDATE has lost its WHERE status='backlog'.
ClaimRowUnguarded(t, a) ==
    /\ status' = [status EXCEPT ![t] = "in_progress"]
    /\ assignee' = [assignee EXCEPT ![t] = a]
    /\ claimed_at' = [claimed_at EXCEPT ![t] = "fresh"]
    /\ UNCHANGED <<pr_url, conflictNotes>>

\* Mutant of ClaimRow: claimed_at=now() is forgotten.
ClaimRowUndated(t, a) ==
    /\ status[t] = "backlog"
    /\ status' = [status EXCEPT ![t] = "in_progress"]
    /\ assignee' = [assignee EXCEPT ![t] = a]
    /\ UNCHANGED <<claimed_at, pr_url, conflictNotes>>

\* claim_task's UPDATE ... WHERE status='backlog'.  Notes are only ever read
\* by the workers who hold the tasks, so those older than the new claim are
\* forgotten: conflictNotes holds the notes of the current claims.
ClaimRow(t, a) ==
    /\ status[t] = "backlog"
    /\ status' = [status EXCEPT ![t] = "in_progress"]
    /\ assignee' = [assignee EXCEPT ![t] = a]
    /\ claimed_at' = [claimed_at EXCEPT ![t] = "fresh"]
    /\ conflictNotes' = [u \in Tasks |-> IF u = t THEN {} ELSE conflictNotes[u] \ {t}]
    /\ UNCHANGED pr_url

\* _add_note(..., "conflict", ...): a note on t that names the tasks in names.
AddConflictNote(t, names) ==
    /\ conflictNotes' = [conflictNotes EXCEPT ![t] = @ \cup names]
    /\ UNCHANGED <<status, assignee, claimed_at, pr_url>>

\* submit_task: no WHERE on status or assignee.
SubmitRow(t) ==
    /\ status' = [status EXCEPT ![t] = "in_review"]
    /\ pr_url' = [pr_url EXCEPT ![t] = TRUE]
    /\ UNCHANGED <<assignee, claimed_at, conflictNotes>>

\* Mutant of SetStatus: the assignee is kept.
SetStatusOnly(t, s) ==
    /\ status' = [status EXCEPT ![t] = s]
    /\ UNCHANGED <<assignee, claimed_at, pr_url, conflictNotes>>

\* set_status: giving a task back clears its assignee but not claimed_at.
SetStatus(t, s) ==
    /\ status' = [status EXCEPT ![t] = s]
    /\ assignee' = IF s = "backlog" THEN [assignee EXCEPT ![t] = None] ELSE assignee
    /\ UNCHANGED <<claimed_at, pr_url, conflictNotes>>

\* release_stale's single UPDATE, over every row it matches.
StaleClaims == {t \in Tasks : status[t] = "in_progress" /\ claimed_at[t] = "stale"}
ReleaseRows(S) ==
    /\ status' = [t \in Tasks |-> IF t \in S THEN "backlog" ELSE status[t]]
    /\ assignee' = [t \in Tasks |-> IF t \in S THEN None ELSE assignee[t]]
    /\ claimed_at' = [t \in Tasks |-> IF t \in S THEN None ELSE claimed_at[t]]
    /\ UNCHANGED <<pr_url, conflictNotes>>

\* The clock: a claim passes its TTL, whatever has become of the task.
ClaimAges(t) ==
    /\ claimed_at[t] = "fresh"
    /\ claimed_at' = [claimed_at EXCEPT ![t] = "stale"]
    /\ UNCHANGED <<status, assignee, pr_url, conflictNotes>>

-----------------------------------------------------------------------------
\* create_task leaves every column at its default.
BoardInit ==
    /\ status = [t \in Tasks |-> "backlog"]
    /\ assignee = [t \in Tasks |-> None]
    /\ claimed_at = [t \in Tasks |-> None]
    /\ pr_url = [t \in Tasks |-> FALSE]
    /\ conflictNotes = [t \in Tasks |-> {}]

BoardTypeOK ==
    /\ status \in [Tasks -> Statuses]
    /\ assignee \in [Tasks -> Accounts \cup {None}]
    /\ claimed_at \in [Tasks -> {None, "fresh", "stale"}]
    /\ pr_url \in [Tasks -> BOOLEAN]
    /\ conflictNotes \in [Tasks -> SUBSET Tasks]
=============================================================================
