----------------------------- MODULE RunOutcome -----------------------------
(***************************************************************************)
(* What a run promises to those who look at its row: it ends once, and     *)
(* after its end nothing becomes of it.  A pull request is never taken     *)
(* back; a run that says it has completed has opened one, and one that     *)
(* says it found nothing to do has not.  Several runs may move at once, as *)
(* they do when the process stops.                                         *)
(***************************************************************************)
CONSTANT RunIds     \* run_id of each run

VARIABLES
    outcome,    \* outcome[r]: how r has ended, or "open"
    opened      \* the runs that have opened a pull request

Outcomes == {"open", "completed", "needs_human", "aborted", "failed"}

OutcomeInit ==
    /\ outcome = [r \in RunIds |-> "open"]
    /\ opened = {}

Stays(r) == outcome'[r] = outcome[r] /\ (r \in opened' <=> r \in opened)

\* While it is open a run may open its pull request, or end, or both at once.
Moves(r) ==
    /\ outcome[r] = "open"
    /\ r \in opened => r \in opened'
    /\ outcome'[r] = "completed" => r \in opened'
    /\ outcome'[r] \in {"needs_human", "aborted"} => r \notin opened'

OutcomeNext ==
    /\ outcome' \in [RunIds -> Outcomes]
    /\ opened' \subseteq RunIds
    /\ \A r \in RunIds : Stays(r) \/ Moves(r)

OutcomeSpec == OutcomeInit /\ [][OutcomeNext]_<<outcome, opened>>
=============================================================================
