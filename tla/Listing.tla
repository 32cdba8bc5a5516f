------------------------------- MODULE Listing -------------------------------
(***************************************************************************)
(* list_work of app/store/board.py, beside the requests and sweeps of      *)
(* AgentApi.  Its two SELECTs are transactions of their own: the answer is *)
(* made of rows of one moment and of a done set of a later one, and so may *)
(* be one that the board has never had.                                    *)
(***************************************************************************)
EXTENDS AgentApiProperties

CONSTANT Lists          \* the slots for lists in progress at a time

VARIABLES
    lpc,        \* lpc[l]: "idle", "rows" once the rows are read, "answered"
    lgoal,      \* lgoal[l]: the goal that is listed
    rows,       \* rows[l]: the backlog as the first SELECT has found it
    ready,      \* ready[l]: the tasks that the answer offers
    (* History, which no action reads. *)
    wasFree,    \* wasFree[l]: the rows that have been free since they were read
    stayedFree, \* stayedFree[l]: those that have been free all the while
    pulled      \* pulled[l]: those that have left the backlog when not free

watchVars == <<wasFree, stayedFree, pulled>>
listVars == <<lpc, lgoal, rows, ready, watchVars>>
listingVars == <<vars, listVars>>

\* A claim that came now would find no open blocker and take the row.
Free(t) == status[t] = "backlog" /\ OpenBlockers(t) = {}

BacklogOf(g) == {t \in Tasks : Goal[t] = g /\ status[t] = "backlog"}

\* Mutant of DoneInGoal: the done set is kept from call to call.
DoneInGoalCached(g) == {t \in finished : Goal[t] = g}

DoneInGoal(g) == {t \in Tasks : Goal[t] = g /\ status[t] = "done"}

-----------------------------------------------------------------------------
\* The row of the goal, which is read before, does not change.
ListRows(l, g) ==
    /\ lpc[l] # "rows"
    /\ lpc' = [lpc EXCEPT ![l] = "rows"]
    /\ lgoal' = [lgoal EXCEPT ![l] = g]
    /\ rows' = [rows EXCEPT ![l] = BacklogOf(g)]
    /\ ready' = [ready EXCEPT ![l] = {}]
    /\ wasFree' = [wasFree EXCEPT ![l] = {t \in BacklogOf(g) : Free(t)}]
    /\ stayedFree' = [stayedFree EXCEPT ![l] = {t \in BacklogOf(g) : Free(t)}]
    /\ pulled' = [pulled EXCEPT ![l] = {}]
    /\ UNCHANGED vars

\* A key that is not in the done set blocks, even one of another goal, or of no task.
ListDone(l) ==
    /\ lpc[l] = "rows"
    /\ ready' = [ready EXCEPT ![l] = {t \in rows[l] : BlockedBy[t] \subseteq DoneInGoal(lgoal[l])}]
    /\ lpc' = [lpc EXCEPT ![l] = "answered"]
    /\ UNCHANGED <<vars, lgoal, rows, watchVars>>

\* A SELECT raises, or the process stops.
ListDies(l) ==
    /\ lpc[l] = "rows"
    /\ lpc' = [lpc EXCEPT ![l] = "idle"]
    /\ UNCHANGED <<vars, lgoal, rows, ready, watchVars>>

\* Any other step, as the lists in progress have to do with it.
BoardMoves ==
    /\ Next
    /\ wasFree' = [l \in Lists |->
          IF lpc[l] = "rows" THEN wasFree[l] \cup {t \in rows[l] : Free(t)'} ELSE wasFree[l]]
    /\ stayedFree' = [l \in Lists |->
          IF lpc[l] = "rows" THEN {t \in stayedFree[l] : Free(t)'} ELSE stayedFree[l]]
    /\ pulled' = [l \in Lists |->
          IF lpc[l] = "rows"
          THEN pulled[l] \cup {t \in rows[l] : /\ status[t] = "backlog" /\ status'[t] # "backlog"
                                               /\ ~Free(t)}
          ELSE pulled[l]]
    /\ UNCHANGED <<lpc, lgoal, rows, ready>>

-----------------------------------------------------------------------------
ListingInit ==
    /\ Init
    /\ lpc = [l \in Lists |-> "idle"]
    /\ lgoal = [l \in Lists |-> None]
    /\ rows = [l \in Lists |-> {}]
    /\ ready = [l \in Lists |-> {}]
    /\ wasFree = [l \in Lists |-> {}]
    /\ stayedFree = [l \in Lists |-> {}]
    /\ pulled = [l \in Lists |-> {}]

Goals == {Goal[t] : t \in Tasks}

ListingNext ==
    \/ BoardMoves
    \/ \E l \in Lists : (\E g \in Goals : ListRows(l, g)) \/ ListDone(l) \/ ListDies(l)

ListingSpec == ListingInit /\ [][ListingNext]_listingVars

-----------------------------------------------------------------------------
\* An answer need not be true of any one moment, but what it says of a task is.
\* A task that it offers could be claimed at some moment between the two SELECTs,
\* unless it was taken out of the backlog meanwhile although it could not be:
\* blocked, submitted or marked done, or claimed past a blocker that was reopened.
\* And a task that could be claimed all the while is kept back only because of a
\* blocker that is no task of the goal.  (board.py list_work, claim_task)
ListTells ==
    \A l \in Lists : lpc[l] = "answered" =>
        /\ ready[l] \subseteq wasFree[l] \cup pulled[l]
        /\ \A t \in stayedFree[l] \ ready[l] :
              \E b \in BlockedBy[t] : b \notin Tasks \/ Goal[b] # lgoal[l]
=============================================================================
