---------------------------- MODULE ListingProofs ----------------------------
(***************************************************************************)
(* Proofs about Listing for any tasks, goals and blockers, any number of   *)
(* lists at a time, and any workload of the board.                         *)
(***************************************************************************)
EXTENDS Listing, TLAPS

\* What a list whose rows are read knows of them, until it reads the done set.
ReadInv(l) ==
    /\ \A t \in rows[l] : t \in Tasks /\ Goal[t] = lgoal[l]
    /\ \A t \in rows[l] : status[t] = "backlog" \/ t \in wasFree[l] \/ t \in pulled[l]
    /\ \A t \in rows[l] : Free(t) => t \in wasFree[l]
    /\ \A t \in stayedFree[l] : t \in rows[l] /\ Free(t)

AnswerTells(l) ==
    /\ ready[l] \subseteq wasFree[l] \cup pulled[l]
    /\ \A t \in stayedFree[l] \ ready[l] :
          \E b \in BlockedBy[t] : b \notin Tasks \/ Goal[b] # lgoal[l]

ListsAreFunctions ==
    /\ lpc = [l \in Lists |-> lpc[l]]
    /\ lgoal = [l \in Lists |-> lgoal[l]]
    /\ rows = [l \in Lists |-> rows[l]]
    /\ ready = [l \in Lists |-> ready[l]]
    /\ wasFree = [l \in Lists |-> wasFree[l]]
    /\ stayedFree = [l \in Lists |-> stayedFree[l]]
    /\ pulled = [l \in Lists |-> pulled[l]]

ListInv ==
    /\ ListsAreFunctions
    /\ \A l \in Lists :
          /\ lpc[l] = "rows" => ReadInv(l)
          /\ lpc[l] = "answered" => AnswerTells(l)

\* The board's own steps, and those of other lists, leave what list l has read.
LEMMA OthersKeep ==
    ASSUME NEW l \in Lists, lpc[l] = "rows" => ReadInv(l), lpc[l] = "answered" => AnswerTells(l),
           lpc'[l] = lpc[l], lgoal'[l] = lgoal[l], rows'[l] = rows[l], ready'[l] = ready[l],
           wasFree'[l] = wasFree[l], stayedFree'[l] = stayedFree[l], pulled'[l] = pulled[l],
           status' = status
    PROVE  (lpc[l] = "rows" => ReadInv(l))' /\ (lpc[l] = "answered" => AnswerTells(l))'
<1>1. \A t : Free(t)' <=> Free(t)
  BY DEF Free, OpenBlockers
<1> QED
  BY <1>1 DEF ReadInv, AnswerTells

LEMMA BoardKeeps ==
    ASSUME NEW l \in Lists, lpc[l] = "rows", ReadInv(l), BoardMoves
    PROVE  ReadInv(l)'
<1>1. /\ rows'[l] = rows[l] /\ lgoal'[l] = lgoal[l]
      /\ wasFree'[l] = wasFree[l] \cup {t \in rows[l] : Free(t)'}
      /\ stayedFree'[l] = {t \in stayedFree[l] : Free(t)'}
      /\ pulled'[l] = pulled[l] \cup {t \in rows[l] : /\ status[t] = "backlog"
                                                      /\ status'[t] # "backlog"
                                                      /\ ~Free(t)}
  BY DEF BoardMoves
<1>2. ASSUME NEW t \in rows[l], status'[t] # "backlog", t \notin wasFree'[l]
      PROVE  t \in pulled'[l]
  BY <1>1, <1>2 DEF ReadInv
<1> QED
  BY <1>1, <1>2 DEF ReadInv

\* The rows of the list are in the backlog when it reads them.
LEMMA RowsRead ==
    ASSUME ListsAreFunctions, NEW l \in Lists, NEW g, ListRows(l, g)
    PROVE  lpc'[l] = "rows" /\ ReadInv(l)'
<1>1. /\ lpc'[l] = "rows" /\ lgoal'[l] = g /\ rows'[l] = BacklogOf(g)
      /\ wasFree'[l] = {t \in BacklogOf(g) : Free(t)}
      /\ stayedFree'[l] = {t \in BacklogOf(g) : Free(t)}
      /\ status' = status
  BY DEF ListsAreFunctions, ListRows, vars
<1>2. \A t : Free(t)' <=> Free(t)
  BY <1>1 DEF Free, OpenBlockers
<1> QED
  BY <1>1, <1>2 DEF ReadInv, BacklogOf

\* A row that is still in the backlog, with all its blockers done, is free now.
LEMMA DoneRead ==
    ASSUME ListsAreFunctions, NEW l \in Lists, ReadInv(l), ListDone(l)
    PROVE  lpc'[l] = "answered" /\ AnswerTells(l)'
<1>1. /\ lpc'[l] = "answered"
      /\ ready'[l] = {t \in rows[l] : BlockedBy[t] \subseteq DoneInGoal(lgoal[l])}
      /\ UNCHANGED <<lgoal, wasFree, stayedFree, pulled>>
  BY DEF ListsAreFunctions, ListDone, watchVars
<1>2. ASSUME NEW t \in ready'[l] PROVE t \in wasFree[l] \cup pulled[l]
  <2>1. t \in rows[l] /\ OpenBlockers(t) = {}
    BY <1>1, <1>2 DEF DoneInGoal, OpenBlockers
  <2> QED
    BY <2>1 DEF ReadInv, Free
<1>3. ASSUME NEW t \in stayedFree[l], t \notin ready'[l]
      PROVE  \E b \in BlockedBy[t] : b \notin Tasks \/ Goal[b] # lgoal[l]
  <2>1. t \in rows[l] /\ OpenBlockers(t) = {}
    BY DEF ReadInv, Free
  <2>2. PICK b \in BlockedBy[t] : b \notin DoneInGoal(lgoal[l])
    BY <1>1, <1>3, <2>1
  <2> QED
    BY <2>1, <2>2 DEF DoneInGoal, OpenBlockers
<1> QED
  BY <1>1, <1>2, <1>3 DEF AnswerTells

LEMMA FunctionsStep == ListsAreFunctions /\ [ListingNext]_listingVars => ListsAreFunctions'
  BY DEF ListsAreFunctions, ListingNext, BoardMoves, ListRows, ListDone, ListDies, listingVars,
         listVars, watchVars

LEMMA ListStep == ListInv /\ [ListingNext]_listingVars => ListInv'
<1> SUFFICES ASSUME ListInv, [ListingNext]_listingVars, NEW l \in Lists
             PROVE  (lpc[l] = "rows" => ReadInv(l))' /\ (lpc[l] = "answered" => AnswerTells(l))'
  BY FunctionsStep DEF ListInv
<1>1. /\ lpc[l] = "rows" => ReadInv(l)
      /\ lpc[l] = "answered" => AnswerTells(l)
      /\ ListsAreFunctions
  BY DEF ListInv
<1>2. CASE BoardMoves
  <2>1. lpc'[l] = lpc[l]
    BY <1>2 DEF BoardMoves
  <2>2. CASE lpc[l] = "rows"
    BY <1>1, <1>2, <2>1, <2>2, BoardKeeps
  <2>3. CASE lpc[l] # "rows"
    <3>1. UNCHANGED <<lgoal, ready>> /\ wasFree'[l] = wasFree[l]
          /\ stayedFree'[l] = stayedFree[l] /\ pulled'[l] = pulled[l]
      BY <1>2, <2>3 DEF BoardMoves
    <3> QED
      BY <1>1, <2>1, <2>3, <3>1 DEF AnswerTells
  <2> QED
    BY <2>2, <2>3
<1>3. ASSUME NEW m \in Lists, NEW g \in Goals, ListRows(m, g)
      PROVE  (lpc[l] = "rows" => ReadInv(l))' /\ (lpc[l] = "answered" => AnswerTells(l))'
  <2>1. CASE m = l
    BY <1>1, <1>3, <2>1, RowsRead
  <2>2. CASE m # l
    BY <1>1, <1>3, <2>2, OthersKeep DEF ListRows, ListsAreFunctions, vars
  <2> QED
    BY <2>1, <2>2
<1>4. ASSUME NEW m \in Lists, ListDone(m)
      PROVE  (lpc[l] = "rows" => ReadInv(l))' /\ (lpc[l] = "answered" => AnswerTells(l))'
  <2>1. CASE m = l
    <3>1. ReadInv(l)
      BY <1>1, <1>4, <2>1 DEF ListDone
    <3> QED
      BY <1>1, <1>4, <2>1, <3>1, DoneRead
  <2>2. CASE m # l
    BY <1>1, <1>4, <2>2, OthersKeep DEF ListDone, ListsAreFunctions, vars, watchVars
  <2> QED
    BY <2>1, <2>2
<1>5. ASSUME NEW m \in Lists, ListDies(m)
      PROVE  (lpc[l] = "rows" => ReadInv(l))' /\ (lpc[l] = "answered" => AnswerTells(l))'
  <2>1. CASE m = l
    BY <1>1, <1>5, <2>1 DEF ListDies, ListsAreFunctions
  <2>2. CASE m # l
    BY <1>1, <1>5, <2>2, OthersKeep DEF ListDies, ListsAreFunctions, vars, watchVars
  <2> QED
    BY <2>1, <2>2
<1>6. CASE UNCHANGED listingVars
  BY <1>1, <1>6, OthersKeep DEF listingVars, listVars, watchVars, vars
<1> QED
  BY <1>2, <1>3, <1>4, <1>5, <1>6 DEF ListingNext

\* Every entry of an answer of list_work is true of some moment of the call, though the
\* two SELECTs see the board at different ones; only blockers from outside the goal hide
\* a task that could be claimed.  (board.py list_work)
THEOREM ListsTell == ListingSpec => []ListTells
<1>1. ListingInit => ListInv
  BY DEF ListingInit, ListInv, ListsAreFunctions
<1>2. ListInv => ListTells
  BY DEF ListInv, AnswerTells, ListTells
<1> QED
  BY <1>1, <1>2, ListStep, PTL DEF ListingSpec
=============================================================================
