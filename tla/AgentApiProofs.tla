---------------------------- MODULE AgentApiProofs ----------------------------
(***************************************************************************)
(* Proofs that AgentApi keeps its invariants and implements TaskLease, for *)
(* any sets of tasks, accounts and request slots, any files and blockers,  *)
(* and any workload.                                                       *)
(***************************************************************************)
EXTENDS AgentApiProperties, TLAPS

-----------------------------------------------------------------------------
(* Type correctness. *)

TypeInv == TypeOK /\ BusyReqs

\* A request that goes to another step, or ends, keeps the slots well typed.
LEMMA ReqMoves ==
    ASSUME TypeInv, NEW r \in Reqs,
           \/ Answer(r)
           \/ ~At(r, "idle") /\ \E p \in Pcs : Goto(r, p)
           \/ \E p \in Pcs, a \in Accounts, t \in Tasks : Start(r, p, a, t)
           \/ ~At(r, "idle") /\ \E p \in Pcs, s \in SUBSET Tasks :
                                   req' = [req EXCEPT ![r] = Request(p, @.acct, @.task, s)]
           \/ ~At(r, "idle") /\ \E s \in SUBSET Tasks : req' = [req EXCEPT ![r].todo = s]
    PROVE  (req \in [Reqs -> Requests] /\ BusyReqs)'
<1>1. req \in [Reqs -> Requests] /\ BusyReqs
  BY DEF TypeInv, TypeOK
<1>2. CASE Answer(r)
  BY <1>1, <1>2 DEF Answer, BusyReqs, At, Idle, Request, Requests, Pcs, ClaimPcs, SubmitPcs
<1>3. ASSUME ~At(r, "idle"), NEW p \in Pcs, Goto(r, p)
      PROVE  (req \in [Reqs -> Requests] /\ BusyReqs)'
  BY <1>1, <1>3 DEF Goto, BusyReqs, At, Requests
<1>4. ASSUME NEW p \in Pcs, NEW a \in Accounts, NEW t \in Tasks, Start(r, p, a, t)
      PROVE  (req \in [Reqs -> Requests] /\ BusyReqs)'
  BY <1>1, <1>4 DEF Start, BusyReqs, At, Request, Requests
<1>5. ASSUME ~At(r, "idle"), NEW p \in Pcs, NEW s \in SUBSET Tasks,
             req' = [req EXCEPT ![r] = Request(p, @.acct, @.task, s)]
      PROVE  (req \in [Reqs -> Requests] /\ BusyReqs)'
  BY <1>1, <1>5 DEF BusyReqs, At, Request, Requests
<1>6. ASSUME ~At(r, "idle"), NEW s \in SUBSET Tasks, req' = [req EXCEPT ![r].todo = s]
      PROVE  (req \in [Reqs -> Requests] /\ BusyReqs)'
  BY <1>1, <1>6 DEF BusyReqs, At, Request, Requests
<1> QED
  BY <1>2, <1>3, <1>4, <1>5, <1>6

LEMMA TypeInit == Init => TypeInv
BY DEF Init, BoardInit, TypeInv, TypeOK, BoardTypeOK, BusyReqs, At, Idle, Request, Requests,
       Statuses, Pcs, ClaimPcs, SubmitPcs

LEMMA ClaimStepTypes ==
    ASSUME TypeInv, NEW r \in Reqs, ClaimStep(r)
    PROVE  TypeInv'
<1>1. TypeOK /\ BusyReqs
  BY DEF TypeInv
<1>2. ASSUME NEW a \in Accounts, NEW t \in Tasks, BeginClaim(r, a, t)
      PROVE  TypeInv'
  <2>1. "check" \in Pcs
    BY DEF Pcs, ClaimPcs
  <2> QED
    BY <1>1, <1>2, <2>1, ReqMoves
    DEF BeginClaim, TypeInv, TypeOK, BoardTypeOK, boardVars, histVars
<1>3. CASE CheckBlockers(r)
  <2>1. ~At(r, "idle") /\ "update" \in Pcs
    BY <1>3 DEF CheckBlockers, At, Pcs, ClaimPcs
  <2>2. Answer(r) \/ Goto(r, "update")
    BY <1>3 DEF CheckBlockers
  <2> QED
    BY <1>1, <1>3, <2>1, <2>2, ReqMoves
    DEF CheckBlockers, TypeInv, TypeOK, BoardTypeOK, boardVars, histVars
<1>4. CASE ClaimTask(r)
  <2>1. ~At(r, "idle") /\ "scan" \in Pcs
    BY <1>4 DEF ClaimTask, At, Pcs, ClaimPcs
  <2>2. req[r].acct \in Accounts /\ req[r].task \in Tasks
    BY <1>1, <2>1 DEF BusyReqs
  <2>3. (req \in [Reqs -> Requests] /\ BusyReqs)'
    BY <1>4, <2>1, ReqMoves DEF ClaimTask
  <2>4. BoardTypeOK'
    BY <1>1, <1>4, <2>2 DEF ClaimTask, ClaimRow, TypeOK, BoardTypeOK, Statuses
  <2> QED
    BY <1>1, <1>4, <2>3, <2>4 DEF ClaimTask, TypeInv, TypeOK
<1>5. CASE ClaimLost(r)
  BY <1>1, <1>5, ReqMoves DEF ClaimLost, TypeInv, TypeOK, BoardTypeOK, boardVars, histVars
<1>6. CASE ScanOverlaps(r)
  <2>1. ~At(r, "idle") /\ "note_self" \in Pcs /\ Overlaps(req[r].task) \in SUBSET Tasks
    BY <1>6 DEF ScanOverlaps, At, Pcs, ClaimPcs, Overlaps
  <2>2. (req \in [Reqs -> Requests] /\ BusyReqs)'
    BY <1>6, <2>1, ReqMoves DEF ScanOverlaps
  <2> QED
    BY <1>1, <1>6, <2>2 DEF ScanOverlaps, TypeInv, TypeOK, BoardTypeOK, boardVars, histVars
<1>7. CASE NoteSelf(r)
  <2>1. ~At(r, "idle") /\ "note_others" \in Pcs
    BY <1>7 DEF NoteSelf, At, Pcs, ClaimPcs
  <2>2. req[r].task \in Tasks /\ req[r].todo \in SUBSET Tasks
    BY <1>1, <2>1 DEF BusyReqs, TypeOK, Requests
  <2>3. (req \in [Reqs -> Requests] /\ BusyReqs)'
    BY <1>7, <2>1, ReqMoves DEF NoteSelf
  <2>4. BoardTypeOK'
    BY <1>1, <1>7, <2>2 DEF NoteSelf, AddConflictNote, TypeOK, BoardTypeOK
  <2> QED
    BY <1>1, <1>7, <2>3, <2>4 DEF NoteSelf, TypeInv, TypeOK, histVars
<1>8. ASSUME NEW u \in Tasks, NoteOther(r, u)
      PROVE  TypeInv'
  <2>1. ~At(r, "idle")
    BY <1>8 DEF NoteOther, At
  <2>2. req[r].task \in Tasks /\ req[r].todo \ {u} \in SUBSET Tasks
    BY <1>1, <2>1 DEF BusyReqs, TypeOK, Requests
  <2>3. Answer(r) \/ req' = [req EXCEPT ![r].todo = req[r].todo \ {u}]
    BY <1>8 DEF NoteOther
  <2>4. (req \in [Reqs -> Requests] /\ BusyReqs)'
    BY <2>1, <2>2, <2>3, ReqMoves
  <2>5. BoardTypeOK'
    BY <1>1, <1>8, <2>2 DEF NoteOther, AddConflictNote, TypeOK, BoardTypeOK
  <2> QED
    BY <1>1, <1>8, <2>4, <2>5 DEF NoteOther, TypeInv, TypeOK, histVars
<1> QED
  BY <1>2, <1>3, <1>4, <1>5, <1>6, <1>7, <1>8 DEF ClaimStep

LEMMA SubmitStepTypes ==
    ASSUME TypeInv, NEW r \in Reqs, SubmitStep(r)
    PROVE  TypeInv'
<1>1. TypeOK /\ BusyReqs
  BY DEF TypeInv
<1> USE DEF Pcs, SubmitPcs
<1>2. ASSUME NEW a \in Accounts, NEW t \in Tasks, BeginSubmit(r, a, t)
      PROVE  TypeInv'
  BY <1>1, <1>2, ReqMoves DEF BeginSubmit, TypeInv, TypeOK, BoardTypeOK, boardVars, histVars
<1>3. CASE PatchApplies(r)
  BY <1>1, <1>3, ReqMoves
  DEF PatchApplies, At, TypeInv, TypeOK, BoardTypeOK, boardVars, histVars
<1>4. CASE PatchFails(r)
  BY <1>1, <1>4, ReqMoves
  DEF PatchFails, At, TypeInv, TypeOK, BoardTypeOK, boardVars, histVars
<1>5. CASE NoteFailed(r) \/ PushRejected(r)
  BY <1>1, <1>5, ReqMoves
  DEF NoteFailed, PushRejected, TypeInv, TypeOK, BoardTypeOK, boardVars, histVars
<1>9. CASE OpenPrFails(r)
  <2>1. req[r].task \in Tasks
    BY <1>1, <1>9 DEF OpenPrFails, At, BusyReqs
  <2> QED
    BY <1>1, <1>9, <2>1, ReqMoves DEF OpenPrFails, TypeInv, TypeOK, BoardTypeOK, boardVars
<1>6. CASE Push(r)
  <2>1. ~At(r, "idle") /\ req[r].acct \in Accounts
    BY <1>1, <1>6 DEF Push, At, BusyReqs
  <2>2. (req \in [Reqs -> Requests] /\ BusyReqs)'
    BY <1>6, <2>1, ReqMoves DEF Push
  <2> QED
    BY <1>1, <1>6, <2>1, <2>2 DEF Push, TypeInv, TypeOK, BoardTypeOK, boardVars, histVars
<1>7. CASE OpenPr(r) \/ OpenPrAnswerLost(r)
  <2>1. ~At(r, "idle") /\ req[r].acct \in Accounts /\ req[r].task \in Tasks
    BY <1>1, <1>7 DEF OpenPr, OpenPrAnswerLost, At, BusyReqs
  <2>2. (req \in [Reqs -> Requests] /\ BusyReqs)'
    BY <1>7, <2>1, ReqMoves DEF OpenPr, OpenPrAnswerLost
  <2> QED
    BY <1>1, <1>7, <2>1, <2>2
    DEF OpenPr, OpenPrAnswerLost, TypeInv, TypeOK, BoardTypeOK, boardVars, histVars
<1>8. CASE RecordSubmit(r)
  <2>1. (req \in [Reqs -> Requests] /\ BusyReqs)'
    BY <1>8, ReqMoves DEF RecordSubmit
  <2>2. BoardTypeOK'
    BY <1>1, <1>8 DEF RecordSubmit, SubmitRow, TypeOK, BoardTypeOK, Statuses
  <2> QED
    BY <1>1, <1>8, <2>1, <2>2 DEF RecordSubmit, TypeInv, TypeOK, histVars
<1> QED
  BY <1>2, <1>3, <1>4, <1>5, <1>6, <1>7, <1>8, <1>9 DEF SubmitStep

LEMMA BlockStepTypes ==
    ASSUME TypeInv, NEW r \in Reqs, BlockStep(r)
    PROVE  TypeInv'
<1>1. TypeOK /\ BusyReqs
  BY DEF TypeInv
<1>2. ASSUME NEW a \in Accounts, NEW t \in Tasks, BeginBlock(r, a, t)
      PROVE  TypeInv'
  BY <1>1, <1>2, ReqMoves
  DEF BeginBlock, Pcs, TypeInv, TypeOK, BoardTypeOK, boardVars, histVars
<1>3. CASE SetBlocked(r)
  <2>1. (req \in [Reqs -> Requests] /\ BusyReqs)'
    BY <1>3, ReqMoves DEF SetBlocked
  <2>2. BoardTypeOK'
    BY <1>1, <1>3 DEF SetBlocked, SetStatus, TypeOK, BoardTypeOK, Statuses
  <2> QED
    BY <1>1, <1>3, <2>1, <2>2 DEF SetBlocked, TypeInv, TypeOK, histVars
<1> QED
  BY <1>2, <1>3 DEF BlockStep

LEMMA TaskStepTypes ==
    ASSUME TypeInv, NEW t \in Tasks, TaskStep(t)
    PROVE  TypeInv'
<1>1. TypeOK /\ BusyReqs
  BY DEF TypeInv
<1>2. req' = req
  BY DEF TaskStep, Release, SweepNote, TtlPasses, HumanEndsPr,
         OperatorMarksDone, apiVars
<1>3. BusyReqs'
  BY <1>1, <1>2 DEF BusyReqs, At
<1>4. CASE Release(t)
  <2>1. BoardTypeOK'
    BY <1>1, <1>4 DEF Release, SetStatus, TypeOK, BoardTypeOK, Statuses
  <2> QED
    BY <1>1, <1>3, <1>4, <2>1 DEF Release, TypeInv, TypeOK, apiVars, histVars
<1>5. CASE SweepNote(t)
  BY <1>1, <1>3, <1>5
  DEF SweepNote, TypeInv, TypeOK, BoardTypeOK, boardVars, apiVars, histVars
<1>6. CASE TtlPasses(t)
  <2>1. BoardTypeOK'
    BY <1>1, <1>6 DEF TtlPasses, ClaimAges, TypeOK, BoardTypeOK
  <2> QED
    BY <1>1, <1>3, <1>6, <2>1 DEF TtlPasses, TypeInv, TypeOK, apiVars, histVars
<1>7. CASE HumanEndsPr(t)
  <2>1. PICK tip \in {branch[t], None} : branch' = [branch EXCEPT ![t] = tip]
    BY <1>7 DEF HumanEndsPr
  <2>2. branch' \in [Tasks -> Accounts \cup {None}]
    BY <1>1, <2>1 DEF TypeOK
  <2> QED
    BY <1>1, <1>3, <1>7, <2>2
    DEF HumanEndsPr, TypeInv, TypeOK, BoardTypeOK, boardVars, histVars
<1>8. CASE OperatorMarksDone(t)
  <2>1. BoardTypeOK'
    BY <1>1, <1>8 DEF OperatorMarksDone, SetStatus, TypeOK, BoardTypeOK, Statuses
  <2> QED
    BY <1>1, <1>3, <1>8, <2>1 DEF OperatorMarksDone, TypeInv, TypeOK, apiVars
<1> QED
  BY <1>4, <1>5, <1>6, <1>7, <1>8 DEF TaskStep

LEMMA TypeStep == TypeInv /\ [Next]_vars => TypeInv'
<1> SUFFICES ASSUME TypeInv, [Next]_vars PROVE TypeInv'
  OBVIOUS
<1>1. TypeOK /\ BusyReqs
  BY DEF TypeInv
<1>2. ASSUME NEW r \in Reqs, Dies(r) PROVE TypeInv'
  <2>1. (req \in [Reqs -> Requests] /\ BusyReqs)'
    BY <1>2, ReqMoves DEF Dies
  <2>2. cut' \subseteq Tasks /\ lost' \subseteq Tasks
    BY <1>1, <1>2 DEF Dies, BusyReqs, TypeOK, At
  <2> QED
    BY <1>1, <1>2, <2>1, <2>2 DEF Dies, TypeInv, TypeOK, BoardTypeOK, boardVars
<1>3. CASE Sweep
  <2>1. BusyReqs'
    BY <1>1, <1>3 DEF Sweep, BusyReqs, At
  <2>2. BoardTypeOK' /\ swept' \subseteq Tasks /\ lost' \subseteq Tasks
    BY <1>1, <1>3 DEF Sweep, ReleaseRows, StaleClaims, TypeOK, BoardTypeOK, Statuses, histVars
  <2> QED
    BY <1>1, <1>3, <2>1, <2>2 DEF Sweep, TypeInv, TypeOK, histVars
<1>4. CASE SweepFails
  BY <1>1, <1>4 DEF SweepFails, TypeInv, TypeOK, BoardTypeOK, BusyReqs, At, boardVars, histVars
<1>5. CASE UNCHANGED vars
  BY <1>1, <1>5 DEF vars, TypeInv, TypeOK, BoardTypeOK, BusyReqs, At
<1> QED
  BY <1>2, <1>3, <1>4, <1>5, ClaimStepTypes, SubmitStepTypes, BlockStepTypes, TaskStepTypes
  DEF Next, AliveNext

LEMMA TypesHold == Spec => []TypeInv
BY TypeInit, TypeStep, PTL DEF Spec

\* Every variable keeps its type.
THEOREM TypeCorrect == Spec => []TypeOK
<1>1. TypeInv => TypeOK
  BY DEF TypeInv
<1> QED
  BY <1>1, TypesHold, PTL

\* Who moves a request: only its own steps do, and each goes to its own pc.
LEMMA ReqSteps ==
    ASSUME TypeInv, [Next]_vars, NEW r \in Reqs, req'[r] # req[r]
    PROVE  \/ Dies(r)
           \/ \E a \in Accounts, t \in Tasks : BeginClaim(r, a, t) /\ req'[r].pc = "check"
           \/ CheckBlockers(r) /\ req'[r].pc \in {"idle", "update"}
           \/ ClaimTask(r) /\ req'[r].pc = "scan"
           \/ ClaimLost(r) /\ req'[r].pc = "idle"
           \/ ScanOverlaps(r) /\ req'[r].pc \in {"idle", "note_self"}
           \/ NoteSelf(r) /\ req'[r].pc = "note_others"
           \/ \E u \in Tasks : NoteOther(r, u) /\ req'[r].pc \in {"idle", "note_others"}
           \/ SubmitStep(r) /\ req'[r].pc \in SubmitPcs \cup {"idle"}
           \/ BlockStep(r) /\ req'[r].pc \in {"idle", "set_blocked"}
<1>1. req \in [Reqs -> Requests]
  BY DEF TypeInv, TypeOK
<1> USE DEF Goto, Answer, Idle, Request, Requests
<1>2. ASSUME NEW s \in Reqs, ClaimStep(s), s # r PROVE req'[r] = req[r]
  <2>1. \E x : req' = [req EXCEPT ![s] = x]
    BY <1>2
    DEF ClaimStep, BeginClaim, CheckBlockers, ClaimTask, ClaimLost, ScanOverlaps, NoteSelf,
        NoteOther, Start
  <2> QED
    BY <1>1, <1>2, <2>1
<1>3. ASSUME NEW s \in Reqs, SubmitStep(s), s # r PROVE req'[r] = req[r]
  BY <1>1, <1>3
  DEF SubmitStep, BeginSubmit, PatchApplies, PatchFails, NoteFailed, Push, PushRejected, OpenPr,
      OpenPrFails, OpenPrAnswerLost, RecordSubmit, Start
<1>4. ASSUME NEW s \in Reqs, BlockStep(s) \/ Dies(s), s # r PROVE req'[r] = req[r]
  BY <1>1, <1>4 DEF BlockStep, BeginBlock, SetBlocked, Dies, Start
<1>5. ~(Sweep \/ SweepFails \/ (\E v \in Tasks : TaskStep(v)) \/ UNCHANGED vars)
  BY DEF Sweep, SweepFails, vars, TaskStep, Release, SweepNote, TtlPasses,
         HumanEndsPr, OperatorMarksDone, apiVars
<1>6. ClaimStep(r) \/ SubmitStep(r) \/ BlockStep(r) \/ Dies(r)
  BY <1>2, <1>3, <1>4, <1>5 DEF Next, AliveNext
<1>7. \A a \in Accounts, t \in Tasks : BeginClaim(r, a, t) => req'[r].pc = "check"
  BY <1>1 DEF BeginClaim, Start
<1>8. CheckBlockers(r) => req'[r].pc \in {"idle", "update"}
  BY <1>1 DEF CheckBlockers
<1>9. ClaimTask(r) => req'[r].pc = "scan"
  BY <1>1 DEF ClaimTask
<1>10. ClaimLost(r) => req'[r].pc = "idle"
  BY <1>1 DEF ClaimLost
<1>11. ScanOverlaps(r) => req'[r].pc \in {"idle", "note_self"}
  BY <1>1 DEF ScanOverlaps
<1>12. NoteSelf(r) => req'[r].pc = "note_others"
  BY <1>1 DEF NoteSelf
<1>13. \A u \in Tasks : NoteOther(r, u) => req'[r].pc \in {"idle", "note_others"}
  BY <1>1 DEF NoteOther, At
<1>14. SubmitStep(r) => req'[r].pc \in SubmitPcs \cup {"idle"}
  BY <1>1
  DEF SubmitStep, BeginSubmit, PatchApplies, PatchFails, NoteFailed, Push, PushRejected, OpenPr,
      OpenPrFails, OpenPrAnswerLost, RecordSubmit, Start, SubmitPcs
<1>15. BlockStep(r) => req'[r].pc \in {"idle", "set_blocked"}
  BY <1>1 DEF BlockStep, BeginBlock, SetBlocked, Start
<1> QED
  BY <1>6, <1>7, <1>8, <1>9, <1>10, <1>11, <1>12, <1>13, <1>14, <1>15 DEF ClaimStep

-----------------------------------------------------------------------------
(* The rows of the board. *)

\* What a step does to the rows: nothing, or one of the statements.
RowsMove ==
    \/ UNCHANGED <<status, assignee, claimed_at>>
    \/ \E t \in Tasks, a \in Accounts : ClaimRow(t, a)
    \/ \E t \in Tasks : SubmitRow(t) \/ ClaimAges(t)
    \/ \E t \in Tasks, s \in Statuses \ {"in_progress"} : SetStatus(t, s)
    \/ ReleaseRows(StaleClaims)

LEMMA RowsKept ==
    ASSUME TypeInv, RowConsistent, RowsMove
    PROVE  RowConsistent'
<1>1. BoardTypeOK
  BY DEF TypeInv, TypeOK
<1>2. CASE UNCHANGED <<status, assignee, claimed_at>>
  BY <1>2 DEF RowConsistent
<1>3. ASSUME NEW t \in Tasks, NEW a \in Accounts, ClaimRow(t, a) PROVE RowConsistent'
  BY <1>1, <1>3, NoneAssumption DEF RowConsistent, ClaimRow, BoardTypeOK
<1>4. ASSUME NEW t \in Tasks, SubmitRow(t) PROVE RowConsistent'
  BY <1>1, <1>4 DEF RowConsistent, SubmitRow, BoardTypeOK
<1>5. ASSUME NEW t \in Tasks, NEW s \in Statuses \ {"in_progress"}, SetStatus(t, s)
      PROVE  RowConsistent'
  BY <1>1, <1>5 DEF RowConsistent, SetStatus, BoardTypeOK
<1>6. CASE ReleaseRows(StaleClaims)
  BY <1>1, <1>6 DEF RowConsistent, ReleaseRows, BoardTypeOK
<1>7. ASSUME NEW t \in Tasks, ClaimAges(t) PROVE RowConsistent'
  BY <1>1, <1>7, NoneAssumption DEF RowConsistent, ClaimAges, BoardTypeOK
<1> QED
  BY <1>2, <1>3, <1>4, <1>5, <1>6, <1>7 DEF RowsMove

LEMMA StepOnRows ==
    ASSUME TypeInv, [Next]_vars
    PROVE  RowsMove
<1>1. BusyReqs
  BY DEF TypeInv
<1>2. ASSUME NEW r \in Reqs, ClaimStep(r)
      PROVE  \/ UNCHANGED <<status, assignee, claimed_at>>
             \/ \E t \in Tasks, a \in Accounts : ClaimRow(t, a)
  <2>1. CASE ClaimTask(r)
    BY <1>1, <2>1 DEF ClaimTask, BusyReqs, At
  <2> QED
    BY <1>2, <2>1
    DEF ClaimStep, BeginClaim, CheckBlockers, ClaimLost, ScanOverlaps, NoteSelf, NoteOther,
        AddConflictNote, boardVars
<1>3. ASSUME NEW r \in Reqs, SubmitStep(r)
      PROVE  \/ UNCHANGED <<status, assignee, claimed_at>>
             \/ \E t \in Tasks : SubmitRow(t)
  <2>1. CASE RecordSubmit(r)
    BY <1>1, <2>1 DEF RecordSubmit, BusyReqs, At
  <2> QED
    BY <1>3, <2>1
    DEF SubmitStep, BeginSubmit, PatchApplies, PatchFails, NoteFailed, Push, PushRejected,
        OpenPr, OpenPrFails, OpenPrAnswerLost, boardVars
<1>4. ASSUME NEW r \in Reqs, BlockStep(r)
      PROVE  \/ UNCHANGED <<status, assignee, claimed_at>>
             \/ \E t \in Tasks, s \in Statuses \ {"in_progress"} : SetStatus(t, s)
  BY <1>1, <1>4 DEF BlockStep, BeginBlock, SetBlocked, BusyReqs, At, Statuses, boardVars
<1>5. ASSUME NEW t \in Tasks, TaskStep(t)
      PROVE  \/ UNCHANGED <<status, assignee, claimed_at>>
             \/ \E s \in Statuses \ {"in_progress"} : SetStatus(t, s)
             \/ ClaimAges(t)
  BY <1>5
  DEF TaskStep, Release, SweepNote, TtlPasses, HumanEndsPr,
      OperatorMarksDone, Statuses, boardVars
<1>6. ASSUME Sweep \/ SweepFails \/ (\E r \in Reqs : Dies(r)) \/ UNCHANGED vars
      PROVE  UNCHANGED <<status, assignee, claimed_at>> \/ ReleaseRows(StaleClaims)
  BY <1>6 DEF Sweep, SweepFails, Dies, vars, boardVars
<1> QED
  BY <1>2, <1>3, <1>4, <1>5, <1>6 DEF Next, AliveNext, RowsMove

LEMMA RowsInit == Init => RowConsistent
BY DEF Init, BoardInit, RowConsistent

LEMMA RowsStep == TypeInv /\ RowConsistent /\ [Next]_vars => RowConsistent'
BY StepOnRows, RowsKept

\* A task in progress has a holder and a dated claim; one in the backlog has
\* no holder.
THEOREM RowsConsistent == Spec => []RowConsistent
BY TypesHold, RowsInit, RowsStep, PTL DEF Spec

-----------------------------------------------------------------------------
(* assignee implements TaskLease. *)

\* A row is claimed only from the backlog, where it has no holder: this is
\* where the step to the lease needs RowConsistent.
LEMMA LeaseStep ==
    TypeInv /\ RowConsistent /\ [Next]_vars => [Lease!LeaseNext]_assignee
<1> SUFFICES ASSUME TypeInv, RowConsistent, [Next]_vars
             PROVE  Lease!LeaseNext \/ UNCHANGED assignee
  OBVIOUS
<1>1. BoardTypeOK
  BY DEF TypeInv, TypeOK
<1>2. RowsMove
  BY StepOnRows
<1>3. ASSUME NEW t \in Tasks, NEW a \in Accounts, ClaimRow(t, a) PROVE Lease!LeaseNext
  BY <1>3 DEF ClaimRow, RowConsistent, Lease!LeaseNext, Lease!Acquire
<1>4. ASSUME NEW t \in Tasks, NEW s \in Statuses \ {"in_progress"}, SetStatus(t, s)
      PROVE  Lease!LeaseNext \/ UNCHANGED assignee
  <2>1. CASE s = "backlog"
    <3>1. assignee' = [u \in Tasks |-> IF u \in {t} THEN None ELSE assignee[u]]
      BY <1>1, <1>4, <2>1 DEF SetStatus, BoardTypeOK
    <3>2. Lease!GiveBack({t})
      BY <3>1 DEF Lease!GiveBack
    <3> QED
      BY <3>2 DEF Lease!LeaseNext
  <2> QED
    BY <1>4, <2>1 DEF SetStatus
<1>5. CASE ReleaseRows(StaleClaims)
  <2>1. StaleClaims \in SUBSET Tasks /\ Lease!GiveBack(StaleClaims)
    BY <1>5 DEF StaleClaims, ReleaseRows, Lease!GiveBack
  <2> QED
    BY <2>1 DEF Lease!LeaseNext
<1>6. ASSUME NEW t \in Tasks, SubmitRow(t) \/ ClaimAges(t) PROVE UNCHANGED assignee
  BY <1>6 DEF SubmitRow, ClaimAges
<1> QED
  BY <1>2, <1>3, <1>4, <1>5, <1>6 DEF RowsMove

\* The board gives out exclusive leases: no task passes directly from one
\* account to another.
THEOREM ImplementsLease == Spec => IsLease
<1>1. Init => Lease!LeaseInit
  BY DEF Init, BoardInit, Lease!LeaseInit
<1> QED
  BY <1>1, TypesHold, RowsConsistent, LeaseStep, PTL DEF Spec, IsLease, Lease!LeaseSpec

-----------------------------------------------------------------------------
(* Branches and pull requests. *)

\* A request that is about to open a PR has its own diff at the tip of the
\* branch, and no PR is open: this keeps every other push out.
OpenersOwnBranch ==
    \A r \in Reqs : At(r, "open_pr") =>
        branch[req[r].task] = req[r].acct /\ openPr[req[r].task] = None

PrInv == PrHeadIntact /\ OneSubmitterOpens /\ OpenersOwnBranch

\* A step that leaves GitHub alone and brings no request to open_pr.
LEMMA PrKept ==
    ASSUME PrInv, UNCHANGED <<branch, openPr>>,
           \A r \in Reqs : req'[r].pc = "open_pr" => req'[r] = req[r]
    PROVE  PrInv'
BY DEF PrInv, PrHeadIntact, OneSubmitterOpens, OpenersOwnBranch, At

LEMMA OnlyPushOpens ==
    ASSUME TypeInv, [Next]_vars, NEW r \in Reqs, req'[r].pc = "open_pr", req'[r] # req[r]
    PROVE  Push(r)
<1>1. req \in [Reqs -> Requests]
  BY DEF TypeInv, TypeOK
<1>2. SubmitStep(r)
  BY <1>1, ReqSteps DEF Dies, Answer, Idle, Request
<1> QED
  BY <1>1, <1>2
  DEF SubmitStep, BeginSubmit, PatchApplies, PatchFails, NoteFailed, PushRejected, OpenPr,
      OpenPrFails, OpenPrAnswerLost, RecordSubmit, Start, Goto, Answer, Idle, Request, Requests

LEMMA PrInit == Init => PrInv
BY DEF Init, PrInv, PrHeadIntact, OneSubmitterOpens, OpenersOwnBranch, At, Idle, Request

LEMMA PrStep == TypeInv /\ PrInv /\ [Next]_vars => PrInv'
<1> SUFFICES ASSUME TypeInv, PrInv, [Next]_vars PROVE PrInv'
  OBVIOUS
<1>1. req \in [Reqs -> Requests] /\ BusyReqs /\ branch \in [Tasks -> Accounts \cup {None}]
      /\ openPr \in [Tasks -> Accounts \cup {None}]
  BY DEF TypeInv, TypeOK
<1>2. ASSUME NEW r \in Reqs, Push(r) PROVE PrInv'
  <2>1. /\ req[r].acct \in Accounts /\ req[r].task \in Tasks
        /\ branch[req[r].task] = None
    BY <1>1, <1>2 DEF Push, BusyReqs, At
  <2>2. \A s \in Reqs : At(s, "open_pr") =>
            req[s].task \in Tasks /\ req[s].acct \in Accounts /\ req[s].task # req[r].task
    BY <1>1, <2>1, NoneAssumption DEF PrInv, OpenersOwnBranch, BusyReqs, At
  <2>3. openPr[req[r].task] = None
    BY <1>1, <2>1 DEF PrInv, PrHeadIntact
  <2>4. PrHeadIntact'
    BY <1>1, <1>2, <2>1, <2>3 DEF Push, PrInv, PrHeadIntact
  <2>5. /\ req'[r].pc = "open_pr" /\ req'[r].task = req[r].task /\ req'[r].acct = req[r].acct
        /\ \A s \in Reqs : s # r => req'[s] = req[s]
    BY <1>1, <1>2 DEF Push, Goto, Requests
  <2>6. OneSubmitterOpens'
    BY <2>2, <2>5 DEF PrInv, OneSubmitterOpens, At
  <2>7. OpenersOwnBranch'
    BY <1>1, <1>2, <2>1, <2>2, <2>3, <2>5 DEF Push, PrInv, OpenersOwnBranch, At
  <2> QED
    BY <2>4, <2>6, <2>7 DEF PrInv
<1>3. ASSUME NEW r \in Reqs, OpenPr(r) \/ OpenPrAnswerLost(r) PROVE PrInv'
  <2>1. /\ req[r].task \in Tasks /\ branch[req[r].task] = req[r].acct
        /\ branch' = branch
    BY <1>1, <1>3 DEF OpenPr, OpenPrAnswerLost, BusyReqs, At, PrInv, OpenersOwnBranch
  <2>2. openPr' = [openPr EXCEPT ![req[r].task] = req[r].acct]
    BY <1>3 DEF OpenPr, OpenPrAnswerLost
  <2>3. \A s \in Reqs : At(s, "open_pr") /\ s # r => req[s].task # req[r].task
    BY <1>3 DEF OpenPr, OpenPrAnswerLost, PrInv, OneSubmitterOpens
  <2>4. req'[r].pc # "open_pr" /\ \A s \in Reqs : s # r => req'[s] = req[s]
    BY <1>1, <1>3 DEF OpenPr, OpenPrAnswerLost, Goto, Answer, Idle, Request, Requests
  <2>5. PrHeadIntact'
    BY <1>1, <2>1, <2>2 DEF PrInv, PrHeadIntact
  <2>6. OneSubmitterOpens'
    BY <2>4 DEF PrInv, OneSubmitterOpens, At
  <2>7. OpenersOwnBranch'
    BY <1>1, <2>1, <2>2, <2>3, <2>4 DEF PrInv, OpenersOwnBranch, BusyReqs, At
  <2> QED
    BY <2>5, <2>6, <2>7 DEF PrInv
<1>4. ASSUME NEW t \in Tasks, HumanEndsPr(t) PROVE PrInv'
  <2>1. PICK tip \in {branch[t], None} : branch' = [branch EXCEPT ![t] = tip]
    BY <1>4 DEF HumanEndsPr
  <2>2. /\ openPr[t] # None /\ openPr' = [openPr EXCEPT ![t] = None]
        /\ req' = req
    BY <1>4 DEF HumanEndsPr
  <2>3. \A s \in Reqs : At(s, "open_pr") => req[s].task # t
    BY <2>2 DEF PrInv, OpenersOwnBranch
  <2>4. PrHeadIntact'
    BY <1>1, <2>1, <2>2 DEF PrInv, PrHeadIntact
  <2>5. OpenersOwnBranch'
    BY <1>1, <2>1, <2>2, <2>3 DEF PrInv, OpenersOwnBranch, At
  <2> QED
    BY <2>2, <2>4, <2>5 DEF PrInv, OneSubmitterOpens, At
<1>5. ASSUME NEW r \in Reqs, ClaimStep(r) \/ BlockStep(r) \/ Dies(r) PROVE PrInv'
  <2>1. UNCHANGED <<branch, openPr>>
    BY <1>5
    DEF ClaimStep, BeginClaim, CheckBlockers, ClaimTask, ClaimLost, ScanOverlaps, NoteSelf,
        NoteOther, BlockStep, BeginBlock, SetBlocked, Dies
  <2>2. \A s \in Reqs : ~Push(s)
    BY <1>1, <1>5, <2>1, NoneAssumption DEF Push, BusyReqs, At
  <2>3. \A s \in Reqs : req'[s].pc = "open_pr" => req'[s] = req[s]
    BY <2>2, OnlyPushOpens
  <2> QED
    BY <2>1, <2>3, PrKept
<1>6. ASSUME NEW r \in Reqs, SubmitStep(r),
             ~Push(r), ~OpenPr(r), ~OpenPrAnswerLost(r)
      PROVE  PrInv'
  <2>1. UNCHANGED <<branch, openPr>>
    BY <1>6
    DEF SubmitStep, BeginSubmit, PatchApplies, PatchFails, NoteFailed, PushRejected,
        OpenPrFails, RecordSubmit
  <2>2. \A s \in Reqs : ~Push(s)
    BY <1>1, <2>1, NoneAssumption DEF Push, BusyReqs, At
  <2>3. \A s \in Reqs : req'[s].pc = "open_pr" => req'[s] = req[s]
    BY <2>2, OnlyPushOpens
  <2> QED
    BY <2>1, <2>3, PrKept
<1>7. ASSUME UNCHANGED <<req, branch, openPr>> PROVE PrInv'
  BY <1>7, PrKept
<1>8. ASSUME NEW t \in Tasks, TaskStep(t), ~HumanEndsPr(t) PROVE PrInv'
  BY <1>7, <1>8
  DEF TaskStep, Release, SweepNote, TtlPasses, OperatorMarksDone, apiVars
<1>9. ASSUME Sweep \/ SweepFails \/ UNCHANGED vars PROVE PrInv'
  BY <1>7, <1>9 DEF Sweep, SweepFails, vars
<1> QED
  BY <1>2, <1>3, <1>4, <1>5, <1>6, <1>8, <1>9 DEF Next, AliveNext

LEMMA PrInvHolds == Spec => []PrInv
BY TypesHold, PrInit, PrStep, PTL DEF Spec

\* The diff under an open PR stays the one it was opened with.
THEOREM PrsIntact == Spec => []PrHeadIntact
<1>1. PrInv => PrHeadIntact
  BY DEF PrInv
<1> QED
  BY <1>1, PrInvHolds, PTL

\* Of all the submissions of a task, one at a time can open a PR.
THEOREM OneOpens == Spec => []OneSubmitterOpens
<1>1. PrInv => OneSubmitterOpens
  BY DEF PrInv
<1> QED
  BY <1>1, PrInvHolds, PTL

-----------------------------------------------------------------------------
(* What a submission leaves behind. *)

AfterPush == {"open_pr", "record"}

\* A submission that has pushed goes on, or records its PR, or is lost.
LEMMA AfterPushSteps ==
    ASSUME TypeInv, [Next]_vars, NEW r \in Reqs, req[r].pc \in AfterPush
    PROVE  \/ req'[r].task = req[r].task /\ req'[r].pc \in AfterPush
           \/ pr_url'[req[r].task]
           \/ req[r].task \in lost'
<1>1. /\ req \in [Reqs -> Requests] /\ req[r].task \in Tasks
      /\ pr_url \in [Tasks -> BOOLEAN]
  BY DEF TypeInv, TypeOK, BoardTypeOK, BusyReqs, At, AfterPush
<1>2. CASE req'[r] = req[r]
  BY <1>2
<1>3. CASE Dies(r)
  BY <1>3 DEF Dies, AfterPush
<1>4. CASE SubmitStep(r)
  <2>1. OpenPr(r) \/ OpenPrFails(r) \/ OpenPrAnswerLost(r) \/ RecordSubmit(r)
    BY <1>4
    DEF SubmitStep, BeginSubmit, PatchApplies, PatchFails, NoteFailed, Push, PushRejected,
        Start, At, AfterPush
  <2>2. CASE OpenPr(r)
    BY <1>1, <2>2 DEF OpenPr, Goto, Requests, AfterPush
  <2>3. CASE OpenPrFails(r) \/ OpenPrAnswerLost(r)
    BY <2>3 DEF OpenPrFails, OpenPrAnswerLost
  <2>4. CASE RecordSubmit(r)
    BY <1>1, <2>4 DEF RecordSubmit, SubmitRow
  <2> QED
    BY <2>1, <2>2, <2>3, <2>4
<1> QED
  BY <1>2, <1>3, <1>4, ReqSteps
  DEF BeginClaim, CheckBlockers, ClaimTask, ClaimLost, ScanOverlaps, NoteSelf, NoteOther,
      BlockStep, BeginBlock, SetBlocked, Start, At, AfterPush

\* Neither a recorded PR nor a lost submission is ever forgotten.
LEMMA RecordsGrow ==
    ASSUME TypeInv, [Next]_vars
    PROVE  lost \subseteq lost' /\ \A t \in Tasks : pr_url[t] => pr_url'[t]
<1>1. pr_url \in [Tasks -> BOOLEAN]
  BY DEF TypeInv, TypeOK, BoardTypeOK
<1>2. ASSUME NEW r \in Reqs, ClaimStep(r)
      PROVE  UNCHANGED <<lost, pr_url>>
  BY <1>2
  DEF ClaimStep, BeginClaim, CheckBlockers, ClaimTask, ClaimRow, ClaimLost, ScanOverlaps,
      NoteSelf, NoteOther, AddConflictNote, boardVars, histVars
<1>3. ASSUME NEW r \in Reqs, SubmitStep(r)
      PROVE  lost \subseteq lost' /\ \A t \in Tasks : pr_url[t] => pr_url'[t]
  <2>1. CASE RecordSubmit(r)
    BY <1>1, <2>1 DEF RecordSubmit, SubmitRow, histVars
  <2> QED
    BY <1>3, <2>1
    DEF SubmitStep, BeginSubmit, PatchApplies, PatchFails, NoteFailed, Push, PushRejected,
        OpenPr, OpenPrFails, OpenPrAnswerLost, boardVars, histVars
<1>4. ASSUME NEW r \in Reqs, BlockStep(r) \/ Dies(r)
      PROVE  lost \subseteq lost' /\ UNCHANGED pr_url
  BY <1>4 DEF BlockStep, BeginBlock, SetBlocked, SetStatus, Dies, boardVars, histVars
<1>5. ASSUME NEW t \in Tasks, TaskStep(t)
      PROVE  UNCHANGED <<lost, pr_url>>
  BY <1>5
  DEF TaskStep, Release, SweepNote, TtlPasses, ClaimAges, HumanEndsPr, OperatorMarksDone,
      SetStatus, boardVars, histVars
<1>6. ASSUME Sweep \/ SweepFails \/ UNCHANGED vars
      PROVE  UNCHANGED <<lost, pr_url>>
  BY <1>6 DEF Sweep, ReleaseRows, SweepFails, vars, boardVars, histVars
<1> QED
  BY <1>2, <1>3, <1>4, <1>5, <1>6 DEF Next, AliveNext

\* A task gets a branch or a PR only from a submission that then goes on to
\* the next step, or is lost.
LEMMA GitHubGrows ==
    ASSUME TypeInv, [Next]_vars, NEW t \in Tasks,
           branch[t] = None /\ openPr[t] = None,
           branch'[t] # None \/ openPr'[t] # None
    PROVE  \/ \E r \in Reqs : req'[r].task = t /\ req'[r].pc \in AfterPush
           \/ t \in lost'
<1>1. /\ req \in [Reqs -> Requests] /\ BusyReqs
      /\ branch \in [Tasks -> Accounts \cup {None}] /\ openPr \in [Tasks -> Accounts \cup {None}]
  BY DEF TypeInv, TypeOK
<1>2. ASSUME NEW r \in Reqs, SubmitStep(r)
      PROVE  (req'[r].task = t /\ req'[r].pc \in AfterPush) \/ t \in lost'
  <2>1. Push(r) \/ OpenPr(r) \/ OpenPrAnswerLost(r)
    BY <1>2
    DEF SubmitStep, BeginSubmit, PatchApplies, PatchFails, NoteFailed, PushRejected,
        OpenPrFails, RecordSubmit
  <2>2. req[r].task \in Tasks
    BY <1>1, <2>1 DEF Push, OpenPr, OpenPrAnswerLost, BusyReqs, At
  <2>3. req[r].task = t
    BY <1>1, <2>1, <2>2 DEF Push, OpenPr, OpenPrAnswerLost
  <2> QED
    BY <1>1, <2>1, <2>3 DEF Push, OpenPr, OpenPrAnswerLost, Goto, Requests, AfterPush
<1>3. ASSUME NEW r \in Reqs, ClaimStep(r) \/ BlockStep(r) \/ Dies(r) PROVE FALSE
  BY <1>3
  DEF ClaimStep, BeginClaim, CheckBlockers, ClaimTask, ClaimLost, ScanOverlaps, NoteSelf,
      NoteOther, BlockStep, BeginBlock, SetBlocked, Dies
<1>4. ASSUME NEW u \in Tasks, TaskStep(u) PROVE FALSE
  <2>1. CASE HumanEndsPr(u)
    BY <1>1, <2>1 DEF HumanEndsPr
  <2> QED
    BY <1>4, <2>1 DEF TaskStep, Release, SweepNote, TtlPasses, OperatorMarksDone, apiVars
<1>5. ~(Sweep \/ SweepFails \/ UNCHANGED vars)
  BY DEF Sweep, SweepFails, vars
<1> QED
  BY <1>2, <1>3, <1>4, <1>5 DEF Next, AliveNext

LEMMA AccountedStep == TypeInv /\ SubmissionAccounted /\ [Next]_vars => SubmissionAccounted'
<1> SUFFICES ASSUME TypeInv, SubmissionAccounted, [Next]_vars, NEW t \in Tasks,
                    branch'[t] # None \/ openPr'[t] # None
             PROVE  \/ pr_url'[t]
                    \/ \E r \in Reqs : req'[r].task = t /\ req'[r].pc \in AfterPush
                    \/ t \in lost'
  BY DEF SubmissionAccounted, AfterPush
<1>1. CASE branch[t] = None /\ openPr[t] = None
  BY <1>1, GitHubGrows
<1>2. CASE pr_url[t] \/ t \in lost
  BY <1>2, RecordsGrow
<1>3. ASSUME NEW r \in Reqs, req[r].task = t, req[r].pc \in AfterPush
      PROVE  \/ pr_url'[t]
             \/ req'[r].task = t /\ req'[r].pc \in AfterPush
             \/ t \in lost'
  BY <1>3, AfterPushSteps
<1> QED
  BY <1>1, <1>2, <1>3 DEF SubmissionAccounted, AfterPush

\* A branch or a PR the board knows nothing of is about to be recorded, or was
\* left by a submission that ended after its push.
THEOREM SubmissionsAccounted == Spec => []SubmissionAccounted
<1>1. Init => SubmissionAccounted
  BY DEF Init, SubmissionAccounted
<1> QED
  BY <1>1, TypesHold, AccountedStep, PTL DEF Spec

-----------------------------------------------------------------------------
(* Conflict notes. *)

\* Only a new claim of one of the two tasks drops a note about the pair, or
\* the record that a claim died.
LEMMA NotesKept ==
    ASSUME TypeInv, [Next]_vars, NEW t \in Tasks, NEW u \in Tasks,
           \A s \in Reqs : ClaimTask(s) => req[s].task \notin {t, u}
    PROVE  /\ u \in conflictNotes[t] => u \in conflictNotes'[t]
           /\ t \in cut => t \in cut'
<1>1. BusyReqs /\ conflictNotes \in [Tasks -> SUBSET Tasks]
  BY DEF TypeInv, TypeOK, BoardTypeOK
<1>2. ASSUME NEW r \in Reqs, ClaimStep(r)
      PROVE  (u \in conflictNotes[t] => u \in conflictNotes'[t]) /\ (t \in cut => t \in cut')
  <2>1. CASE ClaimTask(r)
    BY <1>1, <2>1 DEF ClaimTask, ClaimRow
  <2>2. CASE NoteSelf(r)
    BY <1>1, <2>2 DEF NoteSelf, AddConflictNote, histVars
  <2>3. ASSUME NEW v \in Tasks, NoteOther(r, v)
        PROVE  (u \in conflictNotes[t] => u \in conflictNotes'[t]) /\ cut' = cut
    BY <1>1, <2>3 DEF NoteOther, AddConflictNote, histVars
  <2> QED
    BY <1>2, <2>1, <2>2, <2>3
    DEF ClaimStep, BeginClaim, CheckBlockers, ClaimLost, ScanOverlaps, boardVars, histVars
<1>3. ASSUME NEW r \in Reqs, SubmitStep(r) \/ BlockStep(r)
      PROVE  conflictNotes' = conflictNotes /\ cut' = cut
  BY <1>3
  DEF SubmitStep, BeginSubmit, PatchApplies, PatchFails, NoteFailed, Push, PushRejected, OpenPr,
      OpenPrFails, OpenPrAnswerLost, RecordSubmit, SubmitRow, BlockStep, BeginBlock, SetBlocked,
      SetStatus, boardVars, histVars
<1>4. ASSUME NEW v \in Tasks, TaskStep(v)
      PROVE  conflictNotes' = conflictNotes /\ cut' = cut
  BY <1>4
  DEF TaskStep, Release, SweepNote, TtlPasses, ClaimAges, HumanEndsPr,
      OperatorMarksDone, SetStatus, boardVars, histVars
<1>5. ASSUME Sweep \/ SweepFails \/ (\E r \in Reqs : Dies(r)) \/ UNCHANGED vars
      PROVE  conflictNotes' = conflictNotes /\ cut \subseteq cut'
  BY <1>5 DEF Sweep, ReleaseRows, SweepFails, Dies, vars, boardVars, histVars
<1> QED
  BY <1>2, <1>3, <1>4, <1>5 DEF Next, AliveNext

\* A request that is writing the notes of a pair goes on doing so until both
\* are written, or dies and leaves the task cut.
LEMMA FlaggingKept ==
    ASSUME TypeInv, [Next]_vars, NEW r \in Reqs, NEW t \in Tasks, NEW u \in Tasks,
           Overlap(t, u), status[u] = "in_progress", Flagging(r, t, u),
           \A s \in Reqs : ClaimTask(s) => req[s].task \notin {t, u}
    PROVE  Flagging(r, t, u)' \/ Flagged(t, u)' \/ t \in cut'
<1>1. /\ req \in [Reqs -> Requests] /\ BusyReqs
      /\ conflictNotes \in [Tasks -> SUBSET Tasks]
  BY DEF TypeInv, TypeOK, BoardTypeOK
<1>2. u \in conflictNotes[t] => u \in conflictNotes'[t]
  BY NotesKept
<1>3. CASE req'[r] = req[r]
  BY <1>2, <1>3 DEF Flagging, At
<1>4. CASE ScanOverlaps(r)
  <2>1. u \in Overlaps(req[r].task) /\ req[r].task = t
    BY <1>4 DEF Flagging, Overlaps, Active
  <2>2. req' = [req EXCEPT ![r] = Request("note_self", req[r].acct, t, Overlaps(t))]
    BY <1>4, <2>1 DEF ScanOverlaps
  <2> QED
    BY <1>1, <2>1, <2>2 DEF Flagging, At, Request
<1>5. CASE NoteSelf(r)
  <2>1. req[r].task = t /\ u \in req[r].todo
    BY <1>5 DEF NoteSelf, Flagging, At
  <2>2. u \in conflictNotes'[t]
    BY <1>1, <1>5, <2>1 DEF NoteSelf, AddConflictNote
  <2>3. req' = [req EXCEPT ![r].pc = "note_others"]
    BY <1>5 DEF NoteSelf, Goto
  <2> QED
    BY <1>1, <2>1, <2>2, <2>3 DEF Flagging, At, Requests
<1>6. ASSUME NEW v \in Tasks, NoteOther(r, v)
      PROVE  Flagging(r, t, u)' \/ Flagged(t, u)'
  <2>1. req[r].task = t /\ u \in req[r].todo /\ u \in conflictNotes[t]
    BY <1>6 DEF NoteOther, Flagging, At
  <2>2. CASE v = u
    BY <1>1, <1>2, <1>6, <2>1, <2>2 DEF NoteOther, AddConflictNote, Flagged
  <2>3. CASE v # u
    <3>1. req' = [req EXCEPT ![r].todo = req[r].todo \ {v}]
      BY <1>6, <2>1, <2>3 DEF NoteOther
    <3> QED
      BY <1>1, <1>2, <1>6, <2>1, <2>3, <3>1 DEF NoteOther, Flagging, At, Requests
  <2> QED
    BY <2>2, <2>3
<1>7. CASE Dies(r)
  BY <1>7 DEF Dies, Flagging, At
<1>8. req[r].pc \in {"scan", "note_self", "note_others"}
  BY DEF Flagging, At
<1>9. CASE req'[r] # req[r]
  <2>1. ScanOverlaps(r) \/ NoteSelf(r) \/ (\E v \in Tasks : NoteOther(r, v)) \/ Dies(r)
    BY <1>8, <1>9, ReqSteps
    DEF At, BeginClaim, CheckBlockers, ClaimTask, ClaimLost, SubmitStep, BeginSubmit,
        PatchApplies, PatchFails, NoteFailed, Push, PushRejected, OpenPr, OpenPrFails,
        OpenPrAnswerLost, RecordSubmit, BlockStep, BeginBlock, SetBlocked, Start
  <2> QED
    BY <1>4, <1>5, <1>6, <1>7, <2>1
<1> QED
  BY <1>3, <1>9

\* Only claim_task's UPDATE puts a task in progress, and only the operator
\* calls it done.
LEMMA StatusMoves ==
    ASSUME TypeInv, [Next]_vars, NEW t \in Tasks, status'[t] # status[t]
    PROVE  \/ status'[t] \in {"backlog", "in_review", "blocked"}
           \/ status'[t] = "in_progress" /\ \E s \in Reqs : ClaimTask(s) /\ req[s].task = t
           \/ OperatorMarksDone(t)
<1>1. BusyReqs /\ BoardTypeOK
  BY DEF TypeInv, TypeOK
<1>2. ASSUME NEW r \in Reqs, ClaimStep(r)
      PROVE  status'[t] = "in_progress" /\ ClaimTask(r) /\ req[r].task = t
  <2>1. CASE ClaimTask(r)
    BY <1>1, <2>1 DEF ClaimTask, ClaimRow, BoardTypeOK
  <2> QED
    BY <1>2, <2>1
    DEF ClaimStep, BeginClaim, CheckBlockers, ClaimLost, ScanOverlaps, NoteSelf, NoteOther,
        AddConflictNote, boardVars
<1>3. ASSUME NEW r \in Reqs, SubmitStep(r) PROVE status'[t] = "in_review"
  <2>1. CASE RecordSubmit(r)
    BY <1>1, <2>1 DEF RecordSubmit, SubmitRow, BoardTypeOK
  <2> QED
    BY <1>3, <2>1
    DEF SubmitStep, BeginSubmit, PatchApplies, PatchFails, NoteFailed, Push, PushRejected,
        OpenPr, OpenPrFails, OpenPrAnswerLost, boardVars
<1>4. ASSUME NEW r \in Reqs, BlockStep(r) PROVE status'[t] = "blocked"
  BY <1>1, <1>4 DEF BlockStep, BeginBlock, SetBlocked, SetStatus, BoardTypeOK, boardVars
<1>5. ASSUME NEW v \in Tasks, TaskStep(v)
      PROVE  status'[t] = "backlog" \/ OperatorMarksDone(t)
  <2>1. CASE OperatorMarksDone(v)
    BY <1>1, <2>1 DEF OperatorMarksDone, SetStatus, BoardTypeOK
  <2> QED
    BY <1>1, <1>5, <2>1
    DEF TaskStep, Release, SweepNote, TtlPasses, ClaimAges, HumanEndsPr,
        SetStatus, BoardTypeOK, boardVars
<1>6. ASSUME Sweep \/ SweepFails \/ (\E r \in Reqs : Dies(r)) \/ UNCHANGED vars
      PROVE  status'[t] = "backlog"
  BY <1>6 DEF Sweep, ReleaseRows, SweepFails, Dies, vars, boardVars
<1> QED
  BY <1>2, <1>3, <1>4, <1>5, <1>6 DEF Next, AliveNext

LEMMA OverlapsInit == Init => OverlapsFlagged
BY DEF Init, BoardInit, OverlapsFlagged

LEMMA OverlapsStep == TypeInv /\ OverlapsFlagged /\ [Next]_vars => OverlapsFlagged'
<1> SUFFICES ASSUME TypeInv, OverlapsFlagged, [Next]_vars, NEW t \in Tasks, NEW u \in Tasks,
                    Overlap(t, u), status'[t] = "in_progress", status'[u] = "in_progress"
             PROVE  Covered(t, u)' \/ t \in cut' \/ u \in cut'
  BY DEF OverlapsFlagged, Overlap
<1>1. req \in [Reqs -> Requests]
  BY DEF TypeInv, TypeOK
<1>2. Overlap(u, t)
  BY DEF Overlap
<1>3. ASSUME NEW s \in Reqs, ClaimTask(s), req[s].task \in {t, u}
      PROVE  Covered(t, u)'
  <2>1. req'[s].pc = "scan" /\ req'[s].task = req[s].task
    BY <1>1, <1>3 DEF ClaimTask, Goto, Requests
  <2> QED
    BY <1>3, <2>1 DEF Covered, Flagging, At
<1>4. ASSUME \A s \in Reqs : ClaimTask(s) => req[s].task \notin {t, u}
      PROVE  Covered(t, u)' \/ t \in cut' \/ u \in cut'
  <2>1. status[t] = "in_progress" /\ status[u] = "in_progress"
    BY <1>4, StatusMoves DEF OperatorMarksDone, SetStatus, TypeInv, TypeOK, BoardTypeOK
  <2>2. Covered(t, u) \/ t \in cut \/ u \in cut
    BY <2>1 DEF OverlapsFlagged
  <2>3. CASE t \in cut \/ u \in cut
    BY <1>4, <2>3, NotesKept
  <2>4. CASE Flagged(t, u)
    BY <1>4, <2>4, NotesKept DEF Flagged, Covered
  <2>5. ASSUME NEW r \in Reqs, Flagging(r, t, u)
        PROVE  Covered(t, u)' \/ t \in cut'
    BY <1>4, <2>1, <2>5, FlaggingKept DEF Covered
  <2>6. ASSUME NEW r \in Reqs, Flagging(r, u, t)
        PROVE  Covered(t, u)' \/ u \in cut'
    <3>1. Flagging(r, u, t)' \/ Flagged(u, t)' \/ u \in cut'
      BY <1>2, <1>4, <2>1, <2>6, FlaggingKept
    <3> QED
      BY <3>1 DEF Covered, Flagged
  <2> QED
    BY <2>2, <2>3, <2>4, <2>5, <2>6 DEF Covered
<1> QED
  BY <1>3, <1>4

\* Overlapping work in progress is flagged on both tasks, or being flagged,
\* unless a claim was cut short.
THEOREM OverlapsAreFlagged == Spec => []OverlapsFlagged
BY TypesHold, OverlapsInit, OverlapsStep, PTL DEF Spec

-----------------------------------------------------------------------------
(* Blockers. *)

\* What a claim has checked stays true of the past: a blocker found done may be
\* reopened, but it has been done.
BlockersInv ==
    /\ BlockersWereDone
    /\ \A t \in Tasks : status[t] = "done" => t \in finished
    /\ \A r \in Reqs : At(r, "update") => BlockedBy[req[r].task] \cap Tasks \subseteq finished

LEMMA BlockersInit == Init => BlockersInv
BY DEF Init, BoardInit, BlockersInv, BlockersWereDone, At, Idle, Request

LEMMA BlockersStep == TypeInv /\ BlockersInv /\ [Next]_vars => BlockersInv'
<1> SUFFICES ASSUME TypeInv, BlockersInv, [Next]_vars PROVE BlockersInv'
  OBVIOUS
<1>1. BusyReqs /\ BoardTypeOK /\ req \in [Reqs -> Requests]
  BY DEF TypeInv, TypeOK
<1>2. finished \subseteq finished'
  <2>1. finished' = finished \/ \E t \in Tasks : finished' = finished \cup {t}
    BY DEF Next, AliveNext, vars, histVars, ClaimStep, BeginClaim, CheckBlockers, ClaimTask,
           ClaimLost, ScanOverlaps, NoteSelf, NoteOther, SubmitStep, BeginSubmit, PatchApplies,
           PatchFails, NoteFailed, Push, PushRejected, OpenPr, OpenPrFails, OpenPrAnswerLost,
           RecordSubmit, BlockStep, BeginBlock, SetBlocked, TaskStep, Release,
           SweepNote, TtlPasses, HumanEndsPr, OperatorMarksDone, Sweep, SweepFails, Dies
  <2> QED
    BY <2>1
<1>3. ASSUME NEW t \in Tasks, status'[t] = "done" PROVE t \in finished'
  <2>1. CASE status[t] = "done"
    BY <1>2, <2>1 DEF BlockersInv
  <2>2. CASE OperatorMarksDone(t)
    BY <2>2 DEF OperatorMarksDone
  <2> QED
    BY <1>3, <2>1, <2>2, StatusMoves
<1>4. ASSUME NEW t \in Tasks, status'[t] = "in_progress"
      PROVE  BlockedBy[t] \cap Tasks \subseteq finished'
  <2>1. CASE status[t] = "in_progress"
    BY <1>2, <2>1 DEF BlockersInv, BlockersWereDone
  <2>2. ASSUME NEW s \in Reqs, ClaimTask(s), req[s].task = t
        PROVE  BlockedBy[t] \cap Tasks \subseteq finished'
    BY <1>2, <2>2 DEF ClaimTask, BlockersInv
  <2>3. ~OperatorMarksDone(t)
    BY <1>1, <1>4 DEF OperatorMarksDone, SetStatus, BoardTypeOK
  <2> QED
    BY <1>4, <2>1, <2>2, <2>3, StatusMoves
<1>5. ASSUME NEW r \in Reqs, CheckBlockers(r), req'[r].pc = "update"
      PROVE  BlockedBy[req'[r].task] \cap Tasks \subseteq finished'
  <2>1. OpenBlockers(req[r].task) = {} /\ req'[r].task = req[r].task
    BY <1>1, <1>5 DEF CheckBlockers, Goto, Answer, Idle, Request, Requests
  <2>2. \A b \in BlockedBy[req[r].task] \cap Tasks : b \in finished
    BY <2>1 DEF OpenBlockers, BlockersInv
  <2> QED
    BY <1>2, <2>1, <2>2
<1>6. ASSUME NEW r \in Reqs, req'[r].pc = "update", ~CheckBlockers(r)
      PROVE  req'[r] = req[r]
  BY <1>1, <1>6, ReqSteps DEF Dies, Answer, Idle, Request, SubmitPcs
<1>7. \A r \in Reqs : At(r, "update")' => BlockedBy[req'[r].task] \cap Tasks \subseteq finished'
  BY <1>2, <1>5, <1>6 DEF BlockersInv, At
<1> QED
  BY <1>3, <1>4, <1>7 DEF BlockersInv, BlockersWereDone

\* A task in progress has seen every task it waits for done.
THEOREM BlockersEnforced == Spec => []BlockersWereDone
<1>1. BlockersInv => BlockersWereDone
  BY DEF BlockersInv
<1> QED
  BY <1>1, TypesHold, BlockersInit, BlockersStep, PTL DEF Spec

-----------------------------------------------------------------------------
(* What makes ClaimEnforcesBlockers and OnlyHolderSubmits fail, and nothing else does. *)

\* No task that is done is released, blocked or submitted again.
NoReopening == \A t \in Tasks : status[t] = "done" => status'[t] = "done"

\* What a claim has checked, it still finds at its UPDATE.
CheckedInv == \A r \in Reqs : At(r, "update") => OpenBlockers(req[r].task) = {}

LEMMA CheckedStep ==
    TypeInv /\ CheckedInv /\ [Next]_vars /\ [NoReopening]_vars => CheckedInv'
<1> SUFFICES ASSUME TypeInv, CheckedInv, [Next]_vars, [NoReopening]_vars,
                    NEW r \in Reqs, At(r, "update")'
             PROVE  OpenBlockers(req[r].task)' = {}
  BY DEF CheckedInv
<1>1. req \in [Reqs -> Requests]
  BY DEF TypeInv, TypeOK
<1>2. \A t \in Tasks : status[t] = "done" => status'[t] = "done"
  BY DEF NoReopening, vars
<1>3. OpenBlockers(req[r].task) = {} /\ req'[r].task = req[r].task
  <2>1. CASE req'[r] = req[r]
    BY <2>1 DEF CheckedInv, At
  <2>2. CASE req'[r] # req[r]
    <3>1. CheckBlockers(r)
      BY <1>1, <2>2, ReqSteps DEF At, Dies, Answer, Idle, Request, SubmitPcs
    <3> QED
      BY <1>1, <3>1 DEF CheckBlockers, At, Goto, Answer, Idle, Request, Requests
  <2> QED
    BY <2>1, <2>2
<1> QED
  BY <1>2, <1>3 DEF OpenBlockers

\* claim_task enforces blocked_by after all where no done task is reopened: the other
\* requests, deaths and sweeps between its SELECT and its UPDATE do not matter.  So the
\* reopening is the one cause of what BlockerReopens shows.  (board.py claim_task)
THEOREM BlockersHoldUnreopened == Spec /\ [][NoReopening]_vars => ClaimEnforcesBlockers
<1>1. Init => CheckedInv
  BY DEF Init, CheckedInv, At, Idle, Request
<1>2. TypeInv /\ CheckedInv /\ [Next]_vars
        => [\A t \in Tasks : status[t] = "backlog" /\ status'[t] = "in_progress"
                             => OpenBlockers(t) = {}]_vars
  <2> SUFFICES ASSUME TypeInv, CheckedInv, [Next]_vars, NEW t \in Tasks,
                      status[t] = "backlog", status'[t] = "in_progress"
               PROVE  OpenBlockers(t) = {}
    OBVIOUS
  <2>1. ~OperatorMarksDone(t)
    BY DEF OperatorMarksDone, SetStatus, TypeInv, TypeOK, BoardTypeOK
  <2>2. PICK s \in Reqs : ClaimTask(s) /\ req[s].task = t
    BY <2>1, StatusMoves
  <2> QED
    BY <2>2 DEF ClaimTask, CheckedInv
<1> QED
  BY <1>1, <1>2, TypesHold, CheckedStep, PTL DEF Spec, ClaimEnforcesBlockers

\* No task is claimed by one account while a submission of it by another is under way.
NoOvertaking ==
    \A r, s \in Reqs : ClaimTask(s) /\ req[r].pc \in SubmitPcs /\ req[r].task = req[s].task
                       => req[r].acct = req[s].acct

\* What the REST handler has compared still holds while the submission goes on.
HolderInv ==
    \A r \in Reqs : req[r].pc \in SubmitPcs => assignee[req[r].task] \in {req[r].acct, None}

\* Only a claim gives a task to an account.
LEMMA HolderMoves ==
    ASSUME TypeInv, [Next]_vars, NEW t \in Tasks, assignee'[t] # assignee[t]
    PROVE  \/ assignee'[t] = None
           \/ \E s \in Reqs : ClaimTask(s) /\ req[s].task = t /\ assignee'[t] = req[s].acct
<1>1. BusyReqs /\ BoardTypeOK
  BY DEF TypeInv, TypeOK
<1>2. ASSUME NEW r \in Reqs, ClaimStep(r)
      PROVE  ClaimTask(r) /\ req[r].task = t /\ assignee'[t] = req[r].acct
  <2>1. ClaimTask(r)
    BY <1>2
    DEF ClaimStep, BeginClaim, CheckBlockers, ClaimLost, ScanOverlaps, NoteSelf, NoteOther,
        AddConflictNote, boardVars
  <2> QED
    BY <1>1, <2>1 DEF ClaimTask, ClaimRow, BoardTypeOK
<1>3. ASSUME NEW r \in Reqs, SubmitStep(r) \/ Dies(r) PROVE FALSE
  BY <1>3
  DEF SubmitStep, BeginSubmit, PatchApplies, PatchFails, NoteFailed, Push, PushRejected, OpenPr,
      OpenPrFails, OpenPrAnswerLost, RecordSubmit, SubmitRow, Dies, boardVars
<1>4. ASSUME NEW r \in Reqs, BlockStep(r) PROVE FALSE
  BY <1>1, <1>4 DEF BlockStep, BeginBlock, SetBlocked, SetStatus, boardVars
<1>5. ASSUME NEW v \in Tasks, TaskStep(v) PROVE assignee'[t] = None
  BY <1>1, <1>5
  DEF TaskStep, Release, SweepNote, TtlPasses, ClaimAges, HumanEndsPr, OperatorMarksDone, SetStatus,
      BoardTypeOK, boardVars
<1>6. ASSUME Sweep \/ SweepFails \/ UNCHANGED vars PROVE assignee'[t] = None
  BY <1>6 DEF Sweep, ReleaseRows, SweepFails, vars, boardVars
<1> QED
  BY <1>2, <1>3, <1>4, <1>5, <1>6 DEF Next, AliveNext

LEMMA HolderStep ==
    ASSUME "mcp" \notin Surfaces, TypeInv, HolderInv, [Next]_vars, [NoOvertaking]_vars
    PROVE  HolderInv'
<1> SUFFICES ASSUME NEW r \in Reqs, req'[r].pc \in SubmitPcs
             PROVE  assignee'[req'[r].task] \in {req'[r].acct, None}
  BY DEF HolderInv
<1>1. req \in [Reqs -> Requests] /\ BusyReqs
  BY DEF TypeInv, TypeOK
<1>2. CASE req[r].pc \in SubmitPcs /\ req'[r].task = req[r].task /\ req'[r].acct = req[r].acct
  <2>1. req[r].task \in Tasks /\ assignee[req[r].task] \in {req[r].acct, None}
    BY <1>1, <1>2 DEF HolderInv, BusyReqs, At, SubmitPcs
  <2>2. ASSUME NEW s \in Reqs, ClaimTask(s), req[s].task = req[r].task
        PROVE  req[s].acct = req[r].acct
    <3>1. req' # req
      BY <1>1, <2>2 DEF ClaimTask, At, Goto, Requests
    <3> QED
      BY <1>2, <2>2, <3>1 DEF NoOvertaking, vars
  <2> QED
    BY <1>2, <2>1, <2>2, HolderMoves
<1>3. CASE ~(req[r].pc \in SubmitPcs /\ req'[r].task = req[r].task /\ req'[r].acct = req[r].acct)
  <2>1. req'[r] # req[r]
    BY <1>3
  <2>2. SubmitStep(r)
    BY <1>1, <2>1, ReqSteps DEF Dies, Answer, Idle, Request, SubmitPcs
  <2>3. \E a \in Accounts, t \in Tasks : BeginSubmit(r, a, t)
    BY <1>1, <1>3, <2>2
    DEF SubmitStep, PatchApplies, PatchFails, NoteFailed, Push, PushRejected, OpenPr,
        OpenPrFails, OpenPrAnswerLost, RecordSubmit, Goto, Answer, Idle, Request, Requests, At,
        SubmitPcs
  <2>4. PICK a \in Accounts, t \in Tasks : BeginSubmit(r, a, t)
    BY <2>3
  <2>5. req'[r].acct = a /\ req'[r].task = t /\ assignee' = assignee
    BY <1>1, <2>4 DEF BeginSubmit, Start, Request, boardVars
  <2> QED
    BY <2>4, <2>5 DEF BeginSubmit, MaySubmit
<1> QED
  BY <1>2, <1>3

\* Over REST a task goes to review from its holder, or from nobody, unless the claim of
\* another has overtaken the submission: what LateSubmit shows needs that, or MCP, and
\* no death, sweep, release or retry brings it about.  (agent.py submit)
THEOREM HoldersSubmitUnovertaken ==
    ASSUME "mcp" \notin Surfaces
    PROVE  Spec /\ [][NoOvertaking]_vars => OnlyHolderSubmits
<1>1. Init => HolderInv
  BY DEF Init, HolderInv, Idle, Request, SubmitPcs
<1>2. HolderInv => \A r \in Reqs : RecordSubmit(r) => assignee[req[r].task] \in {req[r].acct, None}
  BY DEF HolderInv, RecordSubmit, At, SubmitPcs
<1>3. TypeInv /\ HolderInv /\ [Next]_vars /\ [NoOvertaking]_vars => HolderInv'
  BY HolderStep
<1> QED
  BY <1>1, <1>2, <1>3, TypesHold, PTL DEF Spec, OnlyHolderSubmits

-----------------------------------------------------------------------------
(* Claims and open PRs over time. *)

\* Until its task leaves in_progress a claim only gets older.  A sweep releases every
\* stale one, and the rows it has still to write notes for only get fewer.
ClaimsOnlyAge ==
    /\ \A t \in Tasks : status[t] = "in_progress" =>
          \/ status'[t] # "in_progress"
          \/ assignee'[t] = assignee[t] /\ claimed_at'[t] = claimed_at[t]
          \/ assignee'[t] = assignee[t] /\ claimed_at[t] = "fresh" /\ claimed_at'[t] = "stale"
    /\ Sweep => \A t \in StaleClaims :
          status'[t] = "backlog" /\ assignee'[t] = None /\ t \in swept'
    /\ swept' \subseteq swept \/ Sweep

\* The safety half of StaleClaimFreed: nothing a worker can do, notes and submissions
\* that fail among them, makes a claim younger, and no stale one escapes the next sweep.
\* (board.py release_stale, main.py _stale_claim_sweeper)
THEOREM ClaimsAge == Spec => [][ClaimsOnlyAge]_vars
<1>1. TypeInv /\ [Next]_vars => ClaimsOnlyAge
  <2> SUFFICES ASSUME TypeInv, [Next]_vars PROVE ClaimsOnlyAge
    OBVIOUS
  <2>1. BoardTypeOK
    BY DEF TypeInv, TypeOK
  <2>2. ASSUME NEW t \in Tasks, status[t] = "in_progress"
        PROVE  \/ status'[t] # "in_progress"
               \/ assignee'[t] = assignee[t] /\ claimed_at'[t] = claimed_at[t]
               \/ assignee'[t] = assignee[t] /\ claimed_at[t] = "fresh" /\ claimed_at'[t] = "stale"
    <3>1. RowsMove
      BY StepOnRows
    <3>2. ASSUME NEW u \in Tasks, NEW a \in Accounts, ClaimRow(u, a)
          PROVE  assignee'[t] = assignee[t] /\ claimed_at'[t] = claimed_at[t]
      BY <2>1, <2>2, <3>2 DEF ClaimRow, BoardTypeOK
    <3>3. ASSUME NEW u \in Tasks, NEW s \in Statuses \ {"in_progress"}, SetStatus(u, s)
          PROVE  \/ status'[t] # "in_progress"
                 \/ assignee'[t] = assignee[t] /\ claimed_at'[t] = claimed_at[t]
      BY <2>1, <2>2, <3>3 DEF SetStatus, BoardTypeOK
    <3>4. ASSUME NEW u \in Tasks, ClaimAges(u)
          PROVE  \/ assignee'[t] = assignee[t] /\ claimed_at'[t] = claimed_at[t]
                 \/ assignee'[t] = assignee[t] /\ claimed_at[t] = "fresh" /\ claimed_at'[t] = "stale"
      BY <2>1, <3>4 DEF ClaimAges, BoardTypeOK
    <3>5. ASSUME NEW u \in Tasks, SubmitRow(u)
          PROVE  assignee'[t] = assignee[t] /\ claimed_at'[t] = claimed_at[t]
      BY <3>5 DEF SubmitRow
    <3>6. CASE ReleaseRows(StaleClaims)
      BY <2>1, <2>2, <3>6 DEF ReleaseRows, BoardTypeOK
    <3> QED
      BY <3>1, <3>2, <3>3, <3>4, <3>5, <3>6 DEF RowsMove
  <2>3. Sweep => \A t \in StaleClaims :
          status'[t] = "backlog" /\ assignee'[t] = None /\ t \in swept'
    BY DEF Sweep, ReleaseRows, StaleClaims
  <2>4. swept' \subseteq swept \/ Sweep
    BY DEF Next, AliveNext, vars, apiVars, ClaimStep, BeginClaim, CheckBlockers, ClaimTask,
       ClaimLost, ScanOverlaps, NoteSelf, NoteOther, SubmitStep, BeginSubmit, PatchApplies,
       PatchFails, NoteFailed, Push, PushRejected, OpenPr, OpenPrFails, OpenPrAnswerLost,
       RecordSubmit, BlockStep, BeginBlock, SetBlocked, TaskStep, Release,
       SweepNote, TtlPasses, HumanEndsPr, OperatorMarksDone, SweepFails, Dies
  <2> QED
    BY <2>2, <2>3, <2>4 DEF ClaimsOnlyAge
<1> QED
  BY <1>1, TypesHold, PTL DEF Spec

\* An open PR stays the submission's that opened it, and shows the same diff.
OpenPrsStand ==
    \A t \in Tasks : openPr[t] # None /\ openPr'[t] # None =>
        openPr'[t] = openPr[t] /\ branch'[t] = branch[t]

\* A second submission of a task, by whomever and over whichever surface, neither
\* replaces an open PR nor adds to it.  (submit.py submit_diff)
THEOREM OpenPrsLast == Spec => [][OpenPrsStand]_vars
<1>1. TypeInv /\ PrInv /\ [Next]_vars => OpenPrsStand
  <2> SUFFICES ASSUME TypeInv, PrInv, [Next]_vars, NEW t \in Tasks,
                      openPr[t] # None, openPr'[t] # None
               PROVE  openPr'[t] = openPr[t] /\ branch'[t] = branch[t]
    BY DEF OpenPrsStand
  <2>1. branch[t] # None
    BY DEF PrInv, PrHeadIntact
  <2>2. branch \in [Tasks -> Accounts \cup {None}] /\ openPr \in [Tasks -> Accounts \cup {None}]
    BY DEF TypeInv, TypeOK
  <2>3. ASSUME NEW r \in Reqs, SubmitStep(r)
        PROVE  openPr'[t] = openPr[t] /\ branch'[t] = branch[t]
    <3>1. CASE Push(r)
      BY <2>1, <2>2, <3>1 DEF Push
    <3>2. CASE OpenPr(r) \/ OpenPrAnswerLost(r)
      BY <2>2, <3>2 DEF OpenPr, OpenPrAnswerLost
    <3>3. CASE ~(Push(r) \/ OpenPr(r) \/ OpenPrAnswerLost(r))
      BY <2>3, <3>3
      DEF SubmitStep, BeginSubmit, PatchApplies, PatchFails, NoteFailed, PushRejected,
          OpenPrFails, RecordSubmit
    <3> QED
      BY <3>1, <3>2, <3>3
  <2>4. ASSUME NEW r \in Reqs, ClaimStep(r) \/ BlockStep(r) \/ Dies(r)
        PROVE  UNCHANGED <<branch, openPr>>
    BY <2>4
    DEF ClaimStep, BeginClaim, CheckBlockers, ClaimTask, ClaimLost, ScanOverlaps, NoteSelf,
        NoteOther, BlockStep, BeginBlock, SetBlocked, Dies
  <2>5. ASSUME NEW u \in Tasks, TaskStep(u)
        PROVE  openPr'[t] = openPr[t] /\ branch'[t] = branch[t]
    BY <2>2, <2>5
    DEF TaskStep, Release, SweepNote, TtlPasses, HumanEndsPr, OperatorMarksDone, apiVars
  <2>6. ASSUME Sweep \/ SweepFails \/ UNCHANGED vars PROVE UNCHANGED <<branch, openPr>>
    BY <2>6 DEF Sweep, SweepFails, vars
  <2> QED
    BY <2>3, <2>4, <2>5, <2>6 DEF Next, AliveNext
<1> QED
  BY <1>1, TypesHold, PrInvHolds, PTL DEF Spec
=============================================================================
