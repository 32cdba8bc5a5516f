----------------------------- MODULE EngineProofs -----------------------------
(***************************************************************************)
(* Proofs about Engine for any runs, workers, branches and faults.         *)
(***************************************************************************)
EXTENDS Engine, SequenceTheorems, TLAPS

-----------------------------------------------------------------------------
(* Types. *)

LEMMA WorkType ==
    ASSUME NEW p \in Pcs, NEW j \in Jobs \cup {None}, NEW s \in Final \cup {None}
    PROVE  Work(p, j, s) \in Works
BY DEF Work, Works

LEMMA GotoType ==
    ASSUME TypeOK, NEW w \in Workers, NEW p \in Pcs, Goto(w, p)
    PROVE  work' \in [Workers -> Works]
<1>1. work[w] \in Works
  BY DEF TypeOK
<1>2. Work(p, work[w].job, work[w].result) \in Works
  BY <1>1, WorkType DEF Works
<1> QED
  BY <1>2 DEF TypeOK, Goto

LEMMA GotoWithType ==
    ASSUME TypeOK, NEW w \in Workers, NEW p \in Pcs, NEW s \in Final, GotoWith(w, p, s)
    PROVE  work' \in [Workers -> Works]
<1>1. work[w] \in Works
  BY DEF TypeOK
<1>2. Work(p, work[w].job, s) \in Works
  BY <1>1, WorkType DEF Works
<1> QED
  BY <1>2 DEF TypeOK, GotoWith

LEMMA DoneType ==
    ASSUME TypeOK, NEW w \in Workers, NEW f \in {"ended", "raised"}, Done(w, f)
    PROVE  /\ work' \in [Workers -> Works]
           /\ fate' \in [Jobs -> {"new", "accepted", "ended", "raised", "stopped"}]
<1>1. Idle \in Works
  BY WorkType DEF Idle, Pcs
<1> QED
  BY <1>1 DEF TypeOK, Done

\* A worker that is not idle has a job, and an idle one has none.
BusyHasJob ==
    \A w \in Workers : IF work[w].pc = "idle" THEN work[w] = Idle ELSE work[w].job \in Jobs

TypeInv == TypeOK /\ BusyHasJob

\* What each kind of update of work keeps.
LEMMA BusyKept ==
    ASSUME TypeInv, NEW w \in Workers,
           \/ \E p \in Pcs \ {"idle"} : Goto(w, p) /\ work[w].pc # "idle"
           \/ \E p \in Pcs \ {"idle"}, s \in Final : GotoWith(w, p, s) /\ work[w].pc # "idle"
           \/ \E j \in Jobs : work' = [work EXCEPT ![w] = Work("create", j, None)]
           \/ work' = [work EXCEPT ![w] = Idle]
    PROVE  BusyHasJob'
BY DEF TypeInv, TypeOK, BusyHasJob, Goto, GotoWith, Work, Idle

LEMMA TypeInvInit == Init => TypeInv
<1> SUFFICES ASSUME Init PROVE TypeInv
  OBVIOUS
<1>1. Idle \in Works
  BY WorkType DEF Idle, Pcs
<1>2. up \in BOOLEAN /\ rowPr \in [Jobs -> BOOLEAN]
  BY DEF Init
<1>3. queue \in Seq(Jobs)
  BY DEF Init
<1>4. TypeOK
  BY <1>1, <1>2, <1>3 DEF Init, TypeOK
<1>5. BusyHasJob
  BY DEF Init, BusyHasJob, Idle, Work
<1> QED
  BY <1>4, <1>5 DEF TypeInv

LEMMA TakeType == ASSUME TypeInv, NEW w \in Workers, Take(w) PROVE TypeInv'
<1>1. Head(queue) \in Jobs /\ Tail(queue) \in Seq(Jobs)
  BY DEF TypeInv, TypeOK, Take
<1>2. Work("create", Head(queue), None) \in Works
  BY <1>1, WorkType DEF Pcs
<1>3. work' \in [Workers -> Works]
  BY <1>2 DEF TypeInv, TypeOK, Take
<1>4. BusyHasJob'
  BY <1>1, BusyKept DEF Take
<1> QED
  BY <1>1, <1>3, <1>4 DEF TypeInv, TypeOK, Take, rowVars, gitVars

LEMMA StepType == ASSUME TypeInv, NEW w \in Workers, RunStep(w) PROVE TypeInv'
<1> USE DEF At, rowVars, gitVars, SetRow
<1>0. TypeOK /\ work[w] \in Works
  BY DEF TypeInv, TypeOK
<1>1. CASE CreateRow(w)
  <2>1. Goto(w, "graph") /\ work[w].job \in Jobs
    BY <1>1 DEF CreateRow, TypeInv, BusyHasJob
  <2>2. BusyHasJob'
    BY <1>1, <2>1, BusyKept DEF CreateRow, Pcs
  <2> QED
    BY <1>0, <1>1, <2>1, <2>2, GotoType DEF CreateRow, TypeInv, TypeOK, Pcs
<1>2. CASE CreateFails(w) \/ FailRowFails(w) \/ Report(w)
  <2>1. Done(w, "raised") /\ work[w].job \in Jobs
    BY <1>2 DEF CreateFails, FailRowFails, Report, TypeInv, BusyHasJob
  <2>2. BusyHasJob'
    BY <2>1, BusyKept DEF Done
  <2> QED
    BY <1>0, <1>2, <2>1, <2>2, DoneType DEF CreateFails, FailRowFails, Report, TypeInv, TypeOK
<1>3. CASE GraphEnds(w)
  <2>1. PICK s \in Final : GotoWith(w, "mirror", s)
    BY <1>3 DEF GraphEnds, Final
  <2>2. BusyHasJob'
    BY <1>3, <2>1, BusyKept DEF GraphEnds, Pcs
  <2> QED
    BY <1>0, <1>3, <2>1, <2>2, GotoWithType DEF GraphEnds, TypeInv, TypeOK, Pcs
<1>4. CASE Push(w)
  <2>1. Goto(w, "open_pr") /\ work[w].job \in Jobs
    BY <1>4 DEF Push, TypeInv, BusyHasJob
  <2>2. BusyHasJob'
    BY <1>4, <2>1, BusyKept DEF Push, Pcs
  <2> QED
    BY <1>0, <1>4, <2>1, <2>2, GotoType DEF Push, TypeInv, TypeOK, Pcs
<1>5. CASE PushRejected(w) \/ Raises(w)
  <2>1. Goto(w, "fail_row")
    BY <1>5 DEF PushRejected, Raises
  <2>2. BusyHasJob'
    BY <1>5, <2>1, BusyKept DEF PushRejected, Raises, Pcs
  <2> QED
    BY <1>0, <1>5, <2>1, <2>2, GotoType DEF PushRejected, Raises, TypeInv, TypeOK, Pcs
<1>6. CASE OpenPr(w)
  <2>1. work[w].job \in Jobs /\ work[w].pc # "idle"
    BY <1>6 DEF OpenPr, TypeInv, BusyHasJob
  <2>2. GotoWith(w, "mirror", "completed") \/ Goto(w, "fail_row")
    BY <1>6 DEF OpenPr
  <2>3. BusyHasJob'
    BY <2>1, <2>2, BusyKept DEF Pcs, Final
  <2>4. work' \in [Workers -> Works]
    BY <1>0, <2>2, GotoType, GotoWithType DEF Pcs, Final
  <2> QED
    BY <1>0, <1>6, <2>1, <2>3, <2>4 DEF OpenPr, TypeInv, TypeOK
<1>7. CASE Mirror(w)
  <2>1. Goto(w, "finish") /\ work[w].job \in Jobs
    BY <1>7 DEF Mirror, TypeInv, BusyHasJob
  <2>2. BusyHasJob'
    BY <1>7, <2>1, BusyKept DEF Mirror, Pcs
  <2>3. work' \in [Workers -> Works] /\ row' \in [Jobs -> Final \cup {None, "running"}]
    BY <1>0, <1>7, <2>1, GotoType DEF Mirror, TypeOK, Works, Pcs
  <2>4. rowPr' \in [Jobs -> BOOLEAN]
    BY <1>0, <1>7, Zenon DEF Mirror, TypeOK
  <2> QED
    BY <1>0, <1>7, <2>2, <2>3, <2>4 DEF Mirror, TypeInv, TypeOK
<1>8. CASE Finish(w)
  <2>1. Done(w, "ended") /\ work[w].job \in Jobs
    BY <1>8 DEF Finish, TypeInv, BusyHasJob
  <2>2. BusyHasJob'
    BY <2>1, BusyKept DEF Done
  <2>3. row' \in [Jobs -> Final \cup {None, "running"}]
    BY <1>0, <1>8 DEF Finish, TypeOK, Works
  <2> QED
    BY <1>0, <1>8, <2>1, <2>2, <2>3, DoneType DEF Finish, TypeInv, TypeOK
<1>9. CASE FailRow(w)
  <2>1. Goto(w, "report") /\ work[w].job \in Jobs
    BY <1>9 DEF FailRow, TypeInv, BusyHasJob
  <2>2. BusyHasJob'
    BY <1>9, <2>1, BusyKept DEF FailRow, Pcs
  <2> QED
    BY <1>0, <1>9, <2>1, <2>2, GotoType DEF FailRow, TypeInv, TypeOK, Pcs, Final
<1> QED
  BY <1>1, <1>2, <1>3, <1>4, <1>5, <1>6, <1>7, <1>8, <1>9 DEF RunStep

LEMMA TypeInvStep == TypeInv /\ [Next]_vars => TypeInv'
<1> SUFFICES ASSUME TypeInv, [Next]_vars PROVE TypeInv'
  OBVIOUS
<1> USE DEF rowVars, gitVars
<1>1. CASE \E j \in Jobs : Trigger(j)
  <2>1. queue' \in Seq(Jobs)
    BY <1>1 DEF Trigger, TypeInv, TypeOK
  <2> QED
    BY <1>1, <2>1 DEF Trigger, TypeInv, TypeOK, BusyHasJob
<1>2. CASE \E w \in Workers : Take(w) \/ RunStep(w)
  BY <1>2, TakeType, StepType
<1>3. CASE Stop
  <2>1. Idle \in Works
    BY WorkType DEF Idle, Pcs
  <2>2. work' \in [Workers -> Works] /\ BusyHasJob'
    BY <1>3, <2>1 DEF Stop, BusyHasJob, Idle, Work
  <2>3. queue' \in Seq(Jobs)
    BY <1>3 DEF Stop
  <2>4. fate' \in [Jobs -> {"new", "accepted", "ended", "raised", "stopped"}]
    BY <1>3 DEF Stop, TypeInv, TypeOK
  <2> QED
    BY <1>3, <2>2, <2>3, <2>4 DEF Stop, TypeInv, TypeOK
<1>4. CASE Boot
  BY <1>4 DEF Boot, TypeInv, TypeOK, BusyHasJob
<1>5. CASE \E b \in Branches : HumanEndsPr(b)
  <2>1. branch' \in [Branches -> Jobs \cup {None}] /\ openPr' \in [Branches -> Jobs \cup {None}]
    BY <1>5 DEF HumanEndsPr, TypeInv, TypeOK
  <2> QED
    BY <1>5, <2>1 DEF HumanEndsPr, TypeInv, TypeOK, BusyHasJob
<1>6. CASE UNCHANGED vars
  BY <1>6 DEF vars, TypeInv, TypeOK, BusyHasJob
<1> QED
  BY <1>1, <1>2, <1>3, <1>4, <1>5, <1>6 DEF Next

LEMMA TypesHold == Spec => []TypeInv
BY TypeInvInit, TypeInvStep, PTL DEF Spec

\* Every variable of the engine keeps its type.
THEOREM TypeCorrect == Spec => []TypeOK
<1>1. TypeInv => TypeOK
  BY DEF TypeInv
<1> QED
  BY <1>1, TypesHold, PTL

-----------------------------------------------------------------------------
(* Work is conserved. *)

LEMMA BusyJobs ==
    ASSUME TypeInv, NEW w \in Workers
    PROVE  work[w].job \in Jobs \cup {None} /\ (work[w].job = None <=> work[w].pc = "idle")
BY EngineAssumption DEF TypeInv, TypeOK, Works, BusyHasJob, Idle, Work

\* A step in which no job changes hands.
LEMMA NoHandOver ==
    ASSUME WorkConserved, UNCHANGED <<queue, fate>>,
           \A w \in Workers : work'[w].job = work[w].job
    PROVE  WorkConserved'
<1>1. Queued' = Queued /\ Worked' = Worked
  BY DEF Queued, Worked
<1> QED
  BY <1>1 DEF WorkConserved

LEMMA GotoKeepsJobs ==
    ASSUME TypeInv, NEW w \in Workers, NEW p, NEW s,
           Goto(w, p) \/ GotoWith(w, p, s)
    PROVE  \A v \in Workers : work'[v].job = work[v].job
BY DEF TypeInv, TypeOK, Goto, GotoWith, Work

LEMMA TakeConserves ==
    ASSUME TypeInv, WorkConserved, NEW w \in Workers, Take(w)
    PROVE  WorkConserved'
<1> DEFINE h == Head(queue)
<1>1. /\ queue \in Seq(Jobs) /\ queue # <<>> /\ queue' = Tail(queue)
      /\ h \in Jobs /\ h = queue[1] /\ Len(queue) \in Nat /\ Len(queue) >= 1
  BY DEF Take, TypeInv, TypeOK
<1>2. Len(queue') = Len(queue) - 1 /\ \A n \in 1..Len(queue') : queue'[n] = queue[n + 1]
  BY <1>1
<1>3. /\ work[w].job = None /\ work'[w].job = h
      /\ \A v \in Workers : v # w => work'[v].job = work[v].job
  BY DEF Take, At, TypeInv, TypeOK, BusyHasJob, Idle, Work
<1>4. Queued' = Queued \ {h}
  <2>1. ASSUME NEW n \in 1..Len(queue') PROVE queue'[n] \in Queued \ {h}
    BY <1>1, <1>2 DEF Queued, WorkConserved
  <2>2. ASSUME NEW m \in 1..Len(queue), queue[m] # h PROVE queue[m] \in Queued'
    <3>1. m - 1 \in 1..Len(queue') /\ queue'[m - 1] = queue[m]
      BY <1>1, <1>2, <2>2
    <3> QED
      BY <3>1 DEF Queued
  <2> QED
    BY <2>1, <2>2 DEF Queued
<1>5. Worked' = Worked \cup {h} /\ h \in Queued
  BY <1>1, <1>3, EngineAssumption DEF Worked, Queued
<1>6. \A m, n \in 1..Len(queue') : queue'[m] = queue'[n] => m = n
  BY <1>1, <1>2 DEF WorkConserved
<1>7. \A u, v \in Workers : work'[u].job = work'[v].job /\ work'[u].job # None => u = v
  <2>1. \A v \in Workers : work[v].job # h
    BY <1>5, <1>1, EngineAssumption DEF WorkConserved, Worked
  <2> QED
    BY <1>3, <2>1 DEF WorkConserved
<1>8. UNCHANGED fate
  BY DEF Take
<1>9. h \notin Worked
  BY <1>5 DEF WorkConserved
<1> QED
  BY <1>4, <1>5, <1>6, <1>7, <1>8, <1>9 DEF WorkConserved

LEMMA DoneConserves ==
    ASSUME TypeInv, WorkConserved, NEW w \in Workers, NEW f \in {"ended", "raised"},
           work[w].pc # "idle", Done(w, f), UNCHANGED queue
    PROVE  WorkConserved'
<1> DEFINE j == work[w].job
<1>1. j \in Jobs /\ j # None
  BY EngineAssumption DEF TypeInv, BusyHasJob
<1>2. /\ work'[w].job = None
      /\ \A v \in Workers : v # w => work'[v].job = work[v].job
  BY DEF Done, TypeInv, TypeOK, Idle, Work
<1>7. Queued' = Queued /\ j \in Worked
  BY <1>1 DEF Queued, Worked
<1>3. Queued' = Queued /\ j \in Worked /\ j \notin Queued
  BY <1>7 DEF WorkConserved
<1>4. Worked' = Worked \ {j}
  BY <1>1, <1>2 DEF Worked, WorkConserved
<1>5. {i \in Jobs : fate'[i] = "accepted"} = {i \in Jobs : fate[i] = "accepted"} \ {j}
  BY <1>1 DEF Done, TypeInv, TypeOK
<1>6. \A u, v \in Workers : work'[u].job = work'[v].job /\ work'[u].job # None => u = v
  BY <1>2 DEF WorkConserved
<1> QED
  BY <1>3, <1>4, <1>5, <1>6 DEF WorkConserved

LEMMA TriggerConserves ==
    ASSUME TypeInv, WorkConserved, NEW j \in Jobs, Trigger(j)
    PROVE  WorkConserved'
<1>1. /\ queue \in Seq(Jobs) /\ Len(queue) \in Nat /\ Len(queue') = Len(queue) + 1
      /\ queue'[Len(queue) + 1] = j
      /\ \A n \in 1..Len(queue) : queue'[n] = queue[n]
  BY DEF Trigger, TypeInv, TypeOK
<1>2. Queued' = Queued \cup {j}
  BY <1>1 DEF Queued
<1>3. j \notin Queued /\ j \notin Worked /\ Worked' = Worked
  BY DEF WorkConserved, Trigger, Worked
<1>4. {i \in Jobs : fate'[i] = "accepted"} = {i \in Jobs : fate[i] = "accepted"} \cup {j}
  BY DEF Trigger, TypeInv, TypeOK
<1>5. \A n \in 1..Len(queue) : queue[n] # j
  BY <1>3 DEF Queued
<1>6. \A m, n \in 1..Len(queue') : queue'[m] = queue'[n] => m = n
  BY <1>1, <1>5 DEF WorkConserved
<1>7. \A u, v \in Workers : work'[u].job = work'[v].job /\ work'[u].job # None => u = v
  BY DEF WorkConserved, Trigger
<1> QED
  BY <1>2, <1>3, <1>4, <1>6, <1>7 DEF WorkConserved

LEMMA StopConserves == ASSUME TypeInv, Stop PROVE WorkConserved'
<1>1. Queued' = {} /\ Worked' = {} /\ Len(queue') = 0
  BY DEF Stop, Queued, Worked, Idle, Work
<1>2. \A j \in Jobs : fate'[j] # "accepted"
  BY DEF Stop, TypeInv, TypeOK
<1>3. \A w \in Workers : work'[w].job = None
  BY DEF Stop, Idle, Work
<1> QED
  BY <1>1, <1>2, <1>3 DEF WorkConserved

LEMMA StepConserves ==
    ASSUME TypeInv, WorkConserved, NEW w \in Workers, RunStep(w)
    PROVE  WorkConserved'
<1>1. CASE CreateFails(w) \/ Finish(w) \/ FailRowFails(w) \/ Report(w)
  <2>1. work[w].pc # "idle" /\ UNCHANGED queue /\ (Done(w, "raised") \/ Done(w, "ended"))
    BY <1>1 DEF CreateFails, Finish, FailRowFails, Report, At
  <2> QED
    BY <2>1, DoneConserves
<1>2. CASE \/ CreateRow(w) \/ GraphEnds(w) \/ Push(w) \/ PushRejected(w)
           \/ OpenPr(w) \/ Mirror(w) \/ Raises(w) \/ FailRow(w)
  <2>1. UNCHANGED <<queue, fate>>
    BY <1>2 DEF CreateRow, GraphEnds, Push, PushRejected, OpenPr, Mirror, Raises, FailRow
  <2>2. \E p, s : Goto(w, p) \/ GotoWith(w, p, s)
    BY <1>2 DEF CreateRow, GraphEnds, Push, PushRejected, OpenPr, Mirror, Raises, FailRow
  <2>3. \A v \in Workers : work'[v].job = work[v].job
    BY <2>2, GotoKeepsJobs
  <2> QED
    BY <2>1, <2>3, NoHandOver
<1> QED
  BY <1>1, <1>2 DEF RunStep

\* No run is lost in the queue or between workers, and none is run twice.
THEOREM RunsConserved == Spec => []WorkConserved
<1>1. Init => WorkConserved
  BY DEF Init, WorkConserved, Queued, Worked, Idle, Work
<1>2. TypeInv /\ WorkConserved /\ [Next]_vars => WorkConserved'
  <2> SUFFICES ASSUME TypeInv, WorkConserved, [Next]_vars PROVE WorkConserved'
    OBVIOUS
  <2>1. CASE \E j \in Jobs : Trigger(j)
    BY <2>1, TriggerConserves
  <2>2. CASE \E w \in Workers : Take(w) \/ RunStep(w)
    BY <2>2, TakeConserves, StepConserves
  <2>3. CASE Stop
    BY <2>3, StopConserves
  <2>4. CASE Boot \/ (\E b \in Branches : HumanEndsPr(b)) \/ UNCHANGED vars
    BY <2>4, NoHandOver DEF Boot, HumanEndsPr, vars
  <2> QED
    BY <2>1, <2>2, <2>3, <2>4 DEF Next
<1> QED
  BY <1>1, <1>2, TypesHold, PTL DEF Spec

-----------------------------------------------------------------------------
(* Branches and pull requests. *)

\* A run about to open its PR owns the tip of its branch, which has no open PR.
PrInv ==
    /\ PrHeadIntact
    /\ \A w \in Workers : work[w].pc = "open_pr" =>
          /\ branch[BranchOf[work[w].job]] = work[w].job
          /\ openPr[BranchOf[work[w].job]] = None

\* A step that changes no branch and lets no worker reach open_pr.
LEMMA GitUntouched ==
    ASSUME PrInv, UNCHANGED gitVars,
           \A w \in Workers : work'[w].pc = "open_pr" => work'[w] = work[w]
    PROVE  PrInv'
BY DEF PrInv, PrHeadIntact, gitVars

LEMMA GotoElsewhere ==
    ASSUME TypeInv, NEW w \in Workers, NEW p \in Pcs \ {"open_pr"}, NEW s,
           \/ Goto(w, p) \/ GotoWith(w, p, s)
           \/ work' = [work EXCEPT ![w] = Idle]
           \/ work' = [work EXCEPT ![w] = Work("create", s, None)]
    PROVE  \A v \in Workers : work'[v].pc = "open_pr" => work'[v] = work[v]
BY DEF TypeInv, TypeOK, Goto, GotoWith, Work, Idle

LEMMA PushKeepsPrs ==
    ASSUME TypeInv, PrInv, NEW w \in Workers, Push(w)
    PROVE  PrInv'
<1> DEFINE j == work[w].job  b == BranchOf[j]
<1>1. j \in Jobs /\ b \in Branches /\ j # None
  BY EngineAssumption DEF Push, At, TypeInv, BusyHasJob
<1>2. branch[b] = None /\ openPr[b] = None
  BY <1>1, EngineAssumption DEF Push, PrInv, PrHeadIntact
<1>3. /\ branch' = [branch EXCEPT ![b] = j] /\ UNCHANGED openPr
      /\ work'[w].job = j
      /\ \A v \in Workers : v # w => work'[v] = work[v]
  BY DEF Push, Goto, Work, TypeInv, TypeOK
<1>4. PrHeadIntact'
  BY <1>1, <1>2, <1>3 DEF PrInv, PrHeadIntact, TypeInv, TypeOK
<1>5. ASSUME NEW v \in Workers, work'[v].pc = "open_pr"
      PROVE  /\ branch'[BranchOf[work'[v].job]] = work'[v].job
             /\ openPr'[BranchOf[work'[v].job]] = None
  <2>1. CASE v = w
    BY <1>1, <1>2, <1>3, <2>1 DEF TypeInv, TypeOK
  <2>2. CASE v # w
    <3>1. work[v].job \in Jobs /\ branch[BranchOf[work[v].job]] = work[v].job
      BY <1>3, <1>5, <2>2 DEF PrInv, TypeInv, BusyHasJob
    <3>2. BranchOf[work[v].job] # b
      BY <1>2, <3>1, EngineAssumption
    <3> QED
      BY <1>3, <1>5, <2>2, <3>1, <3>2 DEF PrInv, TypeInv, TypeOK
  <2> QED
    BY <2>1, <2>2
<1> QED
  BY <1>4, <1>5 DEF PrInv

LEMMA OpenKeepsPrs ==
    ASSUME TypeInv, WorkConserved, PrInv, NEW w \in Workers, OpenPr(w)
    PROVE  PrInv'
<1> DEFINE j == work[w].job  b == BranchOf[j]
<1>1. j \in Jobs /\ b \in Branches /\ j # None /\ branch[b] = j
  BY EngineAssumption DEF OpenPr, At, TypeInv, BusyHasJob, PrInv
<1>2. /\ openPr' = [openPr EXCEPT ![b] = j] /\ UNCHANGED branch
      /\ work'[w].pc # "open_pr"
      /\ \A v \in Workers : v # w => work'[v] = work[v]
  BY DEF OpenPr, Goto, GotoWith, Work, TypeInv, TypeOK
<1>3. PrHeadIntact'
  BY <1>1, <1>2 DEF PrInv, PrHeadIntact, TypeInv, TypeOK
<1>4. ASSUME NEW v \in Workers, work'[v].pc = "open_pr"
      PROVE  /\ branch'[BranchOf[work'[v].job]] = work'[v].job
             /\ openPr'[BranchOf[work'[v].job]] = None
  <2>1. v # w /\ work'[v] = work[v] /\ branch[BranchOf[work[v].job]] = work[v].job
    BY <1>2, <1>4 DEF PrInv
  <2>2. work[v].job # j
    BY <1>1, <2>1 DEF WorkConserved
  <2>3. BranchOf[work[v].job] # b
    BY <1>1, <2>1, <2>2
  <2> QED
    BY <1>2, <1>4, <2>1, <2>3 DEF PrInv, TypeInv, TypeOK
<1> QED
  BY <1>3, <1>4 DEF PrInv

LEMMA HumanKeepsPrs ==
    ASSUME TypeInv, PrInv, NEW b \in Branches, HumanEndsPr(b)
    PROVE  PrInv'
<1>1. /\ openPr[b] # None /\ openPr' = [openPr EXCEPT ![b] = None] /\ UNCHANGED work
      /\ \A c \in Branches : c # b => branch'[c] = branch[c]
  BY DEF HumanEndsPr, TypeInv, TypeOK
<1>2. \A w \in Workers : work[w].pc = "open_pr" =>
        BranchOf[work[w].job] # b /\ BranchOf[work[w].job] \in Branches
  BY <1>1, EngineAssumption DEF PrInv, TypeInv, BusyHasJob
<1> QED
  BY <1>1, <1>2 DEF PrInv, PrHeadIntact, TypeInv, TypeOK

LEMMA StepKeepsPrs ==
    ASSUME TypeInv, WorkConserved, PrInv, NEW w \in Workers, Take(w) \/ RunStep(w)
    PROVE  PrInv'
<1>1. CASE Push(w) \/ OpenPr(w)
  BY <1>1, PushKeepsPrs, OpenKeepsPrs
<1>2. CASE \/ Take(w) \/ CreateFails(w) \/ FailRowFails(w) \/ Report(w) \/ Finish(w)
  <2>1. /\ UNCHANGED gitVars
        /\ \/ work' = [work EXCEPT ![w] = Idle]
           \/ work' = [work EXCEPT ![w] = Work("create", Head(queue), None)]
    BY <1>2 DEF Take, CreateFails, FailRowFails, Report, Finish, Done, gitVars
  <2> QED
    BY <2>1, GotoElsewhere, GitUntouched DEF Pcs
<1>3. CASE CreateRow(w) \/ PushRejected(w) \/ Mirror(w) \/ Raises(w) \/ FailRow(w) \/ GraphEnds(w)
  <2>1. UNCHANGED gitVars
    BY <1>3 DEF CreateRow, PushRejected, Mirror, Raises, FailRow, GraphEnds
  <2>2. \E p \in Pcs \ {"open_pr"} : \E s : Goto(w, p) \/ GotoWith(w, p, s)
    BY <1>3 DEF CreateRow, PushRejected, Mirror, Raises, FailRow, GraphEnds, Pcs
  <2> QED
    BY <2>1, <2>2, GotoElsewhere, GitUntouched
<1> QED
  BY <1>1, <1>2, <1>3 DEF RunStep

\* No run moves the branch under the open PR of another.
THEOREM PrsIntact == Spec => []PrHeadIntact
<1>1. Init => PrInv
  BY DEF Init, PrInv, PrHeadIntact, Idle, Work
<1>2. TypeInv /\ WorkConserved /\ PrInv /\ [Next]_vars => PrInv'
  <2> SUFFICES ASSUME TypeInv, WorkConserved, PrInv, [Next]_vars PROVE PrInv'
    OBVIOUS
  <2>1. CASE \E w \in Workers : Take(w) \/ RunStep(w)
    BY <2>1, StepKeepsPrs
  <2>2. CASE Stop
    BY <2>2, GitUntouched DEF Stop, Idle, Work
  <2>3. CASE (\E j \in Jobs : Trigger(j)) \/ Boot \/ UNCHANGED vars
    BY <2>3, GitUntouched DEF Trigger, Boot, vars, gitVars
  <2>4. CASE \E b \in Branches : HumanEndsPr(b)
    BY <2>4, HumanKeepsPrs
  <2> QED
    BY <2>1, <2>2, <2>3, <2>4 DEF Next
<1>3. PrInv => PrHeadIntact
  BY DEF PrInv
<1> QED
  BY <1>1, <1>2, <1>3, TypesHold, RunsConserved, PTL DEF Spec

-----------------------------------------------------------------------------
(* The rows. *)

\* RowTellsTruth of one run.
TruthOf(j) ==
    /\ row[j] = "completed" \/ rowPr[j] => j \in shipped
    /\ row[j] \in {"needs_human", "aborted"} => j \notin shipped
    /\ fate[j] = "ended" => (row[j] = "completed" <=> j \in shipped)

\* What a worker at each point of its run knows of it.
StageOf(w) ==
    /\ work[w].pc \in {"create", "graph", "open_pr"} => work[w].job \notin shipped
    /\ work[w].pc \in {"graph", "open_pr"} => row[work[w].job] = "running"
    /\ work[w].pc \in {"mirror", "finish"} =>
          /\ work[w].result \in {"completed", "needs_human", "aborted"}
          /\ work[w].result = "completed" <=> work[w].job \in shipped

Unstarted(j) == fate[j] = "new" \/ j \in Queued => j \notin shipped

RowInv ==
    /\ \A j \in Jobs : TruthOf(j) /\ Unstarted(j)
    /\ \A w \in Workers : StageOf(w)

\* A worker's step that touches nothing but its own run keeps RowInv if it keeps
\* what RowInv says of that run.
LEMMA OwnRunOnly ==
    ASSUME TypeInv, WorkConserved, RowInv, NEW w \in Workers, work[w].pc # "idle",
           NEW j \in Jobs, j = work[w].job, UNCHANGED queue,
           \A v \in Workers \ {w} : work'[v] = work[v],
           \A i \in Jobs \ {j} :
               /\ row'[i] = row[i] /\ rowPr'[i] = rowPr[i] /\ fate'[i] = fate[i]
               /\ i \in shipped' <=> i \in shipped,
           fate'[j] # "new", TruthOf(j)', StageOf(w)'
    PROVE  RowInv'
<1>1. j \notin Queued
  <2>1. j \in Worked
    BY EngineAssumption DEF Worked
  <2> QED
    BY <2>1 DEF WorkConserved
<1>2. Queued' = Queued
  BY DEF Queued
<1>3. ASSUME NEW i \in Jobs PROVE TruthOf(i)' /\ Unstarted(i)'
  <2>1. CASE i = j
    BY <1>1, <1>2, <2>1 DEF Unstarted, TruthOf
  <2>2. CASE i # j
    BY <1>2, <2>2 DEF RowInv, TruthOf, Unstarted
  <2> QED
    BY <2>1, <2>2
<1>4. ASSUME NEW v \in Workers PROVE StageOf(v)'
  <2>1. CASE v = w
    BY <2>1
  <2>2. CASE v # w /\ work[v].pc # "idle"
    <3>1. work[v].job \in Jobs /\ work[v].job # None
      BY <2>2, EngineAssumption DEF TypeInv, BusyHasJob
    <3>2. work[v].job # j
      BY <2>2, <3>1 DEF WorkConserved
    <3> QED
      BY <2>2, <3>1, <3>2 DEF RowInv, StageOf
  <2>3. CASE v # w /\ work[v].pc = "idle"
    BY <2>3 DEF StageOf
  <2> QED
    BY <2>1, <2>2, <2>3
<1> QED
  BY <1>3, <1>4 DEF RowInv

LEMMA StepKeepsRows ==
    ASSUME TypeInv, WorkConserved, RowInv, NEW w \in Workers, RunStep(w)
    PROVE  RowInv'
<1>1. work[w].pc # "idle"
  BY DEF RunStep, CreateRow, CreateFails, GraphEnds, Push, PushRejected, OpenPr, Mirror, Finish,
         Raises, FailRow, FailRowFails, Report, At
<1>7. PICK j \in Jobs : j = work[w].job
  BY <1>1 DEF TypeInv, BusyHasJob
<1>2. j \in Jobs /\ j \in Worked /\ j = work[w].job
  BY <1>7, EngineAssumption DEF Worked
<1>3. fate[j] = "accepted" /\ TruthOf(j) /\ StageOf(w)
  BY <1>2 DEF WorkConserved, RowInv
<1>4. work \in [Workers -> Works] /\ TypeOK
  BY DEF TypeInv, TypeOK
<1> USE DEF Goto, GotoWith, Done, SetRow, At, Work, Idle, rowVars, gitVars
<1>5. /\ UNCHANGED queue
      /\ \A v \in Workers \ {w} : work'[v] = work[v]
      /\ \A i \in Jobs \ {j} :
            /\ row'[i] = row[i] /\ rowPr'[i] = rowPr[i] /\ fate'[i] = fate[i]
            /\ i \in shipped' <=> i \in shipped
      /\ fate'[j] # "new"
  <2>1. CASE CreateRow(w) \/ CreateFails(w) \/ GraphEnds(w) \/ Push(w) \/ PushRejected(w)
    BY <1>2, <1>3, <1>4, <2>1 DEF CreateRow, CreateFails, GraphEnds, Push, PushRejected, TypeOK
  <2>2. CASE OpenPr(w) \/ Raises(w)
    BY <1>2, <1>3, <1>4, <2>2 DEF OpenPr, Raises, TypeOK
  <2>3. CASE Mirror(w) \/ Finish(w) \/ FailRow(w) \/ FailRowFails(w) \/ Report(w)
    BY <1>2, <1>3, <1>4, <2>3 DEF Mirror, Finish, FailRow, FailRowFails, Report, TypeOK
  <2> QED
    BY <2>1, <2>2, <2>3 DEF RunStep
<1>6. TruthOf(j)' /\ StageOf(w)'
  <2> USE <1>2, <1>3, <1>4 DEF TruthOf, StageOf, TypeOK
  <2>1. CASE CreateRow(w)
    BY <2>1, EngineAssumption DEF CreateRow
  <2>2. CASE CreateFails(w) \/ FailRowFails(w) \/ Report(w)
    BY <2>2 DEF CreateFails, FailRowFails, Report
  <2>3. CASE GraphEnds(w)
    BY <2>3 DEF GraphEnds
  <2>4. CASE Push(w)
    BY <2>4 DEF Push
  <2>5. CASE PushRejected(w) \/ Raises(w)
    BY <2>5 DEF PushRejected, Raises
  <2>6. CASE OpenPr(w)
    BY <2>6 DEF OpenPr
  <2>7. CASE Mirror(w)
    BY <2>7 DEF Mirror
  <2>8. CASE Finish(w)
    BY <2>8 DEF Finish
  <2>9. CASE FailRow(w)
    BY <2>9 DEF FailRow
  <2> QED
    BY <2>1, <2>2, <2>3, <2>4, <2>5, <2>6, <2>7, <2>8, <2>9 DEF RunStep
<1> QED
  BY <1>1, <1>2, <1>5, <1>6, OwnRunOnly

LEMMA TakeKeepsRows ==
    ASSUME TypeInv, WorkConserved, RowInv, NEW w \in Workers, Take(w)
    PROVE  RowInv'
<1> DEFINE h == Head(queue)
<1>1. /\ UNCHANGED <<rowVars, fate, shipped>>
      /\ work'[w] = Work("create", h, None)
      /\ \A v \in Workers : v # w => work'[v] = work[v]
  BY DEF Take, TypeInv, TypeOK
<1>2. h \in Jobs /\ h \in Queued
  BY DEF Take, TypeInv, TypeOK, Queued
<1>3. Queued' \subseteq Queued
  BY DEF Take, TypeInv, TypeOK, Queued
<1>4. h \notin shipped
  BY <1>2 DEF RowInv, Unstarted
<1>5. \A i \in Jobs : TruthOf(i)' /\ Unstarted(i)'
  BY <1>1, <1>3 DEF RowInv, TruthOf, Unstarted, rowVars
<1>6. \A v \in Workers : StageOf(v)'
  BY <1>1, <1>4 DEF RowInv, StageOf, rowVars, Work
<1> QED
  BY <1>5, <1>6 DEF RowInv

LEMMA TriggerKeepsRows ==
    ASSUME TypeInv, RowInv, NEW j \in Jobs, Trigger(j)
    PROVE  RowInv'
<1>1. UNCHANGED <<work, rowVars, shipped>> /\ j \notin shipped
  BY DEF Trigger, RowInv, Unstarted
<1>2. Queued' \subseteq Queued \cup {j}
  BY DEF Trigger, TypeInv, TypeOK, Queued
<1>3. \A i \in Jobs : TruthOf(i)' /\ Unstarted(i)'
  BY <1>1, <1>2 DEF Trigger, RowInv, TruthOf, Unstarted, rowVars, TypeInv, TypeOK
<1>4. \A w \in Workers : StageOf(w)'
  BY <1>1 DEF RowInv, StageOf, rowVars
<1> QED
  BY <1>3, <1>4 DEF RowInv

LEMMA StopKeepsRows == ASSUME TypeInv, RowInv, Stop PROVE RowInv'
<1>1. Queued' = {} /\ UNCHANGED <<rowVars, shipped>>
  BY DEF Stop, Queued
<1>2. \A i \in Jobs : TruthOf(i)' /\ Unstarted(i)'
  BY <1>1 DEF Stop, RowInv, TruthOf, Unstarted, rowVars, TypeInv, TypeOK
<1>3. \A w \in Workers : StageOf(w)'
  BY DEF Stop, StageOf, Idle, Work
<1> QED
  BY <1>2, <1>3 DEF RowInv

LEMMA RowsKept == Spec => []RowInv
<1>1. Init => RowInv
  <2> SUFFICES ASSUME Init PROVE RowInv
    OBVIOUS
  <2>1. \A j \in Jobs : TruthOf(j) /\ Unstarted(j)
    BY EngineAssumption DEF Init, TruthOf, Unstarted, Final
  <2>2. \A w \in Workers : StageOf(w)
    BY DEF Init, StageOf, Idle, Work
  <2> QED
    BY <2>1, <2>2 DEF RowInv
<1>2. TypeInv /\ WorkConserved /\ RowInv /\ [Next]_vars => RowInv'
  <2> SUFFICES ASSUME TypeInv, WorkConserved, RowInv, [Next]_vars PROVE RowInv'
    OBVIOUS
  <2>1. CASE \E j \in Jobs : Trigger(j)
    BY <2>1, TriggerKeepsRows
  <2>2. CASE \E w \in Workers : Take(w) \/ RunStep(w)
    BY <2>2, TakeKeepsRows, StepKeepsRows
  <2>3. CASE Stop
    BY <2>3, StopKeepsRows
  <2>4. CASE Boot \/ (\E b \in Branches : HumanEndsPr(b)) \/ UNCHANGED vars
    <3>1. UNCHANGED <<queue, work, rowVars, fate, shipped>>
      BY <2>4 DEF Boot, HumanEndsPr, vars, rowVars
    <3> QED
      BY <3>1 DEF RowInv, TruthOf, Unstarted, StageOf, Queued, rowVars
  <2> QED
    BY <2>1, <2>2, <2>3, <2>4 DEF Next
<1> QED
  BY <1>1, <1>2, TypesHold, RunsConserved, PTL DEF Spec

\* A row never claims a PR that was not opened, nor denies one at the end.
THEOREM RowsTellTruth == Spec => []RowTellsTruth
<1>1. RowInv => RowTellsTruth
  BY DEF RowInv, TruthOf, RowTellsTruth
<1> QED
  BY <1>1, RowsKept, PTL

-----------------------------------------------------------------------------
(* Runs of the engine are runs as RunOutcome has them. *)

EndOf(j) ==
    CASE fate[j] = "ended" -> row[j]
      [] fate[j] \in {"raised", "stopped"} -> "failed"
      [] OTHER -> "open"
Ends == [j \in Jobs |-> EndOf(j)]

\* A run that came to its end has one of the graph's ends in its row.
EndedRows ==
    \A j \in Jobs : fate[j] = "ended" => row[j] \in {"completed", "needs_human", "aborted"}

OutcomeTypes == TypeInv /\ WorkConserved /\ RowInv /\ EndedRows

\* A step that leaves row, fate and PR of every other run alone and begins with this
\* run accepted is a move of this run, if it says of its PR what it should.
LEMMA OneMoves ==
    ASSUME OutcomeTypes, OutcomeTypes', NEW j \in Jobs, fate[j] = "accepted",
           \A i \in Jobs \ {j} :
               /\ row'[i] = row[i] /\ fate'[i] = fate[i]
               /\ i \in shipped' <=> i \in shipped,
           shipped \subseteq shipped'
    PROVE  Outcome!OutcomeNext
<1>1. Ends' \in [Jobs -> Outcome!Outcomes]
  BY DEF OutcomeTypes, EndedRows, Ends, EndOf, Outcome!Outcomes
<1>2. shipped' \subseteq Jobs
  BY DEF OutcomeTypes, TypeInv, TypeOK
<1>3. Ends[j] = "open" /\ Ends'[j] = EndOf(j)'
  BY DEF Ends, EndOf
<1>4. ASSUME NEW i \in Jobs, i # j PROVE Ends'[i] = Ends[i] /\ (i \in shipped' <=> i \in shipped)
  BY <1>4 DEF Ends, EndOf
<1>5. Ends'[j] = "completed" => j \in shipped'
  BY <1>3 DEF EndOf, OutcomeTypes, RowInv, TruthOf
<1>6. Ends'[j] \in {"needs_human", "aborted"} => j \notin shipped'
  BY <1>3 DEF EndOf, OutcomeTypes, RowInv, TruthOf
<1> QED
  BY <1>1, <1>2, <1>3, <1>4, <1>5, <1>6
     DEF Outcome!OutcomeNext, Outcome!Moves, Outcome!Stays, Ends, EndOf

\* While a run is worked on only its own row, fate and PR move; Finish is what ends it.
LEMMA EndedStep == ASSUME OutcomeTypes, [Next]_vars PROVE EndedRows'
<1>1. ASSUME NEW w \in Workers, RunStep(w) PROVE EndedRows'
  <2>1. PICK j \in Jobs : j = work[w].job /\ fate[j] = "accepted"
    <3>1. work[w].pc # "idle"
      BY <1>1 DEF RunStep, CreateRow, CreateFails, GraphEnds, Push, PushRejected, OpenPr, Mirror,
                  Finish, Raises, FailRow, FailRowFails, Report, At
    <3>2. work[w].job \in Jobs /\ work[w].job \in Worked
      BY <3>1, EngineAssumption DEF OutcomeTypes, TypeInv, BusyHasJob, Worked
    <3> QED
      BY <3>2 DEF OutcomeTypes, WorkConserved
  <2> USE <2>1 DEF OutcomeTypes, EndedRows, TypeInv, TypeOK, SetRow, Done, Goto
  <2>2. CASE CreateRow(w) \/ FailRow(w) \/ Mirror(w)
    BY <2>2 DEF CreateRow, FailRow, Mirror
  <2>3. CASE CreateFails(w) \/ FailRowFails(w) \/ Report(w)
    BY <2>3 DEF CreateFails, FailRowFails, Report, rowVars
  <2>4. CASE GraphEnds(w) \/ Push(w) \/ PushRejected(w) \/ OpenPr(w) \/ Raises(w)
    BY <2>4 DEF GraphEnds, Push, PushRejected, OpenPr, Raises, rowVars
  <2>5. CASE Finish(w)
    <3>1. work[w].result \in {"completed", "needs_human", "aborted"}
      BY <2>5 DEF Finish, At, RowInv, StageOf
    <3> QED
      BY <2>5, <3>1 DEF Finish
  <2> QED
    BY <1>1, <2>2, <2>3, <2>4, <2>5 DEF RunStep
<1>2. CASE \E j \in Jobs : Trigger(j)
  BY <1>2 DEF Trigger, rowVars, OutcomeTypes, EndedRows, TypeInv, TypeOK
<1>3. CASE Stop
  BY <1>3 DEF Stop, rowVars, OutcomeTypes, EndedRows, TypeInv, TypeOK
<1>4. CASE \/ \E w \in Workers : Take(w)
           \/ Boot \/ (\E b \in Branches : HumanEndsPr(b)) \/ UNCHANGED vars
  BY <1>4 DEF Take, Boot, HumanEndsPr, vars, rowVars, OutcomeTypes, EndedRows
<1> QED
  BY <1>1, <1>2, <1>3, <1>4 DEF Next

LEMMA StepIsMove ==
    ASSUME OutcomeTypes, OutcomeTypes', NEW w \in Workers, RunStep(w)
    PROVE  Outcome!OutcomeNext
<1>1. PICK j \in Jobs : j = work[w].job /\ fate[j] = "accepted"
  <2>1. work[w].pc # "idle"
    BY DEF RunStep, CreateRow, CreateFails, GraphEnds, Push, PushRejected, OpenPr, Mirror,
           Finish, Raises, FailRow, FailRowFails, Report, At
  <2>2. work[w].job \in Jobs /\ work[w].job \in Worked
    BY <2>1, EngineAssumption DEF OutcomeTypes, TypeInv, BusyHasJob, Worked
  <2> QED
    BY <2>2 DEF OutcomeTypes, WorkConserved
<1>2. /\ \A i \in Jobs \ {j} :
            /\ row'[i] = row[i] /\ fate'[i] = fate[i]
            /\ i \in shipped' <=> i \in shipped
      /\ shipped \subseteq shipped'
  <2> USE <1>1 DEF OutcomeTypes, TypeInv, TypeOK, SetRow, Done
  <2>1. CASE CreateRow(w) \/ FailRow(w) \/ Mirror(w) \/ Finish(w)
    BY <2>1 DEF CreateRow, FailRow, Mirror, Finish
  <2>2. CASE CreateFails(w) \/ FailRowFails(w) \/ Report(w)
    BY <2>2 DEF CreateFails, FailRowFails, Report, rowVars
  <2>3. CASE GraphEnds(w) \/ Push(w) \/ PushRejected(w) \/ OpenPr(w) \/ Raises(w)
    BY <2>3 DEF GraphEnds, Push, PushRejected, OpenPr, Raises, rowVars
  <2> QED
    BY <2>1, <2>2, <2>3 DEF RunStep
<1> QED
  BY <1>1, <1>2, OneMoves

\* A stop ends all that is queued or worked on, as failed.
LEMMA StopIsMove ==
    ASSUME OutcomeTypes, OutcomeTypes', Stop
    PROVE  Outcome!OutcomeNext
<1>1. Ends' \in [Jobs -> Outcome!Outcomes]
  BY DEF OutcomeTypes, EndedRows, Ends, EndOf, Outcome!Outcomes
<1>2. UNCHANGED <<row, shipped>> /\ shipped' \subseteq Jobs
  BY DEF Stop, rowVars, OutcomeTypes, TypeInv, TypeOK
<1>3. ASSUME NEW i \in Jobs
      PROVE  Ends'[i] = Ends[i] \/ (Ends[i] = "open" /\ Ends'[i] = "failed")
  BY DEF Stop, Ends, EndOf, OutcomeTypes, TypeInv, TypeOK, rowVars
<1> QED
  BY <1>1, <1>2, <1>3 DEF Outcome!OutcomeNext, Outcome!Moves, Outcome!Stays, Ends, EndOf

LEMMA NextIsMove ==
    ASSUME OutcomeTypes, OutcomeTypes', [Next]_vars
    PROVE  [Outcome!OutcomeNext]_<<Ends, shipped>>
<1>1. CASE \E w \in Workers : RunStep(w)
  BY <1>1, StepIsMove
<1>2. CASE Stop
  BY <1>2, StopIsMove
<1>3. CASE \E j \in Jobs : Trigger(j)
  <2>1. UNCHANGED <<Ends, shipped>>
    BY <1>3 DEF Trigger, Ends, EndOf, OutcomeTypes, TypeInv, TypeOK, rowVars
  <2> QED
    BY <2>1
<1>4. CASE \/ \E w \in Workers : Take(w)
           \/ Boot \/ (\E b \in Branches : HumanEndsPr(b)) \/ UNCHANGED vars
  <2>1. UNCHANGED <<row, fate, shipped>>
    BY <1>4 DEF Take, Boot, HumanEndsPr, vars, rowVars
  <2> QED
    BY <2>1 DEF Ends, EndOf
<1> QED
  BY <1>1, <1>2, <1>3, <1>4 DEF Next

\* Each run ends once, its row stays as it is from then on, and the row and its PR agree.
THEOREM RunsAreOutcomes == Spec => AreRunOutcomes
<1>1. Init => EndedRows /\ Outcome!OutcomeInit
  BY DEF Init, EndedRows, Outcome!OutcomeInit
<1>2. OutcomeTypes /\ [Next]_vars => EndedRows'
  BY EndedStep
<1>3. OutcomeTypes /\ OutcomeTypes' /\ [Next]_vars => [Outcome!OutcomeNext]_<<Ends, shipped>>
  BY NextIsMove
<1>4. OutcomeTypes <=> TypeInv /\ WorkConserved /\ RowInv /\ EndedRows
  BY DEF OutcomeTypes
<1>5. Spec => []OutcomeTypes
  BY <1>1, <1>2, <1>4, TypesHold, RunsConserved, RowsKept, PTL DEF Spec
<1> QED
  BY <1>1, <1>3, <1>5, PTL DEF Spec, AreRunOutcomes, Outcome!OutcomeSpec, Ends, EndOf

-----------------------------------------------------------------------------
(* What a worker's step may touch, and the branches that are left behind. *)

Alone(w, j) ==
    /\ \A v \in Workers \ {w} : work'[v] = work[v]
    /\ \A i \in Jobs \ {j} :
          /\ row'[i] = row[i] /\ rowPr'[i] = rowPr[i] /\ fate'[i] = fate[i]
          /\ i \in shipped' <=> i \in shipped
    /\ shipped \subseteq shipped'
    /\ UNCHANGED <<up, queue>>

\* A worker's step concerns the accepted run in its hands and no other.
LEMMA OwnStep ==
    ASSUME TypeInv, WorkConserved, NEW w \in Workers, RunStep(w)
    PROVE  /\ work[w].job \in Jobs
           /\ fate[work[w].job] = "accepted"
           /\ Alone(w, work[w].job)
<1>1. work[w].pc # "idle"
  BY DEF RunStep, CreateRow, CreateFails, GraphEnds, Push, PushRejected, OpenPr, Mirror, Finish,
         Raises, FailRow, FailRowFails, Report, At
<1>2. PICK j \in Jobs : j = work[w].job
  BY <1>1 DEF TypeInv, BusyHasJob
<1>3. fate[j] = "accepted"
  BY <1>2, EngineAssumption DEF Worked, WorkConserved
<1>4. Alone(w, j)
  <2> USE <1>2 DEF Alone, TypeInv, TypeOK, SetRow, Done, Goto, GotoWith, rowVars
  <2>1. CASE CreateRow(w) \/ FailRow(w) \/ Mirror(w) \/ Finish(w)
    BY <2>1 DEF CreateRow, FailRow, Mirror, Finish
  <2>2. CASE CreateFails(w) \/ FailRowFails(w) \/ Report(w)
    BY <2>2 DEF CreateFails, FailRowFails, Report
  <2>3. CASE GraphEnds(w) \/ Push(w) \/ PushRejected(w) \/ OpenPr(w) \/ Raises(w)
    BY <2>3 DEF GraphEnds, Push, PushRejected, OpenPr, Raises
  <2> QED
    BY <2>1, <2>2, <2>3 DEF RunStep
<1> QED
  BY <1>2, <1>3, <1>4

\* A run that is accounted for stays so: one that has pushed leaves open_pr with its PR
\* or because GitHub failed, and then only by way of the handler.
LEMMA AccountKept ==
    ASSUME TypeInv, WorkConserved, NEW w \in Workers, RunStep(w), NEW i \in Jobs, Accounted(i)
    PROVE  Accounted(i)'
<1>1. Alone(w, work[w].job) /\ fate[work[w].job] = "accepted" /\ work[w].job \in Jobs
  BY OwnStep
<1>2. CASE work[w].job # i
  BY <1>1, <1>2 DEF Alone, Accounted
<1>3. CASE i \in shipped
  BY <1>1, <1>3 DEF Alone, Accounted
<1>4. CASE work[w].job = i /\ i \notin shipped
  <2>1. \A v \in Workers : work[v].job = i => v = w
    BY <1>4, EngineAssumption DEF WorkConserved
  <2>2. \/ work[w].pc = "open_pr"
        \/ "github" \in Faults /\ work[w].pc \in {"fail_row", "report"}
    BY <1>1, <1>4, <2>1 DEF Accounted
  <2> USE <1>4 DEF TypeInv, TypeOK, At
  <2>3. CASE OpenPr(w)
    BY <2>3 DEF OpenPr, Accounted
  <2>4. CASE Raises(w)
    BY <2>2, <2>4 DEF Raises, Goto, Work, Accounted
  <2>5. CASE FailRow(w)
    BY <2>2, <2>5 DEF FailRow, Goto, Work, Accounted
  <2>6. CASE FailRowFails(w) \/ Report(w)
    BY <2>2, <2>6 DEF FailRowFails, Report, Done, Accounted
  <2> QED
    BY <2>2, <2>3, <2>4, <2>5, <2>6
       DEF RunStep, CreateRow, CreateFails, GraphEnds, Push, PushRejected, Mirror, Finish
<1> QED
  BY <1>2, <1>3, <1>4

LEMMA PushAccounted ==
    ASSUME TypeInv, WorkConserved, BranchAccounted, NEW w \in Workers, Push(w)
    PROVE  BranchAccounted'
<1> DEFINE j == work[w].job
<1>1. j \in Jobs /\ j # None /\ RunStep(w)
  BY EngineAssumption DEF Push, At, TypeInv, BusyHasJob, RunStep
<1>2. /\ branch'[BranchOf[j]] = j
      /\ \A b \in Branches : b # BranchOf[j] => branch'[b] = branch[b]
      /\ work'[w].job = j /\ work'[w].pc = "open_pr"
  BY <1>1, EngineAssumption DEF Push, Goto, Work, TypeInv, TypeOK
<1>3. ASSUME NEW b \in Branches, branch'[b] # None
      PROVE  BranchOf[branch'[b]] = b /\ Accounted(branch[b])' 
  <2>1. CASE b = BranchOf[j]
    BY <1>2, <2>1 DEF Accounted
  <2>2. CASE b # BranchOf[j]
    <3>1. branch[b] \in Jobs /\ branch'[b] = branch[b] /\ Accounted(branch[b])
      BY <1>2, <1>3, <2>2 DEF BranchAccounted, TypeInv, TypeOK
    <3>2. PICK i \in Jobs : i = branch[b]
      BY <3>1
    <3>3. Accounted(i)'
      BY <1>1, <3>1, <3>2, AccountKept
    <3> QED
      BY <1>3, <3>1, <3>2, <3>3 DEF BranchAccounted, Accounted
  <2> QED
    BY <2>1, <2>2
<1> QED
  BY <1>3 DEF BranchAccounted

\* A step that pushes nothing keeps what every run has to account for.
LEMMA NoPushAccounted ==
    ASSUME TypeInv, BranchAccounted,
           \A b \in Branches : branch'[b] \in {branch[b], None},
           \A i \in Jobs : Accounted(i) => Accounted(i)'
    PROVE  BranchAccounted'
<1>1. ASSUME NEW b \in Branches, branch'[b] # None
      PROVE  BranchOf[branch'[b]] = b /\ Accounted(branch[b])'
  <2>1. PICK i \in Jobs : i = branch[b] /\ i = branch'[b]
    BY <1>1 DEF TypeInv, TypeOK
  <2>2. Accounted(i) /\ BranchOf[i] = b
    BY <1>1, <2>1 DEF BranchAccounted
  <2>3. Accounted(i)'
    BY <2>2
  <2> QED
    BY <2>1, <2>2, <2>3 DEF Accounted
<1> QED
  BY <1>1 DEF BranchAccounted

\* A branch without a PR is the work of a run that GitHub has failed, or that was
\* stopped, between its push and its PR.  (builder.py _finalize)
THEOREM BranchesAccounted == Spec => []BranchAccounted
<1>1. Init => BranchAccounted
  BY DEF Init, BranchAccounted
<1>2. TypeInv /\ WorkConserved /\ BranchAccounted /\ [Next]_vars => BranchAccounted'
  <2> SUFFICES ASSUME TypeInv, WorkConserved, BranchAccounted, [Next]_vars PROVE BranchAccounted'
    OBVIOUS
  <2>1. ASSUME NEW w \in Workers, RunStep(w) PROVE BranchAccounted'
    <3>1. CASE Push(w)
      BY <3>1, PushAccounted
    <3>2. CASE ~Push(w)
      <4>1. UNCHANGED branch
        BY <2>1, <3>2 DEF RunStep, CreateRow, CreateFails, GraphEnds, PushRejected, OpenPr, Mirror,
           Finish, Raises, FailRow, FailRowFails, Report, gitVars
      <4> QED
        BY <2>1, <4>1, AccountKept, NoPushAccounted
    <3> QED
      BY <3>1, <3>2
  <2>2. ASSUME NEW w \in Workers, Take(w) PROVE BranchAccounted'
    <3>1. ASSUME NEW i \in Jobs, Accounted(i) PROVE Accounted(i)'
      BY <2>2, <3>1 DEF Accounted, Take, At, TypeInv, TypeOK
    <3> QED
      BY <2>2, <3>1, NoPushAccounted DEF Take, gitVars
  <2>3. CASE \E j \in Jobs : Trigger(j)
    <3>1. ASSUME NEW i \in Jobs, Accounted(i) PROVE Accounted(i)'
      BY <2>3, <3>1 DEF Accounted, Trigger, TypeInv, TypeOK
    <3> QED
      BY <2>3, <3>1, NoPushAccounted DEF Trigger, gitVars
  <2>4. CASE Stop
    <3>1. ASSUME NEW i \in Jobs, Accounted(i) PROVE Accounted(i)'
      <4>1. ASSUME NEW w \in Workers, work[w].job = i PROVE fate[i] = "accepted"
        BY <4>1, EngineAssumption DEF WorkConserved, Worked
      <4> QED
        BY <2>4, <3>1, <4>1 DEF Accounted, Stop, TypeInv, TypeOK
    <3> QED
      BY <2>4, <3>1, NoPushAccounted DEF Stop, gitVars
  <2>5. CASE Boot \/ (\E b \in Branches : HumanEndsPr(b)) \/ UNCHANGED vars
    <3>1. ASSUME NEW i \in Jobs, Accounted(i) PROVE Accounted(i)'
      BY <2>5, <3>1 DEF Accounted, Boot, HumanEndsPr, vars
    <3>2. \A b \in Branches : branch'[b] \in {branch[b], None}
      BY <2>5 DEF Boot, HumanEndsPr, vars, gitVars, TypeInv, TypeOK
    <3> QED
      BY <3>1, <3>2, NoPushAccounted
  <2> QED
    BY <2>1, <2>2, <2>3, <2>4, <2>5 DEF Next
<1> QED
  BY <1>1, <1>2, TypesHold, RunsConserved, PTL DEF Spec

-----------------------------------------------------------------------------
(* What is over stays as it is, and what still runs gets nearer to its end. *)

\* Whatever the other runs do, and however often the process stops, nothing that is
\* recorded of a run changes once its processor has returned, raised or been stopped.
EndedRest ==
    \A j \in Jobs : fate[j] \notin {"new", "accepted"} =>
        /\ fate'[j] = fate[j] /\ row'[j] = row[j] /\ rowPr'[j] = rowPr[j]
        /\ j \in shipped' <=> j \in shipped

\* No late write reaches the row or the PRs of a run that is over, so what the dashboard
\* shows of it is final.  (runner.py _process_job, store/runs.py update)
THEOREM EndedRunsRest == Spec => [][EndedRest]_vars
<1>1. TypeInv /\ WorkConserved /\ [Next]_vars => EndedRest
  <2> SUFFICES ASSUME TypeInv, WorkConserved, [Next]_vars PROVE EndedRest
    OBVIOUS
  <2>1. ASSUME NEW w \in Workers, RunStep(w) PROVE EndedRest
    BY <2>1, OwnStep DEF Alone, EndedRest
  <2>2. CASE \E w \in Workers : Take(w)
    BY <2>2 DEF Take, rowVars, EndedRest
  <2>3. CASE \E j \in Jobs : Trigger(j)
    BY <2>3 DEF Trigger, rowVars, EndedRest, TypeInv, TypeOK
  <2>4. CASE Stop
    BY <2>4 DEF Stop, rowVars, EndedRest, TypeInv, TypeOK
  <2>5. CASE Boot \/ (\E b \in Branches : HumanEndsPr(b)) \/ UNCHANGED vars
    BY <2>5 DEF Boot, HumanEndsPr, vars, rowVars, EndedRest
  <2> QED
    BY <2>1, <2>2, <2>3, <2>4, <2>5 DEF Next
<1> QED
  BY <1>1, TypesHold, RunsConserved, PTL DEF Spec

\* The steps a worker has before it at each point, at most: seven, then it is idle.
Left(p) ==
    CASE p = "idle" -> 0 [] p = "report" -> 1 [] p = "fail_row" -> 2 [] p = "finish" -> 3
      [] p = "mirror" -> 4 [] p = "open_pr" -> 5 [] p = "graph" -> 6 [] OTHER -> 7

\* A worker's own step brings it nearer to its queue, and no step of another takes a
\* run back.  A queued run keeps its place, moves up when another is taken, or is
\* taken itself, unless the process stops.
RunsAdvance ==
    /\ \A w \in Workers : RunStep(w) => Left(work'[w].pc) < Left(work[w].pc)
    /\ \A w \in Workers : work[w].pc # "idle" =>
          Left(work'[w].pc) <= Left(work[w].pc) /\ work'[w].job \in {work[w].job, None}
    /\ \A m \in 1..Len(queue) :
          \/ m <= Len(queue') /\ queue'[m] = queue[m] /\ \A w \in Workers : ~Take(w)
          \/ m > 1 /\ m - 1 <= Len(queue') /\ queue'[m - 1] = queue[m]
          \/ queue[m] \in Worked'
          \/ fate'[queue[m]] = "stopped"

LEMMA LeftValues ==
    /\ Left("idle") = 0 /\ Left("report") = 1 /\ Left("fail_row") = 2 /\ Left("finish") = 3
    /\ Left("mirror") = 4 /\ Left("open_pr") = 5 /\ Left("graph") = 6 /\ Left("create") = 7
  BY DEF Left

LEMMA LeftType == \A p \in Pcs : Left(p) \in 0..7
  BY LeftValues DEF Pcs

LEMMA StepNearer ==
    ASSUME TypeInv, NEW w \in Workers, RunStep(w)
    PROVE  /\ Left(work'[w].pc) < Left(work[w].pc)
           /\ work'[w].job \in {work[w].job, None}
<1>0. work \in [Workers -> Works]
  BY DEF TypeInv, TypeOK
<1> USE <1>0, LeftValues DEF At, Goto, GotoWith, Done, Work, Idle
<1>1. CASE CreateRow(w) \/ CreateFails(w) \/ GraphEnds(w) \/ Push(w) \/ PushRejected(w)
  BY <1>1 DEF CreateRow, CreateFails, GraphEnds, Push, PushRejected
<1>2. CASE OpenPr(w) \/ Raises(w)
  BY <1>2 DEF OpenPr, Raises
<1>3. CASE Mirror(w) \/ Finish(w) \/ FailRow(w) \/ FailRowFails(w) \/ Report(w)
  BY <1>3 DEF Mirror, Finish, FailRow, FailRowFails, Report
<1> QED
  BY <1>1, <1>2, <1>3 DEF RunStep

LEMMA TakeMovesUp ==
    ASSUME TypeInv, NEW w \in Workers, Take(w), NEW m \in 1..Len(queue)
    PROVE  \/ m > 1 /\ m - 1 <= Len(queue') /\ queue'[m - 1] = queue[m]
           \/ queue[m] \in Worked'
<1>1. /\ queue \in Seq(Jobs) /\ queue # <<>> /\ queue' = Tail(queue) /\ Len(queue) \in Nat
      /\ Head(queue) = queue[1] /\ work'[w].job = Head(queue)
  BY DEF Take, TypeInv, TypeOK, Work
<1>2. CASE m = 1
  BY <1>1, <1>2, EngineAssumption DEF Worked
<1>3. CASE m > 1
  <2>1. m - 1 \in 1..Len(queue') /\ queue'[m - 1] = queue[m]
    BY <1>1, <1>3
  <2> QED
    BY <1>3, <2>1
<1> QED
  BY <1>2, <1>3

\* The safety half of RunsSettle, for any number of runs and workers: what is left to
\* do before a run ends only ever gets less.  (queue.py _run, runner.py)
THEOREM RunsOnlyAdvance == Spec => [][RunsAdvance]_vars
<1>1. TypeInv /\ WorkConserved /\ [Next]_vars => RunsAdvance
  <2> SUFFICES ASSUME TypeInv, WorkConserved, [Next]_vars PROVE RunsAdvance
    OBVIOUS
  <2>0. /\ \A v \in Workers : work[v].pc \in Pcs /\ Left(work[v].pc) \in 0..7
        /\ Len(queue) \in Nat /\ \A m \in 1..Len(queue) : queue[m] \in Jobs
    BY LeftType DEF TypeInv, TypeOK, Works
  <2>1. \A w \in Workers : RunStep(w) => Left(work'[w].pc) < Left(work[w].pc)
    BY StepNearer
  <2>2. ASSUME NEW v \in Workers, work[v].pc # "idle"
        PROVE  Left(work'[v].pc) <= Left(work[v].pc) /\ work'[v].job \in {work[v].job, None}
    <3>1. CASE RunStep(v)
      <4>1. work'[v].pc \in Pcs
        BY <3>1, StepType DEF TypeInv, TypeOK, Works
      <4> QED
        BY <2>0, <3>1, <4>1, StepNearer, LeftType
    <3>2. CASE \E w \in Workers : Take(w)
      <4>1. work'[v] = work[v]
        BY <2>2, <3>2 DEF Take, At, TypeInv, TypeOK
      <4> QED
        BY <2>0, <4>1
    <3>3. CASE \E w \in Workers \ {v} : RunStep(w)
      BY <2>0, <3>3, OwnStep DEF Alone
    <3>4. CASE Stop
      BY <2>0, <3>4, LeftValues DEF Stop, Idle, Work
    <3>5. CASE (\E j \in Jobs : Trigger(j)) \/ Boot \/ (\E b \in Branches : HumanEndsPr(b))
               \/ UNCHANGED vars
      BY <2>0, <3>5 DEF Trigger, Boot, HumanEndsPr, vars
    <3> QED
      BY <3>1, <3>2, <3>3, <3>4, <3>5 DEF Next
  <2>3. ASSUME NEW m \in 1..Len(queue)
        PROVE  \/ m <= Len(queue') /\ queue'[m] = queue[m] /\ \A w \in Workers : ~Take(w)
               \/ m > 1 /\ m - 1 <= Len(queue') /\ queue'[m - 1] = queue[m]
               \/ queue[m] \in Worked'
               \/ fate'[queue[m]] = "stopped"
    <3>1. CASE \E w \in Workers : Take(w)
      BY <3>1, TakeMovesUp
    <3>2. CASE Stop
      <4>1. queue[m] \in Jobs /\ fate[queue[m]] = "accepted"
        BY <2>0 DEF WorkConserved, Queued
      <4> QED
        BY <3>2, <4>1 DEF Stop
    <3>3. CASE (\A w \in Workers : ~Take(w)) /\ ~Stop
      <4>1. CASE \E j \in Jobs : Trigger(j)
        BY <2>0, <3>3, <4>1 DEF Trigger, TypeInv, TypeOK
      <4>2. CASE \E w \in Workers : RunStep(w)
        BY <2>0, <3>3, <4>2, OwnStep DEF Alone
      <4>3. CASE Boot \/ (\E b \in Branches : HumanEndsPr(b)) \/ UNCHANGED vars
        BY <2>0, <3>3, <4>3 DEF Boot, HumanEndsPr, vars
      <4> QED
        BY <3>3, <4>1, <4>2, <4>3 DEF Next
    <3> QED
      BY <3>1, <3>2, <3>3
  <2> QED
    BY <2>1, <2>2, <2>3 DEF RunsAdvance
<1> QED
  BY <1>1, TypesHold, RunsConserved, PTL DEF Spec

-----------------------------------------------------------------------------
(* The rows that settle nothing, and who asked for what there is. *)

\* A row without a final status is of a run that has not been asked for or is not over,
\* or that was stopped, or whose failure the database could not take.
RowsSettled ==
    \A j \in Jobs :
        /\ fate[j] = "new" => row[j] = None
        /\ row[j] # None /\ fate[j] = "accepted" => j \in Worked
        /\ fate[j] \in {"ended", "raised"} /\ row[j] \notin Final =>
              fate[j] = "raised" /\ "db" \in Faults

\* No row is written before a worker has the run, and FailRow is before Report.
SettleOf(j) ==
    /\ fate[j] = "new" \/ j \in Queued => row[j] = None
    /\ fate[j] = "ended" => row[j] \in Final
    /\ fate[j] = "raised" => row[j] \in Final \/ "db" \in Faults
SettleStage(w) == work[w].pc = "report" => row[work[w].job] = "failed"
SettleInv == (\A j \in Jobs : SettleOf(j)) /\ \A w \in Workers : SettleStage(w)

LEMMA StepSettles ==
    ASSUME TypeInv, WorkConserved, RowInv, SettleInv, NEW w \in Workers, RunStep(w)
    PROVE  SettleInv'
<1>1. PICK j \in Jobs : j = work[w].job
  BY OwnStep
<1>2. fate[j] = "accepted" /\ Alone(w, j)
  BY <1>1, OwnStep
<1>3. Queued' = Queued /\ j \notin Queued
  <2>1. j \in Worked
    BY <1>1, EngineAssumption DEF Worked
  <2>2. Queued' = Queued
    BY <1>2 DEF Alone, Queued
  <2> QED
    BY <2>1, <2>2 DEF WorkConserved
<1>4. SettleOf(j)' /\ SettleStage(w)'
  <2> USE <1>1, <1>2, <1>3 DEF SettleInv, SettleOf, SettleStage, TypeInv, TypeOK, At, SetRow, Done,
      Goto, GotoWith, Work, Idle, rowVars, Final
  <2>1. CASE CreateRow(w) \/ CreateFails(w) \/ GraphEnds(w)
    BY <2>1 DEF CreateRow, CreateFails, GraphEnds
  <2>2. CASE Push(w) \/ PushRejected(w) \/ Raises(w)
    BY <2>2 DEF Push, PushRejected, Raises
  <2>3. CASE OpenPr(w)
    BY <2>3 DEF OpenPr
  <2>4. CASE Mirror(w)
    BY <2>4 DEF Mirror
  <2>5. CASE Finish(w)
    <3>1. work[w].result \in Final
      BY <2>5 DEF Finish, RowInv, StageOf
    <3> QED
      BY <2>5, <3>1 DEF Finish
  <2>6. CASE FailRow(w)
    BY <2>6 DEF FailRow
  <2>7. CASE FailRowFails(w) \/ Report(w)
    BY <2>7 DEF FailRowFails, Report
  <2> QED
    BY <2>1, <2>2, <2>3, <2>4, <2>5, <2>6, <2>7 DEF RunStep
<1>5. ASSUME NEW i \in Jobs PROVE SettleOf(i)'
  BY <1>2, <1>3, <1>4 DEF SettleInv, SettleOf, Alone
<1>6. ASSUME NEW v \in Workers PROVE SettleStage(v)'
  <2>1. CASE v # w /\ work[v].pc = "report"
    <3>1. PICK i \in Jobs : i = work[v].job
      BY <2>1 DEF TypeInv, BusyHasJob
    <3>2. i # j
      BY <1>1, <2>1, <3>1, EngineAssumption DEF WorkConserved
    <3> QED
      BY <1>2, <2>1, <3>1, <3>2 DEF SettleInv, SettleStage, Alone
  <2> QED
    BY <1>2, <1>4, <2>1 DEF SettleStage, Alone
<1> QED
  BY <1>5, <1>6 DEF SettleInv

LEMMA SettleStep == TypeInv /\ WorkConserved /\ RowInv /\ SettleInv /\ [Next]_vars => SettleInv'
<1> SUFFICES ASSUME TypeInv, WorkConserved, RowInv, SettleInv, [Next]_vars PROVE SettleInv'
  OBVIOUS
<1> USE DEF SettleInv, SettleOf, SettleStage
<1>1. ASSUME NEW w \in Workers, Take(w) PROVE SettleInv'
  <2>1. Queued' \subseteq Queued
    BY <1>1 DEF Take, TypeInv, TypeOK, Queued
  <2> QED
    BY <1>1, <2>1 DEF Take, TypeInv, TypeOK, Work, rowVars
<1>2. ASSUME NEW j \in Jobs, Trigger(j) PROVE SettleInv'
  <2>1. Queued' \subseteq Queued \cup {j}
    BY <1>2 DEF Trigger, TypeInv, TypeOK, Queued
  <2> QED
    BY <1>2, <2>1 DEF Trigger, TypeInv, TypeOK, rowVars
<1>3. CASE Stop
  <2>1. Queued' = {}
    BY <1>3 DEF Stop, Queued
  <2> QED
    BY <1>3, <2>1 DEF Stop, TypeInv, TypeOK, rowVars, Idle, Work
<1>4. CASE Boot \/ (\E b \in Branches : HumanEndsPr(b)) \/ UNCHANGED vars
  BY <1>4 DEF Boot, HumanEndsPr, vars, rowVars, Queued
<1> QED
  BY <1>1, <1>2, <1>3, <1>4, StepSettles DEF Next

LEMMA SettleKept == Spec => []SettleInv
<1>1. Init => SettleInv
  BY DEF Init, SettleInv, SettleOf, SettleStage, Idle, Work
<1> QED
  BY <1>1, SettleStep, TypesHold, RunsConserved, RowsKept, PTL DEF Spec

\* The only rows that may say "running" for ever are those of runs that a stop has
\* cut off, or that have failed together with the database: what RunsSurviveRestarts
\* finds is all there is to find.  (runner.py _process_job, main.py lifespan)
THEOREM RowsSettle == Spec => []RowsSettled
<1>1. WorkConserved /\ SettleInv => RowsSettled
  <2> SUFFICES ASSUME WorkConserved, SettleInv, NEW j \in Jobs
               PROVE  /\ fate[j] = "new" => row[j] = None
                      /\ row[j] # None /\ fate[j] = "accepted" => j \in Worked
                      /\ fate[j] \in {"ended", "raised"} /\ row[j] \notin Final =>
                            fate[j] = "raised" /\ "db" \in Faults
    BY DEF RowsSettled
  <2> QED
    BY DEF SettleInv, SettleOf, WorkConserved
<1> QED
  BY <1>1, SettleKept, RunsConserved, PTL

AskedFor(j) == WebhookAsks(Request[j]) \/ ManualAsks(Request[j])

\* What is on the board or on GitHub of a run was asked for.
RunsWereAsked ==
    \A j \in Jobs : ~AskedFor(j) =>
        /\ row[j] = None /\ j \notin shipped
        /\ \A b \in Branches : branch[b] # j /\ openPr[b] # j

\* A delivery without the label, or about a PR, leaves no trace anywhere, whatever other
\* runs go on beside it.  (webhooks/github.py parse_issue_event, main.py)
THEOREM OnlyAskedRuns == Spec => []RunsWereAsked
<1> DEFINE AskInv == \A j \in Jobs : fate[j] # "new" => AskedFor(j)
<1>1. Init => AskInv
  BY DEF Init
<1>2. TypeInv /\ WorkConserved /\ AskInv /\ [Next]_vars => AskInv'
  <2> SUFFICES ASSUME TypeInv, WorkConserved, AskInv, [Next]_vars, NEW j \in Jobs,
                      fate'[j] # fate[j] PROVE AskedFor(j)
    BY DEF AskedFor
  <2>1. ASSUME NEW w \in Workers, RunStep(w) PROVE AskedFor(j)
    BY <2>1, OwnStep DEF Alone
  <2>2. CASE \E i \in Jobs : Trigger(i)
    BY <2>2 DEF Trigger, AskedFor, TypeInv, TypeOK
  <2>3. CASE Stop
    BY <2>3 DEF Stop, TypeInv, TypeOK
  <2>4. CASE \/ \E w \in Workers : Take(w)
             \/ Boot \/ (\E b \in Branches : HumanEndsPr(b)) \/ UNCHANGED vars
    BY <2>4 DEF Take, Boot, HumanEndsPr, vars
  <2> QED
    BY <2>1, <2>2, <2>3, <2>4 DEF Next
<1>3. TypeInv /\ WorkConserved /\ PrHeadIntact /\ BranchAccounted /\ RowInv /\ SettleInv /\ AskInv
        => RunsWereAsked
  <2> SUFFICES ASSUME TypeInv, WorkConserved, PrHeadIntact, BranchAccounted, RowInv, SettleInv, AskInv,
                      NEW j \in Jobs, ~AskedFor(j)
               PROVE  /\ row[j] = None /\ j \notin shipped
                      /\ \A b \in Branches : branch[b] # j /\ openPr[b] # j
    BY DEF RunsWereAsked
  <2>1. fate[j] = "new"
    OBVIOUS
  <2>2. row[j] = None /\ j \notin shipped
    BY <2>1 DEF SettleInv, SettleOf, RowInv, Unstarted
  <2>3. \A w \in Workers : work[w].job # j
    BY <2>1, EngineAssumption DEF WorkConserved, Worked
  <2>4. ~Accounted(j)
    BY <2>1, <2>2, <2>3 DEF Accounted
  <2>5. \A b \in Branches : branch[b] # j
    BY <2>4, EngineAssumption DEF BranchAccounted
  <2> QED
    BY <2>2, <2>5, EngineAssumption DEF PrHeadIntact
<1> QED
  BY <1>1, <1>2, <1>3, TypesHold, RunsConserved, PrsIntact, BranchesAccounted, RowsKept, SettleKept,
     PTL DEF Spec

-----------------------------------------------------------------------------
\* An open PR stays with the run that opened it, and so do the commits it shows.
OpenPrsStand ==
    \A b \in Branches : openPr[b] # None /\ openPr'[b] # None =>
        openPr'[b] = openPr[b] /\ branch'[b] = branch[b]

\* Nothing but its end on GitHub changes an open PR: no run of the issue replaces it, and
\* none adds to it or moves its branch away and back.  (git_tools.py push_branch)
THEOREM OpenPrsLast == Spec => [][OpenPrsStand]_vars
<1>1. TypeInv /\ PrHeadIntact /\ [Next]_vars => OpenPrsStand
  <2> SUFFICES ASSUME TypeInv, PrHeadIntact, [Next]_vars, NEW b \in Branches,
                      openPr[b] # None, openPr'[b] # None
               PROVE  openPr'[b] = openPr[b] /\ branch'[b] = branch[b]
    BY DEF OpenPrsStand
  <2>1. branch[b] # None
    BY DEF PrHeadIntact
  <2>2. ASSUME NEW w \in Workers, RunStep(w)
        PROVE  openPr'[b] = openPr[b] /\ branch'[b] = branch[b]
    <3>1. CASE Push(w)
      BY <2>1, <3>1 DEF Push, TypeInv, TypeOK
    <3>2. CASE OpenPr(w)
      BY <3>2 DEF OpenPr, TypeInv, TypeOK
    <3>3. CASE ~Push(w) /\ ~OpenPr(w)
      BY <2>2, <3>3 DEF RunStep, CreateRow, CreateFails, GraphEnds, PushRejected, Mirror, Finish,
         Raises, FailRow, FailRowFails, Report, gitVars
    <3> QED
      BY <3>1, <3>2, <3>3
  <2>3. CASE \E c \in Branches : HumanEndsPr(c)
    BY <2>3 DEF HumanEndsPr, TypeInv, TypeOK
  <2>4. CASE \/ \E j \in Jobs : Trigger(j)
             \/ \E w \in Workers : Take(w)
             \/ Stop \/ Boot \/ UNCHANGED vars
    BY <2>4 DEF Trigger, Take, Stop, Boot, vars, gitVars
  <2> QED
    BY <2>2, <2>3, <2>4 DEF Next
<1> QED
  BY <1>1, TypesHold, PrsIntact, PTL DEF Spec
=============================================================================
