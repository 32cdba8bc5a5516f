------------------------- MODULE OrchestrationProofs -------------------------
(***************************************************************************)
(* Proofs about Orchestration for every cap, limit and setting.            *)
(***************************************************************************)
EXTENDS Orchestration, TLAPS

-----------------------------------------------------------------------------
FlagsOK ==
    /\ coder_report \in BOOLEAN /\ review_report \in BOOLEAN
    /\ review_passed \in BOOLEAN /\ offPath \in BOOLEAN
    /\ has_commits \in BOOLEAN /\ approved \in BOOLEAN

\* Every variable of a run keeps its type.
THEOREM TypeCorrect == Spec => []TypeOK
<1>1. Init => TypeOK
  <2>1. Init => FlagsOK
    BY Zenon DEF Init, FlagsOK
  <2>2. RecursionLimit \in Nat
    BY RunAssumption
  <2>3. Init => steps \in 0..RecursionLimit
    BY <2>2 DEF Init
  <2> QED
    BY <2>1, <2>3 DEF Init, TypeOK, FlagsOK, Routes
<1>2. TypeOK /\ [Next]_vars => TypeOK'
  <2> SUFFICES ASSUME TypeOK, [Next]_vars PROVE TypeOK'
    OBVIOUS
  <2>1. RecursionLimit \in Nat
    BY RunAssumption
  <2> USE DEF TypeOK, Runs, state
  <2>2. CASE OrchestratorCaps
    BY <2>1, <2>2 DEF OrchestratorCaps, Routes
  <2>10. CASE OrchestratorDecides
    <3>1. FlagsOK'
      BY <2>10, Zenon DEF OrchestratorDecides, FlagsOK
    <3> QED
      BY <2>1, <2>10, <3>1 DEF OrchestratorDecides, FlagsOK
  <2>3. CASE CoderNode
    <3>1. FlagsOK'
      BY <2>3, Zenon DEF CoderNode, FlagsOK
    <3> QED
      BY <2>1, <2>3, <3>1 DEF CoderNode, FlagsOK
  <2>11. CASE CoderCommits
    <3>1. FlagsOK'
      BY <2>11, Zenon DEF CoderCommits, BranchGrows, FlagsOK
    <3> QED
      BY <2>1, <2>11, <3>1 DEF CoderCommits, BranchGrows, FlagsOK
  <2>4. CASE ReviewerNode
    <3>1. FlagsOK'
      BY <2>4, Zenon DEF ReviewerNode, Verdict, FlagsOK
    <3> QED
      BY <2>1, <2>4, <3>1 DEF ReviewerNode, Verdict, FlagsOK
  <2>5. CASE FinalizeNothing \/ AbortNode
    BY <2>1, <2>5 DEF FinalizeNothing, AbortNode
  <2>6. CASE OutOfSteps
    BY <2>6 DEF OutOfSteps
  <2>7. CASE FinalizeShips
    BY <2>1, <2>7 DEF FinalizeShips
  <2>8. CASE NodeRaises
    BY <2>8 DEF NodeRaises
  <2>9. CASE UNCHANGED vars
    BY <2>9 DEF vars
  <2> QED
    BY <2>2, <2>3, <2>4, <2>5, <2>6, <2>7, <2>8, <2>9, <2>10, <2>11 DEF Next, GraphStep
<1> QED
  BY <1>1, <1>2, PTL DEF Spec

-----------------------------------------------------------------------------
\* Outside the coder's turn a verdict that stands is one on the branch as it is,
\* and until the run ends no PR has been opened.
VerdictInv ==
    /\ review_passed /\ node \notin {"code", "end"} => approved
    /\ node # "end" => pr = "none"
    /\ ReadyPrWasApproved

\* A PR that is not a draft shows what the reviewer approved.
THEOREM ReadyPrsApproved == Spec => []ReadyPrWasApproved
<1>1. Init => VerdictInv
  BY DEF Init, VerdictInv, ReadyPrWasApproved
<1>2. TypeOK /\ VerdictInv /\ [Next]_vars => VerdictInv'
  <2> SUFFICES ASSUME TypeOK, VerdictInv, [Next]_vars PROVE VerdictInv'
    OBVIOUS
  <2> USE DEF TypeOK, VerdictInv, ReadyPrWasApproved, Runs, state
  <2>1. CASE OrchestratorCaps \/ OrchestratorDecides
    BY <2>1 DEF OrchestratorCaps, OrchestratorDecides
  <2>2. CASE CoderNode
    BY <2>2 DEF CoderNode
  <2>8. CASE CoderCommits
    BY <2>8 DEF CoderCommits, BranchGrows
  <2>3. CASE ReviewerNode
    BY <2>3 DEF ReviewerNode, Verdict
  <2>4. CASE FinalizeNothing \/ AbortNode \/ OutOfSteps
    BY <2>4 DEF FinalizeNothing, AbortNode, OutOfSteps
  <2>5. CASE FinalizeShips
    BY <2>5, RunAssumption DEF FinalizeShips, DraftPr
  <2>6. CASE NodeRaises
    BY <2>6, RunAssumption DEF NodeRaises, DraftPr
  <2>7. CASE UNCHANGED vars
    BY <2>7 DEF vars
  <2> QED
    BY <2>1, <2>2, <2>3, <2>4, <2>5, <2>6, <2>7, <2>8 DEF Next, GraphStep
<1>3. VerdictInv => ReadyPrWasApproved
  BY DEF VerdictInv
<1> QED
  BY <1>1, <1>2, <1>3, TypeCorrect, PTL DEF Spec

-----------------------------------------------------------------------------
\* Neither agent is called at the cap, so a review that passes is below it, and
\* the guard only lets the model choose below it.  Commits are the coder's, and there
\* is a PR only at the end.
CapInv ==
    /\ IterationsBounded
    /\ review_passed \/ node \in {"code", "review"} => iterations < MaxIterations
    /\ has_commits /\ node \notin {"code", "end"} => iterations > 0
    /\ node # "end" => pr = "none"

LEMMA CapKept == Spec => []CapInv
<1> USE RunAssumption
<1>1. Init => CapInv
  BY DEF Init, CapInv, IterationsBounded
<1>2. TypeOK /\ CapInv /\ [Next]_vars => CapInv'
  <2> SUFFICES ASSUME TypeOK, CapInv, [Next]_vars PROVE CapInv'
    OBVIOUS
  <2> USE DEF TypeOK, CapInv, IterationsBounded, Runs, state
  <2>1. CASE OrchestratorCaps \/ OrchestratorDecides
    BY <2>1 DEF OrchestratorCaps, OrchestratorDecides, CapReached
  <2>2. CASE CoderNode
    BY <2>2 DEF CoderNode
  <2>7. CASE CoderCommits
    BY <2>7 DEF CoderCommits, BranchGrows
  <2>3. CASE ReviewerNode
    BY <2>3 DEF ReviewerNode, Verdict
  <2>4. CASE FinalizeNothing \/ AbortNode \/ OutOfSteps
    BY <2>4 DEF FinalizeNothing, AbortNode, OutOfSteps
  <2>5. CASE FinalizeShips \/ NodeRaises
    BY <2>5 DEF FinalizeShips, NodeRaises, DraftPr
  <2>6. CASE UNCHANGED vars
    BY <2>6 DEF vars
  <2> QED
    BY <2>1, <2>2, <2>3, <2>4, <2>5, <2>6, <2>7 DEF Next, GraphStep
<1> QED
  BY <1>1, <1>2, TypeCorrect, PTL DEF Spec

\* The coder never has more turns than MAX_ITERATIONS, and what it has made in the last
\* of them is no ready PR.
THEOREM CapHolds == Spec => []IterationsBounded
<1>1. CapInv => IterationsBounded
  BY DEF CapInv
<1> QED
  BY <1>1, CapKept, PTL

-----------------------------------------------------------------------------
\* On the fallback's path a round is code and review, with the orchestrator before
\* each: the steps taken at every node are bounded by the turns of the coder.
StepsBounded ==
    /\ ended # "limit"
    /\ node # "abort"
    /\ node = "orchestrator" /\ ~coder_report => steps = 0 /\ ~review_passed
    /\ node = "code" => steps <= 4 * iterations + 1
    /\ node = "orchestrator" /\ coder_report /\ ~review_report =>
           steps <= 4 * iterations - 2 /\ ~review_passed
    /\ node = "review" => coder_report /\ steps <= 4 * iterations - 1
    /\ node = "orchestrator" /\ coder_report /\ review_report =>
           steps <= 4 * iterations /\ iterations < MaxIterations
    /\ node = "finalize" => steps < 4 * MaxIterations

LEMMA StepsStep ==
    ASSUME RoundsFit, ~offPath', TypeOK, CapInv, ~offPath => StepsBounded, [Next]_vars
    PROVE  StepsBounded'
<1>1. /\ MaxIterations \in Nat /\ RecursionLimit \in Nat
      /\ MaxIterations > 0 /\ 4 * MaxIterations <= RecursionLimit
      /\ steps \in Nat /\ iterations \in Nat
  BY RunAssumption DEF RoundsFit, TypeOK
<1> USE DEF StepsBounded, Runs, state
<1>2. CASE OrchestratorCaps
  BY <1>1, <1>2 DEF OrchestratorCaps, CapReached, CapInv, IterationsBounded
<1>8. CASE OrchestratorDecides
  <2>1. ~offPath /\ node' = FallbackRoute
    BY <1>8 DEF OrchestratorDecides
  <2> QED
    BY <1>1, <1>8, <2>1 DEF OrchestratorDecides, CapInv, FallbackRoute
<1>3. CASE CoderNode
  BY <1>1, <1>3 DEF CoderNode
<1>4. CASE ReviewerNode
  <2>1. ~offPath /\ review_report'
    BY <1>4 DEF ReviewerNode, Verdict
  <2> QED
    BY <1>1, <1>4, <2>1 DEF ReviewerNode, Verdict, CapInv
<1>5. CASE FinalizeNothing \/ FinalizeShips \/ AbortNode \/ NodeRaises
  BY <1>5 DEF FinalizeNothing, FinalizeShips, AbortNode, NodeRaises
<1>6. CASE OutOfSteps
  <2>1. steps < 4 * MaxIterations
    BY <1>1, <1>6 DEF OutOfSteps, CapInv, IterationsBounded, TypeOK, Routes
  <2> QED
    BY <1>1, <1>6, <2>1 DEF OutOfSteps
<1>9. CASE CoderCommits
  BY <1>1, <1>9 DEF CoderCommits, BranchGrows
<1>7. CASE UNCHANGED vars
  BY <1>7 DEF vars
<1> QED
  BY <1>2, <1>3, <1>4, <1>5, <1>6, <1>7, <1>8, <1>9 DEF Next, GraphStep

StepsInv == RoundsFit /\ ~offPath => StepsBounded

\* With the model keeping to the fallback, the recursion limit is no danger to a run whose
\* rounds fit in it.
THEOREM FallbackRunsFit == Spec => []FallbackFits
<1>1. Init => StepsInv
  BY RunAssumption DEF Init, StepsInv, StepsBounded
<1>2. TypeOK /\ CapInv /\ StepsInv /\ [Next]_vars => StepsInv'
  BY StepsStep DEF StepsInv, RoundsFit
<1>3. StepsInv => FallbackFits
  BY DEF StepsInv, StepsBounded, FallbackFits
<1> QED
  BY <1>1, <1>2, <1>3, TypeCorrect, CapKept, PTL DEF Spec

-----------------------------------------------------------------------------
\* A run has a status of its end exactly at its end, and no PR before.
EndInv ==
    /\ status = "running" <=> node # "end"
    /\ node # "end" => pr = "none"

\* What RunOutcome sees of a run.
Ending == [r \in {"this"} |-> IF node = "end" THEN status ELSE "open"]
Opened == IF pr = "none" THEN {} ELSE {"this"}

LEMMA EndKept == EndInv /\ [Next]_vars => EndInv'
<1> SUFFICES ASSUME EndInv, [Next]_vars PROVE EndInv'
  OBVIOUS
<1> USE DEF EndInv, Runs, state
<1>1. CASE OrchestratorCaps \/ OrchestratorDecides
  BY <1>1 DEF OrchestratorCaps, OrchestratorDecides, Routes
<1>2. CASE CoderNode \/ CoderCommits \/ ReviewerNode
  BY <1>2 DEF CoderNode, CoderCommits, BranchGrows, ReviewerNode
<1>3. CASE FinalizeNothing \/ FinalizeShips \/ AbortNode
  BY <1>3 DEF FinalizeNothing, FinalizeShips, AbortNode
<1>4. CASE NodeRaises \/ OutOfSteps
  BY <1>4 DEF NodeRaises, OutOfSteps
<1>5. CASE UNCHANGED vars
  BY <1>5 DEF vars
<1> QED
  BY <1>1, <1>2, <1>3, <1>4, <1>5 DEF Next, GraphStep

\* A step either leaves the run open or is its last one.
LEMMA NodeIsMove ==
    ASSUME TypeOK, EndInv, EndInv', TypeOK', Next
    PROVE  Outcome!OutcomeNext
<1>1. node # "end"
  BY DEF Next, GraphStep, OrchestratorCaps, OrchestratorDecides, CoderNode, CoderCommits,
         ReviewerNode, FinalizeNothing, FinalizeShips, AbortNode, NodeRaises, OutOfSteps, Runs
<1>2. /\ status' = "completed" => pr' # "none"
      /\ status' \in {"needs_human", "aborted"} => pr' = "none"
  <2> USE <1>1 DEF EndInv, Runs, state
  <2>1. CASE OrchestratorCaps \/ OrchestratorDecides
    BY <2>1 DEF OrchestratorCaps, OrchestratorDecides
  <2>2. CASE CoderNode \/ CoderCommits \/ ReviewerNode
    BY <2>2 DEF CoderNode, CoderCommits, BranchGrows, ReviewerNode
  <2>3. CASE FinalizeNothing \/ FinalizeShips \/ AbortNode
    BY <2>3 DEF FinalizeNothing, FinalizeShips, AbortNode
  <2>4. CASE NodeRaises \/ OutOfSteps
    BY <2>4 DEF NodeRaises, OutOfSteps
  <2> QED
    BY <2>1, <2>2, <2>3, <2>4 DEF Next, GraphStep
<1>3. /\ Ending["this"] = "open" /\ "this" \notin Opened
      /\ Ending'["this"] = IF node' = "end" THEN status' ELSE "open"
      /\ "this" \in Opened' <=> pr' # "none"
      /\ Opened' \subseteq {"this"}
  BY <1>1 DEF EndInv, Ending, Opened
<1>4. Ending' \in [{"this"} -> Outcome!Outcomes]
  BY DEF TypeOK, EndInv, Ending, Outcome!Outcomes
<1>5. Ending'["this"] = "completed" => "this" \in Opened'
  BY <1>2, <1>3
<1>6. Ending'["this"] \in {"needs_human", "aborted"} => "this" \notin Opened'
  BY <1>2, <1>3
<1> QED
  BY <1>3, <1>4, <1>5, <1>6 DEF Outcome!OutcomeNext, Outcome!Moves, Ending, Opened

\* Every run of the graph is one as RunOutcome describes it.
THEOREM IsOutcome == Spec => IsRunOutcome
<1>1. Init => EndInv /\ Outcome!OutcomeInit
  BY DEF Init, EndInv, Outcome!OutcomeInit
<1>2. TypeOK /\ TypeOK' /\ EndInv /\ EndInv' /\ [Next]_vars =>
        [Outcome!OutcomeNext]_<<Ending, Opened>>
  <2>1. UNCHANGED vars => UNCHANGED <<Ending, Opened>>
    BY DEF vars, Ending, Opened
  <2> QED
    BY <2>1, NodeIsMove
<1>3. EndInv /\ [Next]_vars => EndInv'
  BY EndKept
<1> QED
  BY <1>1, <1>2, <1>3, TypeCorrect, PTL DEF Spec, IsRunOutcome, Outcome!OutcomeSpec, Ending, Opened
=============================================================================
