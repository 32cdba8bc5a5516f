-------------------------- MODULE AgentTurnsProofs --------------------------
(***************************************************************************)
(* Proofs about AgentTurns for any files, contents, number of tools in a   *)
(* message and of messages in a turn.  That the turns implement            *)
(* Orchestration carries its theorems over to them.                        *)
(***************************************************************************)
EXTENDS AgentTurns, OrchestrationProofs

-----------------------------------------------------------------------------
(* Types of what the tools work on. *)

ToolsOK ==
    /\ call \in [Calls -> Writing \cup GitSteps \cup Over \cup {"submit"}]
    /\ file \in [Calls -> Files \cup {None}]
    /\ \A c \in Calls : call[c] \in {"open", "close", "remove"} => file[c] # None
    /\ \A c \in Calls : call[c] \notin {"open", "close", "remove", "run"} => file[c] = None

RepoOK ==
    /\ tree \in [Files -> Content]
    /\ index \in [Files -> Content]
    /\ committed \in [Files -> Content]
    /\ kept \in [Calls -> SUBSET Files]

FilesOK == ToolsOK /\ RepoOK

\* A node's tools run only while it does.
CallsFit ==
    \A c \in Calls :
        /\ call[c] \notin Over => node \in {"code", "review"} /\ steps < RecursionLimit
        /\ call[c] \in GitSteps => node = "code"
        /\ call[c] = "submit" => node = "review"

LEMMA GotoType ==
    ASSUME ToolsOK, NEW c \in Calls, NEW s \in Writing \cup GitSteps \cup Over \cup {"submit"},
           Goto(c, s)
    PROVE  /\ call' \in [Calls -> Writing \cup GitSteps \cup Over \cup {"submit"}]
           /\ call'[c] = s
           /\ \A d \in Calls \ {c} : call'[d] = call[d]
  BY DEF ToolsOK, Goto

LEMMA AnswersType ==
    ASSUME ToolsOK, NEW c \in Calls, Answers(c, "idle")
    PROVE  /\ ToolsOK'
           /\ call'[c] = "idle"
           /\ \A d \in Calls \ {c} : call'[d] = call[d] /\ file'[d] = file[d]
<1>1. /\ call' \in [Calls -> Writing \cup GitSteps \cup Over \cup {"submit"}]
      /\ call'[c] = "idle"
      /\ \A d \in Calls \ {c} : call'[d] = call[d]
  BY GotoType DEF Answers, Over
<1> QED
  BY <1>1 DEF ToolsOK, Answers

LEMMA ChangesType ==
    ASSUME RepoOK, NEW f \in Files, NEW x \in Content, Changes(f, x)
    PROVE  /\ tree' \in [Files -> Content]
           /\ kept' \in [Calls -> SUBSET Files]
           /\ tree'[f] = x
           /\ \A g \in Files \ {f} : tree'[g] = tree[g]
           /\ \A c \in Calls : kept'[c] = kept[c] \ {f}
  BY DEF RepoOK, Changes

LEMMA Contained == \A f : Written(f) \subseteq Content /\ Contents \subseteq Content /\ Torn \in Content
  BY DEF Written, Content

LEMMA GitDoesType ==
    ASSUME RepoOK, NEW s, GitDoes(s)
    PROVE  /\ index' \in [Files -> Content]
           /\ committed' \in [Files -> Content]
  BY DEF RepoOK, GitDoes

LEMMA FilesStep == FilesOK /\ [TurnsNext]_allVars => FilesOK'
<1> SUFFICES ASSUME FilesOK, [TurnsNext]_allVars PROVE FilesOK'
  OBVIOUS
<1> USE DEF FilesOK
<1>1. CASE UNCHANGED allVars
  BY <1>1 DEF allVars, turnVars, git, ToolsOK, RepoOK
<1>2. ASSUME NEW c \in Calls, ToolStep(c) PROVE FilesOK'
  <2>1. CASE WriteOpens(c)
    <3>1. file[c] \in Files
      BY <2>1, TurnAssumption DEF WriteOpens, ToolsOK
    <3>2. ToolsOK'
      BY <2>1, GotoType DEF WriteOpens, ToolsOK, Writing
    <3> QED
      BY <2>1, <3>1, <3>2, ChangesType, Contained DEF WriteOpens, RepoOK, git
  <2>2. CASE WriteCloses(c) \/ Removes(c)
    <3>1. file[c] \in Files
      BY <2>2, TurnAssumption DEF WriteCloses, Removes, ToolsOK
    <3>2. ToolsOK'
      BY <2>2, AnswersType DEF WriteCloses, Removes
    <3> QED
      BY <2>2, <3>1, <3>2, ChangesType, Contained DEF WriteCloses, Removes, RepoOK, git
  <2>3. CASE FileToolFails(c) \/ CommandEnds(c) \/ CommandTimesOut(c) \/ Submits(c)
    <3>1. ToolsOK'
      BY <2>3, AnswersType DEF FileToolFails, CommandEnds, CommandTimesOut, Submits
    <3> QED
      BY <2>3, <3>1 DEF FileToolFails, CommandEnds, CommandTimesOut, Submits, RepoOK, git
  <2>4. CASE GitRuns(c)
    <3>1. GitNext(call[c]) \in GitSteps \cup Over
      BY <2>4 DEF GitRuns, GitNext, GitSteps, Over
    <3>2. ToolsOK'
      BY <2>4, <3>1, GotoType DEF GitRuns, ToolsOK, GitSteps, Over
    <3> QED
      BY <2>4, <3>2, GitDoesType DEF GitRuns, RepoOK
  <2>5. CASE GitFails(c) \/ GitTimesOut(c)
    <3>1. GitGivesUp(c) /\ call[c] \in GitSteps
      BY <2>5 DEF GitFails, GitTimesOut, GitSteps
    <3>2. ToolsOK'
      BY <3>1, GotoType DEF GitGivesUp, ToolsOK, GitSteps, Over
    <3>3. index' \in [Files -> Content] /\ committed' \in [Files -> Content]
      BY <2>5, GitDoesType DEF GitFails, GitTimesOut, RepoOK, git
    <3> QED
      BY <3>1, <3>2, <3>3 DEF GitGivesUp, RepoOK
  <2> QED
    BY <1>2, <2>1, <2>2, <2>3, <2>4, <2>5 DEF ToolStep
<1>3. ASSUME NEW c \in Calls, CommandOpens(c) \/ CommandCloses(c) PROVE FilesOK'
  <2>1. ToolsOK'
    BY <1>3 DEF CommandOpens, CommandCloses, ToolsOK
  <2>2. CASE CommandOpens(c)
    BY <2>1, <2>2, ChangesType, Contained DEF CommandOpens, RepoOK, git
  <2>3. CASE CommandCloses(c)
    <3>1. file[c] \in Files
      BY <2>3 DEF CommandCloses, ToolsOK
    <3> QED
      BY <2>1, <2>3, <3>1, ChangesType, Contained DEF CommandCloses, RepoOK, git
  <2> QED
    BY <1>3, <2>2, <2>3
<1>4. CASE StrayWrites
  <2>1. ToolsOK'
    BY <1>4 DEF StrayWrites, ToolsOK
  <2> QED
    BY <1>4, <2>1, ChangesType DEF StrayWrites, RepoOK, git
<1>5. CASE Message
  <2>1. PICK n \in {"code", "review"}, T \in {CoderTools, ReviewerTools} : Asks(n, T)
    BY <1>5 DEF Message
  <2>2. T \cup {"idle"} \subseteq Writing \cup GitSteps \cup Over \cup {"submit"}
    BY DEF CoderTools, ReviewerTools, Writing, GitSteps, Over
  <2>3. /\ call' \in [Calls -> T \cup {"idle"}]
        /\ file' \in [Calls -> Files \cup {None}]
        /\ \A c \in Calls : file'[c] # None <=> call'[c] \in {"open", "remove"}
    BY <2>1 DEF Asks
  <2>4. ToolsOK'
    BY <2>2, <2>3 DEF ToolsOK, CoderTools, ReviewerTools
  <2> QED
    BY <2>1, <2>4 DEF Asks, RepoOK, git
<1>6. CASE CoderEnds \/ ReviewerEnds
  BY <1>6 DEF CoderEnds, ReviewerEnds, ClearsCalls, ToolsOK, RepoOK, git, Over
<1>7. CASE Routing
  BY <1>7 DEF Routing, turnVars, git, ToolsOK, RepoOK
<1>8. CASE LastNode \/ TurnRaises
  BY <1>8, TurnAssumption DEF LastNode, TurnRaises, CleansUp, ToolsOK, RepoOK, Over, Content
<1> QED
  BY <1>1, <1>2, <1>3, <1>4, <1>5, <1>6, <1>7, <1>8 DEF TurnsNext, TurnsStep

LEMMA FilesInit == TurnsInit => FilesOK
  BY TurnAssumption DEF TurnsInit, FilesOK, ToolsOK, RepoOK, Over, Content

LEMMA FilesKept == TurnsSpec => []FilesOK
<1> QED
  BY FilesInit, FilesStep, PTL DEF TurnsSpec

-----------------------------------------------------------------------------
(* The turns implement the graph. *)

LEMMA CallsFitStep == FilesOK /\ CallsFit /\ [TurnsNext]_allVars => CallsFit'
<1> SUFFICES ASSUME FilesOK, CallsFit, [TurnsNext]_allVars PROVE CallsFit'
  OBVIOUS
<1> USE DEF CallsFit, FilesOK
<1>1. CASE UNCHANGED allVars
  BY <1>1 DEF allVars, turnVars, vars
<1>2. ASSUME NEW c \in Calls, NEW s \in {"close"} \cup GitSteps \cup Over, call[c] \notin Over,
             s \in GitSteps => call[c] \in GitSteps, Goto(c, s), node' = node, steps' = steps
      PROVE  CallsFit'
  BY <1>2, GotoType DEF ToolsOK, Writing, GitSteps, Over
<1>3. ASSUME NEW c \in Calls, ToolStep(c) PROVE CallsFit'
  <2>1. CASE WriteOpens(c)
    BY <1>2, <2>1 DEF WriteOpens, vars, Over, GitSteps
  <2>2. CASE WriteCloses(c) \/ Removes(c) \/ FileToolFails(c) \/ CommandEnds(c)
             \/ CommandTimesOut(c) \/ Submits(c)
    <3>1. call[c] \notin Over
      BY <2>2 DEF WriteCloses, Removes, FileToolFails, CommandEnds, CommandTimesOut, Submits, Over
    <3>2. Goto(c, "idle") /\ node' = node /\ steps' = steps
      BY <2>2 DEF WriteCloses, Removes, FileToolFails, CommandEnds, CommandTimesOut, Submits,
         Answers, vars
    <3> QED
      BY <1>2, <3>1, <3>2 DEF Over, GitSteps
  <2>3. CASE GitRuns(c)
    <3>1. /\ call[c] \in GitSteps /\ Goto(c, GitNext(call[c]))
          /\ node' = node /\ steps' = steps
      BY <2>3 DEF GitRuns, GitDoes, BranchGrows, vars
    <3>2. GitNext(call[c]) \in GitSteps \cup Over
      BY <3>1 DEF GitNext, GitSteps, Over
    <3> QED
      BY <1>2, <3>1, <3>2 DEF GitSteps, Over
  <2>4. CASE GitFails(c) \/ GitTimesOut(c)
    <3>1. /\ call[c] \in GitSteps /\ Goto(c, "idle")
          /\ node' = node /\ steps' = steps
      BY <2>4 DEF GitFails, GitTimesOut, GitGivesUp, GitDoes, BranchGrows, vars, GitSteps
    <3> QED
      BY <1>2, <3>1 DEF GitSteps, Over
  <2> QED
    BY <1>3, <2>1, <2>2, <2>3, <2>4 DEF ToolStep
<1>4. CASE StrayWrites \/ \E c \in Calls : CommandOpens(c) \/ CommandCloses(c)
  BY <1>4 DEF StrayWrites, CommandOpens, CommandCloses, vars
<1>5. CASE Message
  BY <1>5 DEF Message, Asks, CoderTools, ReviewerTools, vars, GitSteps
<1>6. CASE CoderEnds \/ ReviewerEnds
  BY <1>6 DEF CoderEnds, ReviewerEnds, ClearsCalls, Over, GitSteps
<1>7. CASE Routing
  <2>1. node = "orchestrator" /\ call' = call
    BY <1>7 DEF Routing, OrchestratorCaps, OrchestratorDecides, Runs, turnVars
  <2> QED
    BY <2>1 DEF ToolsOK, Over, GitSteps
<1>8. CASE LastNode \/ TurnRaises
  BY <1>8 DEF LastNode, TurnRaises, CleansUp, Over, GitSteps
<1> QED
  BY <1>1, <1>3, <1>4, <1>5, <1>6, <1>7, <1>8 DEF TurnsNext, TurnsStep

LEMMA CallsFitKept == TurnsSpec => []CallsFit
<1>1. TurnsInit => CallsFit
  BY DEF TurnsInit, CallsFit, Over, GitSteps
<1> QED
  BY <1>1, CallsFitStep, FilesKept, PTL DEF TurnsSpec

LEMMA MapsToGraph == CallsFit /\ [TurnsNext]_allVars => [Next]_vars
<1> SUFFICES ASSUME CallsFit, [TurnsNext]_allVars PROVE [Next]_vars
  OBVIOUS
<1>1. CASE UNCHANGED allVars
  BY <1>1 DEF allVars
<1>2. ASSUME NEW c \in Calls, ToolStep(c) PROVE [Next]_vars
  <2>1. CASE GitRuns(c) \/ GitFails(c) \/ GitTimesOut(c)
    <3>1. call[c] \in GitSteps /\ (UNCHANGED vars \/ BranchGrows)
      BY <2>1 DEF GitRuns, GitFails, GitTimesOut, GitDoes, GitSteps
    <3>2. node = "code" /\ steps < RecursionLimit
      BY <3>1 DEF CallsFit, GitSteps, Over
    <3> QED
      BY <3>1, <3>2 DEF Next, CoderCommits
  <2>2. CASE ~(GitRuns(c) \/ GitFails(c) \/ GitTimesOut(c))
    BY <1>2, <2>2 DEF ToolStep, WriteOpens, WriteCloses, FileToolFails, Removes, CommandEnds,
       CommandTimesOut, Submits
  <2> QED
    BY <2>1, <2>2
<1>3. CASE Message \/ StrayWrites \/ \E c \in Calls : CommandOpens(c) \/ CommandCloses(c)
  BY <1>3 DEF Message, Asks, StrayWrites, CommandOpens, CommandCloses
<1>4. CASE CoderEnds \/ ReviewerEnds \/ Routing \/ LastNode \/ TurnRaises
  BY <1>4 DEF CoderEnds, ReviewerEnds, Routing, LastNode, TurnRaises, Next, GraphStep
<1> QED
  BY <1>1, <1>2, <1>3, <1>4 DEF TurnsNext, TurnsStep

\* A run told tool by tool is a run as Orchestration tells it.
THEOREM TurnsImplementGraph == TurnsSpec => ImplementsGraph
<1>1. TurnsInit => Init
  BY DEF TurnsInit
<1> QED
  BY <1>1, MapsToGraph, CallsFitKept, PTL DEF TurnsSpec, ImplementsGraph, Spec

\* What holds of every run of the graph holds of one with its tools.
THEOREM TurnsKeepVerdict == TurnsSpec => []ReadyPrWasApproved
  BY TurnsImplementGraph, ReadyPrsApproved, PTL DEF ImplementsGraph

\* So does the cap on the coder's turns.  (builder.py orchestrator_node)
THEOREM TurnsKeepCap == TurnsSpec => []IterationsBounded
  BY TurnsImplementGraph, CapHolds, PTL DEF ImplementsGraph

\* The turns of the agents, with all that may fail in them, make a run that ends
\* once and tells the truth about its PR.
THEOREM TurnsAreOutcome == TurnsSpec => IsRunOutcome
  BY TurnsImplementGraph, IsOutcome, PTL DEF ImplementsGraph

-----------------------------------------------------------------------------
(* git_commit covers what was written before it. *)

CoverInv ==
    \A c \in Calls : \A f \in kept[c] :
        /\ call[c] \in {"status", "commit", "ok"} => index[f] = tree[f]
        /\ call[c] = "ok" => committed[f] = tree[f]

LEMMA TreeChangesCovered ==
    ASSUME FilesOK, CoverInv, NEW f \in Files, NEW x \in Content, Changes(f, x), UNCHANGED git,
           \A c \in Calls : call'[c] = call[c] \/ call'[c] \notin {"status", "commit", "ok"}
    PROVE  CoverInv'
<1>1. \A c \in Calls : \A g \in kept'[c] : g \in kept[c] /\ g \in Files /\ tree'[g] = tree[g]
  BY ChangesType DEF FilesOK, RepoOK
<1> QED
  BY <1>1 DEF CoverInv, git

LEMMA CallsAloneCovered ==
    ASSUME FilesOK, CoverInv, UNCHANGED <<tree, index, committed>>,
           \A c \in Calls : kept'[c] \subseteq kept[c],
           \A c \in Calls : call'[c] = call[c] \/ call'[c] \notin {"status", "commit", "ok"}
    PROVE  CoverInv'
  BY DEF CoverInv

LEMMA CoverStep == FilesOK /\ CoverInv /\ [TurnsNext]_allVars => CoverInv'
<1> SUFFICES ASSUME FilesOK, CoverInv, [TurnsNext]_allVars PROVE CoverInv'
  OBVIOUS
<1>1. CASE UNCHANGED allVars
  BY <1>1 DEF allVars, turnVars, git, CoverInv
<1>2. ASSUME NEW c \in Calls, ToolStep(c) PROVE CoverInv'
  <2>0. ToolsOK /\ RepoOK
    BY DEF FilesOK
  <2>1. CASE WriteOpens(c)
    <3>1. file[c] \in Files
      BY <2>0, <2>1, TurnAssumption DEF WriteOpens, ToolsOK
    <3>2. \A d \in Calls : call'[d] = call[d] \/ call'[d] = "close"
      BY <2>0, <2>1, GotoType DEF WriteOpens, Writing
    <3> QED
      BY <2>1, <3>1, <3>2, Contained, TreeChangesCovered DEF WriteOpens
  <2>2. CASE WriteCloses(c) \/ Removes(c)
    <3>1. file[c] \in Files
      BY <2>0, <2>2, TurnAssumption DEF WriteCloses, Removes, ToolsOK
    <3>2. \A d \in Calls : call'[d] = call[d] \/ call'[d] = "idle"
      BY <2>0, <2>2, AnswersType DEF WriteCloses, Removes
    <3> QED
      BY <2>2, <3>1, <3>2, Contained, TreeChangesCovered DEF WriteCloses, Removes
  <2>3. CASE FileToolFails(c) \/ CommandEnds(c) \/ CommandTimesOut(c) \/ Submits(c)
    <3>1. \A d \in Calls : call'[d] = call[d] \/ call'[d] = "idle"
      BY <2>0, <2>3, AnswersType DEF FileToolFails, CommandEnds, CommandTimesOut, Submits
    <3> QED
      BY <2>3, <3>1, CallsAloneCovered
         DEF FileToolFails, CommandEnds, CommandTimesOut, Submits, git
  <2>4. CASE GitRuns(c)
    <3>1. \A d \in Calls \ {c} : call'[d] = call[d]
      BY <2>4 DEF GitRuns, Goto, FilesOK, ToolsOK
    <3>2. call'[c] = GitNext(call[c]) /\ call[c] \in GitSteps /\ kept' = kept /\ tree' = tree
      BY <2>4 DEF GitRuns, Goto, FilesOK, ToolsOK
    <3>3. \A d \in Calls : kept[d] \subseteq Files
      BY <2>0 DEF RepoOK
    <3>4. CASE call[c] = "add"
      <4>1. index' = tree /\ committed' = committed /\ call'[c] = "status"
        BY <2>4, <3>2, <3>4 DEF GitRuns, GitDoes, GitNext
      <4> QED
        BY <3>1, <3>2, <4>1 DEF CoverInv
    <3>5. CASE call[c] = "status"
      <4>1. index' = index /\ committed' = committed
        BY <2>4, <3>5 DEF GitRuns, GitDoes
      <4>2. call'[c] = "ok" => Clean
        BY <3>2, <3>5 DEF GitNext
      <4> QED
        BY <3>1, <3>2, <3>5, <4>1, <4>2 DEF CoverInv, Clean
    <3>6. CASE call[c] = "commit"
      <4>1. index' = index /\ committed' = index
        BY <2>4, <3>6 DEF GitRuns, GitDoes
      <4> QED
        BY <3>1, <3>2, <3>6, <4>1 DEF CoverInv
    <3> QED
      BY <3>2, <3>4, <3>5, <3>6 DEF GitSteps
  <2>5. CASE GitFails(c) \/ GitTimesOut(c)
    <3>1. GitGivesUp(c)
      BY <2>5 DEF GitFails, GitTimesOut
    <3>2. /\ \A d \in Calls : call'[d] = call[d] \/ call'[d] = "idle"
          /\ \A d \in Calls : kept'[d] \subseteq kept[d]
          /\ tree' = tree
      BY <2>0, <3>1 DEF GitGivesUp, Goto, ToolsOK, RepoOK
    <3>3. \/ UNCHANGED <<index, committed>>
          \/ index' = tree /\ committed' = committed
          \/ index' = index /\ committed' = index
      BY <2>5 DEF GitFails, GitTimesOut, GitDoes, git
    <3> QED
      BY <3>2, <3>3 DEF CoverInv
  <2> QED
    BY <1>2, <2>1, <2>2, <2>3, <2>4, <2>5 DEF ToolStep
<1>3. ASSUME NEW c \in Calls, CommandOpens(c) \/ CommandCloses(c) PROVE CoverInv'
  <2>1. CASE CommandOpens(c)
    BY <2>1, Contained, TreeChangesCovered DEF CommandOpens
  <2>2. CASE CommandCloses(c)
    <3>1. file[c] \in Files
      BY <2>2 DEF CommandCloses, FilesOK, ToolsOK
    <3> QED
      BY <2>2, <3>1, Contained, TreeChangesCovered DEF CommandCloses
  <2> QED
    BY <1>3, <2>1, <2>2
<1>4. CASE StrayWrites
  BY <1>4, TreeChangesCovered DEF StrayWrites
<1>5. CASE Message
  BY <1>5 DEF Message, Asks, CoderTools, ReviewerTools, CoverInv
<1>6. CASE CoderEnds \/ ReviewerEnds \/ LastNode \/ TurnRaises
  BY <1>6 DEF CoderEnds, ReviewerEnds, ClearsCalls, LastNode, TurnRaises, CleansUp, CoverInv
<1>7. CASE Routing
  BY <1>7 DEF Routing, turnVars, git, CoverInv
<1> QED
  BY <1>1, <1>2, <1>3, <1>4, <1>5, <1>6, <1>7 DEF TurnsNext, TurnsStep

\* A git_commit that has answered has committed what was there when it was asked for.
THEOREM CommitsCover == TurnsSpec => []CommitCovers
<1>1. TurnsInit => CoverInv
  BY DEF TurnsInit, CoverInv
<1>2. CoverInv => CommitCovers
  BY DEF CoverInv, CommitCovers
<1> QED
  BY <1>1, <1>2, CoverStep, FilesKept, PTL DEF TurnsSpec

-----------------------------------------------------------------------------
(* Half a file gets into HEAD only by two tools at once, after an error, or by *)
(* what a command has left behind.                                             *)

Active(c) == call[c] \notin Over
HasOpen(c) == call[c] = "close" \/ (call[c] = "run" /\ file[c] # None)

WholeInv ==
    ~warned /\ ~stray =>
        /\ \A c, d \in Calls : Active(c) /\ Active(d) => c = d
        /\ \A f \in Files : index[f] # Torn /\ committed[f] # Torn
        /\ \A f \in Files : tree[f] = Torn => \E c \in Calls : HasOpen(c) /\ file[c] = f
        /\ \A c \in Calls : HasOpen(c) => tree[file[c]] = Torn

LEMMA WholeToolStep ==
    ASSUME FilesOK, WholeInv, NEW c \in Calls, ToolStep(c) \/ CommandOpens(c) \/ CommandCloses(c),
           ~warned', ~stray'
    PROVE  WholeInv'
<1>1. ~warned /\ ~stray /\ Active(c)
  <2>1. CASE GitRuns(c) \/ GitFails(c) \/ GitTimesOut(c)
    <3>1. warned' = warned /\ stray' = stray
      BY <2>1 DEF GitRuns, GitFails, GitTimesOut, GitGivesUp
    <3>2. call[c] \in GitSteps
      BY <2>1 DEF GitRuns, GitFails, GitTimesOut, GitSteps
    <3> QED
      BY <3>1, <3>2 DEF WholeInv, Active, Over, GitSteps
  <2>2. CASE ~(GitRuns(c) \/ GitFails(c) \/ GitTimesOut(c))
    <3>1. warned' = warned \/ warned'
      BY <2>2 DEF ToolStep, CommandOpens, CommandCloses, WriteOpens, WriteCloses, FileToolFails,
         Removes, CommandEnds, CommandTimesOut, Submits
    <3>2. ~stray
      BY <2>2 DEF ToolStep, CommandOpens, CommandCloses, WriteOpens, WriteCloses, FileToolFails,
         Removes, CommandEnds, CommandTimesOut, Submits, git
    <3>3. call[c] \in {"open", "close", "remove", "run", "submit"}
      BY <2>2 DEF ToolStep, CommandOpens, CommandCloses, WriteOpens, WriteCloses, FileToolFails,
         Removes, CommandEnds, CommandTimesOut, Submits
    <3> QED
      BY <3>1, <3>2, <3>3 DEF WholeInv, Active, Over
  <2> QED
    BY <2>1, <2>2
<1>2. /\ \A d \in Calls \ {c} : ~Active(d) /\ ~HasOpen(d)
      /\ \A f \in Files : index[f] # Torn /\ committed[f] # Torn
      /\ \A f \in Files : tree[f] = Torn => HasOpen(c) /\ file[c] = f
      /\ HasOpen(c) => tree[file[c]] = Torn
  BY <1>1 DEF WholeInv, Active, HasOpen, Over
<1>3. SUFFICES /\ \A d \in Calls \ {c} : call'[d] = call[d]
               /\ \A f \in Files : index'[f] # Torn /\ committed'[f] # Torn
               /\ \A f \in Files : tree'[f] = Torn => HasOpen(c)' /\ file'[c] = f
               /\ HasOpen(c)' => tree'[file'[c]] = Torn
  BY <1>2, <1>3 DEF WholeInv, Active, HasOpen, Over
<1>4. ToolsOK /\ RepoOK
  BY DEF FilesOK
<1>5. CASE WriteOpens(c)
  <2>1. file[c] \in Files /\ file' = file /\ ~HasOpen(c)
    BY <1>4, <1>5, TurnAssumption DEF WriteOpens, ToolsOK, HasOpen
  <2> QED
    BY <1>1, <1>2, <1>4, <1>5, <2>1, GotoType, ChangesType, Contained
       DEF WriteOpens, HasOpen, git, Writing
<1>6. CASE WriteCloses(c) \/ Removes(c)
  <2>1. file[c] \in Files
    BY <1>4, <1>6, TurnAssumption DEF WriteCloses, Removes, ToolsOK
  <2>2. PICK x \in Contents : Changes(file[c], x)
    BY <1>2, <1>6 DEF WriteCloses, Removes, HasOpen, Written
  <2>3. \A f \in Files : tree'[f] # Torn
    BY <1>2, <1>4, <2>1, <2>2, ChangesType, Contained, TurnAssumption DEF WriteCloses, Removes, HasOpen
  <2>4. Answers(c, "idle") /\ UNCHANGED <<git, stray>>
    BY <1>6 DEF WriteCloses, Removes
  <2> QED
    BY <1>1, <1>2, <1>4, <2>3, <2>4, AnswersType DEF HasOpen, git
<1>7. CASE CommandEnds(c) \/ Submits(c)
  <2>1. Answers(c, "idle") /\ UNCHANGED <<tree, git>> /\ ~HasOpen(c)
    BY <1>7 DEF CommandEnds, Submits, HasOpen
  <2> QED
    BY <1>1, <1>2, <1>4, <2>1, AnswersType DEF HasOpen, git
<1>8. CASE FileToolFails(c) \/ CommandTimesOut(c)
  BY <1>8 DEF FileToolFails, CommandTimesOut
<1>9. CASE GitRuns(c) \/ GitFails(c) \/ GitTimesOut(c)
  <2>1. PICK s \in GitSteps \cup Over : Goto(c, s)
    BY <1>9 DEF GitRuns, GitFails, GitTimesOut, GitGivesUp, GitNext, GitSteps, Over
  <2>2. /\ UNCHANGED <<file, tree, stray>> /\ ~HasOpen(c)
    BY <1>9 DEF GitRuns, GitFails, GitTimesOut, GitGivesUp, HasOpen, GitSteps
  <2>3. /\ index' \in {index, tree}
        /\ committed' \in {committed, index}
    BY <1>9 DEF GitRuns, GitFails, GitTimesOut, GitDoes, git
  <2>4. ~HasOpen(c)'
    BY <1>4, <2>1, GotoType DEF HasOpen, GitSteps, Over
  <2> QED
    BY <1>1, <1>2, <1>4, <2>1, <2>2, <2>3, <2>4, GotoType
<1>10. CASE CommandOpens(c)
  <2>1. PICK f \in Files : Changes(f, Torn) /\ file' = [file EXCEPT ![c] = f]
    BY <1>10 DEF CommandOpens
  <2>2. file'[c] = f /\ f # None /\ call' = call /\ UNCHANGED <<git, stray>>
    BY <1>4, <1>10, <2>1, TurnAssumption DEF CommandOpens, ToolsOK
  <2> QED
    BY <1>1, <1>2, <1>4, <1>10, <2>1, <2>2, ChangesType, Contained DEF CommandOpens, HasOpen, git
<1>11. CASE CommandCloses(c)
  <2>1. file[c] \in Files
    BY <1>4, <1>11 DEF CommandCloses, ToolsOK
  <2>2. PICK x \in Contents : Changes(file[c], x)
    BY <1>2, <1>11 DEF CommandCloses, HasOpen, Written
  <2>3. \A f \in Files : tree'[f] # Torn
    BY <1>2, <1>4, <2>1, <2>2, ChangesType, Contained, TurnAssumption
  <2>4. file'[c] = None /\ call' = call /\ UNCHANGED <<git, stray>>
    BY <1>4, <1>11 DEF CommandCloses, ToolsOK
  <2> QED
    BY <1>1, <1>2, <1>11, <2>3, <2>4 DEF CommandCloses, HasOpen, git
<1> QED
  BY <1>5, <1>6, <1>7, <1>8, <1>9, <1>10, <1>11 DEF ToolStep

LEMMA WholeStep == FilesOK /\ WholeInv /\ [TurnsNext]_allVars => WholeInv'
<1> SUFFICES ASSUME FilesOK, WholeInv, [TurnsNext]_allVars, ~warned', ~stray' PROVE WholeInv'
  BY DEF WholeInv
<1>1. CASE UNCHANGED allVars \/ Routing
  BY <1>1 DEF allVars, turnVars, git, Routing, WholeInv, Active, HasOpen
<1>2. CASE \E c \in Calls : ToolStep(c) \/ CommandOpens(c) \/ CommandCloses(c)
  BY <1>2, WholeToolStep
<1>3. CASE StrayWrites
  BY <1>3 DEF StrayWrites, WholeInv
<1>4. CASE Message
  <2>1. PICK n \in {"code", "review"}, T \in {CoderTools, ReviewerTools} : Asks(n, T)
    BY <1>4 DEF Message
  <2>2. ~warned /\ ~stray /\ Quiet /\ UNCHANGED <<tree, git>>
    BY <2>1 DEF Asks
  <2>3. \A c \in Calls : ~HasOpen(c)
    BY <2>2 DEF Quiet, HasOpen, Over
  <2>4. \A c, d \in Calls : call'[c] # "idle" /\ call'[d] # "idle" => c = d
    BY <2>1 DEF Asks
  <2>5. \A c \in Calls : ~HasOpen(c)'
    <3> TAKE c \in Calls
    <3>1. call'[c] \in T \cup {"idle"} /\ (file'[c] # None <=> call'[c] \in {"open", "remove"})
      BY <2>1 DEF Asks
    <3>2. call'[c] # "close"
      BY <3>1 DEF CoderTools, ReviewerTools
    <3> QED
      BY <3>1, <3>2 DEF HasOpen
  <2> QED
    BY <2>2, <2>3, <2>4, <2>5 DEF WholeInv, Active, Over, git
<1>5. CASE CoderEnds \/ ReviewerEnds
  BY <1>5 DEF CoderEnds, ReviewerEnds, ClearsCalls, Quiet, WholeInv, Active, HasOpen, Over, git
<1>6. CASE LastNode \/ TurnRaises
  BY <1>6, TurnAssumption DEF LastNode, TurnRaises, CleansUp, WholeInv, Active, HasOpen, Over
<1> QED
  BY <1>1, <1>2, <1>3, <1>4, <1>5, <1>6 DEF TurnsNext, TurnsStep

\* Tools one at a time that answer without an error, of which no command has left
\* anything behind, put no half file in HEAD.  (fs_tools.py write_file, git_tools.py)
THEOREM HeadStaysWhole == TurnsSpec => []HeadWhole
<1>1. TurnsInit => WholeInv
  BY TurnAssumption DEF TurnsInit, WholeInv, Active, HasOpen, Over
<1>2. WholeInv => HeadWhole
  BY DEF WholeInv, HeadWhole
<1> QED
  BY <1>1, <1>2, WholeStep, FilesKept, PTL DEF TurnsSpec

-----------------------------------------------------------------------------
\* A verdict is the current review's, and stands only while the branch does.
ReviewInv ==
    /\ node # "review" => verdict.approved = FALSE
    /\ verdict.approved => looked
    /\ review_passed /\ node \notin {"code", "end"} => looked
    /\ node # "end" => pr = "none"
    /\ ReadyPrWasReviewed

LEMMA LookedAway ==
    ASSUME CallsFit, ReviewInv, NEW c \in Calls, call[c] \in GitSteps, GitDoes(call[c])
    PROVE  UNCHANGED <<node, review_passed, pr>> /\ (UNCHANGED looked \/ node = "code")
  BY DEF CallsFit, GitDoes, BranchGrows, vars

LEMMA ReviewStep == TypeOK /\ CallsFit /\ ReviewInv /\ [TurnsNext]_allVars => ReviewInv'
<1> SUFFICES ASSUME TypeOK, CallsFit, ReviewInv, [TurnsNext]_allVars PROVE ReviewInv'
  OBVIOUS
<1> USE DEF ReviewInv, ReadyPrWasReviewed
<1>1. CASE UNCHANGED allVars
  BY <1>1 DEF allVars, turnVars, said, vars
<1>2. ASSUME NEW c \in Calls, ToolStep(c) PROVE ReviewInv'
  <2>1. CASE GitRuns(c) \/ GitFails(c) \/ GitTimesOut(c)
    <3>1. /\ verdict' = verdict /\ UNCHANGED <<node, review_passed, pr>>
          /\ UNCHANGED looked \/ node = "code"
      BY <2>1, LookedAway DEF GitRuns, GitFails, GitTimesOut, GitGivesUp, vars
    <3> QED
      BY <3>1
  <2>2. CASE Submits(c)
    <3>1. PICK yes, text \in BOOLEAN :
            /\ verdict' = [submitted |-> TRUE, approved |-> yes, summary |-> text]
            /\ looked' = (looked \/ yes)
      BY <2>2 DEF Submits
    <3>2. verdict'.approved = yes
      BY <3>1, Zenon
    <3>3. node = "review" /\ UNCHANGED vars
      BY <2>2 DEF Submits, CallsFit
    <3> QED
      BY <3>1, <3>2, <3>3 DEF vars
  <2>3. CASE WriteOpens(c) \/ WriteCloses(c) \/ FileToolFails(c) \/ Removes(c)
             \/ CommandEnds(c) \/ CommandTimesOut(c)
    <3>1. UNCHANGED <<vars, verdict, looked>>
      BY <2>3, Zenon DEF WriteOpens, WriteCloses, FileToolFails, Removes, CommandEnds,
         CommandTimesOut, said
    <3> QED
      BY <3>1 DEF vars
  <2> QED
    BY <1>2, <2>1, <2>2, <2>3 DEF ToolStep
<1>3. CASE Message \/ StrayWrites \/ \E c \in Calls : CommandOpens(c) \/ CommandCloses(c)
  BY <1>3 DEF Message, Asks, StrayWrites, CommandOpens, CommandCloses, said, vars
<1>4. CASE CoderEnds
  BY <1>4 DEF CoderEnds, CoderNode, Runs, ClearsCalls
<1>5. CASE ReviewerEnds
  <2>1. NoVerdict.approved = FALSE
    BY Zenon DEF NoVerdict
  <2> QED
    BY <1>5, <2>1 DEF ReviewerEnds, ReviewerNode, Runs, ClearsCalls
<1>6. CASE Routing
  BY <1>6 DEF Routing, OrchestratorCaps, OrchestratorDecides, Runs, state, turnVars, said
<1>7. CASE LastNode \/ TurnRaises
  <2>1. NoVerdict.approved = FALSE
    BY Zenon DEF NoVerdict
  <2> QED
    BY <1>7, <2>1 DEF LastNode, TurnRaises, CleansUp, FinalizeNothing, FinalizeShips, AbortNode,
       OutOfSteps, NodeRaises, DraftPr, Runs, state
<1> QED
  BY <1>1, <1>2, <1>3, <1>4, <1>5, <1>6, <1>7 DEF TurnsNext, TurnsStep

\* A ready PR shows what was there when submit_review approved.
THEOREM ReadyPrsReviewed == TurnsSpec => []ReadyPrWasReviewed
<1>1. TurnsInit => ReviewInv
  <2>1. NoVerdict.approved = FALSE
    BY Zenon DEF NoVerdict
  <2> QED
    BY <2>1 DEF TurnsInit, Init, ReviewInv, ReadyPrWasReviewed
<1>2. ReviewInv => ReadyPrWasReviewed
  BY DEF ReviewInv
<1>3. TurnsSpec => []TypeOK
  BY TurnsImplementGraph, TypeCorrect, PTL DEF ImplementsGraph
<1> QED
  BY <1>1, <1>2, <1>3, ReviewStep, CallsFitKept, PTL DEF TurnsSpec

-----------------------------------------------------------------------------
\* A turn has no more messages than its agent may have; flags are flags.
MessagesOK ==
    /\ msgs \in Nat
    /\ IF node \in {"code", "review"} THEN msgs <= MaxMessages[node] ELSE msgs = 0

TurnFlagsOK ==
    /\ stale \in BOOLEAN /\ stray \in BOOLEAN /\ looked \in BOOLEAN /\ warned \in BOOLEAN
    /\ verdict \in [submitted : BOOLEAN, approved : BOOLEAN, summary : BOOLEAN]

LEMMA MessagesStep == MessagesOK /\ [TurnsNext]_allVars => MessagesOK'
<1> SUFFICES ASSUME MessagesOK, [TurnsNext]_allVars PROVE MessagesOK'
  OBVIOUS
<1> USE DEF MessagesOK
<1>1. ASSUME msgs' = msgs, node' = node PROVE MessagesOK'
  BY <1>1
<1>2. ASSUME msgs' = 0 PROVE MessagesOK'
  BY <1>2, TurnAssumption
<1>3. CASE UNCHANGED allVars
  BY <1>1, <1>3 DEF allVars, turnVars, said, vars
<1>4. ASSUME NEW c \in Calls, ToolStep(c) PROVE MessagesOK'
  <2>1. CASE GitRuns(c) \/ GitFails(c) \/ GitTimesOut(c)
    BY <1>1, <2>1 DEF GitRuns, GitFails, GitTimesOut, GitGivesUp, GitDoes, BranchGrows, vars
  <2>2. CASE ~(GitRuns(c) \/ GitFails(c) \/ GitTimesOut(c))
    BY <1>1, <1>4, <2>2 DEF ToolStep, WriteOpens, WriteCloses, FileToolFails, Removes,
       CommandEnds, CommandTimesOut, Submits, said, vars
  <2> QED
    BY <2>1, <2>2
<1>5. CASE StrayWrites \/ \E c \in Calls : CommandOpens(c) \/ CommandCloses(c)
  BY <1>1, <1>5 DEF StrayWrites, CommandOpens, CommandCloses, said, vars
<1>6. CASE Message
  BY <1>6, TurnAssumption DEF Message, Asks, vars
<1>7. CASE CoderEnds \/ ReviewerEnds \/ LastNode \/ TurnRaises
  BY <1>2, <1>7 DEF CoderEnds, ReviewerEnds, LastNode, TurnRaises, ClearsCalls, CleansUp
<1>8. CASE Routing
  <2>1. msgs' = 0
    BY <1>8 DEF Routing, OrchestratorCaps, OrchestratorDecides, Runs, turnVars, said
  <2> QED
    BY <1>2, <2>1
<1> QED
  BY <1>3, <1>4, <1>5, <1>6, <1>7, <1>8 DEF TurnsNext, TurnsStep

LEMMA FlagsStep == TurnFlagsOK /\ [TurnsNext]_allVars => TurnFlagsOK'
<1> SUFFICES ASSUME TurnFlagsOK, [TurnsNext]_allVars PROVE TurnFlagsOK'
  OBVIOUS
<1>1. NoVerdict \in [submitted : BOOLEAN, approved : BOOLEAN, summary : BOOLEAN]
  BY Zenon DEF NoVerdict
<1>2. ASSUME UNCHANGED <<stale, stray, verdict, looked, warned>> PROVE TurnFlagsOK'
  BY <1>2, Zenon DEF TurnFlagsOK
<1>3. CASE UNCHANGED allVars
  BY <1>2, <1>3, Zenon DEF allVars, turnVars, git, said
<1>4. ASSUME NEW c \in Calls, ToolStep(c) PROVE TurnFlagsOK'
  <2>1. CASE WriteOpens(c) \/ WriteCloses(c) \/ Removes(c)
    BY <1>2, <2>1, Zenon DEF WriteOpens, WriteCloses, Removes, git, said
  <2>7. CASE CommandEnds(c)
    <3>1. stray' \in BOOLEAN
      BY <2>7 DEF CommandEnds
    <3>2. UNCHANGED <<stale, verdict, looked, warned>>
      BY <2>7, Zenon DEF CommandEnds, git, said
    <3> QED
      BY <3>1, <3>2, Zenon DEF TurnFlagsOK
  <2>2. CASE FileToolFails(c) \/ CommandTimesOut(c)
    BY <2>2, Zenon DEF TurnFlagsOK, FileToolFails, CommandTimesOut, git, said
  <2>3. CASE GitRuns(c)
    BY <2>3, Zenon DEF TurnFlagsOK, GitRuns, GitDoes
  <2>4. CASE GitFails(c)
    BY <2>4, Zenon DEF TurnFlagsOK, GitFails, GitGivesUp, git
  <2>5. CASE GitTimesOut(c)
    <3>1. looked' = looked \/ looked' = FALSE
      BY <2>5, Zenon DEF GitTimesOut, GitDoes
    <3>2. stale' = stale \/ stale' = TRUE
      BY <2>5, Zenon DEF GitTimesOut
    <3>3. UNCHANGED <<stray, verdict, warned>>
      BY <2>5, Zenon DEF GitTimesOut, GitGivesUp
    <3>4. stale' \in BOOLEAN
      BY <3>2, Zenon DEF TurnFlagsOK
    <3>5. looked' \in BOOLEAN
      BY <3>1, Zenon DEF TurnFlagsOK
    <3>6. stray' \in BOOLEAN
      BY <3>3, Zenon DEF TurnFlagsOK
    <3>7. warned' \in BOOLEAN
      BY <3>3, Zenon DEF TurnFlagsOK
    <3>8. (verdict \in [submitted : BOOLEAN, approved : BOOLEAN, summary : BOOLEAN])'
      BY <3>3, Zenon DEF TurnFlagsOK
    <3> QED
      BY <3>4, <3>5, <3>6, <3>7, <3>8, Zenon DEF TurnFlagsOK
  <2>6. CASE Submits(c)
    <3>1. PICK yes \in BOOLEAN, text \in BOOLEAN :
             /\ verdict' = [submitted |-> TRUE, approved |-> yes, summary |-> text]
             /\ looked' = (looked \/ yes)
      BY <2>6, Zenon DEF Submits
    <3>2. (verdict \in [submitted : BOOLEAN, approved : BOOLEAN, summary : BOOLEAN])'
      <4>1. [submitted |-> TRUE, approved |-> yes, summary |-> text]
               \in [submitted : BOOLEAN, approved : BOOLEAN, summary : BOOLEAN]
        OBVIOUS
      <4> QED
        BY <3>1, <4>1, Zenon
    <3>3. looked' \in BOOLEAN
      BY <3>1
    <3>4. stale' = stale /\ stray' = stray /\ warned' = warned
      BY <2>6 DEF Submits, git
    <3> QED
      BY <3>2, <3>3, <3>4, Zenon DEF TurnFlagsOK
  <2> QED
    BY <1>4, <2>1, <2>2, <2>3, <2>4, <2>5, <2>6, <2>7 DEF ToolStep
<1>5. CASE StrayWrites \/ \E c \in Calls : CommandOpens(c) \/ CommandCloses(c)
  BY <1>2, <1>5, Zenon DEF StrayWrites, CommandOpens, CommandCloses, git, said
<1>6. CASE Message
  BY <1>6, Zenon DEF TurnFlagsOK, Message, Asks, git
<1>7. CASE CoderEnds
  BY <1>2, <1>7, Zenon DEF CoderEnds, ClearsCalls, git
<1>8. CASE ReviewerEnds
  BY <1>1, <1>8, Zenon DEF TurnFlagsOK, ReviewerEnds, ClearsCalls, git
<1>9. CASE Routing
  BY <1>2, <1>9, Zenon DEF Routing, turnVars, git, said
<1>10. CASE LastNode \/ TurnRaises
  BY <1>1, <1>10, Zenon DEF TurnFlagsOK, LastNode, TurnRaises, CleansUp
<1> QED
  BY <1>3, <1>4, <1>5, <1>6, <1>7, <1>8, <1>9, <1>10 DEF TurnsNext, TurnsStep

\* The turns are well typed, and no turn has more messages than it may.
THEOREM TurnsTyped == TurnsSpec => []TurnsOK
<1>1. TurnsInit => MessagesOK
  BY TurnAssumption DEF TurnsInit, Init, MessagesOK
<1>2. TurnsInit => TurnFlagsOK
  <2>1. NoVerdict \in [submitted : BOOLEAN, approved : BOOLEAN, summary : BOOLEAN]
    BY Zenon DEF NoVerdict
  <2> QED
    BY <2>1, Zenon DEF TurnsInit, TurnFlagsOK
<1>3. TypeOK /\ FilesOK /\ MessagesOK /\ TurnFlagsOK => TurnsOK
  BY Zenon DEF FilesOK, ToolsOK, RepoOK, MessagesOK, TurnFlagsOK, TurnsOK
<1>4. TurnsSpec => []TypeOK
  BY TurnsImplementGraph, TypeCorrect, PTL DEF ImplementsGraph
<1> QED
  BY <1>1, <1>2, <1>3, <1>4, MessagesStep, FlagsStep, FilesKept, PTL DEF TurnsSpec

-----------------------------------------------------------------------------
(* How far a run still is from its end: by the steps of the graph, then by the *)
(* messages of the turn, then by the steps of the tools that were asked for.    *)
(* All three are bounded: RecursionLimit (TypeOK), MaxMessages (TurnsOK), and   *)
(* three steps of each of MaxCalls tools.                                       *)

ToGo(s) ==
    CASE s \in Over -> 0
      [] s \in {"open", "status"} -> 2
      [] s = "add" -> 3
      [] OTHER -> 1

\* The tool in slot c has got nearer to its answer, and no other has started again.
Nearer(c) ==
    /\ ToGo(call'[c]) < ToGo(call[c])
    /\ \A d \in Calls \ {c} : call'[d] = call[d]

Advances ==
    \/ node' = "end"
    \/ steps' > steps
    \/ steps' = steps /\ msgs' > msgs
    \/ UNCHANGED <<steps, msgs>> /\ \E c \in Calls : Nearer(c)

TurnsAdvance ==
    /\ TurnsStep => node # "end" /\ Advances
    /\ node' = "end" \/ Advances \/ UNCHANGED <<node, steps, msgs, call>>

LEMMA ToGoValues ==
    /\ ToGo("idle") = 0 /\ ToGo("ok") = 0
    /\ ToGo("open") = 2 /\ ToGo("status") = 2 /\ ToGo("add") = 3
    /\ ToGo("close") = 1 /\ ToGo("remove") = 1 /\ ToGo("run") = 1
    /\ ToGo("commit") = 1 /\ ToGo("submit") = 1
  BY DEF ToGo, Over

LEMMA ToolAdvances ==
    ASSUME FilesOK, NEW c \in Calls, ToolStep(c)
    PROVE  UNCHANGED <<node, steps, msgs>> /\ call[c] \notin Over /\ Nearer(c)
<1>1. ToolsOK
  BY DEF FilesOK
<1>2. CASE WriteOpens(c)
  BY <1>1, <1>2, GotoType, ToGoValues DEF WriteOpens, Nearer, Writing, Over, said, vars
<1>3. CASE WriteCloses(c) \/ FileToolFails(c) \/ Removes(c) \/ CommandEnds(c)
           \/ CommandTimesOut(c) \/ Submits(c)
  <2>1. /\ Answers(c, "idle") /\ UNCHANGED <<node, steps, msgs>>
        /\ call[c] \in {"open", "close", "remove", "run", "submit"}
    BY <1>3 DEF WriteCloses, FileToolFails, Removes, CommandEnds, CommandTimesOut, Submits, said, vars
  <2> QED
    BY <1>1, <2>1, AnswersType, ToGoValues DEF Nearer, Over
<1>4. CASE GitRuns(c) \/ GitFails(c) \/ GitTimesOut(c)
  <2>1. call[c] \in GitSteps /\ UNCHANGED <<node, steps, msgs>>
    BY <1>4 DEF GitRuns, GitFails, GitTimesOut, GitGivesUp, GitDoes, GitSteps, BranchGrows, vars
  <2>2. PICK s \in GitSteps \cup Over : Goto(c, s) /\ (s = "idle" \/ s = GitNext(call[c]))
    BY <1>4 DEF GitRuns, GitFails, GitTimesOut, GitGivesUp, GitNext, GitSteps, Over
  <2>3. ToGo(s) < ToGo(call[c])
    BY <2>1, <2>2, ToGoValues DEF GitNext, GitSteps
  <2> QED
    BY <1>1, <2>1, <2>2, <2>3, GotoType DEF Nearer, GitSteps, Over
<1> QED
  BY <1>2, <1>3, <1>4 DEF ToolStep

LEMMA StepAdvances ==
    ASSUME TypeOK, FilesOK, CallsFit, MessagesOK, [TurnsNext]_allVars
    PROVE  (TurnsStep => node # "end" /\ Advances)
           /\ (node' = "end" \/ Advances \/ UNCHANGED <<node, steps, msgs, call>>)
<1>1. steps \in Nat /\ msgs \in Nat
  BY RunAssumption DEF TypeOK, MessagesOK
<1>2. ASSUME NEW c \in Calls, ToolStep(c) PROVE node # "end" /\ Advances
  BY <1>2, ToolAdvances DEF CallsFit, Advances
<1>3. Message => node # "end" /\ Advances
  BY <1>1 DEF Message, Asks, Advances, vars
<1>4. CoderEnds \/ ReviewerEnds \/ Routing => node # "end" /\ Advances
  BY <1>1 DEF CoderEnds, ReviewerEnds, Routing, CoderNode, ReviewerNode, OrchestratorCaps,
     OrchestratorDecides, Runs, Advances
<1>5. LastNode => node # "end" /\ Advances
  BY DEF LastNode, FinalizeNothing, FinalizeShips, AbortNode, OutOfSteps, Runs, Advances
<1>6. TurnsStep => node # "end" /\ Advances
  BY <1>2, <1>3, <1>4, <1>5 DEF TurnsStep
<1>7. TurnRaises => node' = "end"
  BY DEF TurnRaises, NodeRaises
<1>8. StrayWrites \/ (\E c \in Calls : CommandOpens(c) \/ CommandCloses(c))
        => UNCHANGED <<node, steps, msgs, call>>
  BY DEF StrayWrites, CommandOpens, CommandCloses, said, vars
<1>9. UNCHANGED allVars => UNCHANGED <<node, steps, msgs, call>>
  BY DEF allVars, turnVars, said, vars
<1> QED
  BY <1>6, <1>7, <1>8, <1>9 DEF TurnsNext

\* The safety half of Terminates, for every limit: each step that LangGraph, the models
\* and the tools owe takes the run nearer to its end, and none of the others, a command
\* that goes on past its timeout among them, takes it back.  (builder.py, runner.py)
THEOREM TurnsOnlyAdvance == TurnsSpec => [][TurnsAdvance]_allVars
<1>1. TypeOK /\ FilesOK /\ CallsFit /\ MessagesOK /\ [TurnsNext]_allVars => TurnsAdvance
  BY StepAdvances DEF TurnsAdvance
<1>2. TurnsInit => MessagesOK
  BY TurnAssumption DEF TurnsInit, Init, MessagesOK
<1>3. TurnsSpec => []TypeOK
  BY TurnsImplementGraph, TypeCorrect, PTL DEF ImplementsGraph
<1> QED
  BY <1>1, <1>2, <1>3, MessagesStep, FilesKept, CallsFitKept, PTL DEF TurnsSpec
=============================================================================
