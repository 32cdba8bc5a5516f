----------------------------- MODULE AgentTurns -----------------------------
(***************************************************************************)
(* A run of the graph with the turns of its two agents in full: the tools  *)
(* of app/tools/fs_tools.py, git_tools.py, sandbox.py and of reviewer.py,  *)
(* working on the run's clone.  The model asks for several tools in one    *)
(* message, and LangGraph runs them in threads, all at once; it asks again *)
(* when each has answered.  The nodes between the turns are Orchestration. *)
(*                                                                         *)
(* A file's content is one of a small set, the file's absence among them,  *)
(* or Torn: partly written, or written over by two.  Tools that only read  *)
(* are left out, and so are comments.  Commands do not run git themselves. *)
(***************************************************************************)
EXTENDS Orchestration

CONSTANTS
    MaxCalls,       \* bound: the tools of one message
    Files,          \* bound: the files of the repository
    Contents,       \* bound: what may be in a file
    Base,           \* the content of the files on the base branch
    Torn, None,
    MaxMessages     \* the messages of each agent's turn, half of _INNER_RECURSION_LIMIT

ASSUME TurnAssumption ==
    /\ Base \in Contents
    /\ Torn \notin Contents
    /\ None \notin Files
    /\ MaxMessages \in [{"code", "review"} -> Nat]
    /\ MaxCalls \in Nat

VARIABLES
    msgs,           \* the messages of the turn so far
    call,           \* call[c]: the step of the tool in slot c
    file,           \* file[c]: the file it writes, or has open
    tree,           \* the files in the working tree
    index,          \* the files in the index
    committed,      \* the files in HEAD
    stale,          \* whether a git that was killed has left its index.lock
    stray,          \* whether a command has left a process behind, or a file half written
    verdict,        \* the reviewer's verdict dict
    (* History, which no action reads. *)
    kept,           \* kept[c]: the files that have not changed since a git_commit
                    \*   in slot c was asked for
    looked,         \* whether submit_review has approved the branch as it is
    warned          \* whether the run has asked for tools at once, or has been
                    \*   told that a write or a command failed

git == <<index, committed, stale>>
said == <<msgs, verdict, looked>>
turnVars == <<call, file, tree, kept, git, stray, said, warned>>
allVars == <<vars, turnVars>>

Calls == 1..MaxCalls
Content == Contents \cup {Torn}
NoVerdict == [submitted |-> FALSE, approved |-> FALSE, summary |-> FALSE]

\* What the tool in a slot does next: "idle" when there is none or it has answered,
\* "ok" for a git_commit that has answered "OK" or "Nothing to commit".
Writing == {"open", "close", "remove", "run"}
GitSteps == {"add", "status", "commit"}
Over == {"idle", "ok"}
Quiet == \A c \in Calls : call[c] \in Over

Goto(c, s) == call' = [call EXCEPT ![c] = s]
Answers(c, s) == Goto(c, s) /\ file' = [file EXCEPT ![c] = None]

-----------------------------------------------------------------------------
(* The files. *)

Changes(f, x) ==
    /\ tree' = [tree EXCEPT ![f] = x]
    /\ kept' = [c \in Calls |-> kept[c] \ {f}]

\* A content that is written over a file another has been at meanwhile may be
\* mixed with the other's.
Written(f) == IF tree[f] = Torn THEN Contents ELSE Content

\* write_file: open truncates the file, and close has written it.
WriteOpens(c) ==
    /\ call[c] = "open"
    /\ Changes(file[c], Torn)
    /\ Goto(c, "close")
    /\ UNCHANGED <<vars, file, git, stray, said, warned>>

\* Mutant of WriteCloses: the tool answers before the file is closed.
WriteClosesLate(c) ==
    /\ call[c] = "close"
    /\ Answers(c, "idle")
    /\ UNCHANGED <<vars, tree, kept, git, stray, said, warned>>

WriteCloses(c) ==
    /\ call[c] = "close"
    /\ \E x \in Written(file[c]) : Changes(file[c], x)
    /\ Answers(c, "idle")
    /\ UNCHANGED <<vars, git, stray, said, warned>>

\* The path is refused, there is no such file, or the content cannot be written.
FileToolFails(c) ==
    /\ call[c] \in {"open", "close", "remove"}
    /\ Answers(c, "idle")
    /\ warned' = TRUE
    /\ UNCHANGED <<vars, tree, kept, git, stray, said>>

\* delete_file: to be absent is a content.
Removes(c) ==
    /\ call[c] = "remove"
    /\ \E x \in Contents : Changes(file[c], x)
    /\ Answers(c, "idle")
    /\ UNCHANGED <<vars, git, stray, said, warned>>

-----------------------------------------------------------------------------
(* run_shell and run_python. *)

CommandOpens(c) ==
    /\ call[c] = "run" /\ file[c] = None
    /\ \E f \in Files : Changes(f, Torn) /\ file' = [file EXCEPT ![c] = f]
    /\ UNCHANGED <<vars, call, git, stray, said, warned>>

CommandCloses(c) ==
    /\ call[c] = "run" /\ file[c] # None
    /\ \E x \in Written(file[c]) : Changes(file[c], x)
    /\ file' = [file EXCEPT ![c] = None]
    /\ UNCHANGED <<vars, call, git, stray, said, warned>>

\* subprocess.run returns when the shell has exited and its pipes are closed: a
\* child in the background goes on, a command that died may have left a file half
\* written, and whatever its exit code the answer is no "ERROR".
CommandEnds(c) ==
    /\ call[c] = "run"
    /\ Answers(c, "idle")
    /\ stray' \in {stray \/ file[c] # None, TRUE}
    /\ UNCHANGED <<vars, tree, kept, git, said, warned>>

\* subprocess.run kills the shell, or the docker client, and no more.
CommandTimesOut(c) ==
    /\ call[c] = "run"
    /\ Answers(c, "idle")
    /\ stray' = TRUE
    /\ warned' = TRUE
    /\ UNCHANGED <<vars, tree, kept, git, said>>

\* What a command has left behind writes when it likes, until the run is over.
StrayWrites ==
    /\ stray
    /\ \E f \in Files, x \in Content : Changes(f, x)
    /\ UNCHANGED <<vars, call, file, git, stray, said, warned>>

-----------------------------------------------------------------------------
(* git_commit: three commands, with "ERROR" as soon as one of them fails. *)

Clean == tree = index /\ index = committed
Locked(c) == stale \/ \E d \in Calls \ {c} : call[d] \in {"add", "commit"}

\* What the command of step s does to the repository.
GitDoes(s) ==
    \/ s = "add" /\ index' = tree /\ UNCHANGED <<vars, committed, looked>>
    \/ s = "status" /\ UNCHANGED <<vars, index, committed, looked>>
    \/ /\ s = "commit" /\ index # committed
       /\ committed' = index
       /\ looked' = FALSE
       /\ BranchGrows
       /\ UNCHANGED index

GitNext(s) ==
    CASE s = "add" -> "status"
      [] s = "status" -> IF Clean THEN "ok" ELSE "commit"
      [] s = "commit" -> "ok"

GitRuns(c) ==
    /\ call[c] \in GitSteps
    /\ call[c] # "status" => ~stale
    /\ GitDoes(call[c])
    /\ Goto(c, GitNext(call[c]))
    /\ UNCHANGED <<file, tree, kept, stale, stray, msgs, verdict, warned>>

\* "ERROR"; what was kept for the call does not matter any more.
GitGivesUp(c) ==
    /\ Goto(c, "idle")
    /\ kept' = [kept EXCEPT ![c] = {}]
    /\ UNCHANGED <<file, tree, stray, msgs, verdict, warned>>

\* Mutant of GitFails: that git add has failed is not noticed.
GitFailsUnnoticed(c) ==
    /\ call[c] = "add"
    /\ Locked(c)
    /\ Goto(c, "status")
    /\ UNCHANGED <<vars, file, tree, kept, git, stray, said, warned>>

\* Another git holds index.lock, or there is nothing in the index to commit.
GitFails(c) ==
    /\ call[c] \in {"add", "commit"}
    /\ Locked(c) \/ (call[c] = "commit" /\ index = committed)
    /\ GitGivesUp(c)
    /\ UNCHANGED <<vars, git, looked>>

\* The command is killed after its timeout, at whatever point it is.
GitTimesOut(c) ==
    /\ call[c] \in GitSteps
    /\ GitDoes(call[c]) \/ UNCHANGED <<vars, index, committed, looked>>
    /\ stale' \in {stale, TRUE}
    /\ GitGivesUp(c)

-----------------------------------------------------------------------------
(* submit_review. *)

Submits(c) ==
    /\ call[c] = "submit"
    /\ \E yes, text \in BOOLEAN :
          /\ verdict' = [submitted |-> TRUE, approved |-> yes, summary |-> text]
          /\ looked' = (looked \/ yes)
    /\ Answers(c, "idle")
    /\ UNCHANGED <<vars, tree, kept, git, stray, msgs, warned>>

-----------------------------------------------------------------------------
(* Messages and turns. *)

\* Mutant of ReviewerTools: the reviewer gets the coder's git tools.
ReviewerToolsAll == {"open", "remove", "run", "submit", "add"}

CoderTools == {"open", "remove", "run", "add"}
ReviewerTools == {"open", "remove", "run", "submit"}

\* The model of node n asks for tools out of T, in one message.
Asks(n, T) ==
    /\ node = n /\ steps < RecursionLimit
    /\ Quiet
    /\ msgs < MaxMessages[n]
    /\ msgs' = msgs + 1
    /\ call' \in [Calls -> T \cup {"idle"}]
    /\ call'[1] # "idle" /\ \A c \in Calls : call'[c] = "idle" => \A d \in Calls : d > c => call'[d] = "idle"
    /\ file' \in [Calls -> Files \cup {None}]
    /\ \A c \in Calls : file'[c] # None <=> call'[c] \in {"open", "remove"}
    /\ kept' = [c \in Calls |-> IF call'[c] = "add" THEN Files ELSE {}]
    /\ warned' = (warned \/ \E c, d \in Calls : c # d /\ call'[c] # "idle" /\ call'[d] # "idle")
    /\ UNCHANGED <<vars, tree, git, stray, verdict, looked>>

\* Mutant of ClearsCalls: the messages of all turns are counted together.
ClearsCallsCounting ==
    /\ call' = [c \in Calls |-> "idle"]
    /\ file' = [c \in Calls |-> None]
    /\ kept' = [c \in Calls |-> {}]
    /\ UNCHANGED <<tree, git, stray, looked, warned, msgs>>

\* The slots are empty when the next turn begins.
ClearsCalls ==
    /\ msgs' = 0
    /\ call' = [c \in Calls |-> "idle"]
    /\ file' = [c \in Calls |-> None]
    /\ kept' = [c \in Calls |-> {}]
    /\ UNCHANGED <<tree, git, stray, looked, warned>>

\* The agent has answered without a tool, or is out of steps.
CoderEnds ==
    /\ Quiet
    /\ CoderNode
    /\ ClearsCalls
    /\ UNCHANGED verdict

\* Mutant of ReviewerEnds: the verdict dict is the same at the next review.
ReviewerEndsKept ==
    /\ Quiet
    /\ ReviewerNode
    /\ review_passed' = verdict.approved
    /\ review_report' = (verdict.submitted => verdict.summary)
    /\ ClearsCalls
    /\ UNCHANGED verdict

\* reviewer_node reads the verdict; the next review starts with a new one.
ReviewerEnds ==
    /\ Quiet
    /\ ReviewerNode
    /\ review_passed' = verdict.approved
    /\ review_report' = (verdict.submitted => verdict.summary)
    /\ ClearsCalls
    /\ verdict' = NoVerdict

\* The nodes that call no tools.
Routing ==
    /\ OrchestratorCaps \/ OrchestratorDecides
    /\ UNCHANGED turnVars

\* runner.py removes the workspace when the run is over, whatever is in it.
CleansUp ==
    /\ msgs' = 0
    /\ call' = [c \in Calls |-> "idle"]
    /\ file' = [c \in Calls |-> None]
    /\ tree' = [f \in Files |-> Base]
    /\ index' = tree'
    /\ committed' = tree'
    /\ stale' = FALSE
    /\ stray' = FALSE
    /\ verdict' = NoVerdict
    /\ kept' = [c \in Calls |-> {}]
    /\ UNCHANGED <<looked, warned>>

LastNode ==
    /\ FinalizeNothing \/ FinalizeShips \/ AbortNode \/ OutOfSteps
    /\ CleansUp

\* A model gives up, or a node raises; tools that are running are waited for.
TurnRaises ==
    /\ Quiet
    /\ NodeRaises
    /\ CleansUp

-----------------------------------------------------------------------------
TurnsInit ==
    /\ Init
    /\ msgs = 0
    /\ call = [c \in Calls |-> "idle"]
    /\ file = [c \in Calls |-> None]
    /\ tree = [f \in Files |-> Base]
    /\ index = tree
    /\ committed = tree
    /\ stale = FALSE
    /\ stray = FALSE
    /\ verdict = NoVerdict
    /\ kept = [c \in Calls |-> {}]
    /\ looked = FALSE
    /\ warned = FALSE

ToolStep(c) ==
    \/ WriteOpens(c) \/ WriteCloses(c) \/ FileToolFails(c) \/ Removes(c)
    \/ CommandEnds(c) \/ CommandTimesOut(c)
    \/ GitRuns(c) \/ GitFails(c) \/ GitTimesOut(c) \/ Submits(c)

Message == Asks("code", CoderTools) \/ Asks("review", ReviewerTools)

TurnsStep ==
    \/ \E c \in Calls : ToolStep(c)
    \/ Message \/ CoderEnds \/ ReviewerEnds \/ Routing \/ LastNode

TurnsNext ==
    \/ TurnsStep
    \/ \E c \in Calls : CommandOpens(c) \/ CommandCloses(c)
    \/ StrayWrites \/ TurnRaises

\* Every call of a model, of git and of a command has a timeout, and LangGraph
\* goes on; what a command does, what it leaves behind, and for how long that
\* goes on, is its own business.
TurnsSpec == TurnsInit /\ [][TurnsNext]_allVars /\ WF_allVars(TurnsStep)

TurnsOK ==
    /\ TypeOK
    /\ msgs \in Nat
    /\ IF node \in {"code", "review"} THEN msgs <= MaxMessages[node] ELSE msgs = 0
    /\ call \in [Calls -> Writing \cup GitSteps \cup Over \cup {"submit"}]
    /\ file \in [Calls -> Files \cup {None}]
    /\ tree \in [Files -> Content]
    /\ index \in [Files -> Content]
    /\ committed \in [Files -> Content]
    /\ stale \in BOOLEAN
    /\ stray \in BOOLEAN
    /\ verdict \in [submitted : BOOLEAN, approved : BOOLEAN, summary : BOOLEAN]
    /\ kept \in [Calls -> SUBSET Files]
    /\ looked \in BOOLEAN
    /\ warned \in BOOLEAN

-----------------------------------------------------------------------------
(* Properties. *)

\* A git_commit that has answered "OK" or "Nothing to commit" has put in HEAD
\* all that was written before it was asked for, whatever ran beside it and
\* whichever command of git failed.  (git_tools.py git_commit)
CommitCovers ==
    \A c \in Calls : call[c] = "ok" => \A f \in kept[c] : committed[f] = tree[f]

\* An agent that asks for one tool at a time, has not been told of an error, and
\* has run no command that left something behind, never finds half a file in
\* HEAD: a tool has put the whole of a file on disk when it answers, and git_commit
\* stages nothing of a file that is being written.  Without the last condition
\* this does not hold, since nobody is told of what a command leaves.
\* (fs_tools.py write_file, git_tools.py git_commit)
HeadWhole == ~warned /\ ~stray => \A f \in Files : committed[f] # Torn

\* A PR that is no draft shows the very commits that were there when
\* submit_review was called to approve, in the last review of the run.
\* (reviewer.py: "The verdict is captured in a mutable holder dict")
ReadyPrWasReviewed == pr = "ready" => looked

\* The turns, tool by tool, are what Orchestration says of its nodes.
ImplementsGraph == Spec
=============================================================================
