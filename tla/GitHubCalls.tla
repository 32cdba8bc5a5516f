----------------------------- MODULE GitHubCalls -----------------------------
(***************************************************************************)
(* The calls that leave the machine: clone_repo and push_branch            *)
(* (app/tools/git_tools.py), and the POSTs of GitHubClient                 *)
(* (app/tools/github_tools.py), under tenacity's retry as app/utils/retry  *)
(* and GitHubClient._request configure it.  An attempt may fail before or  *)
(* after it has been carried out, and its caller cannot tell which.  The   *)
(* calls run in threads of their own, so any number are under way.         *)
(***************************************************************************)
EXTENDS Naturals

CONSTANTS
    Calls,          \* the calls that are ever made
    MaxAttempts     \* stop_after_attempt

ASSUME AttemptsAssumption == MaxAttempts \in Nat \ {0}

GitKinds == {"clone", "push"}
HttpKinds == {"comment", "pull", "status"}
Kinds == GitKinds \cup HttpKinds

VARIABLES
    kind,       \* kind[c]: what c asks for
    pc,         \* pc[c]: "ready", "sent", "waiting", "returned", "raised"
    attempts,   \* attempts[c]: tenacity's attempt_number
    effects     \* effects[c]: how many times c has been carried out

vars == <<kind, pc, attempts, effects>>

-----------------------------------------------------------------------------
\* Only httpx errors are retried.  The git functions carry the decorator too,
\* but a git command fails with GitError, CalledProcessError or TimeoutExpired.
Retryable(k) == k \in HttpKinds

\* A 4xx raises through raise_for_status, except for a commit status, and a
\* git command that exits with an error raises.
Checked(k) == k # "status"

\* A second PR for the head is refused.  Nobody closes the first one within
\* the seconds between two attempts.
Accepts(c) == kind[c] = "pull" => effects[c] = 0

\* Mutant of MayRetry: one attempt too many.
MayRetryOnceMore(c) == Retryable(kind[c]) /\ attempts[c] <= MaxAttempts

MayRetry(c) == Retryable(kind[c]) /\ attempts[c] < MaxAttempts

-----------------------------------------------------------------------------
Send(c) ==
    /\ pc[c] = "ready"
    /\ pc' = [pc EXCEPT ![c] = "sent"]
    /\ attempts' = [attempts EXCEPT ![c] = @ + 1]
    /\ UNCHANGED <<kind, effects>>

Succeeds(c) ==
    /\ pc[c] = "sent"
    /\ Accepts(c)
    /\ effects' = [effects EXCEPT ![c] = @ + 1]
    /\ pc' = [pc EXCEPT ![c] = "returned"]
    /\ UNCHANGED <<kind, attempts>>

\* Mutant of Refused: an end that no caller knows.
RefusedUnheard(c) ==
    /\ pc[c] = "sent"
    /\ pc' = [pc EXCEPT ![c] = "refused"]
    /\ UNCHANGED <<kind, attempts, effects>>

\* A 4xx, or git's own exit status: it is the answer, and not tried again.
Refused(c) ==
    /\ pc[c] = "sent"
    /\ pc' = [pc EXCEPT ![c] = IF Checked(kind[c]) THEN "raised" ELSE "returned"]
    /\ UNCHANGED <<kind, attempts, effects>>

\* Mutant of Breaks: the last attempt's error is swallowed (reraise is lost).
BreaksQuietly(c) ==
    /\ pc[c] = "sent"
    /\ pc' = [pc EXCEPT ![c] = IF MayRetry(c) THEN "waiting" ELSE "returned"]
    /\ effects' \in {effects} \cup
           (IF Accepts(c) THEN {[effects EXCEPT ![c] = @ + 1]} ELSE {})
    /\ UNCHANGED <<kind, attempts>>

\* A connection that fails, a timeout, a 5xx: before the call was carried out
\* or after.
Breaks(c) ==
    /\ pc[c] = "sent"
    /\ pc' = [pc EXCEPT ![c] = IF MayRetry(c) THEN "waiting" ELSE "raised"]
    /\ effects' \in {effects} \cup
           (IF Accepts(c) THEN {[effects EXCEPT ![c] = @ + 1]} ELSE {})
    /\ UNCHANGED <<kind, attempts>>

\* Mutant of Backoff: the wait never ends.
BackoffForever(c) ==
    /\ pc[c] = "waiting"
    /\ UNCHANGED vars

\* The exponential wait is over.
Backoff(c) ==
    /\ pc[c] = "waiting"
    /\ pc' = [pc EXCEPT ![c] = "ready"]
    /\ UNCHANGED <<kind, attempts, effects>>

-----------------------------------------------------------------------------
Init ==
    /\ kind \in [Calls -> Kinds]
    /\ pc = [c \in Calls |-> "ready"]
    /\ attempts = [c \in Calls |-> 0]
    /\ effects = [c \in Calls |-> 0]

CallStep(c) == Send(c) \/ Succeeds(c) \/ Refused(c) \/ Breaks(c) \/ Backoff(c)

Next == \E c \in Calls : CallStep(c)

Spec == Init /\ [][Next]_vars

\* Every request has a timeout, and so has every git command.
FairSpec == Spec /\ \A c \in Calls : WF_vars(CallStep(c))

TypeOK ==
    /\ kind \in [Calls -> Kinds]
    /\ pc \in [Calls -> {"ready", "sent", "waiting", "returned", "raised"}]
    /\ attempts \in [Calls -> Nat]
    /\ effects \in [Calls -> Nat]

-----------------------------------------------------------------------------
(* Properties. *)

Ended(c) == pc[c] \in {"returned", "raised"}
outcome == [c \in Calls |-> IF Ended(c) THEN pc[c] ELSE "pending"]

Promise == INSTANCE RemoteCall

\* What submit_diff and the runner count on: a call that returns was carried
\* out, none is carried out after it has ended, and a clone, a push or a PR is
\* never carried out twice, although the POST of a PR is repeated.
\* (github_tools.py _request, retry.py network_retry)
IsRemoteCall == Promise!CallSpec

\* An issue gets at most one comment for each attempt, and git runs once.
\* (retry.py stop_after_attempt, github_tools.py _request)
EffectsBounded ==
    \A c \in Calls : effects[c] <= IF kind[c] \in GitKinds THEN 1 ELSE MaxAttempts

\* No call waits or retries for ever, whatever breaks.  (retry.py network_retry)
CallsEnd == \A c \in Calls : <>Ended(c)

-----------------------------------------------------------------------------
(* What the repository says of the program, and the code does not do. *)

\* README.md "Reliability": "GitHub API calls and git push retry on transient
\* failures": a push that has raised although GitHub took it, so that only its
\* answer was lost, has used up its attempts.
PushIsRetried ==
    \A c \in Calls :
        kind[c] = "push" /\ pc[c] = "raised" /\ effects[c] > 0 => attempts[c] = MaxAttempts
=============================================================================
