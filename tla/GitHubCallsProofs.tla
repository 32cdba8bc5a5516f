-------------------------- MODULE GitHubCallsProofs --------------------------
(***************************************************************************)
(* Proofs about GitHubCalls for any number of calls and attempts.          *)
(***************************************************************************)
EXTENDS GitHubCalls, TLAPS

\* No call has been carried out more often than it was attempted, an attempt
\* under way has not been counted yet, and whoever may be attempted again is
\* a retryable call with attempts left; a PR has been opened once at most.
CallInv(c) ==
    /\ effects[c] <= attempts[c]
    /\ attempts[c] <= MaxAttempts
    /\ pc[c] = "ready" => attempts[c] < MaxAttempts
    /\ pc[c] = "ready" /\ kind[c] \in GitKinds => attempts[c] = 0
    /\ pc[c] = "sent" => effects[c] < attempts[c]
    /\ pc[c] = "waiting" => attempts[c] > 0 /\ MayRetry(c)
    /\ kind[c] \in GitKinds => attempts[c] <= 1
    /\ kind[c] = "pull" => effects[c] <= 1

IInv == TypeOK /\ \A c \in Calls : CallInv(c)

LEMMA InitHolds == Init => IInv
BY AttemptsAssumption DEF Init, IInv, TypeOK, CallInv

\* The actions that end or break an attempt count it once at most.
LEMMA StepHolds ==
    ASSUME IInv, NEW c \in Calls, CallStep(c)
    PROVE  IInv'
<1>1. TypeOK /\ CallInv(c) /\ MaxAttempts \in Nat \ {0}
  BY AttemptsAssumption DEF IInv
<1>2. CallStep(c) => /\ UNCHANGED kind
                     /\ \A d \in Calls \ {c} : /\ pc'[d] = pc[d]
                                               /\ attempts'[d] = attempts[d]
                                               /\ effects'[d] = effects[d]
  BY <1>1 DEF TypeOK, CallStep, Send, Succeeds, Refused, Breaks, Backoff
<1>3. TypeOK' /\ CallInv(c)'
  <2> USE <1>1 DEF TypeOK, CallInv
  <2>1. CASE Send(c)
    BY <2>1 DEF Send
  <2>2. CASE Succeeds(c)
    BY <2>2 DEF Succeeds, Accepts, GitKinds
  <2>3. CASE Refused(c)
    BY <2>3 DEF Refused
  <2>4. CASE Breaks(c)
    BY <2>4 DEF Breaks, Accepts, MayRetry
  <2>5. CASE Backoff(c)
    BY <2>5 DEF Backoff, MayRetry, Retryable, HttpKinds, GitKinds
  <2> QED
    BY <2>1, <2>2, <2>3, <2>4, <2>5 DEF CallStep
<1>4. \A d \in Calls \ {c} : CallInv(d)'
  BY <1>2 DEF IInv, CallInv, MayRetry
<1> QED
  BY <1>3, <1>4 DEF IInv

LEMMA NextHolds == IInv /\ [Next]_vars => IInv'
<1>1. IInv /\ UNCHANGED vars => IInv'
  BY DEF vars, IInv, TypeOK, CallInv, MayRetry
<1> QED
  BY <1>1, StepHolds DEF Next

LEMMA Invariance == Spec => []IInv
BY InitHolds, NextHolds, PTL DEF Spec

\* Every variable keeps its type.
THEOREM TypeCorrect == Spec => []TypeOK
<1>1. IInv => TypeOK
  BY DEF IInv
<1> QED
  BY <1>1, Invariance, PTL

\* However the attempts fail, a call is carried out at most MaxAttempts times,
\* and a git command once.
THEOREM CallsBounded == Spec => []EffectsBounded
<1>1. ASSUME IInv, NEW c \in Calls
      PROVE  effects[c] <= IF kind[c] \in GitKinds THEN 1 ELSE MaxAttempts
  <2>1. effects[c] \in Nat /\ attempts[c] \in Nat /\ MaxAttempts \in Nat
    BY <1>1, AttemptsAssumption DEF IInv, TypeOK
  <2>2. CallInv(c)
    BY <1>1 DEF IInv
  <2> QED
    BY <2>1, <2>2 DEF CallInv
<1>2. IInv => EffectsBounded
  BY <1>1 DEF EffectsBounded
<1> QED
  BY <1>2, Invariance, PTL

-----------------------------------------------------------------------------
(* The refinement of RemoteCall. *)

LEMMA PromiseInit == Init => Promise!CallInit
BY DEF Init, Promise!CallInit, outcome, Ended

\* A step of a call serves it: where it returns it has been carried out or is
\* Unchecked, and where it is carried out again it is Repeatable.
LEMMA PromiseStep ==
    ASSUME IInv, IInv', NEW c \in Calls, CallStep(c)
    PROVE  \E o \in {"pending", "returned", "raised"} : Promise!Serve(c, o)
<1>1. TypeOK /\ TypeOK' /\ CallInv(c) /\ CallInv(c)'
  BY DEF IInv
<1> DEFINE o == outcome'[c]
<1>2. o \in {"pending", "returned", "raised"}
  BY DEF outcome, Ended
<1>3. ~Ended(c) /\ outcome[c] = "pending"
  BY DEF outcome, Ended, CallStep, Send, Succeeds, Refused, Breaks, Backoff
<1>4. effects' \in {effects, [effects EXCEPT ![c] = @ + 1]} /\ UNCHANGED kind
  BY <1>1 DEF TypeOK, CallStep, Send, Succeeds, Refused, Breaks, Backoff
<1>5. effects'[c] > 1 => kind[c] \in Promise!Repeatable
  BY <1>1, <1>4 DEF TypeOK, CallInv, Promise!Repeatable, Kinds, GitKinds, HttpKinds
<1>6. o = "returned" => effects'[c] > 0 \/ kind[c] \in Promise!Unchecked
  <2>1. o = "returned" => pc'[c] = "returned"
    BY DEF outcome, Ended
  <2>2. CASE Succeeds(c)
    BY <1>1, <2>2 DEF TypeOK, Succeeds
  <2>3. CASE Refused(c)
    BY <1>1, <2>1, <2>3 DEF TypeOK, Refused, Checked, Promise!Unchecked
  <2>4. CASE Send(c) \/ Breaks(c) \/ Backoff(c)
    BY <1>1, <2>1, <2>4 DEF TypeOK, Send, Breaks, Backoff
  <2> QED
    BY <2>2, <2>3, <2>4 DEF CallStep
<1>7. outcome' = [outcome EXCEPT ![c] = o]
  <2>1. \A d \in Calls \ {c} : pc'[d] = pc[d]
    BY <1>1 DEF TypeOK, CallStep, Send, Succeeds, Refused, Breaks, Backoff
  <2> QED
    BY <2>1 DEF outcome, Ended
<1> QED
  BY <1>2, <1>3, <1>4, <1>5, <1>6, <1>7 DEF Promise!Serve

\* The retried calls keep the promise of RemoteCall to their callers.
THEOREM ImplementsRemoteCall == Spec => IsRemoteCall
<1>1. IInv /\ IInv' /\ [Next]_vars => [Promise!CallNext]_<<kind, effects, outcome>>
  <2>1. ASSUME IInv, IInv', NEW c \in Calls, CallStep(c) PROVE Promise!CallNext
    BY <2>1, PromiseStep DEF Promise!CallNext
  <2>2. UNCHANGED vars => UNCHANGED <<kind, effects, outcome>>
    BY DEF vars, outcome, Ended
  <2> QED
    BY <2>1, <2>2 DEF Next
<1> QED
  BY <1>1, Invariance, PromiseInit, PTL DEF Spec, IsRemoteCall, Promise!CallSpec

-----------------------------------------------------------------------------
(* How far a call is from its end. *)

\* Three steps an attempt, the wait after it among them, and none after the end.
ToGo(c) ==
    CASE pc[c] = "sent"    -> 3 * (MaxAttempts - attempts[c]) + 3
      [] pc[c] = "waiting" -> 3 * (MaxAttempts - attempts[c]) + 2
      [] pc[c] = "ready"   -> 3 * (MaxAttempts - attempts[c]) + 1
      [] OTHER             -> 0

\* A step of a call brings it nearer to its end, from which it was no further than its
\* attempts allow, and moves no other call.
CallsAdvance ==
    /\ \A c \in Calls : ToGo(c) \in 0..3 * MaxAttempts + 1
    /\ \A c \in Calls : CallStep(c) => ToGo(c)' < ToGo(c) /\ \A d \in Calls \ {c} : ToGo(d)' = ToGo(d)
    /\ \A c \in Calls : Ended(c) => ~CallStep(c) /\ effects'[c] = effects[c] /\ outcome'[c] = outcome[c]

\* The safety half of CallsEnd: no pattern of failures makes a call longer than its
\* attempts, and an answer once given stands.  (retry.py stop_after_attempt,
\* github_tools.py _request)
THEOREM CallsOnlyAdvance == Spec => [][CallsAdvance]_vars
<1>1. IInv /\ IInv' /\ [Next]_vars => CallsAdvance
  <2> SUFFICES ASSUME IInv, IInv', [Next]_vars PROVE CallsAdvance
    OBVIOUS
  <2>1. ASSUME NEW c \in Calls
        PROVE  /\ MaxAttempts \in Nat /\ attempts[c] \in 0..MaxAttempts
               /\ pc[c] \in {"ready", "sent", "waiting", "returned", "raised"}
               /\ pc[c] = "ready" => attempts[c] < MaxAttempts
               /\ pc[c] = "sent" => attempts[c] > 0
               /\ pc[c] = "waiting" => attempts[c] > 0
    <3>1. TypeOK /\ CallInv(c) /\ MaxAttempts \in Nat
      BY AttemptsAssumption DEF IInv
    <3>2. attempts[c] \in 0..MaxAttempts
      BY <3>1 DEF TypeOK, CallInv
    <3> QED
      BY <3>1, <3>2 DEF TypeOK, CallInv
  <2>2. ASSUME NEW c \in Calls PROVE ToGo(c) \in 0..3 * MaxAttempts + 1
    BY <2>1 DEF ToGo
  <2>3. ASSUME NEW c \in Calls, CallStep(c)
        PROVE  ToGo(c)' < ToGo(c) /\ \A d \in Calls \ {c} : ToGo(d)' = ToGo(d)
    <3>1. TypeOK
      BY DEF IInv
    <3>2. ToGo(c)' < ToGo(c)
      BY <2>1, <2>3, <3>1 DEF TypeOK, CallStep, Send, Succeeds, Refused, Breaks, Backoff, ToGo
    <3>3. \A d \in Calls \ {c} : pc'[d] = pc[d] /\ attempts'[d] = attempts[d]
      BY <2>3, <3>1 DEF TypeOK, CallStep, Send, Succeeds, Refused, Breaks, Backoff
    <3> QED
      BY <3>2, <3>3 DEF ToGo
  <2>4. ASSUME NEW c \in Calls, Ended(c)
        PROVE  ~CallStep(c) /\ effects'[c] = effects[c] /\ outcome'[c] = outcome[c]
    <3>1. ~CallStep(c)
      BY <2>4 DEF Ended, CallStep, Send, Succeeds, Refused, Breaks, Backoff
    <3>2. ASSUME NEW d \in Calls, CallStep(d)
          PROVE  effects'[c] = effects[c] /\ pc'[c] = pc[c]
      <4>1. TypeOK /\ d # c
        BY <3>1, <3>2 DEF IInv
      <4> QED
        BY <3>2, <4>1 DEF TypeOK, CallStep, Send, Succeeds, Refused, Breaks, Backoff
    <3>3. effects'[c] = effects[c] /\ pc'[c] = pc[c]
      BY <3>2 DEF Next, vars
    <3> QED
      BY <3>1, <3>3 DEF outcome, Ended
  <2> QED
    BY <2>2, <2>3, <2>4 DEF CallsAdvance
<1> QED
  BY <1>1, Invariance, PTL DEF Spec

\* No git command is ever tried twice, and no PR opened twice.
TriedOnce ==
    \A c \in Calls :
        /\ kind[c] \in GitKinds => attempts[c] <= 1
        /\ kind[c] = "pull" => effects[c] <= 1

\* The retries that git_tools.py asks for never happen, however high stop_after_attempt
\* is set, which is why PushIsRetried fails; those of a PR that do happen never open a
\* second one.  (git_tools.py push_branch, github_tools.py create_pull_request)
THEOREM GitTriedOnce == Spec => []TriedOnce
<1>1. IInv => TriedOnce
  BY DEF IInv, CallInv, TriedOnce
<1> QED
  BY <1>1, Invariance, PTL
=============================================================================
