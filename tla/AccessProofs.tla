---------------------------- MODULE AccessProofs ----------------------------
(***************************************************************************)
(* Proofs about Access for every set of accounts, projects and requests.   *)
(***************************************************************************)
EXTENDS Access, TLAPS

-----------------------------------------------------------------------------
(* Types. *)

AccountsOK ==
    /\ token \in [Accounts -> 0..MaxTokens]
    /\ revoked \subseteq Accounts
    /\ member \in [Accounts -> SUBSET Projects]

RequestsOK ==
    /\ pc \in [Reqs -> Steps]
    /\ ask \in [Reqs -> Asks]
    /\ acted \subseteq Reqs
    /\ left \in [Reqs -> 0..2]
    /\ had \in [Reqs -> SUBSET {"token", "access"}]

LEMMA NothingType == Nothing \in Asks
  BY AccessAssumption DEF Nothing, Asked, Asks, WorkerKinds, AdminKinds, AccountOf

LEMMA AskedType ==
    ASSUME NEW k \in WorkerKinds \cup AdminKinds, NEW a \in Accounts \cup {None},
           NEW n \in 0..MaxTokens, NEW b \in AccountOf(k), NEW p \in ProjectOf(k),
           k \in WorkerKinds => a \in Accounts
    PROVE  Asked(k, a, n, b, p) \in Asks
<1>1. p \in Projects \cup {None} /\ b \in Accounts \cup {None}
  BY DEF ProjectOf, AccountOf
<1>2. /\ Asked(k, a, n, b, p).kind = k
      /\ Asked(k, a, n, b, p).acct = a
      /\ Asked(k, a, n, b, p).on = b
      /\ Asked(k, a, n, b, p).proj = p
  BY DEF Asked
<1>3. Asked(k, a, n, b, p) \in [kind : WorkerKinds \cup AdminKinds \cup {"nothing"},
            acct : Accounts \cup {None}, tok : 0..MaxTokens,
            on : Accounts \cup {None}, proj : Projects \cup {None}]
  BY <1>1 DEF Asked
<1> QED
  BY <1>2, <1>3 DEF Asks

LEMMA SeenType ==
    ASSUME NEW q, NEW m
    PROVE  Seen(q, m) \subseteq {"token", "access"}
  BY DEF Seen

LEMMA ForgetType ==
    ASSUME RequestsOK, NEW r \in Reqs, Forget(r)
    PROVE  /\ ask' \in [Reqs -> Asks]
           /\ had' \in [Reqs -> SUBSET {"token", "access"}]
  BY NothingType DEF RequestsOK, Forget

LEMMA GotoType ==
    ASSUME RequestsOK, NEW r \in Reqs, NEW p \in Steps, Goto(r, p)
    PROVE  pc' \in [Reqs -> Steps]
  BY DEF RequestsOK, Goto

LEMMA OpensType ==
    ASSUME AccountsOK, RequestsOK, NEW r \in Reqs, NEW q \in Asks, Opens(r, q)
    PROVE  AccountsOK' /\ RequestsOK'
<1>1. Rights(q) \subseteq {"token", "access"}
  BY SeenType DEF Rights
<1>2. pc' \in [Reqs -> Steps]
  BY GotoType DEF Opens, Steps
<1> QED
  BY <1>1, <1>2 DEF Opens, AccountsOK, RequestsOK, accountVars

LEMMA PassesType ==
    ASSUME AccountsOK, RequestsOK, NEW r \in Reqs, NEW ok, NEW p \in Steps, Passes(r, ok, p)
    PROVE  AccountsOK' /\ RequestsOK'
<1>1. pc' \in [Reqs -> Steps]
  BY GotoType DEF Passes, Steps
<1>2. /\ ask' \in [Reqs -> Asks]
      /\ had' \in [Reqs -> SUBSET {"token", "access"}]
  BY ForgetType DEF Passes, RequestsOK
<1> QED
  BY <1>1, <1>2 DEF Passes, AccountsOK, RequestsOK, accountVars

LEMMA AdministeredType ==
    ASSUME RequestsOK, NEW r \in Reqs, Administered(r)
    PROVE  RequestsOK'
<1>1. pc' \in [Reqs -> Steps]
  BY GotoType DEF Administered, Steps
<1>2. had' \in [Reqs -> SUBSET {"token", "access"}]
  BY SeenType DEF Administered, RequestsOK
<1> QED
  BY <1>1, <1>2, NothingType DEF Administered, RequestsOK

LEMMA BeginAsks ==
    ASSUME AccountsOK, NEW k \in WorkerKinds, NEW a \in Accounts, NEW n \in 1..MaxTokens,
           NEW p \in ProjectOf(k)
    PROVE  Asked(k, a, n, None, p) \in Asks
  BY AskedType, AccessAssumption DEF WorkerKinds, AdminKinds, AccountOf

LEMMA BeginAdminAsks ==
    ASSUME NEW k \in AdminKinds, NEW a \in Accounts \cup {None}, NEW n \in 0..MaxTokens,
           NEW b \in AccountOf(k), NEW p \in ProjectOf(k)
    PROVE  Asked(k, a, n, b, p) \in Asks
  BY AskedType DEF WorkerKinds, AdminKinds

-----------------------------------------------------------------------------
\* A request has acted when it is at its events, and is told of an error later
\* only while one of them is missing.
EventsInv ==
    \A r \in Reqs :
        /\ pc[r] \in {"idle", "auth", "access", "act"} => r \notin acted /\ left[r] = 0
        /\ pc[r] = "emit" => r \in acted /\ left[r] > 0
        /\ pc[r] = "notify" => r \in acted
        /\ pc[r] = "ok" => r \in acted /\ left[r] = 0
        /\ pc[r] = "error" => r \notin acted \/ left[r] > 0

LEMMA EventsStep == TypeOK /\ EventsInv /\ [Next]_vars => EventsInv'
<1> SUFFICES ASSUME TypeOK, EventsInv, [Next]_vars PROVE EventsInv'
  OBVIOUS
<1> USE DEF TypeOK, EventsInv, At, Goto, Steps
<1>1. CASE UNCHANGED vars
  BY <1>1 DEF vars
<1>2. ASSUME NEW r \in Reqs, WorkerStep(r) PROVE EventsInv'
  <2>1. ASSUME NEW q, Opens(r, q) PROVE EventsInv'
    BY <2>1 DEF Opens
  <2>2. CASE Authenticate(r) \/ CheckAccess(r)
    BY <2>2 DEF Authenticate, CheckAccess, Passes
  <2>3. CASE Act(r)
    BY <2>3 DEF Act, Events
  <2>4. CASE RecordEvent(r)
    BY <2>4 DEF RecordEvent
  <2>5. CASE RecordEventFails(r) \/ Notify(r)
    BY <2>5 DEF RecordEventFails, Notify
  <2> QED
    BY <1>2, <2>1, <2>2, <2>3, <2>4, <2>5 DEF WorkerStep, Begin
<1>3. ASSUME NEW r \in Reqs, AdminStep(r) PROVE EventsInv'
  <2>1. ASSUME NEW q, Opens(r, q) PROVE EventsInv'
    BY <2>1 DEF Opens
  <2>2. CASE AuthenticateAdmin(r)
    BY <2>2 DEF AuthenticateAdmin, Passes
  <2>3. ASSUME Administered(r), At(r, "act") PROVE EventsInv'
    BY <2>3 DEF Administered
  <2> QED
    BY <1>3, <2>1, <2>2, <2>3 DEF AdminStep, BeginAdmin, Administers, CreateAccount,
       RevokeAccount, RotateAccount, AddMembership, RemoveMembership
<1>4. ASSUME NEW r \in Reqs, Refused(r) \/ Ends(r) PROVE EventsInv'
  BY <1>4 DEF Refused, Passes, Ends
<1> QED
  BY <1>1, <1>2, <1>3, <1>4 DEF Next

\* Every variable of Access keeps its type.
THEOREM TypeCorrect == Spec => []TypeOK
<1>1. Init => TypeOK
  BY NothingType, AccessAssumption DEF Init, TypeOK, Steps
<1>2. TypeOK /\ EventsInv /\ [Next]_vars => TypeOK'
  <2> SUFFICES ASSUME TypeOK, EventsInv, [Next]_vars PROVE TypeOK'
    OBVIOUS
  <2>1. AccountsOK /\ RequestsOK
    BY DEF TypeOK, AccountsOK, RequestsOK
  <2>2. SUFFICES AccountsOK' /\ RequestsOK'
    BY <2>2 DEF TypeOK, AccountsOK, RequestsOK
  <2>3. CASE UNCHANGED vars
    BY <2>1, <2>3 DEF vars, accountVars, AccountsOK, RequestsOK
  <2>4. ASSUME NEW r \in Reqs, WorkerStep(r) PROVE AccountsOK' /\ RequestsOK'
    <3>1. ASSUME NEW k \in WorkerKinds, NEW a \in Accounts, NEW n \in 1..MaxTokens,
                 NEW p \in ProjectOf(k), Begin(r, k, a, n, p)
          PROVE  AccountsOK' /\ RequestsOK'
      BY <2>1, <3>1, BeginAsks, OpensType DEF Begin
    <3>2. CASE Authenticate(r) \/ CheckAccess(r)
      BY <2>1, <3>2, PassesType DEF Authenticate, CheckAccess, Steps
    <3>3. CASE Act(r)
      <4>1. PICK n \in Events(ask[r].kind) :
              /\ left' = [left EXCEPT ![r] = n]
              /\ Goto(r, IF n = 0 THEN "ok" ELSE "emit")
        BY <3>3 DEF Act
      <4>2. n \in 0..2
        BY <4>1 DEF Events
      <4>3. pc' \in [Reqs -> Steps]
        BY <2>1, <4>1, GotoType DEF Steps
      <4> QED
        BY <2>1, <3>3, <4>1, <4>2, <4>3, ForgetType DEF Act, AccountsOK, RequestsOK, accountVars
    <3>4. CASE RecordEvent(r)
      <4>1. pc' \in [Reqs -> Steps]
        BY <2>1, <3>4, GotoType DEF RecordEvent, Steps
      <4>2. left[r] - 1 \in 0..2
        BY <2>1, <3>4 DEF RecordEvent, RequestsOK, EventsInv, At
      <4> QED
        BY <2>1, <3>4, <4>1, <4>2 DEF RecordEvent, AccountsOK, RequestsOK, accountVars
    <3>5. CASE RecordEventFails(r) \/ Notify(r)
      <4>1. pc' \in [Reqs -> Steps]
        BY <2>1, <3>5, GotoType DEF RecordEventFails, Notify, Steps
      <4> QED
        BY <2>1, <3>5, <4>1 DEF RecordEventFails, Notify, AccountsOK, RequestsOK, accountVars
    <3> QED
      BY <2>4, <3>1, <3>2, <3>3, <3>4, <3>5 DEF WorkerStep
  <2>5. ASSUME NEW r \in Reqs, AdminStep(r) PROVE AccountsOK' /\ RequestsOK'
    <3>1. ASSUME NEW k \in AdminKinds, NEW a \in Accounts \cup {None}, NEW n \in 0..MaxTokens,
                 NEW b \in AccountOf(k), NEW p \in ProjectOf(k), BeginAdmin(r, k, a, n, b, p)
          PROVE  AccountsOK' /\ RequestsOK'
      BY <2>1, <3>1, BeginAdminAsks, OpensType DEF BeginAdmin
    <3>2. CASE AuthenticateAdmin(r)
      BY <2>1, <3>2, PassesType DEF AuthenticateAdmin, Steps
    <3>3. ASSUME NEW k \in AdminKinds \ {"plan"}, Administers(r, k)
          PROVE  /\ ask[r].on \in Accounts
                 /\ ask[r].proj \in ProjectOf(k)
      BY <2>1, <3>3, AccessAssumption DEF RequestsOK, Asks, Administers, AdminKinds, AccountOf
    <3>4. CASE CreateAccount(r)
      <4>1. AccountsOK'
        BY <2>1, <3>3, <3>4, AccessAssumption DEF CreateAccount, AccountsOK, AdminKinds
      <4> QED
        BY <2>1, <3>4, <4>1, AdministeredType DEF CreateAccount
    <3>5. CASE RotateAccount(r)
      <4>1. AccountsOK'
        BY <2>1, <3>3, <3>5, AccessAssumption DEF RotateAccount, AccountsOK, AdminKinds
      <4> QED
        BY <2>1, <3>5, <4>1, AdministeredType DEF RotateAccount
    <3>6. CASE RevokeAccount(r)
      <4>1. AccountsOK'
        BY <2>1, <3>3, <3>6 DEF RevokeAccount, AccountsOK, AdminKinds
      <4> QED
        BY <2>1, <3>6, <4>1, AdministeredType DEF RevokeAccount
    <3>7. CASE AddMembership(r)
      <4>1. AccountsOK'
        BY <2>1, <3>3, <3>7 DEF AddMembership, AccountsOK, AdminKinds, ProjectOf
      <4> QED
        BY <2>1, <3>7, <4>1, AdministeredType DEF AddMembership
    <3>8. CASE RemoveMembership(r)
      <4>1. AccountsOK'
        BY <2>1, <3>3, <3>8 DEF RemoveMembership, AccountsOK, AdminKinds
      <4> QED
        BY <2>1, <3>8, <4>1, AdministeredType DEF RemoveMembership
    <3> QED
      BY <2>5, <3>1, <3>2, <3>4, <3>5, <3>6, <3>7, <3>8 DEF AdminStep
  <2>6. ASSUME NEW r \in Reqs, Refused(r) \/ Ends(r) PROVE AccountsOK' /\ RequestsOK'
    <3>1. CASE Refused(r)
      BY <2>1, <3>1, PassesType DEF Refused, Steps
    <3>2. CASE Ends(r)
      <4>1. pc' \in [Reqs -> Steps]
        BY <2>1, <3>2, GotoType DEF Ends, Steps
      <4>2. /\ ask' \in [Reqs -> Asks]
            /\ had' \in [Reqs -> SUBSET {"token", "access"}]
        <5>1. Forget(r)
          BY <3>2 DEF Ends
        <5> QED
          BY <2>1, <5>1, ForgetType
      <4>3. acted' \subseteq Reqs /\ left' \in [Reqs -> 0..2] /\ AccountsOK'
        BY <2>1, <3>2 DEF Ends, AccountsOK, RequestsOK, accountVars
      <4> QED
        BY <4>1, <4>2, <4>3 DEF RequestsOK
    <3> QED
      BY <2>6, <3>1, <3>2
  <2> QED
    BY <2>3, <2>4, <2>5, <2>6 DEF Next
<1>3. Init => EventsInv
  BY DEF Init, EventsInv
<1> QED
  BY <1>1, <1>2, <1>3, EventsStep, PTL DEF Spec

LEMMA EventsKept == Spec => []EventsInv
<1>1. Init => EventsInv
  BY DEF Init, EventsInv
<1> QED
  BY <1>1, TypeCorrect, EventsStep, PTL DEF Spec

\* Success is told only when all is done, an error only when something is missing.
THEOREM AnswersTrue == Spec => []AnswersTell
<1>1. TypeOK /\ EventsInv => AnswersTell
  BY DEF EventsInv, AnswersTell, At
<1> QED
  BY <1>1, EventsKept, TypeCorrect, PTL

-----------------------------------------------------------------------------
\* A token that is revoked or replaced stays dead.
THEOREM DeadStaysDead == Spec => TokensStayDead
<1> DEFINE Step == \A a \in Accounts : \A n \in 1..token[a] : ~Valid(a, n) => ~Valid(a, n)'
<1>1. TypeOK /\ [Next]_vars => Step
  <2> SUFFICES ASSUME TypeOK, [Next]_vars, NEW a \in Accounts, NEW n \in 1..token[a],
                      ~Valid(a, n)
               PROVE  ~Valid(a, n)'
    OBVIOUS
  <2> USE DEF Valid, TypeOK, accountVars
  <2>1. CASE UNCHANGED accountVars
    BY <2>1
  <2>2. ASSUME NEW r \in Reqs, AdminStep(r), ~UNCHANGED accountVars PROVE ~Valid(a, n)'
    <3>1. CASE CreateAccount(r)
      BY <3>1 DEF CreateAccount
    <3>2. CASE RevokeAccount(r)
      BY <3>2 DEF RevokeAccount
    <3>3. CASE RotateAccount(r)
      BY <3>3 DEF RotateAccount
    <3>4. CASE AddMembership(r) \/ RemoveMembership(r)
      BY <3>4 DEF AddMembership, RemoveMembership
    <3> QED
      BY <2>2, <3>1, <3>2, <3>3, <3>4
         DEF AdminStep, BeginAdmin, Opens, AuthenticateAdmin, Passes
  <2>3. \A r \in Reqs : WorkerStep(r) \/ Refused(r) \/ Ends(r) => UNCHANGED accountVars
    BY DEF WorkerStep, Begin, Opens, Authenticate, CheckAccess, Passes, Act, RecordEvent,
       RecordEventFails, Notify, Refused, Ends
  <2> QED
    BY <2>1, <2>2, <2>3 DEF Next, vars
<1> QED
  BY <1>1, TypeCorrect, PTL DEF Spec, TokensStayDead

-----------------------------------------------------------------------------
\* What a request has been seen to be allowed: a good token, since one that is
\* good now was good when the request began; and its project, since nobody but
\* an administrator's step can have put it in reach.
Allowed(r) ==
    LET q == ask[r] IN
    /\ pc[r] = "auth" /\ q.acct # None =>
         /\ q.tok \in 1..token[q.acct]
         /\ Valid(q.acct, q.tok) => "token" \in had[r]
    /\ pc[r] \in {"access", "act"} /\ q.acct # None => "token" \in had[r]
    /\ pc[r] = "auth" => q.kind # "nothing"
    /\ pc[r] = "access" => q.kind \in {"claim", "read"}
    /\ pc[r] \in {"auth", "access"} /\ q.kind \in {"claim", "read"} /\ CanAccess(q.acct, q.proj, member[q.acct]) =>
         "access" \in had[r]
    /\ pc[r] = "act" /\ q.kind \in {"claim", "read"} => "access" \in had[r]

RightsInv == \A r \in Reqs : Allowed(r)

LEMMA AskFacts ==
    ASSUME TypeOK, NEW r \in Reqs
    PROVE  /\ ask[r].kind \in {"claim", "read"} =>
                ask[r].acct # None /\ ask[r].acct \in Accounts /\ ask[r].proj # None
           /\ ask[r].acct # None => ask[r].acct \in Accounts
           /\ Nothing.kind = "nothing"
           /\ Nothing.acct = None
  BY AccessAssumption DEF TypeOK, Asks, Nothing, Asked, WorkerKinds, ProjectOf

LEMMA OpensAllowed ==
    ASSUME TypeOK, RightsInv, NEW r \in Reqs, NEW q \in Asks, Opens(r, q), q.kind # "nothing",
           q.acct # None => q.tok \in 1..token[q.acct]
    PROVE  RightsInv'
<1>1. q.kind \in {"claim", "read"} => q.acct # None /\ q.proj # None
  BY AccessAssumption DEF Asks, WorkerKinds, ProjectOf
<1>2. Allowed(r)'
  BY <1>1 DEF Opens, Goto, Allowed, TypeOK, Rights, Seen, accountVars, Valid, CanAccess
<1>3. ASSUME NEW s \in Reqs, s # r PROVE Allowed(s)'
  BY <1>3 DEF RightsInv, Opens, Goto, Allowed, TypeOK, accountVars, Valid, CanAccess
<1> QED
  BY <1>2, <1>3 DEF RightsInv

LEMMA PassesAllowed ==
    ASSUME TypeOK, RightsInv, NEW r \in Reqs, NEW ok, NEW p \in {"access", "act", "error"},
           Passes(r, ok, p), pc[r] \in {"auth", "access", "act"}, p = "error" => ~ok,
           ok /\ ask[r].acct # None => "token" \in had[r],
           ok /\ p = "access" => pc[r] = "auth" /\ ask[r].kind \in {"claim", "read"},
           ok /\ p = "act" /\ ask[r].kind \in {"claim", "read"} => "access" \in had[r]
    PROVE  RightsInv'
<1>1. Allowed(r)'
  BY AskFacts DEF RightsInv, Passes, Goto, Forget, Allowed, TypeOK, accountVars, Valid, CanAccess
<1>2. ASSUME NEW s \in Reqs, s # r PROVE Allowed(s)'
  BY <1>2 DEF RightsInv, Passes, Goto, Forget, Allowed, TypeOK, accountVars, Valid, CanAccess
<1> QED
  BY <1>1, <1>2 DEF RightsInv

LEMMA AdministeredAllowed ==
    ASSUME TypeOK, TypeOK', RightsInv, NEW r \in Reqs, Administered(r),
           \A a \in Accounts : token[a] <= token'[a],
           \A a \in Accounts : \A n \in 1..token[a] : ~Valid(a, n) => ~Valid(a, n)'
    PROVE  RightsInv'
<1>1. Allowed(r)'
  BY DEF Administered, Goto, Allowed, TypeOK
<1>2. ASSUME NEW s \in Reqs, s # r PROVE Allowed(s)'
  <2>1. /\ pc'[s] = pc[s] /\ ask'[s] = ask[s]
        /\ had'[s] = had[s] \cup Seen(ask[s], member')
    BY <1>2 DEF Administered, Goto, TypeOK
  <2>2. CASE pc[s] = "auth" /\ ask[s].acct # None
    <3>1. token[ask[s].acct] \in Nat /\ token'[ask[s].acct] \in Nat
      BY <2>2, AskFacts DEF TypeOK
    <3>2. ask[s].tok \in 1..token'[ask[s].acct]
      BY <2>2, <3>1, AskFacts DEF RightsInv, Allowed
    <3>3. Valid(ask[s].acct, ask[s].tok)' => "token" \in had'[s]
      BY <2>1, <2>2, AskFacts DEF RightsInv, Allowed
    <3>4. ask[s].kind \in {"claim", "read"} /\ CanAccess(ask[s].acct, ask[s].proj, member'[ask[s].acct]) =>
            "access" \in had'[s]
      BY <2>1, AskFacts DEF Seen
    <3> QED
      BY <2>1, <2>2, <3>2, <3>3, <3>4 DEF RightsInv, Allowed, CanAccess, Valid
  <2>3. CASE ~(pc[s] = "auth" /\ ask[s].acct # None)
    BY <2>1, <2>3, AskFacts DEF RightsInv, Allowed, Seen, CanAccess
  <2> QED
    BY <2>2, <2>3
<1> QED
  BY <1>1, <1>2 DEF RightsInv

LEMMA RightsStep ==
    ASSUME TypeOK, TypeOK', RightsInv, [Next]_vars,
           \A a \in Accounts : \A n \in 1..token[a] : ~Valid(a, n) => ~Valid(a, n)'
    PROVE  RightsInv'
<1> USE DEF At
<1>1. CASE UNCHANGED vars
  BY <1>1 DEF vars, accountVars, RightsInv, Allowed, Valid, CanAccess
<1>2. ASSUME NEW r \in Reqs, WorkerStep(r) PROVE RightsInv'
  <2>1. ASSUME NEW k \in WorkerKinds, NEW a \in Accounts, NEW n \in 1..MaxTokens,
               NEW p \in ProjectOf(k), Begin(r, k, a, n, p)
        PROVE  RightsInv'
    <3>1. Asked(k, a, n, None, p) \in Asks
      BY BeginAsks DEF TypeOK, AccountsOK
    <3> QED
      BY <2>1, <3>1, OpensAllowed DEF Begin, Asked, WorkerKinds
  <2>2. CASE Authenticate(r)
    BY <2>2, PassesAllowed, AskFacts DEF Authenticate, RightsInv, Allowed
  <2>3. CASE CheckAccess(r)
    BY <2>3, PassesAllowed, AskFacts DEF CheckAccess, RightsInv, Allowed
  <2>4. CASE Act(r)
    <3>1. Allowed(r)'
      BY <2>4 DEF Act, Goto, Forget, Allowed, TypeOK
    <3>2. ASSUME NEW s \in Reqs, s # r PROVE Allowed(s)'
      BY <2>4, <3>2 DEF RightsInv, Act, Goto, Forget, Allowed, TypeOK, accountVars, Valid, CanAccess
    <3> QED
      BY <3>1, <3>2 DEF RightsInv
  <2>5. CASE RecordEvent(r) \/ RecordEventFails(r) \/ Notify(r)
    BY <2>5 DEF RecordEvent, RecordEventFails, Notify, RightsInv, Goto, Allowed, TypeOK,
       accountVars, Valid, CanAccess
  <2> QED
    BY <1>2, <2>1, <2>2, <2>3, <2>4, <2>5 DEF WorkerStep
<1>3. ASSUME NEW r \in Reqs, AdminStep(r) PROVE RightsInv'
  <2>1. ASSUME NEW k \in AdminKinds, NEW a \in Accounts \cup {None}, NEW n \in 0..MaxTokens,
               NEW b \in AccountOf(k), NEW p \in ProjectOf(k), BeginAdmin(r, k, a, n, b, p)
        PROVE  RightsInv'
    <3>1. Asked(k, a, n, b, p) \in Asks
      BY BeginAdminAsks
    <3> QED
      BY <2>1, <3>1, OpensAllowed DEF BeginAdmin, Asked, AdminKinds
  <2>2. CASE AuthenticateAdmin(r)
    BY <2>2, PassesAllowed, AskFacts DEF AuthenticateAdmin, RightsInv, Allowed, AdminKinds
  <2>3. CASE CreateAccount(r) \/ RevokeAccount(r) \/ RotateAccount(r)
             \/ AddMembership(r) \/ RemoveMembership(r)
    <3>1. Administered(r) /\ \A a \in Accounts : token[a] <= token'[a]
      BY <2>3 DEF CreateAccount, RevokeAccount, RotateAccount, AddMembership, RemoveMembership,
         TypeOK
    <3> QED
      BY <3>1, AdministeredAllowed
  <2> QED
    BY <1>3, <2>1, <2>2, <2>3 DEF AdminStep
<1>4. ASSUME NEW r \in Reqs, Refused(r) \/ Ends(r) PROVE RightsInv'
  <2>1. CASE Refused(r)
    BY <2>1, PassesAllowed DEF Refused
  <2>2. CASE Ends(r)
    <3>1. Allowed(r)'
      BY <2>2 DEF Ends, Goto, Forget, Allowed, TypeOK
    <3>2. ASSUME NEW s \in Reqs, s # r PROVE Allowed(s)'
      BY <2>2, <3>2 DEF RightsInv, Ends, Goto, Forget, Allowed, TypeOK, accountVars, Valid, CanAccess
    <3> QED
      BY <3>1, <3>2 DEF RightsInv
  <2> QED
    BY <1>4, <2>1, <2>2
<1> QED
  BY <1>1, <1>2, <1>3, <1>4 DEF Next

\* Nobody acts without a right he has had since his request began.
THEOREM EffectsByRight == Spec => ActsByRight
<1> DEFINE Dead == \A a \in Accounts : \A n \in 1..token[a] : ~Valid(a, n) => ~Valid(a, n)'
           Fair == \A r \in acted' \ acted :
                     /\ ask[r].acct # None => "token" \in had[r]
                     /\ ask[r].kind \in {"claim", "read"} => "access" \in had[r]
<1>1. Init => RightsInv
  BY DEF Init, RightsInv, Allowed
<1>2. TypeOK /\ TypeOK' /\ RightsInv /\ [Next]_vars /\ [Dead]_vars => RightsInv'
  <2>1. TypeOK /\ UNCHANGED vars => Dead
    BY DEF vars, accountVars, Valid
  <2> QED
    BY <2>1, RightsStep
<1>3. TypeOK /\ RightsInv /\ [Next]_vars => [Fair]_vars
  <2> SUFFICES ASSUME TypeOK, RightsInv, [Next]_vars, NEW r \in acted' \ acted
               PROVE  /\ ask[r].acct # None => "token" \in had[r]
                      /\ ask[r].kind \in {"claim", "read"} => "access" \in had[r]
    OBVIOUS
  <2>1. r \in Reqs /\ pc[r] = "act"
    BY DEF Next, vars, TypeOK, WorkerStep, Begin, Opens, Authenticate, CheckAccess, Passes, Act,
       RecordEvent, RecordEventFails, Notify, Refused, Ends, AdminStep, BeginAdmin,
       AuthenticateAdmin, Administered, Administers, CreateAccount, RevokeAccount, RotateAccount,
       AddMembership, RemoveMembership, At
  <2> QED
    BY <2>1 DEF RightsInv, Allowed
<1> QED
  BY <1>1, <1>2, <1>3, TypeCorrect, DeadStaysDead, PTL DEF Spec, ActsByRight, TokensStayDead
=============================================================================
