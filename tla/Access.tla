------------------------------- MODULE Access -------------------------------
(***************************************************************************)
(* Who may do what, and what is told of it: the accounts, tokens and       *)
(* memberships of app/store/board.py, the checks that app/api/auth.py,     *)
(* agent.py and mcp_server.py make before a request has its effect, and    *)
(* the events of app/services/notify.py that follow it.  The checks and    *)
(* the effect are statements of their own: an administrator may change the *)
(* account between them.  What the effect does to a task is AgentApi's.    *)
(*                                                                         *)
(* A token is its account and its number: rotate_account makes the next    *)
(* one.  ADMIN_TOKEN is taken to be set, as README.md asks.                *)
(***************************************************************************)
EXTENDS Naturals

CONSTANTS
    Accounts,   \* the ids that rows of c3k_accounts will have
    Role,       \* Role[a]: "admin", "member" or "viewer"; no statement changes it
    Projects,   \* the ids of c3k_projects
    Reqs,       \* the slots for requests in progress at a time
    MaxTokens,  \* bound: the tokens an account is given
    Joiners,    \* bound: the accounts whose memberships change
    None

Roles == {"admin", "member", "viewer"}

ASSUME AccessAssumption ==
    /\ Role \in [Accounts -> Roles]
    /\ MaxTokens \in Nat \ {0}
    /\ None \notin Accounts \cup Projects

VARIABLES
    token,      \* token[a]: the number of the token whose hash a's row holds,
                \*   0 while there is no row
    revoked,    \* the accounts whose revoked_at is set
    member,     \* member[a]: the projects of a's rows in c3k_memberships
    pc,         \* pc[r]: where the request in slot r is
    ask,        \* ask[r]: what it asks for, and in whose name
    acted,      \* the requests that have had their effect
    left,       \* left[r]: the events of it that are still to be recorded
    had         \* had[r]: history, the rights it has had at some time so far

accountVars == <<token, revoked, member>>
vars == <<accountVars, pc, ask, acted, left, had>>

-----------------------------------------------------------------------------
(* Requests. *)

\* "claim" is the claim of the REST API, "write" its notes, submit, block and
\* release, "read" a goal's work list or a task; "tool" is any tool of the MCP
\* server, its claim and its reads included; "plan" is an administrator's projects,
\* goals and tasks.
WorkerKinds == {"claim", "write", "read", "tool"}
AdminKinds == {"create", "revoke", "rotate", "join", "leave", "plan"}
AccountOf(k) == IF k \in AdminKinds \ {"plan"} THEN Accounts ELSE {None}
ProjectOf(k) == IF k \in {"claim", "read", "join", "leave"} THEN Projects ELSE {None}

\* acct is None in a request that shows X-Admin-Token.  on is the account that an
\* administrator's request is about; proj is the project of the task or of the membership,
\* where it matters.
Asks ==
    {q \in [kind : WorkerKinds \cup AdminKinds \cup {"nothing"},
            acct : Accounts \cup {None}, tok : 0..MaxTokens,
            on : Accounts \cup {None}, proj : Projects \cup {None}] :
        /\ q.kind \in WorkerKinds => q.acct \in Accounts
        /\ q.on \in AccountOf(q.kind)
        /\ q.kind # "nothing" => q.proj \in ProjectOf(q.kind)}
Asked(k, a, n, b, p) == [kind |-> k, acct |-> a, tok |-> n, on |-> b, proj |-> p]
Nothing == Asked("nothing", None, 0, None, None)

Steps == {"idle", "auth", "access", "act", "emit", "notify", "ok", "error"}
At(r, p) == pc[r] = p
Goto(r, p) == pc' = [pc EXCEPT ![r] = p]
Forget(r) == ask' = [ask EXCEPT ![r] = Nothing] /\ had' = [had EXCEPT ![r] = {}]

\* account_by_token: the row with this hash, if it is not revoked.
Valid(a, n) == n > 0 /\ token[a] = n /\ a \notin revoked

\* can_access, of an account whose memberships are m: none is no scope at all.
CanAccess(a, p, m) == Role[a] = "admin" \/ m = {} \/ p \in m

MayWrite(a) == Role[a] # "viewer"

\* The rights of a request that begins, and of one under new memberships m.
Seen(q, m) ==
    IF q.acct # None /\ q.proj # None /\ CanAccess(q.acct, q.proj, m[q.acct])
    THEN {"access"} ELSE {}
Rights(q) ==
    Seen(q, member) \cup (IF q.acct # None /\ Valid(q.acct, q.tok) THEN {"token"} ELSE {})

-----------------------------------------------------------------------------
(* The checks. *)

\* The request q comes in; a client shows a token it has been given.
Opens(r, q) ==
    /\ At(r, "idle")
    /\ Goto(r, "auth")
    /\ ask' = [ask EXCEPT ![r] = q]
    /\ had' = [had EXCEPT ![r] = Rights(q)]
    /\ UNCHANGED <<accountVars, acted, left>>

Begin(r, k, a, n, p) ==
    /\ n \in 1..token[a]
    /\ Opens(r, Asked(k, a, n, None, p))

BeginAdmin(r, k, a, n, b, p) ==
    /\ IF a = None THEN n = 0 ELSE n \in 1..token[a]
    /\ k \in {"join", "leave"} => b \in Joiners
    /\ Opens(r, Asked(k, a, n, b, p))

\* A check lets the request go on to p, or refuses it.
Passes(r, ok, p) ==
    /\ Goto(r, IF ok THEN p ELSE "error")
    /\ IF ok THEN UNCHANGED <<ask, had>> ELSE Forget(r)
    /\ UNCHANGED <<accountVars, acted, left>>

\* current_account and _require_write, or _AuthASGI and _account: the account
\* is read once, and a write goes on without another look at it.
Authenticate(r) ==
    LET q == ask[r] IN
    /\ At(r, "auth")
    /\ q.kind \in WorkerKinds
    /\ Passes(r, /\ Valid(q.acct, q.tok)
                 /\ q.kind \in {"claim", "write"} => MayWrite(q.acct),
              IF q.kind \in {"claim", "read"} THEN "access" ELSE "act")

\* admin_auth: X-Admin-Token, or the token of an admin.
AuthenticateAdmin(r) ==
    LET q == ask[r] IN
    /\ At(r, "auth")
    /\ q.kind \in AdminKinds
    /\ Passes(r, q.acct # None => Valid(q.acct, q.tok) /\ Role[q.acct] = "admin", "act")

\* Mutant of CheckAccess: whoever has memberships at all is let through.
CheckAccessAny(r) ==
    /\ At(r, "access")
    /\ Passes(r, TRUE, "act")

\* _require_access.
CheckAccess(r) ==
    /\ At(r, "access")
    /\ Passes(r, CanAccess(ask[r].acct, ask[r].proj, member[ask[r].acct]), "act")

-----------------------------------------------------------------------------
(* The effects. *)

\* The REST API records one event of a write, and a second one of a claim
\* that overlaps others; create_task records one, create_goal none; reads and
\* the tools record none.
Events(k) ==
    CASE k = "claim" -> {1, 2} [] k = "write" -> {1} [] k = "plan" -> {0, 1} [] OTHER -> {0}

\* Mutant of Act: an event is recorded of a request that has none.
ActEmits(r) ==
    /\ At(r, "act")
    /\ ask[r].kind \in WorkerKinds \cup {"plan"}
    /\ Goto(r, "emit")
    /\ acted' = acted \cup {r}
    /\ \E n \in Events(ask[r].kind) : left' = [left EXCEPT ![r] = n]
    /\ Forget(r)
    /\ UNCHANGED accountVars

Act(r) ==
    /\ At(r, "act")
    /\ ask[r].kind \in WorkerKinds \cup {"plan"}
    /\ acted' = acted \cup {r}
    /\ \E n \in Events(ask[r].kind) :
          /\ left' = [left EXCEPT ![r] = n]
          /\ Goto(r, IF n = 0 THEN "ok" ELSE "emit")
    /\ Forget(r)
    /\ UNCHANGED accountVars

\* An administrator's statement ends its request, and may give others a right.
Administered(r) ==
    /\ Goto(r, "ok")
    /\ acted' = acted \cup {r}
    /\ ask' = [ask EXCEPT ![r] = Nothing]
    /\ had' = [q \in Reqs |-> IF q = r THEN {} ELSE had[q] \cup Seen(ask[q], member')]
    /\ UNCHANGED left

Administers(r, k) == At(r, "act") /\ ask[r].kind = k

\* create_account: INSERT; a name that is taken raises.
CreateAccount(r) ==
    LET b == ask[r].on IN
    /\ Administers(r, "create")
    /\ token[b] = 0
    /\ token' = [token EXCEPT ![b] = 1]
    /\ UNCHANGED <<revoked, member>>
    /\ Administered(r)

RevokeAccount(r) ==
    LET b == ask[r].on IN
    /\ Administers(r, "revoke")
    /\ token[b] # 0
    /\ revoked' = revoked \cup {b}
    /\ UNCHANGED <<token, member>>
    /\ Administered(r)

\* Mutant of RotateAccount: the account is let in again with its old token.
RotateAccountKept(r) ==
    LET b == ask[r].on IN
    /\ Administers(r, "rotate")
    /\ token[b] # 0
    /\ revoked' = revoked \ {b}
    /\ UNCHANGED <<token, member>>
    /\ Administered(r)

\* rotate_account: one UPDATE sets the new hash and clears revoked_at.
RotateAccount(r) ==
    LET b == ask[r].on IN
    /\ Administers(r, "rotate")
    /\ token[b] \in 1..(MaxTokens - 1)
    /\ token' = [token EXCEPT ![b] = @ + 1]
    /\ revoked' = revoked \ {b}
    /\ UNCHANGED member
    /\ Administered(r)

\* add_membership: INSERT ... ON CONFLICT DO NOTHING.
AddMembership(r) ==
    LET b == ask[r].on IN
    /\ Administers(r, "join")
    /\ token[b] # 0
    /\ member' = [member EXCEPT ![b] = @ \cup {ask[r].proj}]
    /\ UNCHANGED <<token, revoked>>
    /\ Administered(r)

RemoveMembership(r) ==
    LET b == ask[r].on IN
    /\ Administers(r, "leave")
    /\ member' = [member EXCEPT ![b] = @ \ {ask[r].proj}]
    /\ UNCHANGED <<token, revoked>>
    /\ Administered(r)

\* The effect is refused, for a conflict or an unknown row, or a statement
\* raises, at any of the steps so far.
Refused(r) ==
    /\ pc[r] \in {"auth", "access", "act"}
    /\ Passes(r, FALSE, "error")

-----------------------------------------------------------------------------
(* The events: emit, which records first and notifies afterwards. *)

RecordEvent(r) ==
    /\ At(r, "emit")
    /\ Goto(r, "notify")
    /\ left' = [left EXCEPT ![r] = @ - 1]
    /\ UNCHANGED <<accountVars, ask, acted, had>>

\* record_event raises: the client is told of an error, the effect stays.
RecordEventFails(r) ==
    /\ At(r, "emit")
    /\ Goto(r, "error")
    /\ UNCHANGED <<accountVars, ask, acted, left, had>>

\* Mutant of Notify: a webhook that does not answer fails the request.
NotifyRaises(r) ==
    /\ At(r, "notify")
    /\ Goto(r, "error")
    /\ UNCHANGED <<accountVars, ask, acted, left, had>>

\* notify swallows what the webhook does.
Notify(r) ==
    /\ At(r, "notify")
    /\ Goto(r, IF left[r] > 0 THEN "emit" ELSE "ok")
    /\ UNCHANGED <<accountVars, ask, acted, left, had>>

\* The client has its answer; or it goes away, or the process stops.
Ends(r) ==
    /\ ~At(r, "idle")
    /\ Goto(r, "idle")
    /\ Forget(r)
    /\ acted' = acted \ {r}
    /\ left' = [left EXCEPT ![r] = 0]
    /\ UNCHANGED accountVars

-----------------------------------------------------------------------------
Init ==
    /\ token = [a \in Accounts |-> 0]
    /\ revoked = {}
    /\ member = [a \in Accounts |-> {}]
    /\ pc = [r \in Reqs |-> "idle"]
    /\ ask = [r \in Reqs |-> Nothing]
    /\ acted = {}
    /\ left = [r \in Reqs |-> 0]
    /\ had = [r \in Reqs |-> {}]

WorkerStep(r) ==
    \/ \E k \in WorkerKinds, a \in Accounts, n \in 1..MaxTokens : \E p \in ProjectOf(k) :
          Begin(r, k, a, n, p)
    \/ Authenticate(r) \/ CheckAccess(r) \/ Act(r)
    \/ RecordEvent(r) \/ RecordEventFails(r) \/ Notify(r)

AdminStep(r) ==
    \/ \E k \in AdminKinds, a \in Accounts \cup {None}, n \in 0..MaxTokens :
          \E b \in AccountOf(k), p \in ProjectOf(k) : BeginAdmin(r, k, a, n, b, p)
    \/ AuthenticateAdmin(r)
    \/ CreateAccount(r) \/ RevokeAccount(r) \/ RotateAccount(r)
    \/ AddMembership(r) \/ RemoveMembership(r)

Next == \E r \in Reqs : WorkerStep(r) \/ AdminStep(r) \/ Refused(r) \/ Ends(r)

Spec == Init /\ [][Next]_vars

TypeOK ==
    /\ token \in [Accounts -> 0..MaxTokens]
    /\ revoked \subseteq Accounts
    /\ member \in [Accounts -> SUBSET Projects]
    /\ pc \in [Reqs -> Steps]
    /\ ask \in [Reqs -> Asks]
    /\ acted \subseteq Reqs
    /\ left \in [Reqs -> 0..2]
    /\ had \in [Reqs -> SUBSET {"token", "access"}]

-----------------------------------------------------------------------------
(* Properties. *)

\* Whatever administrators change meanwhile, a request has its effect only if,
\* at some moment since it began, its token was good; and a claim, a goal's work
\* list or a task is given by the REST API only if the account could then see the
\* project: what was taken away before a request began, and not given back, is
\* denied to it.  Nothing else asks for the project: not the API's other writes,
\* and no tool of the MCP server, by which any good token claims and reads all.
\* (auth.py current_account, admin_auth; agent.py _require_access)
ActsByRight ==
    [][\A r \in acted' \ acted :
        /\ ask[r].acct # None => "token" \in had[r]
        /\ ask[r].kind \in {"claim", "read"} => "access" \in had[r]]_vars

\* A token that has been revoked or replaced never lets anybody in again, though
\* rotating clears revoked_at.  (board.py revoke_account, rotate_account)
TokensStayDead ==
    [][\A a \in Accounts : \A n \in 1..token[a] : ~Valid(a, n) => ~Valid(a, n)']_vars

\* A client is told of success only when all is done, and of an error only when
\* something is missing: the effect, or an event of it.  A webhook that is out
\* of reach is never the reason.  (notify.py: "never raise into the request path")
AnswersTell ==
    \A r \in Reqs :
        /\ At(r, "ok") => r \in acted /\ left[r] = 0
        /\ At(r, "error") => r \notin acted \/ left[r] > 0
=============================================================================
