------------------------------- MODULE StartUp -------------------------------
(***************************************************************************)
(* How the two servers come by a board store.  The REST server makes one   *)
(* in its lifespan (app/main.py), the MCP server at its first tool call    *)
(* (app/mcp_server.py, _board), and both run the statements of the schema  *)
(* first (app/store/board.py, setup), each a commit of its own.  Any await *)
(* may raise: the database is away, two servers run one CREATE TABLE at    *)
(* the same moment, the call is cancelled, the process stops.              *)
(***************************************************************************)
EXTENDS Naturals

CONSTANTS
    Calls,      \* the tool calls the MCP server ever gets
    Stmts,      \* the number of statements of _DDL
    Rest,       \* the REST server
    None

ASSUME StartUpAssumption ==
    /\ Stmts \in Nat \ {0}
    /\ Rest \notin Calls
    /\ None \notin Calls

VARIABLES
    schema,     \* the statements of _DDL that have been executed
    pc,         \* pc[i], i a call or the REST server: where it is
    at,         \* at[i]: the next statement of its setup
    lock,       \* the call that holds the MCP server's _lock, or None
    store,      \* _store: the call that has made it, or None
    pools,      \* the calls whose connection pool is open
    got         \* got[c]: the store that _board has returned to c, or None

startVars == <<schema, pc, at, lock, store, pools, got>>

RestPcs == {"wait_db", "setup", "up", "down"}
CallPcs == {"new", "lock", "open", "setup", "served", "failed"}

Move(i, p) == pc' = [pc EXCEPT ![i] = p]

-----------------------------------------------------------------------------
(* BoardStore.setup, of either server. *)

Execute(i) ==
    /\ pc[i] = "setup"
    /\ at[i] <= Stmts
    /\ schema' = schema \cup {at[i]}
    /\ at' = [at EXCEPT ![i] = @ + 1]
    /\ UNCHANGED <<pc, lock, store, pools, got>>

HasSetUp(i) == pc[i] = "setup" /\ at[i] > Stmts

-----------------------------------------------------------------------------
(* The REST server. *)

\* _wait_for_db, and the pools of lifespan.
Connect ==
    /\ pc[Rest] = "wait_db"
    /\ Move(Rest, "setup")
    /\ at' = [at EXCEPT ![Rest] = 1]
    /\ UNCHANGED <<schema, lock, store, pools, got>>

\* Workers, sweeper and handlers start after the last store is ready.
Ready ==
    /\ HasSetUp(Rest)
    /\ Move(Rest, "up")
    /\ UNCHANGED <<schema, at, lock, store, pools, got>>

\* No database after twelve attempts, a statement that fails, a crash, a
\* shutdown: the process ends, and its pools with it.
RestStops ==
    /\ pc[Rest] # "down"
    /\ Move(Rest, "down")
    /\ UNCHANGED <<schema, at, lock, store, pools, got>>

RestStarts ==
    /\ pc[Rest] = "down"
    /\ Move(Rest, "wait_db")
    /\ UNCHANGED <<schema, at, lock, store, pools, got>>

-----------------------------------------------------------------------------
(* The MCP server: _board, called first by every tool. *)

Serve(c, s) ==
    /\ Move(c, "served")
    /\ got' = [got EXCEPT ![c] = s]

\* The check without the lock.
Look(c) ==
    /\ pc[c] = "new"
    /\ \/ store # None /\ Serve(c, store)
       \/ store = None /\ Move(c, "lock") /\ UNCHANGED got
    /\ UNCHANGED <<schema, at, lock, store, pools>>

\* Mutant of Enter: the store is not looked at again under the lock.
EnterUnchecked(c) ==
    /\ pc[c] = "lock"
    /\ lock = None
    /\ lock' = c
    /\ Move(c, "open")
    /\ UNCHANGED <<schema, at, store, pools, got>>

\* The lock is taken and the check made again; a call that finds a store
\* gives the lock back at once.
Enter(c) ==
    /\ pc[c] = "lock"
    /\ lock = None
    /\ \/ store # None /\ Serve(c, store) /\ UNCHANGED lock
       \/ store = None /\ Move(c, "open") /\ lock' = c /\ UNCHANGED got
    /\ UNCHANGED <<schema, at, store, pools>>

\* Mutant of OpenPool: the store is published before its setup.
OpenPoolPublished(c) ==
    /\ pc[c] = "open"
    /\ pools' = pools \cup {c}
    /\ store' = c
    /\ Move(c, "setup")
    /\ at' = [at EXCEPT ![c] = 1]
    /\ UNCHANGED <<schema, lock, got>>

OpenPool(c) ==
    /\ pc[c] = "open"
    /\ pools' = pools \cup {c}
    /\ Move(c, "setup")
    /\ at' = [at EXCEPT ![c] = 1]
    /\ UNCHANGED <<schema, lock, store, got>>

Publish(c) ==
    /\ HasSetUp(c)
    /\ store' = c
    /\ lock' = None
    /\ Serve(c, c)
    /\ UNCHANGED <<schema, at, pools>>

\* Mutant of InitFails: the lock is acquired and released by hand.
InitFailsLocked(c) ==
    /\ pc[c] \in {"open", "setup"}
    /\ Move(c, "failed")
    /\ UNCHANGED <<schema, at, lock, store, pools, got>>

\* The call that makes the store raises or is cancelled: "async with" gives
\* the lock back, and nothing closes the pool.
InitFails(c) ==
    /\ pc[c] \in {"open", "setup"}
    /\ lock' = None
    /\ Move(c, "failed")
    /\ UNCHANGED <<schema, at, store, pools, got>>

\* A call is cancelled while it waits for the lock.
WaitCancelled(c) ==
    /\ pc[c] = "lock"
    /\ Move(c, "failed")
    /\ UNCHANGED <<schema, at, lock, store, pools, got>>

\* The process stops, and another takes its place.
McpRestarts ==
    /\ pc' = [i \in Calls \cup {Rest} |->
                 IF i # Rest /\ pc[i] # "new" THEN "failed" ELSE pc[i]]
    /\ lock' = None
    /\ store' = None
    /\ pools' = {}
    /\ got' = [c \in Calls |-> None]
    /\ UNCHANGED <<schema, at>>

-----------------------------------------------------------------------------
StartInit ==
    /\ schema = {}
    /\ pc = [i \in Calls \cup {Rest} |-> IF i = Rest THEN "wait_db" ELSE "new"]
    /\ at = [i \in Calls \cup {Rest} |-> 1]
    /\ lock = None
    /\ store = None
    /\ pools = {}
    /\ got = [c \in Calls |-> None]

\* What a call does by itself.
CallStep(c) ==
    Look(c) \/ Enter(c) \/ OpenPool(c) \/ Execute(c) \/ Publish(c) \/ InitFails(c)

McpNext == McpRestarts \/ \E c \in Calls : CallStep(c) \/ WaitCancelled(c)

StartTypeOK ==
    /\ schema \subseteq 1..Stmts
    /\ pc \in [Calls \cup {Rest} -> CallPcs \cup RestPcs]
    /\ pc[Rest] \in RestPcs /\ \A c \in Calls : pc[c] \in CallPcs
    /\ at \in [Calls \cup {Rest} -> 1..Stmts + 1]
    /\ lock \in Calls \cup {None}
    /\ store \in Calls \cup {None}
    /\ pools \subseteq Calls
    /\ got \in [Calls -> Calls \cup {None}]
=============================================================================
