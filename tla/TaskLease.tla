----------------------------- MODULE TaskLease ------------------------------
(***************************************************************************)
(* What the board promises the workers: a task is a lease.  At most one    *)
(* account holds it, it is taken only while nobody holds it, and it passes *)
(* from one account to another only through being given back.              *)
(***************************************************************************)
CONSTANTS Tasks, Accounts, None

VARIABLE owner      \* owner[t]: the account that holds t, or None

LeaseInit == owner = [t \in Tasks |-> None]

Acquire(t, a) ==
    /\ owner[t] = None
    /\ owner' = [owner EXCEPT ![t] = a]

\* One sweep may give back several leases at once.
GiveBack(S) == owner' = [t \in Tasks |-> IF t \in S THEN None ELSE owner[t]]

LeaseNext ==
    \/ \E t \in Tasks, a \in Accounts : Acquire(t, a)
    \/ \E S \in SUBSET Tasks : GiveBack(S)

LeaseSpec == LeaseInit /\ [][LeaseNext]_owner
=============================================================================
