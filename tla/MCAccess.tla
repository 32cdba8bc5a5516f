------------------------------ MODULE MCAccess ------------------------------
(***************************************************************************)
(* A small instance of Access: a worker, an administrator, two projects    *)
(* and two requests at a time.  Memberships of an administrator would make *)
(* no difference, and only the worker's change.                            *)
(***************************************************************************)
EXTENDS Access, TLC

CONSTANTS w, d, p1, p2, r1, r2

WorkerAndAdmin == {w, d}
TheirRoles == [a \in WorkerAndAdmin |-> IF a = d THEN "admin" ELSE "member"]
JustWorker == {w}
TwoProjects == {p1, p2}
TwoReqs == {r1, r2}

Alike == Permutations(TwoProjects) \cup Permutations(TwoReqs)
=============================================================================
