------------------------------ MODULE MCListing ------------------------------
(***************************************************************************)
(* A small instance of Listing: one list at a time, of a goal with two     *)
(* tasks.                                                                  *)
(***************************************************************************)
EXTENDS Listing, MCAgentApi

CONSTANT l1

OneList == {l1}

\* t2 waits for t1, and t1 for a key that names no task.
ChainToNone == [t \in TwoTasks |-> IF t = t2 THEN {t1} ELSE {"AB-404"}]
=============================================================================
