----------------------------- MODULE RemoteCall -----------------------------
(***************************************************************************)
(* What a caller of git or GitHub may rely on.  A call ends by returning   *)
(* or by raising, and then nothing more is done for it.  One that returns  *)
(* has been carried out, unless its answer is Unchecked.  One that raises  *)
(* may have been carried out all the same.  Only the Repeatable calls may  *)
(* be carried out more than once.                                          *)
(***************************************************************************)
EXTENDS Naturals

CONSTANTS Calls

VARIABLES
    kind,       \* kind[c]: what c asks for
    effects,    \* effects[c]: how many times it has been carried out
    outcome     \* outcome[c]: "pending", "returned" or "raised"

Unchecked == {"status"}
Repeatable == {"comment", "status"}

CallInit ==
    /\ effects = [c \in Calls |-> 0]
    /\ outcome = [c \in Calls |-> "pending"]

\* c is carried out once more or not, and ends as o, or does not end yet.
Serve(c, o) ==
    /\ outcome[c] = "pending"
    /\ effects' \in {effects, [effects EXCEPT ![c] = @ + 1]}
    /\ effects'[c] > 1 => kind[c] \in Repeatable
    /\ o = "returned" => effects'[c] > 0 \/ kind[c] \in Unchecked
    /\ outcome' = [outcome EXCEPT ![c] = o]
    /\ UNCHANGED kind

CallNext == \E c \in Calls, o \in {"pending", "returned", "raised"} : Serve(c, o)

CallSpec == CallInit /\ [][CallNext]_<<kind, effects, outcome>>
=============================================================================
