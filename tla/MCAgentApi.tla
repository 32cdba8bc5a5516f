------------------------------ MODULE MCAgentApi ------------------------------
(***************************************************************************)
(* Small instances of AgentApi: one task or two that share a path, up to   *)
(* two accounts, two request slots or three.                               *)
(***************************************************************************)
EXTENDS AgentApiProperties, TLC

CONSTANTS t1, t2, a1, a2, r1, r2, r3

OneTask == {t1}
TwoTasks == {t1, t2}
OneAccount == {a1}
TwoAccounts == {a1, a2}
OneReq == {r1}
TwoReqs == {r1, r2}
ThreeReqs == {r1, r2, r3}

\* Both tasks list the one path, or none.
SharedFiles == [t \in TwoTasks |-> {"path"}]
NoFiles == [t \in TwoTasks |-> {}]
NoBlockers == [t \in TwoTasks |-> {}]

\* t2 waits for t1.
Chain == [t \in TwoTasks |-> IF t = t2 THEN {t1} ELSE {}]

OneGoal == [t \in TwoTasks |-> "goal"]

WorkersAlike == Permutations(TwoAccounts) \cup Permutations(ThreeReqs)
=============================================================================
