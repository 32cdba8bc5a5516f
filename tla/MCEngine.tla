------------------------------- MODULE MCEngine -------------------------------
(***************************************************************************)
(* Small instances of Engine: an issue is opened with the label, a run of  *)
(* it is asked for by hand as well, and a label of no interest is put on   *)
(* it; or it is opened, and no more.                                       *)
(***************************************************************************)
EXTENDS Engine

CONSTANTS j1, j2, j3, w1, w2

ThreeJobs == {j1, j2, j3}
OneJob == {j1}
TwoWorkers == {w1, w2}
OneBranch == {"issue 1"}
IssueOf == [j \in ThreeJobs |-> "issue 1"]
IssueOfOne == [j \in OneJob |-> "issue 1"]

Ask(action) == [action |-> action, theLabel |-> FALSE, labels |-> TRUE, isPr |-> FALSE]
Asked == [j \in ThreeJobs |-> Ask(CASE j = j1 -> "opened" [] j = j2 -> "manual" [] OTHER -> "labeled")]
AskedOne == [j \in OneJob |-> Ask("opened")]
=============================================================================
