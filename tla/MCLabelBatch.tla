---------------------------- MODULE MCLabelBatch ----------------------------
(* Two processes.  Their runs may overlap as long as bronze has only       *)
(* impressions and outcomes and none of them crashes; otherwise the first  *)
(* process runs alone, as often as it likes.                               *)
EXTENDS LabelBatch

CONSTANTS r1, r2

MCRuns == {r1, r2}
MCKinds == Kinds

MCSecondProcess ==
    /\ Visible = Of(Visible, {"impression", "outcome"})
    /\ crashes = 0

MCNext == Next /\ (run[r2] = Fresh("idle") \/ MCSecondProcess)'

MCFairSpec == Init /\ [][MCNext]_vars /\ \A r \in Runs : WF_vars(Step(r))
=============================================================================
