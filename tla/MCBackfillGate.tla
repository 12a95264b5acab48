--------------------------- MODULE MCBackfillGate ---------------------------
(* Three Main tasks, two gap tasks and one facts-only task: enough for a    *)
(* gap task to be overtaken by two Main tasks queued behind it.             *)
EXTENDS BackfillGate

CONSTANTS m1, m2, m3, g1, g2, f1

MCMainTasks == {m1, m2, m3}
MCGapTasks == {g1, g2}
MCFactsTasks == {f1}
=============================================================================
