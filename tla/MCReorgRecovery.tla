-------------------------- MODULE MCReorgRecovery ---------------------------
(* Two sibling blocks per height and one acquisition at a time.             *)
EXTENDS ReorgRecovery

CONSTANTS a, b, s1

MCLabel == {a, b}
MCGrowLabel == {a}
MCOneSlot == {s1}
=============================================================================
