------------------------- MODULE MCSyncAcquisition --------------------------
(* Blocks with and without an event, one acquisition at a time.             *)
EXTENDS SyncAcquisition

CONSTANTS ev, quiet, s1

MCLabel == {ev, quiet}
MCEventLabel == {ev}
MCOneSlot == {s1}
=============================================================================
