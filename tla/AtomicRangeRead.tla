--------------------------- MODULE AtomicRangeRead --------------------------
(***************************************************************************)
(* What an acquisition promises about headers: they are one instantaneous   *)
(* read of the canonical chain, although the code reads them one call at a  *)
(* time (indexer/src/application/sync-blocks.ts:5, "Parent links prove a    *)
(* consistent range; the tip check catches a reorg during the reads").      *)
(* ReorgRecovery takes this for granted in its FetchBlocks step.            *)
(***************************************************************************)
EXTENDS CanonicalChain

CONSTANTS
    None,
    Slots

VARIABLE view       \* per acquisition: the headers it holds, or None

readVars == <<chainVars, view>>

AbsInit ==
    /\ ChainInit
    /\ view = [s \in Slots |-> None]

ReadRange(s) ==
    \E from, to \in 1..HeadBlock :
        /\ from <= to
        /\ view' = [view EXCEPT ![s] = [n \in from..to |-> HashAt(n)]]
        /\ UNCHANGED chainVars

Forget(s) ==
    /\ view' = [view EXCEPT ![s] = None]
    /\ UNCHANGED chainVars

AbsNext ==
    \/ (NewHead \/ Reorg) /\ UNCHANGED view
    \/ \E s \in Slots : ReadRange(s) \/ Forget(s)

AbsSpec == AbsInit /\ [][AbsNext]_readVars
=============================================================================
