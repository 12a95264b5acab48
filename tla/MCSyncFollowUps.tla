-------------------------- MODULE MCSyncFollowUps ---------------------------
(***************************************************************************)
(* Instance of SyncFollowUps for TLC: a transaction that a reorg moves to    *)
(* another block of the same height keeps its dedupe key.                    *)
(***************************************************************************)
EXTENDS SyncFollowUps, TLC

CONSTANTS h1, h2

HashSymmetry == Permutations({h1, h2})

MCTxKey(n, h) == n
=============================================================================
