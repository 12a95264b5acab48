------------------------------ MODULE ReorgFork -----------------------------
(***************************************************************************)
(* proveReorgAncestor (indexer/src/domain/reorg-fork.ts): the block a       *)
(* rollback may keep, from a sparse local header window and one coherent    *)
(* read of the canonical chain over the same window.                        *)
(*                                                                         *)
(* `history` maps each height of the window to the stored hash or None;     *)
(* `tip` is the canonical hash of the window's highest block, which commits *)
(* to every canonical hash below it.                                        *)
(***************************************************************************)
EXTENDS Integers, Sequences

CONSTANT None

Stored(history) == {n \in DOMAIN history : history[n] # None}

Canonical(tip, n) == SubSeq(tip, 1, n)

ParentHash(h) == SubSeq(h, 1, Len(h) - 1)

\* Heights at which the window is known to leave the canonical chain: the
\* checked block itself, every stored header that differs, and the height
\* below a stored header whose parent differs.
Divergence(history, tip) ==
    {Len(tip)}
    \cup {n \in Stored(history) : history[n] # Canonical(tip, n)}
    \cup {n - 1 : n \in {m \in Stored(history) :
                            /\ m > 0
                            /\ ParentHash(history[m]) # Canonical(tip, m - 1)}}

\* Stored canonical headers below every divergence.
Ancestors(history, tip) ==
    {n \in Stored(history) :
        /\ history[n] = Canonical(tip, n)
        /\ \A d \in Divergence(history, tip) : n < d}

\* The fork is the highest of them; without one there is no proof.
IsFork(f, history, tip) ==
    /\ f \in Ancestors(history, tip)
    /\ \A n \in Ancestors(history, tip) : n <= f
=============================================================================
