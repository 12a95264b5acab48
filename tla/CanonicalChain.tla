--------------------------- MODULE CanonicalChain ---------------------------
(***************************************************************************)
(* The chain the indexer follows, as its RPC endpoint answers (external to  *)
(* the repository), and the indexer's notion of a confirmed block.          *)
(*                                                                         *)
(* A block hash commits to the whole history below it, so the hash of block *)
(* n is modelled by the sequence of the labels of blocks 1..n: equal hashes *)
(* have equal parents, and two branches never share a hash above the block  *)
(* where they part.  Block 0 has the empty hash.                            *)
(*                                                                         *)
(* Reorgs shallower than the configured depth may happen at any time and may*)
(* shorten the chain or return to an earlier branch.  A deeper reorg is     *)
(* outside the guarantee the indexer gives (docs/indexer/06-reorg-          *)
(* handling.md, "Current Limits"); Reorg keeps that bound.                  *)
(***************************************************************************)
EXTENDS Integers, Sequences

CONSTANTS
    Label,          \* what distinguishes sibling blocks
    GrowLabel,      \* the labels a branch grows with (a bound: siblings of
                    \* any label appear through Reorg)
    StartHead,      \* the head when the indexer starts
    MaxBlock,       \* bound: the highest block the chain reaches
    ReorgDepth,     \* the configured confirmation depth
    MaxReorgs       \* bound: how many reorgs a behaviour has

ASSUME ChainAssumption ==
    /\ GrowLabel \subseteq Label
    /\ MaxBlock \in Nat
    /\ StartHead \in 0..MaxBlock
    /\ ReorgDepth \in Nat \ {0}
    /\ MaxReorgs \in Nat

VARIABLES
    chain,          \* labels of blocks 1..head
    maxHead,        \* the highest head any read could have seen
    reorgs          \* reorgs so far

chainVars == <<chain, maxHead, reorgs>>

Heights == 0..MaxBlock

Hash == Seq(Label)

HeadBlock == Len(chain)

\* getBlock(n).hash, for a block the chain has.
HashAt(n) == SubSeq(chain, 1, n)

\* canonicalCheckUpperBound: block n is confirmed at head n + depth - 1.
UpperBound(head) ==
    IF head - ReorgDepth + 1 > 0 THEN head - ReorgDepth + 1 ELSE 0

\* The part of the chain no later reorg replaces.
Confirmed ==
    IF maxHead - ReorgDepth + 1 > 0 THEN maxHead - ReorgDepth + 1 ELSE 0

ChainTypeOK ==
    /\ chain \in Hash
    /\ maxHead \in Heights
    /\ reorgs \in 0..MaxReorgs
    /\ Confirmed <= HeadBlock
    /\ HeadBlock <= maxHead

ChainInit ==
    /\ chain \in [1..StartHead -> GrowLabel]
    /\ maxHead = StartHead
    /\ reorgs = 0

NewHead ==
    /\ HeadBlock < MaxBlock
    /\ \E l \in GrowLabel : chain' = Append(chain, l)
    /\ maxHead' = IF HeadBlock + 1 > maxHead THEN HeadBlock + 1 ELSE maxHead
    /\ UNCHANGED reorgs

\* A sibling replaces the block after k; the branch grows through NewHead.
Reorg ==
    /\ reorgs < MaxReorgs
    /\ \E k \in Confirmed..(HeadBlock - 1), l \in Label :
          /\ l # chain[k + 1]
          /\ chain' = Append(SubSeq(chain, 1, k), l)
    /\ reorgs' = reorgs + 1
    /\ UNCHANGED maxHead
=============================================================================
