----------------------- MODULE CanonicalChain_proofs ------------------------
(* What the chain promises its readers: hashes of prefixes are prefixes of  *)
(* hashes, and no environment step changes the confirmed part.              *)
EXTENDS CanonicalChain, SequenceTheorems, TLAPS

\* A prefix of a hash is a hash of the prefix's length.
LEMMA PrefixType ==
    ASSUME NEW S, NEW s \in Seq(S), NEW n \in 0..Len(s)
    PROVE  /\ SubSeq(s, 1, n) \in Seq(S)
           /\ Len(SubSeq(s, 1, n)) = n
           /\ \A i \in 1..n : SubSeq(s, 1, n)[i] = s[i]
<1>1. Len(s) \in Nat BY LenProperties
<1>2. \A i \in 1..n : s[i] \in S BY <1>1, ElementOfSeq
<1> QED BY <1>1, <1>2, SubSeqProperties

\* Sequences that agree up to n have the same prefix of length n.
LEMMA PrefixEqual ==
    ASSUME NEW S, NEW s \in Seq(S), NEW t \in Seq(S), NEW n \in Nat,
           n <= Len(s), n <= Len(t), \A i \in 1..n : s[i] = t[i]
    PROVE  SubSeq(s, 1, n) = SubSeq(t, 1, n)
<1>1. Len(s) \in Nat /\ Len(t) \in Nat BY LenProperties
<1>2. n \in 0..Len(s) /\ n \in 0..Len(t) BY <1>1
<1>3. /\ SubSeq(s, 1, n) \in Seq(S)
      /\ Len(SubSeq(s, 1, n)) = n
      /\ \A i \in 1..n : SubSeq(s, 1, n)[i] = s[i]
  BY <1>2, PrefixType
<1>4. /\ SubSeq(t, 1, n) \in Seq(S)
      /\ Len(SubSeq(t, 1, n)) = n
      /\ \A i \in 1..n : SubSeq(t, 1, n)[i] = t[i]
  BY <1>2, PrefixType
<1> QED BY <1>3, <1>4, SeqEqual

\* The prefix of a prefix is the shorter prefix.
LEMMA PrefixOfPrefix ==
    ASSUME NEW S, NEW s \in Seq(S), NEW n \in 0..Len(s), NEW m \in 0..n
    PROVE  SubSeq(SubSeq(s, 1, n), 1, m) = SubSeq(s, 1, m)
<1>1. Len(s) \in Nat BY LenProperties
<1>2. /\ SubSeq(s, 1, n) \in Seq(S)
      /\ Len(SubSeq(s, 1, n)) = n
      /\ \A i \in 1..n : SubSeq(s, 1, n)[i] = s[i]
  BY PrefixType
<1>3. m \in Nat /\ m <= Len(s) /\ m <= Len(SubSeq(s, 1, n)) BY <1>1, <1>2
<1>4. \A i \in 1..m : SubSeq(s, 1, n)[i] = s[i] BY <1>2
<1> QED BY <1>2, <1>3, <1>4, PrefixEqual

\* Every block the chain has can be read.
LEMMA HashAtType ==
    ASSUME ChainTypeOK, NEW n \in Heights, n <= HeadBlock
    PROVE  HashAt(n) \in Hash /\ Len(HashAt(n)) = n
<1>1. chain \in Seq(Label) /\ Len(chain) \in Nat
  BY LenProperties DEF ChainTypeOK, Hash
<1>2. n \in 0..Len(chain) BY <1>1 DEF Heights, HeadBlock
<1> QED BY <1>1, <1>2, PrefixType DEF HashAt, Hash

\* The chain after a step agrees with the chain before it on every confirmed
\* block, and confirmed blocks stay confirmed.
LEMMA ConfirmedStable ==
    ASSUME ChainTypeOK, NewHead \/ Reorg
    PROVE  /\ ChainTypeOK'
           /\ Confirmed' \in Nat /\ Confirmed <= Confirmed'
           /\ maxHead' \in Nat /\ maxHead <= maxHead'
           /\ \A n \in Heights : n <= Confirmed => HashAt(n)' = HashAt(n)
<1> USE ChainAssumption
<1>1. /\ chain \in Seq(Label) /\ Len(chain) \in Nat
      /\ maxHead \in Heights /\ reorgs \in 0..MaxReorgs
      /\ Confirmed <= Len(chain) /\ Len(chain) <= maxHead
      /\ Confirmed \in Nat
  BY LenProperties DEF ChainTypeOK, Hash, HeadBlock, Confirmed, Heights
<1>2. CASE NewHead
  <2>1. PICK l \in GrowLabel : chain' = Append(chain, l) BY <1>2 DEF NewHead
  <2>2. l \in Label OBVIOUS
  <2>3. /\ chain' \in Seq(Label)
        /\ Len(chain') = Len(chain) + 1
        /\ \A i \in 1..Len(chain) : chain'[i] = chain[i]
    BY <1>1, <2>1, <2>2, AppendProperties
  <2>4. /\ maxHead' = IF Len(chain) + 1 > maxHead THEN Len(chain) + 1 ELSE maxHead
        /\ reorgs' = reorgs /\ Len(chain) < MaxBlock
    BY <1>2 DEF NewHead, HeadBlock
  <2>5. /\ ChainTypeOK'
        /\ Confirmed' \in Nat /\ Confirmed <= Confirmed'
        /\ maxHead' \in Nat /\ maxHead <= maxHead'
    BY <1>1, <2>3, <2>4 DEF ChainTypeOK, Confirmed, HeadBlock, Heights, Hash
  <2>6. ASSUME NEW n \in Heights, n <= Confirmed
        PROVE  HashAt(n)' = HashAt(n)
    <3>1. n \in Nat /\ n <= Len(chain) /\ n <= Len(chain')
      BY <1>1, <2>3, <2>6 DEF Heights
    <3>2. \A i \in 1..n : chain'[i] = chain[i] BY <1>1, <2>3, <3>1
    <3> QED BY <1>1, <2>3, <3>1, <3>2, PrefixEqual DEF HashAt
  <2> QED BY <2>5, <2>6
<1>3. CASE Reorg
  <2>1. PICK k \in Confirmed..(Len(chain) - 1), l \in Label :
            chain' = Append(SubSeq(chain, 1, k), l)
    BY <1>3 DEF Reorg, HeadBlock
  <2>2. k \in 0..Len(chain) BY <1>1
  <2>3. /\ SubSeq(chain, 1, k) \in Seq(Label)
        /\ Len(SubSeq(chain, 1, k)) = k
        /\ \A i \in 1..k : SubSeq(chain, 1, k)[i] = chain[i]
    BY <1>1, <2>2, PrefixType
  <2>4. /\ chain' \in Seq(Label)
        /\ Len(chain') = k + 1
        /\ \A i \in 1..k : chain'[i] = chain[i]
    BY <2>1, <2>3, AppendProperties
  <2>5. maxHead' = maxHead /\ reorgs' = reorgs + 1 /\ reorgs < MaxReorgs
    BY <1>3 DEF Reorg
  <2>6. /\ ChainTypeOK'
        /\ Confirmed' \in Nat /\ Confirmed <= Confirmed'
        /\ maxHead' \in Nat /\ maxHead <= maxHead'
    BY <1>1, <2>1, <2>4, <2>5 DEF ChainTypeOK, Confirmed, HeadBlock, Heights, Hash
  <2>7. ASSUME NEW n \in Heights, n <= Confirmed
        PROVE  HashAt(n)' = HashAt(n)
    <3>1. n \in Nat /\ n <= Len(chain) /\ n <= Len(chain') /\ n <= k
      BY <1>1, <2>4, <2>7 DEF Heights
    <3>2. \A i \in 1..n : chain'[i] = chain[i] BY <2>1, <2>4, <3>1
    <3> QED BY <1>1, <2>4, <3>1, <3>2, PrefixEqual DEF HashAt
  <2> QED BY <2>6, <2>7
<1> QED BY <1>2, <1>3
=============================================================================
