------------------------ MODULE BackfillGate_proofs -------------------------
(* Mutual exclusion and the absence of lost wakeups of the execution gate,  *)
(* for any sets of tasks.                                                   *)
EXTENDS BackfillGate, Integers, SequenceTheorems, WellFoundedInduction, TLAPS

\* Every non-empty set of naturals has a least element.
LEMMA LeastNatural ==
    ASSUME NEW S \in SUBSET Nat, S # {}
    PROVE  \E m \in S : \A k \in S : m <= k
<1>1. PICK m \in S : \A k \in S : ~(<<k, m>> \in OpToRel(<, Nat))
  BY NatLessThanWellFounded, WFMin, Zenon
<1>2. \A k \in S : ~(k < m)
  BY <1>1 DEF OpToRel
<1> QED BY <1>2

\* startNext picks a position of the queue it was given.
LEMMA NextIndexInQueue ==
    ASSUME NEW q \in Seq(Serialized), q # <<>>
    PROVE  NextIndex(q) \in 1..Len(q)
<1> DEFINE M == {i \in 1..Len(q) : q[i] \in MainTasks}
<1>1. CASE M = {}
  <2>1. NextIndex(q) = 1 BY <1>1 DEF NextIndex
  <2>2. Len(q) \in Nat /\ Len(q) # 0 BY EmptySeq, LenProperties
  <2> QED BY <2>1, <2>2
<1>2. CASE M # {}
  <2>1. Len(q) \in Nat BY LenProperties
  <2>2. M \in SUBSET Nat BY <2>1
  <2>3. PICK m \in M : \A k \in M : m <= k
    BY <1>2, <2>2, LeastNatural, Zenon
  <2>4. \E i \in 1..Len(q) : /\ q[i] \in MainTasks
                             /\ \A j \in 1..(i - 1) : q[j] \notin MainTasks
    <3>1. \A j \in 1..(m - 1) : q[j] \notin MainTasks BY <2>1, <2>3
    <3> QED BY <2>3, <3>1
  <2>5. \E i \in 1..Len(q) : q[i] \in MainTasks BY <1>2
  <2> QED BY <2>4, <2>5 DEF NextIndex
<1> QED BY <1>1, <1>2

\* Taking one entry out of the queue leaves a queue of tasks.
LEMMA RemoveAtType ==
    ASSUME NEW S, NEW q \in Seq(S), NEW i \in 1..Len(q)
    PROVE  RemoveAt(q, i) \in Seq(S) /\ q[i] \in S
<1>1. Len(q) \in Nat BY LenProperties
<1>2. SubSeq(q, 1, i - 1) \in Seq(S) BY <1>1, SubSeqProperties
<1>3. SubSeq(q, i + 1, Len(q)) \in Seq(S) BY <1>1, SubSeqProperties
<1> QED BY <1>2, <1>3, ConcatProperties, ElementOfSeq DEF RemoveAt

\* The strengthening: the two safety properties are inductive together with
\* the types, because only a running task's `finally` empties the gate.
IInv == TypeOK /\ Exclusive /\ NoLostWakeup

\* startNext restores the invariant from any state its callers leave behind:
\* either the flag is up and one serialized task runs, or neither holds.
LEMMA StartNextInv ==
    ASSUME NEW q \in Seq(Serialized), NEW act \in BOOLEAN,
           NEW run \in SUBSET (Serialized \cup FactsTasks),
           \A s, t \in run \cap Serialized : s = t,
           act <=> run \cap Serialized # {},
           StartNext(q, act, run)
    PROVE  IInv'
<1>1. CASE act \/ q = <<>>
  BY <1>1 DEF StartNext, IInv, TypeOK, Exclusive, NoLostWakeup
<1>2. CASE ~act /\ q # <<>>
  <2> DEFINE i == NextIndex(q)
  <2>1. i \in 1..Len(q) BY <1>2, NextIndexInQueue
  <2>2. RemoveAt(q, i) \in Seq(Serialized) /\ q[i] \in Serialized
    BY <2>1, RemoveAtType
  <2>3. run \cap Serialized = {} BY <1>2
  <2>4. waiting' = RemoveAt(q, i) /\ active' = TRUE /\ running' = run \cup {q[i]}
    BY <1>2 DEF StartNext
  <2> HIDE DEF i
  <2>5. running' \cap Serialized = {q[i]} BY <2>2, <2>3, <2>4
  <2> QED BY <2>2, <2>4, <2>5 DEF IInv, TypeOK, Exclusive, NoLostWakeup
<1> QED BY <1>1, <1>2

\* Whatever tasks are submitted, at most one serialized task runs and the
\* queue is never left waiting with the gate idle.
THEOREM GateSafety == Spec => [](TypeOK /\ Exclusive /\ NoLostWakeup)
<1>1. Init => IInv
  BY EmptySeq DEF Init, IInv, TypeOK, Exclusive, NoLostWakeup
<1>2. IInv /\ [Next]_vars => IInv'
  <2> SUFFICES ASSUME IInv, [Next]_vars PROVE IInv'
    OBVIOUS
  <2> USE TaskClassesAssumption
  <2>1. CASE UNCHANGED vars
    BY <2>1 DEF vars, IInv, TypeOK, Exclusive, NoLostWakeup
  <2>2. ASSUME NEW t \in Serialized, RunSerialized(t) PROVE IInv'
    <3>1. Append(waiting, t) \in Seq(Serialized)
      BY AppendProperties DEF IInv, TypeOK
    <3> QED BY <2>2, <3>1, StartNextInv DEF RunSerialized, IInv, TypeOK, Exclusive
  <2>3. ASSUME NEW t \in FactsTasks, RunFactsOnly(t) PROVE IInv'
    <3>1. running' \cap Serialized = running \cap Serialized
      BY <2>3 DEF RunFactsOnly, Serialized
    <3> QED BY <2>3, <3>1 DEF RunFactsOnly, IInv, TypeOK, Exclusive, NoLostWakeup
  <2>4. ASSUME NEW t \in Serialized \cup FactsTasks, Settle(t) PROVE IInv'
    <3>1. CASE t \in Serialized
      <4>1. (running \ {t}) \cap Serialized = {}
        BY <2>4, <3>1 DEF Settle, IInv, Exclusive
      <4>2. StartNext(waiting, FALSE, running \ {t})
        BY <2>4, <3>1 DEF Settle
      <4> QED BY <4>1, <4>2, StartNextInv DEF IInv, TypeOK
    <3>2. CASE t \notin Serialized
      <4>1. running' \cap Serialized = running \cap Serialized
        BY <2>4, <3>2 DEF Settle
      <4> QED BY <2>4, <3>2, <4>1 DEF Settle, IInv, TypeOK, Exclusive, NoLostWakeup
    <3> QED BY <3>1, <3>2
  <2> QED BY <2>1, <2>2, <2>3, <2>4 DEF Next
<1> QED BY <1>1, <1>2, PTL DEF Spec, IInv
=============================================================================
