-------------------------- MODULE VectorClockProofs --------------------------
(***************************************************************************)
(* What the operations of vectorclock.go promise, for every set of peers.  *)
(***************************************************************************)
EXTENDS TLAPS, VectorClock

\* NewVectorClock, Increment and Merge return vector clocks.
LEMMA ClockTypes ==
    /\ NewVectorClock \in VectorClocks
    /\ \A vc \in VectorClocks, p \in Peers : Increment(vc, p) \in VectorClocks
    /\ \A vc, other \in VectorClocks : Merge(vc, other) \in VectorClocks
BY DEF NewVectorClock, VectorClocks, Increment, Merge

\* Leq is a partial order on the clocks.
LEMMA LeqPartialOrder ==
    ASSUME NEW u \in VectorClocks, NEW v \in VectorClocks,
           NEW w \in VectorClocks
    PROVE  /\ Leq(u, u)
           /\ Leq(u, v) /\ Leq(v, w) => Leq(u, w)
           /\ Leq(u, v) /\ Leq(v, u) => u = v
<1>0. \A p \in Peers : u[p] \in Nat /\ v[p] \in Nat /\ w[p] \in Nat
  BY DEF VectorClocks
<1>1. Leq(u, u)
  BY <1>0 DEF Leq
<1>2. Leq(u, v) /\ Leq(v, w) => Leq(u, w)
  BY <1>0 DEF Leq
<1>3. Leq(u, v) /\ Leq(v, u) => u = v
  <2>1. Leq(u, v) /\ Leq(v, u) => \A p \in Peers : u[p] = v[p]
    BY <1>0 DEF Leq
  <2>2. QED BY <2>1 DEF VectorClocks
<1>4. QED BY <1>1, <1>2, <1>3

\* Merge is the least upper bound of its arguments: it forgets nothing either
\* side knows and invents nothing.
THEOREM MergeIsLeastUpperBound ==
    ASSUME NEW u \in VectorClocks, NEW v \in VectorClocks,
           NEW w \in VectorClocks
    PROVE  /\ Leq(u, Merge(u, v))
           /\ Leq(v, Merge(u, v))
           /\ Leq(u, w) /\ Leq(v, w) => Leq(Merge(u, v), w)
BY DEF Leq, Merge, VectorClocks

\* Increment makes a clock strictly later, at its own peer only.
LEMMA IncrementIsLater ==
    ASSUME NEW u \in VectorClocks, NEW p \in Peers
    PROVE  /\ Leq(u, Increment(u, p))
           /\ Increment(u, p)[p] = u[p] + 1
           /\ \A q \in Peers \ {p} : Increment(u, p)[q] = u[q]
BY DEF Leq, Increment, VectorClocks

\* Compare agrees with the order of the clocks: -1 and 1 exactly when one is
\* strictly before the other, 0 when they are incomparable OR equal.
THEOREM CompareIsCausalOrder ==
    ASSUME NEW u \in VectorClocks, NEW v \in VectorClocks
    PROVE  /\ Compare(u, v) = -1 <=> Leq(u, v) /\ u # v
           /\ Compare(u, v) = 1 <=> Leq(v, u) /\ u # v
           /\ Compare(u, v) = 0 <=> (u = v \/ (~Leq(u, v) /\ ~Leq(v, u)))
<1> DEFINE less    == \E p \in Peers : u[p] < v[p]
           greater == \E p \in Peers : u[p] > v[p]
<1>1. Compare(u, v) = IF less /\ ~greater THEN -1
                      ELSE IF greater /\ ~less THEN 1 ELSE 0
  BY DEF Compare
<1>2. Leq(u, v) <=> ~greater
  BY DEF Leq, VectorClocks
<1>3. Leq(v, u) <=> ~less
  BY DEF Leq, VectorClocks
<1>4. u = v <=> ~less /\ ~greater
  BY <1>2, <1>3, LeqPartialOrder
<1> HIDE DEF less, greater
<1>5. QED BY <1>1, <1>2, <1>3, <1>4

\* The two sides of a conflict reach opposite verdicts, so of two causally
\* ordered versions both peers keep the same one.
THEOREM CompareAntisymmetric ==
    ASSUME NEW u \in VectorClocks, NEW v \in VectorClocks
    PROVE  Compare(u, v) = -Compare(v, u)
BY DEF Compare
=============================================================================
