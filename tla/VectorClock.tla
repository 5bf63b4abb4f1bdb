----------------------------- MODULE VectorClock -----------------------------
(***************************************************************************)
(* The vector clocks of internal/sync/vectorclock.go.  A Go map that has   *)
(* no entry for a peer reads as 0 there, so the nil clock, the empty map   *)
(* and the map of zeros are one value here: the function that is 0 on      *)
(* every peer.                                                             *)
(***************************************************************************)
EXTENDS Integers

CONSTANT Peers  \* peer IDs; integers, because ties are broken by PeerID order

ASSUME PeersAssumption == Peers \subseteq Int

VectorClocks == [Peers -> Nat]

NewVectorClock == [p \in Peers |-> 0]

\* Mutant: the counter of the peer is not advanced.
IncrementForgotten(vc, p) == vc

Increment(vc, p) == [vc EXCEPT ![p] = @ + 1]

\* Mutants: the other clock is dropped, replaces the own one, is added to it.
MergeForgotten(vc, other) == vc
MergeOverwrites(vc, other) == other
MergeAdds(vc, other) == [p \in Peers |-> vc[p] + other[p]]

\* Merge takes the larger counter of each peer.
Merge(vc, other) ==
    [p \in Peers |-> IF vc[p] < other[p] THEN other[p] ELSE vc[p]]

\* -1: strictly before, 1: strictly after, 0: everything else, so two EQUAL
\* clocks are reported as concurrent too.
Compare(vc, other) ==
    LET less    == \E p \in Peers : vc[p] < other[p]
        greater == \E p \in Peers : vc[p] > other[p]
    IN  IF less /\ ~greater THEN -1
        ELSE IF greater /\ ~less THEN 1
        ELSE 0

\* Component-wise order: every event counted by vc is counted by other.
Leq(vc, other) == \A p \in Peers : vc[p] <= other[p]
=============================================================================
