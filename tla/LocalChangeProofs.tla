-------------------------- MODULE LocalChangeProofs --------------------------
(***************************************************************************)
(* Changes of the user on their way to the peers, for any number of files, *)
(* paths, changes and capacity of the channel: a peer has a file where the *)
(* files table knows its place, and the debouncing of the watcher loses    *)
(* nothing but what it is known to lose.                                   *)
(***************************************************************************)
EXTENDS TLAPS, Rename, Watcher, SequenceTheorems

-----------------------------------------------------------------------------
(* Sequences.                                                               *)

\* Sequences at their two ends.
LEMMA AppendFacts ==
    ASSUME NEW S, NEW s \in Seq(S), NEW e \in S
    PROVE  /\ Append(s, e) \in Seq(S) /\ Len(s) + 1 \in DOMAIN Append(s, e)
           /\ Append(s, e)[Len(s) + 1] = e
           /\ \A i \in DOMAIN s :
                 i \in DOMAIN Append(s, e) /\ Append(s, e)[i] = s[i] /\ i < Len(s) + 1 /\ i \in Nat
           /\ \A i \in DOMAIN Append(s, e) : i \in DOMAIN s \/ i = Len(s) + 1
OBVIOUS

LEMMA TailFacts ==
    ASSUME NEW S, NEW s \in Seq(S), s # <<>>
    PROVE  /\ Tail(s) \in Seq(S) /\ Head(s) \in S /\ 1 \in DOMAIN s /\ s[1] = Head(s)
           /\ \A i \in DOMAIN Tail(s) :
                 i + 1 \in DOMAIN s /\ Tail(s)[i] = s[i + 1] /\ i \in Nat /\ i > 0
           /\ \A i \in DOMAIN s :
                 /\ i \in Nat
                 /\ i # 1 => i - 1 \in DOMAIN Tail(s) /\ Tail(s)[i - 1] = s[i] /\ i > 1
<1>1. Len(s) \in Nat \ {0} /\ DOMAIN s = 1 .. Len(s)
  BY EmptySeq, LenProperties
<1>2. /\ Head(s) \in S /\ Tail(s) \in Seq(S) /\ Len(Tail(s)) = Len(s) - 1
      /\ \A i \in 1 .. Len(Tail(s)) : Tail(s)[i] = s[i + 1]
  BY HeadTailProperties
<1>3. DOMAIN Tail(s) = 1 .. Len(s) - 1
  BY <1>2, LenProperties
<1>4. s[1] = Head(s)
  OBVIOUS
<1>5. QED BY <1>1, <1>2, <1>3, <1>4

\* What is put behind a sequence.
LEMMA ConcatFacts ==
    ASSUME NEW S, NEW s \in Seq(S), NEW t \in Seq(S), t # <<>>
    PROVE  /\ s \o t \in Seq(S) /\ s \o t # <<>>
           /\ Len(s \o t) \in DOMAIN (s \o t) /\ (s \o t)[Len(s \o t)] = t[Len(t)]
           /\ \A i \in DOMAIN (s \o t) : i \in Nat /\ i <= Len(s \o t)
           /\ \A i \in DOMAIN s : i \in DOMAIN (s \o t) /\ (s \o t)[i] = s[i]
<1>1. /\ Len(s) \in Nat /\ Len(t) \in Nat \ {0} /\ s \o t \in Seq(S)
      /\ Len(s \o t) = Len(s) + Len(t)
      /\ DOMAIN s = 1 .. Len(s) /\ DOMAIN (s \o t) = 1 .. Len(s \o t)
  OBVIOUS
<1>2. \A i \in 1 .. Len(s \o t) :
         (s \o t)[i] = IF i <= Len(s) THEN s[i] ELSE t[i - Len(s)]
  BY ConcatProperties
<1>3. (s \o t)[Len(s \o t)] = t[Len(t)]
  BY <1>1, <1>2
<1>4. QED BY <1>1, <1>2, <1>3

\* What is taken out of a sequence leaves the rest in its order.
LEMMA RemoveFacts ==
    ASSUME NEW S, NEW s \in Seq(S), NEW i \in DOMAIN s
    PROVE  /\ RemoveAt(s, i) \in Seq(S)
           /\ \A k \in DOMAIN s :
                 /\ k \in Nat
                 /\ k < i => k \in DOMAIN RemoveAt(s, i) /\ RemoveAt(s, i)[k] = s[k]
                 /\ k > i => k - 1 \in DOMAIN RemoveAt(s, i) /\ RemoveAt(s, i)[k - 1] = s[k]
           /\ \A k \in DOMAIN RemoveAt(s, i) :
                 /\ k \in Nat
                 /\ k < i => k \in DOMAIN s /\ RemoveAt(s, i)[k] = s[k]
                 /\ k >= i => k + 1 \in DOMAIN s /\ RemoveAt(s, i)[k] = s[k + 1]
<1> DEFINE a == SubSeq(s, 1, i - 1)
           b == SubSeq(s, i + 1, Len(s))
<1>1. /\ Len(s) \in Nat /\ DOMAIN s = 1 .. Len(s) /\ i \in 1 .. Len(s)
      /\ \A k \in 1 .. Len(s) : s[k] \in S
  OBVIOUS
<1>2. /\ a \in Seq(S)
      /\ Len(a) = IF 1 <= i - 1 THEN i - 1 - 1 + 1 ELSE 0
      /\ \A k \in 1 .. i - 1 - 1 + 1 : a[k] = s[1 + k - 1]
  BY <1>1, SubSeqProperties
<1>3. /\ b \in Seq(S)
      /\ Len(b) = IF i + 1 <= Len(s) THEN Len(s) - (i + 1) + 1 ELSE 0
      /\ \A k \in 1 .. Len(s) - (i + 1) + 1 : b[k] = s[i + 1 + k - 1]
  BY <1>1, SubSeqProperties
<1>4. RemoveAt(s, i) = a \o b
  BY DEF RemoveAt
<1> HIDE DEF a, b
<1>5. PICK n \in Nat : n = Len(s) /\ i \in 1 .. n
  BY <1>1
<1>6. Len(a) = i - 1 /\ \A k \in 1 .. i - 1 : a[k] = s[k]
  <2>1. (IF 1 <= i - 1 THEN i - 1 - 1 + 1 ELSE 0) = i - 1
    BY <1>5
  <2>2. \A k \in 1 .. i - 1 : k \in 1 .. i - 1 - 1 + 1 /\ 1 + k - 1 = k
    BY <1>5
  <2>3. QED BY <1>2, <2>1, <2>2
<1>7. Len(b) = n - i /\ \A k \in 1 .. n - i : b[k] = s[i + k]
  <2>1. (IF i + 1 <= n THEN n - (i + 1) + 1 ELSE 0) = n - i
    BY <1>5
  <2>2. \A k \in 1 .. n - i : k \in 1 .. n - (i + 1) + 1 /\ i + 1 + k - 1 = i + k
    BY <1>5
  <2>3. QED BY <1>3, <1>5, <2>1, <2>2
<1>8. /\ a \o b \in Seq(S) /\ Len(a \o b) = n - 1
      /\ \A k \in 1 .. n - 1 : (a \o b)[k] = IF k <= i - 1 THEN a[k] ELSE b[k - (i - 1)]
  <2>1. /\ a \o b \in Seq(S) /\ Len(a \o b) = Len(a) + Len(b)
        /\ \A k \in 1 .. Len(a) + Len(b) :
              (a \o b)[k] = IF k <= Len(a) THEN a[k] ELSE b[k - Len(a)]
    BY <1>2, <1>3, ConcatProperties
  <2>2. Len(a) + Len(b) = n - 1
    BY <1>5, <1>6, <1>7
  <2>3. QED BY <1>6, <2>1, <2>2
<1>9. \A k \in 1 .. n - 1 : (a \o b)[k] = IF k < i THEN s[k] ELSE s[k + 1]
  <2> SUFFICES ASSUME NEW k \in 1 .. n - 1
               PROVE  (a \o b)[k] = IF k < i THEN s[k] ELSE s[k + 1]
    OBVIOUS
  <2>1. CASE k < i
    <3>1. k \in 1 .. i - 1 /\ k <= i - 1
      BY <1>5, <2>1
    <3>2. QED BY <1>6, <1>8, <2>1, <3>1
  <2>2. CASE ~(k < i)
    <3>1. k - (i - 1) \in 1 .. n - i /\ i + (k - (i - 1)) = k + 1 /\ ~(k <= i - 1)
      BY <1>5, <2>2
    <3>2. QED BY <1>7, <1>8, <2>2, <3>1
  <2>3. QED BY <2>1, <2>2
<1> DEFINE r == a \o b
<1>10. r \in Seq(S) /\ DOMAIN r = 1 .. n - 1 /\ DOMAIN s = 1 .. n
  BY <1>1, <1>5, <1>8, LenProperties
<1>11. \A k \in 1 .. n - 1 : r[k] = IF k < i THEN s[k] ELSE s[k + 1]
  BY <1>9
<1> HIDE DEF r
<1>12. \A k \in DOMAIN s :
          /\ k \in Nat
          /\ k < i => k \in DOMAIN r /\ r[k] = s[k]
          /\ k > i => k - 1 \in DOMAIN r /\ r[k - 1] = s[k]
  <2> SUFFICES ASSUME NEW k \in 1 .. n
               PROVE  /\ k \in Nat
                      /\ k < i => k \in DOMAIN r /\ r[k] = s[k]
                      /\ k > i => k - 1 \in DOMAIN r /\ r[k - 1] = s[k]
    BY <1>10
  <2>1. CASE k < i
    BY <1>5, <1>10, <1>11, <2>1
  <2>2. CASE k > i
    <3>1. k - 1 \in 1 .. n - 1 /\ ~(k - 1 < i) /\ (k - 1) + 1 = k /\ k \in Nat /\ ~(k < i)
      BY <1>5, <2>2
    <3>2. QED BY <1>10, <1>11, <3>1
  <2>3. QED BY <1>5, <2>1, <2>2
<1>13. \A k \in DOMAIN r :
          /\ k \in Nat
          /\ k < i => k \in DOMAIN s /\ r[k] = s[k]
          /\ k >= i => k + 1 \in DOMAIN s /\ r[k] = s[k + 1]
  BY <1>5, <1>10, <1>11
<1>14. QED BY <1>4, <1>10, <1>12, <1>13 DEF r

-----------------------------------------------------------------------------
(* Moves.                                                                   *)

MoveEvents == [op : {"create", "rename", "update", "delete"}, path : Paths]
MoveOps    == [op : {"rename", "create", "update", "delete"}, path : Paths, sent : BOOLEAN]

RenameTypeOK ==
    /\ at \in Paths /\ exists \in BOOLEAN
    /\ rowPath \in Paths
    /\ fileEvents \in Seq(MoveEvents)
    /\ operations \in Seq(MoveOps)
    /\ overtaken \in BOOLEAN

Writes   == {"create", "update"}
Removals == {"delete"}

\* The last that a sequence of operations tells of a path p is of the given
\* kinds, and not of the opposite ones; or it tells nothing, and p is in
\* already.
EndsIn(ops, p, kinds, opposite, already) ==
    \/ \E i \in DOMAIN ops :
          /\ ops[i].path = p /\ ops[i].op \in kinds
          /\ \A j \in DOMAIN ops : j > i => ~(ops[j].path = p /\ ops[j].op \in opposite)
    \/ /\ p \in already
       /\ \A j \in DOMAIN ops : ~(ops[j].path = p /\ ops[j].op \in opposite)

Arrives == EndsIn(operations, at, Writes, Removals, peerFiles)
Leaves  == EndsIn(operations, at, Removals, Writes, Paths \ peerFiles)

Waits(e) == \E i \in DOMAIN fileEvents : fileEvents[i] = e

\* After the deletion of a file that is there again its creation waits.
DeletesUndone ==
    \A i \in DOMAIN fileEvents : fileEvents[i] = FileEvent("delete", at) =>
        \E j \in DOMAIN fileEvents : j > i /\ fileEvents[j] = FileEvent("create", at)

RenameInv ==
    /\ RenameTypeOK
    /\ exists => DeletesUndone
    /\ ~exists /\ fileEvents # <<>> =>
          fileEvents[Len(fileEvents)] = FileEvent("delete", at)
    /\ ~overtaken /\ rowPath = at =>
          /\ exists => Arrives \/ Waits(FileEvent("create", at))
          /\ ~exists => Leaves \/ fileEvents # <<>>

\* Nothing waits and nothing is on its way: the peer has what the row says.
LEMMA RenameFollows == RenameInv => TrackedFileFollowed
<1> SUFFICES ASSUME RenameInv, fileEvents = <<>>, operations = <<>>, ~overtaken, rowPath = at
             PROVE  at \in peerFiles <=> exists
  BY DEF TrackedFileFollowed
<1>1. DOMAIN fileEvents = {} /\ DOMAIN operations = {}
  OBVIOUS
<1>2. CASE exists
  <2>1. Arrives
    BY <1>1, <1>2 DEF RenameInv, Waits
  <2>2. QED BY <1>1, <1>2, <2>1 DEF Arrives, EndsIn
<1>3. CASE ~exists
  <2>1. Leaves
    BY <1>3 DEF RenameInv
  <2>2. QED BY <1>1, <1>3, <2>1 DEF Leaves, EndsIn
<1>4. QED BY <1>2, <1>3

\* Both peers have the file at first.
LEMMA RenameStarts == RenameInit => RenameInv
<1> SUFFICES ASSUME RenameInit
             PROVE  RenameInv
  OBVIOUS
<1>1. RenameTypeOK
  <2>1. fileEvents \in Seq(MoveEvents) /\ operations \in Seq(MoveOps)
    BY DEF RenameInit
  <2>2. QED BY <2>1, RenameAssumption DEF RenameInit, RenameTypeOK
<1>2. DOMAIN fileEvents = {} /\ DOMAIN operations = {}
  BY DEF RenameInit
<1>3. Arrives /\ DeletesUndone
  BY <1>2 DEF RenameInit, Arrives, EndsIn, DeletesUndone
<1>4. QED BY <1>1, <1>3 DEF RenameInv, RenameInit

\* Events about the same path differ by what they report.
LEMMA MoveEventFacts ==
    /\ \A op \in {"create", "rename", "update", "delete"}, q \in Paths :
          FileEvent(op, q) \in MoveEvents
    /\ \A op, q : FileEvent(op, q).op = op /\ FileEvent(op, q).path = q
BY DEF FileEvent, MoveEvents

\* What the user does is at the end of the events: the arrival of the file, a
\* write to it, or its end.
LEMMA UserStep ==
    ASSUME RenameInv, NEW newAt \in Paths, NEW there \in BOOLEAN,
           NEW s \in Seq(MoveEvents), s # <<>>, UserActs(newAt, there, s),
           \/ there /\ s[Len(s)] = FileEvent("create", newAt)
           \/ /\ there /\ exists /\ newAt = at
              /\ s[Len(s)] = FileEvent("update", at) /\ Len(s) = 1
           \/ ~there /\ s[Len(s)] = FileEvent("delete", newAt)
    PROVE  RenameInv'
<1> DEFINE waiting == fileEvents \o s
<1>1. /\ at' = newAt /\ exists' = there /\ fileEvents' = waiting
      /\ UNCHANGED <<rowPath, operations, peerFiles, overtaken>>
  BY DEF UserActs
<1>2. RenameTypeOK /\ fileEvents \in Seq(MoveEvents)
  BY DEF RenameInv, RenameTypeOK
<1>3. /\ waiting \in Seq(MoveEvents) /\ waiting # <<>>
      /\ Len(waiting) \in DOMAIN waiting /\ waiting[Len(waiting)] = s[Len(s)]
      /\ \A i \in DOMAIN waiting : i \in Nat /\ i <= Len(waiting)
      /\ \A i \in DOMAIN fileEvents : i \in DOMAIN waiting /\ waiting[i] = fileEvents[i]
  BY <1>2, ConcatFacts
<1>4. Len(s) = 1 => \A i \in DOMAIN waiting : i \in DOMAIN fileEvents \/ i = Len(waiting)
  <2>1. /\ Len(waiting) = Len(fileEvents) + Len(s) /\ Len(fileEvents) \in Nat
        /\ DOMAIN waiting = 1 .. Len(waiting) /\ DOMAIN fileEvents = 1 .. Len(fileEvents)
    BY <1>2, ConcatProperties, LenProperties
  <2>2. QED BY <2>1
<1> HIDE DEF waiting
<1>5. RenameTypeOK'
  BY <1>1, <1>2, <1>3 DEF RenameTypeOK
<1>6. CASE there /\ s[Len(s)] = FileEvent("create", newAt)
  <2>1. DeletesUndone' /\ Waits(FileEvent("create", at))'
    <3>1. FileEvent("create", newAt) # FileEvent("delete", newAt)
      BY MoveEventFacts
    <3>2. \A i \in DOMAIN waiting : waiting[i] = FileEvent("delete", newAt) => Len(waiting) > i
      BY <1>3, <1>6, <3>1
    <3>3. QED BY <1>1, <1>3, <1>6, <3>2 DEF DeletesUndone, Waits, FileEvent
  <2>2. QED BY <1>1, <1>5, <1>6, <2>1 DEF RenameInv
<1>7. CASE /\ there /\ exists /\ newAt = at
           /\ s[Len(s)] = FileEvent("update", at) /\ Len(s) = 1
  <2>1. FileEvent("update", at) # FileEvent("delete", at)
    BY MoveEventFacts
  <2>2. DeletesUndone'
    <3>1. ASSUME NEW i \in DOMAIN waiting, waiting[i] = FileEvent("delete", at)
          PROVE  \E j \in DOMAIN waiting : j > i /\ waiting[j] = FileEvent("create", at)
      <4>1. i \in DOMAIN fileEvents /\ fileEvents[i] = FileEvent("delete", at)
        BY <1>3, <1>4, <1>7, <2>1, <3>1
      <4>2. QED BY <1>3, <1>7, <4>1 DEF RenameInv, DeletesUndone
    <3>2. QED BY <1>1, <1>7, <3>1 DEF DeletesUndone, FileEvent
  <2>3. ASSUME ~overtaken, rowPath = at
        PROVE  Arrives' \/ Waits(FileEvent("create", at))'
    <3>1. CASE Arrives
      BY <1>1, <1>7, <3>1 DEF Arrives, EndsIn
    <3>2. CASE Waits(FileEvent("create", at))
      BY <1>1, <1>3, <1>7, <3>2 DEF Waits, FileEvent
    <3>3. QED BY <1>7, <2>3, <3>1, <3>2 DEF RenameInv
  <2>4. QED BY <1>1, <1>5, <1>7, <2>2, <2>3 DEF RenameInv
<1>8. CASE ~there /\ s[Len(s)] = FileEvent("delete", newAt)
  BY <1>1, <1>3, <1>5, <1>8 DEF RenameInv, FileEvent
<1>9. QED BY <1>6, <1>7, <1>8

\* An operation at the end says the last word on its path.
LEMMA LastWord ==
    ASSUME NEW ops \in Seq(MoveOps), NEW o \in MoveOps, NEW kinds, NEW opposite, NEW already,
           o.op \in kinds, o.op \notin opposite
    PROVE  EndsIn(Append(ops, o), o.path, kinds, opposite, already)
<1>1. /\ Len(ops) + 1 \in DOMAIN Append(ops, o) /\ Append(ops, o)[Len(ops) + 1] = o
      /\ \A j \in DOMAIN Append(ops, o) : ~(j > Len(ops) + 1)
  OBVIOUS
<1>2. QED BY <1>1 DEF EndsIn

\* What is still to be told is told when the first operation is applied ...
LEMMA FirstApplied ==
    ASSUME NEW ops \in Seq(MoveOps), 1 \in DOMAIN ops, NEW p, NEW kinds, NEW opposite,
           NEW already, NEW after, EndsIn(ops, p, kinds, opposite, already),
           ops[1].path = p /\ ops[1].op \in kinds => p \in after,
           p \in already /\ ~(ops[1].path = p /\ ops[1].op \in opposite) => p \in after
    PROVE  EndsIn(RemoveAt(ops, 1), p, kinds, opposite, after)
<1> DEFINE rest == RemoveAt(ops, 1)
<1>1. /\ \A k \in DOMAIN ops : /\ k \in Nat
                               /\ k > 1 => k - 1 \in DOMAIN rest /\ rest[k - 1] = ops[k]
      /\ \A k \in DOMAIN rest : /\ k \in Nat
                                /\ k >= 1 => k + 1 \in DOMAIN ops /\ rest[k] = ops[k + 1]
  BY RemoveFacts
<1>2. (\A k \in DOMAIN rest : k >= 1) /\ \A k \in DOMAIN ops : k >= 1
  <2>1. rest \in Seq(MoveOps)
    BY RemoveFacts
  <2> HIDE DEF rest
  <2>2. QED BY <2>1
<1> HIDE DEF rest
<1>3. CASE /\ p \in already
           /\ \A j \in DOMAIN ops : ~(ops[j].path = p /\ ops[j].op \in opposite)
  <2>1. p \in after
    BY <1>3
  <2>2. \A j \in DOMAIN rest : ~(rest[j].path = p /\ rest[j].op \in opposite)
    BY <1>1, <1>2, <1>3
  <2>3. QED BY <2>1, <2>2 DEF EndsIn, rest
<1>4. ASSUME NEW i \in DOMAIN ops, ops[i].path = p, ops[i].op \in kinds,
             \A j \in DOMAIN ops : j > i => ~(ops[j].path = p /\ ops[j].op \in opposite)
      PROVE  EndsIn(rest, p, kinds, opposite, after)
  <2>1. CASE i = 1
    <3>1. p \in after
      BY <1>4, <2>1
    <3>2. \A j \in DOMAIN rest : ~(rest[j].path = p /\ rest[j].op \in opposite)
      <4>1. \A j \in DOMAIN rest : j + 1 \in DOMAIN ops /\ j + 1 > 1 /\ rest[j] = ops[j + 1]
        BY <1>1, <1>2
      <4>2. QED BY <1>4, <2>1, <4>1
    <3>3. QED BY <3>1, <3>2 DEF EndsIn
  <2>2. CASE i # 1
    <3>1. i > 1 /\ i - 1 \in DOMAIN rest /\ rest[i - 1] = ops[i] /\ i \in Nat
      BY <1>1, <1>2, <2>2
    <3>2. ASSUME NEW j \in DOMAIN rest, j > i - 1
          PROVE  ~(rest[j].path = p /\ rest[j].op \in opposite)
      <4>1. j + 1 \in DOMAIN ops /\ j + 1 > i /\ rest[j] = ops[j + 1]
        BY <1>1, <1>2, <3>1, <3>2
      <4>2. QED BY <1>4, <4>1
    <3>3. QED BY <1>4, <3>1, <3>2 DEF EndsIn
  <2>3. QED BY <2>1, <2>2
<1>5. QED BY <1>3, <1>4 DEF EndsIn, rest

\* ... and is not changed by an operation that is dropped and says otherwise.
LEMMA OtherDropped ==
    ASSUME NEW ops \in Seq(MoveOps), NEW d \in DOMAIN ops, NEW p, NEW kinds, NEW opposite,
           NEW already, EndsIn(ops, p, kinds, opposite, already),
           ~(ops[d].path = p /\ ops[d].op \in kinds)
    PROVE  EndsIn(RemoveAt(ops, d), p, kinds, opposite, already)
<1> DEFINE rest == RemoveAt(ops, d)
<1>1. /\ \A k \in DOMAIN ops :
            /\ k \in Nat
            /\ k < d => k \in DOMAIN rest /\ rest[k] = ops[k]
            /\ k > d => k - 1 \in DOMAIN rest /\ rest[k - 1] = ops[k]
      /\ \A k \in DOMAIN rest :
            /\ k \in Nat
            /\ k < d => k \in DOMAIN ops /\ rest[k] = ops[k]
            /\ k >= d => k + 1 \in DOMAIN ops /\ rest[k] = ops[k + 1]
  BY RemoveFacts
<1>2. d \in Nat
  BY <1>1
<1> HIDE DEF rest
<1>3. CASE /\ p \in already
           /\ \A j \in DOMAIN ops : ~(ops[j].path = p /\ ops[j].op \in opposite)
  <2>1. \A j \in DOMAIN rest : ~(rest[j].path = p /\ rest[j].op \in opposite)
    BY <1>1, <1>2, <1>3
  <2>2. QED BY <1>3, <2>1 DEF EndsIn, rest
<1>4. ASSUME NEW i \in DOMAIN ops, ops[i].path = p, ops[i].op \in kinds,
             \A j \in DOMAIN ops : j > i => ~(ops[j].path = p /\ ops[j].op \in opposite)
      PROVE  EndsIn(rest, p, kinds, opposite, already)
  <2>1. i # d /\ i \in Nat
    BY <1>1, <1>4
  <2>2. CASE i < d
    <3>1. i \in DOMAIN rest /\ rest[i] = ops[i]
      BY <1>1, <2>2
    <3>2. ASSUME NEW j \in DOMAIN rest, j > i
          PROVE  ~(rest[j].path = p /\ rest[j].op \in opposite)
      BY <1>1, <1>2, <1>4, <2>1, <3>2
    <3>3. QED BY <1>4, <3>1, <3>2 DEF EndsIn
  <2>3. CASE i > d
    <3>1. i - 1 \in DOMAIN rest /\ rest[i - 1] = ops[i]
      BY <1>1, <2>3
    <3>2. ASSUME NEW j \in DOMAIN rest, j > i - 1
          PROVE  ~(rest[j].path = p /\ rest[j].op \in opposite)
      <4>1. j + 1 \in DOMAIN ops /\ j + 1 > i /\ rest[j] = ops[j + 1]
        BY <1>1, <1>2, <2>1, <2>3, <3>2
      <4>2. QED BY <1>4, <4>1
    <3>3. QED BY <1>4, <3>1, <3>2 DEF EndsIn
  <2>4. QED BY <1>2, <2>1, <2>2, <2>3
<1>5. QED BY <1>3, <1>4 DEF EndsIn, rest

\* A handler of the engine tells what the row says of the place of the file, or
\* knows nothing of it.
LEMMA HandlerTells ==
    ASSUME RenameInv, HandleMoveEvent
    PROVE  /\ RenameTypeOK'
           /\ UNCHANGED <<at, exists, peerFiles, overtaken>>
           /\ fileEvents # <<>> /\ fileEvents' = Tail(fileEvents)
           /\ \/ UNCHANGED <<rowPath, operations>>
              \/ rowPath' # at
              \/ Head(fileEvents) = FileEvent("delete", at)
              \/ exists /\ Arrives'
           /\ rowPath' = at /\ ~exists /\ Head(fileEvents) = FileEvent("delete", at) => Leaves'
<1> DEFINE e == Head(fileEvents)
           Op(kind) == [op |-> kind, path |-> e.path, sent |-> FALSE]
<1>1. /\ RenameTypeOK /\ operations \in Seq(MoveOps) /\ fileEvents \in Seq(MoveEvents)
      /\ exists \in BOOLEAN
  BY DEF RenameInv, RenameTypeOK
<1>2. /\ UNCHANGED <<at, exists, peerFiles, overtaken>>
      /\ fileEvents # <<>> /\ fileEvents' = Tail(fileEvents)
  BY DEF HandleMoveEvent
<1>3. e \in MoveEvents /\ Tail(fileEvents) \in Seq(MoveEvents)
  BY <1>1, <1>2, TailFacts
<1>4. /\ e.op \in {"create", "rename", "update", "delete"} /\ e.path \in Paths
      /\ e = FileEvent(e.op, e.path)
  BY <1>3 DEF MoveEvents, FileEvent
<1>5. \A kind \in {"create", "rename", "update", "delete"} :
         /\ Op(kind) \in MoveOps /\ Op(kind).op = kind /\ Op(kind).path = e.path
         /\ Append(operations, Op(kind)) \in Seq(MoveOps)
  <2>1. \A kind \in {"create", "rename", "update", "delete"} : Op(kind) \in MoveOps
    BY <1>4 DEF MoveOps
  <2>2. \A kind : Op(kind).op = kind /\ Op(kind).path = e.path
    OBVIOUS
  <2> HIDE DEF Op
  <2>3. QED BY <1>1, <2>1, <2>2
<1>6. \/ UNCHANGED <<rowPath, operations>>
      \/ /\ e.op \in {"create", "rename"} /\ rowPath # e.path /\ exists /\ at = e.path
         /\ operations' = Append(operations, Op("rename")) /\ rowPath' = rowPath
      \/ /\ exists /\ at = e.path /\ rowPath' = e.path /\ e.op # "delete"
         /\ operations' = Append(operations, Op("create"))
      \/ /\ exists /\ at = e.path /\ rowPath' = e.path /\ e.op # "delete"
         /\ operations' = Append(operations, Op("update"))
      \/ /\ e.op = "delete" /\ rowPath' = rowPath
         /\ rowPath = e.path \/ at = e.path
         /\ operations' = Append(operations, Op("delete"))
  BY <1>4 DEF HandleMoveEvent, HandleCreate, HandleUpdate, HandleDelete, QueueOp, FileAt,
              IsRename
<1>7. e.op = "delete" => /\ rowPath' = rowPath
                         /\ rowPath = e.path => operations' = Append(operations, Op("delete"))
  BY DEF HandleMoveEvent, HandleDelete, QueueOp
<1> HIDE DEF e, Op
<1>8. RenameTypeOK'
  BY <1>1, <1>2, <1>3, <1>4, <1>5, <1>6 DEF RenameTypeOK
<1>9. \A kind \in {"create", "update"} :
         exists /\ at = e.path /\ operations' = Append(operations, Op(kind)) => Arrives'
  <2> SUFFICES ASSUME NEW kind \in {"create", "update"}, exists, at = e.path,
                      operations' = Append(operations, Op(kind))
               PROVE  Arrives'
    OBVIOUS
  <2>1. Op(kind).op \in Writes /\ Op(kind).op \notin Removals
    BY <1>5 DEF Writes, Removals
  <2>2. EndsIn(Append(operations, Op(kind)), Op(kind).path, Writes, Removals, peerFiles)
    BY <1>1, <1>5, <2>1, LastWord
  <2>3. QED BY <1>2, <1>5, <2>2 DEF Arrives
<1>10. \/ UNCHANGED <<rowPath, operations>> \/ rowPath' # at
       \/ e = FileEvent("delete", at) \/ (exists /\ Arrives')
  BY <1>4, <1>6, <1>9
<1>11. ASSUME rowPath' = at, ~exists, e = FileEvent("delete", at)
       PROVE  Leaves'
  <2>1. e.op = "delete" /\ e.path = at
    BY <1>11, MoveEventFacts
  <2>2. operations' = Append(operations, Op("delete"))
    BY <1>7, <1>11, <2>1
  <2>3. Op("delete").op \in Removals /\ Op("delete").op \notin Writes
    BY <1>5 DEF Writes, Removals
  <2>4. EndsIn(Append(operations, Op("delete")), Op("delete").path, Removals, Writes,
               Paths \ peerFiles)
    BY <1>1, <1>5, <2>3, LastWord
  <2>5. QED BY <1>2, <1>5, <2>1, <2>2, <2>4 DEF Leaves
<1>12. QED BY <1>2, <1>8, <1>10, <1>11 DEF e

\* The engine handles an event.
LEMMA HandleStep ==
    ASSUME RenameInv, HandleMoveEvent
    PROVE  RenameInv'
<1>1. /\ RenameTypeOK' /\ UNCHANGED <<at, exists, peerFiles, overtaken>>
      /\ fileEvents # <<>> /\ fileEvents' = Tail(fileEvents)
  BY HandlerTells
<1>2. fileEvents \in Seq(MoveEvents) /\ exists \in BOOLEAN
  BY DEF RenameInv, RenameTypeOK
<1>3. /\ 1 \in DOMAIN fileEvents /\ fileEvents[1] = Head(fileEvents)
      /\ \A i \in DOMAIN fileEvents' :
            i + 1 \in DOMAIN fileEvents /\ fileEvents'[i] = fileEvents[i + 1] /\ i \in Nat /\ i > 0
      /\ \A i \in DOMAIN fileEvents :
            /\ i \in Nat
            /\ i # 1 => i - 1 \in DOMAIN fileEvents' /\ fileEvents'[i - 1] = fileEvents[i] /\ i > 1
  BY <1>1, <1>2, TailFacts
<1>4. CASE exists
  <2>1. DeletesUndone
    BY <1>4 DEF RenameInv
  <2>2. DeletesUndone'
    <3>1. ASSUME NEW i \in DOMAIN fileEvents', fileEvents'[i] = FileEvent("delete", at)
          PROVE  \E j \in DOMAIN fileEvents' : j > i /\ fileEvents'[j] = FileEvent("create", at)
      <4>1. PICK j \in DOMAIN fileEvents : j > i + 1 /\ fileEvents[j] = FileEvent("create", at)
        BY <1>3, <2>1, <3>1 DEF DeletesUndone
      <4>2. j - 1 \in DOMAIN fileEvents' /\ j - 1 > i /\ fileEvents'[j - 1] = FileEvent("create", at)
        BY <1>3, <3>1, <4>1
      <4>3. QED BY <4>2
    <3>2. QED BY <1>1, <3>1 DEF DeletesUndone, FileEvent
  <2>3. ASSUME NEW j \in DOMAIN fileEvents, j # 1, fileEvents[j] = FileEvent("create", at)
        PROVE  Waits(FileEvent("create", at))'
    <3>1. j - 1 \in DOMAIN fileEvents' /\ fileEvents'[j - 1] = FileEvent("create", at)
      BY <1>3, <2>3
    <3>2. FileEvent("create", at)' = FileEvent("create", at)
      BY <1>1 DEF FileEvent
    <3>3. QED BY <3>1, <3>2 DEF Waits
  <2>4. ASSUME ~overtaken, rowPath' = at
        PROVE  Arrives' \/ Waits(FileEvent("create", at))'
    <3>1. CASE Head(fileEvents) = FileEvent("delete", at)
      <4>1. PICK j \in DOMAIN fileEvents : j > 1 /\ fileEvents[j] = FileEvent("create", at)
        BY <1>3, <2>1, <3>1 DEF DeletesUndone
      <4>2. QED BY <2>3, <4>1
    <3>2. CASE UNCHANGED <<rowPath, operations>>
      <4>1. CASE Arrives
        BY <1>1, <3>2, <4>1 DEF Arrives
      <4>2. CASE Waits(FileEvent("create", at))
        <5>1. PICK j \in DOMAIN fileEvents : fileEvents[j] = FileEvent("create", at)
          BY <4>2 DEF Waits
        <5>2. CASE j = 1
          <6>1. Head(fileEvents).op = "create" /\ Head(fileEvents).path = at
            BY <1>3, <5>1, <5>2, MoveEventFacts
          <6>2. HandleCreate(at)
            BY <6>1 DEF HandleMoveEvent
          <6>3. operations' = Append(operations, [op |-> "create", path |-> at, sent |-> FALSE])
            BY <1>4, <2>4, <3>2, <6>2 DEF HandleCreate, FileAt, IsRename, QueueOp
          <6>4. operations \in Seq(MoveOps)
            BY DEF RenameInv, RenameTypeOK
          <6>5. Len(operations') = Len(operations) + 1
            BY <6>3, <6>4
          <6>6. Len(operations) \in Nat
            BY <6>4
          <6>7. QED BY <3>2, <6>5, <6>6
        <5>3. CASE j # 1
          BY <2>3, <5>1, <5>3
        <5>4. QED BY <5>2, <5>3
      <4>3. QED BY <1>4, <2>4, <3>2, <4>1, <4>2 DEF RenameInv
    <3>3. QED BY <2>4, <3>1, <3>2, HandlerTells
  <2>5. QED BY <1>1, <1>4, <2>2, <2>4 DEF RenameInv
<1>5. CASE ~exists
  <2>1. fileEvents[Len(fileEvents)] = FileEvent("delete", at)
    BY <1>1, <1>5 DEF RenameInv
  <2>2. /\ Len(fileEvents) \in Nat \ {0}
        /\ fileEvents' # <<>> => fileEvents'[Len(fileEvents')] = fileEvents[Len(fileEvents)]
        /\ fileEvents' = <<>> => Len(fileEvents) = 1
    <3>1. /\ Len(fileEvents) \in Nat \ {0} /\ Len(fileEvents') = Len(fileEvents) - 1
          /\ fileEvents' \in Seq(MoveEvents)
      BY <1>1, <1>2, HeadTailProperties, EmptySeq
    <3>2. /\ fileEvents' # <<>> => Len(fileEvents') \in DOMAIN fileEvents'
          /\ fileEvents' = <<>> => Len(fileEvents') = 0
      BY <3>1
    <3>3. QED BY <1>3, <3>1, <3>2
  <2>3. ASSUME rowPath' = at, fileEvents' = <<>>
        PROVE  Leaves'
    BY <1>3, <1>5, <2>1, <2>2, <2>3, HandlerTells
  <2>4. QED BY <1>1, <1>5, <2>1, <2>2, <2>3 DEF RenameInv, FileEvent
<1>6. QED BY <1>2, <1>4, <1>5

\* A sender runs: what it drops is not about the place of the file, or is no
\* deletion.
LEMMA SendOpStep ==
    ASSUME RenameInv, NEW d \in DOMAIN operations, SendOperation(d)
    PROVE  RenameInv'
<1> DEFINE o == operations[d]
<1>1. operations \in Seq(MoveOps) /\ exists \in BOOLEAN /\ o \in MoveOps
  BY DEF RenameInv, RenameTypeOK
<1>2. UNCHANGED <<at, exists, rowPath, fileEvents, peerFiles, overtaken>>
  BY DEF SendOperation
<1>3. ASSUME operations' \in Seq(MoveOps), Arrives /\ exists => Arrives',
             Leaves /\ ~exists => Leaves'
      PROVE  RenameInv'
  BY <1>1, <1>2, <1>3 DEF RenameInv, RenameTypeOK, DeletesUndone, Waits, FileEvent
<1>4. CASE o.op \in {"create", "update"} /\ ~FileAt(o.path)
  <2>1. operations' = RemoveAt(operations, d)
    BY <1>4 DEF SendOperation
  <2>2. operations' \in Seq(MoveOps)
    BY <1>1, <2>1, RemoveFacts
  <2>3. ASSUME Arrives, exists PROVE Arrives'
    <3>1. ~(o.path = at /\ o.op \in Writes)
      BY <1>4, <2>3 DEF FileAt
    <3>2. QED BY <1>1, <1>2, <2>1, <2>3, <3>1, OtherDropped DEF Arrives
  <2>4. ASSUME Leaves, ~exists PROVE Leaves'
    <3>1. ~(o.path = at /\ o.op \in Removals)
      BY <1>4 DEF Removals
    <3>2. QED BY <1>1, <1>2, <2>1, <2>4, <3>1, OtherDropped DEF Leaves
  <2>5. QED BY <1>3, <2>2, <2>3, <2>4
<1>5. CASE ~(o.op \in {"create", "update"} /\ ~FileAt(o.path))
  <2>1. operations' = [operations EXCEPT ![d].sent = TRUE]
    BY <1>5 DEF SendOperation
  <2>2. [o EXCEPT !.sent = TRUE] \in MoveOps
    BY <1>1 DEF MoveOps
  <2>3. operations' \in Seq(MoveOps) /\ DOMAIN operations' = DOMAIN operations
    BY <1>1, <2>1, <2>2
  <2>4. \A i \in DOMAIN operations :
           operations'[i].op = operations[i].op /\ operations'[i].path = operations[i].path
    <3>1. \A i \in DOMAIN operations : operations[i] \in MoveOps
      BY <1>1
    <3>2. QED BY <2>1, <3>1 DEF MoveOps
  <2>5. ASSUME NEW kinds, NEW opposite, NEW already,
               EndsIn(operations, at, kinds, opposite, already)
        PROVE  EndsIn(operations', at, kinds, opposite, already)
    <3>1. \A k : \A i \in DOMAIN operations' :
             operations'[i].path = at /\ operations'[i].op \in k <=>
                operations[i].path = at /\ operations[i].op \in k
      BY <2>3, <2>4
    <3>2. CASE at \in already /\ \A j \in DOMAIN operations :
                  ~(operations[j].path = at /\ operations[j].op \in opposite)
      BY <2>3, <3>1, <3>2 DEF EndsIn
    <3>3. ASSUME NEW i \in DOMAIN operations,
                 operations[i].path = at, operations[i].op \in kinds,
                 \A j \in DOMAIN operations :
                    j > i => ~(operations[j].path = at /\ operations[j].op \in opposite)
          PROVE  EndsIn(operations', at, kinds, opposite, already)
      BY <2>3, <3>1, <3>3 DEF EndsIn
    <3>4. QED BY <2>5, <3>2, <3>3 DEF EndsIn
  <2>6. Arrives => Arrives'
    BY <1>2, <2>5 DEF Arrives
  <2>7. Leaves => Leaves'
    BY <1>2, <2>5 DEF Leaves
  <2>8. QED BY <1>3, <2>3, <2>6, <2>7
<1>6. QED BY <1>4, <1>5

\* The peer applies an operation.
LEMMA ApplyStep ==
    ASSUME RenameInv, NEW i \in DOMAIN operations, ApplyOperation(i)
    PROVE  RenameInv'
<1> DEFINE o == operations[i]
<1>1. /\ operations \in Seq(MoveOps) /\ exists \in BOOLEAN /\ overtaken \in BOOLEAN
      /\ at \in Paths /\ i \in Nat /\ i >= 1 /\ o \in MoveOps
  BY DEF RenameInv, RenameTypeOK
<1>2. /\ operations' = RemoveAt(operations, i) /\ peerFiles' \in Applied(o)
      /\ overtaken' = (overtaken \/ i > 1)
      /\ UNCHANGED <<at, exists, rowPath, fileEvents>>
  BY DEF ApplyOperation
<1>3. operations' \in Seq(MoveOps)
  BY <1>1, <1>2, RemoveFacts
<1>4. ASSUME ~overtaken'
      PROVE  (Arrives => Arrives') /\ (Leaves => Leaves')
  <2>1. ~overtaken /\ ~(i > 1)
    BY <1>1, <1>2, <1>4, Zenon
  <2>2. i = 1
    BY <1>1, <2>1
  <2>3. peerFiles' = CASE o.op = "rename" -> peerFiles
                       [] o.op = "delete" -> peerFiles \ {o.path}
                       [] o.op \in {"create", "update"} -> peerFiles \cup {o.path}
    BY <1>1, <1>2, <2>1 DEF Applied, MoveOps
  <2>4. o.op \in {"rename", "create", "update", "delete"}
    BY <1>1 DEF MoveOps
  <2>5. /\ o.path = at /\ o.op \in Writes => at \in peerFiles'
        /\ at \in peerFiles /\ ~(o.path = at /\ o.op \in Removals) => at \in peerFiles'
    BY <2>3, <2>4 DEF Writes, Removals
  <2>6. /\ o.path = at /\ o.op \in Removals => at \in Paths \ peerFiles'
        /\ at \in Paths \ peerFiles /\ ~(o.path = at /\ o.op \in Writes) => at \in Paths \ peerFiles'
    BY <1>1, <2>3, <2>4 DEF Writes, Removals
  <2>7. Arrives => Arrives'
    BY <1>1, <1>2, <2>2, <2>5, FirstApplied DEF Arrives
  <2>8. Leaves => Leaves'
    BY <1>1, <1>2, <2>2, <2>6, FirstApplied DEF Leaves
  <2>9. QED BY <2>7, <2>8
<1>5. overtaken' \in BOOLEAN /\ (overtaken => overtaken')
  BY <1>1, <1>2
<1>6. QED BY <1>1, <1>2, <1>3, <1>4, <1>5
          DEF RenameInv, RenameTypeOK, DeletesUndone, Waits, FileEvent

\* Every step of a move keeps the invariant.
LEMMA RenameStep ==
    ASSUME RenameInv, [RenameNext]_renameVars
    PROVE  RenameInv'
<1>1. at \in Paths
  BY DEF RenameInv, RenameTypeOK
<1>2. ASSUME NEW q \in Paths, NEW there \in BOOLEAN, NEW e \in MoveEvents,
             UserActs(q, there, <<e>>),
             \/ there /\ e = FileEvent("create", q)
             \/ there /\ exists /\ q = at /\ e = FileEvent("update", at)
             \/ ~there /\ e = FileEvent("delete", q)
      PROVE  RenameInv'
  <2> DEFINE s == <<e>>
  <2>1. s \in Seq(MoveEvents) /\ s # <<>> /\ Len(s) = 1 /\ s[Len(s)] = e
    OBVIOUS
  <2>2. UserActs(q, there, s)
    BY <1>2
  <2> HIDE DEF s
  <2>3. QED BY <1>2, <2>1, <2>2, UserStep
<1>3. ASSUME NEW q \in Paths, UserMoves(q)
      PROVE  RenameInv'
  <2> DEFINE s == <<FileEvent("rename", at), FileEvent("create", q)>>
  <2>1. UserActs(q, TRUE, s)
    BY <1>3 DEF UserMoves
  <2>2. FileEvent("rename", at) \in MoveEvents /\ FileEvent("create", q) \in MoveEvents
    BY <1>1, MoveEventFacts
  <2>3. s \in Seq(MoveEvents) /\ s # <<>> /\ s[Len(s)] = FileEvent("create", q)
    BY <2>2
  <2> HIDE DEF s
  <2>4. QED BY <2>1, <2>3, UserStep
<1>4. ASSUME NEW q \in Paths, UserRestores(q)
      PROVE  RenameInv'
  BY <1>2, <1>4, MoveEventFacts DEF UserRestores
<1>5. CASE UserWrites
  BY <1>1, <1>2, <1>5, MoveEventFacts DEF UserWrites
<1>6. CASE UserDeletes
  BY <1>1, <1>2, <1>6, MoveEventFacts DEF UserDeletes
<1>7. CASE CleanupDeletes \/ UNCHANGED renameVars
  <2>1. UNCHANGED <<at, exists, rowPath, fileEvents, operations, peerFiles, overtaken>>
    BY <1>7 DEF CleanupDeletes, renameVars
  <2>2. QED BY <2>1 DEF RenameInv, RenameTypeOK, DeletesUndone, Waits, Arrives, Leaves, EndsIn,
                        FileEvent
<1>8. CASE HandleMoveEvent
  BY <1>8, HandleStep
<1>9. ASSUME NEW i \in DOMAIN operations, SendOperation(i) \/ ApplyOperation(i)
      PROVE  RenameInv'
  BY <1>9, SendOpStep, ApplyStep
<1>10. QED BY <1>3, <1>4, <1>5, <1>6, <1>7, <1>8, <1>9 DEF RenameNext

\* The inductive invariant of moves holds: where the row names the place of the
\* file, the last word of the operations on their way is right, or an event that
\* will bring it waits.
THEOREM RenameInvHolds == RenameSpec => []RenameInv
<1>1. RenameInv /\ [RenameNext]_renameVars => RenameInv'
  BY RenameStep
<1>2. QED BY <1>1, RenameStarts, PTL DEF RenameSpec

\* For any paths and any number of moves, writes, deletions and restorations: a
\* peer has the file at the place the files table knows if and only if the file
\* is there, once all is handled and no operation overtook another.
THEOREM TrackedFileFollowedHolds == RenameSpec => []TrackedFileFollowed
BY RenameFollows, RenameInvHolds, PTL

-----------------------------------------------------------------------------
(* The debouncing of events.                                                *)

WatchEvents == [path : Files, op : Operations, version : Nat]

WatchTypeOK ==
    /\ present \in [Files -> BOOLEAN]
    /\ version \in [Files -> Nat] /\ told \in [Files -> Nat]
    /\ missed \in [Files -> SUBSET {"overridden", "ignored", "overtaken", "dropped", "moved"}]
    /\ raw \in Seq(WatchEvents) /\ events \in Seq(WatchEvents)
    /\ \A f \in Files : entry[f] = NoEvent \/ (entry[f] \in WatchEvents /\ entry[f].path = f)
    /\ DOMAIN entry = Files
    /\ sending \subseteq [event : WatchEvents, checked : BOOLEAN]

\* Handled now, an event makes the engine tell the last change of the file, or
\* find it moved away; tell of a deletion that is past; look for a file that is
\* not there.  (The file is there or not, and had so many changes.)
Telling(e, here, last) ==
    \/ e.op = "rename"
    \/ e.op \in {"create", "update"} /\ here
    \/ e.op = "delete" /\ e.version = last
Misleading(e, last) == e.op = "delete" /\ e.version # last
Unreadable(e, here) == e.op \in {"create", "update"} /\ ~here

\* A telling event is still behind the i-th of raw, behind all calls that send,
\* behind the deletion of version v in such a call, behind the i-th event in the
\* channel.
RawTells(f, i) ==
    \E j \in DOMAIN raw :
        /\ j > i /\ raw[j].path = f /\ raw[j].version # 0
        /\ Telling(raw[j], present[f], version[f])
EntryTells(f) == Telling(entry[f], present[f], version[f]) \/ RawTells(f, 0)
CallTells(f) ==
    \E s \in sending : s.event.path = f /\ Telling(s.event, present[f], version[f])
SendTells(f, v) ==
    \/ \E s \in sending :
          /\ s.event.path = f /\ s.event.version \notin 1 .. v
          /\ Telling(s.event, present[f], version[f])
    \/ EntryTells(f)
EventTells(f, i) ==
    \/ \E j \in DOMAIN events :
          j > i /\ events[j].path = f /\ Telling(events[j], present[f], version[f])
    \/ CallTells(f)
    \/ EntryTells(f)

\* A change that is not told, and each event that misleads, has a telling event
\* behind it; so has one that reads a file that is not there.
TellingBehind(f) ==
    /\ told[f] # version[f] => EventTells(f, 0)
    /\ \A i \in DOMAIN events :
          events[i].path = f /\ Misleading(events[i], version[f]) => EventTells(f, i)
    /\ \A s \in sending :
          s.event.path = f /\ Misleading(s.event, version[f]) =>
              SendTells(f, s.event.version)
    /\ Misleading(entry[f], version[f]) => RawTells(f, 0)
    /\ \A i \in DOMAIN raw :
          /\ raw[i].path = f /\ Misleading(raw[i], version[f]) => RawTells(f, i)
          /\ raw[i].path = f /\ Unreadable(raw[i], present[f]) => RawTells(f, i)

\* What comes after a deletion is a later change, a remote operation's write or
\* none.
NotBefore(e, d) == d.op = "delete" /\ e.op # "unknown" => e.version \notin 1 .. d.version

DeletionsInOrder(f) ==
    /\ \A i, j \in DOMAIN raw :
          i < j /\ raw[i].path = f /\ raw[j].path = f => NotBefore(raw[j], raw[i])
    /\ \A j \in DOMAIN raw : raw[j].path = f => NotBefore(raw[j], entry[f])
    /\ \A s \in sending :
          s.event.path = f =>
              /\ NotBefore(entry[f], s.event)
              /\ \A j \in DOMAIN raw : raw[j].path = f => NotBefore(raw[j], s.event)

VersionsBounded(f) ==
    /\ \A i \in DOMAIN raw : raw[i].path = f => raw[i].version <= version[f]
    /\ entry[f].version <= version[f]
    /\ \A s \in sending : s.event.path = f => s.event.version <= version[f]

WatcherInv ==
    /\ WatchTypeOK
    /\ \A f \in Files :
          /\ VersionsBounded(f) /\ DeletionsInOrder(f)
          /\ missed[f] = {} /\ ~closed => TellingBehind(f)

\* Nothing is on its way, and so nothing that is not told.
LEMMA WatcherTells == WatcherInv => QuietMeansTold
<1> SUFFICES ASSUME WatcherInv, NEW f \in Files, ~InFlight(f), missed[f] = {}, ~closed
             PROVE  told[f] = version[f]
  BY DEF QuietMeansTold
<1>1. TellingBehind(f)
  BY DEF WatcherInv
<1>2. /\ \A j \in DOMAIN raw : raw[j].path # f
      /\ \A j \in DOMAIN events : events[j].path # f
      /\ \A s \in sending : s.event.path # f
      /\ entry[f] = NoEvent
  BY DEF InFlight, ToSet
<1>3. ~Telling(entry[f], present[f], version[f])
  BY <1>2 DEF Telling, NoEvent
<1>4. ~EventTells(f, 0)
  BY <1>2, <1>3 DEF EventTells, CallTells, EntryTells, RawTells
<1>5. QED BY <1>1, <1>4 DEF TellingBehind

\* Nothing has happened at first.
LEMMA WatcherStarts == WatcherInit => WatcherInv
<1> SUFFICES ASSUME WatcherInit
             PROVE  WatcherInv
  OBVIOUS
<1>1. /\ raw = <<>> /\ events = <<>> /\ DOMAIN raw = {} /\ DOMAIN events = {} /\ sending = {}
      /\ raw \in Seq(WatchEvents) /\ events \in Seq(WatchEvents)
  BY DEF WatcherInit
<1>2. WatchTypeOK
  BY <1>1 DEF WatcherInit, WatchTypeOK
<1>3. ASSUME NEW f \in Files
      PROVE  VersionsBounded(f) /\ DeletionsInOrder(f) /\ TellingBehind(f)
  <2>1. told[f] = version[f] /\ version[f] = 0 /\ entry[f] = NoEvent
    BY DEF WatcherInit
  <2>2. entry[f].op = "none" /\ entry[f].version = 0
    BY <2>1 DEF NoEvent
  <2>3. QED
    BY <1>1, <2>1, <2>2 DEF VersionsBounded, DeletionsInOrder, TellingBehind, Misleading
<1>4. QED BY <1>2, <1>3 DEF WatcherInv

LEMMA EventTypes ==
    ASSUME WatchTypeOK, NEW f \in Files
    PROVE  /\ \A i \in DOMAIN raw : raw[i] \in WatchEvents /\ raw[i].version \in Nat
           /\ \A i \in DOMAIN events : events[i] \in WatchEvents
           /\ entry[f].version \in Nat
           /\ \A s \in sending : s.event \in WatchEvents /\ s.event.version \in Nat
<1>1. /\ raw \in Seq(WatchEvents) /\ events \in Seq(WatchEvents)
      /\ entry[f] = NoEvent \/ entry[f] \in WatchEvents
      /\ sending \subseteq [event : WatchEvents, checked : BOOLEAN]
  BY DEF WatchTypeOK
<1>2. \A e \in WatchEvents : e.version \in Nat
  BY DEF WatchEvents
<1>3. NoEvent.version \in Nat
  BY DEF NoEvent
<1>4. /\ \A i \in DOMAIN raw : raw[i] \in WatchEvents
      /\ \A i \in DOMAIN events : events[i] \in WatchEvents
  BY <1>1, ElementOfSeq, LenProperties
<1>5. \A s \in sending : s.event \in WatchEvents
  BY <1>1
<1>6. QED BY <1>1, <1>2, <1>3, <1>4, <1>5

\* What an event is to the file is one of three, or none.
LEMMA TellingFacts ==
    ASSUME NEW e, NEW here, NEW last, Telling(e, here, last)
    PROVE  /\ ~Misleading(e, last) /\ ~Unreadable(e, here) /\ e.op # "unknown"
           /\ \A there : (here => there) => Telling(e, there, last)
BY DEF Telling, Misleading, Unreadable

\* A new event is at the end of raw: of a change, or one that changes nothing.
LEMMA RawGrows ==
    ASSUME WatcherInv, NEW g \in Files, NEW e \in WatchEvents, e.path = g,
           raw' = Append(raw, e), UNCHANGED <<told, missed, entry, sending, events, closed>>,
           present' \in [Files -> BOOLEAN], version' \in [Files -> Nat],
           \A f \in Files \ {g} : present'[f] = present[f] /\ version'[f] = version[f],
           \/ /\ version'[g] = version[g] + 1 /\ e.version = version'[g]
              /\ Telling(e, present'[g], version'[g])
           \/ /\ version'[g] = version[g] /\ (present[g] => present'[g])
              /\ e.version <= version[g]
              /\ e.op = "unknown" \/ (e.version = 0 /\ e.op = "create" /\ present'[g])
    PROVE  WatcherInv'
<1>1. /\ WatchTypeOK /\ raw \in Seq(WatchEvents)
      /\ \A f \in Files : version[f] \in Nat /\ version'[f] \in Nat
  BY DEF WatcherInv, WatchTypeOK
<1>2. /\ raw' \in Seq(WatchEvents) /\ Len(raw) + 1 \in DOMAIN raw' /\ raw'[Len(raw) + 1] = e
      /\ \A i \in DOMAIN raw :
            i \in DOMAIN raw' /\ raw'[i] = raw[i] /\ i < Len(raw) + 1 /\ i \in Nat
      /\ \A i \in DOMAIN raw' : i \in DOMAIN raw \/ i = Len(raw) + 1
  BY <1>1, AppendFacts
<1>3. WatchTypeOK'
  BY <1>1, <1>2 DEF WatchTypeOK
<1>4. ASSUME NEW f \in Files
      PROVE  VersionsBounded(f)'
  <2>1. VersionsBounded(f) /\ version[f] <= version'[f] /\ (f = g => e.version <= version'[f])
    BY <1>1 DEF WatcherInv
  <2>2. \A x : x.version \in Nat /\ x.version <= version[f] => x.version <= version'[f]
    BY <1>1, <2>1
  <2>3. /\ \A i \in DOMAIN raw : raw[i].version \in Nat
        /\ entry[f].version \in Nat
        /\ \A s \in sending : s.event.version \in Nat
    BY <1>1, EventTypes
  <2>4. QED BY <1>2, <2>1, <2>2, <2>3 DEF VersionsBounded
<1>5. ASSUME NEW f \in Files
      PROVE  DeletionsInOrder(f)'
  <2>1. VersionsBounded(f) /\ DeletionsInOrder(f)
    BY DEF WatcherInv
  <2>2. ASSUME NEW d, d.version \in Nat, d.version <= version[g]
        PROVE  NotBefore(e, d)
    BY <1>1, <2>2 DEF NotBefore
  <2>3. /\ \A i \in DOMAIN raw : raw[i].version \in Nat
        /\ entry[f].version \in Nat
        /\ \A s \in sending : s.event.version \in Nat
    BY <1>1, EventTypes
  <2>4. ASSUME f = g
        PROVE  /\ \A i \in DOMAIN raw : raw[i].path = f => NotBefore(e, raw[i])
               /\ NotBefore(e, entry[f])
               /\ \A s \in sending : s.event.path = f => NotBefore(e, s.event)
    BY <2>1, <2>2, <2>3, <2>4 DEF VersionsBounded
  <2>5. ASSUME NEW i \in DOMAIN raw', NEW j \in DOMAIN raw', i < j,
               raw'[i].path = f, raw'[j].path = f
        PROVE  NotBefore(raw'[j], raw'[i])
    <3>1. i \in DOMAIN raw /\ raw'[i] = raw[i]
      BY <1>2, <2>5
    <3>2. CASE j \in DOMAIN raw
      BY <1>2, <2>1, <2>5, <3>1, <3>2 DEF DeletionsInOrder
    <3>3. CASE j = Len(raw) + 1
      BY <1>2, <2>4, <2>5, <3>1, <3>3
    <3>4. QED BY <1>2, <3>2, <3>3
  <2>6. ASSUME NEW j \in DOMAIN raw', raw'[j].path = f
        PROVE  /\ NotBefore(raw'[j], entry[f])
               /\ \A s \in sending : s.event.path = f => NotBefore(raw'[j], s.event)
    <3>1. CASE j \in DOMAIN raw
      BY <1>2, <2>1, <2>6, <3>1 DEF DeletionsInOrder
    <3>2. CASE j = Len(raw) + 1
      BY <1>2, <2>4, <2>6, <3>2
    <3>3. QED BY <1>2, <3>1, <3>2
  <2>7. \A s \in sending : s.event.path = f => NotBefore(entry[f], s.event)
    BY <2>1 DEF DeletionsInOrder
  <2>8. QED BY <2>5, <2>6, <2>7 DEF DeletionsInOrder
<1>6. ASSUME NEW f \in Files, missed'[f] = {}, ~closed'
      PROVE  TellingBehind(f)'
  <2>1. TellingBehind(f)
    BY <1>6 DEF WatcherInv
  <2>2. CASE f = g /\ version'[g] = version[g] + 1
    <3>1. e.version # 0 /\ Telling(e, present'[f], version'[f])
      BY <1>1, <2>2
    <3>2. \A i : i < Len(raw) + 1 => RawTells(f, i)'
      BY <1>2, <2>2, <3>1 DEF RawTells
    <3>3. RawTells(f, 0)'
      BY <1>1, <3>2
    <3>4. EntryTells(f)'
      BY <3>3 DEF EntryTells
    <3>5. \A i \in DOMAIN raw' : i < Len(raw) + 1 \/ raw'[i] = e
      BY <1>2
    <3>6. ~Misleading(e, version'[f]) /\ ~Unreadable(e, present'[f])
      BY <3>1, TellingFacts
    <3>7. \A i \in DOMAIN raw' :
             /\ Misleading(raw'[i], version'[f]) => RawTells(f, i)'
             /\ Unreadable(raw'[i], present'[f]) => RawTells(f, i)'
      BY <3>2, <3>5, <3>6
    <3>8. \A i : EventTells(f, i)' /\ SendTells(f, i)'
      BY <3>4 DEF EventTells, SendTells
    <3>9. QED BY <3>3, <3>7, <3>8 DEF TellingBehind
  <2>3. CASE ~(f = g /\ version'[g] = version[g] + 1)
    <3>1. /\ version'[f] = version[f] /\ (present[f] => present'[f])
          /\ f = g => e.op = "unknown" \/ (e.op = "create" /\ present'[g])
      BY <1>1, <2>3
    <3>2. \A x : Telling(x, present[f], version[f]) => Telling(x, present'[f], version'[f])
      BY <3>1, TellingFacts
    <3>3. \A i : RawTells(f, i) => RawTells(f, i)'
      BY <1>2, <3>2 DEF RawTells
    <3>4. EntryTells(f) => EntryTells(f)'
      BY <3>2, <3>3 DEF EntryTells
    <3>5. \A v : SendTells(f, v) => SendTells(f, v)'
      BY <3>2, <3>4 DEF SendTells
    <3>6. \A i : EventTells(f, i) => EventTells(f, i)'
      BY <3>2, <3>4 DEF EventTells, CallTells
    <3>7. \A x : /\ Misleading(x, version'[f]) => Misleading(x, version[f])
                 /\ Unreadable(x, present'[f]) => Unreadable(x, present[f])
      BY <3>1 DEF Misleading, Unreadable
    <3>8. f = g => ~Misleading(e, version'[f]) /\ ~Unreadable(e, present'[f])
      BY <3>1 DEF Misleading, Unreadable
    <3>9. ASSUME NEW i \in DOMAIN raw', raw'[i].path = f,
                 Misleading(raw'[i], version'[f]) \/ Unreadable(raw'[i], present'[f])
          PROVE  RawTells(f, i)'
      <4>1. i \in DOMAIN raw /\ raw'[i] = raw[i]
        BY <1>2, <3>8, <3>9
      <4>2. QED BY <2>1, <3>3, <3>7, <3>9, <4>1 DEF TellingBehind
    <3>10. told'[f] # version'[f] => EventTells(f, 0)'
      BY <2>1, <3>1, <3>6 DEF TellingBehind
    <3>11. Misleading(entry'[f], version'[f]) => RawTells(f, 0)'
      BY <2>1, <3>3, <3>7 DEF TellingBehind
    <3>12. \A s \in sending' : s.event.path = f /\ Misleading(s.event, version'[f]) =>
              SendTells(f, s.event.version)'
      BY <2>1, <3>5, <3>7 DEF TellingBehind
    <3>13. \A i \in DOMAIN events' :
              events'[i].path = f /\ Misleading(events'[i], version'[f]) => EventTells(f, i)'
      BY <2>1, <3>6, <3>7 DEF TellingBehind
    <3>14. QED BY <3>9, <3>10, <3>11, <3>12, <3>13 DEF TellingBehind
  <2>4. QED BY <2>2, <2>3
<1>7. QED BY <1>3, <1>4, <1>5, <1>6 DEF WatcherInv

\* The user changes a file.
LEMMA ChangeStep ==
    ASSUME WatcherInv, NEW g \in Files, Change(g)
    PROVE  WatcherInv'
<1>1. present \in [Files -> BOOLEAN] /\ version \in [Files -> Nat] /\ version[g] \in Nat
  BY DEF WatcherInv, WatchTypeOK
<1>2. PICK op \in Operations :
        /\ op # "create" => present[g]
        /\ present' = [present EXCEPT ![g] = op \notin {"delete", "rename"}]
        /\ version' = [version EXCEPT ![g] = IF op = "unknown" THEN @ ELSE @ + 1]
        /\ raw' = Append(raw, Event(g, op, version'[g]))
  BY DEF Change
<1>3. UNCHANGED <<told, missed, entry, sending, events, closed>>
  BY DEF Change, debounce
<1>4. /\ present'[g] = (op \notin {"delete", "rename"})
      /\ version'[g] = IF op = "unknown" THEN version[g] ELSE version[g] + 1
      /\ present' \in [Files -> BOOLEAN] /\ version' \in [Files -> Nat]
      /\ \A f \in Files \ {g} : present'[f] = present[f] /\ version'[f] = version[f]
  BY <1>1, <1>2
<1> DEFINE e == Event(g, op, version'[g])
<1>5. /\ e \in WatchEvents /\ e.path = g /\ e.op = op /\ e.version = version'[g]
  BY <1>1, <1>4 DEF Event, WatchEvents
<1>6. raw' = Append(raw, e)
  BY <1>2
<1> HIDE DEF e
<1>7. CASE op = "unknown"
  <2>1. /\ version'[g] = version[g] /\ present'[g] /\ e.version <= version[g]
    BY <1>1, <1>4, <1>5, <1>7
  <2>2. QED BY <1>3, <1>4, <1>5, <1>6, <1>7, <2>1, RawGrows
<1>8. CASE op # "unknown"
  <2>1. Telling(e, present'[g], version'[g])
    <3>1. op \in {"create", "update", "delete", "rename"}
      BY <1>8 DEF Operations
    <3>2. op \in {"create", "update"} => present'[g]
      BY <1>4
    <3>3. QED BY <1>5, <3>1, <3>2 DEF Telling
  <2>2. version'[g] = version[g] + 1
    BY <1>4, <1>8
  <2>3. QED BY <1>3, <1>4, <1>5, <1>6, <2>1, <2>2, RawGrows
<1>9. QED BY <1>7, <1>8

\* A remote operation writes a file.
LEMMA IgnoreStep ==
    ASSUME WatcherInv, NEW g \in Files, IgnorePath(g)
    PROVE  WatcherInv'
<1>1. present \in [Files -> BOOLEAN] /\ version \in [Files -> Nat] /\ version[g] \in Nat
  BY DEF WatcherInv, WatchTypeOK
<1> DEFINE e == Event(g, "create", 0)
<1>2. /\ raw' = Append(raw, e) /\ present' = [present EXCEPT ![g] = TRUE]
      /\ UNCHANGED <<version, told, missed, entry, sending, events, closed>>
  BY DEF IgnorePath, debounce
<1>3. e \in WatchEvents /\ e.path = g /\ e.op = "create" /\ e.version = 0
  BY DEF Event, WatchEvents, Operations
<1> HIDE DEF e
<1>4. /\ present' \in [Files -> BOOLEAN] /\ version' \in [Files -> Nat] /\ present'[g]
      /\ \A f \in Files \ {g} : present'[f] = present[f] /\ version'[f] = version[f]
      /\ version'[g] = version[g] /\ e.version <= version[g]
  BY <1>1, <1>2, <1>3
<1>5. QED BY <1>2, <1>3, <1>4, RawGrows

\* Timers, the map of ignored paths and stuttering touch none of it.
LEMMA IdleStep ==
    ASSUME WatcherInv,
           UNCHANGED <<present, version, told, missed, raw, entry, sending, events, closed>>
    PROVE  WatcherInv'
<1>1. WatchTypeOK'
  BY DEF WatcherInv, WatchTypeOK
<1>2. ASSUME NEW f \in Files
      PROVE  VersionsBounded(f)' /\ DeletionsInOrder(f)'
  BY DEF WatcherInv, VersionsBounded, DeletionsInOrder
<1>3. ASSUME NEW f \in Files, missed'[f] = {}, ~closed'
      PROVE  TellingBehind(f)'
  <2>1. TellingBehind(f)
    BY <1>3 DEF WatcherInv
  <2>2. \A i : RawTells(f, i)' = RawTells(f, i)
    BY DEF RawTells
  <2>3. EntryTells(f)' = EntryTells(f) /\ CallTells(f)' = CallTells(f)
    BY <2>2 DEF EntryTells, CallTells
  <2>4. \A i : SendTells(f, i) => SendTells(f, i)'
    BY <2>3 DEF SendTells
  <2>5. \A i : EventTells(f, i) => EventTells(f, i)'
    BY <2>3 DEF EventTells
  <2>6. QED BY <2>1, <2>2, <2>4, <2>5 DEF TellingBehind
<1>4. QED BY <1>1, <1>2, <1>3 DEF WatcherInv

\* processEvents reads an event, and drops it or debounces it.
LEMMA ProcessStep ==
    ASSUME WatcherInv, ProcessEvent
    PROVE  WatcherInv'
<1> DEFINE e == Head(raw)
           g == e.path
           dropped == g \in ignoreMap \/ closed
<1>1. /\ WatchTypeOK /\ raw \in Seq(WatchEvents) /\ raw # <<>> /\ raw' = Tail(raw)
      /\ missed \in [Files -> SUBSET {"overridden", "ignored", "overtaken", "dropped", "moved"}]
      /\ DOMAIN entry = Files
      /\ UNCHANGED <<present, version, told, sending, events, closed>>
  BY DEF ProcessEvent, WatcherInv, WatchTypeOK, fileVars
<1>2. /\ raw' \in Seq(WatchEvents) /\ e \in WatchEvents /\ 1 \in DOMAIN raw /\ raw[1] = e
      /\ \A i \in DOMAIN raw' :
            i + 1 \in DOMAIN raw /\ raw'[i] = raw[i + 1] /\ i \in Nat /\ i > 0
      /\ \A i \in DOMAIN raw :
            /\ i \in Nat
            /\ i # 1 => i - 1 \in DOMAIN raw' /\ raw'[i - 1] = raw[i] /\ i > 1
  BY <1>1, TailFacts
<1>3. g \in Files /\ e.op \in Operations /\ e.version \in Nat
  BY <1>2 DEF WatchEvents
<1>4. /\ dropped => /\ missed' = [missed EXCEPT ![g] = @ \cup IF e.version > 0 THEN {"ignored"} ELSE {}]
                    /\ entry' = entry
      /\ ~dropped => /\ missed' = [missed EXCEPT ![g] = @ \cup Overridden(g, e.op)]
                     /\ entry' = [entry EXCEPT ![g] = Merged(g, e)]
  BY DEF ProcessEvent, Miss, debounce
<1>5. Overridden(g, e.op) \subseteq {"overridden"}
  BY DEF Overridden
<1> HIDE DEF e, g
<1>6. /\ missed' \in [Files -> SUBSET {"overridden", "ignored", "overtaken", "dropped", "moved"}]
      /\ \A f \in Files : missed[f] \subseteq missed'[f]
      /\ \A f \in Files \ {g} : entry'[f] = entry[f]
      /\ dropped => /\ entry'[g] = entry[g]
                    /\ missed'[g] = {} => e.version = 0
      /\ ~dropped => /\ entry'[g] = Merged(g, e)
                     /\ missed'[g] = {} => Overridden(g, e.op) = {}
      /\ DOMAIN entry' = Files
  <2>1. CASE dropped
    <3> DEFINE lost == IF e.version > 0 THEN {"ignored"} ELSE {}
    <3>1. /\ missed' = [missed EXCEPT ![g] = @ \cup lost] /\ entry' = entry
      BY <1>4, <2>1
    <3>2. lost \subseteq {"ignored"} /\ (lost = {} => e.version = 0)
      BY <1>3
    <3> HIDE DEF lost, dropped
    <3>3. /\ missed' \in [Files -> SUBSET {"overridden", "ignored", "overtaken", "dropped", "moved"}]
          /\ \A f \in Files : missed[f] \subseteq missed'[f]
          /\ missed'[g] = missed[g] \cup lost
      BY <1>1, <1>3, <3>1, <3>2
    <3>4. QED BY <1>1, <1>3, <2>1, <3>1, <3>2, <3>3
  <2>2. CASE ~dropped
    <3> DEFINE lost == Overridden(g, e.op)
               kept == Merged(g, e)
    <3>1. /\ missed' = [missed EXCEPT ![g] = @ \cup lost] /\ entry' = [entry EXCEPT ![g] = kept]
          /\ lost \subseteq {"overridden"}
      BY <1>4, <1>5, <2>2
    <3> HIDE DEF lost, kept, dropped
    <3>2. /\ missed' \in [Files -> SUBSET {"overridden", "ignored", "overtaken", "dropped", "moved"}]
          /\ \A f \in Files : missed[f] \subseteq missed'[f]
          /\ missed'[g] = missed[g] \cup lost
      BY <1>1, <1>3, <3>1
    <3>3. /\ \A f \in Files \ {g} : entry'[f] = entry[f]
          /\ entry'[g] = kept /\ DOMAIN entry' = Files
      BY <1>1, <1>3, <3>1
    <3>4. QED BY <2>2, <3>2, <3>3 DEF lost, kept
  <2>3. QED BY <2>1, <2>2
<1>7. entry'[g] = e \/ (entry'[g] = entry[g] /\ (dropped \/ entry[g].op = "create"))
  BY <1>6 DEF Merged
<1> HIDE DEF dropped
<1>8. WatchTypeOK'
  <2>1. ASSUME NEW f \in Files
        PROVE  entry'[f] = NoEvent \/ (entry'[f] \in WatchEvents /\ entry'[f].path = f)
    <3>1. entry'[f] = entry[f] \/ (f = g /\ entry'[f] = e)
      BY <1>6, <1>7
    <3>2. entry[f] = NoEvent \/ (entry[f] \in WatchEvents /\ entry[f].path = f)
      BY <1>1 DEF WatchTypeOK
    <3>3. QED BY <1>2, <3>1, <3>2 DEF g
  <2>2. QED BY <1>1, <1>2, <1>6, <2>1 DEF WatchTypeOK
<1>9. ASSUME NEW f \in Files
      PROVE  VersionsBounded(f)'
  <2>1. VersionsBounded(f)
    BY DEF WatcherInv
  <2>2. entry'[f] = entry[f] \/ (f = g /\ entry'[f] = e)
    BY <1>6, <1>7
  <2>3. QED BY <1>1, <1>2, <2>1, <2>2 DEF VersionsBounded, g
<1>10. ASSUME NEW f \in Files
       PROVE  DeletionsInOrder(f)'
  <2>1. DeletionsInOrder(f)
    BY DEF WatcherInv
  <2>2. entry'[f] = entry[f] \/ (f = g /\ entry'[f] = e)
    BY <1>6, <1>7
  <2>3. ASSUME NEW i \in DOMAIN raw', NEW j \in DOMAIN raw', i < j,
               raw'[i].path = f, raw'[j].path = f
        PROVE  NotBefore(raw'[j], raw'[i])
    <3>1. i + 1 < j + 1
      BY <1>2, <2>3
    <3>2. QED BY <1>2, <2>1, <2>3, <3>1 DEF DeletionsInOrder
  <2>4. ASSUME NEW j \in DOMAIN raw', raw'[j].path = f
        PROVE  /\ NotBefore(raw'[j], entry'[f])
               /\ \A s \in sending : s.event.path = f => NotBefore(raw'[j], s.event)
    <3>1. 1 < j + 1
      BY <1>2
    <3>2. QED BY <1>2, <2>1, <2>2, <2>4, <3>1 DEF DeletionsInOrder, g
  <2>5. \A s \in sending : s.event.path = f => NotBefore(entry'[f], s.event)
    BY <1>2, <2>1, <2>2 DEF DeletionsInOrder, g
  <2>6. QED BY <1>1, <2>3, <2>4, <2>5 DEF DeletionsInOrder
<1>11. ASSUME NEW f \in Files, missed'[f] = {}, ~closed'
       PROVE  TellingBehind(f)'
  <2>1. TellingBehind(f)
    BY <1>1, <1>6, <1>11 DEF WatcherInv
  <2>2. ASSUME NEW i \in Nat, RawTells(f, i + 1)
        PROVE  RawTells(f, i)'
    <3>1. PICK j \in DOMAIN raw :
            /\ j > i + 1 /\ raw[j].path = f /\ raw[j].version # 0
            /\ Telling(raw[j], present[f], version[f])
      BY <2>2 DEF RawTells
    <3>2. j \in Nat /\ j # 1
      BY <1>2, <3>1
    <3>3. j - 1 \in DOMAIN raw' /\ raw'[j - 1] = raw[j] /\ j - 1 > i
      BY <1>2, <3>1, <3>2
    <3>4. QED BY <1>1, <3>1, <3>3 DEF RawTells
  <2>3. ASSUME RawTells(f, 0), f # g \/ e.version = 0
        PROVE  RawTells(f, 0)'
    <3>1. PICK j \in DOMAIN raw :
            /\ j > 0 /\ raw[j].path = f /\ raw[j].version # 0
            /\ Telling(raw[j], present[f], version[f])
      BY <2>3 DEF RawTells
    <3>2. j \in Nat /\ j # 1 /\ j > 0 + 1
      BY <1>2, <2>3, <3>1 DEF g
    <3>3. RawTells(f, 0 + 1)
      BY <3>1, <3>2 DEF RawTells
    <3>4. QED BY <2>2, <3>3
  <2>4. ASSUME EntryTells(f)
        PROVE  EntryTells(f)'
    <3>1. CASE f # g \/ dropped
      BY <1>1, <1>6, <1>11, <2>3, <2>4, <3>1 DEF EntryTells
    <3>2. CASE f = g /\ ~dropped
      <4>1. entry'[f] = Merged(f, e) /\ Overridden(f, e.op) = {}
        BY <1>6, <1>11, <3>2
      <4>2. \/ Telling(e, present[f], version[f])
            \/ RawTells(f, 0 + 1)
            \/ Telling(entry[f], present[f], version[f])
        <5>1. ASSUME RawTells(f, 0), ~Telling(e, present[f], version[f])
              PROVE  RawTells(f, 0 + 1)
          <6>1. PICK j \in DOMAIN raw :
                  /\ j > 0 /\ raw[j].path = f /\ raw[j].version # 0
                  /\ Telling(raw[j], present[f], version[f])
            BY <5>1 DEF RawTells
          <6>2. j # 1 /\ j \in Nat
            BY <1>2, <5>1, <6>1
          <6>3. j > 0 + 1
            BY <6>1, <6>2
          <6>4. QED BY <6>1, <6>3 DEF RawTells
        <5>2. QED BY <2>4, <5>1 DEF EntryTells
      <4>3. CASE RawTells(f, 0 + 1)
        BY <2>2, <4>3 DEF EntryTells
      <4>4. CASE Telling(e, present[f], version[f])
        <5>1. Telling(Merged(f, e), present[f], version[f])
          BY <4>1, <4>4 DEF Merged, Overridden, Telling
        <5>2. QED BY <1>1, <4>1, <5>1 DEF EntryTells
      <4>5. CASE Telling(entry[f], present[f], version[f]) /\ ~RawTells(f, 0 + 1)
        <5>1. ~Misleading(e, version[f]) /\ ~Unreadable(e, present[f])
          BY <1>2, <2>1, <3>2, <4>5 DEF TellingBehind, g
        <5>2. e.op = "unknown" => entry[f].op = "create"
          BY <4>1, <4>5 DEF Overridden, Telling
        <5>3. Telling(Merged(f, e), present[f], version[f])
          BY <1>3, <4>5, <5>1, <5>2 DEF Merged, Telling, Misleading, Unreadable, Operations
        <5>4. QED BY <1>1, <4>1, <5>3 DEF EntryTells
      <4>6. QED BY <4>2, <4>3, <4>4, <4>5
    <3>3. QED BY <3>1, <3>2
  <2>5. \A v : SendTells(f, v) => SendTells(f, v)'
    BY <1>1, <2>4 DEF SendTells
  <2>6. \A i : EventTells(f, i) => EventTells(f, i)'
    BY <1>1, <2>4 DEF EventTells, CallTells
  <2>7. ASSUME Misleading(entry'[f], version[f])
        PROVE  RawTells(f, 0)'
    <3>1. CASE entry'[f] = entry[f] /\ (f # g \/ dropped)
      BY <1>6, <1>11, <2>1, <2>3, <2>7, <3>1 DEF TellingBehind
    <3>2. CASE f = g /\ entry'[f] = e
      <4>1. RawTells(f, 0 + 1)
        BY <1>2, <2>1, <2>7, <3>2 DEF TellingBehind, g
      <4>2. QED BY <2>2, <4>1
    <3>3. entry'[f].op # "create"
      BY <2>7 DEF Misleading
    <3>4. QED BY <1>6, <1>7, <3>1, <3>2, <3>3
  <2>8. ASSUME NEW i \in DOMAIN raw', raw'[i].path = f,
               Misleading(raw'[i], version[f]) \/ Unreadable(raw'[i], present[f])
        PROVE  RawTells(f, i)'
    <3>1. RawTells(f, i + 1)
      BY <1>2, <2>1, <2>8 DEF TellingBehind
    <3>2. QED BY <1>2, <2>2, <3>1
  <2>9. told'[f] # version'[f] => EventTells(f, 0)'
    BY <1>1, <2>1, <2>6 DEF TellingBehind
  <2>10. \A s \in sending' : s.event.path = f /\ Misleading(s.event, version'[f]) =>
            SendTells(f, s.event.version)'
    BY <1>1, <2>1, <2>5 DEF TellingBehind
  <2>11. \A i \in DOMAIN events' :
            events'[i].path = f /\ Misleading(events'[i], version'[f]) => EventTells(f, i)'
    BY <1>1, <2>1, <2>6 DEF TellingBehind
  <2>12. QED BY <1>1, <2>7, <2>8, <2>9, <2>10, <2>11 DEF TellingBehind
<1>12. QED BY <1>8, <1>9, <1>10, <1>11 DEF WatcherInv

\* A callback takes an entry, if it is still there.
LEMMA TakeStep ==
    ASSUME WatcherInv, NEW g \in Files, TakeEntry(g)
    PROVE  WatcherInv'
<1> DEFINE call == [event |-> entry[g], checked |-> FALSE]
<1>1. /\ WatchTypeOK /\ DOMAIN entry = Files
      /\ sending \subseteq [event : WatchEvents, checked : BOOLEAN]
      /\ entry[g] = NoEvent \/ (entry[g] \in WatchEvents /\ entry[g].path = g)
      /\ \A f \in Files : version[f] \in Nat
  BY DEF WatcherInv, WatchTypeOK
<1>2. /\ entry' = [entry EXCEPT ![g] = NoEvent]
      /\ sending' = IF entry[g] = NoEvent THEN sending ELSE sending \cup {call}
      /\ UNCHANGED <<present, version, told, missed, raw, events, closed>>
  BY DEF TakeEntry, fileVars
<1>3. /\ entry'[g] = NoEvent /\ DOMAIN entry' = Files
      /\ \A f \in Files \ {g} : entry'[f] = entry[f]
  BY <1>1, <1>2
<1>4. NoEvent.op = "none" /\ NoEvent.version = 0
  BY DEF NoEvent
<1>5. call.event = entry[g]
  OBVIOUS
<1>6. sending' \subseteq [event : WatchEvents, checked : BOOLEAN]
  <2>1. entry[g] # NoEvent => call \in [event : WatchEvents, checked : BOOLEAN]
    BY <1>1
  <2> HIDE DEF call
  <2>2. QED BY <1>1, <1>2, <2>1
<1> HIDE DEF call
<1>7. /\ \A s \in sending : s \in sending'
      /\ \A s \in sending' : s \in sending \/ (s.event = entry[g] /\ s.event.path = g)
      /\ entry[g] # NoEvent => \E s \in sending' : s.event = entry[g] /\ s.event.path = g
  BY <1>1, <1>2, <1>5
<1>8. WatchTypeOK'
  BY <1>1, <1>2, <1>3, <1>6 DEF WatchTypeOK
<1>9. ASSUME NEW f \in Files
      PROVE  VersionsBounded(f)'
  <2>1. VersionsBounded(f)
    BY DEF WatcherInv
  <2>2. entry'[f].version <= version[f]
    BY <1>1, <1>3, <1>4, <2>1 DEF VersionsBounded
  <2>3. QED BY <1>2, <1>7, <2>1, <2>2 DEF VersionsBounded
<1>10. ASSUME NEW f \in Files
       PROVE  DeletionsInOrder(f)'
  <2>1. DeletionsInOrder(f) /\ \A s \in sending : s.event.version \in Nat
    BY <1>1, EventTypes DEF WatcherInv
  <2>2. \A d : NotBefore(d, NoEvent) /\ NotBefore(NoEvent, d)
    BY <1>4 DEF NotBefore
  <2>3. \A d : NotBefore(d, entry[f]) => NotBefore(d, entry'[f])
    BY <1>3, <2>2
  <2>4. \A d : NotBefore(entry[f], d) => NotBefore(entry'[f], d)
    BY <1>3, <2>2
  <2>5. ASSUME NEW s \in sending', s.event.path = f
        PROVE  /\ NotBefore(entry'[f], s.event)
               /\ \A j \in DOMAIN raw : raw[j].path = f => NotBefore(raw[j], s.event)
    <3>1. CASE s \in sending
      BY <2>1, <2>4, <2>5, <3>1 DEF DeletionsInOrder
    <3>2. CASE s.event = entry[g] /\ s.event.path = g
      BY <1>3, <2>1, <2>2, <2>5, <3>2 DEF DeletionsInOrder
    <3>3. QED BY <1>7, <3>1, <3>2
  <2>6. QED BY <1>2, <2>1, <2>3, <2>5 DEF DeletionsInOrder
<1>11. ASSUME NEW f \in Files, missed'[f] = {}, ~closed'
       PROVE  TellingBehind(f)'
  <2>1. TellingBehind(f)
    BY <1>2, <1>11 DEF WatcherInv
  <2>2. \A i : RawTells(f, i) => RawTells(f, i)'
    BY <1>2 DEF RawTells
  <2>3. ~Telling(NoEvent, present[f], version[f])
    BY <1>4 DEF Telling
  <2>4. EntryTells(f) => \/ EntryTells(f)'
                         \/ f = g /\ Telling(entry[f], present[f], version[f])
    BY <1>2, <1>3, <2>2 DEF EntryTells
  <2>5. ASSUME f = g, Telling(entry[f], present[f], version[f])
        PROVE  \E s \in sending' : s.event = entry[f] /\ s.event.path = f
    BY <1>7, <2>3, <2>5
  <2>6. \A i : EventTells(f, i) => EventTells(f, i)'
    <3>1. CallTells(f) => CallTells(f)'
      BY <1>2, <1>7 DEF CallTells
    <3>2. EntryTells(f) => CallTells(f)' \/ EntryTells(f)'
      BY <1>2, <2>4, <2>5 DEF CallTells
    <3>3. QED BY <1>2, <3>1, <3>2 DEF EventTells
  <2>7. ASSUME NEW s \in sending', s.event.path = f, Misleading(s.event, version[f])
        PROVE  SendTells(f, s.event.version)'
    <3>1. CASE s \in sending
      <4>1. SendTells(f, s.event.version)
        BY <2>1, <2>7, <3>1 DEF TellingBehind
      <4>2. CASE EntryTells(f)'
        BY <4>2 DEF SendTells
      <4>3. CASE f = g /\ Telling(entry[f], present[f], version[f])
        <5>1. PICK t \in sending' : t.event = entry[f] /\ t.event.path = f
          BY <2>5, <4>3
        <5>2. NotBefore(entry[f], s.event) /\ s.event.op = "delete" /\ entry[f].op # "unknown"
          BY <2>7, <3>1, <4>3, TellingFacts DEF WatcherInv, DeletionsInOrder, Misleading
        <5>3. entry[f].version \notin 1 .. s.event.version
          BY <5>2 DEF NotBefore
        <5>4. QED BY <1>2, <4>3, <5>1, <5>3 DEF SendTells
      <4>4. CASE \E t \in sending :
                    /\ t.event.path = f /\ t.event.version \notin 1 .. s.event.version
                    /\ Telling(t.event, present[f], version[f])
        BY <1>2, <1>7, <4>4 DEF SendTells
      <4>5. QED BY <2>4, <4>1, <4>2, <4>3, <4>4 DEF SendTells
    <3>2. CASE s.event = entry[g] /\ s.event.path = g
      <4>1. RawTells(f, 0)
        BY <2>1, <2>7, <3>2 DEF TellingBehind
      <4>2. QED BY <2>2, <4>1 DEF SendTells, EntryTells
    <3>3. QED BY <1>7, <3>1, <3>2
  <2>8. Misleading(entry'[f], version[f]) => RawTells(f, 0)'
    <3>1. ~Misleading(NoEvent, version[f])
      BY <1>4 DEF Misleading
    <3>2. QED BY <1>3, <2>1, <2>2, <3>1 DEF TellingBehind
  <2>9. QED BY <1>2, <2>1, <2>2, <2>6, <2>7, <2>8 DEF TellingBehind
<1>12. QED BY <1>8, <1>9, <1>10, <1>11 DEF WatcherInv

\* A call looks whether the watcher is closed.
LEMMA CheckStep ==
    ASSUME WatcherInv, NEW c \in sending, CheckClosed(c)
    PROVE  WatcherInv'
<1> DEFINE call == [c EXCEPT !.checked = TRUE]
<1>1. /\ WatchTypeOK /\ sending \subseteq [event : WatchEvents, checked : BOOLEAN]
      /\ sending' = (sending \ {c}) \cup IF closed THEN {} ELSE {call}
      /\ UNCHANGED <<present, version, told, missed, raw, entry, events, closed>>
  BY DEF WatcherInv, WatchTypeOK, CheckClosed, fileVars, debounce
<1>2. call.event = c.event /\ call \in [event : WatchEvents, checked : BOOLEAN]
  BY <1>1
<1> HIDE DEF call
<1>3. /\ sending' \subseteq [event : WatchEvents, checked : BOOLEAN]
      /\ \A s \in sending' : \E t \in sending : t.event = s.event
      /\ ~closed => \A s \in sending : \E t \in sending' : t.event = s.event
  BY <1>1, <1>2
<1>4. WatchTypeOK'
  BY <1>1, <1>3 DEF WatchTypeOK
<1>5. ASSUME NEW f \in Files
      PROVE  VersionsBounded(f)' /\ DeletionsInOrder(f)'
  <2>1. VersionsBounded(f) /\ DeletionsInOrder(f)
    BY DEF WatcherInv
  <2>2. VersionsBounded(f)'
    BY <1>1, <1>3, <2>1 DEF VersionsBounded
  <2>3. QED BY <1>1, <1>3, <2>1, <2>2 DEF DeletionsInOrder
<1>6. ASSUME NEW f \in Files, missed'[f] = {}, ~closed'
      PROVE  TellingBehind(f)'
  <2>1. TellingBehind(f)
    BY <1>1, <1>6 DEF WatcherInv
  <2>2. \A i : RawTells(f, i) => RawTells(f, i)'
    BY <1>1 DEF RawTells
  <2>3. EntryTells(f) => EntryTells(f)'
    BY <1>1, <2>2 DEF EntryTells
  <2>4. ASSUME NEW v, SendTells(f, v)
        PROVE  SendTells(f, v)'
    <3>1. CASE EntryTells(f)
      BY <2>3, <3>1 DEF SendTells
    <3>2. CASE ~EntryTells(f)
      <4>1. PICK s \in sending :
              /\ s.event.path = f /\ s.event.version \notin 1 .. v
              /\ Telling(s.event, present[f], version[f])
        BY <2>4, <3>2 DEF SendTells
      <4>2. PICK t \in sending' : t.event = s.event
        BY <1>1, <1>3, <1>6
      <4>3. QED BY <1>1, <4>1, <4>2 DEF SendTells
    <3>3. QED BY <3>1, <3>2
  <2>5. CallTells(f) => CallTells(f)'
    <3> SUFFICES ASSUME CallTells(f)
                 PROVE  CallTells(f)'
      OBVIOUS
    <3>1. PICK s \in sending : s.event.path = f /\ Telling(s.event, present[f], version[f])
      BY DEF CallTells
    <3>2. PICK t \in sending' : t.event = s.event
      BY <1>1, <1>3, <1>6
    <3>3. QED BY <1>1, <3>1, <3>2 DEF CallTells
  <2>6. \A i : EventTells(f, i) => EventTells(f, i)'
    BY <1>1, <2>3, <2>5 DEF EventTells
  <2>7. ASSUME NEW s \in sending', s.event.path = f, Misleading(s.event, version[f])
        PROVE  SendTells(f, s.event.version)'
    <3>1. PICK t \in sending : t.event = s.event
      BY <1>3
    <3>2. SendTells(f, s.event.version)
      BY <2>1, <2>7, <3>1 DEF TellingBehind
    <3>3. QED BY <2>4, <3>2
  <2>8. QED BY <1>1, <2>1, <2>2, <2>6, <2>7 DEF TellingBehind
<1>7. QED BY <1>4, <1>5, <1>6 DEF WatcherInv

\* A call sends its event: it is lost, or the last of the channel.
LEMMA SendStep ==
    ASSUME WatcherInv, NEW c \in sending, Send(c)
    PROVE  WatcherInv'
<1> DEFINE g == c.event.path
           lost == closed \/ Len(events) = Capacity
           passed == IF \E t \in sending : Overtakes(c.event, t.event)
                        THEN {"overtaken"} ELSE {}
<1>1. /\ WatchTypeOK /\ events \in Seq(WatchEvents)
      /\ sending \subseteq [event : WatchEvents, checked : BOOLEAN]
      /\ missed \in [Files -> SUBSET {"overridden", "ignored", "overtaken", "dropped", "moved"}]
      /\ sending' = sending \ {c}
      /\ UNCHANGED <<present, version, told, raw, entry, closed>>
  BY DEF WatcherInv, WatchTypeOK, Send, fileVars, debounce
<1>2. c.event \in WatchEvents /\ g \in Files
  BY <1>1 DEF WatchEvents
<1>3. /\ lost => missed' = [missed EXCEPT ![g] = @ \cup {"dropped"}] /\ events' = events
      /\ ~lost => /\ missed' = [missed EXCEPT ![g] = @ \cup passed]
                  /\ events' = Append(events, c.event)
  BY DEF Send, Miss
<1>4. /\ passed \subseteq {"overtaken"}
      /\ passed = {} => \A t \in sending : ~Overtakes(c.event, t.event)
  OBVIOUS
<1> HIDE DEF g, lost, passed
<1>5. /\ missed' \in [Files -> SUBSET {"overridden", "ignored", "overtaken", "dropped", "moved"}]
      /\ \A f \in Files : missed[f] \subseteq missed'[f]
      /\ lost => missed'[g] # {}
      /\ ~lost /\ missed'[g] = {} => passed = {}
  <2>1. CASE lost
    BY <1>1, <1>2, <1>3, <2>1
  <2>2. CASE ~lost
    BY <1>1, <1>2, <1>3, <1>4, <2>2
  <2>3. QED BY <2>1, <2>2
<1>6. ~lost => /\ events' \in Seq(WatchEvents) /\ Len(events) + 1 \in DOMAIN events'
               /\ events'[Len(events) + 1] = c.event
               /\ \A i \in DOMAIN events :
                     /\ i \in DOMAIN events' /\ events'[i] = events[i]
                     /\ i < Len(events) + 1 /\ i \in Nat
               /\ \A i \in DOMAIN events' : i \in DOMAIN events \/ i = Len(events) + 1
  <2> DEFINE s == Append(events, c.event)
  <2>1. /\ s \in Seq(WatchEvents) /\ Len(events) + 1 \in DOMAIN s
        /\ s[Len(events) + 1] = c.event
        /\ \A i \in DOMAIN events : i \in DOMAIN s /\ s[i] = events[i] /\ i < Len(events) + 1 /\ i \in Nat
        /\ \A i \in DOMAIN s : i \in DOMAIN events \/ i = Len(events) + 1
    BY <1>1, <1>2, AppendFacts
  <2>2. ~lost => events' = s
    BY <1>3
  <2> HIDE DEF s
  <2>3. QED BY <2>1, <2>2
<1>7. WatchTypeOK'
  BY <1>1, <1>3, <1>5, <1>6 DEF WatchTypeOK
<1>8. ASSUME NEW f \in Files
      PROVE  VersionsBounded(f)' /\ DeletionsInOrder(f)'
  <2>1. VersionsBounded(f) /\ DeletionsInOrder(f)
    BY DEF WatcherInv
  <2>2. VersionsBounded(f)'
    BY <1>1, <2>1 DEF VersionsBounded
  <2>3. QED BY <1>1, <2>1, <2>2 DEF DeletionsInOrder
<1>9. ASSUME NEW f \in Files, missed'[f] = {}, ~closed'
      PROVE  TellingBehind(f)'
  <2>1. TellingBehind(f)
    BY <1>1, <1>5, <1>9 DEF WatcherInv
  <2>2. \A i : RawTells(f, i) => RawTells(f, i)'
    BY <1>1 DEF RawTells
  <2>3. EntryTells(f) => EntryTells(f)'
    BY <1>1, <2>2 DEF EntryTells
  <2>4. f = g => ~lost /\ \A t \in sending : ~Overtakes(c.event, t.event)
    BY <1>4, <1>5, <1>9
  <2>5. \A i \in DOMAIN events : i \in DOMAIN events' /\ events'[i] = events[i]
    BY <1>3, <1>6
  <2>6. ASSUME NEW i \in Nat, i < Len(events) + 1, EventTells(f, i)
        PROVE  EventTells(f, i)'
    <3>1. CASE EntryTells(f)
      BY <2>3, <3>1 DEF EventTells
    <3>2. CASE \E j \in DOMAIN events :
                  j > i /\ events[j].path = f /\ Telling(events[j], present[f], version[f])
      BY <1>1, <2>5, <3>2 DEF EventTells
    <3>3. CASE CallTells(f)
      <4>1. PICK t \in sending : t.event.path = f /\ Telling(t.event, present[f], version[f])
        BY <3>3 DEF CallTells
      <4>2. CASE t # c
        BY <1>1, <4>1, <4>2 DEF EventTells, CallTells
      <4>3. CASE t = c
        <5>1. ~lost
          BY <2>4, <4>1, <4>3 DEF g
        <5>2. Len(events) + 1 > i
          BY <1>1, <2>6
        <5>3. QED BY <1>1, <1>6, <4>1, <4>3, <5>1, <5>2 DEF EventTells
      <4>4. QED BY <4>2, <4>3
    <3>4. QED BY <2>6, <3>1, <3>2, <3>3 DEF EventTells
  <2>7. ASSUME NEW s \in sending', s.event.path = f, Misleading(s.event, version[f])
        PROVE  SendTells(f, s.event.version)'
    <3>1. s \in sending /\ SendTells(f, s.event.version)
      BY <1>1, <2>1, <2>7 DEF TellingBehind
    <3>2. CASE EntryTells(f)
      BY <2>3, <3>2 DEF SendTells
    <3>3. CASE ~EntryTells(f)
      <4>1. PICK t \in sending :
              /\ t.event.path = f /\ t.event.version \notin 1 .. s.event.version
              /\ Telling(t.event, present[f], version[f])
        BY <3>1, <3>3 DEF SendTells
      <4>2. t = c => Overtakes(c.event, s.event) /\ f = g
        BY <2>7, <4>1 DEF Overtakes, Misleading, g
      <4>3. t # c
        BY <2>4, <3>1, <4>2
      <4>4. QED BY <1>1, <4>1, <4>3 DEF SendTells
    <3>4. QED BY <3>2, <3>3
  <2>8. ASSUME NEW i \in DOMAIN events', events'[i].path = f, Misleading(events'[i], version[f])
        PROVE  EventTells(f, i)'
    <3>1. CASE i \in DOMAIN events
      <4>1. EventTells(f, i)
        BY <2>1, <2>5, <2>8, <3>1 DEF TellingBehind
      <4>2. i \in Nat /\ i < Len(events) + 1
        BY <1>1, <3>1
      <4>3. QED BY <2>6, <4>1, <4>2
    <3>2. CASE i \notin DOMAIN events
      <4>1. ~lost /\ events'[i] = c.event /\ f = g
        BY <1>3, <1>6, <2>8, <3>2 DEF g
      <4>2. SendTells(f, c.event.version)
        BY <2>1, <2>8, <4>1 DEF TellingBehind
      <4>3. CASE EntryTells(f)
        BY <2>3, <4>3 DEF EventTells
      <4>4. CASE ~EntryTells(f)
        <5>1. PICK t \in sending : t.event.path = f /\ Telling(t.event, present[f], version[f])
          BY <4>2, <4>4 DEF SendTells
        <5>2. t # c
          BY <2>8, <4>1, <5>1, TellingFacts
        <5>3. QED BY <1>1, <5>1, <5>2 DEF EventTells, CallTells
      <4>5. QED BY <4>3, <4>4
    <3>3. QED BY <3>1, <3>2
  <2>9. told'[f] # version'[f] => EventTells(f, 0)'
    <3>1. 0 < Len(events) + 1
      BY <1>1
    <3>2. QED BY <1>1, <2>1, <2>6, <3>1 DEF TellingBehind
  <2>10. QED BY <1>1, <2>1, <2>2, <2>7, <2>8, <2>9 DEF TellingBehind
<1>10. QED BY <1>7, <1>8, <1>9 DEF WatcherInv

\* The engine handles the first event of the channel.
LEMMA HandleEventStep ==
    ASSUME WatcherInv, HandleFileEvent
    PROVE  WatcherInv'
<1> DEFINE e == Head(events)
           g == e.path
           now == CASE e.op \in {"create", "update", "rename"} /\ present[g] -> version[g]
                    [] e.op = "delete" -> e.version
                    [] OTHER -> told[g]
           moved == IF e.op = "rename" /\ ~present[g] THEN {"moved"} ELSE {}
<1>1. /\ WatchTypeOK /\ events \in Seq(WatchEvents) /\ events # <<>> /\ events' = Tail(events)
      /\ missed \in [Files -> SUBSET {"overridden", "ignored", "overtaken", "dropped", "moved"}]
      /\ told \in [Files -> Nat] /\ version \in [Files -> Nat]
      /\ present \in [Files -> BOOLEAN]
      /\ UNCHANGED <<present, version, raw, entry, sending, closed>>
  BY DEF WatcherInv, WatchTypeOK, HandleFileEvent, fileVars, debounce
<1>2. /\ events' \in Seq(WatchEvents) /\ e \in WatchEvents /\ 1 \in DOMAIN events /\ events[1] = e
      /\ \A i \in DOMAIN events' :
            i + 1 \in DOMAIN events /\ events'[i] = events[i + 1] /\ i \in Nat /\ i > 0
      /\ \A i \in DOMAIN events :
            /\ i \in Nat
            /\ i # 1 => i - 1 \in DOMAIN events' /\ events'[i - 1] = events[i] /\ i > 1
  BY <1>1, TailFacts
<1>3. g \in Files /\ e.op \in Operations /\ e.version \in Nat
  BY <1>2 DEF WatchEvents
<1>4. /\ told' = [told EXCEPT ![g] = now] /\ missed' = [missed EXCEPT ![g] = @ \cup moved]
  BY DEF HandleFileEvent, Miss
<1>5. /\ now \in Nat /\ moved \subseteq {"moved"}
      /\ moved = {} /\ Telling(e, present[g], version[g]) => now = version[g]
      /\ ~Telling(e, present[g], version[g]) /\ ~Misleading(e, version[g]) => now = told[g]
  <2>1. version[g] \in Nat /\ told[g] \in Nat /\ present[g] \in BOOLEAN
    BY <1>1, <1>3
  <2> HIDE DEF e, g
  <2>2. now \in Nat
    BY <1>3, <2>1
  <2>3. ASSUME moved = {}, Telling(e, present[g], version[g])
        PROVE  now = version[g]
    <3>1. CASE e.op = "rename"
      BY <2>1, <2>3, <3>1
    <3>2. CASE e.op \in {"create", "update"} /\ present[g]
      BY <3>2
    <3>3. CASE e.op = "delete" /\ e.version = version[g]
      BY <3>3
    <3>4. QED BY <2>3, <3>1, <3>2, <3>3 DEF Telling
  <2>4. ASSUME ~Telling(e, present[g], version[g]), ~Misleading(e, version[g])
        PROVE  now = told[g]
    BY <2>4 DEF Telling, Misleading
  <2>5. QED BY <2>2, <2>3, <2>4
<1> HIDE DEF e, g, now, moved
<1>6. /\ told' \in [Files -> Nat] /\ told'[g] = now
      /\ \A f \in Files \ {g} : told'[f] = told[f]
  BY <1>1, <1>3, <1>4, <1>5
<1>7. /\ missed' \in [Files -> SUBSET {"overridden", "ignored", "overtaken", "dropped", "moved"}]
      /\ \A f \in Files : missed[f] \subseteq missed'[f]
      /\ missed'[g] = {} => moved = {}
  BY <1>1, <1>3, <1>4, <1>5
<1>8. WatchTypeOK'
  BY <1>1, <1>2, <1>6, <1>7 DEF WatchTypeOK
<1>9. ASSUME NEW f \in Files
      PROVE  VersionsBounded(f)' /\ DeletionsInOrder(f)'
  <2>1. VersionsBounded(f) /\ DeletionsInOrder(f)
    BY DEF WatcherInv
  <2>2. VersionsBounded(f)'
    BY <1>1, <2>1 DEF VersionsBounded
  <2>3. QED BY <1>1, <2>1, <2>2 DEF DeletionsInOrder
<1>10. ASSUME NEW f \in Files, missed'[f] = {}, ~closed'
       PROVE  TellingBehind(f)'
  <2>1. TellingBehind(f)
    BY <1>1, <1>7, <1>10 DEF WatcherInv
  <2>2. \A i : RawTells(f, i) => RawTells(f, i)'
    BY <1>1 DEF RawTells
  <2>3. /\ EntryTells(f) => EntryTells(f)'
        /\ CallTells(f) => CallTells(f)'
    BY <1>1, <2>2 DEF EntryTells, CallTells
  <2>4. \A v : SendTells(f, v) => SendTells(f, v)'
    BY <1>1, <2>3 DEF SendTells
  <2>5. ASSUME NEW i \in Nat, EventTells(f, i + 1)
        PROVE  EventTells(f, i)'
    <3>1. CASE CallTells(f) \/ EntryTells(f)
      BY <2>3, <3>1 DEF EventTells
    <3>2. CASE ~(CallTells(f) \/ EntryTells(f))
      <4>1. PICK j \in DOMAIN events :
              j > i + 1 /\ events[j].path = f /\ Telling(events[j], present[f], version[f])
        BY <2>5, <3>2 DEF EventTells
      <4>2. j \in Nat /\ j # 1
        BY <1>2, <4>1
      <4>3. j - 1 \in DOMAIN events' /\ events'[j - 1] = events[j] /\ j - 1 > i
        BY <1>2, <4>1, <4>2
      <4>4. QED BY <1>1, <4>1, <4>3 DEF EventTells
    <3>3. QED BY <3>1, <3>2
  <2>6. ASSUME EventTells(f, 0), f # g \/ ~Telling(e, present[f], version[f])
        PROVE  EventTells(f, 0)'
    <3>1. EventTells(f, 0 + 1)
      <4>1. CASE CallTells(f) \/ EntryTells(f)
        BY <4>1 DEF EventTells
      <4>2. CASE ~(CallTells(f) \/ EntryTells(f))
        <5>1. PICK j \in DOMAIN events :
                j > 0 /\ events[j].path = f /\ Telling(events[j], present[f], version[f])
          BY <2>6, <4>2 DEF EventTells
        <5>2. j # 1 /\ j \in Nat
          BY <1>2, <2>6, <5>1 DEF g
        <5>3. j > 0 + 1
          BY <5>1, <5>2
        <5>4. QED BY <5>1, <5>3 DEF EventTells
      <4>3. QED BY <4>1, <4>2
    <3>2. QED BY <2>5, <3>1
  <2>7. ASSUME told'[f] # version[f]
        PROVE  EventTells(f, 0)'
    <3>1. CASE f # g
      BY <1>6, <2>1, <2>6, <2>7, <3>1 DEF TellingBehind
    <3>2. CASE f = g
      <4>1. ~Telling(e, present[f], version[f])
        BY <1>5, <1>6, <1>7, <1>10, <2>7, <3>2
      <4>2. CASE Misleading(e, version[f])
        <5>1. EventTells(f, 0 + 1)
          BY <1>2, <2>1, <3>2, <4>2 DEF TellingBehind, g
        <5>2. QED BY <2>5, <5>1
      <4>3. CASE ~Misleading(e, version[f])
        <5>1. told[f] # version[f]
          BY <1>5, <1>6, <2>7, <3>2, <4>1, <4>3
        <5>2. QED BY <2>1, <2>6, <4>1, <5>1 DEF TellingBehind
      <4>4. QED BY <4>2, <4>3
    <3>3. QED BY <3>1, <3>2
  <2>8. ASSUME NEW i \in DOMAIN events', events'[i].path = f, Misleading(events'[i], version[f])
        PROVE  EventTells(f, i)'
    <3>1. EventTells(f, i + 1)
      BY <1>2, <2>1, <2>8 DEF TellingBehind
    <3>2. QED BY <1>2, <2>5, <3>1
  <2>9. QED BY <1>1, <2>1, <2>2, <2>4, <2>7, <2>8 DEF TellingBehind
<1>11. QED BY <1>8, <1>9, <1>10 DEF WatcherInv

\* The watcher is closed, and nothing is promised any more.
LEMMA CloseStep ==
    ASSUME WatcherInv, Close
    PROVE  WatcherInv'
<1>1. /\ closed' = TRUE /\ entry' = [f \in Files |-> NoEvent]
      /\ UNCHANGED <<present, version, told, missed, raw, sending, events>>
  BY DEF Close, fileVars
<1>2. WatchTypeOK'
  BY <1>1 DEF WatcherInv, WatchTypeOK
<1>3. ASSUME NEW f \in Files
      PROVE  VersionsBounded(f)' /\ DeletionsInOrder(f)'
  <2>1. VersionsBounded(f) /\ DeletionsInOrder(f) /\ version[f] \in Nat
    BY DEF WatcherInv, WatchTypeOK
  <2>2. entry'[f].version = 0 /\ entry'[f].op = "none"
    BY <1>1 DEF NoEvent
  <2>3. VersionsBounded(f)'
    BY <1>1, <2>1, <2>2 DEF VersionsBounded
  <2>4. \A d : NotBefore(d, entry'[f]) /\ NotBefore(entry'[f], d)
    BY <2>2 DEF NotBefore
  <2>5. DeletionsInOrder(f)'
    BY <1>1, <2>1, <2>4 DEF DeletionsInOrder
  <2>6. QED BY <2>3, <2>5
<1>4. QED BY <1>1, <1>2, <1>3 DEF WatcherInv

\* Every step of the watcher keeps the invariant.
LEMMA WatcherStep ==
    ASSUME WatcherInv, [WatcherNext]_watcherVars
    PROVE  WatcherInv'
<1>1. ASSUME NEW f \in Files, WatchPath(f) \/ Fire(f)
      PROVE  WatcherInv'
  <2>1. UNCHANGED <<present, version, told, missed, raw, entry, sending, events, closed>>
    BY <1>1 DEF WatchPath, Fire, fileVars, debounce
  <2>2. QED BY <2>1, IdleStep
<1>2. CASE UNCHANGED watcherVars
  <2>1. UNCHANGED <<present, version, told, missed, raw, entry, sending, events, closed>>
    BY <1>2 DEF watcherVars
  <2>2. QED BY <2>1, IdleStep
<1>3. QED BY <1>1, <1>2, ChangeStep, IgnoreStep, ProcessStep, TakeStep, CheckStep,
             SendStep, HandleEventStep, CloseStep DEF WatcherNext, Callback, Sender

\* The inductive invariant of the watcher holds: behind every change that is not
\* told, and behind every event that would tell of something past, comes one
\* that makes it good, in raw, in the entry, in a call or in the channel.
THEOREM WatcherInvHolds == WatcherSpec => []WatcherInv
<1>1. WatcherInv /\ [WatcherNext]_watcherVars => WatcherInv'
  BY WatcherStep
<1>2. QED BY <1>1, WatcherStarts, PTL DEF WatcherSpec

\* When nothing about a file is on its way any more, the engine has told of its
\* last change, for any number of files and changes, any order of timers,
\* callbacks and calls, and any capacity of the channel; what the watcher loses
\* is only what missed records.
THEOREM QuietMeansToldHolds == WatcherSpec => []QuietMeansTold
BY WatcherTells, WatcherInvHolds, PTL
=============================================================================
