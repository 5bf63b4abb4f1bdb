--------------------------- MODULE ReceptionProofs ---------------------------
(***************************************************************************)
(* Whom a peer asks for files and how it puts together what it gets, for    *)
(* any files, peers, versions and chunks, and how it merges what conflicts. *)
(***************************************************************************)
EXTENDS TLAPS, ChunkManager, Reconciliation, LineMerge, FiniteSetTheorems,
        SequenceTheorems

-----------------------------------------------------------------------------
(* The chunk manager.                                                       *)

FileTransfers ==
    [exists : BOOLEAN, fileHash : Versions \cup {NoVersion}, totalChunks : Nat,
     received : [Ids -> Versions \cup {NoVersion}], complete : BOOLEAN]

ChunkTypeOK ==
    /\ transfer \in FileTransfers
    /\ assembled \in [Ids -> Versions \cup {NoVersion}]
    /\ sources \subseteq Versions

\* A chunk that is there is one of the chunks of a version that was seen, and so
\* are the total and the hash; the total comes with a last chunk at the latest.
TransferSound ==
    /\ ~transfer.exists => transfer = NoTransfer /\ sources = {}
    /\ \A i \in Ids : transfer.received[i] # NoVersion =>
          /\ transfer.received[i] \in sources /\ i < Length(transfer.received[i])
          /\ i = Length(transfer.received[i]) - 1 => transfer.totalChunks > 0
    /\ transfer.fileHash \in sources \cup {NoVersion}
    /\ transfer.totalChunks > 0 =>
          \E v \in sources : transfer.totalChunks = Length(v)

\* With the chunks of one version, complete means that all are there.
CompleteMeansAll ==
    /\ sources = {} => ~transfer.complete
    /\ \A v \in Versions :
          sources = {v} => (transfer.complete <=> ReceivedIds(transfer) = 0 .. Length(v) - 1)

ChunkManagerInv ==
    ChunkTypeOK /\ TransferSound /\ CompleteMeansAll /\ AssembledIsOneVersion

\* The IDs of chunks.
LEMMA IdsNat ==
    /\ Ids \subseteq Nat
    /\ \A v \in Versions : Length(v) \in Nat \ {0} /\ 0 .. Length(v) - 1 \subseteq Ids
BY ChunkManagerAssumption DEF Ids

\* The chunks of one version, counted.
LEMMA CountChunks ==
    ASSUME NEW n \in Nat \ {0}, NEW S \in SUBSET (0 .. n - 1)
    PROVE  /\ IsFiniteSet(S) /\ Cardinality(S) \in Nat /\ Cardinality(S) <= n
           /\ Cardinality(S) = n <=> S = 0 .. n - 1
<1>1. IsFiniteSet(0 .. n - 1) /\ Cardinality(0 .. n - 1) = n
  <2>1. 0 \in Int /\ n - 1 \in Int /\ ~(0 > n - 1) /\ n - 1 - 0 + 1 = n
    OBVIOUS
  <2>2. QED BY <2>1, FS_Interval
<1>2. IsFiniteSet(S) /\ Cardinality(S) \in Nat /\ Cardinality(S) <= n
  <2>1. IsFiniteSet(S) /\ Cardinality(S) <= Cardinality(0 .. n - 1)
    BY <1>1, FS_Subset
  <2>2. Cardinality(S) \in Nat
    BY <2>1, FS_CardinalityType
  <2>3. QED BY <1>1, <2>1, <2>2
<1>3. S # 0 .. n - 1 => Cardinality(S) < n
  <2>1. Cardinality(0 .. n - 1) = Cardinality(S) => S = 0 .. n - 1
    BY <1>1, FS_Subset
  <2>2. QED BY <1>1, <1>2, <2>1
<1>4. QED BY <1>1, <1>2, <1>3

\* The empty transfer.
LEMMA NoTransferFacts ==
    /\ NoTransfer \in FileTransfers /\ NoTransfer.received = NoChunks
    /\ NoTransfer.fileHash = NoVersion /\ NoTransfer.totalChunks = 0
    /\ NoTransfer.exists = FALSE /\ NoTransfer.complete = FALSE
    /\ NoChunks \in [Ids -> Versions \cup {NoVersion}]
    /\ \A i \in Ids : NoChunks[i] = NoVersion
BY DEF NoTransfer, FileTransfers, NoChunks

\* ReceiveChunk, field by field: a chunk that is new and sound.
LEMMA NewChunk ==
    ASSUME ChunkTypeOK, NEW v \in Versions, NEW i \in Ids, i < Length(v),
           NEW hash \in {NoVersion, v},
           transfer' = WithComplete(WithLast(
               [[transfer EXCEPT !.exists = TRUE] EXCEPT !.received[i] = v], v, i, hash))
    PROVE  /\ transfer' \in FileTransfers
           /\ transfer'.exists
           /\ transfer'.received = [transfer.received EXCEPT ![i] = v]
           /\ transfer'.fileHash = IF i = Length(v) - 1 THEN hash ELSE transfer.fileHash
           /\ transfer'.totalChunks =
                 IF i = Length(v) - 1 THEN Length(v) ELSE transfer.totalChunks
           /\ transfer'.complete <=>
                 \/ transfer.complete
                 \/ /\ transfer'.totalChunks > 0
                    /\ Cardinality(ReceivedIds(transfer')) = transfer'.totalChunks
<1> DEFINE r == [transfer.received EXCEPT ![i] = v]
           a == [[transfer EXCEPT !.exists = TRUE] EXCEPT !.received[i] = v]
           b == WithLast(a, v, i, hash)
           done == b.totalChunks > 0 /\ Cardinality(ReceivedIds(b)) = b.totalChunks
<1>1. transfer \in FileTransfers /\ Length(v) \in Nat \ {0} /\ i \in Nat
  BY IdsNat DEF ChunkTypeOK
<1>2. r \in [Ids -> Versions \cup {NoVersion}]
  BY <1>1 DEF FileTransfers
<1>3. a = [transfer EXCEPT !.exists = TRUE, !.received = r]
  BY <1>1 DEF FileTransfers
<1>4. /\ a \in FileTransfers /\ a.exists = TRUE /\ a.received = r
      /\ a.fileHash = transfer.fileHash /\ a.totalChunks = transfer.totalChunks
      /\ a.complete = transfer.complete
  BY <1>1, <1>2, <1>3 DEF FileTransfers
<1> HIDE DEF a
<1>5. /\ b \in FileTransfers /\ b.exists = TRUE /\ b.received = r
      /\ b.fileHash = IF i = Length(v) - 1 THEN hash ELSE transfer.fileHash
      /\ b.totalChunks = IF i = Length(v) - 1 THEN Length(v) ELSE transfer.totalChunks
      /\ b.complete = transfer.complete
  <2>1. CASE i = Length(v) - 1
    <3>1. TotalFromLast(i) = Length(v)
      BY <1>1, <2>1 DEF TotalFromLast
    <3>2. b = [a EXCEPT !.totalChunks = TotalFromLast(i), !.fileHash = hash]
      BY <2>1 DEF WithLast
    <3> HIDE DEF b
    <3>3. QED BY <1>1, <1>4, <2>1, <3>1, <3>2 DEF FileTransfers
  <2>2. CASE i # Length(v) - 1
    BY <1>4, <2>2 DEF WithLast
  <2>3. QED BY <2>1, <2>2
<1>6. transfer' = [b EXCEPT !.complete = b.complete \/ done]
  BY DEF WithComplete, a
<1> HIDE DEF b
<1>7. done \in BOOLEAN
  OBVIOUS
<1>8. /\ transfer' \in FileTransfers /\ transfer'.exists = TRUE /\ transfer'.received = b.received
      /\ transfer'.fileHash = b.fileHash /\ transfer'.totalChunks = b.totalChunks
      /\ transfer'.complete = (b.complete \/ done)
  <2> HIDE DEF done
  <2>1. QED BY <1>5, <1>6, <1>7 DEF FileTransfers
<1>9. ReceivedIds(transfer') = ReceivedIds(b)
  BY <1>8 DEF ReceivedIds
<1>10. done <=> /\ transfer'.totalChunks > 0
               /\ Cardinality(ReceivedIds(transfer')) = transfer'.totalChunks
  BY <1>8, <1>9
<1> HIDE DEF done
<1>11. QED BY <1>5, <1>8, <1>10

\* The chunks of one version, in a transfer that has seen no other.
LEMMA OneVersion ==
    ASSUME ChunkTypeOK, TransferSound, NEW v \in Versions, sources = {v}
    PROVE  /\ ReceivedIds(transfer) \subseteq 0 .. Length(v) - 1
           /\ \A i \in ReceivedIds(transfer) : transfer.received[i] = v
           /\ Length(v) - 1 \in ReceivedIds(transfer) => transfer.totalChunks = Length(v)
           /\ transfer.totalChunks > 0 => transfer.totalChunks = Length(v)
<1>1. \A i \in Ids : transfer.received[i] # NoVersion =>
         /\ transfer.received[i] \in sources /\ i < Length(transfer.received[i])
         /\ i = Length(transfer.received[i]) - 1 => transfer.totalChunks > 0
  BY DEF TransferSound
<1>2. \A i \in ReceivedIds(transfer) :
         i \in Ids /\ i \in Nat /\ transfer.received[i] = v /\ i < Length(v)
  BY <1>1, IdsNat DEF ReceivedIds
<1>3. Length(v) \in Nat \ {0}
  BY IdsNat
<1>4. Length(v) - 1 \in ReceivedIds(transfer) => transfer.totalChunks > 0
  BY <1>1, <1>2, ChunkManagerAssumption
<1>5. transfer.totalChunks > 0 => transfer.totalChunks = Length(v)
  BY DEF TransferSound
<1>6. QED BY <1>2, <1>3, <1>4, <1>5

\* A chunk that is new keeps the invariant.
LEMMA NewChunkSound ==
    ASSUME ChunkManagerInv, NEW v \in Versions, NEW i \in Ids, i < Length(v),
           transfer.received[i] = NoVersion, NEW hash \in {NoVersion, v},
           transfer' = WithComplete(WithLast(
               [[transfer EXCEPT !.exists = TRUE] EXCEPT !.received[i] = v], v, i, hash)),
           sources' = sources \cup {v}, assembled' = assembled
    PROVE  ChunkManagerInv'
<1>1. ChunkTypeOK /\ TransferSound /\ CompleteMeansAll /\ AssembledIsOneVersion
  BY DEF ChunkManagerInv
<1>2. /\ transfer' \in FileTransfers
      /\ transfer'.exists
      /\ transfer'.received = [transfer.received EXCEPT ![i] = v]
      /\ transfer'.fileHash = IF i = Length(v) - 1 THEN hash ELSE transfer.fileHash
      /\ transfer'.totalChunks =
            IF i = Length(v) - 1 THEN Length(v) ELSE transfer.totalChunks
      /\ transfer'.complete <=>
            \/ transfer.complete
            \/ /\ transfer'.totalChunks > 0
               /\ Cardinality(ReceivedIds(transfer')) = transfer'.totalChunks
  BY <1>1, NewChunk
<1>3. /\ Length(v) \in Nat \ {0} /\ i \in Nat /\ v # NoVersion
      /\ transfer.received \in [Ids -> Versions \cup {NoVersion}]
  BY <1>1, IdsNat, ChunkManagerAssumption DEF ChunkTypeOK, FileTransfers
<1>4. /\ transfer'.received[i] = v
      /\ \A j \in Ids : j # i => transfer'.received[j] = transfer.received[j]
  BY <1>2, <1>3
<1>5. ChunkTypeOK'
  BY <1>1, <1>2 DEF ChunkTypeOK
<1>6. TransferSound'
  <2>1. ASSUME NEW j \in Ids, transfer'.received[j] # NoVersion
        PROVE  /\ transfer'.received[j] \in sources'
               /\ j < Length(transfer'.received[j])
               /\ j = Length(transfer'.received[j]) - 1 => transfer'.totalChunks > 0
    <3>1. CASE j = i
      BY <1>2, <1>3, <1>4, <3>1
    <3>2. CASE j # i
      <4>1. transfer'.received[j] = transfer.received[j]
        BY <1>4, <3>2
      <4>2. /\ transfer.received[j] \in sources
            /\ j < Length(transfer.received[j])
            /\ j = Length(transfer.received[j]) - 1 => transfer.totalChunks > 0
        BY <1>1, <2>1, <4>1 DEF TransferSound
      <4>3. transfer.totalChunks > 0 => transfer'.totalChunks > 0
        BY <1>2, <1>3
      <4>4. QED BY <4>1, <4>2, <4>3
    <3>3. QED BY <3>1, <3>2
  <2>2. /\ transfer'.fileHash \in sources' \cup {NoVersion}
        /\ transfer'.totalChunks > 0 => \E u \in sources' : transfer'.totalChunks = Length(u)
    BY <1>1, <1>2, <1>3 DEF TransferSound
  <2>3. QED BY <1>2, <2>1, <2>2 DEF TransferSound
<1>7. CompleteMeansAll'
  <2>1. SUFFICES ASSUME NEW u \in Versions, sources' = {u}
                 PROVE  transfer'.complete <=> ReceivedIds(transfer') = 0 .. Length(u) - 1
    BY DEF CompleteMeansAll
  <2>2. u = v /\ (sources = {} \/ sources = {v})
    BY <2>1
  <2>3. /\ ReceivedIds(transfer') \subseteq 0 .. Length(v) - 1
        /\ Length(v) - 1 \in ReceivedIds(transfer') => transfer'.totalChunks = Length(v)
        /\ transfer'.totalChunks > 0 => transfer'.totalChunks = Length(v)
    <3>1. \A j \in Ids : transfer'.received[j] # NoVersion =>
             /\ transfer'.received[j] = v /\ j < Length(v)
             /\ j = Length(v) - 1 => transfer'.totalChunks > 0
      BY <1>6, <2>1, <2>2 DEF TransferSound
    <3>2. transfer'.totalChunks > 0 => transfer'.totalChunks = Length(v)
      BY <1>6, <2>1, <2>2 DEF TransferSound
    <3>3. ReceivedIds(transfer') \subseteq 0 .. Length(v) - 1
      BY <1>3, <3>1, IdsNat DEF ReceivedIds
    <3>4. Length(v) - 1 \in ReceivedIds(transfer') => transfer'.totalChunks > 0
      BY <3>1 DEF ReceivedIds
    <3>5. QED BY <3>2, <3>3, <3>4
  <2>4. ~transfer.complete
    <3>1. CASE sources = {}
      BY <1>1, <3>1 DEF CompleteMeansAll
    <3>2. CASE sources = {v}
      <4>1. i \notin ReceivedIds(transfer) /\ i \in 0 .. Length(v) - 1
        BY <1>3 DEF ReceivedIds
      <4>2. QED BY <1>1, <3>2, <4>1 DEF CompleteMeansAll
    <3>3. QED BY <2>2, <3>1, <3>2
  <2>5. Cardinality(ReceivedIds(transfer')) = Length(v) <=>
           ReceivedIds(transfer') = 0 .. Length(v) - 1
    BY <1>3, <2>3, CountChunks
  <2>6. CASE ReceivedIds(transfer') = 0 .. Length(v) - 1
    <3>1. Length(v) - 1 \in 0 .. Length(v) - 1
      BY <1>3
    <3>2. QED BY <1>2, <1>3, <2>2, <2>3, <2>5, <2>6, <3>1
  <2>7. CASE ReceivedIds(transfer') # 0 .. Length(v) - 1
    BY <1>2, <2>2, <2>3, <2>4, <2>5, <2>7
  <2>8. QED BY <2>6, <2>7
<1>8. AssembledIsOneVersion'
  BY <1>1 DEF AssembledIsOneVersion
<1>9. QED BY <1>5, <1>6, <1>7, <1>8 DEF ChunkManagerInv

\* A chunk that is there already, or damaged, at most makes a transfer.
LEMMA OldChunkSound ==
    ASSUME ChunkManagerInv, transfer' = [transfer EXCEPT !.exists = TRUE],
           UNCHANGED <<sources, assembled>>
    PROVE  ChunkManagerInv'
<1>1. ChunkTypeOK /\ TransferSound /\ CompleteMeansAll /\ AssembledIsOneVersion
  BY DEF ChunkManagerInv
<1>2. /\ transfer' \in FileTransfers /\ transfer'.exists = TRUE
      /\ transfer'.received = transfer.received /\ transfer'.fileHash = transfer.fileHash
      /\ transfer'.totalChunks = transfer.totalChunks
      /\ transfer'.complete = transfer.complete
  BY <1>1 DEF ChunkTypeOK, FileTransfers
<1>3. ReceivedIds(transfer') = ReceivedIds(transfer)
  BY <1>2 DEF ReceivedIds
<1>4. ChunkTypeOK' /\ TransferSound' /\ AssembledIsOneVersion'
  BY <1>1, <1>2 DEF ChunkTypeOK, TransferSound, AssembledIsOneVersion
<1>5. CompleteMeansAll'
  BY <1>1, <1>2, <1>3 DEF CompleteMeansAll
<1>6. QED BY <1>4, <1>5 DEF ChunkManagerInv

\* What the invariant says of a transfer of one version.
LEMMA InvCompletes == ChunkManagerInv => OneVersionCompletes
<1> SUFFICES ASSUME ChunkManagerInv, NEW v \in Versions, sources = {v}
             PROVE  /\ transfer.complete <=> ReceivedIds(transfer) = 0 .. Length(v) - 1
                    /\ transfer.complete => (Assembles(transfer) <=> transfer.fileHash = v)
                    /\ Length(v) - 1 \in ReceivedIds(transfer) /\ ~transfer.complete =>
                          MayTimeOut(transfer) /\ GetMissingChunks(transfer) # {}
  BY DEF OneVersionCompletes
<1> DEFINE got == ReceivedIds(transfer)
<1>1. /\ ChunkTypeOK /\ TransferSound
      /\ transfer.complete <=> got = 0 .. Length(v) - 1
  BY DEF ChunkManagerInv, CompleteMeansAll
<1>2. /\ got \subseteq 0 .. Length(v) - 1
      /\ \A i \in got : transfer.received[i] = v
      /\ Length(v) - 1 \in got => transfer.totalChunks = Length(v)
  BY <1>1, OneVersion
<1>3. Length(v) \in Nat \ {0} /\ v # NoVersion
  BY IdsNat, ChunkManagerAssumption
<1>4. /\ IsFiniteSet(got) /\ Cardinality(got) \in Nat /\ Cardinality(got) <= Length(v)
      /\ Cardinality(got) = Length(v) <=> got = 0 .. Length(v) - 1
  BY <1>2, <1>3, CountChunks
<1>5. ASSUME transfer.complete
      PROVE  Assembles(transfer) <=> transfer.fileHash = v
  <2>1. got = 0 .. Length(v) - 1
    BY <1>1, <1>5
  <2>2. transfer.received = Whole(v)
    <3>1. transfer.received \in [Ids -> Versions \cup {NoVersion}]
      BY <1>1 DEF ChunkTypeOK, FileTransfers
    <3>2. ASSUME NEW i \in Ids
          PROVE  transfer.received[i] = IF i < Length(v) THEN v ELSE NoVersion
      <4>1. i \in Nat
        BY IdsNat
      <4>2. CASE i < Length(v)
        BY <1>2, <1>3, <2>1, <4>1, <4>2
      <4>3. CASE ~(i < Length(v))
        <5>1. i \notin got
          BY <1>3, <2>1, <4>1, <4>3
        <5>2. QED BY <4>3, <5>1 DEF ReceivedIds
      <4>4. QED BY <4>2, <4>3
    <3>3. QED BY <3>1, <3>2 DEF Whole
  <2>3. transfer.fileHash \in {v, NoVersion}
    BY <1>1 DEF TransferSound
  <2>4. HashMatches(transfer) <=> transfer.fileHash = v
    BY <1>3, <2>2, <2>3 DEF HashMatches
  <2>5. QED BY <1>4, <1>5, <2>1, <2>4 DEF Assembles
<1>6. ASSUME Length(v) - 1 \in got, ~transfer.complete
      PROVE  MayTimeOut(transfer) /\ GetMissingChunks(transfer) # {}
  <2>1. transfer.totalChunks = Length(v) /\ got # 0 .. Length(v) - 1
    BY <1>1, <1>2, <1>6
  <2>2. Cardinality(got) < transfer.totalChunks /\ transfer.totalChunks > 0
    BY <1>3, <1>4, <2>1
  <2>3. (0 .. transfer.totalChunks - 1) \ got # {}
    BY <1>2, <2>1
  <2>4. QED BY <1>3, <1>6, <2>1, <2>2, <2>3 DEF MayTimeOut, GetMissingChunks
<1>7. QED BY <1>1, <1>5, <1>6

\* Nothing is received at first.
LEMMA ChunkManagerStarts == ChunkManagerInit => ChunkManagerInv
<1> SUFFICES ASSUME ChunkManagerInit
             PROVE  ChunkManagerInv
  OBVIOUS
<1>1. transfer = NoTransfer /\ assembled = NoChunks /\ sources = {}
  BY DEF ChunkManagerInit
<1>2. ChunkTypeOK
  BY <1>1, NoTransferFacts DEF ChunkTypeOK
<1>3. TransferSound
  BY <1>1, NoTransferFacts DEF TransferSound
<1>4. CompleteMeansAll /\ AssembledIsOneVersion
  BY <1>1, NoTransferFacts DEF CompleteMeansAll, AssembledIsOneVersion
<1>5. QED BY <1>2, <1>3, <1>4 DEF ChunkManagerInv

\* Every step of the chunk manager keeps the invariant.
LEMMA ChunkManagerStep ==
    ASSUME ChunkManagerInv, [ChunkManagerNext]_chunkManagerVars
    PROVE  ChunkManagerInv'
<1>1. ChunkTypeOK /\ TransferSound /\ CompleteMeansAll /\ AssembledIsOneVersion
  BY DEF ChunkManagerInv
<1>2. ASSUME NEW v \in Versions, StartTransfer(v)
      PROVE  ChunkManagerInv'
  <2>1. /\ transfer' = [NoTransfer EXCEPT !.exists = TRUE, !.fileHash = v,
                                          !.totalChunks = Length(v)]
        /\ sources' = {v} /\ assembled' = assembled
    BY <1>2 DEF StartTransfer
  <2>2. Length(v) \in Nat \ {0} /\ v # NoVersion
    BY IdsNat, ChunkManagerAssumption
  <2>3. /\ transfer' \in FileTransfers /\ transfer'.exists = TRUE /\ transfer'.fileHash = v
        /\ transfer'.totalChunks = Length(v) /\ transfer'.received = NoChunks
        /\ transfer'.complete = FALSE
    BY <2>1, <2>2, NoTransferFacts DEF FileTransfers
  <2>4. ReceivedIds(transfer') = {}
    BY <2>3, NoTransferFacts DEF ReceivedIds
  <2>5. ChunkTypeOK' /\ AssembledIsOneVersion'
    BY <1>1, <2>1, <2>3 DEF ChunkTypeOK, AssembledIsOneVersion
  <2>6. TransferSound'
    BY <2>1, <2>2, <2>3, NoTransferFacts DEF TransferSound
  <2>7. CompleteMeansAll'
    <3>1. 0 \in 0 .. Length(v) - 1
      BY <2>2
    <3>2. QED BY <2>1, <2>3, <2>4, <3>1 DEF CompleteMeansAll
  <2>8. QED BY <2>5, <2>6, <2>7 DEF ChunkManagerInv
<1>3. ASSUME NEW v \in Versions, NEW i \in Ids, NEW damaged \in BOOLEAN,
             NEW hash \in {NoVersion, v}, ReceiveChunk(v, i, damaged, hash)
      PROVE  ChunkManagerInv'
  <2>1. /\ i < Length(v) /\ assembled' = assembled
        /\ \/ /\ transfer' = [transfer EXCEPT !.exists = TRUE]
              /\ UNCHANGED sources
           \/ /\ [transfer EXCEPT !.exists = TRUE].received[i] = NoVersion
              /\ transfer' = WithComplete(WithLast(
                    [[transfer EXCEPT !.exists = TRUE] EXCEPT !.received[i] = v], v, i, hash))
              /\ sources' = sources \cup {v}
    BY <1>3 DEF ReceiveChunk
  <2>2. [transfer EXCEPT !.exists = TRUE].received = transfer.received
    BY <1>1 DEF ChunkTypeOK, FileTransfers
  <2>3. QED BY <2>1, <2>2, NewChunkSound, OldChunkSound
<1>4. ASSUME AssembleFile
      PROVE  ChunkManagerInv'
  <2>1. /\ assembled' = transfer.received /\ UNCHANGED <<transfer, sources>>
        /\ transfer.fileHash # NoVersion /\ transfer.received = Whole(transfer.fileHash)
    BY <1>4 DEF AssembleFile, Assembles, HashMatches
  <2>2. /\ transfer.fileHash \in Versions
        /\ transfer.received \in [Ids -> Versions \cup {NoVersion}]
    BY <1>1, <2>1 DEF ChunkTypeOK, FileTransfers
  <2>3. AssembledIsOneVersion' /\ ChunkTypeOK'
    BY <1>1, <2>1, <2>2 DEF AssembledIsOneVersion, ChunkTypeOK
  <2>4. ReceivedIds(transfer') = ReceivedIds(transfer)
    BY <2>1
  <2>5. TransferSound' /\ CompleteMeansAll'
    BY <1>1, <2>1, <2>4 DEF TransferSound, CompleteMeansAll
  <2>6. QED BY <2>3, <2>5 DEF ChunkManagerInv
<1>5. ASSUME CleanupTransfer
      PROVE  ChunkManagerInv'
  <2>1. transfer' = NoTransfer /\ assembled' = assembled /\ sources' = {}
    BY <1>5 DEF CleanupTransfer
  <2>2. ChunkTypeOK' /\ AssembledIsOneVersion'
    BY <1>1, <2>1, NoTransferFacts DEF ChunkTypeOK, AssembledIsOneVersion
  <2>3. TransferSound'
    BY <2>1, NoTransferFacts DEF TransferSound
  <2>4. CompleteMeansAll'
    BY <2>1, NoTransferFacts DEF CompleteMeansAll
  <2>5. QED BY <2>2, <2>3, <2>4 DEF ChunkManagerInv
<1>6. CASE UNCHANGED chunkManagerVars
  <2>1. UNCHANGED <<transfer, assembled, sources>>
    BY <1>6 DEF chunkManagerVars
  <2>2. ReceivedIds(transfer') = ReceivedIds(transfer)
    BY <2>1
  <2>3. QED BY <2>1, <2>2 DEF ChunkManagerInv, ChunkTypeOK, TransferSound, CompleteMeansAll,
                              AssembledIsOneVersion
<1>7. QED BY <1>2, <1>3, <1>4, <1>5, <1>6 DEF ChunkManagerNext

\* The inductive invariant of the chunk manager holds: chunks come from versions
\* that were seen, and complete means that all are there.
THEOREM ChunkManagerInvHolds == ChunkManagerSpec => []ChunkManagerInv
<1>1. ChunkManagerInv /\ [ChunkManagerNext]_chunkManagerVars => ChunkManagerInv'
  BY ChunkManagerStep
<1>2. QED BY <1>1, ChunkManagerStarts, PTL DEF ChunkManagerSpec

\* Whatever order the chunks of however many versions arrive in, AssembleFile
\* returns one version as a whole or nothing.
THEOREM AssembledIsOneVersionHolds == ChunkManagerSpec => []AssembledIsOneVersion
<1>1. ChunkManagerInv => AssembledIsOneVersion
  BY DEF ChunkManagerInv
<1>2. QED BY <1>1, ChunkManagerInvHolds, PTL

\* The chunks of one version, in any order, with duplicates and damaged copies,
\* complete the transfer with the last one missing and not before, and then
\* assemble exactly when the last chunk had the hash of the file.
THEOREM OneVersionCompletesHolds == ChunkManagerSpec => []OneVersionCompletes
BY InvCompletes, ChunkManagerInvHolds, PTL

-----------------------------------------------------------------------------
(* The assignment of files to peers.                                        *)

\* The larger of a number and 0.
LEMMA MaxOfTwo ==
    ASSUME NEW n \in Int
    PROVE  Max({0, n}) \in {0, n} /\ Max({0, n}) >= 0 /\ Max({0, n}) >= n
<1>1. \E x \in {0, n} : \A y \in {0, n} : x >= y
  OBVIOUS
<1>2. QED BY <1>1 DEF Max

\* The files that have been given to a peer.
Assigned == UNION Range(assignment)

\* A peer's capacity is used up by the files it was given and by nothing else,
\* and goes below 0 only if it was to begin with.
CapacityUsed ==
    /\ room \in [Holders -> Int] /\ remaining \in [Holders -> Int]
    /\ DOMAIN assignment = Holders /\ assignment = [h \in Holders |-> assignment[h]]
    /\ \A h \in Holders :
          /\ IsFiniteSet(assignment[h])
          /\ Cardinality(assignment[h]) = room[h] - remaining[h]
          /\ remaining[h] >= 0 \/ remaining[h] = room[h]

\* No file is given twice, and none is left out while there is room.
FilesPlaced ==
    /\ \A h \in Holders : assignment[h] \cap toSync = {}
    /\ \A h, i \in Holders : h # i => assignment[h] \cap assignment[i] = {}
    /\ toSync \cup Assigned = filesToSync \/ \A h \in Holders : remaining[h] <= 0
    /\ ~called => toSync = {} /\ \A h \in Holders : assignment[h] = {}

ReconcileInv == CapacityUsed /\ FilesPlaced

\* What the invariant says when all files are placed or left out.
LEMMA InvFits == ReconcileInv => FilesFit
<1> SUFFICES ASSUME ReconcileInv
             PROVE  FilesFit
  OBVIOUS
<1>1. ASSUME NEW h \in Holders
      PROVE  /\ room[h] \in Int /\ remaining[h] \in Int
             /\ Cardinality(assignment[h]) = room[h] - remaining[h]
             /\ Cardinality(assignment[h]) \in Nat
             /\ remaining[h] >= 0 \/ remaining[h] = room[h]
  BY FS_CardinalityType DEF ReconcileInv, CapacityUsed
<1>2. \A h \in Holders : Cardinality(assignment[h]) <= Max({0, room[h]})
  BY <1>1, MaxOfTwo
<1>3. ASSUME toSync = {}, Assigned # filesToSync
      PROVE  \A h \in Holders : Cardinality(assignment[h]) >= room[h]
  <2>1. \A h \in Holders : remaining[h] <= 0
    BY <1>3 DEF ReconcileInv, FilesPlaced
  <2>2. QED BY <1>1, <2>1
<1>4. QED BY <1>2, <1>3 DEF ReconcileInv, FilesPlaced, FilesFit, Assigned

\* Nothing is assigned at first.
LEMMA ReconcileStarts == ReconcileInit => ReconcileInv
<1> SUFFICES ASSUME ReconcileInit
             PROVE  ReconcileInv
  OBVIOUS
<1>1. CapacityUsed
  BY FS_EmptySet DEF ReconcileInit, CapacityUsed
<1>2. FilesPlaced
  BY DEF ReconcileInit, FilesPlaced
<1>3. QED BY <1>1, <1>2 DEF ReconcileInv

\* The call: its files, and the capacities of the peers.
LEMMA CallStep ==
    ASSUME ReconcileInv, AssignFilesWithCapacity
    PROVE  ReconcileInv'
<1>1. CapacityUsed /\ FilesPlaced
  BY DEF ReconcileInv
<1>2. \A h \in Holders : assignment[h] = {}
  BY <1>1 DEF AssignFilesWithCapacity, FilesPlaced
<1>3. /\ assignment' = assignment /\ remaining' = room' /\ toSync' = filesToSync'
      /\ called' = TRUE
  BY DEF AssignFilesWithCapacity
<1>4. room' \in [Holders -> Int]
  BY ReconciliationAssumption DEF AssignFilesWithCapacity, Remaining
<1>5. Assigned' = {}
  BY <1>1, <1>2, <1>3 DEF Assigned, Range, CapacityUsed
<1>6. CapacityUsed'
  BY <1>1, <1>2, <1>3, <1>4, FS_EmptySet DEF CapacityUsed
<1>7. FilesPlaced'
  BY <1>2, <1>3, <1>5 DEF FilesPlaced
<1>8. QED BY <1>6, <1>7 DEF ReconcileInv

\* One file is given to a peer with room, or left out when there is none.
LEMMA AssignStep ==
    ASSUME ReconcileInv, NEW f, AssignFile(f)
    PROVE  ReconcileInv'
<1>1. CapacityUsed /\ FilesPlaced
  BY DEF ReconcileInv
<1>2. f \in toSync /\ toSync' = toSync \ {f} /\ UNCHANGED <<called, filesToSync, room>>
  BY DEF AssignFile
<1>3. ASSUME \A h \in Holders : ~HasRoom(remaining[h]), UNCHANGED <<remaining, assignment>>
      PROVE  ReconcileInv'
  <2>1. \A h \in Holders : remaining'[h] <= 0
    BY <1>1, <1>3 DEF HasRoom, CapacityUsed
  <2>2. CapacityUsed'
    BY <1>1, <1>2, <1>3 DEF CapacityUsed
  <2>3. FilesPlaced'
    BY <1>1, <1>2, <1>3, <2>1 DEF FilesPlaced
  <2>4. QED BY <2>2, <2>3 DEF ReconcileInv
<1>4. ASSUME NEW h \in Holders, HasRoom(remaining[h]),
             remaining' = [remaining EXCEPT ![h] = remaining[h] - 1],
             assignment' = [assignment EXCEPT ![h] = assignment[h] \cup {f}]
      PROVE  ReconcileInv'
  <2>1. /\ remaining[h] \in Int /\ remaining[h] > 0
        /\ remaining' \in [Holders -> Int] /\ remaining'[h] = remaining[h] - 1
        /\ \A i \in Holders : i # h => remaining'[i] = remaining[i]
    BY <1>1, <1>4 DEF HasRoom, CapacityUsed
  <2>2. /\ DOMAIN assignment = Holders
        /\ DOMAIN assignment' = Holders /\ assignment'[h] = assignment[h] \cup {f}
        /\ assignment' = [i \in Holders |-> assignment'[i]]
        /\ \A i \in Holders : i # h => assignment'[i] = assignment[i]
    BY <1>1, <1>4 DEF CapacityUsed
  <2>3. f \notin assignment[h]
    BY <1>1, <1>2 DEF FilesPlaced
  <2>4. /\ IsFiniteSet(assignment[h] \cup {f})
        /\ Cardinality(assignment[h] \cup {f}) = Cardinality(assignment[h]) + 1
    BY <1>1, <2>3, FS_AddElement DEF CapacityUsed
  <2>5. ASSUME NEW i \in Holders
        PROVE  /\ IsFiniteSet(assignment'[i])
               /\ Cardinality(assignment'[i]) = room'[i] - remaining'[i]
               /\ remaining'[i] >= 0 \/ remaining'[i] = room'[i]
    <3>1. /\ room[i] \in Int /\ remaining[i] \in Int /\ room'[i] = room[i]
          /\ IsFiniteSet(assignment[i])
          /\ Cardinality(assignment[i]) = room[i] - remaining[i]
          /\ remaining[i] >= 0 \/ remaining[i] = room[i]
      BY <1>1, <1>2 DEF CapacityUsed
    <3>2. CASE i = h
      <4>1. /\ assignment'[i] = assignment[h] \cup {f} /\ remaining'[i] = remaining[i] - 1
            /\ remaining[i] > 0
        BY <2>1, <2>2, <3>2
      <4>2. IsFiniteSet(assignment'[i]) /\ Cardinality(assignment'[i]) = Cardinality(assignment[i]) + 1
        BY <2>4, <3>2, <4>1
      <4>3. QED BY <3>1, <4>1, <4>2
    <3>3. CASE i # h
      BY <2>1, <2>2, <3>1, <3>3
    <3>4. QED BY <3>2, <3>3
  <2>6. CapacityUsed'
    BY <1>1, <1>2, <2>1, <2>2, <2>5 DEF CapacityUsed
  <2>7. toSync' \cup Assigned' = toSync \cup Assigned
    <3>1. \A x : x \in Assigned <=> \E i \in Holders : x \in assignment[i]
      BY <2>2 DEF Assigned, Range
    <3>2. \A x : x \in Assigned' <=> \E i \in Holders : x \in assignment'[i]
      BY <2>2 DEF Assigned, Range
    <3>3. Assigned' = Assigned \cup {f}
      BY <2>2, <3>1, <3>2
    <3>4. QED BY <1>2, <3>3
  <2>8. \A i \in Holders : assignment'[i] \cap toSync' = {}
    BY <1>1, <1>2, <2>2 DEF FilesPlaced
  <2>9. \A i, j \in Holders : i # j => assignment'[i] \cap assignment'[j] = {}
    <3>1. \A i \in Holders : f \notin assignment[i]
      BY <1>1, <1>2 DEF FilesPlaced
    <3>2. QED BY <1>1, <2>2, <3>1 DEF FilesPlaced
  <2>10. toSync' \cup Assigned' = filesToSync' \/ \A i \in Holders : remaining'[i] <= 0
    BY <1>1, <1>2, <2>1, <2>7 DEF FilesPlaced
  <2>11. called'
    BY <1>1, <1>2 DEF FilesPlaced
  <2>12. FilesPlaced'
    BY <2>8, <2>9, <2>10, <2>11 DEF FilesPlaced
  <2>13. QED BY <2>6, <2>12 DEF ReconcileInv
<1>5. QED BY <1>3, <1>4 DEF AssignFile

\* The inductive invariant of the assignment holds: capacity is used up by the
\* files a peer was given, and no file is given twice.
THEOREM ReconcileInvHolds == ReconcileSpec => []ReconcileInv
<1>1. ReconcileInv /\ [ReconcileNext]_reconcileVars => ReconcileInv'
  <2> SUFFICES ASSUME ReconcileInv, [ReconcileNext]_reconcileVars
               PROVE  ReconcileInv'
    OBVIOUS
  <2>1. CASE AssignFilesWithCapacity
    BY <2>1, CallStep
  <2>2. CASE \E f \in toSync : AssignFile(f)
    BY <2>2, AssignStep
  <2>3. CASE UNCHANGED reconcileVars
    BY <2>3 DEF reconcileVars, ReconcileInv, CapacityUsed, FilesPlaced, Assigned
  <2>4. QED BY <2>1, <2>2, <2>3 DEF ReconcileNext
<1>2. QED BY <1>1, ReconcileStarts, PTL DEF ReconcileSpec

\* AssignFilesWithCapacity, for any peers, limits, loads and order of the map:
\* no peer is given more than it has room for, no file is asked from two, and
\* none is left out while some peer has room.
THEOREM FilesFitHolds == ReconcileSpec => []FilesFit
BY InvFits, ReconcileInvHolds, PTL

-----------------------------------------------------------------------------
(* The merge of two branches with their base.                               *)

\* A set of numbers has a least one.
LEMMA LeastNumber ==
    ASSUME NEW T, T \subseteq Nat, T # {}
    PROVE  \E x \in T : \A y \in T : x <= y
<1>1. PICK x \in T : \A y \in T : ~(<<y, x>> \in OpToRel(<, Nat))
  BY NatLessThanWellFounded, WFMin
<1>2. ASSUME NEW y \in T
      PROVE  x <= y
  <2>1. x \in Nat /\ y \in Nat
    OBVIOUS
  <2>2. ~(y < x)
    BY <1>1, <2>1 DEF OpToRel
  <2>3. QED BY <2>1, <2>2
<1>3. QED BY <1>2

\* The longest common prefix exists: it is no longer than one of the sequences.
LEMMA LongestIsCommon ==
    ASSUME NEW E, NEW S, S \subseteq Seq(E), S # {}
    PROVE  LongestCommonPrefix(S) \in CommonPrefixes(S)
<1> DEFINE common == CommonPrefixes(S)
<1>1. PICK s : s \in S /\ s \in Seq(E) /\ Len(s) \in Nat
  OBVIOUS
<1>2. \A q \in common : q \in Seq(E) /\ Len(q) \in Nat /\ Len(q) <= Len(s)
  <2> SUFFICES ASSUME NEW q \in common
               PROVE  q \in Seq(E) /\ Len(q) \in Nat /\ Len(q) <= Len(s)
    OBVIOUS
  <2>1. PICK t \in S : q \in Prefixes(t)
    BY DEF CommonPrefixes
  <2>2. IsPrefix(q, s)
    BY <1>1 DEF CommonPrefixes
  <2>3. PICK l \in 0 .. Len(t) : q = SubSeq(t, 1, l)
    BY <2>1 DEF Prefixes
  <2>4. t \in Seq(E) /\ Len(t) \in Nat
    OBVIOUS
  <2>5. /\ \A i \in 1 .. l : t[i] \in E
        /\ l \in Int
    BY <2>4
  <2>6. q \in Seq(E)
    BY <2>3, <2>5, SubSeqProperties
  <2>7. QED BY <2>2, <2>6 DEF IsPrefix
<1>3. <<>> \in common
  <2>1. \A t \in S : SubSeq(t, 1, 0) = <<>> /\ Len(t) \in Nat
    <3>1. \A t : SubSeq(t, 1, 0) = <<>>
      BY SubSeqEmpty
    <3>2. QED BY <3>1
  <2>2. Len(<<>>) = 0 /\ SubSeq(<<>>, 1, 0) = <<>>
    BY SubSeqEmpty
  <2>3. <<>> \in Prefixes(s)
    BY <1>1, <2>1 DEF Prefixes
  <2>4. \A t \in S : IsPrefix(<<>>, t)
    BY <2>1, <2>2 DEF IsPrefix
  <2>5. QED BY <1>1, <2>3, <2>4 DEF CommonPrefixes
<1> HIDE DEF common
<1>4. \E p \in common : \A q \in common : Len(q) <= Len(p)
  <2> DEFINE T == {Len(s) - Len(q) : q \in common}
  <2>1. T \subseteq Nat /\ T # {}
    BY <1>1, <1>2, <1>3
  <2>2. PICK x \in T : \A y \in T : x <= y
    BY <2>1, LeastNumber
  <2>3. PICK p \in common : x = Len(s) - Len(p)
    BY <2>2
  <2>4. ASSUME NEW q \in common
        PROVE  Len(q) <= Len(p)
    <3>1. Len(s) - Len(p) <= Len(s) - Len(q)
      BY <2>2, <2>3
    <3>2. QED BY <1>1, <1>2, <3>1
  <2>5. QED BY <2>4
<1>5. QED BY <1>4 DEF LongestCommonPrefix, common

\* The longest common prefix is a sequence that each of the sequences begins with.
LEMMA EachBeginsWith ==
    ASSUME NEW E, NEW S, S \subseteq Seq(E), S # {}
    PROVE  LET p == LongestCommonPrefix(S)
           IN  /\ p \in Seq(E) /\ Len(p) \in Nat
               /\ \A w \in S : Len(p) <= Len(w) /\ \A k \in 1 .. Len(p) : w[k] = p[k]
<1> DEFINE p == LongestCommonPrefix(S)
<1>1. p \in CommonPrefixes(S)
  BY LongestIsCommon
<1>2. \A t \in S : IsPrefix(p, t)
  BY <1>1 DEF CommonPrefixes
<1>3. PICK t \in S : p \in Prefixes(t)
  BY <1>1 DEF CommonPrefixes
<1> HIDE DEF p
<1>4. p \in Seq(E)
  <2>1. PICK l \in 0 .. Len(t) : p = SubSeq(t, 1, l)
    BY <1>3 DEF Prefixes
  <2>2. t \in Seq(E) /\ Len(t) \in Nat
    OBVIOUS
  <2>3. (\A i \in 1 .. l : t[i] \in E) /\ l \in Int
    BY <2>2
  <2>4. QED BY <2>1, <2>3, SubSeqProperties
<1>5. Len(p) \in Nat
  BY <1>4
<1>6. ASSUME NEW w \in S
      PROVE  Len(p) <= Len(w) /\ \A k \in 1 .. Len(p) : w[k] = p[k]
  <2>1. w \in Seq(E) /\ Len(w) \in Nat
    OBVIOUS
  <2>2. Len(p) <= Len(w) /\ SubSeq(p, 1, Len(p)) = SubSeq(w, 1, Len(p))
    BY <1>2 DEF IsPrefix
  <2>3. \A k \in 1 .. Len(p) : p[k] \in E /\ w[k] \in E
    BY <1>4, <1>5, <2>1, <2>2
  <2>4. /\ \A k \in 1 .. Len(p) - 1 + 1 : SubSeq(p, 1, Len(p))[k] = p[1 + k - 1]
        /\ \A k \in 1 .. Len(p) - 1 + 1 : SubSeq(w, 1, Len(p))[k] = w[1 + k - 1]
    BY <1>5, <2>3, SubSeqProperties
  <2>5. ASSUME NEW k \in 1 .. Len(p)
        PROVE  w[k] = p[k]
    <3>1. k \in 1 .. Len(p) - 1 + 1 /\ 1 + k - 1 = k
      BY <1>5
    <3>2. QED BY <2>2, <2>4, <3>1
  <2>6. QED BY <2>2, <2>5
<1>7. QED BY <1>4, <1>5, <1>6 DEF p

\* Three sequences are equal as far as their longest common prefix goes.
CommonLength(x, y, z) == Len(LongestCommonPrefix({x, y, z}))

LEMMA CommonPrefixOfThree ==
    ASSUME NEW E, NEW x \in Seq(E), NEW y \in Seq(E), NEW z \in Seq(E)
    PROVE  /\ CommonLength(x, y, z) \in Nat /\ CommonLength(x, y, z) <= Len(x)
           /\ CommonLength(x, y, z) <= Len(y) /\ CommonLength(x, y, z) <= Len(z)
           /\ \A k \in 1 .. CommonLength(x, y, z) : y[k] = x[k] /\ z[k] = x[k]
<1> DEFINE S == {x, y, z}
           p == LongestCommonPrefix(S)
<1>1. /\ Len(p) \in Nat
      /\ \A w \in S : Len(p) <= Len(w) /\ \A k \in 1 .. Len(p) : w[k] = p[k]
  BY EachBeginsWith
<1> HIDE DEF p
<1>2. /\ Len(p) <= Len(x) /\ Len(p) <= Len(y) /\ Len(p) <= Len(z)
      /\ \A k \in 1 .. Len(p) : y[k] = x[k] /\ z[k] = x[k]
  BY <1>1
<1>3. QED BY <1>1, <1>2 DEF p, CommonLength

\* Two sequences agree on their first p and on their last q elements.
Agree(x, y, p, q) ==
    /\ p + q <= Len(x) /\ p + q <= Len(y)
    /\ \A k \in 1 .. p : x[k] = y[k]
    /\ \A k \in 1 .. q : x[Len(x) - k + 1] = y[Len(y) - k + 1]

\* The elements between the first p and the last q.
LEMMA MiddleFacts ==
    ASSUME NEW E, NEW x \in Seq(E), NEW p \in Nat, NEW q \in Nat, p + q <= Len(x)
    PROVE  /\ MiddleOf(x, p, q) \in Seq(E)
           /\ Len(MiddleOf(x, p, q)) = Len(x) - q - p
           /\ \A k \in 1 .. Len(x) - q - p : MiddleOf(x, p, q)[k] = x[p + k]
<1> DEFINE m == p + 1
           n == Len(x) - q
<1>1. /\ Len(x) \in Nat /\ m \in Int /\ n \in Int
      /\ \A i \in m .. n : x[i] \in E
  OBVIOUS
<1>2. /\ SubSeq(x, m, n) \in Seq(E)
      /\ Len(SubSeq(x, m, n)) = IF m <= n THEN n - m + 1 ELSE 0
      /\ \A i \in 1 .. n - m + 1 : SubSeq(x, m, n)[i] = x[m + i - 1]
  BY <1>1, SubSeqProperties
<1>3. (IF m <= n THEN n - m + 1 ELSE 0) = Len(x) - q - p /\ n - m + 1 = Len(x) - q - p
  BY <1>1
<1>4. \A k \in 1 .. Len(x) - q - p : m + k - 1 = p + k
  BY <1>1
<1>5. MiddleOf(x, p, q) = SubSeq(x, m, n)
  BY DEF MiddleOf
<1> HIDE DEF m, n
<1>6. QED BY <1>2, <1>3, <1>4, <1>5

\* What agrees outside and is equal between is equal.
LEMMA SameMiddle ==
    ASSUME NEW E, NEW x \in Seq(E), NEW y \in Seq(E), NEW p \in Nat, NEW q \in Nat,
           Agree(x, y, p, q), MiddleOf(x, p, q) = MiddleOf(y, p, q)
    PROVE  x = y
<1>1. Len(x) \in Nat /\ Len(y) \in Nat /\ p + q <= Len(x) /\ p + q <= Len(y)
  BY DEF Agree
<1>2. /\ Len(MiddleOf(x, p, q)) = Len(x) - q - p
      /\ Len(MiddleOf(y, p, q)) = Len(y) - q - p
      /\ \A k \in 1 .. Len(x) - q - p : MiddleOf(x, p, q)[k] = x[p + k]
      /\ \A k \in 1 .. Len(y) - q - p : MiddleOf(y, p, q)[k] = y[p + k]
  <2>1. ASSUME NEW z \in Seq(E), p + q <= Len(z)
        PROVE  /\ Len(MiddleOf(z, p, q)) = Len(z) - q - p
               /\ \A k \in 1 .. Len(z) - q - p : MiddleOf(z, p, q)[k] = z[p + k]
    BY <2>1, MiddleFacts
  <2>2. QED BY <1>1, <2>1
<1>3. Len(x) = Len(y)
  BY <1>1, <1>2
<1>4. ASSUME NEW i \in 1 .. Len(x)
      PROVE  x[i] = y[i]
  <2>1. CASE i <= p
    BY <2>1 DEF Agree
  <2>2. CASE i > p /\ i <= Len(x) - q
    <3>1. i - p \in 1 .. Len(x) - q - p /\ p + (i - p) = i
      BY <1>1, <2>2
    <3>2. MiddleOf(x, p, q)[i - p] = x[p + (i - p)] /\ MiddleOf(y, p, q)[i - p] = y[p + (i - p)]
      BY <1>2, <1>3, <3>1
    <3>3. QED BY <3>1, <3>2
  <2>3. CASE i > Len(x) - q
    <3>1. Len(x) - i + 1 \in 1 .. q /\ Len(x) - (Len(x) - i + 1) + 1 = i
      BY <1>1, <2>3
    <3>2. x[Len(x) - (Len(x) - i + 1) + 1] = y[Len(y) - (Len(x) - i + 1) + 1]
      BY <3>1 DEF Agree
    <3>3. QED BY <1>3, <3>1, <3>2
  <2>4. QED BY <1>1, <2>1, <2>2, <2>3
<1>5. QED BY <1>3, <1>4, SeqEqual

\* The elements of a concatenation.
LEMMA ToSetConcat ==
    ASSUME NEW E, NEW u \in Seq(E), NEW v \in Seq(E)
    PROVE  u \o v \in Seq(E) /\ ToSet(u \o v) = ToSet(u) \cup ToSet(v)
<1>1. Range(u \o v) = Range(u) \cup Range(v)
  BY RangeConcatenation
<1>2. QED BY <1>1, ConcatProperties DEF Range, ToSet

\* The lines of a branch are those of its middle, and lines of the base before
\* and behind.
LEMMA LinesOfBranch ==
    ASSUME NEW E, NEW b \in Seq(E), NEW x \in Seq(E), NEW p \in Nat, NEW q \in Nat,
           Agree(x, b, p, q)
    PROVE  /\ SubSeq(b, 1, p) \in Seq(E)
           /\ SubSeq(b, Len(b) - q + 1, Len(b)) \in Seq(E)
           /\ ToSet(x) \subseteq ToSet(SubSeq(b, 1, p)) \cup ToSet(MiddleOf(x, p, q))
                  \cup ToSet(SubSeq(b, Len(b) - q + 1, Len(b)))
<1> DEFINE first == SubSeq(b, 1, p)
           n == Len(b) - q + 1
           last == SubSeq(b, n, Len(b))
           middle == MiddleOf(x, p, q)
<1>1. Len(x) \in Nat /\ Len(b) \in Nat /\ p + q <= Len(x) /\ p + q <= Len(b)
  BY DEF Agree
<1>2. /\ \A i \in 1 .. p : b[i] \in E
      /\ \A i \in n .. Len(b) : b[i] \in E
      /\ n \in Int /\ Len(b) - n + 1 = q
  BY <1>1
<1>3. /\ first \in Seq(E) /\ last \in Seq(E)
      /\ \A i \in 1 .. p - 1 + 1 : first[i] = b[1 + i - 1]
      /\ \A i \in 1 .. Len(b) - n + 1 : last[i] = b[n + i - 1]
      /\ Len(first) = IF 1 <= p THEN p - 1 + 1 ELSE 0
      /\ Len(last) = IF n <= Len(b) THEN Len(b) - n + 1 ELSE 0
  BY <1>1, <1>2, SubSeqProperties
<1>4. Len(first) = p /\ Len(last) = q /\ n \in Nat
  BY <1>1, <1>3
<1>5. /\ middle \in Seq(E) /\ Len(middle) = Len(x) - q - p
      /\ \A k \in 1 .. Len(x) - q - p : middle[k] = x[p + k]
  BY <1>1, MiddleFacts
<1>6. /\ DOMAIN first = 1 .. p /\ DOMAIN last = 1 .. q /\ DOMAIN middle = 1 .. Len(x) - q - p
  BY <1>3, <1>4, <1>5, LenProperties
<1>7. n = Len(b) - q + 1
  OBVIOUS
<1> HIDE DEF first, last, middle, n
<1>8. ASSUME NEW i \in 1 .. Len(x)
      PROVE  x[i] \in ToSet(first) \cup ToSet(middle) \cup ToSet(last)
  <2>1. CASE i <= p
    <3>1. i \in 1 .. p /\ i \in 1 .. p - 1 + 1 /\ 1 + i - 1 = i
      BY <2>1
    <3>2. first[i] = x[i]
      BY <1>3, <3>1 DEF Agree
    <3>3. QED BY <1>6, <3>1, <3>2 DEF ToSet
  <2>2. CASE i > p /\ i <= Len(x) - q
    <3>1. i - p \in 1 .. Len(x) - q - p /\ p + (i - p) = i
      BY <1>1, <2>2
    <3>2. middle[i - p] = x[p + (i - p)]
      BY <1>5, <3>1
    <3>3. QED BY <1>6, <3>1, <3>2 DEF ToSet
  <2>3. CASE i > Len(x) - q
    <3> DEFINE k == Len(x) - i + 1
    <3>1. k \in 1 .. q /\ Len(x) - k + 1 = i /\ q - k + 1 \in 1 .. q
      BY <1>1, <2>3
    <3>2. x[Len(x) - k + 1] = b[Len(b) - k + 1]
      BY <3>1 DEF Agree
    <3>3. last[q - k + 1] = b[n + (q - k + 1) - 1]
      BY <1>2, <1>3, <3>1
    <3>4. n + (q - k + 1) - 1 = Len(b) - k + 1
      BY <1>1, <1>7, <3>1
    <3> HIDE DEF k
    <3>5. x[i] = last[q - k + 1]
      BY <3>1, <3>2, <3>3, <3>4
    <3>6. QED BY <1>6, <3>1, <3>5 DEF ToSet
  <2>4. QED BY <1>1, <2>1, <2>2, <2>3
<1>9. ToSet(x) \subseteq ToSet(first) \cup ToSet(middle) \cup ToSet(last)
  <2>1. DOMAIN x = 1 .. Len(x)
    BY LenProperties
  <2>2. QED BY <1>8, <2>1 DEF ToSet
<1>10. QED BY <1>3, <1>9 DEF first, last, middle, n

\* The elements of a reversed sequence.
LEMMA ReverseFacts ==
    ASSUME NEW E, NEW f \in Seq(E)
    PROVE  /\ Reverse(f) \in Seq(E) /\ Len(Reverse(f)) = Len(f) /\ Len(f) \in Nat
           /\ \A k \in 1 .. Len(f) : Reverse(f)[k] = f[Len(f) - k + 1]
<1>1. Len(f) \in Nat /\ \A i \in 1 .. Len(f) : f[(Len(f) - i) + 1] \in E
  OBVIOUS
<1>2. Reverse(f) \in [1 .. Len(f) -> E]
  BY <1>1 DEF Reverse
<1>3. Reverse(f) \in Seq(E)
  BY <1>1, <1>2, SeqDef
<1>4. Len(Reverse(f)) = Len(f)
  BY <1>1, <1>2, <1>3
<1>5. QED BY <1>1, <1>3, <1>4 DEF Reverse

\* Prefix and suffix of a three-way merge are what the three files agree on.
LEMMA BranchesAgree ==
    ASSUME NEW E, NEW b \in Seq(E), NEW s \in Seq(E), NEW t \in Seq(E),
           \A f \in {b, s, t} : PrefixCount(b, s, t) + SuffixCount(b, s, t) <= Len(f)
    PROVE  LET p == PrefixCount(b, s, t)
               q == SuffixCount(b, s, t)
           IN  p \in Nat /\ q \in Nat /\ Agree(s, b, p, q) /\ Agree(t, b, p, q)
                 /\ Agree(s, t, p, q)
<1> DEFINE p == PrefixCount(b, s, t)
           q == SuffixCount(b, s, t)
<1>1. /\ p \in Nat
      /\ \A k \in 1 .. p : s[k] = b[k] /\ t[k] = b[k]
  <2>1. p = CommonLength(b, s, t)
    BY DEF PrefixCount, CommonLength
  <2>2. QED BY <2>1, CommonPrefixOfThree
<1>2. \A f \in {b, s, t} :
         /\ Reverse(f) \in Seq(E) /\ Len(Reverse(f)) = Len(f) /\ Len(f) \in Nat
         /\ \A k \in 1 .. Len(f) : Reverse(f)[k] = f[Len(f) - k + 1]
  BY ReverseFacts
<1>3. /\ q \in Nat /\ q <= Len(Reverse(b)) /\ q <= Len(Reverse(s)) /\ q <= Len(Reverse(t))
      /\ \A k \in 1 .. q : Reverse(s)[k] = Reverse(b)[k] /\ Reverse(t)[k] = Reverse(b)[k]
  <2>1. Reverse(b) \in Seq(E) /\ Reverse(s) \in Seq(E) /\ Reverse(t) \in Seq(E)
    BY <1>2
  <2>2. q = CommonLength(Reverse(b), Reverse(s), Reverse(t))
    BY DEF SuffixCount, CommonLength
  <2>3. ASSUME NEW x \in Seq(E), NEW y \in Seq(E), NEW z \in Seq(E)
        PROVE  /\ CommonLength(x, y, z) \in Nat /\ CommonLength(x, y, z) <= Len(x)
               /\ CommonLength(x, y, z) <= Len(y) /\ CommonLength(x, y, z) <= Len(z)
               /\ \A k \in 1 .. CommonLength(x, y, z) : y[k] = x[k] /\ z[k] = x[k]
    BY <2>3, CommonPrefixOfThree
  <2> HIDE DEF q
  <2>4. QED BY <2>1, <2>2, <2>3, ZenonT(30)
<1>4. /\ p + q <= Len(b) /\ p + q <= Len(s) /\ p + q <= Len(t)
  OBVIOUS
<1> HIDE DEF p, q
<1>5. /\ Len(b) \in Nat /\ Len(s) \in Nat /\ Len(t) \in Nat
      /\ \A k \in 1 .. q : k \in 1 .. Len(b) /\ k \in 1 .. Len(s) /\ k \in 1 .. Len(t)
  <2>1. /\ Len(b) \in Nat /\ Len(s) \in Nat /\ Len(t) \in Nat
        /\ q <= Len(b) /\ q <= Len(s) /\ q <= Len(t) /\ q \in Nat
    BY <1>2, <1>3
  <2>2. QED BY <2>1
<1>6. ASSUME NEW k \in 1 .. q
      PROVE  /\ s[Len(s) - k + 1] = b[Len(b) - k + 1]
             /\ t[Len(t) - k + 1] = b[Len(b) - k + 1]
  <2>1. /\ Reverse(b)[k] = b[Len(b) - k + 1] /\ Reverse(s)[k] = s[Len(s) - k + 1]
        /\ Reverse(t)[k] = t[Len(t) - k + 1]
    BY <1>2, <1>5
  <2>2. QED BY <1>3, <2>1
<1>7. Agree(s, b, p, q) /\ Agree(t, b, p, q) /\ Agree(s, t, p, q)
  BY <1>1, <1>4, <1>6 DEF Agree
<1>8. QED BY <1>1, <1>3, <1>7 DEF p, q

\* The merge keeps the lines of both branches.
LEMMA MergeKeepsBoth ==
    ASSUME NEW E, NEW b \in Seq(E), NEW s \in Seq(E), NEW t \in Seq(E),
           Head1 \in E, Between \in E, Tail2 \in E, b # s, b # t,
           \A f \in {b, s, t} : PrefixCount(b, s, t) + SuffixCount(b, s, t) <= Len(f)
    PROVE  ToSet(s) \cup ToSet(t) \subseteq ToSet(ThreeWayMergeWithBase(b, s, t))
<1> DEFINE p == PrefixCount(b, s, t)
           q == SuffixCount(b, s, t)
           mb == MiddleOf(b, p, q)
           m1 == MiddleOf(s, p, q)
           m2 == MiddleOf(t, p, q)
           first == SubSeq(b, 1, p)
           last == SubSeq(b, Len(b) - q + 1, Len(b))
           merged == ThreeWayMergeWithBase(b, s, t)
<1>1. /\ p \in Nat /\ q \in Nat /\ Agree(s, b, p, q) /\ Agree(t, b, p, q) /\ Agree(s, t, p, q)
  BY BranchesAgree
<1>2. CASE s = t
  <2>1. merged = s
    BY <1>2 DEF ThreeWayMergeWithBase
  <2>2. QED BY <1>2, <2>1
<1>3. CASE s # t
  <2>1. mb # m1 /\ mb # m2 /\ m1 # m2
    <3> HIDE DEF p, q
    <3>1. QED BY <1>1, <1>3, SameMiddle
  <2>2. merged = first \o <<Head1>> \o m1 \o <<Between>> \o m2 \o <<Tail2>> \o last
    BY <1>3, <2>1 DEF ThreeWayMergeWithBase
  <2>3. first \in Seq(E) /\ last \in Seq(E)
    <3> HIDE DEF p, q
    <3>1. QED BY <1>1, LinesOfBranch
  <2>4. m1 \in Seq(E) /\ m2 \in Seq(E)
    <3>1. p + q <= Len(s) /\ p + q <= Len(t)
      OBVIOUS
    <3> HIDE DEF p, q
    <3>2. QED BY <1>1, <3>1, MiddleFacts
  <2>5. /\ ToSet(s) \subseteq ToSet(first) \cup ToSet(m1) \cup ToSet(last)
        /\ ToSet(t) \subseteq ToSet(first) \cup ToSet(m2) \cup ToSet(last)
    <3> HIDE DEF p, q
    <3>1. QED BY <1>1, LinesOfBranch
  <2> DEFINE ours == <<Head1>>
             theirs == <<Between>>
             end == <<Tail2>>
  <2>6. ours \in Seq(E) /\ theirs \in Seq(E) /\ end \in Seq(E)
    OBVIOUS
  <2> HIDE DEF first, last, m1, m2, merged, ours, theirs, end
  <2> DEFINE c1 == first \o ours
             c2 == c1 \o m1
             c3 == c2 \o theirs
             c4 == c3 \o m2
             c5 == c4 \o end
  <2>7. c1 \in Seq(E) /\ ToSet(first) \subseteq ToSet(c1)
    <3>1. c1 \in Seq(E) /\ ToSet(c1) = ToSet(first) \cup ToSet(ours)
      BY <2>3, <2>6, ToSetConcat
    <3> HIDE DEF c1
    <3>2. QED BY <3>1
  <2> HIDE DEF c1
  <2>8. c2 \in Seq(E) /\ ToSet(first) \cup ToSet(m1) \subseteq ToSet(c2)
    <3>1. c2 \in Seq(E) /\ ToSet(c2) = ToSet(c1) \cup ToSet(m1)
      BY <2>4, <2>7, ToSetConcat
    <3> HIDE DEF c2
    <3>2. QED BY <2>7, <3>1
  <2> HIDE DEF c2
  <2>9. c3 \in Seq(E) /\ ToSet(first) \cup ToSet(m1) \subseteq ToSet(c3)
    <3>1. c3 \in Seq(E) /\ ToSet(c3) = ToSet(c2) \cup ToSet(theirs)
      BY <2>6, <2>8, ToSetConcat
    <3> HIDE DEF c3
    <3>2. QED BY <2>8, <3>1
  <2> HIDE DEF c3
  <2>10. c4 \in Seq(E) /\ ToSet(first) \cup ToSet(m1) \cup ToSet(m2) \subseteq ToSet(c4)
    <3>1. c4 \in Seq(E) /\ ToSet(c4) = ToSet(c3) \cup ToSet(m2)
      BY <2>4, <2>9, ToSetConcat
    <3> HIDE DEF c4
    <3>2. QED BY <2>9, <3>1
  <2> HIDE DEF c4
  <2>11. c5 \in Seq(E) /\ ToSet(first) \cup ToSet(m1) \cup ToSet(m2) \subseteq ToSet(c5)
    <3>1. c5 \in Seq(E) /\ ToSet(c5) = ToSet(c4) \cup ToSet(end)
      BY <2>6, <2>10, ToSetConcat
    <3> HIDE DEF c5
    <3>2. QED BY <2>10, <3>1
  <2> HIDE DEF c5
  <2>12. merged = c5 \o last
    BY <2>2 DEF c1, c2, c3, c4, c5, ours, theirs, end
  <2>13. ToSet(first) \cup ToSet(m1) \cup ToSet(m2) \cup ToSet(last) \subseteq ToSet(merged)
    <3>1. ToSet(merged) = ToSet(c5) \cup ToSet(last)
      BY <2>3, <2>11, <2>12, ToSetConcat
    <3>2. QED BY <2>11, <3>1
  <2>14. ToSet(s) \cup ToSet(t) \subseteq ToSet(merged)
    BY <2>5, <2>13
  <2>15. QED BY <2>14 DEF merged
<1>4. QED BY <1>2, <1>3

\* The three files are sequences of lines.
MergeInv == base \in Seq(Lines) /\ branch1 \in Seq(Lines) /\ branch2 \in Seq(Lines)

LEMMA MergeInvHolds == MergeSpec => []MergeInv
<1>1. MergeInit => MergeInv
  BY DEF MergeInit, MergeInv
<1>2. MergeInv /\ [MergeNext]_mergeVars => MergeInv'
  <2>1. ASSUME NEW n \in Nat, NEW f \in FilesUpTo(n)
        PROVE  f \in Seq(Lines)
    <3>1. PICK k \in 1 .. n : f \in [1 .. k -> Lines]
      BY <2>1 DEF FilesUpTo
    <3>2. k \in Nat
      OBVIOUS
    <3>3. QED BY <3>1, <3>2, SeqDef
  <2>2. MergeNext => MergeInv'
    BY <2>1, LineMergeAssumption DEF MergeNext, MergeInv
  <2>3. QED BY <2>2 DEF MergeInv, mergeVars
<1>3. QED BY <1>1, <1>2, PTL DEF MergeSpec

\* When both branches changed the base, the merge keeps all lines of both, for
\* files of any length and any lines, unless prefix and suffix overlap.
THEOREM BothBranchesKeptHolds == MergeSpec => []BothBranchesKept
<1>1. MergeInv => BothBranchesKept
  <2> DEFINE n == PrefixCount(base, branch1, branch2) + SuffixCount(base, branch1, branch2)
             E == Lines \cup {Head1, Between, Tail2}
  <2> SUFFICES ASSUME MergeInv, base # branch1, base # branch2,
                      \A f \in {base, branch1, branch2} : n <= Len(f)
               PROVE  ToSet(branch1) \cup ToSet(branch2)
                        \subseteq ToSet(ThreeWayMergeWithBase(base, branch1, branch2))
    BY DEF BothBranchesKept
  <2>1. /\ Head1 \in E /\ Between \in E /\ Tail2 \in E
        /\ base \in Seq(E) /\ branch1 \in Seq(E) /\ branch2 \in Seq(E)
    <3>1. Lines \subseteq E
      OBVIOUS
    <3>2. Seq(Lines) \subseteq Seq(E)
      BY <3>1, SeqMonotonic
    <3>3. QED BY <3>2 DEF MergeInv
  <2> HIDE DEF E
  <2>2. QED BY <2>1, MergeKeepsBoth
<1>2. QED BY <1>1, MergeInvHolds, PTL

-----------------------------------------------------------------------------
(* The merge of two files without a base.                                   *)

\* What is picked is a sequence, and every element of a place that is picked is
\* in it: no two places have as many places up to them.
LEMMA PickedElements ==
    ASSUME NEW s, NEW places, places \subseteq Nat, IsFiniteSet(places)
    PROVE  /\ \E E : ElementsAt(s, places) \in Seq(E)
           /\ \A i \in places : s[i] \in ToSet(ElementsAt(s, places))
<1> DEFINE UpTo(i) == {j \in places : j <= i}
           n == Cardinality(places)
           place(k) == CHOOSE i \in places : Cardinality(UpTo(i)) = k
           picked == ElementsAt(s, places)
<1>1. n \in Nat
  BY FS_CardinalityType
<1>2. picked = [k \in 1 .. n |-> s[place(k)]]
  BY DEF ElementsAt
<1> HIDE DEF n, picked
<1>3. \E E : picked \in Seq(E)
  <2> DEFINE E == {s[place(k)] : k \in 1 .. n}
  <2>1. picked \in [1 .. n -> E]
    BY <1>2
  <2>2. picked \in Seq(E)
    <3> HIDE DEF E
    <3>1. QED BY <1>1, <2>1, SeqDef
  <2>3. QED BY <2>2
<1>4. ASSUME NEW i \in places
      PROVE  Cardinality(UpTo(i)) \in 1 .. n
  <2>1. /\ UpTo(i) \subseteq places /\ i \in UpTo(i)
    OBVIOUS
  <2> HIDE DEF UpTo
  <2>2. IsFiniteSet(UpTo(i)) /\ Cardinality(UpTo(i)) <= n
    BY <2>1, FS_Subset DEF n
  <2>3. Cardinality(UpTo(i)) \in Nat /\ Cardinality(UpTo(i)) # 0
    BY <2>1, <2>2, FS_CardinalityType, FS_EmptySet
  <2>4. QED BY <1>1, <2>2, <2>3
<1>5. ASSUME NEW i \in places, NEW j \in places, i < j
      PROVE  Cardinality(UpTo(i)) # Cardinality(UpTo(j))
  <2>1. /\ UpTo(i) \subseteq UpTo(j) /\ j \in UpTo(j) /\ j \notin UpTo(i)
        /\ UpTo(j) \subseteq places
    <3>1. i \in Nat /\ j \in Nat
      OBVIOUS
    <3>2. \A k \in Nat : k <= i => k <= j
      BY <1>5, <3>1
    <3>3. ~(j <= i)
      BY <1>5, <3>1
    <3>4. UpTo(i) \subseteq UpTo(j)
      BY <3>2
    <3>5. j <= j
      BY <3>1
    <3>6. QED BY <3>3, <3>4, <3>5
  <2> HIDE DEF UpTo
  <2>2. IsFiniteSet(UpTo(j))
    BY <2>1, FS_Subset
  <2>3. Cardinality(UpTo(j)) = Cardinality(UpTo(i)) => UpTo(j) = UpTo(i)
    BY <2>1, <2>2, FS_Subset
  <2>4. QED BY <2>1, <2>3
<1>6. ASSUME NEW i \in places
      PROVE  place(Cardinality(UpTo(i))) = i
  <2> DEFINE k == Cardinality(UpTo(i))
  <2>1. \E j \in places : Cardinality(UpTo(j)) = k
    OBVIOUS
  <2>2. place(k) \in places /\ Cardinality(UpTo(place(k))) = k
    BY <2>1
  <2> HIDE DEF UpTo, place
  <2>3. ~(place(k) < i) /\ ~(i < place(k))
    BY <1>5, <2>2
  <2>4. place(k) \in Nat /\ i \in Nat
    BY <2>2
  <2>5. QED BY <2>3, <2>4
<1>7. ASSUME NEW i \in places
      PROVE  s[i] \in ToSet(picked)
  <2> DEFINE k == Cardinality(UpTo(i))
  <2>1. k \in 1 .. n /\ place(k) = i
    BY <1>4, <1>6
  <2> HIDE DEF k, place
  <2>2. k \in DOMAIN picked /\ picked[k] = s[i]
    BY <1>2, <2>1
  <2>3. QED BY <2>2 DEF ToSet
<1>8. QED BY <1>3, <1>7 DEF picked
\* What two files have in common at their begin and at their end.
LEMMA CommonEnds ==
    ASSUME NEW E, NEW s \in Seq(E), NEW t \in Seq(E)
    PROVE  LET p == FindCommonPrefix(s, t)
               q == FindCommonSuffix(s, t)
           IN  /\ p \in Seq(E) /\ q \in Seq(E)
               /\ \A f \in {s, t} :
                     /\ Len(p) <= Len(f) /\ Len(q) <= Len(f)
                     /\ \A k \in 1 .. Len(p) : p[k] = f[k]
                     /\ \A k \in 1 .. Len(q) : q[k] = f[Len(f) - Len(q) + k]
<1> DEFINE p == FindCommonPrefix(s, t)
           q == FindCommonSuffix(s, t)
           r == FindCommonPrefix(Reverse(s), Reverse(t))
<1>1. ASSUME NEW x \in Seq(E), NEW y \in Seq(E)
      PROVE  /\ FindCommonPrefix(x, y) \in Seq(E) /\ Len(FindCommonPrefix(x, y)) \in Nat
             /\ \A w \in {x, y} :
                   /\ Len(FindCommonPrefix(x, y)) <= Len(w)
                   /\ \A k \in 1 .. Len(FindCommonPrefix(x, y)) :
                         w[k] = FindCommonPrefix(x, y)[k]
  <2> DEFINE S == {x, y}
  <2>1. S \subseteq Seq(E) /\ S # {}
    BY <1>1
  <2> HIDE DEF S
  <2>2. LET c == LongestCommonPrefix(S)
        IN  /\ c \in Seq(E) /\ Len(c) \in Nat
            /\ \A w \in S : Len(c) <= Len(w) /\ \A k \in 1 .. Len(c) : w[k] = c[k]
    BY <2>1, EachBeginsWith
  <2>3. QED BY <2>2 DEF S, FindCommonPrefix
<1>2. \A f \in {s, t} :
         /\ Reverse(f) \in Seq(E) /\ Len(Reverse(f)) = Len(f) /\ Len(f) \in Nat
         /\ \A k \in 1 .. Len(f) : Reverse(f)[k] = f[Len(f) - k + 1]
  BY ReverseFacts
<1>3. /\ r \in Seq(E) /\ Len(r) \in Nat
      /\ \A f \in {s, t} : Len(r) <= Len(f) /\ \A k \in 1 .. Len(r) : Reverse(f)[k] = r[k]
  <2>1. Reverse(s) \in Seq(E) /\ Reverse(t) \in Seq(E)
    BY <1>2
  <2>2. /\ r \in Seq(E) /\ Len(r) \in Nat
        /\ \A w \in {Reverse(s), Reverse(t)} :
              Len(r) <= Len(w) /\ \A k \in 1 .. Len(r) : w[k] = r[k]
    BY <1>1, <2>1
  <2> HIDE DEF r
  <2>3. QED BY <1>2, <2>2
<1>4. q = Reverse(r)
  BY DEF FindCommonSuffix
<1> HIDE DEF q, r
<1>5. /\ q \in Seq(E) /\ Len(q) = Len(r)
      /\ \A k \in 1 .. Len(r) : q[k] = r[Len(r) - k + 1]
  BY <1>3, <1>4, ReverseFacts
<1>6. ASSUME NEW f \in {s, t}, NEW k \in 1 .. Len(q)
      PROVE  q[k] = f[Len(f) - Len(q) + k]
  <2> DEFINE j == Len(r) - k + 1
  <2>1. Len(f) \in Nat /\ Len(r) \in Nat /\ Len(r) <= Len(f) /\ Len(q) = Len(r)
    BY <1>2, <1>3, <1>5
  <2>2. j \in 1 .. Len(r) /\ j \in 1 .. Len(f) /\ Len(f) - j + 1 = Len(f) - Len(q) + k
    BY <2>1
  <2>3. q[k] = r[j]
    BY <1>5, <2>1
  <2> HIDE DEF j
  <2>4. r[j] = Reverse(f)[j]
    BY <1>3, <2>2
  <2>5. Reverse(f)[j] = f[Len(f) - j + 1]
    BY <1>2, <2>2
  <2>6. QED BY <2>2, <2>3, <2>4, <2>5
<1>7. /\ p \in Seq(E)
      /\ \A f \in {s, t} : Len(p) <= Len(f) /\ \A k \in 1 .. Len(p) : p[k] = f[k]
  BY <1>1
<1>8. \A f \in {s, t} : Len(q) <= Len(f)
  BY <1>3, <1>5
<1>9. QED BY <1>5, <1>6, <1>7, <1>8 DEF p, q

\* A file has no lines but those at its begin, at its end and between, also when
\* begin and end overlap.
LEMMA LinesOfFile ==
    ASSUME NEW E, NEW s \in Seq(E), NEW p \in Seq(E), NEW q \in Seq(E),
           Len(p) <= Len(s), Len(q) <= Len(s),
           \A k \in 1 .. Len(p) : p[k] = s[k],
           \A k \in 1 .. Len(q) : q[k] = s[Len(s) - Len(q) + k]
    PROVE  LET m == MiddleOf(s, Len(p), Len(q))
           IN  /\ m \in Seq(E)
               /\ ToSet(m) \subseteq ToSet(s)
               /\ ToSet(s) \subseteq ToSet(p) \cup ToSet(m) \cup ToSet(q)
<1> DEFINE m == MiddleOf(s, Len(p), Len(q))
           a == Len(p) + 1
           b == Len(s) - Len(q)
<1>1. /\ Len(s) \in Nat /\ Len(p) \in Nat /\ Len(q) \in Nat /\ a \in Int /\ b \in Int
      /\ \A i \in a .. b : i \in 1 .. Len(s)
  OBVIOUS
<1>2. \A i \in a .. b : s[i] \in E
  BY <1>1
<1>3. m = SubSeq(s, a, b)
  BY DEF MiddleOf
<1>4. a = Len(p) + 1 /\ b = Len(s) - Len(q)
  OBVIOUS
<1> HIDE DEF m, a, b
<1>5. /\ m \in Seq(E) /\ Len(m) = (IF a <= b THEN b - a + 1 ELSE 0)
      /\ \A i \in 1 .. b - a + 1 : m[i] = s[a + i - 1]
  BY <1>1, <1>2, <1>3, SubSeqProperties
<1>6. /\ DOMAIN s = 1 .. Len(s) /\ DOMAIN p = 1 .. Len(p) /\ DOMAIN q = 1 .. Len(q)
      /\ DOMAIN m = 1 .. Len(m)
  BY <1>5, LenProperties
<1>7. DOMAIN m = 1 .. b - a + 1
  <2>1. CASE a <= b
    BY <1>5, <1>6, <2>1
  <2>2. CASE ~(a <= b)
    <3>1. Len(m) = 0 /\ \A i : ~(i \in 1 .. b - a + 1) /\ ~(i \in 1 .. 0)
      BY <1>1, <1>5, <2>2
    <3>2. QED BY <1>6, <3>1
  <2>3. QED BY <2>1, <2>2
<1>8. ToSet(m) \subseteq ToSet(s)
  <2>1. ASSUME NEW i \in 1 .. b - a + 1
        PROVE  m[i] \in ToSet(s)
    <3>1. a + i - 1 \in a .. b
      BY <1>1
    <3>2. QED BY <1>1, <1>5, <1>6, <3>1 DEF ToSet
  <2>2. QED BY <1>7, <2>1 DEF ToSet
<1>9. ASSUME NEW i \in 1 .. Len(s)
      PROVE  s[i] \in ToSet(p) \cup ToSet(m) \cup ToSet(q)
  <2>1. CASE i <= Len(p)
    <3>1. i \in 1 .. Len(p)
      BY <1>1, <2>1
    <3>2. p[i] = s[i]
      BY <3>1
    <3>3. QED BY <1>6, <3>1, <3>2 DEF ToSet
  <2>2. CASE i > Len(p) /\ i <= b
    <3>1. i - a + 1 \in 1 .. b - a + 1 /\ a + (i - a + 1) - 1 = i
      BY <1>1, <1>4, <2>2
    <3>2. m[i - a + 1] = s[i]
      BY <1>5, <3>1
    <3>3. QED BY <1>7, <3>1, <3>2 DEF ToSet
  <2>3. CASE i > b
    <3>1. i - b \in 1 .. Len(q) /\ Len(s) - Len(q) + (i - b) = i
      BY <1>1, <1>4, <2>3
    <3>2. q[i - b] = s[i]
      BY <3>1
    <3>3. QED BY <1>6, <3>1, <3>2 DEF ToSet
  <2>4. QED BY <1>1, <2>1, <2>2, <2>3
<1>10. ToSet(s) \subseteq ToSet(p) \cup ToSet(m) \cup ToSet(q)
  BY <1>6, <1>9 DEF ToSet
<1>11. QED BY <1>5, <1>8, <1>10 DEF m

\* The same for sequences over different sets.
LEMMA ToSetOfBoth ==
    ASSUME NEW E, NEW F, NEW u \in Seq(E), NEW v \in Seq(F)
    PROVE  (\E G : u \o v \in Seq(G)) /\ ToSet(u \o v) = ToSet(u) \cup ToSet(v)
<1>1. Seq(E) \subseteq Seq(E \cup F) /\ Seq(F) \subseteq Seq(E \cup F)
  BY SeqMonotonic
<1>2. u \in Seq(E \cup F) /\ v \in Seq(E \cup F)
  BY <1>1
<1>3. QED BY <1>2, ToSetConcat

\* Where both files changed, all lines of the second are kept, and of the first
\* all but those taken for older forms of a line of the second.
LEMMA ChangesKept ==
    ASSUME NEW E, NEW s \in Seq(E), NEW t \in Seq(E), NEW suffix
    PROVE  LET m == MergeChanges(s, t, suffix)
           IN  /\ \E F : m \in Seq(F)
               /\ ToSet(t) \subseteq ToSet(m)
               /\ \A l \in ToSet(s) : l \in ToSet(m) \/ IsModificationOf(l, t)
<1> DEFINE m == MergeChanges(s, t, suffix)
           places == {i \in DOMAIN s : s[i] \notin ToSet(t) /\ ~IsModificationOf(s[i], t)}
           unique == ElementsAt(s, places)
           goal == /\ \E F : m \in Seq(F)
                   /\ ToSet(t) \subseteq ToSet(m)
                   /\ \A l \in ToSet(s) : l \in ToSet(m) \/ IsModificationOf(l, t)
<1> SUFFICES goal
  OBVIOUS
<1>1. CASE ToSet(s) \cap ToSet(t) # {}
  <2>1. m = t \o unique
    BY <1>1 DEF MergeChanges
  <2>2. Len(s) \in Nat /\ DOMAIN s = 1 .. Len(s)
    BY LenProperties
  <2>3. places \subseteq Nat /\ IsFiniteSet(places)
    <3>1. IsFiniteSet(1 .. Len(s))
      BY <2>2, FS_Interval
    <3>2. QED BY <2>2, <3>1, FS_Subset
  <2>4. (\E F : unique \in Seq(F)) /\ \A i \in places : s[i] \in ToSet(unique)
    <3> HIDE DEF places
    <3>1. QED BY <2>3, PickedElements
  <2> HIDE DEF unique, m
  <2>5. PICK F : unique \in Seq(F)
    BY <2>4
  <2>6. (\E G : m \in Seq(G)) /\ ToSet(m) = ToSet(t) \cup ToSet(unique)
    BY <2>1, <2>5, ToSetOfBoth
  <2>7. ASSUME NEW i \in DOMAIN s
        PROVE  s[i] \in ToSet(m) \/ IsModificationOf(s[i], t)
    BY <2>4, <2>6
  <2>8. \A l \in ToSet(s) : l \in ToSet(m) \/ IsModificationOf(l, t)
    BY <2>7 DEF ToSet
  <2>9. QED BY <2>6, <2>8
<1>2. CASE ToSet(s) \cap ToSet(t) = {} /\ suffix # <<>>
  <2> DEFINE G == E \cup {Head1, Between, Tail2}
             ours == <<Head1>>
             theirs == <<Between>>
             end == <<Tail2>>
  <2>1. m = ours \o s \o theirs \o t \o end
    BY <1>2 DEF MergeChanges
  <2>2. /\ ours \in Seq(G) /\ theirs \in Seq(G) /\ end \in Seq(G)
        /\ s \in Seq(G) /\ t \in Seq(G)
    <3>1. Seq(E) \subseteq Seq(G)
      BY SeqMonotonic
    <3>2. QED BY <3>1
  <2> HIDE DEF ours, theirs, end, G, m
  <2> DEFINE b == ours \o s
             c == b \o theirs
             d == c \o t
  <2>3. b \in Seq(G) /\ ToSet(s) \subseteq ToSet(b)
    BY <2>2, ToSetConcat
  <2> HIDE DEF b
  <2>4. c \in Seq(G) /\ ToSet(s) \subseteq ToSet(c)
    BY <2>2, <2>3, ToSetConcat
  <2> HIDE DEF c
  <2>5. d \in Seq(G) /\ ToSet(s) \subseteq ToSet(d) /\ ToSet(t) \subseteq ToSet(d)
    BY <2>2, <2>4, ToSetConcat
  <2> HIDE DEF d
  <2>6. m = d \o end
    BY <2>1 DEF b, c, d
  <2>7. m \in Seq(G) /\ ToSet(s) \subseteq ToSet(m) /\ ToSet(t) \subseteq ToSet(m)
    BY <2>2, <2>5, <2>6, ToSetConcat
  <2>8. QED BY <2>7
<1>3. CASE ToSet(s) \cap ToSet(t) = {} /\ suffix = <<>>
  <2>1. m = s \o t
    BY <1>3 DEF MergeChanges, AtTheEnd
  <2> HIDE DEF m
  <2>2. m \in Seq(E) /\ ToSet(m) = ToSet(s) \cup ToSet(t)
    BY <2>1, ToSetConcat
  <2>3. QED BY <2>2
<1> HIDE DEF goal
<1>4. QED BY <1>1, <1>2, <1>3

\* The merge of two files.
LEMMA MergeLosesNothing ==
    ASSUME NEW E, NEW s \in Seq(E), NEW t \in Seq(E)
    PROVE  \A l \in ToSet(s) \cup ToSet(t) :
              \/ l \in ToSet(MergeLinesDiff(s, t))
              \/ l \in ToSet(s) /\ IsModificationOf(l, t)
<1> DEFINE p == FindCommonPrefix(s, t)
           q == FindCommonSuffix(s, t)
           m1 == MiddleOf(s, Len(p), Len(q))
           m2 == MiddleOf(t, Len(p), Len(q))
           changes == IF m1 = <<>> \/ m2 = <<>> THEN m1 \o m2 ELSE MergeChanges(m1, m2, q)
           merged == MergeLinesDiff(s, t)
<1>1. merged = p \o changes \o q
  BY DEF MergeLinesDiff
<1>2. /\ p \in Seq(E) /\ q \in Seq(E)
      /\ \A f \in {s, t} :
            /\ Len(p) <= Len(f) /\ Len(q) <= Len(f)
            /\ \A k \in 1 .. Len(p) : p[k] = f[k]
            /\ \A k \in 1 .. Len(q) : q[k] = f[Len(f) - Len(q) + k]
  BY CommonEnds
<1> HIDE DEF p, q
<1>3. /\ m1 \in Seq(E) /\ ToSet(s) \subseteq ToSet(p) \cup ToSet(m1) \cup ToSet(q)
      /\ m2 \in Seq(E) /\ ToSet(t) \subseteq ToSet(p) \cup ToSet(m2) \cup ToSet(q)
      /\ ToSet(m2) \subseteq ToSet(t)
  BY <1>2, LinesOfFile
<1>4. /\ \E F : changes \in Seq(F)
      /\ ToSet(m2) \subseteq ToSet(changes)
      /\ \A l \in ToSet(m1) : l \in ToSet(changes) \/ IsModificationOf(l, m2)
  <2> HIDE DEF m1, m2
  <2>1. CASE m1 = <<>> \/ m2 = <<>>
    <3>1. changes = m1 \o m2
      BY <2>1
    <3> HIDE DEF changes
    <3>2. changes \in Seq(E) /\ ToSet(changes) = ToSet(m1) \cup ToSet(m2)
      BY <1>3, <3>1, ToSetConcat
    <3>3. QED BY <3>2
  <2>2. CASE ~(m1 = <<>> \/ m2 = <<>>)
    <3>1. changes = MergeChanges(m1, m2, q)
      BY <2>2
    <3> HIDE DEF changes
    <3>2. QED BY <1>3, <3>1, ChangesKept
  <2>3. QED BY <2>1, <2>2
<1> HIDE DEF changes, m1, m2, merged
<1>5. PICK F : changes \in Seq(F)
  BY <1>4
<1>6. ToSet(merged) = ToSet(p) \cup ToSet(changes) \cup ToSet(q)
  <2> DEFINE c == p \o changes
  <2>1. (\E G : c \in Seq(G)) /\ ToSet(c) = ToSet(p) \cup ToSet(changes)
    BY <1>2, <1>5, ToSetOfBoth
  <2>2. merged = c \o q
    BY <1>1
  <2> HIDE DEF c
  <2>3. ToSet(merged) = ToSet(c) \cup ToSet(q)
    BY <1>2, <2>1, <2>2, ToSetOfBoth
  <2>4. QED BY <2>1, <2>3
<1>7. ASSUME NEW l, IsModificationOf(l, m2)
      PROVE  IsModificationOf(l, t)
  BY <1>3, <1>7 DEF IsModificationOf
<1>8. QED BY <1>3, <1>4, <1>6, <1>7 DEF merged

\* A merge without base loses no line of the two files, whatever lines they have
\* and however long they are, but those of the first that have the label of a
\* line of the second.
THEOREM NoLineLostHolds == MergeSpec => []NoLineLost
<1>1. MergeInv => NoLineLost
  BY MergeLosesNothing DEF MergeInv, NoLineLost
<1>2. QED BY <1>1, MergeInvHolds, PTL
=============================================================================
