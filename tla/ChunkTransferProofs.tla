------------------------- MODULE ChunkTransferProofs -------------------------
(***************************************************************************)
(* The acknowledgment protocol and the assembly of chunks, for every set   *)
(* of transfers, every number of chunks and attempts, and every pattern of *)
(* losses and delays.                                                      *)
(***************************************************************************)
EXTENDS TLAPS, ChunkTransfer

\* The assembly of as many chunks as a file has, with contiguous offsets and
\* the hash of the file, is the file.
LEMMA AssembledIsFile ==
    ASSUME NEW t \in Transfers, NEW list \in Seq(Chunks),
           Len(list) = TotalChunks[t], AssembleChunks(list, t)
    PROVE  Data(list) = FileOf(t)
<1> USE TransferAssumption
<1>1. ASSUME NEW i \in 1 .. Len(list)
      PROVE  list[i] = ChunkOf(t, list[i].id)
  <2>1. list[i] \in Chunks /\ list[i].t = t
    BY <1>1 DEF AssembleChunks
  <2>2. QED BY <2>1 DEF Chunks, ChunkOf
<1>2. \A i \in 1 .. Len(list) : list[i].id \in 1 .. TotalChunks[t]
  BY DEF AssembleChunks
<1>3. Data(list) \subseteq FileOf(t)
  BY <1>1, <1>2 DEF Data, FileOf
<1>4. ASSUME NEW k \in 1 .. TotalChunks[t]
      PROVE  ChunkOf(t, k) \in Data(list)
  <2>1. PICK i \in 1 .. Len(list) : list[i].id = k
    BY <1>4 DEF AssembleChunks
  <2>2. QED BY <1>1, <2>1 DEF Data
<1>5. QED BY <1>3, <1>4 DEF FileOf

\* What a step of one call must keep to preserve the invariant.
LEMMA CallStep ==
    ASSUME TransferInv, NEW t \in Transfers, NEW s \in Calls,
           s.item \in Items(t), snd' = [snd EXCEPT ![t] = s],
           handled' = handled,
           \A i \in Items(t) :
               i < s.item \/ s.pc = "done" => <<t, i>> \in handled
    PROVE  /\ snd' \in [Transfers -> Calls]
           /\ \A u \in Transfers : snd'[u].item \in Items(u)
           /\ AckedWasHandled'
<1>1. snd \in [Transfers -> Calls]
  BY DEF TransferInv, TypeOK
<1>2. \A u \in Transfers : snd'[u] = IF u = t THEN s ELSE snd[u]
  BY <1>1
<1>3. QED BY <1>1, <1>2 DEF TransferInv, TypeOK, AckedWasHandled

\* The rest of the invariant does not look at the calls.
LEMMA CallFrame ==
    ASSUME TransferInv,
           snd' \in [Transfers -> Calls],
           \A u \in Transfers : snd'[u].item \in Items(u),
           AckedWasHandled', net' \subseteq Messages, acks' \subseteq acks,
           losses' \in 0 .. MaxLoss, late' \in 0 .. MaxLate,
           UNCHANGED <<meta, chunks, asm, delivered, handled>>
    PROVE  TransferInv'
<1>1. TypeOK'
  BY DEF TransferInv, TypeOK
<1>2. QED BY <1>1 DEF TransferInv, WholeFiles

\* The states a call moves to at the same item.
LEMMA SameItem ==
    ASSUME TransferInv, NEW t \in Transfers, NEW s \in Calls,
           s.item = snd[t].item, s.pc # "done"
    PROVE  /\ s.item \in Items(t)
           /\ \A i \in Items(t) :
                i < s.item \/ s.pc = "done" => <<t, i>> \in handled
BY DEF TransferInv, TypeOK, AckedWasHandled

\* A new attempt is at the same item.
LEMMA NextAttemptCall ==
    ASSUME NEW s \in Calls
    PROVE  /\ NextAttempt(s) \in Calls
           /\ NextAttempt(s).item = s.item
           /\ NextAttempt(s).pc # "done"
<1> USE TransferAssumption
<1>0. s.attempt \in 1 .. RetryCount
  BY DEF Calls
<1>1. CASE s.attempt < RetryCount
  <2> DEFINE n == [s EXCEPT !.pc = "send", !.attempt = @ + 1]
  <2>1. NextAttempt(s) = n
    BY <1>1 DEF NextAttempt
  <2>2. s.attempt + 1 \in 1 .. RetryCount
    BY <1>0, <1>1
  <2>3. n \in Calls /\ n.item = s.item /\ n.pc = "send"
    BY <2>2 DEF Calls
  <2>4. QED BY <2>1, <2>3
<1>2. CASE ~(s.attempt < RetryCount)
  <2> DEFINE n == [s EXCEPT !.pc = "failed"]
  <2>1. NextAttempt(s) = n
    BY <1>2 DEF NextAttempt
  <2>2. n \in Calls /\ n.item = s.item /\ n.pc = "failed"
    BY DEF Calls
  <2>3. QED BY <2>1, <2>2
<1>3. QED BY <1>1, <1>2

\* Moving a call to another state of the code.
LEMMA MovedCall ==
    ASSUME NEW s \in Calls, NEW pc \in {"send", "wait", "done", "failed"}
    PROVE  /\ [s EXCEPT !.pc = pc] \in Calls
           /\ [s EXCEPT !.pc = pc].item = s.item
           /\ [s EXCEPT !.pc = pc].pc = pc
BY DEF Calls

\* Steps of a sender.
LEMMA SenderInv ==
    ASSUME TransferInv, NEW t \in Transfers, StartTransfer(t) \/ Sender(t)
    PROVE  TransferInv'
<1> USE TransferAssumption
<1>0. /\ snd \in [Transfers -> Calls] /\ snd[t] \in Calls
      /\ net \subseteq Messages /\ losses \in 0 .. MaxLoss
      /\ late \in 0 .. MaxLate
  BY DEF TransferInv, TypeOK
<1>m. ASSUME NEW pc \in {"send", "wait", "failed"},
             snd' = [snd EXCEPT ![t].pc = pc], handled' = handled
      PROVE  /\ snd' \in [Transfers -> Calls]
             /\ \A u \in Transfers : snd'[u].item \in Items(u)
             /\ AckedWasHandled'
  <2> DEFINE s == [snd[t] EXCEPT !.pc = pc]
  <2>1. s \in Calls /\ s.item = snd[t].item /\ s.pc # "done"
    BY <1>0 DEF Calls
  <2>2. snd' = [snd EXCEPT ![t] = s]
    BY <1>m
  <2> HIDE DEF s
  <2>3. QED BY <1>m, <2>1, <2>2, SameItem, CallStep
<1>n. ASSUME snd' = [snd EXCEPT ![t] = NextAttempt(snd[t])],
             handled' = handled
      PROVE  /\ snd' \in [Transfers -> Calls]
             /\ \A u \in Transfers : snd'[u].item \in Items(u)
             /\ AckedWasHandled'
  <2> DEFINE s == NextAttempt(snd[t])
  <2>1. s \in Calls /\ s.item = snd[t].item /\ s.pc # "done"
    BY <1>0, NextAttemptCall
  <2>2. snd' = [snd EXCEPT ![t] = s]
    BY <1>n
  <2> HIDE DEF s
  <2>3. /\ s.item \in Items(t)
        /\ \A i \in Items(t) : i < s.item \/ s.pc = "done" => <<t, i>> \in handled
    BY <2>1, SameItem
  <2>4. QED BY <1>n, <2>1, <2>2, <2>3, CallStep
<1>1. CASE StartTransfer(t)
  BY <1>0, <1>1, <1>m, CallFrame DEF StartTransfer
<1>2. CASE Send(t)
  <2>1. [t |-> t, item |-> snd[t].item, attempt |-> snd[t].attempt]
          \in Messages
    BY <1>0 DEF TransferInv, TypeOK, Messages, Calls
  <2>2. net' \subseteq Messages
    BY <1>0, <1>2, <2>1 DEF Send
  <2>3. QED BY <1>0, <1>2, <1>m, <2>2, CallFrame DEF Send
<1>3. CASE SendFails(t)
  <2>1. losses' \in 0 .. MaxLoss
    BY <1>0, <1>3 DEF SendFails
  <2>2. QED BY <1>0, <1>3, <1>n, <2>1, CallFrame DEF SendFails
<1>4. CASE Disconnected(t)
  <2>1. losses' \in 0 .. MaxLoss
    BY <1>0, <1>4 DEF Disconnected
  <2>2. QED BY <1>0, <1>4, <1>m, <2>1, CallFrame DEF Disconnected
<1>5. CASE Timeout(t)
  <2>1. late' \in 0 .. MaxLate
    BY <1>0, <1>5 DEF Timeout
  <2>2. QED BY <1>0, <1>5, <1>n, <2>1, CallFrame DEF Timeout
<1>6. QED BY <1>1, <1>2, <1>3, <1>4, <1>5 DEF Sender

\* An acknowledgment lets a call go on to its next item only if the current
\* one was handled.
LEMMA AcknowledgmentInv ==
    ASSUME TransferInv, NEW a \in acks, HandleAcknowledgment(a)
    PROVE  TransferInv'
<1> USE TransferAssumption
<1> DEFINE t == a.t
<1>0. /\ snd \in [Transfers -> Calls] /\ net \subseteq Messages
      /\ acks \subseteq Messages
      /\ losses \in 0 .. MaxLoss /\ late \in 0 .. MaxLate
  BY DEF TransferInv, TypeOK
<1>1. t \in Transfers /\ a.item \in Items(t) /\ <<t, a.item>> \in handled
  BY <1>0 DEF TransferInv, Messages
<1>2. snd[t] \in Calls /\ snd[t].item \in Items(t) /\ snd[t].item \in Nat
  BY <1>0, <1>1 DEF TransferInv, TypeOK, Calls
<1>3. \A i \in Items(t) : i < snd[t].item => <<t, i>> \in handled
  BY <1>1 DEF TransferInv, AckedWasHandled
<1>4. CASE ~Awaits(t, a)
  <2>1. snd' = snd /\ handled' = handled
    BY <1>4 DEF HandleAcknowledgment
  <2>2. AckedWasHandled' /\ \A u \in Transfers : snd'[u].item \in Items(u)
    BY <2>1 DEF TransferInv, TypeOK, AckedWasHandled
  <2>3. QED BY <1>0, <2>1, <2>2, CallFrame DEF HandleAcknowledgment
<1>5. CASE Awaits(t, a) /\ snd[t].item = TotalChunks[t]
  <2> DEFINE s == [snd[t] EXCEPT !.pc = "done"]
  <2>1. s \in Calls /\ s.item = snd[t].item
    BY <1>2, MovedCall
  <2>2. snd' = [snd EXCEPT ![t] = s] /\ handled' = handled
    BY <1>5 DEF HandleAcknowledgment
  <2>3. \A i \in Items(t) : <<t, i>> \in handled
    BY <1>1, <1>2, <1>3, <1>5 DEF Awaits, Items
  <2> HIDE DEF s
  <2>4. QED BY <1>0, <1>1, <1>2, <2>1, <2>2, <2>3, CallStep, CallFrame
            DEF HandleAcknowledgment
<1>6. CASE Awaits(t, a) /\ snd[t].item # TotalChunks[t]
  <2> DEFINE s == [pc |-> "send", item |-> snd[t].item + 1, attempt |-> 1]
  <2>1. s \in Calls /\ s.item = snd[t].item + 1 /\ s.pc = "send"
    BY <1>2 DEF Calls
  <2>2. snd' = [snd EXCEPT ![t] = s] /\ handled' = handled
    BY <1>6 DEF HandleAcknowledgment
  <2>3. s.item \in Items(t)
    <3>1. TotalChunks[t] \in Nat
      BY <1>1
    <3>2. snd[t].item \in 0 .. TotalChunks[t]
      BY <1>2 DEF Items
    <3>3. snd[t].item + 1 \in 0 .. TotalChunks[t]
      BY <1>6, <3>1, <3>2
    <3>4. QED BY <2>1, <3>3 DEF Items
  <2>4. \A i \in Items(t) : i < s.item => <<t, i>> \in handled
    BY <1>1, <1>2, <1>3, <1>6, <2>1 DEF Awaits, Items
  <2> HIDE DEF s
  <2>5. QED BY <1>0, <1>1, <2>1, <2>2, <2>3, <2>4, CallStep, CallFrame
            DEF HandleAcknowledgment
<1>7. QED BY <1>4, <1>5, <1>6

\* What sendAcknowledgment does to the invariant.
LEMMA AckSent ==
    ASSUME TransferInv, NEW m \in Messages, sendAcknowledgment(m)
    PROVE  /\ acks' \subseteq Messages
           /\ handled' \subseteq (Transfers \X Nat)
           /\ handled \subseteq handled'
           /\ \A a \in acks' : <<a.t, a.item>> \in handled'
BY DEF TransferInv, TypeOK, sendAcknowledgment, Messages

\* The calls are where they were, and at least as much was handled.
LEMMA HandledGrows ==
    ASSUME TransferInv, snd' = snd, handled \subseteq handled'
    PROVE  /\ snd' \in [Transfers -> Calls]
           /\ \A u \in Transfers : snd'[u].item \in Items(u)
           /\ AckedWasHandled'
BY DEF TransferInv, TypeOK, AckedWasHandled

\* Metadata arrives.
LEMMA SyncOperationInv ==
    ASSUME TransferInv, NEW m \in net, HandleSyncOperation(m)
    PROVE  TransferInv'
<1>0. m \in Messages /\ m.t \in Transfers
  BY DEF TransferInv, TypeOK, Messages
<1>1. /\ sendAcknowledgment(m) /\ net' = net \ {m}
      /\ chunks' = <<>> /\ meta' = m.t
      /\ UNCHANGED <<snd, asm, delivered, losses, late>>
  BY DEF HandleSyncOperation, ClearedChunks
<1>2. chunks' \in Seq(Chunks) /\ meta' \in Transfers \cup {NoOp}
  BY <1>0, <1>1
<1>3. TypeOK'
  BY <1>0, <1>1, <1>2, AckSent, HandledGrows DEF TransferInv, TypeOK
<1>4. WholeFiles'
  BY <1>1 DEF TransferInv, WholeFiles
<1>5. QED BY <1>0, <1>1, <1>3, <1>4, AckSent, HandledGrows DEF TransferInv

\* A chunk arrives.
LEMMA ChunkInv ==
    ASSUME TransferInv, NEW m \in net, HandleChunk(m)
    PROVE  TransferInv'
<1> DEFINE list == Append(chunks, ChunkOf(m.t, m.item))
<1>0. m \in Messages /\ m.t \in Transfers /\ m.item \in Nat
  BY DEF TransferInv, TypeOK, Messages
<1>1. list \in Seq(Chunks)
  BY <1>0 DEF ChunkOf, Chunks, TransferInv, TypeOK
<1> HIDE DEF list
<1>2. WholeFiles'
  BY DEF HandleChunk, TransferInv, WholeFiles
<1>3. CASE Len(list) = TotalChunks[m.t]
  <2> DEFINE c == [msg |-> m, list |-> list]
  <2>1. /\ asm' = asm \cup {c} /\ chunks' = list /\ net' = net \ {m}
        /\ UNCHANGED <<acks, handled, snd, meta, delivered, losses, late>>
    BY <1>3 DEF HandleChunk, list
  <2>2. /\ c \in [msg : Messages, list : Seq(Chunks)]
        /\ Len(c.list) = TotalChunks[c.msg.t]
    BY <1>0, <1>1, <1>3
  <2> HIDE DEF c
  <2>3. TypeOK'
    BY <1>1, <2>1, <2>2 DEF TransferInv, TypeOK
  <2>4. AckedWasHandled'
    BY <2>1, HandledGrows
  <2>5. QED BY <1>2, <2>1, <2>2, <2>3, <2>4 DEF TransferInv
<1>4. CASE Len(list) # TotalChunks[m.t]
  <2>1. /\ sendAcknowledgment(m) /\ chunks' = list /\ net' = net \ {m}
        /\ UNCHANGED <<asm, snd, meta, delivered, losses, late>>
    BY <1>4 DEF HandleChunk, list
  <2>2. TypeOK'
    BY <1>0, <1>1, <2>1, AckSent, HandledGrows DEF TransferInv, TypeOK
  <2>3. QED BY <1>0, <1>2, <2>1, <2>2, AckSent, HandledGrows DEF TransferInv
<1>5. QED BY <1>3, <1>4

\* A list of chunks is assembled, or cannot be.
LEMMA AssembleInv ==
    ASSUME TransferInv, NEW a \in asm, Assemble(a)
    PROVE  TransferInv'
<1>0. /\ a.msg \in Messages /\ a.list \in Seq(Chunks)
      /\ a.msg.t \in Transfers /\ Len(a.list) = TotalChunks[a.msg.t]
  BY DEF TransferInv, TypeOK, Messages
<1>1. /\ sendAcknowledgment(a.msg) /\ asm' = asm \ {a}
      /\ UNCHANGED <<snd, net, losses, late>>
  BY DEF Assemble
<1>2. /\ delivered' \in Seq([op : Transfers \cup {NoOp}, data : SUBSET Chunks])
      /\ chunks' \in Seq(Chunks) /\ meta' \in Transfers \cup {NoOp}
      /\ WholeFiles'
  <2>1. CASE AssembleChunks(a.list, a.msg.t)
    <3> DEFINE d == [op |-> meta, data |-> Data(a.list)]
               D == [op : Transfers \cup {NoOp}, data : SUBSET Chunks]
    <3>1. /\ delivered' = Append(delivered, d)
          /\ chunks' = <<>> /\ meta' = NoOp
      BY <2>1 DEF Assemble
    <3>2. d.data = FileOf(a.msg.t)
      BY <1>0, <2>1, AssembledIsFile
    <3>3. d \in D
      <4>1. Data(a.list) \subseteq Chunks
        BY <1>0 DEF Data
      <4>2. QED BY <4>1 DEF TransferInv, TypeOK
    <3> HIDE DEF d
    <3>4. delivered \in Seq(D)
      BY DEF TransferInv, TypeOK
    <3> HIDE DEF D
    <3>5. delivered' \in Seq(D)
      BY <3>1, <3>3, <3>4
    <3>6. \A i \in 1 .. Len(delivered') :
            \E t \in Transfers : delivered'[i].data = FileOf(t)
      BY <1>0, <3>1, <3>2, <3>3, <3>4 DEF TransferInv, WholeFiles
    <3>7. QED BY <3>1, <3>5, <3>6 DEF WholeFiles, D
  <2>2. CASE ~AssembleChunks(a.list, a.msg.t)
    BY <2>2 DEF Assemble, TransferInv, TypeOK, WholeFiles
  <2>3. QED BY <2>1, <2>2
<1>3. TypeOK'
  BY <1>0, <1>1, <1>2, AckSent, HandledGrows DEF TransferInv, TypeOK
<1>4. QED BY <1>0, <1>1, <1>2, <1>3, AckSent, HandledGrows DEF TransferInv

\* The invariant holds at the start.
LEMMA InitInv == Init => TransferInv
BY TransferAssumption
   DEF Init, TransferInv, TypeOK, AckedWasHandled, WholeFiles, Items, Calls

\* The invariant is inductive.
LEMMA NextInv == TransferInv /\ [Next]_vars => TransferInv'
<1> SUFFICES ASSUME TransferInv, [Next]_vars
             PROVE  TransferInv'
  OBVIOUS
<1>1. ASSUME NEW t \in Transfers, StartTransfer(t) \/ Sender(t)
      PROVE  TransferInv'
  BY <1>1, SenderInv
<1>2. CASE Handle
  BY <1>2, AcknowledgmentInv, SyncOperationInv, ChunkInv, AssembleInv
     DEF Handle
<1>3. ASSUME NEW m \in net \cup acks, Lose(m)
      PROVE  TransferInv'
  <2>1. /\ net' \subseteq Messages /\ acks' \subseteq acks
        /\ losses' \in 0 .. MaxLoss /\ late' \in 0 .. MaxLate
        /\ UNCHANGED <<snd, meta, chunks, asm, delivered, handled>>
    BY <1>3, TransferAssumption DEF Lose, TransferInv, TypeOK
  <2>2. QED BY <2>1, HandledGrows, CallFrame
<1>4. CASE UNCHANGED vars
  BY <1>4 DEF vars, TransferInv, TypeOK, AckedWasHandled, WholeFiles
<1>5. QED BY <1>1, <1>2, <1>3, <1>4 DEF Next

\* sendMessage never reports success for a message its peer has not handled.
THEOREM AckedWasHandledHolds == Spec => []AckedWasHandled
<1>1. TransferInv => AckedWasHandled
  BY DEF TransferInv
<1>2. QED BY <1>1, InitInv, NextInv, PTL DEF Spec

\* handleChunk passes on whole files only, even when the versions of a file
\* come in at the same time.
THEOREM WholeFilesHolds == Spec => []WholeFiles
<1>1. TransferInv => WholeFiles
  BY DEF TransferInv
<1>2. QED BY <1>1, InitInv, NextInv, PTL DEF Spec

\* The invariant behind the two, for every pattern of losses and delays of
\* sendMessage and every interleaving of handleChunk calls.
THEOREM TransferInvHolds == Spec => []TransferInv
BY InitInv, NextInv, PTL DEF Spec

-----------------------------------------------------------------------------
(* Transfers one after the other: the protocol implements FileDelivery.     *)

\* What the receiver's list looks like and how it grows.
LEMMA PrefixGrows ==
    ASSUME NEW t \in Transfers, NEW n \in Nat
    PROVE  /\ Prefix(t, n) \in Seq(Chunks) /\ Len(Prefix(t, n)) = n
           /\ n = 0 => Prefix(t, n) = <<>>
           /\ n # 0 => Append(Prefix(t, n - 1), ChunkOf(t, n)) = Prefix(t, n)
<1>1. \A i \in 1 .. n : ChunkOf(t, i) \in Chunks
  BY DEF ChunkOf, Chunks
<1>2. Prefix(t, n) \in Seq(Chunks) /\ Len(Prefix(t, n)) = n
  BY <1>1 DEF Prefix
<1>3. n = 0 => Prefix(t, n) = <<>>
  BY <1>2
<1>4. ASSUME n # 0
      PROVE  Append(Prefix(t, n - 1), ChunkOf(t, n)) = Prefix(t, n)
  <2> DEFINE old == Prefix(t, n - 1)
             new == Append(old, ChunkOf(t, n))
  <2>1. n - 1 \in Nat /\ old \in Seq(Chunks) /\ Len(old) = n - 1
    BY <1>1, <1>4 DEF Prefix
  <2>2. \A i \in 1 .. n - 1 : old[i] = ChunkOf(t, i)
    BY DEF Prefix
  <2> HIDE DEF old
  <2>3. new \in Seq(Chunks) /\ Len(new) = n /\ \A i \in 1 .. n : new[i] = ChunkOf(t, i)
    BY <1>1, <1>4, <2>1, <2>2
  <2>4. \A i \in 1 .. n : Prefix(t, n)[i] = ChunkOf(t, i)
    BY DEF Prefix
  <2> HIDE DEF new
  <2>5. QED BY <1>2, <2>3, <2>4 DEF new, old
<1>5. QED BY <1>2, <1>3, <1>4

\* The list of all chunks of a file is assembled.
LEMMA PrefixAssembles ==
    ASSUME NEW t \in Transfers
    PROVE  AssembleChunks(Prefix(t, TotalChunks[t]), t)
<1> DEFINE n == TotalChunks[t]
           list == Prefix(t, n)
<1>1. n \in Nat
  BY TransferAssumption
<1>2. Len(list) = n
  BY <1>1, PrefixGrows
<1>3. \A i \in 1 .. n : list[i].id = i /\ list[i].t = t
  BY DEF Prefix, ChunkOf
<1> HIDE DEF list, n
<1>4. {list[i].id : i \in 1 .. Len(list)} = 1 .. Len(list)
  BY <1>1, <1>2, <1>3
<1>5. QED BY <1>2, <1>3, <1>4 DEF AssembleChunks, list, n

\* Two transfers are not under way at once.
LEMMA OneActive ==
    ASSUME TransferInv, SequentialInv, NEW t \in Transfers, Active(t)
    PROVE  \A u \in Transfers : Active(u) => u = t
<1> SUFFICES ASSUME NEW u \in Transfers, Active(u), u # t
             PROVE  FALSE
  OBVIOUS
<1>1. u < t \/ t < u
  BY TransferAssumption
<1>2. ~Ended(t) /\ ~Ended(u) /\ snd[t].pc # "idle" /\ snd[u].pc # "idle"
  BY DEF Active, Ended
<1>3. QED BY <1>1, <1>2 DEF SequentialInv, InTurn

\* Whatever is on its way belongs to the transfer that waits for it.
LEMMA PendingIsActive ==
    ASSUME TransferInv, SequentialInv
    PROVE  /\ \A m \in net \cup acks : /\ m \in Messages /\ m.t \in Transfers
                                       /\ Active(m.t) /\ snd[m.t].pc = "wait"
                                       /\ m.item = snd[m.t].item
           /\ \A a \in asm : /\ a.msg \in Messages /\ a.msg.t \in Transfers
                             /\ Active(a.msg.t) /\ snd[a.msg.t].pc = "wait"
                             /\ a.msg.item = snd[a.msg.t].item
BY DEF TransferInv, TypeOK, Messages, SequentialInv, OneOnTheWay, Awaits, Active

\* Nothing is on its way while the active transfer does not wait.
LEMMA NothingPending ==
    ASSUME TransferInv, SequentialInv, NEW t \in Transfers, Active(t),
           snd[t].pc = "send" \/ ~OnTheWay(t)
    PROVE  net = {} /\ acks = {} /\ asm = {}
<1>1. ASSUME NEW m \in net \cup acks
      PROVE  FALSE
  <2>1. m.t = t
    BY <1>1, PendingIsActive, OneActive
  <2>2. Awaits(t, m) /\ snd[t].pc = "wait"
    BY <1>1, <2>1, PendingIsActive DEF SequentialInv, OneOnTheWay
  <2>3. QED BY <1>1, <2>2 DEF OnTheWay
<1>2. ASSUME NEW a \in asm
      PROVE  FALSE
  <2>1. a.msg.t = t
    BY <1>2, PendingIsActive, OneActive
  <2>2. Awaits(t, a.msg) /\ snd[t].pc = "wait"
    BY <1>2, <2>1, PendingIsActive DEF SequentialInv, OneOnTheWay
  <2>3. QED BY <1>2, <2>2 DEF OnTheWay
<1>3. QED BY <1>1, <1>2

\* What the other transfers keep when one of them moves.
LEMMA OthersKeep ==
    ASSUME TransferInv, SequentialInv, NEW t \in Transfers, NEW s \in Calls,
           snd' = [snd EXCEPT ![t] = s], delivered' = delivered
    PROVE  /\ snd'[t] = s
           /\ \A u \in Transfers : u # t =>
                 /\ snd'[u] = snd[u] /\ (Active(u)' <=> Active(u))
                 /\ snd'[u].pc = "idle" => snd'[u].item = 0 /\ ~Arrived(u)'
                 /\ snd'[u].pc = "done" => Arrived(u)'
           /\ \A u \in Transfers : Arrived(u)' <=> Arrived(u)
           /\ \A i \in 1 .. Len(delivered') :
                 /\ delivered'[i].op \in Transfers
                 /\ delivered'[i].data = FileOf(delivered'[i].op)
<1>1. snd \in [Transfers -> Calls]
  BY DEF TransferInv, TypeOK
<1>2. snd'[t] = s /\ \A u \in Transfers : u # t => snd'[u] = snd[u]
  BY <1>1
<1>3. \A u \in Transfers : Arrived(u)' <=> Arrived(u)
  BY DEF Arrived
<1>4. QED BY <1>2, <1>3 DEF SequentialInv, Active

\* A transfer that begins, goes on or ends does so in its turn.
LEMMA TurnKept ==
    ASSUME TransferInv, SequentialInv, NEW t \in Transfers, NEW s \in Calls,
           snd' = [snd EXCEPT ![t] = s], s.pc # "idle",
           \A u \in Transfers : u < t => Ended(u),
           Active(t) \/ snd[t].pc = "idle"
    PROVE  InTurn'
<1>1. snd \in [Transfers -> Calls]
  BY DEF TransferInv, TypeOK
<1> SUFFICES ASSUME NEW v \in Transfers, NEW u \in Transfers,
                    u < v, snd'[v].pc # "idle"
             PROVE  Ended(u)'
  BY DEF InTurn
<1>2. u # v /\ ~(t < t)
  BY TransferAssumption
<1>3. CASE v = t
  BY <1>1, <1>2, <1>3 DEF Ended
<1>4. CASE v # t
  <2>1. Ended(u)
    BY <1>1, <1>4 DEF SequentialInv, InTurn
  <2>2. u # t
    BY <2>1 DEF Ended, Active
  <2>3. QED BY <1>1, <2>1, <2>2 DEF Ended
<1>5. QED BY <1>3, <1>4

\* An active transfer has those before it behind it.
LEMMA ActiveIsLast ==
    ASSUME SequentialInv, NEW t \in Transfers, Active(t)
    PROVE  \A u \in Transfers : u < t => Ended(u)
BY DEF SequentialInv, InTurn, Active

\* A call that sends, waits again or gives up while nothing is on its way.
LEMMA QuietCallStep ==
    ASSUME TransferInv, SequentialInv, NEW t \in Transfers, NEW s \in Calls,
           Active(t), net = {}, acks = {}, asm = {},
           snd' = [snd EXCEPT ![t] = s], s.item = snd[t].item,
           s.pc \in {"send", "wait", "failed"},
           \/ net' = {}
           \/ /\ s.pc = "wait"
              /\ net' = {[t |-> t, item |-> s.item, attempt |-> s.attempt]},
           UNCHANGED <<acks, meta, chunks, asm, delivered>>
    PROVE  SequentialInv'
<1>1. InTurn'
  BY ActiveIsLast, TurnKept
<1>2. snd'[t] = s
  BY OthersKeep
<1>3. OneOnTheWay'
  BY <1>2 DEF OneOnTheWay, Awaits
<1>4. InStep(t)'
  <2>1. InStep(t)
    BY DEF SequentialInv
  <2>2. Arrived(t)' <=> Arrived(t)
    BY OthersKeep
  <2>3. QED BY <1>2, <2>1, <2>2 DEF InStep, Holds
<1>5. \A u \in Transfers : u # t => ~Active(u)'
  BY OneActive, OthersKeep
<1>6. QED BY <1>1, <1>2, <1>3, <1>4, <1>5, OthersKeep DEF SequentialInv

\* The steps of the sender.
LEMMA SequentialSender ==
    ASSUME Sequential, TransferInv, SequentialInv, NEW t \in Transfers,
           StartTransfer(t) \/ Sender(t)
    PROVE  SequentialInv'
<1>0. snd \in [Transfers -> Calls] /\ snd[t] \in Calls /\ late \in 0 .. MaxLate
  BY DEF TransferInv, TypeOK
<1>1. CASE StartTransfer(t)
  <2> DEFINE s == [snd[t] EXCEPT !.pc = "send"]
  <2>1. snd' = [snd EXCEPT ![t] = s] /\ snd[t].pc = "idle"
        /\ UNCHANGED <<net, acks, meta, chunks, asm, delivered>>
    BY <1>1 DEF StartTransfer
  <2>2. s \in Calls /\ s.item = snd[t].item /\ s.pc = "send"
    BY <1>0, MovedCall
  <2> HIDE DEF s
  <2>3. \A u \in Transfers : u < t => Ended(u)
    BY <1>1 DEF StartTransfer, Sequential
  <2>4. InTurn'
    BY <2>1, <2>2, <2>3, TurnKept
  <2>5. \A u \in Transfers : ~Active(u)
    <3> SUFFICES ASSUME NEW u \in Transfers, Active(u) PROVE FALSE
      OBVIOUS
    <3>1. u = t \/ u < t \/ t < u
      BY TransferAssumption
    <3>2. snd[u].pc # "idle" /\ ~Ended(u) /\ ~Ended(t)
      BY <2>1 DEF Active, Ended
    <3>3. QED BY <2>1, <2>3, <3>1, <3>2 DEF SequentialInv, InTurn
  <2>6. net = {} /\ acks = {} /\ asm = {}
    BY <2>5, PendingIsActive
  <2>7. OneOnTheWay'
    BY <2>1, <2>6 DEF OneOnTheWay
  <2>8. snd'[t] = s /\ \A u \in Transfers : u # t => ~Active(u)'
    BY <2>1, <2>2, <2>5, OthersKeep
  <2>9. InStep(t)'
    BY <2>1, <2>2, <2>6, <2>8, OthersKeep DEF SequentialInv, InStep
  <2>10. QED
    BY <2>1, <2>2, <2>4, <2>7, <2>8, <2>9, OthersKeep DEF SequentialInv
<1>2. CASE Send(t)
  <2> DEFINE s == [snd[t] EXCEPT !.pc = "wait"]
  <2>1. /\ snd' = [snd EXCEPT ![t] = s] /\ snd[t].pc = "send"
        /\ net' = net \cup {[t |-> t, item |-> snd[t].item, attempt |-> snd[t].attempt]}
        /\ UNCHANGED <<acks, meta, chunks, asm, delivered>>
    BY <1>2 DEF Send
  <2>2. s \in Calls /\ s.item = snd[t].item /\ s.pc = "wait" /\ s.attempt = snd[t].attempt
    BY <1>0 DEF Calls
  <2> HIDE DEF s
  <2>3. Active(t) /\ net = {} /\ acks = {} /\ asm = {}
    BY <2>1, NothingPending DEF Active
  <2>4. QED BY <2>1, <2>2, <2>3, QuietCallStep
<1>n. ASSUME Active(t), net = {}, acks = {}, asm = {},
             snd' = [snd EXCEPT ![t] = NextAttempt(snd[t])],
             UNCHANGED <<net, acks, meta, chunks, asm, delivered>>
      PROVE  SequentialInv'
  <2>1. NextAttempt(snd[t]) \in Calls /\ NextAttempt(snd[t]).item = snd[t].item
    BY <1>0, NextAttemptCall
  <2>2. NextAttempt(snd[t]).pc \in {"send", "failed"}
    BY <1>0 DEF NextAttempt, Calls
  <2>3. QED BY <1>n, <2>1, <2>2, QuietCallStep
<1>3. CASE SendFails(t)
  <2>1. Active(t) /\ net = {} /\ acks = {} /\ asm = {}
    BY <1>3, NothingPending DEF SendFails, Active
  <2>2. QED BY <1>3, <1>n, <2>1 DEF SendFails
<1>4. CASE Disconnected(t)
  <2> DEFINE s == [snd[t] EXCEPT !.pc = "failed"]
  <2>1. snd' = [snd EXCEPT ![t] = s] /\ UNCHANGED <<net, acks, meta, chunks, asm, delivered>>
    BY <1>4 DEF Disconnected
  <2>2. s \in Calls /\ s.item = snd[t].item /\ s.pc = "failed"
    BY <1>0, MovedCall
  <2> HIDE DEF s
  <2>3. Active(t) /\ net = {} /\ acks = {} /\ asm = {}
    BY <1>4, NothingPending DEF Disconnected, Active
  <2>4. QED BY <2>1, <2>2, <2>3, QuietCallStep
<1>5. CASE Timeout(t)
  <2>1. ~OnTheWay(t)
    BY <1>0, <1>5 DEF Timeout, Sequential
  <2>2. Active(t) /\ net = {} /\ acks = {} /\ asm = {}
    BY <1>5, <2>1, NothingPending DEF Timeout, Active
  <2>3. QED BY <1>5, <1>n, <2>2 DEF Timeout
<1>6. QED BY <1>1, <1>2, <1>3, <1>4, <1>5 DEF Sender

\* An acknowledgment is handled: nothing else is on its way.
LEMMA SequentialAcknowledgment ==
    ASSUME TransferInv, SequentialInv, NEW a \in acks, HandleAcknowledgment(a)
    PROVE  /\ SequentialInv'
           /\ Awaits(a.t, a)
           /\ snd[a.t].item = TotalChunks[a.t] => Arrived(a.t)
<1> DEFINE t == a.t
<1>0. /\ snd \in [Transfers -> Calls] /\ t \in Transfers /\ Active(t)
      /\ snd[t] \in Calls /\ snd[t].item \in Items(t) /\ snd[t].item \in Nat
  BY PendingIsActive DEF TransferInv, TypeOK, Calls
<1>1. net = {} /\ asm = {} /\ acks \ {a} = {} /\ acks # {} /\ Awaits(t, a)
  BY DEF SequentialInv, OneOnTheWay
<1>2. acks' = {} /\ UNCHANGED <<net, meta, chunks, asm, delivered>>
  BY <1>1 DEF HandleAcknowledgment
<1>3. InStep(t)
  BY <1>0 DEF SequentialInv
<1>4. OneOnTheWay'
  BY <1>1, <1>2 DEF OneOnTheWay
<1>5. CASE snd[t].item = TotalChunks[t]
  <2> DEFINE s == [snd[t] EXCEPT !.pc = "done"]
  <2>1. snd' = [snd EXCEPT ![t] = s] /\ s \in Calls /\ s.pc = "done"
    BY <1>0, <1>1, <1>5, MovedCall DEF HandleAcknowledgment
  <2> HIDE DEF s
  <2>2. Arrived(t)
    BY <1>1, <1>3, <1>5 DEF InStep
  <2>3. snd'[t] = s /\ \A u \in Transfers : ~Active(u)'
    BY <1>0, <1>2, <2>1, OneActive, OthersKeep DEF Active
  <2>4. InTurn'
    BY <1>0, <2>1, ActiveIsLast, TurnKept
  <2>5. /\ \A u \in Transfers : u # t =>
              /\ snd'[u].pc = "idle" => snd'[u].item = 0 /\ ~Arrived(u)'
              /\ snd'[u].pc = "done" => Arrived(u)'
        /\ Arrived(t)'
        /\ \A i \in 1 .. Len(delivered') :
              delivered'[i].op \in Transfers /\ delivered'[i].data = FileOf(delivered'[i].op)
    BY <1>0, <1>2, <2>1, <2>2, OthersKeep
  <2>6. SequentialInv'
    BY <1>0, <1>4, <2>1, <2>3, <2>4, <2>5 DEF SequentialInv
  <2>7. QED BY <1>1, <2>2, <2>6
<1>6. CASE snd[t].item # TotalChunks[t]
  <2> DEFINE s == [pc |-> "send", item |-> snd[t].item + 1, attempt |-> 1]
  <2>1. /\ snd' = [snd EXCEPT ![t] = s] /\ s \in Calls
        /\ s.pc = "send" /\ s.item = snd[t].item + 1
    BY <1>0, <1>1, <1>6, TransferAssumption DEF HandleAcknowledgment, Calls
  <2> HIDE DEF s
  <2>2. Holds(t, snd[t].item)
    BY <1>1, <1>3, <1>6 DEF InStep
  <2>3. snd'[t] = s /\ \A u \in Transfers : u # t => ~Active(u)'
    BY <1>0, <1>2, <2>1, OneActive, OthersKeep
  <2>4. snd'[t].item # 0 /\ snd'[t].item - 1 = snd[t].item
    BY <1>0, <2>1, <2>3
  <2>5. InStep(t)'
    BY <1>0, <1>1, <1>2, <2>1, <2>2, <2>4, OthersKeep DEF InStep, Holds
  <2>6. InTurn'
    BY <1>0, <2>1, ActiveIsLast, TurnKept
  <2>7. QED
    BY <1>0, <1>1, <1>2, <1>4, <1>6, <2>1, <2>3, <2>5, <2>6, OthersKeep DEF SequentialInv
<1>7. QED BY <1>5, <1>6

\* A message is lost on its way to the receiver.
LEMMA SequentialLoss ==
    ASSUME Sequential, SequentialInv, NEW m \in net \cup acks, Lose(m)
    PROVE  SequentialInv'
<1>1. net' \subseteq net /\ UNCHANGED <<snd, acks, meta, chunks, asm, delivered>>
  BY DEF Lose, Sequential
<1>2. InTurn' /\ OneOnTheWay'
  BY <1>1 DEF SequentialInv, InTurn, Ended, OneOnTheWay, Awaits
<1>3. \A t \in Transfers : /\ Active(t)' <=> Active(t)
                           /\ Arrived(t)' <=> Arrived(t)
                           /\ InStep(t)' <=> InStep(t)
  BY <1>1 DEF Active, Arrived, InStep, Holds
<1>4. QED BY <1>1, <1>2, <1>3 DEF SequentialInv

\* The receiver has handled a message of the active transfer: what must hold of
\* its state for the invariant.
LEMMA ReceiverStep ==
    ASSUME TransferInv, SequentialInv, NEW t \in Transfers, Active(t),
           snd' = snd, net' = {}, OneOnTheWay', InStep(t)',
           delivered' = delivered
    PROVE  SequentialInv'
<1>1. InTurn'
  BY DEF SequentialInv, InTurn, Ended
<1>2. \A u \in Transfers : (Active(u)' <=> Active(u)) /\ (Arrived(u)' <=> Arrived(u))
  BY DEF Active, Arrived
<1>3. \A u \in Transfers : Active(u)' => InStep(u)'
  BY <1>2, OneActive
<1>4. QED BY <1>1, <1>2, <1>3 DEF SequentialInv

\* The message that is handled is all there is on its way.
LEMMA HandledAlone ==
    ASSUME TransferInv, SequentialInv, NEW m \in net
    PROVE  /\ net \ {m} = {} /\ acks = {} /\ asm = {}
           /\ m.t \in Transfers /\ Active(m.t) /\ InStep(m.t)
           /\ m.item = snd[m.t].item /\ m.item \in Nat
           /\ Awaits(m.t, m)
<1>1. m \in Messages /\ m.t \in Transfers /\ Active(m.t) /\ m.item = snd[m.t].item
  BY PendingIsActive
<1>2. QED BY <1>1 DEF SequentialInv, OneOnTheWay, Messages

\* Metadata clears the list.
LEMMA SequentialSyncOperation ==
    ASSUME TransferInv, SequentialInv, NEW m \in net, HandleSyncOperation(m)
    PROVE  SequentialInv'
<1> DEFINE t == m.t
<1>1. /\ snd' = snd /\ net' = {} /\ acks' = {m} /\ asm' = {} /\ m.item = 0
      /\ chunks' = <<>> /\ meta' = t /\ delivered' = delivered
  BY HandledAlone DEF HandleSyncOperation, sendAcknowledgment, ClearedChunks
<1>2. /\ t \in Transfers /\ Active(t) /\ InStep(t) /\ snd[t].item = 0
      /\ TotalChunks[t] # 0
  BY <1>1, HandledAlone, TransferAssumption
<1>3. OneOnTheWay'
  BY <1>1, HandledAlone DEF OneOnTheWay, Awaits
<1>4. ~Arrived(t)'
  BY <1>1, <1>2, HandledAlone DEF InStep, Arrived
<1>5. chunks' = Prefix(t, 0)
  BY <1>1, <1>2, PrefixGrows
<1>6. InStep(t)'
  BY <1>1, <1>2, <1>4, <1>5 DEF InStep, Holds
<1>7. QED BY <1>1, <1>2, <1>3, <1>6, ReceiverStep

\* A chunk extends the list by one.
LEMMA SequentialChunk ==
    ASSUME TransferInv, SequentialInv, NEW m \in net, HandleChunk(m)
    PROVE  SequentialInv'
<1> DEFINE t == m.t
           n == m.item
<1>1. /\ t \in Transfers /\ Active(t) /\ InStep(t) /\ n = snd[t].item
      /\ n \in Nat /\ n # 0 /\ TotalChunks[t] \in Nat
  BY HandledAlone, TransferAssumption DEF HandleChunk
<1>2. Holds(t, n - 1)
  BY <1>1, HandledAlone DEF InStep
<1>3. Append(chunks, ChunkOf(t, n)) = Prefix(t, n) /\ Len(Prefix(t, n)) = n
  BY <1>1, <1>2, PrefixGrows DEF Holds
<1>4. /\ snd' = snd /\ net' = {} /\ chunks' = Prefix(t, n) /\ meta' = t
      /\ delivered' = delivered /\ ~Arrived(t)'
  BY <1>2, <1>3, HandledAlone DEF HandleChunk, Holds, Arrived
<1>5. CASE n = TotalChunks[t]
  <2>1. asm' = {[msg |-> m, list |-> Prefix(t, n)]} /\ acks' = {}
    BY <1>3, <1>5, HandledAlone DEF HandleChunk
  <2>2. OneOnTheWay'
    BY <1>4, <2>1, HandledAlone DEF OneOnTheWay, Awaits
  <2>3. acks' = {} /\ asm' # {} /\ \A a \in asm' : a.list = Prefix(t, n)
    BY <2>1
  <2>4. Holds(t, n)' /\ snd'[t].item = TotalChunks[t]
    BY <1>1, <1>4, <1>5 DEF Holds
  <2>5. InStep(t)'
    BY <1>1, <1>4, <1>5, <2>3, <2>4 DEF InStep
  <2>6. QED BY <1>1, <1>4, <2>2, <2>5, ReceiverStep
<1>6. CASE n # TotalChunks[t]
  <2>1. asm' = {} /\ acks' = {m}
    BY <1>3, <1>6, HandledAlone DEF HandleChunk, sendAcknowledgment
  <2>2. OneOnTheWay'
    BY <1>4, <2>1, HandledAlone DEF OneOnTheWay, Awaits
  <2>3. InStep(t)'
    BY <1>1, <1>4, <1>6, <2>1 DEF InStep, Holds
  <2>4. QED BY <1>1, <1>4, <2>2, <2>3, ReceiverStep
<1>7. QED BY <1>5, <1>6

\* The complete list is assembled and passed on, with its own metadata.
LEMMA SequentialAssemble ==
    ASSUME TransferInv, SequentialInv, NEW a \in asm, Assemble(a)
    PROVE  /\ SequentialInv'
           /\ a.msg.t \in Transfers /\ Active(a.msg.t) /\ ~Arrived(a.msg.t)
           /\ snd' = snd
           /\ delivered' = Append(delivered, [op |-> a.msg.t, data |-> FileOf(a.msg.t)])
<1> DEFINE t == a.msg.t
           n == TotalChunks[t]
           d == [op |-> t, data |-> FileOf(t)]
<1>1. /\ t \in Transfers /\ Active(t) /\ snd[t].pc = "wait"
      /\ a.msg.item = snd[t].item /\ InStep(t)
  BY PendingIsActive DEF SequentialInv
<1>2. snd[t].item = n /\ Holds(t, n) /\ a.list = Prefix(t, n)
  BY <1>1 DEF InStep
<1>3. AssembleChunks(a.list, t)
  BY <1>1, <1>2, PrefixAssembles
<1>4. Data(a.list) = FileOf(t)
  <2>1. n \in Nat
    BY <1>1, TransferAssumption
  <2>2. a.list \in Seq(Chunks) /\ Len(a.list) = n
    BY <1>1, <1>2, <2>1, PrefixGrows
  <2>3. QED BY <1>1, <1>3, <2>2, AssembledIsFile
<1>5. net = {} /\ acks = {} /\ asm \ {a} = {}
  BY DEF SequentialInv, OneOnTheWay
<1>6. /\ delivered' = Append(delivered, d) /\ snd' = snd /\ net' = {}
      /\ acks' = {a.msg} /\ asm' = {}
  BY <1>2, <1>3, <1>4, <1>5 DEF Assemble, sendAcknowledgment, Holds
<1>7. delivered \in Seq([op : Transfers \cup {NoOp}, data : SUBSET Chunks])
  BY DEF TransferInv, TypeOK
<1>8. /\ Len(delivered') = Len(delivered) + 1 /\ Len(delivered) \in Nat
      /\ delivered'[Len(delivered')] = d
      /\ \A i \in 1 .. Len(delivered) : delivered'[i] = delivered[i]
  BY <1>6, <1>7
<1>9. /\ d.op = t /\ d.data = FileOf(t)
      /\ \A i \in 1 .. Len(delivered') : i = Len(delivered') \/ i \in 1 .. Len(delivered)
  BY <1>8
<1> HIDE DEF d
<1>10. /\ Arrived(t)'
       /\ \A u \in Transfers : u # t => (Arrived(u)' <=> Arrived(u))
  BY <1>8, <1>9 DEF Arrived
<1>11. \A i \in 1 .. Len(delivered') :
          delivered'[i].op \in Transfers /\ delivered'[i].data = FileOf(delivered'[i].op)
  BY <1>1, <1>8, <1>9 DEF SequentialInv
<1>12. InTurn' /\ OneOnTheWay'
  BY <1>1, <1>6 DEF SequentialInv, InTurn, Ended, OneOnTheWay, Awaits
<1>13. \A u \in Transfers : Active(u)' => InStep(u)'
  <2>1. InStep(t)'
    BY <1>2, <1>6, <1>10 DEF InStep
  <2>2. \A u \in Transfers : Active(u)' => u = t
    BY <1>1, <1>6, OneActive DEF Active
  <2>3. QED BY <2>1, <2>2
<1>14. SequentialInv'
  BY <1>1, <1>6, <1>10, <1>11, <1>12, <1>13 DEF SequentialInv
<1>15. QED BY <1>1, <1>2, <1>6, <1>14 DEF Holds, d

\* Nothing has happened yet.
LEMMA SequentialStart == Init => SequentialInv
<1> SUFFICES ASSUME Init PROVE SequentialInv
  OBVIOUS
<1>1. InTurn /\ OneOnTheWay
  BY DEF Init, InTurn, OneOnTheWay
<1>2. delivered = <<>> /\ Len(delivered) = 0
  BY DEF Init
<1>3. \A t \in Transfers : snd[t].pc = "idle" /\ snd[t].item = 0 /\ ~Arrived(t)
  BY <1>2 DEF Init, Arrived
<1>4. QED BY <1>1, <1>2, <1>3 DEF SequentialInv, Active

\* The invariant of transfers in turn is inductive.
LEMMA SequentialNext ==
    ASSUME Sequential, TransferInv, SequentialInv, [Next]_vars
    PROVE  SequentialInv'
<1>1. ASSUME NEW t \in Transfers, StartTransfer(t) \/ Sender(t)
      PROVE  SequentialInv'
  BY <1>1, SequentialSender
<1>2. CASE Handle
  BY <1>2, SequentialAcknowledgment, SequentialSyncOperation, SequentialChunk,
     SequentialAssemble DEF Handle
<1>3. ASSUME NEW m \in net \cup acks, Lose(m)
      PROVE  SequentialInv'
  BY <1>3, SequentialLoss
<1>4. CASE UNCHANGED vars
  BY <1>4 DEF vars, SequentialInv, InTurn, Ended, OneOnTheWay, Awaits, Active,
              Arrived, InStep, Holds
<1>5. QED BY <1>1, <1>2, <1>3, <1>4 DEF Next

\* When transfers take turns and acknowledgments are neither lost nor late,
\* sender and receiver agree on what was handled, whatever messages get lost.
THEOREM SequentialInvHolds == ASSUME Sequential PROVE Spec => []SequentialInv
<1>1. TransferInv /\ SequentialInv /\ [Next]_vars => SequentialInv'
  BY SequentialNext
<1>2. QED BY <1>1, SequentialStart, TransferInvHolds, PTL DEF Spec

\* sendChunkedFile returns without an error only when the file has arrived.
THEOREM AcknowledgedFileArrivesInTurn ==
    ASSUME Sequential PROVE Spec => []AcknowledgedFileArrives
<1>1. SequentialInv => AcknowledgedFileArrives
  BY DEF SequentialInv, AcknowledgedFileArrives, Arrived
<1>2. QED BY <1>1, SequentialInvHolds, PTL

-----------------------------------------------------------------------------
\* With the invariant every delivery counts.
LEMMA ReceivedInTurn ==
    ASSUME TransferInv, SequentialInv
    PROVE  /\ FilesReceived = [i \in 1 .. Len(delivered) |-> delivered[i].op]
           /\ \A t \in Transfers : Delivery!Arrived(t) <=> Arrived(t)
<1>1. FilesReceived = [i \in 1 .. Len(delivered) |-> delivered[i].op]
  BY DEF SequentialInv, FilesReceived
<1>2. Len(delivered) \in Nat
  BY DEF TransferInv, TypeOK
<1>3. QED BY <1>1, <1>2 DEF Delivery!Arrived, Arrived

\* What a call that moves looks like to its caller.
LEMMA CallStatesStep ==
    ASSUME TransferInv, NEW t \in Transfers, NEW s \in Calls,
           snd' = [snd EXCEPT ![t] = s]
    PROVE  CallStates' = [CallStates EXCEPT ![t] =
              IF s.pc \in {"send", "wait"} THEN "active" ELSE s.pc]
BY DEF TransferInv, TypeOK, CallStates, Active

\* Calls and deliveries that did not change look as before.
LEMMA SameCalls == snd' = snd => CallStates' = CallStates
BY DEF CallStates, Active

LEMMA SameFiles == delivered' = delivered => FilesReceived' = FilesReceived
BY DEF FilesReceived

\* A step of the sender is the beginning or the failure of a call, or invisible.
LEMMA SenderRefines ==
    ASSUME TransferInv, SequentialInv, NEW t \in Transfers,
           StartTransfer(t) \/ Sender(t)
    PROVE  Delivery!Begin(t) \/ Delivery!GiveUp(t) \/ UNCHANGED Delivery!vars
<1>0. snd \in [Transfers -> Calls] /\ snd[t] \in Calls
  BY DEF TransferInv, TypeOK
<1>1. FilesReceived' = FilesReceived
  BY SameFiles DEF StartTransfer, Sender, Send, SendFails, Disconnected, Timeout
<1>2. /\ CallStates \in [Transfers -> {"idle", "active", "done", "failed"}]
      /\ Active(t) => CallStates[t] = "active"
      /\ snd[t].pc = "idle" => CallStates[t] = "idle"
  BY <1>0 DEF CallStates, Active, Calls
<1>3. CASE StartTransfer(t)
  <2>1. [snd[t] EXCEPT !.pc = "send"] \in Calls /\ [snd[t] EXCEPT !.pc = "send"].pc = "send"
    BY <1>0, MovedCall
  <2>2. snd' = [snd EXCEPT ![t] = [snd[t] EXCEPT !.pc = "send"]] /\ snd[t].pc = "idle"
    BY <1>3 DEF StartTransfer
  <2>3. CallStates' = [CallStates EXCEPT ![t] = "active"]
    BY <2>1, <2>2, CallStatesStep
  <2>4. QED BY <1>1, <1>2, <2>2, <2>3 DEF Delivery!Begin
<1>4. CASE Sender(t)
  <2>1. Active(t)
    BY <1>4 DEF Sender, Send, SendFails, Disconnected, Timeout, Active
  <2>2. PICK s \in Calls : /\ snd' = [snd EXCEPT ![t] = s]
                           /\ s.pc \in {"send", "wait", "failed"}
    <3>1. CASE Send(t)
      BY <1>0, <3>1, MovedCall DEF Send
    <3>2. CASE Disconnected(t)
      BY <1>0, <3>2, MovedCall DEF Disconnected
    <3>3. CASE SendFails(t) \/ Timeout(t)
      <4>1. NextAttempt(snd[t]) \in Calls
        BY <1>0, NextAttemptCall
      <4>2. NextAttempt(snd[t]).pc \in {"send", "failed"}
        BY <1>0 DEF NextAttempt, Calls
      <4>3. QED BY <3>3, <4>1, <4>2 DEF SendFails, Timeout
    <3>4. QED BY <1>4, <3>1, <3>2, <3>3 DEF Sender
  <2>3. CASE s.pc = "failed"
    <3>1. CallStates' = [CallStates EXCEPT ![t] = "failed"]
      BY <2>2, <2>3, CallStatesStep
    <3>2. QED BY <1>1, <1>2, <2>1, <3>1 DEF Delivery!GiveUp
  <2>4. CASE s.pc # "failed"
    <3>1. CallStates' = [CallStates EXCEPT ![t] = "active"]
      BY <2>2, <2>4, CallStatesStep
    <3>2. CallStates' = CallStates
      BY <1>2, <2>1, <3>1
    <3>3. QED BY <1>1, <3>2 DEF Delivery!vars
  <2>5. QED BY <2>3, <2>4
<1>5. QED BY <1>3, <1>4

\* The last acknowledgment finishes a call whose file has arrived.
LEMMA AcknowledgmentRefines ==
    ASSUME TransferInv, SequentialInv, NEW a \in acks, HandleAcknowledgment(a)
    PROVE  (\E t \in Transfers : Delivery!Finish(t)) \/ UNCHANGED Delivery!vars
<1> DEFINE t == a.t
<1>0. /\ snd \in [Transfers -> Calls] /\ t \in Transfers /\ Active(t)
      /\ snd[t] \in Calls /\ snd[t].item \in Nat
  BY PendingIsActive DEF TransferInv, TypeOK, Calls
<1>1. FilesReceived' = FilesReceived
  BY SameFiles DEF HandleAcknowledgment
<1>2. /\ CallStates \in [Transfers -> {"idle", "active", "done", "failed"}]
      /\ CallStates[t] = "active"
  BY <1>0 DEF CallStates, Active, Calls
<1>3. Awaits(t, a)
  BY SequentialAcknowledgment
<1>4. CASE snd[t].item = TotalChunks[t]
  <2>1. [snd[t] EXCEPT !.pc = "done"] \in Calls /\ [snd[t] EXCEPT !.pc = "done"].pc = "done"
    BY <1>0, MovedCall
  <2>2. snd' = [snd EXCEPT ![t] = [snd[t] EXCEPT !.pc = "done"]]
    BY <1>3, <1>4 DEF HandleAcknowledgment
  <2>3. CallStates' = [CallStates EXCEPT ![t] = "done"]
    BY <1>0, <2>1, <2>2, CallStatesStep
  <2>4. Delivery!Arrived(t)
    BY <1>0, <1>4, SequentialAcknowledgment, ReceivedInTurn
  <2>5. QED BY <1>0, <1>1, <1>2, <2>3, <2>4 DEF Delivery!Finish
<1>5. CASE snd[t].item # TotalChunks[t]
  <2> DEFINE s == [pc |-> "send", item |-> snd[t].item + 1, attempt |-> 1]
  <2>1. s \in Calls /\ s.pc = "send"
    BY <1>0, TransferAssumption DEF Calls
  <2>2. snd' = [snd EXCEPT ![t] = s]
    BY <1>3, <1>5 DEF HandleAcknowledgment
  <2> HIDE DEF s
  <2>3. CallStates' = [CallStates EXCEPT ![t] = "active"]
    BY <1>0, <2>1, <2>2, CallStatesStep
  <2>4. QED BY <1>1, <1>2, <2>3 DEF Delivery!vars
<1>6. QED BY <1>4, <1>5

\* Assembly is the arrival of the file, once, while its call is active.
LEMMA AssembleRefines ==
    ASSUME TransferInv, TransferInv', SequentialInv, NEW a \in asm, Assemble(a)
    PROVE  \E t \in Transfers : Delivery!Arrive(t)
<1> DEFINE t == a.msg.t
           d == [op |-> t, data |-> FileOf(t)]
<1>1. /\ t \in Transfers /\ Active(t) /\ ~Arrived(t) /\ SequentialInv'
      /\ snd' = snd /\ delivered' = Append(delivered, d)
  BY SequentialAssemble
<1>2. CallStates' = CallStates /\ CallStates[t] = "active"
  BY <1>1, SameCalls DEF CallStates
<1>3. ~Delivery!Arrived(t)
  BY <1>1, ReceivedInTurn
<1>4. delivered \in Seq([op : Transfers \cup {NoOp}, data : SUBSET Chunks])
  BY DEF TransferInv, TypeOK
<1>5. FilesReceived = [i \in 1 .. Len(delivered) |-> delivered[i].op]
  BY ReceivedInTurn
<1>6. FilesReceived' = [i \in 1 .. Len(delivered') |-> delivered'[i].op]
  <2>1. \A i \in 1 .. Len(delivered') :
           delivered'[i].op \in Transfers /\ delivered'[i].data = FileOf(delivered'[i].op)
    BY <1>1 DEF SequentialInv
  <2>2. QED BY <2>1 DEF FilesReceived
<1>7. /\ Len(delivered') = Len(delivered) + 1 /\ Len(delivered) \in Nat
      /\ delivered'[Len(delivered')].op = t
      /\ \A i \in 1 .. Len(delivered) : delivered'[i] = delivered[i]
  BY <1>1, <1>4
<1>8. FilesReceived \in Seq(Transfers) /\ FilesReceived' \in Seq(Transfers)
  BY <1>1, <1>4, <1>5, <1>6, <1>7 DEF SequentialInv
<1>9. FilesReceived' = Append(FilesReceived, t)
  BY <1>1, <1>5, <1>6, <1>7, <1>8
<1>10. QED BY <1>1, <1>2, <1>3, <1>9 DEF Delivery!Arrive

\* Every other step of network and receiver is invisible to the caller.
LEMMA NextRefines ==
    ASSUME Sequential, TransferInv, TransferInv', SequentialInv, [Next]_vars
    PROVE  [Delivery!Next]_(Delivery!vars)
<1>1. ASSUME NEW t \in Transfers, StartTransfer(t) \/ Sender(t)
      PROVE  [Delivery!Next]_(Delivery!vars)
  BY <1>1, SenderRefines DEF Delivery!Next
<1>2. ASSUME NEW a \in acks, HandleAcknowledgment(a)
      PROVE  [Delivery!Next]_(Delivery!vars)
  BY <1>2, AcknowledgmentRefines DEF Delivery!Next
<1>3. ASSUME NEW a \in asm, Assemble(a)
      PROVE  [Delivery!Next]_(Delivery!vars)
  BY <1>3, AssembleRefines DEF Delivery!Next
<1>4. ASSUME snd' = snd, delivered' = delivered
      PROVE  [Delivery!Next]_(Delivery!vars)
  BY <1>4, SameCalls, SameFiles DEF Delivery!vars
<1>5. ASSUME NEW m, HandleSyncOperation(m) \/ HandleChunk(m) \/ Lose(m)
      PROVE  snd' = snd /\ delivered' = delivered
  BY <1>5 DEF HandleSyncOperation, HandleChunk, Lose
<1>6. UNCHANGED vars => snd' = snd /\ delivered' = delivered
  BY DEF vars
<1>7. QED BY <1>1, <1>2, <1>3, <1>4, <1>5, <1>6 DEF Next, Handle

\* The chunked transfer keeps the promise FileDelivery makes to the caller of
\* sendChunkedFile: whole files, with their own metadata, once, before success is
\* reported, for any number of transfers, chunks, attempts and lost messages.
THEOREM DeliversFilesSafely == ASSUME Sequential PROVE Spec => Delivery!SafeSpec
<1>1. Init => Delivery!Init
  <2> SUFFICES ASSUME Init PROVE Delivery!Init
    OBVIOUS
  <2>1. CallStates = [t \in Transfers |-> "idle"]
    BY DEF Init, CallStates, Active
  <2>2. FilesReceived = <<>>
    BY DEF Init, FilesReceived
  <2>3. QED BY <2>1, <2>2 DEF Delivery!Init
<1>2. TransferInv /\ TransferInv' /\ SequentialInv /\ [Next]_vars
         => [Delivery!Next]_(Delivery!vars)
  BY NextRefines
<1>3. QED
  BY <1>1, <1>2, TransferInvHolds, SequentialInvHolds, PTL DEF Spec, Delivery!SafeSpec
=============================================================================
