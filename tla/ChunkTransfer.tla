---------------------------- MODULE ChunkTransfer ----------------------------
(***************************************************************************)
(* The transfer of large files: sendChunkedFile and sendMessage of         *)
(* internal/network/messenger.go at one peer, handleSyncOperation and      *)
(* handleChunk of internal/network/handler.go at the other.                *)
(*                                                                         *)
(* The transfers are operations on ONE file ID, each with its own content. *)
(* Every broadcast has a goroutine of its own, so transfers may overlap.   *)
(* The QUIC transport handles every message in a goroutine of its own, so  *)
(* messages are handled in any order and handleChunk is not atomic.  A     *)
(* connection that breaks loses what is on it.                             *)
(***************************************************************************)
EXTENDS Naturals, Sequences

CONSTANTS
    Transfers,     \* operations whose file is sent, numbered in their order
    TotalChunks,   \* the number of chunks of the file of each transfer
    RetryCount,    \* attempts of sendMessage, 3 in the code
    Concurrent,    \* may transfers overlap
    LoseAcks,      \* may acknowledgments be lost
    MaxLoss,       \* bound: lost messages and failed sends
    MaxLate        \* bound: timeouts that are premature

ASSUME TransferAssumption ==
    /\ Transfers \subseteq Nat \ {0}     \* 0 is no operation
    /\ TotalChunks \in [Transfers -> Nat \ {0}]
    /\ RetryCount \in Nat \ {0}
    /\ Concurrent \in BOOLEAN /\ LoseAcks \in BOOLEAN
    /\ MaxLoss \in Nat /\ MaxLate \in Nat

VARIABLES
    snd,         \* the sendChunkedFile call of every transfer
    net, acks,   \* messages and acknowledgments on their way
    meta,        \* chunkMetadata[fileID]
    chunks,      \* assembledChunks[fileID]
    asm,         \* handleChunk calls that found the list complete
    delivered,   \* history: the files given to HandleIncomingFile
    handled,     \* history: the messages that were handled
    losses, late \* counters of the bounded events

vars == <<snd, net, acks, meta, chunks, asm, delivered, handled, losses, late>>

-----------------------------------------------------------------------------
NoOp == 0

\* Item 0 of a transfer is its metadata, item i its i-th chunk.
Items(t) == 0 .. TotalChunks[t]

\* The attempts of a message differ only in when they are sent: the message ID
\* is the same, and an acknowledgment names the ID.
Messages == {m \in [t : Transfers, item : Nat, attempt : 1 .. RetryCount] :
               m.item \in Items(m.t)}

\* A sendChunkedFile call: the item it sends and the attempt at it.
Calls == [pc : {"idle", "send", "wait", "done", "failed"}, item : Nat,
          attempt : 1 .. RetryCount]

Chunks        == [t : Transfers, id : Nat]
ChunkOf(t, i) == [t |-> t, id |-> i]
FileOf(t)     == {ChunkOf(t, i) : i \in 1 .. TotalChunks[t]}
Data(list)    == {list[i] : i \in 1 .. Len(list)}

\* Mutant: the hash of the assembled file is not compared.
AssembleWithoutHash(list, t) == 
    {list[i].id : i \in 1 .. Len(list)} = 1 .. Len(list)

\* AssembleChunks: sorted by chunk ID the offsets are contiguous, and the hash
\* is that of the whole file.
AssembleChunks(list, t) ==
    /\ {list[i].id : i \in 1 .. Len(list)} = 1 .. Len(list)
    /\ \A i \in 1 .. Len(list) : list[i].t = t

Ended(t) == snd[t].pc \in {"done", "failed"}

\* Mutant: the acknowledgment is not matched by its correlation ID.
AwaitsAny(t, m) == snd[t].pc = "wait" /\ m.t = t

\* pendingAcks[correlation ID] is the channel sendMessage waits on.
Awaits(t, m) == snd[t].pc = "wait" /\ m.t = t /\ m.item = snd[t].item

Init ==
    /\ snd = [t \in Transfers |-> [pc |-> "idle", item |-> 0, attempt |-> 1]]
    /\ net = {} /\ acks = {} /\ asm = {}
    /\ meta = NoOp /\ chunks = <<>>
    /\ delivered = <<>> /\ handled = {}
    /\ losses = 0 /\ late = 0

-----------------------------------------------------------------------------
\* The sender.

StartTransfer(t) ==
    /\ snd[t].pc = "idle"
    /\ Concurrent \/ \A u \in Transfers : u < t => Ended(u)
    /\ snd' = [snd EXCEPT ![t].pc = "send"]
    /\ UNCHANGED <<net, acks, meta, chunks, asm, delivered, handled, losses,
                   late>>

Send(t) ==
    /\ snd[t].pc = "send"
    /\ net' = net \cup {[t |-> t, item |-> snd[t].item,
                         attempt |-> snd[t].attempt]}
    /\ snd' = [snd EXCEPT ![t].pc = "wait"]
    /\ UNCHANGED <<acks, meta, chunks, asm, delivered, handled, losses, late>>

\* Mutant: after the last attempt the call goes on waiting.
NextAttemptHangs(s) ==
    IF s.attempt < RetryCount
    THEN [s EXCEPT !.pc = "send", !.attempt = @ + 1]
    ELSE [s EXCEPT !.pc = "wait"]

\* The next attempt, or the error after the last one.
NextAttempt(s) ==
    IF s.attempt < RetryCount
    THEN [s EXCEPT !.pc = "send", !.attempt = @ + 1]
    ELSE [s EXCEPT !.pc = "failed"]

\* The transport reports an error.
SendFails(t) ==
    /\ snd[t].pc = "send" /\ losses < MaxLoss
    /\ losses' = losses + 1
    /\ snd' = [snd EXCEPT ![t] = NextAttempt(@)]
    /\ UNCHANGED <<net, acks, meta, chunks, asm, delivered, handled, late>>

\* The peer is not connected any more: no further attempt.
Disconnected(t) ==
    /\ snd[t].pc = "send" /\ losses < MaxLoss
    /\ losses' = losses + 1
    /\ snd' = [snd EXCEPT ![t].pc = "failed"]
    /\ UNCHANGED <<net, acks, meta, chunks, asm, delivered, handled, late>>

\* The message, an attempt at it or its acknowledgment has not been lost.
OnTheWay(t) == \/ \E m \in net \cup acks : Awaits(t, m)
               \/ \E a \in asm : Awaits(t, a.msg)

\* ackTimeout, thirty seconds after the send.
Timeout(t) ==
    /\ snd[t].pc = "wait"
    /\ snd' = [snd EXCEPT ![t] = NextAttempt(@)]
    /\ IF OnTheWay(t) THEN late < MaxLate /\ late' = late + 1
       ELSE UNCHANGED late
    /\ UNCHANGED <<net, acks, meta, chunks, asm, delivered, handled, losses>>

\* handleAcknowledgment.  The payload of an acknowledgment is not encrypted and
\* arrives as a JSON map, so neither type assertion finds a failure in it:
\* every acknowledgment counts as success.  One that nobody awaits is dropped.
HandleAcknowledgment(a) ==
    /\ a \in acks
    /\ acks' = acks \ {a}
    /\ snd' = IF ~Awaits(a.t, a) THEN snd
              ELSE IF snd[a.t].item = TotalChunks[a.t]
              THEN [snd EXCEPT ![a.t].pc = "done"]
              ELSE [snd EXCEPT ![a.t] = [pc |-> "send", item |-> @.item + 1,
                                         attempt |-> 1]]
    /\ UNCHANGED <<net, meta, chunks, asm, delivered, handled, losses, late>>

-----------------------------------------------------------------------------
\* The network and the receiver.

Lose(m) ==
    /\ losses < MaxLoss
    /\ losses' = losses + 1
    /\ \/ m \in net /\ net' = net \ {m} /\ UNCHANGED acks
       \/ LoseAcks /\ m \in acks /\ acks' = acks \ {m} /\ UNCHANGED net
    /\ UNCHANGED <<snd, meta, chunks, asm, delivered, handled, late>>

sendAcknowledgment(m) ==
    /\ acks' = acks \cup {m}
    /\ handled' = handled \cup {<<m.t, m.item>>}

\* Mutant: the chunks of an earlier version are kept.
ClearedChunksKept == chunks

ClearedChunks == <<>>

\* handleSyncOperation without data: metadata, the chunks follow.
HandleSyncOperation(m) ==
    /\ m \in net /\ m.item = 0
    /\ net' = net \ {m}
    /\ chunks' = ClearedChunks
    /\ meta' = m.t
    /\ sendAcknowledgment(m)
    /\ UNCHANGED <<snd, asm, delivered, losses, late>>

\* handleChunk, under assemblerMu: the chunk is appended, whether or not the
\* list has it already.
HandleChunk(m) ==
    LET list == Append(chunks, ChunkOf(m.t, m.item))
    IN  /\ m \in net /\ m.item > 0
        /\ net' = net \ {m}
        /\ chunks' = list
        /\ IF Len(list) = TotalChunks[m.t]
           THEN /\ asm' = asm \cup {[msg |-> m, list |-> list]}
                /\ UNCHANGED <<acks, handled>>
           ELSE sendAcknowledgment(m) /\ UNCHANGED asm
        /\ UNCHANGED <<snd, meta, delivered, losses, late>>

\* The rest of handleChunk, after the unlock: the list it has read is
\* assembled; the metadata is whatever is there now.
Assemble(a) ==
    /\ a \in asm
    /\ asm' = asm \ {a}
    /\ IF AssembleChunks(a.list, a.msg.t)
       THEN /\ delivered' = Append(delivered, [op |-> meta,
                                               data |-> Data(a.list)])
            /\ chunks' = <<>>
            /\ meta' = NoOp
       ELSE UNCHANGED <<delivered, chunks, meta>>
    /\ sendAcknowledgment(a.msg)
    /\ UNCHANGED <<snd, net, losses, late>>

-----------------------------------------------------------------------------
Sender(t) == \/ Send(t) \/ SendFails(t) \/ Disconnected(t) \/ Timeout(t)
Handle    == \/ \E m \in net : HandleSyncOperation(m) \/ HandleChunk(m)
             \/ \E a \in asm : Assemble(a)
             \/ \E a \in acks : HandleAcknowledgment(a)

Next == \/ \E t \in Transfers : StartTransfer(t) \/ Sender(t)
        \/ Handle
        \/ \E m \in net \cup acks : Lose(m)

Spec == Init /\ [][Next]_vars

\* Goroutines are scheduled and timers fire.
Fairness == WF_vars(Handle) /\ \A t \in Transfers : WF_vars(Sender(t))

FairSpec == Spec /\ Fairness

-----------------------------------------------------------------------------
\* Every variable has its type.
TypeOK ==
    /\ snd \in [Transfers -> Calls]
    /\ \A t \in Transfers : snd[t].item \in Items(t)
    /\ net \subseteq Messages
    /\ acks \subseteq Messages
    /\ meta \in Transfers \cup {NoOp}
    /\ chunks \in Seq(Chunks)
    /\ asm \subseteq [msg : Messages, list : Seq(Chunks)]
    /\ delivered \in Seq([op : Transfers \cup {NoOp}, data : SUBSET Chunks])
    /\ handled \subseteq (Transfers \X Nat)
    /\ losses \in 0 .. MaxLoss
    /\ late \in 0 .. MaxLate

\* sendMessage returns without an error only after the peer has handled that
\* very message: whatever is lost, late or sent again, the metadata and every
\* chunk before the current one have been handled, and all of them once
\* sendChunkedFile is done.
AckedWasHandled ==
    \A t \in Transfers : \A i \in Items(t) :
        i < snd[t].item \/ snd[t].pc = "done" => <<t, i>> \in handled

\* Whatever chunks of several versions come in, in whatever order and however
\* often: a file that is passed on is, byte for byte, one version of it.
WholeFiles ==
    \A i \in 1 .. Len(delivered) :
        \E t \in Transfers : delivered[i].data = FileOf(t)

\* The inductive invariant behind the two: an acknowledgment exists only for a
\* message that was handled, and a list is assembled only when it has as many
\* entries as the file has chunks.
TransferInv ==
    /\ TypeOK
    /\ \A a \in acks : <<a.t, a.item>> \in handled
    /\ \A a \in asm : Len(a.list) = TotalChunks[a.msg.t]
    /\ AckedWasHandled
    /\ WholeFiles

\* A file whose every message was acknowledged has arrived.
AcknowledgedFileArrives ==
    \A t \in Transfers : snd[t].pc = "done" =>
        \E i \in 1 .. Len(delivered) : delivered[i].data = FileOf(t)

\* Every call of sendChunkedFile returns, however acknowledgments are delayed.
TransfersEnd == \A t \in Transfers : snd[t].pc = "send" ~> Ended(t)

-----------------------------------------------------------------------------
(* Transfers one after the other, without lost or late acknowledgments.     *)

Sequential == ~Concurrent /\ ~LoseAcks /\ MaxLate = 0

Active(t)    == snd[t].pc \in {"send", "wait"}
Arrived(t)   == \E i \in 1 .. Len(delivered) : delivered[i].op = t
Prefix(t, n) == [i \in 1 .. n |-> ChunkOf(t, i)]

\* A transfer begins when those before it have ended.
InTurn == \A t, u \in Transfers : u < t /\ snd[t].pc # "idle" => Ended(u)

\* There is one message, acknowledgment or assembly at most, and it is the one
\* that is waited for.
OneOnTheWay ==
    /\ \A m \in net \cup acks : Awaits(m.t, m)
    /\ \A m, n \in net \cup acks : m = n
    /\ \A a \in asm : Awaits(a.msg.t, a.msg)
    /\ \A a, b \in asm : a = b
    /\ acks = {} \/ net = {}
    /\ asm = {} \/ (net = {} /\ acks = {})

\* The receiver has what was sent of a transfer up to item n, and nothing else.
Holds(t, n) == meta = t /\ chunks = Prefix(t, n) /\ ~Arrived(t)

\* The item before the one on its way, or this one if it was handled; with the
\* last one the file is assembled and passed on.
InStep(t) ==
    LET n == snd[t].item
    IN  /\ acks = {} /\ asm = {} => ~Arrived(t) /\ (n # 0 => Holds(t, n - 1))
        /\ acks # {} /\ n # TotalChunks[t] => Holds(t, n)
        /\ acks # {} /\ n = TotalChunks[t] => Arrived(t)
        /\ asm # {} => /\ n = TotalChunks[t] /\ Holds(t, n)
                       /\ \A a \in asm : a.list = Prefix(t, n)

\* What sender and receiver know of each other when transfers do not overlap:
\* no step of an earlier transfer, retried or given up, is left over, a call that
\* is done has delivered its file, and a file has the metadata of its operation.
SequentialInv ==
    /\ InTurn
    /\ OneOnTheWay
    /\ \A t \in Transfers :
          /\ Active(t) => InStep(t)
          /\ snd[t].pc = "idle" => snd[t].item = 0 /\ ~Arrived(t)
          /\ snd[t].pc = "done" => Arrived(t)
    /\ \A i \in 1 .. Len(delivered) :
          delivered[i].op \in Transfers /\ delivered[i].data = FileOf(delivered[i].op)

CallStates == [t \in Transfers |-> IF Active(t) THEN "active" ELSE snd[t].pc]

\* A delivery counts if its data belongs to the operation of its metadata.
FilesReceived ==
    [i \in 1 .. Len(delivered) |->
        IF \E t \in Transfers : delivered[i].op = t /\ delivered[i].data = FileOf(t)
        THEN delivered[i].op ELSE NoOp]

Delivery == INSTANCE FileDelivery WITH sent <- CallStates, received <- FilesReceived

\* As long as no acknowledgment is lost or late and the versions of a file do
\* not overlap, the protocol keeps the promise of FileDelivery, through lost
\* messages, retries and transfers that were given up half way.
DeliversFiles == Delivery!Spec
=============================================================================
