-------------------------- MODULE SyncEngineProofs --------------------------
(***************************************************************************)
(* Proofs about SyncEngine for any number of peers, any strategy and any   *)
(* bounds: every variable keeps its type, and the causality invariants     *)
(* hold for every peer that has not restarted.  Then what the folders end  *)
(* with, the last change of users who take turns, and that folders which   *)
(* agree stay in agreement until a user changes one.                       *)
(***************************************************************************)
EXTENDS TLAPS, SyncEngine, VectorClockProofs, SequenceTheorems

-----------------------------------------------------------------------------
(* Types of what the operations construct. *)

\* A broadcast is a set of sends.
LEMMA BroadcastType ==
    ASSUME NEW op \in Ops
    PROVE  BroadcastOperation(op) \subseteq Sends
BY DEF BroadcastOperation, Sends, Ops

\* The broadcast of the head of a sequence of operations is a set of sends.
LEMMA BroadcastHeadType ==
    ASSUME NEW p, NEW ops \in Seq(Ops)
    PROVE  BroadcastHead(p, ops) \subseteq Sends
<1>1. ops # <<>> => Head(ops) \in Ops
  BY HeadTailProperties
<1>2. QED BY <1>1, BroadcastType DEF BroadcastHead

\* The replay sends the head of a sequence of operations or parts of it.
LEMMA ReplaySends ==
    ASSUME NEW p, NEW ops, ReplayTo(p, ops)
    PROVE  outbox' \subseteq outbox \cup BroadcastHead(p, ops)
BY DEF ReplayTo

\* The file IDs of handleDelete are file IDs.
LEMMA DeletedIDsType ==
    ASSUME TypeOK, NEW p \in Peers
    PROVE  DeletedIDs(p) \subseteq FileIDs
<1>1. disk[p].data # {} => GenerateFileID(disk[p].data) \in disk[p].data
  BY DEF GenerateFileID
<1>2. disk[p].data \subseteq FileIDs
  BY DEF TypeOK, Files, Contents, FileIDs
<1>3. QED BY <1>1, <1>2 DEF DeletedIDs, GetFileByPath

\* The rows that the handlers and the appliers store are rows.
LEMMA RowTypes ==
    /\ \A p \in Peers, chk \in Contents : LocalRow(p, chk) \in Rows
    /\ \A t \in Appliers : AppliedRow(t) \in Rows
<1>1. \A p \in Peers, chk \in Contents : LocalRow(p, chk) \in Rows
  BY ClockTypes DEF LocalRow, Rows, Mtimes
<1>2. ASSUME NEW t \in Appliers PROVE AppliedRow(t) \in Rows
  <2>1. t.op \in Ops
    BY DEF Appliers
  <2>2. QED BY <2>1 DEF AppliedRow, Rows, Ops
<1>3. QED BY <1>1, <1>2

\* What an applier broadcasts is an operation.
LEMMA AppliedOpTypes ==
    ASSUME TypeOK, NEW t \in Appliers
    PROVE  /\ LocalWinnerOp(t.at, t.op.fid) \in Ops
           /\ MergedOp(t) \in Ops
<1>1. t.op \in Ops /\ t.at \in Peers /\ t.op.fid \in FileIDs
  BY DEF Appliers, Ops
<1>2. db[t.at][t.op.fid] \in Rows
  BY <1>1 DEF TypeOK
<1>3. LocalWinnerOp(t.at, t.op.fid) \in Ops
  BY <1>1, <1>2 DEF LocalWinnerOp, Ops, Rows
<1>4. MergedOp(t) \in Ops
  BY <1>1 DEF MergedOp, Ops, Mtimes
<1>5. QED BY <1>3, <1>4

\* The operations to replay are operations with the clocks of the log.
LEMMA ReplayOpsType ==
    ASSUME TypeOK, NEW p \in Peers
    PROVE  /\ ReplayOps(p) \in Seq(Ops)
           /\ Len(ReplayOps(p)) = Len(log[p])
           /\ \A i \in 1 .. Len(log[p]) : ReplayOps(p)[i].vc = log[p][i].vc
<1>1. log[p] \in Seq(Ops) /\ Len(log[p]) \in Nat
  BY DEF TypeOK
<1>2. \A i \in 1 .. Len(log[p]) : log[p][i] \in Ops
  BY <1>1
<1>3. \A i \in 1 .. Len(log[p]) : [log[p][i] EXCEPT !.mtime = -1] \in Ops
  BY <1>2 DEF Ops, Mtimes
<1>4. ReplayOps(p) \in Seq(Ops) /\ Len(ReplayOps(p)) = Len(log[p])
  BY <1>1, <1>3, SeqDef, LenProperties DEF ReplayOps
<1>5. \A i \in 1 .. Len(log[p]) : ReplayOps(p)[i].vc = log[p][i].vc
  BY <1>2 DEF ReplayOps, Ops
<1>6. QED BY <1>4, <1>5

-----------------------------------------------------------------------------
(* Type correctness, one lemma per group of actions. *)

\* A notification queues one more event, or none.
LEMMA NotifyType ==
    ASSUME TypeOK, NEW p \in Peers,
           NEW event \in Events, Notify(p, event)
    PROVE  fsev' \in [Peers -> Seq(Events)]
BY DEF TypeOK, Notify

\* A change by the user keeps the types.
LEMMA UserType ==
    ASSUME TypeOK, NEW p \in Peers, User(p)
    PROVE  TypeOK'
<1> USE EngineAssumption
<1>1. CASE UserWrite(p)
  <2>0. disk[p] \in Files /\ {nedit + 1} \in Contents
    BY <1>1 DEF UserWrite, MayEdit, TypeOK, Contents
  <2>1. disk' \in [Peers -> Files]
    BY <1>1, <2>0 DEF UserWrite, TypeOK, Files
  <2>2. fsev' \in [Peers -> Seq(Events)]
    BY <1>1, NotifyType DEF UserWrite, Events
  <2>3. nedit' \in 0 .. MaxEdits /\ last' \in Contents
    BY <1>1 DEF UserWrite, MayEdit, TypeOK, Contents
  <2>4. QED BY <1>1, <2>1, <2>2, <2>3 DEF UserWrite, TypeOK, counters
<1>2. CASE UserDelete(p)
  <2>1. disk' \in [Peers -> Files]
    BY <1>2 DEF UserDelete, TypeOK, Files, Absent, Contents
  <2>2. fsev' \in [Peers -> Seq(Events)]
    BY <1>2, NotifyType DEF UserDelete, Events
  <2>3. nedit' \in 0 .. MaxEdits /\ last' \in Contents
    BY <1>2 DEF UserDelete, MayEdit, TypeOK, Contents
  <2>4. QED BY <1>2, <2>1, <2>2, <2>3 DEF UserDelete, TypeOK, counters
<1>3. QED BY <1>1, <1>2 DEF User

\* The watcher and the event handler keep the types; in particular the file
\* ID and the checksum that queueOperation stamps are those of a real file.
LEMMA HandlerType ==
    ASSUME TypeOK, NEW p \in Peers,
           \/ WatcherEvent(p) \/ HandleWrite(p) \/ HashLocal(p)
           \/ StoreLocal(p) \/ HandleDelete(p) \/ QueueOperation(p)
    PROVE  TypeOK'
<1> USE EngineAssumption
<1>1. CASE WatcherEvent(p)
  <2>1. fsev[p] \in Seq(Events) /\ fsev[p] # <<>>
    BY <1>1 DEF WatcherEvent, TypeOK
  <2>2. /\ Head(fsev[p]) \in Events
        /\ Tail(fsev[p]) \in Seq(Events)
    BY <2>1, HeadTailProperties
  <2>3. fsev' \in [Peers -> Seq(Events)]
    BY <1>1, <2>2 DEF WatcherEvent, TypeOK
  <2>4. pending' \in [Peers -> {"none", "create", "update", "delete"}]
    <3>1. PICK event \in Readings(p, Head(fsev[p])) :
             pending' = [pending EXCEPT ![p] = event]
      BY <1>1 DEF WatcherEvent
    <3>2. event \in {"none", "create", "update", "delete"}
      BY <2>2 DEF Readings, Debounce, Events, TypeOK
    <3>3. QED BY <3>1, <3>2 DEF TypeOK
  <2>5. QED BY <1>1, <2>3, <2>4
            DEF WatcherEvent, TypeOK, counters, persistent
<1>2. CASE HandleWrite(p)
  <2>1. pending' \in [Peers -> {"none", "create", "update", "delete"}]
    BY <1>2 DEF HandleWrite, TypeOK
  <2>2. CASE disk[p].data = {}
    BY <1>2, <2>1, <2>2 DEF HandleWrite, TypeOK, counters
  <2>3. CASE disk[p].data # {}
    <3> DEFINE fid == IF disk[p].fid # NoID THEN disk[p].fid
                      ELSE GenerateFileID(disk[p].data)
    <3>1. disk[p] \in Files
      BY DEF TypeOK
    <3>2. GenerateFileID(disk[p].data) \in FileIDs
      BY <2>3, <3>1 DEF Files, Contents, GenerateFileID, FileIDs
    <3>3. fid \in FileIDs
      BY <3>1, <3>2 DEF Files, NoID
    <3> HIDE DEF fid
    <3>4. /\ disk' = [disk EXCEPT ![p].fid = fid]
          /\ ev' = [ev EXCEPT ![p] = [pc |-> "hash", kind |-> "update",
                                      fid |-> fid, chk |-> {}]]
      BY <1>2, <2>3 DEF HandleWrite, fid
    <3>5. disk' \in [Peers -> Files]
      BY <3>1, <3>3, <3>4 DEF TypeOK, Files
    <3>6. ev' \in [Peers -> Handlers]
      BY <3>3, <3>4 DEF TypeOK, Handlers, Contents
    <3>7. fsev' \in [Peers -> Seq(Events)]
      <4>1. fsev' = fsev \/ Notify(p, "unknown")
        BY <1>2, <2>3 DEF HandleWrite
      <4>2. QED BY <4>1, NotifyType DEF TypeOK, Events
    <3>8. QED BY <1>2, <2>1, <3>5, <3>6, <3>7 DEF HandleWrite, TypeOK, counters
  <2>4. QED BY <2>2, <2>3
<1>3. CASE HashLocal(p)
  <2>1. disk[p].data \in Contents
    BY DEF TypeOK, Files
  <2>2. ev[p] \in Handlers /\ ev[p].pc = "hash"
    BY <1>3 DEF HashLocal, TypeOK
  <2>3. [ev[p] EXCEPT !.pc = "store", !.chk = disk[p].data] \in Handlers
    <3>1. ev[p] \in [pc : {"hash", "store", "queue"},
                     kind : {"update", "delete"}, fid : FileIDs,
                     chk : Contents]
      BY <2>2 DEF Handlers, IdleHandler
    <3>2. QED BY <2>1, <3>1 DEF Handlers
  <2>4. IdleHandler \in Handlers
    BY DEF Handlers
  <2>5. ev' \in [Peers -> Handlers]
    BY <1>3, <2>3, <2>4 DEF HashLocal, TypeOK
  <2>6. QED BY <1>3, <2>5
            DEF HashLocal, TypeOK, counters, persistent, watch
<1>4. CASE StoreLocal(p)
  <2>1. ev[p] \in Handlers /\ ev[p].pc = "store"
    BY <1>4 DEF StoreLocal, TypeOK, InsertFile
  <2>2. /\ ev[p].fid \in FileIDs /\ ev[p].chk \in Contents
        /\ [ev[p] EXCEPT !.pc = "queue"] \in Handlers
    BY <2>1 DEF Handlers, IdleHandler
  <2>3. LocalRow(p, ev[p].chk) \in Rows
    BY <2>2, RowTypes
  <2>4. db' \in [Peers -> [FileIDs -> Rows]]
    BY <1>4, <2>2, <2>3 DEF StoreLocal, TypeOK, InsertFile
  <2>5. ev' \in [Peers -> Handlers]
    BY <1>4, <2>2 DEF StoreLocal, TypeOK, InsertFile
  <2>6. QED BY <1>4, <2>4, <2>5
            DEF StoreLocal, TypeOK, counters, watch, InsertFile
<1>5. CASE HandleDelete(p)
  <2>1. pending' \in [Peers -> {"none", "create", "update", "delete"}]
    BY <1>5 DEF HandleDelete, TypeOK, GetFileByPath
  <2>2. \A f \in DeletedIDs(p) : [pc |-> "queue", kind |-> "delete",
                                  fid |-> f, chk |-> {}] \in Handlers
    BY DeletedIDsType DEF Handlers, Contents
  <2>3. ev' \in [Peers -> Handlers]
    BY <1>5, <2>2, ZenonT(30) DEF HandleDelete, TypeOK
  <2>4. QED BY <1>5, <2>1, <2>3
            DEF HandleDelete, TypeOK, counters, persistent, GetFileByPath
<1>6. CASE QueueOperation(p)
  <2> DEFINE vc == Increment(clock[p], p)
             op == [kind |-> ev[p].kind, fid |-> ev[p].fid,
                    chk |-> ev[p].chk, vc |-> vc, peer |-> p, mtime |-> 0]
  <2>1. vc \in VectorClocks
    BY ClockTypes DEF TypeOK
  <2>2. ev[p] \in Handlers /\ ev[p].pc = "queue"
    BY <1>6 DEF QueueOperation, TypeOK, AppendOperation
  <2>3. op \in Ops
    BY <2>1, <2>2 DEF Handlers, IdleHandler, Ops, Mtimes
  <2>4. /\ clock' = [clock EXCEPT ![p] = vc]
        /\ log' = [log EXCEPT ![p] = Append(@, op)]
        /\ outbox' = outbox \cup BroadcastOperation(op)
        /\ ev' = [ev EXCEPT ![p] = IdleHandler]
    BY <1>6 DEF QueueOperation, AppendOperation
  <2> HIDE DEF vc, op
  <2>5. clock' \in [Peers -> VectorClocks]
    BY <2>1, <2>4 DEF TypeOK
  <2>6. log' \in [Peers -> Seq(Ops)]
    BY <2>3, <2>4 DEF TypeOK
  <2>7. outbox' \subseteq Sends
    BY <2>3, <2>4, BroadcastType DEF TypeOK
  <2>8. ev' \in [Peers -> Handlers]
    BY <2>4 DEF TypeOK, Handlers
  <2>9. QED BY <1>6, <2>5, <2>6, <2>7, <2>8
            DEF QueueOperation, TypeOK, counters, watch, AppendOperation
<1>7. QED BY <1>1, <1>2, <1>3, <1>4, <1>5, <1>6

\* Senders and receivers keep the types.
LEMMA NetworkType ==
    ASSUME TypeOK, Sender \/ Receiver
    PROVE  TypeOK'
<1> USE EngineAssumption
<1>1. ASSUME NEW s \in outbox, SendOp(s) PROVE TypeOK'
  <2>1. s \in Sends
    BY DEF TypeOK
  <2>2. disk[s.from].data \in Contents /\ {} \in Contents
    BY <2>1 DEF TypeOK, Files, Sends, Contents
  <2>3. \A data \in Contents :
          [to |-> s.to, op |-> s.op, data |-> data, late |-> FALSE] \in Messages
    BY <2>1 DEF Sends, Messages
  <2>4. net' \subseteq Messages
    BY <1>1, <2>2, <2>3 DEF SendOp, TypeOK
  <2>5. outbox' \subseteq Sends
    BY <1>1 DEF SendOp, TypeOK
  <2>6. QED BY <1>1, <2>4, <2>5
            DEF SendOp, TypeOK, counters, persistent, watch
<1>2. ASSUME NEW s \in outbox, LoseSend(s) PROVE TypeOK'
  <2>1. outbox' \subseteq Sends /\ losses' \in 0 .. MaxLoss
    BY <1>2 DEF LoseSend, TypeOK
  <2>2. QED BY <1>2, <2>1 DEF LoseSend, TypeOK, persistent, watch
<1>3. ASSUME NEW m \in net, Deliver(m) PROVE TypeOK'
  <2>1. m \in Messages /\ m.to \in Peers /\ m.op \in Ops /\ m.data \in Contents
    BY DEF TypeOK, Messages
  <2>2. m.op.vc \in VectorClocks
    BY <2>1 DEF Ops
  <2>3. clock' \in [Peers -> VectorClocks]
    BY <1>3, <2>1, <2>2, ClockTypes DEF Deliver, TypeOK
  <2>4. [at |-> m.to, op |-> m.op, data |-> m.data, merged |-> FALSE,
         pc |-> "check"] \in Appliers
    BY <2>1 DEF Appliers
  <2>5. thr' \subseteq Appliers
    BY <1>3, <2>4 DEF Deliver, TypeOK
  <2>6. [m EXCEPT !.late = TRUE] \in Messages
    BY <2>1 DEF Messages
  <2>7. net' \subseteq Messages /\ dups' \in 0 .. MaxDups
    <3>1. CASE net' = net \ {m} /\ UNCHANGED dups
      BY <3>1 DEF TypeOK
    <3>2. CASE /\ dups < MaxDups /\ dups' = dups + 1
               /\ net' = (net \ {m}) \cup {[m EXCEPT !.late = TRUE]}
      <4>1. net' \subseteq Messages
        BY <2>6, <3>2 DEF TypeOK
      <4>2. dups' \in 0 .. MaxDups
        BY <3>2 DEF TypeOK
      <4>3. QED BY <4>1, <4>2
    <3>3. QED BY <1>3, <3>1, <3>2 DEF Deliver
  <2>8. QED BY <1>3, <2>3, <2>5, <2>7 DEF Deliver, TypeOK, persistent, watch
<1>4. QED BY <1>1, <1>2, <1>3 DEF Sender, Receiver

\* The states an applier moves to.
LEMMA CheckedTypes ==
    ASSUME TypeOK, NEW t \in Appliers
    PROVE  /\ \A pc \in {"write", "insert", "unignore"} :
                [t EXCEPT !.pc = pc] \in Appliers
           /\ \A data \in Contents :
                [t EXCEPT !.pc = "write", !.op.chk = {}, !.data = data,
                          !.merged = TRUE] \in Appliers
           /\ \A op \in Ops :
                [t EXCEPT !.pc = "unignore", !.op = op] \in Appliers
<1>1. [t.op EXCEPT !.chk = {}] \in Ops
  BY DEF Appliers, Ops, Contents
<1>2. \A data \in Contents :
        [t EXCEPT !.pc = "write", !.op.chk = {}, !.data = data,
                  !.merged = TRUE] \in Appliers
  BY <1>1 DEF Appliers
<1>3. QED BY <1>2 DEF Appliers

\* Every step of an applier keeps the types.
LEMMA ApplierType ==
    ASSUME TypeOK, NEW t \in thr,
           \/ Check(t) \/ ApplyWrite(t) \/ ApplyRemove(t)
           \/ ApplyInsert(t) \/ Unignore(t)
    PROVE  TypeOK'
<1> USE EngineAssumption
<1>0. t \in Appliers /\ t.at \in Peers /\ t.op \in Ops /\ t.data \in Contents
  BY DEF TypeOK, Appliers
<1>1. CASE Check(t)
  <2>1. disk[t.at].data \in Contents
    BY <1>0 DEF TypeOK, Files
  <2>2. t.data \cup disk[t.at].data \in Contents
    BY <1>0, <2>1 DEF Contents
  <2>3. ignored' \in [Peers -> BOOLEAN]
    BY <1>1 DEF Check, TypeOK, IgnorePath
  <2>4. LocalWinnerOp(t.at, t.op.fid) \in Ops
    BY <1>0, AppliedOpTypes
  <2>5. outbox' \subseteq Sends
    BY <1>1, <2>4, BroadcastType DEF Check, TypeOK, IgnorePath
  <2>6. /\ [t EXCEPT !.pc = "write"] \in Appliers
        /\ [t EXCEPT !.pc = "unignore"] \in Appliers
        /\ [t EXCEPT !.pc = "write", !.op.chk = {},
                     !.data = @ \cup disk[t.at].data, !.merged = TRUE]
              \in Appliers
        /\ [t EXCEPT !.pc = "unignore",
                     !.op = LocalWinnerOp(t.at, t.op.fid)] \in Appliers
    BY <1>0, <2>2, <2>4, CheckedTypes
  <2>7. thr' \subseteq Appliers
    BY <1>1, <2>6 DEF Check, MoveTo, TypeOK, IgnorePath
  <2>8. QED BY <1>1, <2>3, <2>5, <2>7
            DEF Check, TypeOK, counters, persistent, IgnorePath
<1>2. CASE ApplyWrite(t)
  <2>1. [fid |-> t.op.fid, data |-> t.data] \in Files
    BY <1>0 DEF Files, Ops
  <2>2. disk' \in [Peers -> Files]
    BY <1>2, <2>1 DEF ApplyWrite, TypeOK
  <2>3. fsev' \in [Peers -> Seq(Events)]
    BY <1>0, <1>2, NotifyType DEF ApplyWrite, Events
  <2>4. thr' \subseteq Appliers
    BY <1>0, <1>2, CheckedTypes DEF ApplyWrite, MoveTo, TypeOK
  <2>5. QED BY <1>2, <2>2, <2>3, <2>4 DEF ApplyWrite, TypeOK, counters
<1>3. CASE ApplyRemove(t)
  <2>1. disk' \in [Peers -> Files]
    BY <1>3 DEF ApplyRemove, TypeOK, Files, Absent, Contents
  <2>2. fsev' \in [Peers -> Seq(Events)]
    BY <1>0, <1>3, NotifyType DEF ApplyRemove, Events, TypeOK
  <2>3. thr' \subseteq Appliers
    BY <1>0, <1>3, CheckedTypes DEF ApplyRemove, MoveTo, TypeOK
  <2>4. QED BY <1>3, <2>1, <2>2, <2>3 DEF ApplyRemove, TypeOK, counters
<1>4. CASE ApplyInsert(t)
  <2>1. AppliedRow(t) \in Rows /\ MergedOp(t) \in Ops
    BY <1>0, RowTypes, AppliedOpTypes
  <2>2. db' \in [Peers -> [FileIDs -> Rows]]
    BY <1>4, <2>1 DEF ApplyInsert, TypeOK, InsertFile
  <2>3. outbox' \subseteq Sends
    BY <1>4, <2>1, BroadcastType DEF ApplyInsert, TypeOK, InsertFile
  <2>4. /\ [t EXCEPT !.pc = "unignore"] \in Appliers
        /\ [[t EXCEPT !.pc = "unignore"] EXCEPT !.op = MergedOp(t)] \in Appliers
    BY <1>0, <2>1, CheckedTypes DEF Appliers
  <2>5. thr' \subseteq Appliers
    BY <1>4, <2>4 DEF ApplyInsert, MoveTo, TypeOK, InsertFile
  <2>6. QED BY <1>4, <2>2, <2>3, <2>5
            DEF ApplyInsert, TypeOK, counters, watch, InsertFile
<1>5. CASE Unignore(t)
  <2>1. ignored' \in [Peers -> BOOLEAN] /\ thr' \subseteq Appliers
    BY <1>5 DEF Unignore, TypeOK, WatchPath
  <2>2. QED BY <1>5, <2>1 DEF Unignore, TypeOK, counters, persistent, WatchPath
<1>6. QED BY <1>1, <1>2, <1>3, <1>4, <1>5

\* Crash, restart and replay keep the types.
LEMMA LifeCycleType ==
    ASSUME TypeOK, NEW p \in Peers, Crash(p) \/ Start(p) \/ ReplayNext(p)
    PROVE  TypeOK'
<1> USE EngineAssumption
<1>1. CASE Crash(p)
  <2>1. restarts' \in [Peers -> 0 .. MaxRestarts]
    BY <1>1 DEF Crash, TypeOK
  <2>2. /\ up' \in [Peers -> BOOLEAN] /\ ignored' \in [Peers -> BOOLEAN]
        /\ replay' \in [Peers -> Seq(Ops)]
        /\ fsev' \in [Peers -> Seq(Events)]
        /\ pending' \in [Peers -> {"none", "create", "update", "delete"}]
    BY <1>1 DEF Crash, TypeOK
  <2>3. ev' \in [Peers -> Handlers]
    BY <1>1 DEF Crash, TypeOK, Handlers
  <2>4. outbox' \subseteq Sends /\ thr' \subseteq Appliers
    BY <1>1 DEF Crash, TypeOK
  <2>5. QED BY <1>1, <2>1, <2>2, <2>3, <2>4 DEF Crash, TypeOK, persistent
<1>2. CASE Start(p)
  <2>1. ReplayOps(p) \in Seq(Ops)
    BY ReplayOpsType
  <2>2. clock' \in [Peers -> VectorClocks]
    BY <1>2, ClockTypes DEF Start, TypeOK
  <2>3. up' \in [Peers -> BOOLEAN] /\ replay' \in [Peers -> Seq(Ops)]
    BY <1>2, <2>1 DEF Start, TypeOK
  <2>4. outbox' \subseteq Sends
    BY <1>2, <2>1, BroadcastHeadType, ReplaySends DEF Start, TypeOK
  <2>5. QED BY <1>2, <2>2, <2>3, <2>4
            DEF Start, TypeOK, counters, persistent, watch
<1>3. CASE ReplayNext(p)
  <2>1. replay[p] \in Seq(Ops) /\ replay[p] # <<>>
    BY <1>3 DEF ReplayNext, TypeOK
  <2>2. Tail(replay[p]) \in Seq(Ops)
    BY <2>1, HeadTailProperties
  <2>3. replay' \in [Peers -> Seq(Ops)] /\ outbox' \subseteq Sends
    BY <1>3, <2>2, BroadcastHeadType, ReplaySends DEF ReplayNext, TypeOK
  <2>4. QED BY <1>3, <2>3 DEF ReplayNext, TypeOK, counters, persistent, watch
<1>4. QED BY <1>1, <1>2, <1>3

\* The initial state is well typed.
LEMMA InitType == Init => TypeOK
<1> SUFFICES ASSUME Init PROVE TypeOK
  OBVIOUS
<1> USE EngineAssumption
<1>1. NewVectorClock \in VectorClocks /\ {} \in Contents
  BY ClockTypes DEF Contents
<1>2. disk \in [Peers -> Files]
  BY <1>1 DEF Init, Files, Absent
<1>3. db \in [Peers -> [FileIDs -> Rows]]
  BY <1>1 DEF Init, Rows, Mtimes
<1>4. ev \in [Peers -> Handlers]
  BY DEF Init, Handlers
<1>5. /\ clock \in [Peers -> VectorClocks]
      /\ log \in [Peers -> Seq(Ops)] /\ replay \in [Peers -> Seq(Ops)]
      /\ fsev \in [Peers -> Seq(Events)]
  BY <1>1 DEF Init
<1>6. /\ up \in [Peers -> BOOLEAN] /\ ignored \in [Peers -> BOOLEAN]
      /\ pending \in [Peers -> {"none", "create", "update", "delete"}]
      /\ restarts \in [Peers -> 0 .. MaxRestarts]
  BY DEF Init
<1>7. /\ outbox \subseteq Sends /\ net \subseteq Messages
      /\ thr \subseteq Appliers /\ last \in Contents
      /\ nedit \in 0 .. MaxEdits /\ losses \in 0 .. MaxLoss
      /\ dups \in 0 .. MaxDups
  BY <1>1 DEF Init
<1>8. QED BY <1>2, <1>3, <1>4, <1>5, <1>6, <1>7 DEF TypeOK

\* Every step keeps the types.
LEMMA NextType == TypeOK /\ [Next]_vars => TypeOK'
<1> SUFFICES ASSUME TypeOK, [Next]_vars PROVE TypeOK'
  OBVIOUS
<1>1. ASSUME NEW p \in Peers, User(p) \/ Engine(p) PROVE TypeOK'
  BY <1>1, UserType, HandlerType, LifeCycleType DEF Engine
<1>2. CASE Sender \/ Receiver
  BY <1>2, NetworkType
<1>3. CASE Applier
  BY <1>3, ApplierType DEF Applier
<1>4. CASE UNCHANGED vars
  BY <1>4 DEF TypeOK, vars
<1>5. QED BY <1>1, <1>2, <1>3, <1>4 DEF Next

\* Every variable of the engines keeps its type: in particular the file ID an
\* event handler queues is a real one, and every row, operation and applier is
\* well formed whatever the interleaving of the goroutines and crashes.
THEOREM TypeCorrect == Spec => []TypeOK
BY InitType, NextType, PTL DEF Spec

-----------------------------------------------------------------------------
(* Causality. *)

causal == <<clock, db, log, up, replay, outbox, net, thr, restarts>>

\* The clocks of CausalInv are vector clocks.
LEMMA CausalTypes ==
    ASSUME TypeOK
    PROVE  /\ \A p, q \in Peers : clock[p] \in VectorClocks /\ clock[p][q] \in Nat
           /\ \A s \in outbox : s.op.vc \in VectorClocks
           /\ \A m \in net : m.op.vc \in VectorClocks /\ m.to \in Peers
           /\ \A t \in thr : /\ t.op.vc \in VectorClocks
                             /\ t.at \in Peers /\ t.op.fid \in FileIDs
           /\ \A p \in Peers : \A f \in FileIDs : db[p][f].vc \in VectorClocks
           /\ \A p \in Peers : restarts[p] \in Nat
           /\ \A p \in Peers : \A i \in 1 .. Len(log[p]) :
                log[p][i].vc \in VectorClocks
           /\ \A p \in Peers : \A i \in 1 .. Len(replay[p]) :
                replay[p][i].vc \in VectorClocks
<1>1. \A p, q \in Peers : clock[p] \in VectorClocks /\ clock[p][q] \in Nat
  BY DEF TypeOK, VectorClocks
<1>2. \A s \in outbox : s.op.vc \in VectorClocks
  BY DEF TypeOK, Sends, Ops
<1>3. \A m \in net : m.op.vc \in VectorClocks /\ m.to \in Peers
  BY DEF TypeOK, Messages, Ops
<1>4. \A t \in thr : /\ t.op.vc \in VectorClocks
                     /\ t.at \in Peers /\ t.op.fid \in FileIDs
  BY DEF TypeOK, Appliers, Ops
<1>5. \A p \in Peers : \A f \in FileIDs : db[p][f].vc \in VectorClocks
  BY DEF TypeOK, Rows
<1>6. \A p \in Peers : restarts[p] \in Nat
  BY EngineAssumption DEF TypeOK
<1>7. \A p \in Peers : /\ \A i \in 1 .. Len(log[p]) : log[p][i] \in Ops
                       /\ \A i \in 1 .. Len(replay[p]) : replay[p][i] \in Ops
  BY DEF TypeOK
<1>8. \A op \in Ops : op.vc \in VectorClocks
  BY DEF Ops
<1>9. QED BY <1>1, <1>2, <1>3, <1>4, <1>5, <1>6, <1>7, <1>8

\* Steps that only move operations between senders, the wire and appliers.
LEMMA CausalMove ==
    ASSUME CausalInv, TypeOK',
           UNCHANGED <<clock, db, log, up, replay, restarts>>,
           \A s \in outbox' : Known(s.op.vc),
           \A m \in net' : Known(m.op.vc),
           \A t \in thr' : /\ Known(t.op.vc)
                           /\ restarts[t.at] = 0 => Leq(t.op.vc, clock[t.at])
    PROVE  CausalInv'
<1>1. OwnClockDominates'
  BY DEF CausalInv, OwnClockDominates, Known
<1>2. DownHasCrashed' /\ AppliersBehindClock' /\ RowsBehindClock' /\ LogOrdered'
  BY DEF CausalInv, DownHasCrashed, AppliersBehindClock, RowsBehindClock,
         LogOrdered, Leq
<1>3. QED BY <1>1, <1>2 DEF CausalInv

\* The steps of user, watcher and handler that touch no clock, row or message
\* keep the causality invariant.
LEMMA LocalCausal ==
    ASSUME CausalInv, TypeOK', NEW p \in Peers,
           \/ User(p) \/ WatcherEvent(p) \/ HandleWrite(p) \/ HashLocal(p)
           \/ HandleDelete(p)
    PROVE  CausalInv'
<1>1. UNCHANGED causal
  BY DEF causal, User, UserWrite, UserDelete, WatcherEvent, HandleWrite,
         HashLocal, HandleDelete, persistent, counters, GetFileByPath
<1>2. QED BY <1>1, CausalMove
          DEF causal, CausalInv, OwnClockDominates, AppliersBehindClock

\* A row without a clock is known to everyone.
LEMMA StoreLocalCausal ==
    ASSUME CausalInv, TypeOK', NEW p \in Peers, StoreLocal(p)
    PROVE  CausalInv'
<1>1. UNCHANGED <<clock, log, up, replay, outbox, net, thr, restarts>>
  BY DEF StoreLocal, counters, InsertFile
<1>2. \A q \in Peers : \A f \in FileIDs :
        db'[q][f].vc = db[q][f].vc \/ db'[q][f].vc = NewVectorClock
  BY DEF StoreLocal, LocalRow, CausalInv, TypeOK, InsertFile
<1>3. Known(NewVectorClock) /\ \A q \in Peers : Leq(NewVectorClock, clock[q])
  BY CausalTypes DEF Known, NewVectorClock, Leq, CausalInv
<1>4. \A q \in Peers : \A f \in FileIDs : Known(db'[q][f].vc)
  BY <1>2, <1>3 DEF CausalInv, OwnClockDominates
<1>5. OwnClockDominates'
  BY <1>1, <1>4 DEF CausalInv, OwnClockDominates, Known
<1>6. RowsBehindClock'
  BY <1>1, <1>2, <1>3 DEF CausalInv, RowsBehindClock, Leq
<1>7. DownHasCrashed' /\ AppliersBehindClock' /\ LogOrdered'
  BY <1>1 DEF CausalInv, DownHasCrashed, AppliersBehindClock, LogOrdered, Leq
<1>8. QED BY <1>5, <1>6, <1>7 DEF CausalInv

\* Known, in the next state, of a clock of this state or the next.
KnownAfter(vc) == \A p \in Peers : restarts'[p] = 0 => vc[p] <= clock'[p][p]

\* The stamp of a new operation: one ahead at its own peer, equal to the
\* peer's clock elsewhere.
LEMMA QueueOperationCausal ==
    ASSUME CausalInv, TypeOK', NEW p \in Peers, QueueOperation(p)
    PROVE  CausalInv'
<1> DEFINE vc == Increment(clock[p], p)
           op == [kind |-> ev[p].kind, fid |-> ev[p].fid, chk |-> ev[p].chk,
                  vc |-> vc, peer |-> p, mtime |-> 0]
<1>0. TypeOK
  BY DEF CausalInv
<1>1. /\ clock' = [clock EXCEPT ![p] = vc]
      /\ log' = [log EXCEPT ![p] = Append(@, op)]
      /\ outbox' = outbox \cup BroadcastOperation(op)
      /\ UNCHANGED <<db, up, replay, net, thr, restarts>>
  BY DEF QueueOperation, counters, AppendOperation
<1>2. /\ vc \in VectorClocks /\ vc[p] = clock[p][p] + 1
      /\ \A q \in Peers \ {p} : vc[q] = clock[p][q]
      /\ Leq(clock[p], vc)
  BY <1>0, CausalTypes, ClockTypes, IncrementIsLater
<1>3. op.vc = vc
  OBVIOUS
<1> HIDE DEF vc, op
<1>4. clock'[p] = vc /\ \A q \in Peers \ {p} : clock'[q] = clock[q]
  BY <1>0, <1>1 DEF TypeOK
<1>5. \A q \in Peers : Leq(clock[q], clock'[q])
  BY <1>0, <1>2, <1>4, CausalTypes DEF Leq
<1>6. \A v \in VectorClocks : Known(v) => KnownAfter(v)
  <2> SUFFICES ASSUME NEW v \in VectorClocks, Known(v), NEW q \in Peers,
                      restarts'[q] = 0
               PROVE  v[q] <= clock'[q][q]
    BY DEF KnownAfter
  <2>1. v[q] <= clock[q][q]
    BY <1>1 DEF Known
  <2>2. clock[q][q] <= clock'[q][q]
    BY <1>5 DEF Leq
  <2>3. v[q] \in Nat /\ clock[q][q] \in Nat /\ clock'[q][q] \in Nat
    BY <1>0, <1>2, <1>4, CausalTypes DEF VectorClocks
  <2>4. QED BY <2>1, <2>2, <2>3
<1>7. KnownAfter(vc)
  BY <1>1, <1>2, <1>4, <1>0, CausalTypes
     DEF Known, KnownAfter, CausalInv, OwnClockDominates
<1>8. \A s \in outbox' : KnownAfter(s.op.vc)
  <2>1. \A s \in BroadcastOperation(op) : s.op.vc = vc
    BY <1>3 DEF BroadcastOperation
  <2>2. QED BY <1>0, <1>1, <1>6, <1>7, <2>1, CausalTypes
            DEF CausalInv, OwnClockDominates
<1>l. /\ \A q \in Peers : log[q] \in Seq(Ops) /\ Len(log[q]) \in Nat
      /\ \A q \in Peers \ {p} : log'[q] = log[q]
      /\ log'[p] = Append(log[p], op)
  BY <1>0, <1>1 DEF TypeOK
<1>a. /\ Len(log'[p]) = Len(log[p]) + 1 /\ log'[p][Len(log[p]) + 1] = op
      /\ \A i \in 1 .. Len(log[p]) : log'[p][i] = log[p][i]
  BY <1>l
<1>9. \A q \in Peers : \A i \in 1 .. Len(log'[q]) : KnownAfter(log'[q][i].vc)
  <2> SUFFICES ASSUME NEW q \in Peers, NEW i \in 1 .. Len(log'[q])
               PROVE  KnownAfter(log'[q][i].vc)
    OBVIOUS
  <2>1. log[q] \in Seq(Ops) /\ Len(log[q]) \in Nat
    BY <1>l
  <2>2. CASE i \in 1 .. Len(log[q])
    <3>1. log'[q][i] = log[q][i]
      BY <1>l, <1>a, <2>1, <2>2
    <3>2. log[q][i].vc \in VectorClocks
      BY <1>0, <2>2, CausalTypes
    <3>3. QED BY <1>6, <2>2, <3>1, <3>2 DEF CausalInv, OwnClockDominates
  <2>3. CASE i \notin 1 .. Len(log[q])
    <3>1. q = p /\ i = Len(log[q]) + 1
      BY <1>l, <1>a, <2>1, <2>3
    <3>2. log'[q][i] = op
      BY <1>l, <1>a, <2>1, <3>1
    <3>3. QED BY <1>3, <1>7, <3>2
  <2>4. QED BY <2>2, <2>3
<1>10. OwnClockDominates'
  <2>1. \A q \in Peers : KnownAfter(clock[q])
    BY <1>0, <1>6, CausalTypes DEF CausalInv, OwnClockDominates
  <2>2. \A q \in Peers : KnownAfter(clock'[q])
    BY <1>4, <1>7, <2>1
  <2>3. \A q \in Peers : \A i \in 1 .. Len(replay[q]) :
          replay[q][i].vc \in VectorClocks
    BY <1>0, CausalTypes
  <2>4. /\ \A m \in net' : KnownAfter(m.op.vc)
        /\ \A t \in thr' : KnownAfter(t.op.vc)
        /\ \A q \in Peers :
             /\ \A f \in FileIDs : KnownAfter(db'[q][f].vc)
             /\ \A i \in 1 .. Len(replay'[q]) : KnownAfter(replay'[q][i].vc)
    BY <1>0, <1>1, <1>6, <2>3, CausalTypes DEF CausalInv, OwnClockDominates
  <2>5. QED BY <1>8, <1>9, <2>2, <2>4 DEF OwnClockDominates, Known, KnownAfter
<1>11. AppliersBehindClock'
  BY <1>0, <1>1, <1>4, <1>5, CausalTypes, LeqPartialOrder, <1>2
     DEF CausalInv, AppliersBehindClock
<1>12. RowsBehindClock'
  BY <1>0, <1>1, <1>4, <1>5, CausalTypes, LeqPartialOrder, <1>2
     DEF CausalInv, RowsBehindClock
<1>13. LogOrdered'
  <2> SUFFICES ASSUME NEW q \in Peers, restarts[q] = 0,
                      NEW i \in 1 .. Len(log'[q]), NEW j \in 1 .. Len(log'[q]),
                      i < j
               PROVE  log'[q][i].vc[q] < log'[q][j].vc[q]
    BY <1>1 DEF LogOrdered
  <2>1. log[q] \in Seq(Ops) /\ Len(log[q]) \in Nat
    BY <1>l
  <2>2. CASE j \in 1 .. Len(log[q])
    <3>1. i \in 1 .. Len(log[q])
      BY <2>1, <2>2
    <3>2. \A k \in 1 .. Len(log[q]) : log'[q][k] = log[q][k]
      BY <1>l, <1>a, <2>1
    <3>3. QED BY <2>2, <3>1, <3>2 DEF CausalInv, LogOrdered
  <2>3. CASE j \notin 1 .. Len(log[q])
    <3>1. q = p /\ j = Len(log[q]) + 1
      BY <1>l, <1>a, <2>1, <2>3
    <3>2. log'[q][j] = op /\ i \in 1 .. Len(log[q])
      BY <1>l, <1>a, <2>1, <3>1
    <3>3. log'[q][i] = log[q][i]
      BY <1>l, <1>a, <2>1, <3>2
    <3>4. log[q][i].vc \in VectorClocks
      BY <1>0, <3>2, CausalTypes
    <3>5. log[q][i].vc[q] <= clock[q][q]
      BY <3>2 DEF CausalInv, OwnClockDominates, Known
    <3>6. log[q][i].vc[q] \in Nat /\ clock[p][p] \in Nat
      BY <1>0, <3>4, CausalTypes DEF VectorClocks
    <3>7. QED BY <1>2, <1>3, <3>1, <3>2, <3>3, <3>5, <3>6
  <2>4. QED BY <2>2, <2>3
<1>14. DownHasCrashed'
  BY <1>1 DEF CausalInv, DownHasCrashed
<1>15. QED BY <1>10, <1>11, <1>12, <1>13, <1>14 DEF CausalInv

\* A sender moves a clock from the outbox to the wire, or drops it.
LEMMA SenderCausal ==
    ASSUME CausalInv, TypeOK', NEW s \in outbox, SendOp(s) \/ LoseSend(s)
    PROVE  CausalInv'
<1>1. /\ UNCHANGED <<clock, db, log, up, replay, restarts, thr>>
      /\ outbox' \subseteq outbox
  BY DEF SendOp, LoseSend, persistent, counters
<1>2. \A m \in net' : m \in net \/ m.op = s.op
  BY DEF SendOp, LoseSend
<1>3. Known(s.op.vc)
  BY DEF CausalInv, OwnClockDominates
<1>4. QED BY <1>1, <1>2, <1>3, CausalMove
          DEF CausalInv, OwnClockDominates, AppliersBehindClock

\* The receiver merges a clock that runs ahead of nobody, and only then is
\* there an applier with it.
LEMMA DeliverCausal ==
    ASSUME CausalInv, TypeOK', NEW m \in net, Deliver(m)
    PROVE  CausalInv'
<1> DEFINE p  == m.to
           vc == Merge(clock[p], m.op.vc)
<1>0. TypeOK
  BY DEF CausalInv
<1>1. /\ clock' = [clock EXCEPT ![p] = vc]
      /\ UNCHANGED <<db, log, up, replay, outbox, restarts>>
      /\ \A u \in thr' : u \in thr \/ (u.at = p /\ u.op = m.op)
      /\ \A n \in net' : n \in net \/ n = [m EXCEPT !.late = TRUE]
  BY DEF Deliver, persistent
<1>2. /\ p \in Peers /\ m.op.vc \in VectorClocks /\ clock[p] \in VectorClocks
      /\ m \in Messages
  BY <1>0, CausalTypes DEF TypeOK
<1>3. /\ vc \in VectorClocks
      /\ Leq(clock[p], vc) /\ Leq(m.op.vc, vc)
  BY <1>2, ClockTypes, MergeIsLeastUpperBound
<1>4. \A q \in Peers : vc[q] = clock[p][q] \/ vc[q] = m.op.vc[q]
  BY <1>2 DEF Merge
<1>5. \A n \in net' : n \in net \/ n.op = m.op
  BY <1>1, <1>2 DEF Messages
<1> HIDE DEF vc
<1>6. clock'[p] = vc /\ \A q \in Peers \ {p} : clock'[q] = clock[q]
  BY <1>0, <1>1, <1>2 DEF TypeOK
<1>7. \A q \in Peers : Leq(clock[q], clock'[q])
  BY <1>0, <1>3, <1>6, CausalTypes DEF Leq
<1>8. Known(m.op.vc) /\ \A q \in Peers : Known(clock[q])
  BY DEF CausalInv, OwnClockDominates
<1>9. Known(vc)
  BY <1>4, <1>8, <1>2 DEF Known
<1>10. \A v \in VectorClocks : Known(v) => KnownAfter(v)
  <2> SUFFICES ASSUME NEW v \in VectorClocks, Known(v), NEW q \in Peers,
                      restarts'[q] = 0
               PROVE  v[q] <= clock'[q][q]
    BY DEF KnownAfter
  <2>1. v[q] <= clock[q][q]
    BY <1>1 DEF Known
  <2>2. clock[q][q] <= clock'[q][q]
    BY <1>7 DEF Leq
  <2>3. v[q] \in Nat /\ clock[q][q] \in Nat /\ clock'[q][q] \in Nat
    BY <1>0, <1>3, <1>6, CausalTypes DEF VectorClocks
  <2>4. QED BY <2>1, <2>2, <2>3
<1>11. OwnClockDominates'
  <2>1. \A q \in Peers : KnownAfter(clock'[q])
    BY <1>0, <1>3, <1>6, <1>8, <1>9, <1>10, CausalTypes
  <2>2. \A q \in Peers :
          /\ \A i \in 1 .. Len(replay[q]) : replay[q][i].vc \in VectorClocks
          /\ \A i \in 1 .. Len(log[q]) : log[q][i].vc \in VectorClocks
    BY <1>0, CausalTypes
  <2>3. \A q \in Peers :
          /\ \A f \in FileIDs : KnownAfter(db'[q][f].vc)
          /\ \A i \in 1 .. Len(log'[q]) : KnownAfter(log'[q][i].vc)
          /\ \A i \in 1 .. Len(replay'[q]) : KnownAfter(replay'[q][i].vc)
    BY <1>0, <1>1, <1>10, <2>2, CausalTypes DEF CausalInv, OwnClockDominates
  <2>4. /\ \A s \in outbox' : KnownAfter(s.op.vc)
        /\ \A n \in net' : KnownAfter(n.op.vc)
        /\ \A t \in thr' : KnownAfter(t.op.vc)
    BY <1>0, <1>1, <1>2, <1>5, <1>8, <1>10, CausalTypes
       DEF CausalInv, OwnClockDominates
  <2>5. QED BY <2>1, <2>3, <2>4 DEF OwnClockDominates, Known, KnownAfter
<1>12. AppliersBehindClock'
  BY <1>0, <1>1, <1>2, <1>3, <1>6, <1>7, CausalTypes, LeqPartialOrder
     DEF CausalInv, AppliersBehindClock
<1>13. RowsBehindClock'
  BY <1>0, <1>1, <1>3, <1>6, <1>7, CausalTypes, LeqPartialOrder
     DEF CausalInv, RowsBehindClock
<1>14. DownHasCrashed' /\ LogOrdered'
  BY <1>1 DEF CausalInv, DownHasCrashed, LogOrdered
<1>15. QED BY <1>11, <1>12, <1>13, <1>14 DEF CausalInv

\* An applier that decides, writes or ends: what it carries on, and what it
\* broadcasts, is its operation's clock or that of a row of its peer.
LEMMA ApplierMoveCausal ==
    ASSUME CausalInv, TypeOK', NEW t \in thr,
           Check(t) \/ ApplyWrite(t) \/ ApplyRemove(t) \/ Unignore(t)
    PROVE  CausalInv'
<1> DEFINE row == db[t.at][t.op.fid]
<1>0. /\ t \in Appliers /\ t.at \in Peers /\ t.op \in Ops
      /\ t.op.fid \in FileIDs
  BY CausalTypes DEF CausalInv, TypeOK, Appliers
<1>1. UNCHANGED <<clock, db, log, up, replay, restarts, net>>
  BY DEF Check, ApplyWrite, ApplyRemove, Unignore, persistent, counters,
         IgnorePath, WatchPath
<1>2. /\ Known(t.op.vc) /\ Known(row.vc)
      /\ restarts[t.at] = 0 => Leq(t.op.vc, clock[t.at])
      /\ restarts[t.at] = 0 => Leq(row.vc, clock[t.at])
  BY <1>0 DEF CausalInv, OwnClockDominates, AppliersBehindClock,
              RowsBehindClock
<1>3. \A s \in outbox' : s \in outbox \/ s.op.vc = row.vc
  <2>1. \A s \in BroadcastOperation(LocalWinnerOp(t.at, t.op.fid)) :
          s.op.vc = row.vc
    BY DEF BroadcastOperation, LocalWinnerOp
  <2> HIDE DEF row
  <2>2. CASE Check(t)
    BY <2>1, <2>2 DEF Check, IgnorePath
  <2>3. CASE ApplyWrite(t) \/ ApplyRemove(t) \/ Unignore(t)
    BY <2>3 DEF ApplyWrite, ApplyRemove, Unignore, WatchPath
  <2>4. QED BY <2>2, <2>3
<1>4. \A u \in thr' : \/ u \in thr
                      \/ u.at = t.at /\ (u.op.vc = t.op.vc \/ u.op.vc = row.vc)
  <2>1. CASE Check(t)
    <3>1. /\ [t EXCEPT !.pc = "write"].at = t.at
          /\ [t EXCEPT !.pc = "write"].op = t.op
          /\ [t EXCEPT !.pc = "unignore"].at = t.at
          /\ [t EXCEPT !.pc = "unignore"].op = t.op
      BY <1>0 DEF Appliers
    <3>2. LET u == [t EXCEPT !.pc = "write", !.op.chk = {},
                             !.data = @ \cup disk[t.at].data, !.merged = TRUE]
          IN  u.at = t.at /\ u.op.vc = t.op.vc
      BY <1>0 DEF Appliers, Ops
    <3>3. LET op == LocalWinnerOp(t.at, t.op.fid)
              u  == [t EXCEPT !.pc = "unignore", !.op = op]
          IN  u.at = t.at /\ u.op.vc = row.vc
      BY <1>0 DEF Appliers, LocalWinnerOp
    <3>4. QED BY <2>1, <3>1, <3>2, <3>3 DEF Check, MoveTo, IgnorePath
  <2>2. CASE ApplyWrite(t) \/ ApplyRemove(t)
    BY <1>0, <2>2 DEF ApplyWrite, ApplyRemove, MoveTo, Appliers
  <2>3. CASE Unignore(t)
    BY <2>3 DEF Unignore, WatchPath
  <2>4. QED BY <2>1, <2>2, <2>3
<1> HIDE DEF row
<1>5. QED BY <1>1, <1>2, <1>3, <1>4, CausalMove
          DEF CausalInv, OwnClockDominates, AppliersBehindClock

\* The row an applier stores has a clock its peer has merged.
LEMMA ApplyInsertCausal ==
    ASSUME CausalInv, TypeOK', NEW t \in thr, ApplyInsert(t)
    PROVE  CausalInv'
<1>0. /\ t \in Appliers /\ t.at \in Peers /\ t.op \in Ops
      /\ t.op.fid \in FileIDs
  BY CausalTypes DEF CausalInv, TypeOK, Appliers
<1>1. UNCHANGED <<clock, log, up, replay, restarts, net>>
  BY DEF ApplyInsert, counters, InsertFile
<1>2. MergedOp(t).vc = t.op.vc /\ AppliedRow(t).vc = t.op.vc
  BY <1>0 DEF MergedOp, AppliedRow, Ops
<1>3. /\ Known(t.op.vc)
      /\ restarts[t.at] = 0 => Leq(t.op.vc, clock[t.at])
  BY DEF CausalInv, OwnClockDominates, AppliersBehindClock
<1>4. \A s \in outbox' : s \in outbox \/ s.op.vc = t.op.vc
  BY <1>2 DEF ApplyInsert, BroadcastOperation, InsertFile
<1>5. \A u \in thr' : u \in thr \/ (u.at = t.at /\ u.op.vc = t.op.vc)
  <2> DEFINE done == [t EXCEPT !.pc = "unignore"]
  <2>1. /\ done.at = t.at /\ done.op = t.op
        /\ [done EXCEPT !.op = MergedOp(t)].at = t.at
        /\ [done EXCEPT !.op = MergedOp(t)].op = MergedOp(t)
    BY <1>0 DEF Appliers
  <2>2. \A u \in thr' : u \in thr \/ u = done
                        \/ u = [done EXCEPT !.op = MergedOp(t)]
    BY DEF ApplyInsert, MoveTo, InsertFile
  <2> HIDE DEF done
  <2>3. QED BY <1>2, <2>1, <2>2
<1>6. \A q \in Peers : \A f \in FileIDs :
        \/ db'[q][f] = db[q][f]
        \/ q = t.at /\ db'[q][f].vc = t.op.vc
  BY <1>0, <1>2 DEF ApplyInsert, CausalInv, TypeOK, InsertFile
<1>7. \A q \in Peers : \A f \in FileIDs : Known(db'[q][f].vc)
  BY <1>3, <1>6 DEF CausalInv, OwnClockDominates
<1>8. OwnClockDominates'
  BY <1>1, <1>3, <1>4, <1>5, <1>7 DEF CausalInv, OwnClockDominates, Known
<1>9. AppliersBehindClock'
  BY <1>1, <1>3, <1>5 DEF CausalInv, AppliersBehindClock
<1>10. RowsBehindClock'
  BY <1>1, <1>3, <1>6 DEF CausalInv, RowsBehindClock
<1>11. DownHasCrashed' /\ LogOrdered'
  BY <1>1 DEF CausalInv, DownHasCrashed, LogOrdered
<1>12. QED BY <1>8, <1>9, <1>10, <1>11 DEF CausalInv

\* A crash exempts its peer, and takes its appliers and senders with it.
LEMMA CrashCausal ==
    ASSUME CausalInv, TypeOK', NEW p \in Peers, Crash(p)
    PROVE  CausalInv'
<1>0. TypeOK
  BY DEF CausalInv
<1>1. /\ UNCHANGED <<clock, db, log, net>>
      /\ outbox' \subseteq outbox /\ thr' \subseteq thr
  BY DEF Crash, persistent
<1>2. /\ restarts' = [restarts EXCEPT ![p] = @ + 1]
      /\ up' = [up EXCEPT ![p] = FALSE]
      /\ replay' = [replay EXCEPT ![p] = <<>>]
  BY DEF Crash
<1>3. restarts'[p] > 0 /\ \A q \in Peers \ {p} : restarts'[q] = restarts[q]
  BY <1>0, <1>2, CausalTypes DEF TypeOK
<1>4. \A q \in Peers : restarts'[q] = 0 => restarts[q] = 0
  BY <1>3
<1>5. /\ Len(replay'[p]) = 0
      /\ \A q \in Peers \ {p} : replay'[q] = replay[q]
  BY <1>0, <1>2 DEF TypeOK
<1>6. \A q \in Peers : \A i \in 1 .. Len(replay'[q]) : Known(replay'[q][i].vc)
  BY <1>5 DEF CausalInv, OwnClockDominates
<1>7. OwnClockDominates'
  BY <1>1, <1>4, <1>6 DEF CausalInv, OwnClockDominates, Known
<1>8. AppliersBehindClock'
  BY <1>0, <1>1, <1>4, CausalTypes DEF CausalInv, AppliersBehindClock
<1>9. RowsBehindClock' /\ LogOrdered'
  BY <1>1, <1>4 DEF CausalInv, RowsBehindClock, LogOrdered
<1>10. DownHasCrashed'
  BY <1>0, <1>2, <1>3 DEF CausalInv, DownHasCrashed, TypeOK
<1>11. QED BY <1>7, <1>8, <1>9, <1>10 DEF CausalInv

\* A restart empties a clock that no property speaks of any more, and its
\* replay carries the clocks of the log.
LEMMA StartCausal ==
    ASSUME CausalInv, TypeOK', NEW p \in Peers, Start(p)
    PROVE  CausalInv'
<1>0. TypeOK
  BY DEF CausalInv
<1>1. UNCHANGED <<db, log, net, thr, restarts>>
  BY DEF Start, persistent, counters
<1>2. /\ clock' = [clock EXCEPT ![p] = NewVectorClock]
      /\ up' = [up EXCEPT ![p] = TRUE]
      /\ replay' = [replay EXCEPT ![p] = ReplayOps(p)]
      /\ outbox' \subseteq outbox \cup BroadcastHead(p, ReplayOps(p))
  BY ReplaySends DEF Start
<1>3. restarts[p] > 0
  BY DEF Start, CausalInv, DownHasCrashed
<1>4. clock'[p] = NewVectorClock /\ \A q \in Peers \ {p} : clock'[q] = clock[q]
  BY <1>0, <1>2 DEF TypeOK
<1>5. \A v \in VectorClocks : Known(v) => KnownAfter(v)
  BY <1>1, <1>3, <1>4 DEF Known, KnownAfter
<1>6. NewVectorClock \in VectorClocks /\ Known(NewVectorClock)
  BY <1>0, CausalTypes, ClockTypes DEF Known, NewVectorClock
<1>7. /\ Len(ReplayOps(p)) = Len(log[p])
      /\ \A i \in 1 .. Len(log[p]) : ReplayOps(p)[i].vc = log[p][i].vc
      /\ ReplayOps(p) \in Seq(Ops)
  BY <1>0, ReplayOpsType
<1>8. \A i \in 1 .. Len(ReplayOps(p)) : /\ ReplayOps(p)[i].vc \in VectorClocks
                                        /\ Known(ReplayOps(p)[i].vc)
  BY <1>0, <1>7, CausalTypes DEF CausalInv, OwnClockDominates
<1>9. \A s \in BroadcastHead(p, ReplayOps(p)) : /\ s.op.vc \in VectorClocks
                                                /\ Known(s.op.vc)
  <2>1. ReplayOps(p) # <<>> => /\ Head(ReplayOps(p)) = ReplayOps(p)[1]
                               /\ 1 \in 1 .. Len(ReplayOps(p))
    BY <1>7
  <2>2. QED BY <1>8, <2>1 DEF BroadcastHead, BroadcastOperation
<1>10. OwnClockDominates'
  <2>1. \A s \in outbox' : KnownAfter(s.op.vc)
    BY <1>0, <1>2, <1>5, <1>9, CausalTypes DEF CausalInv, OwnClockDominates
  <2>2. \A q \in Peers : KnownAfter(clock'[q])
    BY <1>0, <1>4, <1>5, <1>6, CausalTypes DEF CausalInv, OwnClockDominates
  <2>3. \A q \in Peers : \A i \in 1 .. Len(replay'[q]) :
          KnownAfter(replay'[q][i].vc)
    <3>1. replay'[p] = ReplayOps(p)
          /\ \A q \in Peers \ {p} : replay'[q] = replay[q]
      BY <1>0, <1>2 DEF TypeOK
    <3>2. QED BY <1>0, <1>5, <1>8, <3>1, CausalTypes
              DEF CausalInv, OwnClockDominates
  <2>4. /\ \A m \in net' : KnownAfter(m.op.vc)
        /\ \A t \in thr' : KnownAfter(t.op.vc)
        /\ \A q \in Peers :
             /\ \A f \in FileIDs : KnownAfter(db'[q][f].vc)
             /\ \A i \in 1 .. Len(log'[q]) : KnownAfter(log'[q][i].vc)
    BY <1>0, <1>1, <1>5, CausalTypes DEF CausalInv, OwnClockDominates
  <2>5. QED BY <2>1, <2>2, <2>3, <2>4 DEF OwnClockDominates, Known, KnownAfter
<1>11. AppliersBehindClock'
  BY <1>0, <1>1, <1>3, <1>4, CausalTypes DEF CausalInv, AppliersBehindClock
<1>12. RowsBehindClock'
  BY <1>1, <1>3, <1>4 DEF CausalInv, RowsBehindClock
<1>13. DownHasCrashed' /\ LogOrdered'
  BY <1>0, <1>1, <1>2 DEF CausalInv, DownHasCrashed, LogOrdered, TypeOK
<1>14. QED BY <1>10, <1>11, <1>12, <1>13 DEF CausalInv

\* The replay broadcasts operations whose clocks the log already holds.
LEMMA ReplayNextCausal ==
    ASSUME CausalInv, TypeOK', NEW p \in Peers, ReplayNext(p)
    PROVE  CausalInv'
<1> DEFINE rest == Tail(replay[p])
<1>0. TypeOK
  BY DEF CausalInv
<1>1. UNCHANGED <<clock, db, log, up, net, thr, restarts>>
  BY DEF ReplayNext, persistent, counters
<1>2. /\ replay' = [replay EXCEPT ![p] = rest]
      /\ outbox' \subseteq outbox \cup BroadcastHead(p, rest)
      /\ replay[p] # <<>>
  BY ReplaySends DEF ReplayNext
<1>3. replay[p] \in Seq(Ops)
  BY <1>0 DEF TypeOK
<1>4. /\ rest \in Seq(Ops) /\ Len(rest) = Len(replay[p]) - 1
      /\ \A i \in 1 .. Len(rest) : rest[i] = replay[p][i + 1]
  BY <1>2, <1>3, HeadTailProperties
<1>5. \A i \in 1 .. Len(rest) : i + 1 \in 1 .. Len(replay[p])
  BY <1>3, <1>4
<1> HIDE DEF rest
<1>6. \A i \in 1 .. Len(rest) : Known(rest[i].vc)
  BY <1>4, <1>5 DEF CausalInv, OwnClockDominates
<1>7. \A s \in BroadcastHead(p, rest) : Known(s.op.vc)
  <2>1. rest # <<>> => Head(rest) = rest[1] /\ 1 \in 1 .. Len(rest)
    BY <1>4
  <2>2. QED BY <1>6, <2>1 DEF BroadcastHead, BroadcastOperation
<1>8. replay'[p] = rest /\ \A q \in Peers \ {p} : replay'[q] = replay[q]
  BY <1>0, <1>2 DEF TypeOK
<1>9. \A q \in Peers : \A i \in 1 .. Len(replay'[q]) : Known(replay'[q][i].vc)
  BY <1>6, <1>8 DEF CausalInv, OwnClockDominates
<1>10. OwnClockDominates'
  BY <1>1, <1>2, <1>7, <1>9 DEF CausalInv, OwnClockDominates, Known
<1>11. /\ AppliersBehindClock' /\ RowsBehindClock' /\ LogOrdered'
       /\ DownHasCrashed'
  BY <1>1 DEF CausalInv, AppliersBehindClock, RowsBehindClock, LogOrdered,
              DownHasCrashed
<1>12. QED BY <1>10, <1>11 DEF CausalInv

\* Every clock is zero at the start.
LEMMA InitCausal == Init => CausalInv
<1> SUFFICES ASSUME Init PROVE CausalInv
  OBVIOUS
<1>1. TypeOK
  BY InitType
<1>2. OwnClockDominates
  BY DEF Init, OwnClockDominates, Known, NewVectorClock
<1>3. DownHasCrashed /\ AppliersBehindClock /\ LogOrdered
  BY DEF Init, DownHasCrashed, AppliersBehindClock, LogOrdered
<1>4. RowsBehindClock
  BY DEF Init, RowsBehindClock, Leq, NewVectorClock
<1>5. QED BY <1>1, <1>2, <1>3, <1>4 DEF CausalInv

\* Every step keeps the causality invariant: it is inductive.
LEMMA NextCausal == CausalInv /\ [Next]_vars => CausalInv'
<1> SUFFICES ASSUME CausalInv, [Next]_vars PROVE CausalInv'
  OBVIOUS
<1>0. TypeOK'
  BY NextType DEF CausalInv
<1>1. ASSUME NEW p \in Peers, User(p) \/ Engine(p) PROVE CausalInv'
  BY <1>0, <1>1, LocalCausal, StoreLocalCausal, QueueOperationCausal,
     CrashCausal, StartCausal, ReplayNextCausal DEF Engine
<1>2. CASE Sender
  BY <1>0, <1>2, SenderCausal DEF Sender
<1>3. CASE Receiver
  BY <1>0, <1>3, DeliverCausal DEF Receiver
<1>4. CASE Applier
  BY <1>0, <1>4, ApplierMoveCausal, ApplyInsertCausal DEF Applier
<1>5. CASE UNCHANGED vars
  BY <1>0, <1>5, CausalMove
     DEF vars, CausalInv, OwnClockDominates, AppliersBehindClock
<1>6. QED BY <1>1, <1>2, <1>3, <1>4, <1>5 DEF Next

\* The causality invariant holds in every reachable state.
THEOREM CausalityHolds == Spec => []CausalInv
BY InitCausal, NextCausal, PTL DEF Spec

\* No clock in the system runs ahead of the counter of a peer that has never
\* restarted, so queueOperation never reuses a stamp.
THEOREM OwnClockDominatesHolds == Spec => []OwnClockDominates
<1>1. CausalInv => OwnClockDominates
  BY DEF CausalInv
<1>2. QED BY <1>1, CausalityHolds, PTL

\* A peer that has never restarted knows every operation its files table
\* reflects: processIncomingFileAsync merges before it stores.
THEOREM RowsBehindClockHolds == Spec => []RowsBehindClock
<1>1. CausalInv => RowsBehindClock
  BY DEF CausalInv
<1>2. QED BY <1>1, CausalityHolds, PTL

\* The operations table of a peer that has never restarted is strictly ordered
\* by the peer's own counter.
THEOREM LogOrderedHolds == Spec => []LogOrdered
<1>1. CausalInv => LogOrdered
  BY DEF CausalInv
<1>2. QED BY <1>1, CausalityHolds, PTL

\* A step either leaves the clock of a peer, or advances it, or is the Start
\* of that peer.
LEMMA ClockStep ==
    ASSUME TypeOK, [Next]_vars
    PROVE  \A p \in Peers : Leq(clock[p], clock'[p]) \/ (~up[p] /\ up'[p])
<1>0. \A p \in Peers : clock[p] \in VectorClocks /\ Leq(clock[p], clock[p])
  BY LeqPartialOrder DEF TypeOK
<1>1. CASE clock' = clock
  BY <1>0, <1>1
<1>2. ASSUME NEW p \in Peers, QueueOperation(p)
      PROVE  \A q \in Peers : Leq(clock[q], clock'[q])
  <2>1. clock' = [clock EXCEPT ![p] = Increment(clock[p], p)]
    BY <1>2 DEF QueueOperation, AppendOperation
  <2>2. Leq(clock[p], Increment(clock[p], p))
    BY <1>0, IncrementIsLater
  <2>3. QED BY <1>0, <2>1, <2>2 DEF TypeOK
<1>3. ASSUME NEW m \in net, Deliver(m)
      PROVE  \A q \in Peers : Leq(clock[q], clock'[q])
  <2>1. m.to \in Peers /\ m.op.vc \in VectorClocks
    BY DEF TypeOK, Messages, Ops
  <2>2. clock' = [clock EXCEPT ![m.to] = Merge(clock[m.to], m.op.vc)]
    BY <1>3 DEF Deliver
  <2>3. Leq(clock[m.to], Merge(clock[m.to], m.op.vc))
    BY <1>0, <2>1, MergeIsLeastUpperBound
  <2>4. QED BY <1>0, <2>2, <2>3 DEF TypeOK
<1>4. ASSUME NEW p \in Peers, Start(p)
      PROVE  \A q \in Peers : Leq(clock[q], clock'[q]) \/ (~up[q] /\ up'[q])
  <2>1. /\ clock' = [clock EXCEPT ![p] = NewVectorClock]
        /\ up' = [up EXCEPT ![p] = TRUE] /\ ~up[p]
    BY <1>4 DEF Start
  <2>2. QED BY <1>0, <2>1 DEF TypeOK
<1>5. ASSUME NEW p \in Peers, User(p) \/ Engine(p)
      PROVE  clock' = clock \/ QueueOperation(p) \/ Start(p)
  BY <1>5 DEF User, Engine, UserWrite, UserDelete, WatcherEvent, HandleWrite,
              HashLocal, StoreLocal, HandleDelete, Crash, ReplayNext, InsertFile,
              GetFileByPath
<1>6. Sender \/ Applier => clock' = clock
  BY DEF Sender, SendOp, LoseSend, Applier, Check, ApplyWrite, ApplyRemove,
         ApplyInsert, Unignore, IgnorePath, InsertFile, WatchPath
<1>7. UNCHANGED vars => clock' = clock
  BY DEF vars
<1>8. QED BY <1>1, <1>2, <1>3, <1>4, <1>5, <1>6, <1>7 DEF Next, Receiver

\* Between restarts no interleaving of handlers and appliers moves the clock of
\* a peer backwards.
THEOREM ClockMonotoneHolds == Spec => ClockMonotone
<1>1. TypeOK /\ [Next]_vars =>
        [\A p \in Peers : Leq(clock[p], clock'[p]) \/ (~up[p] /\ up'[p])]_vars
  BY ClockStep
<1>2. QED BY <1>1, TypeCorrect, PTL DEF Spec, ClockMonotone

-----------------------------------------------------------------------------
(* Events and broadcasts.                                                   *)

WriteEvents == {"create", "update", "unknown", "applied"}

\* What Notify does to the events of the peers.
LEMMA NotifyFacts ==
    ASSUME TypeOK, NEW p \in Peers, NEW event, Notify(p, event)
    PROVE  /\ fsev'[p] = fsev[p] \/ fsev'[p] = Append(fsev[p], event)
           /\ \A q \in Peers \ {p} : fsev'[q] = fsev[q]
BY DEF TypeOK, Notify

LEMMA AppendWriteEvent ==
    ASSUME NEW s \in Seq(WriteEvents), NEW event \in WriteEvents
    PROVE  Append(s, event) \in Seq(WriteEvents)
OBVIOUS

\* The author of a broadcast speaks to everyone else.
LEMMA BroadcastReaches ==
    ASSUME NEW p \in Peers, NEW op, op.peer = p, BroadcastOperation(op) \subseteq outbox'
    PROVE  \A q \in Peers \ {p} : Incoming(q)'
<1> SUFFICES ASSUME NEW q \in Peers \ {p}
             PROVE  Incoming(q)'
  OBVIOUS
<1>1. [from |-> op.peer, to |-> q, op |-> op] \in outbox'
  BY DEF BroadcastOperation
<1>2. QED BY <1>1 DEF Incoming

-----------------------------------------------------------------------------
(* The ignoring of the path.                                                *)

\* The ignoring begins with an applier, and ends before the last one does.
LEMMA IgnoredByApplierStays ==
    ASSUME TypeOK, IgnoredByApplier, [Next]_vars
    PROVE  IgnoredByApplier'
<1>1. CASE UNCHANGED ignored /\ thr \subseteq thr'
  BY <1>1 DEF IgnoredByApplier
<1>2. ASSUME NEW p \in Peers,
             \/ UserWrite(p) \/ UserDelete(p) \/ WatcherEvent(p) \/ HandleWrite(p)
             \/ HashLocal(p) \/ StoreLocal(p) \/ HandleDelete(p) \/ QueueOperation(p)
             \/ Start(p) \/ ReplayNext(p)
      PROVE  IgnoredByApplier'
  <2>1. UNCHANGED <<ignored, thr>>
    BY <1>2 DEF UserWrite, UserDelete, WatcherEvent, HandleWrite, HashLocal, StoreLocal,
                HandleDelete, QueueOperation, Start, ReplayNext, watch, GetFileByPath, InsertFile
  <2>2. QED BY <1>1, <2>1
<1>3. ASSUME NEW s \in outbox, SendOp(s) \/ LoseSend(s) PROVE IgnoredByApplier'
  BY <1>1, <1>3 DEF SendOp, LoseSend, watch
<1>4. ASSUME NEW m \in net, Deliver(m) PROVE IgnoredByApplier'
  BY <1>1, <1>4 DEF Deliver, watch
<1>5. ASSUME NEW t \in thr,
             Check(t) \/ ApplyWrite(t) \/ ApplyRemove(t) \/ ApplyInsert(t)
      PROVE  IgnoredByApplier'
  <2>1. t \in Appliers /\ t.at \in Peers
    BY DEF TypeOK, Appliers
  <2>2. \A q \in Peers \ {t.at} : ignored'[q] = ignored[q]
    BY <1>5, <2>1 DEF Check, ApplyWrite, ApplyRemove, ApplyInsert, IgnorePath, InsertFile,
                            watch, TypeOK
  <2>3. thr \ {t} \subseteq thr' /\ \E u \in thr' : u.at = t.at /\ u.pc # "check"
    <3> DEFINE Past(u) == u.at = t.at /\ u.pc # "check"
    <3>1. /\ \A pc : pc # "check" => Past([t EXCEPT !.pc = pc])
          /\ \A pc, op : pc # "check" => Past([t EXCEPT !.pc = pc, !.op = op])
          /\ \A d : Past([t EXCEPT !.pc = "write", !.op.chk = {}, !.data = d, !.merged = TRUE])
          /\ \A pc, op : pc # "check" => Past([[t EXCEPT !.pc = pc] EXCEPT !.op = op])
      BY <2>1 DEF Appliers
    <3>2. ASSUME NEW u, MoveTo(t, u), Past(u)
          PROVE  thr \ {t} \subseteq thr' /\ \E v \in thr' : Past(v)
      BY <3>2 DEF MoveTo
    <3> SUFFICES thr \ {t} \subseteq thr' /\ \E v \in thr' : Past(v)
      OBVIOUS
    <3> HIDE DEF Past
    <3>3. CASE Check(t)
      BY <3>1, <3>2, <3>3 DEF Check
    <3>4. CASE ApplyWrite(t) \/ ApplyRemove(t)
      BY <3>1, <3>2, <3>4 DEF ApplyWrite, ApplyRemove
    <3>5. CASE ApplyInsert(t)
      BY <3>1, <3>2, <3>5 DEF ApplyInsert, InsertFile
    <3>6. QED BY <1>5, <3>3, <3>4, <3>5
  <2>4. QED BY <2>1, <2>2, <2>3 DEF IgnoredByApplier
<1>6. ASSUME NEW t \in thr, Unignore(t) PROVE IgnoredByApplier'
  <2>1. t.at \in Peers /\ ignored' = [ignored EXCEPT ![t.at] = FALSE] /\ thr' = thr \ {t}
    BY <1>6 DEF Unignore, WatchPath, TypeOK, Appliers
  <2>2. ~ignored'[t.at] /\ \A q \in Peers \ {t.at} : ignored'[q] = ignored[q]
    BY <2>1 DEF TypeOK
  <2>3. QED BY <2>1, <2>2 DEF IgnoredByApplier
<1>7. ASSUME NEW p \in Peers, Crash(p) PROVE IgnoredByApplier'
  <2>1. ignored' = [ignored EXCEPT ![p] = FALSE] /\ thr' = {t \in thr : t.at # p}
    BY <1>7 DEF Crash
  <2>2. ~ignored'[p] /\ \A q \in Peers \ {p} : ignored'[q] = ignored[q]
    BY <2>1 DEF TypeOK
  <2>3. QED BY <2>1, <2>2 DEF IgnoredByApplier
<1>8. CASE UNCHANGED vars
  BY <1>1, <1>8 DEF vars
<1>9. QED BY <1>2, <1>3, <1>4, <1>5, <1>6, <1>7, <1>8
          DEF Next, User, Engine, Sender, Receiver, Applier

\* For any peers, overlapping changes, crashes, losses and repeated messages: a
\* path is ignored only while an applier is there that will end it.
THEOREM IgnoredByApplierHolds == Spec => []IgnoredByApplier
<1>1. Init => IgnoredByApplier
  BY DEF Init, IgnoredByApplier
<1>2. TypeOK /\ IgnoredByApplier /\ [Next]_vars => IgnoredByApplier'
  BY IgnoredByApplierStays
<1>3. QED BY <1>1, <1>2, TypeCorrect, PTL DEF Spec

-----------------------------------------------------------------------------
(* Users who take turns.                                                    *)

\* A change waits until the one before has settled, no process crashes and no
\* send fails for good.
TakingTurns == Overlap = FALSE /\ MaxLoss = 0 /\ MaxRestarts = 0

\* A send is never without a file to read.
LEMMA SendsCarry ==
    ASSUME TurnsInv, NEW s \in outbox
    PROVE  s.op.kind = "delete" \/ disk[s.from].data # {}
<1>1. s.op \in OpsOnTheWay
  BY DEF OpsOnTheWay
<1>2. CASE DeleteTold
  BY <1>1, <1>2 DEF DeleteTold, DeleteOnTheWay
<1>3. ASSUME NEW f \in FileIDs, WriteTold(f)
      PROVE  disk[s.from].data # {}
  BY <1>3 DEF WriteTold, WriteOnTheWay, Updated
<1>4. QED BY <1>2, <1>3 DEF TurnsInv, DeleteUnnoticed, WriteUnnoticed

\* The steps that are left when no process crashes and no send is lost.
LEMMA TurnsNext ==
    ASSUME TakingTurns, TurnsInv, Next
    PROVE  \/ \E p \in Peers :
                \/ UserWrite(p) \/ UserDelete(p) \/ WatcherEvent(p) \/ HandleWrite(p)
                \/ HashLocal(p) \/ StoreLocal(p) \/ HandleDelete(p) \/ QueueOperation(p)
           \/ \E s \in outbox : SendOp(s)
           \/ \E m \in net : Deliver(m)
           \/ \E t \in thr : \/ Check(t) \/ ApplyWrite(t) \/ ApplyRemove(t)
                             \/ ApplyInsert(t) \/ Unignore(t)
<1>1. \A p \in Peers : ~Crash(p) /\ ~Start(p) /\ ~ReplayNext(p)
  BY DEF TakingTurns, TurnsInv, NeverCrashed, Crash, Start, ReplayNext
<1>2. \A s \in outbox : ~LoseSend(s)
  BY DEF TakingTurns, TurnsInv, CausalInv, TypeOK, LoseSend
<1>3. QED BY <1>1, <1>2 DEF Next, User, Engine, Sender, Receiver, Applier

\* No step of these crashes a process.
LEMMA NeverCrashedStays ==
    ASSUME TakingTurns, TurnsInv, [Next]_vars
    PROVE  NeverCrashed'
<1>1. UNCHANGED <<up, replay, restarts>>
  <2>1. CASE UNCHANGED vars
    BY <2>1 DEF vars
  <2>2. ASSUME NEW p \in Peers,
               \/ UserWrite(p) \/ UserDelete(p) \/ WatcherEvent(p) \/ HandleWrite(p)
               \/ HashLocal(p) \/ StoreLocal(p) \/ HandleDelete(p) \/ QueueOperation(p)
        PROVE  UNCHANGED <<up, replay, restarts>>
    BY <2>2 DEF UserWrite, UserDelete, WatcherEvent, HandleWrite, HashLocal, StoreLocal,
                HandleDelete, QueueOperation, counters, GetFileByPath, InsertFile
  <2>3. ASSUME NEW s \in outbox, SendOp(s) PROVE UNCHANGED <<up, replay, restarts>>
    BY <2>3 DEF SendOp, counters
  <2>4. ASSUME NEW m \in net, Deliver(m) PROVE UNCHANGED <<up, replay, restarts>>
    BY <2>4 DEF Deliver
  <2>5. ASSUME NEW t \in thr,
               Check(t) \/ ApplyWrite(t) \/ ApplyRemove(t) \/ ApplyInsert(t) \/ Unignore(t)
        PROVE  UNCHANGED <<up, replay, restarts>>
    BY <2>5 DEF Check, ApplyWrite, ApplyRemove, ApplyInsert, Unignore, counters, InsertFile,
                IgnorePath, WatchPath
  <2>6. QED BY <2>1, <2>2, <2>3, <2>4, <2>5, TurnsNext
<1>2. QED BY <1>1 DEF TurnsInv, NeverCrashed

\* A peer that does not know the latest operation of another is always about
\* to hear of it.
LEMMA ClocksToldStays ==
    ASSUME TakingTurns, TurnsInv, [Next]_vars
    PROVE  ClocksTold'
<1>0. TypeOK /\ ClocksTold /\ CausalInv /\ OwnClockDominates /\ NeverCrashed
  BY DEF TurnsInv, CausalInv
<1>1. CASE UNCHANGED clock /\ outbox \subseteq outbox' /\ net \subseteq net'
  BY <1>0, <1>1 DEF ClocksTold
<1>2. ASSUME NEW p \in Peers,
             \/ UserWrite(p) \/ UserDelete(p) \/ WatcherEvent(p) \/ HandleWrite(p)
             \/ HashLocal(p) \/ StoreLocal(p) \/ HandleDelete(p)
      PROVE  ClocksTold'
  <2>1. UNCHANGED <<clock, outbox, net>>
    BY <1>2 DEF UserWrite, UserDelete, WatcherEvent, HandleWrite, HashLocal, StoreLocal,
                HandleDelete, GetFileByPath, InsertFile
  <2>2. QED BY <1>1, <2>1
<1>3. ASSUME NEW t \in thr,
             Check(t) \/ ApplyWrite(t) \/ ApplyRemove(t) \/ ApplyInsert(t) \/ Unignore(t)
      PROVE  ClocksTold'
  <2>1. UNCHANGED <<clock, net>> /\ outbox \subseteq outbox'
    BY <1>3 DEF Check, ApplyWrite, ApplyRemove, ApplyInsert, Unignore, InsertFile, IgnorePath,
                WatchPath
  <2>2. QED BY <1>1, <2>1
<1>4. ASSUME NEW p \in Peers, QueueOperation(p) PROVE ClocksTold'
  <2> DEFINE vc == Increment(clock[p], p)
             op == [kind |-> ev[p].kind, fid |-> ev[p].fid, chk |-> ev[p].chk,
                    vc |-> vc, peer |-> p, mtime |-> 0]
  <2>1. /\ clock' = [clock EXCEPT ![p] = vc] /\ net' = net
        /\ outbox' = outbox \cup BroadcastOperation(op)
    BY <1>4 DEF QueueOperation, AppendOperation
  <2>2. vc[p] = clock[p][p] + 1 /\ \A q \in Peers \ {p} : vc[q] = clock[p][q]
    BY <1>0, CausalTypes, IncrementIsLater
  <2>3. op.vc = vc /\ op.peer = p
    OBVIOUS
  <2> HIDE DEF op, vc
  <2>4. clock'[p] = vc /\ \A q \in Peers \ {p} : clock'[q] = clock[q]
    BY <1>0, <2>1 DEF TypeOK
  <2>5. \A q \in Peers \ {p} : \E s \in outbox' : s.to = q /\ s.op.vc[p] = clock'[p][p]
    <3>1. \A q \in Peers \ {p} : [from |-> op.peer, to |-> q, op |-> op] \in outbox'
      BY <2>1, <2>3 DEF BroadcastOperation
    <3>2. QED BY <2>3, <2>4, <3>1
  <2>6. ASSUME NEW q \in Peers, NEW r \in Peers, q # p
        PROVE  clock'[q][q] = clock[q][q] /\ clock'[r][q] = clock[r][q]
    BY <2>2, <2>4, <2>6
  <2>7. QED BY <1>0, <2>1, <2>5, <2>6 DEF ClocksTold
<1>5. ASSUME NEW s \in outbox, SendOp(s) PROVE ClocksTold'
  <2>1. /\ clock' = clock /\ outbox' = outbox \ {s}
        /\ \E m \in net' : m.to = s.to /\ m.op = s.op
        /\ net \subseteq net'
    <3> DEFINE data == IF s.op.kind = "delete" THEN {} ELSE disk[s.from].data
               m == [to |-> s.to, op |-> s.op, data |-> data, late |-> FALSE]
    <3>1. ~(s.op.kind = "update" /\ data = {})
      BY SendsCarry
    <3>2. /\ clock' = clock /\ outbox' = outbox \ {s}
          /\ net' = IF s.op.kind = "update" /\ data = {} THEN net ELSE net \cup {m}
      BY <1>5 DEF SendOp
    <3>3. m.to = s.to /\ m.op = s.op
      OBVIOUS
    <3> HIDE DEF data, m
    <3>4. QED BY <3>1, <3>2, <3>3
  <2>2. QED BY <1>0, <2>1 DEF ClocksTold
<1>6. ASSUME NEW m \in net, Deliver(m) PROVE ClocksTold'
  <2> DEFINE r == m.to
             vc == Merge(clock[r], m.op.vc)
  <2>1. /\ clock' = [clock EXCEPT ![r] = vc] /\ outbox' = outbox
        /\ \A n \in net : n \in net' \/ n = m
    BY <1>6 DEF Deliver
  <2>2. r \in Peers /\ m.op.vc \in VectorClocks /\ clock[r] \in VectorClocks
    BY <1>0, CausalTypes
  <2>3. \A q \in Peers : m.op.vc[q] <= clock[q][q] /\ clock[r][q] <= clock[q][q]
    BY <1>0, <2>2 DEF OwnClockDominates, Known, NeverCrashed
  <2>4. \A q \in Peers : vc[q] = IF clock[r][q] < m.op.vc[q] THEN m.op.vc[q] ELSE clock[r][q]
    BY DEF Merge
  <2>5. \A q \in Peers : m.op.vc[q] \in Nat /\ clock[r][q] \in Nat /\ clock[q][q] \in Nat
    BY <1>0, <2>2, CausalTypes DEF VectorClocks
  <2> HIDE DEF vc, r
  <2>6. clock'[r] = vc /\ \A q \in Peers \ {r} : clock'[q] = clock[q]
    BY <1>0, <2>1, <2>2 DEF TypeOK
  <2>7. \A q \in Peers : /\ clock'[q][q] = clock[q][q]
                         /\ clock[r][q] = clock[q][q] \/ m.op.vc[q] = clock[q][q]
                               => clock'[r][q] = clock[q][q]
    BY <2>2, <2>3, <2>4, <2>5, <2>6
  <2>8. ASSUME NEW p \in Peers, NEW q \in Peers
        PROVE  \/ clock'[q][p] = clock'[p][p]
               \/ \E s \in outbox' : s.to = q /\ s.op.vc[p] = clock'[p][p]
               \/ \E n \in net' : n.to = q /\ n.op.vc[p] = clock'[p][p]
    <3>1. \/ clock[q][p] = clock[p][p]
          \/ \E s \in outbox : s.to = q /\ s.op.vc[p] = clock[p][p]
          \/ \E n \in net : n.to = q /\ n.op.vc[p] = clock[p][p]
      BY <1>0 DEF ClocksTold
    <3>2. CASE q # r
      BY <2>1, <2>6, <2>7, <3>1, <3>2 DEF r
    <3>3. CASE q = r
      BY <2>1, <2>7, <3>1, <3>3
    <3>4. QED BY <3>2, <3>3
  <2>9. QED BY <2>8 DEF ClocksTold
<1>7. CASE UNCHANGED vars
  BY <1>1, <1>7 DEF vars
<1>8. QED BY <1>2, <1>3, <1>4, <1>5, <1>6, <1>7, TurnsNext

-----------------------------------------------------------------------------
(* Taking turns: what is settled, and the next change.                      *)

\* The parts of the invariant.
LEMMA TurnsParts ==
    ASSUME TurnsInv
    PROVE  /\ TypeOK /\ CausalInv /\ NeverCrashed /\ ClocksTold /\ IgnoredByApplier
           /\ \A p \in Peers : /\ up[p] /\ replay[p] = <<>> /\ Watching(p)
                               /\ disk[p] \in Files /\ ev[p] \in Handlers
                               /\ ev[p] = IdleHandler <=> ev[p].pc = "idle"
                               /\ ev[p] # IdleHandler => ev[p].fid \in FileIDs
BY DEF TurnsInv, CausalInv, TypeOK, NeverCrashed, Watching, Handlers, IdleHandler

\* The peer of an unnoticed change has something to do.
LEMMA UnnoticedIsNotCalm ==
    ASSUME NEW a \in Peers, DeleteUnnoticed(a) \/ WriteUnnoticed(a)
    PROVE  ~Calm(a)
BY DEF DeleteUnnoticed, WriteUnnoticed, Calm, IdleHandler

\* Once everything has settled the last change is on every disk, and in every
\* files table.
LEMMA TurnsSettled ==
    ASSUME TurnsInv, Quiescent
    PROVE  \A p \in Peers : disk[p].data = last /\ Indexed(p) /\ Calm(p)
<1>1. /\ outbox = {} /\ net = {} /\ thr = {}
      /\ \A p \in Peers : Calm(p) /\ ~Incoming(p)
  BY DEF Quiescent, Calm, Incoming
<1>2. CASE DeleteTold
  BY <1>1, <1>2 DEF DeleteTold, DeleteReaches, Indexed
<1>3. ASSUME NEW f \in FileIDs, WriteTold(f)
      PROVE  \A p \in Peers : disk[p].data = last /\ Indexed(p)
  BY <1>1, <1>3 DEF WriteTold, WriteReaches, Updated
<1>4. ASSUME NEW a \in Peers, DeleteUnnoticed(a) \/ WriteUnnoticed(a)
      PROVE  FALSE
  BY <1>1, <1>4, UnnoticedIsNotCalm
<1>5. QED BY <1>1, <1>2, <1>3, <1>4 DEF TurnsInv

\* A write of the user is an unnoticed change.
LEMMA TurnsUserWrite ==
    ASSUME TakingTurns, TurnsInv, NEW p \in Peers, UserWrite(p)
    PROVE  WriteUnnoticed(p)'
<1>1. TypeOK /\ Watching(p) /\ last \subseteq 1 .. nedit /\ nedit \in Nat
  <2>1. TypeOK /\ Watching(p)
    BY TurnsParts
  <2>2. nedit \in Nat
    BY <2>1, EngineAssumption DEF TypeOK
  <2>3. QED BY <2>1, <2>2 DEF TurnsInv
<1>2. Quiescent
  BY DEF UserWrite, MayEdit, TakingTurns
<1>3. \A q \in Peers : disk[q].data = last /\ Indexed(q) /\ Calm(q)
  BY <1>2, TurnsSettled
<1>4. /\ disk' = [disk EXCEPT ![p].data = {nedit + 1}] /\ last' = {nedit + 1}
      /\ Notify(p, IF disk[p].data = {} THEN "create" ELSE "update")
      /\ UNCHANGED <<db, pending, ev, outbox, net, thr>>
  BY DEF UserWrite
<1>5. disk'[p].data = last' /\ \A q \in Peers \ {p} : disk'[q] = disk[q]
  BY <1>1, <1>4 DEF TypeOK, Files
<1>6. last # last'
  BY <1>1, <1>4
<1>7. fsev'[p] \in {<<"create">>, <<"update">>} /\ \A q \in Peers \ {p} : fsev'[q] = fsev[q]
  <2>1. fsev[p] = <<>>
    BY <1>3 DEF Calm
  <2>2. fsev' = [fsev EXCEPT ![p] = Append(fsev[p], IF disk[p].data = {} THEN "create" ELSE "update")]
    BY <1>1, <1>4 DEF Notify
  <2>3. QED BY <1>1, <2>1, <2>2 DEF TypeOK
<1>8. \A q \in Peers \ {p} : Calm(q)' /\ Indexed(q)' /\ disk'[q].data # last'
  BY <1>3, <1>4, <1>5, <1>6, <1>7 DEF Calm, Indexed
<1>9. outbox' = {} /\ net' = {} /\ thr' = {}
  BY <1>2, <1>4 DEF Quiescent
<1>10. QED BY <1>3, <1>4, <1>5, <1>7, <1>8, <1>9 DEF WriteUnnoticed, Calm

\* A deletion by the user is an unnoticed one, of a file that is indexed.
LEMMA TurnsUserDelete ==
    ASSUME TakingTurns, TurnsInv, NEW p \in Peers, UserDelete(p)
    PROVE  DeleteUnnoticed(p)'
<1>1. TypeOK /\ Watching(p) /\ disk[p] \in Files
  BY TurnsParts
<1>2. Quiescent
  BY DEF UserDelete, MayEdit, TakingTurns
<1>3. \A q \in Peers : Indexed(q) /\ Calm(q)
  BY <1>2, TurnsSettled
<1>4. /\ disk' = [disk EXCEPT ![p] = Absent] /\ last' = {} /\ disk[p].data # {}
      /\ Notify(p, "delete") /\ UNCHANGED <<db, pending, ev, outbox, net, thr>>
  BY DEF UserDelete
<1>5. disk'[p].data = {}
  BY <1>1, <1>4 DEF TypeOK, Absent
<1>6. fsev'[p] = <<"delete">> /\ \A q \in Peers \ {p} : fsev'[q] = fsev[q]
  <2>1. fsev[p] = <<>>
    BY <1>3 DEF Calm
  <2>2. fsev' = [fsev EXCEPT ![p] = Append(fsev[p], "delete")]
    BY <1>1, <1>4 DEF Notify
  <2>3. QED BY <1>1, <2>1, <2>2 DEF TypeOK
<1>7. GetFileByPath(p)' # {}
  <2>1. disk[p].fid \in FileIDs /\ db[p][disk[p].fid].present
    BY <1>1, <1>3, <1>4 DEF Indexed, Files
  <2>2. QED BY <1>4, <2>1 DEF GetFileByPath
<1>8. \A q \in Peers \ {p} : Calm(q)'
  BY <1>3, <1>4, <1>6 DEF Calm
<1>9. outbox' = {} /\ net' = {} /\ thr' = {}
  BY <1>2, <1>4 DEF Quiescent
<1>10. QED BY <1>3, <1>4, <1>5, <1>6, <1>7, <1>8, <1>9 DEF DeleteUnnoticed, Calm

\* A broadcast is all there is on the way, if there was nothing before.
LEMMA FirstOnTheWay ==
    ASSUME NEW op, outbox' = BroadcastOperation(op), net' = {}, thr' = {}
    PROVE  /\ \A o \in OpsOnTheWay' : o = op
           /\ \A s \in outbox' : s.from = op.peer
BY DEF OpsOnTheWay, BroadcastOperation

\* The peers that are calm have nothing to do.
LEMMA CalmIsIdle ==
    ASSUME NEW p \in Peers, Calm(p)
    PROVE  ~(\/ WatcherEvent(p) \/ HandleWrite(p) \/ HashLocal(p) \/ StoreLocal(p)
             \/ HandleDelete(p) \/ QueueOperation(p))
BY DEF Calm, IdleHandler, WatcherEvent, HandleWrite, HashLocal, StoreLocal, HandleDelete,
       QueueOperation

\* While a change is unnoticed only the peer of its user has something to do.
LEMMA UnnoticedNext ==
    ASSUME TakingTurns, TurnsInv, NEW a \in Peers, DeleteUnnoticed(a) \/ WriteUnnoticed(a), Next
    PROVE  /\ \/ WatcherEvent(a) \/ HandleWrite(a) \/ HashLocal(a) \/ StoreLocal(a)
              \/ HandleDelete(a) \/ QueueOperation(a)
           /\ ~ignored[a]
<1>1. outbox = {} /\ net = {} /\ thr = {} /\ \A p \in Peers \ {a} : Calm(p)
  BY DEF DeleteUnnoticed, WriteUnnoticed
<1>2. ~Calm(a)
  BY UnnoticedIsNotCalm
<1>3. \A p \in Peers : ~UserWrite(p) /\ ~UserDelete(p)
  BY <1>2 DEF TakingTurns, UserWrite, UserDelete, MayEdit, Quiescent, Calm
<1>4. ~ignored[a]
  BY <1>1 DEF TurnsInv, IgnoredByApplier
<1>5. QED BY <1>1, <1>3, <1>4, CalmIsIdle, TurnsNext

\* A deletion is noticed, and told to everyone.
LEMMA DeleteUnnoticedStep ==
    ASSUME TakingTurns, TurnsInv, NEW a \in Peers, DeleteUnnoticed(a), Next
    PROVE  DeleteUnnoticed(a)' \/ DeleteTold'
<1>1. TypeOK
  BY TurnsParts
<1>2. /\ \/ WatcherEvent(a) \/ HandleWrite(a) \/ HashLocal(a) \/ StoreLocal(a)
         \/ HandleDelete(a) \/ QueueOperation(a)
      /\ ~ignored[a]
  BY UnnoticedNext
<1>3. /\ last = {} /\ disk[a].data = {} /\ GetFileByPath(a) # {}
      /\ outbox = {} /\ net = {} /\ thr = {} /\ \A p \in Peers \ {a} : Calm(p)
  BY DEF DeleteUnnoticed
<1>4. CASE WatcherEvent(a)
  <2>1. fsev[a] = <<"delete">> /\ pending[a] = "none" /\ ev[a] = IdleHandler
    BY <1>4 DEF DeleteUnnoticed, WatcherEvent
  <2>2. Head(fsev[a]) = "delete" /\ Tail(fsev[a]) = <<>>
    BY <2>1
  <2>3. Readings(a, Head(fsev[a])) = {"delete"}
    BY <1>2, <2>1, <2>2 DEF Readings, Debounce
  <2>4. /\ fsev' = [fsev EXCEPT ![a] = <<>>] /\ pending' = [pending EXCEPT ![a] = "delete"]
        /\ UNCHANGED <<disk, db, ev, outbox, net, thr, last>>
    BY <1>4, <2>2, <2>3 DEF WatcherEvent, persistent
  <2>5. /\ fsev'[a] = <<>> /\ pending'[a] = "delete"
        /\ \A p \in Peers \ {a} : fsev'[p] = fsev[p] /\ pending'[p] = pending[p]
    BY <1>1, <2>4 DEF TypeOK
  <2>6. GetFileByPath(a)' # {}
    BY <1>3, <2>4 DEF GetFileByPath
  <2>7. QED BY <1>3, <2>1, <2>4, <2>5, <2>6 DEF DeleteUnnoticed, Calm
<1>5. CASE HandleWrite(a) \/ HashLocal(a) \/ StoreLocal(a)
  BY <1>5 DEF DeleteUnnoticed, HandleWrite, HashLocal, StoreLocal, IdleHandler
<1>6. CASE HandleDelete(a)
  <2>1. fsev[a] = <<>>
    BY <1>6 DEF DeleteUnnoticed, HandleDelete
  <2>2. /\ \E f \in FileIDs : ev' = [ev EXCEPT ![a] = [pc |-> "queue", kind |-> "delete",
                                                       fid |-> f, chk |-> {}]]
        /\ pending' = [pending EXCEPT ![a] = "none"]
        /\ UNCHANGED <<disk, db, fsev, outbox, net, thr, last>>
    BY <1>3, <1>6 DEF HandleDelete, persistent, DeletedIDs, GetFileByPath
  <2>3. /\ pending'[a] = "none" /\ ev'[a].pc = "queue" /\ ev'[a].kind = "delete"
        /\ \A p \in Peers \ {a} : pending'[p] = pending[p] /\ ev'[p] = ev[p]
    BY <1>1, <2>2 DEF TypeOK
  <2>4. GetFileByPath(a)' # {}
    BY <1>3, <2>2 DEF GetFileByPath
  <2>5. QED BY <1>3, <2>1, <2>2, <2>3, <2>4 DEF DeleteUnnoticed, Calm
<1>7. CASE QueueOperation(a)
  <2> DEFINE op == [kind |-> ev[a].kind, fid |-> ev[a].fid, chk |-> ev[a].chk,
                    vc |-> Increment(clock[a], a), peer |-> a, mtime |-> 0]
  <2>1. fsev[a] = <<>> /\ pending[a] = "none" /\ ev[a].kind = "delete"
    BY <1>7 DEF DeleteUnnoticed, QueueOperation, IdleHandler
  <2>2. /\ outbox' = BroadcastOperation(op) /\ ev' = [ev EXCEPT ![a] = IdleHandler]
        /\ net' = {} /\ thr' = {} /\ UNCHANGED <<disk, db, fsev, pending, last>>
    BY <1>3, <1>7 DEF QueueOperation, AppendOperation, watch
  <2>3. op.kind = "delete" /\ op.peer = a
    BY <2>1
  <2> HIDE DEF op
  <2>4. DeleteOnTheWay'
    BY <2>2, <2>3, FirstOnTheWay DEF DeleteOnTheWay
  <2>5. \A q \in Peers \ {a} : Incoming(q)'
    BY <2>2, <2>3, BroadcastReaches
  <2>6. ev'[a] = IdleHandler /\ \A p \in Peers \ {a} : ev'[p] = ev[p]
    BY <1>1, <2>2 DEF TypeOK
  <2>7. \A p \in Peers : fsev'[p] = <<>> /\ pending'[p] = "none" /\ ev'[p] = IdleHandler
    BY <1>3, <2>1, <2>2, <2>6 DEF Calm
  <2>8. <<>> \in Seq({"delete"})
    OBVIOUS
  <2>9. \A p \in Peers : DeleteReaches(p)'
    BY <1>3, <2>2, <2>5, <2>7, <2>8 DEF DeleteReaches, Calm
  <2>10. QED BY <1>3, <2>2, <2>4, <2>9 DEF DeleteTold
<1>8. QED BY <1>2, <1>4, <1>5, <1>6, <1>7

\* A later clock stays later.
LEMMA LaterStays ==
    ASSUME NEW u \in VectorClocks, NEW v \in VectorClocks, NEW w \in VectorClocks, Leq(v, w),
           Compare(u, v) = -1
    PROVE  Compare(u, w) = -1
<1>1. Leq(u, v) /\ u # v
  BY CompareIsCausalOrder
<1>2. Leq(u, w)
  BY <1>1, LeqPartialOrder
<1>3. u # w
  BY <1>1, LeqPartialOrder
<1>4. QED BY <1>2, <1>3, CompareIsCausalOrder

\* The stamp of a new operation is later than what its peer knows.
LEMMA StampIsLater ==
    ASSUME NEW u \in VectorClocks, NEW v \in VectorClocks, NEW p \in Peers, Leq(u, v)
    PROVE  Compare(u, Increment(v, p)) = -1
<1>1. /\ Increment(v, p) \in VectorClocks /\ Leq(v, Increment(v, p))
      /\ Increment(v, p)[p] = v[p] + 1 /\ v[p] \in Nat /\ u[p] \in Nat
  BY ClockTypes, IncrementIsLater DEF VectorClocks
<1>2. Leq(u, Increment(v, p))
  BY <1>1, LeqPartialOrder
<1>3. u[p] <= v[p]
  BY DEF Leq
<1>4. u # Increment(v, p)
  BY <1>1, <1>3
<1>5. QED BY <1>1, <1>2, <1>4, CompareIsCausalOrder

\* A write is noticed, indexed, and told to everyone with a stamp that is later
\* than any row.
LEMMA WriteUnnoticedQueue ==
    ASSUME TakingTurns, TurnsInv, NEW a \in Peers, WriteUnnoticed(a), QueueOperation(a)
    PROVE  \E f \in FileIDs : WriteTold(f)'
<1>0. PICK f \in FileIDs : f = ev[a].fid
  BY TurnsParts DEF QueueOperation, IdleHandler
<1> DEFINE op == [kind |-> ev[a].kind, fid |-> ev[a].fid, chk |-> ev[a].chk,
                  vc |-> Increment(clock[a], a), peer |-> a, mtime |-> 0]
<1>1. /\ TypeOK /\ CausalInv /\ NeverCrashed /\ ClocksTold
      /\ disk[a] \in Files /\ ev[a].pc = "queue" /\ ev[a] # IdleHandler
  BY TurnsParts DEF QueueOperation, IdleHandler
<1>2. /\ last # {} /\ disk[a].data = last
      /\ outbox = {} /\ net = {} /\ thr = {}
      /\ \A p \in Peers \ {a} : Calm(p) /\ disk[p].data # last
      /\ fsev[a] \in {<<>>, <<"unknown">>} /\ pending[a] = "none"
      /\ ev[a].kind = "update" /\ disk[a].fid = f /\ ev[a].chk = last /\ Indexed(a)
  BY <1>0, <1>1 DEF WriteUnnoticed, Handling
<1>3. /\ outbox' = BroadcastOperation(op) /\ ev' = [ev EXCEPT ![a] = IdleHandler]
      /\ clock' = [clock EXCEPT ![a] = Increment(clock[a], a)]
      /\ net' = {} /\ thr' = {} /\ UNCHANGED <<disk, db, fsev, pending, last>>
  BY <1>2 DEF QueueOperation, AppendOperation, watch
<1>4. op.kind = "update" /\ op.fid = f /\ op.chk = last /\ op.peer = a /\ op.vc = Increment(clock[a], a)
  BY <1>0, <1>2
<1> HIDE DEF op
<1>5. Updated(a, f)' /\ \A p \in Peers \ {a} : ~Updated(p, f)'
  <2>1. disk[a] = [fid |-> f, data |-> last]
    BY <1>1, <1>2 DEF Files
  <2>2. QED BY <1>2, <1>3, <2>1 DEF Updated
<1>6. WriteOnTheWay(f)'
  BY <1>3, <1>4, <1>5, FirstOnTheWay DEF WriteOnTheWay
<1>7. \A p \in Peers : WriteReaches(p, f)'
  <2>1. \A q \in Peers \ {a} : Incoming(q)'
    BY <1>3, <1>4, BroadcastReaches
  <2>2. ev'[a] = IdleHandler /\ \A p \in Peers \ {a} : ev'[p] = ev[p]
    BY <1>1, <1>3 DEF TypeOK
  <2>3. <<>> \in Seq(WriteEvents) /\ <<"unknown">> \in Seq(WriteEvents)
    BY DEF WriteEvents
  <2>4. WriteReaches(a, f)'
    BY <1>2, <1>3, <1>5, <2>2, <2>3 DEF WriteReaches, WriteEvents, Indexed
  <2>5. ASSUME NEW p \in Peers \ {a} PROVE WriteReaches(p, f)'
    BY <1>2, <1>3, <1>5, <2>1, <2>2 DEF WriteReaches, Calm
  <2>6. QED BY <2>4, <2>5
<1>8. ASSUME NEW p \in Peers PROVE RowGivesWay(p, f)'
  <2>1. /\ db[p][f].vc \in VectorClocks /\ clock[p] \in VectorClocks /\ clock[a] \in VectorClocks
        /\ Leq(db[p][f].vc, clock[p])
    BY <1>1, CausalTypes DEF CausalInv, RowsBehindClock, NeverCrashed
  <2>2. clock[p] = clock[a]
    <3>1. \A q \in Peers : clock[p][q] = clock[a][q]
      BY <1>1, <1>2 DEF ClocksTold
    <3>2. QED BY <2>1, <3>1 DEF VectorClocks
  <2>3. Compare(db[p][f].vc, Increment(clock[a], a)) = -1
    BY <2>1, <2>2, StampIsLater
  <2>4. clock'[a] = Increment(clock[a], a)
    BY <1>1, <1>3 DEF TypeOK
  <2>5. \A o \in OpsOnTheWay' : o = op
    BY <1>3, FirstOnTheWay
  <2>6. QED BY <1>3, <1>4, <1>5, <2>3, <2>4, <2>5 DEF RowGivesWay
<1>9. WriteTold(f)'
  BY <1>2, <1>3, <1>6, <1>7, <1>8 DEF WriteTold
<1>10. QED BY <1>1, <1>9

\* The steps of the handler before.
LEMMA WriteUnnoticedStep ==
    ASSUME TakingTurns, TurnsInv, NEW a \in Peers, WriteUnnoticed(a), Next
    PROVE  WriteUnnoticed(a)' \/ \E f \in FileIDs : WriteTold(f)'
<1>1. /\ TypeOK /\ disk[a] \in Files /\ ev[a] \in Handlers /\ Watching(a)
      /\ ev[a] = IdleHandler <=> ev[a].pc = "idle"
  BY TurnsParts
<1>2. /\ \/ WatcherEvent(a) \/ HandleWrite(a) \/ HashLocal(a) \/ StoreLocal(a)
         \/ HandleDelete(a) \/ QueueOperation(a)
      /\ ~ignored[a]
  BY UnnoticedNext
<1>3. /\ last # {} /\ disk[a].data = last
      /\ outbox = {} /\ net = {} /\ thr = {}
      /\ \A p \in Peers \ {a} : Calm(p) /\ Indexed(p) /\ disk[p].data # last
  BY DEF WriteUnnoticed
<1>4. CASE WatcherEvent(a)
  <2>1. /\ pending[a] = "none"
        /\ \/ fsev[a] \in {<<"create">>, <<"update">>} /\ ev[a] = IdleHandler
           \/ /\ fsev[a] = <<"unknown">> /\ ev[a] # IdleHandler /\ Handling(a)
              /\ ev[a].pc = "queue" => Indexed(a)
    BY <1>4 DEF WriteUnnoticed, WatcherEvent
  <2>2. PICK e \in {"create", "update", "unknown"} : fsev[a] = <<e>>
    BY <2>1
  <2>3. Head(fsev[a]) = e /\ Tail(fsev[a]) = <<>>
    BY <2>2
  <2>4. Readings(a, Head(fsev[a])) = {IF e = "unknown" THEN "none" ELSE e}
    BY <1>2, <2>1, <2>3 DEF Readings, Debounce
  <2>5. /\ fsev' = [fsev EXCEPT ![a] = <<>>]
        /\ pending' = [pending EXCEPT ![a] = IF e = "unknown" THEN "none" ELSE e]
        /\ UNCHANGED <<disk, db, ev, outbox, net, thr, last>>
    BY <1>4, <2>3, <2>4 DEF WatcherEvent, persistent
  <2>6. /\ fsev'[a] = <<>> /\ pending'[a] = IF e = "unknown" THEN "none" ELSE e
        /\ \A p \in Peers \ {a} : fsev'[p] = fsev[p] /\ pending'[p] = pending[p]
    BY <1>1, <2>5 DEF TypeOK
  <2>7. \A p \in Peers \ {a} : Calm(p)' /\ Indexed(p)' /\ disk'[p].data # last'
    BY <1>3, <2>5, <2>6 DEF Calm, Indexed
  <2>8. CASE e = "unknown"
    <3>1. ev[a] # IdleHandler /\ Handling(a) /\ (ev[a].pc = "queue" => Indexed(a))
      BY <2>1, <2>2, <2>8
    <3>2. /\ ev'[a] # IdleHandler /\ Handling(a)' /\ (ev'[a].pc = "queue" => Indexed(a)')
      BY <2>5, <3>1 DEF Handling, Indexed, IdleHandler
    <3>3. QED BY <1>3, <2>5, <2>6, <2>7, <2>8, <3>2 DEF WriteUnnoticed
  <2>9. CASE e # "unknown"
    <3>1. ev[a] = IdleHandler
      BY <2>1, <2>2, <2>9
    <3>2. QED BY <1>3, <2>5, <2>6, <2>7, <2>9, <3>1 DEF WriteUnnoticed, IdleHandler
  <2>10. QED BY <2>8, <2>9
<1>5. CASE HandleWrite(a)
  <2> DEFINE fid == IF disk[a].fid # NoID THEN disk[a].fid ELSE GenerateFileID(disk[a].data)
  <2>1. fsev[a] = <<>> /\ fid \in FileIDs
    <3>1. fsev[a] = <<>>
      BY <1>5 DEF WriteUnnoticed, HandleWrite, IdleHandler
    <3>2. GenerateFileID(last) \in last /\ last \subseteq FileIDs
      BY <1>1, <1>3 DEF GenerateFileID, TypeOK, Contents, FileIDs
    <3>3. QED BY <1>1, <1>3, <3>1, <3>2 DEF Files
  <2>2. /\ pending' = [pending EXCEPT ![a] = "none"]
        /\ disk' = [disk EXCEPT ![a].fid = fid]
        /\ ev' = [ev EXCEPT ![a] = [pc |-> "hash", kind |-> "update", fid |-> fid, chk |-> {}]]
        /\ fsev' = fsev \/ Notify(a, "unknown")
        /\ UNCHANGED <<db, outbox, net, thr, last>>
    BY <1>3, <1>5 DEF HandleWrite
  <2> HIDE DEF fid
  <2>3. /\ fsev'[a] \in {<<>>, <<"unknown">>}
        /\ \A p \in Peers \ {a} : fsev'[p] = fsev[p]
    <3>1. fsev[a] = <<>> /\ fsev \in [Peers -> Seq(Events)]
      BY <1>1, <2>1 DEF TypeOK
    <3>2. fsev' = fsev \/ fsev' = [fsev EXCEPT ![a] = Append(fsev[a], "unknown")]
      BY <1>1, <2>2 DEF Notify
    <3>3. QED BY <3>1, <3>2
  <2>4. /\ disk'[a].data = last /\ disk'[a].fid = fid
        /\ \A p \in Peers \ {a} : disk'[p] = disk[p]
    BY <1>1, <1>3, <2>2 DEF TypeOK, Files
  <2>5. /\ pending'[a] = "none"
        /\ ev'[a].pc = "hash" /\ ev'[a].kind = "update" /\ ev'[a].fid = fid
        /\ \A p \in Peers \ {a} : pending'[p] = pending[p] /\ ev'[p] = ev[p]
    BY <1>1, <2>2 DEF TypeOK
  <2>6. \A p \in Peers \ {a} : Calm(p)' /\ Indexed(p)' /\ disk'[p].data # last'
    BY <1>3, <2>2, <2>3, <2>4, <2>5 DEF Calm, Indexed
  <2>7. ev'[a] # IdleHandler /\ Handling(a)' /\ ev'[a].pc # "queue"
    BY <2>4, <2>5 DEF Handling, IdleHandler
  <2>8. QED BY <1>3, <2>2, <2>3, <2>4, <2>5, <2>6, <2>7 DEF WriteUnnoticed
<1>6. CASE HashLocal(a) \/ StoreLocal(a)
  <2>1. /\ fsev[a] \in {<<>>, <<"unknown">>} /\ pending[a] = "none"
        /\ ev[a] # IdleHandler /\ Handling(a)
    BY <1>6 DEF WriteUnnoticed, HashLocal, StoreLocal, IdleHandler
  <2>2. UNCHANGED <<disk, fsev, pending, outbox, net, thr, last>>
    BY <1>6 DEF HashLocal, StoreLocal, persistent, watch, InsertFile
  <2>3. /\ \A p \in Peers \ {a} : ev'[p] = ev[p] /\ db'[p] = db[p]
        /\ ev'[a] # IdleHandler /\ ev'[a].kind = "update" /\ ev'[a].fid = disk[a].fid
        /\ ev'[a].chk = last /\ (ev'[a].pc = "queue" => Indexed(a)')
    <3>1. CASE HashLocal(a)
      <4>1. ev' = [ev EXCEPT ![a] = [ev[a] EXCEPT !.pc = "store", !.chk = disk[a].data]] /\ db' = db
        BY <1>3, <3>1 DEF HashLocal, persistent
      <4>2. ev'[a] = [ev[a] EXCEPT !.pc = "store", !.chk = last] /\ \A p \in Peers \ {a} : ev'[p] = ev[p]
        BY <1>1, <1>3, <4>1 DEF TypeOK
      <4>3. /\ ev'[a].pc = "store" /\ ev'[a].chk = last
            /\ ev'[a].kind = ev[a].kind /\ ev'[a].fid = ev[a].fid
        BY <1>1, <4>2, <2>1 DEF Handlers
      <4>4. ev[a].kind = "update" /\ ev[a].fid = disk[a].fid
        BY <2>1 DEF Handling
      <4>5. ev'[a] # IdleHandler /\ ev'[a].pc # "queue"
        BY <4>3 DEF IdleHandler
      <4>6. QED BY <4>1, <4>2, <4>3, <4>4, <4>5
    <3>2. CASE StoreLocal(a)
      <4>1. /\ ev' = [ev EXCEPT ![a].pc = "queue"] /\ ev[a].pc = "store"
            /\ db' = [db EXCEPT ![a][ev[a].fid] = LocalRow(a, ev[a].chk)]
        BY <3>2 DEF StoreLocal, InsertFile
      <4>2. ev'[a] = [ev[a] EXCEPT !.pc = "queue"] /\ \A p \in Peers \ {a} : ev'[p] = ev[p] /\ db'[p] = db[p]
        BY <1>1, <4>1 DEF TypeOK
      <4>3. /\ ev'[a].pc = "queue" /\ ev'[a].chk = last /\ ev[a].chk = last
            /\ ev'[a].kind = ev[a].kind /\ ev'[a].fid = ev[a].fid /\ ev[a].fid \in FileIDs
        BY <1>1, <2>1, <4>1, <4>2 DEF Handlers, Handling
      <4>4. db'[a][ev[a].fid] = LocalRow(a, last)
        BY <1>1, <4>1, <4>3 DEF TypeOK
      <4>5. Indexed(a)'
        BY <1>3, <2>1, <2>2, <4>3, <4>4 DEF Indexed, LocalRow, Handling, FileIDs, NoID
      <4>6. QED BY <2>1, <4>2, <4>3, <4>5 DEF Handling, IdleHandler
    <3>3. QED BY <1>6, <3>1, <3>2
  <2>4. \A p \in Peers \ {a} : Calm(p)' /\ Indexed(p)' /\ disk'[p].data # last'
    BY <1>3, <2>2, <2>3 DEF Calm, Indexed
  <2>5. Handling(a)'
    BY <2>2, <2>3 DEF Handling
  <2>6. QED BY <1>3, <2>1, <2>2, <2>3, <2>4, <2>5 DEF WriteUnnoticed
<1>7. CASE HandleDelete(a)
  BY <1>7 DEF WriteUnnoticed, HandleDelete, IdleHandler
<1>8. QED BY <1>2, <1>4, <1>5, <1>6, <1>7, WriteUnnoticedQueue

-----------------------------------------------------------------------------
(* Taking turns: the change on its way.                                     *)

\* A send puts the operation, and what the sender has, on the wire.
LEMMA SendMoves ==
    ASSUME TurnsInv, NEW s \in outbox, SendOp(s)
    PROVE  /\ OpsOnTheWay' \subseteq OpsOnTheWay
           /\ \A p \in Peers : Incoming(p) => Incoming(p)'
           /\ \A n \in net' : n \in net \/ (s.op.kind = "update" => n.data = disk[s.from].data)
           /\ outbox' \subseteq outbox
           /\ UNCHANGED <<clock, disk, db, fsev, pending, ev, thr, nedit, last>>
<1> DEFINE data == IF s.op.kind = "delete" THEN {} ELSE disk[s.from].data
           m == [to |-> s.to, op |-> s.op, data |-> data, late |-> FALSE]
<1>1. ~(s.op.kind = "update" /\ data = {})
  BY SendsCarry
<1>2. /\ outbox' = outbox \ {s}
      /\ net' = IF s.op.kind = "update" /\ data = {} THEN net ELSE net \cup {m}
      /\ UNCHANGED <<clock, disk, db, fsev, pending, ev, thr, nedit, last>>
  BY DEF SendOp, persistent, watch
<1>3. m.to = s.to /\ m.op = s.op /\ (s.op.kind = "update" => m.data = disk[s.from].data)
  OBVIOUS
<1> HIDE DEF data, m
<1>4. net' = net \cup {m}
  BY <1>1, <1>2
<1>5. OpsOnTheWay' \subseteq OpsOnTheWay
  BY <1>2, <1>3, <1>4 DEF OpsOnTheWay
<1>6. \A p \in Peers : Incoming(p) => Incoming(p)'
  BY <1>2, <1>3, <1>4 DEF Incoming
<1>7. QED BY <1>2, <1>3, <1>4, <1>5, <1>6

\* A delivery starts an applier, and the clock of its peer grows.
LEMMA DeliverMoves ==
    ASSUME TurnsInv, NEW m \in net, Deliver(m)
    PROVE  /\ OpsOnTheWay' \subseteq OpsOnTheWay
           /\ \A p \in Peers : Incoming(p) => Incoming(p)'
           /\ \A n \in net' : n \in net \/ n.data = m.data
           /\ \A t \in thr' : t \in thr \/ (t.data = m.data /\ ~t.merged)
           /\ thr \subseteq thr'
           /\ \A p \in Peers : Leq(clock[p], clock'[p])
           /\ UNCHANGED <<disk, db, fsev, pending, ev, outbox, nedit, last>>
<1> DEFINE t == [at |-> m.to, op |-> m.op, data |-> m.data, merged |-> FALSE, pc |-> "check"]
           n == [m EXCEPT !.late = TRUE]
<1>1. TypeOK /\ m \in Messages /\ m.to \in Peers /\ m.op.vc \in VectorClocks
  BY CausalTypes DEF TurnsInv, CausalInv, TypeOK, Messages
<1>2. /\ thr' = thr \cup {t} /\ (net' = net \ {m} \/ net' = (net \ {m}) \cup {n})
      /\ clock' = [clock EXCEPT ![m.to] = Merge(clock[m.to], m.op.vc)]
      /\ UNCHANGED <<disk, db, fsev, pending, ev, outbox, nedit, last>>
  BY DEF Deliver, persistent, watch
<1>3. /\ t.at = m.to /\ t.op = m.op /\ t.data = m.data /\ t.merged = FALSE /\ t.pc = "check"
      /\ n.to = m.to /\ n.op = m.op /\ n.data = m.data
  BY <1>1 DEF Messages
<1> HIDE DEF t, n
<1>4. OpsOnTheWay' \subseteq OpsOnTheWay
  BY <1>2, <1>3 DEF OpsOnTheWay
<1>5. \A p \in Peers : Incoming(p) => Incoming(p)'
  BY <1>2, <1>3 DEF Incoming
<1>6. ASSUME NEW p \in Peers PROVE Leq(clock[p], clock'[p])
  <2>1. clock[p] \in VectorClocks /\ clock[m.to] \in VectorClocks
    BY <1>1, CausalTypes
  <2>2. clock'[p] = clock[p] \/ (p = m.to /\ clock'[p] = Merge(clock[m.to], m.op.vc))
    BY <1>1, <1>2 DEF TypeOK
  <2>3. QED BY <1>1, <2>1, <2>2, LeqPartialOrder, MergeIsLeastUpperBound
<1>7. \A u \in thr' : u \in thr \/ (u.data = m.data /\ ~u.merged)
  BY <1>2, <1>3
<1>8. \A k \in net' : k \in net \/ k.data = m.data
  BY <1>2, <1>3
<1>9. QED BY <1>2, <1>4, <1>5, <1>6, <1>7, <1>8

\* An applier that advances keeps its operation.
LEMMA AdvanceMoves ==
    ASSUME TypeOK, NEW t \in thr, NEW pc, MoveTo(t, [t EXCEPT !.pc = pc]), UNCHANGED <<outbox, net>>
    PROVE  /\ OpsOnTheWay' \subseteq OpsOnTheWay
           /\ \A u \in thr' : \/ u \in thr
                              \/ /\ u.at = t.at /\ u.op = t.op /\ u.data = t.data
                                 /\ u.merged = t.merged /\ u.pc = pc
           /\ \E u \in thr' : u.at = t.at /\ u.pc = pc
           /\ \A p \in Peers : Incoming(p) =>
                 Incoming(p)' \/ (p = t.at /\ pc \notin {"check", "write"})
<1> DEFINE u == [t EXCEPT !.pc = pc]
<1>1. /\ u.at = t.at /\ u.op = t.op /\ u.data = t.data /\ u.merged = t.merged /\ u.pc = pc
      /\ thr' = (thr \ {t}) \cup {u}
  BY DEF TypeOK, Appliers, MoveTo
<1> HIDE DEF u
<1>2. OpsOnTheWay' \subseteq OpsOnTheWay
  BY <1>1 DEF OpsOnTheWay
<1>3. \A p \in Peers : Incoming(p) => Incoming(p)' \/ (p = t.at /\ pc \notin {"check", "write"})
  BY <1>1 DEF Incoming
<1>4. QED BY <1>1, <1>2, <1>3

\* The end of an applier.
LEMMA UnignoreMoves ==
    ASSUME NEW t \in thr, Unignore(t)
    PROVE  /\ OpsOnTheWay' \subseteq OpsOnTheWay
           /\ \A p \in Peers : Incoming(p) => Incoming(p)'
           /\ thr' \subseteq thr /\ \A u \in thr : u \in thr' \/ u.pc = "unignore"
           /\ UNCHANGED <<clock, disk, db, fsev, pending, ev, outbox, net, nedit, last>>
<1>1. /\ thr' = thr \ {t} /\ t.pc = "unignore"
      /\ UNCHANGED <<clock, disk, db, fsev, pending, ev, outbox, net, nedit, last>>
  BY DEF Unignore, persistent
<1>2. QED BY <1>1 DEF OpsOnTheWay, Incoming

\* What a peer that has heard of the deletion, or is about to, may do.
LEMMA DeleteReachesStays ==
    ASSUME NEW p \in Peers, DeleteReaches(p), fsev'[p] = fsev[p], pending'[p] = pending[p],
           ev'[p] = ev[p], disk'[p] = disk[p], Incoming(p) => Incoming(p)'
    PROVE  DeleteReaches(p)'
BY DEF DeleteReaches, Calm

\* The watcher and the handler of a peer from which the file is gone.
LEMMA DeleteToldLocal ==
    ASSUME TakingTurns, TurnsInv, DeleteTold, NEW p \in Peers,
           \/ WatcherEvent(p) \/ HandleWrite(p) \/ HashLocal(p) \/ StoreLocal(p)
           \/ HandleDelete(p) \/ QueueOperation(p)
    PROVE  DeleteTold'
<1>1. TypeOK /\ last = {} /\ DeleteOnTheWay /\ \A q \in Peers : DeleteReaches(q)
  BY TurnsParts DEF DeleteTold
<1>2. /\ fsev[p] \in Seq({"delete"}) /\ pending[p] \in {"none", "delete"}
      /\ ev[p] = IdleHandler \/ (ev[p].pc = "queue" /\ ev[p].kind = "delete")
  BY <1>1 DEF DeleteReaches
<1>3. disk[p].data = {}
  BY <1>1, CalmIsIdle DEF DeleteReaches
<1>4. ASSUME UNCHANGED <<outbox, net, thr, disk, last>>,
             \A q \in Peers \ {p} : fsev'[q] = fsev[q] /\ pending'[q] = pending[q] /\ ev'[q] = ev[q],
             fsev'[p] \in Seq({"delete"}), pending'[p] \in {"none", "delete"},
             ev'[p] = IdleHandler \/ (ev'[p].pc = "queue" /\ ev'[p].kind = "delete")
      PROVE  DeleteTold'
  <2>1. DeleteOnTheWay'
    BY <1>1, <1>4 DEF DeleteOnTheWay, OpsOnTheWay
  <2>2. ASSUME NEW q \in Peers \ {p} PROVE DeleteReaches(q)'
    BY <1>1, <1>4, DeleteReachesStays DEF Incoming
  <2>3. DeleteReaches(p)'
    BY <1>3, <1>4 DEF DeleteReaches
  <2>4. QED BY <1>1, <1>4, <2>1, <2>2, <2>3 DEF DeleteTold
<1>5. CASE WatcherEvent(p)
  <2>1. /\ fsev[p] # <<>> /\ fsev' = [fsev EXCEPT ![p] = Tail(fsev[p])]
        /\ \E event \in Readings(p, Head(fsev[p])) : pending' = [pending EXCEPT ![p] = event]
        /\ UNCHANGED <<outbox, net, thr, disk, ev, last>>
    BY <1>5 DEF WatcherEvent, persistent
  <2>2. Head(fsev[p]) = "delete" /\ Tail(fsev[p]) \in Seq({"delete"})
    BY <1>2, <2>1
  <2>3. \A event \in Readings(p, "delete") : event \in {"none", "delete"}
    BY <1>2 DEF Readings, Debounce
  <2>4. /\ fsev'[p] = Tail(fsev[p]) /\ pending'[p] \in {"none", "delete"}
        /\ \A q \in Peers \ {p} : fsev'[q] = fsev[q] /\ pending'[q] = pending[q]
    BY <1>1, <2>1, <2>2, <2>3 DEF TypeOK
  <2>5. QED BY <1>2, <1>4, <2>1, <2>2, <2>4
<1>6. CASE HandleWrite(p) \/ HashLocal(p) \/ StoreLocal(p)
  BY <1>2, <1>6 DEF HandleWrite, HashLocal, StoreLocal, IdleHandler
<1>7. CASE HandleDelete(p)
  <2>1. /\ pending' = [pending EXCEPT ![p] = "none"]
        /\ \/ ev' = ev
           \/ \E f \in FileIDs : ev' = [ev EXCEPT ![p] = [pc |-> "queue", kind |-> "delete",
                                                          fid |-> f, chk |-> {}]]
        /\ UNCHANGED <<outbox, net, thr, disk, fsev, last>>
    BY <1>1, <1>7, DeletedIDsType DEF HandleDelete, persistent
  <2>2. /\ pending'[p] = "none"
        /\ ev'[p] = IdleHandler \/ (ev'[p].pc = "queue" /\ ev'[p].kind = "delete")
        /\ \A q \in Peers \ {p} : pending'[q] = pending[q] /\ ev'[q] = ev[q]
    BY <1>1, <1>2, <2>1 DEF TypeOK
  <2>3. QED BY <1>2, <1>4, <2>1, <2>2
<1>8. CASE QueueOperation(p)
  <2> DEFINE op == [kind |-> ev[p].kind, fid |-> ev[p].fid, chk |-> ev[p].chk,
                    vc |-> Increment(clock[p], p), peer |-> p, mtime |-> 0]
  <2>1. /\ ev[p].kind = "delete" /\ outbox' = outbox \cup BroadcastOperation(op)
        /\ ev' = [ev EXCEPT ![p] = IdleHandler]
        /\ UNCHANGED <<net, thr, disk, fsev, pending, last>>
    BY <1>2, <1>8 DEF QueueOperation, AppendOperation, watch, IdleHandler
  <2>2. op.kind = "delete"
    BY <2>1
  <2> HIDE DEF op
  <2>3. \A s \in outbox' : s \in outbox \/ s.op = op
    BY <2>1 DEF BroadcastOperation
  <2>4. DeleteOnTheWay'
    BY <1>1, <2>1, <2>2, <2>3 DEF DeleteOnTheWay, OpsOnTheWay
  <2>5. ev'[p] = IdleHandler /\ \A q \in Peers \ {p} : ev'[q] = ev[q]
    BY <1>1, <2>1 DEF TypeOK
  <2>6. \A q \in Peers \ {p} : DeleteReaches(q)'
    BY <1>1, <2>1, <2>5, DeleteReachesStays DEF Incoming
  <2>7. DeleteReaches(p)'
    BY <1>2, <1>3, <2>1, <2>5 DEF DeleteReaches
  <2>8. QED BY <1>1, <2>1, <2>4, <2>6, <2>7 DEF DeleteTold
<1>9. QED BY <1>5, <1>6, <1>7, <1>8

\* The deletion travels, and the file is removed wherever it arrives.
LEMMA DeleteToldTravels ==
    ASSUME TakingTurns, TurnsInv, DeleteTold,
           \/ \E s \in outbox : SendOp(s)
           \/ \E m \in net : Deliver(m)
           \/ \E t \in thr : \/ Check(t) \/ ApplyWrite(t) \/ ApplyRemove(t)
                             \/ ApplyInsert(t) \/ Unignore(t)
    PROVE  DeleteTold'
<1>1. TypeOK /\ last = {} /\ DeleteOnTheWay /\ \A q \in Peers : DeleteReaches(q)
  BY TurnsParts DEF DeleteTold
<1>2. ASSUME OpsOnTheWay' \subseteq OpsOnTheWay, \A t \in thr' : ~t.merged, last' = last,
             \A p \in Peers : DeleteReaches(p)'
      PROVE  DeleteTold'
  BY <1>1, <1>2 DEF DeleteOnTheWay, DeleteTold
<1>3. ASSUME NEW s \in outbox, SendOp(s) PROVE DeleteTold'
  BY <1>1, <1>2, <1>3, SendMoves, DeleteReachesStays DEF DeleteOnTheWay
<1>4. ASSUME NEW m \in net, Deliver(m) PROVE DeleteTold'
  <2>1. \A t \in thr' : ~t.merged
    BY <1>1, <1>4, DeliverMoves DEF DeleteOnTheWay
  <2>2. QED BY <1>1, <1>2, <1>4, <2>1, DeliverMoves, DeleteReachesStays
<1>5. ASSUME NEW t \in thr, Unignore(t) PROVE DeleteTold'
  <2>1. \A u \in thr' : ~u.merged
    BY <1>1, <1>5, UnignoreMoves DEF DeleteOnTheWay
  <2>2. QED BY <1>1, <1>2, <1>5, <2>1, UnignoreMoves, DeleteReachesStays
<1>6. ASSUME NEW t \in thr, Check(t) \/ ApplyWrite(t) \/ ApplyRemove(t) \/ ApplyInsert(t)
      PROVE  DeleteTold'
  <2>1. t.op.kind = "delete" /\ ~t.merged /\ t.at \in Peers
    BY <1>1, CausalTypes DEF DeleteOnTheWay, OpsOnTheWay
  <2>2. ASSUME NEW pc, MoveTo(t, [t EXCEPT !.pc = pc]), UNCHANGED <<outbox, net, last>>,
               \A p \in Peers : (Incoming(p) => Incoming(p)' \/ (p = t.at /\ pc \notin {"check", "write"}))
                                   => DeleteReaches(p)'
        PROVE  DeleteTold'
    <3>1. /\ OpsOnTheWay' \subseteq OpsOnTheWay
          /\ \A u \in thr' : u \in thr \/ u.merged = t.merged
          /\ \A p \in Peers : Incoming(p) => Incoming(p)' \/ (p = t.at /\ pc \notin {"check", "write"})
      BY <1>1, <2>2, AdvanceMoves
    <3>2. \A u \in thr' : ~u.merged
      BY <1>1, <2>1, <3>1 DEF DeleteOnTheWay
    <3>3. QED BY <1>2, <2>2, <3>1, <3>2
  <2>3. CASE Check(t)
    <3>1. /\ MoveTo(t, [t EXCEPT !.pc = "write"])
          /\ UNCHANGED <<outbox, net, last, disk, fsev, pending, ev>>
      BY <2>1, <2>3 DEF Check, persistent
    <3>2. \A p \in Peers : (Incoming(p) => Incoming(p)') => DeleteReaches(p)'
      BY <1>1, <3>1, DeleteReachesStays
    <3>3. QED BY <2>2, <3>1, <3>2
  <2>4. CASE ApplyRemove(t)
    <3>1. /\ MoveTo(t, [t EXCEPT !.pc = "insert"])
          /\ disk' = [disk EXCEPT ![t.at] = Absent]
          /\ fsev' = fsev \/ Notify(t.at, "delete")
          /\ UNCHANGED <<outbox, net, last, pending, ev>>
      BY <2>4 DEF ApplyRemove
    <3>2. /\ disk'[t.at].data = {} /\ \A p \in Peers \ {t.at} : disk'[p] = disk[p]
      BY <1>1, <2>1, <3>1 DEF TypeOK, Absent
    <3>3. /\ fsev'[t.at] \in {fsev[t.at], Append(fsev[t.at], "delete")}
          /\ \A p \in Peers \ {t.at} : fsev'[p] = fsev[p]
      BY <1>1, <2>1, <3>1, NotifyFacts
    <3>4. DeleteReaches(t.at)'
      <4>1. fsev'[t.at] \in Seq({"delete"})
        <5>1. fsev[t.at] \in Seq({"delete"})
          BY <1>1, <2>1 DEF DeleteReaches
        <5>2. Append(fsev[t.at], "delete") \in Seq({"delete"})
          BY <5>1
        <5>3. QED BY <3>3, <5>1, <5>2
      <4>2. QED BY <1>1, <2>1, <3>1, <3>2, <4>1 DEF DeleteReaches
    <3>5. \A p \in Peers \ {t.at} : (Incoming(p) => Incoming(p)') => DeleteReaches(p)'
      BY <1>1, <3>1, <3>2, <3>3, DeleteReachesStays
    <3>6. QED BY <2>2, <3>1, <3>4, <3>5
  <2>5. CASE ApplyInsert(t)
    <3>1. /\ MoveTo(t, [t EXCEPT !.pc = "unignore"]) /\ t.pc = "insert"
          /\ UNCHANGED <<outbox, net, last, disk, fsev, pending, ev>>
      BY <2>1, <2>5 DEF ApplyInsert, watch, InsertFile
    <3>2. \A p \in Peers : Incoming(p) => Incoming(p)'
      BY <3>1 DEF Incoming, MoveTo
    <3>3. QED BY <1>1, <2>2, <3>1, <3>2, DeleteReachesStays
  <2>6. CASE ApplyWrite(t)
    BY <2>1, <2>6 DEF ApplyWrite
  <2>7. QED BY <1>6, <2>3, <2>4, <2>5, <2>6
<1>7. QED BY <1>3, <1>4, <1>5, <1>6

\* What a peer that has the change, or is about to hear of it, may do.
LEMMA WriteReachesStays ==
    ASSUME NEW p \in Peers, NEW f, WriteReaches(p, f), last' = last, fsev'[p] = fsev[p],
           pending'[p] = pending[p], ev'[p] = ev[p], disk'[p] = disk[p], db'[p] = db[p],
           Incoming(p) => Incoming(p)',
           \A t \in thr : t.at = p /\ t.pc = "insert" => \E u \in thr' : u.at = p /\ u.pc = "insert"
    PROVE  WriteReaches(p, f)'
<1>1. Updated(p, f)' = Updated(p, f) /\ Handling(p)' = Handling(p) /\ Indexed(p)' = Indexed(p)
  BY DEF Updated, Handling, Indexed
<1>2. QED BY <1>1 DEF WriteReaches, Calm

\* A row keeps giving way while no operation or peer is new to the change.
LEMMA RowGivesWayStays ==
    ASSUME TypeOK, NEW p \in Peers, NEW f \in FileIDs, RowGivesWay(p, f), last' = last,
           db'[p][f] = db[p][f], OpsOnTheWay' \subseteq OpsOnTheWay,
           \A q \in Peers : Updated(q, f)' => /\ Updated(q, f) /\ clock'[q] \in VectorClocks
                                              /\ Leq(clock[q], clock'[q])
    PROVE  RowGivesWay(p, f)'
<1>1. db[p][f].vc \in VectorClocks /\ \A q \in Peers : clock[q] \in VectorClocks
  BY CausalTypes
<1>2. \A q \in Peers : Updated(q, f)' /\ Compare(db[p][f].vc, clock[q]) = -1 =>
                          Compare(db[p][f].vc, clock'[q]) = -1
  BY <1>1, LaterStays
<1>3. QED BY <1>2 DEF RowGivesWay

\* The parts of a change that is on its way.
LEMMA WriteToldParts ==
    ASSUME TurnsInv, NEW f \in FileIDs, WriteTold(f)
    PROVE  /\ TypeOK /\ CausalInv /\ NeverCrashed /\ last # {} /\ WriteOnTheWay(f)
           /\ \A p \in Peers : /\ WriteReaches(p, f) /\ RowGivesWay(p, f)
                               /\ clock[p] \in VectorClocks /\ Leq(clock[p], clock[p])
                               /\ ~Calm(p) => Updated(p, f)
           /\ \A t \in thr : /\ t.op.kind = "update" /\ t.op.fid = f /\ t.op.chk = last
                             /\ t.data = last /\ ~t.merged /\ t.at \in Peers
                             /\ t.op \in OpsOnTheWay
<1>1. TypeOK /\ CausalInv /\ NeverCrashed
  BY TurnsParts
<1>2. last # {} /\ WriteOnTheWay(f) /\ \A p \in Peers : WriteReaches(p, f) /\ RowGivesWay(p, f)
  BY DEF WriteTold
<1>3. \A p \in Peers : clock[p] \in VectorClocks /\ Leq(clock[p], clock[p])
  BY <1>1, CausalTypes, LeqPartialOrder
<1>4. \A t \in thr : t.op \in OpsOnTheWay /\ t.at \in Peers
  BY <1>1, CausalTypes DEF OpsOnTheWay
<1>5. QED BY <1>1, <1>2, <1>3, <1>4 DEF WriteOnTheWay, WriteReaches

\* The watcher and the handler of a peer that has the change, up to the log.
LEMMA WriteToldLocal ==
    ASSUME TakingTurns, TurnsInv, NEW f \in FileIDs, WriteTold(f), NEW p \in Peers,
           \/ WatcherEvent(p) \/ HandleWrite(p) \/ HashLocal(p) \/ StoreLocal(p)
           \/ HandleDelete(p)
    PROVE  WriteTold(f)'
<1>1. /\ TypeOK /\ last # {} /\ WriteOnTheWay(f)
      /\ \A q \in Peers : /\ WriteReaches(q, f) /\ RowGivesWay(q, f)
                          /\ clock[q] \in VectorClocks /\ Leq(clock[q], clock[q])
  BY WriteToldParts
<1>2. Updated(p, f)
  BY WriteToldParts, CalmIsIdle
<1>3. /\ fsev[p] \in Seq(WriteEvents) /\ pending[p] \in {"none", "create", "update"}
      /\ ev[p] = IdleHandler \/ Handling(p)
      /\ Indexed(p) \/ \E t \in thr : t.at = p /\ t.pc = "insert"
      /\ disk[p].fid = f /\ disk[p].data = last /\ f # NoID
  BY <1>1, <1>2 DEF WriteReaches, WriteEvents, Updated, FileIDs, NoID
<1>4. ASSUME UNCHANGED <<clock, outbox, net, thr, disk, last>>,
             \A q \in Peers \ {p} : /\ fsev'[q] = fsev[q] /\ pending'[q] = pending[q]
                                    /\ ev'[q] = ev[q] /\ db'[q] = db[q],
             fsev'[p] \in Seq(WriteEvents), pending'[p] \in {"none", "create", "update"},
             ev'[p] = IdleHandler \/ Handling(p)',
             db'[p] = db[p] \/ (db'[p][f].present /\ db'[p][f].chk = last)
      PROVE  WriteTold(f)'
  <2>1. /\ OpsOnTheWay' = OpsOnTheWay /\ \A q \in Peers : Updated(q, f)' = Updated(q, f)
        /\ \A q \in Peers : Incoming(q)' = Incoming(q)
    BY <1>4 DEF OpsOnTheWay, Updated, Incoming
  <2>2. WriteOnTheWay(f)'
    <3>1. \A s \in outbox : s.from \in Peers
      BY <1>1 DEF TypeOK, Sends
    <3>2. QED BY <1>1, <1>4, <2>1, <3>1 DEF WriteOnTheWay
  <2>3. \A q \in Peers \ {p} : WriteReaches(q, f)'
    BY <1>1, <1>4, <2>1, WriteReachesStays
  <2>4. WriteReaches(p, f)'
    <3>1. Indexed(p)' \/ \E t \in thr' : t.at = p /\ t.pc = "insert"
      BY <1>3, <1>4 DEF Indexed
    <3>2. QED BY <1>2, <1>4, <2>1, <3>1 DEF WriteReaches, WriteEvents
  <2>5. ASSUME NEW q \in Peers PROVE RowGivesWay(q, f)'
    <3>1. CASE db'[q] = db[q]
      BY <1>1, <1>4, <2>1, <3>1, RowGivesWayStays
    <3>2. CASE q = p /\ db'[p][f].chk = last
      BY <1>4, <3>2 DEF RowGivesWay
    <3>3. QED BY <1>4, <3>1, <3>2
  <2>6. QED BY <1>1, <1>4, <2>2, <2>3, <2>4, <2>5 DEF WriteTold
<1>5. CASE WatcherEvent(p)
  <2>1. /\ fsev[p] # <<>> /\ fsev' = [fsev EXCEPT ![p] = Tail(fsev[p])]
        /\ \E event \in Readings(p, Head(fsev[p])) : pending' = [pending EXCEPT ![p] = event]
        /\ UNCHANGED <<clock, outbox, net, thr, disk, ev, db, last>>
    BY <1>5 DEF WatcherEvent, persistent
  <2>2. Head(fsev[p]) \in WriteEvents /\ Tail(fsev[p]) \in Seq(WriteEvents)
    BY <1>3, <2>1
  <2>3. \A e \in WriteEvents : \A event \in Readings(p, e) : event \in {"none", "create", "update"}
    BY <1>3 DEF Readings, Debounce, WriteEvents
  <2>4. /\ fsev'[p] = Tail(fsev[p]) /\ pending'[p] \in {"none", "create", "update"}
        /\ \A q \in Peers \ {p} : fsev'[q] = fsev[q] /\ pending'[q] = pending[q]
    BY <1>1, <2>1, <2>2, <2>3 DEF TypeOK
  <2>5. ev'[p] = IdleHandler \/ Handling(p)'
    BY <1>3, <2>1 DEF Handling
  <2>6. QED BY <1>4, <2>1, <2>2, <2>4, <2>5
<1>6. CASE HandleWrite(p)
  <2>1. /\ pending' = [pending EXCEPT ![p] = "none"]
        /\ disk' = [disk EXCEPT ![p].fid = f]
        /\ ev' = [ev EXCEPT ![p] = [pc |-> "hash", kind |-> "update", fid |-> f, chk |-> {}]]
        /\ UNCHANGED <<clock, outbox, net, thr, fsev, db, last>>
    BY <1>1, <1>3, <1>6 DEF HandleWrite
  <2>2. disk' = disk
    BY <1>1, <1>3, <2>1 DEF TypeOK, Files
  <2>3. /\ pending'[p] = "none" /\ ev'[p].pc = "hash" /\ ev'[p].kind = "update" /\ ev'[p].fid = f
        /\ \A q \in Peers \ {p} : pending'[q] = pending[q] /\ ev'[q] = ev[q]
    BY <1>1, <2>1 DEF TypeOK
  <2>4. Handling(p)'
    BY <1>3, <2>2, <2>3 DEF Handling
  <2>5. QED BY <1>3, <1>4, <2>1, <2>2, <2>3, <2>4
<1>7. CASE HashLocal(p) \/ StoreLocal(p)
  <2>1. Handling(p) /\ ev[p] \in Handlers /\ ev[p] # IdleHandler
    BY <1>1, <1>3, <1>7 DEF HashLocal, StoreLocal, IdleHandler, TypeOK
  <2>2. UNCHANGED <<clock, outbox, net, thr, disk, fsev, pending, last>>
    BY <1>7 DEF HashLocal, StoreLocal, persistent, watch, InsertFile
  <2>3. CASE HashLocal(p)
    <3>1. ev' = [ev EXCEPT ![p] = [ev[p] EXCEPT !.pc = "store", !.chk = last]] /\ db' = db
      BY <1>1, <1>3, <2>3 DEF HashLocal, persistent
    <3>2. /\ ev'[p] = [ev[p] EXCEPT !.pc = "store", !.chk = last]
          /\ \A q \in Peers \ {p} : ev'[q] = ev[q]
      BY <1>1, <3>1 DEF TypeOK
    <3>3. ev'[p].chk = last /\ ev'[p].kind = ev[p].kind /\ ev'[p].fid = ev[p].fid
      BY <2>1, <3>2 DEF Handlers
    <3>4. Handling(p)'
      BY <2>1, <2>2, <3>3 DEF Handling
    <3>5. QED BY <1>3, <1>4, <2>2, <3>1, <3>2, <3>4
  <2>4. CASE StoreLocal(p)
    <3>1. /\ ev' = [ev EXCEPT ![p].pc = "queue"] /\ ev[p].fid = f /\ ev[p].chk = last
          /\ db' = [db EXCEPT ![p][f] = LocalRow(p, last)]
      BY <1>3, <2>1, <2>4 DEF StoreLocal, InsertFile, Handling
    <3>2. /\ ev'[p] = [ev[p] EXCEPT !.pc = "queue"] /\ db'[p][f] = LocalRow(p, last)
          /\ \A q \in Peers \ {p} : ev'[q] = ev[q] /\ db'[q] = db[q]
      BY <1>1, <3>1 DEF TypeOK
    <3>3. ev'[p].chk = last /\ ev'[p].kind = ev[p].kind /\ ev'[p].fid = ev[p].fid
      BY <2>1, <3>1, <3>2 DEF Handlers
    <3>4. Handling(p)' /\ db'[p][f].present /\ db'[p][f].chk = last
      BY <2>1, <2>2, <3>2, <3>3 DEF Handling, LocalRow
    <3>5. QED BY <1>3, <1>4, <2>2, <3>2, <3>4
  <2>5. QED BY <1>7, <2>3, <2>4
<1>8. CASE HandleDelete(p)
  BY <1>3, <1>8 DEF HandleDelete
<1>9. QED BY <1>5, <1>6, <1>7, <1>8

\* The operation of a peer that has the change says so with a later stamp.
LEMMA WriteToldQueue ==
    ASSUME TakingTurns, TurnsInv, NEW f \in FileIDs, WriteTold(f), NEW p \in Peers,
           QueueOperation(p)
    PROVE  WriteTold(f)'
<1> DEFINE op == [kind |-> ev[p].kind, fid |-> ev[p].fid, chk |-> ev[p].chk,
                  vc |-> Increment(clock[p], p), peer |-> p, mtime |-> 0]
<1>1. /\ TypeOK /\ last # {} /\ WriteOnTheWay(f)
      /\ \A q \in Peers : /\ WriteReaches(q, f) /\ RowGivesWay(q, f)
                          /\ clock[q] \in VectorClocks /\ Leq(clock[q], clock[q])
  BY WriteToldParts
<1>2. Updated(p, f)
  BY WriteToldParts, CalmIsIdle
<1>3. ev[p].kind = "update" /\ ev[p].fid = f /\ ev[p].chk = last
  BY <1>1, <1>2 DEF QueueOperation, WriteReaches, Handling, IdleHandler, Updated
<1>4. /\ outbox' = outbox \cup BroadcastOperation(op) /\ ev' = [ev EXCEPT ![p] = IdleHandler]
      /\ clock' = [clock EXCEPT ![p] = Increment(clock[p], p)]
      /\ UNCHANGED <<disk, db, fsev, pending, net, thr, last>>
  BY DEF QueueOperation, AppendOperation, watch
<1>5. /\ op.kind = "update" /\ op.fid = f /\ op.chk = last /\ op.peer = p
      /\ op.vc = Increment(clock[p], p)
  BY <1>3
<1> HIDE DEF op
<1>6. /\ \A s \in outbox' : s \in outbox \/ (s.op = op /\ s.from = p)
      /\ \A q \in Peers : Incoming(q) => Incoming(q)'
      /\ \A q \in Peers : Updated(q, f)' = Updated(q, f)
  BY <1>4, <1>5 DEF BroadcastOperation, Incoming, Updated
<1>7. \A o \in OpsOnTheWay' : o \in OpsOnTheWay \/ o = op
  BY <1>4, <1>6 DEF OpsOnTheWay
<1>8. WriteOnTheWay(f)'
  <2>1. \A s \in outbox : s.from \in Peers
    BY <1>1 DEF TypeOK, Sends
  <2>2. \A s \in outbox' : Updated(s.from, f)'
    BY <1>1, <1>2, <1>6, <2>1 DEF WriteOnTheWay
  <2>3. QED BY <1>1, <1>4, <1>5, <1>7, <2>2 DEF WriteOnTheWay
<1>9. ev'[p] = IdleHandler /\ \A q \in Peers \ {p} : ev'[q] = ev[q]
  BY <1>1, <1>4 DEF TypeOK
<1>10. \A q \in Peers \ {p} : WriteReaches(q, f)'
  BY <1>1, <1>4, <1>6, <1>9, WriteReachesStays
<1>11. WriteReaches(p, f)'
  <2>1. Indexed(p)' = Indexed(p)
    BY <1>4 DEF Indexed
  <2>2. QED BY <1>1, <1>2, <1>4, <1>6, <1>9, <2>1 DEF WriteReaches
<1>12. ASSUME NEW q \in Peers PROVE RowGivesWay(q, f)'
  <2>1. /\ Increment(clock[p], p) \in VectorClocks /\ Leq(clock[p], Increment(clock[p], p))
        /\ db[q][f].vc \in VectorClocks
    BY <1>1, ClockTypes, IncrementIsLater, CausalTypes
  <2>2. \A r \in Peers : clock'[r] = IF r = p THEN Increment(clock[p], p) ELSE clock[r]
    BY <1>1, <1>4 DEF TypeOK
  <2>3. Compare(db[q][f].vc, clock[p]) = -1 => Compare(db[q][f].vc, op.vc) = -1
    BY <1>1, <1>5, <2>1, LaterStays
  <2>4. QED BY <1>1, <1>2, <1>4, <1>5, <1>6, <1>7, <2>2, <2>3 DEF RowGivesWay
<1>13. QED BY <1>1, <1>4, <1>8, <1>10, <1>11, <1>12 DEF WriteTold

\* The check of the row lets the change in.
LEMMA WriteToldCheck ==
    ASSUME TakingTurns, TurnsInv, NEW f \in FileIDs, WriteTold(f), NEW t \in thr, Check(t)
    PROVE  /\ MoveTo(t, [t EXCEPT !.pc = "write"]) /\ t.pc = "check"
           /\ UNCHANGED <<clock, disk, db, fsev, pending, ev, outbox, net, nedit, last>>
<1>1. /\ t.op.kind = "update" /\ t.op.fid = f /\ t.op.chk = last /\ t.at \in Peers
      /\ t.op \in OpsOnTheWay /\ RowGivesWay(t.at, f)
  BY WriteToldParts
<1>2. Winners(db[t.at][f], disk[t.at].data, t.op, t.data) = {"remote"}
  <2>1. CASE ~db[t.at][f].present \/ db[t.at][f].chk = t.op.chk
    BY <2>1 DEF Winners
  <2>2. CASE ~(~db[t.at][f].present \/ db[t.at][f].chk = t.op.chk)
    <3>1. Compare(db[t.at][f].vc, t.op.vc) = -1
      BY <1>1, <2>2 DEF RowGivesWay
    <3>2. ResolveConflict(db[t.at][f], disk[t.at].data, t.op, t.data) = {"remote"}
      BY <3>1 DEF ResolveConflict
    <3>3. QED BY <2>2, <3>2 DEF Winners
  <2>3. QED BY <2>1, <2>2
<1>3. QED BY <1>1, <1>2 DEF Check, persistent

\* The change travels.
LEMMA WriteToldTravels ==
    ASSUME TakingTurns, TurnsInv, NEW f \in FileIDs, WriteTold(f),
           \/ \E s \in outbox : SendOp(s)
           \/ \E m \in net : Deliver(m)
           \/ \E t \in thr : Check(t) \/ Unignore(t),
           TypeOK'
    PROVE  WriteTold(f)'
<1>1. /\ TypeOK /\ last # {} /\ WriteOnTheWay(f)
      /\ \A q \in Peers : /\ WriteReaches(q, f) /\ RowGivesWay(q, f)
                          /\ clock[q] \in VectorClocks /\ Leq(clock[q], clock[q])
                          /\ clock'[q] \in VectorClocks
  <2>1. \A q \in Peers : clock'[q] \in VectorClocks
    BY DEF TypeOK
  <2>2. QED BY <2>1, WriteToldParts
<1>2. ASSUME OpsOnTheWay' \subseteq OpsOnTheWay, outbox' \subseteq outbox,
             \A p \in Peers : Incoming(p) => Incoming(p)',
             \A m \in net' : m.data = last, \A t \in thr' : t.data = last /\ ~t.merged,
             \A t \in thr : t.pc = "insert" => \E u \in thr' : u.at = t.at /\ u.pc = "insert",
             \A q \in Peers : Leq(clock[q], clock'[q]),
             UNCHANGED <<disk, db, fsev, pending, ev, last>>
      PROVE  WriteTold(f)'
  <2>1. \A q \in Peers : Updated(q, f)' = Updated(q, f)
    BY <1>2 DEF Updated
  <2>2. WriteOnTheWay(f)'
    <3>1. \A s \in outbox : s.from \in Peers
      BY <1>1 DEF TypeOK, Sends
    <3>2. QED BY <1>1, <1>2, <2>1, <3>1 DEF WriteOnTheWay
  <2>3. ASSUME NEW p \in Peers PROVE WriteReaches(p, f)'
    BY <1>1, <1>2, WriteReachesStays
  <2>4. ASSUME NEW p \in Peers PROVE RowGivesWay(p, f)'
    BY <1>1, <1>2, <2>1, RowGivesWayStays
  <2>5. QED BY <1>1, <1>2, <2>2, <2>3, <2>4 DEF WriteTold
<1>3. ASSUME NEW s \in outbox, SendOp(s) PROVE WriteTold(f)'
  <2>1. s.op.kind = "update" /\ disk[s.from].data = last
    BY <1>1 DEF WriteOnTheWay, OpsOnTheWay, Updated
  <2>2. \A m \in net' : m.data = last
    BY <1>1, <1>3, <2>1, SendMoves DEF WriteOnTheWay
  <2>3. \A t \in thr' : t.data = last /\ ~t.merged
    BY <1>1, <1>3, SendMoves DEF WriteOnTheWay
  <2>4. QED BY <1>1, <1>2, <1>3, <2>2, <2>3, SendMoves
<1>4. ASSUME NEW m \in net, Deliver(m) PROVE WriteTold(f)'
  <2>1. m.data = last
    BY <1>1 DEF WriteOnTheWay
  <2>2. \A n \in net' : n.data = last
    BY <1>1, <1>4, <2>1, DeliverMoves DEF WriteOnTheWay
  <2>3. \A t \in thr' : t.data = last /\ ~t.merged
    BY <1>1, <1>4, <2>1, DeliverMoves DEF WriteOnTheWay
  <2>4. QED BY <1>2, <1>4, <2>2, <2>3, DeliverMoves
<1>5. ASSUME NEW t \in thr, Check(t) PROVE WriteTold(f)'
  <2>1. /\ MoveTo(t, [t EXCEPT !.pc = "write"]) /\ t.pc = "check"
        /\ UNCHANGED <<clock, disk, db, fsev, pending, ev, outbox, net, last>>
    BY <1>5, WriteToldCheck
  <2>2. \A u \in thr' : u.data = last /\ ~u.merged
    BY <1>1, <2>1, AdvanceMoves DEF WriteOnTheWay
  <2>3. \A u \in thr : u.pc = "insert" => u \in thr'
    BY <2>1 DEF MoveTo
  <2>4. \A p \in Peers : Incoming(p) => Incoming(p)'
    BY <1>1, <2>1, AdvanceMoves
  <2>5. OpsOnTheWay' \subseteq OpsOnTheWay /\ \A m \in net' : m.data = last
    BY <1>1, <2>1, AdvanceMoves DEF WriteOnTheWay
  <2>6. QED BY <1>1, <1>2, <2>1, <2>2, <2>3, <2>4, <2>5
<1>6. ASSUME NEW t \in thr, Unignore(t) PROVE WriteTold(f)'
  <2>1. \A u \in thr' : u.data = last /\ ~u.merged
    BY <1>1, <1>6, UnignoreMoves DEF WriteOnTheWay
  <2>2. \A u \in thr : u.pc = "insert" => u \in thr'
    BY <1>6, UnignoreMoves
  <2>3. \A m \in net' : m.data = last
    BY <1>1, <1>6, UnignoreMoves DEF WriteOnTheWay
  <2>4. QED BY <1>1, <1>2, <1>6, <2>1, <2>2, <2>3, UnignoreMoves
<1>7. QED BY <1>3, <1>4, <1>5, <1>6

\* The change arrives: on the disk, then in the files table.
LEMMA WriteToldArrives ==
    ASSUME TakingTurns, TurnsInv, NEW f \in FileIDs, WriteTold(f), NEW t \in thr,
           ApplyWrite(t) \/ ApplyRemove(t) \/ ApplyInsert(t)
    PROVE  WriteTold(f)'
<1>1. /\ TypeOK /\ CausalInv /\ NeverCrashed /\ last # {} /\ WriteOnTheWay(f)
      /\ \A q \in Peers : /\ WriteReaches(q, f) /\ RowGivesWay(q, f)
                          /\ clock[q] \in VectorClocks /\ Leq(clock[q], clock[q])
      /\ t.op.kind = "update" /\ t.op.fid = f /\ t.op.chk = last /\ t.op \in OpsOnTheWay
      /\ t.data = last /\ ~t.merged /\ t.at \in Peers
  BY WriteToldParts
<1>2. \A s \in outbox : s.from \in Peers
  BY <1>1 DEF TypeOK, Sends
<1>3. CASE ApplyWrite(t)
  <2>1. /\ MoveTo(t, [t EXCEPT !.pc = "insert"]) /\ Notify(t.at, "applied")
        /\ disk' = [disk EXCEPT ![t.at] = [fid |-> f, data |-> last]]
        /\ UNCHANGED <<clock, db, pending, ev, outbox, net, last>>
    BY <1>1, <1>3 DEF ApplyWrite
  <2>2. /\ OpsOnTheWay' \subseteq OpsOnTheWay
        /\ \A u \in thr' : u.data = last /\ ~u.merged
        /\ \E u \in thr' : u.at = t.at /\ u.pc = "insert"
        /\ \A p \in Peers \ {t.at} : Incoming(p) => Incoming(p)'
    <3>0. UNCHANGED <<outbox, net>> /\ MoveTo(t, [t EXCEPT !.pc = "insert"])
      BY <2>1
    <3>1. /\ OpsOnTheWay' \subseteq OpsOnTheWay
          /\ \A u \in thr' : u \in thr \/ (u.data = t.data /\ u.merged = t.merged)
      BY <1>1, <3>0, AdvanceMoves
    <3>2. \E u \in thr' : u.at = t.at /\ u.pc = "insert"
      <4>1. [t EXCEPT !.pc = "insert"] \in thr'
        BY <3>0 DEF MoveTo
      <4>2. [t EXCEPT !.pc = "insert"].at = t.at /\ [t EXCEPT !.pc = "insert"].pc = "insert"
        BY <1>1 DEF TypeOK, Appliers
      <4>3. QED BY <4>1, <4>2
    <3>3. \A p \in Peers : Incoming(p) => Incoming(p)' \/ p = t.at
      BY <1>1, <3>0, AdvanceMoves
    <3>4. QED BY <1>1, <3>1, <3>2, <3>3 DEF WriteOnTheWay
  <2>3. /\ Updated(t.at, f)'
        /\ \A p \in Peers \ {t.at} : disk'[p] = disk[p] /\ Updated(p, f)' = Updated(p, f)
    BY <1>1, <2>1 DEF TypeOK, Updated
  <2>4. /\ fsev'[t.at] \in {fsev[t.at], Append(fsev[t.at], "applied")}
        /\ \A p \in Peers \ {t.at} : fsev'[p] = fsev[p]
    BY <1>1, <2>1, NotifyFacts
  <2>5. WriteOnTheWay(f)'
    BY <1>1, <1>2, <2>1, <2>2, <2>3 DEF WriteOnTheWay
  <2>6. WriteReaches(t.at, f)'
    <3>1. /\ fsev[t.at] \in Seq(WriteEvents) /\ pending[t.at] \in {"none", "create", "update"}
          /\ ev[t.at] = IdleHandler \/ (Updated(t.at, f) /\ Handling(t.at))
      <4>1. WriteReaches(t.at, f) /\ <<>> \in Seq(WriteEvents)
        BY <1>1
      <4>2. CASE Updated(t.at, f)
        BY <4>1, <4>2 DEF WriteReaches, WriteEvents
      <4>3. CASE ~Updated(t.at, f)
        BY <4>1, <4>3 DEF WriteReaches, Calm
      <4>4. QED BY <4>2, <4>3
    <3>2. fsev'[t.at] \in Seq(WriteEvents)
      <4>1. "applied" \in WriteEvents
        BY DEF WriteEvents
      <4>2. QED BY <2>4, <3>1, <4>1, AppendWriteEvent
    <3>3. ev'[t.at] = IdleHandler \/ Handling(t.at)'
      BY <2>1, <2>3, <3>1 DEF Handling, Updated
    <3>4. QED BY <2>1, <2>2, <2>3, <3>1, <3>2, <3>3 DEF WriteReaches, WriteEvents
  <2>7. \A p \in Peers \ {t.at} : WriteReaches(p, f)'
    <3>1. \A u \in thr : u.at # t.at => u \in thr'
      BY <2>1 DEF MoveTo
    <3>2. QED BY <1>1, <2>1, <2>2, <2>3, <2>4, <3>1, WriteReachesStays
  <2>8. ASSUME NEW p \in Peers PROVE RowGivesWay(p, f)'
    <3>1. /\ Leq(t.op.vc, clock[t.at]) /\ t.op.vc \in VectorClocks
          /\ db[p][f].vc \in VectorClocks
      BY <1>1, CausalTypes DEF CausalInv, AppliersBehindClock, NeverCrashed
    <3>2. Compare(db[p][f].vc, t.op.vc) = -1 => Compare(db[p][f].vc, clock[t.at]) = -1
      BY <1>1, <3>1, LaterStays
    <3>3. QED BY <1>1, <2>1, <2>2, <2>3, <3>2 DEF RowGivesWay
  <2>9. QED BY <1>1, <2>1, <2>5, <2>6, <2>7, <2>8 DEF WriteTold
<1>4. CASE ApplyInsert(t)
  <2>1. /\ MoveTo(t, [t EXCEPT !.pc = "unignore"]) /\ t.pc = "insert"
        /\ db' = [db EXCEPT ![t.at][f] = AppliedRow(t)]
        /\ UNCHANGED <<clock, disk, fsev, pending, ev, outbox, net, last>>
    BY <1>1, <1>4 DEF ApplyInsert, InsertFile, watch
  <2>2. /\ OpsOnTheWay' \subseteq OpsOnTheWay
        /\ \A u \in thr' : u.data = last /\ ~u.merged
    BY <1>1, <2>1, AdvanceMoves DEF WriteOnTheWay
  <2>3. /\ \A p \in Peers : Incoming(p) => Incoming(p)'
        /\ \A u \in thr : u.at # t.at => u \in thr'
    BY <2>1 DEF MoveTo, Incoming
  <2>4. /\ db'[t.at][f].present /\ db'[t.at][f].chk = last
        /\ \A p \in Peers \ {t.at} : db'[p] = db[p]
    <3>1. AppliedRow(t).present /\ AppliedRow(t).chk = last
      BY <1>1 DEF AppliedRow
    <3>2. db'[t.at][f] = AppliedRow(t) /\ \A p \in Peers \ {t.at} : db'[p] = db[p]
      BY <1>1, <2>1 DEF TypeOK
    <3>3. QED BY <3>1, <3>2
  <2>5. \A p \in Peers : Updated(p, f)' = Updated(p, f)
    BY <2>1 DEF Updated
  <2>6. WriteOnTheWay(f)'
    BY <1>1, <1>2, <2>1, <2>2, <2>5 DEF WriteOnTheWay
  <2>7. WriteReaches(t.at, f)'
    <3>1. Updated(t.at, f) => Indexed(t.at)'
      BY <2>1, <2>4 DEF Updated, Indexed, FileIDs, NoID
    <3>2. Handling(t.at)' = Handling(t.at) /\ Calm(t.at)' = Calm(t.at)
      BY <2>1 DEF Handling, Calm
    <3>3. QED BY <1>1, <2>1, <2>3, <2>5, <3>1, <3>2 DEF WriteReaches
  <2>8. \A p \in Peers \ {t.at} : WriteReaches(p, f)'
    BY <1>1, <2>1, <2>3, <2>4, WriteReachesStays
  <2>9. ASSUME NEW p \in Peers PROVE RowGivesWay(p, f)'
    <3>1. CASE p = t.at
      BY <2>1, <2>4, <3>1 DEF RowGivesWay
    <3>2. CASE p # t.at
      BY <1>1, <2>1, <2>2, <2>4, <2>5, <3>2, RowGivesWayStays
    <3>3. QED BY <3>1, <3>2
  <2>10. QED BY <1>1, <2>1, <2>6, <2>7, <2>8, <2>9 DEF WriteTold
<1>5. CASE ApplyRemove(t)
  BY <1>1, <1>5 DEF ApplyRemove
<1>6. QED BY <1>3, <1>4, <1>5

-----------------------------------------------------------------------------
(* Taking turns: the inductive invariant and what follows from it.          *)

\* The content of the last change names a change that was made.
LEMMA LastIsMade ==
    ASSUME TakingTurns, TurnsInv, [Next]_vars
    PROVE  (last \subseteq 1 .. nedit)'
<1>1. last \subseteq 1 .. nedit /\ nedit \in Nat
  BY EngineAssumption DEF TurnsInv, CausalInv, TypeOK
<1>2. CASE UNCHANGED <<last, nedit>>
  BY <1>1, <1>2
<1>3. ASSUME NEW p \in Peers, UserWrite(p) \/ UserDelete(p) PROVE (last \subseteq 1 .. nedit)'
  <2>1. nedit' = nedit + 1 /\ last' \in {{nedit + 1}, {}}
    BY <1>3 DEF UserWrite, UserDelete
  <2>2. QED BY <1>1, <2>1
<1>4. ASSUME NEW p \in Peers,
             \/ WatcherEvent(p) \/ HandleWrite(p) \/ HashLocal(p) \/ StoreLocal(p)
             \/ HandleDelete(p) \/ QueueOperation(p)
      PROVE  UNCHANGED <<last, nedit>>
  BY <1>4 DEF WatcherEvent, HandleWrite, HashLocal, StoreLocal, HandleDelete, QueueOperation,
              GetFileByPath, InsertFile
<1>5. ASSUME NEW s \in outbox, SendOp(s) PROVE UNCHANGED <<last, nedit>>
  BY <1>5 DEF SendOp
<1>6. ASSUME NEW m \in net, Deliver(m) PROVE UNCHANGED <<last, nedit>>
  BY <1>6 DEF Deliver
<1>7. ASSUME NEW t \in thr,
             Check(t) \/ ApplyWrite(t) \/ ApplyRemove(t) \/ ApplyInsert(t) \/ Unignore(t)
      PROVE  UNCHANGED <<last, nedit>>
  BY <1>7 DEF Check, ApplyWrite, ApplyRemove, ApplyInsert, Unignore, InsertFile, IgnorePath,
              WatchPath
<1>8. CASE UNCHANGED vars
  BY <1>2, <1>8 DEF vars
<1>9. QED BY <1>2, <1>3, <1>4, <1>5, <1>6, <1>7, <1>8, TurnsNext

\* Where the change is, after a step.
LEMMA TurnsProgress ==
    ASSUME TakingTurns, TurnsInv, Next, TypeOK'
    PROVE  \/ DeleteTold'
           \/ \E f \in FileIDs : WriteTold(f)'
           \/ \E a \in Peers : DeleteUnnoticed(a)' \/ WriteUnnoticed(a)'
<1>1. ASSUME NEW p \in Peers, UserWrite(p) \/ UserDelete(p)
      PROVE  DeleteUnnoticed(p)' \/ WriteUnnoticed(p)'
  BY <1>1, TurnsUserWrite, TurnsUserDelete
<1>2. CASE \E p \in Peers : UserWrite(p) \/ UserDelete(p)
  BY <1>1, <1>2
<1>3. CASE ~\E p \in Peers : UserWrite(p) \/ UserDelete(p)
  <2>1. ASSUME NEW a \in Peers, DeleteUnnoticed(a) \/ WriteUnnoticed(a)
        PROVE  \/ DeleteTold' \/ DeleteUnnoticed(a)' \/ WriteUnnoticed(a)'
               \/ \E f \in FileIDs : WriteTold(f)'
    BY <2>1, DeleteUnnoticedStep, WriteUnnoticedStep
  <2>2. CASE DeleteTold
    BY <1>3, <2>2, TurnsNext, DeleteToldLocal, DeleteToldTravels
  <2>3. ASSUME NEW f \in FileIDs, WriteTold(f) PROVE WriteTold(f)'
    BY <1>3, <2>3, TurnsNext, WriteToldLocal, WriteToldQueue, WriteToldTravels, WriteToldArrives
  <2>4. QED BY <2>1, <2>2, <2>3 DEF TurnsInv
<1>4. QED BY <1>2, <1>3

\* The inductive invariant holds at the start: no file, and nothing on its way.
LEMMA TurnsInit == TakingTurns /\ Init => TurnsInv
<1> SUFFICES ASSUME TakingTurns, Init PROVE TurnsInv
  OBVIOUS
<1>1. CausalInv
  BY InitCausal
<1>2. /\ NeverCrashed /\ IgnoredByApplier /\ ClocksTold /\ last \subseteq 1 .. nedit
  BY DEF Init, NeverCrashed, IgnoredByApplier, ClocksTold, NewVectorClock
<1>3. DeleteOnTheWay
  BY DEF Init, DeleteOnTheWay, OpsOnTheWay
<1>4. <<>> \in Seq({"delete"})
  OBVIOUS
<1>5. \A p \in Peers : DeleteReaches(p)
  BY <1>4 DEF Init, DeleteReaches, Absent
<1>6. DeleteTold
  BY <1>3, <1>5 DEF DeleteTold, Init
<1>7. QED BY <1>1, <1>2, <1>6 DEF TurnsInv

\* Every step keeps it.
LEMMA TurnsStep == TakingTurns /\ TurnsInv /\ [Next]_vars => TurnsInv'
<1> SUFFICES ASSUME TakingTurns, TurnsInv, [Next]_vars PROVE TurnsInv'
  OBVIOUS
<1>1. CausalInv' /\ TypeOK'
  BY NextCausal DEF TurnsInv, CausalInv
<1>2. NeverCrashed' /\ ClocksTold' /\ IgnoredByApplier' /\ (last \subseteq 1 .. nedit)'
  BY NeverCrashedStays, ClocksToldStays, IgnoredByApplierStays, LastIsMade
     DEF TurnsInv, CausalInv
<1>3. CASE Next
  <2>1. \/ DeleteTold'
        \/ \E f \in FileIDs : WriteTold(f)'
        \/ \E a \in Peers : DeleteUnnoticed(a)' \/ WriteUnnoticed(a)'
    BY <1>1, <1>3, TurnsProgress
  <2>2. QED BY <1>1, <1>2, <2>1 DEF TurnsInv
<1>4. CASE UNCHANGED vars
  <2>1. /\ DeleteTold' = DeleteTold
        /\ \A f \in FileIDs : WriteTold(f)' = WriteTold(f)
        /\ \A a \in Peers : /\ DeleteUnnoticed(a)' = DeleteUnnoticed(a)
                            /\ WriteUnnoticed(a)' = WriteUnnoticed(a)
    BY <1>4 DEF vars, DeleteTold, DeleteOnTheWay, DeleteReaches, OpsOnTheWay, Calm, Incoming,
                WriteTold, WriteOnTheWay, WriteReaches, RowGivesWay, Updated, Handling, Indexed,
                DeleteUnnoticed, WriteUnnoticed, GetFileByPath
  <2>2. QED BY <1>1, <1>2, <2>1 DEF TurnsInv
<1>5. QED BY <1>3, <1>4

\* Between a change and the moment all is settled the change is never lost:
\* it is unnoticed at its author, or on its way to whoever does not have it,
\* with a stamp that is later than every row it has to replace.
THEOREM TurnsInvHolds ==
    ASSUME TakingTurns
    PROVE  Spec => []TurnsInv
<1>1. Init => TurnsInv
  BY TurnsInit
<1>2. TurnsInv /\ [Next]_vars => TurnsInv'
  BY TurnsStep
<1>3. QED BY <1>1, <1>2, PTL DEF Spec

\* For any number of peers, changes and duplicated messages and either
\* strategy: when users take turns, every folder ends with what the last
\* change left.
THEOREM LastEditSurvivesHolds ==
    ASSUME TakingTurns
    PROVE  Spec => []LastEditSurvives
<1>1. TurnsInv => LastEditSurvives
  BY TurnsSettled DEF LastEditSurvives
<1>2. QED BY <1>1, TurnsInvHolds, PTL

\* And every files table ends describing the file on its disk.
THEOREM IndexMatchesDiskHolds ==
    ASSUME TakingTurns
    PROVE  Spec => []IndexMatchesDisk
<1>1. TurnsInv => IndexMatchesDisk
  BY TurnsSettled DEF IndexMatchesDisk
<1>2. QED BY <1>1, TurnsInvHolds, PTL
-----------------------------------------------------------------------------
(* Only a user unsettles the folders.                                       *)

\* The steps of a peer and of its goroutines, without its user.
LEMMA NotTheUser ==
    ASSUME TypeOK, Next, nedit' = nedit
    PROVE  \/ \E p \in Peers : Engine(p)
           \/ Sender \/ Receiver \/ Applier
<1>1. nedit \in Nat
  BY EngineAssumption DEF TypeOK
<1>2. ASSUME NEW p \in Peers PROVE ~User(p)
  BY <1>1 DEF User, UserWrite, UserDelete
<1>3. QED BY <1>2 DEF Next

LEMMA NoDeleteAtStays ==
    ASSUME NEW q \in Peers, NoDeleteAt(q), log'[q] = log[q], replay'[q] = replay[q],
           ev'[q] = ev[q] \/ ev'[q].kind = "update",
           fsev'[q] = fsev[q] \/ fsev'[q] \in Seq(WriteEvents),
           pending'[q] = pending[q] \/ pending'[q] # "delete"
    PROVE  NoDeleteAt(q)'
BY DEF NoDeleteAt, WriteEvents

\* The operations on their way, by where they are.
LEMMA OnTheWayParts ==
    (\A op \in OpsOnTheWay : op.kind = "update") <=>
        /\ \A s \in outbox : s.op.kind = "update"
        /\ \A m \in net : m.op.kind = "update"
        /\ \A t \in thr : t.op.kind = "update"
BY DEF OpsOnTheWay

\* The watcher and the event handler make no deletion of a write.
LEMMA NoDeleteHandler ==
    ASSUME TypeOK, NoDelete, NEW p \in Peers,
           WatcherEvent(p) \/ HandleWrite(p) \/ HashLocal(p) \/ StoreLocal(p)
    PROVE  NoDelete'
<1>1. /\ NoDeleteAt(p) /\ fsev[p] \in Seq(WriteEvents) /\ pending[p] # "delete"
      /\ ev[p].kind = "update" /\ ev[p] \in Handlers
  BY DEF NoDelete, NoDeleteAt, WriteEvents, TypeOK
<1>2. UNCHANGED <<log, replay, outbox, net, thr>>
  BY DEF WatcherEvent, HandleWrite, HashLocal, StoreLocal, persistent, watch, InsertFile
<1>3. CASE WatcherEvent(p)
  <2>1. fsev[p] # <<>> /\ fsev' = [fsev EXCEPT ![p] = Tail(fsev[p])] /\ ev' = ev
    BY <1>3 DEF WatcherEvent
  <2>2. PICK event \in Readings(p, Head(fsev[p])) : pending' = [pending EXCEPT ![p] = event]
    BY <1>3 DEF WatcherEvent
  <2>3. Head(fsev[p]) \in WriteEvents /\ Tail(fsev[p]) \in Seq(WriteEvents)
    BY <1>1, <2>1, HeadTailProperties
  <2>4. event # "delete"
    BY <1>1, <2>3 DEF Readings, Debounce, WriteEvents
  <2>5. /\ fsev'[p] \in Seq(WriteEvents) /\ pending'[p] # "delete"
        /\ \A q \in Peers \ {p} : fsev'[q] = fsev[q] /\ pending'[q] = pending[q]
    BY <2>1, <2>2, <2>3, <2>4 DEF TypeOK
  <2>6. \A q \in Peers : NoDeleteAt(q)'
    BY <1>2, <2>1, <2>5, NoDeleteAtStays DEF NoDelete
  <2>7. QED BY <1>2, <2>6 DEF NoDelete, OpsOnTheWay
<1>4. CASE HandleWrite(p)
  <2>1. /\ pending' = [pending EXCEPT ![p] = "none"]
        /\ ev' = ev \/ \E f : ev' = [ev EXCEPT ![p] = [pc |-> "hash", kind |-> "update",
                                                      fid |-> f, chk |-> {}]]
        /\ fsev' = fsev \/ Notify(p, "unknown")
    BY <1>4, Zenon DEF HandleWrite
  <2>2. /\ fsev'[p] = fsev[p] \/ fsev'[p] \in Seq(WriteEvents)
        /\ \A q \in Peers \ {p} : fsev'[q] = fsev[q]
    BY <1>1, <2>1, NotifyFacts, AppendWriteEvent DEF WriteEvents
  <2>3. /\ pending'[p] # "delete" /\ (ev'[p] = ev[p] \/ ev'[p].kind = "update")
        /\ \A q \in Peers \ {p} : ev'[q] = ev[q] /\ pending'[q] = pending[q]
    BY <2>1 DEF TypeOK
  <2>4. \A q \in Peers : NoDeleteAt(q)'
    BY <1>2, <2>2, <2>3, NoDeleteAtStays DEF NoDelete
  <2>5. QED BY <1>2, <2>4 DEF NoDelete, OpsOnTheWay
<1>5. CASE HashLocal(p) \/ StoreLocal(p)
  <2>1. UNCHANGED <<fsev, pending>>
    BY <1>5 DEF HashLocal, StoreLocal, watch
  <2>2. /\ ev'[p].kind = "update"
        /\ \A q \in Peers \ {p} : ev'[q] = ev[q]
    <3>1. ev[p].pc \in {"hash", "store"}
      BY <1>5 DEF HashLocal, StoreLocal
    <3>2. CASE HashLocal(p)
      BY <1>1, <3>1, <3>2 DEF HashLocal, TypeOK, Handlers, IdleHandler
    <3>3. CASE StoreLocal(p)
      BY <1>1, <3>1, <3>3 DEF StoreLocal, TypeOK, Handlers, IdleHandler
    <3>4. QED BY <1>5, <3>2, <3>3
  <2>3. \A q \in Peers : NoDeleteAt(q)'
    BY <1>2, <2>1, <2>2, NoDeleteAtStays DEF NoDelete
  <2>4. QED BY <1>2, <2>3 DEF NoDelete, OpsOnTheWay
<1>6. QED BY <1>3, <1>4, <1>5

\* What is queued, sent and received is no deletion either.
LEMMA NoDeleteTravels ==
    ASSUME TypeOK, NoDelete,
           \/ \E p \in Peers : QueueOperation(p)
           \/ \E s \in outbox : SendOp(s) \/ LoseSend(s)
           \/ \E m \in net : Deliver(m)
    PROVE  NoDelete'
<1>1. /\ \A s \in outbox : s.op.kind = "update"
      /\ \A m \in net : m.op.kind = "update"
      /\ \A t \in thr : t.op.kind = "update"
  BY OnTheWayParts DEF NoDelete
<1>2. ASSUME NEW p \in Peers, QueueOperation(p) PROVE NoDelete'
  <2> DEFINE op == [kind |-> ev[p].kind, fid |-> ev[p].fid, chk |-> ev[p].chk,
                    vc |-> Increment(clock[p], p), peer |-> p, mtime |-> 0]
  <2>1. /\ log' = [log EXCEPT ![p] = Append(log[p], op)]
        /\ outbox' = outbox \cup BroadcastOperation(op)
        /\ ev' = [ev EXCEPT ![p] = IdleHandler]
        /\ UNCHANGED <<replay, fsev, pending, net, thr>>
    BY <1>2 DEF QueueOperation, AppendOperation, watch
  <2>2. op.kind = "update"
    BY DEF NoDelete, NoDeleteAt
  <2> HIDE DEF op
  <2>3. \A s \in outbox' : s.op.kind = "update"
    BY <1>1, <2>1, <2>2 DEF BroadcastOperation
  <2>4. ASSUME NEW q \in Peers PROVE NoDeleteAt(q)'
    <3>1. CASE q # p
      BY <2>1, <3>1, NoDeleteAtStays DEF NoDelete, TypeOK
    <3>2. CASE q = p
      <4>1. log[p] \in Seq(Ops) /\ log'[p] = Append(log[p], op) /\ ev'[p].kind = "update"
        BY <2>1 DEF TypeOK, IdleHandler
      <4>2. \A i \in 1 .. Len(log[p]) : log[p][i].kind = "update"
        BY DEF NoDelete, NoDeleteAt
      <4>3. \A i \in 1 .. Len(log'[p]) : log'[p][i].kind = "update"
        BY <2>2, <4>1, <4>2
      <4>4. QED BY <2>1, <3>2, <4>1, <4>3 DEF NoDelete, NoDeleteAt
    <3>3. QED BY <3>1, <3>2
  <2>5. QED BY <1>1, <2>1, <2>3, <2>4 DEF NoDelete, OpsOnTheWay
<1>3. ASSUME UNCHANGED <<log, replay, ev, fsev, pending>>
      PROVE  \A q \in Peers : NoDeleteAt(q)'
  BY <1>3, NoDeleteAtStays DEF NoDelete
<1>4. ASSUME NEW s \in outbox, SendOp(s) \/ LoseSend(s) PROVE NoDelete'
  <2>1. /\ outbox' \subseteq outbox /\ thr' = thr
        /\ UNCHANGED <<log, replay, ev, fsev, pending>>
    BY <1>4 DEF SendOp, LoseSend, persistent, watch
  <2>2. \A m \in net' : m.op.kind = "update"
    BY <1>1, <1>4 DEF SendOp, LoseSend
  <2>3. QED BY <1>1, <1>3, <2>1, <2>2 DEF NoDelete, OpsOnTheWay
<1>5. ASSUME NEW m \in net, Deliver(m) PROVE NoDelete'
  <2> DEFINE t == [at |-> m.to, op |-> m.op, data |-> m.data, merged |-> FALSE, pc |-> "check"]
             late == [m EXCEPT !.late = TRUE]
  <2>1. /\ outbox' = outbox /\ thr' = thr \cup {t} /\ net' \subseteq net \cup {late}
        /\ UNCHANGED <<log, replay, ev, fsev, pending>>
    BY <1>5 DEF Deliver, persistent, watch
  <2>2. t.op.kind = "update" /\ late.op.kind = "update"
    BY <1>1 DEF TypeOK, Messages
  <2>3. QED BY <1>1, <1>3, <2>1, <2>2 DEF NoDelete, OpsOnTheWay
<1>6. QED BY <1>2, <1>4, <1>5
\* An applier that has no deletion to apply makes none.
LEMMA NoDeleteApplier ==
    ASSUME TypeOK, NoDelete, NEW t \in thr,
           Check(t) \/ ApplyWrite(t) \/ ApplyRemove(t) \/ ApplyInsert(t) \/ Unignore(t)
    PROVE  NoDelete'
<1>1. /\ \A s \in outbox : s.op.kind = "update"
      /\ \A m \in net : m.op.kind = "update"
      /\ \A u \in thr : u.op.kind = "update"
      /\ t \in Appliers /\ t.at \in Peers
  BY OnTheWayParts DEF NoDelete, TypeOK, Appliers
<1>2. UNCHANGED <<log, replay, ev, pending, net>>
  BY DEF Check, ApplyWrite, ApplyRemove, ApplyInsert, Unignore, persistent, watch, InsertFile
<1>3. /\ fsev'[t.at] = fsev[t.at] \/ fsev'[t.at] \in Seq(WriteEvents)
      /\ \A q \in Peers \ {t.at} : fsev'[q] = fsev[q]
  <2>1. CASE fsev' = fsev
    BY <2>1
  <2>2. CASE Notify(t.at, "applied")
    <3>1. fsev[t.at] \in Seq(WriteEvents)
      BY <1>1 DEF NoDelete, NoDeleteAt, WriteEvents
    <3>2. QED BY <1>1, <2>2, <3>1, NotifyFacts, AppendWriteEvent DEF WriteEvents
  <2>3. fsev' = fsev \/ Notify(t.at, "applied")
    <3>1. ~ApplyRemove(t)
      BY <1>1 DEF ApplyRemove
    <3>2. QED BY <3>1 DEF Check, ApplyWrite, ApplyInsert, Unignore, watch
  <2>4. QED BY <2>1, <2>2, <2>3
<1>4. \A q \in Peers : NoDeleteAt(q)'
  BY <1>2, <1>3, NoDeleteAtStays DEF NoDelete
<1>5. /\ \A s \in outbox' : s.op.kind = "update"
      /\ \A u \in thr' : u.op.kind = "update"
  <2> DEFINE local == LocalWinnerOp(t.at, t.op.fid)
             merged == MergedOp(t)
  <2>1. /\ \A pc : [t EXCEPT !.pc = pc].op.kind = "update"
        /\ \A d : [t EXCEPT !.pc = "write", !.op.chk = {}, !.data = d,
                            !.merged = TRUE].op.kind = "update"
        /\ \A pc, op : op.kind = "update" => [t EXCEPT !.pc = pc, !.op = op].op.kind = "update"
        /\ \A pc, op : op.kind = "update" =>
              [[t EXCEPT !.pc = pc] EXCEPT !.op = op].op.kind = "update"
    BY <1>1 DEF Appliers, Ops
  <2>2. local.kind = "update" /\ merged.kind = "update"
    BY <1>1 DEF LocalWinnerOp, MergedOp, Appliers, Ops
  <2>3. ASSUME NEW op, op.kind = "update"
        PROVE  \A s \in outbox \cup BroadcastOperation(op) : s.op.kind = "update"
    BY <1>1, <2>3 DEF BroadcastOperation
  <2>4. ASSUME NEW u, MoveTo(t, u), u.op.kind = "update"
        PROVE  \A v \in thr' : v.op.kind = "update"
    BY <1>1, <2>4 DEF MoveTo
  <2> HIDE DEF local, merged
  <2>5. CASE Check(t)
    <3>1. \/ MoveTo(t, [t EXCEPT !.pc = "write"]) /\ outbox' = outbox
          \/ /\ MoveTo(t, [t EXCEPT !.pc = "write", !.op.chk = {},
                                     !.data = @ \cup disk[t.at].data, !.merged = TRUE])
             /\ outbox' = outbox
          \/ MoveTo(t, [t EXCEPT !.pc = "unignore"]) /\ outbox' = outbox
          \/ /\ MoveTo(t, [t EXCEPT !.pc = "unignore", !.op = local])
             /\ outbox' = outbox \cup BroadcastOperation(local)
      BY <2>5 DEF Check, local
    <3>2. QED BY <1>1, <2>1, <2>2, <2>3, <2>4, <3>1
  <2>6. CASE ApplyWrite(t) \/ ApplyRemove(t)
    BY <1>1, <2>1, <2>4, <2>6 DEF ApplyWrite, ApplyRemove
  <2>7. CASE ApplyInsert(t)
    <3>1. \/ /\ outbox' = outbox \cup BroadcastOperation(merged)
             /\ MoveTo(t, [[t EXCEPT !.pc = "unignore"] EXCEPT !.op = merged])
          \/ MoveTo(t, [t EXCEPT !.pc = "unignore"]) /\ outbox' = outbox
      BY <2>7 DEF ApplyInsert, merged
    <3>2. QED BY <1>1, <2>1, <2>2, <2>3, <2>4, <3>1
  <2>8. CASE Unignore(t)
    BY <1>1, <2>8 DEF Unignore
  <2>9. QED BY <2>5, <2>6, <2>7, <2>8
<1>6. QED BY <1>1, <1>2, <1>4, <1>5 DEF NoDelete, OpsOnTheWay

\* A crash forgets, and the replay sends again what was no deletion.
LEMMA NoDeleteLifeCycle ==
    ASSUME TypeOK, NoDelete, NEW p \in Peers,
           Crash(p) \/ Start(p) \/ ReplayNext(p)
    PROVE  NoDelete'
<1>1. /\ \A s \in outbox : s.op.kind = "update"
      /\ \A m \in net : m.op.kind = "update"
      /\ \A u \in thr : u.op.kind = "update"
      /\ NoDeleteAt(p)
  BY OnTheWayParts DEF NoDelete
<1>2. ASSUME NEW ops \in Seq(Ops), \A i \in 1 .. Len(ops) : ops[i].kind = "update"
      PROVE  \A s \in outbox \cup BroadcastHead(p, ops) : s.op.kind = "update"
  <2>1. ops # <<>> => Head(ops).kind = "update"
    BY <1>2
  <2>2. QED BY <1>1, <2>1 DEF BroadcastHead, BroadcastOperation
<1>3. CASE Crash(p)
  <2>1. /\ outbox' \subseteq outbox /\ thr' \subseteq thr /\ net' = net /\ log' = log
        /\ replay' = [replay EXCEPT ![p] = <<>>] /\ fsev' = [fsev EXCEPT ![p] = <<>>]
        /\ pending' = [pending EXCEPT ![p] = "none"] /\ ev' = [ev EXCEPT ![p] = IdleHandler]
    BY <1>3 DEF Crash, persistent
  <2>2. \A q \in Peers \ {p} : NoDeleteAt(q)'
    BY <2>1, NoDeleteAtStays DEF NoDelete, TypeOK
  <2>3. NoDeleteAt(p)'
    <3>1. /\ replay'[p] = <<>> /\ fsev'[p] = <<>> /\ pending'[p] = "none"
          /\ ev'[p].kind = "update" /\ log'[p] = log[p]
      BY <2>1 DEF TypeOK, IdleHandler
    <3>2. \A i \in 1 .. Len(replay'[p]) : replay'[p][i].kind = "update"
      BY <3>1
    <3>3. fsev'[p] \in Seq({"create", "update", "unknown", "applied"})
      BY <3>1
    <3>4. QED BY <1>1, <3>1, <3>2, <3>3 DEF NoDeleteAt
  <2>4. QED BY <1>1, <2>1, <2>2, <2>3 DEF NoDelete, OpsOnTheWay
<1>4. ASSUME NEW ops \in Seq(Ops), \A i \in 1 .. Len(ops) : ops[i].kind = "update",
             NEW sent \in Seq(Ops), \A i \in 1 .. Len(sent) : sent[i].kind = "update",
             replay' = [replay EXCEPT ![p] = ops],
             outbox' \subseteq outbox \cup BroadcastHead(p, sent),
             UNCHANGED <<log, fsev, pending, ev, net, thr>>
      PROVE  NoDelete'
  <2>1. \A q \in Peers \ {p} : NoDeleteAt(q)'
    BY <1>4, NoDeleteAtStays DEF NoDelete, TypeOK
  <2>2. replay'[p] = ops
    BY <1>4 DEF TypeOK
  <2>3. NoDeleteAt(p)'
    BY <1>1, <1>4, <2>2 DEF NoDeleteAt
  <2>4. \A s \in outbox' : s.op.kind = "update"
    BY <1>2, <1>4
  <2>5. QED BY <1>1, <1>4, <2>1, <2>3, <2>4 DEF NoDelete, OpsOnTheWay
<1>5. CASE Start(p)
  <2>1. log[p] \in Seq(Ops) /\ \A i \in 1 .. Len(log[p]) : log[p][i] \in Ops
    BY DEF TypeOK
  <2>2. ReplayOps(p) \in Seq(Ops) /\ Len(ReplayOps(p)) = Len(log[p])
    BY ReplayOpsType
  <2>3. \A i \in 1 .. Len(ReplayOps(p)) : ReplayOps(p)[i].kind = "update"
    BY <1>1, <2>1, <2>2 DEF ReplayOps, NoDeleteAt, Ops
  <2>4. PICK ops \in Seq(Ops) : ops = ReplayOps(p)
    BY <2>2
  <2>5. /\ replay' = [replay EXCEPT ![p] = ops]
        /\ outbox' \subseteq outbox \cup BroadcastHead(p, ops)
        /\ UNCHANGED <<log, fsev, pending, ev, net, thr>>
    BY <1>5, <2>4, ReplaySends DEF Start, persistent, watch
  <2>6. QED BY <1>4, <2>3, <2>4, <2>5
<1>6. CASE ReplayNext(p)
  <2>1. replay[p] \in Seq(Ops) /\ replay[p] # <<>>
    BY <1>6 DEF ReplayNext, TypeOK
  <2>2. /\ Tail(replay[p]) \in Seq(Ops)
        /\ \A i \in 1 .. Len(Tail(replay[p])) : Tail(replay[p])[i].kind = "update"
    BY <1>1, <2>1 DEF NoDeleteAt
  <2>3. PICK ops \in Seq(Ops) : ops = Tail(replay[p])
    BY <2>2
  <2>4. /\ replay' = [replay EXCEPT ![p] = ops]
        /\ outbox' \subseteq outbox \cup BroadcastHead(p, ops)
        /\ UNCHANGED <<log, fsev, pending, ev, net, thr>>
    BY <1>6, <2>3, ReplaySends DEF ReplayNext, persistent, watch
  <2>5. QED BY <1>4, <2>2, <2>3, <2>4
<1>7. QED BY <1>3, <1>5, <1>6

\* Where there is no deletion only a user brings one about.
LEMMA NoDeleteStays ==
    ASSUME TypeOK, NoDelete, Next, nedit' = nedit
    PROVE  NoDelete'
<1>1. ASSUME NEW p \in Peers PROVE ~HandleDelete(p)
  BY DEF HandleDelete, NoDelete, NoDeleteAt
<1>2. ASSUME NEW p \in Peers, Engine(p) PROVE NoDelete'
  BY <1>1, <1>2, NoDeleteHandler, NoDeleteTravels, NoDeleteLifeCycle DEF Engine
<1>3. CASE Sender \/ Receiver
  BY <1>3, NoDeleteTravels DEF Sender, Receiver
<1>4. CASE Applier
  BY <1>4, NoDeleteApplier DEF Applier
<1>5. QED BY <1>2, <1>3, <1>4, NotTheUser
\* What the folders, the messages and the appliers hold.
HoldLast ==
    /\ \A p \in Peers : disk[p].data = last
    /\ \A m \in net : m.data = last
    /\ \A t \in thr : t.data = last

\* A peer sends what is on its disk, whatever operation it sends it for.
LEMMA HoldLastTravels ==
    ASSUME TypeOK, Settled,
           (\E s \in outbox : SendOp(s) \/ LoseSend(s)) \/ (\E m \in net : Deliver(m))
    PROVE  HoldLast'
<1>1. HoldLast
  BY DEF Settled, HoldLast
<1>2. ASSUME NEW s \in outbox, SendOp(s) \/ LoseSend(s) PROVE HoldLast'
  <2>1. UNCHANGED <<disk, thr, last>>
    BY <1>2 DEF SendOp, LoseSend, persistent
  <2>2. \A m \in net' : m.data = last
    <3>1. CASE LoseSend(s)
      BY <1>1, <3>1 DEF LoseSend, HoldLast
    <3>2. CASE SendOp(s) /\ s.op.kind = "delete"
      <4>1. last = {}
        BY <3>2 DEF Settled, NoDelete, OpsOnTheWay
      <4>2. QED BY <1>1, <3>2, <4>1 DEF SendOp, HoldLast
    <3>3. CASE SendOp(s) /\ s.op.kind # "delete"
      <4>1. s.from \in Peers
        BY DEF TypeOK, Sends
      <4>2. QED BY <1>1, <3>3, <4>1 DEF SendOp, HoldLast
    <3>4. QED BY <1>2, <3>1, <3>2, <3>3
  <2>3. QED BY <1>1, <2>1, <2>2 DEF HoldLast
<1>3. ASSUME NEW m \in net, Deliver(m) PROVE HoldLast'
  <2> DEFINE t == [at |-> m.to, op |-> m.op, data |-> m.data, merged |-> FALSE, pc |-> "check"]
             late == [m EXCEPT !.late = TRUE]
  <2>1. /\ thr' = thr \cup {t} /\ net' \subseteq net \cup {late} /\ UNCHANGED <<disk, last>>
    BY <1>3 DEF Deliver, persistent
  <2>2. t.data = last /\ late.data = last
    BY <1>1 DEF HoldLast, TypeOK, Messages
  <2> HIDE DEF t, late
  <2>3. QED BY <1>1, <2>1, <2>2 DEF HoldLast
<1>4. QED BY <1>2, <1>3

\* A merge of equal contents is the content, and what is written is the last.
LEMMA HoldLastApplier ==
    ASSUME TypeOK, Settled, NEW t \in thr,
           Check(t) \/ ApplyWrite(t) \/ ApplyRemove(t) \/ ApplyInsert(t) \/ Unignore(t)
    PROVE  HoldLast'
<1>1. HoldLast /\ t \in Appliers /\ t.at \in Peers /\ t.data = last
  BY DEF Settled, HoldLast, TypeOK, Appliers
<1>2. UNCHANGED <<net, last>>
  BY DEF Check, ApplyWrite, ApplyRemove, ApplyInsert, Unignore, InsertFile
<1>3. \A p \in Peers : disk'[p].data = last
  <2>1. CASE Check(t) \/ ApplyInsert(t) \/ Unignore(t)
    <3>1. disk' = disk
      BY <2>1 DEF Check, ApplyInsert, Unignore, persistent
    <3>2. QED BY <1>1, <3>1 DEF HoldLast
  <2>2. CASE ApplyWrite(t)
    <3>1. disk' = [disk EXCEPT ![t.at] = [fid |-> t.op.fid, data |-> last]]
      BY <1>1, <2>2 DEF ApplyWrite
    <3>2. QED BY <1>1, <3>1 DEF HoldLast, TypeOK
  <2>3. CASE ApplyRemove(t)
    <3>1. t.op.kind # "update" /\ disk' = [disk EXCEPT ![t.at] = Absent]
      BY <2>3 DEF ApplyRemove
    <3>2. last = {}
      BY <3>1 DEF Settled, NoDelete, OpsOnTheWay
    <3>3. QED BY <1>1, <3>1, <3>2 DEF HoldLast, TypeOK, Absent
  <2>4. QED BY <2>1, <2>2, <2>3
<1>4. \A u \in thr' : u.data = last
  <2>1. /\ \A pc : [t EXCEPT !.pc = pc].data = last
        /\ [t EXCEPT !.pc = "write", !.op.chk = {}, !.data = t.data \cup disk[t.at].data,
                     !.merged = TRUE].data = last
        /\ \A pc, op : [t EXCEPT !.pc = pc, !.op = op].data = last
        /\ \A pc, op : [[t EXCEPT !.pc = pc] EXCEPT !.op = op].data = last
    BY <1>1 DEF Appliers, HoldLast
  <2>2. ASSUME NEW u, MoveTo(t, u), u.data = last
        PROVE  \A v \in thr' : v.data = last
    BY <1>1, <2>2 DEF MoveTo, HoldLast
  <2>3. CASE Check(t)
    <3>1. \/ MoveTo(t, [t EXCEPT !.pc = "write"])
          \/ MoveTo(t, [t EXCEPT !.pc = "write", !.op.chk = {},
                                 !.data = t.data \cup disk[t.at].data, !.merged = TRUE])
          \/ MoveTo(t, [t EXCEPT !.pc = "unignore"])
          \/ \E op : MoveTo(t, [t EXCEPT !.pc = "unignore", !.op = op])
      BY <2>3 DEF Check
    <3>2. QED BY <2>1, <2>2, <3>1
  <2>4. CASE ApplyWrite(t) \/ ApplyRemove(t)
    BY <2>1, <2>2, <2>4 DEF ApplyWrite, ApplyRemove
  <2>5. CASE ApplyInsert(t)
    BY <2>1, <2>2, <2>5 DEF ApplyInsert
  <2>6. CASE Unignore(t)
    BY <1>1, <2>6 DEF Unignore, HoldLast
  <2>7. QED BY <2>3, <2>4, <2>5, <2>6
<1>5. QED BY <1>1, <1>2, <1>3, <1>4 DEF HoldLast

\* The watcher, the event handler, a crash and a restart touch no content.
LEMMA HoldLastLocal ==
    ASSUME TypeOK, Settled, NEW p \in Peers, Engine(p)
    PROVE  HoldLast'
<1>1. HoldLast
  BY DEF Settled, HoldLast
<1>2. net' = net /\ thr' \subseteq thr /\ last' = last
  BY DEF Engine, WatcherEvent, HandleWrite, HashLocal, StoreLocal, HandleDelete, QueueOperation,
         Crash, Start, ReplayNext, GetFileByPath, InsertFile
<1>3. \A q \in Peers : disk'[q].data = disk[q].data
  <2>1. CASE HandleWrite(p)
    <3>1. disk' = disk \/ \E f : disk' = [disk EXCEPT ![p].fid = f]
      BY <2>1, Zenon DEF HandleWrite
    <3>2. disk'[p].data = disk[p].data /\ \A q \in Peers \ {p} : disk'[q] = disk[q]
      BY <3>1 DEF TypeOK, Files
    <3>3. QED BY <3>2
  <2>2. CASE ~HandleWrite(p)
    <3>1. disk' = disk
      BY <2>2 DEF Engine, WatcherEvent, HashLocal, StoreLocal, HandleDelete, QueueOperation,
                  Crash, Start, ReplayNext, persistent, InsertFile
    <3>2. QED BY <3>1
  <2>3. QED BY <2>1, <2>2
<1>4. QED BY <1>1, <1>2, <1>3 DEF HoldLast

\* For any peers, strategy and bounds, in every interleaving: only a user
\* unsettles the folders, no crash, restart, replay, loss, repeated message or
\* conflict does.
THEOREM SettledStaysHolds == Spec => SettledStays
<1>1. ASSUME TypeOK, [Next]_vars
      PROVE  [Settled /\ nedit' = nedit => Settled']_vars
  <2> SUFFICES ASSUME Next, Settled, nedit' = nedit
               PROVE  Settled'
    BY <1>1
  <2>1. HoldLast' /\ last' = last
    <3>1. HoldLast'
      BY <1>1, NotTheUser, HoldLastLocal, HoldLastTravels, HoldLastApplier
         DEF Sender, Receiver, Applier
    <3>2. last' = last
      <4>1. ASSUME NEW p \in Peers, Engine(p) PROVE last' = last
        BY <4>1 DEF Engine, WatcherEvent, HandleWrite, HashLocal, StoreLocal, HandleDelete,
                    QueueOperation, Crash, Start, ReplayNext, GetFileByPath, InsertFile
      <4>2. CASE Sender \/ Receiver
        BY <4>2 DEF Sender, Receiver, SendOp, LoseSend, Deliver
      <4>3. CASE Applier
        BY <4>3 DEF Applier, Check, ApplyWrite, ApplyRemove, ApplyInsert, Unignore, InsertFile
      <4>4. QED BY <1>1, <4>1, <4>2, <4>3, NotTheUser
    <3>3. QED BY <3>1, <3>2
  <2>2. last # {} => NoDelete'
    BY <1>1, NoDeleteStays DEF Settled
  <2>3. QED BY <2>1, <2>2 DEF Settled, HoldLast
<1>2. QED BY <1>1, TypeCorrect, PTL DEF Spec, SettledStays

\* Where all has come to rest with the last content everywhere, and no log has a
\* deletion unless the file is gone, the folders are settled.
LEMMA RestIsSettled ==
    ASSUME TypeOK, Quiescent, \A p \in Peers : disk[p].data = last,
           last # {} => \A p \in Peers : \A i \in 1 .. Len(log[p]) : log[p][i].kind = "update"
    PROVE  Settled
<1>1. outbox = {} /\ net = {} /\ thr = {}
  BY DEF Quiescent
<1>2. ASSUME last # {}, NEW p \in Peers
      PROVE  NoDeleteAt(p)
  <2>1. /\ replay[p] = <<>> /\ fsev[p] = <<>> /\ pending[p] = "none"
        /\ ev[p].kind = "update"
    BY DEF Quiescent, IdleHandler
  <2>2. QED BY <1>2, <2>1 DEF NoDeleteAt
<1>3. QED BY <1>1, <1>2 DEF Settled, NoDelete, OpsOnTheWay
=============================================================================
