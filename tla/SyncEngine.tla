----------------------------- MODULE SyncEngine -----------------------------
(***************************************************************************)
(* The sync engine of every peer (internal/sync/engine.go) for ONE path of *)
(* the shared folder, with what it drives: the fsnotify watcher, the       *)
(* conflict resolver, the files and operations tables and the broadcast of *)
(* internal/network/messenger.go.                                          *)
(*                                                                         *)
(* A content is the set of user changes whose text it holds: {} is "no     *)
(* file", and, as a checksum, the empty string.  The contents on two disks *)
(* are equal only if the same changes survive on both.  A file of zero     *)
(* bytes, whose update the receiver takes for the metadata of a chunked    *)
(* one and never applies, is not among the contents.                       *)
(*                                                                         *)
(* A peer keeps its ID through a restart: PEER_ID is set, as in the        *)
(* docker-compose.yml of the repository.                                   *)
(*                                                                         *)
(* Every goroutine is a record that moves through its program counter one  *)
(* shared access at a time: the event handler of a peer (ev), one sender   *)
(* per peer and broadcast operation (outbox), one applier per received     *)
(* operation (thr).                                                        *)
(***************************************************************************)
EXTENDS VectorClock, Sequences, FiniteSets

CONSTANTS
    Editors,      \* the peers whose user changes the file
    Crashers,     \* the peers that may crash
    Strategy,     \* config Conflict.ResolutionStrategy
    Overlap,      \* FALSE: changes and crashes wait until all is settled
    MaxEdits,     \* bound: user changes
    MaxOps,       \* bound: local operations per peer, its own clock entry
    MaxLoss,      \* bound: sends that fail for good
    MaxDups,      \* bound: messages handled twice
    MaxRestarts   \* bound: crashes of one peer

ASSUME EngineAssumption ==
    /\ Editors \subseteq Peers /\ Crashers \subseteq Peers
    /\ Strategy \in {"intelligent_merge", "last_write_wins"}
    /\ Overlap \in BOOLEAN
    /\ MaxEdits \in Nat /\ MaxOps \in Nat
    /\ MaxLoss \in Nat /\ MaxDups \in Nat /\ MaxRestarts \in Nat

VARIABLES
    clock,     \* Engine.vectorClock, in memory only
    disk,      \* the file: its content and the file ID in its xattr
    db,        \* files table, by file ID
    log,       \* operations table: this peer's operations, in order
    up,        \* is the process running
    replay,    \* logged operations Start has yet to rebroadcast
    fsev,      \* fsnotify events the watcher has not read
    pending,   \* the debounced event of the path
    ignored,   \* Watcher.ignoreMap[path]
    ev,        \* the event handler goroutine (processFileEvents)
    outbox,    \* sender goroutines of BroadcastOperation
    net,       \* messages on the wire
    thr,       \* processIncomingFileAsync goroutines
    nedit, losses, dups, restarts,   \* counters of the bounded events
    last       \* history: the content the last user change left

persistent == <<disk, db, log>>
watch      == <<fsev, pending, ignored>>
counters   == <<losses, dups, restarts>>
vars == <<clock, disk, db, log, up, replay, fsev, pending, ignored, ev,
          outbox, net, thr, nedit, losses, dups, restarts, last>>

-----------------------------------------------------------------------------
FileIDs  == 1 .. MaxEdits
NoID     == 0
Contents == SUBSET (1 .. MaxEdits)

\* GenerateFileID hashes the first 64 KB, the size and the mtime: every file
\* a user creates has an ID of its own.  A file without xattr holds the text
\* of the one change that wrote it, and that change names the ID.
GenerateFileID(data) == CHOOSE e \in data : TRUE

Absent == [fid |-> NoID, data |-> {}]
Files  == [fid : FileIDs \cup {NoID}, data : Contents]

\* op.Mtime is only ever the zero time of a log entry (-1, before the epoch),
\* never set (0), or a wall-clock reading (1).
Mtimes == {-1, 0, 1}

\* SyncOperation; create and update are handled alike by the receiver.
Ops == [kind : {"update", "delete"}, fid : FileIDs, chk : Contents,
        vc : VectorClocks, peer : Peers, mtime : Mtimes]

\* A row of the files table; the nil clock of a local row is NewVectorClock.
Rows == [present : BOOLEAN, chk : Contents, vc : VectorClocks,
         peer : Peers, mtime : Mtimes]

IdleHandler == [pc |-> "idle", kind |-> "update", fid |-> NoID, chk |-> {}]
Handlers == {IdleHandler} \cup
            [pc : {"hash", "store", "queue"}, kind : {"update", "delete"},
             fid : FileIDs, chk : Contents]

Sends    == [from : Peers, to : Peers, op : Ops]
Messages == [to : Peers, op : Ops, data : Contents, late : BOOLEAN]
Appliers == [at : Peers, op : Ops, data : Contents, merged : BOOLEAN,
             pc : {"check", "write", "insert", "unignore"}]

\* One sender goroutine per peer other than op.PeerID.
BroadcastOperation(op) ==
    {[from |-> op.peer, to |-> q, op |-> op] : q \in Peers \ {op.peer}}

\* BroadcastOperation and the replay return once every send has been
\* acknowledged or given up; a late copy has been acknowledged before.
InFlight(op) == \/ \E s \in outbox : s.op = op
                \/ \E m \in net : m.op = op /\ ~m.late

\* Start adds the folder to the watcher after the replay.
Watching(p) == up[p] /\ replay[p] = <<>>

\* What fsnotify reports: "unknown" is its Chmod, the change of an xattr, and
\* "applied" the pair that SetFileID after a rename into place causes, a
\* create and a Chmod.
Events == {"create", "update", "delete", "unknown", "applied"}

Notify(p, event) ==
    fsev' = IF Watching(p) THEN [fsev EXCEPT ![p] = Append(@, event)] ELSE fsev

Quiescent ==
    /\ outbox = {} /\ net = {} /\ thr = {}
    /\ \A p \in Peers : /\ up[p] /\ replay[p] = <<>>
                        /\ fsev[p] = <<>> /\ pending[p] = "none"
                        /\ ev[p] = IdleHandler

-----------------------------------------------------------------------------
Init ==
    /\ clock = [p \in Peers |-> NewVectorClock]
    /\ disk = [p \in Peers |-> Absent]
    /\ db = [p \in Peers |-> [f \in FileIDs |->
               [present |-> FALSE, chk |-> {}, vc |-> NewVectorClock,
                peer |-> p, mtime |-> 0]]]
    /\ log = [p \in Peers |-> <<>>]
    /\ up = [p \in Peers |-> TRUE]
    /\ replay = [p \in Peers |-> <<>>]
    /\ fsev = [p \in Peers |-> <<>>]
    /\ pending = [p \in Peers |-> "none"]
    /\ ignored = [p \in Peers |-> FALSE]
    /\ ev = [p \in Peers |-> IdleHandler]
    /\ outbox = {} /\ net = {} /\ thr = {}
    /\ nedit = 0 /\ losses = 0 /\ dups = 0
    /\ restarts = [p \in Peers |-> 0]
    /\ last = {}

-----------------------------------------------------------------------------
\* The user.

MayEdit(p) == /\ p \in Editors
              /\ nedit < MaxEdits
              /\ Overlap \/ Quiescent

\* A save in place keeps the xattr of the file.
UserWrite(p) ==
    /\ MayEdit(p)
    /\ nedit' = nedit + 1
    /\ disk' = [disk EXCEPT ![p].data = {nedit + 1}]
    /\ last' = {nedit + 1}
    /\ Notify(p, IF disk[p].data = {} THEN "create" ELSE "update")
    /\ UNCHANGED <<clock, db, log, up, replay, pending, ignored, ev, outbox,
                   net, thr, counters>>

UserDelete(p) ==
    /\ MayEdit(p)
    /\ disk[p].data # {}
    /\ nedit' = nedit + 1
    /\ disk' = [disk EXCEPT ![p] = Absent]
    /\ last' = {}
    /\ Notify(p, "delete")
    /\ UNCHANGED <<clock, db, log, up, replay, pending, ignored, ev, outbox,
                   net, thr, counters>>

-----------------------------------------------------------------------------
\* The watcher and the event handler.

\* debounceEvent: a pending create is never overridden, any other event always
\* is.  handleFileEvent has no case for a Chmod: pending, it is as good as
\* none.
Debounce(old, event) ==
    IF old = "create" THEN old ELSE IF event = "unknown" THEN "none" ELSE event

\* processEvents: an event of an ignored path is dropped.  Between the two
\* events of a pair the ignoring may end.
Readings(p, event) ==
    LET old == pending[p]
    IN  IF ~ignored[p]
        THEN {Debounce(old, IF event = "applied" THEN "create" ELSE event)}
        ELSE IF event = "applied" THEN {old, Debounce(old, "unknown")}
        ELSE {old}

WatcherEvent(p) ==
    /\ fsev[p] # <<>>
    /\ fsev' = [fsev EXCEPT ![p] = Tail(@)]
    /\ \E event \in Readings(p, Head(fsev[p])) :
         pending' = [pending EXCEPT ![p] = event]
    /\ UNCHANGED <<clock, persistent, up, replay, ignored, ev, outbox, net,
                   thr, nedit, counters, last>>

\* sendDebouncedEvent, then handleCreate or handleUpdate up to the file ID:
\* the one in the xattr, else a new one, which is stored there.
HandleWrite(p) ==
    /\ ev[p].pc = "idle" /\ pending[p] \in {"create", "update"}
    /\ pending' = [pending EXCEPT ![p] = "none"]
    /\ IF disk[p].data = {} THEN UNCHANGED <<disk, ev, fsev>>
       ELSE LET fid == IF disk[p].fid # NoID THEN disk[p].fid
                       ELSE GenerateFileID(disk[p].data)
            IN  /\ disk' = [disk EXCEPT ![p].fid = fid]
                /\ ev' = [ev EXCEPT ![p] = [pc |-> "hash", kind |-> "update",
                                            fid |-> fid, chk |-> {}]]
                /\ IF disk[p].fid # NoID THEN UNCHANGED fsev
                   ELSE Notify(p, "unknown")
    /\ UNCHANGED <<clock, db, log, up, replay, ignored, outbox, net, thr,
                   nedit, counters, last>>

\* getFileChecksum reads the file a second time.
HashLocal(p) ==
    /\ ev[p].pc = "hash"
    /\ ev' = [ev EXCEPT ![p] =
                IF disk[p].data = {} THEN IdleHandler
                ELSE [@ EXCEPT !.pc = "store", !.chk = disk[p].data]]
    /\ UNCHANGED <<clock, persistent, up, replay, watch, outbox, net, thr,
                   nedit, counters, last>>

\* A row of the local file has no vector clock.
LocalRow(p, chk) ==
    [present |-> TRUE, chk |-> chk, vc |-> NewVectorClock, peer |-> p,
     mtime |-> 1]

\* INSERT OR REPLACE by file ID.
InsertFile(p, fid, row) == db' = [db EXCEPT ![p][fid] = row]

StoreLocal(p) ==
    /\ ev[p].pc = "store"
    /\ InsertFile(p, ev[p].fid, LocalRow(p, ev[p].chk))
    /\ ev' = [ev EXCEPT ![p].pc = "queue"]
    /\ UNCHANGED <<clock, disk, log, up, replay, watch, outbox, net, thr,
                   nedit, counters, last>>

\* The file IDs with a row for the path: updated_at counts seconds, so any of
\* them may come first.
GetFileByPath(p) == {f \in FileIDs : db[p][f].present}

\* The file IDs handleDelete may take: one of the path's rows in the files
\* table, or else a new one, which takes a file that is there again.
DeletedIDs(p) ==
    IF GetFileByPath(p) # {} THEN GetFileByPath(p)
    ELSE IF disk[p].data # {} THEN {GenerateFileID(disk[p].data)} ELSE {}

\* handleDelete: the row stays.  Without a file ID the deletion goes no further.
HandleDelete(p) ==
    /\ ev[p].pc = "idle" /\ pending[p] = "delete"
    /\ pending' = [pending EXCEPT ![p] = "none"]
    /\ \/ DeletedIDs(p) = {} /\ UNCHANGED ev
       \/ \E f \in DeletedIDs(p) :
            ev' = [ev EXCEPT ![p] = [pc |-> "queue", kind |-> "delete",
                                     fid |-> f, chk |-> {}]]
    /\ UNCHANGED <<clock, persistent, up, replay, fsev, ignored, outbox, net,
                   thr, nedit, counters, last>>

AppendOperation(p, op) == log' = [log EXCEPT ![p] = Append(@, op)]

\* queueOperation: stamp the operation with the incremented clock, log it as
\* unacknowledged, broadcast it.  op.Mtime is never set.
QueueOperation(p) ==
    LET vc == Increment(clock[p], p)
        op == [kind |-> ev[p].kind, fid |-> ev[p].fid, chk |-> ev[p].chk,
               vc |-> vc, peer |-> p, mtime |-> 0]
    IN  /\ ev[p].pc = "queue"
        /\ clock[p][p] < MaxOps
        /\ clock' = [clock EXCEPT ![p] = vc]
        /\ AppendOperation(p, op)
        /\ outbox' = outbox \cup BroadcastOperation(op)
        /\ ev' = [ev EXCEPT ![p] = IdleHandler]
        /\ UNCHANGED <<disk, db, up, replay, watch, net, thr, nedit, counters,
                       last>>

-----------------------------------------------------------------------------
\* Sending and receiving.

\* Mutant: the content goes with the operation instead of being read anew.
SendOpAsMade(s) ==
    /\ s \in outbox
    /\ outbox' = outbox \ {s}
    /\ net' = net \cup {[to |-> s.to, op |-> s.op, data |-> s.op.chk, late |-> FALSE]}
    /\ UNCHANGED <<clock, persistent, up, replay, watch, ev, thr, nedit,
                   counters, last>>

\* The sender goroutine reads the file when it runs, not when the operation
\* was made; without a file there is nothing to send.
SendOp(s) ==
    LET data == IF s.op.kind = "delete" THEN {} ELSE disk[s.from].data
    IN  /\ s \in outbox
        /\ outbox' = outbox \ {s}
        /\ net' = IF s.op.kind = "update" /\ data = {} THEN net
                  ELSE net \cup {[to |-> s.to, op |-> s.op, data |-> data,
                                  late |-> FALSE]}
        /\ UNCHANGED <<clock, persistent, up, replay, watch, ev, thr, nedit,
                       counters, last>>

\* The peer is not connected, or sendMessage gives up after its attempts: the
\* error is logged and the operation is not retried.
LoseSend(s) ==
    /\ s \in outbox /\ losses < MaxLoss
    /\ losses' = losses + 1
    /\ outbox' = outbox \ {s}
    /\ UNCHANGED <<clock, persistent, up, replay, watch, ev, net, thr, nedit,
                   dups, restarts, last>>

\* HandleIncomingFile starts an applier, which first merges the clocks.  A
\* retransmission of the message may follow.
Deliver(m) ==
    /\ m \in net /\ up[m.to]
    /\ clock' = [clock EXCEPT ![m.to] = Merge(@, m.op.vc)]
    /\ thr' = thr \cup {[at |-> m.to, op |-> m.op, data |-> m.data,
                         merged |-> FALSE, pc |-> "check"]}
    /\ \/ net' = net \ {m} /\ UNCHANGED dups
       \/ /\ dups < MaxDups /\ dups' = dups + 1
          /\ net' = (net \ {m}) \cup {[m EXCEPT !.late = TRUE]}
    /\ UNCHANGED <<persistent, up, replay, watch, ev, outbox, nedit, losses,
                   restarts, last>>

-----------------------------------------------------------------------------
\* The appliers: processIncomingFileAsync.

\* lastWriteWins of the row and the operation; wall-clock readings of two
\* machines may be in either order or equal.
LastWriteWins(row, op) ==
    LET tie == IF row.peer < op.peer THEN {"local"} ELSE {"remote"}
    IN  IF row.mtime > op.mtime THEN {"local"}
        ELSE IF row.mtime < op.mtime THEN {"remote"}
        ELSE IF row.mtime = 1 THEN {"local", "remote"}
        ELSE tie

\* ResolveConflict: equal clocks count as concurrent, and a merge needs the
\* text of both sides.
ResolveConflict(row, local, op, data) ==
    LET order == Compare(row.vc, op.vc)
    IN  IF order = -1 THEN {"remote"}
        ELSE IF order = 1 THEN {"local"}
        ELSE IF Strategy = "intelligent_merge" /\ local # {} /\ data # {}
             THEN {"merged"}
        ELSE LastWriteWins(row, op)

\* The engine recognises the winner by its checksum, and a merge has the
\* empty one: next to a row or an operation that has it too, the merge is
\* taken for that side.
Winners(row, local, op, data) ==
    IF ~row.present \/ row.chk = op.chk THEN {"remote"}
    ELSE {IF w # "merged" THEN w
          ELSE IF row.chk = {} THEN "local"
          ELSE IF op.chk = {} THEN "remote"
          ELSE "merged" : w \in ResolveConflict(row, local, op, data)}

\* The winning local version, as it is broadcast again: with the clock of the
\* row and without an increment or a log entry.
LocalWinnerOp(p, fid) ==
    [kind |-> "update", fid |-> fid, chk |-> db[p][fid].chk,
     vc |-> db[p][fid].vc, peer |-> p, mtime |-> db[p][fid].mtime]

MoveTo(t, u) == thr' = (thr \ {t}) \cup {u}

\* ignoreMap holds one flag per path, whoever set it.
IgnorePath(p) == ignored' = [ignored EXCEPT ![p] = TRUE]
WatchPath(p)  == ignored' = [ignored EXCEPT ![p] = FALSE]

\* IgnorePath, then the conflict check against the row of the file ID.
Check(t) ==
    LET p   == t.at
        row == db[p][t.op.fid]
    IN  /\ t \in thr /\ t.pc = "check"
        /\ IgnorePath(p)
        /\ IF t.op.kind = "delete"
           THEN MoveTo(t, [t EXCEPT !.pc = "write"]) /\ UNCHANGED outbox
           ELSE \E w \in Winners(row, disk[p].data, t.op, t.data) :
             \/ /\ w = "remote"
                /\ MoveTo(t, [t EXCEPT !.pc = "write"]) /\ UNCHANGED outbox
             \/ /\ w = "merged"
                /\ MoveTo(t, [t EXCEPT !.pc = "write", !.op.chk = {},
                                       !.data = @ \cup disk[p].data,
                                       !.merged = TRUE])
                /\ UNCHANGED outbox
             \/ /\ w = "local" /\ disk[p].data = {}
                /\ MoveTo(t, [t EXCEPT !.pc = "unignore"]) /\ UNCHANGED outbox
             \/ /\ w = "local" /\ disk[p].data # {}
                /\ LET op == LocalWinnerOp(p, t.op.fid)
                   IN  /\ outbox' = outbox \cup BroadcastOperation(op)
                       /\ MoveTo(t, [t EXCEPT !.pc = "unignore", !.op = op])
        /\ UNCHANGED <<clock, persistent, up, replay, fsev, pending, ev, net,
                       nedit, counters, last>>

\* atomicWriteFile and SetFileID: a rename into place, which fsnotify reports
\* as a create, and an xattr.
ApplyWrite(t) ==
    /\ t \in thr /\ t.pc = "write" /\ t.op.kind = "update"
    /\ disk' = [disk EXCEPT ![t.at] = [fid |-> t.op.fid, data |-> t.data]]
    /\ Notify(t.at, "applied")
    /\ MoveTo(t, [t EXCEPT !.pc = "insert"])
    /\ UNCHANGED <<clock, db, log, up, replay, pending, ignored, ev, outbox,
                   net, nedit, counters, last>>

\* os.Remove of the path, whatever file is there.
ApplyRemove(t) ==
    /\ t \in thr /\ t.pc = "write" /\ t.op.kind = "delete"
    /\ disk' = [disk EXCEPT ![t.at] = Absent]
    /\ IF disk[t.at].data = {} THEN UNCHANGED fsev ELSE Notify(t.at, "delete")
    /\ MoveTo(t, [t EXCEPT !.pc = "insert"])
    /\ UNCHANGED <<clock, db, log, up, replay, pending, ignored, ev, outbox,
                   net, nedit, counters, last>>

\* Mutant: the stored row has no checksum.
AppliedRowNoChecksum(t) ==
    [present |-> t.op.kind = "update", chk |-> {}, vc |-> t.op.vc,
     peer |-> t.op.peer, mtime |-> t.op.mtime]

\* The row an applied operation leaves: InsertFile, or DeleteFile.
AppliedRow(t) ==
    [present |-> t.op.kind = "update", chk |-> t.op.chk, vc |-> t.op.vc,
     peer |-> t.op.peer, mtime |-> t.op.mtime]

MergedOp(t) == [t.op EXCEPT !.peer = t.at, !.mtime = 1]

\* A merge is broadcast once the row is stored.
ApplyInsert(t) ==
    LET done == [t EXCEPT !.pc = "unignore"]
    IN  /\ t \in thr /\ t.pc = "insert"
        /\ InsertFile(t.at, t.op.fid, AppliedRow(t))
        /\ IF t.merged
           THEN /\ outbox' = outbox \cup BroadcastOperation(MergedOp(t))
                /\ MoveTo(t, [done EXCEPT !.op = MergedOp(t)])
           ELSE MoveTo(t, done) /\ UNCHANGED outbox
        /\ UNCHANGED <<clock, disk, log, up, replay, watch, ev, net, nedit,
                       counters, last>>

\* Mutant: the applier ends without WatchPath.
UnignoreForgotten(t) ==
    /\ t \in thr /\ t.pc = "unignore" /\ ~InFlight(t.op)
    /\ thr' = thr \ {t}
    /\ UNCHANGED <<clock, persistent, up, replay, watch, ev, outbox, net,
                   nedit, counters, last>>

\* The deferred WatchPath, after the thread's own broadcast has returned: it
\* ends the ignoring for every applier of the path.
Unignore(t) ==
    /\ t \in thr /\ t.pc = "unignore" /\ ~InFlight(t.op)
    /\ WatchPath(t.at)
    /\ thr' = thr \ {t}
    /\ UNCHANGED <<clock, persistent, up, replay, fsev, pending, ev, outbox,
                   net, nedit, counters, last>>

-----------------------------------------------------------------------------
\* Crash, restart and the replay of the log.

Crash(p) ==
    /\ p \in Crashers /\ up[p] /\ restarts[p] < MaxRestarts
    /\ Overlap \/ Quiescent
    /\ restarts' = [restarts EXCEPT ![p] = @ + 1]
    /\ up' = [up EXCEPT ![p] = FALSE]
    /\ replay' = [replay EXCEPT ![p] = <<>>]
    /\ fsev' = [fsev EXCEPT ![p] = <<>>]
    /\ pending' = [pending EXCEPT ![p] = "none"]
    /\ ignored' = [ignored EXCEPT ![p] = FALSE]
    /\ ev' = [ev EXCEPT ![p] = IdleHandler]
    /\ outbox' = {s \in outbox : s.from # p}
    /\ thr' = {t \in thr : t.at # p}
    /\ UNCHANGED <<clock, persistent, net, nedit, losses, dups, last>>

\* The broadcast of the first of a sequence of logged operations: the replay
\* sends the operations that carry the ID of the peer, and no others.
BroadcastHead(p, ops) ==
    IF ops # <<>> /\ Head(ops).peer = p THEN BroadcastOperation(Head(ops)) ELSE {}

\* BroadcastOperation looks up who is connected and returns without an error
\* when it is nobody.  main starts the engine while the connections are still
\* to be made, so at a replay it is any set of peers.
ReplayTo(p, ops) ==
    \E connected \in SUBSET Peers :
        outbox' = outbox \cup {s \in BroadcastHead(p, ops) : s.to \in connected}

\* logEntryToSyncOperation: an entry of the log has the zero time as mtime.
ReplayOps(p) == [i \in 1 .. Len(log[p]) |-> [log[p][i] EXCEPT !.mtime = -1]]

\* NewEngineWithMessenger starts from an empty clock.  No logged operation is
\* ever marked acknowledged, so Start replays the whole log.  The operation at
\* the head of replay is the one being broadcast.
Start(p) ==
    /\ ~up[p]
    /\ up' = [up EXCEPT ![p] = TRUE]
    /\ clock' = [clock EXCEPT ![p] = NewVectorClock]
    /\ replay' = [replay EXCEPT ![p] = ReplayOps(p)]
    /\ ReplayTo(p, ReplayOps(p))
    /\ UNCHANGED <<persistent, watch, ev, net, thr, nedit, counters, last>>

\* Once the broadcast of an operation has returned, the next one follows.
ReplayNext(p) ==
    /\ replay[p] # <<>> /\ ~InFlight(Head(replay[p]))
    /\ replay' = [replay EXCEPT ![p] = Tail(@)]
    /\ ReplayTo(p, Tail(replay[p]))
    /\ UNCHANGED <<clock, persistent, up, watch, ev, net, thr, nedit,
                   counters, last>>

-----------------------------------------------------------------------------
User(p)   == UserWrite(p) \/ UserDelete(p)
Engine(p) == \/ WatcherEvent(p) \/ HandleWrite(p) \/ HashLocal(p)
             \/ StoreLocal(p) \/ HandleDelete(p) \/ QueueOperation(p)
             \/ Crash(p) \/ Start(p) \/ ReplayNext(p)
Sender    == \E s \in outbox : SendOp(s) \/ LoseSend(s)
Receiver  == \E m \in net : Deliver(m)
Applier   == \E t \in thr : \/ Check(t) \/ ApplyWrite(t) \/ ApplyRemove(t)
                            \/ ApplyInsert(t) \/ Unignore(t)

Next == \/ \E p \in Peers : User(p) \/ Engine(p)
        \/ Sender \/ Receiver \/ Applier

Spec == Init /\ [][Next]_vars

\* Goroutines are scheduled, and a send ends after at most three attempts of
\* thirty seconds each.  Users and crashes are under no obligation.
Fairness ==
    /\ WF_vars(\E s \in outbox : SendOp(s))
    /\ WF_vars(Receiver)
    /\ WF_vars(Applier)

FairSpec == Spec /\ Fairness

-----------------------------------------------------------------------------
\* Every variable has its type.
TypeOK ==
    /\ clock \in [Peers -> VectorClocks]
    /\ disk \in [Peers -> Files]
    /\ db \in [Peers -> [FileIDs -> Rows]]
    /\ log \in [Peers -> Seq(Ops)]
    /\ up \in [Peers -> BOOLEAN]
    /\ replay \in [Peers -> Seq(Ops)]
    /\ fsev \in [Peers -> Seq(Events)]
    /\ pending \in [Peers -> {"none", "create", "update", "delete"}]
    /\ ignored \in [Peers -> BOOLEAN]
    /\ ev \in [Peers -> Handlers]
    /\ outbox \subseteq Sends
    /\ net \subseteq Messages
    /\ thr \subseteq Appliers
    /\ nedit \in 0 .. MaxEdits
    /\ losses \in 0 .. MaxLoss
    /\ dups \in 0 .. MaxDups
    /\ restarts \in [Peers -> 0 .. MaxRestarts]
    /\ last \in Contents

\* No peer that has never restarted is charged with an operation it has not
\* made yet.
Known(vc) == \A p \in Peers : restarts[p] = 0 => vc[p] <= clock[p][p]

\* A peer that has never restarted counts its own operations: no clock
\* anywhere in the system, in memory, on any disk, on the wire or in a
\* goroutine, runs ahead of its counter, so the stamp queueOperation gives its
\* next operation is new.
OwnClockDominates ==
    /\ \A s \in outbox : Known(s.op.vc)
    /\ \A m \in net : Known(m.op.vc)
    /\ \A t \in thr : Known(t.op.vc)
    /\ \A q \in Peers :
         /\ Known(clock[q])
         /\ \A f \in FileIDs : Known(db[q][f].vc)
         /\ \A i \in 1 .. Len(log[q]) : Known(log[q][i].vc)
         /\ \A i \in 1 .. Len(replay[q]) : Known(replay[q][i].vc)

\* The log of a peer that has never restarted is ordered by its own counter:
\* no two logged operations carry the same stamp, and replaying the log in
\* sequence order is replaying it in causal order.
LogOrdered ==
    \A p \in Peers : restarts[p] = 0 =>
        \A i, j \in 1 .. Len(log[p]) :
            i < j => log[p][i].vc[p] < log[p][j].vc[p]

\* processIncomingFileAsync merges the clock of an operation before it stores
\* the row: a peer that has not restarted knows every operation that its
\* files table reflects.
RowsBehindClock ==
    \A p \in Peers : restarts[p] = 0 =>
        \A f \in FileIDs : Leq(db[p][f].vc, clock[p])

\* A process that is down has crashed, and an applier works on an operation
\* whose clock its peer has merged.
DownHasCrashed == \A p \in Peers : up[p] \/ restarts[p] > 0
AppliersBehindClock ==
    \A t \in thr : restarts[t.at] = 0 => Leq(t.op.vc, clock[t.at])

\* The inductive invariant behind the causality properties: what an applier
\* will store, and what the log and the replay will send again, stays behind
\* the clocks of the peers, in every interleaving and through every crash.
CausalInv ==
    /\ TypeOK
    /\ DownHasCrashed
    /\ OwnClockDominates
    /\ AppliersBehindClock
    /\ RowsBehindClock
    /\ LogOrdered

\* When users take turns, and once everything has settled, every folder holds
\* what the last change left: no change is lost, none reverted.
LastEditSurvives ==
    Quiescent => \A p \in Peers : disk[p].data = last

\* The files table describes the file on disk.
Indexed(p) ==
    disk[p].data # {} => /\ disk[p].fid # NoID
                         /\ db[p][disk[p].fid].present
                         /\ db[p][disk[p].fid].chk = disk[p].data

\* Once everything has settled the files table describes the file on disk:
\* its file ID has a row, and the row's checksum is that of the content.
IndexMatchesDisk == Quiescent => \A p \in Peers : Indexed(p)

\* What taking turns relies on, between a change and the moment all is settled.

\* A peer has no news of its own, or is bound to hear of the change.
Calm(p) == fsev[p] = <<>> /\ pending[p] = "none" /\ ev[p] = IdleHandler
Incoming(p) ==
    \/ \E s \in outbox : s.to = p
    \/ \E m \in net : m.to = p
    \/ \E t \in thr : t.at = p /\ t.pc \in {"check", "write"}

\* The operations of the senders, of the wire and of the appliers.
OpsOnTheWay == {s.op : s \in outbox} \cup {m.op : m \in net} \cup {t.op : t \in thr}

\* Whoever does not know the latest operation of a peer is about to hear of it.
ClocksTold ==
    \A p, q \in Peers :
        \/ clock[q][p] = clock[p][p]
        \/ \E s \in outbox : s.to = q /\ s.op.vc[p] = clock[p][p]
        \/ \E m \in net : m.to = q /\ m.op.vc[p] = clock[p][p]

NeverCrashed == \A p \in Peers : up[p] /\ replay[p] = <<>> /\ restarts[p] = 0

\* A path is ignored only while an applier is past its IgnorePath, with its
\* WatchPath to come: appliers of the path that end before it, in any order, and
\* crashes leave no ignoring behind that nobody is bound to end.
IgnoredByApplier ==
    \A p \in Peers : ignored[p] => \E t \in thr : t.at = p /\ t.pc # "check"

\* The deletion by the user of a is not broadcast yet.
DeleteUnnoticed(a) ==
    /\ last = {} /\ disk[a].data = {} /\ GetFileByPath(a) # {}
    /\ outbox = {} /\ net = {} /\ thr = {}
    /\ \A p \in Peers \ {a} : Calm(p)
    /\ \/ fsev[a] = <<"delete">> /\ pending[a] = "none" /\ ev[a] = IdleHandler
       \/ fsev[a] = <<>> /\ pending[a] = "delete" /\ ev[a] = IdleHandler
       \/ /\ fsev[a] = <<>> /\ pending[a] = "none"
          /\ ev[a].pc = "queue" /\ ev[a].kind = "delete"

\* Only the deletion is on its way.
DeleteOnTheWay ==
    /\ \A op \in OpsOnTheWay : op.kind = "delete"
    /\ \A t \in thr : ~t.merged

\* A peer has no file, or is about to hear of the deletion.
DeleteReaches(p) ==
    /\ fsev[p] \in Seq({"delete"}) /\ pending[p] \in {"none", "delete"}
    /\ ev[p] = IdleHandler \/ (ev[p].pc = "queue" /\ ev[p].kind = "delete")
    /\ disk[p].data = {} \/ (Calm(p) /\ Incoming(p))

DeleteTold == last = {} /\ DeleteOnTheWay /\ \A p \in Peers : DeleteReaches(p)

\* What the handler of a write knows of the file.
Handling(p) ==
    /\ ev[p].kind = "update" /\ ev[p].fid = disk[p].fid
    /\ ev[p].pc # "hash" => ev[p].chk = last

\* The change by the user of a is not broadcast yet.
WriteUnnoticed(a) ==
    /\ last # {} /\ disk[a].data = last
    /\ outbox = {} /\ net = {} /\ thr = {}
    /\ \A p \in Peers \ {a} : Calm(p) /\ Indexed(p) /\ disk[p].data # last
    /\ \/ /\ fsev[a] \in {<<"create">>, <<"update">>}
          /\ pending[a] = "none" /\ ev[a] = IdleHandler
       \/ /\ fsev[a] = <<>> /\ pending[a] \in {"create", "update"}
          /\ ev[a] = IdleHandler
       \/ /\ fsev[a] \in {<<>>, <<"unknown">>} /\ pending[a] = "none"
          /\ ev[a] # IdleHandler /\ Handling(a)
          /\ ev[a].pc = "queue" => Indexed(a)

\* The change is on a peer's disk, as the file f.
Updated(p, f) == disk[p] = [fid |-> f, data |-> last]

\* Only the change is on its way, from peers that have it.
WriteOnTheWay(f) ==
    /\ \A op \in OpsOnTheWay : op.kind = "update" /\ op.fid = f /\ op.chk = last
    /\ \A m \in net : m.data = last
    /\ \A t \in thr : t.data = last /\ ~t.merged
    /\ \A s \in outbox : Updated(s.from, f)

\* A peer has the change and indexes it, or is about to hear of it.
WriteReaches(p, f) ==
    /\ ~Updated(p, f) => Calm(p) /\ Incoming(p)
    /\ Updated(p, f) =>
          /\ fsev[p] \in Seq({"create", "update", "unknown", "applied"})
          /\ pending[p] \in {"none", "create", "update"}
          /\ ev[p] = IdleHandler \/ Handling(p)
          /\ Indexed(p) \/ \E t \in thr : t.at = p /\ t.pc = "insert"

\* Every operation on its way, or still to come from a peer that has the
\* change, is later than the row it has to replace.
RowGivesWay(p, f) ==
    db[p][f].present /\ db[p][f].chk # last =>
        /\ \A op \in OpsOnTheWay : Compare(db[p][f].vc, op.vc) = -1
        /\ \A q \in Peers : Updated(q, f) => Compare(db[p][f].vc, clock[q]) = -1

WriteTold(f) ==
    /\ last # {} /\ WriteOnTheWay(f)
    /\ \A p \in Peers : WriteReaches(p, f) /\ RowGivesWay(p, f)

\* The inductive invariant behind LastEditSurvives and IndexMatchesDisk.
TurnsInv ==
    /\ CausalInv /\ last \subseteq 1 .. nedit
    /\ NeverCrashed /\ ClocksTold /\ IgnoredByApplier
    /\ \/ DeleteTold
       \/ \E f \in FileIDs : WriteTold(f)
       \/ \E a \in Peers : DeleteUnnoticed(a) \/ WriteUnnoticed(a)

\* Every user change has reached the log of some peer as an operation.
AllLogged ==
    \A e \in 1 .. nedit : \E p \in Peers : \E i \in 1 .. Len(log[p]) :
        e \in log[p][i].chk

\* Eventual consistency: once everything has settled, and no change went
\* unnoticed by the watcher, all folders are equal.
LoggedEditsConverge ==
    Quiescent /\ AllLogged => \A p, q \in Peers : disk[p].data = disk[q].data

\* What the comment of ReplayUnacknowledgedOperations promises of the log: no
\* data is lost after a crash.  Once a change is logged, and everything has
\* settled again, every folder holds it, wherever in the handling, the
\* broadcast or the replay the process was when it crashed.
LoggedEditSurvives ==
    Quiescent /\ AllLogged => \A p \in Peers : disk[p].data = last

\* No deletion is on its way, logged, or still to be noticed or replayed.
NoDeleteAt(p) ==
    /\ \A i \in 1 .. Len(log[p]) : log[p][i].kind = "update"
    /\ \A i \in 1 .. Len(replay[p]) : replay[p][i].kind = "update"
    /\ fsev[p] \in Seq({"create", "update", "unknown", "applied"})
    /\ pending[p] # "delete" /\ ev[p].kind = "update"
NoDelete ==
    /\ \A op \in OpsOnTheWay : op.kind = "update"
    /\ \A p \in Peers : NoDeleteAt(p)

\* All folders hold what the last change left, and so do the messages and the
\* appliers; unless the file is gone, nobody has a deletion to tell of.
Settled ==
    /\ \A p \in Peers : disk[p].data = last
    /\ \A m \in net : m.data = last
    /\ \A t \in thr : t.data = last
    /\ last # {} => NoDelete

\* Only a user unsettles the folders.  A crash, a restart with the replay of
\* operations older than the file, a lost or repeated message and a conflict
\* neither bring a former content or a deleted file back nor touch the last
\* content, at any peer.
SettledStays == [][Settled /\ nedit' = nedit => Settled']_vars

\* Between restarts the clock of a peer never goes back.
ClockMonotone ==
    [][\A p \in Peers : Leq(clock[p], clock'[p]) \/ (~up[p] /\ up'[p])]_vars

\* The ignoring of the path during an apply always ends, whatever the order
\* in which the appliers of the path start, broadcast and finish: a peer never
\* goes deaf to the changes of its own user.
WatchResumes == \A p \in Peers : ignored[p] ~> ~ignored[p]
=============================================================================
