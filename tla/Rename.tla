------------------------------- MODULE Rename -------------------------------
(***************************************************************************)
(* A file that moves inside the folder: the events of the watcher, the     *)
(* handlers of internal/sync/engine.go, which recognise a move by the file *)
(* ID in the extended attributes and the path in the files table, the      *)
(* rename detector, the senders, and the handlers of a connected peer.     *)
(***************************************************************************)
EXTENDS Naturals, Sequences, SequencesExt

CONSTANTS
    Paths,
    FirstPath,    \* where the file is when both peers have it
    MaxMoves      \* bound: actions of the user

ASSUME RenameAssumption == FirstPath \in Paths /\ MaxMoves \in Nat

VARIABLES
    at, exists,     \* where the file is, or was when it was deleted
    rowPath,        \* the path in the row of its ID
    fileEvents,     \* events of the watcher the engine has not handled
    recentDeletes,  \* does the rename detector hold the ID
    operations,     \* operations on their way to the peer
    peerFiles,      \* where the peer has the file
    overtaken,      \* history: an operation was applied before an earlier one
    moves

renameVars == <<at, exists, rowPath, fileEvents, recentDeletes, operations,
                peerFiles, overtaken, moves>>

RenameInit ==
    /\ at = FirstPath /\ exists = TRUE /\ rowPath = FirstPath
    /\ fileEvents = <<>> /\ operations = <<>>
    /\ recentDeletes = FALSE
    /\ peerFiles = {FirstPath} /\ overtaken = FALSE
    /\ moves = 0

FileEvent(op, path) == [op |-> op, path |-> path]

UserActs(newAt, there, newEvents) ==
    /\ moves < MaxMoves
    /\ moves' = moves + 1
    /\ at' = newAt /\ exists' = there
    /\ fileEvents' = fileEvents \o newEvents
    /\ UNCHANGED <<rowPath, recentDeletes, operations, peerFiles, overtaken>>

UserMoves(q) ==
    /\ exists /\ at # q
    /\ UserActs(q, TRUE, <<FileEvent("rename", at), FileEvent("create", q)>>)
UserWrites == exists /\ UserActs(at, TRUE, <<FileEvent("update", at)>>)
UserDeletes == exists /\ UserActs(at, FALSE, <<FileEvent("delete", at)>>)
\* The file is put back with its extended attributes.
UserRestores(q) == ~exists /\ UserActs(q, TRUE, <<FileEvent("create", q)>>)

\* The operation is logged and broadcast by a goroutine of its own.
\* sendSyncOperation leaves the old path of a rename out.
QueueOp(op, path) ==
    operations' = Append(operations, [op |-> op, path |-> path, sent |-> FALSE])

FileAt(path) == exists /\ at = path

\* The ID has a row, with another path.
IsRename(path) == rowPath # path

\* The rename detector remembers the ID of a deletion ...
RecordDelete == recentDeletes' = TRUE

\* ... and forgets it when the ID turns up again, moved or edited.
CheckRename == recentDeletes' = FALSE

\* Mutant: a rename stores the new path in the row.
HandleCreateStoresRow(path) ==
    IF ~FileAt(path) THEN UNCHANGED <<rowPath, recentDeletes, operations>>
    ELSE IF IsRename(path)
    THEN QueueOp("rename", path) /\ rowPath' = path /\ UNCHANGED recentDeletes
    ELSE QueueOp("create", path) /\ rowPath' = path /\ CheckRename

\* handleCreate, and handleRename, which calls it: a file that is not there is
\* left.  A rename leaves the row as it is; the answer of CheckRename is lost, for
\* it is assigned to a variable of an inner scope.
HandleCreate(path) ==
    IF ~FileAt(path) THEN UNCHANGED <<rowPath, recentDeletes, operations>>
    ELSE IF IsRename(path)
    THEN QueueOp("rename", path) /\ UNCHANGED <<rowPath, recentDeletes>>
    ELSE QueueOp("create", path) /\ rowPath' = path /\ CheckRename

\* handleUpdate stores the path the file has now.
HandleUpdate(path) ==
    /\ UNCHANGED recentDeletes
    /\ IF FileAt(path) THEN QueueOp("update", path) /\ rowPath' = path
       ELSE UNCHANGED <<rowPath, operations>>

\* handleDelete looks the row up by path.  Without one it makes an ID from the
\* file, which fails when the file is gone: the deletion is not told.
HandleDelete(path) ==
    /\ UNCHANGED rowPath
    /\ IF rowPath = path THEN RecordDelete ELSE UNCHANGED recentDeletes
    /\ IF rowPath = path \/ FileAt(path) THEN QueueOp("delete", path)
       ELSE UNCHANGED operations

HandleMoveEvent ==
    LET event == Head(fileEvents)
    IN  /\ fileEvents # <<>>
        /\ fileEvents' = Tail(fileEvents)
        /\ CASE event.op \in {"create", "rename"} -> HandleCreate(event.path)
             [] event.op = "update" -> HandleUpdate(event.path)
             [] event.op = "delete" -> HandleDelete(event.path)
        /\ UNCHANGED <<at, exists, peerFiles, overtaken, moves>>

\* RenameDetector.cleanup, five seconds after the deletion.
CleanupDeletes ==
    /\ recentDeletes
    /\ recentDeletes' = FALSE
    /\ UNCHANGED <<at, exists, rowPath, fileEvents, operations, peerFiles, overtaken,
                   moves>>

\* The sender reads the file for a create or an update: when it is not at the
\* path any more, nothing is sent.
SendOperation(i) ==
    LET op == operations[i]
    IN  /\ ~op.sent
        /\ operations' = IF op.op \in {"create", "update"} /\ ~FileAt(op.path)
                         THEN RemoveAt(operations, i)
                         ELSE [operations EXCEPT ![i].sent = TRUE]
        /\ UNCHANGED <<at, exists, rowPath, fileEvents, recentDeletes, peerFiles,
                       overtaken, moves>>

\* What the peer's folder becomes.  HandleIncomingRename returns an error, for
\* no operation from the wire has a FromPath; the failure goes back as an
\* acknowledgment like any other.  A write that a later one has overtaken may
\* lose the conflict with it.
Applied(op) ==
    CASE op.op = "rename" -> {peerFiles}
      [] op.op = "delete" -> {peerFiles \ {op.path}}
      [] op.op \in {"create", "update"} ->
            {peerFiles \cup {op.path}} \cup (IF overtaken THEN {peerFiles} ELSE {})

\* The peer applies an operation, in any order: each has its own goroutine.
ApplyOperation(i) ==
    /\ operations[i].sent
    /\ operations' = RemoveAt(operations, i)
    /\ \E files \in Applied(operations[i]) : peerFiles' = files
    /\ overtaken' = (overtaken \/ i > 1)
    /\ UNCHANGED <<at, exists, rowPath, fileEvents, recentDeletes, moves>>

RenameNext ==
    \/ \E q \in Paths : UserMoves(q) \/ UserRestores(q)
    \/ UserWrites \/ UserDeletes
    \/ HandleMoveEvent \/ CleanupDeletes
    \/ \E i \in DOMAIN operations : SendOperation(i) \/ ApplyOperation(i)

RenameSpec == RenameInit /\ [][RenameNext]_renameVars

-----------------------------------------------------------------------------
\* A move alone never reaches the peer.  But where the files table knows the
\* place of the file the peer is not misled: once all events and operations
\* are handled, and none overtook another, the peer has the file at that place
\* if and only if it exists, through any moves away and back, deletions and
\* restorations, and whatever the senders no longer found.
TrackedFileFollowed ==
    fileEvents = <<>> /\ operations = <<>> /\ ~overtaken /\ rowPath = at =>
        (at \in peerFiles <=> exists)
=============================================================================
