--------------------------- MODULE Reconciliation ---------------------------
(***************************************************************************)
(* AssignFilesWithCapacity of internal/state: files are spread over peers, *)
(* within what each can take.  Who has a file does not count.              *)
(***************************************************************************)
EXTENDS Integers, FiniteSets, FiniteSetsExt, Functions

CONSTANTS
    FileIds,
    Holders,          \* peers that files are asked from
    MaxTransfers,     \* bound: MaxConcurrentTransfers of a peer
    MaxLoad           \* bound: transfers a peer has already

ASSUME ReconciliationAssumption ==
    /\ IsFiniteSet(FileIds) /\ IsFiniteSet(Holders)
    /\ MaxTransfers \in Nat /\ MaxLoad \in Nat

VARIABLES
    called,         \* the call has been made
    filesToSync,    \* its argument, without repetitions
    room,           \* remainingCapacity when the assignment starts, and now
    remaining,
    toSync,         \* files that wait to be assigned
    assignment      \* the result

reconcileVars == <<called, filesToSync, room, remaining, toSync, assignment>>

ReconcileInit ==
    /\ called = FALSE /\ filesToSync = {} /\ toSync = {}
    /\ room = [h \in Holders |-> 0] /\ remaining = room
    /\ assignment = [h \in Holders |-> {}]

\* remainingCapacity, which may be negative.
Remaining(limit, load) == [h \in Holders |-> limit[h] - load[h]]

\* The call, with any files, limits and loads.
AssignFilesWithCapacity ==
    /\ ~called /\ called' = TRUE
    /\ filesToSync' \in SUBSET FileIds
    /\ toSync' = filesToSync'
    /\ \E limit \in [Holders -> 0..MaxTransfers], load \in [Holders -> 0..MaxLoad] :
          room' = Remaining(limit, load)
    /\ remaining' = room'
    /\ UNCHANGED assignment

\* Mutant: a peer with no capacity left is taken as well.
HasRoomForOneMore(n) == n >= 0

HasRoom(n) == n > 0

\* One file: the map of the peers is iterated in any order; when none has room
\* the file is left out.
AssignFile(f) ==
    /\ f \in toSync
    /\ toSync' = toSync \ {f}
    /\ IF \A h \in Holders : ~HasRoom(remaining[h])
       THEN UNCHANGED <<remaining, assignment>>
       ELSE \E h \in Holders :
               /\ HasRoom(remaining[h])
               /\ remaining' = [remaining EXCEPT ![h] = @ - 1]
               /\ assignment' = [assignment EXCEPT ![h] = @ \cup {f}]
    /\ UNCHANGED <<called, filesToSync, room>>

ReconcileNext == AssignFilesWithCapacity \/ \E f \in toSync : AssignFile(f)

ReconcileSpec == ReconcileInit /\ [][ReconcileNext]_reconcileVars

-----------------------------------------------------------------------------
\* Files are asked from peers that have room for them, each from one peer, and
\* none is left out while there is room, whatever the order of the map.
FilesFit ==
    /\ \A h \in Holders : Cardinality(assignment[h]) <= Max({0, room[h]})
    /\ \A h, i \in Holders : h # i => assignment[h] \cap assignment[i] = {}
    /\ toSync = {} /\ UNION Range(assignment) # filesToSync =>
          \A h \in Holders : Cardinality(assignment[h]) >= room[h]
=============================================================================
