---------------------------- MODULE ChunkManager ----------------------------
(***************************************************************************)
(* internal/chunking/manager.go: the reception of the chunks of one file,  *)
(* with assembler.go and chunker.go.  Two versions of the file may be in    *)
(* flight, since an edited file keeps its ID; chunks arrive in any order,   *)
(* more than once, damaged or not at all.  A chunk has a field for the hash *)
(* of its file, which ChunkFile leaves empty and a caller may fill in.      *)
(***************************************************************************)
EXTENDS Naturals, FiniteSets

CONSTANTS
    Versions,
    Length(_)      \* how many chunks ChunkFile makes of a version

NoVersion == "none"

ASSUME ChunkManagerAssumption ==
    /\ IsFiniteSet(Versions) /\ NoVersion \notin Versions
    /\ \A v \in Versions : Length(v) \in Nat \ {0}

Ids == UNION {0 .. Length(v) - 1 : v \in Versions}

\* The chunks of a version.
Whole(v) == [i \in Ids |-> IF i < Length(v) THEN v ELSE NoVersion]
NoChunks == [i \in Ids |-> NoVersion]

VARIABLES
    transfer,     \* the FileTransfer, or NoTransfer
    assembled,    \* what AssembleFile returned last
    sources       \* history: the versions whose chunks the transfer has seen

chunkManagerVars == <<transfer, assembled, sources>>

NoTransfer == [exists |-> FALSE, fileHash |-> NoVersion, totalChunks |-> 0,
               received |-> NoChunks, complete |-> FALSE]

ChunkManagerInit ==
    transfer = NoTransfer /\ assembled = NoChunks /\ sources = {}

ReceivedIds(t) == {i \in Ids : t.received[i] # NoVersion}

\* StartTransfer: an error when there is a transfer of the file.
StartTransfer(v) ==
    /\ ~transfer.exists
    /\ transfer' = [NoTransfer EXCEPT !.exists = TRUE, !.fileHash = v,
                                      !.totalChunks = Length(v)]
    /\ sources' = {v}
    /\ UNCHANGED assembled

\* Mutant: the ID of the last chunk is taken for the number of chunks.
TotalOffByOne(i) == i

TotalFromLast(i) == i + 1

\* The total and the hash of the file come with its last chunk: the hash it has,
\* if any, replaces the one that StartTransfer was given.
WithLast(t, v, i, hash) ==
    IF i = Length(v) - 1
    THEN [t EXCEPT !.totalChunks = TotalFromLast(i), !.fileHash = hash] ELSE t

\* Once complete, a transfer stays complete.
WithComplete(t) ==
    [t EXCEPT !.complete = @ \/ /\ t.totalChunks > 0
                                /\ Cardinality(ReceivedIds(t)) = t.totalChunks]

\* ReceiveChunk: the transfer is made by the first chunk; a chunk whose ID is
\* there is ignored, whatever its version; a damaged one is refused.
ReceiveChunk(v, i, damaged, hash) ==
    LET t == [transfer EXCEPT !.exists = TRUE]
    IN  /\ i < Length(v)
        /\ IF t.received[i] # NoVersion \/ damaged
           THEN transfer' = t /\ UNCHANGED sources
           ELSE /\ transfer' = WithComplete(WithLast([t EXCEPT !.received[i] = v], v, i, hash))
                /\ sources' = sources \cup {v}
        /\ UNCHANGED assembled

\* Mutant: the hash of the assembled file is not compared.
HashMatchesAlways(t) == TRUE

\* The hash of the chunks put together is the one of the file.
HashMatches(t) == t.fileHash # NoVersion /\ t.received = Whole(t.fileHash)

\* AssembleChunks: chunks sorted by ID, without a gap in their offsets.
Assembles(t) ==
    /\ t.complete
    /\ ReceivedIds(t) = 0 .. Cardinality(ReceivedIds(t)) - 1
    /\ HashMatches(t)

AssembleFile ==
    /\ Assembles(transfer)
    /\ assembled' = transfer.received
    /\ UNCHANGED <<transfer, sources>>

GetMissingChunks(t) ==
    IF t.totalChunks = 0 THEN {} ELSE (0 .. t.totalChunks - 1) \ ReceivedIds(t)

\* Silence for 30 seconds counts only once the total is known.
MayTimeOut(t) ==
    ~t.complete /\ t.totalChunks > 0 /\ Cardinality(ReceivedIds(t)) < t.totalChunks

\* CleanupTransfer, by the caller.
CleanupTransfer ==
    /\ transfer.exists
    /\ transfer' = NoTransfer
    /\ sources' = {}
    /\ UNCHANGED assembled

ChunkManagerNext ==
    \/ \E v \in Versions :
          \/ StartTransfer(v)
          \/ \E i \in Ids, damaged \in BOOLEAN, hash \in {NoVersion, v} :
                ReceiveChunk(v, i, damaged, hash)
    \/ AssembleFile \/ CleanupTransfer

ChunkManagerSpec == ChunkManagerInit /\ [][ChunkManagerNext]_chunkManagerVars

-----------------------------------------------------------------------------
\* A file that is assembled is one version as a whole, however the chunks of
\* two versions were mixed by the order of their arrival.
AssembledIsOneVersion ==
    assembled # NoChunks => \E v \in Versions : assembled = Whole(v)

\* The chunks of one version are enough to complete: in any order, with
\* duplicates and damaged copies between them, the transfer completes with the
\* last missing chunk and not before, and until then the missing chunks are
\* known unless the last one is among them.  The complete transfer assembles if
\* and only if the last chunk had the hash of the file, whatever hash
\* StartTransfer was given.
OneVersionCompletes ==
    \A v \in Versions :
        sources = {v} =>
            /\ transfer.complete <=> ReceivedIds(transfer) = 0 .. Length(v) - 1
            /\ transfer.complete => (Assembles(transfer) <=> transfer.fileHash = v)
            /\ Length(v) - 1 \in ReceivedIds(transfer) /\ ~transfer.complete =>
                  MayTimeOut(transfer) /\ GetMissingChunks(transfer) # {}
=============================================================================
