------------------------------ MODULE MCParts ------------------------------
(***************************************************************************)
(* One run for the components that do not interact in the code, or only    *)
(* through what their own module leaves open: a behaviour follows the one  *)
(* that part names, the others stay as they are.                           *)
(***************************************************************************)
EXTENDS Discovery, ConnectionHealth, Rename, ChunkManager, LineMerge,
        Reconciliation, Watcher, FlowControl

VARIABLE part

ChunksOf(v) == IF v = "old" THEN 2 ELSE 3

MergedLines == {[label |-> 1, text |-> "x"], [label |-> 1, text |-> "y"],
                [label |-> 0, text |-> "z"]}

\* Two calls for one operation, to two peers, and a third for another file.
TwoFiles == <<1, 1, 2>>

\* A whole burst, a file of two chunks, a message without data.
MixedLengths == <<<<2>>, <<1, 1>>, <<>>>>

Init ==
    /\ DiscoveryInit /\ HealthInit /\ RenameInit /\ ChunkManagerInit
    /\ MergeInit /\ ReconcileInit /\ WatcherInit /\ FlowInit
    /\ part \in {"discovery", "health", "rename", "chunks", "merge",
                 "reconcile", "watcher", "flow"}

StepOf(name, step) == part = name /\ step /\ UNCHANGED part

Next ==
    \/ /\ StepOf("discovery", DiscoveryNext)
       /\ UNCHANGED <<healthVars, renameVars, chunkManagerVars, mergeVars,
                      reconcileVars, watcherVars, flowVars>>
    \/ /\ StepOf("health", HealthNext)
       /\ UNCHANGED <<discoveryVars, renameVars, chunkManagerVars, mergeVars,
                      reconcileVars, watcherVars, flowVars>>
    \/ /\ StepOf("rename", RenameNext)
       /\ UNCHANGED <<discoveryVars, healthVars, chunkManagerVars, mergeVars,
                      reconcileVars, watcherVars, flowVars>>
    \/ /\ StepOf("chunks", ChunkManagerNext)
       /\ UNCHANGED <<discoveryVars, healthVars, renameVars, mergeVars,
                      reconcileVars, watcherVars, flowVars>>
    \/ /\ StepOf("merge", MergeNext)
       /\ UNCHANGED <<discoveryVars, healthVars, renameVars, chunkManagerVars,
                      reconcileVars, watcherVars, flowVars>>
    \/ /\ StepOf("reconcile", ReconcileNext)
       /\ UNCHANGED <<discoveryVars, healthVars, renameVars, chunkManagerVars,
                      mergeVars, watcherVars, flowVars>>
    \/ /\ StepOf("watcher", WatcherNext)
       /\ UNCHANGED <<discoveryVars, healthVars, renameVars, chunkManagerVars,
                      mergeVars, reconcileVars, flowVars>>
    \/ /\ StepOf("flow", FlowNext)
       /\ UNCHANGED <<discoveryVars, healthVars, renameVars, chunkManagerVars,
                      mergeVars, reconcileVars, watcherVars>>

\* Time passes, the monitor of the connections runs, and the network stack gives
\* a dead connection up; for the other parts see there.  The fair actions of a
\* part that is not followed are not enabled, but for the clocks.
FairSpec ==
    /\ Init /\ [][Next]_<<discoveryVars, healthVars, renameVars, chunkManagerVars,
                          mergeVars, reconcileVars, watcherVars, flowVars, part>>
    /\ DiscoveryFairness /\ WatcherFairness /\ CallsRun
    /\ WF_flowVars(part = "flow" /\ FlowTick)
    /\ WF_healthVars(part = "health" /\ Tick)
    /\ WF_healthVars(Monitor) /\ WF_healthVars(LinkFails)
=============================================================================
