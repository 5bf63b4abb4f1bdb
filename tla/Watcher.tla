------------------------------- MODULE Watcher -------------------------------
(***************************************************************************)
(* internal/filesystem/watcher.go between fsnotify and the engine's        *)
(* processFileEvents: the debouncing of events, whose timers race with new *)
(* events, the bounded channel, the map of ignored paths, and Close.       *)
(***************************************************************************)
EXTENDS Naturals, Sequences, SequencesExt

CONSTANTS
    Files,
    Capacity,     \* of the channel of events, 100 in the code
    MaxChanges,   \* bound: changes by the user, all files together
    MaxIgnores    \* bound: writes of remote operations

ASSUME WatcherAssumption ==
    /\ IsFiniteSet(Files)
    /\ Capacity \in Nat \ {0} /\ MaxChanges \in Nat /\ MaxIgnores \in Nat

VARIABLES
    present,   \* is the file in the folder
    version,   \* history: changes of the file by the user
    told,      \* history: the version the engine's last operation stands for
    missed,    \* history: why a change of the file may go unnoticed
    raw,       \* fsnotify events processEvents has not read
    ignoreMap,
    entry,     \* pendingEvents: the event to report, or NoEvent
    timer,     \* the timer of the entry
    strays,    \* timers and callbacks whose entry has gone, or got a new timer
    sending,   \* sendDebouncedEvent calls past the deletion of the entry
    events,    \* the channel
    closed, panicked, changes, ignores

fileVars == <<present, version, changes>>
debounce == <<entry, timer, strays>>
watcherVars == <<present, version, told, missed, raw, ignoreMap, entry, timer,
                 strays, sending, events, closed, panicked, changes, ignores>>

Operations == {"create", "update", "delete", "rename", "unknown"}

\* A FileEvent, with the version it reports: 0 for a remote operation's write.
Event(f, op, v) == [path |-> f, op |-> op, version |-> v]
NoEvent == [path |-> "none", op |-> "none", version |-> 0]

WatcherInit ==
    /\ present = [f \in Files |-> TRUE]
    /\ version = [f \in Files |-> 0]
    /\ told = [f \in Files |-> 0]
    /\ missed = [f \in Files |-> {}]
    /\ raw = <<>>
    /\ ignoreMap = {}
    /\ entry = [f \in Files |-> NoEvent]
    /\ timer = [f \in Files |-> "none"]
    /\ strays = [f \in Files |-> 0]
    /\ sending = {}
    /\ events = <<>>
    /\ closed = FALSE /\ panicked = FALSE
    /\ changes = 0 /\ ignores = 0

Miss(f, why) == missed' = [missed EXCEPT ![f] = @ \cup why]

-----------------------------------------------------------------------------
\* The user writes, replaces, deletes or moves away a file, or changes its
\* mode, which is no change to report.
Change(f) ==
    /\ changes < MaxChanges /\ ~closed
    /\ \E op \in Operations :
          /\ op # "create" => present[f]
          /\ present' = [present EXCEPT ![f] = op \notin {"delete", "rename"}]
          /\ version' = [version EXCEPT ![f] = IF op = "unknown" THEN @ ELSE @ + 1]
          /\ raw' = Append(raw, Event(f, op, version'[f]))
    /\ changes' = changes + 1
    /\ UNCHANGED <<told, missed, ignoreMap, debounce, sending, events, closed,
                   panicked, ignores>>

\* A remote operation is applied: IgnorePath, the write, and WatchPath later.
IgnorePath(f) ==
    /\ f \notin ignoreMap /\ ignores < MaxIgnores /\ ~closed
    /\ ignoreMap' = ignoreMap \cup {f}
    /\ ignores' = ignores + 1
    /\ present' = [present EXCEPT ![f] = TRUE]
    /\ raw' = Append(raw, Event(f, "create", 0))
    /\ UNCHANGED <<version, changes, told, missed, debounce, sending, events,
                   closed, panicked>>

WatchPath(f) ==
    /\ f \in ignoreMap
    /\ ignoreMap' = ignoreMap \ {f}
    /\ UNCHANGED <<fileVars, told, missed, raw, debounce, sending, events, closed,
                   panicked, ignores>>

\* Mutant: the timer that was stopped is not set again.
NewTimerOnce(f) == IF entry[f] = NoEvent THEN "armed" ELSE "stopped"

NewTimer(f) == "armed"

\* Mutant: a create is replaced like any other operation.
MergedLast(f, event) == event

\* A pending create stays, everything else is replaced.
Merged(f, event) == IF entry[f].op = "create" THEN entry[f] ELSE event

\* What a replacement loses: a change behind a mode, the end of the file behind
\* its creation.
Overridden(f, op) ==
    IF \/ entry[f].op \in {"update", "delete", "rename"} /\ op = "unknown"
       \/ entry[f].op = "create" /\ op \in {"delete", "rename"}
    THEN {"overridden"} ELSE {}

\* processEvents and debounceEvent.  A timer whose callback already runs is
\* not stopped: it becomes a stray.
ProcessEvent ==
    LET event == Head(raw)
        f == event.path
    IN  /\ raw # <<>>
        /\ raw' = Tail(raw)
        /\ IF f \in ignoreMap \/ closed
           THEN /\ Miss(f, IF event.version > 0 THEN {"ignored"} ELSE {})
                /\ UNCHANGED debounce
           ELSE /\ Miss(f, Overridden(f, event.op))
                /\ strays' = [strays EXCEPT ![f] = IF timer[f] = "fired" THEN @ + 1 ELSE @]
                /\ timer' = [timer EXCEPT ![f] = NewTimer(f)]
                /\ entry' = [entry EXCEPT ![f] = Merged(f, event)]
        /\ UNCHANGED <<fileVars, told, ignoreMap, sending, events, closed,
                       panicked, ignores>>

\* 500 ms have passed: the callback starts.
Fire(f) ==
    /\ timer[f] = "armed"
    /\ timer' = [timer EXCEPT ![f] = "fired"]
    /\ UNCHANGED <<fileVars, told, missed, raw, ignoreMap, entry, strays, sending,
                   events, closed, panicked, ignores>>

\* sendDebouncedEvent up to its first unlock: the entry is taken, whichever
\* timer the callback belongs to; the timer of a taken entry cannot be stopped
\* any more.
TakeEntry(f) ==
    /\ \/ timer[f] = "fired" /\ UNCHANGED strays
       \/ /\ strays[f] > 0
          /\ strays' = [strays EXCEPT ![f] = IF timer[f] = "none" THEN @ - 1 ELSE @]
    /\ timer' = [timer EXCEPT ![f] = "none"]
    /\ entry' = [entry EXCEPT ![f] = NoEvent]
    /\ sending' = IF entry[f] = NoEvent THEN sending
                  ELSE sending \cup {[event |-> entry[f], checked |-> FALSE]}
    /\ UNCHANGED <<fileVars, told, missed, raw, ignoreMap, events, closed,
                   panicked, ignores>>

\* It reads closed under the lock that guards it, and lets the lock go.  (Two
\* calls that send equal events are one.)
CheckClosed(s) ==
    /\ s \in sending /\ ~s.checked
    /\ sending' = (sending \ {s}) \cup
          IF closed THEN {} ELSE {[s EXCEPT !.checked = TRUE]}
    /\ UNCHANGED <<fileVars, told, missed, raw, ignoreMap, debounce, events,
                   closed, panicked, ignores>>

\* A deletion is sent after an event that tells of a later state.
Overtakes(late, early) ==
    /\ early.op = "delete" /\ early.path = late.path
    /\ late.version \notin 1..early.version

\* It sends: a full channel drops the event, a closed one panics.  Two calls
\* for one path are not ordered.
Send(s) ==
    LET f == s.event.path
    IN  /\ s \in sending /\ s.checked
        /\ sending' = sending \ {s}
        /\ panicked' = closed
        /\ IF closed \/ Len(events) = Capacity
           THEN Miss(f, {"dropped"}) /\ UNCHANGED events
           ELSE /\ events' = Append(events, s.event)
                /\ Miss(f, IF \E t \in sending : Overtakes(s.event, t.event)
                           THEN {"overtaken"} ELSE {})
        /\ UNCHANGED <<fileVars, told, raw, ignoreMap, debounce, closed, ignores>>

\* Engine.handleFileEvent: handleCreate and handleUpdate read the file as it is
\* and give up when it is not there, handleRename is handleCreate on the old
\* name, handleDelete does not look.
HandleFileEvent ==
    LET event == Head(events)
        f == event.path
    IN  /\ events # <<>>
        /\ events' = Tail(events)
        /\ told' = [told EXCEPT ![f] =
              CASE event.op \in {"create", "update", "rename"} /\ present[f] -> version[f]
                [] event.op = "delete" -> event.version
                [] OTHER -> @]
        /\ Miss(f, IF event.op = "rename" /\ ~present[f] THEN {"moved"} ELSE {})
        /\ UNCHANGED <<fileVars, raw, ignoreMap, debounce, sending, closed,
                       panicked, ignores>>

\* Close, by Engine.Stop: Stop does not undo a callback that already runs.
Close ==
    /\ ~closed
    /\ closed' = TRUE
    /\ strays' = [f \in Files |-> strays[f] + IF timer[f] = "fired" THEN 1 ELSE 0]
    /\ timer' = [f \in Files |-> "none"]
    /\ entry' = [f \in Files |-> NoEvent]
    /\ UNCHANGED <<fileVars, told, missed, raw, ignoreMap, sending, events,
                   panicked, ignores>>

Callback(f) == Fire(f) \/ TakeEntry(f)

Sender == \E s \in sending : CheckClosed(s) \/ Send(s)

WatcherNext ==
    /\ ~panicked
    /\ \/ \E f \in Files : Change(f) \/ IgnorePath(f) \/ WatchPath(f) \/ Callback(f)
       \/ ProcessEvent \/ Sender \/ HandleFileEvent \/ Close

WatcherSpec == WatcherInit /\ [][WatcherNext]_watcherVars

\* Timers fire, callbacks run, and the two loops read what is there.
WatcherFairness ==
    /\ WF_watcherVars(~panicked /\ ProcessEvent)
    /\ WF_watcherVars(~panicked /\ Sender)
    /\ WF_watcherVars(~panicked /\ HandleFileEvent)
    /\ \A f \in Files : WF_watcherVars(~panicked /\ Callback(f))

-----------------------------------------------------------------------------
InFlight(f) ==
    \/ \E e \in ToSet(raw) \cup ToSet(events) : e.path = f
    \/ entry[f] # NoEvent
    \/ \E s \in sending : s.event.path = f

\* When nothing about a file is on its way any more, the engine has told the
\* peers of its last change, whatever the timers did to the events of the file;
\* the ways the code loses a change are exactly the ones recorded in missed.
QuietMeansTold ==
    \A f \in Files :
        ~InFlight(f) /\ missed[f] = {} /\ ~closed => told[f] = version[f]

\* A change of a file reaches the engine, although each new event stops the
\* timer of the one before.
ChangesReported ==
    \A f \in Files :
        told[f] # version[f] ~> \/ told[f] = version[f]
                                \/ missed[f] # {} \/ closed
=============================================================================
