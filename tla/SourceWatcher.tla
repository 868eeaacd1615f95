--------------------------- MODULE SourceWatcher ---------------------------
(***************************************************************************)
(* SourceWatcherService for one platform source: the loop that reads the   *)
(* source, connects and watches it, replaced whenever the source changes,  *)
(* while loops that were replaced are still suspended in an await.  The    *)
(* calls of PlatformSourcesService write the row and then tell the watcher.*)
(* The reconciles a loop asks for are those of SourceSync.                 *)
(***************************************************************************)
EXTENDS Naturals

CONSTANTS
    Editors,     \* PATCH and DELETE calls under way at once
    MaxLoops,    \* bound on loops started
    MaxEdits,    \* bound on PATCH and DELETE calls
    MaxBreaks    \* bound on failures of a loop, and restarts

ASSUME WatcherAssumption == {MaxLoops, MaxEdits, MaxBreaks} \subseteq Nat /\ MaxLoops > 0

Loops == 1..MaxLoops
NoLoop == 0

VARIABLES
    source,    \* the platform_sources row; version is its URL and key
    editor,    \* the calls that wrote the row and have not told the watcher
    loop,      \* invocations of loop()
    current,   \* states.get(sourceId)
    breaks

watcherVars == <<source, editor, loop, current, breaks>>

LoopPcs == {"none", "read", "client", "watch", "wait", "over"}
Loop == [pc: LoopPcs, aborted: BOOLEAN, version: 0..MaxEdits, enabled: BOOLEAN]
NewLoop == [pc |-> "read", aborted |-> FALSE, version |-> 0, enabled |-> FALSE]

Started == {l \in Loops : loop[l].pc # "none"}
Fresh(l) == l \notin Started /\ \A k \in Loops : k < l => k \in Started
IsCurrent(l) == ~loop[l].aborted /\ current = l

\* A source that is created enabled, which the watcher is told of.
WatcherInit ==
    /\ source = [there |-> TRUE, enabled |-> TRUE, version |-> 0]
    /\ editor = [c \in Editors |-> "idle"]
    /\ loop = [l \in Loops |-> IF l = 1 THEN NewLoop ELSE [NewLoop EXCEPT !.pc = "none"]]
    /\ current = 1 /\ breaks = 0

-----------------------------------------------------------------------------
(* The calls: findOwned and the write, then the listeners. *)

PatchSource(c) ==
    /\ editor[c] = "idle" /\ source.there /\ source.version < MaxEdits
    /\ \E on \in BOOLEAN :
          source' = [source EXCEPT !.version = @ + 1, !.enabled = on]
    /\ editor' = [editor EXCEPT ![c] = "upsert"]
    /\ UNCHANGED <<loop, current, breaks>>

DeleteSource(c) ==
    /\ editor[c] = "idle" /\ source.there
    /\ source' = [source EXCEPT !.there = FALSE]
    /\ editor' = [editor EXCEPT ![c] = "delete"]
    /\ UNCHANGED <<loop, current, breaks>>

\* Mutant: stop forgets the loop without aborting it.
StopForgets(loops) == loops

\* stop aborts the loop, and with it its watch, and drops its entry.
Stopped(loops) == IF current = NoLoop THEN loops ELSE [loops EXCEPT ![current].aborted = TRUE]

\* onChange: stop, and start unless the source was deleted.
Emit(c) ==
    /\ editor[c] # "idle"
    /\ IF editor[c] = "delete"
       THEN loop' = Stopped(loop) /\ current' = NoLoop
       ELSE \E l \in Loops : /\ Fresh(l)
                             /\ loop' = [Stopped(loop) EXCEPT ![l] = NewLoop]
                             /\ current' = l
    /\ editor' = [editor EXCEPT ![c] = "idle"]
    /\ UNCHANGED <<source, breaks>>

-----------------------------------------------------------------------------
(* loop(), one action per await. *)

SetLoop(l, v) == loop' = [loop EXCEPT ![l] = v]
LoopGoto(l, pc) == SetLoop(l, [loop[l] EXCEPT !.pc = pc])

\* Mutant: a loop that failed is over.
GiveUpForGood(l) == SetLoop(l, [NewLoop EXCEPT !.pc = "over", !.aborted = loop[l].aborted])

\* A current loop tries again after a delay; what it had read is dropped.
GiveUp(l) == SetLoop(l, [NewLoop EXCEPT !.pc = IF IsCurrent(l) THEN "wait" ELSE "over",
                                        !.aborted = loop[l].aborted])

\* getDecrypted has returned; a loop that was replaced meanwhile gives up, and
\* one whose source is disabled stops itself.
LoopRead(l) ==
    /\ loop[l].pc = "read" /\ source.there
    /\ SetLoop(l, [loop[l] EXCEPT !.pc = "client", !.version = source.version, !.enabled = source.enabled])
    /\ UNCHANGED <<source, editor, current, breaks>>

\* Mutant: a loop that was replaced acts on what it read.
LoopClientUnchecked(l) ==
    /\ loop[l].pc = "client"
    /\ IF ~loop[l].enabled
       THEN /\ loop' = [Stopped(loop) EXCEPT ![l] = [NewLoop EXCEPT !.pc = "over", !.aborted = TRUE]]
            /\ current' = NoLoop
       ELSE LoopGoto(l, "watch") /\ UNCHANGED current
    /\ UNCHANGED <<source, editor, breaks>>

LoopClient(l) ==
    /\ loop[l].pc = "client"
    /\ IF ~IsCurrent(l) THEN GiveUp(l) /\ UNCHANGED current
       ELSE IF ~loop[l].enabled
       THEN /\ loop' = [Stopped(loop) EXCEPT ![l] = [NewLoop EXCEPT !.pc = "over", !.aborted = TRUE]]
            /\ current' = NoLoop
       ELSE LoopGoto(l, "watch") /\ UNCHANGED current
    /\ UNCHANGED <<source, editor, breaks>>

\* The read of a deleted source throws, and the abort of a watch ends it.
LoopEnds(l) ==
    /\ \/ loop[l].pc = "read" /\ ~source.there
       \/ loop[l].pc = "watch" /\ loop[l].aborted
    /\ GiveUp(l)
    /\ UNCHANGED <<source, editor, current, breaks>>

\* The database, the client or the stream fails, or the heartbeat times out.
LoopFails(l) ==
    /\ loop[l].pc \in {"read", "client", "watch"}
    /\ breaks < MaxBreaks /\ breaks' = breaks + 1
    /\ GiveUp(l)
    /\ UNCHANGED <<source, editor, current>>

\* stop clears the timer.
LoopRetry(l) ==
    /\ loop[l].pc = "wait"
    /\ LoopGoto(l, IF loop[l].aborted THEN "over" ELSE "read")
    /\ UNCHANGED <<source, editor, current, breaks>>

\* The process ends, and onApplicationBootstrap starts what is enabled.
WatcherRestart ==
    /\ breaks < MaxBreaks /\ breaks' = breaks + 1
    /\ editor' = [c \in Editors |-> "idle"]
    /\ LET gone == [l \in Loops |-> IF l \in Started THEN [NewLoop EXCEPT !.pc = "over", !.aborted = TRUE] ELSE loop[l]]
       IN IF source.there /\ source.enabled
          THEN \E l \in Loops : Fresh(l) /\ loop' = [gone EXCEPT ![l] = NewLoop] /\ current' = l
          ELSE loop' = gone /\ current' = NoLoop
    /\ UNCHANGED source

LoopStep(l) == LoopRead(l) \/ LoopClient(l) \/ LoopRetry(l) \/ LoopEnds(l)
WatcherNext ==
    \/ \E c \in Editors : PatchSource(c) \/ DeleteSource(c) \/ Emit(c)
    \/ \E l \in Loops : LoopStep(l) \/ LoopFails(l)
    \/ WatcherRestart

WatcherSpec == WatcherInit /\ [][WatcherNext]_watcherVars

-----------------------------------------------------------------------------
(* Types of all variables. *)
WatcherTypeOK ==
    /\ source \in [there: BOOLEAN, enabled: BOOLEAN, version: 0..MaxEdits]
    /\ editor \in [Editors -> {"idle", "upsert", "delete"}]
    /\ loop \in [Loops -> Loop]
    /\ current \in Loops \cup {NoLoop}
    /\ breaks \in 0..MaxBreaks

(* There is one watch at most, that of the loop on record, and it is on the *)
(* URL and key the row has, unless a call is about to tell of a change: no  *)
(* stream with an old key outlives its source.                              *)
WatchIsCurrent ==
    \A l \in Loops :
        loop[l].pc = "watch" /\ ~loop[l].aborted =>
            /\ l = current
            /\ (source.there /\ source.enabled /\ loop[l].version = source.version)
                  \/ \E c \in Editors : editor[c] # "idle"

(* "A stale invocation never reconciles or calls watchModels"               *)
(* (source-watcher.service.ts:77-79), however long it was suspended.        *)
StaleNeverWatches ==
    [][\A l \in Loops : loop[l].pc # "watch" /\ loop'[l].pc = "watch" => IsCurrent(l)]_watcherVars

(* Once nobody edits the source any more, it is watched as it is if it is   *)
(* enabled, and not at all if it is disabled.                               *)
FollowsSource ==
    source.there =>
        IF source.enabled
        THEN current # NoLoop /\ loop[current].pc = "watch" /\ loop[current].version = source.version
        ELSE \A l \in Loops : loop[l].pc \in {"none", "over"}
=============================================================================
