------------------------------ MODULE LogPages ------------------------------
(***************************************************************************)
(* The live log of one benchmark run as pages listen to it: SseHub, the    *)
(* GET :id/events of the controller, the EventSource of the browser, and   *)
(* tryLoad, which closes the stream.  What is published is left out.       *)
(***************************************************************************)
EXTENDS Naturals

CONSTANTS
    Pages,   \* browser tabs on the detail page of the run
    Loads    \* calls of tryLoad, of watcher and reconciler, which may overlap

VARIABLES
    inProgress,   \* the status of the row is one of those in progress
    closing,      \* tryLoad, by its next await
    hub,          \* SseHub: `stream` of the run exists; it is in `closed`
    listener      \* what a page waits for

pageVars == <<inProgress, closing, hub, listener>>

Hub == [stream: BOOLEAN, closed: BOOLEAN]
EmptyHub == [stream |-> FALSE, closed |-> FALSE]

PagesInit ==
    /\ inProgress = TRUE
    /\ closing = [l \in Loads |-> "idle"]
    /\ hub = EmptyHub
    /\ listener = [t \in Pages |-> "idle"]

\* A cancel, the watcher or a sweep ends the run, and closes nothing.
EndsUnclosed ==
    /\ inProgress /\ inProgress' = FALSE
    /\ UNCHANGED <<closing, hub, listener>>

\* An interrupted run is resumed, under the same id.
ResumesUnderId ==
    /\ ~inProgress /\ inProgress' = TRUE
    /\ UNCHANGED <<closing, hub, listener>>

\* tryLoad: the row is read, then artifacts are, then the row is written.
CloseFind(l) ==
    /\ closing[l] = "idle" /\ inProgress
    /\ closing' = [closing EXCEPT ![l] = "commit"]
    /\ UNCHANGED <<inProgress, hub, listener>>

CloseCommit(l) ==
    /\ closing[l] = "commit" /\ closing' = [closing EXCEPT ![l] = "finally"]
    /\ inProgress' = FALSE
    /\ UNCHANGED <<hub, listener>>

\* `finally`: a stream that nobody asked for is not remembered as closed.
HubClose(l) ==
    /\ closing[l] = "finally" /\ closing' = [closing EXCEPT ![l] = "idle"]
    /\ hub' = [stream |-> FALSE, closed |-> hub.closed \/ hub.stream]
    /\ listener' = [t \in Pages |-> IF hub.stream /\ listener[t] = "open" THEN "idle" ELSE listener[t]]
    /\ UNCHANGED inProgress

\* findByIdOrFail; EventSource asks again when a stream is over.
EventsFind(t) ==
    /\ listener[t] = "idle" /\ inProgress
    /\ listener' = [listener EXCEPT ![t] = "found"]
    /\ UNCHANGED <<inProgress, closing, hub>>

\* Mutant: subscribe does not look at closedSet.
SubscribeAgain(t) ==
    /\ listener[t] = "found" /\ listener' = [listener EXCEPT ![t] = "open"]
    /\ hub' = [hub EXCEPT !.stream = TRUE]
    /\ UNCHANGED <<inProgress, closing>>

Subscribe(t) ==
    /\ listener[t] = "found"
    /\ IF hub.closed
       THEN listener' = [listener EXCEPT ![t] = "idle"] /\ UNCHANGED hub
       ELSE hub' = [hub EXCEPT !.stream = TRUE] /\ listener' = [listener EXCEPT ![t] = "open"]
    /\ UNCHANGED <<inProgress, closing>>

\* The page is left, or sees a terminal row: the stream stays in the hub.
PageLeft(t) ==
    /\ listener[t] \in {"found", "open"}
    /\ listener' = [listener EXCEPT ![t] = "idle"]
    /\ UNCHANGED <<inProgress, closing, hub>>

\* The API starts again, with nothing in memory; pages connect anew.
HubRestarts ==
    /\ closing' = [l \in Loads |-> "idle"]
    /\ hub' = EmptyHub /\ listener' = [t \in Pages |-> "idle"]
    /\ UNCHANGED inProgress

PagesNext ==
    \/ EndsUnclosed \/ ResumesUnderId \/ HubRestarts
    \/ \E l \in Loads : CloseFind(l) \/ CloseCommit(l) \/ HubClose(l)
    \/ \E t \in Pages : EventsFind(t) \/ Subscribe(t) \/ PageLeft(t)

PagesSpec == PagesInit /\ [][PagesNext]_pageVars

-----------------------------------------------------------------------------
(* Types of all variables. *)
PagesTypeOK ==
    /\ inProgress \in BOOLEAN
    /\ closing \in [Loads -> {"idle", "commit", "finally"}]
    /\ hub \in Hub /\ listener \in [Pages -> {"idle", "found", "open"}]

(* Once a stream was closed, no page is left waiting on it, and one that    *)
(* asked before and subscribes after does not bring it back.                *)
ListenersReleased == hub.closed => ~hub.stream /\ \A t \in Pages : listener[t] # "open"
=============================================================================
