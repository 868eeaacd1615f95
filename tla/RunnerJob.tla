------------------------------ MODULE RunnerJob ------------------------------
(***************************************************************************)
(* The world outside the API process: the Job controller and kubelet, seen *)
(* as the code uses them, and the runner (apps/benchmark-runner, main.py)  *)
(* inside the pod.  backoffLimit is 0 and restartPolicy Never, so one Job  *)
(* has at most one pod and a pod runs main.py at most once.                *)
(***************************************************************************)
EXTENDS BenchmarkRecords

Kube(r, k) == kube' = [kube EXCEPT ![r] = k]

\* The Job controller creates the pod.
PodSpawn(r) ==
    /\ kube[r].job # NoJob
    /\ kube[r].step = "unspawned"
    /\ Kube(r, [kube[r] EXCEPT !.phase = "Pending", !.step = "meta"])
    /\ UNCHANGED <<rows, store, notes, opens>>

\* The container cannot start: one of DEFAULT_FATAL_WAITING_REASONS.
PodWait(r) ==
    /\ kube[r].phase = "Pending"
    /\ Kube(r, [kube[r] EXCEPT !.phase = "Waiting"])
    /\ UNCHANGED <<rows, store, notes, opens>>

\* The container starts; its environment comes from the run's Secret.
PodRun(r) ==
    /\ kube[r].phase \in {"Pending", "Waiting"}
    /\ kube[r].secret # "none"
    /\ Kube(r, [kube[r] EXCEPT !.phase = "Running"])
    /\ UNCHANGED <<rows, store, notes, opens>>

\* main.py step 1: meta.json before the tool is started.
WriteMeta(r) ==
    /\ kube[r].phase = "Running" /\ kube[r].step = "meta"
    /\ store' = [store EXCEPT ![r].meta = TRUE]
    /\ Kube(r, [kube[r] EXCEPT !.step = "tool"])
    /\ UNCHANGED <<rows, notes, opens>>

\* The tool's process ends with some exit code.
ToolExit(r) ==
    /\ kube[r].phase = "Running" /\ kube[r].step = "tool"
    /\ \E rc \in {0, 1} :
          Kube(r, [kube[r] EXCEPT !.step = "upload", !.rc = rc])
    /\ UNCHANGED <<rows, store, notes, opens>>

\* main.py steps 2 and 3: output files, stdout and stderr.
WriteOutput(r) ==
    /\ kube[r].phase = "Running" /\ kube[r].step = "upload"
    /\ store' = [store EXCEPT ![r].output = TRUE]
    /\ Kube(r, [kube[r] EXCEPT !.step = "sentinel"])
    /\ UNCHANGED <<rows, notes, opens>>

\* main.py step 4: result.json, whatever the exit code was.
WriteResult(r) ==
    /\ kube[r].phase = "Running" /\ kube[r].step = "sentinel"
    /\ store' = [store EXCEPT ![r].result =
                    IF kube[r].rc = 0 THEN "zero" ELSE "nonzero"]
    /\ Kube(r, [kube[r] EXCEPT !.step = "exit"])
    /\ UNCHANGED <<rows, notes, opens>>

\* main.py returns the tool's exit code, which decides the pod's phase.
PodExit(r) ==
    /\ kube[r].phase = "Running" /\ kube[r].step = "exit"
    /\ Kube(r, [kube[r] EXCEPT !.phase = IF kube[r].rc = 0 THEN "Succeeded" ELSE "Failed",
                               !.step = "over", !.rc = 0])
    /\ UNCHANGED <<rows, store, notes, opens>>

\* OOM kill, eviction, or an exception in main.py (a failed upload).
PodFail(r) ==
    /\ kube[r].phase \in LivePhases
    /\ Kube(r, [kube[r] EXCEPT !.phase = "Failed", !.step = "over", !.rc = 0])
    /\ UNCHANGED <<rows, store, notes, opens>>

\* The pod object disappears: its Job was deleted, or its node went away.
PodRemoved(r) ==
    /\ kube[r].phase # "none"
    /\ Kube(r, [kube[r] EXCEPT !.phase = "none", !.step = "over", !.rc = 0])
    /\ UNCHANGED <<rows, store, notes, opens>>

\* ttlSecondsAfterFinished: the finished Job goes, with its pod and Secret.
JobExpire(r) ==
    /\ kube[r].job # NoJob
    /\ kube[r].step = "over"
    /\ Kube(r, [WithoutJob(kube[r]) EXCEPT !.phase = "none"])
    /\ UNCHANGED <<rows, store, notes, opens>>

RunnerStep(r) ==
    WriteMeta(r) \/ ToolExit(r) \/ WriteOutput(r) \/ WriteResult(r) \/ PodExit(r)

RunnerNext ==
    \E r \in Runs :
        \/ PodSpawn(r) \/ PodWait(r) \/ PodRun(r)
        \/ RunnerStep(r)
        \/ PodFail(r) \/ PodRemoved(r) \/ JobExpire(r)

-----------------------------------------------------------------------------
(* result.json is the sentinel: whoever sees it finds every other artifact  *)
(* (main.py writes it last).  It survives any crash of the runner and a     *)
(* second attempt by resume, which rewrites the artifacts in place.         *)
SentinelIsLast ==
    \A r \in Runs : HasResult(r) => store[r].meta /\ store[r].output
=============================================================================
