----------------------------- MODULE AgentLoop -----------------------------
(***************************************************************************)
(* The agent playground: a page that starts runs, and AgentLoopService,    *)
(* which calls a model and its tools in turns and streams events back.  A  *)
(* run that meets an inline tool or an MCP tool to approve ends, and hands *)
(* the page its transcript; the page sends it back with the result, or     *)
(* with the approval, as a new run.  Contents are left out: a transcript   *)
(* is the tool calls that were asked for and those that were answered.     *)
(***************************************************************************)
EXTENDS Naturals, FiniteSets

CONSTANTS
    Calls,          \* tool call ids the model may come up with
    Kind,           \* what each of them calls
    MaxRuns,        \* bound on requests
    MaxSteps        \* maxSteps of a request

Kinds == {"builtin", "mcp", "inline"}
ASSUME AgentAssumption == Kind \in [Calls -> Kinds] /\ MaxRuns \in Nat \ {0} /\ MaxSteps \in Nat \ {0}

Runs == 1..MaxRuns
NoOne == 0

VARIABLES run, page, invented, ran

agentVars == <<run, page, invented, ran>>

\* last: the tool calls of the latest assistant message that has any.
Transcript == [asked: SUBSET Calls, answered: SUBSET Calls, last: SUBSET Calls]
EmptyTranscript == [asked |-> {}, answered |-> {}, last |-> {}]
Unanswered(t) == t.last \ t.answered

RunPcs == {"none", "resume", "turn", "model", "calls", "tool", "judge", "over"}

\* auto: autoRunMcp of the request, which stands for all of its calls.  paused:
\* an event asked the page for something.  closed: the page has gone.
Run == [pc: RunPcs, t: Transcript, todo: SUBSET Calls, call: SUBSET Calls, turns: 0..MaxSteps,
        plan: BOOLEAN, auto: BOOLEAN, paused: BOOLEAN, closed: BOOLEAN]
NoRun == [pc |-> "none", t |-> EmptyTranscript, todo |-> {}, call |-> {}, turns |-> 0,
          plan |-> FALSE, auto |-> FALSE, paused |-> FALSE, closed |-> FALSE]

\* pendingApproval, pendingInlineTool, continuationMessages (a set of one, or
\* none), autoRunMcp, running and abortController of the store.
Page == [approval: SUBSET Calls, inline: SUBSET Calls, cont: SUBSET Transcript,
         toggle: BOOLEAN, running: BOOLEAN, ctl: Runs \cup {NoOne}]

\* invented: the ids there are.
\* ran: the calls the server executed, and those it executed again.
AgentInit ==
    /\ run = [r \in Runs |-> NoRun]
    /\ page = [approval |-> {}, inline |-> {}, cont |-> {}, toggle |-> FALSE, running |-> FALSE, ctl |-> NoOne]
    /\ invented = {}
    /\ ran = [once |-> {}, again |-> {}]

-----------------------------------------------------------------------------
(* The page.  startRun clears both cards; a continuation leaves the         *)
(* transcript it sends in the store.                                        *)

StartRun(request, cont) ==
    \E r \in Runs :
        /\ run[r].pc = "none" /\ \A q \in Runs : q < r => run[q].pc # "none"
        /\ run' = [run EXCEPT ![r] = request]
        /\ page' = [page EXCEPT !.approval = {}, !.inline = {}, !.cont = cont, !.running = TRUE, !.ctl = r]

\* A first turn may plan; later ones resend the conversation, which holds no
\* tool calls.
Send ==
    /\ ~page.running
    /\ \E plan \in BOOLEAN, resend \in BOOLEAN :
          StartRun([NoRun EXCEPT !.pc = IF resend THEN "resume" ELSE "turn", !.plan = plan /\ ~resend,
                                 !.auto = page.toggle], {})
    /\ UNCHANGED <<invented, ran>>

SubmitToolResult ==
    /\ ~page.running /\ page.inline # {}
    /\ \E t \in page.cont :
          StartRun([NoRun EXCEPT !.pc = "resume", !.t = [t EXCEPT !.answered = @ \cup page.inline],
                                 !.auto = page.toggle], page.cont)
    /\ UNCHANGED <<invented, ran>>

\* The card can be used while a run is under way.
ApproveMcp ==
    /\ page.approval # {}
    /\ \E t \in page.cont :
          StartRun([NoRun EXCEPT !.pc = "resume", !.t = t, !.auto = TRUE], page.cont)
    /\ UNCHANGED <<invented, ran>>

RejectMcp ==
    /\ page.approval # {} /\ page' = [page EXCEPT !.approval = {}]
    /\ UNCHANGED <<run, invented, ran>>

ToggleAutoRun ==
    /\ ~page.running /\ page.approval = {} /\ page.inline = {}
    /\ page' = [page EXCEPT !.toggle = ~@]
    /\ UNCHANGED <<run, invented, ran>>

ResetPage ==
    /\ ~page.running
    /\ page' = [page EXCEPT !.approval = {}, !.inline = {}, !.cont = {}, !.toggle = FALSE]
    /\ UNCHANGED <<run, invented, ran>>

\* A history entry is put back, or a new session begun, at any time.  The store
\* is reset, the request under way is not aborted: its events still come in,
\* and there is nothing left to stop it with.
RestoreSnap ==
    /\ \E auto \in BOOLEAN :
          page' = [approval |-> {}, inline |-> {}, cont |-> {}, toggle |-> auto, running |-> FALSE, ctl |-> NoOne]
    /\ UNCHANGED <<run, invented, ran>>

\* The request is aborted, or its connection lost: the server learns at once,
\* and looks at it where it does.
Stop ==
    /\ page.ctl # NoOne
    /\ run' = [run EXCEPT ![page.ctl].closed = TRUE]
    /\ page' = [page EXCEPT !.running = FALSE, !.ctl = NoOne]
    /\ UNCHANGED <<invented, ran>>

-----------------------------------------------------------------------------
(* AgentLoopService.run. *)

\* The run returns; whatever is the latest run, the page is then not running.
Return(r, cont) ==
    /\ run' = [run EXCEPT ![r] = [NoRun EXCEPT !.pc = "over"]]
    /\ page' = IF run[r].closed THEN page
               ELSE [page EXCEPT !.cont = cont, !.running = FALSE, !.ctl = NoOne]
Aborted(r) == run[r].closed

\* Mutant: what was answered before the pause is not looked at.
ResumeAll(r) ==
    /\ run[r].pc = "resume"
    /\ IF Aborted(r) THEN Return(r, {})
       ELSE /\ run' = [run EXCEPT ![r].pc = IF run[r].t.last = {} THEN "turn" ELSE "calls",
                                  ![r].todo = run[r].t.last]
            /\ UNCHANGED page
    /\ UNCHANGED <<invented, ran>>

\* Only the calls of the latest assistant message are looked at.
Resume(r) ==
    /\ run[r].pc = "resume"
    /\ IF Aborted(r) THEN Return(r, {})
       ELSE /\ run' = [run EXCEPT ![r].pc = IF Unanswered(run[r].t) = {} THEN "turn" ELSE "calls",
                                  ![r].todo = Unanswered(run[r].t)]
            /\ UNCHANGED page
    /\ UNCHANGED <<invented, ran>>

\* Out of steps, the trajectory is judged like a finished one.
Turn(r) ==
    /\ run[r].pc = "turn"
    /\ IF Aborted(r) THEN Return(r, {})
       ELSE /\ run' = [run EXCEPT ![r].pc = IF run[r].turns = MaxSteps THEN "judge" ELSE "model",
                                  ![r].turns = IF @ = MaxSteps THEN @ ELSE @ + 1]
            /\ UNCHANGED page
    /\ UNCHANGED <<invented, ran>>

\* An aborted call throws; any other error ends the run.
ModelFails(r) ==
    /\ run[r].pc = "model" /\ Return(r, {})
    /\ UNCHANGED <<invented, ran>>

\* Mutant: a plan turn starts the count again.
ModelPlansForever(r) ==
    /\ run[r].pc = "model" /\ ~Aborted(r) /\ run[r].plan /\ run[r].turns = 1
    /\ run' = [run EXCEPT ![r].pc = "turn", ![r].turns = 0]
    /\ UNCHANGED <<page, invented, ran>>

\* The plan turn, with tools forbidden.
ModelPlans(r) ==
    /\ run[r].pc = "model" /\ ~Aborted(r) /\ run[r].plan /\ run[r].turns = 1
    /\ run' = [run EXCEPT ![r].pc = "turn"]
    /\ UNCHANGED <<page, invented, ran>>

ModelAnswers(r) ==
    /\ run[r].pc = "model" /\ ~Aborted(r) /\ ~(run[r].plan /\ run[r].turns = 1)
    /\ \E calls \in SUBSET (Calls \ invented) :
          /\ invented' = invented \cup calls
          /\ run' = [run EXCEPT ![r].pc = IF calls = {} THEN "judge" ELSE "calls", ![r].todo = calls,
                                ![r].t = IF calls = {} THEN @
                                         ELSE [asked |-> @.asked \cup calls, answered |-> @.answered,
                                               last |-> calls]]
    /\ UNCHANGED <<page, ran>>

\* judge() never throws; the verdict and done are written to whoever listens.
Judge(r) ==
    /\ run[r].pc = "judge" /\ Return(r, {})
    /\ UNCHANGED <<invented, ran>>

-----------------------------------------------------------------------------
(* processToolCalls. *)

RunsHere(r, c) == Kind[c] = "builtin" \/ (Kind[c] = "mcp" /\ run[r].auto)

\* Mutant: the latest call decides whether the run pauses.
PausedByLatest(r, c) == ~RunsHere(r, c)

\* sawInlineTool and sawApprovalNeeded.
PausedBy(r, c) == run[r].paused \/ ~RunsHere(r, c)

\* The discovery of the server failed for this run: an answer at once.
CallUnknown(r) ==
    /\ run[r].pc = "calls" /\ ~Aborted(r)
    /\ \E c \in run[r].todo :
          /\ Kind[c] = "mcp"
          /\ run' = [run EXCEPT ![r].todo = @ \ {c}, ![r].t.answered = @ \cup {c}]
    /\ UNCHANGED <<page, invented, ran>>

CallTool(r) ==
    /\ run[r].pc = "calls" /\ ~Aborted(r)
    /\ \E c \in run[r].todo :
          /\ RunsHere(r, c)
          /\ run' = [run EXCEPT ![r].pc = "tool", ![r].todo = @ \ {c}, ![r].call = {c}, ![r].paused = PausedBy(r, c)]
          /\ ran' = [once |-> ran.once \cup {c}, again |-> ran.again \cup (ran.once \cap {c})]
    /\ UNCHANGED <<page, invented>>

\* A result, or an error, with no look at whether anybody still listens.
ToolReturns(r) ==
    /\ run[r].pc = "tool"
    /\ run' = [run EXCEPT ![r].pc = "calls", ![r].call = {}, ![r].t.answered = @ \cup run[r].call]
    /\ UNCHANGED <<page, invented, ran>>

\* tool_approval and tool_result_needed; the page keeps one of each.
AskPage(r) ==
    /\ run[r].pc = "calls" /\ ~Aborted(r)
    /\ \E c \in run[r].todo :
          /\ ~RunsHere(r, c)
          /\ run' = [run EXCEPT ![r].todo = @ \ {c}, ![r].paused = PausedBy(r, c)]
          /\ page' = IF Kind[c] = "mcp" THEN [page EXCEPT !.approval = {c}] ELSE [page EXCEPT !.inline = {c}]
    /\ UNCHANGED <<invented, ran>>

\* The calls are through, or the run was aborted among them.
EndCalls(r) ==
    /\ run[r].pc = "calls" /\ (run[r].todo = {} \/ Aborted(r))
    /\ IF Aborted(r) THEN Return(r, {})
       ELSE IF run[r].paused THEN Return(r, {run[r].t})
       ELSE run' = [run EXCEPT ![r].pc = "turn"] /\ UNCHANGED page
    /\ UNCHANGED <<invented, ran>>

RunStep(r) ==
    \/ Resume(r) \/ Turn(r) \/ ModelFails(r) \/ ModelPlans(r) \/ ModelAnswers(r) \/ Judge(r)
    \/ CallUnknown(r) \/ CallTool(r) \/ ToolReturns(r) \/ AskPage(r) \/ EndCalls(r)

AgentNext ==
    \/ Send \/ SubmitToolResult \/ ApproveMcp \/ RejectMcp \/ ToggleAutoRun \/ ResetPage \/ RestoreSnap \/ Stop
    \/ \E r \in Runs : RunStep(r)

AgentSpec == AgentInit /\ [][AgentNext]_agentVars

-----------------------------------------------------------------------------
(* Types of all variables. *)
AgentTypeOK ==
    /\ run \in [Runs -> Run]
    /\ page.approval \subseteq Calls /\ page.inline \subseteq Calls
    /\ \A t \in page.cont : t.asked \cup t.answered \cup t.last \subseteq Calls
    /\ {page.toggle, page.running} \subseteq BOOLEAN /\ page.ctl \in Runs \cup {NoOne}
    /\ invented \cup ran.once \cup ran.again \subseteq Calls

(* Whatever pauses, aborts and stale cards there were, the model is never   *)
(* given a transcript in which one of its tool calls has no answer, which   *)
(* the upstream refuses.                                                    *)
TranscriptWhole == \A r \in Runs : run[r].pc = "model" => run[r].t.asked \subseteq run[r].t.answered

(* A transcript that is kept for a continuation has a call left to answer,  *)
(* and only by the user: its builtins have run, and run once however often  *)
(* it is sent back.                                                         *)
ResumesFromThePause ==
    /\ \A t \in page.cont : Unanswered(t) # {} /\ \A c \in Unanswered(t) : Kind[c] \in {"mcp", "inline"}
    /\ \A c \in ran.again : Kind[c] # "builtin"

(* Every run returns, within its steps, whatever the model asks for: once   *)
(* the page starts no more of them, none is under way.                      *)
RunsReturn == <>[](\A r \in Runs : run[r].pc \in {"none", "over"})
=============================================================================
