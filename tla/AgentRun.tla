------------------------------ MODULE AgentRun ------------------------------
(***************************************************************************)
(* One run in the agent-worker: the background investigation task, the     *)
(* verification tasks that approvals start, the run document and the       *)
(* append-only list of step events in the in-process store.                *)
(*                                                                         *)
(* The worker is one asyncio process.  The store's lock is never held over *)
(* an await and so never waited for: a task runs without interruption from *)
(* one upstream call (model, mcp-gateway, impact-engine, action-executor)  *)
(* to the next, and each such stretch is one action.  The text and payload *)
(* of an event are left out; its sequence number and type are kept, and of *)
(* the evidence which tool call's payload each evidence id leads to.       *)
(***************************************************************************)
EXTENDS Integers, Sequences, FiniteSets

CONSTANTS
    MaxTurns,       \* the ceiling on tool calls of an investigation
    Parallel,       \* how many tool calls the agent issues at a time
    MaxVerifies,    \* bound on the verification requests
    MayRestart      \* whether the worker process may be restarted

ASSUME RunAssumption ==
    /\ MaxTurns \in Nat
    /\ Parallel \in Nat \ {0}
    /\ MaxVerifies \in Nat
    /\ MayRestart \in BOOLEAN

VARIABLES
    phase,      \* how far the investigation task is
    state,      \* the run document's state
    offered,    \* whether the document holds remediation options
    stepCount,  \* the document's step_count
    seq,        \* the next sequence number of the investigation
    turn,       \* tool calls begun
    calls,      \* tool calls waiting for the mcp-gateway, by their turn
    evidence,   \* by evidence id, the tool call whose payload is stored; 0 is none
    verifies,   \* the verification tasks so far
    events      \* the events of the run, in the order they were emitted

runVars == <<phase, state, offered, stepCount, seq, turn, calls, evidence,
             verifies, events>>

Phases == {"queued", "gathering", "projecting", "concluded", "failed", "lost"}
RunStates == {"QUEUED", "RUNNING", "AWAITING_APPROVAL", "VERIFYING",
              "COMPLETED", "DEGRADED", "FAILED"}
EventTypes == {"PLAN", "TOOL_CALL", "EVIDENCE", "DEGRADED", "HYPOTHESIS", "IMPACT",
               "APPROVAL_REQUIRED", "VERIFICATION", "COMPLETED", "ERROR"}
Event == [seq : Nat, type : EventTypes]

\* queued: scheduled; settling: waiting for the verdict, with the sequence number
\* it will report under; over: reported.
Verify == [status : {"queued", "settling", "over"}, seq : Nat]
VerifyLive(i) == verifies[i].status \in {"queued", "settling"}

At(n, type) == [seq |-> n, type |-> type]

RunInit ==
    /\ phase = "queued"
    /\ state = "QUEUED"
    /\ offered = FALSE
    /\ stepCount = 0
    /\ seq = 1
    /\ turn = 0
    /\ calls = {}
    /\ evidence = [i \in 1..MaxTurns |-> 0]
    /\ verifies = <<>>
    /\ events = <<>>

-----------------------------------------------------------------------------
(* The investigation task *)

\* run_investigation begins and announces its plan.
Begin ==
    /\ phase = "queued"
    /\ phase' = "gathering"
    /\ state' = "RUNNING"
    /\ events' = Append(events, At(1, "PLAN"))
    /\ seq' = 2
    /\ UNCHANGED <<offered, stepCount, turn, calls, evidence, verifies>>

\* Fault: the ceiling is tested one turn late.
Exhausted_Late == turn > MaxTurns

Exhausted == turn >= MaxTurns

\* A tool is called: the turn is counted, announced, and the gateway asked.
ToolCall ==
    /\ phase = "gathering"
    /\ ~Exhausted
    /\ Cardinality(calls) < Parallel
    /\ turn' = turn + 1
    /\ calls' = calls \cup {turn + 1}
    /\ events' = Append(events, At(seq, "TOOL_CALL"))
    /\ seq' = seq + 1
    /\ UNCHANGED <<phase, state, offered, stepCount, evidence, verifies>>

\* Call c is answered: its payload is filed under an id made of the turn counter
\* as it now stands, which a later call may have moved on.
ToolAnswers(c) ==
    /\ c \in calls
    /\ calls' = calls \ {c}
    /\ evidence' = [evidence EXCEPT ![turn] = c]
    /\ events' = Append(events, At(seq, "EVIDENCE"))
    /\ seq' = seq + 1
    /\ UNCHANGED <<phase, state, offered, stepCount, turn, verifies>>

\* Call c raises: the gap is announced and the agent goes on.
ToolFails(c) ==
    /\ c \in calls
    /\ calls' = calls \ {c}
    /\ events' = Append(events, At(seq, "DEGRADED"))
    /\ seq' = seq + 1
    /\ UNCHANGED <<phase, state, offered, stepCount, turn, evidence, verifies>>

\* The end of run_investigation, after the events `before`: remediation is offered
\* if there are affected workers or deliverables at risk, else the run is over.
\* step_count is left at the next unused number.
Conclude(before, warranted) ==
    LET n == seq + Len(before)
        last == IF warranted THEN "APPROVAL_REQUIRED" ELSE "COMPLETED"
    IN  /\ phase' = "concluded"
        /\ offered' = warranted
        /\ state' = IF warranted THEN "AWAITING_APPROVAL" ELSE "COMPLETED"
        /\ events' = events \o before \o <<At(n, last)>>
        /\ seq' = n + 1
        /\ stepCount' = n + 1
        /\ UNCHANGED <<turn, calls, evidence, verifies>>

\* The agent is done: the hypothesis is scored.  With inputs missing the run
\* concludes at once; otherwise the impact-engine is asked.
Score ==
    /\ phase = "gathering"
    /\ calls = {}
    /\ \/ \E warranted \in BOOLEAN :
            Conclude(<<At(seq, "HYPOTHESIS"), At(seq + 1, "IMPACT")>>, warranted)
       \/ /\ phase' = "projecting"
          /\ events' = Append(events, At(seq, "HYPOTHESIS"))
          /\ seq' = seq + 1
          /\ UNCHANGED <<state, offered, stepCount, turn, calls, evidence, verifies>>

\* The impact-engine answers or cannot be reached: one IMPACT event either way.
Project ==
    /\ phase = "projecting"
    /\ \E warranted \in BOOLEAN : Conclude(<<At(seq, "IMPACT")>>, warranted)

\* The investigation raises (the model, or the scoring): the document says so, and
\* an ERROR is numbered from a step_count that is still zero.
Fail ==
    /\ phase = "gathering"
    /\ calls = {}
    /\ phase' = "failed"
    /\ state' = "FAILED"
    /\ events' = Append(events, At(stepCount + 1, "ERROR"))
    /\ UNCHANGED <<offered, stepCount, seq, turn, calls, evidence, verifies>>

-----------------------------------------------------------------------------
(* Verification *)

\* verify_run, which the API gateway calls once per approval of an option the run
\* holds, however often and whatever became of the last one.
VerifyRequested ==
    /\ phase = "concluded"
    /\ offered
    /\ Len(verifies) < MaxVerifies
    /\ state' = "VERIFYING"
    /\ verifies' = Append(verifies, [status |-> "queued", seq |-> 0])
    /\ UNCHANGED <<phase, offered, stepCount, seq, turn, calls, evidence, events>>

\* The task starts: the number it will report under is taken from step_count.
VerifyBegins(i) ==
    /\ verifies[i].status = "queued"
    /\ verifies' = [verifies EXCEPT ![i] = [status |-> "settling", seq |-> stepCount + 1]]
    /\ UNCHANGED <<phase, state, offered, stepCount, seq, turn, calls, evidence, events>>

\* Fault: the run is only said to be over when the fleet recovered.
VerifyReports_Inferred(i, recovered) ==
    /\ verifies[i].status = "settling"
    /\ verifies' = [verifies EXCEPT ![i].status = "over"]
    /\ state' = IF recovered THEN "COMPLETED" ELSE "DEGRADED"
    /\ stepCount' = verifies[i].seq + 1
    /\ events' = Append(events, At(verifies[i].seq, "VERIFICATION"))
                 \o (IF recovered THEN <<At(verifies[i].seq + 1, "COMPLETED")>> ELSE <<>>)
    /\ UNCHANGED <<phase, offered, seq, turn, calls, evidence>>

\* A verdict comes back: it is announced, and then that the run is over.
VerifyReports(i, recovered) ==
    /\ verifies[i].status = "settling"
    /\ verifies' = [verifies EXCEPT ![i].status = "over"]
    /\ state' = IF recovered THEN "COMPLETED" ELSE "DEGRADED"
    /\ stepCount' = verifies[i].seq + 1
    /\ events' = events \o <<At(verifies[i].seq, "VERIFICATION"),
                             At(verifies[i].seq + 1, "COMPLETED")>>
    /\ UNCHANGED <<phase, offered, seq, turn, calls, evidence>>

\* Fault: the document is left as it was.
VerifyFails_KeepsState(i) ==
    /\ verifies[i].status = "settling"
    /\ verifies' = [verifies EXCEPT ![i].status = "over"]
    /\ events' = Append(events, At(verifies[i].seq, "DEGRADED"))
    /\ UNCHANGED <<phase, state, offered, stepCount, seq, turn, calls, evidence>>

\* The action-executor cannot be asked: step_count is not moved on, and nothing
\* says that the run is over.
VerifyFails(i) ==
    /\ verifies[i].status = "settling"
    /\ verifies' = [verifies EXCEPT ![i].status = "over"]
    /\ state' = "DEGRADED"
    /\ events' = Append(events, At(verifies[i].seq, "DEGRADED"))
    /\ UNCHANGED <<phase, offered, stepCount, seq, turn, calls, evidence>>

-----------------------------------------------------------------------------
\* The process restarts: run, events, evidence and tasks were only in memory.
Restart ==
    /\ MayRestart
    /\ phase # "lost"
    /\ phase' = "lost"
    /\ state' = "QUEUED"
    /\ offered' = FALSE
    /\ stepCount' = 0
    /\ seq' = 1
    /\ turn' = 0
    /\ calls' = {}
    /\ evidence' = [i \in 1..MaxTurns |-> 0]
    /\ verifies' = <<>>
    /\ events' = <<>>

\* Steps the worker takes by itself, and that no outage holds up for ever: every
\* upstream call has a timeout and every outcome of one is handled.
Progress ==
    \/ Begin \/ Score \/ Project \/ Fail
    \/ \E c \in calls : ToolAnswers(c) \/ ToolFails(c)
    \/ \E i \in DOMAIN verifies :
         \/ VerifyBegins(i)
         \/ \E recovered \in BOOLEAN : VerifyReports(i, recovered)
         \/ VerifyFails(i)

RunNext == Progress \/ ToolCall \/ VerifyRequested \/ Restart

RunSpec == RunInit /\ [][RunNext]_runVars

-----------------------------------------------------------------------------
(* Properties *)

\* The run is well formed: in particular the turns stay under the ceiling and
\* the calls in flight under the agent's parallelism.
RunTypeOK ==
    /\ phase \in Phases /\ state \in RunStates /\ offered \in BOOLEAN
    /\ stepCount \in Nat /\ seq \in Nat
    /\ turn \in 0..MaxTurns
    /\ calls \subseteq 1..turn /\ Cardinality(calls) <= Parallel
    /\ evidence \in [1..MaxTurns -> 0..MaxTurns]
    /\ verifies \in Seq(Verify)
    /\ events \in Seq(Event)

\* A run never rests in VERIFYING: while its document says so some verification is
\* still to report, however many approvals overlapped and however they ended.
VerifyingIsLive == state = "VERIFYING" => \E i \in DOMAIN verifies : VerifyLive(i)

\* The worker is waiting for nothing: no task of the run has a step left.
Idle == phase \in {"concluded", "failed"} /\ \A i \in DOMAIN verifies : ~VerifyLive(i)
=============================================================================
