------------------------------ MODULE Incident ------------------------------
(***************************************************************************)
(* One run from its first query to its verdict, over the world it is       *)
(* about: agent-worker gathers evidence through the gateway, scores it,    *)
(* asks the impact engine, and closes the run or offers three remedies;    *)
(* an approved remedy changes the farm, or fails to; and after a settle    *)
(* window the verifier draws a verdict from a fresh look at the fleet.     *)
(* Meanwhile the world goes on: incidents strike, and resets, drains and   *)
(* exports happen between any two steps.                                   *)
(*                                                                         *)
(* The agent chooses its queries: which, in what order, how often, and how *)
(* much of the fleet each selects.  An answer is lasting, so evidence is   *)
(* the last answer to each kind of query.                                  *)
(***************************************************************************)
EXTENDS RenderFarm, ImpactEngine, Hypothesis

CONSTANT Settle         \* the settle window, in export intervals

ASSUME SettleAssumption == Settle \in Nat /\ Settle > Window + CacheAge

VARIABLES
    stage,      \* how far the run is
    evidence,   \* the answers that the scorecard reads
    card,       \* the verdict of the investigation, and the workers it found
    acted,      \* when the remedy was approved
    outcome     \* the status of the verification, and what it rests on

runVars == <<stage, evidence, card, acted, outcome>>
vars == <<farmVars, runVars>>

Stages == {"queued", "gathering", "completed", "awaiting", "verifying", "verified"}
Statuses == {"UNVERIFIED", "NOT_RECOVERED", "PARTIALLY_RECOVERED", "VERIFIED"}

\* What a query for frame durations selects: all workers, those of one version, or a
\* figure that names no worker.
Scopes == {"fleet", "version", "figure"}

NoEvidence == [rows |-> [w \in {} |-> 0], loads |-> 0, stalled |-> {}, loaded |-> 0,
               traces |-> FALSE, scope |-> "figure", some |-> {}, always |-> {}]
NoCard == [verdict |-> "INCONCLUSIVE", affected |-> {}, scope |-> "figure", seen |-> {},
           some |-> {}, always |-> {}]
NoOutcome == [status |-> "UNVERIFIED", basis |-> {}, slow |-> {}, seen |-> {},
              some |-> {}, always |-> {}]

Init ==
    /\ FarmInit
    /\ stage = "queued"
    /\ evidence = NoEvidence
    /\ card = NoCard
    /\ acted = 0
    /\ outcome = NoOutcome

-----------------------------------------------------------------------------
(* Investigation *)

Launch ==
    /\ stage = "queued"
    /\ stage' = "gathering"
    /\ UNCHANGED <<farmVars, evidence, card, acted, outcome>>

Selected(rows, scope) ==
    CASE scope = "fleet" -> rows
      [] scope = "version" -> {r \in rows : r.version = New}
      [] scope = "figure" -> {}

\* A failed query leaves the evidence as it was.
AskDurations ==
    /\ stage = "gathering"
    /\ \E t \in AnswerTimes :
         LET all == Rows(t)
         IN  \E scope \in Scopes : \E rows \in Readings(Selected(all, scope)) :
               evidence' = [evidence EXCEPT
                   !.rows = rows, !.loads = loads, !.scope = scope,
                   !.some = IF scope = "fleet" THEN SomeDegraded(t) ELSE {},
                   !.always = IF scope = "fleet" THEN AlwaysDegraded(t) ELSE {}]
    /\ UNCHANGED <<farmVars, stage, card, acted, outcome>>

AskLoad ==
    /\ stage = "gathering"
    /\ \E t \in AnswerTimes :
         \E low \in {{w \in DOMAIN rows : rows[w].load < 60} : rows \in Readings(Rows(t))} :
           evidence' = [evidence EXCEPT !.stalled = low]
    /\ UNCHANGED <<farmVars, stage, card, acted, outcome>>

\* The log's answer may be a cached one, from before the last load.
AskLog ==
    /\ stage = "gathering"
    /\ \E n \in {loads, loads - 1} \cap Nat : evidence' = [evidence EXCEPT !.loaded = n]
    /\ UNCHANGED <<farmVars, stage, card, acted, outcome>>

\* The search finds nothing, or frames of which one stands for all.
AskTraces ==
    /\ stage = "gathering"
    /\ TracesAvailable
    /\ \E t \in AnswerTimes :
         \E found \in {FALSE} \cup {RenderDominates(Spans(r.duration)) : r \in Rows(t)} :
           evidence' = [evidence EXCEPT !.traces = found]
    /\ UNCHANGED <<farmVars, stage, card, acted, outcome>>

\* Fault: only a deliverable at risk calls for a remedy.
Warranted_AtRisk(affected, atRisk) == atRisk

\* remediation_warranted
Warranted(affected, atRisk) == affected # {} \/ atRisk

\* The agent is done, or out of turns.  The impact engine is asked if throughput and
\* queue were read, and may not answer.  The evidence is not read again.
Conclude ==
    /\ stage = "gathering"
    /\ LET slow == Affected(evidence)
       IN  /\ card' = [verdict |-> Verdict(evidence, slow), affected |-> slow,
                       scope |-> evidence.scope, seen |-> DOMAIN evidence.rows,
                       some |-> evidence.some, always |-> evidence.always]
           /\ \E atRisk \in {FALSE} \cup {AtRisk(slow, b) : b \in BOOLEAN} :
                stage' = IF Warranted(slow, atRisk) THEN "awaiting" ELSE "completed"
    /\ evidence' = NoEvidence
    /\ UNCHANGED <<farmVars, acted, outcome>>

-----------------------------------------------------------------------------
(* Remediation *)

\* A remedy is approved: it is carried out, or refused, or the farm is not reached.
\* Verification follows in any case.
Approve ==
    /\ stage = "awaiting"
    /\ stage' = "verifying"
    /\ acted' = time
    /\ \/ Rollback
       \/ Scale
       \/ \E sequences \in {{}, Traced(card.affected)} : Reprioritize(sequences)
       \/ UNCHANGED farmVars
    /\ UNCHANGED <<evidence, card, outcome>>

\* Fault: the fleet is looked at at once.
Settled_AtOnce == time >= acted

\* The settle window has passed.
Settled == time >= acted + Settle

\* Fault: the verifier tells degraded workers in a way of its own.
StillDegraded_OverMedian(rows) ==
    Degraded_OverMedian([w \in DOMAIN rows |-> rows[w].duration])

\* still_degraded
StillDegraded(rows) == Degraded([w \in DOMAIN rows |-> rows[w].duration])

\* verify_recovery, from its queries on: each may fail, and so may the impact engine.
Status(slow, delayed) ==
    IF slow # {} THEN "NOT_RECOVERED"
    ELSE IF delayed THEN "PARTIALLY_RECOVERED" ELSE "VERIFIED"

Verify ==
    /\ stage = "verifying"
    /\ Settled
    /\ stage' = "verified"
    /\ \/ outcome' = NoOutcome
       \/ \E t \in AnswerTimes, late \in BOOLEAN :
            /\ Rows(t) # {}
            /\ \E rows \in Readings(Rows(t)) :
                 LET slow == StillDegraded(rows)
                     reports == {FALSE} \cup {Delayed(slow, b, late) : b \in BOOLEAN}
                 IN  \E delayed \in reports :
                     outcome' = [status |-> Status(slow, delayed),
                                 basis |-> Kept(t), slow |-> slow, seen |-> DOMAIN rows,
                                 some |-> SomeDegraded(t), always |-> AlwaysDegraded(t)]
    /\ UNCHANGED <<farmVars, evidence, card, acted>>

RunNext ==
    \/ Launch \/ AskDurations \/ AskLoad \/ AskLog \/ AskTraces \/ Conclude
    \/ Approve \/ Verify

\* The world goes on for as long as the run is looking.
Meanwhile == stage \notin {"completed", "verified"} /\ FarmNext /\ UNCHANGED runVars

Next == Meanwhile \/ RunNext

Spec == Init /\ [][Next]_vars

-----------------------------------------------------------------------------
\* A fleet has the workers it started with and those of one scale-up, and says nothing
\* of workers it does not have.
Sizes == {NumWorkers, NumWorkers + Added}
Proper(f) == f \in Fleet /\ f.degraded \cup f.drained \cup f.updated \subseteq 1..f.size

\* The types of all variables: incidents add no workers, and what a run recorded
\* speaks of workers of the fleet.
TypeOK ==
    /\ Proper(fleet) /\ fleet.size \in Sizes
    /\ version \in {Old, New}
    /\ priority \in BOOLEAN
    /\ loads \in 0..changes /\ changes \in 0..MaxChanges
    /\ time \in 0..MaxTime /\ acted \in 0..time
    /\ DOMAIN exports = {n \in 1..time : n >= time - Window - CacheAge}
    /\ \A n \in DOMAIN exports :
         Proper(exports[n].fleet) /\ exports[n].fleet.size \in Sizes \cup {0}
    /\ stage \in Stages
    /\ card.verdict \in Verdicts /\ card.affected \subseteq card.seen
    /\ outcome.status \in Statuses /\ outcome.slow \subseteq outcome.seen
    /\ UNION {DOMAIN evidence.rows, evidence.stalled, card.seen, outcome.seen}
         \subseteq 1..fleet.size

\* An investigation that last read the durations of the whole fleet names no worker
\* that was healthy in all it could see, and misses none that was degraded in all of
\* it, unless there was no healthy worker to tell them from: neither jitter, nor the
\* spread between GPU models, nor the two series of a worker that changed its version
\* mislead split_degraded beyond that.
AffectedMatchFleet ==
    card.scope = "fleet" =>
        /\ card.affected \subseteq card.some
        /\ card.seen \subseteq card.some \/ card.always \subseteq card.affected

Concluded == stage \notin {"queued", "gathering"}

\* The verdict of an investigation and what it does agree, whatever evidence came in:
\* a run that says the regression is supported asks for approval, and one that rules
\* it out does not.
ConclusionAgrees ==
    /\ Concluded /\ card.verdict = "SUPPORTED" => stage # "completed"
    /\ Concluded /\ card.verdict = "REJECTED" => stage = "completed"

\* Every figure a verdict rests on was exported after the remedy: the settle window is
\* longer than an answer can be cached and look back.
VerdictFromNewTelemetry == \A n \in outcome.basis : n > acted

\* A fleet with a worker that has stayed degraded since the remedy is not declared
\* recovered while another is healthy, and a fleet that has been healthy ever since is
\* not declared degraded.
VerdictMatchesFleet ==
    stage = "verified" /\ outcome.basis # {} =>
        /\ outcome.slow \subseteq outcome.some
        /\ \/ outcome.status = "NOT_RECOVERED" \/ outcome.seen \subseteq outcome.some
           \/ outcome.always = {}

\* A partial recovery is never reported: with no worker degraded nothing is traced, so
\* the impact engine reports no delay however late the queue drains (calculator.py), and
\* the verifier's branch for it is dead.  Its comment (verifier.py, "Workers healthy but
\* the deadline still missed is a partial result, not a success") and a test with an
\* impact engine of its own (test_executor.py, "Healthy workers but a missed deadline is
\* partial, not success") say otherwise.
NeverPartial == outcome.status # "PARTIALLY_RECOVERED"
=============================================================================
