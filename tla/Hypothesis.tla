----------------------------- MODULE Hypothesis -----------------------------
(***************************************************************************)
(* The scorecard of an investigation (agent/hypothesis.py): six tests, each *)
(* of which reads the evidence and nothing else, a count of those passed,  *)
(* and a verdict.                                                          *)
(*                                                                         *)
(* The evidence is a record of the last answer that mentions each metric:  *)
(* of frame durations the row of each worker and how many configurations   *)
(* had been loaded by then; of GPU load the workers below six tenths; of   *)
(* the log the newest configuration load it shows, or 0; and of the traces *)
(* whether rendering dominates the spans that were found.                  *)
(***************************************************************************)
EXTENDS FleetStats

CONSTANT TracesAvailable        \* whether traces can be searched

Seconds(ev) == [w \in DOMAIN ev.rows |-> ev.rows[w].duration]
Affected(ev) == Degraded(Seconds(ev))
VersionsOf(ev, ws) == {ev.rows[w].version : w \in ws}

\* In all tests, slow stands for Affected(ev).

\* Did frame duration rise?
Correlation(slow) == slow # {}

\* Did GPU load fall where it rose?
Mechanism(ev, slow) == slow \cap ev.stalled # {}

\* Are the affected workers exactly those on one of several versions?
Localization(ev, slow) ==
    /\ Cardinality(VersionsOf(ev, DOMAIN ev.rows)) >= 2
    /\ \E v \in VersionsOf(ev, slow) : slow = {w \in DOMAIN ev.rows : ev.rows[w].version = v}

\* Was the configuration loaded before the affected workers were read?
Precedence(ev, slow) == ev.loaded # 0 /\ slow # {} /\ ev.loaded <= ev.loads

\* RENDER_SPAN_DOMINANCE: do the spans named for rendering make up half of all?  The
\* frame itself is named for it, too.
RenderDominates(spans) ==
    LET rendering == spans.render_frame + spans.gpu_render
    IN  2 * rendering >= rendering + spans.fetch_assets + spans.write_output

\* Were spans found that it dominates?
Attribution(ev) == ev.traces

\* Are the other workers within a factor of two of each other?
ControlGroup(ev, slow) ==
    /\ DOMAIN ev.rows \ slow # {}
    /\ \A v, w \in DOMAIN ev.rows \ slow :
         0 < ev.rows[v].duration /\ ev.rows[w].duration < Factor * ev.rows[v].duration

Applicable ==
    {"precedence", "correlation", "mechanism", "localization", "control"}
        \cup (IF TracesAvailable THEN {"attribution"} ELSE {})
Passed(ev, slow) ==
    {t \in Applicable :
        \/ t = "precedence" /\ Precedence(ev, slow)
        \/ t = "correlation" /\ Correlation(slow)
        \/ t = "mechanism" /\ Mechanism(ev, slow)
        \/ t = "localization" /\ Localization(ev, slow)
        \/ t = "control" /\ ControlGroup(ev, slow)
        \/ t = "attribution" /\ Attribution(ev)}

\* _medium_threshold: two thirds of the applicable tests, rounded up.
MediumAt(total) == (2 * total + 2) \div 3

Verdict(ev, slow) ==
    IF Cardinality(Passed(ev, slow)) >= MediumAt(Cardinality(Applicable)) THEN "SUPPORTED"
    ELSE IF DOMAIN ev.rows # {} /\ ~Correlation(slow) THEN "REJECTED"
    ELSE "INCONCLUSIVE"
Verdicts == {"SUPPORTED", "REJECTED", "INCONCLUSIVE"}
=============================================================================
