----------------------------- MODULE MCIncident -----------------------------
EXTENDS Incident

\* The slow workers, and one that does not exist as the browser sends; or all A100s.
MCIncidents == {{3, 6, 11}, {2, 5}}
MCDrains == {2}
MCJitter == {2}
MCPoolOf == <<"chase", "chase", "rooftop", "rooftop", "lab", "lab">>
MCDelivered == {"chase", "rooftop"}
=============================================================================
