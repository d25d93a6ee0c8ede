----------------------------- MODULE FleetStats -----------------------------
(***************************************************************************)
(* How investigation and verification alike decide which workers are       *)
(* degraded (services/common/analysis.py): one reading is kept of each     *)
(* worker, and the fleet is cut at the widest gap in frame duration if     *)
(* that gap is at least a factor of two.                                   *)
(***************************************************************************)
EXTENDS Integers, FiniteSets

\* DEGRADATION_FACTOR
Factor == 2

\* values_by_worker: one row per worker.  It keeps the freshest, but all rows of an
\* instant answer carry the time of the query, so of a worker that has two it is
\* whichever the answer lists first.  There are two at most, one for each version.
Readings(rows) ==
    LET workers == {r.worker : r \in rows}
        one == [w \in workers |-> CHOOSE r \in rows : r.worker = w]
        forked == {w \in workers : \E r \in rows : r.worker = w /\ r # one[w]}
        other == [w \in forked |-> CHOOSE r \in rows : r.worker = w /\ r # one[w]]
    IN  {[w \in workers |-> IF w \in ws THEN other[w] ELSE one[w]] : ws \in SUBSET forked}

\* The gaps between neighbouring durations of d, a function on workers.  A gap above
\* a reading of zero or less is passed over.
Gaps(d) ==
    LET values == {d[w] : w \in DOMAIN d}
    IN  {g \in values \X values :
            /\ 0 < g[1] /\ g[1] < g[2]
            /\ \A v \in values : v <= g[1] \/ g[2] <= v}

\* Gap g is chosen over gap h: it is wider by ratio, or as wide and further down.
Wider(g, h) ==
    \/ g[2] * h[1] > h[2] * g[1]
    \/ g[2] * h[1] = h[2] * g[1] /\ g[1] <= h[1]

\* Where the fleet is cut: at its widest gap, if that is wide enough.
Cuts(d) ==
    LET gaps == Gaps(d)
    IN  {g \in gaps : g[2] >= Factor * g[1] /\ \A h \in gaps : Wider(g, h)}

\* Fault: whoever lies above any gap of the factor is degraded.
Degraded_AnyGap(d) ==
    LET gaps == {g \in Gaps(d) : g[2] >= Factor * g[1]}
    IN  {w \in DOMAIN d : \E g \in gaps : d[w] >= g[2]}

\* Fault: a worker is compared with the middle of the fleet.
Degraded_OverMedian(d) ==
    {w \in DOMAIN d :
        2 * Cardinality({v \in DOMAIN d : Factor * d[v] <= d[w]}) > Cardinality(DOMAIN d)}

\* split_degraded: the workers above the cut, if there is one.
Degraded(d) ==
    LET cuts == Cuts(d)
    IN  {w \in DOMAIN d : \E g \in cuts : d[w] >= g[2]}
=============================================================================
