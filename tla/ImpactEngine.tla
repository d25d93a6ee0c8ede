---------------------------- MODULE ImpactEngine ----------------------------
(***************************************************************************)
(* The impact engine's projection: degraded workers are traced through     *)
(* their render jobs to sequences and to deliverables.  Each pool of       *)
(* workers renders one sequence, as the production is seeded; a worker     *)
(* that was added later has no jobs, and every sequence has unfinished     *)
(* shots.  Whether throughput is behind its baseline and whether the queue *)
(* drains too late are inputs.                                             *)
(***************************************************************************)
CONSTANTS
    PoolOf,         \* the sequence each seeded worker renders
    Delivered       \* the sequences that feed a deliverable

\* The sequences that the jobs of the affected workers belong to.
Traced(affected) == {PoolOf[w] : w \in affected \cap DOMAIN PoolOf}

\* Whether a deliverable is at risk: affected work feeds it, and throughput is below
\* nine tenths of the baseline.
AtRisk(affected, behind) == Traced(affected) \cap Delivered # {} /\ behind

\* Whether a delay is reported.  With nothing traced and nothing at risk there is
\* none, however late the queue drains.
Delayed(affected, behind, late) ==
    late /\ (Traced(affected) # {} \/ AtRisk(affected, behind))
=============================================================================
