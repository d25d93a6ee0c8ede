----------------------------- MODULE RenderFarm -----------------------------
(***************************************************************************)
(* One tenant's world of the render farm simulator, and what Grafana       *)
(* answers of it: incidents, rollbacks, resets and control actions change  *)
(* the fleet, and an exporter sends the state of every worker, drained or  *)
(* not, at a fixed interval.                                               *)
(*                                                                         *)
(* Workers are numbered from 1, as their ids are, and none is ever         *)
(* removed, so a fleet is its size and the sets of workers that differ     *)
(* from a fresh one.  A worker's frame duration and GPU load follow from   *)
(* its model, from whether it is degraded and drained, and from the jitter *)
(* of the tick, of which few outcomes are kept.  Throughput, queue and     *)
(* deadline are left to ImpactEngine.  Time is counted in export           *)
(* intervals; of the exports, those are kept that a query can still see.   *)
(***************************************************************************)
EXTENDS FleetStats

CONSTANTS
    NumWorkers,     \* the workers a world starts with
    Incidents,      \* the sets of workers that incidents name, present or not
    Drains,         \* the workers that may be drained
    Added,          \* how many workers a scale-up adds
    Window,         \* how far back a query looks, in export intervals
    CacheAge,       \* how old an answer from the gateway's cache may be
    Jitter,         \* the deviations of a frame duration, in seconds
    MaxTime,        \* bound on the exports
    MaxChanges      \* bound on the incidents, drains and resets

ASSUME FarmAssumption ==
    /\ NumWorkers \in Nat \ {0} /\ Added \in Nat
    /\ Window \in Nat /\ CacheAge \in Nat
    /\ MaxTime \in Nat /\ MaxChanges \in Nat
    /\ Jitter \subseteq 0..2
    /\ Drains \subseteq 1..NumWorkers
    /\ \A ws \in Incidents : ws \subseteq Nat

VARIABLES
    fleet,      \* the workers of the world
    version,    \* the renderer version the world is configured with
    priority,   \* whether sequences were moved to the front of the queue
    loads,      \* how often a new configuration was loaded
    changes,    \* how often the fleet was changed from outside
    time,       \* the export intervals that have passed
    exports     \* what the latest intervals brought to Grafana

world == <<fleet, version, priority, loads, changes>>
farmVars == <<world, time, exports>>

Old == "v2.4.0"
New == "v2.4.1"

\* updated: the workers that run the new version.
Fleet == [size : Nat, degraded : SUBSET Nat, drained : SUBSET Nat, updated : SUBSET Nat]
NoFleet == [size |-> 0, degraded |-> {}, drained |-> {}, updated |-> {}]
Start == [NoFleet EXCEPT !.size = NumWorkers]
Lost == [fleet |-> NoFleet, jitter |-> 0]

\* GPU_PROFILES: the first workers take turns, those added later are of the first model.
Model(i) == IF i > NumWorkers \/ i % 3 = 1 THEN "4090"
            ELSE IF i % 3 = 2 THEN "A100" ELSE "3080"

\* Seconds per frame of worker i of fleet f, with jitter j: the fast models a little
\* faster, the slow one a little slower.
Duration(f, i, j) ==
    IF i \in f.degraded THEN 145
    ELSE IF Model(i) = "4090" THEN 22 - j ELSE IF Model(i) = "A100" THEN 24 ELSE 42 + j

\* Its GPU load in per cent, and the version it runs.
Load(f, i) == IF i \in f.drained THEN 0 ELSE IF i \in f.degraded THEN 28 ELSE 92
VersionOf(f, i) == IF i \in f.updated THEN New ELSE Old

\* _emit_render_trace: the spans of a frame of d seconds, in tenths of a second.
Spans(d) == [render_frame |-> 10 * d, fetch_assets |-> 12, gpu_render |-> 10 * d - 20,
             write_output |-> 8]

FarmInit ==
    /\ fleet = Start
    /\ version = Old
    /\ priority = FALSE
    /\ loads = 0
    /\ changes = 0
    /\ time = 0
    /\ exports = [n \in {} |-> Lost]

Change == changes < MaxChanges /\ changes' = changes + 1

-----------------------------------------------------------------------------
\* Fault: a worker that does not exist is made up.
Stricken_Unchecked(ws) ==
    [fleet EXCEPT !.degraded = @ \cup ws, !.updated = @ \cup ws]

\* trigger_incident: the named workers that exist are degraded and moved to the new
\* version, which the whole world is then configured with.
Stricken(ws) ==
    [fleet EXCEPT !.degraded = @ \cup (ws \cap 1..fleet.size),
                  !.updated = @ \cup (ws \cap 1..fleet.size)]

\* emit_config_event: the log tells of the configuration that was loaded.
ConfigLoaded == loads' = loads + 1

Trigger ==
    /\ Change
    /\ \E ws \in Incidents : fleet' = Stricken(ws)
    /\ version' = New
    /\ ConfigLoaded
    /\ UNCHANGED <<priority, time, exports>>

RolledBack == [fleet EXCEPT !.degraded = {}, !.updated = {}]

\* rollback_renderer: every worker is put back, drained or not.
Rollback ==
    /\ fleet' = RolledBack
    /\ version' = Old
    /\ UNCHANGED <<priority, loads, changes, time, exports>>

\* reset_world: a rollback that restores queue and throughput too.  What was drained,
\* added or reordered stays so.
Reset ==
    /\ Change
    /\ fleet' = RolledBack
    /\ version' = Old
    /\ UNCHANGED <<priority, loads, time, exports>>

\* DRAIN_WORKER
Drain ==
    /\ Change
    /\ \E i \in Drains : fleet' = [fleet EXCEPT !.drained = @ \cup {i}]
    /\ UNCHANGED <<version, priority, loads, time, exports>>

\* SCALE_RENDER_WORKERS: healthy workers with the version of the world.
Scale ==
    /\ LET added == (fleet.size + 1)..(fleet.size + Added)
       IN  fleet' = [fleet EXCEPT !.size = @ + Added,
                                  !.updated = IF version = New THEN @ \cup added ELSE @]
    /\ UNCHANGED <<version, priority, loads, changes, time, exports>>

\* REPRIORITIZE_QUEUE: it is declined when no sequence is named.
Reprioritize(sequences) ==
    /\ priority' = (priority \/ sequences # {})
    /\ UNCHANGED <<fleet, version, loads, changes, time, exports>>

\* An export interval passes: the simulation has ticked, and the exporter sends the
\* state of all workers, which arrives whole or not at all.
Export ==
    /\ time < MaxTime
    /\ time' = time + 1
    /\ \E e \in {[fleet |-> fleet, jitter |-> j] : j \in Jitter} \cup {Lost} :
         exports' = [n \in {n \in DOMAIN exports : n >= time' - Window - CacheAge}
                              \cup {time'} |->
                       IF n = time' THEN e ELSE exports[n]]
    /\ UNCHANGED world

FarmNext == Trigger \/ Reset \/ Drain \/ Export

-----------------------------------------------------------------------------
\* An answer is what Grafana says now, or what it said when the gateway asked it last.
AnswerTimes == {t \in 0..time : t >= time - CacheAge}

\* The exports behind the answer of time t: enforce_recency narrows a query to what
\* was written of late.
Kept(t) == {n \in DOMAIN exports : t - Window <= n /\ n <= t /\ exports[n] # Lost}

\* The rows of that answer: a worker has a series for each version it was seen with,
\* and each series its last sample.
Rows(t) ==
    LET kept == Kept(t)
        row(n, i) == [worker |-> i, version |-> VersionOf(exports[n].fleet, i),
                      load |-> Load(exports[n].fleet, i),
                      duration |-> Duration(exports[n].fleet, i, exports[n].jitter)]
        last(n) == {i \in 1..exports[n].fleet.size :
                      \A m \in kept : m > n =>
                        VersionOf(exports[m].fleet, i) # VersionOf(exports[n].fleet, i)}
    IN  UNION {{row(n, i) : i \in last(n)} : n \in kept}

\* Which workers were degraded in some, and in each, of the exports behind it.
SomeDegraded(t) == UNION {exports[n].fleet.degraded : n \in Kept(t)}
AlwaysDegraded(t) ==
    {i \in SomeDegraded(t) :
        \A n \in Kept(t) : i <= exports[n].fleet.size => i \in exports[n].fleet.degraded}
=============================================================================
