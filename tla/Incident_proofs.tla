-------------------------- MODULE Incident_proofs --------------------------
(***************************************************************************)
(* Proofs about Incident, for farms of any size, any incidents and drains, *)
(* and any timing that leaves a settle window longer than an answer can    *)
(* look back.  What the cut does to a fleet, and what a query shows of it, *)
(* is settled in lemmas about one answer (SimulatedFleetIsCut,             *)
(* ReadingMatches); the invariant carries them from the query to the       *)
(* verdicts that rest on it.                                               *)
(***************************************************************************)
EXTENDS Incident, FiniteSetTheorems, TLAPS

-----------------------------------------------------------------------------
(* Facts about split_degraded and values_by_worker, for fleets of any size: *)
(* what the cut separates, when nobody is found, and that a fleet with the  *)
(* durations of the simulator is cut exactly where it should be.            *)

\* A nonempty set of bounded numbers has a greatest.
LEMMA Greatest ==
    ASSUME NEW T \in SUBSET Nat, T # {}, NEW N \in Nat, \A x \in T : x <= N
    PROVE  \E m \in T : \A x \in T : x <= m
<1>. DEFINE above == {x..N : x \in T}
<1>1. above \subseteq FiniteSubsetsOf(Nat) /\ above # {}
  <2>1. \A x \in T : x..N \subseteq Nat /\ IsFiniteSet(x..N)
    BY FS_Interval
  <2>. QED
    BY <2>1 DEF FiniteSubsetsOf
<1>2. \A x \in T : x..N \in above
  OBVIOUS
<1>3. \A i \in above : \E x \in T : i = x..N
  OBVIOUS
<1>. HIDE DEF above
<1>4. PICK i \in above : \A j \in above : ~ (<<j, i>> \in StrictSubsetOrdering(Nat))
  BY <1>1, FS_StrictSubsetOrderingWellFounded, WFMin
<1>5. PICK m \in T : i = m..N
  BY <1>3
<1>6. ASSUME NEW x \in T, ~(x <= m)
      PROVE  FALSE
  <2>1. x..N \subseteq m..N /\ m \in m..N /\ m \notin x..N /\ m..N \subseteq Nat
    BY <1>6
  <2>2. <<x..N, m..N>> \in StrictSubsetOrdering(Nat)
    BY <2>1 DEF StrictSubsetOrdering
  <2>. QED
    BY <1>2, <1>4, <1>5, <2>2
<1>. QED
  BY <1>6

-----------------------------------------------------------------------------
\* There is one cut at most, and somebody is at its foot.
LEMMA CutProperties ==
    ASSUME NEW S, NEW d \in [S -> Nat], NEW g \in Cuts(d)
    PROVE  /\ g[1] \in Nat /\ g[2] \in Nat
           /\ 0 < g[1] /\ Factor * g[1] <= g[2]
           /\ \A w \in S : d[w] <= g[1] \/ g[2] <= d[w]
           /\ \E w \in S : d[w] = g[1]
           /\ \A h \in Cuts(d) : h[1] = g[1] /\ h[2] = g[2]
<1>1. \A h \in Cuts(d) :
        /\ h[1] \in Nat /\ h[2] \in Nat /\ 0 < h[1] /\ h[1] < h[2] /\ Factor * h[1] <= h[2]
        /\ \A w \in S : d[w] <= h[1] \/ h[2] <= d[w]
        /\ (\E w \in S : d[w] = h[1]) /\ (\E w \in S : d[w] = h[2])
        /\ \A k \in Cuts(d) : Wider(h, k)
  BY DEF Cuts, Gaps, Factor
<1>2. ASSUME NEW h \in Cuts(d)
      PROVE  h[1] = g[1] /\ h[2] = g[2]
  <2>1. Wider(g, h) /\ Wider(h, g)
    BY <1>1
  <2>2. g[1] \in Nat /\ g[2] \in Nat /\ h[1] \in Nat /\ h[2] \in Nat
    BY <1>1
  <2>3. g[2] * h[1] \in Nat /\ h[2] * g[1] \in Nat
    BY <2>2
  <2>4. h[1] = g[1]
    BY <2>1, <2>2, <2>3 DEF Wider
  <2>5. h[2] <= g[1] \/ g[2] <= h[2]
    BY <1>1
  <2>6. g[2] <= h[1] \/ h[2] <= g[2]
    BY <1>1
  <2>. QED
    BY <1>1, <2>2, <2>4, <2>5, <2>6
<1>. QED
  BY <1>1, <1>2

\* Whoever is found degraded takes at least twice as long as anyone who is not, in a
\* fleet of any size: there is no borderline case (analysis.py, split_degraded).
THEOREM DegradedAreSeparated ==
    ASSUME NEW S, NEW d \in [S -> Nat]
    PROVE  \A w \in Degraded(d), v \in S \ Degraded(d) : Factor * d[v] <= d[w]
<1>. SUFFICES ASSUME NEW w \in Degraded(d), NEW v \in S \ Degraded(d)
              PROVE  Factor * d[v] <= d[w]
  OBVIOUS
<1>1. w \in S /\ v \in S /\ d[w] \in Nat /\ d[v] \in Nat
  BY DEF Degraded
<1>2. PICK g \in Cuts(d) : d[w] >= g[2]
  BY DEF Degraded
<1>3. ~(d[v] >= g[2])
  BY <1>1 DEF Degraded
<1>. QED
  BY <1>1, <1>2, <1>3, CutProperties DEF Factor

\* The fleet is never degraded as a whole: a worker is only degraded beside one that is
\* not.  An incident that strikes every worker is therefore not seen at all.
THEOREM SomeoneIsHealthy ==
    ASSUME NEW S, NEW d \in [S -> Nat], Degraded(d) # {}
    PROVE  Degraded(d) # S
<1>1. PICK w \in Degraded(d) : TRUE
  OBVIOUS
<1>2. PICK g \in Cuts(d) : TRUE
  BY <1>1 DEF Degraded
<1>3. PICK v \in S : d[v] = g[1]
  BY <1>2, CutProperties
<1>4. v \notin Degraded(d)
  <2>1. g[1] \in Nat /\ g[2] \in Nat /\ 0 < g[1] /\ Factor * g[1] <= g[2]
    BY CutProperties
  <2>2. \A h \in Cuts(d) : h[2] = g[2]
    BY CutProperties
  <2>. QED
    BY <1>3, <2>1, <2>2 DEF Degraded, Factor
<1>. QED
  BY <1>4

-----------------------------------------------------------------------------
\* A fleet of the simulator: the durations of degraded workers, of healthy workers of
\* the fast models, and of healthy ones of the slow model, which come with a worker that
\* lies between.
Simulated(S, d) ==
    /\ \A w \in S : d[w] \in {145} \cup 20..24 \cup 42..44
    /\ (\E w \in S : d[w] \in 42..44) => \E w \in S : d[w] \in {24, 145}

\* The gap below the degraded workers.
LEMMA TopGap ==
    ASSUME NEW S, NEW d \in [S -> Nat], Simulated(S, d),
           NEW w \in S, d[w] = 145, NEW v \in S, d[v] # 145
    PROVE  \E g \in Gaps(d) :
             g[2] = 145 /\ g[1] \in 20..44 /\ \A u \in S : d[u] = 145 \/ d[u] <= g[1]
<1>. DEFINE T == {d[u] : u \in S} \ {145}
<1>1. T \subseteq Nat /\ T # {} /\ \A x \in T : x \in 20..44
  BY DEF Simulated
<1>2. \A u \in S : d[u] = 145 \/ d[u] \in T
  OBVIOUS
<1>3. \A x \in T : \E u \in S : x = d[u]
  OBVIOUS
<1>. HIDE DEF T
<1>4. PICK m \in T : \A x \in T : x <= m
  <2>1. T \in SUBSET Nat /\ 44 \in Nat /\ \A x \in T : x <= 44
    BY <1>1
  <2>2. T # {}
    BY <1>1
  <2>. QED
    BY ONLY <2>1, <2>2, Greatest, Zenon
<1>5. <<m, 145>> \in Gaps(d)
  BY <1>1, <1>2, <1>3, <1>4 DEF Gaps
<1>. QED
  BY <1>1, <1>2, <1>4, <1>5

\* Every gap of a simulated fleet that does not end at the degraded workers is narrower
\* than any that does.
LEMMA TopGapIsWidest ==
    ASSUME NEW a \in 20..44, NEW b \in 20..44, NEW m \in 20..44
    PROVE  b * m < 145 * a
<1>1. b * m <= 44 * 44
  <2>1. b * m <= b * 44
    OBVIOUS
  <2>. QED
    BY <2>1
<1>. QED
  BY <1>1

\* split_degraded finds exactly the degraded workers of a simulated fleet, unless no
\* worker is healthy: then it finds none.
LEMMA SimulatedFleetIsCut ==
    ASSUME NEW S, NEW d \in [S -> Nat], Simulated(S, d)
    PROVE  /\ \A w \in Degraded(d) : w \in S /\ d[w] = 145
           /\ (\E v \in S : d[v] # 145) => \A w \in S : d[w] = 145 => w \in Degraded(d)
<1>1. \A g \in Gaps(d) :
        /\ g[1] \in 20..44 /\ g[2] \in 20..44 \cup {145} /\ g[1] < g[2]
        /\ \A u \in S : d[u] <= g[1] \/ g[2] <= d[u]
        /\ (\E u \in S : d[u] = g[1]) /\ \E u \in S : d[u] = g[2]
  BY DEF Gaps, Simulated
<1>2. ASSUME NEW w \in Degraded(d)
      PROVE  w \in S /\ d[w] = 145
  <2>1. w \in S
    BY DEF Degraded
  <2>2. PICK g \in Cuts(d) : d[w] >= g[2]
    BY DEF Degraded
  <2>3. g \in Gaps(d) /\ g[2] >= 2 * g[1]
    BY DEF Cuts, Factor
  <2>4. SUFFICES ASSUME d[w] # 145
                 PROVE  FALSE
    BY <2>1
  <2>5. g[2] \in 42..44 /\ g[1] \in 20..22
    BY <1>1, <2>1, <2>2, <2>3, <2>4 DEF Simulated
  <2>6. CASE \E u \in S : d[u] = 145
    <3>1. PICK h \in Gaps(d) : h[2] = 145 /\ h[1] \in 20..44
      BY <2>1, <2>4, <2>6, TopGap
    <3>2. Wider(g, h)
      BY DEF Cuts
    <3>3. g[2] * h[1] < 145 * g[1]
      BY <2>5, <3>1, TopGapIsWidest
    <3>4. g[2] * h[1] \in Nat /\ 145 * g[1] \in Nat
      BY <2>5, <3>1
    <3>. QED
      BY <3>1, <3>2, <3>3, <3>4 DEF Wider
  <2>7. CASE ~ \E u \in S : d[u] = 145
    <3>1. PICK u \in S : d[u] = 24
      BY <1>1, <2>3, <2>5, <2>7 DEF Simulated
    <3>. QED
      BY <1>1, <2>3, <2>5, <3>1
  <2>. QED
    BY <2>6, <2>7
<1>3. ASSUME NEW v \in S, d[v] # 145, NEW w \in S, d[w] = 145
      PROVE  w \in Degraded(d)
  <2>1. PICK g \in Gaps(d) :
          g[2] = 145 /\ g[1] \in 20..44 /\ \A u \in S : d[u] = 145 \/ d[u] <= g[1]
    BY <1>3, TopGap
  <2>2. ASSUME NEW h \in Gaps(d)
        PROVE  Wider(g, h)
    <3>1. CASE h[2] = 145
      <4>1. h[1] = g[1]
        <5>1. h[1] <= g[1]
          BY <1>1, <2>1, <3>1
        <5>2. g[1] <= h[1]
          BY <1>1, <2>1, <3>1
        <5>. QED
          BY <1>1, <2>1, <5>1, <5>2
      <4>. QED
        BY <1>1, <2>1, <3>1, <4>1 DEF Wider
    <3>2. CASE h[2] # 145
      <4>1. h[1] \in 20..44 /\ h[2] \in 20..44 /\ g[1] \in 20..44
        BY <1>1, <2>1, <3>2
      <4>2. h[2] * g[1] < 145 * h[1]
        BY <4>1, TopGapIsWidest
      <4>. QED
        BY <2>1, <4>1, <4>2 DEF Wider
    <3>. QED
      BY <3>1, <3>2
  <2>3. g \in Cuts(d)
    BY <2>1, <2>2 DEF Cuts, Factor
  <2>. QED
    BY <1>3, <2>1, <2>3 DEF Degraded
<1>. QED
  BY <1>2, <1>3

-----------------------------------------------------------------------------
\* values_by_worker keeps one of the rows of every worker that has any.
LEMMA ReadingsProperty ==
    ASSUME NEW rows, NEW r \in Readings(rows)
    PROVE  /\ DOMAIN r = {x.worker : x \in rows}
           /\ \A w \in DOMAIN r : r[w] \in rows /\ r[w].worker = w
<1>. DEFINE workers == {x.worker : x \in rows}
            one == [w \in workers |-> CHOOSE x \in rows : x.worker = w]
            forked == {w \in workers : \E x \in rows : x.worker = w /\ x # one[w]}
            other == [w \in forked |-> CHOOSE x \in rows : x.worker = w /\ x # one[w]]
<1>1. \A w \in workers : one[w] \in rows /\ one[w].worker = w
  OBVIOUS
<1>2. \A w \in forked : other[w] \in rows /\ other[w].worker = w
  OBVIOUS
<1>3. PICK ws \in SUBSET forked :
        r = [w \in workers |-> IF w \in ws THEN other[w] ELSE one[w]]
  BY DEF Readings
<1>. HIDE DEF one, other
<1>. QED
  BY <1>1, <1>2, <1>3

-----------------------------------------------------------------------------
(* The farm and the run *)

\* What an export that arrived may say: the state of a fleet no larger than today's.
Exported(e) ==
    /\ e.jitter \in Jitter
    /\ Proper(e.fleet) /\ e.fleet.size \in Sizes
    /\ NumWorkers <= e.fleet.size /\ e.fleet.size <= fleet.size

\* The fleet only grows, and the exports show it in order.
FarmHistory ==
    /\ Proper(fleet) /\ NumWorkers <= fleet.size /\ fleet.size \in Sizes
    /\ time \in Nat
    /\ DOMAIN exports = {n \in 1..time : n >= time - Window - CacheAge}
    /\ \A n \in DOMAIN exports : exports[n] = Lost \/ Exported(exports[n])
    /\ \A m, n \in DOMAIN exports :
         m < n /\ exports[m] # Lost /\ exports[n] # Lost =>
             exports[m].fleet.size <= exports[n].fleet.size

\* The workers in slow agree with what was seen of the fleet.
Match(slow, seen, some, always) ==
    /\ slow \subseteq seen
    /\ slow \subseteq some
    /\ seen \subseteq some \/ always \subseteq slow

-----------------------------------------------------------------------------
\* Every row shows a worker as one of the exports had it.
LEMMA RowsFacts ==
    ASSUME FarmHistory, NEW t \in Nat, NEW x \in Rows(t)
    PROVE  \E n \in Kept(t) :
             /\ x.worker \in 1..exports[n].fleet.size
             /\ x.duration = Duration(exports[n].fleet, x.worker, exports[n].jitter)
BY DEF Rows

\* An answer has a row of every worker that one of the exports behind it shows.
LEMMA EveryWorkerHasRow ==
    ASSUME FarmAssumption, FarmHistory, NEW t \in Nat, NEW n \in Kept(t),
           NEW i \in 1..exports[n].fleet.size
    PROVE  \E x \in Rows(t) : x.worker = i
<1>1. /\ Kept(t) \in SUBSET Nat /\ Kept(t) # {} /\ \A k \in Kept(t) : k <= t
      /\ Kept(t) \subseteq DOMAIN exports
      /\ \A k \in Kept(t) : exports[k] # Lost /\ Exported(exports[k])
  BY DEF FarmHistory, Kept
<1>2. PICK m \in Kept(t) : \A k \in Kept(t) : k <= m
  BY ONLY <1>1, Greatest, t \in Nat, Zenon
<1>3. exports[n].fleet.size <= exports[m].fleet.size
  <2>1. n = m \/ n < m
    BY <1>1, <1>2
  <2>. QED
    BY <1>1, <1>2, <2>1 DEF FarmHistory, Exported, Proper, Fleet
<1>4. i \in 1..exports[m].fleet.size
  BY <1>1, <1>3 DEF Exported, Proper, Fleet
<1>5. \A k \in Kept(t) : ~(k > m)
  BY <1>1, <1>2
<1>. DEFINE x == [worker |-> i, version |-> VersionOf(exports[m].fleet, i),
                  load |-> Load(exports[m].fleet, i),
                  duration |-> Duration(exports[m].fleet, i, exports[m].jitter)]
<1>6. x \in Rows(t)
  BY <1>4, <1>5 DEF Rows
<1>7. x.worker = i
  OBVIOUS
<1>. QED
  BY <1>6, <1>7

\* The durations a healthy and a degraded worker can have.
LEMMA Durations ==
    ASSUME FarmAssumption, NEW f, NEW i \in Nat \ {0}, NEW j \in Jitter
    PROVE  /\ i \in f.degraded => Duration(f, i, j) = 145
           /\ i \notin f.degraded => Duration(f, i, j) \in 20..24 \cup 42..44
           /\ Duration(f, i, j) \in 42..44 => 2 <= NumWorkers
           /\ i = 2 /\ 2 <= NumWorkers => Duration(f, i, j) \in {24, 145}
<1>1. j \in 0..2 /\ NumWorkers \in Nat
  BY DEF FarmAssumption
<1>2. Model(1) = "4090"
  BY DEF Model
<1>3. 2 <= NumWorkers => Model(2) = "A100"
  BY <1>1 DEF Model
<1>4. Model(i) \notin {"4090", "A100"} => i <= NumWorkers
  BY <1>1 DEF Model
<1>5. Model(i) \notin {"4090", "A100"} => 2 <= NumWorkers
  BY <1>1, <1>2, <1>4
<1>. QED
  BY <1>1, <1>3, <1>5 DEF Duration

\* What a reading of the whole fleet finds agrees with the exports behind it.
LEMMA ReadingMatches ==
    ASSUME FarmAssumption, FarmHistory, NEW t \in Nat, NEW rows \in Readings(Rows(t))
    PROVE  LET d == [w \in DOMAIN rows |-> rows[w].duration]
           IN  Match(Degraded(d), DOMAIN rows, SomeDegraded(t), AlwaysDegraded(t))
<1>. DEFINE S == DOMAIN rows
            d == [w \in S |-> rows[w].duration]
            From(w, n) == /\ n \in Kept(t) /\ w \in 1..exports[n].fleet.size
                          /\ rows[w].duration = Duration(exports[n].fleet, w, exports[n].jitter)
<1>1. \A w \in S : \E n : From(w, n)
  <2>1. \A w \in S : rows[w] \in Rows(t) /\ rows[w].worker = w
    BY ReadingsProperty
  <2>. QED
    BY <2>1, RowsFacts
<1>2. \A n \in Kept(t) : /\ exports[n].jitter \in Jitter /\ exports[n].fleet.size \in Nat
                         /\ exports[n].fleet.degraded \subseteq 1..exports[n].fleet.size
                         /\ NumWorkers <= exports[n].fleet.size
  BY DEF FarmHistory, Kept, Exported, Proper, Fleet
<1>3. ASSUME NEW n \in Kept(t), NEW i \in 1..exports[n].fleet.size
      PROVE  i \in S
  <2>1. PICK x \in Rows(t) : x.worker = i
    BY EveryWorkerHasRow
  <2>2. S = {y.worker : y \in Rows(t)}
    BY ReadingsProperty
  <2>. QED
    BY <2>1, <2>2
<1>4. ASSUME NEW w, NEW n, From(w, n)
      PROVE  /\ w \in exports[n].fleet.degraded => rows[w].duration = 145
             /\ w \notin exports[n].fleet.degraded => rows[w].duration \in 20..24 \cup 42..44
             /\ rows[w].duration \in 42..44 => 2 <= NumWorkers
             /\ w = 2 /\ 2 <= NumWorkers => rows[w].duration \in {24, 145}
  <2>1. w \in Nat \ {0} /\ exports[n].jitter \in Jitter
    BY <1>2, <1>4
  <2>. DEFINE f == exports[n].fleet
              j == exports[n].jitter
  <2>2. /\ w \in f.degraded => Duration(f, w, j) = 145
        /\ w \notin f.degraded => Duration(f, w, j) \in 20..24 \cup 42..44
        /\ Duration(f, w, j) \in 42..44 => 2 <= NumWorkers
        /\ w = 2 /\ 2 <= NumWorkers => Duration(f, w, j) \in {24, 145}
    <3>. HIDE DEF f, From
    <3>. QED
      BY <2>1, Durations
  <2>. QED
    BY <1>4, <2>2
<1>5. d \in [S -> Nat] /\ Simulated(S, d)
  <2>1. \A w \in S : d[w] = rows[w].duration /\ d[w] \in {145} \cup 20..24 \cup 42..44
    BY <1>1, <1>4
  <2>2. ASSUME NEW w \in S, d[w] \in 42..44
        PROVE  \E v \in S : d[v] \in {24, 145}
    <3>1. PICK n : From(w, n)
      BY <1>1
    <3>2. 2 <= NumWorkers /\ NumWorkers \in Nat
      BY <1>4, <2>2, <3>1 DEF FarmAssumption
    <3>3. 2 \in S
      BY <1>2, <1>3, <3>1, <3>2
    <3>4. d[2] \in {24, 145}
      BY <1>1, <1>4, <3>2, <3>3
    <3>. QED
      BY <3>3, <3>4
  <2>. QED
    BY <2>1, <2>2 DEF Simulated
<1>6. /\ \A w \in Degraded(d) : w \in S /\ d[w] = 145
      /\ (\E v \in S : d[v] # 145) => \A w \in S : d[w] = 145 => w \in Degraded(d)
  <2>. HIDE DEF S, d
  <2>. QED
    BY <1>5, SimulatedFleetIsCut
<1>7. ASSUME NEW w \in S, rows[w].duration = 145
      PROVE  w \in SomeDegraded(t)
  <2>1. PICK n : From(w, n)
    BY <1>1
  <2>2. w \in exports[n].fleet.degraded
    BY <1>4, <1>7, <2>1
  <2>. QED
    BY <2>1, <2>2 DEF SomeDegraded
<1>8. ASSUME NEW w \in AlwaysDegraded(t)
      PROVE  w \in S /\ rows[w].duration = 145
  <2>1. PICK n \in Kept(t) : w \in exports[n].fleet.degraded
    BY DEF AlwaysDegraded, SomeDegraded
  <2>2. w \in S
    BY <1>2, <1>3, <2>1
  <2>3. PICK m : From(w, m)
    BY <1>1, <2>2
  <2>4. w \in exports[m].fleet.degraded
    BY <1>2, <2>3 DEF AlwaysDegraded
  <2>. QED
    BY <1>4, <2>2, <2>3, <2>4
<1>9. ASSUME NEW v \in S, v \notin SomeDegraded(t)
      PROVE  AlwaysDegraded(t) \subseteq Degraded(d)
  BY <1>6, <1>7, <1>8, <1>9
<1>. HIDE DEF S
<1>10. Degraded(d) \subseteq S /\ Degraded(d) \subseteq SomeDegraded(t)
  BY <1>6, <1>7
<1>. QED
  BY <1>9, <1>10 DEF S, Match

-----------------------------------------------------------------------------
FarmTypes ==
    /\ version \in {Old, New} /\ priority \in BOOLEAN
    /\ loads \in 0..changes /\ changes \in 0..MaxChanges /\ time \in 0..MaxTime

\* A step that changes the fleet and exports nothing.
LEMMA FleetChanges ==
    ASSUME FarmAssumption, FarmHistory, UNCHANGED <<time, exports>>,
           Proper(fleet'), fleet.size <= fleet'.size, fleet'.size \in Sizes
    PROVE  FarmHistory'
<1>1. fleet.size \in Nat /\ fleet'.size \in Nat /\ NumWorkers \in Nat
  BY DEF FarmHistory, Proper, Fleet, FarmAssumption
<1>2. Proper(fleet)' /\ NumWorkers <= fleet'.size
  BY <1>1 DEF FarmHistory, Proper
<1>3. ASSUME NEW e, Exported(e)
      PROVE  Exported(e)'
  <2>1. e.fleet.size \in Nat /\ e.fleet.size <= fleet'.size
    BY <1>1, <1>3 DEF Exported, Proper, Fleet
  <2>. QED
    BY <1>3, <2>1 DEF Exported, Proper
<1>4. \A n \in DOMAIN exports : exports[n] = Lost \/ Exported(exports[n])'
  BY <1>3 DEF FarmHistory
<1>. QED
  BY <1>2, <1>4 DEF FarmHistory

\* What the operators on fleets return.
LEMMA FleetsAreProper ==
    ASSUME FarmAssumption, FarmHistory
    PROVE  /\ Proper(RolledBack) /\ RolledBack.size = fleet.size
           /\ \A ws : Proper(Stricken(ws)) /\ Stricken(ws).size = fleet.size
           /\ \A i \in Drains : LET f == [fleet EXCEPT !.drained = @ \cup {i}]
                               IN  Proper(f) /\ f.size = fleet.size
           /\ LET added == (fleet.size + 1)..(fleet.size + Added)
                  f == [fleet EXCEPT !.size = @ + Added,
                                     !.updated = IF version = New THEN @ \cup added ELSE @]
              IN  Proper(f) /\ f.size = fleet.size + Added
<1>1. /\ Proper(fleet) /\ NumWorkers <= fleet.size /\ fleet \in Fleet /\ fleet.size \in Nat
      /\ Drains \subseteq 1..NumWorkers /\ NumWorkers \in Nat /\ Added \in Nat
  BY DEF FarmHistory, Proper, Fleet, FarmAssumption
<1>2. Proper(RolledBack) /\ RolledBack.size = fleet.size
  BY <1>1 DEF RolledBack, Proper, Fleet
<1>3. ASSUME NEW ws
      PROVE  Proper(Stricken(ws)) /\ Stricken(ws).size = fleet.size
  <2>. DEFINE struck == ws \cap 1..fleet.size
              f == [fleet EXCEPT !.degraded = @ \cup struck, !.updated = @ \cup struck]
  <2>1. struck \subseteq 1..fleet.size /\ struck \subseteq Nat
    BY <1>1
  <2>. HIDE DEF struck
  <2>2. /\ f.size = fleet.size /\ f.drained = fleet.drained
        /\ f.degraded = fleet.degraded \cup struck /\ f.updated = fleet.updated \cup struck
    BY <1>1 DEF Fleet
  <2>3. f \in Fleet
    BY <1>1, <2>1 DEF Fleet
  <2>4. Proper(f)
    BY <1>1, <2>1, <2>2, <2>3 DEF Proper
  <2>5. Stricken(ws) = f
    BY DEF Stricken, struck
  <2>. QED
    BY <2>2, <2>4, <2>5
<1>4. ASSUME NEW i \in Drains
      PROVE  LET f == [fleet EXCEPT !.drained = @ \cup {i}]
             IN  Proper(f) /\ f.size = fleet.size
  <2>1. i \in 1..fleet.size
    BY <1>1
  <2>. QED
    BY <1>1, <2>1 DEF Proper, Fleet
<1>5. LET added == (fleet.size + 1)..(fleet.size + Added)
          f == [fleet EXCEPT !.size = @ + Added,
                             !.updated = IF version = New THEN @ \cup added ELSE @]
      IN  Proper(f) /\ f.size = fleet.size + Added
  <2>. DEFINE added == (fleet.size + 1)..(fleet.size + Added)
              f == [fleet EXCEPT !.size = @ + Added,
                                 !.updated = IF version = New THEN @ \cup added ELSE @]
  <2>1. /\ 1..fleet.size \subseteq 1..(fleet.size + Added) /\ fleet.size + Added \in Nat
        /\ added \subseteq 1..(fleet.size + Added)
    BY <1>1
  <2>2. \/ f = [fleet EXCEPT !.size = @ + Added, !.updated = @ \cup added]
        \/ f = [fleet EXCEPT !.size = @ + Added, !.updated = @]
    OBVIOUS
  <2>. HIDE DEF f, added
  <2>3. ASSUME NEW up \in {fleet.updated, fleet.updated \cup added},
               f = [fleet EXCEPT !.size = @ + Added, !.updated = up]
        PROVE  Proper(f) /\ f.size = fleet.size + Added
    <3>1. up \subseteq 1..(fleet.size + Added) /\ up \in SUBSET Nat
      <4>1. fleet.updated \subseteq 1..(fleet.size + Added)
        BY <1>1, <2>1 DEF Proper
      <4>2. up \subseteq 1..(fleet.size + Added)
        BY <2>1, <4>1
      <4>. QED
        BY <2>1, <4>2
    <3>2. /\ f.size = fleet.size + Added /\ f.updated = up
          /\ f.degraded = fleet.degraded /\ f.drained = fleet.drained
      BY <1>1, <2>3 DEF Fleet
    <3>3. \A n \in Nat : [fleet EXCEPT !.size = n, !.updated = up] \in Fleet
      BY <1>1, <3>1 DEF Fleet
    <3>4. f \in Fleet
      BY <2>1, <2>3, <3>3
    <3>. QED
      BY <1>1, <2>1, <3>1, <3>2, <3>4 DEF Proper
  <2>. QED
    BY <2>2, <2>3 DEF f, added
<1>. QED
  BY <1>2, <1>3, <1>4, <1>5

\* An export interval passes.
LEMMA ExportHistory ==
    ASSUME FarmAssumption, FarmHistory, Export
    PROVE  FarmHistory'
<1>1. /\ time \in Nat /\ time' = time + 1 /\ UNCHANGED fleet
      /\ Window \in Nat /\ CacheAge \in Nat
      /\ DOMAIN exports = {n \in 1..time : n >= time - Window - CacheAge}
  BY DEF FarmHistory, Export, world, FarmAssumption
<1>2. PICK e \in {[fleet |-> fleet, jitter |-> j] : j \in Jitter} \cup {Lost} :
        exports' = [n \in {n \in DOMAIN exports : n >= time' - Window - CacheAge}
                              \cup {time'} |-> IF n = time' THEN e ELSE exports[n]]
  BY DEF Export
<1>3. e = Lost \/ (Exported(e) /\ e.fleet = fleet)
  BY DEF Exported, FarmHistory, Proper, Fleet
<1>4. /\ DOMAIN exports' = {n \in DOMAIN exports : n >= time' - Window - CacheAge} \cup {time'}
      /\ \A n \in DOMAIN exports' : exports'[n] = IF n = time' THEN e ELSE exports[n]
  BY <1>2
<1>5. DOMAIN exports' = {n \in 1..time' : n >= time' - Window - CacheAge}
  BY <1>1, <1>4
<1>6. \A n \in DOMAIN exports' : exports'[n] = Lost \/ Exported(exports'[n])
  BY <1>1, <1>3, <1>4 DEF FarmHistory
<1>7. \A x : Exported(x)' <=> Exported(x)
  BY <1>1 DEF Exported, Proper
<1>8. ASSUME NEW m \in DOMAIN exports', NEW n \in DOMAIN exports',
             m < n, exports'[m] # Lost, exports'[n] # Lost
      PROVE  exports'[m].fleet.size <= exports'[n].fleet.size
  <2>1. m # time' /\ m \in DOMAIN exports
    BY <1>1, <1>4, <1>5, <1>8
  <2>2. CASE n = time'
    BY <1>1, <1>3, <1>4, <1>8, <2>1, <2>2 DEF FarmHistory, Exported
  <2>3. CASE n # time'
    BY <1>4, <1>8, <2>1, <2>3 DEF FarmHistory
  <2>. QED
    BY <2>2, <2>3
<1>. QED
  BY <1>1, <1>5, <1>6, <1>7, <1>8 DEF FarmHistory, Proper

\* What the world does by itself: the fleet keeps its size.
LEMMA FarmMoves ==
    ASSUME FarmAssumption, FarmHistory, FarmTypes, FarmNext
    PROVE  FarmHistory' /\ FarmTypes' /\ fleet'.size = fleet.size /\ time' >= time
<1>1. /\ fleet.size \in Nat /\ fleet.size \in Sizes /\ time \in Nat
      /\ MaxChanges \in Nat /\ MaxTime \in Nat
  BY DEF FarmHistory, Proper, Fleet, FarmAssumption
<1>2. CASE Trigger
  <2>1. Proper(fleet') /\ fleet'.size = fleet.size /\ UNCHANGED <<time, exports>>
    BY <1>2, FleetsAreProper DEF Trigger
  <2>2. FarmHistory'
    BY <1>1, <2>1, FleetChanges
  <2>. QED
    BY <1>1, <1>2, <2>1, <2>2 DEF Trigger, Change, ConfigLoaded, FarmTypes
<1>3. CASE Reset
  <2>1. Proper(fleet') /\ fleet'.size = fleet.size /\ UNCHANGED <<time, exports>>
    BY <1>3, FleetsAreProper DEF Reset
  <2>2. FarmHistory'
    BY <1>1, <2>1, FleetChanges
  <2>. QED
    BY <1>1, <1>3, <2>1, <2>2 DEF Reset, Change, FarmTypes
<1>4. CASE Drain
  <2>1. Proper(fleet') /\ fleet'.size = fleet.size /\ UNCHANGED <<time, exports>>
    BY <1>4, FleetsAreProper DEF Drain
  <2>2. FarmHistory'
    BY <1>1, <2>1, FleetChanges
  <2>. QED
    BY <1>1, <1>4, <2>1, <2>2 DEF Drain, Change, FarmTypes
<1>5. CASE Export
  BY <1>1, <1>5, ExportHistory DEF Export, world, FarmTypes
<1>. QED
  BY <1>2, <1>3, <1>4, <1>5 DEF FarmNext

-----------------------------------------------------------------------------
\* Every row is of a worker of the fleet.
LEMMA ReadingsInFleet ==
    ASSUME FarmHistory, NEW t \in Nat, NEW all \in SUBSET Rows(t), NEW rows \in Readings(all)
    PROVE  DOMAIN rows \subseteq 1..fleet.size
<1>1. ASSUME NEW w \in DOMAIN rows
      PROVE  w \in 1..fleet.size
  <2>1. rows[w] \in Rows(t) /\ rows[w].worker = w
    BY ReadingsProperty
  <2>2. PICK n \in Kept(t) : w \in 1..exports[n].fleet.size
    BY <2>1, RowsFacts
  <2>3. Exported(exports[n]) /\ Proper(fleet)
    BY DEF FarmHistory, Kept
  <2>. QED
    BY <2>2, <2>3 DEF Exported, Proper, Fleet
<1>. QED
  BY <1>1

\* Without a degraded worker too few tests pass to support the hypothesis, and with one
\* it is not ruled out.
LEMMA VerdictFacts ==
    ASSUME NEW ev, NEW slow
    PROVE  /\ Verdict(ev, slow) \in Verdicts
           /\ slow = {} => Verdict(ev, slow) # "SUPPORTED"
           /\ slow # {} => Verdict(ev, slow) # "REJECTED"
<1>1. slow # {} => Verdict(ev, slow) # "REJECTED"
  BY DEF Verdict, Correlation
<1>2. ASSUME slow = {}
      PROVE  Verdict(ev, slow) # "SUPPORTED"
  <2>1. Passed(ev, slow) \subseteq {"control", "attribution"}
    BY <1>2 DEF Passed, Applicable, Precedence, Correlation, Mechanism, Localization, VersionsOf
  <2>2. /\ IsFiniteSet({"control", "attribution"})
        /\ Cardinality({"control", "attribution"}) = 2
    <3>1. IsFiniteSet({"control"}) /\ Cardinality({"control"}) = 1
      BY FS_Singleton
    <3>2. /\ {"control", "attribution"} = {"control"} \cup {"attribution"}
          /\ "attribution" \notin {"control"}
      OBVIOUS
    <3>. QED
      BY <3>1, <3>2, FS_AddElement
  <2>3. Cardinality(Passed(ev, slow)) \in Nat /\ Cardinality(Passed(ev, slow)) <= 2
    BY <2>1, <2>2, FS_Subset, FS_CardinalityType
  <2>4. Cardinality(Applicable) \in {5, 6}
    <3>. DEFINE five == {"precedence", "correlation", "mechanism", "localization", "control"}
    <3>1. IsFiniteSet(five) /\ Cardinality(five) = 5
      <4>1. IsFiniteSet({"precedence"}) /\ Cardinality({"precedence"}) = 1
        BY FS_Singleton
      <4>2. /\ IsFiniteSet({"precedence", "correlation"})
            /\ Cardinality({"precedence", "correlation"}) = 2
        <5>1. /\ {"precedence", "correlation"} = {"precedence"} \cup {"correlation"}
              /\ "correlation" \notin {"precedence"}
          OBVIOUS
        <5>. QED
          BY <4>1, <5>1, FS_AddElement
      <4>3. /\ IsFiniteSet({"precedence", "correlation", "mechanism"})
            /\ Cardinality({"precedence", "correlation", "mechanism"}) = 3
        <5>1. {"precedence", "correlation", "mechanism"}
                = {"precedence", "correlation"} \cup {"mechanism"}
          OBVIOUS
        <5>. QED
          BY <4>2, <5>1, FS_AddElement
      <4>4. /\ IsFiniteSet({"precedence", "correlation", "mechanism", "localization"})
            /\ Cardinality({"precedence", "correlation", "mechanism", "localization"}) = 4
        <5>1. {"precedence", "correlation", "mechanism", "localization"}
                = {"precedence", "correlation", "mechanism"} \cup {"localization"}
          OBVIOUS
        <5>. QED
          BY <4>3, <5>1, FS_AddElement
      <4>5. five = {"precedence", "correlation", "mechanism", "localization"} \cup {"control"}
        OBVIOUS
      <4>. QED
        BY <4>4, <4>5, FS_AddElement
    <3>2. Applicable = five \/ Applicable = five \cup {"attribution"}
      BY DEF Applicable
    <3>3. "attribution" \notin five
      OBVIOUS
    <3>. HIDE DEF five
    <3>. QED
      BY <3>1, <3>2, <3>3, FS_AddElement
  <2>5. MediumAt(Cardinality(Applicable)) = 4
    BY <2>4 DEF MediumAt
  <2>. QED
    BY <2>3, <2>5 DEF Verdict
<1>. QED
  BY <1>1, <1>2 DEF Verdict, Verdicts

\* With no worker degraded nothing is traced: no deliverable is at risk or delayed.
LEMMA NothingTraced ==
    ASSUME NEW b \in BOOLEAN, NEW late \in BOOLEAN
    PROVE  AtRisk({}, b) = FALSE /\ Delayed({}, b, late) = FALSE
BY DEF AtRisk, Delayed, Traced

-----------------------------------------------------------------------------
EvidenceFields == {"rows", "loads", "stalled", "loaded", "traces", "scope", "some", "always"}

RunTypes ==
    /\ stage \in Stages /\ acted \in 0..time
    /\ stage \notin {"verifying", "verified"} => fleet.size = NumWorkers
    /\ card.verdict \in Verdicts /\ outcome.status \in Statuses
    /\ DOMAIN evidence = EvidenceFields
    /\ UNION {DOMAIN evidence.rows, evidence.stalled, card.seen, outcome.seen}
         \subseteq 1..fleet.size

\* What is recorded of the fleet's durations agrees with the exports it was read from.
EvidenceSound ==
    evidence.scope = "fleet" =>
        Match(Affected(evidence), DOMAIN evidence.rows, evidence.some, evidence.always)

CardSound == card.affected \subseteq card.seen /\ AffectedMatchFleet /\ ConclusionAgrees

OutcomeSound ==
    /\ stage # "verified" => outcome = NoOutcome
    /\ outcome.slow \subseteq outcome.seen
    /\ VerdictFromNewTelemetry /\ VerdictMatchesFleet /\ NeverPartial

\* The inductive invariant.
IInv ==
    FarmHistory /\ FarmTypes /\ RunTypes /\ EvidenceSound /\ CardSound /\ OutcomeSound

LEMMA MeanwhileInv == ASSUME FarmAssumption, IInv, Meanwhile PROVE IInv'
<1>1. /\ FarmHistory' /\ FarmTypes' /\ fleet'.size = fleet.size /\ time' >= time
      /\ stage # "verified"
  BY FarmMoves DEF Meanwhile, IInv
<1>2. UNCHANGED <<stage, evidence, card, acted, outcome>>
  BY DEF Meanwhile, runVars
<1>3. RunTypes'
  BY <1>1, <1>2 DEF RunTypes, IInv, FarmTypes, FarmHistory
<1>4. EvidenceSound' /\ CardSound' /\ OutcomeSound'
  BY <1>2 DEF IInv, EvidenceSound, Affected, Seconds, CardSound, AffectedMatchFleet,
              ConclusionAgrees, Concluded, OutcomeSound, VerdictFromNewTelemetry,
              VerdictMatchesFleet, NeverPartial
<1>. QED
  BY <1>1, <1>3, <1>4 DEF IInv

\* The run's own steps up to its conclusion leave the farm, the card and the outcome.
LEMMA GatheringInv ==
    ASSUME IInv, UNCHANGED <<farmVars, card, acted, outcome>>,
           stage' = "gathering", stage \in {"queued", "gathering"},
           DOMAIN evidence' = EvidenceFields,
           DOMAIN (evidence'.rows) \cup evidence'.stalled \subseteq 1..fleet.size, EvidenceSound'
    PROVE  IInv'
<1>1. FarmHistory' /\ FarmTypes'
  BY DEF IInv, FarmHistory, FarmTypes, farmVars, world, Exported
<1>2. RunTypes'
  BY DEF IInv, RunTypes, farmVars, world, Stages
<1>3. CardSound' /\ OutcomeSound'
  BY DEF IInv, CardSound, AffectedMatchFleet, ConclusionAgrees, Concluded, OutcomeSound,
         VerdictFromNewTelemetry, VerdictMatchesFleet, NeverPartial
<1>. QED
  BY <1>1, <1>2, <1>3 DEF IInv

LEMMA LaunchInv == ASSUME IInv, Launch PROVE IInv'
<1>1. EvidenceSound'
  BY DEF Launch, IInv, EvidenceSound, Affected, Seconds
<1>. QED
  BY <1>1, GatheringInv DEF Launch, IInv, RunTypes

\* The times an answer can be of are natural numbers.
LEMMA AnswerTimesNat == FarmAssumption /\ FarmHistory => AnswerTimes \subseteq Nat
BY DEF AnswerTimes, FarmHistory

LEMMA AskDurationsInv == ASSUME FarmAssumption, IInv, AskDurations PROVE IInv'
<1>0. PICK t \in AnswerTimes, scope \in Scopes :
        \E rows \in Readings(Selected(Rows(t), scope)) :
        evidence' = [evidence EXCEPT
            !.rows = rows, !.loads = loads, !.scope = scope,
            !.some = IF scope = "fleet" THEN SomeDegraded(t) ELSE {},
            !.always = IF scope = "fleet" THEN AlwaysDegraded(t) ELSE {}]
  BY DEF AskDurations
<1>1. PICK rows \in Readings(Selected(Rows(t), scope)) :
        evidence' = [evidence EXCEPT
            !.rows = rows, !.loads = loads, !.scope = scope,
            !.some = IF scope = "fleet" THEN SomeDegraded(t) ELSE {},
            !.always = IF scope = "fleet" THEN AlwaysDegraded(t) ELSE {}]
  BY <1>0
<1>2. t \in Nat /\ Selected(Rows(t), scope) \subseteq Rows(t)
  BY AnswerTimesNat DEF IInv, Selected, Scopes
<1>3. /\ DOMAIN evidence' = EvidenceFields
      /\ evidence'.rows = rows /\ evidence'.scope = scope /\ evidence'.stalled = evidence.stalled
      /\ scope = "fleet" =>
           evidence'.some = SomeDegraded(t) /\ evidence'.always = AlwaysDegraded(t)
  BY <1>1 DEF IInv, RunTypes, EvidenceFields
<1>4. DOMAIN rows \cup evidence.stalled \subseteq 1..fleet.size
  <2>1. DOMAIN rows \subseteq 1..fleet.size
    BY <1>2, ReadingsInFleet DEF IInv
  <2>. QED
    BY <2>1 DEF IInv, RunTypes
<1>5. EvidenceSound'
  <2>1. SUFFICES ASSUME scope = "fleet"
                 PROVE  Match(Affected(evidence'), DOMAIN rows, SomeDegraded(t), AlwaysDegraded(t))
    BY <1>3 DEF EvidenceSound
  <2>2. rows \in Readings(Rows(t))
    BY <1>1, <2>1 DEF Selected
  <2>3. Affected(evidence') = Degraded([w \in DOMAIN rows |-> rows[w].duration])
    BY <1>3 DEF Affected, Seconds
  <2>. QED
    BY <1>2, <2>2, <2>3, ReadingMatches DEF IInv
<1>. QED
  BY <1>3, <1>4, <1>5, GatheringInv DEF AskDurations

\* The other queries leave the durations alone.
LEMMA AskElseInv ==
    ASSUME FarmAssumption, IInv, AskLoad \/ AskLog \/ AskTraces
    PROVE  IInv'
<1>1. \/ \E t \in AnswerTimes : \E rows \in Readings(Rows(t)) :
           evidence' = [evidence EXCEPT !.stalled = {w \in DOMAIN rows : rows[w].load < 60}]
      \/ \E n : evidence' = [evidence EXCEPT !.loaded = n]
      \/ \E found : evidence' = [evidence EXCEPT !.traces = found]
  <2>1. CASE AskLoad
    BY <2>1 DEF AskLoad
  <2>2. CASE AskLog
    BY <2>2 DEF AskLog
  <2>3. CASE AskTraces
    BY <2>3 DEF AskTraces
  <2>. QED
    BY <2>1, <2>2, <2>3
<1>2. evidence'.stalled \subseteq 1..fleet.size
  <2>1. ASSUME NEW t \in AnswerTimes, NEW rows \in Readings(Rows(t)),
               evidence' = [evidence EXCEPT !.stalled = {w \in DOMAIN rows : rows[w].load < 60}]
        PROVE  evidence'.stalled \subseteq 1..fleet.size
    <3>1. DOMAIN rows \subseteq 1..fleet.size
      BY AnswerTimesNat, ReadingsInFleet DEF IInv
    <3>2. evidence'.stalled \subseteq DOMAIN rows
      BY <2>1 DEF IInv, RunTypes, EvidenceFields
    <3>. QED
      BY <3>1, <3>2
  <2>2. evidence.stalled \subseteq 1..fleet.size
    BY DEF IInv, RunTypes
  <2>3. ASSUME NEW n, \/ evidence' = [evidence EXCEPT !.loaded = n]
                      \/ evidence' = [evidence EXCEPT !.traces = n]
        PROVE  evidence'.stalled = evidence.stalled
    BY <2>3 DEF IInv, RunTypes, EvidenceFields
  <2>. QED
    BY <1>1, <2>1, <2>2, <2>3
<1>3. /\ DOMAIN evidence' = EvidenceFields
      /\ evidence'.rows = evidence.rows /\ evidence'.scope = evidence.scope
      /\ evidence'.some = evidence.some /\ evidence'.always = evidence.always
  BY <1>1 DEF IInv, RunTypes, EvidenceFields
<1>4. DOMAIN (evidence'.rows) \cup evidence'.stalled \subseteq 1..fleet.size
  BY <1>2, <1>3 DEF IInv, RunTypes
<1>5. EvidenceSound'
  BY <1>3 DEF IInv, EvidenceSound, Affected, Seconds
<1>6. /\ stage = "gathering" /\ stage' = "gathering"
      /\ UNCHANGED <<farmVars, card, acted, outcome>>
  BY DEF AskLoad, AskLog, AskTraces
<1>. QED
  BY <1>3, <1>4, <1>5, <1>6, GatheringInv

LEMMA ConcludeInv == ASSUME IInv, Conclude PROVE IInv'
<1>. DEFINE slow == Affected(evidence)
<1>1. /\ stage = "gathering" /\ UNCHANGED <<farmVars, acted, outcome>>
      /\ evidence' = NoEvidence
      /\ card' = [verdict |-> Verdict(evidence, slow), affected |-> slow,
                  scope |-> evidence.scope, seen |-> DOMAIN evidence.rows,
                  some |-> evidence.some, always |-> evidence.always]
      /\ \E atRisk \in {FALSE} \cup {AtRisk(slow, b) : b \in BOOLEAN} :
           stage' = IF Warranted(slow, atRisk) THEN "awaiting" ELSE "completed"
  BY DEF Conclude
<1>2. slow \subseteq DOMAIN evidence.rows
  BY DEF Affected, Degraded, Seconds
<1>. HIDE DEF slow
<1>3. FarmHistory' /\ FarmTypes'
  BY <1>1 DEF IInv, FarmHistory, FarmTypes, farmVars, world, Exported
<1>4. RunTypes'
  <2>1. Verdict(evidence, slow) \in Verdicts
    BY VerdictFacts
  <2>2. DOMAIN NoEvidence = EvidenceFields /\ DOMAIN NoEvidence.rows = {} /\ NoEvidence.stalled = {}
    BY DEF NoEvidence, EvidenceFields
  <2>. QED
    BY <1>1, <2>1, <2>2 DEF IInv, RunTypes, farmVars, world, Stages
<1>5. EvidenceSound'
  BY <1>1 DEF EvidenceSound, NoEvidence
<1>6. CardSound'
  <2>1. card'.scope = "fleet" => Match(slow, card'.seen, card'.some, card'.always)
    BY <1>1 DEF IInv, EvidenceSound, slow
  <2>2. ConclusionAgrees'
    <3>1. CASE slow = {}
      <4>1. \A b \in BOOLEAN : AtRisk(slow, b) = FALSE
        BY <3>1, NothingTraced
      <4>2. stage' = "completed"
        BY <1>1, <3>1, <4>1 DEF Warranted
      <4>. QED
        BY <1>1, <3>1, <4>2, VerdictFacts DEF ConclusionAgrees, Concluded
    <3>2. CASE slow # {}
      <4>1. stage' = "awaiting"
        BY <1>1, <3>2 DEF Warranted
      <4>. QED
        BY <1>1, <3>2, <4>1, VerdictFacts DEF ConclusionAgrees, Concluded
    <3>. QED
      BY <3>1, <3>2
  <2>. QED
    BY <1>1, <1>2, <2>1, <2>2 DEF CardSound, AffectedMatchFleet, Match
<1>7. OutcomeSound'
  BY <1>1 DEF IInv, OutcomeSound, VerdictFromNewTelemetry, VerdictMatchesFleet,
              NeverPartial, NoOutcome
<1>. QED
  BY <1>3, <1>4, <1>5, <1>6, <1>7 DEF IInv

LEMMA ApproveInv == ASSUME FarmAssumption, IInv, Approve PROVE IInv'
<1>1. /\ stage = "awaiting" /\ stage' = "verifying" /\ acted' = time
      /\ UNCHANGED <<evidence, card, outcome, time, exports>>
      /\ FarmHistory /\ FarmTypes /\ fleet.size = NumWorkers
      /\ fleet.size \in Nat /\ time \in Nat /\ Added \in Nat
  BY DEF Approve, IInv, RunTypes, Rollback, Scale, Reprioritize, farmVars, world, FarmHistory,
         Proper, Fleet, FarmAssumption
<1>2. /\ Proper(fleet') /\ fleet.size <= fleet'.size /\ fleet'.size \in Sizes
      /\ FarmTypes'
  <2>1. CASE Rollback
    BY <1>1, <2>1, FleetsAreProper DEF Rollback, FarmTypes, FarmHistory
  <2>2. CASE Scale
    BY <1>1, <2>2, FleetsAreProper DEF Scale, FarmTypes, Sizes
  <2>3. CASE \E sequences : Reprioritize(sequences)
    BY <1>1, <2>3 DEF Reprioritize, FarmTypes, FarmHistory
  <2>4. CASE UNCHANGED farmVars
    BY <1>1, <2>4 DEF farmVars, world, FarmTypes, FarmHistory
  <2>. QED
    BY <2>1, <2>2, <2>3, <2>4 DEF Approve
<1>3. FarmHistory'
  BY <1>1, <1>2, FleetChanges
<1>4. RunTypes'
  <2>1. fleet'.size \in Nat
    BY <1>2 DEF Proper, Fleet
  <2>2. 1..fleet.size \subseteq 1..fleet'.size
    BY <1>1, <1>2, <2>1
  <2>. QED
    BY <1>1, <2>2 DEF IInv, RunTypes, Stages
<1>5. EvidenceSound'
  BY <1>1 DEF IInv, EvidenceSound, Affected, Seconds
<1>6. CardSound'
  BY <1>1 DEF IInv, CardSound, AffectedMatchFleet, ConclusionAgrees, Concluded
<1>7. OutcomeSound'
  BY <1>1 DEF IInv, OutcomeSound, VerdictFromNewTelemetry, VerdictMatchesFleet,
              NeverPartial, NoOutcome
<1>. QED
  BY <1>2, <1>3, <1>4, <1>5, <1>6, <1>7 DEF IInv

LEMMA VerifyInv ==
    ASSUME FarmAssumption, SettleAssumption, IInv, Verify
    PROVE  IInv'
<1>1. /\ stage = "verifying" /\ stage' = "verified" /\ Settled
      /\ UNCHANGED <<farmVars, evidence, card, acted>>
  BY DEF Verify
<1>2. FarmHistory' /\ FarmTypes'
  BY <1>1 DEF IInv, FarmHistory, FarmTypes, farmVars, world, Exported
<1>3. EvidenceSound'
  BY <1>1 DEF IInv, EvidenceSound, Affected, Seconds
<1>4. CardSound'
  BY <1>1 DEF IInv, CardSound, AffectedMatchFleet, ConclusionAgrees, Concluded
<1>5. /\ outcome'.status \in Statuses /\ outcome'.seen \subseteq 1..fleet.size
      /\ OutcomeSound'
  <2>1. CASE outcome' = NoOutcome
    BY <1>1, <2>1 DEF OutcomeSound, VerdictFromNewTelemetry, VerdictMatchesFleet,
                      NeverPartial, NoOutcome, Statuses
  <2>2. ASSUME NEW t \in AnswerTimes, NEW late \in BOOLEAN, NEW rows \in Readings(Rows(t)),
               NEW delayed \in {FALSE}
                   \cup {Delayed(StillDegraded(rows), b, late) : b \in BOOLEAN},
               outcome' = [status |-> Status(StillDegraded(rows), delayed),
                           basis |-> Kept(t), slow |-> StillDegraded(rows),
                           seen |-> DOMAIN rows,
                           some |-> SomeDegraded(t), always |-> AlwaysDegraded(t)]
        PROVE  /\ outcome'.status \in Statuses /\ outcome'.seen \subseteq 1..fleet.size
               /\ OutcomeSound'
    <3>1. FarmHistory /\ t \in Nat /\ time \in Nat /\ acted \in 0..time
      BY AnswerTimesNat DEF IInv, FarmHistory, RunTypes
    <3>2. Match(StillDegraded(rows), DOMAIN rows, SomeDegraded(t), AlwaysDegraded(t))
      BY <3>1, ReadingMatches DEF StillDegraded
    <3>3. DOMAIN rows \subseteq 1..fleet.size
      BY <3>1, ReadingsInFleet
    <3>4. \A n \in Kept(t) : n > acted
      BY <1>1, <3>1 DEF Kept, FarmHistory, AnswerTimes, Settled, SettleAssumption, FarmAssumption
    <3>5. StillDegraded(rows) = {} => delayed = FALSE
      BY <2>2, NothingTraced
    <3>. DEFINE slow == StillDegraded(rows)
    <3>6. /\ Status(slow, delayed) \in Statuses
          /\ Status(slow, delayed) # "PARTIALLY_RECOVERED"
          /\ Status(slow, delayed) # "NOT_RECOVERED" => slow = {}
      BY <3>5 DEF Status, Statuses
    <3>. HIDE DEF slow
    <3>7. VerdictFromNewTelemetry'
      BY <1>1, <2>2, <3>4 DEF VerdictFromNewTelemetry
    <3>8. VerdictMatchesFleet'
      BY <2>2, <3>2, <3>6 DEF VerdictMatchesFleet, Match, slow
    <3>9. NeverPartial'
      BY <2>2, <3>6 DEF NeverPartial, slow
    <3>. QED
      BY <1>1, <2>2, <3>2, <3>3, <3>6, <3>7, <3>8, <3>9 DEF OutcomeSound, Match, slow
  <2>. QED
    BY <2>1, <2>2 DEF Verify
<1>6. RunTypes'
  BY <1>1, <1>5 DEF IInv, RunTypes, farmVars, world, Stages
<1>. QED
  BY <1>2, <1>3, <1>4, <1>5, <1>6 DEF IInv

LEMMA InitInv == FarmAssumption /\ Init => IInv
<1>. SUFFICES ASSUME FarmAssumption, Init
              PROVE  IInv
  OBVIOUS
<1>1. /\ fleet = [size |-> NumWorkers, degraded |-> {}, drained |-> {}, updated |-> {}]
      /\ NumWorkers \in Nat /\ MaxTime \in Nat /\ MaxChanges \in Nat /\ Window \in Nat
      /\ CacheAge \in Nat
  BY DEF Init, FarmInit, Start, NoFleet, FarmAssumption
<1>2. FarmHistory
  <2>1. Proper(fleet) /\ fleet.size = NumWorkers /\ NumWorkers \in Sizes
    BY <1>1 DEF Proper, Fleet, Sizes
  <2>2. time = 0 /\ DOMAIN exports = {}
    BY DEF Init, FarmInit
  <2>3. {n \in 1..time : n >= time - Window - CacheAge} = {}
    BY <2>2
  <2>. QED
    BY <1>1, <2>1, <2>2, <2>3 DEF FarmHistory
<1>3. FarmTypes
  <2>1. version \in {Old, New} /\ priority \in BOOLEAN
    BY DEF Init, FarmInit
  <2>2. loads = 0 /\ changes = 0 /\ time = 0
    BY DEF Init, FarmInit
  <2>3. 0 \in 0..MaxChanges /\ 0 \in 0..MaxTime /\ 0 \in 0..0
    BY <1>1
  <2>. QED
    BY <2>1, <2>2, <2>3 DEF FarmTypes
<1>4. RunTypes
  <2>1. /\ stage = "queued" /\ acted = 0 /\ time = 0 /\ fleet.size = NumWorkers
        /\ card.verdict = "INCONCLUSIVE" /\ card.seen = {}
        /\ outcome.status = "UNVERIFIED" /\ outcome.seen = {}
    BY <1>1 DEF Init, FarmInit, NoCard, NoOutcome
  <2>2. /\ DOMAIN evidence = EvidenceFields
        /\ DOMAIN evidence.rows = {} /\ evidence.stalled = {}
    BY DEF Init, NoEvidence, EvidenceFields
  <2>. QED
    BY <2>1, <2>2 DEF RunTypes, Stages, Verdicts, Statuses
<1>5. EvidenceSound /\ CardSound
  BY DEF Init, EvidenceSound, NoEvidence, CardSound, NoCard, AffectedMatchFleet,
         ConclusionAgrees, Concluded
<1>6. OutcomeSound
  BY DEF Init, OutcomeSound, NoOutcome, VerdictFromNewTelemetry, VerdictMatchesFleet,
         NeverPartial
<1>. QED
  BY <1>2, <1>3, <1>4, <1>5, <1>6 DEF IInv

LEMMA NextInv == FarmAssumption /\ SettleAssumption /\ IInv /\ [Next]_vars => IInv'
<1>. SUFFICES ASSUME FarmAssumption, SettleAssumption, IInv, [Next]_vars
              PROVE  IInv'
  OBVIOUS
<1>1. CASE Meanwhile
  BY <1>1, MeanwhileInv
<1>2. CASE Launch
  BY <1>2, LaunchInv
<1>3. CASE AskDurations
  BY <1>3, AskDurationsInv
<1>4. CASE AskLoad \/ AskLog \/ AskTraces
  BY <1>4, AskElseInv
<1>5. CASE Conclude
  BY <1>5, ConcludeInv
<1>6. CASE Approve
  BY <1>6, ApproveInv
<1>7. CASE Verify
  BY <1>7, VerifyInv
<1>8. CASE UNCHANGED vars
  <2>1. UNCHANGED <<farmVars, runVars>>
    BY <1>8 DEF vars
  <2>. QED
    BY <2>1 DEF farmVars, world, runVars, IInv, FarmHistory, Exported, FarmTypes, RunTypes,
         EvidenceSound, Affected, Seconds, CardSound, AffectedMatchFleet, ConclusionAgrees,
         Concluded, OutcomeSound, VerdictFromNewTelemetry, VerdictMatchesFleet,
         NeverPartial
<1>. QED
  BY <1>1, <1>2, <1>3, <1>4, <1>5, <1>6, <1>7, <1>8 DEF Next, RunNext

\* The invariant holds in every reachable state.
THEOREM InvCorrect == Spec => []IInv
<1>1. Init => IInv
  BY InitInv, FarmAssumption
<1>2. IInv /\ [Next]_vars => IInv'
  BY NextInv, FarmAssumption, SettleAssumption
<1>. QED
  BY <1>1, <1>2, PTL DEF Spec

\* Farm and run stay well formed: no incident adds a worker, and nothing a run records
\* speaks of workers that the fleet does not have.
THEOREM TypeCorrect == Spec => []TypeOK
<1>1. IInv => TypeOK
  <2>. SUFFICES ASSUME IInv
                PROVE  TypeOK
    OBVIOUS
  <2>1. \A n \in DOMAIN exports :
          Proper(exports[n].fleet) /\ exports[n].fleet.size \in Sizes \cup {0}
    BY DEF IInv, FarmHistory, Exported, Lost, NoFleet, Proper, Fleet
  <2>. QED
    BY <2>1 DEF IInv, TypeOK, FarmHistory, FarmTypes, RunTypes, CardSound, OutcomeSound
<1>. QED
  BY InvCorrect, <1>1, PTL

\* An investigation blames exactly the degraded workers, as far as its last query could
\* tell them, for any fleet and any incidents (analysis.py, split_degraded).
THEOREM AffectedCorrect == Spec => []AffectedMatchFleet
<1>1. IInv => AffectedMatchFleet
  BY DEF IInv, CardSound
<1>. QED
  BY InvCorrect, <1>1, PTL

\* A supported hypothesis asks for approval and a rejected one does not, whatever the
\* evidence (hypothesis.py, planner.py).
THEOREM ConclusionCorrect == Spec => []ConclusionAgrees
<1>1. IInv => ConclusionAgrees
  BY DEF IInv, CardSound
<1>. QED
  BY InvCorrect, <1>1, PTL

\* No verdict rests on a figure from before the remedy, if the settle window is longer
\* than an answer can be cached and look back (verifier.py).
THEOREM NewTelemetryCorrect == Spec => []VerdictFromNewTelemetry
<1>1. IInv => VerdictFromNewTelemetry
  BY DEF IInv, OutcomeSound
<1>. QED
  BY InvCorrect, <1>1, PTL

\* The verdict on the fleet agrees with what the exports after the remedy show of it.
THEOREM VerdictCorrect == Spec => []VerdictMatchesFleet
<1>1. IInv => VerdictMatchesFleet
  BY DEF IInv, OutcomeSound
<1>. QED
  BY InvCorrect, <1>1, PTL

\* Whatever the fleet, the throughput and the queue, the verifier never reports a partial
\* recovery (verifier.py with calculator.py), although its comment and its test do.
THEOREM NeverPartialCorrect == Spec => []NeverPartial
<1>1. IInv => NeverPartial
  BY DEF IInv, OutcomeSound
<1>. QED
  BY InvCorrect, <1>1, PTL
=============================================================================
