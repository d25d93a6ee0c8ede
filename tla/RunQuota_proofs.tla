--------------------------- MODULE RunQuota_proofs ---------------------------
(***************************************************************************)
(* Proofs about RunQuota, for any sessions, limits, window and timeout:    *)
(* the limits hold in every window, an outage charges nothing, and a       *)
(* refused caller is told the truth.  All of it rests on one relation      *)
(* between a deque and the runs it accounts for (Tracks), which pruning,   *)
(* reserving, refunding and the passing of time each keep, although a      *)
(* refund takes the newest stamp whichever run it was reserved for.        *)
(***************************************************************************)
EXTENDS RunQuota, TLAPS, SequenceTheorems, FiniteSetTheorems

\* The deque of session u in dictionary f; one that is not known has an empty one.
Entry(f, u) == IF u \in DOMAIN f THEN f[u] ELSE <<>>
Of(u) == Entry(stamps, u)

\* The stamps of q, and the charged runs of the sessions U among rs, from time t on.
From(q, t) == {k \in DOMAIN q : q[k] >= t}
Charged(r) == r.status \notin {"failed", "orphan"}
Kept(rs, U, t) == {i \in DOMAIN rs : Charged(rs[i]) /\ rs[i].session \in U /\ rs[i].at >= t}

\* The stamps in q are times up to n, oldest first.
History(q, n) ==
    /\ q \in Seq(Nat)
    /\ \A i \in 1..Len(q) : q[i] <= n
    /\ \A i, j \in 1..Len(q) : i <= j => q[i] <= q[j]

\* From any moment on q holds no more stamps than runs are charged.
NeverMore(q, rs, U) == \A t \in Int : Cardinality(From(q, t)) <= Cardinality(Kept(rs, U, t))

\* As long as all runs are charged, every run of the window has its stamp in q.
NeverLess(q, rs, U, n) ==
    (\A i \in DOMAIN rs : Charged(rs[i])) =>
        \A t \in Int : n - Window < t =>
            Cardinality(Kept(rs, U, t)) <= Cardinality(From(q, t))

\* The deque q accounts at time n for the runs rs of the sessions U.
Tracks(q, rs, U, n) == History(q, n) /\ NeverMore(q, rs, U) /\ NeverLess(q, rs, U, n)

\* No more than the limit allows.
Within(q, limit) == limit > 0 => Len(q) <= limit

\* The inductive invariant.
Accounted ==
    /\ now \in Nat
    /\ runs \in Seq(Run)
    /\ DOMAIN stamps \subseteq Sessions
    /\ Tracks(global, runs, Sessions, now)
    /\ Within(global, PerDeployment)
    /\ \A u \in Sessions : Tracks(Of(u), runs, {u}, now) /\ Within(Of(u), PerSession)

-----------------------------------------------------------------------------
(* What pruning leaves *)

\* A non-empty set of numbers has a least one.
LEMMA LeastIndex ==
    ASSUME NEW S \in SUBSET Nat, S # {}
    PROVE  \E m \in S : \A n \in S : m <= n
<1> DEFINE LT == OpToRel(<, Nat)
<1>1. \E m \in S : \A n \in S : <<n, m>> \notin LT
    BY NatLessThanWellFounded, WFMin
<1>2. ASSUME NEW n \in Nat, NEW k \in Nat, n < k
      PROVE  <<n, k>> \in LT
    <2>1. <<n, k>> \in {ss \in Nat \X Nat : ss[1] < ss[2]}
        BY <1>2
    <2> QED BY <2>1, Zenon DEF OpToRel
<1> HIDE DEF LT
<1>3. PICK m \in S : \A n \in S : <<n, m>> \notin LT
    BY <1>1
<1>4. ASSUME NEW n \in S
      PROVE  m <= n
    <2>1. ~(n < m)
        BY <1>2, <1>3, Zenon
    <2> QED BY <2>1
<1> QED BY <1>4

\* Of a history _prune takes the oldest stamps, as many as have left the window, and
\* keeps the others in place.
LEMMA PruneEffect ==
    ASSUME NEW n \in Nat, NEW q, History(q, n), NEW t \in Int
    PROVE  \E d \in 0..Len(q) :
             /\ Prune(q, t) \in Seq(Nat)
             /\ Len(Prune(q, t)) = Len(q) - d
             /\ \A i \in 1..(Len(q) - d) : Prune(q, t)[i] = q[i + d] /\ q[i + d] > t - Window
             /\ \A i \in 1..d : q[i] <= t - Window
<1> DEFINE kept == {i \in 1..Len(q) : q[i] > t - Window}
<1>1. q \in Seq(Nat) /\ Len(q) \in Nat /\ DOMAIN q = 1..Len(q)
    BY LenProperties DEF History
<1>2. \A i \in 1..Len(q) : q[i] \in Nat
    BY <1>1, ElementOfSeq
<1>3. CASE kept = {}
    <2>1. Prune(q, t) = <<>>
        BY <1>3 DEF Prune
    <2>2. \A i \in 1..Len(q) : q[i] <= t - Window
        BY <1>2, <1>3, QuotaAssumption
    <2>3. <<>> \in Seq(Nat) /\ Len(<<>>) = 0
        BY EmptySeq
    <2>4. Len(q) \in 0..Len(q) /\ Len(Prune(q, t)) = Len(q) - Len(q)
        BY <1>1, <2>1, <2>3
    <2>5. \A i \in 1..(Len(q) - Len(q)) : FALSE
        BY <1>1
    <2> QED BY <2>1, <2>2, <2>3, <2>4, <2>5
<1>4. CASE kept # {}
    <2> DEFINE first == CHOOSE i \in kept : \A j \in kept : i <= j
    <2>1. \E i \in kept : \A j \in kept : i <= j
        <3>1. kept \subseteq Nat
            BY <1>1
        <3> QED BY <1>4, <3>1, LeastIndex
    <2>2. first \in kept /\ \A j \in kept : first <= j
        BY <2>1
    <2>3. Prune(q, t) = SubSeq(q, first, Len(q))
        BY <1>4 DEF Prune
    <2> HIDE DEF first
    <2>4. first \in 1..Len(q) /\ q[first] > t - Window
        BY <2>2
    <2>5. /\ SubSeq(q, first, Len(q)) \in Seq(Nat)
          /\ Len(SubSeq(q, first, Len(q))) = Len(q) - first + 1
          /\ \A i \in 1..(Len(q) - first + 1) : SubSeq(q, first, Len(q))[i] = q[first + i - 1]
        <3>1. \A i \in first..Len(q) : q[i] \in Nat
            BY <1>2, <2>4
        <3> QED BY <1>1, <2>4, <3>1, SubSeqProperties
    <2> DEFINE d == first - 1
    <2>6. d \in 0..Len(q) /\ Len(q) - d = Len(q) - first + 1
        BY <1>1, <2>4
    <2>7. \A i \in 1..(Len(q) - d) : first + i - 1 = i + d
        BY <1>1, <2>4
    <2>8. \A i \in 1..d : q[i] <= t - Window
        <3> SUFFICES ASSUME NEW i \in 1..d
                     PROVE  ~(q[i] > t - Window)
            BY <1>1, <1>2, <2>4, QuotaAssumption
        <3>1. i \in 1..Len(q) /\ i < first
            BY <1>1, <2>4
        <3> QED BY <2>2, <3>1
    <2>9. \A i \in 1..(Len(q) - d) : q[i + d] > t - Window
        <3> SUFFICES ASSUME NEW i \in 1..(Len(q) - d)
                     PROVE  q[i + d] > t - Window
            OBVIOUS
        <3>1. i + d \in 1..Len(q) /\ first <= i + d
            BY <1>1, <2>4
        <3>2. q[first] <= q[i + d]
            BY <2>4, <3>1 DEF History
        <3>3. q[first] \in Nat /\ q[i + d] \in Nat
            BY <1>2, <2>4, <3>1
        <3> QED BY <2>4, <3>2, <3>3, QuotaAssumption
    <2> HIDE DEF d
    <2>10. \A i \in 1..(Len(q) - d) : Prune(q, t)[i] = q[i + d]
        BY <2>3, <2>5, <2>6, <2>7
    <2> QED BY <2>3, <2>5, <2>6, <2>8, <2>9, <2>10
<1> QED BY <1>3, <1>4

\* What is left is a history of stamps in the window.
LEMMA PruneHistory ==
    ASSUME NEW n \in Nat, NEW q, History(q, n)
    PROVE  /\ History(Prune(q, n), n)
           /\ Len(Prune(q, n)) <= Len(q)
           /\ \A i \in 1..Len(Prune(q, n)) : Prune(q, n)[i] > n - Window
<1> DEFINE p == Prune(q, n)
<1>1. PICK d \in 0..Len(q) :
        /\ p \in Seq(Nat)
        /\ Len(p) = Len(q) - d
        /\ \A i \in 1..(Len(q) - d) : p[i] = q[i + d] /\ q[i + d] > n - Window
    <2>1. n \in Int
        OBVIOUS
    <2> QED BY <2>1, PruneEffect
<1>2. Len(q) \in Nat
    BY LenProperties DEF History
<1> HIDE DEF p
<1>3. \A i \in 1..Len(p) : i + d \in 1..Len(q) /\ p[i] = q[i + d] /\ p[i] > n - Window
    BY <1>1, <1>2
<1>4. \A i, j \in 1..Len(p) : i <= j => i + d <= j + d
    BY <1>1, <1>2
<1>5. History(p, n)
    BY <1>1, <1>3, <1>4 DEF History
<1>6. Len(p) <= Len(q)
    BY <1>1, <1>2
<1> QED BY <1>3, <1>5, <1>6 DEF p

-----------------------------------------------------------------------------
(* Counting stamps and runs *)

\* A deque holds finitely many stamps from any time on, and no more than its length.
LEMMA FromCount ==
    ASSUME NEW q \in Seq(Nat), NEW t \in Int
    PROVE  /\ From(q, t) \in SUBSET (1..Len(q))
           /\ IsFiniteSet(From(q, t)) /\ Cardinality(From(q, t)) \in Nat
           /\ Cardinality(From(q, t)) <= Len(q)
<1>1. Len(q) \in Nat /\ DOMAIN q = 1..Len(q)
    BY LenProperties
<1>2. From(q, t) \in SUBSET (1..Len(q))
    BY <1>1 DEF From
<1>3. IsFiniteSet(1..Len(q)) /\ Cardinality(1..Len(q)) = Len(q)
    <2>1. /\ IsFiniteSet(1..Len(q))
          /\ Cardinality(1..Len(q)) = IF 1 > Len(q) THEN 0 ELSE Len(q) - 1 + 1
        BY <1>1, FS_Interval
    <2> QED BY <1>1, <2>1
<1>4. IsFiniteSet(From(q, t)) /\ Cardinality(From(q, t)) <= Len(q)
    BY <1>2, <1>3, FS_Subset
<1> QED BY <1>2, <1>4, FS_CardinalityType

\* There are finitely many runs.
LEMMA KeptCount ==
    ASSUME NEW rs \in Seq(Run), NEW U, NEW t \in Int
    PROVE  IsFiniteSet(Kept(rs, U, t)) /\ Cardinality(Kept(rs, U, t)) \in Nat
<1>1. Len(rs) \in Nat /\ DOMAIN rs = 1..Len(rs)
    BY LenProperties
<1>2. IsFiniteSet(DOMAIN rs)
    BY <1>1, FS_Interval
<1>3. Kept(rs, U, t) \in SUBSET DOMAIN rs
    BY DEF Kept
<1>4. IsFiniteSet(Kept(rs, U, t))
    BY <1>2, <1>3, FS_Subset
<1> QED BY <1>4, FS_CardinalityType

\* Without its d oldest stamps a deque holds no more from any time on, and as many
\* if those are all older.
LEMMA FromDropped ==
    ASSUME NEW q \in Seq(Nat), NEW p \in Seq(Nat), NEW d \in 0..Len(q), NEW t \in Int,
           Len(p) = Len(q) - d, \A i \in 1..(Len(q) - d) : p[i] = q[i + d]
    PROVE  /\ Cardinality(From(p, t)) <= Cardinality(From(q, t))
           /\ (\A i \in 1..d : q[i] < t) => Cardinality(From(p, t)) = Cardinality(From(q, t))
<1> DEFINE f == [k \in From(p, t) |-> k + d]
<1>1. /\ Len(q) \in Nat /\ DOMAIN q = 1..Len(q)
      /\ Len(p) \in Nat /\ DOMAIN p = 1..Len(p)
    BY LenProperties
<1>2. IsFiniteSet(From(q, t)) /\ From(p, t) \subseteq 1..Len(p)
    BY FromCount
<1>3. \A k \in From(p, t) : k + d \in From(q, t)
    <2> SUFFICES ASSUME NEW k \in From(p, t)
                 PROVE  k + d \in From(q, t)
        OBVIOUS
    <2>1. k \in 1..(Len(q) - d) /\ p[k] >= t
        BY <1>1 DEF From
    <2>2. p[k] = q[k + d] /\ k + d \in 1..Len(q)
        BY <1>1, <2>1
    <2> QED BY <1>1, <2>1, <2>2 DEF From
<1>4. f \in Injection(From(p, t), From(q, t))
    <2>1. f \in [From(p, t) -> From(q, t)]
        BY <1>3
    <2>2. \A a, b \in From(p, t) : f[a] = f[b] => a = b
        BY <1>1, <1>2
    <2> QED BY <2>1, <2>2 DEF Injection, IsInjective
<1>5. Cardinality(From(p, t)) <= Cardinality(From(q, t))
    BY <1>2, <1>4, FS_Injection
<1>6. ASSUME \A i \in 1..d : q[i] < t
      PROVE  f \in Surjection(From(p, t), From(q, t))
    <2>1. ASSUME NEW k \in From(q, t)
          PROVE  \E j \in From(p, t) : f[j] = k
        <3>1. k \in 1..Len(q) /\ q[k] >= t /\ q[k] \in Nat
            BY <1>1, ElementOfSeq DEF From
        <3>2. ~(k <= d)
            BY <1>6, <3>1
        <3>3. k - d \in 1..Len(p) /\ p[k - d] = q[k]
            BY <1>1, <3>1, <3>2
        <3>4. k - d \in From(p, t)
            BY <1>1, <3>1, <3>3 DEF From
        <3> QED BY <3>1, <3>4
    <2>2. f \in [From(p, t) -> From(q, t)]
        BY <1>3
    <2> QED BY <2>1, <2>2 DEF Surjection
<1>7. (\A i \in 1..d : q[i] < t) => Cardinality(From(p, t)) = Cardinality(From(q, t))
    BY <1>2, <1>4, <1>6, FS_Injection
<1> QED BY <1>5, <1>7

\* One more stamp.
LEMMA FromAppended ==
    ASSUME NEW q \in Seq(Nat), NEW n \in Nat, NEW t \in Int
    PROVE  Cardinality(From(Append(q, n), t)) =
             IF t <= n THEN Cardinality(From(q, t)) + 1 ELSE Cardinality(From(q, t))
<1> DEFINE p == Append(q, n)
           z == Len(q) + 1
<1>1. /\ Len(q) \in Nat /\ DOMAIN q = 1..Len(q)
      /\ p \in Seq(Nat) /\ Len(p) = z /\ DOMAIN p = 1..z
      /\ \A i \in 1..Len(q) : p[i] = q[i]
      /\ p[z] = n
    BY LenProperties, AppendProperties
<1> HIDE DEF p
<1>2. IsFiniteSet(From(q, t)) /\ z \notin From(q, t)
    <2>1. From(q, t) \in SUBSET (1..Len(q)) /\ IsFiniteSet(From(q, t))
        BY FromCount
    <2>2. z \notin 1..Len(q)
        BY <1>1
    <2> QED BY <2>1, <2>2
<1>3. CASE t <= n
    <2>1. From(p, t) = From(q, t) \cup {z}
        BY <1>1, <1>3 DEF From
    <2> QED BY <1>2, <1>3, <2>1, FS_AddElement DEF p
<1>4. CASE ~(t <= n)
    <2>1. From(p, t) = From(q, t)
        BY <1>1, <1>4 DEF From
    <2> QED BY <1>4, <2>1 DEF p
<1> QED BY <1>3, <1>4

\* Without the newest stamp.
LEMMA FromShortened ==
    ASSUME NEW q \in Seq(Nat), q # <<>>, NEW t \in Int
    PROVE  Cardinality(From(SubSeq(q, 1, Len(q) - 1), t)) =
             IF t <= q[Len(q)] THEN Cardinality(From(q, t)) - 1 ELSE Cardinality(From(q, t))
<1> DEFINE z == Len(q)
           p == SubSeq(q, 1, z - 1)
<1>1. z \in Nat \ {0} /\ DOMAIN q = 1..z /\ \A i \in 1..z : q[i] \in Nat
    BY EmptySeq, LenProperties, ElementOfSeq
<1>2. p \in Seq(Nat) /\ Len(p) = z - 1 /\ \A i \in 1..(z - 1) : p[i] = q[i]
    <2>1. \A i \in 1..(z - 1) : q[i] \in Nat
        BY <1>1
    <2>2. /\ p \in Seq(Nat) /\ Len(p) = IF 1 <= z - 1 THEN z - 1 - 1 + 1 ELSE 0
          /\ \A i \in 1..(z - 1 - 1 + 1) : p[i] = q[1 + i - 1]
        BY <1>1, <2>1, SubSeqProperties
    <2>3. z - 1 - 1 + 1 = z - 1 /\ \A i \in 1..(z - 1) : 1 + i - 1 = i
        BY <1>1
    <2>4. Len(p) = z - 1
        BY <1>1, <2>2
    <2> HIDE DEF p
    <2> QED BY <2>2, <2>3, <2>4
<1>3. DOMAIN p = 1..(z - 1)
    BY <1>2, LenProperties
<1> HIDE DEF p
<1>4. From(p, t) = From(q, t) \ {z}
    <2>1. 1..(z - 1) = (1..z) \ {z}
        BY <1>1
    <2>2. DOMAIN p = (DOMAIN q) \ {z} /\ \A i \in DOMAIN p : p[i] = q[i]
        BY <1>1, <1>2, <1>3, <2>1
    <2> QED BY <2>2 DEF From
<1>5. z \in From(q, t) <=> t <= q[z]
    BY <1>1 DEF From
<1> QED BY <1>4, <1>5, FromCount, FS_RemoveElement DEF p

\* One more run, by a session of U or another.
LEMMA KeptAppended ==
    ASSUME NEW rs \in Seq(Run), NEW r \in Run, Charged(r), NEW U, NEW t \in Int
    PROVE  Cardinality(Kept(Append(rs, r), U, t)) =
             IF r.session \in U /\ t <= r.at THEN Cardinality(Kept(rs, U, t)) + 1
             ELSE Cardinality(Kept(rs, U, t))
<1> DEFINE new == Append(rs, r)
           z == Len(rs) + 1
<1>1. /\ Len(rs) \in Nat /\ DOMAIN rs = 1..Len(rs)
      /\ new \in Seq(Run) /\ DOMAIN new = 1..z
      /\ \A i \in 1..Len(rs) : new[i] = rs[i]
      /\ new[z] = r
    BY LenProperties, AppendProperties
<1> HIDE DEF new
<1>2. IsFiniteSet(Kept(rs, U, t)) /\ z \notin Kept(rs, U, t) /\ r.at \in Nat
    <2>1. z \notin DOMAIN rs
        BY <1>1
    <2>2. z \notin Kept(rs, U, t)
        BY <2>1 DEF Kept
    <2> QED BY <2>2, KeptCount DEF Run
<1>3. CASE r.session \in U /\ t <= r.at
    <2>1. Kept(new, U, t) = Kept(rs, U, t) \cup {z}
        BY <1>1, <1>2, <1>3 DEF Kept
    <2> QED BY <1>2, <1>3, <2>1, FS_AddElement DEF new
<1>4. CASE ~(r.session \in U /\ t <= r.at)
    <2>1. Kept(new, U, t) = Kept(rs, U, t)
        BY <1>1, <1>2, <1>4 DEF Kept
    <2> QED BY <1>4, <2>1 DEF new
<1> QED BY <1>3, <1>4

\* Run i is no longer charged.
LEMMA KeptRefunded ==
    ASSUME NEW rs \in Seq(Run), NEW i \in DOMAIN rs, Charged(rs[i]),
           NEW r \in Run, ~Charged(r), NEW U, NEW t \in Int
    PROVE  Cardinality(Kept([rs EXCEPT ![i] = r], U, t)) =
             IF rs[i].session \in U /\ t <= rs[i].at THEN Cardinality(Kept(rs, U, t)) - 1
             ELSE Cardinality(Kept(rs, U, t))
<1> DEFINE new == [rs EXCEPT ![i] = r]
<1>1. DOMAIN new = DOMAIN rs /\ new[i] = r /\ \A j \in DOMAIN rs : j # i => new[j] = rs[j]
    OBVIOUS
<1>2. rs[i].at \in Nat
    <2>1. rs[i] \in Run
        BY LenProperties, ElementOfSeq
    <2> QED BY <2>1 DEF Run
<1> HIDE DEF new
<1>3. Kept(new, U, t) = Kept(rs, U, t) \ {i}
    BY <1>1 DEF Kept
<1>4. i \in Kept(rs, U, t) <=> rs[i].session \in U /\ t <= rs[i].at
    BY <1>2 DEF Kept
<1> QED BY <1>3, <1>4, KeptCount, FS_RemoveElement DEF new

\* Run i goes on: it stays charged to the same session and time.
LEMMA KeptMoved ==
    ASSUME NEW rs \in Seq(Run), NEW i \in DOMAIN rs, Charged(rs[i]),
           NEW r, Charged(r), r.session = rs[i].session, r.at = rs[i].at,
           NEW U, NEW t \in Int
    PROVE  Kept([rs EXCEPT ![i] = r], U, t) = Kept(rs, U, t)
<1> DEFINE new == [rs EXCEPT ![i] = r]
<1>1. DOMAIN new = DOMAIN rs /\ new[i] = r /\ \A j \in DOMAIN rs : j # i => new[j] = rs[j]
    OBVIOUS
<1> HIDE DEF new
<1>2. Kept(new, U, t) = Kept(rs, U, t)
    BY <1>1 DEF Kept
<1> QED BY <1>2 DEF new

-----------------------------------------------------------------------------
(* What each operation does to a deque and the runs it accounts for *)

\* Pruning keeps the account: the stamps that go are outside the window.
LEMMA TracksPruned ==
    ASSUME NEW n \in Nat, NEW rs \in Seq(Run), NEW U, NEW q, Tracks(q, rs, U, n)
    PROVE  Tracks(Prune(q, n), rs, U, n) /\ Len(Prune(q, n)) <= Len(q)
<1> DEFINE p == Prune(q, n)
<1>1. History(q, n) /\ NeverMore(q, rs, U) /\ NeverLess(q, rs, U, n)
    BY DEF Tracks
<1>2. PICK d \in 0..Len(q) :
        /\ p \in Seq(Nat)
        /\ Len(p) = Len(q) - d
        /\ \A i \in 1..(Len(q) - d) : p[i] = q[i + d] /\ q[i + d] > n - Window
        /\ \A i \in 1..d : q[i] <= n - Window
    <2>1. n \in Int
        OBVIOUS
    <2> QED BY <1>1, <2>1, PruneEffect
<1>3. q \in Seq(Nat) /\ Len(q) \in Nat /\ \A i \in 1..Len(q) : q[i] \in Nat
    BY <1>1, LenProperties, ElementOfSeq DEF History
<1> HIDE DEF p
<1>4. History(p, n)
    BY <1>1, PruneHistory DEF p
<1>5. \A t \in Int : /\ Cardinality(From(p, t)) <= Cardinality(From(q, t))
                     /\ (\A i \in 1..d : q[i] < t) =>
                            Cardinality(From(p, t)) = Cardinality(From(q, t))
    BY <1>2, <1>3, FromDropped
<1>6. NeverMore(p, rs, U)
    <2> SUFFICES ASSUME NEW t \in Int
                 PROVE  Cardinality(From(p, t)) <= Cardinality(Kept(rs, U, t))
        BY DEF NeverMore
    <2>1. /\ Cardinality(From(p, t)) \in Nat /\ Cardinality(From(q, t)) \in Nat
          /\ Cardinality(Kept(rs, U, t)) \in Nat
        BY <1>2, <1>3, FromCount, KeptCount
    <2>2. Cardinality(From(q, t)) <= Cardinality(Kept(rs, U, t))
        BY <1>1 DEF NeverMore
    <2> QED BY <1>5, <2>1, <2>2
<1>7. NeverLess(p, rs, U, n)
    <2> SUFFICES ASSUME \A i \in DOMAIN rs : Charged(rs[i]), NEW t \in Int, n - Window < t
                 PROVE  Cardinality(Kept(rs, U, t)) <= Cardinality(From(p, t))
        BY DEF NeverLess
    <2>1. \A i \in 1..d : q[i] < t
        <3> SUFFICES ASSUME NEW i \in 1..d
                     PROVE  q[i] < t
            OBVIOUS
        <3>1. q[i] <= n - Window /\ q[i] \in Nat
            BY <1>2, <1>3
        <3> QED BY <3>1, QuotaAssumption
    <2>2. Cardinality(From(p, t)) = Cardinality(From(q, t))
        BY <1>5, <2>1
    <2> QED BY <1>1, <2>2 DEF NeverLess
<1>8. Len(p) <= Len(q)
    BY <1>2, <1>3
<1> QED BY <1>4, <1>6, <1>7, <1>8 DEF p, Tracks

\* A reservation keeps the account of every deque that takes its stamp.
LEMMA TracksReserved ==
    ASSUME NEW n \in Nat, NEW rs \in Seq(Run), NEW U, NEW q, Tracks(q, rs, U, n),
           NEW r \in Run, Charged(r), r.session \in U, r.at = n
    PROVE  Tracks(Append(q, n), Append(rs, r), U, n)
<1> DEFINE p == Append(q, n)
           new == Append(rs, r)
<1>1. History(q, n) /\ NeverMore(q, rs, U) /\ NeverLess(q, rs, U, n)
    BY DEF Tracks
<1>2. q \in Seq(Nat) /\ Len(q) \in Nat
    BY <1>1, LenProperties DEF History
<1>3. /\ p \in Seq(Nat) /\ Len(p) = Len(q) + 1
      /\ \A i \in 1..Len(q) : p[i] = q[i]
      /\ p[Len(q) + 1] = n
    BY <1>2, AppendProperties
<1>4. /\ new \in Seq(Run) /\ Len(new) = Len(rs) + 1 /\ Len(rs) \in Nat
      /\ \A i \in 1..Len(rs) : new[i] = rs[i]
      /\ DOMAIN rs = 1..Len(rs) /\ DOMAIN new = 1..Len(new)
    BY AppendProperties, LenProperties
<1>5. \A t \in Int :
        /\ Cardinality(From(p, t)) =
             IF t <= n THEN Cardinality(From(q, t)) + 1 ELSE Cardinality(From(q, t))
        /\ Cardinality(Kept(new, U, t)) =
             IF t <= n THEN Cardinality(Kept(rs, U, t)) + 1 ELSE Cardinality(Kept(rs, U, t))
    BY <1>2, FromAppended, KeptAppended
<1>6. \A t \in Int : Cardinality(From(q, t)) \in Nat /\ Cardinality(Kept(rs, U, t)) \in Nat
    BY <1>2, FromCount, KeptCount
<1> HIDE DEF p, new
<1>7. History(p, n)
    <2>1. \A i \in 1..Len(p) : (i \in 1..Len(q) /\ p[i] = q[i]) \/ (i = Len(q) + 1 /\ p[i] = n)
        BY <1>2, <1>3
    <2>2. \A i \in 1..Len(p) : p[i] <= n
        BY <1>1, <2>1 DEF History
    <2>3. ASSUME NEW i \in 1..Len(p), NEW j \in 1..Len(p), i <= j
          PROVE  p[i] <= p[j]
        <3>1. CASE j = Len(q) + 1
            BY <1>3, <2>2, <3>1
        <3>2. CASE j \in 1..Len(q)
            <4>1. i \in 1..Len(q)
                BY <1>2, <2>3, <3>2
            <4> QED BY <1>1, <1>3, <2>3, <3>2, <4>1 DEF History
        <3> QED BY <2>1, <3>1, <3>2
    <2> QED BY <1>3, <2>2, <2>3 DEF History
<1>8. NeverMore(p, new, U)
    <2> SUFFICES ASSUME NEW t \in Int
                 PROVE  Cardinality(From(p, t)) <= Cardinality(Kept(new, U, t))
        BY DEF NeverMore
    <2>1. Cardinality(From(q, t)) <= Cardinality(Kept(rs, U, t))
        BY <1>1 DEF NeverMore
    <2>2. /\ Cardinality(From(p, t)) =
             IF t <= n THEN Cardinality(From(q, t)) + 1 ELSE Cardinality(From(q, t))
          /\ Cardinality(Kept(new, U, t)) =
             IF t <= n THEN Cardinality(Kept(rs, U, t)) + 1 ELSE Cardinality(Kept(rs, U, t))
        BY <1>5
    <2>3. Cardinality(From(q, t)) \in Nat /\ Cardinality(Kept(rs, U, t)) \in Nat
        BY <1>6
    <2> QED BY <2>1, <2>2, <2>3
<1>9. NeverLess(p, new, U, n)
    <2> SUFFICES ASSUME \A i \in DOMAIN new : Charged(new[i]), NEW t \in Int, n - Window < t
                 PROVE  Cardinality(Kept(new, U, t)) <= Cardinality(From(p, t))
        BY DEF NeverLess
    <2>1. \A i \in DOMAIN rs : Charged(rs[i])
        BY <1>4
    <2>2. Cardinality(Kept(rs, U, t)) <= Cardinality(From(q, t))
        BY <1>1, <2>1 DEF NeverLess
    <2>3. /\ Cardinality(From(p, t)) =
             IF t <= n THEN Cardinality(From(q, t)) + 1 ELSE Cardinality(From(q, t))
          /\ Cardinality(Kept(new, U, t)) =
             IF t <= n THEN Cardinality(Kept(rs, U, t)) + 1 ELSE Cardinality(Kept(rs, U, t))
        BY <1>5
    <2>4. Cardinality(From(q, t)) \in Nat /\ Cardinality(Kept(rs, U, t)) \in Nat
        BY <1>6
    <2> QED BY <2>2, <2>3, <2>4
<1> QED BY <1>7, <1>8, <1>9 DEF p, new, Tracks

\* A reservation of another session leaves a session's deque and account alone.
LEMMA TracksOtherReserved ==
    ASSUME NEW n \in Nat, NEW rs \in Seq(Run), NEW U, NEW q, Tracks(q, rs, U, n),
           NEW r \in Run, Charged(r), r.session \notin U
    PROVE  Tracks(q, Append(rs, r), U, n)
<1>1. \A t \in Int : Cardinality(Kept(Append(rs, r), U, t)) = Cardinality(Kept(rs, U, t))
    BY KeptAppended
<1>2. (\A i \in DOMAIN Append(rs, r) : Charged(Append(rs, r)[i])) =>
        \A i \in DOMAIN rs : Charged(rs[i])
    <2>1. /\ Append(rs, r) \in Seq(Run) /\ Len(Append(rs, r)) = Len(rs) + 1 /\ Len(rs) \in Nat
          /\ \A i \in 1..Len(rs) : Append(rs, r)[i] = rs[i]
        BY AppendProperties, LenProperties
    <2>2. DOMAIN rs = 1..Len(rs) /\ DOMAIN Append(rs, r) = 1..(Len(rs) + 1)
        BY <2>1, LenProperties
    <2> QED BY <2>1, <2>2
<1> QED BY <1>1, <1>2 DEF Tracks, NeverMore, NeverLess

\* refund's pop.
Popped(q) == IF q = <<>> THEN <<>> ELSE SubSeq(q, 1, Len(q) - 1)

\* A refund keeps the account of the deques it takes a stamp from, although the stamp
\* it takes may be a later run's: from a moment between the two times on there is one
\* stamp less and no run less, and never the other way round.
LEMMA TracksRefunded ==
    ASSUME NEW n \in Nat, NEW rs \in Seq(Run), NEW U, NEW q, Tracks(q, rs, U, n),
           NEW i \in DOMAIN rs, Charged(rs[i]), rs[i].session \in U,
           NEW r \in Run, ~Charged(r)
    PROVE  Tracks(Popped(q), [rs EXCEPT ![i] = r], U, n) /\ Len(Popped(q)) <= Len(q)
<1> DEFINE p == Popped(q)
           new == [rs EXCEPT ![i] = r]
<1>1. History(q, n) /\ NeverMore(q, rs, U)
    BY DEF Tracks
<1>2. q \in Seq(Nat) /\ Len(q) \in Nat /\ \A k \in 1..Len(q) : q[k] \in Nat
    BY <1>1, LenProperties, ElementOfSeq DEF History
<1>3. \A t \in Int :
        /\ Cardinality(Kept(new, U, t)) =
             IF t <= rs[i].at THEN Cardinality(Kept(rs, U, t)) - 1
             ELSE Cardinality(Kept(rs, U, t))
        /\ Cardinality(Kept(rs, U, t)) \in Nat
        /\ Cardinality(Kept(new, U, t)) \in Nat
        /\ Cardinality(From(q, t)) \in Nat
    <2> SUFFICES ASSUME NEW t \in Int
                 PROVE  /\ Cardinality(Kept(new, U, t)) =
                             IF t <= rs[i].at THEN Cardinality(Kept(rs, U, t)) - 1
                             ELSE Cardinality(Kept(rs, U, t))
                        /\ Cardinality(Kept(rs, U, t)) \in Nat
                        /\ Cardinality(Kept(new, U, t)) \in Nat
                        /\ Cardinality(From(q, t)) \in Nat
        OBVIOUS
    <2>1. new \in Seq(Run)
        <3>1. i \in 1..Len(rs)
            BY LenProperties
        <3> QED BY <3>1, ExceptSeq
    <2>2. Cardinality(Kept(new, U, t)) \in Nat
        BY <2>1, KeptCount
    <2>3. Cardinality(Kept(rs, U, t)) \in Nat /\ Cardinality(From(q, t)) \in Nat
        BY <1>2, KeptCount, FromCount
    <2>4. Cardinality(Kept(new, U, t)) =
             IF rs[i].session \in U /\ t <= rs[i].at THEN Cardinality(Kept(rs, U, t)) - 1
             ELSE Cardinality(Kept(rs, U, t))
        BY KeptRefunded
    <2> HIDE DEF new
    <2> QED BY <2>2, <2>3, <2>4
<1>4. NeverLess(p, new, U, n)
    <2>1. i \in DOMAIN new /\ ~Charged(new[i])
        OBVIOUS
    <2> QED BY <2>1 DEF NeverLess
<1>5. CASE q = <<>>
    <2>1. p = <<>> /\ p = q
        BY <1>5 DEF Popped
    <2>2. \A t \in Int : From(p, t) = {}
        BY <2>1 DEF From
    <2>3. \A t \in Int : Cardinality(From(p, t)) = 0
        BY <2>2, FS_EmptySet
    <2>4. NeverMore(p, new, U)
        <3> SUFFICES ASSUME NEW t \in Int
                     PROVE  Cardinality(From(p, t)) <= Cardinality(Kept(new, U, t))
            BY DEF NeverMore
        <3>1. Cardinality(From(p, t)) = 0 /\ Cardinality(Kept(new, U, t)) \in Nat
            BY <1>3, <2>3
        <3> QED BY <3>1
    <2>5. Len(p) <= Len(q)
        BY <1>2, <2>1
    <2> HIDE DEF p, new
    <2> QED BY <1>1, <1>4, <2>1, <2>4, <2>5 DEF p, new, Tracks
<1>6. CASE q # <<>>
    <2>1. p = SubSeq(q, 1, Len(q) - 1) /\ Len(q) \in Nat \ {0}
        BY <1>2, <1>6, EmptySeq DEF Popped
    <2>2. p \in Seq(Nat) /\ Len(p) = Len(q) - 1 /\ \A k \in 1..Len(p) : p[k] = q[k]
        <3>1. \A k \in 1..(Len(q) - 1) : q[k] \in Nat
            BY <1>2
        <3>2. /\ SubSeq(q, 1, Len(q) - 1) \in Seq(Nat)
              /\ Len(SubSeq(q, 1, Len(q) - 1)) =
                   IF 1 <= Len(q) - 1 THEN Len(q) - 1 - 1 + 1 ELSE 0
              /\ \A k \in 1..(Len(q) - 1 - 1 + 1) : SubSeq(q, 1, Len(q) - 1)[k] = q[1 + k - 1]
            BY <2>1, <3>1, SubSeqProperties
        <3>3. Len(q) - 1 - 1 + 1 = Len(q) - 1 /\ \A k \in 1..(Len(q) - 1) : 1 + k - 1 = k
            BY <2>1
        <3>4. \A l \in Nat \ {0} : (IF 1 <= l - 1 THEN l - 1 - 1 + 1 ELSE 0) = l - 1
            OBVIOUS
        <3>5. Len(SubSeq(q, 1, Len(q) - 1)) = Len(q) - 1
            BY <2>1, <3>2, <3>4, Zenon
        <3> HIDE DEF p
        <3> QED BY <2>1, <3>2, <3>3, <3>5
    <2>3. \A t \in Int : Cardinality(From(p, t)) =
             IF t <= q[Len(q)] THEN Cardinality(From(q, t)) - 1 ELSE Cardinality(From(q, t))
        BY <1>2, <1>6, <2>1, FromShortened
    <2> HIDE DEF p
    <2>4. 1..Len(p) \subseteq 1..Len(q)
        BY <1>2, <2>2
    <2>5. History(p, n)
        BY <1>1, <2>2, <2>4 DEF History
    <2>6. NeverMore(p, new, U)
        <3> SUFFICES ASSUME NEW t \in Int
                     PROVE  Cardinality(From(p, t)) <= Cardinality(Kept(new, U, t))
            BY DEF NeverMore
        <3>1. Cardinality(From(q, t)) <= Cardinality(Kept(rs, U, t))
            BY <1>1 DEF NeverMore
        <3>2. CASE t <= q[Len(q)]
            <4>1. Cardinality(From(p, t)) = Cardinality(From(q, t)) - 1
                BY <2>3, <3>2
            <4>2. /\ \/ Cardinality(Kept(new, U, t)) = Cardinality(Kept(rs, U, t)) - 1
                     \/ Cardinality(Kept(new, U, t)) = Cardinality(Kept(rs, U, t))
                  /\ Cardinality(Kept(rs, U, t)) \in Nat
                  /\ Cardinality(From(q, t)) \in Nat
                BY <1>3
            <4> QED BY <3>1, <4>1, <4>2
        <3>3. CASE ~(t <= q[Len(q)])
            <4>1. \A k \in 1..Len(q) : q[k] < t
                <5> SUFFICES ASSUME NEW k \in 1..Len(q)
                             PROVE  q[k] < t
                    OBVIOUS
                <5>1. Len(q) \in 1..Len(q) /\ k <= Len(q)
                    BY <1>2, <2>1
                <5>2. q[k] <= q[Len(q)] /\ q[k] \in Nat /\ q[Len(q)] \in Nat
                    BY <1>1, <1>2, <5>1 DEF History
                <5> QED BY <3>3, <5>2
            <4>2. From(p, t) = {}
                <5>1. DOMAIN p = 1..Len(p)
                    BY <2>2, LenProperties
                <5>2. \A k \in 1..Len(p) : p[k] = q[k] /\ q[k] < t /\ q[k] \in Nat
                    BY <1>2, <2>2, <2>4, <4>1
                <5> QED BY <5>1, <5>2 DEF From
            <4>3. Cardinality(From(p, t)) = 0
                BY <4>2, FS_EmptySet
            <4>4. Cardinality(Kept(new, U, t)) \in Nat
                BY <1>3
            <4> QED BY <4>3, <4>4
        <3> QED BY <3>2, <3>3
    <2>7. Len(p) <= Len(q)
        BY <1>2, <2>2
    <2> QED BY <1>4, <2>5, <2>6, <2>7 DEF p, Tracks
<1> QED BY <1>5, <1>6

\* A refund to another session leaves a session's deque and account alone.
LEMMA TracksOtherRefunded ==
    ASSUME NEW n \in Nat, NEW rs \in Seq(Run), NEW U, NEW q, Tracks(q, rs, U, n),
           NEW i \in DOMAIN rs, Charged(rs[i]), rs[i].session \notin U,
           NEW r \in Run, ~Charged(r)
    PROVE  Tracks(q, [rs EXCEPT ![i] = r], U, n)
<1> DEFINE new == [rs EXCEPT ![i] = r]
<1>1. \A t \in Int : Cardinality(Kept(new, U, t)) = Cardinality(Kept(rs, U, t))
    BY KeptRefunded
<1>2. i \in DOMAIN new /\ ~Charged(new[i])
    OBVIOUS
<1> HIDE DEF new
<1>3. NeverMore(q, new, U) /\ NeverLess(q, new, U, n)
    BY <1>1, <1>2 DEF Tracks, NeverMore, NeverLess
<1> QED BY <1>3 DEF new, Tracks

\* A run that goes on changes no account.
LEMMA TracksMoved ==
    ASSUME NEW n \in Nat, NEW rs \in Seq(Run), NEW U, NEW q, Tracks(q, rs, U, n),
           NEW i \in DOMAIN rs, Charged(rs[i]),
           NEW r, Charged(r), r.session = rs[i].session, r.at = rs[i].at
    PROVE  Tracks(q, [rs EXCEPT ![i] = r], U, n)
<1> DEFINE new == [rs EXCEPT ![i] = r]
<1>1. \A t \in Int : Kept(new, U, t) = Kept(rs, U, t)
    BY KeptMoved
<1>2. DOMAIN new = DOMAIN rs /\ \A j \in DOMAIN rs : j # i => new[j] = rs[j]
    OBVIOUS
<1> HIDE DEF new
<1>3. (\A j \in DOMAIN new : Charged(new[j])) => \A j \in DOMAIN rs : Charged(rs[j])
    BY <1>2
<1> QED BY <1>1, <1>3 DEF new, Tracks, NeverMore, NeverLess

\* With time fewer runs are in the window.
LEMMA TracksTick ==
    ASSUME NEW n \in Nat, NEW rs, NEW U, NEW q, Tracks(q, rs, U, n)
    PROVE  Tracks(q, rs, U, n + 1)
<1>1. History(q, n + 1)
    <2>1. \A i \in 1..Len(q) : q[i] \in Nat
        BY ElementOfSeq DEF Tracks, History
    <2> QED BY <2>1 DEF Tracks, History
<1>2. \A t \in Int : (n + 1) - Window < t => n - Window < t
    BY QuotaAssumption
<1>3. NeverLess(q, rs, U, n) => NeverLess(q, rs, U, n + 1)
    BY <1>2, Zenon DEF NeverLess
<1> QED BY <1>1, <1>3 DEF Tracks

-----------------------------------------------------------------------------
(* The steps *)

\* Nothing accounts for nothing.
LEMMA TracksNothing ==
    ASSUME NEW U
    PROVE  Tracks(<<>>, <<>>, U, 0)
<1>1. <<>> \in Seq(Nat) /\ Len(<<>>) = 0
    OBVIOUS
<1>2. \A t \in Int : From(<<>>, t) = {} /\ Kept(<<>>, U, t) = {}
    BY DEF From, Kept
<1>3. NeverMore(<<>>, <<>>, U) /\ NeverLess(<<>>, <<>>, U, 0)
    <2>1. \A t \in Int : Cardinality(From(<<>>, t)) = 0 /\ Cardinality(Kept(<<>>, U, t)) = 0
        BY <1>2, FS_EmptySet
    <2>2. \A t \in Int : Cardinality(From(<<>>, t)) <= Cardinality(Kept(<<>>, U, t))
                          /\ Cardinality(Kept(<<>>, U, t)) <= Cardinality(From(<<>>, t))
        BY <2>1
    <2> QED BY <2>2, Zenon DEF NeverMore, NeverLess
<1>4. History(<<>>, 0)
    BY <1>1 DEF History
<1> QED BY <1>3, <1>4 DEF Tracks

\* The sweep changes what the dictionary says of the caller alone: what it drops was
\* empty.
LEMMA SweptEntries ==
    ASSUME Accounted, NEW s \in Sessions
    PROVE  /\ DOMAIN Swept(s) \subseteq Sessions /\ s \in DOMAIN Swept(s)
           /\ Swept(s)[s] = Prune(Of(s), now)
           /\ \A u \in Sessions : u # s => Entry(Swept(s), u) = Of(u)
<1> DEFINE mine == IF s \in DOMAIN stamps THEN Prune(stamps[s], now) ELSE <<>>
           known == IF mine # <<>> THEN DOMAIN stamps
                    ELSE {u \in DOMAIN stamps : stamps[u] # <<>>} \cup {s}
<1>1. Swept(s) = [u \in known |-> IF u = s THEN mine ELSE stamps[u]]
    BY DEF Swept
<1>2. mine = Prune(Of(s), now)
    <2>1. Prune(<<>>, now) = <<>>
        <3>1. Len(<<>>) = 0
            OBVIOUS
        <3>2. {i \in 1..Len(<<>>) : <<>>[i] > now - Window} = {}
            BY <3>1
        <3> QED BY <3>2, Zenon DEF Prune
    <2> QED BY <2>1, Zenon DEF Of, Entry
<1>3. s \in known /\ known \subseteq DOMAIN stamps \cup {s}
    OBVIOUS
<1>4. \A u \in DOMAIN stamps : u # s /\ u \notin known => stamps[u] = <<>>
    OBVIOUS
<1> HIDE DEF mine, known
<1>5. DOMAIN Swept(s) = known /\ Swept(s)[s] = mine
    BY <1>1, <1>3
<1>6. \A u \in known : u # s => Swept(s)[u] = stamps[u]
    BY <1>1
<1>7. ASSUME NEW u \in Sessions, u # s
      PROVE  Entry(Swept(s), u) = Of(u)
    <2>1. CASE u \in known
        BY <1>3, <1>5, <1>6, <1>7, <2>1 DEF Entry, Of
    <2>2. CASE u \notin known
        BY <1>4, <1>5, <1>7, <2>2 DEF Entry, Of
    <2> QED BY <2>1, <2>2
<1>8. known \subseteq Sessions
    BY <1>3 DEF Accounted
<1> QED BY <1>2, <1>3, <1>5, <1>7, <1>8

\* Every session's deque in dictionary f is accounted for.
Served(f, rs) ==
    /\ DOMAIN f \subseteq Sessions
    /\ \A u \in Sessions : Tracks(Entry(f, u), rs, {u}, now) /\ Within(Entry(f, u), PerSession)

\* The invariant once a request has pruned and swept.
LEMMA SweptServed ==
    ASSUME Accounted, NEW s \in Sessions
    PROVE  /\ Served(Swept(s), runs)
           /\ Tracks(Prune(global, now), runs, Sessions, now)
           /\ Within(Prune(global, now), PerDeployment)
<1>1. /\ now \in Nat /\ runs \in Seq(Run)
      /\ Tracks(global, runs, Sessions, now) /\ Within(global, PerDeployment)
      /\ \A u \in Sessions : Tracks(Of(u), runs, {u}, now) /\ Within(Of(u), PerSession)
    BY DEF Accounted
<1>2. ASSUME NEW q, NEW U, NEW limit \in Nat, Tracks(q, runs, U, now), Within(q, limit)
      PROVE  Tracks(Prune(q, now), runs, U, now) /\ Within(Prune(q, now), limit)
    <2>1. Tracks(Prune(q, now), runs, U, now) /\ Len(Prune(q, now)) <= Len(q)
        BY <1>1, <1>2, TracksPruned
    <2>2. Len(Prune(q, now)) \in Nat /\ Len(q) \in Nat
        BY <1>2, <2>1, LenProperties DEF Tracks, History
    <2> QED BY <1>2, <2>1, <2>2 DEF Within
<1>3. PerSession \in Nat /\ PerDeployment \in Nat
    BY QuotaAssumption
<1>4. \A u \in Sessions :
        Entry(Swept(s), u) = IF u = s THEN Prune(Of(s), now) ELSE Of(u)
    BY SweptEntries DEF Entry
<1>5. Tracks(Prune(Of(s), now), runs, {s}, now) /\ Within(Prune(Of(s), now), PerSession)
    BY <1>1, <1>2, <1>3
<1>6. Served(Swept(s), runs)
    BY <1>1, <1>4, <1>5, SweptEntries DEF Served
<1> QED BY <1>1, <1>2, <1>3, <1>6

\* A run that is sent keeps the accounts: there was room for it in both deques.
LEMMA DispatchAccounted ==
    ASSUME Accounted, NEW s \in Sessions, Dispatch(s)
    PROVE  Accounted'
<1> DEFINE r == [status |-> "sent", session |-> s, at |-> now]
           p == Prune(global, now)
           f == Swept(s)
<1>1. now \in Nat /\ runs \in Seq(Run)
    BY DEF Accounted
<1>2. /\ r \in Run /\ Charged(r) /\ r.session = s /\ r.at = now
    BY <1>1 DEF Run, Status, Charged
<1>3. /\ ~Full(f[s], PerSession) /\ ~Full(p, PerDeployment)
      /\ global' = Append(p, now)
      /\ stamps' = [f EXCEPT ![s] = Append(@, now)]
      /\ runs' = Append(runs, r) /\ now' = now
    BY DEF Dispatch
<1>4. /\ Served(f, runs) /\ Tracks(p, runs, Sessions, now) /\ Within(p, PerDeployment)
      /\ s \in DOMAIN f
    BY SweptServed, SweptEntries
<1> HIDE DEF r, p, f
<1>5. ASSUME NEW q, NEW limit \in Nat, History(q, now), ~Full(q, limit)
      PROVE  Within(Append(q, now), limit)
    <2>1. Len(Append(q, now)) = Len(q) + 1 /\ Len(q) \in Nat
        BY <1>1, <1>5, AppendProperties, LenProperties DEF History
    <2> QED BY <1>5, <2>1 DEF Full, Within
<1>6. PerSession \in Nat /\ PerDeployment \in Nat
    BY QuotaAssumption
<1>7. Tracks(global', runs', Sessions, now') /\ Within(global', PerDeployment)
    <2>1. Tracks(Append(p, now), Append(runs, r), Sessions, now)
        BY <1>1, <1>2, <1>4, TracksReserved
    <2>2. Within(Append(p, now), PerDeployment)
        BY <1>3, <1>4, <1>5, <1>6 DEF Tracks
    <2> QED BY <1>3, <2>1, <2>2
<1>8. DOMAIN stamps' = DOMAIN f /\ stamps'[s] = Append(f[s], now)
      /\ \A u \in DOMAIN f : u # s => stamps'[u] = f[u]
    BY <1>3, <1>4
<1>9. ASSUME NEW u \in Sessions
      PROVE  Tracks(Of(u)', runs', {u}, now') /\ Within(Of(u)', PerSession)
    <2>1. Tracks(Entry(f, u), runs, {u}, now) /\ Within(Entry(f, u), PerSession)
        BY <1>4 DEF Served
    <2>2. CASE u = s
        <3>1. Entry(f, s) = f[s] /\ Of(s)' = Append(f[s], now)
            BY <1>4, <1>8 DEF Entry, Of
        <3>2. Tracks(Append(f[s], now), Append(runs, r), {s}, now)
            BY <1>1, <1>2, <2>1, <2>2, <3>1, TracksReserved
        <3>3. Within(Append(f[s], now), PerSession)
            BY <1>3, <1>5, <1>6, <2>1, <2>2, <3>1 DEF Tracks
        <3> QED BY <1>3, <2>2, <3>1, <3>2, <3>3
    <2>3. CASE u # s
        <3>1. Of(u)' = Entry(f, u)
            BY <1>8, <2>3 DEF Entry, Of
        <3>2. Tracks(Entry(f, u), Append(runs, r), {u}, now)
            BY <1>1, <1>2, <2>1, <2>3, TracksOtherReserved
        <3> QED BY <1>3, <2>1, <3>1, <3>2
    <2> QED BY <2>2, <2>3
<1>10. runs' \in Seq(Run) /\ now' \in Nat
    BY <1>1, <1>2, <1>3, AppendProperties
<1>11. DOMAIN stamps' \subseteq Sessions
    BY <1>4, <1>8 DEF Served
<1> QED BY <1>7, <1>9, <1>10, <1>11 DEF Accounted

\* A dispatch that raises keeps the accounts.
LEMMA RefundAccounted ==
    ASSUME Accounted, NEW i \in DOMAIN runs, InFlight(i), NEW status \in {"failed", "orphan"},
           runs' = [runs EXCEPT ![i].status = status], Refund(runs[i].session), now' = now
    PROVE  Accounted'
<1> DEFINE s == runs[i].session
           r == [runs[i] EXCEPT !.status = status]
<1>1. now \in Nat /\ runs \in Seq(Run) /\ DOMAIN stamps \subseteq Sessions
    BY DEF Accounted
<1>2. runs[i] \in Run
    BY <1>1, LenProperties, ElementOfSeq
<1>3. r \in Run /\ ~Charged(r) /\ Charged(runs[i]) /\ s \in Sessions
    BY <1>2 DEF Run, Status, Charged, InFlight
<1>4. /\ runs' = [runs EXCEPT ![i] = r]
      /\ global' = Popped(global)
      /\ stamps' = IF s \in DOMAIN stamps /\ stamps[s] # <<>>
                   THEN [stamps EXCEPT ![s] = SubSeq(@, 1, Len(@) - 1)]
                   ELSE stamps
    BY DEF Refund, Popped
<1> HIDE DEF r, s
<1>5. runs' \in Seq(Run)
    <2>1. i \in 1..Len(runs)
        BY <1>1, LenProperties
    <2>2. [runs EXCEPT ![i] = r] \in Seq(Run)
        BY <1>1, <1>3, <2>1, ExceptSeq
    <2> QED BY <1>4, <2>2, Zenon
<1>6. ASSUME NEW q, NEW U, NEW limit \in Nat, Tracks(q, runs, U, now), Within(q, limit),
             s \in U
      PROVE  Tracks(Popped(q), runs', U, now) /\ Within(Popped(q), limit)
    <2>1. runs[i].session \in U
        BY <1>6 DEF s
    <2>2. Tracks(Popped(q), [runs EXCEPT ![i] = r], U, now) /\ Len(Popped(q)) <= Len(q)
        BY <1>1, <1>3, <1>6, <2>1, TracksRefunded
    <2>3. Tracks(Popped(q), runs', U, now)
        BY <1>4, <2>2, Zenon
    <2>4. Len(Popped(q)) \in Nat /\ Len(q) \in Nat
        BY <1>6, <2>2, LenProperties DEF Tracks, History
    <2> QED BY <1>6, <2>2, <2>3, <2>4 DEF Within
<1>7. PerSession \in Nat /\ PerDeployment \in Nat
    BY QuotaAssumption
<1>8. Tracks(global', runs', Sessions, now') /\ Within(global', PerDeployment)
    BY <1>3, <1>4, <1>6, <1>7 DEF Accounted
<1>9. /\ DOMAIN stamps' = DOMAIN stamps
      /\ Entry(stamps', s) = Popped(Of(s))
      /\ \A u \in Sessions : u # s => Of(u)' = Of(u)
    <2>1. CASE s \in DOMAIN stamps /\ stamps[s] # <<>>
        <3>1. stamps' = [stamps EXCEPT ![s] = SubSeq(stamps[s], 1, Len(stamps[s]) - 1)]
            BY <1>4, <2>1
        <3>2. /\ DOMAIN stamps' = DOMAIN stamps /\ stamps'[s] = Popped(stamps[s])
              /\ \A u \in DOMAIN stamps : u # s => stamps'[u] = stamps[u]
            BY <2>1, <3>1, Zenon DEF Popped
        <3> QED BY <2>1, <3>2 DEF Of, Entry
    <2>2. CASE ~(s \in DOMAIN stamps /\ stamps[s] # <<>>)
        <3>1. stamps' = stamps /\ Of(s) = <<>>
            BY <1>4, <2>2, Zenon DEF Of, Entry
        <3>2. \A u : Of(u)' = Of(u)
            BY <3>1 DEF Of
        <3>3. Popped(<<>>) = <<>>
            BY DEF Popped
        <3> QED BY <2>2, <3>1, <3>2, <3>3 DEF Of
    <2> QED BY <2>1, <2>2
<1>10. ASSUME NEW u \in Sessions
       PROVE  Tracks(Of(u)', runs', {u}, now') /\ Within(Of(u)', PerSession)
    <2>1. Tracks(Of(u), runs, {u}, now) /\ Within(Of(u), PerSession)
        BY DEF Accounted
    <2>2. CASE u = s
        <3>1. Tracks(Popped(Of(u)), runs', {u}, now) /\ Within(Popped(Of(u)), PerSession)
            BY <1>6, <1>7, <2>1, <2>2
        <3>2. Of(u)' = Popped(Of(u))
            BY <1>9, <2>2, Zenon DEF Of
        <3> QED BY <3>1, <3>2
    <2>3. CASE u # s
        <3>1. Tracks(Of(u), [runs EXCEPT ![i] = r], {u}, now)
            BY <1>1, <1>3, <2>1, <2>3, TracksOtherRefunded DEF s
        <3>2. Tracks(Of(u), runs', {u}, now)
            BY <1>4, <3>1, Zenon
        <3> QED BY <1>9, <2>1, <2>3, <3>2
    <2> QED BY <2>2, <2>3
<1> QED BY <1>1, <1>5, <1>8, <1>9, <1>10 DEF Accounted

\* A dispatch that goes on keeps the accounts.
LEMMA MoveAccounted ==
    ASSUME Accounted, NEW i \in DOMAIN runs, InFlight(i), NEW status \in {"running", "done"},
           runs' = [runs EXCEPT ![i].status = status], UNCHANGED <<global, stamps, now>>
    PROVE  Accounted'
<1> DEFINE r == [runs[i] EXCEPT !.status = status]
<1>1. now \in Nat /\ runs \in Seq(Run)
    BY DEF Accounted
<1>2. runs[i] \in Run
    BY <1>1, LenProperties, ElementOfSeq
<1>3. /\ r \in Run /\ Charged(r) /\ Charged(runs[i])
      /\ r.session = runs[i].session /\ r.at = runs[i].at
    BY <1>2 DEF Run, Status, Charged, InFlight
<1>4. runs' = [runs EXCEPT ![i] = r]
    OBVIOUS
<1> HIDE DEF r
<1>5. runs' \in Seq(Run)
    <2>1. i \in 1..Len(runs)
        BY <1>1, LenProperties
    <2>2. [runs EXCEPT ![i] = r] \in Seq(Run)
        BY <1>1, <1>3, <2>1, ExceptSeq
    <2> QED BY <1>4, <2>2, Zenon
<1>6. \A q, U : Tracks(q, runs, U, now) => Tracks(q, runs', U, now)
    <2>1. \A q, U : Tracks(q, runs, U, now) => Tracks(q, [runs EXCEPT ![i] = r], U, now)
        BY <1>1, <1>3, TracksMoved
    <2> QED BY <1>4, <2>1, Zenon
<1>7. \A u \in Sessions : Of(u)' = Of(u)
    BY DEF Of
<1> QED BY <1>1, <1>5, <1>6, <1>7 DEF Accounted

\* The invariant holds initially.
LEMMA InitAccounted == Init => Accounted
<1> SUFFICES ASSUME Init PROVE Accounted
    OBVIOUS
<1>1. global = <<>> /\ runs = <<>> /\ now = 0 /\ DOMAIN stamps = {}
    BY DEF Init
<1>2. \A u \in Sessions : Of(u) = <<>>
    BY <1>1 DEF Of, Entry
<1>3. \A limit \in Nat : Within(<<>>, limit)
    BY DEF Within
<1> QED BY <1>1, <1>2, <1>3, TracksNothing, QuotaAssumption DEF Accounted

\* Every step keeps the invariant.
LEMMA NextAccounted == Accounted /\ [Next]_vars => Accounted'
<1> SUFFICES ASSUME Accounted, [Next]_vars PROVE Accounted'
    OBVIOUS
<1>1. now \in Nat /\ runs \in Seq(Run)
    BY DEF Accounted
<1>2. ASSUME NEW s \in Sessions, Refuse(s)
      PROVE  Accounted'
    <2>1. /\ global' = Prune(global, now) /\ stamps' = Swept(s)
          /\ UNCHANGED <<runs, now>>
        BY <1>2 DEF Refuse
    <2>2. /\ Served(Swept(s), runs) /\ Tracks(Prune(global, now), runs, Sessions, now)
          /\ Within(Prune(global, now), PerDeployment)
        BY SweptServed
    <2>3. \A u \in Sessions : Of(u)' = Entry(Swept(s), u)
        BY <2>1 DEF Of, Entry
    <2> QED BY <1>1, <2>1, <2>2, <2>3 DEF Accounted, Served
<1>3. ASSUME NEW s \in Sessions, Dispatch(s)
      PROVE  Accounted'
    BY <1>3, DispatchAccounted
<1>4. ASSUME NEW i \in DOMAIN runs, WorkerStarts(i) \/ DispatchSucceeds(i)
      PROVE  Accounted'
    <2>1. PICK status \in {"running", "done"} : runs' = [runs EXCEPT ![i].status = status]
        BY <1>4 DEF WorkerStarts, DispatchSucceeds
    <2>2. InFlight(i) /\ UNCHANGED <<global, stamps, now>>
        BY <1>4 DEF WorkerStarts, DispatchSucceeds, InFlight
    <2> QED BY <2>1, <2>2, MoveAccounted
<1>5. ASSUME NEW i \in DOMAIN runs, DispatchFails(i) \/ ReplyLost(i)
      PROVE  Accounted'
    <2>1. PICK status \in {"failed", "orphan"} : runs' = [runs EXCEPT ![i].status = status]
        BY <1>5 DEF DispatchFails, ReplyLost
    <2>2. InFlight(i) /\ Refund(runs[i].session) /\ now' = now
        BY <1>5 DEF DispatchFails, ReplyLost, InFlight
    <2> QED BY <2>1, <2>2, RefundAccounted
<1>6. CASE Snapshot
    <2>1. global' = Prune(global, now) /\ UNCHANGED <<stamps, runs, now>>
        BY <1>6 DEF Snapshot
    <2>2. /\ Tracks(global, runs, Sessions, now) /\ Within(global, PerDeployment)
          /\ PerDeployment \in Nat
        BY QuotaAssumption DEF Accounted
    <2>3. Tracks(Prune(global, now), runs, Sessions, now) /\ Len(Prune(global, now)) <= Len(global)
        BY <1>1, <2>2, TracksPruned
    <2>4. Len(Prune(global, now)) \in Nat /\ Len(global) \in Nat
        BY <2>2, <2>3, LenProperties DEF Tracks, History
    <2>5. Within(Prune(global, now), PerDeployment)
        BY <2>2, <2>3, <2>4 DEF Within
    <2>6. \A u \in Sessions : Of(u)' = Of(u)
        BY <2>1 DEF Of
    <2> QED BY <2>1, <2>3, <2>5, <2>6 DEF Accounted
<1>7. CASE Tick
    <2>1. now' = now + 1 /\ UNCHANGED <<global, stamps, runs>>
        BY <1>7 DEF Tick
    <2>2. \A q, U : Tracks(q, runs, U, now) => Tracks(q, runs, U, now + 1)
        BY <1>1, TracksTick
    <2>3. \A u \in Sessions : Of(u)' = Of(u)
        BY <2>1 DEF Of
    <2> QED BY <1>1, <2>1, <2>2, <2>3 DEF Accounted
<1>8. CASE UNCHANGED vars
    <2>1. UNCHANGED <<global, stamps, runs, now>>
        BY <1>8 DEF vars
    <2>2. \A u \in Sessions : Of(u)' = Of(u)
        BY <2>1 DEF Of
    <2> QED BY <2>1, <2>2 DEF Accounted
<1> QED BY <1>2, <1>3, <1>4, <1>5, <1>6, <1>7, <1>8 DEF Next

\* The invariant holds throughout.
THEOREM AccountedCorrect == Spec => []Accounted
BY InitAccounted, NextAccounted, PTL DEF Spec

-----------------------------------------------------------------------------
(* The properties *)

\* The reservations stay in order and within both limits, whatever is refused, refunded
\* or left in flight (quota.py).
THEOREM QuotaTypeCorrect == Spec => []TypeOK
<1>1. Accounted => TypeOK
    <2> SUFFICES ASSUME Accounted PROVE TypeOK
        OBVIOUS
    <2>1. ASSUME NEW q, History(q, now)
          PROVE  IsHistory(q)
        <3>1. DOMAIN q = 1..Len(q) /\ \A i \in 1..Len(q) : q[i] \in Nat
            BY <2>1, LenProperties, ElementOfSeq DEF History
        <3> QED BY <2>1, <3>1 DEF History, IsHistory, Accounted
    <2>2. ASSUME NEW u \in DOMAIN stamps
          PROVE  /\ IsHistory(stamps[u])
                 /\ PerSession > 0 => Len(stamps[u]) <= PerSession
        <3>1. u \in Sessions /\ Of(u) = stamps[u]
            BY DEF Accounted, Of, Entry
        <3> QED BY <2>1, <3>1 DEF Accounted, Tracks, Within
    <2>3. IsHistory(global) /\ (PerDeployment > 0 => Len(global) <= PerDeployment)
        BY <2>1 DEF Accounted, Tracks, Within
    <2> QED BY <2>2, <2>3 DEF Accounted, TypeOK
<1> QED BY <1>1, AccountedCorrect, PTL

\* What a run's status says of its charge.
LEMMA ChargedRuns == \A i \in DOMAIN runs : Charged(runs[i]) <=> ~Refunded(i)
BY DEF Charged, Refunded

\* As long as every dispatch was answered, no window of the configured length holds
\* more runs than the limits, in all and of each session (quota.py's reserve).
THEOREM WindowCorrect == Spec => []WindowHeld
<1>1. Accounted => WindowHeld
    <2> SUFFICES ASSUME Accounted, \A i \in DOMAIN runs : ~Refunded(i)
                 PROVE  /\ PerDeployment > 0 => Cardinality(Recent(now)) <= PerDeployment
                        /\ PerSession > 0 =>
                             \A u \in Sessions :
                                Cardinality({i \in Recent(now) : runs[i].session = u})
                                  <= PerSession
        BY DEF WindowHeld
    <2> DEFINE t == now - Window + 1
    <2>1. now \in Nat /\ t \in Int /\ now - Window < t /\ runs \in Seq(Run)
        BY QuotaAssumption DEF Accounted
    <2>2. \A i \in DOMAIN runs : runs[i] \in Run /\ Charged(runs[i])
        BY <2>1, ChargedRuns, LenProperties, ElementOfSeq
    <2>3. \A i \in DOMAIN runs : runs[i].at \in Nat /\ runs[i].session \in Sessions
        BY <2>2 DEF Run
    <2>4. \A i \in DOMAIN runs : runs[i].at >= t <=> runs[i].at > now - Window
        BY <2>1, <2>3, QuotaAssumption
    <2> HIDE DEF t
    <2>5. ASSUME NEW q, NEW U, NEW limit \in Nat, limit > 0,
                 Tracks(q, runs, U, now), Within(q, limit)
          PROVE  Cardinality(Kept(runs, U, t)) <= limit
        <3>1. Cardinality(Kept(runs, U, t)) <= Cardinality(From(q, t))
            BY <2>1, <2>2, <2>5 DEF Tracks, NeverLess
        <3>2. Cardinality(From(q, t)) <= Len(q) /\ Cardinality(From(q, t)) \in Nat
              /\ Len(q) \in Nat
            BY <2>1, <2>5, FromCount, LenProperties DEF Tracks, History
        <3>3. Cardinality(Kept(runs, U, t)) \in Nat
            BY <2>1, KeptCount
        <3> QED BY <2>5, <3>1, <3>2, <3>3 DEF Within
    <2>6. ASSUME PerDeployment > 0
          PROVE  Cardinality(Recent(now)) <= PerDeployment
        <3>1. Recent(now) = Kept(runs, Sessions, t)
            BY <2>2, <2>3, <2>4 DEF Recent, Kept
        <3> QED BY <2>5, <2>6, <3>1, QuotaAssumption DEF Accounted
    <2>7. ASSUME PerSession > 0, NEW u \in Sessions
          PROVE  Cardinality({i \in Recent(now) : runs[i].session = u}) <= PerSession
        <3>1. {i \in Recent(now) : runs[i].session = u} = Kept(runs, {u}, t)
            BY <2>2, <2>3, <2>4 DEF Recent, Kept
        <3>2. Tracks(Of(u), runs, {u}, now) /\ Within(Of(u), PerSession)
            BY DEF Accounted
        <3> QED BY <2>5, <2>7, <3>1, <3>2, QuotaAssumption
    <2> QED BY <2>6, <2>7
<1> QED BY <1>1, AccountedCorrect, PTL

\* However many dispatches fail, and although a refund takes back the newest stamp
\* whichever run it was reserved for, nobody pays for a run that was refunded
\* (quota.py's refund, create_run's except branch).
THEOREM OutageCorrect == Spec => []OutageNeverCharges
<1>1. Accounted => OutageNeverCharges
    <2> SUFFICES ASSUME Accounted, NEW t \in 0..now
                 PROVE  /\ Cardinality({k \in DOMAIN global : global[k] >= t})
                             <= Cardinality({i \in DOMAIN runs :
                                                ~Refunded(i) /\ runs[i].at >= t})
                        /\ \A u \in DOMAIN stamps :
                             Cardinality({k \in DOMAIN stamps[u] : stamps[u][k] >= t})
                               <= Cardinality({i \in DOMAIN runs :
                                                 /\ ~Refunded(i)
                                                 /\ runs[i].session = u
                                                 /\ runs[i].at >= t})
        BY DEF OutageNeverCharges
    <2>1. t \in Int /\ runs \in Seq(Run)
        BY DEF Accounted
    <2>2. \A i \in DOMAIN runs : runs[i].session \in Sessions
        <3>1. \A i \in DOMAIN runs : runs[i] \in Run
            BY <2>1, LenProperties, ElementOfSeq
        <3> QED BY <3>1 DEF Run
    <2>3. {i \in DOMAIN runs : ~Refunded(i) /\ runs[i].at >= t} = Kept(runs, Sessions, t)
        BY <2>2, ChargedRuns DEF Kept
    <2>4. {k \in DOMAIN global : global[k] >= t} = From(global, t)
        BY DEF From
    <2>5. ASSUME NEW u \in DOMAIN stamps
          PROVE  Cardinality({k \in DOMAIN stamps[u] : stamps[u][k] >= t})
                   <= Cardinality({i \in DOMAIN runs : /\ ~Refunded(i)
                                                       /\ runs[i].session = u
                                                       /\ runs[i].at >= t})
        <3>1. {i \in DOMAIN runs : ~Refunded(i) /\ runs[i].session = u /\ runs[i].at >= t}
                = Kept(runs, {u}, t)
            BY ChargedRuns DEF Kept
        <3>2. {k \in DOMAIN stamps[u] : stamps[u][k] >= t} = From(stamps[u], t)
            BY DEF From
        <3>3. u \in Sessions /\ Of(u) = stamps[u]
            BY DEF Accounted, Of, Entry
        <3>4. NeverMore(stamps[u], runs, {u})
            BY <3>3 DEF Accounted, Tracks
        <3> QED BY <2>1, <3>1, <3>2, <3>4 DEF NeverMore
    <2>6. NeverMore(global, runs, Sessions)
        BY DEF Accounted, Tracks
    <2> QED BY <2>1, <2>3, <2>4, <2>5, <2>6 DEF NeverMore
<1> QED BY <1>1, AccountedCorrect, PTL

\* Rounded up the way _retry_after rounds, the wait exceeds what is left.
LEMMA RoundedUp ==
    ASSUME NEW x \in Nat, NEW T \in Nat \ {0}
    PROVE  /\ x \div T + 1 \in Nat /\ 1 <= x \div T + 1
           /\ (x \div T + 1) * T \in Nat /\ x < (x \div T + 1) * T
<1> DEFINE k == x \div T
<1>1. x \div T \in Int /\ x \div T >= 0
    OBVIOUS
<1>2. x < T * (x \div T) + T
    OBVIOUS
<1> HIDE DEF k
<1>3. k \in Nat /\ x < T * k + T
    BY <1>1, <1>2 DEF k
<1>4. (k + 1) * T = T * k + T /\ (k + 1) * T \in Nat
    BY <1>3
<1> QED BY <1>3, <1>4 DEF k

\* The seconds named from a deque of the window outlast its oldest stamp.
LEMMA Outlasted ==
    ASSUME NEW n \in Nat, NEW p, History(p, n), Len(p) > 0, p[1] > n - Window,
           NEW t, t = n + RetryAfter(p, n) * TicksPerSec
    PROVE  t \in Int /\ p[1] <= t - Window
<1> DEFINE left == (p[1] + Window - n) \div TicksPerSec + 1
           wait == RetryAfter(p, n) * TicksPerSec
<1>1. Len(p) \in Nat /\ p[1] \in Nat
    <2>1. Len(p) \in Nat /\ 1 \in 1..Len(p)
        BY LenProperties DEF History
    <2> QED BY <2>1, ElementOfSeq DEF History
<1>2. p[1] + Window - n \in Nat /\ TicksPerSec \in Nat \ {0}
    BY <1>1, QuotaAssumption
<1>3. /\ left \in Nat /\ 1 <= left
      /\ left * TicksPerSec \in Nat /\ p[1] + Window - n < left * TicksPerSec
    BY <1>2, RoundedUp
<1>4. RetryAfter(p, n) = left
    <2>1. RetryAfter(p, n) = IF left > 1 THEN left ELSE 1
        BY DEF RetryAfter
    <2> HIDE DEF left
    <2> QED BY <1>3, <2>1
<1>5. wait \in Nat /\ p[1] + Window - n < wait
    BY <1>3, <1>4
<1>6. t = n + wait
    OBVIOUS
<1> HIDE DEF wait, left
<1> QED BY <1>1, <1>5, <1>6, QuotaAssumption

\* A deque within its limit has room once one of its stamps has left the window, and
\* one that has room keeps it.
LEMMA Freed ==
    ASSUME NEW n \in Nat, NEW p, History(p, n), NEW limit \in Nat, Within(p, limit),
           NEW t \in Int, (\E k \in 1..Len(p) : p[k] <= t - Window) \/ ~Full(p, limit)
    PROVE  ~Full(Prune(p, t), limit)
<1>1. Len(p) \in Nat /\ \A k \in 1..Len(p) : p[k] \in Nat
    BY LenProperties, ElementOfSeq DEF History
<1>2. PICK d \in 0..Len(p) :
        /\ Prune(p, t) \in Seq(Nat)
        /\ Len(Prune(p, t)) = Len(p) - d
        /\ \A i \in 1..(Len(p) - d) : p[i + d] > t - Window
    BY PruneEffect
<1>3. CASE \E k \in 1..Len(p) : p[k] <= t - Window
    <2>1. d # 0
        <3> SUFFICES ASSUME d = 0 PROVE FALSE
            OBVIOUS
        <3>1. PICK k \in 1..Len(p) : p[k] <= t - Window
            BY <1>3
        <3>2. k \in 1..(Len(p) - d) /\ k + d = k
            BY <1>1
        <3>3. p[k] > t - Window
            BY <1>2, <3>2
        <3> QED BY <1>1, <3>1, <3>3, QuotaAssumption
    <2>2. Len(Prune(p, t)) < Len(p)
        BY <1>1, <1>2, <2>1
    <2> QED BY <1>1, <1>2, <2>2 DEF Full, Within
<1>4. CASE ~Full(p, limit)
    BY <1>1, <1>2, <1>4 DEF Full
<1> QED BY <1>3, <1>4

\* As long as all runs are charged, a moment of the window is stamped in a deque
\* exactly if a run it accounts for was reserved then.
LEMMA StampedRuns ==
    ASSUME NEW n \in Nat, NEW rs \in Seq(Run), \A i \in DOMAIN rs : Charged(rs[i]),
           NEW q, NEW U, Tracks(q, rs, U, n), NEW t \in Nat, n - Window < t
    PROVE  (\E k \in DOMAIN q : q[k] = t)
             <=> (\E i \in DOMAIN rs : rs[i].session \in U /\ rs[i].at = t)
<1>1. t \in Int /\ t + 1 \in Int /\ n - Window < t + 1
    BY QuotaAssumption
<1>2. \A u \in {t, t + 1} : /\ Cardinality(From(q, u)) = Cardinality(Kept(rs, U, u))
                            /\ IsFiniteSet(From(q, u)) /\ IsFiniteSet(Kept(rs, U, u))
    <2> SUFFICES ASSUME NEW u \in {t, t + 1}
                 PROVE  /\ Cardinality(From(q, u)) = Cardinality(Kept(rs, U, u))
                        /\ IsFiniteSet(From(q, u)) /\ IsFiniteSet(Kept(rs, U, u))
        OBVIOUS
    <2>1. u \in Int /\ n - Window < u
        BY <1>1
    <2>2. /\ IsFiniteSet(From(q, u)) /\ Cardinality(From(q, u)) \in Nat
          /\ IsFiniteSet(Kept(rs, U, u)) /\ Cardinality(Kept(rs, U, u)) \in Nat
        BY <2>1, FromCount, KeptCount DEF Tracks, History
    <2>3. Cardinality(From(q, u)) <= Cardinality(Kept(rs, U, u))
        BY <2>1 DEF Tracks, NeverMore
    <2>4. Cardinality(Kept(rs, U, u)) <= Cardinality(From(q, u))
        BY <2>1 DEF Tracks, NeverLess
    <2> QED BY <2>2, <2>3, <2>4
<1>3. \A k \in DOMAIN q : q[k] \in Nat
    BY LenProperties, ElementOfSeq DEF Tracks, History
<1>4. \A i \in DOMAIN rs : rs[i].at \in Nat
    <2>1. \A i \in DOMAIN rs : rs[i] \in Run
        BY LenProperties, ElementOfSeq
    <2> QED BY <2>1 DEF Run
<1>5. (\E k \in DOMAIN q : q[k] = t) <=> From(q, t) # From(q, t + 1)
    BY <1>3 DEF From
<1>6. (\E i \in DOMAIN rs : rs[i].session \in U /\ rs[i].at = t)
        <=> Kept(rs, U, t) # Kept(rs, U, t + 1)
    BY <1>4 DEF Kept
<1>7. From(q, t + 1) \subseteq From(q, t) /\ Kept(rs, U, t + 1) \subseteq Kept(rs, U, t)
    BY <1>3, <1>4 DEF From, Kept
<1>8. From(q, t) = From(q, t + 1) <=> Cardinality(From(q, t)) = Cardinality(From(q, t + 1))
    BY <1>2, <1>7, FS_Subset
<1>9. Kept(rs, U, t) = Kept(rs, U, t + 1)
        <=> Cardinality(Kept(rs, U, t)) = Cardinality(Kept(rs, U, t + 1))
    BY <1>2, <1>7, FS_Subset
<1> QED BY <1>2, <1>5, <1>6, <1>8, <1>9

\* Retry-After is truthful for any sessions, window and limits: after the seconds a 429
\* names, both deques that reserve asks have room, whichever of them refused
\* (quota.py's reserve and _retry_after).  For a refusal by the session's limit no run
\* may have been refunded: then the session's oldest stamp stands for a run that is in
\* the deployment's deque too, and leaves both together.
THEOREM RetryCorrect == Spec => []RetryIsTruthful
<1>1. Accounted => RetryIsTruthful
    <2> SUFFICES ASSUME Accounted, NEW s \in Sessions,
                        \/ Full(Swept(s)[s], PerSession)
                        \/ Full(Prune(global, now), PerDeployment),
                        Full(Swept(s)[s], PerSession) => \A i \in DOMAIN runs : ~Refunded(i)
                 PROVE  /\ ~Full(Prune(Swept(s)[s], now + Told(s) * TicksPerSec), PerSession)
                        /\ ~Full(Prune(Prune(global, now), now + Told(s) * TicksPerSec),
                                 PerDeployment)
        BY Zenon DEF RetryIsTruthful
    <2> DEFINE mine == Swept(s)[s]
               all == Prune(global, now)
               later == now + Told(s) * TicksPerSec
    <2>1. /\ now \in Nat /\ PerSession \in Nat /\ PerDeployment \in Nat /\ runs \in Seq(Run)
          /\ s \in DOMAIN Swept(s) /\ mine = Prune(Of(s), now)
        BY QuotaAssumption, SweptEntries DEF Accounted
    <2>2. /\ Tracks(mine, runs, {s}, now) /\ Within(mine, PerSession)
          /\ Tracks(all, runs, Sessions, now) /\ Within(all, PerDeployment)
        BY <2>1, SweptServed DEF Served, Entry
    <2>3. /\ \A i \in 1..Len(mine) : mine[i] > now - Window
          /\ \A i \in 1..Len(all) : all[i] > now - Window
        BY <2>1, PruneHistory DEF Accounted, Tracks
    <2>4. /\ History(mine, now) /\ DOMAIN mine = 1..Len(mine) /\ Len(mine) \in Nat
          /\ History(all, now) /\ DOMAIN all = 1..Len(all) /\ Len(all) \in Nat
        BY <2>2, LenProperties DEF Tracks, History
    <2>5. CASE Full(mine, PerSession)
        <3> HIDE DEF mine, all, later
        <3>1. later = now + RetryAfter(mine, now) * TicksPerSec
            BY <2>5 DEF Told, mine, later
        <3>2. Len(mine) > 0
            BY <2>1, <2>4, <2>5 DEF Full
        <3>3. 1 \in 1..Len(mine) /\ mine[1] > now - Window
            BY <2>3, <2>4, <3>2
        <3>4. later \in Int /\ mine[1] <= later - Window
            BY <2>1, <2>4, <3>1, <3>2, <3>3, Outlasted
        <3>5. ~Full(Prune(mine, later), PerSession)
            BY <2>1, <2>2, <2>4, <3>3, <3>4, Freed
        <3>6. \A i \in DOMAIN runs : Charged(runs[i])
            BY <2>5, ChargedRuns DEF mine
        <3>7. mine[1] \in Nat
            BY <2>4, <3>3, ElementOfSeq DEF History
        <3>8. PICK i \in DOMAIN runs : runs[i].session \in {s} /\ runs[i].at = mine[1]
            BY <2>1, <2>2, <2>4, <3>3, <3>6, <3>7, StampedRuns
        <3>9. PICK k \in DOMAIN all : all[k] = mine[1]
            BY <2>1, <2>2, <3>3, <3>6, <3>7, <3>8, StampedRuns
        <3>10. ~Full(Prune(all, later), PerDeployment)
            BY <2>1, <2>2, <2>4, <3>4, <3>9, Freed
        <3> QED BY <3>5, <3>10 DEF mine, all, later
    <2>6. CASE ~Full(mine, PerSession)
        <3> HIDE DEF mine, all, later
        <3>1. later = now + RetryAfter(all, now) * TicksPerSec /\ Full(all, PerDeployment)
            BY <2>6 DEF Told, mine, all, later
        <3>2. Len(all) > 0
            BY <2>1, <2>4, <3>1 DEF Full
        <3>3. 1 \in 1..Len(all) /\ all[1] > now - Window
            BY <2>3, <2>4, <3>2
        <3>4. later \in Int /\ all[1] <= later - Window
            BY <2>1, <2>4, <3>1, <3>2, <3>3, Outlasted
        <3>5. ~Full(Prune(all, later), PerDeployment)
            BY <2>1, <2>2, <2>4, <3>3, <3>4, Freed
        <3>6. ~Full(Prune(mine, later), PerSession)
            BY <2>1, <2>2, <2>4, <2>6, <3>4, Freed
        <3> QED BY <3>5, <3>6 DEF mine, all, later
    <2> QED BY <2>5, <2>6
<1> QED BY <1>1, AccountedCorrect, PTL

=============================================================================
