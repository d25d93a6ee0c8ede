-------------------------- MODULE McpGateway_proofs --------------------------
(***************************************************************************)
(* Proofs about McpGateway, for any calls, queries, ages and rates: one    *)
(* call per key is under way, and nobody follows a flight without a        *)
(* leader (Flown); whatever way a query is served, the result fits the key *)
(* it was looked up under (Fitting); tokens held and tokens granted since  *)
(* any moment are together no more than came in (Budget).                  *)
(***************************************************************************)
EXTENDS McpGateway, TLAPS, SequenceTheorems, FiniteSetTheorems

AllKeys == Queries \X BOOLEAN \X Nat

\* What holds of a call by the stage it is at.
StagedAt(r) ==
    /\ pc[r] \in {"resolving", "following"} => ask[r] \in Queries
    /\ pc[r] \in {"idle", "resolving"} => r \notin unsourced /\ fallback[r] = None
    /\ resolver = r => pc[r] = "resolving"
    /\ since[r] <= now /\ sentAt[r] <= now
    /\ pc[r] = "upstream" => since[r] <= sentAt[r]

Staged == \A r \in Requests : StagedAt(r)

\* A flight is registered under the key of its leader, every leader has registered
\* its flight, and whoever follows follows a flight that is registered.
Flown ==
    /\ \A k \in DOMAIN flights :
         \E r \in Requests : flights[k] = r /\ Leading(r) /\ KeyOf(r) = k
    /\ \A r \in Requests : Leading(r) => KeyOf(r) \in DOMAIN flights /\ flights[KeyOf(r)] = r
    /\ \A r \in Requests : pc[r] = "following" => KeyOf(r) \in DOMAIN flights

\* Result v answers the query of key k and is no older than the key's bucket.
Fits(v, k) == v \in Result /\ v.of = k[1] /\ k[3] <= v.at

\* Every result that is kept or served fits the key it is kept or was looked up under.
Fitting ==
    /\ \A k \in DOMAIN cache : Fits(cache[k].result, k)
    /\ \A r \in Requests : fallback[r] # None => Fits(fallback[r], KeyOf(r))
    /\ \A r \in Requests :
         pc[r] = "served" /\ ask[r] \in Queries => Fits(result[r], KeyOf(r))

\* The tokens that were granted at time t or later.
GrantsFrom(t) == {i \in DOMAIN grants : grants[i] >= t}

\* From any moment on, the tokens granted and the tokens left are no more than what
\* the bucket could hold then and what has come in since.
Budget ==
    /\ \A i \in DOMAIN grants : grants[i] <= now
    /\ \A t \in 0..now :
         Cardinality(GrantsFrom(t)) + tokens <= Capacity + Rate * (now - t)

\* The inductive invariant.
GatewayInv == TypeOK /\ Staged /\ Flown /\ Fitting /\ Budget

-----------------------------------------------------------------------------
(* The token bucket *)

\* Finitely many tokens were granted.
LEMMA GrantCount ==
    ASSUME grants \in Seq(Nat), NEW t \in Nat
    PROVE  IsFiniteSet(GrantsFrom(t)) /\ Cardinality(GrantsFrom(t)) \in Nat
<1>1. DOMAIN grants = 1..Len(grants) /\ Len(grants) \in Nat
    BY LenProperties
<1>2. IsFiniteSet(DOMAIN grants)
    BY <1>1, FS_Interval
<1>3. GrantsFrom(t) \in SUBSET DOMAIN grants
    BY DEF GrantsFrom
<1> QED BY <1>2, <1>3, FS_Subset, FS_CardinalityType

\* One token more is granted, and one less is left.
LEMMA GrantedBudget ==
    ASSUME TypeOK, Budget, NEW r \in Requests, Granted(r), now' = now
    PROVE  Budget'
<1> DEFINE z == Len(grants) + 1
<1>1. /\ tokens \in Nat \ {0} /\ tokens' = tokens - 1
      /\ grants' = Append(grants, now)
      /\ now \in Nat /\ grants \in Seq(Nat)
    BY GatewayAssumption DEF Granted, TypeOK
<1>2. /\ DOMAIN grants = 1..Len(grants) /\ Len(grants) \in Nat
      /\ DOMAIN grants' = 1..z /\ grants'[z] = now
      /\ \A i \in DOMAIN grants : grants'[i] = grants[i]
    BY <1>1, LenProperties, AppendProperties
<1>3. DOMAIN grants' = DOMAIN grants \cup {z} /\ z \notin DOMAIN grants
    BY <1>2
<1> HIDE DEF z
<1>4. ASSUME NEW t \in 0..now
      PROVE  GrantsFrom(t)' = GrantsFrom(t) \cup {z}
    BY <1>1, <1>2, <1>3 DEF GrantsFrom
<1>5. \A i \in DOMAIN grants' : grants'[i] <= now
    BY <1>1, <1>2, <1>3 DEF Budget
<1>6. ASSUME NEW t \in 0..now
      PROVE  Cardinality(GrantsFrom(t)') + tokens' <= Capacity + Rate * (now - t)
    <2>1. IsFiniteSet(GrantsFrom(t)) /\ Cardinality(GrantsFrom(t)) \in Nat
        <3>1. t \in Nat
            BY <1>1
        <3> QED BY <1>1, <3>1, GrantCount
    <2>2. z \notin GrantsFrom(t)
        BY <1>3 DEF GrantsFrom
    <2>3. Cardinality(GrantsFrom(t)') = Cardinality(GrantsFrom(t)) + 1
        BY <1>4, <2>1, <2>2, FS_AddElement
    <2>4. Cardinality(GrantsFrom(t)) + tokens <= Capacity + Rate * (now - t)
        BY DEF Budget
    <2>5. Capacity + Rate * (now - t) \in Int
        BY <1>1, GatewayAssumption
    <2> QED BY <1>1, <2>1, <2>3, <2>4, <2>5
<1> QED BY <1>5, <1>6 DEF Budget

\* What comes in with a tick is no more than the rate, and never more than fits.
LEMMA TickBudget ==
    ASSUME TypeOK, Budget, Tick
    PROVE  Budget'
<1>1. /\ now' = now + 1 /\ tokens' = Refill /\ grants' = grants
      /\ now \in Nat /\ tokens \in Nat /\ grants \in Seq(Nat)
    BY GatewayAssumption DEF Tick, TypeOK, calls
<1>2. tokens' <= tokens + Rate /\ tokens' <= Capacity /\ tokens' \in Nat
    BY <1>1, GatewayAssumption DEF Refill
<1>3. \A i \in DOMAIN grants : grants[i] \in Nat /\ grants[i] <= now
    BY <1>1, LenProperties, ElementOfSeq DEF Budget
<1>4. ASSUME NEW t \in 0..(now + 1)
      PROVE  Cardinality(GrantsFrom(t)) + tokens' <= Capacity + Rate * (now + 1 - t)
    <2>1. CASE t = now + 1
        <3>1. GrantsFrom(t) = {}
            BY <1>1, <1>3, <2>1 DEF GrantsFrom
        <3>2. Cardinality(GrantsFrom(t)) = 0
            BY <3>1, FS_EmptySet
        <3>3. Rate * (now + 1 - t) = 0
            BY <1>1, <2>1, GatewayAssumption
        <3> QED BY <1>2, <3>2, <3>3, GatewayAssumption
    <2>2. CASE t \in 0..now
        <3>1. Cardinality(GrantsFrom(t)) + tokens <= Capacity + Rate * (now - t)
            BY <2>2 DEF Budget
        <3>2. Rate * (now + 1 - t) = Rate * (now - t) + Rate /\ Rate * (now - t) \in Int
            BY <1>1, GatewayAssumption
        <3>3. Cardinality(GrantsFrom(t)) \in Nat
            BY <1>1, <2>2, GrantCount
        <3> QED BY <1>1, <1>2, <3>1, <3>2, <3>3, GatewayAssumption
    <2> QED BY <1>1, <2>1, <2>2
<1>5. \A i \in DOMAIN grants' : grants'[i] <= now'
    BY <1>1, <1>3
<1>6. \A t \in 0..now' :
        Cardinality(GrantsFrom(t)') + tokens' <= Capacity + Rate * (now' - t)
    BY <1>1, <1>4 DEF GrantsFrom
<1> QED BY <1>5, <1>6 DEF Budget

\* A step that grants nothing and takes no time leaves the bucket as it was.
LEMMA SameBudget ==
    ASSUME Budget, UNCHANGED <<now, tokens, grants>>
    PROVE  Budget'
BY DEF Budget, GrantsFrom

\* Every step keeps the budget.
LEMMA NextBudget ==
    ASSUME TypeOK, Budget, [Next]_vars
    PROVE  Budget'
<1>1. ASSUME NEW r \in Requests, Acquire(r), now' = now
      PROVE  Budget'
    BY <1>1, GrantedBudget, SameBudget DEF Acquire
<1>2. ASSUME NEW r \in Requests, NEW q, NEW named, Lookup(r, q, named), now' = now
      PROVE  Budget'
    <2>1. Acquire(r) \/ UNCHANGED <<tokens, grants>>
        BY <1>2 DEF Lookup, Join
    <2> QED BY <1>1, <1>2, <2>1, SameBudget
<1>3. ASSUME NEW r \in Requests, NEW q \in Queries, Call(r, q)
      PROVE  Budget'
    <2>1. now' = now /\ (Lookup(r, q, TRUE) \/ UNCHANGED <<tokens, grants>>)
        BY <1>3 DEF Call
    <2> QED BY <1>2, <2>1, SameBudget
<1>4. ASSUME NEW r \in Requests, WriteCall(r)
      PROVE  Budget'
    BY <1>1, <1>4 DEF WriteCall
<1>5. ASSUME NEW r \in Requests, Resolved(r) \/ ResolveAnswers(r)
      PROVE  Budget'
    BY <1>2, <1>5 DEF Resolved, ResolveAnswers
<1>6. ASSUME NEW r \in Requests, Poll(r)
      PROVE  Budget'
    BY <1>6, GrantedBudget, SameBudget DEF Poll
<1>7. ASSUME NEW r \in Requests,
             \/ Resolve(r) \/ ResolveFails(r) \/ GivesUp(r) \/ Posts(r)
             \/ Answers(r) \/ Fails(r) \/ WriteEnds(r)
      PROVE  Budget'
    BY <1>7, SameBudget
       DEF Resolve, ResolveFails, GivesUp, Posts, Answers, Fails, WriteEnds, calls
<1>8. CASE Tick
    BY <1>8, TickBudget
<1>9. CASE UNCHANGED vars
    BY <1>9, SameBudget DEF vars, calls
<1> QED BY <1>3, <1>4, <1>5, <1>6, <1>7, <1>8, <1>9 DEF Next, Serve

-----------------------------------------------------------------------------
(* Keys *)

\* The bucket of a time begins no later than it and ends after it.
LEMMA BucketOf ==
    ASSUME NEW t \in Nat
    PROVE  t - (t % Bucket) \in Nat /\ t - (t % Bucket) <= t /\ t < t - (t % Bucket) + Bucket
<1>1. t % Bucket \in 0..(Bucket - 1)
    BY GatewayAssumption
<1>2. t % Bucket <= t
    BY GatewayAssumption
<1> QED BY <1>1, <1>2, GatewayAssumption

\* The key a query is looked up under at time t.
LEMMA KeyFacts ==
    ASSUME NEW q \in Queries, NEW t \in Nat, NEW named \in BOOLEAN
    PROVE  /\ KeyAt(q, t, named) \in AllKeys
           /\ KeyAt(q, t, named)[1] = q
           /\ KeyAt(q, t, named)[3] \in Nat
           /\ KeyAt(q, t, named)[3] <= t /\ t < KeyAt(q, t, named)[3] + Bucket
BY BucketOf DEF KeyAt, AllKeys

\* The key of a call that asks something.
LEMMA KeyOfFacts ==
    ASSUME TypeOK, NEW r \in Requests, ask[r] \in Queries
    PROVE  /\ KeyOf(r) \in AllKeys
           /\ KeyOf(r)[1] = ask[r]
           /\ KeyOf(r)[3] \in Nat
           /\ KeyOf(r)[3] <= since[r] /\ since[r] < KeyOf(r)[3] + Bucket
<1>1. since[r] \in Nat /\ (r \notin unsourced) \in BOOLEAN
    BY DEF TypeOK
<1> QED BY <1>1, KeyFacts DEF KeyOf

\* Nothing is done to call p.
Untouched(p) ==
    /\ pc'[p] = pc[p] /\ ask'[p] = ask[p] /\ since'[p] = since[p]
    /\ fallback'[p] = fallback[p] /\ sentAt'[p] = sentAt[p] /\ result'[p] = result[p]
    /\ p \in unsourced' <=> p \in unsourced

\* A call whose question stays keeps its key.
LEMMA SameKey ==
    ASSUME NEW r \in Requests, ask'[r] = ask[r], since'[r] = since[r],
           (r \in unsourced') <=> (r \in unsourced)
    PROVE  KeyOf(r)' = KeyOf(r)
<1>1. (r \notin unsourced') = (r \notin unsourced)
    OBVIOUS
<1> QED BY <1>1 DEF KeyOf, KeyAt

\* What holds of a call to which nothing is done.
LEMMA UntouchedKeeps ==
    ASSUME NEW p \in Requests, Untouched(p)
    PROVE  /\ KeyOf(p)' = KeyOf(p)
           /\ Leading(p)' <=> Leading(p)
           /\ StagedAt(p) /\ now' = now /\ (resolver' = p => resolver = p) => StagedAt(p)'
<1>1. KeyOf(p)' = KeyOf(p)
    BY SameKey DEF Untouched
<1>2. Leading(p)' <=> Leading(p)
    BY DEF Untouched, Leading, Calling
<1>3. StagedAt(p) /\ now' = now /\ (resolver' = p => resolver = p) => StagedAt(p)'
    BY DEF Untouched, StagedAt
<1> QED BY <1>1, <1>2, <1>3

-----------------------------------------------------------------------------
(* A query is looked up *)

\* The entries there were, or some of them.
Thinned == DOMAIN cache' \subseteq DOMAIN cache /\ \A k \in DOMAIN cache' : cache'[k] = cache[k]

\* What a lookup under key k makes of call r: it is served, follows, or leads.
Outcome(r, k) ==
    /\ ask'[r] = k[1] /\ since'[r] = now /\ KeyOf(r)' = k
    /\ sentAt'[r] = sentAt[r]
    /\ fallback'[r] # None => k \in DOMAIN cache /\ fallback'[r] = cache[k].result
    /\ \/ /\ pc'[r] = "served" /\ k \in DOMAIN cache /\ result'[r] = cache[k].result
          /\ flights' = flights
       \/ pc'[r] = "following" /\ k \in DOMAIN flights /\ flights' = flights
       \/ /\ pc'[r] \in {"throttled", "connecting"}
          /\ k \notin DOMAIN flights /\ flights' = Set(flights, k, r)

LEMMA LookupOutcome ==
    ASSUME TypeOK, Staged, NEW r \in Requests, NEW q \in Queries, NEW named \in BOOLEAN,
           pc[r] \in {"idle", "resolving"}, Lookup(r, q, named), sentAt' = sentAt
    PROVE  /\ Outcome(r, KeyAt(q, now, named))
           /\ Thinned
           /\ \A p \in Requests : p # r => Untouched(p)
<1> DEFINE k == KeyAt(q, now, named)
<1>1. /\ ask' = [ask EXCEPT ![r] = q] /\ since' = [since EXCEPT ![r] = now]
      /\ unsourced' = IF named THEN unsourced ELSE unsourced \cup {r}
      /\ \/ /\ Fresh(k)
            /\ pc' = [pc EXCEPT ![r] = "served"]
            /\ result' = [result EXCEPT ![r] = cache[k].result]
            /\ UNCHANGED <<cache, flights, tokens, fallback, grants>>
         \/ /\ ~Fresh(k)
            /\ fallback' = [fallback EXCEPT ![r] = IF Stale(k) THEN cache[k].result ELSE None]
            /\ cache' = IF Stale(k) THEN cache ELSE Only(cache, DOMAIN cache \ {k})
            /\ Join(r, k)
            /\ UNCHANGED result
    BY DEF Lookup
<1>2. /\ DOMAIN ask = Requests /\ DOMAIN since = Requests /\ DOMAIN pc = Requests
      /\ DOMAIN sentAt = Requests /\ DOMAIN fallback = Requests /\ DOMAIN result = Requests
      /\ unsourced \subseteq Requests /\ r \notin unsourced /\ fallback[r] = None
    BY DEF TypeOK, Staged, StagedAt
<1>3. ask'[r] = q /\ since'[r] = now /\ (r \notin unsourced') = named
    BY <1>1, <1>2
<1>4. KeyOf(r)' = k /\ k[1] = q
    BY <1>3 DEF KeyOf, KeyAt
<1> HIDE DEF k
<1>5. CASE Fresh(k)
    <2>1. /\ pc' = [pc EXCEPT ![r] = "served"]
          /\ result' = [result EXCEPT ![r] = cache[k].result]
          /\ UNCHANGED <<cache, flights, tokens, fallback, grants>>
        BY <1>1, <1>5
    <2>2. pc'[r] = "served" /\ result'[r] = cache[k].result /\ k \in DOMAIN cache
        BY <1>2, <1>5, <2>1 DEF Fresh
    <2>3. Outcome(r, k)
        BY <1>2, <1>3, <1>4, <2>1, <2>2 DEF Outcome
    <2>4. \A p \in Requests : p # r => Untouched(p)
        BY <1>1, <1>2, <2>1 DEF Untouched
    <2> QED BY <2>1, <2>3, <2>4 DEF Thinned, k
<1>6. CASE ~Fresh(k)
    <2>1. /\ fallback' = [fallback EXCEPT ![r] = IF Stale(k) THEN cache[k].result ELSE None]
          /\ cache' = IF Stale(k) THEN cache ELSE Only(cache, DOMAIN cache \ {k})
          /\ Join(r, k)
          /\ UNCHANGED result
        BY <1>1, <1>6
    <2>2. Thinned
        BY <2>1 DEF Thinned, Only
    <2>3. fallback'[r] # None => k \in DOMAIN cache /\ fallback'[r] = cache[k].result
        BY <1>2, <2>1 DEF Stale
    <2>4. PICK stage \in {"following", "connecting", "throttled"} :
            /\ pc' = [pc EXCEPT ![r] = stage]
            /\ stage = "following" => k \in DOMAIN flights /\ flights' = flights
            /\ stage # "following" => k \notin DOMAIN flights /\ flights' = Set(flights, k, r)
        BY <2>1 DEF Join, Acquire, Granted
    <2>5. pc'[r] = stage
        BY <1>2, <2>4
    <2>6. Outcome(r, k)
        BY <1>3, <1>4, <2>3, <2>4, <2>5 DEF Outcome
    <2>7. \A p \in Requests : p # r => Untouched(p)
        BY <1>1, <1>2, <2>1, <2>4 DEF Untouched
    <2> QED BY <2>2, <2>6, <2>7 DEF k
<1> QED BY <1>5, <1>6

\* A lookup keeps stages, flights and results in order.
LEMMA LookupInv ==
    ASSUME TypeOK, Staged, Flown, Fitting,
           NEW r \in Requests, NEW k \in AllKeys, pc[r] \in {"idle", "resolving"},
           Outcome(r, k), Thinned, \A p \in Requests : p # r => Untouched(p),
           k[3] <= now, now' = now, resolver' # r, resolver' \in {None, resolver}
    PROVE  Staged' /\ Flown' /\ Fitting'
<1>1. None \notin Requests /\ now \in Nat /\ sentAt[r] <= now /\ k[1] \in Queries
    BY GatewayAssumption DEF Staged, StagedAt, TypeOK, AllKeys
<1>2. \A p \in Requests : p # r => /\ KeyOf(p)' = KeyOf(p)
                                   /\ Leading(p)' <=> Leading(p)
                                   /\ StagedAt(p)'
    <2> SUFFICES ASSUME NEW p \in Requests, p # r
                 PROVE  KeyOf(p)' = KeyOf(p) /\ (Leading(p)' <=> Leading(p)) /\ StagedAt(p)'
        OBVIOUS
    <2>1. Untouched(p) /\ StagedAt(p) /\ (resolver' = p => resolver = p)
        BY <1>1 DEF Staged
    <2> QED BY <2>1, UntouchedKeeps
<1>3. StagedAt(r)'
    BY <1>1 DEF Outcome, StagedAt
<1>4. ~Leading(r) /\ KeyOf(r)' = k
    BY DEF Leading, Calling, Outcome
<1>5. Flown'
    <2>1. \A j \in DOMAIN flights :
            \E p \in Requests : flights[j] = p /\ p # r /\ Leading(p)' /\ KeyOf(p)' = j
        BY <1>2, <1>4 DEF Flown
    <2>2. CASE flights' = flights /\ pc'[r] \in {"served", "following"}
                /\ (pc'[r] = "following" => k \in DOMAIN flights)
        <3>1. ~Leading(r)'
            BY <2>2 DEF Leading, Calling
        <3>2. \A j \in DOMAIN flights' :
                \E p \in Requests : flights'[j] = p /\ Leading(p)' /\ KeyOf(p)' = j
            BY <2>1, <2>2
        <3>3. \A p \in Requests :
                Leading(p)' => KeyOf(p)' \in DOMAIN flights' /\ flights'[KeyOf(p)'] = p
            BY <1>2, <2>2, <3>1 DEF Flown
        <3>4. \A p \in Requests : pc'[p] = "following" => KeyOf(p)' \in DOMAIN flights'
            BY <1>2, <1>4, <2>2 DEF Flown, Untouched
        <3> QED BY <3>2, <3>3, <3>4 DEF Flown
    <2>3. CASE flights' = Set(flights, k, r) /\ k \notin DOMAIN flights
                /\ pc'[r] \in {"throttled", "connecting"}
        <3>1. /\ DOMAIN flights' = DOMAIN flights \cup {k} /\ flights'[k] = r
              /\ \A j \in DOMAIN flights : flights'[j] = flights[j]
            BY <2>3 DEF Set
        <3>2. Leading(r)'
            BY <1>1, <2>3 DEF Leading, Calling, Outcome
        <3>3. \A j \in DOMAIN flights' :
                \E p \in Requests : flights'[j] = p /\ Leading(p)' /\ KeyOf(p)' = j
            BY <1>4, <2>1, <3>1, <3>2
        <3>4. \A p \in Requests :
                Leading(p)' => KeyOf(p)' \in DOMAIN flights' /\ flights'[KeyOf(p)'] = p
            BY <1>2, <1>4, <3>1 DEF Flown
        <3>5. \A p \in Requests : pc'[p] = "following" => KeyOf(p)' \in DOMAIN flights'
            BY <1>2, <2>3, <3>1 DEF Flown, Untouched
        <3> QED BY <3>3, <3>4, <3>5 DEF Flown
    <2> QED BY <2>2, <2>3 DEF Outcome
<1>6. Fitting'
    <2>1. \A j \in DOMAIN cache' : Fits(cache'[j].result, j)
        BY DEF Fitting, Thinned
    <2>2. \A p \in Requests : fallback'[p] # None => Fits(fallback'[p], KeyOf(p)')
        <3> SUFFICES ASSUME NEW p \in Requests, fallback'[p] # None
                     PROVE  Fits(fallback'[p], KeyOf(p)')
            OBVIOUS
        <3>1. CASE p = r
            BY <1>4, <3>1 DEF Outcome, Fitting
        <3>2. CASE p # r
            BY <1>2, <3>2 DEF Untouched, Fitting
        <3> QED BY <3>1, <3>2
    <2>3. \A p \in Requests :
            pc'[p] = "served" /\ ask'[p] \in Queries => Fits(result'[p], KeyOf(p)')
        <3> SUFFICES ASSUME NEW p \in Requests, pc'[p] = "served", ask'[p] \in Queries
                     PROVE  Fits(result'[p], KeyOf(p)')
            OBVIOUS
        <3>1. CASE p = r
            BY <1>4, <3>1 DEF Outcome, Fitting
        <3>2. CASE p # r
            BY <1>2, <3>2 DEF Untouched, Fitting
        <3> QED BY <3>1, <3>2
    <2> QED BY <2>1, <2>2, <2>3 DEF Fitting
<1>7. Staged'
    BY <1>2, <1>3 DEF Staged
<1> QED BY <1>5, <1>6, <1>7

\* What Granted or Acquire leaves is well formed.
LEMMA AcquireType ==
    ASSUME TypeOK, NEW r \in Requests, Acquire(r)
    PROVE  /\ tokens' \in 0..Capacity
           /\ pc' \in [Requests -> Stages]
           /\ grants' \in Seq(Nat)
<1>1. /\ tokens \in 0..Capacity /\ pc \in [Requests -> Stages] /\ now \in Nat
      /\ grants \in Seq(Nat) /\ Capacity \in Nat
    BY GatewayAssumption DEF TypeOK
<1>2. \A stage \in Stages : [pc EXCEPT ![r] = stage] \in [Requests -> Stages]
    BY <1>1
<1>3. Append(grants, now) \in Seq(Nat)
    BY <1>1, AppendProperties
<1>4. "connecting" \in Stages /\ "throttled" \in Stages
    BY DEF Stages, Calling
<1>5. CASE Granted(r)
    BY <1>1, <1>2, <1>3, <1>4, <1>5 DEF Granted
<1>6. CASE /\ tokens = 0
           /\ pc' = [pc EXCEPT ![r] = "throttled"]
           /\ UNCHANGED <<tokens, grants>>
    BY <1>1, <1>2, <1>4, <1>6
<1> QED BY <1>5, <1>6 DEF Acquire

\* A lookup leaves everything well formed.
LEMMA LookupType ==
    ASSUME TypeOK, NEW r \in Requests, NEW q \in Queries, NEW named \in BOOLEAN,
           Lookup(r, q, named), now' = now, polls' = polls, sentAt' = sentAt,
           datasource' \in BOOLEAN, resolver' \in {None, resolver}
    PROVE  TypeOK'
<1> DEFINE k == KeyAt(q, now, named)
<1>1. /\ ask' = [ask EXCEPT ![r] = q] /\ since' = [since EXCEPT ![r] = now]
      /\ unsourced' = IF named THEN unsourced ELSE unsourced \cup {r}
      /\ \/ /\ Fresh(k)
            /\ pc' = [pc EXCEPT ![r] = "served"]
            /\ result' = [result EXCEPT ![r] = cache[k].result]
            /\ UNCHANGED <<cache, flights, tokens, fallback, grants>>
         \/ /\ ~Fresh(k)
            /\ fallback' = [fallback EXCEPT ![r] = IF Stale(k) THEN cache[k].result ELSE None]
            /\ cache' = IF Stale(k) THEN cache ELSE Only(cache, DOMAIN cache \ {k})
            /\ Join(r, k)
            /\ UNCHANGED result
    BY DEF Lookup
<1>2. k \in AllKeys /\ now \in Nat
    BY KeyFacts DEF TypeOK
<1> HIDE DEF k
<1>3. /\ ask' \in [Requests -> Queries \cup {Write, None}]
      /\ since' \in [Requests -> Nat] /\ unsourced' \subseteq Requests
      /\ now' \in Nat /\ datasource' \in BOOLEAN /\ resolver' \in Requests \cup {None}
      /\ polls' \in [Requests -> 0..MaxPolls]
      /\ sentAt' \in [Requests -> Nat \cup {-1}]
    BY <1>1, <1>2 DEF TypeOK
<1>4. k \in DOMAIN cache => cache[k].result \in Result
    BY DEF TypeOK
<1>5. "served" \in Stages /\ "following" \in Stages
    BY DEF Stages, Calling, Answered
<1>6. CASE Fresh(k)
    <2>1. /\ pc' = [pc EXCEPT ![r] = "served"]
          /\ result' = [result EXCEPT ![r] = cache[k].result]
          /\ UNCHANGED <<cache, flights, tokens, fallback, grants>>
        BY <1>1, <1>6
    <2>2. pc' \in [Requests -> Stages] /\ result' \in [Requests -> Result \cup {None}]
        BY <1>4, <1>5, <1>6, <2>1 DEF TypeOK, Fresh
    <2> QED BY <1>3, <2>1, <2>2 DEF TypeOK
<1>7. CASE ~Fresh(k)
    <2>1. /\ fallback' = [fallback EXCEPT ![r] = IF Stale(k) THEN cache[k].result ELSE None]
          /\ cache' = IF Stale(k) THEN cache ELSE Only(cache, DOMAIN cache \ {k})
          /\ Join(r, k)
          /\ UNCHANGED result
        BY <1>1, <1>7
    <2>2. fallback' \in [Requests -> Result \cup {None}]
        BY <1>4, <2>1 DEF TypeOK, Stale
    <2>3. /\ DOMAIN cache' \subseteq AllKeys
          /\ \A j \in DOMAIN cache' : cache'[j] \in [at : Nat, result : Result]
        BY <2>1 DEF TypeOK, Only, AllKeys
    <2>4. /\ DOMAIN flights' \subseteq AllKeys
          /\ \A j \in DOMAIN flights' : flights'[j] \in Requests
        <3>1. flights' = flights \/ flights' = Set(flights, k, r)
            BY <2>1 DEF Join
        <3> QED BY <1>2, <3>1 DEF TypeOK, Set, AllKeys
    <2>5. /\ tokens' \in 0..Capacity
          /\ pc' \in [Requests -> Stages]
          /\ grants' \in Seq(Nat)
        <3>1. CASE Acquire(r)
            BY <3>1, AcquireType
        <3>2. CASE pc' = [pc EXCEPT ![r] = "following"] /\ UNCHANGED <<tokens, grants>>
            BY <1>5, <3>2 DEF TypeOK
        <3> QED BY <2>1, <3>1, <3>2 DEF Join
    <2> QED BY <1>3, <2>1, <2>2, <2>3, <2>4, <2>5 DEF TypeOK, AllKeys
<1> QED BY <1>6, <1>7

-----------------------------------------------------------------------------
(* Other steps of one call *)

\* A step of call r that leaves cache, flights and results as they are.
LEMMA AloneInv ==
    ASSUME TypeOK, Staged, Flown, Fitting, NEW r \in Requests,
           \A p \in Requests : p # r => Untouched(p) /\ (resolver' = p => resolver = p),
           UNCHANGED <<now, cache, flights>>, StagedAt(r)',
           Leading(r)' <=> Leading(r), pc'[r] # "following",
           ~(pc'[r] = "served" /\ ask'[r] \in Queries),
           fallback'[r] = fallback[r],
           Leading(r) \/ fallback[r] # None => KeyOf(r)' = KeyOf(r)
    PROVE  Staged' /\ Flown' /\ Fitting'
<1>1. \A p \in Requests : p # r => /\ KeyOf(p)' = KeyOf(p)
                                   /\ Leading(p)' <=> Leading(p)
                                   /\ StagedAt(p)'
    BY UntouchedKeeps DEF Staged
<1>2. Staged'
    BY <1>1 DEF Staged
<1>3. Flown'
    <2>1. \A j \in DOMAIN flights' :
            \E p \in Requests : flights'[j] = p /\ Leading(p)' /\ KeyOf(p)' = j
        BY <1>1 DEF Flown
    <2>2. \A p \in Requests :
            Leading(p)' => KeyOf(p)' \in DOMAIN flights' /\ flights'[KeyOf(p)'] = p
        BY <1>1 DEF Flown
    <2>3. \A p \in Requests : pc'[p] = "following" => KeyOf(p)' \in DOMAIN flights'
        BY <1>1 DEF Flown, Untouched
    <2> QED BY <2>1, <2>2, <2>3 DEF Flown
<1>4. Fitting'
    <2>1. \A p \in Requests : fallback'[p] # None => Fits(fallback'[p], KeyOf(p)')
        BY <1>1 DEF Untouched, Fitting
    <2>2. \A p \in Requests :
            pc'[p] = "served" /\ ask'[p] \in Queries => Fits(result'[p], KeyOf(p)')
        BY <1>1 DEF Untouched, Fitting
    <2> QED BY <2>1, <2>2 DEF Fitting
<1> QED BY <1>2, <1>3, <1>4

-----------------------------------------------------------------------------
(* The end of a flight *)

\* The crew of r is served results that fit, or the error: flights, stages and results
\* stay in order, and nobody is left behind by the flight that ends.
LEMMA ConcludeInv ==
    ASSUME TypeOK, Staged, Flown, Fitting, NEW r \in Requests,
           pc[r] \in {"throttled"} \cup Calling,
           NEW s \in [Requests -> Result \cup {None}], NEW error \in {"refused", "failed"},
           Conclude(r, s, error), UNCHANGED <<now, resolver, asked>>,
           \A p \in Requests : sentAt'[p] = sentAt[p] \/ (p = r /\ sentAt'[p] = -1),
           \A f \in Crew(r) : s[f] # None /\ ask[f] \in Queries => Fits(s[f], KeyOf(f)),
           \A k \in DOMAIN cache' : Fits(cache'[k].result, k)
    PROVE  Staged' /\ Flown' /\ Fitting'
<1> DEFINE ours == {k \in DOMAIN flights : flights[k] # r}
<1>1. /\ flights' = Only(flights, ours)
      /\ result' = [f \in Requests |-> IF f \in Crew(r) THEN s[f] ELSE result[f]]
      /\ pc' = [f \in Requests |-> IF f \notin Crew(r) THEN pc[f]
                                   ELSE IF s[f] # None THEN "served" ELSE error]
    BY DEF Conclude, Land
<1>2. UNCHANGED <<ask, since, unsourced, fallback>>
    BY DEF asked
<1>3. \A p \in Requests : KeyOf(p)' = KeyOf(p)
    BY <1>2, SameKey
<1>4. \A f \in Requests : f \in Crew(r) <=> f = r \/ (pc[f] = "following" /\ KeyOf(f) = KeyOf(r))
    BY DEF Crew
<1>5. /\ \A f \in Requests : f \notin Crew(r) => pc'[f] = pc[f] /\ result'[f] = result[f]
      /\ \A f \in Requests : f \in Crew(r) => /\ result'[f] = s[f]
                                              /\ pc'[f] \in {"served", "refused", "failed"}
                                              /\ pc'[f] = "served" => s[f] # None
    BY <1>1
<1>6. /\ DOMAIN flights' = ours
      /\ \A k \in ours : flights'[k] = flights[k]
    BY <1>1 DEF Only
<1> HIDE DEF ours
<1>7. \A f \in Crew(r) : pc[f] \notin {"idle", "resolving", "served"}
    BY <1>4 DEF Crew, Calling
<1>8. Staged'
    <2> SUFFICES ASSUME NEW p \in Requests PROVE StagedAt(p)'
        BY DEF Staged
    <2>1. CASE p \in Crew(r)
        <3>1. pc'[p] \in {"served", "refused", "failed"} /\ resolver' # p
            BY <1>5, <1>7, <2>1 DEF Staged, StagedAt
        <3>2. now \in Nat /\ StagedAt(p)
            BY DEF TypeOK, Staged
        <3>3. since'[p] <= now' /\ sentAt'[p] <= now'
            BY <1>2, <3>2 DEF StagedAt
        <3> QED BY <3>1, <3>3 DEF StagedAt
    <2>2. CASE p \notin Crew(r)
        BY <1>2, <1>4, <1>5, <2>2 DEF Staged, StagedAt
    <2> QED BY <2>1, <2>2
<1>9. Flown'
    <2>1. \A p \in Requests : Leading(p)' <=> Leading(p) /\ p # r
        <3> SUFFICES ASSUME NEW p \in Requests PROVE Leading(p)' <=> Leading(p) /\ p # r
            OBVIOUS
        <3>1. CASE p \in Crew(r)
            BY <1>4, <1>5, <3>1 DEF Leading, Calling
        <3>2. CASE p \notin Crew(r)
            BY <1>2, <1>4, <1>5, <3>2 DEF Leading, Calling
        <3> QED BY <3>1, <3>2
    <2>2. \A j \in DOMAIN flights' :
            \E p \in Requests : flights'[j] = p /\ Leading(p)' /\ KeyOf(p)' = j
        <3> SUFFICES ASSUME NEW j \in ours
                     PROVE  \E p \in Requests : flights'[j] = p /\ Leading(p)' /\ KeyOf(p)' = j
            BY <1>6
        <3>1. j \in DOMAIN flights /\ flights[j] # r
            BY DEF ours
        <3>2. PICK p \in Requests : flights[j] = p /\ Leading(p) /\ KeyOf(p) = j
            BY <3>1 DEF Flown
        <3> QED BY <1>3, <1>6, <2>1, <3>1, <3>2
    <2>3. \A p \in Requests :
            Leading(p)' => KeyOf(p)' \in DOMAIN flights' /\ flights'[KeyOf(p)'] = p
        <3> SUFFICES ASSUME NEW p \in Requests, Leading(p)'
                     PROVE  KeyOf(p)' \in DOMAIN flights' /\ flights'[KeyOf(p)'] = p
            OBVIOUS
        <3>1. Leading(p) /\ p # r /\ KeyOf(p)' = KeyOf(p)
            BY <1>3, <2>1
        <3>2. KeyOf(p) \in DOMAIN flights /\ flights[KeyOf(p)] = p
            BY <3>1 DEF Flown
        <3>3. KeyOf(p) \in ours
            BY <3>1, <3>2 DEF ours
        <3> QED BY <1>6, <3>1, <3>2, <3>3
    <2>4. \A p \in Requests : pc'[p] = "following" => KeyOf(p)' \in DOMAIN flights'
        <3> SUFFICES ASSUME NEW p \in Requests, pc'[p] = "following"
                     PROVE  KeyOf(p)' \in DOMAIN flights'
            OBVIOUS
        <3>1. p \notin Crew(r) /\ pc[p] = "following" /\ KeyOf(p)' = KeyOf(p)
            BY <1>3, <1>5
        <3>2. KeyOf(p) \in DOMAIN flights /\ KeyOf(p) # KeyOf(r)
            BY <1>4, <3>1 DEF Flown
        <3>3. PICK w \in Requests : flights[KeyOf(p)] = w /\ KeyOf(w) = KeyOf(p)
            BY <3>2 DEF Flown
        <3>4. KeyOf(p) \in ours
            BY <3>2, <3>3 DEF ours
        <3> QED BY <1>6, <3>1, <3>4
    <2> QED BY <2>2, <2>3, <2>4 DEF Flown
<1>10. Fitting'
    <2>1. \A p \in Requests : fallback'[p] # None => Fits(fallback'[p], KeyOf(p)')
        BY <1>2, <1>3 DEF Fitting
    <2>2. \A p \in Requests :
            pc'[p] = "served" /\ ask'[p] \in Queries => Fits(result'[p], KeyOf(p)')
        <3> SUFFICES ASSUME NEW p \in Requests, pc'[p] = "served", ask'[p] \in Queries
                     PROVE  Fits(result'[p], KeyOf(p)')
            OBVIOUS
        <3>1. CASE p \in Crew(r)
            BY <1>2, <1>3, <1>5, <3>1
        <3>2. CASE p \notin Crew(r)
            BY <1>2, <1>3, <1>5, <3>2 DEF Fitting
        <3> QED BY <3>1, <3>2
    <2> QED BY <2>1, <2>2 DEF Fitting
<1> QED BY <1>8, <1>9, <1>10

\* What it leaves is well formed.
LEMMA ConcludeType ==
    ASSUME TypeOK, NEW r \in Requests,
           NEW s \in [Requests -> Result \cup {None}], NEW error \in {"refused", "failed"},
           Conclude(r, s, error)
    PROVE  /\ pc' \in [Requests -> Stages]
           /\ result' \in [Requests -> Result \cup {None}]
           /\ DOMAIN flights' \subseteq AllKeys
           /\ \A k \in DOMAIN flights' : flights'[k] \in Requests
<1>1. /\ flights' = Only(flights, {k \in DOMAIN flights : flights[k] # r})
      /\ result' = [f \in Requests |-> IF f \in Crew(r) THEN s[f] ELSE result[f]]
      /\ pc' = [f \in Requests |-> IF f \notin Crew(r) THEN pc[f]
                                   ELSE IF s[f] # None THEN "served" ELSE error]
    BY DEF Conclude, Land
<1>2. pc' \in [Requests -> Stages]
    BY <1>1 DEF TypeOK, Stages, Calling, Answered
<1>3. result' \in [Requests -> Result \cup {None}]
    BY <1>1 DEF TypeOK
<1>4. /\ DOMAIN flights' \subseteq AllKeys
      /\ \A k \in DOMAIN flights' : flights'[k] \in Requests
    BY <1>1 DEF TypeOK, Only, AllKeys
<1> QED BY <1>2, <1>3, <1>4

-----------------------------------------------------------------------------
(* One lemma per action *)

Ordered == TypeOK /\ Staged /\ Flown /\ Fitting

\* The first await of a query that arrives, or whose wait for the datasource is over.
LEMMA LookupOrdered ==
    ASSUME Ordered, NEW r \in Requests, NEW q \in Queries, NEW named \in BOOLEAN,
           pc[r] \in {"idle", "resolving"}, Lookup(r, q, named),
           now' = now, polls' = polls, sentAt' = sentAt, datasource' \in BOOLEAN,
           resolver' # r, resolver' \in {None, resolver}
    PROVE  Ordered'
<1>1. /\ Outcome(r, KeyAt(q, now, named)) /\ Thinned
      /\ \A p \in Requests : p # r => Untouched(p)
    BY LookupOutcome DEF Ordered
<1>2. KeyAt(q, now, named) \in AllKeys /\ KeyAt(q, now, named)[3] <= now
    BY KeyFacts DEF Ordered, TypeOK
<1>3. Staged' /\ Flown' /\ Fitting'
    BY <1>1, <1>2, LookupInv DEF Ordered
<1>4. TypeOK'
    BY LookupType DEF Ordered
<1> QED BY <1>3, <1>4 DEF Ordered

LEMMA CallOrdered ==
    ASSUME Ordered, NEW r \in Requests, NEW q \in Queries, Call(r, q)
    PROVE  Ordered'
<1>1. /\ pc[r] = "idle" /\ resolver # r /\ r \notin unsourced /\ fallback[r] = None
      /\ UNCHANGED <<now, datasource, resolver, polls, sentAt>>
    BY DEF Call, Ordered, Staged, StagedAt
<1>2. CASE Lookup(r, q, TRUE)
    <2>1. datasource' \in BOOLEAN /\ resolver' \in {None, resolver} /\ resolver' # r
        BY <1>1 DEF Ordered, TypeOK
    <2> QED BY <1>1, <1>2, <2>1, LookupOrdered
<1>3. CASE /\ pc' = [pc EXCEPT ![r] = "resolving"]
           /\ ask' = [ask EXCEPT ![r] = q]
           /\ UNCHANGED <<cache, flights, tokens, since, unsourced, fallback, grants,
                         result>>
    <2>1. pc'[r] = "resolving" /\ ask'[r] = q
        BY <1>3 DEF Ordered, TypeOK
    <2>2. \A p \in Requests : p # r => Untouched(p) /\ (resolver' = p => resolver = p)
        BY <1>1, <1>3 DEF Untouched, Ordered, TypeOK
    <2>3. StagedAt(r)'
        BY <1>1, <1>3, <2>1 DEF StagedAt, Ordered, Staged
    <2>4. ~Leading(r) /\ ~Leading(r)'
        BY <1>1, <2>1 DEF Leading, Calling
    <2>5. Staged' /\ Flown' /\ Fitting'
        BY <1>1, <1>3, <2>1, <2>2, <2>3, <2>4, AloneInv DEF Ordered
    <2>6. TypeOK'
        BY <1>1, <1>3 DEF Ordered, TypeOK, Stages, Calling
    <2> QED BY <2>5, <2>6 DEF Ordered
<1> QED BY <1>2, <1>3 DEF Call

LEMMA WriteCallOrdered ==
    ASSUME Ordered, NEW r \in Requests, WriteCall(r)
    PROVE  Ordered'
<1>1. /\ pc[r] = "idle" /\ resolver # r /\ r \notin unsourced /\ fallback[r] = None
      /\ since[r] <= now /\ sentAt[r] <= now
      /\ ask' = [ask EXCEPT ![r] = Write] /\ Acquire(r)
      /\ UNCHANGED <<now, cache, flights, datasource, resolver, since, unsourced, fallback,
                     polls, sentAt, result>>
    BY DEF WriteCall, Ordered, Staged, StagedAt
<1>2. PICK stage \in {"connecting", "throttled"} : pc' = [pc EXCEPT ![r] = stage]
    BY <1>1 DEF Acquire, Granted
<1>3. ask'[r] = Write /\ pc'[r] = stage
    BY <1>1, <1>2 DEF Ordered, TypeOK
<1>4. \A p \in Requests : p # r => Untouched(p) /\ (resolver' = p => resolver = p)
    BY <1>1, <1>2 DEF Untouched, Ordered, TypeOK
<1>5. StagedAt(r)'
    <2>1. now \in Nat /\ now' = now /\ since'[r] = since[r] /\ resolver' # r
        BY <1>1 DEF Ordered, TypeOK
    <2> QED BY <1>1, <1>3, <2>1 DEF StagedAt
<1>6. Write \notin Queries /\ ~Leading(r) /\ ~Leading(r)' /\ pc'[r] \notin {"following", "served"}
    BY <1>1, <1>3, GatewayAssumption DEF Leading, Calling
<1>7. Staged' /\ Flown' /\ Fitting'
    BY <1>1, <1>4, <1>5, <1>6, AloneInv DEF Ordered
<1>8. TypeOK'
    <2>1. ask' \in [Requests -> Queries \cup {Write, None}]
        BY <1>1 DEF Ordered, TypeOK
    <2>2. /\ tokens' \in 0..Capacity /\ pc' \in [Requests -> Stages]
          /\ grants' \in Seq(Nat)
        BY <1>1, AcquireType DEF Ordered
    <2> QED BY <1>1, <2>1, <2>2 DEF Ordered, TypeOK
<1> QED BY <1>7, <1>8 DEF Ordered

LEMMA ResolveOrdered ==
    ASSUME Ordered, NEW r \in Requests, Resolve(r)
    PROVE  Ordered'
<1>1. /\ pc[r] = "resolving" /\ resolver' = r
      /\ UNCHANGED <<now, cache, flights, tokens, datasource, pc, ask, since, unsourced,
                     fallback, polls, grants, sentAt, result>>
    BY DEF Resolve, calls, asked
<1>2. \A p \in Requests : p # r => Untouched(p) /\ (resolver' = p => resolver = p)
    BY <1>1 DEF Untouched
<1>3. StagedAt(r)'
    BY <1>1 DEF StagedAt, Ordered, Staged
<1>4. (Leading(r)' <=> Leading(r)) /\ KeyOf(r)' = KeyOf(r)
    BY <1>1 DEF Leading, Calling, KeyOf, KeyAt
<1>5. Staged' /\ Flown' /\ Fitting'
    BY <1>1, <1>2, <1>3, <1>4, AloneInv DEF Ordered
<1>6. TypeOK'
    BY <1>1 DEF Ordered, TypeOK
<1> QED BY <1>5, <1>6 DEF Ordered

LEMMA ResolvedOrdered ==
    ASSUME Ordered, NEW r \in Requests, Resolved(r)
    PROVE  Ordered'
<1>1. /\ pc[r] = "resolving" /\ resolver = None /\ Lookup(r, ask[r], TRUE)
      /\ UNCHANGED <<now, datasource, resolver, polls, sentAt>>
    BY DEF Resolved
<1>2. ask[r] \in Queries /\ datasource' \in BOOLEAN /\ resolver' # r
    BY <1>1, GatewayAssumption DEF Ordered, TypeOK, Staged, StagedAt
<1> QED BY <1>1, <1>2, LookupOrdered

LEMMA ResolveAnswersOrdered ==
    ASSUME Ordered, NEW r \in Requests, ResolveAnswers(r)
    PROVE  Ordered'
<1>1. /\ resolver = r /\ resolver' = None /\ datasource' \in BOOLEAN
      /\ Lookup(r, ask[r], datasource') /\ UNCHANGED <<now, polls, sentAt>>
    BY DEF ResolveAnswers
<1>2. pc[r] = "resolving" /\ ask[r] \in Queries /\ resolver' # r
    BY <1>1, GatewayAssumption DEF Ordered, Staged, StagedAt
<1> QED BY <1>1, <1>2, LookupOrdered

LEMMA ResolveFailsOrdered ==
    ASSUME Ordered, NEW r \in Requests, ResolveFails(r)
    PROVE  Ordered'
<1>1. /\ pc[r] = "resolving" /\ resolver' = None /\ pc' = [pc EXCEPT ![r] = "failed"]
      /\ UNCHANGED <<now, cache, flights, tokens, datasource, ask, since, unsourced,
                     fallback, polls, grants, sentAt, result>>
    BY DEF ResolveFails, asked, Ordered, Staged, StagedAt
<1>2. pc'[r] = "failed" /\ resolver' # r
    BY <1>1, GatewayAssumption DEF Ordered, TypeOK
<1>3. \A p \in Requests : p # r => Untouched(p) /\ (resolver' = p => resolver = p)
    BY <1>1, GatewayAssumption DEF Untouched, Ordered, TypeOK
<1>4. StagedAt(r)'
    BY <1>1, <1>2 DEF StagedAt, Ordered, Staged
<1>5. ~Leading(r) /\ ~Leading(r)' /\ KeyOf(r)' = KeyOf(r)
    BY <1>1, <1>2 DEF Leading, Calling, KeyOf, KeyAt
<1>6. Staged' /\ Flown' /\ Fitting'
    BY <1>1, <1>2, <1>3, <1>4, <1>5, AloneInv DEF Ordered
<1>7. TypeOK'
    BY <1>1 DEF Ordered, TypeOK, Stages, Calling, Answered
<1> QED BY <1>6, <1>7 DEF Ordered

LEMMA PollOrdered ==
    ASSUME Ordered, NEW r \in Requests, Poll(r)
    PROVE  Ordered'
<1>1. /\ pc[r] = "throttled"
      /\ UNCHANGED <<now, cache, flights, datasource, resolver, ask, since, unsourced,
                     fallback, sentAt, result>>
    BY DEF Poll, asked
<1>2. PICK stage \in {"connecting", "throttled"} : pc' = [pc EXCEPT ![r] = stage]
    <2>1. CASE Granted(r)
        BY <2>1 DEF Granted
    <2>2. CASE UNCHANGED <<tokens, pc, grants>>
        BY <1>1, <2>2 DEF Ordered, TypeOK
    <2> QED BY <2>1, <2>2 DEF Poll
<1>3. pc'[r] = stage
    BY <1>2 DEF Ordered, TypeOK
<1>4. \A p \in Requests : p # r => Untouched(p) /\ (resolver' = p => resolver = p)
    BY <1>1, <1>2 DEF Untouched, Ordered, TypeOK
<1>5. StagedAt(r)'
    <2>1. now \in Nat /\ StagedAt(r)
        BY DEF Ordered, TypeOK, Staged
    <2> QED BY <1>1, <1>3, <2>1 DEF StagedAt
<1>6. (Leading(r)' <=> Leading(r)) /\ KeyOf(r)' = KeyOf(r)
    BY <1>1, <1>3 DEF Leading, Calling, KeyOf, KeyAt
<1>7. pc'[r] \notin {"following", "served"} /\ fallback'[r] = fallback[r]
    BY <1>1, <1>3
<1>8. Staged' /\ Flown' /\ Fitting'
    BY <1>1, <1>4, <1>5, <1>6, <1>7, AloneInv DEF Ordered
<1>9. TypeOK'
    <2>1. CASE Granted(r) /\ polls' = [polls EXCEPT ![r] = 0]
        <3>1. /\ tokens' \in 0..Capacity /\ pc' \in [Requests -> Stages]
              /\ grants' \in Seq(Nat)
            BY <2>1, AcquireType DEF Acquire, Ordered
        <3>2. polls' \in [Requests -> 0..MaxPolls]
            BY <2>1, GatewayAssumption DEF Ordered, TypeOK
        <3> QED BY <1>1, <3>1, <3>2 DEF Ordered, TypeOK
    <2>2. CASE /\ polls[r] < MaxPolls
               /\ polls' = [polls EXCEPT ![r] = @ + 1]
               /\ UNCHANGED <<tokens, pc, grants>>
        <3>1. polls' \in [Requests -> 0..MaxPolls]
            BY <2>2, GatewayAssumption DEF Ordered, TypeOK
        <3> QED BY <1>1, <2>2, <3>1 DEF Ordered, TypeOK
    <2> QED BY <2>1, <2>2 DEF Poll
<1> QED BY <1>8, <1>9 DEF Ordered

LEMMA PostsOrdered ==
    ASSUME Ordered, NEW r \in Requests, Posts(r)
    PROVE  Ordered'
<1>1. /\ pc[r] = "connecting" /\ pc' = [pc EXCEPT ![r] = "upstream"]
      /\ sentAt' = [sentAt EXCEPT ![r] = now]
      /\ UNCHANGED <<now, cache, flights, tokens, datasource, resolver, ask, since, unsourced,
                     fallback, polls, grants, result>>
    BY DEF Posts, asked
<1>2. pc'[r] = "upstream" /\ sentAt'[r] = now
    BY <1>1 DEF Ordered, TypeOK
<1>3. \A p \in Requests : p # r => Untouched(p) /\ (resolver' = p => resolver = p)
    BY <1>1 DEF Untouched, Ordered, TypeOK
<1>4. StagedAt(r)'
    <2>1. now \in Nat /\ StagedAt(r)
        BY DEF Ordered, TypeOK, Staged
    <2> QED BY <1>1, <1>2, <2>1 DEF StagedAt
<1>5. (Leading(r)' <=> Leading(r)) /\ KeyOf(r)' = KeyOf(r)
    BY <1>1, <1>2 DEF Leading, Calling, KeyOf, KeyAt
<1>6. Staged' /\ Flown' /\ Fitting'
    BY <1>1, <1>2, <1>3, <1>4, <1>5, AloneInv DEF Ordered
<1>7. TypeOK'
    BY <1>1 DEF Ordered, TypeOK, Stages, Calling
<1> QED BY <1>6, <1>7 DEF Ordered

LEMMA WriteEndsOrdered ==
    ASSUME Ordered, NEW r \in Requests, WriteEnds(r)
    PROVE  Ordered'
<1>1. /\ pc[r] \in Calling /\ ask[r] = Write /\ sentAt' = [sentAt EXCEPT ![r] = -1]
      /\ UNCHANGED <<now, cache, flights, tokens, datasource, resolver, ask, since, unsourced,
                     fallback, polls, grants, result>>
    BY DEF WriteEnds, asked
<1>2. PICK answer \in {"served", "failed"} : pc' = [pc EXCEPT ![r] = answer]
    BY DEF WriteEnds
<1>3. pc'[r] = answer /\ ask'[r] \notin Queries /\ sentAt'[r] = -1
    BY <1>1, <1>2, GatewayAssumption DEF Ordered, TypeOK
<1>4. \A p \in Requests : p # r => Untouched(p) /\ (resolver' = p => resolver = p)
    BY <1>1, <1>2 DEF Untouched, Ordered, TypeOK
<1>5. StagedAt(r)'
    <2>1. now \in Nat /\ StagedAt(r)
        BY DEF Ordered, TypeOK, Staged
    <2> QED BY <1>1, <1>3, <2>1 DEF StagedAt, Calling
<1>6. ~Leading(r) /\ ~Leading(r)' /\ KeyOf(r)' = KeyOf(r)
    BY <1>1, <1>3 DEF Leading, Calling, KeyOf, KeyAt
<1>7. Staged' /\ Flown' /\ Fitting'
    BY <1>1, <1>3, <1>4, <1>5, <1>6, AloneInv DEF Ordered
<1>8. TypeOK'
    BY <1>1, <1>2 DEF Ordered, TypeOK, Stages, Calling, Answered
<1> QED BY <1>7, <1>8 DEF Ordered

LEMMA GivesUpOrdered ==
    ASSUME Ordered, NEW r \in Requests, GivesUp(r)
    PROVE  Ordered'
<1> DEFINE s == [f \in Requests |-> fallback[r]]
<1>1. /\ pc[r] = "throttled" /\ Conclude(r, s, "refused")
      /\ polls' = [polls EXCEPT ![r] = 0]
      /\ UNCHANGED <<now, cache, tokens, datasource, resolver, asked, grants, sentAt>>
    BY DEF GivesUp
<1>2. s \in [Requests -> Result \cup {None}]
    BY DEF Ordered, TypeOK
<1>3. \A f \in Crew(r) : s[f] # None => Fits(s[f], KeyOf(f))
    <2> SUFFICES ASSUME NEW f \in Crew(r), fallback[r] # None
                 PROVE  Fits(fallback[r], KeyOf(f))
        BY DEF Crew
    <2>1. Fits(fallback[r], KeyOf(r)) /\ KeyOf(f) = KeyOf(r)
        BY DEF Crew, Ordered, Fitting
    <2> QED BY <2>1
<1>4. \A k \in DOMAIN cache' : Fits(cache'[k].result, k)
    BY <1>1 DEF Ordered, Fitting
<1> HIDE DEF s
<1>5. Staged' /\ Flown' /\ Fitting'
    BY <1>1, <1>2, <1>3, <1>4, ConcludeInv DEF Ordered
<1>6. /\ pc' \in [Requests -> Stages]
      /\ result' \in [Requests -> Result \cup {None}]
      /\ DOMAIN flights' \subseteq AllKeys
      /\ \A k \in DOMAIN flights' : flights'[k] \in Requests
    BY <1>1, <1>2, ConcludeType DEF Ordered
<1>7. TypeOK'
    <2>1. polls' \in [Requests -> 0..MaxPolls]
        BY <1>1, GatewayAssumption DEF Ordered, TypeOK
    <2> QED BY <1>1, <1>6, <2>1 DEF Ordered, TypeOK, asked, AllKeys
<1> QED BY <1>5, <1>7 DEF Ordered

LEMMA FailsOrdered ==
    ASSUME Ordered, NEW r \in Requests, Fails(r)
    PROVE  Ordered'
<1>1. /\ pc[r] \in Calling /\ Conclude(r, fallback, "failed")
      /\ sentAt' = [sentAt EXCEPT ![r] = -1]
      /\ UNCHANGED <<now, cache, tokens, datasource, resolver, asked, polls, grants>>
    BY DEF Fails
<1>2. fallback \in [Requests -> Result \cup {None}]
    BY DEF Ordered, TypeOK
<1>3. \A f \in Crew(r) : fallback[f] # None => Fits(fallback[f], KeyOf(f))
    BY DEF Crew, Ordered, Fitting
<1>4. \A k \in DOMAIN cache' : Fits(cache'[k].result, k)
    BY <1>1 DEF Ordered, Fitting
<1>5. Staged' /\ Flown' /\ Fitting'
    BY <1>1, <1>2, <1>3, <1>4, ConcludeInv DEF Ordered
<1>6. /\ pc' \in [Requests -> Stages]
      /\ result' \in [Requests -> Result \cup {None}]
      /\ DOMAIN flights' \subseteq AllKeys
      /\ \A k \in DOMAIN flights' : flights'[k] \in Requests
    BY <1>1, <1>2, ConcludeType DEF Ordered
<1>7. TypeOK'
    BY <1>1, <1>6 DEF Ordered, TypeOK, asked, AllKeys
<1> QED BY <1>5, <1>7 DEF Ordered

\* The answer was asked for after the leader was looked up, and so fits the key that
\* all of the crew were looked up under.
LEMMA AnswersOrdered ==
    ASSUME Ordered, NEW r \in Requests, Answers(r)
    PROVE  Ordered'
<1> DEFINE new  == [of |-> ask[r], at |-> sentAt[r]]
           s    == [f \in Requests |-> new]
           kept == Only(cache, {k \in DOMAIN cache : Age(k) <= StaleMax})
<1>1. /\ pc[r] = "upstream" /\ ask[r] \in Queries
      /\ cache' = Set(kept, KeyOf(r), [at |-> now, result |-> new])
      /\ Conclude(r, s, "failed")
      /\ sentAt' = [sentAt EXCEPT ![r] = -1]
      /\ UNCHANGED <<now, tokens, datasource, resolver, asked, polls, grants>>
    BY DEF Answers
<1>2. /\ now \in Nat /\ since[r] \in Nat /\ since[r] <= sentAt[r]
      /\ sentAt[r] \in Nat
      /\ KeyOf(r) \in AllKeys /\ KeyOf(r)[1] = ask[r] /\ KeyOf(r)[3] \in Nat
      /\ KeyOf(r)[3] <= since[r]
    <2>1. since[r] \in Nat /\ since[r] <= sentAt[r] /\ sentAt[r] \in Nat \cup {-1} /\ now \in Nat
        BY <1>1 DEF Ordered, TypeOK, Staged, StagedAt
    <2>2. sentAt[r] \in Nat
        BY <2>1
    <2> QED BY <1>1, <2>1, <2>2, KeyOfFacts DEF Ordered
<1>3. new \in Result /\ Fits(new, KeyOf(r))
    BY <1>1, <1>2 DEF Result, Fits
<1>4. DOMAIN kept \subseteq DOMAIN cache /\ \A k \in DOMAIN kept : kept[k] = cache[k]
    BY DEF Only
<1> HIDE DEF new, kept
<1>5. s \in [Requests -> Result \cup {None}] /\ \A f \in Requests : s[f] = new
    BY <1>3
<1> HIDE DEF s
<1>6. \A f \in Crew(r) : f \in Requests /\ KeyOf(f) = KeyOf(r)
    BY DEF Crew
<1>7. /\ DOMAIN cache' = DOMAIN kept \cup {KeyOf(r)}
      /\ cache'[KeyOf(r)] = [at |-> now, result |-> new]
      /\ \A k \in DOMAIN kept : k # KeyOf(r) => cache'[k] = cache[k]
    BY <1>1, <1>4 DEF Set
<1>8. \A k \in DOMAIN cache' : Fits(cache'[k].result, k)
    BY <1>3, <1>4, <1>7 DEF Ordered, Fitting
<1>9. Staged' /\ Flown' /\ Fitting'
    <2>1. \A p \in Requests : sentAt'[p] = sentAt[p] \/ (p = r /\ sentAt'[p] = -1)
        BY <1>1 DEF Ordered, TypeOK
    <2>2. pc[r] \in {"throttled"} \cup Calling
        BY <1>1 DEF Calling
    <2>3. \A f \in Crew(r) : s[f] # None /\ ask[f] \in Queries => Fits(s[f], KeyOf(f))
        BY <1>3, <1>5, <1>6
    <2> QED BY <1>1, <1>5, <1>8, <2>1, <2>2, <2>3, ConcludeInv DEF Ordered
<1>10. /\ pc' \in [Requests -> Stages]
       /\ result' \in [Requests -> Result \cup {None}]
       /\ DOMAIN flights' \subseteq AllKeys
       /\ \A k \in DOMAIN flights' : flights'[k] \in Requests
    BY <1>1, <1>5, ConcludeType DEF Ordered
<1>11. /\ DOMAIN cache' \subseteq AllKeys
       /\ \A k \in DOMAIN cache' : cache'[k] \in [at : Nat, result : Result]
    BY <1>2, <1>3, <1>4, <1>7 DEF Ordered, TypeOK, AllKeys
<1>12. TypeOK'
    BY <1>1, <1>10, <1>11 DEF Ordered, TypeOK, asked, AllKeys
<1> QED BY <1>9, <1>12 DEF Ordered

LEMMA TickOrdered ==
    ASSUME Ordered, Tick
    PROVE  Ordered'
<1>1. /\ now' = now + 1 /\ tokens' = Refill
      /\ UNCHANGED <<cache, flights, datasource, resolver, pc, ask, since, unsourced,
                     fallback, polls, grants, sentAt, result>>
    BY DEF Tick, calls, asked
<1>2. tokens' \in 0..Capacity
    BY <1>1, GatewayAssumption DEF Refill, Ordered, TypeOK
<1>3. TypeOK'
    BY <1>1, <1>2 DEF Ordered, TypeOK
<1>4. \A p \in Requests : KeyOf(p)' = KeyOf(p) /\ (Leading(p)' <=> Leading(p))
    BY <1>1 DEF KeyOf, KeyAt, Leading, Calling
<1>5. Flown' /\ Fitting'
    BY <1>1, <1>4 DEF Ordered, Flown, Fitting
<1>6. Staged'
    <2> SUFFICES ASSUME NEW r \in Requests PROVE StagedAt(r)'
        BY DEF Staged
    <2>1. /\ now \in Nat /\ since[r] \in Nat /\ sentAt[r] \in Nat \cup {-1}
          /\ StagedAt(r)
        BY DEF Ordered, TypeOK, Staged
    <2>2. since[r] <= now + 1 /\ sentAt[r] <= now + 1
        BY <2>1 DEF StagedAt
    <2> QED BY <1>1, <2>1, <2>2 DEF StagedAt
<1> QED BY <1>3, <1>5, <1>6 DEF Ordered

-----------------------------------------------------------------------------
(* The invariant, and what it says *)

LEMMA InitGateway == Init => GatewayInv
<1> SUFFICES ASSUME Init PROVE GatewayInv
    OBVIOUS
<1>1. TypeOK
    <2>1. /\ now \in Nat /\ tokens \in 0..Capacity /\ datasource \in BOOLEAN
          /\ resolver \in Requests \cup {None} /\ unsourced \subseteq Requests
        <3>1. now = 0 /\ tokens = Capacity /\ datasource = FALSE /\ resolver = None /\ unsourced = {}
            BY DEF Init
        <3>2. Capacity \in Nat /\ Capacity \in 0..Capacity
            BY GatewayAssumption
        <3>3. now \in Nat /\ tokens \in 0..Capacity
            BY <3>1, <3>2
        <3> QED BY <3>1, <3>3
    <2>2. /\ DOMAIN cache = {} /\ DOMAIN flights = {}
        BY DEF Init
    <2>3. /\ pc \in [Requests -> Stages]
          /\ ask \in [Requests -> Queries \cup {Write, None}]
          /\ fallback \in [Requests -> Result \cup {None}]
          /\ result \in [Requests -> Result \cup {None}]
        BY DEF Init, Stages, Calling
    <2>4. /\ since \in [Requests -> Nat] /\ polls \in [Requests -> 0..MaxPolls]
          /\ sentAt \in [Requests -> Nat \cup {-1}] /\ grants \in Seq(Nat)
        BY GatewayAssumption DEF Init
    <2> QED BY <2>1, <2>2, <2>3, <2>4 DEF TypeOK
<1>2. Staged
    BY GatewayAssumption DEF Init, Staged, StagedAt
<1>3. Flown /\ Fitting
    BY DEF Init, Flown, Fitting, Leading, Calling
<1>4. \A t \in 0..now : GrantsFrom(t) = {}
    BY DEF Init, GrantsFrom
<1>5. IsFiniteSet({}) /\ Cardinality({}) = 0
    BY FS_EmptySet
<1>6. Budget
    <2>1. now = 0 /\ tokens = Capacity
        BY DEF Init
    <2>2. GrantsFrom(0) = {}
        BY <1>4, <2>1
    <2>3. 0 + Capacity <= Capacity + Rate * (0 - 0)
        BY GatewayAssumption
    <2>4. \A i \in DOMAIN grants : FALSE
        BY DEF Init
    <2> QED BY <1>5, <2>1, <2>2, <2>3, <2>4 DEF Budget
<1> QED BY <1>1, <1>2, <1>3, <1>6 DEF GatewayInv

LEMMA NextGateway == GatewayInv /\ [Next]_vars => GatewayInv'
<1> SUFFICES ASSUME GatewayInv, [Next]_vars PROVE GatewayInv'
    OBVIOUS
<1>1. Ordered
    BY DEF GatewayInv, Ordered
<1>2. Budget'
    BY NextBudget DEF GatewayInv
<1>3. ASSUME NEW r \in Requests, WriteCall(r) \/ \E q \in Queries : Call(r, q)
      PROVE  Ordered'
    BY <1>1, <1>3, CallOrdered, WriteCallOrdered
<1>4. ASSUME NEW r \in Requests, Resolve(r) \/ Resolved(r) \/ ResolveAnswers(r) \/ ResolveFails(r)
      PROVE  Ordered'
    BY <1>1, <1>4, ResolveOrdered, ResolvedOrdered, ResolveAnswersOrdered, ResolveFailsOrdered
<1>5. ASSUME NEW r \in Requests,
             \/ Poll(r) \/ Posts(r) \/ GivesUp(r)
             \/ Answers(r) \/ Fails(r) \/ WriteEnds(r)
      PROVE  Ordered'
    BY <1>1, <1>5, PollOrdered, PostsOrdered, GivesUpOrdered, AnswersOrdered, FailsOrdered, WriteEndsOrdered
<1>6. Tick => Ordered'
    BY <1>1, TickOrdered
<1>7. ASSUME UNCHANGED vars PROVE Ordered'
    <2>1. UNCHANGED <<now, cache, flights, tokens, datasource, resolver, pc, ask, since, unsourced,
                      fallback, polls, grants, sentAt, result>>
        BY <1>7 DEF vars, calls, asked
    <2>2. TypeOK'
        BY <1>1, <2>1 DEF Ordered, TypeOK
    <2>3. Staged'
        BY <1>1, <2>1 DEF Ordered, Staged, StagedAt
    <2>4. Flown' /\ Fitting'
        BY <1>1, <2>1 DEF Ordered, Flown, Fitting, Leading, Calling, KeyOf, KeyAt
    <2> QED BY <2>2, <2>3, <2>4 DEF Ordered
<1>8. Ordered'
    BY <1>3, <1>4, <1>5, <1>6, <1>7 DEF Next, Serve
<1> QED BY <1>2, <1>8 DEF Ordered, GatewayInv

\* The inductive invariant holds: calls, flights, results and tokens are in order
\* after every step of every call.
THEOREM GatewayInvCorrect == Spec => []GatewayInv
BY InitGateway, NextGateway, PTL DEF Spec

\* Calls, entries, flights and tokens are always well formed; the bucket never holds
\* more than its capacity.
THEOREM GatewayTypeCorrect == Spec => []TypeOK
<1>1. GatewayInv => TypeOK
    BY DEF GatewayInv
<1> QED BY <1>1, GatewayInvCorrect, PTL

\* One call at most is on its way upstream for a key: both would be the leader that
\* the key's flight is registered for.
THEOREM OneCallCorrect == Spec => []OneCallPerKey
<1>1. GatewayInv => OneCallPerKey
    BY DEF GatewayInv, Flown, OneCallPerKey
<1> QED BY <1>1, GatewayInvCorrect, PTL

\* A query is served a result that answers it, asked less than a bucket before it was
\* looked up: the result fits its key, and the key begins a bucket before that at most.
THEOREM ServedCorrect == Spec => []ServedIsCurrent
<1>1. GatewayInv => ServedIsCurrent
    <2> SUFFICES ASSUME GatewayInv, NEW r \in Requests, pc[r] = "served", ask[r] \in Queries
                 PROVE  result[r].of = ask[r] /\ since[r] < result[r].at + Bucket
        BY DEF ServedIsCurrent
    <2>1. Fits(result[r], KeyOf(r))
        BY DEF GatewayInv, Fitting
    <2>2. /\ KeyOf(r)[1] = ask[r] /\ KeyOf(r)[3] \in Nat
          /\ since[r] < KeyOf(r)[3] + Bucket /\ since[r] \in Nat
        BY KeyOfFacts DEF GatewayInv, TypeOK
    <2>3. result[r].at \in Nat /\ KeyOf(r)[3] <= result[r].at /\ result[r].of = ask[r]
        BY <2>1, <2>2 DEF Fits, Result
    <2> QED BY <2>2, <2>3, GatewayAssumption
<1> QED BY <1>1, GatewayInvCorrect, PTL

\* From no moment on were more tokens granted than the bucket can have held then and
\* what has come in since (ratelimit.py): what it still holds makes up the difference.
THEOREM GrantsCorrect == Spec => []GrantsHeld
<1>1. GatewayInv => GrantsHeld
    <2> SUFFICES ASSUME GatewayInv, NEW t \in 0..now
                 PROVE  Cardinality(GrantsFrom(t)) <= Capacity + Rate * (now - t)
        BY DEF GrantsHeld, GrantsFrom
    <2>1. Cardinality(GrantsFrom(t)) + tokens <= Capacity + Rate * (now - t)
        BY DEF GatewayInv, Budget
    <2>2. tokens \in Nat /\ now \in Nat /\ t \in Nat /\ grants \in Seq(Nat)
        BY GatewayAssumption DEF GatewayInv, TypeOK
    <2>3. Cardinality(GrantsFrom(t)) \in Nat
        BY <2>2, GrantCount
    <2>4. Capacity + Rate * (now - t) \in Int
        BY <2>2, GatewayAssumption
    <2> QED BY <2>1, <2>2, <2>3, <2>4
<1> QED BY <1>1, GatewayInvCorrect, PTL

\* Whoever follows a flight has a leader who is still at it: no call waits for the
\* answer to a flight that has ended.
NobodyLeftBehind ==
    \A f \in Requests :
        pc[f] = "following" => \E r \in Requests : Leading(r) /\ KeyOf(r) = KeyOf(f)

THEOREM FollowersCorrect == Spec => []NobodyLeftBehind
<1>1. GatewayInv => NobodyLeftBehind
    BY DEF GatewayInv, Flown, NobodyLeftBehind
<1> QED BY <1>1, GatewayInvCorrect, PTL

=============================================================================
