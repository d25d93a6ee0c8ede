----------------------------- MODULE McpGateway -----------------------------
(***************************************************************************)
(* The calls in the mcp-gateway: the agent's queries pass a cache whose    *)
(* keys hold the 15-second bucket of the lookup, a single flight that lets *)
(* calls with one key share an upstream call, and a token bucket; writes   *)
(* pass the token bucket only.                                             *)
(*                                                                         *)
(* The gateway is one asyncio process, and none of these parts awaits      *)
(* anything while its lock is held, so a call runs uninterrupted from its  *)
(* arrival, from a failed poll for a token, or from an upstream answer to  *)
(* its next await.  A query stands for a tool, a tenant and quantized      *)
(* parameters.  The allowlist refuses without touching any state; counters *)
(* and the call log are only reported; Redis is off unless configured.     *)
(***************************************************************************)
EXTENDS Integers, Sequences, FiniteSets

CONSTANTS
    Requests,       \* the calls that are made of the gateway
    Writers,        \* those of them that may be writes
    Queries,        \* what can be asked
    Metadata,       \* the queries of tools with the longer time to live
    Sourced,        \* the queries for which a datasource must be known
    Write,          \* no query: the request writes
    None,           \* no result, no request
    Bucket,         \* the width of a time bucket, in ticks
    RangeTtl, MetadataTtl, StaleMax,    \* ages of cache entries, in ticks
    Capacity,       \* the most tokens there can be
    Rate,           \* the tokens that come in with a tick
    MaxPolls,       \* how often a call polls for a token before it gives up
    MaxTime         \* bound on the clock

ASSUME GatewayAssumption ==
    /\ Writers \subseteq Requests
    /\ Metadata \subseteq Queries /\ Sourced \subseteq Queries
    /\ Write \notin Queries /\ None \notin Queries /\ None \notin Requests
    /\ Bucket \in Nat \ {0}
    /\ RangeTtl \in Nat /\ MetadataTtl \in Nat /\ StaleMax \in Nat
    /\ Capacity \in Nat \ {0} /\ Rate \in Nat /\ MaxPolls \in Nat
    /\ MaxTime \in Nat

VARIABLES
    now,        \* the gateway's clock
    cache,      \* the dictionary of results, by key
    flights,    \* the call that leads each flight, by key
    tokens,     \* what the bucket holds when it is refilled now
    datasource, \* whether the datasource has been resolved
    resolver,   \* the request that holds the datasource lock
    pc,         \* how far each request is
    ask,        \* what each request asks
    since,      \* when each request was looked up
    unsourced,  \* the requests looked up without the datasource they need
    fallback,   \* the stale result each request found
    polls,      \* how often each throttled request has polled for a token in vain
    grants,     \* when tokens were granted, in order
    sentAt,     \* when each request that is upstream was posted, or -1
    result      \* what each request was served

asked == <<ask, since, unsourced, fallback>>
calls == <<pc, asked, polls, grants, sentAt, result>>
vars == <<now, cache, flights, tokens, datasource, resolver, calls>>

\* served, refused (429) and failed (502, 503) are answers.
Answered == {"served", "refused", "failed"}

\* connecting: a token is had, the upstream session may still have to be made;
\* upstream: the call is posted.
Calling == {"connecting", "upstream"}
Stages == {"idle", "resolving", "following", "throttled"} \cup Calling \cup Answered

\* What Grafana answers is known by the query and by the time it was asked.
Result == [of : Queries, at : Nat]

\* Fault: the key holds no time.
KeyAt_Timeless(q, t, named) == <<q, named, 0>>

\* quantize_params and generate_cache_key: query q, which names a datasource where
\* it needs one or does not, in the bucket of time t.
KeyAt(q, t, named) == <<q, named, t - (t % Bucket)>>

\* The key request r was looked up with.
KeyOf(r) == KeyAt(ask[r], since[r], r \notin unsourced)

TtlOf(q) == IF q \in Metadata THEN MetadataTtl ELSE RangeTtl
Age(k) == now - cache[k].at

\* What cache.get finds: a fresh entry, or one that may serve in an outage.
Fresh(k) == k \in DOMAIN cache /\ Age(k) <= TtlOf(k[1])
Stale(k) == k \in DOMAIN cache /\ ~Fresh(k) /\ Age(k) <= StaleMax

Only(f, S) == [k \in S |-> f[k]]
Set(f, k, v) == [j \in DOMAIN f \cup {k} |-> IF j = k THEN v ELSE f[j]]

Init ==
    /\ now = 0
    /\ cache = [k \in {} |-> None]
    /\ flights = [k \in {} |-> None]
    /\ tokens = Capacity
    /\ datasource = FALSE
    /\ resolver = None
    /\ pc = [r \in Requests |-> "idle"]
    /\ ask = [r \in Requests |-> None]
    /\ since = [r \in Requests |-> 0]
    /\ unsourced = {}
    /\ fallback = [r \in Requests |-> None]
    /\ polls = [r \in Requests |-> 0]
    /\ grants = <<>>
    /\ sentAt = [r \in Requests |-> -1]
    /\ result = [r \in Requests |-> None]

-----------------------------------------------------------------------------
(* The token bucket *)

\* Fault: the tokens are not looked at.
Granted_Unguarded(r) ==
    /\ tokens' = tokens - 1
    /\ pc' = [pc EXCEPT ![r] = "connecting"]
    /\ grants' = Append(grants, now)

\* A token is there and is taken.
Granted(r) ==
    /\ tokens > 0
    /\ tokens' = tokens - 1
    /\ pc' = [pc EXCEPT ![r] = "connecting"]
    /\ grants' = Append(grants, now)

\* A call asks for a token for the first time, and gets it or waits.
Acquire(r) ==
    \/ Granted(r)
    \/ /\ tokens = 0
       /\ pc' = [pc EXCEPT ![r] = "throttled"]
       /\ UNCHANGED <<tokens, grants>>

\* A waiting call polls again.
Poll(r) ==
    /\ pc[r] = "throttled"
    /\ \/ Granted(r) /\ polls' = [polls EXCEPT ![r] = 0]
       \/ /\ tokens = 0 /\ polls[r] < MaxPolls
          /\ polls' = [polls EXCEPT ![r] = @ + 1]
          /\ UNCHANGED <<tokens, pc, grants>>
    /\ UNCHANGED <<now, cache, flights, datasource, resolver, asked, sentAt, result>>

\* Past _ensure_session, which may wait for the session lock and shake hands, the
\* call is posted.  A post that meets an expired session belongs to the connecting:
\* what is answered is the post after it.
Posts(r) ==
    /\ pc[r] = "connecting"
    /\ pc' = [pc EXCEPT ![r] = "upstream"]
    /\ sentAt' = [sentAt EXCEPT ![r] = now]
    /\ UNCHANGED <<now, cache, flights, tokens, datasource, resolver, asked, polls,
                   grants, result>>

-----------------------------------------------------------------------------
(* Lookup and single flight *)

\* Fault: a call that has to wait for a token is not registered.
Join_Late(r, k) ==
    \/ /\ k \in DOMAIN flights
       /\ pc' = [pc EXCEPT ![r] = "following"]
       /\ UNCHANGED <<flights, tokens, grants>>
    \/ /\ k \notin DOMAIN flights
       /\ flights' = IF tokens > 0 THEN Set(flights, k, r) ELSE flights
       /\ Acquire(r)

\* singleflight.execute: follow the call that is under way for k, or lead one.
Join(r, k) ==
    \/ /\ k \in DOMAIN flights
       /\ pc' = [pc EXCEPT ![r] = "following"]
       /\ UNCHANGED <<flights, tokens, grants>>
    \/ /\ k \notin DOMAIN flights
       /\ flights' = Set(flights, k, r)
       /\ Acquire(r)

\* call_mcp_tool from the lookup to its first await.  A fresh entry is served; a
\* stale one is kept for an outage; one past that is dropped.
Lookup(r, q, named) ==
    LET k == KeyAt(q, now, named)
    IN  /\ ask' = [ask EXCEPT ![r] = q]
        /\ since' = [since EXCEPT ![r] = now]
        /\ unsourced' = IF named THEN unsourced ELSE unsourced \cup {r}
        /\ \/ /\ Fresh(k)
              /\ pc' = [pc EXCEPT ![r] = "served"]
              /\ result' = [result EXCEPT ![r] = cache[k].result]
              /\ UNCHANGED <<cache, flights, tokens, fallback, grants>>
           \/ /\ ~Fresh(k)
              /\ fallback' = [fallback EXCEPT ![r] =
                                IF Stale(k) THEN cache[k].result ELSE None]
              /\ cache' = IF Stale(k) THEN cache ELSE Only(cache, DOMAIN cache \ {k})
              /\ Join(r, k)
              /\ UNCHANGED result

\* A query arrives, and has to wait if its datasource is not known yet.
Call(r, q) ==
    /\ pc[r] = "idle"
    /\ \/ (datasource \/ q \notin Sourced) /\ Lookup(r, q, TRUE)
       \/ /\ ~datasource /\ q \in Sourced
          /\ pc' = [pc EXCEPT ![r] = "resolving"]
          /\ ask' = [ask EXCEPT ![r] = q]
          /\ UNCHANGED <<cache, flights, tokens, since, unsourced, fallback, grants,
                         result>>
    /\ UNCHANGED <<now, datasource, resolver, polls, sentAt>>

\* write_mcp_tool: neither cached nor shared.
WriteCall(r) ==
    /\ pc[r] = "idle" /\ r \in Writers
    /\ ask' = [ask EXCEPT ![r] = Write]
    /\ Acquire(r)
    /\ UNCHANGED <<now, cache, flights, datasource, resolver, since, unsourced, fallback,
                   polls, sentAt, result>>

-----------------------------------------------------------------------------
(* The datasource *)

\* The datasource lock is had, and it is not known yet: Grafana is asked, past the
\* token bucket.
Resolve(r) ==
    /\ pc[r] = "resolving" /\ resolver = None /\ ~datasource
    /\ resolver' = r
    /\ UNCHANGED <<now, cache, flights, tokens, datasource, calls>>

\* The lock is had and another call has resolved it meanwhile.
Resolved(r) ==
    /\ pc[r] = "resolving" /\ resolver = None /\ datasource
    /\ Lookup(r, ask[r], TRUE)
    /\ UNCHANGED <<now, datasource, resolver, polls, sentAt>>

\* Grafana answers; it may know none, and then nothing is kept and the query goes
\* on without.
ResolveAnswers(r) ==
    /\ resolver = r
    /\ resolver' = None
    /\ datasource' \in BOOLEAN
    /\ Lookup(r, ask[r], datasource')
    /\ UNCHANGED <<now, polls, sentAt>>

ResolveFails(r) ==
    /\ resolver = r
    /\ resolver' = None
    /\ pc' = [pc EXCEPT ![r] = "failed"]
    /\ UNCHANGED <<now, cache, flights, tokens, datasource, asked, polls, grants,
                   sentAt, result>>

-----------------------------------------------------------------------------
(* The end of a call *)

\* The calls that wait for r's: r itself and those that follow its flight.
Crew(r) == {r} \cup {f \in Requests : pc[f] = "following" /\ KeyOf(f) = KeyOf(r)}

\* Fault: the flight stays registered.
Land_Registered(r) == UNCHANGED <<flights>>

\* The flight r led is taken off.
Land(r) == flights' = Only(flights, {k \in DOMAIN flights : flights[k] # r})

\* Every one of r's crew is served s[f], or gets the error if that is no result.
Conclude(r, s, error) ==
    /\ Land(r)
    /\ result' = [f \in Requests |-> IF f \in Crew(r) THEN s[f] ELSE result[f]]
    /\ pc' = [f \in Requests |-> IF f \notin Crew(r) THEN pc[f]
                                 ELSE IF s[f] # None THEN "served" ELSE error]

\* The polls are used up: the leader's stale result goes to all, or the 429.
GivesUp(r) ==
    /\ pc[r] = "throttled" /\ tokens = 0 /\ polls[r] = MaxPolls
    /\ Conclude(r, [f \in Requests |-> fallback[r]], "refused")
    /\ polls' = [polls EXCEPT ![r] = 0]
    /\ UNCHANGED <<now, cache, tokens, datasource, resolver, asked, grants, sentAt>>

\* Grafana answers a query: entries past their use are swept, the result is kept
\* and served.
Answers(r) ==
    /\ pc[r] = "upstream" /\ ask[r] \in Queries
    /\ LET new == [of |-> ask[r], at |-> sentAt[r]]
           kept == Only(cache, {k \in DOMAIN cache : Age(k) <= StaleMax})
       IN  /\ cache' = Set(kept, KeyOf(r), [at |-> now, result |-> new])
           /\ Conclude(r, [f \in Requests |-> new], "failed")
    /\ sentAt' = [sentAt EXCEPT ![r] = -1]
    /\ UNCHANGED <<now, tokens, datasource, resolver, asked, polls, grants>>

\* Grafana cannot be reached, no session can be made, or an error is reported: each
\* serves its own stale result.
Fails(r) ==
    /\ pc[r] \in Calling /\ ask[r] \in Queries
    /\ Conclude(r, fallback, "failed")
    /\ sentAt' = [sentAt EXCEPT ![r] = -1]
    /\ UNCHANGED <<now, cache, tokens, datasource, resolver, asked, polls, grants>>

WriteEnds(r) ==
    /\ pc[r] \in Calling /\ ask[r] = Write
    /\ \E answer \in {"served", "failed"} :
         /\ answer = "served" => pc[r] = "upstream"
         /\ pc' = [pc EXCEPT ![r] = answer]
    /\ sentAt' = [sentAt EXCEPT ![r] = -1]
    /\ UNCHANGED <<now, cache, flights, tokens, datasource, resolver, asked, polls,
                   grants, result>>

\* Fault: tokens pile up without limit.
Refill_Uncapped == tokens + Rate

Refill == IF tokens + Rate < Capacity THEN tokens + Rate ELSE Capacity

Tick ==
    /\ now < MaxTime
    /\ now' = now + 1
    /\ tokens' = Refill
    /\ UNCHANGED <<cache, flights, datasource, resolver, calls>>

Serve(r) ==
    \/ Resolve(r) \/ Resolved(r) \/ ResolveAnswers(r) \/ ResolveFails(r)
    \/ Poll(r) \/ GivesUp(r) \/ Posts(r)
    \/ Answers(r) \/ Fails(r) \/ WriteEnds(r)

Next ==
    \/ \E r \in Requests : WriteCall(r) \/ Serve(r) \/ \E q \in Queries : Call(r, q)
    \/ Tick

Spec == Init /\ [][Next]_vars

\* The event loop goes on with every call it can go on with, and every upstream
\* call is answered or times out.  Nobody has to call, and no tokens need come in.
Fairness == \A r \in Requests : WF_vars(Serve(r))

FairSpec == Spec /\ Fairness

-----------------------------------------------------------------------------
(* Properties *)

\* Calls, entries and flights are well formed: in particular the bucket never
\* holds more than its capacity, and a flight's leader is still at it.
TypeOK ==
    /\ now \in Nat
    /\ tokens \in 0..Capacity
    /\ datasource \in BOOLEAN
    /\ resolver \in Requests \cup {None}
    /\ pc \in [Requests -> Stages]
    /\ ask \in [Requests -> Queries \cup {Write, None}]
    /\ since \in [Requests -> Nat]
    /\ unsourced \subseteq Requests
    /\ fallback \in [Requests -> Result \cup {None}]
    /\ polls \in [Requests -> 0..MaxPolls]
    /\ grants \in Seq(Nat)
    /\ sentAt \in [Requests -> Nat \cup {-1}]
    /\ result \in [Requests -> Result \cup {None}]
    /\ DOMAIN cache \subseteq Queries \X BOOLEAN \X Nat
    /\ \A k \in DOMAIN cache : cache[k] \in [at : Nat, result : Result]
    /\ DOMAIN flights \subseteq Queries \X BOOLEAN \X Nat
    /\ \A k \in DOMAIN flights : flights[k] \in Requests

Leading(r) == pc[r] \in {"throttled"} \cup Calling /\ ask[r] \in Queries

\* However many calls for one key arrive, wait for tokens, for the session lock and
\* for a handshake, and fail, one at most is on its way upstream.
OneCallPerKey ==
    \A r, p \in Requests :
        /\ Leading(r) /\ Leading(p)
        /\ KeyOf(r) = KeyOf(p)
        => r = p

\* Whatever way a query is served (from the cache, from a shared flight, from a
\* stale entry), the result answers that query, and was asked of Grafana less than
\* the width of a bucket before the query was looked up.
ServedIsCurrent ==
    \A r \in Requests :
        pc[r] = "served" /\ ask[r] \in Queries =>
            result[r].of = ask[r] /\ since[r] < result[r].at + Bucket

\* From no moment on were more tokens granted than the bucket can have held and what
\* has come in since, to queries and writes together.  It bounds the grants, not what
\* goes upstream: granted calls can wait for a session and be posted together, and
\* handshakes, the lookup of datasources and the post after an expired session take
\* no token.
GrantsHeld ==
    \A t \in 0..now :
        Cardinality({i \in DOMAIN grants : grants[i] >= t}) <= Capacity + Rate * (now - t)

\* Every call is answered: none waits for a flight that has ended, for a token, for
\* the datasource lock or for a session for ever.
EveryCallAnswered ==
    \A r \in Requests : pc[r] \notin Answered \cup {"idle"} ~> pc[r] \in Answered

\* What the cache says a stale entry is for (mcp-gateway/src/cache.py:92, "Stale hit
\* (can be served during degradation)"): no query fails while the cache holds an
\* answer to it that is not past the stale tolerance.
StaleCoversOutage ==
    [][\A r \in Requests :
          /\ ask[r] \in Queries
          /\ pc[r] \in Calling /\ pc'[r] = "failed"
          => ~\E k \in DOMAIN cache : k[1] = ask[r] /\ Age(k) <= StaleMax]_vars
=============================================================================
