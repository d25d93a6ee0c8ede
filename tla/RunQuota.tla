------------------------------ MODULE RunQuota ------------------------------
(***************************************************************************)
(* The API gateway's quota on investigation runs (RunQuota) together with  *)
(* the handler that spends it (create_run): a reservation is taken, the    *)
(* run is dispatched to the agent-worker over HTTP, and the reservation is *)
(* refunded if the dispatch raises.  Reserve and refund each run under the *)
(* quota's lock; between them the handler awaits the worker's answer while *)
(* other requests reserve and refund and time passes.                      *)
(***************************************************************************)
EXTENDS Integers, Sequences, FiniteSets

CONSTANTS
    Sessions,       \* the sessions that ask for runs
    PerSession,     \* limit per session in a window; 0 is no limit
    PerDeployment,  \* limit over all sessions in a window; 0 is no limit
    Window,         \* the window, in ticks
    TicksPerSec,    \* ticks in the second that Retry-After is counted in
    DispatchLimit,  \* the HTTP client's timeout on a dispatch, in ticks
    RepliesLost,    \* whether the worker can start a run and its reply be lost
    MaxRuns,        \* bound on the dispatches
    MaxTime         \* bound on the clock

ASSUME QuotaAssumption ==
    /\ PerSession \in Nat /\ PerDeployment \in Nat
    /\ Window \in Nat \ {0} /\ TicksPerSec \in Nat \ {0}
    /\ DispatchLimit \in Nat /\ DispatchLimit < Window
    /\ RepliesLost \in BOOLEAN
    /\ MaxRuns \in Nat /\ MaxTime \in Nat

VARIABLES
    global,     \* reservation times over all sessions, oldest first
    stamps,     \* the dictionary of each known session's reservation times
    runs,       \* the dispatches so far: progress, caller and reservation time
    now         \* the gateway's clock

vars == <<global, stamps, runs, now>>

\* sent: dispatched to the worker; running: the worker has started the run;
\* done: QUEUED returned; failed: refunded, the run never started; orphan:
\* refunded although the worker had started the run.
Status == {"sent", "running", "done", "failed", "orphan"}
Run == [status : Status, session : Sessions, at : Nat]

InFlight(i) == runs[i].status \in {"sent", "running"}
Refunded(i) == runs[i].status \in {"failed", "orphan"}

\* Fault: a stamp leaves the window one tick early.
Prune_Early(q, t) ==
    LET kept == {i \in 1..Len(q) : q[i] > t - Window + 1}
    IN  IF kept = {} THEN <<>>
        ELSE SubSeq(q, CHOOSE i \in kept : \A j \in kept : i <= j, Len(q))

\* _prune: pop the oldest stamps while they have left the window.
Prune(q, t) ==
    LET kept == {i \in 1..Len(q) : q[i] > t - Window}
    IN  IF kept = {} THEN <<>>
        ELSE SubSeq(q, CHOOSE i \in kept : \A j \in kept : i <= j, Len(q))

\* Fault: the fraction of a second is dropped.
RetryAfter_Truncated(q, t) ==
    LET left == (q[1] + Window - t) \div TicksPerSec
    IN  IF left > 1 THEN left ELSE 1

\* _retry_after: whole seconds until the oldest stamp leaves the window.
RetryAfter(q, t) ==
    LET left == (q[1] + Window - t) \div TicksPerSec + 1
    IN  IF left > 1 THEN left ELSE 1

\* Fault: the limit itself is still let through.
Full_OffByOne(q, limit) == 0 < limit /\ limit < Len(q)

Full(q, limit) == 0 < limit /\ limit <= Len(q)

\* The caller's deque is pruned; if that leaves it empty, every session whose
\* deque is empty is dropped from the dictionary and the caller's put back.  No
\* other session's deque is pruned.
Swept(s) ==
    LET mine == IF s \in DOMAIN stamps THEN Prune(stamps[s], now) ELSE <<>>
        known == IF mine # <<>> THEN DOMAIN stamps
                 ELSE {u \in DOMAIN stamps : stamps[u] # <<>>} \cup {s}
    IN  [u \in known |-> IF u = s THEN mine ELSE stamps[u]]

\* The seconds a refusal names: the session limit is checked first.
Told(s) ==
    IF Full(Swept(s)[s], PerSession) THEN RetryAfter(Swept(s)[s], now)
    ELSE RetryAfter(Prune(global, now), now)

Init ==
    /\ global = <<>>
    /\ stamps = [u \in {} |-> <<>>]
    /\ runs = <<>>
    /\ now = 0

-----------------------------------------------------------------------------
\* create_run answered 429: reserve prunes and sweeps, and records nothing.
Refuse(s) ==
    /\ Full(Swept(s)[s], PerSession) \/ Full(Prune(global, now), PerDeployment)
    /\ global' = Prune(global, now)
    /\ stamps' = Swept(s)
    /\ UNCHANGED <<runs, now>>

\* create_run as far as its await: a slot is reserved and the run dispatched.
Dispatch(s) ==
    /\ Len(runs) < MaxRuns
    /\ ~Full(Swept(s)[s], PerSession)
    /\ ~Full(Prune(global, now), PerDeployment)
    /\ global' = Append(Prune(global, now), now)
    /\ stamps' = [Swept(s) EXCEPT ![s] = Append(@, now)]
    /\ runs' = Append(runs, [status |-> "sent", session |-> s, at |-> now])
    /\ UNCHANGED now

\* Fault: only the session's slot is given back.
Refund_SessionOnly(s) ==
    /\ stamps' = IF s \in DOMAIN stamps /\ stamps[s] # <<>>
                 THEN [stamps EXCEPT ![s] = SubSeq(@, 1, Len(@) - 1)]
                 ELSE stamps
    /\ UNCHANGED global

\* refund: the newest stamp of the deployment and the newest of the session go,
\* whichever runs they stood for.
Refund(s) ==
    /\ global' = IF global = <<>> THEN <<>> ELSE SubSeq(global, 1, Len(global) - 1)
    /\ stamps' = IF s \in DOMAIN stamps /\ stamps[s] # <<>>
                 THEN [stamps EXCEPT ![s] = SubSeq(@, 1, Len(@) - 1)]
                 ELSE stamps

\* The worker accepts the dispatch and starts the run.
WorkerStarts(i) ==
    /\ runs[i].status = "sent"
    /\ runs' = [runs EXCEPT ![i].status = "running"]
    /\ UNCHANGED <<global, stamps, now>>

\* The worker's answer arrives: QUEUED is returned.
DispatchSucceeds(i) ==
    /\ runs[i].status = "running"
    /\ runs' = [runs EXCEPT ![i].status = "done"]
    /\ UNCHANGED <<global, stamps, now>>

\* The dispatch raises before the worker has started the run.
DispatchFails(i) ==
    /\ runs[i].status = "sent"
    /\ runs' = [runs EXCEPT ![i].status = "failed"]
    /\ Refund(runs[i].session)
    /\ UNCHANGED now

\* The dispatch raises, by a timeout or a broken connection, after it.
ReplyLost(i) ==
    /\ RepliesLost
    /\ runs[i].status = "running"
    /\ runs' = [runs EXCEPT ![i].status = "orphan"]
    /\ Refund(runs[i].session)
    /\ UNCHANGED now

\* The status endpoint's snapshot prunes the deployment's deque and no other.
Snapshot ==
    /\ global' = Prune(global, now)
    /\ UNCHANGED <<stamps, runs, now>>

\* Time passes; a dispatch is answered or raises within its timeout.
Tick ==
    /\ now < MaxTime
    /\ \A i \in DOMAIN runs : InFlight(i) => now < runs[i].at + DispatchLimit
    /\ now' = now + 1
    /\ UNCHANGED <<global, stamps, runs>>

Next ==
    \/ \E s \in Sessions : Refuse(s) \/ Dispatch(s)
    \/ \E i \in DOMAIN runs :
         WorkerStarts(i) \/ DispatchSucceeds(i) \/ DispatchFails(i) \/ ReplyLost(i)
    \/ Snapshot
    \/ Tick

Spec == Init /\ [][Next]_vars

-----------------------------------------------------------------------------
(* Properties *)

\* Stamps are times that have passed, oldest first: what _prune relies on.
IsHistory(q) ==
    /\ \A i \in DOMAIN q : q[i] \in 0..now
    /\ \A i, j \in DOMAIN q : i <= j => q[i] <= q[j]

\* The limits bound both deques and the stamps in them stay in order.
TypeOK ==
    /\ now \in Nat
    /\ runs \in Seq(Run)
    /\ DOMAIN stamps \subseteq Sessions
    /\ IsHistory(global)
    /\ \A u \in DOMAIN stamps : IsHistory(stamps[u])
    /\ PerDeployment > 0 => Len(global) <= PerDeployment
    /\ PerSession > 0 => \A u \in DOMAIN stamps : Len(stamps[u]) <= PerSession

Recent(t) == {i \in DOMAIN runs : runs[i].at > t - Window}

\* As long as nothing was refunded, no window ever holds more runs than the two
\* limits allow, wherever in time it is laid.
WindowHeld ==
    (\A i \in DOMAIN runs : ~Refunded(i)) =>
        /\ PerDeployment > 0 => Cardinality(Recent(now)) <= PerDeployment
        /\ PerSession > 0 =>
             \A u \in Sessions :
                Cardinality({i \in Recent(now) : runs[i].session = u}) <= PerSession

\* An outage never spends the budget: counted from any moment on, there are no
\* more stamps than runs that were not refunded, in all and for each session.
OutageNeverCharges ==
    \A t \in 0..now :
        /\ Cardinality({k \in DOMAIN global : global[k] >= t})
             <= Cardinality({i \in DOMAIN runs : ~Refunded(i) /\ runs[i].at >= t})
        /\ \A u \in DOMAIN stamps :
             Cardinality({k \in DOMAIN stamps[u] : stamps[u][k] >= t})
               <= Cardinality({i \in DOMAIN runs : /\ ~Refunded(i)
                                                   /\ runs[i].session = u
                                                   /\ runs[i].at >= t})

\* Retry-After is truthful: a refused caller who waits that many seconds, with
\* nobody reserving meanwhile, is let through, and reserve asks that of both
\* deques.  A caller refused by its own limit is promised it as long as no run was
\* refunded: a refund that took another session's stamp can leave the deployment
\* full at the moment named.
RetryIsTruthful ==
    \A s \in Sessions :
        LET mine == Swept(s)[s]
            all == Prune(global, now)
            mineFull == Full(mine, PerSession)
            allFull == Full(all, PerDeployment)
            later == now + Told(s) * TicksPerSec
        IN  /\ mineFull \/ allFull
            /\ mineFull => \A i \in DOMAIN runs : ~Refunded(i)
            => /\ ~Full(Prune(mine, later), PerSession)
               /\ ~Full(Prune(all, later), PerDeployment)
=============================================================================
