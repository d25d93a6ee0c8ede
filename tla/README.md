# StudioCommandCenter: models, checks and proofs

StudioCommandCenter watches a simulated render farm, lets an agent investigate an
incident through Grafana's MCP server, offers a remediation, applies it once a person has
approved it, and measures whether it worked.  This directory holds TLA+ models of the parts
whose correctness depends on the order in which things happen, the TLC configurations that
check them on small instances, and TLAPS proofs of what matters most for every size.

Paths below are relative to `src/` of the repository; services live in `services/`.

## 1. The system

Everything is kept in memory.  Each Python service is one asyncio process: code between two
`await`s is not interrupted, and a lock around code without an `await` is never waited for.

| component | state | operations | talks to |
| --- | --- | --- | --- |
| **Browser** (`web/`) | session id and preferred world (`localStorage`, shared by its tabs); per tab the lease, shown run state, ledger of events | acquire, heartbeat, start, approve; reducer of `useRunStream` | api-gateway, stream-service |
| **api-gateway**: lease pool (`lease.py`) | 24 writable worlds' leases, leases of the observer world | acquire/switch, heartbeat, release, `holds_lease`, `get_lease` | – |
| **api-gateway**: quota (`quota.py`) and `create_run` | reservation times for the deployment and for each session | reserve, refund, snapshot; dispatch | agent-worker |
| **api-gateway**: approval (`main.py`) | – | check lease, fetch run, execute, start verification | action-executor, agent-worker |
| **agent-worker** (`main.py`, `agent/planner.py`, `firestore_store.py`) | run documents, events, evidence, background tasks | start, investigate, verify, `get_events` | mcp-gateway, impact-engine, action-executor |
| **stream-service** (`sse.py`) | a cursor per open stream | poll the worker, write frames, close | agent-worker |
| **action-executor** (`executor.py`, `audit.py`, `grafana_writeback.py`, `verifier.py`) | idempotency records, per-key locks, audit log | execute, verify | render-sim, Grafana, mcp-gateway |
| **mcp-gateway** | result cache, in-flight calls, token bucket, MCP session | `/call`, session initialisation and renewal | Grafana's MCP server |
| **impact-engine** | deliverables, anchors of the deadline | projection, re-anchoring | mcp-gateway |
| **render-sim** | 24 worlds and the observer world | tick, control actions, reset, telemetry | Grafana (push) |
| **common** | – | token checks, shared enums, telemetry analysis | – |

An investigation goes: the browser leases a world; `POST /runs` takes a quota slot and
dispatches to the worker; the worker calls tools through the mcp-gateway, several at a time, emitting
numbered events; the stream-service polls those events with a cursor and the browser's
`EventSource` reduces them to a displayed state; the run ends or asks for approval; an approval
passes the lease check, is applied by the action-executor and starts a verification task in the
worker, whose verdict comes back on the same stream.

### What is hard, and what makes each part correct

* **Lease pool.**  More sessions than worlds; entries are never swept, so an expired lease is
  only recognised by comparing clocks; a switch gives one world up to get another.
  Correct: exclusive ownership, one world per session, read-only only when all worlds are taken.
* **Quota.**  A reservation is taken before an `await` and may be refunded long after, while
  others reserve; a caller must pass two limits, one of them shared.  Correct: no window over the
  limits, an outage costs nothing, truthful `Retry-After`.
* **Worker.**  Parallel tool calls share a sequence counter; approvals overlap and each
  starts a verification that reads and writes the same document; tasks may fail anywhere; a
  restart loses everything.  Correct: the document never rests in a transient state, every end
  is announced.
* **Stream.**  Three cursors (store, stream, browser) and a connection that breaks between two
  frames.  Correct: no gap in the ledger, the displayed state is the true one, outcomes arrive.
* **Executor.**  Duplicate approvals race across two upstream calls; a call that timed out may
  still be carried out.  Correct: each option at most once in a lifetime of the service, and
  everything on record.
* **MCP gateway.**  Calls share a flight with a leader that may wait, fail or give up; queries
  and writes compete for tokens; cached results carry two ages and a time bucket in their key.
  Correct: one upstream call per key, tokens granted at the rate, what is served is current, no
  call is left waiting.
* **MCP session.**  All calls share one session, which the server may forget at any time and which
  any of them may discard.  Correct: no tool runs twice, handshakes are shared, no call waits for ever.
* **Approval.**  A lease is checked once and trusted across three upstream calls; the executor's
  answer may come too late or never; requests and launches are answered in any order, also after
  their page went away; and all tabs of a browser share one session.
  Correct: a tab that shows what its browser was granted last holds it, and an approval's lease does
  not lapse.
* **Evidence and verdicts.**  Grafana answers with what was exported some time ago, by way of a
  cache, a worker that changed its version has two series, and the farm goes on meanwhile.
  Correct: what a run names, concludes and verifies agrees with the farm it could see.

Every hazard, with its line and the properties that watch it, is listed in `PROJECT.json`.

## 2. Modules

| module | models | extends / instantiates |
| --- | --- | --- |
| `WorldOwnership` | abstract: a world has no owner or one, and is vacant between two | – |
| `TenantLease` | `api-gateway/src/lease.py` | refines `WorldOwnership` |
| `RunQuota` | `api-gateway/src/quota.py` and `create_run` around it | – |
| `AgentRun` | one run in the agent-worker: investigation, verifications, store | – |
| `RunStream` | `AgentRun` with the stream-service and the browser's reducer | extends `AgentRun` |
| `ExecutionLedger` | abstract: each idempotency key opened and decided once per lifetime, carried out no oftener than opened | – |
| `ActionExecutor` | `action-executor/src/executor.py` with audit log, write-back and control plane | refines `ExecutionLedger` |
| `McpGateway` | `/call` and `/write` of the mcp-gateway: cache, single flight, rate limit, datasource | – |
| `McpSession` | the session of the mcp-gateway's client (`mcp_client.py`) and Grafana's side of it | – |
| `Approval` | the approve handler between browsers and their tabs, lease pool, worker and executor | extends `TenantLease` |
| `FleetStats` | `common/analysis.py`: one reading per worker, the degradation split | – |
| `RenderFarm` | one world of the render-sim, its control actions, and what Grafana shows of it | extends `FleetStats` |
| `ImpactEngine` | which sequences and deliverables affected workers lead to | – |
| `Hypothesis` | `agent/hypothesis.py`: six tests, their count, the verdict | extends `FleetStats` |
| `Incident` | a run from its first query to its verdict: planner, scorecard, impact, remedy, verifier | extends `RenderFarm`, `ImpactEngine`, `Hypothesis` |
| `*_proofs` | theorems about the module of that name (`AgentRun`'s are in `RunStream_proofs`, those of `FleetStats` in `Incident_proofs`) | extend it and `TLAPS` |
| `MC*` | small instances for TLC | extend the module |

Operators named with an underscore suffix and commented "Fault:" (`Grant_Overwrites`,
`Reconnect_AtEnd`, ...) are plausible wrong versions of the definition that follows them.  No
specification uses them; substituted for it, each makes a property fail, which shows that the
property depends on that piece of code.

### How model and code correspond

**TenantLease.**  `leases` is the dictionary `_leases`, with an absent entry as an expired one
held by nobody (the code treats both alike except in what it reports); `now` is the clock.
Worlds are numbered in the order the pool hands them out.  `Acquire` is all of `acquire_lease`:
keep and renew, or give up and search, or search; `Candidate` is the search, whose last
resort is the session's own entry in the observer world.  `holds_lease` and `get_lease` change
nothing and are the predicate `HoldsLease`.  A preferred tenant that is no world of the pool is
the value `Unlisted`.

**RunQuota.**  `global` and `stamps` are the two deque structures, `runs` what became of each
dispatch.  `Dispatch`/`Refuse` are `create_run` up to its `await`, `WorkerStarts` is the worker's
side, `DispatchSucceeds`, `DispatchFails` and `ReplyLost` are how the `await` ends.  `Swept` is
the clean-up of the dictionary as coded, which prunes only the caller's deque.  `Told` is the
`Retry-After` a refused caller is given: `reserve` looks at the session's deque first.  Time is in ticks
shorter than the second `Retry-After` counts in, so that rounding can be seen.

**AgentRun.**  An action is a stretch of the worker's code from one `await` on an upstream
service to the next.  `ToolCall`, `ToolAnswers` and `ToolFails` are the parts of `_execute_tool`,
with up to `Parallel` of them in flight.  `Score`, `Project`, `Conclude` are the rest of
`run_investigation`; `Fail` is the handler around it; `VerifyRequested`, `VerifyBegins`,
`VerifyReports`, `VerifyFails` are `verify_run` and its task.  Which outcome an upstream call
has is a free choice.  Events keep number and type; evidence keeps which call's payload each
evidence id leads to.

**RunStream.**  `Fetch` is one poll with its non-empty answer, `Deliver` writes and reduces one
frame and closes the stream after a terminal event, `Drop` is a broken connection or the stream's
duration ceiling, `Reconnect` the `EventSource`'s own, with `Last-Event-ID`.  Writing a frame and
receiving it are one step; frames that were written and not received are covered by a drop before
the step.

**ActionExecutor.**  A request waits for its key's lock, checks for a record, calls the control
plane, writes back to Grafana, records and answers (`Record`).  The control plane is an actor of
its own, so that a call can take effect before, after or without the executor's learning of it.
`StatusOf` and `Called` relate it to `ExecutionLedger`: a key is open while its lock is held, decided once its outcome is on
record, and was opened as often as a call left for the control plane.

**McpGateway.**  None of `cache.py`, `singleflight.py` and `ratelimit.py` awaits anything while a
lock is held, so `Call` is a request from its arrival to its first real `await`: for the datasource
lock, for another's flight, for a token or for Grafana.  `cache` and `flights` are the two
dictionaries.  A key is the query, whether it names a datasource, and the time bucket: a tool that
needs a datasource is asked without one when Grafana knows none.  `tokens` is refilled with the
clock instead of at the next look, which comes to the same.  A token is `Granted` before
`_ensure_session`, and the call `Posts` some time after: it may have waited for the session lock or
shaken hands first.  What goes upstream without a token (`list_datasources`, the handshake, the
second post after a 404) is part of resolving or connecting.  `Conclude` ends a flight for its
leader and its followers together: the leader's future is resolved and its key removed before
anyone else runs.  A query stands for tool, tenant and quantized parameters; the datasources' types
are one, and an upstream call, the client's session included, answers or fails as a whole.

**McpSession.**  `pc` is where in `call_upstream_mcp` and `_ensure_session` a call awaits: for the
session lock, for either post of the handshake, or for its own.  `header` is the session id a post
took along as it was sent, which by the time of the answer need not be `session` any more.
`CallAgain` is the 404 branch with the second post, `HandshakeFails` the exception that leaves
`async with` and with it the lock.  The server (`Serve*`, `Forget`) is external: it knows the
sessions it issued until it forgets them, and may reject a session that is not initialized.

**Approval.**  `TenantLease` is taken whole, actions and clock.  A session is a browser: its id and
the world it remembers (`stored`) are in `localStorage` (`useTenantLease.ts:18`, `45-52`), so several
`Tabs` may have one `SessionOf`.  A tab shows a world and a run (`tab`); its requests for worlds
are under way in `asking` and, once handled, in `granted`, its launches in `launching`.  `Close` is the
page's going away, by a reload too, at any moment: what it asked for moves to `left`, and the
gateway may handle it whenever it likes (`AcquiredLate`), after the new page's request as well.  Another
tab's switch takes the session's world along, and a tab that is not told goes on showing it; `last`
is what the session was granted last.  `Approve` is `handleApproveOption` with the checks at the head
of the route: any option of the run the tab shows, as often as the operator likes, before, during or
after a verification.  `calls` are the approve handlers at their awaits.  The executor is
`ExecutionLedger` as `ActionExecutor` implements it: a key, made of run and option, is opened
(`Looked`) and decided (`Settles`) once per lifetime, a `Restart` forgets all.  `asked` are the worlds
the farm was asked to change for a run; what it makes of that, early, late or never, is left to
`ActionExecutor`.

**FleetStats, Hypothesis, ImpactEngine.**  Operators.  `Readings` is `values_by_worker`: all rows
of an instant answer carry the time of the query, so "the freshest" is whichever the answer
lists first, and the model allows either.  `Gaps`, `Cuts` and `Degraded` are `split_degraded`, with
ratios compared by multiplication.  A test of the scorecard is an operator of the evidence.
`Traced`, `AtRisk` and `Delayed` are the projection's control flow; whether throughput is behind and
the queue late are inputs.

**RenderFarm.**  `fleet` is a world's workers by what sets them apart; durations and loads follow from
model and state, with the simulator's numbers.  `Trigger`, `Rollback`, `Reset`, `Drain`, `Scale`
and `Reprioritize` are the control actions, `Export` a tick of the exporter, which may lose what it
sends.  `Rows(t)` is Grafana's answer at `t`: the last sample of each series, one per worker
and version, not older than the window to which `enforce_recency` narrows a query.

**Incident.**  `AskDurations`, `AskLoad`, `AskLog` and `AskTraces` are the queries the agent may
make, in any order and as often as it likes, each answered as of any moment the cache allows;
`Conclude` scores, asks the impact engine and decides whether a remedy is called for; `Approve` is
any of the three remedies, carried out or not; `Verify` is `verify_recovery` after the settle
window.  `some`, `always`, `basis` and `loads` are history: which workers were degraded in some or in
all exports behind an answer, and which exports these were.  They decide nothing.

## 3. Runs

Expected to pass:

| run | instance | distinct states | shows |
| --- | --- | --- | --- |
| `lease` | 3 worlds, 4 sessions, TTL 2, clock 0..4 | 7,856 | ownership is exclusive, one lease per session, observer only when full, a switch never loses the world, and the refinement of `WorldOwnership` |
| `quota` | 2 sessions, limits 2 and 3, window 3 ticks, 4 runs, clock 0..5 | 712,046 | no window over the limits while nothing is refunded, an outage never spends the budget, `Retry-After` is truthful |
| `run_stream` | 2 tool calls, 2 in parallel, 2 verifications, 1 drop, restart | 67,010 | no hole in the ledger, `VERIFYING` is transient, the shown state is true; and, under fairness, outcomes reach the browser and a verdict ends its wait |
| `executor` | 3 requests, 2 keys, 1 restart | 116,272 | at most once, locks, audit log and records agree, changes recorded, the refinement of `ExecutionLedger`; under fairness every request is answered |
| `gateway` | 3 requests (queries or writes), 2 queries, 1 token, 1 per tick, clock 0..2 | 331,339 | one upstream call per key, results belong to the query and its bucket, tokens are granted at the rate; under fairness every call is answered |
| `session` | 3 calls, 1 lost post, 2 forgotten sessions | about 376,000 | no tool runs twice, handshakes are shared; under fairness every call ends |
| `approval` | 2 browsers, one with 2 tabs, 1 world, 1 run with 1 option, 2 requests or launches under way, 1 approval, TTL 3, heartbeat 1, approval 1, clock 0..3 | 928,788 | a tab holds the world it shows if its browser was granted none since, an approval's lease does not lapse |
| `incident` | 6 workers of 3 models, window 1, cache 1, settle 3, clock 0..4, 2 changes from outside | 210,626 | the workers named, the conclusion and the verdict agree with the farm; verdicts rest on new telemetry |

Expected to be violated, each by what the code does against what a comment of the code says
(quoted in `PROJECT.json`, "findings"):

| run | property | what happens |
| --- | --- | --- |
| `failure_lost` | `FailureEndsTheWait` | the `ERROR` of a failed investigation is numbered 1, below what the stream has delivered; the browser waits for ever |
| `verdict_skipped` | `NoVerdictSkipped` | after a failed verification the verdict of the next has a number already delivered, and is skipped |
| `stale_unreachable` | `StaleCoversOutage` | the key's 15 s bucket changes before any entry is older than its time to live, so no stale entry is ever found, and an outage fails queries the cache holds usable answers to |
| `run_crossed` | `RunStaysWithItsWorld` | a switch during a launch clears the run, the launch's answer puts it back beside the other world, and its remedy, approved there, is asked of a world the run never investigated |

### Bounds and why they are enough

* Three worlds let a session switch while a third is free and a second is contended; a fourth
  session overflows into the observer world.  TTL 2 with a clock up to 4 covers renewal,
  expiry at the very instant, and re-leasing after expiry.  Sessions are symmetric.
* A deployment limit above the session limit makes either of the two the one that refuses.
  Four dispatches and a clock beyond the window let a stamp leave and another take its place.
  `DispatchLimit` is below `Window`, as the gateway's HTTP timeout is below its hour.
* Two tool calls in flight are the least that interleave their events, two verifications the
  least that overlap (with three, which the theorems cover, two reports can be alike).  The one drop may come at any point, between two frames or after the last.
* Three requests over two keys: two race for one key while another goes on beside them.
* In `gateway` two requests share a flight or the datasource lock while a third takes the only
  token.  The times to live are shorter than a bucket there, so that fresh, stale and swept
  entries all occur; `stale_unreachable` has them in the order of the configured values (bucket,
  range, stale tolerance), and its clock covers a change of bucket.
* In `session` one call can be in its handshake while another's post is under way and the third
  waits or is told 404.  Two sessions may be forgotten, so that a fresh one can be, too.
* In `approval` one world makes the second browser an observer or the next owner; two tabs share a
  session, and two requests under way let a reload's request overtake that of the page before it,
  whichever tab or browser they are of (`MaxAsks`, which counts launches too).  With one run and one option the run does not ask
  how often a farm is changed; `executor` does.  `run_crossed` has one tab, two worlds to switch
  between and two options.  TTL 3, `Beat` 1 and `CallLimit` 1 stand for 60 s or more, 30 s
  and 10 s and keep their order (`Beat + CallLimit < TTL`, named in `ApprovalAssumption`); the clock
  gets past an expiry.  Answers on their way to a tab arrive within a tick.
* In `incident` a tick is the exporter's 15 s.  The deployed values are a window of 4 (the recency
  of a minute), a cache age of 1 (a bucket) and a settle time of 6 (90 s).  TLC uses
  1, 1 and 3, which keep the one relation that matters, `Settle > Window + CacheAge`
  (`SettleAssumption`).  Six workers give each model twice.  Incidents strike the slow model and
  a worker that does not exist yet, or the middle model, and two changes let a reset follow an
  incident or a second incident the first.  Jitter is at its worst (2 s); in the proofs it is any of 0..2.

Symmetry is used only in runs without liveness properties.  Deadlock checking is off where the
system may stop: when a run is over and its stream drained, all requests are answered, or the clock
is at its bound.  It is on for `MCTenantLease` and `MCRunQuota`, where there is a call to make even
with the clock at its bound.

### Fairness

`RunStream!Fairness`: weak fairness of the worker's own steps (each upstream call
has a timeout and each outcome of it is handled), of polling and writing frames (a loop with a
half-second sleep), and of reconnecting (`EventSource` does it by itself).  There is none for
tool calls (the model may stop calling), approvals, drops and restarts.
`ActionExecutor!Fairness`: weak fairness of serving each request; `asyncio.Lock` is first come
first served, and the upstream calls have timeouts.  Nothing is assumed of the farm: a call to
the control plane may stay unanswered for ever.
`McpGateway!Fairness`: weak fairness of going on with each request; upstream calls have a
timeout, polling for a token ends by itself, and no tokens need come in.  Weak fairness suffices for the lock because no
request is duplicated without bound, so a waiting request is not passed over for ever.
`McpSession!Fairness`: weak fairness of going on with each call and of each post's being answered
or timing out (`httpx` has a timeout, which counts as a broken answer).  Nobody has to call.

### Observations

Met while modelling.  Where a comment or a test of the code says otherwise, it is quoted; no run of
its own is kept for these.

* **Partial recovery is never reported.**  With no worker degraded nothing is traced, and
  `calculator.py` then sets the delay to 0 however late the queue is, so the verifier says `VERIFIED`
  and its branch for `PARTIALLY_RECOVERED` (`verifier.py:130-135`) is dead: theorem
  `NeverPartialCorrect`.  The repository takes the opposite for granted.  `verifier.py:146-148`:
  "Workers healthy but the deadline still missed is a partial result, not a success".
  `action-executor/tests/test_executor.py:164`: "Healthy workers but a missed deadline is partial, not
  success", asserted over an impact engine that the test makes up.  `agent-worker/src/main.py:231-233`
  and `stream-service/src/sse.py:24-27` name it as an outcome that occurs, and `App.tsx:235-240` tells of
  "a run that verified as PARTIALLY_RECOVERED".
* **`Retry-After` can name a time at which the deployment is full.**  `quota.py:10-13`: "the caller
  deserves a truthful answer about when they can try again".  With one run per session, two for
  the deployment and a window of an hour: s2 reserves at 0 s and s1 at 5 s; s2's dispatch fails at 8 s and
  its refund takes s1's stamp; s3 and s4 reserve at 100 s and 3602 s.  At 3603 s s1 is refused by its own
  limit and told 3 s; at 3606 s the deployment is full, though nobody reserved meanwhile.
  `RetryIsTruthful` therefore promises a caller refused by its own limit nothing once a run
  was refunded.
* **The token bucket does not bound what goes upstream.**  `ratelimit.py:14`: "Enforces global QPS
  ceiling to protect upstream Grafana Cloud quota".  Between the token (`main.py:189`) and the post
  (`mcp_client.py:267`) lie the session lock and a handshake of two posts, up to 20 s each, so calls
  granted over that time can leave together; `list_datasources`
  (`mcp_client.py:222`), the handshake and the second post after a 404 (`mcp_client.py:274`) take no
  token.  `GrantsHeld` is about grants alone.
* **Nothing limits a run to one remediation.**  The planner offers three options
  (`planner.py:638-671`), the idempotency key is the run and the option (`executor.py:54`), the approve
  route asks only that the option exists, and the records are lost on a restart.  A run can change the
  farm once with each option, during its verification too, and again after a restart.
  `ImplementsLedger` is what holds: once per option and lifetime.
* **A tab is not told that its browser has moved.**  Session id and preferred world are shared by all
  tabs (`useTenantLease.ts:18-19`): a second tab that switches gives up the first tab's
  world, whose heartbeats fail unnoticed and whose approvals are refused with 403.  `ShownWorldIsHeld` is about tabs that show
  what their browser was granted last.
* **Timestamps do not tell a worker's two series apart.**  The docstring of `values_by_worker`
  (`common/analysis.py:81-82`) says "Comparing sample timestamps resolves it"; but of an
  instant query's two rows `rewriter.py:206-208` says "Both carry the query timestamp rather than the
  sample timestamp, so the stale one cannot be told apart after the fact".  Only the recency window resolves it, and within
  a minute of a change either series may be read; `AffectedMatchFleet` and `VerdictMatchesFleet` are
  stated for either.
* A verification that cannot complete leaves the run `DEGRADED` and no `COMPLETED` event follows.
* A refund removes the deployment's newest stamp, which may be another run's; the older one that
  stays leaves the window early, and one more run may start than the limit.  `WindowHeld` therefore
  speaks of windows without refunds.
* A control call that is declined in the body of a 200 counts as a success and is annotated in
  Grafana as applied; and `approve_run_action` starts verification whatever the executor answered.
* A call whose session another call has discarded is not posted again when its first answer
  is 404; a 404 that comes late discards a session that is fresh; and a handshake whose notification is
  lost leaves its session recorded, without a handshake the server has seen.
* A fleet that is degraded as a whole has no gap, so it is rejected as an incident and verified as
  recovered.  The properties except that case, and `SomeoneIsHealthy` proves that it is a
  consequence of cutting at a gap.
* Narrowing the last query for durations to a version, or to a figure without workers, makes the run accuse
  healthy workers of the slow model, or reject a real incident.
* The control-group test fails on ordinary jitter (44 s against 20 s is over a factor of two), and
  the trace test cannot fail for real frames, since the root span `render_frame` counts as rendering.
* Workers added while the new version is configured carry it and are healthy, so that the
  localization test fails from then on.  A reset leaves what was drained, added or reprioritised.
* `REPRIORITIZE_QUEUE` without an answer of the impact engine names no sequence and is declined.
* The browser's demo trigger names workers w-11 and w-17, which a world of eight does not have
  (`App.tsx:141`); `trigger_incident` passes over them.

## 4. What is proved

All with TLAPS, for every value of the constants that satisfies the named assumptions
(`LeaseAssumption`, `QuotaAssumption`, `ApprovalAssumption`, `ExecutorAssumption`, `RunAssumption`,
`StreamAssumption`, `GatewayAssumption`, `SessionAssumption`, `FarmAssumption`, `SettleAssumption`).
Every safety property of a run that passes is among them.

**`TenantLease_proofs`** – `TypeCorrect`, `OneLeaseCorrect`, `ObserverCorrect`, `SwitchCorrect`,
`OwnershipCorrect`.  The inductive invariant is `TypeOK` with `OneLeasePerSession`; it needs
`TypeOK`'s clause that an observer entry is only ever its own session's.  Everything about
`acquire_lease` goes through `CandidateProperty`, what the search returns, and `GrantEffect`, what
granting changes.  The action properties are proved per action from the invariant.
`OwnershipCorrect` is the refinement: every step vacates a set of worlds, lets one session occupy
a vacant one, or leaves ownership alone; a tick is the case where several leases lapse at once.

**`RunQuota_proofs`** – `QuotaTypeCorrect`, `WindowCorrect`, `OutageCorrect`, `RetryCorrect`.  None of
the properties is inductive: they say nothing of stamps that left the deque, and a property about
every moment of the past needs one about every suffix of the deque.  `Tracks` is the relation of one
deque to the runs charged to it: it is a history (`History`: in order of time, none from the future); from any
moment on it has no more stamps than runs that were not refunded (`NeverMore`); and while nothing
was refunded, it has no fewer within the window (`NeverLess`).  `Accounted` says this of the
deployment's deque and of every session's, present or swept, with both limits.  A refund takes the
newest stamp, whichever run put it there, and keeps `NeverMore`: that is all an
outage asks for, and `NeverLess` is what it gives up, as the code does.  `RetryCorrect` is about both
deques at the time the caller was told: `Outlasted` says that the whole seconds named from a deque
outlast its oldest stamp, `Freed` that a deque with a stamp past the window has room and one with room
keeps it.  Where the deployment refused, the session's deque has room already.  Where the session's
did, its oldest stamp stands for a run the deployment's deque has a stamp of the same time for
(`StampedRuns`, which needs that nothing was refunded), so that the deployment has room then, too.

**`Approval_proofs`** – `ApprovalTypeCorrect`, `ShownCorrect`, `ApprovalLeaseCorrect`.
What the pool does is taken from `TenantLease_proofs` and summed up in `Renewed` (who acquires or
renews holds what it holds for a full TTL, and nobody else's lease is touched).  The invariant follows a
session's lease through its `last` grant: `Fresh` says until when at least the session has the world it was
last granted, `OnlyLast` that it has no other.  `TabSound`: while an answer is on its way to a tab the
lease is as good as new, and a tab that shows what its browser was last granted renewed it at most `Beat`
ago.  `CallSound`: the lease lasts beyond the deadline of every approval; this is where
`Beat + CallLimit < TTL` is used.  `Keeps` is what every step but a tick does to all this: a session keeps
its lease on what it was last granted or is granted anew, and holds nothing else.  With it each
action is a few lines, however many tabs a browser has and however late a request of a page that went
away is handled.

**`ActionExecutor_proofs`** – `TypeCorrect`, `AppliedOnceCorrect`, `LockCorrect`, `AuditCorrect`,
`ChangesCorrect`, `LedgerCorrect`, `AnswersCorrect`.  At-most-once is not inductive: it says nothing of calls still on their
way.  The strengthening is `OneCall` (absent a restart, every call is on record or its caller
holds the lock, so a key has one call at most, and the farm's count is that call's doing), with
`NoCallYet` and `HeldIsUndecided`.  `AnswersCorrect` is about what callers are told: `ALREADY_APPLIED` only
after another caller of the option was told its outcome (which a restart does not undo), and an outcome
once per option until a restart.  It rests on `Answered`: a record is what some caller was told, and
whoever was told an outcome has called the farm.  `LedgerCorrect` is the refinement of `ExecutionLedger`,
across restarts: beside the invariant it needs `Counted`, that the farm's count under a key is the
number of calls it carried out, which are among the calls made under it.

**`RunStream_proofs`** – of the run alone, `RunTypeCorrect` and `VerifyingCorrect`; of the composition
`StreamTypeCorrect`, `LedgerCorrect`, `ShownCorrect`, `OrderCorrect`, `StreamRefinesRun`.  `VerifyingIsLive` is inductive
with the type invariant: only an approval sets `VERIFYING`, and each report that ends a task sets
another state.  That the calls in flight are finitely many is part of the invariant, since their
number is bounded.

That the ledger has no holes is not inductive.  `Numbered` says how the worker numbers: while it
runs everything is below its counter; what a verification or a failure adds is no planner event;
and (`Ordered`) an event with no higher number than another was, if it is the planner's,
emitted no later, so that a reader with a cursor may take the store's order for the numbers'.
`Effect` says what one worker step does to the events.  `Delivered` relates browser, stream and
store: everything of the planner's up to the last id, up to the cursor of an open stream, and what
of it was fetched and is not yet written.  `StreamRefinesRun` shows that stream and browser never
act on the worker, so that the theorems about the run hold in the composition.

That the shown state is true is the hardest of these, because verifications that overlap
report under the same numbers and the cursor compares numbers.  `Chained` says that a verification is
numbered next to where the investigation or an earlier verification ended; `Told`, that the last
event of a run at rest says the state it rests in; `Forward`, that the stream only ever goes forward
in the store, and that the browser shows what the last event it was given makes of it.  The
lemma behind it is `EndBetween`: where an event is followed by one with a lower number, an end of the
run numbered no lower than that one has come first, and on its delivery the stream closes and resumes
above it.  The attempt to prove it found
the model wrong in one place: `seen` used to hold events by value, and with three overlapping
verifications two verdicts have the same number and type, so that one never delivered counted as
given.  `seen` now tells events by their place in the store.
`OrderCorrect` is an action property that `Forward` gives as well: until a run fails, each event is
fed to the reducer once at most and in the order of the store (after a failure the numbers no longer
say which came first, see `failure_lost`).

**`McpGateway_proofs`** – `GatewayTypeCorrect`, `OneCallCorrect`, `ServedCorrect`, `GrantsCorrect`,
`FollowersCorrect`.  `Staged` says what is known of a call at each of its awaits.  `Flown` makes
`flights` exact: each is registered for a call that leads it under that key, every leader is
registered, and whoever follows has a flight to follow; one leader per key and `FollowersCorrect` (no
query waits on a flight that nobody leads) are consequences.  `Fitting` says that results in the
cache, kept as a fallback or served fit their key, that is, answer its query and are no older than its
bucket.  `Budget` adds what is missing in `GrantsHeld`: tokens granted since any moment and tokens
left are together at most what the bucket held and what came in.

**`McpSession_proofs`** – `TypeCorrect`, `RanOnceCorrect`, `SharedCorrect`.  That no tool runs twice
needs `Ran`, which says for each stage of a call and each answer under way whether the tool has run, and
`Handshake`, that a handshake begins without a session and brings one when it is answered;
`OnceInLine` says that no call queues twice for the lock.  Sharing of
handshakes is a matter of counting: `Sharing` compares the sessions issued with what is owed
(`Owed`) and what was spent on them (`Spent`), whose cardinalities each action changes together.

**`Incident_proofs`** – of the split alone, `DegradedAreSeparated` (whoever is degraded is at least
twice as slow as whoever is not) and `SomeoneIsHealthy` (a fleet is never degraded as a whole), for
fleets of any finite size; of the run `TypeCorrect`, `AffectedCorrect`, `ConclusionCorrect`,
`NewTelemetryCorrect`, `VerdictCorrect`, `NeverPartialCorrect`, for fleets, windows, incidents and clocks of
any size.  `TopGap` and `TopGapIsWidest` show that a gap wider than any below it is where a fleet is
cut, and `SimulatedFleetIsCut` that this is the gap between 145 s and the simulator's other
durations, whatever models and jitter are in the fleet.  On them rests `ReadingMatches`, the key
lemma: whichever series of a worker is read, those cut off were degraded in some export behind the
answer, and whoever was in all of them is cut off, unless the answer shows nobody healthy.  The
inductive invariant `IInv` consists of `FarmHistory` (the exports kept are the latest, and each shows
a proper fleet), the types, `EvidenceSound`, `CardSound` and `OutcomeSound`: what each record says of
the farm at the time it was made.  That verdicts rest on new telemetry is where `SettleAssumption`
is used.

## 5. What is only model-checked

* Liveness (`OutcomeReachesBrowser`, `VerdictEndsTheWait`, `EveryRequestAnswered`,
  `EveryCallAnswered`, `EveryCallEnds`): the prover does not handle fairness.
* The violations: a counterexample on a small instance is one for the code.

## 6. What is not modelled, and why

* **Inside a modelled part.**  Texts, payloads and prompts; the language model is the free choice of
  when to call a tool, which, and when to stop.  Runs are modelled one at a time in the worker, where
  they share no state but the dictionary they are filed in.  The store's other documents
  (hypotheses, impact) are written and never read back by the control flow.  The grade of a
  hypothesis (HIGH, MEDIUM, LOW) is a second reading of the same count.
* **Numbers that are inputs.**  Throughput, queue depth and the delay computed from them, and the
  deadline's re-anchoring: the properties tell apart only whether a delay is reported.  Their
  arithmetic is in floating point and dates.  (Any world's reset re-anchors the deadlines of all, and the baseline
  is never computed anew; a model of it would say no more than that.)
* **Query text.**  `rewriter.py` puts a tenant matcher and a range into PromQL and LogQL.  What
  that selects is in `RenderFarm`; how the text is edited is a string function.  (A model query that
  aggregates gets no recency window.)
* **Switched off or unused.**  Redis as cache and lock, `list_tools`, MCP servers without session ids
  (every call would make a handshake of its own).
* **Pure text or I/O.**  Prompts, the OTLP pipelines and their buffers, tracing, TLS, token format,
  counters and call log, database schema and seed, scripts, infrastructure, dashboards and mock-ups.
* **Beyond one step of an approval.**  What a verification does to a run is in `RunStream`, what a remedy
  does to the farm in `Incident`; `Approval` follows neither.  In it a heartbeat is handled as it is
  sent, and the worker and the gateway do not restart: a gateway that does forgets all leases, which no
  tab is told before it asks again; a worker that does forgets the runs (`RunStream`).
* **The browser's panels.**  Only what the hooks and handlers keep and send is modelled.

`docs/architecture.md` calls itself a target design that the code overrides, so no finding rests
on it.

## 7. Plan

Every invariant, action property and refinement that a passing run checks is a theorem.  What
could be added, in this order:

1. **Steps towards liveness** that the prover can take: which calls, tasks and streams cannot be
   stuck because what they wait for is still under way, as `FollowersCorrect` is for flights: for the
   key locks of `ActionExecutor`, the session lock of `McpSession` and the datasource lock of
   `McpGateway`.
2. **`FleetStats` beyond the simulator**: what `split_degraded` does to a fleet with several gaps over
   the factor.
