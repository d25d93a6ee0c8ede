------------------------------ MODULE RunStream ------------------------------
(***************************************************************************)
(* A run's events on their way to the browser: the agent-worker (AgentRun) *)
(* stores them, the stream-service polls the worker with a cursor and      *)
(* writes them to a server-sent-event stream, and the browser's            *)
(* EventSource feeds useRunStream, reconnecting with the id of the last    *)
(* frame it received whenever the stream closes.                           *)
(***************************************************************************)
EXTENDS AgentRun

CONSTANT MaxDrops   \* bound on the connections lost or closed at the ceiling

ASSUME StreamAssumption == MaxDrops \in Nat

VARIABLES
    open,       \* whether a stream is established
    cursor,     \* the stream's current_seq
    batch,      \* fetched events not yet written, with their place in the store
    lastId,     \* the id of the last frame the browser received
    seen,       \* the events the browser's handler was given, with their place
    ui,         \* the run state the browser shows
    waiting,    \* the browser's isStreaming: it still waits for the run
    drops       \* streams lost so far

streamVars == <<open, cursor, batch, lastId, seen, ui, waiting, drops>>
vars == <<runVars, streamVars>>

TerminalEvents == {"COMPLETED", "ERROR"}

Init ==
    /\ RunInit
    /\ open = TRUE
    /\ cursor = 0
    /\ batch = {}
    /\ lastId = 0
    /\ seen = {}
    /\ ui = "QUEUED"
    /\ waiting = TRUE
    /\ drops = 0

-----------------------------------------------------------------------------
\* get_events: what the store has with a number above n, in the store's order.
EventsSince(n) == {<<k, events[k]>> : k \in {j \in DOMAIN events : events[j].seq > n}}

\* The first of the events still to be written.
First(place) == \A p \in batch : place <= p[1]

\* The stream polls the worker; an empty answer or a failed poll changes nothing.
Fetch ==
    /\ open
    /\ batch = {}
    /\ EventsSince(cursor) # {}
    /\ batch' = EventsSince(cursor)
    /\ UNCHANGED <<runVars, open, cursor, lastId, seen, ui, waiting, drops>>

\* Fault: once degraded, the shown state stays so until the run is over.
Reduce_Sticky(shown, type) ==
    CASE type = "COMPLETED" -> "COMPLETED"
      [] type = "ERROR" -> "FAILED"
      [] type = "DEGRADED" \/ shown = "DEGRADED" -> "DEGRADED"
      [] type = "PLAN" -> "RUNNING"
      [] type = "APPROVAL_REQUIRED" -> "AWAITING_APPROVAL"
      [] type = "VERIFICATION" -> "VERIFYING"
      [] OTHER -> shown

\* The run state the browser's reducer shows after an event; most leave it alone.
Reduce(shown, type) ==
    CASE type = "PLAN" -> "RUNNING"
      [] type = "APPROVAL_REQUIRED" -> "AWAITING_APPROVAL"
      [] type = "VERIFICATION" -> "VERIFYING"
      [] type = "COMPLETED" -> "COMPLETED"
      [] type = "DEGRADED" -> "DEGRADED"
      [] type = "ERROR" -> "FAILED"
      [] OTHER -> shown

\* Fault: the terminal event itself is not written before the stream closes.
Deliver_DropsTerminal ==
    /\ open
    /\ \E p \in batch :
         LET e == p[2]
             last == e.type \in TerminalEvents
         IN  /\ First(p[1])
             /\ cursor' = IF e.seq > cursor THEN e.seq ELSE cursor
             /\ lastId' = e.seq
             /\ seen' = IF last THEN seen ELSE seen \cup {p}
             /\ ui' = IF last THEN ui ELSE Reduce(ui, e.type)
             /\ open' = ~last
             /\ batch' = IF last THEN {} ELSE batch \ {p}
    /\ UNCHANGED <<runVars, waiting, drops>>

\* The next fetched event is written, received and reduced.  After a terminal
\* event the stream closes and drops the rest of what it fetched.
Deliver ==
    /\ open
    /\ \E p \in batch :
         LET e == p[2]
             last == e.type \in TerminalEvents
         IN  /\ First(p[1])
             /\ cursor' = IF e.seq > cursor THEN e.seq ELSE cursor
             /\ lastId' = e.seq
             /\ seen' = seen \cup {p}
             /\ ui' = Reduce(ui, e.type)
             /\ waiting' = (waiting /\ ~last)
             /\ open' = ~last
             /\ batch' = IF last THEN {} ELSE batch \ {p}
    /\ UNCHANGED <<runVars, drops>>

\* The connection breaks, or the stream reaches its duration ceiling.
Drop ==
    /\ open
    /\ drops < MaxDrops
    /\ drops' = drops + 1
    /\ open' = FALSE
    /\ batch' = {}
    /\ UNCHANGED <<runVars, cursor, lastId, seen, ui, waiting>>

\* Fault: the new stream takes up at the last event the worker has.
Reconnect_AtEnd ==
    /\ ~open
    /\ open' = TRUE
    /\ cursor' = IF events = <<>> THEN lastId ELSE events[Len(events)].seq
    /\ UNCHANGED <<runVars, batch, lastId, seen, ui, waiting, drops>>

\* EventSource reconnects by itself, and the Last-Event-ID it sends is where the
\* new stream starts.  Nothing closes it, so it does after a terminal event too.
Reconnect ==
    /\ ~open
    /\ open' = TRUE
    /\ cursor' = lastId
    /\ UNCHANGED <<runVars, batch, lastId, seen, ui, waiting, drops>>

Next ==
    \/ RunNext /\ UNCHANGED streamVars
    \/ Fetch \/ Deliver \/ Drop \/ Reconnect

Spec == Init /\ [][Next]_vars

\* The worker's tasks go on, the stream-service keeps polling and writing, and the
\* browser keeps reconnecting.  Nobody has to approve, and nothing has to be lost.
Fairness ==
    /\ WF_vars(Progress /\ UNCHANGED streamVars)
    /\ WF_vars(Fetch) /\ WF_vars(Deliver) /\ WF_vars(Reconnect)

FairSpec == Spec /\ Fairness

-----------------------------------------------------------------------------
(* Properties *)

\* The stream's and the browser's state is well formed, beside the run's.
TypeOK ==
    /\ RunTypeOK
    /\ open \in BOOLEAN /\ waiting \in BOOLEAN
    /\ cursor \in Nat /\ lastId \in Nat
    /\ batch \subseteq Nat \X Event
    /\ seen \subseteq Nat \X Event
    /\ ui \in RunStates
    /\ drops \in 0..MaxDrops

\* The browser was given the k-th event of the store.  Verifications that overlap
\* report under the same numbers, so its number and type do not tell.
Given(k) == <<k, events[k]>> \in seen

\* The planner's own events: those below the number it stopped at, but for ERROR.
PlannerEvents == {k \in DOMAIN events : events[k].seq < seq /\ events[k].type # "ERROR"}

\* However tool calls overlap and streams break, the browser has no hole in the
\* investigation's ledger: it was given everything up to the id it resumes from.
LedgerHasNoHoles == \A k \in PlannerEvents : events[k].seq <= lastId => Given(k)

\* What the browser may show for the state a concluded run rests in: a run that
\* ended degraded either reported a verdict, and is over, or could not verify.
Shows(st) ==
    CASE st = "AWAITING_APPROVAL" -> {"AWAITING_APPROVAL"}
      [] st = "COMPLETED" -> {"COMPLETED"}
      [] st = "DEGRADED" -> {"COMPLETED", "DEGRADED"}
      [] OTHER -> {}

\* A browser that was given every event of a concluded run at rest shows the state
\* the run document is in, whatever was repeated on the way and however failed
\* queries and overlapping verifications coloured the state before.
ShownStateIsTrue ==
    /\ phase = "concluded" /\ Idle
    /\ \A k \in DOMAIN events : Given(k)
    => ui \in Shows(state)

Seen(types) == \E p \in seen : p[2].type \in types

\* An investigation that concludes shows in the browser, as a question or as an
\* ending, through any drops, unless the worker is restarted meanwhile.
OutcomeReachesBrowser ==
    phase = "concluded" ~>
        \/ phase = "lost"
        \/ Seen({"APPROVAL_REQUIRED", "COMPLETED"})

\* Once a verification has given a verdict, whatever it is and whatever became of
\* the others, the browser stops waiting, unless the worker is restarted first.
VerdictEndsTheWait ==
    (\E k \in DOMAIN events : events[k].type = "VERIFICATION") ~>
        (phase = "lost" \/ ~waiting)

\* What the worker says its ERROR event is for (agent-worker/src/main.py:119-122,
\* "leaves the browser showing 'Investigating...' forever. A terminal event is the
\* only thing that tells it to stop waiting"): a failed investigation ends the wait.
FailureEndsTheWait == phase = "failed" ~> (phase = "lost" \/ ~waiting)

\* What the gateway says of a verification (api-gateway/src/main.py:335-338, "the
\* outcome reaches the client on the event stream"): the browser does not resume
\* from beyond a verdict it was never given.
NoVerdictSkipped ==
    \A k \in DOMAIN events :
        events[k].type = "VERIFICATION" /\ events[k].seq <= lastId => Given(k)
=============================================================================
