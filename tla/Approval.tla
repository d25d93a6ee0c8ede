------------------------------ MODULE Approval ------------------------------
(***************************************************************************)
(* The approval pipeline: browsers (useTenantLease and App) whose tabs show *)
(* a world and a run, the gateway's approve route, which checks the lease  *)
(* and then calls agent-worker, action-executor and agent-worker again,    *)
(* and the lease pool of TenantLease behind both.                          *)
(*                                                                         *)
(* A session is one browser: its id and the world it remembers are kept in *)
(* localStorage, so that all its tabs act, and are granted worlds, as one. *)
(* A request for a world, and the launch of a run, are sent, handled and   *)
(* answered in separate steps; answers may overtake each other, and a      *)
(* request may be handled after its page went away.  A heartbeat is        *)
(* handled as it is sent.  The lease check and the second read of the      *)
(* lease in the approve route are one step, because nothing is awaited     *)
(* between them but a lock that is always free.                            *)
(*                                                                         *)
(* The executor is the ledger of ActionExecutor: it opens the key of a run *)
(* and an option once per lifetime and answers once it has decided it.     *)
(* What the farm makes of it, early or late, is ActionExecutor's matter.   *)
(***************************************************************************)
EXTENDS TenantLease, SequencesExt

CONSTANTS
    Tabs,           \* the browser tabs
    SessionOf,      \* the session of each tab
    Runs,           \* the investigations
    Options,        \* the options a run proposes
    NoRun,          \* no run
    NoTenant,       \* no world
    Beat,           \* the longest time between two heartbeats of a tab, in ticks
    CallLimit,      \* the longest an approval may take, in ticks
    MaxAsks,        \* bound on the requests under way
    MaxCalls        \* bound on the approvals under way

ASSUME ApprovalAssumption ==
    /\ SessionOf \in [Tabs -> Sessions]
    /\ NoRun \notin Runs
    /\ NoTenant \notin Tenants \cup {NoPreference, Unlisted}
    /\ Beat \in Nat \ {0} /\ CallLimit \in Nat
    /\ MaxAsks \in Nat /\ MaxCalls \in Nat
    /\ Beat + CallLimit < TTL

VARIABLES
    tab,        \* each tab: the world and the run it shows, if it is open
    asking,     \* the worlds each tab is asking the gateway for
    granted,    \* the answers on their way to each tab, in the order of the grants
    launching,  \* the runs each tab has launched and not heard of yet
    beat,       \* when each tab last renewed what it shows
    stored,     \* the world each browser remembers
    left,       \* the worlds asked for by pages of a browser that went away
    last,       \* the world each session was last granted
    world,      \* the world each run investigates
    stage,      \* how far each run is, until it has proposed its options
    calls,      \* the approvals in the gateway
    exec,       \* what the executor knows of each key
    asked       \* the worlds the farm was asked to change for each run

page == <<tab, asking, granted, launching, beat>>
session == <<stored, left, last>>
pool == <<leases, now>>
runs == <<world, stage>>
executor == <<exec, asked>>
allVars == <<pool, page, session, runs, calls, executor>>

Tab == [open : BOOLEAN, shown : Tenants \cup {NoTenant}, run : Runs \cup {NoRun}]
ClosedTab == [open |-> FALSE, shown |-> NoTenant, run |-> NoRun]

\* The idempotency keys.
RunOptions == Runs \X Options

\* looking, executing, handing over: the gateway waits for agent-worker, for the
\* executor, and for agent-worker again.
CallStages == {"looking", "executing", "handing over"}
Call == [stage : CallStages, session : Sessions, run : Runs, option : Options,
         tenant : Worlds, since : Nat]
KeyOf(c) == <<c.run, c.option>>

AInit ==
    /\ Init
    /\ tab = [b \in Tabs |-> ClosedTab]
    /\ asking = [b \in Tabs |-> {}]
    /\ granted = [b \in Tabs |-> <<>>]
    /\ launching = [b \in Tabs |-> {}]
    /\ beat = [b \in Tabs |-> 0]
    /\ stored = [s \in Sessions |-> NoPreference]
    /\ left = [s \in Sessions |-> {}]
    /\ last = [s \in Sessions |-> NoTenant]
    /\ world = [r \in Runs |-> NoTenant]
    /\ stage = [r \in Runs |-> "none"]
    /\ calls = {}
    /\ exec = [k \in RunOptions |-> "free"]
    /\ asked = [r \in Runs |-> {}]

-----------------------------------------------------------------------------
(* The browser and the lease routes *)

\* The requests under way, for a world or of a launch: not handled yet, or not heard of
\* yet.
UnderWay ==
    MapThenSumSet(LAMBDA b : Cardinality(asking[b]) + Len(granted[b])
                               + Cardinality(launching[b]), Tabs)
      + MapThenSumSet(LAMBDA s : Cardinality(left[s]), Sessions)

\* The page is loaded and asks for the world its browser remembers.
Open(b) ==
    /\ ~tab[b].open /\ UnderWay < MaxAsks
    /\ tab' = [tab EXCEPT ![b].open = TRUE]
    /\ asking' = [asking EXCEPT ![b] = {stored[SessionOf[b]]}]
    /\ UNCHANGED <<pool, granted, launching, beat, session, runs, calls, executor>>

\* The page goes away, closed or reloaded, with all it knows; the gateway goes on with
\* the requests it has sent.
Close(b) ==
    /\ tab[b].open
    /\ tab' = [tab EXCEPT ![b] = ClosedTab]
    /\ asking' = [asking EXCEPT ![b] = {}]
    /\ granted' = [granted EXCEPT ![b] = <<>>]
    /\ launching' = [launching EXCEPT ![b] = {}]
    /\ beat' = [beat EXCEPT ![b] = 0]
    /\ left' = [left EXCEPT ![SessionOf[b]] = @ \cup asking[b]]
    /\ UNCHANGED <<pool, stored, last, runs, calls, executor>>

\* handleSwitchTenant: the run is dropped and the other world asked for, while an
\* earlier request may still be under way.
SwitchTenant(b, t) ==
    /\ tab[b].shown # NoTenant /\ t # tab[b].shown
    /\ UnderWay < MaxAsks
    /\ tab' = [tab EXCEPT ![b].run = NoRun]
    /\ asking' = [asking EXCEPT ![b] = @ \cup {t}]
    /\ UNCHANGED <<pool, granted, launching, beat, session, runs, calls, executor>>

\* The gateway grants session s a world, preferring p, and says which.
Grants(s, p, t) ==
    /\ Acquire(s, p)
    /\ HoldsLease(t, s)'
    /\ last' = [last EXCEPT ![s] = t]

\* The gateway handles one of a tab's requests, and answers with what it granted.
Acquired(b) ==
    /\ \E p \in asking[b], t \in Tenants :
         /\ Grants(SessionOf[b], p, t)
         /\ asking' = [asking EXCEPT ![b] = @ \ {p}]
         /\ granted' = [granted EXCEPT ![b] = Append(@, t)]
    /\ UNCHANGED <<tab, launching, beat, stored, left, runs, calls, executor>>

\* It handles a request of a page that went away: nobody hears of the grant.
AcquiredLate(s) ==
    /\ \E p \in left[s], t \in Tenants :
         /\ Grants(s, p, t)
         /\ left' = [left EXCEPT ![s] = @ \ {p}]
    /\ UNCHANGED <<page, stored, runs, calls, executor>>

\* acquireLease: the tab hears one of the answers, shows the world it was granted and
\* has the browser remember it unless it is the observer world; or the answer is lost.
Heard(b) ==
    /\ \E i \in 1..Len(granted[b]) :
         LET s == SessionOf[b]
             t == granted[b][i]
         IN  /\ granted' = [granted EXCEPT ![b] = RemoveAt(@, i)]
             /\ \/ /\ tab' = [tab EXCEPT ![b].shown = t]
                   /\ beat' = [beat EXCEPT ![b] = now]
                   /\ stored' = [stored EXCEPT ![s] = IF t = Observer THEN @ ELSE t]
                \/ UNCHANGED <<tab, beat, stored>>
    /\ UNCHANGED <<pool, asking, launching, left, last, runs, calls, executor>>

\* Fault: the heartbeat names the world the browser remembers.
Beats_Stored(b) ==
    LET s == SessionOf[b]
    IN  /\ tab[b].shown # NoTenant /\ beat[b] < now
        /\ beat' = [beat EXCEPT ![b] = now]
        /\ \/ stored[s] \in Worlds /\ Heartbeat(s, stored[s])
           \/ ~(stored[s] \in Worlds /\ HoldsLease(stored[s], s)) /\ UNCHANGED pool
        /\ UNCHANGED <<tab, asking, granted, launching, session, runs, calls, executor>>

\* The heartbeat for the world that is shown; the tab ignores that it may fail.
Beats(b) ==
    /\ tab[b].shown # NoTenant /\ beat[b] < now
    /\ beat' = [beat EXCEPT ![b] = now]
    /\ \/ Heartbeat(SessionOf[b], tab[b].shown)
       \/ ~HoldsLease(tab[b].shown, SessionOf[b]) /\ UNCHANGED pool
    /\ UNCHANGED <<tab, asking, granted, launching, session, runs, calls, executor>>

-----------------------------------------------------------------------------
(* Runs *)

\* _require_lease: the session of a request holds the tenant the request names.
RequireLease(t, s) == HoldsLease(t, s)

\* handleStartInvestigation and create_run: a run of the world that is shown starts
\* if the session holds that world.  (RunQuota may refuse it.)
Launch(b) ==
    /\ tab[b].shown # NoTenant
    /\ RequireLease(tab[b].shown, SessionOf[b])
    /\ UnderWay < MaxAsks
    /\ \E r \in Runs :
         /\ stage[r] = "none"
         /\ stage' = [stage EXCEPT ![r] = "investigating"]
         /\ world' = [world EXCEPT ![r] = tab[b].shown]
         /\ launching' = [launching EXCEPT ![b] = @ \cup {r}]
    /\ UNCHANGED <<pool, tab, asking, granted, beat, session, calls, executor>>

\* The tab hears of a run it launched, and shows it.
Launched(b) ==
    /\ \E r \in launching[b] :
         /\ tab' = [tab EXCEPT ![b].run = r]
         /\ launching' = [launching EXCEPT ![b] = @ \ {r}]
    /\ UNCHANGED <<pool, asking, granted, beat, session, runs, calls, executor>>

\* The investigation proposes its options; one that ends without (AgentRun) never
\* gets this far.
Investigated(r) ==
    /\ stage[r] = "investigating"
    /\ stage' = [stage EXCEPT ![r] = "proposed"]
    /\ UNCHANGED <<pool, page, session, world, calls, executor>>

-----------------------------------------------------------------------------
(* approve_run_action *)

\* Fault: is_observer is set and never read.
MayAct_Observers(t, s) == RequireLease(t, s)

\* The lease is held, and it is not an observer's.
MayAct(t, s) == RequireLease(t, s) /\ t # Observer

\* The operator approves an option of what the tab shows: the run it shows, in the
\* world it shows.  Options stay open once the run has any, whatever was approved or
\* verified before; and an approval whose connection dropped may be repeated while the gateway
\* is still at it.  One that is refused changes nothing.
Approve(b, o) ==
    /\ tab[b].shown # NoTenant /\ tab[b].run # NoRun
    /\ MayAct(tab[b].shown, SessionOf[b])
    /\ stage[tab[b].run] = "proposed"
    /\ Cardinality(calls) < MaxCalls
    /\ calls' = calls \cup
         {[stage |-> "looking", session |-> SessionOf[b], run |-> tab[b].run,
           option |-> o, tenant |-> tab[b].shown, since |-> now]}
    /\ UNCHANGED <<pool, page, session, runs, executor>>

To(c, st) == calls' = (calls \ {c}) \cup {[c EXCEPT !.stage = st]}
Ends(c) == calls' = calls \ {c}

\* The run is fetched, and the executor is asked to carry out the option.  It calls the
\* farm unless it has the option under way, or decided, already.
Looked(c) ==
    /\ c.stage = "looking"
    /\ To(c, "executing")
    /\ \/ /\ exec[KeyOf(c)] = "free"
          /\ exec' = [exec EXCEPT ![KeyOf(c)] = "open"]
          /\ asked' = [asked EXCEPT ![c.run] = @ \cup {c.tenant}]
       \/ exec[KeyOf(c)] # "free" /\ UNCHANGED <<exec, asked>>
    /\ UNCHANGED <<pool, page, session, runs>>

\* The executor has answered, whatever it says: verification is asked for.
Executed(c) ==
    /\ c.stage = "executing" /\ exec[KeyOf(c)] = "decided"
    /\ To(c, "handing over")
    /\ UNCHANGED <<pool, page, session, runs, executor>>

\* Either call fails or takes too long: the approval ends with a 500 and nothing is
\* verified, though the executor may be at work.
GivesUp(c) ==
    /\ c.stage \in {"looking", "executing"}
    /\ Ends(c)
    /\ UNCHANGED <<pool, page, session, runs, executor>>

\* Verification is asked for, and starts or not; what it does to the run is RunStream's.
HandsOver(c) ==
    /\ c.stage = "handing over"
    /\ Ends(c)
    /\ UNCHANGED <<pool, page, session, runs, executor>>

-----------------------------------------------------------------------------
(* The executor and the clock *)

\* The executor records an outcome, and answers with it.
Settles(k) ==
    /\ exec[k] = "open"
    /\ exec' = [exec EXCEPT ![k] = "decided"]
    /\ UNCHANGED <<pool, page, session, runs, calls, asked>>

\* The executor restarts: its locks and records were only in memory, and the approvals
\* that wait for it end with a 500.
Restart ==
    /\ exec' = [k \in RunOptions |-> "free"]
    /\ calls' = {c \in calls : c.stage # "executing"}
    /\ UNCHANGED <<pool, page, session, runs, asked>>

\* Fault: an approval has no time limit.
TimePasses_Unlimited ==
    /\ \A b \in Tabs : granted[b] = <<>>
    /\ \A b \in Tabs : tab[b].shown # NoTenant => now < beat[b] + Beat
    /\ Tick
    /\ UNCHANGED <<page, session, runs, calls, executor>>

\* Time passes, but not past a heartbeat that is due, the end of an approval or the
\* arrival of an answer that is on its way.
TimePasses ==
    /\ \A b \in Tabs : granted[b] = <<>>
    /\ \A b \in Tabs : tab[b].shown # NoTenant => now < beat[b] + Beat
    /\ \A c \in calls : now < c.since + CallLimit
    /\ Tick
    /\ UNCHANGED <<page, session, runs, calls, executor>>

GoOn(c) == Looked(c) \/ Executed(c) \/ GivesUp(c) \/ HandsOver(c)

ANext ==
    \/ \E b \in Tabs :
         \/ Open(b) \/ Close(b) \/ Acquired(b) \/ Heard(b) \/ Beats(b)
         \/ Launch(b) \/ Launched(b)
         \/ \E t \in Worlds : SwitchTenant(b, t)
         \/ \E o \in Options : Approve(b, o)
    \/ \E s \in Sessions : AcquiredLate(s)
    \/ \E c \in calls : GoOn(c)
    \/ \E r \in Runs : Investigated(r)
    \/ \E k \in RunOptions : Settles(k)
    \/ Restart
    \/ TimePasses

ASpec == AInit /\ [][ANext]_allVars

-----------------------------------------------------------------------------
(* Properties *)

\* Every variable is well formed, and neither does an approval under way act on the
\* observer world, nor is the farm ever asked to change it.
ATypeOK ==
    /\ TypeOK
    /\ tab \in [Tabs -> Tab]
    /\ asking \in [Tabs -> SUBSET (Worlds \cup {NoPreference})]
    /\ granted \in [Tabs -> Seq(Tenants)]
    /\ launching \in [Tabs -> SUBSET Runs]
    /\ beat \in [Tabs -> Nat]
    /\ stored \in [Sessions -> Worlds \cup {NoPreference}]
    /\ left \in [Sessions -> SUBSET (Worlds \cup {NoPreference})]
    /\ last \in [Sessions -> Tenants \cup {NoTenant}]
    /\ world \in [Runs -> Tenants \cup {NoTenant}]
    /\ stage \in [Runs -> {"none", "investigating", "proposed"}]
    /\ calls \subseteq Call
    /\ exec \in [RunOptions -> {"free", "open", "decided"}]
    /\ asked \in [Runs -> SUBSET Worlds]

\* A tab that shows the world its browser was granted last holds it: as long as
\* heartbeats come in time, no reload, lapse, late request or lost answer, and nothing
\* another tab or another session does, takes that world from under it.  (A tab is not
\* told when its browser is granted another world since.)
ShownWorldIsHeld ==
    \A b \in Tabs :
        tab[b].shown # NoTenant /\ tab[b].shown = last[SessionOf[b]]
        => HoldsLease(tab[b].shown, SessionOf[b])

\* While an approval is under way its session holds the world it approved in, or was
\* granted another since: neither time, nor another session, nor the page going away
\* lets that lease lapse, although it is checked once, before three upstream calls.
ApprovalKeepsLease ==
    \A c \in calls :
        \/ HoldsLease(c.tenant, c.session)
        \/ \E t \in Tenants \ {c.tenant} : HoldsLease(t, c.session)

\* What the board says of a switch (web/src/App.tsx, handleSwitchTenant: "The run
\* belongs to the world it was investigating, so it is dropped rather than carried
\* across"): a run's remediations are only ever asked of the world it investigated.
RunStaysWithItsWorld == \A r \in Runs : asked[r] \subseteq {world[r]}
=============================================================================
