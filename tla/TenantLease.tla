----------------------------- MODULE TenantLease -----------------------------
(***************************************************************************)
(* The tenant lease pool of the API gateway (TenantLeaseManager): sessions *)
(* acquire, switch, renew and release time-limited leases on the writable  *)
(* worlds, and share the observer world when none is free.                 *)
(*                                                                         *)
(* Every method runs under one asyncio lock with no await inside it and    *)
(* reads the clock once, so a method is one atomic step and the clock only *)
(* moves between steps.  Worlds are numbered in the order the pool hands   *)
(* them out.  A dictionary entry that is absent is NoLease, whose expiry   *)
(* has passed: the code treats an absent and an expired entry alike except *)
(* in what it reports.  The record keeps the holder and the expiry; the    *)
(* timestamps leased_at and heartbeat_at are only ever reported, and       *)
(* is_observer says what the key already says.                             *)
(***************************************************************************)
EXTENDS Integers, FiniteSets

CONSTANTS
    NumWorlds,      \* how many writable worlds the pool has
    Sessions,       \* the sessions that call the gateway
    Nobody,         \* no session: the holder of an absent lease
    Observer,       \* the tenant id of the shared read-only world
    NoPreference,   \* an acquire request that names no world
    Unlisted,       \* a preferred tenant id that is not in the pool
    TTL,            \* how long a lease lasts without a heartbeat, in ticks
    MaxTime         \* bound on the clock

Worlds == 1..NumWorlds

ASSUME LeaseAssumption ==
    /\ NumWorlds \in Nat
    /\ TTL \in Nat \ {0}
    /\ MaxTime \in Nat
    /\ Nobody \notin Sessions
    /\ Observer \notin Worlds
    /\ Sessions \cap Worlds = {}

VARIABLES
    leases,     \* the lease dictionary, by key
    now         \* the gateway's clock

vars == <<leases, now>>

\* A world's lease is filed under the world; an observer's under its session.
Keys == Worlds \cup Sessions
Tenants == Worlds \cup {Observer}
Preferences == Tenants \cup {NoPreference, Unlisted}

Lease == [session : Sessions \cup {Nobody}, expires : Nat]
NoLease == [session |-> Nobody, expires |-> 0]

Key(t, s) == IF t = Observer THEN s ELSE t
TenantOf(k) == IF k \in Worlds THEN k ELSE Observer

Live(k) == leases[k].expires > now
HeldBy(k, s) == leases[k].session = s /\ Live(k)

\* holds_lease and get_lease: session s has a live lease on tenant t.
HoldsLease(t, s) == HeldBy(Key(t, s), s)

Init ==
    /\ leases = [k \in Keys |-> NoLease]
    /\ now = 0

-----------------------------------------------------------------------------
(* acquire_lease *)

\* The writable worlds the search of acquire_lease may hand out.
FreeWorlds(ls) == {w \in Worlds : ls[w].expires <= now}

\* Fault: a world whose lease expires at this very instant counts as taken.
Candidate_StrictExpiry(ls, s, p) ==
    LET free == {w \in Worlds : ls[w].expires < now}
    IN  IF p \in free THEN p
        ELSE IF free # {} THEN CHOOSE w \in free : \A v \in free : w <= v
        ELSE s

\* The key the search settles on: the preferred world if it is free, else the
\* first free one, else the session's entry in the observer world.
Candidate(ls, s, p) ==
    LET free == FreeWorlds(ls)
    IN  IF p \in free THEN p
        ELSE IF free # {} THEN CHOOSE w \in free : \A v \in free : w <= v
        ELSE s

\* Fault: the preferred world is granted without looking at its holder.
Grant_Overwrites(ls, s, p) ==
    [ls EXCEPT ![IF p \in Worlds THEN p ELSE Candidate(ls, s, p)] =
        [session |-> s, expires |-> now + TTL]]

Grant(ls, s, p) ==
    [ls EXCEPT ![Candidate(ls, s, p)] = [session |-> s, expires |-> now + TTL]]

\* Fault: a switch gives up the held world whoever has the wanted one.
Switches_Eagerly(s, p, k) == p # NoPreference /\ p # TenantOf(k)

\* Session s, holding k and preferring p, gives k up: p is some other tenant
\* and no other session has a live lease filed under that name.
Switches(s, p, k) ==
    /\ p # NoPreference
    /\ p # TenantOf(k)
    /\ p \in Worlds => ~Live(p) \/ leases[p].session = s

\* Fault: a renewal adds to the time already left.
Renew_Stacks(k) ==
    leases' = [leases EXCEPT ![k] = [session |-> @.session, expires |-> @.expires + TTL]]

Renew(k) ==
    leases' = [leases EXCEPT ![k] = [session |-> @.session, expires |-> now + TTL]]

\* Fault: a switch takes the new lease without giving up the held one.
Acquire_KeepsOld(s, p) ==
    /\ \/ \E k \in Keys : HeldBy(k, s) /\ ~Switches(s, p, k) /\ Renew(k)
       \/ /\ \A k \in Keys : HeldBy(k, s) => Switches(s, p, k)
          /\ leases' = Grant(leases, s, p)
    /\ UNCHANGED now

\* acquire_lease by session s with preference p: keep and renew the lease it
\* holds, or give that one up and search, or search at once.
Acquire(s, p) ==
    /\ \/ \E k \in Keys : HeldBy(k, s) /\ ~Switches(s, p, k) /\ Renew(k)
       \/ \E k \in Keys :
            /\ HeldBy(k, s)
            /\ Switches(s, p, k)
            /\ leases' = Grant([leases EXCEPT ![k] = NoLease], s, p)
       \/ /\ \A k \in Keys : ~HeldBy(k, s)
          /\ leases' = Grant(leases, s, p)
    /\ UNCHANGED now

-----------------------------------------------------------------------------
\* heartbeat: a live lease of the caller is renewed; an expired one is not.
Heartbeat(s, t) ==
    /\ HeldBy(Key(t, s), s)
    /\ Renew(Key(t, s))
    /\ UNCHANGED now

\* release_lease: the caller's lease is dropped, expired or not.
Release(s, t) ==
    /\ leases[Key(t, s)].session = s
    /\ leases' = [leases EXCEPT ![Key(t, s)] = NoLease]
    /\ UNCHANGED now

\* Time passes.  Nothing sweeps the dictionary: an expired lease stays in it.
Tick ==
    /\ now < MaxTime
    /\ now' = now + 1
    /\ UNCHANGED leases

Next ==
    \/ \E s \in Sessions, p \in Preferences : Acquire(s, p)
    \/ \E s \in Sessions, t \in Tenants : Heartbeat(s, t)
    \/ \E s \in Sessions, t \in Tenants : Release(s, t)
    \/ Tick

Spec == Init /\ [][Next]_vars

-----------------------------------------------------------------------------
(* Properties *)

\* The dictionary holds well-formed leases, an observer entry is only ever its
\* own session's, and no lease outlives a full TTL from the present moment,
\* however acquires and heartbeats are mixed.
TypeOK ==
    /\ now \in Nat
    /\ leases \in [Keys -> Lease]
    /\ \A k \in Keys : leases[k].expires <= now + TTL
    /\ \A k \in Keys : leases[k].session = Nobody => leases[k] = NoLease
    /\ \A s \in Sessions : leases[s].session \in {s, Nobody}

\* A session never has two live leases, in two worlds or in a world and the
\* observer world, whatever sequence of acquires, switches and expiries it
\* went through: acquire_lease returns the first it finds.
OneLeasePerSession ==
    \A j, k \in Keys :
        Live(j) /\ Live(k) /\ leases[j].session = leases[k].session => j = k

\* A session is put in the observer world only while every writable world is
\* under somebody's live lease: a lapsed lease never keeps a caller read-only.
ObserverOnlyWhenFull ==
    [][\A s \in Sessions :
          ~Live(s) /\ Live(s)' => \A w \in Worlds : Live(w) /\ Live(w)']_vars

\* Asking for a world of the pool never costs a session the world it has: it
\* keeps that one or gets the one it asked for.
SwitchNeverLosesWorld ==
    [][\A s \in Sessions, p \in Worlds :
          Acquire(s, p) =>
              \A w \in Worlds : HeldBy(w, s) => HeldBy(w, s)' \/ HeldBy(p, s)']_vars

\* The session that may write to each world.
Owner == [w \in Worlds |-> IF Live(w) THEN leases[w].session ELSE Nobody]

Ownership == INSTANCE WorldOwnership WITH owner <- Owner

\* Refinement: the sessions with live leases own the worlds as WorldOwnership
\* promises; no call ever passes a world from one session straight to another.
ImplementsOwnership == Ownership!Spec
=============================================================================
