-------------------------- MODULE Approval_proofs --------------------------
(***************************************************************************)
(* Proofs about Approval, for every number of worlds, of browsers and of   *)
(* their tabs, of runs and of options, and for all times that keep the     *)
(* order of Beat + CallLimit and TTL: a tab holds the world it shows until *)
(* its browser is granted another, and an approval keeps its lease.  What  *)
(* the pool does is taken from TenantLease_proofs.                         *)
(***************************************************************************)
EXTENDS Approval, TenantLease_proofs, SequenceTheorems

\* What either way of renewing does to the pool: session s, if it holds anything
\* then, holds it for a full TTL, and nobody else's lease is touched.
Renewed(s) ==
    /\ now' = now
    /\ \A k \in Keys : HeldBy(k, s)' => leases'[k].expires = now + TTL
    /\ \A u \in Sessions \ {s}, k \in Keys :
         HeldBy(k, u) \/ HeldBy(k, u)' => leases'[k] = leases[k]

-----------------------------------------------------------------------------
\* A renewal of the lease that s holds.
LEMMA RenewRenews ==
    ASSUME Inv, NEW s \in Sessions, NEW k \in Keys, HeldBy(k, s), Renew(k), now' = now
    PROVE  Renewed(s)
<1>1. now \in Nat /\ WellFormed(leases, now) /\ Single(leases, now)
    BY InvParts
<1>2. leases'[k] = [session |-> s, expires |-> now + TTL]
    BY <1>1 DEF Renew, HeldBy, WellFormed, Lease
<1>3. \A j \in Keys \ {k} : leases'[j] = leases[j]
    BY <1>1 DEF Renew, WellFormed
<1>4. ASSUME NEW j \in Keys, HeldBy(j, s)' PROVE j = k
    BY <1>1, <1>3, <1>4 DEF HeldBy, Live, Single
<1>5. ASSUME NEW u \in Sessions \ {s}, NEW j \in Keys, HeldBy(j, u) \/ HeldBy(j, u)'
      PROVE  j # k
    BY <1>2, <1>5 DEF HeldBy
<1> QED BY <1>2, <1>3, <1>4, <1>5 DEF Renewed

\* Acquiring renews, too, whichever of its three ways it takes.
LEMMA AcquireRenews ==
    ASSUME Inv, NEW s \in Sessions, NEW p \in Preferences, Acquire(s, p)
    PROVE  Renewed(s)
<1>1. now \in Nat /\ WellFormed(leases, now) /\ Single(leases, now) /\ now' = now
    BY InvParts DEF Acquire
<1>2. CASE \E k \in Keys : HeldBy(k, s) /\ Renew(k)
    BY <1>1, <1>2, RenewRenews
<1>3. CASE \E ls \in [Keys -> Lease] :
              /\ \A j \in Keys : ls[j] = leases[j] \/ (HeldBy(j, s) /\ ls[j] = NoLease)
              /\ \A j \in Keys : ~(ls[j].session = s /\ ls[j].expires > now)
              /\ leases' = Grant(ls, s, p)
    <2>1. PICK ls \in [Keys -> Lease] :
              /\ \A j \in Keys : ls[j] = leases[j] \/ (HeldBy(j, s) /\ ls[j] = NoLease)
              /\ \A j \in Keys : ~(ls[j].session = s /\ ls[j].expires > now)
              /\ leases' = Grant(ls, s, p)
        BY <1>3
    <2>2. PICK c \in Keys :
              /\ leases' = [ls EXCEPT ![c] = [session |-> s, expires |-> now + TTL]]
              /\ \A j \in Keys \ {c} : leases'[j] = ls[j]
              /\ c \in Worlds => ls[c].expires <= now
              /\ c \notin Worlds => c = s
        BY <1>1, <2>1, GrantEffect
    <2>3. leases'[c] = [session |-> s, expires |-> now + TTL]
        BY <2>2
    <2>4. ASSUME NEW j \in Keys, HeldBy(j, s)' PROVE j = c
        BY <1>1, <2>1, <2>2, <2>4 DEF HeldBy, Live
    <2>5. ASSUME NEW u \in Sessions \ {s}, NEW j \in Keys, HeldBy(j, u) \/ HeldBy(j, u)'
          PROVE  leases'[j] = leases[j]
        <3>1. j # c
            <4>1. ~HeldBy(c, u)'
                BY <2>3, <2>5 DEF HeldBy
            <4>2. ASSUME HeldBy(c, u) PROVE FALSE
                <5>1. ls[c] = leases[c]
                    BY <2>1, <2>5, <4>2 DEF HeldBy
                <5>2. c \in Worlds
                    BY <1>1, <2>2, <2>5, <4>2, LeaseAssumption DEF HeldBy, WellFormed
                <5> QED BY <1>1, <2>2, <4>2, <5>1, <5>2 DEF HeldBy, Live, WellFormed, Lease
            <4> QED BY <2>5, <4>1, <4>2
        <3>2. leases'[j] = ls[j]
            BY <2>2, <3>1
        <3>3. ~(HeldBy(j, s) /\ ls[j] = NoLease)
            <4>1. HeldBy(j, u) => ~HeldBy(j, s)
                BY <2>5 DEF HeldBy
            <4>2. HeldBy(j, u)' => ls[j] # NoLease
                BY <2>5, <3>2, NoLeaseLapsed, LeaseAssumption DEF HeldBy
            <4> QED BY <2>5, <4>1, <4>2
        <3> QED BY <2>1, <3>2, <3>3
    <2> QED BY <1>1, <2>3, <2>4, <2>5 DEF Renewed
<1> QED BY <1>2, <1>3, AcquireCases

\* What is left of the answers when one of q has been heard.
LEMMA Removed ==
    ASSUME NEW S, NEW q \in Seq(S), NEW i \in 1..Len(q)
    PROVE  RemoveAt(q, i) \in Seq(S)
<1>1. Len(q) \in Nat /\ i \in Nat /\ 1 <= i /\ i <= Len(q)
    OBVIOUS
<1>2. SubSeq(q, 1, i - 1) \in Seq(S) /\ SubSeq(q, i + 1, Len(q)) \in Seq(S)
    BY <1>1, SubSeqProperties
<1> QED BY <1>2, ConcatProperties DEF RemoveAt

-----------------------------------------------------------------------------
(* The inductive invariant *)

\* Session s has the lease on the world it was last granted, until t at least.
Fresh(s, t) ==
    /\ last[s] \in Tenants
    /\ leases[Key(last[s], s)].session = s
    /\ leases[Key(last[s], s)].expires >= t

\* What a session holds is what it was last granted.
OnlyLast(s) ==
    \A k \in Keys : HeldBy(k, s) => last[s] \in Tenants /\ k = Key(last[s], s)

\* Time waits for answers, so that a grant is as good as new while an answer is on its
\* way; and a tab renews in time what it shows, if that is still what its browser was
\* last granted.
TabSound(b) ==
    /\ granted[b] # <<>> => Fresh(SessionOf[b], now + TTL)
    /\ tab[b].shown # NoTenant =>
         /\ beat[b] <= now /\ now <= beat[b] + Beat
         /\ tab[b].shown = last[SessionOf[b]] => Fresh(SessionOf[b], beat[b] + TTL)

\* A session's lease lasts until an approval of its must have ended.
CallSound(c) ==
    /\ c.since <= now /\ now <= c.since + CallLimit
    /\ Fresh(c.session, c.since + CallLimit + 1)

AInv ==
    /\ OneLeasePerSession
    /\ ATypeOK
    /\ \A s \in Sessions : OnlyLast(s)
    /\ \A b \in Tabs : TabSound(b)
    /\ \A c \in calls : CallSound(c)

\* The numbers that the invariant compares.
LEMMA Numbers ==
    ASSUME AInv
    PROVE  /\ Inv /\ now \in Nat /\ TTL \in Nat \ {0} /\ Beat \in Nat /\ CallLimit \in Nat
           /\ Beat + CallLimit < TTL
           /\ \A k \in Keys : leases[k].expires \in Nat
           /\ \A b \in Tabs : beat[b] \in Nat /\ SessionOf[b] \in Sessions
           /\ \A c \in calls : c.since \in Nat /\ c.session \in Sessions
BY LeaseAssumption, ApprovalAssumption
   DEF AInv, ATypeOK, Inv, TypeOK, Lease, Call

\* A tenant is known by its key.
LEMMA KeyInjective ==
    ASSUME NEW s \in Sessions, NEW t \in Tenants, NEW u \in Tenants, Key(t, s) = Key(u, s)
    PROVE  t = u
BY LeaseAssumption DEF Key, Tenants

\* A lease that is fresh past the present is held.
LEMMA FreshHeld ==
    ASSUME AInv, NEW s \in Sessions, NEW t \in Int, now < t, Fresh(s, t)
    PROVE  HeldBy(Key(last[s], s), s) /\ Key(last[s], s) \in Keys /\ HoldsLease(last[s], s)
<1>1. Key(last[s], s) \in Keys
    BY KeyType DEF Fresh
<1> QED BY <1>1, Numbers DEF Fresh, HoldsLease, HeldBy, Live

-----------------------------------------------------------------------------
(* What a step that is not a tick of the clock does to the leases. *)

\* Session s is left with a full lease on what it was last granted.
Anew(s) == \A t \in Int : t <= now + TTL => Fresh(s, t)'

\* A session keeps its lease on what it was last granted, or is granted anew; and it
\* holds nothing else.
Keeps ==
    /\ now' = now
    /\ \A s \in Sessions :
         /\ OnlyLast(s)'
         /\ \A t \in Int : now < t /\ t <= now + TTL /\ Fresh(s, t) => Fresh(s, t)'
         /\ last'[s] = last[s] \/ Anew(s)

\* A step that leaves the pool alone.
LEMMA IdleKeeps ==
    ASSUME AInv, UNCHANGED <<pool, last>>
    PROVE  Keeps
<1>1. leases' = leases /\ now' = now /\ last' = last
    BY DEF pool
<1> QED BY <1>1 DEF AInv, Keeps, OnlyLast, Fresh, HeldBy, Live

\* A session that does not renew keeps what it holds.
LEMMA OthersKeep ==
    ASSUME AInv, NEW s \in Sessions, Renewed(s), NEW u \in Sessions \ {s}, last'[u] = last[u]
    PROVE  /\ OnlyLast(u)'
           /\ \A t \in Int : now < t /\ Fresh(u, t) => Fresh(u, t)'
<1>1. \A k \in Keys : HeldBy(k, u) \/ HeldBy(k, u)' => leases'[k] = leases[k]
    BY DEF Renewed
<1>2. now' = now
    BY DEF Renewed
<1>3. \A k \in Keys : HeldBy(k, u)' => HeldBy(k, u)
    BY <1>1, <1>2 DEF HeldBy, Live
<1>4. OnlyLast(u)'
    BY <1>3 DEF AInv, OnlyLast
<1>5. ASSUME NEW t \in Int, now < t, Fresh(u, t) PROVE Fresh(u, t)'
    <2>1. HeldBy(Key(last[u], u), u) /\ Key(last[u], u) \in Keys
        BY <1>5, FreshHeld
    <2>2. leases'[Key(last[u], u)] = leases[Key(last[u], u)]
        BY <1>1, <2>1
    <2> QED BY <1>5, <2>2 DEF Fresh
<1> QED BY <1>4, <1>5

\* A grant to s: what it was granted is its only lease, and a new one.
LEMMA GrantsKeep ==
    ASSUME AInv, NEW s \in Sessions, NEW p \in Preferences, NEW t \in Tenants, Grants(s, p, t)
    PROVE  Keeps /\ Anew(s)
<1>1. Acquire(s, p) /\ HoldsLease(t, s)' /\ last' = [last EXCEPT ![s] = t]
    BY DEF Grants
<1>2. last'[s] = t /\ \A u \in Sessions \ {s} : last'[u] = last[u]
    BY <1>1 DEF AInv, ATypeOK
<1>3. Renewed(s) /\ Inv' /\ now' = now
    BY <1>1, Numbers, AcquireRenews, AcquireInv DEF Renewed
<1>4. Key(t, s) \in Keys /\ HeldBy(Key(t, s), s)'
    BY <1>1, KeyType DEF HoldsLease
<1>5. Anew(s)
    <2>1. leases'[Key(t, s)].session = s /\ leases'[Key(t, s)].expires = now + TTL
        BY <1>3, <1>4 DEF Renewed, HeldBy
    <2> QED BY <1>2, <2>1, Numbers DEF Anew, Fresh
<1>6. OnlyLast(s)'
    <2>1. ASSUME NEW k \in Keys, HeldBy(k, s)' PROVE k = Key(t, s)
        BY <1>3, <1>4, <2>1, InvParts DEF Single, HeldBy, Live
    <2> QED BY <1>2, <2>1 DEF OnlyLast
<1>7. \A u \in Sessions \ {s} : /\ OnlyLast(u)'
                                /\ \A v \in Int : now < v /\ Fresh(u, v) => Fresh(u, v)'
    BY <1>2, <1>3, OthersKeep
<1> QED BY <1>2, <1>3, <1>5, <1>6, <1>7 DEF Keeps, Anew

\* A heartbeat that finds its lease: it is the one last granted.
LEMMA HeartbeatKeeps ==
    ASSUME AInv, NEW s \in Sessions, NEW t \in Tenants, Heartbeat(s, t), UNCHANGED last
    PROVE  Keeps /\ Anew(s)
<1> DEFINE k == Key(t, s)
<1>1. k \in Keys /\ HeldBy(k, s) /\ Renew(k) /\ now' = now
    BY KeyType DEF Heartbeat
<1>2. last[s] \in Tenants /\ k = Key(last[s], s)
    BY <1>1 DEF AInv, OnlyLast
<1> HIDE DEF k
<1>3. Renewed(s)
    BY <1>1, Numbers, RenewRenews
<1>4. leases'[k].session = s /\ \A j \in Keys \ {k} : leases'[j] = leases[j]
    BY <1>1, Numbers, RenewEffect DEF HeldBy
<1>5. leases'[k].expires = now + TTL
    <2>1. HeldBy(k, s)'
        BY <1>1, Numbers, RenewEffect DEF HeldBy
    <2> QED BY <1>1, <1>3, <2>1 DEF Renewed
<1>6. Anew(s)
    BY <1>2, <1>4, <1>5, Numbers DEF Anew, Fresh
<1>7. OnlyLast(s)'
    <2>1. ASSUME NEW j \in Keys, HeldBy(j, s)' PROVE HeldBy(j, s)
        BY <1>1, <1>4, <2>1 DEF HeldBy, Live
    <2> QED BY <2>1 DEF AInv, OnlyLast
<1>8. \A u \in Sessions \ {s} : /\ OnlyLast(u)'
                                /\ \A v \in Int : now < v /\ Fresh(u, v) => Fresh(u, v)'
    BY <1>3, OthersKeep
<1> QED BY <1>1, <1>6, <1>7, <1>8 DEF Keeps, Anew

\* A tab that the step leaves alone stays sound.
LEMMA TabKept ==
    ASSUME AInv, Keeps, NEW b \in Tabs,
           tab'[b].shown = tab[b].shown, granted'[b] = granted[b], beat'[b] = beat[b]
    PROVE  TabSound(b)'
<1> DEFINE s == SessionOf[b]
<1>1. s \in Sessions /\ now \in Nat /\ TTL \in Nat \ {0} /\ Beat \in Nat /\ beat[b] \in Nat
      /\ Beat < TTL /\ now' = now /\ TabSound(b)
    BY Numbers DEF AInv, Keeps
<1>2. /\ \A t \in Int : now < t /\ t <= now + TTL /\ Fresh(s, t) => Fresh(s, t)'
      /\ last'[s] = last[s] \/ Anew(s)
    BY <1>1 DEF Keeps
<1>3. granted'[b] # <<>> => Fresh(s, now + TTL)'
    <2>1. now + TTL \in Int /\ now < now + TTL /\ now + TTL <= now + TTL
        BY <1>1
    <2> QED BY <1>1, <1>2, <2>1 DEF TabSound, Fresh
<1>4. ASSUME tab'[b].shown # NoTenant, tab'[b].shown = last'[s]
      PROVE  Fresh(s, beat[b] + TTL)'
    <2>1. beat[b] <= now /\ now <= beat[b] + Beat
        BY <1>1, <1>4 DEF TabSound
    <2>2. beat[b] + TTL \in Int /\ now < beat[b] + TTL /\ beat[b] + TTL <= now + TTL
        BY <1>1, <2>1
    <2>3. CASE last'[s] = last[s]
        <3>1. Fresh(s, beat[b] + TTL)
            BY <1>1, <1>4, <2>3 DEF TabSound
        <3> QED BY <1>2, <2>2, <3>1
    <2>4. CASE Anew(s)
        BY <2>2, <2>4 DEF Anew
    <2> QED BY <1>2, <2>3, <2>4
<1> QED BY <1>1, <1>3, <1>4 DEF TabSound, Fresh

\* All tabs that the step leaves alone stay sound.
LEMMA TabsKept ==
    ASSUME AInv, Keeps, NEW S \in SUBSET Tabs,
           \A b \in S : tab'[b].shown = tab[b].shown /\ granted'[b] = granted[b]
                        /\ beat'[b] = beat[b]
    PROVE  \A b \in S : TabSound(b)'
BY TabKept

\* Approvals that go on, and no new one.
GoesOn == \A d \in calls' : \E c \in calls : d.session = c.session /\ d.since = c.since

\* They stay sound.
LEMMA CallsKept ==
    ASSUME AInv, Keeps, GoesOn
    PROVE  \A c \in calls' : CallSound(c)'
<1> SUFFICES ASSUME NEW d \in calls' PROVE CallSound(d)'
    OBVIOUS
<1>1. PICK c \in calls : d.session = c.session /\ d.since = c.since
    BY DEF GoesOn
<1>2. /\ now' = now /\ now \in Nat /\ CallLimit \in Nat /\ c.since \in Nat /\ TTL \in Nat
      /\ CallLimit < TTL /\ c.session \in Sessions
    BY Numbers DEF Keeps
<1>3. /\ c.since <= now /\ now <= c.since + CallLimit
      /\ Fresh(c.session, c.since + CallLimit + 1)
    BY DEF AInv, CallSound
<1>4. /\ c.since + CallLimit + 1 \in Int
      /\ now < c.since + CallLimit + 1 /\ c.since + CallLimit + 1 <= now + TTL
    BY <1>2, <1>3
<1>5. Fresh(c.session, c.since + CallLimit + 1)'
    BY <1>2, <1>3, <1>4 DEF Keeps
<1> QED BY <1>1, <1>2, <1>3, <1>5 DEF CallSound, Fresh

\* What is to be shown of each step.
Sound == /\ \A s \in Sessions : OnlyLast(s)
         /\ \A b \in Tabs : TabSound(b)
         /\ \A c \in calls : CallSound(c)

\* A step that keeps the leases and all tabs but one, and starts no approval.
LEMMA OneTab ==
    ASSUME AInv, Keeps, GoesOn, NEW b \in Tabs, TabSound(b)',
           \A a \in Tabs \ {b} : tab'[a].shown = tab[a].shown /\ granted'[a] = granted[a]
                                 /\ beat'[a] = beat[a]
    PROVE  Sound'
<1>1. \A a \in Tabs \ {b} : TabSound(a)'
    BY TabsKept
<1>2. \A s \in Sessions : OnlyLast(s)'
    BY DEF Keeps
<1>3. \A c \in calls' : CallSound(c)'
    BY CallsKept
<1> QED BY <1>1, <1>2, <1>3 DEF Sound

\* A grant that a tab will hear of.
LEMMA AcquiredSound ==
    ASSUME AInv, NEW b \in Tabs, Acquired(b)
    PROVE  Sound'
<1> DEFINE s == SessionOf[b]
<1>1. PICK p \in asking[b], t \in Tenants :
          Grants(s, p, t) /\ granted' = [granted EXCEPT ![b] = Append(@, t)]
    BY DEF Acquired
<1>2. s \in Sessions /\ p \in Preferences
    BY <1>1, Numbers DEF AInv, ATypeOK, Preferences, Tenants
<1>3. Keeps /\ Anew(s)
    BY <1>1, <1>2, GrantsKeep
<1>4. UNCHANGED <<tab, beat, calls>> /\ granted \in [Tabs -> Seq(Tenants)] /\ now' = now
      /\ now \in Nat /\ TTL \in Nat \ {0} /\ Beat \in Nat /\ beat[b] \in Nat
    BY <1>3, Numbers DEF Acquired, AInv, ATypeOK, Keeps
<1>5. \A a \in Tabs \ {b} : granted'[a] = granted[a]
    BY <1>1, <1>4
<1>6. TabSound(b)'
    <2>1. Fresh(s, now + TTL)'
        BY <1>3, <1>4 DEF Anew, Fresh
    <2>2. ASSUME tab[b].shown # NoTenant
          PROVE  beat[b] <= now /\ now <= beat[b] + Beat /\ Fresh(s, beat[b] + TTL)'
        <3>1. beat[b] <= now /\ now <= beat[b] + Beat
            BY <2>2 DEF AInv, TabSound
        <3>2. beat[b] + TTL \in Int /\ beat[b] + TTL <= now + TTL
            BY <1>4, <3>1
        <3>3. \A v \in Int : v <= now + TTL => Fresh(s, v)'
            BY <1>3 DEF Anew
        <3> QED BY <1>4, <3>1, <3>2, <3>3 DEF Fresh
    <2> QED BY <1>4, <2>1, <2>2 DEF TabSound, Fresh
<1> QED BY <1>3, <1>4, <1>5, <1>6, OneTab DEF GoesOn

\* A grant that nobody hears of.
LEMMA LateSound ==
    ASSUME AInv, NEW s \in Sessions, AcquiredLate(s)
    PROVE  Sound'
<1>1. PICK p \in left[s], t \in Tenants : Grants(s, p, t)
    BY DEF AcquiredLate
<1>2. p \in Preferences
    BY <1>1 DEF AInv, ATypeOK, Preferences, Tenants
<1>3. Keeps
    BY <1>1, <1>2, GrantsKeep
<1>4. UNCHANGED <<tab, granted, beat, calls>>
    BY DEF AcquiredLate, page
<1> QED BY <1>3, <1>4, TabsKept, CallsKept DEF GoesOn, Sound, Keeps

\* An answer is heard or lost.
LEMMA HeardSound ==
    ASSUME AInv, NEW b \in Tabs, Heard(b)
    PROVE  Sound'
<1> DEFINE s == SessionOf[b]
<1>1. PICK i \in 1..Len(granted[b]) :
          /\ granted' = [granted EXCEPT ![b] = RemoveAt(@, i)]
          /\ \/ /\ tab' = [tab EXCEPT ![b].shown = granted[b][i]]
                /\ beat' = [beat EXCEPT ![b] = now]
             \/ UNCHANGED <<tab, beat>>
    BY DEF Heard
<1>2. UNCHANGED <<pool, last, calls>> /\ s \in Sessions
    BY Numbers DEF Heard
<1>3. Keeps /\ now' = now /\ leases' = leases
    BY <1>2, IdleKeeps DEF pool
<1>4. /\ granted \in [Tabs -> Seq(Tenants)] /\ tab \in [Tabs -> Tab] /\ beat \in [Tabs -> Nat]
      /\ granted[b] # <<>> /\ now \in Nat /\ Beat \in Nat /\ TTL \in Nat
    BY <1>1, Numbers DEF AInv, ATypeOK
<1>5. \A a \in Tabs \ {b} : tab'[a].shown = tab[a].shown /\ granted'[a] = granted[a]
                            /\ beat'[a] = beat[a]
    BY <1>1, <1>4
<1>6. Fresh(s, now + TTL) /\ last' = last
    BY <1>2, <1>4 DEF AInv, TabSound
<1>7. TabSound(b)'
    <2>1. Fresh(s, now + TTL)'
        BY <1>3, <1>6 DEF Fresh
    <2>2. CASE /\ tab' = [tab EXCEPT ![b].shown = granted[b][i]]
               /\ beat' = [beat EXCEPT ![b] = now]
        <3>1. beat'[b] = now
            BY <1>4, <2>2
        <3> QED BY <1>3, <1>4, <2>1, <3>1 DEF TabSound, Fresh
    <2>3. CASE UNCHANGED <<tab, beat>>
        BY <1>3, <1>6, <2>1, <2>3 DEF AInv, TabSound, Fresh
    <2> QED BY <1>1, <2>2, <2>3
<1> QED BY <1>2, <1>3, <1>5, <1>7, OneTab DEF GoesOn

\* A heartbeat renews what is shown, or finds that it is not held, and then it is not
\* what the browser was last granted.
LEMMA BeatsSound ==
    ASSUME AInv, NEW b \in Tabs, Beats(b)
    PROVE  Sound'
<1> DEFINE s == SessionOf[b]
<1>1. /\ tab[b].shown # NoTenant /\ beat' = [beat EXCEPT ![b] = now]
      /\ UNCHANGED <<tab, granted, calls, last>> /\ s \in Sessions
    BY Numbers DEF Beats, session
<1>2. /\ tab[b].shown \in Tenants /\ beat \in [Tabs -> Nat]
      /\ now \in Nat /\ Beat \in Nat /\ TTL \in Nat \ {0} /\ Beat < TTL
    BY <1>1, Numbers DEF AInv, ATypeOK, Tab
<1>3. /\ beat'[b] = now /\ \A a \in Tabs \ {b} : beat'[a] = beat[a]
      /\ GoesOn
    BY <1>1, <1>2 DEF GoesOn
<1>4. CASE Heartbeat(s, tab[b].shown)
    <2>1. Keeps /\ Anew(s) /\ now' = now
        BY <1>1, <1>2, <1>4, HeartbeatKeeps DEF Keeps
    <2>2. Fresh(s, now + TTL)'
        BY <1>2, <2>1 DEF Anew, Fresh
    <2>3. TabSound(b)'
        BY <1>1, <1>2, <1>3, <2>1, <2>2 DEF TabSound, Fresh
    <2> QED BY <1>1, <1>3, <2>1, <2>3, OneTab
<1>5. CASE ~HoldsLease(tab[b].shown, s) /\ UNCHANGED pool
    <2>1. Keeps /\ now' = now /\ leases' = leases
        BY <1>1, <1>5, IdleKeeps DEF pool
    <2>2. tab[b].shown # last[s]
        <3> SUFFICES ASSUME tab[b].shown = last[s] PROVE FALSE
            OBVIOUS
        <3>1. /\ Fresh(s, beat[b] + TTL) /\ beat[b] \in Nat
              /\ beat[b] <= now /\ now <= beat[b] + Beat
            BY <1>1, <1>2 DEF AInv, TabSound
        <3>2. beat[b] + TTL \in Int /\ now < beat[b] + TTL
            BY <1>2, <3>1
        <3>3. HoldsLease(last[s], s)
            BY <1>1, <3>1, <3>2, FreshHeld
        <3> QED BY <1>5, <3>3
    <2>3. granted[b] # <<>> => Fresh(s, now + TTL)
        BY DEF AInv, TabSound
    <2>4. TabSound(b)'
        BY <1>1, <1>2, <1>3, <2>1, <2>2, <2>3 DEF TabSound, Fresh
    <2> QED BY <1>1, <1>3, <2>1, <2>4, OneTab
<1> QED BY <1>4, <1>5 DEF Beats

\* A page that went away shows and awaits nothing.
LEMMA CloseSound ==
    ASSUME AInv, NEW b \in Tabs, Close(b)
    PROVE  Sound'
<1>1. /\ tab' = [tab EXCEPT ![b] = ClosedTab] /\ granted' = [granted EXCEPT ![b] = <<>>]
      /\ beat' = [beat EXCEPT ![b] = 0] /\ UNCHANGED <<pool, last, calls>>
    BY DEF Close
<1>2. /\ tab \in [Tabs -> Tab] /\ beat \in [Tabs -> Nat] /\ granted \in [Tabs -> Seq(Tenants)]
    BY DEF AInv, ATypeOK
<1>3. tab'[b].shown = NoTenant /\ granted'[b] = <<>>
    BY <1>1, <1>2 DEF ClosedTab
<1>4. TabSound(b)'
    BY <1>3 DEF TabSound
<1>5. \A a \in Tabs \ {b} : tab'[a].shown = tab[a].shown /\ granted'[a] = granted[a]
                            /\ beat'[a] = beat[a]
    BY <1>1, <1>2
<1> QED BY <1>1, <1>4, <1>5, IdleKeeps, OneTab DEF GoesOn

\* An approval starts with the lease on what its session was last granted, which was
\* renewed in time and so outlasts it.
LEMMA ApproveSound ==
    ASSUME AInv, NEW b \in Tabs, NEW o \in Options, Approve(b, o)
    PROVE  Sound'
<1> DEFINE s == SessionOf[b]
<1>0. PICK c : c = [stage |-> "looking", session |-> s, run |-> tab[b].run,
                    option |-> o, tenant |-> tab[b].shown, since |-> now]
    OBVIOUS
<1>1. /\ tab[b].shown # NoTenant /\ HoldsLease(tab[b].shown, s)
      /\ calls' = calls \cup {c}
      /\ UNCHANGED <<pool, last, tab, granted, beat>> /\ s \in Sessions
    BY <1>0, Numbers DEF Approve, MayAct, RequireLease, page, session
<1>2. Keeps /\ now' = now /\ leases' = leases
    BY <1>1, IdleKeeps DEF pool
<1>3. /\ now \in Nat /\ Beat \in Nat /\ TTL \in Nat /\ CallLimit \in Nat
      /\ Beat + CallLimit < TTL /\ beat[b] \in Nat
      /\ tab[b].shown \in Tenants /\ \A k \in Keys : leases[k].expires \in Nat
    BY <1>1, Numbers DEF AInv, ATypeOK, Tab
<1>4. tab[b].shown = last[s]
    <2>1. Key(tab[b].shown, s) \in Keys /\ HeldBy(Key(tab[b].shown, s), s)
        BY <1>1, <1>3, KeyType DEF HoldsLease
    <2>2. last[s] \in Tenants /\ Key(tab[b].shown, s) = Key(last[s], s)
        BY <1>1, <2>1 DEF AInv, OnlyLast
    <2> QED BY <1>1, <1>3, <2>2, KeyInjective
<1>5. Fresh(s, now + CallLimit + 1)
    <2>1. now <= beat[b] + Beat /\ Fresh(s, beat[b] + TTL)
        BY <1>1, <1>4 DEF AInv, TabSound
    <2>2. now + CallLimit + 1 <= beat[b] + TTL
        BY <1>3, <2>1
    <2>3. Key(last[s], s) \in Keys
        BY <1>1, <2>1, KeyType DEF Fresh
    <2> QED BY <1>3, <2>1, <2>2, <2>3 DEF Fresh
<1>6. c.since = now /\ c.session = s
    BY <1>0
<1>7. CallSound(c)'
    BY <1>1, <1>2, <1>3, <1>5, <1>6 DEF CallSound, Fresh
<1>8. \A d \in calls : CallSound(d)'
    BY <1>1, <1>2 DEF AInv, CallSound, Fresh
<1>9. \A a \in Tabs : TabSound(a)'
    BY <1>1, <1>2, TabsKept
<1> QED BY <1>1, <1>2, <1>7, <1>8, <1>9 DEF Sound, Keeps

\* Time stops short of a heartbeat that is due and of the end of an approval, and
\* renews nothing.
LEMMA TimeSound ==
    ASSUME AInv, TimePasses
    PROVE  Sound'
<1>1. /\ now' = now + 1 /\ leases' = leases
      /\ UNCHANGED <<tab, granted, beat, last, calls>>
    BY DEF TimePasses, Tick, page, session
<1>2. ASSUME NEW s \in Sessions PROVE OnlyLast(s)'
    <2>1. \A k \in Keys : HeldBy(k, s)' => HeldBy(k, s)
        BY <1>1, Numbers DEF HeldBy, Live
    <2> QED BY <1>1, <2>1 DEF AInv, OnlyLast
<1>3. ASSUME NEW b \in Tabs PROVE TabSound(b)'
    <2>1. granted[b] = <<>> /\ (tab[b].shown # NoTenant => now < beat[b] + Beat)
        BY DEF TimePasses
    <2>2. now \in Nat /\ Beat \in Nat /\ beat[b] \in Nat
        BY Numbers
    <2> QED BY <1>1, <2>1, <2>2 DEF AInv, TabSound, Fresh
<1>4. ASSUME NEW c \in calls PROVE CallSound(c)'
    <2>1. now < c.since + CallLimit
        BY DEF TimePasses
    <2>2. now \in Nat /\ CallLimit \in Nat /\ c.since \in Nat
        BY Numbers
    <2> QED BY <1>1, <2>1, <2>2 DEF AInv, CallSound, Fresh
<1> QED BY <1>1, <1>2, <1>3, <1>4 DEF Sound

\* All other steps, in which no lease, answer, heartbeat or clock changes and no
\* approval starts.
Quiet ==
    \/ \E b \in Tabs :
         Open(b) \/ Launch(b) \/ Launched(b) \/ \E t \in Worlds : SwitchTenant(b, t)
    \/ \E c \in calls : GoOn(c)
    \/ \E r \in Runs : Investigated(r)
    \/ \E k \in RunOptions : Settles(k)
    \/ Restart
    \/ UNCHANGED allVars

\* An approval that goes on is the session's that it was, and as old.
LEMMA CallGoesOn ==
    ASSUME AInv, NEW c \in calls, GoOn(c)
    PROVE  /\ calls' = calls \ {c}
              \/ \E d \in Call : /\ calls' = (calls \ {c}) \cup {d}
                                 /\ d.session = c.session /\ d.since = c.since
           /\ UNCHANGED <<pool, page, session, runs>>
<1>1. c \in Call
    BY DEF AInv, ATypeOK
<1>2. ASSUME NEW st \in CallStages, To(c, st)
      PROVE  \E d \in Call : /\ calls' = (calls \ {c}) \cup {d}
                             /\ d.session = c.session /\ d.since = c.since
    <2> DEFINE d == [c EXCEPT !.stage = st]
    <2>1. d \in Call /\ d.session = c.session /\ d.since = c.since
        BY <1>1 DEF Call
    <2>2. calls' = (calls \ {c}) \cup {d}
        BY <1>2 DEF To
    <2> HIDE DEF d
    <2> QED BY <2>1, <2>2
<1>3. \/ Ends(c)
      \/ \E st \in CallStages : To(c, st)
    BY DEF GoOn, Looked, Executed, GivesUp, HandsOver, CallStages
<1>4. UNCHANGED <<pool, page, session, runs>>
    BY DEF GoOn, Looked, Executed, GivesUp, HandsOver
<1> QED BY <1>2, <1>3, <1>4 DEF Ends

\* In a quiet step everything stays as it is.
LEMMA QuietSound ==
    ASSUME AInv, Quiet
    PROVE  Sound'
<1>1. tab \in [Tabs -> Tab]
    BY DEF AInv, ATypeOK
<1>2. /\ UNCHANGED <<pool, last, granted, beat>>
      /\ \A a \in Tabs : tab'[a].shown = tab[a].shown
    <2>1. ASSUME NEW b \in Tabs,
                 Open(b) \/ Launch(b) \/ Launched(b) \/ \E t \in Worlds : SwitchTenant(b, t)
          PROVE  /\ UNCHANGED <<pool, last, granted, beat>>
                 /\ \A a \in Tabs : tab'[a].shown = tab[a].shown
        BY <1>1, <2>1 DEF Open, Launch, Launched, SwitchTenant, session, Tab
    <2>2. ASSUME NEW c \in calls, GoOn(c)
          PROVE  /\ UNCHANGED <<pool, last, granted, beat>>
                 /\ \A a \in Tabs : tab'[a].shown = tab[a].shown
        BY <2>2, CallGoesOn DEF page, session
    <2>3. ASSUME UNCHANGED <<pool, page, session>>
          PROVE  /\ UNCHANGED <<pool, last, granted, beat>>
                 /\ \A a \in Tabs : tab'[a].shown = tab[a].shown
        BY <2>3 DEF page, session
    <2> QED BY <2>1, <2>2, <2>3
           DEF Quiet, Investigated, Settles, Restart, allVars
<1>3. GoesOn
    <2>1. ASSUME NEW c \in calls, GoOn(c) PROVE GoesOn
        BY <2>1, CallGoesOn DEF GoesOn
    <2>2. ASSUME calls' \subseteq calls PROVE GoesOn
        BY <2>2 DEF GoesOn
    <2> QED BY <2>1, <2>2
           DEF Quiet, Open, Launch, Launched, SwitchTenant, Investigated, Settles,
               Restart, allVars
<1>4. Keeps
    BY <1>2, IdleKeeps
<1>5. \A a \in Tabs : TabSound(a)'
    BY <1>2, <1>4, TabsKept
<1> QED BY <1>3, <1>4, <1>5, CallsKept DEF Sound, Keeps

\* Every step keeps what tabs and approvals are promised.
LEMMA SoundStep ==
    ASSUME AInv, [ANext]_allVars
    PROVE  Sound'
<1>1. CASE Quiet
    BY <1>1, QuietSound
<1>2. CASE ~Quiet
    BY <1>2, AcquiredSound, LateSound, HeardSound, BeatsSound, CloseSound, ApproveSound,
       TimeSound DEF ANext, Quiet
<1> QED BY <1>1, <1>2

-----------------------------------------------------------------------------
\* The pool's own invariant holds: the pipeline acts on the pool by its operations only.
LEMMA PoolStep ==
    ASSUME AInv, [ANext]_allVars
    PROVE  Inv'
<1>1. [Next]_vars \/ UNCHANGED pool
    <2>1. ASSUME NEW b \in Tabs, Acquired(b)
          PROVE  Next
        <3>1. PICK p \in asking[b], t \in Tenants : Grants(SessionOf[b], p, t)
            BY <2>1 DEF Acquired
        <3>2. SessionOf[b] \in Sessions /\ p \in Preferences
            BY <3>1, Numbers DEF AInv, ATypeOK, Preferences, Tenants
        <3> QED BY <3>1, <3>2 DEF Grants, Next
    <2>2. ASSUME NEW s \in Sessions, AcquiredLate(s)
          PROVE  Next
        <3>1. PICK p \in left[s], t \in Tenants : Grants(s, p, t)
            BY <2>2 DEF AcquiredLate
        <3>2. p \in Preferences
            BY <3>1 DEF AInv, ATypeOK, Preferences, Tenants
        <3> QED BY <3>1, <3>2 DEF Grants, Next
    <2>3. ASSUME NEW b \in Tabs, Beats(b)
          PROVE  Next \/ UNCHANGED pool
        <3>1. tab[b].shown \in Tenants /\ SessionOf[b] \in Sessions
            BY <2>3, Numbers DEF Beats, AInv, ATypeOK, Tab
        <3> QED BY <2>3, <3>1 DEF Beats, Next
    <2>4. CASE TimePasses
        BY <2>4 DEF TimePasses, Next
    <2>5. ASSUME NEW b \in Tabs,
                 Open(b) \/ Close(b) \/ Heard(b) \/ Launch(b) \/ Launched(b)
                   \/ (\E t \in Worlds : SwitchTenant(b, t))
                   \/ (\E o \in Options : Approve(b, o))
          PROVE  UNCHANGED pool
        BY <2>5 DEF Open, Close, Heard, Launch, Launched, SwitchTenant, Approve
    <2>6. ASSUME NEW c \in calls, GoOn(c)
          PROVE  UNCHANGED pool
        BY <2>6, CallGoesOn
    <2>7. CASE \/ \E r \in Runs : Investigated(r)
               \/ \E k \in RunOptions : Settles(k)
               \/ Restart
               \/ UNCHANGED allVars
        BY <2>7 DEF Investigated, Settles, Restart, allVars
    <2> QED BY <2>1, <2>2, <2>3, <2>4, <2>5, <2>6, <2>7 DEF ANext
<1> QED BY <1>1, Numbers, NextInv DEF pool, vars

-----------------------------------------------------------------------------
(* Types *)

PageTypes ==
    /\ tab \in [Tabs -> Tab]
    /\ asking \in [Tabs -> SUBSET (Worlds \cup {NoPreference})]
    /\ granted \in [Tabs -> Seq(Tenants)]
    /\ launching \in [Tabs -> SUBSET Runs]
    /\ beat \in [Tabs -> Nat]

SessionTypes ==
    /\ stored \in [Sessions -> Worlds \cup {NoPreference}]
    /\ left \in [Sessions -> SUBSET (Worlds \cup {NoPreference})]
    /\ last \in [Sessions -> Tenants \cup {NoTenant}]

RunTypes ==
    /\ world \in [Runs -> Tenants \cup {NoTenant}]
    /\ stage \in [Runs -> {"none", "investigating", "proposed"}]
    /\ calls \subseteq Call

ExecutorTypes ==
    /\ exec \in [RunOptions -> {"free", "open", "decided"}]
    /\ asked \in [Runs -> SUBSET Worlds]

\* The type invariant, now and after a step, by its parts.
LEMMA TypeParts ==
    /\ ATypeOK <=> TypeOK /\ PageTypes /\ SessionTypes /\ RunTypes /\ ExecutorTypes
    /\ ATypeOK' <=> TypeOK' /\ PageTypes' /\ SessionTypes' /\ RunTypes' /\ ExecutorTypes'
BY DEF ATypeOK, PageTypes, SessionTypes, RunTypes, ExecutorTypes

\* Every step keeps the types of the tabs and of their browsers.
LEMMA BrowserStep ==
    ASSUME AInv, [ANext]_allVars
    PROVE  PageTypes' /\ SessionTypes'
<1>1. /\ PageTypes /\ SessionTypes /\ now \in Nat
      /\ \A b \in Tabs : SessionOf[b] \in Sessions
    BY TypeParts, Numbers DEF AInv
<1>2. ASSUME NEW b \in Tabs, Open(b) PROVE PageTypes' /\ SessionTypes'
    <2>1. stored[SessionOf[b]] \in Worlds \cup {NoPreference}
        BY <1>1 DEF SessionTypes
    <2>2. asking' \in [Tabs -> SUBSET (Worlds \cup {NoPreference})]
        BY <1>1, <1>2, <2>1 DEF Open, PageTypes
    <2>3. tab' \in [Tabs -> Tab]
        BY <1>1, <1>2 DEF Open, PageTypes, Tab
    <2>4. SessionTypes'
        BY <1>1, <1>2 DEF Open, SessionTypes, session
    <2> QED BY <1>1, <1>2, <2>2, <2>3, <2>4 DEF Open, PageTypes
<1>3. ASSUME NEW b \in Tabs, Close(b) PROVE PageTypes' /\ SessionTypes'
    <2>1. ClosedTab \in Tab /\ <<>> \in Seq(Tenants)
        BY DEF ClosedTab, Tab
    <2>2. PageTypes'
        BY <1>1, <1>3, <2>1 DEF Close, PageTypes
    <2>3. SessionTypes'
        BY <1>1, <1>3 DEF Close, PageTypes, SessionTypes
    <2> QED BY <2>2, <2>3
<1>4. ASSUME NEW b \in Tabs, Acquired(b) PROVE PageTypes' /\ SessionTypes'
    <2>1. PICK p \in asking[b], t \in Tenants :
              /\ asking' = [asking EXCEPT ![b] = @ \ {p}]
              /\ granted' = [granted EXCEPT ![b] = Append(@, t)]
              /\ last' = [last EXCEPT ![SessionOf[b]] = t]
        BY <1>4 DEF Acquired, Grants
    <2>2. granted' \in [Tabs -> Seq(Tenants)]
        BY <1>1, <2>1 DEF PageTypes
    <2>3. asking' \in [Tabs -> SUBSET (Worlds \cup {NoPreference})]
        BY <1>1, <2>1 DEF PageTypes
    <2>4. last' \in [Sessions -> Tenants \cup {NoTenant}]
        BY <1>1, <2>1 DEF SessionTypes
    <2> QED BY <1>1, <1>4, <2>2, <2>3, <2>4 DEF Acquired, PageTypes, SessionTypes
<1>5. ASSUME NEW s \in Sessions, AcquiredLate(s) PROVE PageTypes' /\ SessionTypes'
    BY <1>1, <1>5 DEF AcquiredLate, Grants, page, PageTypes, SessionTypes
<1>6. ASSUME NEW b \in Tabs, Heard(b) PROVE PageTypes' /\ SessionTypes'
    <2>1. PICK i \in 1..Len(granted[b]) :
              /\ granted' = [granted EXCEPT ![b] = RemoveAt(@, i)]
              /\ \/ /\ tab' = [tab EXCEPT ![b].shown = granted[b][i]]
                    /\ beat' = [beat EXCEPT ![b] = now]
                    /\ stored' = [stored EXCEPT ![SessionOf[b]] =
                                    IF granted[b][i] = Observer THEN @ ELSE granted[b][i]]
                 \/ UNCHANGED <<tab, beat, stored>>
        BY <1>6 DEF Heard
    <2>2. granted[b] \in Seq(Tenants) /\ granted[b][i] \in Tenants
        BY <1>1, <2>1 DEF PageTypes
    <2>3. granted' \in [Tabs -> Seq(Tenants)]
        BY <1>1, <2>1, <2>2, Removed DEF PageTypes
    <2>4. /\ tab' \in [Tabs -> Tab] /\ beat' \in [Tabs -> Nat]
          /\ stored' \in [Sessions -> Worlds \cup {NoPreference}]
        <3>1. CASE /\ tab' = [tab EXCEPT ![b].shown = granted[b][i]]
                   /\ beat' = [beat EXCEPT ![b] = now]
                   /\ stored' = [stored EXCEPT ![SessionOf[b]] =
                                    IF granted[b][i] = Observer THEN @ ELSE granted[b][i]]
            <4>1. tab' \in [Tabs -> Tab]
                BY <1>1, <2>2, <3>1 DEF PageTypes, Tab
            <4>2. granted[b][i] # Observer => granted[b][i] \in Worlds
                BY <2>2 DEF Tenants
            <4>3. stored' \in [Sessions -> Worlds \cup {NoPreference}]
                BY <1>1, <3>1, <4>2 DEF SessionTypes
            <4>4. beat' \in [Tabs -> Nat]
                BY <1>1, <3>1 DEF PageTypes
            <4> QED BY <4>1, <4>3, <4>4
        <3>2. CASE UNCHANGED <<tab, beat, stored>>
            BY <1>1, <3>2 DEF PageTypes, SessionTypes
        <3> QED BY <2>1, <3>1, <3>2
    <2> QED BY <1>1, <1>6, <2>3, <2>4 DEF Heard, PageTypes, SessionTypes
<1>7. ASSUME NEW b \in Tabs, Beats(b) PROVE PageTypes' /\ SessionTypes'
    BY <1>1, <1>7 DEF Beats, session, PageTypes, SessionTypes
<1>8. ASSUME NEW b \in Tabs, Launch(b) PROVE PageTypes' /\ SessionTypes'
    <2>1. PICK r \in Runs : launching' = [launching EXCEPT ![b] = @ \cup {r}]
        BY <1>8 DEF Launch
    <2>2. launching' \in [Tabs -> SUBSET Runs]
        BY <1>1, <2>1 DEF PageTypes
    <2>3. SessionTypes'
        BY <1>1, <1>8 DEF Launch, SessionTypes, session
    <2> QED BY <1>1, <1>8, <2>2, <2>3 DEF Launch, PageTypes
<1>9. ASSUME NEW b \in Tabs, Launched(b) PROVE PageTypes' /\ SessionTypes'
    <2>1. PICK r \in launching[b] :
              /\ tab' = [tab EXCEPT ![b].run = r]
              /\ launching' = [launching EXCEPT ![b] = @ \ {r}]
        BY <1>9 DEF Launched
    <2>2. r \in Runs
        BY <1>1, <2>1 DEF PageTypes
    <2>3. tab' \in [Tabs -> Tab] /\ launching' \in [Tabs -> SUBSET Runs]
        BY <1>1, <2>1, <2>2 DEF PageTypes, Tab
    <2>4. UNCHANGED <<asking, granted, beat, stored, left, last>>
        BY <1>9 DEF Launched, session
    <2> QED BY <1>1, <2>3, <2>4 DEF PageTypes, SessionTypes
<1>10. ASSUME NEW b \in Tabs, NEW t \in Worlds, SwitchTenant(b, t)
       PROVE  PageTypes' /\ SessionTypes'
    BY <1>1, <1>10 DEF SwitchTenant, session, PageTypes, SessionTypes, Tab
<1>11. ASSUME UNCHANGED <<page, session>> PROVE PageTypes' /\ SessionTypes'
    BY <1>1, <1>11 DEF page, session, PageTypes, SessionTypes
<1>12. ASSUME NEW c \in calls, GoOn(c) PROVE PageTypes' /\ SessionTypes'
    BY <1>11, <1>12, CallGoesOn
<1> QED
    BY <1>2, <1>3, <1>4, <1>5, <1>6, <1>7, <1>8, <1>9, <1>10, <1>11, <1>12
       DEF ANext, Approve, Investigated, Settles, Restart, TimePasses, allVars

\* Every step keeps the types of runs and approvals: none acts on the observer world.
LEMMA RunTypesStep ==
    ASSUME AInv, [ANext]_allVars
    PROVE  RunTypes'
<1>1. RunTypes /\ tab \in [Tabs -> Tab] /\ now \in Nat
    BY TypeParts, Numbers DEF AInv, PageTypes
<1>2. ASSUME NEW b \in Tabs, Launch(b) PROVE RunTypes'
    <2>1. tab[b].shown \in Tenants
        BY <1>1, <1>2 DEF Launch, Tab
    <2> QED BY <1>1, <1>2, <2>1 DEF Launch, RunTypes
<1>3. ASSUME NEW b \in Tabs, NEW o \in Options, Approve(b, o) PROVE RunTypes'
    <2>1. tab[b].shown \in Worlds /\ tab[b].run \in Runs /\ SessionOf[b] \in Sessions
        BY <1>1, <1>3, Numbers DEF Approve, MayAct, Tab, Tenants
    <2>2. [stage |-> "looking", session |-> SessionOf[b], run |-> tab[b].run,
           option |-> o, tenant |-> tab[b].shown, since |-> now] \in Call
        BY <1>1, <2>1 DEF Call, CallStages
    <2> QED BY <1>1, <1>3, <2>2 DEF Approve, RunTypes, runs
<1>4. ASSUME NEW c \in calls, GoOn(c) PROVE RunTypes'
    BY <1>1, <1>4, CallGoesOn DEF RunTypes, runs
<1>5. ASSUME NEW r \in Runs, Investigated(r) PROVE RunTypes'
    BY <1>1, <1>5 DEF Investigated, RunTypes
<1>6. ASSUME Restart PROVE RunTypes'
    BY <1>1, <1>6 DEF Restart, RunTypes, runs
<1>7. ASSUME UNCHANGED <<runs, calls>> PROVE RunTypes'
    BY <1>1, <1>7 DEF runs, RunTypes
<1> QED
    BY <1>2, <1>3, <1>4, <1>5, <1>6, <1>7
       DEF ANext, Open, Close, Acquired, AcquiredLate, Heard, Beats, Launched, SwitchTenant,
           Settles, TimePasses, allVars

\* Every step keeps the executor's types: the farm is never asked to change the observer
\* world.
LEMMA ExecutorStep ==
    ASSUME AInv, [ANext]_allVars
    PROVE  ExecutorTypes'
<1>1. ExecutorTypes /\ RunTypes
    BY TypeParts DEF AInv
<1>2. ASSUME NEW c \in calls, Looked(c) PROVE ExecutorTypes'
    <2>1. c.run \in Runs /\ c.tenant \in Worlds /\ KeyOf(c) \in RunOptions
        BY <1>1 DEF RunTypes, Call, KeyOf, RunOptions
    <2>2. CASE UNCHANGED <<exec, asked>>
        BY <1>1, <1>2, <2>2 DEF Looked, ExecutorTypes
    <2>3. CASE /\ exec' = [exec EXCEPT ![KeyOf(c)] = "open"]
               /\ asked' = [asked EXCEPT ![c.run] = @ \cup {c.tenant}]
        <3>1. exec' \in [RunOptions -> {"free", "open", "decided"}]
            BY <1>1, <2>1, <2>3 DEF ExecutorTypes
        <3>2. asked' \in [Runs -> SUBSET Worlds]
            BY <1>1, <2>1, <2>3 DEF ExecutorTypes
        <3> QED BY <3>1, <3>2 DEF ExecutorTypes
    <2> QED BY <1>2, <2>2, <2>3 DEF Looked
<1>3. ASSUME NEW k \in RunOptions, Settles(k) PROVE ExecutorTypes'
    BY <1>1, <1>3 DEF Settles, ExecutorTypes
<1>4. ASSUME Restart PROVE ExecutorTypes'
    BY <1>1, <1>4 DEF Restart, ExecutorTypes
<1>5. ASSUME UNCHANGED executor PROVE ExecutorTypes'
    BY <1>1, <1>5 DEF executor, ExecutorTypes
<1> QED
    BY <1>2, <1>3, <1>4, <1>5
       DEF ANext, Open, Close, Acquired, AcquiredLate, Heard, Beats, Launch, Launched,
           SwitchTenant, Approve, GoOn, Executed, GivesUp, HandsOver, Investigated,
           TimePasses, allVars

-----------------------------------------------------------------------------
\* Nothing is shown, awaited, held or approved initially.
LEMMA AInvInit == AInit => AInv
<1> SUFFICES ASSUME AInit PROVE AInv
    OBVIOUS
<1>1. Inv
    BY InitInv DEF AInit
<1>2. PageTypes /\ SessionTypes
    <2>1. ClosedTab \in Tab /\ <<>> \in Seq(Tenants)
        BY DEF ClosedTab, Tab
    <2> QED BY <2>1 DEF AInit, PageTypes, SessionTypes
<1>3. RunTypes /\ ExecutorTypes
    BY DEF AInit, RunTypes, ExecutorTypes
<1>4. \A b \in Tabs : TabSound(b)
    BY DEF AInit, ClosedTab, TabSound
<1>5. \A s \in Sessions : OnlyLast(s)
    <2>1. \A k \in Keys : ~Live(k)
        BY NoLeaseLapsed DEF AInit, Init, Live
    <2> QED BY <2>1 DEF OnlyLast, HeldBy
<1>6. \A c \in calls : CallSound(c)
    BY DEF AInit
<1> QED BY <1>1, <1>2, <1>3, <1>4, <1>5, <1>6, TypeParts DEF AInv, Inv

\* Every step keeps the invariant.
LEMMA AInvNext == AInv /\ [ANext]_allVars => AInv'
<1> SUFFICES ASSUME AInv, [ANext]_allVars PROVE AInv'
    OBVIOUS
<1>1. TypeOK' /\ OneLeasePerSession'
    BY PoolStep DEF Inv
<1>2. ATypeOK'
    BY <1>1, BrowserStep, RunTypesStep, ExecutorStep, TypeParts
<1> QED BY <1>1, <1>2, SoundStep DEF AInv, Sound

\* The invariant holds in every reachable state.
THEOREM AInvCorrect == ASpec => []AInv
BY AInvInit, AInvNext, PTL DEF ASpec

\* Browsers, pool, gateway, runs and executor stay well formed in every reachable state.
THEOREM ApprovalTypeCorrect == ASpec => []ATypeOK
BY AInvCorrect, PTL DEF AInv

\* A tab holds the world it shows until its browser is granted another one, for any
\* number of browsers with any number of tabs each.
THEOREM ShownCorrect == ASpec => []ShownWorldIsHeld
<1>1. AInv => ShownWorldIsHeld
    <2> SUFFICES ASSUME AInv, NEW b \in Tabs,
                        tab[b].shown # NoTenant, tab[b].shown = last[SessionOf[b]]
                 PROVE  HoldsLease(last[SessionOf[b]], SessionOf[b])
        BY DEF ShownWorldIsHeld
    <2>1. /\ now <= beat[b] + Beat /\ Fresh(SessionOf[b], beat[b] + TTL)
        BY DEF AInv, TabSound
    <2>2. beat[b] + TTL \in Int /\ now < beat[b] + TTL /\ SessionOf[b] \in Sessions
        BY <2>1, Numbers
    <2> QED BY <2>1, <2>2, FreshHeld
<1> QED BY <1>1, AInvCorrect, PTL

\* No lease lapses under an approval.
THEOREM ApprovalLeaseCorrect == ASpec => []ApprovalKeepsLease
<1>1. AInv => ApprovalKeepsLease
    <2> SUFFICES ASSUME AInv, NEW c \in calls
                 PROVE  \E t \in Tenants : HoldsLease(t, c.session)
        BY DEF ApprovalKeepsLease
    <2>1. now <= c.since + CallLimit /\ Fresh(c.session, c.since + CallLimit + 1)
        BY DEF AInv, CallSound
    <2>2. /\ c.since + CallLimit + 1 \in Int /\ now < c.since + CallLimit + 1
          /\ c.session \in Sessions
        BY <2>1, Numbers
    <2> QED BY <2>1, <2>2, FreshHeld DEF Fresh
<1> QED BY <1>1, AInvCorrect, PTL

=============================================================================
