------------------------- MODULE TenantLease_proofs -------------------------
(* Proofs about TenantLease, for every number of worlds and sessions.        *)
EXTENDS TenantLease, TLAPS, WellFoundedInduction

-----------------------------------------------------------------------------
(* What the search of acquire_lease returns. *)

\* A non-empty set of numbers has a least one: the first free world exists.
LEMMA LeastNatural ==
    ASSUME NEW S \in SUBSET Nat, S # {}
    PROVE  \E m \in S : \A n \in S : m <= n
<1> DEFINE LT == OpToRel(<, Nat)
<1>1. \E m \in S : \A n \in S : <<n, m>> \notin LT
    BY NatLessThanWellFounded, WFMin
<1>2. ASSUME NEW n \in Nat, NEW k \in Nat, n < k
      PROVE  <<n, k>> \in LT
    <2>1. <<n, k>> \in {ss \in Nat \X Nat : ss[1] < ss[2]}
        BY <1>2
    <2> QED BY <2>1, Zenon DEF OpToRel
<1> HIDE DEF LT
<1>3. PICK m \in S : \A n \in S : <<n, m>> \notin LT
    BY <1>1
<1>4. ASSUME NEW n \in S
      PROVE  m <= n
    <2>1. ~(n < m)
        BY <1>2, <1>3, Zenon
    <2> QED BY <2>1
<1> QED BY <1>4

\* The key is the preferred world if that is free, a free world if there is
\* one, and the caller's own observer entry only when every world is taken.
LEMMA CandidateProperty ==
    ASSUME NEW ls \in [Keys -> Lease], now \in Nat,
           NEW s \in Sessions, NEW p
    PROVE  LET c == Candidate(ls, s, p)
           IN  /\ c \in Keys
               /\ c \in Worlds => ls[c].expires <= now
               /\ c \notin Worlds => c = s /\ \A w \in Worlds : ls[w].expires > now
               /\ p \in FreeWorlds(ls) => c = p
<1> DEFINE free == FreeWorlds(ls)
           c == Candidate(ls, s, p)
<1>1. free \subseteq Worlds /\ Worlds \subseteq Nat /\ Worlds \subseteq Keys /\ s \in Keys
    BY LeaseAssumption DEF FreeWorlds, Worlds, Keys
<1>2. s \notin Worlds
    BY LeaseAssumption
<1>3. \A w \in Worlds : ls[w].expires \in Nat
    BY <1>1 DEF Lease
<1>4. CASE p \in free
    BY <1>1, <1>4 DEF Candidate, FreeWorlds
<1>5. CASE p \notin free /\ free # {}
    <2>1. \E w \in free : \A v \in free : w <= v
        BY <1>1, <1>5, LeastNatural
    <2>2. c \in free
        BY <1>5, <2>1 DEF Candidate
    <2> QED BY <1>1, <1>5, <2>2 DEF FreeWorlds
<1>6. CASE free = {}
    <2>1. c = s
        BY <1>6 DEF Candidate
    <2>2. \A w \in Worlds : ls[w].expires > now
        BY <1>3, <1>6 DEF FreeWorlds
    <2> QED BY <1>1, <1>2, <1>6, <2>1, <2>2
<1> QED BY <1>4, <1>5, <1>6

-----------------------------------------------------------------------------
(* The inductive invariant.  WellFormed and Single are TypeOK and            *)
(* OneLeasePerSession of a dictionary ls at time t: acquire_lease builds its *)
(* result in two writes, and both facts are carried across each.             *)

WellFormed(ls, t) ==
    /\ ls \in [Keys -> Lease]
    /\ \A k \in Keys : ls[k].expires <= t + TTL
    /\ \A k \in Keys : ls[k].session = Nobody => ls[k] = NoLease
    /\ \A s \in Sessions : ls[s].session \in {s, Nobody}

Single(ls, t) ==
    \A j, k \in Keys :
        ls[j].expires > t /\ ls[k].expires > t /\ ls[j].session = ls[k].session
            => j = k

Inv == TypeOK /\ OneLeasePerSession

\* The invariant, now and after a step, as WellFormed and Single of the dictionary.
LEMMA InvParts ==
    /\ Inv <=> now \in Nat /\ WellFormed(leases, now) /\ Single(leases, now)
    /\ Inv' <=> now' \in Nat /\ WellFormed(leases', now') /\ Single(leases', now')
BY DEF Inv, TypeOK, OneLeasePerSession, Live, WellFormed, Single

\* The key of a tenant and a session is a key of the dictionary.
LEMMA KeyType ==
    ASSUME NEW s \in Sessions, NEW t \in Tenants
    PROVE  /\ Key(t, s) \in Keys
           /\ Key(t, s) \in Sessions => Key(t, s) = s
BY LeaseAssumption DEF Key, Keys, Tenants

\* Dropping an entry keeps both, and leaves its holder with no live lease.
LEMMA ClearLemma ==
    ASSUME NEW ls, NEW t \in Nat, WellFormed(ls, t), Single(ls, t), NEW k \in Keys
    PROVE  LET new == [ls EXCEPT ![k] = NoLease]
           IN  /\ WellFormed(new, t) /\ Single(new, t)
               /\ ls[k].expires > t =>
                    \A j \in Keys : ~(new[j].session = ls[k].session /\ new[j].expires > t)
<1> DEFINE new == [ls EXCEPT ![k] = NoLease]
<1>1. NoLease \in Lease /\ NoLease.expires = 0 /\ NoLease.session = Nobody
    BY DEF NoLease, Lease
<1>2. new \in [Keys -> Lease] /\ new[k] = NoLease
    BY <1>1 DEF WellFormed
<1>3. \A j \in Keys \ {k} : new[j] = ls[j]
    BY DEF WellFormed
<1>4. WellFormed(new, t)
    <2>1. \A j \in Keys : new[j].expires <= t + TTL
        BY <1>1, <1>2, <1>3, LeaseAssumption DEF WellFormed
    <2>2. \A j \in Keys : new[j].session = Nobody => new[j] = NoLease
        BY <1>2, <1>3 DEF WellFormed
    <2>3. \A u \in Sessions : new[u].session \in {u, Nobody}
        BY <1>1, <1>2, <1>3 DEF WellFormed, Keys
    <2> QED BY <1>2, <2>1, <2>2, <2>3 DEF WellFormed
<1>5. \A j \in Keys : new[j].expires > t => j # k
    BY <1>1, <1>2
<1>6. Single(new, t)
    BY <1>3, <1>5 DEF Single
<1>7. ASSUME ls[k].expires > t, NEW j \in Keys, new[j].session = ls[k].session,
             new[j].expires > t
      PROVE  FALSE
    BY <1>3, <1>5, <1>7 DEF Single
<1> QED BY <1>4, <1>6, <1>7

\* Writing a full-length lease of s, under a world or under s itself, keeps
\* both when s has no live lease elsewhere.
LEMMA WriteLemma ==
    ASSUME NEW ls, NEW t \in Nat, WellFormed(ls, t), Single(ls, t),
           NEW s \in Sessions, NEW k \in Keys, k \in Sessions => k = s,
           \A j \in Keys : ls[j].session = s /\ ls[j].expires > t => j = k
    PROVE  LET new == [ls EXCEPT ![k] = [session |-> s, expires |-> t + TTL]]
           IN  WellFormed(new, t) /\ Single(new, t)
<1> DEFINE lease == [session |-> s, expires |-> t + TTL]
           new == [ls EXCEPT ![k] = lease]
<1>1. lease \in Lease /\ lease.session = s /\ lease.expires = t + TTL
    BY LeaseAssumption DEF Lease
<1> HIDE DEF lease
<1>2. new \in [Keys -> Lease] /\ new[k] = lease
    BY <1>1 DEF WellFormed
<1>3. \A j \in Keys \ {k} : new[j] = ls[j]
    BY DEF WellFormed
<1>4. WellFormed(new, t)
    <2>1. \A j \in Keys : new[j].expires <= t + TTL
        BY <1>1, <1>2, <1>3, LeaseAssumption DEF WellFormed
    <2>2. \A j \in Keys : new[j].session = Nobody => new[j] = NoLease
        BY <1>1, <1>2, <1>3, LeaseAssumption DEF WellFormed
    <2>3. \A u \in Sessions : new[u].session \in {u, Nobody}
        BY <1>1, <1>2, <1>3 DEF WellFormed, Keys
    <2> QED BY <1>2, <2>1, <2>2, <2>3 DEF WellFormed
<1>5. Single(new, t)
    BY <1>1, <1>2, <1>3 DEF Single
<1> QED BY <1>4, <1>5 DEF lease

-----------------------------------------------------------------------------
(* Each action preserves the invariant. *)

\* Renewing a live lease keeps the invariant.
LEMMA RenewInv ==
    ASSUME Inv, NEW s \in Sessions, NEW k \in Keys, HeldBy(k, s), Renew(k), now' = now
    PROVE  Inv'
<1>1. now \in Nat /\ WellFormed(leases, now) /\ Single(leases, now)
    BY InvParts
<1>2. leases' = [leases EXCEPT ![k] = [session |-> s, expires |-> now + TTL]]
    BY <1>1 DEF Renew, HeldBy, WellFormed, Lease
<1>3. k \in Sessions => k = s
    BY <1>1, LeaseAssumption DEF WellFormed, HeldBy
<1>4. \A j \in Keys : leases[j].session = s /\ leases[j].expires > now => j = k
    BY <1>1 DEF Single, HeldBy, Live
<1> QED BY <1>1, <1>2, <1>3, <1>4, WriteLemma, InvParts

\* A grant to a session with no live lease keeps the invariant.
LEMMA GrantInv ==
    ASSUME NEW ls, now \in Nat, WellFormed(ls, now), Single(ls, now),
           NEW s \in Sessions, NEW p,
           \A j \in Keys : ~(ls[j].session = s /\ ls[j].expires > now),
           leases' = Grant(ls, s, p), now' = now
    PROVE  Inv'
<1> DEFINE c == Candidate(ls, s, p)
<1>1. c \in Keys /\ (c \in Sessions => c = s)
    BY CandidateProperty, LeaseAssumption DEF WellFormed
<1>2. leases' = [ls EXCEPT ![c] = [session |-> s, expires |-> now + TTL]]
    BY DEF Grant
<1> HIDE DEF c
<1>3. \A j \in Keys : ls[j].session = s /\ ls[j].expires > now => j = c
    OBVIOUS
<1> DEFINE new == [ls EXCEPT ![c] = [session |-> s, expires |-> now + TTL]]
<1>4. WellFormed(new, now) /\ Single(new, now)
    BY <1>1, <1>3, WriteLemma
<1> QED BY <1>2, <1>4, InvParts

\* acquire_lease keeps the invariant, whichever of its three ways it takes.
LEMMA AcquireInv ==
    ASSUME Inv, NEW s \in Sessions, NEW p \in Preferences, Acquire(s, p)
    PROVE  Inv'
<1>1. now \in Nat /\ WellFormed(leases, now) /\ Single(leases, now) /\ now' = now
    BY InvParts DEF Acquire
<1>2. CASE \E k \in Keys : HeldBy(k, s) /\ ~Switches(s, p, k) /\ Renew(k)
    BY <1>1, <1>2, RenewInv
<1>3. CASE \E k \in Keys :
            /\ HeldBy(k, s)
            /\ Switches(s, p, k)
            /\ leases' = Grant([leases EXCEPT ![k] = NoLease], s, p)
    <2>1. PICK k \in Keys :
            HeldBy(k, s) /\ leases' = Grant([leases EXCEPT ![k] = NoLease], s, p)
        BY <1>3
    <2> DEFINE ls == [leases EXCEPT ![k] = NoLease]
    <2>2. /\ WellFormed(ls, now) /\ Single(ls, now)
          /\ \A j \in Keys : ~(ls[j].session = s /\ ls[j].expires > now)
        BY <1>1, <2>1, ClearLemma DEF HeldBy, Live
    <2> QED BY <1>1, <2>1, <2>2, GrantInv
<1>4. CASE (\A k \in Keys : ~HeldBy(k, s)) /\ leases' = Grant(leases, s, p)
    BY <1>1, <1>4, GrantInv DEF HeldBy, Live
<1> QED BY <1>2, <1>3, <1>4 DEF Acquire

\* The empty dictionary satisfies the invariant.
LEMMA InitInv == Init => Inv
<1> SUFFICES ASSUME Init PROVE Inv
    OBVIOUS
<1>1. NoLease \in Lease /\ NoLease.expires = 0 /\ NoLease.session = Nobody
    BY DEF NoLease, Lease
<1>2. TypeOK
    BY <1>1, LeaseAssumption DEF Init, TypeOK, Keys
<1>3. OneLeasePerSession
    BY <1>1, LeaseAssumption DEF Init, OneLeasePerSession, Live
<1> QED BY <1>2, <1>3 DEF Inv

\* Every step keeps the invariant.
LEMMA NextInv == Inv /\ [Next]_vars => Inv'
<1> SUFFICES ASSUME Inv, [Next]_vars PROVE Inv'
    OBVIOUS
<1>1. now \in Nat /\ WellFormed(leases, now) /\ Single(leases, now)
    BY InvParts
<1>2. ASSUME NEW s \in Sessions, NEW p \in Preferences, Acquire(s, p)
      PROVE  Inv'
    BY <1>2, AcquireInv
<1>3. ASSUME NEW s \in Sessions, NEW t \in Tenants, Heartbeat(s, t)
      PROVE  Inv'
    BY <1>3, KeyType, RenewInv DEF Heartbeat
<1>4. ASSUME NEW s \in Sessions, NEW t \in Tenants, Release(s, t)
      PROVE  Inv'
    <2>1. leases' = [leases EXCEPT ![Key(t, s)] = NoLease] /\ now' = now
        BY <1>4 DEF Release
    <2> QED BY <1>1, <2>1, KeyType, ClearLemma, InvParts
<1>5. CASE Tick
    <2>1. now' = now + 1 /\ leases' = leases
        BY <1>5 DEF Tick
    <2>2. \A k \in Keys : leases[k].expires \in Nat
        BY <1>1 DEF WellFormed, Lease
    <2>3. WellFormed(leases', now')
        BY <1>1, <2>1, <2>2, LeaseAssumption DEF WellFormed
    <2>4. Single(leases', now')
        BY <1>1, <2>1, <2>2 DEF Single
    <2> QED BY <1>1, <2>1, <2>3, <2>4, InvParts
<1>6. CASE UNCHANGED vars
    BY <1>1, <1>6, InvParts DEF vars
<1> QED BY <1>2, <1>3, <1>4, <1>5, <1>6 DEF Next

\* The invariant holds in every reachable state.
THEOREM InvCorrect == Spec => []Inv
BY InitInv, NextInv, PTL DEF Spec

\* The lease dictionary is well formed in every reachable state.
THEOREM TypeCorrect == Spec => []TypeOK
BY InvCorrect, PTL DEF Inv

\* However a session mixes acquires, switches, heartbeats and expiries, it never
\* has two live leases.
THEOREM OneLeaseCorrect == Spec => []OneLeasePerSession
BY InvCorrect, PTL DEF Inv

-----------------------------------------------------------------------------
(* What a step may do. *)

\* A step of acquire_lease that searches starts from a dictionary ls in which
\* the caller holds nothing and every other entry is as it was.
LEMMA AcquireCases ==
    ASSUME Inv, NEW s \in Sessions, NEW p \in Preferences, Acquire(s, p)
    PROVE  /\ now' = now
           /\ \/ \E k \in Keys : HeldBy(k, s) /\ ~Switches(s, p, k) /\ Renew(k)
              \/ \E ls \in [Keys -> Lease] :
                    /\ \A j \in Keys : ls[j] = leases[j]
                                       \/ /\ HeldBy(j, s) /\ Switches(s, p, j)
                                          /\ ls[j] = NoLease
                    /\ \A j \in Keys : ~(ls[j].session = s /\ ls[j].expires > now)
                    /\ leases' = Grant(ls, s, p)
<1>1. now \in Nat /\ WellFormed(leases, now) /\ Single(leases, now) /\ now' = now
    BY InvParts DEF Acquire
<1>2. ASSUME NEW k \in Keys, HeldBy(k, s), Switches(s, p, k),
             leases' = Grant([leases EXCEPT ![k] = NoLease], s, p)
      PROVE  \E ls \in [Keys -> Lease] :
                    /\ \A j \in Keys : ls[j] = leases[j]
                                       \/ /\ HeldBy(j, s) /\ Switches(s, p, j)
                                          /\ ls[j] = NoLease
                    /\ \A j \in Keys : ~(ls[j].session = s /\ ls[j].expires > now)
                    /\ leases' = Grant(ls, s, p)
    <2> DEFINE ls == [leases EXCEPT ![k] = NoLease]
    <2>1. /\ WellFormed(ls, now)
          /\ \A j \in Keys : ~(ls[j].session = s /\ ls[j].expires > now)
        BY <1>1, <1>2, ClearLemma DEF HeldBy, Live
    <2>2. ls \in [Keys -> Lease]
        BY <2>1 DEF WellFormed
    <2>3. \A j \in Keys : ls[j] = leases[j] \/ (j = k /\ ls[j] = NoLease)
        BY <1>1 DEF WellFormed
    <2>4. leases' = Grant(ls, s, p)
        BY <1>2
    <2> HIDE DEF ls
    <2> QED BY <1>2, <2>1, <2>2, <2>3, <2>4
<1>3. CASE (\A k \in Keys : ~HeldBy(k, s)) /\ leases' = Grant(leases, s, p)
    BY <1>1, <1>3 DEF HeldBy, Live, WellFormed
<1> QED BY <1>1, <1>2, <1>3 DEF Acquire

\* What a grant writes, and where.
LEMMA GrantEffect ==
    ASSUME NEW ls \in [Keys -> Lease], now \in Nat, NEW s \in Sessions, NEW p,
           leases' = Grant(ls, s, p), now' = now
    PROVE  \E c \in Keys :
              /\ leases' = [ls EXCEPT ![c] = [session |-> s, expires |-> now + TTL]]
              /\ leases'[c].session = s /\ leases'[c].expires > now'
              /\ \A j \in Keys \ {c} : leases'[j] = ls[j]
              /\ c \in Worlds => ls[c].expires <= now
              /\ c \notin Worlds => c = s /\ \A w \in Worlds : ls[w].expires > now
              /\ p \in FreeWorlds(ls) => c = p
<1> DEFINE c == Candidate(ls, s, p)
<1>1. /\ c \in Keys
      /\ c \in Worlds => ls[c].expires <= now
      /\ c \notin Worlds => c = s /\ \A w \in Worlds : ls[w].expires > now
      /\ p \in FreeWorlds(ls) => c = p
    BY CandidateProperty
<1>2. leases' = [ls EXCEPT ![c] = [session |-> s, expires |-> now + TTL]]
    BY DEF Grant
<1> HIDE DEF c
<1>3. leases'[c] = [session |-> s, expires |-> now + TTL]
    BY <1>1, <1>2
<1>4. leases'[c].session = s /\ leases'[c].expires > now'
    BY <1>3, LeaseAssumption
<1>5. \A j \in Keys \ {c} : leases'[j] = ls[j]
    BY <1>2
<1> QED BY <1>1, <1>2, <1>4, <1>5

\* What a renewal writes, and where.
LEMMA RenewEffect ==
    ASSUME Inv, NEW k \in Keys, Live(k), Renew(k), now' = now
    PROVE  /\ leases'[k].session = leases[k].session /\ Live(k)'
           /\ \A j \in Keys \ {k} : leases'[j] = leases[j]
BY InvParts, LeaseAssumption DEF Renew, Live, WellFormed, Lease

\* An absent lease is nobody's and has expired.
LEMMA NoLeaseLapsed == NoLease.session = Nobody /\ NoLease.expires = 0
BY DEF NoLease

\* A step that puts a session in the observer world finds every world leased.
LEMMA ObserverStep ==
    ASSUME Inv, [Next]_vars, NEW s \in Sessions, ~Live(s), Live(s)'
    PROVE  \A w \in Worlds : Live(w) /\ Live(w)'
<1>1. now \in Nat /\ WellFormed(leases, now) /\ Single(leases, now)
    BY InvParts
<1>2. s \in Keys /\ s \notin Worlds /\ Worlds \subseteq Keys
    BY LeaseAssumption DEF Keys
<1>3. ASSUME NEW k \in Keys, Live(k), Renew(k), now' = now
      PROVE  FALSE
    BY <1>2, <1>3, RenewEffect DEF Live
<1>4. ASSUME NEW u \in Sessions, NEW p \in Preferences, Acquire(u, p)
      PROVE  \A w \in Worlds : Live(w) /\ Live(w)'
    <2>1. PICK ls \in [Keys -> Lease] :
              /\ now' = now
              /\ \A j \in Keys : ls[j] = leases[j] \/ ls[j] = NoLease
              /\ leases' = Grant(ls, u, p)
        BY <1>3, <1>4, AcquireCases DEF HeldBy
    <2>2. PICK c \in Keys :
              /\ leases'[c].session = u /\ leases'[c].expires > now'
              /\ \A j \in Keys \ {c} : leases'[j] = ls[j]
              /\ c \notin Worlds => \A w \in Worlds : ls[w].expires > now
        BY <1>1, <2>1, GrantEffect
    <2>3. c = s
        BY <1>1, <1>2, <2>1, <2>2, NoLeaseLapsed DEF Live
    <2>4. \A w \in Worlds : ls[w].expires > now /\ w # c
        BY <1>2, <2>2, <2>3
    <2>5. \A w \in Worlds : ls[w] = leases[w] /\ leases'[w] = ls[w]
        BY <1>1, <1>2, <2>1, <2>2, <2>4, NoLeaseLapsed
    <2> QED BY <2>1, <2>4, <2>5 DEF Live
<1>5. ASSUME NEW u \in Sessions, NEW t \in Tenants, Heartbeat(u, t)
      PROVE  FALSE
    BY <1>3, <1>5, KeyType DEF Heartbeat, HeldBy
<1>6. ASSUME NEW u \in Sessions, NEW t \in Tenants, Release(u, t)
      PROVE  FALSE
    BY <1>1, <1>2, <1>6, KeyType, NoLeaseLapsed DEF Release, Live, WellFormed
<1>7. CASE Tick
    BY <1>1, <1>2, <1>7 DEF Tick, Live, WellFormed, Lease
<1>8. CASE UNCHANGED vars
    BY <1>8 DEF vars, Live
<1> QED BY <1>4, <1>5, <1>6, <1>7, <1>8 DEF Next

\* A session goes to the observer world only when every world is leased.
THEOREM ObserverCorrect == Spec => ObserverOnlyWhenFull
<1>1. Inv /\ [Next]_vars =>
        [\A s \in Sessions :
            ~Live(s) /\ Live(s)' => \A w \in Worlds : Live(w) /\ Live(w)']_vars
    BY ObserverStep
<1> QED BY <1>1, InvCorrect, PTL DEF Spec, ObserverOnlyWhenFull

\* An acquire that prefers a world leaves a session that held one with one.
LEMMA SwitchStep ==
    ASSUME Inv, NEW s \in Sessions, NEW p \in Worlds, Acquire(s, p),
           NEW w \in Worlds, HeldBy(w, s)
    PROVE  HeldBy(w, s)' \/ HeldBy(p, s)'
<1>1. now \in Nat /\ WellFormed(leases, now) /\ Single(leases, now) /\ now' = now
    BY InvParts DEF Acquire
<1>2. w \in Keys /\ p \in Keys /\ p \in Preferences
    BY DEF Keys, Preferences, Tenants
<1>3. ASSUME NEW j \in Keys, HeldBy(j, s)
      PROVE  j = w
    BY <1>1, <1>2, <1>3 DEF HeldBy, Live, Single
<1>4. CASE \E k \in Keys : HeldBy(k, s) /\ Renew(k)
    BY <1>1, <1>2, <1>3, <1>4, RenewEffect DEF HeldBy
<1>5. CASE \E ls \in [Keys -> Lease] :
              /\ \A j \in Keys : ls[j] = leases[j]
                                 \/ /\ HeldBy(j, s) /\ Switches(s, p, j)
                                    /\ ls[j] = NoLease
              /\ \A j \in Keys : ~(ls[j].session = s /\ ls[j].expires > now)
              /\ leases' = Grant(ls, s, p)
    <2>1. PICK ls \in [Keys -> Lease] :
              /\ \A j \in Keys : ls[j] = leases[j]
                                 \/ /\ HeldBy(j, s) /\ Switches(s, p, j)
                                    /\ ls[j] = NoLease
              /\ \A j \in Keys : ~(ls[j].session = s /\ ls[j].expires > now)
              /\ leases' = Grant(ls, s, p)
        BY <1>5
    <2>2. ls[w] # leases[w]
        BY <1>2, <2>1 DEF HeldBy, Live
    <2>3. Switches(s, p, w)
        BY <1>2, <2>1, <2>2
    <2>4. p # w /\ ~HeldBy(p, s)
        BY <1>2, <1>3, <2>3 DEF Switches, TenantOf
    <2>5. leases[p].expires <= now
        BY <1>1, <1>2, <2>3, <2>4 DEF Switches, HeldBy, Live, WellFormed, Lease
    <2>6. p \in FreeWorlds(ls)
        BY <1>1, <1>2, <2>1, <2>4, <2>5 DEF FreeWorlds
    <2> QED BY <1>1, <2>1, <2>6, GrantEffect DEF HeldBy, Live
<1> QED BY <1>2, <1>4, <1>5, AcquireCases

\* A switch between worlds of the pool never leaves the session without one.
THEOREM SwitchCorrect == Spec => SwitchNeverLosesWorld
<1>1. Inv /\ [Next]_vars =>
        [\A s \in Sessions, p \in Worlds :
            Acquire(s, p) =>
                \A w \in Worlds : HeldBy(w, s) => HeldBy(w, s)' \/ HeldBy(p, s)']_vars
    BY SwitchStep
<1> QED BY <1>1, InvCorrect, PTL DEF Spec, SwitchNeverLosesWorld

-----------------------------------------------------------------------------
(* Refinement of WorldOwnership. *)

\* The empty dictionary maps to worlds that all are vacant.
LEMMA InitOwnership == Init => Ownership!Init
<1> SUFFICES ASSUME Init PROVE Ownership!Init
    OBVIOUS
<1>1. \A w \in Worlds : ~Live(w)
    BY NoLeaseLapsed DEF Init, Live, Keys
<1> QED BY <1>1 DEF Ownership!Init, Owner

\* A step after which each world has its old owner or none.
LEMMA VacateStep ==
    ASSUME \A w \in Worlds : Owner'[w] \in {Owner[w], Nobody}
    PROVE  Ownership!Next
<1> DEFINE W == {w \in Worlds : Owner'[w] = Nobody}
<1>1. Owner' = [w \in Worlds |-> IF w \in W THEN Nobody ELSE Owner[w]]
    BY DEF Owner
<1>2. Ownership!Vacate(W)
    BY <1>1 DEF Ownership!Vacate
<1> QED BY <1>2 DEF Ownership!Next

\* Every step maps to a step of WorldOwnership or leaves the owners alone.
LEMMA NextOwnership == Inv /\ [Next]_vars => [Ownership!Next]_Owner
<1> SUFFICES ASSUME Inv, [Next]_vars PROVE Ownership!Next \/ Owner' = Owner
    OBVIOUS
<1>1. now \in Nat /\ WellFormed(leases, now) /\ Single(leases, now)
    BY InvParts
<1>2. Worlds \subseteq Keys
    BY DEF Keys
<1>3. ASSUME NEW k \in Keys, Live(k), Renew(k), now' = now
      PROVE  Owner' = Owner
    <2>1. \A w \in Worlds : Live(w)' = Live(w) /\ leases'[w].session = leases[w].session
        BY <1>2, <1>3, RenewEffect DEF Live
    <2> QED BY <2>1 DEF Owner
<1>4. ASSUME NEW s \in Sessions, NEW p \in Preferences, Acquire(s, p)
      PROVE  Ownership!Next \/ Owner' = Owner
    <2>0. CASE \E k \in Keys : HeldBy(k, s) /\ Renew(k)
        BY <1>3, <1>4, <2>0 DEF HeldBy, Acquire
    <2> SUFFICES ASSUME ~(\E k \in Keys : HeldBy(k, s) /\ Renew(k))
                 PROVE  Ownership!Next \/ Owner' = Owner
        BY <2>0
    <2>1. PICK ls \in [Keys -> Lease] :
              /\ now' = now
              /\ \A j \in Keys : ls[j] = leases[j]
                                 \/ (HeldBy(j, s) /\ ls[j] = NoLease)
              /\ \A j \in Keys : ~(ls[j].session = s /\ ls[j].expires > now)
              /\ leases' = Grant(ls, s, p)
        BY <1>4, AcquireCases
    <2>2. PICK c \in Keys :
              /\ leases'[c].session = s /\ leases'[c].expires > now'
              /\ \A j \in Keys \ {c} : leases'[j] = ls[j]
              /\ c \in Worlds => ls[c].expires <= now
        BY <1>1, <2>1, GrantEffect
    <2>3. \A w \in Worlds \ {c} :
              Owner'[w] = IF HeldBy(w, s) THEN Nobody ELSE Owner[w]
        BY <1>1, <1>2, <2>1, <2>2, NoLeaseLapsed DEF Owner, Live, HeldBy
    <2>4. CASE c \notin Worlds
        BY <2>3, <2>4, VacateStep
    <2>5. CASE c \in Worlds
        <3>1. Owner'[c] = s
            BY <2>2, <2>5 DEF Owner, Live
        <3>2. Owner[c] \in {s, Nobody}
            <4>1. CASE HeldBy(c, s)
                BY <2>5, <4>1 DEF Owner, HeldBy
            <4>2. CASE ls[c] = leases[c]
                <5>1. ~Live(c)
                    BY <1>1, <2>1, <2>2, <2>5, <4>2 DEF Live, Lease
                <5> QED BY <2>5, <5>1 DEF Owner
            <4> QED BY <2>1, <4>1, <4>2
        <3>3. CASE Owner[c] = s
            <4>1. HeldBy(c, s)
                BY <2>5, <3>3, LeaseAssumption DEF Owner, HeldBy
            <4>2. \A w \in Worlds \ {c} : ~HeldBy(w, s)
                BY <1>1, <1>2, <2>5, <4>1 DEF HeldBy, Live, Single
            <4> QED BY <2>3, <3>1, <3>3, <4>2 DEF Owner
        <3>4. CASE Owner[c] = Nobody
            <4>1. \A w \in Worlds : HeldBy(w, s) <=> Owner[w] = s
                BY LeaseAssumption DEF Owner, HeldBy
            <4>2. Owner' = [v \in Worlds |-> IF v = c THEN s
                                             ELSE IF Owner[v] = s THEN Nobody
                                             ELSE Owner[v]]
                BY <2>3, <3>1, <4>1 DEF Owner
            <4> QED BY <2>5, <3>4, <4>2 DEF Ownership!Next, Ownership!Occupy
        <3> QED BY <3>2, <3>3, <3>4
    <2> QED BY <2>4, <2>5
<1>5. ASSUME NEW s \in Sessions, NEW t \in Tenants, Heartbeat(s, t)
      PROVE  Owner' = Owner
    BY <1>3, <1>5, KeyType DEF Heartbeat, HeldBy
<1>6. ASSUME NEW s \in Sessions, NEW t \in Tenants, Release(s, t)
      PROVE  Ownership!Next
    <2>1. \A w \in Worlds : leases'[w] \in {leases[w], NoLease} /\ now' = now
        BY <1>1, <1>2, <1>6, KeyType DEF Release, WellFormed
    <2> QED BY <1>1, <2>1, VacateStep, NoLeaseLapsed DEF Owner, Live
<1>7. CASE Tick
    <2>1. \A w \in Worlds : Live(w)' => Live(w)
        BY <1>1, <1>2, <1>7 DEF Tick, Live, WellFormed, Lease
    <2> QED BY <1>7, <2>1, VacateStep DEF Tick, Owner
<1>8. CASE UNCHANGED vars
    BY <1>8 DEF vars, Owner, Live
<1> QED BY <1>4, <1>5, <1>6, <1>7, <1>8 DEF Next

\* The lease pool implements WorldOwnership: a world has one owner at a time and
\* is vacant between two owners.
THEOREM OwnershipCorrect == Spec => ImplementsOwnership
BY InitOwnership, NextOwnership, InvCorrect, PTL
   DEF Spec, ImplementsOwnership, Ownership!Spec
=============================================================================
