--------------------------- MODULE WorldOwnership ---------------------------
(***************************************************************************)
(* What the tenant lease pool promises to everything behind it: a writable *)
(* render-farm world belongs to nobody or to exactly one session, a session *)
(* owns at most one world, and a world never passes straight from one      *)
(* owner to another.  How a world comes to be vacant (release, expiry,     *)
(* switch) and how long ownership lasts are left to TenantLease.           *)
(***************************************************************************)
CONSTANTS
    Worlds,     \* the writable tenant worlds
    Sessions,   \* the browser sessions
    Nobody      \* the owner of a vacant world

VARIABLE owner  \* owner[w] is the session that may write to world w, or Nobody

TypeOK == owner \in [Worlds -> Sessions \cup {Nobody}]

\* A session is never given two worlds to write to.
OneWorldEach ==
    \A v, w \in Worlds : owner[v] = owner[w] /\ owner[v] # Nobody => v = w

-----------------------------------------------------------------------------
Init == owner = [w \in Worlds |-> Nobody]

\* Any set of worlds falls vacant: a release, or the leases that expire together.
Vacate(W) == owner' = [w \in Worlds |-> IF w \in W THEN Nobody ELSE owner[w]]

\* Session s moves to the vacant world w, leaving whichever world it owned.
Occupy(s, w) ==
    /\ owner[w] = Nobody
    /\ owner' = [v \in Worlds |-> IF v = w THEN s
                                  ELSE IF owner[v] = s THEN Nobody
                                  ELSE owner[v]]

Next == \/ \E W \in SUBSET Worlds : Vacate(W)
        \/ \E s \in Sessions, w \in Worlds : Occupy(s, w)

Spec == Init /\ [][Next]_owner
=============================================================================
