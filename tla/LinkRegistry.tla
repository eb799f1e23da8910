---------------------------- MODULE LinkRegistry ----------------------------
(***************************************************************************)
(* What the collection of links promises to whoever reads it, whatever     *)
(* goes on elsewhere: a user has at most one link, it holds tokens that    *)
(* the user's own browser brought, and one link changes at a time.         *)
(***************************************************************************)
CONSTANTS Users, ORCIDAuth

VARIABLE registered   \* who is linked, with which tokens

Registered(u) == \E r \in registered : r.username = u

Entries(u) == [username : {u}, orcid_auth : {a \in ORCIDAuth : a.by = u}]

Register(u) ==
    /\ ~Registered(u)
    /\ \E r \in Entries(u) : registered' = registered \cup {r}

Renew(u) ==
    /\ Registered(u)
    /\ \E r \in Entries(u) : registered' = {q \in registered : q.username # u} \cup {r}

Unregister(u) ==
    /\ Registered(u)
    /\ registered' = {r \in registered : r.username # u}

Init == registered = {}

Next == \E u \in Users : Register(u) \/ Renew(u) \/ Unregister(u)

Spec == Init /\ [][Next]_registered
=============================================================================
