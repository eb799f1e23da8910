-------------------------- MODULE LinkingProtocol ---------------------------
(***************************************************************************)
(* The linking protocol as its documentation tells it (usage-flow.puml,    *)
(* linking sessions): each operation is one step.  The service implements  *)
(* it as long as one request is handled at a time.                         *)
(***************************************************************************)
CONSTANTS Users, SessionIds, ORCIDAuth

VARIABLES
    open,         \* the linking sessions under way
    used,         \* the session ids ever issued
    registered    \* who is linked, with which tokens

vars == <<open, used, registered>>

Linked(u) == \E r \in registered : r.username = u

LinkedOrcids == {r.orcid_auth.orcid : r \in registered}

TokensInUse ==
    {r.orcid_auth : r \in registered} \cup {d.orcid_auth : d \in {e \in open : e.stage = "completed"}}

Session(s, u, stage) == [session_id |-> s, username |-> u, stage |-> stage]

Completed(s, u, a) == [session_id |-> s, username |-> u, stage |-> "completed", orcid_auth |-> a]

-----------------------------------------------------------------------------

Issue(s, u) ==
    /\ s \notin used /\ ~Linked(u)
    /\ used' = used \cup {s}
    /\ open' = open \cup {Session(s, u, "initial")}
    /\ UNCHANGED registered

Start(d) ==
    /\ d.stage = "initial"
    /\ open' = (open \ {d}) \cup {Session(d.session_id, d.username, "started")}
    /\ UNCHANGED <<used, registered>>

(* The user consents at ORCID, with an account that nobody has linked.     *)
Complete(d, a) ==
    /\ d.stage = "started"
    /\ a.by = d.username /\ a.orcid \notin LinkedOrcids /\ a \notin TokensInUse
    /\ open' = (open \ {d}) \cup {Completed(d.session_id, d.username, a)}
    /\ UNCHANGED <<used, registered>>

(* The user confirms: in one step the session is gone and the link there.  *)
Confirm(d) ==
    /\ d.stage = "completed" /\ ~Linked(d.username)
    /\ open' = open \ {d}
    /\ registered' = registered \cup {[username |-> d.username, orcid_auth |-> d.orcid_auth]}
    /\ UNCHANGED used

(* Sessions end without a link: cancelled, rejected, expired or removed.   *)
Discard(D) ==
    /\ open' = open \ D
    /\ UNCHANGED <<used, registered>>

(* New tokens of the same ORCID account.                                   *)
Renew(r, a) ==
    /\ a.by = r.username /\ a.orcid = r.orcid_auth.orcid /\ a \notin TokensInUse
    /\ registered' = (registered \ {r}) \cup {[r EXCEPT !.orcid_auth = a]}
    /\ UNCHANGED <<open, used>>

Unlink(r) ==
    /\ registered' = registered \ {r}
    /\ UNCHANGED <<open, used>>

-----------------------------------------------------------------------------

Init == open = {} /\ used = {} /\ registered = {}

Next ==
    \/ \E s \in SessionIds, u \in Users : Issue(s, u)
    \/ \E d \in open : Start(d) \/ Confirm(d) \/ \E a \in ORCIDAuth : Complete(d, a)
    \/ \E stage \in {"initial", "started", "completed"} :
          \E D \in SUBSET {d \in open : d.stage = stage} : Discard(D)
    \/ \E r \in registered : Unlink(r) \/ \E a \in ORCIDAuth : Renew(r, a)

Spec == Init /\ [][Next]_vars
=============================================================================
