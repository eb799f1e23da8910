------------------------------ MODULE MCWorks -------------------------------
(***************************************************************************)
(* An instance of Works for TLC: two users, each with an account, of whom  *)
(* the second hides the name; or the first alone, with an account whose    *)
(* iD ends in an X and where another program has written a work.           *)
(***************************************************************************)
EXTENDS Works, TLC

CONSTANTS u1, u2, o1, o2, o3

LinkOf(u, o, n, t) ==
    [username |-> u, orcid_auth |-> [token |-> n, orcid |-> o, by |-> u], retires_at |-> t]

MCEstablished ==
    {{LinkOf(u1, o1, 1, 1), LinkOf(u2, o2, 2, 0)}, {LinkOf(u1, o3, 1, 0)}}

(* Works that can be shown, and some of which nothing can be, the requests *)
(* create themselves.                                                      *)
MCPresent == {{[code |-> 0, orcid |-> o3, ours |-> FALSE, shows |-> "summary"]}}

Slots == Permutations(Workers)   \* no definition tells two slots apart
=============================================================================
