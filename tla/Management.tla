----------------------------- MODULE Management -----------------------------
(***************************************************************************)
(* The management methods of jsonrpc/methods/manage.py that change state:  *)
(* the removal of expired linking sessions and of single ones.             *)
(***************************************************************************)
EXTENDS Requests, Storage, OrcidAuthority

CONSTANT PageSize   \* the cap of every to_list: 100 in the code

ASSUME ManagementAssumption == PageSize \in Nat \ {0}

-----------------------------------------------------------------------------
(* delete_expired_linking_sessions reads the clock, lists the sessions     *)
(* expired at that time, revokes the tokens of the completed ones, one by  *)
(* one, then has storage delete what is expired: storage reads the clock   *)
(* again, and deletes without listing.                                     *)

Page(S) ==
    {P \in SUBSET S : \/ P = S /\ Cardinality(S) <= PageSize
                      \/ Cardinality(P) = PageSize}

DeleteUnrevoked(w, auths) ==   \* a slip: the listed tokens are not revoked
    Goto(w, [pc |-> "cleanup_initial", at |-> now])

(* The next await, when the tokens of auths are still to be revoked.       *)
RevokeOrDelete(w, auths) ==
    IF auths # {}
    THEN Goto(w, [pc |-> "cleanup_revoke", auths |-> auths])
    ELSE Goto(w, [pc |-> "cleanup_initial", at |-> now])

DeleteExpired(w) ==
    /\ Accept(w, "delete_expired", [pc |-> "cleanup_list", at |-> now])
    /\ UNCHANGED <<now, storageVars, authorityVars>>

CleanupList(w) ==
    /\ At(w, "cleanup_list")
    /\ \E P \in Page(ExpiredCompleted(task[w].at)) :
        RevokeOrDelete(w, {c.orcid_auth : c \in P})
    /\ UNCHANGED <<now, storageVars, authorityVars>>

CleanupRevokeRepeated(w) ==   \* a slip: a revoked token stays on the list
    LET auths == task[w].auths IN
    /\ At(w, "cleanup_revoke")
    /\ \E auth \in auths :
        \/ RevokeAnswered(auth) /\ RevokeOrDelete(w, auths)
        \/ RevokeRaises(auth) /\ Answer(w)
    /\ UNCHANGED <<now, storageVars>>

(* A revocation that raises ends the request before anything is deleted.   *)
CleanupRevoke(w) ==
    LET auths == task[w].auths IN
    /\ At(w, "cleanup_revoke")
    /\ \E auth \in auths :
        \/ RevokeAnswered(auth) /\ RevokeOrDelete(w, auths \ {auth})
        \/ RevokeRaises(auth) /\ Answer(w)
    /\ UNCHANGED <<now, storageVars>>

CleanupInitial(w) ==
    /\ At(w, "cleanup_initial")
    /\ DeleteExpiredInitial(task[w].at)
    /\ Goto(w, [pc |-> "cleanup_started", at |-> task[w].at])
    /\ UNCHANGED <<now, links, started, completed, issued, authorityVars>>

CleanupStarted(w) ==
    /\ At(w, "cleanup_started")
    /\ DeleteExpiredStarted(task[w].at)
    /\ Goto(w, [pc |-> "cleanup_completed", at |-> task[w].at])
    /\ UNCHANGED <<now, links, initial, completed, issued, authorityVars>>

CleanupCompleted(w) ==
    /\ At(w, "cleanup_completed")
    /\ DeleteExpiredCompleted(task[w].at)
    /\ Answer(w)
    /\ UNCHANGED <<now, links, initial, started, issued, authorityVars>>

-----------------------------------------------------------------------------
(* A manager deletes one session, expired or not: one database command and *)
(* nothing else, so the request needs no slot.  A completed session's      *)
(* token is not revoked.                                                   *)

AdminDeleteInitial(s) ==
    /\ "admin_delete" \in Endpoints
    /\ Sessions(initial, s) # {}
    /\ DeleteInitial(s)
    /\ UNCHANGED <<requestVars, links, started, completed, issued, authorityVars>>

AdminDeleteStarted(s) ==
    /\ "admin_delete" \in Endpoints
    /\ Sessions(started, s) # {}
    /\ DeleteStarted(s)
    /\ UNCHANGED <<requestVars, links, initial, completed, issued, authorityVars>>

AdminDeleteCompleted(s) ==
    /\ "admin_delete" \in Endpoints
    /\ CompletedSessions(s) # {}
    /\ DeleteCompleted(s)
    /\ UNCHANGED <<requestVars, links, initial, started, issued, authorityVars>>

-----------------------------------------------------------------------------

AdminDelete ==
    \E s \in SessionIds :
        AdminDeleteInitial(s) \/ AdminDeleteStarted(s) \/ AdminDeleteCompleted(s)

ManagementStep(w) ==
    \/ CleanupList(w) \/ CleanupRevoke(w)
    \/ CleanupInitial(w) \/ CleanupStarted(w) \/ CleanupCompleted(w)
=============================================================================
