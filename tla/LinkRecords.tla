---------------------------- MODULE LinkRecords ----------------------------
(***************************************************************************)
(* What happens to a link once it exists: removal (delete_own_link,        *)
(* delete_link) and the renewal of its tokens, by whoever looks at a       *)
(* retired link (process.link_record_for_user) or by a manager             *)
(* (manage.refresh_tokens).                                                *)
(***************************************************************************)
EXTENDS Requests, Storage, OrcidAuthority

-----------------------------------------------------------------------------
(* The owner or a manager removes a link: read, revoke, delete.            *)

Unlink(w, u) ==
    /\ \E l \in LinksOf(u) :
        Accept(w, "unlink",
               [pc |-> "unlink_revoke", username |-> u, orcid_auth |-> l.orcid_auth])
    /\ UNCHANGED <<now, storageVars, authorityVars>>

UnlinkRevoke(w) ==
    LET k == task[w] IN
    /\ At(w, "unlink_revoke")
    /\ \/ /\ RevokeAnswered(k.orcid_auth)
          /\ Goto(w, [pc |-> "unlink_delete", username |-> k.username])
       \/ RevokeRaises(k.orcid_auth) /\ Answer(w)
    /\ UNCHANGED <<now, storageVars>>

UnlinkDelete(w) ==
    /\ At(w, "unlink_delete")
    /\ DeleteLinkRecord(task[w].username)
    /\ Answer(w)
    /\ UNCHANGED <<now, initial, started, completed, issued, authorityVars>>

-----------------------------------------------------------------------------
(* Renewal: read the record, rotate its tokens, save the record.  The      *)
(* coroutine holds the record as it was read; "link" is that record as it  *)
(* will be saved but for the tokens.                                       *)

Retired(l) == l.retires_at < now

(* is_linked, owner_link, other_link, get_orcid_profile and the works      *)
(* methods.  A link that is not retired is only read.                      *)
UseLink(w, u) ==
    /\ \E l \in LinksOf(u) :
        /\ Retired(l)
        /\ Accept(w, "use", [pc |-> "refresh_call",
                             link |-> [l EXCEPT !.retires_at = now + RetirementAge]])
    /\ UNCHANGED <<now, storageVars, authorityVars>>

(* The manager's call renews any link, and keeps retires_at as it is.      *)
RefreshTokens(w, u) ==
    /\ \E l \in LinksOf(u) :
        Accept(w, "refresh_tokens", [pc |-> "refresh_call", link |-> l])
    /\ UNCHANGED <<now, storageVars, authorityVars>>

RefreshedLink(l) == [l EXCEPT !.orcid_auth = NewAuth(@.orcid, @.by)]

(* ORCID rotates tokens it honours and refuses others; the answer may be   *)
(* lost after the rotation.                                                *)
RefreshCall(w) ==
    LET l == task[w].link IN
    /\ At(w, "refresh_call")
    /\ \/ /\ l.orcid_auth \in live
          /\ Grants(RefreshedLink(l).orcid_auth, {l.orcid_auth})
          /\ \/ /\ Goto(w, [pc |-> "refresh_save", link |-> RefreshedLink(l)])
                /\ UNCHANGED faults
             \/ Answer(w) /\ SpendFault
       \/ /\ l.orcid_auth \notin live
          /\ Answer(w)
          /\ UNCHANGED authorityVars
       \/ Refuses /\ Answer(w)
    /\ UNCHANGED <<now, storageVars>>

RefreshSave(w) ==
    /\ At(w, "refresh_save")
    /\ SaveLinkRecord(task[w].link)
    /\ Answer(w)
    /\ UNCHANGED <<now, initial, started, completed, issued, authorityVars>>

-----------------------------------------------------------------------------

LinkRequest(w) == \E u \in Users : Unlink(w, u) \/ UseLink(w, u) \/ RefreshTokens(w, u)

LinkStep(w) ==
    \/ UnlinkRevoke(w) \/ UnlinkDelete(w)
    \/ RefreshCall(w) \/ RefreshSave(w)
=============================================================================
