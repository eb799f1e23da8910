-------------------------- MODULE LinkingSessions --------------------------
(***************************************************************************)
(* The linking flow: jsonrpc/methods/linking_sessions.py (create, finish,  *)
(* cancel) and the two browser endpoints of routers/linking_sessions.py    *)
(* (start, continue).  Each handler is a chain of steps, one per await.    *)
(***************************************************************************)
EXTENDS Requests, Storage, OrcidAuthority

-----------------------------------------------------------------------------
(* create_linking_session: refuse a user who has a link, draw a fresh uuid *)
(* and store an initial session.                                           *)

NewSession(s, u) ==
    [session_id |-> s, username |-> u, expires_at |-> now + SessionLifetime]

Create(w, u) ==
    \E s \in SessionIds :
        /\ LinksOf(u) = {}
        /\ Sessions(issued, s) = {}
        /\ Accept(w, "create", [pc |-> "create_insert", session |-> NewSession(s, u)])
        /\ issued' = issued \cup {NewSession(s, u)}
        /\ UNCHANGED <<now, links, initial, started, completed, authorityVars>>

CreateInsert(w) ==
    /\ At(w, "create_insert")
    /\ InsertInitial(task[w].session)
    /\ Answer(w)
    /\ UNCHANGED <<now, links, started, completed, issued, authorityVars>>

-----------------------------------------------------------------------------
(* start_linking_session: the owner's browser moves the session to started *)
(* and is redirected to ORCID.  The move is update_linking_session_to_     *)
(* started: find, insert a copy, delete.  Whatever the move raises is      *)
(* caught and the redirect is sent all the same.                           *)

Start(w, u, s) ==
    /\ \E d \in Sessions(initial, s) : d.username = u
    /\ Accept(w, "start", [pc |-> "start_find", session_id |-> s])
    /\ UNCHANGED <<now, storageVars, authorityVars>>

RedirectToOrcid(w, s) ==
    /\ redirected' = redirected \cup {s}
    /\ Answer(w)
    /\ UNCHANGED <<live, minted, faults>>

StartFind(w) ==
    LET s == task[w].session_id IN
    /\ At(w, "start_find")
    /\ \/ \E d \in Sessions(initial, s) :
            /\ Goto(w, [pc |-> "start_insert", session |-> d])
            /\ UNCHANGED authorityVars
       \/ /\ Sessions(initial, s) = {}
          /\ RedirectToOrcid(w, s)
    /\ UNCHANGED <<now, storageVars>>

(* The insert fails when the session is started already, and when the      *)
(* collection's validator rejects an option the browser passed (a          *)
(* return_link under 14 characters, ui_options over 1000).                 *)
StartInsert(w) ==
    LET d == task[w].session IN
    /\ At(w, "start_insert")
    /\ \/ /\ CanInsertStarted(d)
          /\ InsertStarted(d)
          /\ Goto(w, [pc |-> "start_delete", session_id |-> d.session_id])
          /\ UNCHANGED authorityVars
       \/ /\ RedirectToOrcid(w, d.session_id)
          /\ UNCHANGED started
    /\ UNCHANGED <<now, links, initial, completed, issued>>

StartDelete(w) ==
    LET s == task[w].session_id IN
    /\ At(w, "start_delete")
    /\ DeleteInitial(s)
    /\ RedirectToOrcid(w, s)
    /\ UNCHANGED <<now, links, started, completed, issued>>

-----------------------------------------------------------------------------
(* linking_sessions_continue: ORCID sends the browser back with a code and *)
(* the session id it was redirected with.  That the browser was redirected *)
(* is what is assumed of it, the handler does not look.                    *)

ContinueUnowned(w, u, s) ==   \* a slip: the session's owner is not checked
    /\ s \in redirected
    /\ \E d \in Sessions(started, s) :
        Accept(w, "continue", [pc |-> "continue_exchange", session |-> d, username |-> u])
    /\ UNCHANGED <<now, storageVars, authorityVars>>

Continue(w, u, s) ==
    /\ s \in redirected
    /\ \E d \in Sessions(started, s) :
        /\ d.username = u
        /\ Accept(w, "continue",
                  [pc |-> "continue_exchange", session |-> d, username |-> u])
    /\ UNCHANGED <<now, storageVars, authorityVars>>

(* exchange_code_for_token, for whichever ORCID account the user signed in *)
(* with.  It raises when ORCID refuses, and when the answer is lost after  *)
(* ORCID granted the token.                                                *)
ContinueExchange(w) ==
    LET k == task[w] IN
    /\ At(w, "continue_exchange")
    /\ \/ \E o \in Orcids :
            /\ Grants(NewAuth(o, k.username), {})
            /\ \/ /\ Goto(w, [pc |-> "continue_check", session |-> k.session,
                              orcid_auth |-> NewAuth(o, k.username)])
                  /\ UNCHANGED faults
               \/ Answer(w) /\ SpendFault
       \/ Refuses /\ Answer(w)
    /\ UNCHANGED <<now, storageVars>>

(* Is the ORCID account linked already?                                    *)
ContinueCheck(w) ==
    LET k == task[w] IN
    /\ At(w, "continue_check")
    /\ IF LinksForOrcid(k.orcid_auth.orcid) # {}
       THEN Goto(w, [pc |-> "continue_reject", session_id |-> k.session.session_id])
       ELSE Goto(w, [k EXCEPT !.pc = "continue_find"])
    /\ UNCHANGED <<now, storageVars, authorityVars>>

(* AlreadyLinkedError: the session goes; the token just granted stays.     *)
ContinueReject(w) ==
    /\ At(w, "continue_reject")
    /\ DeleteStarted(task[w].session_id)
    /\ Answer(w)
    /\ UNCHANGED <<now, links, initial, completed, issued, authorityVars>>

(* update_linking_session_to_finished: find, insert a copy, delete.        *)
ContinueFind(w) ==
    LET k == task[w] IN
    /\ At(w, "continue_find")
    /\ \/ \E d \in Sessions(started, k.session.session_id) :
            Goto(w, [pc |-> "continue_insert",
                     doc |-> [session |-> d, orcid_auth |-> k.orcid_auth]])
       \/ /\ Sessions(started, k.session.session_id) = {}
          /\ Answer(w)
    /\ UNCHANGED <<now, storageVars, authorityVars>>

ContinueInsert(w) ==
    LET c == task[w].doc IN
    /\ At(w, "continue_insert")
    /\ IF CanInsertCompleted(c)
       THEN /\ InsertCompleted(c)
            /\ Goto(w, [pc |-> "continue_delete", session_id |-> c.session.session_id])
       ELSE Answer(w) /\ UNCHANGED completed
    /\ UNCHANGED <<now, links, initial, started, issued, authorityVars>>

ContinueDelete(w) ==
    /\ At(w, "continue_delete")
    /\ DeleteStarted(task[w].session_id)
    /\ Answer(w)
    /\ UNCHANGED <<now, links, initial, completed, issued, authorityVars>>

-----------------------------------------------------------------------------
(* finish_linking_session: the owner confirms; the link is inserted, then  *)
(* the completed session is deleted.  expires_at is not looked at.         *)

NewLinkV02(c) ==   \* a slip: a record without retires_at, as before v0.3
    [username |-> c.session.username, orcid_auth |-> c.orcid_auth]

NewLink(c) ==
    [username |-> c.session.username, orcid_auth |-> c.orcid_auth,
     retires_at |-> now + RetirementAge]

Finish(w, u, s) ==
    /\ \E c \in CompletedSessions(s) :
        /\ c.session.username = u
        /\ Accept(w, "finish",
                  [pc |-> "finish_insert", link |-> NewLink(c), session_id |-> s])
    /\ UNCHANGED <<now, storageVars, authorityVars>>

FinishInsert(w) ==
    LET k == task[w] IN
    /\ At(w, "finish_insert")
    /\ IF CanCreateLink(k.link)
       THEN /\ CreateLinkRecord(k.link)
            /\ Goto(w, [pc |-> "finish_delete", session_id |-> k.session_id])
       ELSE Answer(w) /\ UNCHANGED links
    /\ UNCHANGED <<now, initial, started, completed, issued, authorityVars>>

FinishDeleteStarted(w) ==   \* a slip: the wrong collection
    /\ At(w, "finish_delete")
    /\ DeleteStarted(task[w].session_id)
    /\ Answer(w)
    /\ UNCHANGED <<now, links, initial, completed, issued, authorityVars>>

FinishDelete(w) ==
    /\ At(w, "finish_delete")
    /\ DeleteCompleted(task[w].session_id)
    /\ Answer(w)
    /\ UNCHANGED <<now, links, initial, started, issued, authorityVars>>

-----------------------------------------------------------------------------
(* delete_linking_session: the owner cancels; the completed session is     *)
(* deleted first and its token revoked after.                              *)

Cancel(w, u, s) ==
    /\ \E c \in CompletedSessions(s) :
        /\ c.session.username = u
        /\ Accept(w, "cancel", [pc |-> "cancel_delete", doc |-> c])
    /\ UNCHANGED <<now, storageVars, authorityVars>>

CancelDelete(w) ==
    LET c == task[w].doc IN
    /\ At(w, "cancel_delete")
    /\ DeleteCompleted(c.session.session_id)
    /\ Goto(w, [pc |-> "cancel_revoke", orcid_auth |-> c.orcid_auth])
    /\ UNCHANGED <<now, links, initial, started, issued, authorityVars>>

CancelRevoke(w) ==
    LET auth == task[w].orcid_auth IN
    /\ At(w, "cancel_revoke")
    /\ RevokeAnswered(auth) \/ RevokeRaises(auth)
    /\ Answer(w)
    /\ UNCHANGED <<now, storageVars>>

-----------------------------------------------------------------------------

LinkingRequest(w) ==
    \/ \E u \in Users : Create(w, u)
    \/ \E u \in Users, s \in SessionIds :
        Start(w, u, s) \/ Continue(w, u, s) \/ Finish(w, u, s) \/ Cancel(w, u, s)

LinkingStep(w) ==
    \/ CreateInsert(w)
    \/ StartFind(w) \/ StartInsert(w) \/ StartDelete(w)
    \/ ContinueExchange(w) \/ ContinueCheck(w) \/ ContinueReject(w)
    \/ ContinueFind(w) \/ ContinueInsert(w) \/ ContinueDelete(w)
    \/ FinishInsert(w) \/ FinishDelete(w)
    \/ CancelDelete(w) \/ CancelRevoke(w)
=============================================================================
