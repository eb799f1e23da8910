--------------------------- MODULE OrcidLinkTypes ---------------------------
(***************************************************************************)
(* Type correctness of OrcidLink, for any number of users, sessions,       *)
(* requests in flight and failures.                                        *)
(***************************************************************************)
EXTENDS OrcidLink, TLAPS

-----------------------------------------------------------------------------
(* Facts about the operators that the actions are built from.              *)

(* What a suspended coroutine remembers, by the await it is suspended at.  *)
LEMMA Locals ==
    ASSUME NEW k \in Continuation
    PROVE  /\ k.pc \in {"create_insert", "start_insert", "continue_exchange", "continue_check",
                        "continue_find"} => k.session \in LinkingSession
           /\ k.pc \in {"start_find", "start_delete", "continue_reject", "continue_delete",
                        "finish_delete", "finish_insert"} => k.session_id \in SessionIds
           /\ k.pc \in {"continue_exchange", "unlink_revoke", "unlink_delete"} =>
                k.username \in Users
           /\ k.pc \in {"continue_check", "continue_find", "cancel_revoke", "unlink_revoke"} =>
                k.orcid_auth \in ORCIDAuth
           /\ k.pc \in {"continue_insert", "cancel_delete"} => k.doc \in LinkingSessionComplete
           /\ k.pc \in {"finish_insert", "refresh_call", "refresh_save"} => k.link \in LinkRecord
           /\ k.pc = "cleanup_revoke" => k.auths \subseteq ORCIDAuth
           /\ k.pc \in {"cleanup_list", "cleanup_initial", "cleanup_started",
                        "cleanup_completed"} => k.at \in Nat
BY DEF Continuation, Idle

(* A coroutine that suspends again or answers leaves a well-formed task.   *)
LEMMA GotoTyped ==
    ASSUME TypeOK, NEW w \in Workers, NEW k \in Continuation, Goto(w, k)
    PROVE  task' \in [Workers -> Continuation]
BY DEF TypeOK, Goto

(* So does a handler that returns or raises.                               *)
LEMMA AnswerTyped ==
    ASSUME TypeOK, NEW w \in Workers, Answer(w)
    PROVE  task' \in [Workers -> Continuation]
<1>1. Idle \in Continuation
  BY DEF Continuation
<1> QED
  BY <1>1 DEF TypeOK, Answer, Goto

(* The continuations the handlers build from typed locals.                 *)
LEMMA Continuations ==
    /\ \A d \in LinkingSession :
        /\ [pc |-> "create_insert", session |-> d] \in Continuation
        /\ [pc |-> "start_insert", session |-> d] \in Continuation
        /\ \A u \in Users :
            [pc |-> "continue_exchange", session |-> d, username |-> u] \in Continuation
        /\ \A auth \in ORCIDAuth :
            [pc |-> "continue_check", session |-> d, orcid_auth |-> auth] \in Continuation
    /\ \A s \in SessionIds :
        /\ [pc |-> "start_find", session_id |-> s] \in Continuation
        /\ [pc |-> "start_delete", session_id |-> s] \in Continuation
        /\ [pc |-> "continue_reject", session_id |-> s] \in Continuation
        /\ [pc |-> "continue_delete", session_id |-> s] \in Continuation
        /\ [pc |-> "finish_delete", session_id |-> s] \in Continuation
    /\ \A c \in LinkingSessionComplete :
        /\ [pc |-> "continue_insert", doc |-> c] \in Continuation
        /\ [pc |-> "cancel_delete", doc |-> c] \in Continuation
    /\ \A l \in LinkRecord :
        /\ [pc |-> "refresh_call", link |-> l] \in Continuation
        /\ [pc |-> "refresh_save", link |-> l] \in Continuation
        /\ \A s \in SessionIds :
            [pc |-> "finish_insert", link |-> l, session_id |-> s] \in Continuation
    /\ \A u \in Users :
        /\ [pc |-> "unlink_delete", username |-> u] \in Continuation
        /\ \A auth \in ORCIDAuth :
            [pc |-> "unlink_revoke", username |-> u, orcid_auth |-> auth] \in Continuation
    /\ \A auth \in ORCIDAuth : [pc |-> "cancel_revoke", orcid_auth |-> auth] \in Continuation
    /\ \A auths \in SUBSET ORCIDAuth :
        [pc |-> "cleanup_revoke", auths |-> auths] \in Continuation
    /\ \A at \in Nat :
        /\ [pc |-> "cleanup_list", at |-> at] \in Continuation
        /\ [pc |-> "cleanup_initial", at |-> at] \in Continuation
        /\ [pc |-> "cleanup_started", at |-> at] \in Continuation
        /\ [pc |-> "cleanup_completed", at |-> at] \in Continuation
BY DEF Continuation

(* The locals survive the check of continue unchanged.                     *)
LEMMA CheckedTyped ==
    ASSUME NEW k \in Continuation, k.pc = "continue_check"
    PROVE  [k EXCEPT !.pc = "continue_find"] \in Continuation
BY DEF Continuation, Idle

(* The documents and tokens that are made rather than read.                *)
LEMMA NewDocuments ==
    ASSUME TypeOK
    PROVE  /\ \A s \in SessionIds, u \in Users : NewSession(s, u) \in LinkingSession
           /\ \A c \in LinkingSessionComplete : NewLink(c) \in LinkRecord
           /\ \A o \in Orcids, u \in Users :
                minted < MaxTokens => NewAuth(o, u) \in ORCIDAuth
           /\ \A l \in LinkRecord :
                minted < MaxTokens => /\ RefreshedLink(l).orcid_auth \in ORCIDAuth
                                      /\ RefreshedLink(l) \in LinkRecord
           /\ \A l \in LinkRecord : [l EXCEPT !.retires_at = now + RetirementAge] \in LinkRecord
BY EntitiesAssumption
   DEF TypeOK, AuthorityTypeOK, NewSession, NewLink, NewAuth, RefreshedLink, LinkingSession,
       LinkingSessionComplete, LinkRecord, ORCIDAuth

(* Whatever ORCID answers or fails to answer, its own state stays typed.   *)
LEMMA AuthorityTyped ==
    ASSUME TypeOK
    PROVE  /\ SpendFault => faults' \in 0..MaxFaults
           /\ \A auth \in ORCIDAuth : \A R :
                Grants(auth, R) => /\ live' \subseteq ORCIDAuth
                                   /\ minted' \in 0..MaxTokens
                                   /\ redirected' \subseteq SessionIds
           /\ Refuses => AuthorityTypeOK'
           /\ \A auth : RevokeAnswered(auth) \/ RevokeRaises(auth) => AuthorityTypeOK'
           /\ UNCHANGED authorityVars => AuthorityTypeOK'
BY EntitiesAssumption, AuthorityAssumption
   DEF TypeOK, AuthorityTypeOK, authorityVars, SpendFault, Grants, Refuses, RevokeAnswered,
       RevokeRaises, Revokes, RevocationSilentlyFails

-----------------------------------------------------------------------------

(* The linking flow.                                                       *)
LEMMA LinkingTyped ==
    ASSUME TypeOK, NEW w \in Workers, LinkingRequest(w) \/ LinkingStep(w)
    PROVE  TypeOK'
<1> USE DEF At, requestVars
<1>0. task[w] \in Continuation
  BY DEF TypeOK
<1> DEFINE k == task[w]
<1>1. ASSUME NEW u \in Users, Create(w, u) PROVE TypeOK'
  <2>1. PICK s \in SessionIds :
           /\ Accept(w, "create", [pc |-> "create_insert", session |-> NewSession(s, u)])
           /\ issued' = issued \cup {NewSession(s, u)}
           /\ UNCHANGED <<now, links, initial, started, completed, authorityVars>>
    BY <1>1 DEF Create
  <2>2. NewSession(s, u) \in LinkingSession
    BY NewDocuments
  <2>3. task' \in [Workers -> Continuation]
    BY <2>1, <2>2, GotoTyped, Continuations DEF Accept
  <2> QED
    BY <2>1, <2>2, <2>3, AuthorityTyped DEF TypeOK, StorageTypeOK
<1>2. CASE CreateInsert(w)
  <2>1. k.session \in LinkingSession
    BY <1>0, <1>2, Locals DEF CreateInsert
  <2> QED
    BY <1>2, <2>1, AnswerTyped, AuthorityTyped
       DEF CreateInsert, InsertInitial, TypeOK, StorageTypeOK
<1>3. ASSUME NEW u \in Users, NEW s \in SessionIds, Start(w, u, s) PROVE TypeOK'
  <2>1. task' \in [Workers -> Continuation]
    BY <1>3, GotoTyped, Continuations DEF Start, Accept
  <2> QED
    BY <1>3, <2>1, AuthorityTyped DEF Start, TypeOK, StorageTypeOK, storageVars
<1>4. CASE StartFind(w)
  <2>1. k.session_id \in SessionIds
    BY <1>0, <1>4, Locals DEF StartFind
  <2>2. task' \in [Workers -> Continuation]
    <3>1. \/ \E d \in initial : Goto(w, [pc |-> "start_insert", session |-> d])
          \/ Answer(w)
      BY <1>4 DEF StartFind, RedirectToOrcid, Sessions
    <3> QED
      BY <3>1, GotoTyped, AnswerTyped, Continuations DEF TypeOK, StorageTypeOK
  <2>3. AuthorityTypeOK'
    BY <1>4, <2>1, AuthorityTyped DEF StartFind, RedirectToOrcid, TypeOK, AuthorityTypeOK
  <2> QED
    BY <1>4, <2>2, <2>3 DEF StartFind, TypeOK, StorageTypeOK, storageVars
<1>5. CASE StartInsert(w)
  <2>1. k.session \in LinkingSession /\ k.session.session_id \in SessionIds
    BY <1>0, <1>5, Locals DEF StartInsert, LinkingSession
  <2>2. task' \in [Workers -> Continuation]
    <3>1. \/ Goto(w, [pc |-> "start_delete", session_id |-> k.session.session_id])
          \/ Answer(w)
      BY <1>5 DEF StartInsert, RedirectToOrcid
    <3> QED
      BY <2>1, <3>1, GotoTyped, AnswerTyped, Continuations
  <2>3. AuthorityTypeOK'
    BY <1>5, <2>1, AuthorityTyped DEF StartInsert, RedirectToOrcid, TypeOK, AuthorityTypeOK
  <2> QED
    BY <1>5, <2>1, <2>2, <2>3 DEF StartInsert, InsertStarted, TypeOK, StorageTypeOK
<1>6. CASE StartDelete(w)
  <2>1. k.session_id \in SessionIds
    BY <1>0, <1>6, Locals DEF StartDelete
  <2>2. AuthorityTypeOK'
    BY <1>6, <2>1 DEF StartDelete, RedirectToOrcid, TypeOK, AuthorityTypeOK
  <2> QED
    BY <1>6, <2>2, AnswerTyped
       DEF StartDelete, RedirectToOrcid, DeleteInitial, TypeOK, StorageTypeOK
<1>7. ASSUME NEW u \in Users, NEW s \in SessionIds, Continue(w, u, s) PROVE TypeOK'
  <2>1. PICK d \in started :
          Accept(w, "continue", [pc |-> "continue_exchange", session |-> d, username |-> u])
    BY <1>7 DEF Continue, Sessions
  <2>2. d \in LinkingSession
    BY <2>1 DEF TypeOK, StorageTypeOK
  <2>3. task' \in [Workers -> Continuation]
    BY <2>1, <2>2, GotoTyped, Continuations DEF Accept
  <2> QED
    BY <1>7, <2>3, AuthorityTyped DEF Continue, TypeOK, StorageTypeOK, storageVars
<1>8. CASE ContinueExchange(w)
  <2>1. k.session \in LinkingSession /\ k.username \in Users
    BY <1>0, <1>8, Locals DEF ContinueExchange
  <2>2. CASE Refuses /\ Answer(w)
    BY <1>8, <2>2, AnswerTyped, AuthorityTyped
       DEF ContinueExchange, TypeOK, StorageTypeOK, storageVars
  <2>3. ASSUME NEW o \in Orcids,
               Grants(NewAuth(o, k.username), {}),
               \/ /\ Goto(w, [pc |-> "continue_check", session |-> k.session,
                              orcid_auth |-> NewAuth(o, k.username)])
                  /\ UNCHANGED faults
               \/ Answer(w) /\ SpendFault
        PROVE  TypeOK'
    <3>1. NewAuth(o, k.username) \in ORCIDAuth
      BY <2>1, <2>3, NewDocuments DEF Grants
    <3>2. task' \in [Workers -> Continuation]
      BY <2>1, <2>3, <3>1, GotoTyped, AnswerTyped, Continuations
    <3>3. AuthorityTypeOK'
      BY <2>3, <3>1, AuthorityTyped DEF TypeOK, AuthorityTypeOK
    <3> QED
      BY <1>8, <3>2, <3>3 DEF ContinueExchange, TypeOK, StorageTypeOK, storageVars
  <2> QED
    BY <1>8, <2>2, <2>3 DEF ContinueExchange
<1>9. CASE ContinueCheck(w)
  <2>1. /\ k.session.session_id \in SessionIds
        /\ [k EXCEPT !.pc = "continue_find"] \in Continuation
    BY <1>0, <1>9, Locals, CheckedTyped DEF ContinueCheck, LinkingSession
  <2>2. \/ Goto(w, [pc |-> "continue_reject", session_id |-> k.session.session_id])
        \/ Goto(w, [k EXCEPT !.pc = "continue_find"])
    BY <1>9 DEF ContinueCheck
  <2>3. task' \in [Workers -> Continuation]
    BY <2>1, <2>2, GotoTyped, Continuations
  <2> QED
    BY <1>9, <2>3, AuthorityTyped DEF ContinueCheck, TypeOK, StorageTypeOK, storageVars
<1>10. CASE ContinueReject(w)
  BY <1>10, AnswerTyped, AuthorityTyped
     DEF ContinueReject, DeleteStarted, TypeOK, StorageTypeOK
<1>11. CASE ContinueFind(w)
  <2>1. k.orcid_auth \in ORCIDAuth
    BY <1>0, <1>11, Locals DEF ContinueFind
  <2>2. CASE Answer(w)
    BY <1>11, <2>2, AnswerTyped, AuthorityTyped
       DEF ContinueFind, TypeOK, StorageTypeOK, storageVars
  <2>3. ASSUME NEW d \in started,
               Goto(w, [pc |-> "continue_insert",
                        doc |-> [session |-> d, orcid_auth |-> k.orcid_auth]])
        PROVE  TypeOK'
    <3>1. [session |-> d, orcid_auth |-> k.orcid_auth] \in LinkingSessionComplete
      BY <2>1, <2>3 DEF LinkingSessionComplete, TypeOK, StorageTypeOK
    <3>2. task' \in [Workers -> Continuation]
      BY <2>3, <3>1, GotoTyped, Continuations
    <3> QED
      BY <1>11, <3>2, AuthorityTyped DEF ContinueFind, TypeOK, StorageTypeOK, storageVars
  <2> QED
    BY <1>11, <2>2, <2>3 DEF ContinueFind, Sessions
<1>12. CASE ContinueInsert(w)
  <2>1. k.doc \in LinkingSessionComplete /\ k.doc.session.session_id \in SessionIds
    BY <1>0, <1>12, Locals DEF ContinueInsert, LinkingSessionComplete, LinkingSession
  <2>2. \/ Goto(w, [pc |-> "continue_delete", session_id |-> k.doc.session.session_id])
        \/ Answer(w)
    BY <1>12 DEF ContinueInsert
  <2>3. task' \in [Workers -> Continuation]
    BY <2>1, <2>2, GotoTyped, AnswerTyped, Continuations
  <2> QED
    BY <1>12, <2>1, <2>3, AuthorityTyped
       DEF ContinueInsert, InsertCompleted, TypeOK, StorageTypeOK
<1>13. CASE ContinueDelete(w)
  BY <1>13, AnswerTyped, AuthorityTyped
     DEF ContinueDelete, DeleteStarted, TypeOK, StorageTypeOK
<1>14. ASSUME NEW u \in Users, NEW s \in SessionIds, Finish(w, u, s) PROVE TypeOK'
  <2>1. PICK c \in completed :
          Accept(w, "finish", [pc |-> "finish_insert", link |-> NewLink(c), session_id |-> s])
    BY <1>14 DEF Finish, CompletedSessions
  <2>2. NewLink(c) \in LinkRecord
    BY <2>1, NewDocuments DEF TypeOK, StorageTypeOK
  <2>3. task' \in [Workers -> Continuation]
    BY <2>1, <2>2, GotoTyped, Continuations DEF Accept
  <2> QED
    BY <1>14, <2>3, AuthorityTyped DEF Finish, TypeOK, StorageTypeOK, storageVars
<1>15. CASE FinishInsert(w)
  <2>1. k.link \in LinkRecord /\ k.session_id \in SessionIds
    BY <1>0, <1>15, Locals DEF FinishInsert
  <2>2. Goto(w, [pc |-> "finish_delete", session_id |-> k.session_id]) \/ Answer(w)
    BY <1>15 DEF FinishInsert
  <2>3. task' \in [Workers -> Continuation]
    BY <2>1, <2>2, GotoTyped, AnswerTyped, Continuations
  <2> QED
    BY <1>15, <2>1, <2>3, AuthorityTyped
       DEF FinishInsert, CreateLinkRecord, TypeOK, StorageTypeOK
<1>16. CASE FinishDelete(w)
  BY <1>16, AnswerTyped, AuthorityTyped
     DEF FinishDelete, DeleteCompleted, TypeOK, StorageTypeOK
<1>17. ASSUME NEW u \in Users, NEW s \in SessionIds, Cancel(w, u, s) PROVE TypeOK'
  <2>1. PICK c \in completed : Accept(w, "cancel", [pc |-> "cancel_delete", doc |-> c])
    BY <1>17 DEF Cancel, CompletedSessions
  <2>2. c \in LinkingSessionComplete
    BY <2>1 DEF TypeOK, StorageTypeOK
  <2>3. task' \in [Workers -> Continuation]
    BY <2>1, <2>2, GotoTyped, Continuations DEF Accept
  <2> QED
    BY <1>17, <2>3, AuthorityTyped DEF Cancel, TypeOK, StorageTypeOK, storageVars
<1>18. CASE CancelDelete(w)
  <2>1. k.doc.orcid_auth \in ORCIDAuth
    BY <1>0, <1>18, Locals DEF CancelDelete, LinkingSessionComplete
  <2>2. task' \in [Workers -> Continuation]
    BY <1>18, <2>1, GotoTyped, Continuations DEF CancelDelete
  <2> QED
    BY <1>18, <2>2, AuthorityTyped DEF CancelDelete, DeleteCompleted, TypeOK, StorageTypeOK
<1>19. CASE CancelRevoke(w)
  BY <1>19, AnswerTyped, AuthorityTyped DEF CancelRevoke, TypeOK, StorageTypeOK, storageVars
<1> QED
  BY <1>1, <1>2, <1>3, <1>4, <1>5, <1>6, <1>7, <1>8, <1>9, <1>10, <1>11, <1>12, <1>13, <1>14,
     <1>15, <1>16, <1>17, <1>18, <1>19
  DEF LinkingRequest, LinkingStep

(* Removal and renewal of links.                                           *)
LEMMA LinkTyped ==
    ASSUME TypeOK, NEW w \in Workers, LinkRequest(w) \/ LinkStep(w)
    PROVE  TypeOK'
<1> USE DEF At
<1>0. task[w] \in Continuation
  BY DEF TypeOK
<1> DEFINE k == task[w]
<1>1. ASSUME NEW u \in Users, Unlink(w, u) PROVE TypeOK'
  <2>1. PICK l \in links :
          Accept(w, "unlink",
                 [pc |-> "unlink_revoke", username |-> u, orcid_auth |-> l.orcid_auth])
    BY <1>1 DEF Unlink, LinksOf
  <2>2. l.orcid_auth \in ORCIDAuth
    BY <2>1 DEF TypeOK, StorageTypeOK, LinkRecord
  <2>3. task' \in [Workers -> Continuation]
    BY <2>1, <2>2, GotoTyped, Continuations DEF Accept
  <2> QED
    BY <1>1, <2>3, AuthorityTyped DEF Unlink, TypeOK, StorageTypeOK, storageVars
<1>2. CASE UnlinkRevoke(w)
  <2>1. k.username \in Users /\ k.orcid_auth \in ORCIDAuth
    BY <1>0, <1>2, Locals DEF UnlinkRevoke
  <2>2. Goto(w, [pc |-> "unlink_delete", username |-> k.username]) \/ Answer(w)
    BY <1>2 DEF UnlinkRevoke
  <2>3. task' \in [Workers -> Continuation]
    BY <2>1, <2>2, GotoTyped, AnswerTyped, Continuations
  <2> QED
    BY <1>2, <2>3, AuthorityTyped DEF UnlinkRevoke, TypeOK, StorageTypeOK, storageVars
<1>3. CASE UnlinkDelete(w)
  BY <1>3, AnswerTyped, AuthorityTyped
     DEF UnlinkDelete, DeleteLinkRecord, TypeOK, StorageTypeOK
<1>4. ASSUME NEW u \in Users, UseLink(w, u) PROVE TypeOK'
  <2>1. PICK l \in links :
          Accept(w, "use", [pc |-> "refresh_call",
                            link |-> [l EXCEPT !.retires_at = now + RetirementAge]])
    BY <1>4 DEF UseLink, LinksOf
  <2>2. [l EXCEPT !.retires_at = now + RetirementAge] \in LinkRecord
    BY <2>1, NewDocuments DEF TypeOK, StorageTypeOK
  <2>3. task' \in [Workers -> Continuation]
    BY <2>1, <2>2, GotoTyped, Continuations DEF Accept
  <2> QED
    BY <1>4, <2>3, AuthorityTyped DEF UseLink, TypeOK, StorageTypeOK, storageVars
<1>5. ASSUME NEW u \in Users, RefreshTokens(w, u) PROVE TypeOK'
  <2>1. PICK l \in links : Accept(w, "refresh_tokens", [pc |-> "refresh_call", link |-> l])
    BY <1>5 DEF RefreshTokens, LinksOf
  <2>2. l \in LinkRecord
    BY <2>1 DEF TypeOK, StorageTypeOK
  <2>3. task' \in [Workers -> Continuation]
    BY <2>1, <2>2, GotoTyped, Continuations DEF Accept
  <2> QED
    BY <1>5, <2>3, AuthorityTyped DEF RefreshTokens, TypeOK, StorageTypeOK, storageVars
<1>6. CASE RefreshCall(w)
  <2>1. k.link \in LinkRecord
    BY <1>0, <1>6, Locals DEF RefreshCall
  <2>2. CASE Answer(w) /\ (UNCHANGED authorityVars \/ Refuses)
    BY <1>6, <2>2, AnswerTyped, AuthorityTyped
       DEF RefreshCall, TypeOK, StorageTypeOK, storageVars
  <2>3. CASE /\ Grants(RefreshedLink(k.link).orcid_auth, {k.link.orcid_auth})
             /\ \/ /\ Goto(w, [pc |-> "refresh_save", link |-> RefreshedLink(k.link)])
                   /\ UNCHANGED faults
                \/ Answer(w) /\ SpendFault
    <3>1. /\ RefreshedLink(k.link) \in LinkRecord
          /\ RefreshedLink(k.link).orcid_auth \in ORCIDAuth
      BY <2>1, <2>3, NewDocuments DEF Grants
    <3>2. task' \in [Workers -> Continuation]
      BY <2>3, <3>1, GotoTyped, AnswerTyped, Continuations
    <3>3. AuthorityTypeOK'
      BY <2>3, <3>1, AuthorityTyped DEF TypeOK, AuthorityTypeOK
    <3> QED
      BY <1>6, <3>2, <3>3 DEF RefreshCall, TypeOK, StorageTypeOK, storageVars
  <2> QED
    BY <1>6, <2>2, <2>3 DEF RefreshCall
<1>7. CASE RefreshSave(w)
  <2>1. k.link \in LinkRecord
    BY <1>0, <1>7, Locals DEF RefreshSave
  <2>2. links' \subseteq LinkRecord
    BY <1>7, <2>1 DEF RefreshSave, SaveLinkRecord, TypeOK, StorageTypeOK
  <2> QED
    BY <1>7, <2>2, AnswerTyped, AuthorityTyped DEF RefreshSave, TypeOK, StorageTypeOK
<1> QED
  BY <1>1, <1>2, <1>3, <1>4, <1>5, <1>6, <1>7 DEF LinkRequest, LinkStep

(* The removal of expired sessions.                                        *)
LEMMA ManagementTyped ==
    ASSUME TypeOK, NEW w \in Workers, DeleteExpired(w) \/ ManagementStep(w)
    PROVE  TypeOK'
<1> USE DEF At
<1>0. task[w] \in Continuation /\ now \in Nat
  BY EntitiesAssumption DEF TypeOK
<1> DEFINE k == task[w]
<1>1. ASSUME NEW auths \in SUBSET ORCIDAuth, RevokeOrDelete(w, auths)
      PROVE  task' \in [Workers -> Continuation]
  BY <1>0, <1>1, GotoTyped, Continuations DEF RevokeOrDelete
<1>2. CASE DeleteExpired(w)
  <2>1. task' \in [Workers -> Continuation]
    BY <1>0, <1>2, GotoTyped, Continuations DEF DeleteExpired, Accept
  <2> QED
    BY <1>2, <2>1, AuthorityTyped DEF DeleteExpired, TypeOK, StorageTypeOK, storageVars
<1>3. CASE CleanupList(w)
  <2>1. PICK P \in Page(ExpiredCompleted(k.at)) : RevokeOrDelete(w, {c.orcid_auth : c \in P})
    BY <1>3 DEF CleanupList
  <2>2. P \subseteq completed
    BY <2>1 DEF Page, ExpiredCompleted
  <2>3. {c.orcid_auth : c \in P} \subseteq ORCIDAuth
    BY <2>2 DEF TypeOK, StorageTypeOK, LinkingSessionComplete
  <2>4. task' \in [Workers -> Continuation]
    BY <2>1, <2>3, <1>1
  <2> QED
    BY <1>3, <2>4, AuthorityTyped DEF CleanupList, TypeOK, StorageTypeOK, storageVars
<1>4. CASE CleanupRevoke(w)
  <2>1. k.auths \subseteq ORCIDAuth
    BY <1>0, <1>4, Locals DEF CleanupRevoke
  <2>2. PICK auth \in k.auths :
          \/ RevokeAnswered(auth) /\ RevokeOrDelete(w, k.auths \ {auth})
          \/ RevokeRaises(auth) /\ Answer(w)
    BY <1>4 DEF CleanupRevoke
  <2>3. k.auths \ {auth} \in SUBSET ORCIDAuth
    BY <2>1
  <2>4. task' \in [Workers -> Continuation]
    BY <2>2, <2>3, <1>1, AnswerTyped
  <2>5. AuthorityTypeOK'
    BY <2>2, AuthorityTyped
  <2> QED
    BY <1>4, <2>4, <2>5 DEF CleanupRevoke, TypeOK, StorageTypeOK, storageVars
<1>5. CASE CleanupInitial(w)
  <2>1. k.at \in Nat
    BY <1>0, <1>5, Locals DEF CleanupInitial
  <2>2. task' \in [Workers -> Continuation]
    BY <1>5, <2>1, GotoTyped, Continuations DEF CleanupInitial
  <2> QED
    BY <1>5, <2>2, AuthorityTyped
       DEF CleanupInitial, DeleteExpiredInitial, TypeOK, StorageTypeOK
<1>6. CASE CleanupStarted(w)
  <2>1. k.at \in Nat
    BY <1>0, <1>6, Locals DEF CleanupStarted
  <2>2. task' \in [Workers -> Continuation]
    BY <1>6, <2>1, GotoTyped, Continuations DEF CleanupStarted
  <2> QED
    BY <1>6, <2>2, AuthorityTyped
       DEF CleanupStarted, DeleteExpiredStarted, TypeOK, StorageTypeOK
<1>7. CASE CleanupCompleted(w)
  BY <1>7, AnswerTyped, AuthorityTyped
     DEF CleanupCompleted, DeleteExpiredCompleted, TypeOK, StorageTypeOK
<1> QED
  BY <1>2, <1>3, <1>4, <1>5, <1>6, <1>7 DEF ManagementStep

(* Every action keeps the types, and so does a step that changes nothing.  *)
LEMMA TypeStep ==
    ASSUME TypeOK, [Next]_vars
    PROVE  TypeOK'
<1>1. ASSUME NEW w \in Workers, Request(w) \/ Step(w) PROVE TypeOK'
  BY <1>1, LinkingTyped, LinkTyped, ManagementTyped DEF Request, Step
<1>2. CASE AdminDelete
  <2>1. PICK s \in SessionIds :
          AdminDeleteInitial(s) \/ AdminDeleteStarted(s) \/ AdminDeleteCompleted(s)
    BY <1>2 DEF AdminDelete
  <2> QED
    BY <2>1, AuthorityTyped
       DEF AdminDeleteInitial, AdminDeleteStarted, AdminDeleteCompleted, DeleteInitial,
           DeleteStarted, DeleteCompleted, requestVars, TypeOK, StorageTypeOK
<1>3. CASE Tick
  BY <1>3, EntitiesAssumption, AuthorityTyped DEF Tick, TypeOK, StorageTypeOK, storageVars
<1>4. CASE Crash
  <2>1. task' \in [Workers -> Continuation]
    BY <1>4 DEF Crash, Continuation
  <2> QED
    BY <1>4, <2>1, AuthorityTyped
       DEF Crash, TypeOK, StorageTypeOK, AuthorityTypeOK, storageVars
<1>5. CASE OrcidWithdraws
  BY <1>5, AuthorityTyped
     DEF OrcidWithdraws, TypeOK, StorageTypeOK, AuthorityTypeOK, storageVars, requestVars
<1>6. CASE UNCHANGED vars
  BY <1>6, AuthorityTyped DEF vars, requestVars, storageVars, TypeOK, StorageTypeOK
<1> QED
  BY <1>1, <1>2, <1>3, <1>4, <1>5, <1>6 DEF Next

(* In every reachable state the stored documents, the locals of every      *)
(* suspended handler, the tokens and the clock have the shape the code     *)
(* gives them, however the handlers of process.py, linking_sessions.py and *)
(* manage.py interleave and wherever ORCID or the process fails.           *)
THEOREM TypeCorrect == Spec => []TypeOK
<1>1. Init => TypeOK
  BY EntitiesAssumption, AuthorityAssumption
     DEF Init, RequestsInit, StorageInit, AuthorityInit, TypeOK, StorageTypeOK,
         AuthorityTypeOK, Continuation
<1>2. TypeOK /\ [Next]_vars => TypeOK'
  BY TypeStep
<1> QED
  BY <1>1, <1>2, PTL DEF Spec
=============================================================================
