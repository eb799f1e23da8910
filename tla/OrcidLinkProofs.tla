-------------------------- MODULE OrcidLinkProofs ---------------------------
(***************************************************************************)
(* Sessions keep their terms and tokens stay with their owner, for any     *)
(* number of users, sessions, requests in flight and failures.             *)
(***************************************************************************)
EXTENDS OrcidLinkTypes

-----------------------------------------------------------------------------
(* Sessions keep their owner and expiry.                                   *)

(* Every session slot w can see: the stored ones and its own local.        *)
Seen(w) == initial \cup started \cup {c.session : c \in completed} \cup TaskSessions(task[w])

(* What a step of slot w does with sessions, whichever step it is: it      *)
(* remembers and stores none but those it could see.                       *)
RemembersSeen(w) == \E k : Goto(w, k) /\ TaskSessions(k) \subseteq Seen(w)

MovesSeen(w) ==
    /\ issued' = issued
    /\ initial' \subseteq Seen(w)
    /\ started' \subseteq Seen(w)
    /\ \A c \in completed' : c.session \in Seen(w)
    /\ RemembersSeen(w)

(* Moving sessions about keeps their terms.                                *)
LEMMA MovesKeepTerms ==
    ASSUME TypeOK, SessionTermsFixed, NEW w \in Workers, MovesSeen(w)
    PROVE  SessionTermsFixed'
<1>1. Seen(w) \subseteq issued
  BY DEF SessionTermsFixed, Seen
<1>2. PICK k : Goto(w, k) /\ TaskSessions(k) \subseteq issued
  BY <1>1 DEF MovesSeen, RemembersSeen
<1>3. \A v \in Workers : task'[v] = IF v = w THEN k ELSE task[v]
  BY <1>2 DEF Goto, TypeOK
<1>4. \A v \in Workers : TaskSessions(task'[v]) \subseteq issued
  BY <1>2, <1>3 DEF SessionTermsFixed
<1> QED
  BY <1>1, <1>4 DEF MovesSeen, SessionTermsFixed

(* The sessions in the continuations the handlers build.                   *)
LEMMA SessionsOf ==
    /\ TaskSessions(Idle) = {}
    /\ \A d :
        /\ TaskSessions([pc |-> "start_insert", session |-> d]) = {d}
        /\ \A u : TaskSessions([pc |-> "continue_exchange", session |-> d, username |-> u]) = {d}
        /\ \A a : TaskSessions([pc |-> "continue_check", session |-> d, orcid_auth |-> a]) = {d}
    /\ \A c :
        /\ TaskSessions([pc |-> "continue_insert", doc |-> c]) = {c.session}
        /\ TaskSessions([pc |-> "cancel_delete", doc |-> c]) = {c.session}
    /\ \A s :
        /\ TaskSessions([pc |-> "start_find", session_id |-> s]) = {}
        /\ TaskSessions([pc |-> "start_delete", session_id |-> s]) = {}
        /\ TaskSessions([pc |-> "continue_reject", session_id |-> s]) = {}
        /\ TaskSessions([pc |-> "continue_delete", session_id |-> s]) = {}
        /\ TaskSessions([pc |-> "finish_delete", session_id |-> s]) = {}
        /\ \A l : TaskSessions([pc |-> "finish_insert", link |-> l, session_id |-> s]) = {}
    /\ \A l :
        /\ TaskSessions([pc |-> "refresh_call", link |-> l]) = {}
        /\ TaskSessions([pc |-> "refresh_save", link |-> l]) = {}
    /\ \A u :
        /\ TaskSessions([pc |-> "unlink_delete", username |-> u]) = {}
        /\ \A a : TaskSessions([pc |-> "unlink_revoke", username |-> u, orcid_auth |-> a]) = {}
    /\ \A a : TaskSessions([pc |-> "cancel_revoke", orcid_auth |-> a]) = {}
    /\ \A S : TaskSessions([pc |-> "cleanup_revoke", auths |-> S]) = {}
    /\ \A t :
        /\ TaskSessions([pc |-> "cleanup_list", at |-> t]) = {}
        /\ TaskSessions([pc |-> "cleanup_initial", at |-> t]) = {}
        /\ TaskSessions([pc |-> "cleanup_started", at |-> t]) = {}
        /\ TaskSessions([pc |-> "cleanup_completed", at |-> t]) = {}
BY DEF TaskSessions, Idle

(* A handler that answers remembers nothing.                               *)
LEMMA AnswerRemembers ==
    ASSUME NEW w \in Workers, Answer(w)
    PROVE  RemembersSeen(w)
BY SessionsOf DEF Answer, RemembersSeen

(* No step of the linking flow makes a session up.                         *)
LEMMA LinkingMovesSeen ==
    ASSUME TypeOK, NEW w \in Workers, LinkingStep(w)
    PROVE  MovesSeen(w)
<1> USE DEF At
<1> DEFINE k == task[w]
<1>0. task[w] \in Continuation
  BY DEF TypeOK
<1>1. CASE CreateInsert(w)
  <2>1. TaskSessions(k) = {k.session}
    BY <1>1 DEF CreateInsert, TaskSessions
  <2> QED
    BY <1>1, <2>1, AnswerRemembers DEF CreateInsert, InsertInitial, Seen, MovesSeen
<1>2. CASE StartFind(w)
  <2>1. RemembersSeen(w)
    <3>1. CASE Answer(w)
      BY <3>1, AnswerRemembers
    <3>2. ASSUME NEW d \in initial, Goto(w, [pc |-> "start_insert", session |-> d])
          PROVE  RemembersSeen(w)
      BY <3>2, SessionsOf DEF RemembersSeen, Seen
    <3> QED
      BY <1>2, <3>1, <3>2 DEF StartFind, Sessions, RedirectToOrcid
  <2> QED
    BY <1>2, <2>1 DEF StartFind, storageVars, Seen, MovesSeen
<1>3. CASE StartInsert(w)
  <2>1. TaskSessions(k) = {k.session}
    BY <1>3 DEF StartInsert, TaskSessions
  <2>2. RemembersSeen(w)
    <3>1. CASE Answer(w)
      BY <3>1, AnswerRemembers
    <3>2. CASE Goto(w, [pc |-> "start_delete", session_id |-> k.session.session_id])
      BY <3>2, SessionsOf DEF RemembersSeen
    <3> QED
      BY <1>3, <3>1, <3>2 DEF StartInsert, RedirectToOrcid
  <2> QED
    BY <1>3, <2>1, <2>2 DEF StartInsert, InsertStarted, Seen, MovesSeen
<1>4. CASE StartDelete(w)
  BY <1>4, AnswerRemembers DEF StartDelete, RedirectToOrcid, DeleteInitial, Seen, MovesSeen
<1>5. CASE ContinueExchange(w)
  <2>1. TaskSessions(k) = {k.session}
    BY <1>5 DEF ContinueExchange, TaskSessions
  <2>2. RemembersSeen(w)
    <3>1. CASE Answer(w)
      BY <3>1, AnswerRemembers
    <3>2. ASSUME NEW a, Goto(w, [pc |-> "continue_check", session |-> k.session,
                                 orcid_auth |-> a])
          PROVE  RemembersSeen(w)
      BY <2>1, <3>2, SessionsOf DEF RemembersSeen, Seen
    <3> QED
      BY <1>5, <3>1, <3>2 DEF ContinueExchange
  <2> QED
    BY <1>5, <2>2 DEF ContinueExchange, storageVars, Seen, MovesSeen
<1>6. CASE ContinueCheck(w)
  <2>1. TaskSessions(k) = TaskSessions([k EXCEPT !.pc = "continue_find"])
    BY <1>0, <1>6 DEF ContinueCheck, TaskSessions, Continuation, Idle
  <2>2. \/ Goto(w, [pc |-> "continue_reject", session_id |-> k.session.session_id])
        \/ Goto(w, [k EXCEPT !.pc = "continue_find"])
    BY <1>6 DEF ContinueCheck
  <2>3. RemembersSeen(w)
    BY <2>1, <2>2, SessionsOf DEF RemembersSeen, Seen
  <2> QED
    BY <1>6, <2>3 DEF ContinueCheck, storageVars, Seen, MovesSeen
<1>7. CASE ContinueReject(w)
  BY <1>7, AnswerRemembers DEF ContinueReject, DeleteStarted, Seen, MovesSeen
<1>8. CASE ContinueFind(w)
  <2>1. RemembersSeen(w)
    <3>1. CASE Answer(w)
      BY <3>1, AnswerRemembers
    <3>2. ASSUME NEW d \in started,
                 Goto(w, [pc |-> "continue_insert",
                          doc |-> [session |-> d, orcid_auth |-> k.orcid_auth]])
          PROVE  RemembersSeen(w)
      BY <3>2, SessionsOf DEF RemembersSeen, Seen
    <3> QED
      BY <1>8, <3>1, <3>2 DEF ContinueFind, Sessions
  <2> QED
    BY <1>8, <2>1 DEF ContinueFind, storageVars, Seen, MovesSeen
<1>9. CASE ContinueInsert(w)
  <2>1. TaskSessions(k) = {k.doc.session}
    BY <1>9 DEF ContinueInsert, TaskSessions
  <2>2. \/ Goto(w, [pc |-> "continue_delete", session_id |-> k.doc.session.session_id])
        \/ Answer(w)
    BY <1>9 DEF ContinueInsert
  <2>3. RemembersSeen(w)
    BY <2>2, SessionsOf, AnswerRemembers DEF RemembersSeen
  <2> QED
    BY <1>9, <2>1, <2>3 DEF ContinueInsert, InsertCompleted, Seen, MovesSeen
<1>10. CASE ContinueDelete(w)
  BY <1>10, AnswerRemembers DEF ContinueDelete, DeleteStarted, Seen, MovesSeen
<1>11. CASE FinishInsert(w)
  <2>1. Goto(w, [pc |-> "finish_delete", session_id |-> k.session_id]) \/ Answer(w)
    BY <1>11 DEF FinishInsert
  <2>2. RemembersSeen(w)
    BY <2>1, SessionsOf, AnswerRemembers DEF RemembersSeen
  <2> QED
    BY <1>11, <2>2 DEF FinishInsert, Seen, MovesSeen
<1>12. CASE FinishDelete(w)
  BY <1>12, AnswerRemembers DEF FinishDelete, DeleteCompleted, Seen, MovesSeen
<1>13. CASE CancelDelete(w)
  <2>1. RemembersSeen(w)
    BY <1>13, SessionsOf DEF CancelDelete, RemembersSeen
  <2> QED
    BY <1>13, <2>1 DEF CancelDelete, DeleteCompleted, Seen, MovesSeen
<1>14. CASE CancelRevoke(w)
  BY <1>14, AnswerRemembers DEF CancelRevoke, storageVars, Seen, MovesSeen
<1> QED
  BY <1>1, <1>2, <1>3, <1>4, <1>5, <1>6, <1>7, <1>8, <1>9, <1>10, <1>11, <1>12, <1>13, <1>14
  DEF LinkingStep

(* Nor does a request of the flow that is accepted, create apart.          *)
LEMMA AcceptedMovesSeen ==
    ASSUME NEW w \in Workers, NEW u \in Users, NEW s \in SessionIds,
           Start(w, u, s) \/ Continue(w, u, s) \/ Finish(w, u, s) \/ Cancel(w, u, s)
    PROVE  MovesSeen(w)
<1>1. RemembersSeen(w)
  <2>1. CASE Start(w, u, s)
    BY <2>1, SessionsOf DEF Start, Accept, RemembersSeen
  <2>2. CASE Continue(w, u, s)
    <3>1. PICK d \in started :
            Goto(w, [pc |-> "continue_exchange", session |-> d, username |-> u])
      BY <2>2 DEF Continue, Sessions, Accept
    <3> QED
      BY <3>1, SessionsOf DEF RemembersSeen, Seen
  <2>3. CASE Finish(w, u, s)
    BY <2>3, SessionsOf DEF Finish, Accept, RemembersSeen
  <2>4. CASE Cancel(w, u, s)
    <3>1. PICK c \in completed : Goto(w, [pc |-> "cancel_delete", doc |-> c])
      BY <2>4 DEF Cancel, CompletedSessions, Accept
    <3> QED
      BY <3>1, SessionsOf DEF RemembersSeen, Seen
  <2> QED
    BY <2>1, <2>2, <2>3, <2>4
<1> QED
  BY <1>1 DEF Start, Continue, Finish, Cancel, storageVars, Seen, MovesSeen

(* The handlers of links and of management only remove sessions.           *)
LEMMA OthersMoveSeen ==
    ASSUME NEW w \in Workers,
           LinkRequest(w) \/ LinkStep(w) \/ DeleteExpired(w) \/ ManagementStep(w)
    PROVE  MovesSeen(w)
<1> DEFINE k == task[w]
<1>1. CASE LinkRequest(w)
  <2>1. RemembersSeen(w)
    <3>1. \/ \E u, a : Goto(w, [pc |-> "unlink_revoke", username |-> u, orcid_auth |-> a])
          \/ \E l : Goto(w, [pc |-> "refresh_call", link |-> l])
      BY <1>1 DEF LinkRequest, Unlink, UseLink, RefreshTokens, Accept
    <3> QED
      BY <3>1, SessionsOf DEF RemembersSeen
  <2> QED
    BY <1>1, <2>1
       DEF LinkRequest, Unlink, UseLink, RefreshTokens, storageVars, Seen, MovesSeen
<1>2. CASE LinkStep(w)
  <2>1. \/ Goto(w, [pc |-> "unlink_delete", username |-> k.username])
        \/ Goto(w, [pc |-> "refresh_save", link |-> RefreshedLink(k.link)])
        \/ Answer(w)
    BY <1>2 DEF LinkStep, UnlinkRevoke, UnlinkDelete, RefreshCall, RefreshSave
  <2>2. RemembersSeen(w)
    BY <2>1, SessionsOf, AnswerRemembers DEF RemembersSeen
  <2> QED
    BY <1>2, <2>2
       DEF LinkStep, UnlinkRevoke, UnlinkDelete, RefreshCall, RefreshSave, storageVars, Seen,
           MovesSeen
<1>3. CASE DeleteExpired(w)
  <2>1. RemembersSeen(w)
    BY <1>3, SessionsOf DEF DeleteExpired, Accept, RemembersSeen
  <2> QED
    BY <1>3, <2>1 DEF DeleteExpired, storageVars, Seen, MovesSeen
<1>4. ASSUME NEW auths, RevokeOrDelete(w, auths) PROVE RemembersSeen(w)
  BY <1>4, SessionsOf DEF RevokeOrDelete, RemembersSeen
<1>5. CASE ManagementStep(w)
  <2>1. RemembersSeen(w)
    BY <1>4, <1>5, SessionsOf, AnswerRemembers
       DEF ManagementStep, CleanupList, CleanupRevoke, CleanupInitial, CleanupStarted,
           CleanupCompleted, RemembersSeen
  <2> QED
    BY <1>5, <2>1
       DEF ManagementStep, CleanupList, CleanupRevoke, CleanupInitial, CleanupStarted,
           CleanupCompleted, DeleteExpiredInitial, DeleteExpiredStarted,
           DeleteExpiredCompleted, storageVars, Seen, MovesSeen
<1> QED
  BY <1>1, <1>2, <1>3, <1>5

(* Every step keeps the terms: the service's by the lemmas above, the      *)
(* issue of a session because its uuid is fresh, the rest trivially.       *)
LEMMA TermsStep ==
    ASSUME TypeOK, SessionTermsFixed, [Next]_vars
    PROVE  SessionTermsFixed'
<1>1. ASSUME NEW w \in Workers, NEW u \in Users, Create(w, u) PROVE SessionTermsFixed'
  <2>1. PICK s \in SessionIds :
          /\ Sessions(issued, s) = {}
          /\ Goto(w, [pc |-> "create_insert", session |-> NewSession(s, u)])
          /\ issued' = issued \cup {NewSession(s, u)}
          /\ UNCHANGED <<initial, started, completed>>
    BY <1>1 DEF Create, Accept
  <2>2. NewSession(s, u).session_id = s
    BY DEF NewSession
  <2>3. \A d, e \in issued' : d.session_id = e.session_id => d = e
    BY <2>1, <2>2 DEF Sessions, SessionTermsFixed
  <2>4. TaskSessions([pc |-> "create_insert", session |-> NewSession(s, u)])
            = {NewSession(s, u)}
    BY DEF TaskSessions
  <2>5. \A v \in Workers : TaskSessions(task'[v]) \subseteq issued'
    BY <2>1, <2>4 DEF Goto, TypeOK, SessionTermsFixed
  <2> QED
    BY <2>1, <2>3, <2>5 DEF SessionTermsFixed
<1>2. ASSUME NEW w \in Workers, Request(w) \/ Step(w) PROVE SessionTermsFixed'
  BY <1>1, <1>2, LinkingMovesSeen, AcceptedMovesSeen, OthersMoveSeen, MovesKeepTerms
     DEF Request, Step, LinkingRequest
<1>3. CASE AdminDelete
  BY <1>3 DEF AdminDelete, AdminDeleteInitial, AdminDeleteStarted, AdminDeleteCompleted,
              DeleteInitial, DeleteStarted, DeleteCompleted, requestVars, SessionTermsFixed
<1>4. CASE Crash
  BY <1>4, SessionsOf DEF Crash, storageVars, SessionTermsFixed
<1>5. CASE Tick \/ OrcidWithdraws \/ UNCHANGED vars
  BY <1>5 DEF Tick, OrcidWithdraws, vars, requestVars, storageVars, SessionTermsFixed
<1> QED
  BY <1>1, <1>2, <1>3, <1>4, <1>5 DEF Next

(* However handlers, retries and cleanups race, no copy of a session in    *)
(* any collection or coroutine changes owner or expiry, and no uuid names  *)
(* two sessions: update_linking_session_to_started and _to_finished copy   *)
(* what create_linking_session wrote.                                      *)
THEOREM SessionTerms == Spec => []SessionTermsFixed
<1>1. Init => SessionTermsFixed
  BY SessionsOf DEF Init, RequestsInit, StorageInit, SessionTermsFixed
<1>2. TypeOK /\ SessionTermsFixed /\ [Next]_vars => SessionTermsFixed'
  BY TermsStep
<1> QED
  BY <1>1, <1>2, TypeCorrect, PTL DEF Spec

-----------------------------------------------------------------------------
(* Tokens stay with their owner.  TokensOwnedByHolder speaks of stored     *)
(* documents only, and is not inductive: what a suspended handler will     *)
(* store must be owned (TasksOwnTokens), and the session that              *)
(* update_linking_session_to_finished reads again must have the owner that *)
(* continue checked (SessionTermsFixed).                                   *)

OwnInv == TokensOwnedByHolder /\ TasksOwnTokens

(* A coroutine whose locals agree leaves every coroutine so.               *)
LEMMA GotoOwned ==
    ASSUME TypeOK, TasksOwnTokens, NEW w \in Workers, NEW k, Goto(w, k), OwnsTokens(k)
    PROVE  TasksOwnTokens'
<1>1. \A v \in Workers : task'[v] = IF v = w THEN k ELSE task[v]
  BY DEF Goto, TypeOK
<1>2. \A v \in Workers : OwnsTokens(task'[v])
  BY <1>1 DEF TasksOwnTokens
<1> QED
  BY <1>2 DEF TasksOwnTokens, OwnsTokens

(* A continuation without a token to store has nothing to agree on.        *)
LEMMA Unconcerned ==
    /\ OwnsTokens(Idle)
    /\ \A d : /\ OwnsTokens([pc |-> "create_insert", session |-> d])
              /\ OwnsTokens([pc |-> "start_insert", session |-> d])
    /\ \A s : /\ OwnsTokens([pc |-> "start_find", session_id |-> s])
              /\ OwnsTokens([pc |-> "start_delete", session_id |-> s])
              /\ OwnsTokens([pc |-> "continue_reject", session_id |-> s])
              /\ OwnsTokens([pc |-> "continue_delete", session_id |-> s])
              /\ OwnsTokens([pc |-> "finish_delete", session_id |-> s])
    /\ \A u : /\ OwnsTokens([pc |-> "unlink_delete", username |-> u])
              /\ \A a : OwnsTokens([pc |-> "unlink_revoke", username |-> u, orcid_auth |-> a])
    /\ \A a : OwnsTokens([pc |-> "cancel_revoke", orcid_auth |-> a])
    /\ \A S : OwnsTokens([pc |-> "cleanup_revoke", auths |-> S])
    /\ \A t : /\ OwnsTokens([pc |-> "cleanup_list", at |-> t])
              /\ OwnsTokens([pc |-> "cleanup_initial", at |-> t])
              /\ OwnsTokens([pc |-> "cleanup_started", at |-> t])
              /\ OwnsTokens([pc |-> "cleanup_completed", at |-> t])
BY DEF OwnsTokens, Idle

(* A handler that answers has nothing left to store.                       *)
LEMMA AnswerOwned ==
    ASSUME TypeOK, TasksOwnTokens, NEW w \in Workers, Answer(w)
    PROVE  TasksOwnTokens'
BY Unconcerned, GotoOwned DEF Answer

(* The linking flow.                                                       *)
LEMMA LinkingOwned ==
    ASSUME TypeOK, SessionTermsFixed, OwnInv, NEW w \in Workers,
           LinkingRequest(w) \/ LinkingStep(w)
    PROVE  OwnInv'
<1> USE DEF At, OwnInv
<1> DEFINE k == task[w]
<1>0. k \in Continuation /\ OwnsTokens(k)
  BY DEF TypeOK, TasksOwnTokens
<1>1. CASE (\E u \in Users : Create(w, u)) \/ (\E u \in Users, s \in SessionIds : Start(w, u, s))
  <2>1. \/ \E d : Goto(w, [pc |-> "create_insert", session |-> d])
        \/ \E s : Goto(w, [pc |-> "start_find", session_id |-> s])
    BY <1>1 DEF Create, Start, Accept
  <2>2. TasksOwnTokens'
    BY <2>1, GotoOwned, Unconcerned
  <2> QED
    BY <1>1, <2>2 DEF Create, Start, storageVars, TokensOwnedByHolder
<1>2. CASE StartFind(w) \/ StartInsert(w)
  <2>1. \/ \E d : Goto(w, [pc |-> "start_insert", session |-> d])
        \/ \E s : Goto(w, [pc |-> "start_delete", session_id |-> s])
        \/ Answer(w)
    BY <1>2 DEF StartFind, StartInsert, RedirectToOrcid
  <2>2. TasksOwnTokens'
    BY <2>1, GotoOwned, AnswerOwned, Unconcerned
  <2> QED
    BY <1>2, <2>2 DEF StartFind, StartInsert, storageVars, TokensOwnedByHolder
<1>3. CASE CreateInsert(w) \/ StartDelete(w) \/ ContinueReject(w) \/ ContinueDelete(w)
  <2>1. TasksOwnTokens'
    BY <1>3, AnswerOwned
       DEF CreateInsert, StartDelete, ContinueReject, ContinueDelete, RedirectToOrcid
  <2> QED
    BY <1>3, <2>1
       DEF CreateInsert, StartDelete, ContinueReject, ContinueDelete, TokensOwnedByHolder
<1>4. ASSUME NEW u \in Users, NEW s \in SessionIds, Continue(w, u, s) PROVE OwnInv'
  <2>1. PICK d \in started :
          /\ d.username = u
          /\ Goto(w, [pc |-> "continue_exchange", session |-> d, username |-> u])
    BY <1>4 DEF Continue, Sessions, Accept
  <2>2. OwnsTokens([pc |-> "continue_exchange", session |-> d, username |-> u])
    BY <2>1 DEF OwnsTokens
  <2>3. TasksOwnTokens'
    BY <2>1, <2>2, GotoOwned
  <2> QED
    BY <1>4, <2>3 DEF Continue, storageVars, TokensOwnedByHolder
<1>5. CASE ContinueExchange(w)
  <2>1. k.username = k.session.username
    BY <1>0, <1>5 DEF ContinueExchange, OwnsTokens
  <2>2. TasksOwnTokens'
    <3>1. CASE Answer(w)
      BY <3>1, AnswerOwned
    <3>2. ASSUME NEW o \in Orcids,
                 Goto(w, [pc |-> "continue_check", session |-> k.session,
                          orcid_auth |-> NewAuth(o, k.username)])
          PROVE  TasksOwnTokens'
      <4>1. OwnsTokens([pc |-> "continue_check", session |-> k.session,
                        orcid_auth |-> NewAuth(o, k.username)])
        BY <2>1 DEF OwnsTokens, NewAuth
      <4> QED
        BY <3>2, <4>1, GotoOwned
    <3> QED
      BY <1>5, <3>1, <3>2 DEF ContinueExchange
  <2> QED
    BY <1>5, <2>2 DEF ContinueExchange, storageVars, TokensOwnedByHolder
<1>6. CASE ContinueCheck(w)
  <2>1. OwnsTokens([k EXCEPT !.pc = "continue_find"])
    BY <1>0, <1>6 DEF ContinueCheck, OwnsTokens, Continuation, Idle
  <2>2. \/ Goto(w, [pc |-> "continue_reject", session_id |-> k.session.session_id])
        \/ Goto(w, [k EXCEPT !.pc = "continue_find"])
    BY <1>6 DEF ContinueCheck
  <2>3. TasksOwnTokens'
    BY <2>1, <2>2, GotoOwned, Unconcerned
  <2> QED
    BY <1>6, <2>3 DEF ContinueCheck, storageVars, TokensOwnedByHolder
<1>7. CASE ContinueFind(w)
  <2>1. k.session \in issued /\ k.orcid_auth.by = k.session.username
    BY <1>0, <1>7 DEF ContinueFind, OwnsTokens, SessionTermsFixed, TaskSessions
  <2>2. TasksOwnTokens'
    <3>1. CASE Answer(w)
      BY <3>1, AnswerOwned
    <3>2. ASSUME NEW d \in started, d.session_id = k.session.session_id,
                 Goto(w, [pc |-> "continue_insert",
                          doc |-> [session |-> d, orcid_auth |-> k.orcid_auth]])
          PROVE  TasksOwnTokens'
      <4>1. d = k.session
        BY <2>1, <3>2 DEF SessionTermsFixed
      <4>2. OwnsTokens([pc |-> "continue_insert",
                        doc |-> [session |-> d, orcid_auth |-> k.orcid_auth]])
        BY <2>1, <4>1 DEF OwnsTokens
      <4> QED
        BY <3>2, <4>2, GotoOwned
    <3> QED
      BY <1>7, <3>1, <3>2 DEF ContinueFind, Sessions
  <2> QED
    BY <1>7, <2>2 DEF ContinueFind, storageVars, TokensOwnedByHolder
<1>8. CASE ContinueInsert(w)
  <2>1. k.doc.orcid_auth.by = k.doc.session.username
    BY <1>0, <1>8 DEF ContinueInsert, OwnsTokens
  <2>2. \/ Goto(w, [pc |-> "continue_delete", session_id |-> k.doc.session.session_id])
        \/ Answer(w)
    BY <1>8 DEF ContinueInsert
  <2>3. TasksOwnTokens'
    BY <2>2, GotoOwned, AnswerOwned, Unconcerned
  <2> QED
    BY <1>8, <2>1, <2>3 DEF ContinueInsert, InsertCompleted, TokensOwnedByHolder
<1>9. ASSUME NEW u \in Users, NEW s \in SessionIds, Finish(w, u, s) PROVE OwnInv'
  <2>1. PICK c \in completed :
          Goto(w, [pc |-> "finish_insert", link |-> NewLink(c), session_id |-> s])
    BY <1>9 DEF Finish, CompletedSessions, Accept
  <2>2. OwnsTokens([pc |-> "finish_insert", link |-> NewLink(c), session_id |-> s])
    BY <2>1 DEF OwnsTokens, NewLink, TokensOwnedByHolder
  <2>3. TasksOwnTokens'
    BY <2>1, <2>2, GotoOwned
  <2> QED
    BY <1>9, <2>3 DEF Finish, storageVars, TokensOwnedByHolder
<1>10. CASE FinishInsert(w)
  <2>1. k.link.orcid_auth.by = k.link.username
    BY <1>0, <1>10 DEF FinishInsert, OwnsTokens
  <2>2. Goto(w, [pc |-> "finish_delete", session_id |-> k.session_id]) \/ Answer(w)
    BY <1>10 DEF FinishInsert
  <2>3. TasksOwnTokens'
    BY <2>2, GotoOwned, AnswerOwned, Unconcerned
  <2> QED
    BY <1>10, <2>1, <2>3 DEF FinishInsert, CreateLinkRecord, TokensOwnedByHolder
<1>11. CASE FinishDelete(w) \/ CancelRevoke(w)
  BY <1>11, AnswerOwned
     DEF FinishDelete, CancelRevoke, DeleteCompleted, storageVars, TokensOwnedByHolder
<1>12. ASSUME NEW u \in Users, NEW s \in SessionIds, Cancel(w, u, s) PROVE OwnInv'
  <2>1. PICK c \in completed : Goto(w, [pc |-> "cancel_delete", doc |-> c])
    BY <1>12 DEF Cancel, CompletedSessions, Accept
  <2>2. OwnsTokens([pc |-> "cancel_delete", doc |-> c])
    BY <2>1 DEF OwnsTokens, TokensOwnedByHolder
  <2>3. TasksOwnTokens'
    BY <2>1, <2>2, GotoOwned
  <2> QED
    BY <1>12, <2>3 DEF Cancel, storageVars, TokensOwnedByHolder
<1>13. CASE CancelDelete(w)
  <2>1. TasksOwnTokens'
    BY <1>13, GotoOwned, Unconcerned DEF CancelDelete
  <2> QED
    BY <1>13, <2>1 DEF CancelDelete, DeleteCompleted, TokensOwnedByHolder
<1> QED
  BY <1>1, <1>2, <1>3, <1>4, <1>5, <1>6, <1>7, <1>8, <1>9, <1>10, <1>11, <1>12, <1>13
  DEF LinkingRequest, LinkingStep

(* Removal, renewal and management.  A renewal saves the record it read,   *)
(* under the name it read it by, with tokens that keep their holder.       *)
LEMMA OthersOwned ==
    ASSUME TypeOK, OwnInv, NEW w \in Workers,
           LinkRequest(w) \/ LinkStep(w) \/ DeleteExpired(w) \/ ManagementStep(w)
    PROVE  OwnInv'
<1> USE DEF At, OwnInv
<1> DEFINE k == task[w]
<1>0. k \in Continuation /\ OwnsTokens(k)
  BY DEF TypeOK, TasksOwnTokens
<1>1. ASSUME NEW u \in Users, UseLink(w, u) \/ RefreshTokens(w, u) PROVE OwnInv'
  <2>1. PICK l \in links :
          \/ Goto(w, [pc |-> "refresh_call", link |-> l])
          \/ Goto(w, [pc |-> "refresh_call",
                      link |-> [l EXCEPT !.retires_at = now + RetirementAge]])
    BY <1>1 DEF UseLink, RefreshTokens, LinksOf, Accept
  <2>2. l \in LinkRecord /\ l.orcid_auth.by = l.username
    BY <2>1 DEF TypeOK, StorageTypeOK, TokensOwnedByHolder
  <2>3. /\ OwnsTokens([pc |-> "refresh_call", link |-> l])
        /\ OwnsTokens([pc |-> "refresh_call",
                       link |-> [l EXCEPT !.retires_at = now + RetirementAge]])
    BY <2>2 DEF OwnsTokens, LinkRecord
  <2>4. TasksOwnTokens'
    BY <2>1, <2>3, GotoOwned
  <2> QED
    BY <1>1, <2>4 DEF UseLink, RefreshTokens, storageVars, TokensOwnedByHolder
<1>2. CASE RefreshCall(w)
  <2>1. k.link \in LinkRecord /\ k.link.orcid_auth.by = k.link.username
    BY <1>0, <1>2, Locals DEF RefreshCall, OwnsTokens
  <2>2. OwnsTokens([pc |-> "refresh_save", link |-> RefreshedLink(k.link)])
    BY <2>1 DEF OwnsTokens, RefreshedLink, NewAuth, LinkRecord
  <2>3. Goto(w, [pc |-> "refresh_save", link |-> RefreshedLink(k.link)]) \/ Answer(w)
    BY <1>2 DEF RefreshCall
  <2>4. TasksOwnTokens'
    BY <2>2, <2>3, GotoOwned, AnswerOwned
  <2> QED
    BY <1>2, <2>4 DEF RefreshCall, storageVars, TokensOwnedByHolder
<1>3. CASE RefreshSave(w)
  <2>1. k.link.orcid_auth.by = k.link.username
    BY <1>0, <1>3 DEF RefreshSave, OwnsTokens
  <2>2. TasksOwnTokens'
    BY <1>3, AnswerOwned DEF RefreshSave
  <2> QED
    BY <1>3, <2>1, <2>2 DEF RefreshSave, SaveLinkRecord, TokensOwnedByHolder
<1>4. CASE (\E u \in Users : Unlink(w, u)) \/ UnlinkRevoke(w) \/ UnlinkDelete(w)
  <2>1. \/ \E u, a : Goto(w, [pc |-> "unlink_revoke", username |-> u, orcid_auth |-> a])
        \/ \E u : Goto(w, [pc |-> "unlink_delete", username |-> u])
        \/ Answer(w)
    BY <1>4 DEF Unlink, UnlinkRevoke, UnlinkDelete, Accept
  <2>2. TasksOwnTokens'
    BY <2>1, GotoOwned, AnswerOwned, Unconcerned
  <2> QED
    BY <1>4, <2>2
       DEF Unlink, UnlinkRevoke, UnlinkDelete, DeleteLinkRecord, storageVars,
           TokensOwnedByHolder
<1>5. CASE DeleteExpired(w) \/ ManagementStep(w)
  <2>1. \/ Answer(w)
        \/ \E S : Goto(w, [pc |-> "cleanup_revoke", auths |-> S])
        \/ \E t : \/ Goto(w, [pc |-> "cleanup_list", at |-> t])
                  \/ Goto(w, [pc |-> "cleanup_initial", at |-> t])
                  \/ Goto(w, [pc |-> "cleanup_started", at |-> t])
                  \/ Goto(w, [pc |-> "cleanup_completed", at |-> t])
    BY <1>5 DEF DeleteExpired, ManagementStep, CleanupList, CleanupRevoke, CleanupInitial,
                CleanupStarted, CleanupCompleted, RevokeOrDelete, Accept
  <2>2. TasksOwnTokens'
    BY <2>1, GotoOwned, AnswerOwned, Unconcerned
  <2>3. links' = links /\ completed' \subseteq completed
    BY <1>5 DEF DeleteExpired, ManagementStep, CleanupList, CleanupRevoke, CleanupInitial,
                CleanupStarted, CleanupCompleted, DeleteExpiredCompleted, storageVars
  <2> QED
    BY <2>2, <2>3 DEF TokensOwnedByHolder
<1> QED
  BY <1>1, <1>2, <1>3, <1>4, <1>5 DEF LinkRequest, LinkStep

(* Every step keeps every token with its owner.                            *)
LEMMA OwnStep ==
    ASSUME TypeOK, SessionTermsFixed, OwnInv, [Next]_vars
    PROVE  OwnInv'
<1>1. ASSUME NEW w \in Workers, Request(w) \/ Step(w) PROVE OwnInv'
  BY <1>1, LinkingOwned, OthersOwned DEF Request, Step
<1>2. CASE AdminDelete
  BY <1>2 DEF AdminDelete, AdminDeleteInitial, AdminDeleteStarted, AdminDeleteCompleted,
              DeleteCompleted, requestVars, OwnInv, TokensOwnedByHolder, TasksOwnTokens,
              OwnsTokens
<1>3. CASE Crash
  <2>1. TasksOwnTokens'
    BY <1>3 DEF Crash, TasksOwnTokens, OwnsTokens, Idle
  <2> QED
    BY <1>3, <2>1 DEF Crash, storageVars, OwnInv, TokensOwnedByHolder
<1>4. CASE Tick \/ OrcidWithdraws \/ UNCHANGED vars
  BY <1>4 DEF Tick, OrcidWithdraws, vars, requestVars, storageVars, OwnInv,
              TokensOwnedByHolder, TasksOwnTokens, OwnsTokens
<1> QED
  BY <1>1, <1>2, <1>3, <1>4 DEF Next

(* No interleaving of linking flows, retries, renewals, removals and       *)
(* crashes ever files a token that one account's browser fetched in        *)
(* another account's completed session or link record, nor leaves a        *)
(* handler about to do so.                                                 *)
THEOREM Ownership == Spec => [](TokensOwnedByHolder /\ TasksOwnTokens)
<1>1. Init => OwnInv
  BY DEF Init, RequestsInit, StorageInit, OwnInv, TokensOwnedByHolder, TasksOwnTokens,
         OwnsTokens, Idle
<1>2. TypeOK /\ SessionTermsFixed /\ OwnInv /\ [Next]_vars => OwnInv'
  BY OwnStep
<1>3. Spec => []OwnInv
  BY <1>1, <1>2, TypeCorrect, SessionTerms, PTL DEF Spec
<1> QED
  BY <1>3, PTL DEF OwnInv
=============================================================================
