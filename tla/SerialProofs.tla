---------------------------- MODULE SerialProofs ----------------------------
(***************************************************************************)
(* One request at a time: the handlers of the linking flow, of links and   *)
(* of the cleanup leave the collections consistent with each other and     *)
(* with ORCID, whatever single calls fail, for any number of users,        *)
(* sessions and slots.  The documented protocol is what they implement.    *)
(***************************************************************************)
EXTENDS RegistryProofs, SweepProofs, FiniteSetTheorems

-----------------------------------------------------------------------------
(* What holds while slot w alone may be busy, with the coroutine k.        *)

Is(k, pc, s) == k.pc = pc /\ k.session_id = s

(* A session is in two collections only halfway through its move.          *)
StagesApart(k) ==
    /\ \A d \in initial, e \in started :
          d.session_id = e.session_id => Is(k, "start_delete", d.session_id)
    /\ \A d \in started, c \in completed :
          d.session_id = c.session.session_id => Is(k, "continue_delete", d.session_id)
    /\ \A d \in initial, c \in completed : d.session_id # c.session.session_id
    /\ \A b, c \in completed : b.session.session_id = c.session.session_id => b = c

(* So is a token in a completed session and in a link.                     *)
TokensApart(k) ==
    /\ \A b, c \in completed : b.orcid_auth = c.orcid_auth => b = c
    /\ \A l \in links, c \in completed :
          l.orcid_auth = c.orcid_auth => Is(k, "finish_delete", c.session.session_id)

(* In no document.                                                         *)
Unstored(a) ==
    /\ \A l \in links : l.orcid_auth # a
    /\ \A c \in completed : c.orcid_auth # a

(* Nobody has changed what the handler has read or written.                *)
SessionInPlace(k) ==
    /\ k.pc = "create_insert" =>
          /\ k.session.session_id \notin Ids(initial) \cup Ids(started) \cup CompletedIds
          /\ LinksOf(k.session.username) = {}
    /\ k.pc = "start_find" => k.session_id \notin Ids(started) \cup CompletedIds
    /\ k.pc = "start_insert" => k.session \in initial
    /\ k.pc = "start_delete" => k.session_id \in Ids(started)
    /\ k.pc \in {"continue_exchange", "continue_check", "continue_find"} => k.session \in started
    /\ k.pc = "continue_reject" => k.session_id \in Ids(started)
    /\ k.pc = "continue_insert" => k.doc.session \in started
    /\ k.pc = "continue_delete" => k.session_id \in CompletedIds
    /\ k.pc = "finish_insert" =>
          \E c \in CompletedSessions(k.session_id) :
              k.link.username = c.session.username /\ k.link.orcid_auth = c.orcid_auth
    /\ k.pc = "finish_delete" =>
          \E c \in CompletedSessions(k.session_id), l \in links : l.orcid_auth = c.orcid_auth
    /\ k.pc = "cancel_delete" => k.doc \in completed

TokenInPlace(k) ==
    /\ k.pc \in {"continue_check", "continue_find", "cancel_revoke"} => Unstored(k.orcid_auth)
    /\ k.pc = "continue_insert" => Unstored(k.doc.orcid_auth)
    /\ k.pc = "continue_find" => LinksForOrcid(k.orcid_auth.orcid) = {}
    /\ k.pc = "continue_insert" => LinksForOrcid(k.doc.orcid_auth.orcid) = {}
    /\ k.pc = "unlink_revoke" => \E l \in LinksOf(k.username) : l.orcid_auth = k.orcid_auth
    /\ k.pc = "refresh_call" =>
          \E l \in LinksOf(k.link.username) : l.orcid_auth = k.link.orcid_auth
    /\ k.pc = "refresh_save" =>
          /\ \E l \in LinksOf(k.link.username) : l.orcid_auth.orcid = k.link.orcid_auth.orcid
          /\ Unstored(k.link.orcid_auth)
    /\ k.pc = "cleanup_revoke" => k.auths \subseteq {c.orcid_auth : c \in ExpiredCompleted(now)}
    /\ k.pc \in {"cleanup_list", "cleanup_initial", "cleanup_started", "cleanup_completed"} =>
          k.at = now

Consistent(k) == StagesApart(k) /\ TokensApart(k) /\ SessionInPlace(k) /\ TokenInPlace(k)

Cleaning == {"cleanup_list", "cleanup_revoke", "cleanup_initial", "cleanup_started",
             "cleanup_completed"}

(* And the tokens that the service holds work, but for those that the      *)
(* handler itself has made useless.                                        *)
Honoured(k) ==
    /\ \A l \in links : l.orcid_auth \in live \/ k.pc \in {"refresh_save", "unlink_delete"}
    /\ k.pc = "refresh_save" =>
          /\ k.link.orcid_auth \in live
          /\ \A l \in links : l.orcid_auth \in live <=> l.username # k.link.username
    /\ k.pc = "unlink_delete" =>
          \A l \in links : l.orcid_auth \in live <=> l.username # k.username
    /\ \A c \in completed :
          c.orcid_auth \in live \/ (k.pc \in Cleaning /\ Expired(c.session, now))
    /\ k.pc \in {"continue_check", "continue_find"} => k.orcid_auth \in live
    /\ k.pc = "continue_insert" => k.doc.orcid_auth \in live

(* The list of expired sessions is read whole.                             *)
OnePage == IsFiniteSet(SessionIds) /\ Cardinality(SessionIds) <= PageSize

(* What the cleanup deletes it has revoked.                                *)
Revoked(k) ==
    /\ k.pc = "cleanup_revoke" =>
          \A c \in ExpiredCompleted(now) : c.orcid_auth \in live => c.orcid_auth \in k.auths
    /\ k.pc \in {"cleanup_initial", "cleanup_started", "cleanup_completed"} =>
          \A c \in ExpiredCompleted(now) : c.orcid_auth \notin live

Sound(k) == Consistent(k) /\ (faults = 0 => Honoured(k) /\ (OnePage => Revoked(k)))

SerialInv ==
    /\ AllIdle \/ \E w \in Workers : OthersIdle(w)
    /\ AllIdle => Sound(Idle)
    /\ \A w \in Workers : OthersIdle(w) => Sound(task[w])

-----------------------------------------------------------------------------
(* Sessions.                                                               *)

(* Copies of a session are equal.                                          *)
LEMMA OneCopy ==
    ASSUME SessionTermsFixed
    PROVE  /\ \A d, e \in initial \cup started : d.session_id = e.session_id => d = e
           /\ \A d \in initial \cup started, c \in completed :
                  d.session_id = c.session.session_id => d = c.session
           /\ \A w \in Workers : \A d \in initial \cup started, e \in TaskSessions(task[w]) :
                  d.session_id = e.session_id => d = e
BY DEF SessionTermsFixed

(* Deleting keeps sessions apart, when no move is halfway.                 *)
LEMMA StagesStay ==
    ASSUME NEW w, StagesApart(task[w]), task[w].pc \notin {"start_delete", "continue_delete"},
           initial' \subseteq initial, started' \subseteq started, completed' \subseteq completed
    PROVE  StagesApart(task[w])'
BY DEF StagesApart, Is

(* The handlers that are not about sessions have none in hand.             *)
NoSession(k) ==
    k.pc \notin {"create_insert", "start_find", "start_insert", "start_delete",
                 "continue_exchange", "continue_check", "continue_find", "continue_reject",
                 "continue_insert", "continue_delete", "finish_insert", "finish_delete",
                 "cancel_delete"}

(* So they leave none where another could have moved it.                   *)
LEMMA OthersInPlace ==
    ASSUME NEW w, NoSession(task'[w])
    PROVE  SessionInPlace(task[w])'
BY DEF NoSession, SessionInPlace

(* A request that is taken has read its session, and has it for itself.    *)
LEMMA SessionRequests ==
    ASSUME TypeOK, SessionTermsFixed, NEW w \in Workers, StagesApart(task[w]),
           LinkingRequest(w)
    PROVE  StagesApart(task[w])' /\ SessionInPlace(task[w])'
<1>1. task[w] = Idle /\ UNCHANGED <<links, initial, started, completed>>
  BY DEF LinkingRequest, Create, Start, Continue, Finish, Cancel, Accept, storageVars
<1>2. StagesApart(task[w])'
  BY <1>1, StagesStay DEF Idle
<1>3. StagesApart(Idle)
  BY <1>1
<1>4. ASSUME NEW u \in Users, Create(w, u) PROVE SessionInPlace(task[w])'
  <2>1. PICK s \in SessionIds :
          /\ LinksOf(u) = {} /\ Sessions(issued, s) = {}
          /\ Goto(w, [pc |-> "create_insert", session |-> NewSession(s, u)])
    BY <1>4 DEF Create, Accept
  <2>2. task'[w] = [pc |-> "create_insert", session |-> NewSession(s, u)]
    BY <2>1 DEF Goto, TypeOK
  <2>3. /\ task'[w].pc = "create_insert"
        /\ task'[w].session.session_id = s /\ task'[w].session.username = u
    BY <2>2 DEF NewSession
  <2>4. s \notin Ids(initial) \cup Ids(started) \cup CompletedIds
    BY <2>1 DEF SessionTermsFixed, Sessions, Ids, CompletedIds
  <2> QED
    BY <1>1, <2>1, <2>3, <2>4 DEF SessionInPlace, Ids, CompletedIds, LinksOf
<1>5. ASSUME NEW u \in Users, NEW s \in SessionIds, Start(w, u, s)
      PROVE  SessionInPlace(task[w])'
  <2>1. task'[w] = [pc |-> "start_find", session_id |-> s]
    BY <1>5 DEF Start, Accept, Goto, TypeOK
  <2>2. s \notin Ids(started) \cup CompletedIds
    BY <1>3, <1>5 DEF Start, Sessions, StagesApart, Is, Idle, Ids, CompletedIds
  <2> QED
    BY <1>1, <2>1, <2>2 DEF SessionInPlace, Ids, CompletedIds
<1>6. ASSUME NEW u \in Users, NEW s \in SessionIds, Continue(w, u, s)
      PROVE  SessionInPlace(task[w])'
  <2>1. PICK d \in started :
          Goto(w, [pc |-> "continue_exchange", session |-> d, username |-> u])
    BY <1>6 DEF Continue, Accept, Sessions
  <2>2. task'[w] = [pc |-> "continue_exchange", session |-> d, username |-> u]
    BY <2>1 DEF Goto, TypeOK
  <2> QED
    BY <1>1, <2>2 DEF SessionInPlace
<1>7. ASSUME NEW u \in Users, NEW s \in SessionIds, Finish(w, u, s)
      PROVE  SessionInPlace(task[w])'
  <2>1. PICK c \in CompletedSessions(s) :
          Goto(w, [pc |-> "finish_insert", link |-> NewLink(c), session_id |-> s])
    BY <1>7 DEF Finish, Accept
  <2>2. task'[w] = [pc |-> "finish_insert", link |-> NewLink(c), session_id |-> s]
    BY <2>1 DEF Goto, TypeOK
  <2>3. /\ task'[w].pc = "finish_insert" /\ task'[w].session_id = s
        /\ task'[w].link.username = c.session.username
        /\ task'[w].link.orcid_auth = c.orcid_auth
    BY <2>2 DEF NewLink
  <2> QED
    BY <1>1, <2>3 DEF SessionInPlace, CompletedSessions
<1>8. ASSUME NEW u \in Users, NEW s \in SessionIds, Cancel(w, u, s)
      PROVE  SessionInPlace(task[w])'
  <2>1. PICK c \in completed : Goto(w, [pc |-> "cancel_delete", doc |-> c])
    BY <1>8 DEF Cancel, Accept, CompletedSessions
  <2>2. task'[w] = [pc |-> "cancel_delete", doc |-> c]
    BY <2>1 DEF Goto, TypeOK
  <2> QED
    BY <1>1, <2>2 DEF SessionInPlace
<1> QED
  BY <1>2, <1>4, <1>5, <1>6, <1>7, <1>8 DEF LinkingRequest

(* Create, start: each command finds the session where the last left it.   *)
LEMMA StartSteps ==
    ASSUME TypeOK, SessionTermsFixed, NEW w \in Workers, StagesApart(task[w]),
           SessionInPlace(task[w]),
           CreateInsert(w) \/ StartFind(w) \/ StartInsert(w) \/ StartDelete(w)
    PROVE  StagesApart(task[w])' /\ SessionInPlace(task[w])'
<1> USE DEF At
<1> DEFINE k == task[w]
<1>0. NoSession(Idle)
  BY DEF NoSession, Idle
<1>1. CASE CreateInsert(w)
  <2>1. /\ k.pc = "create_insert" /\ initial' = initial \cup {k.session}
        /\ started' = started /\ completed' = completed /\ task'[w] = Idle
    BY <1>1 DEF CreateInsert, InsertInitial, Answer, Goto, TypeOK
  <2>2. /\ \A e \in started : e.session_id # k.session.session_id
        /\ \A c \in completed : c.session.session_id # k.session.session_id
    BY <2>1 DEF SessionInPlace, Ids, CompletedIds
  <2>3. StagesApart(task[w])'
    BY <2>1, <2>2 DEF StagesApart, Is, Idle
  <2> QED
    BY <1>0, <2>1, <2>3, OthersInPlace
<1>2. CASE StartFind(w)
  <2>1. /\ k.pc = "start_find" /\ UNCHANGED <<initial, started, completed>>
        /\ \/ task'[w] = Idle
           \/ \E d \in initial : task'[w] = [pc |-> "start_insert", session |-> d]
    BY <1>2 DEF StartFind, RedirectToOrcid, Answer, Goto, TypeOK, Sessions, storageVars
  <2>2. StagesApart(task[w])'
    BY <2>1, StagesStay
  <2>3. CASE \E d \in initial : task'[w] = [pc |-> "start_insert", session |-> d]
    BY <2>1, <2>2, <2>3 DEF SessionInPlace
  <2> QED
    BY <1>0, <2>1, <2>2, <2>3, OthersInPlace
<1>3. CASE StartInsert(w)
  <2>1. /\ k.pc = "start_insert" /\ k.session \in initial
        /\ initial' = initial /\ completed' = completed
    BY <1>3 DEF StartInsert, SessionInPlace
  <2>2. CASE /\ started' = started \cup {k.session}
             /\ task'[w] = [pc |-> "start_delete", session_id |-> k.session.session_id]
    <3>1. /\ \A d \in initial, e \in started : d.session_id # e.session_id
          /\ \A d \in started, c \in completed : d.session_id # c.session.session_id
      BY <2>1 DEF StagesApart, Is, Idle
    <3>2. StagesApart(task[w])'
      BY <2>1, <2>2, <3>1 DEF StagesApart, Is
    <3>3. SessionInPlace(task[w])'
      BY <2>2 DEF SessionInPlace, Ids
    <3> QED
      BY <3>2, <3>3
  <2>3. CASE started' = started /\ task'[w] = Idle
    BY <1>0, <2>1, <2>3, StagesStay, OthersInPlace
  <2> QED
    BY <1>3, <2>2, <2>3 DEF StartInsert, InsertStarted, RedirectToOrcid, Answer, Goto, TypeOK
<1>4. CASE StartDelete(w)
  <2>1. /\ k.pc = "start_delete" /\ started' = started /\ completed' = completed
        /\ initial' = {d \in initial : d.session_id # k.session_id} /\ task'[w] = Idle
    BY <1>4 DEF StartDelete, DeleteInitial, RedirectToOrcid, Answer, Goto, TypeOK
  <2>2. StagesApart(task[w])'
    BY <2>1 DEF StagesApart, Is, Idle
  <2> QED
    BY <1>0, <2>1, <2>2, OthersInPlace
<1> QED
  BY <1>1, <1>2, <1>3, <1>4

(* Continue.                                                               *)
LEMMA ContinueSteps ==
    ASSUME TypeOK, SessionTermsFixed, NEW w \in Workers, StagesApart(task[w]),
           SessionInPlace(task[w]),
           \/ ContinueExchange(w) \/ ContinueCheck(w) \/ ContinueReject(w)
           \/ ContinueFind(w) \/ ContinueInsert(w) \/ ContinueDelete(w)
    PROVE  StagesApart(task[w])' /\ SessionInPlace(task[w])'
<1> USE DEF At
<1> DEFINE k == task[w]
<1>0. NoSession(Idle)
  BY DEF NoSession, Idle
<1>1. CASE ContinueExchange(w)
  <2>1. /\ k.pc = "continue_exchange" /\ UNCHANGED <<initial, started, completed>>
        /\ k.session \in started
        /\ \/ task'[w] = Idle
           \/ \E a : task'[w] = [pc |-> "continue_check", session |-> k.session,
                                 orcid_auth |-> a]
    BY <1>1 DEF ContinueExchange, Answer, Goto, TypeOK, storageVars, SessionInPlace
  <2>2. StagesApart(task[w])'
    BY <2>1, StagesStay
  <2>3. ASSUME NEW a, task'[w] = [pc |-> "continue_check", session |-> k.session,
                                  orcid_auth |-> a]
        PROVE  SessionInPlace(task[w])'
    BY <2>1, <2>3 DEF SessionInPlace
  <2> QED
    BY <1>0, <2>1, <2>2, <2>3, OthersInPlace
<1>2. CASE ContinueCheck(w)
  <2>1. /\ k.pc = "continue_check" /\ UNCHANGED <<initial, started, completed>>
        /\ k.session \in started
        /\ \/ task'[w] = [pc |-> "continue_reject", session_id |-> k.session.session_id]
           \/ task'[w] = [k EXCEPT !.pc = "continue_find"]
    BY <1>2 DEF ContinueCheck, Goto, TypeOK, storageVars, SessionInPlace
  <2>2. StagesApart(task[w])'
    BY <2>1, StagesStay
  <2>3. k \in [pc : {"continue_check", "continue_find"}, session : LinkingSession,
              orcid_auth : ORCIDAuth]
    BY <2>1 DEF TypeOK, Continuation, Idle
  <2>4. CASE task'[w] = [k EXCEPT !.pc = "continue_find"]
    <3>1. task'[w].pc = "continue_find" /\ task'[w].session = k.session
      BY <2>3, <2>4
    <3> QED
      BY <2>1, <2>2, <3>1 DEF SessionInPlace
  <2>5. CASE task'[w] = [pc |-> "continue_reject", session_id |-> k.session.session_id]
    BY <2>1, <2>2, <2>5 DEF SessionInPlace, Ids
  <2> QED
    BY <2>1, <2>4, <2>5
<1>3. CASE ContinueReject(w)
  <2>1. /\ k.pc = "continue_reject" /\ initial' = initial /\ completed' = completed
        /\ started' \subseteq started /\ task'[w] = Idle
    BY <1>3 DEF ContinueReject, DeleteStarted, Answer, Goto, TypeOK
  <2> QED
    BY <1>0, <2>1, StagesStay, OthersInPlace
<1>4. CASE ContinueFind(w)
  <2>1. /\ k.pc = "continue_find" /\ UNCHANGED <<initial, started, completed>>
        /\ \/ task'[w] = Idle
           \/ \E d \in started :
                task'[w] = [pc |-> "continue_insert",
                            doc |-> [session |-> d, orcid_auth |-> k.orcid_auth]]
    BY <1>4 DEF ContinueFind, Answer, Goto, TypeOK, storageVars, Sessions
  <2>2. StagesApart(task[w])'
    BY <2>1, StagesStay
  <2>3. ASSUME NEW d \in started,
               task'[w] = [pc |-> "continue_insert",
                           doc |-> [session |-> d, orcid_auth |-> k.orcid_auth]]
        PROVE  SessionInPlace(task[w])'
    <3>1. task'[w].pc = "continue_insert" /\ task'[w].doc.session = d
      BY <2>3
    <3> QED
      BY <2>1, <3>1 DEF SessionInPlace
  <2> QED
    BY <1>0, <2>1, <2>2, <2>3, OthersInPlace
<1>5. CASE ContinueInsert(w)
  <2>1. /\ k.pc = "continue_insert" /\ k.doc.session \in started
        /\ initial' = initial /\ started' = started
    BY <1>5 DEF ContinueInsert, SessionInPlace
  <2>2. CASE /\ completed' = completed \cup {k.doc}
             /\ task'[w] = [pc |-> "continue_delete",
                            session_id |-> k.doc.session.session_id]
    <3>1. /\ \A d \in initial, e \in started : d.session_id # e.session_id
          /\ \A d \in started, c \in completed : d.session_id # c.session.session_id
      BY <2>1 DEF StagesApart, Is, Idle
    <3>2. StagesApart(task[w])'
      BY <2>1, <2>2, <3>1 DEF StagesApart, Is
    <3>3. SessionInPlace(task[w])'
      BY <2>2 DEF SessionInPlace, CompletedIds
    <3> QED
      BY <3>2, <3>3
  <2>3. CASE completed' = completed /\ task'[w] = Idle
    BY <1>0, <2>1, <2>3, StagesStay, OthersInPlace
  <2> QED
    BY <1>5, <2>2, <2>3 DEF ContinueInsert, InsertCompleted, Answer, Goto, TypeOK
<1>6. CASE ContinueDelete(w)
  <2>1. /\ k.pc = "continue_delete" /\ initial' = initial /\ completed' = completed
        /\ started' = {d \in started : d.session_id # k.session_id} /\ task'[w] = Idle
    BY <1>6 DEF ContinueDelete, DeleteStarted, Answer, Goto, TypeOK
  <2>2. StagesApart(task[w])'
    BY <2>1 DEF StagesApart, Is, Idle
  <2> QED
    BY <1>0, <2>1, <2>2, OthersInPlace
<1> QED
  BY <1>1, <1>2, <1>3, <1>4, <1>5, <1>6

(* Finish, cancel, and the handlers that move no session.                  *)
LEMMA FinishSteps ==
    ASSUME TypeOK, SessionTermsFixed, NEW w \in Workers, StagesApart(task[w]),
           SessionInPlace(task[w]),
           \/ FinishInsert(w) \/ FinishDelete(w) \/ CancelDelete(w) \/ CancelRevoke(w)
           \/ LinkRequest(w) \/ LinkStep(w) \/ DeleteExpired(w) \/ ManagementStep(w)
    PROVE  StagesApart(task[w])' /\ SessionInPlace(task[w])'
<1> USE DEF At
<1> DEFINE k == task[w]
<1>0. NoSession(Idle)
  BY DEF NoSession, Idle
<1>1. CASE FinishInsert(w)
  <2>1. /\ k.pc = "finish_insert" /\ UNCHANGED <<initial, started, completed>>
        /\ \/ task'[w] = Idle
           \/ /\ task'[w] = [pc |-> "finish_delete", session_id |-> k.session_id]
              /\ k.link \in links'
    BY <1>1 DEF FinishInsert, CreateLinkRecord, Answer, Goto, TypeOK
  <2>2. StagesApart(task[w])'
    BY <2>1, StagesStay
  <2>3. CASE task'[w] # Idle
    BY <2>1, <2>2, <2>3 DEF SessionInPlace, CompletedSessions
  <2> QED
    BY <1>0, <2>2, <2>3, OthersInPlace
<1>2. CASE FinishDelete(w) \/ CancelDelete(w) \/ CancelRevoke(w)
  <2>1. /\ k.pc \in {"finish_delete", "cancel_delete", "cancel_revoke"}
        /\ UNCHANGED <<initial, started>> /\ completed' \subseteq completed
        /\ task'[w].pc \in {"idle", "cancel_revoke"}
    BY <1>2 DEF FinishDelete, CancelDelete, CancelRevoke, DeleteCompleted, Answer, Goto, TypeOK,
                storageVars, Idle
  <2>2. NoSession(task'[w])
    BY <2>1 DEF NoSession
  <2> QED
    BY <2>1, <2>2, StagesStay, OthersInPlace
<1>3. CASE LinkRequest(w) \/ LinkStep(w)
  <2>1. k.pc \in {"idle", "unlink_revoke", "unlink_delete", "refresh_call", "refresh_save"}
    <3>1. LinkRequest(w) => k = Idle
      BY DEF LinkRequest, Unlink, UseLink, RefreshTokens, Accept
    <3>2. LinkStep(w) =>
            k.pc \in {"unlink_revoke", "unlink_delete", "refresh_call", "refresh_save"}
      BY DEF LinkStep, UnlinkRevoke, UnlinkDelete, RefreshCall, RefreshSave
    <3> QED
      BY <1>3, <3>1, <3>2 DEF Idle
  <2>2. UNCHANGED <<initial, started, completed>>
    BY <1>3 DEF LinkRequest, Unlink, UseLink, RefreshTokens, LinkStep, UnlinkRevoke,
                UnlinkDelete, RefreshCall, RefreshSave, storageVars
  <2>3. task'[w].pc \in {"idle", "unlink_revoke", "unlink_delete", "refresh_call",
                         "refresh_save"}
    BY <1>3 DEF LinkRequest, Unlink, UseLink, RefreshTokens, Accept, LinkStep, UnlinkRevoke,
                UnlinkDelete, RefreshCall, RefreshSave, Answer, Goto, TypeOK, Idle
  <2>4. NoSession(task'[w])
    BY <2>3 DEF NoSession
  <2> QED
    BY <2>1, <2>2, <2>4, StagesStay, OthersInPlace
<1>4. CASE DeleteExpired(w) \/ ManagementStep(w)
  <2>1. /\ k.pc \in Cleaning \cup {"idle"}
        /\ initial' \subseteq initial /\ started' \subseteq started
        /\ completed' \subseteq completed
    BY <1>4 DEF DeleteExpired, Accept, ManagementStep, CleanupList, CleanupRevoke,
                CleanupInitial, CleanupStarted, CleanupCompleted, Cleaning, Idle,
                DeleteExpiredInitial, DeleteExpiredStarted, DeleteExpiredCompleted, storageVars
  <2>2. task'[w].pc \in Cleaning \cup {"idle"}
    BY <1>4 DEF DeleteExpired, Accept, ManagementStep, CleanupList, CleanupRevoke,
                CleanupInitial, CleanupStarted, CleanupCompleted, RevokeOrDelete, Answer, Goto,
                TypeOK, Cleaning, Idle
  <2>3. NoSession(task'[w])
    BY <2>2 DEF NoSession, Cleaning
  <2> QED
    BY <2>1, <2>3, StagesStay, OthersInPlace DEF Cleaning
<1> QED
  BY <1>1, <1>2, <1>3, <1>4

(* In sum.                                                                 *)
LEMMA SessionsStep ==
    ASSUME TypeOK, SessionTermsFixed, NEW w \in Workers, StagesApart(task[w]),
           SessionInPlace(task[w]), Request(w) \/ Step(w)
    PROVE  StagesApart(task[w])' /\ SessionInPlace(task[w])'
BY SessionRequests, StartSteps, ContinueSteps, FinishSteps DEF Request, Step, LinkingStep

-----------------------------------------------------------------------------
(* Tokens.                                                                 *)

(* Deleting documents keeps tokens apart, but for finish.                  *)
LEMMA TokensStay ==
    ASSUME NEW w, TokensApart(task[w]), task[w].pc # "finish_delete",
           links' \subseteq links, completed' \subseteq completed
    PROVE  TokensApart(task[w])'
BY DEF TokensApart, Is

(* The handlers that hold no token and are not cleaning up.                *)
NoToken(k) ==
    k.pc \notin {"continue_check", "continue_find", "continue_insert", "cancel_revoke",
                 "unlink_revoke", "refresh_call", "refresh_save"} \cup Cleaning

(* So they leave none in hand.                                             *)
LEMMA NoneInPlace ==
    ASSUME NEW w, NoToken(task'[w])
    PROVE  TokenInPlace(task[w])'
BY DEF NoToken, Cleaning, TokenInPlace

(* What ORCID grants is in no document yet.                                *)
LEMMA NewUnstored ==
    ASSUME TypeOK, TokensGranted, NEW a, a.token = minted + 1
    PROVE  Unstored(a)
<1>1. minted \in Nat
  BY GrantsGrow
<1> QED
  BY <1>1 DEF Unstored, TokensGranted, TypeOK, StorageTypeOK, LinkRecord,
              LinkingSessionComplete, ORCIDAuth

(* The handlers that only move sessions.                                   *)
LEMMA MovesKeepTokens ==
    ASSUME TypeOK, NEW w \in Workers, TokensApart(task[w]),
           \/ LinkingRequest(w) \/ CreateInsert(w) \/ StartFind(w) \/ StartInsert(w)
           \/ StartDelete(w) \/ ContinueReject(w) \/ ContinueDelete(w)
    PROVE  TokensApart(task[w])' /\ TokenInPlace(task[w])'
<1>1. UNCHANGED <<links, completed>>
  BY DEF LinkingRequest, Create, Start, Continue, Finish, Cancel, CreateInsert, StartFind,
         StartInsert, StartDelete, ContinueReject, ContinueDelete, storageVars
<1>2. task[w].pc # "finish_delete"
  <2>1. LinkingRequest(w) => task[w] = Idle
    BY DEF LinkingRequest, Create, Start, Continue, Finish, Cancel, Accept
  <2> QED
    BY <2>1 DEF CreateInsert, StartFind, StartInsert, StartDelete, ContinueReject,
                ContinueDelete, At, Idle
<1>3. task'[w].pc \in {"idle", "create_insert", "start_find", "start_insert", "start_delete",
                       "continue_exchange", "finish_insert", "cancel_delete"}
  BY DEF LinkingRequest, Create, Start, Continue, Finish, Cancel, Accept, CreateInsert,
         StartFind, StartInsert, StartDelete, RedirectToOrcid, ContinueReject, ContinueDelete,
         Answer, Goto, TypeOK, Idle
<1>4. NoToken(task'[w])
  BY <1>3 DEF NoToken, Cleaning
<1> QED
  BY <1>1, <1>2, <1>4, TokensStay, NoneInPlace

(* The token of a consent, until it is stored.                             *)
LEMMA ConsentKeepsTokens ==
    ASSUME TypeOK, TokensGranted, NEW w \in Workers, TokensApart(task[w]),
           TokenInPlace(task[w]),
           ContinueExchange(w) \/ ContinueCheck(w) \/ ContinueFind(w) \/ ContinueInsert(w)
    PROVE  TokensApart(task[w])' /\ TokenInPlace(task[w])'
<1> USE DEF At
<1> DEFINE k == task[w]
<1>0. NoToken(Idle)
  BY DEF NoToken, Cleaning, Idle
<1>1. CASE ContinueExchange(w)
  <2>1. k.pc = "continue_exchange" /\ UNCHANGED <<links, completed>>
    BY <1>1 DEF ContinueExchange, storageVars
  <2>2. TokensApart(task[w])'
    BY <2>1, TokensStay
  <2>3. ASSUME NEW o \in Orcids,
               Goto(w, [pc |-> "continue_check", session |-> k.session,
                        orcid_auth |-> NewAuth(o, k.username)])
        PROVE  TokenInPlace(task[w])'
    <3>1. PICK a : a = NewAuth(o, k.username)
      OBVIOUS
    <3>2. task'[w].pc = "continue_check" /\ task'[w].orcid_auth = a
      BY <2>3, <3>1 DEF Goto, TypeOK
    <3>3. Unstored(a)
      BY <3>1, NewUnstored DEF NewAuth
    <3> QED
      BY <2>1, <3>2, <3>3 DEF TokenInPlace, Unstored
  <2>4. CASE task'[w] = Idle
    <3>1. NoToken(task'[w])
      BY <1>0, <2>4
    <3> QED
      BY <2>2, <3>1, NoneInPlace
  <2> QED
    BY <1>1, <2>2, <2>3, <2>4 DEF ContinueExchange, Answer, Goto, TypeOK
<1>2. CASE ContinueCheck(w)
  <2>1. k.pc = "continue_check" /\ UNCHANGED <<links, completed>>
    BY <1>2 DEF ContinueCheck, storageVars
  <2>2. TokensApart(task[w])'
    BY <2>1, TokensStay
  <2>3. CASE LinksForOrcid(k.orcid_auth.orcid) # {}
    <3>1. task'[w].pc = "continue_reject"
      BY <1>2, <2>3 DEF ContinueCheck, Goto, TypeOK
    <3>2. NoToken(task'[w])
      BY <3>1 DEF NoToken, Cleaning
    <3> QED
      BY <2>2, <3>2, NoneInPlace
  <2>4. CASE LinksForOrcid(k.orcid_auth.orcid) = {}
    <3>1. k \in [pc : {"continue_check", "continue_find"}, session : LinkingSession,
                 orcid_auth : ORCIDAuth]
      BY <2>1 DEF TypeOK, Continuation, Idle
    <3>2. task'[w].pc = "continue_find" /\ task'[w].orcid_auth = k.orcid_auth
      BY <1>2, <2>4, <3>1 DEF ContinueCheck, Goto, TypeOK
    <3>3. TokenInPlace(task[w])'
      BY <2>1, <2>4, <3>2 DEF TokenInPlace, Unstored, LinksForOrcid
    <3> QED
      BY <2>2, <3>3
  <2> QED
    BY <2>3, <2>4
<1>3. CASE ContinueFind(w)
  <2>1. k.pc = "continue_find" /\ UNCHANGED <<links, completed>>
    BY <1>3 DEF ContinueFind, storageVars
  <2>2. TokensApart(task[w])'
    BY <2>1, TokensStay
  <2>3. ASSUME NEW d, Goto(w, [pc |-> "continue_insert",
                               doc |-> [session |-> d, orcid_auth |-> k.orcid_auth]])
        PROVE  TokenInPlace(task[w])'
    <3>1. task'[w].pc = "continue_insert" /\ task'[w].doc.orcid_auth = k.orcid_auth
      BY <2>3 DEF Goto, TypeOK
    <3> QED
      BY <2>1, <3>1 DEF TokenInPlace, Unstored, LinksForOrcid
  <2>4. CASE task'[w] = Idle
    <3>1. NoToken(task'[w])
      BY <1>0, <2>4
    <3> QED
      BY <2>2, <3>1, NoneInPlace
  <2> QED
    BY <1>3, <2>2, <2>3, <2>4 DEF ContinueFind, Answer, Goto, TypeOK
<1>4. CASE ContinueInsert(w)
  <2>1. k.pc = "continue_insert" /\ links' = links /\ Unstored(k.doc.orcid_auth)
    BY <1>4 DEF ContinueInsert, TokenInPlace
  <2>2. completed' = completed \/ completed' = completed \cup {k.doc}
    BY <1>4 DEF ContinueInsert, InsertCompleted
  <2>3. TokensApart(task[w])'
    BY <2>1, <2>2 DEF TokensApart, Unstored, Is
  <2>4. task'[w].pc \in {"idle", "continue_delete"}
    BY <1>4 DEF ContinueInsert, Answer, Goto, TypeOK, Idle
  <2>5. NoToken(task'[w])
    BY <2>4 DEF NoToken, Cleaning
  <2> QED
    BY <2>3, <2>5, NoneInPlace
<1> QED
  BY <1>1, <1>2, <1>3, <1>4

(* Finish, and cancel.                                                     *)
LEMMA FinishKeepsTokens ==
    ASSUME TypeOK, NEW w \in Workers, StagesApart(task[w]), SessionInPlace(task[w]),
           TokensApart(task[w]), TokenInPlace(task[w]),
           FinishInsert(w) \/ FinishDelete(w) \/ CancelDelete(w) \/ CancelRevoke(w)
    PROVE  TokensApart(task[w])' /\ TokenInPlace(task[w])'
<1> USE DEF At
<1> DEFINE k == task[w]
<1>0. NoToken(Idle)
  BY DEF NoToken, Cleaning, Idle
<1>1. CASE FinishInsert(w)
  <2>1. /\ k.pc = "finish_insert" /\ completed' = completed
        /\ \/ links' = links /\ task'[w] = Idle
           \/ /\ links' = links \cup {k.link}
              /\ task'[w] = [pc |-> "finish_delete", session_id |-> k.session_id]
    BY <1>1 DEF FinishInsert, CreateLinkRecord, Answer, Goto, TypeOK
  <2>2. PICK c \in completed :
          c.session.session_id = k.session_id /\ k.link.orcid_auth = c.orcid_auth
    BY <2>1 DEF SessionInPlace, CompletedSessions
  <2>3. TokensApart(task[w])'
    <3>1. CASE links' = links
      BY <2>1, <3>1, TokensStay
    <3>2. CASE /\ links' = links \cup {k.link}
               /\ task'[w] = [pc |-> "finish_delete", session_id |-> k.session_id]
      BY <2>1, <2>2, <3>2 DEF TokensApart, Is
    <3> QED
      BY <2>1, <3>1, <3>2
  <2>4. task'[w].pc \in {"idle", "finish_delete"}
    BY <2>1 DEF Idle
  <2>5. NoToken(task'[w])
    BY <2>4 DEF NoToken, Cleaning
  <2> QED
    BY <2>3, <2>5, NoneInPlace
<1>2. CASE FinishDelete(w)
  <2>1. /\ k.pc = "finish_delete" /\ links' = links /\ task'[w] = Idle
        /\ completed' = {c \in completed : c.session.session_id # k.session_id}
    BY <1>2 DEF FinishDelete, DeleteCompleted, Answer, Goto, TypeOK
  <2>2. TokensApart(task[w])'
    BY <2>1 DEF TokensApart, Is
  <2>3. NoToken(task'[w])
    BY <1>0, <2>1
  <2> QED
    BY <2>2, <2>3, NoneInPlace
<1>3. CASE CancelDelete(w)
  <2>1. /\ k.pc = "cancel_delete" /\ links' = links /\ k.doc \in completed
        /\ completed' = {c \in completed : c.session.session_id # k.doc.session.session_id}
        /\ task'[w] = [pc |-> "cancel_revoke", orcid_auth |-> k.doc.orcid_auth]
    BY <1>3 DEF CancelDelete, DeleteCompleted, Goto, TypeOK, SessionInPlace
  <2>2. TokensApart(task[w])'
    BY <2>1, TokensStay
  <2>3. PICK a : a = k.doc.orcid_auth
    OBVIOUS
  <2>4. /\ \A l \in links : l.orcid_auth # a
        /\ \A c \in completed' : c.orcid_auth # a
    BY <2>1, <2>3 DEF TokensApart, Is
  <2>5. TokenInPlace(task[w])'
    BY <2>1, <2>3, <2>4 DEF TokenInPlace, Unstored, Cleaning
  <2> QED
    BY <2>2, <2>5
<1>4. CASE CancelRevoke(w)
  <2>1. k.pc = "cancel_revoke" /\ UNCHANGED <<links, completed>> /\ task'[w] = Idle
    BY <1>4 DEF CancelRevoke, Answer, Goto, TypeOK, storageVars
  <2>2. NoToken(task'[w])
    BY <1>0, <2>1
  <2> QED
    BY <2>1, <2>2, TokensStay, NoneInPlace
<1> QED
  BY <1>1, <1>2, <1>3, <1>4

(* Removal and renewal of a link.                                          *)
LEMMA LinkKeepsTokens ==
    ASSUME TypeOK, TokensGranted, NEW w \in Workers, TokensApart(task[w]),
           TokenInPlace(task[w]), LinkRequest(w) \/ LinkStep(w)
    PROVE  TokensApart(task[w])' /\ TokenInPlace(task[w])'
<1> USE DEF At
<1> DEFINE k == task[w]
<1>0. NoToken(Idle)
  BY DEF NoToken, Cleaning, Idle
<1>1. ASSUME NEW u \in Users, Unlink(w, u) \/ UseLink(w, u) \/ RefreshTokens(w, u)
      PROVE  TokensApart(task[w])' /\ TokenInPlace(task[w])'
  <2>0. k = Idle /\ UNCHANGED <<links, completed>>
    BY <1>1 DEF Unlink, UseLink, RefreshTokens, Accept, storageVars
  <2>1. k.pc # "finish_delete" /\ UNCHANGED <<links, completed>>
    BY <2>0 DEF Idle
  <2>2. TokensApart(task[w])'
    BY <2>1, TokensStay
  <2>3. ASSUME NEW l \in LinksOf(u),
               Goto(w, [pc |-> "unlink_revoke", username |-> u, orcid_auth |-> l.orcid_auth])
        PROVE  TokenInPlace(task[w])'
    <3>1. task'[w] = [pc |-> "unlink_revoke", username |-> u, orcid_auth |-> l.orcid_auth]
      BY <2>3 DEF Goto, TypeOK
    <3> QED
      BY <2>1, <3>1 DEF TokenInPlace, Cleaning, LinksOf
  <2>4. ASSUME NEW l \in LinksOf(u), NEW r, r.username = u, r.orcid_auth = l.orcid_auth,
               Goto(w, [pc |-> "refresh_call", link |-> r])
        PROVE  TokenInPlace(task[w])'
    <3>1. task'[w] = [pc |-> "refresh_call", link |-> r]
      BY <2>4 DEF Goto, TypeOK
    <3> QED
      BY <2>1, <2>4, <3>1 DEF TokenInPlace, Cleaning, LinksOf
  <2>5. ASSUME NEW l \in LinksOf(u), NEW r \in {l, [l EXCEPT !.retires_at = now + RetirementAge]}
        PROVE  r.username = u /\ r.orcid_auth = l.orcid_auth
    BY <2>5 DEF LinksOf, TypeOK, StorageTypeOK, LinkRecord
  <2> QED
    BY <1>1, <2>2, <2>3, <2>4, <2>5 DEF Unlink, UseLink, RefreshTokens, Accept
<1>2. CASE UnlinkRevoke(w) \/ UnlinkDelete(w)
  <2>1. /\ k.pc \in {"unlink_revoke", "unlink_delete"}
        /\ links' \subseteq links /\ completed' = completed
        /\ task'[w].pc \in {"idle", "unlink_delete"}
    BY <1>2 DEF UnlinkRevoke, UnlinkDelete, DeleteLinkRecord, Answer, Goto, TypeOK, Idle,
                storageVars
  <2>2. NoToken(task'[w])
    BY <2>1 DEF NoToken, Cleaning
  <2> QED
    BY <2>1, <2>2, TokensStay, NoneInPlace
<1>3. CASE RefreshCall(w)
  <2>1. k.pc = "refresh_call" /\ UNCHANGED <<links, completed>>
    BY <1>3 DEF RefreshCall, storageVars
  <2>2. TokensApart(task[w])'
    BY <2>1, TokensStay
  <2>3. CASE Goto(w, [pc |-> "refresh_save", link |-> RefreshedLink(k.link)])
    <3>1. PICK r : r = RefreshedLink(k.link)
      OBVIOUS
    <3>2. task'[w].pc = "refresh_save" /\ task'[w].link = r
      BY <2>3, <3>1 DEF Goto, TypeOK
    <3>3. k.link \in LinkRecord
      BY <2>1, Locals DEF TypeOK
    <3>4. /\ r.username = k.link.username /\ r.orcid_auth.orcid = k.link.orcid_auth.orcid
          /\ r.orcid_auth.token = minted + 1
      BY <3>1, <3>3 DEF RefreshedLink, NewAuth, LinkRecord
    <3>5. Unstored(r.orcid_auth)
      BY <3>4, NewUnstored
    <3>6. \E l \in links : l.username = r.username /\ l.orcid_auth.orcid = r.orcid_auth.orcid
      BY <2>1, <3>4 DEF TokenInPlace, LinksOf
    <3> QED
      BY <2>1, <2>2, <3>2, <3>5, <3>6 DEF TokenInPlace, Cleaning, Unstored, LinksOf
  <2>4. CASE task'[w] = Idle
    <3>1. NoToken(task'[w])
      BY <1>0, <2>4
    <3> QED
      BY <2>2, <3>1, NoneInPlace
  <2> QED
    BY <1>3, <2>3, <2>4 DEF RefreshCall, Answer, Goto, TypeOK
<1>4. CASE RefreshSave(w)
  <2>1. /\ k.pc = "refresh_save" /\ completed' = completed /\ task'[w] = Idle
        /\ links' = {IF l.username = k.link.username THEN k.link ELSE l : l \in links}
        /\ Unstored(k.link.orcid_auth)
    BY <1>4 DEF RefreshSave, SaveLinkRecord, Answer, Goto, TypeOK, TokenInPlace
  <2>2. \A m \in links' : m = k.link \/ m \in links
    BY <2>1
  <2>3. TokensApart(task[w])'
    BY <2>1, <2>2 DEF TokensApart, Unstored, Is
  <2>4. NoToken(task'[w])
    BY <1>0, <2>1
  <2> QED
    BY <2>3, <2>4, NoneInPlace
<1> QED
  BY <1>1, <1>2, <1>3, <1>4 DEF LinkRequest, LinkStep

(* The cleanup: its tokens are those of sessions that have expired.        *)
LEMMA CleanupKeepsTokens ==
    ASSUME TypeOK, NEW w \in Workers, TokensApart(task[w]), TokenInPlace(task[w]),
           DeleteExpired(w) \/ ManagementStep(w)
    PROVE  TokensApart(task[w])' /\ TokenInPlace(task[w])'
<1> USE DEF At
<1> DEFINE k == task[w]
<1>1. /\ k.pc \in Cleaning \cup {"idle"} /\ now' = now
      /\ links' = links /\ completed' \subseteq completed
  BY DEF DeleteExpired, Accept, ManagementStep, CleanupList, CleanupRevoke, CleanupInitial,
         CleanupStarted, CleanupCompleted, DeleteExpiredCompleted, Cleaning, Idle, storageVars
<1>2. TokensApart(task[w])'
  BY <1>1, TokensStay DEF Cleaning
<1>3. ASSUME \/ task'[w] = Idle
             \/ task'[w].pc \in Cleaning \ {"cleanup_revoke"} /\ task'[w].at = now
      PROVE  TokenInPlace(task[w])'
  BY <1>1, <1>3 DEF TokenInPlace, Cleaning, Idle
<1>4. CASE DeleteExpired(w) \/ CleanupInitial(w) \/ CleanupStarted(w) \/ CleanupCompleted(w)
  <2>1. k.pc \in {"cleanup_initial", "cleanup_started", "cleanup_completed"} => k.at = now
    BY DEF TokenInPlace
  <2> QED
    BY <1>2, <1>3, <1>4, <2>1 DEF DeleteExpired, CleanupInitial, CleanupStarted,
       CleanupCompleted, Accept, Answer, Goto, TypeOK, Cleaning
<1>5. ASSUME completed' = completed,
             NEW A \in SUBSET {c.orcid_auth : c \in ExpiredCompleted(now)},
             RevokeOrDelete(w, A)
      PROVE  TokenInPlace(task[w])'
  <2>1. CASE task'[w] = [pc |-> "cleanup_revoke", auths |-> A]
    BY <1>1, <1>5, <2>1 DEF TokenInPlace, ExpiredCompleted, Expired
  <2>2. CASE task'[w] = [pc |-> "cleanup_initial", at |-> now]
    BY <1>3, <2>2 DEF Cleaning
  <2> QED
    BY <1>5, <2>1, <2>2 DEF RevokeOrDelete, Goto, TypeOK
<1>6. CASE CleanupList(w)
  <2>1. k.at = now /\ completed' = completed
    BY <1>6 DEF CleanupList, TokenInPlace, storageVars
  <2>2. PICK P \in SUBSET ExpiredCompleted(now) : RevokeOrDelete(w, {c.orcid_auth : c \in P})
    BY <1>6, <2>1 DEF CleanupList, Page
  <2> QED
    BY <1>2, <1>5, <2>1, <2>2
<1>7. CASE CleanupRevoke(w)
  <2>1. /\ k.auths \subseteq {c.orcid_auth : c \in ExpiredCompleted(now)}
        /\ completed' = completed
    BY <1>7 DEF CleanupRevoke, TokenInPlace, storageVars
  <2>2. ASSUME NEW a \in k.auths, RevokeOrDelete(w, k.auths \ {a})
        PROVE  TokenInPlace(task[w])'
    BY <1>5, <2>1, <2>2
  <2>3. CASE task'[w] = Idle
    BY <1>2, <1>3, <2>3
  <2> QED
    BY <1>2, <1>7, <2>2, <2>3 DEF CleanupRevoke, Answer, Goto, TypeOK
<1> QED
  BY <1>4, <1>6, <1>7 DEF ManagementStep

(* In sum.                                                                 *)
LEMMA TokensStep ==
    ASSUME TypeOK, TokensGranted, NEW w \in Workers, Consistent(task[w]),
           Request(w) \/ Step(w)
    PROVE  TokensApart(task[w])' /\ TokenInPlace(task[w])'
BY MovesKeepTokens, ConsentKeepsTokens, FinishKeepsTokens, LinkKeepsTokens, CleanupKeepsTokens
   DEF Request, Step, LinkingStep, Consistent

-----------------------------------------------------------------------------
(* Tokens that work, as long as nothing fails.                             *)

(* The handlers that are not about tokens leave them as they are.          *)
LEMMA HonouredStay ==
    ASSUME NEW w, Honoured(task[w]),
           task[w].pc \notin {"refresh_save", "unlink_delete"} \cup Cleaning,
           task'[w].pc \notin {"refresh_save", "unlink_delete", "continue_check",
                               "continue_find", "continue_insert"},
           links' \subseteq links, completed' \subseteq completed, live \subseteq live'
    PROVE  Honoured(task[w])'
BY DEF Honoured, Cleaning

(* Those that only move sessions, and those that have just been called.    *)
LEMMA MovesHonour ==
    ASSUME TypeOK, NEW w \in Workers, Honoured(task[w]),
           \/ LinkingRequest(w) \/ CreateInsert(w) \/ StartFind(w) \/ StartInsert(w)
           \/ StartDelete(w) \/ ContinueReject(w) \/ ContinueDelete(w) \/ FinishDelete(w)
           \/ CancelDelete(w) \/ LinkRequest(w) \/ DeleteExpired(w)
    PROVE  Honoured(task[w])'
<1>1. LinkingRequest(w) \/ LinkRequest(w) \/ DeleteExpired(w) => task[w] = Idle
  BY DEF LinkingRequest, Create, Start, Continue, Finish, Cancel, LinkRequest, Unlink, UseLink,
         RefreshTokens, DeleteExpired, Accept
<1>2. task[w].pc \notin {"refresh_save", "unlink_delete"} \cup Cleaning
  BY <1>1 DEF CreateInsert, StartFind, StartInsert, StartDelete, ContinueReject,
              ContinueDelete, FinishDelete, CancelDelete, At, Idle, Cleaning
<1>3. links' = links /\ completed' \subseteq completed /\ live' = live
  BY DEF LinkingRequest, Create, Start, Continue, Finish, Cancel, LinkRequest, Unlink, UseLink,
         RefreshTokens, DeleteExpired, CreateInsert, StartFind, StartInsert, StartDelete,
         RedirectToOrcid, ContinueReject, ContinueDelete, FinishDelete, CancelDelete,
         DeleteCompleted, storageVars, authorityVars
<1>4. task'[w].pc \in {"idle", "create_insert", "start_find", "start_insert", "start_delete",
                       "continue_exchange", "finish_insert", "cancel_delete", "cancel_revoke",
                       "unlink_revoke", "refresh_call", "cleanup_list"}
  BY DEF LinkingRequest, Create, Start, Continue, Finish, Cancel, LinkRequest, Unlink, UseLink,
         RefreshTokens, DeleteExpired, Accept, CreateInsert, StartFind, StartInsert,
         StartDelete, RedirectToOrcid, ContinueReject, ContinueDelete, FinishDelete,
         CancelDelete, Answer, Goto, TypeOK, Idle
<1> QED
  BY <1>2, <1>3, <1>4, HonouredStay

(* A token works from its consent to its confirmation.                     *)
LEMMA ConsentHonours ==
    ASSUME TypeOK, NEW w \in Workers, Consistent(task[w]), Honoured(task[w]), ~SpendFault,
           \/ ContinueExchange(w) \/ ContinueCheck(w) \/ ContinueFind(w) \/ ContinueInsert(w)
           \/ FinishInsert(w)
    PROVE  Honoured(task[w])'
<1> USE DEF At
<1> DEFINE k == task[w]
<1>1. CASE ContinueExchange(w)
  <2>1. k.pc = "continue_exchange" /\ UNCHANGED <<links, completed>>
    BY <1>1 DEF ContinueExchange, storageVars
  <2>2. ASSUME NEW o \in Orcids, Grants(NewAuth(o, k.username), {}),
               Goto(w, [pc |-> "continue_check", session |-> k.session,
                        orcid_auth |-> NewAuth(o, k.username)])
        PROVE  Honoured(task[w])'
    <3>1. PICK a : a = NewAuth(o, k.username)
      OBVIOUS
    <3>2. task'[w].pc = "continue_check" /\ task'[w].orcid_auth = a /\ live' = live \cup {a}
      BY <2>2, <3>1 DEF Goto, TypeOK, Grants
    <3> QED
      BY <2>1, <3>2 DEF Honoured, Cleaning
  <2>3. CASE task'[w] = Idle /\ live' = live
    BY <2>1, <2>3, HonouredStay DEF Idle, Cleaning
  <2> QED
    BY <1>1, <2>2, <2>3 DEF ContinueExchange, Refuses, Answer, Goto, TypeOK
<1>2. CASE ContinueCheck(w)
  <2>1. k.pc = "continue_check" /\ UNCHANGED <<links, completed, live>>
    BY <1>2 DEF ContinueCheck, storageVars, authorityVars
  <2>2. CASE Goto(w, [pc |-> "continue_reject", session_id |-> k.session.session_id])
    <3>1. task'[w].pc = "continue_reject"
      BY <2>2 DEF Goto, TypeOK
    <3> QED
      BY <2>1, <3>1, HonouredStay DEF Cleaning
  <2>3. CASE Goto(w, [k EXCEPT !.pc = "continue_find"])
    <3>1. k \in [pc : {"continue_check", "continue_find"}, session : LinkingSession,
                 orcid_auth : ORCIDAuth]
      BY <2>1 DEF TypeOK, Continuation, Idle
    <3>2. task'[w].pc = "continue_find" /\ task'[w].orcid_auth = k.orcid_auth
      BY <2>3, <3>1 DEF Goto, TypeOK
    <3> QED
      BY <2>1, <3>2 DEF Honoured, Cleaning
  <2> QED
    BY <1>2, <2>2, <2>3 DEF ContinueCheck
<1>3. CASE ContinueFind(w)
  <2>1. k.pc = "continue_find" /\ UNCHANGED <<links, completed, live>>
    BY <1>3 DEF ContinueFind, storageVars, authorityVars
  <2>2. ASSUME NEW d, Goto(w, [pc |-> "continue_insert",
                               doc |-> [session |-> d, orcid_auth |-> k.orcid_auth]])
        PROVE  Honoured(task[w])'
    <3>1. task'[w].pc = "continue_insert" /\ task'[w].doc.orcid_auth = k.orcid_auth
      BY <2>2 DEF Goto, TypeOK
    <3> QED
      BY <2>1, <3>1 DEF Honoured, Cleaning
  <2>3. CASE task'[w] = Idle
    BY <2>1, <2>3, HonouredStay DEF Idle, Cleaning
  <2> QED
    BY <1>3, <2>2, <2>3 DEF ContinueFind, Answer, Goto, TypeOK
<1>4. CASE ContinueInsert(w)
  <2>1. /\ k.pc = "continue_insert" /\ UNCHANGED <<links, live>>
        /\ completed' = completed \/ completed' = completed \cup {k.doc}
        /\ task'[w].pc \in {"idle", "continue_delete"}
    BY <1>4 DEF ContinueInsert, InsertCompleted, Answer, Goto, TypeOK, Idle, authorityVars
  <2> QED
    BY <2>1 DEF Honoured, Cleaning
<1>5. CASE FinishInsert(w)
  <2>1. /\ k.pc = "finish_insert" /\ UNCHANGED <<completed, live>>
        /\ links' = links \/ links' = links \cup {k.link}
        /\ task'[w].pc \in {"idle", "finish_delete"}
    BY <1>5 DEF FinishInsert, CreateLinkRecord, Answer, Goto, TypeOK, Idle, authorityVars
  <2>2. k.link.orcid_auth \in live
    BY <2>1 DEF Consistent, SessionInPlace, CompletedSessions, Honoured, Cleaning
  <2> QED
    BY <2>1, <2>2 DEF Honoured, Cleaning
<1> QED
  BY <1>1, <1>2, <1>3, <1>4, <1>5

(* Cancelling, removal and renewal: what they make useless is no other's.  *)
LEMMA LinkHonours ==
    ASSUME TypeOK, OwnInv, OneLinkEach, TokensGranted, NEW w \in Workers,
           Consistent(task[w]), Honoured(task[w]), ~SpendFault,
           CancelRevoke(w) \/ LinkStep(w)
    PROVE  Honoured(task[w])'
<1> USE DEF At
<1> DEFINE k == task[w]
<1>1. CASE CancelRevoke(w)
  <2>1. /\ k.pc = "cancel_revoke" /\ UNCHANGED <<links, completed>> /\ task'[w] = Idle
        /\ live' = live \ {k.orcid_auth} /\ Unstored(k.orcid_auth)
    BY <1>1 DEF CancelRevoke, RevokeAnswered, RevokeRaises, RevocationSilentlyFails, Revokes,
                Answer, Goto, TypeOK, storageVars, Consistent, TokenInPlace
  <2> QED
    BY <2>1 DEF Honoured, Unstored, Cleaning, Idle
<1>2. CASE UnlinkRevoke(w)
  <2>1. /\ k.pc = "unlink_revoke" /\ UNCHANGED <<links, completed>>
        /\ task'[w] = [pc |-> "unlink_delete", username |-> k.username]
        /\ live' = live \ {k.orcid_auth}
    BY <1>2 DEF UnlinkRevoke, RevokeAnswered, RevokeRaises, RevocationSilentlyFails, Revokes,
                Goto, TypeOK, storageVars
  <2>2. PICK l \in links : l.username = k.username /\ l.orcid_auth = k.orcid_auth
    BY <2>1 DEF Consistent, TokenInPlace, LinksOf
  <2>3. \A m \in links : m.orcid_auth = k.orcid_auth <=> m.username = k.username
    BY <2>2 DEF OneLinkEach, OwnInv, TokensOwnedByHolder
  <2>4. \A c \in completed : c.orcid_auth # k.orcid_auth
    BY <2>1, <2>2 DEF Consistent, TokensApart, Is
  <2> QED
    BY <2>1, <2>3, <2>4 DEF Honoured, Cleaning
<1>3. CASE UnlinkDelete(w)
  <2>1. /\ k.pc = "unlink_delete" /\ UNCHANGED <<completed, live>> /\ task'[w] = Idle
        /\ links' = {l \in links : l.username # k.username}
    BY <1>3 DEF UnlinkDelete, DeleteLinkRecord, Answer, Goto, TypeOK, authorityVars
  <2> QED
    BY <2>1 DEF Honoured, Cleaning, Idle
<1>4. CASE RefreshCall(w)
  <2>1. k.pc = "refresh_call" /\ UNCHANGED <<links, completed>>
    BY <1>4 DEF RefreshCall, storageVars
  <2>2. CASE task'[w] = Idle /\ live' = live
    BY <2>1, <2>2, HonouredStay DEF Idle, Cleaning
  <2>3. CASE /\ Grants(RefreshedLink(k.link).orcid_auth, {k.link.orcid_auth})
             /\ Goto(w, [pc |-> "refresh_save", link |-> RefreshedLink(k.link)])
    <3>1. PICK r : r = RefreshedLink(k.link)
      OBVIOUS
    <3>2. /\ task'[w].pc = "refresh_save" /\ task'[w].link = r
          /\ live' = (live \ {k.link.orcid_auth}) \cup {r.orcid_auth}
      BY <2>3, <3>1 DEF Goto, TypeOK, Grants
    <3>3. k.link \in LinkRecord
      BY <2>1, Locals DEF TypeOK
    <3>4. r.username = k.link.username /\ r.orcid_auth.token = minted + 1
      BY <3>1, <3>3 DEF RefreshedLink, NewAuth, LinkRecord
    <3>5. Unstored(r.orcid_auth)
      BY <3>4, NewUnstored
    <3>6. PICK l \in links : l.username = r.username /\ l.orcid_auth = k.link.orcid_auth
      BY <2>1, <3>4 DEF Consistent, TokenInPlace, LinksOf
    <3>7. \A m \in links : m.orcid_auth = k.link.orcid_auth <=> m.username = r.username
      BY <3>6 DEF OneLinkEach, OwnInv, TokensOwnedByHolder
    <3>8. \A c \in completed : c.orcid_auth # k.link.orcid_auth
      BY <2>1, <3>6 DEF Consistent, TokensApart, Is
    <3> QED
      BY <2>1, <3>2, <3>5, <3>7, <3>8 DEF Honoured, Cleaning, Unstored
  <2> QED
    BY <1>4, <2>2, <2>3
       DEF RefreshCall, Refuses, Answer, Goto, TypeOK, authorityVars
<1>5. CASE RefreshSave(w)
  <2>1. /\ k.pc = "refresh_save" /\ UNCHANGED <<completed, live>> /\ task'[w] = Idle
        /\ links' = {IF l.username = k.link.username THEN k.link ELSE l : l \in links}
    BY <1>5 DEF RefreshSave, SaveLinkRecord, Answer, Goto, TypeOK, authorityVars
  <2>2. \A m \in links' : m = k.link \/ (m \in links /\ m.username # k.link.username)
    <3> SUFFICES ASSUME NEW m \in links'
                 PROVE  m = k.link \/ (m \in links /\ m.username # k.link.username)
      OBVIOUS
    <3>1. PICK l \in links : m = IF l.username = k.link.username THEN k.link ELSE l
      BY <2>1
    <3> QED
      BY <3>1
  <2> QED
    BY <2>1, <2>2 DEF Honoured, Cleaning, Idle
<1> QED
  BY <1>1, <1>2, <1>3, <1>4, <1>5 DEF LinkStep

(* The cleanup revokes what has expired, which no link has, and deletes it.*)
LEMMA CleanupHonours ==
    ASSUME TypeOK, NEW w \in Workers, Consistent(task[w]), Honoured(task[w]), ~SpendFault,
           ManagementStep(w)
    PROVE  Honoured(task[w])'
<1> USE DEF At
<1> DEFINE k == task[w]
<1>1. k.pc \in Cleaning /\ links' = links /\ now' = now
  BY DEF ManagementStep, CleanupList, CleanupRevoke, CleanupInitial, CleanupStarted,
         CleanupCompleted, Cleaning, storageVars
<1>2. CASE CleanupList(w) \/ CleanupInitial(w) \/ CleanupStarted(w)
  <2>1. completed' = completed /\ live' = live
    BY <1>2 DEF CleanupList, CleanupInitial, CleanupStarted, storageVars, authorityVars
  <2>2. task'[w].pc \in Cleaning
    BY <1>2 DEF CleanupList, CleanupInitial, CleanupStarted, RevokeOrDelete, Goto, TypeOK,
                Cleaning
  <2> QED
    BY <1>1, <2>1, <2>2 DEF Honoured, Cleaning
<1>3. CASE CleanupRevoke(w)
  <2>1. PICK a \in k.auths : live' = live \ {a} /\ RevokeOrDelete(w, k.auths \ {a})
    BY <1>3 DEF CleanupRevoke, RevokeAnswered, RevokeRaises, RevocationSilentlyFails, Revokes
  <2>2. completed' = completed /\ k.pc = "cleanup_revoke"
    BY <1>3 DEF CleanupRevoke, storageVars
  <2>3. PICK c \in completed : Expired(c.session, now) /\ a = c.orcid_auth
    BY <2>1, <2>2 DEF Consistent, TokenInPlace, ExpiredCompleted
  <2>4. /\ \A b \in completed : b.orcid_auth = a => b = c
        /\ \A l \in links : l.orcid_auth # a
    BY <2>2, <2>3 DEF Consistent, TokensApart, Is
  <2>5. task'[w].pc \in Cleaning
    BY <2>1 DEF RevokeOrDelete, Goto, TypeOK, Cleaning
  <2> QED
    BY <1>1, <2>1, <2>2, <2>3, <2>4, <2>5 DEF Honoured, Cleaning, Expired
<1>4. CASE CleanupCompleted(w)
  <2>1. /\ completed' = completed \ ExpiredCompleted(now) /\ live' = live
        /\ task'[w] = Idle /\ k.pc = "cleanup_completed"
    BY <1>4 DEF CleanupCompleted, DeleteExpiredCompleted, Answer, Goto, TypeOK, authorityVars,
                Consistent, TokenInPlace
  <2> QED
    BY <1>1, <2>1 DEF Honoured, Cleaning, ExpiredCompleted, Idle
<1> QED
  BY <1>2, <1>3, <1>4 DEF ManagementStep

(* In sum.                                                                 *)
LEMMA HonouredStep ==
    ASSUME TypeOK, OwnInv, OneLinkEach, TokensGranted, NEW w \in Workers,
           Consistent(task[w]), Honoured(task[w]), ~SpendFault, Request(w) \/ Step(w)
    PROVE  Honoured(task[w])'
BY MovesHonour, ConsentHonours, LinkHonours, CleanupHonours DEF Request, Step, LinkingStep

-----------------------------------------------------------------------------
(* What the cleanup deletes it has revoked, if it has listed it all.       *)

(* There are no more completed sessions than sessions, hence one page.     *)
LEMMA WholePage ==
    ASSUME TypeOK, NEW k, StagesApart(k), OnePage, NEW S \in SUBSET completed,
           NEW P \in Page(S)
    PROVE  P = S
<1> DEFINE f == [c \in S |-> c.session.session_id]
<1>1. f \in Injection(S, SessionIds)
  <2>1. f \in [S -> SessionIds]
    BY DEF TypeOK, StorageTypeOK, LinkingSessionComplete, LinkingSession
  <2>2. \A b, c \in S : f[b] = f[c] => b = c
    BY DEF StagesApart
  <2> QED
    BY <2>1, <2>2 DEF Injection, IsInjective
<1>2. IsFiniteSet(S) /\ Cardinality(S) <= PageSize
  <2>1. IsFiniteSet(S) /\ Cardinality(S) <= Cardinality(SessionIds)
    BY <1>1, FS_Injection DEF OnePage
  <2>2. Cardinality(S) \in Nat /\ Cardinality(SessionIds) \in Nat
    BY <2>1, FS_CardinalityType DEF OnePage
  <2> QED
    BY <2>1, <2>2, ManagementAssumption DEF OnePage
<1>3. CASE P \subseteq S /\ Cardinality(P) = PageSize
  <2>1. Cardinality(P) <= Cardinality(S) /\ (Cardinality(S) = Cardinality(P) => S = P)
    BY <1>2, <1>3, FS_Subset
  <2>2. Cardinality(S) \in Nat
    BY <1>2, FS_CardinalityType
  <2> QED
    BY <1>2, <1>3, <2>1, <2>2, ManagementAssumption
<1> QED
  BY <1>3 DEF Page

(* Every token on the list is revoked before the first deletion.           *)
LEMMA RevokedStep ==
    ASSUME TypeOK, NEW w \in Workers, Consistent(task[w]), Revoked(task[w]), OnePage,
           ~SpendFault, Request(w) \/ Step(w)
    PROVE  Revoked(task[w])'
<1> USE DEF At
<1> DEFINE k == task[w]
           Deleting == {"cleanup_initial", "cleanup_started", "cleanup_completed"}
<1>1. ASSUME task'[w].pc \notin {"cleanup_revoke"} \cup Deleting PROVE Revoked(task[w])'
  BY <1>1 DEF Revoked
<1>2. CASE CleanupList(w)
  <2>1. k.at = now /\ now' = now /\ completed' = completed /\ live' = live
    BY <1>2 DEF CleanupList, Consistent, TokenInPlace, storageVars, authorityVars
  <2>2. PICK P \in Page(ExpiredCompleted(now)) : RevokeOrDelete(w, {c.orcid_auth : c \in P})
    BY <1>2, <2>1 DEF CleanupList
  <2>3. P = ExpiredCompleted(now)
    BY <2>2, WholePage DEF Consistent, ExpiredCompleted
  <2>4. CASE task'[w] = [pc |-> "cleanup_revoke", auths |-> {c.orcid_auth : c \in P}]
    BY <2>1, <2>3, <2>4 DEF Revoked, ExpiredCompleted, Expired
  <2>5. CASE P = {} /\ task'[w] = [pc |-> "cleanup_initial", at |-> now]
    BY <2>1, <2>3, <2>5 DEF Revoked, ExpiredCompleted, Expired
  <2> QED
    BY <2>2, <2>4, <2>5 DEF RevokeOrDelete, Goto, TypeOK
<1>3. CASE CleanupRevoke(w)
  <2>1. /\ k.pc = "cleanup_revoke" /\ now' = now /\ completed' = completed
        /\ \A c \in ExpiredCompleted(now) : c.orcid_auth \in live => c.orcid_auth \in k.auths
    BY <1>3 DEF CleanupRevoke, Revoked, storageVars
  <2>2. PICK a \in k.auths : live' = live \ {a} /\ RevokeOrDelete(w, k.auths \ {a})
    BY <1>3 DEF CleanupRevoke, RevokeAnswered, RevokeRaises, RevocationSilentlyFails, Revokes
  <2>3. CASE task'[w] = [pc |-> "cleanup_revoke", auths |-> k.auths \ {a}]
    BY <2>1, <2>2, <2>3 DEF Revoked, ExpiredCompleted, Expired
  <2>4. CASE k.auths \ {a} = {} /\ task'[w] = [pc |-> "cleanup_initial", at |-> now]
    BY <2>1, <2>2, <2>4 DEF Revoked, ExpiredCompleted, Expired
  <2> QED
    BY <2>2, <2>3, <2>4 DEF RevokeOrDelete, Goto, TypeOK
<1>4. CASE CleanupInitial(w) \/ CleanupStarted(w)
  <2>1. /\ k.pc \in {"cleanup_initial", "cleanup_started"}
        /\ UNCHANGED <<now, completed, live>>
        /\ task'[w].pc \in Deleting
    BY <1>4 DEF CleanupInitial, CleanupStarted, Goto, TypeOK, authorityVars
  <2> QED
    BY <2>1 DEF Revoked, ExpiredCompleted, Expired
<1>5. CASE CleanupCompleted(w) \/ DeleteExpired(w)
  <2>1. task'[w].pc \in {"idle", "cleanup_list"}
    BY <1>5 DEF CleanupCompleted, DeleteExpired, Accept, Answer, Goto, TypeOK, Idle
  <2> QED
    BY <1>1, <2>1
<1>6. CASE LinkRequest(w) \/ LinkStep(w)
  <2>1. task'[w].pc \in {"idle", "unlink_revoke", "unlink_delete", "refresh_call",
                         "refresh_save"}
    BY <1>6 DEF LinkRequest, Unlink, UseLink, RefreshTokens, Accept, LinkStep, UnlinkRevoke,
                UnlinkDelete, RefreshCall, RefreshSave, Answer, Goto, TypeOK, Idle
  <2> QED
    BY <1>1, <2>1
<1>7. CASE (LinkingRequest(w) \/ LinkingStep(w)) /\ ~ContinueCheck(w)
  <2>1. task'[w].pc \in {"idle", "create_insert", "start_find", "start_insert",
                         "start_delete", "continue_exchange", "continue_check",
                         "continue_insert", "continue_delete", "finish_insert",
                         "finish_delete", "cancel_delete", "cancel_revoke"}
    BY <1>7
       DEF LinkingRequest, Create, Start, Continue, Finish, Cancel, Accept, LinkingStep,
           CreateInsert, StartFind, StartInsert, StartDelete, RedirectToOrcid,
           ContinueExchange, ContinueReject, ContinueFind, ContinueInsert, ContinueDelete,
           FinishInsert, FinishDelete, CancelDelete, CancelRevoke, Answer, Goto, TypeOK, Idle
  <2> QED
    BY <1>1, <2>1
<1>8. CASE ContinueCheck(w)
  <2>1. k \in [pc : {"continue_check", "continue_find"}, session : LinkingSession,
               orcid_auth : ORCIDAuth]
    BY <1>8 DEF ContinueCheck, TypeOK, Continuation, Idle
  <2>2. task'[w].pc \in {"continue_reject", "continue_find"}
    BY <1>8, <2>1 DEF ContinueCheck, Goto, TypeOK
  <2> QED
    BY <1>1, <2>2
<1> QED
  BY <1>2, <1>3, <1>4, <1>5, <1>6, <1>7, <1>8 DEF Request, Step, ManagementStep

-----------------------------------------------------------------------------
(* The invariant of a service that handles one request at a time.          *)

SerialFacts == TypeOK /\ OwnInv /\ SessionTermsFixed /\ OneLinkEach /\ TokensGranted

(* A step of the slot that is busy.                                        *)
LEMMA BusyStep ==
    ASSUME SerialFacts, NEW w \in Workers, Sound(task[w]), Request(w) \/ Step(w)
    PROVE  Sound(task[w])'
<1>1. Next
  BY DEF Next
<1>2. Consistent(task[w])'
  BY SessionsStep, TokensStep DEF SerialFacts, Sound, Consistent
<1>3. ASSUME faults' = 0 PROVE Honoured(task[w])' /\ (OnePage => Revoked(task[w])')
  <2>1. faults = 0 /\ ~SpendFault
    BY <1>1, <1>3, FaultsCount, NoFault DEF SerialFacts, TypeOK, AuthorityTypeOK
  <2> QED
    BY <2>1, HonouredStep, RevokedStep DEF SerialFacts, Sound
<1> QED
  BY <1>2, <1>3 DEF Sound, OnePage

(* Between requests: the clock, the manager and the users at ORCID.        *)
LEMMA IdleStep ==
    ASSUME SerialFacts, Sound(Idle), AdminDelete \/ Tick \/ OrcidWithdraws
    PROVE  Sound(Idle)'
<1>1. /\ links' = links /\ initial' \subseteq initial /\ started' \subseteq started
      /\ completed' \subseteq completed
      /\ live' = live \/ SpendFault
      /\ faults' = faults \/ SpendFault
  BY DEF AdminDelete, AdminDeleteInitial, AdminDeleteStarted, AdminDeleteCompleted,
         DeleteInitial, DeleteStarted, DeleteCompleted, Tick, OrcidWithdraws, storageVars,
         authorityVars
<1>2. StagesApart(Idle)' /\ TokensApart(Idle)'
  BY <1>1 DEF Sound, Consistent, StagesApart, TokensApart, Is, Idle
<1>3. SessionInPlace(Idle)' /\ TokenInPlace(Idle)'
  BY DEF SessionInPlace, TokenInPlace, Idle
<1>4. ASSUME faults' = 0 PROVE Honoured(Idle)' /\ Revoked(Idle)'
  <2>1. faults = 0 /\ live' = live
    BY <1>1, <1>4, NoFault DEF SerialFacts
  <2> QED
    BY <1>1, <2>1 DEF Sound, Honoured, Revoked, Cleaning, Idle
<1> QED
  BY <1>2, <1>3, <1>4 DEF Sound, Consistent

(* With the slot idle it does not matter which.                            *)
LEMMA IdleAlike ==
    ASSUME NEW v, task'[v] = Idle
    PROVE  Sound(task[v])' <=> Sound(Idle)'
BY DEF Sound, Consistent, StagesApart, TokensApart, SessionInPlace, TokenInPlace, Honoured,
       Revoked

(* Every step leaves the one slot that may be busy sound.                  *)
LEMMA SerialStep ==
    ASSUME SerialFacts, SerialInv, [SerialNext]_vars
    PROVE  SerialInv'
<1>1. ASSUME NEW w \in Workers, OthersIdle(w), Request(w) \/ Step(w) PROVE SerialInv'
  <2>1. Sound(task[w])'
    BY <1>1, BusyStep DEF SerialInv
  <2>2. \A v \in Workers \ {w} : task'[v] = Idle
    <3>1. PICK k : Goto(w, k)
      BY <1>1, OneSlot DEF SerialFacts
    <3> QED
      BY <1>1, <3>1 DEF SerialFacts, TypeOK, Goto, OthersIdle
  <2>3. AllIdle' => Sound(Idle)'
    BY <2>1, IdleAlike DEF AllIdle
  <2>4. ASSUME NEW v \in Workers, OthersIdle(v)' PROVE Sound(task[v])'
    <3>1. CASE v = w
      BY <2>1, <3>1
    <3>2. CASE v # w
      <4>1. task'[v] = Idle /\ task'[w] = Idle
        BY <2>2, <2>4, <3>2 DEF OthersIdle
      <4> QED
        BY <2>1, <4>1, IdleAlike
    <3> QED
      BY <3>1, <3>2
  <2>5. OthersIdle(w)'
    BY <2>2 DEF OthersIdle
  <2> QED
    BY <2>3, <2>4, <2>5 DEF SerialInv
<1>2. CASE AllIdle /\ (AdminDelete \/ Tick \/ OrcidWithdraws)
  <2>1. Sound(Idle)'
    BY <1>2, IdleStep DEF SerialInv
  <2>2. \A v \in Workers : task'[v] = Idle
    BY <1>2 DEF AllIdle, AdminDelete, AdminDeleteInitial, AdminDeleteStarted,
                AdminDeleteCompleted, Tick, OrcidWithdraws, requestVars
  <2> QED
    BY <2>1, <2>2, IdleAlike DEF SerialInv, AllIdle
<1>3. CASE UNCHANGED vars
  BY <1>3
     DEF vars, requestVars, storageVars, authorityVars, SerialInv, AllIdle, OthersIdle, Sound,
         Consistent, StagesApart, TokensApart, SessionInPlace, TokenInPlace, Honoured, Revoked,
         Is, Ids, CompletedIds, CompletedSessions, LinksOf, LinksForOrcid, Unstored,
         ExpiredCompleted
<1> QED
  BY <1>1, <1>2, <1>3 DEF SerialNext

(* The service starts with empty collections and no request in flight.     *)
LEMMA SerialStarts == Init => SerialInv /\ TokensGranted
<1> SUFFICES ASSUME Init PROVE SerialInv /\ TokensGranted
  OBVIOUS
<1>1. \A w \in Workers : task[w] = Idle
  BY DEF Init, RequestsInit
<1>2. Sound(Idle)
  BY DEF Init, StorageInit, Sound, Consistent, StagesApart, TokensApart, SessionInPlace,
         TokenInPlace, Honoured, Revoked, Cleaning, Idle
<1>3. TokensGranted
  BY <1>1 DEF Init, StorageInit, TokensGranted, HoldsGranted, Idle
<1> QED
  BY <1>1, <1>2, <1>3 DEF SerialInv, AllIdle

(* What the theorems follow from.                                          *)
LEMMA SerialAlways == SerialSpec => [](SerialFacts /\ SerialInv)
<1>1. SerialNext => Next
  BY DEF SerialNext, Next
<1>2. [SerialNext]_vars => [Next]_vars
  BY <1>1
<1>3. TypeOK /\ TypeOK' /\ OwnInv /\ TokensGranted /\ [Next]_vars => TokensGranted'
  BY GrantedStep
<1>4. SerialFacts /\ SerialInv /\ [SerialNext]_vars => SerialInv'
  BY SerialStep
<1> QED
  BY <1>2, <1>3, <1>4, SerialStarts, TypeCorrect, Ownership, SessionTerms, OneLink, PTL
     DEF SerialSpec, Spec, SerialFacts, OwnInv

-----------------------------------------------------------------------------
(* Between requests each session is in one place: start_linking_session    *)
(* and linking_sessions_continue move it with an insert and a delete, and  *)
(* finish_linking_session and delete_linking_session take it out, also     *)
(* where a command finds a duplicate or a call to ORCID fails.             *)
THEOREM OneStage == SerialSpec => []OneStagePerSession
<1>1. ASSUME SerialFacts, SerialInv, AllIdle, NEW s \in SessionIds
      PROVE  Cardinality(Sessions(initial, s)) + Cardinality(Sessions(started, s))
                + Cardinality(CompletedSessions(s)) <= 1
  <2>1. StagesApart(Idle) /\ SessionTermsFixed
    BY <1>1 DEF SerialInv, Sound, Consistent, SerialFacts
  <2>2. \A d, e \in initial \cup started : d.session_id = e.session_id => d = e
    BY <2>1, OneCopy
  <2>3. ASSUME NEW S, \A x, y \in S : x = y
        PROVE  Cardinality(S) = IF S = {} THEN 0 ELSE 1
    <3>1. CASE S = {}
      BY <3>1, FS_EmptySet
    <3>2. CASE S # {}
      <4>1. PICK x : S = {x}
        BY <2>3, <3>2
      <4> QED
        BY <4>1, FS_Singleton
    <3> QED
      BY <3>1, <3>2
  <2>4. /\ \A d, e \in Sessions(initial, s) : d = e
        /\ \A d, e \in Sessions(started, s) : d = e
        /\ \A b, c \in CompletedSessions(s) : b = c
    BY <2>1, <2>2 DEF Sessions, CompletedSessions, StagesApart
  <2>5. /\ Sessions(initial, s) = {} \/ Sessions(started, s) = {}
        /\ Sessions(started, s) = {} \/ CompletedSessions(s) = {}
        /\ Sessions(initial, s) = {} \/ CompletedSessions(s) = {}
    BY <2>1 DEF Sessions, CompletedSessions, StagesApart, Is, Idle
  <2>6. /\ Cardinality(Sessions(initial, s)) = IF Sessions(initial, s) = {} THEN 0 ELSE 1
        /\ Cardinality(Sessions(started, s)) = IF Sessions(started, s) = {} THEN 0 ELSE 1
        /\ Cardinality(CompletedSessions(s)) = IF CompletedSessions(s) = {} THEN 0 ELSE 1
    BY <2>3, <2>4
  <2> QED
    BY <2>5, <2>6
<1>2. SerialFacts /\ SerialInv => OneStagePerSession
  BY <1>1 DEF OneStagePerSession
<1> QED
  BY <1>2, SerialAlways, PTL

(* Between requests no link shares its token with a session that can still *)
(* be cancelled or cleaned up: finish_linking_session deletes the session  *)
(* whose token it has put into the link.                                   *)
THEOREM UnsharedTokens == SerialSpec => []LinkTokensUnshared
<1>1. SerialInv => LinkTokensUnshared
  BY DEF SerialInv, Sound, Consistent, TokensApart, Is, Idle, LinkTokensUnshared
<1> QED
  BY <1>1, SerialAlways, PTL

(* One request at a time, the tokens of links work with every operation of *)
(* the service in use: cancel, the cleanup and unlink too, which the       *)
(* theorem LinksUsable has to exclude.                                     *)
THEOREM SerialLinksUsable == SerialSpec => [](faults = 0 => LinkUsable)
<1>1. ASSUME SerialInv, faults = 0 PROVE LinkUsable
  <2>1. CASE AllIdle
    <3>1. Honoured(Idle)
      BY <1>1, <2>1 DEF SerialInv, Sound
    <3> QED
      BY <3>1 DEF Honoured, LinkUsable, Idle
  <2>2. ASSUME NEW w \in Workers, OthersIdle(w) PROVE LinkUsable
    <3>1. Honoured(task[w])
      BY <1>1, <2>2 DEF SerialInv, Sound
    <3> QED
      BY <3>1 DEF Honoured, LinkUsable, At
  <2> QED
    BY <1>1, <2>1, <2>2 DEF SerialInv
<1> QED
  BY <1>1, SerialAlways, PTL

-----------------------------------------------------------------------------
(* No token gets lost.  With the other slots idle, slot w and the          *)
(* documents hold what is held.                                            *)

HeldBy(w, a) ==
    \/ \E c \in completed : c.orcid_auth = a
    \/ \E l \in links : l.orcid_auth = a
    \/ a \in TaskAuths(task[w])

(* The coroutines that hold no token but those of documents.               *)
LEMMA EmptyHanded ==
    ASSUME NEW k, k.pc \notin {"continue_check", "continue_find", "cancel_revoke",
                               "unlink_revoke", "continue_insert", "cancel_delete",
                               "finish_insert", "refresh_save", "cleanup_revoke"}
    PROVE  TaskAuths(k) = {}
BY DEF TaskAuths

(* With the others idle there is no other holder.                          *)
LEMMA HeldAlone ==
    ASSUME NEW w \in Workers, OthersIdle(w), NEW a
    PROVE  a \in Held => HeldBy(w, a)
<1>1. TaskAuths(Idle) = {}
  BY EmptyHanded DEF Idle
<1>2. \A v \in Workers \ {w} : TaskAuths(task[v]) = {}
  BY <1>1 DEF OthersIdle
<1> QED
  BY <1>2 DEF Held, HeldBy

(* A step that keeps every document, and had no token in hand.             *)
LEMMA DocumentsStay ==
    ASSUME NEW w, NEW a \in live', HeldBy(w, a) \/ a \notin live, live' \subseteq live,
           TaskAuths(task[w]) = {}, links \subseteq links', completed \subseteq completed'
    PROVE  HeldBy(w, a)'
BY DEF HeldBy

(* The handlers that only move sessions, or are just called, or list.      *)
LEMMA MovesKeepHeld ==
    ASSUME TypeOK, NEW w \in Workers, NEW a \in live', HeldBy(w, a) \/ a \notin live,
           \/ LinkingRequest(w) \/ CreateInsert(w) \/ StartFind(w) \/ StartInsert(w)
           \/ StartDelete(w) \/ ContinueReject(w) \/ ContinueDelete(w) \/ LinkRequest(w)
           \/ DeleteExpired(w) \/ CleanupList(w) \/ CleanupInitial(w) \/ CleanupStarted(w)
    PROVE  HeldBy(w, a)'
<1>1. LinkingRequest(w) \/ LinkRequest(w) \/ DeleteExpired(w) => task[w] = Idle
  BY DEF LinkingRequest, Create, Start, Continue, Finish, Cancel, LinkRequest, Unlink, UseLink,
         RefreshTokens, DeleteExpired, Accept
<1>2. TaskAuths(task[w]) = {}
  BY <1>1, EmptyHanded DEF CreateInsert, StartFind, StartInsert, StartDelete, ContinueReject,
                           ContinueDelete, CleanupList, CleanupInitial, CleanupStarted, At, Idle
<1>3. links' = links /\ completed' = completed /\ live' = live
  BY DEF LinkingRequest, Create, Start, Continue, Finish, Cancel, LinkRequest, Unlink, UseLink,
         RefreshTokens, DeleteExpired, CreateInsert, StartFind, StartInsert, StartDelete,
         RedirectToOrcid, ContinueReject, ContinueDelete, CleanupList, CleanupInitial,
         CleanupStarted, storageVars, authorityVars
<1> QED
  BY <1>2, <1>3, DocumentsStay

(* A consent's token goes from hand to hand, and into the link.            *)
LEMMA ConsentKeepsHeld ==
    ASSUME TypeOK, NEW w \in Workers, Consistent(task[w]), ~SpendFault, NEW a \in live',
           HeldBy(w, a) \/ a \notin live,
           \/ ContinueExchange(w) \/ ContinueCheck(w) \/ ContinueFind(w) \/ ContinueInsert(w)
           \/ FinishInsert(w) \/ FinishDelete(w)
    PROVE  HeldBy(w, a)' \/ GivenUp(a)
<1> USE DEF At
<1> DEFINE k == task[w]
<1>1. CASE ContinueExchange(w)
  <2>1. /\ k.pc = "continue_exchange" /\ UNCHANGED <<links, completed>>
        /\ TaskAuths(k) = {}
    BY <1>1, EmptyHanded DEF ContinueExchange, storageVars
  <2>2. ASSUME NEW o \in Orcids, Grants(NewAuth(o, k.username), {}),
               Goto(w, [pc |-> "continue_check", session |-> k.session,
                        orcid_auth |-> NewAuth(o, k.username)])
        PROVE  HeldBy(w, a)'
    <3>1. PICK b : b = NewAuth(o, k.username)
      OBVIOUS
    <3>2. task'[w].pc = "continue_check" /\ task'[w].orcid_auth = b /\ live' = live \cup {b}
      BY <2>2, <3>1 DEF Goto, TypeOK, Grants
    <3>3. TaskAuths(task'[w]) = {b}
      BY <3>2 DEF TaskAuths
    <3> QED
      BY <2>1, <3>2, <3>3 DEF HeldBy
  <2>3. CASE live' = live
    BY <2>1, <2>3, DocumentsStay
  <2> QED
    BY <1>1, <2>2, <2>3 DEF ContinueExchange, Refuses
<1>2. CASE ContinueCheck(w)
  <2>1. /\ k.pc = "continue_check" /\ UNCHANGED <<links, completed, live>>
        /\ TaskAuths(k) = {k.orcid_auth}
    BY <1>2 DEF ContinueCheck, storageVars, authorityVars, TaskAuths
  <2>2. CASE Goto(w, [pc |-> "continue_reject", session_id |-> k.session.session_id])
    <3>1. task'[w].pc = "continue_reject"
      BY <2>2 DEF Goto, TypeOK
    <3> QED
      BY <2>1, <3>1 DEF HeldBy, GivenUp
  <2>3. CASE Goto(w, [k EXCEPT !.pc = "continue_find"])
    <3>1. k \in [pc : {"continue_check", "continue_find"}, session : LinkingSession,
                 orcid_auth : ORCIDAuth]
      BY <2>1 DEF TypeOK, Continuation, Idle
    <3>2. task'[w].pc = "continue_find" /\ task'[w].orcid_auth = k.orcid_auth
      BY <2>3, <3>1 DEF Goto, TypeOK
    <3>3. TaskAuths(task'[w]) = {k.orcid_auth}
      BY <3>2 DEF TaskAuths
    <3> QED
      BY <2>1, <3>3 DEF HeldBy
  <2> QED
    BY <1>2, <2>2, <2>3 DEF ContinueCheck
<1>3. CASE ContinueFind(w)
  <2>1. /\ k.pc = "continue_find" /\ UNCHANGED <<links, completed, live>>
        /\ TaskAuths(k) = {k.orcid_auth}
        /\ k.session \in started
    BY <1>3 DEF ContinueFind, storageVars, authorityVars, TaskAuths, Consistent, SessionInPlace
  <2>2. PICK d : Goto(w, [pc |-> "continue_insert",
                          doc |-> [session |-> d, orcid_auth |-> k.orcid_auth]])
    BY <1>3, <2>1 DEF ContinueFind, Sessions
  <2>3. task'[w].pc = "continue_insert" /\ task'[w].doc.orcid_auth = k.orcid_auth
    BY <2>2 DEF Goto, TypeOK
  <2>4. TaskAuths(task'[w]) = {k.orcid_auth}
    BY <2>3 DEF TaskAuths
  <2> QED
    BY <2>1, <2>4 DEF HeldBy
<1>4. CASE ContinueInsert(w)
  <2>1. /\ k.pc = "continue_insert" /\ UNCHANGED <<links, live>>
        /\ TaskAuths(k) = {k.doc.orcid_auth}
        /\ k.doc.session \in started
    BY <1>4 DEF ContinueInsert, authorityVars, TaskAuths, Consistent, SessionInPlace
  <2>2. CanInsertCompleted(k.doc)
    BY <2>1 DEF CanInsertCompleted, CompletedSessions, Consistent, StagesApart, Is
  <2>3. completed' = completed \cup {k.doc}
    BY <1>4, <2>2 DEF ContinueInsert, InsertCompleted
  <2> QED
    BY <2>1, <2>3 DEF HeldBy
<1>5. CASE FinishInsert(w)
  <2>1. /\ k.pc = "finish_insert" /\ UNCHANGED <<completed, live>> /\ links \subseteq links'
        /\ TaskAuths(k) = {k.link.orcid_auth}
        /\ \E c \in completed : c.orcid_auth = k.link.orcid_auth
    BY <1>5 DEF FinishInsert, CreateLinkRecord, authorityVars, TaskAuths, Consistent,
                SessionInPlace, CompletedSessions
  <2> QED
    BY <2>1 DEF HeldBy
<1>6. CASE FinishDelete(w)
  <2>1. /\ k.pc = "finish_delete" /\ UNCHANGED <<links, live>> /\ TaskAuths(k) = {}
        /\ completed' = {c \in completed : c.session.session_id # k.session_id}
    BY <1>6, EmptyHanded DEF FinishDelete, DeleteCompleted, authorityVars
  <2>2. \A c \in CompletedSessions(k.session_id) : \E l \in links : l.orcid_auth = c.orcid_auth
    BY <2>1 DEF Consistent, SessionInPlace, CompletedSessions, StagesApart
  <2> QED
    BY <2>1, <2>2 DEF HeldBy, CompletedSessions
<1> QED
  BY <1>1, <1>2, <1>3, <1>4, <1>5, <1>6

(* What cancel, unlink, a renewal and the cleanup give up is revoked.      *)
LEMMA RevokersKeepHeld ==
    ASSUME TypeOK, NEW w \in Workers, Consistent(task[w]), Honoured(task[w]),
           Revoked(task[w]), ~SpendFault, NEW a \in live', HeldBy(w, a) \/ a \notin live,
           \/ CancelDelete(w) \/ CancelRevoke(w) \/ LinkStep(w) \/ CleanupRevoke(w)
           \/ CleanupCompleted(w)
    PROVE  HeldBy(w, a)'
<1> USE DEF At
<1> DEFINE k == task[w]
<1>1. CASE CancelDelete(w)
  <2>1. /\ k.pc = "cancel_delete" /\ UNCHANGED <<links, live>> /\ k.doc \in completed
        /\ TaskAuths(k) = {k.doc.orcid_auth}
        /\ completed' = {c \in completed : c.session.session_id # k.doc.session.session_id}
        /\ task'[w] = [pc |-> "cancel_revoke", orcid_auth |-> k.doc.orcid_auth]
    BY <1>1 DEF CancelDelete, DeleteCompleted, authorityVars, TaskAuths, Consistent,
                SessionInPlace, Goto, TypeOK
  <2>2. TaskAuths(task'[w]) = {k.doc.orcid_auth}
    BY <2>1 DEF TaskAuths
  <2>3. \A c \in completed : c \in completed' \/ c = k.doc
    BY <2>1 DEF Consistent, StagesApart
  <2> QED
    BY <2>1, <2>2, <2>3 DEF HeldBy
<1>2. CASE CancelRevoke(w) \/ UnlinkRevoke(w)
  <2>1. /\ UNCHANGED <<links, completed>> /\ TaskAuths(k) = {k.orcid_auth}
        /\ live' = live \ {k.orcid_auth}
    BY <1>2 DEF CancelRevoke, UnlinkRevoke, RevokeAnswered, RevokeRaises,
                RevocationSilentlyFails, Revokes, storageVars, TaskAuths
  <2> QED
    BY <2>1 DEF HeldBy
<1>3. CASE UnlinkDelete(w)
  <2>1. /\ k.pc = "unlink_delete" /\ UNCHANGED <<completed, live>> /\ TaskAuths(k) = {}
        /\ links' = {l \in links : l.username # k.username}
    BY <1>3, EmptyHanded DEF UnlinkDelete, DeleteLinkRecord, authorityVars
  <2>2. \A l \in links : l.orcid_auth \in live => l \in links'
    BY <2>1 DEF Honoured
  <2> QED
    BY <2>1, <2>2 DEF HeldBy
<1>4. CASE RefreshCall(w)
  <2>1. k.pc = "refresh_call" /\ UNCHANGED <<links, completed>> /\ TaskAuths(k) = {}
    BY <1>4, EmptyHanded DEF RefreshCall, storageVars
  <2>2. CASE live' = live
    BY <2>1, <2>2, DocumentsStay
  <2>3. CASE /\ Grants(RefreshedLink(k.link).orcid_auth, {k.link.orcid_auth})
             /\ Goto(w, [pc |-> "refresh_save", link |-> RefreshedLink(k.link)])
    <3>1. PICK r : r = RefreshedLink(k.link)
      OBVIOUS
    <3>2. /\ task'[w].pc = "refresh_save" /\ task'[w].link = r
          /\ live' \subseteq live \cup {r.orcid_auth}
      BY <2>3, <3>1 DEF Goto, TypeOK, Grants
    <3>3. TaskAuths(task'[w]) = {r.orcid_auth}
      BY <3>2 DEF TaskAuths
    <3> QED
      BY <2>1, <3>2, <3>3 DEF HeldBy
  <2> QED
    BY <1>4, <2>2, <2>3 DEF RefreshCall, Refuses, authorityVars
<1>5. CASE RefreshSave(w)
  <2>1. /\ k.pc = "refresh_save" /\ UNCHANGED <<completed, live>>
        /\ TaskAuths(k) = {k.link.orcid_auth}
        /\ links' = {IF l.username = k.link.username THEN k.link ELSE l : l \in links}
    BY <1>5 DEF RefreshSave, SaveLinkRecord, authorityVars, TaskAuths
  <2>2. \E l \in links : l.username = k.link.username
    BY <2>1 DEF Consistent, TokenInPlace, LinksOf
  <2>3. k.link \in links'
    BY <2>1, <2>2
  <2>4. \A l \in links : l.orcid_auth \in live => l \in links'
    BY <2>1 DEF Honoured
  <2> QED
    BY <2>1, <2>3, <2>4 DEF HeldBy
<1>6. CASE CleanupRevoke(w)
  <2>1. /\ UNCHANGED <<links, completed>> /\ TaskAuths(k) = k.auths
        /\ \A b \in k.auths : \E c \in completed : c.orcid_auth = b
    BY <1>6 DEF CleanupRevoke, storageVars, TaskAuths, Consistent, TokenInPlace,
                ExpiredCompleted
  <2>2. live' \subseteq live
    BY <1>6 DEF CleanupRevoke, RevokeAnswered, RevokeRaises, RevocationSilentlyFails, Revokes
  <2> QED
    BY <2>1, <2>2 DEF HeldBy
<1>7. CASE CleanupCompleted(w)
  <2>1. /\ k.pc = "cleanup_completed" /\ UNCHANGED <<links, live>> /\ TaskAuths(k) = {}
        /\ completed' = completed \ ExpiredCompleted(now)
    BY <1>7, EmptyHanded DEF CleanupCompleted, DeleteExpiredCompleted, authorityVars,
                             Consistent, TokenInPlace
  <2>2. \A c \in completed : c.orcid_auth \in live => c \in completed'
    BY <2>1 DEF Revoked
  <2> QED
    BY <2>1, <2>2 DEF HeldBy
<1> QED
  BY <1>1, <1>2, <1>3, <1>4, <1>5, <1>6, <1>7 DEF LinkStep

(* So no step loses one, but where the code gives it up.                   *)
LEMMA HeldStep ==
    ASSUME SerialFacts, SerialInv, [SerialNext]_vars, OnePage, faults = 0, ~SpendFault,
           NEW a \in live', a \in Held \/ a \notin live
    PROVE  a \in Held' \/ GivenUp(a)
<1>1. ASSUME NEW w \in Workers, OthersIdle(w), Request(w) \/ Step(w)
      PROVE  a \in Held' \/ GivenUp(a)
  <2>1. /\ TypeOK /\ Consistent(task[w]) /\ Honoured(task[w]) /\ Revoked(task[w])
        /\ HeldBy(w, a) \/ a \notin live
    BY <1>1, HeldAlone DEF SerialFacts, SerialInv, Sound
  <2>2. HeldBy(w, a)' \/ GivenUp(a)
    BY <1>1, <2>1, MovesKeepHeld, ConsentKeepsHeld, RevokersKeepHeld
       DEF Request, Step, LinkingStep, ManagementStep
  <2> QED
    BY <2>2 DEF HeldBy, Held
<1>2. CASE AllIdle /\ (AdminDelete \/ Tick \/ OrcidWithdraws)
  <2>1. task' = task /\ links' = links /\ live' \subseteq live
    BY <1>2 DEF AdminDelete, AdminDeleteInitial, AdminDeleteStarted, AdminDeleteCompleted,
                Tick, OrcidWithdraws, requestVars, storageVars, authorityVars
  <2> QED
    BY <2>1 DEF Held, GivenUp
<1>3. CASE UNCHANGED vars
  BY <1>3 DEF vars, requestVars, storageVars, authorityVars, Held
<1> QED
  BY <1>1, <1>2, <1>3 DEF SerialNext

(* As long as nothing fails and the cleanup can list what has expired, a   *)
(* token that ORCID honours stays where the service can use or revoke it:  *)
(* every handler stores or revokes a token before it lets go of it.  The   *)
(* exceptions are the two of GivenUp.                                      *)
THEOREM TokensReachable ==
    ASSUME MaxFaults = 0, OnePage
    PROVE  SerialSpec => TokensStayReachable
<1>1. ASSUME SerialFacts, SerialInv, [SerialNext]_vars
      PROVE  [\A auth \in live' :
                auth \in Held \/ auth \notin live => auth \in Held' \/ GivenUp(auth)]_vars
  <2>1. faults = 0 /\ ~SpendFault
    BY <1>1 DEF SerialFacts, TypeOK, AuthorityTypeOK, SpendFault
  <2> QED
    BY <1>1, <2>1, HeldStep
<1> QED
  BY <1>1, SerialAlways, PTL DEF SerialSpec, TokensStayReachable

-----------------------------------------------------------------------------
(* The protocol.  What it sees of the collections, with the one coroutine  *)
(* k that may be suspended between the two commands of a move.             *)

Consented(c) ==
    [session_id |-> c.session.session_id, username |-> c.session.username,
     stage |-> "completed", orcid_auth |-> c.orcid_auth]

Pool(I, S, C) ==
    {Stage(d, "initial") : d \in I} \cup {Stage(d, "started") : d \in S}
        \cup {Consented(c) : c \in C}

(* The session whose old copy k is about to delete.                        *)
Leaving(k, pc) == IF k.pc = pc THEN {k.session_id} ELSE {}

OpenAt(k) ==
    Pool({d \in initial : d.session_id \notin Leaving(k, "start_delete")},
         {d \in started : d.session_id \notin Leaving(k, "continue_delete")},
         {c \in completed : c.session.session_id \notin Leaving(k, "finish_delete")})

UsedAt(k) == IF k.pc = "create_insert" THEN Ids(issued \ {k.session}) ELSE Ids(issued)

View == <<OpenSessions, UsedIds, Registered>>

(* What tells the sessions of a pool apart.                                *)
LEMMA StagesDiffer ==
    /\ \A d, stage : Stage(d, stage).session_id = d.session_id /\ Stage(d, stage).stage = stage
    /\ \A c : Consented(c).session_id = c.session.session_id /\ Consented(c).stage = "completed"
BY DEF Stage, Consented

(* The open sessions, part by part.                                        *)
LEMMA OpenParts ==
    OpenSessions = Pool({d \in initial : d.session_id \notin Ids(started)},
                        {d \in started : d.session_id \notin CompletedIds},
                        {c \in completed : ~Confirmed(c.session.session_id)})
BY DEF OpenSessions, Pool, Consented

(* What the protocol sees while slot w alone is busy.                      *)
LEMMA ViewNow ==
    ASSUME NEW w \in Workers, OthersIdle(w), StagesApart(task[w]), SessionInPlace(task[w])
    PROVE  OpenSessions = OpenAt(task[w]) /\ UsedIds = UsedAt(task[w])
<1> DEFINE k == task[w]
<1>1. {d \in initial : d.session_id \notin Ids(started)}
        = {d \in initial : d.session_id \notin Leaving(k, "start_delete")}
  BY DEF StagesApart, SessionInPlace, Is, Ids, Leaving
<1>2. {d \in started : d.session_id \notin CompletedIds}
        = {d \in started : d.session_id \notin Leaving(k, "continue_delete")}
  BY DEF StagesApart, SessionInPlace, Is, CompletedIds, Leaving
<1>3. \A s : Confirmed(s) <=> s \in Leaving(k, "finish_delete")
  BY DEF OthersIdle, Confirmed, At, Leaving, Idle
<1>4. {task[v].session : v \in {x \in Workers : At(x, "create_insert")}}
        = IF k.pc = "create_insert" THEN {k.session} ELSE {}
  BY DEF OthersIdle, At, Idle
<1>5. UsedIds = UsedAt(k)
  BY <1>4 DEF UsedIds, UsedAt
<1> QED
  BY <1>1, <1>2, <1>3, <1>5, OpenParts DEF OpenAt

(* And after its step.                                                     *)
LEMMA ViewNext ==
    ASSUME NEW w \in Workers, OthersIdle(w)', StagesApart(task[w])', SessionInPlace(task[w])'
    PROVE  (OpenSessions = OpenAt(task[w]) /\ UsedIds = UsedAt(task[w]))'
BY ViewNow, PTL

(* A session that is started.                                              *)
LEMMA PoolStart ==
    ASSUME NEW I, NEW S, NEW C, NEW d \in I,
           \A e \in I : e.session_id = d.session_id => e = d
    PROVE  Pool(I \ {d}, S \cup {d}, C)
               = (Pool(I, S, C) \ {Stage(d, "initial")}) \cup {Stage(d, "started")}
BY StagesDiffer DEF Pool

(* One that is completed.                                                  *)
LEMMA PoolComplete ==
    ASSUME NEW I, NEW S, NEW C, NEW d \in S, NEW c,
           \A e \in S : e.session_id = d.session_id => e = d
    PROVE  Pool(I, S \ {d}, C \cup {c})
               = (Pool(I, S, C) \ {Stage(d, "started")}) \cup {Consented(c)}
BY StagesDiffer DEF Pool

(* One that becomes a link.                                                *)
LEMMA PoolConfirm ==
    ASSUME NEW I, NEW S, NEW C, NEW c \in C,
           \A e \in C : e.session.session_id = c.session.session_id => e = c
    PROVE  Pool(I, S, C \ {c}) = Pool(I, S, C) \ {Consented(c)}
BY StagesDiffer DEF Pool

(* Those of one stage that are dropped.                                    *)
LEMMA PoolDiscard ==
    ASSUME NEW I, NEW S, NEW C, NEW J \in SUBSET I, NEW T \in SUBSET S, NEW D \in SUBSET C,
           \A d, e \in I \cup S : d.session_id = e.session_id => d = e,
           \A b, c \in C : b.session.session_id = c.session.session_id => b = c
    PROVE  /\ Pool(J, S, C) = Pool(I, S, C) \ {Stage(d, "initial") : d \in I \ J}
           /\ Pool(I, T, C) = Pool(I, S, C) \ {Stage(d, "started") : d \in S \ T}
           /\ Pool(I, S, D) = Pool(I, S, C) \ {Consented(c) : c \in C \ D}
<1>1. \A d \in I \ J : Stage(d, "initial") \notin Pool(J, S, C)
  BY StagesDiffer DEF Pool
<1>2. \A d \in S \ T : Stage(d, "started") \notin Pool(I, T, C)
  BY StagesDiffer DEF Pool
<1>3. \A c \in C \ D : Consented(c) \notin Pool(I, S, D)
  BY StagesDiffer DEF Pool
<1>4. Pool(J, S, C) = Pool(I, S, C) \ {Stage(d, "initial") : d \in I \ J}
  BY <1>1 DEF Pool
<1>5. Pool(I, T, C) = Pool(I, S, C) \ {Stage(d, "started") : d \in S \ T}
  BY <1>2 DEF Pool
<1>6. Pool(I, S, D) = Pool(I, S, C) \ {Consented(c) : c \in C \ D}
  BY <1>3 DEF Pool
<1> QED
  BY <1>4, <1>5, <1>6

-----------------------------------------------------------------------------
(* The steps that the protocol does not see, and those that make one of    *)
(* its steps: each operation is made by one command of its handler.        *)

Alone(w) == OthersIdle(w) /\ Consistent(task[w])

(* A coroutine neither in the middle of a move nor with a fresh id in hand.*)
Steady(k) == k.pc \notin {"create_insert", "start_delete", "continue_delete", "finish_delete"}

(* With it the protocol sees the collections as they are.                  *)
LEMMA SteadyNow ==
    ASSUME NEW w \in Workers, Alone(w), Steady(task[w])
    PROVE  OpenSessions = Pool(initial, started, completed) /\ UsedIds = Ids(issued)
<1>1. \A pc \in {"start_delete", "continue_delete", "finish_delete"} : Leaving(task[w], pc) = {}
  BY DEF Steady, Leaving
<1>2. OpenAt(task[w]) = Pool(initial, started, completed)
  BY <1>1 DEF OpenAt
<1> QED
  BY <1>2, ViewNow DEF Alone, Consistent, Steady, UsedAt

(* After the step too.                                                     *)
LEMMA SteadyNext ==
    ASSUME NEW w \in Workers, Alone(w)', Steady(task[w])'
    PROVE  (OpenSessions = Pool(initial, started, completed) /\ UsedIds = Ids(issued))'
BY SteadyNow, PTL

(* Reading, calling ORCID, and a command that does nothing.                *)
LEMMA QuietStep ==
    ASSUME NEW w \in Workers, Alone(w), Alone(w)', Steady(task[w]), Steady(task[w])',
           UNCHANGED storageVars
    PROVE  UNCHANGED View
BY SteadyNow, SteadyNext DEF storageVars, View, Registered, Ids

(* A removal from one of the collections.                                  *)
LEMMA DiscardStep ==
    ASSUME SessionTermsFixed, StagesApart(Idle), UNCHANGED <<links, issued>>,
           OpenSessions = Pool(initial, started, completed) /\ UsedIds = Ids(issued),
           (OpenSessions = Pool(initial, started, completed) /\ UsedIds = Ids(issued))',
           \/ initial' \subseteq initial /\ UNCHANGED <<started, completed>>
           \/ started' \subseteq started /\ UNCHANGED <<initial, completed>>
           \/ completed' \subseteq completed /\ UNCHANGED <<initial, started>>
    PROVE  Protocol!Next
<1>1. \A d, e \in initial \cup started : d.session_id = e.session_id => d = e
  BY OneCopy
<1>2. \A b, c \in completed : b.session.session_id = c.session.session_id => b = c
  BY DEF StagesApart
<1>3. UsedIds' = UsedIds /\ Registered' = Registered
  BY DEF Ids, Registered
<1>4. ASSUME NEW stage \in {"initial", "started", "completed"},
             NEW D \in SUBSET {d \in OpenSessions : d.stage = stage},
             OpenSessions' = OpenSessions \ D
      PROVE  Protocol!Next
  <2>1. Protocol!Discard(D)
    BY <1>3, <1>4 DEF Protocol!Discard, Registered
  <2> QED
    BY <2>1 DEF Protocol!Next
<1>5. CASE initial' \subseteq initial /\ UNCHANGED <<started, completed>>
  <2> DEFINE D == {Stage(d, "initial") : d \in initial \ initial'}
  <2>1. OpenSessions' = OpenSessions \ D
    BY <1>1, <1>2, <1>5, PoolDiscard
  <2>2. D \subseteq {d \in OpenSessions : d.stage = "initial"}
    BY StagesDiffer DEF Pool
  <2> QED
    BY <1>4, <2>1, <2>2
<1>6. CASE started' \subseteq started /\ UNCHANGED <<initial, completed>>
  <2> DEFINE D == {Stage(d, "started") : d \in started \ started'}
  <2>1. OpenSessions' = OpenSessions \ D
    BY <1>1, <1>2, <1>6, PoolDiscard
  <2>2. D \subseteq {d \in OpenSessions : d.stage = "started"}
    BY StagesDiffer DEF Pool
  <2> QED
    BY <1>4, <2>1, <2>2
<1>7. CASE completed' \subseteq completed /\ UNCHANGED <<initial, started>>
  <2> DEFINE D == {Consented(c) : c \in completed \ completed'}
  <2>1. OpenSessions' = OpenSessions \ D
    BY <1>1, <1>2, <1>7, PoolDiscard
  <2>2. D \subseteq {d \in OpenSessions : d.stage = "completed"}
    BY StagesDiffer DEF Pool
  <2> QED
    BY <1>4, <2>1, <2>2
<1> QED
  BY <1>5, <1>6, <1>7

(* Create and start.                                                       *)
LEMMA IssueSteps ==
    ASSUME SerialFacts, NEW w \in Workers, Alone(w), Alone(w)',
           CreateInsert(w) \/ StartInsert(w) \/ StartDelete(w) \/ \E u \in Users : Create(w, u)
    PROVE  Protocol!Next \/ UNCHANGED View
<1> USE DEF At, SerialFacts
<1> DEFINE k == task[w]
<1>0. /\ OpenSessions = OpenAt(task[w]) /\ UsedIds = UsedAt(task[w])
      /\ (OpenSessions = OpenAt(task[w]) /\ UsedIds = UsedAt(task[w]))'
  BY ViewNow, ViewNext DEF Alone, Consistent
<1>1. ASSUME NEW u \in Users, Create(w, u) PROVE UNCHANGED View
  <2>1. PICK s \in SessionIds :
          /\ task[w] = Idle /\ Sessions(issued, s) = {}
          /\ Goto(w, [pc |-> "create_insert", session |-> NewSession(s, u)])
          /\ issued' = issued \cup {NewSession(s, u)}
          /\ UNCHANGED <<links, initial, started, completed>>
    BY <1>1 DEF Create, Accept
  <2>2. PICK d : d = NewSession(s, u)
    OBVIOUS
  <2>3. task'[w].pc = "create_insert" /\ task'[w].session = d /\ d \notin issued
    BY <2>1, <2>2 DEF Goto, TypeOK, NewSession, Sessions
  <2>4. OpenAt(task[w])' = OpenAt(task[w])
    BY <2>1, <2>3 DEF OpenAt, Leaving, Idle
  <2>5. issued' \ {d} = issued
    BY <2>1, <2>2, <2>3
  <2>6. UsedAt(task[w])' = UsedAt(task[w])
    BY <2>1, <2>3, <2>5 DEF UsedAt, Ids, Idle
  <2> QED
    BY <1>0, <2>1, <2>4, <2>6 DEF View, Registered
<1>2. CASE CreateInsert(w)
  <2>1. PICK d \in LinkingSession :
          /\ k.pc = "create_insert" /\ k.session = d /\ d \in issued
          /\ d.session_id \in SessionIds /\ d.username \in Users
          /\ LinksOf(d.username) = {}
    <3>1. k.pc = "create_insert" /\ k \in Continuation
      BY <1>2 DEF CreateInsert, TypeOK
    <3>2. k.session \in LinkingSession
      BY <3>1, Locals
    <3>3. k.session \in issued
      BY <3>1 DEF SessionTermsFixed, TaskSessions
    <3> QED
      BY <3>1, <3>2, <3>3 DEF Alone, Consistent, SessionInPlace, LinkingSession
  <2>2. /\ initial' = initial \cup {d} /\ UNCHANGED <<links, started, completed, issued>>
        /\ task'[w] = Idle
    BY <1>2, <2>1 DEF CreateInsert, InsertInitial, Answer, Goto, TypeOK
  <2>3. OpenSessions = Pool(initial, started, completed)
    BY <1>0, <2>1 DEF OpenAt, Leaving
  <2>4. OpenSessions' = Pool(initial \cup {d}, started, completed)
    <3>1. \A pc \in {"start_delete", "continue_delete", "finish_delete"} :
            Leaving(task'[w], pc) = {}
      BY <2>2 DEF Leaving, Idle
    <3>2. OpenAt(task[w])' = Pool(initial', started', completed')
      BY <3>1 DEF OpenAt
    <3> QED
      BY <1>0, <2>2, <3>2
  <2>5. OpenSessions' = OpenSessions \cup {Stage(d, "initial")}
    BY <2>3, <2>4 DEF Pool
  <2>6. UsedIds = Ids(issued \ {d}) /\ UsedIds' = Ids(issued)
    BY <1>0, <2>1, <2>2 DEF UsedAt, Idle, Ids
  <2>7. UsedIds' = UsedIds \cup {d.session_id} /\ d.session_id \notin UsedIds
    BY <2>1, <2>6 DEF Ids, SessionTermsFixed
  <2>8. ~Protocol!Linked(d.username) /\ Registered' = Registered
    BY <2>1, <2>2 DEF Protocol!Linked, LinksOf, Entry, Registered
  <2>9. Protocol!Issue(d.session_id, d.username)
    BY <2>5, <2>7, <2>8 DEF Protocol!Issue, Protocol!Session, Stage, Registered
  <2> QED
    BY <2>1, <2>9 DEF Protocol!Next
<1>3. CASE StartInsert(w)
  <2>1. PICK d \in initial : k.pc = "start_insert" /\ k.session = d
    BY <1>3 DEF StartInsert, Alone, Consistent, SessionInPlace
  <2>2. CASE started' = started /\ task'[w] = Idle
    BY <1>3, <2>1, <2>2, QuietStep DEF StartInsert, storageVars, Steady, Idle
  <2>3. CASE /\ d \notin started /\ started' = started \cup {d}
             /\ task'[w] = [pc |-> "start_delete", session_id |-> d.session_id]
    <3>1. UNCHANGED <<links, initial, completed, issued>>
      BY <1>3 DEF StartInsert
    <3>2. OpenSessions = Pool(initial, started, completed)
      BY <1>0, <2>1 DEF OpenAt, Leaving
    <3>3. \A e \in initial : e.session_id = d.session_id => e = d
      BY OneCopy
    <3>4. {e \in initial : e.session_id \notin {d.session_id}} = initial \ {d}
      BY <3>3
    <3>5. OpenSessions' = Pool(initial \ {d}, started \cup {d}, completed)
      <4>1. /\ Leaving(task'[w], "start_delete") = {d.session_id}
            /\ Leaving(task'[w], "continue_delete") = {}
            /\ Leaving(task'[w], "finish_delete") = {}
        BY <2>3 DEF Leaving
      <4>2. OpenAt(task[w])' = Pool(initial' \ {d}, started', completed')
        BY <3>1, <3>4, <4>1 DEF OpenAt
      <4> QED
        BY <1>0, <2>3, <3>1, <4>2
    <3>6. OpenSessions' = (OpenSessions \ {Stage(d, "initial")}) \cup {Stage(d, "started")}
      BY <3>2, <3>3, <3>5, PoolStart
    <3>7. UsedIds' = UsedIds /\ Registered' = Registered
      BY <1>0, <2>1, <2>3, <3>1 DEF UsedAt, Ids, Registered
    <3>8. Stage(d, "initial") \in OpenSessions
      BY <3>2 DEF Pool
    <3>9. Protocol!Start(Stage(d, "initial"))
      BY <3>6, <3>7 DEF Protocol!Start, Protocol!Session, Stage, Registered
    <3> QED
      BY <3>8, <3>9 DEF Protocol!Next
  <2> QED
    BY <1>3, <2>1, <2>2, <2>3
       DEF StartInsert, CanInsertStarted, InsertStarted, RedirectToOrcid, Answer, Goto, TypeOK
<1>4. CASE StartDelete(w)
  <2>1. /\ k.pc = "start_delete" /\ UNCHANGED <<links, started, completed, issued>>
        /\ initial' = {d \in initial : d.session_id # k.session_id} /\ task'[w] = Idle
    BY <1>4 DEF StartDelete, DeleteInitial, RedirectToOrcid, Answer, Goto, TypeOK
  <2>2. OpenAt(task[w])' = OpenAt(task[w]) /\ UsedAt(task[w])' = UsedAt(task[w])
    BY <2>1 DEF OpenAt, UsedAt, Leaving, Ids, Idle
  <2> QED
    BY <1>0, <2>1, <2>2 DEF View, Registered
<1> QED
  BY <1>1, <1>2, <1>3, <1>4

(* A token that is in no document is in no entry and no session.           *)
LEMMA UnstoredUnused ==
    ASSUME NEW a, Unstored(a)
    PROVE  a \notin Protocol!TokensInUse
<1>1. \A d \in OpenSessions : d.stage = "completed" => \E c \in completed : d = Consented(c)
  BY OpenParts, StagesDiffer DEF Pool
<1>2. \A c : Consented(c).orcid_auth = c.orcid_auth
  BY DEF Consented
<1>3. \A d \in OpenSessions : d.stage = "completed" => d.orcid_auth # a
  BY <1>1, <1>2 DEF Unstored
<1>4. \A l \in links : Entry(l).orcid_auth # a
  BY DEF Unstored, Entry
<1> QED
  BY <1>3, <1>4 DEF Protocol!TokensInUse

(* Continue and finish.                                                    *)
LEMMA ConsentSteps ==
    ASSUME SerialFacts, NEW w \in Workers, Alone(w), Alone(w)',
           ContinueInsert(w) \/ ContinueDelete(w) \/ FinishInsert(w) \/ FinishDelete(w)
    PROVE  Protocol!Next \/ UNCHANGED View
<1> USE DEF At, SerialFacts
<1> DEFINE k == task[w]
<1>0. /\ OpenSessions = OpenAt(task[w]) /\ UsedIds = UsedAt(task[w])
      /\ (OpenSessions = OpenAt(task[w]) /\ UsedIds = UsedAt(task[w]))'
  BY ViewNow, ViewNext DEF Alone, Consistent
<1>1. CASE ContinueInsert(w)
  <2>1. PICK c \in LinkingSessionComplete :
          /\ k.pc = "continue_insert" /\ k.doc = c /\ c.session \in started
          /\ c.orcid_auth \in ORCIDAuth /\ c.orcid_auth.by = c.session.username
          /\ Unstored(c.orcid_auth) /\ LinksForOrcid(c.orcid_auth.orcid) = {}
    <3>1. k.pc = "continue_insert" /\ k \in Continuation
      BY <1>1 DEF ContinueInsert, TypeOK
    <3>2. k.doc \in LinkingSessionComplete
      BY <3>1, Locals
    <3>3. k.doc.orcid_auth.by = k.doc.session.username
      BY <3>1 DEF OwnInv, TasksOwnTokens, OwnsTokens
    <3> QED
      BY <3>1, <3>2, <3>3
         DEF Alone, Consistent, SessionInPlace, TokenInPlace, LinkingSessionComplete
  <2>2. \A b \in completed : b.session.session_id # c.session.session_id
    BY <2>1 DEF Alone, Consistent, StagesApart, Is
  <2>3. /\ completed' = completed \cup {c} /\ UNCHANGED <<links, initial, started, issued>>
        /\ task'[w] = [pc |-> "continue_delete", session_id |-> c.session.session_id]
    BY <1>1, <2>1, <2>2 DEF ContinueInsert, CanInsertCompleted, CompletedSessions,
                            InsertCompleted, Goto, TypeOK
  <2>4. OpenSessions = Pool(initial, started, completed)
    BY <1>0, <2>1 DEF OpenAt, Leaving
  <2>5. \A e \in started : e.session_id = c.session.session_id => e = c.session
    BY <2>1, OneCopy
  <2>6. {e \in started : e.session_id \notin {c.session.session_id}} = started \ {c.session}
    BY <2>5
  <2>7. OpenSessions' = Pool(initial, started \ {c.session}, completed \cup {c})
    <3>1. /\ Leaving(task'[w], "start_delete") = {}
          /\ Leaving(task'[w], "continue_delete") = {c.session.session_id}
          /\ Leaving(task'[w], "finish_delete") = {}
      BY <2>3 DEF Leaving
    <3>2. OpenAt(task[w])' = Pool(initial', started' \ {c.session}, completed')
      BY <2>3, <2>6, <3>1 DEF OpenAt
    <3> QED
      BY <1>0, <2>3, <3>2
  <2>8. OpenSessions' = (OpenSessions \ {Stage(c.session, "started")}) \cup {Consented(c)}
    <3>1. PICK d \in started : d = c.session
      BY <2>1
    <3>2. \A e \in started : e.session_id = d.session_id => e = d
      BY <2>5, <3>1
    <3>3. Pool(initial, started \ {d}, completed \cup {c})
            = (Pool(initial, started, completed) \ {Stage(d, "started")}) \cup {Consented(c)}
      BY <3>2, PoolComplete
    <3> QED
      BY <2>4, <2>7, <3>1, <3>3
  <2>9. UsedIds' = UsedIds /\ Registered' = Registered
    BY <1>0, <2>1, <2>3 DEF UsedAt, Ids, Registered
  <2>10. Stage(c.session, "started") \in OpenSessions
    BY <2>1, <2>4 DEF Pool
  <2>11. c.orcid_auth.orcid \notin Protocol!LinkedOrcids
    BY <2>1 DEF Protocol!LinkedOrcids, LinksForOrcid, Entry
  <2>12. Protocol!Complete(Stage(c.session, "started"), c.orcid_auth)
    BY <2>1, <2>8, <2>9, <2>11, UnstoredUnused
       DEF Protocol!Complete, Protocol!Completed, Stage, Consented, Registered
  <2> QED
    BY <2>1, <2>10, <2>12 DEF Protocol!Next
<1>2. CASE ContinueDelete(w)
  <2>1. /\ k.pc = "continue_delete" /\ UNCHANGED <<links, initial, completed, issued>>
        /\ started' = {d \in started : d.session_id # k.session_id} /\ task'[w] = Idle
    BY <1>2 DEF ContinueDelete, DeleteStarted, Answer, Goto, TypeOK
  <2>2. OpenAt(task[w])' = OpenAt(task[w]) /\ UsedAt(task[w])' = UsedAt(task[w])
    BY <2>1 DEF OpenAt, UsedAt, Leaving, Ids, Idle
  <2> QED
    BY <1>0, <2>1, <2>2 DEF View, Registered
<1>3. CASE FinishInsert(w)
  <2>1. PICK c \in completed, s \in SessionIds :
          /\ k.pc = "finish_insert" /\ k.session_id = s /\ c.session.session_id = s
          /\ k.link.username = c.session.username /\ k.link.orcid_auth = c.orcid_auth
    <3>1. k.pc = "finish_insert" /\ k \in Continuation
      BY <1>3 DEF FinishInsert, TypeOK
    <3>2. k.session_id \in SessionIds
      BY <3>1, Locals
    <3> QED
      BY <3>1, <3>2 DEF Alone, Consistent, SessionInPlace, CompletedSessions
  <2>2. CASE UNCHANGED links /\ task'[w] = Idle
    BY <1>3, <2>1, <2>2, QuietStep DEF FinishInsert, storageVars, Steady, Idle
  <2>3. CASE /\ CanCreateLink(k.link) /\ links' = links \cup {k.link}
             /\ task'[w] = [pc |-> "finish_delete", session_id |-> s]
    <3>1. UNCHANGED <<initial, started, completed, issued>>
      BY <1>3 DEF FinishInsert
    <3>2. OpenSessions = Pool(initial, started, completed)
      BY <1>0, <2>1 DEF OpenAt, Leaving
    <3>3. \A b \in completed : b.session.session_id = s => b = c
      BY <2>1 DEF Alone, Consistent, StagesApart
    <3>4. {b \in completed : b.session.session_id \notin {s}} = completed \ {c}
      BY <2>1, <3>3
    <3>5. OpenSessions' = Pool(initial, started, completed \ {c})
      <4>1. /\ Leaving(task'[w], "start_delete") = {}
            /\ Leaving(task'[w], "continue_delete") = {}
            /\ Leaving(task'[w], "finish_delete") = {s}
        BY <2>3 DEF Leaving
      <4>2. OpenAt(task[w])' = Pool(initial', started', completed' \ {c})
        BY <3>1, <3>4, <4>1 DEF OpenAt
      <4> QED
        BY <1>0, <3>1, <4>2
    <3>6. OpenSessions' = OpenSessions \ {Consented(c)}
      BY <2>1, <3>2, <3>3, <3>5, PoolConfirm
    <3>7. UsedIds' = UsedIds
      BY <1>0, <2>1, <2>3, <3>1 DEF UsedAt, Ids
    <3>8. Consented(c) \in OpenSessions
      BY <3>2 DEF Pool
    <3>9. ~Protocol!Linked(c.session.username)
      BY <2>1, <2>3 DEF Protocol!Linked, CanCreateLink, LinksOf, Entry
    <3>10. Registered' = Registered \cup {[username |-> c.session.username,
                                           orcid_auth |-> c.orcid_auth]}
      BY <2>1, <2>3 DEF Registered, Entry
    <3>11. Protocol!Confirm(Consented(c))
      BY <3>6, <3>7, <3>9, <3>10 DEF Protocol!Confirm, Consented, Registered
    <3> QED
      BY <3>8, <3>11 DEF Protocol!Next
  <2> QED
    BY <1>3, <2>1, <2>2, <2>3 DEF FinishInsert, CreateLinkRecord, Answer, Goto, TypeOK
<1>4. CASE FinishDelete(w)
  <2>1. /\ k.pc = "finish_delete" /\ UNCHANGED <<links, initial, started, issued>>
        /\ completed' = {c \in completed : c.session.session_id # k.session_id}
        /\ task'[w] = Idle
    BY <1>4 DEF FinishDelete, DeleteCompleted, Answer, Goto, TypeOK
  <2>2. OpenAt(task[w])' = OpenAt(task[w]) /\ UsedAt(task[w])' = UsedAt(task[w])
    BY <2>1 DEF OpenAt, UsedAt, Leaving, Ids, Idle
  <2> QED
    BY <1>0, <2>1, <2>2 DEF View, Registered
<1> QED
  BY <1>1, <1>2, <1>3, <1>4

(* The removal of a link and the save of renewed tokens.                   *)
LEMMA LinkSteps ==
    ASSUME SerialFacts, NEW w \in Workers, Alone(w), Alone(w)',
           UnlinkDelete(w) \/ RefreshSave(w)
    PROVE  Protocol!Next \/ UNCHANGED View
<1> USE DEF At, SerialFacts
<1> DEFINE k == task[w]
<1>1. OpenSessions' = OpenSessions /\ UsedIds' = UsedIds
  <2>1. Steady(task[w]) /\ Steady(task[w])' /\ UNCHANGED <<initial, started, completed, issued>>
    BY DEF UnlinkDelete, RefreshSave, Answer, Goto, TypeOK, Steady, Idle
  <2> QED
    BY <2>1, SteadyNow, SteadyNext DEF Ids
<1>2. \A l, m \in links : l.username = m.username => l = m
  BY DEF OneLinkEach
<1>3. \A l : Entry(l).username = l.username /\ Entry(l).orcid_auth = l.orcid_auth
  BY DEF Entry
<1>4. CASE UnlinkDelete(w)
  <2>1. links' = {l \in links : l.username # k.username}
    BY <1>4 DEF UnlinkDelete, DeleteLinkRecord
  <2>2. CASE LinksOf(k.username) = {}
    <3>1. links' = links
      BY <2>1, <2>2 DEF LinksOf
    <3> QED
      BY <1>1, <3>1 DEF View, Registered
  <2>3. ASSUME NEW l \in links, l.username = k.username PROVE Protocol!Next
    <3>1. links' = links \ {l}
      BY <1>2, <2>1, <2>3
    <3>2. Registered' = Registered \ {Entry(l)}
      BY <1>2, <1>3, <3>1 DEF Registered
    <3>3. Protocol!Unlink(Entry(l))
      BY <1>1, <3>2 DEF Protocol!Unlink, Registered
    <3> QED
      BY <3>3 DEF Protocol!Next
  <2> QED
    BY <2>2, <2>3 DEF LinksOf
<1>5. CASE RefreshSave(w)
  <2>1. PICK l \in links, r \in LinkRecord :
          /\ k.link = r /\ l.username = r.username
          /\ l.orcid_auth.orcid = r.orcid_auth.orcid
          /\ r.orcid_auth \in ORCIDAuth /\ r.orcid_auth.by = r.username
          /\ Unstored(r.orcid_auth)
    <3>1. k.pc = "refresh_save" /\ k \in Continuation
      BY <1>5 DEF RefreshSave, TypeOK
    <3>2. k.link \in LinkRecord
      BY <3>1, Locals
    <3>3. k.link.orcid_auth.by = k.link.username
      BY <3>1 DEF OwnInv, TasksOwnTokens, OwnsTokens
    <3> QED
      BY <3>1, <3>2, <3>3 DEF Alone, Consistent, TokenInPlace, LinksOf, LinkRecord
  <2>2. links' = {IF m.username = r.username THEN r ELSE m : m \in links}
    BY <1>5, <2>1 DEF RefreshSave, SaveLinkRecord
  <2>3. links' = (links \ {l}) \cup {r}
    BY <1>2, <2>1, <2>2
  <2>4. Registered' = (Registered \ {Entry(l)}) \cup {Entry(r)}
    BY <1>2, <1>3, <2>3 DEF Registered
  <2>5. [Entry(l) EXCEPT !.orcid_auth = r.orcid_auth] = Entry(r)
    BY <2>1 DEF Entry
  <2>6. r.orcid_auth \notin Protocol!TokensInUse
    BY <2>1, UnstoredUnused
  <2>7. Protocol!Renew(Entry(l), r.orcid_auth)
    BY <1>1, <1>3, <2>1, <2>4, <2>5, <2>6 DEF Protocol!Renew, Registered
  <2> QED
    BY <2>1, <2>7 DEF Protocol!Next
<1> QED
  BY <1>4, <1>5

(* Every command of every handler.                                         *)
LEMMA HandlerStep ==
    ASSUME SerialFacts, NEW w \in Workers, Alone(w), Alone(w)', Request(w) \/ Step(w)
    PROVE  Protocol!Next \/ UNCHANGED View
<1> USE DEF At, SerialFacts
<1> DEFINE k == task[w]
<1>1. CASE \/ \E u \in Users, s \in SessionIds :
                Start(w, u, s) \/ Continue(w, u, s) \/ Finish(w, u, s) \/ Cancel(w, u, s)
           \/ LinkRequest(w) \/ DeleteExpired(w)
  <2>1. k = Idle /\ Steady(task'[w]) /\ UNCHANGED storageVars
    BY <1>1 DEF Start, Continue, Finish, Cancel, LinkRequest, Unlink, UseLink, RefreshTokens,
                DeleteExpired, Accept, Goto, TypeOK, Steady
  <2> QED
    BY <2>1, QuietStep DEF Steady, Idle
<1>2. CASE \/ StartFind(w) \/ ContinueExchange(w) \/ ContinueFind(w) \/ CancelRevoke(w)
           \/ UnlinkRevoke(w) \/ RefreshCall(w) \/ CleanupList(w) \/ CleanupRevoke(w)
  <2>1. Steady(k) /\ UNCHANGED storageVars
    BY <1>2 DEF StartFind, ContinueExchange, ContinueFind, CancelRevoke, UnlinkRevoke,
                RefreshCall, CleanupList, CleanupRevoke, Steady
  <2>2. Steady(task'[w])
    BY <1>2 DEF StartFind, ContinueExchange, ContinueFind, CancelRevoke, UnlinkRevoke,
                RefreshCall, CleanupList, CleanupRevoke, RedirectToOrcid, RevokeOrDelete,
                Answer, Goto, TypeOK, Steady, Idle
  <2> QED
    BY <2>1, <2>2, QuietStep DEF Steady
<1>3. CASE ContinueCheck(w)
  <2>1. k.pc = "continue_check" /\ UNCHANGED storageVars
    BY <1>3 DEF ContinueCheck
  <2>2. k \in [pc : {"continue_check", "continue_find"}, session : LinkingSession,
               orcid_auth : ORCIDAuth]
    BY <2>1 DEF TypeOK, Continuation, Idle
  <2>3. task'[w].pc \in {"continue_reject", "continue_find"}
    BY <1>3, <2>2 DEF ContinueCheck, Goto, TypeOK
  <2> QED
    BY <2>1, <2>3, QuietStep DEF Steady
<1>4. CASE \/ ContinueReject(w) \/ CancelDelete(w)
           \/ CleanupInitial(w) \/ CleanupStarted(w) \/ CleanupCompleted(w)
  <2>1. Steady(k) /\ Steady(task'[w]) /\ UNCHANGED <<links, issued>>
    BY <1>4 DEF ContinueReject, CancelDelete, CleanupInitial, CleanupStarted,
                CleanupCompleted, Answer, Goto, TypeOK, Steady, Idle
  <2>2. \/ initial' \subseteq initial /\ UNCHANGED <<started, completed>>
        \/ started' \subseteq started /\ UNCHANGED <<initial, completed>>
        \/ completed' \subseteq completed /\ UNCHANGED <<initial, started>>
    BY <1>4 DEF ContinueReject, CancelDelete, CleanupInitial, CleanupStarted,
                CleanupCompleted, DeleteStarted, DeleteCompleted, DeleteExpiredInitial,
                DeleteExpiredStarted, DeleteExpiredCompleted
  <2>3. StagesApart(Idle)
    BY <2>1 DEF Alone, Consistent, StagesApart, Is, Steady
  <2>4. /\ OpenSessions = Pool(initial, started, completed) /\ UsedIds = Ids(issued)
        /\ (OpenSessions = Pool(initial, started, completed) /\ UsedIds = Ids(issued))'
    BY <2>1, SteadyNow, SteadyNext DEF Steady
  <2> QED
    BY <2>1, <2>2, <2>3, <2>4, DiscardStep
<1> QED
  BY <1>1, <1>2, <1>3, <1>4, IssueSteps, ConsentSteps, LinkSteps
     DEF Request, Step, LinkingRequest, LinkingStep, LinkStep, ManagementStep

(* Between requests there is nothing in the middle of a move.              *)
LEMMA IdleView ==
    ASSUME AllIdle, StagesApart(Idle)
    PROVE  OpenSessions = Pool(initial, started, completed) /\ UsedIds = Ids(issued)
<1>1. {d \in initial : d.session_id \notin Ids(started)} = initial
  BY DEF StagesApart, Is, Ids, Idle
<1>2. {d \in started : d.session_id \notin CompletedIds} = started
  BY DEF StagesApart, Is, CompletedIds, Idle
<1>3. {c \in completed : ~Confirmed(c.session.session_id)} = completed
  BY DEF AllIdle, Confirmed, At, Idle
<1>4. {v \in Workers : At(v, "create_insert")} = {}
  BY DEF AllIdle, At, Idle
<1>5. UsedIds = Ids(issued)
  BY <1>4 DEF UsedIds
<1> QED
  BY <1>1, <1>2, <1>3, <1>5, OpenParts

(* Nor after a manager's command.                                          *)
LEMMA IdleViewNext ==
    ASSUME AllIdle', StagesApart(Idle)'
    PROVE  (OpenSessions = Pool(initial, started, completed) /\ UsedIds = Ids(issued))'
BY IdleView, PTL

(* Every step is one of the protocol's or none.                            *)
LEMMA ProtocolStep ==
    ASSUME SerialFacts, SerialInv, SerialInv', [SerialNext]_vars
    PROVE  Protocol!Next \/ UNCHANGED View
<1>1. ASSUME NEW w \in Workers, OthersIdle(w), Request(w) \/ Step(w)
      PROVE  Protocol!Next \/ UNCHANGED View
  <2>1. PICK k : Goto(w, k)
    BY <1>1, OneSlot DEF SerialFacts
  <2>2. OthersIdle(w)'
    BY <1>1, <2>1 DEF SerialFacts, TypeOK, Goto, OthersIdle
  <2>3. Alone(w) /\ Alone(w)'
    BY <1>1, <2>2 DEF SerialInv, Sound, Alone
  <2> QED
    BY <1>1, <2>3, HandlerStep
<1>2. CASE AllIdle /\ AdminDelete
  <2>1. /\ UNCHANGED <<task, links, issued>>
        /\ \/ initial' \subseteq initial /\ UNCHANGED <<started, completed>>
           \/ started' \subseteq started /\ UNCHANGED <<initial, completed>>
           \/ completed' \subseteq completed /\ UNCHANGED <<initial, started>>
    BY <1>2 DEF AdminDelete, AdminDeleteInitial, AdminDeleteStarted, AdminDeleteCompleted,
                DeleteInitial, DeleteStarted, DeleteCompleted, requestVars
  <2>2. AllIdle'
    BY <1>2, <2>1 DEF AllIdle
  <2>3. StagesApart(Idle) /\ StagesApart(Idle)'
    BY <1>2, <2>2 DEF SerialInv, Sound, Consistent
  <2> QED
    BY <1>2, <2>1, <2>2, <2>3, IdleView, IdleViewNext, DiscardStep DEF SerialFacts
<1>3. CASE Tick \/ OrcidWithdraws \/ UNCHANGED vars
  <2>1. UNCHANGED task /\ UNCHANGED storageVars
    BY <1>3 DEF Tick, OrcidWithdraws, requestVars, vars
  <2>2. OpenSessions' = OpenSessions
    BY <2>1 DEF storageVars, OpenSessions, Ids, CompletedIds, Confirmed, At
  <2>3. UsedIds' = UsedIds
    BY <2>1 DEF storageVars, UsedIds, Ids, At
  <2> QED
    BY <2>1, <2>2, <2>3 DEF View, Registered, storageVars
<1> QED
  BY <1>1, <1>2, <1>3 DEF SerialNext

(* The service implements the linking protocol of its documentation when   *)
(* it handles one request at a time: whatever calls fail, each of create,  *)
(* start, continue, finish, cancel, unlink, the renewal and the removals   *)
(* is one step of it, although start, continue and finish send several     *)
(* commands to the database.                                               *)
THEOREM OneRequestOneStep == SerialSpec => HandlersAreAtomic
<1>1. Init => Protocol!Init
  <2> SUFFICES ASSUME Init PROVE Protocol!Init
    OBVIOUS
  <2>1. initial = {} /\ started = {} /\ completed = {} /\ issued = {} /\ links = {}
    BY DEF Init, StorageInit
  <2> QED
    BY <2>1 DEF Protocol!Init, OpenSessions, UsedIds, Ids
<1>2. SerialFacts /\ SerialInv /\ SerialInv' /\ [SerialNext]_vars
        => [Protocol!Next]_(Protocol!vars)
  BY ProtocolStep DEF View, Registered, Protocol!vars
<1> QED
  BY <1>1, <1>2, SerialAlways, PTL DEF SerialSpec, HandlersAreAtomic, Protocol!Spec
=============================================================================
