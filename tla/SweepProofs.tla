---------------------------- MODULE SweepProofs -----------------------------
(***************************************************************************)
(* The removal of expired sessions spares every other one, for any number  *)
(* of users, sessions, requests in flight and failures.                    *)
(***************************************************************************)
EXTENDS OrcidLinkProofs

-----------------------------------------------------------------------------
(* What a cleanup takes for expired must still be so when it deletes: the  *)
(* time it carries from one await to the next lies in the past.            *)

Sweeping == {"cleanup_list", "cleanup_initial", "cleanup_started", "cleanup_completed"}

ReadEarlier(k) == k.pc \in Sweeping => k.at <= now

SweepsThePast == \A w \in Workers : ReadEarlier(task[w])

ResumesEarlier(w) == \E k : Goto(w, k) /\ ReadEarlier(k)

(* A coroutine that carries such a time leaves every coroutine so.         *)
LEMMA GotoEarlier ==
    ASSUME TypeOK, SweepsThePast, NEW w \in Workers, ResumesEarlier(w), now' = now
    PROVE  SweepsThePast'
<1>1. PICK k : Goto(w, k) /\ ReadEarlier(k)
  BY DEF ResumesEarlier
<1>2. \A v \in Workers : task'[v] = IF v = w THEN k ELSE task[v]
  BY <1>1 DEF TypeOK, Goto
<1>3. \A v \in Workers : ReadEarlier(task'[v])
  BY <1>1, <1>2 DEF SweepsThePast
<1> QED
  BY <1>3 DEF SweepsThePast, ReadEarlier

(* A handler that answers carries no time.                                 *)
LEMMA AnswerEarlier ==
    ASSUME NEW w \in Workers, Answer(w)
    PROVE  ResumesEarlier(w)
BY DEF Answer, Idle, ResumesEarlier, ReadEarlier, Sweeping

(* Nor does one that suspends anywhere else.                               *)
LEMMA ElsewhereEarlier ==
    ASSUME NEW w \in Workers, NEW k, Goto(w, k), k.pc \notin Sweeping
    PROVE  ResumesEarlier(w)
BY DEF ResumesEarlier, ReadEarlier

(* The handlers of the linking flow and of links do not sweep.             *)
LEMMA OthersDoNotSweep ==
    ASSUME TypeOK, NEW w \in Workers,
           LinkingRequest(w) \/ LinkingStep(w) \/ LinkRequest(w) \/ LinkStep(w)
    PROVE  ResumesEarlier(w) /\ now' = now
<1> USE DEF Sweeping
<1>1. CASE LinkingRequest(w)
  <2>1. /\ now' = now
        /\ \/ \E d : Goto(w, [pc |-> "create_insert", session |-> d])
           \/ \E s : Goto(w, [pc |-> "start_find", session_id |-> s])
           \/ \E d, u : Goto(w, [pc |-> "continue_exchange", session |-> d, username |-> u])
           \/ \E l, s : Goto(w, [pc |-> "finish_insert", link |-> l, session_id |-> s])
           \/ \E c : Goto(w, [pc |-> "cancel_delete", doc |-> c])
    BY <1>1 DEF LinkingRequest, Create, Start, Continue, Finish, Cancel, Accept
  <2> QED
    BY <2>1, ElsewhereEarlier
<1>2. CASE CreateInsert(w) \/ StartFind(w) \/ StartInsert(w) \/ StartDelete(w)
  <2>1. /\ now' = now
        /\ \/ \E d : Goto(w, [pc |-> "start_insert", session |-> d])
           \/ \E s : Goto(w, [pc |-> "start_delete", session_id |-> s])
           \/ Answer(w)
    BY <1>2 DEF CreateInsert, StartFind, StartInsert, StartDelete, RedirectToOrcid
  <2> QED
    BY <2>1, AnswerEarlier, ElsewhereEarlier
<1>3. CASE ContinueCheck(w)
  <2>1. [task[w] EXCEPT !.pc = "continue_find"].pc \notin Sweeping
    <3>1. task[w] \in Continuation /\ task[w].pc = "continue_check"
      BY <1>3 DEF TypeOK, ContinueCheck, At
    <3> QED
      BY <3>1 DEF Continuation, Idle
  <2>2. /\ now' = now
        /\ \/ \E s : Goto(w, [pc |-> "continue_reject", session_id |-> s])
           \/ Goto(w, [task[w] EXCEPT !.pc = "continue_find"])
    BY <1>3 DEF ContinueCheck
  <2> QED
    BY <2>1, <2>2, ElsewhereEarlier
<1>4. CASE \/ ContinueExchange(w) \/ ContinueReject(w) \/ ContinueFind(w)
           \/ ContinueInsert(w) \/ ContinueDelete(w)
  <2>1. /\ now' = now
        /\ \/ \E d, a : Goto(w, [pc |-> "continue_check", session |-> d, orcid_auth |-> a])
           \/ \E c : Goto(w, [pc |-> "continue_insert", doc |-> c])
           \/ \E s : Goto(w, [pc |-> "continue_delete", session_id |-> s])
           \/ Answer(w)
    BY <1>4
       DEF ContinueExchange, ContinueReject, ContinueFind, ContinueInsert, ContinueDelete
  <2> QED
    BY <2>1, AnswerEarlier, ElsewhereEarlier
<1>5. CASE FinishInsert(w) \/ FinishDelete(w) \/ CancelDelete(w) \/ CancelRevoke(w)
  BY <1>5, AnswerEarlier, ElsewhereEarlier
     DEF FinishInsert, FinishDelete, CancelDelete, CancelRevoke
<1>6. CASE LinkRequest(w)
  <2>1. /\ now' = now
        /\ \/ \E u, a : Goto(w, [pc |-> "unlink_revoke", username |-> u, orcid_auth |-> a])
           \/ \E l : Goto(w, [pc |-> "refresh_call", link |-> l])
    BY <1>6 DEF LinkRequest, Unlink, UseLink, RefreshTokens, Accept
  <2> QED
    BY <2>1, ElsewhereEarlier
<1>7. CASE LinkStep(w)
  BY <1>7, AnswerEarlier, ElsewhereEarlier
     DEF LinkStep, UnlinkRevoke, UnlinkDelete, RefreshCall, RefreshSave
<1> QED
  BY <1>1, <1>2, <1>3, <1>4, <1>5, <1>6, <1>7 DEF LinkingStep

(* A step of the service is a step of one slot.                            *)
LEMMA OneSlot ==
    ASSUME TypeOK, NEW w \in Workers, Request(w) \/ Step(w)
    PROVE  \E k : Goto(w, k)
BY OthersDoNotSweep
   DEF Request, Step, ResumesEarlier, DeleteExpired, Accept, ManagementStep, CleanupList,
       CleanupRevoke, RevokeOrDelete, CleanupInitial, CleanupStarted, CleanupCompleted, Answer

(* A cleanup reads the clock when it is called and when it starts to       *)
(* delete, and carries on with the time it has otherwise.                  *)
LEMMA CleanupReadsClock ==
    ASSUME TypeOK, SweepsThePast, NEW w \in Workers, DeleteExpired(w) \/ ManagementStep(w)
    PROVE  ResumesEarlier(w) /\ now' = now
<1> USE DEF ResumesEarlier, ReadEarlier, Sweeping
<1>0. now \in Nat /\ now <= now
  BY EntitiesAssumption DEF TypeOK
<1>1. CASE DeleteExpired(w)
  BY <1>0, <1>1 DEF DeleteExpired, Accept
<1>2. ASSUME NEW auths, RevokeOrDelete(w, auths) PROVE ResumesEarlier(w)
  BY <1>0, <1>2 DEF RevokeOrDelete
<1>3. CASE CleanupList(w) \/ CleanupRevoke(w)
  BY <1>2, <1>3, AnswerEarlier DEF CleanupList, CleanupRevoke
<1>4. CASE CleanupInitial(w) \/ CleanupStarted(w)
  BY <1>4 DEF CleanupInitial, CleanupStarted, At, SweepsThePast
<1>5. CASE CleanupCompleted(w)
  BY <1>5, AnswerEarlier DEF CleanupCompleted
<1> QED
  BY <1>1, <1>3, <1>4, <1>5 DEF ManagementStep

(* So it is after every step: the clock does not run backwards.            *)
LEMMA SweepStep ==
    ASSUME TypeOK, SweepsThePast, [Next]_vars
    PROVE  SweepsThePast'
<1>1. ASSUME NEW w \in Workers, Request(w) \/ Step(w) PROVE SweepsThePast'
  BY <1>1, OthersDoNotSweep, CleanupReadsClock, GotoEarlier DEF Request, Step
<1>2. CASE Tick
  <2>1. \A w \in Workers : task[w].pc \in Sweeping => task[w].at \in Nat
    BY Locals DEF TypeOK, Sweeping
  <2> QED
    BY <1>2, <2>1, EntitiesAssumption DEF Tick, TypeOK, SweepsThePast, ReadEarlier
<1>3. CASE Crash
  BY <1>3 DEF Crash, SweepsThePast, ReadEarlier, Sweeping, Idle
<1>4. CASE AdminDelete \/ OrcidWithdraws \/ UNCHANGED vars
  BY <1>4 DEF AdminDelete, AdminDeleteInitial, AdminDeleteStarted, AdminDeleteCompleted,
              OrcidWithdraws, vars, requestVars, SweepsThePast, ReadEarlier
<1> QED
  BY <1>1, <1>2, <1>3, <1>4 DEF Next

-----------------------------------------------------------------------------

SweptExpired ==
    /\ \A d \in initial \cup started : d \in initial' \cup started' \/ Expired(d, now)
    /\ \A c \in completed : c \in completed' \/ Expired(c.session, now)

(* What has expired at an earlier time has expired now.                    *)
LEMMA ExpiredSince ==
    ASSUME TypeOK, NEW at \in Nat, at <= now
    PROVE  /\ \A d \in initial \cup started : Expired(d, at) => Expired(d, now)
           /\ \A c \in completed : Expired(c.session, at) => Expired(c.session, now)
BY EntitiesAssumption
   DEF TypeOK, StorageTypeOK, LinkingSession, LinkingSessionComplete, Expired

(* The three deletions of delete_expired_sessions.                         *)
LEMMA CleanupSpares ==
    ASSUME TypeOK, SweepsThePast, NEW w \in Workers,
           CleanupInitial(w) \/ CleanupStarted(w) \/ CleanupCompleted(w)
    PROVE  SweptExpired
<1> DEFINE t == task[w].at
<1>1. t \in Nat /\ t <= now
  BY Locals
     DEF TypeOK, SweepsThePast, ReadEarlier, Sweeping, CleanupInitial, CleanupStarted,
         CleanupCompleted, At
<1>2. /\ \A d \in initial \cup started : Expired(d, t) => Expired(d, now)
      /\ \A c \in completed : Expired(c.session, t) => Expired(c.session, now)
  BY <1>1, ExpiredSince
<1> QED
  BY <1>2 DEF CleanupInitial, CleanupStarted, CleanupCompleted, DeleteExpiredInitial,
              DeleteExpiredStarted, DeleteExpiredCompleted, ExpiredCompleted, SweptExpired

(* The step in which a cleanup leaves one of its three last awaits is the  *)
(* deletion, or a crash, which deletes nothing.                            *)
LEMMA OnlyCleanupSweeps ==
    ASSUME TypeOK, NEW w \in Workers, [Next]_vars,
           task[w].pc \in {"cleanup_initial", "cleanup_started", "cleanup_completed"},
           task'[w].pc # task[w].pc
    PROVE  \/ CleanupInitial(w) \/ CleanupStarted(w) \/ CleanupCompleted(w)
           \/ UNCHANGED storageVars
<1>1. ASSUME NEW v \in Workers, Request(v) \/ Step(v)
      PROVE  CleanupInitial(w) \/ CleanupStarted(w) \/ CleanupCompleted(w)
  <2>1. \E k : Goto(v, k)
    BY <1>1, OneSlot
  <2>2. v = w
    BY <2>1 DEF Goto, TypeOK
  <2>3. ~(LinkingRequest(w) \/ LinkRequest(w) \/ DeleteExpired(w))
    <3>1. task[w] # Idle
      BY DEF Idle
    <3>2. ~LinkingRequest(w)
      BY <3>1 DEF LinkingRequest, Create, Start, Continue, Finish, Cancel, Accept
    <3> QED
      BY <3>1, <3>2 DEF LinkRequest, Unlink, UseLink, RefreshTokens, DeleteExpired, Accept
  <2>4. ~LinkingStep(w)
    BY DEF LinkingStep, CreateInsert, StartFind, StartInsert, StartDelete, ContinueExchange,
           ContinueCheck, ContinueReject, ContinueFind, ContinueInsert, ContinueDelete,
           FinishInsert, FinishDelete, CancelDelete, CancelRevoke, At
  <2>5. ~(LinkStep(w) \/ CleanupList(w) \/ CleanupRevoke(w))
    BY DEF LinkStep, UnlinkRevoke, UnlinkDelete, RefreshCall, RefreshSave, CleanupList,
           CleanupRevoke, At
  <2> QED
    BY <1>1, <2>2, <2>3, <2>4, <2>5 DEF Request, Step, ManagementStep
<1> QED
  BY <1>1 DEF Next, Tick, Crash, OrcidWithdraws, AdminDelete, AdminDeleteInitial,
              AdminDeleteStarted, AdminDeleteCompleted, requestVars, vars

(* However many cleanups run next to each other and to the linking flow,   *)
(* and however long each is suspended, delete_expired_sessions deletes     *)
(* nothing but what has expired: the time it compares with was read from   *)
(* the clock before, never after, and the expiry of a session is fixed.    *)
THEOREM CleanupSparesUnexpired == Spec => OnlyExpiredSwept
<1>1. Init => SweepsThePast
  BY DEF Init, RequestsInit, SweepsThePast, ReadEarlier, Sweeping, Idle
<1>2. TypeOK /\ SweepsThePast /\ [Next]_vars => SweepsThePast'
  BY SweepStep
<1>3. Spec => []SweepsThePast
  BY <1>1, <1>2, TypeCorrect, PTL DEF Spec
<1>4. TypeOK /\ SweepsThePast /\ [Next]_vars =>
        [\A w \in Workers :
            task[w].pc \in {"cleanup_initial", "cleanup_started", "cleanup_completed"}
                /\ task'[w].pc # task[w].pc
            => /\ \A d \in (initial \cup started) : d \in initial' \cup started' \/ Expired(d, now)
               /\ \A c \in completed : c \in completed' \/ Expired(c.session, now)]_vars
  BY OnlyCleanupSweeps, CleanupSpares DEF SweptExpired, storageVars
<1> QED
  BY <1>3, <1>4, TypeCorrect, PTL DEF Spec, OnlyExpiredSwept
=============================================================================
