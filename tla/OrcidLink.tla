----------------------------- MODULE OrcidLink ------------------------------
(***************************************************************************)
(* The orcidlink service: requests of every kind interleave at their       *)
(* awaits over one database and one token authority, while time passes,    *)
(* the process is restarted and users withdraw consent at ORCID.           *)
(***************************************************************************)
EXTENDS LinkingSessions, LinkRecords, Management

vars == <<requestVars, storageVars, authorityVars>>

Init == RequestsInit /\ StorageInit /\ AuthorityInit

-----------------------------------------------------------------------------

Tick ==
    /\ now < MaxTime
    /\ now' = now + 1
    /\ UNCHANGED <<task, storageVars, authorityVars>>

(* The process dies: every coroutine is lost, the database is not.         *)
Crash ==
    /\ ~AllIdle
    /\ task' = [w \in Workers |-> Idle]
    /\ SpendFault
    /\ UNCHANGED <<now, storageVars, live, minted, redirected>>

(* A user removes KBase from the trusted parties of the ORCID account.     *)
OrcidWithdraws ==
    /\ \E auth \in live : live' = live \ {auth}
    /\ SpendFault
    /\ UNCHANGED <<requestVars, storageVars, minted, redirected>>

Request(w) == LinkingRequest(w) \/ LinkRequest(w) \/ DeleteExpired(w)

Step(w) == LinkingStep(w) \/ LinkStep(w) \/ ManagementStep(w)

Next ==
    \/ \E w \in Workers : Request(w) \/ Step(w)
    \/ AdminDelete
    \/ Tick
    \/ Crash
    \/ OrcidWithdraws

Spec == Init /\ [][Next]_vars

(* One request at a time: while one is in flight nothing else moves, the   *)
(* clock and the manager included, and it comes to its end.                *)
OthersIdle(w) == \A v \in Workers \ {w} : task[v] = Idle

SerialNext ==
    \/ \E w \in Workers : OthersIdle(w) /\ (Request(w) \/ Step(w))
    \/ AllIdle /\ (AdminDelete \/ Tick \/ OrcidWithdraws)

SerialSpec == Init /\ [][SerialNext]_vars

-----------------------------------------------------------------------------
(* Types.                                                                  *)

Continuation ==
    {Idle}
    \cup [pc : {"create_insert", "start_insert"}, session : LinkingSession]
    \cup [pc : {"start_find", "start_delete", "continue_reject", "continue_delete",
                "finish_delete"}, session_id : SessionIds]
    \cup [pc : {"continue_exchange"}, session : LinkingSession, username : Users]
    \cup [pc : {"continue_check", "continue_find"}, session : LinkingSession,
          orcid_auth : ORCIDAuth]
    \cup [pc : {"continue_insert", "cancel_delete"}, doc : LinkingSessionComplete]
    \cup [pc : {"finish_insert"}, link : LinkRecord, session_id : SessionIds]
    \cup [pc : {"cancel_revoke"}, orcid_auth : ORCIDAuth]
    \cup [pc : {"unlink_revoke"}, username : Users, orcid_auth : ORCIDAuth]
    \cup [pc : {"unlink_delete"}, username : Users]
    \cup [pc : {"refresh_call", "refresh_save"}, link : LinkRecord]
    \cup [pc : {"cleanup_revoke"}, auths : SUBSET ORCIDAuth]
    \cup [pc : {"cleanup_list", "cleanup_initial", "cleanup_started",
                "cleanup_completed"}, at : Nat]

(* Every variable holds values of the shape the code gives it: stored      *)
(* documents, suspended coroutines and their locals, tokens, the clock.    *)
TypeOK ==
    /\ task \in [Workers -> Continuation]
    /\ now \in 0..MaxTime
    /\ StorageTypeOK
    /\ AuthorityTypeOK

-----------------------------------------------------------------------------
(* Whose tokens.                                                           *)

(* The service never files an ORCID token under a KBase account other than *)
(* the one whose browser fetched it.  It rests on the owner checks of      *)
(* continue, finish and cancel, on the session keeping its owner through   *)
(* two copies, and on a renewal saving the record it was asked to renew.   *)
TokensOwnedByHolder ==
    /\ \A c \in completed : c.orcid_auth.by = c.session.username
    /\ \A l \in links : l.orcid_auth.by = l.username

(* The locals of a coroutine agree with each other, however stale they are.*)
OwnsTokens(k) ==
    /\ k.pc = "continue_exchange" => k.username = k.session.username
    /\ k.pc \in {"continue_check", "continue_find"} => k.orcid_auth.by = k.session.username
    /\ k.pc \in {"continue_insert", "cancel_delete"} =>
            k.doc.orcid_auth.by = k.doc.session.username
    /\ k.pc \in {"finish_insert", "refresh_call", "refresh_save"} =>
            k.link.orcid_auth.by = k.link.username

(* Nor does a suspended request carry a token across accounts: what it     *)
(* will store after its next await belongs to the account it stores it for.*)
TasksOwnTokens == \A w \in Workers : OwnsTokens(task[w])

(* A session keeps the owner and the expiry it was issued with, in every   *)
(* collection and in every coroutine that read it, whatever order the      *)
(* moves between the collections happen in.                                *)
TaskSessions(k) ==
    IF k.pc \in {"create_insert", "start_insert", "continue_exchange",
                 "continue_check", "continue_find"}
    THEN {k.session}
    ELSE IF k.pc \in {"continue_insert", "cancel_delete"} THEN {k.doc.session} ELSE {}

SessionTermsFixed ==
    /\ \A d, e \in issued : d.session_id = e.session_id => d = e
    /\ initial \subseteq issued
    /\ started \subseteq issued
    /\ \A c \in completed : c.session \in issued
    /\ \A w \in Workers : TaskSessions(task[w]) \subseteq issued

(* The removal of expired sessions spares every session that can still be  *)
(* used: whatever a cleanup step deletes has expired.                      *)
OnlyExpiredSwept ==
    [][\A w \in Workers :
        task[w].pc \in {"cleanup_initial", "cleanup_started", "cleanup_completed"}
            /\ task'[w].pc # task[w].pc
        => /\ \A d \in (initial \cup started) : d \in initial' \cup started' \/ Expired(d, now)
           /\ \A c \in completed : c \in completed' \/ Expired(c.session, now)]_vars

-----------------------------------------------------------------------------
(* Tokens that work.                                                       *)

(* A link's token works, or the request that is renewing it is about to    *)
(* save one that does, or the request that revoked it is about to delete   *)
(* the link.  No fault and no sharing of tokens between a link and a       *)
(* session that gets revoked may be in play: see the runs.                 *)
LinkUsable ==
    \A l \in links :
        \/ l.orcid_auth \in live
        \/ \E w \in Workers :
            \/ /\ At(w, "refresh_save")
               /\ task[w].link.username = l.username
               /\ task[w].link.orcid_auth \in live
            \/ /\ At(w, "unlink_delete")
               /\ task[w].username = l.username

(* The tokens a coroutine has in hand and still means to store or revoke.  *)
TaskAuths(k) ==
    IF k.pc \in {"continue_check", "continue_find", "cancel_revoke", "unlink_revoke"}
    THEN {k.orcid_auth}
    ELSE IF k.pc \in {"continue_insert", "cancel_delete"} THEN {k.doc.orcid_auth}
    ELSE IF k.pc \in {"finish_insert", "refresh_save"} THEN {k.link.orcid_auth}
    ELSE IF k.pc = "cleanup_revoke" THEN k.auths ELSE {}

Held == {c.orcid_auth : c \in completed} \cup {l.orcid_auth : l \in links}
            \cup UNION {TaskAuths(task[w]) : w \in Workers}

(* The code gives up a token without revoking it where the ORCID account   *)
(* turns out to be linked already, and where a manager deletes a single    *)
(* completed session, the one effect on storage that no slot stands for.   *)
GivenUp(auth) ==
    \/ \E w \in Workers :
        /\ At(w, "continue_check") /\ task[w].orcid_auth = auth
        /\ task'[w].pc = "continue_reject"
    \/ /\ UNCHANGED task
       /\ \E c \in completed : c.orcid_auth = auth

(* A token that ORCID honours stays within the service's reach, in a link, *)
(* in a completed session or in the hands of a request: otherwise nobody   *)
(* can revoke it any more.                                                 *)
TokensStayReachable ==
    [][\A auth \in live' :
        auth \in Held \/ auth \notin live => auth \in Held' \/ GivenUp(auth)]_vars

-----------------------------------------------------------------------------
(* Between requests a session is in one collection at most: start and      *)
(* continue move it and finish consumes it.                                *)
OneStagePerSession ==
    AllIdle => \A s \in SessionIds :
        Cardinality(Sessions(initial, s)) + Cardinality(Sessions(started, s))
            + Cardinality(CompletedSessions(s)) <= 1

(* Between requests no token is both in a link and in a session: revoking  *)
(* the session's (cancel, cleanup) would break the link.                   *)
LinkTokensUnshared ==
    AllIdle => \A l \in links, c \in completed : l.orcid_auth # c.orcid_auth

-----------------------------------------------------------------------------
(* What the service implements.                                            *)

Entry(l) == [username |-> l.username, orcid_auth |-> l.orcid_auth]

Registry == INSTANCE LinkRegistry WITH registered <- {Entry(l) : l \in links}

(* Links, seen from outside: whatever handlers interleave and fail, the    *)
(* commands on the collection links register a user who had no link, renew *)
(* or remove one link at a time, and keep to the user's own tokens.        *)
LinksAreRegistry == Registry!Spec

(* A move between two collections has happened with its insert, and a      *)
(* confirmation with the insert of the link.                               *)
Ids(D) == {d.session_id : d \in D}

CompletedIds == {c.session.session_id : c \in completed}

Confirmed(s) == \E w \in Workers : At(w, "finish_delete") /\ task[w].session_id = s

Stage(d, stage) == [session_id |-> d.session_id, username |-> d.username, stage |-> stage]

OpenSessions ==
    {Stage(d, "initial") : d \in {e \in initial : e.session_id \notin Ids(started)}}
    \cup {Stage(d, "started") : d \in {e \in started : e.session_id \notin CompletedIds}}
    \cup {[session_id |-> c.session.session_id, username |-> c.session.username,
           stage |-> "completed", orcid_auth |-> c.orcid_auth] :
             c \in {e \in completed : ~Confirmed(e.session.session_id)}}

UsedIds == Ids(issued \ {task[w].session : w \in {v \in Workers : At(v, "create_insert")}})

Protocol ==
    INSTANCE LinkingProtocol
        WITH open <- OpenSessions, used <- UsedIds, registered <- {Entry(l) : l \in links}

(* The whole flow, when requests do not overlap: each handler, however     *)
(* many commands it sends, is one step of the documented protocol, made at *)
(* one of its commands.                                                    *)
HandlersAreAtomic == Protocol!Spec

-----------------------------------------------------------------------------
(* Fairness: the event loop resumes every coroutine whose await was        *)
(* answered, and aiohttp and the MongoDB driver answer or time out.  Where *)
(* a script calls delete-expired-linking-sessions over and over, a call    *)
(* finds a free slot at times, hence strong fairness.                      *)

FairSpec == Spec /\ \A w \in Workers : WF_vars(Step(w))

SweptSpec == FairSpec /\ SF_vars(\E w \in Workers : DeleteExpired(w))

(* Every request is answered: no handler waits for another, and the loop   *)
(* of the cleanup ends.                                                    *)
RequestsAnswered == \A w \in Workers : task[w] # Idle ~> task[w] = Idle

(* Calling the cleanup regularly does get rid of every expired session,    *)
(* though each call stops at the first revocation that fails.              *)
Lingers(s) ==
    \/ \E d \in initial \cup started : d.session_id = s /\ Expired(d, now)
    \/ \E c \in completed : c.session.session_id = s /\ Expired(c.session, now)

ExpiredEventuallySwept == \A s \in SessionIds : Lingers(s) ~> ~Lingers(s)

-----------------------------------------------------------------------------
(* What the documentation and the comments say, and the code does not      *)
(* ensure.  Each has a run that shows how it fails.                        *)

(* routers/linking_sessions.py:436: an ORCID account that is linked        *)
(* already is an error.  The check is made at continue; two users can both *)
(* pass it before either finishes.                                         *)
OneUserPerOrcid ==
    \A l, m \in links : l.orcid_auth.orcid = m.orcid_auth.orcid => l.username = m.username

(* docs/operation/database-maintenance.md:22: a session past its lifetime  *)
(* cannot be used.  No handler compares expires_at with the clock.         *)
ExpiredSessionNotUsed ==
    [][\A w \in Workers :
        (task[w] = Idle /\ task'[w].pc = "finish_insert")
        => \A c \in CompletedSessions(task'[w].session_id) : ~Expired(c.session, now)]_vars

(* docs/operation/database-maintenance.md:18: a cancelled session does not *)
(* become a link.  A finish that has read the session does not look again. *)
LinkFromOpenSession ==
    [][\A w \in Workers :
        (At(w, "finish_insert") /\ task'[w].pc = "finish_delete")
        => CompletedSessions(task[w].session_id) # {}]_vars

(* docs/operation/database-maintenance.md:27: the access key of a          *)
(* completed session should be deactivated; the removal of expired         *)
(* sessions is the operation that does it.                                 *)
SweptTokensRevoked ==
    [][\A w \in Workers :
        (At(w, "cleanup_completed") /\ task'[w] = Idle /\ completed' # completed)
        => \A c \in completed \ completed' : c.orcid_auth \notin live]_vars

(* docs/diagrams/usage-flow.puml:79: the session is in started mode when   *)
(* the browser is redirected to ORCID.  The exception of a failed move is  *)
(* swallowed, and the user who consents comes back to "not found".         *)
RedirectMeansStarted ==
    [][\A s \in redirected' \ redirected : Sessions(started', s) # {}]_vars
=============================================================================
