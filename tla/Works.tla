------------------------------- MODULE Works --------------------------------
(***************************************************************************)
(* The works methods and get-orcid-profile on top of the service: each     *)
(* request authorizes its caller, reads the link (renewing it first if it  *)
(* is retired), calls ORCID once or twice with the tokens it has read, and *)
(* answers.  Requests of every kind interleave at those awaits.            *)
(***************************************************************************)
EXTENDS OrcidLink, ServiceClients

CONSTANTS
    Methods,       \* the methods that clients call in this instance
    HiddenNames,   \* the ORCID accounts that keep their name private
    UnfitOwners,   \* and those that a work's self contributor cannot name
    MaxCreates,    \* bound: create requests in a behaviour
    Established,   \* the links to start from
    Present        \* the works to start from, of the linked accounts

AllMethods == {"get-orcid-works", "get-orcid-work", "create-orcid-work",
               "update-orcid-work", "delete-orcid-work", "get-orcid-profile"}

(* A work is ours or another program's.  The conversions can show the work *)
(* itself, or only what get-orcid-works lists of it (another program's     *)
(* work without a journal or citation), or nothing (an external id outside *)
(* the vocabularies, a second DOI of its own).  What a work says is the    *)
(* subject of the module Conversions.                                      *)
WorkAtOrcid ==
    [code : 0..MaxCreates, orcid : Orcids, ours : BOOLEAN,
     shows : {"work", "summary", "nothing"}]

ASSUME WorksAssumption ==
    /\ None \notin ORCIDAuth
    /\ Methods \subseteq AllMethods
    /\ HiddenNames \subseteq Orcids
    /\ UnfitOwners \subseteq Orcids
    /\ MaxCreates \in Nat
    /\ \A W \in Present : W \subseteq WorkAtOrcid
    /\ \A S \in Established :
          /\ S \subseteq LinkRecord /\ IsFiniteSet(S)
          /\ \A l \in S : l.orcid_auth.by = l.username
          /\ \A l, m \in S : l.username = m.username => l = m
          /\ {l.orcid_auth.token : l \in S} = 1..Cardinality(S)

VARIABLES
    job,      \* what the slot's request holds, or None
    works,    \* the works at ORCID
    codes,    \* how many put codes ORCID has given to works of the service
    asked,    \* history: how many create requests reached ORCID's door
    answer    \* the answer that has just been sent, or None

workVars == <<job, works, codes, asked, answer>>

allVars == <<vars, workVars>>

(* "readable" says whether the work can be shown that the request sends or *)
(* has got.  "caller" is history: whose KBase token came with the request; *)
(* "done" is history too: ORCID did what the request is about.             *)
Job == [pc : {"renew", "call", "profile"}, op : Methods, caller : Users, username : Users,
        code : 0..MaxCreates, orcid_auth : ORCIDAuth \cup {None}, readable : BOOLEAN,
        done : BOOLEAN]

Outcome(r) == IF r.ok THEN Good("result") ELSE r

(* The slot's request is over, with this answer.                           *)
Ends(w, r, done) ==
    /\ job' = [job EXCEPT ![w] = None]
    /\ answer' = [result |-> Outcome(r), done |-> done]

Proceeds(w, j) ==
    /\ job' = [job EXCEPT ![w] = j]
    /\ answer' = None

-----------------------------------------------------------------------------
(* The caller.  A user's KBase token is taken for the user.                *)

KBaseTokens == Users \cup {None, "stale"}

AuthResponse(token) ==
    IF token \in Users
    THEN Response(200, "application/json", [kind |-> "expected", user |-> token])
    ELSE Response(401, "application/json", Coded("appcode", 10020))

AuthFails ==
    Losses \cup
    {Response(502, "text/html", Json("text")),
     Response(200, "application/json", Json("text")),
     Response(500, "application/json", Coded("appcode", 10000)),
     Response(500, "application/json", Json("other"))}

NoOwnerCheck(token, username, r) == ensure_authorization2(token, r)   \* a slip

Admits(token, username, r) ==
    LET caller == ensure_authorization2(token, r)
    IN  IF caller.ok /\ caller.value.user # username THEN Raise("NotAuthorized") ELSE caller

FirstCall(op) == IF op = "get-orcid-profile" THEN "profile" ELSE "call"

NamesWork(op) == op \in {"get-orcid-work", "update-orcid-work", "delete-orcid-work"}

(* Whether a work that the client sends can be shown again.                *)
MaySend(op) == IF op \in {"create-orcid-work", "update-orcid-work"} THEN BOOLEAN ELSE {TRUE}

NewJob(op, token, u, auth, code, readable) ==
    [pc |-> FirstCall(op), op |-> op, caller |-> token, username |-> u, code |-> code,
     orcid_auth |-> auth, readable |-> readable, done |-> FALSE]

AwaitsRenewal(j) == [j EXCEPT !.pc = "renew", !.orcid_auth = None]

(* A request of a caller who is not admitted, or who has no link, is       *)
(* answered with an error and changes nothing.  link_record_for_user, up   *)
(* to its first answer: a link that is not retired is used as it is.  An   *)
(* operation on one work may name any code, also one that is not there,    *)
(* and a work that is sent satisfies the declared model, which does not    *)
(* keep a second DOI of its own out of it.                                 *)
CallMethod(w) ==
    /\ job[w] = None /\ task[w] = Idle
    /\ \E op \in Methods, token \in KBaseTokens, username \in Users :
        /\ \E r \in {AuthResponse(token)} \cup AuthFails : Admits(token, username, r).ok
        /\ \E l \in LinksOf(username), code \in IF NamesWork(op) THEN 0..codes ELSE {0},
              readable \in MaySend(op) :
            LET new == NewJob(op, token, username, l.orcid_auth, code, readable)
            IN  \/ ~Retired(l) /\ Proceeds(w, new) /\ UNCHANGED vars
                \/ UseLink(w, username) /\ Proceeds(w, AwaitsRenewal(new))
        /\ IF op = "create-orcid-work"
           THEN asked < MaxCreates /\ asked' = asked + 1
           ELSE UNCHANGED asked
    /\ UNCHANGED <<works, codes>>

-----------------------------------------------------------------------------
(* The renewal of a retired link, as any other request does it, and then   *)
(* on with the tokens it brought.                                          *)

OAuthFails ==
    Losses \cup
    {Response(502, "text/html", Json("text")),
     Response(200, "application/json", Json("text")),
     Response(500, "application/json", Coded("error", "invalid_request")),
     Response(500, "application/json", Json("other"))}

RenewOutcome(auth) ==
    IF auth \notin live /\ faults' = faults
    THEN {Response(400, "application/json", Coded("error", "invalid_grant"))}
    ELSE OAuthFails

Renew(w) ==
    /\ job[w] # None /\ job[w].pc = "renew"
    /\ RefreshCall(w)
    /\ \/ /\ task'[w] # Idle
          /\ Proceeds(w, job[w])
       \/ /\ task'[w] = Idle
          /\ \E r \in RenewOutcome(task[w].link.orcid_auth) : Ends(w, refresh_token(r), FALSE)
    /\ UNCHANGED <<works, codes, asked>>

ReadBeforeRenewal(w) ==   \* a slip: the record as it was read is used
    [job[w] EXCEPT !.pc = FirstCall(job[w].op),
                   !.orcid_auth = IF LinksOf(job[w].username) = {} THEN task[w].link.orcid_auth
                                  ELSE (CHOOSE l \in LinksOf(job[w].username) : TRUE).orcid_auth]

RenewedWithout(w) == [job[w] EXCEPT !.pc = FirstCall(job[w].op)]   \* a slip: no tokens

Renewed(w) ==
    [job[w] EXCEPT !.pc = FirstCall(job[w].op), !.orcid_auth = task[w].link.orcid_auth]

RenewSaved(w) ==
    /\ job[w] # None /\ job[w].pc = "renew"
    /\ Proceeds(w, Renewed(w))
    /\ RefreshSave(w)
    /\ UNCHANGED <<works, codes, asked>>

-----------------------------------------------------------------------------
(* ORCID's side of a call: it serves whom it honours, on that account.     *)

OrcidResponse(s, b) == Response(s, ORCID_API_CONTENT_TYPE, b)

Target(j) == {k \in works : k.code = j.code /\ k.orcid = j.orcid_auth.orcid}

NoSuchWork == Coded("error-code", 9016)

(* Why it refuses, or None: an unknown token, an unknown work, a work that *)
(* another program has written.                                            *)
Refusal(j) ==
    CASE j.orcid_auth \notin live -> OrcidResponse(401, Coded("error", "invalid_token"))
      [] j.orcid_auth \in live /\ j.pc = "profile" -> None
      [] j.orcid_auth \in live /\ j.pc = "call" ->
            IF j.op \in {"get-orcid-works", "create-orcid-work"} THEN None
            ELSE IF Target(j) = {} /\ j.op = "get-orcid-work"
            THEN OrcidResponse(200, InBulk(NoSuchWork))
            ELSE IF Target(j) = {} THEN OrcidResponse(404, NoSuchWork)
            ELSE IF j.op # "get-orcid-work" /\ \E k \in Target(j) : ~k.ours
            THEN OrcidResponse(403, Coded("error-code", 9010))
            ELSE None

Served(j) ==
    IF j.op = "delete-orcid-work" THEN Response(204, "none", Json("empty"))
    ELSE OrcidResponse(200, Json("expected"))

OrcidFails ==
    Losses \cup
    {Response(502, "text/html", Json("text")),
     OrcidResponse(200, Json("empty")), OrcidResponse(200, Json("other")),
     OrcidResponse(500, Coded("error-code", 9008)), OrcidResponse(500, Json("other")),
     OrcidResponse(400, Coded("error", "invalid_request")),
     OrcidResponse(400, Coded("error", "unsupported"))}

Untouched == UNCHANGED <<works, codes>>

(* What it does: it keeps the work that it is sent, whether or not the     *)
(* service can show it afterwards.                                         *)
Sent(j) == IF j.readable THEN "work" ELSE "nothing"

Performs(j) ==
    CASE j.op = "create-orcid-work" ->
            /\ codes' = codes + 1
            /\ works' = works \cup {[code |-> codes + 1, orcid |-> j.orcid_auth.orcid,
                                     ours |-> TRUE, shows |-> Sent(j)]}
      [] j.op = "update-orcid-work" ->
            /\ works' = (works \ Target(j)) \cup {[k EXCEPT !.shows = Sent(j)] : k \in Target(j)}
            /\ UNCHANGED codes
      [] j.op = "delete-orcid-work" ->
            works' = works \ Target(j) /\ UNCHANGED codes
      [] OTHER -> Untouched

(* One call: what ORCID answers, and whether it did what it was asked for. *)
Asks(j, r, done) ==
    \/ /\ Refusal(j) # None /\ r = Refusal(j) /\ ~done
       /\ Untouched /\ UNCHANGED faults
    \/ /\ Refusal(j) = None /\ r = Served(j) /\ done
       /\ Performs(j) /\ UNCHANGED faults
    \/ /\ r \in OrcidFails /\ ~done
       /\ Untouched /\ SpendFault
    \/ /\ Refusal(j) = None /\ r \in Losses /\ done
       /\ Performs(j) /\ SpendFault

-----------------------------------------------------------------------------
(* The first call of a method, about its work.                             *)

TakesAnyAnswer(op, r) ==   \* a slip: deletion does not look at the status
    IF op = "delete-orcid-work" THEN Good(r) ELSE handle_json_response(r)

CallOutcome(op, r) ==
    CASE op = "create-orcid-work" -> PostWorks(r)
      [] op = "delete-orcid-work" -> DeleteWork(r)
      [] OTHER -> handle_json_response(r)

(* get_works reads the whole list, and converts our summaries and the      *)
(* external ids of every group.                                            *)
Listing(j) ==
    IF \E k \in works : k.orcid = j.orcid_auth.orcid /\ k.shows = "nothing" THEN InternalError
    ELSE Good("works")

(* Can the work be shown that came with the answer?  What ORCID answers to *)
(* a create or save request is what was sent.                              *)
Readable(j) ==
    IF j.op = "get-orcid-work" THEN \A k \in Target(j) : k.shows = "work" ELSE j.readable

Fetched(j) == [j EXCEPT !.pc = "profile", !.done = TRUE, !.readable = Readable(j)]

(* The classes of orcid_api refuse some works of other programs as soon as *)
(* they are read: without a publication date or contributors, for example. *)
Unreadable(j) ==
    j.op = "get-orcid-work" /\ \E k \in Target(j) : ~k.ours /\ k.shows # "work"

ResendsLost(w, j, r, done) ==   \* a slip: a request whose answer is lost is sent again
    IF IsLost(r) THEN Proceeds(w, j) ELSE Ends(w, CallOutcome(j.op, r), done)

FirstAnswer(w, j, r, done) ==
    LET out == CallOutcome(j.op, r)
    IN  IF ~out.ok \/ j.op = "delete-orcid-work" THEN Ends(w, out, done)
        ELSE IF j.op = "get-orcid-works" THEN Ends(w, Listing(j), done)
        ELSE \/ Proceeds(w, Fetched(j))
             \/ Unreadable(j) /\ Ends(w, InternalError, done)

Call(w) ==
    LET j == job[w] IN
    /\ j # None /\ j.pc = "call"
    /\ \E r \in (OrcidFails \cup {Served(j), Refusal(j)}) \ {None}, done \in BOOLEAN :
        Asks(j, r, done) /\ FirstAnswer(w, j, r, done)
    /\ UNCHANGED <<requestVars, storageVars, live, minted, redirected, asked>>

(* The second call, or the only one of get-orcid-profile.  That of a       *)
(* create request is inside the try statement of the first.                *)
ProfileOutcome(op, r) ==
    IF op = "create-orcid-work" /\ IsLost(r) /\ r.lost \in ClientError THEN UpstreamError
    ELSE handle_json_response(r)

(* The work is the one that ORCID has created, saved or answered, also     *)
(* when it cannot be shown.  Of an unreadable work and a private name      *)
(* either may be noticed first; the owner's iD and name are last.          *)
Shown(j) ==
    LET owner == j.orcid_auth.orcid IN
    CASE j.op = "get-orcid-profile" -> {Good("profile")}
      [] j.op # "get-orcid-profile" /\ owner \in HiddenNames ->
            {Raise("ORCIDProfileNamePrivate")} \cup (IF j.readable THEN {} ELSE {InternalError})
      [] OTHER ->
            {IF j.readable /\ owner \notin UnfitOwners THEN Good("work") ELSE InternalError}

GetProfile(w) ==
    LET j == job[w] IN
    /\ j # None /\ j.pc = "profile"
    /\ \/ /\ Refusal(j) = None
          /\ \E out \in Shown(j) : Ends(w, out, TRUE)
          /\ UNCHANGED faults
       \/ /\ Refusal(j) # None
          /\ Ends(w, ProfileOutcome(j.op, Refusal(j)), j.done)
          /\ UNCHANGED faults
       \/ /\ \E r \in OrcidFails : Ends(w, ProfileOutcome(j.op, r), j.done)
          /\ SpendFault
    /\ UNCHANGED <<requestVars, storageVars, live, minted, redirected, works, codes, asked>>

-----------------------------------------------------------------------------
(* The rest of the service goes on as before, in the slots without a job.  *)

Quiet == answer' = None /\ UNCHANGED <<job, works, codes, asked>>

Others(w) == job[w] = None /\ (Request(w) \/ Step(w)) /\ Quiet

(* The owner, or another program, removes a work at ORCID.                 *)
OwnerDeletes ==
    /\ \E k \in works : works' = works \ {k}
    /\ answer' = None
    /\ UNCHANGED <<vars, job, codes, asked>>

Restart ==
    /\ \E w \in Workers : job[w] # None \/ task[w] # Idle
    /\ task' = [w \in Workers |-> Idle]
    /\ job' = [w \in Workers |-> None]
    /\ answer' = None
    /\ SpendFault
    /\ UNCHANGED <<now, storageVars, live, minted, redirected, works, codes, asked>>

WorkStep(w) == Renew(w) \/ RenewSaved(w) \/ Call(w) \/ GetProfile(w)

WorksNext ==
    \/ \E w \in Workers : CallMethod(w) \/ WorkStep(w) \/ Others(w)
    \/ OwnerDeletes \/ Restart
    \/ (AdminDelete \/ Tick \/ OrcidWithdraws) /\ Quiet

(* Users who have linked their accounts, and the works that are there      *)
(* already.                                                                *)
WorksInit ==
    /\ RequestsInit
    /\ links \in Established
    /\ initial = {} /\ started = {} /\ completed = {} /\ issued = {}
    /\ live = {l.orcid_auth : l \in links}
    /\ minted = Cardinality(links)
    /\ redirected = {} /\ faults = 0
    /\ job = [w \in Workers |-> None]
    /\ \E W \in Present :
          works = {k \in W : \E l \in links : l.orcid_auth.orcid = k.orcid}
    /\ codes = 0 /\ asked = 0
    /\ answer = None

WorksSpec == WorksInit /\ [][WorksNext]_allVars

-----------------------------------------------------------------------------
(* Every variable keeps its type, and a request that waits for a renewal   *)
(* has one in its slot.                                                    *)
WorksTypeOK ==
    /\ TypeOK
    /\ job \in [Workers -> Job \cup {None}]
    /\ works \subseteq WorkAtOrcid
    /\ codes \in 0..MaxCreates
    /\ asked \in 0..MaxCreates
    /\ \A w \in Workers : job[w] # None =>
        /\ job[w].pc = "renew" <=> task[w] # Idle
        /\ job[w].pc = "renew" <=> job[w].orcid_auth = None

(* A request calls ORCID only with tokens that its caller's own browser    *)
(* brought: works and profiles are read and changed for their owner, and   *)
(* however links were renewed, removed or made meanwhile.                  *)
ActsForCaller ==
    \A w \in Workers :
        job[w] # None /\ job[w].orcid_auth # None => job[w].orcid_auth.by = job[w].caller

(* However calls and answers get lost, a create request makes at most one  *)
(* work.                                                                   *)
NoDuplicates == codes <= asked

(* With its first call a request uses tokens that ORCID honours, unless    *)
(* another request has just rotated or revoked them and not yet changed    *)
(* the link: a retired link is renewed before and not after its use.       *)
Overtaken(w, u) ==
    \E v \in Workers \ {w} :
        \/ At(v, "refresh_save") /\ task[v].link.username = u
        \/ At(v, "unlink_delete") /\ task[v].username = u

StartsHonoured ==
    [][\A w \in Workers :
        /\ faults' = 0
        /\ job'[w] # None /\ job'[w].orcid_auth # None
        /\ job[w] = None \/ job[w].orcid_auth = None
        => job'[w].orcid_auth \in live' \/ Overtaken(w, job'[w].username)]_allVars

(* What an answer says is true when it is sent.  Success: it was done.     *)
(* Not found or not allowed at ORCID: nothing was done, and the work is    *)
(* not there or not ours to change.  Not authorized at ORCID: the tokens   *)
(* of the request are dead, be it after a first call that did its work.    *)
(* Private: the owner hides the name.  And an error is answered to a       *)
(* request that ORCID has carried out, a work created or saved included,   *)
(* only for one of those two reasons, because a call has just failed, or   *)
(* because what was to be shown cannot be: a work of the list, the work    *)
(* that came with the answer, or its owner.                                *)
Tokens(w) == IF job[w].pc = "renew" THEN task[w].link.orcid_auth ELSE job[w].orcid_auth

Inconvertible(j) ==
    LET owner == j.orcid_auth.orcid IN
    \/ j.op = "get-orcid-works" /\ \E k \in works : k.orcid = owner /\ k.shows = "nothing"
    \/ j.op = "get-orcid-work" /\ j.pc = "call" /\ \E k \in Target(j) : k.shows # "work"
    \/ /\ j.op # "get-orcid-profile" /\ j.pc = "profile"
       /\ ~j.readable \/ owner \in UnfitOwners

AnswersTruthful ==
    [][\A w \in Workers :
        answer' # None /\ job[w] # None /\ job'[w] = None =>
            LET j == job[w]
                r == answer'.result
            IN
            /\ r.ok => answer'.done
            /\ r = ORCIDNotAuthorized => Tokens(w) \notin live'
            /\ r = Raise("ORCIDNotFound") => ~answer'.done /\ Target(j) = {}
            /\ r = Raise("ORCIDInsufficientAuthorization") =>
                  ~answer'.done /\ \E k \in Target(j) : ~k.ours
            /\ r = Raise("ORCIDProfileNamePrivate") => j.orcid_auth.orcid \in HiddenNames
            /\ ~r.ok /\ answer'.done =>
                  \/ faults' # faults
                  \/ r \in {ORCIDNotAuthorized, Raise("ORCIDProfileNamePrivate")}
                  \/ r = InternalError /\ Inconvertible(j)]_allVars
=============================================================================
