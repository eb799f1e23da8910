---------------------------- MODULE WorksProofs -----------------------------
(***************************************************************************)
(* The works methods act for their caller, create nothing twice, answer    *)
(* truthfully and start with tokens that work, for any number of users,    *)
(* requests in flight and failures, whatever links and works there are to  *)
(* start with.                                                             *)
(***************************************************************************)
EXTENDS Works, RegistryProofs, SweepProofs, FiniteSetTheorems

-----------------------------------------------------------------------------
(* The service below goes on as in OrcidLink.                              *)

ServiceInv == TypeOK /\ SessionTermsFixed /\ OwnInv

(* A call to ORCID's API spends at most a fault.                           *)
CallsOut ==
    /\ UNCHANGED <<requestVars, storageVars, live, minted, redirected>>
    /\ UNCHANGED faults \/ SpendFault

(* Every step is a step of the service, or a call, as far as it goes.      *)
LEMMA ServiceGoesOn ==
    ASSUME TypeOK, [WorksNext]_allVars
    PROVE  [Next]_vars \/ CallsOut
<1>1. ASSUME NEW w \in Workers, CallMethod(w) PROVE [Next]_vars
  BY <1>1 DEF CallMethod, Next, Request, LinkRequest
<1>2. ASSUME NEW w \in Workers, Renew(w) \/ RenewSaved(w) PROVE Next
  BY <1>2 DEF Renew, RenewSaved, Next, Step, LinkStep
<1>3. ASSUME NEW w \in Workers, Call(w) PROVE CallsOut
  BY <1>3 DEF Call, Asks, CallsOut
<1>4. ASSUME NEW w \in Workers, GetProfile(w) PROVE CallsOut
  BY <1>4 DEF GetProfile, CallsOut
<1>5. ASSUME NEW w \in Workers, Others(w) PROVE Next
  BY <1>5 DEF Others, Next
<1>6. CASE Restart
  <2>1. CASE AllIdle
    <3>1. task' = task
      BY <1>6, <2>1 DEF Restart, AllIdle, TypeOK
    <3> QED
      BY <1>6, <3>1 DEF Restart, CallsOut, requestVars
  <2>2. CASE ~AllIdle
    BY <1>6, <2>2 DEF Restart, Crash, Next
  <2> QED
    BY <2>1, <2>2
<1>7. CASE OwnerDeletes \/ UNCHANGED allVars
  BY <1>7 DEF OwnerDeletes, allVars
<1>8. CASE (AdminDelete \/ Tick \/ OrcidWithdraws) /\ Quiet
  BY <1>8 DEF Next
<1> QED
  BY <1>1, <1>2, <1>3, <1>4, <1>5, <1>6, <1>7, <1>8 DEF WorksNext, WorkStep

(* What OrcidLink keeps is kept.                                           *)
LEMMA ServiceStep ==
    ASSUME ServiceInv, [WorksNext]_allVars
    PROVE  ServiceInv'
<1>1. CASE [Next]_vars
  BY <1>1, TypeStep, TermsStep, OwnStep DEF ServiceInv
<1>2. CASE CallsOut
  <2>1. TypeOK'
    BY <1>2, AuthorityAssumption
       DEF ServiceInv, CallsOut, SpendFault, requestVars, storageVars, TypeOK, StorageTypeOK,
           AuthorityTypeOK
  <2>2. SessionTermsFixed'
    BY <1>2 DEF ServiceInv, CallsOut, requestVars, storageVars, SessionTermsFixed
  <2>3. OwnInv'
    BY <1>2 DEF ServiceInv, CallsOut, requestVars, storageVars, OwnInv, TokensOwnedByHolder,
                TasksOwnTokens, OwnsTokens
  <2> QED
    BY <2>1, <2>2, <2>3 DEF ServiceInv
<1> QED
  BY <1>1, <1>2, ServiceGoesOn DEF ServiceInv

(* The links to start from are owned and their tokens are within bounds.   *)
LEMMA ServiceStarts == WorksInit => ServiceInv
<1> SUFFICES ASSUME WorksInit PROVE ServiceInv
  OBVIOUS
<1>1. /\ links \subseteq LinkRecord /\ IsFiniteSet(links)
      /\ \A l \in links : l.orcid_auth.by = l.username
      /\ {l.orcid_auth.token : l \in links} = 1..Cardinality(links)
  BY WorksAssumption DEF WorksInit
<1>2. Cardinality(links) \in 0..MaxTokens
  <2>1. Cardinality(links) \in Nat
    BY <1>1, FS_CardinalityType
  <2>2. CASE Cardinality(links) # 0
    <3>1. Cardinality(links) \in {l.orcid_auth.token : l \in links}
      BY <1>1, <2>1, <2>2
    <3> QED
      BY <1>1, <2>1, <3>1, EntitiesAssumption DEF LinkRecord, ORCIDAuth
  <2> QED
    BY <2>1, <2>2, EntitiesAssumption
<1>3. TypeOK
  BY <1>1, <1>2, EntitiesAssumption, AuthorityAssumption
     DEF WorksInit, RequestsInit, TypeOK, StorageTypeOK, AuthorityTypeOK, Continuation, LinkRecord
<1>4. SessionTermsFixed
  BY SessionsOf DEF WorksInit, RequestsInit, SessionTermsFixed
<1>5. OwnInv
  BY <1>1, Unconcerned
     DEF WorksInit, RequestsInit, OwnInv, TokensOwnedByHolder, TasksOwnTokens
<1> QED
  BY <1>3, <1>4, <1>5 DEF ServiceInv

-----------------------------------------------------------------------------
(* What a slot's job and its coroutine have to do with each other: a job   *)
(* waits for a renewal of its user's own link, or has its user's tokens.   *)

Renewing == {"refresh_call", "refresh_save"}

Fits(j, k) ==
    /\ j.pc = "renew" <=> k # Idle
    /\ j.pc = "renew" <=> j.orcid_auth = None
    /\ j.pc = "renew" => k.pc \in Renewing /\ k.link.username = j.username
    /\ j.caller = j.username
    /\ j.orcid_auth # None => j.orcid_auth.by = j.caller

JobsFit == \A w \in Workers : job[w] # None => Fits(job[w], task[w])

(* The create requests that have not yet made their call.                  *)
Unsent(w) ==
    job[w] # None /\ job[w].op = "create-orcid-work" /\ job[w].pc \in {"renew", "call"}

Creating == {w \in Workers : Unsent(w)}

(* NoDuplicates is not inductive: each of those may still make a work.     *)
CreatesCounted == IsFiniteSet(Creating) /\ codes + Cardinality(Creating) <= asked

JobTypes ==
    /\ job \in [Workers -> Job \cup {None}]
    /\ works \subseteq WorkAtOrcid
    /\ codes \in 0..MaxCreates
    /\ asked \in 0..MaxCreates

WorksInv == ServiceInv /\ JobTypes /\ JobsFit /\ CreatesCounted

(* What a slot is left with after its step.                                *)
Leaves(w, j) ==
    /\ job' = [job EXCEPT ![w] = j]
    /\ j \in Job \cup {None}
    /\ \A v \in Workers \ {w} : task'[v] = task[v]
    /\ j # None => Fits(j, task'[w])

(* The types of jobs and their fit, from what the step leaves.             *)
LEMMA LeavesFit ==
    ASSUME job \in [Workers -> Job \cup {None}], JobsFit, NEW w \in Workers, NEW j,
           Leaves(w, j)
    PROVE  job' \in [Workers -> Job \cup {None}] /\ JobsFit'
<1>1. job' \in [Workers -> Job \cup {None}]
  BY DEF Leaves
<1>2. \A v \in Workers : job'[v] = IF v = w THEN j ELSE job[v]
  BY DEF Leaves
<1>3. ASSUME NEW v \in Workers, job'[v] # None PROVE Fits(job'[v], task'[v])
  BY <1>2, <1>3 DEF Leaves, JobsFit
<1>4. JobsFit'
  BY <1>3 DEF JobsFit, Fits
<1> QED
  BY <1>1, <1>4

(* A slot that a coroutine answers or suspends in is the only one to       *)
(* change.                                                                 *)
LEMMA OtherSlots ==
    ASSUME TypeOK, NEW w \in Workers, NEW k, Goto(w, k)
    PROVE  task'[w] = k /\ \A v \in Workers \ {w} : task'[v] = task[v]
BY DEF TypeOK, Goto

(* ensure_authorization2 and the comparison behind it: a request that is   *)
(* admitted comes with a KBase token of the user it is about.              *)
LEMMA OwnerAdmitted ==
    ASSUME NEW token \in KBaseTokens, NEW username,
           NEW r \in {AuthResponse(token)} \cup AuthFails, Admits(token, username, r).ok
    PROVE  token \in Users /\ token = username
<1>1. /\ token # None
      /\ get_token_info(r).ok
      /\ get_token_info(r).value.user = username
  BY DEF Admits, ensure_authorization2, Raise
<1>2. CASE r \in AuthFails
  <2>1. ~get_token_info(r).ok
    BY <1>2 DEF AuthFails, Losses, get_token_info, Lost, IsLost, Response, Json, Coded, Validated,
                auth_error_to_jsonrpc_error, UpstreamError, InternalError, Raise
  <2> QED
    BY <1>1, <2>1
<1>3. CASE r = AuthResponse(token) /\ token \notin Users
  <2>1. ~get_token_info(r).ok
    BY <1>3 DEF AuthResponse, get_token_info, IsLost, Response, Coded,
                auth_error_to_jsonrpc_error, Raise
  <2> QED
    BY <1>1, <2>1
<1>4. CASE r = AuthResponse(token) /\ token \in Users
  <2>1. get_token_info(r).value.user = token
    BY <1>4 DEF AuthResponse, get_token_info, IsLost, Response, Validated, Good
  <2> QED
    BY <1>1, <1>4, <2>1
<1> QED
  BY <1>2, <1>3, <1>4

(* A method is called with its user's tokens or waits for the renewal of   *)
(* its user's link.                                                        *)
LEMMA CallMethodLeaves ==
    ASSUME ServiceInv, JobTypes, NEW w \in Workers, CallMethod(w)
    PROVE  \E j : Leaves(w, j)
<1>1. PICK op \in Methods, token \in KBaseTokens, username \in Users :
        /\ \E r \in {AuthResponse(token)} \cup AuthFails : Admits(token, username, r).ok
        /\ \E l \in LinksOf(username), code \in IF NamesWork(op) THEN 0..codes ELSE {0},
              readable \in MaySend(op) :
            \/ /\ Proceeds(w, NewJob(op, token, username, l.orcid_auth, code, readable))
               /\ UNCHANGED vars
            \/ /\ Proceeds(w, AwaitsRenewal(
                        NewJob(op, token, username, l.orcid_auth, code, readable)))
               /\ UseLink(w, username)
  BY DEF CallMethod
<1>2. token \in Users /\ token = username
  BY <1>1, OwnerAdmitted
<1>3. \A l \in LinksOf(username) :
        l.orcid_auth \in ORCIDAuth /\ l.orcid_auth.by = username /\ l.orcid_auth # None
  BY WorksAssumption
     DEF ServiceInv, TypeOK, StorageTypeOK, OwnInv, TokensOwnedByHolder, LinksOf, LinkRecord
<1>4. FirstCall(op) \in {"call", "profile"}
  BY DEF FirstCall
<1>5. PICK l \in LinksOf(username), code \in 0..MaxCreates, readable \in BOOLEAN :
        \/ /\ Proceeds(w, NewJob(op, token, username, l.orcid_auth, code, readable))
           /\ UNCHANGED vars
        \/ /\ Proceeds(w, AwaitsRenewal(
                    NewJob(op, token, username, l.orcid_auth, code, readable)))
           /\ UseLink(w, username)
  <2> DEFINE named == IF NamesWork(op) THEN 0..codes ELSE {0}
  <2>1. named \subseteq 0..MaxCreates
    BY WorksAssumption DEF JobTypes
  <2>2. MaySend(op) \subseteq BOOLEAN
    BY DEF MaySend
  <2>3. PICK l \in LinksOf(username), code \in named, readable \in MaySend(op) :
          \/ /\ Proceeds(w, NewJob(op, token, username, l.orcid_auth, code, readable))
             /\ UNCHANGED vars
          \/ /\ Proceeds(w, AwaitsRenewal(
                      NewJob(op, token, username, l.orcid_auth, code, readable)))
             /\ UseLink(w, username)
    BY <1>1
  <2>4. code \in 0..MaxCreates /\ readable \in BOOLEAN
    BY <2>1, <2>2, <2>3
  <2> HIDE DEF named
  <2> QED
    BY <2>3, <2>4
<1> DEFINE new == NewJob(op, token, username, l.orcid_auth, code, readable)
           renewing == AwaitsRenewal(new)
<1>6. new \in Job /\ renewing \in Job
  BY <1>2, <1>3, <1>4 DEF NewJob, AwaitsRenewal, Job
<1>7. CASE Proceeds(w, new) /\ UNCHANGED vars
  <2>1. task' = task /\ task[w] = Idle
    BY <1>7 DEF CallMethod, vars, requestVars
  <2>2. Fits(new, Idle)
    BY <1>2, <1>3, <1>4 DEF NewJob, Fits
  <2> QED
    BY <1>6, <1>7, <2>1, <2>2 DEF Proceeds, Leaves
<1>8. CASE UseLink(w, username) /\ Proceeds(w, renewing)
  <2>1. PICK m \in LinksOf(username) :
          Goto(w, [pc |-> "refresh_call",
                   link |-> [m EXCEPT !.retires_at = now + RetirementAge]])
    BY <1>8 DEF UseLink, Accept
  <2> DEFINE k == [pc |-> "refresh_call",
                   link |-> [m EXCEPT !.retires_at = now + RetirementAge]]
  <2>2. k.link.username = username
    BY DEF LinksOf, LinkRecord, ServiceInv, TypeOK, StorageTypeOK
  <2>3. Fits(renewing, k)
    BY <1>2, <2>2 DEF NewJob, AwaitsRenewal, Fits, Renewing, Idle
  <2>4. task'[w] = k /\ \A v \in Workers \ {w} : task'[v] = task[v]
    BY <2>1, OtherSlots DEF ServiceInv
  <2> QED
    BY <1>6, <1>8, <2>3, <2>4 DEF Proceeds, Leaves
<1> QED
  BY <1>5, <1>7, <1>8

(* A renewal ends in an error, or goes on, or hands its tokens over.       *)
LEMMA RenewLeaves ==
    ASSUME ServiceInv, JobTypes, JobsFit, NEW w \in Workers, Renew(w) \/ RenewSaved(w)
    PROVE  \E j : Leaves(w, j)
<1> DEFINE k == task[w]
<1>0. /\ job[w] \in Job /\ job[w] # None /\ job[w].pc = "renew" /\ Fits(job[w], k)
      /\ k \in Continuation /\ OwnsTokens(k)
  BY DEF Renew, RenewSaved, JobTypes, JobsFit, ServiceInv, TypeOK, OwnInv, TasksOwnTokens
<1>1. CASE Renew(w)
  <2>1. Goto(w, [pc |-> "refresh_save", link |-> RefreshedLink(k.link)]) \/ Goto(w, Idle)
    BY <1>1 DEF Renew, RefreshCall, Answer
  <2>2. /\ \A v \in Workers \ {w} : task'[v] = task[v]
        /\ \/ task'[w] = [pc |-> "refresh_save", link |-> RefreshedLink(k.link)]
           \/ task'[w] = Idle
    BY <2>1, OtherSlots DEF ServiceInv
  <2>3. k.link \in LinkRecord
    BY <1>0, Locals DEF Fits, Renewing
  <2>4. RefreshedLink(k.link).username = k.link.username
    BY <2>3 DEF RefreshedLink, LinkRecord
  <2>5. CASE task'[w] # Idle /\ Proceeds(w, job[w])
    <3>1. Fits(job[w], task'[w])
      BY <1>0, <2>2, <2>4, <2>5 DEF Fits, Renewing
    <3> QED
      BY <1>0, <2>2, <2>5, <3>1 DEF Proceeds, Leaves
  <2>6. CASE job' = [job EXCEPT ![w] = None]
    BY <2>2, <2>6 DEF Leaves
  <2> QED
    BY <1>1, <2>5, <2>6 DEF Renew, Ends
<1>2. CASE RenewSaved(w)
  <2>1. k.pc = "refresh_save" /\ Goto(w, Idle)
    BY <1>2 DEF RenewSaved, RefreshSave, At, Answer
  <2>2. task'[w] = Idle /\ \A v \in Workers \ {w} : task'[v] = task[v]
    BY <2>1, OtherSlots DEF ServiceInv
  <2>3. /\ k.link \in LinkRecord /\ k.link.username = job[w].caller
        /\ k.link.orcid_auth.by = job[w].caller /\ k.link.orcid_auth # None
    BY <1>0, <2>1, Locals, WorksAssumption DEF OwnsTokens, Fits, LinkRecord
  <2>4. /\ Renewed(w) \in Job
        /\ Renewed(w).pc \in {"call", "profile"}
        /\ Renewed(w).orcid_auth = k.link.orcid_auth
        /\ Renewed(w).caller = job[w].caller /\ Renewed(w).username = job[w].username
    BY <1>0, <2>3 DEF Renewed, Job, FirstCall, LinkRecord
  <2>5. Fits(Renewed(w), Idle)
    BY <1>0, <2>3, <2>4 DEF Fits
  <2> QED
    BY <1>2, <2>2, <2>4, <2>5 DEF RenewSaved, Proceeds, Leaves
<1> QED
  BY <1>1, <1>2

(* A call ends in an answer, or goes on to the second with the same tokens.*)
LEMMA CallLeaves ==
    ASSUME ServiceInv, JobTypes, JobsFit, NEW w \in Workers, Call(w) \/ GetProfile(w)
    PROVE  \E j : Leaves(w, j)
<1>0. /\ job[w] \in Job /\ job[w] # None /\ job[w].pc \in {"call", "profile"}
      /\ Fits(job[w], task[w]) /\ task' = task
  BY DEF Call, GetProfile, JobTypes, JobsFit, requestVars
<1>1. Fetched(job[w]) \in Job /\ Fits(Fetched(job[w]), task[w])
  <2>1. Readable(job[w]) \in BOOLEAN
    BY <1>0 DEF Readable, Job
  <2> QED
    BY <1>0, <2>1 DEF Fetched, Job, Fits
<1>2. \/ job' = [job EXCEPT ![w] = None]
      \/ job' = [job EXCEPT ![w] = Fetched(job[w])]
  BY DEF Call, GetProfile, FirstAnswer, Ends, Proceeds
<1> QED
  BY <1>0, <1>1, <1>2 DEF Leaves

(* Jobs keep their types and fit their coroutines, whatever happens.       *)
LEMMA JobsStep ==
    ASSUME ServiceInv, JobTypes, JobsFit, [WorksNext]_allVars
    PROVE  job' \in [Workers -> Job \cup {None}] /\ JobsFit'
<1>1. ASSUME NEW w \in Workers, CallMethod(w) \/ WorkStep(w)
      PROVE  job' \in [Workers -> Job \cup {None}] /\ JobsFit'
  BY <1>1, CallMethodLeaves, RenewLeaves, CallLeaves, LeavesFit DEF WorkStep, JobTypes
<1>2. ASSUME NEW w \in Workers, Others(w)
      PROVE  job' \in [Workers -> Job \cup {None}] /\ JobsFit'
  <2>1. PICK k : Goto(w, k)
    BY <1>2, OneSlot DEF Others, ServiceInv
  <2>2. \A v \in Workers \ {w} : task'[v] = task[v]
    BY <2>1, OtherSlots DEF ServiceInv
  <2> QED
    BY <1>2, <2>2 DEF Others, Quiet, JobTypes, JobsFit, Fits
<1>3. CASE Restart
  BY <1>3 DEF Restart, JobTypes, JobsFit
<1>4. CASE task' = task /\ job' = job
  BY <1>4 DEF JobTypes, JobsFit, Fits
<1> QED
  BY <1>1, <1>2, <1>3, <1>4
     DEF WorksNext, OwnerDeletes, Quiet, AdminDelete, AdminDeleteInitial, AdminDeleteStarted,
         AdminDeleteCompleted, Tick, OrcidWithdraws, vars, requestVars, allVars, workVars

-----------------------------------------------------------------------------
(* Creations.                                                              *)

(* Counting the requests that may still create.                            *)
LEMMA FewerCreating ==
    ASSUME CreatesCounted, codes \in Nat, asked \in Nat, Creating' \subseteq Creating,
           asked' = asked,
           \/ codes' = codes
           \/ /\ codes' = codes + 1
              /\ \E w \in Creating : w \notin Creating'
    PROVE  CreatesCounted' /\ codes' \in 0..asked
<1>1. /\ IsFiniteSet(Creating) /\ IsFiniteSet(Creating')
      /\ Cardinality(Creating) \in Nat /\ Cardinality(Creating') \in Nat
      /\ Cardinality(Creating') <= Cardinality(Creating)
  BY FS_Subset, FS_CardinalityType DEF CreatesCounted
<1>2. ASSUME NEW w \in Creating, w \notin Creating'
      PROVE  Cardinality(Creating') + 1 <= Cardinality(Creating)
  <2>1. /\ IsFiniteSet(Creating \ {w})
        /\ Cardinality(Creating \ {w}) = Cardinality(Creating) - 1
    BY <1>1, <1>2, FS_RemoveElement
  <2>2. Creating' \subseteq Creating \ {w}
    BY <1>2
  <2>3. Cardinality(Creating') <= Cardinality(Creating \ {w})
    BY <2>1, <2>2, FS_Subset
  <2> QED
    BY <1>1, <2>1, <2>3
<1> QED
  BY <1>1, <1>2 DEF CreatesCounted

(* The call of a create request is its last that may make a work.          *)
LEMMA CallCounts ==
    ASSUME JobTypes, CreatesCounted, JobsFit, NEW w \in Workers, Call(w)
    PROVE  CreatesCounted' /\ codes' \in 0..asked' /\ works' \subseteq WorkAtOrcid
<1> DEFINE j == job[w]
<1>0. /\ j \in Job /\ j # None /\ j.pc = "call" /\ asked' = asked
      /\ codes \in Nat /\ asked \in 0..MaxCreates /\ MaxCreates \in Nat
  BY WorksAssumption DEF Call, JobTypes
<1>1. \A v \in Workers : job'[v] = IF v = w THEN job'[w] ELSE job[v]
  BY DEF Call, FirstAnswer, Ends, Proceeds, JobTypes
<1>2. job'[w] # None => job'[w].pc = "profile"
  <2>1. job'[w] = None \/ job'[w] = Fetched(j)
    BY DEF Call, FirstAnswer, Ends, Proceeds, JobTypes
  <2> QED
    BY <1>0, <2>1 DEF Fetched, Job
<1>3. Creating' \subseteq Creating /\ w \notin Creating'
  BY <1>1, <1>2 DEF Creating, Unsent
<1>4. (UNCHANGED <<works, codes>>) \/ Performs(j)
  BY DEF Call, Asks, Untouched
<1>5. CASE j.op = "create-orcid-work" /\ Performs(j)
  <2>1. w \in Creating /\ codes' = codes + 1
    BY <1>0, <1>5 DEF Creating, Unsent, Performs
  <2>2. CreatesCounted' /\ codes' \in 0..asked
    BY <1>0, <1>3, <2>1, FewerCreating
  <2>3. j.orcid_auth \in ORCIDAuth
    BY <1>0 DEF JobsFit, Fits, Job
  <2>4. [code |-> codes + 1, orcid |-> j.orcid_auth.orcid, ours |-> TRUE, shows |-> Sent(j)]
          \in WorkAtOrcid
    BY <1>0, <2>1, <2>2, <2>3 DEF WorkAtOrcid, ORCIDAuth, Sent
  <2> QED
    BY <1>0, <1>5, <2>2, <2>4 DEF Performs, JobTypes
<1>6. CASE codes' = codes /\ works' \subseteq WorkAtOrcid
  <2>1. CreatesCounted' /\ codes' \in 0..asked
    BY <1>0, <1>3, <1>6, FewerCreating
  <2> QED
    BY <1>0, <1>6, <2>1 DEF JobTypes
<1>7. CASE j.op = "update-orcid-work" /\ Performs(j)
  <2>1. \A k \in Target(j) : [k EXCEPT !.shows = Sent(j)] \in WorkAtOrcid
    BY DEF Target, JobTypes, WorkAtOrcid, Sent
  <2> QED
    BY <1>6, <1>7, <2>1 DEF Performs, JobTypes
<1>8. CASE /\ j.op \notin {"create-orcid-work", "update-orcid-work"}
           /\ Performs(j)
  BY <1>6, <1>8 DEF Performs, Untouched, JobTypes
<1>9. CASE UNCHANGED <<works, codes>>
  BY <1>6, <1>9 DEF JobTypes
<1> QED
  BY <1>4, <1>5, <1>7, <1>8, <1>9

(* A create request is counted before it may make anything.                *)
LEMMA CallMethodCounts ==
    ASSUME JobTypes, CreatesCounted, NEW w \in Workers, CallMethod(w)
    PROVE  CreatesCounted' /\ codes' \in 0..asked' /\ asked' \in 0..MaxCreates
<1>0. /\ codes \in Nat /\ asked \in 0..MaxCreates /\ MaxCreates \in Nat /\ codes' = codes
      /\ IsFiniteSet(Creating) /\ Cardinality(Creating) \in Nat /\ job[w] = None
  BY WorksAssumption, FS_CardinalityType DEF JobTypes, CreatesCounted, CallMethod
<1>1. PICK op \in Methods :
        /\ job'[w] = None \/ job'[w].op = op
        /\ \A v \in Workers \ {w} : job'[v] = job[v]
        /\ IF op = "create-orcid-work" THEN asked < MaxCreates /\ asked' = asked + 1
           ELSE asked' = asked
  <2>1. PICK op \in Methods :
          /\ \E j : job' = [job EXCEPT ![w] = j] /\ j.op = op
          /\ IF op = "create-orcid-work" THEN asked < MaxCreates /\ asked' = asked + 1
             ELSE asked' = asked
    <3>1. \A op, t, u, a, c, b : /\ NewJob(op, t, u, a, c, b).op = op
                                 /\ AwaitsRenewal(NewJob(op, t, u, a, c, b)).op = op
      BY DEF NewJob, AwaitsRenewal
    <3>2. PICK op \in Methods, token \in KBaseTokens, username \in Users :
            /\ \E l \in LinksOf(username), code \in IF NamesWork(op) THEN 0..codes ELSE {0},
                  readable \in MaySend(op) :
                \/ Proceeds(w, NewJob(op, token, username, l.orcid_auth, code, readable))
                \/ Proceeds(w, AwaitsRenewal(
                        NewJob(op, token, username, l.orcid_auth, code, readable)))
            /\ IF op = "create-orcid-work" THEN asked < MaxCreates /\ asked' = asked + 1
               ELSE asked' = asked
      BY DEF CallMethod
    <3> QED
      BY <3>1, <3>2 DEF Proceeds
  <2> QED
    BY <2>1 DEF JobTypes
<1>2. CASE op = "create-orcid-work"
  <2>1. Creating' \subseteq Creating \cup {w}
    BY <1>1 DEF Creating, Unsent
  <2>2. /\ IsFiniteSet(Creating \cup {w})
        /\ Cardinality(Creating \cup {w}) <= Cardinality(Creating) + 1
        /\ Cardinality(Creating \cup {w}) \in Nat
    <3>1. /\ IsFiniteSet(Creating \cup {w})
          /\ \/ Cardinality(Creating \cup {w}) = Cardinality(Creating)
             \/ Cardinality(Creating \cup {w}) = Cardinality(Creating) + 1
      BY <1>0, FS_AddElement
    <3> QED
      BY <1>0, <3>1
  <2>3. /\ IsFiniteSet(Creating') /\ Cardinality(Creating') \in Nat
        /\ Cardinality(Creating') <= Cardinality(Creating \cup {w})
    BY <2>1, <2>2, FS_Subset, FS_CardinalityType
  <2> QED
    BY <1>0, <1>1, <1>2, <2>2, <2>3 DEF CreatesCounted
<1>3. CASE op # "create-orcid-work"
  <2>1. Creating' \subseteq Creating /\ asked' = asked
    BY <1>1, <1>3 DEF Creating, Unsent
  <2> QED
    BY <1>0, <2>1, FewerCreating
<1> QED
  BY <1>2, <1>3

(* The rest of what a request does makes no work.                          *)
LEMMA OthersCount ==
    ASSUME JobTypes, CreatesCounted, Creating' \subseteq Creating, UNCHANGED <<codes, asked>>
    PROVE  CreatesCounted' /\ codes' \in 0..asked' /\ asked' \in 0..MaxCreates
BY WorksAssumption, FewerCreating DEF JobTypes

(* Works and counters keep their types, and the count its bound.           *)
LEMMA WorksCounted ==
    ASSUME WorksInv, [WorksNext]_allVars
    PROVE  /\ CreatesCounted' /\ works' \subseteq WorkAtOrcid
           /\ codes' \in 0..MaxCreates /\ asked' \in 0..MaxCreates
<1> USE DEF WorksInv
<1>0. MaxCreates \in Nat
  BY WorksAssumption
<1>1. ASSUME NEW w \in Workers, CallMethod(w)
      PROVE  /\ CreatesCounted' /\ works' \subseteq WorkAtOrcid
             /\ codes' \in 0..MaxCreates /\ asked' \in 0..MaxCreates
  BY <1>0, <1>1, CallMethodCounts DEF CallMethod, JobTypes
<1>2. ASSUME NEW w \in Workers, Call(w)
      PROVE  /\ CreatesCounted' /\ works' \subseteq WorkAtOrcid
             /\ codes' \in 0..MaxCreates /\ asked' \in 0..MaxCreates
  BY <1>0, <1>2, CallCounts DEF Call, JobTypes
<1>3. CASE /\ Creating' \subseteq Creating /\ works' \subseteq works
           /\ UNCHANGED <<codes, asked>>
  BY <1>0, <1>3, OthersCount DEF JobTypes
<1>4. ASSUME NEW w \in Workers, Renew(w) \/ RenewSaved(w) \/ GetProfile(w)
      PROVE  Creating' \subseteq Creating /\ UNCHANGED <<works, codes, asked>>
  <2>1. UNCHANGED <<works, codes, asked>>
    BY <1>4 DEF Renew, RenewSaved, GetProfile
  <2>2. /\ \A v \in Workers : job'[v] = IF v = w THEN job'[w] ELSE job[v]
        /\ \/ job'[w] = None
           \/ job'[w] = job[w]
           \/ job'[w] = Renewed(w) /\ job[w].pc = "renew"
    <3>1. CASE job' = [job EXCEPT ![w] = None]
      BY <3>1 DEF JobTypes
    <3>2. CASE job' = [job EXCEPT ![w] = job[w]]
      BY <3>2 DEF JobTypes
    <3>3. CASE job' = [job EXCEPT ![w] = Renewed(w)] /\ job[w].pc = "renew"
      BY <3>3 DEF JobTypes
    <3> QED
      BY <1>4, <3>1, <3>2, <3>3 DEF Renew, RenewSaved, GetProfile, Ends, Proceeds
  <2>3. Renewed(w).op = job[w].op \/ job[w] \notin Job
    BY DEF Renewed, Job
  <2>4. job[w] \in Job \/ job[w] = None
    BY DEF JobTypes
  <2>5. Unsent(w)' => Unsent(w)
    BY <1>4, <2>2, <2>3, <2>4 DEF Unsent, Renew, RenewSaved, GetProfile
  <2> QED
    BY <2>1, <2>2, <2>5 DEF Creating, Unsent
<1>5. CASE \E w \in Workers : Others(w)
  BY <1>3, <1>5 DEF Others, Quiet, Creating, Unsent
<1>6. CASE OwnerDeletes \/ Restart \/ Quiet \/ UNCHANGED allVars
  BY <1>3, <1>6 DEF OwnerDeletes, Restart, Quiet, allVars, workVars, Creating, Unsent
<1> QED
  BY <1>1, <1>2, <1>3, <1>4, <1>5, <1>6 DEF WorksNext, WorkStep

-----------------------------------------------------------------------------

(* What the theorems below follow from.                                    *)
LEMMA WorksInductive ==
    /\ WorksInit => WorksInv
    /\ WorksInv /\ [WorksNext]_allVars => WorksInv'
<1>1. ASSUME WorksInit PROVE WorksInv
  <2>1. Creating = {}
    BY <1>1 DEF WorksInit, Creating, Unsent
  <2>2. CreatesCounted
    BY <1>1, <2>1, FS_EmptySet DEF WorksInit, CreatesCounted
  <2>3. JobTypes /\ JobsFit
    BY <1>1, WorksAssumption DEF WorksInit, JobTypes, JobsFit
  <2> QED
    BY <1>1, <2>2, <2>3, ServiceStarts DEF WorksInv
<1>2. ASSUME WorksInv, [WorksNext]_allVars PROVE WorksInv'
  BY <1>2, ServiceStep, JobsStep, WorksCounted DEF WorksInv, JobTypes
<1> QED
  BY <1>1, <1>2

(* For any links and works to start from, the requests of works.py and     *)
(* profile.py, the renewals they wait for and the works at ORCID keep      *)
(* their types, and a job waits for a renewal exactly as long as its slot  *)
(* is busy with one.                                                       *)
THEOREM WorksTypes == WorksSpec => []WorksTypeOK
<1>1. WorksInv => WorksTypeOK
  BY DEF WorksInv, ServiceInv, JobTypes, JobsFit, Fits, WorksTypeOK
<1> QED
  BY <1>1, WorksInductive, PTL DEF WorksSpec

(* ORCID is called only with tokens that the caller's own browser brought: *)
(* the handlers of main.py compare the caller with the link's user, and    *)
(* link_record_for_user hands over that user's tokens, also when it has    *)
(* renewed them.  The latter rests on Ownership.                           *)
THEOREM CallersOwnTokens == WorksSpec => []ActsForCaller
<1>1. WorksInv => ActsForCaller
  BY DEF WorksInv, JobsFit, Fits, ActsForCaller
<1> QED
  BY <1>1, WorksInductive, PTL DEF WorksSpec

(* create_work never makes two works of one request, whatever gets lost.   *)
THEOREM CreatedOnce == WorksSpec => []NoDuplicates
<1>1. WorksInv => NoDuplicates
  BY FS_CardinalityType, WorksAssumption DEF WorksInv, JobTypes, CreatesCounted, NoDuplicates
<1> QED
  BY <1>1, WorksInductive, PTL DEF WorksSpec

-----------------------------------------------------------------------------
(* Answers.  First what the clients make of each kind of response.         *)

Unspecific == {InternalError, UpstreamError}

(* The errors told apart below.                                            *)
LEMMA ErrorsDiffer ==
    /\ ~InternalError.ok /\ ~UpstreamError.ok /\ ~ORCIDNotAuthorized.ok
    /\ \A e : ~Raise(e).ok
    /\ \A v : Good(v).ok
    /\ ORCIDNotAuthorized \notin Unspecific
    /\ Raise("ORCIDNotFound") \notin Unspecific \cup {ORCIDNotAuthorized}
    /\ Raise("ORCIDInsufficientAuthorization")
            \notin Unspecific \cup {ORCIDNotAuthorized, Raise("ORCIDNotFound")}
    /\ Raise("ORCIDProfileNamePrivate")
            \notin Unspecific \cup {ORCIDNotAuthorized, Raise("ORCIDNotFound"),
                                   Raise("ORCIDInsufficientAuthorization")}
BY DEF Unspecific, InternalError, UpstreamError, ORCIDNotAuthorized, Raise, Good

(* A call that goes wrong is never taken for a success, nor for anything   *)
(* that ORCID has said about tokens or works.                              *)
LEMMA FailuresUnspecific ==
    ASSUME NEW r \in OrcidFails
    PROVE  /\ \A op : CallOutcome(op, r) \in Unspecific
           /\ \A op : ProfileOutcome(op, r) \in Unspecific
<1> USE DEF OrcidFails, Losses, ClientError, OrcidResponse, Response, Lost, Json, Coded, IsLost,
            Unspecific
<1>1. handle_json_response(r) \in Unspecific
  BY DEF handle_json_response, extract_error, Unparsable, Validated, OAuthBearerErrorType,
         orcid_oauth_bearer_to_json_rpc_error, orcid_api_error_to_json_rpc_error,
         NotAuthorizedCodes, InsufficientAuthorizationCodes, NotFoundCodes,
         ORCID_API_CONTENT_TYPE
<1>2. PostWorks(r) \in Unspecific
  BY DEF PostWorks, Validated
<1>3. DeleteWork(r) \in Unspecific
  BY DEF DeleteWork
<1> QED
  BY <1>1, <1>2, <1>3 DEF CallOutcome, ProfileOutcome

(* The renewal of tokens that ORCID does not honour, and one that fails.   *)
LEMMA RenewalRefused ==
    ASSUME NEW auth, NEW r \in RenewOutcome(auth)
    PROVE  \/ ~refresh_token(r).ok /\ refresh_token(r) # ORCIDNotAuthorized
              /\ refresh_token(r) # Raise("ORCIDNotFound")
              /\ refresh_token(r) # Raise("ORCIDInsufficientAuthorization")
              /\ refresh_token(r) # Raise("ORCIDProfileNamePrivate")
           \/ refresh_token(r) = ORCIDNotAuthorized /\ auth \notin live /\ faults' = faults
<1> USE DEF Response, Lost, Json, Coded, IsLost, refresh_token, ORCID_OAUTH_API_CONTENT_TYPE,
            Unparsable, Validated, OAuthAPIErrorType, orcid_oauth_api_to_json_rpc_error
<1>1. CASE r \in OAuthFails
  BY <1>1 DEF OAuthFails, Losses, InternalError, UpstreamError, ORCIDNotAuthorized, Raise
<1>2. CASE /\ r = Response(400, "application/json", Coded("error", "invalid_grant"))
           /\ auth \notin live /\ faults' = faults
  BY <1>2
<1> QED
  BY <1>1, <1>2 DEF RenewOutcome

(* ORCID's refusal of a first call says why, where the client asks.        *)
LEMMA RefusalTold ==
    ASSUME NEW j \in Job, j.pc = "call", Refusal(j) # None
    PROVE  LET out == CallOutcome(j.op, Refusal(j)) IN
           \/ out = UpstreamError
           \/ out = ORCIDNotAuthorized /\ j.orcid_auth \notin live
           \/ out = Raise("ORCIDNotFound") /\ Target(j) = {}
           \/ out = Raise("ORCIDInsufficientAuthorization") /\ \E k \in Target(j) : ~k.ours
<1> DEFINE unknown == OrcidResponse(401, Coded("error", "invalid_token"))
           inBulk == OrcidResponse(200, InBulk(NoSuchWork))
           noWork == OrcidResponse(404, NoSuchWork)
           foreign == OrcidResponse(403, Coded("error-code", 9010))
<1>1. \/ Refusal(j) = unknown /\ j.orcid_auth \notin live
      \/ /\ Refusal(j) \in {inBulk, noWork} /\ Target(j) = {}
         /\ Refusal(j) = inBulk => j.op = "get-orcid-work"
      \/ Refusal(j) = foreign /\ \E k \in Target(j) : ~k.ours
  <2>1. CASE j.orcid_auth \notin live
    BY <2>1 DEF Refusal
  <2>2. CASE j.orcid_auth \in live /\ Target(j) = {}
    <3>1. CASE j.op = "get-orcid-work"
      BY <2>2, <3>1 DEF Refusal
    <3>2. CASE j.op \in {"get-orcid-works", "create-orcid-work"}
      BY <2>2, <3>2 DEF Refusal
    <3>3. CASE j.op \notin {"get-orcid-works", "create-orcid-work", "get-orcid-work"}
      <4>1. Refusal(j) = noWork
        BY <2>2, <3>3 DEF Refusal
      <4> QED
        BY <4>1, <2>2, <3>3 DEF OrcidResponse, Response
    <3> QED
      BY <3>1, <3>2, <3>3
  <2>3. CASE j.orcid_auth \in live /\ Target(j) # {}
    BY <2>3 DEF Refusal
  <2> QED
    BY <2>1, <2>2, <2>3
<1>2. \A r \in {unknown, noWork, foreign} :
        PostWorks(r) = UpstreamError /\ DeleteWork(r) = UpstreamError
  BY DEF OrcidResponse, Response, PostWorks, DeleteWork, IsLost
<1>3. /\ handle_json_response(unknown) = ORCIDNotAuthorized
      /\ handle_json_response(inBulk) = Raise("ORCIDNotFound")
      /\ handle_json_response(noWork) = Raise("ORCIDNotFound")
      /\ handle_json_response(foreign) = Raise("ORCIDInsufficientAuthorization")
  BY DEF OrcidResponse, Response, Coded, InBulk, NoSuchWork, IsLost, handle_json_response,
         extract_error, Unparsable, OAuthBearerErrorType, orcid_oauth_bearer_to_json_rpc_error,
         orcid_api_error_to_json_rpc_error, NotAuthorizedCodes,
         InsufficientAuthorizationCodes, NotFoundCodes, ORCID_API_CONTENT_TYPE
<1> HIDE DEF unknown, inBulk, noWork, foreign
<1> QED
  BY <1>1, <1>2, <1>3 DEF CallOutcome

(* That of the second call concerns the tokens only.                       *)
LEMMA ProfileRefused ==
    ASSUME NEW j \in Job, j.pc = "profile", Refusal(j) # None
    PROVE  ProfileOutcome(j.op, Refusal(j)) = ORCIDNotAuthorized /\ j.orcid_auth \notin live
BY DEF Refusal, OrcidResponse, Response, Coded, IsLost, Lost, ProfileOutcome,
       handle_json_response, extract_error, Unparsable, OAuthBearerErrorType,
       orcid_oauth_bearer_to_json_rpc_error, ORCID_API_CONTENT_TYPE

(* The answer to a request whose call went as it should.                   *)
LEMMA ServedWell ==
    ASSUME NEW j
    PROVE  CallOutcome(j.op, Served(j)).ok
<1>1. CASE j.op = "delete-orcid-work"
  BY <1>1 DEF CallOutcome, Served, Response, Json, DeleteWork, IsLost, Good
<1>2. CASE j.op # "delete-orcid-work"
  <2>1. Served(j) = OrcidResponse(200, Json("expected"))
    BY <1>2 DEF Served
  <2>2. /\ PostWorks(Served(j)).ok
        /\ handle_json_response(Served(j)).ok
    BY <2>1 DEF OrcidResponse, Response, Json, IsLost, PostWorks, handle_json_response,
                Unparsable, Validated, Good, ORCID_API_CONTENT_TYPE
  <2> QED
    BY <1>2, <2>2 DEF CallOutcome
<1> QED
  BY <1>1, <1>2

-----------------------------------------------------------------------------
(* What AnswersTruthful asks of an answer r to the request in slot w.      *)

Excused(w, r) ==
    \/ faults' # faults
    \/ r \in {ORCIDNotAuthorized, Raise("ORCIDProfileNamePrivate")}
    \/ r = InternalError /\ Inconvertible(job[w])

Truthful(w, r, done) ==
    /\ r.ok => done
    /\ r = ORCIDNotAuthorized => Tokens(w) \notin live'
    /\ r = Raise("ORCIDNotFound") => ~done /\ Target(job[w]) = {}
    /\ r = Raise("ORCIDInsufficientAuthorization") =>
          ~done /\ \E k \in Target(job[w]) : ~k.ours
    /\ r = Raise("ORCIDProfileNamePrivate") => job[w].orcid_auth.orcid \in HiddenNames
    /\ ~r.ok /\ done => Excused(w, r)

(* A success is as true as it is done.                                     *)
LEMMA TrueSuccess ==
    ASSUME NEW w, NEW r, NEW done, r.ok, done
    PROVE  Truthful(w, Outcome(r), done)
<1>1. Outcome(r) = Good("result")
  BY DEF Outcome
<1> QED
  BY <1>1, ErrorsDiffer DEF Truthful

(* Of an error that tells nothing, only that something went wrong counts.  *)
LEMMA TrueFailure ==
    ASSUME NEW w, NEW r \in Unspecific, NEW done \in BOOLEAN, done => Excused(w, r)
    PROVE  Truthful(w, Outcome(r), done)
<1>1. ~r.ok /\ Outcome(r) = r
  BY ErrorsDiffer DEF Outcome, Unspecific
<1>2. /\ r # ORCIDNotAuthorized
      /\ r # Raise("ORCIDNotFound")
      /\ r # Raise("ORCIDInsufficientAuthorization")
      /\ r # Raise("ORCIDProfileNamePrivate")
  BY ErrorsDiffer
<1> QED
  BY <1>1, <1>2 DEF Truthful

(* The answer to a request that waited for a renewal.                      *)
LEMMA RenewTrue ==
    ASSUME TypeOK, JobTypes, NEW w \in Workers, Renew(w), answer' # None
    PROVE  Truthful(w, answer'.result, answer'.done)
<1>1. ~Proceeds(w, job[w])
  BY DEF Proceeds
<1>2. PICK r \in RenewOutcome(task[w].link.orcid_auth) : Ends(w, refresh_token(r), FALSE)
  BY <1>1 DEF Renew
<1> DEFINE out == refresh_token(r)
<1>3. answer'.result = Outcome(out) /\ answer'.done = FALSE
  BY <1>2 DEF Ends
<1>4. Tokens(w) = task[w].link.orcid_auth
  BY DEF Tokens, Renew
<1>5. task[w].link.orcid_auth \notin live => live' = live
  BY DEF Renew, RefreshCall, Refuses, authorityVars
<1>6. /\ ~out.ok
      /\ out # Raise("ORCIDNotFound")
      /\ out # Raise("ORCIDInsufficientAuthorization")
      /\ out # Raise("ORCIDProfileNamePrivate")
      /\ out = ORCIDNotAuthorized => Tokens(w) \notin live'
  BY <1>4, <1>5, RenewalRefused, ErrorsDiffer
<1> HIDE DEF out
<1> QED
  BY <1>3, <1>6 DEF Truthful, Outcome

(* The answer that follows the first call.                                 *)
LEMMA CallTrue ==
    ASSUME TypeOK, JobTypes, NEW w \in Workers, Call(w), answer' # None
    PROVE  Truthful(w, answer'.result, answer'.done)
<1> DEFINE j == job[w]
<1>1. j \in Job /\ j.pc = "call" /\ j # None
  BY DEF JobTypes, Call
<1>2. PICK r \in (OrcidFails \cup {Served(j), Refusal(j)}) \ {None}, done \in BOOLEAN :
        Asks(j, r, done) /\ FirstAnswer(w, j, r, done)
  BY DEF Call
<1> DEFINE out == CallOutcome(j.op, r)
<1>3. ~Proceeds(w, Fetched(j))
  BY DEF Proceeds
<1>4. live' = live /\ Tokens(w) = j.orcid_auth
  BY <1>1 DEF Call, Tokens
<1>5. \/ /\ ~out.ok \/ j.op = "delete-orcid-work"
         /\ answer' = [result |-> Outcome(out), done |-> done]
      \/ /\ out.ok /\ j.op = "get-orcid-works"
         /\ answer' = [result |-> Outcome(Listing(j)), done |-> done]
      \/ /\ out.ok /\ Unreadable(j)
         /\ answer' = [result |-> Outcome(InternalError), done |-> done]
  BY <1>2, <1>3 DEF FirstAnswer, Ends
<1>6. CASE Refusal(j) # None /\ r = Refusal(j) /\ ~done
  <2>1. \/ out = UpstreamError
        \/ out = ORCIDNotAuthorized /\ j.orcid_auth \notin live
        \/ out = Raise("ORCIDNotFound") /\ Target(j) = {}
        \/ out = Raise("ORCIDInsufficientAuthorization") /\ \E k \in Target(j) : ~k.ours
    BY <1>1, <1>6, RefusalTold
  <2>2. ~out.ok /\ Outcome(out) = out
    BY <2>1, ErrorsDiffer DEF Outcome
  <2>3. answer'.result = out /\ answer'.done = done
    BY <1>5, <2>2
  <2> HIDE DEF out
  <2> QED
    BY <1>4, <1>6, <2>1, <2>2, <2>3, ErrorsDiffer DEF Truthful, Unspecific
<1>7. CASE r = Served(j) /\ done
  <2>1. out.ok
    BY <1>7, ServedWell
  <2>2. CASE answer' = [result |-> Outcome(out), done |-> done]
    BY <1>7, <2>1, <2>2, TrueSuccess
  <2>3. CASE /\ answer' = [result |-> Outcome(Listing(j)), done |-> done]
             /\ j.op = "get-orcid-works"
    <3>1. CASE Listing(j).ok
      BY <1>7, <2>3, <3>1, TrueSuccess
    <3>2. CASE ~Listing(j).ok
      <4>1. /\ Listing(j) = InternalError
            /\ Inconvertible(j)
        BY <2>3, <3>2, ErrorsDiffer DEF Listing, Inconvertible
      <4> QED
        BY <2>3, <4>1, TrueFailure DEF Excused, Unspecific
    <3> QED
      BY <3>1, <3>2
  <2>4. CASE /\ answer' = [result |-> Outcome(InternalError), done |-> done]
             /\ Unreadable(j)
    <3>1. Inconvertible(j)
      BY <1>1, <2>4 DEF Unreadable, Inconvertible
    <3> QED
      BY <2>4, <3>1, TrueFailure DEF Excused, Unspecific
  <2> QED
    BY <1>5, <2>1, <2>2, <2>3, <2>4
<1>8. CASE r \in OrcidFails /\ (done => SpendFault)
  <2>1. out \in Unspecific
    BY <1>8, FailuresUnspecific
  <2>2. ~out.ok
    BY <2>1, ErrorsDiffer DEF Unspecific
  <2>3. answer' = [result |-> Outcome(out), done |-> done]
    BY <1>5, <2>2
  <2>4. done => faults' # faults
    BY <1>8, AuthorityAssumption DEF SpendFault, TypeOK, AuthorityTypeOK
  <2> HIDE DEF out
  <2> QED
    BY <2>1, <2>3, <2>4, TrueFailure DEF Excused
<1> QED
  <2>1. Losses \subseteq OrcidFails
    BY DEF OrcidFails
  <2> QED
    BY <1>2, <1>6, <1>7, <1>8, <2>1 DEF Asks

(* The answer that follows the second.                                     *)
LEMMA ProfileTrue ==
    ASSUME TypeOK, JobTypes, NEW w \in Workers, GetProfile(w)
    PROVE  Truthful(w, answer'.result, answer'.done)
<1> DEFINE j == job[w]
<1>1. j \in Job /\ j.pc = "profile" /\ j # None /\ j.done \in BOOLEAN
  BY DEF JobTypes, GetProfile, Job
<1>2. live' = live /\ Tokens(w) = j.orcid_auth
  BY <1>1 DEF GetProfile, Tokens
<1>3. ASSUME NEW out \in Shown(j), Ends(w, out, TRUE)
      PROVE  Truthful(w, answer'.result, answer'.done)
  <2>1. answer' = [result |-> Outcome(out), done |-> TRUE]
    BY <1>3 DEF Ends
  <2>2. \/ out.ok
        \/ out = InternalError /\ Inconvertible(j)
        \/ /\ out = Raise("ORCIDProfileNamePrivate")
           /\ j.orcid_auth.orcid \in HiddenNames
    BY <1>1, ErrorsDiffer DEF Shown, Inconvertible
  <2>3. CASE out.ok
    BY <2>1, <2>3, TrueSuccess
  <2>4. CASE out = InternalError /\ Inconvertible(j)
    BY <2>1, <2>4, TrueFailure DEF Unspecific, Excused
  <2>5. CASE /\ out = Raise("ORCIDProfileNamePrivate")
             /\ j.orcid_auth.orcid \in HiddenNames
    BY <2>1, <2>5, ErrorsDiffer DEF Truthful, Excused, Outcome
  <2> QED
    BY <2>2, <2>3, <2>4, <2>5
<1>4. CASE Refusal(j) # None /\ Ends(w, ProfileOutcome(j.op, Refusal(j)), j.done)
  <2>1. ProfileOutcome(j.op, Refusal(j)) = ORCIDNotAuthorized /\ j.orcid_auth \notin live
    BY <1>1, <1>4, ProfileRefused
  <2>2. answer' = [result |-> ORCIDNotAuthorized, done |-> j.done]
    BY <1>4, <2>1, ErrorsDiffer DEF Ends, Outcome
  <2> QED
    BY <1>2, <2>1, <2>2, ErrorsDiffer DEF Truthful, Excused
<1>5. ASSUME NEW r \in OrcidFails, Ends(w, ProfileOutcome(j.op, r), j.done), SpendFault
      PROVE  Truthful(w, answer'.result, answer'.done)
  <2>1. answer' = [result |-> Outcome(ProfileOutcome(j.op, r)), done |-> j.done]
    BY <1>5 DEF Ends
  <2>2. faults' # faults
    BY <1>5, AuthorityAssumption DEF SpendFault, TypeOK, AuthorityTypeOK
  <2>3. ProfileOutcome(j.op, r) \in Unspecific
    BY FailuresUnspecific
  <2> QED
    BY <1>1, <2>1, <2>2, <2>3, TrueFailure DEF Excused
<1> QED
  BY <1>3, <1>4, <1>5 DEF GetProfile

(* What a works method or get-orcid-profile answers is true when it is     *)
(* sent: a success was carried out, "not found", "insufficient" and "not   *)
(* authorized" say what is the case at ORCID, and an error after the deed  *)
(* has one of the named reasons.                                           *)
THEOREM TruthfulAnswers == WorksSpec => AnswersTruthful
<1>1. ASSUME WorksInv, [WorksNext]_allVars,
             NEW w \in Workers, answer' # None, job[w] # None, job'[w] = None
      PROVE  Truthful(w, answer'.result, answer'.done) \/ UNCHANGED allVars
  <2> USE DEF WorksInv, ServiceInv
  <2>1. ASSUME NEW v \in Workers, NEW r, NEW done, Ends(v, r, done)
        PROVE  v = w
    BY <1>1, <2>1 DEF Ends, JobTypes
  <2>2. ASSUME NEW v \in Workers, NEW j, Proceeds(v, j)
        PROVE  FALSE
    BY <1>1, <2>2 DEF Proceeds
  <2>3. ASSUME NEW v \in Workers, WorkStep(v)
        PROVE  v = w /\ ~RenewSaved(v)
    <3>1. ~RenewSaved(v)
      BY <2>2 DEF RenewSaved
    <3>2. CASE Renew(v)
      <4>1. ~Proceeds(v, job[v])
        BY <2>2
      <4>2. PICK r \in RenewOutcome(task[v].link.orcid_auth) : Ends(v, refresh_token(r), FALSE)
        BY <3>2, <4>1 DEF Renew
      <4> QED
        BY <2>1, <3>1, <4>2
    <3>3. CASE Call(v)
      <4>1. PICK r, done : FirstAnswer(v, job[v], r, done)
        BY <3>3 DEF Call
      <4>2. ~Proceeds(v, Fetched(job[v]))
        BY <2>2
      <4>3. \/ Ends(v, CallOutcome(job[v].op, r), done)
            \/ Ends(v, Listing(job[v]), done)
            \/ Ends(v, InternalError, done)
        BY <4>1, <4>2 DEF FirstAnswer
      <4> QED
        BY <2>1, <3>1, <4>3
    <3>4. CASE GetProfile(v)
      <4>1. \E r, done : Ends(v, r, done)
        BY <3>4 DEF GetProfile
      <4> QED
        BY <2>1, <3>1, <4>1
    <3> QED
      BY <2>3, <3>1, <3>2, <3>3, <3>4 DEF WorkStep
  <2>4. CASE WorkStep(w)
    BY <1>1, <2>3, <2>4, RenewTrue, CallTrue, ProfileTrue DEF WorkStep
  <2>5. ASSUME NEW v \in Workers, CallMethod(v)
        PROVE  FALSE
    BY <2>2, <2>5 DEF CallMethod
  <2>6. CASE OwnerDeletes \/ Restart \/ Quiet
    BY <1>1, <2>6 DEF OwnerDeletes, Restart, Quiet
  <2> QED
    BY <1>1, <2>3, <2>4, <2>5, <2>6 DEF WorksNext, Others
<1>2. WorksInv /\ [WorksNext]_allVars =>
        [\A w \in Workers :
            answer' # None /\ job[w] # None /\ job'[w] = None =>
                Truthful(w, answer'.result, answer'.done)]_allVars
  BY <1>1
<1>3. WorksSpec => [][\A w \in Workers :
            answer' # None /\ job[w] # None /\ job'[w] = None =>
                Truthful(w, answer'.result, answer'.done)]_allVars
  BY <1>2, WorksInductive, PTL DEF WorksSpec
<1> QED
  BY <1>3 DEF AnswersTruthful, Truthful, Excused

-----------------------------------------------------------------------------
(* Tokens that work, below the works methods.                              *)

(* A call spends no more than a fault.                                     *)
LEMMA LinksGoOn ==
    ASSUME TypeOK, TypeOK', OwnInv, LinksInv, Undisturbed, [WorksNext]_allVars
    PROVE  LinksInv'
<1>1. CASE [Next]_vars
  BY <1>1, LinksStep
<1>2. CASE CallsOut
  <2>1. /\ UNCHANGED <<task, now, links, initial, started, completed, issued, live, minted>>
        /\ faults' = 0 => faults = 0
    BY <1>2, NoFault DEF CallsOut, requestVars, storageVars
  <2>2. OneLinkEach' /\ TasksBelong' /\ TokensGranted'
    BY <2>1 DEF LinksInv, OneLinkEach, TasksBelong, TokensGranted
  <2>3. ASSUME Renewals PROVE Renewals'
    BY <2>1, <2>3 DEF Renewals, LinkUsable, At, OneBelievedWorks, Believed, LinksOf,
                      SavesWhatWorks, RevokesRead, RenewedLinkStays
  <2>4. ASSUME Registrations PROVE Registrations'
    BY <2>1, <2>4 DEF Registrations, UnspoiltInHand, Unspoilt, LinksOf
  <2> QED
    BY <2>1, <2>2, <2>3, <2>4 DEF LinksInv, LinksWork
<1> QED
  BY <1>1, <1>2, ServiceGoesOn

(* The links to start from have one token each and work.                   *)
LEMMA LinksStart == WorksInit => LinksInv
<1> SUFFICES ASSUME WorksInit PROVE LinksInv
  OBVIOUS
<1>1. /\ links \subseteq LinkRecord /\ IsFiniteSet(links)
      /\ \A l \in links : l.orcid_auth.by = l.username
      /\ \A l, m \in links : l.username = m.username => l = m
      /\ {l.orcid_auth.token : l \in links} = 1..Cardinality(links)
  BY WorksAssumption DEF WorksInit
<1>2. \A w \in Workers : task[w] = Idle
  BY DEF WorksInit, RequestsInit
<1>3. OneLinkEach
  BY <1>1 DEF OneLinkEach
<1>4. TasksBelong
  BY <1>2 DEF TasksBelong, Belongs, Idle
<1>5. TokensGranted
  <2>1. \A l \in links : l.orcid_auth.token \in 1..Cardinality(links)
    BY <1>1
  <2>2. Cardinality(links) \in Nat
    BY <1>1, FS_CardinalityType
  <2>3. \A l \in links : l.orcid_auth.token <= minted
    BY <2>1, <2>2 DEF WorksInit
  <2>4. \A a \in live : a.token <= minted
    BY <2>3 DEF WorksInit
  <2> QED
    BY <1>2, <2>3, <2>4 DEF WorksInit, TokensGranted, HoldsGranted, Idle
<1>6. Renewals
  <2>1. LinkUsable /\ SavesWhatWorks /\ RevokesRead /\ RenewedLinkStays
    BY <1>2 DEF WorksInit, LinkUsable, SavesWhatWorks, Saving, RevokesRead, At,
                RenewedLinkStays, Calling, Idle
  <2>2. \A u, a : Believed(u, a) => \E l \in LinksOf(u) : a = l.orcid_auth
    BY <1>2 DEF Believed, Calling, Idle
  <2>3. OneBelievedWorks
    BY <1>1, <2>2 DEF OneBelievedWorks, LinksOf
  <2> QED
    BY <2>1, <2>3 DEF Renewals
<1>7. Registrations
  BY <1>2 DEF WorksInit, Registrations, UnspoiltInHand, Idle
<1> QED
  BY <1>3, <1>4, <1>5, <1>6, <1>7 DEF LinksInv, LinksWork

(* A request gets its tokens when it is made or when it has renewed them.  *)
Starts(w) ==
    /\ job'[w] # None /\ job'[w].orcid_auth # None
    /\ job[w] = None \/ job[w].orcid_auth = None

(* No other step gives it any.                                             *)
LEMMA StartsWhen ==
    ASSUME WorksInv, [WorksNext]_allVars, NEW w \in Workers, Starts(w)
    PROVE  CallMethod(w) \/ RenewSaved(w)
<1>1. job'[w] # job[w] /\ job'[w] # None
  BY DEF Starts
<1>2. ASSUME NEW v \in Workers \ {w}, \E j : job' = [job EXCEPT ![v] = j] PROVE FALSE
  BY <1>1, <1>2 DEF WorksInv, JobTypes
<1>3. ASSUME NEW v \in Workers \ {w}, CallMethod(v) \/ WorkStep(v) PROVE FALSE
  <2>1. \E j : job' = [job EXCEPT ![v] = j]
    <3>1. CASE CallMethod(v)
      BY <3>1 DEF CallMethod, Proceeds
    <3>2. CASE Renew(v) \/ RenewSaved(v) \/ GetProfile(v)
      BY <3>2 DEF Renew, RenewSaved, GetProfile, Proceeds, Ends
    <3>3. CASE Call(v)
      BY <3>3 DEF Call, FirstAnswer, Proceeds, Ends
    <3> QED
      BY <1>3, <3>1, <3>2, <3>3 DEF WorkStep
  <2> QED
    BY <1>2, <2>1
<1>4. ~Renew(w)
  <2>1. CASE Proceeds(w, job[w])
    BY <1>1, <2>1 DEF Proceeds, WorksInv, JobTypes
  <2>2. CASE job' = [job EXCEPT ![w] = None]
    BY <1>1, <2>2 DEF WorksInv, JobTypes
  <2> QED
    BY <2>1, <2>2 DEF Renew, Ends
<1>5. ~Call(w) /\ ~GetProfile(w)
  BY DEF Starts, Call, GetProfile, WorksInv, JobsFit, Fits
<1>6. ~Others(w) /\ \A v \in Workers : ~Others(v)
  BY <1>1 DEF Others, Quiet
<1>7. ~(OwnerDeletes \/ Quiet \/ UNCHANGED allVars)
  BY <1>1 DEF OwnerDeletes, Quiet, allVars, workVars
<1>8. ~Restart
  BY <1>1 DEF Restart
<1> QED
  BY <1>3, <1>4, <1>5, <1>6, <1>7, <1>8 DEF WorksNext, WorkStep

(* Either way they work, or were overtaken.                                *)
LEMMA StartedWell ==
    ASSUME WorksInv, LinksInv, Undisturbed, [WorksNext]_allVars, faults' = 0,
           NEW w \in Workers, Starts(w)
    PROVE  job'[w].orcid_auth \in live' \/ Overtaken(w, job'[w].username)
<1>1. faults = 0
  <2>1. faults' = faults \/ SpendFault
    BY ServiceGoesOn, FaultsCount DEF WorksInv, ServiceInv, CallsOut
  <2> QED
    BY <2>1, NoFault DEF WorksInv, ServiceInv
<1>2. Renewals
  BY <1>1 DEF LinksInv, LinksWork
<1>3. CASE CallMethod(w)
  <2>1. PICK op \in Methods, token \in KBaseTokens, username \in Users :
          \E l \in LinksOf(username), code \in 0..codes, readable \in MaySend(op) :
            LET new == NewJob(op, token, username, l.orcid_auth, code, readable)
            IN  \/ Proceeds(w, new) /\ UNCHANGED vars
                \/ Proceeds(w, AwaitsRenewal(new))
    BY <1>3 DEF CallMethod, WorksInv, JobTypes
  <2>2. PICK l \in LinksOf(username), code \in 0..codes, readable \in MaySend(op) :
          LET new == NewJob(op, token, username, l.orcid_auth, code, readable)
          IN  \/ Proceeds(w, new) /\ UNCHANGED vars
              \/ Proceeds(w, AwaitsRenewal(new))
    BY <2>1
  <2> DEFINE new == NewJob(op, token, username, l.orcid_auth, code, readable)
  <2>3. AwaitsRenewal(new).orcid_auth = None
    BY DEF AwaitsRenewal, NewJob
  <2>4. job'[w] = new /\ live' = live
    <3>1. ~Proceeds(w, AwaitsRenewal(new))
      BY <2>3 DEF Starts, Proceeds, WorksInv, JobTypes
    <3> QED
      BY <2>2, <3>1 DEF Proceeds, WorksInv, JobTypes, vars, authorityVars
  <2>5. job'[w].orcid_auth = l.orcid_auth /\ job'[w].username = username
    BY <2>4 DEF NewJob
  <2>6. task[w].pc = "idle" /\ l \in links /\ l.username = username
    BY <1>3 DEF CallMethod, Idle, LinksOf
  <2>7. \/ l.orcid_auth \in live
        \/ \E v \in Workers \ {w} : \/ At(v, "refresh_save") /\ task[v].link.username = username
                                    \/ At(v, "unlink_delete") /\ task[v].username = username
    BY <1>2, <2>6 DEF Renewals, LinkUsable, At
  <2> QED
    BY <2>4, <2>5, <2>7 DEF Overtaken
<1>4. CASE RenewSaved(w)
  <2>1. job[w] # None /\ task[w].pc = "refresh_save" /\ live' = live
    BY <1>4 DEF RenewSaved, RefreshSave, At, authorityVars
  <2>2. job[w] \in Job
    BY <2>1 DEF WorksInv, JobTypes
  <2>3. job'[w].orcid_auth = task[w].link.orcid_auth
    BY <1>4, <2>2 DEF RenewSaved, Proceeds, Renewed, Job, WorksInv, JobTypes
  <2>4. task[w].link.username \in Users
    BY <2>1, Locals DEF WorksInv, ServiceInv, TypeOK, LinkRecord
  <2> QED
    BY <1>2, <2>1, <2>3, <2>4 DEF Renewals, SavesWhatWorks, Saving
<1> QED
  BY <1>3, <1>4, StartsWhen

(* As long as nothing has failed, a works method or get-orcid-profile      *)
(* makes its first call with tokens that ORCID honours: the link's, which  *)
(* work by LinksUsable, or those that its own renewal has just saved.  The *)
(* exception is the time between the two steps of another request's        *)
(* renewal or removal.  It is assumed that no request can revoke what a    *)
(* link shares with a completed session, see Undisturbed.                  *)
THEOREM FirstCallsHonoured ==
    ASSUME Undisturbed
    PROVE  WorksSpec => StartsHonoured
<1>1. ASSUME WorksInv, WorksInv', LinksInv, [WorksNext]_allVars
      PROVE  LinksInv'
  BY <1>1, LinksGoOn DEF WorksInv, ServiceInv
<1>2. ASSUME WorksInv, LinksInv, [WorksNext]_allVars
      PROVE  [\A w \in Workers :
                /\ faults' = 0
                /\ job'[w] # None /\ job'[w].orcid_auth # None
                /\ job[w] = None \/ job[w].orcid_auth = None
                => job'[w].orcid_auth \in live' \/ Overtaken(w, job'[w].username)]_allVars
  BY <1>2, StartedWell DEF Starts
<1> QED
  BY <1>1, <1>2, WorksInductive, LinksStart, PTL DEF WorksSpec, StartsHonoured
=============================================================================
