--------------------------- MODULE RegistryProofs ---------------------------
(***************************************************************************)
(* The collection of links implements LinkRegistry, for any number of      *)
(* users, sessions, requests in flight and failures; and as long as        *)
(* nothing fails its tokens work, however renewals overlap.                *)
(***************************************************************************)
EXTENDS OrcidLinkProofs

-----------------------------------------------------------------------------
(* The index on links.username, as an invariant of the collection.         *)

OneLinkEach == \A l, m \in links : l.username = m.username => l = m

Creates(l) == CanCreateLink(l) /\ CreateLinkRecord(l)

Holdable(l) == l \in LinkRecord /\ l.orcid_auth.by = l.username

(* The three commands that change the collection of links, and what the    *)
(* handlers that issue them know of the record.                            *)
ChangesLinks ==
    \/ UNCHANGED links
    \/ \E l : Holdable(l) /\ (Creates(l) \/ SaveLinkRecord(l))
    \/ \E u \in Users : DeleteLinkRecord(u)

(* Only finish, a renewal and unlink issue them.                           *)
LEMMA LinkCommands ==
    ASSUME TypeOK, OwnInv, [Next]_vars
    PROVE  ChangesLinks
<1> USE DEF At
<1>1. ASSUME NEW w \in Workers, Request(w) \/ Step(w) PROVE ChangesLinks
  <2> DEFINE k == task[w]
  <2>0. k \in Continuation /\ OwnsTokens(k)
    BY DEF TypeOK, OwnInv, TasksOwnTokens
  <2>1. CASE FinishInsert(w)
    <3>1. Holdable(k.link)
      BY <2>0, <2>1, Locals DEF FinishInsert, OwnsTokens, Holdable
    <3> QED
      BY <2>1, <3>1 DEF FinishInsert, ChangesLinks, Creates
  <2>2. CASE RefreshSave(w)
    <3>1. Holdable(k.link)
      BY <2>0, <2>2, Locals DEF RefreshSave, OwnsTokens, Holdable
    <3> QED
      BY <2>2, <3>1 DEF RefreshSave, ChangesLinks
  <2>3. CASE UnlinkDelete(w)
    <3>1. k.username \in Users
      BY <2>0, <2>3, Locals DEF UnlinkDelete
    <3> QED
      BY <2>3, <3>1 DEF UnlinkDelete, ChangesLinks
  <2>4. CASE LinkingRequest(w) \/ LinkRequest(w) \/ DeleteExpired(w) \/ ManagementStep(w)
    BY <2>4 DEF LinkingRequest, Create, Start, Continue, Finish, Cancel, LinkRequest, Unlink,
                UseLink, RefreshTokens, DeleteExpired, ManagementStep, CleanupList,
                CleanupRevoke, CleanupInitial, CleanupStarted, CleanupCompleted, storageVars,
                ChangesLinks
  <2>5. CASE LinkingStep(w) /\ ~FinishInsert(w)
    BY <2>5 DEF LinkingStep, CreateInsert, StartFind, StartInsert, StartDelete,
                ContinueExchange, ContinueCheck, ContinueReject, ContinueFind, ContinueInsert,
                ContinueDelete, FinishDelete, CancelDelete, CancelRevoke, storageVars,
                ChangesLinks
  <2>6. CASE UnlinkRevoke(w) \/ RefreshCall(w)
    BY <2>6 DEF UnlinkRevoke, RefreshCall, storageVars, ChangesLinks
  <2> QED
    BY <1>1, <2>1, <2>2, <2>3, <2>4, <2>5, <2>6 DEF Request, Step, LinkStep
<1>2. CASE AdminDelete \/ Tick \/ Crash \/ OrcidWithdraws \/ UNCHANGED vars
  BY <1>2 DEF AdminDelete, AdminDeleteInitial, AdminDeleteStarted, AdminDeleteCompleted, Tick,
              Crash, OrcidWithdraws, vars, storageVars, ChangesLinks
<1> QED
  BY <1>1, <1>2 DEF Next

(* None of the three makes a second link of a user.                        *)
LEMMA OneLinkStep ==
    ASSUME OneLinkEach, links \subseteq LinkRecord, ChangesLinks
    PROVE  OneLinkEach'
<1>1. ASSUME NEW l, Holdable(l), Creates(l) PROVE OneLinkEach'
  BY <1>1 DEF OneLinkEach, Creates, CanCreateLink, CreateLinkRecord, LinksOf
<1>2. ASSUME NEW l, Holdable(l), SaveLinkRecord(l) PROVE OneLinkEach'
  BY <1>2 DEF OneLinkEach, SaveLinkRecord
<1>3. ASSUME NEW u \in Users, DeleteLinkRecord(u) PROVE OneLinkEach'
  BY <1>3 DEF OneLinkEach, DeleteLinkRecord
<1> QED
  BY <1>1, <1>2, <1>3 DEF ChangesLinks, OneLinkEach

-----------------------------------------------------------------------------
(* Step by step.                                                           *)

Registered == {Entry(l) : l \in links}

(* A record that may be stored is an entry of its user.                    *)
LEMMA EntryOfUser ==
    ASSUME NEW l, Holdable(l)
    PROVE  l.username \in Users /\ Entry(l) \in Registry!Entries(l.username)
BY DEF Holdable, LinkRecord, Entry, Registry!Entries

(* Who has a link is registered.                                           *)
LEMMA LinkedIsRegistered ==
    ASSUME NEW u, LinksOf(u) # {}
    PROVE  Registry!Registered(u)
<1>1. PICK l \in links : l.username = u
  BY DEF LinksOf
<1>2. Entry(l) \in Registered /\ Entry(l).username = u
  BY <1>1 DEF Registered, Entry
<1> QED
  BY <1>2 DEF Registered, Registry!Registered

(* The insert of a first link registers its user.                          *)
LEMMA CreateRegisters ==
    ASSUME NEW l, Holdable(l), Creates(l)
    PROVE  Registry!Register(l.username)
<1>1. Registered' = Registered \cup {Entry(l)}
  BY DEF Registered, Creates, CreateLinkRecord
<1>2. ~Registry!Registered(l.username)
  BY DEF Creates, CanCreateLink, LinksOf, Entry, Registry!Registered
<1> QED
  BY <1>1, <1>2, EntryOfUser DEF Registered, Registry!Register

(* The save of a link renews its user's entry, if there still is one.      *)
LEMMA SaveRenews ==
    ASSUME NEW l, Holdable(l), SaveLinkRecord(l), links \subseteq LinkRecord
    PROVE  Registry!Renew(l.username) \/ UNCHANGED Registered
<1>1. CASE LinksOf(l.username) = {}
  <2>1. links' = links
    BY <1>1 DEF LinksOf, SaveLinkRecord
  <2> QED
    BY <2>1 DEF Registered
<1>2. CASE LinksOf(l.username) # {}
  <2>1. Registry!Registered(l.username)
    BY <1>2, LinkedIsRegistered
  <2>2. links' = {m \in links : m.username # l.username} \cup {l}
    BY <1>2 DEF LinksOf, SaveLinkRecord
  <2>3. Registered' = {q \in Registered : q.username # l.username} \cup {Entry(l)}
    BY <2>2 DEF Registered, Entry
  <2> QED
    BY <2>1, <2>3, EntryOfUser DEF Registered, Registry!Renew
<1> QED
  BY <1>1, <1>2

(* The delete of a link unregisters its user, if there still is one.       *)
LEMMA DeleteUnregisters ==
    ASSUME NEW u \in Users, DeleteLinkRecord(u)
    PROVE  Registry!Unregister(u) \/ UNCHANGED Registered
<1>1. CASE LinksOf(u) = {}
  <2>1. links' = links
    BY <1>1 DEF LinksOf, DeleteLinkRecord
  <2> QED
    BY <2>1 DEF Registered
<1>2. CASE LinksOf(u) # {}
  <2>1. Registry!Registered(u)
    BY <1>2, LinkedIsRegistered
  <2>2. Registered' = {q \in Registered : q.username # u}
    BY DEF Registered, Entry, DeleteLinkRecord
  <2> QED
    BY <2>1, <2>2 DEF Registered, Registry!Unregister
<1> QED
  BY <1>1, <1>2

(* For every interleaving of handlers, renewals, removals and failures the *)
(* collection of links behaves as LinkRegistry says: a user has at most    *)
(* one link, with tokens the user's own browser brought, and one changes   *)
(* at a time.  A registration needs the unique index; an entry of the      *)
(* right user needs Ownership, which is why the refinement rests on it.    *)
THEOREM LinksImplementRegistry == Spec => LinksAreRegistry
<1>1. Init => Registry!Init
  BY DEF Init, StorageInit, Registry!Init
<1>2. TypeOK /\ OwnInv /\ [Next]_vars => [Registry!Next]_Registered
  <2> SUFFICES ASSUME TypeOK, OwnInv, [Next]_vars
               PROVE  Registry!Next \/ UNCHANGED Registered
    OBVIOUS
  <2>1. ChangesLinks /\ links \subseteq LinkRecord
    BY LinkCommands DEF TypeOK, StorageTypeOK
  <2>2. CASE UNCHANGED links
    BY <2>2 DEF Registered
  <2>3. ASSUME NEW l, Holdable(l), Creates(l) \/ SaveLinkRecord(l)
        PROVE  Registry!Next \/ UNCHANGED Registered
    BY <2>1, <2>3, EntryOfUser, CreateRegisters, SaveRenews DEF Registry!Next
  <2>4. ASSUME NEW u \in Users, DeleteLinkRecord(u)
        PROVE  Registry!Next \/ UNCHANGED Registered
    BY <2>4, DeleteUnregisters DEF Registry!Next
  <2> QED
    BY <2>1, <2>2, <2>3, <2>4 DEF ChangesLinks
<1>3. Registered = {Entry(l) : l \in links}
  BY DEF Registered
<1> QED
  BY <1>1, <1>2, TypeCorrect, Ownership, PTL
     DEF Spec, LinksAreRegistry, Registry!Spec, Registered, OwnInv

(* create_link_record relies on the index: no user ever has two links, so  *)
(* that get_link_record finds the one there is.                            *)
THEOREM OneLink == Spec => []OneLinkEach
<1>1. Init => OneLinkEach
  BY DEF Init, StorageInit, OneLinkEach
<1>2. TypeOK /\ OwnInv /\ OneLinkEach /\ [Next]_vars => OneLinkEach'
  BY LinkCommands, OneLinkStep DEF TypeOK, StorageTypeOK
<1> QED
  BY <1>1, <1>2, TypeCorrect, Ownership, PTL DEF Spec, OwnInv

-----------------------------------------------------------------------------
(* Two facts that every behaviour keeps, and that say where the tokens in  *)
(* play can come from.  A coroutine belongs to an operation of the         *)
(* instance: only what clients call can revoke, remove or register.        *)

Belongs(k) ==
    /\ k.pc \in {"finish_insert", "finish_delete"} => "finish" \in Endpoints
    /\ k.pc \in {"cancel_delete", "cancel_revoke"} => "cancel" \in Endpoints
    /\ k.pc \in {"unlink_revoke", "unlink_delete"} => "unlink" \in Endpoints
    /\ k.pc \in {"cleanup_list", "cleanup_revoke", "cleanup_initial", "cleanup_started",
                 "cleanup_completed"} => "delete_expired" \in Endpoints

TasksBelong == \A w \in Workers : Belongs(task[w])

(* And a token that is stored or in hand has been granted: the next one    *)
(* that ORCID grants is a new one.                                         *)
HoldsGranted(k, n) ==
    /\ k.pc \in {"continue_check", "continue_find", "cancel_revoke", "unlink_revoke"} =>
            k.orcid_auth.token <= n
    /\ k.pc \in {"continue_insert", "cancel_delete"} => k.doc.orcid_auth.token <= n
    /\ k.pc \in {"finish_insert", "refresh_call", "refresh_save"} =>
            k.link.orcid_auth.token <= n
    /\ k.pc = "cleanup_revoke" => \A auth \in k.auths : auth.token <= n

TokensGranted ==
    /\ \A l \in links : l.orcid_auth.token <= minted
    /\ \A c \in completed : c.orcid_auth.token <= minted
    /\ \A w \in Workers : HoldsGranted(task[w], minted)

(* What holds of every other coroutine holds of all, if of the new one.    *)
LEMMA GotoBelongs ==
    ASSUME TypeOK, TasksBelong, NEW w \in Workers, NEW k, Goto(w, k), Belongs(k)
    PROVE  TasksBelong'
<1>1. \A v \in Workers : task'[v] = IF v = w THEN k ELSE task[v]
  BY DEF Goto, TypeOK
<1>2. \A v \in Workers : Belongs(task'[v])
  BY <1>1 DEF TasksBelong
<1> QED
  BY <1>2 DEF TasksBelong, Belongs

(* No handler goes on to the steps of another operation.                   *)
LEMMA BelongStep ==
    ASSUME TypeOK, TasksBelong, [Next]_vars
    PROVE  TasksBelong'
<1> USE DEF At
<1>1. ASSUME NEW w \in Workers, LinkingRequest(w) PROVE TasksBelong'
  <2>1. \/ \E d : Goto(w, [pc |-> "create_insert", session |-> d])
        \/ \E s : Goto(w, [pc |-> "start_find", session_id |-> s])
        \/ \E d, u : Goto(w, [pc |-> "continue_exchange", session |-> d, username |-> u])
        \/ /\ "finish" \in Endpoints
           /\ \E l, s : Goto(w, [pc |-> "finish_insert", link |-> l, session_id |-> s])
        \/ "cancel" \in Endpoints /\ \E c : Goto(w, [pc |-> "cancel_delete", doc |-> c])
    BY <1>1 DEF LinkingRequest, Create, Start, Continue, Finish, Cancel, Accept
  <2> QED
    BY <2>1, GotoBelongs DEF Belongs
<1>2. ASSUME NEW w \in Workers, LinkingStep(w) PROVE TasksBelong'
  <2> DEFINE k == task[w]
  <2>0. k \in Continuation /\ Belongs(k)
    BY DEF TypeOK, TasksBelong
  <2>1. CASE ContinueCheck(w)
    <3>1. \/ \E s : Goto(w, [pc |-> "continue_reject", session_id |-> s])
          \/ Goto(w, [k EXCEPT !.pc = "continue_find"])
      BY <2>1 DEF ContinueCheck
    <3>2. Belongs([k EXCEPT !.pc = "continue_find"])
      BY <2>0, <2>1 DEF ContinueCheck, Belongs, Continuation, Idle
    <3> QED
      BY <3>1, <3>2, GotoBelongs DEF Belongs
  <2>2. CASE ~ContinueCheck(w)
    <3>1. \/ \E d : Goto(w, [pc |-> "start_insert", session |-> d])
          \/ \E s : Goto(w, [pc |-> "start_delete", session_id |-> s])
          \/ \E d, a : Goto(w, [pc |-> "continue_check", session |-> d, orcid_auth |-> a])
          \/ \E c : Goto(w, [pc |-> "continue_insert", doc |-> c])
          \/ \E s : Goto(w, [pc |-> "continue_delete", session_id |-> s])
          \/ /\ k.pc = "finish_insert"
             /\ \E s : Goto(w, [pc |-> "finish_delete", session_id |-> s])
          \/ /\ k.pc = "cancel_delete"
             /\ \E a : Goto(w, [pc |-> "cancel_revoke", orcid_auth |-> a])
          \/ Goto(w, Idle)
      BY <1>2, <2>2
         DEF LinkingStep, CreateInsert, StartFind, StartInsert, StartDelete, ContinueExchange,
             ContinueReject, ContinueFind, ContinueInsert, ContinueDelete, FinishInsert,
             FinishDelete, CancelDelete, CancelRevoke, RedirectToOrcid, Answer
    <3> QED
      BY <2>0, <3>1, GotoBelongs DEF Belongs, Idle
  <2> QED
    BY <2>1, <2>2
<1>3. ASSUME NEW w \in Workers, LinkRequest(w) \/ LinkStep(w) PROVE TasksBelong'
  <2>1. \/ "unlink" \in Endpoints /\ \E u, a :
               Goto(w, [pc |-> "unlink_revoke", username |-> u, orcid_auth |-> a])
        \/ task[w].pc = "unlink_revoke" /\ \E u :
               Goto(w, [pc |-> "unlink_delete", username |-> u])
        \/ \E l : Goto(w, [pc |-> "refresh_call", link |-> l])
        \/ \E l : Goto(w, [pc |-> "refresh_save", link |-> l])
        \/ Goto(w, Idle)
    BY <1>3 DEF LinkRequest, Unlink, UseLink, RefreshTokens, Accept, LinkStep, UnlinkRevoke,
                UnlinkDelete, RefreshCall, RefreshSave, Answer
  <2> QED
    BY <2>1, GotoBelongs DEF TasksBelong, Belongs, Idle
<1>4. ASSUME NEW w \in Workers, DeleteExpired(w) \/ ManagementStep(w) PROVE TasksBelong'
  <2>1. "delete_expired" \in Endpoints
    BY <1>4 DEF DeleteExpired, Accept, ManagementStep, CleanupList, CleanupRevoke,
                CleanupInitial, CleanupStarted, CleanupCompleted, TasksBelong, Belongs
  <2>2. \/ Goto(w, Idle)
        \/ \E S : Goto(w, [pc |-> "cleanup_revoke", auths |-> S])
        \/ \E t : \/ Goto(w, [pc |-> "cleanup_list", at |-> t])
                  \/ Goto(w, [pc |-> "cleanup_initial", at |-> t])
                  \/ Goto(w, [pc |-> "cleanup_started", at |-> t])
                  \/ Goto(w, [pc |-> "cleanup_completed", at |-> t])
    BY <1>4 DEF DeleteExpired, ManagementStep, CleanupList, CleanupRevoke, CleanupInitial,
                CleanupStarted, CleanupCompleted, RevokeOrDelete, Accept, Answer
  <2> QED
    BY <2>1, <2>2, GotoBelongs DEF Belongs, Idle
<1>5. CASE AdminDelete \/ Tick \/ OrcidWithdraws \/ UNCHANGED vars
  BY <1>5 DEF AdminDelete, AdminDeleteInitial, AdminDeleteStarted, AdminDeleteCompleted, Tick,
              OrcidWithdraws, vars, requestVars, TasksBelong, Belongs
<1>6. CASE Crash
  BY <1>6 DEF Crash, TasksBelong, Belongs, Idle
<1> QED
  BY <1>1, <1>2, <1>3, <1>4, <1>5, <1>6 DEF Next, Request, Step
(* A coroutine with granted tokens in hand leaves every coroutine so.      *)
LEMMA GotoGranted ==
    ASSUME TypeOK, TypeOK', TokensGranted, minted <= minted', NEW w \in Workers,
           \E k : Goto(w, k) /\ HoldsGranted(k, minted')
    PROVE  \A v \in Workers : HoldsGranted(task'[v], minted')
<1>1. ASSUME NEW v \in Workers PROVE HoldsGranted(task[v], minted')
  <2>1. task[v] \in Continuation /\ HoldsGranted(task[v], minted)
    BY DEF TypeOK, TokensGranted
  <2>2. minted \in Nat /\ minted' \in Nat
    BY EntitiesAssumption DEF TypeOK, AuthorityTypeOK
  <2> QED
    BY <2>1, <2>2, Locals DEF HoldsGranted, ORCIDAuth, LinkingSessionComplete, LinkRecord
<1>2. PICK k : Goto(w, k) /\ HoldsGranted(k, minted')
  OBVIOUS
<1>3. \A v \in Workers : task'[v] = IF v = w THEN k ELSE task[v]
  BY <1>2 DEF Goto, TypeOK
<1> QED
  BY <1>1, <1>2, <1>3

(* Most continuations hold no token, the others the one they are given.    *)
LEMMA HeldByNext ==
    ASSUME NEW n
    PROVE  /\ HoldsGranted(Idle, n)
           /\ \A d : /\ HoldsGranted([pc |-> "create_insert", session |-> d], n)
                    /\ HoldsGranted([pc |-> "start_insert", session |-> d], n)
                    /\ \A u : HoldsGranted([pc |-> "continue_exchange", session |-> d,
                                           username |-> u], n)
                    /\ \A a : a.token <= n =>
                        HoldsGranted([pc |-> "continue_check", session |-> d,
                                      orcid_auth |-> a], n)
           /\ \A s : /\ HoldsGranted([pc |-> "start_find", session_id |-> s], n)
                    /\ HoldsGranted([pc |-> "start_delete", session_id |-> s], n)
                    /\ HoldsGranted([pc |-> "continue_reject", session_id |-> s], n)
                    /\ HoldsGranted([pc |-> "continue_delete", session_id |-> s], n)
                    /\ HoldsGranted([pc |-> "finish_delete", session_id |-> s], n)
           /\ \A c : c.orcid_auth.token <= n =>
                    /\ HoldsGranted([pc |-> "continue_insert", doc |-> c], n)
                    /\ HoldsGranted([pc |-> "cancel_delete", doc |-> c], n)
           /\ \A l : l.orcid_auth.token <= n =>
                    /\ \A s : HoldsGranted([pc |-> "finish_insert", link |-> l,
                                           session_id |-> s], n)
                    /\ HoldsGranted([pc |-> "refresh_call", link |-> l], n)
                    /\ HoldsGranted([pc |-> "refresh_save", link |-> l], n)
           /\ \A u : HoldsGranted([pc |-> "unlink_delete", username |-> u], n)
           /\ \A a : a.token <= n =>
                    /\ HoldsGranted([pc |-> "cancel_revoke", orcid_auth |-> a], n)
                    /\ \A u : HoldsGranted([pc |-> "unlink_revoke", username |-> u,
                                           orcid_auth |-> a], n)
           /\ \A S : (\A a \in S : a.token <= n) =>
                    HoldsGranted([pc |-> "cleanup_revoke", auths |-> S], n)
           /\ \A t : /\ HoldsGranted([pc |-> "cleanup_list", at |-> t], n)
                    /\ HoldsGranted([pc |-> "cleanup_initial", at |-> t], n)
                    /\ HoldsGranted([pc |-> "cleanup_started", at |-> t], n)
                    /\ HoldsGranted([pc |-> "cleanup_completed", at |-> t], n)
BY DEF HoldsGranted, Idle

(* The documents stored stay granted, if the new ones are.                 *)
LEMMA StoredGranted ==
    ASSUME TypeOK, TypeOK', TokensGranted, minted <= minted',
           \A l \in links' \ links : l.orcid_auth.token <= minted',
           \A c \in completed' \ completed : c.orcid_auth.token <= minted'
    PROVE  /\ \A l \in links' : l.orcid_auth.token <= minted'
           /\ \A c \in completed' : c.orcid_auth.token <= minted'
<1>1. minted \in Nat /\ minted' \in Nat
  BY EntitiesAssumption DEF TypeOK, AuthorityTypeOK
<1>2. /\ \A l \in links : l.orcid_auth.token \in Nat
      /\ \A c \in completed : c.orcid_auth.token \in Nat
  BY DEF TypeOK, StorageTypeOK, LinkRecord, LinkingSessionComplete, ORCIDAuth
<1> QED
  BY <1>1, <1>2 DEF TokensGranted

(* ORCID only ever grants more, and what it grants is new.                 *)
LEMMA GrantsGrow ==
    ASSUME TypeOK
    PROVE  /\ \A auth, R : Grants(auth, R) => minted' = minted + 1
           /\ Refuses => minted' = minted
           /\ \A auth : RevokeAnswered(auth) \/ RevokeRaises(auth) => minted' = minted
           /\ UNCHANGED authorityVars => minted' = minted
           /\ \A s, w : RedirectToOrcid(w, s) => minted' = minted
           /\ minted \in Nat
           /\ \A o, u : NewAuth(o, u).token = minted + 1
BY EntitiesAssumption
   DEF TypeOK, AuthorityTypeOK, Grants, Refuses, RevokeAnswered, RevokeRaises, Revokes,
       RevocationSilentlyFails, authorityVars, RedirectToOrcid, NewAuth

(* The linking flow passes on the tokens it holds, or one just granted.    *)
LEMMA LinkingGranted ==
    ASSUME TypeOK, TypeOK', TokensGranted, NEW w \in Workers,
           LinkingRequest(w) \/ LinkingStep(w)
    PROVE  TokensGranted'
<1> USE DEF At
<1> DEFINE k == task[w]
<1>0. k \in Continuation /\ HoldsGranted(k, minted) /\ minted \in Nat
  BY EntitiesAssumption DEF TypeOK, TokensGranted, AuthorityTypeOK
<1>1. CASE LinkingRequest(w)
  <2>1. /\ UNCHANGED <<links, completed, minted>>
        /\ \/ \E d : Goto(w, [pc |-> "create_insert", session |-> d])
           \/ \E s : Goto(w, [pc |-> "start_find", session_id |-> s])
           \/ \E d, u : Goto(w, [pc |-> "continue_exchange", session |-> d, username |-> u])
           \/ \E c \in completed : \E s :
                Goto(w, [pc |-> "finish_insert", link |-> NewLink(c), session_id |-> s])
           \/ \E c \in completed : Goto(w, [pc |-> "cancel_delete", doc |-> c])
    BY <1>1 DEF LinkingRequest, Create, Start, Continue, Finish, Cancel, Accept,
                CompletedSessions, storageVars, authorityVars
  <2>2. \A v \in Workers : HoldsGranted(task'[v], minted')
    <3>1. \A c \in completed :
            c.orcid_auth.token <= minted /\ NewLink(c).orcid_auth.token <= minted
      BY DEF TokensGranted, NewLink
    <3>2. minted <= minted'
      BY <1>0, <2>1
    <3>3. \E j : Goto(w, j) /\ HoldsGranted(j, minted')
      BY <2>1, <3>1, HeldByNext
    <3> QED
      BY <3>2, <3>3, GotoGranted
  <2> QED
    BY <1>0, <2>1, <2>2, StoredGranted DEF TokensGranted
<1>2. CASE ContinueExchange(w)
  <2>1. /\ UNCHANGED <<links, completed>>
        /\ minted' \in {minted, minted + 1}
        /\ \/ \E d, o : /\ minted' = minted + 1
                        /\ Goto(w, [pc |-> "continue_check", session |-> d,
                                    orcid_auth |-> NewAuth(o, k.username)])
           \/ Answer(w)
    BY <1>2, GrantsGrow DEF ContinueExchange, storageVars
  <2>2. minted <= minted'
    BY <1>0, <2>1
  <2>3. \A v \in Workers : HoldsGranted(task'[v], minted')
    <3>1. \A o : NewAuth(o, k.username).token <= minted + 1
      BY <1>0, GrantsGrow
    <3>2. \E j : Goto(w, j) /\ HoldsGranted(j, minted')
      BY <2>1, <3>1, HeldByNext DEF Answer
    <3> QED
      BY <2>2, <3>2, GotoGranted
  <2> QED
    BY <1>0, <2>1, <2>2, <2>3, StoredGranted DEF TokensGranted
<1>3. CASE ContinueCheck(w)
  <2>1. /\ UNCHANGED <<links, completed, minted>>
        /\ \/ \E s : Goto(w, [pc |-> "continue_reject", session_id |-> s])
           \/ Goto(w, [k EXCEPT !.pc = "continue_find"])
    BY <1>3 DEF ContinueCheck, storageVars, authorityVars
  <2>2. HoldsGranted([k EXCEPT !.pc = "continue_find"], minted)
    BY <1>0, <1>3 DEF ContinueCheck, HoldsGranted, Continuation, Idle
  <2>3. \A v \in Workers : HoldsGranted(task'[v], minted')
    <3>1. \E j : Goto(w, j) /\ HoldsGranted(j, minted')
      BY <2>1, <2>2, HeldByNext
    <3> QED
      BY <1>0, <2>1, <3>1, GotoGranted
  <2> QED
    BY <1>0, <2>1, <2>3, StoredGranted DEF TokensGranted
<1>4. CASE ContinueFind(w) \/ ContinueInsert(w) \/ FinishInsert(w)
  <2>1. /\ minted' = minted
        /\ \A l \in links' \ links : k.pc = "finish_insert" /\ l = k.link
        /\ \A c \in completed' \ completed : k.pc = "continue_insert" /\ c = k.doc
        /\ \/ /\ k.pc = "continue_find"
              /\ \E d : Goto(w, [pc |-> "continue_insert",
                                 doc |-> [session |-> d, orcid_auth |-> k.orcid_auth]])
           \/ \E s : Goto(w, [pc |-> "continue_delete", session_id |-> s])
           \/ \E s : Goto(w, [pc |-> "finish_delete", session_id |-> s])
           \/ Answer(w)
    BY <1>4 DEF ContinueFind, ContinueInsert, FinishInsert, InsertCompleted, CreateLinkRecord,
                storageVars, authorityVars
  <2>2. \A v \in Workers : HoldsGranted(task'[v], minted')
    <3>1. \A d : k.pc = "continue_find" =>
            [session |-> d, orcid_auth |-> k.orcid_auth].orcid_auth.token <= minted
      BY <1>0 DEF HoldsGranted
    <3>2. \E j : Goto(w, j) /\ HoldsGranted(j, minted')
      BY <2>1, <3>1, HeldByNext DEF Answer
    <3> QED
      BY <1>0, <2>1, <3>2, GotoGranted
  <2>3. /\ \A l \in links' \ links : l.orcid_auth.token <= minted'
        /\ \A c \in completed' \ completed : c.orcid_auth.token <= minted'
    BY <1>0, <2>1 DEF HoldsGranted
  <2> QED
    BY <1>0, <2>1, <2>2, <2>3, StoredGranted DEF TokensGranted
<1>5. CASE \/ CreateInsert(w) \/ StartFind(w) \/ StartInsert(w) \/ StartDelete(w)
           \/ ContinueReject(w) \/ ContinueDelete(w) \/ FinishDelete(w) \/ CancelDelete(w)
           \/ CancelRevoke(w)
  <2>1. /\ minted' = minted
        /\ links' = links /\ completed' \subseteq completed
        /\ \/ \E d : Goto(w, [pc |-> "start_insert", session |-> d])
           \/ \E s : Goto(w, [pc |-> "start_delete", session_id |-> s])
           \/ /\ k.pc = "cancel_delete"
              /\ Goto(w, [pc |-> "cancel_revoke", orcid_auth |-> k.doc.orcid_auth])
           \/ Answer(w)
    BY <1>5, GrantsGrow
       DEF CreateInsert, StartFind, StartInsert, StartDelete, RedirectToOrcid, ContinueReject,
           ContinueDelete, FinishDelete, CancelDelete, CancelRevoke, DeleteCompleted,
           storageVars, authorityVars
  <2>2. \A v \in Workers : HoldsGranted(task'[v], minted')
    <3>1. k.pc = "cancel_delete" => k.doc.orcid_auth.token <= minted
      BY <1>0 DEF HoldsGranted
    <3>2. \E j : Goto(w, j) /\ HoldsGranted(j, minted')
      BY <2>1, <3>1, HeldByNext DEF Answer
    <3> QED
      BY <1>0, <2>1, <3>2, GotoGranted
  <2> QED
    BY <1>0, <2>1, <2>2, StoredGranted DEF TokensGranted
<1> QED
  BY <1>1, <1>2, <1>3, <1>4, <1>5 DEF LinkingStep

(* So do removal, renewal and the sweep of expired sessions.               *)
LEMMA OthersGranted ==
    ASSUME TypeOK, TypeOK', TokensGranted, NEW w \in Workers,
           LinkRequest(w) \/ LinkStep(w) \/ DeleteExpired(w) \/ ManagementStep(w)
    PROVE  TokensGranted'
<1> USE DEF At
<1> DEFINE k == task[w]
<1>0. k \in Continuation /\ HoldsGranted(k, minted) /\ minted \in Nat
  BY EntitiesAssumption DEF TypeOK, TokensGranted, AuthorityTypeOK
<1>1. CASE LinkRequest(w)
  <2>1. /\ UNCHANGED <<links, completed, minted>>
        /\ \/ \E u : \E l \in links :
                Goto(w, [pc |-> "unlink_revoke", username |-> u, orcid_auth |-> l.orcid_auth])
           \/ \E l \in links : Goto(w, [pc |-> "refresh_call", link |-> l])
           \/ \E l \in links :
                Goto(w, [pc |-> "refresh_call",
                         link |-> [l EXCEPT !.retires_at = now + RetirementAge]])
    BY <1>1 DEF LinkRequest, Unlink, UseLink, RefreshTokens, Accept, LinksOf, storageVars,
                authorityVars
  <2>2. \A l \in links : [l EXCEPT !.retires_at = now + RetirementAge].orcid_auth = l.orcid_auth
    BY DEF TypeOK, StorageTypeOK, LinkRecord
  <2>3. \A v \in Workers : HoldsGranted(task'[v], minted')
    <3>1. \A l \in links :
            /\ l.orcid_auth.token <= minted
            /\ [l EXCEPT !.retires_at = now + RetirementAge].orcid_auth.token <= minted
      BY <2>2 DEF TokensGranted
    <3>2. \E j : Goto(w, j) /\ HoldsGranted(j, minted')
      BY <2>1, <3>1, HeldByNext
    <3> QED
      BY <1>0, <2>1, <3>2, GotoGranted
  <2> QED
    BY <1>0, <2>1, <2>3, StoredGranted DEF TokensGranted
<1>2. CASE RefreshCall(w)
  <2>1. k.link \in LinkRecord
    BY <1>0, <1>2, Locals DEF RefreshCall
  <2>2. RefreshedLink(k.link).orcid_auth.token = minted + 1
    BY <2>1, GrantsGrow DEF RefreshedLink, LinkRecord
  <2>3. /\ UNCHANGED <<links, completed>>
        /\ minted' \in {minted, minted + 1}
        /\ \/ /\ minted' = minted + 1
              /\ Goto(w, [pc |-> "refresh_save", link |-> RefreshedLink(k.link)])
           \/ Answer(w)
    BY <1>2, GrantsGrow DEF RefreshCall, storageVars
  <2>4. minted <= minted'
    BY <1>0, <2>3
  <2>5. \A v \in Workers : HoldsGranted(task'[v], minted')
    <3>1. minted' = minted + 1 => RefreshedLink(k.link).orcid_auth.token <= minted'
      BY <1>0, <2>2
    <3>2. \E j : Goto(w, j) /\ HoldsGranted(j, minted')
      BY <2>3, <3>1, HeldByNext DEF Answer
    <3> QED
      BY <2>4, <3>2, GotoGranted
  <2> QED
    BY <1>0, <2>3, <2>4, <2>5, StoredGranted DEF TokensGranted
<1>3. CASE RefreshSave(w) \/ UnlinkRevoke(w) \/ UnlinkDelete(w)
  <2>1. /\ minted' = minted /\ completed' = completed
        /\ \A l \in links' \ links : k.pc = "refresh_save" /\ l = k.link
        /\ \/ \E u : Goto(w, [pc |-> "unlink_delete", username |-> u])
           \/ Answer(w)
    BY <1>3, GrantsGrow DEF RefreshSave, UnlinkRevoke, UnlinkDelete, SaveLinkRecord,
                            DeleteLinkRecord, storageVars, authorityVars
  <2>2. \A v \in Workers : HoldsGranted(task'[v], minted')
    <3>1. \E j : Goto(w, j) /\ HoldsGranted(j, minted')
      BY <2>1, HeldByNext DEF Answer
    <3> QED
      BY <1>0, <2>1, <3>1, GotoGranted
  <2>3. \A l \in links' \ links : l.orcid_auth.token <= minted'
    BY <1>0, <2>1 DEF HoldsGranted
  <2> QED
    BY <1>0, <2>1, <2>2, <2>3, StoredGranted DEF TokensGranted
<1>4. CASE DeleteExpired(w) \/ ManagementStep(w)
  <2>1. /\ minted' = minted /\ links' = links /\ completed' \subseteq completed
        /\ \/ Answer(w)
           \/ \E S : /\ \/ \E P : P \subseteq completed /\ S = {c.orcid_auth : c \in P}
                        \/ k.pc = "cleanup_revoke" /\ S \subseteq k.auths
                     /\ Goto(w, [pc |-> "cleanup_revoke", auths |-> S])
           \/ \E t : \/ Goto(w, [pc |-> "cleanup_list", at |-> t])
                     \/ Goto(w, [pc |-> "cleanup_initial", at |-> t])
                     \/ Goto(w, [pc |-> "cleanup_started", at |-> t])
                     \/ Goto(w, [pc |-> "cleanup_completed", at |-> t])
    <3>1. CASE CleanupList(w)
      <4>1. PICK P \in Page(ExpiredCompleted(k.at)) : RevokeOrDelete(w, {c.orcid_auth : c \in P})
        BY <3>1 DEF CleanupList
      <4>2. P \subseteq completed
        BY <4>1 DEF Page, ExpiredCompleted
      <4> QED
        BY <3>1, <4>1, <4>2 DEF CleanupList, RevokeOrDelete, storageVars, authorityVars
    <3>2. CASE CleanupRevoke(w)
      <4>1. PICK auth \in k.auths :
              /\ RevokeAnswered(auth) \/ RevokeRaises(auth)
              /\ RevokeOrDelete(w, k.auths \ {auth}) \/ Answer(w)
        BY <3>2 DEF CleanupRevoke
      <4>2. minted' = minted
        BY <4>1, GrantsGrow
      <4>3. k.auths \ {auth} \subseteq k.auths /\ k.pc = "cleanup_revoke"
        BY <3>2 DEF CleanupRevoke
      <4> QED
        BY <3>2, <4>1, <4>2, <4>3 DEF CleanupRevoke, RevokeOrDelete, storageVars
    <3>3. CASE \/ DeleteExpired(w) \/ CleanupInitial(w) \/ CleanupStarted(w)
               \/ CleanupCompleted(w)
      BY <3>3 DEF DeleteExpired, Accept, CleanupInitial, CleanupStarted, CleanupCompleted,
                  DeleteExpiredCompleted, storageVars, authorityVars
    <3> QED
      BY <1>4, <3>1, <3>2, <3>3 DEF ManagementStep
  <2>2. \A v \in Workers : HoldsGranted(task'[v], minted')
    <3>1. ASSUME NEW S,
                 \/ \E P : P \subseteq completed /\ S = {c.orcid_auth : c \in P}
                 \/ k.pc = "cleanup_revoke" /\ S \subseteq k.auths
          PROVE  HoldsGranted([pc |-> "cleanup_revoke", auths |-> S], minted)
      <4>1. \A auth \in S : auth.token <= minted
        BY <1>0, <3>1 DEF HoldsGranted, TokensGranted
      <4> QED
        BY <4>1, HeldByNext
    <3>2. \E j : Goto(w, j) /\ HoldsGranted(j, minted')
      BY <2>1, <3>1, HeldByNext DEF Answer
    <3> QED
      BY <1>0, <2>1, <3>2, GotoGranted
  <2> QED
    BY <1>0, <2>1, <2>2, StoredGranted DEF TokensGranted
<1> QED
  BY <1>1, <1>2, <1>3, <1>4 DEF LinkRequest, LinkStep

(* No step makes up a token.                                               *)
LEMMA GrantedStep ==
    ASSUME TypeOK, TypeOK', TokensGranted, [Next]_vars
    PROVE  TokensGranted'
<1>1. ASSUME NEW w \in Workers, Request(w) \/ Step(w) PROVE TokensGranted'
  BY <1>1, LinkingGranted, OthersGranted DEF Request, Step
<1>2. CASE AdminDelete \/ Tick \/ OrcidWithdraws \/ UNCHANGED vars
  BY <1>2 DEF AdminDelete, AdminDeleteInitial, AdminDeleteStarted, AdminDeleteCompleted,
              DeleteCompleted, Tick, OrcidWithdraws, vars, requestVars, storageVars,
              authorityVars, TokensGranted, HoldsGranted
<1>3. CASE Crash
  BY <1>3 DEF Crash, storageVars, TokensGranted, HoldsGranted, Idle
<1> QED
  BY <1>1, <1>2, <1>3 DEF Next
-----------------------------------------------------------------------------
(* Tokens that work.  LinkUsable says nothing of what the renewals in      *)
(* flight believe the user's token to be, and is not inductive.            *)

(* No token of a link is revoked behind the back of its owner: not with a  *)
(* session's copy of it (cancel, the sweep), nor, once the link is gone,   *)
(* before a finish repeats it.                                             *)
Undisturbed ==
    /\ Endpoints \cap {"cancel", "delete_expired"} = {}
    /\ "unlink" \notin Endpoints \/ "finish" \notin Endpoints

Calling(k, u) == k.pc = "refresh_call" /\ k.link.username = u

Saving(k, u) == k.pc = "refresh_save" /\ k.link.username = u

(* What the link, or a renewal that has read it, takes for u's tokens.     *)
Believed(u, a) ==
    \/ \E l \in LinksOf(u) : a = l.orcid_auth
    \/ \E w \in Workers : Calling(task[w], u) /\ a = task[w].link.orcid_auth

(* Those who take different tokens for the user's cannot both be right:    *)
(* ORCID will rotate at most one of them.                                  *)
OneBelievedWorks ==
    \A u \in Users : \A a, b \in live : Believed(u, a) /\ Believed(u, b) => a = b

(* Once it has, the new ones work, and are with the one request that is    *)
(* about to save them.                                                     *)
SavesWhatWorks ==
    \A w \in Workers, u \in Users :
        Saving(task[w], u) =>
            /\ task[w].link.orcid_auth \in live
            /\ \A a \in live : ~Believed(u, a)
            /\ \A v \in Workers : Saving(task[v], u) => v = w

(* A removal revokes tokens of its user that were in the link.             *)
RevokesRead ==
    \A w \in Workers :
        At(w, "unlink_revoke") =>
            /\ task[w].orcid_auth.by = task[w].username
            /\ \A v \in Workers : At(v, "refresh_save") =>
                  task[w].orcid_auth # task[v].link.orcid_auth

(* Where links are registered none goes, least of all during its renewal.  *)
RenewedLinkStays ==
    "finish" \in Endpoints =>
        \A w \in Workers, u \in Users :
            Calling(task[w], u) \/ Saving(task[w], u) => LinksOf(u) # {}

Renewals ==
    LinkUsable /\ OneBelievedWorks /\ SavesWhatWorks /\ RevokesRead /\ RenewedLinkStays

(* And the tokens that a user without a link may still confirm work.       *)
Unspoilt(a) == LinksOf(a.by) = {} => a \in live

UnspoiltInHand(k) ==
    /\ k.pc \in {"continue_check", "continue_find"} => Unspoilt(k.orcid_auth)
    /\ k.pc = "continue_insert" => Unspoilt(k.doc.orcid_auth)
    /\ k.pc = "finish_insert" => Unspoilt(k.link.orcid_auth)

Registrations ==
    "finish" \in Endpoints =>
        /\ \A c \in completed : Unspoilt(c.orcid_auth)
        /\ \A w \in Workers : UnspoiltInHand(task[w])

LinksWork == faults = 0 => Renewals /\ Registrations

(* The steps that leave links, their renewals and removals alone, but that *)
(* a request may come to read a link, or give up renewing it.              *)
OnLinks(k) == k.pc \in {"refresh_save", "unlink_revoke", "unlink_delete"}

(* Grants to anybody else take nothing from a link or its renewal.         *)
LEMMA BesideLinks ==
    ASSUME TypeOK, Renewals, NEW w \in Workers, ~OnLinks(task[w]),
           \E k : /\ Goto(w, k) /\ ~OnLinks(k)
                 /\ \A u \in Users : Calling(k, u) =>
                        LinksOf(u) # {} /\ Believed(u, k.link.orcid_auth),
           links' = links, live \subseteq live',
           \A u \in Users : \A a \in live' \ live : ~Believed(u, a)
    PROVE  Renewals'
<1>1. PICK k : /\ Goto(w, k) /\ ~OnLinks(k)
               /\ \A u \in Users : Calling(k, u) =>
                    LinksOf(u) # {} /\ Believed(u, k.link.orcid_auth)
  OBVIOUS
<1>2. \A v \in Workers : task'[v] = IF v = w THEN k ELSE task[v]
  BY <1>1 DEF Goto, TypeOK
<1>3. \A v \in Workers : OnLinks(task[v]) \/ OnLinks(task'[v]) => task'[v] = task[v]
  BY <1>1, <1>2
<1>4. \A u \in Users : \A a : Believed(u, a)' => Believed(u, a)
  BY <1>1, <1>2 DEF Believed, LinksOf, Calling
<1>5. LinkUsable'
  BY <1>3 DEF Renewals, LinkUsable, At, OnLinks
<1>6. OneBelievedWorks'
  BY <1>4 DEF Renewals, OneBelievedWorks
<1>7. SavesWhatWorks'
  BY <1>3, <1>4 DEF Renewals, SavesWhatWorks, Saving, OnLinks
<1>8. RevokesRead'
  BY <1>3 DEF Renewals, RevokesRead, At, OnLinks
<1>9. RenewedLinkStays'
  BY <1>1, <1>2, <1>3 DEF Renewals, RenewedLinkStays, LinksOf, Calling, Saving, OnLinks
<1> QED
  BY <1>5, <1>6, <1>7, <1>8, <1>9 DEF Renewals

(* The budget of failures is spent, never refilled.                        *)
LEMMA FaultsCount ==
    ASSUME [Next]_vars
    PROVE  faults' = faults \/ SpendFault
<1>1. ASSUME NEW w \in Workers, Request(w) \/ Step(w) PROVE faults' = faults \/ SpendFault
  BY <1>1
     DEF Request, Step, LinkingRequest, Create, Start, Continue, Finish, Cancel, LinkRequest,
         Unlink, UseLink, RefreshTokens, DeleteExpired, LinkingStep, CreateInsert, StartFind,
         StartInsert, StartDelete, RedirectToOrcid, ContinueExchange, ContinueCheck,
         ContinueReject, ContinueFind, ContinueInsert, ContinueDelete, FinishInsert,
         FinishDelete, CancelDelete, CancelRevoke, LinkStep, UnlinkRevoke, UnlinkDelete,
         RefreshCall, RefreshSave, ManagementStep, CleanupList, CleanupRevoke, CleanupInitial,
         CleanupStarted, CleanupCompleted, Refuses, RevokeAnswered, RevokeRaises,
         RevocationSilentlyFails, authorityVars
<1>2. CASE AdminDelete \/ Tick \/ Crash \/ OrcidWithdraws \/ UNCHANGED vars
  BY <1>2 DEF AdminDelete, AdminDeleteInitial, AdminDeleteStarted, AdminDeleteCompleted, Tick,
              Crash, OrcidWithdraws, vars, authorityVars
<1> QED
  BY <1>1, <1>2 DEF Next

(* So a step after which none is spent is one without failure.             *)
LEMMA NoFault ==
    ASSUME TypeOK, faults' = 0
    PROVE  ~SpendFault
BY AuthorityAssumption DEF TypeOK, AuthorityTypeOK, SpendFault

(* What is believed to be a user's token is the user's, and was granted.   *)
LEMMA BelievedOwned ==
    ASSUME TypeOK, OwnInv, TokensGranted, NEW u, NEW a, Believed(u, a)
    PROVE  a \in ORCIDAuth /\ a.by = u /\ a.token <= minted
<1>1. CASE \E l \in LinksOf(u) : a = l.orcid_auth
  BY <1>1 DEF LinksOf, TypeOK, StorageTypeOK, LinkRecord, OwnInv, TokensOwnedByHolder,
              TokensGranted
<1>2. ASSUME NEW w \in Workers, Calling(task[w], u), a = task[w].link.orcid_auth
      PROVE  a \in ORCIDAuth /\ a.by = u /\ a.token <= minted
  <2>1. task[w] \in Continuation /\ OwnsTokens(task[w]) /\ HoldsGranted(task[w], minted)
    BY DEF TypeOK, OwnInv, TasksOwnTokens, TokensGranted
  <2> QED
    BY <1>2, <2>1, Locals DEF Calling, OwnsTokens, HoldsGranted, LinkRecord
<1> QED
  BY <1>1, <1>2 DEF Believed

(* A request that is to renew a link has just read it.                     *)
LEMMA RenewalAsked ==
    ASSUME TypeOK, Renewals, NEW w \in Workers, NEW u \in Users,
           UseLink(w, u) \/ RefreshTokens(w, u)
    PROVE  Renewals'
<1>1. PICK l \in LinksOf(u) :
        /\ task[w] = Idle
        /\ \E r \in {l, [l EXCEPT !.retires_at = now + RetirementAge]} :
              Goto(w, [pc |-> "refresh_call", link |-> r])
  BY DEF UseLink, RefreshTokens, Accept
<1>2. PICK r \in {l, [l EXCEPT !.retires_at = now + RetirementAge]} :
        Goto(w, [pc |-> "refresh_call", link |-> r])
  BY <1>1
<1>3. r.username = u /\ r.orcid_auth = l.orcid_auth
  BY DEF LinksOf, TypeOK, StorageTypeOK, LinkRecord
<1>4. Believed(u, r.orcid_auth) /\ LinksOf(u) # {}
  BY <1>3 DEF Believed
<1> DEFINE k == [pc |-> "refresh_call", link |-> r]
<1>5. /\ Goto(w, k) /\ ~OnLinks(k)
      /\ \A x \in Users : Calling(k, x) => LinksOf(x) # {} /\ Believed(x, k.link.orcid_auth)
  BY <1>2, <1>3, <1>4 DEF OnLinks, Calling
<1>6. ~OnLinks(task[w]) /\ links' = links /\ live' = live
  BY <1>1 DEF OnLinks, Idle, UseLink, RefreshTokens, storageVars, authorityVars
<1> HIDE DEF k
<1> QED
  BY <1>5, <1>6, BesideLinks

(* ORCID rotates the one token that both the link and the request hold.    *)
LEMMA RenewalCalled ==
    ASSUME TypeOK, OwnInv, TokensGranted, Renewals, NEW w \in Workers, RefreshCall(w),
           faults' = 0
    PROVE  Renewals'
<1> USE DEF At
<1> DEFINE r == task[w].link
           u == r.username
           old == r.orcid_auth
           new == RefreshedLink(r).orcid_auth
<1>0. task[w].pc = "refresh_call" /\ r \in LinkRecord /\ old.by = u
  BY Locals DEF RefreshCall, TypeOK, OwnInv, TasksOwnTokens, OwnsTokens
<1>1. CASE Answer(w) /\ links' = links /\ live' = live
  <2>1. Goto(w, Idle) /\ ~OnLinks(Idle) /\ ~OnLinks(task[w]) /\ \A x : ~Calling(Idle, x)
    BY <1>0, <1>1 DEF Answer, OnLinks, Calling, Idle
  <2> QED
    BY <1>1, <2>1, BesideLinks
<1>2. CASE /\ old \in live /\ Grants(new, {old})
           /\ Goto(w, [pc |-> "refresh_save", link |-> RefreshedLink(r)])
           /\ links' = links
  <2>1. /\ new.token = minted + 1 /\ new.by = u /\ minted \in Nat
        /\ RefreshedLink(r).username = u
    BY <1>0, GrantsGrow DEF RefreshedLink, NewAuth, LinkRecord
  <2>2. live' = (live \ {old}) \cup {new}
    BY <1>2 DEF Grants
  <2>3. /\ \A v \in Workers \ {w} : task'[v] = task[v]
        /\ task'[w] = [pc |-> "refresh_save", link |-> RefreshedLink(r)]
    BY <1>2 DEF Goto, TypeOK
  <2>4. \A x, a : Believed(x, a)' => Believed(x, a) /\ a # new
    <3>1. \A x, a : Believed(x, a)' => Believed(x, a)
      BY <1>2, <2>3 DEF Believed, LinksOf, Calling
    <3>2. \A x, a : Believed(x, a) => a \in ORCIDAuth /\ a.token <= minted
      BY BelievedOwned
    <3>3. \A a \in ORCIDAuth : a.token <= minted => a # new
      BY <2>1 DEF ORCIDAuth
    <3> QED
      BY <3>1, <3>2, <3>3
  <2>5. Believed(u, old) /\ u \in Users
    BY <1>0 DEF Believed, Calling, LinkRecord
  <2>6. \A v \in Workers : \A x \in Users : Saving(task[v], x) => x # u /\ v # w
    BY <1>0, <1>2, <2>5 DEF Renewals, SavesWhatWorks, Saving
  <2>7. \A v \in Workers : \A x \in Users :
            Saving(task[v], x) => task[v].link.orcid_auth # old
    BY <1>0, <2>6 DEF OwnInv, TasksOwnTokens, OwnsTokens, Saving
  <2>8. \A v \in Workers : \A x \in Users :
            Saving(task'[v], x) => \/ v = w /\ x = u
                                   \/ v # w /\ x # u /\ Saving(task[v], x)
    <3>1. \A x : Saving(task'[w], x) => x = u
      BY <2>1, <2>3 DEF Saving
    <3>2. \A v \in Workers \ {w} : \A x \in Users : Saving(task'[v], x) => Saving(task[v], x)
      BY <2>3 DEF Saving
    <3> QED
      <4> SUFFICES ASSUME NEW v \in Workers, NEW x \in Users, Saving(task'[v], x)
                   PROVE  \/ v = w /\ x = u
                          \/ v # w /\ x # u /\ Saving(task[v], x)
        OBVIOUS
      <4> QED
        BY <2>6, <3>1, <3>2
  <2>9. LinkUsable'
    <3> SUFFICES ASSUME NEW l \in links
                 PROVE  \/ l.orcid_auth \in live'
                        \/ \E v \in Workers :
                            \/ /\ task'[v].pc = "refresh_save"
                               /\ task'[v].link.username = l.username
                               /\ task'[v].link.orcid_auth \in live'
                            \/ /\ task'[v].pc = "unlink_delete"
                               /\ task'[v].username = l.username
      BY <1>2 DEF LinkUsable
    <3>1. CASE l.username = u
      BY <2>1, <2>2, <2>3, <3>1
    <3>2. CASE l.username # u
      <4>1. l.orcid_auth # old /\ l.username \in Users
        BY <1>0, <3>2 DEF OwnInv, TokensOwnedByHolder, TypeOK, StorageTypeOK, LinkRecord
      <4>2. \A v \in Workers : task[v].pc = "refresh_save" /\ task[v].link.username = l.username
                => task[v].link.orcid_auth # old /\ task'[v] = task[v]
        BY <1>0, <2>3, <2>7, <4>1 DEF Saving
      <4>3. \A v \in Workers : task[v].pc = "unlink_delete" => task'[v] = task[v]
        BY <1>0, <2>3
      <4> QED
        BY <2>2, <4>1, <4>2, <4>3 DEF Renewals, LinkUsable
    <3> QED
      BY <3>1, <3>2
  <2>10. OneBelievedWorks'
    BY <2>2, <2>4 DEF Renewals, OneBelievedWorks
  <2>11. SavesWhatWorks'
    <3> SUFFICES ASSUME NEW v \in Workers, NEW x \in Users, Saving(task'[v], x)
                 PROVE  /\ task'[v].link.orcid_auth \in live'
                        /\ \A a \in live' : ~Believed(x, a)'
                        /\ \A y \in Workers : Saving(task'[y], x) => y = v
      BY DEF SavesWhatWorks
    <3>1. \A y \in Workers : Saving(task'[y], x) => y = v
      BY <2>8 DEF Renewals, SavesWhatWorks
    <3>2. CASE v = w /\ x = u
      <4>1. \A a \in live : Believed(u, a) => a = old
        BY <1>2, <2>5 DEF Renewals, OneBelievedWorks
      <4> QED
        BY <2>2, <2>3, <2>4, <3>1, <3>2, <4>1
    <3>3. CASE v # w /\ x # u /\ Saving(task[v], x)
      BY <2>2, <2>3, <2>4, <2>7, <3>1, <3>3 DEF Renewals, SavesWhatWorks
    <3> QED
      BY <2>8, <3>2, <3>3
  <2>12. RevokesRead'
    <3>1. \A v \in Workers : task[v].pc = "unlink_revoke" =>
              task[v].orcid_auth \in ORCIDAuth /\ task[v].orcid_auth.token <= minted
      BY Locals DEF TypeOK, TokensGranted, HoldsGranted
    <3>2. \A a \in ORCIDAuth : a.token <= minted => a # new
      BY <2>1 DEF ORCIDAuth
    <3> QED
      BY <2>3, <3>1, <3>2 DEF Renewals, RevokesRead
  <2>13. RenewedLinkStays'
    <3>1. "finish" \in Endpoints => LinksOf(u) # {}
      BY <1>0, <2>5 DEF Renewals, RenewedLinkStays, Calling
    <3> QED
      BY <1>2, <2>1, <2>3, <3>1 DEF Renewals, RenewedLinkStays, LinksOf, Calling, Saving
  <2> QED
    BY <2>9, <2>10, <2>11, <2>12, <2>13 DEF Renewals
<1> QED
  BY <1>1, <1>2, NoFault DEF RefreshCall, Refuses, storageVars, authorityVars

(* The save makes the link's token the one that works.                     *)
LEMMA RenewalSaved ==
    ASSUME TypeOK, Renewals, NEW w \in Workers, RefreshSave(w)
    PROVE  Renewals'
<1> USE DEF At
<1> DEFINE r == task[w].link
           u == r.username
<1>0. /\ task[w].pc = "refresh_save" /\ r \in LinkRecord /\ u \in Users
      /\ links' = {IF l.username = u THEN r ELSE l : l \in links} /\ live' = live
  BY Locals DEF RefreshSave, SaveLinkRecord, TypeOK, LinkRecord, authorityVars
<1>1. /\ \A v \in Workers \ {w} : task'[v] = task[v]
      /\ task'[w] = Idle
  BY DEF RefreshSave, Answer, Goto, TypeOK
<1>2. /\ r.orcid_auth \in live
      /\ \A a \in live : ~Believed(u, a)
      /\ \A v \in Workers : Saving(task[v], u) => v = w
  BY <1>0 DEF Renewals, SavesWhatWorks, Saving
<1>3. \A l \in links' : l = r \/ (l \in links /\ l.username # u)
  <2> SUFFICES ASSUME NEW m \in links' PROVE m = r \/ (m \in links /\ m.username # u)
    OBVIOUS
  <2>1. PICK l \in links : m = IF l.username = u THEN r ELSE l
    BY <1>0
  <2> QED
    BY <2>1
<1>4. \A x \in Users : \A a : Believed(x, a)' => Believed(x, a) \/ (x = u /\ a = r.orcid_auth)
  <2> SUFFICES ASSUME NEW x \in Users, NEW a, Believed(x, a)'
               PROVE  Believed(x, a) \/ (x = u /\ a = r.orcid_auth)
    OBVIOUS
  <2>1. CASE \E l \in links' : l.username = x /\ a = l.orcid_auth
    BY <1>3, <2>1 DEF Believed, LinksOf
  <2>2. CASE \E v \in Workers : Calling(task'[v], x) /\ a = task'[v].link.orcid_auth
    BY <1>1, <2>2 DEF Believed, Calling, Idle
  <2> QED
    BY <2>1, <2>2 DEF Believed, LinksOf
<1>5. \A v \in Workers, x \in Users :
        Saving(task'[v], x) => x # u /\ v # w /\ Saving(task[v], x) /\ task'[v] = task[v]
  BY <1>1, <1>2 DEF Saving, Idle
<1>6. LinkUsable'
  <2> SUFFICES ASSUME NEW l \in links', l # r
               PROVE  \/ l.orcid_auth \in live
                      \/ \E v \in Workers :
                          \/ /\ task'[v].pc = "refresh_save"
                             /\ task'[v].link.username = l.username
                             /\ task'[v].link.orcid_auth \in live
                          \/ /\ task'[v].pc = "unlink_delete"
                             /\ task'[v].username = l.username
    BY <1>0, <1>2 DEF LinkUsable
  <2>1. l \in links /\ l.username # u
    BY <1>3
  <2> QED
    BY <1>0, <1>1, <2>1 DEF Renewals, LinkUsable
<1>7. OneBelievedWorks'
  BY <1>0, <1>2, <1>4 DEF Renewals, OneBelievedWorks
<1>8. SavesWhatWorks'
  BY <1>0, <1>4, <1>5 DEF Renewals, SavesWhatWorks
<1>9. RevokesRead'
  BY <1>1 DEF Renewals, RevokesRead, Idle
<1>10. RenewedLinkStays'
  <2>1. \A x : LinksOf(x) # {} => LinksOf(x)' # {}
    <3> SUFFICES ASSUME NEW x, NEW l \in links, l.username = x
                 PROVE  \E m \in links' : m.username = x
      BY DEF LinksOf
    <3>1. CASE x = u
      BY <1>0, <3>1
    <3>2. CASE x # u
      BY <1>0, <3>2
    <3> QED
      BY <3>1, <3>2
  <2> QED
    BY <1>1, <2>1 DEF Renewals, RenewedLinkStays, Calling, Saving, Idle
<1> QED
  BY <1>6, <1>7, <1>8, <1>9, <1>10 DEF Renewals

(* Who removes a link revokes the tokens in it, not those of a renewal.    *)
LEMMA RemovalAsked ==
    ASSUME TypeOK, OwnInv, Renewals, NEW w \in Workers, NEW u \in Users, Unlink(w, u)
    PROVE  Renewals'
<1> USE DEF At
<1>0. links' = links /\ live' = live /\ task[w] = Idle
  BY DEF Unlink, Accept, storageVars, authorityVars
<1>1. PICK l \in LinksOf(u) :
        Goto(w, [pc |-> "unlink_revoke", username |-> u, orcid_auth |-> l.orcid_auth])
  BY DEF Unlink, Accept
<1>2. /\ \A v \in Workers \ {w} : task'[v] = task[v]
      /\ task'[w] = [pc |-> "unlink_revoke", username |-> u, orcid_auth |-> l.orcid_auth]
  BY <1>1 DEF Goto, TypeOK
<1>3. l \in links /\ l.username = u /\ l.orcid_auth.by = u /\ Believed(u, l.orcid_auth)
  BY DEF LinksOf, Believed, OwnInv, TokensOwnedByHolder
<1>4. \A x, a : Believed(x, a)' => Believed(x, a)
  BY <1>0, <1>2 DEF Believed, LinksOf, Calling
<1>5. \A v \in Workers : \A x : Saving(task'[v], x) => Saving(task[v], x) /\ task'[v] = task[v]
  BY <1>2 DEF Saving
<1>6. \A v \in Workers : task[v].pc = "refresh_save" => task[v].link.orcid_auth # l.orcid_auth
  <2> SUFFICES ASSUME NEW v \in Workers, task[v].pc = "refresh_save",
                      task[v].link.orcid_auth = l.orcid_auth
               PROVE  FALSE
    OBVIOUS
  <2>1. task[v].link.username = u
    BY <1>3 DEF OwnInv, TasksOwnTokens, OwnsTokens
  <2> QED
    BY <1>3, <2>1 DEF Renewals, SavesWhatWorks, Saving
<1>7. LinkUsable'
  BY <1>0, <1>2 DEF Renewals, LinkUsable, Idle
<1>8. OneBelievedWorks'
  BY <1>0, <1>4 DEF Renewals, OneBelievedWorks
<1>9. SavesWhatWorks'
  BY <1>0, <1>4, <1>5 DEF Renewals, SavesWhatWorks
<1>10. RevokesRead'
  BY <1>2, <1>3, <1>6 DEF Renewals, RevokesRead
<1>11. RenewedLinkStays'
  BY <1>0, <1>2 DEF Renewals, RenewedLinkStays, LinksOf, Calling, Saving
<1> QED
  BY <1>7, <1>8, <1>9, <1>10, <1>11 DEF Renewals

(* The link whose token it revoked is the link it is about to delete.      *)
LEMMA RemovalRevoked ==
    ASSUME TypeOK, OwnInv, Renewals, NEW w \in Workers, UnlinkRevoke(w), faults' = 0
    PROVE  Renewals'
<1> USE DEF At
<1> DEFINE u == task[w].username
           auth == task[w].orcid_auth
<1>0. /\ task[w].pc = "unlink_revoke" /\ auth.by = u
      /\ links' = links /\ live' = live \ {auth}
      /\ Goto(w, [pc |-> "unlink_delete", username |-> u])
  BY NoFault DEF UnlinkRevoke, RevokeAnswered, RevokeRaises, RevocationSilentlyFails, Revokes,
                 storageVars, Renewals, RevokesRead
<1>1. /\ \A v \in Workers \ {w} : task'[v] = task[v]
      /\ task'[w] = [pc |-> "unlink_delete", username |-> u]
  BY <1>0 DEF Goto, TypeOK
<1>2. \A x, a : Believed(x, a)' => Believed(x, a)
  BY <1>0, <1>1 DEF Believed, LinksOf, Calling
<1>3. \A v \in Workers : task[v].pc = "refresh_save" =>
            task[v].link.orcid_auth # auth /\ task'[v] = task[v]
  BY <1>0, <1>1 DEF Renewals, RevokesRead
<1>4. \A v \in Workers : \A x : Saving(task'[v], x) => Saving(task[v], x) /\ task'[v] = task[v]
  BY <1>1 DEF Saving
<1>5. LinkUsable'
  <2> SUFFICES ASSUME NEW l \in links
               PROVE  \/ l.orcid_auth \in live'
                      \/ \E v \in Workers :
                          \/ /\ task'[v].pc = "refresh_save"
                             /\ task'[v].link.username = l.username
                             /\ task'[v].link.orcid_auth \in live'
                          \/ /\ task'[v].pc = "unlink_delete"
                             /\ task'[v].username = l.username
    BY <1>0 DEF LinkUsable
  <2>1. CASE l.username = u
    BY <1>1, <2>1
  <2>2. CASE l.username # u
    <3>1. l.orcid_auth # auth
      BY <1>0, <2>2 DEF OwnInv, TokensOwnedByHolder
    <3>2. \A v \in Workers : task[v].pc = "unlink_delete" => task'[v] = task[v]
      BY <1>0, <1>1
    <3> QED
      BY <1>0, <1>3, <3>1, <3>2 DEF Renewals, LinkUsable
  <2> QED
    BY <2>1, <2>2
<1>6. OneBelievedWorks'
  BY <1>0, <1>2 DEF Renewals, OneBelievedWorks
<1>7. SavesWhatWorks'
  BY <1>0, <1>2, <1>3, <1>4 DEF Renewals, SavesWhatWorks, Saving
<1>8. RevokesRead'
  BY <1>1 DEF Renewals, RevokesRead
<1>9. RenewedLinkStays'
  BY <1>0, <1>1 DEF Renewals, RenewedLinkStays, LinksOf, Calling, Saving
<1> QED
  BY <1>5, <1>6, <1>7, <1>8, <1>9 DEF Renewals

(* A removal deletes the link of its own user; renewals then save nothing. *)
LEMMA RemovalDone ==
    ASSUME TypeOK, TasksBelong, Undisturbed, Renewals, NEW w \in Workers, UnlinkDelete(w)
    PROVE  Renewals'
<1> USE DEF At
<1> DEFINE u == task[w].username
<1>0. /\ task[w].pc = "unlink_delete"
      /\ links' = {l \in links : l.username # u} /\ live' = live
  BY DEF UnlinkDelete, DeleteLinkRecord, authorityVars
<1>1. /\ \A v \in Workers \ {w} : task'[v] = task[v]
      /\ task'[w] = Idle
  BY DEF UnlinkDelete, Answer, Goto, TypeOK
<1>2. \A x, a : Believed(x, a)' => Believed(x, a)
  BY <1>0, <1>1 DEF Believed, LinksOf, Calling, Idle
<1>3. \A v \in Workers : \A x : Saving(task'[v], x) => Saving(task[v], x) /\ task'[v] = task[v]
  BY <1>1 DEF Saving, Idle
<1>4. LinkUsable'
  BY <1>0, <1>1 DEF Renewals, LinkUsable
<1>5. OneBelievedWorks'
  BY <1>0, <1>2 DEF Renewals, OneBelievedWorks
<1>6. SavesWhatWorks'
  BY <1>0, <1>2, <1>3 DEF Renewals, SavesWhatWorks
<1>7. RevokesRead'
  BY <1>1 DEF Renewals, RevokesRead, Idle
<1>8. RenewedLinkStays'
  BY <1>0 DEF TasksBelong, Belongs, Undisturbed, RenewedLinkStays
<1> QED
  BY <1>4, <1>5, <1>6, <1>7, <1>8 DEF Renewals

(* A link that is registered holds a token that works, and nobody had read *)
(* an earlier one of the user.                                             *)
LEMMA RegistrationDone ==
    ASSUME TypeOK, OwnInv, TasksBelong, Renewals, Registrations, NEW w \in Workers,
           FinishInsert(w)
    PROVE  Renewals'
<1> USE DEF At
<1> DEFINE r == task[w].link
           u == r.username
<1>0. /\ task[w].pc = "finish_insert" /\ r \in LinkRecord /\ u \in Users
      /\ r.orcid_auth.by = u /\ "finish" \in Endpoints /\ live' = live
  BY Locals
     DEF FinishInsert, TypeOK, OwnInv, TasksOwnTokens, OwnsTokens, TasksBelong, Belongs,
         LinkRecord, authorityVars
<1>1. CASE ~CanCreateLink(r)
  <2>1. Answer(w) /\ links' = links
    BY <1>1 DEF FinishInsert
  <2>2. Goto(w, Idle) /\ ~OnLinks(Idle) /\ ~OnLinks(task[w]) /\ \A x : ~Calling(Idle, x)
    BY <1>0, <2>1 DEF Answer, OnLinks, Calling, Idle
  <2> QED
    BY <1>0, <2>1, <2>2, BesideLinks
<1>2. CASE CanCreateLink(r)
  <2>0. /\ LinksOf(u) = {} /\ links' = links \cup {r}
        /\ Goto(w, [pc |-> "finish_delete", session_id |-> task[w].session_id])
    BY <1>2 DEF FinishInsert, CanCreateLink, CreateLinkRecord
  <2>1. /\ \A v \in Workers \ {w} : task'[v] = task[v]
        /\ task'[w] = [pc |-> "finish_delete", session_id |-> task[w].session_id]
    BY <2>0 DEF Goto, TypeOK
  <2>2. r.orcid_auth \in live
    BY <1>0, <2>0 DEF Registrations, UnspoiltInHand, Unspoilt
  <2>3. \A v \in Workers : ~Calling(task[v], u) /\ ~Saving(task[v], u)
    BY <1>0, <2>0 DEF Renewals, RenewedLinkStays
  <2>4. \A x \in Users : \A a :
            Believed(x, a)' => \/ x # u /\ Believed(x, a)
                               \/ x = u /\ a = r.orcid_auth
    <3> SUFFICES ASSUME NEW x \in Users, NEW a, Believed(x, a)'
                 PROVE  \/ x # u /\ Believed(x, a)
                        \/ x = u /\ a = r.orcid_auth
      OBVIOUS
    <3>1. CASE \E l \in links' : l.username = x /\ a = l.orcid_auth
      BY <2>0, <3>1 DEF Believed, LinksOf
    <3>2. CASE \E v \in Workers : Calling(task'[v], x) /\ a = task'[v].link.orcid_auth
      BY <2>1, <2>3, <3>2 DEF Believed, Calling
    <3> QED
      BY <3>1, <3>2 DEF Believed, LinksOf
  <2>5. \A v \in Workers, x \in Users :
            Saving(task'[v], x) => x # u /\ Saving(task[v], x) /\ task'[v] = task[v]
    BY <2>1, <2>3 DEF Saving
  <2>6. LinkUsable'
    BY <1>0, <2>0, <2>1, <2>2 DEF Renewals, LinkUsable
  <2>7. OneBelievedWorks'
    BY <1>0, <2>4 DEF Renewals, OneBelievedWorks
  <2>8. SavesWhatWorks'
    BY <1>0, <2>4, <2>5 DEF Renewals, SavesWhatWorks
  <2>9. RevokesRead'
    BY <2>1 DEF Renewals, RevokesRead
  <2>10. RenewedLinkStays'
    BY <2>0, <2>1 DEF Renewals, RenewedLinkStays, LinksOf, Calling, Saving
  <2> QED
    BY <2>6, <2>7, <2>8, <2>9, <2>10 DEF Renewals
<1> QED
  BY <1>1, <1>2
-----------------------------------------------------------------------------
(* The same for the registrations under way: a token that was granted for  *)
(* one works until it is in the user's link.                               *)

(* Nothing revokes it, and the user is not without a link again.           *)
Spares == \A a : Unspoilt(a) => Unspoilt(a)'

(* What goes for every other coroutine goes for all, if for the new one.   *)
LEMMA GotoUnspoilt ==
    ASSUME TypeOK, Registrations, Spares, NEW w \in Workers, NEW k, Goto(w, k),
           "finish" \in Endpoints => UnspoiltInHand(k)',
           "finish" \in Endpoints =>
                \A c \in completed' \ completed : Unspoilt(c.orcid_auth)'
    PROVE  Registrations'
<1> SUFFICES ASSUME "finish" \in Endpoints
             PROVE  /\ \A c \in completed' : Unspoilt(c.orcid_auth)'
                    /\ \A v \in Workers : UnspoiltInHand(task[v])'
  BY DEF Registrations
<1>1. \A v \in Workers : task'[v] = IF v = w THEN k ELSE task[v]
  BY DEF Goto, TypeOK
<1>2. \A c \in completed' : Unspoilt(c.orcid_auth)'
  BY DEF Registrations, Spares
<1>3. ASSUME NEW v \in Workers PROVE UnspoiltInHand(task[v])'
  <2>1. CASE v = w
    BY <1>1, <2>1 DEF UnspoiltInHand, Unspoilt
  <2>2. CASE v # w
    <3>1. task'[v] = task[v] /\ UnspoiltInHand(task[v])
      BY <1>1, <2>2 DEF Registrations
    <3> QED
      BY <3>1 DEF UnspoiltInHand, Spares, Unspoilt
  <2> QED
    BY <2>1, <2>2
<1> QED
  BY <1>2, <1>3

(* The flow grants, copies and forgets, but does not revoke.               *)
LEMMA LinkingUnspoilt ==
    ASSUME TypeOK, TasksBelong, Undisturbed, Registrations, NEW w \in Workers,
           LinkingRequest(w) \/ LinkingStep(w)
    PROVE  Registrations'
<1> USE DEF At
<1> DEFINE k == task[w]
<1>0. k \in Continuation /\ Belongs(k) /\ ("finish" \in Endpoints => UnspoiltInHand(k))
  BY DEF TypeOK, TasksBelong, Registrations
<1>1. (\A l \in links : l \in links') /\ live \subseteq live' => Spares
  BY DEF Spares, Unspoilt, LinksOf
<1>2. CASE LinkingRequest(w)
  <2>1. links' = links /\ completed' = completed /\ live' = live
    BY <1>2 DEF LinkingRequest, Create, Start, Continue, Finish, Cancel, storageVars,
                authorityVars
  <2>2. \/ \E d : Goto(w, [pc |-> "create_insert", session |-> d])
        \/ \E s : Goto(w, [pc |-> "start_find", session_id |-> s])
        \/ \E d, u : Goto(w, [pc |-> "continue_exchange", session |-> d, username |-> u])
        \/ \E c : Goto(w, [pc |-> "cancel_delete", doc |-> c])
        \/ \E c \in completed : \E s :
               Goto(w, [pc |-> "finish_insert", link |-> NewLink(c), session_id |-> s])
    BY <1>2 DEF LinkingRequest, Create, Start, Continue, Finish, Cancel, Accept,
                CompletedSessions
  <2>3. ASSUME NEW j, Goto(w, j), UnspoiltInHand(j)' PROVE Registrations'
    BY <1>1, <2>1, <2>3, GotoUnspoilt
  <2>4. ASSUME NEW c \in completed, NEW s,
               Goto(w, [pc |-> "finish_insert", link |-> NewLink(c), session_id |-> s])
        PROVE  Registrations'
    <3>1. PICK l : l = NewLink(c)
      OBVIOUS
    <3> DEFINE j == [pc |-> "finish_insert", link |-> l, session_id |-> s]
    <3>2. "finish" \in Endpoints => Unspoilt(l.orcid_auth)
      BY <3>1 DEF Registrations, NewLink
    <3>3. "finish" \in Endpoints => UnspoiltInHand(j)'
      BY <2>1, <3>2 DEF UnspoiltInHand, Unspoilt, LinksOf
    <3>4. Goto(w, j)
      BY <2>4, <3>1
    <3> HIDE DEF j
    <3> QED
      BY <1>1, <2>1, <3>3, <3>4, GotoUnspoilt
  <2>5. /\ \A d : UnspoiltInHand([pc |-> "create_insert", session |-> d])'
        /\ \A s : UnspoiltInHand([pc |-> "start_find", session_id |-> s])'
        /\ \A d, u : UnspoiltInHand([pc |-> "continue_exchange", session |-> d,
                                     username |-> u])'
        /\ \A c : UnspoiltInHand([pc |-> "cancel_delete", doc |-> c])'
    BY DEF UnspoiltInHand
  <2> QED
    BY <2>2, <2>3, <2>4, <2>5
<1>3. CASE ContinueExchange(w)
  <2>1. links' = links /\ completed' = completed /\ live \subseteq live'
    BY <1>3 DEF ContinueExchange, Grants, Refuses, storageVars
  <2>2. CASE Answer(w)
    <3>1. UnspoiltInHand(Idle)'
      BY DEF UnspoiltInHand, Idle
    <3> QED
      BY <1>1, <2>1, <2>2, <3>1, GotoUnspoilt DEF Answer
  <2>3. ASSUME NEW o \in Orcids, Grants(NewAuth(o, k.username), {}),
               Goto(w, [pc |-> "continue_check", session |-> k.session,
                        orcid_auth |-> NewAuth(o, k.username)])
        PROVE  Registrations'
    <3>0. PICK a, d : a = NewAuth(o, k.username) /\ d = k.session
      OBVIOUS
    <3> DEFINE j == [pc |-> "continue_check", session |-> d, orcid_auth |-> a]
    <3>1. a \in live'
      BY <2>3, <3>0 DEF Grants
    <3>2. UnspoiltInHand(j)'
      BY <3>1 DEF UnspoiltInHand, Unspoilt
    <3>3. Goto(w, j)
      BY <2>3, <3>0
    <3> HIDE DEF j
    <3> QED
      BY <1>1, <2>1, <3>2, <3>3, GotoUnspoilt
  <2> QED
    BY <1>3, <2>2, <2>3 DEF ContinueExchange
<1>4. CASE ContinueCheck(w)
  <2>1. links' = links /\ completed' = completed /\ live' = live
    BY <1>4 DEF ContinueCheck, storageVars, authorityVars
  <2>2. \/ \E s : Goto(w, [pc |-> "continue_reject", session_id |-> s])
        \/ Goto(w, [k EXCEPT !.pc = "continue_find"])
    BY <1>4 DEF ContinueCheck
  <2>3. ASSUME NEW s, Goto(w, [pc |-> "continue_reject", session_id |-> s])
        PROVE  Registrations'
    <3>1. UnspoiltInHand([pc |-> "continue_reject", session_id |-> s])'
      BY DEF UnspoiltInHand
    <3> QED
      BY <1>1, <2>1, <2>3, <3>1, GotoUnspoilt
  <2>4. CASE Goto(w, [k EXCEPT !.pc = "continue_find"])
    <3> DEFINE j == [k EXCEPT !.pc = "continue_find"]
    <3>1. j.pc = "continue_find" /\ j.orcid_auth = k.orcid_auth
      BY <1>0, <1>4 DEF ContinueCheck, Continuation, Idle
    <3>2. "finish" \in Endpoints => Unspoilt(j.orcid_auth)
      BY <1>0, <1>4, <3>1 DEF ContinueCheck, UnspoiltInHand
    <3>3. Goto(w, j)
      BY <2>4
    <3> HIDE DEF j
    <3>4. PICK i : i = j
      OBVIOUS
    <3>5. "finish" \in Endpoints => UnspoiltInHand(i)'
      BY <2>1, <3>1, <3>2, <3>4 DEF UnspoiltInHand, Unspoilt, LinksOf
    <3> QED
      BY <1>1, <2>1, <3>3, <3>4, <3>5, GotoUnspoilt
  <2> QED
    BY <2>2, <2>3, <2>4
<1>5. CASE ContinueFind(w) /\ ~Answer(w)
  <2>1. links' = links /\ completed' = completed /\ live' = live
    BY <1>5 DEF ContinueFind, storageVars, authorityVars
  <2>2. PICK d \in started :
          Goto(w, [pc |-> "continue_insert",
                   doc |-> [session |-> d, orcid_auth |-> k.orcid_auth]])
    BY <1>5 DEF ContinueFind, Sessions
  <2>3. PICK a : a = k.orcid_auth
    OBVIOUS
  <2> DEFINE j == [pc |-> "continue_insert", doc |-> [session |-> d, orcid_auth |-> a]]
  <2>4. "finish" \in Endpoints => Unspoilt(a)
    BY <1>0, <1>5, <2>3 DEF ContinueFind, UnspoiltInHand
  <2>5. "finish" \in Endpoints => UnspoiltInHand(j)'
    BY <2>1, <2>4 DEF UnspoiltInHand, Unspoilt, LinksOf
  <2>6. Goto(w, j)
    BY <2>2, <2>3
  <2> HIDE DEF j
  <2> QED
    BY <1>1, <2>1, <2>5, <2>6, GotoUnspoilt
<1>6. CASE ContinueInsert(w)
  <2>1. /\ links' = links /\ live' = live
        /\ \A c \in completed' \ completed : c = k.doc /\ k.pc = "continue_insert"
    BY <1>6 DEF ContinueInsert, InsertCompleted, authorityVars
  <2>2. "finish" \in Endpoints => \A c \in completed' \ completed : Unspoilt(c.orcid_auth)'
    BY <1>0, <2>1 DEF UnspoiltInHand, Unspoilt, LinksOf
  <2>3. \/ \E s : Goto(w, [pc |-> "continue_delete", session_id |-> s])
        \/ Goto(w, Idle)
    BY <1>6 DEF ContinueInsert, Answer
  <2>4. /\ UnspoiltInHand(Idle)'
        /\ \A s : UnspoiltInHand([pc |-> "continue_delete", session_id |-> s])'
    BY DEF UnspoiltInHand, Idle
  <2> QED
    BY <1>1, <2>1, <2>2, <2>3, <2>4, GotoUnspoilt
<1>7. CASE FinishInsert(w)
  <2>1. links \subseteq links' /\ completed' = completed /\ live' = live
    BY <1>7 DEF FinishInsert, CreateLinkRecord, authorityVars
  <2>2. \/ \E s : Goto(w, [pc |-> "finish_delete", session_id |-> s])
        \/ Goto(w, Idle)
    BY <1>7 DEF FinishInsert, Answer
  <2>3. /\ UnspoiltInHand(Idle)'
        /\ \A s : UnspoiltInHand([pc |-> "finish_delete", session_id |-> s])'
    BY DEF UnspoiltInHand, Idle
  <2> QED
    BY <1>1, <2>1, <2>2, <2>3, GotoUnspoilt
<1>8. CASE \/ CreateInsert(w) \/ StartFind(w) \/ StartInsert(w) \/ StartDelete(w)
           \/ ContinueReject(w) \/ (ContinueFind(w) /\ Answer(w)) \/ ContinueDelete(w)
           \/ FinishDelete(w)
  <2>1. links' = links /\ completed' \subseteq completed /\ live' = live
    BY <1>8 DEF CreateInsert, StartFind, StartInsert, StartDelete, RedirectToOrcid,
                ContinueReject, ContinueFind, ContinueDelete, FinishDelete, DeleteCompleted,
                storageVars, authorityVars
  <2>2. \/ \E d : Goto(w, [pc |-> "start_insert", session |-> d])
        \/ \E s : Goto(w, [pc |-> "start_delete", session_id |-> s])
        \/ Goto(w, Idle)
    BY <1>8 DEF CreateInsert, StartFind, StartInsert, StartDelete, RedirectToOrcid,
                ContinueReject, ContinueDelete, FinishDelete, Answer
  <2>3. /\ UnspoiltInHand(Idle)'
        /\ \A d : UnspoiltInHand([pc |-> "start_insert", session |-> d])'
        /\ \A s : UnspoiltInHand([pc |-> "start_delete", session_id |-> s])'
    BY DEF UnspoiltInHand, Idle
  <2> QED
    BY <1>1, <2>1, <2>2, <2>3, GotoUnspoilt
<1>9. CASE CancelDelete(w) \/ CancelRevoke(w)
  BY <1>0, <1>9 DEF CancelDelete, CancelRevoke, Belongs, Undisturbed
<1> QED
  BY <1>2, <1>3, <1>4, <1>5, <1>6, <1>7, <1>8, <1>9 DEF LinkingStep

(* A renewal revokes the token of a link, a registration has none yet.     *)
LEMMA OthersUnspoilt ==
    ASSUME TypeOK, OwnInv, TasksBelong, Undisturbed, Renewals, Registrations,
           NEW w \in Workers,
           LinkRequest(w) \/ LinkStep(w) \/ DeleteExpired(w) \/ ManagementStep(w)
    PROVE  Registrations'
<1> USE DEF At
<1> DEFINE k == task[w]
<1>0. k \in Continuation /\ Belongs(k) /\ OwnsTokens(k)
  BY DEF TypeOK, TasksBelong, OwnInv, TasksOwnTokens
<1> SUFFICES ASSUME "finish" \in Endpoints PROVE Registrations'
  BY DEF Registrations
<1>1. "unlink" \notin Endpoints /\ "delete_expired" \notin Endpoints
  BY DEF Undisturbed
<1>2. CASE LinkRequest(w)
  <2>1. links' = links /\ completed' = completed /\ live' = live
    BY <1>2 DEF LinkRequest, Unlink, UseLink, RefreshTokens, storageVars, authorityVars
  <2>2. \E l : Goto(w, [pc |-> "refresh_call", link |-> l])
    BY <1>1, <1>2 DEF LinkRequest, Unlink, UseLink, RefreshTokens, Accept
  <2>3. \A l : UnspoiltInHand([pc |-> "refresh_call", link |-> l])'
    BY DEF UnspoiltInHand
  <2>4. Spares
    BY <2>1 DEF Spares, Unspoilt, LinksOf
  <2> QED
    BY <2>1, <2>2, <2>3, <2>4, GotoUnspoilt
<1>3. CASE RefreshCall(w)
  <2> DEFINE old == k.link.orcid_auth
  <2>1. LinksOf(old.by) # {}
    <3>1. k.link \in LinkRecord /\ old.by = k.link.username /\ k.pc = "refresh_call"
      BY <1>0, <1>3, Locals DEF RefreshCall, OwnsTokens
    <3> QED
      BY <3>1 DEF Renewals, RenewedLinkStays, Calling, LinkRecord
  <2>2. links' = links /\ completed' = completed /\ live \ {old} \subseteq live'
    BY <1>3 DEF RefreshCall, Grants, Refuses, storageVars, authorityVars
  <2>3. Spares
    BY <2>1, <2>2 DEF Spares, Unspoilt, LinksOf
  <2>4. \E l : Goto(w, [pc |-> "refresh_save", link |-> l]) \/ Goto(w, Idle)
    BY <1>3 DEF RefreshCall, Answer
  <2>5. /\ UnspoiltInHand(Idle)'
        /\ \A l : UnspoiltInHand([pc |-> "refresh_save", link |-> l])'
    BY DEF UnspoiltInHand, Idle
  <2> QED
    BY <2>2, <2>3, <2>4, <2>5, GotoUnspoilt
<1>4. CASE RefreshSave(w)
  <2>1. /\ completed' = completed /\ live' = live /\ Goto(w, Idle)
        /\ links' = {IF l.username = k.link.username THEN k.link ELSE l : l \in links}
    BY <1>4 DEF RefreshSave, SaveLinkRecord, Answer, authorityVars
  <2>2. \A x : LinksOf(x)' = {} => LinksOf(x) = {}
    <3> SUFFICES ASSUME NEW x, NEW l \in links, l.username = x
                 PROVE  \E m \in links' : m.username = x
      BY DEF LinksOf
    <3>1. CASE x = k.link.username
      BY <2>1, <3>1
    <3>2. CASE x # k.link.username
      BY <2>1, <3>2
    <3> QED
      BY <3>1, <3>2
  <2>3. Spares
    BY <2>1, <2>2 DEF Spares, Unspoilt
  <2>4. UnspoiltInHand(Idle)'
    BY DEF UnspoiltInHand, Idle
  <2> QED
    BY <2>1, <2>3, <2>4, GotoUnspoilt
<1>5. CASE \/ UnlinkRevoke(w) \/ UnlinkDelete(w) \/ DeleteExpired(w) \/ ManagementStep(w)
  BY <1>0, <1>1, <1>5
     DEF UnlinkRevoke, UnlinkDelete, DeleteExpired, Accept, ManagementStep, CleanupList,
         CleanupRevoke, CleanupInitial, CleanupStarted, CleanupCompleted, Belongs
<1> QED
  BY <1>2, <1>3, <1>4, <1>5 DEF LinkStep

-----------------------------------------------------------------------------
(* All of it together.                                                     *)

LinksInv == OneLinkEach /\ TasksBelong /\ TokensGranted /\ LinksWork

(* A coroutine of the linking flow has no business with links.             *)
LEMMA AsideOfLinks ==
    LET Aside(k) == ~OnLinks(k) /\ \A u : ~Calling(k, u)
    IN  /\ Aside(Idle)
        /\ \A d : /\ Aside([pc |-> "create_insert", session |-> d])
                  /\ Aside([pc |-> "start_insert", session |-> d])
                  /\ \A u : Aside([pc |-> "continue_exchange", session |-> d, username |-> u])
                  /\ \A a : Aside([pc |-> "continue_check", session |-> d, orcid_auth |-> a])
        /\ \A s : /\ Aside([pc |-> "start_find", session_id |-> s])
                  /\ Aside([pc |-> "start_delete", session_id |-> s])
                  /\ Aside([pc |-> "continue_reject", session_id |-> s])
                  /\ Aside([pc |-> "continue_delete", session_id |-> s])
                  /\ \A l : Aside([pc |-> "finish_insert", link |-> l, session_id |-> s])
        /\ \A c : /\ Aside([pc |-> "continue_insert", doc |-> c])
                  /\ Aside([pc |-> "cancel_delete", doc |-> c])
BY DEF OnLinks, Calling, Idle

(* The linking flow registers, and grants, what works.                     *)
LEMMA LinkingRenewals ==
    ASSUME TypeOK, OwnInv, TasksBelong, TokensGranted, Undisturbed, Renewals, Registrations,
           NEW w \in Workers, LinkingRequest(w) \/ LinkingStep(w)
    PROVE  Renewals'
<1> USE DEF At
<1> DEFINE k == task[w]
<1>1. CASE FinishInsert(w)
  BY <1>1, RegistrationDone
<1>2. CASE CancelDelete(w) \/ CancelRevoke(w)
  BY <1>2 DEF CancelDelete, CancelRevoke, TasksBelong, Belongs, Undisturbed
<1>3. CASE \/ LinkingRequest(w)
           \/ (LinkingStep(w) /\ ~(FinishInsert(w) \/ CancelDelete(w) \/ CancelRevoke(w)))
  <2>1. links' = links /\ ~OnLinks(k)
    <3>1. CASE LinkingRequest(w)
      <4>1. links' = links /\ task[w] = Idle
        BY <3>1 DEF LinkingRequest, Create, Start, Continue, Finish, Cancel, Accept,
                    storageVars
      <4> QED
        BY <4>1, AsideOfLinks
    <3>2. CASE /\ LinkingStep(w)
               /\ ~(FinishInsert(w) \/ CancelDelete(w) \/ CancelRevoke(w))
      <4>1. links' = links
        BY <3>2
           DEF LinkingStep, CreateInsert, StartFind, StartInsert, StartDelete,
               ContinueExchange, ContinueCheck, ContinueReject, ContinueFind, ContinueInsert,
               ContinueDelete, FinishDelete, storageVars
      <4>2. k.pc \notin {"refresh_save", "unlink_revoke", "unlink_delete"}
        BY <3>2
           DEF LinkingStep, CreateInsert, StartFind, StartInsert, StartDelete,
               ContinueExchange, ContinueCheck, ContinueReject, ContinueFind, ContinueInsert,
               ContinueDelete, FinishInsert, FinishDelete, CancelDelete, CancelRevoke
      <4> QED
        BY <4>1, <4>2 DEF OnLinks
    <3> QED
      BY <1>3, <3>1, <3>2
  <2>2. \E j : Goto(w, j) /\ ~OnLinks(j) /\ \A u \in Users : ~Calling(j, u)
    <3>1. CASE ContinueCheck(w)
      <4>1. k \in Continuation /\ k.pc = "continue_check"
        BY <3>1 DEF TypeOK, ContinueCheck
      <4>2. [k EXCEPT !.pc = "continue_find"].pc = "continue_find"
        BY <4>1 DEF Continuation, Idle
      <4>3. ~OnLinks([k EXCEPT !.pc = "continue_find"])
            /\ \A u : ~Calling([k EXCEPT !.pc = "continue_find"], u)
        BY <4>2 DEF OnLinks, Calling
      <4> QED
        BY <3>1, <4>3, AsideOfLinks DEF ContinueCheck
    <3>2. CASE ~ContinueCheck(w)
      <4>1. \/ \E d : Goto(w, [pc |-> "create_insert", session |-> d])
            \/ \E s : Goto(w, [pc |-> "start_find", session_id |-> s])
            \/ \E d : Goto(w, [pc |-> "start_insert", session |-> d])
            \/ \E s : Goto(w, [pc |-> "start_delete", session_id |-> s])
            \/ \E d, u : Goto(w, [pc |-> "continue_exchange", session |-> d, username |-> u])
            \/ \E d, a : Goto(w, [pc |-> "continue_check", session |-> d, orcid_auth |-> a])
            \/ \E c : Goto(w, [pc |-> "continue_insert", doc |-> c])
            \/ \E s : Goto(w, [pc |-> "continue_delete", session_id |-> s])
            \/ \E l, s : Goto(w, [pc |-> "finish_insert", link |-> l, session_id |-> s])
            \/ \E c : Goto(w, [pc |-> "cancel_delete", doc |-> c])
            \/ Goto(w, Idle)
        BY <1>3, <3>2
           DEF LinkingRequest, Create, Start, Continue, Finish, Cancel, Accept, LinkingStep,
               CreateInsert, StartFind, StartInsert, StartDelete, RedirectToOrcid,
               ContinueExchange, ContinueReject, ContinueFind, ContinueInsert, ContinueDelete,
               FinishDelete, Answer
      <4> QED
        BY <4>1, AsideOfLinks
    <3> QED
      BY <3>1, <3>2
  <2>3. live \subseteq live' /\ \A a \in live' \ live : a.token = minted + 1
    <3>1. CASE ContinueExchange(w)
      BY <3>1, GrantsGrow DEF ContinueExchange, Grants, Refuses
    <3>2. CASE ~ContinueExchange(w)
      BY <1>3, <3>2
         DEF LinkingRequest, Create, Start, Continue, Finish, Cancel, LinkingStep,
             CreateInsert, StartFind, StartInsert, StartDelete, RedirectToOrcid, ContinueCheck,
             ContinueReject, ContinueFind, ContinueInsert, ContinueDelete, FinishDelete,
             authorityVars
    <3> QED
      BY <3>1, <3>2
  <2>4. \A u \in Users : \A a \in live' \ live : ~Believed(u, a)
    <3>1. \A u \in Users : \A a : Believed(u, a) => a.token <= minted
      BY BelievedOwned
    <3>2. minted \in Nat
      BY GrantsGrow
    <3> QED
      BY <2>3, <3>1, <3>2
  <2> QED
    BY <2>1, <2>2, <2>3, <2>4, BesideLinks
<1> QED
  BY <1>1, <1>2, <1>3

(* So does every other handler, and the rest of the world does not count,  *)
(* unless it fails.                                                        *)
LEMMA LinksWorkStep ==
    ASSUME TypeOK, OwnInv, LinksInv, Undisturbed, [Next]_vars
    PROVE  LinksWork'
<1> SUFFICES ASSUME faults' = 0 PROVE Renewals' /\ Registrations'
  BY DEF LinksWork
<1>1. faults = 0 /\ ~SpendFault
  BY FaultsCount, NoFault DEF TypeOK, AuthorityTypeOK
<1>2. Renewals /\ Registrations /\ TasksBelong /\ TokensGranted
  BY <1>1 DEF LinksInv, LinksWork
<1>3. ASSUME NEW w \in Workers, LinkingRequest(w) \/ LinkingStep(w)
      PROVE  Renewals' /\ Registrations'
  BY <1>2, <1>3, LinkingRenewals, LinkingUnspoilt
<1>4. ASSUME NEW w \in Workers, LinkRequest(w) \/ LinkStep(w)
      PROVE  Renewals' /\ Registrations'
  <2>1. Registrations'
    BY <1>2, <1>4, OthersUnspoilt
  <2>2. Renewals'
    BY <1>2, <1>4, RenewalAsked, RenewalCalled, RenewalSaved, RemovalAsked, RemovalRevoked,
       RemovalDone
       DEF LinkRequest, LinkStep
  <2> QED
    BY <2>1, <2>2
<1>5. ASSUME NEW w \in Workers, DeleteExpired(w) \/ ManagementStep(w) PROVE FALSE
  BY <1>2, <1>5
     DEF DeleteExpired, Accept, ManagementStep, CleanupList, CleanupRevoke, CleanupInitial,
         CleanupStarted, CleanupCompleted, At, TasksBelong, Belongs, Undisturbed
<1>6. CASE AdminDelete \/ Tick \/ UNCHANGED vars
  <2>1. links' = links /\ live' = live /\ task' = task /\ completed' \subseteq completed
    BY <1>6 DEF AdminDelete, AdminDeleteInitial, AdminDeleteStarted, AdminDeleteCompleted,
                DeleteCompleted, Tick, vars, requestVars, storageVars, authorityVars
  <2>2. Renewals'
    BY <1>2, <2>1 DEF Renewals, LinkUsable, At, OneBelievedWorks, Believed, LinksOf,
                      SavesWhatWorks, RevokesRead, RenewedLinkStays
  <2>3. Registrations'
    BY <1>2, <2>1 DEF Registrations, UnspoiltInHand, Unspoilt, LinksOf
  <2> QED
    BY <2>2, <2>3
<1>7. ~Crash /\ ~OrcidWithdraws
  BY <1>1 DEF Crash, OrcidWithdraws
<1> QED
  BY <1>3, <1>4, <1>5, <1>6, <1>7 DEF Next, Request, Step

(* The parts of the invariant rest on each other only as far as said.      *)
LEMMA LinksStep ==
    ASSUME TypeOK, TypeOK', OwnInv, LinksInv, Undisturbed, [Next]_vars
    PROVE  LinksInv'
BY LinkCommands, OneLinkStep, BelongStep, GrantedStep, LinksWorkStep
   DEF LinksInv, TypeOK, StorageTypeOK

(* However renewals by different requests overlap with each other, with    *)
(* registrations and, where no link is registered, with removals: as long  *)
(* as nothing fails, the token of a link works, or the request that has    *)
(* just rotated or revoked it is about to save the new one or to delete    *)
(* the link.  link_record_for_user and refresh_tokens may read, rotate and *)
(* save without a lock, since ORCID rotates a token once, and whoever      *)
(* comes second is refused and saves nothing.                              *)
THEOREM LinksUsable ==
    ASSUME Undisturbed
    PROVE  Spec => [](faults = 0 => LinkUsable)
<1>1. Init => LinksInv
  BY GrantsGrow DEF Init, RequestsInit, StorageInit, AuthorityInit, LinksInv, OneLinkEach,
     TasksBelong, Belongs, TokensGranted, HoldsGranted, LinksWork, Renewals, LinkUsable,
     OneBelievedWorks, SavesWhatWorks, Saving, RevokesRead, At, RenewedLinkStays, Calling,
     Registrations, UnspoiltInHand, Idle
<1>2. TypeOK /\ TypeOK' /\ OwnInv /\ LinksInv /\ [Next]_vars => LinksInv'
  BY LinksStep
<1>3. LinksInv => (faults = 0 => LinkUsable)
  BY DEF LinksInv, LinksWork, Renewals
<1> QED
  BY <1>1, <1>2, <1>3, TypeCorrect, Ownership, PTL DEF Spec, OwnInv
=============================================================================
