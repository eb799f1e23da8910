--------------------------- MODULE OrcidAuthority ---------------------------
(***************************************************************************)
(* ORCID's OAuth service, as orcid_oauth_api.py uses it.  It is outside    *)
(* the repository: it grants tokens for an authorization code, rotates     *)
(* them (grant_type refresh_token with revoke_old) and revokes them.  A    *)
(* call may also go wrong; every way it does spends the budget MaxFaults.  *)
(***************************************************************************)
EXTENDS Entities

CONSTANT MaxFaults   \* bound: errors, lost answers, crashes, withdrawn consents

ASSUME AuthorityAssumption == MaxFaults \in Nat

VARIABLES
    live,        \* the authorizations ORCID honours
    minted,      \* how many it ever granted
    redirected,  \* the sessions whose browser was sent to ORCID's consent page
    faults       \* how much of the budget is spent

authorityVars == <<live, minted, redirected, faults>>

AuthorityTypeOK ==
    /\ live \subseteq ORCIDAuth
    /\ minted \in 0..MaxTokens
    /\ redirected \subseteq SessionIds
    /\ faults \in 0..MaxFaults

AuthorityInit ==
    /\ live = {}
    /\ minted = 0
    /\ redirected = {}
    /\ faults = 0

-----------------------------------------------------------------------------

SpendFault ==
    /\ faults < MaxFaults
    /\ faults' = faults + 1

NewAuth(o, u) == [token |-> minted + 1, orcid |-> o, by |-> u]

(* The exchange and the rotation: an answer with a new authorization.      *)
Grants(auth, revoked) ==
    /\ minted < MaxTokens
    /\ minted' = minted + 1
    /\ live' = (live \ revoked) \cup {auth}
    /\ UNCHANGED redirected

(* The caller gets an error, an unreadable body or no answer, and ORCID    *)
(* did nothing.  Where the bound MaxTokens would stop a call, it refuses.  *)
Refuses ==
    /\ \/ SpendFault
       \/ minted = MaxTokens /\ UNCHANGED faults
    /\ UNCHANGED <<live, minted, redirected>>

(* ORCID revokes the token.  Revoking one it does not honour also answers  *)
(* with an empty body.                                                     *)
Revokes(auth) ==
    /\ live' = live \ {auth}
    /\ UNCHANGED <<minted, redirected>>

(* handle_empty_response takes an empty body for success whatever the      *)
(* status, so a revocation that failed with an empty body looks done.      *)
RevocationSilentlyFails ==
    /\ SpendFault
    /\ UNCHANGED <<live, minted, redirected>>

(* What a caller of revoke_access_token that is told "done" may rely on.   *)
RevokeAnswered(auth) ==
    \/ Revokes(auth) /\ UNCHANGED faults
    \/ RevocationSilentlyFails

(* The call raises: nothing was done, or it was and the answer was lost.   *)
RevokeRaises(auth) ==
    /\ SpendFault
    /\ \/ Revokes(auth)
       \/ UNCHANGED <<live, minted, redirected>>
=============================================================================
