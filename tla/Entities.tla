------------------------------ MODULE Entities ------------------------------
(***************************************************************************)
(* The values that the modules of the orcidlink model share: who uses the  *)
(* service, the documents it stores and the tokens ORCID grants it.        *)
(***************************************************************************)
EXTENDS Naturals, FiniteSets

CONSTANTS
    Users,            \* KBase accounts
    SessionIds,       \* the uuids that create_linking_session may draw
    Orcids,           \* ORCID accounts
    SessionLifetime,  \* config().linking_session_lifetime, in clock units
    RetirementAge,    \* config().orcid_authorization_retirement_age
    MaxTime,          \* bound: the clock stops here
    MaxTokens         \* bound: the authorizations ORCID grants in a behaviour

ASSUME EntitiesAssumption ==
    /\ SessionLifetime \in Nat
    /\ RetirementAge \in Nat
    /\ MaxTime \in Nat
    /\ MaxTokens \in Nat

(***************************************************************************)
(* An ORCIDAuth.  "token" stands for the access token and the refresh      *)
(* token that were granted with it: the code stores, refreshes and revokes *)
(* them together.  "by" is a history field that the code does not have:    *)
(* the KBase account whose browser brought the authorization code.         *)
(***************************************************************************)
ORCIDAuth == [token : 1..MaxTokens, orcid : Orcids, by : Users]

(* The fields an initial and a started session share.  created_at, and the *)
(* three options of the browser's start request, only travel along.        *)
LinkingSession == [session_id : SessionIds, username : Users, expires_at : Nat]

LinkingSessionComplete == [session : LinkingSession, orcid_auth : ORCIDAuth]

LinkRecord == [username : Users, orcid_auth : ORCIDAuth, retires_at : Nat]
=============================================================================
