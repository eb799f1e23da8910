------------------------------ MODULE Storage -------------------------------
(***************************************************************************)
(* The collections of storage_model_mongo.py, as sets of documents.  One   *)
(* operator is one database command: MongoDB applies each to one document  *)
(* atomically, and nothing spans two commands.                             *)
(***************************************************************************)
EXTENDS Entities

VARIABLES
    links,       \* collection links
    initial,     \* collection linking_sessions_initial
    started,     \* collection linking_sessions_started
    completed,   \* collection linking_sessions_completed
    issued       \* history: every session create_linking_session ever made

storageVars == <<links, initial, started, completed, issued>>

StorageTypeOK ==
    /\ links \subseteq LinkRecord
    /\ initial \subseteq LinkingSession
    /\ started \subseteq LinkingSession
    /\ completed \subseteq LinkingSessionComplete
    /\ issued \subseteq LinkingSession

StorageInit ==
    /\ links = {}
    /\ initial = {}
    /\ started = {}
    /\ completed = {}
    /\ issued = {}

-----------------------------------------------------------------------------
(* Links: the unique index on username admits one record per user.         *)

LinksOf(u) == {l \in links : l.username = u}

LinksForSession(o) == {}   \* a slip: a filter on the wrong field finds nothing

LinksForOrcid(o) == {l \in links : l.orcid_auth.orcid = o}

CanCreateLinkUnindexed(l) == TRUE   \* a slip: the index is not unique

(* insert_one into links.  The second record of a user is a duplicate key. *)
CanCreateLink(l) == LinksOf(l.username) = {}

CreateLinkRecord(l) == links' = links \cup {l}

SaveLinkRecordUnmatched(r) == links' = links   \* a slip: the filter is on the new tokens

(* update_one with $set and no upsert: every field of whatever record the  *)
(* user has by now is overwritten, and nothing happens when there is none. *)
SaveLinkRecord(r) == links' = {IF l.username = r.username THEN r ELSE l : l \in links}

DeleteLinkRecord(u) == links' = {l \in links : l.username # u}

-----------------------------------------------------------------------------
(* Linking sessions.  A session moves between collections by insert and    *)
(* delete of a copy that keeps _id, so a second insert of the same session *)
(* is a duplicate key as long as the first copy is there.                  *)

Sessions(coll, s) == {d \in coll : d.session_id = s}

CompletedSessions(s) == {c \in completed : c.session.session_id = s}

CanInsertStarted(d) == d \notin started

CanInsertCompleted(c) == CompletedSessions(c.session.session_id) = {}

InsertCompletedRenewed(c) ==   \* a slip: the lifetime starts again at completion
    completed' = completed \cup {[c EXCEPT !.session.expires_at = @ + SessionLifetime]}

InsertInitial(d)   == initial' = initial \cup {d}
InsertStarted(d)   == started' = started \cup {d}
InsertCompleted(c) == completed' = completed \cup {c}

DeleteInitialUnmatched(s) == initial' = initial   \* a slip: the filter is on _id

DeleteInitial(s)   == initial' = {d \in initial : d.session_id # s}
DeleteStarted(s)   == started' = {d \in started : d.session_id # s}
DeleteCompleted(s) == completed' = {c \in completed : c.session.session_id # s}

(* The $lte filters of get_expired_completed_sessions and                  *)
(* delete_expired_sessions.                                                *)
Expired(d, at) == d.expires_at <= at

ExpiredCompleted(at) == {c \in completed : Expired(c.session, at)}

DeleteUnexpiredStarted(at) ==   \* a slip: $gt for $lte
    started' = {d \in started : Expired(d, at)}

DeleteExpiredInitial(at)   == initial' = {d \in initial : ~Expired(d, at)}
DeleteExpiredStarted(at)   == started' = {d \in started : ~Expired(d, at)}
DeleteExpiredCompleted(at) == completed' = completed \ ExpiredCompleted(at)
=============================================================================
