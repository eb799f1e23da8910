----------------------------- MODULE Translators ----------------------------
(***************************************************************************)
(* translators/to_orcid.py and to_service.py: works and profiles between   *)
(* the form the service shows and the form ORCID keeps.  A function that   *)
(* may raise returns Good(value) or an error.                              *)
(***************************************************************************)
EXTENDS WorkModel, Outcomes, SequencesExt

Api == INSTANCE OrcidApi

ORCIDProfileNamePrivate == Raise("ORCIDProfileNamePrivate")

Each(f(_), s) == [i \in DOMAIN s |-> f(s[i])]

(* A record with one field more.                                           *)
With(r, field, value) ==
    [f \in DOMAIN r \cup {field} |-> IF f = field THEN value ELSE r[f]]

(* A loop that appends what it comes across in S.                          *)
Kept(s, S) ==
    LET kept[n \in 0..Len(s)] ==
            IF n = 0 THEN <<>>
            ELSE IF s[n] \in S THEN Append(kept[n - 1], s[n]) ELSE kept[n - 1]
    IN  kept[Len(s)]

-----------------------------------------------------------------------------
(* Dates.                                                                  *)

rjust(p) == CASE Len(p) = 0 -> <<0, 0>> [] Len(p) = 1 -> <<0>> \o p [] OTHER -> p

parse_date(s) ==
    [year  |-> s[1],
     month |-> IF Len(s) >= 2 THEN rjust(s[2]) ELSE None,
     day   |-> IF Len(s) >= 3 THEN rjust(s[3]) ELSE None]

TooManyParts(s) == Len(s) > 3

(* lstrip("0")                                                             *)
nopad(p) == SubSeq(p, 1 + Cardinality({n \in DOMAIN p : \A k \in 1..n : p[k] = 0}), Len(p))

(* A day without a month is dropped.                                       *)
orcid_date_to_string_date(d) ==
    <<d.year>>
        \o (IF d.month # None THEN <<nopad(d.month)>> ELSE <<>>)
        \o (IF d.month # None /\ d.day # None THEN <<nopad(d.day)>> ELSE <<>>)

-----------------------------------------------------------------------------
(* External identifiers.  Of those at ORCID, the DOI of the work itself is *)
(* shown as a field of its own.                                            *)

IsSelfDoi(x) == x.external_id_type = "doi" /\ x.external_id_relationship = "self"
SelfDois(xs) == Kept(xs, {x \in ToSet(xs) : IsSelfDoi(x)})

OtherIdsAll(xs) == xs   \* a slip: the DOI stays among the others
OtherIds(xs) == Kept(xs, {x \in ToSet(xs) : ~IsSelfDoi(x)})

transform_external_id(x) ==
    [type |-> x.external_id_type, value |-> x.external_id_value,
     relationship |-> x.external_id_relationship]

Transformable(x) ==
    x.external_id_type \in ExternalIdType /\ x.external_id_relationship \in RelationshipType

IdsUnchecked(xs) == Len(SelfDois(xs)) = 1   \* a slip: no check of the vocabularies

IdsTransformable(xs) ==
    /\ \A x \in ToSet(OtherIds(xs)) : Transformable(x)
    /\ Len(SelfDois(xs)) = 1

to_external_id(x) ==
    [external_id_type |-> x.type, external_id_value |-> x.value,
     external_id_relationship |-> x.relationship]

DoiOfWhole(doi) ==   \* a slip: the DOI is not marked as the work's own
    [type |-> "doi", value |-> doi, relationship |-> "part-of"]

SelfDoi(doi) == [type |-> "doi", value |-> doi, relationship |-> "self"]

-----------------------------------------------------------------------------
(* Contributors: one of ours with n roles is n records at ORCID.           *)

transform_contributor_self(c) ==
    Each(LAMBDA r : [path |-> c.orcidId, credit_name |-> c.name, role |-> r], c.roles)

MainRole(c) ==   \* a slip: one record, with the first role
    IF c.roles = <<>> THEN <<>>
    ELSE <<[path |-> c.orcidId, credit_name |-> c.name, role |-> c.roles[1]]>>

transform_contributor(c) == transform_contributor_self(c)

transform_contributors(cs) == FlattenSeq(Each(transform_contributor, cs))

(* The profile's owner is told apart by the iD.                            *)
OwnRecords(cs, orcid)   == Kept(cs, {c \in ToSet(cs) : c.path = orcid})
OtherRecords(cs, orcid) == Kept(cs, {c \in ToSet(cs) : c.path # orcid})

roles(cs) == Each(LAMBDA c : c.role, cs)

(* contributors_map: the others are told apart by the name, in the order   *)
(* of their first record, whose iD they get.                               *)
FirstOfName(cs) ==
    Kept([i \in DOMAIN cs |-> i],
         {i \in DOMAIN cs : \A j \in 1..(i - 1) : cs[j].credit_name # cs[i].credit_name})

GroupLast(cs) ==   \* a slip: the entry of a name is replaced instead of appended to
    Each(LAMBDA i : [name |-> cs[i].credit_name, orcidId |-> cs[i].path,
                     roles |-> <<cs[i].role>>],
         FirstOfName(cs))

OfName(cs, name) == Kept(cs, {c \in ToSet(cs) : c.credit_name = name})

contributors_map(cs) ==
    Each(LAMBDA i : [name |-> cs[i].credit_name, orcidId |-> cs[i].path,
                     roles |-> roles(OfName(cs, cs[i].credit_name))],
         FirstOfName(cs))

RolesKnown(cs) == \A c \in ToSet(cs) : c.role \in ContributorRoleValue

(* The constructor validates the iD of the first record of a name.         *)
OtherIdsPlain(cs) ==
    \A i \in ToSet(FirstOfName(cs)) : cs[i].path \in PlainOrcidIds \cup {None}

-----------------------------------------------------------------------------
(* From ORCID: a work, as its single record or in a list.                  *)

SelfName(person) ==
    CASE person.name.credit_name # None -> person.name.credit_name
      [] person.name.credit_name = None /\ person.name.family_name = None ->
            <<person.name.given_names>>
      [] OTHER -> <<person.name.given_names, person.name.family_name>>

SummaryFirstId(s) ==   \* a slip: the first external id is taken for the DOI
    IF s.external_ids = <<>> \/ s.type \notin WorkType
    THEN ValueError
    ELSE Good([putCode |-> s.put_code, source |-> s.source_name,
               journal |-> s.journal_title, workType |-> s.type,
               date |-> orcid_date_to_string_date(s.publication_date),
               doi |-> s.external_ids[1].external_id_value,
               externalIds |-> Each(transform_external_id, Tail(s.external_ids))])

transform_work_summary(s) ==
    IF ~IdsTransformable(s.external_ids) \/ s.type \notin WorkType
    THEN ValueError
    ELSE Good([putCode |-> s.put_code, source |-> s.source_name,
               journal |-> s.journal_title, workType |-> s.type,
               date |-> orcid_date_to_string_date(s.publication_date),
               doi |-> SelfDois(s.external_ids)[1].external_id_value,
               externalIds |-> Each(transform_external_id, OtherIds(s.external_ids))])

(* The order of the checks decides between the two errors.                 *)
transform_work(profile, w) ==
    LET orcid  == profile.orcid_identifier
        own    == OwnRecords(w.contributors, orcid)
        others == OtherRecords(w.contributors, orcid)
    IN  IF \/ w.journal_title = None
           \/ ~IdsTransformable(w.external_ids)
           \/ ~RolesKnown(own)
        THEN ValueError
        ELSE IF profile.person.name = None
        THEN ORCIDProfileNamePrivate
        ELSE IF \/ orcid \notin PlainOrcidIds
                \/ w.citation = None
                \/ w.citation.citation_type \notin CitationType
                \/ ~RolesKnown(others) \/ ~OtherIdsPlain(others)
                \/ w.short_description = None
                \/ w.type \notin WorkType
        THEN ValueError
        ELSE Good([putCode |-> w.put_code, journal |-> w.journal_title, workType |-> w.type,
                   date |-> orcid_date_to_string_date(w.publication_date),
                   doi |-> SelfDois(w.external_ids)[1].external_id_value,
                   externalIds |-> Each(transform_external_id, OtherIds(w.external_ids)),
                   shortDescription |-> w.short_description,
                   citation |-> [type |-> w.citation.citation_type,
                                 value |-> w.citation.citation_value],
                   selfContributor |-> [name |-> SelfName(profile.person), orcidId |-> orcid,
                                        roles |-> roles(own)],
                   otherContributors |-> contributors_map(others)])

-----------------------------------------------------------------------------
(* To ORCID: a new work, and a work that was changed.                      *)

NewWorkRecord(w) ==
    [type |-> w.workType,
     publication_date |-> parse_date(w.date),
     external_ids |-> Each(to_external_id, <<SelfDoi(w.doi)>> \o w.externalIds),
     journal_title |-> w.journal,
     short_description |-> w.shortDescription,
     citation |-> [citation_type |-> w.citation.type, citation_value |-> w.citation.value],
     contributors |-> transform_contributor_self(w.selfContributor)
                        \o transform_contributors(w.otherContributors)]

translate_work_update(w) ==
    IF TooManyParts(w.date) THEN ValueError ELSE Good(With(NewWorkRecord(w), "put_code", w.putCode))

create_work_record(w) ==
    IF TooManyParts(w.date) THEN ValueError ELSE Good(NewWorkRecord(w))
-----------------------------------------------------------------------------
(* The profile.                                                            *)

coerce_to_list(g) == IF "many" \in DOMAIN g THEN g.many ELSE <<g.one>>

transform_affilations(g) ==
    Each(LAMBDA a : LET e == a.summaries[1]
                    IN  [name |-> e.organization, role |-> e.role_title,
                         startYear |-> e.start_date.year,
                         endYear |-> IF e.end_date # None THEN e.end_date.year ELSE None],
         coerce_to_list(g))

(* The fields are those of what ORCID shows, if it does.                   *)
Group(shown, fields) ==
    IF shown = None THEN [private |-> TRUE, fields |-> None]
    ELSE [private |-> FALSE, fields |-> fields]

NameFields(name) ==
    [firstName |-> name.given_names, lastName |-> name.family_name,
     creditName |-> name.credit_name]

NamePrivateUncredited(person) ==   \* a slip: no credit name is taken for no name
    IF person.name = None THEN Group(None, None)
    ELSE Group(person.name.credit_name, NameFields(person.name))

name_group(person) == Group(person.name, NameFields(person.name))

orcid_profile(p) ==
    [orcidId |-> p.orcid_identifier, nameGroup |-> name_group(p.person),
     biographyGroup |-> Group(p.person.biography, p.person.biography),
     emailGroup |-> Group(p.person.emails, p.person.emails),
     employment |-> transform_affilations(p.employments)]
=============================================================================
