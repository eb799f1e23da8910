------------------------------ MODULE OrcidApi ------------------------------
(***************************************************************************)
(* The records that lib/service_clients/orcid_api.py exchanges with ORCID. *)
(* Fields that only travel along are left out: titles and urls, the dates  *)
(* of creation and change, visibility, path, display index and whatever    *)
(* ORCID adds to an external id.  A field that may be null is None then.   *)
(***************************************************************************)
EXTENDS Naturals, Sequences

CONSTANTS
    None,        \* null
    Words,       \* a name is a sequence of words
    OrcidIds,    \* ORCID iDs
    Texts,       \* what a field of free text may hold
    Strings,     \* and one that should hold a word of a vocabulary
    PutCodes     \* what ORCID numbers works with

Optional(S) == S \cup {None}

(* Text that the conversions look into: decimal digits.                    *)
Decimal == Seq(0..9)

Date == [year : Decimal, month : Optional(Decimal), day : Optional(Decimal)]

(* What ORCID stores (common.xsd, fuzzy-date): two digits, and a day only  *)
(* with a month.                                                           *)
FuzzyDate ==
    {d \in Date : /\ \A p \in {d.month, d.day} \ {None} : Len(p) = 2
                  /\ d.month = None => d.day = None}

-----------------------------------------------------------------------------
(* Works.  The classes of works inherit from each other, hence predicates. *)

ExternalId ==
    [external_id_type : Strings, external_id_value : Texts, external_id_relationship : Strings]

ExternalIds == Seq(ExternalId)

Citation == [citation_type : Strings, citation_value : Texts]

(* One record for each role that a person has in a work.  "path" is the    *)
(* iD in contributor_orcid, and "role" the one in contributor_attributes.  *)
Contributor == [path : Optional(OrcidIds), credit_name : Seq(Words), role : Strings]

ContributorWrapper == Seq(Contributor)

(* ORCID does not ask for a publication date; this service does.           *)
WorkBase(w) ==
    /\ w.type \in Strings
    /\ w.publication_date \in Date
    /\ w.external_ids \in ExternalIds

NewWork(w) ==
    /\ WorkBase(w)
    /\ w.journal_title \in Texts
    /\ w.short_description \in Texts
    /\ w.citation \in Citation
    /\ w.contributors \in ContributorWrapper

WorkUpdate(w) == NewWork(w) /\ w.put_code \in PutCodes

PersistedWork(w) ==
    /\ w.put_code \in PutCodes
    /\ w.source_name \in Optional(Strings)
    /\ w.journal_title \in Optional(Texts)

(* A single work, as ORCID has it: by whichever client it was written.     *)
Work(w) ==
    /\ WorkBase(w)
    /\ PersistedWork(w)
    /\ w.short_description \in Optional(Texts)
    /\ w.citation \in Optional(Citation)
    /\ w.contributors \in ContributorWrapper

WorkSummary(w) == WorkBase(w) /\ PersistedWork(w)

-----------------------------------------------------------------------------
(* The profile.  A person who keeps the name, the biography or the emails  *)
(* private has None there.                                                 *)

ORCIDPersonName ==
    [given_names : Words, family_name : Optional(Words), credit_name : Optional(Seq(Words))]

ORCIDEmails == Seq(Texts)

ORCIDPerson ==
    [name : Optional(ORCIDPersonName), biography : Optional(Texts),
     emails : Optional(ORCIDEmails)]

ORCIDEmploymentSummary ==
    [organization : Texts, role_title : Texts, start_date : Date, end_date : Optional(Date)]

(* summaries is a tuple of one summary.                                    *)
ORCIDAffiliationGroup == [summaries : [1..1 -> ORCIDEmploymentSummary]]

(* A profile with a single employment may come without the list around it. *)
Affiliations == [one : ORCIDAffiliationGroup] \cup [many : Seq(ORCIDAffiliationGroup)]

ORCIDProfile ==
    [orcid_identifier : OrcidIds, person : ORCIDPerson, employments : Affiliations]
=============================================================================
