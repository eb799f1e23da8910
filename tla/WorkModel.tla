----------------------------- MODULE WorkModel ------------------------------
(***************************************************************************)
(* The works and the profile as the service shows them (model.py).  What   *)
(* is left out is left out in OrcidApi too.                                *)
(***************************************************************************)
EXTENDS Naturals, Sequences

CONSTANTS None, Words, OrcidIds, Texts, Strings, PutCodes

CONSTANT
    PlainOrcidIds   \* the iDs whose last character is a digit and not an X

ASSUME WorkModelAssumption == PlainOrcidIds \subseteq OrcidIds

Optional(S) == S \cup {None}

-----------------------------------------------------------------------------
(* Vocabularies.  A value outside of them is a ValueError.                 *)

CitationType ==
    {"bibtex", "formatted-apa", "formatted-chicago", "formatted-harvard", "formatted-ieee",
     "formatted-mla", "formatted-vancouver", "formatted-unspecified", "ris"}

RelationshipType == {"self", "part-of", "version-of", "funded-by"}

(* The values are urls under http://credit.niso.org/contributor-roles/.    *)
ContributorRoleValue ==
    {"conceptualization", "data-curation", "formal-analysis", "funding-acquisition",
     "investigation", "methodology", "project-administration", "resources", "software",
     "supervision", "validation", "visualization", "writing-original-draft",
     "writing-review-editing"}

ExternalIdType ==
    {"agr", "ark", "arxiv", "asin", "asin-tld", "authenticusid", "bibcode", "cba", "cienciaiul",
     "cit", "cstr", "ctx", "dnb", "doi", "eid", "emdb", "empiar", "ethos", "grant_number",
     "hal", "handle", "hir", "isbn", "ismn", "issn", "jfm", "jstor", "k10plus", "kuid",
     "lccn", "lensid", "mr", "oclc", "ol", "osti", "other-id", "pat", "pdb", "pmc", "pmid",
     "ppr", "proposal-id", "rfc", "rrid", "source-work-id", "ssrn", "uri", "urn", "wosuid",
     "zbl"}

WorkType ==
    {"book", "book-chapter", "book-review", "dictionary-entry", "dissertation",
     "dissertation-thesis", "encyclopedia-entry", "edited-book", "journal-article",
     "journal-issue", "magazine-article", "manual", "online-resource", "newsletter-article",
     "newspaper-article", "preprint", "report", "review", "research-tool",
     "supervised-student-publication", "test", "translation", "website", "working-paper",
     "conference-abstract", "conference-paper", "conference-poster", "disclosure", "license",
     "patent", "registered-copyright", "trademark", "annotation", "artistic-performance",
     "data-management-plan", "data-set", "invention", "lecture-speech", "physical-object",
     "research-technique", "software", "spin-off-company", "standards-and-policy",
     "technical-standard", "other"}

ASSUME VocabularyAssumption ==
    CitationType \cup RelationshipType \cup ContributorRoleValue \cup ExternalIdType
        \cup WorkType \subseteq Strings

-----------------------------------------------------------------------------
(* Works.                                                                  *)

(* "2021/3/7", split at the slashes.                                       *)
DateString == Seq(Seq(0..9))

ExternalId == [type : ExternalIdType, value : Texts, relationship : RelationshipType]

ORCIDCitation == [type : CitationType, value : Texts]

ContributorRole == ContributorRoleValue

ORCIDContributor ==
    [orcidId : Optional(PlainOrcidIds), name : Seq(Words), roles : Seq(ContributorRole)]

(* The pattern of orcidId ends in [0-9]{4}: an iD whose check character is *)
(* X is refused, coming from the client as well as from ORCID.             *)
ORCIDContributorSelf ==
    [orcidId : PlainOrcidIds, name : Seq(Words), roles : Seq(ContributorRole)]

WorkBase(w) ==
    /\ w.date \in DateString
    /\ w.workType \in WorkType
    /\ w.doi \in Texts
    /\ w.externalIds \in Seq(ExternalId)

FullWork(w) ==
    /\ WorkBase(w)
    /\ w.journal \in Texts
    /\ w.shortDescription \in Texts
    /\ w.citation \in ORCIDCitation
    /\ w.selfContributor \in ORCIDContributorSelf
    /\ w.otherContributors \in Seq(ORCIDContributor)

(* A record has the fields of its class and no others.                     *)
NewWork(w) ==
    /\ FullWork(w)
    /\ w = [f \in {"workType", "date", "doi", "externalIds", "journal", "shortDescription",
                    "citation", "selfContributor", "otherContributors"} |-> w[f]]

PersistedWorkBase(w) == w.putCode \in PutCodes

(* A work that was read and one that is sent back differ in what only      *)
(* travels along.                                                          *)
Work(w) == FullWork(w) /\ PersistedWorkBase(w)

WorkSummary(w) ==
    /\ WorkBase(w)
    /\ PersistedWorkBase(w)
    /\ w.journal \in Optional(Texts)
    /\ w.source \in Optional(Strings)

-----------------------------------------------------------------------------
(* The profile.                                                            *)

ORCIDAffiliation ==
    [name : Texts, role : Texts, startYear : Seq(0..9), endYear : Optional(Seq(0..9))]

ORCIDFieldGroup(F) == [private : BOOLEAN, fields : Optional(F)]

ORCIDNameFields ==
    [firstName : Words, lastName : Optional(Words), creditName : Optional(Seq(Words))]

ORCIDProfile ==
    [orcidId : OrcidIds, nameGroup : ORCIDFieldGroup(ORCIDNameFields),
     biographyGroup : ORCIDFieldGroup(Texts), emailGroup : ORCIDFieldGroup(Seq(Texts)),
     employment : Seq(ORCIDAffiliation)]
=============================================================================
