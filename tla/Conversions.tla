---------------------------- MODULE Conversions -----------------------------
(***************************************************************************)
(* One work of one person through the conversions of jsonrpc/methods/      *)
(* works.py and profile.py: a client creates it, or finds one that another *)
(* program has written, reads it, changes it and saves it, while the owner *)
(* edits the profile.  The calls themselves, their order and their         *)
(* failures are the subject of the module Works.                           *)
(***************************************************************************)
EXTENDS Translators

CONSTANTS
    Profiles,          \* the states of a person's profile
    ForeignWorks,      \* works that other programs have written
    NewWorks,          \* what a client sends to create-work
    Edits(_),          \* the changes that a client makes to a work
    MaxEdits           \* bounds the changes by client and owner

(* A null is none of the values that it stands for the absence of.  ORCID  *)
(* has checked what other programs sent, too.                              *)
ASSUME ConversionsAssumption ==
    /\ None \notin Texts /\ None \notin Seq(Words)
    /\ None \notin Api!Citation /\ None \notin Api!Date
    /\ "KBase CI" \in Strings
    /\ Profiles \subseteq Api!ORCIDProfile
    /\ \A w \in ForeignWorks :
          /\ w.source_name # "KBase CI"
          /\ w.publication_date \in Api!Optional(Api!FuzzyDate)
    /\ MaxEdits \in Nat

VARIABLES
    profile,           \* the owner's profile at ORCID
    work,              \* the work at ORCID, or None
    page,              \* the work as the client holds it, or None
    answer,            \* of the call that has just ended, or None
    edits              \* changes by client and owner so far

vars == <<profile, work, page, answer, edits>>

-----------------------------------------------------------------------------
(* ORCID checks what it is sent and keeps it, with its source.             *)

Accepts(r) == r.publication_date \in Api!FuzzyDate

Stored(r) == With(r, "source_name", "KBase CI")

(* The constructors of orcid_api validate what ORCID answers.              *)
Read(p, w) == IF Api!Work(w) THEN transform_work(p, w) ELSE ValueError

Listed(w) == IF Api!WorkSummary(w) THEN transform_work_summary(w) ELSE ValueError

Refused == Raise("UpstreamError")

-----------------------------------------------------------------------------
(* The calls.                                                              *)

Answered(r) ==
    /\ answer' = r
    /\ page' = IF r.ok THEN r.value ELSE page

GetWork ==
    /\ work # None
    /\ Answered(Read(profile, work))
    /\ UNCHANGED <<profile, work, edits>>

Written(r) ==
    IF ~r.ok THEN Answered(r) /\ UNCHANGED work
    ELSE IF ~Accepts(r.value) THEN Answered(Refused) /\ UNCHANGED work
    ELSE work' = Stored(r.value) /\ Answered(Read(profile, work'))

(* Parameters that do not satisfy the declared model never reach a method. *)
(* The answer to the bulk request holds the work with its number.          *)
CreateWork(w, n) ==
    /\ NewWork(w)
    /\ work = None /\ page = None
    /\ LET r == create_work_record(w)
       IN  Written(IF r.ok THEN Good(With(r.value, "put_code", n)) ELSE r)
    /\ UNCHANGED <<profile, edits>>

SaveWork ==
    /\ work # None /\ page # None
    /\ Written(translate_work_update(page))
    /\ UNCHANGED <<profile, edits>>

(* Outside of the service: the client and the owner.                       *)
Edit ==
    /\ page # None
    /\ edits < MaxEdits
    /\ edits' = edits + 1
    /\ page' \in {w \in Edits(page) : Work(w)}
    /\ answer' = None
    /\ UNCHANGED <<profile, work>>

OwnerEdits ==
    /\ edits < MaxEdits
    /\ edits' = edits + 1
    /\ profile' \in {p \in Profiles \ {profile} : p.orcid_identifier = profile.orcid_identifier}
    /\ answer' = None
    /\ UNCHANGED <<work, page>>

Init ==
    /\ profile \in Profiles
    /\ work \in ForeignWorks \cup {None}
    /\ page = None
    /\ answer = None
    /\ edits = 0

Next ==
    \/ \E w \in NewWorks, n \in PutCodes : CreateWork(w, n)
    \/ GetWork \/ SaveWork
    \/ Edit \/ OwnerEdits

Spec == Init /\ [][Next]_vars

-----------------------------------------------------------------------------
(* Everything the service answers satisfies the model it declares, and     *)
(* everything it sends satisfies the model of ORCID's interface.           *)
TypeOK ==
    /\ edits \in 0..MaxEdits
    /\ profile \in Api!ORCIDProfile
    /\ page # None => Work(page)
    /\ answer # None /\ answer.ok => Work(answer.value)
    /\ orcid_profile(profile) \in ORCIDProfile
    /\ work # None /\ Listed(work).ok => WorkSummary(Listed(work).value)
    /\ work # None /\ work.source_name = "KBase CI" => Api!Work(work)

(* A page that shows the work as it is.                                    *)
Fresh == page # None /\ work # None /\ Read(profile, work) = Good(page)

(* Saving a work as it was read succeeds and answers the same work: the    *)
(* two directions of every conversion agree (dates padded and stripped,    *)
(* the DOI split off and put back, contributors grouped and spread), for   *)
(* works that other programs have written too.                             *)
SaveWhatWasRead == [][SaveWork /\ Fresh => answer' = Good(page)]_vars

(* Who did what, in a work at ORCID: the owner and the others by name.     *)
Contributions(w, person, role) ==
    Cardinality({i \in DOMAIN w.contributors :
        /\ w.contributors[i].role = role
        /\ person = IF w.contributors[i].path = profile.orcid_identifier
                    THEN None ELSE w.contributors[i].credit_name})

People(w) == {None} \cup {c.credit_name : c \in ToSet(w.contributors)}

RolesIn(w) == ToSet(roles(w.contributors))

(* And no contribution is lost or doubled: a contributor with several      *)
(* roles is several records at ORCID and one with us.                      *)
ContributionsKept ==
    [][SaveWork /\ Fresh =>
        \A person \in People(work), role \in RolesIn(work) \cup RolesIn(work') :
            Contributions(work, person, role) = Contributions(work', person, role)]_vars

(* A work as the user interface composes it: the owner under the name of   *)
(* the profile, nobody else twice or without a role, no second DOI.        *)
Composed(w) ==
    /\ profile.person.name # None
    /\ profile.orcid_identifier \in PlainOrcidIds
    /\ w.selfContributor.orcidId = profile.orcid_identifier
    /\ w.selfContributor.name = SelfName(profile.person)
    /\ \A i, j \in DOMAIN w.otherContributors :
          w.otherContributors[i].name = w.otherContributors[j].name => i = j
    /\ \A c \in ToSet(w.otherContributors) :
          c.orcidId # profile.orcid_identifier /\ c.roles # <<>>
    /\ \A x \in ToSet(w.externalIds) : ~(x.type = "doi" /\ x.relationship = "self")
    /\ w.date = orcid_date_to_string_date(parse_date(w.date))

(* create-work answers the work that it was sent.                          *)
CreatedIsReturned ==
    [][work = None =>
          \A w \in NewWorks, n \in PutCodes :
             CreateWork(w, n) /\ Composed(w) /\ answer' # Refused
                => answer' = Good(With(w, "putCode", n))]_vars

(* A work that the service wrote can be read again, and so be saved and    *)
(* listed, unless the owner hides the name, the owner's iD ends in an X or *)
(* the client gave it a second DOI of its own.  Lengths are not modelled:  *)
(* a name of more than 150 characters is a fourth case in the code.        *)
OwnWorksReadable ==
    work # None /\ work.source_name = "KBase CI" =>
        \/ profile.person.name = None
        \/ profile.orcid_identifier \notin PlainOrcidIds
        \/ Len(SelfDois(work.external_ids)) > 1
        \/ Read(profile, work).ok

(* The two copies of the conversion agree: what get-orcid-work can show,   *)
(* get-orcid-works lists, with the same fields.                            *)
SummaryAgrees ==
    work # None /\ Read(profile, work).ok =>
        /\ Listed(work).ok
        /\ \A f \in {"putCode", "journal", "workType", "date", "doi", "externalIds"} :
              Listed(work).value[f] = Read(profile, work).value[f]

(* The two readings of the profile agree: get-orcid-profile calls the name *)
(* private exactly when works cannot be shown for that reason, and the     *)
(* name in a work is one that the profile shows.                           *)
NamesAgree ==
    LET group == orcid_profile(profile).nameGroup
    IN  /\ work # None /\ Read(profile, work) = ORCIDProfileNamePrivate => group.private
        /\ work # None /\ Read(profile, work).ok =>
              /\ ~group.private
              /\ Read(profile, work).value.selfContributor.name \in
                    {group.fields.creditName, <<group.fields.firstName>>,
                     <<group.fields.firstName, group.fields.lastName>>}
=============================================================================
