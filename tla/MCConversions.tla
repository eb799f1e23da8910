--------------------------- MODULE MCConversions ----------------------------
(***************************************************************************)
(* An instance of Conversions for TLC: every combination of two            *)
(* contributor records and the telling ones of three, and the other parts  *)
(* of a work one at a time.                                                *)
(***************************************************************************)
EXTENDS Conversions

CONSTANTS o1, o2, ox, t1, t2, Ada, Byron

MCWords == {Ada, Byron}
MCOrcidIds == {o1, o2, ox}
MCPlainOrcidIds == {o1, o2}
MCTexts == {t1, t2}
MCStrings == STRING
MCPutCodes == {1}

Names == {<<Ada>>, <<Ada, Byron>>}
UpTo(n, S) == UNION {[1..k -> S] : k \in 0..n}

-----------------------------------------------------------------------------
Employment ==
    [organization |-> t1, role_title |-> t2,
     start_date |-> [year |-> <<2, 0, 1, 9>>, month |-> None, day |-> None], end_date |-> None]

(* The name: private, with and without its optional parts.                 *)
PersonNames ==
    {None} \cup [given_names : {Ada}, family_name : {None, Byron}, credit_name : {None, <<Ada>>}]

MCProfiles ==
    {[orcid_identifier |-> o, employments |-> e,
      person |-> [name |-> n, biography |-> b, emails |-> None]] :
        o \in {o1}, n \in PersonNames, b \in {None},
        e \in {[one |-> [summaries |-> <<Employment>>]]}}
    \cup
    {[orcid_identifier |-> ox, employments |-> e,
      person |-> [name |-> [given_names |-> Ada, family_name |-> None, credit_name |-> None],
                  biography |-> b, emails |-> m]] :
        e \in {[many |-> <<>>], [many |-> <<[summaries |-> <<Employment>>]>>]}, b \in {t1},
        m \in {<<t1, t2>>}}

-----------------------------------------------------------------------------
(* Works at ORCID.                                                         *)

Id(t, v, r) ==
    [external_id_type |-> t, external_id_value |-> v, external_id_relationship |-> r]

ADate == [year |-> <<2, 0, 2, 1>>, month |-> <<0, 3>>, day |-> None]

Plain ==
    [put_code |-> 1, source_name |-> "Crossref", type |-> "preprint", journal_title |-> t1,
     publication_date |-> ADate, external_ids |-> <<Id("doi", t1, "self")>>,
     short_description |-> t2,
     citation |-> [citation_type |-> "bibtex", citation_value |-> t1], contributors |-> <<>>]

Contributors ==
    [path : {None, o1, o2}, credit_name : Names, role : {"software", "resources"}]
Few == [path : {o1}, credit_name : {<<Ada>>}, role : {"software", "resources"}]
          \cup [path : {o2}, credit_name : Names, role : {"software"}]
          \cup [path : {None}, credit_name : {<<Ada>>}, role : {"resources"}]

MCForeignWorks ==
    {[Plain EXCEPT !.contributors = cs] : cs \in UpTo(2, Contributors) \cup UpTo(3, Few)}
    \cup {[Plain EXCEPT !.contributors = <<c>>] :
            c \in [path : {o1, o2, ox}, credit_name : {<<Ada>>}, role : {"editor", "software"}]}
    \cup {[Plain EXCEPT !.publication_date = d] :
            d \in {None} \cup
                  {x \in [year : {<<1, 9, 9, 9>>}, month : {None, <<0, 0>>, <<0, 9>>, <<1, 0>>},
                          day : {None, <<0, 0>>, <<0, 1>>, <<3, 0>>}] : x \in Api!FuzzyDate}}
    \cup {[Plain EXCEPT !.external_ids = xs] :
            xs \in UpTo(2, {Id("doi", t1, "self"), Id("doi", t2, "part-of"), Id("isbn", t1, "self"),
                            Id("isbn", t1, "sibling")})}
    \cup {[Plain EXCEPT !.journal_title = j, !.short_description = d, !.citation = c,
                        !.type = t] :
            j \in {None, t2}, d \in {None, t1}, t \in {"book", "poster"},
            c \in {None} \cup [citation_type : {"ris", "mla"}, citation_value : {t2}]}

-----------------------------------------------------------------------------
(* New works, and changes to a work.                                       *)

ANewWork ==
    [workType |-> "software", date |-> <<<<2, 0, 2, 2>>>>, doi |-> t1, externalIds |-> <<>>,
     journal |-> t2, shortDescription |-> t1, citation |-> [type |-> "ris", value |-> t2],
     selfContributor |-> [orcidId |-> o1, name |-> <<Ada>>, roles |-> <<"software">>],
     otherContributors |-> <<>>]

Roles == {<<>>, <<"software">>, <<"resources", "software">>}
Selves == [orcidId : {o1, o2}, name : {<<Ada>>}, roles : Roles]
Others == UpTo(1, [orcidId : {o1, o2}, name : {<<Byron>>}, roles : Roles])
            \cup UpTo(2, [orcidId : {None}, name : {<<Byron>>, <<Ada>>}, roles : {<<"software">>}])
Ids == UpTo(2, [type : {"doi", "isbn"}, value : {t2}, relationship : {"self", "part-of"}])
Months == {<<3>>, <<0, 3>>, <<1, 2>>, <<1, 2, 3>>}
Dates == {<<<<2, 0, 2, 2>>>> \o d : d \in UpTo(2, Months) \cup {<<<<1>>, <<1>>, <<1>>>>}}

MCNewWorks ==
    {[ANewWork EXCEPT !.selfContributor = s, !.otherContributors = cs] : s \in Selves, cs \in Others}
    \cup {[ANewWork EXCEPT !.externalIds = xs] : xs \in Ids}
    \cup {[ANewWork EXCEPT !.date = d] : d \in Dates}

MCEdits(w) ==
    {[w EXCEPT !.otherContributors =
        <<[orcidId |-> o2, name |-> <<Byron>>, roles |-> <<"resources", "software">>]>>],
     [w EXCEPT !.externalIds = <<[type |-> "doi", value |-> t2, relationship |-> "self"]>>],
     [w EXCEPT !.date = <<<<2, 0, 2, 2>>, <<3>>, <<0, 3>>>>]}
=============================================================================
