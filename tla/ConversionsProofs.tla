------------------------- MODULE ConversionsProofs --------------------------
(***************************************************************************)
(* What holds of the conversions for every work, date and profile.         *)
(***************************************************************************)
EXTENDS Conversions, TLAPS, FiniteSetTheorems, SequenceTheorems, WellFoundedInduction

-----------------------------------------------------------------------------
(* Stripping zeros from a two-digit month or day (nopad in to_service) and *)
(* padding it again (rjust in to_orcid) gives it back, "00" included.      *)
LEMMA PadsBack ==
    ASSUME NEW a \in 0..9, NEW b \in 0..9
    PROVE  rjust(nopad(<<a, b>>)) = <<a, b>>
<1> DEFINE p == <<a, b>>
           zeros == {n \in DOMAIN p : \A k \in 1..n : p[k] = 0}
<1>1. p \in Seq(0..9) /\ Len(p) = 2 /\ p[1] = a /\ p[2] = b
    OBVIOUS
<1>2. DOMAIN p = {1, 2}
    OBVIOUS
<1>3. nopad(p) = SubSeq(p, 1 + Cardinality(zeros), 2)
    BY <1>1 DEF nopad
<1>4. 1 \in zeros <=> a = 0
    BY <1>1, <1>2
<1>5. 2 \in zeros <=> a = 0 /\ b = 0
    BY <1>1, <1>2
<1>6. zeros \subseteq {1, 2}
    BY <1>2
<1>7. SubSeq(p, 1, 2) = p /\ SubSeq(p, 2, 2) = <<b>> /\ SubSeq(p, 3, 2) = <<>>
    <2>1. SubSeq(p, 1, 2) = p
        BY <1>1, SubSeqFull
    <2>2. SubSeq(p, 3, 2) = <<>>
        BY <1>1, SubSeqEmpty
    <2>3. /\ SubSeq(p, 2, 2) \in Seq(0..9) /\ Len(SubSeq(p, 2, 2)) = 1
          /\ SubSeq(p, 2, 2)[1] = b
        BY <1>1, SubSeqProperties
    <2>4. <<b>> \in Seq(0..9) /\ Len(<<b>>) = 1 /\ <<b>>[1] = b
        OBVIOUS
    <2>5. \A i \in 1..Len(SubSeq(p, 2, 2)) : SubSeq(p, 2, 2)[i] = <<b>>[i]
        BY <2>3, <2>4
    <2>6. SubSeq(p, 2, 2) = <<b>>
        BY <2>3, <2>4, <2>5, SeqEqual, Zenon
    <2> QED
        BY <2>1, <2>2, <2>6
<1>8. rjust(p) = p
    BY <1>1 DEF rjust
<1>9. rjust(<<b>>) = <<0, b>> /\ rjust(<<>>) = <<0, 0>>
    <2>1. Len(<<b>>) = 1
        OBVIOUS
    <2>3. /\ <<0>> \o <<b>> \in Seq(0..9) /\ Len(<<0>> \o <<b>>) = 2
          /\ (<<0>> \o <<b>>)[1] = 0 /\ (<<0>> \o <<b>>)[2] = b
        BY ConcatProperties
    <2>4. <<0, b>> \in Seq(0..9) /\ Len(<<0, b>>) = 2 /\ <<0, b>>[1] = 0 /\ <<0, b>>[2] = b
        OBVIOUS
    <2>5. \A i \in 1..Len(<<0>> \o <<b>>) : (<<0>> \o <<b>>)[i] = <<0, b>>[i]
        BY <2>3, <2>4
    <2>6. <<0>> \o <<b>> = <<0, b>>
        BY <2>3, <2>4, <2>5, SeqEqual, Zenon
    <2>2. Len(<<>>) = 0
        OBVIOUS
    <2> QED
        BY <2>1, <2>2, <2>6 DEF rjust
<1> HIDE DEF zeros, p
<1>10. CASE a # 0
    <2>1. zeros = {}
        BY <1>4, <1>5, <1>6, <1>10
    <2>2. Cardinality(zeros) = 0
        BY <2>1, FS_EmptySet
    <2> QED
        BY <1>3, <1>7, <1>8, <2>2 DEF p
<1>11. CASE a = 0 /\ b # 0
    <2>1. zeros = {1}
        BY <1>4, <1>5, <1>6, <1>11
    <2>2. Cardinality(zeros) = 1
        BY <2>1, FS_Singleton
    <2> QED
        BY <1>3, <1>7, <1>9, <1>11, <2>2 DEF p
<1>12. CASE a = 0 /\ b = 0
    <2>1. zeros = {1} \cup {2}
        BY <1>4, <1>5, <1>6, <1>12
    <2>2. IsFiniteSet({1}) /\ Cardinality({1}) = 1
        BY FS_Singleton
    <2>3. Cardinality(zeros) = 2
        BY <2>1, <2>2, FS_AddElement
    <2> QED
        BY <1>3, <1>7, <1>9, <1>12, <2>3 DEF p
<1> QED
    BY <1>10, <1>11, <1>12

(* The same of a sequence of two digits.                                   *)
LEMMA TwoDigits ==
    ASSUME NEW p \in Seq(0..9), Len(p) = 2
    PROVE  rjust(nopad(p)) = p
<1>1. p[1] \in 0..9 /\ p[2] \in 0..9
    <2>1. 1 \in 1..Len(p) /\ 2 \in 1..Len(p)
        OBVIOUS
    <2> QED
        BY <2>1, ElementOfSeq
<1>2. <<p[1], p[2]>> \in Seq(0..9) /\ Len(<<p[1], p[2]>>) = 2
    BY <1>1
<1>3. \A i \in 1..Len(p) : p[i] = <<p[1], p[2]>>[i]
    BY <1>1, <1>2
<1>4. p = <<p[1], p[2]>>
    BY <1>2, <1>3, SeqEqual, Zenon
<1> QED
    BY <1>1, <1>4, PadsBack

(* A year, a month and a day, put together.                                *)
LEMMA ThreeParts ==
    ASSUME NEW a, NEW b, NEW c
    PROVE  <<a>> \o <<b>> \o <<c>> = <<a, b, c>>
<1> DEFINE S == {a, b, c}
           s == <<a>> \o <<b>>
           t == s \o <<c>>
<1>1. <<a>> \in Seq(S) /\ <<b>> \in Seq(S) /\ <<c>> \in Seq(S)
    OBVIOUS
<1>2. s \in Seq(S) /\ Len(s) = 2 /\ s[1] = a /\ s[2] = b
    BY <1>1, ConcatProperties
<1>3. t \in Seq(S) /\ Len(t) = 3 /\ t[1] = a /\ t[2] = b /\ t[3] = c
    <2> DEFINE u == <<c>>
    <2>1. u \in Seq(S) /\ Len(u) = 1 /\ u[1] = c
        BY <1>1
    <2> HIDE DEF s, u, S
    <2>2. /\ s \o u \in Seq(S) /\ Len(s \o u) = Len(s) + Len(u)
          /\ \A i \in 1..Len(s) + Len(u) :
                (s \o u)[i] = IF i <= Len(s) THEN s[i] ELSE u[i - Len(s)]
        BY <1>2, <2>1, ConcatProperties
    <2>3. Len(s \o u) = 3 /\ (s \o u)[1] = a /\ (s \o u)[2] = b /\ (s \o u)[3] = c
        BY <1>2, <2>1, <2>2
    <2> QED
        BY <2>2, <2>3 DEF u
<1>4. <<a, b, c>> \in Seq(S) /\ Len(<<a, b, c>>) = 3
    OBVIOUS
<1>5. \A i \in 1..Len(t) : t[i] = <<a, b, c>>[i]
    <2> HIDE DEF t
    <2> QED
        BY <1>3
<1> QED
    <2> HIDE DEF t
    <2>1. t = <<a, b, c>>
        BY <1>3, <1>4, <1>5, SeqEqual, Zenon
    <2> QED
        BY <2>1 DEF t

(* A date that ORCID keeps survives the way to the client and back, so     *)
(* saving a work never changes its date, whatever the date.                *)
THEOREM DateRoundTrip ==
    ASSUME NEW d \in Api!FuzzyDate
    PROVE  /\ ~TooManyParts(orcid_date_to_string_date(d))
           /\ parse_date(orcid_date_to_string_date(d)) = d
<1> DEFINE s == orcid_date_to_string_date(d)
<1>1. /\ d = [year |-> d.year, month |-> d.month, day |-> d.day]
      /\ d.year \in Seq(0..9)
      /\ d.month # None => d.month \in Seq(0..9) /\ Len(d.month) = 2
      /\ d.day # None => d.day \in Seq(0..9) /\ Len(d.day) = 2
      /\ d.month = None => d.day = None
    BY DEF Api!FuzzyDate, Api!Date, Api!Optional, Api!Decimal
<1>2. CASE d.month = None
    <2>1. s = <<d.year>>
        BY <1>1, <1>2 DEF orcid_date_to_string_date
    <2> QED
        BY <1>1, <1>2, <2>1 DEF parse_date, TooManyParts
<1>3. CASE d.month # None /\ d.day = None
    <2>1. s = <<d.year>> \o <<nopad(d.month)>> \o <<>>
        BY <1>3 DEF orcid_date_to_string_date
    <2>2. rjust(nopad(d.month)) = d.month
        BY <1>1, <1>3, TwoDigits
    <2> QED
        BY <1>1, <1>3, <2>1, <2>2 DEF parse_date, TooManyParts
<1>4. CASE d.month # None /\ d.day # None
    <2>1. s = <<d.year, nopad(d.month), nopad(d.day)>>
        <3>1. s = <<d.year>> \o <<nopad(d.month)>> \o <<nopad(d.day)>>
            BY <1>4 DEF orcid_date_to_string_date
        <3> QED
            BY <3>1, ThreeParts
    <2>2. rjust(nopad(d.month)) = d.month /\ rjust(nopad(d.day)) = d.day
        BY <1>1, <1>4, TwoDigits
    <2> QED
        BY <1>1, <1>4, <2>1, <2>2 DEF parse_date, TooManyParts
<1> QED
    BY <1>2, <1>3, <1>4

-----------------------------------------------------------------------------
(* transform_work and transform_work_summary agree on every record that    *)
(* the first can show.                                                     *)
LEMMA SummaryOfReadable ==
    ASSUME NEW p, NEW w, Read(p, w).ok
    PROVE  /\ Listed(w).ok
           /\ \A f \in {"putCode", "journal", "workType", "date", "doi", "externalIds"} :
                 Listed(w).value[f] = Read(p, w).value[f]
<1>1. Api!Work(w) /\ Read(p, w) = transform_work(p, w)
    BY DEF Read, ValueError, Raise
<1>2. Api!WorkSummary(w)
    BY <1>1 DEF Api!Work, Api!WorkSummary
<1>3. IdsTransformable(w.external_ids) /\ w.type \in WorkType
    BY <1>1 DEF transform_work, ValueError, ORCIDProfileNamePrivate, Raise
<1>4. Listed(w) = Good([putCode |-> w.put_code, source |-> w.source_name,
               journal |-> w.journal_title, workType |-> w.type,
               date |-> orcid_date_to_string_date(w.publication_date),
               doi |-> SelfDois(w.external_ids)[1].external_id_value,
               externalIds |-> Each(transform_external_id, OtherIds(w.external_ids))])
    BY <1>2, <1>3 DEF Listed, transform_work_summary
<1>5. Read(p, w) # ValueError /\ Read(p, w) # ORCIDProfileNamePrivate
    BY DEF ValueError, ORCIDProfileNamePrivate, Raise
<1>6. /\ Read(p, w).value.putCode = w.put_code
      /\ Read(p, w).value.journal = w.journal_title
      /\ Read(p, w).value.workType = w.type
      /\ Read(p, w).value.date = orcid_date_to_string_date(w.publication_date)
      /\ Read(p, w).value.doi = SelfDois(w.external_ids)[1].external_id_value
      /\ Read(p, w).value.externalIds
            = Each(transform_external_id, OtherIds(w.external_ids))
    BY <1>1, <1>5 DEF transform_work, Good
<1> QED
    BY <1>4, <1>6 DEF Good

(* Every work that get-orcid-work can show, get-orcid-works lists with the *)
(* same fields.                                                            *)
THEOREM ListAgrees == Spec => []SummaryAgrees
<1>1. SummaryAgrees
    BY SummaryOfReadable DEF SummaryAgrees
<1> QED
    BY <1>1, PTL DEF Spec

(* The two readings of the profile's name, in transform_work and in        *)
(* orcid_profile, agree for every profile.                                 *)
LEMMA NameOfReadable ==
    ASSUME NEW p, NEW w, Read(p, w).ok
    PROVE  p.person.name # None /\ Read(p, w).value.selfContributor.name = SelfName(p.person)
<1>1. Read(p, w) = transform_work(p, w)
    BY DEF Read, ValueError, Raise
<1>2. Read(p, w) # ValueError /\ Read(p, w) # ORCIDProfileNamePrivate
    BY DEF ValueError, ORCIDProfileNamePrivate, Raise
<1> QED
    BY <1>1, <1>2 DEF transform_work, Good

(* A work refused for a private name comes from a profile without a name.  *)
LEMMA PrivateOfRefused ==
    ASSUME NEW p, NEW w, Read(p, w) = ORCIDProfileNamePrivate
    PROVE  p.person.name = None
<1>1. ValueError # ORCIDProfileNamePrivate
    BY DEF ValueError, ORCIDProfileNamePrivate, Raise
<1>2. \A v : Good(v) # ORCIDProfileNamePrivate
    BY DEF Good, ORCIDProfileNamePrivate, Raise
<1> QED
    BY <1>1, <1>2 DEF Read, transform_work

(* get-orcid-profile and the works call the name private together.         *)
THEOREM NameReadings == Spec => []NamesAgree
<1>1. NamesAgree
    <2> DEFINE person == profile.person
               group == orcid_profile(profile).nameGroup
    <2>1. group = name_group(person)
        BY DEF orcid_profile
    <2>2. ASSUME Read(profile, work) = ORCIDProfileNamePrivate
          PROVE  group.private
        BY <2>1, <2>2, PrivateOfRefused DEF name_group, Group
    <2>3. ASSUME Read(profile, work).ok
          PROVE  /\ ~group.private
                 /\ Read(profile, work).value.selfContributor.name \in
                       {group.fields.creditName, <<group.fields.firstName>>,
                        <<group.fields.firstName, group.fields.lastName>>}
        <3>1. /\ person.name # None
              /\ Read(profile, work).value.selfContributor.name = SelfName(person)
            BY <2>3, NameOfReadable
        <3>2. group = [private |-> FALSE, fields |-> NameFields(person.name)]
            BY <2>1, <3>1 DEF name_group, Group
        <3>3. /\ group.fields.firstName = person.name.given_names
              /\ group.fields.lastName = person.name.family_name
              /\ group.fields.creditName = person.name.credit_name
            BY <3>2 DEF NameFields
        <3>4. SelfName(person) \in
                {person.name.credit_name, <<person.name.given_names>>,
                 <<person.name.given_names, person.name.family_name>>}
            BY DEF SelfName
        <3>5. ~group.private
            BY <3>2
        <3> QED
            BY <3>1, <3>3, <3>4, <3>5
    <2> QED
        BY <2>2, <2>3 DEF NamesAgree
<1> QED
    BY <1>1, PTL DEF Spec
-----------------------------------------------------------------------------
(* Sequences and loops.  Induction over the natural numbers, with a set    *)
(* for the property.                                                       *)
LEMMA Smallest ==
    ASSUME NEW T, T \subseteq Nat, T # {}
    PROVE  \E x \in T : \A y \in T : ~(y < x)
<1>1. IsWellFoundedOn(OpToRel(<, Nat), Nat)
    BY NatLessThanWellFounded
<1>2. \E x \in T : \A y \in T : ~ (<<y, x>> \in OpToRel(<, Nat))
    BY <1>1, WFMin
<1> QED
    BY <1>2 DEF OpToRel

(* What holds of 0, and of a successor if of the number, holds of all.     *)
LEMMA Induction ==
    ASSUME NEW P, 0 \in P, \A n \in Nat : n \in P => n + 1 \in P
    PROVE  Nat \subseteq P
<1> DEFINE T == {n \in Nat : n \notin P}
<1>1. CASE T # {}
    <2>1. PICK x \in T : \A y \in T : ~(y < x)
        BY <1>1, Smallest
    <2>2. x # 0 /\ x - 1 \in Nat
        OBVIOUS
    <2>3. x - 1 \in P
        BY <2>1, <2>2
    <2> QED
        BY <2>2, <2>3
<1> QED
    BY <1>1

(* The loops of the translators: what Kept has after each element.         *)
Steps(s, S) ==
    CHOOSE f : f = [n \in 0..Len(s) |->
            IF n = 0 THEN <<>>
            ELSE IF s[n] \in S THEN Append(f[n - 1], s[n]) ELSE f[n - 1]]

(* The recursion defines what it says.                                     *)
LEMMA StepsAre ==
    ASSUME NEW s, Len(s) \in Nat, NEW S
    PROVE  /\ Steps(s, S) = [n \in 0..Len(s) |->
                  IF n = 0 THEN <<>>
                  ELSE IF s[n] \in S THEN Append(Steps(s, S)[n - 1], s[n]) ELSE Steps(s, S)[n - 1]]
           /\ Kept(s, S) = Steps(s, S)[Len(s)]
<1> DEFINE Upto(k) ==
        \E f : f = [n \in 0..k |->
            IF n = 0 THEN <<>>
            ELSE IF s[n] \in S THEN Append(f[n - 1], s[n]) ELSE f[n - 1]]
<1> DEFINE P == {k \in Nat : Upto(k)}
<1>1. 0 \in P
    <2> DEFINE f == [n \in 0..0 |-> <<>>]
    <2>1. f = [n \in 0..0 |-> IF n = 0 THEN <<>>
            ELSE IF s[n] \in S THEN Append(f[n - 1], s[n]) ELSE f[n - 1]]
        OBVIOUS
    <2> HIDE DEF f
    <2> QED
        BY <2>1
<1>2. ASSUME NEW k \in Nat, k \in P
      PROVE  k + 1 \in P
    <2>1. PICK f : f = [n \in 0..k |->
            IF n = 0 THEN <<>>
            ELSE IF s[n] \in S THEN Append(f[n - 1], s[n]) ELSE f[n - 1]]
        BY <1>2
    <2> DEFINE g == [n \in 0..(k + 1) |->
            IF n <= k THEN f[n]
            ELSE IF s[n] \in S THEN Append(f[n - 1], s[n]) ELSE f[n - 1]]
    <2>2. \A n \in 0..k : g[n] = f[n]
        OBVIOUS
    <2>3. g = [n \in 0..(k + 1) |->
            IF n = 0 THEN <<>>
            ELSE IF s[n] \in S THEN Append(g[n - 1], s[n]) ELSE g[n - 1]]
        <3>1. ASSUME NEW n \in 0..(k + 1)
              PROVE  g[n] = IF n = 0 THEN <<>>
                            ELSE IF s[n] \in S THEN Append(g[n - 1], s[n]) ELSE g[n - 1]
            <4>1. CASE n <= k
                <5>1. g[n] = IF n = 0 THEN <<>>
                             ELSE IF s[n] \in S THEN Append(f[n - 1], s[n]) ELSE f[n - 1]
                    <6>1. n \in 0..k
                        BY <4>1
                    <6> HIDE DEF g
                    <6>2. f[n] = IF n = 0 THEN <<>>
                             ELSE IF s[n] \in S THEN Append(f[n - 1], s[n]) ELSE f[n - 1]
                        BY <2>1, <6>1
                    <6> QED
                        BY <2>2, <6>1, <6>2
                <5> QED
                    BY <2>2, <4>1, <5>1
            <4>2. CASE n = k + 1
                BY <2>2, <4>2
            <4> QED
                BY <4>1, <4>2
        <3>2. g = [n \in 0..(k + 1) |-> g[n]]
            OBVIOUS
        <3> HIDE DEF g
        <3> QED
            BY <3>1, <3>2
    <2> HIDE DEF g
    <2> QED
        BY <2>3
<1>3. Nat \subseteq P
    <2> HIDE DEF P
    <2> QED
        BY <1>1, <1>2, Induction
<1>4. Upto(Len(s))
    BY <1>3
<1>5. Kept(s, S) = Steps(s, S)[Len(s)]
    BY DEF Kept, Steps
<1> QED
    BY <1>4, <1>5 DEF Steps

(* The same, element by element.                                           *)
LEMMA StepsTable ==
    ASSUME NEW s, Len(s) \in Nat, NEW S
    PROVE  /\ Steps(s, S)[0] = <<>>
           /\ \A n \in 1..Len(s) :
                 Steps(s, S)[n] = IF s[n] \in S THEN Append(Steps(s, S)[n - 1], s[n])
                                  ELSE Steps(s, S)[n - 1]
           /\ Kept(s, S) = Steps(s, S)[Len(s)]
<1> DEFINE f == Steps(s, S)
<1>1. f = [n \in 0..Len(s) |->
              IF n = 0 THEN <<>>
              ELSE IF s[n] \in S THEN Append(f[n - 1], s[n]) ELSE f[n - 1]]
    BY StepsAre
<1>2. Kept(s, S) = f[Len(s)]
    BY StepsAre
<1> HIDE DEF f
<1>3. f[0] = <<>>
    <2>1. 0 \in 0..Len(s)
        OBVIOUS
    <2> QED
        BY <1>1, <2>1
<1>4. \A n \in 1..Len(s) :
        f[n] = IF s[n] \in S THEN Append(f[n - 1], s[n]) ELSE f[n - 1]
    <2> TAKE n \in 1..Len(s)
    <2>1. n \in 0..Len(s) /\ n # 0
        OBVIOUS
    <2> QED
        BY <1>1, <2>1
<1> QED
    BY <1>2, <1>3, <1>4 DEF f

(* A loop over nothing.                                                    *)
LEMMA KeptNone ==
    ASSUME NEW S
    PROVE  Kept(<<>>, S) = <<>>
<1>1. Len(<<>>) = 0
    OBVIOUS
<1> QED
    BY <1>1, StepsTable

(* And over one more element.                                              *)
LEMMA KeptAppend ==
    ASSUME NEW R, NEW s \in Seq(R), NEW e \in R, NEW S
    PROVE  Kept(Append(s, e), S) = IF e \in S THEN Append(Kept(s, S), e) ELSE Kept(s, S)
<1> DEFINE t == Append(s, e)
           f == Steps(s, S)
           g == Steps(t, S)
           P == {n \in Nat : n <= Len(s) => g[n] = f[n]}
<1>1. /\ Len(s) \in Nat /\ Len(t) = Len(s) + 1 /\ Len(t) \in Nat
      /\ t[Len(t)] = e /\ \A i \in 1..Len(s) : t[i] = s[i]
    BY LenProperties, AppendProperties
<1> HIDE DEF t
<1>2. /\ f[0] = <<>> /\ Kept(s, S) = f[Len(s)]
      /\ \A n \in 1..Len(s) :
            f[n] = IF s[n] \in S THEN Append(f[n - 1], s[n]) ELSE f[n - 1]
    BY <1>1, StepsTable
<1>3. /\ g[0] = <<>> /\ Kept(t, S) = g[Len(t)]
      /\ \A n \in 1..Len(t) :
            g[n] = IF t[n] \in S THEN Append(g[n - 1], t[n]) ELSE g[n - 1]
    BY <1>1, StepsTable
<1> HIDE DEF f, g
<1>4. 0 \in P
    BY <1>2, <1>3
<1>5. ASSUME NEW n \in Nat, n \in P
      PROVE  n + 1 \in P
    <2> SUFFICES ASSUME n + 1 <= Len(s)
                 PROVE  g[n + 1] = f[n + 1]
        OBVIOUS
    <2>1. g[n] = f[n]
        BY <1>1, <1>5
    <2>2. f[n + 1] = IF s[n + 1] \in S THEN Append(f[n], s[n + 1]) ELSE f[n]
        BY <1>1, <1>2
    <2>3. g[n + 1] = IF t[n + 1] \in S THEN Append(g[n], t[n + 1]) ELSE g[n]
        BY <1>1, <1>3
    <2>4. t[n + 1] = s[n + 1]
        BY <1>1
    <2> QED
        BY <2>1, <2>2, <2>3, <2>4
<1>6. Nat \subseteq P
    <2> HIDE DEF P
    <2> QED
        BY <1>4, <1>5, Induction
<1>7. g[Len(s)] = f[Len(s)]
    BY <1>1, <1>6
<1>8. g[Len(t)] = IF t[Len(t)] \in S THEN Append(g[Len(s)], t[Len(t)]) ELSE g[Len(s)]
    BY <1>1, <1>3
<1> QED
    BY <1>1, <1>2, <1>3, <1>7, <1>8 DEF t

(* Induction over sequences, with a set for the property.                  *)
LEMMA SeqInduction ==
    ASSUME NEW R, NEW P, <<>> \in P,
           \A s \in Seq(R), e \in R : s \in P => Append(s, e) \in P
    PROVE  Seq(R) \subseteq P
<1> DEFINE Q == {n \in Nat : \A s \in Seq(R) : Len(s) = n => s \in P}
<1>1. 0 \in Q
    BY EmptySeq
<1>2. ASSUME NEW n \in Nat, n \in Q
      PROVE  n + 1 \in Q
    <2> SUFFICES ASSUME NEW s \in Seq(R), Len(s) = n + 1
                 PROVE  s \in P
        OBVIOUS
    <2>1. s # <<>>
        BY EmptySeq
    <2>2. PICK t \in Seq(R), e \in R : s = Append(t, e)
        BY <2>1, SequenceEmptyOrAppend
    <2>3. Len(t) = n
        BY <2>2, AppendProperties, LenProperties
    <2> QED
        BY <1>2, <2>2, <2>3
<1>3. Nat \subseteq Q
    <2> HIDE DEF Q
    <2> QED
        BY <1>1, <1>2, Induction
<1> QED
    BY <1>3, LenProperties

(* A loop keeps elements of the sequence, and of the set.                  *)
LEMMA KeptTyped ==
    ASSUME NEW R, NEW s \in Seq(R), NEW S
    PROVE  Kept(s, S) \in Seq(R \cap S)
<1> DEFINE P == {u \in Seq(R) : Kept(u, S) \in Seq(R \cap S)}
<1>1. <<>> \in P
    BY KeptNone, EmptySeq
<1>2. ASSUME NEW u \in Seq(R), NEW e \in R, u \in P
      PROVE  Append(u, e) \in P
    <2>1. Append(u, e) \in Seq(R) /\ Kept(u, S) \in Seq(R \cap S)
        BY <1>2, AppendProperties
    <2>2. e \in S => Append(Kept(u, S), e) \in Seq(R \cap S)
        BY <2>1, AppendProperties
    <2> QED
        BY <2>1, <2>2, KeptAppend
<1>3. Seq(R) \subseteq P
    <2> HIDE DEF P
    <2> QED
        BY <1>1, <1>2, SeqInduction
<1> QED
    BY <1>3

(* And so elements of the sequence.                                        *)
LEMMA KeptIn ==
    ASSUME NEW R, NEW s \in Seq(R), NEW S
    PROVE  Kept(s, S) \in Seq(R) /\ Len(Kept(s, S)) \in Nat
<1>1. Kept(s, S) \in Seq(R \cap S)
    BY KeptTyped
<1>2. Kept(s, S) \in Seq(R)
    BY <1>1, SeqMonotonic
<1> QED
    BY <1>2, LenProperties

(* Only what the set says of the elements matters.                         *)
LEMMA KeptSame ==
    ASSUME NEW R, NEW s \in Seq(R), NEW S, NEW T,
           \A i \in 1..Len(s) : s[i] \in S <=> s[i] \in T
    PROVE  Kept(s, S) = Kept(s, T)
<1> DEFINE P == {u \in Seq(R) : (\A i \in 1..Len(u) : u[i] \in S <=> u[i] \in T)
                                   => Kept(u, S) = Kept(u, T)}
<1>1. <<>> \in P
    BY KeptNone, EmptySeq
<1>2. ASSUME NEW u \in Seq(R), NEW e \in R, u \in P
      PROVE  Append(u, e) \in P
    <2> DEFINE v == Append(u, e)
    <2>1. /\ v \in Seq(R) /\ Len(v) = Len(u) + 1 /\ v[Len(u) + 1] = e
          /\ Len(u) \in Nat /\ \A i \in 1..Len(u) : v[i] = u[i]
        BY AppendProperties, LenProperties
    <2>2. /\ Kept(v, S) = IF e \in S THEN Append(Kept(u, S), e) ELSE Kept(u, S)
          /\ Kept(v, T) = IF e \in T THEN Append(Kept(u, T), e) ELSE Kept(u, T)
        BY KeptAppend
    <2> HIDE DEF v
    <2>3. ASSUME \A i \in 1..Len(v) : v[i] \in S <=> v[i] \in T
          PROVE  Kept(v, S) = Kept(v, T)
        <3>1. e \in S <=> e \in T
            BY <2>1, <2>3
        <3>2. \A i \in 1..Len(u) : u[i] \in S <=> u[i] \in T
            BY <2>1, <2>3
        <3> QED
            BY <1>2, <2>2, <3>1, <3>2
    <2> QED
        BY <2>1, <2>3 DEF v
<1>3. Seq(R) \subseteq P
    <2> HIDE DEF P
    <2> QED
        BY <1>1, <1>2, SeqInduction
<1> QED
    BY <1>3

(* A function on 1..n is a sequence.                                       *)
LEMMA FunIsSeq ==
    ASSUME NEW K, NEW n \in Nat, NEW f \in [1..n -> K]
    PROVE  f \in Seq(K) /\ Len(f) = n
BY SeqDef

(* A sequence, element by element.                                         *)
LEMMA SeqFun ==
    ASSUME NEW K, NEW s \in Seq(K), NEW L, NEW f, f = [i \in DOMAIN s |-> f[i]],
           \A i \in DOMAIN s : f[i] \in L
    PROVE  f \in Seq(L) /\ Len(f) = Len(s) /\ DOMAIN f = DOMAIN s
<1>1. Len(s) \in Nat /\ DOMAIN s = 1..Len(s)
    BY LenProperties
<1>2. f \in [1..Len(s) -> L]
    BY <1>1
<1>3. f \in Seq(L) /\ Len(f) = Len(s)
    <2> DEFINE n == Len(s)
    <2>1. n \in Nat /\ f \in [1..n -> L]
        BY <1>1, <1>2
    <2> HIDE DEF n
    <2>2. f \in Seq(L) /\ Len(f) = n
        BY <2>1, FunIsSeq
    <2> QED
        BY <2>2 DEF n
<1>4. DOMAIN f = DOMAIN s
    OBVIOUS
<1> QED
    BY <1>3, <1>4

(* A sequence in a set, elements of which are in another.                  *)
LEMMA SeqIn ==
    ASSUME NEW K, NEW s \in Seq(K), NEW L, \A x \in ToSet(s) : x \in L
    PROVE  s \in Seq(L)
<1>1. s \in [1..Len(s) -> K] /\ DOMAIN s = 1..Len(s)
    BY LenProperties
<1>2. s = [i \in DOMAIN s |-> s[i]]
    BY <1>1
<1>3. \A i \in DOMAIN s : s[i] \in L
    BY DEF ToSet
<1> QED
    BY <1>2, <1>3, SeqFun

(* A sequence is one of its own elements.                                  *)
LEMMA OfItsElements ==
    ASSUME NEW R, NEW s \in Seq(R)
    PROVE  s \in Seq(ToSet(s))
BY SeqIn

(* What a loop comes across in two sequences, one after the other.         *)
LEMMA KeptConcat ==
    ASSUME NEW R, NEW s \in Seq(R), NEW t \in Seq(R), NEW S
    PROVE  Kept(s \o t, S) = Kept(s, S) \o Kept(t, S)
<1> DEFINE P == {u \in Seq(R) : Kept(s \o u, S) = Kept(s, S) \o Kept(u, S)}
<1>1. <<>> \in P
    <2>1. s \o <<>> = s
        BY ConcatEmptySeq
    <2>2. Kept(s, S) \o <<>> = Kept(s, S)
        BY KeptTyped, ConcatEmptySeq
    <2> QED
        BY <2>1, <2>2, KeptNone, EmptySeq
<1>2. ASSUME NEW u \in Seq(R), NEW e \in R, u \in P
      PROVE  Append(u, e) \in P
    <2>1. s \o Append(u, e) = Append(s \o u, e)
        <3>1. Append(u, e) = u \o <<e>> /\ <<e>> \in Seq(R)
            BY AppendIsConcat
        <3>2. s \o u \in Seq(R)
            BY ConcatProperties
        <3>3. Append(s \o u, e) = (s \o u) \o <<e>>
            BY <3>2, AppendIsConcat
        <3> QED
            BY <3>1, <3>3, ConcatAssociative
    <2>2. Kept(s \o Append(u, e), S)
            = IF e \in S THEN Append(Kept(s \o u, S), e) ELSE Kept(s \o u, S)
        BY <2>1, ConcatProperties, KeptAppend
    <2>3. Kept(Append(u, e), S) = IF e \in S THEN Append(Kept(u, S), e) ELSE Kept(u, S)
        BY KeptAppend
    <2>4. Kept(s \o u, S) = Kept(s, S) \o Kept(u, S)
        BY <1>2
    <2>5. Append(Kept(s, S) \o Kept(u, S), e) = Kept(s, S) \o Append(Kept(u, S), e)
        <3> DEFINE a == Kept(s, S)
                   b == Kept(u, S)
        <3>1. a \in Seq(R) /\ b \in Seq(R)
            BY KeptIn
        <3> HIDE DEF a, b
        <3>2. a \o b \in Seq(R) /\ <<e>> \in Seq(R)
            BY <3>1, ConcatProperties
        <3>3. Append(a \o b, e) = (a \o b) \o <<e>> /\ Append(b, e) = b \o <<e>>
            BY <3>1, <3>2, AppendIsConcat
        <3>4. Append(a \o b, e) = a \o Append(b, e)
            BY <3>1, <3>2, <3>3, ConcatAssociative
        <3> QED
            BY <3>4 DEF a, b
    <2>6. Append(u, e) \in Seq(R)
        BY AppendProperties
    <2>7. Kept(s \o Append(u, e), S) = Kept(s, S) \o Kept(Append(u, e), S)
        BY <2>2, <2>3, <2>4, <2>5
    <2> QED
        BY <2>6, <2>7
<1>3. Seq(R) \subseteq P
    <2> HIDE DEF P
    <2> QED
        BY <1>1, <1>2, SeqInduction
<1> QED
    BY <1>3

(* A loop that keeps everything.                                           *)
LEMMA KeptAll ==
    ASSUME NEW R, NEW s \in Seq(R), NEW S, R \subseteq S
    PROVE  Kept(s, S) = s
<1> DEFINE P == {u \in Seq(R) : Kept(u, S) = u}
<1>1. <<>> \in P
    BY KeptNone, EmptySeq
<1>2. ASSUME NEW u \in Seq(R), NEW e \in R, u \in P
      PROVE  Append(u, e) \in P
    BY <1>2, KeptAppend, AppendProperties
<1>3. Seq(R) \subseteq P
    <2> HIDE DEF P
    <2> QED
        BY <1>1, <1>2, SeqInduction
<1> QED
    BY <1>3

(* One that keeps nothing.                                                 *)
LEMMA KeptNothing ==
    ASSUME NEW R, NEW s \in Seq(R), NEW S, R \cap S = {}
    PROVE  Kept(s, S) = <<>>
<1> DEFINE P == {u \in Seq(R) : Kept(u, S) = <<>>}
<1>1. <<>> \in P
    BY KeptNone, EmptySeq
<1>2. ASSUME NEW u \in Seq(R), NEW e \in R, u \in P
      PROVE  Append(u, e) \in P
    <2>1. e \notin S
        OBVIOUS
    <2> QED
        BY <1>2, <2>1, KeptAppend, AppendProperties
<1>3. Seq(R) \subseteq P
    <2> HIDE DEF P
    <2> QED
        BY <1>1, <1>2, SeqInduction
<1> QED
    BY <1>3

(* A loop misses no element that is in the set.                            *)
LEMMA KeptHas ==
    ASSUME NEW R, NEW s \in Seq(R), NEW S, NEW i \in 1..Len(s), s[i] \in S
    PROVE  \E k \in 1..Len(Kept(s, S)) : Kept(s, S)[k] = s[i]
<1> DEFINE P == {u \in Seq(R) : \A j \in 1..Len(u) : u[j] \in S
                    => \E k \in 1..Len(Kept(u, S)) : Kept(u, S)[k] = u[j]}
<1>1. <<>> \in P
    BY EmptySeq
<1>2. ASSUME NEW u \in Seq(R), NEW e \in R, u \in P
      PROVE  Append(u, e) \in P
    <2> DEFINE v == Append(u, e)
               a == Kept(u, S)
               b == Kept(v, S)
    <2>1. /\ v \in Seq(R) /\ Len(v) = Len(u) + 1 /\ v[Len(u) + 1] = e
          /\ Len(u) \in Nat /\ \A j \in 1..Len(u) : v[j] = u[j]
        BY AppendProperties, LenProperties
    <2>2. b = IF e \in S THEN Append(a, e) ELSE a
        BY KeptAppend
    <2>3. a \in Seq(R) /\ Len(a) \in Nat
        BY KeptIn
    <2>4. /\ Len(Append(a, e)) = Len(a) + 1 /\ Append(a, e)[Len(a) + 1] = e
          /\ \A k \in 1..Len(a) : Append(a, e)[k] = a[k]
        BY <2>3, AppendProperties
    <2>5. \A j \in 1..Len(u) : u[j] \in S => \E k \in 1..Len(a) : a[k] = u[j]
        BY <1>2
    <2> HIDE DEF v, a, b
    <2>6. ASSUME NEW j \in 1..Len(v), v[j] \in S
          PROVE  \E k \in 1..Len(b) : b[k] = v[j]
        <3>1. CASE j = Len(u) + 1
            <4>1. b = Append(a, e) /\ v[j] = e
                BY <2>1, <2>2, <2>6, <3>1
            <4>2. Len(a) + 1 \in 1..Len(b) /\ b[Len(a) + 1] = e
                BY <2>3, <2>4, <4>1
            <4> QED
                BY <4>1, <4>2
        <3>2. CASE j # Len(u) + 1
            <4>1. j \in 1..Len(u) /\ v[j] = u[j]
                BY <2>1, <3>2
            <4>2. PICK k \in 1..Len(a) : a[k] = u[j]
                BY <2>5, <2>6, <4>1
            <4>3. k \in 1..Len(b) /\ b[k] = a[k]
                BY <2>2, <2>3, <2>4
            <4> QED
                BY <4>1, <4>2, <4>3
        <3> QED
            BY <3>1, <3>2
    <2> QED
        BY <2>1, <2>6 DEF v, b
<1>3. Seq(R) \subseteq P
    <2> HIDE DEF P
    <2> QED
        BY <1>1, <1>2, SeqInduction
<1> QED
    BY <1>3

(* A loop repeats nothing that the sequence does not repeat.               *)
LEMMA KeptOnce ==
    ASSUME NEW R, NEW s \in Seq(R), NEW S,
           \A i, j \in 1..Len(s) : s[i] = s[j] => i = j
    PROVE  \A k, l \in 1..Len(Kept(s, S)) : Kept(s, S)[k] = Kept(s, S)[l] => k = l
<1> DEFINE Once(u) == \A i, j \in 1..Len(u) : u[i] = u[j] => i = j
           P == {u \in Seq(R) : Once(u) => Once(Kept(u, S))}
<1>1. <<>> \in P
    BY KeptNone, EmptySeq
<1>2. ASSUME NEW u \in Seq(R), NEW e \in R, u \in P
      PROVE  Append(u, e) \in P
    <2> DEFINE v == Append(u, e)
               a == Kept(u, S)
               b == Kept(v, S)
    <2>1. /\ v \in Seq(R) /\ Len(v) = Len(u) + 1 /\ v[Len(u) + 1] = e
          /\ Len(u) \in Nat /\ DOMAIN u = 1..Len(u) /\ \A j \in 1..Len(u) : v[j] = u[j]
        BY AppendProperties, LenProperties
    <2>2. b = IF e \in S THEN Append(a, e) ELSE a
        BY KeptAppend
    <2>3. a \in Seq(R) /\ Len(a) \in Nat
        BY KeptIn
    <2>4. /\ Len(Append(a, e)) = Len(a) + 1 /\ Append(a, e)[Len(a) + 1] = e
          /\ \A k \in 1..Len(a) : Append(a, e)[k] = a[k]
        BY <2>3, AppendProperties
    <2>5. \A k \in 1..Len(a) : a[k] \in ToSet(u)
        <3>1. a \in Seq(ToSet(u) \cap S)
            BY OfItsElements, KeptTyped
        <3> QED
            BY <3>1, ElementOfSeq
    <2>6. Once(u) => Once(a)
        BY <1>2
    <2> HIDE DEF v, a, b
    <2>7. ASSUME Once(v)
          PROVE  Once(b)
        <3>1. Once(u)
            BY <2>1, <2>7
        <3>2. \A k \in 1..Len(a) : a[k] # e
            <4> TAKE k \in 1..Len(a)
            <4>1. PICK j \in 1..Len(u) : a[k] = u[j]
                BY <2>1, <2>5 DEF ToSet
            <4>2. v[j] # v[Len(u) + 1]
                BY <2>1, <2>7
            <4> QED
                BY <2>1, <4>1, <4>2
        <3>3. CASE e \notin S
            BY <2>2, <2>6, <3>1, <3>3
        <3>4. CASE e \in S
            <4>1. b = Append(a, e)
                BY <2>2, <3>4
            <4>2. ASSUME NEW k \in 1..Len(b), NEW l \in 1..Len(b), b[k] = b[l]
                  PROVE  k = l
                <5>1. CASE k \in 1..Len(a) /\ l \in 1..Len(a)
                    BY <2>4, <2>6, <3>1, <4>1, <4>2, <5>1
                <5>2. CASE k = Len(a) + 1 /\ l \in 1..Len(a)
                    BY <2>3, <2>4, <3>2, <4>1, <4>2, <5>2
                <5>3. CASE k \in 1..Len(a) /\ l = Len(a) + 1
                    BY <2>3, <2>4, <3>2, <4>1, <4>2, <5>3
                <5> QED
                    BY <2>3, <2>4, <4>1, <5>1, <5>2, <5>3
            <4> QED
                BY <4>2
        <3> QED
            BY <3>3, <3>4
    <2> QED
        BY <2>1, <2>7 DEF v, b
<1>3. Seq(R) \subseteq P
    <2> HIDE DEF P
    <2> QED
        BY <1>1, <1>2, SeqInduction
<1> QED
    BY <1>3

(* A loop over what another has kept.                                      *)
LEMMA KeptTwice ==
    ASSUME NEW R, NEW s \in Seq(R), NEW S, NEW T
    PROVE  Kept(Kept(s, S), T) = Kept(s, S \cap T)
<1> DEFINE P == {u \in Seq(R) : Kept(Kept(u, S), T) = Kept(u, S \cap T)}
<1>1. <<>> \in P
    BY KeptNone, EmptySeq
<1>2. ASSUME NEW u \in Seq(R), NEW e \in R, u \in P
      PROVE  Append(u, e) \in P
    <2>1. Append(u, e) \in Seq(R)
        BY AppendProperties
    <2>2. Kept(Append(u, e), S) = IF e \in S THEN Append(Kept(u, S), e) ELSE Kept(u, S)
        BY KeptAppend
    <2>3. Kept(Append(u, e), S \cap T)
            = IF e \in S \cap T THEN Append(Kept(u, S \cap T), e) ELSE Kept(u, S \cap T)
        BY KeptAppend
    <2>4. Kept(u, S) \in Seq(R)
        BY KeptIn
    <2>5. Kept(Append(Kept(u, S), e), T)
            = IF e \in T THEN Append(Kept(Kept(u, S), T), e) ELSE Kept(Kept(u, S), T)
        BY <2>4, KeptAppend
    <2>6. Kept(Kept(u, S), T) = Kept(u, S \cap T)
        BY <1>2
    <2>7. Kept(Kept(Append(u, e), S), T) = Kept(Append(u, e), S \cap T)
        <3>1. CASE e \in S
            <4>1. Kept(Append(u, e), S) = Append(Kept(u, S), e)
                BY <2>2, <3>1
            <4>2. Kept(Kept(Append(u, e), S), T)
                    = IF e \in T THEN Append(Kept(u, S \cap T), e) ELSE Kept(u, S \cap T)
                BY <2>5, <2>6, <4>1
            <4>3. e \in T <=> e \in S \cap T
                BY <3>1
            <4> QED
                BY <2>3, <4>2, <4>3
        <3>2. CASE e \notin S
            BY <2>2, <2>3, <2>6, <3>2
        <3> QED
            BY <3>1, <3>2
    <2> QED
        BY <2>1, <2>7
<1>3. Seq(R) \subseteq P
    <2> HIDE DEF P
    <2> QED
        BY <1>1, <1>2, SeqInduction
<1> QED
    BY <1>3

(* And how many elements it keeps.                                         *)
LEMMA KeptCount ==
    ASSUME NEW R, NEW s \in Seq(R), NEW S
    PROVE  Cardinality({i \in DOMAIN s : s[i] \in S}) = Len(Kept(s, S))
<1> DEFINE at(u) == {i \in 1..Len(u) : u[i] \in S}
           P == {u \in Seq(R) : IsFiniteSet(at(u)) /\ Cardinality(at(u)) = Len(Kept(u, S))}
<1>1. <<>> \in P
    <2>1. at(<<>>) = {} /\ Len(<<>>) = 0
        BY EmptySeq
    <2> QED
        BY <2>1, KeptNone, EmptySeq, FS_EmptySet
<1>2. ASSUME NEW u \in Seq(R), NEW e \in R, u \in P
      PROVE  Append(u, e) \in P
    <2> DEFINE v == Append(u, e)
               a == Kept(u, S)
               b == Kept(v, S)
    <2>1. /\ v \in Seq(R) /\ Len(v) = Len(u) + 1 /\ v[Len(u) + 1] = e
          /\ Len(u) \in Nat /\ \A j \in 1..Len(u) : v[j] = u[j]
        BY AppendProperties, LenProperties
    <2>2. b = IF e \in S THEN Append(a, e) ELSE a
        BY KeptAppend
    <2>3. a \in Seq(R) /\ Len(a) \in Nat
        BY KeptIn
    <2>4. Len(Append(a, e)) = Len(a) + 1
        BY <2>3, AppendProperties
    <2>5. IsFiniteSet(at(u)) /\ Cardinality(at(u)) = Len(a)
        BY <1>2
    <2> HIDE DEF v, a, b
    <2>6. CASE e \notin S
        <3>1. at(v) = at(u)
            BY <2>1, <2>6
        <3> QED
            BY <2>1, <2>2, <2>5, <2>6, <3>1 DEF v, b
    <2>7. CASE e \in S
        <3>1. at(v) = at(u) \cup {Len(u) + 1} /\ Len(u) + 1 \notin at(u)
            BY <2>1, <2>7
        <3> HIDE DEF at
        <3>2. IsFiniteSet(at(v)) /\ Cardinality(at(v)) = Cardinality(at(u)) + 1
            BY <2>5, <3>1, FS_AddElement
        <3> QED
            BY <2>1, <2>2, <2>4, <2>5, <2>7, <3>2 DEF v, b, at
    <2> QED
        BY <2>6, <2>7
<1>3. Seq(R) \subseteq P
    <2> HIDE DEF P
    <2> QED
        BY <1>1, <1>2, SeqInduction
<1>4. {i \in DOMAIN s : s[i] \in S} = at(s)
    BY LenProperties
<1> QED
    BY <1>3, <1>4

(* Two sequences, one after the other, taken apart again by a loop.        *)
LEMMA TakenApart ==
    ASSUME NEW S, NEW T, S \cap T = {}, NEW a \in Seq(S), NEW b \in Seq(T)
    PROVE  Kept(a \o b, S) = a /\ Kept(a \o b, T) = b
<1>1. Kept(a, S) = a /\ Kept(a, T) = <<>>
    BY KeptAll, KeptNothing
<1>2. Kept(b, T) = b /\ Kept(b, S) = <<>>
    <2>1. T \cap S = {}
        OBVIOUS
    <2> QED
        BY <2>1, KeptAll, KeptNothing
<1>3. Kept(a \o b, S) = Kept(a, S) \o Kept(b, S) /\ Kept(a \o b, T) = Kept(a, T) \o Kept(b, T)
    <2>1. PICK R : R = S \cup T
        OBVIOUS
    <2>2. a \in Seq(R) /\ b \in Seq(R)
        <3>1. S \subseteq R /\ T \subseteq R
            BY <2>1
        <3> QED
            BY <3>1, SeqMonotonic
    <2> QED
        BY <2>2, KeptConcat
<1>4. a \o <<>> = a /\ <<>> \o b = b
    BY ConcatEmptySeq
<1> QED
    BY <1>1, <1>2, <1>3, <1>4

(* The elements of a sequence put together of two.                         *)
LEMMA JoinedElements ==
    ASSUME NEW R, NEW a \in Seq(R), NEW b \in Seq(R)
    PROVE  /\ a \o b \in Seq(R)
           /\ \A i \in DOMAIN a : a[i] \in ToSet(a \o b)
           /\ \A i \in DOMAIN b : b[i] \in ToSet(a \o b)
<1> DEFINE c == a \o b
<1>1. /\ c \in Seq(R) /\ Len(c) = Len(a) + Len(b)
      /\ \A i \in 1..Len(a) + Len(b) : c[i] = IF i <= Len(a) THEN a[i] ELSE b[i - Len(a)]
    BY ConcatProperties
<1>2. /\ DOMAIN a = 1..Len(a) /\ DOMAIN b = 1..Len(b)
      /\ Len(a) \in Nat /\ Len(b) \in Nat
    BY LenProperties
<1> HIDE DEF c
<1>3. DOMAIN c = 1..(Len(a) + Len(b))
    BY <1>1, LenProperties
<1>4. ASSUME NEW i \in DOMAIN a
      PROVE  a[i] \in ToSet(c)
    <2>1. i \in 1..(Len(a) + Len(b)) /\ i <= Len(a)
        BY <1>2
    <2>2. c[i] = a[i] /\ i \in DOMAIN c
        BY <1>1, <1>3, <2>1
    <2> QED
        BY <2>2 DEF ToSet
<1>5. ASSUME NEW i \in DOMAIN b
      PROVE  b[i] \in ToSet(c)
    <2>1. i + Len(a) \in 1..(Len(a) + Len(b)) /\ ~(i + Len(a) <= Len(a)) /\ i + Len(a) - Len(a) = i
        BY <1>2
    <2>2. c[i + Len(a)] = b[i] /\ i + Len(a) \in DOMAIN c
        BY <1>1, <1>3, <2>1
    <2> QED
        BY <2>2 DEF ToSet
<1> QED
    BY <1>1, <1>4, <1>5 DEF c

(* The loop of FlattenSeq, which puts the records of the contributors one  *)
(* after the other.                                                        *)
Flats(ss) ==
    CHOOSE f : f = [i \in 1..Len(ss) |-> IF i = 1 THEN ss[i] ELSE f[i - 1] \o ss[i]]

(* This recursion, too.                                                    *)
LEMMA FlatsAre ==
    ASSUME NEW ss, Len(ss) \in Nat
    PROVE  /\ \A i \in 1..Len(ss) :
                 Flats(ss)[i] = IF i = 1 THEN ss[i] ELSE Flats(ss)[i - 1] \o ss[i]
           /\ FlattenSeq(ss) = IF Len(ss) = 0 THEN ss ELSE Flats(ss)[Len(ss)]
<1> DEFINE Upto(k) ==
        \E f : f = [i \in 1..k |-> IF i = 1 THEN ss[i] ELSE f[i - 1] \o ss[i]]
<1> DEFINE P == {k \in Nat : Upto(k)}
<1>1. 0 \in P
    <2> DEFINE f == [i \in 1..0 |-> <<>>]
    <2>1. f = [i \in 1..0 |-> IF i = 1 THEN ss[i] ELSE f[i - 1] \o ss[i]]
        OBVIOUS
    <2> HIDE DEF f
    <2> QED
        BY <2>1
<1>2. ASSUME NEW k \in Nat, k \in P
      PROVE  k + 1 \in P
    <2>1. PICK f : f = [i \in 1..k |-> IF i = 1 THEN ss[i] ELSE f[i - 1] \o ss[i]]
        BY <1>2
    <2> DEFINE g == [i \in 1..(k + 1) |->
            IF i <= k THEN f[i] ELSE IF i = 1 THEN ss[i] ELSE f[i - 1] \o ss[i]]
    <2>2. \A i \in 1..k : g[i] = f[i]
        OBVIOUS
    <2>3. g = [i \in 1..(k + 1) |-> IF i = 1 THEN ss[i] ELSE g[i - 1] \o ss[i]]
        <3>1. ASSUME NEW i \in 1..(k + 1)
              PROVE  g[i] = IF i = 1 THEN ss[i] ELSE g[i - 1] \o ss[i]
            <4>1. CASE i <= k
                <5> HIDE DEF g
                <5>1. i \in 1..k
                    BY <4>1
                <5>2. f[i] = IF i = 1 THEN ss[i] ELSE f[i - 1] \o ss[i]
                    BY <2>1, <5>1
                <5>3. i # 1 => i - 1 \in 1..k
                    BY <5>1
                <5> QED
                    BY <2>2, <5>1, <5>2, <5>3
            <4>2. CASE i = k + 1
                <5>1. g[i] = IF i = 1 THEN ss[i] ELSE f[i - 1] \o ss[i]
                    BY <4>2
                <5> HIDE DEF g
                <5>2. i # 1 => i - 1 \in 1..k
                    BY <4>2
                <5> QED
                    BY <2>2, <5>1, <5>2
            <4> QED
                BY <4>1, <4>2
        <3>2. g = [i \in 1..(k + 1) |-> g[i]]
            OBVIOUS
        <3> HIDE DEF g
        <3> QED
            BY <3>1, <3>2
    <2> HIDE DEF g
    <2>4. Upto(k + 1)
        BY <2>3, Zenon
    <2>5. k + 1 \in Nat
        OBVIOUS
    <2> QED
        BY <2>4, <2>5, Zenon
<1>3. Nat \subseteq P
    <2> HIDE DEF P
    <2> QED
        BY <1>1, <1>2, Induction
<1>4. Upto(Len(ss))
    BY <1>3
<1>5. Flats(ss) = [i \in 1..Len(ss) |-> IF i = 1 THEN ss[i] ELSE Flats(ss)[i - 1] \o ss[i]]
    BY <1>4 DEF Flats
<1>6. FlattenSeq(ss) = IF Len(ss) = 0 THEN ss ELSE Flats(ss)[Len(ss)]
    BY DEF FlattenSeq, Flats
<1> QED
    BY <1>5, <1>6

(* One more sequence comes after the others.                               *)
LEMMA FlattenAppend ==
    ASSUME NEW K, NEW ss \in Seq(Seq(K)), NEW t \in Seq(K),
           FlattenSeq(ss) \in Seq(K)
    PROVE  FlattenSeq(Append(ss, t)) = FlattenSeq(ss) \o t
<1> DEFINE u == Append(ss, t)
           f == Flats(ss)
           g == Flats(u)
           P == {i \in Nat : i \in 1..Len(ss) => g[i] = f[i]}
<1>1. /\ Len(ss) \in Nat /\ Len(u) = Len(ss) + 1 /\ Len(u) \in Nat
      /\ u[Len(u)] = t /\ \A i \in 1..Len(ss) : u[i] = ss[i]
    BY LenProperties, AppendProperties
<1> HIDE DEF u
<1>2. /\ FlattenSeq(ss) = IF Len(ss) = 0 THEN ss ELSE f[Len(ss)]
      /\ \A i \in 1..Len(ss) : f[i] = IF i = 1 THEN ss[i] ELSE f[i - 1] \o ss[i]
    BY <1>1, FlatsAre
<1>3. /\ FlattenSeq(u) = IF Len(u) = 0 THEN u ELSE g[Len(u)]
      /\ \A i \in 1..Len(u) : g[i] = IF i = 1 THEN u[i] ELSE g[i - 1] \o u[i]
    BY <1>1, FlatsAre
<1> HIDE DEF f, g
<1>4. 0 \in P
    OBVIOUS
<1>5. ASSUME NEW i \in Nat, i \in P
      PROVE  i + 1 \in P
    <2> SUFFICES ASSUME i + 1 \in 1..Len(ss)
                 PROVE  g[i + 1] = f[i + 1]
        OBVIOUS
    <2>1. f[i + 1] = IF i + 1 = 1 THEN ss[i + 1] ELSE f[i] \o ss[i + 1]
        BY <1>1, <1>2
    <2>2. g[i + 1] = IF i + 1 = 1 THEN u[i + 1] ELSE g[i] \o u[i + 1]
        BY <1>1, <1>3
    <2>3. u[i + 1] = ss[i + 1]
        BY <1>1
    <2>4. i # 0 => g[i] = f[i]
        BY <1>1, <1>5
    <2> QED
        BY <2>1, <2>2, <2>3, <2>4
<1>6. Nat \subseteq P
    <2> HIDE DEF P
    <2> QED
        BY <1>4, <1>5, Induction
<1>7. CASE Len(ss) = 0
    <2>1. ss = <<>>
        BY <1>7, EmptySeq
    <2>2. FlattenSeq(ss) \o t = t
        BY <1>2, <1>7, <2>1, ConcatEmptySeq
    <2>3. FlattenSeq(u) = t
        BY <1>1, <1>3, <1>7
    <2> QED
        BY <2>2, <2>3 DEF u
<1>8. CASE Len(ss) # 0
    <2>1. Len(ss) \in 1..Len(ss) /\ Len(u) \in 1..Len(u) /\ Len(u) # 1 /\ Len(u) - 1 = Len(ss)
        BY <1>1, <1>8
    <2>2. g[Len(ss)] = f[Len(ss)]
        BY <1>6, <2>1
    <2>3. g[Len(u)] = g[Len(ss)] \o t
        BY <1>1, <1>3, <2>1
    <2>4. FlattenSeq(u) = g[Len(u)]
        BY <1>1, <1>3
    <2>5. FlattenSeq(ss) = f[Len(ss)]
        BY <1>2, <1>8
    <2> QED
        BY <2>2, <2>3, <2>4, <2>5 DEF u
<1> QED
    BY <1>7, <1>8

(* What is put together is a sequence of the same elements.                *)
LEMMA FlattenTyped ==
    ASSUME NEW K, NEW ss \in Seq(Seq(K))
    PROVE  FlattenSeq(ss) \in Seq(K)
<1> DEFINE P == {u \in Seq(Seq(K)) : FlattenSeq(u) \in Seq(K)}
<1>1. <<>> \in P
    <2>1. Len(<<>>) = 0
        OBVIOUS
    <2>2. FlattenSeq(<<>>) = <<>>
        BY <2>1, FlatsAre
    <2> QED
        BY <2>2, EmptySeq
<1>2. ASSUME NEW u \in Seq(Seq(K)), NEW t \in Seq(K), u \in P
      PROVE  Append(u, t) \in P
    <2>1. FlattenSeq(u) \in Seq(K)
        BY <1>2
    <2>2. FlattenSeq(Append(u, t)) = FlattenSeq(u) \o t
        BY <2>1, FlattenAppend
    <2>3. FlattenSeq(u) \o t \in Seq(K)
        BY <2>1, ConcatProperties
    <2>4. Append(u, t) \in Seq(Seq(K))
        BY AppendProperties
    <2> QED
        BY <2>2, <2>3, <2>4
<1>3. Seq(Seq(K)) \subseteq P
    <2> HIDE DEF P
    <2> QED
        BY <1>1, <1>2, SeqInduction
<1> QED
    BY <1>3

-----------------------------------------------------------------------------
(* What the service writes.                                                *)

KnownId ==
    [external_id_type : ExternalIdType, external_id_value : Texts,
     external_id_relationship : RelationshipType]

KnownContributor ==
    [path : Optional(PlainOrcidIds), credit_name : Seq(Words), role : ContributorRoleValue]

KnownCitation == [citation_type : CitationType, citation_value : Texts]

Recorded(r) ==
    /\ r.type \in WorkType
    /\ r.publication_date \in Api!FuzzyDate
    /\ r.external_ids \in Seq(KnownId)
    /\ Len(r.external_ids) >= 1
    /\ IsSelfDoi(r.external_ids[1])
    /\ r.journal_title \in Texts
    /\ r.short_description \in Texts
    /\ r.citation \in KnownCitation
    /\ r.contributors \in Seq(KnownContributor)

WrittenByUs(w) ==
    /\ Recorded(w)
    /\ w.put_code \in PutCodes
    /\ w.source_name = "KBase CI"

(* The records of one contributor.                                         *)
LEMMA OneContributor ==
    ASSUME NEW c, c \in ORCIDContributor \/ c \in ORCIDContributorSelf
    PROVE  /\ transform_contributor_self(c) \in Seq(KnownContributor)
           /\ transform_contributor(c) \in Seq(KnownContributor)
           /\ Len(transform_contributor_self(c)) = Len(c.roles)
<1> DEFINE f == [i \in DOMAIN c.roles |->
                    [path |-> c.orcidId, credit_name |-> c.name, role |-> c.roles[i]]]
<1>1. transform_contributor_self(c) = f
    BY DEF transform_contributor_self, Each
<1>2. /\ c.orcidId \in Optional(PlainOrcidIds) /\ c.name \in Seq(Words)
      /\ c.roles \in Seq(ContributorRoleValue)
    BY DEF ORCIDContributor, ORCIDContributorSelf, Optional, ContributorRole
<1>3. \A i \in DOMAIN c.roles : f[i] \in KnownContributor
    <2> TAKE i \in DOMAIN c.roles
    <2>1. c.roles[i] \in ContributorRoleValue
        BY <1>2, ElementOfSeq, LenProperties
    <2> QED
        BY <1>2, <2>1 DEF KnownContributor
<1>4. f = [i \in DOMAIN c.roles |-> f[i]]
    OBVIOUS
<1>5. f \in Seq(KnownContributor) /\ Len(f) = Len(c.roles)
    <2> HIDE DEF f
    <2> QED
        BY <1>2, <1>3, <1>4, SeqFun
<1> QED
    BY <1>1, <1>5 DEF transform_contributor

(* The records of all contributors.                                        *)
LEMMA AllContributors ==
    ASSUME NEW cs \in Seq(ORCIDContributor)
    PROVE  transform_contributors(cs) \in Seq(KnownContributor)
<1> DEFINE f == [i \in DOMAIN cs |-> transform_contributor(cs[i])]
<1>1. transform_contributors(cs) = FlattenSeq(f)
    BY DEF transform_contributors, Each
<1>2. \A i \in DOMAIN cs : f[i] \in Seq(KnownContributor)
    BY OneContributor, ElementOfSeq, LenProperties
<1>3. f = [i \in DOMAIN cs |-> f[i]]
    OBVIOUS
<1>4. f \in Seq(Seq(KnownContributor))
    <2> HIDE DEF f
    <2> QED
        BY <1>2, <1>3, SeqFun
<1> QED
    BY <1>1, <1>4, FlattenTyped

(* The external ids of a work as it is sent.                               *)
LEMMA IdsSent ==
    ASSUME NEW doi \in Texts, NEW xs \in Seq(ExternalId)
    PROVE  LET ys == Each(to_external_id, <<SelfDoi(doi)>> \o xs)
           IN  /\ ys \in Seq(KnownId) /\ Len(ys) = Len(xs) + 1
               /\ IsSelfDoi(ys[1]) /\ ys[1].external_id_value = doi
               /\ \A i \in 1..Len(xs) : ys[i + 1] = to_external_id(xs[i])
<1> DEFINE s == <<SelfDoi(doi)>> \o xs
           f == [i \in DOMAIN s |-> to_external_id(s[i])]
<1>1. SelfDoi(doi) \in ExternalId
    BY DEF SelfDoi, ExternalId, ExternalIdType, RelationshipType
<1>2. /\ s \in Seq(ExternalId) /\ Len(s) = Len(xs) + 1 /\ Len(xs) \in Nat
      /\ s[1] = SelfDoi(doi) /\ \A i \in 1..Len(xs) : s[i + 1] = xs[i]
    <2> DEFINE d == <<SelfDoi(doi)>>
    <2>1. d \in Seq(ExternalId) /\ Len(d) = 1 /\ d[1] = SelfDoi(doi)
        BY <1>1
    <2> HIDE DEF d
    <2>2. /\ d \o xs \in Seq(ExternalId) /\ Len(d \o xs) = Len(d) + Len(xs)
          /\ \A i \in 1..Len(d) + Len(xs) :
                (d \o xs)[i] = IF i <= Len(d) THEN d[i] ELSE xs[i - Len(d)]
        BY <2>1, ConcatProperties
    <2>3. Len(xs) \in Nat
        BY LenProperties
    <2>4. (d \o xs)[1] = SelfDoi(doi)
        BY <2>1, <2>2, <2>3
    <2>5. \A i \in 1..Len(xs) : (d \o xs)[i + 1] = xs[i]
        BY <2>1, <2>2, <2>3
    <2>6. s = d \o xs
        BY DEF d
    <2> HIDE DEF s
    <2> QED
        BY <2>1, <2>2, <2>3, <2>4, <2>5, <2>6
<1>3. Each(to_external_id, s) = f
    BY DEF Each
<1> HIDE DEF s
<1>4. \A i \in DOMAIN s : f[i] \in KnownId
    <2> TAKE i \in DOMAIN s
    <2>1. s[i] \in ExternalId
        BY <1>2, ElementOfSeq, LenProperties
    <2> QED
        BY <2>1 DEF to_external_id, KnownId, ExternalId
<1>5. \A i \in 1..Len(s) : f[i] = to_external_id(s[i])
    BY <1>2, LenProperties
<1>6. f = [i \in DOMAIN s |-> f[i]]
    OBVIOUS
<1> HIDE DEF f
<1>7. f \in Seq(KnownId) /\ Len(f) = Len(s)
    BY <1>2, <1>4, <1>6, SeqFun
<1>8. f[1] = to_external_id(SelfDoi(doi))
    BY <1>2, <1>5
<1>9. \A i \in 1..Len(xs) : f[i + 1] = to_external_id(xs[i])
    BY <1>2, <1>5
<1>10. IsSelfDoi(f[1]) /\ f[1].external_id_value = doi
    BY <1>8 DEF to_external_id, SelfDoi, IsSelfDoi
<1>11. f \in Seq(KnownId) /\ Len(f) = Len(xs) + 1
    BY <1>2, <1>7
<1>12. Each(to_external_id, <<SelfDoi(doi)>> \o xs) = f
    BY <1>3 DEF s
<1> QED
    BY <1>9, <1>10, <1>11, <1>12

(* A work that satisfies the model is sent as a record that ORCID's model  *)
(* declares, if its date is one.                                           *)
LEMMA RecordTyped ==
    ASSUME NEW w, FullWork(w), NewWorkRecord(w).publication_date \in Api!FuzzyDate
    PROVE  Recorded(NewWorkRecord(w))
<1> DEFINE r == NewWorkRecord(w)
           mine == transform_contributor_self(w.selfContributor)
           theirs == transform_contributors(w.otherContributors)
<1>1. /\ r.type = w.workType
      /\ r.external_ids = Each(to_external_id, <<SelfDoi(w.doi)>> \o w.externalIds)
      /\ r.journal_title = w.journal
      /\ r.short_description = w.shortDescription
      /\ r.citation = [citation_type |-> w.citation.type, citation_value |-> w.citation.value]
      /\ r.contributors = mine \o theirs
    BY DEF NewWorkRecord
<1>2. /\ w.workType \in WorkType /\ w.doi \in Texts /\ w.externalIds \in Seq(ExternalId)
      /\ w.journal \in Texts /\ w.shortDescription \in Texts
      /\ w.citation \in ORCIDCitation
      /\ w.selfContributor \in ORCIDContributorSelf
      /\ w.otherContributors \in Seq(ORCIDContributor)
    BY DEF FullWork, WorkBase
<1>3. /\ r.external_ids \in Seq(KnownId) /\ Len(r.external_ids) = Len(w.externalIds) + 1
      /\ IsSelfDoi(r.external_ids[1])
    <2> DEFINE ys == Each(to_external_id, <<SelfDoi(w.doi)>> \o w.externalIds)
    <2>1. ys \in Seq(KnownId) /\ Len(ys) = Len(w.externalIds) + 1 /\ IsSelfDoi(ys[1])
        BY <1>2, IdsSent
    <2>2. r.external_ids = ys
        BY <1>1
    <2> HIDE DEF r, ys
    <2> QED
        BY <2>1, <2>2
<1>4. Len(r.external_ids) >= 1
    <2>1. Len(w.externalIds) \in Nat
        BY <1>2, LenProperties
    <2> QED
        BY <1>3, <2>1
<1>5. r.citation \in KnownCitation
    BY <1>1, <1>2 DEF ORCIDCitation, KnownCitation
<1>6. r.contributors \in Seq(KnownContributor)
    <2>1. mine \in Seq(KnownContributor) /\ theirs \in Seq(KnownContributor)
        BY <1>2, OneContributor, AllContributors
    <2> HIDE DEF mine, theirs, r
    <2>2. mine \o theirs \in Seq(KnownContributor)
        BY <2>1, ConcatProperties
    <2> QED
        BY <1>1, <2>2
<1> HIDE DEF r
<1>7. Recorded(r)
    <2>1. r.publication_date \in Api!FuzzyDate
        BY DEF r
    <2> QED
        BY <1>1, <1>2, <1>3, <1>4, <1>5, <1>6, <2>1 DEF Recorded
<1> QED
    BY <1>7 DEF r

-----------------------------------------------------------------------------
(* What the service shows.                                                 *)

(* Stripping zeros leaves digits.                                          *)
LEMMA NopadTyped ==
    ASSUME NEW p \in Seq(0..9)
    PROVE  nopad(p) \in Seq(0..9)
<1> DEFINE zeros == {n \in DOMAIN p : \A k \in 1..n : p[k] = 0}
<1>1. Len(p) \in Nat /\ DOMAIN p = 1..Len(p)
    BY LenProperties
<1>2. IsFiniteSet(1..Len(p)) /\ Cardinality(1..Len(p)) = Len(p)
    BY <1>1, FS_Interval
<1>3. zeros \subseteq 1..Len(p)
    BY <1>1
<1> HIDE DEF zeros
<1>4. Cardinality(zeros) \in 0..Len(p)
    <2>1. IsFiniteSet(zeros) /\ Cardinality(zeros) <= Cardinality(1..Len(p))
        BY <1>2, <1>3, FS_Subset
    <2>2. Cardinality(zeros) \in Nat
        BY <2>1, FS_CardinalityType
    <2> QED
        BY <1>1, <1>2, <2>1, <2>2
<1>5. SubSeq(p, 1 + Cardinality(zeros), Len(p)) \in Seq(0..9)
    BY <1>1, <1>4, SubSeqProperties
<1> QED
    BY <1>5 DEF nopad, zeros

(* A date is shown as up to three groups of digits.                        *)
LEMMA DateTyped ==
    ASSUME NEW d \in Api!Date
    PROVE  orcid_date_to_string_date(d) \in DateString
<1>1. /\ d.year \in Seq(0..9)
      /\ d.month # None => d.month \in Seq(0..9)
      /\ d.day # None => d.day \in Seq(0..9)
    BY DEF Api!Date, Api!Optional, Api!Decimal
<1>2. /\ <<d.year>> \in Seq(Seq(0..9)) /\ <<>> \in Seq(Seq(0..9))
      /\ d.month # None => <<nopad(d.month)>> \in Seq(Seq(0..9))
      /\ d.day # None => <<nopad(d.day)>> \in Seq(Seq(0..9))
    BY <1>1, NopadTyped
<1> DEFINE a == <<d.year>>
           b == IF d.month # None THEN <<nopad(d.month)>> ELSE <<>>
           c == IF d.month # None /\ d.day # None THEN <<nopad(d.day)>> ELSE <<>>
           D == Seq(0..9)
<1>3. a \in Seq(D) /\ b \in Seq(D) /\ c \in Seq(D)
    BY <1>2
<1>4. orcid_date_to_string_date(d) = a \o b \o c
    BY DEF orcid_date_to_string_date
<1> HIDE DEF a, b, c, D
<1>5. a \o b \in Seq(D)
    BY <1>3, ConcatProperties
<1>6. (a \o b) \o c \in Seq(D)
    BY <1>3, <1>5, ConcatProperties
<1> QED
    BY <1>4, <1>6 DEF DateString, D

(* The external ids, as they are shown: the vocabularies are checked, and  *)
(* there is one DOI of the work itself.                                    *)
LEMMA IdsTyped ==
    ASSUME NEW xs \in Seq(Api!ExternalId), IdsTransformable(xs)
    PROVE  /\ SelfDois(xs)[1].external_id_value \in Texts
           /\ Each(transform_external_id, OtherIds(xs)) \in Seq(ExternalId)
<1> DEFINE S == {x \in ToSet(xs) : IsSelfDoi(x)}
           T == {x \in ToSet(xs) : ~IsSelfDoi(x)}
           others == OtherIds(xs)
           f == [i \in DOMAIN others |-> transform_external_id(others[i])]
<1>1. SelfDois(xs) \in Seq(Api!ExternalId \cap S)
    BY KeptTyped DEF SelfDois
<1>2. SelfDois(xs)[1] \in Api!ExternalId
    <2>1. Len(SelfDois(xs)) = 1
        BY DEF IdsTransformable
    <2>2. 1 \in 1..Len(SelfDois(xs))
        BY <2>1
    <2> QED
        BY <1>1, <2>2, ElementOfSeq
<1>3. others \in Seq(Api!ExternalId \cap T)
    BY KeptTyped DEF OtherIds
<1>4. Each(transform_external_id, others) = f
    BY DEF Each
<1>5. \A i \in DOMAIN others : f[i] \in ExternalId
    <2> TAKE i \in DOMAIN others
    <2>1. others[i] \in Api!ExternalId
        BY <1>3, ElementOfSeq, LenProperties
    <2>2. Transformable(others[i])
        BY DEF IdsTransformable, ToSet
    <2> HIDE DEF others
    <2> QED
        BY <2>1, <2>2 DEF transform_external_id, Transformable, ExternalId, Api!ExternalId
<1>6. f = [i \in DOMAIN others |-> f[i]]
    OBVIOUS
<1>7. f \in Seq(ExternalId)
    <2> HIDE DEF f, others
    <2> QED
        BY <1>3, <1>5, <1>6, SeqFun
<1> QED
    BY <1>2, <1>4, <1>7 DEF Api!ExternalId

RoleRecord ==
    [path : Optional(OrcidIds), credit_name : Seq(Words), role : ContributorRoleValue]

(* The roles of records with known roles.                                  *)
LEMMA RolesTyped ==
    ASSUME NEW cs \in Seq(RoleRecord)
    PROVE  roles(cs) \in Seq(ContributorRoleValue) /\ Len(roles(cs)) = Len(cs)
<1> DEFINE f == [i \in DOMAIN cs |-> cs[i].role]
<1>1. roles(cs) = f
    BY DEF roles, Each
<1>2. \A i \in DOMAIN cs : f[i] \in ContributorRoleValue
    <2> TAKE i \in DOMAIN cs
    <2>1. cs[i] \in RoleRecord
        BY ElementOfSeq, LenProperties
    <2> QED
        BY <2>1 DEF RoleRecord
<1>3. f = [i \in DOMAIN cs |-> f[i]]
    OBVIOUS
<1>4. f \in Seq(ContributorRoleValue) /\ Len(f) = Len(cs)
    <2> HIDE DEF f
    <2> QED
        BY <1>2, <1>3, SeqFun
<1> QED
    BY <1>1, <1>4

(* The numbers of the first records of each name are numbers of records.   *)
LEMMA FirstTyped ==
    ASSUME NEW K, NEW cs \in Seq(K)
    PROVE  FirstOfName(cs) \in Seq(DOMAIN cs)
<1> DEFINE f == [i \in DOMAIN cs |-> i]
           S == {i \in DOMAIN cs : \A j \in 1..(i - 1) : cs[j].credit_name # cs[i].credit_name}
<1>1. f \in Seq(DOMAIN cs)
    <2>1. f = [i \in DOMAIN cs |-> f[i]] /\ \A i \in DOMAIN cs : f[i] \in DOMAIN cs
        OBVIOUS
    <2> HIDE DEF f
    <2> QED
        BY <2>1, SeqFun
<1>2. FirstOfName(cs) = Kept(f, S)
    BY DEF FirstOfName
<1> HIDE DEF f, S
<1>3. Kept(f, S) \in Seq(DOMAIN cs \cap S)
    BY <1>1, KeptTyped
<1> QED
    BY <1>2, <1>3, SeqMonotonic

(* The other contributors as they are shown.                               *)
LEMMA OthersTyped ==
    ASSUME NEW cs \in Seq(RoleRecord), OtherIdsPlain(cs)
    PROVE  contributors_map(cs) \in Seq(ORCIDContributor)
<1> DEFINE firsts == FirstOfName(cs)
           one(i) == [name |-> cs[i].credit_name, orcidId |-> cs[i].path,
                      roles |-> roles(OfName(cs, cs[i].credit_name))]
           f == [k \in DOMAIN firsts |-> one(firsts[k])]
<1>1. contributors_map(cs) = f
    BY DEF contributors_map, Each
<1>2. firsts \in Seq(DOMAIN cs)
    BY FirstTyped
<1>3. \A k \in DOMAIN firsts : f[k] \in ORCIDContributor
    <2> TAKE k \in DOMAIN firsts
    <2>1. PICK i : i = firsts[k]
        OBVIOUS
    <2>2. i \in DOMAIN cs /\ i \in ToSet(firsts)
        BY <1>2, <2>1, ElementOfSeq, LenProperties DEF ToSet
    <2>3. cs[i] \in RoleRecord
        BY <2>2, ElementOfSeq, LenProperties
    <2>4. cs[i].path \in PlainOrcidIds \cup {None}
        BY <2>2 DEF OtherIdsPlain
    <2>5. roles(OfName(cs, cs[i].credit_name)) \in Seq(ContributorRoleValue)
        <3> DEFINE S == {c \in ToSet(cs) : c.credit_name = cs[i].credit_name}
        <3>1. OfName(cs, cs[i].credit_name) = Kept(cs, S)
            BY DEF OfName
        <3> HIDE DEF S
        <3>2. Kept(cs, S) \in Seq(RoleRecord \cap S)
            BY KeptTyped
        <3>3. Kept(cs, S) \in Seq(RoleRecord)
            BY <3>2, SeqMonotonic
        <3> QED
            BY <3>1, <3>3, RolesTyped
    <2>6. f[k] = one(i)
        BY <2>1
    <2> HIDE DEF f
    <2> QED
        BY <2>3, <2>4, <2>5, <2>6 DEF RoleRecord, ORCIDContributor, ContributorRole, Optional
<1>4. f = [k \in DOMAIN firsts |-> f[k]]
    OBVIOUS
<1>5. f \in Seq(ORCIDContributor)
    <2> HIDE DEF f, firsts
    <2> QED
        BY <1>2, <1>3, <1>4, SeqFun
<1> QED
    BY <1>1, <1>5

(* The records of the owner and of the others, with known roles.           *)
LEMMA RecordsTyped ==
    ASSUME NEW cs \in Seq(Api!Contributor), NEW S, RolesKnown(Kept(cs, S))
    PROVE  Kept(cs, S) \in Seq(RoleRecord)
<1>1. Kept(cs, S) \in Seq(Api!Contributor \cap S)
    BY KeptTyped
<1>2. Kept(cs, S) \in Seq(Api!Contributor)
    BY <1>1, SeqMonotonic
<1>3. \A c \in ToSet(Kept(cs, S)) : c \in Api!Contributor
    BY <1>2, ElementOfSeq, LenProperties DEF ToSet
<1>4. \A c \in ToSet(Kept(cs, S)) : c \in RoleRecord
    BY <1>3 DEF RolesKnown, Api!Contributor, Api!Optional, RoleRecord, Optional
<1> QED
    BY <1>2, <1>4, SeqIn

(* Everything that transform_work answers satisfies the declared model.    *)
LEMMA ReadTyped ==
    ASSUME NEW p \in Api!ORCIDProfile, NEW w, Read(p, w).ok
    PROVE  Work(Read(p, w).value)
<1> DEFINE orcid == p.orcid_identifier
           own == OwnRecords(w.contributors, orcid)
           others == OtherRecords(w.contributors, orcid)
           v == Read(p, w).value
<1>1. Api!Work(w) /\ Read(p, w) = transform_work(p, w)
    BY DEF Read, ValueError, Raise
<1>2. transform_work(p, w) # ValueError /\ transform_work(p, w) # ORCIDProfileNamePrivate
    BY <1>1 DEF ValueError, ORCIDProfileNamePrivate, Raise
<1>3. /\ w.journal_title # None /\ IdsTransformable(w.external_ids) /\ RolesKnown(own)
      /\ p.person.name # None
      /\ orcid \in PlainOrcidIds
      /\ w.citation # None /\ w.citation.citation_type \in CitationType
      /\ RolesKnown(others) /\ OtherIdsPlain(others)
      /\ w.short_description # None
      /\ w.type \in WorkType
    BY <1>2 DEF transform_work
<1>4. v = [putCode |-> w.put_code, journal |-> w.journal_title, workType |-> w.type,
           date |-> orcid_date_to_string_date(w.publication_date),
           doi |-> SelfDois(w.external_ids)[1].external_id_value,
           externalIds |-> Each(transform_external_id, OtherIds(w.external_ids)),
           shortDescription |-> w.short_description,
           citation |-> [type |-> w.citation.citation_type,
                         value |-> w.citation.citation_value],
           selfContributor |-> [name |-> SelfName(p.person), orcidId |-> orcid,
                                roles |-> roles(own)],
           otherContributors |-> contributors_map(others)]
    BY <1>1, <1>3 DEF transform_work, Good
<1>5. /\ w.put_code \in PutCodes /\ w.journal_title \in Texts /\ w.short_description \in Texts
      /\ w.citation \in Api!Citation /\ w.publication_date \in Api!Date
      /\ w.external_ids \in Seq(Api!ExternalId)
      /\ w.contributors \in Seq(Api!Contributor)
    BY <1>1, <1>3 DEF Api!Work, Api!WorkBase, Api!PersistedWork, Api!Optional, Api!ExternalIds,
            Api!ContributorWrapper
<1>6. own \in Seq(RoleRecord) /\ others \in Seq(RoleRecord)
    BY <1>3, <1>5, RecordsTyped DEF OwnRecords, OtherRecords
<1>7. roles(own) \in Seq(ContributorRoleValue)
    BY <1>6, RolesTyped
<1>8. contributors_map(others) \in Seq(ORCIDContributor)
    BY <1>3, <1>6, OthersTyped
<1>9. SelfName(p.person) \in Seq(Words)
    <2>1. p.person.name \in Api!ORCIDPersonName
        BY <1>3 DEF Api!ORCIDProfile, Api!ORCIDPerson, Api!Optional
    <2> QED
        BY <2>1 DEF SelfName, Api!ORCIDPersonName, Api!Optional
<1>10. orcid_date_to_string_date(w.publication_date) \in DateString
    BY <1>5, DateTyped
<1>11. /\ SelfDois(w.external_ids)[1].external_id_value \in Texts
       /\ Each(transform_external_id, OtherIds(w.external_ids)) \in Seq(ExternalId)
    BY <1>3, <1>5, IdsTyped
<1>12. /\ v.putCode \in PutCodes /\ v.journal \in Texts /\ v.workType \in WorkType
       /\ v.date \in DateString /\ v.doi \in Texts /\ v.externalIds \in Seq(ExternalId)
       /\ v.shortDescription \in Texts
    BY <1>3, <1>4, <1>5, <1>10, <1>11
<1>13. v.citation \in ORCIDCitation
    BY <1>3, <1>4, <1>5 DEF Api!Citation, ORCIDCitation
<1>14. v.selfContributor \in ORCIDContributorSelf
    BY <1>3, <1>4, <1>7, <1>9 DEF ORCIDContributorSelf, ContributorRole
<1>15. v.otherContributors \in Seq(ORCIDContributor)
    BY <1>4, <1>8
<1> HIDE DEF v
<1>16. Work(v)
    BY <1>12, <1>13, <1>14, <1>15 DEF Work, FullWork, WorkBase, PersistedWorkBase
<1> QED
    BY <1>16 DEF v

(* And so does everything that transform_work_summary answers.             *)
LEMMA ListedTyped ==
    ASSUME NEW w, Listed(w).ok
    PROVE  WorkSummary(Listed(w).value)
<1> DEFINE v == Listed(w).value
<1>1. Api!WorkSummary(w) /\ Listed(w) = transform_work_summary(w)
    BY DEF Listed, ValueError, Raise
<1>2. IdsTransformable(w.external_ids) /\ w.type \in WorkType
    BY <1>1 DEF transform_work_summary, ValueError, Raise
<1>3. v = [putCode |-> w.put_code, source |-> w.source_name,
           journal |-> w.journal_title, workType |-> w.type,
           date |-> orcid_date_to_string_date(w.publication_date),
           doi |-> SelfDois(w.external_ids)[1].external_id_value,
           externalIds |-> Each(transform_external_id, OtherIds(w.external_ids))]
    BY <1>1, <1>2 DEF transform_work_summary, Good
<1>4. /\ w.put_code \in PutCodes /\ w.journal_title \in Optional(Texts)
      /\ w.source_name \in Optional(Strings) /\ w.publication_date \in Api!Date
      /\ w.external_ids \in Seq(Api!ExternalId)
    BY <1>1 DEF Api!WorkSummary, Api!WorkBase, Api!PersistedWork, Api!Optional, Optional,
            Api!ExternalIds
<1>5. /\ SelfDois(w.external_ids)[1].external_id_value \in Texts
      /\ Each(transform_external_id, OtherIds(w.external_ids)) \in Seq(ExternalId)
    BY <1>2, <1>4, IdsTyped
<1>6. orcid_date_to_string_date(w.publication_date) \in DateString
    BY <1>4, DateTyped
<1>7. /\ v.putCode \in PutCodes /\ v.journal \in Optional(Texts)
      /\ v.source \in Optional(Strings) /\ v.workType \in WorkType
      /\ v.date \in DateString /\ v.doi \in Texts /\ v.externalIds \in Seq(ExternalId)
    BY <1>2, <1>3, <1>4, <1>5, <1>6
<1> HIDE DEF v
<1>8. WorkSummary(v)
    BY <1>7 DEF WorkSummary, WorkBase, PersistedWorkBase
<1> QED
    BY <1>8 DEF v

(* The profile, as it is shown.                                            *)
LEMMA ProfileTyped ==
    ASSUME NEW p \in Api!ORCIDProfile
    PROVE  orcid_profile(p) \in ORCIDProfile
<1> DEFINE person == p.person
           gs == coerce_to_list(p.employments)
           one(a) == [name |-> a.summaries[1].organization, role |-> a.summaries[1].role_title,
                      startYear |-> a.summaries[1].start_date.year,
                      endYear |-> IF a.summaries[1].end_date # None
                                  THEN a.summaries[1].end_date.year ELSE None]
           f == [i \in DOMAIN gs |-> one(gs[i])]
<1>1. /\ p.orcid_identifier \in OrcidIds
      /\ person.name \in Optional(Api!ORCIDPersonName) /\ person.biography \in Optional(Texts)
      /\ person.emails \in Optional(Seq(Texts))
      /\ p.employments \in Api!Affiliations
    BY DEF Api!ORCIDProfile, Api!ORCIDPerson, Api!Optional, Optional, Api!ORCIDEmails
<1>2. gs \in Seq(Api!ORCIDAffiliationGroup)
    <2>1. CASE p.employments \in [one : Api!ORCIDAffiliationGroup]
        <3>1. gs = <<p.employments.one>> /\ p.employments.one \in Api!ORCIDAffiliationGroup
            BY <2>1 DEF coerce_to_list
        <3> QED
            BY <3>1
    <2>2. CASE p.employments \in [many : Seq(Api!ORCIDAffiliationGroup)]
        BY <2>2 DEF coerce_to_list
    <2> QED
        BY <1>1, <2>1, <2>2 DEF Api!Affiliations
<1>3. transform_affilations(p.employments) = f
    BY DEF transform_affilations, Each
<1>4. \A i \in DOMAIN gs : f[i] \in ORCIDAffiliation
    <2> TAKE i \in DOMAIN gs
    <2>1. PICK a : a = gs[i]
        OBVIOUS
    <2>2. a \in Api!ORCIDAffiliationGroup
        BY <1>2, <2>1, ElementOfSeq, LenProperties
    <2>3. a.summaries[1] \in Api!ORCIDEmploymentSummary
        BY <2>2 DEF Api!ORCIDAffiliationGroup
    <2>4. one(a) \in ORCIDAffiliation
        <3>1. PICK e : e = a.summaries[1]
            OBVIOUS
        <3>2. /\ e.organization \in Texts /\ e.role_title \in Texts
              /\ e.start_date.year \in Seq(0..9)
              /\ e.end_date # None => e.end_date.year \in Seq(0..9)
            BY <2>3, <3>1 DEF Api!ORCIDEmploymentSummary, Api!Date, Api!Decimal, Api!Optional
        <3> QED
            BY <3>1, <3>2 DEF ORCIDAffiliation, Optional
    <2>5. f[i] = one(a)
        BY <2>1
    <2> QED
        BY <2>4, <2>5
<1>5. f = [i \in DOMAIN gs |-> f[i]]
    OBVIOUS
<1>6. transform_affilations(p.employments) \in Seq(ORCIDAffiliation)
    <2> HIDE DEF f, gs
    <2> QED
        BY <1>2, <1>3, <1>4, <1>5, SeqFun
<1>7. name_group(person) \in ORCIDFieldGroup(ORCIDNameFields)
    <2>1. person.name # None => NameFields(person.name) \in ORCIDNameFields
        BY <1>1 DEF NameFields, ORCIDNameFields, Optional, Api!ORCIDPersonName, Api!Optional
    <2> QED
        BY <2>1 DEF name_group, Group, ORCIDFieldGroup, Optional
<1>8. Group(person.biography, person.biography) \in ORCIDFieldGroup(Texts)
    BY <1>1 DEF Group, ORCIDFieldGroup, Optional
<1>9. Group(person.emails, person.emails) \in ORCIDFieldGroup(Seq(Texts))
    BY <1>1 DEF Group, ORCIDFieldGroup, Optional
<1> QED
    BY <1>1, <1>6, <1>7, <1>8, <1>9 DEF orcid_profile, ORCIDProfile

-----------------------------------------------------------------------------
(* What ORCID keeps of what the service writes.                            *)
LEMMA StoredRecord ==
    ASSUME NEW v, FullWork(v), NEW n \in PutCodes, NEW w,
           w = Stored(With(NewWorkRecord(v), "put_code", n)),
           NewWorkRecord(v).publication_date \in Api!FuzzyDate
    PROVE  WrittenByUs(w)
<1> DEFINE r == NewWorkRecord(v)
<1>1. Recorded(r)
    BY RecordTyped
<1>2. DOMAIN r = {"type", "publication_date", "external_ids", "journal_title",
                  "short_description", "citation", "contributors"}
    BY DEF NewWorkRecord
<1> HIDE DEF r
<1>3. /\ w.source_name = "KBase CI" /\ w.put_code = n
      /\ w.type = r.type /\ w.publication_date = r.publication_date
      /\ w.external_ids = r.external_ids /\ w.journal_title = r.journal_title
      /\ w.short_description = r.short_description /\ w.citation = r.citation
      /\ w.contributors = r.contributors
    <2>1. w = Stored(With(r, "put_code", n))
        BY DEF r
    <2> QED
        BY <1>2, <2>1 DEF Stored, With
<1> QED
    BY <1>1, <1>3 DEF WrittenByUs, Recorded

(* Such a work satisfies the model of ORCID's interface.                   *)
LEMMA WrittenIsWork ==
    ASSUME NEW w, WrittenByUs(w)
    PROVE  Api!Work(w)
<1>1. /\ w.type \in Strings /\ w.publication_date \in Api!Date
      /\ w.source_name \in Strings
    BY VocabularyAssumption, ConversionsAssumption DEF WrittenByUs, Recorded, Api!FuzzyDate
<1>2. w.external_ids \in Seq(Api!ExternalId)
    <2>1. KnownId \subseteq Api!ExternalId
        BY VocabularyAssumption DEF KnownId, Api!ExternalId
    <2> QED
        BY <2>1, SeqMonotonic DEF WrittenByUs, Recorded
<1>3. w.contributors \in Seq(Api!Contributor)
    <2>1. KnownContributor \subseteq Api!Contributor
        BY WorkModelAssumption, VocabularyAssumption
        DEF KnownContributor, Api!Contributor, Optional, Api!Optional
    <2> QED
        BY <2>1, SeqMonotonic DEF WrittenByUs, Recorded
<1>4. w.citation \in Api!Citation
    BY VocabularyAssumption DEF WrittenByUs, Recorded, KnownCitation, Api!Citation
<1>5. w.put_code \in PutCodes /\ w.journal_title \in Texts /\ w.short_description \in Texts
    BY DEF WrittenByUs, Recorded
<1> QED
    BY <1>1, <1>2, <1>3, <1>4, <1>5 DEF Api!Work, Api!WorkBase, Api!PersistedWork, Api!Optional,
            Api!ExternalIds, Api!ContributorWrapper

(* What is needed besides TypeOK: ORCID has the service's works as it      *)
(* wrote them, whatever the owner has done to the profile since, and only  *)
(* dates that it keeps.                                                    *)
OwnWorksWritten == work # None /\ work.source_name = "KBase CI" => WrittenByUs(work)

Dated == work # None => work.publication_date \in Api!Optional(Api!FuzzyDate)

IInv == TypeOK /\ OwnWorksWritten /\ Dated

(* A write of a typed work, new or changed.                                *)
LEMMA WriteStep ==
    ASSUME IInv, NEW v, FullWork(v), NEW n \in PutCodes, NEW r,
           r.ok => r.value = With(NewWorkRecord(v), "put_code", n),
           Written(r), UNCHANGED <<profile, edits>>
    PROVE  IInv'
<1>1. /\ edits \in 0..MaxEdits /\ profile \in Api!ORCIDProfile
      /\ page # None => Work(page)
      /\ orcid_profile(profile) \in ORCIDProfile
      /\ profile' = profile /\ edits' = edits
    BY DEF IInv, TypeOK
<1>2. answer'.ok => answer'.value = page' /\ Work(answer'.value)
    <2>1. CASE ~r.ok \/ ~Accepts(r.value)
        BY <2>1 DEF Written, Answered, Refused, Raise
    <2>2. CASE r.ok /\ Accepts(r.value)
        <3>1. PICK u : u = work'
            OBVIOUS
        <3>2. answer' = Read(profile, u) /\ page' = IF answer'.ok THEN answer'.value ELSE page
            BY <2>2, <3>1 DEF Written, Answered
        <3> QED
            BY <1>1, <3>2, ReadTyped
    <2> QED
        BY <2>1, <2>2
<1>3. page' # None => Work(page')
    <2>1. page' = page \/ (answer'.ok /\ page' = answer'.value)
        BY DEF Written, Answered
    <2> QED
        BY <1>1, <1>2, <2>1
<1>4. (work # None /\ work.source_name = "KBase CI" => WrittenByUs(work))'
    <2>1. CASE ~r.ok \/ ~Accepts(r.value)
        BY <2>1 DEF Written, IInv, OwnWorksWritten
    <2>2. CASE r.ok /\ Accepts(r.value)
        <3>1. PICK u : u = Stored(r.value)
            OBVIOUS
        <3>2. work' = u
            BY <2>2, <3>1 DEF Written
        <3>3. NewWorkRecord(v).publication_date \in Api!FuzzyDate
            <4>1. r.value.publication_date = NewWorkRecord(v).publication_date
                <5>1. PICK z : z = NewWorkRecord(v)
                    OBVIOUS
                <5>2. "publication_date" \in DOMAIN z
                    BY <5>1 DEF NewWorkRecord
                <5>3. r.value = With(z, "put_code", n)
                    BY <2>2, <5>1
                <5>4. r.value.publication_date = z.publication_date
                    BY <5>2, <5>3 DEF With
                <5> QED
                    BY <5>1, <5>4
            <4> QED
                BY <2>2, <4>1 DEF Accepts
        <3>4. WrittenByUs(u)
            BY <2>2, <3>1, <3>3, StoredRecord
        <3> QED
            BY <3>2, <3>4
    <2> QED
        BY <2>1, <2>2
<1>5. (work # None /\ Listed(work).ok => WorkSummary(Listed(work).value))'
    <2>1. PICK u : u = work'
        OBVIOUS
    <2>2. Listed(u).ok => WorkSummary(Listed(u).value)
        BY ListedTyped
    <2> QED
        BY <2>1, <2>2
<1>6. (work # None /\ work.source_name = "KBase CI" => Api!Work(work))'
    <2>1. PICK u : u = work'
        OBVIOUS
    <2>2. u # None /\ u.source_name = "KBase CI" => Api!Work(u)
        BY <1>4, <2>1, WrittenIsWork
    <2> QED
        BY <2>1, <2>2
<1>7. (work # None => work.publication_date \in Api!Optional(Api!FuzzyDate))'
    <2>1. CASE ~r.ok \/ ~Accepts(r.value)
        BY <2>1 DEF Written, IInv, Dated
    <2>2. CASE r.ok /\ Accepts(r.value)
        <3>1. PICK u : u = work'
            OBVIOUS
        <3>2. u.source_name = "KBase CI" /\ u # None => WrittenByUs(u)
            BY <1>4, <3>1
        <3>3. u.source_name = "KBase CI"
            BY <2>2, <3>1 DEF Written, Stored, With
        <3>4. u # None => u.publication_date \in Api!Optional(Api!FuzzyDate)
            BY <3>2, <3>3 DEF WrittenByUs, Recorded, Api!Optional
        <3> QED
            BY <3>1, <3>4
    <2> QED
        BY <2>1, <2>2
<1> QED
    BY <1>1, <1>2, <1>3, <1>4, <1>5, <1>6, <1>7 DEF IInv, TypeOK, OwnWorksWritten, Dated

(* IInv is inductive.                                                      *)
LEMMA InitInv == Init => IInv
<1> SUFFICES ASSUME Init PROVE IInv
    OBVIOUS
<1>1. edits \in 0..MaxEdits /\ profile \in Api!ORCIDProfile /\ page = None /\ answer = None
    <2>1. edits = 0 /\ profile \in Profiles /\ page = None /\ answer = None
        BY DEF Init
    <2>2. MaxEdits \in Nat /\ Profiles \subseteq Api!ORCIDProfile
        BY ConversionsAssumption, Zenon
    <2>3. 0 \in 0..MaxEdits
        BY <2>2
    <2> QED
        BY <2>1, <2>2, <2>3
<1>2. orcid_profile(profile) \in ORCIDProfile
    BY <1>1, ProfileTyped
<1>3. work # None => /\ work.source_name # "KBase CI"
                     /\ work.publication_date \in Api!Optional(Api!FuzzyDate)
    <2>1. work \in ForeignWorks \cup {None}
        BY DEF Init
    <2>2. \A w \in ForeignWorks : /\ w.source_name # "KBase CI"
                                  /\ w.publication_date \in Api!Optional(Api!FuzzyDate)
        BY ConversionsAssumption, Zenon
    <2> QED
        BY <2>1, <2>2
<1>4. Listed(work).ok => WorkSummary(Listed(work).value)
    BY ListedTyped
<1> QED
    BY <1>1, <1>2, <1>3, <1>4 DEF IInv, TypeOK, OwnWorksWritten, Dated

(* Every step preserves it.                                                *)
LEMMA NextInv == IInv /\ [Next]_vars => IInv'
<1> SUFFICES ASSUME IInv, [Next]_vars PROVE IInv'
    OBVIOUS
<1>1. ASSUME NEW v \in NewWorks, NEW n \in PutCodes, CreateWork(v, n)
      PROVE  IInv'
    <2> DEFINE r == create_work_record(v)
               q == IF r.ok THEN Good(With(r.value, "put_code", n)) ELSE r
    <2>1. FullWork(v) /\ Written(q) /\ UNCHANGED <<profile, edits>>
        BY <1>1 DEF CreateWork, NewWork
    <2>2. q.ok => q.value = With(NewWorkRecord(v), "put_code", n)
        BY DEF create_work_record, Good, ValueError, Raise
    <2> HIDE DEF q
    <2> QED
        BY <2>1, <2>2, WriteStep
<1>2. ASSUME SaveWork
      PROVE  IInv'
    <2>1. PICK v : v = page
        OBVIOUS
    <2>2. Work(v)
        BY <1>2, <2>1 DEF SaveWork, IInv, TypeOK
    <2>3. PICK q : q = translate_work_update(v)
        OBVIOUS
    <2>4. Written(q) /\ UNCHANGED <<profile, edits>>
        BY <1>2, <2>1, <2>3 DEF SaveWork
    <2>5. q.ok => q.value = With(NewWorkRecord(v), "put_code", v.putCode)
        BY <2>3 DEF translate_work_update, Good, ValueError, Raise
    <2>6. FullWork(v) /\ v.putCode \in PutCodes
        BY <2>2 DEF Work, PersistedWorkBase
    <2> QED
        BY <2>4, <2>5, <2>6, WriteStep
<1>3. ASSUME GetWork
      PROVE  IInv'
    <2>1. PICK u : u = Read(profile, work)
        OBVIOUS
    <2>2. u.ok => Work(u.value)
        BY <2>1, ReadTyped DEF IInv, TypeOK
    <2>3. /\ answer' = u /\ page' = (IF u.ok THEN u.value ELSE page)
          /\ UNCHANGED <<profile, work, edits>>
        BY <1>3, <2>1 DEF GetWork, Answered
    <2> QED
        BY <2>2, <2>3 DEF IInv, TypeOK, OwnWorksWritten, Dated
<1>4. ASSUME Edit
      PROVE  IInv'
    <2>1. /\ edits' \in 0..MaxEdits /\ Work(page') /\ answer' = None
          /\ UNCHANGED <<profile, work>>
        <3>1. /\ edits < MaxEdits /\ edits' = edits + 1 /\ edits \in 0..MaxEdits
              /\ page' \in {w \in Edits(page) : Work(w)}
              /\ answer' = None /\ UNCHANGED <<profile, work>>
            BY <1>4 DEF Edit, IInv, TypeOK
        <3>2. MaxEdits \in Nat /\ Profiles \subseteq Api!ORCIDProfile
            BY ConversionsAssumption, Zenon
        <3>3. edits' \in 0..MaxEdits
            BY <3>1, <3>2
        <3> QED
            BY <3>1, <3>3
    <2> QED
        BY <2>1 DEF IInv, TypeOK, OwnWorksWritten, Dated
<1>5. ASSUME OwnerEdits
      PROVE  IInv'
    <2>1. /\ edits' \in 0..MaxEdits /\ profile' \in Api!ORCIDProfile /\ answer' = None
          /\ UNCHANGED <<work, page>>
        <3>1. /\ edits < MaxEdits /\ edits' = edits + 1 /\ edits \in 0..MaxEdits
              /\ profile' \in Profiles
              /\ answer' = None /\ UNCHANGED <<work, page>>
            BY <1>5 DEF OwnerEdits, IInv, TypeOK
        <3>2. MaxEdits \in Nat /\ Profiles \subseteq Api!ORCIDProfile
            BY ConversionsAssumption, Zenon
        <3>3. edits' \in 0..MaxEdits
            BY <3>1, <3>2
        <3> QED
            BY <3>1, <3>2, <3>3
    <2>2. orcid_profile(profile') \in ORCIDProfile
        BY <2>1, ProfileTyped
    <2> QED
        BY <2>1, <2>2 DEF IInv, TypeOK, OwnWorksWritten, Dated
<1>6. ASSUME UNCHANGED vars
      PROVE  IInv'
    BY <1>6 DEF vars, IInv, TypeOK, OwnWorksWritten, Dated
<1> QED
    BY <1>1, <1>2, <1>3, <1>4, <1>5, <1>6 DEF Next

(* So it always holds.                                                     *)
LEMMA Invariant == Spec => []IInv
BY InitInv, NextInv, PTL DEF Spec

(* Whatever the service answers satisfies the model it declares, and       *)
(* whatever it sends the model of ORCID's interface: works of any size, of *)
(* whichever program, for every profile.                                   *)
THEOREM ConversionsTyped == Spec => []TypeOK
<1>1. IInv => TypeOK
    BY DEF IInv
<1> QED
    BY <1>1, Invariant, PTL

-----------------------------------------------------------------------------
(* A work as the service writes it can be shown, for a profile with a name *)
(* and an iD that the service accepts, if its only DOI is its first id.    *)
LEMMA WrittenReadable ==
    ASSUME NEW p, NEW w, WrittenByUs(w), p.person.name # None,
           p.orcid_identifier \in PlainOrcidIds, ~(Len(SelfDois(w.external_ids)) > 1)
    PROVE  Read(p, w).ok
<1> DEFINE orcid == p.orcid_identifier
           own == OwnRecords(w.contributors, orcid)
           others == OtherRecords(w.contributors, orcid)
           xs == w.external_ids
<1>1. Api!Work(w)
    BY WrittenIsWork
<1>2. /\ w.contributors \in Seq(KnownContributor) /\ xs \in Seq(KnownId)
      /\ Len(xs) >= 1 /\ IsSelfDoi(xs[1])
      /\ w.citation \in KnownCitation
      /\ w.journal_title \in Texts /\ w.short_description \in Texts /\ w.type \in WorkType
    BY DEF WrittenByUs, Recorded
<1>3. IdsTransformable(xs)
    <2> DEFINE S == {x \in ToSet(xs) : IsSelfDoi(x)}
               T == {x \in ToSet(xs) : ~IsSelfDoi(x)}
    <2>1. Len(SelfDois(xs)) >= 1
        <3>1. xs[1] \in S
            BY <1>2, LenProperties DEF ToSet
        <3> HIDE DEF S
        <3>2. Len(Kept(xs, S)) >= 1
            <4>1. 1 \in 1..Len(xs) /\ Len(Kept(xs, S)) \in Nat
                BY <1>2, KeptIn, LenProperties
            <4>2. \E k \in 1..Len(Kept(xs, S)) : Kept(xs, S)[k] = xs[1]
                BY <1>2, <3>1, <4>1, KeptHas
            <4> QED
                BY <4>1, <4>2
        <3> QED
            BY <3>2 DEF SelfDois, S
    <2>2. Len(SelfDois(xs)) \in Nat
        BY <1>2, KeptTyped, LenProperties DEF SelfDois
    <2>3. Len(SelfDois(xs)) = 1
        <3>1. PICK n : n = Len(SelfDois(w.external_ids))
            OBVIOUS
        <3>2. n \in Nat /\ n >= 1 /\ ~(n > 1)
            BY <2>1, <2>2, <3>1
        <3>3. n = 1
            BY <3>2
        <3> QED
            BY <3>1, <3>3
    <2>4. OtherIds(xs) \in Seq(KnownId \cap T)
        BY <1>2, KeptTyped DEF OtherIds
    <2>5. \A x \in ToSet(OtherIds(xs)) : x \in KnownId
        BY <2>4, ElementOfSeq, LenProperties DEF ToSet
    <2>6. \A x \in ToSet(OtherIds(xs)) : Transformable(x)
        BY <2>5 DEF KnownId, Transformable
    <2> QED
        BY <2>3, <2>6 DEF IdsTransformable
<1>4. \A S : \A c \in ToSet(Kept(w.contributors, S)) : c \in KnownContributor
    <2> TAKE S
    <2>1. Kept(w.contributors, S) \in Seq(KnownContributor \cap S)
        BY <1>2, KeptTyped
    <2> QED
        BY <2>1, ElementOfSeq, LenProperties DEF ToSet
<1>5. RolesKnown(own) /\ RolesKnown(others)
    BY <1>4 DEF RolesKnown, OwnRecords, OtherRecords, KnownContributor
<1>6. OtherIdsPlain(others)
    <2> DEFINE S == {c \in ToSet(w.contributors) : c.path # orcid}
    <2>1. others = Kept(w.contributors, S)
        BY DEF OtherRecords
    <2>2. others \in Seq(KnownContributor \cap S)
        <3> HIDE DEF S, others
        <3> QED
            BY <1>2, <2>1, KeptTyped
    <2>3. FirstOfName(others) \in Seq(DOMAIN others)
        BY <2>2, FirstTyped
    <2>4. ASSUME NEW i \in ToSet(FirstOfName(others))
          PROVE  others[i].path \in PlainOrcidIds \cup {None}
        <3>1. i \in DOMAIN others
            BY <2>3, ElementOfSeq, LenProperties DEF ToSet
        <3>2. others[i] \in KnownContributor
            BY <2>2, <3>1, ElementOfSeq, LenProperties
        <3> QED
            BY <3>2 DEF KnownContributor, Optional
    <2> QED
        BY <2>4 DEF OtherIdsPlain
<1>7. /\ w.journal_title # None /\ w.short_description # None
      /\ w.citation # None /\ w.citation.citation_type \in CitationType
    <2>1. w.citation \in Api!Citation
        BY <1>2, VocabularyAssumption DEF KnownCitation, Api!Citation
    <2> QED
        BY <1>2, <2>1, ConversionsAssumption DEF KnownCitation
<1>8. transform_work(p, w).ok
    BY <1>2, <1>3, <1>5, <1>6, <1>7 DEF transform_work, Good
<1> QED
    BY <1>1, <1>8 DEF Read

(* A work that the service wrote never becomes unreadable, whatever the    *)
(* owner does to the profile, the name and the iD's check character apart, *)
(* and whatever it holds, a second DOI of its own apart.                   *)
THEOREM OwnWorksStayReadable == Spec => []OwnWorksReadable
<1>1. IInv => OwnWorksReadable
    BY WrittenReadable DEF IInv, OwnWorksWritten, OwnWorksReadable
<1> QED
    BY <1>1, Invariant, PTL

-----------------------------------------------------------------------------
(* The contributors, there and back.                                       *)

Numbers(n) == [i \in 1..n |-> i]

IsFirst(cs) == {i \in DOMAIN cs : \A j \in 1..(i - 1) : cs[j].credit_name # cs[i].credit_name}

(* The numbers of a sequence are numbers.                                  *)
LEMMA NumbersAre ==
    ASSUME NEW n \in Nat
    PROVE  /\ Numbers(n) \in Seq(1..n) /\ Len(Numbers(n)) = n
           /\ \A i \in 1..n : Numbers(n)[i] = i
<1>1. Numbers(n) \in [1..n -> 1..n]
    BY DEF Numbers
<1>2. \A i \in 1..n : Numbers(n)[i] = i
    BY DEF Numbers
<1> QED
    BY <1>1, <1>2, FunIsSeq

(* FirstOfName is a loop over the numbers of the records.                  *)
LEMMA FirstsAre ==
    ASSUME NEW K, NEW cs \in Seq(K)
    PROVE  FirstOfName(cs) = Kept(Numbers(Len(cs)), IsFirst(cs))
<1>1. [i \in DOMAIN cs |-> i] = Numbers(Len(cs))
    BY LenProperties DEF Numbers
<1> QED
    BY <1>1 DEF FirstOfName, IsFirst

(* Every name has a first record.                                          *)
LEMMA NameHasFirst ==
    ASSUME NEW K, NEW cs \in Seq(K), NEW i \in DOMAIN cs
    PROVE  \E k \in DOMAIN FirstOfName(cs) :
              cs[FirstOfName(cs)[k]].credit_name = cs[i].credit_name
<1>1. Len(cs) \in Nat /\ DOMAIN cs = 1..Len(cs)
    BY LenProperties
<1> DEFINE T == {j \in 1..Len(cs) : cs[j].credit_name = cs[i].credit_name}
<1>2. PICK j \in T : \A m \in T : ~(m < j)
    <2>1. T \subseteq Nat /\ T # {}
        BY <1>1
    <2> HIDE DEF T
    <2> QED
        BY <2>1, Smallest
<1>3. j \in 1..Len(cs) /\ cs[j].credit_name = cs[i].credit_name
    OBVIOUS
<1>4. j \in IsFirst(cs)
    <2>1. ASSUME NEW m \in 1..(j - 1)
          PROVE  cs[m].credit_name # cs[j].credit_name
        <3>1. m \in 1..Len(cs) /\ m < j
            BY <1>1, <1>3
        <3>2. m \notin T
            BY <1>2, <3>1
        <3> QED
            BY <1>3, <3>1, <3>2
    <2> QED
        BY <1>1, <1>3, <2>1 DEF IsFirst
<1> HIDE DEF T
<1> DEFINE s == Numbers(Len(cs))
           f == Kept(s, IsFirst(cs))
<1>5. s \in Seq(1..Len(cs)) /\ Len(s) = Len(cs) /\ s[j] = j
    BY <1>1, <1>3, NumbersAre
<1>6. f = FirstOfName(cs)
    BY FirstsAre
<1>7. DOMAIN f = 1..Len(f)
    <2> HIDE DEF s
    <2>1. f \in Seq(1..Len(cs))
        BY <1>5, KeptIn
    <2> HIDE DEF f
    <2> QED
        BY <2>1, LenProperties
<1>8. \E k \in 1..Len(f) : f[k] = j
    <2> HIDE DEF s
    <2>1. j \in 1..Len(s) /\ s[j] \in IsFirst(cs)
        BY <1>3, <1>4, <1>5
    <2>2. \E k \in 1..Len(Kept(s, IsFirst(cs))) : Kept(s, IsFirst(cs))[k] = s[j]
        BY <1>5, <2>1, KeptHas
    <2> QED
        BY <1>5, <2>2
<1> HIDE DEF f
<1> QED
    BY <1>3, <1>6, <1>7, <1>8

(* And one only.                                                           *)
LEMMA FirstsDiffer ==
    ASSUME NEW K, NEW cs \in Seq(K),
           NEW k \in DOMAIN FirstOfName(cs), NEW l \in DOMAIN FirstOfName(cs),
           cs[FirstOfName(cs)[k]].credit_name = cs[FirstOfName(cs)[l]].credit_name
    PROVE  k = l
<1> DEFINE s == Numbers(Len(cs))
           f == Kept(s, IsFirst(cs))
<1>1. Len(cs) \in Nat /\ DOMAIN cs = 1..Len(cs)
    BY LenProperties
<1>2. /\ s \in Seq(1..Len(cs)) /\ Len(s) = Len(cs) /\ \A i \in 1..Len(cs) : s[i] = i
    BY <1>1, NumbersAre
<1>3. f = FirstOfName(cs)
    BY FirstsAre
<1> HIDE DEF s
<1>4. f \in Seq((1..Len(cs)) \cap IsFirst(cs))
    BY <1>2, KeptTyped
<1>5. \A a, b \in 1..Len(f) : f[a] = f[b] => a = b
    <2>1. \A i, j \in 1..Len(s) : s[i] = s[j] => i = j
        BY <1>2
    <2> QED
        BY <1>2, <2>1, KeptOnce
<1> HIDE DEF f
<1>6. DOMAIN f = 1..Len(f)
    BY <1>4, LenProperties
<1>7. PICK i : i = f[k]
    OBVIOUS
<1>8. PICK j : j = f[l]
    OBVIOUS
<1>9. /\ i \in 1..Len(cs) /\ i \in IsFirst(cs) /\ j \in 1..Len(cs) /\ j \in IsFirst(cs)
      /\ cs[i].credit_name = cs[j].credit_name
    <2>1. k \in 1..Len(f) /\ l \in 1..Len(f)
        BY <1>3, <1>6
    <2>2. f[k] \in (1..Len(cs)) \cap IsFirst(cs) /\ f[l] \in (1..Len(cs)) \cap IsFirst(cs)
        BY <1>4, <2>1, ElementOfSeq
    <2> QED
        BY <1>3, <1>7, <1>8, <2>2
<1>10. ~(i < j) /\ ~(j < i)
    BY <1>1, <1>9 DEF IsFirst
<1>11. i = j
    BY <1>1, <1>9, <1>10
<1> QED
    BY <1>3, <1>5, <1>6, <1>7, <1>8, <1>11

(* The entry of contributors_map for a first record.                       *)
Entry(cs, i) ==
    [name |-> cs[i].credit_name, orcidId |-> cs[i].path,
     roles |-> roles(OfName(cs, cs[i].credit_name))]

(* The entries of contributors_map, one for each first record of a name.   *)
LEMMA EntriesAre ==
    ASSUME NEW K, NEW cs \in Seq(K)
    PROVE  /\ contributors_map(cs)
                = [k \in DOMAIN FirstOfName(cs) |-> Entry(cs, FirstOfName(cs)[k])]
           /\ DOMAIN FirstOfName(cs) = 1..Len(FirstOfName(cs))
           /\ Len(FirstOfName(cs)) \in Nat
           /\ Len(contributors_map(cs)) = Len(FirstOfName(cs))
           /\ DOMAIN contributors_map(cs) = DOMAIN FirstOfName(cs)
           /\ \A k \in DOMAIN FirstOfName(cs) : FirstOfName(cs)[k] \in DOMAIN cs
<1> DEFINE f == FirstOfName(cs)
           m == contributors_map(cs)
<1>1. f \in Seq(DOMAIN cs)
    BY FirstTyped
<1>2. m = [k \in DOMAIN f |-> Entry(cs, f[k])]
    BY DEF contributors_map, Each, Entry
<1> HIDE DEF f, m
<1>3. DOMAIN f = 1..Len(f) /\ Len(f) \in Nat /\ \A k \in DOMAIN f : f[k] \in DOMAIN cs
    BY <1>1, LenProperties, ElementOfSeq
<1>4. DOMAIN m = DOMAIN f
    BY <1>2
<1>5. Len(m) = Len(f)
    BY <1>3, <1>4
<1> QED
    BY <1>2, <1>3, <1>4, <1>5 DEF f, m

(* Each entry of contributors_map has a name of its own and a role.        *)
LEMMA EntriesGood ==
    ASSUME NEW cs \in Seq(RoleRecord)
    PROVE  /\ \A k, l \in DOMAIN contributors_map(cs) :
                 contributors_map(cs)[k].name = contributors_map(cs)[l].name => k = l
           /\ \A k \in DOMAIN contributors_map(cs) : contributors_map(cs)[k].roles # <<>>
<1> DEFINE f == FirstOfName(cs)
           m == contributors_map(cs)
<1>1. /\ m = [k \in DOMAIN f |-> Entry(cs, f[k])] /\ DOMAIN m = DOMAIN f
      /\ \A k \in DOMAIN f : f[k] \in DOMAIN cs
    BY EntriesAre
<1>2. \A k \in DOMAIN f : m[k].name = cs[f[k]].credit_name
    BY <1>1 DEF Entry
<1>3. \A k, l \in DOMAIN m : m[k].name = m[l].name => k = l
    <2>1. SUFFICES ASSUME NEW k \in DOMAIN f, NEW l \in DOMAIN f, m[k].name = m[l].name
                   PROVE  k = l
        BY <1>1
    <2>2. cs[f[k]].credit_name = cs[f[l]].credit_name
        BY <1>2, <2>1
    <2> QED
        BY <2>2, FirstsDiffer
<1>4. ASSUME NEW k \in DOMAIN m
      PROVE  m[k].roles # <<>>
    <2>1. PICK i : i = f[k]
        OBVIOUS
    <2> DEFINE S == {c \in ToSet(cs) : c.credit_name = cs[i].credit_name}
               own == Kept(cs, S)
    <2>2. m[k].roles = roles(own)
        BY <1>1, <2>1 DEF Entry, OfName
    <2>3. i \in DOMAIN cs /\ DOMAIN cs = 1..Len(cs) /\ cs[i] \in S
        BY <1>1, <2>1, LenProperties DEF ToSet
    <2> HIDE DEF S
    <2>4. \E l \in 1..Len(own) : own[l] = cs[i]
        BY <2>3, KeptHas
    <2>5. own \in Seq(RoleRecord) /\ Len(own) \in Nat
        BY KeptIn
    <2> HIDE DEF own
    <2>6. Len(roles(own)) = Len(own)
        BY <2>5, RolesTyped
    <2>7. Len(own) # 0
        BY <2>4, <2>5
    <2> QED
        BY <2>2, <2>6, <2>7
<1> QED
    BY <1>3, <1>4

(* Records of a name that has not occurred become an entry of their own.   *)
LEMMA NewName ==
    ASSUME NEW R, NEW cs \in Seq(R), NEW rs \in Seq(R), rs # <<>>, NEW name,
           \A i \in DOMAIN rs : rs[i].credit_name = name,
           \A i \in DOMAIN cs : cs[i].credit_name # name
    PROVE  contributors_map(cs \o rs)
             = contributors_map(cs) \o
                 <<[name |-> name, orcidId |-> rs[1].path, roles |-> roles(rs)]>>
<1> DEFINE all == cs \o rs
           L == Len(cs)
           M == Len(rs)
           F == IsFirst(all)
<1>1. /\ all \in Seq(R) /\ Len(all) = L + M /\ L \in Nat /\ M \in Nat /\ M >= 1
      /\ DOMAIN all = 1..(L + M) /\ DOMAIN cs = 1..L /\ DOMAIN rs = 1..M
      /\ \A i \in 1..L : all[i] = cs[i]
      /\ \A j \in 1..M : all[L + j] = rs[j]
    <2>1. L \in Nat /\ M \in Nat /\ M >= 1 /\ DOMAIN cs = 1..L /\ DOMAIN rs = 1..M
        BY LenProperties, EmptySeq
    <2>2. /\ all \in Seq(R) /\ Len(all) = L + M
          /\ \A i \in 1..(L + M) : all[i] = IF i <= L THEN cs[i] ELSE rs[i - L]
        BY ConcatProperties
    <2> HIDE DEF all, L, M
    <2>3. DOMAIN all = 1..(L + M)
        BY <2>2, LenProperties
    <2>4. \A i \in 1..L : all[i] = cs[i]
        BY <2>1, <2>2
    <2>5. ASSUME NEW j \in 1..M
          PROVE  all[L + j] = rs[j]
        <3>1. L + j \in 1..(L + M) /\ ~(L + j <= L) /\ (L + j) - L = j
            BY <2>1
        <3> QED
            BY <2>2, <3>1
    <2> QED
        BY <2>1, <2>2, <2>3, <2>4, <2>5
<1> HIDE DEF all, L, M, F
<1> DEFINE a == Numbers(L)
           b == [j \in 1..M |-> L + j]
           c == <<L + 1>>
           d == [j \in 1..(M - 1) |-> L + 1 + j]
           T == 1..(L + M)
<1>2. /\ a \in Seq(1..L) /\ a \in Seq(T) /\ Len(a) = L /\ \A i \in 1..L : a[i] = i
    <2>1. a \in Seq(1..L) /\ Len(a) = L /\ \A i \in 1..L : a[i] = i
        BY <1>1, NumbersAre
    <2>2. 1..L \subseteq T
        BY <1>1
    <2> HIDE DEF a, T
    <2>3. a \in Seq(T)
        BY <2>1, <2>2, SeqMonotonic
    <2> QED
        BY <2>1, <2>3
<1>3. b \in Seq(T) /\ Len(b) = M
    <2>1. b \in [1..M -> T]
        BY <1>1
    <2> HIDE DEF b, T
    <2> QED
        BY <1>1, <2>1, FunIsSeq
<1>4. /\ d \in Seq((L + 2)..(L + M)) /\ d \in Seq(T) /\ Len(d) = M - 1
    <2>1. d \in [1..(M - 1) -> (L + 2)..(L + M)] /\ M - 1 \in Nat
        BY <1>1
    <2>2. (L + 2)..(L + M) \subseteq T
        BY <1>1
    <2> HIDE DEF d, T
    <2> DEFINE N == M - 1
               U == (L + 2)..(L + M)
    <2>3. d \in [1..N -> U] /\ N \in Nat /\ U \subseteq T
        BY <2>1, <2>2
    <2> HIDE DEF N, U
    <2>4. d \in Seq(U) /\ Len(d) = N
        BY <2>3, FunIsSeq
    <2>5. d \in Seq(T)
        BY <2>3, <2>4, SeqMonotonic
    <2> QED
        BY <2>4, <2>5 DEF N, U
<1>5. c \in Seq({L + 1}) /\ c \in Seq(T) /\ Len(c) = 1 /\ c[1] = L + 1
    BY <1>1
<1>6. b = c \o d
    <2> DEFINE e == c \o d
    <2> HIDE DEF c, d, T
    <2>1. /\ e \in Seq(T) /\ Len(e) = 1 + (M - 1)
          /\ \A i \in 1..(1 + (M - 1)) : e[i] = IF i <= 1 THEN c[i] ELSE d[i - 1]
        <3>1. /\ c \o d \in Seq(T) /\ Len(c \o d) = Len(c) + Len(d)
              /\ \A i \in 1..(Len(c) + Len(d)) :
                    (c \o d)[i] = IF i <= Len(c) THEN c[i] ELSE d[i - Len(c)]
            <4>1. c \in Seq(T) /\ d \in Seq(T)
                BY <1>4, <1>5
            <4> HIDE DEF e
            <4> QED
                BY <4>1, ConcatProperties
        <3> HIDE DEF e
        <3>2. e = c \o d
            BY DEF e
        <3> QED
            BY <1>4, <1>5, <3>1, <3>2
    <2> HIDE DEF e
    <2>2. \A j \in 1..M : b[j] = e[j]
        <3> TAKE j \in 1..M
        <3>1. b[j] = L + j
            OBVIOUS
        <3>2. CASE j = 1
            BY <1>1, <1>5, <2>1, <3>1, <3>2
        <3>3. CASE j # 1
            <4>3. j \in 1..(1 + (M - 1)) /\ ~(j <= 1)
                BY <1>1, <3>3
            <4>4. e[j] = d[j - 1]
                BY <2>1, <4>3
            <4>1. j - 1 \in 1..(M - 1) /\ e[j] = d[j - 1]
                BY <1>1, <3>3, <4>4
            <4>2. d[j - 1] = L + 1 + (j - 1)
                BY <4>1 DEF d
            <4> QED
                BY <1>1, <3>1, <4>1, <4>2
        <3> QED
            BY <3>2, <3>3
    <2>3. Len(e) = M
        BY <1>1, <2>1
    <2> HIDE DEF b
    <2>4. b = e
        BY <1>3, <2>1, <2>2, <2>3, SeqEqual
    <2> QED
        BY <2>4 DEF e
<1>7. Numbers(L + M) = a \o b
    <2> DEFINE e == a \o b
               n == Numbers(L + M)
    <2>1. n \in Seq(T) /\ Len(n) = L + M /\ \A i \in 1..(L + M) : n[i] = i
        BY <1>1, NumbersAre
    <2> HIDE DEF a, T, n
    <2>2. /\ e \in Seq(T) /\ Len(e) = L + M
          /\ \A i \in 1..(L + M) : e[i] = IF i <= L THEN a[i] ELSE b[i - L]
        <3> HIDE DEF b
        <3> QED
            BY <1>2, <1>3, ConcatProperties
    <2> HIDE DEF e
    <2>3. \A i \in 1..(L + M) : n[i] = e[i]
        <3> TAKE i \in 1..(L + M)
        <3>1. CASE i <= L
            <4>1. i \in 1..L
                BY <1>1, <3>1
            <4>2. a[i] = i /\ n[i] = i
                BY <1>2, <2>1, <4>1
            <4>3. e[i] = a[i]
                BY <2>2, <3>1
            <4> QED
                BY <4>2, <4>3
        <3>2. CASE ~(i <= L)
            <4>1. i - L \in 1..M /\ L + (i - L) = i
                BY <1>1, <3>2
            <4>2. b[i - L] = i
                BY <4>1
            <4> QED
                BY <2>1, <2>2, <3>2, <4>2
        <3> QED
            BY <3>1, <3>2
    <2>4. n = e
        BY <2>1, <2>2, <2>3, SeqEqual
    <2> QED
        BY <2>4 DEF n, e
<1> HIDE DEF a, b, c, d, T
(* The first record of the name is a first, those after it are not, and    *)
(* nothing changes for the names before it.                                *)
<1>8. /\ L + 1 \in F
      /\ \A i \in (L + 2)..(L + M) : i \notin F
      /\ \A i \in 1..L : i \in F <=> i \in IsFirst(cs)
    <2>1. all[L + 1].credit_name = name
        BY <1>1
    <2>2. L + 1 \in F
        <3>1. \A j \in 1..L : all[j].credit_name # name
            BY <1>1
        <3>2. L + 1 \in DOMAIN all /\ (L + 1) - 1 = L
            BY <1>1
        <3> QED
            BY <2>1, <3>1, <3>2 DEF F, IsFirst
    <2>3. ASSUME NEW i \in (L + 2)..(L + M)
          PROVE  i \notin F
        <3>1. all[i].credit_name = name
            <4>1. PICK j \in 1..M : i = L + j
                <5>1. i - L \in 1..M /\ i = L + (i - L)
                    BY <1>1
                <5> QED
                    BY <5>1
            <4>2. all[i] = rs[j] /\ j \in DOMAIN rs
                BY <1>1, <4>1
            <4> QED
                BY <4>2
        <3>2. L + 1 \in 1..(i - 1)
            BY <1>1
        <3> QED
            BY <2>1, <3>1, <3>2 DEF F, IsFirst
    <2>4. ASSUME NEW i \in 1..L
          PROVE  i \in F <=> i \in IsFirst(cs)
        <3>1. all[i] = cs[i] /\ i \in DOMAIN all /\ i \in DOMAIN cs
            BY <1>1
        <3>2. \A j \in 1..(i - 1) : all[j] = cs[j]
            BY <1>1
        <3> QED
            BY <3>1, <3>2 DEF F, IsFirst
    <2> QED
        BY <2>2, <2>3, <2>4
<1>9. FirstOfName(all) = FirstOfName(cs) \o <<L + 1>>
    <2>1. FirstOfName(all) = Kept(a \o (c \o d), F)
        BY <1>1, <1>6, <1>7, FirstsAre DEF F
    <2>2. c \o d \in Seq(T)
        BY <1>4, <1>5, ConcatProperties
    <2>3. Kept(a \o (c \o d), F) = Kept(a, F) \o Kept(c \o d, F)
        <3> DEFINE e == c \o d
        <3>1. e \in Seq(T)
            BY <2>2
        <3> HIDE DEF e
        <3>2. Kept(a \o e, F) = Kept(a, F) \o Kept(e, F)
            BY <1>2, <3>1, KeptConcat
        <3> QED
            BY <3>2 DEF e
    <2>4. Kept(c \o d, F) = Kept(c, F) \o Kept(d, F)
        BY <1>4, <1>5, KeptConcat
    <2>5. Kept(c, F) = c
        <3>1. {L + 1} \subseteq F
            BY <1>8
        <3> QED
            BY <1>5, <3>1, KeptAll
    <2>6. Kept(d, F) = <<>>
        <3>1. ((L + 2)..(L + M)) \cap F = {}
            BY <1>8
        <3> QED
            BY <1>4, <3>1, KeptNothing
    <2>7. c \o <<>> = c
        BY <1>5, ConcatEmptySeq
    <2>8. Kept(a, F) = Kept(a, IsFirst(cs))
        <3>1. \A i \in 1..Len(a) : a[i] \in F <=> a[i] \in IsFirst(cs)
            BY <1>2, <1>8
        <3> QED
            BY <1>2, <3>1, KeptSame
    <2>9. Kept(a, IsFirst(cs)) = FirstOfName(cs)
        BY FirstsAre DEF a, L
    <2> QED
        BY <2>1, <2>3, <2>4, <2>5, <2>6, <2>7, <2>8, <2>9 DEF c
(* The entries of the names before it have the same records, and that of   *)
(* the name has all of its own.                                            *)
<1>10. \A other : OfName(all, other)
                    = Kept(cs, {x \in ToSet(all) : x.credit_name = other})
                        \o Kept(rs, {x \in ToSet(all) : x.credit_name = other})
    BY KeptConcat DEF OfName, all
<1>11. (\A i \in 1..L : cs[i] \in ToSet(all)) /\ (\A j \in 1..M : rs[j] \in ToSet(all))
    <2>1. \A i \in 1..L : i \in DOMAIN all
        BY <1>1
    <2>2. \A j \in 1..M : L + j \in DOMAIN all
        BY <1>1
    <2> QED
        BY <1>1, <2>1, <2>2 DEF ToSet
<1>12. ASSUME NEW i \in 1..L
       PROVE  Entry(all, i) = Entry(cs, i)
    <2> DEFINE other == cs[i].credit_name
               S == {x \in ToSet(all) : x.credit_name = other}
    <2>1. all[i] = cs[i] /\ other # name
        BY <1>1
    <2>2. Kept(rs, S) = <<>>
        <3>1. ToSet(rs) \cap S = {}
            BY <2>1 DEF ToSet
        <3>2. rs \in Seq(ToSet(rs))
            BY OfItsElements
        <3> HIDE DEF S
        <3> QED
            BY <3>1, <3>2, KeptNothing
    <2>3. Kept(cs, S) = OfName(cs, other)
        <3> DEFINE U == {x \in ToSet(cs) : x.credit_name = other}
        <3>1. \A j \in 1..Len(cs) : cs[j] \in S <=> cs[j] \in U
            BY <1>1, <1>11 DEF ToSet, L
        <3> HIDE DEF S, U
        <3>2. Kept(cs, S) = Kept(cs, U)
            BY <3>1, KeptSame
        <3> QED
            BY <3>2 DEF OfName, U
    <2>4. Kept(cs, S) \o <<>> = Kept(cs, S)
        <3> HIDE DEF S
        <3> QED
            BY KeptIn, ConcatEmptySeq
    <2>5. OfName(all, other) = Kept(cs, S) \o Kept(rs, S)
        BY <1>10
    <2>6. OfName(all, other) = OfName(cs, other)
        BY <2>2, <2>3, <2>4, <2>5
    <2> QED
        BY <2>1, <2>6 DEF Entry
<1>13. Entry(all, L + 1) = [name |-> name, orcidId |-> rs[1].path, roles |-> roles(rs)]
    <2> DEFINE S == {x \in ToSet(all) : x.credit_name = name}
    <2>1. all[L + 1] = rs[1] /\ rs[1].credit_name = name
        BY <1>1
    <2>2. Kept(cs, S) = <<>>
        <3>1. ToSet(cs) \cap S = {}
            BY DEF ToSet
        <3>2. cs \in Seq(ToSet(cs))
            BY OfItsElements
        <3> HIDE DEF S
        <3> QED
            BY <3>1, <3>2, KeptNothing
    <2>3. Kept(rs, S) = rs
        <3>1. ToSet(rs) \subseteq S
            BY <1>1, <1>11 DEF ToSet
        <3>2. rs \in Seq(ToSet(rs))
            BY OfItsElements
        <3> HIDE DEF S
        <3> QED
            BY <3>1, <3>2, KeptAll
    <2>4. OfName(all, name) = rs
        <3>1. OfName(all, name) = Kept(cs, S) \o Kept(rs, S)
            BY <1>10
        <3> HIDE DEF S
        <3> QED
            BY <2>2, <2>3, <3>1, ConcatEmptySeq
    <2> QED
        BY <2>1, <2>4 DEF Entry
<1> QED
    <2> DEFINE f == FirstOfName(cs)
               g == FirstOfName(all)
               m == contributors_map(cs)
               new == [name |-> name, orcidId |-> rs[1].path, roles |-> roles(rs)]
               n == contributors_map(all)
               u == m \o <<new>>
    <2>1. /\ m = [k \in DOMAIN f |-> Entry(cs, f[k])]
          /\ DOMAIN f = 1..Len(f) /\ Len(f) \in Nat /\ Len(m) = Len(f) /\ DOMAIN m = DOMAIN f
          /\ \A k \in DOMAIN f : f[k] \in DOMAIN cs
        BY EntriesAre
    <2>2. /\ n = [k \in DOMAIN g |-> Entry(all, g[k])]
          /\ DOMAIN g = 1..Len(g) /\ Len(g) \in Nat /\ Len(n) = Len(g) /\ DOMAIN n = DOMAIN g
        BY <1>1, EntriesAre
    <2>3. /\ Len(g) = Len(f) + 1 /\ g[Len(f) + 1] = L + 1
          /\ \A k \in 1..Len(f) : g[k] = f[k]
        <3>1. f \in Seq(T) /\ <<L + 1>> \in Seq(T) /\ Len(<<L + 1>>) = 1 /\ <<L + 1>>[1] = L + 1
            <4>1. f \in Seq(DOMAIN cs)
                BY FirstTyped
            <4>2. DOMAIN cs \subseteq T
                BY <1>1 DEF T
            <4>3. f \in Seq(T)
                BY <4>1, <4>2, SeqMonotonic
            <4> QED
                BY <1>5, <4>3 DEF c
        <3> HIDE DEF f
        <3> DEFINE z == <<L + 1>>
        <3>2. z \in Seq(T) /\ Len(z) = 1 /\ z[1] = L + 1
            BY <3>1
        <3> HIDE DEF z
        <3>3. /\ Len(f \o z) = Len(f) + 1
              /\ \A k \in 1..(Len(f) + 1) :
                    (f \o z)[k] = IF k <= Len(f) THEN f[k] ELSE z[k - Len(f)]
            <4>1. /\ Len(f \o z) = Len(f) + Len(z)
                  /\ \A k \in 1..(Len(f) + Len(z)) :
                        (f \o z)[k] = IF k <= Len(f) THEN f[k] ELSE z[k - Len(f)]
                BY <3>1, <3>2, ConcatProperties
            <4> QED
                BY <3>2, <4>1
        <3>4. g = f \o z
            BY <1>9 DEF f, z
        <3>5. (f \o z)[Len(f) + 1] = L + 1
            BY <2>1, <3>2, <3>3
        <3>6. \A k \in 1..Len(f) : (f \o z)[k] = f[k]
            BY <2>1, <3>3
        <3> QED
            BY <3>3, <3>4, <3>5, <3>6
    <2> DEFINE E == ToSet(m) \cup {new}
    <2> HIDE DEF f, g, m, n, new
    <2>4. m \in Seq(E) /\ <<new>> \in Seq(E)
        <3>1. \A k \in 1..Len(m) : m[k] \in E
            BY <2>1 DEF ToSet
        <3>2. m \in [1..Len(m) -> E] /\ Len(m) \in Nat
            BY <2>1, <3>1
        <3>3. m \in Seq(E)
            BY <3>2, FunIsSeq
        <3>4. <<new>> \in Seq(E)
            OBVIOUS
        <3> QED
            BY <3>3, <3>4
    <2> HIDE DEF E
    <2>5. /\ u \in Seq(E) /\ Len(u) = Len(f) + 1 /\ u[Len(f) + 1] = new
          /\ \A k \in 1..Len(f) : u[k] = m[k]
        <3> DEFINE z == <<new>>
        <3>1. z \in Seq(E) /\ Len(z) = 1 /\ z[1] = new
            BY <2>4
        <3> HIDE DEF z
        <3>2. /\ m \o z \in Seq(E) /\ Len(m \o z) = Len(m) + Len(z)
              /\ \A k \in 1..(Len(m) + Len(z)) :
                    (m \o z)[k] = IF k <= Len(m) THEN m[k] ELSE z[k - Len(m)]
            BY <2>4, <3>1, ConcatProperties
        <3>3. (m \o z)[Len(f) + 1] = new
            BY <2>1, <3>1, <3>2
        <3>4. \A k \in 1..Len(f) : (m \o z)[k] = m[k]
            BY <2>1, <3>1, <3>2
        <3>5. u = m \o z
            BY DEF z
        <3> HIDE DEF u
        <3> QED
            BY <2>1, <3>1, <3>2, <3>3, <3>4, <3>5
    <2> HIDE DEF u
    <2>6. ASSUME NEW k \in 1..(Len(f) + 1)
          PROVE  n[k] = u[k]
        <3>1. n[k] = Entry(all, g[k])
            BY <2>2, <2>3
        <3>2. CASE k \in 1..Len(f)
            <4>1. f[k] \in 1..L /\ m[k] = Entry(cs, f[k])
                BY <1>1, <2>1, <3>2
            <4>2. Entry(all, f[k]) = Entry(cs, f[k])
                BY <1>12, <4>1
            <4> QED
                BY <2>3, <2>5, <3>1, <3>2, <4>1, <4>2
        <3>3. CASE k = Len(f) + 1
            BY <1>13, <2>3, <2>5, <3>1, <3>3 DEF new
        <3> QED
            BY <2>1, <3>2, <3>3
    <2>7. n \in [1..(Len(f) + 1) -> E]
        <3>1. \A k \in 1..(Len(f) + 1) : u[k] \in E
            BY <2>5, ElementOfSeq
        <3>2. n = [k \in 1..(Len(f) + 1) |-> n[k]]
            BY <2>2, <2>3
        <3> QED
            BY <2>6, <3>1, <3>2
    <2>8. n \in Seq(E) /\ Len(n) = Len(u)
        BY <2>1, <2>2, <2>3, <2>5, <2>7, SeqDef
    <2>9. n = u
        BY <2>2, <2>3, <2>5, <2>6, <2>8, SeqEqual
    <2> QED
        BY <2>9 DEF n, u, m, new, all

(* The records of one contributor tell the contributor.                    *)
LEMMA OneBack ==
    ASSUME NEW c, c \in ORCIDContributor \/ c \in ORCIDContributorSelf
    PROVE  LET rs == transform_contributor_self(c)
           IN  /\ rs \in Seq(KnownContributor) /\ Len(rs) = Len(c.roles)
               /\ roles(rs) = c.roles
               /\ \A i \in DOMAIN rs :
                     rs[i] = [path |-> c.orcidId, credit_name |-> c.name, role |-> c.roles[i]]
<1> DEFINE rs == transform_contributor_self(c)
<1>1. rs = [i \in DOMAIN c.roles |->
              [path |-> c.orcidId, credit_name |-> c.name, role |-> c.roles[i]]]
    BY DEF transform_contributor_self, Each
<1>2. rs \in Seq(KnownContributor) /\ Len(rs) = Len(c.roles)
    BY OneContributor
<1>3. c.roles \in Seq(ContributorRoleValue)
    BY DEF ORCIDContributor, ORCIDContributorSelf, ContributorRole
<1> HIDE DEF rs
<1>4. roles(rs) = [i \in DOMAIN rs |-> rs[i].role]
    BY DEF roles, Each
<1>5. DOMAIN rs = DOMAIN c.roles /\ \A i \in DOMAIN rs : rs[i].role = c.roles[i]
    BY <1>1
<1>6. c.roles = [i \in DOMAIN c.roles |-> c.roles[i]]
    <2>1. c.roles \in [1..Len(c.roles) -> ContributorRoleValue]
        BY <1>3, LenProperties
    <2> QED
        BY <2>1
<1>7. roles(rs) = c.roles
    BY <1>4, <1>5, <1>6
<1>8. \A i \in DOMAIN rs :
        rs[i] = [path |-> c.orcidId, credit_name |-> c.name, role |-> c.roles[i]]
    BY <1>1
<1> QED
    BY <1>2, <1>7, <1>8 DEF rs

(* What holds of the records of each holds of the records of all.          *)
LEMMA SpreadIn ==
    ASSUME NEW gs \in Seq(ORCIDContributor), NEW Q,
           \A i \in DOMAIN gs, r \in ContributorRoleValue :
              [path |-> gs[i].orcidId, credit_name |-> gs[i].name, role |-> r] \in Q
    PROVE  transform_contributors(gs) \in Seq(Q)
<1> DEFINE f == [i \in DOMAIN gs |-> transform_contributor(gs[i])]
<1>1. transform_contributors(gs) = FlattenSeq(f)
    BY DEF transform_contributors, Each
<1>2. ASSUME NEW i \in DOMAIN gs
      PROVE  f[i] \in Seq(Q)
    <2>1. PICK c : c = gs[i]
        OBVIOUS
    <2>2. c \in ORCIDContributor
        BY <2>1, ElementOfSeq, LenProperties
    <2>3. PICK rs : rs = transform_contributor_self(c)
        OBVIOUS
    <2>4. /\ rs \in Seq(KnownContributor)
          /\ \A j \in DOMAIN rs :
                rs[j] = [path |-> c.orcidId, credit_name |-> c.name, role |-> c.roles[j]]
        BY <2>2, <2>3, OneBack
    <2>5. ASSUME NEW x \in ToSet(rs)
          PROVE  x \in Q
        <3>1. PICK j \in DOMAIN rs : x = rs[j]
            BY DEF ToSet
        <3>2. x \in KnownContributor
            BY <2>4, <3>1, ElementOfSeq, LenProperties
        <3>3. x.role \in ContributorRoleValue
            BY <3>2 DEF KnownContributor
        <3>4. x = [path |-> c.orcidId, credit_name |-> c.name, role |-> x.role]
            BY <2>4, <3>1
        <3> QED
            BY <2>1, <3>3, <3>4
    <2>6. rs \in Seq(Q)
        BY <2>4, <2>5, SeqIn
    <2>7. f[i] = rs
        BY <2>1, <2>3 DEF transform_contributor
    <2> QED
        BY <2>6, <2>7
<1>3. f = [i \in DOMAIN gs |-> f[i]]
    OBVIOUS
<1>4. f \in Seq(Seq(Q))
    <2> HIDE DEF f
    <2> QED
        BY <1>2, <1>3, SeqFun
<1> QED
    BY <1>1, <1>4, FlattenTyped

(* The records of one more contributor come last.                          *)
LEMMA SpreadAppend ==
    ASSUME NEW gs \in Seq(ORCIDContributor), NEW g \in ORCIDContributor
    PROVE  transform_contributors(Append(gs, g))
             = transform_contributors(gs) \o transform_contributor(g)
<1> DEFINE hs == Append(gs, g)
           f == [i \in DOMAIN gs |-> transform_contributor(gs[i])]
           h == [i \in DOMAIN hs |-> transform_contributor(hs[i])]
           t == transform_contributor(g)
           K == KnownContributor
<1>1. /\ hs \in Seq(ORCIDContributor) /\ Len(hs) = Len(gs) + 1 /\ hs[Len(gs) + 1] = g
      /\ Len(gs) \in Nat /\ \A i \in 1..Len(gs) : hs[i] = gs[i]
      /\ DOMAIN gs = 1..Len(gs) /\ DOMAIN hs = 1..(Len(gs) + 1)
    <2>1. /\ hs \in Seq(ORCIDContributor) /\ Len(hs) = Len(gs) + 1 /\ hs[Len(gs) + 1] = g
          /\ Len(gs) \in Nat /\ \A i \in 1..Len(gs) : hs[i] = gs[i]
        BY AppendProperties, LenProperties
    <2> HIDE DEF hs
    <2> QED
        BY <2>1, LenProperties
<1>2. transform_contributors(gs) = FlattenSeq(f) /\ transform_contributors(hs) = FlattenSeq(h)
    BY DEF transform_contributors, Each
<1>3. t \in Seq(K)
    BY OneContributor
<1> HIDE DEF hs
<1>4. f \in Seq(Seq(K)) /\ Len(f) = Len(gs)
    <2>1. \A i \in DOMAIN gs : f[i] \in Seq(K)
        BY OneContributor, ElementOfSeq, LenProperties
    <2>2. f = [i \in DOMAIN gs |-> f[i]]
        OBVIOUS
    <2> HIDE DEF f
    <2> QED
        BY <2>1, <2>2, SeqFun
<1>5. h \in Seq(Seq(K)) /\ Len(h) = Len(hs)
    <2>1. \A i \in DOMAIN hs : h[i] \in Seq(K)
        BY <1>1, OneContributor, ElementOfSeq
    <2>2. h = [i \in DOMAIN hs |-> h[i]]
        OBVIOUS
    <2> HIDE DEF h
    <2> QED
        BY <1>1, <2>1, <2>2, SeqFun
<1>6. (\A i \in 1..Len(gs) : h[i] = f[i]) /\ h[Len(gs) + 1] = t
    BY <1>1
<1>7. h = Append(f, t)
    <2> DEFINE u == Append(f, t)
    <2> HIDE DEF f, h, t
    <2>1. /\ u \in Seq(Seq(K)) /\ Len(u) = Len(f) + 1 /\ u[Len(f) + 1] = t
          /\ \A i \in 1..Len(f) : u[i] = f[i]
        <3>1. PICK A : A = Seq(K)
            OBVIOUS
        <3> HIDE DEF K
        <3>2. f \in Seq(A) /\ t \in A
            BY <1>3, <1>4, <3>1
        <3>3. u \in Seq(A) /\ Len(u) = Len(f) + 1
            BY <3>2, AppendProperties
        <3>4. u[Len(f) + 1] = t /\ \A i \in 1..Len(f) : u[i] = f[i]
            BY <3>2, AppendProperties
        <3> QED
            BY <3>1, <3>3, <3>4
    <2> HIDE DEF u
    <2>2. \A i \in 1..Len(h) : h[i] = u[i]
        <3>1. Len(h) = Len(gs) + 1 /\ Len(f) = Len(gs) /\ Len(gs) \in Nat
            BY <1>1, <1>4, <1>5
        <3> TAKE i \in 1..Len(h)
        <3>2. CASE i \in 1..Len(gs)
            <4>1. h[i] = f[i]
                BY <1>6, <3>2
            <4>2. u[i] = f[i]
                BY <2>1, <3>1, <3>2
            <4> QED
                BY <4>1, <4>2
        <3>3. CASE i = Len(gs) + 1
            BY <1>6, <2>1, <3>1, <3>3
        <3> QED
            BY <3>1, <3>2, <3>3
    <2>3. h = u
        BY <1>1, <1>4, <1>5, <2>1, <2>2, SeqEqual
    <2> QED
        BY <2>3 DEF u
<1> HIDE DEF f, h, t
<1>8. FlattenSeq(Append(f, t)) = FlattenSeq(f) \o t
    BY <1>3, <1>4, FlattenTyped, FlattenAppend
<1> QED
    BY <1>2, <1>7, <1>8 DEF hs, t

(* Nobody has no records.                                                  *)
LEMMA SpreadNone == transform_contributors(<<>>) = <<>>
<1> DEFINE f == [i \in DOMAIN <<>> |-> transform_contributor(<<>>[i])]
<1>1. transform_contributors(<<>>) = FlattenSeq(f)
    BY DEF transform_contributors, Each
<1>2. f = <<>>
    OBVIOUS
<1>3. Len(<<>>) = 0
    OBVIOUS
<1> QED
    BY <1>1, <1>2, <1>3, FlatsAre

(* Contributors with a name of their own and a role each are the same      *)
(* after their records are grouped again.                                  *)
LEMMA GroupBack ==
    ASSUME NEW gs \in Seq(ORCIDContributor),
           \A i, j \in DOMAIN gs : gs[i].name = gs[j].name => i = j,
           \A i \in DOMAIN gs : gs[i].roles # <<>>
    PROVE  contributors_map(transform_contributors(gs)) = gs
<1> DEFINE Apart(u) == /\ \A i, j \in DOMAIN u : u[i].name = u[j].name => i = j
                       /\ \A i \in DOMAIN u : u[i].roles # <<>>
           P == {u \in Seq(ORCIDContributor) :
                    Apart(u) => contributors_map(transform_contributors(u)) = u}
<1>1. <<>> \in P
    <2>1. FirstOfName(<<>>) = <<>>
        <3>1. Len(<<>>) = 0 /\ <<>> \in Seq(KnownContributor)
            OBVIOUS
        <3>2. Numbers(0) = <<>>
            BY DEF Numbers
        <3> QED
            BY <3>1, <3>2, FirstsAre, KeptNone
    <2>2. contributors_map(<<>>) = <<>>
        <3>1. contributors_map(<<>>) = [k \in DOMAIN <<>> |-> Entry(<<>>, <<>>[k])]
            BY <2>1 DEF contributors_map, Each, Entry
        <3> QED
            BY <3>1
    <2> QED
        BY <2>2, SpreadNone, EmptySeq
<1>2. ASSUME NEW u \in Seq(ORCIDContributor), NEW g \in ORCIDContributor, u \in P
      PROVE  Append(u, g) \in P
    <2> DEFINE v == Append(u, g)
               cs == transform_contributors(u)
               rs == transform_contributor_self(g)
    <2>1. /\ v \in Seq(ORCIDContributor) /\ Len(v) = Len(u) + 1 /\ v[Len(u) + 1] = g
          /\ Len(u) \in Nat /\ \A j \in 1..Len(u) : v[j] = u[j]
          /\ DOMAIN u = 1..Len(u) /\ DOMAIN v = 1..(Len(u) + 1)
        <3>1. /\ v \in Seq(ORCIDContributor) /\ Len(v) = Len(u) + 1 /\ v[Len(u) + 1] = g
              /\ Len(u) \in Nat /\ \A j \in 1..Len(u) : v[j] = u[j]
            BY AppendProperties, LenProperties
        <3> HIDE DEF v
        <3> QED
            BY <3>1, LenProperties
    <2>2. transform_contributors(v) = cs \o rs
        BY SpreadAppend DEF transform_contributor
    <2> HIDE DEF v
    <2>3. ASSUME Apart(v)
          PROVE  contributors_map(transform_contributors(v)) = v
        <3>1. Apart(u) /\ g.roles # <<>> /\ \A i \in DOMAIN u : u[i].name # g.name
            <4>1. Apart(u)
                BY <2>1, <2>3
            <4>2. g.roles # <<>>
                BY <2>1, <2>3
            <4>3. \A i \in DOMAIN u : u[i].name # g.name
                BY <2>1, <2>3
            <4> QED
                BY <4>1, <4>2, <4>3
        <3>2. contributors_map(cs) = u
            BY <1>2, <3>1
        <3>3. /\ rs \in Seq(KnownContributor) /\ Len(rs) = Len(g.roles) /\ roles(rs) = g.roles
              /\ \A i \in DOMAIN rs :
                    rs[i] = [path |-> g.orcidId, credit_name |-> g.name, role |-> g.roles[i]]
            BY OneBack
        <3>4. rs # <<>> /\ 1 \in DOMAIN rs
            <4>1. g.roles \in Seq(ContributorRoleValue)
                BY DEF ORCIDContributor, ContributorRole
            <4>2. Len(g.roles) \in Nat \ {0}
                BY <3>1, <4>1, EmptySeq
            <4> HIDE DEF rs
            <4> QED
                BY <3>3, <4>2, EmptySeq, LenProperties
        <3>5. cs \in Seq({c \in KnownContributor : c.credit_name # g.name})
            <4> DEFINE Q == {c \in KnownContributor : c.credit_name # g.name}
            <4>1. ASSUME NEW i \in DOMAIN u, NEW r \in ContributorRoleValue
                  PROVE  [path |-> u[i].orcidId, credit_name |-> u[i].name, role |-> r] \in Q
                <5>1. u[i] \in ORCIDContributor
                    BY <2>1, ElementOfSeq
                <5>2. u[i].name # g.name
                    BY <3>1
                <5> QED
                    BY <5>1, <5>2 DEF ORCIDContributor, KnownContributor
            <4> HIDE DEF Q
            <4>2. cs \in Seq(Q)
                BY <4>1, SpreadIn
            <4> QED
                BY <4>2 DEF Q
        <3> HIDE DEF cs, rs
        <3>6. cs \in Seq(KnownContributor) /\ \A i \in DOMAIN cs : cs[i].credit_name # g.name
            <4> DEFINE Q == {c \in KnownContributor : c.credit_name # g.name}
            <4>1. cs \in Seq(Q) /\ Q \subseteq KnownContributor
                BY <3>5
            <4>2. \A i \in DOMAIN cs : cs[i] \in Q
                BY <3>5, ElementOfSeq, LenProperties
            <4>3. \A i \in DOMAIN cs : cs[i].credit_name # g.name
                BY <4>2
            <4> HIDE DEF Q
            <4>4. cs \in Seq(KnownContributor)
                BY <4>1, SeqMonotonic
            <4> QED
                BY <4>3, <4>4
        <3>7. \A i \in DOMAIN rs : rs[i].credit_name = g.name
            BY <3>3
        <3>8. contributors_map(cs \o rs)
                = contributors_map(cs)
                    \o <<[name |-> g.name, orcidId |-> rs[1].path, roles |-> roles(rs)]>>
            <4>1. /\ cs \in Seq(KnownContributor) /\ rs \in Seq(KnownContributor) /\ rs # <<>>
                  /\ \A i \in DOMAIN cs : cs[i].credit_name # g.name
                  /\ \A i \in DOMAIN rs : rs[i].credit_name = g.name
                BY <3>3, <3>4, <3>6, <3>7
            <4>2. PICK nm : nm = g.name
                OBVIOUS
            <4>3. /\ \A i \in DOMAIN cs : cs[i].credit_name # nm
                  /\ \A i \in DOMAIN rs : rs[i].credit_name = nm
                BY <4>1, <4>2
            <4>4. contributors_map(cs \o rs)
                    = contributors_map(cs)
                        \o <<[name |-> nm, orcidId |-> rs[1].path, roles |-> roles(rs)]>>
                BY <4>1, <4>3, NewName
            <4> QED
                BY <4>2, <4>4
        <3>9. [name |-> g.name, orcidId |-> rs[1].path, roles |-> roles(rs)] = g
            BY <3>3, <3>4 DEF ORCIDContributor
        <3>10. v = u \o <<g>>
            BY AppendIsConcat DEF v
        <3> QED
            BY <2>2, <3>2, <3>8, <3>9, <3>10
    <2> QED
        BY <2>1, <2>3 DEF v
<1>3. Seq(ORCIDContributor) \subseteq P
    <2> HIDE DEF P
    <2> QED
        BY <1>1, <1>2, SeqInduction
<1> QED
    BY <1>3

-----------------------------------------------------------------------------
(* Writing and reading.  The DOI goes in front of the identifiers and      *)
(* comes back as itself, if there is no other.                             *)
LEMMA IdsBack ==
    ASSUME NEW doi \in Texts, NEW xs \in Seq(ExternalId),
           \A i \in DOMAIN xs : ~(xs[i].type = "doi" /\ xs[i].relationship = "self")
    PROVE  LET ys == Each(to_external_id, <<SelfDoi(doi)>> \o xs)
           IN  /\ IdsTransformable(ys)
               /\ SelfDois(ys)[1].external_id_value = doi
               /\ Each(transform_external_id, OtherIds(ys)) = xs
<1> DEFINE ys == Each(to_external_id, <<SelfDoi(doi)>> \o xs)
           zs == [i \in DOMAIN xs |-> to_external_id(xs[i])]
           d == <<ys[1]>>
           S == {x \in ToSet(ys) : IsSelfDoi(x)}
           T == {x \in ToSet(ys) : ~IsSelfDoi(x)}
<1>1. /\ ys \in Seq(KnownId) /\ Len(ys) = Len(xs) + 1
      /\ IsSelfDoi(ys[1]) /\ ys[1].external_id_value = doi
      /\ \A i \in 1..Len(xs) : ys[i + 1] = to_external_id(xs[i])
    BY IdsSent
<1>2. DOMAIN xs = 1..Len(xs) /\ Len(xs) \in Nat
    BY LenProperties
<1> HIDE DEF ys
<1>3. zs \in Seq(KnownId) /\ Len(zs) = Len(xs) /\ DOMAIN zs = DOMAIN xs
    <2>1. \A i \in DOMAIN xs : zs[i] \in KnownId
        <3> TAKE i \in DOMAIN xs
        <3>1. xs[i] \in ExternalId
            BY ElementOfSeq, LenProperties
        <3> QED
            BY <3>1 DEF to_external_id, KnownId, ExternalId
    <2>2. zs = [i \in DOMAIN xs |-> zs[i]]
        OBVIOUS
    <2> HIDE DEF zs
    <2> QED
        BY <2>1, <2>2, SeqFun
<1>4. \A i \in 1..Len(xs) : zs[i] = to_external_id(xs[i])
    BY <1>2
<1> HIDE DEF zs
<1>5. d \in Seq(KnownId) /\ Len(d) = 1 /\ d[1] = ys[1] /\ DOMAIN d = {1}
    <2>1. 1 \in 1..Len(ys)
        BY <1>1, <1>2
    <2>2. ys[1] \in KnownId
        BY <1>1, <2>1, ElementOfSeq
    <2> QED
        BY <2>2
<1> HIDE DEF d
<1>6. ys = d \o zs
    <2> DEFINE c == d \o zs
    <2>1. /\ c \in Seq(KnownId) /\ Len(c) = Len(d) + Len(zs)
          /\ \A i \in 1..Len(d) + Len(zs) : c[i] = IF i <= Len(d) THEN d[i] ELSE zs[i - Len(d)]
        <3>1. d \in Seq(KnownId) /\ zs \in Seq(KnownId)
            BY <1>3, <1>5
        <3> QED
            BY <3>1, ConcatProperties
    <2> HIDE DEF c
    <2>2. \A i \in 1..Len(ys) : ys[i] = c[i]
        <3> TAKE i \in 1..Len(ys)
        <3>1. CASE i = 1
            BY <1>1, <1>2, <1>3, <1>5, <2>1, <3>1
        <3>2. CASE i # 1
            <4>1. i - 1 \in 1..Len(xs) /\ i = (i - 1) + 1 /\ ~(i <= 1)
                BY <1>1, <1>2, <3>2
            <4>2. ys[i] = to_external_id(xs[i - 1])
                BY <1>1, <4>1
            <4>3. c[i] = zs[i - 1]
                BY <1>1, <1>2, <1>3, <1>5, <2>1, <4>1
            <4> QED
                BY <1>4, <4>1, <4>2, <4>3
        <3> QED
            BY <3>1, <3>2
    <2>3. Len(ys) = Len(c)
        BY <1>1, <1>2, <1>3, <1>5, <2>1
    <2>4. ys = c
        BY <1>1, <2>1, <2>2, <2>3, SeqEqual
    <2> QED
        BY <2>4 DEF c
<1>7. \A i \in DOMAIN zs : ~IsSelfDoi(zs[i])
    BY <1>2, <1>3, <1>4 DEF IsSelfDoi, to_external_id
<1>8. Kept(ys, S) = d /\ Kept(ys, T) = zs
    <2>1. /\ \A i \in DOMAIN d : d[i] \in ToSet(ys)
          /\ \A i \in DOMAIN zs : zs[i] \in ToSet(ys)
        BY <1>3, <1>5, <1>6, JoinedElements
    <2>2. \A i \in DOMAIN d : d[i] \in S /\ d[i] \notin T
        BY <1>1, <1>5, <2>1
    <2>3. \A i \in DOMAIN zs : zs[i] \in T /\ zs[i] \notin S
        BY <1>7, <2>1
    <2>4. S \cap T = {}
        OBVIOUS
    <2> HIDE DEF S, T
    <2>5. d \in Seq(S) /\ zs \in Seq(T)
        <3>1. (\A x \in ToSet(d) : x \in S) /\ (\A x \in ToSet(zs) : x \in T)
            BY <2>2, <2>3 DEF ToSet
        <3>2. d \in Seq(KnownId) /\ zs \in Seq(KnownId)
            BY <1>3, <1>5
        <3> QED
            BY <3>1, <3>2, SeqIn
    <2>6. Kept(d \o zs, S) = d /\ Kept(d \o zs, T) = zs
        BY <2>4, <2>5, TakenApart
    <2> QED
        BY <1>6, <2>6
<1>9. SelfDois(ys) = d /\ OtherIds(ys) = zs
    BY <1>8 DEF SelfDois, OtherIds
<1>10. IdsTransformable(ys)
    <2>1. \A x \in ToSet(zs) : Transformable(x)
        <3> TAKE x \in ToSet(zs)
        <3>1. PICK i \in DOMAIN zs : x = zs[i]
            BY DEF ToSet
        <3>2. x \in KnownId
            BY <1>3, <3>1, ElementOfSeq, LenProperties
        <3> QED
            BY <3>2 DEF KnownId, Transformable
    <2> QED
        BY <1>5, <1>9, <2>1 DEF IdsTransformable
<1>11. Each(transform_external_id, zs) = xs
    <2> DEFINE f == [i \in DOMAIN zs |-> transform_external_id(zs[i])]
    <2>1. Each(transform_external_id, zs) = f
        BY DEF Each
    <2>2. \A i \in DOMAIN xs : f[i] = xs[i]
        <3> TAKE i \in DOMAIN xs
        <3>1. xs[i] \in ExternalId
            BY ElementOfSeq, LenProperties
        <3>2. f[i] = transform_external_id(to_external_id(xs[i]))
            BY <1>2, <1>3, <1>4
        <3> HIDE DEF f
        <3> QED
            BY <3>1, <3>2 DEF ExternalId, transform_external_id, to_external_id
    <2>3. f \in Seq(ExternalId) /\ Len(f) = Len(xs)
        <3>1. \A i \in DOMAIN zs : f[i] \in ExternalId
            BY <1>2, <1>3, <2>2, ElementOfSeq
        <3>2. f = [i \in DOMAIN zs |-> f[i]]
            OBVIOUS
        <3> HIDE DEF f
        <3> QED
            BY <1>3, <3>1, <3>2, SeqFun
    <2> HIDE DEF f
    <2>4. f = xs
        BY <1>2, <2>2, <2>3, SeqEqual
    <2> QED
        BY <2>1, <2>4
<1>12. /\ IdsTransformable(ys) /\ SelfDois(ys)[1].external_id_value = doi
       /\ Each(transform_external_id, OtherIds(ys)) = xs
    BY <1>1, <1>5, <1>9, <1>10, <1>11
<1> QED
    BY <1>12 DEF ys

(* The owner's records and those of the others are told apart again, and   *)
(* the others grouped as they were.                                        *)
LEMMA ContributorsBack ==
    ASSUME NEW me \in ORCIDContributorSelf, NEW gs \in Seq(ORCIDContributor),
           \A i, j \in DOMAIN gs : gs[i].name = gs[j].name => i = j,
           \A i \in DOMAIN gs : gs[i].roles # <<>> /\ gs[i].orcidId # me.orcidId
    PROVE  LET cs == transform_contributor_self(me) \o transform_contributors(gs)
           IN  /\ roles(OwnRecords(cs, me.orcidId)) = me.roles
               /\ contributors_map(OtherRecords(cs, me.orcidId)) = gs
               /\ \A S : RolesKnown(Kept(cs, S)) /\ OtherIdsPlain(Kept(cs, S))
<1> DEFINE mine == transform_contributor_self(me)
           theirs == transform_contributors(gs)
           cs == mine \o theirs
           orcid == me.orcidId
           K == KnownContributor
           S == {c \in ToSet(cs) : c.path = orcid}
           T == {c \in ToSet(cs) : c.path # orcid}
<1>1. /\ mine \in Seq(K) /\ roles(mine) = me.roles
      /\ \A i \in DOMAIN mine : mine[i].path = orcid
    <2>1. /\ mine \in Seq(K) /\ roles(mine) = me.roles
          /\ \A i \in DOMAIN mine :
                mine[i] = [path |-> me.orcidId, credit_name |-> me.name, role |-> me.roles[i]]
        BY OneBack
    <2> HIDE DEF mine
    <2> QED
        BY <2>1
<1>2. theirs \in Seq(K) /\ \A i \in DOMAIN theirs : theirs[i].path # orcid
    <2> DEFINE Q == {c \in K : c.path # orcid}
    <2>1. ASSUME NEW i \in DOMAIN gs, NEW r \in ContributorRoleValue
          PROVE  [path |-> gs[i].orcidId, credit_name |-> gs[i].name, role |-> r] \in Q
        <3>1. gs[i] \in ORCIDContributor
            BY ElementOfSeq, LenProperties
        <3>2. gs[i].orcidId # orcid
            OBVIOUS
        <3> QED
            BY <3>1, <3>2 DEF ORCIDContributor, KnownContributor
    <2> HIDE DEF Q
    <2>2. theirs \in Seq(Q)
        BY <2>1, SpreadIn
    <2> HIDE DEF theirs
    <2>3. \A i \in DOMAIN theirs : theirs[i] \in Q
        BY <2>2, ElementOfSeq, LenProperties
    <2>4. Q \subseteq K /\ \A c \in Q : c.path # orcid
        BY DEF Q
    <2>5. theirs \in Seq(K)
        BY <2>2, <2>4, SeqMonotonic
    <2> QED
        BY <2>3, <2>4, <2>5
<1>3. contributors_map(theirs) = gs
    BY GroupBack
<1> HIDE DEF mine, theirs
<1>4. /\ cs \in Seq(K)
      /\ \A i \in DOMAIN mine : mine[i] \in ToSet(cs)
      /\ \A i \in DOMAIN theirs : theirs[i] \in ToSet(cs)
    <2>1. mine \in Seq(K) /\ theirs \in Seq(K)
        BY <1>1, <1>2
    <2> HIDE DEF K
    <2> QED
        BY <2>1, JoinedElements
<1>5. Kept(cs, S) = mine /\ Kept(cs, T) = theirs
    <2>1. S \cap T = {}
        OBVIOUS
    <2>2. (\A x \in ToSet(mine) : x \in S) /\ (\A x \in ToSet(theirs) : x \in T)
        BY <1>1, <1>2, <1>4 DEF ToSet
    <2> HIDE DEF S, T
    <2>3. mine \in Seq(S) /\ theirs \in Seq(T)
        <3>1. mine \in Seq(K) /\ theirs \in Seq(K)
            BY <1>1, <1>2
        <3> QED
            BY <2>2, <3>1, SeqIn
    <2> QED
        BY <2>1, <2>3, TakenApart
<1>6. OwnRecords(cs, orcid) = mine /\ OtherRecords(cs, orcid) = theirs
    BY <1>5 DEF OwnRecords, OtherRecords
<1>7. ASSUME NEW A
      PROVE  RolesKnown(Kept(cs, A)) /\ OtherIdsPlain(Kept(cs, A))
    <2> HIDE DEF cs, S, T
    <2> DEFINE ds == Kept(cs, A)
    <2>1. ds \in Seq(K)
        BY <1>4, KeptIn
    <2> HIDE DEF ds
    <2>2. \A i \in DOMAIN ds : ds[i] \in K
        BY <2>1, ElementOfSeq, LenProperties
    <2>3. RolesKnown(ds)
        BY <2>2 DEF RolesKnown, ToSet, KnownContributor
    <2>4. FirstOfName(ds) \in Seq(DOMAIN ds)
        BY <2>1, FirstTyped
    <2>5. \A i \in ToSet(FirstOfName(ds)) : i \in DOMAIN ds
        BY <2>4, ElementOfSeq, LenProperties DEF ToSet
    <2>6. OtherIdsPlain(ds)
        BY <2>2, <2>5 DEF OtherIdsPlain, KnownContributor, Optional
    <2> QED
        BY <2>3, <2>6 DEF ds
<1>8. /\ roles(OwnRecords(cs, orcid)) = me.roles
      /\ contributors_map(OtherRecords(cs, orcid)) = gs
      /\ \A A : RolesKnown(Kept(cs, A)) /\ OtherIdsPlain(Kept(cs, A))
    BY <1>1, <1>3, <1>6, <1>7
<1> QED
    BY <1>8 DEF mine, theirs

(* The fields of a work as get-orcid-work shows it.                        *)
Shown(v, n) ==
    [putCode |-> n, journal |-> v.journal, workType |-> v.workType, date |-> v.date,
     doi |-> v.doi, externalIds |-> v.externalIds, shortDescription |-> v.shortDescription,
     citation |-> v.citation, selfContributor |-> v.selfContributor,
     otherContributors |-> v.otherContributors]

(* A work as the user interface composes it comes back from ORCID as it    *)
(* was sent, whatever its texts, identifiers, contributors and roles.      *)
LEMMA WriteRead ==
    ASSUME NEW v, FullWork(v), Composed(v), NEW n \in PutCodes,
           NewWorkRecord(v).publication_date \in Api!FuzzyDate
    PROVE  Read(profile, Stored(With(NewWorkRecord(v), "put_code", n))) = Good(Shown(v, n))
<1> DEFINE w == Stored(With(NewWorkRecord(v), "put_code", n))
           orcid == profile.orcid_identifier
           ys == Each(to_external_id, <<SelfDoi(v.doi)>> \o v.externalIds)
           cs == transform_contributor_self(v.selfContributor)
                    \o transform_contributors(v.otherContributors)
           own == OwnRecords(w.contributors, orcid)
           others == OtherRecords(w.contributors, orcid)
<1>1. WrittenByUs(w) /\ Api!Work(w)
    <2>1. WrittenByUs(w)
        BY StoredRecord
    <2> HIDE DEF w
    <2> QED
        BY <2>1, WrittenIsWork
<1>2. /\ v.workType \in WorkType /\ v.doi \in Texts /\ v.externalIds \in Seq(ExternalId)
      /\ v.journal \in Texts /\ v.shortDescription \in Texts
      /\ v.citation \in ORCIDCitation
      /\ v.selfContributor \in ORCIDContributorSelf
      /\ v.otherContributors \in Seq(ORCIDContributor)
    BY DEF FullWork, WorkBase
<1>3. /\ w.put_code = n /\ w.type = v.workType /\ w.publication_date = parse_date(v.date)
      /\ w.external_ids = ys /\ w.journal_title = v.journal
      /\ w.short_description = v.shortDescription
      /\ w.citation = [citation_type |-> v.citation.type, citation_value |-> v.citation.value]
      /\ w.contributors = cs
    <2>1. PICK r : r = NewWorkRecord(v)
        OBVIOUS
    <2>2. /\ r.type = v.workType /\ r.publication_date = parse_date(v.date)
          /\ r.external_ids = ys /\ r.journal_title = v.journal
          /\ r.short_description = v.shortDescription
          /\ r.citation = [citation_type |-> v.citation.type, citation_value |-> v.citation.value]
          /\ r.contributors = cs
        BY <2>1 DEF NewWorkRecord
    <2>3. DOMAIN r = {"type", "publication_date", "external_ids", "journal_title",
                      "short_description", "citation", "contributors"}
        BY <2>1 DEF NewWorkRecord
    <2>4. w = Stored(With(r, "put_code", n))
        BY <2>1
    <2> HIDE DEF w, ys, cs
    <2>5. /\ w.put_code = n
          /\ w.type = r.type /\ w.publication_date = r.publication_date
          /\ w.external_ids = r.external_ids /\ w.journal_title = r.journal_title
          /\ w.short_description = r.short_description /\ w.citation = r.citation
          /\ w.contributors = r.contributors
        BY <2>3, <2>4 DEF Stored, With
    <2> QED
        BY <2>2, <2>5
<1> HIDE DEF w
<1>4. /\ profile.person.name # None /\ orcid \in PlainOrcidIds
      /\ v.selfContributor.orcidId = orcid
      /\ v.selfContributor.name = SelfName(profile.person)
      /\ v.date = orcid_date_to_string_date(parse_date(v.date))
    BY DEF Composed
<1>5. /\ IdsTransformable(ys) /\ SelfDois(ys)[1].external_id_value = v.doi
      /\ Each(transform_external_id, OtherIds(ys)) = v.externalIds
    <2>1. \A i \in DOMAIN v.externalIds :
            ~(v.externalIds[i].type = "doi" /\ v.externalIds[i].relationship = "self")
        BY DEF Composed, ToSet
    <2> QED
        BY <1>2, <2>1, IdsBack
<1>6. /\ roles(OwnRecords(cs, orcid)) = v.selfContributor.roles
      /\ contributors_map(OtherRecords(cs, orcid)) = v.otherContributors
      /\ \A A : RolesKnown(Kept(cs, A)) /\ OtherIdsPlain(Kept(cs, A))
    <2>1. PICK me, gs : me = v.selfContributor /\ gs = v.otherContributors
        OBVIOUS
    <2>2. /\ me \in ORCIDContributorSelf /\ gs \in Seq(ORCIDContributor) /\ me.orcidId = orcid
          /\ \A i, j \in DOMAIN gs : gs[i].name = gs[j].name => i = j
          /\ \A i \in DOMAIN gs : gs[i].roles # <<>> /\ gs[i].orcidId # orcid
        BY <1>2, <2>1 DEF Composed, ToSet
    <2>3. LET as == transform_contributor_self(me) \o transform_contributors(gs)
          IN  /\ roles(OwnRecords(as, me.orcidId)) = me.roles
              /\ contributors_map(OtherRecords(as, me.orcidId)) = gs
              /\ \A A : RolesKnown(Kept(as, A)) /\ OtherIdsPlain(Kept(as, A))
        BY <2>2, ContributorsBack
    <2> QED
        BY <2>1, <2>2, <2>3
<1> HIDE DEF ys, cs
<1>7. /\ roles(own) = v.selfContributor.roles /\ contributors_map(others) = v.otherContributors
      /\ RolesKnown(own) /\ RolesKnown(others) /\ OtherIdsPlain(others)
    BY <1>3, <1>6 DEF OwnRecords, OtherRecords
<1>8. /\ w.journal_title # None /\ w.short_description # None /\ w.citation # None
      /\ w.citation.citation_type \in CitationType
      /\ v.citation = [type |-> w.citation.citation_type, value |-> w.citation.citation_value]
    <2>1. None \notin Texts /\ None \notin Api!Citation
        BY ConversionsAssumption, Zenon
    <2>2. w.citation \in Api!Citation
        BY <1>1, VocabularyAssumption DEF WrittenByUs, Recorded, KnownCitation, Api!Citation
    <2>3. v.citation = [type |-> v.citation.type, value |-> v.citation.value]
          /\ v.citation.type \in CitationType
        BY <1>2 DEF ORCIDCitation
    <2> QED
        BY <1>2, <1>3, <2>1, <2>2, <2>3
<1>9. v.selfContributor
        = [name |-> SelfName(profile.person), orcidId |-> orcid, roles |-> roles(own)]
    BY <1>2, <1>4, <1>7 DEF ORCIDContributorSelf
<1> HIDE DEF own, others
<1>10. transform_work(profile, w) = Good(Shown(v, n))
    <2>1. PICK rest : rest =
            [putCode |-> w.put_code, journal |-> w.journal_title, workType |-> w.type,
             date |-> orcid_date_to_string_date(w.publication_date),
             doi |-> SelfDois(w.external_ids)[1].external_id_value,
             externalIds |-> Each(transform_external_id, OtherIds(w.external_ids)),
             shortDescription |-> w.short_description,
             citation |-> [type |-> w.citation.citation_type,
                           value |-> w.citation.citation_value],
             selfContributor |-> [name |-> SelfName(profile.person), orcidId |-> orcid,
                                  roles |-> roles(own)],
             otherContributors |-> contributors_map(others)]
        OBVIOUS
    <2>2. transform_work(profile, w) = Good(rest)
        BY <1>2, <1>3, <1>4, <1>5, <1>7, <1>8, <2>1 DEF transform_work, own, others
    <2>3. rest = Shown(v, n)
        BY <1>3, <1>4, <1>5, <1>7, <1>8, <1>9, <2>1 DEF Shown
    <2> QED
        BY <2>2, <2>3
<1> QED
    BY <1>1, <1>10 DEF Read, w

(* What a work that can be shown is made of.                               *)
LEMMA ReadParts ==
    ASSUME NEW p, NEW w, NEW v, Read(p, w) = Good(v)
    PROVE  LET orcid  == p.orcid_identifier
               own    == OwnRecords(w.contributors, orcid)
               others == OtherRecords(w.contributors, orcid)
           IN  /\ Api!Work(w) /\ p.person.name # None /\ orcid \in PlainOrcidIds
               /\ IdsTransformable(w.external_ids)
               /\ RolesKnown(own) /\ RolesKnown(others)
               /\ v = [putCode |-> w.put_code, journal |-> w.journal_title,
                       workType |-> w.type,
                       date |-> orcid_date_to_string_date(w.publication_date),
                       doi |-> SelfDois(w.external_ids)[1].external_id_value,
                       externalIds |-> Each(transform_external_id, OtherIds(w.external_ids)),
                       shortDescription |-> w.short_description,
                       citation |-> [type |-> w.citation.citation_type,
                                     value |-> w.citation.citation_value],
                       selfContributor |-> [name |-> SelfName(p.person), orcidId |-> orcid,
                                            roles |-> roles(own)],
                       otherContributors |-> contributors_map(others)]
<1>1. Api!Work(w) /\ transform_work(p, w) = Good(v)
    BY DEF Read, Good, ValueError, Raise
<1>2. transform_work(p, w).ok /\ transform_work(p, w).value = v
    BY <1>1 DEF Good
<1> QED
    BY <1>1, <1>2 DEF transform_work, Good, ValueError, Raise, ORCIDProfileNamePrivate

(* What is read is composed: contributors grouped by name have a name of   *)
(* their own and a role each, the DOI and the owner are kept apart, and    *)
(* the date is one that comes back.                                        *)
LEMMA ReadComposed ==
    ASSUME IInv, work # None, NEW v, Read(profile, work) = Good(v)
    PROVE  /\ FullWork(v) /\ v.putCode \in PutCodes
           /\ Composed(v) /\ v = Shown(v, v.putCode)
           /\ ~TooManyParts(v.date)
           /\ NewWorkRecord(v).publication_date \in Api!FuzzyDate
<1> DEFINE orcid == profile.orcid_identifier
           own == OwnRecords(work.contributors, orcid)
           others == OtherRecords(work.contributors, orcid)
           xs == work.external_ids
           d == work.publication_date
<1>1. FullWork(v) /\ v.putCode \in PutCodes
    <2>1. PICK p : p = profile
        OBVIOUS
    <2>2. p \in Api!ORCIDProfile
        BY <2>1 DEF IInv, TypeOK
    <2>3. Read(p, work).ok /\ Read(p, work).value = v
        BY <2>1 DEF Good
    <2>4. Work(v)
        BY <2>2, <2>3, ReadTyped
    <2> QED
        BY <2>4 DEF Work, PersistedWorkBase
<1>2. /\ Api!Work(work) /\ IdsTransformable(xs)
      /\ profile.person.name # None /\ orcid \in PlainOrcidIds
      /\ RolesKnown(own) /\ RolesKnown(others)
      /\ v = [putCode |-> work.put_code, journal |-> work.journal_title,
              workType |-> work.type, date |-> orcid_date_to_string_date(d),
              doi |-> SelfDois(xs)[1].external_id_value,
              externalIds |-> Each(transform_external_id, OtherIds(xs)),
              shortDescription |-> work.short_description,
              citation |-> [type |-> work.citation.citation_type,
                            value |-> work.citation.citation_value],
              selfContributor |-> [name |-> SelfName(profile.person), orcidId |-> orcid,
                                   roles |-> roles(own)],
              otherContributors |-> contributors_map(others)]
    BY ReadParts
<1> HIDE DEF own, others, xs, d
<1>5. v = Shown(v, v.putCode)
    BY <1>2 DEF Shown
<1>6. /\ v.date = orcid_date_to_string_date(d)
      /\ v.externalIds = Each(transform_external_id, OtherIds(xs))
      /\ v.selfContributor.orcidId = orcid /\ v.selfContributor.name = SelfName(profile.person)
      /\ v.selfContributor.roles = roles(own)
      /\ v.otherContributors = contributors_map(others)
    BY <1>2
<1>7. d \in Api!FuzzyDate
    <2>1. None \notin Api!Date
        BY ConversionsAssumption, Zenon
    <2> QED
        BY <1>2, <2>1 DEF IInv, Dated, d, Api!Work, Api!WorkBase, Api!Optional
<1>8. ~TooManyParts(v.date) /\ parse_date(v.date) = d
    BY <1>6, <1>7, DateRoundTrip
<1>9. NewWorkRecord(v).publication_date = d
    BY <1>8 DEF NewWorkRecord
<1>10. \A x \in ToSet(v.externalIds) : ~(x.type = "doi" /\ x.relationship = "self")
    <2> DEFINE T == {x \in ToSet(xs) : ~IsSelfDoi(x)}
               zs == OtherIds(xs)
    <2>1. xs \in Seq(Api!ExternalId)
        BY <1>2 DEF xs, Api!Work, Api!WorkBase, Api!ExternalIds
    <2>2. zs \in Seq(Api!ExternalId \cap T)
        BY <2>1, KeptTyped DEF OtherIds
    <2>3. v.externalIds = [i \in DOMAIN zs |-> transform_external_id(zs[i])]
        BY <1>6 DEF Each
    <2> HIDE DEF zs
    <2>4. \A i \in DOMAIN zs : ~IsSelfDoi(zs[i])
        BY <2>2, ElementOfSeq, LenProperties
    <2> QED
        BY <2>3, <2>4 DEF IsSelfDoi, transform_external_id, ToSet
<1>11. /\ \A i, j \in DOMAIN v.otherContributors :
             v.otherContributors[i].name = v.otherContributors[j].name => i = j
       /\ \A c \in ToSet(v.otherContributors) : c.orcidId # orcid /\ c.roles # <<>>
    <2> DEFINE cs == work.contributors
               T == {c \in ToSet(cs) : c.path # orcid}
    <2>1. cs \in Seq(Api!Contributor)
        BY <1>2 DEF Api!Work, Api!ContributorWrapper
    <2>2. others = Kept(cs, T)
        BY DEF others, OtherRecords
    <2>3. others \in Seq(RoleRecord) /\ \A i \in DOMAIN others : others[i].path # orcid
        <3>1. others \in Seq(Api!Contributor \cap T)
            <4> HIDE DEF T, cs
            <4> QED
                BY <2>1, <2>2, KeptTyped
        <3>2. \A i \in DOMAIN others : others[i] \in T
            BY <3>1, ElementOfSeq, LenProperties
        <3>3. others \in Seq(RoleRecord)
            <4> HIDE DEF T, cs
            <4> QED
                BY <1>2, <2>1, <2>2, RecordsTyped
        <3> QED
            BY <3>2, <3>3
    <2>4. /\ contributors_map(others)
               = [k \in DOMAIN FirstOfName(others) |-> Entry(others, FirstOfName(others)[k])]
          /\ \A k \in DOMAIN FirstOfName(others) : FirstOfName(others)[k] \in DOMAIN others
        BY <2>3, EntriesAre
    <2>5. \A k \in DOMAIN contributors_map(others) : contributors_map(others)[k].orcidId # orcid
        BY <2>3, <2>4 DEF Entry
    <2>6. /\ \A k, l \in DOMAIN contributors_map(others) :
                contributors_map(others)[k].name = contributors_map(others)[l].name => k = l
          /\ \A k \in DOMAIN contributors_map(others) : contributors_map(others)[k].roles # <<>>
        BY <2>3, EntriesGood
    <2> QED
        BY <1>6, <2>5, <2>6 DEF ToSet
<1>12. v.date = orcid_date_to_string_date(parse_date(v.date))
    BY <1>6, <1>8
<1>13. Composed(v)
    BY <1>2, <1>6, <1>10, <1>11, <1>12 DEF Composed
<1> QED
    BY <1>1, <1>5, <1>7, <1>8, <1>9, <1>13

(* A write of a composed work succeeds and answers it.                     *)
LEMMA WrittenBack ==
    ASSUME NEW v, FullWork(v), Composed(v), NEW n \in PutCodes,
           NEW r, r = Good(With(NewWorkRecord(v), "put_code", n)), Accepts(r.value), Written(r)
    PROVE  /\ answer' = Good(Shown(v, n))
           /\ answer' = Read(profile, work')
           /\ work' = Stored(With(NewWorkRecord(v), "put_code", n))
<1>1. PICK w : w = Stored(With(NewWorkRecord(v), "put_code", n))
    OBVIOUS
<1>2. work' = w /\ answer' = Read(profile, w)
    BY <1>1 DEF Written, Answered, Good
<1>3. NewWorkRecord(v).publication_date \in Api!FuzzyDate
    <2>1. PICK z : z = NewWorkRecord(v)
        OBVIOUS
    <2>2. "publication_date" \in DOMAIN z
        BY <2>1 DEF NewWorkRecord
    <2>3. r.value = With(z, "put_code", n)
        BY <2>1 DEF Good
    <2>4. r.value.publication_date = z.publication_date
        BY <2>2, <2>3 DEF With
    <2> QED
        BY <2>1, <2>4 DEF Accepts
<1>4. Read(profile, w) = Good(Shown(v, n))
    BY <1>1, <1>3, WriteRead
<1> QED
    BY <1>1, <1>2, <1>4

(* Saving a work as it was read.                                           *)
LEMMA SavedAsRead ==
    ASSUME IInv, SaveWork, Fresh
    PROVE  answer' = Good(page) /\ answer' = Read(profile, work')
<1>1. PICK v, n : v = page /\ n = page.putCode
    OBVIOUS
<1>2. Read(profile, work) = Good(v) /\ work # None /\ Written(translate_work_update(v))
    BY <1>1 DEF Fresh, SaveWork
<1>3. /\ FullWork(v) /\ v.putCode \in PutCodes
      /\ Composed(v) /\ v = Shown(v, v.putCode)
      /\ ~TooManyParts(v.date)
      /\ NewWorkRecord(v).publication_date \in Api!FuzzyDate
    BY <1>2, ReadComposed
<1>4. PICK r : r = Good(With(NewWorkRecord(v), "put_code", n))
    OBVIOUS
<1>5. translate_work_update(v) = r
    BY <1>1, <1>3, <1>4 DEF translate_work_update
<1>6. Accepts(r.value)
    <2>1. PICK z : z = NewWorkRecord(v)
        OBVIOUS
    <2>2. "publication_date" \in DOMAIN z
        BY <2>1 DEF NewWorkRecord
    <2>3. r.value = With(z, "put_code", n)
        BY <1>4, <2>1 DEF Good
    <2>4. r.value.publication_date = z.publication_date
        BY <2>2, <2>3 DEF With
    <2> QED
        BY <1>3, <2>1, <2>4 DEF Accepts
<1>7. answer' = Good(Shown(v, n)) /\ answer' = Read(profile, work')
    BY <1>1, <1>2, <1>3, <1>4, <1>5, <1>6, WrittenBack
<1> QED
    BY <1>1, <1>3, <1>7

(* Saving a work as it was read succeeds and answers the same work,        *)
(* whoever wrote it: the two directions of every conversion agree for      *)
(* works of any size, with the grouping of the contributors by name, the   *)
(* DOI among the identifiers and the padding of the dates.                 *)
THEOREM SavesKeepWorks == Spec => SaveWhatWasRead
<1>1. IInv /\ SaveWork /\ Fresh => answer' = Good(page)
    BY SavedAsRead
<1> QED
    BY <1>1, Invariant, PTL DEF SaveWhatWasRead

(* A date of a year, a month and a day at most.                            *)
LEMMA AtMostThree ==
    ASSUME NEW d
    PROVE  Len(orcid_date_to_string_date(d)) <= 3
<1> DEFINE S == {d.year, nopad(d.month), nopad(d.day)}
           a == <<d.year>>
           b == IF d.month # None THEN <<nopad(d.month)>> ELSE <<>>
           c == IF d.month # None /\ d.day # None THEN <<nopad(d.day)>> ELSE <<>>
<1>1. a \in Seq(S) /\ Len(a) = 1
    OBVIOUS
<1>2. b \in Seq(S) /\ Len(b) \in {0, 1}
    <2>1. <<nopad(d.month)>> \in Seq(S) /\ Len(<<nopad(d.month)>>) = 1
        OBVIOUS
    <2>2. <<>> \in Seq(S) /\ Len(<<>>) = 0
        OBVIOUS
    <2> HIDE DEF S
    <2> QED
        BY <2>1, <2>2
<1>3. c \in Seq(S) /\ Len(c) \in {0, 1}
    <2>1. <<nopad(d.day)>> \in Seq(S) /\ Len(<<nopad(d.day)>>) = 1
        OBVIOUS
    <2>2. <<>> \in Seq(S) /\ Len(<<>>) = 0
        OBVIOUS
    <2> HIDE DEF S
    <2> QED
        BY <2>1, <2>2
<1>4. orcid_date_to_string_date(d) = a \o b \o c
    BY DEF orcid_date_to_string_date
<1> HIDE DEF S, a, b, c
<1>5. a \o b \in Seq(S) /\ Len(a \o b) = Len(a) + Len(b)
    BY <1>1, <1>2, ConcatProperties
<1>6. Len(a \o b \o c) = Len(a \o b) + Len(c)
    BY <1>3, <1>5, ConcatProperties
<1> QED
    BY <1>1, <1>2, <1>3, <1>4, <1>5, <1>6

(* What a creation answers that ORCID does not refuse.                     *)
LEMMA CreatedAsSent ==
    ASSUME NEW w, NEW n \in PutCodes, CreateWork(w, n), Composed(w), answer' # Refused
    PROVE  answer' = Good(With(w, "putCode", n))
<1>1. NewWork(w) /\ FullWork(w)
    BY DEF CreateWork, NewWork
<1>2. ~TooManyParts(w.date)
    <2>1. PICK s : s = w.date
        OBVIOUS
    <2>2. s \in Seq(Seq(0..9)) /\ Len(s) <= 3
        BY <1>1, <2>1, AtMostThree DEF Composed, FullWork, WorkBase, DateString
    <2>3. ~(Len(s) > 3)
        BY <2>2, LenProperties
    <2> QED
        BY <2>1, <2>3 DEF TooManyParts
<1>3. PICK r : r = Good(With(NewWorkRecord(w), "put_code", n))
    OBVIOUS
<1>4. Written(r)
    BY <1>2, <1>3 DEF CreateWork, create_work_record, Good
<1>5. Accepts(r.value)
    BY <1>3, <1>4 DEF Written, Answered, Good
<1>6. answer' = Good(Shown(w, n))
    BY <1>1, <1>3, <1>4, <1>5, WrittenBack
<1>7. Shown(w, n) = With(w, "putCode", n)
    <2> DEFINE F == {"workType", "date", "doi", "externalIds", "journal", "shortDescription",
                     "citation", "selfContributor", "otherContributors"}
    <2>1. DOMAIN w = F
        BY <1>1 DEF NewWork
    <2> QED
        BY <2>1 DEF Shown, With
<1> QED
    BY <1>6, <1>7

(* create-work answers the work that it was sent, whatever is in it, if    *)
(* ORCID accepts its date.                                                 *)
THEOREM CreatesAnswerThemselves == Spec => CreatedIsReturned
<1>1. work = None =>
        \A w \in NewWorks, n \in PutCodes :
            CreateWork(w, n) /\ Composed(w) /\ answer' # Refused
                => answer' = Good(With(w, "putCode", n))
    BY CreatedAsSent
<1> QED
    BY <1>1, PTL DEF CreatedIsReturned

-----------------------------------------------------------------------------
(* Who did what.  How often a value is in a sequence.                      *)
Times(s, x) == Cardinality({i \in DOMAIN s : s[i] = x})

(* The records of a loop with a role are the records with the role that    *)
(* the loop keeps.                                                         *)
LEMMA RoleTimes ==
    ASSUME NEW R, NEW cs \in Seq(R), NEW S, NEW role
    PROVE  Cardinality({i \in DOMAIN cs : cs[i] \in S /\ cs[i].role = role})
             = Times(roles(Kept(cs, S)), role)
<1> DEFINE T == {c \in R : c.role = role}
           ks == Kept(cs, S)
           rs == roles(ks)
<1>1. ks \in Seq(R)
    BY KeptIn
<1>2. \A i \in DOMAIN cs : cs[i] \in R
    BY ElementOfSeq, LenProperties
<1>3. {i \in DOMAIN cs : cs[i] \in S /\ cs[i].role = role} = {i \in DOMAIN cs : cs[i] \in S \cap T}
    BY <1>2
<1>4. Cardinality({i \in DOMAIN cs : cs[i] \in S \cap T}) = Len(Kept(ks, T))
    <2>1. PICK U : U = S \cap T
        OBVIOUS
    <2>2. Cardinality({i \in DOMAIN cs : cs[i] \in U}) = Len(Kept(cs, U))
        BY KeptCount
    <2>3. Kept(ks, T) = Kept(cs, U)
        BY <2>1, KeptTwice
    <2> QED
        BY <2>1, <2>2, <2>3
<1>5. rs = [i \in DOMAIN ks |-> ks[i].role]
    BY DEF roles, Each
<1> HIDE DEF ks, rs
<1>6. Len(Kept(ks, T)) = Cardinality({i \in DOMAIN ks : ks[i] \in T})
    BY <1>1, KeptCount
<1>7. \A i \in DOMAIN ks : ks[i] \in R
    BY <1>1, ElementOfSeq, LenProperties
<1>8. {i \in DOMAIN ks : ks[i] \in T} = {i \in DOMAIN rs : rs[i] = role}
    BY <1>5, <1>7
<1> QED
    BY <1>3, <1>4, <1>6, <1>8 DEF Times, ks, rs

(* The roles under a name are those of its entry in contributors_map, if   *)
(* there is one, and none otherwise.                                       *)
LEMMA RolesUnderName ==
    ASSUME NEW K, NEW cs \in Seq(K), NEW name
    PROVE  LET m == contributors_map(cs)
           IN  /\ \A k \in DOMAIN m : m[k].name = name => m[k].roles = roles(OfName(cs, name))
               /\ (\A k \in DOMAIN m : m[k].name # name) => OfName(cs, name) = <<>>
<1> DEFINE m == contributors_map(cs)
           F == FirstOfName(cs)
<1>1. /\ m = [k \in DOMAIN F |-> Entry(cs, F[k])] /\ DOMAIN m = DOMAIN F
      /\ \A k \in DOMAIN F : F[k] \in DOMAIN cs
    BY EntriesAre
<1> HIDE DEF m, F
<1>2. \A k \in DOMAIN m : m[k] = Entry(cs, F[k])
    BY <1>1
<1>3. ASSUME NEW k \in DOMAIN m, m[k].name = name
      PROVE  m[k].roles = roles(OfName(cs, name))
    BY <1>2, <1>3 DEF Entry
<1>4. ASSUME \A k \in DOMAIN m : m[k].name # name
      PROVE  OfName(cs, name) = <<>>
    <2>1. ASSUME NEW i \in DOMAIN cs, cs[i].credit_name = name
          PROVE  FALSE
        <3>1. PICK k \in DOMAIN F : cs[F[k]].credit_name = cs[i].credit_name
            BY NameHasFirst DEF F
        <3>2. m[k].name = name
            BY <1>1, <1>2, <2>1, <3>1 DEF Entry
        <3> QED
            BY <1>1, <1>4, <3>1, <3>2
    <2>2. {c \in ToSet(cs) : c.credit_name = name} = {}
        BY <2>1 DEF ToSet
    <2>3. Kept(cs, {}) = <<>>
        <3>1. K \cap {} = {}
            OBVIOUS
        <3> QED
            BY <3>1, KeptNothing
    <2> QED
        BY <2>2, <2>3 DEF OfName
<1> QED
    BY <1>3, <1>4 DEF m

(* So what is read of a work says who did what in it.                      *)
LEMMA ContributionsAre ==
    ASSUME NEW w, NEW v, Read(profile, w) = Good(v), NEW person, NEW role
    PROVE  LET others == OtherRecords(w.contributors, profile.orcid_identifier)
           IN  Contributions(w, person, role)
                 = IF person = None THEN Times(v.selfContributor.roles, role)
                   ELSE Times(roles(OfName(others, person)), role)
<1> DEFINE cs == w.contributors
           orcid == profile.orcid_identifier
           others == OtherRecords(cs, orcid)
<1>1. /\ cs \in Seq(Api!Contributor)
      /\ v.selfContributor.roles = roles(OwnRecords(cs, orcid))
    <2>1. PICK p : p = profile
        OBVIOUS
    <2>2. Read(p, w) = Good(v)
        BY <2>1
    <2>3. /\ Api!Work(w)
          /\ v.selfContributor.roles = roles(OwnRecords(w.contributors, p.orcid_identifier))
        BY <2>2, ReadParts
    <2> QED
        BY <2>1, <2>3 DEF Api!Work, Api!ContributorWrapper
<1>2. \A i \in DOMAIN cs : cs[i] \in ToSet(cs) /\ cs[i].credit_name # None
    <2>1. None \notin Seq(Words)
        BY ConversionsAssumption, Zenon
    <2>2. \A i \in DOMAIN cs : cs[i] \in Api!Contributor
        BY <1>1, ElementOfSeq, LenProperties
    <2> QED
        BY <2>1, <2>2 DEF ToSet, Api!Contributor
<1>3. Contributions(w, person, role)
        = Cardinality({i \in DOMAIN cs :
                          /\ cs[i].role = role
                          /\ person = IF cs[i].path = orcid THEN None ELSE cs[i].credit_name})
    BY DEF Contributions
<1> HIDE DEF cs, orcid
<1>4. CASE person = None
    <2> DEFINE S == {c \in ToSet(cs) : c.path = orcid}
    <2>1. {i \in DOMAIN cs :
              /\ cs[i].role = role
              /\ person = IF cs[i].path = orcid THEN None ELSE cs[i].credit_name}
            = {i \in DOMAIN cs : cs[i] \in S /\ cs[i].role = role}
        BY <1>2, <1>4
    <2>2. OwnRecords(cs, orcid) = Kept(cs, S)
        BY DEF OwnRecords
    <2> HIDE DEF S
    <2>3. Cardinality({i \in DOMAIN cs : cs[i] \in S /\ cs[i].role = role})
            = Times(roles(Kept(cs, S)), role)
        BY <1>1, RoleTimes
    <2> QED
        BY <1>1, <1>3, <1>4, <2>1, <2>2, <2>3 DEF cs, orcid
<1>5. CASE person # None
    <2> DEFINE T == {c \in ToSet(cs) : c.path # orcid}
               N == {c \in Api!Contributor : c.credit_name = person}
               A == {c \in ToSet(others) : c.credit_name = person}
    <2>1. \A i \in DOMAIN cs : cs[i] \in Api!Contributor
        BY <1>1, ElementOfSeq, LenProperties
    <2>2. {i \in DOMAIN cs :
              /\ cs[i].role = role
              /\ person = IF cs[i].path = orcid THEN None ELSE cs[i].credit_name}
            = {i \in DOMAIN cs : cs[i] \in T \cap N /\ cs[i].role = role}
        BY <1>2, <1>5, <2>1
    <2>3. others = Kept(cs, T)
        BY DEF OtherRecords
    <2>4. OfName(others, person) = Kept(others, A)
        BY DEF OfName
    <2> HIDE DEF T
    <2>5. others \in Seq(Api!Contributor)
        BY <1>1, <2>3, KeptIn
    <2> HIDE DEF others
    <2>6. \A i \in 1..Len(others) : others[i] \in A <=> others[i] \in N
        <3>1. \A i \in 1..Len(others) : others[i] \in Api!Contributor /\ others[i] \in ToSet(others)
            BY <2>5, ElementOfSeq, LenProperties DEF ToSet
        <3> QED
            BY <3>1
    <2> HIDE DEF A, N
    <2>7. Kept(others, A) = Kept(others, N)
        BY <2>5, <2>6, KeptSame
    <2>8. PICK U : U = T \cap N
        OBVIOUS
    <2>9. Kept(Kept(cs, T), N) = Kept(cs, U)
        BY <1>1, <2>8, KeptTwice
    <2>10. Cardinality({i \in DOMAIN cs : cs[i] \in U /\ cs[i].role = role})
             = Times(roles(Kept(cs, U)), role)
        BY <1>1, RoleTimes
    <2> QED
        BY <1>3, <1>5, <2>2, <2>3, <2>4, <2>7, <2>8, <2>9, <2>10 DEF others, cs, orcid
<1> QED
    BY <1>4, <1>5

(* Two works that are read alike.                                          *)
LEMMA SameContributions ==
    ASSUME NEW w, NEW u, NEW v, Read(profile, w) = Good(v), Read(profile, u) = Good(v),
           NEW person, NEW role
    PROVE  Contributions(w, person, role) = Contributions(u, person, role)
<1> DEFINE orcid == profile.orcid_identifier
           cs == OtherRecords(w.contributors, orcid)
           ds == OtherRecords(u.contributors, orcid)
<1>1. /\ cs \in Seq(Api!Contributor) /\ contributors_map(cs) = v.otherContributors
      /\ ds \in Seq(Api!Contributor) /\ contributors_map(ds) = v.otherContributors
    <2>1. ASSUME NEW a, Read(profile, a) = Good(v)
          PROVE  /\ OtherRecords(a.contributors, orcid) \in Seq(Api!Contributor)
                 /\ contributors_map(OtherRecords(a.contributors, orcid)) = v.otherContributors
        <3>1. PICK p : p = profile
            OBVIOUS
        <3>2. Read(p, a) = Good(v)
            BY <2>1, <3>1
        <3>3. /\ Api!Work(a)
              /\ v.otherContributors
                   = contributors_map(OtherRecords(a.contributors, p.orcid_identifier))
            BY <3>2, ReadParts
        <3>4. a.contributors \in Seq(Api!Contributor)
            BY <3>3 DEF Api!Work, Api!ContributorWrapper
        <3>5. OtherRecords(a.contributors, orcid) \in Seq(Api!Contributor)
            BY <3>4, KeptIn DEF OtherRecords
        <3> QED
            BY <3>1, <3>3, <3>5
    <2> QED
        BY <2>1
<1> HIDE DEF cs, ds
<1>2. roles(OfName(cs, person)) = roles(OfName(ds, person))
    <2> DEFINE m == v.otherContributors
    <2>1. /\ \A k \in DOMAIN m : m[k].name = person => m[k].roles = roles(OfName(cs, person))
          /\ (\A k \in DOMAIN m : m[k].name # person) => OfName(cs, person) = <<>>
        BY <1>1, RolesUnderName
    <2>2. /\ \A k \in DOMAIN m : m[k].name = person => m[k].roles = roles(OfName(ds, person))
          /\ (\A k \in DOMAIN m : m[k].name # person) => OfName(ds, person) = <<>>
        BY <1>1, RolesUnderName
    <2> HIDE DEF m
    <2> QED
        BY <2>1, <2>2
<1>3. Contributions(w, person, role)
        = IF person = None THEN Times(v.selfContributor.roles, role)
          ELSE Times(roles(OfName(cs, person)), role)
    BY ContributionsAre DEF cs
<1>4. Contributions(u, person, role)
        = IF person = None THEN Times(v.selfContributor.roles, role)
          ELSE Times(roles(OfName(ds, person)), role)
    BY ContributionsAre DEF ds
<1> QED
    BY <1>2, <1>3, <1>4

(* Saving a work as it was read loses and doubles no contribution, however *)
(* many contributors and roles there are and in whatever order ORCID has   *)
(* their records.                                                          *)
THEOREM SavesKeepContributions == Spec => ContributionsKept
<1>1. ASSUME IInv, SaveWork, Fresh,
             NEW person \in People(work), NEW role \in RolesIn(work) \cup RolesIn(work')
      PROVE  Contributions(work, person, role) = Contributions(work', person, role)
    <2>1. PICK v, u : v = page /\ u = work'
        OBVIOUS
    <2>2. Read(profile, work) = Good(v)
        BY <1>1, <2>1 DEF Fresh
    <2>3. Read(profile, u) = Good(v)
        BY <1>1, <2>1, SavedAsRead
    <2>4. Contributions(work, person, role) = Contributions(u, person, role)
        BY <2>2, <2>3, SameContributions
    <2> QED
        BY <2>1, <2>4
<1>2. IInv => (SaveWork /\ Fresh =>
                 \A person \in People(work), role \in RolesIn(work) \cup RolesIn(work') :
                     Contributions(work, person, role) = Contributions(work', person, role))
    BY <1>1
<1> QED
    BY <1>2, Invariant, PTL DEF ContributionsKept
=============================================================================
