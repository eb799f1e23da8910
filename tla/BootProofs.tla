----------------------------- MODULE BootProofs -----------------------------
(***************************************************************************)
(* The description document tells the truth, and an instance serves only   *)
(* from a database of its own version, however many instances start at the *)
(* same time and however often they stop half way.                         *)
(***************************************************************************)
EXTENDS Boot, SequenceTheorems, TLAPS

-----------------------------------------------------------------------------
(* The inductive invariant.                                                *)

(* What a command leaves behind, and no later step of any instance undoes. *)
LinksConform(v) == schema["links"] >= v /\ \A l \in links : Conforms(l, v)

Done(c) ==
    /\ c.op \in {"create", "collMod"} => schema[c.on] >= c.to
    /\ c.op = "patch" \/ (c.op = "create" /\ c.on = "links") => LinksConform(c.to)
    /\ c.op \in {"plain", "unique"} /\ c.on = "links" => schema["links"] # NoCollection
    /\ c.op = "unique" => index = "unique"
    /\ c.op = "describe" => description >= c.to

(* Nothing in the database is ahead of the deployed version, and a         *)
(* database with a description was initialized by some version.            *)
Bounded ==
    /\ \A c \in Collections : schema[c] <= SchemaOf(version)
    /\ description <= version
    /\ origin <= version
    /\ origin = NoDescription <=> description = NoDescription
    /\ origin >= 30 => index = "unique"
    /\ index = "unique" => version >= 30

Keyed ==
    /\ schema["links"] = NoCollection => links = {}
    /\ \A l, m \in links : l._id = m._id => l = m

(* An instance in the middle of a script has run the commands before its   *)
(* position, and they still hold.                                          *)
AtWork(k) == k.pc \in {"running", "patching"}

Steps(d) == Len(Script(version, d))

WorkDone(k) ==
    /\ k.at \in 1..(Steps(k.found) + 1)
    /\ \A n \in 1..(k.at - 1) : Done(Script(version, k.found)[n])
    /\ ~NoPath(version, k.found)
    /\ description >= k.found

(* A cursor of the patch misses no link that needs it, and holds each link *)
(* as it was or as a patch has made it.                                    *)
SameButPatched(l, b) == l.fields \cup {"retires_at"} = b.fields \cup {"retires_at"}

Covers(k) ==
    /\ k.at <= Steps(k.found) /\ Script(version, k.found)[k.at] = Patch
    /\ \A l \in links : ~Conforms(l, 40) => \E b \in k.batch : b._id = l._id
    /\ \A l \in links, b \in k.batch : b._id = l._id => SameButPatched(l, b)

(* Creating the first collection elects one initializer, and until it is   *)
(* done there is no description.                                           *)
Initializing(k) == AtWork(k) /\ k.found = NoDescription /\ version >= 30

Elected(k) == Initializing(k) /\ k.at > 1

Undescribed(k) ==
    /\ description # 21
    /\ k.at \in 2..7 => description = NoDescription

Sound(k) ==
    /\ AtWork(k) => WorkDone(k)
    /\ k.pc = "patching" => Covers(k)
    /\ Initializing(k) => Undescribed(k)
    /\ k.pc = "serving" => description = version

OneInitializer == \A i, j \in Instances : Elected(proc[i]) /\ Elected(proc[j]) => i = j

IInv ==
    /\ TypeOK /\ Bounded /\ Keyed /\ DescriptionTruthful
    /\ OneInitializer /\ \A i \in Instances : Sound(proc[i])

-----------------------------------------------------------------------------
(* The scripts.                                                            *)

Fitting(v, d, n) ==
    LET c == Script(v, d)[n] IN
    /\ c.on \in Collections
    /\ c.op \in {"create", "collMod", "drop", "plain", "unique", "patch", "describe"}
    /\ c.to \in Nat
    /\ c.op \in {"create", "collMod"} => c.to = SchemaOf(v) /\ v >= 30 /\ c.on # "linking_sessions"
    /\ c.op = "drop" => c.on = "linking_sessions"
    /\ c.op = "plain" => v = 21
    /\ c.op = "unique" => c.on = "links" /\ v >= 30
    /\ c.op = "patch" => c = Patch /\ d = 30 /\ n > 1 /\ Script(v, d)[1] = CollMod("links", 40)
    /\ c.op = "describe" =>
        /\ c.to = v \/ (v = 41 /\ d = NoDescription /\ n = 7 /\ c.to = 40)
        /\ v >= 30 /\ d = NoDescription => n >= 7
    /\ n = 1 /\ v >= 30 /\ d = NoDescription =>
        c = Create("linking_sessions_initial", SchemaOf(v))

(* A concatenation, element by element.                                    *)
LEMMA SevenAndOne ==
    ASSUME NEW a, NEW b, NEW c, NEW d, NEW e, NEW f, NEW g, NEW h
    PROVE  LET t == <<a, b, c, d, e, f, g>>
           IN  /\ Len(t \o <<h>>) = 8
               /\ \A n \in 1..8 : (t \o <<h>>)[n] = IF n = 8 THEN h ELSE t[n]
<1> DEFINE S == {a, b, c, d, e, f, g, h}
           t == <<a, b, c, d, e, f, g>>
<1>1. t \in Seq(S) /\ Len(t) = 7
  OBVIOUS
<1>2. <<h>> \in Seq(S) /\ Len(<<h>>) = 1 /\ <<h>>[1] = h
  OBVIOUS
<1>3. \A x, y \in Seq(S) : /\ Len(x \o y) = Len(x) + Len(y)
                           /\ \A n \in 1..(Len(x) + Len(y)) :
                                (x \o y)[n] = IF n <= Len(x) THEN x[n] ELSE y[n - Len(x)]
  <2> HIDE DEF S
  <2> QED
    BY ConcatProperties
<1>4. /\ Len(t \o <<h>>) = 8
      /\ \A n \in 1..8 : (t \o <<h>>)[n] = IF n <= 7 THEN t[n] ELSE <<h>>[n - 7]
  <2>1. \A u \in Seq(S) : Len(u) = 1 => /\ Len(t \o u) = 8
                                        /\ \A n \in 1..8 : (t \o u)[n] = IF n <= 7 THEN t[n] ELSE u[n - 7]
    <3> HIDE DEF S, t
    <3> TAKE u \in Seq(S)
    <3> HAVE Len(u) = 1
    <3>1. Len(t \o u) = Len(t) + Len(u)
      BY <1>1, <1>3
    <3>2. \A n \in 1..(Len(t) + Len(u)) :
            (t \o u)[n] = IF n <= Len(t) THEN t[n] ELSE u[n - Len(t)]
      BY <1>1, <1>3
    <3> QED
      BY <1>1, <3>1, <3>2
  <2> HIDE DEF S, t
  <2> QED
    BY <1>2, <2>1
<1> QED
  BY <1>2, <1>4

(* Every command of every script is one the model knows how to apply.      *)
LEMMA CommandsFit ==
    ASSUME NEW v \in Versions, NEW d \in Versions \cup {NoDescription},
           NEW n \in 1..Len(Script(v, d))
    PROVE  Fitting(v, d, n)
<1> USE DEF Fitting, Create, CollMod, Drop, Index, Patch, Describe, Command, Collections,
            SessionCollections, SchemaOf, Versions, NoDescription
<1>1. CASE v = 21 /\ d = NoDescription
  <2>1. Script(v, d) = InitializeV021
    BY <1>1 DEF Script
  <2> QED
    BY <1>1, <2>1 DEF InitializeV021
<1>2. CASE v \in {30, 40} /\ d = NoDescription
  <2>1. Script(v, d) = InitializeWith(v)
    BY <1>2 DEF Script, InitializeV030, InitializeV040
  <2>2. Len(InitializeWith(v)) = 7 /\ n \in 1..7
    BY <2>1 DEF InitializeWith
  <2> QED
    BY <1>2, <2>1, <2>2 DEF InitializeWith
<1>3. CASE v = 41 /\ d = NoDescription
  <2>1. Script(v, d) = InitializeWith(40) \o <<Describe(41)>>
    BY <1>3 DEF Script, InitializeV040, MigrateV040ToV041
  <2>2. Len(Script(v, d)) = 8 /\ \A m \in 1..8 : Script(v, d)[m] =
            IF m = 8 THEN Describe(41) ELSE InitializeWith(40)[m]
    BY <2>1, SevenAndOne DEF InitializeWith
  <2>3. CASE n = 8
    BY <1>3, <2>2, <2>3
  <2>4. CASE n \in 1..7
    <3>1. Script(v, d)[n] = InitializeWith(40)[n]
      BY <2>2, <2>4
    <3> QED
      BY <1>3, <2>4, <3>1 DEF InitializeWith
  <2> QED
    BY <2>2, <2>3, <2>4
<1>4. CASE v = 30 /\ d = 21
  <2>1. Script(v, d) = MigrateV021ToV030
    BY <1>4 DEF Script
  <2>2. n \in 1..6
    BY <2>1 DEF MigrateV021ToV030
  <2> QED
    BY <1>4, <2>1, <2>2 DEF MigrateV021ToV030
<1>5. CASE v = 40 /\ d = 30
  <2>1. Script(v, d) = MigrateV030ToV040
    BY <1>5 DEF Script
  <2>2. n \in 1..6
    BY <2>1 DEF MigrateV030ToV040
  <2> QED
    BY <1>5, <2>1, <2>2 DEF MigrateV030ToV040
<1>6. CASE v = 41 /\ d = 40
  <2>1. Script(v, d) = MigrateV040ToV041
    BY <1>6 DEF Script
  <2>2. n \in 1..1
    BY <2>1 DEF MigrateV040ToV041
  <2> QED
    BY <1>6, <2>1, <2>2 DEF MigrateV040ToV041
<1>7. CASE Script(v, d) = <<>>
  BY <1>7
<1> QED
  BY <1>1, <1>2, <1>3, <1>4, <1>5, <1>6, <1>7 DEF Script

(* What has to be there when the description is written.                   *)
LEMMA Described ==
    ASSUME IInv, NEW d \in Versions \cup {NoDescription}, ~NoPath(version, d),
           description >= d,
           NEW n \in 1..Steps(d), Script(version, d)[n].op = "describe",
           \A m \in 1..(n - 1) : Done(Script(version, d)[m])
    PROVE  /\ Shape(Script(version, d)[n].to)
           /\ d = NoDescription /\ version >= 30 => index = "unique"
<1> DEFINE c == Script(version, d)[n]
<1> USE DEF Done, Shape, Conforms, LinksConform, Create, CollMod, Drop, Index, Patch, Describe,
            Command, SessionCollections, SchemaOf, Versions, NoDescription
<1>0. /\ version \in Versions /\ schema \in [Collections -> {NoCollection, 21, 30, 40}]
      /\ links \subseteq Link
  BY DEF IInv, TypeOK
<1>1. CASE version = 21 /\ d = NoDescription
  <2>1. Script(version, d) = InitializeV021
    BY <1>1 DEF Script
  <2>2. n = 3 /\ c = Describe(21)
    <3>1. n \in 1..3
      BY <2>1 DEF InitializeV021, Steps
    <3> QED
      BY <1>1, <2>1, <3>1 DEF InitializeV021
  <2>3. Done(InitializeV021[2])
    BY <2>1, <2>2
  <2>4. schema["links"] # NoCollection
    BY <2>3 DEF InitializeV021
  <2> QED
    BY <1>0, <1>1, <2>2, <2>4 DEF NoCollection, Collections
<1>2. CASE version >= 30 /\ d = NoDescription
  <2>1. \A m \in 1..7 : m <= n => Script(version, d)[m] = InitializeWith(SchemaOf(version))[m]
    BY <1>0, <1>2, SevenAndOne DEF Script, InitializeV030, InitializeV040, MigrateV040ToV041, InitializeWith
  <2>2. n >= 7 /\ c.to \in Versions /\ SchemaOf(c.to) = SchemaOf(version) /\ c.to >= 30
    BY <1>0, <1>2, CommandsFit DEF Fitting, Steps
  <2>3. \A m \in 1..6 : Done(InitializeWith(SchemaOf(version))[m])
    BY <2>1, <2>2
  <2>4. /\ \A k \in SessionCollections \cup {"links"} : schema[k] >= SchemaOf(version)
        /\ LinksConform(SchemaOf(version))
        /\ index = "unique"
    BY <2>3 DEF InitializeWith
  <2> QED
    BY <1>0, <1>2, <2>2, <2>4
<1>3. CASE version = 30 /\ d = 21
  <2>1. Script(version, d) = MigrateV021ToV030
    BY <1>3 DEF Script
  <2>2. n = 6 /\ c = Describe(30)
    <3>1. n \in 1..6
      BY <2>1 DEF MigrateV021ToV030, Steps
    <3> QED
      BY <1>3, <2>1, <3>1 DEF MigrateV021ToV030
  <2>3. \A m \in 1..5 : Done(MigrateV021ToV030[m])
    BY <2>1, <2>2
  <2>4. \A k \in SessionCollections \cup {"links"} : schema[k] >= 30
    BY <2>3 DEF MigrateV021ToV030
  <2> QED
    BY <1>0, <1>3, <2>2, <2>4
<1>4. CASE version = 40 /\ d = 30
  <2>1. Script(version, d) = MigrateV030ToV040
    BY <1>4 DEF Script
  <2>2. n = 6 /\ c = Describe(40)
    <3>1. n \in 1..6
      BY <2>1 DEF MigrateV030ToV040, Steps
    <3> QED
      BY <1>4, <2>1, <3>1 DEF MigrateV030ToV040
  <2>3. \A m \in 1..5 : Done(MigrateV030ToV040[m])
    BY <2>1, <2>2
  <2>4. /\ \A k \in SessionCollections : schema[k] >= 40
        /\ LinksConform(40)
    BY <2>3 DEF MigrateV030ToV040
  <2> QED
    BY <1>0, <1>4, <2>2, <2>4
<1>5. CASE version = 41 /\ d = 40
  <2>1. Script(version, d) = MigrateV040ToV041
    BY <1>5 DEF Script
  <2>2. c = Describe(41)
    <3>1. n = 1
      BY <2>1 DEF MigrateV040ToV041, Steps
    <3> QED
      BY <1>5, <2>1, <3>1 DEF MigrateV040ToV041
  <2>3. description \in {40, 41} /\ Shape(description)
    BY <1>5 DEF IInv, TypeOK, Bounded, DescriptionTruthful
  <2> QED
    BY <1>0, <1>5, <2>2, <2>3
<1>6. CASE Script(version, d) = <<>>
  BY <1>6 DEF Steps
<1>7. \/ d = NoDescription
      \/ <<version, d>> \in {<<30, 21>>, <<40, 30>>, <<41, 40>>}
      \/ Script(version, d) = <<>>
  BY <1>0 DEF Script
<1> QED
  BY <1>0, <1>1, <1>2, <1>3, <1>4, <1>5, <1>6, <1>7

(* The last command of a script writes the version it leads to; no command *)
(* means that there is nothing to migrate.                                 *)
Ends(v, d) ==
    /\ Len(Script(v, d)) \in Nat
    /\ Len(Script(v, d)) > 0 => Script(v, d)[Len(Script(v, d))] = Describe(v)
    /\ Len(Script(v, d)) = 0 => d = v

(* The last command of a script describes the deployed version.            *)
LEMMA ScriptEnds ==
    ASSUME NEW v \in Versions, NEW d \in Versions \cup {NoDescription}, ~NoPath(v, d)
    PROVE  Ends(v, d)
<1>1. CASE v = 21 /\ d = NoDescription
  <2>1. Script(v, d) = InitializeV021
    BY <1>1 DEF Script
  <2>2. Len(InitializeV021) = 3 /\ InitializeV021[3] = Describe(21)
    BY DEF InitializeV021
  <2>3. Len(Script(v, d)) = 3 /\ Script(v, d)[Len(Script(v, d))] = Describe(v)
    BY <1>1, <2>1, <2>2
  <2> QED
    BY <2>3 DEF Ends
<1>2. CASE v \in {30, 40} /\ d = NoDescription
  <2>1. Script(v, d) = InitializeWith(v)
    BY <1>2 DEF Script, InitializeV030, InitializeV040, NoDescription
  <2>2. Len(InitializeWith(v)) = 7 /\ InitializeWith(v)[7] = Describe(v)
    BY DEF InitializeWith
  <2>3. Len(Script(v, d)) = 7 /\ Script(v, d)[Len(Script(v, d))] = Describe(v)
    BY <1>2, <2>1, <2>2
  <2> QED
    BY <2>3 DEF Ends
<1>3. CASE v = 41 /\ d = NoDescription
  <2>1. Script(v, d) = InitializeWith(40) \o <<Describe(41)>>
    BY <1>3 DEF Script, InitializeV040, MigrateV040ToV041, NoDescription
  <2>2. Len(Script(v, d)) = 8 /\ Script(v, d)[8] = Describe(41)
    BY <2>1, SevenAndOne DEF InitializeWith
  <2>3. Len(Script(v, d)) = 8 /\ Script(v, d)[8] = Describe(v)
    BY <1>3, <2>1, <2>2
  <2> QED
    BY <2>3 DEF Ends
<1>4. CASE v = 30 /\ d = 21
  <2>1. Script(v, d) = MigrateV021ToV030
    BY <1>4 DEF Script
  <2>2. Len(MigrateV021ToV030) = 6 /\ MigrateV021ToV030[6] = Describe(v)
    BY <1>4 DEF MigrateV021ToV030
  <2>3. Len(Script(v, d)) = 6 /\ Script(v, d)[6] = Describe(v)
    BY <1>4, <2>1, <2>2
  <2> QED
    BY <2>3 DEF Ends
<1>5. CASE v = 40 /\ d = 30
  <2>1. Script(v, d) = MigrateV030ToV040
    BY <1>5 DEF Script
  <2>2. Len(MigrateV030ToV040) = 6 /\ MigrateV030ToV040[6] = Describe(v)
    BY <1>5 DEF MigrateV030ToV040
  <2>3. Len(Script(v, d)) = 6 /\ Script(v, d)[6] = Describe(v)
    BY <1>5, <2>1, <2>2
  <2> QED
    BY <2>3 DEF Ends
<1>6. CASE v = 41 /\ d = 40
  <2>1. Script(v, d) = MigrateV040ToV041
    BY <1>6 DEF Script
  <2>2. Len(MigrateV040ToV041) = 1 /\ MigrateV040ToV041[1] = Describe(v)
    BY <1>6 DEF MigrateV040ToV041
  <2>3. Len(Script(v, d)) = 1 /\ Script(v, d)[1] = Describe(v)
    BY <1>6, <2>1, <2>2
  <2> QED
    BY <2>3 DEF Ends
<1>7. CASE v = d
  <2>1. Script(v, d) = <<>>
    BY <1>7 DEF Script, Versions, NoDescription
  <2> QED
    BY <1>7, <2>1 DEF Ends
<1> QED
  BY <1>1, <1>2, <1>3, <1>4, <1>5, <1>6, <1>7 DEF NoPath, Versions

(* A script that has been run to its end has written the description.      *)
LEMMA Completed ==
    ASSUME TypeOK, Bounded, NEW d \in Versions \cup {NoDescription}, ~NoPath(version, d),
           description >= d,
           \A m \in 1..Steps(d) : Done(Script(version, d)[m])
    PROVE  description = version
<1>1. version \in Versions /\ description \in Versions \cup {NoDescription} /\ description <= version
  BY DEF TypeOK, Bounded
<1>2. Ends(version, d)
  BY <1>1, ScriptEnds
<1>3. description >= version
  <2>1. CASE Steps(d) > 0
    BY <1>2, <2>1 DEF Ends, Steps, Done, Describe, Command
  <2>2. CASE Steps(d) = 0
    BY <1>2, <2>2 DEF Ends, Steps
  <2> QED
    BY <1>2, <2>1, <2>2 DEF Ends, Steps
<1> QED
  BY <1>1, <1>3 DEF Versions, NoDescription

-----------------------------------------------------------------------------
(* What every step of an instance leaves standing.                         *)

Preserves ==
    /\ version' = version
    /\ description' >= description
    /\ \A c \in Collections : c # "linking_sessions" => schema'[c] >= schema[c]
    /\ LinksConform(40) => LinksConform(40)'
    /\ index = "unique" => index' = "unique"

(* Conforming to a version before 0.4.0 is no more than being validated.   *)
LEMMA ConformsStay ==
    ASSUME TypeOK, TypeOK', Preserves, NEW v \in {21, 30, 40}, LinksConform(v)
    PROVE  LinksConform(v)'
<1>1. CASE v = 40
  BY <1>1 DEF Preserves
<1>2. CASE v # 40
  <2>1. schema'["links"] >= schema["links"]
    BY DEF Preserves, Collections
  <2>2. schema["links"] \in Nat /\ schema'["links"] \in Nat
    BY DEF TypeOK, Collections, NoCollection
  <2> QED
    BY <1>2, <2>1, <2>2 DEF LinksConform, Conforms
<1> QED
  BY <1>1, <1>2

(* What a command has achieved is not undone by a later one.               *)
LEMMA DoneStays ==
    ASSUME TypeOK, TypeOK', Preserves, NEW d \in Versions \cup {NoDescription},
           NEW n \in 1..Steps(d), Done(Script(version, d)[n])
    PROVE  Done(Script(version, d)[n])'
<1> DEFINE c == Script(version, d)[n]
<1>0. /\ version \in Versions /\ version' = version
      /\ schema \in [Collections -> {NoCollection, 21, 30, 40}]
      /\ schema' \in [Collections -> {NoCollection, 21, 30, 40}]
      /\ description \in Nat /\ description' \in Nat
  BY DEF TypeOK, Preserves, Versions, NoDescription
<1>1. Fitting(version, d, n)
  BY <1>0, CommandsFit DEF Steps
<1>2. c' = c
  BY <1>0
<1>3. c.op \in {"create", "collMod"} => schema'[c.on] >= c.to
  <2> HAVE c.op \in {"create", "collMod"}
  <2>1. c.on \in Collections /\ c.on # "linking_sessions" /\ c.to \in Nat /\ schema[c.on] >= c.to
    BY <1>1 DEF Fitting, Done
  <2>2. schema'[c.on] >= schema[c.on] /\ schema[c.on] \in Nat /\ schema'[c.on] \in Nat
    BY <1>0, <2>1 DEF Preserves, NoCollection
  <2> QED
    BY <2>1, <2>2
<1>4. c.op = "patch" \/ (c.op = "create" /\ c.on = "links") => LinksConform(c.to)'
  <2> HAVE c.op = "patch" \/ (c.op = "create" /\ c.on = "links")
  <2>1. c.to \in {21, 30, 40}
    BY <1>0, <1>1 DEF Fitting, Patch, Command, SchemaOf, Versions
  <2>2. LinksConform(c.to)
    BY DEF Done
  <2>3. \A v \in {21, 30, 40} : LinksConform(v) => LinksConform(v)'
    BY ConformsStay
  <2> QED
    BY <1>2, <2>1, <2>2, <2>3
<1>5. c.op \in {"plain", "unique"} /\ c.on = "links" => schema'["links"] # NoCollection
  <2>1. schema'["links"] >= schema["links"]
    BY DEF Preserves, Collections
  <2>2. schema["links"] \in {NoCollection, 21, 30, 40} /\ schema'["links"] \in {NoCollection, 21, 30, 40}
    BY <1>0 DEF Collections
  <2> QED
    BY <2>1, <2>2 DEF Done, NoCollection
<1>6. c.op = "unique" => index' = "unique"
  BY DEF Done, Preserves
<1>7. c.op = "describe" => description' >= c.to
  BY <1>0, <1>1 DEF Done, Preserves, Fitting
<1> QED
  BY <1>2, <1>3, <1>4, <1>5, <1>6, <1>7 DEF Done

(* A database that has the shape of a version keeps it under commands.     *)
LEMMA ShapeStays ==
    ASSUME TypeOK, TypeOK', Preserves, NEW v \in Versions, Shape(v)
    PROVE  Shape(v)'
<1>0. /\ schema \in [Collections -> {NoCollection, 21, 30, 40}]
      /\ schema' \in [Collections -> {NoCollection, 21, 30, 40}]
  BY DEF TypeOK
<1>1. SchemaOf(v) \in {21, 30, 40}
  BY DEF SchemaOf, Versions
<1>2. LinksConform(SchemaOf(v))
  BY DEF Shape, LinksConform, Conforms, SchemaOf, Versions
<1>3. LinksConform(SchemaOf(v))'
  <2>1. \A w \in {21, 30, 40} : LinksConform(w) => LinksConform(w)'
    BY ConformsStay
  <2> QED
    BY <1>1, <1>2, <2>1 DEF SchemaOf
<1>4. v >= 30 => \A c \in SessionCollections : schema'[c] >= SchemaOf(v)
  <2> SUFFICES ASSUME v >= 30, NEW c \in SessionCollections
               PROVE  schema'[c] >= SchemaOf(v)
    OBVIOUS
  <2>1. c \in Collections /\ c # "linking_sessions"
    BY DEF Collections, SessionCollections
  <2>2. schema'[c] >= schema[c] /\ schema[c] >= SchemaOf(v)
    BY <2>1 DEF Preserves, Shape
  <2>3. schema[c] \in Nat /\ schema'[c] \in Nat
    BY <1>0, <2>1 DEF NoCollection
  <2> QED
    BY <1>1, <2>2, <2>3
<1> QED
  BY <1>3, <1>4 DEF Shape, LinksConform, Conforms, SchemaOf, Versions

-----------------------------------------------------------------------------
(* Steps that move one instance and leave the database alone.              *)

(* Scripts are shorter than the bound on the position in them.             *)
LEMMA StepsBounded ==
    ASSUME NEW v \in Versions, NEW d \in Versions \cup {NoDescription}, ~NoPath(v, d)
    PROVE  Len(Script(v, d)) \in 0..8
<1> USE DEF Versions, NoDescription
<1>1. CASE v = 41 /\ d = NoDescription
  <2>1. Script(v, d) = InitializeWith(40) \o <<Describe(41)>>
    BY <1>1 DEF Script, InitializeV040, MigrateV040ToV041
  <2> QED
    BY <2>1, SevenAndOne DEF InitializeWith
<1>2. CASE ~(v = 41 /\ d = NoDescription)
  <2>1. Script(v, d) \in {InitializeV021, InitializeV030, InitializeV040, MigrateV021ToV030,
                         MigrateV030ToV040, MigrateV040ToV041, <<>>}
    BY <1>2 DEF Script
  <2> QED
    BY <2>1 DEF InitializeV021, InitializeV030, InitializeV040, InitializeWith,
                MigrateV021ToV030, MigrateV030ToV040, MigrateV040ToV041
<1> QED
  BY <1>1, <1>2

(* Moving one instance leaves what holds of the others.                    *)
LEMMA InstanceMoves ==
    ASSUME IInv, NEW i \in Instances, NEW k \in Process, Become(i, k),
           UNCHANGED <<version, database>>, crashes' \in 0..MaxCrashes,
           Sound(k),
           Elected(k) => \A j \in Instances : j # i => ~Elected(proc[j])
    PROVE  IInv'
<1>1. \A j \in Instances : proc'[j] = IF j = i THEN k ELSE proc[j]
  BY DEF Become, IInv, TypeOK
<1>2. TypeOK'
  BY DEF IInv, TypeOK, Become, database
<1>3. /\ version' = version /\ schema' = schema /\ index' = index
      /\ description' = description /\ links' = links /\ origin' = origin
  BY DEF database
<1> USE DEF Sound, WorkDone, Done, LinksConform, Conforms, Covers, Undescribed,
            Initializing, Elected, AtWork, Steps
<1>4. \A j \in Instances : Sound(proc[j])'
  <2> SUFFICES ASSUME NEW j \in Instances
               PROVE  Sound(proc[j])'
    OBVIOUS
  <2>1. CASE j = i
    BY <1>1, <1>3, <2>1
  <2>2. CASE j # i
    <3>1. Sound(proc[j]) /\ proc'[j] = proc[j]
      BY <1>1, <2>2 DEF IInv
    <3> QED
      BY <1>3, <3>1
  <2> QED
    BY <2>1, <2>2
<1>5. OneInitializer'
  BY <1>1, <1>3 DEF IInv, OneInitializer
<1>6. Bounded' /\ Keyed'
  BY <1>3 DEF IInv, Bounded, Keyed
<1>7. DescriptionTruthful'
  BY <1>3 DEF IInv, DescriptionTruthful, Shape
<1> QED
  BY <1>2, <1>4, <1>5, <1>6, <1>7 DEF IInv

(* An instance that is not in a script asks nothing of the database.       *)
LEMMA Unemployed ==
    ASSUME NEW k, k.pc \in {"down", "check", "migrate"}
    PROVE  Sound(k) /\ ~Elected(k)
BY DEF Sound, Elected, Initializing, AtWork
(* The steps that only move the instance.                                  *)
LEMMA QuietSteps ==
    ASSUME IInv, NEW i \in Instances,
           Start(i) \/ CheckDatabase(i) \/ MigrateDb(i) \/ PatchFind(i) \/ PatchDone(i)
             \/ Serve(i) \/ Crash(i)
    PROVE  IInv'
<1> DEFINE k == proc[i]
<1>0. /\ k \in Process /\ Sound(k) /\ version \in Versions /\ links \subseteq Link
      /\ description \in Versions \cup {NoDescription} /\ description <= version
      /\ crashes \in 0..MaxCrashes
      /\ Down \in Process /\ [pc |-> "check"] \in Process /\ [pc |-> "migrate"] \in Process
  BY DEF IInv, TypeOK, Process, Down, Bounded
<1>1. CASE Start(i) \/ CheckDatabase(i) \/ Crash(i)
  <2>1. PICK j \in {Down, [pc |-> "check"], [pc |-> "migrate"]} :
            Become(i, j) /\ UNCHANGED <<version, database>>
    BY <1>1 DEF Start, CheckDatabase, Crash
  <2>2. j \in Process /\ Sound(j) /\ ~Elected(j)
    BY <1>0, Unemployed DEF Down
  <2>3. crashes' \in 0..MaxCrashes
    BY <1>0, <1>1, BootAssumption DEF Start, CheckDatabase, Crash
  <2> QED
    BY <2>1, <2>2, <2>3, InstanceMoves
<1>2. CASE MigrateDb(i)
  <2>1. CASE NoPath(version, description)
    <3>1. Down \in Process /\ Sound(Down) /\ ~Elected(Down)
      BY <1>0, Unemployed DEF Down
    <3> QED
      BY <1>0, <1>2, <2>1, <3>1, InstanceMoves DEF MigrateDb
  <2>2. CASE ~NoPath(version, description)
    <3> DEFINE j == Running(description, 1)
    <3>1. Steps(description) \in 0..8
      BY <1>0, <2>2, StepsBounded DEF Steps
    <3>2. j \in Process
      BY <1>0 DEF Process, Running, MaxAt
    <3>3. Sound(j) /\ ~Elected(j)
      BY <1>0, <2>2, <3>1 DEF Running, Sound, WorkDone, Initializing, Undescribed, Elected, AtWork,
                              Versions, NoDescription
    <3> QED
      BY <1>0, <1>2, <2>2, <3>2, <3>3, InstanceMoves DEF MigrateDb
  <2> QED
    BY <2>1, <2>2
<1>3. CASE PatchFind(i)
  <2> DEFINE j == [pc |-> "patching", found |-> k.found, at |-> k.at, batch |-> links]
  <2>1. k.pc = "running" /\ k.found \in Versions \cup {NoDescription} /\ k.at \in 1..MaxAt
        /\ k.at <= Steps(k.found) /\ Script(version, k.found)[k.at] = Patch
    BY <1>0, <1>3 DEF PatchFind, HasTodo, Todo, Process, Steps
  <2>2. j \in Process
    BY <1>0, <2>1 DEF Process
  <2>3. WorkDone(j) /\ AtWork(j)
    BY <1>0, <2>1 DEF Sound, WorkDone, AtWork
  <2>4. Covers(j)
    BY <2>1 DEF Covers, IInv, Keyed, SameButPatched
  <2>5. Initializing(j) = Initializing(k) /\ (Initializing(j) => Undescribed(j))
        /\ Elected(j) = Elected(k)
    BY <1>0, <2>1 DEF Sound, Initializing, Undescribed, AtWork, Elected
  <2>6. Sound(j)
    BY <2>3, <2>4, <2>5 DEF Sound
  <2>7. Elected(j) => \A x \in Instances : x # i => ~Elected(proc[x])
    BY <2>5 DEF IInv, OneInitializer
  <2>8. Become(i, j) /\ UNCHANGED <<version, database>> /\ crashes' \in 0..MaxCrashes
    BY <1>0, <1>3 DEF PatchFind
  <2> HIDE DEF j
  <2> QED
    BY <2>2, <2>6, <2>7, <2>8, InstanceMoves
<1>4. CASE PatchDone(i)
  <2> DEFINE j == Running(k.found, k.at + 1)
  <2>1. k.pc = "patching" /\ k.found \in Versions \cup {NoDescription} /\ k.at \in 1..MaxAt
        /\ k.batch = {} /\ AtWork(k)
    BY <1>0, <1>4 DEF PatchDone, Process, AtWork
  <2>2. WorkDone(k) /\ Covers(k)
    BY <1>0, <2>1 DEF Sound
  <2>3. Steps(k.found) \in 0..8 /\ k.at <= Steps(k.found) /\ Script(version, k.found)[k.at] = Patch
    BY <1>0, <2>1, <2>2, StepsBounded DEF WorkDone, Covers, Steps
  <2>4. Fitting(version, k.found, k.at)
    BY <1>0, <2>1, <2>3, CommandsFit DEF Steps
  <2>5. k.at > 1 /\ Script(version, k.found)[1] = CollMod("links", 40)
    BY <2>3, <2>4 DEF Fitting, Patch, Command
  <2>6. schema["links"] >= 40
    BY <2>1, <2>2, <2>5 DEF WorkDone, Done, CollMod, Command
  <2>7. Done(Script(version, k.found)[k.at])
    BY <2>1, <2>2, <2>3, <2>6 DEF Done, Patch, Command, LinksConform, Covers
  <2>8. j \in Process
    BY <2>1, <2>3 DEF Process, Running, MaxAt
  <2>9. j.pc = "running" /\ j.found = k.found /\ j.at = k.at + 1
    BY DEF Running
  <2>10. WorkDone(j)
    BY <2>1, <2>2, <2>3, <2>7, <2>9 DEF WorkDone
  <2>11. ~Initializing(j) /\ ~Elected(j)
    BY <2>3, <2>4, <2>9 DEF Initializing, Elected, Fitting, Patch, Command, NoDescription
  <2>12. Sound(j)
    BY <2>9, <2>10, <2>11 DEF Sound, AtWork
  <2>13. Become(i, j) /\ UNCHANGED <<version, database>> /\ crashes' \in 0..MaxCrashes
    BY <1>0, <1>4 DEF PatchDone
  <2> HIDE DEF j
  <2> QED
    BY <2>8, <2>11, <2>12, <2>13, InstanceMoves
<1>5. CASE Serve(i)
  <2> DEFINE j == [pc |-> "serving"]
  <2>1. k.pc = "running" /\ k.found \in Versions \cup {NoDescription} /\ k.at \in 1..MaxAt
        /\ AtWork(k) /\ k.at > Steps(k.found)
    BY <1>0, <1>5 DEF Serve, Process, AtWork, Steps
  <2>2. WorkDone(k)
    BY <1>0, <2>1 DEF Sound
  <2>3. Steps(k.found) \in 0..8
    BY <1>0, <2>1, <2>2, StepsBounded DEF WorkDone, Steps
  <2>4. \A m \in 1..Steps(k.found) : Done(Script(version, k.found)[m])
    BY <2>1, <2>2, <2>3 DEF WorkDone
  <2>5. description = version
    BY <2>1, <2>2, <2>4, Completed DEF WorkDone, IInv
  <2>6. j \in Process /\ Sound(j) /\ ~Elected(j)
    BY <2>5 DEF Process, Sound, Elected, Initializing, AtWork
  <2>7. Become(i, j) /\ UNCHANGED <<version, database>> /\ crashes' \in 0..MaxCrashes
    BY <1>0, <1>5 DEF Serve
  <2> HIDE DEF j
  <2> QED
    BY <2>6, <2>7, InstanceMoves
<1> QED
  BY <1>1, <1>2, <1>3, <1>4, <1>5

-----------------------------------------------------------------------------
(* Steps that change the database.                                         *)

(* A step of one instance keeps every other instance sound.                *)
LEMMA SoundStays ==
    ASSUME TypeOK, TypeOK', Preserves, Bounded', NEW j \in Instances, proc'[j] = proc[j],
           Sound(proc[j]),
           proc[j].pc = "patching" => Covers(proc[j])',
           Initializing(proc[j]) => Undescribed(proc[j])'
    PROVE  Sound(proc[j])'
<1> DEFINE k == proc[j]
<1>0. /\ version' = version /\ version \in Versions /\ k \in Process
      /\ description' \in Nat /\ description \in Nat /\ description' >= description
  BY DEF TypeOK, Preserves, Versions, NoDescription
<1>1. AtWork(k) => WorkDone(k)'
  <2> SUFFICES ASSUME AtWork(k) PROVE WorkDone(k)'
    OBVIOUS
  <2>1. WorkDone(k) /\ k.found \in Versions \cup {NoDescription} /\ k.at \in 1..MaxAt
    BY <1>0 DEF Sound, AtWork, Process
  <2>2. Steps(k.found) \in 0..8
    BY <1>0, <2>1, StepsBounded DEF WorkDone, Steps
  <2>3. \A n \in 1..(k.at - 1) : n \in 1..Steps(k.found) /\ Done(Script(version, k.found)[n])
    BY <2>1, <2>2 DEF WorkDone
  <2>4. \A n \in 1..(k.at - 1) : Done(Script(version, k.found)[n])'
    BY <2>1, <2>3, DoneStays
  <2>5. description' >= k.found
    BY <1>0, <2>1 DEF WorkDone, Versions, NoDescription
  <2> QED
    BY <1>0, <2>1, <2>4, <2>5 DEF WorkDone, Steps
<1>2. k.pc = "serving" => description' = version
  BY <1>0 DEF Sound, Bounded, Versions
<1>3. Initializing(proc[j])' => Initializing(k)
  BY <1>0 DEF Initializing, AtWork
<1> QED
  BY <1>0, <1>1, <1>2, <1>3 DEF Sound, AtWork

(* The command and what it leaves.                                         *)
LEMMA CommandRuns ==
    ASSUME IInv, NEW i \in Instances, HasTodo(proc[i]), Todo(proc[i]) # Patch,
           ~Fails(Todo(proc[i])), Apply(Todo(proc[i])),
           Become(i, Running(proc[i].found, proc[i].at + 1)), UNCHANGED <<version, crashes>>
    PROVE  IInv' /\ links' = links
<1> DEFINE k == proc[i]
<1>0. PICK d \in Versions \cup {NoDescription}, n \in 1..MaxAt : k.found = d /\ k.at = n
  BY DEF IInv, TypeOK, Process, HasTodo
<1> DEFINE c == Script(version, d)[n]
           r == Running(d, n + 1)
<1>1. /\ version \in Versions /\ version' = version
      /\ schema \in [Collections -> {NoCollection, 21, 30, 40}]
      /\ description \in Versions \cup {NoDescription} /\ links \subseteq Link
      /\ index \in {"none", "plain", "unique"} /\ origin \in Versions \cup {NoDescription}
      /\ Bounded /\ Keyed /\ DescriptionTruthful /\ OneInitializer
  BY DEF IInv, TypeOK
<1>2. /\ k.pc = "running" /\ AtWork(k) /\ WorkDone(k) /\ Sound(k)
      /\ d \in Versions \cup {NoDescription} /\ n \in 1..MaxAt
      /\ k.found = d /\ k.at = n /\ Become(i, r)
  BY <1>0 DEF IInv, TypeOK, Process, HasTodo, AtWork, Sound
<1>3. Steps(d) \in 0..8 /\ n \in 1..Steps(d) /\ ~NoPath(version, d) /\ description >= d
  BY <1>1, <1>2, StepsBounded DEF WorkDone, Steps, HasTodo
<1>4. Fitting(version, d, n)
  BY <1>1, <1>2, <1>3, CommandsFit DEF Steps
<1>5. c = Todo(k) /\ c.op # "patch"
  BY <1>2, <1>4 DEF Todo, Fitting
<1>6. links' = links
  BY <1>4, <1>5 DEF Apply, Fitting, Drop, Command
<1>7. /\ c.on \in Collections /\ c.to \in Nat
      /\ c.op \in {"create", "collMod", "drop", "plain", "unique", "describe"}
      /\ schema' \in [Collections -> {NoCollection, 21, 30, 40}]
      /\ \A x \in Collections : x # c.on => schema'[x] = schema[x]
      /\ c.op \in {"create", "collMod"} => schema'[c.on] = SchemaOf(version)
      /\ c.op = "drop" => c.on = "linking_sessions" /\ schema'[c.on] = NoCollection
      /\ c.op \in {"plain", "unique", "describe"} =>
            schema'[c.on] = IF schema[c.on] = NoCollection THEN 21 ELSE schema[c.on]
  <2>1. c.op \in {"create", "collMod"} => c.to \in {30, 40} /\ c.to = SchemaOf(version)
    BY <1>1, <1>4 DEF Fitting, SchemaOf, Versions
  <2>2. c.on \in Collections /\ c.to \in Nat
        /\ c.op \in {"create", "collMod", "drop", "plain", "unique", "describe"}
        /\ (c.op = "drop" => c.on = "linking_sessions")
    BY <1>4, <1>5 DEF Fitting
  <2>3. CASE c.op \in {"create", "collMod"}
    BY <1>1, <1>5, <2>1, <2>2, <2>3 DEF Apply, Setting
  <2>4. CASE c.op = "drop"
    BY <1>1, <1>5, <2>2, <2>4 DEF Apply, Setting
  <2>5. CASE c.op \in {"plain", "unique", "describe"}
    BY <1>1, <1>5, <2>2, <2>5 DEF Apply, Setting, Touching
  <2> QED
    BY <2>2, <2>3, <2>4, <2>5
<1>8. SchemaOf(version) \in {21, 30, 40} /\ \A x \in Collections : schema[x] <= SchemaOf(version)
  BY <1>1 DEF Bounded, SchemaOf, Versions
<1>9. /\ c.op = "describe" => description' = c.to /\ c.to \in Versions /\ c.to <= version
                               /\ c.to >= description
      /\ c.op # "describe" => description' = description
  <2>1. CASE c.op = "describe"
    <3>1. c.to = version \/ (version = 41 /\ d = NoDescription /\ n = 7 /\ c.to = 40)
      BY <1>4, <2>1 DEF Fitting
    <3>2. version = 41 /\ d = NoDescription /\ n = 7 => description = NoDescription
      BY <1>2 DEF Sound, Initializing, Undescribed
    <3> QED
      BY <1>1, <1>5, <2>1, <3>1, <3>2 DEF Apply, Bounded, Versions, NoDescription
  <2>2. CASE c.op # "describe"
    BY <1>5, <2>2 DEF Apply
  <2> QED
    BY <2>1, <2>2
<1>10. index' \in {index, "plain", "unique"} /\ (index' = "plain" => index = "plain" \/ version = 21)
       /\ (index' = "unique" => index = "unique" \/ c.op = "unique")
       /\ (c.op \notin {"plain", "unique"} => index' = index)
       /\ (c.op = "unique" => index' = "unique")
  BY <1>4, <1>5 DEF Apply, Fitting
<1>11. r \in Process /\ r.pc = "running" /\ r.found = d /\ r.at = n + 1
  BY <1>2, <1>3 DEF Running, Process, MaxAt
<1>12. TypeOK'
  <2>1. proc' \in [Instances -> Process]
    BY <1>2, <1>11 DEF IInv, TypeOK, Become
  <2>2. description' \in Versions \cup {NoDescription} /\ origin' \in Versions \cup {NoDescription}
    BY <1>1, <1>5, <1>9 DEF Apply
  <2>3. index' \in {"none", "plain", "unique"}
    BY <1>1, <1>10
  <2> QED
    BY <1>1, <1>6, <1>7, <2>1, <2>2, <2>3 DEF IInv, TypeOK
<1>13. \A x \in Collections : x # "linking_sessions" => schema'[x] >= schema[x]
  BY <1>1, <1>7, <1>8 DEF NoCollection
<1>14. Preserves
  <2>1. description' >= description
    BY <1>1, <1>9 DEF Versions, NoDescription
  <2>2. LinksConform(40) => LinksConform(40)'
    BY <1>1, <1>6, <1>7, <1>13 DEF LinksConform, Conforms, Collections, NoCollection
  <2>3. index = "unique" => index' = "unique"
    BY <1>1, <1>10 DEF Bounded
  <2> QED
    BY <1>1, <1>13, <2>1, <2>2, <2>3 DEF Preserves
<1>15. c.op = "describe" => Shape(c.to) /\ (d = NoDescription /\ version >= 30 => index = "unique")
  <2> HAVE c.op = "describe"
  <2>1. \A m \in 1..(n - 1) : Done(Script(version, d)[m])
    BY <1>2 DEF WorkDone
  <2> QED
    BY <1>2, <1>3, <2>1, Described
<1>16. Bounded'
  <2>1. \A x \in Collections : schema'[x] <= SchemaOf(version)
    BY <1>1, <1>7, <1>8 DEF NoCollection
  <2>2. description' <= version
    BY <1>1, <1>9 DEF Bounded
  <2>3. origin' = IF c.op = "describe" /\ origin = NoDescription THEN c.to ELSE origin
    BY <1>5 DEF Apply
  <2>4. origin' <= version /\ (origin' = NoDescription <=> description' = NoDescription)
    BY <1>1, <1>9, <2>3 DEF Bounded, Versions, NoDescription
  <2>5. origin' >= 30 => index' = "unique"
    <3> HAVE origin' >= 30
    <3>1. CASE c.op = "describe" /\ origin = NoDescription
      <4>1. description = NoDescription /\ d = NoDescription
        BY <1>1, <1>2, <1>3, <3>1 DEF Bounded, Versions, NoDescription
      <4>2. version >= 30
        BY <1>1, <1>9, <2>3, <3>1 DEF Versions
      <4> QED
        BY <1>10, <1>15, <3>1, <4>1, <4>2
    <3>2. CASE ~(c.op = "describe" /\ origin = NoDescription)
      BY <1>1, <1>14, <2>3, <3>2 DEF Bounded, Preserves
    <3> QED
      BY <3>1, <3>2
  <2>6. index' = "unique" => version >= 30
    <3>1. c.op = "unique" => version >= 30
      BY <1>1, <1>3, <1>4, <1>2 DEF Fitting
    <3> QED
      BY <1>1, <1>10, <3>1 DEF Bounded
  <2> QED
    BY <1>1, <2>1, <2>2, <2>4, <2>5, <2>6 DEF Bounded
<1>17. Keyed'
  BY <1>1, <1>6, <1>7, <1>13 DEF Keyed, Collections, NoCollection
<1>18. DescriptionTruthful'
  <2>1. \A v \in Versions : Shape(v) => Shape(v)'
    BY <1>12, <1>14, ShapeStays DEF IInv
  <2>2. description' # NoDescription => description' \in Versions /\ Shape(description')
    BY <1>1, <1>9, <1>15 DEF DescriptionTruthful
  <2> QED
    BY <2>1, <2>2 DEF DescriptionTruthful, Shape, Conforms
<1>19. Done(c)'
  <2>1. c' = c
    BY <1>1, <1>2
  <2>2. c.op \in {"create", "collMod"} => schema'[c.on] >= c.to
    BY <1>1, <1>4, <1>7, <1>8 DEF Fitting
  <2>3. c.op = "create" /\ c.on = "links" => LinksConform(c.to)'
    <3> HAVE c.op = "create" /\ c.on = "links"
    <3>1. links' = {}
      BY <1>1, <1>5, <1>6 DEF Fails, Keyed
    <3> QED
      BY <1>1, <2>1, <2>2, <3>1 DEF LinksConform
  <2>4. c.op \in {"plain", "unique"} /\ c.on = "links" => schema'["links"] # NoCollection
    BY <1>1, <1>7 DEF NoCollection
  <2>5. c.op = "describe" => description' >= c.to
    BY <1>7, <1>9
  <2> QED
    BY <1>5, <1>10, <2>1, <2>2, <2>3, <2>4, <2>5 DEF Done
<1>20. WorkDone(r)'
  <2>1. \A m \in 1..(n - 1) : Done(Script(version, d)[m])'
    BY <1>1, <1>2, <1>3, <1>12, <1>14, DoneStays DEF IInv, WorkDone
  <2>2. description' >= d
    BY <1>1, <1>2, <1>3, <1>9 DEF Versions, NoDescription
  <2>3. \A m \in 1..n : Done(Script(version, d)[m])'
    BY <1>2, <1>19, <2>1 DEF MaxAt
  <2> QED
    BY <1>1, <1>2, <1>3, <1>11, <2>2, <2>3 DEF WorkDone, Steps, MaxAt
<1>21. \A j \in Instances : proc'[j] = IF j = i THEN r ELSE proc[j]
  BY <1>2 DEF Become, IInv, TypeOK
<1>22. n = 1 /\ Initializing(k) => /\ description = NoDescription
                                   /\ \A j \in Instances : ~Elected(proc[j])
  <2> HAVE n = 1 /\ Initializing(k)
  <2>1. c = Create("linking_sessions_initial", SchemaOf(version)) /\ version >= 30 /\ d = NoDescription
    BY <1>2, <1>4 DEF Fitting, Initializing
  <2>2. schema["linking_sessions_initial"] = NoCollection
    BY <1>5, <2>1 DEF Fails, Create, Command
  <2>3. description = NoDescription
    <3>1. description # 21
      BY <1>2 DEF Sound, Undescribed
    <3>2. description # NoDescription => schema["linking_sessions_initial"] >= SchemaOf(description)
      BY <1>1, <3>1 DEF DescriptionTruthful, Shape, SessionCollections, Versions
    <3> QED
      BY <1>1, <2>2, <3>2 DEF SchemaOf, Versions, NoCollection, NoDescription
  <2>4. ASSUME NEW j \in Instances, Elected(proc[j])
        PROVE  FALSE
    <3>1. WorkDone(proc[j]) /\ proc[j].found = NoDescription /\ proc[j].at > 1 /\ proc[j].at \in Nat
      BY <2>4 DEF Elected, Initializing, IInv, Sound, TypeOK, Process, AtWork, MaxAt
    <3>2. Done(c)
      BY <2>1, <3>1 DEF WorkDone
    <3> QED
      BY <1>8, <2>1, <2>2, <3>2 DEF Done, Create, Command, NoCollection
  <2> QED
    BY <2>3, <2>4
<1>23. OneInitializer'
  <2>1. \A j \in Instances : j # i => (Elected(proc[j])' <=> Elected(proc[j]))
    BY <1>1, <1>21 DEF Elected, Initializing, AtWork
  <2>2. Elected(proc[i])' => Initializing(k)
    BY <1>1, <1>2, <1>11, <1>21 DEF Elected, Initializing
  <2>3. Initializing(k) => Elected(k) \/ n = 1
    BY <1>2 DEF Elected, MaxAt
  <2> QED
    BY <1>1, <1>22, <2>1, <2>2, <2>3 DEF OneInitializer
<1>24. version >= 30 /\ c.op = "describe" => description' # 21
  BY <1>1, <1>4, <1>9 DEF Fitting
<1>25. Initializing(r)' => Undescribed(r)'
  <2> SUFFICES ASSUME Initializing(r)' PROVE Undescribed(r)'
    OBVIOUS
  <2>1. Initializing(k) /\ version >= 30 /\ d = NoDescription /\ Undescribed(k)
    BY <1>1, <1>2, <1>11 DEF Initializing, Sound
  <2>2. n \in 1..6 => description' = NoDescription
    <3> HAVE n \in 1..6
    <3>1. description = NoDescription
      BY <1>2, <1>22, <2>1 DEF Undescribed
    <3> QED
      BY <1>4, <1>9, <2>1, <3>1 DEF Fitting
  <2> QED
    BY <1>2, <1>9, <1>11, <1>24, <2>1, <2>2 DEF Undescribed, MaxAt
<1>26. ASSUME NEW j \in Instances, j # i
       PROVE  Sound(proc[j])'
  <2>1. Sound(proc[j]) /\ proc'[j] = proc[j] /\ proc[j] \in Process
    BY <1>21, <1>26 DEF IInv, TypeOK
  <2>2. proc[j].pc = "patching" => Covers(proc[j])'
    BY <1>1, <1>6, <2>1 DEF Sound, Covers, Steps, Conforms, SameButPatched
  <2>3. Initializing(proc[j]) => Undescribed(proc[j])'
    <3> SUFFICES ASSUME Initializing(proc[j]) PROVE Undescribed(proc[j])'
      OBVIOUS
    <3>1. Undescribed(proc[j]) /\ version >= 30
      BY <2>1 DEF Sound, Initializing
    <3>2. CASE c.op = "describe"
      <4>1. proc[j].at \notin 2..7
        <5>1. SUFFICES ASSUME proc[j].at \in 2..7 PROVE FALSE
          OBVIOUS
        <5>2. description = NoDescription /\ Elected(proc[j])
          BY <3>1, <5>1 DEF Undescribed, Elected
        <5>3. d = NoDescription
          BY <1>2, <1>3, <5>2 DEF Versions, NoDescription
        <5>4. Elected(k)
          BY <1>2, <1>4, <3>1, <3>2, <5>3 DEF Fitting, Elected, Initializing
        <5> QED
          BY <1>1, <1>26, <5>2, <5>4 DEF OneInitializer
      <4> QED
        BY <1>24, <2>1, <3>1, <3>2, <4>1 DEF Undescribed
    <3>3. CASE c.op # "describe"
      BY <1>9, <2>1, <3>1, <3>3 DEF Undescribed
    <3> QED
      BY <3>2, <3>3
  <2> QED
    BY <1>12, <1>14, <1>16, <2>1, <2>2, <2>3, SoundStays DEF IInv
<1>27. Sound(proc[i])'
  BY <1>11, <1>20, <1>21, <1>25 DEF Sound, AtWork
<1> QED
  BY <1>6, <1>12, <1>16, <1>17, <1>18, <1>23, <1>26, <1>27 DEF IInv

(* Steps that change nothing in the database but the links.                *)
LEMMA LinksChange ==
    ASSUME IInv, TypeOK', Keyed', UNCHANGED <<version, schema, index, description, origin>>,
           LinksConform(40) => LinksConform(40)'
    PROVE  Preserves /\ Bounded' /\ DescriptionTruthful'
<1>1. Preserves
  <2>1. schema \in [Collections -> {NoCollection, 21, 30, 40}] /\ description \in Nat
    BY DEF IInv, TypeOK, Versions, NoDescription
  <2> QED
    BY <2>1 DEF Preserves, NoCollection
<1>2. Bounded'
  BY DEF IInv, Bounded
<1>3. \A v \in Versions : Shape(v) => Shape(v)'
  BY <1>1, ShapeStays DEF IInv
<1>4. description # NoDescription => description \in Versions /\ Shape(description)
  BY DEF IInv, TypeOK, DescriptionTruthful
<1>5. DescriptionTruthful'
  BY <1>3, <1>4 DEF DescriptionTruthful, Shape, Conforms
<1> QED
  BY <1>1, <1>2, <1>5

(* A patching instance has set the validator that asks for what it adds.   *)
LEMMA PatchingValidated ==
    ASSUME IInv, NEW i \in Instances, proc[i].pc = "patching"
    PROVE  schema["links"] >= 40
<1> DEFINE k == proc[i]
<1>1. /\ version \in Versions /\ k.found \in Versions \cup {NoDescription}
      /\ k.at \in 1..MaxAt /\ WorkDone(k) /\ Covers(k)
  BY DEF IInv, TypeOK, Process, Sound, AtWork
<1>2. Steps(k.found) \in 0..8
  BY <1>1, StepsBounded DEF WorkDone, Steps
<1>3. Fitting(version, k.found, k.at)
  BY <1>1, <1>2, CommandsFit DEF Covers, Steps
<1>4. k.at > 1 /\ Script(version, k.found)[1] = CollMod("links", 40)
  BY <1>1, <1>3 DEF Fitting, Covers, Patch, Command
<1> QED
  BY <1>1, <1>4 DEF WorkDone, Done, CollMod, Command

(* A link is removed while instances start.                                *)
LEMMA DeleteLinkStep ==
    ASSUME IInv, NEW i \in Instances, DeleteLink(i)
    PROVE  IInv'
<1>1. /\ UNCHANGED <<version, proc, schema, index, description, origin, crashes>>
      /\ links' \subseteq links
  BY DEF DeleteLink
<1>2. TypeOK' /\ Keyed' /\ (LinksConform(40) => LinksConform(40)')
  BY <1>1 DEF IInv, TypeOK, Keyed, LinksConform
<1>3. Preserves /\ Bounded' /\ DescriptionTruthful'
  BY <1>1, <1>2, LinksChange
<1>4. ASSUME NEW j \in Instances
      PROVE  Sound(proc[j])'
  <2>1. Sound(proc[j]) /\ proc'[j] = proc[j]
    BY <1>1 DEF IInv
  <2>2. proc[j].pc = "patching" => Covers(proc[j])'
    BY <1>1, <2>1 DEF Sound, Covers, Steps, Conforms, SameButPatched
  <2>3. Initializing(proc[j]) => Undescribed(proc[j])'
    BY <1>1, <2>1 DEF Sound, Undescribed
  <2> QED
    BY <1>2, <1>3, <2>1, <2>2, <2>3, SoundStays DEF IInv
<1>5. OneInitializer'
  BY <1>1 DEF IInv, OneInitializer, Elected, Initializing, AtWork
<1> QED
  BY <1>2, <1>3, <1>4, <1>5 DEF IInv

(* A link is created while instances start.                                *)
LEMMA CreateLinkStep ==
    ASSUME IInv, NEW i \in Instances, CreateLink(i)
    PROVE  IInv'
<1>1. UNCHANGED <<version, proc, schema, index, description, origin, crashes>>
  BY DEF CreateLink
<1>2. PICK l \in Link : /\ FreshId(l._id) /\ Conforms(l, schema["links"])
                        /\ links' = links \cup {l}
  <2>1. PICK id \in LinkIds, f \in LinkFields(version) :
            /\ FreshId(id) /\ Conforms([_id |-> id, fields |-> f], schema["links"])
            /\ links' = links \cup {[_id |-> id, fields |-> f]}
    BY DEF CreateLink
  <2>2. [_id |-> id, fields |-> f] \in Link
    BY <2>1 DEF LinkFields, Link, DatedFields
  <2> QED
    BY <2>1, <2>2
<1>3. schema["links"] # NoCollection
  <2>1. Shape(version) /\ version \in Versions
    BY DEF IInv, Sound, CreateLink, DescriptionTruthful, TypeOK, Versions, NoDescription
  <2> QED
    BY <2>1 DEF Shape, SchemaOf, Versions, NoCollection
<1>4. TypeOK' /\ Keyed'
  BY <1>1, <1>2, <1>3 DEF IInv, TypeOK, Keyed, FreshId
<1>5. schema["links"] >= 40 => Conforms(l, 40)
  BY <1>2 DEF Conforms
<1>6. LinksConform(40) => LinksConform(40)'
  BY <1>1, <1>2, <1>5 DEF LinksConform, Conforms
<1>7. Preserves /\ Bounded' /\ DescriptionTruthful'
  BY <1>1, <1>4, <1>6, LinksChange
<1>8. ASSUME NEW j \in Instances
      PROVE  Sound(proc[j])'
  <2>1. Sound(proc[j]) /\ proc'[j] = proc[j]
    BY <1>1 DEF IInv
  <2>2. proc[j].pc = "patching" => Covers(proc[j])'
    <3> HAVE proc[j].pc = "patching"
    <3>1. Conforms(l, 40) /\ Covers(proc[j])
      BY <1>5, <2>1, PatchingValidated DEF Sound
    <3>2. \A b \in proc[j].batch : b._id # l._id
      BY <1>2 DEF FreshId
    <3> QED
      BY <1>1, <1>2, <3>1, <3>2 DEF Covers, Steps, Conforms, SameButPatched
  <2>3. Initializing(proc[j]) => Undescribed(proc[j])'
    BY <1>1, <2>1 DEF Sound, Undescribed
  <2> QED
    BY <1>4, <1>7, <2>1, <2>2, <2>3, SoundStays DEF IInv
<1>9. OneInitializer'
  BY <1>1 DEF IInv, OneInitializer, Elected, Initializing, AtWork
<1> QED
  BY <1>4, <1>7, <1>8, <1>9 DEF IInv

(* A cursor still covers the links when one of them is patched, by its own *)
(* instance or another.                                                    *)
LEMMA PatchStep ==
    ASSUME IInv, NEW i \in Instances, PatchLink(i)
    PROVE  /\ IInv'
           /\ \A m \in links : \E x \in links' : x._id = m._id /\ m.fields \subseteq x.fields
<1>1. PICK k \in Process : k = proc[i]
  BY DEF IInv, TypeOK
<1>2. /\ k.pc = "patching" /\ Sound(k) /\ WorkDone(k) /\ Covers(k) /\ AtWork(k)
      /\ k.batch \subseteq Link /\ version \in Versions /\ links \subseteq Link
      /\ k.found \in Versions \cup {NoDescription} /\ k.at \in 1..MaxAt
  BY <1>1 DEF PatchLink, IInv, TypeOK, Process, Sound, AtWork
<1>3. PICK l \in k.batch :
        \/ /\ Conforms(Patched(l), schema["links"])
           /\ links' = {IF m._id = l._id THEN Patched(l) ELSE m : m \in links}
           /\ Become(i, [k EXCEPT !.batch = @ \ {l}])
        \/ Become(i, Down) /\ UNCHANGED links
        \/ /\ \A m \in links : m._id # l._id
           /\ Become(i, [k EXCEPT !.batch = @ \ {l}])
           /\ UNCHANGED links
  BY <1>1 DEF PatchLink
<1>4. UNCHANGED <<version, schema, index, description, origin, crashes>> /\ crashes \in 0..MaxCrashes
  BY DEF PatchLink, IInv, TypeOK
<1> DEFINE r == [k EXCEPT !.batch = @ \ {l}]
<1>5. /\ r \in Process /\ r.pc = "patching" /\ r.found = k.found /\ r.at = k.at
      /\ r.batch = k.batch \ {l}
  BY <1>2 DEF Process
<1>6. WorkDone(r) /\ AtWork(r)
  BY <1>2, <1>5 DEF WorkDone, AtWork
<1>7. /\ Elected(r) <=> Elected(k)
      /\ Initializing(r) <=> Initializing(k)
      /\ Undescribed(r) <=> Undescribed(k)
  BY <1>2, <1>5, <1>6 DEF Elected, Initializing, Undescribed
<1>8. CASE Become(i, Down) /\ UNCHANGED links
  <2>1. Down \in Process /\ Sound(Down) /\ ~Elected(Down) /\ proc'[i] = Down
    BY <1>8, Unemployed DEF Down, Process, Become, IInv, TypeOK
  <2> QED
    BY <1>4, <1>8, <2>1, InstanceMoves DEF database
<1>9. CASE /\ \A m \in links : m._id # l._id
           /\ Become(i, r)
           /\ UNCHANGED links
  <2>1. Covers(r)
    BY <1>2, <1>5, <1>9 DEF Covers
  <2>2. Sound(r)
    BY <1>2, <1>5, <1>6, <1>7, <2>1 DEF Sound
  <2>3. Elected(r) => \A j \in Instances : j # i => ~Elected(proc[j])
    BY <1>1, <1>7 DEF IInv, OneInitializer
  <2>4. IInv'
    <3> HIDE DEF r
    <3> QED
      BY <1>4, <1>5, <1>9, <2>2, <2>3, InstanceMoves DEF database
  <2> QED
    BY <1>9, <2>4
<1>10. CASE /\ Conforms(Patched(l), schema["links"])
            /\ links' = {IF m._id = l._id THEN Patched(l) ELSE m : m \in links}
            /\ Become(i, r)
  <2>0. /\ l \in Link /\ Patched(l) \in Link /\ Patched(l)._id = l._id
        /\ Patched(l).fields = l.fields \cup {"retires_at"}
    BY <1>2 DEF Patched, Link, DatedFields
  <2>1. Conforms(Patched(l), 40)
    BY <1>1, <1>2, <1>10, PatchingValidated DEF Conforms
  <2>2. \A m \in links : m._id = l._id => SameButPatched(m, l)
    BY <1>2 DEF Covers
  <2>3. TypeOK'
    <3>1. links' \subseteq Link
      BY <1>2, <1>10, <2>0
    <3>2. proc' \in [Instances -> Process]
      BY <1>5, <1>10 DEF IInv, TypeOK, Become
    <3> QED
      BY <1>4, <3>1, <3>2 DEF IInv, TypeOK
  <2>4. Keyed'
    BY <1>4, <1>10, <2>0 DEF IInv, Keyed
  <2>5. LinksConform(40) => LinksConform(40)'
    BY <1>4, <1>10, <2>1 DEF LinksConform
  <2>6. Preserves /\ Bounded' /\ DescriptionTruthful'
    BY <1>4, <2>3, <2>4, <2>5, LinksChange
  <2>7. \A j \in Instances : proc'[j] = IF j = i THEN r ELSE proc[j]
    BY <1>10 DEF Become, IInv, TypeOK
  <2>8. ASSUME NEW p \in Process, p.pc = "patching", Covers(p)
        PROVE  /\ p.at <= Steps(p.found) /\ Script(version, p.found)[p.at] = Patch
               /\ \A m \in links' : ~Conforms(m, 40) => \E b \in p.batch : b._id = m._id /\ b._id # l._id
               /\ \A m \in links', b \in p.batch : b._id = m._id => SameButPatched(m, b)
    <3>1. \A m \in links' : \/ m \in links /\ m._id # l._id
                            \/ m = Patched(l) /\ \E x \in links : x._id = l._id
      BY <1>10
    <3>2. \A m \in links' : ~Conforms(m, 40) => m \in links /\ m._id # l._id
      BY <2>1, <3>1
    <3>3. ASSUME NEW m \in links', NEW b \in p.batch, b._id = m._id
          PROVE  SameButPatched(m, b)
      <4>1. CASE m \in links
        BY <2>8, <3>3, <4>1 DEF Covers
      <4>2. CASE m = Patched(l) /\ \E x \in links : x._id = l._id
        <5>1. PICK x \in links : x._id = l._id
          BY <4>2
        <5>2. SameButPatched(x, b) /\ SameButPatched(x, l)
          BY <2>0, <2>2, <2>8, <3>3, <4>2, <5>1 DEF Covers
        <5> QED
          BY <2>0, <4>2, <5>2 DEF SameButPatched
      <4> QED
        BY <3>1, <4>1, <4>2
    <3> QED
      BY <2>8, <3>2, <3>3 DEF Covers
  <2>9. ASSUME NEW j \in Instances, j # i
        PROVE  Sound(proc[j])'
    <3>1. Sound(proc[j]) /\ proc'[j] = proc[j] /\ proc[j] \in Process
      BY <2>7, <2>9 DEF IInv, TypeOK
    <3>2. proc[j].pc = "patching" => Covers(proc[j])'
      <4> HAVE proc[j].pc = "patching"
      <4>1. Covers(proc[j])
        BY <3>1 DEF Sound
      <4> QED
        BY <1>4, <2>8, <3>1, <4>1 DEF Covers, Steps, Conforms, SameButPatched
    <3>3. Initializing(proc[j]) => Undescribed(proc[j])'
      BY <1>4, <3>1 DEF Sound, Undescribed
    <3> QED
      BY <2>3, <2>6, <3>1, <3>2, <3>3, SoundStays DEF IInv
  <2>10. Sound(proc[i])'
    <3>1. WorkDone(r)'
      <4>1. Steps(k.found) \in 0..8
        BY <1>2, StepsBounded DEF WorkDone, Steps
      <4>2. \A n \in 1..(k.at - 1) : n \in 1..Steps(k.found) /\ Done(Script(version, k.found)[n])
        BY <1>2, <4>1 DEF WorkDone
      <4>3. \A n \in 1..(k.at - 1) : Done(Script(version, k.found)[n])'
        BY <1>2, <2>3, <2>6, <4>2, DoneStays DEF IInv
      <4> QED
        BY <1>4, <1>5, <1>6, <4>3 DEF WorkDone, Steps
    <3>2. Covers(r)'
      <4>1. \A m \in links', b \in k.batch : b._id = m._id => SameButPatched(m, b)
        BY <1>2, <2>8
      <4>2. \A m \in links' : ~Conforms(m, 40) => \E b \in k.batch : b._id = m._id /\ b # l
        BY <1>2, <2>8
      <4>3. k.at <= Steps(k.found) /\ Script(version, k.found)[k.at] = Patch
        BY <1>2, <2>8
      <4> QED
        BY <1>4, <1>5, <4>1, <4>2, <4>3 DEF Covers, Steps, Conforms, SameButPatched
    <3>3. Initializing(r)' => Undescribed(r)'
      BY <1>2, <1>4, <1>7 DEF Sound, Initializing, Undescribed, AtWork
    <3> QED
      BY <1>5, <2>7, <3>1, <3>2, <3>3 DEF Sound
  <2>11. OneInitializer'
    <3>1. \A j \in Instances : Elected(proc[j])' <=> Elected(proc[j])
      BY <1>1, <1>4, <1>5, <1>7, <2>7 DEF Elected, Initializing, AtWork
    <3> QED
      BY <3>1 DEF IInv, OneInitializer
  <2>12. ASSUME NEW m \in links
         PROVE  \E x \in links' : x._id = m._id /\ m.fields \subseteq x.fields
    BY <1>10, <2>0, <2>2 DEF SameButPatched
  <2> QED
    BY <2>3, <2>4, <2>6, <2>9, <2>10, <2>11, <2>12 DEF IInv
<1> QED
  BY <1>3, <1>8, <1>9, <1>10

(* A new release stops every instance and keeps the database.              *)
LEMMA DeployStep ==
    ASSUME IInv, Deploy
    PROVE  IInv'
<1>1. /\ version \in Versions /\ version' \in Versions /\ version' > version
      /\ schema' = schema /\ index' = index /\ description' = description /\ links' = links
      /\ origin' = origin /\ crashes' = crashes /\ proc' = [i \in Instances |-> Down]
  BY DEF IInv, TypeOK, Deploy, database
<1>2. TypeOK'
  BY <1>1 DEF IInv, TypeOK, Process, Down
<1>3. SchemaOf(version) <= SchemaOf(version')
  BY <1>1 DEF SchemaOf, Versions
<1>4. Bounded'
  <2>1. \A c \in Collections : schema[c] \in Nat
    BY DEF IInv, TypeOK, NoCollection
  <2>2. \A c \in Collections : schema'[c] <= SchemaOf(version')
    BY <1>1, <1>3, <2>1 DEF IInv, Bounded, SchemaOf, Versions
  <2> QED
    BY <1>1, <2>2 DEF IInv, TypeOK, Bounded, Versions, NoDescription
<1>5. Keyed' /\ DescriptionTruthful'
  BY <1>1 DEF IInv, Keyed, DescriptionTruthful, Shape, Conforms
<1>6. OneInitializer' /\ \A i \in Instances : Sound(proc[i])'
  BY <1>1 DEF OneInitializer, Elected, Initializing, Sound, AtWork, Down
<1> QED
  BY <1>2, <1>4, <1>5, <1>6 DEF IInv

(* One command of a script, or the error that ends the process.            *)
LEMMA RunCommandStep ==
    ASSUME IInv, NEW i \in Instances, RunCommand(i)
    PROVE  IInv' /\ links' = links
<1>1. CASE Fails(Todo(proc[i]))
  <2>1. Down \in Process /\ Sound(Down) /\ ~Elected(Down)
    BY Unemployed DEF Down, Process
  <2>2. Become(i, Down) /\ UNCHANGED <<version, database>> /\ crashes' \in 0..MaxCrashes
    BY <1>1 DEF RunCommand, IInv, TypeOK
  <2> QED
    BY <2>1, <2>2, InstanceMoves DEF database
<1>2. CASE ~Fails(Todo(proc[i]))
  BY <1>2, CommandRuns DEF RunCommand
<1> QED
  BY <1>1, <1>2

(* The invariant holds of an empty database.                               *)
LEMMA InitSound == Init => IInv
<1> SUFFICES ASSUME Init PROVE IInv
  OBVIOUS
<1>1. TypeOK
  BY BootAssumption DEF Init, TypeOK, Process, Down
<1>2. Bounded /\ Keyed /\ DescriptionTruthful
  BY DEF Init, Bounded, Keyed, DescriptionTruthful, SchemaOf, Versions, NoCollection, NoDescription,
         Collections
<1>3. OneInitializer /\ \A i \in Instances : Sound(proc[i])
  BY DEF Init, OneInitializer, Elected, Initializing, Sound, AtWork, Down
<1> QED
  BY <1>1, <1>2, <1>3 DEF IInv

(* Every step keeps the invariant.                                         *)
LEMMA NextSound == IInv /\ [Next]_vars => IInv'
<1> SUFFICES ASSUME IInv, [Next]_vars PROVE IInv'
  OBVIOUS
<1>1. CASE Deploy
  BY <1>1, DeployStep
<1>2. ASSUME NEW i \in Instances, Boot(i) \/ CreateLink(i) \/ DeleteLink(i) \/ Crash(i)
      PROVE  IInv'
  BY <1>2, QuietSteps, RunCommandStep, PatchStep, CreateLinkStep, DeleteLinkStep DEF Boot
<1>3. CASE UNCHANGED vars
  BY <1>3 DEF vars, database, IInv, TypeOK, Bounded, Keyed, DescriptionTruthful, OneInitializer,
              Sound, WorkDone, Done, LinksConform, Conforms, Covers, Undescribed, Initializing,
              Elected, AtWork, Steps, Shape
<1> QED
  BY <1>1, <1>2, <1>3 DEF Next

(* The invariant holds of every reachable state.                           *)
THEOREM Inductive == Spec => []IInv
BY InitSound, NextSound, PTL DEF Spec

(* The collections, the description, the links and the position of every   *)
(* instance in its script keep their types.                                *)
THEOREM BootTypes == Spec => []TypeOK
BY Inductive, PTL DEF IInv

(* The description document never claims a version whose migration has not *)
(* been carried out, whenever and however often the scripts stop.          *)
THEOREM Truthful == Spec => []DescriptionTruthful
BY Inductive, PTL DEF IInv

(* An instance serves only from a database of its own version, with the    *)
(* schemas of that version.                                                *)
THEOREM OwnVersion == Spec => []ServesOwnVersion
<1>1. IInv => ServesOwnVersion
  <2> SUFFICES ASSUME IInv, NEW i \in Instances, proc[i].pc = "serving"
               PROVE  /\ description = version
                      /\ schema["links"] = SchemaOf(version)
                      /\ version >= 30 =>
                            \A c \in SessionCollections : schema[c] = SchemaOf(version)
    BY DEF ServesOwnVersion
  <2>1. description = version /\ version \in Versions /\ Shape(version)
    BY DEF IInv, Sound, TypeOK, DescriptionTruthful, Versions, NoDescription
  <2>2. \A c \in Collections : schema[c] \in Nat /\ schema[c] <= SchemaOf(version)
    BY DEF IInv, TypeOK, Bounded, NoCollection
  <2>3. SchemaOf(version) \in Nat
    BY <2>1 DEF SchemaOf, Versions
  <2> QED
    BY <2>1, <2>2, <2>3 DEF Shape, Collections, SessionCollections
<1> QED
  BY <1>1, Inductive, PTL

(* A database that was initialized at 0.3.0 or later has the unique index  *)
(* whenever it is served from.                                             *)
THEOREM UniqueIndex == Spec => []UniqueWhenServing
<1>1. IInv => UniqueWhenServing
  BY DEF IInv, Bounded, UniqueWhenServing
<1> QED
  BY <1>1, Inductive, PTL

(* No step of a starting instance loses a link or a field of one.          *)
THEOREM MigrationKeepsLinks == Spec => LinksKept
<1> DEFINE Kept == \A l \in links : \E m \in links' : m._id = l._id /\ l.fields \subseteq m.fields
<1>1. IInv /\ [Next]_vars => [\A i \in Instances : proc'[i] # proc[i] => Kept]_vars
  <2> SUFFICES ASSUME IInv, Next, NEW j \in Instances, proc'[j] # proc[j]
               PROVE  Kept
    OBVIOUS
  <2>1. links' = links => Kept
    OBVIOUS
  <2>2. CASE Deploy
    BY <2>1, <2>2 DEF Deploy, database
  <2>3. ASSUME NEW i \in Instances, Boot(i) \/ CreateLink(i) \/ DeleteLink(i) \/ Crash(i)
        PROVE  Kept
    <3>1. CASE Start(i) \/ CheckDatabase(i) \/ MigrateDb(i) \/ PatchFind(i) \/ PatchDone(i)
                 \/ Serve(i) \/ Crash(i)
      BY <2>1, <3>1 DEF Start, CheckDatabase, MigrateDb, PatchFind, PatchDone, Serve, Crash, database
    <3>2. CASE RunCommand(i)
      BY <2>1, <3>2, RunCommandStep
    <3>3. CASE PatchLink(i)
      BY <3>3, PatchStep
    <3>4. CASE CreateLink(i) \/ DeleteLink(i)
      BY <3>4 DEF CreateLink, DeleteLink
    <3> QED
      BY <2>3, <3>1, <3>2, <3>3, <3>4 DEF Boot
  <2> QED
    BY <2>2, <2>3 DEF Next
<1> QED
  BY <1>1, Inductive, PTL DEF Spec, LinksKept
=============================================================================
