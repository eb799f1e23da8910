-------------------------------- MODULE Boot --------------------------------
(***************************************************************************)
(* service_initialization.py: what a starting service does to the database *)
(* before it serves.  A migration is a script of database commands; the    *)
(* process may stop between any two, and the next start decides what to do *)
(* from the description document alone.  Nothing is locked, so several     *)
(* instances of one deployment may run their scripts at the same time.     *)
(*                                                                         *)
(* A version is a number: 21 is "0.2.1", 30 "0.3.0", 40 "0.4.0", 41        *)
(* "0.4.1".  schema[c] is the version whose schema collection c is         *)
(* validated against: 21 for a collection without a validator, which is    *)
(* how 0.2.1 makes them, and NoCollection.                                 *)
(***************************************************************************)
EXTENDS Naturals, Sequences, FiniteSets

CONSTANTS
    Instances,   \* the processes of a deployment
    LinkIds,     \* bound: the documents of collection links
    MaxCrashes   \* bound: processes that die and commands that raise

ASSUME BootAssumption == MaxCrashes \in Nat

VARIABLES
    version,      \* SERVICE_DESCRIPTION.toml of the deployed service
    proc,         \* the process of each instance
    schema,       \* the collections and their validators
    index,        \* the index on links.username
    description,  \* the version in the description document
    links,        \* collection links
    origin,       \* history: the version that initialized the database
    crashes       \* how much of the bound is spent

database == <<schema, index, description, links, origin>>
vars == <<version, proc, database, crashes>>

Versions == {21, 30, 40, 41}
NoCollection == 0
NoDescription == 0

SessionCollections ==
    {"linking_sessions_initial", "linking_sessions_started", "linking_sessions_completed"}
Collections == SessionCollections \cup {"linking_sessions", "links", "description"}

(* A link and the fields of it that not every version wrote or required.   *)
DatedFields == {"expires_at", "retires_at"}
Link == [_id : LinkIds, fields : SUBSET DatedFields]

(* 0.4.1 has no schemas of its own.                                        *)
SchemaOf(v) == IF v = 41 THEN 40 ELSE v

Conforms(l, validator) == validator >= 40 => DatedFields \subseteq l.fields

-----------------------------------------------------------------------------
(* The commands.                                                           *)

Command(op, on, to) == [op |-> op, on |-> on, to |-> to]

Create(c, v)   == Command("create", c, v)
CollMod(c, v)  == Command("collMod", c, v)
Drop(c)        == Command("drop", c, 0)
Index(c, kind) == Command(kind, c, 0)
Patch          == Command("patch", "links", 40)
Describe(v)    == Command("describe", "description", v)

(* What the command would find in its way; pymongo then raises.            *)
Fails(c) ==
    \/ c.op = "create" /\ schema[c.on] # NoCollection
    \/ c.op = "collMod" /\ schema[c.on] = NoCollection

Setting(c, v) == schema' = [schema EXCEPT ![c] = v]

(* A collection that is used before it exists is created without a         *)
(* validator.                                                              *)
Touching(c) == Setting(c, IF schema[c] = NoCollection THEN 21 ELSE schema[c])

(* description is inserted by the initializations and updated by the       *)
(* migrations.  A second document, of two initialize_v021 at a time, says  *)
(* the same as the first and is never read.                                *)
Apply(c) ==
    /\ CASE c.op \in {"create", "collMod"} -> Setting(c.on, c.to)
         [] c.op = "drop"                  -> Setting(c.on, NoCollection)
         [] OTHER                          -> Touching(c.on)
    /\ index' = IF c.op \in {"plain", "unique"} /\ c.on = "links" THEN c.op ELSE index
    /\ description' = IF c.op = "describe" THEN c.to ELSE description
    /\ origin' = IF c.op = "describe" /\ origin = NoDescription THEN c.to ELSE origin
    /\ links' = IF c = Drop("links") THEN {} ELSE links

-----------------------------------------------------------------------------
(* The scripts.                                                            *)

InitializeV021 ==
    <<Index("linking_sessions", "plain"), Index("links", "plain"), Describe(21)>>

InitializeWith(v) ==
    <<Create("linking_sessions_initial", v), Create("linking_sessions_started", v),
      Create("linking_sessions_completed", v), Create("links", v),
      Index("links", "unique"), Create("description", v), Describe(v)>>

InitializeV030 == InitializeWith(30)

InitializeUnindexed ==   \* a slip: the description is written before the index is made
    <<Create("linking_sessions_initial", 40), Create("linking_sessions_started", 40),
      Create("linking_sessions_completed", 40), Create("links", 40),
      Create("description", 40), Describe(40), Index("links", "unique")>>

InitializeV040 == InitializeWith(40)

MigrateLinksAway ==   \* a slip: the wrong collection is dropped, and made anew
    <<CollMod("links", 30), Drop("links"), Create("links", 30),
      Create("linking_sessions_initial", 30), Create("linking_sessions_started", 30),
      Create("linking_sessions_completed", 30), Describe(30)>>

MigrateV021ToV030 ==
    <<CollMod("links", 30), Drop("linking_sessions"),
      Create("linking_sessions_initial", 30), Create("linking_sessions_started", 30),
      Create("linking_sessions_completed", 30), Describe(30)>>

MigrateDescribedFirst ==   \* a slip: the new version is announced before the links are patched
    <<CollMod("links", 40), Describe(40), Patch, CollMod("linking_sessions_initial", 40),
      CollMod("linking_sessions_started", 40), CollMod("linking_sessions_completed", 40)>>

MigrateStaged ==   \* a slip: goes through a collection of its own, so cannot be repeated
    <<CollMod("links", 40), Patch, Create("linking_sessions", 40),
      CollMod("linking_sessions_initial", 40), CollMod("linking_sessions_started", 40),
      CollMod("linking_sessions_completed", 40), Drop("linking_sessions"), Describe(40)>>

MigrateV030ToV040 ==
    <<CollMod("links", 40), Patch, CollMod("linking_sessions_initial", 40),
      CollMod("linking_sessions_started", 40), CollMod("linking_sessions_completed", 40),
      Describe(40)>>

MigrateV040ToV041 == <<Describe(41)>>


ScriptOfRelease(v, d) == InitializeWith(v)   \* a slip: every release has schemas

(* What migrate_db runs for service version v where it found description   *)
(* d.  "Initialize from the major release, then apply each migration": the *)
(* first start of 0.4.1 runs two scripts.                                  *)
Script(v, d) ==
    CASE v = 21 /\ d = NoDescription -> InitializeV021
      [] v = 30 /\ d = NoDescription -> InitializeV030
      [] v = 40 /\ d = NoDescription -> InitializeV040
      [] v = 41 /\ d = NoDescription -> InitializeV040 \o MigrateV040ToV041
      [] v = 30 /\ d = 21 -> MigrateV021ToV030
      [] v = 40 /\ d = 30 -> MigrateV030ToV040
      [] v = 41 /\ d = 40 -> MigrateV040ToV041
      [] OTHER -> <<>>   \* migration-not-required, where v = d

NoPathUnchecked(v, d) == FALSE   \* a slip: a description of another version is accepted

(* Migrations lead from one version to the next only.  Version 0.2.1       *)
(* refuses whatever description it finds, its own included.                *)
NoPath(v, d) ==
    /\ d # NoDescription
    /\ d # v \/ v = 21
    /\ <<d, v>> \notin {<<21, 30>>, <<30, 40>>, <<40, 41>>}

-----------------------------------------------------------------------------
(* A starting instance.                                                    *)

Down == [pc |-> "down"]
Running(d, n) == [pc |-> "running", found |-> d, at |-> n]

Become(i, k) == proc' = [proc EXCEPT ![i] = k]

(* main() begins: the connection check.  One that fails is a stutter.      *)
Start(i) ==
    /\ proc[i] = Down
    /\ Become(i, [pc |-> "check"])
    /\ UNCHANGED <<version, database, crashes>>

(* check_db_database: a description collection without its document is an  *)
(* error.                                                                  *)
CheckDatabase(i) ==
    /\ proc[i].pc = "check"
    /\ Become(i, IF schema["description"] # NoCollection /\ description = NoDescription
                 THEN Down ELSE [pc |-> "migrate"])
    /\ UNCHANGED <<version, database, crashes>>

(* migrate_db reads the description and picks the script.                  *)
MigrateDb(i) ==
    /\ proc[i].pc = "migrate"
    /\ Become(i, IF NoPath(version, description) THEN Down ELSE Running(description, 1))
    /\ UNCHANGED <<version, database, crashes>>

Todo(k) == Script(version, k.found)[k.at]

HasTodo(k) == k.pc = "running" /\ k.at <= Len(Script(version, k.found))

(* One command, or the error that ends the process.                        *)
RunCommand(i) ==
    LET k == proc[i] IN
    /\ HasTodo(k)
    /\ Todo(k) # Patch
    /\ \/ /\ ~Fails(Todo(k))
          /\ Apply(Todo(k))
          /\ Become(i, Running(k.found, k.at + 1))
       \/ /\ Fails(Todo(k))
          /\ Become(i, Down)
          /\ UNCHANGED database
    /\ UNCHANGED <<version, crashes>>

(* The cursor links.find({}): its first batch holds what there is.         *)
PatchFind(i) ==
    LET k == proc[i] IN
    /\ HasTodo(k)
    /\ Todo(k) = Patch
    /\ Become(i, [pc |-> "patching", found |-> k.found, at |-> k.at, batch |-> links])
    /\ UNCHANGED <<version, database, crashes>>

Patched(l) == [l EXCEPT !.fields = @ \cup {"retires_at"}]

(* replace_one of a document as the cursor had it.  One that was deleted   *)
(* meanwhile matches nothing; one that the validator refuses is an error.  *)
PatchLink(i) ==
    LET k == proc[i] IN
    /\ k.pc = "patching"
    /\ \E l \in k.batch :
        \/ /\ Conforms(Patched(l), schema["links"])
           /\ links' = {IF m._id = l._id THEN Patched(l) ELSE m : m \in links}
           /\ Become(i, [k EXCEPT !.batch = @ \ {l}])
        \/ /\ ~Conforms(Patched(l), schema["links"])
           /\ \E m \in links : m._id = l._id
           /\ Become(i, Down)
           /\ UNCHANGED links
        \/ /\ \A m \in links : m._id # l._id
           /\ Become(i, [k EXCEPT !.batch = @ \ {l}])
           /\ UNCHANGED links
    /\ UNCHANGED <<version, schema, index, description, origin, crashes>>

PatchDone(i) ==
    LET k == proc[i] IN
    /\ k.pc = "patching"
    /\ k.batch = {}
    /\ Become(i, Running(k.found, k.at + 1))
    /\ UNCHANGED <<version, database, crashes>>

(* main() returns and the start script execs the server.                   *)
Serve(i) ==
    LET k == proc[i] IN
    /\ k.pc = "running"
    /\ k.at > Len(Script(version, k.found))
    /\ Become(i, [pc |-> "serving"])
    /\ UNCHANGED <<version, database, crashes>>

Boot(i) ==
    \/ Start(i) \/ CheckDatabase(i) \/ MigrateDb(i) \/ RunCommand(i)
    \/ PatchFind(i) \/ PatchLink(i) \/ PatchDone(i) \/ Serve(i)

-----------------------------------------------------------------------------
(* The rest of the world: requests, failures, releases.                    *)

(* The fields that the service of a version writes into a link.  Of the    *)
(* versions before 0.4.0 the validator alone is known, which asks for      *)
(* neither.                                                                *)
LinkFields(v) == IF v >= 40 THEN {DatedFields} ELSE SUBSET {"expires_at"}

(* A document id is never drawn twice; the model reuses one that nothing   *)
(* refers to any more.                                                     *)
FreshId(id) ==
    /\ \A l \in links : l._id # id
    /\ \A j \in Instances : proc[j].pc = "patching" => \A l \in proc[j].batch : l._id # id

CreateLink(i) ==
    /\ proc[i].pc = "serving"
    /\ \E id \in LinkIds, f \in LinkFields(version) :
        /\ FreshId(id)
        /\ Conforms([_id |-> id, fields |-> f], schema["links"])
        /\ links' = links \cup {[_id |-> id, fields |-> f]}
    /\ UNCHANGED <<version, proc, schema, index, description, origin, crashes>>

DeleteLink(i) ==
    /\ proc[i].pc = "serving"
    /\ \E l \in links : links' = links \ {l}
    /\ UNCHANGED <<version, proc, schema, index, description, origin, crashes>>

(* The process dies, or a command of its script raises.                    *)
Crash(i) ==
    /\ crashes < MaxCrashes
    /\ crashes' = crashes + 1
    /\ proc[i] # Down
    /\ Become(i, Down)
    /\ UNCHANGED <<version, database>>

(* A release: the instances of the old version are stopped before those of *)
(* the new one start.  There is no downgrade.                              *)
Deploy ==
    /\ version' \in {v \in Versions : v > version}
    /\ proc' = [i \in Instances |-> Down]
    /\ UNCHANGED <<database, crashes>>

Init ==
    /\ version \in Versions
    /\ proc = [i \in Instances |-> Down]
    /\ schema = [c \in Collections |-> NoCollection]
    /\ index = "none"
    /\ description = NoDescription
    /\ links = {}
    /\ origin = NoDescription
    /\ crashes = 0

Next ==
    \/ \E i \in Instances : Boot(i) \/ CreateLink(i) \/ DeleteLink(i) \/ Crash(i)
    \/ Deploy

Spec == Init /\ [][Next]_vars

-----------------------------------------------------------------------------

MaxAt == 9   \* past the last command of the longest script

Process ==
    [pc : {"down", "check", "migrate", "serving"}]
    \cup [pc : {"running"}, found : Versions \cup {NoDescription}, at : 1..MaxAt]
    \cup [pc : {"patching"}, found : Versions \cup {NoDescription}, at : 1..MaxAt,
          batch : SUBSET Link]

TypeOK ==
    /\ version \in Versions
    /\ proc \in [Instances -> Process]
    /\ schema \in [Collections -> {NoCollection, 21, 30, 40}]
    /\ index \in {"none", "plain", "unique"}
    /\ description \in Versions \cup {NoDescription}
    /\ links \subseteq Link
    /\ origin \in Versions \cup {NoDescription}
    /\ crashes \in 0..MaxCrashes

(* The shape of a database that version v can serve from: its collections  *)
(* exist and are validated at least as strictly as v asks, and every link  *)
(* satisfies what v asks of links.                                         *)
Shape(v) ==
    /\ schema["links"] >= SchemaOf(v)
    /\ v >= 30 => \A c \in SessionCollections : schema[c] >= SchemaOf(v)
    /\ \A l \in links : Conforms(l, v)

(* The description document tells the truth.  The next start, whenever the *)
(* last one was interrupted, has nothing else to decide by; a description  *)
(* written too early is a migration that is never finished.                *)
DescriptionTruthful == description # NoDescription => Shape(description)

(* An instance serves only from a database of its own version, validated   *)
(* by its own schemas: no start takes a half migrated database, or one of  *)
(* another version, for its own.                                           *)
ServesOwnVersion ==
    \A i \in Instances : proc[i].pc = "serving" =>
        /\ description = version
        /\ schema["links"] = SchemaOf(version)
        /\ version >= 30 => \A c \in SessionCollections : schema[c] = SchemaOf(version)

(* The unique index that create_link_record relies on when two finishes of *)
(* one user overlap is there, in every database that was initialized at    *)
(* 0.3.0 or later.  Databases of 0.2.1 never get it.                       *)
UniqueWhenServing ==
    (\E i \in Instances : proc[i].pc = "serving") /\ origin >= 30 => index = "unique"

(* Whatever a starting instance does, while others serve or start as well, *)
(* no link is lost and none loses a field.                                 *)
LinksKept ==
    [][\A i \in Instances : proc'[i] # proc[i] =>
        \A l \in links : \E m \in links' : m._id = l._id /\ l.fields \subseteq m.fields]_vars

(* Docker restarts an instance that exits, and MongoDB answers.            *)
FairSpec == Spec /\ \A i \in Instances : WF_vars(Boot(i))

(* A database that has a description and is at most one version behind.    *)
Upgradable ==
    /\ description >= 30
    /\ ~NoPath(version, description)
    /\ \A l \in links : "expires_at" \in l.fields

(* From 0.3.0 on an upgrade that is interrupted, at any command and any    *)
(* number of times, is finished by a later start, provided that the links  *)
(* have the field the migration does not add.                              *)
UpgradeResumes == \A i \in Instances : Upgradable ~> proc[i].pc = "serving" \/ ~Upgradable
=============================================================================
