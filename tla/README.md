# orcidlink: a TLA+ verification project

orcidlink is the KBase service that links a KBase account with an ORCID account. A user
goes through an OAuth flow at ORCID; the service keeps the tokens ORCID grants in a *link*,
renews them, and uses them to read and write the user's works at ORCID.

It is one asyncio process over MongoDB. Nothing in it locks, no command sequence is a
transaction, and every handler is interrupted at each `await`. What can go wrong is
therefore in the order of the awaits of different requests, and in what a crash or a
failed call leaves between two of them. This project models that.

Paths below are relative to the repository.

## 1. Inventory

| component | code | state | operations |
|---|---|---|---|
| linking flow | `src/orcidlink/jsonrpc/methods/linking_sessions.py`, `src/orcidlink/routers/linking_sessions.py` | locals of suspended handlers | create, start, continue, get, finish, cancel |
| storage | `src/orcidlink/storage/storage_model_mongo.py` | collections `links`, `linking_sessions_initial`, `_started`, `_completed` | find, insert, update, delete; the two "move" sequences; removal of what is expired |
| links | `src/orcidlink/process.py`, `delete_own_link.py`, `delete_link.py`, the readers `is_linked`, `owner_link`, `other_link`, `profile` | locals | unlink, use (renews a retired link) |
| management | `src/orcidlink/jsonrpc/methods/manage.py` | locals | delete expired sessions, delete one session, refresh tokens, queries |
| ORCID OAuth client | `src/orcidlink/lib/service_clients/orcid_oauth_api.py` | none here; tokens at ORCID | exchange, refresh, revoke |
| works, profile | `works.py`, `profile.py`, `orcid_api.py` | locals; works at ORCID | list, get, create, save, delete; profile |
| translators | `src/orcidlink/translators/` | none | ORCID documents to service documents and back |
| boot | `src/boot/service_initialization.py` | collections, `description` | initialise, migrate |
| KBase auth, errors, config, logging, wiring | the rest of `src/orcidlink/` | read-only | none that changes state |

**How they interact.** A browser or a client calls a handler; the handler asks KBase auth
who calls, reads a document, checks it, calls ORCID or the database, and writes. A session
moves `initial -> started -> completed` by *insert a copy, delete the original* and becomes
a link by the same two steps. Managers (or a script, `docs/operation/database-maintenance.md`)
remove sessions that were abandoned. The only shared state is the database and the tokens
that ORCID honours.

**What is hard.**

* Interleaving: checks are made on a document read before an await (owner, "no link yet",
  "ORCID account not linked yet", the session is there) and acted on after it.
* Partial failure: moves, finish (insert link, delete session), unlink (revoke, delete),
  cancel (delete, revoke) and cleanup (list, revoke, delete) stop between two steps.
* Time: `expires_at`, `retires_at`; the cleanup reads the clock twice.
* ORCID: errors, lost answers after the effect, a revocation that fails with an empty body.
* Limits: listings are capped at 100 documents.

**What would make it correct.** Tokens stay with the account whose browser fetched them;
sessions keep owner and expiry; a session is in one place; a link's token works; no live
token drops out of reach; the cleanup removes what is expired and nothing else; documents
and comments are kept to (section 5 lists where they are not).

`PROJECT.json` lists every component with its status and every hazard at its line.

## 2. Modules

| module | what it models |
|---|---|
| `Entities` | the constants and the documents (`model.py`) |
| `Requests` | requests in flight: `task[w]` is the suspended coroutine in slot `w`, `now` the clock |
| `Storage` | the collections; one operator per database command |
| `OrcidAuthority` | ORCID's OAuth service as the client sees it (external), with a budget of faults |
| `LinkingSessions` | create, start, continue, finish, cancel |
| `LinkRecords` | unlink, use, refresh_tokens |
| `Management` | the cleanup, single deletions |
| `OrcidLink` | the composition: `Spec`, time, crash, withdrawn consent; `SerialSpec`, the same with one request at a time; all properties of both, the refinement mappings |
| `LinkRegistry`, `LinkingProtocol` | abstract specifications: what the collection of links promises; the linking flow with each operation in one step |
| `Outcomes`, `ServiceClients` | a call returns or raises; what the clients of ORCID and KBase auth make of each kind of response |
| `Works` | the five works methods and `get-orcid-profile` on top of `OrcidLink` |
| `OrcidApi`, `WorkModel` | the documents of ORCID's interface and of the service's own (`orcid_api.py`, `model.py`) |
| `Translators` | `to_orcid.py`, `to_service.py`, and the record that `create_work` builds, as operators |
| `Conversions` | one work that is created, read, edited and saved through the translators |
| `Boot` | `service_initialization.py`: initialization and migration |
| `MCOrcidLink`, `MCWorks`, `MCConversions` | instances for TLC |
| `OrcidLinkTypes`, `OrcidLinkProofs`, `RegistryProofs`, `SweepProofs`, `SerialProofs`, `WorksProofs`, `ConversionsProofs`, `BootProofs` | theorems and proofs |

`Works` extends `OrcidLink` and `ServiceClients`; `Conversions` extends `Translators`, which
uses `OrcidApi` and `WorkModel`; `Boot` stands alone, since nothing is served while
it runs. What a work *says* is in `Conversions`, whether and for whom it is read and written
is in `Works`: there a work is a put code, whether it is ours, and what the conversions can
show of it: the work, only what the list takes from it, or nothing.

**Actions and awaits.** A handler is cut at the awaits whose answers depend on, or change,
modelled state. The piece before the first of its effects is one action that accepts the
request (`Create`, `Start`, `Finish`, ...): authentication, the read and the checks. It
stores the handler's locals in `task[w]`, with the await it waits for in `pc`. Each later
action (`FinishInsert`, `FinishDelete`, ...) is one answered await and the code up to the
next. Reads that precede the last check can be folded into the accepting action because
nothing is changed before it and a request that fails a check changes nothing at all.

**Documents.** A stored session and its later copies keep `_id`, so an insert of a copy
that is there already is a duplicate key (`CanInsertStarted`, `CanInsertCompleted`); the
index on `links.username` is unique (`CanCreateLink`). A token stands for the access token
and the refresh token granted with it. Two history fields are not in the code: `by`, the
account whose browser fetched a token, and `issued`, the sessions ever created.

**ORCID.** `Grants` covers the exchange and the rotation (`revoke_old`): the client gets a
new authorization and the old one stops to be honoured. A call may instead be refused, its
answer lost after its effect, or, for revocations, fail with an empty body, which
`handle_empty_response` takes for success. Each of these, a crash, and a user who withdraws
consent at ORCID spend one unit of `MaxFaults`. A rotation of a token ORCID does not honour
is refused, always. `Continue` takes a browser only if it was redirected to ORCID
(`redirected`): the handler does not check that, it is an assumption about who calls it.

**Works.** A slot of `Works` holds, besides its coroutine in `task`, a `job`: the request's
caller, its method, its put code and the tokens it has read. `CallMethod` authorizes the
caller (`Admits`, from `ensure_authorization2` and the comparison in each handler) and
reads the link; a retired one is renewed by the same actions as any other request's
(`UseLink`, `RefreshCall`, `RefreshSave`), conjoined with what the job makes of it.
`Call` and `GetProfile` are the one or two calls to ORCID. `Asks` says what ORCID answers
and whether it has done what it was asked; a call may be refused, fail in every way the
client can tell apart, or be carried out with its answer lost. `handle_json_response`,
`PostWorks`, `DeleteWork`, `refresh_token` and `get_token_info` turn that into a value or
an error. They are the same operators in the model and in the proofs. What comes after the
call can fail as well: `create_work` and `save_work` convert ORCID's answer when the work
is stored already, and a work with a second DOI of its own, or of an owner whose iD or name
the model refuses (`UnfitOwners`), makes them raise. So the job carries whether the work
that the client sends can be shown (`MaySend`, a second DOI passes the declared model), and
`Performs` keeps it at ORCID either way. `get-orcid-works` converts our summaries and the
external ids of every group (`Listing`), so a work of another program that lacks a citation
is listed, though `get-orcid-work` cannot show it.

**Conversions.** Text is abstract where nothing looks into it; digits, names, roles,
relationships and the presence of optional parts are kept, since the conversions decide by
them. `Read` and `Listed` include the validation that pydantic does on the way in. Words
outside an enumeration make a conversion raise, as they do in the code; `Strings` is where
such words come from. A request whose parameters fail the model of the method never reaches
it: `CreateWork` and `Edit` take only works that satisfy it. The loops of the translators
over identifiers, contributors and roles are one function, `Kept` (what a loop appends), on
sequences of any length, and `With` adds a field to a record.

**Boot.** A script is the sequence of its database commands; `RunCommand` executes one,
with the rewrite of the links by 0.4.0 as a loop of its own (`PatchFind`, `PatchLink`). The
next start decides from the description document alone. Instances run their scripts at the
same time, die between any two commands, and are replaced by those of a later release.

**Slips.** Operators commented `a slip:` are mutations of the definition that follows.
`Next` uses none of them. Each shows that a property is sensitive to the code it is about.

## 3. Runs

| run | instance | checks |
|---|---|---|
| `concurrent` | 2 users, 2 sessions, 1 ORCID account, 2 requests in flight, every endpoint | `TypeOK`, `TokensOwnedByHolder`, `TasksOwnTokens`, `SessionTermsFixed`; refinement `LinksAreRegistry` |
| `serial` | 2 users, 3 sessions, 2 ORCID accounts, one request at a time, every endpoint | `LinkUsable`, `OneStagePerSession`, `LinkTokensUnshared`, `OnlyExpiredSwept`, `TokensStayReachable`; refinement `HandlersAreAtomic` |
| `renewal` | 2 users, 2 sessions, 2 requests in flight; linking, use, refresh_tokens, single deletions | `LinkUsable` |
| `liveness` | 1 user, 1 session, 2 requests in flight, one fault anywhere | `RequestsAnswered`, `ExpiredEventuallySwept` |
| `works` | 2 users with an ORCID account each, one with the name hidden, or 1 user whose iD ends in X and who has a work of another program; 2 requests in flight: every works method, profile, use, unlink; one fault anywhere | `WorksTypeOK`, `ActsForCaller`, `NoDuplicates`, `StartsHonoured`, `AnswersTruthful` |
| `conversions` | one work: of every shape that `MCConversions` lists, ours or another program's; two edits by client or owner | `TypeOK`, `OwnWorksReadable`, `SummaryAgrees`, `NamesAgree`, `SaveWhatWasRead`, `ContributionsKept`, `CreatedIsReturned` |
| `boot` | 2 instances, 2 links, every sequence of releases, 2 crashes | `TypeOK`, `DescriptionTruthful`, `ServesOwnVersion`, `UniqueWhenServing`, `LinksKept`, `UpgradeResumes` |
| `one_user_per_orcid`, `expired_session`, `cancel_race`, `sweep`, `redirect` | the smallest instance that shows it | one statement of the docs each, violated (section 5) |

**The refinements.** `LinksAreRegistry` says that, whatever interleaves and fails, the
collection of links goes through steps of `LinkRegistry` only: a user without a link gets
one, or one user's link is renewed or removed, and it always holds tokens that the user's
own browser fetched. It says nothing about *which* of the user's own tokens: a save that
comes late may bring back the record of an older link (a hazard). `HandlersAreAtomic` says
that each handler, with its three to five database commands and calls, is one step of
`LinkingProtocol` when no other request overlaps it; the mapping places the step at the
insert that decides (into the next collection, or into `links`). With overlaps that is not
so: `cancel_race` shows one way.

**Works.** `ActsForCaller` needs the owner check and the renewal of the right record;
`NoDuplicates` counts the works ORCID made against the create requests it was sent;
`StartsHonoured` says that a request's first call uses tokens that ORCID honours unless
another request has just rotated or revoked them and not yet changed the record, that is,
the renewal comes before the use. `AnswersTruthful` compares each answer with what is the
case at ORCID when it is sent: success, not found, insufficient, not authorized, private.
An error that is answered although the work was created, saved or deleted has one of five
causes: a call failed in that step, the tokens died between the two calls, the name is
private, or the work or its owner cannot be shown, a work of our own included.

**Conversions.** Creating or saving and reading again is the point: `SaveWhatWasRead` and
`CreatedIsReturned` are the two round trips, `ContributionsKept` counts who did what,
`OwnWorksReadable` names the three cases in which the service writes a work it can not
read (lengths are not modelled: a name of more than 150 characters, `model.py:487-490`, is
a fourth), and `SummaryAgrees` and `NamesAgree` compare the two copies of a conversion.

**Boot.** `DescriptionTruthful` is what every later start relies on. `UpgradeResumes` holds
from 0.3.0 on; before that, an interrupted initialization or migration is not repeatable,
since `create_collection` raises on what the last attempt made. `LinksKept` is about the
starting instances: what the fields contain is not modelled.

**Bounds.** `Workers` is the number of requests in flight: every race in section 5 and in
the hazard list is between two. Two sessions and two users let a request of one run into
another's document; one ORCID account makes them compete. Three sessions in `serial` allow
a link, a second session of the same user, and a session of the other. `MaxTime = 1` with
`SessionLifetime = 1` and `RetirementAge = 0` has sessions made at 0 expired, and links made at 0 retired, at 1; those made at 1 are fresh. `MaxTokens` bounds what ORCID grants: at the bound a
call is refused. `PageSize` stands for the 100 of `to_list`. With `MaxFaults = 0` neither
errors nor crashes happen: in `concurrent` they would only add requests that end early
(the theorems cover them); in `serial` and `renewal` the properties are claims about
undisturbed operation, and some fail with a suitable fault (section 4 says which do not).

In `works` two requests are enough for one to overtake another between its read and its
call; one fault lets any single call fail or a restart happen. The name of the second
account is private, the third has an unfit owner and a foreign work that can only be listed,
and a created or saved work may itself be one that cannot be shown; the first account has no
such hindrance. One put code is the foreign work's (where there is none, it names a work
that does not exist), one that of a created work. Linking
itself is left out (`SessionIds = {}`): it starts from links that exist. In `conversions`
`MaxEdits = 2` allows a change by the client and one by the owner between a read and a
save, in either order. In `boot` two instances are enough for one to overtake the other in
any script, and two crashes for an upgrade to be interrupted twice.

`CHECK_DEADLOCK FALSE` everywhere: an instance stops when its session ids and tokens are
used up; the service itself is idle when nobody calls.

**Why `serial` and `renewal` are narrower.** `LinkUsable`, `OneStagePerSession`,
`LinkTokensUnshared` and `TokensStayReachable` do *not* hold of arbitrary overlaps:

* a finish suspended before its delete, an unlink, and a second finish of the session that
  is still there bring the link back with a token that is revoked;
* a crash after finish inserted the link leaves the session with the same token, and
  cancelling or sweeping the session revokes the link's;
* a second start or continue of the same session between the first one's insert and delete
  leaves it in two collections;
* an unlink that read a record before a renewal saved it revokes the old token and deletes
  the record with the new one.

They are listed as hazards, and no property is named as catching them: the code does not do
there what one could ask. What the runs establish is that every handler is right by
itself, for every operation (`serial`), and that renewals, which are not asked for by the
user and so cannot be avoided, do no harm to each other or to the linking flow
(`renewal`). There cancel, unlink and cleanup, the operations that revoke, are left out.

**Fairness.** `FairSpec` has `WF` for every suspended coroutine: the event loop resumes a
coroutine whose await was answered, and aiohttp and the MongoDB driver answer or raise.
Nothing makes clients call, except that `SweptSpec` assumes of the cleanup what
`docs/operation/database-maintenance.md:34-39` describes, a script that calls it again and
again: `SF`, since a call may find all modelled slots taken. `RequestsAnswered` says that
no handler loops or waits for another; `ExpiredEventuallySwept` that the cleanup, which
gives up at the first failing revocation, does make progress when failures are finite.
In `Boot`, `WF` of each instance: the container is restarted when the process exits, and
MongoDB answers; `MaxCrashes` makes the interruptions finite.

## 4. Proofs

For any number of users, sessions, requests, tokens and faults:

* `TypeCorrect`: `Spec => []TypeOK` (`OrcidLinkTypes`). One lemma for the shape of a
  coroutine's locals by `pc`, one for the continuations the handlers build, then one step
  per action.
* `SessionTerms`: `Spec => []SessionTermsFixed` (`OrcidLinkProofs`). Every step but
  `Create` stores and remembers only sessions that the slot could see (`MovesSeen`); a new
  session has a fresh id.
* `Ownership`: `Spec => [](TokensOwnedByHolder /\ TasksOwnTokens)`. `TokensOwnedByHolder`
  is not inductive: what is stored next is in the locals of a suspended handler. The
  inductive invariant is `TypeOK /\ SessionTermsFixed /\ TokensOwnedByHolder /\
  TasksOwnTokens`. `SessionTermsFixed` is needed in one place, `ContinueFind`, where
  storage reads the started session again, after the owner was checked on an earlier copy.
  The `concurrent` run checks all four parts.
* `LinksImplementRegistry`: `Spec => LinksAreRegistry` (`RegistryProofs`), with `OneLink`.
  Only three commands change `links` (`LinkCommands`); each is a step of the registry or
  none, given that what the handlers hold is theirs (`Ownership`).
* `LinksUsable`: `Spec => [](faults = 0 => LinkUsable)` (`RegistryProofs`), assuming
  `Undisturbed`: neither cancel nor the cleanup is among the `Endpoints`, and not both of
  finish and unlink. Requests still overlap in every way, and this is the most the code
  supports: section 3 says how each of these breaks a link. The inductive invariant
  `LinksInv` has four parts: one link per user; a coroutine belongs to an operation of the
  instance (`TasksBelong`); no token is anywhere before ORCID grants it (`TokensGranted`);
  and, while nothing has failed, `LinksWork`: of the tokens that a user's link and the
  renewals of it hold one at most works; once a renewal was granted, the one that works is
  with the request that will save it, and there is a link to save it in; a removal revokes
  only what was in the link; and what a user without a link may still confirm works.
* `OneStage`, `UnsharedTokens`, `SerialLinksUsable`, `TokensReachable`, `OneRequestOneStep`
  (`SerialProofs`), of `SerialSpec`: the properties of the `serial` run, for any number of
  users, sessions and slots. `OneStage`, `UnsharedTokens` and `OneRequestOneStep` hold
  *with* failing calls and withdrawn consents; `SerialLinksUsable` and `TokensReachable` are
  about undisturbed operation, since a failure can break them. None of the properties is
  inductive, since in the middle of a handler a session is in two collections. `SerialInv`
  says what holds at each `pc` of the one busy slot: which two collections its session may
  be in (`StagesApart`), which two documents its token (`TokensApart`), that what it read is
  still there (`SessionInPlace`, `TokenInPlace`), and while nothing has failed which tokens
  work (`Honoured`) and what the cleanup has revoked (`Revoked`, which needs `OnePage`: no
  more sessions than one listing returns). `OneRequestOneStep` is the refinement of
  `LinkingProtocol`: `OpenSessions` and `UsedIds` are computed at each `pc` (`OpenAt`,
  `UsedAt`), and each command is then a step of the protocol or changes neither.
* `CleanupSparesUnexpired`: `Spec => OnlyExpiredSwept` (`SweepProofs`). The strengthening is
  that no cleanup in flight holds a reading of the clock that lies in the future.
* `WorksTypes`, `CallersOwnTokens`, `CreatedOnce`, `TruthfulAnswers` (`WorksProofs`), for
  any links and works to start from. Every step of `Works` is a step of `OrcidLink` or
  leaves its state alone but for a fault (`ServiceGoesOn`), so what was proved there
  carries over. `NoDuplicates` is not inductive: each create request that has not yet made
  its call may still make a work. `CreatesCounted` adds their number, a cardinality;
  `JobsFit` ties a job to the coroutine of its slot, and says whose tokens either holds.
  `TruthfulAnswers` needs the types only: one lemma per client function says what it makes
  of a failure (nothing specific) and of a refusal (what is the case), one per action that
  the answer is true, with the cause of an error that follows a deed (`Excused`).
* `FirstCallsHonoured`: `WorksSpec => StartsHonoured`, again for `Undisturbed` instances, as
  the run's is, from `LinksInv`: a request starts to call with the token of the link, or
  with the one that its own renewal has just been granted.
* The conversions (`ConversionsProofs`), for all documents, texts, vocabularies and lengths.
  `DateRoundTrip`, `ListAgrees`, `NameReadings`: padding a date undoes stripping it; every
  work that can be shown can be listed, with the same fields; both readings of the
  profile's name agree.
  - `ConversionsTyped` and `OwnWorksStayReadable`: everything answered or sent satisfies its
    declared model, and a work that the service wrote can be read again, but for the three
    cases of `OwnWorksReadable`. Neither is inductive: nothing in `TypeOK` says that a
    stored work has its DOI first and known words only. `IInv` adds `OwnWorksWritten` (a
    work with the service's source is as `NewWorkRecord` makes it) and `Dated` (ORCID keeps
    fuzzy dates or none).
  - `SavesKeepWorks` (`SaveWhatWasRead`) and `CreatesAnswerThemselves` (`CreatedIsReturned`)
    both rest on `WriteRead`: a composed work comes back from ORCID as it was sent. Its two
    halves are `IdsBack` (the DOI goes in front and is found again, whatever follows) and
    `ContributorsBack`, which splits the owner's records from the others' (`TakenApart`)
    and groups the others as they were (`GroupBack`: each new contributor adds one name and
    its roles, `NewName`). `ReadComposed` says that what was read of any program's work is
    composed, so the first theorem covers those too.
  - `SavesKeepContributions` (`ContributionsKept`): what is read of a work determines who
    did what in it (`SameContributions`), and what is read did not change.

  Induction goes over a *set* of numbers or sequences (`Induction`, `SeqInduction`), from
  which the lemmas about `Kept` and `FlattenSeq` are derived: their defining recursions
  (`StepsAre`, `FlatsAre`), what they return of an appended element and of two sequences in
  a row, and what they count.
* `BootTypes`, `Truthful`, `OwnVersion`, `UniqueIndex`, `MigrationKeepsLinks`
  (`BootProofs`), for any number of instances, links and crashes, from one inductive
  invariant `IInv`. Its heart, `Sound`, says of a running instance that the commands before
  its position have had their effect, also where another instance runs the same script
  ahead of it, and that the rewrite of the links has missed none. `OneInitializer` says that two initializations cannot both get past their first
  `create_collection`.

They assume only what the modules assume of their constants: durations and bounds are
natural numbers; in `Works`, the links to start from are what the service can have made; in
`Conversions`, null is no text, name, date or citation, the vocabularies are strings, works
of other programs are not marked as the service's and have a date that ORCID keeps, or none.
Hypotheses of single theorems are `Undisturbed` (`LinksUsable`, `FirstCallsHonoured`),
`OnePage` and `MaxFaults = 0` (`TokensReachable`), and `faults = 0` (`LinksUsable`,
`SerialLinksUsable`), where the property is about undisturbed operation.

Every invariant and every action property of the passing runs is proved. Model-checked only
is liveness, which is out of the prover's reach: the properties of the `liveness` run and
`UpgradeResumes`. What a mutation does to a property is shown by TLC, too.

## 5. Where code and documents disagree

| run | statement | what happens |
|---|---|---|
| `one_user_per_orcid` | an ORCID account that is already linked is an error (`routers/linking_sessions.py:436`) | checked at continue only; two users both pass |
| `expired_session` | an expired session cannot be used (`database-maintenance.md:22`) | no handler looks at `expires_at` |
| `cancel_race` | cancelling creates no link (`database-maintenance.md:18`) | a finish in flight creates it after the session is gone |
| `sweep` | the key of a completed session should be deactivated (`database-maintenance.md:27`) | the cleanup deletes what expired since it listed, unrevoked |
| `redirect` | started first, then redirect (`usage-flow.puml:79-87`) | a failed move is swallowed |

Met while modelling, without a run of their own:

* `profile.py:28` and `docs/design/orcid-tokens.md:79` speak of a token refresh after ORCID
  has called a token invalid. No handler tries one: tokens are renewed by age only, and a
  request whose tokens another one has just rotated is answered "not authorized".
* `create_work` raises for any status of 400 or more (`works.py:157`), so a dead token is an
  upstream error there and "not authorized" in the other methods.
* One work that cannot be converted makes `get-orcid-works` fail as a whole; the conversion
  of a group's external ids (`works.py:34`) includes those of works of other programs.
* The pattern of an ORCID iD (`model.py:473`) does not admit the check character X.
* `create_work` and `save_work` answer an error for a work that ORCID has stored when they
  cannot convert what it answers (`works.py:166`, `:202`).

## 6. Not modelled

* Database errors that a handler survives (the handlers let them through, which is a request
  that ends early, as a crash of one slot would be).
* `get_me` and the check of a manager's role: like `get_token_info`, without state. The
  errors of the browser's routes, error rendering, responses, OpenAPI wiring.
* Configuration, runtime, logging: read once from the environment; the two durations are
  constants of the model.
* `status`, `info`, `error-info` and the documentation: constant answers.
* `reset_database` (used by tests only) and the queries (`find_links`, `get_link`,
  `get_linking_sessions`, `get_stats`, `is_manager`), which change nothing and decide
  nothing.
* Titles, urls and dates of modification of works, which only travel along; the wording of
  citations. Whether a save overwrites an edit made meanwhile at ORCID: no version travels
  with a work, so it does, and no document says otherwise.
* The contents of a link's fields during a migration.
* The lengths of strings that the declared models limit.

## 7. Plan

1. *Done*: the linking flow, links and management over one database (`OrcidLink`).
2. *Done*: works and profile on top of it, with lost answers, restarts and the clients'
   classification of responses (`Works`, `ServiceClients`).
3. *Done*: the translators, as round trips (`Conversions`).
4. *Done*: initialization and migration (`Boot`).
5. *Done*: the abstract registry, which `OrcidLink` implements under every interleaving, and
   the linking protocol, which it implements one request at a time.
6. *Done*: proofs of the types, of ownership, of the registry refinement, of the cleanup, of
   the works methods and of the migrations; of usable links where nothing revokes; of the
   linking protocol and its invariants, one request at a time; of the conversions, for
   documents of any size.
7. *Left*: a manager's authorization (`get_me`).
