# Formal models of OpenDIF core

TLA+ modules, TLC configurations and TLAPS proofs for the services under
`src/`. Each module is read off the Go code (and one SQL migration); the doc
comment of every action says which function it is, and `PROJECT.json` gives the
file and the lines.

    tlc -config Consent.cfg MCConsentEngine.tla            # one run
    tlapm ConsentEngineProofs.tla                          # one proof module

## 1. The system

OpenDIF lets an application (a *consumer*) ask one GraphQL question over the
data of several providers. Four services and two libraries take part.

| Component | State | Operations |
|---|---|---|
| **Orchestration engine** (`src/exchange/orchestration-engine`) | `unified_schemas` rows, one of them active; a provider table built at start-up | GraphQL query: parse against the active schema, collect the fields, ask the PDP, ask the consent engine, fan out to the providers, accumulate; schema creation, activation, compatibility check |
| **Policy decision point** (`src/exchange/policy-decision-point`) | `policy_metadata` rows, one per schema and field: owner, access type, and an allow list with the expiry of each application's grant | `POST metadata` (replace the rows of a schema), `POST update-allowlist` (grant), `POST decide` |
| **Consent engine** (`src/exchange/consent-engine`) | `consent_records`: owner, e-mail, application, fields, status, deadlines | internal `POST`/`GET consents`; portal `GET`/`PUT consents/{id}`; `RevokeConsent` |
| **Portal backend** (`src/portal-backend`) | members, schemas, applications and their submissions; mirrored by users, groups and OIDC applications in the identity provider | CRUD on each; approving a submission starts a saga over the identity provider, its own database and the PDP |
| **Identity provider client** (`src/portal-backend/idp`) | none (an external Asgardeo tenant) | users, groups, OIDC applications |
| **Token verification** (`consent-engine/v1/auth`, `portal-backend/v1/middleware/jwt_auth.go`, `orchestration-engine/auth`) | cached JWKS key sets | verify, refresh |
| **Audit** (`src/shared/audit`) | none | fire-and-forget HTTP events |
| **Portals** (`src/portals`) | browser state | user interfaces |

How they interact: the orchestration engine calls the PDP's `decide` and then,
for the fields that need it, the consent engine's `POST consents`; the owner
answers in the consent portal (`PUT consents/{id}`); the portal backend writes
the PDP's rows (`metadata` when a schema is approved, `update-allowlist` when an
application is). All calls are synchronous HTTP, between the services with client timeouts;
the clients of the identity provider and of providers with OAuth2 have none. There is
no shared memory between services; within a service the shared state is the
PostgreSQL database, at READ COMMITTED, and requests are goroutines.

### What is hard, and what makes each part correct

* **Consent engine.** Requests read a row, decide in memory and write the
  *whole* row back (`gorm.Save`), so any request can overwrite what another
  has committed since; the owner check and the update read the row separately;
  expiry happens only as a side effect of a lookup; replacing a consent is a
  transaction with a read, an update and an insert that can fail on a partial
  unique index. Correct means: no stale save approves for somebody else, makes
  two equal active rows, or rewrites history; a lapsed approval is never served;
  a consent is replaced with its successor or not at all; a creation is
  answered with what it asked for.
* **PDP.** Allow lists are JSON columns that are read, changed and written
  back whole; a metadata replacement saves rows it read earlier, deletes others,
  and may meet a grant half way. Correct means: access only where and while it
  was granted, and restricted data of an owner never without asking the owner.
* **Portal backend.** A creation is three systems without a common
  transaction: IdP application, row, PDP. Each step may fail, time out after it
  took effect, or be the last before a crash; the compensations may fail too;
  concurrent updates re-insert deleted rows. Correct means: all or nothing, and
  a reported success is a fact.
* **Orchestration engine.** Policy and consent are checked before the
  providers are asked; provider calls run concurrently and some fail; the
  active schema can change between two queries. Correct means: no provider is
  asked for a field without a current grant and, where it is needed, a consent
  that was approved for exactly those fields; every query is answered; the schema that
  was activated last, and no other, is active (the code fails here, section 4).
* **Portal authorization.** An endpoint table with wildcards, three modes for
  what the table misses, and an owner check that each handler makes for itself, on
  a row that its service reads again before it writes. Correct means: only an
  administrator or the owner writes a row, nobody else is served it, and a role
  that may only read never writes, whatever path and mode.
* **Members.** A user, its group and a row, in two systems; updates write both
  in one order and undo in the other. Correct means: complete or absent, and
  equal profiles once an update has run undisturbed.
* **Token verification.** Overlapping refreshes, failing fetches, rotated keys
  and a lock held during an HTTP request. Correct means: a withdrawn key is
  accepted and a new one rejected for a bounded time only, and every
  verification ends.

`PROJECT.json` lists the hazards at their lines, with the properties that watch
over each, and for those without a property the reason.

## 2. Modules

### ConsentEngine

`src/exchange/consent-engine/v1`. State: `table` (the rows; a row's key is also
its place in `created_at` order), `lastId`, `now`, and `req`, one record per
request slot with the step it is at and the row it holds in memory.

| Action | Code |
|---|---|
| `PostConsent`, `GetConsent`, `PutConsent`, `RevokeConsent` | the handlers' entry |
| `Lookup`, `SaveExpired` | `GetConsentInternalView`: query, deadline check, `Save` of the expired row |
| `BuildConsent`, `InsertConsent` | `buildConsentRecord`, `db.Create` |
| `RevokeRead`, `CommitRevokeAndCreate` | the transaction of `revokeAndCreateConsent` |
| `Authorize`, `Decide`, `SaveConsent` | `UpdateConsent`'s owner check, `UpdateConsentStatusByPortalAction`'s own read and its `Save` |
| `Fail`, `Tick` | a statement fails, the request's context ends or the process dies; time passes |

Between any two statements other requests run. A writing transaction is a read
step and a commit step, because its row lock keeps other writers of the row out
and nobody sees its writes before the commit. `Save` writes every column.
PostgreSQL's partial unique index is `IndexAllows`; it includes the status,
which is not what the rule in `models/consent.go` says (section 4). PostgreSQL and gorm
are external: the model follows how the code uses them.

`MCConsentEngine` gives one owner, one application, two field lists and two
e-mail addresses, of which one may not decide. `Consent.cfg` has two records (a
consent and its replacement) and a clock of two ticks; both deadlines are one
tick, so everything can lapse and a second grant can be given.

`ConsentLedger` is what the engine promises without its requests and statements:
a ledger of entries, each with terms that never change, a status and who set it,
and three actions, `Ask`, `Settle` and `Replace`. `Settles` says who may: only the
person a consent is about approves or rejects, and only the revoker revokes.
`ConsentEngine` maps its table
to it (`Ledger == INSTANCE ConsentLedger WITH ledger <- ...`), and
`ImplementsLedger` says that every step of the engine is one of these or none.
The deadlines have no counterpart in the ledger.

### PolicyDecisionPoint

`src/exchange/policy-decision-point/v1`. State: `rows` (a row per field of a schema,
with `id`, owner, access type and allow list; `SchemaOf` gives a field's schema), `lastId`, `now`, `req`, and
the history variable `granted` (the latest expiry any grant request set out to
write). `ReadMetadata`/`CommitMetadata` are `CreatePolicyMetadata`, which reads the
rows of one schema (`RowsOf`); its `Save` of a
slice of rows is `INSERT ... ON CONFLICT (id) DO UPDATE`, which leaves
`allow_list`, a column with a database default, as it is, and inserts a row
again that has been deleted in between. `ReadAllowLists`/`CommitAllowLists` are
`UpdateAllowList`, whose reads precede its transaction. `GetPolicyDecision` is
one query. `Fail` is an error or a crash between a read and its commit.

`PolicyDecisionPoint.cfg` has one application, two fields of one schema and one of
another, two requests and two ticks, and grants may span both schemas; what two applications do to each other is the question of
`AllowListLostUpdate.cfg`. The metadata requests replace two fields by one, give
a field away, break the owner constraint, name a field twice, and publish the
other schema.

### Provisioning

`src/portal-backend/v1/services`: submissions, `CreateApplication`,
`CreateSchema`, `UpdateApplication`, `UpdateSchema` and the PDP client. State:
the submissions' `status`; the stores `idp`, `rows` and `pdp` (sets of
resources); `call`, the PDP's view of a creation's HTTP call; `req`; and the
history variable `unclean`.

A creation runs `CreateIdpApplication`, `GetApplicationOIDC`, `InsertRow`,
`CallPdp`, `PdpReply`/`Timeout`, and back through `DeleteRow`,
`DeleteIdpApplication` and `RevertSubmission` on failure. `PdpCommits` and
`PdpRefuses` belong to the PDP and happen at any time after the call was sent,
also after the 10 s client timeout. `Crash` ends every request. `UpdateResource`
and `SaveResource` read and save a row while sagas run.

The PDP answers 201 to a metadata request it has carried out, and the portal takes
every status but 200 for an error: `Accepted`. So no creation of a schema ends with success; each
is undone in the portal, while its metadata stay in the PDP, for which the portal
has no call to undo them (`Gone` does not mention the PDP).

`unclean` lists the resources for which the code does not clean up: a crash in
mid-saga, a compensation that failed (they are tried once, and run with the
request's context), an error of `GetApplicationOIDC` (no compensation at all), an
IdP call that reports failure after the IdP has acted, and a `Save` that inserts
a deleted row again. The properties say that nothing else goes wrong.

`Provisioning.cfg` has two requests, one application, one schema and a
submission of each: every pair of a saga with a second saga, an update, or a
second decision on the same submission.

`ResourceLifecycle` is what the portal promises of a resource without its requests
and stores. `Begin` gives it to a creation, at most once; `End` leaves it whole, gone
or unclean, for one resource or, in a crash, for all in work; `Reappear` is the save
of a row that has gone. `Provisioning` maps its state to a `Phase` for each
resource, and `ImplementsLifecycle` says that every step is one of these or none. A
resource that is neither whole nor gone nor listed has a phase the lifecycle does
not know, and it has no step that leaves `whole`.

### Members

`src/portal-backend/v1/services/member_service.go`, with the user and group calls
of `idp/asgardeo`. State: the identity provider's `users` and `group`, the table
`members` (by its unique IdP user id), `req`, and two history variables: `lost`,
the parts that calls have left behind without the code knowing or while it failed
to undo them, and `drift`, the members whose last update was disturbed.

A creation is `CreateMember`, `CreateUser`, `FindGroup`, `AddToGroup`,
`InsertMember`, and back through `RemoveFromGroup` and `DeleteUser`; an update is
`UpdateMember`, `UpdateUser`, `SaveMember`, and `RestoreUser` when the row cannot
be saved. Every call may fail, and a failed call may have been carried out all
the same. `Crash` ends any request. `Members.cfg` has two users, two requests and
two e-mail addresses that both creations may ask for; updates change nothing, one
field or all.

### PortalAccess

`src/portal-backend/v1/handlers/v1_handler.go`, with the middleware
`authorization.go` and the permission tables of `models/`. State: `members` and
`rows`, abstracted to the owner and the token of the last writer, and `req`. What
a request does in other systems is the subject of `Provisioning` and `Members`;
here these steps succeed or fail and clean up or fail to.

| Action | Code |
|---|---|
| `TurnAway` | `AuthorizeRequest` refuses, or the router finds no handler |
| `GetAll...`, `Get...`, `Create...`, `Update...` | one per handler, built from `ListRows`, `ReadRow`, `CreateRow`, `UpdateRow`; the member handlers on their own |
| `CheckOwner`, `SetOwner` | the read of the caller's member record, and what the handler does with it |
| `InsertRow`, `Provision`, `Revert` | what is left of the services' sagas in the portal's tables |
| `LoadAgain`, `SaveRow` | the service's own read of the row and its `Save` |
| `InsertMember`, `SaveMember` | `MemberService` |

`PortalAccess.cfg` has the mode that lets the most through, a token of each role,
two members, a row of each kind and two requests; any user may get a member
record, while requests run. Sets of roles with more than one element, and the other two
modes, are covered by the theorems. The mode appears in the model as a constant,
because the environment variable is read once at start-up. The internal lookup of an
application's id, which takes no token, is outside the model.

### TokenKeys

The key caches of `consent-engine/v1/auth/jwt_verifier.go` and
`portal-backend/v1/middleware/jwt_auth.go`, as one verifier of either kind
(`kind`). State: what the identity provider has `published`, with the history of
each key (`since`, `until`); the cache (`keys`, `lastFetch`, `lock`); `now` and
`req`. `GetPublicKey`, `CheckAgain` and `Refresh` are the consent engine's path, in
which the write lock is taken before the age is checked and kept through the fetch;
`EnsureKeysFresh` and `LookUp` are the portal's, whose fetches overlap.
`Answer`, `FetchFails` and `Store` are the fetch, at most `Timeout` long, because
both HTTP clients have one; `Rotate` and `Tick` happen at any time. Both caches
start empty: the consent engine's constructor fetches in a goroutine, the portal
fetches for its first token.

The two bounds are those of the code, which has the hour written into it: a
withdrawn key is accepted by the portal for at most an hour and a timeout
(`AcceptedWasPublished`), a new one rejected by the consent engine for less than that
(`RejectedOnlyWhenNew`). The portal's documentation has another duration, 15
minutes, which nothing reads (section 4). For the consent engine a withdrawn key that is
cached stays accepted until an unknown key makes it fetch; the invariant says
only that it once was published. `TokenKeys.cfg` has one hour of one tick, a
timeout of one tick and three ticks: a fetch that overlaps the expiry of the
cache, and a rotation before, between and after.

### Federation

`src/exchange/orchestration-engine/federator`, with the clients of the PDP, the
consent engine and the providers. State: `query`, the local variables of each
`FederateQuery`; what other actors own, `active`, `policy` and `approved`;
`config`, which clients have a URL; and the history variable `seen`, what was
granted and approved since the query arrived, fixed when the providers are asked.

| Action | Code |
|---|---|
| `Receive`, `LoadSchema` | the HTTP handler; the active schema, else the configured one, else the file |
| `PdpDecides`, `Decided` | `MakePdpRequest` and the checks of the decision; the data owner is the first extracted argument |
| `CeAnswers` | `CreateConsent` and the check of its status |
| `CallFails` | any error of these two calls, and their 10 s timeouts |
| `FanOut` | `QueryBuilder` and the loop of `performFederation`, one goroutine per request to a known provider |
| `ProviderAnswers`, `AppendResponse`, `ProviderFails` | a goroutine: the response, the append under the mutex, or an error |
| `Accumulate` | `wg.Wait` and `AccumulateResponseWithSchemaInfo` |
| `PolicyChanges`, `ConsentChanges`, `SchemasActivated` | the PDP, the consent engine and schema management, at any time |

The module composes the engine with what the other services promise: the PDP
lets through what its rule for the application says (denied and expired fields,
and those without metadata, are one rule, `refused`, because each ends the query), the consent engine answers `approved` only with a consent
for exactly these fields, owner and application (`AnswersTheRequest`,
`NoStaleApprovalServed`), and several schemas may be active at once, as
`SchemaRegistry` shows they can. A field of a query is mapped by the schema to a column
(`@sourceInfo`) of a source (a schema id of a provider key); paths, arrays and
arguments' places are the subject of `ProviderQueries` and `FieldMapping`; variables are abstracted.

`Safety` is the specification without fairness; it is what `Exchange` implements.

`MCFederation` has one query, because queries share no variable of the engine;
two questions (an owner named twice, and an argument that is not a string);
three columns; two consents, of two owners; and two schemas, of which one maps
both fields to two schema ids of one provider. A provider uses OAuth2.

### Exchange

The engine together with the two services it asks: `Federation` with an instance of
`PolicyDecisionPoint` (`Pdp`) and one of `ConsentLedger` (`Ce`), in place of a
world in which rules and approvals are anything. A column of the engine is a field of
the PDP and a source a schema id; an owner is known to the consent engine by one
identifier that is its e-mail address too, as `federator.go:415` has it.

| Action | Code |
|---|---|
| `EngineStep` | a step of `Federation`'s engine, or an activation; the PDP and the consent engine are asked as they are now |
| `PolicyStep` | a step of the PDP: metadata, grants, other decisions, its clock |
| `ConsentStep`, `AskedByQuery`, `ConsentSettled` | a step of the consent engine: `Ask` and `Replace` for terms a query has posted, also when that query has given up; `Settle` by its owner, by the revoker or by expiry |

`policy` is `PolicyOf` the rows, and `approved` is `ApprovedOf` the ledger, in every
state. `Rule` takes the decision on one column; that the rules of the columns of a
query make the PDP's decision on all of them is the theorem `RulesAreDecisions`.
`posted` holds the terms that queries have sent (`TermsOf`); two history variables remember
when each query `arrived` and who has `signed` which terms. A service answers from
its state at one instant, between any two other steps; how long the answer travels
is the time until the query's next step, and a lost answer is `CallFails`. The
ledger has no deadlines: when a grant of an owner has run out is `ConsentEngine`'s
subject (`NoStaleApprovalServed`), and here it may be settled as expired at any time.

`ReleaseIsBacked` is the promise of the exchange as a whole: whatever a provider is asked
for is backed by a grant in the PDP's history and by a signature of the person.

`MCExchange` has one query about a field of each of two schemas, one application, its
owner and another person who may not decide, two consents, one request at a time at
the PDP, and one tick: metadata published and made public, grants given and expired,
and consents approved, revoked and replaced before, between and after the query's two
calls, also when it has given up. Posted terms are those of the one query; that
queries with other terms, for other owners or applications, change each other's
consents is left to the theorem, which is about any number of them.

### ProviderQueries

`builder.go`, `arghandler.go` and `QueryBuilder` of the same engine: how the
sources that a query needs become one request per provider. A path is a sequence
of names, and a provider query the set of the paths of its fields. `CollectSources`
takes over what `ProviderSchemaCollector` has found; `Build` takes one source after
the other, in any order, because the order is that of the consumer's query;
`Arguments` is the visitor that puts arguments on fields; `Send` hands the requests
over. `pushFieldToAst` goes down the selection sets recursively; adding the prefixes
of a path to the set (`PushField`) is what it does, and `MCFieldMapping` has TLC
compare the two for all series of three short paths (`PushedAsPaths`).

### FieldMapping

`FieldMapping` extends it with `mapper.go` and `accumulator.go`: the rest of the data
of one query that `Federation` abstracts. A query is the set of the paths it selects,
an answer a JSON value. `Collect` is the collection of sources and of the
schema info map, `Ask` the providers, some of which fail, and `Accumulate` one entry of
the schema info map, taken in any order because Go iterates over a map (`PushValue`,
`GetValue`, `Element`). Providers answer with what they hold at the fields asked for.
Every step of `FieldMapping` is one of `ProviderQueries` or leaves its variables alone.

What the code does not do is part of the model, and its properties are stated for
the rest. Arguments are put on fields under the first root field only, because
the visitor never leaves it (`Visited`). A list nested in a list element, or an
object in one, keeps the provider's names or is lost, and a list of scalars
becomes a list of empty objects: the schema of the run has lists of objects with leaves only.
Mappings have different target paths (`ConstantsAssumption`): of two with one
path the code keeps the first. `targetArgPath` is the path inside the provider's
query; the configuration examples write it with the provider key in front (section 4).
The second schema id of a provider is `Federation`'s.

`MCFieldMapping` has a schema like the engine's `schema.graphql`, every non-empty set of its
seven leaves as a query, three providers, nulls at three places, and lists of
zero and two vehicles.

### SchemaRegistry

`src/exchange/orchestration-engine/database/schema_db.go`. State: the stored
`rows`, the `active` ones, one transaction `tx` per slot, and the history
variables `last` (the version activated last) and `late` (the versions created
while an activation ran). `Begin` takes the snapshot of the first `UPDATE`,
`Deactivate` ends it when every row it saw is locked, `Activate` is the second
`UPDATE` with the `rowsAffected` check, then `Commit`, or `Abort` at any point (an
error, a crash, or PostgreSQL breaking a deadlock of two updates that meet the
rows in different orders). At READ COMMITTED a statement neither sees nor locks
rows inserted after it began: that is what `late` is about. Two schemas can be
left active because of it, against what the code and its documents say:
`OneActiveSchema`, which the run `schema_one_active` refutes. `ActivationServes` is what
is left of it: the version activated last is active, and any other one that is was
created while an activation ran.

`SchemaCompatibility` extends it with `services/schema.go`: the check of a new SDL
against the schema that is active at that moment (`CheckCompatibility`). Every
step of `CompatSpec` is one of `SchemaRegistry` with a check remembered beside it.
An SDL is a function from its fields to their types, and a type a name with the
lists and non-null types it is wrapped in; `TypeDefinition` is a type as
`getTypeDefinition` writes it, and `MCSchemaRegistry` has TLC compare it with that
function's recursion (`WrittenAsTypeDefinition`). The model has what the code
looks at, the fields of object types, and so says nothing of arguments, enums,
inputs, interfaces and `extend type`. With an SDL that cannot be parsed everything
is compatible, as in the code. Nothing makes an operator ask before activating, so
`UpgradesKeepQueries` is about series of upgrades that were checked: each check
compares two neighbours, and every query of every schema of the series stays valid
with its types.

`SchemaRegistry.cfg` has two transactions and three versions, of which two are
created before, during or after the activations: the smallest case in which a
row escapes both updates. The third version adds a field, changes a type inside a
list, or cannot be parsed; queries are up to three fields deep, the depth of the
documents.

## 3. Runs

| Run | Shows |
|---|---|
| `consent` | nobody but the owner's e-mail approves (`ApprovedByOwner`), deadlines fit the status (`DeadlinesMatchStatus`), creations get what they asked for (`AnswersTheRequest`), no lapsed approval is served (`NoStaleApprovalServed`), no two equal active rows (`ActiveRowsDistinct`), no replacement without a successor (`ReplacedHasSuccessor`), every step is one of the ledger, so that no consent is lost, changes hands or becomes pending again (`ImplementsLedger`) |
| `pdp_policies` | no access without a grant, also through stale allow lists (`NoUngrantedAccess`), owners always asked (`OwnerAlwaysAsked`), grants survive metadata and other schemas are left alone (`MetadataKeepsGrants`) |
| `portal_provisioning` | sagas are all-or-nothing apart from `unclean` (`AllOrNothing`), success is complete (`SuccessIsComplete`), a resource has one creation and keeps its outcome (`ImplementsLifecycle`), every request is answered that does not wait for ever for the identity provider (`EveryRequestAnswered`) |
| `portal_members` | members are complete or absent apart from `lost` (`MembersComplete`), an undisturbed update makes both sides agree (`ProfilesAgree`) |
| `portal_access` | only owners and administrators write (`OwnerOrAdminWrites`), read-only roles never do (`ReadOnlyRolesNeverWrite`), nobody is served the rows of others (`OnlyOwnRowsServed`) |
| `token_keys` | withdrawn keys expire after the code's hour and a timeout (`AcceptedWasPublished`), new ones arrive (`RejectedOnlyWhenNew`), every verification ends (`EveryVerificationEnds`) |
| `federation` | no provider is asked outside grants and consents (`Gate`), all about one owner (`OneSubject`), an answer lacks only what failed, and no source is forgotten (`AnswerComplete`), every query ends (`EveryQueryAnswered`) |
| `exchange` | with all three services: no provider is asked without a grant that had not run out when the query came, and the owner's own consent (`ReleaseIsBacked`) |
| `field_mapping` | provider queries select exactly the sources of the query (`RequestsComplete`), the answer has each source's value at its place in whatever order it is put together (`AnswerMatches`) |
| `schema_activation` | the last activation is active, and others only if created meanwhile (`ActivationServes`), checked upgrades keep every query (`UpgradesKeepQueries`), activations end (`EveryActivationEnds`) |
| `schema_one_active` | *violation*: two active schemas, against "the currently active schema" of `schema_db.go` and `openapi.yaml` |
| `pdp_lost_grant` | *violation*: of two concurrent grants on a field one is lost |

Every passing run but `field_mapping` and `exchange` also checks the type invariant of its module.

Two behaviours that a reader might expect to be excluded are not, and no text
of the repository excludes them: a consent decided after its pending timeout (only a lookup makes
it expire), and two approvals of one submission. And the consent
and the policy are not looked at again: `Gate` and `ReleaseIsBacked` say what a query
saw since it came, not what holds when the provider is asked.

The bounds: `MaxRecords` (consent records built), `MaxRows` (policy rows built;
in `PortalAccess`, rows inserted), `MaxTime` (ticks), `MaxRotations` (changes of
the published key set), `Depth` (of queries), and the sizes of the constant sets.
`MaxRows` and `MaxTime` bound the PDP of `Exchange` too.
Two requests are enough for every stale read against a committed write, since a
request holds one row and the table remembers what earlier requests did; the
theorems below lift the invariants to any number.

Fairness is assumed in five modules. `Provisioning`: `WF` of each request's
`OwnStep`, because Go schedules every runnable goroutine and because database
calls return, with an error if need be. Nothing is assumed of the PDP, so its
answer may never come; the client's timeout is what makes `EveryRequestAnswered`
true. Nothing is assumed of the identity provider either (`IdpStep`), and there no
timeout helps: its client is made from `context.Background()` without one
(`idp/asgardeo/client.go:27`), and a request's context has no deadline. A silent identity
provider holds a request for as long as its caller waits, with the submission already
approved or a compensation half done;
`EveryRequestAnswered` excepts such requests (`[]<>~WaitsForIdp(r)`). The same is true
of the calls in `Members`, for which no liveness is claimed. `Federation`: `WF` of the
engine's own steps, of its timeouts (`CallFails`, and `ProviderFails` where the client has one) and of the goroutines, none of the
services. A provider with OAuth2 is called through a client without a timeout, so
`EveryQueryAnswered` excepts a query that waits for a silent one.
`SchemaRegistry`, and `SchemaCompatibility` with it: `SF` of the statements that
wait for locks, because PostgreSQL queues the waiters and grants a lock in their
order, and `WF` of the commit. `TokenKeys`: `SF` of each verification's own steps,
because Go's `RWMutex` lets neither readers nor a writer wait for ever; the
identity provider owes no answer, since the HTTP clients time out.
Arrivals, crashes, policies, consents, rotations and the clock have no fairness.

All runs check for deadlock, apart from `field_mapping`, which stops when its
query is answered.

## 4. Where the code and its documents disagree

The models follow the code in each case. The first two are runs that end with a
counterexample.

* **One active schema** (`schema_one_active`). `schema_db.go:188` says "Deactivate all
  schemas", line 132 and `openapi.yaml:30` speak of "the currently active" one,
  `openapi.yaml:202` of "making it the active schema", and `HOW_TO_TEST.md:340` says
  "Schema activation changes immediately reflected in federator". The first `UPDATE` of
  an activation does not see a version that is created, and activated, while it runs:
  two are active, and `GetActiveSchema` (`LIMIT 1`, line 135) may serve the older
  activation until the next one.
* **Other applications' grants** (`pdp_lost_grant`). `policy_metadata_service.go:255` says
  that a grant "only updates the allow_list for a single application ID"; whole lists
  are read before the transaction and written back, and of two concurrent grants on a
  field the later commit removes the earlier one.
* **One active consent.** `consent-engine/v1/models/consent.go:11` and line 6 of the migration
  say that there is at most one pending *or* approved consent for an owner, e-mail and
  application. The unique index also covers the status (migration, line 32). In
  `ConsentEngine`, with the constants of `Consent.cfg`: two creations find no consent; the
  first inserts its row, which the owner approves; the second inserts its own, and
  both are active. `ActiveRowsDistinct` is what the index does guarantee.
* **Public fields.** The PDP's `README.md:167-169` says of public fields "Any app can
  access", and of restricted ones only (171-172) that the application must be in the
  allow list. `policy_metadata_service.go:321` looks for every field in its allow list, so
  an application without a grant is refused a public field. `NotAllowed` has the
  code's rule; `NoUngrantedAccess`, `Rule` and `ReleaseIsBacked` therefore speak of all columns,
  and by the README they ask more than is promised of public ones. That public fields
  need no consent is the same in both.
* **How long keys are cached.** The portal's `README.md:85` documents
  `JWT_CACHE_DURATION=15m  # JWKS cache duration`. No code reads the variable;
  `jwt_auth.go:373` has an hour (`time.Since(j.lastFetch) > time.Hour`). So a withdrawn key
  may be accepted for 45 minutes longer than an operator who follows the README
  expects, and `AcceptedWasPublished` holds with the hour and not with the 15 minutes.
* **201 or 200.** The PDP answers a metadata request it has carried out with 201
  (`handler.go:90`, `openapi.yaml:123`), and the portal takes every status but 200 for an
  error (`pdp_service.go:79`): `Provisioning` above.
* **Argument mappings.** `PROVIDER_CONFIGURATION.md:80` and `config.example.json:46` write
  `targetArgPath` with the provider key in front (`rgdf.person`), which
  `FindRequiredArguments` never matches: the paths have no key.

## 5. Proofs

The eight modules `*Proofs` prove, for all values of the constants that satisfy the
assumptions named in the modules (`ConstantsAssumption`, `NoneIsNoEntry`,
`RecordsAssumption`, `DocumentsAssumption`, `ExchangeAssumption`; they say what kind
of value a constant is, and that `None` is none of the others):

| Theorem | Property |
|---|---|
| `TypeCorrect`, `PolicyTypeCorrect`, `ProvisioningTypeCorrect`, `MembersTypeCorrect`, `AccessTypeCorrect`, `KeysTypeCorrect`, `FederationTypeCorrect`, `RegistryTypeCorrect` | `TypeOK` |
| `IndexHolds` | `ActiveRowsDistinct` |
| `ReplacementAtomic` | `ReplacedHasSuccessor` |
| `OwnerDecides` | `ApprovedByOwner` |
| `GrantsBounded` | `DeadlinesMatchStatus` |
| `CreateAnswers` | `AnswersTheRequest` |
| `HistoryIsKept` | `HistoryKept`, an action property (no run checks it: `ImplementsLedger` implies it) |
| `ApprovalsServedInTime` | `NoStaleApprovalServed` |
| `Refinement` | `ImplementsLedger` |
| `AccessIsGranted` | `NoUngrantedAccess` |
| `DecisionsWithinGrants` | `DecisionWithinGrant` (a theorem only; the run `exchange` checks what it is for) |
| `OwnersAreAsked` | `OwnerAlwaysAsked` |
| `GrantsSurvive` | `MetadataKeepsGrants` |
| `SagasAtomic` | `AllOrNothing` |
| `SuccessSound` | `SuccessIsComplete` |
| `LifecycleRefinement` | `ImplementsLifecycle` |
| `CreationsAccountedFor` | `MembersComplete` |
| `UpdatesAgree` | `ProfilesAgree` |
| `OwnersWrite` | `OwnerOrAdminWrites` |
| `ReadersWriteNothing` | `ReadOnlyRolesNeverWrite` |
| `OwnRowsServed` | `OnlyOwnRowsServed` |
| `WithdrawnKeysExpire` | `AcceptedWasPublished` |
| `NewKeysArrive` | `RejectedOnlyWhenNew` |
| `GateHolds` | `Gate` |
| `ReleasesAreBacked` | `ReleaseIsBacked` |
| `ExchangeImplementsFederation` | `Safety` of `Federation`: the exchange is a refinement |
| `ExchangeHasPolicies`, `ExchangeHasLedger` | the specifications of `PolicyDecisionPoint` and `ConsentLedger` hold in the exchange |
| `RulesAreDecisions` | the engine's rules by column are the PDP's decisions |
| `SubjectsAgree` | `OneSubject` |
| `AnswersComplete` | `AnswerComplete` |
| `RequestsSound` | `RequestsComplete` |
| `ActivationSound` | `ActivationServes` |
| `UpgradesSound` | `UpgradesKeepQueries` |
| `OwnersKept` | `KeepsOwners`, an action property (a theorem only; no run checks it) |
| `NeverWithoutSchema` | `StaysActive` (a theorem only; no run checks it) |

None of the invariants is inductive, because none says what a request holds in
memory.

**Consent engine.** `IInv` adds that a row a request will save has the
identity of the row stored under its key (`HeldRowOK`), a request that passed the
owner check still faces a row of the same e-mail (`FoundRowOK`), and a row about
to be inserted has a key nobody else uses (`NewRowOK`, `FreshKeysDistinct`). The
argument is that rows only grow and keep their identity (`Grows`), so a stale row
is stale only in status, deadlines and author, and those are consistent with
each other in every row ever held (`RowOK`). `Refinement` takes its facts about
each write from this invariant: initial states map to the empty ledger, and a step
that writes maps to `Ask`, `Settle` or `Replace` of the key it writes.

**PDP.** `PolicyInv` bounds every allow list there is by what was granted: those
of the rows, those that requests have read, and the entry a grant is about to
write (`Bounded`, `RowOK`, `ArgumentsOK`). `granted` only grows, so a list that is
written back late, or with a row that had been deleted, still keeps the bound.
A metadata request holds rows and records of one schema only (`AboutSchema`), and so
its commit changes no other (`KeepsGrantsStep`).

**Portal sagas.** `IInv` says, for each step of a saga, how far its resource has come
(`HeldOK`), that no two requests create the same resource (`Alone`), that an
update never holds a resource whose row does not exist yet (`UpdatesLate`), and
that a resource nobody works on is whole, gone or unclean (`UnheldOK`). Most
actions touch one resource only (`OnlyTouches`), so `HolderStep` carries the
preservation of the other conjuncts for all of them. `LifecycleRefinement` reads the
phases off this invariant (`PhasesAre`): every step but the start of a creation and a
late `SaveResource` leaves what no request creates as it is, apart from the PDP
(`Calm`), and is an `End` or changes no phase.

**Members.** `MembersInv` says the same of members (`RequestOK`), that no user is
created twice and no two creations hold one (`Apart`), and that a row or a group
membership is never there before its user (`UserFirst`). `Agreed` follows an
update: until it saves, the row is the one it has read, unless another has
overlapped it, and then the member is in `drift`.

**Portal authorization.** `AccessInv` rests on one fact: a row never changes
hands (`OwnersKept`). Whoever holds the id of a row, in any step, holds its one owner with it
(`HeldOK`, `SameOwner`), also while the row is deleted and its slot empty; members
keep their users. So the check of the owner, made on an earlier read, is still
right when the row is written or put back (`TokenOK`), and what is served (`ServedOK`).
That only writers come through the middleware to `PUT` (`OnlyWritersPut`) is a
fact about the endpoint table, whatever the mode.

**Token keys.** `KeysInv` relates the cache to the history of the published set: a
cached key was published at most one timeout before the cache's time stamp, and a
missing one added at most one before (`CacheOK`); an answer on its way says so of
the time it was asked for (`AnswerOK`), and a verification at each step knows how
old the cache it looks into may be (`LookOK`).

**Federator.** `IInv` says that the history `seen` contains at least what holds
now (`SawOK`), and what a query has been cleared for (`ClearedOK`): once the PDP
has decided, every column has been seen granted and is open or in `need`; past
the consent check, the columns in `need` are those of a consent of its owner
that was seen approved. A query's columns, sources and owner depend on its
question and schema only (`SameQuestion`), which no later step changes, and
`seen` only grows until the providers are asked, so a changing world cannot take
clearance back. `CallsOK` ties the calls to the sources of the query, of which none is `Forgotten`. `Gate`
then follows because only `FanOut` leaves `build` (`OnlyFanOut`).

**Exchange.** The argument is compositional. The proofs of `PolicyDecisionPoint` are
instantiated as they are (`PP`), for the PDP of the exchange: `ExchangeHasPolicies`
makes its invariant one of the exchange (`PoliciesInvariant`), and of it two facts are
used, that allow lists are within grants and that grants and clock only grow
(`GrantsFacts`). The ledger is the one `Refinement` shows the consent engine to
implement, so what is proved here holds of its tables. `ExchangeInv` adds to
`Federation`'s `IInv` that rules and approvals are those of the services, that each
approval was signed by its owner under terms a query had posted (`LedgerOK`), and
that what a query has seen is covered: a granted column by a grant that ended no
earlier than the query came (`Covered`), an approved consent by a signature
(`Ratified`). `StepRefines` turns each step into one of `Federation` or a stutter; a step of
the ledger changes at most one consent (`OneConsentChanges`), which is why
`ConsentChanges` has one, while a tick or a metadata commit may change many rules at
once, as `PolicyChanges` allows. `ReleasesAreBacked` then follows from `Federation`'s `AsksWhatItMay`.

**Provider queries.** `QueriesInv` follows `Build`: the providers with a request are
those of the sources taken so far, and each request has exactly the prefixes of the
paths of those that have its schema (`RequestOK`), so the order does not matter. The
theorem is about `QuerySpec`, in which any set of sources may have been collected;
`FieldMapping`, which the run checks, collects those of a query.

**Schema registry.** `IInv` says what each transaction has locked at each of its
statements, and that every row it has not seen is `late` (`TransactionOK`);
locks are disjoint, so of two transactions past their first update one waits,
and the commits' effects compose. For the compatibility check, `CompatInv` says that
the one active schema keeps every field of every schema served in the series, with
its type (`Keeps`). Three facts carry it: types that are written alike are the same,
because the name tells how many brackets there are (`SameType`); what is compatible
keeps (`CompatibleKeeps`); and `Keeps` is transitive, so checks of neighbours compose
(`UpgradeKeeps`). What keeps a schema answers its queries (`KeepsAnswers`).
`ChecksKeepRegistry` shows that `CompatSpec` is the registry with checks beside it.

Only model-checked: liveness (`EveryRequestAnswered`, `EveryQueryAnswered`,
`EveryActivationEnds`, `EveryVerificationEnds`), which is out of the prover's reach
like every statement about fairness and `ENABLED`; `AnswerMatches`, which is about
recursive definitions over trees; and the two comparisons of a closed form with the
code's recursion, which are assumptions TLC evaluates, `PushedAsPaths` and
`WrittenAsTypeDefinition`.

## 6. Not modelled

* **Token claims**: issuer, audience, organization and roles in the consent
  engine and the portal, and the whole of `orchestration-engine/auth/token.go`, are
  functions of one token without state; signatures are a library's.
* **`RequireRole`, `RequirePermission`** and the other wrappers of
  `middleware/authorization.go` that no route uses.
* **Reads without effect**: the consent portal's `GET`, listings of schemas,
  statistics, health checks. The portal's lists are in `PortalAccess`, because what
  they serve matters there.
* **Formats**: request bodies, identifiers, e-mail addresses, ISO durations; the
  models start from valid requests, and durations are ticks. Parsing and printing
  of GraphQL and JSON; fragments, aliases and variables of a query.
* **Audit events**, logs and metrics: sent without a promise, and nothing
  depends on them.
* **Configuration**, the connection retry at start-up, and the provider
  table, which is filled once.
* **The identity provider client** beyond the calls that the services make: its
  token source and its calls for secrets and group listings.
* **The browser portals.**

## 7. Plan

What would come next, in this order:

1. Token claims as operators with a reference definition, and the three services'
   verifiers compared with each other.
2. `Federation` and `FieldMapping` composed: one query whose provider requests are
   those of the mapping, in place of `Federation`'s sets of columns.
3. The grants of `Exchange` traced back to the portal: `Provisioning`'s calls as the
   requests of its PDP, so that a grant belongs to an approved application.
4. A run of `PortalAccess` with tokens of several roles, and of `Provisioning` with one
   administrator, for the consistency of a submission's status with its resource.
