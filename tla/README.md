# Toshi API: specifications, model checking and proofs

TLA+ specifications of nshm-toshi-api, the GraphQL API that stores the objects
of the New Zealand seismic hazard model: how ids are handed out, how objects are
created, changed and related and what a client reads back of them, how the search index is
kept and rebuilt, how clients page through the store, and how credentials are
issued, rotated, stored and checked. TLC checks each specification on small
instances; TLAPS proves the central theorems for every instance.

Paths below are relative to the repository root.

## 1. The system

The API is one AWS Lambda function (`graphql_api/app.py`). Each request is one
invocation, invocations run concurrently, and nothing is shared between them but
the stores they call:

* DynamoDB, four tables: `ToshiIdentity` (the id counter), `ToshiThingObject`,
  `ToshiFileObject`, `ToshiTableObject` (object_id -> object_type, JSON content);
* S3: the content of files, and `object.json` of objects older than DynamoDB;
* Elasticsearch: one document per object, written best effort.

There is no lock anywhere. Two things are atomic: one DynamoDB call, and the one
`transact_write_items` of a create. Everything between two calls can interleave
with every other invocation, fail, or never happen because Lambda stops the
invocation.

### Inventory

| Component | State | Operations | Modelled in |
|---|---|---|---|
| Id allocation and creation (`data/ids.py`, `data/dynamo.py` 182-402, `data/s3.py` 40-73, `models/*` create mutations) | id counter, object items, search documents, upload keys | read the counter, seed it, commit or cancel the transaction, index, put the upload placeholder, client upload | `ObjectCreation` (+ `IdRegister`) |
| Updates, relations, appended tables, reindex (`data/dynamo.py` 272-286, 463-562, `models/inversion_solution.py` 216-232, `schema.py` 739-753) | the items, their relation lists (packed above 100), documents | read, patch and put whole items; re-read and index | `ObjectUpdates` (+ `RecordAppends`) |
| Bulk indexing (`data/search.py` 186-266) | batches still to send, attempts, counts, rejections | send, halve, retry, list, raise | `BulkIndex` (+ `BulkContract`) |
| Search backfill (`data/backfill.py`, `scripts/backfill_search_index.py`) | what was read, the batch, the stats | read pages of two sources, filter, batch, flush, stop | `SearchBackfill` |
| Cursor listings (`data/dynamo.py` 408-454, `data/s3.py` 101-155, `schema.py` 441-467) | the client's cursor; nothing on the server | one page | `ObjectIdentities`, `LegacyIdentities` (+ `CursorListing`) |
| Classes, payloads, stored schema, dispatch (`models/*`, `data/models.py`, `models/_infra/_dispatch.py`, `schema.py`) | one record per object | 16 creates, 4 updates, relations, appended tables; reads by class, by reference, by list and by search | `ObjectTypes`, `ObjectRecords` |
| Swept-argument validation (`models/automation_task.py` 245-333, `models/general_task.py` 180-201) | the argument lists of the general task, the arguments of its tasks | validate and create a task; update either | `SweptArguments` |
| M2M credentials (`auth/create_m2m_secret.py`, `auth/rotate_m2m_secret.py`) | app clients, the secret, the authorizer's allowlist | mint, store, roll back; extend, put, sleep, delete, narrow | `SecretRotation` |
| Authorizer and scopes (`auth/authorizer/handler.py`, `graphql_api/auth.py`) | the authorizer's environment (a key cache besides) | decide on one request, then on one operation | `Authorizer`, used by `SecretRotation` |
| Token CLI (`auth/toshi_auth.py`) | two credentials files | login, token, whoami, aws-creds | `TokenCli` |
| Search query, reads, list connections | none | single reads | their fallback and re-reads are in `ObjectUpdates`, what they show in `ObjectRecords` |
| Tools, operator scripts, deployment | none | printing, comparing | not modelled (section 8) |

How they interact: `ObjectCreation`, `ObjectUpdates` and the live half of
`SearchBackfill` are the same write path seen with different data; the backfill
calls `bulk_index`, through `BulkContract`; the listings read the tables the
first two write. `ObjectRecords` takes one object through the same writes and looks
at its content, which the others leave out. `SweptArguments` is what one create does
before `create_thing`. The rotation scripts and deployments change the environment
in which the authorizer decides, so `SecretRotation` extends `Authorizer`.

### What is hard

* Creates race for one counter, over eventually consistent reads, with retries,
  lost answers, kills, and a first create that has to seed the counter.
* Mutations of one object read it, change their copy and put it back without a
  condition; a relation does so on two objects.
* The index is a copy written by two uncoordinated writers: the live path, one
  object at a time, and a backfill that writes what it read a while ago.
* `bulk_index` recurses on halves, retries whole requests and single documents,
  and can be thrown out of in the middle.
* A listing is a sequence of scans over a changing table, and the server keeps
  nothing in between.
* A field passes through four tables kept by hand (input, payload, stored model,
  reader), and a class through five dispatch tables and unions.
* A task is validated against a general task that is read, perhaps stale, before
  the create.
* A rotation is up to eight calls to three services over more than an hour, may stop
  between any two, and consumers hold tokens and secrets all the while.
* Shells share two files that are emptied and written in place.

The hazards these give rise to, each at its line and with the properties that
watch it, are the list `hazards` of `PROJECT.json`.

### What makes each component correct

* Creation: no two objects share a number, no number is lost, a retried or
  half-failed create stores at most one object and an acknowledged one is stored
  for good, nothing derived exists without its object, every create ends.
* Updates: an acknowledged relation is on both records; a put drops nothing
  somebody else wrote; a search document shows nothing its object lacks.
* Bulk indexing: every document ends up counted or listed, exactly once.
* Backfill: what it selects is in the index or listed as failed; its limits hold.
* Listings: nothing twice, nothing missed, an end.
* Records: what was acknowledged is read back, what cannot be read was reported, an
  object is shown as its class.
* Swept arguments: a stored task matched its parent at some time of the request, and
  a refusal is for the reason it gives.
* Rotation: a live token is served and the secret stays usable at every step, the
  old client is gone at the end, a request is served exactly what its credentials
  permit.
* Token CLI: the file never mixes two logins, a token is live when it is used, and
  commands that do not overlap lose nothing.

## 2. Modules

| Module | What it is | Extends / uses |
|---|---|---|
| `IdRegister` | abstract: each owner is issued at most one number, larger than all before | |
| `ObjectCreation` | the create path | refines `IdRegister` (in `MCObjectCreation`, `ObjectCreationProofs`) |
| `RecordAppends` | abstract: mutations that overlap append to records atomically, once, in order | |
| `ObjectUpdates` | mutations of stored objects | refines `RecordAppends` until a put races |
| `BulkContract` | abstract: what one bulk call promises | |
| `BulkIndex` | `bulk_index` | refines `BulkContract` |
| `SearchBackfill` | a backfill run beside live writes | takes `BulkContract`'s actions as its bulk call |
| `CursorListing` | abstract: what a paging client may expect | |
| `ObjectIdentities` | `object_identities` and a client | refines `CursorListing` |
| `LegacyIdentities` | `legacy_object_identities` and a client | refines `CursorListing` until S3 fails (in `ObjectIdentitiesProofs`) |
| `ObjectTypes` | tables: classes, inputs, payloads, stored models, readers, dispatch | |
| `ObjectRecords` | one object, from its create to every read path | `ObjectTypes` |
| `SweptArguments` | creates and updates of tasks beside their general task | |
| `Authorizer` | operators: what a request is allowed | |
| `SecretRotation` | the scripts, deployments and a consumer | `Authorizer` |
| `TokenCli` | `toshi_auth.py` in several shells | |
| `MC*` | constants for TLC | |
| `*Proofs` | theorems | the module, `TLAPS`, library theorem modules |

The backfill is composed with bulk indexing by contract: `BulkIndex` implements
`BulkContract` (checked and proved), and each bulk action of `SearchBackfill` is
a step of the `BulkContract` instance `Bulk` conjoined with what that step does
to the index and the run.

Definitions headed `Mutant` are alternatives of a definition next to them, with a
plausible mistake in it; `PROJECT.json` lists which property each of them breaks.
No specification uses them.

### ObjectCreation

`pc[r]` is the call request `r` makes next: `read` (the counter's `get_item`),
`seed`, `transact`, `index`, `post` (placeholder), then `done`, `error` or
`killed`. An object is its number, the drawn suffix, its class and the request
that made it; its content plays no part.

* `ReadCurrentId`, `ReadNoItem`, `SeedCounter`: `read_current_id`. An eventually
  consistent read returns any value the counter has had (`replicas`), which is
  more than DynamoDB would return; `get_item` is called without
  `ConsistentRead`.
* `CommitTransaction`: both writes at once under the condition; the answer may be
  lost, which raises and leaves the object stored. boto3's own retries carry the
  same `ClientRequestToken`, so a repeated request is the same transaction.
* `CancelTransaction`: the counter moved, or another transaction on it is in
  flight (a conflict). The suffix is drawn anew for each attempt. After
  `MaxAttempts` the create raises.
* `RaiseError`, `Kill`: any other error, and Lambda's end between two calls.
* `rewound` is a history variable: a create that found no counter item seeds it
  after others have seeded it and committed, and puts the counter back. It takes
  no part in any guard. The properties hold up to that step; what comes after it
  is described in section 3. `IdRegister` has the same escape (`void`).
* `IndexDocument`, `PresignedPost`, `ClientUpload`: best-effort PUT, placeholder,
  and the client's later upload. A failed placeholder put gives the client no URL.

### ObjectUpdates

An item is its `object_type`, whether its relation list is packed, and a set of
entries, each naming the part of the content it belongs to and the request that
added it, so an update that is lost shows as a missing entry. `replica[o]` is
the item before its last put, which an eventually consistent read may return.
Each request runs one of the five mutations as
reads (`ReadForPatch`, which raises for a missing item; `ReadForUpdate`, which
falls back to S3), whole-item puts (`WriteItem`, whose result is `Patched`),
re-reads (`FetchForIndex`) and index PUTs (`PutDocument`), first on one side,
then on the other; objects of the classes `NotIndexed` never get a document. `races`
records the requests that put over an item that had changed since they read it: it
takes no part in any guard.

`RecordAppends` is what a client would expect of all this: the content of the records
and nothing else, to which each mutation appends its entry in one step, as if nobody
else were writing, at most once, the second side of a relation after the first.
`ImplementsAppends` maps `content` to what a consistent read would return (the item, or
the legacy copy under it) and `void`, after which nothing is promised, to a race.

### BulkContract and BulkIndex

The recursion of `bulk_index` returns directly after its two halves, so the calls
still to run are a sequence of batches, `work`, the current one first. Batches
are sets; any split into halves of the right sizes is allowed, which includes the
split of the code's list. One action per answer: too large (413), retryable with
an attempt left, any failure that raises, and a response per document. A request
without a proper answer may have written any part of the batch. The code's last
statement (`search.py` 266) is reached by no call: the last attempt always
returns or raises before it.

`BulkContract` lets a call write any documents of its batch at any time, and
return only with each of them either written and counted or listed; while it runs
the caller knows neither (`Told` in the refinement mapping).

### SearchBackfill

A document is a version of an object; a legacy copy is version 1 and items are
newer. The run reads a page of a source (`ReadPage`; a scan page or one listed
key), skips, counts or takes each document, flushes a batch through the bulk
call, adds up the result and goes on with the next source. `Unselected` stands
for the filters that depend on the id or class only; `--since` is modelled by
three dates (none, before, since). The byte limit lets a batch go early at any
point, so `Take` may always flush. Beside it, `LiveWrite` puts a new version and
`LivePut` delivers or loses its document; the put of an older version may still be on
its way when the run starts. `atStart` is a history variable, what the run found: the
current copies, and the objects with such an overtaken put.

### CursorListing, ObjectIdentities, LegacyIdentities

Ids are their positions in the order of the scan. A table scan stops anywhere
(DynamoDB's 1 MB), and between any two scans items appear and change type.
S3's listing is static: legacy objects are no longer written. S3 lists at most
`MaxKeys` prefixes in one call (1000), whatever `first` asks for, so `PageSize` is the
smaller of the two. Any prefixes may be hidden, a whole page of them too; the answer
then has more to come and no cursor, and `sentBack`, a history variable, records that
a client was told so. At most one page of a legacy listing fails.

### ObjectTypes and ObjectRecords

`ObjectTypes` is the declarations as functions: for each of the 16 classes the
arguments of its create (the kind of each and which must be given), the conversion
each undergoes in the resolver's payload (`x if x else None`, `str(x)`, an attribute
per element, ...), the kind the Pydantic model demands, and the fields `from_dict`
hands on; the same for the four updates; then the registry, the dispatch functions
and the unions of each read path. What a kind or a conversion does to a value is
in `ObjectRecords` (`Sendable`, `Converted`, `Fits`), where values are what these
tell apart: null, the falsy value of the type, two others, a list with a null
member, an entry whose own list is null. A behaviour watches one field of one
object: `Create`, `Update`, `Relate` and `AppendTables` are the mutations with every
value of that field, `claim` is what the client was last told it holds. Fields do
not interact in the code, so one at a time is enough.

### SweptArguments

`versions` are the argument lists the general task has had. A create begins
(`Begin`), validates against a version it may read (`Validate`; the one before the
current too, since `get_thing` reads eventually consistently) and stores (`Store`).
`Checked` is the loop over the swept keys, which stops at the first wrong one;
`general_task_id` may be absent, no global id, of another type, of no object, or name
another thing under the type GeneralTask (`relabelled`). Beside it run
`update_general_task` and the updates of the task, which validate nothing.

### Authorizer and SecretRotation

`Authorizer` has no variables: `Context` is the handler's decision on one request
in an environment, `ScopesOf` and `Executes` are what `AuthExtension` makes of it. A
genuine signature is a flag of the token and expiry a number of ticks.

In `SecretRotation`, `job` is the script being run and the call it makes next.
`StartCreate`, `Mint`, `StoreFirst`, `Describe`, `Rollback` are
`create_m2m_secret.py`; `StartRotation`, `Mint`, `Extend`, `PutSecret`, `DeleteOld`,
`Narrow` are `rotate_m2m_secret.py`, with the read and the write of the
authorizer's configuration as two steps. `Stop` ends a script between any two
calls, which stands for an operator, an exception, and a call that took effect
although it raised. Around them: `Deploy` sets the whole environment as
`serverless.yml` does, with the secret's client or without; `Launch` gives the
secret to the consumer; `DeleteByHand` follows `--skip-delete`; the consumer fetches,
holds for up to `Hold` ticks, requests a token. `heeded` records that the operators
kept to what the documents ask: name the client in use as `--old-client-id`, change
the allowlist if there is one, do not start while tokens of an earlier client are
around, deploy with the clients in use on the list and not between its extension and
the cut-over, give the secret out after a run that reported success and a look at the
list, delete by hand only what is not in use, create only before that. They go by what
they see: a secret whose client a rollback deleted is not ruled out by it. `raced`
records that a script wrote back a configuration which a deployment had changed since
it was read. Both guard nothing; `TokensStayServed`, `SecretStaysUsable` and
`OldIsRetired` are conditional on the first, `SettingsSurvive` on the second, and
`ServedAsPermitted` on neither.

### TokenCli

Each shell runs a command from `load` (or `login`) to its end, with the credentials
it read in memory; `lag` counts the ticks since a token was checked or refreshed, up
to `MaxLag`, or `MaxAwsLag` in aws-creds, which calls two services with the token.
Writing is two steps, `open(..., 'w')`, which empties the file, and the flush;
a flush that follows another shell's may leave the tail of a longer text behind
(`behind`). `calm` records that no two writers overlapped and none died while
writing; it guards nothing. aws-creds has the same shape on the AWS file, of which
the profiles are kept.

## 3. Runs

Deadlock checking is off in every run, because requests, listings and scripts end
and nothing has to follow; that they do end is a liveness property instead.

Passing runs:

| Run | Instance | Shows |
|---|---|---|
| `create` | 2 creates of a file or of an unindexed class, 2 suffixes, 3 attempts, stale reads, no counter item at first, fair | until the counter is put back `AcknowledgedIsStored`, `DerivedDataBacked`, `UploadsSurvive`; whatever happens `OneObjectPerRequest` and `EveryCreateEnds`; refinement of `IdRegister`, so numbers are unique and grow |
| `updates_concurrent` | 2 concurrent mutations of all 5 kinds; 3 things (1 legacy, 1 of an unindexed class), 1 file; stale reads and faults | until a put races: acknowledged relations are on both records, no second side alone, no document shows what the object lacks, and mutations are the atomic appends of `RecordAppends`, so that no put drops anything, adds twice or out of order |
| `bulk_index` | 5 documents, 2 per request, 1 that never fits, 1 unindexed, 2 attempts, fair | each document in one place, every call ends, `BulkContract` (so the counts are true) |
| `backfill` | 2 objects, both sources, batches of up to 2, 5 command lines, at most 1 older put in flight at first, 1 live write, fair | selected objects repaired or listed, counts add up, `--max-failures` and `--limit` hold, every run ends |
| `identities` | 5 items, pages of 2, 2 mutations, fair | `CursorListing` (no repeats, none missed), an end |
| `legacy_listing` | 7 prefixes, any of them hidden, 4 asked for and 3 listed per call, 1 failing page, fair | `NoDuplicates` until the client is sent back; `NoneMissed`; with a gap that fills a page and S3 answering no end (`EndsWithoutGap`), without one an end (`GapOrEnd`) |
| `records` | every class, field and value; any sequence of updates, relations and appends | `FieldsReadBack`, `BrokenIsReported`, `ShownAsItsClass` |
| `swept` | 1 create of either task class, all 6 references, 7 argument lists, 7 arguments, 2 updates, stale reads | `StoredTasksMatchedParent`, `RefusedForItsReason` |
| `rotation` | 3 clients minted, tokens of 2 ticks, a sleep of 3, a secret held for 1; deployments and stops at any moment | `TokensStayServed`, `SecretStaysUsable`, `OldIsRetired`, `SettingsSurvive`, `ServedAsPermitted` |
| `tokens` | 2 shells, 3 logins, tokens of 4 ticks, buffers of 1 and 2, lags of up to 1 and 2 | `OneLoginInTheFile`, `UsedTokensAreLive`, `NothingLost` |

Two runs find a violation, with what the documentation says about it (quoted in
`findings`):

| Run | Property | Counterexample |
|---|---|---|
| `updates_lost_relation` | `AcknowledgedOnBothRecords` | two file relations overlap, both are acknowledged, and one is gone |
| `records_hidden_relation` | `RelationsReadBack` | a relation of an `OpenquakeHazardConfig` is acknowledged and stored, and the config shows none |

`UniqueNumbers`, `NumbersDense`, `NumbersFollowCreation`, `CreateNeverOverwrites`,
`IndexedIsWritten`, the type invariants of modules with proofs, and `NoDuplicates`
and `NoneMissed` of `ObjectIdentities` have no run of their own: they are theorems,
and the refinements that are run imply what matters of them.

### Other departures the models contain

These follow from the modelled code as directly as the two above, and the models
behave as the code does; no run is spent on them.

Creation, updates, index and listings:

* Two first creates can both find no counter item; the unconditional seed of the
  second (`ids.py:38`) puts the counter back after the first committed, and both
  objects get one number, told apart only by the random suffix. `_atomic_put`
  (`dynamo.py:185-186`) says "A conditional check on the counter value ensures no
  two concurrent writers get the same ID", and `numeric_id` (`backfill.py:97-98`)
  "a larger id means created later".
* `append_inversion_solution_tables` makes no index PUT
  (`inversion_solution.py:225`), although "The live write path indexes one object
  per mutation" (`backfill.py:4`).
* A backfill writes what it read up to a page and a batch earlier, without a version
  check (`backfill.py:178`): an object that was mutated and indexed in between gets
  its older document back. Nor does the live path check versions: a document PUT that
  another had overtaken before the run started may arrive after the repair, so
  `Repaired` leaves out the objects of `atStart.overtaken`.
* A page of `legacy_object_identities` of which every prefix is dropped has
  `hasNextPage` but no cursor (`s3.py:154`): a client that goes on starts over, sees
  ids again and never gets past the gap. No document promises more of this query:
  `tests/test_object_identities_legacy.py:112` ("no duplicates") is, in spite of its
  file name, about `object_identities`. The four properties of `legacy_listing` say
  exactly when this happens and that nothing else goes wrong.
* `append_inversion_solution_tables` writes back the relations that `get_file`
  unpacked, so a long list is stored unpacked until the next file relation
  (`inversion_solution.py:225`; `dynamo.py:49-50` describes the packed form). Every
  reader takes either form.
* The same mutation stores `object_type` "InversionSolution" whatever kind of
  file its id names (`inversion_solution.py:228`), so a ScaledInversionSolution
  moves to another class's listings, and it writes although `DB_READ_ONLY` is set
  (no `_assert_writable`). Both are in `Patched` and `Guarded`.
* A `bulk_index` call that raises drops the rejections it had collected
  (`search.py:236`), although `_flush` takes care to keep those of earlier calls.
  `EachDocumentOnce` and `BulkContract` promise nothing of such a call.
* A backfill that stops between its sources, by `--limit` or an error, leaves
  legacy copies over newer documents; `Repaired` is about finished, unlimited runs.
* `--since` looks at the later of `created` and `updated`, which most mutations
  do not set; `Repaired` is about the documents these dates select.
* `--limit 0` takes one document, since the limit is tested after counting;
  `LimitRespected` allows that one. (The help text says "stop after this many
  documents", `backfill_search_index.py:62`.)

Records:

* `OpenquakeHazardSolution.from_dict` passes none of the three relation arrays either
  (`openquake_hazard_solution.py:111-124`), and `StrongMotionStation` only its files,
  which its docstring says of it. `HiddenRelations` lists them with those of the run
  above; `FieldsReadBack` is about everything else.
* `update_general_task` takes a `subtask_result` and leaves it out of its payload; the
  creates of the two task classes take a duration of 0 for none; the two table ids of
  an inversion solution and the `object_id` of a table are taken and not kept
  (`Dropped`, `DroppedZero`). An empty list never clears a field.
* A list with a null member, or an entry whose `v` is null, is stored and fails the
  stored model's validation on every read after it; one such record makes its
  class's list query fail for everybody. `BrokenIsReported` says that at least the
  mutation answered an error; the write is not undone.
* Updates do not look at the class of what they update; appending tables accepts any
  file. `dispatch_search` says it returns None for an unknown class and falls back
  to a file, so a hit that is a Table is shown as a File. `dispatch_thing` of a child may
  return an `OpenquakeHazardConfig`, which its union lacks, and the union of predecessors
  lacks `RuptureSet` and `SmsFile`: these objects are not shown there at all.
  `ShownAsItsClass` is about the classes each union declares.

Swept arguments: `create_rupture_generation_task` does not validate; later updates of
either task can make the two disagree; an id of any other thing relabelled as a
GeneralTask passes, having no argument lists.

Rotation:

* With `--authorizer-function` the list is replaced by OLD,NEW and then by NEW
  (docstring: "extend"), so the scientist and automation clients of
  `serverless.yml` are dropped and people's tokens refused until the next
  deployment, which in turn drops NEW unless it was folded in.
* `--skip-delete` is described as "Stop after cutover + sleep"
  (`rotate_m2m_secret.py:89`) and stops before the sleep.
* A deployment between the read and the write of the authorizer's configuration is
  overwritten, its legacy key included (`rotate_m2m_secret.py:52-57`); this is `raced`.
* A rotation that stopped after the cut-over and is started again at once, with the
  client now in use as the old one, refuses the live tokens of the client before it:
  nothing waits for them. Started again with the same old id it mints a third client and leaves the second out of the list; stopped rotations
  leave clients behind.
* The rollback of `create_m2m_secret.py` after a put that did take effect deletes the
  client the secret names. Before the secret is given out this does no harm; a run
  of the script on a stage in use is what `heeded` assumes away.

Token CLI: `login` reads the file before it writes it, so a file that cannot be parsed
makes login fail too; overlapping commands can put an older login back, or drop
profiles of other tools from the AWS file (`NothingLost` is about commands that do
not overlap).

### Bounds and why they are enough

* Requests: 2 creates race for every pair of steps, the seed's included; with a
  transaction conflict each of them can also run out of attempts. The theorems
  of section 4 hold for any number of creates. 2 concurrent mutations are enough
  for every pairwise race.
* `MaxAttempts` is 3 and 2 instead of 10 and 5: attempts with a retry left and
  one without. `UNCOMPRESSED_LIMIT` is 1 instead of 100: one relation below it
  and one above.
* Two suffixes (57^5 in the code) give creates that draw the same one, whose ids
  differ only by their numbers, and creates that do not.
* Bulk: 2 documents per request force two levels of halving with an odd half.
* Backfill: one object with a legacy copy, with or without an item over it, and
  one that is only in DynamoDB, if at all; each in or out of the index. One live
  write, before, during or after the run, makes any document read stale, and one put
  left over from before the run is overtaken by what the run finds. Both objects
  are Things, so that they share pages and batches. The command lines are a full run,
  one with `--since`, limits of 0 and 2, the latter with `--max-failures`, and a dry
  run with a limit.
* Listings: 5 and 7 positions are two full pages and a rest. 16 pages let a client of
  the legacy listing start over more than once; without a gap it needs no more than
  `LegacyListingIsBounded` says, which is 16 for 7 positions.
* Records: values are the kinds the code tells apart, sequences are unbounded.
* Swept: requests of different tasks share only the general task, so one create is
  enough; two updates make three versions, one more than a stale read can reach.
* Rotation: three clients are a create and two rotations, or a rotation that was
  stopped and started again with one left over. The sleep outlasts a token and the
  time a secret is held, as 3700 s outlast the hour of a token; with a sleep of 2,
  or a secret held for longer, TLC finds `OldIsRetired` violated. `RotationAssumption`
  is this, named; the theorems assume no more of the times.
* Token CLI: two shells for every pairwise overlap, three logins for one between two
  others. Each buffer covers the time between its command's check and last use (60 s
  and 300 s in the code), and the shorter one would not cover that of aws-creds; the
  theorems ask no more of them.

`MaxActive`, `MaxWrites`, `MaxChanges`, `MaxPages`, `MaxUpdates`, `MaxClients`,
`MaxLogins`, `MaxLag` and `MaxAwsLag` bound the environment.

### Fairness

`FairSpec` of `ObjectCreation` has weak fairness on each request's own steps:
Lambda runs an accepted invocation until it returns, raises or is stopped, and
each call has a timeout. `BulkIndex` and `SearchBackfill` have it on the
function's steps: requests time out after 60 s, and the script runs until it ends.
The listings have it on the client asking and the server answering: a client that
wants the whole list goes on until there is no more. `ObjectRecords`,
`SweptArguments`, `SecretRotation` and `TokenCli` state no fairness and no liveness:
scripts and commands may stop anywhere. Nothing obliges clients to
call or upload, Lambda to kill, items to be created, or live writes to happen.

## 4. Proofs

`ObjectCreationProofs`, from `CreationAssumption`, for any set of requests, any
classes and suffixes:

* `TypeCorrect`; then `CreateInvariant`, `rewound \/ CreateInv`. `CreateInv`
  joins to the properties what makes them inductive: the counter is absent (and
  then no read has found it and nobody commits) or at least `FirstId`; every
  stored number is below the counter, and each number below it is stored; a
  request still before its commit owns no object; an upload key belongs to a
  create that returned. Uniqueness is not inductive without "every stored number
  is below the counter", which is what the transaction's condition turns into
  freshness, and a seed keeps it only while nothing is stored (`EarlySeed`).
* From it `NumbersUnique`, `NumbersAreDense`, `CreateIsDurable` (stored once it is
  acknowledged), `DerivedDataIsBacked`, `CreationIsOrdered`, `ClientBytesSurvive`, and
  the refinement `CreationImplementsRegister`.
* `OneObjectEach`, that one create stores one object at most, holds also after the
  counter was put back, so it cannot come from `CreateInv`: its invariant is that a
  request before its commit owns no object, whatever the counter is.
* `SeededIsNeverRewound`: with the counter item there before the first create, as
  on every stage in use, no read misses it, nothing seeds, and `DistinctNumbers`
  holds without a condition.
* `CallsAreBounded`: a create makes at most `3 * MaxAttempts + 2` calls, however many
  others race it (see the end of this section).

`ObjectUpdatesProofs`, from `UpdatesAssumption`, any objects, any number of
concurrent mutations: `TypeCorrect`, then `UpdatesInvariant`, whose core is that
without races every item a request or a replica holds is a subset of the current
one, and that a request past a side has its entry there. From it
`RaceFreeRelations`, `SecondSidesBacked`, `DocumentsBacked`, and the refinement
`UpdatesImplementAppends`, for which `PartsInv` adds what each request has written so
far, in whatever object: nothing, or before the second side of a relation the first.
It is what makes a put an append that was not made before. `SequentialRelations` has
hypotheses, each of which the code needs: acknowledged relations stay on both records
when mutations come one at a time over consistent reads. Faults and kills are allowed.
`SoloInv` adds that one request at most is under way and that what it has read is what
is stored, so that no put races. It is the other half of what `updates_lost_relation`
finds.

`BulkIndexProofs`, from `BulkAssumption`, any finite set of documents, any set of
oversized batches: `BulkInvariant` (the batches of `work` are disjoint, non-empty
and, with the counted and the listed documents, make up the batch), `TypeCorrect`,
`NoDocumentLost`, `CountIsTrue`, and `BulkImplementsContract`; and `RequestsAreBounded`,
that a call on n documents makes at most `(2n - 1) * MaxAttempts` requests.

`ObjectIdentitiesProofs`, from `IdentitiesAssumption`, any table, page size and
mutations: `ListingInvariant` says that everything given lies at or before the
cursor, everything collected between cursor and scan position, and that every id
listed all the time up to there has been given or collected. From it
`TypeCorrect`, `PagesRepeatNothing`, `ListingComplete` and
`IdentitiesImplementListing`. The others are about `LegacyIdentities`, with any prefixes
hidden and any page size. `LegacyInv` says that, until a page fails or the client is
sent back, it has exactly what is shown up to its cursor, in as many edges; and that it
was sent back only where a gap fills a page. From it `LegacyListingComplete`
(`NoDuplicates` and `NoneMissed`) and `LegacyGapDecides` (`EndsWithoutGap`, and that
nothing but a gap sends a client back). `LegacyIsAListing` proves that the listing starts
as `CursorListing` does and that each of its steps is one of `CursorListing`'s until a
page fails or sends the client back: up to there a client that follows cursors need not
know which of the two listings it reads.
`ListingIsBounded` and `LegacyListingIsBounded` bound their work.

`TokenCliProofs`, from `TokenAssumption` (no buffer shorter than its command's lag, no
token as short-lived), any number of shells, logins and ticks: `TokenInvariant` says of
every shell that its tokens are of one login, that the time left and the time spent
since the check together exceed the lag of its command, and that the steps of a login are apart
from those of the commands that use a token. `UsedTokensAreLive` is not inductive
without the second, which a refresh and each tick keep. From it `TypeCorrect`,
`OneLoginSaved` and `TokensLiveWhenUsed`. `FilesComeToNoHarm`, that nothing is lost by
commands that do not overlap, rests on `CalmInv`: while calm, one shell at most is
between its read and its write, it holds what it will write, and the file holds the
last login unless that shell has emptied it.

`SearchBackfillProofs`, from `BackfillAssumption`, any objects, sources, command lines and
batch size, any number of live writes:

* `StatsInv` says where the ids of a source are: to be read, read, in the batch or
  settled, in one of these only; that the bulk call is about the batch; and that the
  counts follow. From it `TypeCorrect`, `StatsAddUp`, `MaxFailuresHolds` and
  `LimitHolds`.
* `RunRepairsItsSources`, the promise of the script: a finished run that reads legacy
  sources before the tables (`LegacyFirst`, the order `main` lists them in) has repaired
  every object it selects and whose current copy it reads (`Covered`). For `--source
  dynamo` these are the objects with an item, for `--source legacy` those that have
  none; of an object with an item a legacy run promises nothing, and it may put the
  legacy document over the newer one. `RunRepairs` is the case of both sources
  (`BothSources`), where every object is covered: `Repaired`. The invariant says of
  every object to be repaired that it is still ahead of the run in the source that has
  its current copy, or settled, in the index or among the failures. `Settled` alone is
  lost when a legacy copy overwrites a newer document, which happens only while the
  object's item is ahead; this is what the order of the sources is for. Live writes
  during the run do no harm because they only increase versions, and puts in flight
  are not older than what the run found.
* `RunIsBounded`: whatever is written meanwhile, a run takes a bounded number of steps.

`SecretRotationProofs`, from `RotationAssumption`, any number of clients, any times:
`RotationInvariant`, then `TypeCorrect`, `RotationKeepsSettings`, `CallersStayValid`,
`SecretNamesUsableClient`, `RotationRetiresOld` and `CredentialsDecide`. Of its parts,
`ConfigInv` is the settings, and needs no more: a write that is not overtaken puts back
what it read but for the list. `ConsumerInv` and `PhaseInv` say, for each step of
a script, which clients exist, can be in flight and are allowed (of a run that reported
success, that the secret's client exists, whatever failed before it); and `SleepInv` relates the sleep that is left to what the consumer still holds: a token
of the old client expires before it ends, and the old secret is dropped early enough
for the last token it can still obtain. Without `SleepInv` the step that deletes the
old client would not keep `PhaseInv`. `CredentialsDecide` needs of the state only what
the environment can be made of (`TypeInv`): it is proved from the handler and the
scope extension, for every allowlist and legacy key and each kind of request.

`SweptArgumentsProofs`, from `SweptAssumption`, any lists and arguments, any number of
requests and updates, stale reads or not: `SweptInvariant`, then `TasksMatchTheirParent`
and `RefusalsAreFounded`. The work is in the lemmas on the loop of the validation:
it stops at the first wrong key (`FirstWrongDecides`), accepts only what satisfies
the lists (`CheckedSatisfies`), and a message says what is wrong (`RefusalHasReason`);
the dictionary it builds of the arguments keeps the last of two equal keys
(`ValueOfKey`). First and last positions exist because the naturals are well
founded. `ReadIsMet` says that a stale read is still of a version the general task
had around the request.

Bounded work. Liveness under fairness is out of the prover's reach, but the half of
it that is about the code is not: for each of the processes whose end a run checks, a
natural number that no step of the environment or of another process increases, that
the process's own steps decrease, and that is 0 exactly when it has ended.

| Theorem | At most | Environment that adds nothing |
|---|---|---|
| `CallsAreBounded` | `3 * MaxAttempts + 2` calls after the client's own | any number of racing creates, seeds, lost answers |
| `RequestsAreBounded` | `(2n - 1) * MaxAttempts` requests for n documents | any answers of the cluster |
| `RunIsBounded` | `5n + 1` steps per source of n objects, and one | live writes and puts; `BulkWrite`, the inside of a bulk call, is bounded by `RequestsAreBounded` |
| `ListingIsBounded` | `(Last + 1) * (Last + 2)` scans and requests | creations and changes of type |
| `LegacyListingIsBounded` | `2 * Last + 2` pages, if no gap fills one | one failing page |

The measures are where the retry limits, the halving (n documents make a tree of at
most 2n - 1 batches), the advancing cursor and the shrinking sets of ids come in.
What is left to TLC is that a process that has not ended can take a step and, by
fairness, takes it.

Only model-checked: that half of the liveness properties (`EveryCreateEnds`,
`EveryCallEnds`, `EveryRunEnds`, `EveryListingEnds`, `GapOrEnd`); and `FieldsReadBack`,
`BrokenIsReported` and `ShownAsItsClass` of `ObjectRecords`, a module without constants,
of which `records` explores every state there is, so that a proof would say nothing
more.

## 5. Assumptions about what is not in the repository

* DynamoDB: single-item calls are atomic; `get_item` without `ConsistentRead`
  may return an older value; a scan returns items in a fixed order of its hash
  key and continues after `ExclusiveStartKey`.
* boto3 gives a transaction one `ClientRequestToken` for all its own retries.
* S3: `StartAfter` of a prefix that ends in the delimiter skips that common
  prefix; listings are in key order.
* Elasticsearch: a document PUT replaces the document; a request that timed out
  may still have been applied. Rejections are per document.
* Cognito: tokens already issued stay valid when their client is deleted, until they
  expire; a deleted client gets no new ones. A refresh yields a token of the login
  whose refresh token was used.
* Lambda: `update_function_configuration` replaces the environment as a whole.
* Files: opening with 'w' empties the file at once; a short text is flushed as one
  write.
* The backfill's scan reads a page not older than the start of the run.

## 6. Reading a counterexample

`tlc -config UpdatesLostRelation.cfg MCObjectUpdates`, from this directory, prints
the lost relation in about a dozen steps, `tlc -config RecordsHiddenRelation.cfg
ObjectRecords` the hidden one in three states. The other configurations print one when a
definition is replaced by the alternative headed `Mutant` above it. The modules of
`ObjectIdentities`, `LegacyIdentities`, `ObjectRecords` and `SecretRotation` need no
MC module, their constants are numbers or none.

## 7. Plan

Done, in this order: creation; updates; bulk indexing; backfill; listings; the
abstract specifications `IdRegister`, `RecordAppends`, `BulkContract`, `CursorListing`; records;
swept arguments; rotation with the authorizer; token CLI; the proofs of section 4.

Every safety property that a run checks is now a theorem, but for those of
`ObjectRecords` (section 4), every abstract specification is shown to be implemented,
and every process whose end is checked is shown to have bounded work. `NoDuplicates`
and `NoneMissed` of `LegacyIdentities` are the two halves of `LegacyListingComplete`,
which names them through the instance `Legacy`.

What the code could use next, should it change: a condition on the puts of
`ObjectUpdates` would make `races` impossible and `ImplementsAppends` unconditional;
a cursor on every page with `hasNextPage` would remove `sentBack`; a seed of
the counter under a condition would remove `rewound`.

## 8. Not modelled

* `search` and `count_by_clazz` are single reads; the cut of a search result and the
  offset slices of `list_things` and its siblings, which exhaust a scan in one
  request, keep no state.
* Scalar formats, enum members, big integers and dates: `ObjectTypes` says which
  fields are scalars, not what they look like.
* `reindex` over several ids is its loop over one id, as modelled; an id that raises
  ends it.
* In the rotation: the scopes and name options, two operators at once, the JWKS
  cache of the authorizer. The bypass of scope enforcement for tests.
* `schema_parity.py`, `refresh_runzi_corpus.py`, `dump_poc_sdl.py`, `elastic_cli.py`
  and `create_users.py` are one-shot scripts that print, compare or make one sequence
  of calls; nothing runs beside them that they share state with.
* `serverless.yml` beyond the authorizer's environment: tables, roles, alarms.
