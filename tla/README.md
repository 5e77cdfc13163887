# A verification development of the backup cloud API

This directory holds TLA+ specifications of the cloud API in `src/cloud-api`
(Go, chi, pgx, PostgreSQL), the TLC configurations that model-check them and
proofs that TLAPS checks. The API has two jobs. It keeps the *revision history*
that several client devices synchronise, and it keeps *Baidu accounts* whose
encrypted tokens several devices share. The server holds nothing in memory between
two requests: all state is in PostgreSQL, and what makes the program hard is what
concurrent transactions, lost replies and repeated requests do to the tables.

All paths below are relative to `src/cloud-api/internal/cloudapi` unless they
begin with `src/` or `docs/`.

## 1. Inventory

| Component | State | Operations | Hard behaviour | What makes it correct |
|---|---|---|---|---|
| Revision rules (`server.go` 685-733, `index_payload.go`, `isConflict`) | none | validate an event, extract the index fields, compare it with the current version | null, aliases, wrong JSON types, equal versions | what is rejected is exactly what the checks forbid (what passes is not all storable, see section 5); the projection does not depend on arrival order |
| Revision store (`001_cloud_sync.sql`, `postgres_store.go` 884-1090) | `entity_revisions`, `cloud_entities`, `content_objects`, `archive_objects` | record an event as winner, conflict or duplicate | events in any order, deletes, two entities with one archive | the projection is the newest winner; one winner per version; indexes aggregate the winners |
| Revision ingestion (`handleSyncRevisions`, `applyRevision`) | requests in flight, open transactions, advisory locks, pool | one transaction per event, batch reply | interleaving, failing statements, a batch stored in part, lost acknowledgements, retries | behaves like the store, one event after the other; replies are true and complete; every batch is answered |
| Baidu accounts, tokens, leases (`postgres_store.go` 402-713) | `baidu_accounts`, bindings, `baidu_token_refresh_leases` | complete, select, read and update a token, acquire a lease | version computed twice, read before update, two clocks, lock order | a versioned register: a version names one token; no update is lost; a running lease is not taken |
| Baidu sessions (`server.go` 268-485, `postgres_store.go` 313-400, `baidu_handlers.go`) | `baidu_auth_sessions` | create in two flows, poll, callback, complete | callback after completion, two completions, expiry during slow calls, failures after Baidu redeemed the code | a session is bound only to who consented to it; a stored token is its user's; a redeemed code is never lost without a failure |
| Baidu OAuth client (`baidu_oauth.go`, `baidu_types.go`) | none | start a device flow, redeem a code, ask for the user | numbers as texts, numbers through float64, missing fields, overflow | a lifetime (up to 292 years) is what Baidu said in whatever form; a name is what Baidu said as far as an integer or a float can hold it |
| Token encryption (`baidu_crypto.go`, `baidu_handlers.go`) | none | AES-GCM, RSA-OAEP | the choice of key and hint | a bad key is refused, the key comes from the right place |
| Device registry (`server.go` 92-135, 648-683, `token.go`) | `devices` | register, authenticate, (external) revoke | revocation during a request, lost replies, restarts | no request starts with a revoked token; a token that was issued has its row |
| Queries (`server.go` 208-266, `postgres_store.go` 197-307) | none | content, archive, entity summary | two reads without a transaction, a history that is cut | a summary fits together and never goes back |
| Configuration (`config.go`) | environment, `EnvFileReport` | choose files, load them, resolve the values | precedence of flag, variable, files and lines; half-read files | the file that was named decides; the report explains the values |
| Process life cycle (`src/cloud-api/cmd/cloud-api/main.go`) | the process | start, serve, shut down | signals at every stage, handlers that outlast the deadline | a process that is told to stop stops |
| Client outbox (`src/client/migrations/sqlite`) | `sync_outbox` | external: only the table is in the repository | retries, lost replies | what is marked synced is stored |

**Interactions.** Every `/v1` route but registration, health and the OAuth callback
passes `requireDevice`, which puts the device into the request. A handler
validates its input and calls the `Store` interface; `PostgresStore` turns the call
into statements on a pgx pool. Components meet only in the database: by
`pg_advisory_xact_lock(hashtext(...))` (on entity ids, on Baidu uids and on
`baidu_lease:` ids, in *one* key space), by row locks, by unique keys and foreign
keys. Clients meet the server only by request and reply, and either may be lost.

The list of hazards, each at the line where it bites and with the properties
that would catch it, is `hazards` in `PROJECT.json`.

## 2. Modules

| Module | Stands for | Extends |
|---|---|---|
| `RevisionRules` | pure decisions on one event | |
| `RevisionStore` | the four tables, one event per step: the abstract specification | `RevisionRules` |
| `RevisionIngest` | requests, transactions, locks, failures: implements the store | `RevisionStore` |
| `CloudQueries` | readers next to a store that changes one event at a time | `RevisionStore` |
| `CloudSync` | the readers next to the transactions of the requests: implements `CloudQueries` | `RevisionIngest`, `CloudQueries` |
| `TokenRegister` | a versioned register per account: the abstract specification | |
| `BaiduAccounts` | accounts, bindings, leases, the requests on them: implements the register | instantiates `TokenRegister` |
| `SessionBinding` | a session is bound to the account of who consented: the abstract specification | |
| `BaiduReplies` | how numbers and names in Baidu's replies are read | |
| `BaiduSessions` | sessions, callbacks, completions, Baidu and the browser: implements the binding | `BaiduReplies`, instantiates `SessionBinding` |
| `CloudServer` | `main`, registration and the gate | |
| `CloudConfig` | `LoadConfig`, file by file and line by line | |
| `CloudProcess` | `CloudServer` whose start runs `CloudConfig`, over any number of restarts | `CloudServer`, `CloudConfig` |
| `RevisionStoreProofs`, `RevisionIngestProofs`, `CloudQueriesProofs`, `CloudSyncProofs`, `TokenRegisterProofs`, `BaiduAccountsProofs`, `BaiduSessionsProofs`, `CloudProcessProofs` | theorems and proofs | their module, `TLAPS` |
| `MC...` | events, batches, replies, files and lock keys for TLC | their module |

Definitions whose comment begins with *Variant* describe the program with one
mistake in it. No specification uses them; each says how a property would be
lost, and putting it in the place of the definition it varies makes TLC report that property.
Values such as `Blank`, `Oversized` or `None` stand for texts that the code treats alike;
`"unset"` stands for an empty text in a field of fixed words.

### RevisionRules and RevisionStore

An event is a record of its fields. Texts are opaque, `Blank` is any text that
`strings.TrimSpace` empties and `Oversized` any that `CHAR(64)` refuses, and `Nul` any with the character U+0000, which
`TEXT`, `JSONB` and `hashtext` refuse. A payload
is missing or broken (`NoPayload`), not an object (`NotObject`), or a record of the
eight fields that `index_payload.go` reads, each a value of the right type,
`Null`, `Absent` or `Mistyped`. The operators follow Go's decoding: a string of
the wrong type reads as empty without an error, null leaves a number 0, and the
first alias that is present decides. `Admissible` is what passes both the handler
and the index extraction; everything else is answered `rejected`. `RevisionStorable` and `IndexStorable` are what the
columns take of that, which is less.

`revisions` is `entity_revisions`. Since a row copies its event, it keeps the event,
the device, the status and `conflict_of`. `entities`, `contents`, `archives` map
keys to rows or `NoRow`. `Accept` and `RecordLoser` are `applyRevision` from its
decision on; `UpsertContent` and `UpsertArchive` are the two `ON CONFLICT DO UPDATE`s.

### RevisionIngest

`pc[r]` is where request `r` stands:

| Step | Code |
|---|---|
| `Refuse` | `handleSyncRevisions`: a batch has 1 to 100 events, `MaxEvents` in the model |
| `Receive` | the handler checks the whole batch: the invalid events have their answer (`Checked`), the positions of the others are kept in `job[r].positions` |
| `Reject` | `applyRevision`: the index extraction refuses an event, before the database |
| `Begin` | `BeginTx`, takes one of `PoolSize` connections |
| `Lock`, `LockFails` | `pg_advisory_xact_lock(hashtext(entity_id))`; `HashText` may collide |
| `LookupRepeat`, `LookupFresh`, `LookupFails` | the three reads and the decision, kept in `plan[r]` |
| `Insert`, `InsertFails` | `insertEntityRevision`: waits for an uncommitted row with the same event id, fails on a committed one |
| `Index`, `IndexFails` | the index upsert: waits for the row lock |
| `Commit` | the writes become visible, the answer is appended to `stored[r]` |
| `CommitUnacknowledged` | the commit took effect, the server sees an error |
| `Fail` | any statement fails, or the server stops: rollback |
| `Respond` | 200: `Place` puts the k-th stored answer at the position of the k-th valid event; `GiveUp` is 503 |

At READ COMMITTED the writes of a transaction are invisible to the others until
its commit, so `Commit` makes all of them in one step and the earlier steps only
wait for locks. The index values are computed at the commit from the row that
the transaction has locked since `Index`. The lookups are one step: the
advisory lock freezes what the second and third of them read, and the first
commutes with steps of other entities up to the next statement. A repeated batch
is a `Receive` of the same events at any later time.

What requests wait for has names of its own, which the guards use: `PoolHasRoom`, `WaitsForLock`, `WaitsForKey`,
`WaitsForIndex`. `WaitsFor(r, q)` puts them together, and `NoCircularWait` is about it.

### CloudQueries and CloudSync

Each reader asks one question after another and keeps the last answer to each. `ReadState` and
`ReadHistory` are the two statements of `GetEntitySummary`, with steps of the store between
them. `Latest` is `ORDER BY data_version DESC LIMIT 10`: rows of one version are ordered by
`created_at`, the start of their transactions, which the store does not keep, so any of them may
come first. `CloudSync` takes the place of `Write` by the requests of `RevisionIngest`: readers take no lock and
see what is committed, so a step is one of the requests or one of the readers. There `Told(r)` is what the replies have
told a client, and `RepliesShow` compares it with what a question finds.

### BaiduAccounts

An account is named by its Baidu uid, an envelope is a number that is never used
twice. `Complete...` is `CompleteBaiduAuthSession` after Baidu has exchanged the
code: advisory lock, `SELECT ... FOR UPDATE` (where the version of the reply is
computed), binding, commit. `Update...` is the handler's read and the single
conditional `UPDATE`. `Select...` writes the binding first and has its
foreign key checked against the account afterwards. `Acquire...` clamps the duration, takes `now()` at
the start of its transaction, reads the lease under the lock and compares its end
with the clock of the API server, which is off by at most `Skew`. `WaitsFor...`
state which row locks conflict (`FOR UPDATE` with the key share of a foreign
key, not with plain reads). `DeadlockDetected` is PostgreSQL's detector, for
the one cycle that exists: a completion and a first selection of the same account by the same
device. `known` and `granted` are what replies told a device. That a device
updates only a token it was given, after a lease was granted to it, is an assumption about the client and not a
check of the handler, which takes any version and any envelope.
`TokenRegister` sees of all this the tokens with their versions and what devices were told:
`ImplementsRegister` maps commits to `Replace`, commits whose reply is lost to
`ReplaceUnseen`, reads and the winning answers to `Tell`, all else to stuttering.

### BaiduSessions and BaiduReplies

`sessions` is `baidu_auth_sessions`, `accounts` the envelopes that completions stored. Of the
transaction of a completion this module takes the commit, `BaiduAccounts` the steps.
`Complete` to `StoreCommits` are `handleCompleteBaiduAuthSession`: the session is read once
(`Read...`), Baidu redeems the code (`Exchange...`), Baidu names the user and the token is encrypted
(`Identify...`), and the transaction writes account and session (`Store...`) without
looking at the session's status again. Between any two, callbacks, polls and another completion run,
and each may fail. Baidu is `codes`: which session a code was issued for, who consented, whether it
was redeemed. Whoever knows the state of a session may send a callback at any time and as often as they like, with any code issued for that
session, with one that Baidu never issued (`Stray`) or with none, and with an error or without
(`CallbackArrives`); only sessions of the code flow show their state to anybody. `lost` only records which tokens were given up.

`BaiduReplies` reads the fields of replies as `parseJSONInt64` and `rawJSONScalar`
do. A number comes in digits, with a point or an exponent, or in a text, which may have zeros or a sign in front; the first is read
into an integer, the second goes through `float64`, a text is a name as it is spelled. There are `2 * Half` integers for `int64`, `Unit` nanoseconds in a
second, and `Floats` are the integers that `float64` has, all of them as far as `Exact` (2^53 in the code), so that the limits of
all three are met: a number between two floats becomes the nearest, conversions of a float out of range give one of the two results that
Go's compilers produce, and products wrap around, those of the lifetimes of device codes too.

### CloudServer, CloudConfig and CloudProcess

`phase` is where `main` stands. `End` ends the process at any stage and takes the requests in
flight with it; rows and issued tokens stay. A signal before `signal.Notify` ends the process at
once, after it the process drains until the handlers are done or ten seconds have passed; connections that were accepted
before may bring requests while it drains (`Accepting`).
`job[r].revoked` remembers whether the device was revoked when the request arrived.

`CloudConfig` has one action per decision of `loadEnvFiles`, `loadEnvFileList` and `loadEnvFile`, the ways to fail included (`RefuseFile`, `RefuseLine`,
`RefuseValue`); a line is what `loadEnvFile` and `parseEnvValue` make of its characters. `at` and `line` are the loops' variables. `CloudProcess`
gives every start files, an environment and a flag of its own, lets a signal come between any two lines, and
lets `main` go on only with what the loader returned.

## 3. What the runs show

| Run | Instance | Result |
|---|---|---|
| `store_history` | 12 events on two entities, two devices; 82 thousand states | every order of arrival keeps the history, the projection and the indexes in agreement, and no step undoes what is stored |
| `ingest_safety` | two requests, nine batches of up to three events, all, some or none of them valid, pool of two, failures on; 66 thousand states | `IngestInv`, replies that are true and complete, `ImplementsStore` |
| `ingest_liveness` | three requests that meet at a lock, a unique key, an archive row and a pool of two, with an event that PostgreSQL refuses and no failures; 65 thousand states | no requests wait in a circle, every batch is answered, a 503 has its cause in the events |
| `duplicate_hides_conflict` | one request after the other, no failures: an event is accepted, a second one loses against it and is sent again | **violation**: the first answer to the event is `conflict`, the second `duplicate` |
| `unavailable_without_failure` | no database failures | **violation**: a batch is answered 503 by a healthy database |
| `cloud_sync` | one reader next to two requests on one connection, four events in three batches, a history of two revisions; 534 thousand states | a summary accounts for its state; one that looks torn was overtaken; answers never go back, and show what replies have told |
| `baidu_tokens` | two devices, two requests, three envelopes; 160 thousand states | a version names one token; an update replaces what its device refreshed, and its status; all of it is a versioned register; nobody waits in a circle but a selection and a completion of one device that have crossed |
| `baidu_leases` | durations 0, 1 and 4, the shortest 2 and the longest 3, three ticks, clocks one apart; 1.1 million states | no lease exceeds the limit, a running lease changes hands only at its end, `AccountsInv` |
| `baidu_liveness` | one device, two requests, three envelopes, one instant; 11 thousand states | every request ends, conflicts and deadlocks included |
| `update_without_lease` | no clock skew, one tick | **violation**: a device without the lease updates the token |
| `sessions` | one session of either flow and method, two users, two completions, two codes, callbacks of any content, one tick, 8 bit integers; 225 thousand states | `ImplementsBinding`, tokens are stored for their users, redeemed codes are settled, what late completions and late callbacks may do, lifetimes and names |
| `process` | two devices, two requests, two files (one listed twice) of good, bad and refused lines, every way to name one; 66 thousand states | the gate through restarts, tokens and rows, precedence and report of the files, silence after a revocation, the end of every shutdown |

**Bounds.** *Events*: the history of a version is about pairs, a winner and a
challenger, and about a third event that comes between; two entities suffice for everything that crosses
entities (one event id, one content, one archive). The sets hold each
kind of tie: rising, equal with the same and another record, falling, deleted,
repeated. `MaxEvents` is 2 so that a batch of three is over the limit, `HistoryLimit` 2 so that the
history of one entity is cut: a third revision with the version of the second is enough for that. *Requests*:
two interleave every pair of transactions; the third in the liveness run is the one
that finds the pool used up. With one connection in `cloud_sync` transactions follow each other but replies, questions and
the other request interleave with them; that two transactions at a time are steps of the store is the subject of `ingest_safety`. *Envelopes*: three allow a completion
between a read and an update and one more after it. *Time*: durations of two and three instants and three ticks let a lease run,
end and be taken over while an older transaction still commits, and the asked ones fall under the default, under the shortest and over the longest; sessions live for zero or more ticks,
so that one expires during a completion. *Codes*: two (`MaxCode`) let a second consent, by the same or another
user, meet a completion with the first code. *Files*: two and a repeated path; the lines set a variable twice,
to nothing, to spaces, and name another file. `Half` 128, which is 8 bits, `Unit` 10 and `Exact` 16 put the overflow of the integer, that of
the product and the rounding of floats into reach: the lifetimes lie around zero, the longest one and the largest integer, and some between two floats. The safety properties are also proved for every value of nearly all of these constants, see below.

The lock keys do not collide in the runs, which allows more interleavings than a
collision does; the proofs cover every `HashText`, `UidLock` and `LeaseLock`.

**Fairness.** `Progress(r)` of a request on the revision tables and on accounts is strongly fair: a goroutine is never
abandoned by the Go scheduler, and the queues a request may wait in (the pgx pool,
advisory locks, row locks) are first in, first out, so a request that is able to go on
again and again does go on.
The deadlock detector is strongly fair because `deadlock_timeout` is finite. A completion of a session is weakly
fair: its calls to Baidu end after 15 seconds and its locks are held by transactions that end. `main` is weakly fair
only where it waits for the handlers or the deadline of `Shutdown`. `StopEnds` assumes nothing of handlers;
`RevocationTakesHold` assumes in its own statement that they end. No fairness is assumed of clients, users, browsers,
operators, failures, or the clock.

## 4. What is proved

Every theorem holds for all values of the constants that meet the named assumptions of the modules: what a
typed event is, that special values are none of the ordinary ones, that bounds are numbers. The theorems that state a
property of a run are listed in `PROJECT.json`.

**`RevisionStoreProofs`** proves type correctness, each invariant of the store, and
`NothingIsUndone`. The invariants are inductive in the order in
which they build on each other:

- `OneWinnerPerVersion` does not preserve itself: that a new winner is not the second of
  its version follows from `ProjectionIsNewest`, since an event that is accepted either
  has a version above the current one or finds no entity. The projection in turn needs
  the types of the rows.
- `LosersNameTheirWinner` needs the projection, because a loser names the current event.
- The index invariants need that a row exists exactly for the keys that winners said,
  which their own statement carries along.

**`RevisionIngestProofs`** proves `IngestInv`, and from it that the transactions implement the
store: every step is a step of `StoreNext` or leaves the tables alone. `IngestInv` has
three parts besides types. `Consistent` says that a request with a plan still has a true
plan: the row it read is the row that is there (`PlanStands`), the
event is unseen once it is inserted. `Apart` says what excludes whom: the advisory lock keeps
two requests off one entity, the unique key keeps two uncommitted rows off one event id. Without
`Apart`, a commit of another request could make a plan stale; without `PlanStands`, the
commit would not be the step that the store takes. The invariant must allow a row with the
same event id to appear *between* the lookup and the insert, because that can
happen (the ids of different entities are not locked); only `Insert` closes it.
The refinement then carries every invariant of the store and `NothingIsUndone` over to the
concurrent program, for any number of requests, any batches, any hash function.
`RepliesTruthful` and `RepliesComplete` need more: a second invariant (`ReplyInv`) says that there is exactly one answer for
each valid event before the current one, that each answer is true of the store, that the verdict of a plan
will be true after its commit. The positions are those of the valid events in their order, each once (`Positions`), so that
`Place` fills just what `Checked` left open. Truth is kept because rows of the history are never changed; that the cloud revision of an
answer was accepted comes from the projection, at the moment of the commit.

`NoCircularWait` needs no invariant, but an argument: the stages of a transaction are the order in which it takes what others
wait for, and whoever waits at a stage waits for requests that are past it. So the request of a group that is furthest
waits for none of the group (`FurthestGoesOn`), however few connections there are and whatever collides. With the types
of the variables it follows that some request can always take a step (`IngestNeverStandsStill`). `CanGoOn` repeats
the guards of `Progress`, since `ENABLED` is beyond the prover; that the step is *taken* is `EveryBatchAnswered`, with
fairness, which TLC checks.

`UnavailableHasACause` says that on a healthy database a batch gets 503 only for its own current event: one that a column refuses or
whose event id another entity has. Its invariant (`RefusalInv`) adds that between the lookup and the insert no row of the
same entity gets the event id: it would have to come from a request with the same advisory lock. So races, as
opposed to values, cannot make a batch fail for ever.

**`CloudQueriesProofs`** has one idea: all that a reader was given comes from the history
of the store, which only grows, and what the store holds now is at least as new as anything in its history. So
`QueriesInv` asks that the state and the revisions in an answer are rows of the entity, and that
the index rows still say what a reader was told. A torn summary is then behind the store, and the state that is read next is
no older than the last one. That a cut history reaches its state is a fact about `Latest` and
cardinalities (`LatestReaches`), for any limit.

**`CloudSyncProofs`** puts the two together. A step of `CloudSync` is a step of the requests or nothing to them, and a step of `CloudQueries` or
nothing to the readers (`SyncStepProjects`), which gives two refinements: readers disturb no request, and the interleaved
transactions are single steps of the store to the readers. With them all that was proved of either side holds of both
together. `RepliesShow` is the property that neither side has alone: by `ReplyInv` what a reply told of is an accepted
revision, and by the projection and the indexes an accepted revision is shown, or something newer.

**`TokenRegisterProofs`** proves of the abstract register that a version names one token. What makes the invariant inductive is
that a replacement is newer than everything any device was told (`PutIsNewest`).

**`BaiduAccountsProofs`** proves `AccountsInv`, for any number of accounts, devices and requests and any clash of lock
keys. Between its statements a completion keeps what its row lock protects (`CompletionOwns`: the version it
computed is still the next one); an update knows of the version it read only that, if it is still the current
one, the row is the one that was read (`UpdateKnows`); an acquirer of a lease knows that the
lease it saw is still there and had ended up to the skew (`LeaseKnows`). `LocksApart` says who excludes whom. From it
follow `VersionNamesToken`, `UpdatesBuildOnTheirBase`, `LeasesAreShort`, `LeasesChangeHandsAtTheirEnd` and
the refinement of `TokenRegister`, which carries the promise of the register over to the tables (`RegisterPromiseKept`).

`OnlyOneDeviceDeadlocks` has one exception in its statement, a selection and a completion by one device that have `Crossed` on one
account and binding, and the proof shows that it is the only one. In a group of requests that all wait for one of the group nobody can wait
for an account but a selection that holds its binding; who waits for that binding is a completion, which is the only one on its account by the
advisory lock, so the two have crossed. Without them the group would wait for advisory locks only, which their
holders do not wait for. `AccountsNeverStandStill` adds that in every state with an open request one can go on, or the detector
finds a crossed pair.

**`BaiduSessionsProofs`** proves `SessionsInv`. A callback may replace the code of a session at any time, so the invariant
follows not the session but the codes: whatever code a row or a completion in flight has was issued for that session, if Baidu issued it at all, and
from the redemption on a completion has a code that somebody approved and an envelope that was made of it (`JobFits`). Of the session's status it
says only what `completed` entails. It gives `CompletedKeepsNoCode`, `TokensAreTheirUsers`,
`ExpiredCompletesOnlyFromBefore`, the refinement of `SessionBinding` and with it `BoundByConsent`.

`UserIsNamed` and `LifetimeIsMeant` are about every reply that Baidu may send and need no invariant. What `float64` makes of a number is any float
that is nearest to it: the number itself if there is one (`ExactFloats`, `ExactFromFloat`), else one of the same sign
(`FloatKeepsSign`), which is all that a lifetime out of range needs. A name that comes with a point or an exponent is the user's own only up to
`Exact`; beyond it the code may give two users one name, and the theorem claims nothing. A lifetime whose product with `Unit` fits is not changed by the
wrapping (`ShortLifetimeFits`). Of a lifetime beyond that, 292 years in the code, nothing is claimed: the product may wrap. The solvers decide it because the number of
integers is the constant `2 * Half` and no power.

**`CloudProcessProofs`** proves the gate and the loader apart and carries both over to the composed
process. `ServerInv` says what each stage of a request knows of the registry, which only grows. `ConfigInv`
generalises each property of the loader to the middle of a file: the environment has for each variable the value
of the first line *so far* that gives one (`PrecedenceSoFar`), the reports so far explain it (`ExplainedSoFar`), and
while a named file is required nothing else was loaded (`NamedSoFar`), and no line so far was a bad one (`CleanSoFar`). `FirstValueWins`,
`NamedFileDecides` and `ReportExplains` are these at the end of the last file.

The type invariants of all modules are proved. TLC checks those of the ingestion and the accounts as parts of `IngestInv` and
`AccountsInv`, and `ProcessTypeOK` by itself.

**Only model-checked:** the liveness properties (`EveryBatchAnswered`, `EveryRequestAnswered`, `RedeemedIsSettled`,
`RevocationTakesHold`, `StopEnds`), which are beyond the prover. All other properties of the runs that pass are proved.

## 5. Where documents and code differ

1. `docs/product_spec_v1.3.md` 676 lets a client take `duplicate` as success, but
   `applyRevision` (`postgres_store.go` 121) gives that answer to any known event id, one stored as
   a conflict included: the same event sent twice is answered `conflict` and then `duplicate`. Where the first
   reply is lost, the client hears of nothing but the `duplicate`.
2. Lines 678 and 679 promise 503 for an unavailable database and `rejected` for illegal
   fields. `handleSyncRevisions` (`server.go` 195) also answers 503 when PostgreSQL
   refuses an event that passed the checks, for ever: a digest that is too long, a schema version beyond `INTEGER`, a text with the character U+0000, or an event id that
   another entity has.
3. Line 189 demands that refresh tokens are updated by way of the lease *and* the version.
   The update (`server.go` 539-590, `postgres_store.go` 601-653) never looks at the lease.

Some things the models show, and that no document denies, are worth knowing:

- A callback that arrives late or twice turns a completed session back into authorized or failed
  (`postgres_store.go` 363-370). The binding stays, but a poll no longer shows it, and a completion of that
  session goes to Baidu again. This is why `CompletedKeepsNoCode` speaks of what is *shown*
  as completed.
- A completion that brings an RSA key and no hint stores the hint of the session's own key with it
  (`baidu_handlers.go` 93).
- A device that asks for its lease again replaces the end of the lease (`postgres_store.go` 699), by an
  earlier one if the new duration is shorter or an older transaction commits later: the lease may end before the device was told.
- The default of `BAIDU_REDIRECT_URI` is made from the default base URL, not from `PUBLIC_BASE_URL` (`config.go` 73).
- A content row keeps the digest and the size of the event that made it, while every later event of that content replaces the entity it names
  (`postgres_store.go` 1052): the three need not be of one event. `ContentIndexSound` and `NothingIsUndone` say what does hold.
- A `uid` that Baidu would send with a point or an exponent and beyond 2^53 is rounded (`baidu_oauth.go` 229-263), and a user who is named by
  `uid` in one reply and by `uk` in another has two accounts.
- A device that is revoked while its request runs, a token whose reply is lost, a completion cut off by the end of a shutdown: the first is served, the other two are
  lost. The properties bound these (`GateHolds`, `IssuedIsRegistered`, `StopEnds`), they do not deny them.
- A summary may have a history that is newer than its state. `TornIsOvertaken` says that asking again helps.

## 6. What is not modelled

- The texts of events, timestamps as data (`created_at`, `updated_at`), logging, HTTP parsing and
  routing, the wording of replies.
- Cryptography (`baidu_crypto.go`): which key and hint a token is encrypted with is modelled, AES-GCM, RSA-OAEP and key parsing
  are not. Tokens of devices are random and compared by digest, so a device stands for its token.
- The requests that the OAuth client sends, and the texts in its replies that nothing depends on. That a request fails or its reply is
  lost is in `BaiduSessions`.
- What the parser makes of the characters of a line of an environment file, and of `config.go` the settings: each is one `Getenv` with a
  default, off the environment that `CloudConfig` ends with.
- The limit that PostgreSQL puts on the size of an index entry, which very long ids would exceed.
- A callback that joins the state of one session with a code that Baidu issued for another.
- `last_seen_at`: the UPDATE of the authentication (`postgres_store.go` 65) ignores its own error and nothing reads the column.
- The list of accounts, a single read. Accounts, entities, devices and sessions are never
  removed by the code, so neither are they in the models.
- The client's outbox: the repository has its table and no code that uses it. The ingestion lets a client send any batch at any
  time, again too, which is all that the server can rely on.
- Build and key generation scripts, and the queries in `queries/cloud_sync.sql`, which the Go code does not use.
